------------------------------- MODULE MCEdge -------------------------------
(* IDs of up to one byte more than may be, over two safe bytes and one     *)
(* that is not; CORS off, one origin, and every origin; the methods of two *)
(* routes, one that is listed for no route, and one that is not listed.    *)
EXTENDS Edge

MCClientIDs == UNION {[1..n -> Bytes] : n \in 0..3}
MCGenerated == {<<"a", "b">>, <<"b", "b">>}
MCCORSOptions == {{}, {"app"}, {"*"}}
=============================================================================
