------------------------------ MODULE MCDecode ------------------------------
(* All bodies of up to five symbols, one beyond the limit, and, for the    *)
(* shortest valid body, all names of up to one character too many.         *)
EXTENDS Decode

UpTo(n, S) == UNION {[1..k -> S] : k \in 0..n}

Request(m, b, n) == [mediaType |-> m, body |-> b, name |-> n]
MCInputs ==
    {Request("json", b, <<"a">>) : b \in UpTo(5, Symbols)}
        \cup {Request("+json", <<"open", "name", "close">>, n) : n \in UpTo(4, Characters)}
        \cup {Request(m, <<"open", "name", "close">>, <<"a">>) : m \in {"other", "malformed"}}
=============================================================================
