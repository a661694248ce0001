--------------------------- MODULE MCWidgetPaging ---------------------------
(* Small instance of WidgetPaging: timestamps on both sides of a second    *)
(* boundary and within one second, page sizes 1 and 2, one limit below and *)
(* one above the accepted range.                                           *)
EXTENDS WidgetPaging, TLC

MCTimes == {999999, 1000000, 1000001}
MCLimitParams == {<<>>, <<0>>, <<1>>, <<3>>}

Symmetry == Permutations(Writers)

=============================================================================
