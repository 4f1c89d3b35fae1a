----------------------------- MODULE MCPccServer -----------------------------
(***************************************************************************)
(* Instances of PccServer for TLC: files of one line, one of them with a   *)
(* character that is not printable, and a file that ends with a newline.   *)
(***************************************************************************)
EXTENDS PccServer, TLC

CONSTANTS c1, c2, x, y, bell

MCOneLine == c1 :> <<<<x, x>>>> @@ c2 :> <<<<x, bell, y, x>>>>
MCNewline == c1 :> <<<<x, y>>, <<>>>>
MCLeftovers == {<<>>, <<x>>}
==============================================================================
