----------------------------- MODULE MCPageTable -----------------------------
(***************************************************************************)
(* Instances of PageTable for TLC: three layers of two entries, two tables *)
(* and fewer frames than they can ask for.  Physical page numbers fit in an*)
(* entry, the largest one just so.                                         *)
(***************************************************************************)
EXTENDS PageTable

MCVpns == {<<0, 0, 0>>, <<0, 0, 1>>, <<0, 1, 0>>, <<1, 0, 0>>}
==============================================================================
