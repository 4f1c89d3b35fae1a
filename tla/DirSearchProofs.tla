--------------------------- MODULE DirSearchProofs ---------------------------
(***************************************************************************)
(* What DirSearch promises, for every finite tree.                         *)
(***************************************************************************)
EXTENDS DirSearch, FiniteSetTheorems, TLAPS

Counted == handled \cap (Files \cap Matching)

\* The inductive invariant.  The answer counts what was handled, and what was
\* handled comes from the known directories, so once these are all closed
\* both sides of AnswerIsComplete are the same set.
Inv ==
  /\ known \subseteq Dirs /\ closed \subseteq known /\ Root \in known
  /\ handled \cap Dirs \subseteq known
  /\ \A d \in closed : Contents[d] \subseteq handled
  /\ \A e \in handled : \E d \in known : e \in Contents[d]
  /\ found = Cardinality(Counted)
  /\ answer # -1 => known = closed /\ answer = found

\* The matching files of a finite tree can be counted.
LEMMA CountedFinite ==
  ASSUME FiniteTree
  PROVE  IsFiniteSet(Counted)
BY FS_Subset DEF Counted, FiniteTree

\* The inductive invariant holds in the initial state.
LEMMA InvInit ==
  ASSUME FiniteTree, Init
  PROVE  Inv
<1>1. Counted = {}
  BY DEF Init, Counted
<1>2. found = Cardinality(Counted)
  BY <1>1, FS_EmptySet DEF Init
<1> QED
  BY <1>2 DEF FiniteTree, Init, Inv

\* Handling one more entry keeps the count exact.
LEMMA HandleKeepsInv ==
  ASSUME FiniteTree, Inv, NEW d \in Dirs, NEW e \in Contents[d], Handle(d, e)
  PROVE  Inv'
<1>1. e \notin handled /\ d \in known /\ d \notin closed
  BY DEF Handle
<1>2. e \in Dirs \cup Files
  BY DEF FiniteTree
<1>3. answer = -1 /\ answer' = -1
  BY <1>1 DEF Inv, Handle
<1>4. found' = Cardinality(Counted')
  <2>1. CASE e \in Files \cap Matching
    <3>1. Counted' = Counted \cup {e} /\ e \notin Counted
      BY <1>1, <2>1 DEF Counted, Handle
    <3>2. Cardinality(Counted') = Cardinality(Counted) + 1
      BY <3>1, CountedFinite, FS_AddElement
    <3> QED
      BY <2>1, <3>2 DEF Handle, Inv
  <2>2. CASE e \notin Files \cap Matching
    <3>1. Counted' = Counted
      BY <2>2 DEF Counted, Handle
    <3> QED
      BY <2>2, <3>1 DEF Handle, Inv
  <2> QED
    BY <2>1, <2>2
<1>5. \A x \in handled' : \E y \in known' : x \in Contents[y]
  BY <1>1 DEF Handle, Inv
<1>6. /\ known' \subseteq Dirs /\ closed' \subseteq known' /\ Root \in known'
      /\ handled' \cap Dirs \subseteq known'
      /\ \A x \in closed' : Contents[x] \subseteq handled'
  BY <1>2 DEF Handle, Inv
<1> QED
  BY <1>3, <1>4, <1>5, <1>6 DEF Inv

\* Every step keeps the inductive invariant.
LEMMA InvStep ==
  ASSUME FiniteTree, Inv, [Next]_vars
  PROVE  Inv'
<1>1. ASSUME NEW d \in Dirs, Close(d) PROVE Inv'
  <2>1. Counted' = Counted
    BY <1>1 DEF Close, Counted
  <2>2. answer = -1 /\ answer' = -1
    BY <1>1 DEF Inv, Close
  <2> QED
    BY <1>1, <2>1, <2>2 DEF Inv, Close
<1>2. ASSUME NEW d \in Dirs, NEW e \in Contents[d], Handle(d, e) PROVE Inv'
  BY <1>2, HandleKeepsInv
<1>3. CASE Report
  <2>1. Counted' = Counted
    BY <1>3 DEF Report, Counted
  <2> QED
    BY <1>3, <2>1 DEF Inv, Report
<1>4. CASE UNCHANGED vars
  <2>1. Counted' = Counted
    BY <1>4 DEF vars, Counted
  <2> QED
    BY <1>4, <2>1 DEF Inv, vars
<1> QED
  BY <1>1, <1>2, <1>3, <1>4 DEF Next

\* The number reported in line 495 is right for every finite tree: it counts
\* the matching files of a set of directories closed under subdirectories.
THEOREM AnswerCorrect ==
  ASSUME FiniteTree
  PROVE  Spec => []AnswerIsComplete
<1>1. Inv => AnswerIsComplete
  <2> SUFFICES ASSUME Inv, answer # -1
               PROVE  /\ Root \in closed
                      /\ \A d \in closed : Contents[d] \cap Dirs \subseteq closed
                      /\ answer = Cardinality({f \in Files \cap Matching :
                                         \E d \in closed : f \in Contents[d]})
    BY DEF AnswerIsComplete
  <2>1. known = closed /\ answer = found /\ found = Cardinality(Counted)
    BY DEF Inv
  <2>2. Counted = {f \in Files \cap Matching : \E d \in closed : f \in Contents[d]}
    BY <2>1 DEF Inv, Counted
  <2> QED
    BY <2>1, <2>2 DEF Inv
<1>2. Init => Inv
  BY InvInit
<1>3. Inv /\ [Next]_vars => Inv'
  BY InvStep
<1> QED
  BY <1>1, <1>2, <1>3, PTL DEF Spec
==============================================================================
