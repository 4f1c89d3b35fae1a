------------------------------ MODULE DirSearch ------------------------------
(***************************************************************************)
(* What a search of a directory tree promises, however many threads it     *)
(* uses: directories become known, their entries are handled one by one,   *)
(* a directory is closed when none of its entries is left, and the number  *)
(* of matching files is reported once, when every known directory is       *)
(* closed.  pfind implements it when no scan fails.                        *)
(***************************************************************************)
EXTENDS Integers, FiniteSets

CONSTANTS
  Dirs, Files,      \* what there is below the searched root
  Root,             \* where the search starts
  Contents,         \* the entries of a directory
  Matching          \* the entries that are searched for

\* The tree the search is about.
FiniteTree ==
  /\ IsFiniteSet(Dirs) /\ IsFiniteSet(Files) /\ Dirs \cap Files = {}
  /\ Root \in Dirs
  /\ Contents \in [Dirs -> SUBSET (Dirs \cup Files)]

VARIABLES
  known,     \* the directories found so far
  closed,    \* those of them that are completely read
  handled,   \* the entries dealt with
  found,     \* how many of these are matching files
  answer     \* the number reported, -1 before that

vars == <<known, closed, handled, found, answer>>

Init ==
  /\ known = {Root} /\ closed = {} /\ handled = {}
  /\ found = 0 /\ answer = -1

Handle(d, e) ==
  /\ d \in known \ closed /\ e \in Contents[d] \ handled
  /\ handled' = handled \cup {e}
  /\ known' = IF e \in Dirs THEN known \cup {e} ELSE known
  /\ found' = IF e \in Files \cap Matching THEN found + 1 ELSE found
  /\ UNCHANGED <<closed, answer>>

Close(d) ==
  /\ d \in known \ closed /\ Contents[d] \subseteq handled
  /\ closed' = closed \cup {d}
  /\ UNCHANGED <<known, handled, found, answer>>

Report ==
  /\ known = closed /\ answer = -1
  /\ answer' = found
  /\ UNCHANGED <<known, closed, handled, found>>

Next ==
  \/ \E d \in Dirs : Close(d) \/ \E e \in Contents[d] : Handle(d, e)
  \/ Report

Spec == Init /\ [][Next]_vars

\* What line 495 of pfind.c prints when no scan has failed: the number of
\* matching files of a set of directories that holds the root and every
\* subdirectory of its members.
AnswerIsComplete ==
  answer # -1 =>
    /\ Root \in closed
    /\ \A d \in closed : Contents[d] \cap Dirs \subseteq closed
    /\ answer = Cardinality({f \in Files \cap Matching :
                               \E d \in closed : f \in Contents[d]})
==============================================================================
