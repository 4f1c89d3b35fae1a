------------------------------ MODULE PageTable ------------------------------
(***************************************************************************)
(* The multi-level page tables of Assignment 1 and the frames they live    *)
(* in.  A virtual page number is the sequence of its 9-bit symbols.  An    *)
(* update walks down one node per step, allocating the nodes that are      *)
(* missing; nothing is ever freed.                                         *)
(***************************************************************************)
EXTENDS Integers, Sequences, FiniteSets

CONSTANTS
  Symbols, Depth,   \* the indices of a node, and how many make a page number
  Vpns, Ppns,       \* the arguments of the calls
  PpnSpan,          \* 2^52: what is left of a physical page number after << 12
  NPAGES,
  MaxTables,        \* bound: how many roots are allocated
  NO_MAPPING

Frames == 0 .. NPAGES - 1

ASSUME PageTableAssumption ==
  /\ Depth \in Nat \ {0} /\ NPAGES \in Nat /\ MaxTables \in Nat
  /\ Vpns \subseteq [1 .. Depth -> Symbols]
  /\ Ppns \subseteq Nat /\ PpnSpan \in Nat /\ PpnSpan > NPAGES
  /\ NO_MAPPING \notin Nat

VARIABLES
  nalloc, pages,    \* the frames handed out, and what all of them hold
  tables,           \* the roots
  layer,            \* how deep the running update is: 0 for none, -1 after errx
  node, pt, vpn, ppn,
  mapping           \* history: what the calls have asked for

call == <<pt, vpn, ppn>>
vars == <<nalloc, pages, tables, layer, node, call, mapping>>

Absent == [ppn |-> 0, valid |-> FALSE]

Init ==
  /\ nalloc = 0 /\ tables = {} /\ layer = 0 /\ node = 0
  /\ pages = [f \in Frames |-> [s \in Symbols |-> Absent]]
  /\ pt = 0 /\ vpn \in Vpns /\ ppn = NO_MAPPING
  /\ mapping = [t \in Frames |-> [v \in Vpns |-> NO_MAPPING]]

\* Altered form: the limit is forgotten.
Unlimited == TRUE

FrameLeft == nalloc # NPAGES

NewTable ==
  /\ layer = 0 /\ FrameLeft /\ Cardinality(tables) < MaxTables
  /\ tables' = tables \cup {nalloc} /\ nalloc' = nalloc + 1
  /\ UNCHANGED <<pages, layer, node, call, mapping>>

Update(t, v, p) ==
  /\ layer = 0 /\ layer' = 1 /\ node' = t
  /\ pt' = t /\ vpn' = v /\ ppn' = p
  /\ UNCHANGED <<nalloc, pages, tables, mapping>>

Pte == pages[node][vpn[layer]]

\* Altered form: the last node is allocated afresh.
LastNode == layer = Depth - 1 \/ Pte = Absent

NodeMissing == Pte = Absent

FollowEntry ==
  /\ layer \in 1 .. Depth - 1 /\ ~NodeMissing
  /\ node' = Pte.ppn /\ layer' = layer + 1
  /\ UNCHANGED <<nalloc, pages, tables, call, mapping>>

AllocateNode ==
  /\ layer \in 1 .. Depth - 1 /\ NodeMissing /\ FrameLeft
  /\ pages' = [pages EXCEPT ![node][vpn[layer]] = [ppn |-> nalloc, valid |-> TRUE]]
  /\ node' = nalloc /\ nalloc' = nalloc + 1 /\ layer' = layer + 1
  /\ UNCHANGED <<tables, call, mapping>>

OutOfMemory ==
  /\ layer \in 1 .. Depth - 1 /\ NodeMissing /\ ~FrameLeft
  /\ layer' = -1
  /\ UNCHANGED <<nalloc, pages, tables, node, call, mapping>>

\* Altered form: the page number is cleared and the valid bit kept.
Cleared(entry) == [entry EXCEPT !.ppn = 0]

Invalid(entry) == [entry EXCEPT !.valid = FALSE]

Install ==
  /\ layer = Depth /\ layer' = 0
  /\ pages' = [pages EXCEPT ![node][vpn[layer]] =
       IF ppn = NO_MAPPING THEN Invalid(@)
                           ELSE [ppn |-> ppn % PpnSpan, valid |-> TRUE]]
  /\ mapping' = [mapping EXCEPT ![pt][vpn] = ppn]
  /\ UNCHANGED <<nalloc, tables, node, call>>

\* Where the first i symbols of v lead.
Walk(t, v, i) ==
  LET at[j \in 0 .. i] ==
        IF j = 0 THEN t
        ELSE IF at[j - 1] = NO_MAPPING \/ ~pages[at[j - 1]][v[j]].valid
        THEN NO_MAPPING
        ELSE pages[at[j - 1]][v[j]].ppn
  IN  at[i]

page_table_query(t, v) == Walk(t, v, Depth)

Next ==
  \/ NewTable \/ FollowEntry \/ AllocateNode \/ OutOfMemory \/ Install
  \/ \E t \in tables, v \in Vpns, p \in Ppns \cup {NO_MAPPING} : Update(t, v, p)

Spec == Init /\ [][Next]_vars

-----------------------------------------------------------------------------

\* The frames handed out stay within the memory, and a walk within these frames.
TypeOK ==
  /\ nalloc \in 0 .. NPAGES /\ tables \subseteq 0 .. nalloc - 1
  /\ pages \in [Frames -> [Symbols -> [ppn : 0 .. PpnSpan - 1, valid : BOOLEAN]]]
  /\ layer \in -1 .. Depth /\ (layer > 0 => node \in 0 .. nalloc - 1)
  /\ pt \in Nat /\ vpn \in Vpns /\ ppn \in Ppns \cup {NO_MAPPING}
  /\ mapping \in [Frames -> [Vpns -> Ppns \cup {NO_MAPPING}]]

\* Every query, also of another page number or table, and also while nodes are
\* being allocated, answers what the last update of the page asked for
\* (pt.c:15: "ppn specifies the physical page number that vpn should be mapped to";
\* pt.c:26: "The physical page number the vpn is mapped to, or NO MAPPING").  It
\* needs page numbers of 52 bits: longer ones lose their upper bits on line 62.
QueryCorrect ==
  \A t \in tables, v \in Vpns : page_table_query(t, v) = mapping[t][v]

\* Every frame handed out is the node of one prefix of one table: none is shared
\* between two places, and none is lost (os.c:27-28, pt.c:44-47).
OnePath ==
  \A f \in 0 .. nalloc - 1 :
    \E t \in tables, v \in Vpns, l \in 0 .. Depth - 1 :
      /\ Walk(t, v, l) = f
      /\ \A u \in tables, w \in Vpns, k \in 0 .. Depth - 1 :
           Walk(u, w, k) = f => u = t /\ SubSeq(w, 1, k) = SubSeq(v, 1, l)
==============================================================================
