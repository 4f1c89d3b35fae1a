-------------------------- MODULE SerialSlotProofs ---------------------------
(***************************************************************************)
(* What holds of message_slot when calls do not overlap, for every number  *)
(* of processes, slots, channels and messages: no channel is lost, a read  *)
(* returns a whole message, and the driver implements AtomicSlot with its  *)
(* four departures.                                                        *)
(***************************************************************************)
EXTENDS MessageSlotProofs, DataInduction

\* Calls do not overlap.
Serial == Overlap = FALSE

\* At most one process is in a call.
Alone == \A p, q \in Procs :
  task[p].pc \notin Outside /\ task[q].pc \notin Outside => p = q

\* The first node of the list of a slot.
Root(m) == IF minors[m] = NULL THEN NULL ELSE slots[minors[m]]

\* L says which nodes are in the list of each slot.  Nodes are linked in the order
\* in which they were allocated.
Nets == [Minors -> SUBSET Nat]

First(n, S) == n \in S /\ \A k \in S : n <= k

Successor(n, S) ==
  IF nodes[n].next_node = NULL THEN \A k \in S : k <= n
  ELSE /\ nodes[n].next_node \in S /\ n < nodes[n].next_node
       /\ \A k \in S : k <= n \/ nodes[n].next_node <= k

Lists(L) ==
  /\ \A m \in Minors :
       /\ L[m] \subseteq 1 .. Len(nodes)
       /\ IF Root(m) = NULL THEN L[m] = {} ELSE First(Root(m), L[m])
       /\ \A n \in L[m] : Successor(n, L[m])
  /\ \A m, k \in Minors : m # k =>
       L[m] \cap L[k] = {} /\ (minors[m] = minors[k] => minors[m] = NULL)
  /\ \A n \in 1 .. Len(nodes) :
       (\A m \in Minors : n \notin L[m]) => nodes[n].next_node = NULL

\* A list has one node for each channel.
Distinct(L) ==
  \A m \in Minors : \A n, k \in L[m] : nodes[n].channel_id = nodes[k].channel_id => n = k

Numbers(L, m) == {nodes[n].channel_id : n \in L[m]}
Acknowledged(m) == {c \in 0 .. IdSpan - 1 : <<m, c>> \in acknowledged}

In(p, m, labels) == task[p].pc \in labels /\ file[p].minor_num = m

\* The channel that has been linked but not acknowledged.
Created(m) == {Id(file[p].channel_num) : p \in {q \in Procs : In(q, m, {"count"})}}

\* The channels of a list are those acknowledged and the one about to be.
Known(L) == \A m \in Minors : Numbers(L, m) = Acknowledged(m) \cup Created(m)

\* numOfChannels is INT_SIZE for every channel, and once more for the first.
CountsChannels ==
  module # "unregistered" => \A m \in Minors :
    numOfChannels[m] =
      IF Acknowledged(m) = {} /\ ~\E p \in Procs : In(p, m, {"set_root", "count"})
      THEN 0 ELSE INT_SIZE * (Cardinality(Acknowledged(m)) + 1)

\* numOfDrivers is the number of slots, but for the one about to be counted.
SlotsCounted ==
  {m \in Minors : minors[m] # NULL /\ ~\E p \in Procs : In(p, m, {"open_count"})}

CountsSlots == numOfDrivers = Cardinality(SlotsCounted)

\* Outside of device_write, the size of a channel is that of its message.
Sized(n) ==
  IF nodes[n].message = None THEN nodes[n].size = 0
  ELSE nodes[n].size = Length[nodes[n].message.text] /\ nodes[n].size # 0

Stored ==
  \A n \in 1 .. Len(nodes) :
    Sized(n) \/ \E p \in Procs : task[p].pc = "store_message" /\ task[p].node = n

Whole(t) == \E w \in Messages : [i \in DOMAIN t.buffer |-> t.buffer[i].text]
                                  = [i \in 1 .. Length[w] |-> w]

\* A process between two calls.
AtRest(t, f) ==
  /\ t.call = None
  /\ f = Closed => t.ret = "none" /\ t.buffer = <<>>
  /\ t.pc = "dead" => f = Closed
  /\ t.buffer # <<>> => Whole(t)

\* The calls that reach each place.
CallOf(t, f) ==
  /\ t.ret = "none"
  /\ t.pc \in {"open_limit", "open_store", "open_count"} => t.call = None
  /\ t.pc \in {"check", "root", "find"} => t.call \in {"ioctl", "write", "read"}
  /\ t.pc \in {"first", "set_root", "tail", "link", "count"} => t.call = "ioctl"
  /\ t.pc \notin {"check"} /\ t.call = "ioctl" =>
       t.arg \in Params /\ t.arg # 0 /\ f.channel_num = t.arg
  /\ t.pc \notin {"check"} /\ t.call = "read" => t.arg \in 1 .. BUFFER_LENGTH
  /\ t.pc \notin {"check"} /\ t.call = "write" => Id(f.channel_num) # 0

\* The new node is the last one, and is in no list yet.
Fresh(t, f, L) ==
  /\ t.fresh = Len(nodes) /\ \A m \in Minors : t.fresh \notin L[m]
  /\ nodes[t.fresh].channel_id = Id(f.channel_num) /\ nodes[t.fresh].next_node = NULL
  /\ nodes[t.fresh].message = None

\* What a call has found out.
InCallOf(t, f, L) ==
  LET m == f.minor_num
      c == Id(f.channel_num)
  IN
  /\ t.pc \in Opening => minors[m] = NULL
  /\ t.pc = "open_store" =>
       slots[t.fresh] = NULL /\ \A k \in Minors : minors[k] # t.fresh
  /\ t.pc \in {"root", "first", "set_root"} => t.slot = minors[m]
  /\ t.pc \in {"first", "set_root"} => Root(m) = NULL
  /\ t.pc = "find" =>
       /\ t.root = Root(m)
       /\ t.node # NULL => t.node \in L[m]
       /\ \A n \in L[m] : t.node = NULL \/ n < t.node => nodes[n].channel_id # c
  /\ t.pc \in {"set_root", "tail", "link"} => Fresh(t, f, L)
  /\ t.pc \in {"tail", "link"} =>
       t.node \in L[m] /\ c \notin Numbers(L, m) /\ ~LimitReached(m)
  /\ t.pc = "link" => nodes[t.node].next_node = NULL
  /\ t.pc = "count" =>
       <<m, c>> \notin acknowledged /\ (LimitReached(m) => Acknowledged(m) = {})
  /\ t.pc \in {"store_message", "test_size", "copy"} =>
       t.node \in L[m] /\ nodes[t.node].channel_id = c
  /\ t.pc = "store_message" => nodes[t.node].size = Length[t.arg]
  /\ t.pc \in {"test_size", "copy"} => t.size = nodes[t.node].size
  /\ t.pc = "copy" =>
       /\ t.size # 0
       /\ \A i \in DOMAIN t.buffer : t.buffer[i].text = nodes[t.node].message.text

\* What is known of a process and its file.
Doing(p, L) ==
  /\ file[p] # Closed => module = "ready"
  /\ IF task[p].pc \in Outside THEN AtRest(task[p], file[p])
     ELSE CallOf(task[p], file[p]) /\ InCallOf(task[p], file[p], L)

\* The inductive invariant, on top of SlotInv.
Orderly(L) ==
  /\ L \in Nets
  /\ Alone /\ Lists(L) /\ Distinct(L) /\ Known(L)
  /\ CountsChannels /\ CountsSlots /\ Stored
  /\ \A p \in Procs : Doing(p, L)

SerialInv == \E L \in Nets : Orderly(L)

-----------------------------------------------------------------------------
(* Steps of one process while all others rest. *)

Rests(q) == task[q].pc \in Outside

OthersRest(p) == \A q \in Procs \ {p} : Rests(q)

LEMMA CallersAreAlone ==
  ASSUME Alone, NEW p \in Procs, ~Rests(p)
  PROVE  OthersRest(p)
  BY DEF Alone, Rests, OthersRest

LEMMA CallsStartAlone ==
  ASSUME Serial, NEW p \in Procs, MayCall(p)
  PROVE  OthersRest(p) /\ task[p].pc = "user"
  BY DEF Serial, MayCall, At, Rests, OthersRest, Outside

\* The others are still at rest afterwards, where they were.
LEMMA OthersStay ==
  ASSUME SlotInv, NEW p \in Procs, OthersRest(p), Local(p)
  PROVE  /\ OthersRest(p)'
         /\ \A q \in Procs \ {p} : task'[q] = task[q] /\ file'[q] = file[q]
         /\ \A q \in Procs \ {p} : task[q].pc \in Outside /\ task'[q].pc \in Outside
<1>1. \A q \in Procs \ {p} : task'[q] = task[q] /\ file'[q] = file[q]
  BY DEF SlotInv, Local
<1> QED
  BY <1>1 DEF OthersRest, Rests

\* Who has reached one of the places inside a call can only be p.
LEMMA OnlyInCall ==
  ASSUME SlotInv, NEW p \in Procs, OthersRest(p), Local(p),
         NEW m, NEW S, S \cap Outside = {}
  PROVE  /\ \A q \in Procs : In(q, m, S) => q = p
         /\ \A q \in Procs : In(q, m, S)' => q = p
  BY OthersStay DEF In

LEMMA OneMoves ==
  ASSUME SlotInv, NEW L \in Nets, Orderly(L), NEW p \in Procs, OthersRest(p), Local(p),
         UNCHANGED module,
         NEW K \in Nets, Lists(K)', Distinct(K)', Known(K)', CountsChannels', CountsSlots',
         Stored', Doing(p, K)'
  PROVE  Orderly(K)'
<1>1. Alone'
  BY OthersStay DEF Alone
<1>2. ASSUME NEW q \in Procs \ {p} PROVE Doing(q, K)'
  <2>1. task'[q] = task[q] /\ file'[q] = file[q] /\ task[q].pc \in Outside
    BY OthersStay
  <2>2. Doing(q, L)
    BY DEF Orderly
  <2>3. AtRest(task[q], file[q])'
    BY <2>1, <2>2 DEF Doing, AtRest, Whole
  <2> QED
    BY <2>1, <2>2, <2>3 DEF Doing
<1> QED
  BY <1>1, <1>2 DEF Orderly

\* The places at which the books are not balanced.
Marked == {"open_count", "set_root", "count", "store_message"}

LEMMA QuietMove ==
  ASSUME SlotInv, NEW L \in Nets, Orderly(L), NEW p \in Procs, OthersRest(p), Local(p),
         UNCHANGED <<driver, acknowledged>>,
         task[p].pc \notin Marked, task'[p].pc \notin Marked, Doing(p, L)'
  PROVE  Orderly(L)'
<1>1. Lists(L)' /\ Distinct(L)'
  BY DEF Orderly, Lists, Distinct, Root, First, Successor, driver
<1>2. \A q \in Procs, m \in Minors :
        ~In(q, m, Marked) /\ ~In(q, m, Marked)'
  <2>1. \A q \in Procs : task[q].pc \notin Marked /\ task'[q].pc \notin Marked
    BY OthersStay DEF Marked, Outside
  <2> QED
    BY <2>1 DEF In
<1>3. \A m \in Minors : Acknowledged(m)' = Acknowledged(m) /\ Numbers(L, m)' = Numbers(L, m)
  BY DEF Acknowledged, Numbers, driver
<1>4. Known(L)'
  <2>1. \A m \in Minors : Created(m) = {} /\ Created(m)' = {}
    BY <1>2 DEF Created, In, Marked
  <2> QED
    BY <1>3, <2>1 DEF Orderly, Known
<1>5. CountsChannels'
  BY <1>2, <1>3 DEF Orderly, CountsChannels, In, Marked, driver
<1>6. CountsSlots'
  <2>1. SlotsCounted = {m \in Minors : minors[m] # NULL}
    BY <1>2 DEF SlotsCounted, In, Marked
  <2>2. SlotsCounted' = {m \in Minors : minors[m] # NULL}
    BY <1>2 DEF SlotsCounted, In, Marked, driver
  <2> QED
    BY <2>1, <2>2 DEF Orderly, CountsSlots, driver
<1>7. Stored'
  <2>1. \A q \in Procs : task[q].pc # "store_message"
    BY DEF OthersRest, Rests, Marked, Outside
  <2> QED
    BY <2>1 DEF Orderly, Stored, Sized, driver
<1> QED
  BY <1>1, <1>4, <1>5, <1>6, <1>7, OneMoves DEF driver

\* What a process knows in a call depends on its locals when nothing else changes.
LEMMA DoingSame ==
  ASSUME UNCHANGED <<driver, acknowledged>>, NEW p \in Procs, NEW L \in Nets
  PROVE  InCallOf(task[p], file[p], L)' <=> InCallOf(task'[p], file'[p], L)
  BY DEF InCallOf, Fresh, Root, Numbers, LimitReached, Acknowledged, driver

LEMMA FileStays ==
  ASSUME SlotInv, NEW p \in Procs, UNCHANGED file, task' = [task EXCEPT ![p] = task'[p]]
  PROVE  Local(p)
  BY DEF Local, SlotInv

\* A call that moves on, and changes no memory.
LEMMA MoveOrderly ==
  ASSUME SlotInv, NEW L \in Nets, Orderly(L), NEW p \in Procs,
         task[p].pc \notin Outside \cup Marked, task' = [task EXCEPT ![p] = task'[p]],
         UNCHANGED <<driver, file, acknowledged>>,
         task'[p].pc \notin Outside \cup Marked,
         CallOf(task'[p], file[p]), InCallOf(task'[p], file[p], L)
  PROVE  Orderly(L)'
<1>1. OthersRest(p)
  BY CallersAreAlone DEF Orderly, Rests
<1>2. Local(p)
  BY FileStays
<1>3. Doing(p, L)
  BY DEF Orderly
<1>4. Doing(p, L)'
  BY <1>3, DoingSame DEF Doing, CallOf, driver
<1> QED
  BY <1>1, <1>2, <1>4, QuietMove

\* A call that returns, and changes no memory.
LEMMA ReturnOrderly ==
  ASSUME SlotInv, NEW L \in Nets, Orderly(L), NEW p \in Procs, NEW r,
         task[p].pc \notin Outside \cup Marked, Return(p, r),
         UNCHANGED <<driver, file, acknowledged>>
  PROVE  Orderly(L)'
<1>1. OthersRest(p)
  BY CallersAreAlone DEF Orderly, Rests
<1>2. task'[p] = NoCall("user", r) /\ task' = [task EXCEPT ![p] = task'[p]]
  BY IdleIsNoCall DEF Return, SlotInv
<1>3. Local(p)
  BY <1>2, FileStays
<1>4. Doing(p, L) /\ file[p] # Closed
  BY InACall DEF Orderly
<1>5. Doing(p, L)'
  BY <1>2, <1>4 DEF Doing, AtRest, NoCall, Outside, driver
<1>6. task'[p].pc \notin Marked
  BY <1>2 DEF NoCall, Marked
<1> QED
  BY <1>1, <1>3, <1>5, <1>6, QuietMove

-----------------------------------------------------------------------------
(* Steps that change no memory. *)

LEMMA OpenOrderly ==
  ASSUME Serial, SlotInv, NEW L \in Nets, Orderly(L), NEW p \in Procs, NEW m \in Minors,
         OpenKnownSlot(p, m) \/ OpenNewSlot(p, m)
  PROVE  Orderly(L)'
<1>1. OthersRest(p) /\ task[p].pc = "user" /\ module = "ready"
  BY CallsStartAlone DEF OpenKnownSlot, OpenNewSlot
<1>2. /\ file'[p].minor_num = m /\ file'[p] # Closed
      /\ file' = [file EXCEPT ![p] = file'[p]]
  <2>1. PICK c \in Garbage : file' = [file EXCEPT ![p] = Opened(m, c)]
    BY DEF OpenKnownSlot, OpenNewSlot
  <2>2. Opened(m, c).minor_num = m /\ Opened(m, c) # Closed
    BY MessageSlotAssumption DEF Opened, Closed
  <2> QED
    BY <2>1, <2>2 DEF SlotInv
<1>3. /\ task' = [task EXCEPT ![p] = task'[p]]
      /\ UNCHANGED <<driver, acknowledged>>
  BY DEF OpenKnownSlot, OpenNewSlot, Return, SlotInv
<1>6. CASE OpenKnownSlot(p, m)
  <2>1. task'[p] = NoCall("user", "none")
    BY <1>6, IdleIsNoCall DEF OpenKnownSlot, Return, SlotInv
  <2>2. Doing(p, L)'
    BY <1>1, <1>2, <1>3, <2>1 DEF Doing, AtRest, NoCall, Outside, driver
  <2> QED
    BY <1>1, <1>2, <1>3, <2>1, <2>2, QuietMove DEF Local, Marked, NoCall
<1>7. CASE OpenNewSlot(p, m)
  <2>1. task'[p] = NoCall("open_limit", "none") /\ minors[m] = NULL
    BY <1>7, IdleIsNoCall DEF OpenNewSlot, SlotInv
  <2>2. CallOf(task'[p], file'[p])
    BY <1>2, <2>1, MessageSlotAssumption DEF CallOf, NoCall
  <2>3. InCallOf(task'[p], file'[p], L)
    BY <1>2, <2>1 DEF InCallOf, NoCall
  <2>4. Doing(p, L)'
    BY <1>1, <1>2, <1>3, <2>1, <2>2, <2>3, DoingSame
    DEF Doing, CallOf, NoCall, Outside, driver
  <2> QED
    BY <1>1, <1>2, <1>3, <2>1, <2>4, QuietMove DEF Local, Marked, NoCall
<1> QED
  BY <1>6, <1>7

\* A process that closes its file, or dies.
LEMMA CloseOrderly ==
  ASSUME SlotInv, NEW L \in Nets, Orderly(L), NEW p \in Procs, OthersRest(p),
         task[p].pc \notin Marked, NEW c \in Outside,
         task' = [task EXCEPT ![p] = NoCall(c, "none")],
         file' = [file EXCEPT ![p] = Closed], UNCHANGED <<driver, acknowledged>>
  PROVE  Orderly(L)'
<1>1. task'[p] = NoCall(c, "none") /\ file'[p] = Closed
  BY DEF SlotInv
<1>2. Doing(p, L)'
  BY <1>1 DEF Doing, AtRest, NoCall, Outside, Closed
<1>3. Local(p) /\ task'[p].pc \notin Marked
  BY <1>1 DEF Local, SlotInv, NoCall, Marked, Outside
<1> QED
  BY <1>2, <1>3, QuietMove

LEMMA LeaveOrderly ==
  ASSUME Serial, SlotInv, NEW L \in Nets, Orderly(L), NEW p \in Procs,
         (\E m \in Minors : OpenBeforeAllocation(p, m)) \/ Release(p) \/ ReadMissing(p)
  PROVE  Orderly(L)'
<1>1. OthersRest(p) /\ task[p].pc \notin Marked
  BY CallsStartAlone, CallersAreAlone
  DEF OpenBeforeAllocation, Release, ReadMissing, At, Marked, Orderly, Rests, Outside
<1>2. /\ task' = [task EXCEPT ![p] = NoCall("user", "none")]
           \/ task' = [task EXCEPT ![p] = NoCall("dead", "none")]
      /\ file' = [file EXCEPT ![p] = Closed] /\ UNCHANGED <<driver, acknowledged>>
  BY IdleIsNoCall DEF OpenBeforeAllocation, Release, ReadMissing, Return, Die
<1> QED
  BY <1>1, <1>2, CloseOrderly DEF Outside

LEMMA EnterOrderly ==
  ASSUME Serial, SlotInv, NEW L \in Nets, Orderly(L), NEW p \in Procs, NEW x \in Calls,
         Enter(p, x[1], x[2])
  PROVE  Orderly(L)'
<1>1. OthersRest(p) /\ task[p].pc = "user"
  BY CallsStartAlone DEF Enter
<1>2. /\ task' = [task EXCEPT ![p] = task'[p]]
      /\ task'[p] = [Idle EXCEPT !.pc = "check", !.call = x[1], !.arg = x[2]]
      /\ UNCHANGED <<driver, file, acknowledged>>
  BY DEF Enter, SlotInv
<1>3. /\ task'[p].pc = "check" /\ task'[p].call = x[1] /\ task'[p].ret = "none"
  BY <1>2 DEF Idle
<1>4. x[1] \in {"ioctl", "write", "read"}
  BY DEF Calls
<1>5. CallOf(task'[p], file[p]) /\ InCallOf(task'[p], file[p], L)
  BY <1>3, <1>4 DEF CallOf, InCallOf, Opening
<1>6. Doing(p, L)
  BY DEF Orderly
<1>7. Doing(p, L)'
  BY <1>2, <1>3, <1>5, <1>6, DoingSame DEF Doing, CallOf, Outside, driver
<1> QED
  BY <1>1, <1>2, <1>3, <1>7, FileStays, QuietMove DEF Marked

\* What is known of a process in a call.
LEMMA CallerKnows ==
  ASSUME SlotInv, NEW L \in Nets, Orderly(L), NEW p \in Procs, task[p].pc \notin Outside
  PROVE  /\ CallOf(task[p], file[p]) /\ InCallOf(task[p], file[p], L) /\ module = "ready"
         /\ task[p] \in Tasks /\ file[p] # Closed /\ file[p].minor_num \in Minors
         /\ Locals(task[p], file[p]) /\ Argument(task[p])
         /\ Id(file[p].channel_num) \in 0 .. IdSpan - 1
  BY InACall DEF Orderly, Doing

LEMMA LoadSlotOrderly ==
  ASSUME SlotInv, NEW L \in Nets, Orderly(L), NEW p \in Procs, task[p].pc = "check",
         LoadSlot(p), task[p].call # "ioctl", UNCHANGED <<driver, file, acknowledged>>,
         task[p].call = "read" => task[p].arg \in 1 .. BUFFER_LENGTH,
         task[p].call = "write" => Id(file[p].channel_num) # 0
  PROVE  Orderly(L)'
<1>1. CallOf(task[p], file[p]) /\ task[p] \in Tasks
  BY CallerKnows DEF Outside
<1>2. /\ task'[p] = [task[p] EXCEPT !.pc = "root", !.slot = minors[file[p].minor_num]]
      /\ task' = [task EXCEPT ![p] = task'[p]]
  BY DEF LoadSlot, SlotInv
<1>3. /\ task'[p].pc = "root" /\ task'[p].call = task[p].call /\ task'[p].ret = task[p].ret
      /\ task'[p].slot = minors[file[p].minor_num] /\ task'[p].arg = task[p].arg
  BY <1>1, <1>2 DEF Tasks
<1>4. CallOf(task'[p], file[p])
  BY <1>1, <1>3 DEF CallOf
<1>5. InCallOf(task'[p], file[p], L)
  BY <1>3 DEF InCallOf, Opening
<1> QED
  BY <1>2, <1>3, <1>4, <1>5, MoveOrderly DEF Outside, Marked

LEMMA CheckWriteReadOrderly ==
  ASSUME SlotInv, NEW L \in Nets, Orderly(L), NEW p \in Procs, CheckWrite(p) \/ CheckRead(p)
  PROVE  Orderly(L)'
<1>1. task[p].pc = "check" /\ task[p].call # "ioctl" /\ UNCHANGED <<driver, file, acknowledged>>
  BY DEF CheckWrite, CheckRead, At
<1>2. task[p].pc \notin Outside \cup Marked
  BY <1>1 DEF Outside, Marked
<1>3. CASE /\ LoadSlot(p) /\ (task[p].call = "read" => task[p].arg \in 1 .. BUFFER_LENGTH)
           /\ task[p].call = "write" => Id(file[p].channel_num) # 0
  BY <1>1, <1>3, LoadSlotOrderly
<1>4. CASE Return(p, "EINVAL") \/ Return(p, "EMSGSIZE")
  BY <1>1, <1>2, <1>4, ReturnOrderly
<1> QED
  BY <1>3, <1>4 DEF CheckWrite, CheckRead, At

LEMMA CheckIoctlOrderly ==
  ASSUME Serial, SlotInv, NEW L \in Nets, Orderly(L), NEW p \in Procs, CheckIoctl(p)
  PROVE  Orderly(L)'
<1>1. task[p].pc = "check" /\ task[p].call = "ioctl" /\ UNCHANGED <<driver, acknowledged>>
  BY DEF CheckIoctl, At
<1>2. task[p].pc \notin Outside \cup Marked
  BY <1>1 DEF Outside, Marked
<1>3. CASE Return(p, "EINVAL") /\ UNCHANGED file
  BY <1>1, <1>2, <1>3, ReturnOrderly
<1>4. CASE /\ task[p].arg # 0 /\ LoadSlot(p)
           /\ file' = [file EXCEPT ![p].channel_num = task[p].arg]
  <2>1. /\ CallOf(task[p], file[p]) /\ task[p] \in Tasks /\ task[p].arg \in Params
        /\ file[p] # Closed /\ file[p] \in Files /\ module = "ready"
    BY <1>1, CallerKnows, InACall DEF Outside, Argument
  <2>2. /\ task'[p] = [task[p] EXCEPT !.pc = "root", !.slot = minors[file[p].minor_num]]
        /\ task' = [task EXCEPT ![p] = task'[p]]
    BY <1>4 DEF LoadSlot, SlotInv
  <2>3. /\ task'[p].pc = "root" /\ task'[p].call = "ioctl" /\ task'[p].ret = task[p].ret
        /\ task'[p].slot = minors[file[p].minor_num] /\ task'[p].arg = task[p].arg
    BY <1>1, <2>1, <2>2 DEF Tasks
  <2>4. /\ file'[p] = [file[p] EXCEPT !.channel_num = task[p].arg]
        /\ file' = [file EXCEPT ![p] = file'[p]]
    BY <1>4 DEF SlotInv
  <2>5. /\ file'[p].minor_num = file[p].minor_num /\ file'[p].channel_num = task[p].arg
    BY <2>1, <2>4, FilesAreTyped
  <2>6. CallOf(task'[p], file'[p])
    BY <1>4, <2>1, <2>3, <2>5 DEF CallOf
  <2>7. InCallOf(task'[p], file'[p], L)
    BY <2>3, <2>5 DEF InCallOf, Opening
  <2>8. Doing(p, L)'
    BY <1>1, <2>1, <2>3, <2>5, <2>6, <2>7, DoingSame DEF Doing, CallOf, Outside, driver
  <2> QED
    BY <1>1, <1>2, <2>2, <2>3, <2>4, <2>8, QuietMove, CallersAreAlone
    DEF Local, Orderly, Rests, Marked
<1> QED
  BY <1>3, <1>4 DEF CheckIoctl

\* The first node of a list is its lowest.
LEMMA RootOf ==
  ASSUME NEW L \in Nets, Lists(L), NEW m \in Minors
  PROVE  /\ Root(m) = NULL <=> L[m] = {}
         /\ Root(m) # NULL => Root(m) \in L[m] /\ \A n \in L[m] : ~(n < Root(m))
<1>1. L[m] \subseteq Nat
  BY DEF Nets
<1>2. Root(m) # NULL => Root(m) \in L[m] /\ \A n \in L[m] : Root(m) <= n
  BY DEF Lists, First
<1>3. Root(m) = NULL => L[m] = {}
  BY DEF Lists
<1> QED
  BY <1>1, <1>2, <1>3

LEMMA LoadRootOrderly ==
  ASSUME SlotInv, NEW L \in Nets, Orderly(L), NEW p \in Procs, LoadRoot(p)
  PROVE  Orderly(L)'
<1> DEFINE m == file[p].minor_num
           root == slots[task[p].slot]
           label == IF task[p].call = "ioctl" /\ root = NULL THEN "first" ELSE "find"
<1>1. /\ task[p].pc = "root" /\ UNCHANGED <<driver, file, acknowledged>>
      /\ task'[p] = [task[p] EXCEPT !.root = root, !.node = root, !.pc = label]
      /\ task' = [task EXCEPT ![p] = task'[p]]
  BY DEF LoadRoot, At, SlotInv
<1>2. /\ CallOf(task[p], file[p]) /\ InCallOf(task[p], file[p], L) /\ task[p] \in Tasks
      /\ m \in Minors /\ Locals(task[p], file[p])
  BY <1>1, CallerKnows DEF Outside
<1>3. root = Root(m)
  BY <1>1, <1>2 DEF InCallOf, Root, Locals
<1>4. /\ Root(m) = NULL <=> L[m] = {}
      /\ Root(m) # NULL => Root(m) \in L[m] /\ \A n \in L[m] : ~(n < Root(m))
  BY <1>2, RootOf DEF Orderly
<1>5. /\ task'[p].root = root /\ task'[p].node = root /\ task'[p].pc = label
      /\ task'[p].call = task[p].call /\ task'[p].ret = task[p].ret
      /\ task'[p].arg = task[p].arg /\ task'[p].slot = task[p].slot
  BY <1>1, <1>2 DEF Tasks
<1>6. label \in {"first", "find"} /\ (label = "first" => task[p].call = "ioctl" /\ root = NULL)
  OBVIOUS
<1> HIDE DEF root, label
<1>7. CallOf(task'[p], file[p])
  BY <1>1, <1>2, <1>5, <1>6 DEF CallOf
<1>8. InCallOf(task'[p], file[p], L)
  BY <1>1, <1>2, <1>3, <1>4, <1>5, <1>6 DEF InCallOf, Opening
<1> QED
  BY <1>1, <1>5, <1>6, <1>7, <1>8, MoveOrderly DEF Outside, Marked

\* The walk of find_channel leaves no node out.
LEMMA FindNextOrderly ==
  ASSUME SlotInv, NEW L \in Nets, Orderly(L), NEW p \in Procs, FindNext(p)
  PROVE  Orderly(L)'
<1> DEFINE m == file[p].minor_num
           n == task[p].node
           next == nodes[n].next_node
<1>1. /\ task[p].pc = "find" /\ n # NULL /\ nodes[n].channel_id # Id(file[p].channel_num)
      /\ UNCHANGED <<driver, file, acknowledged>>
      /\ task'[p] = [task[p] EXCEPT !.node = next]
      /\ task' = [task EXCEPT ![p] = task'[p]]
  BY DEF FindNext, Found, At, SlotInv
<1>2. /\ CallOf(task[p], file[p]) /\ InCallOf(task[p], file[p], L) /\ task[p] \in Tasks
      /\ m \in Minors
  BY <1>1, CallerKnows DEF Outside
<1>3. n \in L[m] /\ L[m] \subseteq Nat
  BY <1>1, <1>2 DEF InCallOf, Nets
<1>4. Successor(n, L[m])
  BY <1>2, <1>3 DEF Orderly, Lists
<1>5. /\ task'[p].node = next /\ task'[p].pc = task[p].pc /\ task'[p].root = task[p].root
      /\ task'[p].call = task[p].call /\ task'[p].ret = task[p].ret
      /\ task'[p].arg = task[p].arg
  BY <1>1, <1>2 DEF Tasks
<1>6. next # NULL => next \in L[m]
  BY <1>4 DEF Successor
<1>7. \A k \in L[m] : next = NULL \/ k < next => nodes[k].channel_id # Id(file[p].channel_num)
  <2> SUFFICES ASSUME NEW k \in L[m], next = NULL \/ k < next
               PROVE  nodes[k].channel_id # Id(file[p].channel_num)
    OBVIOUS
  <2>1. k \in Nat /\ n \in Nat /\ (next # NULL => next \in Nat)
    BY <1>3, <1>6
  <2>2. k <= n
    BY <1>4, <2>1 DEF Successor
  <2>3. k < n \/ k = n
    BY <2>1, <2>2
  <2> QED
    BY <1>1, <1>2, <2>3 DEF InCallOf
<1> HIDE DEF next
<1>8. CallOf(task'[p], file[p])
  BY <1>1, <1>2, <1>5 DEF CallOf
<1>9. InCallOf(task'[p], file[p], L)
  BY <1>1, <1>2, <1>5, <1>6, <1>7 DEF InCallOf, Opening
<1> QED
  BY <1>1, <1>5, <1>8, <1>9, MoveOrderly DEF Outside, Marked

\* What ends with the lookup.
LEMMA LookupOrderly ==
  ASSUME SlotInv, NEW L \in Nets, Orderly(L), NEW p \in Procs,
         IoctlFound(p) \/ WriteMissing(p) \/ IoctlRefused(p)
  PROVE  Orderly(L)'
<1>1. task[p].pc = "find" /\ UNCHANGED <<driver, file>>
  BY DEF IoctlFound, WriteMissing, IoctlRefused, At
<1>2. task[p].pc \notin Outside \cup Marked
  BY <1>1 DEF Outside, Marked
<1>3. CASE IoctlFound(p)
  <2> DEFINE m == file[p].minor_num
             c == Id(file[p].channel_num)
  <2>1. /\ InCallOf(task[p], file[p], L) /\ m \in Minors /\ c \in 0 .. IdSpan - 1
    BY <1>1, CallerKnows DEF Outside
  <2>2. task[p].node \in L[m] /\ nodes[task[p].node].channel_id = c
    BY <1>1, <1>3, <2>1 DEF InCallOf, IoctlFound, Found
  <2>3. c \in Numbers(L, m)
    BY <2>2 DEF Numbers
  <2>4. Created(m) = {}
    <3>1. \A q \in Procs : task[q].pc # "count"
      BY <1>1, CallersAreAlone DEF Orderly, Rests, OthersRest, Outside
    <3> QED
      BY <3>1 DEF Created, In
  <2>5. <<m, c>> \in acknowledged
    BY <2>1, <2>3, <2>4 DEF Orderly, Known, Acknowledged
  <2>6. acknowledged' = acknowledged
    BY <1>3, <2>5 DEF IoctlFound, Channel
  <2> QED
    BY <1>1, <1>2, <1>3, <2>6, ReturnOrderly DEF IoctlFound
<1>4. CASE WriteMissing(p) \/ IoctlRefused(p)
  BY <1>1, <1>2, <1>4, ReturnOrderly DEF WriteMissing, IoctlRefused
<1> QED
  BY <1>3, <1>4

LEMMA WalkToTailOrderly ==
  ASSUME SlotInv, NEW L \in Nets, Orderly(L), NEW p \in Procs, WalkToTail(p)
  PROVE  Orderly(L)'
<1> DEFINE m == file[p].minor_num
           n == task[p].node
           next == nodes[n].next_node
<1>1. /\ task[p].pc = "tail" /\ UNCHANGED <<driver, file, acknowledged>>
      /\ task' = [task EXCEPT ![p] = task'[p]]
      /\ \/ next = NULL /\ task'[p] = [task[p] EXCEPT !.pc = "link"]
         \/ next # NULL /\ task'[p] = [task[p] EXCEPT !.node = next]
  BY DEF WalkToTail, At, SlotInv
<1>2. /\ CallOf(task[p], file[p]) /\ InCallOf(task[p], file[p], L) /\ task[p] \in Tasks
      /\ m \in Minors
  BY <1>1, CallerKnows DEF Outside
<1>3. n \in L[m]
  BY <1>1, <1>2 DEF InCallOf
<1>4. next # NULL => next \in L[m]
  BY <1>2, <1>3 DEF Orderly, Lists, Successor
<1>5. /\ task'[p].call = task[p].call /\ task'[p].ret = task[p].ret
      /\ task'[p].arg = task[p].arg /\ task'[p].fresh = task[p].fresh
      /\ \/ task'[p].pc = "tail" /\ next # NULL /\ task'[p].node = next
         \/ task'[p].pc = "link" /\ next = NULL /\ task'[p].node = n
  BY <1>1, <1>2 DEF Tasks
<1>6. CallOf(task'[p], file[p])
  BY <1>1, <1>2, <1>5 DEF CallOf
<1>7. Fresh(task'[p], file[p], L)
  BY <1>1, <1>2, <1>5 DEF InCallOf, Fresh
<1>8. InCallOf(task'[p], file[p], L)
  BY <1>1, <1>2, <1>3, <1>4, <1>5, <1>7 DEF InCallOf, Opening
<1> QED
  BY <1>1, <1>5, <1>6, <1>8, MoveOrderly DEF Outside, Marked

\* Unless a write is under way, the size of a node is that of its message.
LEMMA ReadersSeeSizes ==
  ASSUME SlotInv, NEW L \in Nets, Orderly(L), NEW p \in Procs, ~Rests(p),
         task[p].pc # "store_message", NEW n \in 1 .. Len(nodes)
  PROVE  Sized(n)
  BY CallersAreAlone DEF Orderly, Stored, Rests, OthersRest, Outside

LEMMA LoadSizeOrderly ==
  ASSUME SlotInv, NEW L \in Nets, Orderly(L), NEW p \in Procs, LoadSize(p)
  PROVE  Orderly(L)'
<1> DEFINE m == file[p].minor_num
           n == task[p].node
           size == nodes[n].size
<1>1. /\ task[p].pc = "find" /\ task[p].call = "read"
      /\ n # NULL /\ nodes[n].channel_id = Id(file[p].channel_num)
      /\ UNCHANGED <<driver, file, acknowledged>>
      /\ task' = [task EXCEPT ![p] = task'[p]]
      /\ task'[p] = [task[p] EXCEPT !.pc = "test_size", !.size = size]
  BY DEF LoadSize, At, Found, SlotInv
<1>2. /\ CallOf(task[p], file[p]) /\ InCallOf(task[p], file[p], L) /\ task[p] \in Tasks
  BY <1>1, CallerKnows DEF Outside
<1>3. n \in L[m]
  BY <1>1, <1>2 DEF InCallOf
<1>4. /\ task'[p].call = "read" /\ task'[p].ret = task[p].ret
      /\ task'[p].arg = task[p].arg
      /\ task'[p].node = n /\ task'[p].pc = "test_size" /\ task'[p].size = size
  BY <1>1, <1>2 DEF Tasks
<1>5. CallOf(task'[p], file[p])
  BY <1>1, <1>2, <1>4 DEF CallOf
<1>6. InCallOf(task'[p], file[p], L)
  BY <1>1, <1>3, <1>4 DEF InCallOf, Opening
<1> QED
  BY <1>1, <1>4, <1>5, <1>6, MoveOrderly DEF Outside, Marked

LEMMA TestSizeOrderly ==
  ASSUME SlotInv, NEW L \in Nets, Orderly(L), NEW p \in Procs, TestSize(p)
  PROVE  Orderly(L)'
<1>1. /\ task[p].pc = "test_size" /\ UNCHANGED <<driver, file, acknowledged>>
  BY DEF TestSize, At
<1>2. task[p].pc \notin Outside \cup Marked
  BY <1>1 DEF Outside, Marked
<1>3. CASE Return(p, "EWOULDBLOCK") \/ Return(p, "ENOSPC")
  BY <1>1, <1>2, <1>3, ReturnOrderly
<1>4. CASE /\ nodes[task[p].node].size # 0
           /\ task' = [task EXCEPT ![p].pc = "copy"]
  <2>1. /\ CallOf(task[p], file[p]) /\ InCallOf(task[p], file[p], L) /\ task[p] \in Tasks
        /\ Argument(task[p])
    BY <1>1, CallerKnows DEF Outside
  <2>2. task'[p] = [task[p] EXCEPT !.pc = "copy"] /\ task' = [task EXCEPT ![p] = task'[p]]
    BY <1>4 DEF SlotInv
  <2>3. /\ task'[p].call = task[p].call /\ task'[p].ret = task[p].ret
        /\ task'[p].node = task[p].node /\ task'[p].pc = "copy" /\ task'[p].arg = task[p].arg
        /\ task'[p].size = task[p].size /\ task'[p].buffer = <<>> /\ task[p].call = "read"
    BY <1>1, <2>1, <2>2 DEF Tasks, Argument, Outside
  <2>4. CallOf(task'[p], file[p])
    BY <1>1, <2>1, <2>3 DEF CallOf
  <2>5. InCallOf(task'[p], file[p], L)
    BY <1>1, <1>4, <2>1, <2>3 DEF InCallOf, Opening
  <2> QED
    BY <1>1, <1>2, <2>2, <2>3, <2>4, <2>5, MoveOrderly DEF Outside, Marked
<1> QED
  BY <1>3, <1>4 DEF TestSize

\* The node a reader copies from, and the message there.
LEMMA CopiesMessage ==
  ASSUME SlotInv, NEW L \in Nets, Orderly(L), NEW p \in Procs, task[p].pc = "copy"
  PROVE  LET n == task[p].node
         IN  /\ n \in 1 .. Len(nodes) /\ n \in L[file[p].minor_num]
             /\ nodes[n].message \in Letters /\ nodes[n].message # None
             /\ task[p].size = Length[nodes[n].message.text] /\ task[p].size \in Nat \ {0}
             /\ task[p].buffer \in Seq(Bytes) /\ Len(task[p].buffer) <= task[p].size
             /\ \A i \in DOMAIN task[p].buffer :
                  task[p].buffer[i].text = nodes[n].message.text
<1> DEFINE n == task[p].node
<1>1. /\ CallOf(task[p], file[p]) /\ InCallOf(task[p], file[p], L) /\ task[p] \in Tasks
      /\ Argument(task[p]) /\ Locals(task[p], file[p]) /\ file[p].minor_num \in Minors
  BY CallerKnows DEF Outside
<1>2. /\ n \in L[file[p].minor_num] /\ task[p].size = nodes[n].size /\ task[p].size # 0
      /\ \A i \in DOMAIN task[p].buffer :
                  task[p].buffer[i].text = nodes[n].message.text
  BY <1>1 DEF InCallOf
<1>3. n \in 1 .. Len(nodes) /\ nodes[n] \in Nodes
  BY <1>1, NodesAreTyped DEF Tasks, Locals
<1>4. Sized(n)
  BY <1>3, ReadersSeeSizes DEF Rests, Outside
<1>5. /\ nodes[n].message \in Letters /\ nodes[n].message # None
      /\ task[p].size = Length[nodes[n].message.text]
  BY <1>2, <1>3, <1>4 DEF Sized, Nodes
<1>6. task[p].size \in Nat /\ task[p].buffer \in Seq(Bytes)
      /\ Len(task[p].buffer) <= task[p].size
  BY <1>1, MessageSlotAssumption DEF Tasks, Argument
<1> QED
  BY <1>2, <1>3, <1>5, <1>6

LEMMA CopyByteOrderly ==
  ASSUME SlotInv, NEW L \in Nets, Orderly(L), NEW p \in Procs, CopyByte(p)
  PROVE  Orderly(L)'
<1> DEFINE n == task[p].node
           letter == nodes[n].message
           b == task[p].buffer
           byte == Byte(letter, Len(b) + 1)
<1>1. /\ task[p].pc = "copy" /\ UNCHANGED <<driver, file, acknowledged>>
      /\ task' = [task EXCEPT ![p] = task'[p]] /\ Len(b) < task[p].size
      /\ task'[p] = [task[p] EXCEPT !.buffer = Append(b, byte)]
  BY DEF CopyByte, At, SlotInv, ReadSize
<1>2. /\ CallOf(task[p], file[p]) /\ InCallOf(task[p], file[p], L) /\ task[p] \in Tasks
  BY <1>1, CallerKnows DEF Outside
<1>3. /\ letter \in Letters /\ letter # None
      /\ task[p].size = Length[letter.text] /\ task[p].size \in Nat
      /\ b \in Seq(Bytes) /\ \A i \in DOMAIN b : b[i].text = letter.text
  BY <1>1, CopiesMessage
<1>4. byte = letter
  <2>1. Len(b) \in Nat
    BY <1>3, LenProperties
  <2>2. Len(b) + 1 <= Length[letter.text]
    BY <1>1, <1>3, <2>1
  <2> QED
    BY <1>3, <2>2 DEF Byte
<1>5. letter \in Bytes
  BY <1>3 DEF Bytes
<1>6. \A i \in DOMAIN Append(b, byte) : Append(b, byte)[i].text = letter.text
  <2> HIDE DEF b, byte, letter
  <2>1. /\ Len(Append(b, byte)) = Len(b) + 1 /\ Append(b, byte) \in Seq(Bytes)
        /\ \A i \in 1 .. Len(b) : Append(b, byte)[i] = b[i]
        /\ Append(b, byte)[Len(b) + 1] = byte
    BY <1>3, <1>4, <1>5, AppendProperties
  <2>2. DOMAIN Append(b, byte) = 1 .. Len(b) + 1 /\ DOMAIN b = 1 .. Len(b) /\ Len(b) \in Nat
    BY <1>3, <2>1, LenProperties
  <2> QED
    BY <1>3, <1>4, <2>1, <2>2
<1>7. /\ task'[p].call = task[p].call /\ task'[p].ret = task[p].ret
      /\ task'[p].node = n /\ task'[p].pc = "copy" /\ task'[p].arg = task[p].arg
      /\ task'[p].size = task[p].size /\ task'[p].buffer = Append(b, byte)
  BY <1>1, <1>2 DEF Tasks
<1>8. CallOf(task'[p], file[p])
  BY <1>1, <1>2, <1>7 DEF CallOf
<1> HIDE DEF byte
<1>9. InCallOf(task'[p], file[p], L)
  BY <1>1, <1>2, <1>6, <1>7 DEF InCallOf, Opening
<1> QED
  BY <1>1, <1>7, <1>8, <1>9, MoveOrderly DEF Outside, Marked

\* A read that returns has copied the whole message.
LEMMA ReturnBytesWhole ==
  ASSUME SlotInv, NEW L \in Nets, Orderly(L), NEW p \in Procs, ReturnBytes(p)
  PROVE  LET w == nodes[task[p].node].message.text
         IN  /\ w \in Messages
             /\ [i \in DOMAIN task[p].buffer |-> task[p].buffer[i].text]
                  = [i \in 1 .. Length[w] |-> w]
<1> DEFINE w == nodes[task[p].node].message.text
           b == task[p].buffer
<1>1. task[p].pc = "copy" /\ Len(b) >= task[p].size
  BY DEF ReturnBytes, At, ReadSize
<1>2. /\ nodes[task[p].node].message \in Letters /\ task[p].size = Length[w]
      /\ task[p].size \in Nat /\ b \in Seq(Bytes) /\ Len(b) <= task[p].size
      /\ \A i \in DOMAIN b : b[i].text = w
  BY <1>1, CopiesMessage
<1>3. DOMAIN b = 1 .. Length[w]
  BY <1>1, <1>2, LenProperties
<1>4. w \in Messages
  BY <1>2 DEF Letters
<1> QED
  BY <1>2, <1>3, <1>4

LEMMA ReturnBytesOrderly ==
  ASSUME SlotInv, NEW L \in Nets, Orderly(L), NEW p \in Procs, ReturnBytes(p)
  PROVE  Orderly(L)'
<1> DEFINE t == [Idle EXCEPT !.ret = "OK", !.buffer = task[p].buffer]
<1>1. /\ task[p].pc = "copy" /\ UNCHANGED <<driver, file, acknowledged>>
      /\ task' = [task EXCEPT ![p] = task'[p]] /\ task'[p] = t
  BY DEF ReturnBytes, At, SlotInv
<1>2. OthersRest(p)
  BY <1>1, CallersAreAlone DEF Orderly, Rests, Outside
<1>3. t.pc = "user" /\ t.call = None /\ t.buffer = task[p].buffer
  BY DEF Idle
<1>4. Doing(p, L) /\ file[p] # Closed
  BY <1>1, InACall DEF Orderly, Outside
<1>5. Whole(t)
  BY <1>3, ReturnBytesWhole DEF Whole
<1> HIDE DEF t
<1>6. Doing(p, L)'
  BY <1>1, <1>3, <1>4, <1>5 DEF Doing, AtRest, Outside, Whole, driver
<1> QED
  BY <1>1, <1>2, <1>3, <1>6, FileStays, QuietMove DEF Marked

-----------------------------------------------------------------------------
(* Loading the module, and opening a slot for the first time. *)

LEMMA InitOrderly == Init /\ Serial => SerialInv
<1> SUFFICES ASSUME Init, Serial
             PROVE  SerialInv
  OBVIOUS
<1> DEFINE L == [m \in Minors |-> {}]
<1>1. L \in Nets /\ \A m \in Minors : L[m] = {} /\ minors[m] = NULL /\ Root(m) = NULL
  BY DEF Nets, Init, Root
<1> HIDE DEF L
<1>2. \A p \in Procs : task[p] = Idle /\ file[p] = Closed /\ task[p].pc \in Outside
  BY DEF Init, Idle, Outside
<1>3. Lists(L) /\ Distinct(L)
  BY <1>1 DEF Lists, Distinct, Init
<1>4. \A m \in Minors : Acknowledged(m) = {} /\ Created(m) = {} /\ Numbers(L, m) = {}
  BY <1>1, <1>2 DEF Init, Acknowledged, Created, In, Outside, Numbers
<1>5. CountsChannels
  BY <1>2, <1>4 DEF CountsChannels, Init, In, Outside
<1>6. CountsSlots
  <2>1. SlotsCounted = {}
    BY <1>1 DEF SlotsCounted
  <2> QED
    BY <2>1, FS_EmptySet DEF CountsSlots, Init
<1>7. Stored
  BY DEF Stored, Init
<1>8. \A p \in Procs : Doing(p, L)
  <2>1. Idle.call = None /\ Idle.ret = "none" /\ Idle.buffer = <<>> /\ Idle.pc = "user"
    BY DEF Idle
  <2> QED
    BY <1>2, <2>1 DEF Doing, AtRest
<1> QED
  BY <1>1, <1>2, <1>3, <1>4, <1>5, <1>6, <1>7, <1>8 DEF SerialInv, Orderly, Alone, Known

\* No file is open while the module is not ready.
LEMMA LoadOrderly ==
  ASSUME SlotInv, NEW L \in Nets, Orderly(L), Register \/ AllocateDevices
  PROVE  Orderly(L)'
<1>1. /\ UNCHANGED <<minors, slots, nodes, numOfDrivers, numOfChannels, file, task,
                     acknowledged>>
      /\ module # "ready" /\ module # "unregistered"
  BY DEF Register, AllocateDevices
<1>2. \A p \in Procs : file[p] = Closed /\ task[p].pc \in Outside
  BY <1>1 DEF Orderly, Doing, SlotInv, Process, Sound, Locals
<1>3. Alone' /\ Lists(L)' /\ Distinct(L)' /\ Known(L)'
  BY <1>1 DEF Orderly, Alone, Lists, Distinct, Known, Root, First, Successor, Numbers,
              Acknowledged, Created, In
<1>4. CountsChannels'
  BY <1>1 DEF Orderly, CountsChannels, Acknowledged, In
<1>5. CountsSlots' /\ Stored'
  BY <1>1 DEF Orderly, CountsSlots, SlotsCounted, Stored, Sized, In
<1>6. \A p \in Procs : Doing(p, L)'
  BY <1>1, <1>2 DEF Orderly, Doing, AtRest, Whole
<1> QED
  BY <1>3, <1>4, <1>5, <1>6 DEF Orderly

LEMMA FinalizeOrderly ==
  ASSUME SlotInv, NEW L \in Nets, Orderly(L), Finalize
  PROVE  SerialInv'
<1> DEFINE K == [m \in Minors |-> {}]
<1>1. K \in Nets /\ \A m \in Minors : K[m] = {} /\ minors'[m] = NULL /\ Root(m)' = NULL
  BY DEF Nets, Finalize, Root
<1> HIDE DEF K
<1>2. /\ \A p \in Procs : file[p] = Closed /\ task[p].pc \in Outside
      /\ UNCHANGED <<file, task>> /\ Len(nodes') = 0 /\ acknowledged' = {}
      /\ module' = "unregistered"
  BY DEF Finalize, Outside
<1>3. Lists(K)' /\ Distinct(K)'
  BY <1>1, <1>2 DEF Lists, Distinct
<1>4. \A m \in Minors : Acknowledged(m)' = {} /\ Created(m)' = {} /\ Numbers(K, m)' = {}
  BY <1>1, <1>2 DEF Acknowledged, Created, In, Outside, Numbers
<1>5. CountsSlots'
  <2> DEFINE S == {m \in Minors : minors[m] # NULL}
  <2>1. SlotsCounted = S
    BY <1>2 DEF SlotsCounted, In, Outside
  <2>2. SlotsCounted' = {}
    BY <1>1 DEF SlotsCounted
  <2>3. Cardinality(S) \in Nat /\ Cardinality({}) = 0
    BY MessageSlotAssumption, FS_Subset, FS_CardinalityType, FS_EmptySet
  <2>4. numOfDrivers' = numOfDrivers - Cardinality(S)
    BY DEF Finalize
  <2>5. numOfDrivers = Cardinality(S)
    BY <2>1 DEF Orderly, CountsSlots
  <2> HIDE DEF S
  <2>6. numOfDrivers' = 0
    BY <2>3, <2>4, <2>5
  <2> QED
    BY <2>2, <2>3, <2>6 DEF CountsSlots
<1>6. CountsChannels' /\ Stored'
  BY <1>2 DEF CountsChannels, Stored
<1>7. \A p \in Procs : Doing(p, K)'
  BY <1>2 DEF Orderly, Doing, AtRest, Whole
<1>8. Alone'
  BY <1>2 DEF Alone
<1> QED
  BY <1>1, <1>3, <1>4, <1>5, <1>6, <1>7, <1>8 DEF SerialInv, Orderly, Known

\* There is always room for a slot that is not there yet.
LEMMA NeverRefused ==
  ASSUME SlotInv, NEW L \in Nets, Orderly(L), NEW p \in Procs, task[p].pc = "open_limit"
  PROVE  numOfDrivers # MINORS_LIMIT
<1> DEFINE S == SlotsCounted
<1>1. file[p].minor_num \in Minors \ S
  BY CallerKnows DEF InCallOf, Opening, Outside, SlotsCounted
<1>2. S \subseteq Minors /\ S # Minors
  BY <1>1 DEF SlotsCounted
<1>3. Cardinality(S) < Cardinality(Minors)
  BY <1>2, MessageSlotAssumption, FS_Subset, FS_CardinalityType
<1>4. numOfDrivers = Cardinality(S)
  BY DEF Orderly, CountsSlots
<1>5. Cardinality(S) \in Nat /\ Cardinality(Minors) \in Nat
  BY <1>2, MessageSlotAssumption, FS_Subset, FS_CardinalityType
<1> QED
  BY <1>3, <1>4, <1>5 DEF MINORS_LIMIT

LEMMA AllocateSlotOrderly ==
  ASSUME SlotInv, NEW L \in Nets, Orderly(L), NEW p \in Procs, AllocateSlot(p)
  PROVE  Orderly(L)'
<1>1. /\ task[p].pc = "open_limit" /\ slots' = Append(slots, NULL)
      /\ UNCHANGED <<module, minors, nodes, numOfDrivers, numOfChannels, file, acknowledged>>
      /\ task' = [task EXCEPT ![p] = task'[p]]
      /\ task'[p] = [task[p] EXCEPT !.pc = "open_store", !.fresh = Len(slots) + 1]
  BY DEF AllocateSlot, At, SlotInv
<1>2. /\ CallOf(task[p], file[p]) /\ InCallOf(task[p], file[p], L) /\ task[p] \in Tasks
      /\ file[p] # Closed /\ module = "ready"
  BY <1>1, CallerKnows DEF Outside
<1>3. /\ Len(slots) \in Nat /\ Len(slots') = Len(slots) + 1
      /\ \A s \in 1 .. Len(slots) : slots'[s] = slots[s]
      /\ slots'[Len(slots) + 1] = NULL
  <2>1. slots \in Seq(Pointers(nodes)) /\ NULL \in Pointers(nodes) /\ Len(slots) \in Nat
    BY LenProperties DEF SlotInv, Shared, Pointers, NULL
  <2> QED
    BY <1>1, <2>1, AppendProperties
<1>4. \A m \in Minors : minors[m] # Len(slots) + 1 /\ Root(m)' = Root(m)
  <2> SUFFICES ASSUME NEW m \in Minors
               PROVE  minors[m] # Len(slots) + 1 /\ Root(m)' = Root(m)
    OBVIOUS
  <2>1. minors[m] \in 0 .. Len(slots)
    BY DEF SlotInv, Shared, Pointers
  <2>2. minors[m] # NULL => minors[m] \in 1 .. Len(slots)
    BY <1>3, <2>1 DEF NULL
  <2> QED
    BY <1>1, <1>3, <2>1, <2>2 DEF Root
<1>5. /\ task'[p].pc = "open_store" /\ task'[p].fresh = Len(slots) + 1
      /\ task'[p].call = task[p].call /\ task'[p].ret = task[p].ret
  BY <1>1, <1>2 DEF Tasks
<1>6. OthersRest(p) /\ Local(p)
  BY <1>1, CallersAreAlone, FileStays DEF Orderly, Rests, Outside
<1>7. \A q \in Procs : task[q].pc \notin Marked /\ task'[q].pc \notin Marked
  BY <1>1, <1>5, <1>6, OthersStay DEF Marked, Outside
<1>8. Lists(L)' /\ Distinct(L)'
  BY <1>1, <1>4 DEF Orderly, Lists, Distinct, First, Successor
<1>9. \A m \in Minors : /\ Acknowledged(m)' = Acknowledged(m) /\ Numbers(L, m)' = Numbers(L, m)
                        /\ Created(m) = {} /\ Created(m)' = {}
  BY <1>1, <1>7 DEF Acknowledged, Numbers, Created, In, Marked
<1>10. CountsChannels'
  BY <1>1, <1>7, <1>9 DEF Orderly, CountsChannels, In, Marked
<1>11. CountsSlots'
  <2>1. \A q \in Procs, m \in Minors :
          ~In(q, m, {"open_count"}) /\ ~In(q, m, {"open_count"})'
    BY <1>7 DEF In, Marked
  <2>2. SlotsCounted = {m \in Minors : minors[m] # NULL}
    BY <2>1 DEF SlotsCounted
  <2>3. SlotsCounted' = {m \in Minors : minors[m] # NULL}
    BY <1>1, <2>1 DEF SlotsCounted
  <2> QED
    BY <1>1, <2>2, <2>3 DEF Orderly, CountsSlots
<1>12. Stored'
  BY <1>1, <1>7 DEF Orderly, Stored, Sized, Marked
<1>13. Doing(p, L)'
  <2>1. CallOf(task[p], file[p])'
    BY <1>1, <1>2, <1>5, MessageSlotAssumption DEF CallOf
  <2>2. InCallOf(task[p], file[p], L)'
    BY <1>1, <1>2, <1>3, <1>4, <1>5 DEF InCallOf, Opening
  <2>3. Doing(p, L)
    BY DEF Orderly
  <2> QED
    BY <1>1, <1>2, <1>5, <2>1, <2>2, <2>3 DEF Doing, Outside
<1> QED
  BY <1>1, <1>6, <1>8, <1>9, <1>10, <1>11, <1>12, <1>13, OneMoves DEF Orderly, Known

LEMMA StoreSlotOrderly ==
  ASSUME SlotInv, NEW L \in Nets, Orderly(L), NEW p \in Procs, StoreSlot(p)
  PROVE  Orderly(L)'
<1> DEFINE m == file[p].minor_num
           s == task[p].fresh
<1>1. /\ task[p].pc = "open_store" /\ minors' = [minors EXCEPT ![m] = s]
      /\ UNCHANGED <<module, slots, nodes, numOfDrivers, numOfChannels, file, acknowledged>>
      /\ task' = [task EXCEPT ![p] = task'[p]]
      /\ task'[p] = [task[p] EXCEPT !.pc = "open_count"]
  BY DEF StoreSlot, At, SlotInv
<1>2. /\ CallOf(task[p], file[p]) /\ InCallOf(task[p], file[p], L) /\ task[p] \in Tasks
      /\ file[p] # Closed /\ module = "ready" /\ m \in Minors /\ Locals(task[p], file[p])
  BY <1>1, CallerKnows DEF Outside
<1>3. /\ minors[m] = NULL /\ slots[s] = NULL /\ \A k \in Minors : minors[k] # s
      /\ s # NULL
  BY <1>1, <1>2 DEF InCallOf, Opening, Locals, NULL
<1>4. /\ minors'[m] = s /\ \A k \in Minors \ {m} : minors'[k] = minors[k]
  BY <1>1, <1>2 DEF SlotInv, Shared
<1>5. \A k \in Minors : Root(k)' = Root(k)
  BY <1>1, <1>3, <1>4 DEF Root
<1>6. /\ task'[p].pc = "open_count" /\ task'[p].call = task[p].call /\ task'[p].ret = task[p].ret
  BY <1>1, <1>2 DEF Tasks
<1>7. OthersRest(p) /\ Local(p)
  BY <1>1, CallersAreAlone, FileStays DEF Orderly, Rests, Outside
<1>8. \A q \in Procs : /\ task[q].pc \notin Marked
                       /\ task'[q].pc \in Marked => q = p /\ task'[q].pc = "open_count"
  BY <1>1, <1>6, <1>7, OthersStay DEF Marked, Outside
<1>9. Lists(L)' /\ Distinct(L)'
  <2>1. \A j, k \in Minors : j # k => (minors'[j] = minors'[k] => minors'[j] = NULL)
    BY <1>2, <1>3, <1>4 DEF Orderly, Lists
  <2> QED
    BY <1>1, <1>5, <2>1 DEF Orderly, Lists, Distinct, First, Successor
<1>10. \A k \in Minors : /\ Acknowledged(k)' = Acknowledged(k)
                         /\ Numbers(L, k)' = Numbers(L, k)
                         /\ Created(k) = {} /\ Created(k)' = {}
  BY <1>1, <1>8 DEF Acknowledged, Numbers, Created, In, Marked
<1>11. CountsChannels'
  BY <1>1, <1>8, <1>10 DEF Orderly, CountsChannels, In, Marked
<1>12. SlotsCounted' = SlotsCounted
  <2>1. \A q \in Procs, k \in Minors :
          ~In(q, k, {"open_count"}) /\ (In(q, k, {"open_count"})' <=> q = p /\ k = m)
    BY <1>1, <1>6, <1>8 DEF In, Marked
  <2> QED
    BY <1>3, <1>4, <2>1 DEF SlotsCounted
<1>13. CountsSlots' /\ Stored'
  BY <1>1, <1>8, <1>12 DEF Orderly, CountsSlots, Stored, Sized, Marked
<1>14. Doing(p, L)'
  <2>1. CallOf(task[p], file[p])'
    BY <1>1, <1>2, <1>6, MessageSlotAssumption DEF CallOf
  <2>2. InCallOf(task[p], file[p], L)'
    BY <1>6 DEF InCallOf, Opening
  <2>3. Doing(p, L)
    BY DEF Orderly
  <2> QED
    BY <1>1, <1>2, <1>6, <2>1, <2>2, <2>3 DEF Doing, Outside
<1> QED
  BY <1>1, <1>7, <1>9, <1>10, <1>11, <1>13, <1>14, OneMoves DEF Orderly, Known

LEMMA CountSlotOrderly ==
  ASSUME SlotInv, NEW L \in Nets, Orderly(L), NEW p \in Procs, CountSlot(p)
  PROVE  Orderly(L)'
<1> DEFINE m == file[p].minor_num
<1>1. /\ task[p].pc = "open_count"
      /\ UNCHANGED <<module, minors, slots, nodes, numOfChannels, file, acknowledged>>
      /\ task' = [task EXCEPT ![p] = task'[p]] /\ task'[p] = NoCall("user", "none")
  BY IdleIsNoCall DEF CountSlot, At, Return, SlotInv
<1>2. file[p] # Closed /\ module = "ready" /\ m \in Minors /\ minors[m] # NULL
  BY <1>1, CallerKnows DEF Outside, Opening, Locals
<1>3. OthersRest(p) /\ Local(p)
  BY <1>1, CallersAreAlone, FileStays DEF Orderly, Rests, Outside
<1>4. task'[p].pc = "user"
  BY <1>1 DEF NoCall
<1>5. \A q \in Procs : /\ task'[q].pc \notin Marked
                       /\ task[q].pc \in Marked => q = p
  BY <1>1, <1>3, <1>4, OthersStay DEF Marked, Outside
<1>6. Lists(L)' /\ Distinct(L)'
  BY <1>1 DEF Orderly, Lists, Distinct, Root, First, Successor
<1>7. \A k \in Minors : /\ Acknowledged(k)' = Acknowledged(k)
                        /\ Numbers(L, k)' = Numbers(L, k)
                        /\ Created(k) = {} /\ Created(k)' = {}
  BY <1>1, <1>5 DEF Acknowledged, Numbers, Created, In, Marked
<1>8. CountsChannels'
  BY <1>1, <1>5, <1>7 DEF Orderly, CountsChannels, In, Marked
<1>9. m \notin SlotsCounted /\ SlotsCounted' = SlotsCounted \cup {m}
  <2>1. \A q \in Procs, k \in Minors :
          /\ ~In(q, k, {"open_count"})'
          /\ In(q, k, {"open_count"}) <=> q = p /\ k = m
    BY <1>1, <1>5 DEF In, Marked
  <2> QED
    BY <1>1, <1>2, <2>1 DEF SlotsCounted
<1>10. CountsSlots'
  <2>1. numOfDrivers' = numOfDrivers + 1
    <3>1. {q \in Procs \ {p} : At(q, "open_count")} = {}
      BY <1>5 DEF At, Marked
    <3> QED
      BY <3>1 DEF CountSlot, Incremented
  <2>2. IsFiniteSet(SlotsCounted)
    BY MessageSlotAssumption, FS_Subset DEF SlotsCounted
  <2>3. Cardinality(SlotsCounted \cup {m}) = Cardinality(SlotsCounted) + 1
    BY <1>9, <2>2, FS_AddElement
  <2> QED
    BY <1>9, <2>1, <2>3 DEF Orderly, CountsSlots
<1>11. Stored'
  BY <1>1, <1>5 DEF Orderly, Stored, Sized, Marked
<1>12. Doing(p, L)'
  BY <1>1, <1>2 DEF Orderly, Doing, AtRest, NoCall, Outside
<1> QED
  BY <1>1, <1>3, <1>6, <1>7, <1>8, <1>10, <1>11, <1>12, OneMoves DEF Orderly, Known

-----------------------------------------------------------------------------
(* Creating a channel. *)

\* A new node is in no list yet.
LEMMA AppendLists ==
  ASSUME SlotInv, NEW L \in Nets, Lists(L), Distinct(L), NEW x \in Nodes,
         nodes' = Append(nodes, x), x.next_node = NULL, UNCHANGED <<minors, slots>>
  PROVE  /\ Lists(L)' /\ Distinct(L)' /\ \A m \in Minors : Numbers(L, m)' = Numbers(L, m)
         /\ \A m \in Minors : Root(m)' = Root(m) /\ Len(nodes) + 1 \notin L[m]
         /\ Len(nodes) \in Nat /\ Len(nodes') = Len(nodes) + 1
         /\ nodes'[Len(nodes) + 1] = x /\ \A n \in 1 .. Len(nodes) : nodes'[n] = nodes[n]
<1>1. /\ Len(nodes) \in Nat /\ Len(nodes') = Len(nodes) + 1
      /\ nodes'[Len(nodes) + 1] = x /\ \A n \in 1 .. Len(nodes) : nodes'[n] = nodes[n]
  BY LenProperties, AppendProperties DEF SlotInv, Shared
<1>2. \A m \in Minors : L[m] \subseteq 1 .. Len(nodes)
  BY DEF Lists
<1>3. \A m \in Minors : Len(nodes) + 1 \notin L[m]
  BY <1>1, <1>2
<1>4. \A m \in Minors : \A n \in L[m] : nodes'[n] = nodes[n]
  BY <1>1, <1>2
<1>5. \A m \in Minors : Root(m)' = Root(m)
  BY DEF Root
<1>6. Lists(L)'
  <2>1. ASSUME NEW m \in Minors
        PROVE  /\ L[m] \subseteq 1 .. Len(nodes')
               /\ IF Root(m)' = NULL THEN L[m] = {} ELSE First(Root(m)', L[m])
               /\ \A n \in L[m] : Successor(n, L[m])'
    <3>1. L[m] \subseteq 1 .. Len(nodes')
      BY <1>1, <1>2
    <3>2. \A n \in L[m] : Successor(n, L[m])'
      BY <1>4 DEF Lists, Successor
    <3> QED
      BY <1>5, <3>1, <3>2 DEF Lists
  <2>2. \A n \in 1 .. Len(nodes') :
          (\A m \in Minors : n \notin L[m]) => nodes'[n].next_node = NULL
    <3> TAKE n \in 1 .. Len(nodes')
    <3>1. n \in 1 .. Len(nodes) \/ n = Len(nodes) + 1
      BY <1>1
    <3> QED
      BY <1>1, <3>1 DEF Lists
  <2> QED
    BY <2>1, <2>2 DEF Lists, First
<1>7. Distinct(L)'
  BY <1>4 DEF Distinct
<1>8. \A m \in Minors : Numbers(L, m)' = Numbers(L, m)
  <2> TAKE m \in Minors
  <2>1. \A n \in L[m] : nodes'[n].channel_id = nodes[n].channel_id
    BY <1>4
  <2> QED
    BY <2>1 DEF Numbers
<1> QED
  BY <1>1, <1>3, <1>5, <1>6, <1>7, <1>8

\* A new node holds no message.
LEMMA AppendStored ==
  ASSUME Stored, Len(nodes) \in Nat, Len(nodes') = Len(nodes) + 1,
         \A n \in 1 .. Len(nodes) : nodes'[n] = nodes[n],
         nodes'[Len(nodes) + 1].message = None, nodes'[Len(nodes) + 1].size = 0,
         \A q \in Procs : task[q].pc # "store_message"
  PROVE  Stored'
<1> SUFFICES ASSUME NEW n \in 1 .. Len(nodes')
             PROVE  Sized(n)'
  BY DEF Stored
<1>1. CASE n \in 1 .. Len(nodes)
  BY <1>1 DEF Stored, Sized
<1>2. CASE n = Len(nodes) + 1
  BY <1>2 DEF Sized
<1> QED
  BY <1>1, <1>2

\* A process that counts a channel is not disturbed.
LEMMA CountsAlone ==
  ASSUME SlotInv, NEW p \in Procs, OthersRest(p), file[p].minor_num \in Minors,
         CountChannel(p)
  PROVE  LET m == file[p].minor_num
         IN  /\ numOfChannels'[m] = numOfChannels[m] + INT_SIZE
             /\ \A k \in Minors \ {m} : numOfChannels'[k] = numOfChannels[k]
<1>1. Counting(p) = {}
  BY DEF Counting, OthersRest, Rests, Outside
<1>2. numOfChannels \in [Minors -> Nat]
  BY DEF SlotInv, Shared
<1> QED
  BY <1>1, <1>2 DEF CountChannel, Incremented

\* A list of which nothing is pending holds the acknowledged channels.
LEMMA NothingCreated ==
  ASSUME SlotInv, NEW L \in Nets, Orderly(L), NEW p \in Procs, OthersRest(p),
         task[p].pc # "count", NEW m \in Minors
  PROVE  Created(m) = {} /\ Acknowledged(m) = Numbers(L, m)
<1>1. Created(m) = {}
  BY DEF Created, In, OthersRest, Rests, Outside
<1> QED
  BY <1>1 DEF Orderly, Known

LEMMA InitiateFirstOrderly ==
  ASSUME SlotInv, NEW L \in Nets, Orderly(L), NEW p \in Procs, InitiateFirstChannel(p)
  PROVE  Orderly(L)'
<1> DEFINE m == file[p].minor_num
           f == Len(nodes) + 1
<1>1. /\ task[p].pc = "first" /\ nodes' = Append(nodes, NewNode(p)) /\ CountChannel(p)
      /\ UNCHANGED <<module, minors, slots, numOfDrivers, file, acknowledged>>
      /\ task' = [task EXCEPT ![p] = task'[p]]
      /\ task'[p] = [task[p] EXCEPT !.pc = "set_root", !.fresh = f]
  BY DEF InitiateFirstChannel, At, SlotInv
<1>2. /\ CallOf(task[p], file[p]) /\ InCallOf(task[p], file[p], L) /\ task[p] \in Tasks
      /\ file[p] # Closed /\ module = "ready" /\ m \in Minors
  BY <1>1, CallerKnows DEF Outside
<1>3. /\ task'[p].pc = "set_root" /\ task'[p].call = task[p].call
      /\ task'[p].ret = task[p].ret /\ task'[p].arg = task[p].arg
      /\ task'[p].slot = task[p].slot /\ task'[p].fresh = f
  BY <1>1, <1>2 DEF Tasks
<1>4. OthersRest(p) /\ Local(p)
  BY <1>1, CallersAreAlone, FileStays DEF Orderly, Rests, Outside
<1>5. \A q \in Procs : /\ task[q].pc \notin Marked
                       /\ task'[q].pc \in Marked => q = p /\ task'[q].pc = "set_root"
  BY <1>1, <1>3, <1>4, OthersStay DEF Marked, Outside
<1>6. /\ NewNode(p).next_node = NULL /\ NewNode(p).channel_id = Id(file[p].channel_num)
      /\ NewNode(p).message = None /\ NewNode(p).size = 0
  BY DEF NewNode
<1>7. /\ Lists(L)' /\ Distinct(L)' /\ \A k \in Minors : Numbers(L, k)' = Numbers(L, k)
      /\ \A k \in Minors : Root(k)' = Root(k) /\ f \notin L[k]
      /\ Len(nodes) \in Nat /\ Len(nodes') = f
      /\ nodes'[f] = NewNode(p) /\ \A n \in 1 .. Len(nodes) : nodes'[n] = nodes[n]
  BY <1>1, <1>6, NewNodeIsTyped, AppendLists DEF Orderly, Outside
<1>8. Root(m) = NULL /\ L[m] = {} /\ task[p].slot = minors[m]
  BY <1>1, <1>2, RootOf DEF InCallOf, Orderly
<1>9. \A k \in Minors : Acknowledged(k)' = Acknowledged(k) /\ Created(k) = {} /\ Created(k)' = {}
  BY <1>1, <1>5 DEF Acknowledged, Created, In, Marked
<1>10. CountsChannels'
  <2>1. \A q \in Procs, k \in Minors :
          /\ ~In(q, k, {"set_root", "count"})
          /\ In(q, k, {"set_root", "count"})' <=> q = p /\ k = m
    BY <1>1, <1>3, <1>5 DEF In, Marked
  <2>2. Acknowledged(m) = {} /\ numOfChannels[m] = 0
    <3>1. Numbers(L, m) = {}
      BY <1>8 DEF Numbers
    <3>2. Acknowledged(m) = {}
      BY <1>2, <1>9, <3>1 DEF Orderly, Known
    <3> QED
      BY <1>2, <2>1, <3>2 DEF Orderly, CountsChannels
  <2>3. /\ numOfChannels'[m] = INT_SIZE
        /\ \A k \in Minors \ {m} : numOfChannels'[k] = numOfChannels[k]
    BY <1>1, <1>2, <1>4, <2>2, CountsAlone DEF INT_SIZE
  <2>4. INT_SIZE * (Cardinality({}) + 1) = INT_SIZE
    BY FS_EmptySet DEF INT_SIZE
  <2> SUFFICES ASSUME NEW k \in Minors
               PROVE  numOfChannels'[k] =
                        IF Acknowledged(k) = {} /\ ~\E q \in Procs : In(q, k, {"set_root", "count"})'
                        THEN 0 ELSE INT_SIZE * (Cardinality(Acknowledged(k)) + 1)
    BY <1>9 DEF CountsChannels
  <2>5. CASE k = m
    BY <2>1, <2>2, <2>3, <2>4, <2>5
  <2>6. CASE k # m
    BY <1>2, <2>1, <2>3, <2>6 DEF Orderly, CountsChannels
  <2> QED
    BY <2>5, <2>6
<1>11. CountsSlots'
  BY <1>1, <1>5 DEF Orderly, CountsSlots, SlotsCounted, In, Marked
<1>12. Stored'
  BY <1>5, <1>6, <1>7, AppendStored DEF Orderly, Marked
<1>13. Doing(p, L)'
  <2>1. CallOf(task[p], file[p])'
    BY <1>1, <1>2, <1>3 DEF CallOf
  <2>2. Fresh(task[p], file[p], L)'
    BY <1>1, <1>3, <1>6, <1>7 DEF Fresh
  <2>3. InCallOf(task[p], file[p], L)'
    BY <1>1, <1>2, <1>3, <1>7, <1>8, <2>2 DEF InCallOf, Opening
  <2>4. Doing(p, L)
    BY DEF Orderly
  <2> QED
    BY <1>1, <1>2, <1>3, <2>1, <2>3, <2>4 DEF Doing, Outside
<1> QED
  BY <1>1, <1>4, <1>7, <1>9, <1>10, <1>11, <1>12, <1>13, OneMoves DEF Orderly, Known

LEMMA InitiateOrderly ==
  ASSUME SlotInv, NEW L \in Nets, Orderly(L), NEW p \in Procs, InitiateChannel(p)
  PROVE  Orderly(L)'
<1> DEFINE m == file[p].minor_num
           f == Len(nodes) + 1
<1>1. /\ task[p].pc = "find" /\ nodes' = Append(nodes, NewNode(p))
      /\ task[p].call = "ioctl" /\ task[p].node = NULL /\ ~LimitReached(m)
      /\ UNCHANGED <<module, minors, slots, numOfDrivers, numOfChannels, file, acknowledged>>
      /\ task' = [task EXCEPT ![p] = task'[p]]
      /\ task'[p] = [task[p] EXCEPT !.pc = "tail", !.fresh = f, !.node = task[p].root]
  BY DEF InitiateChannel, At, SlotInv
<1>2. /\ CallOf(task[p], file[p]) /\ InCallOf(task[p], file[p], L) /\ task[p] \in Tasks
      /\ file[p] # Closed /\ module = "ready" /\ m \in Minors /\ Locals(task[p], file[p])
  BY <1>1, CallerKnows DEF Outside
<1>3. /\ task'[p].pc = "tail" /\ task'[p].call = task[p].call
      /\ task'[p].ret = task[p].ret /\ task'[p].arg = task[p].arg
      /\ task'[p].node = task[p].root /\ task'[p].fresh = f
  BY <1>1, <1>2 DEF Tasks
<1>4. OthersRest(p) /\ Local(p)
  BY <1>1, CallersAreAlone, FileStays DEF Orderly, Rests, Outside
<1>5. \A q \in Procs : task[q].pc \notin Marked /\ task'[q].pc \notin Marked
  BY <1>1, <1>3, <1>4, OthersStay DEF Marked, Outside
<1>6. /\ NewNode(p).next_node = NULL /\ NewNode(p).channel_id = Id(file[p].channel_num)
      /\ NewNode(p).message = None /\ NewNode(p).size = 0
  BY DEF NewNode
<1>7. /\ Lists(L)' /\ Distinct(L)' /\ \A k \in Minors : Numbers(L, k)' = Numbers(L, k)
      /\ \A k \in Minors : Root(k)' = Root(k) /\ f \notin L[k]
      /\ Len(nodes) \in Nat /\ Len(nodes') = f
      /\ nodes'[f] = NewNode(p) /\ \A n \in 1 .. Len(nodes) : nodes'[n] = nodes[n]
  BY <1>1, <1>6, NewNodeIsTyped, AppendLists DEF Orderly, Outside
<1>8. /\ task[p].root \in L[m] /\ Id(file[p].channel_num) \notin Numbers(L, m)
  <2>1. task[p].root = Root(m) /\ task[p].root # NULL
    BY <1>1, <1>2 DEF InCallOf, Locals
  <2>2. task[p].root \in L[m]
    BY <1>2, <2>1, RootOf DEF Orderly
  <2> QED
    BY <1>1, <1>2, <2>2 DEF InCallOf, Numbers
<1>9. \A k \in Minors : Acknowledged(k)' = Acknowledged(k) /\ Created(k) = {} /\ Created(k)' = {}
  BY <1>1, <1>5 DEF Acknowledged, Created, In, Marked
<1>10. CountsChannels'
  BY <1>1, <1>5, <1>9 DEF Orderly, CountsChannels, In, Marked
<1>11. CountsSlots'
  BY <1>1, <1>5 DEF Orderly, CountsSlots, SlotsCounted, In, Marked
<1>12. Stored'
  BY <1>5, <1>6, <1>7, AppendStored DEF Orderly, Marked
<1>13. Doing(p, L)'
  <2>1. CallOf(task[p], file[p])'
    BY <1>1, <1>2, <1>3 DEF CallOf
  <2>2. Fresh(task[p], file[p], L)'
    BY <1>1, <1>3, <1>6, <1>7 DEF Fresh
  <2>3. InCallOf(task[p], file[p], L)'
    BY <1>1, <1>2, <1>3, <1>7, <1>8, <2>2 DEF InCallOf, Opening, LimitReached
  <2>4. Doing(p, L)
    BY DEF Orderly
  <2> QED
    BY <1>1, <1>2, <1>3, <2>1, <2>3, <2>4 DEF Doing, Outside
<1> QED
  BY <1>1, <1>4, <1>7, <1>9, <1>10, <1>11, <1>12, <1>13, OneMoves DEF Orderly, Known

\* What is known of a process that is about to link its new node.
LEMMA LinkerKnows ==
  ASSUME SlotInv, NEW L \in Nets, Orderly(L), NEW p \in Procs,
         task[p].pc \in {"set_root", "link"}
  PROVE  LET m == file[p].minor_num
             c == Id(file[p].channel_num)
             f == task[p].fresh
         IN  /\ m \in Minors /\ c \in 0 .. IdSpan - 1
             /\ f = Len(nodes) /\ f \in 1 .. Len(nodes) /\ f \in Nat /\ f # NULL
             /\ \A k \in Minors : f \notin L[k]
             /\ nodes[f].channel_id = c /\ nodes[f].next_node = NULL
             /\ c \notin Numbers(L, m) /\ c \notin Acknowledged(m)
             /\ task[p].pc = "set_root" => L[m] = {} /\ Acknowledged(m) = {}
             /\ task[p].pc = "link" => Acknowledged(m) # {} /\ ~LimitReached(m)
<1> DEFINE m == file[p].minor_num
           c == Id(file[p].channel_num)
           f == task[p].fresh
<1>1. /\ InCallOf(task[p], file[p], L) /\ Locals(task[p], file[p])
      /\ m \in Minors /\ c \in 0 .. IdSpan - 1
  BY CallerKnows DEF Outside
<1>2. /\ f = Len(nodes) /\ \A k \in Minors : f \notin L[k]
      /\ nodes[f].channel_id = c /\ nodes[f].next_node = NULL
      /\ f \in 1 .. Len(nodes)
  BY <1>1 DEF InCallOf, Fresh, Locals
<1>3. OthersRest(p) /\ task[p].pc # "count"
  BY CallersAreAlone DEF Orderly, Rests, Outside
<1>4. Acknowledged(m) = Numbers(L, m)
  BY <1>1, <1>3, NothingCreated
<1>5. task[p].pc = "set_root" => L[m] = {}
  BY <1>1, RootOf DEF InCallOf, Orderly
<1>6. task[p].pc = "link" => task[p].node \in L[m] /\ c \notin Numbers(L, m) /\ ~LimitReached(m)
  BY <1>1 DEF InCallOf
<1> QED
  BY <1>1, <1>2, <1>4, <1>5, <1>6 DEF Numbers, NULL

\* A channel is in its list when its node has been linked.
LEMMA LinkedOrderly ==
  ASSUME SlotInv, NEW L \in Nets, Orderly(L), NEW p \in Procs,
         task[p].pc \in {"set_root", "link"}, task' = [task EXCEPT ![p].pc = "count"],
         UNCHANGED <<module, minors, numOfDrivers, numOfChannels, file, acknowledged>>,
         Len(nodes') = Len(nodes),
         \A n \in 1 .. Len(nodes) : /\ nodes'[n].channel_id = nodes[n].channel_id
                                    /\ nodes'[n].size = nodes[n].size
                                    /\ nodes'[n].message = nodes[n].message,
         NEW m, NEW f, NEW K \in Nets, m = file[p].minor_num, f = task[p].fresh,
         K = [L EXCEPT ![m] = @ \cup {f}], Lists(K)'
  PROVE  Orderly(K)'
<1>1. PICK c : c = Id(file[p].channel_num)
  OBVIOUS
<1>2. /\ m \in Minors /\ c \in 0 .. IdSpan - 1
      /\ f \in 1 .. Len(nodes) /\ \A k \in Minors : f \notin L[k]
      /\ nodes[f].channel_id = c
      /\ c \notin Numbers(L, m) /\ c \notin Acknowledged(m)
      /\ task[p].pc = "set_root" => Acknowledged(m) = {}
      /\ task[p].pc = "link" => Acknowledged(m) # {} /\ ~LimitReached(m)
  BY <1>1, LinkerKnows
<1>3. /\ CallOf(task[p], file[p]) /\ task[p] \in Tasks /\ module = "ready"
  BY CallerKnows DEF Outside
<1>4. /\ task'[p] = [task[p] EXCEPT !.pc = "count"] /\ task' = [task EXCEPT ![p] = task'[p]]
  BY DEF SlotInv
<1>5. /\ task'[p].pc = "count" /\ task'[p].call = task[p].call
      /\ task'[p].ret = task[p].ret /\ task'[p].arg = task[p].arg
  BY <1>3, <1>4 DEF Tasks
<1>6. OthersRest(p) /\ Local(p)
  BY <1>4, CallersAreAlone, FileStays DEF Orderly, Rests, Outside
<1>7. \A q \in Procs : task[q].pc \in Marked \/ task'[q].pc \in Marked => q = p
  BY <1>6, OthersStay DEF Marked, Outside
<1>8. K[m] = L[m] \cup {f} /\ \A k \in Minors \ {m} : K[k] = L[k]
  BY <1>2 DEF Nets
<1>9. \A k \in Minors : L[k] \subseteq 1 .. Len(nodes)
  BY DEF Orderly, Lists
<1>10. Distinct(K)'
  <2> SUFFICES ASSUME NEW k \in Minors, NEW i \in K[k], NEW j \in K[k],
                      nodes'[i].channel_id = nodes'[j].channel_id
               PROVE  i = j
    BY DEF Distinct
  <2>1. i \in 1 .. Len(nodes) /\ j \in 1 .. Len(nodes)
    BY <1>2, <1>8, <1>9
  <2>2. nodes[i].channel_id = nodes[j].channel_id
    BY <2>1
  <2>3. CASE i \in L[k] /\ j \in L[k]
    BY <2>2, <2>3 DEF Orderly, Distinct
  <2>4. CASE k = m /\ (i = f \/ j = f)
    BY <1>2, <1>8, <2>2, <2>4 DEF Numbers
  <2> QED
    BY <1>2, <1>8, <2>3, <2>4
<1>11. \A k \in Minors : Acknowledged(k)' = Acknowledged(k)
  BY DEF Acknowledged
<1>12. \A q \in Procs, k \in Minors :
         /\ In(q, k, {"set_root"}) => k = m
         /\ In(q, k, {"count"})' <=> q = p /\ k = m
         /\ ~In(q, k, {"set_root"})' /\ ~In(q, k, {"count"})
  BY <1>5, <1>7 DEF In, Marked
<1>13. Known(K)'
  <2> SUFFICES ASSUME NEW k \in Minors
               PROVE  Numbers(K, k)' = Acknowledged(k) \cup Created(k)'
    BY <1>11 DEF Known
  <2>1. Acknowledged(k) = Numbers(L, k)
    BY <1>6, NothingCreated
  <2>2. \A n \in L[k] \cup {f} : nodes'[n].channel_id = nodes[n].channel_id
    BY <1>2, <1>9
  <2>3. CASE k = m
    <3>1. Numbers(K, k)' = Numbers(L, k) \cup {c}
      BY <1>2, <1>8, <2>2, <2>3 DEF Numbers
    <3>2. Created(k)' = {c}
      BY <1>1, <1>12, <2>3 DEF Created
    <3> QED
      BY <2>1, <3>1, <3>2
  <2>4. CASE k # m
    <3>1. Numbers(K, k)' = Numbers(L, k)
      BY <1>8, <2>2, <2>4 DEF Numbers
    <3>2. Created(k)' = {}
      BY <1>12, <2>4 DEF Created
    <3> QED
      BY <2>1, <3>1, <3>2
  <2> QED
    BY <2>3, <2>4
<1>14. CountsChannels'
  <2> SUFFICES ASSUME NEW k \in Minors
               PROVE  numOfChannels[k] =
                        IF Acknowledged(k) = {} /\ ~\E q \in Procs : In(q, k, {"set_root", "count"})'
                        THEN 0 ELSE INT_SIZE * (Cardinality(Acknowledged(k)) + 1)
    BY <1>11 DEF CountsChannels
  <2>1. numOfChannels[k] =
          IF Acknowledged(k) = {} /\ ~\E q \in Procs : In(q, k, {"set_root", "count"})
          THEN 0 ELSE INT_SIZE * (Cardinality(Acknowledged(k)) + 1)
    BY <1>3 DEF Orderly, CountsChannels
  <2>2. k # m => /\ ~\E q \in Procs : In(q, k, {"set_root", "count"})
                 /\ ~\E q \in Procs : In(q, k, {"set_root", "count"})'
    BY <1>12 DEF In
  <2>3. CASE k # m
    BY <2>1, <2>2, <2>3
  <2>4. CASE k = m /\ task[p].pc = "set_root"
    <3>1. In(p, k, {"set_root", "count"}) /\ In(p, k, {"set_root", "count"})'
      BY <1>5, <2>4 DEF In
    <3> QED
      BY <2>1, <3>1
  <2>5. CASE k = m /\ task[p].pc = "link"
    BY <1>2, <2>1, <2>5
  <2> QED
    BY <2>3, <2>4, <2>5
<1>15. CountsSlots' /\ Stored'
  <2>1. \A q \in Procs : task[q].pc \notin {"open_count", "store_message"}
                           /\ task'[q].pc \notin {"open_count", "store_message"}
    BY <1>5, <1>7 DEF Marked
  <2>2. CountsSlots'
    BY <2>1 DEF Orderly, CountsSlots, SlotsCounted, In
  <2>3. \A n \in 1 .. Len(nodes) : Sized(n) /\ Sized(n)'
    BY <2>1 DEF Orderly, Stored, Sized
  <2> QED
    BY <2>2, <2>3 DEF Stored
<1>16. Doing(p, K)'
  <2>1. CallOf(task[p], file[p])'
    BY <1>3, <1>5 DEF CallOf
  <2>2. InCallOf(task[p], file[p], K)'
    <3>1. <<m, c>> \notin acknowledged
      BY <1>2 DEF Acknowledged
    <3>2. LimitReached(m) => Acknowledged(m) = {}
      BY <1>2
    <3>3. LimitReached(m)' <=> LimitReached(m)
      BY DEF LimitReached
    <3> QED
      BY <1>1, <1>2, <1>5, <1>11, <3>1, <3>2, <3>3 DEF InCallOf, Opening
  <2>3. Doing(p, L)
    BY DEF Orderly
  <2> QED
    BY <1>3, <1>5, <2>1, <2>2, <2>3 DEF Doing, Outside
<1> QED
  BY <1>6, <1>10, <1>13, <1>14, <1>15, <1>16, OneMoves

LEMMA SetRootOrderly ==
  ASSUME SlotInv, NEW L \in Nets, Orderly(L), NEW p \in Procs, SetRoot(p)
  PROVE  \E K \in Nets :
           /\ Orderly(K)'
           /\ K = [L EXCEPT ![file[p].minor_num] = @ \cup {task[p].fresh}]
<1>1. PICK m, f : m = file[p].minor_num /\ f = task[p].fresh
  OBVIOUS
<1>2. /\ task[p].pc = "set_root" /\ slots' = [slots EXCEPT ![task[p].slot] = f]
      /\ UNCHANGED <<module, minors, nodes, numOfDrivers, numOfChannels, file, acknowledged>>
      /\ task' = [task EXCEPT ![p].pc = "count"]
  BY <1>1 DEF SetRoot, At
<1>3. /\ m \in Minors /\ f \in Nat /\ f # NULL /\ f \in 1 .. Len(nodes)
      /\ \A k \in Minors : f \notin L[k]
      /\ nodes[f].next_node = NULL /\ L[m] = {}
  BY <1>1, <1>2, LinkerKnows
<1>4. task[p].slot = minors[m] /\ minors[m] # NULL
  <2>1. InCallOf(task[p], file[p], L) /\ Locals(task[p], file[p]) /\ file[p] # Closed
    BY <1>2, CallerKnows DEF Outside
  <2> QED
    BY <1>1, <1>2, <2>1 DEF InCallOf, Locals, Opening
<1>5. Root(m)' = f /\ \A k \in Minors \ {m} : Root(k)' = Root(k)
  <2>1. \A s \in DOMAIN slots : slots'[s] = IF s = minors[m] THEN f ELSE slots[s]
    BY <1>2, <1>4
  <2>2. \A k \in Minors : minors[k] # NULL => minors[k] \in DOMAIN slots
    <3>1. slots \in Seq(Pointers(nodes)) /\ DOMAIN slots = 1 .. Len(slots) /\ Len(slots) \in Nat
      BY LenProperties DEF SlotInv, Shared
    <3> QED
      BY <3>1 DEF SlotInv, Shared, Pointers, NULL
  <2>3. \A k \in Minors \ {m} : minors[k] # minors[m]
    BY <1>3, <1>4 DEF Orderly, Lists
  <2> QED
    BY <1>2, <1>3, <1>4, <2>1, <2>2, <2>3 DEF Root
<1>6. PICK K \in Nets : K = [L EXCEPT ![m] = @ \cup {f}]
  BY <1>3 DEF Nets
<1>7. K[m] = {f} /\ \A k \in Minors \ {m} : K[k] = L[k]
  BY <1>3, <1>6 DEF Nets
<1>8. Lists(K)'
  <2>1. ASSUME NEW k \in Minors
        PROVE  /\ K[k] \subseteq 1 .. Len(nodes)
               /\ IF Root(k)' = NULL THEN K[k] = {} ELSE First(Root(k)', K[k])
               /\ \A n \in K[k] : Successor(n, K[k])
    <3>1. CASE k = m
      BY <1>3, <1>5, <1>7, <3>1 DEF First, Successor
    <3>2. CASE k # m
      BY <1>5, <1>7, <3>2 DEF Orderly, Lists
    <3> QED
      BY <3>1, <3>2
  <2>2. \A j, k \in Minors : j # k =>
          K[j] \cap K[k] = {} /\ (minors[j] = minors[k] => minors[j] = NULL)
    BY <1>3, <1>7 DEF Orderly, Lists
  <2>3. \A n \in 1 .. Len(nodes) :
          (\A k \in Minors : n \notin K[k]) => nodes[n].next_node = NULL
    BY <1>3, <1>7 DEF Orderly, Lists
  <2> QED
    BY <1>2, <2>1, <2>2, <2>3 DEF Lists, First, Successor
<1>9. Orderly(K)'
  <2>1. task[p].pc \in {"set_root", "link"}
    BY <1>2
  <2> QED
    BY <1>1, <1>2, <1>6, <1>8, <2>1, LinkedOrderly
<1> QED
  BY <1>1, <1>6, <1>9

\* The new node follows the last one of the list.
LEMMA LinkOrderly ==
  ASSUME SlotInv, NEW L \in Nets, Orderly(L), NEW p \in Procs, Link(p)
  PROVE  \E K \in Nets :
           /\ Orderly(K)'
           /\ K = [L EXCEPT ![file[p].minor_num] = @ \cup {task[p].fresh}]
<1>1. PICK m, f, n : m = file[p].minor_num /\ f = task[p].fresh /\ n = task[p].node
  OBVIOUS
<1>2. /\ task[p].pc = "link" /\ nodes' = [nodes EXCEPT ![n].next_node = f]
      /\ UNCHANGED <<module, minors, slots, numOfDrivers, numOfChannels, file, acknowledged>>
      /\ task' = [task EXCEPT ![p].pc = "count"]
  BY <1>1 DEF Link, At
<1>3. /\ m \in Minors /\ f \in Nat /\ f # NULL /\ f \in 1 .. Len(nodes) /\ f = Len(nodes)
      /\ \A k \in Minors : f \notin L[k]
      /\ nodes[f].next_node = NULL
  BY <1>1, <1>2, LinkerKnows
<1>4. n \in L[m] /\ nodes[n].next_node = NULL
  <2>1. InCallOf(task[p], file[p], L)
    BY <1>2, CallerKnows DEF Outside
  <2> QED
    BY <1>1, <1>2, <2>1 DEF InCallOf
<1>5. /\ \A k \in Minors : L[k] \subseteq 1 .. Len(nodes) /\ L[k] \subseteq Nat
      /\ \A k \in L[m] : k <= n
      /\ \A k \in Minors : \A i \in L[k] : i < f
  <2>1. \A k \in Minors : L[k] \subseteq 1 .. Len(nodes) /\ L[k] \subseteq Nat
    BY DEF Orderly, Lists, Nets
  <2>2. Successor(n, L[m])
    BY <1>3, <1>4 DEF Orderly, Lists
  <2>3. ASSUME NEW k \in Minors, NEW i \in L[k] PROVE i < f
    BY <1>3, <2>1
  <2> QED
    BY <1>4, <2>1, <2>2, <2>3 DEF Successor
<1>6. /\ Len(nodes') = Len(nodes) /\ n # f /\ n \in 1 .. Len(nodes)
      /\ nodes'[n].next_node = f
      /\ \A i \in 1 .. Len(nodes) : i # n => nodes'[i] = nodes[i]
      /\ \A i \in 1 .. Len(nodes) : /\ nodes'[i].channel_id = nodes[i].channel_id
                                    /\ nodes'[i].size = nodes[i].size
                                    /\ nodes'[i].message = nodes[i].message
  <2>1. n # f /\ n \in 1 .. Len(nodes)
    BY <1>3, <1>4, <1>5
  <2>2. nodes \in Seq(Nodes) /\ DOMAIN nodes = 1 .. Len(nodes) /\ Len(nodes') = Len(nodes)
    BY <1>2, LenProperties, ExceptSeq DEF SlotInv, Shared
  <2>3. /\ nodes'[n] = [nodes[n] EXCEPT !.next_node = f]
        /\ \A i \in 1 .. Len(nodes) : i # n => nodes'[i] = nodes[i]
    BY <1>2, <2>1, <2>2
  <2>4. nodes[n] \in Nodes
    BY <2>1, <2>2, ElementOfSeq
  <2> QED
    BY <2>1, <2>2, <2>3, <2>4 DEF Nodes
<1>7. PICK K \in Nets : K = [L EXCEPT ![m] = @ \cup {f}]
  BY <1>3 DEF Nets
<1>8. K[m] = L[m] \cup {f} /\ \A k \in Minors \ {m} : K[k] = L[k]
  BY <1>3, <1>7 DEF Nets
<1>9. \A k \in Minors : Root(k)' = Root(k)
  BY <1>2 DEF Root
<1>10. Lists(K)'
  <2>1. ASSUME NEW k \in Minors, k # m
        PROVE  /\ K[k] \subseteq 1 .. Len(nodes)
               /\ IF Root(k)' = NULL THEN K[k] = {} ELSE First(Root(k)', K[k])
               /\ \A i \in K[k] : Successor(i, K[k])'
    <3>1. \A i \in K[k] : i # n /\ i \in 1 .. Len(nodes)
      BY <1>3, <1>4, <1>5, <1>8, <2>1 DEF Orderly, Lists
    <3>2. \A i \in K[k] : Successor(i, K[k])
      BY <1>8, <2>1 DEF Orderly, Lists
    <3>3. \A i \in K[k] : Successor(i, K[k])'
      BY <1>6, <3>1, <3>2 DEF Successor
    <3> QED
      BY <1>8, <1>9, <2>1, <3>3 DEF Orderly, Lists
  <2>2. /\ K[m] \subseteq 1 .. Len(nodes)
        /\ Root(m)' # NULL /\ First(Root(m)', K[m])
    <3>1. Root(m) # NULL /\ First(Root(m), L[m])
      BY <1>3, <1>4 DEF Orderly, Lists
    <3>2. Root(m) <= f
      BY <1>3, <1>5, <3>1 DEF First
    <3> QED
      BY <1>3, <1>5, <1>8, <1>9, <3>1, <3>2 DEF First
  <2>3. ASSUME NEW i \in K[m] PROVE Successor(i, K[m])'
    <3>1. CASE i = n
      BY <1>3, <1>5, <1>6, <1>8, <3>1 DEF Successor
    <3>2. CASE i = f
      <4>1. nodes'[f].next_node = NULL
        BY <1>3, <1>6
      <4>2. \A k \in K[m] : k <= f
        BY <1>3, <1>5, <1>8
      <4> QED
        BY <3>2, <4>1, <4>2 DEF Successor
    <3>3. CASE i \in L[m] \ {n}
      <4>1. Successor(i, L[m]) /\ nodes'[i] = nodes[i]
        BY <1>3, <1>5, <1>6, <3>3 DEF Orderly, Lists
      <4>2. nodes[i].next_node # NULL
        <5>1. nodes[i].next_node = NULL => n <= i
          BY <1>4, <4>1 DEF Successor
        <5>2. i <= n /\ i \in Nat /\ n \in Nat
          BY <1>3, <1>4, <1>5, <3>3
        <5> QED
          BY <3>3, <5>1, <5>2
      <4>3. nodes[i].next_node \in L[m] /\ nodes[i].next_node <= f
        BY <1>3, <1>5, <4>1, <4>2 DEF Successor
      <4> QED
        BY <1>8, <4>1, <4>2, <4>3 DEF Successor
    <3> QED
      BY <1>8, <3>1, <3>2, <3>3
  <2>4. \A j, k \in Minors : j # k =>
          K[j] \cap K[k] = {} /\ (minors[j] = minors[k] => minors[j] = NULL)
    BY <1>3, <1>8 DEF Orderly, Lists
  <2>5. \A i \in 1 .. Len(nodes) :
          (\A k \in Minors : i \notin K[k]) => nodes'[i].next_node = NULL
    BY <1>3, <1>4, <1>6, <1>8 DEF Orderly, Lists
  <2> QED
    BY <1>2, <1>6, <2>1, <2>2, <2>3, <2>4, <2>5 DEF Lists, First
<1>11. Orderly(K)'
  <2>1. task[p].pc \in {"set_root", "link"}
    BY <1>2
  <2> QED
    BY <1>1, <1>2, <1>6, <1>7, <1>10, <2>1, LinkedOrderly
<1> QED
  BY <1>1, <1>7, <1>11

LEMMA AcknowledgedIsFinite == \A m : IsFiniteSet(Acknowledged(m))
<1> TAKE m
<1>1. IsFiniteSet(0 .. IdSpan - 1)
  BY MessageSlotAssumption, FS_Interval
<1>2. Acknowledged(m) \subseteq 0 .. IdSpan - 1
  BY DEF Acknowledged
<1> QED
  BY <1>1, <1>2, FS_Subset

LEMMA CountAndReturnOrderly ==
  ASSUME SlotInv, NEW L \in Nets, Orderly(L), NEW p \in Procs, CountAndReturn(p)
  PROVE  Orderly(L)'
<1>1. PICK m, c : m = file[p].minor_num /\ c = Id(file[p].channel_num)
  OBVIOUS
<1>2. /\ task[p].pc = "count" /\ CountChannel(p) /\ acknowledged' = acknowledged \cup {<<m, c>>}
      /\ UNCHANGED <<module, minors, slots, nodes, numOfDrivers, file>>
      /\ task' = [task EXCEPT ![p] = task'[p]] /\ task'[p] = NoCall("user", "OK")
  BY <1>1, IdleIsNoCall DEF CountAndReturn, At, Channel, Return, SlotInv
<1>3. /\ file[p] # Closed /\ module = "ready" /\ m \in Minors /\ c \in 0 .. IdSpan - 1
      /\ <<m, c>> \notin acknowledged
  BY <1>1, <1>2, CallerKnows DEF Outside, InCallOf
<1>4. task'[p].pc = "user"
  BY <1>2 DEF NoCall
<1>5. OthersRest(p) /\ Local(p)
  BY <1>2, CallersAreAlone, FileStays DEF Orderly, Rests, Outside
<1>6. \A q \in Procs : task'[q].pc \notin Marked /\ (task[q].pc \in Marked => q = p)
  BY <1>2, <1>4, <1>5, OthersStay DEF Marked, Outside
<1>7. \A q \in Procs, k \in Minors : /\ ~In(q, k, {"set_root", "count"})'
                                     /\ ~In(q, k, {"count"})'
                                     /\ In(q, k, {"set_root", "count"}) => q = p /\ k = m
                                     /\ In(q, k, {"count"}) <=> q = p /\ k = m
  BY <1>1, <1>2, <1>6 DEF In, Marked
<1>8. /\ c \notin Acknowledged(m) /\ Acknowledged(m)' = Acknowledged(m) \cup {c}
      /\ \A k \in Minors \ {m} : Acknowledged(k)' = Acknowledged(k)
  BY <1>2, <1>3 DEF Acknowledged
<1>9. Lists(L)' /\ Distinct(L)'
  BY <1>2 DEF Orderly, Lists, Distinct, Root, First, Successor
<1>10. Known(L)'
  <2> SUFFICES ASSUME NEW k \in Minors
               PROVE  Numbers(L, k)' = Acknowledged(k)' \cup Created(k)'
    BY DEF Known
  <2>1. Numbers(L, k)' = Numbers(L, k) /\ Created(k)' = {}
    BY <1>2, <1>7 DEF Numbers, Created
  <2>2. Numbers(L, k) = Acknowledged(k) \cup Created(k)
    BY DEF Orderly, Known
  <2>3. Created(k) = IF k = m THEN {c} ELSE {}
    BY <1>1, <1>7 DEF Created
  <2> QED
    BY <1>8, <2>1, <2>2, <2>3
<1>11. CountsChannels'
  <2> SUFFICES ASSUME NEW k \in Minors
               PROVE  numOfChannels'[k] = IF Acknowledged(k)' = {} THEN 0
                                          ELSE INT_SIZE * (Cardinality(Acknowledged(k)') + 1)
    BY <1>7 DEF CountsChannels
  <2>1. numOfChannels[k] =
          IF Acknowledged(k) = {} /\ ~\E q \in Procs : In(q, k, {"set_root", "count"})
          THEN 0 ELSE INT_SIZE * (Cardinality(Acknowledged(k)) + 1)
    BY <1>3 DEF Orderly, CountsChannels
  <2>2. CASE k # m
    <3>1. numOfChannels'[k] = numOfChannels[k]
      BY <1>1, <1>2, <1>3, <1>5, <2>2, CountsAlone
    <3> QED
      BY <1>7, <1>8, <2>1, <2>2, <3>1
  <2>3. CASE k = m
    <3>1. numOfChannels'[m] = numOfChannels[m] + INT_SIZE
      BY <1>1, <1>2, <1>3, <1>5, CountsAlone
    <3>2. In(p, m, {"set_root", "count"})
      BY <1>1, <1>2 DEF In
    <3>3. numOfChannels[m] = INT_SIZE * (Cardinality(Acknowledged(m)) + 1)
      BY <2>1, <2>3, <3>2
    <3>4. IsFiniteSet(Acknowledged(m))
      BY AcknowledgedIsFinite
    <3>5. /\ Cardinality(Acknowledged(m)) \in Nat
          /\ Cardinality(Acknowledged(m)') = Cardinality(Acknowledged(m)) + 1
      BY <1>8, <3>4, FS_AddElement, FS_CardinalityType
    <3>6. Acknowledged(m)' # {}
      BY <1>8
    <3> QED
      BY <2>3, <3>1, <3>3, <3>5, <3>6 DEF INT_SIZE
  <2> QED
    BY <2>2, <2>3
<1>12. CountsSlots' /\ Stored'
  <2>1. \A q \in Procs : task[q].pc \notin {"open_count", "store_message"}
                           /\ task'[q].pc \notin {"open_count", "store_message"}
    BY <1>2, <1>6 DEF Marked
  <2> QED
    BY <1>2, <2>1 DEF Orderly, CountsSlots, SlotsCounted, In, Stored, Sized
<1>13. Doing(p, L)'
  <2>1. Doing(p, L)
    BY DEF Orderly
  <2> QED
    BY <1>2, <1>3, <2>1 DEF Doing, AtRest, NoCall, Outside
<1> QED
  BY <1>2, <1>5, <1>9, <1>10, <1>11, <1>12, <1>13, OneMoves

-----------------------------------------------------------------------------
(* Writing a message. *)

\* A node that is rewritten stays where it is.
LEMMA RewriteLists ==
  ASSUME NEW L \in Nets, Lists(L), Distinct(L), UNCHANGED <<minors, slots>>,
         Len(nodes') = Len(nodes),
         \A n \in 1 .. Len(nodes) : /\ nodes'[n].channel_id = nodes[n].channel_id
                                    /\ nodes'[n].next_node = nodes[n].next_node
  PROVE  /\ Lists(L)' /\ Distinct(L)'
         /\ \A m \in Minors : Root(m)' = Root(m) /\ Numbers(L, m)' = Numbers(L, m)
<1>1. \A m \in Minors : L[m] \subseteq 1 .. Len(nodes)
  BY DEF Lists
<1>2. \A m \in Minors : Root(m)' = Root(m)
  BY DEF Root
<1>3. \A m \in Minors : \A n \in L[m] : Successor(n, L[m])'
  BY <1>1 DEF Lists, Successor
<1>4. Lists(L)'
  BY <1>2, <1>3 DEF Lists, First
<1>5. Distinct(L)'
  BY <1>1 DEF Distinct
<1>6. ASSUME NEW m \in Minors PROVE Numbers(L, m)' = Numbers(L, m)
  <2>1. \A n \in L[m] : nodes'[n].channel_id = nodes[n].channel_id
    BY <1>1
  <2> QED
    BY <2>1 DEF Numbers
<1> QED
  BY <1>2, <1>4, <1>5, <1>6

LEMMA StoreSizeOrderly ==
  ASSUME SlotInv, NEW L \in Nets, Orderly(L), NEW p \in Procs, StoreSize(p)
  PROVE  Orderly(L)'
<1>1. PICK n, s : n = task[p].node /\ s = Length[task[p].arg]
  OBVIOUS
<1>2. /\ task[p].pc = "find" /\ task[p].call = "write"
      /\ n # NULL /\ nodes[n].channel_id = Id(file[p].channel_num)
      /\ nodes' = [nodes EXCEPT ![n].size = s]
      /\ UNCHANGED <<module, minors, slots, numOfDrivers, numOfChannels, file, acknowledged>>
      /\ task' = [task EXCEPT ![p] = task'[p]]
      /\ task'[p] = [task[p] EXCEPT !.pc = "store_message"]
  BY <1>1 DEF StoreSize, At, Found, SlotInv
<1>3. /\ CallOf(task[p], file[p]) /\ InCallOf(task[p], file[p], L) /\ task[p] \in Tasks
      /\ module = "ready" /\ file[p].minor_num \in Minors
  BY <1>2, CallerKnows DEF Outside
<1>4. n \in L[file[p].minor_num]
  BY <1>1, <1>2, <1>3 DEF InCallOf
<1>5. /\ Len(nodes') = Len(nodes) /\ n \in 1 .. Len(nodes) /\ nodes'[n].size = s
      /\ \A i \in 1 .. Len(nodes) : i # n => nodes'[i] = nodes[i]
      /\ \A i \in 1 .. Len(nodes) : /\ nodes'[i].channel_id = nodes[i].channel_id
                                    /\ nodes'[i].next_node = nodes[i].next_node
  <2>1. n \in 1 .. Len(nodes)
    BY <1>3, <1>4 DEF Orderly, Lists
  <2>2. nodes \in Seq(Nodes) /\ DOMAIN nodes = 1 .. Len(nodes) /\ Len(nodes') = Len(nodes)
    BY <1>2, LenProperties, ExceptSeq DEF SlotInv, Shared
  <2>3. /\ nodes'[n] = [nodes[n] EXCEPT !.size = s]
        /\ \A i \in 1 .. Len(nodes) : i # n => nodes'[i] = nodes[i]
    BY <1>2, <2>1, <2>2
  <2>4. nodes[n] \in Nodes
    BY <2>1, <2>2, ElementOfSeq
  <2> QED
    BY <2>1, <2>2, <2>3, <2>4 DEF Nodes
<1>6. /\ task'[p].call = "write" /\ task'[p].ret = task[p].ret
      /\ task'[p].node = n /\ task'[p].pc = "store_message" /\ task'[p].arg = task[p].arg
  BY <1>1, <1>2, <1>3 DEF Tasks
<1>7. OthersRest(p) /\ Local(p)
  BY <1>2, CallersAreAlone, FileStays DEF Orderly, Rests, Outside
<1>8. \A q \in Procs : /\ task[q].pc \notin Marked
                       /\ task'[q].pc \in Marked => q = p /\ task'[q].pc = "store_message"
  BY <1>2, <1>6, <1>7, OthersStay DEF Marked, Outside
<1>9. /\ Lists(L)' /\ Distinct(L)'
      /\ \A m \in Minors : Root(m)' = Root(m) /\ Numbers(L, m)' = Numbers(L, m)
  BY <1>2, <1>5, RewriteLists DEF Orderly
<1>10. \A k \in Minors : Acknowledged(k)' = Acknowledged(k) /\ Created(k) = {} /\ Created(k)' = {}
  BY <1>2, <1>8 DEF Acknowledged, Created, In, Marked
<1>11. CountsChannels' /\ CountsSlots'
  BY <1>2, <1>8, <1>10 DEF Orderly, CountsChannels, CountsSlots, SlotsCounted, In, Marked
<1>12. Stored'
  <2> SUFFICES ASSUME NEW i \in 1 .. Len(nodes), i # n PROVE Sized(i)'
    BY <1>5, <1>6 DEF Stored
  <2> QED
    BY <1>5, <1>8 DEF Orderly, Stored, Sized, Marked
<1>13. Doing(p, L)'
  <2>1. CallOf(task[p], file[p])'
    BY <1>2, <1>3, <1>6 DEF CallOf
  <2>2. InCallOf(task[p], file[p], L)'
    BY <1>1, <1>2, <1>4, <1>5, <1>6 DEF InCallOf, Opening
  <2>3. Doing(p, L)
    BY DEF Orderly
  <2> QED
    BY <1>2, <1>3, <1>6, <2>1, <2>2, <2>3 DEF Doing, Outside
<1> QED
  BY <1>2, <1>7, <1>9, <1>10, <1>11, <1>12, <1>13, OneMoves DEF Orderly, Known

\* Size and message agree again.
LEMMA StoreMessageOrderly ==
  ASSUME SlotInv, NEW L \in Nets, Orderly(L), NEW p \in Procs, StoreMessage(p)
  PROVE  Orderly(L)'
<1>1. PICK n, x : n = task[p].node /\ x = [text |-> task[p].arg, to |-> Address(p)]
  OBVIOUS
<1>2. /\ task[p].pc = "store_message"
      /\ nodes' = [nodes EXCEPT ![n].message = x]
      /\ UNCHANGED <<module, minors, slots, numOfDrivers, numOfChannels, file, acknowledged>>
      /\ task' = [task EXCEPT ![p] = task'[p]] /\ task'[p] = NoCall("user", "OK")
  BY <1>1, IdleIsNoCall DEF StoreMessage, At, Return, SlotInv
<1>3. /\ InCallOf(task[p], file[p], L) /\ Argument(task[p])
      /\ module = "ready" /\ file[p].minor_num \in Minors /\ file[p] # Closed
  BY <1>2, CallerKnows DEF Outside
<1>4. /\ n \in L[file[p].minor_num] /\ nodes[n].size = Length[x.text]
      /\ Length[x.text] \in 1 .. BUFFER_LENGTH
  BY <1>1, <1>2, <1>3 DEF InCallOf, Argument
<1>5. /\ Len(nodes') = Len(nodes) /\ n \in 1 .. Len(nodes)
      /\ nodes'[n].size = nodes[n].size /\ nodes'[n].message = x
      /\ \A i \in 1 .. Len(nodes) : i # n => nodes'[i] = nodes[i]
      /\ \A i \in 1 .. Len(nodes) : /\ nodes'[i].channel_id = nodes[i].channel_id
                                    /\ nodes'[i].next_node = nodes[i].next_node
  <2>1. n \in 1 .. Len(nodes)
    BY <1>3, <1>4 DEF Orderly, Lists
  <2>2. nodes \in Seq(Nodes) /\ DOMAIN nodes = 1 .. Len(nodes) /\ Len(nodes') = Len(nodes)
    BY <1>2, LenProperties, ExceptSeq DEF SlotInv, Shared
  <2>3. /\ nodes'[n] = [nodes[n] EXCEPT !.message = x]
        /\ \A i \in 1 .. Len(nodes) : i # n => nodes'[i] = nodes[i]
    BY <1>2, <2>1, <2>2
  <2>4. nodes[n] \in Nodes
    BY <2>1, <2>2, ElementOfSeq
  <2> QED
    BY <2>1, <2>2, <2>3, <2>4 DEF Nodes
<1>6. task'[p].pc = "user"
  BY <1>2 DEF NoCall
<1>7. OthersRest(p) /\ Local(p)
  BY <1>2, CallersAreAlone, FileStays DEF Orderly, Rests, Outside
<1>8. \A q \in Procs : /\ task'[q].pc \notin Marked
                       /\ task[q].pc \in Marked => q = p /\ task[q].pc = "store_message"
  BY <1>2, <1>6, <1>7, OthersStay DEF Marked, Outside
<1>9. /\ Lists(L)' /\ Distinct(L)'
      /\ \A m \in Minors : Root(m)' = Root(m) /\ Numbers(L, m)' = Numbers(L, m)
  BY <1>2, <1>5, RewriteLists DEF Orderly
<1>10. \A k \in Minors : Acknowledged(k)' = Acknowledged(k) /\ Created(k) = {} /\ Created(k)' = {}
  BY <1>2, <1>8 DEF Acknowledged, Created, In, Marked
<1>11. CountsChannels' /\ CountsSlots'
  BY <1>2, <1>8, <1>10 DEF Orderly, CountsChannels, CountsSlots, SlotsCounted, In, Marked
<1>12. Stored'
  <2> SUFFICES ASSUME NEW i \in 1 .. Len(nodes) PROVE Sized(i)'
    BY <1>5 DEF Stored
  <2>1. CASE i = n
    <3>1. x # None
      <4>1. file[p].channel_num \in Params \cup Garbage
        BY <1>3, FilesAreTyped DEF SlotInv
      <4>2. x \in Letters
        BY <1>1, <1>2, <1>3, <4>1 DEF Letters, Address, Argument
      <4> QED
        BY <4>2, MessageSlotAssumption
    <3> QED
      BY <1>4, <1>5, <2>1, <3>1 DEF Sized
  <2>2. CASE i # n
    <3>1. ~\E q \in Procs : task[q].pc = "store_message" /\ task[q].node = i
      BY <1>1, <1>8, <2>2 DEF Marked
    <3> QED
      BY <1>5, <2>2, <3>1 DEF Orderly, Stored, Sized
  <2> QED
    BY <2>1, <2>2
<1>13. Doing(p, L)'
  <2>1. Doing(p, L)
    BY DEF Orderly
  <2> QED
    BY <1>2, <1>3, <2>1 DEF Doing, AtRest, NoCall, Outside
<1> QED
  BY <1>2, <1>7, <1>9, <1>10, <1>11, <1>12, <1>13, OneMoves DEF Orderly, Known

-----------------------------------------------------------------------------
(* All steps. *)

LEMMA UserOrderly ==
  ASSUME Serial, SlotInv, SerialInv, NEW p \in Procs, User(p)
  PROVE  SerialInv'
<1>1. PICK L \in Nets : Orderly(L)
  BY DEF SerialInv
<1>2. Orderly(L)'
  BY <1>1, OpenOrderly, LeaveOrderly, EnterOrderly DEF User
<1> QED
  BY <1>2 DEF SerialInv

LEMMA SystemCallOrderly ==
  ASSUME Serial, SlotInv, SerialInv, NEW p \in Procs, SystemCall(p)
  PROVE  SerialInv'
<1>1. PICK L \in Nets : Orderly(L)
  BY DEF SerialInv
<1>2. ~OpenRefused(p)
  BY <1>1, NeverRefused DEF OpenRefused, At
<1>3. CASE SetRoot(p) \/ Link(p)
  BY <1>1, <1>3, SetRootOrderly, LinkOrderly DEF SerialInv
<1>4. CASE Orderly(L)'
  BY <1>4 DEF SerialInv
<1>5. CASE AllocateSlot(p) \/ StoreSlot(p) \/ CountSlot(p)
  BY <1>1, <1>4, <1>5, AllocateSlotOrderly, StoreSlotOrderly, CountSlotOrderly
<1>6. CASE CheckIoctl(p) \/ CheckWrite(p) \/ CheckRead(p)
  BY <1>1, <1>4, <1>6, CheckIoctlOrderly, CheckWriteReadOrderly
<1>7. CASE LoadRoot(p) \/ FindNext(p) \/ IoctlFound(p) \/ WriteMissing(p) \/ IoctlRefused(p)
  BY <1>1, <1>4, <1>7, LoadRootOrderly, FindNextOrderly, LookupOrderly
<1>8. CASE ReadMissing(p)
  BY <1>1, <1>4, <1>8, LeaveOrderly
<1>9. CASE InitiateFirstChannel(p) \/ InitiateChannel(p) \/ WalkToTail(p) \/ CountAndReturn(p)
  BY <1>1, <1>4, <1>9, InitiateFirstOrderly, InitiateOrderly, WalkToTailOrderly,
     CountAndReturnOrderly
<1>10. CASE StoreSize(p) \/ StoreMessage(p) \/ LoadSize(p) \/ TestSize(p)
  BY <1>1, <1>4, <1>10, StoreSizeOrderly, StoreMessageOrderly, LoadSizeOrderly, TestSizeOrderly
<1>11. CASE CopyByte(p) \/ ReturnBytes(p)
  BY <1>1, <1>4, <1>11, CopyByteOrderly, ReturnBytesOrderly
<1> QED
  BY <1>2, <1>3, <1>5, <1>6, <1>7, <1>8, <1>9, <1>10, <1>11 DEF SystemCall

LEMMA StutterOrderly == SerialInv /\ UNCHANGED vars => SerialInv'
<1> SUFFICES ASSUME NEW L \in Nets, Orderly(L), UNCHANGED vars
             PROVE  Orderly(L)'
  BY DEF SerialInv
<1>1. UNCHANGED <<driver, file, task, acknowledged>>
  BY DEF vars
<1>2. Alone' /\ Lists(L)' /\ Distinct(L)'
  BY <1>1 DEF Orderly, Alone, Lists, Distinct, Root, First, Successor, driver
<1>3. Known(L)'
  BY <1>1 DEF Orderly, Known, Numbers, Acknowledged, Created, In, driver
<1>4. CountsChannels' /\ CountsSlots' /\ Stored'
  <2>1. CountsChannels'
    BY <1>1 DEF Orderly, CountsChannels, Acknowledged, In, driver
  <2>2. SlotsCounted' = SlotsCounted
    BY <1>1 DEF SlotsCounted, In, driver
  <2>3. Stored'
    BY <1>1 DEF Orderly, Stored, Sized, driver
  <2> QED
    BY <1>1, <2>1, <2>2, <2>3 DEF Orderly, CountsSlots, driver
<1>5. ASSUME NEW p \in Procs PROVE Doing(p, L)'
  <2>1. InCallOf(task[p], file[p], L)' <=> InCallOf(task[p], file[p], L)
    BY <1>1, DoingSame
  <2> QED
    BY <1>1, <2>1 DEF Orderly, Doing, AtRest, Whole, CallOf, driver
<1> QED
  BY <1>2, <1>3, <1>4, <1>5 DEF Orderly

\* When calls do not overlap the lists, the counters and the sizes of the driver
\* agree with each other and with what the calls have returned
\* (message_slot.c:97-198).
THEOREM SerialIsOrderly == Serial => (Spec => []SerialInv)
<1> SUFFICES ASSUME Serial PROVE Spec => []SerialInv
  OBVIOUS
<1>1. Init => SerialInv
  BY InitOrderly
<1>2. SlotInv /\ SerialInv /\ [Next]_vars => SerialInv'
  <2> SUFFICES ASSUME SlotInv, SerialInv, [Next]_vars PROVE SerialInv'
    OBVIOUS
  <2>1. CASE Load
    <3>1. PICK L \in Nets : Orderly(L)
      BY DEF SerialInv
    <3>2. CASE Register \/ AllocateDevices
      BY <3>1, <3>2, LoadOrderly DEF SerialInv
    <3> QED
      BY <2>1, <3>1, <3>2, FinalizeOrderly DEF Load
  <2>2. CASE \E p \in Procs : SystemCall(p) \/ User(p)
    BY <2>2, SystemCallOrderly, UserOrderly
  <2>3. CASE UNCHANGED vars
    BY <2>3, StutterOrderly
  <2> QED
    BY <2>1, <2>2, <2>3 DEF Next
<1>3. Spec => []SlotInv
  BY SlotIsSound
<1> QED
  BY <1>1, <1>2, <1>3, PTL DEF Spec

\* What a read returns is one message as some write left it (message_slot.c:66).
THEOREM MessagesAreWhole == Serial => (Spec => []WholeMessages)
<1> SUFFICES ASSUME Serial PROVE Spec => []WholeMessages
  OBVIOUS
<1>1. SerialInv => WholeMessages
  BY DEF SerialInv, Orderly, Doing, AtRest, Outside, Whole, WholeMessages, At, Texts
<1>2. Spec => []SerialInv
  BY SerialIsOrderly
<1> QED
  BY <1>1, <1>2, PTL

-----------------------------------------------------------------------------
(* The list of a slot, as it is walked. *)

Walk(g) == g = [i \in Pointers(nodes) |->
                  IF i = NULL THEN {} ELSE {i} \cup g[nodes[i].next_node]]

\* The nodes from i on, by the lists.
From(L, i) ==
  {k \in 1 .. Len(nodes) : k = i \/ (i < k /\ \E m \in Minors : i \in L[m] /\ k \in L[m])}

Ahead(L) == [i \in Pointers(nodes) |-> IF i = NULL THEN {} ELSE From(L, i)]

\* A node points further down its list.
LEMMA NextIsAhead ==
  ASSUME SlotInv, NEW L \in Nets, Lists(L), NEW i \in 1 .. Len(nodes)
  PROVE  LET next == nodes[i].next_node
         IN  /\ next # NULL => next \in 1 .. Len(nodes) /\ i < next
             /\ From(L, i) = {i} \cup (IF next = NULL THEN {} ELSE From(L, next))
<1> DEFINE next == nodes[i].next_node
<1>1. \A m \in Minors : L[m] \subseteq 1 .. Len(nodes)
  BY DEF Lists
<1>2. Len(nodes) \in Nat /\ i \in Nat
  BY LenProperties DEF SlotInv, Shared
<1>3. CASE \A m \in Minors : i \notin L[m]
  BY <1>3 DEF Lists, From
<1>4. CASE \E m \in Minors : i \in L[m]
  <2>1. PICK m \in Minors : i \in L[m]
    BY <1>4
  <2>2. \A k \in Minors : i \in L[k] => k = m
    BY <2>1 DEF Lists
  <2>3. From(L, i) = {k \in 1 .. Len(nodes) : k = i \/ (i < k /\ k \in L[m])}
    BY <2>1, <2>2 DEF From
  <2>4. Successor(i, L[m])
    BY <2>1 DEF Lists
  <2>5. CASE next = NULL
    BY <1>1, <1>2, <2>1, <2>3, <2>4, <2>5 DEF Successor
  <2>6. CASE next # NULL
    <3>1. next \in L[m] /\ i < next /\ \A k \in L[m] : k <= i \/ next <= k
      BY <2>4, <2>6 DEF Successor
    <3>2. next \in 1 .. Len(nodes)
      BY <1>1, <3>1
    <3>3. \A k \in Minors : next \in L[k] => k = m
      BY <2>1, <3>1 DEF Lists
    <3>4. From(L, next) = {k \in 1 .. Len(nodes) : k = next \/ (next < k /\ k \in L[m])}
      BY <3>1, <3>3 DEF From
    <3>5. ASSUME NEW k \in 1 .. Len(nodes), i < k, k \in L[m]
          PROVE  k = next \/ next < k
      BY <1>2, <3>1, <3>2, <3>5
    <3>6. ASSUME NEW k \in 1 .. Len(nodes), k = next \/ next < k
          PROVE  i < k
      BY <1>2, <3>1, <3>2, <3>6
    <3> HIDE DEF next
    <3>7. From(L, i) = {i} \cup From(L, next)
      BY <2>3, <3>1, <3>4, <3>5, <3>6
    <3> QED
      BY <2>6, <3>1, <3>2, <3>7 DEF next
  <2> QED
    BY <2>5, <2>6
<1> QED
  BY <1>3, <1>4

LEMMA AheadWalks ==
  ASSUME SlotInv, NEW L \in Nets, Lists(L)
  PROVE  Walk(Ahead(L))
<1>1. Len(nodes) \in Nat /\ Pointers(nodes) = {NULL} \cup 1 .. Len(nodes)
  BY LenProperties DEF SlotInv, Shared, Pointers, NULL
<1>2. ASSUME NEW i \in 1 .. Len(nodes)
      PROVE  From(L, i) = {i} \cup Ahead(L)[nodes[i].next_node]
  <2>1. nodes[i].next_node \in Pointers(nodes)
    BY <1>1, NextIsAhead
  <2> QED
    BY <1>1, <2>1, NextIsAhead DEF Ahead, NULL
<1>3. \A i \in 1 .. Len(nodes) : i # NULL
  BY DEF NULL
<1> QED
  BY <1>1, <1>2, <1>3 DEF Walk, Ahead

\* There is one way to walk the lists.
LEMMA WalkIsAhead ==
  ASSUME SlotInv, NEW L \in Nets, Lists(L), NEW g, Walk(g), NEW n \in 1 .. Len(nodes)
  PROVE  g[n] = From(L, n)
<1>1. PICK len \in Nat : len = Len(nodes)
  BY LenProperties DEF SlotInv, Shared
<1> DEFINE N == {d \in Nat : \A i \in 1 .. len : len - i < d => g[i] = From(L, i)}
<1>2. 0 \in N
  BY <1>1
<1>3. ASSUME NEW d \in N PROVE d + 1 \in N
  <2> SUFFICES ASSUME NEW i \in 1 .. len, len - i < d + 1
               PROVE  g[i] = From(L, i)
    OBVIOUS
  <2>1. i \in Pointers(nodes) /\ i # NULL /\ NULL \in Pointers(nodes)
    BY <1>1 DEF Pointers, NULL
  <2>2. g[i] = {i} \cup g[nodes[i].next_node] /\ g[NULL] = {}
    BY <2>1 DEF Walk
  <2>3. CASE nodes[i].next_node = NULL
    BY <1>1, <2>2, <2>3, NextIsAhead
  <2>4. CASE nodes[i].next_node # NULL
    <3>1. PICK k : k = nodes[i].next_node
      OBVIOUS
    <3>2. k \in 1 .. len /\ i < k /\ From(L, i) = {i} \cup From(L, k)
      BY <1>1, <2>4, <3>1, NextIsAhead
    <3>3. len - k < d
      BY <1>1, <3>2
    <3>4. g[k] = From(L, k)
      BY <3>2, <3>3
    <3> QED
      BY <2>2, <3>1, <3>2, <3>4
  <2> QED
    BY <2>3, <2>4
<1>4. N = Nat
  <2> HIDE DEF N
  <2>1. N \in SUBSET Nat
    BY DEF N
  <2> QED
    BY <1>2, <1>3, <2>1, NatSetInduction
<1>5. len + 1 \in N /\ len - n < len + 1
  BY <1>1, <1>4
<1> QED
  BY <1>1, <1>5

LEMMA ChainIsFrom ==
  ASSUME SlotInv, NEW L \in Nets, Lists(L), NEW n \in 1 .. Len(nodes)
  PROVE  Chain(n) = From(L, n)
<1>1. PICK g : g = CHOOSE h : Walk(h)
  OBVIOUS
<1>2. Walk(g)
  BY <1>1, AheadWalks
<1>3. Chain(n) = g[n]
  BY <1>1 DEF Chain, Walk
<1> QED
  BY <1>2, <1>3, WalkIsAhead

\* What a walk from the root finds is the list.
LEMMA LinkedIsList ==
  ASSUME SlotInv, NEW L \in Nets, Lists(L), NEW m \in Minors
  PROVE  Linked(m) = L[m]
<1>1. L[m] \subseteq 1 .. Len(nodes)
  BY DEF Lists
<1>2. CASE minors[m] = NULL
  BY <1>2, RootOf DEF Linked, Root
<1>3. CASE minors[m] # NULL /\ slots[minors[m]] = NULL
  <2>1. L[m] = {}
    BY <1>3, RootOf DEF Root
  <2>2. NULL \in Pointers(nodes)
    BY LenProperties DEF SlotInv, Shared, Pointers, NULL
  <2>3. PICK g : g = CHOOSE h : Walk(h)
    OBVIOUS
  <2>4. Walk(g)
    BY <2>3, AheadWalks
  <2>5. Chain(NULL) = g[NULL]
    BY <2>3 DEF Chain, Walk
  <2> QED
    BY <1>3, <2>1, <2>2, <2>4, <2>5 DEF Linked, Walk
<1>4. CASE minors[m] # NULL /\ slots[minors[m]] # NULL
  <2>1. PICK r : r = Root(m) /\ r = slots[minors[m]]
    BY <1>4 DEF Root
  <2>2. r \in L[m] /\ \A n \in L[m] : ~(n < r)
    <3>1. Root(m) # NULL
      BY <1>4, <2>1
    <3>2. Root(m) \in L[m] /\ \A n \in L[m] : ~(n < Root(m))
      BY <3>1, RootOf
    <3> QED
      BY <2>1, <3>2
  <2>3. r \in 1 .. Len(nodes) /\ \A n \in L[m] : n = r \/ r < n
    BY <1>1, <2>2
  <2>4. \A k \in Minors : r \in L[k] => k = m
    BY <2>2 DEF Lists
  <2>5. From(L, r) = L[m]
    BY <1>1, <2>2, <2>3, <2>4 DEF From
  <2> QED
    BY <1>4, <2>1, <2>3, <2>5, ChainIsFrom DEF Linked
<1> QED
  BY <1>2, <1>3, <1>4

\* A channel that an ioctl has returned 0 for can be found from then on
\* (message_slot.c:118).
THEOREM ChannelsAreKept == Serial => (Spec => []ChannelsKept)
<1> SUFFICES ASSUME Serial PROVE Spec => []ChannelsKept
  OBVIOUS
<1>1. SlotInv /\ SerialInv => ChannelsKept
  <2> SUFFICES ASSUME SlotInv, NEW L \in Nets, Orderly(L), NEW x \in acknowledged
               PROVE  \E n \in Linked(x[1]) : nodes[n].channel_id = x[2]
    BY DEF SerialInv, ChannelsKept
  <2>1. x[1] \in Minors /\ x[2] \in 0 .. IdSpan - 1 /\ x = <<x[1], x[2]>>
    BY DEF SlotInv, Shared
  <2>2. x[2] \in Acknowledged(x[1])
    BY <2>1 DEF Acknowledged
  <2>3. x[2] \in Numbers(L, x[1])
    BY <2>1, <2>2 DEF Orderly, Known
  <2>4. Linked(x[1]) = L[x[1]]
    BY <2>1, LinkedIsList DEF Orderly
  <2> QED
    BY <2>3, <2>4 DEF Numbers
<1>2. Spec => []SerialInv
  BY SerialIsOrderly
<1> QED
  BY <1>1, <1>2, SlotIsSound, PTL

-----------------------------------------------------------------------------
(* The driver implements AtomicSlot: what the processes see of a step. *)

\* A process in a call that has a file: opening a slot has not been answered yet.
Serving == Labels \ (Outside \cup {"open_limit", "open_store", "open_count"})

\* A process that has not moved sees what it saw.
LEMMA OneSees ==
  ASSUME SlotInv, NEW p \in Procs, Local(p)
  PROVE  /\ OpenSlots' = [OpenSlots EXCEPT ![p] = OpenSlots'[p]]
         /\ Selected' = [Selected EXCEPT ![p] = Selected'[p]]
         /\ Requested' = [Requested EXCEPT ![p] = Requested'[p]]
         /\ Returned' = [Returned EXCEPT ![p] = Returned'[p]]
         /\ Received' = [Received EXCEPT ![p] = Received'[p]]
<1>1. \A q \in Procs \ {p} : task'[q] = task[q] /\ file'[q] = file[q]
  BY DEF SlotInv, Local
<1>2. /\ OpenSlots \in [Procs -> {OpenSlots[q] : q \in Procs}]
      /\ OpenSlots' \in [Procs -> {OpenSlots'[q] : q \in Procs}]
      /\ Selected \in [Procs -> {Selected[q] : q \in Procs}]
      /\ Selected' \in [Procs -> {Selected'[q] : q \in Procs}]
      /\ Requested \in [Procs -> {Requested[q] : q \in Procs}]
      /\ Requested' \in [Procs -> {Requested'[q] : q \in Procs}]
      /\ Returned \in [Procs -> {Returned[q] : q \in Procs}]
      /\ Returned' \in [Procs -> {Returned'[q] : q \in Procs}]
      /\ Received \in [Procs -> {Received[q] : q \in Procs}]
      /\ Received' \in [Procs -> {Received'[q] : q \in Procs}]
  BY DEF OpenSlots, Selected, Requested, Returned, Received
<1>3. \A q \in Procs \ {p} : /\ OpenSlots'[q] = OpenSlots[q] /\ Selected'[q] = Selected[q]
                             /\ Returned'[q] = Returned[q]
  BY <1>1 DEF OpenSlots, Selected, Returned
<1>4. \A q \in Procs \ {p} : Requested'[q] = Requested[q]
  BY <1>1 DEF Requested, InCall
<1>5. \A q \in Procs \ {p} : Received'[q] = Received[q]
  BY <1>1 DEF Received, At, Texts
<1> QED
  BY <1>2, <1>3, <1>4, <1>5

\* AtomicSlot departs from the comments in all four ways.
LEMMA AllDepartures ==
  /\ \A c : Atomic!Number(c) = Id(c)
  /\ Atomic!Limit = Capacity /\ Atomic!Unchosen = 0 .. IdSpan - 1
  BY DEF Atomic!Number, Atomic!Limit, Atomic!Unchosen, Id

LEMMA NoBytes == ASSUME NEW b, b = <<>> PROVE [i \in DOMAIN b |-> b[i].text] = <<>>
  OBVIOUS

\* What a process in a call sees.
LEMMA ServingSees ==
  ASSUME SlotInv, NEW L \in Nets, Orderly(L), NEW p \in Procs, task[p].pc \in Serving
  PROVE  /\ OpenSlots[p] = file[p].minor_num
         /\ Requested[p].call = task[p].call /\ Requested[p].arg = task[p].arg
         /\ Selected[p] = Id(file[p].channel_num)
         /\ Returned[p] = "none" /\ Received[p] = <<>>
<1>1. /\ CallOf(task[p], file[p]) /\ Argument(task[p])
  BY CallerKnows DEF Serving
<1>2. task[p].call \in {"ioctl", "write", "read"}
  BY <1>1 DEF Serving, Labels, Outside, CallOf, Argument
<1>3. task[p].call # None
  BY <1>2, MessageSlotAssumption
<1>4. OpenSlots[p] = file[p].minor_num
  BY DEF OpenSlots, Serving
<1>5. Requested[p].call = task[p].call /\ Requested[p].arg = task[p].arg
  BY <1>3 DEF Requested, InCall
<1>6. Returned[p] = "none" /\ Received[p] = <<>>
  BY <1>1 DEF Returned, Received, CallOf, Serving, Outside, At
<1>7. Selected[p] = Id(file[p].channel_num)
  <2>1. OpenSlots[p] # None
    BY <1>4, CallerKnows, MessageSlotAssumption DEF Serving
  <2> QED
    BY <2>1 DEF Selected
<1> QED
  BY <1>4, <1>5, <1>6, <1>7

\* What a process sees between two calls.
LEMMA OutsideSees ==
  ASSUME SlotInv, NEW L \in Nets, Orderly(L), NEW p \in Procs, task[p].pc \in Outside
  PROVE  /\ OpenSlots[p] = file[p].minor_num
         /\ Requested[p] = Atomic!NoRequest
         /\ Returned[p] = task[p].ret
         /\ OpenSlots[p] = None => Returned[p] = "none" /\ Received[p] = <<>>
<1>1. AtRest(task[p], file[p])
  BY DEF Orderly, Doing
<1>2. OpenSlots[p] = file[p].minor_num /\ Returned[p] = task[p].ret
  BY DEF OpenSlots, Outside, Returned
<1>3. Requested[p] = Atomic!NoRequest
  BY <1>1 DEF AtRest, Requested, InCall, Atomic!NoRequest
<1>4. file[p].minor_num = None => file[p] = Closed
  BY FilesAreTyped, MessageSlotAssumption DEF SlotInv
<1>5. file[p] = Closed => task[p].ret = "none" /\ task[p].buffer = <<>>
  BY <1>1 DEF AtRest
<1>6. task[p].buffer = <<>> => Received[p] = <<>>
  BY NoBytes DEF Received, Texts
<1> QED
  BY <1>2, <1>3, <1>4, <1>5, <1>6

-----------------------------------------------------------------------------
(* What the channels hold. *)

Written(L, x) ==
  {nodes[n].message : n \in {k \in L[x[1]] : nodes[k].channel_id = x[2]}} \ {None}

TextOf(letters) == IF letters = {} THEN None ELSE (CHOOSE l \in letters : TRUE).text

ChannelNames == Minors \X (0 .. IdSpan - 1)

WalksLists == \A L \in Nets : Lists(L) => \A m \in Minors : Linked(m) = L[m]

LEMMA SlotsWalkLists == SlotInv => WalksLists
  BY LinkedIsList DEF WalksLists

LEMMA SlotsWalkListsNext == SlotInv' => WalksLists'
  BY SlotsWalkLists, PTL

LEMMA ContentIsWritten ==
  ASSUME WalksLists, NEW L \in Nets, Lists(L), NEW x \in ChannelNames
  PROVE  Content(x) = TextOf(Written(L, x))
<1>1. Linked(x[1]) = L[x[1]]
  BY DEF WalksLists, ChannelNames
<1> QED
  BY <1>1 DEF Content, TextOf, Written

LEMMA ContentIsWrittenNext ==
  ASSUME WalksLists', NEW L \in Nets, Lists(L)', NEW x \in ChannelNames
  PROVE  Content(x)' = TextOf(Written(L, x)')
<1>1. Linked(x[1])' = L[x[1]]
  BY DEF WalksLists, ChannelNames
<1> QED
  BY <1>1 DEF Content, TextOf, Written

\* What a channel holds when its node is known, or when it has none.
LEMMA WrittenThere ==
  ASSUME NEW L \in Nets, Distinct(L), NEW m \in Minors, NEW n \in L[m]
  PROVE  LET w == TextOf(Written(L, <<m, nodes[n].channel_id>>))
         IN  /\ nodes[n].message = None => w = None
             /\ nodes[n].message # None => w = nodes[n].message.text
<1> DEFINE W == Written(L, <<m, nodes[n].channel_id>>)
<1>1. W = {nodes[n].message} \ {None}
  BY DEF Written, Distinct
<1>2. CASE nodes[n].message = None
  <2>1. W = {}
    BY <1>1, <1>2
  <2> QED
    BY <1>2, <2>1 DEF TextOf
<1>3. CASE nodes[n].message # None
  <2>1. W = {nodes[n].message}
    BY <1>1, <1>3
  <2>2. (CHOOSE l \in W : TRUE) = nodes[n].message
    BY <2>1
  <2> QED
    BY <1>3, <2>1, <2>2 DEF TextOf
<1> QED
  BY <1>2, <1>3

LEMMA NothingWritten ==
  ASSUME NEW L, NEW m, NEW c, c \notin Numbers(L, m)
  PROVE  TextOf(Written(L, <<m, c>>)) = None
<1>1. Written(L, <<m, c>>) = {}
  BY DEF Written, Numbers
<1> QED
  BY <1>1 DEF TextOf

\* A step that writes no message leaves the contents alone.
LEMMA ContentsStay ==
  ASSUME SlotInv, SlotInv', NEW L \in Nets, Lists(L), NEW K \in Nets, Lists(K)',
         \A x \in ChannelNames : Written(K, x)' = Written(L, x)
  PROVE  Contents' = Contents
<1>1. WalksLists /\ WalksLists'
  BY SlotsWalkLists, SlotsWalkListsNext
<1>2. ASSUME NEW x \in ChannelNames PROVE Content(x)' = Content(x)
  BY <1>1, ContentIsWritten, ContentIsWrittenNext
<1> QED
  BY <1>2 DEF Contents, ChannelNames

\* In particular one that changes no list.
LEMMA ListsStay ==
  ASSUME SlotInv, SlotInv', NEW L \in Nets, Lists(L), Lists(L)',
         \A m \in Minors : \A n \in L[m] : /\ nodes'[n].channel_id = nodes[n].channel_id
                                           /\ nodes'[n].message = nodes[n].message
  PROVE  Contents' = Contents
<1>1. ASSUME NEW x \in ChannelNames PROVE Written(L, x)' = Written(L, x)
  BY DEF Written, ChannelNames
<1> QED
  BY <1>1, ContentsStay

-----------------------------------------------------------------------------
(* Steps of a call, as they are seen. *)

LEMMA ChannelsStay == UNCHANGED acknowledged => UNCHANGED Channels
  BY DEF Channels

\* A step inside a call is not seen.
LEMMA InsideUnseen ==
  ASSUME SlotInv, NEW p \in Procs, task[p].pc \in Serving, task'[p].pc \in Serving,
         task' = [task EXCEPT ![p] = task'[p]],
         task'[p].call = task[p].call, task'[p].arg = task[p].arg, task'[p].ret = task[p].ret,
         UNCHANGED <<file, acknowledged>>, Contents' = Contents
  PROVE  UNCHANGED Atomic!vars
<1>1. Local(p)
  BY FileStays
<1>2. OpenSlots'[p] = OpenSlots[p] /\ Selected'[p] = Selected[p] /\ Returned'[p] = Returned[p]
  BY DEF OpenSlots, Selected, Returned, Serving
<1>3. Requested'[p] = Requested[p]
  BY DEF Requested, InCall
<1>4. Received'[p] = Received[p]
  BY DEF Received, At, Serving, Outside
<1>5. UNCHANGED <<OpenSlots, Selected, Requested, Returned, Received>>
  <2>1. /\ OpenSlots = [q \in Procs |-> OpenSlots[q]] /\ Selected = [q \in Procs |-> Selected[q]]
        /\ Requested = [q \in Procs |-> Requested[q]] /\ Returned = [q \in Procs |-> Returned[q]]
        /\ Received = [q \in Procs |-> Received[q]]
    BY DEF OpenSlots, Selected, Requested, Returned, Received
  <2> QED
    BY <1>1, <1>2, <1>3, <1>4, <2>1, OneSees
<1> QED
  BY <1>5, ChannelsStay DEF Atomic!vars

\* A call that returns gives its answer.
LEMMA EndIsSeen ==
  ASSUME SlotInv, NEW p \in Procs, task[p].pc \in Serving,
         NEW t, t.pc = "user", t.call = None, task' = [task EXCEPT ![p] = t],
         UNCHANGED file
  PROVE  /\ Atomic!Answer(p, t.ret, [i \in DOMAIN t.buffer |-> t.buffer[i].text])
         /\ UNCHANGED <<OpenSlots, Selected>>
<1>1. task'[p] = t /\ task' = [task EXCEPT ![p] = task'[p]]
  BY DEF SlotInv
<1>2. Local(p)
  BY <1>1, FileStays
<1>3. OpenSlots'[p] = OpenSlots[p] /\ Selected'[p] = Selected[p] /\ Returned'[p] = t.ret
  BY <1>1 DEF OpenSlots, Selected, Returned, Serving
<1>4. Requested'[p] = Atomic!NoRequest
  BY <1>1 DEF Requested, InCall, Atomic!NoRequest
<1>5. Received'[p] = [i \in DOMAIN t.buffer |-> t.buffer[i].text]
  BY <1>1 DEF Received, At, Texts
<1>6. UNCHANGED <<OpenSlots, Selected>>
  <2>1. OpenSlots = [q \in Procs |-> OpenSlots[q]] /\ Selected = [q \in Procs |-> Selected[q]]
    BY DEF OpenSlots, Selected
  <2> QED
    BY <1>2, <1>3, <2>1, OneSees
<1> QED
  BY <1>2, <1>3, <1>4, <1>5, <1>6, OneSees DEF Atomic!Answer, Atomic!Outcome

LEMMA ReturnIsSeen ==
  ASSUME SlotInv, NEW p \in Procs, task[p].pc \in Serving, NEW r, Return(p, r),
         UNCHANGED file
  PROVE  Atomic!Answer(p, r, <<>>) /\ UNCHANGED <<OpenSlots, Selected>>
<1>1. PICK t : t = NoCall("user", r)
  OBVIOUS
<1>2. /\ t.pc = "user" /\ t.call = None /\ t.ret = r /\ t.buffer = <<>>
      /\ task' = [task EXCEPT ![p] = t]
  BY <1>1, IdleIsNoCall DEF NoCall, Return
<1>3. Atomic!Answer(p, r, [i \in DOMAIN t.buffer |-> t.buffer[i].text])
  BY <1>2, EndIsSeen
<1>4. UNCHANGED <<OpenSlots, Selected>>
  BY <1>2, EndIsSeen
<1> QED
  BY <1>2, <1>3, <1>4, NoBytes

\* What AtomicSlot knows of a call.
LEMMA CallerIsSeen ==
  ASSUME SlotInv, NEW L \in Nets, Orderly(L), NEW p \in Procs, task[p].pc \in Serving
  PROVE  LET m == file[p].minor_num
             c == Id(file[p].channel_num)
         IN  /\ m \in Minors /\ c \in 0 .. IdSpan - 1
             /\ OpenSlots[p] = m /\ Selected[p] = c /\ Channels[m] = Acknowledged(m)
             /\ Requested[p].call = task[p].call /\ Requested[p].arg = task[p].arg
             /\ task[p].pc # "count" => (Atomic!Has(p) <=> c \in Numbers(L, m))
             /\ Atomic!Message(p) = TextOf(Written(L, <<m, c>>))
<1> DEFINE m == file[p].minor_num
           c == Id(file[p].channel_num)
<1>1. m \in Minors /\ c \in 0 .. IdSpan - 1
  BY CallerKnows DEF Serving
<1>2. OpenSlots[p] = m /\ Selected[p] = c /\ Channels[m] = Acknowledged(m)
  BY <1>1, ServingSees DEF Channels, Acknowledged
<1>3. Requested[p].call = task[p].call /\ Requested[p].arg = task[p].arg
  BY ServingSees
<1>4. task[p].pc # "count" => (Atomic!Has(p) <=> c \in Numbers(L, m))
  <2> SUFFICES ASSUME task[p].pc # "count" PROVE Acknowledged(m) = Numbers(L, m)
    BY <1>2 DEF Atomic!Has
  <2> QED
    BY <1>1, CallersAreAlone, NothingCreated DEF Orderly, Rests, Serving
<1>5. Atomic!Message(p) = TextOf(Written(L, <<m, c>>))
  <2>1. <<m, c>> \in ChannelNames
    BY <1>1 DEF ChannelNames
  <2>2. Atomic!Message(p) = Content(<<m, c>>)
    BY <1>2, <2>1 DEF Atomic!Message, Contents, ChannelNames
  <2> QED
    BY <2>1, <2>2, SlotsWalkLists, ContentIsWritten DEF Orderly
<1> QED
  BY <1>1, <1>2, <1>3, <1>4, <1>5

LEMMA MemoryStays ==
  ASSUME SlotInv, SlotInv', NEW L \in Nets, Orderly(L), UNCHANGED <<minors, slots, nodes>>
  PROVE  Contents' = Contents
<1>1. Lists(L) /\ Lists(L)'
  BY DEF Orderly, Lists, Root, First, Successor
<1> QED
  BY <1>1, ListsStay

\* Steps that only move the locals of a call.
LEMMA LookupUnseen ==
  ASSUME SlotInv, SlotInv', NEW L \in Nets, Orderly(L), NEW p \in Procs,
         LoadRoot(p) \/ FindNext(p) \/ WalkToTail(p) \/ LoadSize(p) \/ CopyByte(p)
  PROVE  UNCHANGED Atomic!vars
<1>1. UNCHANGED <<driver, file, acknowledged>>
  BY DEF LoadRoot, FindNext, WalkToTail, LoadSize, CopyByte
<1>2. task[p].pc \in {"root", "find", "tail", "copy"}
  BY DEF LoadRoot, FindNext, WalkToTail, LoadSize, CopyByte, At
<1>3. task[p] \in Tasks
  BY DEF SlotInv
<1>4. /\ task' = [task EXCEPT ![p] = task'[p]]
      /\ task'[p].pc \in {"first", "find", "tail", "link", "test_size", "copy"}
      /\ task'[p].call = task[p].call /\ task'[p].arg = task[p].arg
      /\ task'[p].ret = task[p].ret
  <2>1. CASE LoadRoot(p)
    BY <1>3, <2>1 DEF LoadRoot, SlotInv, Tasks
  <2>2. CASE FindNext(p) \/ CopyByte(p)
    BY <1>3, <2>2 DEF FindNext, CopyByte, At, SlotInv, Tasks
  <2>3. CASE WalkToTail(p)
    BY <1>3, <2>3 DEF WalkToTail, At, SlotInv, Tasks
  <2>4. CASE LoadSize(p)
    BY <1>3, <2>4 DEF LoadSize, SlotInv, Tasks
  <2> QED
    BY <2>1, <2>2, <2>3, <2>4
<1>5. task[p].pc \in Serving /\ task'[p].pc \in Serving
  BY <1>2, <1>4 DEF Serving, Labels, Outside
<1> QED
  BY <1>1, <1>4, <1>5, MemoryStays, InsideUnseen DEF driver

\* A new node is in no list, and the next step links it without a message.
LEMMA CreatingUnseen ==
  ASSUME SlotInv, SlotInv', NEW L \in Nets, Orderly(L), NEW p \in Procs,
         InitiateFirstChannel(p) \/ InitiateChannel(p)
  PROVE  UNCHANGED Atomic!vars
<1>1. /\ task[p].pc \in {"first", "find"} /\ UNCHANGED <<minors, slots, file, acknowledged>>
      /\ nodes' = Append(nodes, NewNode(p))
  BY DEF InitiateFirstChannel, InitiateChannel, At
<1>2. task[p] \in Tasks
  BY DEF SlotInv
<1>3. /\ task' = [task EXCEPT ![p] = task'[p]] /\ task'[p].pc \in {"set_root", "tail"}
      /\ task'[p].call = task[p].call /\ task'[p].arg = task[p].arg
      /\ task'[p].ret = task[p].ret
  <2>1. CASE InitiateFirstChannel(p)
    BY <1>2, <2>1 DEF InitiateFirstChannel, SlotInv, Tasks
  <2>2. CASE InitiateChannel(p)
    BY <1>2, <2>2 DEF InitiateChannel, SlotInv, Tasks
  <2> QED
    BY <2>1, <2>2
<1>4. task[p].pc \in Serving /\ task'[p].pc \in Serving
  BY <1>1, <1>3 DEF Serving, Labels, Outside
<1>5. NewNode(p) \in Nodes /\ NewNode(p).next_node = NULL
  BY <1>4, NewNodeIsTyped DEF Serving, NewNode
<1>6. /\ Lists(L)' /\ \A n \in 1 .. Len(nodes) : nodes'[n] = nodes[n]
  BY <1>1, <1>5, AppendLists DEF Orderly
<1>7. \A m \in Minors : \A n \in L[m] : n \in 1 .. Len(nodes)
  BY DEF Orderly, Lists
<1>8. Contents' = Contents
  BY <1>6, <1>7, ListsStay DEF Orderly
<1> QED
  BY <1>1, <1>3, <1>4, <1>8, InsideUnseen

LEMMA LinkingUnseen ==
  ASSUME SlotInv, SlotInv', NEW L \in Nets, Orderly(L), NEW p \in Procs,
         SetRoot(p) \/ Link(p)
  PROVE  UNCHANGED Atomic!vars
<1>1. PICK m, f : m = file[p].minor_num /\ f = task[p].fresh
  OBVIOUS
<1>2. /\ task[p].pc \in {"set_root", "link"} /\ UNCHANGED <<file, acknowledged>>
      /\ task' = [task EXCEPT ![p].pc = "count"]
  BY DEF SetRoot, Link, At
<1>3. PICK K \in Nets : Orderly(K)' /\ K = [L EXCEPT ![m] = @ \cup {f}]
  BY <1>1, SetRootOrderly, LinkOrderly
<1>4. /\ m \in Minors /\ f \in 1 .. Len(nodes) /\ nodes[f].message = None
  <2>1. InCallOf(task[p], file[p], L)
    BY <1>2, CallerKnows DEF Outside
  <2> QED
    BY <1>1, <1>2, <2>1, LinkerKnows DEF InCallOf, Fresh
<1>5. K[m] = L[m] \cup {f} /\ \A k \in Minors \ {m} : K[k] = L[k]
  BY <1>3, <1>4 DEF Nets
<1>6. \A n \in 1 .. Len(nodes) : /\ nodes'[n].channel_id = nodes[n].channel_id
                                 /\ nodes'[n].message = nodes[n].message
  <2>1. CASE SetRoot(p)
    BY <2>1 DEF SetRoot
  <2>2. CASE Link(p)
    <3>1. nodes \in Seq(Nodes) /\ DOMAIN nodes = 1 .. Len(nodes)
      BY LenProperties DEF SlotInv, Shared
    <3>2. \A n \in 1 .. Len(nodes) : nodes[n] \in Nodes
      BY <3>1, ElementOfSeq
    <3> QED
      BY <2>2, <3>1, <3>2 DEF Link, Nodes
  <2> QED
    BY <2>1, <2>2
<1>7. \A k \in Minors : L[k] \subseteq 1 .. Len(nodes)
  BY DEF Orderly, Lists
<1>8. ASSUME NEW x \in ChannelNames PROVE Written(K, x)' = Written(L, x)
  <2>1. x[1] \in Minors
    BY DEF ChannelNames
  <2>2. \A n \in L[x[1]] \cup {f} : /\ nodes'[n].channel_id = nodes[n].channel_id
                                    /\ nodes'[n].message = nodes[n].message
    BY <1>4, <1>6, <1>7, <2>1
  <2>3. CASE x[1] = m
    BY <1>4, <1>5, <2>2, <2>3 DEF Written
  <2>4. CASE x[1] # m
    BY <1>5, <2>1, <2>2, <2>4 DEF Written
  <2> QED
    BY <2>3, <2>4
<1>9. Contents' = Contents
  BY <1>3, <1>8, ContentsStay DEF Orderly
<1>10. task[p] \in Tasks
  BY DEF SlotInv
<1>11. /\ task' = [task EXCEPT ![p] = task'[p]] /\ task'[p].pc = "count"
       /\ task'[p].call = task[p].call /\ task'[p].arg = task[p].arg
       /\ task'[p].ret = task[p].ret
  BY <1>2, <1>10 DEF SlotInv, Tasks
<1>12. task[p].pc \in Serving /\ task'[p].pc \in Serving
  BY <1>2, <1>11 DEF Serving, Labels, Outside
<1> QED
  BY <1>2, <1>9, <1>11, <1>12, InsideUnseen

LEMMA StoreSizeUnseen ==
  ASSUME SlotInv, SlotInv', NEW L \in Nets, Orderly(L), NEW p \in Procs, StoreSize(p)
  PROVE  UNCHANGED Atomic!vars
<1>1. task[p].pc = "find" /\ UNCHANGED <<minors, slots, file, acknowledged>>
  BY DEF StoreSize, At
<1>2. task[p] \in Tasks
  BY DEF SlotInv
<1>3. /\ task' = [task EXCEPT ![p] = task'[p]] /\ task'[p].pc = "store_message"
      /\ task'[p].call = task[p].call /\ task'[p].arg = task[p].arg
      /\ task'[p].ret = task[p].ret
  BY <1>2 DEF StoreSize, SlotInv, Tasks
<1>4. task[p].pc \in Serving /\ task'[p].pc \in Serving
  BY <1>1, <1>3 DEF Serving, Labels, Outside
<1>5. nodes \in Seq(Nodes) /\ DOMAIN nodes = 1 .. Len(nodes)
  BY LenProperties DEF SlotInv, Shared
<1>6. \A n \in 1 .. Len(nodes) : nodes[n] \in Nodes
  BY <1>5, ElementOfSeq
<1>7. \A n \in 1 .. Len(nodes) : /\ nodes'[n].channel_id = nodes[n].channel_id
                                 /\ nodes'[n].message = nodes[n].message
  BY <1>5, <1>6 DEF StoreSize, Nodes
<1>8. \A m \in Minors : \A n \in L[m] : n \in 1 .. Len(nodes)
  BY DEF Orderly, Lists
<1>9. Lists(L)'
  BY StoreSizeOrderly DEF Orderly
<1>10. Contents' = Contents
  BY <1>7, <1>8, <1>9, ListsStay DEF Orderly
<1> QED
  BY <1>1, <1>3, <1>4, <1>10, InsideUnseen

-----------------------------------------------------------------------------
(* The steps that are seen. *)

LEMMA CheckIoctlSeen ==
  ASSUME Serial, SlotInv, SlotInv', NEW L \in Nets, Orderly(L), NEW p \in Procs, CheckIoctl(p)
  PROVE  Atomic!Choose(p) \/ Atomic!AnswerIoctl(p)
<1>1. /\ task[p].pc = "check" /\ task[p].call = "ioctl" /\ UNCHANGED <<driver, acknowledged>>
      /\ task[p].pc \in Serving /\ task[p] \in Tasks
  BY DEF CheckIoctl, At, Serving, Labels, Outside, SlotInv
<1>2. Requested[p].call = "ioctl" /\ Requested[p].arg = task[p].arg
  BY <1>1, CallerIsSeen
<1>3. UNCHANGED <<Channels, Contents>>
  BY <1>1, ChannelsStay, MemoryStays DEF driver
<1>4. CASE task[p].arg = 0
  <2>1. Return(p, "EINVAL") /\ UNCHANGED file
    BY <1>4 DEF CheckIoctl
  <2>2. Atomic!Answer(p, "EINVAL", <<>>) /\ UNCHANGED <<OpenSlots, Selected>>
    BY <1>1, <2>1, ReturnIsSeen
  <2> QED
    BY <1>2, <1>3, <1>4, <2>2 DEF Atomic!AnswerIoctl, Atomic!Asks
<1>5. CASE task[p].arg # 0
  <2>1. /\ file' = [file EXCEPT ![p].channel_num = task[p].arg]
        /\ task' = [task EXCEPT ![p].pc = "root", ![p].slot = minors[file[p].minor_num]]
    BY <1>5 DEF CheckIoctl, LoadSlot
  <2>2. /\ task' = [task EXCEPT ![p] = task'[p]] /\ task'[p].pc = "root"
        /\ task'[p].call = task[p].call /\ task'[p].arg = task[p].arg
        /\ task'[p].ret = task[p].ret
    BY <1>1, <2>1 DEF SlotInv, Tasks
  <2>3. /\ file' = [file EXCEPT ![p] = file'[p]]
        /\ file'[p] = [file[p] EXCEPT !.channel_num = task[p].arg]
    BY <2>1 DEF SlotInv
  <2>4. file[p] # Closed /\ file[p] \in Files
    BY <1>1, CallerKnows DEF Serving, SlotInv
  <2>5. /\ file'[p].minor_num = file[p].minor_num /\ file'[p].channel_num = task[p].arg
        /\ file[p].minor_num # None
    BY <2>3, <2>4, FilesAreTyped, MessageSlotAssumption
  <2>6. Local(p)
    BY <2>2, <2>3 DEF Local
  <2>7. /\ OpenSlots'[p] = OpenSlots[p] /\ Returned'[p] = Returned[p]
        /\ Selected'[p] = Id(task[p].arg)
    BY <1>1, <2>2, <2>5 DEF OpenSlots, Returned, Selected
  <2>8. Requested'[p] = Requested[p] /\ Received'[p] = Received[p]
    BY <1>1, <2>2 DEF Requested, InCall, Received, At
  <2>9. UNCHANGED <<OpenSlots, Requested, Returned, Received>>
    <3>1. /\ OpenSlots = [q \in Procs |-> OpenSlots[q]]
          /\ Requested = [q \in Procs |-> Requested[q]]
          /\ Returned = [q \in Procs |-> Returned[q]]
          /\ Received = [q \in Procs |-> Received[q]]
      BY DEF OpenSlots, Requested, Returned, Received
    <3> QED
      BY <2>6, <2>7, <2>8, <3>1, OneSees
  <2>10. Selected' = [Selected EXCEPT ![p] = Atomic!Number(Requested[p].arg)]
    BY <1>2, <2>6, <2>7, OneSees, AllDepartures
  <2> QED
    BY <1>2, <1>3, <1>5, <2>9, <2>10 DEF Atomic!Choose, Atomic!Asks
<1> QED
  BY <1>4, <1>5

LEMMA CheckWriteSeen ==
  ASSUME SlotInv, SlotInv', NEW L \in Nets, Orderly(L), NEW p \in Procs,
         CheckWrite(p)
  PROVE  Atomic!AnswerWrite(p) \/ UNCHANGED Atomic!vars
<1>1. /\ task[p].pc = "check" /\ task[p].call = "write"
      /\ UNCHANGED <<driver, file, acknowledged>>
      /\ task[p].pc \in Serving /\ task[p] \in Tasks
  BY DEF CheckWrite, At, Serving, Labels, Outside, SlotInv
<1>2. /\ Requested[p].call = "write" /\ Requested[p].arg = task[p].arg
      /\ Selected[p] = Id(file[p].channel_num)
  BY <1>1, CallerIsSeen
<1>3. UNCHANGED <<Channels, Contents>>
  BY <1>1, ChannelsStay, MemoryStays DEF driver
<1>4. ASSUME NEW r, Return(p, r)
      PROVE  Atomic!Answer(p, r, <<>>) /\ UNCHANGED <<OpenSlots, Selected>>
  BY <1>1, <1>4, ReturnIsSeen
<1>5. CASE Id(file[p].channel_num) = 0
  <2>1. Return(p, "EINVAL")
    BY <1>5 DEF CheckWrite
  <2> QED
    BY <1>2, <1>3, <1>4, <1>5, <2>1 DEF Atomic!AnswerWrite, Atomic!Asks
<1>6. CASE Id(file[p].channel_num) # 0 /\ Length[task[p].arg] \notin 1 .. BUFFER_LENGTH
  <2>1. Return(p, "EMSGSIZE")
    BY <1>6 DEF CheckWrite
  <2> QED
    BY <1>2, <1>3, <1>4, <1>6, <2>1 DEF Atomic!AnswerWrite, Atomic!Asks
<1>7. CASE LoadSlot(p)
  <2>1. /\ task' = [task EXCEPT ![p] = task'[p]] /\ task'[p].pc = "root"
        /\ task'[p].call = task[p].call /\ task'[p].arg = task[p].arg
        /\ task'[p].ret = task[p].ret
    BY <1>1, <1>7 DEF LoadSlot, SlotInv, Tasks
  <2>2. task'[p].pc \in Serving
    BY <2>1 DEF Serving, Labels, Outside
  <2> QED
    BY <1>1, <1>3, <2>1, <2>2, InsideUnseen
<1> QED
  BY <1>5, <1>6, <1>7 DEF CheckWrite

LEMMA CheckReadSeen ==
  ASSUME SlotInv, SlotInv', NEW L \in Nets, Orderly(L), NEW p \in Procs,
         CheckRead(p)
  PROVE  Atomic!AnswerRead(p) \/ UNCHANGED Atomic!vars
<1>1. /\ task[p].pc = "check" /\ task[p].call = "read"
      /\ UNCHANGED <<driver, file, acknowledged>>
      /\ task[p].pc \in Serving /\ task[p] \in Tasks
  BY DEF CheckRead, At, Serving, Labels, Outside, SlotInv
<1>2. Requested[p].call = "read" /\ Requested[p].arg = task[p].arg
  BY <1>1, CallerIsSeen
<1>3. UNCHANGED <<Channels, Contents>>
  BY <1>1, ChannelsStay, MemoryStays DEF driver
<1>4. CASE task[p].arg \notin 1 .. BUFFER_LENGTH
  <2>1. Return(p, "EMSGSIZE")
    BY <1>4 DEF CheckRead
  <2>2. Atomic!Answer(p, "EMSGSIZE", <<>>) /\ UNCHANGED <<OpenSlots, Selected>>
    BY <1>1, <2>1, ReturnIsSeen
  <2> QED
    BY <1>2, <1>3, <1>4, <2>2 DEF Atomic!AnswerRead, Atomic!Asks
<1>5. CASE LoadSlot(p)
  <2>1. /\ task' = [task EXCEPT ![p] = task'[p]] /\ task'[p].pc = "root"
        /\ task'[p].call = task[p].call /\ task'[p].arg = task[p].arg
        /\ task'[p].ret = task[p].ret
    BY <1>1, <1>5 DEF LoadSlot, SlotInv, Tasks
  <2>2. task'[p].pc \in Serving
    BY <2>1 DEF Serving, Labels, Outside
  <2> QED
    BY <1>1, <1>3, <2>1, <2>2, InsideUnseen
<1> QED
  BY <1>4, <1>5 DEF CheckRead

\* A lookup that comes to the end has not missed the channel.
LEMMA MissingIsUnknown ==
  ASSUME SlotInv, NEW L \in Nets, Orderly(L), NEW p \in Procs, task[p].pc = "find",
         task[p].node = NULL
  PROVE  Id(file[p].channel_num) \notin Numbers(L, file[p].minor_num) /\ ~Atomic!Has(p)
<1>1. InCallOf(task[p], file[p], L)
  BY CallerKnows DEF Outside
<1>2. \A n \in L[file[p].minor_num] : nodes[n].channel_id # Id(file[p].channel_num)
  BY <1>1 DEF InCallOf
<1>3. Id(file[p].channel_num) \notin Numbers(L, file[p].minor_num)
  BY <1>2 DEF Numbers
<1>4. task[p].pc \in Serving /\ task[p].pc # "count"
  BY DEF Serving, Labels, Outside
<1> QED
  BY <1>3, <1>4, CallerIsSeen

LEMMA WriteMissingSeen ==
  ASSUME SlotInv, SlotInv', NEW L \in Nets, Orderly(L), NEW p \in Procs, WriteMissing(p)
  PROVE  Atomic!AnswerWrite(p)
<1>1. /\ task[p].pc = "find" /\ task[p].call = "write" /\ task[p].node = NULL
      /\ UNCHANGED <<driver, file, acknowledged>> /\ Return(p, "EINVAL")
      /\ task[p].pc \in Serving
  BY DEF WriteMissing, At, Serving, Labels, Outside
<1>2. /\ Requested[p].call = "write" /\ Requested[p].arg = task[p].arg
      /\ Length[task[p].arg] \in 1 .. BUFFER_LENGTH /\ Selected[p] # 0
  <2>1. CallOf(task[p], file[p]) /\ Argument(task[p])
    BY <1>1, CallerKnows DEF Serving
  <2> QED
    BY <1>1, <2>1, CallerIsSeen DEF Argument, CallOf
<1>3. ~Atomic!Has(p)
  BY <1>1, MissingIsUnknown
<1>4. UNCHANGED <<Channels, Contents>>
  BY <1>1, ChannelsStay, MemoryStays DEF driver
<1>5. Atomic!Answer(p, "EINVAL", <<>>) /\ UNCHANGED <<OpenSlots, Selected>>
  BY <1>1, ReturnIsSeen
<1> QED
  BY <1>2, <1>3, <1>4, <1>5 DEF Atomic!AnswerWrite, Atomic!Asks

\* What an ioctl past its checks is about.
LEMMA IoctlIsSeen ==
  ASSUME Serial, SlotInv, NEW L \in Nets, Orderly(L), NEW p \in Procs, task[p].pc \in Serving,
         task[p].pc # "check", task[p].call = "ioctl"
  PROVE  /\ Requested[p].call = "ioctl" /\ Requested[p].arg # 0
         /\ Atomic!Number(Requested[p].arg) = Id(file[p].channel_num)
<1>1. CallOf(task[p], file[p])
  BY CallerKnows DEF Serving
<1>2. task[p].arg \in Params /\ task[p].arg # 0 /\ file[p].channel_num = task[p].arg
  BY <1>1 DEF CallOf
<1> QED
  BY <1>2, CallerIsSeen, AllDepartures

LEMMA IoctlFoundSeen ==
  ASSUME Serial, SlotInv, SlotInv', NEW L \in Nets, Orderly(L), NEW p \in Procs, IoctlFound(p)
  PROVE  Atomic!AnswerIoctl(p)
<1>1. PICK m, c : m = file[p].minor_num /\ c = Id(file[p].channel_num)
  OBVIOUS
<1>2. /\ task[p].pc = "find" /\ task[p].call = "ioctl" /\ Found(p)
      /\ UNCHANGED <<driver, file>> /\ Return(p, "OK")
      /\ acknowledged' = acknowledged \cup {<<m, c>>}
      /\ task[p].pc \in Serving
  BY <1>1 DEF IoctlFound, At, Serving, Labels, Outside, Channel
<1>3. /\ Requested[p].call = "ioctl" /\ Requested[p].arg # 0
      /\ Atomic!Number(Requested[p].arg) = c
      /\ m \in Minors /\ c \in 0 .. IdSpan - 1
      /\ OpenSlots[p] = m /\ Selected[p] = c /\ Channels[m] = Acknowledged(m)
      /\ Atomic!Has(p) <=> c \in Numbers(L, m)
  BY <1>1, <1>2, IoctlIsSeen, CallerIsSeen
<1>4. Atomic!Has(p)
  <2>1. InCallOf(task[p], file[p], L)
    BY <1>2, CallerKnows DEF Outside
  <2>2. task[p].node \in L[m] /\ nodes[task[p].node].channel_id = c
    BY <1>1, <1>2, <2>1 DEF InCallOf, Found
  <2> QED
    BY <1>3, <2>2 DEF Numbers
<1>5. Channels' = [Channels EXCEPT ![m] = @ \cup {c}]
  BY <1>2, <1>3 DEF Channels
<1>6. Contents' = Contents
  BY <1>2, MemoryStays DEF driver
<1>7. Atomic!Answer(p, "OK", <<>>) /\ UNCHANGED <<OpenSlots, Selected>>
  BY <1>2, ReturnIsSeen
<1> QED
  BY <1>3, <1>4, <1>5, <1>6, <1>7 DEF Atomic!AnswerIoctl, Atomic!Asks

LEMMA SameCardinality == \A S : Atomic!Cardinality(S) = Cardinality(S)
  BY DEF Atomic!Cardinality, Cardinality

\* The comparison with CHANNELS_LIMIT, in channels.
LEMMA LimitIsCapacity ==
  ASSUME NEW k \in Nat, k # 0
  PROVE  INT_SIZE * (k + 1) >= CHANNELS_LIMIT <=> k >= Capacity
<1>1. CHANNELS_LIMIT \in Nat /\ INT_SIZE = 4
  BY MessageSlotAssumption DEF INT_SIZE
<1>2. PICK q \in Int : q = (CHANNELS_LIMIT + 3) \div 4
  BY <1>1
<1>3. 4 * q <= CHANNELS_LIMIT + 3 /\ CHANNELS_LIMIT + 3 < 4 * q + 4
  BY <1>1, <1>2
<1>4. Capacity = IF q - 1 < 1 THEN 1 ELSE q - 1
  BY <1>1, <1>2 DEF Capacity
<1> QED
  BY <1>1, <1>3, <1>4

LEMMA CapacityIsPositive == Capacity \in Nat \ {0}
<1>1. CHANNELS_LIMIT \in Nat /\ INT_SIZE = 4
  BY MessageSlotAssumption DEF INT_SIZE
<1> QED
  BY <1>1 DEF Capacity

LEMMA IoctlRefusedSeen ==
  ASSUME Serial, SlotInv, SlotInv', NEW L \in Nets, Orderly(L), NEW p \in Procs, IoctlRefused(p)
  PROVE  Atomic!AnswerIoctl(p)
<1>1. PICK m, c : m = file[p].minor_num /\ c = Id(file[p].channel_num)
  OBVIOUS
<1>2. /\ task[p].pc = "find" /\ task[p].call = "ioctl" /\ task[p].node = NULL
      /\ LimitReached(m)
      /\ UNCHANGED <<driver, file, acknowledged>> /\ Return(p, "EPERM")
      /\ task[p].pc \in Serving
  BY <1>1 DEF IoctlRefused, At, Serving, Labels, Outside
<1>3. /\ Requested[p].call = "ioctl" /\ Requested[p].arg # 0
      /\ Atomic!Number(Requested[p].arg) = c
      /\ m \in Minors
      /\ OpenSlots[p] = m /\ Selected[p] = c /\ Channels[m] = Acknowledged(m)
  BY <1>1, <1>2, IoctlIsSeen, CallerIsSeen
<1>4. ~Atomic!Has(p)
  BY <1>2, MissingIsUnknown
<1>5. Cardinality(Acknowledged(m)) >= Capacity
  <2>1. InCallOf(task[p], file[p], L) /\ Locals(task[p], file[p]) /\ module = "ready"
    BY <1>2, CallerKnows DEF Outside
  <2>2. Root(m) # NULL
    BY <1>1, <1>2, <2>1 DEF InCallOf, Locals
  <2>3. Root(m) \in L[m]
    BY <1>3, <2>2, RootOf DEF Orderly
  <2>4. Acknowledged(m) # {}
    <3>1. Acknowledged(m) = Numbers(L, m)
      BY <1>2, <1>3, CallersAreAlone, NothingCreated DEF Orderly, Rests, Outside
    <3> QED
      BY <2>3, <3>1 DEF Numbers
  <2>5. numOfChannels[m] = INT_SIZE * (Cardinality(Acknowledged(m)) + 1)
    BY <1>3, <2>1, <2>4 DEF Orderly, CountsChannels
  <2>6. Cardinality(Acknowledged(m)) \in Nat \ {0}
    BY <2>4, AcknowledgedIsFinite, FS_CardinalityType, FS_EmptySet
  <2> QED
    BY <1>2, <2>5, <2>6, LimitIsCapacity DEF LimitReached
<1>6. UNCHANGED <<Channels, Contents>>
  BY <1>2, ChannelsStay, MemoryStays DEF driver
<1>7. Atomic!Answer(p, "EPERM", <<>>) /\ UNCHANGED <<OpenSlots, Selected>>
  BY <1>2, ReturnIsSeen
<1>8. Atomic!Cardinality(Channels[OpenSlots[p]]) >= Atomic!Limit
  BY <1>3, <1>5, SameCardinality, AllDepartures
<1> QED
  BY <1>3, <1>4, <1>6, <1>7, <1>8 DEF Atomic!AnswerIoctl, Atomic!Asks

LEMMA CountAndReturnSeen ==
  ASSUME Serial, SlotInv, SlotInv', NEW L \in Nets, Orderly(L), NEW p \in Procs,
         CountAndReturn(p)
  PROVE  Atomic!AnswerIoctl(p)
<1>1. PICK m, c : m = file[p].minor_num /\ c = Id(file[p].channel_num)
  OBVIOUS
<1>2. /\ task[p].pc = "count"
      /\ UNCHANGED <<minors, slots, nodes, file>> /\ Return(p, "OK")
      /\ acknowledged' = acknowledged \cup {<<m, c>>}
      /\ task[p].pc \in Serving
  BY <1>1 DEF CountAndReturn, At, Serving, Labels, Outside, Channel
<1>3. /\ CallOf(task[p], file[p]) /\ InCallOf(task[p], file[p], L) /\ module = "ready"
  BY <1>2, CallerKnows DEF Outside
<1>4. task[p].call = "ioctl"
  BY <1>2, <1>3 DEF CallOf
<1>5. /\ Requested[p].call = "ioctl" /\ Requested[p].arg # 0
      /\ Atomic!Number(Requested[p].arg) = c
      /\ m \in Minors /\ c \in 0 .. IdSpan - 1
      /\ OpenSlots[p] = m /\ Selected[p] = c /\ Channels[m] = Acknowledged(m)
  BY <1>1, <1>2, <1>4, IoctlIsSeen, CallerIsSeen
<1>6. ~(Cardinality(Acknowledged(m)) >= Capacity)
  <2>1. In(p, m, {"set_root", "count"})
    BY <1>1, <1>2 DEF In
  <2>2. numOfChannels[m] = INT_SIZE * (Cardinality(Acknowledged(m)) + 1)
    BY <1>3, <1>5, <2>1 DEF Orderly, CountsChannels
  <2>3. LimitReached(m) => Acknowledged(m) = {}
    BY <1>1, <1>2, <1>3 DEF InCallOf
  <2>4. CASE Acknowledged(m) = {}
    BY <2>4, CapacityIsPositive, FS_EmptySet
  <2>5. CASE Acknowledged(m) # {}
    <3>1. Cardinality(Acknowledged(m)) \in Nat \ {0}
      BY <2>5, AcknowledgedIsFinite, FS_CardinalityType, FS_EmptySet
    <3> QED
      BY <2>2, <2>3, <2>5, <3>1, LimitIsCapacity DEF LimitReached
  <2> QED
    BY <2>4, <2>5
<1>7. Channels' = [Channels EXCEPT ![m] = @ \cup {c}]
  BY <1>2, <1>5 DEF Channels
<1>8. Contents' = Contents
  BY <1>2, MemoryStays
<1>9. Atomic!Answer(p, "OK", <<>>) /\ UNCHANGED <<OpenSlots, Selected>>
  BY <1>2, ReturnIsSeen
<1>10. ~(Atomic!Cardinality(Channels[OpenSlots[p]]) >= Atomic!Limit)
  BY <1>5, <1>6, SameCardinality, AllDepartures
<1> QED
  BY <1>5, <1>7, <1>8, <1>9, <1>10 DEF Atomic!AnswerIoctl, Atomic!Asks

-----------------------------------------------------------------------------
(* Reading and writing, as they are seen. *)

\* A process that has found its channel, and what the channel holds.
LEMMA FoundIsSeen ==
  ASSUME SlotInv, NEW L \in Nets, Orderly(L), NEW p \in Procs,
         task[p].pc \in {"store_message", "test_size", "copy"}
  PROVE  LET n == task[p].node
         IN  /\ task[p].pc \in Serving /\ Atomic!Has(p)
             /\ n \in 1 .. Len(nodes) /\ n \in L[file[p].minor_num]
             /\ nodes[n].channel_id = Id(file[p].channel_num)
             /\ nodes[n].message = None => Atomic!Message(p) = None
             /\ nodes[n].message # None => Atomic!Message(p) = nodes[n].message.text
<1> DEFINE n == task[p].node
           m == file[p].minor_num
<1>1. task[p].pc \in Serving
  BY DEF Serving, Labels, Outside
<1>2. InCallOf(task[p], file[p], L) /\ m \in Minors
  BY <1>1, CallerKnows DEF Serving
<1>3. n \in L[m] /\ nodes[n].channel_id = Id(file[p].channel_num)
  BY <1>2 DEF InCallOf
<1>4. n \in 1 .. Len(nodes)
  BY <1>2, <1>3 DEF Orderly, Lists
<1>5. nodes[n].channel_id \in Numbers(L, m)
  BY <1>3 DEF Numbers
<1>6. Atomic!Has(p)
  BY <1>1, <1>3, <1>5, CallerIsSeen
<1>7. Atomic!Message(p) = TextOf(Written(L, <<m, nodes[n].channel_id>>))
  BY <1>1, <1>3, CallerIsSeen
<1> QED
  BY <1>1, <1>2, <1>3, <1>4, <1>6, <1>7, WrittenThere DEF Orderly

LEMMA ReaderIsSeen ==
  ASSUME SlotInv, NEW L \in Nets, Orderly(L), NEW p \in Procs,
         task[p].pc \in {"test_size", "copy"}
  PROVE  /\ Requested[p].call = "read" /\ Requested[p].arg = task[p].arg
         /\ task[p].arg \in 1 .. BUFFER_LENGTH
<1>1. task[p].pc \in Serving
  BY DEF Serving, Labels, Outside
<1>2. CallOf(task[p], file[p]) /\ Argument(task[p])
  BY <1>1, CallerKnows DEF Serving
<1>3. task[p].call = "read" /\ task[p].arg \in 1 .. BUFFER_LENGTH
  BY <1>2 DEF CallOf, Argument
<1> QED
  BY <1>1, <1>3, CallerIsSeen

LEMMA TestSizeSeen ==
  ASSUME SlotInv, SlotInv', NEW L \in Nets, Orderly(L), NEW p \in Procs, TestSize(p)
  PROVE  Atomic!AnswerRead(p) \/ UNCHANGED Atomic!vars
<1> DEFINE n == task[p].node
<1>1. task[p].pc = "test_size" /\ UNCHANGED <<driver, file, acknowledged>> /\ task[p] \in Tasks
  BY DEF TestSize, At, SlotInv
<1>2. /\ task[p].pc \in Serving /\ Atomic!Has(p) /\ n \in 1 .. Len(nodes)
      /\ nodes[n].message = None => Atomic!Message(p) = None
      /\ nodes[n].message # None => Atomic!Message(p) = nodes[n].message.text
  BY <1>1, FoundIsSeen
<1>3. Requested[p].call = "read" /\ Requested[p].arg = task[p].arg
      /\ task[p].arg \in 1 .. BUFFER_LENGTH
  BY <1>1, ReaderIsSeen
<1>4. Sized(n)
  BY <1>1, <1>2, ReadersSeeSizes DEF Rests, Outside
<1>5. task[p].size = nodes[n].size
  <2>1. InCallOf(task[p], file[p], L)
    BY <1>1, CallerKnows DEF Outside
  <2> QED
    BY <1>1, <2>1 DEF InCallOf
<1>6. UNCHANGED <<Channels, Contents>>
  BY <1>1, ChannelsStay, MemoryStays DEF driver
<1>7. ASSUME NEW r, Return(p, r)
      PROVE  Atomic!Answer(p, r, <<>>) /\ UNCHANGED <<OpenSlots, Selected>>
  BY <1>1, <1>2, <1>7, ReturnIsSeen
<1>8. CASE nodes[n].size = 0
  <2>1. nodes[n].message = None
    BY <1>4, <1>8 DEF Sized
  <2>2. Return(p, "EWOULDBLOCK")
    BY <1>8 DEF TestSize
  <2> QED
    BY <1>2, <1>3, <1>6, <1>7, <2>1, <2>2 DEF Atomic!AnswerRead, Atomic!Asks
<1>9. CASE nodes[n].size # 0 /\ task[p].size > task[p].arg
  <2>1. nodes[n].message # None /\ task[p].size = Length[nodes[n].message.text]
    BY <1>4, <1>5, <1>9 DEF Sized
  <2>2. nodes[n].message.text # None
    <3>1. nodes[n] \in Nodes
      BY <1>2, ElementOfSeq DEF SlotInv, Shared
    <3>2. nodes[n].message \in Letters
      BY <2>1, <3>1 DEF Nodes
    <3> QED
      BY <3>2, MessageSlotAssumption DEF Letters
  <2>3. Return(p, "ENOSPC")
    BY <1>9 DEF TestSize
  <2> QED
    BY <1>2, <1>3, <1>6, <1>7, <1>9, <2>1, <2>2, <2>3 DEF Atomic!AnswerRead, Atomic!Asks
<1>10. CASE task' = [task EXCEPT ![p].pc = "copy"]
  <2>1. /\ task' = [task EXCEPT ![p] = task'[p]] /\ task'[p].pc = "copy"
        /\ task'[p].call = task[p].call /\ task'[p].arg = task[p].arg
        /\ task'[p].ret = task[p].ret
    BY <1>1, <1>10 DEF SlotInv, Tasks
  <2>2. task'[p].pc \in Serving
    BY <2>1 DEF Serving, Labels, Outside
  <2> QED
    BY <1>1, <1>2, <1>6, <2>1, <2>2, InsideUnseen
<1> QED
  BY <1>8, <1>9, <1>10 DEF TestSize

LEMMA ReturnBytesSeen ==
  ASSUME SlotInv, SlotInv', NEW L \in Nets, Orderly(L), NEW p \in Procs, ReturnBytes(p)
  PROVE  Atomic!AnswerRead(p)
<1>1. PICK n, w, t : /\ n = task[p].node /\ w = nodes[n].message.text
                     /\ t = [Idle EXCEPT !.ret = "OK", !.buffer = task[p].buffer]
  OBVIOUS
<1>2. /\ task[p].pc = "copy" /\ UNCHANGED <<driver, file, acknowledged>>
      /\ task' = [task EXCEPT ![p] = t]
  BY <1>1 DEF ReturnBytes, At
<1>3. t.pc = "user" /\ t.call = None /\ t.ret = "OK" /\ t.buffer = task[p].buffer
  BY <1>1 DEF Idle
<1>4. /\ nodes[n].message # None /\ task[p].size = Length[w]
      /\ task[p].pc \in Serving /\ Atomic!Has(p) /\ Atomic!Message(p) = w
  BY <1>1, <1>2, CopiesMessage, FoundIsSeen
<1>5. w \in Messages
      /\ [i \in DOMAIN task[p].buffer |-> task[p].buffer[i].text] = [i \in 1 .. Length[w] |-> w]
  BY <1>1, ReturnBytesWhole
<1>6. w # None
  BY <1>5, MessageSlotAssumption
<1>7. Requested[p].call = "read" /\ Requested[p].arg = task[p].arg
      /\ task[p].arg \in 1 .. BUFFER_LENGTH
  BY <1>2, ReaderIsSeen
<1>8. Length[w] <= task[p].arg
  BY <1>2, <1>4, CallerKnows DEF Argument, Outside
<1>9. UNCHANGED <<Channels, Contents>>
  BY <1>2, ChannelsStay, MemoryStays DEF driver
<1>10. /\ Atomic!Answer(p, "OK", [i \in 1 .. Length[w] |-> w])
       /\ UNCHANGED <<OpenSlots, Selected>>
  <2>1. Atomic!Answer(p, t.ret, [i \in DOMAIN t.buffer |-> t.buffer[i].text])
    BY <1>2, <1>3, <1>4, EndIsSeen
  <2>2. UNCHANGED <<OpenSlots, Selected>>
    BY <1>2, <1>3, <1>4, EndIsSeen
  <2> QED
    BY <1>3, <1>5, <2>1, <2>2
<1> QED
  BY <1>4, <1>6, <1>7, <1>8, <1>9, <1>10 DEF Atomic!AnswerRead, Atomic!Asks

LEMMA StoreMessageSeen ==
  ASSUME SlotInv, SlotInv', NEW L \in Nets, Orderly(L), NEW p \in Procs, StoreMessage(p)
  PROVE  Atomic!AnswerWrite(p)
<1>1. PICK n, m, c, w : /\ n = task[p].node /\ m = file[p].minor_num
                        /\ c = Id(file[p].channel_num) /\ w = task[p].arg
  OBVIOUS
<1>2. PICK x : x = [text |-> w, to |-> Address(p)]
  OBVIOUS
<1>3. /\ task[p].pc = "store_message"
      /\ UNCHANGED <<minors, slots, file, acknowledged>>
      /\ nodes' = [nodes EXCEPT ![n].message = x] /\ Return(p, "OK")
  BY <1>1, <1>2 DEF StoreMessage, At
<1>4. /\ task[p].pc \in Serving /\ Atomic!Has(p) /\ n \in 1 .. Len(nodes) /\ n \in L[m]
      /\ nodes[n].channel_id = c
  BY <1>1, <1>3, FoundIsSeen
<1>5. /\ Requested[p].call = "write" /\ Requested[p].arg = w
      /\ w \in Messages /\ Length[w] \in 1 .. BUFFER_LENGTH
      /\ m \in Minors /\ c \in 0 .. IdSpan - 1 /\ OpenSlots[p] = m /\ Selected[p] = c
      /\ c # 0
  <2>1. CallOf(task[p], file[p]) /\ Argument(task[p])
    BY <1>4, CallerKnows DEF Serving
  <2>2. task[p].call = "write"
    BY <1>3, <2>1 DEF Argument, CallOf
  <2> QED
    BY <1>1, <1>3, <1>4, <2>1, <2>2, CallerIsSeen DEF Argument, CallOf
<1>6. /\ nodes'[n].message = x
      /\ \A i \in 1 .. Len(nodes) : i # n => nodes'[i] = nodes[i]
      /\ \A i \in 1 .. Len(nodes) : nodes'[i].channel_id = nodes[i].channel_id
  <2>1. nodes \in Seq(Nodes) /\ DOMAIN nodes = 1 .. Len(nodes) /\ nodes[n] \in Nodes
    BY <1>4, LenProperties, ElementOfSeq DEF SlotInv, Shared
  <2> QED
    BY <1>3, <1>4, <2>1 DEF Nodes
<1>7. Lists(L)' /\ Distinct(L)' /\ x # None /\ x.text = w
  <2>1. Orderly(L)'
    BY StoreMessageOrderly
  <2>2. file[p].channel_num \in Params \cup Garbage
    BY <1>4, CallerKnows, FilesAreTyped DEF SlotInv, Serving
  <2>3. x \in Letters
    BY <1>1, <1>2, <1>5, <2>2 DEF Letters, Address
  <2> QED
    BY <1>2, <2>1, <2>3, MessageSlotAssumption DEF Orderly
<1>8. Contents' = [Contents EXCEPT ![<<m, c>>] = w]
  <2>1. WalksLists /\ WalksLists'
    BY SlotsWalkLists, SlotsWalkListsNext
  <2>2. Content(<<m, c>>)' = w
    <3>1. Written(L, <<m, c>>)' = {x}
      <4>1. \A i \in L[m] : i \in 1 .. Len(nodes)
        BY <1>5 DEF Orderly, Lists
      <4>2. {k \in L[m] : nodes'[k].channel_id = c} = {n}
        BY <1>4, <1>5, <1>6, <4>1 DEF Orderly, Distinct
      <4> QED
        BY <1>6, <1>7, <4>2 DEF Written
    <3>2. TextOf({x}) = w
      <4>1. (CHOOSE l \in {x} : TRUE) = x
        OBVIOUS
      <4> QED
        BY <1>7, <4>1 DEF TextOf
    <3>3. <<m, c>> \in ChannelNames
      BY <1>5 DEF ChannelNames
    <3> QED
      BY <1>7, <2>1, <3>1, <3>2, <3>3, ContentIsWrittenNext
  <2>3. ASSUME NEW y \in ChannelNames, y # <<m, c>>
        PROVE  Content(y)' = Content(y)
    <3>1. y[1] \in Minors /\ y = <<y[1], y[2]>>
      BY DEF ChannelNames
    <3>2. {k \in L[y[1]] : nodes'[k].channel_id = y[2]} = {k \in L[y[1]] : nodes[k].channel_id = y[2]}
      BY <1>6, <3>1 DEF Orderly, Lists
    <3>3. \A k \in L[y[1]] : nodes[k].channel_id = y[2] => k # n
      BY <1>4, <1>5, <2>3, <3>1 DEF Orderly, Lists
    <3>4. \A k \in L[y[1]] : nodes[k].channel_id = y[2] => nodes'[k] = nodes[k]
      BY <1>6, <3>1, <3>3 DEF Orderly, Lists
    <3>5. Written(L, y)' = Written(L, y)
      BY <3>2, <3>4 DEF Written
    <3> QED
      BY <1>7, <2>1, <3>5, ContentIsWritten, ContentIsWrittenNext DEF Orderly
  <2> QED
    BY <1>5, <2>2, <2>3 DEF Contents, ChannelNames
<1>9. UNCHANGED Channels
  BY <1>3, ChannelsStay
<1>10. Atomic!Answer(p, "OK", <<>>) /\ UNCHANGED <<OpenSlots, Selected>>
  BY <1>3, <1>4, ReturnIsSeen
<1> QED
  BY <1>4, <1>5, <1>8, <1>9, <1>10 DEF Atomic!AnswerWrite, Atomic!Asks

-----------------------------------------------------------------------------
(* Opening and closing, as they are seen. *)

\* An open file is seen open.
LEMMA OpenIsSeen ==
  ASSUME SlotInv, NEW p \in Procs
  PROVE  /\ file[p] # Closed => file[p].minor_num \in Minors /\ file[p].minor_num # None
         /\ file[p] = Closed => file[p].minor_num = None
<1>1. file[p] \in Files /\ None \notin Minors
  BY MessageSlotAssumption DEF SlotInv
<1>2. CASE file[p] = Closed
  BY <1>2 DEF Closed
<1>3. CASE file[p] # Closed
  BY <1>1, <1>3, FilesAreTyped
<1> QED
  BY <1>2, <1>3

\* What is the same for every process stays.
LEMMA SeenFunctions ==
  /\ OpenSlots = [q \in Procs |-> OpenSlots[q]] /\ Selected = [q \in Procs |-> Selected[q]]
  /\ Requested = [q \in Procs |-> Requested[q]] /\ Returned = [q \in Procs |-> Returned[q]]
  /\ Received = [q \in Procs |-> Received[q]]
  BY DEF OpenSlots, Selected, Requested, Returned, Received

\* No channel is seen chosen without a file.
LEMMA NoneChosen ==
  ASSUME NEW p \in Procs
  PROVE  OpenSlots[p] = None => Selected[p] = 0
  BY DEF Selected

\* A process that is out of a call, s being the channel its file then refers to.
LEMMA BetweenCalls ==
  ASSUME SlotInv, NEW p \in Procs, Local(p), task'[p].pc \in Outside, task'[p].call = None,
         task'[p].ret = "none", task'[p].buffer = <<>>,
         NEW s, s = IF file'[p].minor_num = None THEN 0 ELSE Id(file'[p].channel_num)
  PROVE  /\ OpenSlots' = [OpenSlots EXCEPT ![p] = file'[p].minor_num]
         /\ Selected' = [Selected EXCEPT ![p] = s]
         /\ Requested' = [Requested EXCEPT ![p] = Atomic!NoRequest]
         /\ Atomic!Outcome(p, "none", <<>>)
<1>1. OpenSlots'[p] = file'[p].minor_num /\ Returned'[p] = "none"
  BY DEF OpenSlots, Returned, Outside
<1>2. Selected'[p] = s
  BY <1>1 DEF Selected
<1>3. Requested'[p] = Atomic!NoRequest
  BY DEF Requested, InCall, Atomic!NoRequest
<1>4. Received'[p] = <<>>
  BY NoBytes DEF Received, At, Texts
<1> QED
  BY <1>1, <1>2, <1>3, <1>4, OneSees DEF Atomic!Outcome

\* One that opens a slot, closes it or dies.
LEMMA LeavesAlone ==
  ASSUME SlotInv, NEW p \in Procs, NEW c \in Outside,
         task' = [task EXCEPT ![p] = NoCall(c, "none")], NEW f,
         file' = [file EXCEPT ![p] = f]
  PROVE  /\ Local(p) /\ task'[p].pc \in Outside /\ task'[p].call = None
         /\ task'[p].ret = "none" /\ task'[p].buffer = <<>>
         /\ file'[p] = f
<1>1. task'[p] = NoCall(c, "none") /\ file'[p] = f
  BY DEF SlotInv
<1> QED
  BY <1>1 DEF SlotInv, Local, NoCall

LEMMA OpenKnownSlotSeen ==
  ASSUME Serial, SlotInv, SlotInv', NEW L \in Nets, Orderly(L), NEW p \in Procs,
         NEW m \in Minors, OpenKnownSlot(p, m)
  PROVE  Atomic!Open(p, m)
<1>1. PICK c \in Garbage : file' = [file EXCEPT ![p] = Opened(m, c)]
  BY DEF OpenKnownSlot
<1>2. PICK f, s : f = Opened(m, c) /\ s = Id(c)
  OBVIOUS
<1>3. /\ task[p].pc = "user" /\ file[p] = Closed /\ "user" \in Outside
      /\ task' = [task EXCEPT ![p] = NoCall("user", "none")]
      /\ file' = [file EXCEPT ![p] = f] /\ UNCHANGED <<driver, acknowledged>>
  BY <1>1, <1>2, IdleIsNoCall DEF OpenKnownSlot, MayCall, At, Return, Outside
<1>4. f.minor_num = m /\ m # None /\ s = Id(f.channel_num) /\ s \in Atomic!Unchosen
  BY <1>2, MessageSlotAssumption, IdsAreBounded, AllDepartures DEF Opened
<1>5. OpenSlots[p] = None /\ Requested[p] = Atomic!NoRequest
  BY <1>3, OutsideSees, OpenIsSeen
<1>6. /\ Local(p) /\ task'[p].pc \in Outside /\ task'[p].call = None
      /\ task'[p].ret = "none" /\ task'[p].buffer = <<>> /\ file'[p] = f
  BY <1>3, LeavesAlone
<1>7. /\ OpenSlots' = [OpenSlots EXCEPT ![p] = m] /\ Selected' = [Selected EXCEPT ![p] = s]
      /\ Requested' = [Requested EXCEPT ![p] = Atomic!NoRequest]
      /\ Atomic!Outcome(p, "none", <<>>)
  BY <1>4, <1>6, BetweenCalls
<1>8. UNCHANGED Requested
  BY <1>5, <1>7, SeenFunctions
<1>9. UNCHANGED <<Channels, Contents>>
  BY <1>3, ChannelsStay, MemoryStays DEF driver
<1> QED
  BY <1>4, <1>5, <1>7, <1>8, <1>9 DEF Atomic!Open, Atomic!Quiet

LEMMA ReleaseSeen ==
  ASSUME Serial, SlotInv, SlotInv', NEW L \in Nets, Orderly(L), NEW p \in Procs, Release(p)
  PROVE  Atomic!Release(p)
<1>1. PICK f : f = Closed
  OBVIOUS
<1>2. /\ task[p].pc = "user" /\ file[p] # Closed /\ "user" \in Outside
      /\ task' = [task EXCEPT ![p] = NoCall("user", "none")]
      /\ file' = [file EXCEPT ![p] = f] /\ UNCHANGED <<driver, acknowledged>>
  BY <1>1, IdleIsNoCall DEF Release, MayCall, At, Return, Outside
<1>3. f.minor_num = None
  BY <1>1 DEF Closed
<1>4. OpenSlots[p] # None /\ Requested[p] = Atomic!NoRequest
  BY <1>2, OutsideSees, OpenIsSeen
<1>5. /\ Local(p) /\ task'[p].pc \in Outside /\ task'[p].call = None
      /\ task'[p].ret = "none" /\ task'[p].buffer = <<>>
      /\ file'[p] = f
  BY <1>2, <1>3, LeavesAlone
<1>6. /\ OpenSlots' = [OpenSlots EXCEPT ![p] = None] /\ Selected' = [Selected EXCEPT ![p] = 0]
      /\ Requested' = [Requested EXCEPT ![p] = Atomic!NoRequest]
      /\ Atomic!Outcome(p, "none", <<>>)
  BY <1>3, <1>5, BetweenCalls
<1>7. UNCHANGED Requested
  BY <1>4, <1>6, SeenFunctions
<1>8. UNCHANGED <<Channels, Contents>>
  BY <1>2, ChannelsStay, MemoryStays DEF driver
<1> QED
  BY <1>4, <1>6, <1>7, <1>8 DEF Atomic!Release, Atomic!Quiet

\* A process that opens the device too early dies without having had anything.
LEMMA OpenBeforeAllocationUnseen ==
  ASSUME Serial, SlotInv, SlotInv', NEW L \in Nets, Orderly(L), NEW p \in Procs,
         NEW m \in Minors, OpenBeforeAllocation(p, m)
  PROVE  UNCHANGED Atomic!vars
<1>1. PICK f : f = Closed
  OBVIOUS
<1>2. /\ task[p].pc = "user" /\ file[p] = Closed /\ "user" \in Outside /\ "dead" \in Outside
      /\ task' = [task EXCEPT ![p] = NoCall("dead", "none")]
      /\ file' = [file EXCEPT ![p] = f] /\ UNCHANGED <<driver, acknowledged>>
  BY <1>1, IdleIsNoCall DEF OpenBeforeAllocation, MayCall, At, Die, Outside
<1>3. f.minor_num = None
  BY <1>1 DEF Closed
<1>4. /\ OpenSlots[p] = None /\ Requested[p] = Atomic!NoRequest /\ Selected[p] = 0
      /\ Returned[p] = "none" /\ Received[p] = <<>>
  BY <1>2, OutsideSees, OpenIsSeen, NoneChosen
<1>5. /\ Local(p) /\ task'[p].pc \in Outside /\ task'[p].call = None
      /\ task'[p].ret = "none" /\ task'[p].buffer = <<>>
      /\ file'[p] = f
  BY <1>2, <1>3, LeavesAlone
<1>6. /\ OpenSlots' = [OpenSlots EXCEPT ![p] = None] /\ Selected' = [Selected EXCEPT ![p] = 0]
      /\ Requested' = [Requested EXCEPT ![p] = Atomic!NoRequest]
      /\ Returned' = [Returned EXCEPT ![p] = "none"] /\ Received' = [Received EXCEPT ![p] = <<>>]
  BY <1>3, <1>5, BetweenCalls DEF Atomic!Outcome
<1>7. UNCHANGED <<OpenSlots, Selected, Requested, Returned, Received>>
  BY <1>4, <1>6, SeenFunctions
<1> QED
  BY <1>2, <1>7, ChannelsStay, MemoryStays DEF driver, Atomic!vars

LEMMA ReadMissingSeen ==
  ASSUME SlotInv, SlotInv', NEW L \in Nets, Orderly(L), NEW p \in Procs, ReadMissing(p)
  PROVE  Atomic!Oops(p)
<1>1. PICK f : f = Closed
  OBVIOUS
<1>2. /\ task[p].pc = "find" /\ task[p].call = "read" /\ task[p].node = NULL
      /\ task' = [task EXCEPT ![p] = NoCall("dead", "none")] /\ "dead" \in Outside
      /\ file' = [file EXCEPT ![p] = f] /\ UNCHANGED <<driver, acknowledged>>
      /\ task[p].pc \in Serving
  BY <1>1, IdleIsNoCall DEF ReadMissing, At, Die, Serving, Labels, Outside
<1>3. f.minor_num = None
  BY <1>1 DEF Closed
<1>4. /\ Requested[p].call = "read" /\ Requested[p].arg = task[p].arg
      /\ task[p].arg \in 1 .. BUFFER_LENGTH
  <2>1. CallOf(task[p], file[p])
    BY <1>2, CallerKnows DEF Serving
  <2> QED
    BY <1>2, <2>1, CallerIsSeen DEF CallOf
<1>5. ~Atomic!Has(p)
  BY <1>2, MissingIsUnknown
<1>6. /\ Local(p) /\ task'[p].pc \in Outside /\ task'[p].call = None
      /\ task'[p].ret = "none" /\ task'[p].buffer = <<>>
      /\ file'[p] = f
  BY <1>2, <1>3, LeavesAlone
<1>7. /\ OpenSlots' = [OpenSlots EXCEPT ![p] = None] /\ Selected' = [Selected EXCEPT ![p] = 0]
      /\ Atomic!Answer(p, "none", <<>>)
  BY <1>3, <1>6, BetweenCalls DEF Atomic!Answer
<1>8. UNCHANGED <<Channels, Contents>>
  BY <1>2, ChannelsStay, MemoryStays DEF driver
<1> QED
  BY <1>4, <1>5, <1>7, <1>8 DEF Atomic!Oops, Atomic!Asks

LEMMA EnterSeen ==
  ASSUME Serial, SlotInv, SlotInv', NEW L \in Nets, Orderly(L), NEW p \in Procs,
         NEW x \in Calls, Enter(p, x[1], x[2])
  PROVE  Atomic!Ask(p, x)
<1>1. PICK t : t = [Idle EXCEPT !.pc = "check", !.call = x[1], !.arg = x[2]]
  OBVIOUS
<1>2. /\ task[p].pc = "user" /\ file[p] # Closed /\ task' = [task EXCEPT ![p] = t]
      /\ UNCHANGED <<driver, file, acknowledged>>
  BY <1>1 DEF Enter, MayCall, At
<1>3. t.pc = "check" /\ t.call = x[1] /\ t.arg = x[2] /\ t.ret = "none"
  BY <1>1 DEF Idle
<1>4. OpenSlots[p] # None /\ Requested[p] = Atomic!NoRequest /\ OpenSlots[p] = file[p].minor_num
  BY <1>2, OutsideSees, OpenIsSeen DEF Outside
<1>5. task'[p] = t /\ Local(p)
  BY <1>2 DEF SlotInv, Local
<1>6. OpenSlots'[p] = OpenSlots[p] /\ Selected'[p] = Selected[p] /\ Returned'[p] = "none"
      /\ Received'[p] = <<>>
  BY <1>2, <1>3, <1>4, <1>5 DEF OpenSlots, Selected, Returned, Received, At
<1>7. Requested'[p] = [call |-> x[1], arg |-> x[2]]
  <2>1. x[1] # None
    BY MessageSlotAssumption DEF Calls
  <2> QED
    BY <1>3, <1>5, <2>1 DEF Requested, InCall
<1>8. UNCHANGED <<OpenSlots, Selected>>
  BY <1>5, <1>6, OneSees, SeenFunctions
<1>9. UNCHANGED <<Channels, Contents>>
  BY <1>2, ChannelsStay, MemoryStays DEF driver
<1> QED
  BY <1>4, <1>5, <1>6, <1>7, <1>8, <1>9, OneSees DEF Atomic!Ask, Atomic!Quiet, Atomic!Outcome

\* A slot that is being opened has not been seen yet.
Pending(p) ==
  /\ OpenSlots[p] = None /\ Selected[p] = 0 /\ Requested[p] = Atomic!NoRequest
  /\ Returned[p] = "none" /\ Received[p] = <<>>

LEMMA OpeningSees ==
  ASSUME NEW p \in Procs, task[p].pc \in {"open_limit", "open_store", "open_count"},
         task[p].call = None, task[p].ret = "none"
  PROVE  Pending(p)
<1>1. OpenSlots[p] = None /\ Selected[p] = 0 /\ Returned[p] = "none"
  BY NoneChosen DEF OpenSlots, Returned
<1>2. Requested[p] = Atomic!NoRequest
  BY DEF Requested, InCall, Atomic!NoRequest
<1>3. Received[p] = <<>>
  BY DEF Received, At
<1> QED
  BY <1>1, <1>2, <1>3 DEF Pending

LEMMA OpeningSeesNext ==
  ASSUME NEW p \in Procs, task'[p].pc \in {"open_limit", "open_store", "open_count"},
         task'[p].call = None, task'[p].ret = "none"
  PROVE  Pending(p)'
<1>1. OpenSlots'[p] = None /\ Returned'[p] = "none"
  BY DEF OpenSlots, Returned
<1>2. Selected'[p] = 0
  BY <1>1 DEF Selected
<1>3. Requested'[p] = Atomic!NoRequest
  BY DEF Requested, InCall, Atomic!NoRequest
<1>4. Received'[p] = <<>>
  BY DEF Received, At
<1> QED
  BY <1>1, <1>2, <1>3, <1>4 DEF Pending

LEMMA StillPending ==
  ASSUME SlotInv, NEW p \in Procs, Local(p), Pending(p), Pending(p)',
         UNCHANGED acknowledged, Contents' = Contents
  PROVE  UNCHANGED Atomic!vars
<1>1. UNCHANGED <<OpenSlots, Selected, Requested, Returned, Received>>
  BY OneSees, SeenFunctions DEF Pending
<1> QED
  BY <1>1, ChannelsStay DEF Atomic!vars

LEMMA OpenNewSlotUnseen ==
  ASSUME Serial, SlotInv, SlotInv', NEW L \in Nets, Orderly(L), NEW p \in Procs,
         NEW m \in Minors, OpenNewSlot(p, m)
  PROVE  UNCHANGED Atomic!vars
<1>1. /\ task[p].pc = "user" /\ file[p] = Closed /\ "user" \in Outside
      /\ UNCHANGED <<driver, acknowledged>>
  BY DEF OpenNewSlot, MayCall, At, Outside
<1>2. task'[p] = NoCall("open_limit", "none") /\ Local(p)
  BY IdleIsNoCall DEF OpenNewSlot, SlotInv, Local
<1>3. Pending(p)
  BY <1>1, OutsideSees, OpenIsSeen, NoneChosen DEF Pending
<1>4. Pending(p)'
  BY <1>2, OpeningSeesNext DEF NoCall
<1> QED
  BY <1>1, <1>2, <1>3, <1>4, StillPending, MemoryStays DEF driver

LEMMA AllocateSlotUnseen ==
  ASSUME SlotInv, SlotInv', NEW L \in Nets, Orderly(L), NEW p \in Procs,
         AllocateSlot(p) \/ StoreSlot(p)
  PROVE  UNCHANGED Atomic!vars
<1>1. /\ task[p].pc \in {"open_limit", "open_store"} /\ UNCHANGED <<nodes, file, acknowledged>>
      /\ task[p] \in Tasks
  BY DEF AllocateSlot, StoreSlot, At, SlotInv
<1>2. /\ task' = [task EXCEPT ![p] = task'[p]] /\ task'[p].pc \in {"open_store", "open_count"}
      /\ task'[p].call = task[p].call /\ task'[p].ret = task[p].ret
  <2>1. CASE AllocateSlot(p)
    BY <1>1, <2>1 DEF AllocateSlot, SlotInv, Tasks
  <2>2. CASE StoreSlot(p)
    BY <1>1, <2>2 DEF StoreSlot, SlotInv, Tasks
  <2> QED
    BY <2>1, <2>2
<1>3. task[p].call = None /\ task[p].ret = "none"
  BY <1>1, CallerKnows DEF CallOf, Outside
<1>4. Local(p)
  BY <1>1, <1>2, FileStays
<1>5. Pending(p)
  BY <1>1, <1>3, OpeningSees
<1>6. Pending(p)'
  BY <1>1, <1>2, <1>3, OpeningSeesNext
<1>7. Lists(L) /\ Lists(L)'
  BY AllocateSlotOrderly, StoreSlotOrderly DEF Orderly
<1>8. Contents' = Contents
  BY <1>1, <1>7, ListsStay
<1> QED
  BY <1>1, <1>4, <1>5, <1>6, <1>8, StillPending

LEMMA CountSlotSeen ==
  ASSUME SlotInv, SlotInv', NEW L \in Nets, Orderly(L), NEW p \in Procs, CountSlot(p)
  PROVE  \E m \in Minors : Atomic!Open(p, m)
<1>1. PICK m, s : m = file[p].minor_num /\ s = Id(file[p].channel_num)
  OBVIOUS
<1>2. /\ task[p].pc = "open_count" /\ UNCHANGED <<minors, slots, nodes, file, acknowledged>>
      /\ task' = [task EXCEPT ![p] = task'[p]] /\ task'[p] = NoCall("user", "none")
  BY IdleIsNoCall DEF CountSlot, At, Return, SlotInv
<1>3. /\ task[p].call = None /\ task[p].ret = "none"
      /\ m \in Minors /\ m # None /\ s \in Atomic!Unchosen
  BY <1>1, <1>2, CallerKnows, MessageSlotAssumption, AllDepartures DEF CallOf, Outside
<1>4. Local(p)
  BY <1>2, FileStays
<1>5. Pending(p)
  BY <1>2, <1>3, OpeningSees
<1>6. /\ OpenSlots' = [OpenSlots EXCEPT ![p] = m] /\ Selected' = [Selected EXCEPT ![p] = s]
      /\ Requested' = [Requested EXCEPT ![p] = Atomic!NoRequest]
      /\ Atomic!Outcome(p, "none", <<>>)
  BY <1>1, <1>2, <1>3, <1>4, BetweenCalls DEF NoCall, Outside
<1>7. UNCHANGED Requested
  BY <1>5, <1>6, SeenFunctions DEF Pending
<1>8. UNCHANGED <<Channels, Contents>>
  BY <1>2, ChannelsStay, MemoryStays
<1>9. Atomic!Open(p, m)
  BY <1>3, <1>5, <1>6, <1>7, <1>8 DEF Atomic!Open, Atomic!Quiet, Pending
<1> QED
  BY <1>3, <1>9

-----------------------------------------------------------------------------
(* Loading and unloading, as they are seen. *)

LEMMA NothingLinked ==
  ASSUME \A m \in Minors : minors[m] = NULL
  PROVE  Contents = [x \in Minors \X (0 .. IdSpan - 1) |-> None]
<1>1. ASSUME NEW x \in Minors \X (0 .. IdSpan - 1) PROVE Content(x) = None
  BY <1>1 DEF Content, Linked
<1> QED
  BY <1>1 DEF Contents

LEMMA NothingLinkedNext ==
  (\A m \in Minors : minors[m] = NULL)'
    => (Contents = [x \in Minors \X (0 .. IdSpan - 1) |-> None])'
<1>1. (\A m \in Minors : minors[m] = NULL) =>
        (Contents = [x \in Minors \X (0 .. IdSpan - 1) |-> None])
  BY NothingLinked
<1> QED
  BY <1>1, PTL

LEMMA ProcessesStay ==
  ASSUME UNCHANGED <<file, task>>
  PROVE  UNCHANGED <<OpenSlots, Selected, Requested, Returned, Received>>
<1>1. UNCHANGED <<OpenSlots, Selected, Returned>>
  BY DEF OpenSlots, Selected, Returned
<1>2. UNCHANGED <<Requested, Received>>
  BY DEF Requested, Received, InCall, At, Texts
<1> QED
  BY <1>1, <1>2

LEMMA FinalizeSeen ==
  ASSUME SlotInv, NEW L \in Nets, Orderly(L), Finalize
  PROVE  Atomic!Unload
<1>1. /\ \A p \in Procs : file[p] = Closed /\ task[p].pc \in Outside
      /\ UNCHANGED <<file, task>> /\ acknowledged' = {}
      /\ \A m \in Minors : minors'[m] = NULL
  BY DEF Finalize, Outside
<1>2. \A p \in Procs : OpenSlots[p] = None /\ Atomic!Quiet(p)
  BY <1>1, OutsideSees, OpenIsSeen DEF Atomic!Quiet
<1>3. Channels' = [m \in Minors |-> {}]
  BY <1>1 DEF Channels
<1>4. Contents' = [x \in Minors \X (0 .. IdSpan - 1) |-> None]
  BY <1>1, NothingLinkedNext
<1> QED
  BY <1>1, <1>2, <1>3, <1>4, ProcessesStay DEF Atomic!Unload

LEMMA LoadUnseen ==
  ASSUME SlotInv, SlotInv', NEW L \in Nets, Orderly(L),
         Register \/ AllocateDevices \/ UNCHANGED vars
  PROVE  UNCHANGED Atomic!vars
<1>1. UNCHANGED <<minors, slots, nodes, file, task, acknowledged>>
  BY DEF Register, AllocateDevices, vars, driver
<1> QED
  BY <1>1, ProcessesStay, ChannelsStay, MemoryStays DEF Atomic!vars

LEMMA InitIsSeen ==
  ASSUME Init
  PROVE  Atomic!Init
<1>1. \A p \in Procs : task[p] = Idle /\ file[p] = Closed
  BY DEF Init
<1>2. /\ Idle.pc = "user" /\ Idle.call = None /\ Idle.ret = "none" /\ Idle.buffer = <<>>
      /\ Closed.minor_num = None
  BY DEF Idle, Closed
<1>3. /\ OpenSlots = [p \in Procs |-> None] /\ Selected = [p \in Procs |-> 0]
      /\ Returned = [p \in Procs |-> "none"]
  BY <1>1, <1>2 DEF OpenSlots, Selected, Returned
<1>4. Requested = [p \in Procs |-> Atomic!NoRequest]
  BY <1>1, <1>2 DEF Requested, InCall, Atomic!NoRequest
<1>5. Received = [p \in Procs |-> <<>>]
  <2>1. ASSUME NEW p \in Procs PROVE Texts(p) = <<>>
    BY <1>1, <1>2, NoBytes DEF Texts
  <2> QED
    BY <1>1, <1>2, <2>1 DEF Received, At
<1>6. Channels = [m \in Minors |-> {}]
  BY DEF Channels, Init
<1>7. Contents = [x \in Minors \X (0 .. IdSpan - 1) |-> None]
  BY NothingLinked DEF Init
<1> QED
  BY <1>3, <1>4, <1>5, <1>6, <1>7 DEF Atomic!Init

-----------------------------------------------------------------------------
(* The refinement. *)

LEMMA UserSeen ==
  ASSUME Serial, SlotInv, SlotInv', NEW L \in Nets, Orderly(L), NEW p \in Procs, User(p)
  PROVE  [Atomic!Next]_Atomic!vars
<1>1. CASE \E m \in Minors : OpenKnownSlot(p, m)
  BY <1>1, OpenKnownSlotSeen DEF Atomic!Next
<1>2. CASE \E m \in Minors : OpenNewSlot(p, m) \/ OpenBeforeAllocation(p, m)
  BY <1>2, OpenNewSlotUnseen, OpenBeforeAllocationUnseen
<1>3. CASE \E x \in Calls : Enter(p, x[1], x[2])
  <2>1. PICK x \in Calls : Enter(p, x[1], x[2])
    BY <1>3
  <2> QED
    BY <2>1, EnterSeen DEF Atomic!Next
<1>4. CASE Release(p)
  BY <1>4, ReleaseSeen DEF Atomic!Next
<1> QED
  BY <1>1, <1>2, <1>3, <1>4 DEF User

LEMMA SystemCallSeen ==
  ASSUME Serial, SlotInv, SlotInv', NEW L \in Nets, Orderly(L), NEW p \in Procs, SystemCall(p)
  PROVE  [Atomic!Next]_Atomic!vars
<1> DEFINE Seen == \/ \E m \in Minors : Atomic!Open(p, m)
                   \/ Atomic!Choose(p) \/ Atomic!AnswerIoctl(p) \/ Atomic!AnswerWrite(p)
                   \/ Atomic!AnswerRead(p) \/ Atomic!Oops(p)
<1>1. ~OpenRefused(p)
  BY NeverRefused DEF OpenRefused, At
<1>2. CASE AllocateSlot(p) \/ StoreSlot(p) \/ CountSlot(p)
  <2>1. Seen \/ UNCHANGED Atomic!vars
    BY <1>2, AllocateSlotUnseen, CountSlotSeen
  <2> QED
    BY <2>1 DEF Atomic!Next
<1>3. CASE CheckIoctl(p) \/ CheckWrite(p) \/ CheckRead(p)
  <2>1. Seen \/ UNCHANGED Atomic!vars
    BY <1>3, CheckIoctlSeen, CheckWriteSeen, CheckReadSeen
  <2> QED
    BY <2>1 DEF Atomic!Next
<1>4. CASE LoadRoot(p) \/ FindNext(p) \/ WalkToTail(p) \/ LoadSize(p) \/ CopyByte(p)
  BY <1>4, LookupUnseen
<1>5. CASE InitiateFirstChannel(p) \/ InitiateChannel(p) \/ SetRoot(p) \/ Link(p) \/ StoreSize(p)
  BY <1>5, CreatingUnseen, LinkingUnseen, StoreSizeUnseen
<1>6. CASE IoctlFound(p) \/ IoctlRefused(p) \/ CountAndReturn(p)
  <2>1. Seen
    BY <1>6, IoctlFoundSeen, IoctlRefusedSeen, CountAndReturnSeen
  <2> QED
    BY <2>1 DEF Atomic!Next
<1>7. CASE WriteMissing(p) \/ StoreMessage(p)
  <2>1. Seen
    BY <1>7, WriteMissingSeen, StoreMessageSeen
  <2> QED
    BY <2>1 DEF Atomic!Next
<1>8. CASE ReadMissing(p) \/ TestSize(p) \/ ReturnBytes(p)
  <2>1. Seen \/ UNCHANGED Atomic!vars
    BY <1>8, ReadMissingSeen, TestSizeSeen, ReturnBytesSeen
  <2> QED
    BY <2>1 DEF Atomic!Next
<1> QED
  BY <1>1, <1>2, <1>3, <1>4, <1>5, <1>6, <1>7, <1>8 DEF SystemCall

\* Calls that do not overlap take effect in one step each, with the answers of
\* AtomicSlot with its four departures: a file refers to some channel before it
\* chose one, channel numbers are taken modulo IdSpan, a slot takes exactly Capacity
\* channels, and a read from a channel it does not have kills the process.  But for
\* these a channel is refused, and a message written, read or refused, as the
\* comments say (message_slot.c:66, 94-98, 226-390).
THEOREM ImplementsAtomicSlot == Serial => (Spec => AtomicSpec)
<1> SUFFICES ASSUME Serial PROVE Spec => AtomicSpec
  OBVIOUS
<1>1. Init => Atomic!Init
  BY InitIsSeen
<1>2. SlotInv /\ SlotInv' /\ SerialInv /\ [Next]_vars => [Atomic!Next]_Atomic!vars
  <2> SUFFICES ASSUME SlotInv, SlotInv', NEW L \in Nets, Orderly(L), [Next]_vars
               PROVE  [Atomic!Next]_Atomic!vars
    BY DEF SerialInv
  <2>1. CASE Finalize
    BY <2>1, FinalizeSeen DEF Atomic!Next
  <2>2. CASE Register \/ AllocateDevices \/ UNCHANGED vars
    BY <2>2, LoadUnseen
  <2>3. CASE \E p \in Procs : SystemCall(p) \/ User(p)
    BY <2>3, SystemCallSeen, UserSeen
  <2> QED
    BY <2>1, <2>2, <2>3 DEF Next, Load
<1>3. Spec => []SlotInv /\ []SerialInv
  BY SlotIsSound, SerialIsOrderly
<1> QED
  BY <1>1, <1>2, <1>3, PTL DEF Spec, AtomicSpec, Atomic!Spec
==============================================================================
