-------------------------- MODULE MessageSlotProofs --------------------------
(***************************************************************************)
(* What holds of message_slot without any lock, for every number of        *)
(* processes, slots and channels and however their calls overlap.  The     *)
(* first part is about the types, the faults and the stored messages; the  *)
(* second shows that no read returns a byte of a channel other than the    *)
(* one its file refers to: lists may be torn and nodes lost, but a node    *)
(* never gets from the lists of one minor into those of another.           *)
(***************************************************************************)
EXTENDS MessageSlot, FiniteSetTheorems, SequenceTheorems, TLAPS

Outside == {"user", "dead"}
Opening == {"open_limit", "open_store"}

\* What a call may assume of its locals at each place.
Locals(t, f) ==
  /\ f = Closed => t.pc \in Outside
  /\ t.pc \in Outside => t.slot = NULL /\ t.root = NULL /\ t.node = NULL /\ t.fresh = NULL
  /\ f # Closed /\ t.pc \notin Opening => minors[f.minor_num] # NULL
  /\ t.pc = "open_store" => t.fresh \in 1 .. Len(slots)
  /\ t.pc = "root" => t.slot # NULL
  /\ t.pc \in {"set_root", "tail", "link"} => t.fresh \in 1 .. Len(nodes)
  /\ t.pc = "find" /\ t.call = "ioctl" => t.root # NULL
  /\ t.pc \in {"tail", "link", "store_message", "test_size", "copy"} => t.node # NULL

\* What has been checked of the argument of a call, and how far a read has come.
Argument(t) ==
  /\ t.pc = "check" =>
       /\ t.call = "ioctl" => t.arg \in Params
       /\ t.call = "write" => t.arg \in Messages
       /\ t.call = "read" => t.arg \in Sizes
  /\ t.pc \in {"root", "find", "store_message"} /\ t.call = "write" =>
       t.arg \in Messages /\ Length[t.arg] \in 1 .. BUFFER_LENGTH
  /\ t.pc \in {"root", "find", "test_size", "copy"} /\ t.call = "read" => t.arg \in Sizes
  /\ t.pc = "store_message" => t.call = "write"
  /\ t.pc \in {"test_size", "copy"} => t.call = "read"
  /\ t.pc \notin Outside \cup {"copy"} => t.buffer = <<>>
  /\ t.pc = "copy" => t.size <= t.arg /\ Len(t.buffer) <= t.size

Sound(t, f) == t \in Tasks /\ f \in Files /\ Locals(t, f) /\ Argument(t)

Process(p) == Sound(task[p], file[p])

Shared ==
  /\ module \in {"unloaded", "registered", "ready", "unregistered"}
  /\ minors \in [Minors -> Pointers(slots)]
  /\ slots \in Seq(Pointers(nodes)) /\ nodes \in Seq(Nodes)
  /\ numOfDrivers \in Int /\ numOfChannels \in [Minors -> Nat]
  /\ acknowledged \subseteq Minors \X (0 .. IdSpan - 1)

\* The inductive invariant.
SlotInv ==
  /\ Shared
  /\ file \in [Procs -> Files] /\ task \in [Procs -> Tasks]
  /\ \A p \in Procs : Process(p)

-----------------------------------------------------------------------------

\* A channel number always fits its width.
LEMMA IdsAreBounded == \A c \in Nat : Id(c) \in 0 .. IdSpan - 1
  BY MessageSlotAssumption DEF Id

\* An open file is not a closed one.
LEMMA OpenedIsOpen ==
  ASSUME NEW m \in Minors, NEW c \in Garbage
  PROVE  Opened(m, c) \in Files /\ Opened(m, c) # Closed
         /\ Opened(m, c).minor_num = m /\ Opened(m, c).channel_num = c
  BY MessageSlotAssumption DEF Opened, Files, Closed

\* What an open file says.
LEMMA FilesAreTyped ==
  ASSUME NEW f \in Files, f # Closed
  PROVE  /\ f \in [minor_num : Minors, channel_num : Params \cup Garbage]
         /\ f.minor_num \in Minors /\ f.channel_num \in Params \cup Garbage
         /\ f.channel_num \in Nat
  BY MessageSlotAssumption DEF Files

\* Memory is only ever added while a file is open, and a slot stays in its place.
Grows ==
  /\ Len(slots) <= Len(slots') /\ Len(nodes) <= Len(nodes')
  /\ \A m \in Minors : minors[m] # NULL => minors'[m] # NULL

\* A step of process p leaves the locals of the others as they are.
Local(p) ==
  /\ task' = [task EXCEPT ![p] = task'[p]]
  /\ file' = [file EXCEPT ![p] = file'[p]]

\* Pointers stay pointers when memory is added.
LEMMA PointersStay ==
  ASSUME Shared, Shared', Grows
  PROVE  /\ Pointers(slots) \subseteq Pointers(slots')
         /\ Pointers(nodes) \subseteq Pointers(nodes')
         /\ Len(slots) \in Nat /\ Len(nodes) \in Nat
         /\ Len(slots') \in Nat /\ Len(nodes') \in Nat
<1>1. /\ Len(slots) \in Nat /\ Len(nodes) \in Nat
      /\ Len(slots') \in Nat /\ Len(nodes') \in Nat
  BY LenProperties DEF Shared
<1> QED
  BY <1>1 DEF Grows, Pointers

\* Processes that do not move keep what they know when memory is added.
LEMMA OthersKeep ==
  ASSUME SlotInv, Shared', Grows, NEW q \in Procs, UNCHANGED <<task[q], file[q]>>
  PROVE  Process(q)'
<1> DEFINE t == task[q]
           f == file[q]
<1>1. /\ Pointers(slots) \subseteq Pointers(slots') /\ Pointers(nodes) \subseteq Pointers(nodes')
      /\ Len(slots) \in Nat /\ Len(nodes) \in Nat /\ Len(slots') \in Nat /\ Len(nodes') \in Nat
  BY PointersStay DEF SlotInv
<1>2. t \in Tasks /\ f \in Files /\ Locals(t, f) /\ Argument(t)
  BY DEF SlotInv, Process, Sound
<1>3. t \in Tasks'
  BY <1>1, <1>2 DEF Tasks
<1>4. Locals(t, f)'
  <2>1. f # Closed /\ t.pc \notin Opening => minors'[f.minor_num] # NULL
    BY <1>2, FilesAreTyped DEF Locals, Grows
  <2>2. t.pc = "open_store" => t.fresh \in 1 .. Len(slots')
    BY <1>1, <1>2 DEF Locals, Grows
  <2>3. t.pc \in {"set_root", "tail", "link"} => t.fresh \in 1 .. Len(nodes')
    BY <1>1, <1>2 DEF Locals, Grows
  <2> QED
    BY <1>2, <2>1, <2>2, <2>3 DEF Locals
<1>5. Argument(t)'
  BY <1>2 DEF Argument
<1>6. f \in Files'
  BY <1>2 DEF Files
<1> QED
  BY <1>3, <1>4, <1>5, <1>6 DEF Process, Sound

\* A step of one process, which leaves shared memory and that process sound, keeps
\* the invariant.
LEMMA StepKeeps ==
  ASSUME SlotInv, NEW p \in Procs, Shared', Grows, Local(p), Process(p)'
  PROVE  SlotInv'
<1>1. \A q \in Procs \ {p} : task'[q] = task[q] /\ file'[q] = file[q]
  BY DEF SlotInv, Local
<1>2. \A q \in Procs : Process(q)'
  BY <1>1, OthersKeep
<1>3. \A q \in Procs : task'[q] \in Tasks' /\ file'[q] \in Files
  BY <1>2 DEF Process, Sound, Files
<1>4. file' \in [Procs -> Files] /\ task' \in [Procs -> Tasks']
  BY <1>3 DEF SlotInv, Local
<1> QED
  BY <1>2, <1>4 DEF SlotInv, Files

\* Memory that is left alone stays sound.
LEMMA SharedStays ==
  ASSUME SlotInv, UNCHANGED driver, acknowledged' \subseteq Minors \X (0 .. IdSpan - 1)
  PROVE  Shared' /\ Grows
<1>1. Len(slots) \in Nat /\ Len(nodes) \in Nat
  BY LenProperties DEF SlotInv, Shared
<1> QED
  BY <1>1 DEF SlotInv, Shared, Grows, driver, Pointers, Nodes, Letters

Answers == {"none", "OK", "EINVAL", "EMSGSIZE", "EPERM", "ENOSPC", "EWOULDBLOCK"}

\* The task of a process that is in no call.
NoCall(c, r) == [pc |-> c, call |-> None, arg |-> 0, slot |-> NULL, root |-> NULL,
                 node |-> NULL, fresh |-> NULL, size |-> 0, buffer |-> <<>>, ret |-> r]

LEMMA IdleIsNoCall ==
  /\ Idle = NoCall("user", "none")
  /\ \A r : [Idle EXCEPT !.ret = r] = NoCall("user", r)
  /\ [Idle EXCEPT !.pc = "dead"] = NoCall("dead", "none")
  /\ [Idle EXCEPT !.pc = "open_limit"] = NoCall("open_limit", "none")
  BY DEF Idle, NoCall

LEMMA NoCallIsTask ==
  ASSUME Shared, NEW c \in Labels, NEW r \in Answers
  PROVE  NoCall(c, r) \in Tasks
<1>1. Len(slots) \in Nat /\ Len(nodes) \in Nat /\ 0 \in 0 .. BUFFER_LENGTH
  BY MessageSlotAssumption, LenProperties DEF Shared
<1>2. NULL \in Pointers(slots) /\ NULL \in Pointers(nodes)
  BY <1>1 DEF Pointers, NULL
<1>3. NULL \in Pointers(slots) \cup Pointers(nodes) /\ 0 \in {0} \cup {x[2] : x \in Calls}
      /\ <<>> \in Seq(Bytes) /\ None \in {None, "ioctl", "write", "read"}
  BY <1>2
<1> QED
  BY <1>1, <1>2, <1>3 DEF NoCall, Tasks, Answers

\* A process between two calls is sound when the slot of its file is there.
LEMMA IdleIsSound ==
  ASSUME SlotInv, Shared', NEW p \in Procs, NEW r \in Answers, NEW c \in Outside,
         task'[p] = NoCall(c, r), file'[p] \in Files,
         file'[p] # Closed => minors'[file'[p].minor_num] # NULL
  PROVE  Process(p)'
<1>1. Len(slots') \in Nat /\ Len(nodes') \in Nat /\ 0 \in 0 .. BUFFER_LENGTH
  BY MessageSlotAssumption, LenProperties DEF Shared
<1>2. NULL \in Pointers(slots') /\ NULL \in Pointers(nodes')
  BY <1>1 DEF Pointers, NULL
<1>3. NoCall(c, r) \in Tasks'
  <2>1. NULL \in Pointers(slots') \cup Pointers(nodes') /\ 0 \in {0} \cup {x[2] : x \in Calls}
        /\ <<>> \in Seq(Bytes) /\ None \in {None, "ioctl", "write", "read"} /\ c \in Labels
    BY <1>2 DEF Labels, Outside
  <2> QED
    BY <1>1, <1>2, <2>1 DEF NoCall, Tasks, Answers
<1>4. Locals(task[p], file[p])'
  BY DEF Locals, NoCall, Outside, Opening
<1>5. Argument(task[p])'
  BY DEF Argument, NoCall, Outside
<1>6. (Files)' = Files
  BY DEF Files
<1> QED
  BY <1>3, <1>4, <1>5, <1>6 DEF Process, Sound

\* A system call that returns, and changes no more than the process, keeps the
\* invariant.
LEMMA ReturnKeeps ==
  ASSUME SlotInv, NEW p \in Procs, NEW r \in Answers, Return(p, r),
         file[p] # Closed, task[p].pc \notin Opening, UNCHANGED file,
         Shared', Grows
  PROVE  SlotInv'
<1>1. task'[p] = NoCall("user", r) /\ file'[p] = file[p]
  BY IdleIsNoCall DEF SlotInv, Return
<1>2. file[p] \in Files /\ minors'[file[p].minor_num] # NULL
  BY FilesAreTyped DEF SlotInv, Process, Sound, Locals, Grows
<1>3. Process(p)'
  BY <1>1, <1>2, IdleIsSound DEF Outside
<1>4. Local(p)
  BY DEF Local, Return, SlotInv
<1> QED
  BY <1>3, <1>4, StepKeeps

\* A process that ends with its file closed keeps the invariant.
LEMMA CloseKeeps ==
  ASSUME SlotInv, NEW p \in Procs, NEW r \in Answers, NEW c \in Outside,
         task' = [task EXCEPT ![p] = NoCall(c, r)],
         file' = [file EXCEPT ![p] = Closed], UNCHANGED <<driver, acknowledged>>
  PROVE  SlotInv'
<1>1. Shared' /\ Grows
  BY SharedStays DEF SlotInv, Shared
<1>2. task'[p] = NoCall(c, r) /\ file'[p] = Closed /\ Closed \in Files
  BY DEF SlotInv, Files
<1>3. Process(p)'
  BY <1>1, <1>2, IdleIsSound
<1>4. Local(p)
  BY DEF Local, SlotInv
<1> QED
  BY <1>1, <1>3, <1>4, StepKeeps

\* The initial state.
LEMMA InitIsSound == Init => SlotInv
<1> SUFFICES ASSUME Init
             PROVE  SlotInv
  OBVIOUS
<1>1. Len(slots) = 0 /\ Len(nodes) = 0 /\ 0 \in 0 .. BUFFER_LENGTH
  BY MessageSlotAssumption DEF Init
<1>2. NULL \in Pointers(slots) /\ NULL \in Pointers(nodes)
  BY <1>1 DEF Pointers, NULL
<1>3. Shared
  BY <1>2 DEF Init, Shared
<1>4. Idle \in Tasks /\ Closed \in Files
  BY <1>3, IdleIsNoCall, NoCallIsTask DEF Labels, Answers, Files
<1>5. Locals(Idle, Closed) /\ Argument(Idle)
  BY DEF Locals, Argument, Idle, Outside
<1> QED
  BY <1>3, <1>4, <1>5 DEF Init, SlotInv, Process, Sound

\* Loading and unloading: nothing is open when the memory goes.
LEMMA LoadKeeps == SlotInv /\ Load => SlotInv'
<1> SUFFICES ASSUME SlotInv, Load
             PROVE  SlotInv'
  OBVIOUS
<1>1. CASE Register \/ AllocateDevices
  <2>1. Shared' /\ Grows
    <3>1. Len(slots) \in Nat /\ Len(nodes) \in Nat
      BY LenProperties DEF SlotInv, Shared
    <3>2. module' \in {"registered", "ready"}
          /\ UNCHANGED <<minors, slots, nodes, numOfDrivers, numOfChannels, acknowledged>>
      BY <1>1 DEF Register, AllocateDevices
    <3> QED
      BY <3>1, <3>2 DEF SlotInv, Shared, Grows, Pointers, Nodes, Letters
  <2>2. UNCHANGED <<task, file>>
    BY <1>1 DEF Register, AllocateDevices
  <2>3. \A q \in Procs : Process(q)'
    BY <2>1, <2>2, OthersKeep
  <2> QED
    BY <2>1, <2>2, <2>3 DEF SlotInv, Files, Process, Sound
<1>2. CASE Finalize
  <2>1. Len(slots') = 0 /\ Len(nodes') = 0 /\ slots' = <<>> /\ nodes' = <<>>
    BY <1>2 DEF Finalize
  <2>2. NULL \in Pointers(slots') /\ NULL \in Pointers(nodes')
    BY <2>1 DEF Pointers, NULL
  <2>3. numOfDrivers' \in Int
    <3>1. IsFiniteSet({m \in Minors : minors[m] # NULL})
      BY MessageSlotAssumption, FS_Subset
    <3> QED
      BY <1>2, <3>1, FS_CardinalityType DEF Finalize, SlotInv, Shared
  <2>4. Shared'
    BY <1>2, <2>1, <2>2, <2>3 DEF Finalize, SlotInv, Shared
  <2>5. UNCHANGED <<task, file>>
    BY <1>2 DEF Finalize
  <2>6. \A q \in Procs : task[q] \in Tasks'
    <3> SUFFICES ASSUME NEW q \in Procs
                 PROVE  task[q] \in Tasks'
      OBVIOUS
    <3>1. /\ task[q].slot = NULL /\ task[q].root = NULL /\ task[q].node = NULL
          /\ task[q].fresh = NULL /\ task[q] \in Tasks
      BY <1>2 DEF Finalize, SlotInv, Process, Sound, Locals, Outside
    <3> QED
      BY <2>2, <3>1 DEF Tasks
  <2>7. \A q \in Procs : Locals(task[q], file[q])'
    BY <1>2, <2>5 DEF Finalize, SlotInv, Process, Sound, Locals, Outside
  <2>8. \A q \in Procs : Argument(task[q])'
    BY <2>5 DEF SlotInv, Process, Sound, Argument
  <2> QED
    BY <2>4, <2>5, <2>6, <2>7, <2>8 DEF SlotInv, Process, Sound, Files
<1> QED
  BY <1>1, <1>2 DEF Load

-----------------------------------------------------------------------------

\* What is known of a process in a call.
LEMMA InACall ==
  ASSUME SlotInv, NEW p \in Procs, task[p].pc \notin Outside
  PROVE  /\ file[p] # Closed /\ file[p] \in Files
         /\ file[p].minor_num \in Minors
         /\ file[p].channel_num \in Params \cup Garbage
         /\ Id(file[p].channel_num) \in 0 .. IdSpan - 1
         /\ task[p] \in Tasks /\ Locals(task[p], file[p]) /\ Argument(task[p])
         /\ Len(slots) \in Nat /\ Len(nodes) \in Nat
<1>1. /\ task[p] \in Tasks /\ file[p] \in Files
      /\ Locals(task[p], file[p]) /\ Argument(task[p])
  BY DEF SlotInv, Process, Sound
<1>2. file[p] # Closed
  BY <1>1 DEF Locals
<1> QED
  BY <1>1, <1>2, FilesAreTyped, IdsAreBounded, LenProperties DEF SlotInv, Shared

\* A step that moves a process on inside its call, and changes no memory, keeps
\* the invariant.
LEMMA MoveKeeps ==
  ASSUME SlotInv, NEW p \in Procs, task[p].pc \notin Outside,
         task' = [task EXCEPT ![p] = task'[p]],
         UNCHANGED <<driver, file, acknowledged>>,
         task'[p] \in Tasks, Locals(task'[p], file[p]), Argument(task'[p])
  PROVE  SlotInv'
<1>1. Shared' /\ Grows
  BY SharedStays DEF SlotInv, Shared
<1>2. Tasks' = Tasks /\ Files' = Files
  BY DEF Tasks, Files, Pointers, driver
<1>3. Locals(task[p], file[p])'
  BY DEF Locals, driver
<1>4. Argument(task[p])'
  BY DEF Argument
<1>5. file' = [file EXCEPT ![p] = file'[p]] /\ file'[p] \in Files
  BY InACall DEF SlotInv
<1>6. Process(p)'
  BY <1>2, <1>3, <1>4, <1>5 DEF Process, Sound
<1> QED
  BY <1>1, <1>5, <1>6, StepKeeps DEF Local

-----------------------------------------------------------------------------
(* device_open and device_release. *)

LEMMA OpenKnownSlotKeeps ==
  ASSUME SlotInv, NEW p \in Procs, NEW m \in Minors, OpenKnownSlot(p, m)
  PROVE  SlotInv'
<1>1. Shared' /\ Grows
  BY SharedStays DEF OpenKnownSlot, SlotInv, Shared
<1>2. PICK c \in Garbage : file' = [file EXCEPT ![p] = Opened(m, c)]
  BY DEF OpenKnownSlot
<1>3. /\ file'[p] = Opened(m, c) /\ file'[p] \in Files /\ file'[p].minor_num = m
      /\ minors'[m] # NULL /\ task'[p] = NoCall("user", "none")
  BY <1>2, OpenedIsOpen, IdleIsNoCall DEF OpenKnownSlot, Return, SlotInv, driver
<1>4. Process(p)'
  BY <1>1, <1>3, IdleIsSound DEF Outside, Answers
<1>5. Local(p)
  BY <1>2 DEF Local, OpenKnownSlot, Return, SlotInv
<1> QED
  BY <1>1, <1>4, <1>5, StepKeeps

LEMMA OpenNewSlotKeeps ==
  ASSUME SlotInv, NEW p \in Procs, NEW m \in Minors, OpenNewSlot(p, m)
  PROVE  SlotInv'
<1>1. Shared' /\ Grows
  BY SharedStays DEF OpenNewSlot, SlotInv, Shared
<1>2. PICK c \in Garbage : file' = [file EXCEPT ![p] = Opened(m, c)]
  BY DEF OpenNewSlot
<1>3. /\ file'[p] = Opened(m, c) /\ file'[p] \in Files /\ file'[p] # Closed
      /\ task'[p] = NoCall("open_limit", "none")
  BY <1>2, OpenedIsOpen, IdleIsNoCall DEF OpenNewSlot, SlotInv
<1>4. Tasks' = Tasks /\ Files' = Files
  BY DEF OpenNewSlot, Tasks, Files, Pointers, driver
<1>5. NoCall("open_limit", "none") \in Tasks
  BY NoCallIsTask DEF SlotInv, Labels, Answers
<1>6. Locals(task[p], file[p])'
  BY <1>3 DEF Locals, NoCall, Outside, Opening
<1>7. Argument(task[p])'
  BY <1>3 DEF Argument, NoCall, Outside
<1>8. Process(p)'
  BY <1>3, <1>4, <1>5, <1>6, <1>7 DEF Process, Sound
<1>9. Local(p)
  BY <1>2 DEF Local, OpenNewSlot, SlotInv
<1> QED
  BY <1>1, <1>8, <1>9, StepKeeps

LEMMA OpenBeforeAllocationKeeps ==
  ASSUME SlotInv, NEW p \in Procs, NEW m \in Minors, OpenBeforeAllocation(p, m)
  PROVE  SlotInv'
  BY IdleIsNoCall, CloseKeeps DEF OpenBeforeAllocation, Die, Outside, Answers

LEMMA OpenRefusedKeeps ==
  ASSUME SlotInv, NEW p \in Procs, OpenRefused(p)
  PROVE  SlotInv'
  BY IdleIsNoCall, CloseKeeps DEF OpenRefused, Return, Outside, Answers

LEMMA ReleaseKeeps ==
  ASSUME SlotInv, NEW p \in Procs, Release(p)
  PROVE  SlotInv'
  BY IdleIsNoCall, CloseKeeps DEF Release, Return, Outside, Answers

LEMMA AllocateSlotKeeps ==
  ASSUME SlotInv, NEW p \in Procs, AllocateSlot(p)
  PROVE  SlotInv'
<1>1. /\ file[p] # Closed /\ file[p] \in Files /\ task[p] \in Tasks
      /\ Locals(task[p], file[p]) /\ Argument(task[p]) /\ task[p].pc = "open_limit"
      /\ Len(slots) \in Nat /\ Len(nodes) \in Nat
  BY InACall DEF AllocateSlot, At, Outside
<1>2. Len(slots') = Len(slots) + 1 /\ slots' \in Seq(Pointers(nodes))
  <2>1. NULL \in Pointers(nodes)
    BY <1>1 DEF Pointers, NULL
  <2> QED
    BY <2>1, AppendProperties DEF AllocateSlot, SlotInv, Shared
<1>3. Pointers(slots) \subseteq Pointers(slots') /\ Pointers(nodes') = Pointers(nodes)
  BY <1>1, <1>2 DEF AllocateSlot, Pointers
<1>4. Shared' /\ Grows
  <2>1. Nodes' = Nodes
    BY <1>3 DEF Nodes, Letters
  <2> QED
    BY <1>1, <1>2, <1>3, <2>1 DEF AllocateSlot, SlotInv, Shared, Grows
<1>5. task'[p] = [task[p] EXCEPT !.pc = "open_store", !.fresh = Len(slots) + 1]
      /\ file'[p] = file[p]
  BY DEF AllocateSlot, SlotInv
<1>6. Len(slots) + 1 \in Pointers(slots')
  BY <1>1, <1>2 DEF Pointers
<1>7. task'[p] \in Tasks' /\ file'[p] \in Files'
  BY <1>1, <1>3, <1>5, <1>6 DEF Tasks, Labels, Files
<1>8. Locals(task[p], file[p])'
  BY <1>1, <1>2, <1>5 DEF Locals, Outside, Opening, Tasks
<1>9. Argument(task[p])'
  BY <1>1, <1>5 DEF Argument, Outside, Tasks
<1>10. Process(p)'
  BY <1>7, <1>8, <1>9 DEF Process, Sound
<1>11. Local(p)
  BY DEF Local, AllocateSlot, SlotInv
<1> QED
  BY <1>4, <1>10, <1>11, StepKeeps

LEMMA StoreSlotKeeps ==
  ASSUME SlotInv, NEW p \in Procs, StoreSlot(p)
  PROVE  SlotInv'
<1>1. /\ file[p] # Closed /\ file[p] \in Files /\ task[p] \in Tasks
      /\ Locals(task[p], file[p]) /\ Argument(task[p]) /\ task[p].pc = "open_store"
      /\ Len(slots) \in Nat /\ Len(nodes) \in Nat /\ file[p].minor_num \in Minors
  BY InACall DEF StoreSlot, At, Outside
<1>2. task[p].fresh \in 1 .. Len(slots)
  BY <1>1 DEF Locals
<1>3. minors' = [minors EXCEPT ![file[p].minor_num] = task[p].fresh]
  BY DEF StoreSlot
<1>4. Shared' /\ Grows
  <2>1. Nodes' = Nodes /\ Pointers(slots') = Pointers(slots) /\ Pointers(nodes') = Pointers(nodes)
    BY DEF StoreSlot, Nodes, Letters, Pointers
  <2>2. minors' \in [Minors -> Pointers(slots)]
    BY <1>1, <1>2, <1>3 DEF SlotInv, Shared, Pointers
  <2>3. \A m \in Minors : minors[m] # NULL => minors'[m] # NULL
    BY <1>1, <1>2, <1>3 DEF SlotInv, Shared, NULL
  <2> QED
    BY <1>1, <2>1, <2>2, <2>3 DEF StoreSlot, SlotInv, Shared, Grows
<1>5. task'[p] = [task[p] EXCEPT !.pc = "open_count"] /\ file'[p] = file[p]
  BY DEF StoreSlot, SlotInv
<1>6. minors'[file[p].minor_num] # NULL
  BY <1>1, <1>2, <1>3 DEF SlotInv, Shared, NULL
<1>7. task'[p] \in Tasks' /\ file'[p] \in Files'
  <2>1. Tasks' = Tasks /\ Files' = Files
    BY DEF StoreSlot, Tasks, Files, Pointers
  <2>2. task'[p] \in Tasks
    BY <1>1, <1>5 DEF Tasks, Labels
  <2> QED
    BY <1>1, <1>5, <2>1, <2>2
<1>8. Locals(task[p], file[p])'
  BY <1>1, <1>5, <1>6 DEF Locals, Outside, Opening, Tasks
<1>9. Argument(task[p])'
  BY <1>1, <1>5 DEF Argument, Outside, Tasks
<1>10. Process(p)'
  BY <1>7, <1>8, <1>9 DEF Process, Sound
<1>11. Local(p)
  BY DEF Local, StoreSlot, SlotInv
<1> QED
  BY <1>4, <1>10, <1>11, StepKeeps

LEMMA CountSlotKeeps ==
  ASSUME SlotInv, NEW p \in Procs, CountSlot(p)
  PROVE  SlotInv'
<1>1. file[p] # Closed /\ task[p].pc \notin Opening /\ Len(slots) \in Nat /\ Len(nodes) \in Nat
  BY InACall DEF CountSlot, At, Outside, Opening
<1>2. numOfDrivers' \in Int
  BY DEF CountSlot, Incremented, SlotInv, Shared
<1>3. Shared' /\ Grows
  BY <1>1, <1>2 DEF CountSlot, SlotInv, Shared, Grows, Pointers, Nodes, Letters
<1> QED
  BY <1>1, <1>3, ReturnKeeps DEF CountSlot, Answers

-----------------------------------------------------------------------------
(* What the calls check first. *)

LEMMA EnterKeeps ==
  ASSUME SlotInv, NEW p \in Procs, NEW x \in Calls, Enter(p, x[1], x[2])
  PROVE  SlotInv'
<1> DEFINE t == [Idle EXCEPT !.pc = "check", !.call = x[1], !.arg = x[2]]
<1>1. /\ x[1] \in {"ioctl", "write", "read"} /\ x[2] \in {y[2] : y \in Calls}
      /\ x[1] = "ioctl" => x[2] \in Params
      /\ x[1] = "write" => x[2] \in Messages
      /\ x[1] = "read" => x[2] \in Sizes
  BY DEF Calls
<1>2. task' = [task EXCEPT ![p] = t] /\ UNCHANGED <<driver, file, acknowledged>>
      /\ file[p] # Closed /\ task[p].pc = "user"
  BY DEF Enter, MayCall, At
<1>3. Shared' /\ Grows
  BY <1>2, SharedStays DEF SlotInv, Shared
<1>4. task'[p] = t /\ file'[p] = file[p] /\ file[p] \in Files
  BY <1>2 DEF SlotInv
<1>5. Idle \in Tasks
  BY NoCallIsTask, IdleIsNoCall DEF SlotInv, Labels, Answers
<1>6. /\ t.pc = "check" /\ t.call = x[1] /\ t.arg = x[2] /\ t.buffer = <<>>
  BY DEF Idle
<1>7. t \in Tasks
  BY <1>1, <1>5 DEF Tasks, Labels
<1>8. Tasks' = Tasks /\ Files' = Files
  BY <1>2 DEF Tasks, Files, Pointers, driver
<1>9. minors[file[p].minor_num] # NULL
  BY <1>2 DEF SlotInv, Process, Sound, Locals, Opening
<1>10. Locals(task[p], file[p])'
  BY <1>2, <1>4, <1>6, <1>9 DEF Locals, Outside, driver
<1>11. Argument(task[p])'
  BY <1>1, <1>4, <1>6 DEF Argument, Outside
<1>12. Process(p)'
  BY <1>4, <1>7, <1>8, <1>10, <1>11 DEF Process, Sound
<1>13. Local(p)
  BY <1>2 DEF Local, SlotInv
<1> QED
  BY <1>3, <1>12, <1>13, StepKeeps

\* The call goes on to the slot of its file, which is there.
LEMMA LoadSlotIsSound ==
  ASSUME SlotInv, NEW p \in Procs, task[p].pc = "check", LoadSlot(p),
         task[p].call = "write" => Length[task[p].arg] \in 1 .. BUFFER_LENGTH
  PROVE  /\ task' = [task EXCEPT ![p] = task'[p]]
         /\ task'[p] \in Tasks /\ Locals(task'[p], file[p]) /\ Argument(task'[p])
<1>1. /\ file[p] # Closed /\ task[p] \in Tasks /\ file[p].minor_num \in Minors
      /\ Locals(task[p], file[p]) /\ Argument(task[p])
  BY InACall DEF Outside
<1>2. task'[p] = [task[p] EXCEPT !.pc = "root", !.slot = minors[file[p].minor_num]]
  BY DEF LoadSlot, SlotInv
<1>3. minors[file[p].minor_num] \in Pointers(slots) /\ minors[file[p].minor_num] # NULL
  BY <1>1 DEF SlotInv, Shared, Locals, Opening
<1>4. task'[p] \in Tasks
  BY <1>1, <1>2, <1>3 DEF Tasks, Labels
<1>5. Locals(task'[p], file[p])
  BY <1>1, <1>2, <1>3 DEF Locals, Outside, Opening, Tasks
<1>6. Argument(task'[p])
  BY <1>1, <1>2 DEF Argument, Outside, Tasks
<1> QED
  BY <1>4, <1>5, <1>6 DEF LoadSlot, SlotInv

LEMMA CheckWriteKeeps ==
  ASSUME SlotInv, NEW p \in Procs, CheckWrite(p)
  PROVE  SlotInv'
<1>1. Shared' /\ Grows
  BY SharedStays DEF CheckWrite, SlotInv, Shared
<1>2. task[p].pc = "check" /\ task[p].pc \notin Outside \cup Opening /\ file[p] # Closed
  BY InACall DEF CheckWrite, At, Outside, Opening
<1>3. CASE Return(p, "EINVAL")
  BY <1>1, <1>2, <1>3, ReturnKeeps DEF CheckWrite, Answers
<1>4. CASE Return(p, "EMSGSIZE")
  BY <1>1, <1>2, <1>4, ReturnKeeps DEF CheckWrite, Answers
<1>5. CASE LoadSlot(p) /\ Length[task[p].arg] \in 1 .. BUFFER_LENGTH
  <2>1. /\ task' = [task EXCEPT ![p] = task'[p]]
        /\ task'[p] \in Tasks /\ Locals(task'[p], file[p]) /\ Argument(task'[p])
    BY <1>2, <1>5, LoadSlotIsSound
  <2> QED
    BY <1>2, <2>1, MoveKeeps DEF CheckWrite
<1> QED
  BY <1>3, <1>4, <1>5 DEF CheckWrite

LEMMA CheckReadKeeps ==
  ASSUME SlotInv, NEW p \in Procs, CheckRead(p)
  PROVE  SlotInv'
<1>1. Shared' /\ Grows
  BY SharedStays DEF CheckRead, SlotInv, Shared
<1>2. task[p].pc = "check" /\ task[p].pc \notin Outside \cup Opening /\ file[p] # Closed
      /\ task[p].call = "read"
  BY InACall DEF CheckRead, At, Outside, Opening
<1>3. CASE Return(p, "EMSGSIZE")
  BY <1>1, <1>2, <1>3, ReturnKeeps DEF CheckRead, Answers
<1>4. CASE LoadSlot(p)
  <2>1. /\ task' = [task EXCEPT ![p] = task'[p]]
        /\ task'[p] \in Tasks /\ Locals(task'[p], file[p]) /\ Argument(task'[p])
    BY <1>2, <1>4, LoadSlotIsSound
  <2> QED
    BY <1>2, <2>1, MoveKeeps DEF CheckRead
<1> QED
  BY <1>3, <1>4 DEF CheckRead

\* The file is switched to a channel of Params.
LEMMA CheckIoctlKeeps ==
  ASSUME SlotInv, NEW p \in Procs, CheckIoctl(p)
  PROVE  SlotInv'
<1>1. Shared' /\ Grows
  BY SharedStays DEF CheckIoctl, SlotInv, Shared
<1>2. /\ task[p].pc = "check" /\ task[p].pc \notin Outside \cup Opening /\ file[p] # Closed
      /\ task[p].call = "ioctl" /\ file[p] \in Files /\ Argument(task[p])
  BY InACall DEF CheckIoctl, At, Outside, Opening
<1>3. CASE task[p].arg = 0
  BY <1>1, <1>2, <1>3, ReturnKeeps DEF CheckIoctl, Answers
<1>4. CASE task[p].arg # 0
  <2>1. LoadSlot(p)
    BY <1>4 DEF CheckIoctl
  <2>2. /\ task' = [task EXCEPT ![p] = task'[p]]
        /\ task'[p] \in Tasks /\ Locals(task'[p], file[p]) /\ Argument(task'[p])
    BY <1>2, <2>1, LoadSlotIsSound
  <2>3. file'[p] = [file[p] EXCEPT !.channel_num = task[p].arg]
        /\ file' = [file EXCEPT ![p] = file'[p]]
    BY <1>4 DEF CheckIoctl, SlotInv
  <2>4. task[p].arg \in Params
    BY <1>2 DEF Argument
  <2>5. /\ file'[p] \in Files /\ file'[p] # Closed /\ file'[p].minor_num = file[p].minor_num
    <3>1. file[p] \in [minor_num : Minors, channel_num : Params \cup Garbage]
      BY <1>2, FilesAreTyped
    <3>2. file'[p] \in [minor_num : Minors, channel_num : Params \cup Garbage]
          /\ file'[p].minor_num = file[p].minor_num /\ file'[p].minor_num \in Minors
      BY <2>3, <2>4, <3>1
    <3> QED
      BY <3>2, MessageSlotAssumption DEF Files, Closed
  <2>6. Tasks' = Tasks /\ Files' = Files
    BY DEF CheckIoctl, Tasks, Files, Pointers, driver
  <2>7. Locals(task[p], file[p])'
    BY <1>2, <2>2, <2>5 DEF CheckIoctl, Locals, driver
  <2>8. Argument(task[p])'
    BY <2>2 DEF Argument
  <2>9. Process(p)'
    BY <2>2, <2>5, <2>6, <2>7, <2>8 DEF Process, Sound
  <2> QED
    BY <1>1, <2>2, <2>3, <2>9, StepKeeps DEF Local
<1> QED
  BY <1>3, <1>4

-----------------------------------------------------------------------------
(* Looking the channel up. *)

LEMMA LoadRootKeeps ==
  ASSUME SlotInv, NEW p \in Procs, LoadRoot(p)
  PROVE  SlotInv'
<1>1. /\ file[p] # Closed /\ task[p] \in Tasks /\ task[p].pc = "root"
      /\ Locals(task[p], file[p]) /\ Argument(task[p]) /\ Len(slots) \in Nat
  BY InACall DEF LoadRoot, At, Outside
<1> DEFINE root == slots[task[p].slot]
           label == IF task[p].call = "ioctl" /\ root = NULL THEN "first" ELSE "find"
<1>2. root \in Pointers(nodes)
  <2>1. task[p].slot \in 1 .. Len(slots)
    BY <1>1 DEF Locals, Tasks, Pointers, NULL
  <2> QED
    BY <2>1, ElementOfSeq DEF SlotInv, Shared
<1>3. task'[p] = [task[p] EXCEPT !.root = root, !.node = root, !.pc = label]
      /\ task' = [task EXCEPT ![p] = task'[p]]
  BY DEF LoadRoot, SlotInv
<1>4. label \in {"first", "find"} /\ (label = "find" /\ task[p].call = "ioctl" => root # NULL)
  OBVIOUS
<1> HIDE DEF root, label
<1>5. task'[p] \in Tasks
  BY <1>1, <1>2, <1>3, <1>4 DEF Tasks, Labels
<1>6. Locals(task'[p], file[p])
  BY <1>1, <1>3, <1>4 DEF Locals, Outside, Opening, Tasks
<1>7. Argument(task'[p])
  BY <1>1, <1>3, <1>4 DEF Argument, Outside, Tasks
<1> QED
  BY <1>1, <1>3, <1>5, <1>6, <1>7, MoveKeeps DEF LoadRoot, Outside

\* The successor of a node is a node or NULL.
LEMMA NodesAreTyped ==
  ASSUME SlotInv, NEW n \in Pointers(nodes), n # NULL
  PROVE  n \in 1 .. Len(nodes) /\ nodes[n] \in Nodes
<1>1. n \in 1 .. Len(nodes)
  BY LenProperties DEF SlotInv, Shared, Pointers, NULL
<1> QED
  BY <1>1, ElementOfSeq DEF SlotInv, Shared

LEMMA FindNextKeeps ==
  ASSUME SlotInv, NEW p \in Procs, FindNext(p)
  PROVE  SlotInv'
<1>1. /\ file[p] # Closed /\ task[p] \in Tasks /\ task[p].pc = "find"
      /\ Locals(task[p], file[p]) /\ Argument(task[p]) /\ task[p].node # NULL
  BY InACall DEF FindNext, At, Outside
<1> DEFINE next == nodes[task[p].node].next_node
<1>2. next \in Pointers(nodes)
  BY <1>1, NodesAreTyped DEF Tasks, Nodes
<1>3. task'[p] = [task[p] EXCEPT !.node = next] /\ task' = [task EXCEPT ![p] = task'[p]]
  BY DEF FindNext, SlotInv
<1> HIDE DEF next
<1>4. task'[p] \in Tasks
  BY <1>1, <1>2, <1>3 DEF Tasks
<1>5. Locals(task'[p], file[p])
  BY <1>1, <1>3 DEF Locals, Outside, Opening, Tasks
<1>6. Argument(task'[p])
  BY <1>1, <1>3 DEF Argument, Outside, Tasks
<1> QED
  BY <1>1, <1>3, <1>4, <1>5, <1>6, MoveKeeps DEF FindNext, Outside

LEMMA LookupEndsKeep ==
  ASSUME SlotInv, NEW p \in Procs, IoctlFound(p) \/ WriteMissing(p) \/ IoctlRefused(p)
  PROVE  SlotInv'
<1>1. /\ file[p] # Closed /\ task[p].pc \notin Opening
      /\ Channel(p) \in Minors \X (0 .. IdSpan - 1)
  BY InACall DEF IoctlFound, WriteMissing, IoctlRefused, At, Outside, Opening, Channel
<1>2. acknowledged' \subseteq Minors \X (0 .. IdSpan - 1)
  BY <1>1 DEF IoctlFound, WriteMissing, IoctlRefused, SlotInv, Shared
<1>3. Shared' /\ Grows
  BY <1>2, SharedStays DEF IoctlFound, WriteMissing, IoctlRefused
<1> QED
  BY <1>1, <1>3, ReturnKeeps DEF IoctlFound, WriteMissing, IoctlRefused, Answers

LEMMA ReadMissingKeeps ==
  ASSUME SlotInv, NEW p \in Procs, ReadMissing(p)
  PROVE  SlotInv'
  BY IdleIsNoCall, CloseKeeps DEF ReadMissing, Die, Outside, Answers

LEMMA WalkToTailKeeps ==
  ASSUME SlotInv, NEW p \in Procs, WalkToTail(p)
  PROVE  SlotInv'
<1>1. /\ file[p] # Closed /\ task[p] \in Tasks /\ task[p].pc = "tail"
      /\ Locals(task[p], file[p]) /\ Argument(task[p])
  BY InACall DEF WalkToTail, At, Outside
<1>2. task[p].node # NULL
  BY <1>1 DEF Locals
<1> DEFINE next == nodes[task[p].node].next_node
<1>3. next \in Pointers(nodes)
  BY <1>1, <1>2, NodesAreTyped DEF Tasks, Nodes
<1>4. /\ task' = [task EXCEPT ![p] = task'[p]]
      /\ \/ task'[p] = [task[p] EXCEPT !.pc = "link"]
         \/ next # NULL /\ task'[p] = [task[p] EXCEPT !.node = next]
  BY DEF WalkToTail, SlotInv
<1> HIDE DEF next
<1>5. task'[p] \in Tasks
  BY <1>1, <1>3, <1>4 DEF Tasks, Labels
<1>6. Locals(task'[p], file[p])
  BY <1>1, <1>4 DEF Locals, Outside, Opening, Tasks
<1>7. Argument(task'[p])
  BY <1>1, <1>4 DEF Argument, Outside, Tasks
<1> QED
  BY <1>1, <1>4, <1>5, <1>6, <1>7, MoveKeeps DEF WalkToTail, Outside

-----------------------------------------------------------------------------
(* Creating a channel. *)

\* A new node at the end of the memory.
LEMMA NodeAdded ==
  ASSUME SlotInv, NEW n \in Nodes, nodes' = Append(nodes, n),
         UNCHANGED <<module, minors, slots, numOfDrivers, acknowledged>>,
         numOfChannels' \in [Minors -> Nat]
  PROVE  /\ Shared' /\ Grows
         /\ Len(nodes') = Len(nodes) + 1 /\ Len(nodes) + 1 \in Pointers(nodes')
         /\ Pointers(nodes) \subseteq Pointers(nodes') /\ Pointers(slots') = Pointers(slots)
<1>1. /\ Len(slots) \in Nat /\ Len(nodes) \in Nat /\ Len(nodes') = Len(nodes) + 1
      /\ nodes' \in Seq(Nodes)
  BY LenProperties, AppendProperties DEF SlotInv, Shared
<1>2. /\ Pointers(nodes) \subseteq Pointers(nodes') /\ Pointers(slots') = Pointers(slots)
      /\ Len(nodes) + 1 \in Pointers(nodes')
  BY <1>1 DEF Pointers
<1>3. Nodes \subseteq Nodes'
  BY <1>2 DEF Nodes, Letters
<1>4. nodes' \in Seq(Nodes') /\ slots' \in Seq(Pointers(nodes'))
  <2>1. nodes' \in Seq(Nodes')
    BY <1>1, <1>3, SeqMonotonic
  <2>2. slots \in Seq(Pointers(nodes'))
    BY <1>2, SeqMonotonic DEF SlotInv, Shared
  <2> QED
    BY <2>1, <2>2
<1>5. minors' \in [Minors -> Pointers(slots')]
  BY <1>2 DEF SlotInv, Shared
<1> QED
  BY <1>1, <1>2, <1>4, <1>5 DEF SlotInv, Shared, Grows

\* Another value for a node that is there.
LEMMA NodeChanged ==
  ASSUME SlotInv, NEW i \in Pointers(nodes), i # NULL, NEW n \in Nodes,
         nodes' = [nodes EXCEPT ![i] = n],
         UNCHANGED <<module, minors, slots, numOfDrivers, numOfChannels, acknowledged>>
  PROVE  /\ Shared' /\ Grows
         /\ Pointers(nodes') = Pointers(nodes) /\ Pointers(slots') = Pointers(slots)
<1>1. /\ Len(slots) \in Nat /\ Len(nodes) \in Nat /\ Len(nodes') = Len(nodes)
      /\ nodes' \in Seq(Nodes)
  BY LenProperties, ExceptSeq, NodesAreTyped DEF SlotInv, Shared
<1>2. Pointers(nodes') = Pointers(nodes) /\ Pointers(slots') = Pointers(slots)
  BY <1>1 DEF Pointers
<1>3. Nodes' = Nodes
  BY <1>2 DEF Nodes, Letters
<1> QED
  BY <1>1, <1>2, <1>3 DEF SlotInv, Shared, Grows

\* Another root for a slot.
LEMMA RootChanged ==
  ASSUME SlotInv, NEW i, NEW n \in Pointers(nodes), slots' = [slots EXCEPT ![i] = n],
         UNCHANGED <<module, minors, nodes, numOfDrivers, numOfChannels, acknowledged>>
  PROVE  /\ Shared' /\ Grows
         /\ Pointers(nodes') = Pointers(nodes) /\ Pointers(slots') = Pointers(slots)
<1>1. /\ Len(slots) \in Nat /\ Len(nodes) \in Nat /\ slots \in [1 .. Len(slots) -> Pointers(nodes)]
  BY LenProperties DEF SlotInv, Shared
<1>2. slots' \in [1 .. Len(slots) -> Pointers(nodes)]
  BY <1>1
<1>3. slots' \in Seq(Pointers(nodes)) /\ Len(slots') = Len(slots)
  BY <1>1, <1>2
<1>4. Pointers(nodes') = Pointers(nodes) /\ Pointers(slots') = Pointers(slots)
  BY <1>3 DEF Pointers
<1>5. Nodes' = Nodes
  BY <1>4 DEF Nodes, Letters
<1> QED
  BY <1>1, <1>3, <1>4, <1>5 DEF SlotInv, Shared, Grows

LEMMA CountChannelIsTyped ==
  ASSUME SlotInv, NEW p \in Procs, file[p].minor_num \in Minors, CountChannel(p)
  PROVE  numOfChannels' \in [Minors -> Nat]
<1>1. PICK n \in Incremented(numOfChannels[file[p].minor_num], INT_SIZE, Counting(p)) :
        numOfChannels' = [numOfChannels EXCEPT ![file[p].minor_num] = n]
  BY DEF CountChannel
<1>2. numOfChannels \in [Minors -> Nat]
  BY DEF SlotInv, Shared
<1>3. n \in Nat
  BY <1>1, <1>2 DEF Incremented, INT_SIZE
<1> QED
  BY <1>1, <1>2, <1>3

\* A node for the channel of the file.
LEMMA NewNodeIsTyped ==
  ASSUME SlotInv, NEW p \in Procs, task[p].pc \notin Outside
  PROVE  NewNode(p) \in Nodes
<1>1. NULL \in Pointers(nodes) /\ 0 \in 0 .. BUFFER_LENGTH
  BY InACall, MessageSlotAssumption DEF Pointers, NULL
<1> QED
  BY <1>1, InACall DEF NewNode, Nodes

LEMMA InitiateFirstChannelKeeps ==
  ASSUME SlotInv, NEW p \in Procs, InitiateFirstChannel(p)
  PROVE  SlotInv'
<1>1. /\ file[p] # Closed /\ file[p] \in Files /\ task[p] \in Tasks /\ task[p].pc = "first"
      /\ Locals(task[p], file[p]) /\ Argument(task[p]) /\ file[p].minor_num \in Minors
      /\ Len(nodes) \in Nat /\ task[p].pc \notin Outside
  BY InACall DEF InitiateFirstChannel, At, Outside
<1>2. /\ Shared' /\ Grows
      /\ Len(nodes') = Len(nodes) + 1 /\ Len(nodes) + 1 \in Pointers(nodes')
      /\ Pointers(nodes) \subseteq Pointers(nodes') /\ Pointers(slots') = Pointers(slots)
  BY <1>1, NodeAdded, NewNodeIsTyped, CountChannelIsTyped DEF InitiateFirstChannel
<1>3. task'[p] = [task[p] EXCEPT !.pc = "set_root", !.fresh = Len(nodes) + 1]
      /\ task' = [task EXCEPT ![p] = task'[p]]
  BY DEF InitiateFirstChannel, SlotInv
<1>4. task'[p] \in Tasks'
  BY <1>1, <1>2, <1>3 DEF Tasks, Labels
<1>5. Locals(task[p], file[p])'
  <2>1. Len(nodes') \in Nat /\ task'[p].fresh \in 1 .. Len(nodes')
    BY <1>1, <1>2, <1>3 DEF Tasks
  <2>2. minors' = minors /\ file' = file
    BY DEF InitiateFirstChannel
  <2> QED
    BY <1>1, <1>3, <2>1, <2>2 DEF Locals, Outside, Opening, Tasks
<1>6. Argument(task[p])'
  BY <1>1, <1>3 DEF Argument, Outside, Tasks
<1>7. Process(p)' /\ Local(p)
  BY <1>1, <1>3, <1>4, <1>5, <1>6 DEF InitiateFirstChannel, Process, Sound, Files, Local, SlotInv
<1> QED
  BY <1>2, <1>7, StepKeeps

LEMMA InitiateChannelKeeps ==
  ASSUME SlotInv, NEW p \in Procs, InitiateChannel(p)
  PROVE  SlotInv'
<1>1. /\ file[p] # Closed /\ file[p] \in Files /\ task[p] \in Tasks /\ task[p].pc = "find"
      /\ Locals(task[p], file[p]) /\ Argument(task[p]) /\ task[p].call = "ioctl"
      /\ Len(nodes) \in Nat /\ task[p].pc \notin Outside
  BY InACall DEF InitiateChannel, At, Outside
<1>2. /\ Shared' /\ Grows
      /\ Len(nodes') = Len(nodes) + 1 /\ Len(nodes) + 1 \in Pointers(nodes')
      /\ Pointers(nodes) \subseteq Pointers(nodes') /\ Pointers(slots') = Pointers(slots)
  BY <1>1, NodeAdded, NewNodeIsTyped DEF InitiateChannel, SlotInv, Shared
<1>3. task'[p] = [task[p] EXCEPT !.pc = "tail", !.fresh = Len(nodes) + 1,
                                 !.node = task[p].root]
      /\ task' = [task EXCEPT ![p] = task'[p]]
  BY DEF InitiateChannel, SlotInv
<1>4. task'[p] \in Tasks'
  BY <1>1, <1>2, <1>3 DEF Tasks, Labels
<1>5. Locals(task[p], file[p])'
  <2>1. Len(nodes') \in Nat /\ task'[p].fresh \in 1 .. Len(nodes')
    BY <1>1, <1>2, <1>3 DEF Tasks
  <2>2. minors' = minors /\ file' = file
    BY DEF InitiateChannel
  <2> QED
    BY <1>1, <1>3, <2>1, <2>2 DEF Locals, Outside, Opening, Tasks
<1>6. Argument(task[p])'
  BY <1>1, <1>3 DEF Argument, Outside, Tasks
<1>7. Process(p)' /\ Local(p)
  BY <1>1, <1>3, <1>4, <1>5, <1>6 DEF InitiateChannel, Process, Sound, Files, Local, SlotInv
<1> QED
  BY <1>2, <1>7, StepKeeps

LEMMA SetRootKeeps ==
  ASSUME SlotInv, NEW p \in Procs, SetRoot(p)
  PROVE  SlotInv'
<1>1. /\ file[p] # Closed /\ file[p] \in Files /\ task[p] \in Tasks /\ task[p].pc = "set_root"
      /\ Locals(task[p], file[p]) /\ Argument(task[p]) /\ Len(nodes) \in Nat
  BY InACall DEF SetRoot, At, Outside
<1>2. task[p].fresh \in Pointers(nodes)
  BY <1>1 DEF Locals, Pointers
<1>3. /\ Shared' /\ Grows
      /\ Pointers(nodes') = Pointers(nodes) /\ Pointers(slots') = Pointers(slots)
  BY <1>2, RootChanged DEF SetRoot
<1>4. task'[p] = [task[p] EXCEPT !.pc = "count"] /\ task' = [task EXCEPT ![p] = task'[p]]
  BY DEF SetRoot, SlotInv
<1>5. task'[p] \in Tasks'
  BY <1>1, <1>3, <1>4 DEF Tasks, Labels
<1>6. Locals(task[p], file[p])'
  BY <1>1, <1>4 DEF SetRoot, Locals, Outside, Opening, Tasks
<1>7. Argument(task[p])'
  BY <1>1, <1>4 DEF Argument, Outside, Tasks
<1>8. Process(p)' /\ Local(p)
  BY <1>1, <1>4, <1>5, <1>6, <1>7 DEF SetRoot, Process, Sound, Files, Local, SlotInv
<1> QED
  BY <1>3, <1>8, StepKeeps

LEMMA LinkKeeps ==
  ASSUME SlotInv, NEW p \in Procs, Link(p)
  PROVE  SlotInv'
<1>1. /\ file[p] # Closed /\ file[p] \in Files /\ task[p] \in Tasks /\ task[p].pc = "link"
      /\ Locals(task[p], file[p]) /\ Argument(task[p]) /\ Len(nodes) \in Nat
  BY InACall DEF Link, At, Outside
<1>2. /\ task[p].node \in Pointers(nodes) /\ task[p].node # NULL
      /\ task[p].fresh \in Pointers(nodes)
  BY <1>1 DEF Locals, Pointers, Tasks
<1>3. [nodes[task[p].node] EXCEPT !.next_node = task[p].fresh] \in Nodes
  BY <1>2, NodesAreTyped DEF Nodes
<1>4. nodes' = [nodes EXCEPT ![task[p].node] =
                  [nodes[task[p].node] EXCEPT !.next_node = task[p].fresh]]
  BY DEF Link
<1>5. /\ Shared' /\ Grows
      /\ Pointers(nodes') = Pointers(nodes) /\ Pointers(slots') = Pointers(slots)
  BY <1>2, <1>3, <1>4, NodeChanged DEF Link
<1>6. task'[p] = [task[p] EXCEPT !.pc = "count"] /\ task' = [task EXCEPT ![p] = task'[p]]
  BY DEF Link, SlotInv
<1>7. task'[p] \in Tasks'
  BY <1>1, <1>5, <1>6 DEF Tasks, Labels
<1>8. Locals(task[p], file[p])'
  BY <1>1, <1>6 DEF Link, Locals, Outside, Opening, Tasks
<1>9. Argument(task[p])'
  BY <1>1, <1>6 DEF Argument, Outside, Tasks
<1>10. Process(p)' /\ Local(p)
  BY <1>1, <1>6, <1>7, <1>8, <1>9 DEF Link, Process, Sound, Files, Local, SlotInv
<1> QED
  BY <1>5, <1>10, StepKeeps

LEMMA CountAndReturnKeeps ==
  ASSUME SlotInv, NEW p \in Procs, CountAndReturn(p)
  PROVE  SlotInv'
<1>1. /\ file[p] # Closed /\ task[p].pc \notin Opening /\ Len(slots) \in Nat /\ Len(nodes) \in Nat
      /\ Channel(p) \in Minors \X (0 .. IdSpan - 1) /\ file[p].minor_num \in Minors
  BY InACall DEF CountAndReturn, At, Outside, Opening, Channel
<1>2. acknowledged' \subseteq Minors \X (0 .. IdSpan - 1)
  BY <1>1 DEF CountAndReturn, SlotInv, Shared
<1>3. numOfChannels' \in [Minors -> Nat]
  BY <1>1, CountChannelIsTyped DEF CountAndReturn
<1>4. Shared' /\ Grows
  BY <1>1, <1>2, <1>3 DEF CountAndReturn, SlotInv, Shared, Grows, Pointers, Nodes, Letters
<1> QED
  BY <1>1, <1>4, ReturnKeeps DEF CountAndReturn, Answers

-----------------------------------------------------------------------------
(* device_write and device_read. *)

LEMMA StoreSizeKeeps ==
  ASSUME SlotInv, NEW p \in Procs, StoreSize(p)
  PROVE  SlotInv'
<1>1. /\ file[p] # Closed /\ file[p] \in Files /\ task[p] \in Tasks /\ task[p].pc = "find"
      /\ Locals(task[p], file[p]) /\ Argument(task[p]) /\ task[p].call = "write"
      /\ task[p].node # NULL
  BY InACall DEF StoreSize, Found, At, Outside
<1>2. task[p].node \in Pointers(nodes) /\ Length[task[p].arg] \in 1 .. BUFFER_LENGTH
  BY <1>1 DEF Argument, Tasks
<1>3. [nodes[task[p].node] EXCEPT !.size = Length[task[p].arg]] \in Nodes
  BY <1>1, <1>2, NodesAreTyped DEF Nodes
<1>4. nodes' = [nodes EXCEPT ![task[p].node] =
                  [nodes[task[p].node] EXCEPT !.size = Length[task[p].arg]]]
  BY DEF StoreSize
<1>5. /\ Shared' /\ Grows
      /\ Pointers(nodes') = Pointers(nodes) /\ Pointers(slots') = Pointers(slots)
  BY <1>1, <1>2, <1>3, <1>4, NodeChanged DEF StoreSize
<1>6. task'[p] = [task[p] EXCEPT !.pc = "store_message"] /\ task' = [task EXCEPT ![p] = task'[p]]
  BY DEF StoreSize, SlotInv
<1>7. task'[p] \in Tasks'
  BY <1>1, <1>5, <1>6 DEF Tasks, Labels
<1>8. Locals(task[p], file[p])'
  <2>1. minors' = minors /\ file' = file
    BY DEF StoreSize
  <2> QED
    BY <1>1, <1>6, <2>1 DEF Locals, Outside, Opening, Tasks
<1>9. Argument(task[p])'
  BY <1>1, <1>6 DEF Argument, Outside, Tasks
<1>10. Process(p)' /\ Local(p)
  BY <1>1, <1>6, <1>7, <1>8, <1>9 DEF StoreSize, Process, Sound, Files, Local, SlotInv
<1> QED
  BY <1>5, <1>10, StepKeeps

LEMMA StoreMessageKeeps ==
  ASSUME SlotInv, NEW p \in Procs, StoreMessage(p)
  PROVE  SlotInv'
<1>1. /\ file[p] # Closed /\ task[p] \in Tasks /\ task[p].pc = "store_message"
      /\ Locals(task[p], file[p]) /\ Argument(task[p])
      /\ file[p].minor_num \in Minors /\ file[p].channel_num \in Params \cup Garbage
  BY InACall DEF StoreMessage, At, Outside
<1> DEFINE letter == [text |-> task[p].arg, to |-> Address(p)]
<1>2. /\ task[p].node \in Pointers(nodes) /\ task[p].node # NULL /\ task[p].arg \in Messages
  BY <1>1 DEF Argument, Locals, Tasks
<1>3. letter \in Letters
  BY <1>1, <1>2 DEF Letters, Address
<1>4. nodes' = [nodes EXCEPT ![task[p].node] = [nodes[task[p].node] EXCEPT !.message = letter]]
  BY DEF StoreMessage
<1> HIDE DEF letter
<1>5. [nodes[task[p].node] EXCEPT !.message = letter] \in Nodes
  BY <1>2, <1>3, NodesAreTyped DEF Nodes
<1>6. Shared' /\ Grows
  BY <1>2, <1>4, <1>5, NodeChanged DEF StoreMessage
<1> QED
  BY <1>1, <1>6, ReturnKeeps DEF StoreMessage, Answers, Opening

LEMMA LoadSizeKeeps ==
  ASSUME SlotInv, NEW p \in Procs, LoadSize(p)
  PROVE  SlotInv'
<1>1. /\ file[p] # Closed /\ task[p] \in Tasks /\ task[p].pc = "find"
      /\ Locals(task[p], file[p]) /\ Argument(task[p]) /\ task[p].call = "read"
      /\ task[p].node # NULL
  BY InACall DEF LoadSize, Found, At, Outside
<1> DEFINE n == nodes[task[p].node].size
<1>2. n \in 0 .. BUFFER_LENGTH
  BY <1>1, NodesAreTyped DEF Tasks, Nodes
<1>3. task'[p] = [task[p] EXCEPT !.pc = "test_size", !.size = n]
      /\ task' = [task EXCEPT ![p] = task'[p]]
  BY DEF LoadSize, SlotInv
<1> HIDE DEF n
<1>4. task'[p] \in Tasks
  BY <1>1, <1>2, <1>3 DEF Tasks, Labels
<1>5. Locals(task'[p], file[p])
  BY <1>1, <1>3 DEF Locals, Outside, Opening, Tasks
<1>6. Argument(task'[p])
  BY <1>1, <1>3 DEF Argument, Outside, Tasks
<1> QED
  BY <1>1, <1>3, <1>4, <1>5, <1>6, MoveKeeps DEF LoadSize, Outside

\* The comparison with the length of the buffer is about the size that is copied.
LEMMA TestSizeKeeps ==
  ASSUME SlotInv, NEW p \in Procs, TestSize(p)
  PROVE  SlotInv'
<1>1. /\ file[p] # Closed /\ task[p] \in Tasks /\ task[p].pc = "test_size"
      /\ Locals(task[p], file[p]) /\ Argument(task[p])
  BY InACall DEF TestSize, At, Outside
<1>2. Shared' /\ Grows
  BY SharedStays DEF TestSize, SlotInv, Shared
<1>3. CASE Return(p, "EWOULDBLOCK")
  BY <1>1, <1>2, <1>3, ReturnKeeps DEF TestSize, Answers, Opening
<1>4. CASE Return(p, "ENOSPC")
  BY <1>1, <1>2, <1>4, ReturnKeeps DEF TestSize, Answers, Opening
<1>5. CASE task' = [task EXCEPT ![p].pc = "copy"] /\ ~(task[p].size > task[p].arg)
  <2>1. task'[p] = [task[p] EXCEPT !.pc = "copy"] /\ task' = [task EXCEPT ![p] = task'[p]]
    BY <1>5 DEF SlotInv
  <2>2. task'[p] \in Tasks
    BY <1>1, <2>1 DEF Tasks, Labels
  <2>3. Locals(task'[p], file[p])
    BY <1>1, <2>1 DEF Locals, Outside, Opening, Tasks
  <2>4. task[p].buffer = <<>> /\ task[p].arg \in Sizes /\ task[p].size \in 0 .. BUFFER_LENGTH
        /\ task[p].call = "read"
    BY <1>1 DEF Argument, Outside, Tasks
  <2>5. task[p].size <= task[p].arg /\ Len(task[p].buffer) <= task[p].size
    BY <1>5, <2>4, MessageSlotAssumption
  <2>6. Argument(task'[p])
    BY <1>1, <2>1, <2>4, <2>5 DEF Argument, Outside, Tasks
  <2> QED
    BY <1>1, <2>1, <2>2, <2>3, <2>6, MoveKeeps DEF TestSize, Outside
<1> QED
  BY <1>3, <1>4, <1>5 DEF TestSize

\* What a byte of a channel may be.
LEMMA BytesAreTyped ==
  ASSUME NEW letter \in Letters \cup {None}, NEW i
  PROVE  Byte(letter, i) \in Bytes
  BY DEF Byte, Bytes

LEMMA CopyByteKeeps ==
  ASSUME SlotInv, NEW p \in Procs, CopyByte(p)
  PROVE  SlotInv'
<1>1. /\ file[p] # Closed /\ task[p] \in Tasks /\ task[p].pc = "copy"
      /\ Locals(task[p], file[p]) /\ Argument(task[p])
  BY InACall DEF CopyByte, At, Outside
<1> DEFINE b == Byte(nodes[task[p].node].message, Len(task[p].buffer) + 1)
<1>2. b \in Bytes
  <2>1. nodes[task[p].node] \in Nodes
    BY <1>1, NodesAreTyped DEF Locals, Tasks
  <2> QED
    BY <2>1, BytesAreTyped DEF Nodes
<1>3. task'[p] = [task[p] EXCEPT !.buffer = Append(@, b)] /\ task' = [task EXCEPT ![p] = task'[p]]
  BY DEF CopyByte, SlotInv
<1>4. task[p].buffer \in Seq(Bytes) /\ Len(task[p].buffer) < task[p].size
      /\ task[p].size \in 0 .. BUFFER_LENGTH
  BY <1>1 DEF CopyByte, ReadSize, Tasks
<1> HIDE DEF b
<1>5. /\ Append(task[p].buffer, b) \in Seq(Bytes)
      /\ Len(Append(task[p].buffer, b)) = Len(task[p].buffer) + 1
      /\ Len(task[p].buffer) \in Nat
  BY <1>2, <1>4, AppendProperties, LenProperties
<1>6. task'[p] \in Tasks
  BY <1>1, <1>3, <1>5 DEF Tasks
<1>7. Locals(task'[p], file[p])
  BY <1>1, <1>3 DEF Locals, Outside, Opening, Tasks
<1>8. Argument(task'[p])
  <2>1. Len(Append(task[p].buffer, b)) <= task[p].size
    BY <1>4, <1>5, MessageSlotAssumption
  <2> QED
    BY <1>1, <1>3, <2>1 DEF Argument, Outside, Tasks
<1> QED
  BY <1>1, <1>3, <1>6, <1>7, <1>8, MoveKeeps DEF CopyByte, Outside

LEMMA ReturnBytesKeeps ==
  ASSUME SlotInv, NEW p \in Procs, ReturnBytes(p)
  PROVE  SlotInv'
<1>1. /\ file[p] # Closed /\ task[p] \in Tasks /\ task[p].pc = "copy"
      /\ Locals(task[p], file[p])
  BY InACall DEF ReturnBytes, At, Outside
<1> DEFINE t == [Idle EXCEPT !.ret = "OK", !.buffer = task[p].buffer]
<1>2. task' = [task EXCEPT ![p] = t] /\ task'[p] = t /\ task' = [task EXCEPT ![p] = task'[p]]
  BY DEF ReturnBytes, SlotInv
<1>3. t \in Tasks
  <2>1. Idle \in Tasks
    BY NoCallIsTask, IdleIsNoCall DEF SlotInv, Labels, Answers
  <2> QED
    BY <1>1, <2>1 DEF Tasks
<1>4. Locals(t, file[p]) /\ Argument(t)
  BY <1>1 DEF Locals, Argument, Idle, Outside, Opening
<1> QED
  BY <1>1, <1>2, <1>3, <1>4, MoveKeeps DEF ReturnBytes, Outside

-----------------------------------------------------------------------------

LEMMA UserKeeps ==
  ASSUME SlotInv, NEW p \in Procs, User(p)
  PROVE  SlotInv'
<1>1. CASE \E m \in Minors : OpenKnownSlot(p, m) \/ OpenNewSlot(p, m)
                               \/ OpenBeforeAllocation(p, m)
  BY <1>1, OpenKnownSlotKeeps, OpenNewSlotKeeps, OpenBeforeAllocationKeeps
<1>2. CASE \E x \in Calls : Enter(p, x[1], x[2])
  BY <1>2, EnterKeeps
<1>3. CASE Release(p)
  BY <1>3, ReleaseKeeps
<1> QED
  BY <1>1, <1>2, <1>3 DEF User

LEMMA SystemCallKeeps ==
  ASSUME SlotInv, NEW p \in Procs, SystemCall(p)
  PROVE  SlotInv'
<1>1. CASE OpenRefused(p) \/ AllocateSlot(p) \/ StoreSlot(p) \/ CountSlot(p)
  BY <1>1, OpenRefusedKeeps, AllocateSlotKeeps, StoreSlotKeeps, CountSlotKeeps
<1>2. CASE CheckIoctl(p) \/ CheckWrite(p) \/ CheckRead(p)
  BY <1>2, CheckIoctlKeeps, CheckWriteKeeps, CheckReadKeeps
<1>3. CASE \/ LoadRoot(p) \/ FindNext(p) \/ IoctlFound(p) \/ WriteMissing(p)
           \/ ReadMissing(p) \/ IoctlRefused(p)
  BY <1>3, LoadRootKeeps, FindNextKeeps, LookupEndsKeep, ReadMissingKeeps
<1>4. CASE \/ InitiateFirstChannel(p) \/ SetRoot(p) \/ InitiateChannel(p) \/ WalkToTail(p)
           \/ Link(p) \/ CountAndReturn(p)
  BY <1>4, InitiateFirstChannelKeeps, SetRootKeeps, InitiateChannelKeeps, WalkToTailKeeps,
     LinkKeeps, CountAndReturnKeeps
<1>5. CASE StoreSize(p) \/ StoreMessage(p)
  BY <1>5, StoreSizeKeeps, StoreMessageKeeps
<1>6. CASE LoadSize(p) \/ TestSize(p) \/ CopyByte(p) \/ ReturnBytes(p)
  BY <1>6, LoadSizeKeeps, TestSizeKeeps, CopyByteKeeps, ReturnBytesKeeps
<1> QED
  BY <1>1, <1>2, <1>3, <1>4, <1>5, <1>6 DEF SystemCall

\* A step that changes nothing.
LEMMA StutterKeeps == SlotInv /\ UNCHANGED vars => SlotInv'
<1> SUFFICES ASSUME SlotInv, UNCHANGED vars
             PROVE  SlotInv'
  OBVIOUS
<1>1. Shared' /\ Grows
  BY SharedStays DEF vars, SlotInv, Shared
<1>2. \A q \in Procs : Process(q)'
  BY <1>1, OthersKeep DEF vars
<1>3. UNCHANGED <<file, task>> /\ Tasks' = Tasks
  BY DEF vars, driver, Tasks, Pointers
<1> QED
  BY <1>1, <1>2, <1>3 DEF SlotInv, Files

\* The invariant holds throughout, whatever the calls that overlap.
THEOREM SlotIsSound == Spec => []SlotInv
<1>1. Init => SlotInv
  BY InitIsSound
<1>2. SlotInv /\ [Next]_vars => SlotInv'
  BY LoadKeeps, UserKeeps, SystemCallKeeps, StutterKeeps DEF Next
<1> QED
  BY <1>1, <1>2, PTL DEF Spec

\* Every pointer of the driver is NULL or an object that was allocated, and no
\* counter or size leaves its range (message_slot.c:165-175, 200-221, 342-385).
THEOREM TypeCorrect == Spec => []TypeOK
<1>1. SlotInv => TypeOK
  BY DEF SlotInv, Shared, TypeOK
<1> QED
  BY <1>1, SlotIsSound, PTL

\* device_read never copies more bytes than its caller has room for, although the
\* channel may be written to meanwhile (message_slot.c:254-264).
THEOREM ReadFits == Spec => []ReadFitsBuffer
<1>1. SlotInv => ReadFitsBuffer
  <2> SUFFICES ASSUME SlotInv, NEW p \in Procs, At(p, "copy")
               PROVE  Len(task[p].buffer) <= task[p].arg
    BY DEF ReadFitsBuffer
  <2>1. task[p] \in Tasks /\ Argument(task[p]) /\ task[p].pc = "copy"
    BY DEF SlotInv, Process, Sound, At
  <2>2. /\ task[p].size <= task[p].arg /\ Len(task[p].buffer) <= task[p].size
        /\ task[p].size \in 0 .. BUFFER_LENGTH /\ task[p].arg \in Nat
        /\ Len(task[p].buffer) \in Nat
    BY <2>1, LenProperties, MessageSlotAssumption DEF Argument, Tasks
  <2> QED
    BY <2>2, MessageSlotAssumption
<1> QED
  BY <1>1, SlotIsSound, PTL

\* A process that has a slot open finds one there, whoever opens and closes the
\* same minor meanwhile (message_slot.c:200-221, 333-337).
THEOREM OpenSlotIsThere == Spec => []OpenSlotExists
<1>1. SlotInv => OpenSlotExists
  BY DEF SlotInv, Process, Sound, Locals, OpenSlotExists, Opening
<1> QED
  BY <1>1, SlotIsSound, PTL

-----------------------------------------------------------------------------

\* S and N say for which minor each slot and each node was allocated.
Owners == [Nat -> Minors \cup {None}]

\* Following pointers never leaves a minor, and a node only holds messages to its
\* own channel.
Owns(S, N) ==
  /\ \A m \in Minors : minors[m] # NULL => S[minors[m]] = m
  /\ \A s \in 1 .. Len(slots) : slots[s] # NULL => N[slots[s]] = S[s]
  /\ \A n \in 1 .. Len(nodes) :
       /\ nodes[n].next_node # NULL => N[nodes[n].next_node] = N[n]
       /\ nodes[n].message # None =>
            /\ nodes[n].message.to[1] = N[n]
            /\ Id(nodes[n].message.to[2]) = nodes[n].channel_id

\* What a read has copied is from the channel of its file.
FromChannel(t, f) ==
  \A i \in DOMAIN t.buffer :
    \/ t.buffer[i].to = None
    \/ /\ t.buffer[i].to[1] = f.minor_num
       /\ Id(t.buffer[i].to[2]) = Id(f.channel_num)

\* The pointers of a call are those of the minor of its file.
Traced(t, f, S, N) ==
  /\ t.pc = "open_store" => S[t.fresh] = f.minor_num
  /\ t.pc \notin Outside =>
       /\ t.slot # NULL => S[t.slot] = f.minor_num
       /\ t.root # NULL => N[t.root] = f.minor_num
       /\ t.node # NULL => N[t.node] = f.minor_num
  /\ t.pc \in {"set_root", "tail", "link"} => N[t.fresh] = f.minor_num
  /\ t.pc \in {"store_message", "test_size", "copy"} =>
       nodes[t.node].channel_id = Id(f.channel_num)
  /\ FromChannel(t, f)

Owned(S, N) == Owns(S, N) /\ \A p \in Procs : Traced(task[p], file[p], S, N)

\* The inductive invariant, on top of SlotInv.
IsolationInv == \E S, N \in Owners : Owned(S, N)

-----------------------------------------------------------------------------

\* Other owners that agree on the memory there is.
Extends(S, N, S2, N2) ==
  /\ \A s \in Pointers(slots) : S2[s] = S[s]
  /\ \A n \in Pointers(nodes) : N2[n] = N[n]

IdsStay ==
  \A n \in 1 .. Len(nodes) : nodes'[n].channel_id = nodes[n].channel_id

\* Processes that do not move stay traced when memory is added.
LEMMA OthersStayTraced ==
  ASSUME SlotInv, NEW S \in Owners, NEW N \in Owners, NEW S2 \in Owners, NEW N2 \in Owners,
         Extends(S, N, S2, N2), IdsStay,
         NEW q \in Procs, UNCHANGED <<task[q], file[q]>>, Traced(task[q], file[q], S, N)
  PROVE  Traced(task[q], file[q], S2, N2)'
<1> DEFINE t == task[q]
           f == file[q]
<1>1. /\ t \in Tasks /\ Locals(t, f) /\ Len(nodes) \in Nat /\ Len(slots) \in Nat
  BY LenProperties DEF SlotInv, Shared, Process, Sound
<1>2. t.pc = "open_store" => S2[t.fresh] = f.minor_num
  BY <1>1 DEF Locals, Extends, Traced, Pointers
<1>3. t.pc \notin Outside =>
        /\ t.slot # NULL => S2[t.slot] = f.minor_num
        /\ t.root # NULL => N2[t.root] = f.minor_num
        /\ t.node # NULL => N2[t.node] = f.minor_num
  BY <1>1 DEF Tasks, Extends, Traced
<1>4. t.pc \in {"set_root", "tail", "link"} => N2[t.fresh] = f.minor_num
  BY <1>1 DEF Locals, Extends, Traced, Pointers
<1>5. t.pc \in {"store_message", "test_size", "copy"} =>
        nodes'[t.node].channel_id = Id(f.channel_num)
  BY <1>1 DEF Locals, IdsStay, Traced, Tasks, Pointers, NULL
<1>6. FromChannel(t, f)
  BY DEF Traced
<1> QED
  BY <1>2, <1>3, <1>4, <1>5, <1>6 DEF Traced, FromChannel

\* A step of one process that keeps it traced keeps the invariant.
LEMMA StepTraces ==
  ASSUME SlotInv, NEW S \in Owners, NEW N \in Owners, NEW S2 \in Owners, NEW N2 \in Owners,
         Owned(S, N), Extends(S, N, S2, N2), IdsStay, NEW p \in Procs, Local(p),
         Owns(S2, N2)', Traced(task[p], file[p], S2, N2)'
  PROVE  IsolationInv'
<1>1. \A q \in Procs \ {p} : task'[q] = task[q] /\ file'[q] = file[q]
  BY DEF SlotInv, Local
<1>2. \A q \in Procs : Traced(task[q], file[q], S2, N2)'
  BY <1>1, OthersStayTraced DEF Owned
<1>3. Owned(S2, N2)'
  BY <1>2 DEF Owned
<1> QED
  BY <1>3 DEF IsolationInv

\* A step that changes no shared memory: only the process itself matters.
LEMMA QuietTraces ==
  ASSUME SlotInv, NEW S \in Owners, NEW N \in Owners, Owned(S, N),
         NEW p \in Procs, Local(p), UNCHANGED <<minors, slots, nodes>>,
         Traced(task'[p], file'[p], S, N)
  PROVE  IsolationInv'
<1>1. Extends(S, N, S, N) /\ IdsStay
  BY DEF Extends, IdsStay
<1>2. Owns(S, N)'
  BY DEF Owned, Owns
<1>3. Traced(task[p], file[p], S, N)'
  BY DEF Traced, FromChannel
<1> QED
  BY <1>1, <1>2, <1>3, StepTraces

\* A process that ends its call without bytes is traced.
LEMMA ReturnTraces ==
  ASSUME SlotInv, NEW S \in Owners, NEW N \in Owners, Owned(S, N),
         NEW p \in Procs, Local(p), UNCHANGED <<minors, slots, nodes>>,
         task'[p].pc \in Outside \cup {"open_limit", "check"}, task'[p].buffer = <<>>,
         task'[p].slot = NULL, task'[p].root = NULL, task'[p].node = NULL
  PROVE  IsolationInv'
<1>1. Traced(task'[p], file'[p], S, N)
  BY DEF Traced, FromChannel, Outside
<1> QED
  BY <1>1, QuietTraces

-----------------------------------------------------------------------------
(* Calls that begin, and calls that end without bytes. *)

LEMMA QuietReturn ==
  ASSUME SlotInv, IsolationInv, NEW p \in Procs, NEW r, Return(p, r),
         file' = [file EXCEPT ![p] = file'[p]], UNCHANGED <<minors, slots, nodes>>
  PROVE  IsolationInv'
<1>1. PICK S \in Owners, N \in Owners : Owned(S, N)
  BY DEF IsolationInv
<1>2. task'[p] = NoCall("user", r) /\ task' = [task EXCEPT ![p] = task'[p]]
  BY IdleIsNoCall DEF Return, SlotInv
<1> QED
  BY <1>1, <1>2, ReturnTraces DEF NoCall, Outside, Local

LEMMA QuietDeath ==
  ASSUME SlotInv, IsolationInv, NEW p \in Procs, Die(p), UNCHANGED <<minors, slots, nodes>>
  PROVE  IsolationInv'
<1>1. PICK S \in Owners, N \in Owners : Owned(S, N)
  BY DEF IsolationInv
<1>2. task'[p] = NoCall("dead", "none") /\ task' = [task EXCEPT ![p] = task'[p]]
      /\ file' = [file EXCEPT ![p] = file'[p]]
  BY IdleIsNoCall DEF Die, SlotInv
<1> QED
  BY <1>1, <1>2, ReturnTraces DEF NoCall, Outside, Local

LEMMA UserTraces ==
  ASSUME SlotInv, IsolationInv, NEW p \in Procs, User(p)
  PROVE  IsolationInv'
<1>1. ASSUME NEW m \in Minors, OpenKnownSlot(p, m)
      PROVE  IsolationInv'
  BY <1>1, QuietReturn DEF OpenKnownSlot, SlotInv, driver
<1>2. ASSUME NEW m \in Minors, OpenNewSlot(p, m)
      PROVE  IsolationInv'
  <2>1. PICK S \in Owners, N \in Owners : Owned(S, N)
    BY DEF IsolationInv
  <2>2. task'[p] = NoCall("open_limit", "none") /\ task' = [task EXCEPT ![p] = task'[p]]
        /\ file' = [file EXCEPT ![p] = file'[p]]
    BY <1>2, IdleIsNoCall DEF OpenNewSlot, SlotInv
  <2>3. /\ task'[p].pc = "open_limit" /\ task'[p].buffer = <<>> /\ task'[p].slot = NULL
        /\ task'[p].root = NULL /\ task'[p].node = NULL /\ UNCHANGED <<minors, slots, nodes>>
    BY <1>2, <2>2 DEF NoCall, OpenNewSlot, driver
  <2> QED
    BY <2>1, <2>2, <2>3, ReturnTraces DEF Local
<1>3. ASSUME NEW m \in Minors, OpenBeforeAllocation(p, m)
      PROVE  IsolationInv'
  BY <1>3, QuietDeath DEF OpenBeforeAllocation, driver
<1>4. ASSUME NEW x \in Calls, Enter(p, x[1], x[2])
      PROVE  IsolationInv'
  <2>1. PICK S \in Owners, N \in Owners : Owned(S, N)
    BY DEF IsolationInv
  <2>2. /\ task'[p] = [Idle EXCEPT !.pc = "check", !.call = x[1], !.arg = x[2]]
        /\ task' = [task EXCEPT ![p] = task'[p]] /\ file' = [file EXCEPT ![p] = file'[p]]
    BY <1>4 DEF Enter, SlotInv
  <2>3. /\ task'[p].pc = "check" /\ task'[p].buffer = <<>> /\ task'[p].slot = NULL
        /\ task'[p].root = NULL /\ task'[p].node = NULL /\ UNCHANGED <<minors, slots, nodes>>
    <3>1. UNCHANGED <<minors, slots, nodes>>
      BY <1>4 DEF Enter, driver
    <3> QED
      BY <2>2, <3>1 DEF Idle
  <2> QED
    BY <2>1, <2>2, <2>3, ReturnTraces DEF Local
<1>5. CASE Release(p)
  BY <1>5, QuietReturn DEF Release, SlotInv, driver
<1> QED
  BY <1>1, <1>2, <1>3, <1>4, <1>5 DEF User

LEMMA EndsTrace ==
  ASSUME SlotInv, IsolationInv, NEW p \in Procs,
         \/ OpenRefused(p) \/ CountSlot(p) \/ CountAndReturn(p)
         \/ IoctlFound(p) \/ WriteMissing(p) \/ IoctlRefused(p)
  PROVE  IsolationInv'
<1>1. file' = [file EXCEPT ![p] = file'[p]] /\ UNCHANGED <<minors, slots, nodes>>
  BY DEF OpenRefused, CountSlot, CountAndReturn, IoctlFound, WriteMissing, IoctlRefused,
         SlotInv, driver
<1>2. PICK r : Return(p, r)
  BY DEF OpenRefused, CountSlot, CountAndReturn, IoctlFound, WriteMissing, IoctlRefused
<1> QED
  BY <1>1, <1>2, QuietReturn

LEMMA ReadMissingTraces ==
  ASSUME SlotInv, IsolationInv, NEW p \in Procs, ReadMissing(p)
  PROVE  IsolationInv'
  BY QuietDeath DEF ReadMissing, driver

-----------------------------------------------------------------------------
(* Calls that go on, without changing memory. *)

\* The slot of a file is the one of its minor, and nothing has been read yet.
LEMMA LoadSlotTraces ==
  ASSUME SlotInv, IsolationInv, NEW p \in Procs, task[p].pc = "check", LoadSlot(p),
         file' = [file EXCEPT ![p] = file'[p]], file'[p].minor_num = file[p].minor_num,
         UNCHANGED <<minors, slots, nodes>>
  PROVE  IsolationInv'
<1>1. PICK S \in Owners, N \in Owners : Owned(S, N)
  BY DEF IsolationInv
<1>2. file[p].minor_num \in Minors /\ task[p] \in Tasks /\ Argument(task[p])
  BY InACall DEF Outside
<1>3. task'[p] = [task[p] EXCEPT !.pc = "root", !.slot = minors[file[p].minor_num]]
      /\ task' = [task EXCEPT ![p] = task'[p]]
  BY DEF LoadSlot, SlotInv
<1>4. minors[file[p].minor_num] # NULL => S[minors[file[p].minor_num]] = file[p].minor_num
  BY <1>1, <1>2 DEF Owned, Owns
<1>5. Traced(task[p], file[p], S, N) /\ task[p].buffer = <<>>
  BY <1>1, <1>2 DEF Owned, Argument, Outside
<1>6. Traced(task'[p], file'[p], S, N)
  BY <1>2, <1>3, <1>4, <1>5 DEF Traced, FromChannel, Tasks, Outside
<1> QED
  BY <1>1, <1>3, <1>6, QuietTraces DEF Local

LEMMA ChecksTrace ==
  ASSUME SlotInv, IsolationInv, NEW p \in Procs,
         CheckIoctl(p) \/ CheckWrite(p) \/ CheckRead(p)
  PROVE  IsolationInv'
<1>1. /\ file' = [file EXCEPT ![p] = file'[p]] /\ file'[p].minor_num = file[p].minor_num
      /\ UNCHANGED <<minors, slots, nodes>> /\ task[p].pc = "check"
  <2>1. file[p] \in Files /\ file[p] # Closed
    BY InACall DEF CheckIoctl, CheckWrite, CheckRead, At, Outside
  <2>2. file[p] \in [minor_num : Minors, channel_num : Params \cup Garbage]
    BY <2>1, FilesAreTyped
  <2> QED
    BY <2>2 DEF CheckIoctl, CheckWrite, CheckRead, At, SlotInv, driver
<1>2. CASE \E r : Return(p, r)
  BY <1>1, <1>2, QuietReturn
<1>3. CASE LoadSlot(p)
  BY <1>1, <1>3, LoadSlotTraces
<1> QED
  BY <1>2, <1>3 DEF CheckIoctl, CheckWrite, CheckRead

LEMMA LoadRootTraces ==
  ASSUME SlotInv, IsolationInv, NEW p \in Procs, LoadRoot(p)
  PROVE  IsolationInv'
<1>1. PICK S \in Owners, N \in Owners : Owned(S, N)
  BY DEF IsolationInv
<1>2. /\ task[p] \in Tasks /\ task[p].pc = "root" /\ Locals(task[p], file[p])
      /\ Len(slots) \in Nat
  BY InACall DEF LoadRoot, At, Outside
<1> DEFINE root == slots[task[p].slot]
           label == IF task[p].call = "ioctl" /\ root = NULL THEN "first" ELSE "find"
<1>3. task[p].slot \in 1 .. Len(slots) /\ task[p].slot # NULL
  BY <1>2 DEF Locals, Tasks, Pointers, NULL
<1>4. Traced(task[p], file[p], S, N) /\ (root # NULL => N[root] = file[p].minor_num)
  BY <1>1, <1>2, <1>3 DEF Owned, Owns, Traced, Outside
<1>5. /\ task'[p] = [task[p] EXCEPT !.root = root, !.node = root, !.pc = label]
      /\ task' = [task EXCEPT ![p] = task'[p]] /\ label \in {"first", "find"}
      /\ UNCHANGED <<minors, slots, nodes, file>>
  BY DEF LoadRoot, SlotInv, driver
<1> HIDE DEF root, label
<1>6. Traced(task'[p], file[p], S, N)
  BY <1>2, <1>4, <1>5 DEF Traced, FromChannel, Tasks, Outside
<1>7. file' = [file EXCEPT ![p] = file'[p]]
  BY <1>5 DEF SlotInv
<1> QED
  BY <1>1, <1>5, <1>6, <1>7, QuietTraces DEF Local

\* The successor of a node is a node of the same minor.
LEMMA NextIsOwned ==
  ASSUME SlotInv, NEW S, NEW N, Owns(S, N), NEW n \in Pointers(nodes), n # NULL
  PROVE  nodes[n].next_node # NULL => N[nodes[n].next_node] = N[n]
  BY NodesAreTyped DEF Owns

LEMMA WalksTrace ==
  ASSUME SlotInv, IsolationInv, NEW p \in Procs, FindNext(p) \/ WalkToTail(p)
  PROVE  IsolationInv'
<1>1. PICK S \in Owners, N \in Owners : Owned(S, N)
  BY DEF IsolationInv
<1>2. /\ task[p] \in Tasks /\ task[p].pc \in {"find", "tail"} /\ Locals(task[p], file[p])
  BY InACall DEF FindNext, WalkToTail, At, Outside
<1>3. task[p].node # NULL /\ task[p].node \in Pointers(nodes)
  BY <1>2 DEF FindNext, WalkToTail, At, Locals, Tasks
<1> DEFINE next == nodes[task[p].node].next_node
<1>4. Traced(task[p], file[p], S, N) /\ (next # NULL => N[next] = file[p].minor_num)
  BY <1>1, <1>2, <1>3, NextIsOwned DEF Owned, Traced, Outside
<1>5. /\ \/ task'[p] = [task[p] EXCEPT !.node = next]
         \/ task'[p] = [task[p] EXCEPT !.pc = "link"] /\ task[p].pc = "tail"
      /\ task' = [task EXCEPT ![p] = task'[p]]
      /\ UNCHANGED <<minors, slots, nodes, file>>
  BY DEF FindNext, WalkToTail, At, SlotInv, driver
<1> HIDE DEF next
<1>6. Traced(task'[p], file[p], S, N)
  BY <1>2, <1>4, <1>5 DEF Traced, FromChannel, Tasks, Outside
<1>7. file' = [file EXCEPT ![p] = file'[p]]
  BY <1>5 DEF SlotInv
<1> QED
  BY <1>1, <1>5, <1>6, <1>7, QuietTraces DEF Local

LEMMA SizesTrace ==
  ASSUME SlotInv, IsolationInv, NEW p \in Procs, LoadSize(p) \/ TestSize(p)
  PROVE  IsolationInv'
<1>1. PICK S \in Owners, N \in Owners : Owned(S, N)
  BY DEF IsolationInv
<1>2. /\ task[p] \in Tasks /\ task[p].pc \in {"find", "test_size"}
      /\ UNCHANGED <<minors, slots, nodes, file>> /\ file' = [file EXCEPT ![p] = file'[p]]
  BY InACall DEF LoadSize, TestSize, At, Outside, driver, SlotInv
<1>3. CASE \E r : Return(p, r)
  BY <1>2, <1>3, QuietReturn
<1>4. CASE LoadSize(p)
  <2> DEFINE n == nodes[task[p].node].size
  <2>1. /\ task'[p] = [task[p] EXCEPT !.pc = "test_size", !.size = n]
        /\ task' = [task EXCEPT ![p] = task'[p]]
        /\ nodes[task[p].node].channel_id = Id(file[p].channel_num)
    BY <1>4 DEF LoadSize, Found, SlotInv
  <2>2. Traced(task[p], file[p], S, N)
    BY <1>1 DEF Owned
  <2> HIDE DEF n
  <2>3. Traced(task'[p], file[p], S, N)
    BY <1>2, <2>1, <2>2 DEF Traced, FromChannel, Tasks, Outside
  <2> QED
    BY <1>1, <1>2, <2>1, <2>3, QuietTraces DEF Local
<1>5. CASE task' = [task EXCEPT ![p].pc = "copy"] /\ task[p].pc = "test_size"
  <2>1. task'[p] = [task[p] EXCEPT !.pc = "copy"] /\ task' = [task EXCEPT ![p] = task'[p]]
    BY <1>5 DEF SlotInv
  <2>2. Traced(task[p], file[p], S, N)
    BY <1>1 DEF Owned
  <2>3. Traced(task'[p], file[p], S, N)
    BY <1>2, <1>5, <2>1, <2>2 DEF Traced, FromChannel, Tasks, Outside
  <2> QED
    BY <1>1, <1>2, <2>1, <2>3, QuietTraces DEF Local
<1> QED
  BY <1>3, <1>4, <1>5 DEF LoadSize, TestSize, At

\* A byte copied now comes from the channel of the file.
LEMMA CopyByteTraces ==
  ASSUME SlotInv, IsolationInv, NEW p \in Procs, CopyByte(p)
  PROVE  IsolationInv'
<1>1. PICK S \in Owners, N \in Owners : Owned(S, N)
  BY DEF IsolationInv
<1>2. /\ task[p] \in Tasks /\ task[p].pc = "copy" /\ Locals(task[p], file[p])
      /\ UNCHANGED <<minors, slots, nodes, file>> /\ file' = [file EXCEPT ![p] = file'[p]]
  BY InACall DEF CopyByte, At, Outside, driver, SlotInv
<1> DEFINE letter == nodes[task[p].node].message
           b == Byte(letter, Len(task[p].buffer) + 1)
<1>3. Traced(task[p], file[p], S, N) /\ Owns(S, N)
  BY <1>1 DEF Owned
<1>4. \/ b.to = None
      \/ b.to[1] = file[p].minor_num /\ Id(b.to[2]) = Id(file[p].channel_num)
  <2>1. CASE b.to = None
    BY <2>1
  <2>2. CASE b.to # None
    <3>1. letter # None /\ b = letter
      BY <2>2 DEF Byte
    <3>2. task[p].node \in 1 .. Len(nodes) /\ task[p].node # NULL
      BY <1>2, NodesAreTyped DEF Locals, Tasks
    <3>3. letter.to[1] = N[task[p].node]
          /\ Id(letter.to[2]) = nodes[task[p].node].channel_id
      BY <1>3, <3>1, <3>2 DEF Owns
    <3> QED
      BY <1>2, <1>3, <3>1, <3>2, <3>3 DEF Traced, Outside
  <2> QED
    BY <2>1, <2>2
<1>5. task'[p] = [task[p] EXCEPT !.buffer = Append(task[p].buffer, b)]
      /\ task' = [task EXCEPT ![p] = task'[p]]
  BY DEF CopyByte, SlotInv
<1> HIDE DEF letter, b
<1>6. FromChannel(task'[p], file[p])
  <2> DEFINE seq == Append(task[p].buffer, b)
  <2>1. task'[p].buffer = seq /\ task[p].buffer \in Seq(Bytes)
    BY <1>2, <1>5 DEF Tasks
  <2>2. \A i \in DOMAIN seq :
          \/ i \in DOMAIN task[p].buffer /\ seq[i] = task[p].buffer[i]
          \/ seq[i] = b
    BY <2>1, AppendProperties, LenProperties
  <2> HIDE DEF seq
  <2> QED
    BY <1>3, <1>4, <2>1, <2>2 DEF Traced, FromChannel
<1>7. Traced(task'[p], file[p], S, N)
  BY <1>2, <1>3, <1>5, <1>6 DEF Traced, Tasks, Outside
<1> QED
  BY <1>1, <1>2, <1>5, <1>7, QuietTraces DEF Local

LEMMA ReturnBytesTraces ==
  ASSUME SlotInv, IsolationInv, NEW p \in Procs, ReturnBytes(p)
  PROVE  IsolationInv'
<1>1. PICK S \in Owners, N \in Owners : Owned(S, N)
  BY DEF IsolationInv
<1>2. /\ UNCHANGED <<minors, slots, nodes, file>> /\ file' = [file EXCEPT ![p] = file'[p]]
      /\ task'[p] = [Idle EXCEPT !.ret = "OK", !.buffer = task[p].buffer]
      /\ task' = [task EXCEPT ![p] = task'[p]]
  BY DEF ReturnBytes, driver, SlotInv
<1>3. Traced(task[p], file[p], S, N)
  BY <1>1 DEF Owned
<1>4. Traced(task'[p], file[p], S, N)
  BY <1>2, <1>3 DEF Traced, FromChannel, Idle, Outside
<1> QED
  BY <1>1, <1>2, <1>4, QuietTraces DEF Local

-----------------------------------------------------------------------------
(* Calls that change memory. *)

\* A new slot belongs to the minor it is allocated for.
LEMMA AllocateSlotTraces ==
  ASSUME SlotInv, IsolationInv, NEW p \in Procs, AllocateSlot(p)
  PROVE  IsolationInv'
<1>1. PICK S \in Owners, N \in Owners : Owned(S, N)
  BY DEF IsolationInv
<1>2. /\ task[p] \in Tasks /\ task[p].pc = "open_limit" /\ Len(slots) \in Nat
      /\ file[p].minor_num \in Minors /\ Traced(task[p], file[p], S, N)
  BY <1>1, InACall DEF AllocateSlot, At, Outside, Owned
<1>3. PICK S2 \in Owners : Extends(S, N, S2, N) /\ S2[Len(slots) + 1] = file[p].minor_num
  <2> DEFINE S2 == [S EXCEPT ![Len(slots) + 1] = file[p].minor_num]
  <2>1. S2 \in Owners /\ Extends(S, N, S2, N) /\ S2[Len(slots) + 1] = file[p].minor_num
    BY <1>2 DEF Owners, Extends, Pointers
  <2> HIDE DEF S2
  <2> QED
    BY <2>1
<1>4. Len(slots') = Len(slots) + 1 /\ slots'[Len(slots) + 1] = NULL
      /\ \A s \in 1 .. Len(slots) : slots'[s] = slots[s]
  BY <1>2, AppendProperties DEF AllocateSlot, SlotInv, Shared
<1>5. UNCHANGED <<minors, nodes, file>> /\ IdsStay
  BY DEF AllocateSlot, IdsStay
<1>6. Owns(S2, N)'
  <2>1. \A m \in Minors : minors'[m] # NULL => S2[minors'[m]] = m
    BY <1>1, <1>3, <1>5 DEF Owned, Owns, Extends, SlotInv, Shared
  <2>2. \A s \in 1 .. Len(slots') : slots'[s] # NULL => N[slots'[s]] = S2[s]
    <3> SUFFICES ASSUME NEW s \in 1 .. Len(slots'), slots'[s] # NULL
                 PROVE  N[slots'[s]] = S2[s]
      OBVIOUS
    <3>1. s \in 1 .. Len(slots) /\ s \in Pointers(slots)
      BY <1>2, <1>4 DEF Pointers
    <3> QED
      BY <1>1, <1>3, <1>4, <3>1 DEF Owned, Owns, Extends
  <2> QED
    BY <1>1, <1>5, <2>1, <2>2 DEF Owned, Owns
<1>7. task'[p] = [task[p] EXCEPT !.pc = "open_store", !.fresh = Len(slots) + 1]
      /\ task' = [task EXCEPT ![p] = task'[p]] /\ file' = [file EXCEPT ![p] = file'[p]]
  BY DEF AllocateSlot, SlotInv
<1>8. Traced(task[p], file[p], S2, N)'
  BY <1>2, <1>3, <1>5, <1>7 DEF Traced, FromChannel, Tasks, Outside, Extends
<1> QED
  BY <1>1, <1>3, <1>5, <1>6, <1>7, <1>8, StepTraces DEF Local

LEMMA StoreSlotTraces ==
  ASSUME SlotInv, IsolationInv, NEW p \in Procs, StoreSlot(p)
  PROVE  IsolationInv'
<1>1. PICK S \in Owners, N \in Owners : Owned(S, N)
  BY DEF IsolationInv
<1>2. /\ task[p] \in Tasks /\ task[p].pc = "open_store"
      /\ file[p].minor_num \in Minors /\ Traced(task[p], file[p], S, N)
  BY <1>1, InACall DEF StoreSlot, At, Outside, Owned
<1>3. minors' = [minors EXCEPT ![file[p].minor_num] = task[p].fresh]
      /\ UNCHANGED <<slots, nodes, file>> /\ IdsStay /\ Extends(S, N, S, N)
  BY DEF StoreSlot, IdsStay, Extends
<1>4. Owns(S, N)'
  BY <1>1, <1>2, <1>3 DEF Owned, Owns, Traced, SlotInv, Shared
<1>5. task'[p] = [task[p] EXCEPT !.pc = "open_count"]
      /\ task' = [task EXCEPT ![p] = task'[p]] /\ file' = [file EXCEPT ![p] = file'[p]]
  BY DEF StoreSlot, SlotInv
<1>6. Traced(task[p], file[p], S, N)'
  BY <1>2, <1>3, <1>5 DEF Traced, FromChannel, Tasks, Outside
<1> QED
  BY <1>1, <1>3, <1>4, <1>5, <1>6, StepTraces DEF Local

\* A new node belongs to the minor its channel is created in.
LEMMA NewNodeTraces ==
  ASSUME SlotInv, IsolationInv, NEW p \in Procs,
         InitiateFirstChannel(p) \/ InitiateChannel(p)
  PROVE  IsolationInv'
<1>1. PICK S \in Owners, N \in Owners : Owned(S, N)
  BY DEF IsolationInv
<1>2. /\ task[p] \in Tasks /\ task[p].pc \in {"first", "find"} /\ Len(nodes) \in Nat
      /\ file[p].minor_num \in Minors /\ Traced(task[p], file[p], S, N)
  BY <1>1, InACall DEF InitiateFirstChannel, InitiateChannel, At, Outside, Owned
<1>3. PICK N2 \in Owners : Extends(S, N, S, N2) /\ N2[Len(nodes) + 1] = file[p].minor_num
  <2> DEFINE N2 == [N EXCEPT ![Len(nodes) + 1] = file[p].minor_num]
  <2>1. N2 \in Owners /\ Extends(S, N, S, N2) /\ N2[Len(nodes) + 1] = file[p].minor_num
    BY <1>2 DEF Owners, Extends, Pointers
  <2> HIDE DEF N2
  <2> QED
    BY <2>1
<1>4. Len(nodes') = Len(nodes) + 1 /\ nodes'[Len(nodes) + 1] = NewNode(p)
      /\ \A n \in 1 .. Len(nodes) : nodes'[n] = nodes[n]
  BY <1>2, AppendProperties DEF InitiateFirstChannel, InitiateChannel, SlotInv, Shared
<1>5. UNCHANGED <<minors, slots, file>> /\ IdsStay
  BY <1>4 DEF InitiateFirstChannel, InitiateChannel, IdsStay
<1>6. Owns(S, N2)'
  <2>1. \A s \in 1 .. Len(slots) : slots[s] # NULL => N2[slots[s]] = S[s]
    BY <1>1, <1>3, ElementOfSeq DEF Owned, Owns, Extends, SlotInv, Shared
  <2>2. \A n \in 1 .. Len(nodes') :
          /\ nodes'[n].next_node # NULL => N2[nodes'[n].next_node] = N2[n]
          /\ nodes'[n].message # None =>
               /\ nodes'[n].message.to[1] = N2[n]
               /\ Id(nodes'[n].message.to[2]) = nodes'[n].channel_id
    <3> SUFFICES ASSUME NEW n \in 1 .. Len(nodes')
                 PROVE  /\ nodes'[n].next_node # NULL => N2[nodes'[n].next_node] = N2[n]
                        /\ nodes'[n].message # None =>
                             /\ nodes'[n].message.to[1] = N2[n]
                             /\ Id(nodes'[n].message.to[2]) = nodes'[n].channel_id
      OBVIOUS
    <3>1. CASE n = Len(nodes) + 1
      BY <1>4, <3>1 DEF NewNode
    <3>2. CASE n # Len(nodes) + 1
      <4>1. n \in 1 .. Len(nodes) /\ n \in Pointers(nodes) /\ n # NULL
        BY <1>2, <1>4, <3>2 DEF Pointers, NULL
      <4>2. nodes'[n] = nodes[n] /\ nodes[n] \in Nodes /\ N2[n] = N[n]
        BY <1>3, <1>4, <4>1, NodesAreTyped DEF Extends
      <4>3. nodes[n].next_node \in Pointers(nodes)
        BY <4>2 DEF Nodes
      <4>4. N2[nodes[n].next_node] = N[nodes[n].next_node]
        BY <1>3, <4>3 DEF Extends
      <4> QED
        BY <1>1, <4>1, <4>2, <4>4 DEF Owned, Owns
    <3> QED
      BY <3>1, <3>2
  <2> QED
    BY <1>1, <1>5, <2>1, <2>2 DEF Owned, Owns
<1>7. /\ \/ task'[p] = [task[p] EXCEPT !.pc = "set_root", !.fresh = Len(nodes) + 1]
         \/ task'[p] = [task[p] EXCEPT !.pc = "tail", !.fresh = Len(nodes) + 1,
                                       !.node = task[p].root]
      /\ task' = [task EXCEPT ![p] = task'[p]] /\ file' = [file EXCEPT ![p] = file'[p]]
  BY DEF InitiateFirstChannel, InitiateChannel, SlotInv
<1>8. /\ task[p].slot # NULL => S[task[p].slot] = file[p].minor_num
      /\ task[p].root # NULL => N2[task[p].root] = file[p].minor_num
      /\ task[p].node # NULL => N2[task[p].node] = file[p].minor_num
      /\ FromChannel(task[p], file[p])
  BY <1>2, <1>3 DEF Traced, Tasks, Outside, Extends
<1>9. Traced(task[p], file[p], S, N2)'
  <2>1. /\ task'[p].pc \in {"set_root", "tail"} /\ task'[p].fresh = Len(nodes) + 1
        /\ task'[p].slot = task[p].slot /\ task'[p].root = task[p].root
        /\ task'[p].node \in {task[p].node, task[p].root}
        /\ task'[p].buffer = task[p].buffer /\ file'[p] = file[p]
    BY <1>2, <1>5, <1>7 DEF Tasks
  <2> QED
    BY <1>3, <1>8, <2>1 DEF Traced, FromChannel, Outside
<1> QED
  BY <1>1, <1>3, <1>5, <1>6, <1>7, <1>9, StepTraces DEF Local

\* The new root is a node of the minor of its slot.
LEMMA SetRootTraces ==
  ASSUME SlotInv, IsolationInv, NEW p \in Procs, SetRoot(p)
  PROVE  IsolationInv'
<1>1. PICK S \in Owners, N \in Owners : Owned(S, N)
  BY DEF IsolationInv
<1>2. /\ task[p] \in Tasks /\ task[p].pc = "set_root" /\ Len(slots) \in Nat
      /\ Traced(task[p], file[p], S, N)
  BY <1>1, InACall DEF SetRoot, At, Outside, Owned
<1>3. /\ slots' = [slots EXCEPT ![task[p].slot] = task[p].fresh]
      /\ UNCHANGED <<minors, nodes, file>> /\ IdsStay /\ Extends(S, N, S, N)
  BY DEF SetRoot, IdsStay, Extends
<1>4. slots \in [1 .. Len(slots) -> Pointers(nodes)]
  BY LenProperties DEF SlotInv, Shared
<1>5. Len(slots') = Len(slots)
      /\ \A s \in 1 .. Len(slots) :
           slots'[s] = IF s = task[p].slot THEN task[p].fresh ELSE slots[s]
  <2>1. slots' \in [1 .. Len(slots) -> Pointers(nodes) \cup {task[p].fresh}]
    BY <1>3, <1>4
  <2> QED
    BY <1>2, <1>3, <1>4, <2>1
<1>6. Owns(S, N)'
  <2>1. \A s \in 1 .. Len(slots') : slots'[s] # NULL => N[slots'[s]] = S[s]
    BY <1>1, <1>2, <1>5 DEF Owned, Owns, Traced, Outside, NULL
  <2> QED
    BY <1>1, <1>3, <2>1 DEF Owned, Owns
<1>7. task'[p] = [task[p] EXCEPT !.pc = "count"]
      /\ task' = [task EXCEPT ![p] = task'[p]] /\ file' = [file EXCEPT ![p] = file'[p]]
  BY DEF SetRoot, SlotInv
<1>8. Traced(task[p], file[p], S, N)'
  BY <1>2, <1>3, <1>7 DEF Traced, FromChannel, Tasks, Outside
<1> QED
  BY <1>1, <1>3, <1>6, <1>7, <1>8, StepTraces DEF Local

\* Whatever of a node changes, its successor stays in the minor, and its message is
\* to its channel.
LEMMA NodeChangeOwns ==
  ASSUME SlotInv, NEW S \in Owners, NEW N \in Owners, Owns(S, N),
         NEW i \in Pointers(nodes), i # NULL, NEW v, nodes' = [nodes EXCEPT ![i] = v],
         v.next_node # NULL => N[v.next_node] = N[i],
         v.message # None => v.message.to[1] = N[i] /\ Id(v.message.to[2]) = v.channel_id,
         v.channel_id = nodes[i].channel_id, UNCHANGED <<minors, slots>>
  PROVE  Owns(S, N)' /\ IdsStay
<1>1. nodes \in [1 .. Len(nodes) -> Nodes] /\ Len(nodes) \in Nat /\ i \in 1 .. Len(nodes)
  BY LenProperties, NodesAreTyped DEF SlotInv, Shared
<1>2. nodes' \in [1 .. Len(nodes) -> Nodes \cup {v}]
  BY <1>1
<1>3. Len(nodes') = Len(nodes)
      /\ \A n \in 1 .. Len(nodes) : nodes'[n] = IF n = i THEN v ELSE nodes[n]
  BY <1>1, <1>2
<1> QED
  BY <1>3 DEF Owns, IdsStay

\* Linking, and storing what is written, stays within the channel's minor.
LEMMA NodeChangesTrace ==
  ASSUME SlotInv, IsolationInv, NEW p \in Procs,
         Link(p) \/ StoreSize(p) \/ StoreMessage(p)
  PROVE  IsolationInv'
<1>1. PICK S \in Owners, N \in Owners : Owned(S, N)
  BY DEF IsolationInv
<1>2. /\ task[p] \in Tasks /\ task[p].pc \notin Outside
      /\ task[p].node \in Pointers(nodes) /\ task[p].node # NULL
      /\ Traced(task[p], file[p], S, N)
  BY <1>1, InACall DEF Link, StoreSize, StoreMessage, Found, At, Outside, Owned, Locals, Tasks
<1> DEFINE n == task[p].node
<1>3. /\ nodes[n] \in Nodes /\ N[n] = file[p].minor_num /\ Owns(S, N)
      /\ nodes[n].next_node # NULL => N[nodes[n].next_node] = N[n]
      /\ nodes[n].message # None =>
           nodes[n].message.to[1] = N[n] /\ Id(nodes[n].message.to[2]) = nodes[n].channel_id
  BY <1>1, <1>2, NodesAreTyped DEF Traced, Owned, Owns
<1>4. /\ UNCHANGED <<minors, slots, file>> /\ Extends(S, N, S, N)
      /\ file' = [file EXCEPT ![p] = file'[p]] /\ task' = [task EXCEPT ![p] = task'[p]]
  BY DEF Link, StoreSize, StoreMessage, Return, Extends, SlotInv
<1>5. CASE Link(p)
  <2> DEFINE v == [nodes[n] EXCEPT !.next_node = task[p].fresh]
  <2>1. nodes' = [nodes EXCEPT ![n] = v] /\ task'[p] = [task[p] EXCEPT !.pc = "count"]
    BY <1>5 DEF Link, SlotInv
  <2>2. /\ v.next_node = task[p].fresh /\ v.message = nodes[n].message
        /\ v.channel_id = nodes[n].channel_id
    BY <1>3 DEF Nodes
  <2>3. N[task[p].fresh] = N[n]
    BY <1>2, <1>3, <1>5 DEF Link, At, Traced
  <2> HIDE DEF v
  <2>4. Owns(S, N)' /\ IdsStay
    <3>1. /\ v.next_node # NULL => N[v.next_node] = N[n]
          /\ v.message # None =>
               v.message.to[1] = N[n] /\ Id(v.message.to[2]) = v.channel_id
      BY <1>3, <2>2, <2>3
    <3> QED
      BY <1>2, <1>3, <1>4, <2>1, <2>2, <3>1, NodeChangeOwns
  <2>5. Traced(task[p], file[p], S, N)'
    BY <1>2, <1>4, <2>1 DEF Traced, FromChannel, Tasks, Outside
  <2> QED
    BY <1>1, <1>4, <2>4, <2>5, StepTraces DEF Local
<1>6. CASE StoreSize(p)
  <2> DEFINE v == [nodes[n] EXCEPT !.size = Length[task[p].arg]]
  <2>1. nodes' = [nodes EXCEPT ![n] = v] /\ task'[p] = [task[p] EXCEPT !.pc = "store_message"]
        /\ nodes[n].channel_id = Id(file[p].channel_num)
    BY <1>6 DEF StoreSize, Found, SlotInv
  <2>2. /\ v.next_node = nodes[n].next_node /\ v.message = nodes[n].message
        /\ v.channel_id = nodes[n].channel_id
    BY <1>3 DEF Nodes
  <2> HIDE DEF v
  <2>3. Owns(S, N)' /\ IdsStay
    <3>1. /\ v.next_node # NULL => N[v.next_node] = N[n]
          /\ v.message # None =>
               v.message.to[1] = N[n] /\ Id(v.message.to[2]) = v.channel_id
      BY <1>3, <2>2
    <3> QED
      BY <1>2, <1>3, <1>4, <2>1, <2>2, <3>1, NodeChangeOwns
  <2>4. n \in 1 .. Len(nodes)
    BY <1>2, NodesAreTyped
  <2>5. nodes'[n].channel_id = Id(file[p].channel_num)
    BY <2>1, <2>3, <2>4 DEF IdsStay
  <2>6. Traced(task[p], file[p], S, N)'
    BY <1>2, <1>4, <2>1, <2>5 DEF Traced, FromChannel, Tasks, Outside
  <2> QED
    BY <1>1, <1>4, <2>3, <2>6, StepTraces DEF Local
<1>7. CASE StoreMessage(p)
  <2> DEFINE letter == [text |-> task[p].arg, to |-> Address(p)]
             v == [nodes[n] EXCEPT !.message = letter]
  <2>1. nodes' = [nodes EXCEPT ![n] = v] /\ task'[p] = NoCall("user", "OK")
    BY <1>7, IdleIsNoCall DEF StoreMessage, Return, SlotInv
  <2>2. letter.to[1] = file[p].minor_num /\ letter.to[2] = file[p].channel_num
    BY DEF Address
  <2>3. /\ v.next_node = nodes[n].next_node /\ v.message = letter
        /\ v.channel_id = nodes[n].channel_id
    BY <1>3 DEF Nodes
  <2>4. nodes[n].channel_id = Id(file[p].channel_num)
    BY <1>2, <1>7 DEF StoreMessage, At, Traced
  <2> HIDE DEF letter, v
  <2>5. Owns(S, N)' /\ IdsStay
    BY <1>2, <1>3, <1>4, <2>1, <2>2, <2>3, <2>4, NodeChangeOwns
  <2>6. Traced(task[p], file[p], S, N)'
    BY <2>1 DEF Traced, FromChannel, NoCall, Outside
  <2> QED
    BY <1>1, <1>4, <2>5, <2>6, StepTraces DEF Local
<1> QED
  BY <1>5, <1>6, <1>7

-----------------------------------------------------------------------------

LEMMA InitIsIsolated == Init => IsolationInv
<1> SUFFICES ASSUME Init
             PROVE  IsolationInv
  OBVIOUS
<1> DEFINE Nobody == [n \in Nat |-> None]
<1>1. Nobody \in Owners
  BY DEF Owners
<1>2. Owned(Nobody, Nobody)
  BY DEF Init, Owned, Owns, Traced, FromChannel, Idle, Outside
<1> QED
  BY <1>1, <1>2 DEF IsolationInv

LEMMA LoadTraces == SlotInv /\ IsolationInv /\ Load => IsolationInv'
<1> SUFFICES ASSUME SlotInv, IsolationInv, Load
             PROVE  IsolationInv'
  OBVIOUS
<1>1. PICK S \in Owners, N \in Owners : Owned(S, N)
  BY DEF IsolationInv
<1>2. CASE Register \/ AllocateDevices
  <2>1. UNCHANGED <<minors, slots, nodes, file, task>>
    BY <1>2 DEF Register, AllocateDevices
  <2>2. Owns(S, N)' /\ \A q \in Procs : Traced(task[q], file[q], S, N)'
    BY <1>1, <2>1 DEF Owned, Owns, Traced, FromChannel
  <2> QED
    BY <2>2 DEF Owned, IsolationInv
<1>3. CASE Finalize
  <2>1. \A q \in Procs : Traced(task[q], file[q], S, N)'
    BY <1>1, <1>3 DEF Finalize, Owned, Traced, FromChannel, Outside
  <2>2. Owns(S, N)'
    BY <1>3 DEF Finalize, Owns
  <2> QED
    BY <2>1, <2>2 DEF Owned, IsolationInv
<1> QED
  BY <1>2, <1>3 DEF Load

LEMMA SystemCallTraces ==
  ASSUME SlotInv, IsolationInv, NEW p \in Procs, SystemCall(p)
  PROVE  IsolationInv'
<1>1. CASE \/ OpenRefused(p) \/ CountSlot(p) \/ CountAndReturn(p)
           \/ IoctlFound(p) \/ WriteMissing(p) \/ IoctlRefused(p) \/ ReadMissing(p)
  BY <1>1, EndsTrace, ReadMissingTraces
<1>2. CASE CheckIoctl(p) \/ CheckWrite(p) \/ CheckRead(p)
  BY <1>2, ChecksTrace
<1>3. CASE LoadRoot(p) \/ FindNext(p) \/ WalkToTail(p)
  BY <1>3, LoadRootTraces, WalksTrace
<1>4. CASE LoadSize(p) \/ TestSize(p) \/ CopyByte(p) \/ ReturnBytes(p)
  BY <1>4, SizesTrace, CopyByteTraces, ReturnBytesTraces
<1>5. CASE AllocateSlot(p) \/ StoreSlot(p) \/ InitiateFirstChannel(p) \/ InitiateChannel(p)
  BY <1>5, AllocateSlotTraces, StoreSlotTraces, NewNodeTraces
<1>6. CASE SetRoot(p) \/ Link(p) \/ StoreSize(p) \/ StoreMessage(p)
  BY <1>6, SetRootTraces, NodeChangesTrace
<1> QED
  BY <1>1, <1>2, <1>3, <1>4, <1>5, <1>6 DEF SystemCall

\* What every process has copied comes from the channel of its file.
THEOREM IsolationHolds == Spec => []IsolationInv
<1>1. Init => IsolationInv
  BY InitIsIsolated
<1>2. SlotInv /\ IsolationInv /\ [Next]_vars => IsolationInv'
  <2> SUFFICES ASSUME SlotInv, IsolationInv, [Next]_vars
               PROVE  IsolationInv'
    OBVIOUS
  <2>1. CASE UNCHANGED vars
    <3>1. PICK S \in Owners, N \in Owners : Owned(S, N)
      BY DEF IsolationInv
    <3>2. Owned(S, N)'
      BY <2>1, <3>1 DEF vars, driver, Owned, Owns, Traced, FromChannel
    <3> QED
      BY <3>2 DEF IsolationInv
  <2>2. CASE Next
    BY <2>2, LoadTraces, UserTraces, SystemCallTraces DEF Next
  <2> QED
    BY <2>1, <2>2
<1> QED
  BY <1>1, <1>2, SlotIsSound, PTL DEF Spec

\* No two numbers that processes use for channels agree in their lower bits.
IdsAreDistinct == \A a, b \in Params \cup Garbage : Id(a) = Id(b) => a = b

\* Whatever a read returns was written by a process whose file referred to the
\* very same channel number of the same slot (message_slot.c:97), if the numbers in
\* use fit the 32 bits of a channel id.
THEOREM ChannelsAreIsolated ==
  ASSUME IdsAreDistinct
  PROVE  Spec => []ChannelIsolation
<1>1. SlotInv /\ IsolationInv => ChannelIsolation
  <2> SUFFICES ASSUME SlotInv, IsolationInv,
                      NEW p \in Procs, NEW i \in DOMAIN task[p].buffer,
                      task[p].buffer[i].to # None
               PROVE  task[p].buffer[i].to = Address(p)
    BY DEF ChannelIsolation
  <2> DEFINE to == task[p].buffer[i].to
  <2>1. to[1] = file[p].minor_num /\ Id(to[2]) = Id(file[p].channel_num)
    BY DEF IsolationInv, Owned, Traced, FromChannel
  <2>2. to \in Minors \X (Params \cup Garbage)
    <3>1. task[p].buffer \in Seq(Bytes)
      BY DEF SlotInv, Tasks
    <3>2. task[p].buffer[i] \in Bytes
      BY <3>1
    <3> QED
      BY <3>2 DEF Bytes, Letters
  <2>3. file[p] \in Files /\ file[p].minor_num \in Minors
    BY <2>1, <2>2 DEF SlotInv
  <2>4. file[p] # Closed
    BY <2>3, MessageSlotAssumption DEF Closed
  <2>5. file[p].channel_num \in Params \cup Garbage
    BY <2>3, <2>4, FilesAreTyped
  <2>6. to[2] = file[p].channel_num
    BY <2>1, <2>2, <2>5 DEF IdsAreDistinct
  <2> QED
    BY <2>1, <2>2, <2>6 DEF Address
<1> QED
  BY <1>1, SlotIsSound, IsolationHolds, PTL
==============================================================================
