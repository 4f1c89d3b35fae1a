----------------------------- MODULE MessageSlot -----------------------------
(***************************************************************************)
(* message_slot (Assignment 3): a character device whose minors are        *)
(* message slots.  A slot is a linked list of channels, a channel keeps    *)
(* the last message written to it.  A process opens a slot, selects a      *)
(* channel with ioctl, and reads or writes.                                *)
(*                                                                         *)
(* The driver takes no lock, so system calls of several processes          *)
(* interleave at every access to the shared memory: one action is one such *)
(* access, with the private work next to it.  Memory obtained by kmalloc   *)
(* is private until a pointer to it is stored.  A NULL dereference is an   *)
(* oops, which kills the process.  NULL buffers, and user memory that      *)
(* put_user or get_user cannot access, are left out.                       *)
(***************************************************************************)
EXTENDS Integers, Sequences, FiniteSets

CONSTANTS
  Procs, Minors, Messages,
  Length,           \* the length of each message
  Params,           \* the arguments processes give to ioctl
  Sizes,            \* the lengths processes give to read
  IdSpan,           \* 2^32: a channel id keeps the lower 32 bits of a parameter
  BUFFER_LENGTH, CHANNELS_LIMIT,
  Garbage,          \* what channel_num may hold in memory fresh from kmalloc
  Overlap,          \* whether calls of several processes overlap
  MaxNodes,         \* bound: no ioctl is issued that could exceed it
  None

INT_SIZE == 4       \* numOfChannels[m] is an int*, and ++ moves it by this
MINORS_LIMIT == Cardinality(Minors)
NULL == 0           \* pointers are indices into slots and nodes

\* A stored message, and what its writer named the channel.
Letters == [text : Messages, to : Minors \X (Params \cup Garbage)]

ASSUME MessageSlotAssumption ==
  /\ IsFiniteSet(Procs) /\ IsFiniteSet(Minors)
  /\ Params \subseteq Nat /\ Sizes \subseteq Nat
  /\ Garbage \subseteq Nat /\ Garbage # {}
  /\ IdSpan \in Nat \ {0}
  /\ BUFFER_LENGTH \in Nat \ {0} /\ CHANNELS_LIMIT \in Nat /\ MaxNodes \in Nat
  /\ Length \in [Messages -> Nat]
  /\ Overlap \in BOOLEAN
  /\ None \notin Minors \cup Messages \cup {"ioctl", "write", "read"} \cup Letters

VARIABLES
  module,           \* how far prepare and finalize have come
  minors,           \* devices->minors: a slot or NULL
  slots,            \* channels_root of every slot ever allocated
  nodes,            \* every message_channel ever allocated
  numOfDrivers, numOfChannels,
  file,             \* the open file of each process: minor_num, channel_num
  task,             \* the system call each process is in
  acknowledged      \* history: the channels some ioctl has returned 0 for

driver == <<module, minors, slots, nodes, numOfDrivers, numOfChannels>>
vars == <<driver, file, task, acknowledged>>

Closed == [minor_num |-> None, channel_num |-> 0]

Opened(m, c) == [minor_num |-> m, channel_num |-> c]

\* A process between two calls; ret and buffer are the outcome of the last one.
Idle == [pc |-> "user", call |-> None, arg |-> 0, slot |-> NULL, root |-> NULL,
         node |-> NULL, fresh |-> NULL, size |-> 0, buffer |-> <<>>,
         ret |-> "none"]

Init ==
  /\ module = "unloaded"
  /\ minors = [m \in Minors |-> NULL] /\ slots = <<>> /\ nodes = <<>>
  /\ numOfDrivers = 0 /\ numOfChannels = [m \in Minors |-> 0]
  /\ file = [p \in Procs |-> Closed]
  /\ task = [p \in Procs |-> Idle]
  /\ acknowledged = {}

\* The parameter as an unsigned int.
Id(c) == c % IdSpan

\* The channel the file of p refers to.
Channel(p) == <<file[p].minor_num, Id(file[p].channel_num)>>

\* What p named the channel (history: a stored message keeps it as its address).
Address(p) == <<file[p].minor_num, file[p].channel_num>>

At(p, label) == task[p].pc = label

Return(p, ret) == task' = [task EXCEPT ![p] = [Idle EXCEPT !.ret = ret]]

\* An oops kills the process, and with it goes its file.
Die(p) ==
  /\ task' = [task EXCEPT ![p] = [Idle EXCEPT !.pc = "dead"]]
  /\ file' = [file EXCEPT ![p] = Closed]

MayCall(p) ==
  /\ At(p, "user")
  /\ Overlap \/ \A q \in Procs : task[q].pc \in {"user", "dead"}

\* The values of a counter after ++ by p; the increment may be lost to another
\* process that is about to increment the same counter.
Incremented(n, by, others) == {n + by} \cup (IF others # {} THEN {n} ELSE {})

-----------------------------------------------------------------------------
(* prepare and finalize. *)

\* From register_chrdev on the device can be opened.
Register ==
  /\ module = "unloaded"
  /\ module' = "registered"
  /\ UNCHANGED <<minors, slots, nodes, numOfDrivers, numOfChannels, file, task,
                 acknowledged>>

AllocateDevices ==
  /\ module = "registered"
  /\ module' = "ready"
  /\ UNCHANGED <<minors, slots, nodes, numOfDrivers, numOfChannels, file, task,
                 acknowledged>>

\* The kernel unloads a module only while no file of it is open.
Finalize ==
  /\ module = "ready" /\ \A p \in Procs : file[p] = Closed
  /\ \A p \in Procs : task[p].pc \in {"user", "dead"}
  /\ module' = "unregistered"
  /\ numOfDrivers' = numOfDrivers - Cardinality({m \in Minors : minors[m] # NULL})
  /\ minors' = [m \in Minors |-> NULL]
  /\ slots' = <<>> /\ nodes' = <<>>
  /\ acknowledged' = {}
  /\ UNCHANGED <<numOfChannels, file, task>>

-----------------------------------------------------------------------------
(* device_open and device_release. *)

\* channel_num of the new private data is not initialised.
OpenKnownSlot(p, m) ==
  /\ MayCall(p) /\ file[p] = Closed /\ module = "ready"
  /\ minors[m] # NULL
  /\ \E c \in Garbage :
       file' = [file EXCEPT ![p] = Opened(m, c)]
  /\ Return(p, "none")
  /\ UNCHANGED <<driver, acknowledged>>

OpenNewSlot(p, m) ==
  /\ MayCall(p) /\ file[p] = Closed /\ module = "ready"
  /\ minors[m] = NULL
  /\ \E c \in Garbage :
       file' = [file EXCEPT ![p] = Opened(m, c)]
  /\ task' = [task EXCEPT ![p] = [Idle EXCEPT !.pc = "open_limit"]]
  /\ UNCHANGED <<driver, acknowledged>>

\* devices is still NULL.
OpenBeforeAllocation(p, m) ==
  /\ MayCall(p) /\ file[p] = Closed /\ module = "registered"
  /\ Die(p)
  /\ UNCHANGED <<driver, acknowledged>>

OpenRefused(p) ==
  /\ At(p, "open_limit") /\ numOfDrivers = MINORS_LIMIT
  /\ file' = [file EXCEPT ![p] = Closed]
  /\ Return(p, "ENOSPC")
  /\ UNCHANGED <<driver, acknowledged>>

AllocateSlot(p) ==
  /\ At(p, "open_limit") /\ numOfDrivers # MINORS_LIMIT
  /\ slots' = Append(slots, NULL)
  /\ task' = [task EXCEPT ![p].pc = "open_store", ![p].fresh = Len(slots) + 1]
  /\ UNCHANGED <<module, minors, nodes, numOfDrivers, numOfChannels, file,
                 acknowledged>>

StoreSlot(p) ==
  /\ At(p, "open_store")
  /\ minors' = [minors EXCEPT ![file[p].minor_num] = task[p].fresh]
  /\ task' = [task EXCEPT ![p].pc = "open_count"]
  /\ UNCHANGED <<module, slots, nodes, numOfDrivers, numOfChannels, file,
                 acknowledged>>

CountSlot(p) ==
  /\ At(p, "open_count")
  /\ numOfDrivers' \in
       Incremented(numOfDrivers, 1, {q \in Procs \ {p} : At(q, "open_count")})
  /\ Return(p, "none")
  /\ UNCHANGED <<module, minors, slots, nodes, numOfChannels, file, acknowledged>>

\* Altered form: the slot goes with the file.
ReleaseWithSlot(p) ==
  /\ MayCall(p) /\ file[p] # Closed
  /\ minors' = [minors EXCEPT ![file[p].minor_num] = NULL]
  /\ file' = [file EXCEPT ![p] = Closed]
  /\ Return(p, "none")
  /\ UNCHANGED <<module, slots, nodes, numOfDrivers, numOfChannels, acknowledged>>

Release(p) ==
  /\ MayCall(p) /\ file[p] # Closed
  /\ file' = [file EXCEPT ![p] = Closed]
  /\ Return(p, "none")
  /\ UNCHANGED <<driver, acknowledged>>

-----------------------------------------------------------------------------
(* The calls on an open file: what they check first. *)

Calls == (({"ioctl"} \X Params) \cup ({"write"} \X Messages))
           \cup ({"read"} \X Sizes)

Enter(p, call, arg) ==
  /\ MayCall(p) /\ file[p] # Closed
  /\ call = "ioctl" =>
       Len(nodes) + Cardinality({q \in Procs : task[q].call = "ioctl"}) < MaxNodes
  /\ task' = [task EXCEPT ![p] = [Idle EXCEPT !.pc = "check", !.call = call,
                                              !.arg = arg]]
  /\ UNCHANGED <<driver, file, acknowledged>>

\* What passes the checks goes on to load the pointer to the slot.
LoadSlot(p) ==
  task' = [task EXCEPT ![p].pc = "root", ![p].slot = minors[file[p].minor_num]]

\* The file is switched to the channel before anything else is known.  An unknown
\* command ends like the parameter 0.
CheckIoctl(p) ==
  /\ At(p, "check") /\ task[p].call = "ioctl"
  /\ IF task[p].arg = 0
     THEN Return(p, "EINVAL") /\ UNCHANGED file
     ELSE /\ file' = [file EXCEPT ![p].channel_num = task[p].arg]
          /\ LoadSlot(p)
  /\ UNCHANGED <<driver, acknowledged>>

CheckWrite(p) ==
  /\ At(p, "check") /\ task[p].call = "write"
  /\ IF Id(file[p].channel_num) = 0 THEN Return(p, "EINVAL")
     ELSE IF Length[task[p].arg] \notin 1 .. BUFFER_LENGTH
     THEN Return(p, "EMSGSIZE")
     ELSE LoadSlot(p)
  /\ UNCHANGED <<driver, file, acknowledged>>

CheckRead(p) ==
  /\ At(p, "check") /\ task[p].call = "read"
  /\ IF task[p].arg \notin 1 .. BUFFER_LENGTH
     THEN Return(p, "EMSGSIZE")
     ELSE LoadSlot(p)
  /\ UNCHANGED <<driver, file, acknowledged>>

-----------------------------------------------------------------------------
(* Looking the channel up: devices->minors[minor]->channels_root, then       *)
(* find_channel node by node.  The slot of an open file is never NULL (see   *)
(* OpenSlotExists), and the id of a node never changes.                      *)

LoadRoot(p) ==
  LET root == slots[task[p].slot]
  IN
  /\ At(p, "root")
  /\ task' = [task EXCEPT ![p].root = root, ![p].node = root,
       ![p].pc = IF task[p].call = "ioctl" /\ root = NULL THEN "first" ELSE "find"]
  /\ UNCHANGED <<driver, file, acknowledged>>

\* Altered form: the ids are not compared.
FoundAny(p) == task[p].node # NULL

Found(p) ==
  /\ task[p].node # NULL
  /\ nodes[task[p].node].channel_id = Id(file[p].channel_num)

\* Altered form: the walk starts over.
FindNextRestarts(p) ==
  /\ At(p, "find") /\ task[p].node # NULL /\ ~Found(p)
  /\ task' = [task EXCEPT ![p].node = task[p].root]
  /\ UNCHANGED <<driver, file, acknowledged>>

FindNext(p) ==
  /\ At(p, "find") /\ task[p].node # NULL /\ ~Found(p)
  /\ task' = [task EXCEPT ![p].node = nodes[task[p].node].next_node]
  /\ UNCHANGED <<driver, file, acknowledged>>

IoctlFound(p) ==
  /\ At(p, "find") /\ task[p].call = "ioctl" /\ Found(p)
  /\ acknowledged' = acknowledged \cup {Channel(p)}
  /\ Return(p, "OK")
  /\ UNCHANGED <<driver, file>>

WriteMissing(p) ==
  /\ At(p, "find") /\ task[p].call = "write" /\ task[p].node = NULL
  /\ Return(p, "EINVAL")
  /\ UNCHANGED <<driver, file, acknowledged>>

\* curr_channel->size is read before curr_channel is compared with NULL.
ReadMissing(p) ==
  /\ At(p, "find") /\ task[p].call = "read" /\ task[p].node = NULL
  /\ Die(p)
  /\ UNCHANGED <<driver, acknowledged>>

-----------------------------------------------------------------------------
(* ioctl on a channel that is not there yet. *)

NewNode(p) == [channel_id |-> Id(file[p].channel_num), next_node |-> NULL,
               size |-> 0, message |-> None]

\* The increments of numOfChannels[m] under way.
Counting(p) ==
  {q \in Procs \ {p} : task[q].pc \in {"first", "count"}
                         /\ file[q].minor_num = file[p].minor_num}

CountChannel(p) ==
  \E n \in Incremented(numOfChannels[file[p].minor_num], INT_SIZE, Counting(p)) :
    numOfChannels' = [numOfChannels EXCEPT ![file[p].minor_num] = n]

\* The first channel is counted here and again by CountAndReturn.
InitiateFirstChannel(p) ==
  /\ At(p, "first")
  /\ nodes' = Append(nodes, NewNode(p))
  /\ CountChannel(p)
  /\ task' = [task EXCEPT ![p].pc = "set_root", ![p].fresh = Len(nodes) + 1]
  /\ UNCHANGED <<module, minors, slots, numOfDrivers, file, acknowledged>>

\* The root is not looked at again.
SetRoot(p) ==
  /\ At(p, "set_root")
  /\ slots' = [slots EXCEPT ![task[p].slot] = task[p].fresh]
  /\ task' = [task EXCEPT ![p].pc = "count"]
  /\ UNCHANGED <<module, minors, nodes, numOfDrivers, numOfChannels, file,
                 acknowledged>>

\* Altered form: the counter is compared after the division by INT_SIZE.
LimitByChannels(m) == numOfChannels[m] \div INT_SIZE >= CHANNELS_LIMIT

LimitReached(m) == numOfChannels[m] >= CHANNELS_LIMIT

IoctlRefused(p) ==
  /\ At(p, "find") /\ task[p].call = "ioctl" /\ task[p].node = NULL
  /\ LimitReached(file[p].minor_num)
  /\ Return(p, "EPERM")
  /\ UNCHANGED <<driver, file, acknowledged>>

InitiateChannel(p) ==
  /\ At(p, "find") /\ task[p].call = "ioctl" /\ task[p].node = NULL
  /\ ~LimitReached(file[p].minor_num)
  /\ nodes' = Append(nodes, NewNode(p))
  /\ task' = [task EXCEPT ![p].pc = "tail", ![p].fresh = Len(nodes) + 1,
                          ![p].node = task[p].root]
  /\ UNCHANGED <<module, minors, slots, numOfDrivers, numOfChannels, file,
                 acknowledged>>

\* add_node walks to the last node it sees ...
WalkToTail(p) ==
  LET next == nodes[task[p].node].next_node
  IN
  /\ At(p, "tail")
  /\ task' = IF next = NULL THEN [task EXCEPT ![p].pc = "link"]
                            ELSE [task EXCEPT ![p].node = next]
  /\ UNCHANGED <<driver, file, acknowledged>>

\* Altered form: the new node becomes the root, as on an empty slot.
LinkAsRoot(p) ==
  /\ At(p, "link")
  /\ slots' = [slots EXCEPT ![task[p].slot] = task[p].fresh]
  /\ task' = [task EXCEPT ![p].pc = "count"]
  /\ UNCHANGED <<module, minors, nodes, numOfDrivers, numOfChannels, file,
                 acknowledged>>

\* ... and makes the new node its successor, whatever has become of it since.
Link(p) ==
  /\ At(p, "link")
  /\ nodes' = [nodes EXCEPT ![task[p].node].next_node = task[p].fresh]
  /\ task' = [task EXCEPT ![p].pc = "count"]
  /\ UNCHANGED <<module, minors, slots, numOfDrivers, numOfChannels, file,
                 acknowledged>>

CountAndReturn(p) ==
  /\ At(p, "count")
  /\ CountChannel(p)
  /\ acknowledged' = acknowledged \cup {Channel(p)}
  /\ Return(p, "OK")
  /\ UNCHANGED <<module, minors, slots, nodes, numOfDrivers, file>>

-----------------------------------------------------------------------------
(* device_write and device_read on the channel they have found. *)

\* Altered form: a terminator is counted.
StoreSizeTerminated(p) ==
  /\ At(p, "find") /\ task[p].call = "write" /\ Found(p)
  /\ nodes' = [nodes EXCEPT ![task[p].node].size = Length[task[p].arg] + 1]
  /\ task' = [task EXCEPT ![p].pc = "store_message"]
  /\ UNCHANGED <<module, minors, slots, numOfDrivers, numOfChannels, file,
                 acknowledged>>

StoreSize(p) ==
  /\ At(p, "find") /\ task[p].call = "write" /\ Found(p)
  /\ nodes' = [nodes EXCEPT ![task[p].node].size = Length[task[p].arg]]
  /\ task' = [task EXCEPT ![p].pc = "store_message"]
  /\ UNCHANGED <<module, minors, slots, numOfDrivers, numOfChannels, file,
                 acknowledged>>

StoreMessage(p) ==
  /\ At(p, "store_message")
  /\ nodes' = [nodes EXCEPT ![task[p].node].message =
       [text |-> task[p].arg, to |-> Address(p)]]
  /\ Return(p, "OK")
  /\ UNCHANGED <<module, minors, slots, numOfDrivers, numOfChannels, file,
                 acknowledged>>

LoadSize(p) ==
  /\ At(p, "find") /\ task[p].call = "read" /\ Found(p)
  /\ task' = [task EXCEPT ![p].pc = "test_size",
                          ![p].size = nodes[task[p].node].size]
  /\ UNCHANGED <<driver, file, acknowledged>>

\* The size is loaded a second time for the comparison with 0.
TestSize(p) ==
  /\ At(p, "test_size")
  /\ IF nodes[task[p].node].size = 0 THEN Return(p, "EWOULDBLOCK")
     ELSE IF task[p].size > task[p].arg THEN Return(p, "ENOSPC")
     ELSE task' = [task EXCEPT ![p].pc = "copy"]
  /\ UNCHANGED <<driver, file, acknowledged>>

\* Altered forms: the size of the channel as it is now; the size of the buffer.
ReadSizeNow(p) == nodes[task[p].node].size
ReadSizeAsked(p) == task[p].arg

\* How many bytes device_read copies: the size it loaded first.
ReadSize(p) == task[p].size

\* Byte i of a stored message; kmalloc leaves what lies behind its end undefined,
\* and the buffer of a channel never written to holds zeros.
Byte(letter, i) ==
  IF letter = None THEN [text |-> "zero", to |-> None]
  ELSE IF i <= Length[letter.text] THEN letter
  ELSE [text |-> "junk", to |-> None]

\* The message is looked up again for every byte.
CopyByte(p) ==
  /\ At(p, "copy") /\ Len(task[p].buffer) < ReadSize(p)
  /\ task' = [task EXCEPT ![p].buffer =
       Append(@, Byte(nodes[task[p].node].message, Len(@) + 1))]
  /\ UNCHANGED <<driver, file, acknowledged>>

ReturnBytes(p) ==
  /\ At(p, "copy") /\ Len(task[p].buffer) >= ReadSize(p)
  /\ task' = [task EXCEPT ![p] = [Idle EXCEPT !.ret = "OK",
                                              !.buffer = task[p].buffer]]
  /\ UNCHANGED <<driver, file, acknowledged>>

-----------------------------------------------------------------------------

Load == Register \/ AllocateDevices \/ Finalize

SystemCall(p) ==
  \/ OpenRefused(p) \/ AllocateSlot(p) \/ StoreSlot(p) \/ CountSlot(p)
  \/ CheckIoctl(p) \/ CheckWrite(p) \/ CheckRead(p)
  \/ LoadRoot(p) \/ FindNext(p) \/ IoctlFound(p) \/ WriteMissing(p)
  \/ ReadMissing(p)
  \/ InitiateFirstChannel(p) \/ SetRoot(p)
  \/ IoctlRefused(p) \/ InitiateChannel(p) \/ WalkToTail(p) \/ Link(p)
  \/ CountAndReturn(p)
  \/ StoreSize(p) \/ StoreMessage(p)
  \/ LoadSize(p) \/ TestSize(p) \/ CopyByte(p) \/ ReturnBytes(p)

User(p) ==
  \/ \E m \in Minors : OpenKnownSlot(p, m) \/ OpenNewSlot(p, m)
                         \/ OpenBeforeAllocation(p, m)
  \/ \E x \in Calls : Enter(p, x[1], x[2])
  \/ Release(p)

Next == Load \/ \E p \in Procs : SystemCall(p) \/ User(p)

Spec == Init /\ [][Next]_vars

\* The kernel goes on with every system call.
FairSpec == Spec /\ \A p \in Procs : WF_vars(SystemCall(p))

-----------------------------------------------------------------------------
(* Properties of calls that overlap. *)

Pointers(seq) == 0 .. Len(seq)

Labels == {"user", "dead", "open_limit", "open_store", "open_count", "check",
           "root", "find", "first", "set_root", "tail", "link", "count",
           "store_message", "test_size", "copy"}

Files == [minor_num : Minors, channel_num : Params \cup Garbage] \cup {Closed}

Nodes == [channel_id : 0 .. IdSpan - 1, next_node : Pointers(nodes),
          size : 0 .. BUFFER_LENGTH, message : Letters \cup {None}]

Bytes == Letters \cup [text : {"zero", "junk"}, to : {None}]

Tasks == [pc : Labels, call : {None, "ioctl", "write", "read"},
          arg : {0} \cup {x[2] : x \in Calls},
          slot : Pointers(slots), root : Pointers(nodes), node : Pointers(nodes),
          fresh : Pointers(slots) \cup Pointers(nodes), size : 0 .. BUFFER_LENGTH,
          buffer : Seq(Bytes),
          ret : {"none", "OK", "EINVAL", "EMSGSIZE", "EPERM", "ENOSPC",
                 "EWOULDBLOCK"}]

\* Every pointer of the driver is NULL or an object that was allocated, and a
\* size is never above that of the array it describes.
TypeOK ==
  /\ module \in {"unloaded", "registered", "ready", "unregistered"}
  /\ minors \in [Minors -> Pointers(slots)]
  /\ slots \in Seq(Pointers(nodes)) /\ nodes \in Seq(Nodes)
  /\ numOfDrivers \in Int /\ numOfChannels \in [Minors -> Nat]
  /\ file \in [Procs -> Files] /\ task \in [Procs -> Tasks]
  /\ acknowledged \subseteq Minors \X (0 .. IdSpan - 1)

\* device_read never puts more bytes into the user's buffer than the buffer has
\* room for, although the channel may be rewritten while it copies
\* (message_slot.c:254-264).
ReadFitsBuffer ==
  \A p \in Procs : At(p, "copy") => Len(task[p].buffer) <= task[p].arg

\* Whatever a read returns was written by a process whose file referred to the
\* very same channel number of the same slot (message_slot.c:97: "desired channel
\* ID"), however lookups and insertions interleave.
ChannelIsolation ==
  \A p \in Procs : \A i \in DOMAIN task[p].buffer :
    task[p].buffer[i].to \in {None, Address(p)}

\* Once a process has a slot open, there is a slot for it to find, whoever opens
\* and closes the same minor meanwhile (message_slot.c:200-221, 333-337).
OpenSlotExists ==
  \A p \in Procs :
    file[p] # Closed /\ task[p].pc \notin {"open_limit", "open_store"} =>
      minors[file[p].minor_num] # NULL

\* The nodes from n on.
Chain(n) ==
  LET chain[i \in Pointers(nodes)] ==
        IF i = NULL THEN {} ELSE {i} \cup chain[nodes[i].next_node]
  IN  chain[n]

Linked(m) == IF minors[m] = NULL THEN {} ELSE Chain(slots[minors[m]])

\* A channel that an ioctl has returned 0 for can be found in its slot from then
\* on (message_slot.c:118: "Add a new node representing a new channel inside a
\* linked list").
ChannelsKept ==
  \A x \in acknowledged : \E n \in Linked(x[1]) : nodes[n].channel_id = x[2]

Texts(p) == [i \in DOMAIN task[p].buffer |-> task[p].buffer[i].text]

\* What a successful read returns is one message, all of it, as some write left
\* it (message_slot.c:66: "Reads the last message written on the channel").
WholeMessages ==
  \A p \in Procs :
    At(p, "user") /\ task[p].ret = "OK" /\ task[p].buffer # <<>> =>
      \E w \in Messages : Texts(p) = [i \in 1 .. Length[w] |-> w]

-----------------------------------------------------------------------------
(* Calls that do not overlap: the driver implements AtomicSlot with all four *)
(* departures.                                                               *)

\* The counter starts at INT_SIZE, grows by INT_SIZE per channel, and is compared
\* with CHANNELS_LIMIT once there is a first channel.
Capacity ==
  LET c == (CHANNELS_LIMIT + INT_SIZE - 1) \div INT_SIZE - 1
  IN  IF c < 1 THEN 1 ELSE c

InCall(p) == task[p].call # None

\* The message of the channel x of the list that starts at its slot's root.
Content(x) ==
  LET found == {n \in Linked(x[1]) : nodes[n].channel_id = x[2]}
      letters == {nodes[n].message : n \in found} \ {None}
  IN  IF letters = {} THEN None ELSE (CHOOSE l \in letters : TRUE).text

\* What the processes see: the open slots, the channels chosen, those of each slot,
\* the calls under way, how the last ones ended and what they read.
OpenSlots == [p \in Procs |->
  IF task[p].pc \in {"open_limit", "open_store", "open_count"} THEN None
  ELSE file[p].minor_num]

Selected == [p \in Procs |->
  IF OpenSlots[p] = None THEN 0 ELSE Id(file[p].channel_num)]

Channels == [m \in Minors |-> {c \in 0 .. IdSpan - 1 : <<m, c>> \in acknowledged}]

Contents == [x \in Minors \X (0 .. IdSpan - 1) |-> Content(x)]

Requested == [p \in Procs |->
  IF InCall(p) THEN [call |-> task[p].call, arg |-> task[p].arg]
  ELSE [call |-> None, arg |-> 0]]

Returned == [p \in Procs |-> task[p].ret]

Received == [p \in Procs |-> IF At(p, "user") THEN Texts(p) ELSE <<>>]

Atomic == INSTANCE AtomicSlot WITH
  Ids <- 0 .. IdSpan - 1, Requests <- Calls,
  Departures <- {"uninitialised", "narrow", "quarter", "oops"},
  open <- OpenSlots, sel <- Selected, channels <- Channels, content <- Contents,
  request <- Requested, ret <- Returned, got <- Received

\* Calls that do not overlap take effect in one step each.  The answers are those
\* the comments of message_slot.c promise, the last message written being the one
\* read, except for the four departures of AtomicSlot, and for no other
\* (message_slot.c:66, 94-98, 226-390).
AtomicSpec == Atomic!Spec
==============================================================================
