----------------------------- MODULE SlotClients -----------------------------
(***************************************************************************)
(* message_sender and message_reader (Assignment 3): the two programs that *)
(* use a message slot.  Each opens the slot, selects its channel, writes   *)
(* or reads one message, and exits.  Their system calls are those of       *)
(* MessageSlot, and interleave with those of every other process.          *)
(***************************************************************************)
EXTENDS MessageSlot

CONSTANT Programs   \* the programs that are started, with their arguments

Sender(w, c) == [stage |-> "open", call |-> "write", arg |-> w, channel |-> c]

\* A reader reads into a buffer of BUFFER_LENGTH bytes.
Reader(c) == [stage |-> "open", call |-> "read", arg |-> BUFFER_LENGTH, channel |-> c]

ASSUME SlotClientsAssumption ==
  Programs \subseteq {Sender(w, c) : w \in Messages, c \in Params}
                       \cup {Reader(c) : c \in Params}

VARIABLE prog       \* the program each process runs, and how the last one ended

clientVars == <<vars, prog>>

Exited(status) == [stage |-> status, call |-> None, arg |-> 0, channel |-> 0]

ClientInit == Init /\ prog = [p \in Procs |-> Exited("exit 0")]

Running(p) == prog[p].stage \in {"open", "ioctl", "transfer"}

\* Bound: no program is started whose ioctl could exceed MaxNodes.
Start(p, m) ==
  /\ ~Running(p)
  /\ Len(nodes) + Cardinality({q \in Procs : prog[q].stage \in {"open", "ioctl"}})
       < MaxNodes
  /\ OpenKnownSlot(p, m) \/ OpenNewSlot(p, m) \/ OpenBeforeAllocation(p, m)
  /\ \E x \in Programs : prog' = [prog EXCEPT ![p] = x]

Go(p, stage) == prog' = [prog EXCEPT ![p].stage = stage]

Exit(p, status) == prog' = [prog EXCEPT ![p] = Exited(status)]

Select(p) ==
  /\ prog[p].stage = "open" /\ file[p] # Closed
  /\ Enter(p, "ioctl", prog[p].channel) /\ Go(p, "ioctl")

Transfer(p) ==
  /\ prog[p].stage = "ioctl" /\ task[p].ret = "OK"
  /\ Enter(p, prog[p].call, prog[p].arg) /\ Go(p, "transfer")

\* close and exit: with status 0 after a transfer that went well.
Leave(p) ==
  /\ \/ prog[p].stage = "ioctl" /\ task[p].ret # "OK"
     \/ prog[p].stage = "transfer"
  /\ Release(p)
  /\ Exit(p, IF prog[p].stage = "transfer" /\ task[p].ret = "OK"
             THEN "exit 0" ELSE "exit 1")

\* open has failed.
GiveUp(p) ==
  /\ prog[p].stage = "open" /\ At(p, "user") /\ file[p] = Closed
  /\ Exit(p, "exit 1") /\ UNCHANGED vars

Step(p) == (SystemCall(p) /\ UNCHANGED prog) \/ Select(p) \/ Transfer(p)
             \/ Leave(p) \/ GiveUp(p)

ClientNext ==
  \/ Load /\ UNCHANGED prog
  \/ \E p \in Procs : Step(p) \/ \E m \in Minors : Start(p, m)

\* The kernel and the programs go on; nobody has to start one.
ClientSpec ==
  ClientInit /\ [][ClientNext]_clientVars /\ \A p \in Procs : WF_clientVars(Step(p))

\* Every sender and every reader exits, or is killed by an oops, although the
\* list its calls walk grows under them (message_slot.c:167-173, 179-181,
\* message_sender.c:67, message_reader.c:75).
ProgramsEnd == \A p \in Procs : Running(p) ~> (~Running(p) \/ At(p, "dead"))
==============================================================================
