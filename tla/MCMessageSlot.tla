---------------------------- MODULE MCMessageSlot ----------------------------
(***************************************************************************)
(* Instances of MessageSlot for TLC: a message of one byte, one that fills *)
(* the buffer and one that does not fit.                                   *)
(***************************************************************************)
EXTENDS MessageSlot, TLC

CONSTANTS short, full, long

MCLength ==
  [w \in Messages |-> IF w = short THEN 1 ELSE IF w = full THEN 2 ELSE 3]

\* AtomicSlot without any of the four departures.
Promised == INSTANCE AtomicSlot WITH
  Ids <- 0 .. IdSpan - 1, Requests <- Calls, Departures <- {},
  open <- OpenSlots, sel <- Selected, channels <- Channels, content <- Contents,
  request <- Requested, ret <- Returned, got <- Received

\* What the comments of message_slot.c promise to processes whose calls do not
\* overlap: a read from a channel the slot does not have, for one, fails
\* (message_slot.c:245-247: "Channel is fugazi", return -EINVAL).
PromisedSpec == Promised!Spec

MCSymmetry == Permutations(Procs) \cup Permutations(Minors)
==============================================================================
