----------------------------- MODULE AtomicSlot ------------------------------
(***************************************************************************)
(* Message slots for processes that do not call them at the same time:     *)
(* every call takes effect in one step between the request and the answer. *)
(*                                                                         *)
(* With Departures = {} this is what the comments of message_slot.c and    *)
(* message_slot.h promise.  The driver departs from it in four ways, and   *)
(* Departures names those that are admitted:                               *)
(*   "uninitialised"  a file refers to some channel before it chose one    *)
(*   "narrow"         channel numbers are taken modulo IdSpan              *)
(*   "quarter"        a slot takes Capacity channels, not CHANNELS_LIMIT   *)
(*   "oops"           a read from a channel the slot does not have kills   *)
(*                    the process instead of failing with EINVAL           *)
(***************************************************************************)
EXTENDS Naturals, Sequences, FiniteSets

CONSTANTS
  Procs, Minors, Ids, Messages, Length,
  Requests,         \* pairs of a call and its argument
  Departures, IdSpan, Capacity,
  CHANNELS_LIMIT,   \* the most channels a slot is to take
  BUFFER_LENGTH, None

VARIABLES
  open,             \* the slot each process has open, or None
  sel,              \* the channel its file refers to, 0 for none
  channels,         \* the channels of each slot
  content,          \* the last message written to each channel, or None
  request, ret, got \* the call a process waits for; how the last one ended

vars == <<open, sel, channels, content, request, ret, got>>

NoRequest == [call |-> None, arg |-> 0]

Init ==
  /\ open = [p \in Procs |-> None] /\ sel = [p \in Procs |-> 0]
  /\ channels = [m \in Minors |-> {}]
  /\ content = [x \in Minors \X Ids |-> None]
  /\ request = [p \in Procs |-> NoRequest]
  /\ ret = [p \in Procs |-> "none"] /\ got = [p \in Procs |-> <<>>]

Number(c) == IF "narrow" \in Departures THEN c % IdSpan ELSE c

Limit == IF "quarter" \in Departures THEN Capacity ELSE CHANNELS_LIMIT

Unchosen == IF "uninitialised" \in Departures THEN Ids ELSE {0}

Quiet(p) == request[p] = NoRequest
Asks(p, call) == request[p].call = call
Has(p) == sel[p] \in channels[open[p]]
Message(p) == content[<<open[p], sel[p]>>]

Outcome(p, r, bytes) ==
  /\ ret' = [ret EXCEPT ![p] = r]
  /\ got' = [got EXCEPT ![p] = bytes]

Answer(p, r, bytes) ==
  Outcome(p, r, bytes) /\ request' = [request EXCEPT ![p] = NoRequest]

Open(p, m) ==
  /\ Quiet(p) /\ open[p] = None
  /\ open' = [open EXCEPT ![p] = m]
  /\ \E c \in Unchosen : sel' = [sel EXCEPT ![p] = c]
  /\ Outcome(p, "none", <<>>)
  /\ UNCHANGED <<channels, content, request>>

Release(p) ==
  /\ Quiet(p) /\ open[p] # None
  /\ open' = [open EXCEPT ![p] = None] /\ sel' = [sel EXCEPT ![p] = 0]
  /\ Outcome(p, "none", <<>>)
  /\ UNCHANGED <<channels, content, request>>

Ask(p, r) ==
  /\ Quiet(p) /\ open[p] # None
  /\ request' = [request EXCEPT ![p] = [call |-> r[1], arg |-> r[2]]]
  /\ Outcome(p, "none", <<>>)
  /\ UNCHANGED <<open, sel, channels, content>>

Choose(p) ==
  /\ Asks(p, "ioctl") /\ request[p].arg # 0
  /\ sel' = [sel EXCEPT ![p] = Number(request[p].arg)]
  /\ UNCHANGED <<open, channels, content, request, ret, got>>

AnswerIoctl(p) ==
  LET c == request[p].arg
      chosen == c # 0 /\ sel[p] = Number(c)
      noRoom == Cardinality(channels[open[p]]) >= Limit
  IN
  /\ Asks(p, "ioctl")
  /\ \/ c = 0 /\ Answer(p, "EINVAL", <<>>) /\ UNCHANGED channels
     \/ /\ chosen /\ ~Has(p) /\ noRoom
        /\ Answer(p, "EPERM", <<>>) /\ UNCHANGED channels
     \/ /\ chosen /\ (Has(p) \/ ~noRoom)
        /\ channels' = [channels EXCEPT ![open[p]] = @ \cup {sel[p]}]
        /\ Answer(p, "OK", <<>>)
  /\ UNCHANGED <<open, sel, content>>

AnswerWrite(p) ==
  LET w == request[p].arg
  IN
  /\ Asks(p, "write")
  /\ \/ sel[p] = 0 /\ Answer(p, "EINVAL", <<>>) /\ UNCHANGED content
     \/ /\ sel[p] # 0 /\ Length[w] \notin 1 .. BUFFER_LENGTH
        /\ Answer(p, "EMSGSIZE", <<>>) /\ UNCHANGED content
     \/ /\ sel[p] # 0 /\ Length[w] \in 1 .. BUFFER_LENGTH /\ ~Has(p)
        /\ Answer(p, "EINVAL", <<>>) /\ UNCHANGED content
     \/ /\ sel[p] # 0 /\ Length[w] \in 1 .. BUFFER_LENGTH /\ Has(p)
        /\ content' = [content EXCEPT ![<<open[p], sel[p]>>] = w]
        /\ Answer(p, "OK", <<>>)
  /\ UNCHANGED <<open, sel, channels>>

AnswerRead(p) ==
  LET length == request[p].arg
      w == Message(p)
  IN
  /\ Asks(p, "read")
  /\ \/ length \notin 1 .. BUFFER_LENGTH /\ Answer(p, "EMSGSIZE", <<>>)
     \/ /\ length \in 1 .. BUFFER_LENGTH /\ ~Has(p)
        /\ "oops" \notin Departures /\ Answer(p, "EINVAL", <<>>)
     \/ /\ length \in 1 .. BUFFER_LENGTH /\ Has(p)
        /\ \/ w = None /\ Answer(p, "EWOULDBLOCK", <<>>)
           \/ w # None /\ Length[w] > length /\ Answer(p, "ENOSPC", <<>>)
           \/ /\ w # None /\ Length[w] <= length
              /\ Answer(p, "OK", [i \in 1 .. Length[w] |-> w])
  /\ UNCHANGED <<open, sel, channels, content>>

Oops(p) ==
  /\ "oops" \in Departures
  /\ Asks(p, "read") /\ request[p].arg \in 1 .. BUFFER_LENGTH /\ ~Has(p)
  /\ open' = [open EXCEPT ![p] = None] /\ sel' = [sel EXCEPT ![p] = 0]
  /\ Answer(p, "none", <<>>)
  /\ UNCHANGED <<channels, content>>

Unload ==
  /\ \A p \in Procs : open[p] = None /\ Quiet(p)
  /\ channels' = [m \in Minors |-> {}]
  /\ content' = [x \in Minors \X Ids |-> None]
  /\ UNCHANGED <<open, sel, request, ret, got>>

Next ==
  \/ Unload
  \/ \E p \in Procs :
       \/ \E m \in Minors : Open(p, m)
       \/ \E r \in Requests : Ask(p, r)
       \/ Release(p) \/ Choose(p)
       \/ AnswerIoctl(p) \/ AnswerWrite(p) \/ AnswerRead(p) \/ Oops(p)

Spec == Init /\ [][Next]_vars
==============================================================================
