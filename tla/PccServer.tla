------------------------------ MODULE PccServer ------------------------------
(***************************************************************************)
(* The printable characters counter (Assignment 5): pcc_server, its        *)
(* clients and the SIGINT that ends it.                                    *)
(*                                                                         *)
(* The server serves one client after the other with SIGINT blocked, so    *)
(* while it does, an action reaches from one socket call to the next;      *)
(* between two clients every point where the handler may run is an action  *)
(* of its own.  A connection may break, and a client may be killed, at any *)
(* time.  SIGINT is the only signal with a handler, so that no recv or     *)
(* send returns EINTR.  The four bytes of the size arrive together, and    *)
(* files hold no NUL.  What precedes line 304 is left out.                 *)
(***************************************************************************)
EXTENDS Integers, Sequences, FiniteSets, Functions

CONSTANTS
  Clients,
  Bytes, Chars,     \* the values of a char, and the printable ones
  File,             \* the lines of each client's file, without their newlines
  Leftovers,        \* what strlen may find in the heap behind the message
  Uninitialised,    \* what N_network may hold when nothing was received
  Width,            \* 2^32: the counters are taken modulo this number
  LISTEN_BACKLOG,
  None

ASSUME PccAssumption ==
  /\ IsFiniteSet(Clients) /\ IsFiniteSet(Chars) /\ Chars \subseteq Bytes
  /\ \A c \in Clients : File[c] \in Seq(Seq(Bytes)) \ {<<>>}
  /\ Leftovers \subseteq Seq(Bytes) /\ Uninitialised \subseteq Nat
  /\ Width \in Nat \ {0} /\ LISTEN_BACKLOG \in Nat \ {0}
  /\ None \notin Clients /\ None \notin Nat

VARIABLES
  pc,               \* where the server is, or how it ended
  sigint, client_flow,
  blocked, pending, \* the signal mask of the server and what waits behind it
  backlog, conn,    \* the connections not yet accepted, the one accepted
  N_host, chars_count,
  pcc_total, pcc_total_temp,
  client, sent,     \* how far each client has come, and what it has sent
  answer,           \* the count sent to each client
  interrupted,      \* history: a SIGINT has come
  counted,          \* history: what count_chars found in the last message
  credited          \* history: what was found in the message of each client
                    \* whose counts have become final

signals  == <<sigint, client_flow, blocked, pending, interrupted>>
counts   == <<pcc_total, pcc_total_temp, chars_count, counted, credited>>
sockets  == <<backlog, conn, answer>>
programs == <<client, sent>>
vars == <<pc, N_host, signals, counts, sockets, programs>>

Zero == [ch \in Chars |-> 0]
Ended == {"exit 0", "exit 1", "killed"}

Init ==
  /\ pc = "test"
  /\ sigint = FALSE /\ client_flow = FALSE
  /\ blocked = FALSE /\ pending = FALSE /\ interrupted = FALSE
  /\ backlog = <<>> /\ conn = None /\ answer = [c \in Clients |-> None]
  /\ N_host = 0 /\ chars_count = 0 /\ pcc_total = Zero /\ pcc_total_temp = Zero
  /\ client = [c \in Clients |-> "idle"] /\ sent = [c \in Clients |-> "nothing"]
  /\ counted = Zero /\ credited = [c \in Clients |-> Zero]

-----------------------------------------------------------------------------
(* The client: it announces the size of its file and sends the last line,  *)
(* since every newline resets the index into its buffer.                   *)

Size(c) ==
  LET size[i \in 0 .. Len(File[c])] ==
        IF i = 0 THEN -1 ELSE size[i - 1] + Len(File[c][i]) + 1
  IN  size[Len(File[c])]

Text(c) == File[c][Len(File[c])]

Connect(c) ==
  /\ client[c] = "idle"
  /\ \/ /\ pc \notin Ended /\ Len(backlog) < LISTEN_BACKLOG
        /\ backlog' = Append(backlog, c)
        /\ client' = [client EXCEPT ![c] = "open"]
     \/ /\ pc \in Ended
        /\ client' = [client EXCEPT ![c] = "failed"]
        /\ UNCHANGED backlog
  /\ UNCHANGED <<pc, N_host, signals, counts, conn, answer, sent>>

\* The server closed the connection without an answer.
Dropped(c) == answer[c] = None /\ c # conn /\ c \notin Range(backlog)

SendSize(c) ==
  /\ client[c] = "open" /\ sent[c] = "nothing" /\ ~Dropped(c)
  /\ sent' = [sent EXCEPT ![c] = "size"]
  /\ UNCHANGED <<pc, N_host, signals, counts, sockets, client>>

SendText(c) ==
  /\ client[c] = "open" /\ sent[c] = "size" /\ ~Dropped(c)
  /\ sent' = [sent EXCEPT ![c] = "text"]
  /\ UNCHANGED <<pc, N_host, signals, counts, sockets, client>>

PrintAnswer(c) ==
  /\ client[c] = "open" /\ sent[c] = "text" /\ answer[c] # None
  /\ client' = [client EXCEPT ![c] = "printed"]
  /\ UNCHANGED <<pc, N_host, signals, counts, sockets, sent>>

\* send or recv fails; or recv returns 0, and an uninitialised C is printed.
LoseServer(c) ==
  /\ client[c] = "open" /\ Dropped(c)
  /\ client' \in {[client EXCEPT ![c] = e] : e \in {"failed", "misled"}}
  /\ UNCHANGED <<pc, N_host, signals, counts, sockets, sent>>

KillClient(c) ==
  /\ client[c] = "open"
  /\ client' = [client EXCEPT ![c] = "gone"]
  /\ UNCHANGED <<pc, N_host, signals, counts, sockets, sent>>

-----------------------------------------------------------------------------
(* SIGINT. *)

\* sigint_handler, when client_flow is f.
Handled(f) == sigint \/ ~f

\* accept returns -1 when the handler interrupts it.
Interrupt ==
  /\ pc \notin Ended /\ interrupted' = TRUE
  /\ IF blocked THEN pending' = TRUE /\ UNCHANGED <<sigint, pc>>
     ELSE /\ sigint' = Handled(client_flow) /\ UNCHANGED pending
          /\ \/ UNCHANGED pc
             \/ pc = "accept" /\ backlog = <<>> /\ pc' = "accepted"
  /\ UNCHANGED <<client_flow, blocked, N_host, counts, sockets, programs>>

\* Altered form: client_flow is still 1 when the signal is let through.
UnblockFirst ==
  /\ blocked' = FALSE /\ client_flow' = FALSE /\ pending' = FALSE
  /\ sigint' = IF pending THEN Handled(TRUE) ELSE sigint
  /\ UNCHANGED interrupted

Unblock ==
  /\ blocked' = FALSE /\ client_flow' = FALSE /\ pending' = FALSE
  /\ sigint' = IF pending THEN Handled(FALSE) ELSE sigint
  /\ UNCHANGED interrupted

-----------------------------------------------------------------------------
(* message_loop. *)

End(how) == pc' = how /\ conn' = None /\ backlog' = <<>> /\ UNCHANGED answer

\* When the loop is left, the totals are printed.
LoopTest ==
  /\ pc = "test"
  /\ IF sigint THEN End("exit 0") /\ UNCHANGED client_flow
     ELSE pc' = "accept" /\ client_flow' = FALSE /\ UNCHANGED sockets
  /\ UNCHANGED <<sigint, blocked, pending, interrupted, N_host, counts, programs>>

Accept ==
  /\ pc = "accept" /\ pc' = "accepted"
  /\ \/ /\ backlog # <<>>
        /\ conn' = Head(backlog) /\ backlog' = Tail(backlog)
     \/ UNCHANGED <<conn, backlog>>     \* accept fails
  /\ UNCHANGED <<N_host, signals, counts, answer, programs>>

\* A SIGINT that came before this drops the client, and stays blocked.
BlockSigint ==
  /\ pc = "accepted" /\ UNCHANGED <<N_host, counts, programs>>
  /\ IF sigint
     THEN /\ blocked' = TRUE /\ End("exit 0")
          /\ UNCHANGED <<sigint, client_flow, pending, interrupted>>
     ELSE IF conn = None THEN End("exit 1") /\ Unblock
     ELSE /\ blocked' = TRUE /\ client_flow' = TRUE /\ pc' = "recv size"
          /\ UNCHANGED <<sigint, pending, interrupted, sockets>>

\* recv returns 0 when the client has gone without a word: N_network keeps what it
\* holds, and a size that malloc refuses makes memset crash.
RecvSize ==
  /\ pc = "recv size" /\ UNCHANGED <<signals, counts, programs>>
  /\ \/ /\ sent[conn] # "nothing"
        /\ pc' = "recv text" /\ N_host' = Size(conn) /\ UNCHANGED sockets
     \/ /\ sent[conn] = "nothing" /\ client[conn] = "gone"
        /\ \/ pc' = "recv text" /\ N_host' \in Uninitialised /\ UNCHANGED sockets
           \/ End("killed") /\ UNCHANGED N_host

Available(c) == IF sent[c] = "text" THEN Len(Text(c)) ELSE 0

\* Altered form: recv is repeated until something arrives.
ReceivedSomething(c) == {IF k < N_host THEN k ELSE N_host : k \in 1 .. Available(c)}

\* How many bytes recv may return: it waits for the first byte or the end.
Received(c) ==
  {IF k < N_host THEN k ELSE N_host : k \in 1 .. Available(c)}
    \cup (IF Available(c) = 0 /\ client[c] = "gone" THEN {0} ELSE {})

\* Altered form: the counters do not wrap.
CountWide(message) ==
  /\ counted' = [ch \in Chars |-> Cardinality({i \in DOMAIN message : message[i] = ch})]
  /\ pcc_total_temp' = [ch \in Chars |-> pcc_total_temp[ch] + counted'[ch]]
  /\ chars_count' = Cardinality({i \in DOMAIN message : message[i] \in Chars}) % Width

\* count_chars: a message that fills the buffer has no NUL behind it.
Count(message) ==
  /\ counted' = [ch \in Chars |-> Cardinality({i \in DOMAIN message : message[i] = ch})]
  /\ pcc_total_temp' = [ch \in Chars |-> (pcc_total_temp[ch] + counted'[ch]) % Width]
  /\ chars_count' = Cardinality({i \in DOMAIN message : message[i] \in Chars}) % Width

RecvText ==
  /\ pc = "recv text" /\ pc' = "send"
  /\ \E k \in Received(conn), over \in Leftovers :
       Count(SubSeq(Text(conn), 1, k) \o (IF k = N_host THEN over ELSE <<>>))
  /\ UNCHANGED <<N_host, signals, pcc_total, credited, sockets, programs>>

\* A send to a client that has gone succeeds.
Send ==
  /\ pc = "send" /\ pc' = "sent"
  /\ answer' = [answer EXCEPT ![conn] = chars_count]
  /\ UNCHANGED <<N_host, signals, counts, backlog, conn, programs>>

\* Altered form: what was counted stays in the temporary counts.
UndoNothing == UNCHANGED pcc_total_temp

Undo == pcc_total_temp' = pcc_total     \* duplicate_pcc_total(0)

\* The connection breaks: the errors called non-fatal.
BreakConnection ==
  /\ pc \in {"recv size", "recv text", "send"}
  /\ IF pc = "send" THEN Undo ELSE UNCHANGED pcc_total_temp
  /\ pc' = "test" /\ conn' = None /\ Unblock
  /\ UNCHANGED <<N_host, pcc_total, chars_count, counted, credited, backlog, answer,
                 programs>>

\* Any other error; and EPIPE, which comes with a SIGPIPE nobody handles.
Fail ==
  /\ pc \in {"recv size", "recv text", "send"}
  /\ \/ End("exit 1") /\ Unblock
     \/ pc = "send" /\ End("killed") /\ UNCHANGED signals
  /\ UNCHANGED <<N_host, counts, programs>>

\* close and duplicate_pcc_total(1).
Commit ==
  /\ pc = "sent" /\ pc' = "test" /\ conn' = None
  /\ pcc_total' = pcc_total_temp
  /\ credited' = [credited EXCEPT ![conn] = counted]
  /\ Unblock
  /\ UNCHANGED <<N_host, pcc_total_temp, chars_count, counted, backlog, answer,
                 programs>>

-----------------------------------------------------------------------------

Server == \/ LoopTest \/ Accept \/ BlockSigint
          \/ RecvSize \/ RecvText \/ Send \/ Commit

ClientStep(c) == SendSize(c) \/ SendText(c) \/ PrintAnswer(c) \/ LoseServer(c)

Next ==
  \/ Server \/ BreakConnection \/ Fail \/ Interrupt
  \/ \E c \in Clients : ClientStep(c) \/ Connect(c) \/ KillClient(c)

Spec == Init /\ [][Next]_vars

\* The scheduler runs every process that can go on; nobody has to connect.
FairSpec ==
  Spec /\ WF_vars(Server) /\ \A c \in Clients : WF_vars(ClientStep(c))

-----------------------------------------------------------------------------

Sum(f) == FoldFunction(LAMBDA a, b : a + b, 0, f)

Counters == [Chars -> 0 .. Width - 1]

\* The counters stay within their width, and the connection that is served is no
\* longer in the backlog.
TypeOK ==
  /\ pc \in Ended \cup {"test", "accept", "accepted", "recv size", "recv text",
                        "send", "sent"}
  /\ {sigint, client_flow, blocked, pending, interrupted} \subseteq BOOLEAN
  /\ backlog \in Seq(Clients) /\ Len(backlog) <= LISTEN_BACKLOG
  /\ conn \in (Clients \cup {None}) \ Range(backlog)
  /\ N_host \in Nat /\ chars_count \in 0 .. Width - 1
  /\ pcc_total \in Counters /\ pcc_total_temp \in Counters
  /\ client \in [Clients -> {"idle", "open", "printed", "failed", "misled", "gone"}]
  /\ sent \in [Clients -> {"nothing", "size", "text"}]
  /\ answer \in [Clients -> (0 .. Width - 1) \cup {None}]
  /\ counted \in [Chars -> Nat] /\ credited \in [Clients -> [Chars -> Nat]]

\* What was counted for a client that failed is undone before the next one.
NothingLeft == pc \notin {"send", "sent"} \cup Ended => pcc_total_temp = pcc_total

\* The totals the server prints are the sum of what it found for the clients whose
\* connection ended successfully, and nothing of a client that failed is left
\* anywhere when the next one is served (pcc_server.c:47-52: "undo the cound").
TotalsExact ==
  /\ \A ch \in Chars :
       pcc_total[ch] = Sum([c \in Clients |-> credited[c][ch]]) % Width
  /\ NothingLeft

\* A SIGINT is never lost: it is either known to the loop, and then no client is
\* being served, or waits until the one being served is done (pcc_server.c:146,
\* 150, 240-241).
SigintHonoured ==
  interrupted /\ pc \notin Ended =>
    (sigint /\ ~client_flow) \/ (pending /\ blocked /\ client_flow)

\* Who has connected is answered in the end, or learns that the server dropped the
\* connection (pcc_client.c:27-28: "sends its size and content to the server and
\* afterwards receives the number of printable characters").
ExchangeEnds == \A c \in Clients : client[c] = "open" ~> client[c] # "open"
==============================================================================
