--------------------------- MODULE PccServerProofs ---------------------------
(***************************************************************************)
(* What the server does with SIGINT, and what it counts, for all clients,  *)
(* files and widths.                                                       *)
(***************************************************************************)
EXTENDS PccServer, DataInduction, TLAPS

Serving == {"recv size", "recv text", "send", "sent"}

\* The signal mask and client_flow change together with the place in the loop.
ServingBlocks == /\ blocked <=> pc \in Serving
                 /\ client_flow <=> pc \in Serving

\* Where a SIGINT that has come is remembered.
Remembered == /\ interrupted => sigint \/ pending
              /\ pending => pc \in Serving
              /\ sigint => pc \notin Serving

\* The inductive invariant.  Nothing of it is needed of a server that has ended,
\* since it does not run again.
SInv == pc \notin Ended => ServingBlocks /\ Remembered

\* A step that leaves the signals alone and the server in the same part of its
\* loop, or ends the server.
Quiet ==
  \/ pc' \in Ended
  \/ UNCHANGED signals /\ pc \notin Ended /\ (pc \in Serving <=> pc' \in Serving)

\* A step of a client disturbs nothing.
LEMMA ClientsAreQuiet ==
  ASSUME SInv, NEW c \in Clients, ClientStep(c) \/ Connect(c) \/ KillClient(c)
  PROVE  SInv'
<1>1. UNCHANGED <<pc, signals>>
  BY DEF ClientStep, SendSize, SendText, PrintAnswer, LoseServer, Connect, KillClient
<1> QED
  BY <1>1 DEF SInv, ServingBlocks, Remembered, signals

\* A quiet step of the server keeps the invariant.
LEMMA QuietKeepsSInv ==
  ASSUME SInv, Quiet
  PROVE  SInv'
BY DEF SInv, Quiet, ServingBlocks, Remembered, signals

\* A step that lets SIGINT through and goes back to the test keeps it: what was
\* pending is handled while client_flow is 0.
LEMMA UnblockKeepsSInv ==
  ASSUME SInv, pc \in Serving, pc' = "test", Unblock
  PROVE  SInv'
<1>1. pc \notin Ended /\ pc' \notin Serving
  BY DEF Serving, Ended
<1>2. ~blocked' /\ ~client_flow' /\ ~pending' /\ interrupted' = interrupted
  BY DEF Unblock
<1>3. pending => sigint'
  BY DEF Unblock, Handled
<1>4. ~pending => sigint' = sigint
  BY DEF Unblock
<1>5. interrupted' => sigint'
  BY <1>1, <1>2, <1>3, <1>4 DEF SInv, Remembered
<1> QED
  BY <1>1, <1>2, <1>5 DEF SInv, ServingBlocks, Remembered

\* A SIGINT is recorded in sigint or stays pending.
LEMMA InterruptKeepsSInv ==
  ASSUME SInv, Interrupt
  PROVE  SInv'
<1>1. pc \notin Ended /\ client_flow' = client_flow /\ blocked' = blocked
  BY DEF Interrupt
<1>2. ServingBlocks /\ Remembered
  BY <1>1 DEF SInv
<1>3. CASE blocked
  <2>1. pending' = TRUE /\ sigint' = sigint /\ pc' = pc
    BY <1>3 DEF Interrupt
  <2> QED
    BY <1>1, <1>2, <1>3, <2>1 DEF SInv, ServingBlocks, Remembered
<1>4. CASE ~blocked
  <2>1. sigint' /\ pending' = pending
    BY <1>2, <1>4 DEF Interrupt, Handled, ServingBlocks
  <2>2. pc \notin Serving /\ pc' \notin Serving
    BY <1>2, <1>4 DEF Interrupt, ServingBlocks, Serving
  <2> QED
    BY <1>1, <1>2, <2>1, <2>2 DEF SInv, ServingBlocks, Remembered
<1> QED
  BY <1>3, <1>4

\* The server begins to serve only when no SIGINT is known, and from then on
\* every SIGINT waits.
LEMMA BlockSigintKeepsSInv ==
  ASSUME SInv, BlockSigint
  PROVE  SInv'
<1>1. pc = "accepted"
  BY DEF BlockSigint
<1>2. CASE sigint \/ conn = None
  BY <1>2 DEF BlockSigint, End, Ended, SInv
<1>3. CASE ~sigint /\ conn # None
  <2>1. /\ blocked' = TRUE /\ client_flow' = TRUE /\ pc' = "recv size"
        /\ UNCHANGED <<sigint, pending, interrupted>>
    BY <1>3 DEF BlockSigint
  <2> QED
    BY <1>1, <1>3, <2>1 DEF SInv, ServingBlocks, Remembered, Serving, Ended
<1> QED
  BY <1>2, <1>3

\* Every step keeps the invariant.
LEMMA SInvNext == SInv /\ [Next]_vars => SInv'
<1> SUFFICES ASSUME SInv, [Next]_vars PROVE SInv'
  OBVIOUS
<1>1. CASE LoopTest
  <2>1. pc = "test" /\ pc \notin Serving /\ pc \notin Ended
    BY <1>1 DEF LoopTest, Serving, Ended
  <2>2. CASE sigint
    BY <1>1, <2>2 DEF LoopTest, End, Ended, SInv
  <2>3. CASE ~sigint
    <3>1. /\ pc' = "accept" /\ client_flow' = FALSE
          /\ UNCHANGED <<sigint, blocked, pending, interrupted>>
      BY <1>1, <2>3 DEF LoopTest
    <3> QED
      BY <2>1, <3>1 DEF SInv, ServingBlocks, Remembered, Serving, Ended
  <2> QED
    BY <2>2, <2>3
<1>2. CASE Accept
  <2>1. Quiet
    BY <1>2 DEF Accept, Quiet, Serving, Ended
  <2> QED
    BY <2>1, QuietKeepsSInv
<1>3. CASE BlockSigint
  BY <1>3, BlockSigintKeepsSInv
<1>4. CASE RecvSize
  <2>1. Quiet
    BY <1>4 DEF RecvSize, End, Quiet, Serving, Ended
  <2> QED
    BY <2>1, QuietKeepsSInv
<1>5. CASE RecvText
  <2>1. Quiet
    BY <1>5 DEF RecvText, Quiet, Serving, Ended
  <2> QED
    BY <2>1, QuietKeepsSInv
<1>6. CASE Send
  <2>1. Quiet
    BY <1>6 DEF Send, Quiet, Serving, Ended
  <2> QED
    BY <2>1, QuietKeepsSInv
<1>7. CASE Commit
  BY <1>7, UnblockKeepsSInv DEF Commit, Serving
<1>8. CASE BreakConnection
  BY <1>8, UnblockKeepsSInv DEF BreakConnection, Serving
<1>9. CASE Fail
  BY <1>9, QuietKeepsSInv DEF Fail, End, Quiet, Ended
<1>10. CASE Interrupt
  BY <1>10, InterruptKeepsSInv
<1>11. ASSUME NEW c \in Clients, ClientStep(c) \/ Connect(c) \/ KillClient(c)
       PROVE  SInv'
  BY <1>11, ClientsAreQuiet
<1>12. CASE UNCHANGED vars
  BY <1>12 DEF vars, signals, SInv, ServingBlocks, Remembered
<1> QED
  BY <1>1, <1>2, <1>3, <1>4, <1>5, <1>6, <1>7, <1>8, <1>9, <1>10, <1>11, <1>12
     DEF Next, Server

\* A SIGINT is never lost, whenever it comes: the loop knows of it while no client
\* is served, and otherwise it waits until the client is done
\* (pcc_server.c:27-38, 146-160, 240-242).
THEOREM SigintIsHonoured == Spec => []SigintHonoured
<1>1. Init => SInv
  BY DEF Init, SInv, ServingBlocks, Remembered, Serving
<1>2. SInv => SigintHonoured
  BY DEF SInv, SigintHonoured, ServingBlocks, Remembered
<1> QED
  BY <1>1, <1>2, SInvNext, PTL DEF Spec

-----------------------------------------------------------------------------
(* The counts of a client that failed. *)

\* Every step commits or undoes what was counted before it takes up a new client.
LEMMA NothingLeftNext == NothingLeft /\ [Next]_vars => NothingLeft'
<1> SUFFICES ASSUME NothingLeft, [Next]_vars PROVE NothingLeft'
  OBVIOUS
<1>1. ASSUME UNCHANGED counts,
             \/ pc' = pc \/ pc' \in Ended \cup {"sent"}
             \/ pc \notin {"send", "sent"} \cup Ended
      PROVE  NothingLeft'
  BY <1>1 DEF NothingLeft, counts
<1>2. CASE LoopTest
  BY <1>1, <1>2 DEF LoopTest, Ended
<1>3. CASE Accept
  BY <1>1, <1>3 DEF Accept, Ended
<1>4. CASE BlockSigint
  BY <1>1, <1>4 DEF BlockSigint, Ended
<1>5. CASE RecvSize
  BY <1>1, <1>5 DEF RecvSize, Ended
<1>6. CASE RecvText
  BY <1>6 DEF RecvText, NothingLeft
<1>7. CASE Send
  BY <1>1, <1>7 DEF Send
<1>8. CASE Commit
  BY <1>8 DEF Commit, NothingLeft
<1>9. CASE BreakConnection
  BY <1>9 DEF BreakConnection, Undo, NothingLeft, Ended
<1>10. CASE Fail
  BY <1>1, <1>10 DEF Fail, End, Ended
<1>11. CASE Interrupt
  BY <1>1, <1>11 DEF Interrupt, Ended
<1>12. ASSUME NEW c \in Clients, ClientStep(c) \/ Connect(c) \/ KillClient(c)
       PROVE  NothingLeft'
  BY <1>1, <1>12
     DEF ClientStep, SendSize, SendText, PrintAnswer, LoseServer, Connect, KillClient
<1>13. CASE UNCHANGED vars
  BY <1>1, <1>13 DEF vars
<1> QED
  BY <1>2, <1>3, <1>4, <1>5, <1>6, <1>7, <1>8, <1>9, <1>10, <1>11, <1>12, <1>13
     DEF Next, Server

\* Whenever the server may take up a new client, the temporary counts are the final
\* ones: a message that was counted is either committed or undone
\* (pcc_server.c:47-66, 224, 237).
THEOREM NothingIsLeft == Spec => []NothingLeft
<1>1. Init => NothingLeft
  BY DEF Init, NothingLeft
<1> QED
  BY <1>1, NothingLeftNext, PTL DEF Spec

-----------------------------------------------------------------------------
(* The types, and who is where. *)

\* The size a client announces is a number: each line brings its newline, and there
\* is at least one.
LEMMA SizeType ==
  ASSUME NEW c \in Clients
  PROVE  Size(c) \in Nat
<1> DEFINE lines == File[c]
           Grows(n, g) ==
             g = [i \in 0 .. n |-> IF i = 0 THEN -1 ELSE g[i - 1] + Len(lines[i]) + 1]
           N == {n \in Nat : \E g : Grows(n, g)}
<1>1. Len(lines) \in Nat \ {0} /\ \A i \in 1 .. Len(lines) : Len(lines[i]) \in Nat
  BY PccAssumption
<1>2. 0 \in N
  <2>1. Grows(0, [i \in 0 .. 0 |-> -1])
    OBVIOUS
  <2> QED
    BY <2>1
<1>3. ASSUME NEW n \in N PROVE n + 1 \in N
  <2>1. PICK g : Grows(n, g)
    OBVIOUS
  <2> DEFINE h == [i \in 0 .. n + 1 |->
                     IF i \in 0 .. n THEN g[i] ELSE g[n] + Len(lines[i]) + 1]
  <2>2. \A i \in 0 .. n : g[i] = IF i = 0 THEN -1 ELSE g[i - 1] + Len(lines[i]) + 1
    BY <2>1
  <2>3. ASSUME NEW i \in 0 .. n + 1
        PROVE  h[i] = IF i = 0 THEN -1 ELSE h[i - 1] + Len(lines[i]) + 1
    BY <2>2
  <2>4. h = [i \in 0 .. n + 1 |-> h[i]]
    OBVIOUS
  <2> HIDE DEF h
  <2>5. Grows(n + 1, h)
    BY <2>3, <2>4
  <2> HIDE DEF Grows
  <2> QED
    BY <2>5
<1>4. N = Nat
  <2> HIDE DEF N
  <2>1. N \subseteq Nat
    BY DEF N
  <2> QED
    BY <1>2, <1>3, <2>1, NatSetInduction
<1> DEFINE size == CHOOSE g : Grows(Len(lines), g)
<1>5. Grows(Len(lines), size)
  BY <1>1, <1>4
<1>6. Size(c) = size[Len(lines)]
  BY DEF Size
<1> HIDE DEF size
<1> DEFINE M == {n \in Nat : n <= Len(lines) => size[n] \in Int /\ size[n] >= n - 1}
<1>7. 0 \in M
  BY <1>1, <1>5
<1>8. ASSUME NEW n \in M PROVE n + 1 \in M
  <2> SUFFICES ASSUME n + 1 <= Len(lines)
               PROVE  size[n + 1] \in Int /\ size[n + 1] >= n
    OBVIOUS
  <2>1. size[n + 1] = size[n] + Len(lines[n + 1]) + 1
    BY <1>1, <1>5
  <2>2. Len(lines[n + 1]) \in Nat
    BY <1>1
  <2> QED
    BY <1>1, <2>1, <2>2
<1>9. M = Nat
  <2> HIDE DEF M
  <2>1. M \subseteq Nat
    BY DEF M
  <2> QED
    BY <1>7, <1>8, <2>1, NatSetInduction
<1> QED
  BY <1>1, <1>6, <1>9

\* How often each character occurs in a message, and how often any of them does.
LEMMA CountsType ==
  ASSUME NEW message \in Seq(Bytes)
  PROVE  /\ \A ch \in Chars : Cardinality({i \in DOMAIN message : message[i] = ch}) \in Nat
         /\ Cardinality({i \in DOMAIN message : message[i] \in Chars}) \in Nat
         /\ IsFiniteSet(DOMAIN message)
<1>1. IsFiniteSet(DOMAIN message)
  BY FS_Interval
<1>2. \A s \in SUBSET DOMAIN message : Cardinality(s) \in Nat
  BY <1>1, FS_Subset, FS_CardinalityType
<1> QED
  BY <1>1, <1>2

\* A remainder is below its divisor.
LEMMA InWidth == \A n \in Nat : n % Width \in 0 .. Width - 1
BY PccAssumption

\* What count_chars is given is a sequence of bytes.
LEMMA MessageType ==
  ASSUME NEW c \in Clients, NEW k \in Received(c), NEW over \in Leftovers, N_host \in Nat
  PROVE  SubSeq(Text(c), 1, k) \o (IF k = N_host THEN over ELSE <<>>) \in Seq(Bytes)
<1>1. Text(c) \in Seq(Bytes)
  BY PccAssumption DEF Text
<1>2. Len(Text(c)) \in Nat
  BY <1>1
<1>3. k \in 0 .. Len(Text(c))
  <2>1. Available(c) \in 0 .. Len(Text(c))
    BY <1>2 DEF Available
  <2> HIDE DEF Available
  <2> QED
    BY <1>2, <2>1 DEF Received
<1>4. SubSeq(Text(c), 1, k) \in Seq(Bytes)
  BY <1>1, <1>3
<1>5. over \in Seq(Bytes) /\ <<>> \in Seq(Bytes)
  BY PccAssumption
<1> QED
  BY <1>4, <1>5

\* What entering and leaving the backlog does to it.
LEMMA BacklogGrows ==
  ASSUME NEW s \in Seq(Clients), NEW c \in Clients
  PROVE  /\ Append(s, c) \in Seq(Clients) /\ Len(Append(s, c)) = Len(s) + 1
         /\ Range(Append(s, c)) = Range(s) \cup {c}
         /\ c \notin Range(s) /\ IsInjective(s) => IsInjective(Append(s, c))
<1>1. /\ Append(s, c) \in Seq(Clients) /\ Len(Append(s, c)) = Len(s) + 1
      /\ DOMAIN s = 1 .. Len(s) /\ DOMAIN Append(s, c) = 1 .. Len(s) + 1
      /\ \A i \in 1 .. Len(s) : Append(s, c)[i] = s[i]
      /\ Append(s, c)[Len(s) + 1] = c
  OBVIOUS
<1> DEFINE t == Append(s, c)
<1> HIDE DEF t
<1>2. Range(t) = Range(s) \cup {c}
  <2>1. 1 .. Len(s) + 1 = (1 .. Len(s)) \cup {Len(s) + 1}
    OBVIOUS
  <2> QED
    BY <1>1, <2>1 DEF Range, t
<1>3. c \notin Range(s) /\ IsInjective(s) => IsInjective(t)
  BY <1>1 DEF Range, IsInjective, t
<1> QED
  BY <1>1, <1>2, <1>3 DEF t

LEMMA BacklogShrinks ==
  ASSUME NEW s \in Seq(Clients), s # <<>>
  PROVE  /\ Head(s) \in Clients /\ Tail(s) \in Seq(Clients) /\ Len(Tail(s)) = Len(s) - 1
         /\ Range(Tail(s)) \subseteq Range(s) /\ Head(s) \in Range(s)
         /\ IsInjective(s) => Head(s) \notin Range(Tail(s)) /\ IsInjective(Tail(s))
<1>1. /\ Head(s) \in Clients /\ Tail(s) \in Seq(Clients) /\ Len(Tail(s)) = Len(s) - 1
      /\ DOMAIN s = 1 .. Len(s) /\ DOMAIN Tail(s) = 1 .. Len(s) - 1
      /\ Head(s) = s[1] /\ Len(s) \in Nat \ {0}
      /\ \A i \in 1 .. Len(s) - 1 : Tail(s)[i] = s[i + 1]
  OBVIOUS
<1> QED
  BY <1>1 DEF Range, IsInjective

\* The parts of TypeOK: what the signals, the counters and the sockets hold.
SignalsOK == {sigint, client_flow, blocked, pending, interrupted} \subseteq BOOLEAN

CountsOK ==
  /\ N_host \in Nat /\ chars_count \in 0 .. Width - 1
  /\ pcc_total \in Counters /\ pcc_total_temp \in Counters
  /\ counted \in [Chars -> Nat] /\ credited \in [Clients -> [Chars -> Nat]]

SocketsOK ==
  /\ pc \in Ended \cup {"test", "accept", "accepted", "recv size", "recv text",
                        "send", "sent"}
  /\ backlog \in Seq(Clients) /\ Len(backlog) <= LISTEN_BACKLOG
  /\ conn \in (Clients \cup {None}) \ Range(backlog)
  /\ client \in [Clients -> {"idle", "open", "printed", "failed", "misled", "gone"}]
  /\ sent \in [Clients -> {"nothing", "size", "text"}]
  /\ answer \in [Clients -> (0 .. Width - 1) \cup {None}]

\* A client waits in the backlog once, and only after it has connected; the server
\* has a connection while it serves, and none when it is about to accept one.
Queue ==
  /\ IsInjective(backlog)
  /\ \A c \in Clients : client[c] = "idle" => c \notin Range(backlog) /\ c # conn
  /\ pc \in {"test", "accept"} \cup Ended => conn = None
  /\ pc \in Serving => conn # None

TypeInv == SignalsOK /\ CountsOK /\ SocketsOK /\ Queue

\* The steps that leave the signals, or the counters, alone.
LEMMA SignalsNext == TypeInv /\ [Next]_vars => SignalsOK'
<1> SUFFICES ASSUME TypeInv, [Next]_vars PROVE SignalsOK'
  OBVIOUS
<1>1. /\ sigint \in BOOLEAN /\ client_flow \in BOOLEAN /\ blocked \in BOOLEAN
      /\ pending \in BOOLEAN /\ interrupted \in BOOLEAN
  BY DEF TypeInv, SignalsOK
<1>2. ASSUME UNCHANGED signals PROVE SignalsOK'
  BY <1>2 DEF TypeInv, SignalsOK, signals
<1>3. ASSUME Unblock PROVE SignalsOK'
  BY <1>1, <1>3 DEF Unblock, Handled, SignalsOK
<1>4. CASE LoopTest
  BY <1>1, <1>4 DEF LoopTest, SignalsOK
<1>5. CASE BlockSigint
  BY <1>1, <1>3, <1>5 DEF BlockSigint, SignalsOK
<1>6. CASE Interrupt
  BY <1>1, <1>6 DEF Interrupt, Handled, SignalsOK
<1>7. CASE Accept \/ RecvSize \/ RecvText \/ Send
  BY <1>2, <1>7 DEF Accept, RecvSize, RecvText, Send
<1>8. CASE Commit \/ BreakConnection \/ Fail
  BY <1>2, <1>3, <1>8 DEF Commit, BreakConnection, Fail
<1>9. ASSUME NEW c \in Clients, ClientStep(c) \/ Connect(c) \/ KillClient(c)
      PROVE  SignalsOK'
  BY <1>2, <1>9
     DEF ClientStep, SendSize, SendText, PrintAnswer, LoseServer, Connect, KillClient
<1>10. CASE UNCHANGED vars
  BY <1>2, <1>10 DEF vars
<1> QED
  BY <1>4, <1>5, <1>6, <1>7, <1>8, <1>9, <1>10 DEF Next, Server

\* Counting a message keeps the counters within their width.
LEMMA CountType ==
  ASSUME CountsOK, NEW message \in Seq(Bytes), Count(message)
  PROVE  /\ counted' \in [Chars -> Nat] /\ pcc_total_temp' \in Counters
         /\ chars_count' \in 0 .. Width - 1
<1>1. counted' \in [Chars -> Nat]
  BY CountsType DEF Count
<1>2. pcc_total_temp' \in Counters
  <2>1. \A ch \in Chars : pcc_total_temp[ch] + counted'[ch] \in Nat
    BY <1>1, PccAssumption DEF CountsOK, Counters
  <2> QED
    BY <2>1, InWidth DEF Count, Counters
<1>3. chars_count' \in 0 .. Width - 1
  BY CountsType, InWidth DEF Count
<1> QED
  BY <1>1, <1>2, <1>3

LEMMA CountsNext == TypeInv /\ [Next]_vars => CountsOK'
<1> SUFFICES ASSUME TypeInv, [Next]_vars PROVE CountsOK'
  OBVIOUS
<1>1. CountsOK /\ (pc \in Serving => conn \in Clients)
  BY DEF TypeInv, SocketsOK, Queue
<1>2. ASSUME UNCHANGED <<N_host, counts>> PROVE CountsOK'
  BY <1>1, <1>2 DEF CountsOK, counts
<1>3. CASE RecvSize
  <2>1. N_host' \in Nat
    BY <1>1, <1>3, SizeType, PccAssumption DEF RecvSize, CountsOK, Serving
  <2> QED
    BY <1>1, <1>3, <2>1 DEF RecvSize, CountsOK, counts
<1>4. CASE RecvText
  <2>1. PICK k \in Received(conn), over \in Leftovers :
          Count(SubSeq(Text(conn), 1, k) \o (IF k = N_host THEN over ELSE <<>>))
    BY <1>4 DEF RecvText
  <2>2. SubSeq(Text(conn), 1, k) \o (IF k = N_host THEN over ELSE <<>>) \in Seq(Bytes)
    BY <1>1, <1>4, MessageType DEF RecvText, Serving, CountsOK
  <2>3. UNCHANGED <<N_host, pcc_total, credited>>
    BY <1>4 DEF RecvText
  <2> QED
    BY <1>1, <2>1, <2>2, <2>3, CountType DEF CountsOK
<1>5. CASE Commit
  <2>1. conn \in Clients
    BY <1>1, <1>5 DEF Commit, Serving
  <2> QED
    BY <1>1, <1>5, <2>1 DEF Commit, CountsOK
<1>6. CASE BreakConnection
  BY <1>1, <1>6 DEF BreakConnection, Undo, CountsOK
<1>7. CASE LoopTest \/ Accept \/ BlockSigint \/ Send \/ Fail \/ Interrupt
  BY <1>2, <1>7 DEF LoopTest, Accept, BlockSigint, Send, Fail, Interrupt
<1>8. ASSUME NEW c \in Clients, ClientStep(c) \/ Connect(c) \/ KillClient(c)
      PROVE  CountsOK'
  BY <1>2, <1>8
     DEF ClientStep, SendSize, SendText, PrintAnswer, LoseServer, Connect, KillClient
<1>9. CASE UNCHANGED vars
  BY <1>2, <1>9 DEF vars
<1> QED
  BY <1>3, <1>4, <1>5, <1>6, <1>7, <1>8, <1>9 DEF Next, Server

LEMMA SocketsNext == TypeInv /\ [Next]_vars => SocketsOK' /\ Queue'
<1> SUFFICES ASSUME TypeInv, [Next]_vars PROVE SocketsOK' /\ Queue'
  OBVIOUS
<1>1. SocketsOK /\ Queue
  BY DEF TypeInv
<1>0. /\ LISTEN_BACKLOG \in Nat /\ Len(backlog) \in Nat /\ Len(backlog) <= LISTEN_BACKLOG
      /\ None \notin Range(backlog)
  <2>1. backlog \in Seq(Clients) /\ Len(backlog) <= LISTEN_BACKLOG
    BY <1>1 DEF SocketsOK
  <2>2. LISTEN_BACKLOG \in Nat /\ None \notin Clients
    BY PccAssumption
  <2>3. Len(backlog) \in Nat /\ \A i \in DOMAIN backlog : backlog[i] \in Clients
    BY <2>1
  <2> QED
    BY <2>1, <2>2, <2>3 DEF Range
\* the connection and the backlog stay, and so does the part of the loop
<1>2. ASSUME UNCHANGED sockets, UNCHANGED programs,
             \/ UNCHANGED pc
             \/ pc = "accept" /\ pc' = "accepted"
             \/ pc = "recv size" /\ pc' = "recv text"
             \/ pc = "recv text" /\ pc' = "send"
             \/ pc = "test" /\ pc' = "accept"
             \/ pc = "accepted" /\ pc' = "recv size" /\ conn # None
      PROVE  SocketsOK' /\ Queue'
  BY <1>1, <1>2 DEF SocketsOK, Queue, sockets, programs, Serving, Ended
\* the server ends
<1>3. ASSUME NEW how \in Ended, End(how), UNCHANGED programs
      PROVE  SocketsOK' /\ Queue'
  <2>1. /\ backlog' \in Seq(Clients) /\ Len(backlog') = 0 /\ Range(backlog') = {}
        /\ IsInjective(backlog')
    BY <1>3 DEF End, Range, IsInjective
  <2>2. conn' = None /\ pc' \in Ended /\ pc' \notin Serving /\ UNCHANGED <<answer, client, sent>>
    BY <1>3 DEF End, Ended, Serving, programs
  <2>3. LISTEN_BACKLOG \in Nat /\ None \notin Clients
    BY PccAssumption
  <2>4. Len(backlog') <= LISTEN_BACKLOG
    BY <2>1, <2>3
  <2>5. SocketsOK'
    BY <1>1, <2>1, <2>2, <2>4 DEF SocketsOK
  <2> QED
    BY <1>1, <2>1, <2>2, <2>3, <2>5 DEF Queue
\* the server closes a connection
<1>4. ASSUME conn' = None, pc' = "test", UNCHANGED <<backlog, answer>>, UNCHANGED programs
      PROVE  SocketsOK' /\ Queue'
  <2>1. None \notin Clients
    BY PccAssumption
  <2> QED
    BY <1>0, <1>1, <1>4, <2>1 DEF SocketsOK, Queue, programs, Serving, Ended
<1>5. CASE LoopTest
  BY <1>2, <1>3, <1>5 DEF LoopTest, Ended
<1>6. CASE Accept
  <2>1. CASE UNCHANGED <<conn, backlog>>
    BY <1>2, <1>6, <2>1 DEF Accept, sockets
  <2>2. CASE backlog # <<>> /\ conn' = Head(backlog) /\ backlog' = Tail(backlog)
    <3>1. /\ Head(backlog) \in Clients /\ Tail(backlog) \in Seq(Clients)
          /\ Len(Tail(backlog)) = Len(backlog) - 1
          /\ Range(Tail(backlog)) \subseteq Range(backlog)
          /\ Head(backlog) \in Range(backlog)
          /\ Head(backlog) \notin Range(Tail(backlog)) /\ IsInjective(Tail(backlog))
      BY <1>1, <2>2, BacklogShrinks DEF SocketsOK, Queue
    <3>2. pc' = "accepted" /\ UNCHANGED <<answer, client, sent>>
      BY <1>6 DEF Accept, programs
    <3>3. Len(Tail(backlog)) <= LISTEN_BACKLOG
      BY <1>0, <3>1
    <3> QED
      BY <1>1, <2>2, <3>1, <3>2, <3>3, PccAssumption DEF SocketsOK, Queue, Serving, Ended
  <2> QED
    BY <1>6, <2>1, <2>2 DEF Accept
<1>7. CASE BlockSigint
  BY <1>2, <1>3, <1>7 DEF BlockSigint, Ended
<1>8. CASE RecvSize
  BY <1>2, <1>3, <1>8 DEF RecvSize, Ended
<1>9. CASE RecvText
  BY <1>2, <1>9 DEF RecvText
<1>10. CASE Send
  <2>1. chars_count \in 0 .. Width - 1
    BY DEF TypeInv, CountsOK
  <2> QED
    BY <1>1, <1>10, <2>1 DEF Send, SocketsOK, Queue, programs, Serving, Ended
<1>11. CASE Commit
  BY <1>4, <1>11 DEF Commit
<1>12. CASE BreakConnection
  BY <1>4, <1>12 DEF BreakConnection
<1>13. CASE Fail
  BY <1>3, <1>13 DEF Fail, Ended
<1>14. CASE Interrupt
  BY <1>2, <1>14 DEF Interrupt
<1>15. ASSUME NEW c \in Clients, ClientStep(c) \/ KillClient(c)
       PROVE  SocketsOK' /\ Queue'
  <2>1. client[c] = "open" /\ UNCHANGED <<pc, backlog, conn, answer>>
    BY <1>15
       DEF ClientStep, SendSize, SendText, PrintAnswer, LoseServer, KillClient, sockets
  <2>2. /\ client' \in [Clients -> {"idle", "open", "printed", "failed", "misled", "gone"}]
        /\ sent' \in [Clients -> {"nothing", "size", "text"}]
    BY <1>1, <1>15
       DEF ClientStep, SendSize, SendText, PrintAnswer, LoseServer, KillClient, SocketsOK
  <2>3. \A d \in Clients : client'[d] = "idle" => client[d] = "idle"
    BY <1>1, <1>15
       DEF ClientStep, SendSize, SendText, PrintAnswer, LoseServer, KillClient, SocketsOK
  <2> QED
    BY <1>1, <2>1, <2>2, <2>3 DEF SocketsOK, Queue
<1>16. ASSUME NEW c \in Clients, Connect(c)
       PROVE  SocketsOK' /\ Queue'
  <2>1. client[c] = "idle" /\ UNCHANGED <<pc, conn, answer, sent>>
    BY <1>16 DEF Connect
  <2>2. c \notin Range(backlog) /\ c # conn
    BY <1>1, <2>1 DEF Queue
  <2>3. CASE /\ pc \notin Ended /\ Len(backlog) < LISTEN_BACKLOG
             /\ backlog' = Append(backlog, c)
             /\ client' = [client EXCEPT ![c] = "open"]
    <3>1. /\ backlog' \in Seq(Clients) /\ Len(backlog') = Len(backlog) + 1
          /\ Range(backlog') = Range(backlog) \cup {c} /\ IsInjective(backlog')
      BY <1>1, <2>2, <2>3, BacklogGrows DEF SocketsOK, Queue
    <3>2. Len(backlog') <= LISTEN_BACKLOG
      <4>1. Len(backlog) < LISTEN_BACKLOG /\ Len(backlog') = Len(backlog) + 1
        BY <2>3, <3>1
      <4> QED
        BY <1>0, <4>1
    <3>3. \A d \in Clients : client'[d] = "idle" => client[d] = "idle" /\ d # c
      BY <1>1, <2>3 DEF SocketsOK
    <3>4. client' \in [Clients -> {"idle", "open", "printed", "failed", "misled", "gone"}]
      BY <1>1, <2>3 DEF SocketsOK
    <3> QED
      BY <1>1, <2>1, <2>2, <3>1, <3>2, <3>3, <3>4 DEF SocketsOK, Queue
  <2>4. CASE /\ pc \in Ended /\ client' = [client EXCEPT ![c] = "failed"]
             /\ UNCHANGED backlog
    BY <1>1, <2>1, <2>4 DEF SocketsOK, Queue
  <2> QED
    BY <1>16, <2>3, <2>4 DEF Connect
<1>17. CASE UNCHANGED vars
  BY <1>2, <1>17 DEF vars
<1> QED
  BY <1>5, <1>6, <1>7, <1>8, <1>9, <1>10, <1>11, <1>12, <1>13, <1>14, <1>15, <1>16, <1>17
     DEF Next, Server

LEMMA TypeNext == TypeInv /\ [Next]_vars => TypeInv'
BY SignalsNext, CountsNext, SocketsNext DEF TypeInv

LEMMA TypeInit == Init => TypeInv
<1> SUFFICES ASSUME Init PROVE TypeInv
  OBVIOUS
<1>1. Range(<<>>) = {} /\ IsInjective(<<>>) /\ <<>> \in Seq(Clients) /\ Len(<<>>) = 0
  BY DEF Range, IsInjective
<1>2. SignalsOK
  BY DEF Init, SignalsOK
<1>3. CountsOK
  BY PccAssumption DEF Init, CountsOK, Counters, Zero
<1>4. SocketsOK /\ Queue
  BY <1>1, PccAssumption DEF Init, SocketsOK, Queue, Serving, Ended
<1> QED
  BY <1>2, <1>3, <1>4 DEF TypeInv

\* The counters stay within their width, and the connection that is served is no
\* longer in the backlog (pcc_server.c:82-98, 142-150).
THEOREM TypesAreOK == Spec => []TypeOK
<1>1. TypeInv => TypeOK
  BY DEF TypeInv, SignalsOK, CountsOK, SocketsOK, TypeOK
<1> QED
  BY <1>1, TypeInit, TypeNext, PTL DEF Spec
-----------------------------------------------------------------------------
(* Sums over finite sets. *)

\* The element the fold takes out of a set, and a function that sums the values of
\* f over each set of D by taking out one element after the other.
Chosen(s) == CHOOSE x \in s : TRUE

Adds(f, D, g) ==
  g = [s \in D |-> IF s = {} THEN 0 ELSE f[Chosen(s)] + g[s \ {Chosen(s)}]]

LEMMA AddsExists ==
  ASSUME NEW f, IsFiniteSet(DOMAIN f)
  PROVE  \E g : Adds(f, SUBSET DOMAIN f, g)
<1> DEFINE Small(n) == {s \in SUBSET DOMAIN f : Cardinality(s) <= n}
           N == {n \in Nat : \E g : Adds(f, Small(n), g)}
<1>1. \A s \in SUBSET DOMAIN f :
        IsFiniteSet(s) /\ Cardinality(s) \in Nat /\ Cardinality(s) <= Cardinality(DOMAIN f)
  BY FS_Subset, FS_CardinalityType
<1>2. 0 \in N
  <2>1. \A s \in Small(0) : s = {}
    BY <1>1, FS_EmptySet
  <2>2. Adds(f, Small(0), [s \in Small(0) |-> 0])
    BY <2>1 DEF Adds
  <2> QED
    BY <2>2
<1>3. ASSUME NEW n \in N PROVE n + 1 \in N
  <2>1. PICK g : Adds(f, Small(n), g)
    OBVIOUS
  <2> DEFINE Rest(s) == s \ {Chosen(s)}
             h == [s \in Small(n + 1) |->
                     IF s \in Small(n) THEN g[s] ELSE f[Chosen(s)] + g[Rest(s)]]
  <2>2. Small(n) \subseteq Small(n + 1) /\ {} \in Small(n)
    BY <1>1, FS_EmptySet
  <2>3. ASSUME NEW s \in Small(n + 1), s # {} PROVE Rest(s) \in Small(n)
    <3>1. Chosen(s) \in s
      BY <2>3 DEF Chosen
    <3>2. Cardinality(Rest(s)) = Cardinality(s) - 1
      BY <1>1, <3>1, FS_RemoveElement
    <3> QED
      BY <1>1, <3>2
  <2>4. ASSUME NEW s \in Small(n)
        PROVE  g[s] = IF s = {} THEN 0 ELSE f[Chosen(s)] + g[Rest(s)]
    BY <2>1 DEF Adds
  <2>5. ASSUME NEW s \in Small(n + 1)
        PROVE  h[s] = IF s = {} THEN 0 ELSE f[Chosen(s)] + h[Rest(s)]
    <3>1. CASE s = {}
      BY <2>2, <2>4, <3>1
    <3>2. CASE s # {}
      <4> HIDE DEF Small, Rest
      <4>1. h[Rest(s)] = g[Rest(s)]
        BY <2>2, <2>3, <3>2
      <4> QED
        BY <2>4, <3>2, <4>1
    <3> QED
      BY <3>1, <3>2
  <2>6. Adds(f, Small(n + 1), h)
    <3> DEFINE k == [s \in Small(n + 1) |->
                       IF s = {} THEN 0 ELSE f[Chosen(s)] + h[s \ {Chosen(s)}]]
    <3>1. h = k
      <4> HIDE DEF Small
      <4>1. h = [s \in Small(n + 1) |-> h[s]]
        OBVIOUS
      <4> HIDE DEF h
      <4> QED
        BY <2>5, <4>1
    <3> QED
      BY <3>1 DEF Adds
  <2> HIDE DEF Small, h
  <2> QED
    BY <2>6
<1>4. N = Nat
  <2> HIDE DEF N
  <2>1. N \subseteq Nat
    BY DEF N
  <2> QED
    BY <1>2, <1>3, <2>1, NatSetInduction
<1>5. Cardinality(DOMAIN f) \in N
  BY <1>1, <1>4
<1>6. Small(Cardinality(DOMAIN f)) = SUBSET DOMAIN f
  BY <1>1
<1> QED
  BY <1>5, <1>6

\* What the fold computes.
SumsUp(f, S, g) ==
  /\ Sum(f) = g[S]
  /\ g[{}] = 0
  /\ \A s \in (SUBSET S) \ {{}} :
       Chosen(s) \in s /\ g[s] = f[Chosen(s)] + g[s \ {Chosen(s)}]

LEMMA SumUnfolded ==
  ASSUME NEW S, IsFiniteSet(S), NEW f, DOMAIN f = S
  PROVE  \E g : SumsUp(f, S, g)
<1> DEFINE g == CHOOSE g : Adds(f, SUBSET DOMAIN f, g)
<1>1. Adds(f, SUBSET DOMAIN f, g)
  BY AddsExists
<1>2. Sum(f) = g[DOMAIN f]
  BY DEF Sum, FoldFunction, FoldFunctionOnSet, MapThenFoldSet, Adds, Chosen
<1> HIDE DEF g
<1>3. g[{}] = 0
  BY <1>1 DEF Adds
<1>4. ASSUME NEW s \in (SUBSET DOMAIN f) \ {{}}
      PROVE  Chosen(s) \in s /\ g[s] = f[Chosen(s)] + g[s \ {Chosen(s)}]
  BY <1>1 DEF Adds, Chosen
<1> QED
  BY <1>2, <1>3, <1>4 DEF SumsUp

\* A sum of numbers is a number.
LEMMA SumType ==
  ASSUME NEW S, IsFiniteSet(S), NEW f \in [S -> Nat]
  PROVE  Sum(f) \in Nat
<1>1. PICK g : SumsUp(f, S, g)
  <2>1. DOMAIN f = S
    OBVIOUS
  <2> QED
    BY <2>1, SumUnfolded
<1> DEFINE A == {s \in SUBSET S : g[s] \in Nat}
<1>2. ASSUME NEW s \in SUBSET S, \A u \in (SUBSET s) \ {s} : u \in A
      PROVE  s \in A
  <2>1. CASE s = {}
    BY <1>1, <2>1 DEF SumsUp
  <2>2. CASE s # {}
    <3>1. Chosen(s) \in s /\ g[s] = f[Chosen(s)] + g[s \ {Chosen(s)}]
      BY <1>1, <2>2 DEF SumsUp
    <3>2. s \ {Chosen(s)} \in A
      BY <1>2, <3>1
    <3> QED
      BY <3>1, <3>2
  <2> QED
    BY <2>1, <2>2
<1>3. SUBSET S \subseteq A
  <2> HIDE DEF A
  <2> QED
    BY <1>2, SubsetInduction
<1> QED
  BY <1>1, <1>3 DEF SumsUp

\* A sum of zeros is zero.
LEMMA SumZero ==
  ASSUME NEW S, IsFiniteSet(S)
  PROVE  Sum([x \in S |-> 0]) = 0
<1> DEFINE f == [x \in S |-> 0]
<1>1. PICK g : SumsUp(f, S, g)
  <2>1. DOMAIN f = S
    OBVIOUS
  <2> HIDE DEF f
  <2> QED
    BY <2>1, SumUnfolded
<1> DEFINE A == {s \in SUBSET S : g[s] = 0}
<1>2. ASSUME NEW s \in SUBSET S, \A u \in (SUBSET s) \ {s} : u \in A
      PROVE  s \in A
  <2>1. CASE s = {}
    BY <1>1, <2>1 DEF SumsUp
  <2>2. CASE s # {}
    <3>1. Chosen(s) \in s /\ g[s] = f[Chosen(s)] + g[s \ {Chosen(s)}]
      BY <1>1, <2>2 DEF SumsUp
    <3>2. s \ {Chosen(s)} \in A
      BY <1>2, <3>1
    <3> QED
      BY <3>1, <3>2
  <2> QED
    BY <2>1, <2>2
<1>3. SUBSET S \subseteq A
  <2> HIDE DEF A
  <2> QED
    BY <1>2, SubsetInduction
<1> QED
  BY <1>1, <1>3 DEF SumsUp

\* A sum changes as the one value that changes.
LEMMA SumChange ==
  ASSUME NEW S, IsFiniteSet(S), NEW f \in [S -> Nat], NEW x \in S, NEW d \in Nat
  PROVE  Sum([f EXCEPT ![x] = d]) = Sum(f) - f[x] + d
<1> DEFINE e == [f EXCEPT ![x] = d]
<1>1. PICK g : SumsUp(f, S, g)
  <2>1. DOMAIN f = S
    OBVIOUS
  <2> QED
    BY <2>1, SumUnfolded
<1>2. PICK h : SumsUp(e, S, h)
  <2>1. DOMAIN e = S
    OBVIOUS
  <2> HIDE DEF e
  <2> QED
    BY <2>1, SumUnfolded
<1> DEFINE A == {s \in SUBSET S :
                   g[s] \in Int /\ h[s] = g[s] + (IF x \in s THEN d - f[x] ELSE 0)}
<1>3. ASSUME NEW s \in SUBSET S, \A u \in (SUBSET s) \ {s} : u \in A
      PROVE  s \in A
  <2>1. CASE s = {}
    BY <1>1, <1>2, <2>1 DEF SumsUp
  <2>2. CASE s # {}
    <3> DEFINE y == Chosen(s)
               r == s \ {y}
    <3>1. y \in s /\ g[s] = f[y] + g[r] /\ h[s] = e[y] + h[r]
      BY <1>1, <1>2, <2>2 DEF SumsUp
    <3>2. r \in A
      BY <1>3, <3>1
    <3> HIDE DEF y
    <3>3. CASE y = x
      BY <3>1, <3>2, <3>3
    <3>4. CASE y # x
      <4>1. e[y] = f[y] /\ f[y] \in Nat /\ (x \in r <=> x \in s)
        BY <3>1, <3>4
      <4> QED
        BY <3>1, <3>2, <4>1
    <3> QED
      BY <3>3, <3>4
  <2> QED
    BY <2>1, <2>2
<1>4. SUBSET S \subseteq A
  <2> HIDE DEF A
  <2> QED
    BY <1>3, SubsetInduction
<1> QED
  BY <1>1, <1>2, <1>4 DEF SumsUp

\* Remainders: the one of a number, and that one may be taken before adding.
LEMMA ModUnique ==
  ASSUME NEW W \in Nat \ {0}, NEW q \in Int, NEW r \in 0 .. W - 1
  PROVE  (q * W + r) % W = r
OBVIOUS

LEMMA ModParts ==
  ASSUME NEW W \in Nat \ {0}, NEW a \in Int
  PROVE  a % W \in 0 .. W - 1 /\ \E q \in Int : a = q * W + (a % W)
<1>1. a \div W \in Int /\ a % W \in 0 .. W - 1
  OBVIOUS
<1>2. a = (a \div W) * W + (a % W)
  OBVIOUS
<1> QED
  BY <1>1, <1>2

LEMMA ModAdd ==
  ASSUME NEW W \in Nat \ {0}, NEW a \in Int, NEW b \in Int
  PROVE  ((a % W) + b) % W = (a + b) % W
<1>1. PICK q \in Int : a = q * W + (a % W)
  BY ModParts
<1>2. PICK r \in Int : r = a % W
  BY ModParts
<1>3. PICK x \in Int : x = r + b
  BY <1>2
<1>4. PICK p \in Int : x = p * W + (x % W)
  BY ModParts
<1>5. PICK s \in 0 .. W - 1 : s = x % W
  BY ModParts
<1>6. PICK n \in Int : n = p + q
  OBVIOUS
<1>7. a + b = n * W + s
  <2>1. n * W = p * W + q * W /\ p * W \in Int /\ q * W \in Int
    BY <1>6
  <2>2. a = q * W + r /\ r + b = p * W + s
    BY <1>1, <1>2, <1>3, <1>4, <1>5
  <2> QED
    BY <2>1, <2>2
<1>8. (a + b) % W = s
  BY <1>7, ModUnique
<1> QED
  BY <1>2, <1>3, <1>5, <1>8

-----------------------------------------------------------------------------
(* The totals. *)

\* Who has not been served to the end yet: his counts are not final.
Waiting(c) == client[c] = "idle" \/ c \in Range(backlog) \/ c = conn

TotalsInv ==
  /\ \A ch \in Chars : pcc_total[ch] = Sum([c \in Clients |-> credited[c][ch]]) % Width
  /\ pc \in {"send", "sent"} =>
       \A ch \in Chars : pcc_total_temp[ch] = (pcc_total[ch] + counted[ch]) % Width
  /\ \A c \in Clients : Waiting(c) => credited[c] = Zero

\* Counting adds what it finds to the temporary totals.
LEMMA CountAdds ==
  ASSUME NEW message \in Seq(Bytes), Count(message), pcc_total_temp = pcc_total
  PROVE  \A ch \in Chars : pcc_total_temp'[ch] = (pcc_total[ch] + counted'[ch]) % Width
BY DEF Count

\* Crediting a client who had nothing adds what was counted to the totals.
LEMMA CreditAdds ==
  ASSUME CountsOK, NEW c \in Clients, credited[c] = Zero, NEW ch \in Chars
  PROVE  /\ Sum([d \in Clients |-> [credited EXCEPT ![c] = counted][d][ch]])
               = Sum([d \in Clients |-> credited[d][ch]]) + counted[ch]
         /\ Sum([d \in Clients |-> credited[d][ch]]) \in Nat
         /\ counted[ch] \in Nat
<1> DEFINE f == [d \in Clients |-> credited[d][ch]]
<1>1. f \in [Clients -> Nat] /\ f[c] = 0 /\ counted[ch] \in Nat
  BY DEF CountsOK, Zero
<1>2. [d \in Clients |-> [credited EXCEPT ![c] = counted][d][ch]]
        = [f EXCEPT ![c] = counted[ch]]
  BY DEF CountsOK
<1>3. IsFiniteSet(Clients)
  BY PccAssumption
<1> HIDE DEF f
<1>4. Sum([f EXCEPT ![c] = counted[ch]]) = Sum(f) - f[c] + counted[ch]
  BY <1>1, <1>3, SumChange
<1>5. Sum(f) \in Nat
  BY <1>1, <1>3, SumType
<1> QED
  BY <1>1, <1>2, <1>4, <1>5 DEF f

\* A step of a client, or of the server that leaves the counts alone, makes nobody
\* wait who did not.
LEMMA WaitingShrinks ==
  ASSUME TypeInv, [Next]_vars, NEW c \in Clients, Waiting(c)'
  PROVE  Waiting(c)
<1>1. SocketsOK /\ Queue
  BY DEF TypeInv
<1>2. ASSUME UNCHANGED client, Range(backlog') \subseteq Range(backlog),
             conn' \in {conn, None} \cup Range(backlog)
      PROVE  Waiting(c)
  BY <1>2, PccAssumption DEF Waiting
<1>3. ASSUME NEW how, End(how), UNCHANGED client
      PROVE  Waiting(c)
  <2>1. Range(backlog') = {} /\ conn' = None
    BY <1>3 DEF End, Range
  <2> QED
    BY <1>2, <1>3, <2>1
<1>4. CASE Accept
  <2>1. CASE UNCHANGED <<conn, backlog>>
    BY <1>2, <1>4, <2>1 DEF Accept, programs
  <2>2. CASE backlog # <<>> /\ conn' = Head(backlog) /\ backlog' = Tail(backlog)
    <3>1. Range(backlog') \subseteq Range(backlog) /\ conn' \in Range(backlog)
      BY <1>1, <2>2, BacklogShrinks DEF SocketsOK
    <3> QED
      BY <1>2, <1>4, <3>1 DEF Accept, programs
  <2> QED
    BY <1>4, <2>1, <2>2 DEF Accept
<1>5. CASE LoopTest \/ BlockSigint \/ RecvSize \/ Fail
  BY <1>2, <1>3, <1>5 DEF LoopTest, BlockSigint, RecvSize, Fail, sockets, programs
<1>6. CASE RecvText \/ Send \/ Commit \/ BreakConnection \/ Interrupt
  BY <1>2, <1>6
     DEF RecvText, Send, Commit, BreakConnection, Interrupt, sockets, programs
<1>7. ASSUME NEW d \in Clients, ClientStep(d) \/ KillClient(d)
      PROVE  Waiting(c)
  <2>1. client[d] = "open" /\ UNCHANGED <<backlog, conn>>
    BY <1>7
       DEF ClientStep, SendSize, SendText, PrintAnswer, LoseServer, KillClient, sockets
  <2>2. client'[c] = "idle" => client[c] = "idle"
    BY <1>1, <1>7
       DEF ClientStep, SendSize, SendText, PrintAnswer, LoseServer, KillClient, SocketsOK
  <2> QED
    BY <2>1, <2>2 DEF Waiting
<1>8. ASSUME NEW d \in Clients, Connect(d)
      PROVE  Waiting(c)
  <2>1. client[d] = "idle" /\ conn' = conn
    BY <1>8 DEF Connect
  <2>2. Range(backlog') \subseteq Range(backlog) \cup {d}
    BY <1>1, <1>8, BacklogGrows DEF Connect, SocketsOK
  <2>3. c # d => client'[c] = client[c]
    BY <1>1, <1>8 DEF Connect, SocketsOK
  <2> QED
    BY <2>1, <2>2, <2>3 DEF Waiting
<1>9. CASE UNCHANGED vars
  BY <1>2, <1>9 DEF vars, sockets, programs
<1> QED
  BY <1>4, <1>5, <1>6, <1>7, <1>8, <1>9 DEF Next, Server

\* Every step keeps the totals.
LEMMA TotalsNext ==
  TypeInv /\ NothingLeft /\ TotalsInv /\ [Next]_vars => TotalsInv'
<1> SUFFICES ASSUME TypeInv, NothingLeft, TotalsInv, [Next]_vars PROVE TotalsInv'
  OBVIOUS
<1>1. CountsOK /\ SocketsOK /\ (pc \in Serving => conn \in Clients)
  BY DEF TypeInv, SocketsOK, Queue
<1>2. ASSUME UNCHANGED <<pcc_total, credited>>,
             \/ pc' \notin {"send", "sent"}
             \/ pc \in {"send", "sent"} /\ UNCHANGED <<pcc_total_temp, counted>>
      PROVE  TotalsInv'
  BY <1>2, WaitingShrinks DEF TotalsInv
<1>3. CASE RecvText
  <2>1. PICK k \in Received(conn), over \in Leftovers :
          Count(SubSeq(Text(conn), 1, k) \o (IF k = N_host THEN over ELSE <<>>))
    BY <1>3 DEF RecvText
  <2>2. SubSeq(Text(conn), 1, k) \o (IF k = N_host THEN over ELSE <<>>) \in Seq(Bytes)
    BY <1>1, <1>3, MessageType DEF RecvText, Serving, CountsOK
  <2>3. pcc_total_temp = pcc_total
    BY <1>3 DEF RecvText, NothingLeft, Ended
  <2>4. \A ch \in Chars : pcc_total_temp'[ch] = (pcc_total[ch] + counted'[ch]) % Width
    BY <2>1, <2>2, <2>3, CountAdds
  <2>5. UNCHANGED <<pcc_total, credited>>
    BY <1>3 DEF RecvText
  <2> QED
    BY <2>4, <2>5, WaitingShrinks DEF TotalsInv
<1>4. CASE Commit
  <2>1. conn \in Clients /\ credited[conn] = Zero
    BY <1>1, <1>4 DEF Commit, Serving, TotalsInv, Waiting
  <2>2. ASSUME NEW ch \in Chars
        PROVE  pcc_total'[ch] = Sum([c \in Clients |-> credited'[c][ch]]) % Width
    <3> DEFINE a == Sum([c \in Clients |-> credited[c][ch]])
    <3>1. pcc_total'[ch] = ((a % Width) + counted[ch]) % Width
      BY <1>4 DEF Commit, TotalsInv
    <3>2. a \in Nat /\ counted[ch] \in Nat
      BY <1>1, <2>1, CreditAdds
    <3>3. Sum([c \in Clients |-> credited'[c][ch]]) = a + counted[ch]
      BY <1>1, <1>4, <2>1, CreditAdds DEF Commit
    <3>4. ((a % Width) + counted[ch]) % Width = (a + counted[ch]) % Width
      <4> DEFINE k == counted[ch]
      <4>1. Width \in Nat \ {0}
        BY PccAssumption
      <4>2. a \in Int /\ k \in Int
        BY <3>2
      <4> HIDE DEF a, k
      <4>3. ((a % Width) + k) % Width = (a + k) % Width
        BY <4>1, <4>2, ModAdd
      <4> QED
        BY <4>3 DEF k
    <3> HIDE DEF a
    <3> QED
      BY <3>1, <3>3, <3>4
  <2>3. \A c \in Clients : Waiting(c)' => c # conn
    <3>1. SocketsOK /\ Queue
      BY DEF TypeInv
    <3>2. conn' = None /\ UNCHANGED <<client, backlog>>
      BY <1>4 DEF Commit, programs
    <3> QED
      BY <2>1, <3>1, <3>2, PccAssumption DEF Waiting, SocketsOK, Queue
  <2>4. \A c \in Clients : Waiting(c)' => credited'[c] = Zero
    BY <1>1, <1>4, <2>3, WaitingShrinks DEF Commit, TotalsInv, CountsOK
  <2>5. pc' = "test"
    BY <1>4 DEF Commit
  <2> QED
    BY <2>2, <2>4, <2>5 DEF TotalsInv
<1>5. CASE LoopTest \/ Accept \/ BlockSigint \/ RecvSize \/ BreakConnection \/ Fail
  BY <1>2, <1>5
     DEF LoopTest, Accept, BlockSigint, RecvSize, BreakConnection, Fail, End, Ended, counts
<1>6. CASE Send \/ Interrupt
  BY <1>2, <1>6 DEF Send, Interrupt, counts
<1>7. ASSUME NEW c \in Clients, ClientStep(c) \/ Connect(c) \/ KillClient(c)
      PROVE  TotalsInv'
  BY <1>2, <1>7
     DEF ClientStep, SendSize, SendText, PrintAnswer, LoseServer, Connect, KillClient, counts
<1>8. CASE UNCHANGED vars
  BY <1>2, <1>8 DEF vars, counts
<1> QED
  BY <1>3, <1>4, <1>5, <1>6, <1>7, <1>8 DEF Next, Server

\* What all of it rests on.
PccInv == TypeInv /\ NothingLeft /\ TotalsInv

LEMMA PccInit == Init => PccInv
<1> SUFFICES ASSUME Init PROVE PccInv
  OBVIOUS
<1>1. TypeInv /\ NothingLeft
  BY TypeInit DEF Init, NothingLeft
<1>2. \A ch \in Chars : [c \in Clients |-> credited[c][ch]] = [c \in Clients |-> 0]
  BY DEF Init, Zero
<1>3. \A ch \in Chars : pcc_total[ch] = 0
  BY DEF Init, Zero
<1>4. Sum([c \in Clients |-> 0]) = 0 /\ 0 % Width = 0
  BY SumZero, PccAssumption
<1>5. TotalsInv
  BY <1>2, <1>3, <1>4 DEF Init, TotalsInv
<1> QED
  BY <1>1, <1>5 DEF PccInv

LEMMA PccNext == PccInv /\ [Next]_vars => PccInv'
BY TypeNext, NothingLeftNext, TotalsNext DEF PccInv

\* The totals the server prints are the sum, within the width of a counter, of what
\* it found for the clients whose connection ended successfully, and nothing of a
\* client that failed is left when the next one is served (pcc_server.c:47-66).
THEOREM TotalsAreExact == Spec => []TotalsExact
<1>1. PccInv => TotalsExact
  BY DEF PccInv, TotalsInv, TotalsExact
<1> QED
  BY <1>1, PccInit, PccNext, PTL DEF Spec
==============================================================================
