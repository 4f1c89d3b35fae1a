----------------------------- MODULE ShellProofs -----------------------------
(***************************************************************************)
(* What the shell promises about SIGINT and about its prompt, for every    *)
(* capacity of the pipe and every number of children.                      *)
(***************************************************************************)
EXTENDS Shell, SequenceTheorems, TLAPS

States == {"new", "running", "stopped", "zombie", "reaped"}
Job == [role : Forking, ignoring : BOOLEAN, stopped : BOOLEAN, state : States]

\* What the shell is given a command for, it does with SIGINT ignored; every child
\* it has was forked then.
IgnoresFromCommand == jobs # <<>> \/ pc \in Forking => ignoring

BackgroundIgnores ==
  \A j \in DOMAIN jobs : jobs[j].role = "parallel" => jobs[j].ignoring

Spared ==
  /\ "parallel" \notin victims
  /\ "shell" \in victims => pc = "killed" /\ jobs = <<>>

\* The inductive invariant of SIGINT.
SigintInv == IgnoresFromCommand /\ BackgroundIgnores /\ Spared

Awaited(j) == \E i \in DOMAIN waiting : waiting[i] = j

\* A child in the foreground is waited for until it is reaped or stopped.
Attended ==
  \A j \in DOMAIN jobs :
    /\ jobs[j].role = "parallel" \/ Is(j, "reaped") \/ jobs[j].stopped \/ Awaited(j)
    /\ Is(j, "stopped") => jobs[j].stopped

\* The shell holds an end of the pipe only while it starts a pipeline.
EndsHeld == shell \in writeEnds \cup readEnds => pc \in {"writer", "reader"}

NobodyAwaited == pc \in {"regular", "parallel", "writer"} => waiting = <<>>

\* The inductive invariant of the prompt.
PromptInv == Attended /\ EndsHeld /\ NobodyAwaited

-----------------------------------------------------------------------------

\* A change of the children that forks none keeps them a sequence.
LEMMA JobsStaySequence ==
  ASSUME jobs \in Seq(Job), jobs' \in [DOMAIN jobs -> Job]
  PROVE  jobs' \in Seq(Job) /\ DOMAIN jobs' = DOMAIN jobs
<1>1. DOMAIN jobs = 1 .. Len(jobs) /\ Len(jobs) \in Nat
  BY LenProperties
<1> QED
  BY <1>1

\* What End does to the children.
LEMMA EndOfJobs ==
  ASSUME jobs \in Seq(Job), NEW js \in SUBSET DOMAIN jobs, End(js)
  PROVE  /\ jobs' \in Seq(Job) /\ DOMAIN jobs' = DOMAIN jobs
         /\ \A i \in DOMAIN jobs :
              /\ jobs'[i].state = IF i \in js THEN "zombie" ELSE jobs[i].state
              /\ jobs'[i].role = jobs[i].role
              /\ jobs'[i].ignoring = jobs[i].ignoring
              /\ jobs'[i].stopped = jobs[i].stopped
<1>1. \A i \in DOMAIN jobs : jobs[i] \in Job
  BY ElementOfSeq
<1>2. jobs' \in [DOMAIN jobs -> Job]
  BY <1>1 DEF End, Job, States
<1>3. \A i \in DOMAIN jobs :
        /\ jobs'[i].state = IF i \in js THEN "zombie" ELSE jobs[i].state
        /\ jobs'[i].role = jobs[i].role
        /\ jobs'[i].ignoring = jobs[i].ignoring
        /\ jobs'[i].stopped = jobs[i].stopped
  BY <1>1 DEF End, Job
<1> QED
  BY <1>2, <1>3, JobsStaySequence

\* A child keeps its role; once stopped or reaped it stays that; once in the
\* background it never stops to ignore SIGINT.
Matured ==
  /\ jobs' \in Seq(Job) /\ DOMAIN jobs' = DOMAIN jobs
  /\ \A i \in DOMAIN jobs :
       /\ jobs'[i].role = jobs[i].role
       /\ jobs[i].stopped => jobs'[i].stopped
       /\ jobs[i].state = "reaped" => jobs'[i].state = "reaped"
       /\ jobs'[i].state = "stopped" => jobs[i].state = "stopped" \/ jobs'[i].stopped
       /\ jobs[i].role = "parallel" /\ jobs[i].ignoring => jobs'[i].ignoring

\* A change of the state of one child.
LEMMA OneMatures ==
  ASSUME jobs \in Seq(Job), NEW j \in DOMAIN jobs, NEW e \in Job,
         jobs' = [jobs EXCEPT ![j] = e],
         e.role = jobs[j].role, jobs[j].stopped => e.stopped,
         jobs[j].state # "reaped" \/ e.state = "reaped",
         e.state = "stopped" => jobs[j].state = "stopped" \/ e.stopped,
         jobs[j].role = "parallel" /\ jobs[j].ignoring => e.ignoring
  PROVE  Matured
<1>1. \A i \in DOMAIN jobs : jobs[i] \in Job
  BY ElementOfSeq
<1>2. jobs' \in [DOMAIN jobs -> Job]
  BY <1>1
<1>3. \A i \in DOMAIN jobs : jobs'[i] = IF i = j THEN e ELSE jobs[i]
  OBVIOUS
<1> QED
  BY <1>2, <1>3, JobsStaySequence DEF Matured

\* The end of some children that were not yet waited for.
LEMMA EndMatures ==
  ASSUME jobs \in Seq(Job), NEW js \in SUBSET DOMAIN jobs, End(js),
         \A j \in js : ~Is(j, "reaped")
  PROVE  Matured
BY EndOfJobs DEF Matured, Is

\* Every step but a fork.
LEMMA StepMatures ==
  ASSUME TypeOK, NEW j \in DOMAIN jobs, Child(j) \/ Finish(j) \/ Stop(j) \/ Continue(j)
  PROVE  Matured
<1>0. jobs \in Seq(Job)
  BY DEF TypeOK, Job, States
<1>1. jobs \in Seq(Job) /\ jobs[j] \in Job
  BY <1>0, ElementOfSeq
<1>2. UNCHANGED jobs => Matured
  BY <1>1 DEF Matured
<1>3. ASSUME End({j}), ~Is(j, "reaped")
      PROVE  Matured
  BY <1>1, <1>3, EndMatures
<1>4. CASE Exec(j)
  <2> DEFINE e == [jobs[j] EXCEPT !.state = "running",
                                  !.ignoring = IgnoresSigint(jobs[j].role)]
  <2>1. /\ e.role = jobs[j].role /\ e.stopped = jobs[j].stopped
        /\ e.state = "running" /\ e.ignoring = (jobs[j].role = "parallel") /\ e \in Job
    BY <1>1 DEF Job, States, IgnoresSigint
  <2>2. jobs' = [jobs EXCEPT ![j] = e] /\ jobs[j].state = "new"
    BY <1>1, <1>4 DEF Exec, Is, Job
  <2> QED
    BY <1>1, <2>1, <2>2, OneMatures
<1>5. CASE Stop(j)
  <2> DEFINE e == [jobs[j] EXCEPT !.state = "stopped", !.stopped = TRUE]
  <2>1. /\ e.role = jobs[j].role /\ e.stopped = TRUE
        /\ e.state = "stopped" /\ e.ignoring = jobs[j].ignoring /\ e \in Job
    BY <1>1 DEF Job, States
  <2>2. jobs' = [jobs EXCEPT ![j] = e] /\ jobs[j].state = "running"
    BY <1>1, <1>5 DEF Stop, Is, Job
  <2> QED
    BY <1>1, <2>1, <2>2, OneMatures
<1>6. CASE Continue(j)
  <2> DEFINE e == [jobs[j] EXCEPT !.state = "running"]
  <2>1. /\ e.role = jobs[j].role /\ e.stopped = jobs[j].stopped
        /\ e.state = "running" /\ e.ignoring = jobs[j].ignoring /\ e \in Job
    BY <1>1 DEF Job, States
  <2>2. jobs[j].state = "stopped"
    BY <1>6 DEF Continue, Is
  <2>3. CASE jobs' = [jobs EXCEPT ![j].state = "running"]
    <3>1. jobs' = [jobs EXCEPT ![j] = e]
      BY <2>3
    <3> QED
      BY <1>1, <2>1, <2>2, <3>1, OneMatures
  <2>4. CASE End({j})
    BY <1>3, <2>2, <2>4 DEF Is
  <2> QED
    BY <1>6, <2>3, <2>4 DEF Continue
<1>7. CASE Finish(j)
  BY <1>3, <1>7 DEF Finish, Alive, Is
<1>8. CASE Write(j)
  BY <1>2, <1>3, <1>8 DEF Write, Is
<1>9. CASE Read(j)
  BY <1>2, <1>3, <1>9 DEF Read, Is
<1> QED
  BY <1>4, <1>5, <1>6, <1>7, <1>8, <1>9 DEF Child

\* A SIGINT ends children only.
LEMMA InterruptMatures ==
  ASSUME TypeOK, Interrupt
  PROVE  Matured
<1> DEFINE struck == {j \in DOMAIN jobs : Alive(j) /\ ~jobs[j].ignoring}
<1>1. End(struck)
  BY DEF Interrupt
<1>2. \A j \in struck : ~Is(j, "reaped")
  BY DEF Alive, Is
<1> QED
  BY <1>1, <1>2, EndMatures DEF TypeOK, Job, States

\* waitpid reaps a child that has ended.
LEMMA WaitMatures ==
  ASSUME TypeOK, Wait
  PROVE  Matured
<1> DEFINE j == Head(waiting)
<1>1. waiting \in Seq(DOMAIN jobs) /\ waiting # <<>> /\ jobs \in Seq(Job)
  BY DEF TypeOK, Wait, Job, States
<1>2. j \in DOMAIN jobs
  BY <1>1, HeadTailProperties
<1>3. jobs[j] \in Job
  BY <1>1, <1>2, ElementOfSeq
<1>4. CASE Is(j, "zombie")
  <2> DEFINE e == [jobs[j] EXCEPT !.state = "reaped"]
  <2>1. /\ e.role = jobs[j].role /\ e.stopped = jobs[j].stopped
        /\ e.state = "reaped" /\ e.ignoring = jobs[j].ignoring /\ e \in Job
    BY <1>3 DEF Job, States
  <2>2. jobs' = [jobs EXCEPT ![j] = e]
    BY <1>4 DEF Wait
  <2> QED
    BY <1>1, <1>2, <2>1, <2>2, OneMatures
<1>5. CASE ~Is(j, "zombie")
  <2>1. jobs' = jobs
    BY <1>5 DEF Wait
  <2> QED
    BY <1>1, <2>1 DEF Matured
<1> QED
  BY <1>4, <1>5

-----------------------------------------------------------------------------
(* A fork, which adds a child, and a wait, which takes one off the list.   *)

NewJob == [role |-> pc, state |-> "new", ignoring |-> ignoring, stopped |-> FALSE]

\* The children before a fork are the same after it, and the new one comes last.
LEMMA ForkAdds ==
  ASSUME TypeOK, Fork
  PROVE  /\ jobs' \in Seq(Job) /\ NewJob \in Job
         /\ DOMAIN jobs' = DOMAIN jobs \cup {Len(jobs) + 1}
         /\ Len(jobs) + 1 \notin DOMAIN jobs /\ Len(jobs) \in Nat
         /\ \A i \in DOMAIN jobs : jobs'[i] = jobs[i]
         /\ jobs'[Len(jobs) + 1] = NewJob
<1>1. jobs \in Seq(Job)
  BY DEF TypeOK, Job, States
<1>2. NewJob \in Job
  BY DEF TypeOK, Fork, NewJob, Job, States
<1>3. jobs' = Append(jobs, NewJob)
  BY DEF Fork, NewJob
<1>4. DOMAIN jobs = 1 .. Len(jobs) /\ Len(jobs) \in Nat
  BY <1>1, LenProperties
<1>5. /\ jobs' \in Seq(Job) /\ Len(jobs') = Len(jobs) + 1
      /\ \A i \in 1 .. Len(jobs) : jobs'[i] = jobs[i]
      /\ jobs'[Len(jobs) + 1] = NewJob
  BY <1>1, <1>2, <1>3, AppendProperties
<1>6. DOMAIN jobs' = 1 .. Len(jobs) + 1
  BY <1>5, LenProperties
<1> QED
  BY <1>2, <1>4, <1>5, <1>6

\* What a fork does to the list of those to be waited for.
LEMMA ForkWaits ==
  ASSUME TypeOK, Fork
  PROVE  /\ waiting' \in Seq(DOMAIN jobs')
         /\ pc = "parallel" => waiting' = <<>>
         /\ pc # "parallel" =>
              \E i \in DOMAIN waiting' : waiting'[i] = Len(jobs) + 1
         /\ pc # "parallel" => waiting' # <<>>
         /\ pc # "parallel" => \A j \in DOMAIN jobs : Awaited(j) => Awaited(j)'
<1> DEFINE n == Len(jobs) + 1
<1>1. DOMAIN jobs' = DOMAIN jobs \cup {n}
  BY ForkAdds
<1>2. waiting \in Seq(DOMAIN jobs')
  BY <1>1 DEF TypeOK
<1>3. CASE pc = "parallel"
  <2>1. waiting' = <<>>
    BY <1>3 DEF Fork, Waited
  <2> QED
    BY <1>3, <2>1
<1>4. CASE pc # "parallel"
  <2>1. waiting' = Append(waiting, n)
    BY <1>4 DEF Fork, Waited
  <2>2. /\ waiting' \in Seq(DOMAIN jobs') /\ waiting' # <<>>
        /\ Len(waiting') = Len(waiting) + 1
        /\ \A i \in 1 .. Len(waiting) : waiting'[i] = waiting[i]
        /\ waiting'[Len(waiting) + 1] = n
    BY <1>1, <1>2, <2>1, AppendProperties
  <2>3. /\ DOMAIN waiting = 1 .. Len(waiting) /\ Len(waiting) \in Nat
        /\ DOMAIN waiting' = 1 .. Len(waiting) + 1
    BY <1>2, <2>2, LenProperties
  <2>4. \E i \in DOMAIN waiting' : waiting'[i] = n
    BY <2>2, <2>3
  <2>5. ASSUME NEW j \in DOMAIN jobs, Awaited(j)
        PROVE  Awaited(j)'
    <3>1. PICK i \in DOMAIN waiting : waiting[i] = j
      BY <2>5 DEF Awaited
    <3>2. i \in DOMAIN waiting' /\ waiting'[i] = j
      BY <2>2, <2>3, <3>1
    <3> QED
      BY <3>2 DEF Awaited
  <2> QED
    BY <1>4, <2>2, <2>4, <2>5
<1> QED
  BY <1>3, <1>4

\* Who leaves the list of those to be waited for is reaped or has been stopped.
LEMMA WaitTakes ==
  ASSUME TypeOK, Attended, Wait
  PROVE  /\ waiting' \in Seq(DOMAIN jobs)
         /\ \A j \in DOMAIN jobs :
              Awaited(j) => Awaited(j)' \/ jobs'[j].state = "reaped" \/ jobs[j].stopped
<1>1. waiting \in Seq(DOMAIN jobs) /\ waiting # <<>> /\ waiting' = Tail(waiting)
  BY DEF TypeOK, Wait
<1>2. /\ Head(waiting) \in DOMAIN jobs /\ waiting' \in Seq(DOMAIN jobs)
      /\ Len(waiting') = Len(waiting) - 1
      /\ \A i \in 1 .. Len(waiting') : waiting'[i] = waiting[i + 1]
  BY <1>1, HeadTailProperties
<1>3. /\ DOMAIN waiting = 1 .. Len(waiting) /\ Len(waiting) \in Nat
      /\ DOMAIN waiting' = 1 .. Len(waiting')
  BY <1>1, <1>2, LenProperties
<1>4. jobs'[Head(waiting)].state = "reaped" \/ jobs[Head(waiting)].stopped
  <2> DEFINE j == Head(waiting)
  <2>0. jobs \in Seq(Job)
    BY DEF TypeOK, Job, States
  <2>1. jobs[j] \in Job
    BY <1>2, <2>0, ElementOfSeq
  <2>2. CASE Is(j, "zombie")
    <3>1. jobs' = [jobs EXCEPT ![j] = [jobs[j] EXCEPT !.state = "reaped"]]
      BY <2>2 DEF Wait
    <3>2. [jobs[j] EXCEPT !.state = "reaped"].state = "reaped"
      BY <2>1 DEF Job
    <3> HIDE DEF j
    <3>3. j \in DOMAIN jobs
      BY <1>2 DEF j
    <3>4. jobs'[j].state = "reaped"
      BY <3>1, <3>2, <3>3
    <3> QED
      BY <3>4 DEF j
  <2>3. CASE Is(j, "stopped")
    BY <1>2, <2>3 DEF Attended
  <2> QED
    BY <2>2, <2>3 DEF Wait
<1>5. ASSUME NEW j \in DOMAIN jobs, NEW i \in DOMAIN waiting, waiting[i] = j
      PROVE  Awaited(j)' \/ j = Head(waiting)
  <2>1. CASE i = 1
    BY <1>1, <1>5, <2>1
  <2>2. CASE i # 1
    <3>1. i - 1 \in DOMAIN waiting' /\ waiting'[i - 1] = j
      BY <1>2, <1>3, <1>5, <2>2
    <3> QED
      BY <3>1 DEF Awaited
  <2> QED
    BY <2>1, <2>2
<1> QED
  BY <1>2, <1>4, <1>5 DEF Awaited

-----------------------------------------------------------------------------
(* Type correctness. *)

Holders == {shell} \cup {j \in DOMAIN jobs : ~Dead(j)}

Scalars ==
  /\ pc \in Gone \cup Forking \cup {"prompt", "wait"}
  /\ ignoring \in BOOLEAN /\ input \in 0 .. PipeSize
  /\ victims \subseteq Forking \cup {"shell"}

Waiting ==
  /\ waiting \in Seq(DOMAIN jobs) /\ (pc = "wait" => waiting # <<>>)
  /\ (pc = "prompt" => waiting = <<>>)

\* TypeOK in parts.
LEMMA TypeParts ==
  TypeOK <=> /\ Scalars /\ Waiting /\ jobs \in Seq(Job)
             /\ writeEnds \cup readEnds \subseteq Holders
BY DEF TypeOK, Scalars, Waiting, Holders, Job, States

\* The same parts after a step.
LEMMA TypeFromParts ==
  ASSUME Scalars', Waiting', jobs' \in Seq(Job), writeEnds' \cup readEnds' \subseteq Holders'
  PROVE  TypeOK'
BY DEF TypeOK, Scalars, Waiting, Holders, Job, States

\* A child that ends gives up its ends of the pipe.
LEMMA EndKeepsHolders ==
  ASSUME TypeOK, NEW js \in SUBSET DOMAIN jobs, End(js)
  PROVE  writeEnds' \cup readEnds' \subseteq Holders'
<1>1. /\ DOMAIN jobs' = DOMAIN jobs
      /\ \A i \in DOMAIN jobs : i \notin js => jobs'[i].state = jobs[i].state
  BY TypeParts, EndOfJobs
<1>2. writeEnds' \cup readEnds' \subseteq (Holders \ js) \cup {shell}
  BY TypeParts DEF End, CloseAll
<1>3. (Holders \ js) \cup {shell} \subseteq Holders'
  BY <1>1 DEF Holders, Dead, shell
<1> QED
  BY <1>2, <1>3

\* The children of a Matured step that is not an End.
LEMMA AliveKeepsHolders ==
  ASSUME TypeOK, Matured, writeEnds' \subseteq writeEnds, readEnds' \subseteq readEnds,
         \A j \in DOMAIN jobs : Dead(j)' => Dead(j)
  PROVE  writeEnds' \cup readEnds' \subseteq Holders'
<1>1. Holders \subseteq Holders'
  BY DEF Matured, Holders, shell
<1> QED
  BY <1>1, TypeParts

\* Types are kept by what a child does.
LEMMA ChildKeepsType ==
  ASSUME TypeOK, NEW j \in DOMAIN jobs, Child(j) \/ Finish(j) \/ Stop(j) \/ Continue(j)
  PROVE  TypeOK'
<1>1. Scalars /\ Waiting /\ jobs \in Seq(Job) /\ jobs[j] \in Job
  BY TypeParts, ElementOfSeq
<1>2. Matured
  BY StepMatures
<1>3. UNCHANGED <<pc, ignoring, waiting>>
  BY DEF Child, Exec, Write, Read, Finish, Stop, Continue
<1>4. Waiting'
  BY <1>1, <1>2, <1>3 DEF Waiting, Matured
<1>5. input' \in 0 .. PipeSize
  <2>1. CASE UNCHANGED input
    BY <1>1, <2>1 DEF Scalars
  <2>2. CASE input < PipeSize /\ input' = input + 1
    BY <1>1, <2>2, ShellAssumption DEF Scalars
  <2>3. CASE input # 0 /\ input' = input - 1
    BY <1>1, <2>3, ShellAssumption DEF Scalars
  <2> QED
    BY <2>1, <2>2, <2>3 DEF Child, Exec, Write, Read, Finish, Stop, Continue, pipe
<1>6. Scalars'
  <2>1. victims' \subseteq victims \cup {jobs[j].role}
    BY DEF Child, Exec, Write, Read, Finish, Stop, Continue
  <2> QED
    BY <1>1, <1>3, <1>5, <2>1 DEF Scalars, Job
<1>7. writeEnds' \cup readEnds' \subseteq Holders'
  <2>1. CASE End({j})
    BY <2>1, EndKeepsHolders
  <2>2. CASE ~End({j})
    <3>1. writeEnds' \subseteq writeEnds /\ readEnds' \subseteq readEnds
      BY <2>2 DEF Child, Exec, Write, Read, Finish, Stop, Continue, pipe
    <3>2. \/ UNCHANGED jobs
          \/ \E e \in Job :
               e.state \in {"running", "stopped"} /\ jobs' = [jobs EXCEPT ![j] = e]
      BY <1>1, <2>2 DEF Child, Exec, Write, Read, Finish, Stop, Continue, Job, States,
                        IgnoresSigint
    <3>3. \A i \in DOMAIN jobs : Dead(i)' => Dead(i)
      BY <3>2 DEF Dead
    <3> QED
      BY <1>2, <3>1, <3>3, AliveKeepsHolders
  <2> QED
    BY <2>1, <2>2
<1> QED
  BY <1>2, <1>4, <1>6, <1>7, TypeFromParts DEF Matured

\* A fork keeps the types: the new child is not yet dead when it inherits the ends.
LEMMA ForkKeepsType ==
  ASSUME TypeOK, Fork
  PROVE  TypeOK'
<1> DEFINE n == Len(jobs) + 1
<1>1. Scalars /\ Waiting
  BY TypeParts
<1>2. /\ jobs' \in Seq(Job) /\ DOMAIN jobs' = DOMAIN jobs \cup {n} /\ n \notin DOMAIN jobs
      /\ \A i \in DOMAIN jobs : jobs'[i] = jobs[i]
      /\ jobs'[n] = NewJob
  BY ForkAdds
<1>3. pc' \in {"prompt", "reader", "wait"} /\ pc \in Forking
  BY DEF Fork
<1>4. Waiting'
  <2>1. pc' = "prompt" <=> pc = "parallel"
    BY DEF Fork, Forking
  <2> QED
    BY <2>1, <1>3, ForkWaits DEF Waiting
<1>5. Scalars'
  BY <1>1, <1>3 DEF Scalars, Fork, Forking
<1>6. writeEnds' \cup readEnds' \subseteq writeEnds \cup readEnds \cup {n}
  BY DEF Fork, PassEnds
<1>7. Holders \cup {n} \subseteq Holders'
  BY <1>2 DEF Holders, Dead, NewJob, shell
<1> QED
  BY <1>2, <1>4, <1>5, <1>6, <1>7, TypeParts, TypeFromParts

\* Every step keeps the types.
LEMMA TypeNext == TypeOK /\ [Next]_vars => TypeOK'
<1> SUFFICES ASSUME TypeOK, [Next]_vars PROVE TypeOK'
  OBVIOUS
<1>0. Scalars /\ Waiting /\ jobs \in Seq(Job) /\ writeEnds \cup readEnds \subseteq Holders
  BY TypeParts
<1>1. ASSUME NEW kind \in {"regular", "parallel", "writer"}, Command(kind)
      PROVE  TypeOK'
  <2>1. Scalars'
    BY <1>0, <1>1 DEF Scalars, Command, Forking
  <2>2. Waiting'
    BY <1>0, <1>1 DEF Waiting, Command
  <2>3. Holders' = Holders
    BY <1>1 DEF Holders, Dead, Command
  <2>4. writeEnds' \cup readEnds' \subseteq Holders
    BY <1>0, <1>1 DEF Command, Holders
  <2> QED
    BY <1>0, <1>1, <2>1, <2>2, <2>3, <2>4, TypeFromParts DEF Command
<1>2. CASE Fork
  BY <1>2, ForkKeepsType
<1>3. CASE Exit
  <2>1. Scalars'
    BY <1>0, <1>3 DEF Scalars, Exit, Gone
  <2>2. Waiting'
    BY <1>0, <1>3 DEF Waiting, Exit
  <2>3. Holders' = Holders
    BY <1>3 DEF Holders, Dead, Exit
  <2>4. writeEnds' \cup readEnds' \subseteq Holders
    BY <1>0, <1>3 DEF Exit, CloseAll
  <2> QED
    BY <1>0, <1>3, <2>1, <2>2, <2>3, <2>4, TypeFromParts DEF Exit
<1>4. CASE Wait
  <2>1. Matured
    BY <1>4, WaitMatures
  <2>2. Scalars'
    BY <1>0, <1>4 DEF Scalars, Wait, pipe
  <2>3. waiting' \in Seq(DOMAIN jobs)
    BY <1>0, <1>4, HeadTailProperties DEF Wait, Waiting
  <2>4. Waiting'
    BY <1>4, <2>1, <2>3 DEF Waiting, Wait, Matured
  <2>5. \A i \in DOMAIN jobs : Dead(i)' => Dead(i)
    <3> DEFINE j == Head(waiting)
    <3>1. j \in DOMAIN jobs
      BY <1>0, <1>4, HeadTailProperties DEF Wait, Waiting
    <3>2. \A i \in DOMAIN jobs \ {j} : jobs'[i] = jobs[i]
      BY <1>4 DEF Wait
    <3>3. Is(j, "zombie") \/ jobs' = jobs
      BY <1>4 DEF Wait
    <3> QED
      BY <3>1, <3>2, <3>3 DEF Is, Dead
  <2>6. writeEnds' \cup readEnds' \subseteq Holders'
    BY <1>4, <2>1, <2>5, AliveKeepsHolders DEF Wait, pipe
  <2> QED
    BY <2>1, <2>2, <2>4, <2>6, TypeFromParts DEF Matured
<1>5. CASE Interrupt
  <2> DEFINE struck == {j \in DOMAIN jobs : Alive(j) /\ ~jobs[j].ignoring}
  <2>1. Matured
    BY <1>5, InterruptMatures
  <2>2. End(struck)
    BY <1>5 DEF Interrupt
  <2>3. \A j \in struck : jobs[j].role \in Forking
    <3>1. \A j \in DOMAIN jobs : jobs[j] \in Job
      BY <1>0, ElementOfSeq
    <3> QED
      BY <3>1 DEF Job
  <2>4. Scalars'
    BY <1>0, <1>5, <2>3 DEF Scalars, Interrupt, Gone
  <2>5. Waiting'
    BY <1>0, <1>5, <2>1 DEF Waiting, Interrupt, Matured
  <2>6. writeEnds' \cup readEnds' \subseteq Holders'
    BY <2>2, EndKeepsHolders
  <2> QED
    BY <2>1, <2>4, <2>5, <2>6, TypeFromParts DEF Matured
<1>6. ASSUME NEW j \in DOMAIN jobs, Child(j) \/ Finish(j) \/ Stop(j) \/ Continue(j)
      PROVE  TypeOK'
  BY <1>6, ChildKeepsType
<1>7. CASE UNCHANGED vars
  BY <1>7 DEF vars, pipe, TypeOK, Dead
<1> QED
  BY <1>1, <1>2, <1>3, <1>4, <1>5, <1>6, <1>7 DEF Next

\* The types are right in the initial state.
LEMMA ShellInitType == Init => TypeOK
<1> SUFFICES ASSUME Init PROVE TypeOK
  OBVIOUS
<1>1. Scalars
  <2>1. pc \in Gone \cup Forking \cup {"prompt", "wait"} /\ ignoring \in BOOLEAN
    BY Zenon DEF Init
  <2>2. input \in 0 .. PipeSize /\ victims \subseteq Forking \cup {"shell"}
    BY ShellAssumption DEF Init
  <2> QED
    BY <2>1, <2>2 DEF Scalars
<1>2. Waiting
  BY EmptySeq DEF Init, Waiting
<1>3. jobs \in Seq(Job)
  BY EmptySeq DEF Init
<1>4. writeEnds \cup readEnds \subseteq Holders
  BY DEF Init
<1> QED
  BY <1>1, <1>2, <1>3, <1>4, TypeParts

\* The shell waits for its own children and only then, and an end of the pipe is
\* held by the shell or by a child that has not ended.
THEOREM TypeCorrect == Spec => []TypeOK
BY ShellInitType, TypeNext, PTL DEF Spec

-----------------------------------------------------------------------------
(* SIGINT. *)

\* A step that only ends or changes children keeps the invariant of SIGINT, if it
\* strikes none of those in the background, and the shell only before it has any.
LEMMA MaturedKeepsSigint ==
  ASSUME TypeOK, SigintInv, Matured, UNCHANGED ignoring,
         pc' \in Forking => pc \in Forking,
         "parallel" \notin victims',
         "shell" \in victims' => pc' = "killed" /\ jobs = <<>>
  PROVE  SigintInv'
<1>1. jobs \in Seq(Job)
  BY TypeParts
<1>2. jobs = <<>> <=> jobs' = <<>>
  BY <1>1 DEF Matured
<1>3. IgnoresFromCommand'
  BY <1>2 DEF SigintInv, IgnoresFromCommand
<1>4. BackgroundIgnores'
  BY DEF SigintInv, BackgroundIgnores, Matured
<1>5. Spared'
  BY <1>2 DEF Spared
<1> QED
  BY <1>3, <1>4, <1>5 DEF SigintInv

\* Every step keeps the invariant of SIGINT.
LEMMA SigintNext == TypeOK /\ SigintInv /\ [Next]_vars => SigintInv'
<1> SUFFICES ASSUME TypeOK, SigintInv, [Next]_vars PROVE SigintInv'
  OBVIOUS
<1>0. jobs \in Seq(Job) /\ IgnoresFromCommand /\ BackgroundIgnores /\ Spared
  BY TypeParts DEF SigintInv
<1>1. ASSUME NEW kind \in {"regular", "parallel", "writer"}, Command(kind)
      PROVE  SigintInv'
  BY <1>0, <1>1
     DEF Command, SigintInv, IgnoresFromCommand, BackgroundIgnores, Spared
<1>2. CASE Fork
  <2>1. pc \in Forking /\ ignoring /\ UNCHANGED <<ignoring, victims>>
    BY <1>0, <1>2 DEF Fork, IgnoresFromCommand
  <2>2. "shell" \notin victims
    BY <1>0, <2>1 DEF Spared, Forking
  <2>3. NewJob.ignoring = ignoring
    BY DEF NewJob
  <2>4. BackgroundIgnores'
    BY <1>0, <1>2, <2>1, <2>3, ForkAdds DEF BackgroundIgnores
  <2> QED
    BY <1>0, <2>1, <2>2, <2>4 DEF SigintInv, IgnoresFromCommand, Spared
<1>3. CASE Exit
  <2>1. "shell" \notin victims
    BY <1>0, <1>3 DEF Exit, Spared, Forking
  <2> QED
    BY <1>0, <1>3, <2>1
       DEF Exit, SigintInv, IgnoresFromCommand, BackgroundIgnores, Spared, Forking
<1>4. CASE Wait
  <2>1. Matured
    BY <1>4, WaitMatures
  <2>2. UNCHANGED <<ignoring, victims>> /\ pc = "wait" /\ pc' \notin Forking
    BY <1>4 DEF Wait, Forking
  <2> QED
    BY <1>0, <2>1, <2>2, MaturedKeepsSigint DEF Spared
<1>5. CASE Interrupt
  <2> DEFINE struck == {j \in DOMAIN jobs : Alive(j) /\ ~jobs[j].ignoring}
             dies == ~ignoring /\ pc \notin Gone
  <2>1. Matured
    BY <1>5, InterruptMatures
  <2>2. /\ pc' = (IF dies THEN "killed" ELSE pc) /\ UNCHANGED ignoring
        /\ victims' = victims \cup {jobs[j].role : j \in struck}
                              \cup (IF dies THEN {"shell"} ELSE {})
    BY <1>5 DEF Interrupt
  <2>3. \A j \in struck : jobs[j].role # "parallel" /\ jobs[j].role # "shell"
    <3>1. \A j \in DOMAIN jobs : jobs[j] \in Job
      BY <1>0, ElementOfSeq
    <3> QED
      BY <1>0, <3>1 DEF BackgroundIgnores, Job, Forking
  <2>4. "parallel" \notin victims'
    BY <1>0, <2>2, <2>3 DEF Spared
  <2>5. "shell" \in victims' => dies \/ "shell" \in victims
    BY <2>2, <2>3
  <2>6. dies => jobs = <<>> /\ pc' = "killed"
    BY <1>0, <2>2 DEF IgnoresFromCommand
  <2>7. "shell" \in victims => pc' = "killed" /\ jobs = <<>>
    BY <1>0, <2>2 DEF Spared
  <2> QED
    BY <2>1, <2>2, <2>4, <2>5, <2>6, <2>7, MaturedKeepsSigint DEF Forking
<1>6. ASSUME NEW j \in DOMAIN jobs, Child(j) \/ Finish(j) \/ Stop(j) \/ Continue(j)
      PROVE  SigintInv'
  <2>1. Matured
    BY <1>6, StepMatures
  <2>2. UNCHANGED <<pc, ignoring>>
    BY <1>6 DEF Child, Exec, Write, Read, Finish, Stop, Continue
  <2>3. victims' = victims \/ (~jobs[j].ignoring /\ victims' = victims \cup {jobs[j].role})
    BY <1>6 DEF Child, Exec, Write, Read, Finish, Stop, Continue
  <2>4. jobs[j] \in Job
    BY <1>0, ElementOfSeq
  <2>5. ~jobs[j].ignoring => jobs[j].role # "parallel" /\ jobs[j].role # "shell"
    BY <1>0, <2>4 DEF BackgroundIgnores, Job, Forking
  <2> QED
    BY <1>0, <2>1, <2>2, <2>3, <2>5, MaturedKeepsSigint DEF Spared
<1>7. CASE UNCHANGED vars
  BY <1>0, <1>7
     DEF vars, SigintInv, IgnoresFromCommand, BackgroundIgnores, Spared
<1> QED
  BY <1>1, <1>2, <1>3, <1>4, <1>5, <1>6, <1>7 DEF Next

\* The invariant of SIGINT holds in the initial state.
LEMMA SigintInit == Init => SigintInv
BY DEF Init, SigintInv, IgnoresFromCommand, BackgroundIgnores, Spared, Forking

\* SIGINT ends no child in the background, at no point of its life, and the shell
\* only before it was given a command (myshell.c:53, 129, 270).
THEOREM SigintIsSpared == Spec => []SigintSpares
<1>1. SigintInv => SigintSpares
  BY DEF SigintInv, Spared, SigintSpares
<1> QED
  BY <1>1, ShellInitType, SigintInit, TypeNext, SigintNext, PTL DEF Spec

-----------------------------------------------------------------------------
(* The prompt. *)

\* What a child does, and a SIGINT, keeps the invariant of the prompt.
LEMMA MaturedKeepsPrompt ==
  ASSUME TypeOK, PromptInv, Matured, UNCHANGED waiting,
         pc' = pc \/ pc' \in Gone \/ pc' = "wait",
         shell \in writeEnds' \cup readEnds' =>
           pc' = pc /\ shell \in writeEnds \cup readEnds
  PROVE  PromptInv'
<1>1. Attended'
  BY DEF Attended, PromptInv, Matured, Is, Awaited
<1>2. EndsHeld' /\ NobodyAwaited'
  BY DEF PromptInv, EndsHeld, NobodyAwaited, Gone, shell
<1> QED
  BY <1>1, <1>2 DEF PromptInv

\* A fork in the foreground is followed by a wait, and the second fork of a pipeline
\* by the end of the shell's ends of the pipe.
LEMMA ForkKeepsPrompt ==
  ASSUME TypeOK, PromptInv, Fork
  PROVE  PromptInv'
<1> DEFINE n == Len(jobs) + 1
<1>1. Attended /\ EndsHeld /\ NobodyAwaited
  BY DEF PromptInv
<1>2. Attended'
  <2>1. /\ NewJob.role = pc /\ NewJob.state = "new"
        /\ DOMAIN jobs' = DOMAIN jobs \cup {n}
        /\ \A i \in DOMAIN jobs : jobs'[i] = jobs[i]
        /\ jobs'[n] = NewJob
    BY ForkAdds DEF NewJob
  <2>2. pc = "parallel" => waiting = <<>>
    BY <1>1 DEF NobodyAwaited
  <2>3. \A i \in DOMAIN jobs : Awaited(i) => Awaited(i)'
    <3>1. CASE pc = "parallel"
      BY <2>2, <3>1 DEF Awaited
    <3>2. CASE pc # "parallel"
      BY <3>2, ForkWaits
    <3> QED
      BY <3>1, <3>2
  <2>4. ASSUME NEW i \in DOMAIN jobs
        PROVE  /\ \/ jobs'[i].role = "parallel" \/ jobs'[i].state = "reaped"
                  \/ jobs'[i].stopped \/ Awaited(i)'
               /\ jobs'[i].state = "stopped" => jobs'[i].stopped
    BY <1>1, <2>1, <2>3 DEF Attended, Is
  <2>5. /\ jobs'[n].role = "parallel" \/ \E i \in DOMAIN waiting' : waiting'[i] = n
        /\ jobs'[n].state # "stopped"
    BY <2>1, ForkWaits
  <2> QED
    BY <2>1, <2>4, <2>5 DEF Attended, Is, Awaited
<1>3. EndsHeld'
  <2>1. pc # "reader" => shell \notin writeEnds' \cup readEnds' \/ pc = "writer"
    BY <1>1, ForkAdds DEF Fork, PassEnds, EndsHeld, shell
  <2>2. pc = "reader" => shell \notin writeEnds' \cup readEnds'
    BY ForkAdds DEF Fork, PassEnds, shell
  <2>3. pc = "writer" => pc' = "reader"
    BY DEF Fork
  <2> QED
    BY <2>1, <2>2, <2>3 DEF EndsHeld
<1>4. NobodyAwaited'
  BY ForkWaits DEF Fork, NobodyAwaited, Forking
<1> QED
  BY <1>2, <1>3, <1>4 DEF PromptInv

\* Every step keeps the invariant of the prompt; that the shell is not killed between
\* pipe and the second fork takes the invariant of SIGINT.
LEMMA PromptNext == TypeOK /\ SigintInv /\ PromptInv /\ [Next]_vars => PromptInv'
<1> SUFFICES ASSUME TypeOK, SigintInv, PromptInv, [Next]_vars PROVE PromptInv'
  OBVIOUS
<1>0. Attended /\ EndsHeld /\ NobodyAwaited /\ Waiting /\ IgnoresFromCommand
  BY TypeParts DEF PromptInv, SigintInv
<1>1. ASSUME NEW kind \in {"regular", "parallel", "writer"}, Command(kind)
      PROVE  PromptInv'
  <2>1. UNCHANGED <<jobs, waiting>> /\ pc = "prompt" /\ pc' = kind /\ waiting = <<>>
    BY <1>0, <1>1 DEF Command, Waiting
  <2>2. Attended'
    BY <1>0, <2>1 DEF Attended, Is, Awaited
  <2>3. EndsHeld'
    BY <1>0, <1>1, <2>1 DEF EndsHeld, Command
  <2>4. NobodyAwaited'
    BY <2>1 DEF NobodyAwaited
  <2> QED
    BY <2>2, <2>3, <2>4 DEF PromptInv
<1>2. CASE Fork
  BY <1>2, ForkKeepsPrompt
<1>3. CASE Exit
  <2>1. UNCHANGED <<jobs, waiting>> /\ pc' = "exited" /\ shell \notin writeEnds' \cup readEnds'
    BY <1>3 DEF Exit, CloseAll
  <2>2. Attended'
    BY <1>0, <2>1 DEF Attended, Is, Awaited
  <2> QED
    BY <2>1, <2>2 DEF PromptInv, EndsHeld, NobodyAwaited
<1>4. CASE Wait
  <2>1. Matured
    BY <1>4, WaitMatures
  <2>2. Attended'
    BY <1>0, <1>4, <2>1, WaitTakes DEF Attended, Matured, Is
  <2>3. EndsHeld' /\ NobodyAwaited'
    BY <1>0, <1>4 DEF Wait, EndsHeld, NobodyAwaited, pipe
  <2> QED
    BY <2>2, <2>3 DEF PromptInv
<1>5. CASE Interrupt
  <2>1. Matured
    BY <1>5, InterruptMatures
  <2>2. /\ UNCHANGED waiting /\ (pc' = pc \/ pc' = "killed")
        /\ writeEnds' \subseteq writeEnds /\ readEnds' \subseteq readEnds
    BY <1>5 DEF Interrupt, End, CloseAll
  <2>3. pc' # pc => shell \notin writeEnds \cup readEnds
    <3>1. pc' # pc => ~ignoring
      BY <1>5 DEF Interrupt
    <3> QED
      BY <1>0, <3>1 DEF EndsHeld, IgnoresFromCommand, Forking
  <2> QED
    BY <2>1, <2>2, <2>3, MaturedKeepsPrompt DEF Gone
<1>6. ASSUME NEW j \in DOMAIN jobs, Child(j) \/ Finish(j) \/ Stop(j) \/ Continue(j)
      PROVE  PromptInv'
  <2>1. Matured
    BY <1>6, StepMatures
  <2>2. /\ UNCHANGED <<waiting, pc>>
        /\ writeEnds' \subseteq writeEnds /\ readEnds' \subseteq readEnds
    BY <1>6 DEF Child, Exec, Write, Read, Finish, Stop, Continue, End, CloseAll, pipe
  <2> QED
    BY <2>1, <2>2, MaturedKeepsPrompt
<1>7. CASE UNCHANGED vars
  BY <1>0, <1>7
     DEF vars, pipe, PromptInv, Attended, EndsHeld, NobodyAwaited, Is, Awaited
<1> QED
  BY <1>1, <1>2, <1>3, <1>4, <1>5, <1>6, <1>7 DEF Next

\* When the shell prompts, it holds no end of a pipe, and every child it has started
\* in the foreground is reaped, or was left behind when it was stopped
\* (myshell.c:140-141, 234-237).
THEOREM PromptIsAlwaysClean == Spec => []PromptIsClean
<1>1. Init => PromptInv
  BY DEF Init, PromptInv, Attended, EndsHeld, NobodyAwaited
<1>2. TypeOK /\ PromptInv => PromptIsClean
  <2> SUFFICES ASSUME TypeOK, PromptInv, pc = "prompt" PROVE PromptIsClean
    BY DEF PromptIsClean
  <2>1. waiting = <<>>
    BY TypeParts DEF Waiting
  <2>2. \A j \in DOMAIN jobs : ~Awaited(j)
    BY <2>1 DEF Awaited
  <2> QED
    BY <2>2 DEF PromptInv, Attended, EndsHeld, PromptIsClean
<1> QED
  BY <1>1, <1>2, ShellInitType, SigintInit, TypeNext, SigintNext, PromptNext, PTL DEF Spec
==============================================================================
