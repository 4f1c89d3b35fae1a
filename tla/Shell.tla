-------------------------------- MODULE Shell --------------------------------
(***************************************************************************)
(* myshell (Assignment 2): the shell and the processes it starts, one in   *)
(* the foreground, one in the background, or two with a pipe between them. *)
(* Ctrl-C sends SIGINT to all of them, since none leaves the process group *)
(* of the shell.  A child keeps the shell's disposition, IGNORE, until it  *)
(* calls handle_sigint(1), and across execvp.                              *)
(*                                                                         *)
(* The handler of SIGCHLD is wiped by memset before sigaction installs it  *)
(* (156-159), so a background child that ends stays a zombie.  Programs    *)
(* that read a pipe read to its end or stop by themselves; programs that   *)
(* write to one may go on forever.                                         *)
(***************************************************************************)
EXTENDS Integers, Sequences

CONSTANTS
  PipeSize,         \* how much a pipe holds
  MaxJobs           \* bound: how many processes the shell starts

ASSUME ShellAssumption == PipeSize \in Nat \ {0} /\ MaxJobs \in Nat

VARIABLES
  pc,               \* where the shell is, or how it ended
  ignoring,         \* whether the shell ignores SIGINT
  jobs,             \* its children, in the order they were forked
  waiting,          \* those waitpid is still to be called for
  writeEnds, readEnds, input,   \* who holds the ends of the pipe, what it holds
  victims           \* history: what SIGINT has ended

pipe == <<writeEnds, readEnds, input>>
vars == <<pc, ignoring, jobs, waiting, pipe, victims>>

shell == 0          \* jobs are numbered from 1
Gone == {"exited", "killed"}
Forking == {"regular", "parallel", "writer", "reader"}

Init ==
  /\ pc = "prompt" /\ ignoring = FALSE /\ jobs = <<>> /\ waiting = <<>>
  /\ writeEnds = {} /\ readEnds = {} /\ input = 0 /\ victims = {}

Is(j, state) == jobs[j].state = state
Alive(j) == jobs[j].state \in {"new", "running"}
Dead(j) == jobs[j].state \in {"zombie", "reaped"}

CloseAll(ps) == writeEnds' = writeEnds \ ps /\ readEnds' = readEnds \ ps

-----------------------------------------------------------------------------
(* The shell. *)

\* process_arglist up to the first fork.  Bound: one pipeline is run.
Command(kind) ==
  /\ pc = "prompt" /\ pc' = kind /\ ignoring' = TRUE
  /\ Len(jobs) + (IF kind = "writer" THEN 2 ELSE 1) <= MaxJobs
  /\ IF kind = "writer"
     THEN /\ \A j \in DOMAIN jobs : jobs[j].role # "writer"
          /\ writeEnds' = {shell} /\ readEnds' = {shell}
     ELSE UNCHANGED <<writeEnds, readEnds>>
  /\ UNCHANGED <<jobs, waiting, input, victims>>

\* Altered form: the shell keeps its ends of the pipe.
KeepEnds(j) ==
  /\ writeEnds' = writeEnds \cup {i \in {j} : shell \in writeEnds}
  /\ readEnds' = readEnds \cup {i \in {j} : shell \in readEnds}

\* The child inherits the ends the shell holds; the shell closes its own when
\* both children are there.
PassEnds(j) ==
  /\ writeEnds' = (IF pc = "reader" THEN writeEnds \ {shell} ELSE writeEnds)
                    \cup {i \in {j} : shell \in writeEnds}
  /\ readEnds' = (IF pc = "reader" THEN readEnds \ {shell} ELSE readEnds)
                    \cup {i \in {j} : shell \in readEnds}

\* Altered forms: the last child is waited for, or those of a pipeline.
WaitedLast(j) == IF pc = "parallel" THEN <<>> ELSE <<j>>
WaitedPiped(j) == IF pc \in {"writer", "reader"} THEN Append(waiting, j) ELSE <<>>

Waited(j) == IF pc = "parallel" THEN <<>> ELSE Append(waiting, j)

Fork ==
  LET j == Len(jobs) + 1
  IN
  /\ pc \in Forking
  /\ jobs' = Append(jobs, [role |-> pc, state |-> "new", ignoring |-> ignoring,
                           stopped |-> FALSE])
  /\ PassEnds(j) /\ waiting' = Waited(j)
  /\ pc' = CASE pc = "parallel" -> "prompt" [] pc = "writer" -> "reader"
             [] OTHER -> "wait"
  /\ UNCHANGED <<ignoring, input, victims>>

\* fork or pipe fails; or getline finds the end of the input.
Exit ==
  /\ pc \in Forking \cup {"prompt"} /\ pc' = "exited"
  /\ CloseAll({shell})
  /\ UNCHANGED <<ignoring, jobs, waiting, input, victims>>

\* With WUNTRACED a child that is stopped is waited for no longer.
Wait ==
  LET j == Head(waiting)
  IN
  /\ pc = "wait" /\ (Is(j, "zombie") \/ Is(j, "stopped"))
  /\ jobs' = IF Is(j, "zombie") THEN [jobs EXCEPT ![j].state = "reaped"] ELSE jobs
  /\ waiting' = Tail(waiting)
  /\ pc' = IF Tail(waiting) = <<>> THEN "prompt" ELSE pc
  /\ UNCHANGED <<ignoring, pipe, victims>>

-----------------------------------------------------------------------------
(* The children. *)

End(js) ==
  /\ jobs' = [i \in DOMAIN jobs |->
       IF i \in js THEN [jobs[i] EXCEPT !.state = "zombie"] ELSE jobs[i]]
  /\ CloseAll(js)

\* Altered form: no child ignores SIGINT.
IgnoresNever(role) == FALSE

IgnoresSigint(role) == role = "parallel"

\* handle_sigint, the redirections and a successful execvp.
Exec(j) ==
  /\ Is(j, "new")
  /\ jobs' = [jobs EXCEPT ![j].state = "running",
                          ![j].ignoring = IgnoresSigint(jobs[j].role)]
  /\ writeEnds' = IF jobs[j].role = "reader" THEN writeEnds \ {j} ELSE writeEnds
  /\ readEnds' = IF jobs[j].role = "writer" THEN readEnds \ {j} ELSE readEnds
  /\ UNCHANGED <<pc, ignoring, waiting, input, victims>>

\* execvp fails, or the program comes to its end.
Finish(j) ==
  /\ Alive(j) /\ End({j})
  /\ UNCHANGED <<pc, ignoring, waiting, input, victims>>

\* Without a reader left the writer gets a SIGPIPE.
Write(j) ==
  /\ jobs[j].role = "writer" /\ Is(j, "running")
  /\ IF readEnds = {} THEN End({j}) /\ UNCHANGED input
     ELSE input < PipeSize /\ input' = input + 1 /\ UNCHANGED <<jobs, writeEnds, readEnds>>
  /\ UNCHANGED <<pc, ignoring, waiting, victims>>

\* Without a writer left the reader finds the end of its input.
Read(j) ==
  /\ jobs[j].role = "reader" /\ Is(j, "running")
  /\ IF input = 0 THEN writeEnds = {} /\ End({j}) /\ UNCHANGED input
     ELSE input' = input - 1 /\ UNCHANGED <<jobs, writeEnds, readEnds>>
  /\ UNCHANGED <<pc, ignoring, waiting, victims>>

-----------------------------------------------------------------------------
(* Signals. *)

Interrupt ==
  LET struck == {j \in DOMAIN jobs : Alive(j) /\ ~jobs[j].ignoring}
      dies == ~ignoring /\ pc \notin Gone
  IN
  /\ struck # {} \/ dies
  /\ End(struck)
  /\ pc' = IF dies THEN "killed" ELSE pc
  /\ victims' = victims \cup {jobs[j].role : j \in struck}
                        \cup (IF dies THEN {"shell"} ELSE {})
  /\ UNCHANGED <<ignoring, waiting, input>>

\* Bound: a child is stopped once.
Stop(j) ==
  /\ Is(j, "running") /\ ~jobs[j].stopped
  /\ jobs' = [jobs EXCEPT ![j].state = "stopped", ![j].stopped = TRUE]
  /\ UNCHANGED <<pc, ignoring, waiting, pipe, victims>>

\* A SIGINT that has come meanwhile takes effect now.
Continue(j) ==
  /\ Is(j, "stopped")
  /\ \/ /\ jobs' = [jobs EXCEPT ![j].state = "running"]
        /\ UNCHANGED <<writeEnds, readEnds, victims>>
     \/ /\ ~jobs[j].ignoring /\ End({j})
        /\ victims' = victims \cup {jobs[j].role}
  /\ UNCHANGED <<pc, ignoring, waiting, input>>

-----------------------------------------------------------------------------

Child(j) == Exec(j) \/ Write(j) \/ Read(j)

Next ==
  \/ \E kind \in {"regular", "parallel", "writer"} : Command(kind)
  \/ Fork \/ Exit \/ Wait \/ Interrupt
  \/ \E j \in DOMAIN jobs : Child(j) \/ Finish(j) \/ Stop(j) \/ Continue(j)

Spec == Init /\ [][Next]_vars

\* The scheduler runs the shell and every child that can go on; no program has to
\* end by itself.
FairSpec ==
  /\ Spec /\ WF_vars(Fork) /\ WF_vars(Wait)
  /\ \A j \in 1 .. MaxJobs : WF_vars(j \in DOMAIN jobs /\ Child(j))

-----------------------------------------------------------------------------

\* The shell waits for children of its own, and only then; an end of the pipe is
\* held by the shell or by a child that has not ended.
TypeOK ==
  /\ pc \in Gone \cup Forking \cup {"prompt", "wait"}
  /\ ignoring \in BOOLEAN /\ input \in 0 .. PipeSize
  /\ jobs \in Seq([role : Forking, ignoring : BOOLEAN, stopped : BOOLEAN,
                   state : {"new", "running", "stopped", "zombie", "reaped"}])
  /\ waiting \in Seq(DOMAIN jobs) /\ (pc = "wait" => waiting # <<>>)
  /\ (pc = "prompt" => waiting = <<>>)
  /\ writeEnds \cup readEnds \subseteq {shell} \cup {j \in DOMAIN jobs : ~Dead(j)}
  /\ victims \subseteq Forking \cup {"shell"}

\* SIGINT ends no background child, at no point of its life, and the shell only
\* before it was given a command (myshell.c:53, 129, 270).
SigintSpares ==
  "parallel" \notin victims /\ ("shell" \in victims => jobs = <<>>)

\* When the shell prompts, it holds no end of a pipe, and every foreground child
\* it has started is reaped, or was left behind when it was stopped
\* (myshell.c:140-141, 234-237).
PromptIsClean ==
  pc = "prompt" =>
    /\ shell \notin writeEnds \cup readEnds
    /\ \A j \in DOMAIN jobs :
         jobs[j].role = "parallel" \/ Is(j, "reaped") \/ jobs[j].stopped

\* When a foreground child has ended, the shell prompts again, although the other
\* child of a pipeline may read until the end of its input or write forever; and
\* a writer left alone, because the second fork failed, ends
\* (myshell.c:196, 219, 210-214, 234-237).
PipelineEnds ==
  /\ (pc = "wait" /\ \E i \in DOMAIN waiting : Dead(waiting[i])) ~> pc # "wait"
  /\ (pc \in Gone /\ \A j \in DOMAIN jobs : jobs[j].role # "reader")
       ~> \A j \in DOMAIN jobs : jobs[j].role = "writer" => ~Alive(j)
==============================================================================
