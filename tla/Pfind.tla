-------------------------------- MODULE Pfind --------------------------------
(***************************************************************************)
(* pfind (Assignment 4): a parallel search of a directory tree.            *)
(*                                                                         *)
(* Worker threads share a FIFO of directories.  A worker takes a           *)
(* directory, scans it, counts the matching files and appends the          *)
(* subdirectories.  A worker that finds the FIFO empty counts itself as    *)
(* sleeping and waits on queue_not_empty.  The main thread decides from    *)
(* three counters that the search is over and prints the result.           *)
(*                                                                         *)
(* Grain of atomicity: a critical section that takes no other lock is one  *)
(* action, and so is an unprotected access to a shared variable together   *)
(* with the thread-local code next to it.  queue_is_free_lock is the one   *)
(* lock held while another is taken (lines 290-302), so its owner is a     *)
(* variable.  The threads inside pthread_cond_wait are those whose program *)
(* counter says so, and a broadcast or signal moves them on.               *)
(***************************************************************************)
EXTENDS Integers, Sequences, FiniteSets

CONSTANTS
  Threads,          \* the workers; threads_limit is their number
  Dirs, Files,      \* what the file system holds below the searched root
  Root,             \* original_directory
  Contents,         \* what readdir returns for a directory, "." and ".." aside
  Matching,         \* the entries whose name contains searched_str
  Unopenable,       \* the directories on which opendir fails
  Unstatable,       \* the entries on which lstat fails
  CreateFails,      \* the workers for which pthread_create may fail
  SpuriousWakeups,  \* whether pthread_cond_wait may return without a signal
  None              \* no thread, no entry

Entries == Dirs \cup Files

ASSUME PfindAssumption ==
  /\ Threads # {} /\ IsFiniteSet(Threads)
  /\ IsFiniteSet(Dirs) /\ IsFiniteSet(Files) /\ Dirs \cap Files = {}
  /\ Root \in Dirs
  /\ Contents \in [Dirs -> SUBSET Entries]
  /\ \A d \in Dirs : Root \notin Contents[d]
  /\ \A d, e \in Dirs : d # e => Contents[d] \cap Contents[e] = {}
  /\ Matching \subseteq Entries
  /\ Unopenable \subseteq Dirs
  /\ Unstatable \subseteq Entries
  /\ CreateFails \subseteq Threads
  /\ SpuriousWakeups \in BOOLEAN
  /\ None \notin Threads \cup Entries

VARIABLES
  \* shared memory, under the names the program gives it
  directories_queue, empty_queue, can_start, run_ended,
  thread_errors_cntr, living_threads, sleeping_threads_available,
  counter, all_threads_are_error,
  queue_lock,       \* the owner of queue_is_free_lock
  \* workers
  pc,               \* where each worker is
  curr_directory,   \* the directory it scans
  todo,             \* the entries its readdir has yet to return
  item,             \* the entry it is about to enqueue or count
  res,              \* whether an lstat of this scan failed
  \* main
  mpc,              \* where main is
  m_errored, m_sleeping, m_finished,  \* locals of check_threads_running
  reported,         \* the count main printed, -1 before it did
  \* history
  scanned           \* the directories whose scan has returned

queueVars   == <<directories_queue, empty_queue, queue_lock>>
napVars     == <<sleeping_threads_available>>
deathVars   == <<thread_errors_cntr, living_threads>>
scanVars    == <<curr_directory, todo, item, res, scanned>>
checkVars   == <<m_errored, m_sleeping, m_finished>>
endVars     == <<can_start, run_ended, all_threads_are_error, reported>>
vars == <<queueVars, napVars, deathVars, scanVars, checkVars, endVars,
          counter, pc, mpc>>

threads_limit == Cardinality(Threads)

WorkerLabels ==
  {"unborn", "unopened", "gate", "gate_wait", "loop", "slot", "slot_wait",
   "dequeue", "opendir", "readdir", "enqueue", "broadcast", "count",
   "error", "signal", "dead", "nap", "napped", "asleep", "woken", "unsleep",
   "returned"}

MainLabels ==
  {"run", "create", "baseline", "read_errors", "read_sleeping", "read_living",
   "check_sleeping", "check_errors", "wait", "waiting", "ended", "print",
   "exit"}

\* The workers counted in sleeping_threads_available: those between the
\* increment of line 284 and the decrement of line 298.
Napping == {"napped", "asleep", "woken", "unsleep"}

\* The workers inside folder_scan.
Scanning == {"opendir", "readdir", "enqueue", "broadcast", "count"}

Init ==
  /\ directories_queue = <<>> /\ empty_queue = TRUE /\ queue_lock = None
  /\ can_start = FALSE /\ run_ended = FALSE /\ all_threads_are_error = FALSE
  /\ thread_errors_cntr = 0 /\ living_threads = 0
  /\ sleeping_threads_available = 0 /\ counter = 0
  /\ pc = [t \in Threads |-> "unborn"]
  /\ curr_directory = [t \in Threads |-> None]
  /\ todo = [t \in Threads |-> {}]
  /\ item = [t \in Threads |-> None]
  /\ res = [t \in Threads |-> FALSE]
  /\ mpc = "run"
  /\ m_errored = 0 /\ m_sleeping = 0 /\ m_finished = FALSE
  /\ reported = -1
  /\ scanned = {}

Goto(t, label) == pc' = [pc EXCEPT ![t] = label]

\* Everyone in pthread_cond_wait(from) goes to retake the mutex at "to".
Broadcast(f, from, to) == [t \in Threads |-> IF f[t] = from THEN to ELSE f[t]]

\* pthread_cond_broadcast(&new_sleeping_thread): main and the workers blocked
\* at the top of their loop wait on it; f is pc after the caller's own step.
BroadcastNewSleepingThread(f) ==
  /\ pc' = Broadcast(f, "slot_wait", "slot")
  /\ mpc' = IF mpc = "waiting" THEN "read_errors" ELSE mpc

-----------------------------------------------------------------------------
(* The FIFO: a linked list with front and rear, seen as a sequence. *)

\* Altered form: q->rear->next is not set, so a second node is never linked.
enQueueUnlinked(q, k) == IF q = <<>> THEN <<k>> ELSE q

enQueue(q, k) == Append(q, k)

\* Altered form: front is not moved.
deQueueKeepsFront(q) == q

deQueue(q) == Tail(q)

-----------------------------------------------------------------------------
(* The start-up gate of thread_routine. *)

\* can_start is read under all_threads_initiated_lock.
PassGate(t) ==
  /\ pc[t] = "gate"
  /\ Goto(t, IF can_start THEN "loop" ELSE "gate_wait")
  /\ UNCHANGED <<queueVars, napVars, deathVars, scanVars, checkVars, endVars,
                 counter, mpc>>

-----------------------------------------------------------------------------
(* The loop of thread_routine. *)

LoopTest(t) ==
  /\ pc[t] = "loop"
  /\ Goto(t, IF run_ended THEN "returned" ELSE "slot")
  /\ UNCHANGED <<queueVars, napVars, deathVars, scanVars, checkVars, endVars,
                 counter, mpc>>

\* Blocks until main has contributed the first unit of
\* sleeping_threads_available.
AwaitSleepingThread(t) ==
  /\ pc[t] = "slot"
  /\ Goto(t, IF sleeping_threads_available = 0 THEN "slot_wait" ELSE "dequeue")
  /\ UNCHANGED <<queueVars, napVars, deathVars, scanVars, checkVars, endVars,
                 counter, mpc>>

\* Altered form: the worker polls instead of going to sleep.
DequeueNothingPolls(t) ==
  /\ pc[t] = "dequeue" /\ queue_lock = None
  /\ directories_queue = <<>>
  /\ empty_queue' = TRUE
  /\ Goto(t, "loop")
  /\ UNCHANGED <<directories_queue, queue_lock, napVars, deathVars, scanVars,
                 checkVars, endVars, counter, mpc>>

DequeueNothing(t) ==
  /\ pc[t] = "dequeue" /\ queue_lock = None
  /\ directories_queue = <<>>
  /\ empty_queue' = TRUE
  /\ Goto(t, "nap")
  /\ UNCHANGED <<directories_queue, queue_lock, napVars, deathVars, scanVars,
                 checkVars, endVars, counter, mpc>>

DequeueDirectory(t) ==
  /\ pc[t] = "dequeue" /\ queue_lock = None
  /\ directories_queue # <<>>
  /\ directories_queue' = deQueue(directories_queue)
  /\ curr_directory' = [curr_directory EXCEPT ![t] = Head(directories_queue)]
  /\ Goto(t, "opendir")
  /\ UNCHANGED <<empty_queue, queue_lock, napVars, deathVars, todo, item, res,
                 scanned, checkVars, endVars, counter, mpc>>

-----------------------------------------------------------------------------
(* folder_scan. *)

\* Altered form: after a scan a worker sleeps without a look at the FIFO.
AfterScanSleeps(failed) == IF failed THEN "error" ELSE "nap"

\* What thread_routine does with the result of folder_scan.
AfterScan(failed) == IF failed THEN "error" ELSE "loop"

\* Altered form: the arguments of strstr are swapped, and a name is not contained
\* in a shorter string.
NameContained(e) == FALSE

\* strstr(current_dir->d_name, searched_str) != NULL
NameMatches(e) == e \in Matching

\* opendir succeeds; it fails on a file that a stale st_mode made a directory.
Opendir(t) ==
  /\ pc[t] = "opendir"
  /\ curr_directory[t] \in Dirs \ Unopenable
  /\ todo' = [todo EXCEPT ![t] = Contents[curr_directory[t]]]
  /\ Goto(t, "readdir")
  /\ UNCHANGED <<queueVars, napVars, deathVars, curr_directory, item, res,
                 scanned, checkVars, endVars, counter, mpc>>

OpendirFails(t) ==
  /\ pc[t] = "opendir"
  /\ curr_directory[t] \notin Dirs \ Unopenable
  /\ curr_directory' = [curr_directory EXCEPT ![t] = None]
  /\ Goto(t, "error")
  /\ UNCHANGED <<queueVars, napVars, deathVars, todo, item, res, scanned,
                 checkVars, endVars, counter, mpc>>

\* One turn of the readdir loop.  When lstat fails dir_metadata keeps what it
\* held (nothing at all on the first entry), so the entry may be taken for a
\* directory or for a file.
ReadEntry(t) ==
  /\ pc[t] = "readdir" /\ ~run_ended
  /\ \E e \in todo[t], isDirectory \in BOOLEAN :
       /\ e \notin Unstatable => isDirectory = (e \in Dirs)
       /\ todo' = [todo EXCEPT ![t] = @ \ {e}]
       /\ res' = [res EXCEPT ![t] = @ \/ e \in Unstatable]
       /\ \/ /\ isDirectory
             /\ item' = [item EXCEPT ![t] = e]
             /\ Goto(t, "enqueue")
          \/ /\ ~isDirectory /\ NameMatches(e)
             /\ item' = [item EXCEPT ![t] = e]
             /\ Goto(t, "count")
          \/ /\ ~isDirectory /\ ~NameMatches(e)
             /\ UNCHANGED <<item, pc>>
  /\ UNCHANGED <<queueVars, napVars, deathVars, curr_directory, scanned,
                 checkVars, endVars, counter, mpc>>

EnqueueDirectory(t) ==
  /\ pc[t] = "enqueue" /\ queue_lock = None
  /\ directories_queue' = enQueue(directories_queue, item[t])
  /\ empty_queue' = FALSE
  /\ item' = [item EXCEPT ![t] = None]
  /\ Goto(t, "broadcast")
  /\ UNCHANGED <<queue_lock, napVars, deathVars, curr_directory, todo, res,
                 scanned, checkVars, endVars, counter, mpc>>

\* A second critical section on the same lock.  The third, which may yield the
\* processor (lines 405-413), changes no state.
BroadcastQueueNotEmpty(t) ==
  /\ pc[t] = "broadcast" /\ queue_lock = None
  /\ pc' = Broadcast([pc EXCEPT ![t] = "readdir"], "asleep", "woken")
  /\ UNCHANGED <<queueVars, napVars, deathVars, scanVars, checkVars, endVars,
                 counter, mpc>>

CountFile(t) ==
  /\ pc[t] = "count"
  /\ counter' = counter + 1
  /\ item' = [item EXCEPT ![t] = None]
  /\ Goto(t, "readdir")
  /\ UNCHANGED <<queueVars, napVars, deathVars, curr_directory, todo, res,
                 scanned, checkVars, endVars, mpc>>

\* The loop ends with the directory, or early when run_ended is seen.
FinishScan(t) ==
  /\ pc[t] = "readdir"
  /\ run_ended \/ todo[t] = {}
  /\ scanned' = IF todo[t] = {} THEN scanned \cup {curr_directory[t]}
                               ELSE scanned
  /\ curr_directory' = [curr_directory EXCEPT ![t] = None]
  /\ todo' = [todo EXCEPT ![t] = {}]
  /\ res' = [res EXCEPT ![t] = FALSE]
  /\ Goto(t, AfterScan(res[t]))
  /\ UNCHANGED <<queueVars, napVars, deathVars, item, checkVars, endVars,
                 counter, mpc>>

-----------------------------------------------------------------------------
(* A failed scan ends the worker. *)

CountError(t) ==
  /\ pc[t] = "error"
  /\ thread_errors_cntr' = thread_errors_cntr + 1
  /\ living_threads' = living_threads - 1
  /\ Goto(t, "signal")
  /\ UNCHANGED <<queueVars, napVars, scanVars, checkVars, endVars, counter,
                 mpc>>

\* pthread_cond_signal(&new_sleeping_thread) wakes one of those that wait.
SignalAndDie(t) ==
  LET waiters == {u \in Threads : pc[u] = "slot_wait"}
  IN
  /\ pc[t] = "signal"
  /\ \/ /\ mpc = "waiting"
        /\ mpc' = "read_errors"
        /\ Goto(t, "dead")
     \/ \E u \in waiters :
        /\ pc' = [pc EXCEPT ![t] = "dead", ![u] = "slot"]
        /\ UNCHANGED mpc
     \/ /\ mpc # "waiting" /\ waiters = {}
        /\ Goto(t, "dead")
        /\ UNCHANGED mpc
  /\ UNCHANGED <<queueVars, napVars, deathVars, scanVars, checkVars, endVars,
                 counter>>

-----------------------------------------------------------------------------
(* Sleeping on an empty FIFO. *)

CountSleeper(t) ==
  /\ pc[t] = "nap"
  /\ sleeping_threads_available' = sleeping_threads_available + 1
  /\ BroadcastNewSleepingThread([pc EXCEPT ![t] = "napped"])
  /\ UNCHANGED <<queueVars, deathVars, scanVars, checkVars, endVars, counter>>

\* Takes queue_is_free_lock and waits at once: the FIFO is not looked at again.
Sleep(t) ==
  /\ pc[t] = "napped" /\ queue_lock = None
  /\ Goto(t, "asleep")
  /\ UNCHANGED <<queueVars, napVars, deathVars, scanVars, checkVars, endVars,
                 counter, mpc>>

\* pthread_cond_wait returns with queue_is_free_lock held.
Wake(t) ==
  /\ pc[t] = "woken" /\ queue_lock = None
  /\ queue_lock' = t
  /\ Goto(t, "unsleep")
  /\ UNCHANGED <<directories_queue, empty_queue, napVars, deathVars, scanVars,
                 checkVars, endVars, counter, mpc>>

\* Altered form: the decrement of line 298 is missing.
UnsleepUncounted(t) ==
  /\ pc[t] = "unsleep"
  /\ queue_lock' = None
  /\ Goto(t, "loop")
  /\ UNCHANGED <<directories_queue, empty_queue, napVars, deathVars, scanVars,
                 checkVars, endVars, counter, mpc>>

\* Altered form: the unlock of line 302 is missing.
UnsleepLocked(t) ==
  /\ pc[t] = "unsleep"
  /\ sleeping_threads_available' = sleeping_threads_available - 1
  /\ Goto(t, "loop")
  /\ UNCHANGED <<queueVars, deathVars, scanVars, checkVars, endVars, counter,
                 mpc>>

Unsleep(t) ==
  /\ pc[t] = "unsleep"
  /\ sleeping_threads_available' = sleeping_threads_available - 1
  /\ queue_lock' = None
  /\ Goto(t, "loop")
  /\ UNCHANGED <<directories_queue, empty_queue, deathVars, scanVars, checkVars,
                 endVars, counter, mpc>>

\* POSIX lets pthread_cond_wait return although nobody signalled.
SpuriousWakeup(t) ==
  /\ SpuriousWakeups
  /\ \/ pc[t] = "asleep" /\ Goto(t, "woken")
     \/ pc[t] = "slot_wait" /\ Goto(t, "slot")
     \/ pc[t] = "gate_wait" /\ Goto(t, "gate")
  /\ UNCHANGED <<queueVars, napVars, deathVars, scanVars, checkVars, endVars,
                 counter, mpc>>

-----------------------------------------------------------------------------
(* main: initiate_threads. *)

EnqueueRoot ==
  /\ mpc = "run"
  /\ directories_queue' = enQueue(directories_queue, Root)
  /\ empty_queue' = FALSE
  /\ mpc' = "create"
  /\ UNCHANGED <<queue_lock, napVars, deathVars, scanVars, checkVars, endVars,
                 counter, pc>>

\* Altered form: living_threads is not incremented.
CreateThreadUncounted(t) ==
  /\ mpc = "create" /\ pc[t] = "unborn"
  /\ \/ Goto(t, "gate")
     \/ t \in CreateFails /\ Goto(t, "unopened")
  /\ UNCHANGED <<queueVars, napVars, deathVars, scanVars, checkVars, endVars,
                 counter, mpc>>

\* The result of pthread_create is not looked at.
CreateThread(t) ==
  /\ mpc = "create" /\ pc[t] = "unborn"
  /\ \/ Goto(t, "gate")
     \/ t \in CreateFails /\ Goto(t, "unopened")
  /\ living_threads' = living_threads + 1
  /\ UNCHANGED <<queueVars, napVars, thread_errors_cntr, scanVars, checkVars,
                 endVars, counter, mpc>>

OpenGate ==
  /\ mpc = "create" /\ \A t \in Threads : pc[t] # "unborn"
  /\ can_start' = TRUE
  /\ pc' = Broadcast(pc, "gate_wait", "gate")
  /\ mpc' = "baseline"
  /\ UNCHANGED <<queueVars, napVars, deathVars, scanVars, checkVars, run_ended,
                 all_threads_are_error, reported, counter>>

\* main counts itself: from now on all are asleep at threads_limit + 1.
CountMain ==
  /\ mpc = "baseline"
  /\ sleeping_threads_available' = sleeping_threads_available + 1
  /\ pc' = Broadcast(pc, "slot_wait", "slot")
  /\ mpc' = "read_errors"
  /\ UNCHANGED <<queueVars, deathVars, scanVars, checkVars, endVars, counter>>

-----------------------------------------------------------------------------
(* main: the waiting loop, with check_threads_running read by read. *)

\* Altered form: main's own unit is forgotten.
sleeping_without_main == sleeping_threads_available = threads_limit

check_thread_sleeping == sleeping_threads_available = threads_limit + 1

\* Altered form: one failed thread is enough.
any_thread_error == thread_errors_cntr > 0

check_thread_errors == thread_errors_cntr = threads_limit

ReadErrors ==
  /\ mpc = "read_errors"
  /\ m_errored' = thread_errors_cntr
  /\ mpc' = "read_sleeping"
  /\ UNCHANGED <<queueVars, napVars, deathVars, scanVars, m_sleeping,
                 m_finished, endVars, counter, pc>>

ReadSleeping ==
  /\ mpc = "read_sleeping"
  /\ m_sleeping' = sleeping_threads_available
  /\ mpc' = "read_living"
  /\ UNCHANGED <<queueVars, napVars, deathVars, scanVars, m_errored,
                 m_finished, endVars, counter, pc>>

\* living_threads is read without its lock; the two copies are then dead.
ReadLiving ==
  /\ mpc = "read_living"
  /\ m_finished' = (m_errored > 0 /\ m_sleeping = living_threads + 1)
  /\ m_errored' = 0 /\ m_sleeping' = 0
  /\ mpc' = "check_sleeping"
  /\ UNCHANGED <<queueVars, napVars, deathVars, scanVars, endVars, counter, pc>>

CheckSleeping ==
  /\ mpc = "check_sleeping"
  /\ mpc' = IF check_thread_sleeping THEN "ended" ELSE "check_errors"
  /\ UNCHANGED <<queueVars, napVars, deathVars, scanVars, checkVars, endVars,
                 counter, pc>>

CheckErrors ==
  /\ mpc = "check_errors"
  /\ all_threads_are_error' = (all_threads_are_error \/ check_thread_errors)
  /\ mpc' = IF check_thread_errors \/ m_finished THEN "ended" ELSE "wait"
  /\ UNCHANGED <<queueVars, napVars, deathVars, scanVars, checkVars, can_start,
                 run_ended, reported, counter, pc>>

\* The counters are not looked at again under the lock before waiting.
AwaitNewSleepingThread ==
  /\ mpc = "wait"
  /\ mpc' = "waiting"
  /\ UNCHANGED <<queueVars, napVars, deathVars, scanVars, checkVars, endVars,
                 counter, pc>>

SpuriousMainWakeup ==
  /\ SpuriousWakeups /\ mpc = "waiting"
  /\ mpc' = "read_errors"
  /\ UNCHANGED <<queueVars, napVars, deathVars, scanVars, checkVars, endVars,
                 counter, pc>>

EndRun ==
  /\ mpc = "ended"
  /\ run_ended' = TRUE
  /\ mpc' = "print"
  /\ UNCHANGED <<queueVars, napVars, deathVars, scanVars, checkVars, can_start,
                 all_threads_are_error, reported, counter, pc>>

\* counter is read without counter_lock; exit ends every worker with main.
PrintAndExit ==
  /\ mpc = "print"
  /\ reported' = counter
  /\ mpc' = "exit"
  /\ UNCHANGED <<queueVars, napVars, deathVars, scanVars, checkVars, can_start,
                 run_ended, all_threads_are_error, counter, pc>>

-----------------------------------------------------------------------------

WorkerStep(t) ==
  \/ PassGate(t) \/ LoopTest(t) \/ AwaitSleepingThread(t)
  \/ DequeueNothing(t) \/ DequeueDirectory(t)
  \/ Opendir(t) \/ OpendirFails(t) \/ ReadEntry(t) \/ EnqueueDirectory(t)
  \/ BroadcastQueueNotEmpty(t) \/ CountFile(t) \/ FinishScan(t)
  \/ CountError(t) \/ SignalAndDie(t)
  \/ CountSleeper(t) \/ Sleep(t) \/ Wake(t) \/ Unsleep(t)

\* The workers live as long as the process.
Worker(t) == mpc # "exit" /\ WorkerStep(t)

Main ==
  \/ EnqueueRoot \/ OpenGate \/ CountMain
  \/ (\E t \in Threads : CreateThread(t))
  \/ ReadErrors \/ ReadSleeping \/ ReadLiving \/ CheckSleeping \/ CheckErrors
  \/ AwaitNewSleepingThread \/ EndRun \/ PrintAndExit

Next ==
  \/ \E t \in Threads : Worker(t) \/ (mpc # "exit" /\ SpuriousWakeup(t))
  \/ Main
  \/ SpuriousMainWakeup

Spec == Init /\ [][Next]_vars

\* The scheduler runs every thread that can run, and nothing makes a condition
\* variable wake up spuriously.
FairSpec == Spec /\ (\A t \in Threads : WF_vars(Worker(t))) /\ WF_vars(Main)

-----------------------------------------------------------------------------
(* Properties. *)

TypeOK ==
  /\ directories_queue \in Seq(Entries)
  /\ empty_queue \in BOOLEAN /\ can_start \in BOOLEAN /\ run_ended \in BOOLEAN
  /\ all_threads_are_error \in BOOLEAN /\ m_finished \in BOOLEAN
  /\ queue_lock \in Threads \cup {None}
  /\ thread_errors_cntr \in 0 .. threads_limit
  /\ living_threads \in 0 .. threads_limit
  /\ sleeping_threads_available \in 0 .. threads_limit + 1
  /\ m_errored \in 0 .. threads_limit /\ m_sleeping \in 0 .. threads_limit + 1
  /\ counter \in Nat
  /\ pc \in [Threads -> WorkerLabels] /\ mpc \in MainLabels
  /\ curr_directory \in [Threads -> Entries \cup {None}]
  /\ todo \in [Threads -> SUBSET Entries]
  /\ item \in [Threads -> Entries \cup {None}]
  /\ res \in [Threads -> BOOLEAN]
  /\ reported \in Int
  /\ scanned \subseteq Dirs

\* Lines 183-199: when sleeping_threads_available says that everyone sleeps,
\* no directory is left and no thread is in the middle of one - although the
\* counter is raised long before the thread waits, lowered long after it is
\* woken, and never read under the lock of the FIFO.
AllAsleepMeansDrained ==
  check_thread_sleeping =>
    /\ directories_queue = <<>>
    /\ \A t \in Threads : pc[t] \notin Scanning /\ curr_directory[t] = None

\* Lines 255-293: a broadcast of queue_not_empty may come before the wait it is
\* meant for, yet the FIFO never holds a directory while all workers are on
\* their way to sleep, asleep, or not yet back from it.  A worker that has died
\* of a failed scan, or was never created, satisfies this for ever: from the
\* first failure on it says nothing.
QueueAttended ==
  directories_queue # <<>> =>
    \E t \in Threads : pc[t] \notin Napping \cup {"nap"}

\* The directories in the FIFO.
Queued == {directories_queue[i] : i \in DOMAIN directories_queue}

\* The entries some thread is about to scan or to append.
InHand == {e \in Entries : \E t \in Threads :
             curr_directory[t] = e \/ (pc[t] = "enqueue" /\ item[t] = e)}

\* Lines 254-257, 389-401: a directory is never scanned twice: it is once in
\* the FIFO, or in the hands of one thread, or done with.
ScannedOnce ==
  /\ \A i, j \in DOMAIN directories_queue :
       directories_queue[i] = directories_queue[j] => i = j
  /\ \A t, u \in Threads :
       t # u /\ curr_directory[t] # None => curr_directory[t] # curr_directory[u]
  /\ Queued \cap InHand = {}
  /\ scanned \cap (Queued \cup InHand) = {}

\* Lines 357-432: until main ends the run no directory gets lost: what a
\* finished scan has found is in the FIFO, in the hands of a thread, or done
\* with.
NothingLost ==
  ~run_ended => \A d \in scanned : \A e \in Contents[d] \cap Dirs :
    \/ e \in Queued \cup InHand \cup scanned
    \/ e \in Unopenable \cup Unstatable

\* The entries dealt with: those of the scanned directories and those that
\* readdir has returned in the scans under way.
Handled ==
  {e \in Entries :
     \/ \E d \in scanned : e \in Contents[d]
     \/ \E t \in Threads :
          /\ pc[t] \in Scanning \ {"opendir"}
          /\ e \in Contents[curr_directory[t]] \ todo[t]
          /\ item[t] # e}

\* Lines 417-428: the counter is the number of matching files dealt with; only
\* an entry that lstat could not classify may or may not be counted.
CounterExact ==
  ~run_ended =>
    LET sure     == (Handled \cap Files \cap Matching) \ Unstatable
        possible == sure \cup (Handled \cap Matching \cap Unstatable)
    IN  counter \in Cardinality(sure) .. Cardinality(possible)

\* Lines 165-181, 497-501: the exit status 1 means that every thread failed.
ErrorExitMeansAllDead ==
  all_threads_are_error => \A t \in Threads : pc[t] \in {"signal", "dead"}

\* Lines 474-495: a number printed while no thread has failed is the number of
\* matching files of the whole tree below the root.
CleanReportComplete ==
  reported # -1 /\ thread_errors_cntr = 0 =>
    /\ Root \in scanned
    /\ \A d \in scanned : Contents[d] \cap Dirs \subseteq scanned
    /\ reported = Cardinality({f \in Files \cap Matching :
                                 \E d \in scanned : f \in Contents[d]})

\* pfind without failures implements the search of DirSearch.
Search == INSTANCE DirSearch WITH
            known   <- {Root} \cup (Handled \cap Dirs),
            closed  <- scanned,
            handled <- Handled,
            found   <- counter,
            answer  <- reported
SearchSpec == Search!Spec

\* Lines 243-307: every directory below the root is eventually scanned, even
\* when main has missed its wake-up.
EveryDirectoryScanned == <>(scanned = Dirs)

\* Lines 278-304: the workers do not spin on an empty FIFO: in the end each one
\* waits on queue_not_empty, or the process is gone.
WorkersSettle ==
  <>[](mpc = "exit" \/ \A t \in Threads : pc[t] = "asleep")

(* What a comment of pfind.c says, and the program does not do. *)

\* Line 473: "After all threads were sent to work we'll wait for them to
\* finish": the wait ends.
MainFinishes == <>(mpc = "exit")
==============================================================================
