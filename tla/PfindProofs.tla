----------------------------- MODULE PfindProofs -----------------------------
(***************************************************************************)
(* What holds of pfind for every number of threads, every tree and every   *)
(* choice of failures.  First the counters and who attends to the FIFO;    *)
(* then that nothing is scanned twice, that nothing is lost and that pfind *)
(* counts right: counter is the number of matching files dealt with, and a *)
(* number printed while no worker has failed is that of the whole tree.    *)
(* Last, when neither opendir nor lstat fails, pfind implements DirSearch. *)
(***************************************************************************)
EXTENDS Pfind, FiniteSetTheorems, SequenceTheorems, TLAPS

Sleepers == {t \in Threads : pc[t] \in Napping}
Dead     == {t \in Threads : pc[t] \in {"signal", "dead"}}
Born     == {t \in Threads : pc[t] # "unborn"}

\* The unit main adds to sleeping_threads_available in line 332.
MainUnit == IF mpc \in {"run", "create", "baseline"} THEN 0 ELSE 1

\* Each counter is the size of a set of threads.  This is what makes the
\* counters mean something between two critical sections, and what bounds them.
CountersExact ==
  /\ sleeping_threads_available = MainUnit + Cardinality(Sleepers)
  /\ thread_errors_cntr = Cardinality(Dead)
  /\ living_threads = Cardinality(Born) - Cardinality(Dead)

\* What a worker holds at each place of folder_scan.
HoldsItsDirectory ==
  \A t \in Threads :
    /\ pc[t] \in Scanning \ {"opendir"} => curr_directory[t] \in Dirs
    /\ pc[t] \notin Scanning => curr_directory[t] = None
    /\ pc[t] \in {"enqueue", "count"} => item[t] \in Entries

NoneBornYet == mpc = "run" => \A t \in Threads : pc[t] = "unborn"

\* TypeOK without the ranges of the counters, which follow from CountersExact.
Types ==
  /\ directories_queue \in Seq(Entries)
  /\ empty_queue \in BOOLEAN /\ can_start \in BOOLEAN /\ run_ended \in BOOLEAN
  /\ all_threads_are_error \in BOOLEAN /\ m_finished \in BOOLEAN
  /\ queue_lock \in Threads \cup {None}
  /\ m_errored \in 0 .. threads_limit /\ m_sleeping \in 0 .. threads_limit + 1
  /\ counter \in Nat
  /\ pc \in [Threads -> WorkerLabels] /\ mpc \in MainLabels
  /\ curr_directory \in [Threads -> Entries \cup {None}]
  /\ todo \in [Threads -> SUBSET Entries]
  /\ item \in [Threads -> Entries \cup {None}]
  /\ res \in [Threads -> BOOLEAN]
  /\ reported \in Int
  /\ scanned \subseteq Dirs

CounterRanges ==
  /\ thread_errors_cntr \in 0 .. threads_limit
  /\ living_threads \in 0 .. threads_limit
  /\ sleeping_threads_available \in 0 .. threads_limit + 1

\* The inductive invariant.
IInv ==
  /\ Types /\ CountersExact /\ HoldsItsDirectory /\ NoneBornYet
  /\ QueueAttended /\ ErrorExitMeansAllDead

-----------------------------------------------------------------------------

\* threads_limit is the size of a finite set.
LEMMA LimitIsNatural == threads_limit \in Nat
  BY PfindAssumption, FS_CardinalityType DEF threads_limit

\* Lines 55-70: appending an entry gives a FIFO of entries.
LEMMA EnqueueType ==
  ASSUME NEW q \in Seq(Entries), NEW e \in Entries
  PROVE  enQueue(q, e) \in Seq(Entries)
  BY DEF enQueue

\* The sets of threads the counters stand for are finite, and no larger than
\* the set of all threads.
LEMMA ThreadSets ==
  /\ IsFiniteSet(Sleepers) /\ Cardinality(Sleepers) \in 0 .. threads_limit
  /\ IsFiniteSet(Dead) /\ Cardinality(Dead) \in 0 .. threads_limit
  /\ IsFiniteSet(Born) /\ Cardinality(Born) \in 0 .. threads_limit
  /\ Cardinality(Dead) <= Cardinality(Born)
<1> USE PfindAssumption DEF threads_limit
<1>1. ASSUME NEW S \in SUBSET Threads
      PROVE  IsFiniteSet(S) /\ Cardinality(S) \in 0 .. Cardinality(Threads)
  BY FS_Subset, FS_CardinalityType
<1>2. Sleepers \in SUBSET Threads /\ Dead \in SUBSET Threads
      /\ Born \in SUBSET Threads /\ Dead \in SUBSET Born
  BY DEF Sleepers, Dead, Born
<1>3. IsFiniteSet(Born) /\ Cardinality(Dead) <= Cardinality(Born)
  BY <1>1, <1>2, FS_Subset
<1> QED
  BY <1>1, <1>2, <1>3

\* The counters stay between zero and the number of threads.
LEMMA CountersBounded == CountersExact => CounterRanges
  BY ThreadSets, LimitIsNatural DEF CountersExact, CounterRanges, MainUnit

\* Every step keeps the types, apart from the ranges of the counters.
LEMMA TypesStep == IInv /\ CounterRanges /\ [Next]_vars => Types'
<1> SUFFICES ASSUME IInv, CounterRanges, [Next]_vars PROVE Types'
  OBVIOUS
<1> USE PfindAssumption DEF IInv, Types, Entries, WorkerLabels, MainLabels,
        queueVars, napVars, deathVars, scanVars, checkVars, endVars
<1>1. ASSUME NEW t \in Threads, PassGate(t) PROVE Types'
  BY <1>1 DEF PassGate, Goto
<1>2. ASSUME NEW t \in Threads, LoopTest(t) PROVE Types'
  BY <1>2 DEF LoopTest, Goto
<1>3. ASSUME NEW t \in Threads, AwaitSleepingThread(t) PROVE Types'
  BY <1>3 DEF AwaitSleepingThread, Goto
<1>4. ASSUME NEW t \in Threads, DequeueNothing(t) PROVE Types'
  BY <1>4 DEF DequeueNothing, Goto
<1>5. ASSUME NEW t \in Threads, DequeueDirectory(t) PROVE Types'
  BY <1>5 DEF DequeueDirectory, Goto, deQueue
<1>6. ASSUME NEW t \in Threads, Opendir(t) PROVE Types'
  BY <1>6 DEF Opendir, Goto
<1>7. ASSUME NEW t \in Threads, OpendirFails(t) PROVE Types'
  BY <1>7 DEF OpendirFails, Goto
<1>8. ASSUME NEW t \in Threads, ReadEntry(t) PROVE Types'
  BY <1>8 DEF ReadEntry, Goto
<1>9. ASSUME NEW t \in Threads, EnqueueDirectory(t) PROVE Types'
  <2>1. directories_queue' \in Seq(Entries)
    BY <1>9, EnqueueType DEF EnqueueDirectory, HoldsItsDirectory
  <2> QED
    BY <1>9, <2>1 DEF EnqueueDirectory, Goto
<1>10. ASSUME NEW t \in Threads, BroadcastQueueNotEmpty(t) PROVE Types'
  BY <1>10 DEF BroadcastQueueNotEmpty, Broadcast
<1>11. ASSUME NEW t \in Threads, CountFile(t) PROVE Types'
  BY <1>11 DEF CountFile, Goto
<1>12. ASSUME NEW t \in Threads, FinishScan(t) PROVE Types'
  BY <1>12 DEF FinishScan, Goto, HoldsItsDirectory, AfterScan, Scanning
<1>13. ASSUME NEW t \in Threads, CountError(t) PROVE Types'
  BY <1>13 DEF CountError, Goto
<1>14. ASSUME NEW t \in Threads, SignalAndDie(t) PROVE Types'
  BY <1>14 DEF SignalAndDie, Goto
<1>15. ASSUME NEW t \in Threads, CountSleeper(t) PROVE Types'
  BY <1>15 DEF CountSleeper, Broadcast, BroadcastNewSleepingThread
<1>16. ASSUME NEW t \in Threads, Sleep(t) PROVE Types'
  BY <1>16 DEF Sleep, Goto
<1>17. ASSUME NEW t \in Threads, Wake(t) PROVE Types'
  BY <1>17 DEF Wake, Goto
<1>18. ASSUME NEW t \in Threads, Unsleep(t) PROVE Types'
  BY <1>18 DEF Unsleep, Goto
<1>19. ASSUME NEW t \in Threads, SpuriousWakeup(t) PROVE Types'
  BY <1>19 DEF SpuriousWakeup, Goto
<1>20. ASSUME NEW t \in Threads, CreateThread(t) PROVE Types'
  BY <1>20 DEF CreateThread, Goto
<1>21. CASE EnqueueRoot
  <2>1. directories_queue' \in Seq(Entries)
    BY <1>21, EnqueueType DEF EnqueueRoot
  <2> QED
    BY <1>21, <2>1 DEF EnqueueRoot
<1>22. CASE OpenGate
  BY <1>22 DEF OpenGate, Broadcast
<1>23. CASE CountMain
  BY <1>23 DEF CountMain, Broadcast
<1>24. CASE ReadErrors
  BY <1>24 DEF ReadErrors, CounterRanges
<1>25. CASE ReadSleeping
  BY <1>25 DEF ReadSleeping, CounterRanges
<1>26. CASE ReadLiving
  BY <1>26, LimitIsNatural DEF ReadLiving
<1>27. CASE CheckSleeping
  BY <1>27 DEF CheckSleeping
<1>28. CASE CheckErrors
  BY <1>28 DEF CheckErrors
<1>29. CASE AwaitNewSleepingThread
  BY <1>29 DEF AwaitNewSleepingThread
<1>30. CASE SpuriousMainWakeup
  BY <1>30 DEF SpuriousMainWakeup
<1>31. CASE EndRun
  BY <1>31 DEF EndRun
<1>32. CASE PrintAndExit
  BY <1>32 DEF PrintAndExit
<1>33. CASE UNCHANGED vars
  BY <1>33 DEF vars
<1> QED
  BY <1>1, <1>2, <1>3, <1>4, <1>5, <1>6, <1>7, <1>8, <1>9, <1>10, <1>11,
     <1>12, <1>13, <1>14, <1>15, <1>16, <1>17, <1>18, <1>19, <1>20, <1>21,
     <1>22, <1>23, <1>24, <1>25, <1>26, <1>27, <1>28, <1>29, <1>30, <1>31,
     <1>32, <1>33
  DEF Next, Worker, WorkerStep, Main

\* The steps that move no thread into or out of the sets that are counted.
Quiet ==
  /\ Sleepers' = Sleepers /\ Dead' = Dead /\ Born' = Born
  /\ MainUnit' = MainUnit
  /\ UNCHANGED <<napVars, deathVars>>

LEMMA QuietKeepsCounters == CountersExact /\ Quiet => CountersExact'
  BY DEF CountersExact, Quiet, napVars, deathVars

\* Every step keeps each counter equal to the size of its set of threads: a
\* thread enters or leaves the set in the critical section that counts it.
LEMMA CountersStep == Types /\ CountersExact /\ [Next]_vars => CountersExact'
<1> SUFFICES ASSUME Types, CountersExact, [Next]_vars PROVE CountersExact'
  OBVIOUS
<1> USE DEF Types, Quiet, Sleepers, Dead, Born, MainUnit, Napping, Goto,
        Broadcast, napVars, deathVars
<1>1. ASSUME NEW t \in Threads, PassGate(t) PROVE Quiet
  BY <1>1 DEF PassGate
<1>2. ASSUME NEW t \in Threads, LoopTest(t) PROVE Quiet
  BY <1>2 DEF LoopTest
<1>3. ASSUME NEW t \in Threads, AwaitSleepingThread(t) PROVE Quiet
  BY <1>3 DEF AwaitSleepingThread
<1>4. ASSUME NEW t \in Threads, DequeueNothing(t) PROVE Quiet
  BY <1>4 DEF DequeueNothing
<1>5. ASSUME NEW t \in Threads, DequeueDirectory(t) PROVE Quiet
  BY <1>5 DEF DequeueDirectory
<1>6. ASSUME NEW t \in Threads, Opendir(t) PROVE Quiet
  BY <1>6 DEF Opendir
<1>7. ASSUME NEW t \in Threads, OpendirFails(t) PROVE Quiet
  BY <1>7 DEF OpendirFails
<1>8. ASSUME NEW t \in Threads, ReadEntry(t) PROVE Quiet
  BY <1>8 DEF ReadEntry
<1>9. ASSUME NEW t \in Threads, EnqueueDirectory(t) PROVE Quiet
  BY <1>9 DEF EnqueueDirectory
<1>10. ASSUME NEW t \in Threads, BroadcastQueueNotEmpty(t) PROVE Quiet
  BY <1>10 DEF BroadcastQueueNotEmpty
<1>11. ASSUME NEW t \in Threads, CountFile(t) PROVE Quiet
  BY <1>11 DEF CountFile
<1>12. ASSUME NEW t \in Threads, FinishScan(t) PROVE Quiet
  BY <1>12 DEF FinishScan, AfterScan
<1>13. ASSUME NEW t \in Threads, SignalAndDie(t) PROVE Quiet
  BY <1>13 DEF SignalAndDie
<1>14. ASSUME NEW t \in Threads, Sleep(t) PROVE Quiet
  BY <1>14 DEF Sleep
<1>15. ASSUME NEW t \in Threads, Wake(t) PROVE Quiet
  BY <1>15 DEF Wake
<1>16. ASSUME NEW t \in Threads, SpuriousWakeup(t) PROVE Quiet
  BY <1>16 DEF SpuriousWakeup
<1>17. CASE EnqueueRoot
  <2>1. Quiet
    BY <1>17 DEF EnqueueRoot
  <2> QED
    BY <2>1, QuietKeepsCounters
<1>18. CASE OpenGate
  <2>1. Quiet
    BY <1>18 DEF OpenGate
  <2> QED
    BY <2>1, QuietKeepsCounters
<1>19. CASE ReadErrors
  <2>1. Quiet
    BY <1>19 DEF ReadErrors
  <2> QED
    BY <2>1, QuietKeepsCounters
<1>20. CASE ReadSleeping
  <2>1. Quiet
    BY <1>20 DEF ReadSleeping
  <2> QED
    BY <2>1, QuietKeepsCounters
<1>21. CASE ReadLiving
  <2>1. Quiet
    BY <1>21 DEF ReadLiving
  <2> QED
    BY <2>1, QuietKeepsCounters
<1>22. CASE CheckSleeping
  <2>1. Quiet
    BY <1>22 DEF CheckSleeping
  <2> QED
    BY <2>1, QuietKeepsCounters
<1>23. CASE CheckErrors
  <2>1. Quiet
    BY <1>23 DEF CheckErrors
  <2> QED
    BY <2>1, QuietKeepsCounters
<1>24. CASE AwaitNewSleepingThread
  <2>1. Quiet
    BY <1>24 DEF AwaitNewSleepingThread
  <2> QED
    BY <2>1, QuietKeepsCounters
<1>25. CASE SpuriousMainWakeup
  <2>1. Quiet
    BY <1>25 DEF SpuriousMainWakeup
  <2> QED
    BY <2>1, QuietKeepsCounters
<1>26. CASE EndRun
  <2>1. Quiet
    BY <1>26 DEF EndRun
  <2> QED
    BY <2>1, QuietKeepsCounters
<1>27. CASE PrintAndExit
  <2>1. Quiet
    BY <1>27 DEF PrintAndExit
  <2> QED
    BY <2>1, QuietKeepsCounters
<1>28. CASE UNCHANGED vars
  <2>1. Quiet
    BY <1>28 DEF vars
  <2> QED
    BY <2>1, QuietKeepsCounters
<1>29. ASSUME NEW t \in Threads, CountError(t) PROVE CountersExact'
  <2>1. /\ Dead' = Dead \cup {t} /\ t \notin Dead
        /\ Sleepers' = Sleepers /\ Born' = Born
    BY <1>29 DEF CountError
  <2> HIDE DEF Sleepers, Dead, Born
  <2>2. Cardinality(Dead') = Cardinality(Dead) + 1
    BY <2>1, ThreadSets, FS_AddElement
  <2> QED
    BY <1>29, <2>1, <2>2, ThreadSets DEF CountError, CountersExact
<1>30. ASSUME NEW t \in Threads, CountSleeper(t) PROVE CountersExact'
  <2>1. /\ Sleepers' = Sleepers \cup {t} /\ t \notin Sleepers
        /\ Dead' = Dead /\ Born' = Born /\ MainUnit' = MainUnit
    BY <1>30 DEF CountSleeper, BroadcastNewSleepingThread
  <2> HIDE DEF Sleepers, Dead, Born
  <2>2. Cardinality(Sleepers') = Cardinality(Sleepers) + 1
    BY <2>1, ThreadSets, FS_AddElement
  <2> QED
    BY <1>30, <2>1, <2>2, ThreadSets DEF CountSleeper, CountersExact
<1>31. ASSUME NEW t \in Threads, Unsleep(t) PROVE CountersExact'
  <2>1. /\ Sleepers' = Sleepers \ {t} /\ t \in Sleepers
        /\ Dead' = Dead /\ Born' = Born
    BY <1>31 DEF Unsleep
  <2> HIDE DEF Sleepers, Dead, Born
  <2>2. Cardinality(Sleepers') = Cardinality(Sleepers) - 1
    BY <2>1, ThreadSets, FS_RemoveElement
  <2> QED
    BY <1>31, <2>1, <2>2, ThreadSets DEF Unsleep, CountersExact
<1>32. ASSUME NEW t \in Threads, CreateThread(t) PROVE CountersExact'
  <2>1. /\ Born' = Born \cup {t} /\ t \notin Born
        /\ Dead' = Dead /\ Sleepers' = Sleepers
    BY <1>32 DEF CreateThread
  <2> HIDE DEF Sleepers, Dead, Born
  <2>2. Cardinality(Born') = Cardinality(Born) + 1
    BY <2>1, ThreadSets, FS_AddElement
  <2> QED
    BY <1>32, <2>1, <2>2, ThreadSets DEF CreateThread, CountersExact
<1>33. CASE CountMain
  <2>1. Dead' = Dead /\ Born' = Born /\ Sleepers' = Sleepers
    BY <1>33 DEF CountMain
  <2> HIDE DEF Sleepers, Dead, Born
  <2> QED
    BY <1>33, <2>1, ThreadSets DEF CountMain, CountersExact
<1> QED
  BY <1>1, <1>2, <1>3, <1>4, <1>5, <1>6, <1>7, <1>8, <1>9, <1>10, <1>11,
     <1>12, <1>13, <1>14, <1>15, <1>16, <1>17, <1>18, <1>19, <1>20, <1>21,
     <1>22, <1>23, <1>24, <1>25, <1>26, <1>27, <1>28, <1>29, <1>30, <1>31,
     <1>32, <1>33,
     QuietKeepsCounters
  DEF Next, Worker, WorkerStep, Main

\* Lines 255-437: a worker inside folder_scan has the directory it took off the
\* FIFO, and only such a worker has one.
LEMMA HoldsItsDirectoryStep ==
  Types /\ HoldsItsDirectory /\ [Next]_vars => HoldsItsDirectory'
<1> SUFFICES ASSUME Types, HoldsItsDirectory, [Next]_vars
             PROVE  HoldsItsDirectory'
  OBVIOUS
<1> USE PfindAssumption DEF Types, HoldsItsDirectory, Scanning, Goto, Broadcast,
        Entries, scanVars
<1>1. ASSUME NEW t \in Threads, PassGate(t) PROVE HoldsItsDirectory'
  BY <1>1 DEF PassGate
<1>2. ASSUME NEW t \in Threads, LoopTest(t) PROVE HoldsItsDirectory'
  BY <1>2 DEF LoopTest
<1>3. ASSUME NEW t \in Threads, AwaitSleepingThread(t) PROVE HoldsItsDirectory'
  BY <1>3 DEF AwaitSleepingThread
<1>4. ASSUME NEW t \in Threads, DequeueNothing(t) PROVE HoldsItsDirectory'
  BY <1>4 DEF DequeueNothing
<1>5. ASSUME NEW t \in Threads, DequeueDirectory(t) PROVE HoldsItsDirectory'
  BY <1>5 DEF DequeueDirectory
<1>6. ASSUME NEW t \in Threads, Opendir(t) PROVE HoldsItsDirectory'
  BY <1>6 DEF Opendir
<1>7. ASSUME NEW t \in Threads, OpendirFails(t) PROVE HoldsItsDirectory'
  BY <1>7 DEF OpendirFails
<1>8. ASSUME NEW t \in Threads, ReadEntry(t) PROVE HoldsItsDirectory'
  BY <1>8 DEF ReadEntry
<1>9. ASSUME NEW t \in Threads, EnqueueDirectory(t) PROVE HoldsItsDirectory'
  BY <1>9 DEF EnqueueDirectory
<1>10. ASSUME NEW t \in Threads, BroadcastQueueNotEmpty(t)
      PROVE  HoldsItsDirectory'
  BY <1>10 DEF BroadcastQueueNotEmpty
<1>11. ASSUME NEW t \in Threads, CountFile(t) PROVE HoldsItsDirectory'
  BY <1>11 DEF CountFile
<1>12. ASSUME NEW t \in Threads, FinishScan(t) PROVE HoldsItsDirectory'
  BY <1>12 DEF FinishScan, AfterScan
<1>13. ASSUME NEW t \in Threads, CountError(t) PROVE HoldsItsDirectory'
  BY <1>13 DEF CountError
<1>14. ASSUME NEW t \in Threads, SignalAndDie(t) PROVE HoldsItsDirectory'
  BY <1>14 DEF SignalAndDie
<1>15. ASSUME NEW t \in Threads, CountSleeper(t) PROVE HoldsItsDirectory'
  BY <1>15 DEF CountSleeper, BroadcastNewSleepingThread
<1>16. ASSUME NEW t \in Threads, Sleep(t) PROVE HoldsItsDirectory'
  BY <1>16 DEF Sleep
<1>17. ASSUME NEW t \in Threads, Wake(t) PROVE HoldsItsDirectory'
  BY <1>17 DEF Wake
<1>18. ASSUME NEW t \in Threads, Unsleep(t) PROVE HoldsItsDirectory'
  BY <1>18 DEF Unsleep
<1>19. ASSUME NEW t \in Threads, SpuriousWakeup(t) PROVE HoldsItsDirectory'
  BY <1>19 DEF SpuriousWakeup
<1>20. ASSUME NEW t \in Threads, CreateThread(t) PROVE HoldsItsDirectory'
  BY <1>20 DEF CreateThread
<1>21. CASE EnqueueRoot
  BY <1>21 DEF EnqueueRoot
<1>22. CASE OpenGate
  BY <1>22 DEF OpenGate
<1>23. CASE CountMain
  BY <1>23 DEF CountMain
<1>24. CASE ReadErrors
  BY <1>24 DEF ReadErrors
<1>25. CASE ReadSleeping
  BY <1>25 DEF ReadSleeping
<1>26. CASE ReadLiving
  BY <1>26 DEF ReadLiving
<1>27. CASE CheckSleeping
  BY <1>27 DEF CheckSleeping
<1>28. CASE CheckErrors
  BY <1>28 DEF CheckErrors
<1>29. CASE AwaitNewSleepingThread
  BY <1>29 DEF AwaitNewSleepingThread
<1>30. CASE SpuriousMainWakeup
  BY <1>30 DEF SpuriousMainWakeup
<1>31. CASE EndRun
  BY <1>31 DEF EndRun
<1>32. CASE PrintAndExit
  BY <1>32 DEF PrintAndExit
<1>33. CASE UNCHANGED vars
  BY <1>33 DEF vars
<1> QED
  BY <1>1, <1>2, <1>3, <1>4, <1>5, <1>6, <1>7, <1>8, <1>9, <1>10, <1>11,
     <1>12, <1>13, <1>14, <1>15, <1>16, <1>17, <1>18, <1>19, <1>20, <1>21,
     <1>22, <1>23, <1>24, <1>25, <1>26, <1>27, <1>28, <1>29, <1>30, <1>31,
     <1>32, <1>33
  DEF Next, Worker, WorkerStep, Main

\* Lines 311-321: the FIFO has its first directory before any worker runs.
LEMMA NoneBornYetStep == Types /\ NoneBornYet /\ [Next]_vars => NoneBornYet'
<1> SUFFICES ASSUME Types, NoneBornYet, [Next]_vars PROVE NoneBornYet'
  OBVIOUS
<1> USE PfindAssumption DEF Types, NoneBornYet, Goto, Broadcast
<1>1. ASSUME NEW t \in Threads, PassGate(t) PROVE NoneBornYet'
  BY <1>1 DEF PassGate
<1>2. ASSUME NEW t \in Threads, LoopTest(t) PROVE NoneBornYet'
  BY <1>2 DEF LoopTest
<1>3. ASSUME NEW t \in Threads, AwaitSleepingThread(t) PROVE NoneBornYet'
  BY <1>3 DEF AwaitSleepingThread
<1>4. ASSUME NEW t \in Threads, DequeueNothing(t) PROVE NoneBornYet'
  BY <1>4 DEF DequeueNothing
<1>5. ASSUME NEW t \in Threads, DequeueDirectory(t) PROVE NoneBornYet'
  BY <1>5 DEF DequeueDirectory
<1>6. ASSUME NEW t \in Threads, Opendir(t) PROVE NoneBornYet'
  BY <1>6 DEF Opendir
<1>7. ASSUME NEW t \in Threads, OpendirFails(t) PROVE NoneBornYet'
  BY <1>7 DEF OpendirFails
<1>8. ASSUME NEW t \in Threads, ReadEntry(t) PROVE NoneBornYet'
  BY <1>8 DEF ReadEntry
<1>9. ASSUME NEW t \in Threads, EnqueueDirectory(t) PROVE NoneBornYet'
  BY <1>9 DEF EnqueueDirectory
<1>10. ASSUME NEW t \in Threads, BroadcastQueueNotEmpty(t) PROVE NoneBornYet'
  BY <1>10 DEF BroadcastQueueNotEmpty
<1>11. ASSUME NEW t \in Threads, CountFile(t) PROVE NoneBornYet'
  BY <1>11 DEF CountFile
<1>12. ASSUME NEW t \in Threads, FinishScan(t) PROVE NoneBornYet'
  BY <1>12 DEF FinishScan, AfterScan
<1>13. ASSUME NEW t \in Threads, CountError(t) PROVE NoneBornYet'
  BY <1>13 DEF CountError
<1>14. ASSUME NEW t \in Threads, SignalAndDie(t) PROVE NoneBornYet'
  BY <1>14 DEF SignalAndDie
<1>15. ASSUME NEW t \in Threads, CountSleeper(t) PROVE NoneBornYet'
  BY <1>15 DEF CountSleeper, BroadcastNewSleepingThread
<1>16. ASSUME NEW t \in Threads, Sleep(t) PROVE NoneBornYet'
  BY <1>16 DEF Sleep
<1>17. ASSUME NEW t \in Threads, Wake(t) PROVE NoneBornYet'
  BY <1>17 DEF Wake
<1>18. ASSUME NEW t \in Threads, Unsleep(t) PROVE NoneBornYet'
  BY <1>18 DEF Unsleep
<1>19. ASSUME NEW t \in Threads, SpuriousWakeup(t) PROVE NoneBornYet'
  BY <1>19 DEF SpuriousWakeup
<1>20. ASSUME NEW t \in Threads, CreateThread(t) PROVE NoneBornYet'
  BY <1>20 DEF CreateThread
<1>21. CASE EnqueueRoot
  BY <1>21 DEF EnqueueRoot
<1>22. CASE OpenGate
  BY <1>22 DEF OpenGate
<1>23. CASE CountMain
  BY <1>23 DEF CountMain
<1>24. CASE ReadErrors
  BY <1>24 DEF ReadErrors
<1>25. CASE ReadSleeping
  BY <1>25 DEF ReadSleeping
<1>26. CASE ReadLiving
  BY <1>26 DEF ReadLiving
<1>27. CASE CheckSleeping
  BY <1>27 DEF CheckSleeping
<1>28. CASE CheckErrors
  BY <1>28 DEF CheckErrors
<1>29. CASE AwaitNewSleepingThread
  BY <1>29 DEF AwaitNewSleepingThread
<1>30. CASE SpuriousMainWakeup
  BY <1>30 DEF SpuriousMainWakeup
<1>31. CASE EndRun
  BY <1>31 DEF EndRun
<1>32. CASE PrintAndExit
  BY <1>32 DEF PrintAndExit
<1>33. CASE UNCHANGED vars
  BY <1>33 DEF vars
<1> QED
  BY <1>1, <1>2, <1>3, <1>4, <1>5, <1>6, <1>7, <1>8, <1>9, <1>10, <1>11,
     <1>12, <1>13, <1>14, <1>15, <1>16, <1>17, <1>18, <1>19, <1>20, <1>21,
     <1>22, <1>23, <1>24, <1>25, <1>26, <1>27, <1>28, <1>29, <1>30, <1>31,
     <1>32, <1>33
  DEF Next, Worker, WorkerStep, Main

\* Lines 255-293: a worker stops looking at the FIFO only when it has found it
\* empty, and the FIFO is filled by main or by a worker that will look again.
LEMMA QueueAttendedStep ==
  Types /\ NoneBornYet /\ QueueAttended /\ [Next]_vars => QueueAttended'
<1> SUFFICES ASSUME Types, NoneBornYet, QueueAttended, [Next]_vars
             PROVE  QueueAttended'
  OBVIOUS
<1> USE PfindAssumption DEF Types, QueueAttended, Napping, Goto, Broadcast,
        queueVars
<1>1. ASSUME NEW t \in Threads, PassGate(t) PROVE QueueAttended'
  BY <1>1 DEF PassGate
<1>2. ASSUME NEW t \in Threads, LoopTest(t) PROVE QueueAttended'
  BY <1>2 DEF LoopTest
<1>3. ASSUME NEW t \in Threads, AwaitSleepingThread(t) PROVE QueueAttended'
  BY <1>3 DEF AwaitSleepingThread
<1>4. ASSUME NEW t \in Threads, DequeueNothing(t) PROVE QueueAttended'
  BY <1>4 DEF DequeueNothing
<1>5. ASSUME NEW t \in Threads, DequeueDirectory(t) PROVE QueueAttended'
  BY <1>5 DEF DequeueDirectory, deQueue
<1>6. ASSUME NEW t \in Threads, Opendir(t) PROVE QueueAttended'
  BY <1>6 DEF Opendir
<1>7. ASSUME NEW t \in Threads, OpendirFails(t) PROVE QueueAttended'
  BY <1>7 DEF OpendirFails
<1>8. ASSUME NEW t \in Threads, ReadEntry(t) PROVE QueueAttended'
  BY <1>8 DEF ReadEntry
<1>9. ASSUME NEW t \in Threads, EnqueueDirectory(t) PROVE QueueAttended'
  BY <1>9 DEF EnqueueDirectory, enQueue
<1>10. ASSUME NEW t \in Threads, BroadcastQueueNotEmpty(t) PROVE QueueAttended'
  BY <1>10 DEF BroadcastQueueNotEmpty
<1>11. ASSUME NEW t \in Threads, CountFile(t) PROVE QueueAttended'
  BY <1>11 DEF CountFile
<1>12. ASSUME NEW t \in Threads, FinishScan(t) PROVE QueueAttended'
  BY <1>12 DEF FinishScan, AfterScan
<1>13. ASSUME NEW t \in Threads, CountError(t) PROVE QueueAttended'
  BY <1>13 DEF CountError
<1>14. ASSUME NEW t \in Threads, SignalAndDie(t) PROVE QueueAttended'
  BY <1>14 DEF SignalAndDie
<1>15. ASSUME NEW t \in Threads, CountSleeper(t) PROVE QueueAttended'
  BY <1>15 DEF CountSleeper, BroadcastNewSleepingThread
<1>16. ASSUME NEW t \in Threads, Sleep(t) PROVE QueueAttended'
  BY <1>16 DEF Sleep
<1>17. ASSUME NEW t \in Threads, Wake(t) PROVE QueueAttended'
  BY <1>17 DEF Wake
<1>18. ASSUME NEW t \in Threads, Unsleep(t) PROVE QueueAttended'
  BY <1>18 DEF Unsleep
<1>19. ASSUME NEW t \in Threads, SpuriousWakeup(t) PROVE QueueAttended'
  BY <1>19 DEF SpuriousWakeup
<1>20. ASSUME NEW t \in Threads, CreateThread(t) PROVE QueueAttended'
  BY <1>20 DEF CreateThread
<1>21. CASE EnqueueRoot
  BY <1>21 DEF EnqueueRoot, NoneBornYet
<1>22. CASE OpenGate
  BY <1>22 DEF OpenGate
<1>23. CASE CountMain
  BY <1>23 DEF CountMain
<1>24. CASE ReadErrors
  BY <1>24 DEF ReadErrors
<1>25. CASE ReadSleeping
  BY <1>25 DEF ReadSleeping
<1>26. CASE ReadLiving
  BY <1>26 DEF ReadLiving
<1>27. CASE CheckSleeping
  BY <1>27 DEF CheckSleeping
<1>28. CASE CheckErrors
  BY <1>28 DEF CheckErrors
<1>29. CASE AwaitNewSleepingThread
  BY <1>29 DEF AwaitNewSleepingThread
<1>30. CASE SpuriousMainWakeup
  BY <1>30 DEF SpuriousMainWakeup
<1>31. CASE EndRun
  BY <1>31 DEF EndRun
<1>32. CASE PrintAndExit
  BY <1>32 DEF PrintAndExit
<1>33. CASE UNCHANGED vars
  BY <1>33 DEF vars
<1> QED
  BY <1>1, <1>2, <1>3, <1>4, <1>5, <1>6, <1>7, <1>8, <1>9, <1>10, <1>11,
     <1>12, <1>13, <1>14, <1>15, <1>16, <1>17, <1>18, <1>19, <1>20, <1>21,
     <1>22, <1>23, <1>24, <1>25, <1>26, <1>27, <1>28, <1>29, <1>30, <1>31,
     <1>32, <1>33
  DEF Next, Worker, WorkerStep, Main

\* Lines 165-181: a dead worker stays dead, and as many errors as workers means
\* that all of them are.
LEMMA ErrorExitStep ==
  Types /\ CountersExact /\ ErrorExitMeansAllDead /\ [Next]_vars
    => ErrorExitMeansAllDead'
<1> SUFFICES ASSUME Types, CountersExact, ErrorExitMeansAllDead, [Next]_vars
             PROVE  ErrorExitMeansAllDead'
  OBVIOUS
<1> USE PfindAssumption DEF Types, ErrorExitMeansAllDead, Goto, Broadcast,
        endVars
<1>1. ASSUME NEW t \in Threads, PassGate(t) PROVE ErrorExitMeansAllDead'
  BY <1>1 DEF PassGate
<1>2. ASSUME NEW t \in Threads, LoopTest(t) PROVE ErrorExitMeansAllDead'
  BY <1>2 DEF LoopTest
<1>3. ASSUME NEW t \in Threads, AwaitSleepingThread(t)
      PROVE  ErrorExitMeansAllDead'
  BY <1>3 DEF AwaitSleepingThread
<1>4. ASSUME NEW t \in Threads, DequeueNothing(t) PROVE ErrorExitMeansAllDead'
  BY <1>4 DEF DequeueNothing
<1>5. ASSUME NEW t \in Threads, DequeueDirectory(t)
      PROVE  ErrorExitMeansAllDead'
  BY <1>5 DEF DequeueDirectory
<1>6. ASSUME NEW t \in Threads, Opendir(t) PROVE ErrorExitMeansAllDead'
  BY <1>6 DEF Opendir
<1>7. ASSUME NEW t \in Threads, OpendirFails(t) PROVE ErrorExitMeansAllDead'
  BY <1>7 DEF OpendirFails
<1>8. ASSUME NEW t \in Threads, ReadEntry(t) PROVE ErrorExitMeansAllDead'
  BY <1>8 DEF ReadEntry
<1>9. ASSUME NEW t \in Threads, EnqueueDirectory(t)
      PROVE  ErrorExitMeansAllDead'
  BY <1>9 DEF EnqueueDirectory
<1>10. ASSUME NEW t \in Threads, BroadcastQueueNotEmpty(t)
      PROVE  ErrorExitMeansAllDead'
  BY <1>10 DEF BroadcastQueueNotEmpty
<1>11. ASSUME NEW t \in Threads, CountFile(t) PROVE ErrorExitMeansAllDead'
  BY <1>11 DEF CountFile
<1>12. ASSUME NEW t \in Threads, FinishScan(t) PROVE ErrorExitMeansAllDead'
  BY <1>12 DEF FinishScan, AfterScan
<1>13. ASSUME NEW t \in Threads, CountError(t) PROVE ErrorExitMeansAllDead'
  BY <1>13 DEF CountError
<1>14. ASSUME NEW t \in Threads, SignalAndDie(t) PROVE ErrorExitMeansAllDead'
  BY <1>14 DEF SignalAndDie
<1>15. ASSUME NEW t \in Threads, CountSleeper(t) PROVE ErrorExitMeansAllDead'
  BY <1>15 DEF CountSleeper, BroadcastNewSleepingThread
<1>16. ASSUME NEW t \in Threads, Sleep(t) PROVE ErrorExitMeansAllDead'
  BY <1>16 DEF Sleep
<1>17. ASSUME NEW t \in Threads, Wake(t) PROVE ErrorExitMeansAllDead'
  BY <1>17 DEF Wake
<1>18. ASSUME NEW t \in Threads, Unsleep(t) PROVE ErrorExitMeansAllDead'
  BY <1>18 DEF Unsleep
<1>19. ASSUME NEW t \in Threads, SpuriousWakeup(t) PROVE ErrorExitMeansAllDead'
  BY <1>19 DEF SpuriousWakeup
<1>20. ASSUME NEW t \in Threads, CreateThread(t) PROVE ErrorExitMeansAllDead'
  BY <1>20 DEF CreateThread
<1>21. CASE EnqueueRoot
  BY <1>21 DEF EnqueueRoot
<1>22. CASE OpenGate
  BY <1>22 DEF OpenGate
<1>23. CASE CountMain
  BY <1>23 DEF CountMain
<1>24. CASE ReadErrors
  BY <1>24 DEF ReadErrors
<1>25. CASE ReadSleeping
  BY <1>25 DEF ReadSleeping
<1>26. CASE ReadLiving
  BY <1>26 DEF ReadLiving
<1>27. CASE CheckSleeping
  BY <1>27 DEF CheckSleeping
<1>28. CASE CheckErrors
  <2>1. check_thread_errors => Dead = Threads
    BY ThreadSets, FS_Subset
    DEF check_thread_errors, CountersExact, Dead, threads_limit
  <2> QED
    BY <1>28, <2>1 DEF CheckErrors, Dead
<1>29. CASE AwaitNewSleepingThread
  BY <1>29 DEF AwaitNewSleepingThread
<1>30. CASE SpuriousMainWakeup
  BY <1>30 DEF SpuriousMainWakeup
<1>31. CASE EndRun
  BY <1>31 DEF EndRun
<1>32. CASE PrintAndExit
  BY <1>32 DEF PrintAndExit
<1>33. CASE UNCHANGED vars
  BY <1>33 DEF vars
<1> QED
  BY <1>1, <1>2, <1>3, <1>4, <1>5, <1>6, <1>7, <1>8, <1>9, <1>10, <1>11,
     <1>12, <1>13, <1>14, <1>15, <1>16, <1>17, <1>18, <1>19, <1>20, <1>21,
     <1>22, <1>23, <1>24, <1>25, <1>26, <1>27, <1>28, <1>29, <1>30, <1>31,
     <1>32, <1>33
  DEF Next, Worker, WorkerStep, Main

\* The inductive invariant holds in the initial state.
LEMMA IInvInit == Init => IInv
<1> SUFFICES ASSUME Init PROVE IInv
  OBVIOUS
<1> USE PfindAssumption DEF Init
<1>1. Types
  <2>1. directories_queue \in Seq(Entries)
    OBVIOUS
  <2>2. /\ m_errored \in 0 .. threads_limit
        /\ m_sleeping \in 0 .. threads_limit + 1
    BY LimitIsNatural
  <2>3. pc \in [Threads -> WorkerLabels] /\ mpc \in MainLabels
    BY DEF WorkerLabels, MainLabels
  <2>4. /\ curr_directory \in [Threads -> Entries \cup {None}]
        /\ item \in [Threads -> Entries \cup {None}]
        /\ todo \in [Threads -> SUBSET Entries]
        /\ res \in [Threads -> BOOLEAN]
    OBVIOUS
  <2>5. /\ empty_queue \in BOOLEAN /\ can_start \in BOOLEAN
        /\ run_ended \in BOOLEAN /\ all_threads_are_error \in BOOLEAN
        /\ m_finished \in BOOLEAN /\ queue_lock \in Threads \cup {None}
    OBVIOUS
  <2>6. counter \in Nat /\ reported \in Int /\ scanned \subseteq Dirs
    OBVIOUS
  <2> HIDE DEF Init
  <2> QED
    BY <2>1, <2>2, <2>3, <2>4, <2>5, <2>6 DEF Types
<1>2. CountersExact
  <2>1. Sleepers = {} /\ Dead = {} /\ Born = {}
    BY DEF Sleepers, Dead, Born, Napping
  <2> QED
    BY <2>1, FS_EmptySet DEF CountersExact, MainUnit
<1>3. HoldsItsDirectory /\ NoneBornYet /\ QueueAttended /\ ErrorExitMeansAllDead
  BY DEF HoldsItsDirectory, NoneBornYet, QueueAttended, ErrorExitMeansAllDead,
         Scanning
<1> QED
  BY <1>1, <1>2, <1>3 DEF IInv

\* Every step keeps the inductive invariant.
LEMMA IInvStep == IInv /\ [Next]_vars => IInv'
  BY TypesStep, CountersBounded, CountersStep, HoldsItsDirectoryStep,
     NoneBornYetStep, QueueAttendedStep, ErrorExitStep DEF IInv

\* The inductive invariant holds throughout.
THEOREM Invariance == Spec => []IInv
  BY IInvInit, IInvStep, PTL DEF Spec

-----------------------------------------------------------------------------

\* The variables keep their types; sleeping_threads_available never exceeds
\* threads_limit + 1, nor do thread_errors_cntr and living_threads leave
\* 0 .. threads_limit.
THEOREM TypeCorrect == Spec => []TypeOK
<1>1. IInv => TypeOK
  BY CountersBounded DEF IInv, Types, CounterRanges, TypeOK
<1> QED
  BY <1>1, Invariance, PTL

\* Lines 255-293: while no worker has died of a failed scan or could not be
\* created, and the FIFO holds a directory, some worker has still to look into it,
\* however broadcasts and waits interleave.  From the first failure on the statement
\* is empty, since a dead worker and one that was never created satisfy it.
THEOREM QueueIsAttended == Spec => []QueueAttended
<1>1. IInv => QueueAttended
  BY DEF IInv
<1> QED
  BY <1>1, Invariance, PTL

\* When sleeping_threads_available reaches threads_limit + 1 every worker sleeps.
LEMMA EverybodyNaps ==
  ASSUME IInv, check_thread_sleeping
  PROVE  \A t \in Threads : pc[t] \in Napping
<1>1. Cardinality(Sleepers) = threads_limit
  BY ThreadSets, LimitIsNatural
  DEF IInv, CountersExact, MainUnit, check_thread_sleeping
<1>2. Sleepers = Threads
  BY <1>1, PfindAssumption, FS_Subset DEF Sleepers, threads_limit
<1> QED
  BY <1>2 DEF Sleepers

\* Lines 183-199: when sleeping_threads_available reaches threads_limit + 1 the
\* FIFO is empty and no worker is in the middle of a directory.
THEOREM AllAsleepIsDrained == Spec => []AllAsleepMeansDrained
<1>1. IInv => AllAsleepMeansDrained
  <2> SUFFICES ASSUME IInv, check_thread_sleeping
               PROVE  /\ directories_queue = <<>>
                      /\ \A t \in Threads : /\ pc[t] \notin Scanning
                                           /\ curr_directory[t] = None
    BY DEF AllAsleepMeansDrained
  <2>1. \A t \in Threads : pc[t] \in Napping
    BY EverybodyNaps
  <2>2. directories_queue = <<>>
    BY <2>1 DEF IInv, QueueAttended
  <2>3. ASSUME NEW t \in Threads
        PROVE  pc[t] \notin Scanning /\ curr_directory[t] = None
    BY <2>1 DEF IInv, HoldsItsDirectory, Napping, Scanning
  <2> QED
    BY <2>2, <2>3
<1> QED
  BY <1>1, Invariance, PTL

\* Lines 165-181 and 497-501: the exit status 1 means that every worker failed.
THEOREM ErrorExit == Spec => []ErrorExitMeansAllDead
<1>1. IInv => ErrorExitMeansAllDead
  BY DEF IInv
<1> QED
  BY <1>1, Invariance, PTL

-----------------------------------------------------------------------------
(* Where the entries of the tree are, and what has been counted. *)

\* A worker that reads a directory, at whatever point of the readdir loop.
Reading == {"readdir", "enqueue", "broadcast", "count"}

\* What a worker is about to scan or to append.
Held(t) == {e \in Entries : curr_directory[t] = e \/ (pc[t] = "enqueue" /\ item[t] = e)}

Known == Queued \cup InHand \cup scanned

\* The known directories that nobody has begun to read.
Unread ==
  Queued \cup {e \in Entries : \E t \in Threads :
                 \/ pc[t] = "opendir" /\ curr_directory[t] = e
                 \/ pc[t] = "enqueue" /\ item[t] = e}

\* Each known entry is at one place only.
OnePlace ==
  /\ \A i, j \in DOMAIN directories_queue :
       directories_queue[i] = directories_queue[j] => i = j
  /\ \A t, u \in Threads : t # u => Held(t) \cap Held(u) = {}
  /\ \A t \in Threads : pc[t] = "enqueue" => item[t] # curr_directory[t]
  /\ Queued \cap InHand = {}
  /\ scanned \cap (Queued \cup InHand) = {}

\* F is a part of the tree, closed downwards, of which nothing is known yet: what
\* lies below it will be found there for the first time.
Fresh(F) ==
  /\ F \subseteq Entries /\ F \cap Known = {}
  /\ \A d \in F \cap Dirs : Contents[d] \subseteq F
  /\ \A t \in Threads : pc[t] \in Reading => todo[t] \subseteq F
  /\ \A d \in Unread \cap Dirs : Contents[d] \subseteq F
  /\ mpc = "run" => F = Entries \ {Root}

\* What readdir has yet to return is in the directory that is read; and before main
\* enqueues the root nothing is known.
ReadsItsDirectory ==
  /\ \A t \in Threads : pc[t] \in Reading => todo[t] \subseteq Contents[curr_directory[t]]
  /\ mpc = "run" => directories_queue = <<>> /\ scanned = {}

\* The inductive invariant.
OnceInv == OnePlace /\ ReadsItsDirectory /\ \E F \in SUBSET Entries : Fresh(F)

\* What NothingLost says of the scans that have finished, for those under way too.
Found(e) == e \in Known \cup Unopenable \cup Unstatable

LostInv ==
  ~run_ended =>
    /\ \A d \in scanned : \A e \in Contents[d] \cap Dirs : Found(e)
    /\ \A t \in Threads : pc[t] \in Reading =>
         \A e \in (Contents[curr_directory[t]] \ todo[t]) \cap Dirs : Found(e)

-----------------------------------------------------------------------------

\* A worker whose scan has failed.
Failing == {"error", "signal", "dead"}

\* The steps that touch neither the FIFO nor a scan.
Elsewhere ==
  /\ UNCHANGED <<directories_queue, scanVars, counter>>
  /\ \A t \in Threads :
       /\ pc'[t] = "opendir" <=> pc[t] = "opendir"
       /\ pc'[t] = "enqueue" <=> pc[t] = "enqueue"
       /\ pc'[t] = "count" <=> pc[t] = "count"
       /\ pc'[t] \in Reading <=> pc[t] \in Reading
       /\ pc'[t] \in Failing <=> pc[t] \in Failing
       /\ pc'[t] = "error" => pc[t] = "error"
  /\ mpc' = "run" <=> mpc = "run"
  /\ run_ended => run_ended'

\* The steps of the scans and on the FIFO.
Scan(t) ==
  \/ DequeueDirectory(t) \/ Opendir(t) \/ OpendirFails(t) \/ ReadEntry(t)
  \/ EnqueueDirectory(t) \/ CountFile(t) \/ FinishScan(t)

\* Every step but those of a scan, and the one that enqueues the root, is elsewhere.
LEMMA StepsElsewhere ==
  ASSUME Types, [Next]_vars
  PROVE  Elsewhere \/ EnqueueRoot \/ \E t \in Threads : Scan(t)
<1> USE DEF Types, Elsewhere, Reading, Failing, Goto, Broadcast, scanVars
<1>1. ASSUME NEW t \in Threads, PassGate(t) PROVE Elsewhere
  BY <1>1 DEF PassGate, queueVars, endVars
<1>2. ASSUME NEW t \in Threads, LoopTest(t) PROVE Elsewhere
  BY <1>2 DEF LoopTest, queueVars, endVars
<1>3. ASSUME NEW t \in Threads, AwaitSleepingThread(t) PROVE Elsewhere
  BY <1>3 DEF AwaitSleepingThread, queueVars, endVars
<1>4. ASSUME NEW t \in Threads, DequeueNothing(t) PROVE Elsewhere
  BY <1>4 DEF DequeueNothing, endVars
<1>5. ASSUME NEW t \in Threads, BroadcastQueueNotEmpty(t) PROVE Elsewhere
  BY <1>5 DEF BroadcastQueueNotEmpty, queueVars, endVars
<1>6. ASSUME NEW t \in Threads, CountError(t) PROVE Elsewhere
  BY <1>6 DEF CountError, queueVars, endVars
<1>7. ASSUME NEW t \in Threads, SignalAndDie(t) PROVE Elsewhere
  BY <1>7 DEF SignalAndDie, queueVars, endVars
<1>8. ASSUME NEW t \in Threads, CountSleeper(t) PROVE Elsewhere
  BY <1>8 DEF CountSleeper, BroadcastNewSleepingThread, queueVars, endVars
<1>9. ASSUME NEW t \in Threads, Sleep(t) PROVE Elsewhere
  BY <1>9 DEF Sleep, queueVars, endVars
<1>10. ASSUME NEW t \in Threads, Wake(t) PROVE Elsewhere
  BY <1>10 DEF Wake, endVars
<1>11. ASSUME NEW t \in Threads, Unsleep(t) PROVE Elsewhere
  BY <1>11 DEF Unsleep, endVars
<1>12. ASSUME NEW t \in Threads, SpuriousWakeup(t) PROVE Elsewhere
  BY <1>12 DEF SpuriousWakeup, queueVars, endVars
<1>13. ASSUME NEW t \in Threads, CreateThread(t) PROVE Elsewhere
  BY <1>13 DEF CreateThread, queueVars, endVars
<1>14. CASE OpenGate
  BY <1>14 DEF OpenGate, queueVars
<1>15. CASE CountMain
  BY <1>15 DEF CountMain, queueVars, endVars
<1>16. CASE ReadErrors \/ ReadSleeping \/ ReadLiving \/ CheckSleeping
  BY <1>16 DEF ReadErrors, ReadSleeping, ReadLiving, CheckSleeping, queueVars, endVars
<1>17. CASE CheckErrors \/ AwaitNewSleepingThread \/ SpuriousMainWakeup
  BY <1>17 DEF CheckErrors, AwaitNewSleepingThread, SpuriousMainWakeup, queueVars, endVars
<1>18. CASE EndRun \/ PrintAndExit
  BY <1>18 DEF EndRun, PrintAndExit, queueVars
<1>19. CASE UNCHANGED vars
  BY <1>19 DEF vars, queueVars, endVars
<1> QED
  BY <1>1, <1>2, <1>3, <1>4, <1>5, <1>6, <1>7, <1>8, <1>9, <1>10, <1>11, <1>12,
     <1>13, <1>14, <1>15, <1>16, <1>17, <1>18, <1>19
  DEF Next, Worker, WorkerStep, Main, Scan

\* The FIFO holds entries.
LEMMA QueuedEntries == Types => Queued \subseteq Entries
  BY ElementOfSeq DEF Types, Queued

\* Steps elsewhere change nothing of what is known.
LEMMA ElsewhereKeepsKnown ==
  ASSUME Types, Elsewhere
  PROVE  /\ Queued' = Queued /\ InHand' = InHand /\ Known' = Known /\ Unread' = Unread
         /\ \A t \in Threads : Held(t)' = Held(t)
BY DEF Elsewhere, scanVars, Queued, InHand, Known, Unread, Held

LEMMA ElsewhereKeepsOnce ==
  ASSUME Types, OnceInv, Elsewhere
  PROVE  OnceInv'
<1>1. OnePlace'
  BY ElsewhereKeepsKnown DEF OnceInv, OnePlace, Elsewhere, scanVars
<1>2. ReadsItsDirectory'
  BY DEF OnceInv, ReadsItsDirectory, Elsewhere, scanVars
<1>3. PICK F \in SUBSET Entries : Fresh(F)
  BY DEF OnceInv
<1>4. Fresh(F)'
  BY <1>3, ElsewhereKeepsKnown DEF Fresh, Elsewhere, scanVars
<1> QED
  BY <1>1, <1>2, <1>4 DEF OnceInv

LEMMA ElsewhereKeepsLost ==
  ASSUME Types, LostInv, Elsewhere
  PROVE  LostInv'
BY ElsewhereKeepsKnown DEF LostInv, Found, Elsewhere, scanVars

-----------------------------------------------------------------------------
(* The FIFO as a set. *)

Values(q) == {q[i] : i \in DOMAIN q}
Distinct(q) == \A i, j \in DOMAIN q : q[i] = q[j] => i = j

\* Lines 72-93: the head leaves, and the rest stays as it is.
LEMMA DequeueValues ==
  ASSUME NEW S, NEW q \in Seq(S), q # <<>>, Distinct(q)
  PROVE  /\ Head(q) \in S /\ Values(q) = {Head(q)} \cup Values(deQueue(q))
         /\ Head(q) \notin Values(deQueue(q)) /\ Distinct(deQueue(q))
<1> DEFINE r == deQueue(q)
<1>1. /\ Head(q) \in S /\ r \in Seq(S) /\ Len(r) = Len(q) - 1 /\ Head(q) = q[1]
      /\ \A i \in 1 .. Len(r) : r[i] = q[i + 1]
  BY HeadTailProperties DEF deQueue
<1>2. /\ DOMAIN q = 1 .. Len(q) /\ DOMAIN r = 1 .. Len(r)
      /\ Len(q) \in Nat \ {0} /\ Len(r) \in Nat
  BY <1>1, LenProperties, EmptySeq
<1> HIDE DEF r
<1>3. \A i \in DOMAIN q : i = 1 \/ (i - 1 \in DOMAIN r /\ q[i] = r[i - 1])
  BY <1>1, <1>2
<1>4. \A i \in DOMAIN r : i + 1 \in DOMAIN q /\ i + 1 # 1 /\ r[i] = q[i + 1]
  BY <1>1, <1>2
<1>5. 1 \in DOMAIN q
  BY <1>2
<1>6. Values(q) = {Head(q)} \cup Values(r)
  <2>1. ASSUME NEW i \in DOMAIN q
        PROVE  q[i] \in {Head(q)} \cup Values(r)
    BY <1>1, <1>3 DEF Values
  <2>2. Head(q) \in Values(q)
    BY <1>1, <1>5 DEF Values
  <2>3. ASSUME NEW i \in DOMAIN r
        PROVE  r[i] \in Values(q)
    BY <1>4 DEF Values
  <2> QED
    BY <2>1, <2>2, <2>3 DEF Values
<1>7. Head(q) \notin Values(r)
  BY <1>1, <1>4, <1>5 DEF Values, Distinct
<1>8. Distinct(r)
  BY <1>2, <1>4 DEF Distinct
<1> QED
  BY <1>1, <1>6, <1>7, <1>8 DEF r

\* Lines 55-70: what is appended comes after what was there.
LEMMA EnqueueValues ==
  ASSUME NEW S, NEW q \in Seq(S), NEW e \in S, e \notin Values(q), Distinct(q)
  PROVE  Values(enQueue(q, e)) = Values(q) \cup {e} /\ Distinct(enQueue(q, e))
<1> DEFINE r == enQueue(q, e)
<1>1. /\ r \in Seq(S) /\ Len(r) = Len(q) + 1 /\ r[Len(q) + 1] = e
      /\ \A i \in 1 .. Len(q) : r[i] = q[i]
  BY AppendProperties DEF enQueue
<1>2. DOMAIN q = 1 .. Len(q) /\ DOMAIN r = 1 .. Len(q) + 1 /\ Len(q) \in Nat
  BY <1>1, LenProperties
<1> HIDE DEF r
<1>3. \A i \in DOMAIN r : (i \in DOMAIN q /\ r[i] = q[i]) \/ (i = Len(q) + 1 /\ r[i] = e)
  BY <1>1, <1>2
<1>4. \A i \in DOMAIN q : i \in DOMAIN r /\ r[i] = q[i]
  BY <1>1, <1>2
<1>5. Values(r) = Values(q) \cup {e}
  BY <1>1, <1>2, <1>3, <1>4 DEF Values
<1>6. Distinct(r)
  BY <1>3 DEF Distinct, Values
<1> QED
  BY <1>5, <1>6 DEF r

-----------------------------------------------------------------------------
(* The steps of a scan, one lemma each. *)

\* What the steps of one worker leave to the others.
Others(t) ==
  \A u \in Threads \ {t} :
    /\ pc'[u] = pc[u] /\ curr_directory'[u] = curr_directory[u]
    /\ todo'[u] = todo[u] /\ item'[u] = item[u] /\ res'[u] = res[u]
    /\ Held(u)' = Held(u)

\* A scan is the business of one worker, and of nobody else.
LEMMA ScansAreLocal ==
  ASSUME Types, NEW t \in Threads, Scan(t)
  PROVE  Others(t) /\ UNCHANGED <<mpc, run_ended>>
<1> USE DEF Types, Goto, scanVars, endVars
<1>1. /\ UNCHANGED <<mpc, run_ended>>
      /\ \A u \in Threads \ {t} :
           /\ pc'[u] = pc[u] /\ curr_directory'[u] = curr_directory[u]
           /\ todo'[u] = todo[u] /\ item'[u] = item[u] /\ res'[u] = res[u]
  <2>1. CASE DequeueDirectory(t)
    BY <2>1 DEF DequeueDirectory
  <2>2. CASE Opendir(t)
    BY <2>2 DEF Opendir
  <2>3. CASE OpendirFails(t)
    BY <2>3 DEF OpendirFails
  <2>4. CASE ReadEntry(t)
    BY <2>4 DEF ReadEntry
  <2>5. CASE EnqueueDirectory(t)
    BY <2>5 DEF EnqueueDirectory
  <2>6. CASE CountFile(t)
    BY <2>6 DEF CountFile
  <2>7. CASE FinishScan(t)
    BY <2>7 DEF FinishScan
  <2> QED
    BY <2>1, <2>2, <2>3, <2>4, <2>5, <2>6, <2>7 DEF Scan
<1> QED
  BY <1>1 DEF Others, Held

\* OnePlace from the places of one worker before and after the step.
LEMMA PlacesAfter ==
  ASSUME OnePlace, NEW t \in Threads, Others(t),
         Distinct(directories_queue)',
         Held(t)' \cap (Queued' \cup scanned') = {},
         Queued' \cap scanned' = {},
         \A u \in Threads \ {t} : Held(u) \cap (Held(t)' \cup Queued' \cup scanned') = {},
         pc'[t] = "enqueue" => item'[t] # curr_directory'[t]
  PROVE  OnePlace'
BY DEF OnePlace, Others, Distinct, InHand, Held

\* Where an entry is known.
LEMMA KnownPlaces ==
  /\ \A t \in Threads : Held(t) \subseteq InHand
  /\ \A e \in InHand : \E t \in Threads : e \in Held(t)
  /\ InHand \subseteq Entries
BY DEF Held, InHand

\* Lines 254-257: the directory at the front is taken in hand.
LEMMA DequeueKeepsOnce ==
  ASSUME IInv, OnceInv, NEW t \in Threads, DequeueDirectory(t)
  PROVE  OnceInv'
<1> DEFINE h == Head(directories_queue)
<1>1. OnePlace /\ ReadsItsDirectory /\ Types /\ Others(t) /\ mpc' = mpc
  BY ScansAreLocal DEF OnceInv, IInv, Scan
<1>2. /\ h \in Entries /\ Queued = {h} \cup Queued' /\ h \notin Queued'
      /\ Distinct(directories_queue)'
  <2>1. /\ directories_queue \in Seq(Entries) /\ directories_queue # <<>>
        /\ directories_queue' = deQueue(directories_queue)
    BY <1>1 DEF DequeueDirectory, Types
  <2>2. Distinct(directories_queue)
    BY <1>1 DEF OnePlace, Distinct
  <2>3. Queued = Values(directories_queue) /\ Queued' = Values(deQueue(directories_queue))
    BY <2>1 DEF Queued, Values
  <2>4. Distinct(directories_queue)' <=> Distinct(deQueue(directories_queue))
    BY <2>1 DEF Distinct
  <2> QED
    BY <2>1, <2>2, <2>3, <2>4, DequeueValues
<1>3. /\ pc[t] = "dequeue" /\ pc'[t] = "opendir" /\ curr_directory'[t] = h
      /\ UNCHANGED <<item, todo, scanned>>
  BY <1>1 DEF DequeueDirectory, Goto, Types
<1>4. Held(t)' = {h}
  BY <1>2, <1>3 DEF Held
<1>5. OnePlace'
  <2>1. h \notin scanned /\ Queued' \cap scanned' = {}
    BY <1>1, <1>2, <1>3 DEF OnePlace
  <2>2. \A u \in Threads \ {t} : Held(u) \cap (Held(t)' \cup Queued' \cup scanned') = {}
    BY <1>1, <1>2, <1>3, <1>4, KnownPlaces DEF OnePlace
  <2> QED
    BY <1>1, <1>2, <1>3, <1>4, <2>1, <2>2, PlacesAfter
<1>6. ReadsItsDirectory'
  BY <1>1, <1>3 DEF ReadsItsDirectory, Others, Reading, DequeueDirectory
<1>7. PICK F \in SUBSET Entries : Fresh(F)
  BY DEF OnceInv
<1>8. Known' \subseteq Known /\ Unread' \subseteq Unread
  <2>1. InHand' \subseteq InHand \cup {h}
    BY <1>1, <1>4 DEF Others, InHand, Held
  <2> QED
    BY <1>1, <1>2, <1>3, <2>1 DEF Known, Unread, Others
<1>9. Fresh(F)'
  BY <1>1, <1>3, <1>7, <1>8 DEF Fresh, Others, Reading
<1> QED
  BY <1>5, <1>6, <1>9 DEF OnceInv

\* Lines 349-357: a directory is opened by the one worker that holds it, so what it
\* contains is read for the first time.
LEMMA OpendirKeepsOnce ==
  ASSUME IInv, OnceInv, NEW t \in Threads, Opendir(t)
  PROVE  OnceInv'
<1>1. OnePlace /\ ReadsItsDirectory /\ Types /\ Others(t) /\ mpc' = mpc
  BY ScansAreLocal DEF OnceInv, IInv, Scan
<1>2. /\ pc[t] = "opendir" /\ pc'[t] = "readdir" /\ curr_directory[t] \in Dirs
      /\ todo'[t] = Contents[curr_directory[t]]
      /\ UNCHANGED <<curr_directory, item, scanned, directories_queue>>
  BY <1>1 DEF Opendir, Goto, Types, queueVars
<1>3. Held(t)' = Held(t) /\ Queued' = Queued
  BY <1>2 DEF Held, Queued
<1>4. OnePlace'
  BY <1>1, <1>2, <1>3 DEF OnePlace, Others, InHand, Held
<1>5. ReadsItsDirectory'
  BY <1>1, <1>2 DEF ReadsItsDirectory, Others, Reading
<1>6. PICK F \in SUBSET Entries : Fresh(F)
  BY DEF OnceInv
<1>7. Known' = Known /\ Unread' \subseteq Unread /\ curr_directory[t] \in Unread
  <2>1. InHand' = InHand
    BY <1>1, <1>2 DEF Others, InHand
  <2> QED
    BY <1>1, <1>2, <1>3, <2>1 DEF Known, Unread, Others, Entries
<1>8. Fresh(F)'
  BY <1>1, <1>2, <1>6, <1>7 DEF Fresh, Others, Reading
<1> QED
  BY <1>4, <1>5, <1>8 DEF OnceInv

\* Lines 350-353 and 424-437: what was in hand is in hand no longer.
LEMMA LettingGoKeepsOnce ==
  ASSUME IInv, OnceInv, NEW t \in Threads, OpendirFails(t) \/ CountFile(t) \/ FinishScan(t)
  PROVE  OnceInv'
<1>1. OnePlace /\ ReadsItsDirectory /\ Types /\ Others(t) /\ mpc' = mpc
  BY ScansAreLocal DEF OnceInv, IInv, Scan
<1>2. /\ pc'[t] \notin {"opendir", "enqueue"} /\ UNCHANGED directories_queue
      /\ curr_directory'[t] \in {None, curr_directory[t]}
      /\ pc'[t] \in Reading =>
           pc[t] \in Reading /\ todo'[t] = todo[t] /\ curr_directory'[t] = curr_directory[t]
      /\ scanned' = scanned \/
           (scanned' = scanned \cup {curr_directory[t]} /\ curr_directory'[t] = None
             /\ curr_directory[t] \in Held(t))
  <2>1. CASE OpendirFails(t)
    BY <1>1, <2>1 DEF OpendirFails, Goto, Types, queueVars, Reading
  <2>2. CASE CountFile(t)
    BY <1>1, <2>2 DEF CountFile, Goto, Types, queueVars, Reading
  <2>3. CASE FinishScan(t)
    <3>1. curr_directory[t] \in Held(t)
      BY <2>3 DEF IInv, HoldsItsDirectory, FinishScan, Scanning, Held, Entries
    <3>2. pc'[t] \in {"error", "loop"}
      BY <1>1, <2>3 DEF FinishScan, AfterScan, Goto, Types
    <3> QED
      BY <1>1, <2>3, <3>1, <3>2 DEF FinishScan, Types, queueVars, Reading
  <2> QED
    BY <2>1, <2>2, <2>3
<1>3. Held(t)' \subseteq Held(t) /\ Queued' = Queued
  BY <1>2, PfindAssumption DEF Held, Queued
<1>4. OnePlace'
  <2>1. Held(t)' \cap (Queued' \cup scanned') = {} /\ Queued' \cap scanned' = {}
    BY <1>1, <1>2, <1>3, KnownPlaces, PfindAssumption DEF OnePlace, Held
  <2>2. \A u \in Threads \ {t} : Held(u) \cap (Held(t)' \cup Queued' \cup scanned') = {}
    BY <1>1, <1>2, <1>3, KnownPlaces DEF OnePlace
  <2>3. Distinct(directories_queue)'
    BY <1>1, <1>2 DEF OnePlace, Distinct
  <2> QED
    BY <1>1, <1>2, <2>1, <2>2, <2>3, PlacesAfter
<1>5. ReadsItsDirectory'
  <2>1. mpc # "run"
    BY <1>1 DEF IInv, NoneBornYet, OpendirFails, CountFile, FinishScan
  <2> QED
    BY <1>1, <1>2, <2>1 DEF ReadsItsDirectory, Others
<1>6. PICK F \in SUBSET Entries : Fresh(F)
  BY DEF OnceInv
<1>7. Known' \subseteq Known /\ Unread' \subseteq Unread
  <2>1. InHand' \subseteq InHand
    BY <1>1, <1>3, KnownPlaces DEF Others, InHand, Held
  <2>2. scanned' \subseteq scanned \cup InHand
    BY <1>2, KnownPlaces
  <2> QED
    BY <1>1, <1>2, <1>3, <2>1, <2>2 DEF Known, Unread, Others
<1>8. Fresh(F)'
  BY <1>1, <1>2, <1>6, <1>7 DEF Fresh, Others
<1> QED
  BY <1>4, <1>5, <1>8 DEF OnceInv

\* Lines 357-396: an entry that readdir returns is found for the first time, because
\* its directory is read by nobody else and has never been read before.
LEMMA ReadEntryKeepsOnce ==
  ASSUME IInv, OnceInv, NEW t \in Threads, ReadEntry(t)
  PROVE  OnceInv'
<1> DEFINE c == curr_directory[t]
<1>1. OnePlace /\ ReadsItsDirectory /\ Types /\ Others(t) /\ mpc' = mpc
  BY ScansAreLocal DEF OnceInv, IInv, Scan
<1>2. PICK F \in SUBSET Entries : Fresh(F)
  BY DEF OnceInv
<1>3. /\ pc[t] = "readdir" /\ c \in Dirs /\ c \in Held(t) /\ mpc # "run"
      /\ UNCHANGED <<curr_directory, scanned, directories_queue>>
  BY DEF ReadEntry, IInv, HoldsItsDirectory, NoneBornYet, Scanning, Held, Entries, queueVars
<1>4. PICK e \in todo[t] :
        /\ todo' = [todo EXCEPT ![t] = @ \ {e}]
        /\ \/ item' = [item EXCEPT ![t] = e] /\ pc' = [pc EXCEPT ![t] = "enqueue"]
           \/ pc'[t] \in {"count", "readdir"}
  BY <1>1 DEF ReadEntry, Goto, Types
<1>5. /\ todo'[t] = todo[t] \ {e} /\ e \in F /\ e \in Entries /\ e \in Contents[c]
      /\ todo'[t] \subseteq F
  BY <1>1, <1>2, <1>3, <1>4 DEF Types, Fresh, ReadsItsDirectory, Reading
<1>6. ReadsItsDirectory'
  BY <1>1, <1>3, <1>4, <1>5 DEF ReadsItsDirectory, Others, Reading
<1>7. Queued' = Queued /\ Distinct(directories_queue)'
  BY <1>1, <1>3 DEF Queued, OnePlace, Distinct
<1>8. CASE item' = [item EXCEPT ![t] = e] /\ pc' = [pc EXCEPT ![t] = "enqueue"]
  <2>1. pc'[t] = "enqueue" /\ item'[t] = e
    BY <1>1, <1>8 DEF Types
  <2>2. Held(t)' = Held(t) \cup {e} /\ e \notin Known
    BY <1>2, <1>3, <1>5, <2>1 DEF Held, Fresh
  <2>3. e # c
    BY <1>3, <2>2, KnownPlaces DEF Known
  <2>4. OnePlace'
    <3>1. Held(t)' \cap (Queued' \cup scanned') = {} /\ Queued' \cap scanned' = {}
      BY <1>1, <1>3, <1>7, <2>2, KnownPlaces DEF OnePlace, Known
    <3>2. \A u \in Threads \ {t} : Held(u) \cap (Held(t)' \cup Queued' \cup scanned') = {}
      BY <1>1, <1>3, <1>7, <2>2, KnownPlaces DEF OnePlace, Known
    <3> QED
      BY <1>1, <1>3, <1>7, <2>1, <2>3, <3>1, <3>2, PlacesAfter
  <2>5. \A d \in Dirs : e \in Contents[d] => d = c
    BY <1>3, <1>5, PfindAssumption
  <2>6. Known' \subseteq Known \cup {e} /\ Unread' \subseteq Unread \cup {e}
    <3>1. InHand' \subseteq InHand \cup {e}
      BY <1>1, <2>2, KnownPlaces DEF Others, InHand, Held
    <3> QED
      BY <1>1, <1>3, <1>7, <2>1, <3>1 DEF Known, Unread, Others
  <2>7. c \notin Unread /\ c \notin F
    <3>1. c \in InHand
      BY <1>3, KnownPlaces
    <3>2. c \notin Queued
      BY <1>1, <3>1 DEF OnePlace
    <3>3. \A u \in Threads \ {t} : c \notin Held(u)
      BY <1>1, <1>3 DEF OnePlace
    <3> QED
      BY <1>2, <1>3, <3>1, <3>2, <3>3 DEF Unread, Held, Fresh, Known
  <2>8. Fresh(F \ {e})'
    <3>1. F \ {e} \subseteq Entries /\ (F \ {e}) \cap Known' = {} /\ mpc' # "run"
      BY <1>1, <1>2, <1>3, <2>6 DEF Fresh
    <3>2. \A d \in (F \ {e}) \cap Dirs : Contents[d] \subseteq F \ {e}
      BY <1>2, <2>5, <2>7 DEF Fresh
    <3>3. ASSUME NEW u \in Threads, pc'[u] \in Reading
          PROVE  todo'[u] \subseteq F \ {e}
      <4>1. CASE u = t
        BY <1>5, <4>1
      <4>2. CASE u # t
        <5>1. todo'[u] = todo[u] /\ pc[u] \in Reading
          BY <1>1, <3>3, <4>2 DEF Others
        <5>2. todo[u] \subseteq F /\ todo[u] \subseteq Contents[curr_directory[u]]
          BY <1>1, <1>2, <5>1 DEF Fresh, ReadsItsDirectory
        <5>3. curr_directory[u] \in Dirs /\ curr_directory[u] \in Held(u)
          BY <5>1 DEF IInv, HoldsItsDirectory, Reading, Scanning, Held, Entries
        <5>4. curr_directory[u] # c
          BY <1>1, <1>3, <4>2, <5>3 DEF OnePlace
        <5> QED
          BY <2>5, <5>1, <5>2, <5>3, <5>4
      <4> QED
        BY <4>1, <4>2
    <3>4. ASSUME NEW d \in Unread' \cap Dirs
          PROVE  Contents[d] \subseteq F \ {e}
      <4>1. CASE d = e
        BY <1>2, <1>5, <2>3, <2>5, <4>1 DEF Fresh
      <4>2. CASE d \in Unread
        BY <1>2, <2>5, <2>7, <4>2 DEF Fresh
      <4> QED
        BY <2>6, <4>1, <4>2
    <3>5. \A d \in Unread' \cap Dirs : Contents[d] \subseteq F \ {e}
      BY <3>4
    <3>6. \A u \in Threads : pc'[u] \in Reading => todo'[u] \subseteq F \ {e}
      BY <3>3
    <3>7. PICK G \in SUBSET Entries : G = F \ {e}
      BY <3>1
    <3>8. Fresh(G)'
      BY <3>1, <3>2, <3>5, <3>6, <3>7 DEF Fresh
    <3> QED
      BY <3>7, <3>8
  <2> QED
    BY <1>6, <2>4, <2>8 DEF OnceInv
<1>9. CASE pc'[t] \in {"count", "readdir"}
  <2>1. Held(t)' = Held(t)
    BY <1>3, <1>9 DEF Held
  <2>2. OnePlace'
    BY <1>1, <1>3, <1>7, <1>9, <2>1 DEF OnePlace, Others, InHand, Held
  <2>3. Known' = Known /\ Unread' \subseteq Unread
    <3>1. InHand' = InHand
      BY <1>1, <2>1 DEF Others, InHand, Held
    <3> QED
      BY <1>1, <1>3, <1>7, <1>9, <3>1 DEF Known, Unread, Others
  <2>4. Fresh(F)'
    BY <1>1, <1>2, <1>3, <1>5, <2>3 DEF Fresh, Others
  <2> QED
    BY <1>6, <2>2, <2>4 DEF OnceInv
<1> QED
  BY <1>4, <1>8, <1>9

\* Lines 389-401: the directory goes from the worker to the end of the FIFO.
LEMMA EnqueueKeepsOnce ==
  ASSUME IInv, OnceInv, NEW t \in Threads, EnqueueDirectory(t)
  PROVE  OnceInv'
<1> DEFINE e == item[t]
<1>1. OnePlace /\ ReadsItsDirectory /\ Types /\ Others(t) /\ mpc' = mpc
  BY ScansAreLocal DEF OnceInv, IInv, Scan
<1>2. /\ pc[t] = "enqueue" /\ pc'[t] = "broadcast" /\ e \in Entries
      /\ directories_queue' = enQueue(directories_queue, e)
      /\ UNCHANGED <<curr_directory, scanned, todo>> /\ mpc # "run"
  BY <1>1 DEF EnqueueDirectory, Goto, Types, IInv, HoldsItsDirectory, NoneBornYet
<1>3. e \in Held(t) /\ e \in InHand /\ e \notin Queued
  BY <1>1, <1>2, KnownPlaces DEF Held, OnePlace
<1>4. Queued' = Queued \cup {e} /\ Distinct(directories_queue)'
  <2>1. directories_queue \in Seq(Entries) /\ Distinct(directories_queue)
    BY <1>1 DEF Types, OnePlace, Distinct
  <2>2. Queued = Values(directories_queue) /\ Queued' = Values(enQueue(directories_queue, e))
    BY <1>2 DEF Queued, Values
  <2>3. Distinct(directories_queue)' <=> Distinct(enQueue(directories_queue, e))
    BY <1>2 DEF Distinct
  <2> QED
    BY <1>2, <1>3, <2>1, <2>2, <2>3, EnqueueValues
<1>5. Held(t)' = Held(t) \ {e}
  BY <1>1, <1>2 DEF Held, OnePlace
<1>6. OnePlace'
  <2>1. Held(t)' \cap (Queued' \cup scanned') = {} /\ Queued' \cap scanned' = {}
    BY <1>1, <1>2, <1>3, <1>4, <1>5, KnownPlaces DEF OnePlace
  <2>2. \A u \in Threads \ {t} : Held(u) \cap (Held(t)' \cup Queued' \cup scanned') = {}
    BY <1>1, <1>2, <1>3, <1>4, <1>5, KnownPlaces DEF OnePlace
  <2> QED
    BY <1>1, <1>2, <1>4, <2>1, <2>2, PlacesAfter
<1>7. ReadsItsDirectory'
  BY <1>1, <1>2 DEF ReadsItsDirectory, Others, Reading
<1>8. PICK F \in SUBSET Entries : Fresh(F)
  BY DEF OnceInv
<1>9. Known' \subseteq Known /\ Unread' \subseteq Unread
  <2>1. InHand' \subseteq InHand
    BY <1>1, <1>5, KnownPlaces DEF Others, InHand, Held
  <2>2. e \in Unread
    BY <1>2 DEF Unread
  <2> QED
    BY <1>1, <1>2, <1>3, <1>4, <2>1, <2>2 DEF Known, Unread, Others
<1>10. Fresh(F)'
  BY <1>1, <1>2, <1>8, <1>9 DEF Fresh, Others, Reading
<1> QED
  BY <1>6, <1>7, <1>10 DEF OnceInv

\* Lines 310-318: the root is enqueued before there is a worker.
LEMMA EnqueueRootKeepsOnce ==
  ASSUME IInv, OnceInv, EnqueueRoot
  PROVE  OnceInv'
<1>1. /\ mpc = "run" /\ mpc' = "create" /\ directories_queue = <<>> /\ scanned = {}
      /\ directories_queue' = enQueue(<<>>, Root)
      /\ UNCHANGED <<pc, curr_directory, item, todo, scanned>>
  BY DEF EnqueueRoot, OnceInv, ReadsItsDirectory, scanVars
<1>2. \A t \in Threads : pc[t] = "unborn" /\ curr_directory[t] = None
  BY <1>1 DEF IInv, NoneBornYet, HoldsItsDirectory, Scanning
<1>3. \A t \in Threads : Held(t)' = {}
  BY <1>1, <1>2, PfindAssumption DEF Held
<1>4. Queued' = {Root} /\ Distinct(directories_queue)' /\ Root \in Entries
  BY <1>1, PfindAssumption DEF Queued, Distinct, enQueue, Entries
<1>5. InHand' = {}
  BY <1>1, <1>2, PfindAssumption DEF InHand
<1>6. OnePlace'
  BY <1>1, <1>2, <1>3, <1>4, <1>5 DEF OnePlace, Distinct
<1>7. ReadsItsDirectory'
  BY <1>1, <1>2 DEF ReadsItsDirectory, Reading
<1>8. PICK F \in SUBSET Entries : F = Entries \ {Root}
  OBVIOUS
<1>9. Fresh(F)'
  <2>1. Known' = {Root} /\ Unread' = {Root}
    BY <1>1, <1>2, <1>4, <1>5 DEF Known, Unread
  <2>2. \A d \in Dirs : Contents[d] \subseteq Entries \ {Root}
    BY PfindAssumption
  <2>3. \A t \in Threads : pc'[t] \notin Reading
    BY <1>1, <1>2 DEF Reading
  <2> QED
    BY <1>1, <1>8, <2>1, <2>2, <2>3 DEF Fresh
<1> QED
  BY <1>6, <1>7, <1>9 DEF OnceInv

\* Every step keeps each entry at one place and the rest of the tree fresh.
LEMMA OnceInvStep == IInv /\ OnceInv /\ [Next]_vars => OnceInv'
<1> SUFFICES ASSUME IInv, OnceInv, [Next]_vars PROVE OnceInv'
  OBVIOUS
<1>1. Types
  BY DEF IInv
<1>2. CASE Elsewhere
  BY <1>1, <1>2, ElsewhereKeepsOnce
<1>3. CASE EnqueueRoot
  BY <1>3, EnqueueRootKeepsOnce
<1>4. ASSUME NEW t \in Threads, Scan(t)
      PROVE  OnceInv'
  BY <1>4, DequeueKeepsOnce, OpendirKeepsOnce, LettingGoKeepsOnce, ReadEntryKeepsOnce,
     EnqueueKeepsOnce DEF Scan
<1> QED
  BY <1>1, <1>2, <1>3, <1>4, StepsElsewhere

\* Before main begins nothing is known.
LEMMA OnceInvInit == Init => OnceInv
<1> SUFFICES ASSUME Init PROVE OnceInv
  OBVIOUS
<1>1. \A t \in Threads : pc[t] = "unborn" /\ curr_directory[t] = None
  BY DEF Init
<1>2. Queued = {} /\ scanned = {} /\ directories_queue = <<>>
  BY DEF Init, Queued
<1>3. InHand = {} /\ Unread = {} /\ \A t \in Threads : Held(t) = {}
  BY <1>1, <1>2, PfindAssumption DEF InHand, Unread, Held
<1>4. OnePlace /\ ReadsItsDirectory
  BY <1>1, <1>2, <1>3 DEF OnePlace, ReadsItsDirectory, Reading
<1>5. PICK F \in SUBSET Entries : F = Entries \ {Root}
  OBVIOUS
<1>6. \A d \in Dirs : Contents[d] \subseteq Entries \ {Root}
  BY PfindAssumption
<1>7. Fresh(F)
  BY <1>1, <1>2, <1>3, <1>5, <1>6 DEF Fresh, Known, Reading
<1> QED
  BY <1>4, <1>7 DEF OnceInv

\* Lines 254-257, 389-401: a directory is never scanned twice: it is once in the FIFO,
\* or in the hands of one worker, or done with.
THEOREM NeverScannedTwice == Spec => []ScannedOnce
<1>1. IInv /\ OnceInv => ScannedOnce
  <2> SUFFICES ASSUME IInv, OnceInv PROVE ScannedOnce
    OBVIOUS
  <2>1. OnePlace /\ Types
    BY DEF OnceInv, IInv
  <2>2. ASSUME NEW t \in Threads, NEW u \in Threads, t # u, curr_directory[t] # None
        PROVE  curr_directory[t] # curr_directory[u]
    <3>1. curr_directory[t] \in Held(t)
      BY <2>1, <2>2 DEF Types, Held
    <3> QED
      BY <2>1, <2>2, <3>1 DEF OnePlace, Held
  <2> QED
    BY <2>1, <2>2 DEF ScannedOnce, OnePlace
<1> QED
  BY <1>1, Invariance, OnceInvInit, OnceInvStep, PTL DEF Spec

-----------------------------------------------------------------------------
(* Nothing is lost. *)

\* LostInv from what one scan finds.
LEMMA LostAfter ==
  ASSUME LostInv, NEW t \in Threads, Others(t), run_ended' = run_ended,
         ~run_ended => \A e \in Dirs : Found(e) => Found(e)',
         ~run_ended =>
           \A d \in scanned' \ scanned : \A e \in Contents[d] \cap Dirs : Found(e)',
         ~run_ended /\ pc'[t] \in Reading =>
           \A e \in (Contents[curr_directory'[t]] \ todo'[t]) \cap Dirs : Found(e)'
  PROVE  LostInv'
<1> SUFFICES ASSUME ~run_ended'
             PROVE  /\ \A d \in scanned' : \A e \in Contents[d] \cap Dirs : Found(e)'
                    /\ \A u \in Threads : pc'[u] \in Reading =>
                         \A e \in (Contents[curr_directory'[u]] \ todo'[u]) \cap Dirs : Found(e)'
  BY DEF LostInv
<1>1. \A d \in scanned' : \A e \in Contents[d] \cap Dirs : Found(e)'
  BY DEF LostInv
<1>2. ASSUME NEW u \in Threads \ {t}, pc'[u] \in Reading
      PROVE  \A e \in (Contents[curr_directory'[u]] \ todo'[u]) \cap Dirs : Found(e)'
  BY <1>2 DEF LostInv, Others
<1> QED
  BY <1>1, <1>2

\* What a scan does with an entry leaves it known, unless opendir fails on it.
LEMMA ScanKeepsKnown ==
  ASSUME IInv, NEW t \in Threads, Scan(t), ~run_ended, NEW e \in Known
  PROVE  e \in Known' \/ (OpendirFails(t) /\ e = curr_directory[t])
<1>1. Types /\ Others(t)
  BY ScansAreLocal DEF IInv
<1>2. e \in Queued => e \in Queued' \/ e \in Held(t)'
  <2>1. CASE DequeueDirectory(t)
    <3>1. /\ directories_queue \in Seq(Entries) /\ directories_queue # <<>>
          /\ directories_queue' = Tail(directories_queue)
          /\ curr_directory'[t] = Head(directories_queue)
      BY <1>1, <2>1 DEF DequeueDirectory, Types, deQueue
    <3>2. /\ Len(directories_queue') = Len(directories_queue) - 1
          /\ \A i \in 1 .. Len(directories_queue') :
               directories_queue'[i] = directories_queue[i + 1]
          /\ directories_queue' \in Seq(Entries)
      BY <3>1, HeadTailProperties
    <3>3. /\ DOMAIN directories_queue = 1 .. Len(directories_queue)
          /\ DOMAIN directories_queue' = 1 .. Len(directories_queue')
          /\ Len(directories_queue) \in Nat
      BY <3>1, <3>2, LenProperties
    <3>4. ASSUME NEW i \in DOMAIN directories_queue, directories_queue[i] = e
          PROVE  e \in Queued' \/ e = Head(directories_queue)
      <4>1. CASE i = 1
        BY <3>1, <3>4, <4>1
      <4>2. CASE i # 1
        <5>1. i - 1 \in DOMAIN directories_queue' /\ directories_queue'[i - 1] = e
          BY <3>2, <3>3, <3>4, <4>2
        <5> QED
          BY <5>1 DEF Queued
      <4> QED
        BY <4>1, <4>2
    <3> QED
      BY <1>1, <3>1, <3>4 DEF Queued, Held
  <2>2. CASE EnqueueDirectory(t)
    <3>1. /\ directories_queue \in Seq(Entries) /\ item[t] \in Entries
          /\ directories_queue' = Append(directories_queue, item[t])
      BY <1>1, <2>2 DEF EnqueueDirectory, Types, enQueue, IInv, HoldsItsDirectory
    <3>2. /\ Len(directories_queue') = Len(directories_queue) + 1
          /\ \A i \in 1 .. Len(directories_queue) :
               directories_queue'[i] = directories_queue[i]
          /\ directories_queue' \in Seq(Entries)
      BY <3>1, AppendProperties
    <3>3. \A i \in DOMAIN directories_queue :
            i \in DOMAIN directories_queue' /\ directories_queue'[i] = directories_queue[i]
      BY <3>1, <3>2, LenProperties
    <3> QED
      BY <3>3 DEF Queued
  <2>3. CASE UNCHANGED directories_queue
    BY <2>3 DEF Queued
  <2> QED
    BY <2>1, <2>2, <2>3
       DEF Scan, Opendir, OpendirFails, ReadEntry, CountFile, FinishScan, queueVars
<1>3. e \in scanned => e \in scanned'
  BY DEF Scan, DequeueDirectory, Opendir, OpendirFails, ReadEntry, EnqueueDirectory,
         CountFile, FinishScan, scanVars
<1>4. e \in Held(t) => e \in Held(t)' \/ e \in Queued' \/ e \in scanned'
                      \/ (OpendirFails(t) /\ e = curr_directory[t])
  <2>1. CASE DequeueDirectory(t)
    BY <1>1, <2>1, PfindAssumption DEF DequeueDirectory, IInv, HoldsItsDirectory, Held, Scanning, Entries
  <2>2. CASE Opendir(t)
    BY <2>2 DEF Opendir, Held
  <2>3. CASE OpendirFails(t)
    BY <2>3 DEF OpendirFails, Held
  <2>4. CASE ReadEntry(t)
    BY <2>4 DEF ReadEntry, Held
  <2>5. CASE EnqueueDirectory(t)
    <3>1. directories_queue' = Append(directories_queue, item[t]) /\ item[t] \in Entries
      BY <1>1, <2>5 DEF EnqueueDirectory, Types, enQueue, IInv, HoldsItsDirectory
    <3>2. /\ directories_queue' \in Seq(Entries) /\ Len(directories_queue) \in Nat
          /\ Len(directories_queue') = Len(directories_queue) + 1
          /\ directories_queue'[Len(directories_queue) + 1] = item[t]
      BY <1>1, <3>1, AppendProperties, LenProperties DEF Types
    <3>3. Len(directories_queue) + 1 \in DOMAIN directories_queue'
      BY <3>2, LenProperties
    <3>4. item[t] \in Queued'
      BY <3>2, <3>3 DEF Queued
    <3> QED
      BY <2>5, <3>4 DEF EnqueueDirectory, Held
  <2>6. CASE CountFile(t)
    BY <2>6 DEF CountFile, Held
  <2>7. CASE FinishScan(t)
    BY <2>7 DEF FinishScan, Held
  <2> QED
    BY <2>1, <2>2, <2>3, <2>4, <2>5, <2>6, <2>7 DEF Scan
<1>5. \A u \in Threads \ {t} : e \in Held(u) => e \in Held(u)'
  BY <1>1 DEF Others
<1>6. /\ \A u \in Threads : Held(u)' \subseteq InHand'
      /\ e \in InHand => \E u \in Threads : e \in Held(u)
  BY DEF Held, InHand
<1> QED
  BY <1>2, <1>3, <1>4, <1>5, <1>6 DEF Known

\* A directory stays found in the same way.
LEMMA ScanKeepsFound ==
  ASSUME IInv, NEW t \in Threads, Scan(t), ~run_ended, NEW e \in Dirs, Found(e)
  PROVE  Found(e)'
BY ScanKeepsKnown DEF Found, OpendirFails

\* Lines 340-437: what a scan reads is found before the scan has finished.
LEMMA ScanKeepsLost ==
  ASSUME IInv, LostInv, NEW t \in Threads, Scan(t)
  PROVE  LostInv'
<1>1. Types /\ Others(t) /\ UNCHANGED run_ended
  BY ScansAreLocal DEF IInv
<1>2. ~run_ended => \A e \in Dirs : Found(e) => Found(e)'
  BY ScanKeepsFound
<1>3. ~run_ended =>
        \A d \in scanned' \ scanned : \A e \in Contents[d] \cap Dirs : Found(e)'
  <2> SUFFICES ASSUME ~run_ended, NEW d \in scanned' \ scanned,
                      NEW e \in Contents[d] \cap Dirs
               PROVE  Found(e)
    BY <1>2
  <2>1. FinishScan(t)
    BY DEF Scan, DequeueDirectory, Opendir, OpendirFails, ReadEntry, EnqueueDirectory,
           CountFile, scanVars
  <2>2. d = curr_directory[t] /\ todo[t] = {} /\ pc[t] = "readdir"
    BY <2>1 DEF FinishScan
  <2> QED
    BY <2>2 DEF LostInv, Reading
<1>4. ASSUME ~run_ended, pc'[t] \in Reading,
             NEW e \in (Contents[curr_directory'[t]] \ todo'[t]) \cap Dirs
      PROVE  Found(e)'
  <2>1. CASE DequeueDirectory(t) \/ OpendirFails(t) \/ FinishScan(t)
    BY <1>1, <1>4, <2>1
       DEF DequeueDirectory, OpendirFails, FinishScan, AfterScan, Goto, Types, Reading
  <2>2. CASE Opendir(t)
    BY <1>1, <1>4, <2>2 DEF Opendir, Types
  <2>3. CASE EnqueueDirectory(t) \/ CountFile(t)
    <3>1. /\ pc[t] \in Reading
          /\ curr_directory'[t] = curr_directory[t] /\ todo'[t] = todo[t]
      BY <2>3 DEF EnqueueDirectory, CountFile, Reading
    <3> QED
      BY <1>2, <1>4, <3>1 DEF LostInv
  <2>4. CASE ReadEntry(t)
    <3>1. pc[t] \in Reading /\ curr_directory'[t] = curr_directory[t]
      BY <2>4 DEF ReadEntry, Reading
    <3>2. PICK x \in todo[t], isDirectory \in BOOLEAN :
            /\ x \notin Unstatable => isDirectory = (x \in Dirs)
            /\ todo' = [todo EXCEPT ![t] = @ \ {x}]
            /\ isDirectory => item' = [item EXCEPT ![t] = x] /\ pc' = [pc EXCEPT ![t] = "enqueue"]
      BY <2>4 DEF ReadEntry, Goto
    <3>3. CASE e \in todo[t]
      <4>1. e = x
        BY <1>1, <1>4, <3>2, <3>3 DEF Types
      <4>2. CASE e \in Unstatable
        BY <4>2 DEF Found
      <4>3. CASE e \notin Unstatable
        <5>1. item' = [item EXCEPT ![t] = e] /\ pc' = [pc EXCEPT ![t] = "enqueue"]
          BY <1>4, <3>2, <4>1, <4>3
        <5>2. item'[t] = e /\ pc'[t] = "enqueue" /\ e \in Entries
          BY <1>1, <1>4, <5>1 DEF Types, Entries
        <5>3. e \in InHand'
          BY <5>2 DEF InHand
        <5> QED
          BY <5>3 DEF Found, Known
      <4> QED
        BY <4>2, <4>3
    <3>4. CASE e \notin todo[t]
      BY <1>2, <1>4, <3>1, <3>4 DEF LostInv
    <3> QED
      BY <3>3, <3>4
  <2> QED
    BY <2>1, <2>2, <2>3, <2>4 DEF Scan
<1>5. ~run_ended /\ pc'[t] \in Reading =>
        \A e \in (Contents[curr_directory'[t]] \ todo'[t]) \cap Dirs : Found(e)'
  BY <1>4
<1> QED
  BY <1>1, <1>2, <1>3, <1>5, LostAfter

\* Every step keeps what was found in the FIFO, in hand or scanned.
LEMMA LostInvStep == IInv /\ OnceInv /\ LostInv /\ [Next]_vars => LostInv'
<1> SUFFICES ASSUME IInv, OnceInv, LostInv, [Next]_vars PROVE LostInv'
  OBVIOUS
<1>1. Types
  BY DEF IInv
<1>2. CASE Elsewhere
  BY <1>1, <1>2, ElsewhereKeepsLost
<1>3. CASE EnqueueRoot
  <2>1. scanned' = {} /\ UNCHANGED <<pc, curr_directory, todo, run_ended>> /\ mpc = "run"
    BY <1>3 DEF EnqueueRoot, OnceInv, ReadsItsDirectory, scanVars, endVars
  <2>2. \A t \in Threads : pc[t] = "unborn"
    BY <2>1 DEF IInv, NoneBornYet
  <2> QED
    BY <2>1, <2>2 DEF LostInv, Reading
<1>4. ASSUME NEW t \in Threads, Scan(t)
      PROVE  LostInv'
  BY <1>4, ScanKeepsLost
<1> QED
  BY <1>1, <1>2, <1>3, <1>4, StepsElsewhere

\* Lines 357-432: until main ends the run no directory gets lost: what a finished scan
\* has found is in the FIFO, in the hands of a worker, or done with.
THEOREM NoDirectoryLost == Spec => []NothingLost
<1>1. Init => LostInv
  BY DEF Init, LostInv, Reading
<1>2. LostInv => NothingLost
  BY DEF LostInv, NothingLost, Found, Known
<1> QED
  BY <1>1, <1>2, Invariance, OnceInvInit, OnceInvStep, LostInvStep, PTL DEF Spec

-----------------------------------------------------------------------------

\* A scan has failed, or is bound to fail.
Failed ==
  \E t \in Threads : pc[t] \in Failing \/ (pc[t] \in Reading /\ res[t])

\* What a worker is about to append or to count is what readdir has just returned.
ItemRead ==
  \A t \in Threads :
    /\ pc[t] \notin {"enqueue", "count"} => item[t] = None
    /\ pc[t] \in {"enqueue", "count"} =>
         /\ item[t] \in Contents[curr_directory[t]] \ todo[t]
         /\ item[t] \in Unstatable => res[t]
    /\ pc[t] = "enqueue" => item[t] \in Dirs \cup Unstatable
    /\ pc[t] = "count" => item[t] \in Matching /\ item[t] \in Files \cup Unstatable

\* The entries of H that are counted, and those that may be.
Sure(H) == (H \cap Files \cap Matching) \ Unstatable
Possible(H) == Sure(H) \cup (H \cap Matching \cap Unstatable)
Counted(H, n) == Cardinality(Sure(H)) <= n /\ n <= Cardinality(Possible(H))

CountInv == ~run_ended => Counted(Handled, counter)

\* As long as no scan fails, all that has been read is known and had a type.
AllIsKnown ==
  /\ mpc # "run" => Root \in Known
  /\ \A d \in scanned : Contents[d] \cap Dirs \subseteq Known
  /\ \A t \in Threads : pc[t] \in Reading =>
       (Contents[curr_directory[t]] \ todo[t]) \cap Dirs \subseteq Known
  /\ Handled \cap Unstatable = {}

CleanInv == ~run_ended => Failed \/ AllIsKnown

\* No worker can find anything any more.
Drained ==
  directories_queue = <<>> /\ \A t \in Threads : pc[t] \notin Scanning \cup {"error"}

\* The whole tree is scanned, and n is the number of its matching files.
Complete(n) ==
  /\ Root \in scanned
  /\ \A d \in scanned : Contents[d] \cap Dirs \subseteq scanned
  /\ n = Cardinality({f \in Files \cap Matching : \E d \in scanned : f \in Contents[d]})

\* Once main has left its loop and nobody has failed, nothing moves any more.
EndInv ==
  /\ m_errored # 0 \/ m_finished => thread_errors_cntr # 0
  /\ run_ended => mpc \in {"print", "exit"}
  /\ mpc \in {"ended", "print", "exit"} /\ thread_errors_cntr = 0 =>
       Drained /\ Complete(counter)
  /\ reported # -1 => mpc = "exit" /\ reported = counter

-----------------------------------------------------------------------------
(* What a scan has dealt with. *)

\* The entries a scan under way has dealt with, and those of the finished scans.
HandledBy(t) ==
  {e \in Entries : /\ pc[t] \in Reading
                   /\ e \in Contents[curr_directory[t]] \ todo[t] /\ item[t] # e}
HandledBefore == {e \in Entries : \E d \in scanned : e \in Contents[d]}

LEMMA HandledParts ==
  \A e \in Entries :
    e \in Handled <=> e \in HandledBefore \/ \E t \in Threads : e \in HandledBy(t)
BY DEF Handled, HandledBefore, HandledBy, Reading, Scanning

\* A worker's step changes what is handled by what it changes for that worker.
LEMMA HandledAfter ==
  ASSUME NEW t \in Threads, Others(t), NEW X \in SUBSET Entries,
         HandledBefore' \cup HandledBy(t)' = HandledBefore \cup HandledBy(t) \cup X
  PROVE  Handled' = Handled \cup X
<1>1. \A u \in Threads \ {t} : HandledBy(u)' = HandledBy(u)
  BY DEF Others, HandledBy
<1>2. \A e \in Entries :
        e \in Handled' <=> e \in HandledBefore' \/ \E u \in Threads : e \in HandledBy(u)'
  BY DEF Handled, HandledBefore, HandledBy, Reading, Scanning
<1>3. Handled \subseteq Entries /\ Handled' \subseteq Entries
  BY DEF Handled
<1> QED
  BY <1>1, <1>2, <1>3, HandledParts

\* An entry one scan has yet to deal with is dealt with by no other.
LEMMA NewToEverybody ==
  ASSUME IInv, OnceInv, NEW t \in Threads, pc[t] \in Reading,
         NEW e \in Contents[curr_directory[t]], e \in todo[t] \/ e = item[t]
  PROVE  e \in Entries /\ e \notin Handled
<1> DEFINE c == curr_directory[t]
<1>1. OnePlace /\ Types
  BY DEF OnceInv, IInv
<1>2. c \in Dirs /\ c \in Held(t) /\ e \in Entries
  BY PfindAssumption DEF IInv, HoldsItsDirectory, Reading, Scanning, Held, Entries
<1>3. \A d \in Dirs : e \in Contents[d] => d = c
  BY <1>2, PfindAssumption
<1>4. c \notin scanned
  BY <1>1, <1>2, KnownPlaces DEF OnePlace
<1>5. e \notin HandledBefore
  BY <1>1, <1>3, <1>4 DEF HandledBefore, Types
<1>6. ASSUME NEW u \in Threads, e \in HandledBy(u)
      PROVE  FALSE
  <2>1. curr_directory[u] \in Dirs /\ e \in Contents[curr_directory[u]] /\ item[u] # e
    BY <1>6 DEF HandledBy, IInv, HoldsItsDirectory, Reading, Scanning
  <2>2. curr_directory[u] = c /\ u # t
    BY <1>3, <1>6, <2>1 DEF HandledBy
  <2>3. c \in Held(u)
    BY <1>2, <2>2 DEF Held
  <2> QED
    BY <1>1, <1>2, <2>2, <2>3 DEF OnePlace
<1> QED
  BY <1>2, <1>5, <1>6, HandledParts

-----------------------------------------------------------------------------
(* Steps of the scans. *)

\* Lines 340-437: the locals of a scan are about the entry readdir has returned.
LEMMA ItemReadStep == IInv /\ OnceInv /\ ItemRead /\ [Next]_vars => ItemRead'
<1> SUFFICES ASSUME IInv, OnceInv, ItemRead, [Next]_vars PROVE ItemRead'
  OBVIOUS
<1>1. Types /\ ReadsItsDirectory
  BY DEF IInv, OnceInv
<1>2. CASE Elsewhere
  BY <1>2 DEF ItemRead, Elsewhere, scanVars
<1>3. CASE EnqueueRoot
  BY <1>3 DEF ItemRead, EnqueueRoot, scanVars
<1>4. ASSUME NEW t \in Threads, Scan(t)
      PROVE  ItemRead'
  <2>1. Others(t)
    BY <1>1, <1>4, ScansAreLocal
  <2>2. /\ pc'[t] \notin {"enqueue", "count"} => item'[t] = None
        /\ pc'[t] \in {"enqueue", "count"} =>
             /\ item'[t] \in Contents[curr_directory'[t]] \ todo'[t]
             /\ item'[t] \in Unstatable => res'[t]
        /\ pc'[t] = "enqueue" => item'[t] \in Dirs \cup Unstatable
        /\ pc'[t] = "count" => item'[t] \in Matching /\ item'[t] \in Files \cup Unstatable
    <3>1. CASE DequeueDirectory(t) \/ Opendir(t) \/ OpendirFails(t) \/ FinishScan(t)
      BY <1>1, <3>1 DEF DequeueDirectory, Opendir, OpendirFails, FinishScan, AfterScan,
                        Goto, ItemRead, Types
    <3>2. CASE EnqueueDirectory(t) \/ CountFile(t)
      BY <1>1, <3>2 DEF EnqueueDirectory, CountFile, Goto, Types
    <3>3. CASE ReadEntry(t)
      <4>1. PICK x \in todo[t], isDirectory \in BOOLEAN :
              /\ x \notin Unstatable => isDirectory = (x \in Dirs)
              /\ todo' = [todo EXCEPT ![t] = @ \ {x}]
              /\ res' = [res EXCEPT ![t] = @ \/ x \in Unstatable]
              /\ \/ /\ isDirectory
                    /\ item' = [item EXCEPT ![t] = x] /\ pc' = [pc EXCEPT ![t] = "enqueue"]
                 \/ /\ ~isDirectory /\ NameMatches(x)
                    /\ item' = [item EXCEPT ![t] = x] /\ pc' = [pc EXCEPT ![t] = "count"]
                 \/ UNCHANGED <<item, pc>>
        BY <3>3 DEF ReadEntry, Goto
      <4>2. pc[t] = "readdir" /\ curr_directory' = curr_directory
        BY <3>3 DEF ReadEntry
      <4>3. /\ todo'[t] = todo[t] \ {x} /\ (x \in Unstatable => res'[t])
            /\ x \in Contents[curr_directory[t]] /\ x \in Entries
        BY <1>1, <4>1, <4>2 DEF Types, ReadsItsDirectory, Reading
      <4>4. \/ isDirectory /\ item'[t] = x /\ pc'[t] = "enqueue"
            \/ ~isDirectory /\ x \in Matching /\ item'[t] = x /\ pc'[t] = "count"
            \/ item'[t] = None /\ pc'[t] = "readdir"
        BY <1>1, <4>1, <4>2 DEF Types, NameMatches, ItemRead
      <4> QED
        BY <4>1, <4>2, <4>3, <4>4 DEF Entries
    <3> QED
      BY <1>4, <3>1, <3>2, <3>3 DEF Scan
  <2> QED
    BY <2>1, <2>2 DEF ItemRead, Others
<1> QED
  BY <1>1, <1>2, <1>3, <1>4, StepsElsewhere

\* Lines 340-437: a scan deals with one entry at a time, and counts it when it is taken
\* for a matching file.
LEMMA HandledStep ==
  ASSUME IInv, OnceInv, ItemRead, NEW t \in Threads, Scan(t), ~run_ended
  PROVE  \/ Handled' = Handled /\ counter' = counter /\ (scanned' = scanned \/ FinishScan(t))
         \/ \E x \in Contents[curr_directory[t]] \ Handled :
              /\ pc[t] \in Reading /\ scanned' = scanned
              /\ Handled' = Handled \cup {x} /\ (x \in Unstatable => Failed')
              /\ \/ counter' = counter /\ x \notin (Files \cap Matching) \ Unstatable
                 \/ /\ counter' = counter + 1
                    /\ x \in Matching /\ x \in Files \cup Unstatable
<1> DEFINE c == curr_directory[t]
<1>1. Types /\ ReadsItsDirectory /\ Others(t) /\ {} \in SUBSET Entries
  BY ScansAreLocal DEF IInv, OnceInv
<1>2. pc[t] \notin {"enqueue", "count"} => item[t] = None /\ item[t] \notin Entries
  BY PfindAssumption DEF ItemRead
<1>3. CASE DequeueDirectory(t) \/ Opendir(t) \/ OpendirFails(t)
  <2>1. HandledBefore' = HandledBefore /\ counter' = counter /\ scanned' = scanned
    BY <1>3 DEF DequeueDirectory, Opendir, OpendirFails, HandledBefore
  <2>2. HandledBy(t) = {}
    BY <1>3 DEF DequeueDirectory, Opendir, OpendirFails, HandledBy, Reading
  <2>3. HandledBy(t)' = {}
    BY <1>1, <1>3 DEF DequeueDirectory, Opendir, OpendirFails, HandledBy, Reading, Goto, Types
  <2>4. Handled' = Handled \cup {}
    BY <1>1, <2>1, <2>2, <2>3, HandledAfter
  <2> QED
    BY <2>1, <2>4
<1>4. CASE FinishScan(t)
  <2>1. /\ pc[t] = "readdir" /\ todo[t] = {} /\ scanned' = scanned \cup {c}
        /\ pc'[t] \in {"error", "loop"} /\ counter' = counter
    BY <1>1, <1>4 DEF FinishScan, AfterScan, Goto, Types
  <2>2. HandledBy(t)' = {}
    BY <2>1 DEF HandledBy, Reading
  <2>3. HandledBefore' = HandledBefore \cup HandledBy(t)
    BY <1>2, <2>1 DEF HandledBefore, HandledBy, Reading
  <2>4. Handled' = Handled \cup {}
    BY <1>1, <2>2, <2>3, HandledAfter
  <2> QED
    BY <1>4, <2>1, <2>4
<1>5. CASE ReadEntry(t)
  <2>1. PICK x \in todo[t], isDirectory \in BOOLEAN :
          /\ x \notin Unstatable => isDirectory = (x \in Dirs)
          /\ todo' = [todo EXCEPT ![t] = @ \ {x}]
          /\ res' = [res EXCEPT ![t] = @ \/ x \in Unstatable]
          /\ \/ item' = [item EXCEPT ![t] = x] /\ pc' = [pc EXCEPT ![t] = "enqueue"]
             \/ item' = [item EXCEPT ![t] = x] /\ pc' = [pc EXCEPT ![t] = "count"]
             \/ ~isDirectory /\ ~NameMatches(x) /\ UNCHANGED <<item, pc>>
    BY <1>5 DEF ReadEntry, Goto
  <2>2. pc[t] = "readdir" /\ UNCHANGED <<curr_directory, scanned, counter>>
    BY <1>5 DEF ReadEntry
  <2>3. /\ todo'[t] = todo[t] \ {x} /\ (x \in Unstatable => res'[t])
        /\ x \in Contents[c] /\ x \in Entries /\ {x} \in SUBSET Entries
    BY <1>1, <2>1, <2>2 DEF Types, ReadsItsDirectory, Reading
  <2>4. HandledBefore' = HandledBefore
    BY <2>2 DEF HandledBefore
  <2>5. CASE item'[t] = x /\ pc'[t] \in {"enqueue", "count"}
    <3>1. HandledBy(t)' = HandledBy(t)
      BY <1>2, <2>1, <2>2, <2>3, <2>5 DEF HandledBy, Reading
    <3>2. Handled' = Handled \cup {}
      BY <1>1, <2>4, <3>1, HandledAfter
    <3> QED
      BY <2>2, <3>2
  <2>6. CASE x \notin Matching /\ item'[t] = item[t] /\ pc'[t] = pc[t]
    <3>1. HandledBy(t)' = HandledBy(t) \cup {x}
      BY <1>2, <2>1, <2>2, <2>3, <2>6 DEF HandledBy, Reading
    <3>2. HandledBefore' \cup HandledBy(t)' = HandledBefore \cup HandledBy(t) \cup {x}
      BY <2>4, <3>1
    <3>3. Handled' = Handled \cup {x}
      BY <1>1, <2>3, <3>2, HandledAfter
    <3>4. x \in Unstatable => Failed'
      BY <2>2, <2>3, <2>6 DEF Failed, Reading
    <3>5. x \notin Handled /\ pc[t] \in Reading
      BY <2>1, <2>2, <2>3, NewToEverybody DEF Reading
    <3> QED
      BY <2>2, <2>3, <2>6, <3>3, <3>4, <3>5
  <2> QED
    BY <1>1, <2>1, <2>5, <2>6 DEF Types, NameMatches
<1>6. CASE EnqueueDirectory(t) \/ CountFile(t)
  <2> DEFINE x == item[t]
  <2>1. /\ pc[t] \in {"enqueue", "count"} /\ pc'[t] \in {"broadcast", "readdir"}
        /\ item'[t] = None /\ item'[t] \notin Entries
        /\ UNCHANGED <<curr_directory, scanned, todo, res>>
    BY <1>1, <1>6, PfindAssumption DEF EnqueueDirectory, CountFile, Goto, Types
  <2>2. pc[t] \in Reading /\ x \in Entries /\ x \notin Handled /\ x \in Contents[c] \ todo[t]
    BY <2>1, NewToEverybody DEF ItemRead, Reading
  <2>3. HandledBy(t)' = HandledBy(t) \cup {x} /\ HandledBefore' = HandledBefore
    BY <2>1, <2>2 DEF HandledBy, HandledBefore, Reading
  <2>4. Handled' = Handled \cup {x}
    <3>1. HandledBefore' \cup HandledBy(t)' = HandledBefore \cup HandledBy(t) \cup {x}
      BY <2>3
    <3>2. {x} \in SUBSET Entries
      BY <2>2
    <3> QED
      BY <1>1, <3>1, <3>2, HandledAfter
  <2>5. x \in Unstatable => Failed'
    BY <2>1 DEF ItemRead, Failed, Reading
  <2>6. CASE EnqueueDirectory(t)
    <3>1. counter' = counter /\ x \in Dirs \cup Unstatable
      BY <2>6 DEF EnqueueDirectory, ItemRead
    <3> QED
      BY <2>1, <2>2, <2>4, <2>5, <3>1, PfindAssumption
  <2>7. CASE CountFile(t)
    <3>1. counter' = counter + 1 /\ x \in Matching /\ x \in Files \cup Unstatable
      BY <2>7 DEF CountFile, ItemRead
    <3> QED
      BY <2>1, <2>2, <2>4, <2>5, <3>1
  <2> QED
    BY <1>6, <2>6, <2>7
<1> QED
  BY <1>3, <1>4, <1>5, <1>6 DEF Scan

-----------------------------------------------------------------------------
(* The counter. *)

\* What one more entry does to the two counts.
LEMMA CountedGrows ==
  ASSUME NEW H, IsFiniteSet(H), NEW x, NEW n \in Nat, Counted(H, n)
  PROVE  /\ x \notin (Files \cap Matching) \ Unstatable => Counted(H \cup {x}, n)
         /\ x \notin H /\ x \in Matching /\ x \in Files \cup Unstatable
              => Counted(H \cup {x}, n + 1)
<1> DEFINE s == Sure(H)
           q == Possible(H)
           G == H \cup {x}
<1>1. IsFiniteSet(s) /\ IsFiniteSet(q)
  BY FS_Subset DEF Sure, Possible
<1>2. Cardinality(s) \in Nat /\ Cardinality(q) \in Nat
  BY <1>1, FS_CardinalityType
<1>3. /\ Cardinality(s \cup {x}) = IF x \in s THEN Cardinality(s) ELSE Cardinality(s) + 1
      /\ Cardinality(q \cup {x}) = IF x \in q THEN Cardinality(q) ELSE Cardinality(q) + 1
  BY <1>1, FS_AddElement
<1>4. Sure(G) = s \/ (Sure(G) = s \cup {x} /\ x \in (Files \cap Matching) \ Unstatable)
  BY DEF Sure
<1>5. Possible(G) = q \/ Possible(G) = q \cup {x}
  BY DEF Sure, Possible
<1>6. x \in Matching /\ x \in Files \cup Unstatable => Possible(G) = q \cup {x}
  BY DEF Sure, Possible
<1>7. x \notin H => x \notin q
  BY DEF Sure, Possible
<1>8. Cardinality(s) <= n /\ n <= Cardinality(q)
  BY DEF Counted
<1> HIDE DEF s, q, G
<1>9. x \notin (Files \cap Matching) \ Unstatable => Counted(G, n)
  BY <1>2, <1>3, <1>4, <1>5, <1>8 DEF Counted
<1>10. x \notin H /\ x \in Matching /\ x \in Files \cup Unstatable => Counted(G, n + 1)
  <2> SUFFICES ASSUME x \notin H, x \in Matching, x \in Files \cup Unstatable
               PROVE  Counted(G, n + 1)
    OBVIOUS
  <2>1. Cardinality(Possible(G)) = Cardinality(q) + 1
    BY <1>3, <1>6, <1>7
  <2>2. Cardinality(Sure(G)) \in {Cardinality(s), Cardinality(s) + 1}
    BY <1>3, <1>4
  <2> QED
    BY <1>2, <1>8, <2>1, <2>2 DEF Counted
<1> QED
  BY <1>9, <1>10 DEF G

\* Steps elsewhere deal with no entry.
LEMMA ElsewhereKeepsHandled ==
  ASSUME Elsewhere \/ EnqueueRoot
  PROVE  Handled' = Handled /\ counter' = counter
<1>1. /\ UNCHANGED <<curr_directory, todo, item, scanned, counter>>
      /\ \A t \in Threads : pc'[t] \in Reading <=> pc[t] \in Reading
  BY DEF Elsewhere, EnqueueRoot, scanVars
<1>2. \A t \in Threads : HandledBy(t)' = HandledBy(t)
  BY <1>1 DEF HandledBy
<1>3. HandledBefore' = HandledBefore
  BY <1>1 DEF HandledBefore
<1>4. \A e \in Entries :
        e \in Handled' <=> e \in HandledBefore' \/ \E u \in Threads : e \in HandledBy(u)'
  BY DEF Handled, HandledBefore, HandledBy, Reading, Scanning
<1>5. Handled \subseteq Entries /\ Handled' \subseteq Entries
  BY DEF Handled
<1> QED
  BY <1>1, <1>2, <1>3, <1>4, <1>5, HandledParts

\* The entries dealt with are finitely many.
LEMMA HandledFinite == IsFiniteSet(Handled)
<1>1. IsFiniteSet(Entries)
  BY PfindAssumption, FS_Union DEF Entries
<1> QED
  BY <1>1, FS_Subset DEF Handled

LEMMA CountInvStep == IInv /\ OnceInv /\ ItemRead /\ CountInv /\ [Next]_vars => CountInv'
<1> SUFFICES ASSUME IInv, OnceInv, ItemRead, CountInv, [Next]_vars, ~run_ended'
             PROVE  Counted(Handled', counter')
  BY DEF CountInv, Counted, Sure, Possible
<1>1. Types /\ counter \in Nat
  BY DEF IInv, Types
<1>2. CASE Elsewhere \/ EnqueueRoot
  BY <1>2, ElsewhereKeepsHandled DEF CountInv, Elsewhere, EnqueueRoot, endVars
<1>3. ASSUME NEW t \in Threads, Scan(t)
      PROVE  Counted(Handled', counter')
  <2>1. ~run_ended /\ Counted(Handled, counter)
    BY <1>1, <1>3, ScansAreLocal DEF CountInv
  <2>2. CASE Handled' = Handled /\ counter' = counter
    BY <2>1, <2>2
  <2>3. CASE \E x : /\ Handled' = Handled \cup {x} /\ x \notin Handled
                    /\ \/ counter' = counter /\ x \notin (Files \cap Matching) \ Unstatable
                       \/ /\ counter' = counter + 1
                          /\ x \in Matching /\ x \in Files \cup Unstatable
    BY <1>1, <2>1, <2>3, HandledFinite, CountedGrows
  <2> QED
    BY <1>3, <2>1, <2>2, <2>3, HandledStep
<1> QED
  BY <1>1, <1>2, <1>3, StepsElsewhere

\* At the start nothing is dealt with.
LEMMA CountInit == Init => ItemRead /\ CountInv
<1> SUFFICES ASSUME Init PROVE ItemRead /\ CountInv
  OBVIOUS
<1>1. Handled = {} /\ counter = 0
  BY DEF Init, Handled, Scanning
<1>2. Sure(Handled) = {} /\ Possible(Handled) = {}
  BY <1>1 DEF Sure, Possible
<1>3. CountInv
  BY <1>1, <1>2, FS_EmptySet DEF CountInv, Counted
<1> QED
  BY <1>3 DEF Init, ItemRead

\* Lines 417-428: the counter is the number of matching files dealt with; only an entry
\* that lstat could not classify may or may not be counted.
THEOREM CountIsExact == Spec => []CounterExact
<1>1. IInv /\ CountInv => CounterExact
  <2> SUFFICES ASSUME IInv, CountInv, ~run_ended
               PROVE  counter \in Cardinality(Sure(Handled)) .. Cardinality(Possible(Handled))
    BY DEF CounterExact, Sure, Possible
  <2>1. IsFiniteSet(Sure(Handled)) /\ IsFiniteSet(Possible(Handled))
    BY HandledFinite, FS_Subset DEF Sure, Possible
  <2> QED
    BY <2>1, FS_CardinalityType DEF CountInv, Counted, IInv, Types
<1> QED
  BY <1>1, CountInit, Invariance, OnceInvInit, OnceInvStep, ItemReadStep, CountInvStep,
     PTL DEF Spec

-----------------------------------------------------------------------------
(* As long as no scan fails. *)

\* Lines 424-437 and 259-275: a failure is never forgotten.
LEMMA FailedStays == Types /\ Failed /\ [Next]_vars => Failed'
<1> SUFFICES ASSUME Types, Failed, [Next]_vars PROVE Failed'
  OBVIOUS
<1>1. PICK u \in Threads : pc[u] \in Failing \/ (pc[u] \in Reading /\ res[u])
  BY DEF Failed
<1>2. CASE Elsewhere
  BY <1>1, <1>2 DEF Failed, Elsewhere, scanVars
<1>3. CASE EnqueueRoot
  BY <1>1, <1>3 DEF Failed, EnqueueRoot, scanVars
<1>4. ASSUME NEW t \in Threads, Scan(t)
      PROVE  Failed'
  <2>1. CASE u # t
    BY <1>1, <1>4, <2>1, ScansAreLocal DEF Failed, Others
  <2>2. CASE u = t
    <3>1. CASE DequeueDirectory(t) \/ Opendir(t) \/ OpendirFails(t)
      BY <1>1, <2>2, <3>1 DEF DequeueDirectory, Opendir, OpendirFails, Failing, Reading
    <3>2. CASE ReadEntry(t)
      <4>1. /\ pc[t] = "readdir" /\ res[t]
            /\ \E x \in todo[t] : res' = [res EXCEPT ![t] = @ \/ x \in Unstatable]
            /\ pc' \in {pc, [pc EXCEPT ![t] = "enqueue"], [pc EXCEPT ![t] = "count"]}
        BY <1>1, <2>2, <3>2 DEF ReadEntry, Goto, Failing
      <4>2. res'[t] /\ pc'[t] \in Reading
        BY <4>1 DEF Types, Reading
      <4> QED
        BY <4>2 DEF Failed
    <3>3. CASE EnqueueDirectory(t) \/ CountFile(t)
      BY <1>1, <2>2, <3>3
         DEF EnqueueDirectory, CountFile, Goto, Types, Failing, Reading, Failed
    <3>4. CASE FinishScan(t)
      <4>1. pc[t] = "readdir" /\ res[t] /\ pc' = [pc EXCEPT ![t] = AfterScan(res[t])]
        BY <1>1, <2>2, <3>4 DEF FinishScan, Goto, Failing
      <4>2. pc'[t] = "error"
        BY <4>1 DEF AfterScan, Types
      <4> QED
        BY <4>2 DEF Failed, Failing
    <3> QED
      BY <1>4, <3>1, <3>2, <3>3, <3>4 DEF Scan
  <2> QED
    BY <2>1, <2>2
<1> QED
  BY <1>2, <1>3, <1>4, StepsElsewhere

\* Lines 340-437: what a scan reads it knows, or it fails.
LEMMA ScanKeepsAllKnown ==
  ASSUME IInv, OnceInv, ItemRead, AllIsKnown, ~run_ended, NEW t \in Threads, Scan(t)
  PROVE  Failed' \/ AllIsKnown'
<1> SUFFICES ASSUME ~Failed' PROVE AllIsKnown'
  OBVIOUS
<1>1. Types /\ ReadsItsDirectory /\ Others(t) /\ mpc' = mpc
  BY ScansAreLocal DEF IInv, OnceInv
<1>2. ~OpendirFails(t)
  BY <1>1 DEF OpendirFails, Goto, Types, Failed, Failing
<1>3. Known \subseteq Known'
  BY <1>2, ScanKeepsKnown
<1>4. mpc' # "run" => Root \in Known'
  BY <1>1, <1>3 DEF AllIsKnown
<1>5. \A d \in scanned' : Contents[d] \cap Dirs \subseteq Known'
  <2> SUFFICES ASSUME NEW d \in scanned' \ scanned
               PROVE  Contents[d] \cap Dirs \subseteq Known
    BY <1>3 DEF AllIsKnown
  <2>1. FinishScan(t)
    BY DEF Scan, DequeueDirectory, Opendir, OpendirFails, ReadEntry, EnqueueDirectory,
           CountFile, scanVars
  <2>2. d = curr_directory[t] /\ todo[t] = {} /\ pc[t] = "readdir"
    BY <2>1 DEF FinishScan
  <2> QED
    BY <2>2 DEF AllIsKnown, Reading
<1>6. ASSUME pc'[t] \in Reading
      PROVE  (Contents[curr_directory'[t]] \ todo'[t]) \cap Dirs \subseteq Known'
  <2>1. CASE DequeueDirectory(t) \/ FinishScan(t)
    BY <1>1, <1>6, <2>1 DEF DequeueDirectory, FinishScan, AfterScan, Goto, Types, Reading
  <2>2. CASE Opendir(t)
    BY <1>1, <2>2 DEF Opendir, Types
  <2>3. CASE EnqueueDirectory(t) \/ CountFile(t)
    <3>1. pc[t] \in Reading /\ curr_directory'[t] = curr_directory[t] /\ todo'[t] = todo[t]
      BY <2>3 DEF EnqueueDirectory, CountFile, Reading
    <3> QED
      BY <1>3, <3>1 DEF AllIsKnown
  <2>4. CASE ReadEntry(t)
    <3>1. PICK x \in todo[t], isDirectory \in BOOLEAN :
            /\ x \notin Unstatable => isDirectory = (x \in Dirs)
            /\ todo' = [todo EXCEPT ![t] = @ \ {x}]
            /\ res' = [res EXCEPT ![t] = @ \/ x \in Unstatable]
            /\ isDirectory => item' = [item EXCEPT ![t] = x] /\ pc' = [pc EXCEPT ![t] = "enqueue"]
      BY <2>4 DEF ReadEntry, Goto
    <3>2. pc[t] \in Reading /\ curr_directory'[t] = curr_directory[t]
      BY <2>4 DEF ReadEntry, Reading
    <3>3. todo'[t] = todo[t] \ {x} /\ (x \in Unstatable => res'[t])
      BY <1>1, <3>1 DEF Types
    <3>4. x \notin Unstatable
      BY <1>6, <3>3 DEF Failed
    <3>5. x \in Dirs => x \in Known'
      <4> SUFFICES ASSUME x \in Dirs PROVE x \in Known'
        OBVIOUS
      <4>1. item' = [item EXCEPT ![t] = x] /\ pc' = [pc EXCEPT ![t] = "enqueue"]
        BY <3>1, <3>4
      <4>2. item'[t] = x /\ pc'[t] = "enqueue" /\ x \in Entries
        BY <1>1, <4>1 DEF Types, Entries
      <4>3. x \in InHand'
        BY <4>2 DEF InHand
      <4> QED
        BY <4>3 DEF Known
    <3> QED
      BY <1>3, <3>2, <3>3, <3>5 DEF AllIsKnown
  <2> QED
    BY <1>2, <2>1, <2>2, <2>3, <2>4 DEF Scan
<1>7. \A u \in Threads : pc'[u] \in Reading =>
        (Contents[curr_directory'[u]] \ todo'[u]) \cap Dirs \subseteq Known'
  <2> SUFFICES ASSUME NEW u \in Threads \ {t}, pc'[u] \in Reading
               PROVE  (Contents[curr_directory'[u]] \ todo'[u]) \cap Dirs \subseteq Known'
    BY <1>6
  <2> QED
    BY <1>1, <1>3 DEF AllIsKnown, Others
<1>8. Handled' \cap Unstatable = {}
  BY HandledStep DEF AllIsKnown
<1> QED
  BY <1>4, <1>5, <1>7, <1>8 DEF AllIsKnown

LEMMA CleanInvStep ==
  IInv /\ OnceInv /\ ItemRead /\ CleanInv /\ [Next]_vars => CleanInv'
<1> SUFFICES ASSUME IInv, OnceInv, ItemRead, CleanInv, [Next]_vars, ~run_ended', ~Failed'
             PROVE  AllIsKnown'
  BY DEF CleanInv
<1>1. Types /\ ~Failed
  BY FailedStays DEF IInv
<1>2. ~run_ended => AllIsKnown
  BY <1>1 DEF CleanInv
<1>3. CASE Elsewhere
  <2>1. AllIsKnown
    BY <1>2, <1>3 DEF Elsewhere
  <2> QED
    BY <1>1, <1>3, <2>1, ElsewhereKeepsKnown, ElsewhereKeepsHandled
       DEF AllIsKnown, Elsewhere, scanVars
<1>4. CASE EnqueueRoot
  <2>1. /\ AllIsKnown /\ mpc = "run" /\ scanned' = {} /\ Handled' = Handled
        /\ UNCHANGED <<pc, scanned>> /\ directories_queue' = enQueue(<<>>, Root)
    BY <1>2, <1>4, ElsewhereKeepsHandled
       DEF EnqueueRoot, OnceInv, ReadsItsDirectory, scanVars, endVars
  <2>2. \A t \in Threads : pc'[t] \notin Reading
    BY <2>1 DEF IInv, NoneBornYet, Reading
  <2>3. Root \in Queued'
    BY <2>1 DEF Queued, enQueue
  <2> QED
    BY <2>1, <2>2, <2>3 DEF AllIsKnown, Known
<1>5. ASSUME NEW t \in Threads, Scan(t)
      PROVE  AllIsKnown'
  <2>1. AllIsKnown /\ ~run_ended
    BY <1>1, <1>2, <1>5, ScansAreLocal
  <2> QED
    BY <1>5, <2>1, ScanKeepsAllKnown
<1> QED
  BY <1>1, <1>3, <1>4, <1>5, StepsElsewhere

-----------------------------------------------------------------------------
(* The end of the run. *)

\* Lines 259-275: the number of failed workers never decreases.
LEMMA ErrorsStay == IInv /\ [Next]_vars /\ thread_errors_cntr # 0 => thread_errors_cntr' # 0
<1> SUFFICES ASSUME IInv, [Next]_vars PROVE thread_errors_cntr' \in
                      {thread_errors_cntr, thread_errors_cntr + 1}
  BY CountersBounded DEF IInv, CounterRanges
<1>1. ASSUME NEW t \in Threads, WorkerStep(t) \/ SpuriousWakeup(t)
      PROVE  thread_errors_cntr' \in {thread_errors_cntr, thread_errors_cntr + 1}
  BY <1>1 DEF WorkerStep, PassGate, LoopTest, AwaitSleepingThread, DequeueNothing,
     DequeueDirectory, Opendir, OpendirFails, ReadEntry, EnqueueDirectory,
     BroadcastQueueNotEmpty, CountFile, FinishScan, CountError, SignalAndDie,
     CountSleeper, Sleep, Wake, Unsleep, SpuriousWakeup, deathVars
<1>2. CASE Main \/ SpuriousMainWakeup \/ UNCHANGED vars
  BY <1>2 DEF Main, EnqueueRoot, OpenGate, CountMain, CreateThread, ReadErrors,
     ReadSleeping, ReadLiving, CheckSleeping, CheckErrors, AwaitNewSleepingThread,
     EndRun, PrintAndExit, SpuriousMainWakeup, deathVars, vars
<1> QED
  BY <1>1, <1>2 DEF Next, Worker

\* Lines 228-308: a worker moves main only by waking it.
LEMMA WorkersLeaveMain ==
  ASSUME NEW t \in Threads, WorkerStep(t) \/ SpuriousWakeup(t)
  PROVE  /\ UNCHANGED <<m_errored, m_finished, run_ended, reported>>
         /\ mpc' = mpc \/ (mpc = "waiting" /\ mpc' = "read_errors")
BY DEF WorkerStep, PassGate, LoopTest, AwaitSleepingThread, DequeueNothing,
     DequeueDirectory, Opendir, OpendirFails, ReadEntry, EnqueueDirectory,
     BroadcastQueueNotEmpty, CountFile, FinishScan, CountError, SignalAndDie,
     CountSleeper, BroadcastNewSleepingThread, Sleep, Wake, Unsleep, SpuriousWakeup,
     checkVars, endVars

\* Once nothing is left to find, nothing is found.
LEMMA DrainedStays ==
  ASSUME Types, Drained, mpc # "run", [Next]_vars
  PROVE  Drained' /\ UNCHANGED <<scanned, counter>>
<1>1. CASE Elsewhere
  BY <1>1 DEF Drained, Elsewhere, Scanning, Reading, scanVars
<1>2. ~EnqueueRoot
  BY DEF EnqueueRoot
<1>3. ASSUME NEW t \in Threads, Scan(t)
      PROVE  FALSE
  BY <1>3 DEF Scan, DequeueDirectory, Opendir, OpendirFails, ReadEntry, EnqueueDirectory,
              CountFile, FinishScan, Drained, Scanning
<1> QED
  BY <1>1, <1>2, <1>3, StepsElsewhere

\* Lines 183-199: when everybody sleeps and nobody has failed, the tree is done with.
LEMMA AsleepMeansComplete ==
  ASSUME IInv, CountInv, CleanInv, ~run_ended, mpc # "run", check_thread_sleeping
  PROVE  Drained /\ Complete(counter)
<1>1. \A t \in Threads :
        /\ pc[t] \notin Scanning \cup Failing \cup Reading /\ curr_directory[t] = None
  BY EverybodyNaps DEF IInv, HoldsItsDirectory, Napping, Scanning, Failing, Reading
<1>2. directories_queue = <<>>
  BY EverybodyNaps DEF IInv, QueueAttended
<1>3. AllIsKnown
  BY <1>1 DEF CleanInv, Failed
<1>4. Known = scanned
  <2>1. Queued = {}
    BY <1>2 DEF Queued
  <2>2. InHand = {}
    BY <1>1, PfindAssumption DEF InHand, Scanning
  <2> QED
    BY <2>1, <2>2 DEF Known
<1>5. Handled = HandledBefore
  <2>1. \A t \in Threads : HandledBy(t) = {}
    BY <1>1 DEF HandledBy
  <2> QED
    BY <2>1, HandledParts DEF Handled, HandledBefore
<1> DEFINE M == {f \in Files \cap Matching : \E d \in scanned : f \in Contents[d]}
<1>6. Sure(Handled) = M /\ Possible(Handled) = M
  BY <1>3, <1>5 DEF AllIsKnown, Sure, Possible, HandledBefore, Entries
<1>7. counter = Cardinality(M)
  <2>1. IsFiniteSet(M)
    BY <1>6, HandledFinite, FS_Subset DEF Sure
  <2>2. Cardinality(M) \in Nat /\ counter \in Nat
    BY <2>1, FS_CardinalityType DEF IInv, Types
  <2>3. Cardinality(M) <= counter /\ counter <= Cardinality(M)
    BY <1>6 DEF CountInv, Counted
  <2> HIDE DEF M
  <2> QED
    BY <2>2, <2>3
<1> QED
  BY <1>1, <1>2, <1>3, <1>4, <1>7 DEF Drained, Complete, AllIsKnown, Failing

\* Lines 474-501: when main leaves its loop and nobody has failed, it is because of the
\* sleepers; and then nothing moves until the number is printed.
LEMMA EndInvStep ==
  IInv /\ CountInv /\ CleanInv /\ EndInv /\ [Next]_vars => EndInv'
<1> SUFFICES ASSUME IInv, CountInv, CleanInv, EndInv, [Next]_vars PROVE EndInv'
  OBVIOUS
<1> DEFINE Over == mpc \in {"ended", "print", "exit"}
<1>1. Types /\ thread_errors_cntr \in Nat /\ threads_limit \in Nat \ {0}
  <2>1. threads_limit # 0
    BY PfindAssumption, FS_EmptySet DEF threads_limit
  <2> QED
    BY <2>1, CountersBounded, LimitIsNatural DEF IInv, CounterRanges
<1>2. thread_errors_cntr # 0 => thread_errors_cntr' # 0
  BY ErrorsStay
<1>3. Over /\ thread_errors_cntr' = 0 =>
        Drained' /\ Complete(counter)' /\ counter' = counter
  <2> SUFFICES ASSUME Over, thread_errors_cntr' = 0
               PROVE  Drained' /\ Complete(counter)' /\ counter' = counter
    OBVIOUS
  <2>1. Drained /\ Complete(counter) /\ mpc # "run"
    BY <1>2 DEF EndInv
  <2> QED
    BY <1>1, <2>1, DrainedStays DEF Complete
<1>4. ASSUME NEW t \in Threads, WorkerStep(t) \/ SpuriousWakeup(t), mpc # "exit"
      PROVE  EndInv'
  BY <1>2, <1>3, <1>4, WorkersLeaveMain DEF EndInv
<1>5. CASE ReadErrors \/ ReadSleeping \/ ReadLiving
  BY <1>1, <1>2, <1>5 DEF ReadErrors, ReadSleeping, ReadLiving, EndInv, endVars, deathVars, Types
<1>6. CASE CheckSleeping
  <2>1. /\ mpc = "check_sleeping" /\ mpc' = IF check_thread_sleeping THEN "ended" ELSE "check_errors"
        /\ UNCHANGED <<m_errored, m_finished, run_ended, reported, counter, scanned, pc,
                       directories_queue>>
    BY <1>6 DEF CheckSleeping, checkVars, endVars, queueVars, scanVars
  <2>2. ~run_ended
    BY <2>1 DEF EndInv
  <2>3. check_thread_sleeping => Drained' /\ Complete(counter)'
    BY <2>1, <2>2, AsleepMeansComplete DEF Drained, Complete
  <2> QED
    BY <1>2, <2>1, <2>2, <2>3 DEF EndInv
<1>7. CASE CheckErrors
  <2>1. /\ mpc = "check_errors" /\ thread_errors_cntr' = thread_errors_cntr
        /\ mpc' = IF check_thread_errors \/ m_finished THEN "ended" ELSE "wait"
        /\ UNCHANGED <<m_errored, m_finished, run_ended, reported>>
    BY <1>7 DEF CheckErrors, checkVars, deathVars
  <2>2. check_thread_errors \/ m_finished => thread_errors_cntr # 0
    BY <1>1 DEF check_thread_errors, EndInv
  <2> QED
    BY <2>1, <2>2 DEF EndInv
<1>8. CASE EnqueueRoot \/ OpenGate \/ CountMain \/ (\E t \in Threads : CreateThread(t))
           \/ AwaitNewSleepingThread \/ SpuriousMainWakeup
  BY <1>2, <1>8 DEF EnqueueRoot, OpenGate, CountMain, CreateThread, AwaitNewSleepingThread,
                    SpuriousMainWakeup, EndInv, checkVars, endVars
<1>9. CASE EndRun \/ PrintAndExit
  <2>1. /\ Over /\ (mpc' = "print" \/ mpc' = "exit") /\ mpc # "exit"
        /\ UNCHANGED <<m_errored, m_finished>>
        /\ reported' = reported \/ (reported' = counter /\ counter' = counter /\ mpc' = "exit")
    BY <1>9 DEF EndRun, PrintAndExit, checkVars
  <2>2. reported = -1
    BY <2>1 DEF EndInv
  <2> QED
    BY <1>2, <1>3, <2>1, <2>2 DEF EndInv
<1>10. CASE UNCHANGED vars
  BY <1>2, <1>3, <1>10 DEF EndInv, vars, checkVars, endVars
<1> QED
  BY <1>4, <1>5, <1>6, <1>7, <1>8, <1>9, <1>10 DEF Next, Worker, Main

\* Lines 474-495: a number printed while no worker has failed is the number of matching
\* files of the whole tree below the root.
THEOREM CleanReportIsComplete == Spec => []CleanReportComplete
<1>1. Init => ItemRead /\ CountInv /\ CleanInv /\ EndInv
  <2> SUFFICES ASSUME Init PROVE CleanInv /\ EndInv
    BY CountInit
  <2>1. Handled = {}
    BY DEF Init, Handled, Scanning
  <2> QED
    BY <2>1 DEF Init, CleanInv, AllIsKnown, EndInv, Reading
<1>2. EndInv => CleanReportComplete
  BY DEF EndInv, CleanReportComplete, Complete
<1> QED
  BY <1>1, <1>2, Invariance, OnceInvInit, OnceInvStep, ItemReadStep, CountInvStep,
     CleanInvStep, EndInvStep, PTL DEF Spec

-----------------------------------------------------------------------------
(* pfind without failures implements DirSearch. *)

\* Neither opendir nor lstat fails.
NoFailures == Unopenable = {} /\ Unstatable = {}

\* Then no scan fails, because only directories get into the FIFO.
Healthy ==
  /\ Queued \subseteq Dirs
  /\ \A t \in Threads : /\ pc[t] \notin Failing /\ ~res[t]
                        /\ curr_directory[t] \in Dirs \cup {None}
                        /\ pc[t] = "opendir" => curr_directory[t] \in Dirs

\* A directory that is queued, held or scanned was dealt with in another one, unless it
\* is the root.
FromHandled ==
  /\ Queued \cup scanned \subseteq {Root} \cup Handled
  /\ \A t \in Threads : curr_directory[t] \in {Root, None} \cup Handled

\* What the refinement rests on.
SearchInv ==
  /\ IInv /\ OnceInv /\ ItemRead /\ CountInv /\ CleanInv /\ EndInv
  /\ Healthy /\ FromHandled

\* When nobody has failed and main has left its loop, no scan takes a step any more.
LEMMA ScansBeforeTheEnd ==
  ASSUME IInv, EndInv, Healthy, NEW t \in Threads, Scan(t)
  PROVE  ~run_ended
<1>1. Dead = {}
  BY DEF Healthy, Dead, Failing
<1>2. thread_errors_cntr = 0
  BY <1>1, FS_EmptySet DEF IInv, CountersExact
<1> QED
  BY <1>2 DEF EndInv, Drained, Scanning, Scan, DequeueDirectory, Opendir, OpendirFails,
              ReadEntry, EnqueueDirectory, CountFile, FinishScan

\* The values of the FIFO after a step of a scan.
LEMMA QueuedAfter ==
  ASSUME IInv, NEW t \in Threads, Scan(t)
  PROVE  /\ Queued' \subseteq Queued \cup (IF pc[t] = "enqueue" THEN {item[t]} ELSE {})
         /\ DequeueDirectory(t) =>
              curr_directory' = [curr_directory EXCEPT ![t] = Head(directories_queue)]
                /\ Head(directories_queue) \in Queued
<1>1. Types
  BY DEF IInv
<1>2. CASE DequeueDirectory(t)
  <2>1. /\ directories_queue \in Seq(Entries) /\ directories_queue # <<>>
        /\ directories_queue' = Tail(directories_queue)
    BY <1>1, <1>2 DEF DequeueDirectory, Types, deQueue
  <2>2. /\ Len(directories_queue') = Len(directories_queue) - 1
        /\ \A i \in 1 .. Len(directories_queue') :
             directories_queue'[i] = directories_queue[i + 1]
        /\ directories_queue' \in Seq(Entries)
        /\ Head(directories_queue) = directories_queue[1]
    BY <2>1, HeadTailProperties
  <2>3. /\ DOMAIN directories_queue = 1 .. Len(directories_queue)
        /\ DOMAIN directories_queue' = 1 .. Len(directories_queue')
        /\ Len(directories_queue) \in Nat \ {0}
    BY <2>1, <2>2, LenProperties, EmptySeq
  <2>4. \A i \in DOMAIN directories_queue' :
          i + 1 \in DOMAIN directories_queue /\ directories_queue'[i] = directories_queue[i + 1]
    BY <2>2, <2>3
  <2>5. 1 \in DOMAIN directories_queue
    BY <2>3
  <2> QED
    BY <1>2, <2>2, <2>4, <2>5 DEF Queued, DequeueDirectory
<1>3. CASE EnqueueDirectory(t)
  <2>1. /\ directories_queue \in Seq(Entries) /\ item[t] \in Entries /\ pc[t] = "enqueue"
        /\ directories_queue' = Append(directories_queue, item[t])
    BY <1>1, <1>3 DEF EnqueueDirectory, Types, enQueue, IInv, HoldsItsDirectory
  <2>2. /\ directories_queue' \in Seq(Entries) /\ Len(directories_queue) \in Nat
        /\ Len(directories_queue') = Len(directories_queue) + 1
        /\ directories_queue'[Len(directories_queue) + 1] = item[t]
        /\ \A i \in 1 .. Len(directories_queue) : directories_queue'[i] = directories_queue[i]
    BY <2>1, AppendProperties, LenProperties
  <2>3. /\ DOMAIN directories_queue = 1 .. Len(directories_queue)
        /\ DOMAIN directories_queue' = 1 .. Len(directories_queue')
    BY <2>1, <2>2, LenProperties
  <2>4. \A i \in DOMAIN directories_queue' :
          \/ i \in DOMAIN directories_queue /\ directories_queue'[i] = directories_queue[i]
          \/ directories_queue'[i] = item[t]
    BY <2>2, <2>3
  <2> QED
    BY <1>3, <2>1, <2>4 DEF Queued, DequeueDirectory
<1>4. CASE UNCHANGED directories_queue /\ ~DequeueDirectory(t)
  BY <1>4 DEF Queued
<1> QED
  BY <1>2, <1>3, <1>4
     DEF Scan, DequeueDirectory, Opendir, OpendirFails, ReadEntry, CountFile, FinishScan,
         queueVars

\* Lines 340-437: what is queued is a directory, and opendir succeeds on it.
LEMMA HealthyStep ==
  ASSUME NoFailures, SearchInv, [Next]_vars
  PROVE  Healthy'
<1>1. Types /\ Healthy /\ ItemRead
  BY DEF SearchInv, IInv
<1>2. CASE Elsewhere
  BY <1>1, <1>2, ElsewhereKeepsKnown DEF Healthy, Elsewhere, scanVars
<1>3. CASE EnqueueRoot
  <2>1. /\ directories_queue' = enQueue(<<>>, Root)
        /\ UNCHANGED <<pc, curr_directory, res>>
    BY <1>3 DEF EnqueueRoot, SearchInv, OnceInv, ReadsItsDirectory, scanVars
  <2>2. Queued' = {Root}
    BY <2>1 DEF Queued, enQueue
  <2> QED
    BY <1>1, <2>1, <2>2, PfindAssumption DEF Healthy
<1>4. ASSUME NEW t \in Threads, Scan(t)
      PROVE  Healthy'
  <2>1. Others(t)
    BY <1>1, <1>4, ScansAreLocal
  <2>2. Queued' \subseteq Dirs
    BY <1>1, <1>4, QueuedAfter DEF SearchInv, Healthy, ItemRead, NoFailures
  <2>3. /\ pc'[t] \notin Failing /\ ~res'[t]
        /\ curr_directory'[t] \in Dirs \cup {None}
        /\ pc'[t] = "opendir" => curr_directory'[t] \in Dirs
    <3>1. CASE DequeueDirectory(t)
      <4>1. curr_directory'[t] \in Dirs
        BY <1>1, <1>4, <3>1, QueuedAfter DEF SearchInv, Healthy, Types
      <4>2. pc'[t] = "opendir" /\ res' = res
        BY <1>1, <3>1 DEF DequeueDirectory, Goto, Types
      <4> QED
        BY <1>1, <4>1, <4>2 DEF Healthy, Failing
    <3>2. ~OpendirFails(t)
      BY <1>1 DEF OpendirFails, Healthy, NoFailures
    <3>3. CASE ReadEntry(t)
      <4>1. /\ res'[t] = res[t] /\ curr_directory' = curr_directory
            /\ pc'[t] \in {"readdir", "enqueue", "count"}
        BY <1>1, <3>3 DEF ReadEntry, Goto, Types, NoFailures
      <4> QED
        BY <1>1, <4>1 DEF Healthy, Failing
    <3>4. CASE Opendir(t) \/ EnqueueDirectory(t) \/ CountFile(t)
      <4>1. /\ UNCHANGED <<res, curr_directory>>
            /\ pc'[t] \in {"readdir", "broadcast"}
        BY <1>1, <3>4 DEF Opendir, EnqueueDirectory, CountFile, Goto, Types
      <4> QED
        BY <1>1, <4>1 DEF Healthy, Failing
    <3>5. CASE FinishScan(t)
      <4>1. pc'[t] = "loop" /\ ~res'[t] /\ curr_directory'[t] = None
        BY <1>1, <3>5 DEF FinishScan, AfterScan, Goto, Types, Healthy
      <4> QED
        BY <4>1 DEF Failing
    <3> QED
      BY <1>4, <3>1, <3>2, <3>3, <3>4, <3>5 DEF Scan
  <2> QED
    BY <1>1, <2>1, <2>2, <2>3 DEF Healthy, Others
<1> QED
  BY <1>1, <1>2, <1>3, <1>4, StepsElsewhere

\* Lines 357-432: a directory comes from the scan of the one it is in.
LEMMA FromHandledStep ==
  ASSUME NoFailures, SearchInv, [Next]_vars
  PROVE  FromHandled'
<1>1. Types /\ FromHandled /\ IInv /\ OnceInv /\ ItemRead
  BY DEF SearchInv, IInv
<1>2. CASE Elsewhere
  BY <1>1, <1>2, ElsewhereKeepsKnown, ElsewhereKeepsHandled DEF FromHandled, Elsewhere, scanVars
<1>3. CASE EnqueueRoot
  <2>1. /\ directories_queue' = enQueue(<<>>, Root)
        /\ UNCHANGED <<scanned, curr_directory>>
    BY <1>1, <1>3 DEF EnqueueRoot, OnceInv, ReadsItsDirectory, scanVars
  <2>2. Queued' = {Root}
    BY <2>1 DEF Queued, enQueue
  <2> QED
    BY <1>1, <1>3, <2>1, <2>2, ElsewhereKeepsHandled DEF FromHandled
<1>4. ASSUME NEW t \in Threads, Scan(t)
      PROVE  FromHandled'
  <2>1. Others(t) /\ ~run_ended
    BY <1>1, <1>4, ScansAreLocal, ScansBeforeTheEnd DEF SearchInv
  <2>2. Handled \subseteq Handled'
    BY <1>1, <1>4, <2>1, HandledStep
  <2>3. Queued' \subseteq {Root} \cup Handled'
    <3>1. CASE EnqueueDirectory(t)
      <4>1. /\ pc[t] = "enqueue" /\ pc'[t] = "broadcast" /\ item'[t] = None
            /\ UNCHANGED <<curr_directory, todo>>
        BY <1>1, <3>1 DEF EnqueueDirectory, Goto, Types
      <4>2. item[t] \in Contents[curr_directory[t]] \ todo[t] /\ item[t] \in Entries
        BY <1>1, <4>1 DEF ItemRead, IInv, HoldsItsDirectory
      <4>3. item'[t] # item[t]
        BY <4>1, <4>2, PfindAssumption
      <4>4. item[t] \in Handled'
        BY <4>1, <4>2, <4>3 DEF Handled, Scanning
      <4> QED
        BY <1>1, <1>4, <2>2, <4>4, QueuedAfter DEF FromHandled
    <3>2. CASE pc[t] # "enqueue"
      BY <1>1, <1>4, <2>2, <3>2, QueuedAfter DEF FromHandled
    <3> QED
      BY <1>4, <3>1, <3>2 DEF Scan, DequeueDirectory, Opendir, OpendirFails, ReadEntry,
                              CountFile, FinishScan
  <2>4. scanned' \subseteq scanned \cup {curr_directory[t]} /\ scanned' \subseteq scanned \cup Dirs
    BY <1>1, <1>4 DEF Scan, DequeueDirectory, Opendir, OpendirFails, ReadEntry,
          EnqueueDirectory, CountFile, FinishScan, IInv, HoldsItsDirectory, Scanning
  <2>5. scanned' \subseteq {Root} \cup Handled'
    BY <1>1, <2>2, <2>4, PfindAssumption DEF FromHandled, Entries
  <2>6. curr_directory'[t] \in {Root, None} \cup Handled'
    <3>1. CASE DequeueDirectory(t)
      BY <1>1, <1>4, <2>2, <3>1, QueuedAfter DEF FromHandled, Types
    <3>2. CASE ~DequeueDirectory(t)
      <4>1. curr_directory'[t] \in {curr_directory[t], None}
        BY <1>1, <1>4, <3>2 DEF Scan, Opendir, OpendirFails, ReadEntry, EnqueueDirectory,
             CountFile, FinishScan, Types
      <4> QED
        BY <1>1, <2>2, <4>1 DEF FromHandled
    <3> QED
      BY <3>1, <3>2
  <2> QED
    BY <1>1, <2>1, <2>2, <2>3, <2>5, <2>6 DEF FromHandled, Others
<1> QED
  BY <1>1, <1>2, <1>3, <1>4, StepsElsewhere

\* Only main prints, and only at the end.
LEMMA ReportedLast == [Next]_vars => PrintAndExit \/ reported' = reported
<1> SUFFICES ASSUME [Next]_vars PROVE PrintAndExit \/ reported' = reported
  OBVIOUS
<1>1. ASSUME NEW t \in Threads, WorkerStep(t) \/ SpuriousWakeup(t)
      PROVE  reported' = reported
  BY <1>1, WorkersLeaveMain
<1>2. CASE Main \/ SpuriousMainWakeup \/ UNCHANGED vars
  BY <1>2 DEF Main, EnqueueRoot, OpenGate, CountMain, CreateThread, ReadErrors,
     ReadSleeping, ReadLiving, CheckSleeping, CheckErrors, AwaitNewSleepingThread,
     EndRun, PrintAndExit, SpuriousMainWakeup, endVars, vars
<1> QED
  BY <1>1, <1>2 DEF Next, Worker

\* A step of a scan handles an entry, closes a directory, or shows nothing.
LEMMA ScanSearches ==
  ASSUME NoFailures, SearchInv, NEW t \in Threads, Scan(t), reported' = reported
  PROVE  [Search!Next]_Search!vars
<1> DEFINE c == curr_directory[t]
<1>1. IInv /\ OnceInv /\ ItemRead /\ FromHandled /\ OnePlace /\ ~run_ended
  BY ScansBeforeTheEnd DEF SearchInv, OnceInv
<1>2. CASE Handled' = Handled /\ counter' = counter /\ scanned' = scanned
  BY <1>2 DEF Search!vars
<1>3. ASSUME pc[t] \in Reading
      PROVE  c \in Dirs /\ c \in ({Root} \cup (Handled \cap Dirs)) \ scanned
  <2>1. c \in Dirs /\ c \in Held(t)
    BY <1>1, <1>3 DEF IInv, HoldsItsDirectory, Reading, Scanning, Held, Entries
  <2>2. c \in {Root} \cup Handled
    BY <1>1, <2>1, PfindAssumption DEF FromHandled, Entries
  <2> QED
    BY <1>1, <2>1, <2>2, KnownPlaces DEF OnePlace
<1>4. CASE Handled' = Handled /\ counter' = counter /\ FinishScan(t)
  <2>1. pc[t] = "readdir" /\ todo[t] = {} /\ scanned' = scanned \cup {c}
    BY <1>1, <1>4 DEF FinishScan
  <2>2. c \in Dirs /\ c \in ({Root} \cup (Handled \cap Dirs)) \ scanned
    BY <1>3, <2>1 DEF Reading
  <2>3. Contents[c] \subseteq Handled
    BY <1>1, <2>1, <2>2, PfindAssumption DEF Handled, ItemRead, Scanning, Entries
  <2>4. Search!Close(c)
    BY <1>4, <2>1, <2>2, <2>3 DEF Search!Close
  <2> QED
    BY <2>2, <2>4 DEF Search!Next
<1>5. ASSUME NEW x \in Contents[c] \ Handled,
             pc[t] \in Reading, scanned' = scanned, Handled' = Handled \cup {x},
             \/ counter' = counter /\ x \notin (Files \cap Matching) \ Unstatable
             \/ counter' = counter + 1 /\ x \in Matching /\ x \in Files \cup Unstatable
      PROVE  [Search!Next]_Search!vars
  <2>1. c \in Dirs /\ c \in ({Root} \cup (Handled \cap Dirs)) \ scanned
    BY <1>3, <1>5
  <2>2. counter' = IF x \in Files \cap Matching THEN counter + 1 ELSE counter
    BY <1>5 DEF NoFailures
  <2>3. {Root} \cup (Handled' \cap Dirs) =
          IF x \in Dirs THEN ({Root} \cup (Handled \cap Dirs)) \cup {x}
                        ELSE {Root} \cup (Handled \cap Dirs)
    BY <1>5
  <2>4. Search!Handle(c, x)
    BY <1>5, <2>1, <2>2, <2>3 DEF Search!Handle
  <2> QED
    BY <2>1, <2>4 DEF Search!Next
<1> QED
  BY <1>1, <1>2, <1>4, <1>5, HandledStep

\* Main prints when every known directory is closed.
LEMMA PrintReports ==
  ASSUME NoFailures, SearchInv, PrintAndExit
  PROVE  Search!Report
<1>1. /\ mpc = "print" /\ reported' = counter /\ counter' = counter
      /\ UNCHANGED <<pc, curr_directory, todo, item, scanned>>
  BY DEF PrintAndExit, scanVars
<1>2. Dead = {}
  BY DEF SearchInv, Healthy, Dead, Failing
<1>3. thread_errors_cntr = 0
  BY <1>2, FS_EmptySet DEF SearchInv, IInv, CountersExact
<1>4. Drained /\ Complete(counter) /\ reported = -1
  BY <1>1, <1>3 DEF SearchInv, EndInv
<1>5. Handled = HandledBefore
  BY <1>4 DEF Drained, Handled, HandledBefore, Scanning
<1>6. Handled' = Handled
  BY <1>1 DEF Handled
<1>7. {Root} \cup (Handled \cap Dirs) = scanned
  <2>1. scanned \subseteq Dirs /\ scanned \subseteq {Root} \cup Handled
    BY DEF SearchInv, IInv, Types, FromHandled
  <2> QED
    BY <1>4, <1>5, <2>1 DEF Complete, HandledBefore
<1> QED
  BY <1>1, <1>4, <1>6, <1>7 DEF Search!Report

\* Lines 228-501: when neither opendir nor lstat fails, pfind does what DirSearch
\* promises: it handles each entry once, closes a directory when all of it is handled,
\* and prints the number once, when every directory found is closed.
THEOREM ImplementsSearch ==
  ASSUME NoFailures
  PROVE  Spec => SearchSpec
<1>1. Init => Search!Init /\ SearchInv
  <2> SUFFICES ASSUME Init PROVE Search!Init /\ SearchInv
    OBVIOUS
  <2>1. Handled = {} /\ Queued = {}
    BY DEF Init, Handled, Scanning, Queued
  <2>2. Search!Init
    BY <2>1 DEF Init, Search!Init
  <2>3. CleanInv /\ EndInv
    BY <2>1 DEF Init, CleanInv, AllIsKnown, EndInv, Reading
  <2>4. Healthy /\ FromHandled
    BY <2>1 DEF Init, Healthy, FromHandled, Failing
  <2> QED
    BY <2>2, <2>3, <2>4, IInvInit, OnceInvInit, CountInit DEF SearchInv
<1>2. SearchInv /\ [Next]_vars => SearchInv'
  BY IInvStep, OnceInvStep, ItemReadStep, CountInvStep, CleanInvStep, EndInvStep,
     HealthyStep, FromHandledStep DEF SearchInv
<1>3. SearchInv /\ [Next]_vars => [Search!Next]_Search!vars
  <2> SUFFICES ASSUME SearchInv, [Next]_vars PROVE [Search!Next]_Search!vars
    OBVIOUS
  <2>1. CASE PrintAndExit
    BY <2>1, PrintReports DEF Search!Next
  <2>2. CASE reported' = reported
    <3>1. CASE Elsewhere \/ EnqueueRoot
      <4>1. scanned' = scanned
        BY <3>1 DEF Elsewhere, EnqueueRoot, scanVars
      <4> QED
        BY <2>2, <3>1, <4>1, ElsewhereKeepsHandled DEF Search!vars
    <3>2. ASSUME NEW t \in Threads, Scan(t)
          PROVE  [Search!Next]_Search!vars
      BY <2>2, <3>2, ScanSearches
    <3> QED
      BY <3>1, <3>2, StepsElsewhere DEF SearchInv, IInv
  <2> QED
    BY <2>1, <2>2, ReportedLast
<1> QED
  BY <1>1, <1>2, <1>3, PTL DEF Spec, SearchSpec, Search!Spec
==============================================================================
