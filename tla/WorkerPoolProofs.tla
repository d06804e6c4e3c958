--------------------------- MODULE WorkerPoolProofs ---------------------------
(***************************************************************************)
(* Proofs about WorkerPool, for every number of workers, of jobs and of    *)
(* spurious wake-ups.  The argument rests on IInv: who is inside the region*)
(* of jobMutex and what he saw there (ControlInv), how far the loops of    *)
(* the server thread have come (ServerInv), that the nextJob chain is the  *)
(* interval from jobFirst to the newest job (QueueChain), and that the jobs*)
(* before it are held by one worker each, handled, or lost (JobInv).  The  *)
(* backlog property and the refinement of JobDispatch are proved on top.   *)
(***************************************************************************)
EXTENDS WorkerPool, FiniteSetTheorems, TLAPS

USE PoolAssumption DEF Worker, Job, NULL

-----------------------------------------------------------------------------
(* The inductive invariant *)

\* The pool server_run finds satisfies the invariant.
LEMMA InitInv == Init => IInv
BY DEF Init, IInv, TypeOK, ControlInv, ServerInv, QueueChain, JobInv,
       NobodySleepsThroughStop, Stopping, Enqueued, Taken

\* A step that changes nothing keeps the invariant.
LEMMA StutterInv == IInv /\ UNCHANGED vars => IInv'
BY DEF vars, queueVars, workerVars, serverVars, historyVars, IInv, TypeOK,
       ControlInv, ServerInv, QueueChain, JobInv, NobodySleepsThroughStop,
       Stopping, Enqueued, Taken, Backlog

\* Taking jobMutex keeps the invariant: it was free, so nobody is inside.
LEMMA LockJobsInv ==
  ASSUME IInv, NEW w \in Worker, LockJobs(w)
  PROVE  IInv'
<1> USE DEF IInv, TypeOK, queueVars, workerVars, serverVars, historyVars,
            LockJobs, Stopping, Enqueued
<1>1. TypeOK'
  BY DEF TypeOK
<1>2. ControlInv'
  BY DEF ControlInv, ServerInv
<1>3. ServerInv'
  BY DEF ControlInv, ServerInv
<1>4. QueueChain'
  BY DEF QueueChain, ControlInv, ServerInv
<1>5. JobInv'
  BY DEF QueueChain, ControlInv, ServerInv, JobInv, Taken, Backlog
<1>6. NobodySleepsThroughStop'
  BY DEF ControlInv, ServerInv, NobodySleepsThroughStop
<1> QED BY <1>1, <1>2, <1>3, <1>4, <1>5, <1>6 DEF IInv

\* The test of jobFirst: whoever goes on saw the queue as it stays under
\* jobMutex.
LEMMA TestQueueInv ==
  ASSUME IInv, NEW w \in Worker, TestQueue(w)
  PROVE  IInv'
<1> USE DEF IInv, TypeOK, queueVars, workerVars, serverVars, historyVars,
            TestQueue, Stopping, Enqueued
<1>1. TypeOK'
  BY DEF TypeOK
<1>2. ControlInv'
  BY DEF ControlInv, ServerInv
<1>3. ServerInv'
  BY DEF ControlInv, ServerInv
<1>4. QueueChain'
  BY DEF QueueChain, ControlInv, ServerInv
<1>5. JobInv'
  BY DEF QueueChain, ControlInv, ServerInv, JobInv, Taken, Backlog
<1>6. NobodySleepsThroughStop'
  BY DEF ControlInv, ServerInv, NobodySleepsThroughStop
<1> QED BY <1>1, <1>2, <1>3, <1>4, <1>5, <1>6 DEF IInv

\* The first look at terminate: who goes on without a job saw it set.
LEMMA TestTerminateInv ==
  ASSUME IInv, NEW w \in Worker, TestTerminate(w)
  PROVE  IInv'
<1> USE DEF IInv, TypeOK, queueVars, workerVars, serverVars, historyVars,
            TestTerminate, Stopping, Enqueued
<1>1. TypeOK'
  BY DEF TypeOK
<1>2. ControlInv'
  BY DEF ControlInv, ServerInv
<1>3. ServerInv'
  BY DEF ControlInv, ServerInv
<1>4. QueueChain'
  BY DEF QueueChain, ControlInv, ServerInv
<1>5. JobInv'
  BY DEF QueueChain, ControlInv, ServerInv, JobInv, Taken, Backlog
<1>6. NobodySleepsThroughStop'
  BY DEF ControlInv, ServerInv, NobodySleepsThroughStop
<1> QED BY <1>1, <1>2, <1>3, <1>4, <1>5, <1>6 DEF IInv

\* Going to sleep: the mutex owner slept on an empty queue, before the
\* broadcast.
LEMMA SleepInv ==
  ASSUME IInv, NEW w \in Worker, Sleep(w)
  PROVE  IInv'
<1> USE DEF IInv, TypeOK, queueVars, workerVars, serverVars, historyVars,
            Sleep, Stopping, Enqueued
<1>1. TypeOK'
  BY DEF TypeOK
<1>2. ControlInv'
  BY DEF ControlInv, ServerInv
<1>3. ServerInv'
  BY DEF ControlInv, ServerInv
<1>4. QueueChain'
  BY DEF QueueChain, ControlInv, ServerInv
<1>5. JobInv'
  BY DEF QueueChain, ControlInv, ServerInv, JobInv, Taken, Backlog
<1>6. NobodySleepsThroughStop'
  BY DEF ControlInv, ServerInv, NobodySleepsThroughStop
<1> QED BY <1>1, <1>2, <1>3, <1>4, <1>5, <1>6 DEF IInv

\* A wake-up without a signal leads to the lock like any other.
LEMMA WakeSpuriouslyInv ==
  ASSUME IInv, NEW w \in Worker, WakeSpuriously(w)
  PROVE  IInv'
<1> USE DEF IInv, TypeOK, queueVars, workerVars, serverVars, historyVars,
            WakeSpuriously, Stopping, Enqueued
<1>1. TypeOK'
  BY DEF TypeOK
<1>2. ControlInv'
  BY DEF ControlInv, ServerInv
<1>3. ServerInv'
  BY DEF ControlInv, ServerInv
<1>4. QueueChain'
  BY DEF QueueChain, ControlInv, ServerInv
<1>5. JobInv'
  BY DEF QueueChain, ControlInv, ServerInv, JobInv, Taken, Backlog
<1>6. NobodySleepsThroughStop'
  BY DEF ControlInv, ServerInv, NobodySleepsThroughStop
<1> QED BY <1>1, <1>2, <1>3, <1>4, <1>5, <1>6 DEF IInv

\* Unlinking the first job: the chain from its successor is the old chain
\* less its head.
LEMMA TakeJobInv ==
  ASSUME IInv, NEW w \in Worker, TakeJob(w)
  PROVE  IInv'
<1> USE DEF IInv, TypeOK, queueVars, workerVars, serverVars, historyVars,
            TakeJob, UnlinkFirst, Stopping, Enqueued
<1>1. TypeOK'
  BY DEF TypeOK
<1>2. ControlInv'
  BY DEF ControlInv, ServerInv
<1>3. ServerInv'
  BY DEF ControlInv, ServerInv
<1>4. QueueChain'
  <2>1. CASE jobFirst = NULL
    BY <2>1 DEF QueueChain
  <2>2. CASE jobFirst # NULL /\ jobFirst = jobLast
    BY <2>2 DEF QueueChain
  <2>3. CASE jobFirst # NULL /\ jobFirst # jobLast
    <3>1. jobFirst' = jobFirst + 1 /\ jobLast' = jobLast /\ nextJob' = nextJob
      BY <2>3 DEF QueueChain
    <3>2. UNCHANGED Enqueued /\ jobFirst < jobLast /\ jobFirst \in Nat \ {0} /\
    jobLast \in Nat
      BY <2>3 DEF QueueChain
    <3> QED
      BY <2>3, <3>1, <3>2 DEF QueueChain
  <2> QED
    BY <2>1, <2>2, <2>3
<1>5. JobInv'
  BY SMTT(60)
     DEF QueueChain, ControlInv, ServerInv, JobInv, Taken, Backlog
<1>6. NobodySleepsThroughStop'
  BY DEF ControlInv, ServerInv, NobodySleepsThroughStop
<1> QED BY <1>1, <1>2, <1>3, <1>4, <1>5, <1>6 DEF IInv

\* The second look at terminate.
LEMMA CheckTerminateInv ==
  ASSUME IInv, NEW w \in Worker, CheckTerminate(w)
  PROVE  IInv'
<1> USE DEF IInv, TypeOK, queueVars, workerVars, serverVars, historyVars,
            CheckTerminate, Stopping, Enqueued
<1>1. TypeOK'
  BY DEF TypeOK
<1>2. ControlInv'
  BY DEF ControlInv, ServerInv
<1>3. ServerInv'
  BY DEF ControlInv, ServerInv
<1>4. QueueChain'
  BY DEF QueueChain, ControlInv, ServerInv
<1>5. JobInv'
  BY DEF QueueChain, ControlInv, ServerInv, JobInv, Taken, Backlog
<1>6. NobodySleepsThroughStop'
  BY DEF ControlInv, ServerInv, NobodySleepsThroughStop
<1> QED BY <1>1, <1>2, <1>3, <1>4, <1>5, <1>6 DEF IInv

\* A handled job had left the queue and nobody else held it.
LEMMA HandleJobInv ==
  ASSUME IInv, NEW w \in Worker, HandleJob(w)
  PROVE  IInv'
<1> USE DEF IInv, TypeOK, queueVars, workerVars, serverVars, historyVars,
            HandleJob, Stopping, Enqueued
<1>1. TypeOK'
  BY ZenonT(60) DEF ControlInv
<1>2. ControlInv'
  BY DEF ControlInv, ServerInv
<1>3. ServerInv'
  BY DEF ControlInv, ServerInv
<1>4. QueueChain'
  BY DEF QueueChain, ControlInv, ServerInv
<1>5. JobInv'
  BY DEF QueueChain, ControlInv, ServerInv, JobInv, Taken, Backlog
<1>6. NobodySleepsThroughStop'
  BY DEF ControlInv, ServerInv, NobodySleepsThroughStop
<1> QED BY <1>1, <1>2, <1>3, <1>4, <1>5, <1>6 DEF IInv

\* workerPool_start: the workers from cursor on are unborn.
LEMMA StartWorkerInv ==
  ASSUME IInv, StartWorker
  PROVE  IInv'
<1> USE DEF IInv, TypeOK, queueVars, workerVars, serverVars, historyVars,
            StartWorker, Stopping, Enqueued
<1>1. TypeOK'
  BY DEF ServerInv
<1>2. ControlInv'
  BY DEF ControlInv, ServerInv
<1>3. ServerInv'
  BY DEF ControlInv, ServerInv
<1>4. QueueChain'
  BY DEF QueueChain, ControlInv, ServerInv
<1>5. JobInv'
  BY DEF QueueChain, ControlInv, ServerInv, JobInv, Taken, Backlog
<1>6. NobodySleepsThroughStop'
  BY DEF ControlInv, ServerInv, NobodySleepsThroughStop
<1> QED BY <1>1, <1>2, <1>3, <1>4, <1>5, <1>6 DEF IInv

\* createJob: the new job is not in the queue yet.
LEMMA CreateJobInv ==
  ASSUME IInv, CreateJob
  PROVE  IInv'
<1> USE DEF IInv, TypeOK, queueVars, workerVars, serverVars, historyVars,
            CreateJob, Stopping, Enqueued
<1>1. TypeOK'
  BY DEF TypeOK
<1>2. ControlInv'
  BY DEF ControlInv, ServerInv
<1>3. ServerInv'
  BY DEF ControlInv, ServerInv
<1>4. QueueChain'
  BY DEF QueueChain, ControlInv, ServerInv
<1>5. JobInv'
  BY DEF QueueChain, ControlInv, ServerInv, JobInv, Taken, Backlog
<1>6. NobodySleepsThroughStop'
  BY DEF ControlInv, ServerInv, NobodySleepsThroughStop
<1> QED BY <1>1, <1>2, <1>3, <1>4, <1>5, <1>6 DEF IInv

\* workerPool_addJob: the new job goes behind jobLast.
LEMMA AddJobInv ==
  ASSUME IInv, AddJob
  PROVE  IInv'
<1> USE DEF IInv, TypeOK, queueVars, workerVars, serverVars, historyVars,
            AddJob, Append, SignalOne, Asleep, Stopping, Enqueued
<1>1. TypeOK'
  BY SMTT(60) DEF ServerInv, QueueChain
<1>2. ControlInv'
  BY DEF ControlInv, ServerInv, ServerInv, QueueChain
<1>3. ServerInv'
  BY DEF ControlInv, ServerInv, ServerInv, QueueChain
<1>4. QueueChain'
  BY DEF QueueChain, ControlInv, ServerInv
<1>5. JobInv'
  BY DEF QueueChain, ControlInv, ServerInv, JobInv, Taken, Backlog
<1>6. NobodySleepsThroughStop'
  BY DEF ControlInv, ServerInv, NobodySleepsThroughStop
<1> QED BY <1>1, <1>2, <1>3, <1>4, <1>5, <1>6 DEF IInv

\* The end of the event loop.
LEMMA LoopExitInv ==
  ASSUME IInv, LoopExit
  PROVE  IInv'
<1> USE DEF IInv, TypeOK, queueVars, workerVars, serverVars, historyVars,
            LoopExit, Stopping, Enqueued
<1>1. TypeOK'
  BY DEF TypeOK
<1>2. ControlInv'
  BY DEF ControlInv, ServerInv
<1>3. ServerInv'
  BY DEF ControlInv, ServerInv
<1>4. QueueChain'
  BY DEF QueueChain, ControlInv, ServerInv
<1>5. JobInv'
  BY DEF QueueChain, ControlInv, ServerInv, JobInv, Taken, Backlog
<1>6. NobodySleepsThroughStop'
  BY DEF ControlInv, ServerInv, NobodySleepsThroughStop
<1> QED BY <1>1, <1>2, <1>3, <1>4, <1>5, <1>6 DEF IInv

\* workerPool_stop: the workers before cursor have their flag.
LEMMA SetTerminateInv ==
  ASSUME IInv, SetTerminate
  PROVE  IInv'
<1> USE DEF IInv, TypeOK, queueVars, workerVars, serverVars, historyVars,
            SetTerminate, Stopping, Enqueued
<1>1. TypeOK'
  BY DEF ServerInv
<1>2. ControlInv'
  BY DEF ControlInv, ServerInv
<1>3. ServerInv'
  BY DEF ControlInv, ServerInv
<1>4. QueueChain'
  BY DEF QueueChain, ControlInv, ServerInv
<1>5. JobInv'
  BY DEF QueueChain, ControlInv, ServerInv, JobInv, Taken, Backlog
<1>6. NobodySleepsThroughStop'
  BY DEF ControlInv, ServerInv, NobodySleepsThroughStop
<1> QED BY <1>1, <1>2, <1>3, <1>4, <1>5, <1>6 DEF IInv

\* The broadcast finds nobody inside the region of jobMutex, so everyone who
\* sleeps or was about to is awake after it.
LEMMA BroadcastInv ==
  ASSUME IInv, Broadcast
  PROVE  IInv'
<1> USE DEF IInv, TypeOK, queueVars, workerVars, serverVars, historyVars,
            Broadcast, Asleep, Stopping, Enqueued
<1>1. TypeOK'
  BY DEF TypeOK
<1>2. ControlInv'
  BY DEF ControlInv, ServerInv
<1>3. ServerInv'
  BY DEF ControlInv, ServerInv
<1>4. QueueChain'
  BY DEF QueueChain, ControlInv, ServerInv
<1>5. JobInv'
  BY DEF QueueChain, ControlInv, ServerInv, JobInv, Taken, Backlog
<1>6. NobodySleepsThroughStop'
  BY DEF ControlInv, ServerInv, NobodySleepsThroughStop
<1> QED BY <1>1, <1>2, <1>3, <1>4, <1>5, <1>6 DEF IInv

\* workerPool_join: the workers before cursor have exited, and the walk of
\* workerPool_free begins at jobFirst.
LEMMA JoinWorkerInv ==
  ASSUME IInv, JoinWorker
  PROVE  IInv'
<1> USE DEF IInv, TypeOK, queueVars, workerVars, serverVars, historyVars,
            JoinWorker, Stopping, Enqueued
<1>1. TypeOK'
  BY DEF TypeOK
<1>2. ControlInv'
  BY DEF ControlInv, ServerInv
<1>3. ServerInv'
  BY DEF ControlInv, ServerInv
<1>4. QueueChain'
  BY DEF QueueChain, ControlInv, ServerInv
<1>5. JobInv'
  BY DEF QueueChain, ControlInv, ServerInv, JobInv, Taken, Backlog
<1>6. NobodySleepsThroughStop'
  BY DEF ControlInv, ServerInv, NobodySleepsThroughStop
<1> QED BY <1>1, <1>2, <1>3, <1>4, <1>5, <1>6 DEF IInv

\* workerPool_free: the walk follows the chain of the queue.
LEMMA FreeJobInv ==
  ASSUME IInv, FreeJob
  PROVE  IInv'
<1> USE DEF IInv, TypeOK, queueVars, workerVars, serverVars, historyVars,
            FreeJob, Stopping, Enqueued
<1>1. TypeOK'
  BY DEF JobInv, Backlog
<1>2. ControlInv'
  BY DEF ControlInv, ServerInv
<1>3. ServerInv'
  BY DEF ControlInv, ServerInv
<1>4. QueueChain'
  BY DEF QueueChain, ControlInv, ServerInv
<1>5. JobInv'
  BY SMTT(60)
     DEF QueueChain, ControlInv, ServerInv, JobInv, Taken, Backlog
<1>6. NobodySleepsThroughStop'
  BY DEF ControlInv, ServerInv, NobodySleepsThroughStop
<1> QED BY <1>1, <1>2, <1>3, <1>4, <1>5, <1>6 DEF IInv

\* The end of the walk.
LEMMA FreePoolInv ==
  ASSUME IInv, FreePool
  PROVE  IInv'
<1> USE DEF IInv, TypeOK, queueVars, workerVars, serverVars, historyVars,
            FreePool, Stopping, Enqueued
<1>1. TypeOK'
  BY DEF TypeOK
<1>2. ControlInv'
  BY DEF ControlInv, ServerInv
<1>3. ServerInv'
  BY DEF ControlInv, ServerInv
<1>4. QueueChain'
  BY DEF QueueChain, ControlInv, ServerInv
<1>5. JobInv'
  BY DEF QueueChain, ControlInv, ServerInv, JobInv, Taken, Backlog
<1>6. NobodySleepsThroughStop'
  BY DEF ControlInv, ServerInv, NobodySleepsThroughStop
<1> QED BY <1>1, <1>2, <1>3, <1>4, <1>5, <1>6 DEF IInv

\* Every step keeps the invariant.
LEMMA NextInv == IInv /\ [Next]_vars => IInv'
BY StutterInv, LockJobsInv, TestQueueInv, TestTerminateInv, SleepInv,
   WakeSpuriouslyInv, TakeJobInv, CheckTerminateInv, HandleJobInv,
   StartWorkerInv, CreateJobInv, AddJobInv, LoopExitInv, SetTerminateInv,
   BroadcastInv, JoinWorkerInv, FreeJobInv, FreePoolInv
DEF Next, WorkerStep, ServerStep, Terminated

\* IInv holds in every reachable state of the pool.
THEOREM Invariance == Spec => []IInv
BY InitInv, NextInv, PTL DEF Spec

\* Every variable keeps its type: in particular no list pointer and no job of
\* a worker ever leaves the jobs that were created.
THEOREM TypeCorrect == Spec => []TypeOK
<1>1. IInv => TypeOK
  BY DEF IInv
<1> QED
  BY <1>1, Invariance, PTL

\* The list of workerPool_addJob and worker_function is always the jobs that
\* were added and not taken, in order.
THEOREM ChainCorrect == Spec => []QueueChain
<1>1. IInv => QueueChain
  BY DEF IInv
<1> QED
  BY <1>1, Invariance, PTL

\* No worker can sleep through workerPool_stop, although the terminate flags
\* are set outside jobMutex.
THEOREM StopReachesAll == Spec => []NobodySleepsThroughStop
<1>1. IInv => NobodySleepsThroughStop
  BY DEF IInv
<1> QED
  BY <1>1, Invariance, PTL

-----------------------------------------------------------------------------
(* Ownership of jobs *)

\* A job before jobFirst is not queued, and a held one is not freed.
LEMMA OwnerFromInv == IInv => OneOwner
<1> SUFFICES ASSUME IInv PROVE OneOwner
  OBVIOUS
<1> USE DEF IInv, TypeOK, JobInv, ControlInv, QueueChain, Taken, Backlog,
            Enqueued
<1>1. \A v, w \in Worker : v # w /\ job[v] # NULL => job[v] # job[w]
  OBVIOUS
<1>2. ASSUME NEW w \in Worker, job[w] # NULL
      PROVE  job[w] \notin Backlog \union freed
  <2>1. job[w] <= Taken /\ job[w] \notin handled /\ job[w] \in Nat
    BY <1>2
  <2>2. job[w] \notin Backlog
    BY <2>1
  <2>3. job[w] \notin freed
    BY <2>1, <2>2 DEF ServerInv
  <2> QED
    BY <2>2, <2>3
<1>3. serverPc \notin {"free", "done"} =>
        freed = handled /\ Backlog \cap freed = {}
  OBVIOUS
<1> QED
  BY <1>1, <1>2, <1>3 DEF OneOwner

\* No job is ever served twice, served while queued, or freed while held.
THEOREM OwnerUnique == Spec => []OneOwner
BY OwnerFromInv, Invariance, PTL

-----------------------------------------------------------------------------
(* No worker sleeps while a job waits for it *)

\* Sets of workers and sets of jobs can be counted.
LEMMA Finiteness ==
  ASSUME NEW S, S \subseteq Worker \/ S \subseteq Job
  PROVE  IsFiniteSet(S) /\ Cardinality(S) \in Nat
<1>1. IsFiniteSet(Worker) /\ IsFiniteSet(Job)
  BY FS_Interval
<1> QED
  BY <1>1, FS_Subset, FS_CardinalityType

\* What NoIdleWhileBacklog counts are such sets.
LEMMA Counted ==
  /\ Awake \subseteq Worker /\ Awake' \subseteq Worker
  /\ IInv => Backlog \subseteq Job
  /\ IInv' => Backlog' \subseteq Job
BY DEF IInv, TypeOK, Awake, Backlog, Enqueued, ServerInv

\* A step that only adds to the workers that are awake, and only removes from
\* the backlog, keeps the balance.
LEMMA MoreAwake ==
  ASSUME IInv, IInv', NoIdleWhileBacklog,
         Awake \subseteq Awake', Backlog' \subseteq Backlog,
         Asleep' # {} => Asleep # {}
  PROVE  NoIdleWhileBacklog'
<1>1. /\ IsFiniteSet(Awake) /\ IsFiniteSet(Awake')
      /\ IsFiniteSet(Backlog) /\ IsFiniteSet(Backlog')
      /\ Cardinality(Awake) \in Nat /\ Cardinality(Awake') \in Nat
      /\ Cardinality(Backlog) \in Nat /\ Cardinality(Backlog') \in Nat
  BY Finiteness, Counted
<1>2. Cardinality(Awake) <= Cardinality(Awake')
  BY <1>1, FS_Subset
<1>3. Cardinality(Backlog') <= Cardinality(Backlog)
  BY <1>1, FS_Subset
<1> QED
  BY <1>1, <1>2, <1>3 DEF NoIdleWhileBacklog

\* A worker that leaves the queue takes a job with it, if there is one.
LEMMA TakeJobBacklog ==
  ASSUME IInv, IInv', NoIdleWhileBacklog, NEW w \in Worker, TakeJob(w)
  PROVE  NoIdleWhileBacklog'
<1> USE DEF TakeJob, UnlinkFirst, IInv, TypeOK, QueueChain, Backlog, Enqueued,
            serverVars
<1>1. /\ IsFiniteSet(Awake) /\ IsFiniteSet(Awake')
      /\ IsFiniteSet(Backlog) /\ IsFiniteSet(Backlog')
      /\ Cardinality(Awake) \in Nat /\ Cardinality(Awake') \in Nat
      /\ Cardinality(Backlog) \in Nat /\ Cardinality(Backlog') \in Nat
  BY Finiteness, Counted
<1>2. CASE jobFirst = NULL
  <2>1. Backlog' = {}
    BY <1>2
  <2>2. Cardinality(Backlog') = 0
    BY <2>1, FS_EmptySet
  <2> QED
    BY <1>1, <2>2 DEF NoIdleWhileBacklog
<1>3. CASE jobFirst # NULL
  <2>1. Backlog' = Backlog \ {jobFirst} /\ jobFirst \in Backlog
    <3>1. CASE jobFirst = jobLast
      BY <1>3, <3>1
    <3>2. CASE jobFirst # jobLast
      BY <1>3, <3>2
    <3> QED
      BY <3>1, <3>2
  <2>2. Awake' = Awake \ {w} /\ w \in Awake
    <3> HIDE DEF IInv, TypeOK, TakeJob, QueueChain, Worker
    <3>1. /\ DOMAIN pc = Worker /\ pc[w] = "take"
          /\ pc' = [pc EXCEPT ![w] = "check"]
      BY DEF TakeJob, IInv, TypeOK
    <3> QED
      BY <3>1 DEF Awake
  <2>3. Asleep' = Asleep
    BY DEF Asleep
  <2> HIDE DEF TakeJob, UnlinkFirst, IInv, TypeOK, QueueChain, Backlog,
               Enqueued
  <2>4. Cardinality(Backlog') = Cardinality(Backlog) - 1
    BY <1>1, <2>1, FS_RemoveElement
  <2>5. Cardinality(Awake') = Cardinality(Awake) - 1
    BY <1>1, <2>2, FS_RemoveElement
  <2> QED
    BY <1>1, <2>3, <2>4, <2>5 DEF NoIdleWhileBacklog
<1> QED
  BY <1>2, <1>3

\* A new job wakes a worker, if one sleeps.
LEMMA AddJobBacklog ==
  ASSUME IInv, IInv', NoIdleWhileBacklog, AddJob
  PROVE  NoIdleWhileBacklog'
<1> USE DEF AddJob, Append, IInv, TypeOK, QueueChain, ServerInv
<1>1. /\ IsFiniteSet(Awake) /\ IsFiniteSet(Awake')
      /\ IsFiniteSet(Backlog) /\ IsFiniteSet(Backlog')
      /\ Cardinality(Awake) \in Nat /\ Cardinality(Awake') \in Nat
      /\ Cardinality(Backlog) \in Nat /\ Cardinality(Backlog') \in Nat
  BY Finiteness, Counted
<1>2. CASE Asleep = {}
  BY <1>2 DEF SignalOne, Asleep, NoIdleWhileBacklog
<1>3. ASSUME NEW w \in Asleep, pc' = [pc EXCEPT ![w] = "lock"]
      PROVE  NoIdleWhileBacklog'
  <2>1. Backlog' = Backlog \union {created} /\ created \notin Backlog
    <3>1. CASE jobFirst = NULL
      BY <3>1 DEF Backlog, Enqueued
    <3>2. CASE jobFirst # NULL
      BY <3>2 DEF Backlog, Enqueued
    <3> QED
      BY <3>1, <3>2
  <2>2. Awake' = Awake \union {w} /\ w \notin Awake
    BY <1>3 DEF Awake, Asleep
  <2>3. Cardinality(Backlog') = Cardinality(Backlog) + 1
    BY <1>1, <2>1, FS_AddElement
  <2>4. Cardinality(Awake') = Cardinality(Awake) + 1
    BY <1>1, <2>2, FS_AddElement
  <2> QED
    BY <1>1, <1>3, <2>3, <2>4 DEF NoIdleWhileBacklog
<1> QED
  BY <1>2, <1>3 DEF SignalOne

\* Only the empty queue lets a worker sleep.
LEMMA SleepBacklog ==
  ASSUME IInv, NEW w \in Worker, Sleep(w), IInv'
  PROVE  NoIdleWhileBacklog'
<1>1. Backlog' = {}
  BY DEF Sleep, IInv, ControlInv, Backlog, queueVars
<1>2. Cardinality(Backlog') = 0 /\ Cardinality(Awake') \in Nat
  BY <1>1, FS_EmptySet, Finiteness, Counted
<1> QED
  BY <1>2 DEF NoIdleWhileBacklog

\* Every step keeps the balance of backlog and awake workers.
LEMMA BacklogStep ==
  ASSUME IInv, IInv', [Next]_vars, NoIdleWhileBacklog
  PROVE  NoIdleWhileBacklog'
<1> USE DEF IInv, TypeOK, queueVars, workerVars, serverVars, historyVars,
            Awake, Asleep, Backlog, Enqueued
<1>1. ASSUME NEW w \in Worker,
             \/ LockJobs(w) \/ TestQueue(w) \/ TestTerminate(w)
             \/ WakeSpuriously(w) \/ CheckTerminate(w) \/ HandleJob(w)
      PROVE  NoIdleWhileBacklog'
  <2>1. Awake \subseteq Awake' /\ (Asleep' # {} => Asleep # {})
    BY <1>1 DEF LockJobs, TestQueue, TestTerminate, WakeSpuriously,
                CheckTerminate, HandleJob
  <2>2. Backlog' = Backlog
    BY <1>1 DEF LockJobs, TestQueue, TestTerminate, WakeSpuriously,
                CheckTerminate, HandleJob
  <2> QED
    BY <2>1, <2>2, MoreAwake
<1>2. ASSUME \/ CreateJob \/ LoopExit \/ SetTerminate \/ JoinWorker
             \/ FreeJob \/ FreePool \/ UNCHANGED vars
      PROVE  NoIdleWhileBacklog'
  <2>1. Awake' = Awake /\ Asleep' = Asleep
    BY <1>2 DEF CreateJob, LoopExit, SetTerminate, JoinWorker, FreeJob,
                FreePool, vars
  <2>2. jobFirst' = jobFirst /\ Enqueued' = Enqueued
    <3>1. CASE CreateJob
      BY <3>1 DEF CreateJob
    <3> QED
      BY <1>2, <3>1 DEF LoopExit, SetTerminate, JoinWorker, FreeJob, FreePool,
                        vars
  <2> QED
    BY <2>1, <2>2, MoreAwake
<1>3. CASE StartWorker
  <2>1. Awake \subseteq Awake' /\ (Asleep' # {} => Asleep # {})
    BY <1>3 DEF StartWorker, ServerInv
  <2>2. Backlog' = Backlog
    BY <1>3 DEF StartWorker
  <2> QED
    BY <2>1, <2>2, MoreAwake
<1>4. CASE Broadcast
  BY <1>4 DEF Broadcast, NoIdleWhileBacklog
<1> QED
  BY <1>1, <1>2, <1>3, <1>4, TakeJobBacklog, AddJobBacklog, SleepBacklog
  DEF Next, WorkerStep, ServerStep, Terminated

\* The condition variable never loses a wake-up: with a sleeping worker, every
\* job in the queue has a worker on its way to it.
THEOREM NoLostWakeUp == Spec => []NoIdleWhileBacklog
<1>1. Init => NoIdleWhileBacklog
  BY DEF Init, NoIdleWhileBacklog, Asleep
<1> QED
  BY <1>1, BacklogStep, InitInv, NextInv, PTL DEF Spec

-----------------------------------------------------------------------------
(* The pool implements JobDispatch *)

USE DEF Left, Serving, Abandoned, Taken

\* The pool starts as JobDispatch starts.
LEMMA DispatchInit == Init => Dispatch!Init
BY DEF Init, Dispatch!Init, Dispatch!Worker, Dispatch!Nobody, Enqueued,
       Stopping

\* What a worker does before it takes a job is invisible to JobDispatch.
LEMMA QuietWorker ==
  ASSUME IInv, NEW w \in Worker,
         \/ LockJobs(w) \/ TestQueue(w) \/ TestTerminate(w) \/ Sleep(w)
         \/ WakeSpuriously(w)
  PROVE  UNCHANGED Dispatch!dvars
<1> USE DEF LockJobs, TestQueue, TestTerminate, Sleep, WakeSpuriously,
            queueVars, serverVars, historyVars
<1>1. UNCHANGED <<jobFirst, job, serverPc, cursor, created, handled, freed>>
  OBVIOUS
<1>2. \A v \in Worker : pc'[v] = "exited" <=> pc[v] = "exited"
  BY DEF IInv, TypeOK
<1>3. UNCHANGED Serving
  BY <1>1, <1>2, Zenon DEF Serving
<1>4. UNCHANGED Abandoned
  BY <1>1, <1>2, Zenon DEF Abandoned
<1>5. UNCHANGED <<Enqueued, Left, handled, Stopping>>
  BY <1>1 DEF Left, Taken, Enqueued, Stopping
<1> QED
  BY <1>3, <1>4, <1>5, Zenon DEF Dispatch!dvars

\* Unlinking the first job is Take, or nothing when the queue is empty.
LEMMA TakeRefines ==
  ASSUME IInv, NEW w \in Worker, TakeJob(w)
  PROVE  Dispatch!Take(w) \/ UNCHANGED Dispatch!dvars
<1> USE DEF IInv, TypeOK, TakeJob, UnlinkFirst, serverVars, historyVars,
            ControlInv, ServerInv, QueueChain, Enqueued, Stopping
<1>1. CASE jobFirst = NULL
  BY <1>1 DEF Dispatch!dvars
<1>2. CASE jobFirst # NULL
  <2>1. serverPc \notin {"free", "done"} /\ pc[w] # "exited" /\ job[w] = NULL
    OBVIOUS
  <2>2. (IF jobFirst' = NULL THEN Enqueued ELSE jobFirst' - 1) = jobFirst
    BY <1>2
  <2>3. Serving' = [Serving EXCEPT ![w] = jobFirst] /\ Serving[w] = NULL
    BY <1>2, <2>1 DEF Serving
  <2>4. Abandoned' = Abandoned
    BY <2>1 DEF Abandoned
  <2>5. UNCHANGED <<Enqueued, handled, Stopping>>
    OBVIOUS
  <2>6. Left = jobFirst - 1 /\ Left' = jobFirst /\ jobFirst <= Enqueued
    BY <1>2, <2>1, <2>2
  <2>7. jobFirst \in Nat /\ Enqueued \in Int
    OBVIOUS
  <2> HIDE DEF IInv, TypeOK, TakeJob, UnlinkFirst, ControlInv, ServerInv,
               QueueChain, Enqueued, Stopping, Left, Serving, Abandoned, Taken
  <2>8. Left + 1 = jobFirst /\ Left < Enqueued
    BY <2>6, <2>7
  <2> QED
    BY <2>3, <2>4, <2>5, <2>6, <2>8 DEF Dispatch!Take, Dispatch!Nobody
<1> QED
  BY <1>1, <1>2

\* A stopped worker abandons the job it took, if it took one.
LEMMA CheckRefines ==
  ASSUME IInv, NEW w \in Worker, CheckTerminate(w)
  PROVE  Dispatch!Abandon(w) \/ UNCHANGED Dispatch!dvars
<1> USE DEF IInv, TypeOK, CheckTerminate, queueVars, serverVars, historyVars,
            ServerInv, Enqueued, Stopping
<1>1. CASE terminate[w] /\ job[w] # NULL
  <2>1. Serving' = [Serving EXCEPT ![w] = NULL] /\ Serving[w] = job[w]
    BY <1>1 DEF Serving
  <2>2. Abandoned' = Abandoned \union {job[w]}
    BY <1>1 DEF Abandoned
  <2>3. /\ Stopping
        /\ UNCHANGED <<Enqueued, handled, Stopping, serverPc>>
        /\ UNCHANGED <<cursor, jobFirst>>
    BY <1>1
  <2> QED
    BY <1>1, <2>1, <2>2, <2>3
    DEF Dispatch!Abandon, Dispatch!Nobody, Serving, Abandoned
<1>2. CASE terminate[w] /\ job[w] = NULL
  BY <1>2 DEF Dispatch!dvars
<1>3. CASE ~terminate[w]
  BY <1>3 DEF Dispatch!dvars
<1> QED
  BY <1>1, <1>2, <1>3

\* The return of jobHandler is Finish.
LEMMA HandleRefines ==
  ASSUME IInv, NEW w \in Worker, HandleJob(w)
  PROVE  Dispatch!Finish(w)
<1> USE DEF IInv, TypeOK, HandleJob, queueVars, serverVars, ControlInv,
            ServerInv, JobInv, Enqueued, Stopping
<1>1. Serving' = [Serving EXCEPT ![w] = NULL] /\ Serving[w] = job[w]
  BY DEF Serving
<1>2. Abandoned' = Abandoned
  BY DEF Abandoned
<1>3. /\ handled' = handled \union {job[w]} /\ job[w] # NULL
      /\ UNCHANGED <<Enqueued, Stopping, serverPc, cursor, jobFirst>>
  OBVIOUS
<1> QED
  BY <1>1, <1>2, <1>3
  DEF Dispatch!Finish, Dispatch!Nobody, Serving, Abandoned


\* Starting, stopping and joining threads is invisible, and so is a job that
\* is created and not yet added.
LEMMA QuietServer ==
  ASSUME IInv, \/ StartWorker \/ CreateJob \/ SetTerminate \/ Broadcast
               \/ JoinWorker \/ FreePool \/ UNCHANGED vars
  PROVE  UNCHANGED Dispatch!dvars
<1> USE DEF IInv, TypeOK, queueVars, workerVars, serverVars, historyVars,
            ServerInv, Enqueued, Stopping, Dispatch!dvars
<1>1. CASE StartWorker
  BY <1>1 DEF StartWorker
<1>2. CASE CreateJob
  BY <1>2 DEF CreateJob
<1>3. CASE SetTerminate
  BY <1>3 DEF SetTerminate
<1>4. CASE Broadcast
  BY <1>4 DEF Broadcast, Asleep
<1>5. CASE JoinWorker
  BY <1>5 DEF JoinWorker
<1>6. CASE FreePool
  BY <1>6 DEF FreePool
<1>7. CASE UNCHANGED vars
  BY <1>7 DEF vars
<1> QED
  BY <1>1, <1>2, <1>3, <1>4, <1>5, <1>6, <1>7

\* workerPool_addJob is Submit.
LEMMA AddRefines ==
  ASSUME IInv, AddJob
  PROVE  Dispatch!Submit
BY DEF IInv, TypeOK, AddJob, Append, SignalOne, Asleep, historyVars, ServerInv,
       QueueChain, ControlInv, Enqueued, Stopping, Dispatch!Submit

\* The end of the event loop is Stop.
LEMMA StopRefines == ASSUME IInv, LoopExit PROVE Dispatch!Stop
BY DEF IInv, TypeOK, LoopExit, queueVars, workerVars, historyVars, Enqueued,
       Stopping, Dispatch!Stop

\* workerPool_free discards the oldest job of the backlog.
LEMMA FreeRefines == ASSUME IInv, FreeJob PROVE Dispatch!Discard
BY DEF IInv, TypeOK, FreeJob, queueVars, workerVars, ServerInv, JobInv,
       QueueChain, Backlog, Taken, Enqueued, Stopping, Dispatch!Discard,
       Dispatch!Worker, Dispatch!Nobody

\* Every step of the pool is a step of JobDispatch or a stutter.
LEMMA DispatchStep ==
  ASSUME IInv, [Next]_vars
  PROVE  [Dispatch!Next]_(Dispatch!dvars)
BY QuietWorker, TakeRefines, CheckRefines, HandleRefines, QuietServer,
   AddRefines, StopRefines, FreeRefines
DEF Next, WorkerStep, ServerStep, Terminated, Dispatch!Next, Dispatch!Worker

\* Jobs are taken in the order of their submission, each by one free worker,
\* and abandoned only when the server stops.
THEOREM Refinement == Spec => ImplementsDispatch
BY DispatchInit, DispatchStep, InitInv, NextInv, PTL
DEF Spec, ImplementsDispatch, Dispatch!Spec

=============================================================================
