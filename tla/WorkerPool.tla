------------------------------ MODULE WorkerPool ------------------------------
(***************************************************************************)
(* The worker pool of src/thread.c and the server thread that drives it    *)
(* (server_run in src/socket.c): the job queue is a linked list of Job     *)
(* structures behind jobMutex and jobCondition, every worker runs          *)
(* worker_function, and the server thread starts the workers, adds jobs,   *)
(* stops, joins and frees the pool.                                        *)
(*                                                                         *)
(* A Job is named by the position of its createJob call, so that the FIFO  *)
(* order can be stated; the code knows only the pointers jobFirst, jobLast *)
(* and nextJob.  A step of a thread is what no other thread can see the    *)
(* middle of: a whole region under jobMutex when it reads nothing that is  *)
(* not protected by jobMutex, and one access to a terminate flag (which    *)
(* has a read-write lock of its own) otherwise.                            *)
(***************************************************************************)
EXTENDS Integers, FiniteSets

CONSTANTS
  NumWorkers,    \* count of createWorkerPool
  MaxJobs,       \* bound: connections accepted in one life of the server
  MaxSpurious    \* bound: wake-ups of pthread_cond_wait without a signal

ASSUME PoolAssumption ==
  /\ NumWorkers \in Nat \ {0}     \* createWorkerPool refuses less than 1
  /\ MaxJobs \in Nat
  /\ MaxSpurious \in Nat

Worker == 1..NumWorkers           \* in the order of workerList
Job == 1..MaxJobs
NULL == 0

VARIABLES
  jobFirst, jobLast, nextJob,     \* the queue: WorkerPool and Job
  jobMutex,                       \* the worker that owns it, or NULL
  terminate,                      \* Worker.terminate
  pc, job,                        \* of worker_function: control, local job
  serverPc, cursor,               \* of server_run: control, loop pointer
  created,                        \* number of createJob calls
  handled,                        \* jobs whose jobHandler call returned
  freed,                          \* jobs given to job_free
  spurious                        \* spurious wake-ups so far

queueVars == <<jobFirst, jobLast, nextJob>>
workerVars == <<pc, job>>
serverVars == <<serverPc, cursor, created>>
historyVars == <<handled, freed>>
vars == <<queueVars, jobMutex, terminate, workerVars, serverVars,
          historyVars, spurious>>

-----------------------------------------------------------------------------
\* createWorkerPool, as server_run finds it.
Init ==
  /\ jobFirst = NULL
  /\ jobLast = NULL
  /\ nextJob = [j \in Job |-> NULL]
  /\ jobMutex = NULL
  /\ terminate = [w \in Worker |-> FALSE]
  /\ pc = [w \in Worker |-> "unborn"]
  /\ job = [w \in Worker |-> NULL]
  /\ serverPc = "start"
  /\ cursor = 1
  /\ created = 0
  /\ handled = {}
  /\ freed = {}
  /\ spurious = 0

Asleep == {w \in Worker : pc[w] = "asleep"}

-----------------------------------------------------------------------------
(* worker_function *)

\* safeMutexLock at the head of the loop, and the lock pthread_cond_wait
\* takes again before it returns: both lead to the test of jobFirst.
LockJobs(w) ==
  /\ pc[w] = "lock"
  /\ jobMutex = NULL
  /\ jobMutex' = w
  /\ pc' = [pc EXCEPT ![w] = "test"]
  /\ UNCHANGED <<queueVars, terminate, job, serverVars, historyVars, spurious>>

\* while (NULL == jobFirst)
TestQueue(w) ==
  /\ pc[w] = "test"
  /\ pc' = [pc EXCEPT ![w] = IF jobFirst = NULL THEN "idle" ELSE "take"]
  /\ UNCHANGED <<queueVars, jobMutex, terminate, job, serverVars,
                 historyVars, spurious>>

\* if (worker_shouldTerminate(worker)) break;
TestTerminate(w) ==
  /\ pc[w] = "idle"
  /\ pc' = [pc EXCEPT ![w] = IF terminate[w] THEN "take" ELSE "sleep"]
  /\ UNCHANGED <<queueVars, jobMutex, terminate, job, serverVars,
                 historyVars, spurious>>

\* pthread_cond_wait: joins the wait set and releases jobMutex atomically.
Sleep(w) ==
  /\ pc[w] = "sleep"
  /\ jobMutex' = NULL
  /\ pc' = [pc EXCEPT ![w] = "asleep"]
  /\ UNCHANGED <<queueVars, terminate, job, serverVars, historyVars, spurious>>

\* pthread_cond_wait may return without a signal.
WakeSpuriously(w) ==
  /\ pc[w] = "asleep"
  /\ spurious < MaxSpurious
  /\ spurious' = spurious + 1
  /\ pc' = [pc EXCEPT ![w] = "lock"]
  /\ UNCHANGED <<queueVars, jobMutex, terminate, job, serverVars, historyVars>>

\* Faulty variants: the last job leaves jobLast behind; the job is read and
\* left in the queue.
UnlinkFirstOnly ==
  /\ jobFirst' = IF jobFirst = jobLast THEN NULL ELSE nextJob[jobFirst]
  /\ UNCHANGED jobLast

UnlinkNothing == UNCHANGED <<jobFirst, jobLast>>

\* The job leaves the queue.
UnlinkFirst ==
  IF jobFirst = jobLast
  THEN jobFirst' = NULL /\ jobLast' = NULL
  ELSE jobFirst' = nextJob[jobFirst] /\ UNCHANGED jobLast

\* job = jobFirst, unlinked when there is one; then safeMutexUnlock.
TakeJob(w) ==
  /\ pc[w] = "take"
  /\ job' = [job EXCEPT ![w] = jobFirst]
  /\ \/ jobFirst # NULL /\ UnlinkFirst
     \/ jobFirst = NULL /\ UNCHANGED <<jobFirst, jobLast>>
  /\ jobMutex' = NULL
  /\ pc' = [pc EXCEPT ![w] = "check"]
  /\ UNCHANGED <<nextJob, terminate, serverVars, historyVars, spurious>>

\* The second worker_shouldTerminate, outside the mutex: a job taken just
\* before is left behind, neither handled nor freed.
CheckTerminate(w) ==
  /\ pc[w] = "check"
  /\ pc' = [pc EXCEPT ![w] = IF terminate[w] THEN "exited"
                             ELSE IF job[w] = NULL THEN "lock" ELSE "handle"]
  /\ UNCHANGED <<queueVars, jobMutex, terminate, job, serverVars,
                 historyVars, spurious>>

\* jobHandler(job->userData) returns, then job_free(job).
HandleJob(w) ==
  /\ pc[w] = "handle"
  /\ handled' = handled \union {job[w]}
  /\ freed' = freed \union {job[w]}
  /\ job' = [job EXCEPT ![w] = NULL]
  /\ pc' = [pc EXCEPT ![w] = "lock"]
  /\ UNCHANGED <<queueVars, jobMutex, terminate, serverVars, spurious>>

-----------------------------------------------------------------------------
(* server_run *)

\* The loop of workerPool_start: one pthread_create.
StartWorker ==
  /\ serverPc = "start"
  /\ pc' = [pc EXCEPT ![cursor] = "lock"]
  /\ \/ cursor < NumWorkers /\ cursor' = cursor + 1 /\ UNCHANGED serverPc
     \/ cursor = NumWorkers /\ cursor' = 1 /\ serverPc' = "run"
  /\ UNCHANGED <<queueVars, jobMutex, terminate, job, created,
                 historyVars, spurious>>

\* connection_accept, up to createJob.
CreateJob ==
  /\ serverPc = "run"
  /\ created < MaxJobs
  /\ created' = created + 1
  /\ nextJob' = [nextJob EXCEPT ![created + 1] = NULL]
  /\ serverPc' = "add"
  /\ UNCHANGED <<jobFirst, jobLast, jobMutex, terminate, workerVars, cursor,
                 historyVars, spurious>>

\* Faulty variant: nobody is woken.
SignalNobody == UNCHANGED pc

\* pthread_cond_signal: wakes one of the threads that wait, if any does.
SignalOne ==
  \/ \E w \in Asleep : pc' = [pc EXCEPT ![w] = "lock"]
  \/ Asleep = {} /\ UNCHANGED pc

\* Faulty variant: the job is put at the front of the list.
Prepend(j) ==
  /\ nextJob' = [nextJob EXCEPT ![j] = jobFirst]
  /\ jobFirst' = j
  /\ jobLast' = IF jobLast = NULL THEN j ELSE jobLast

\* The list part of workerPool_addJob.
Append(j) ==
  /\ \/ /\ jobLast # NULL
        /\ nextJob' = [nextJob EXCEPT ![jobLast] = j]
        /\ UNCHANGED jobFirst
     \/ /\ jobLast = NULL
        /\ jobFirst' = j
        /\ UNCHANGED nextJob
  /\ jobLast' = j

\* workerPool_addJob: lock, append, signal, unlock.
AddJob ==
  /\ serverPc = "add"
  /\ jobMutex = NULL
  /\ Append(created)
  /\ SignalOne
  /\ serverPc' = "run"
  /\ UNCHANGED <<jobMutex, terminate, job, cursor, created,
                 historyVars, spurious>>

\* event_base_dispatch returns.
LoopExit ==
  /\ serverPc = "run"
  /\ serverPc' = "stop"
  /\ cursor' = 1
  /\ UNCHANGED <<queueVars, jobMutex, terminate, workerVars, created,
                 historyVars, spurious>>

\* The loop of workerPool_stop: one worker_setTerminate.
SetTerminate ==
  /\ serverPc = "stop"
  /\ terminate' = [terminate EXCEPT ![cursor] = TRUE]
  /\ cursor' = cursor + 1
  /\ serverPc' = IF cursor = NumWorkers THEN "broadcast" ELSE "stop"
  /\ UNCHANGED <<queueVars, jobMutex, workerVars, created,
                 historyVars, spurious>>

\* Faulty variant: only one of the threads that wait is woken.
SignalOnStop ==
  /\ serverPc = "broadcast"
  /\ jobMutex = NULL
  /\ SignalOne
  /\ serverPc' = "join"
  /\ cursor' = 1
  /\ UNCHANGED <<queueVars, jobMutex, terminate, job, created,
                 historyVars, spurious>>

\* pthread_cond_broadcast under jobMutex: everyone asleep is woken.
Broadcast ==
  /\ serverPc = "broadcast"
  /\ jobMutex = NULL
  /\ pc' = [w \in Worker |-> IF w \in Asleep THEN "lock" ELSE pc[w]]
  /\ serverPc' = "join"
  /\ cursor' = 1
  /\ UNCHANGED <<queueVars, jobMutex, terminate, job, created,
                 historyVars, spurious>>

\* The loop of workerPool_join: one pthread_join; after the last one
\* workerPool_free begins its walk of the queue at jobFirst.
JoinWorker ==
  /\ serverPc = "join"
  /\ pc[cursor] = "exited"
  /\ \/ cursor < NumWorkers /\ cursor' = cursor + 1 /\ UNCHANGED serverPc
     \/ cursor = NumWorkers /\ cursor' = jobFirst /\ serverPc' = "free"
  /\ UNCHANGED <<queueVars, jobMutex, terminate, workerVars, created,
                 historyVars, spurious>>

\* The loop of workerPool_free: one job_free, nextJob read before it.
FreeJob ==
  /\ serverPc = "free"
  /\ cursor # NULL
  /\ freed' = freed \union {cursor}
  /\ cursor' = nextJob[cursor]
  /\ UNCHANGED <<queueVars, jobMutex, terminate, workerVars, serverPc,
                 created, handled, spurious>>

FreePool ==
  /\ serverPc = "free"
  /\ cursor = NULL
  /\ serverPc' = "done"
  /\ UNCHANGED <<queueVars, jobMutex, terminate, workerVars, cursor, created,
                 historyVars, spurious>>

\* server_run returned: nothing is left to do.
Terminated ==
  /\ serverPc = "done"
  /\ UNCHANGED vars

-----------------------------------------------------------------------------
WorkerStep(w) ==
  \/ LockJobs(w)
  \/ TestQueue(w)
  \/ TestTerminate(w)
  \/ Sleep(w)
  \/ TakeJob(w)
  \/ CheckTerminate(w)
  \/ HandleJob(w)

\* What the server thread does of its own accord; CreateJob and LoopExit
\* answer to clients and to signals.
ServerStep ==
  \/ StartWorker
  \/ AddJob
  \/ SetTerminate
  \/ Broadcast
  \/ JoinWorker
  \/ FreeJob
  \/ FreePool

Next ==
  \/ \E w \in Worker : WorkerStep(w) \/ WakeSpuriously(w)
  \/ ServerStep
  \/ CreateJob
  \/ LoopExit
  \/ Terminated

Spec == Init /\ [][Next]_vars

\* Every thread that can run is scheduled, and a job handler returns: a
\* connection ends when its client closes it, by its timeout or by an error.
\* Nothing makes a client connect or the server stop.
FairSpec ==
  /\ Spec
  /\ \A w \in Worker : WF_vars(WorkerStep(w))
  /\ WF_vars(ServerStep)

-----------------------------------------------------------------------------
(* Properties *)

\* Jobs that workerPool_addJob has put in the queue: the first Enqueued.
Enqueued == IF serverPc = "add" THEN created - 1 ELSE created

\* The event loop is over.
Stopping == serverPc \notin {"start", "run", "add"}

\* The jobs still queued, if the list is what it should be.
Backlog == IF jobFirst = NULL THEN {} ELSE jobFirst..Enqueued

\* How many jobs the workers have taken: the first Taken.
Taken == IF jobFirst = NULL THEN Enqueued ELSE jobFirst - 1

\* Workers on their way to the queue: they hold no job and do not sleep.
Awake == {w \in Worker : pc[w] \in {"lock", "test", "idle", "sleep", "take"}}

TypeOK ==
  /\ jobFirst \in Job \union {NULL}
  /\ jobLast \in Job \union {NULL}
  /\ nextJob \in [Job -> Job \union {NULL}]
  /\ jobMutex \in Worker \union {NULL}
  /\ terminate \in [Worker -> BOOLEAN]
  /\ pc \in [Worker -> {"unborn", "lock", "test", "idle", "sleep", "asleep",
                        "take", "check", "handle", "exited"}]
  /\ job \in [Worker -> Job \union {NULL}]
  /\ serverPc \in {"start", "run", "add", "stop", "broadcast", "join",
                   "free", "done"}
  /\ cursor \in Nat
  /\ created \in 0..MaxJobs
  /\ handled \subseteq Job
  /\ freed \subseteq Job
  /\ spurious \in 0..MaxSpurious

\* The nextJob chain from jobFirst visits the queued jobs in the order of
\* their addJob calls, ends in jobLast, and jobLast is the newest of them
\* (the bookkeeping of workerPool_addJob and of worker_function's unlink).
QueueChain ==
  /\ jobFirst = NULL <=> jobLast = NULL
  /\ jobFirst # NULL =>
       /\ jobLast = Enqueued
       /\ jobFirst <= jobLast
       /\ \A j \in Job : jobFirst <= j /\ j < jobLast => nextJob[j] = j + 1
       /\ nextJob[jobLast] = NULL

\* A job is in one place at a time: two workers never hold the same job, no
\* held job is still queued, and a freed Job structure is neither held nor
\* queued, except that workerPool_free has no successor (worker_function
\* frees what it took and nothing else does while workers live).
OneOwner ==
  /\ \A v, w \in Worker : v # w /\ job[v] # NULL => job[v] # job[w]
  /\ \A w \in Worker : job[w] # NULL => job[w] \notin Backlog \union freed
  /\ serverPc \notin {"free", "done"} =>
       freed = handled /\ Backlog \cap freed = {}

\* While a worker sleeps there are at least as many workers on their way to
\* the queue as jobs in it: no job waits for a signal that was lost or was
\* spent on a worker that found the queue empty (signal in workerPool_addJob
\* against the test and wait in worker_function).
NoIdleWhileBacklog ==
  Asleep # {} => Cardinality(Backlog) <= Cardinality(Awake)

\* After the broadcast of workerPool_stop no worker sleeps or is about to:
\* none of them can miss its terminate flag, although the flag is set
\* without jobMutex.
NobodySleepsThroughStop ==
  serverPc \in {"join", "free", "done"} =>
    \A w \in Worker : pc[w] \notin {"sleep", "asleep"}

\* The state of JobDispatch, read off the pool: jobs leave the backlog when a
\* worker takes them or workerPool_free reaches them, and a job is abandoned
\* when it is freed unserved or its worker exits holding it.
Left == IF serverPc \in {"free", "done"}
        THEN (IF cursor = NULL THEN Enqueued ELSE cursor - 1)
        ELSE Taken
Serving == [w \in Worker |-> IF pc[w] = "exited" THEN NULL ELSE job[w]]
Abandoned ==
  (freed \ handled) \union
  {j \in Job : \E w \in Worker : pc[w] = "exited" /\ job[w] = j}

Dispatch == INSTANCE JobDispatch WITH
  submitted <- Enqueued,
  taken     <- Left,
  serving   <- Serving,
  served    <- handled,
  abandoned <- Abandoned,
  stopping  <- Stopping

\* The pool implements JobDispatch: submissions are taken in FIFO order, each
\* by one worker, and jobs are abandoned only after workerPool_stop.
ImplementsDispatch == Dispatch!Spec

\* What a step needs to know beyond the properties above: who is inside the
\* region of jobMutex and what he saw there,
ControlInv ==
  /\ \A w \in Worker :
       jobMutex = w <=> pc[w] \in {"test", "idle", "sleep", "take"}
  /\ \A w \in Worker : pc[w] \in {"idle", "sleep"} => jobFirst = NULL
  /\ \A w \in Worker : pc[w] = "take" => jobFirst # NULL \/ terminate[w]
  /\ \A w \in Worker : job[w] # NULL => pc[w] \in {"check", "handle", "exited"}
  /\ \A w \in Worker : pc[w] = "handle" => job[w] # NULL

\* how far each loop of the server thread has come,
ServerInv ==
  /\ serverPc = "start" =>
       cursor \in Worker /\ \A w \in Worker : pc[w] = "unborn" <=> w >= cursor
  /\ serverPc # "start" => \A w \in Worker : pc[w] # "unborn"
  /\ ~Stopping => \A w \in Worker : ~terminate[w]
  /\ serverPc = "stop" =>
       cursor \in Worker /\ \A w \in Worker : terminate[w] <=> w < cursor
  /\ Stopping /\ serverPc # "stop" => \A w \in Worker : terminate[w]
  /\ \A w \in Worker : pc[w] = "exited" => terminate[w]
  /\ serverPc = "join" =>
       cursor \in Worker /\ \A w \in Worker : w < cursor => pc[w] = "exited"
  /\ serverPc \in {"free", "done"} => \A w \in Worker : pc[w] = "exited"
  /\ serverPc = "add" => created \in Job /\ nextJob[created] = NULL

\* and which jobs have left the queue.
JobInv ==
  /\ \A w \in Worker : job[w] <= Taken /\ job[w] \notin handled
  /\ \A v, w \in Worker : v # w /\ job[v] # NULL => job[v] # job[w]
  /\ \A j \in handled : j <= Taken
  /\ serverPc \notin {"free", "done"} => freed = handled
  /\ serverPc = "free" /\ cursor # NULL =>
       cursor \in Backlog /\ freed = handled \union (jobFirst..(cursor - 1))
  /\ serverPc \in {"free", "done"} /\ cursor = NULL =>
       freed = handled \union Backlog
  /\ serverPc = "done" => cursor = NULL

\* The inductive invariant of the proofs.
IInv ==
  /\ TypeOK
  /\ ControlInv
  /\ ServerInv
  /\ QueueChain
  /\ JobInv
  /\ NobodySleepsThroughStop

\* Every accepted connection is served to its end, unless the server stops
\* first: no job is forgotten in the queue (worker_function, addJob).
EveryJobServed ==
  \A j \in Job : (j <= Enqueued) ~> (j \in handled \/ Stopping)

\* Once server_run has left its event loop it returns: every worker notices
\* terminate, is joined, and the pool is freed (workerPool_stop, _join, _free).
StopCompletes == (serverPc = "stop") ~> (serverPc = "done")

=============================================================================
