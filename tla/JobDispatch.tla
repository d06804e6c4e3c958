----------------------------- MODULE JobDispatch -----------------------------
(***************************************************************************)
(* What the worker pool promises to the server, without threads, locks or  *)
(* pointers: connections are numbered in the order they were submitted, a  *)
(* free worker takes the oldest one that nobody took, serves it to its end *)
(* before it takes another, and a connection is abandoned only once the    *)
(* pool was told to stop.  WorkerPool implements this.                     *)
(***************************************************************************)
EXTENDS Integers

CONSTANTS NumWorkers, MaxJobs

Worker == 1..NumWorkers
Job == 1..MaxJobs
Nobody == 0

VARIABLES
  submitted,   \* how many jobs were submitted: the jobs are 1..submitted
  taken,       \* how many of them left the backlog: the jobs 1..taken
  serving,     \* the job each worker serves, or Nobody
  served,      \* the jobs served to their end
  abandoned,   \* the jobs that left the backlog and will never be served
  stopping     \* the pool was told to stop

dvars == <<submitted, taken, serving, served, abandoned, stopping>>

Init ==
  /\ submitted = 0
  /\ taken = 0
  /\ serving = [w \in Worker |-> Nobody]
  /\ served = {}
  /\ abandoned = {}
  /\ stopping = FALSE

Submit ==
  /\ ~stopping
  /\ submitted < MaxJobs
  /\ submitted' = submitted + 1
  /\ UNCHANGED <<taken, serving, served, abandoned, stopping>>

Take(w) ==
  /\ serving[w] = Nobody
  /\ taken < submitted
  /\ taken' = taken + 1
  /\ serving' = [serving EXCEPT ![w] = taken + 1]
  /\ UNCHANGED <<submitted, served, abandoned, stopping>>

Finish(w) ==
  /\ serving[w] # Nobody
  /\ served' = served \union {serving[w]}
  /\ serving' = [serving EXCEPT ![w] = Nobody]
  /\ UNCHANGED <<submitted, taken, abandoned, stopping>>

Stop ==
  /\ ~stopping
  /\ stopping' = TRUE
  /\ UNCHANGED <<submitted, taken, serving, served, abandoned>>

\* A stopped worker leaves with a job it had taken and not begun to serve.
Abandon(w) ==
  /\ stopping
  /\ serving[w] # Nobody
  /\ abandoned' = abandoned \union {serving[w]}
  /\ serving' = [serving EXCEPT ![w] = Nobody]
  /\ UNCHANGED <<submitted, taken, served, stopping>>

\* The stopped pool discards what is left of the backlog, oldest first,
\* and only when no worker serves anything.
Discard ==
  /\ stopping
  /\ \A w \in Worker : serving[w] = Nobody
  /\ taken < submitted
  /\ taken' = taken + 1
  /\ abandoned' = abandoned \union {taken + 1}
  /\ UNCHANGED <<submitted, serving, served, stopping>>

Next ==
  \/ Submit
  \/ Stop
  \/ Discard
  \/ \E w \in Worker : Take(w) \/ Finish(w) \/ Abandon(w)

Spec == Init /\ [][Next]_dvars

=============================================================================
