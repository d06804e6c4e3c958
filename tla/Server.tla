-------------------------------- MODULE Server --------------------------------
(***************************************************************************)
(* The socket server of src/socket.c above the worker pool: connections    *)
(* are accepted by the event loop of server_run and become jobs; a worker  *)
(* serves one by running the event loop of the connection, where the       *)
(* callbacks for requests, for the end of the connection and for its read  *)
(* timeout run; SIGINT or server_stop leave the server's loop, and         *)
(* server_run stops, joins and frees the pool.                             *)
(*                                                                         *)
(* The pool is what JobDispatch promises (and WorkerPool implements); its  *)
(* variables are those of JobDispatch.  A connection is named by its place *)
(* in the order of connect, which is the order of accept and of submission.*)
(* A callback is one step: a connection's event loop runs in one thread,   *)
(* and its base, bufferevent and contexts are reached from nowhere else.   *)
(***************************************************************************)
EXTENDS Integers

CONSTANTS
  NumWorkers,     \* count of createWorkerPool
  MaxJobs,        \* bound: connections in one life of the server
  MaxRequests,    \* bound: requests of all clients: none talks for ever
  ClientTimeout   \* whether ServerConfig.clientTimeout is set

ASSUME ServerAssumption ==
  /\ NumWorkers \in Nat \ {0}
  /\ MaxJobs \in Nat
  /\ MaxRequests \in Nat
  /\ ClientTimeout \in BOOLEAN

VARIABLES
  submitted, taken, serving, served, abandoned, stopping,  \* JobDispatch
  serverPc,     \* of server_run: where it is
  leaving,      \* event_base_loopexit was called on the server's base
  told,         \* workers whose terminate flag is set
  exited,       \* workers that left worker_function
  connection,   \* of each client: how far its connection is
  open,         \* the clients that have not closed their end
  unread,       \* of each client: its requests that wait in the socket
  requests,     \* requests sent so far
  expired,      \* the connections whose read timer has fired
  contexts,     \* connections whose HandlerContext is allocated
  bases,        \* connections whose EventBase is allocated
  alive         \* the process runs

Pool == INSTANCE JobDispatch

Worker == 1..NumWorkers
Connection == 1..MaxJobs
Nobody == 0

poolVars == <<submitted, taken, serving, served, abandoned, stopping>>
threadVars == <<serverPc, leaving, told, exited>>
clientVars == <<open, unread, requests>>
heapVars == <<contexts, bases>>
vars == <<poolVars, threadVars, clientVars, connection, expired, heapVars,
          alive>>

\* "backlog": connected, not accepted; "queued": accepted, no worker runs its
\* event base; "dispatched": one does; "ended": connection_event has run in
\* it; "left": event_base_dispatch has returned; "reset": the listener was
\* closed before the connection was accepted.
Phase == {"absent", "backlog", "queued", "dispatched", "ended", "left",
          "reset"}

Init ==
  /\ Pool!Init
  /\ serverPc = "loop"
  /\ leaving = FALSE
  /\ told = {}
  /\ exited = {}
  /\ connection = [c \in Connection |-> "absent"]
  /\ open = {}
  /\ unread = [c \in Connection |-> 0]
  /\ requests = 0
  /\ expired = {}
  /\ contexts = {}
  /\ bases = {}
  /\ alive = TRUE

-----------------------------------------------------------------------------
(* The clients and the kernel, external to the code *)

Listening == serverPc \in {"loop", "stop", "join"}

\* connect succeeds as soon as the kernel queues it: also while server_run
\* stops and joins, for the listener is freed only afterwards.
Connect(c) ==
  /\ Listening
  /\ connection[c] = "absent"
  /\ c > 1 => connection[c - 1] # "absent"
  /\ connection' = [connection EXCEPT ![c] = "backlog"]
  /\ open' = open \union {c}
  /\ UNCHANGED <<poolVars, threadVars, unread, requests, expired, heapVars,
                 alive>>

\* What a client does later the server does not see.
Connected(c) ==
  c \in open /\ connection[c] \in {"backlog", "queued", "dispatched"}

\* A whole request reaches the socket (Protocol has those in pieces).
Send(c) ==
  /\ Connected(c)
  /\ requests < MaxRequests
  /\ unread' = [unread EXCEPT ![c] = @ + 1]
  /\ requests' = requests + 1
  /\ UNCHANGED <<poolVars, threadVars, open, connection, expired, heapVars,
                 alive>>

Close(c) ==
  /\ Connected(c)
  /\ open' = open \ {c}
  /\ UNCHANGED <<poolVars, threadVars, unread, requests, connection, expired,
                 heapVars, alive>>

\* The timer of bufferevent_set_timeouts runs from bufferevent_enable in
\* connection_accept on, whether or not a worker runs the base already, and
\* starts again when something is read.
TimerExpires(c) ==
  /\ ClientTimeout
  /\ connection[c] \in {"queued", "dispatched"}
  /\ c \notin expired
  /\ expired' = expired \union {c}
  /\ UNCHANGED <<poolVars, threadVars, clientVars, connection, heapVars,
                 alive>>

-----------------------------------------------------------------------------
(* server_run *)

\* connection_accept: base, bufferevent with the timeout running, contexts,
\* and the job.
Accept(c) ==
  /\ serverPc = "loop"
  /\ c = submitted + 1
  /\ connection[c] = "backlog"
  /\ Pool!Submit
  /\ connection' = [connection EXCEPT ![c] = "queued"]
  /\ contexts' = contexts \union {c}
  /\ bases' = bases \union {c}
  /\ UNCHANGED <<threadVars, clientVars, expired, alive>>

\* signalCallback for SIGINT, and server_stop: the loop will be left after
\* serverTimeout.  It accepts until then.
Signal ==
  /\ serverPc = "loop"
  /\ ~leaving
  /\ leaving' = TRUE
  /\ UNCHANGED <<poolVars, clientVars, serverPc, told, exited, connection,
                 expired, heapVars, alive>>

\* event_base_dispatch returns once serverTimeout has passed.
LoopExits ==
  /\ serverPc = "loop"
  /\ leaving
  /\ Pool!Stop
  /\ serverPc' = "stop"
  /\ UNCHANGED <<clientVars, leaving, told, exited, connection, expired,
                 heapVars, alive>>

\* Faulty variant: server_run does not join.
DoNotJoin ==
  /\ serverPc = "join"
  /\ serverPc' = "free"
  /\ connection' = [c \in Connection |->
       IF connection[c] = "backlog" THEN "reset" ELSE connection[c]]
  /\ UNCHANGED <<poolVars, clientVars, leaving, told, exited, expired,
                 heapVars, alive>>

\* workerPool_stop: a round of its loop over the workers, and its end.
TellWorker ==
  /\ serverPc = "stop"
  /\ \/ \E w \in Worker \ told :
          /\ \A v \in Worker \ told : w <= v
          /\ told' = told \union {w}
          /\ UNCHANGED serverPc
     \/ /\ told = Worker
        /\ serverPc' = "join"
        /\ UNCHANGED told
  /\ UNCHANGED <<poolVars, clientVars, leaving, exited, connection, expired,
                 heapVars, alive>>

\* workerPool_join returns; evconnlistener_free closes the listening socket,
\* and the kernel resets who still waits there.
JoinReturns ==
  /\ serverPc = "join"
  /\ exited = Worker
  /\ serverPc' = "free"
  /\ connection' = [c \in Connection |->
       IF connection[c] = "backlog" THEN "reset" ELSE connection[c]]
  /\ UNCHANGED <<poolVars, clientVars, leaving, told, exited, expired,
                 heapVars, alive>>

\* workerPool_free: job_free of a job nobody took, which frees the Job and
\* nothing it points to; and the end of server_run.
FreePool ==
  /\ serverPc = "free"
  /\ \/ /\ Pool!Discard
        /\ UNCHANGED serverPc
     \/ /\ taken = submitted
        /\ serverPc' = "returned"
        /\ UNCHANGED poolVars
  /\ UNCHANGED <<clientVars, leaving, told, exited, connection, expired,
                 heapVars, alive>>

-----------------------------------------------------------------------------
(* A worker: worker_function and socketJobHandler *)

TakeJob(w) ==
  /\ w \notin exited
  /\ Pool!Take(w)
  /\ UNCHANGED <<threadVars, clientVars, connection, expired, heapVars, alive>>

\* The terminate flag is not set: event_base_dispatch runs the base.
Dispatch(w) ==
  /\ w \notin told
  /\ serving[w] # Nobody
  /\ connection[serving[w]] = "queued"
  /\ connection' = [connection EXCEPT ![serving[w]] = "dispatched"]
  /\ UNCHANGED <<poolVars, threadVars, clientVars, expired, heapVars, alive>>

\* The flag is set: the worker leaves with the job it took.
Abandon(w) ==
  /\ w \in told
  /\ serving[w] # Nobody
  /\ connection[serving[w]] = "queued"
  /\ Pool!Abandon(w)
  /\ exited' = exited \union {w}
  /\ UNCHANGED <<clientVars, serverPc, leaving, told, connection, expired,
                 heapVars, alive>>

\* The queue is empty and the flag is set.
Leave(w) ==
  /\ w \in told \ exited
  /\ serving[w] = Nobody
  /\ taken = submitted
  /\ exited' = exited \union {w}
  /\ UNCHANGED <<poolVars, clientVars, serverPc, leaving, told, connection,
                 expired, heapVars, alive>>

\* Faulty variants: the event callback overlooks the timeout, or frees
\* everything but the handler's context.
IgnoreTimeout(w) ==
  /\ serving[w] # Nobody
  /\ LET c == serving[w]
     IN  /\ connection[c] = "dispatched"
         /\ c \notin open
         /\ connection' = [connection EXCEPT ![c] = "ended"]
         /\ contexts' = contexts \ {c}
         /\ bases' = bases \ {c}
  /\ UNCHANGED <<poolVars, threadVars, clientVars, expired, alive>>

KeepContext(w) ==
  /\ serving[w] # Nobody
  /\ LET c == serving[w]
     IN  /\ connection[c] = "dispatched"
         /\ c \in expired \/ c \notin open
         /\ connection' = [connection EXCEPT ![c] = "ended"]
         /\ bases' = bases \ {c}
  /\ UNCHANGED <<poolVars, threadVars, clientVars, expired, contexts, alive>>

\* config->handler reads one request and answers it; the timer starts again.
\* When the timer has fired libevent reports that instead of the data.  An
\* answer to a client that has closed may raise SIGPIPE, which the server
\* does not ignore, or be buffered by TCP.
Answer(w) ==
  /\ serving[w] # Nobody
  /\ LET c == serving[w]
     IN  /\ connection[c] = "dispatched"
         /\ c \notin expired
         /\ unread[c] > 0
         /\ unread' = [unread EXCEPT ![c] = @ - 1]
         /\ alive' \in IF c \in open THEN {TRUE} ELSE BOOLEAN
  /\ UNCHANGED <<poolVars, threadVars, open, requests, connection, expired,
                 heapVars>>

\* connection_event: the connection timed out, was closed or failed.
\* bufferevent_free, event_base_loopbreak (a flag in the base),
\* event_base_free and handlerContext_free, and back to libevent.
ConnectionEvent(w) ==
  /\ serving[w] # Nobody
  /\ LET c == serving[w]
     IN  /\ connection[c] = "dispatched"
         /\ c \in expired \/ c \notin open
         /\ connection' = [connection EXCEPT ![c] = "ended"]
         /\ bases' = bases \ {c}
         /\ contexts' = contexts \ {c}
  /\ UNCHANGED <<poolVars, threadVars, clientVars, expired, alive>>

\* The callback has returned into event_base_dispatch, which finishes with
\* the event and looks for the flag of event_base_loopbreak, both in the
\* base.  If the base was freed, what it finds is left to the allocator: it
\* finds the old values and returns, or the process dies.
LoopBreaks(w) ==
  /\ serving[w] # Nobody
  /\ LET c == serving[w]
     IN  /\ connection[c] = "ended"
         /\ connection' = [connection EXCEPT ![c] = "left"]
         /\ alive' \in IF c \in bases THEN {TRUE} ELSE BOOLEAN
  /\ UNCHANGED <<poolVars, threadVars, clientVars, expired, heapVars>>

\* event_base_dispatch has returned: jobContext_free, and the handler returns.
HandlerReturns(w) ==
  /\ serving[w] # Nobody
  /\ connection[serving[w]] = "left"
  /\ Pool!Finish(w)
  /\ UNCHANGED <<threadVars, clientVars, connection, expired, heapVars, alive>>

-----------------------------------------------------------------------------
Client(c) == Connect(c) \/ Send(c) \/ Close(c)

ServerThread ==
  \/ \E c \in Connection : Accept(c)
  \/ LoopExits \/ TellWorker \/ JoinReturns \/ FreePool

WorkerThread(w) ==
  \/ TakeJob(w) \/ Dispatch(w) \/ Abandon(w) \/ Leave(w)
  \/ Answer(w) \/ ConnectionEvent(w) \/ LoopBreaks(w) \/ HandlerReturns(w)

\* server_run has returned, or the process is gone.
Over ==
  /\ serverPc = "returned" \/ ~alive
  /\ UNCHANGED vars

Next ==
  \/ /\ alive
     /\ \/ ServerThread
        \/ Signal
        \/ \E w \in Worker : WorkerThread(w)
        \/ \E c \in Connection : Client(c) \/ TimerExpires(c)
  \/ Over

Spec == Init /\ [][Next]_vars

\* Threads are scheduled and timers fire; clients and signals come when they
\* like, if at all.  No step is ever possible again after it was taken, so one
\* fairness for all threads and timers leaves out none of them.
FairSpec ==
  /\ Spec
  /\ WF_vars(alive /\ \/ ServerThread
                      \/ \E w \in Worker : WorkerThread(w)
                      \/ \E c \in Connection : TimerExpires(c))
-----------------------------------------------------------------------------
TypeOK ==
  /\ submitted \in 0..MaxJobs
  /\ taken \in 0..submitted
  /\ serving \in [Worker -> 0..MaxJobs]
  /\ served \subseteq Connection
  /\ abandoned \subseteq Connection
  /\ stopping \in BOOLEAN
  /\ serverPc \in {"loop", "stop", "join", "free", "returned"}
  /\ leaving \in BOOLEAN
  /\ told \subseteq Worker
  /\ exited \subseteq Worker
  /\ connection \in [Connection -> Phase]
  /\ open \subseteq Connection
  /\ unread \in [Connection -> 0..MaxRequests]
  /\ requests \in 0..MaxRequests
  /\ expired \subseteq Connection
  /\ contexts \subseteq Connection
  /\ bases \subseteq Connection
  /\ alive \in BOOLEAN

\* After server_run has returned the caller frees the automaton, the handler
\* data and the configuration (cmd/main.c, example/main.c): no callback may
\* be running then, nor run later.
QuietAfterReturn ==
  serverPc = "returned" => /\ \A w \in Worker : serving[w] = Nobody
                           /\ \A c \in Connection :
                                connection[c] \notin
                                  {"backlog", "dispatched", "ended"}

\* While the process lives, a connection has its contexts and its base from
\* the moment it is accepted until its connection_event, and those of the
\* connections the stopped pool abandoned are never freed (nor their sockets
\* closed).
ContextsFollowConnections ==
  /\ contexts = {c \in Connection : connection[c] \in {"queued", "dispatched"}}
  /\ bases = contexts
  /\ serverPc = "returned" => contexts = abandoned

\* The workers have different connections, all accepted, and have not left;
\* nothing is abandoned that was begun; and no callback runs behind the back
\* of a worker.
ServingInv ==
  /\ \A w \in Worker : serving[w] # Nobody =>
       /\ serving[w] <= taken
       /\ serving[w] \notin abandoned
       /\ w \notin exited
  /\ \A v, w \in Worker :
       serving[v] = serving[w] /\ serving[v] # Nobody => v = w
  /\ \A c \in abandoned : connection[c] = "queued" /\ c <= taken
  /\ \A c \in Connection :
       /\ (c <= submitted
           <=> connection[c] \in {"queued", "dispatched", "ended", "left"})
       /\ connection[c] \in {"dispatched", "ended", "left"} => c <= taken
       /\ connection[c] \in {"dispatched", "ended"} =>
            \E w \in Worker : serving[w] = c
       /\ connection[c] = "queued" /\ c <= taken =>
            c \in abandoned \/ \E w \in Worker : serving[w] = c

\* How far the shutdown is.
ShutdownInv ==
  /\ exited \subseteq told
  /\ stopping <=> serverPc # "loop"
  /\ serverPc = "loop" => told = {}
  /\ serverPc \in {"join", "free", "returned"} => told = Worker
  /\ serverPc \in {"free", "returned"} =>
       exited = Worker /\ \A c \in Connection : connection[c] # "backlog"
  /\ serverPc = "returned" => taken = submitted

\* Contexts and bases are those of the connections whose loop may call back.
HeapInv ==
  /\ contexts = {c \in Connection : connection[c] \in {"queued", "dispatched"}}
  /\ bases = contexts

\* The inductive invariant on which ServerProofs rests.
IInv ==
  /\ TypeOK
  /\ \A c \in Connection : unread[c] <= requests
  /\ ServingInv
  /\ ShutdownInv
  /\ HeapInv

\* An accepted connection gets a worker in the order of accept, however long
\* those before it stay, unless the server is stopped or dies first: with
\* clientTimeout set, clients that fall silent make room.
EveryConnectionServed ==
  \A c \in Connection :
    connection[c] = "queued" ~> \/ connection[c] = "left"
                               \/ stopping
                               \/ ~alive

\* With clientTimeout set, server_run returns after a signal, whatever the
\* clients do: the join waits for connections, and those end.
StopReturns == leaving ~> serverPc = "returned" \/ ~alive

\* A connection goes from connect to its end without the rest of the process:
\* one that times out or is closed ends, and nothing else does (readme.md:59;
\* socket.c:129 takes a closed connection for the usual end).
ConnectionsEndAlone ==
  [][(\E c \in Connection : connection'[c] # connection[c]) => alive']_vars

=============================================================================
