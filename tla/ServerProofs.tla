----------------------------- MODULE ServerProofs -----------------------------
(***************************************************************************)
(* Proofs about Server, for every number of workers, of connections and of *)
(* requests.  IInv says that the connections the workers serve are         *)
(* different ones and that only those are in the hands of callbacks        *)
(* (ServingInv), and what each place of server_run presupposes             *)
(* (ShutdownInv); the properties follow from it.                           *)
(***************************************************************************)
EXTENDS Server, TLAPS

USE ServerAssumption DEF Worker, Connection, Nobody, Pool!Worker, Pool!Job,
                         Pool!Nobody, poolVars, threadVars, clientVars, heapVars

\* The invariant holds before anybody connects.
LEMMA InitInv == Init => IInv
<1> SUFFICES ASSUME Init PROVE IInv
  OBVIOUS
<1>1. TypeOK
  <2>1. /\ connection \in [Connection -> Phase]
        /\ unread \in [Connection -> 0..MaxRequests]
        /\ serving \in [Worker -> 0..MaxJobs]
    BY DEF Init, Pool!Init, Phase
  <2>2. /\ submitted \in 0..MaxJobs /\ taken \in 0..submitted
        /\ requests \in 0..MaxRequests
    BY DEF Init, Pool!Init
  <2>3. stopping \in BOOLEAN /\ leaving \in BOOLEAN /\ alive \in BOOLEAN
    BY DEF Init, Pool!Init
  <2> QED BY <2>1, <2>2, <2>3 DEF Init, Pool!Init, TypeOK
<1>2. ServingInv
  BY DEF Init, Pool!Init, ServingInv
<1>3. ShutdownInv
  BY DEF Init, Pool!Init, ShutdownInv
<1>4. HeapInv
  BY DEF Init, HeapInv
<1> QED BY <1>1, <1>2, <1>3, <1>4 DEF Init, IInv

\* A client reaches the backlog.
LEMMA ConnectInv ==
  ASSUME IInv, NEW c \in Connection, Connect(c)
  PROVE  IInv'
<1> USE DEF Connect, Listening
<1>1. TypeOK'
  BY DEF IInv, TypeOK, Phase
<1>2. (\A d \in Connection : unread[d] <= requests)'
  BY DEF IInv, TypeOK
<1>3. ServingInv'
  BY SMTT(60) DEF IInv, TypeOK, ServingInv
<1>4. ShutdownInv'
  BY DEF IInv, TypeOK, ShutdownInv
<1>5. HeapInv'
  BY DEF IInv, TypeOK, HeapInv
<1> QED BY <1>1, <1>2, <1>3, <1>4, <1>5 DEF IInv

\* A request arrives.
LEMMA SendInv ==
  ASSUME IInv, NEW c \in Connection, Send(c)
  PROVE  IInv'
<1> USE DEF Send
<1>1. TypeOK'
  <2>1. unread' \in [Connection -> 0..MaxRequests]
    BY DEF IInv, TypeOK
  <2>2. requests' \in 0..MaxRequests
    BY DEF IInv, TypeOK
  <2> QED BY <2>1, <2>2 DEF IInv, TypeOK
<1>2. (\A d \in Connection : unread[d] <= requests)'
  BY DEF IInv, TypeOK
<1>3. ServingInv'
  BY DEF IInv, TypeOK, ServingInv
<1>4. ShutdownInv'
  BY DEF IInv, TypeOK, ShutdownInv
<1>5. HeapInv'
  BY DEF IInv, TypeOK, HeapInv
<1> QED BY <1>1, <1>2, <1>3, <1>4, <1>5 DEF IInv

\* A client closes.
LEMMA CloseInv ==
  ASSUME IInv, NEW c \in Connection, Close(c)
  PROVE  IInv'
<1> USE DEF Close
<1>1. TypeOK'
  BY DEF IInv, TypeOK, Phase
<1>2. (\A d \in Connection : unread[d] <= requests)'
  BY DEF IInv, TypeOK
<1>3. ServingInv'
  BY DEF IInv, TypeOK, ServingInv
<1>4. ShutdownInv'
  BY DEF IInv, TypeOK, ShutdownInv
<1>5. HeapInv'
  BY DEF IInv, TypeOK, HeapInv
<1> QED BY <1>1, <1>2, <1>3, <1>4, <1>5 DEF IInv

\* A read timer fires.
LEMMA TimerInv ==
  ASSUME IInv, NEW c \in Connection, TimerExpires(c)
  PROVE  IInv'
<1> USE DEF TimerExpires
<1>1. TypeOK'
  BY DEF IInv, TypeOK, Phase
<1>2. (\A d \in Connection : unread[d] <= requests)'
  BY DEF IInv, TypeOK
<1>3. ServingInv'
  BY DEF IInv, TypeOK, ServingInv
<1>4. ShutdownInv'
  BY DEF IInv, TypeOK, ShutdownInv
<1>5. HeapInv'
  BY DEF IInv, TypeOK, HeapInv
<1> QED BY <1>1, <1>2, <1>3, <1>4, <1>5 DEF IInv

\* A connection becomes a job.
LEMMA AcceptInv ==
  ASSUME IInv, NEW c \in Connection, Accept(c)
  PROVE  IInv'
<1> USE DEF Accept, Pool!Submit
<1>1. TypeOK'
  <2>1. submitted' \in 0..MaxJobs /\ taken' \in 0..submitted'
    BY DEF IInv, TypeOK
  <2>2. connection' \in [Connection -> Phase]
    BY DEF IInv, TypeOK, Phase
  <2>3. contexts' \subseteq Connection /\ bases' \subseteq Connection
    BY DEF IInv, TypeOK
  <2> QED BY <2>1, <2>2, <2>3 DEF IInv, TypeOK
<1>2. (\A d \in Connection : unread[d] <= requests)'
  BY DEF IInv
<1>3. ServingInv'
  BY DEF IInv, TypeOK, ServingInv
<1>4. ShutdownInv'
  BY DEF IInv, TypeOK, ShutdownInv
<1>5. HeapInv'
  BY DEF IInv, TypeOK, HeapInv
<1> QED BY <1>1, <1>2, <1>3, <1>4, <1>5 DEF IInv

\* The server is told to stop.
LEMMA SignalInv ==
  ASSUME IInv, Signal
  PROVE  IInv'
<1> USE DEF Signal
<1>1. TypeOK'
  BY DEF IInv, TypeOK, Phase
<1>2. (\A d \in Connection : unread[d] <= requests)'
  BY DEF IInv, TypeOK
<1>3. ServingInv'
  BY DEF IInv, TypeOK, ServingInv
<1>4. ShutdownInv'
  BY DEF IInv, TypeOK, ShutdownInv
<1>5. HeapInv'
  BY DEF IInv, TypeOK, HeapInv
<1> QED BY <1>1, <1>2, <1>3, <1>4, <1>5 DEF IInv

\* The server's loop ends; no worker was told before.
LEMMA LoopExitsInv ==
  ASSUME IInv, LoopExits
  PROVE  IInv'
<1> USE DEF LoopExits, Pool!Stop
<1>1. TypeOK'
  BY DEF IInv, TypeOK, Phase
<1>2. (\A d \in Connection : unread[d] <= requests)'
  BY DEF IInv, TypeOK
<1>3. ServingInv'
  BY DEF IInv, TypeOK, ServingInv
<1>4. ShutdownInv'
  BY DEF IInv, TypeOK, ShutdownInv
<1>5. HeapInv'
  BY DEF IInv, TypeOK, HeapInv
<1> QED BY <1>1, <1>2, <1>3, <1>4, <1>5 DEF IInv

\* A worker is told to stop.
LEMMA TellInv ==
  ASSUME IInv, TellWorker
  PROVE  IInv'
<1> USE DEF TellWorker
<1>1. TypeOK'
  BY DEF IInv, TypeOK, Phase
<1>2. (\A d \in Connection : unread[d] <= requests)'
  BY DEF IInv, TypeOK
<1>3. ServingInv'
  BY DEF IInv, TypeOK, ServingInv
<1>4. ShutdownInv'
  BY DEF IInv, TypeOK, ShutdownInv
<1>5. HeapInv'
  BY DEF IInv, TypeOK, HeapInv
<1> QED BY <1>1, <1>2, <1>3, <1>4, <1>5 DEF IInv

\* All workers have left: none serves a connection.
LEMMA JoinInv ==
  ASSUME IInv, JoinReturns
  PROVE  IInv'
<1> USE DEF JoinReturns
<1>1. TypeOK'
  BY DEF IInv, TypeOK, Phase
<1>2. (\A d \in Connection : unread[d] <= requests)'
  BY DEF IInv, TypeOK
<1>3. ServingInv'
  BY DEF IInv, TypeOK, ServingInv
<1>4. ShutdownInv'
  BY DEF IInv, TypeOK, ShutdownInv
<1>5. HeapInv'
  BY DEF IInv, TypeOK, HeapInv
<1> QED BY <1>1, <1>2, <1>3, <1>4, <1>5 DEF IInv

\* The jobs nobody took are discarded.
LEMMA FreeInv ==
  ASSUME IInv, FreePool
  PROVE  IInv'
<1> USE DEF FreePool, Pool!Discard
<1>1. TypeOK'
  <2>1. CASE UNCHANGED poolVars
    BY <2>1 DEF IInv, TypeOK
  <2>2. CASE Pool!Discard
    <3>1. taken' \in 0..submitted' /\ abandoned' \subseteq Connection
      BY <2>2 DEF IInv, TypeOK
    <3> QED BY <2>2, <3>1 DEF IInv, TypeOK
  <2> QED BY <2>1, <2>2
<1>2. (\A d \in Connection : unread[d] <= requests)'
  BY DEF IInv, TypeOK
<1>3. ServingInv'
  <2>1. CASE UNCHANGED poolVars
    BY <2>1 DEF IInv, TypeOK, ServingInv
  <2>2. CASE Pool!Discard
    <3>1. \A d \in Connection : d <= taken + 1 => d <= taken \/ d = taken + 1
      BY DEF IInv, TypeOK
    <3> QED BY <2>2, <3>1 DEF IInv, TypeOK, ServingInv
  <2> QED BY <2>1, <2>2
<1>4. ShutdownInv'
  BY DEF IInv, TypeOK, ShutdownInv
<1>5. HeapInv'
  BY DEF IInv, TypeOK, HeapInv
<1> QED BY <1>1, <1>2, <1>3, <1>4, <1>5 DEF IInv

\* The job taken is one that no worker had.
LEMMA TakeInv ==
  ASSUME IInv, NEW w \in Worker, TakeJob(w)
  PROVE  IInv'
<1> USE DEF TakeJob, Pool!Take
<1>1. TypeOK'
  <2>1. taken' \in 0..submitted'
    BY DEF IInv, TypeOK
  <2>2. serving' \in [Worker -> 0..MaxJobs]
    BY DEF IInv, TypeOK
  <2> QED BY <2>1, <2>2 DEF IInv, TypeOK
<1>2. (\A d \in Connection : unread[d] <= requests)'
  BY DEF IInv, TypeOK
<1>3. ServingInv'
  BY SMTT(60) DEF IInv, TypeOK, ServingInv
<1>4. ShutdownInv'
  BY DEF IInv, TypeOK, ShutdownInv
<1>5. HeapInv'
  BY DEF IInv, TypeOK, HeapInv
<1> QED BY <1>1, <1>2, <1>3, <1>4, <1>5 DEF IInv

\* A connection's base is dispatched.
LEMMA DispatchInv ==
  ASSUME IInv, NEW w \in Worker, Dispatch(w)
  PROVE  IInv'
<1> USE DEF Dispatch
<1>1. TypeOK'
  BY DEF IInv, TypeOK, Phase
<1>2. (\A d \in Connection : unread[d] <= requests)'
  BY DEF IInv, TypeOK
<1>3. ServingInv'
  BY SMTT(60) DEF IInv, TypeOK, ServingInv
<1>4. ShutdownInv'
  BY DEF IInv, TypeOK, ShutdownInv
<1>5. HeapInv'
  BY DEF IInv, TypeOK, HeapInv
<1> QED BY <1>1, <1>2, <1>3, <1>4, <1>5 DEF IInv

\* A worker leaves with its job.
LEMMA AbandonInv ==
  ASSUME IInv, NEW w \in Worker, Abandon(w)
  PROVE  IInv'
<1> USE DEF Abandon, Pool!Abandon
<1>1. TypeOK'
  <2>1. serving' \in [Worker -> 0..MaxJobs]
    BY DEF IInv, TypeOK
  <2>2. abandoned' \subseteq Connection
    <3>1. serving[w] \in Connection
      BY DEF IInv, TypeOK
    <3> QED BY <3>1 DEF IInv, TypeOK
  <2>3. exited' \subseteq Worker
    BY DEF IInv, TypeOK
  <2> QED BY <2>1, <2>2, <2>3 DEF IInv, TypeOK
<1>2. (\A d \in Connection : unread[d] <= requests)'
  BY DEF IInv, TypeOK
<1>3. ServingInv'
  BY SMTT(60) DEF IInv, TypeOK, ServingInv
<1>4. ShutdownInv'
  BY DEF IInv, TypeOK, ShutdownInv
<1>5. HeapInv'
  BY DEF IInv, TypeOK, HeapInv
<1> QED BY <1>1, <1>2, <1>3, <1>4, <1>5 DEF IInv

\* A worker leaves without one.
LEMMA LeaveInv ==
  ASSUME IInv, NEW w \in Worker, Leave(w)
  PROVE  IInv'
<1> USE DEF Leave
<1>1. TypeOK'
  BY DEF IInv, TypeOK, Phase
<1>2. (\A d \in Connection : unread[d] <= requests)'
  BY DEF IInv, TypeOK
<1>3. ServingInv'
  BY DEF IInv, TypeOK, ServingInv
<1>4. ShutdownInv'
  BY DEF IInv, TypeOK, ShutdownInv
<1>5. HeapInv'
  BY DEF IInv, TypeOK, HeapInv
<1> QED BY <1>1, <1>2, <1>3, <1>4, <1>5 DEF IInv

\* A request is answered.
LEMMA AnswerInv ==
  ASSUME IInv, NEW w \in Worker, Answer(w)
  PROVE  IInv'
<1> USE DEF Answer
<1>1. TypeOK'
  <2>1. unread' \in [Connection -> 0..MaxRequests]
    BY DEF IInv, TypeOK
  <2>2. alive' \in BOOLEAN
    BY DEF IInv, TypeOK
  <2> QED BY <2>1, <2>2 DEF IInv, TypeOK
<1>2. (\A d \in Connection : unread[d] <= requests)'
  BY DEF IInv, TypeOK
<1>3. ServingInv'
  BY DEF IInv, TypeOK, ServingInv
<1>4. ShutdownInv'
  BY DEF IInv, TypeOK, ShutdownInv
<1>5. HeapInv'
  BY DEF IInv, TypeOK, HeapInv
<1> QED BY <1>1, <1>2, <1>3, <1>4, <1>5 DEF IInv

\* A connection ends.
LEMMA EventInv ==
  ASSUME IInv, NEW w \in Worker, ConnectionEvent(w)
  PROVE  IInv'
<1> USE DEF ConnectionEvent
<1>1. TypeOK'
  BY DEF IInv, TypeOK, Phase
<1>2. (\A d \in Connection : unread[d] <= requests)'
  BY DEF IInv, TypeOK
<1>3. ServingInv'
  BY DEF IInv, TypeOK, ServingInv
<1>4. ShutdownInv'
  BY DEF IInv, TypeOK, ShutdownInv
<1>5. HeapInv'
  BY DEF IInv, TypeOK, HeapInv
<1> QED BY <1>1, <1>2, <1>3, <1>4, <1>5 DEF IInv

\* Its loop ends.
LEMMA BreakInv ==
  ASSUME IInv, NEW w \in Worker, LoopBreaks(w)
  PROVE  IInv'
<1> USE DEF LoopBreaks
<1>1. TypeOK'
  <2>1. alive' \in BOOLEAN
    BY DEF IInv, TypeOK
  <2>2. connection' \in [Connection -> Phase]
    BY DEF IInv, TypeOK, Phase
  <2> QED BY <2>1, <2>2 DEF IInv, TypeOK
<1>2. (\A d \in Connection : unread[d] <= requests)'
  BY DEF IInv, TypeOK
<1>3. ServingInv'
  BY DEF IInv, TypeOK, ServingInv
<1>4. ShutdownInv'
  BY DEF IInv, TypeOK, ShutdownInv
<1>5. HeapInv'
  BY DEF IInv, TypeOK, HeapInv
<1> QED BY <1>1, <1>2, <1>3, <1>4, <1>5 DEF IInv

\* A worker is done with its job.
LEMMA ReturnInv ==
  ASSUME IInv, NEW w \in Worker, HandlerReturns(w)
  PROVE  IInv'
<1> USE DEF HandlerReturns, Pool!Finish
<1>1. TypeOK'
  <2>1. serving' \in [Worker -> 0..MaxJobs]
    BY DEF IInv, TypeOK
  <2>2. served' \subseteq Connection
    <3>1. serving[w] \in Connection
      BY DEF IInv, TypeOK
    <3> QED BY <3>1 DEF IInv, TypeOK
  <2> QED BY <2>1, <2>2 DEF IInv, TypeOK
<1>2. (\A d \in Connection : unread[d] <= requests)'
  BY DEF IInv, TypeOK
<1>3. ServingInv'
  BY DEF IInv, TypeOK, ServingInv
<1>4. ShutdownInv'
  BY DEF IInv, TypeOK, ShutdownInv
<1>5. HeapInv'
  BY DEF IInv, TypeOK, HeapInv
<1> QED BY <1>1, <1>2, <1>3, <1>4, <1>5 DEF IInv

\* The inductive invariant of the server.
THEOREM Invariance == Spec => []IInv
<1>1. IInv /\ [Next]_vars => IInv'
  <2> SUFFICES ASSUME IInv, [Next]_vars PROVE IInv'
    OBVIOUS
  <2>1. CASE UNCHANGED vars
    BY <2>1 DEF vars, IInv, TypeOK, ServingInv, ShutdownInv, HeapInv
  <2>2. ASSUME NEW c \in Connection, Client(c) \/ TimerExpires(c) \/ Accept(c)
        PROVE  IInv'
    BY <2>2, ConnectInv, SendInv, CloseInv, TimerInv, AcceptInv DEF Client
  <2>3. ASSUME NEW w \in Worker, WorkerThread(w)
        PROVE  IInv'
    BY <2>3, TakeInv, DispatchInv, AbandonInv, LeaveInv, AnswerInv, EventInv,
       BreakInv, ReturnInv DEF WorkerThread
  <2>4. CASE Next
    BY <2>1, <2>2, <2>3, <2>4, SignalInv, LoopExitsInv, TellInv, JoinInv,
       FreeInv DEF Next, Over, ServerThread
  <2> QED BY <2>1, <2>4
<1> QED BY InitInv, <1>1, PTL DEF Spec

\* The variables of the server have their types.
THEOREM TypeCorrect == Spec => []TypeOK
<1>1. IInv => TypeOK
  BY DEF IInv
<1> QED BY Invariance, <1>1, PTL

\* Once server_run has returned no callback of src/socket.c runs any more.
THEOREM QuietAtTheEnd == Spec => []QuietAfterReturn
<1>1. IInv => QuietAfterReturn
  <2> SUFFICES ASSUME IInv, serverPc = "returned" PROVE QuietAfterReturn
    BY DEF QuietAfterReturn
  <2>1. exited = Worker
    BY DEF IInv, ShutdownInv
  <2>2. \A w \in Worker : serving[w] = Nobody
    BY <2>1 DEF IInv, ServingInv
  <2>3. \A c \in Connection :
          connection[c] \notin {"backlog", "dispatched", "ended"}
    BY <2>2 DEF IInv, ServingInv, ShutdownInv
  <2> QED BY <2>2, <2>3 DEF QuietAfterReturn
<1> QED BY Invariance, <1>1, PTL

\* A connection has its contexts and its base while it is accepted and has not
\* ended, and those of the abandoned connections are left over.
THEOREM ContextsCorrect == Spec => []ContextsFollowConnections
<1>1. IInv /\ QuietAfterReturn => ContextsFollowConnections
  <2> SUFFICES ASSUME IInv, QuietAfterReturn, serverPc = "returned"
               PROVE  contexts = abandoned
    BY DEF ContextsFollowConnections, IInv, HeapInv
  <2>1. \A c \in Connection :
          connection[c] \in {"queued", "dispatched"} <=> c \in abandoned
    BY DEF IInv, TypeOK, ServingInv, ShutdownInv, QuietAfterReturn
  <2> QED BY <2>1 DEF IInv, TypeOK, HeapInv
<1> QED BY Invariance, QuietAtTheEnd, <1>1, PTL

=============================================================================
