--------------------- MODULE ProvisioningServiceProofs ---------------------
(***************************************************************************)
(* Theorems about ProvisioningService for any number of streams, sessions  *)
(* and iterations.                                                         *)
(***************************************************************************)
EXTENDS ProvisioningService, TLAPS

\* The handler holds the stream slot, and the asynchronous request.
HandlerHolds == {"admitted", "begun", "ready", "attached", "abandon", "release"}
HandlerOpen == {"begun", "ready", "attached", "abandon"}

\* The same for a worker task.
WorkerHolds == {"session", "current", "send", "complete", "release"}
WorkerOpen == {"session", "current", "send", "complete"}

\* provisioning_service_stop holds service_stop_in_progress.
StopHolds == {"request", "wait", "clear", "httpd", "init", "null", "unlock"}

\* Whoever holds the slot holds it alone, under the active generation, and
\* somebody holds it as long as it is active.
SlotInv ==
    /\ lifecycle.active <=> lifecycle.current # 0
    /\ lifecycle.current <= lifecycle.next
    /\ http.pc \in HandlerHolds =>
          /\ http.worker # 0
          /\ lifecycle.current = http.worker
          /\ worker[http.worker].pc = "none"
    /\ http.pc \notin HandlerHolds => http.worker = 0
    /\ \A w \in Worker : worker[w].pc \in WorkerHolds => lifecycle.current = w
    /\ lifecycle.active =>
          \/ http.worker = lifecycle.current
          \/ worker[lifecycle.current].pc \in WorkerHolds

\* An asynchronous request is open exactly while its holder has yet to
\* complete it.
AsyncInv ==
    \A w \in Worker :
        async[w] = "open" <=>
            \/ http.worker = w /\ http.pc \in HandlerOpen
            \/ worker[w].pc \in WorkerOpen

\* Generations not given out yet are unused, and there is one for the request
\* that is about to be admitted.
FreshInv ==
    /\ http.pc = "stream" => lifecycle.next < MaxWorkers
    /\ server = "up" =>
          \A w \in Worker : w > lifecycle.next => worker[w].pc = "none"

\* The stops exclude each other, and from the wait on the slot can only be
\* the one of the worker waited for: no stream is admitted any more.
StopInv ==
    /\ \A p \in Stopper : stop[p].pc \in StopHolds => stopInProgress
    /\ \A p, q \in Stopper :
          stop[p].pc \in StopHolds /\ stop[q].pc \in StopHolds => p = q
    /\ server = "ended" => \E p \in Stopper : stop[p].pc \in {"init", "null"}
    /\ \A p \in Stopper :
          /\ stop[p].pc \in {"request", "wait", "clear", "httpd"} => server = "up"
          /\ stop[p].pc \in {"init", "null"} => server = "ended"
          /\ stop[p].pc \in {"wait", "clear", "httpd"} => lifecycle.stopping
          /\ stop[p].pc = "wait" /\ lifecycle.active =>
                lifecycle.current = stop[p].worker
          /\ stop[p].pc \in {"clear", "httpd"} => ~lifecycle.active
    /\ server # "up" => http.pc = "idle" /\ ~lifecycle.active

\* A session that has ended does not come back: a batch sent after its end
\* was on its way when it ended.  A loop that goes on has iterations left.
Over(w) == ~(session.open /\ session.generation = worker[w].session)

StaleInv ==
    /\ http.session <= session.generation
    /\ \A w \in Worker :
          /\ worker[w].session <= session.generation
          /\ worker[w].pc \in {"session", "current", "send"} => worker[w].left > 0
          /\ stale[w] <= 1
          /\ worker[w].pc \in {"none", "send"} => stale[w] = 0
          /\ worker[w].pc = "session" /\ stale[w] # 0 => Over(w)
          /\ worker[w].pc = "current" /\ worker[w].valid => stale[w] = 0

IInv == TypeOK /\ SlotInv /\ AsyncInv /\ FreshInv /\ StopInv /\ StaleInv

-----------------------------------------------------------------------------
\* provisioning_stream_complete keeps the lifecycle well typed.
LEMMA CompletedType ==
    ASSUME NEW l \in LifecycleState, NEW w \in 0..MaxWorkers
    PROVE  Completed(l, w) \in LifecycleState
<1>1. CASE l.active /\ l.current = w
  <2>1. Completed(l, w) = [l EXCEPT !.completed = w, !.current = 0,
                                    !.active = FALSE, !.shutdown = FALSE]
    BY <1>1 DEF Completed
  <2>2. 0 \in 0..MaxWorkers
    BY ServiceAssumption
  <2>3. QED
    BY <2>1, <2>2 DEF LifecycleState
<1>2. CASE ~(l.active /\ l.current = w)
  BY <1>2 DEF Completed
<1>3. QED
  BY <1>1, <1>2


\* Logins, logouts and expiry do not touch the slot; they only end sessions.
LEMMA SessionSteps ==
    ASSUME IInv, 
           \/ Login
           \/ Authenticate("logout")
           \/ Authenticate("stream")
           \/ Logout
           \/ Revoke
           \/ SessionExpires
    PROVE  IInv'
<1> USE ServiceAssumption DEF IInv
<1>1. CASE Login
  <2>1. TypeOK'
    <3>1. session' \in SessionState
      BY <1>1 DEF Login, Incoming, NewGeneration, HttpIdle, TypeOK,
         SessionState
    <3>2. http' \in HttpState
      BY <1>1 DEF Login, Incoming, NewGeneration, HttpIdle, TypeOK, HttpState
    <3>3. QED
      BY <1>1, <3>1, <3>2 DEF Login, Incoming, NewGeneration, HttpIdle, TypeOK,
         Stopper
  <2>2. SlotInv'
    BY <1>1 DEF Login, Incoming, NewGeneration, HttpIdle, TypeOK, Worker,
       LifecycleState, HttpState, WorkerState, SlotInv, HandlerHolds,
       HandlerOpen, WorkerHolds, WorkerOpen
  <2>3. AsyncInv'
    BY <1>1 DEF Login, Incoming, NewGeneration, HttpIdle, TypeOK, Worker,
       LifecycleState, HttpState, WorkerState, SlotInv, AsyncInv, HandlerHolds,
       HandlerOpen, WorkerHolds, WorkerOpen
  <2>4. FreshInv'
    BY <1>1 DEF Login, Incoming, NewGeneration, HttpIdle, TypeOK, Worker,
       LifecycleState, HttpState, WorkerState, FreshInv, SlotInv, HandlerHolds,
       HandlerOpen, WorkerHolds, WorkerOpen
  <2>5. StopInv'
    BY <1>1 DEF Login, Incoming, NewGeneration, HttpIdle, TypeOK, Worker,
       LifecycleState, HttpState, WorkerState, StopState, Stopper, SlotInv,
       StopInv, StopHolds, HandlerHolds, HandlerOpen, WorkerHolds, WorkerOpen
  <2>6. StaleInv'
    BY <1>1 DEF Login, Incoming, NewGeneration, HttpIdle, TypeOK, Worker,
       SessionState, HttpState, WorkerState, SlotInv, StaleInv, Over,
       HandlerHolds, HandlerOpen, WorkerHolds, WorkerOpen
  <2>7. QED
    BY <2>1, <2>2, <2>3, <2>4, <2>5, <2>6
<1>2. CASE Authenticate("logout")
  <2>1. session.generation \in Nat /\ 0 \in 0..MaxWorkers
    BY <1>2 DEF TypeOK, SessionState
  <2>2. TypeOK'
    <3>1. http' \in HttpState
      BY <1>2, <2>1 DEF Authenticate, Incoming, HttpIdle, TypeOK, HttpState
    <3>2. QED
      BY <1>2, <3>1 DEF Authenticate, Incoming, HttpIdle, TypeOK, Stopper
  <2>3. SlotInv'
    BY <1>2, <2>1 DEF Authenticate, Incoming, HttpIdle, TypeOK, Worker,
       LifecycleState, HttpState, WorkerState, SlotInv, HandlerHolds,
       HandlerOpen, WorkerHolds, WorkerOpen
  <2>4. AsyncInv'
    BY <1>2, <2>1 DEF Authenticate, Incoming, HttpIdle, TypeOK, Worker,
       LifecycleState, HttpState, WorkerState, SlotInv, AsyncInv, HandlerHolds,
       HandlerOpen, WorkerHolds, WorkerOpen
  <2>5. FreshInv'
    BY <1>2, <2>1 DEF Authenticate, Incoming, HttpIdle, TypeOK, Worker,
       LifecycleState, HttpState, WorkerState, FreshInv, SlotInv, HandlerHolds,
       HandlerOpen, WorkerHolds, WorkerOpen
  <2>6. StopInv'
    BY <1>2, <2>1 DEF Authenticate, Incoming, HttpIdle, TypeOK, Worker,
       LifecycleState, HttpState, WorkerState, StopState, Stopper, SlotInv,
       StopInv, StopHolds, HandlerHolds, HandlerOpen, WorkerHolds, WorkerOpen
  <2>7. StaleInv'
    BY <1>2, <2>1 DEF Authenticate, Incoming, HttpIdle, TypeOK, Worker,
       SessionState, HttpState, WorkerState, SlotInv, StaleInv, Over,
       HandlerHolds, HandlerOpen, WorkerHolds, WorkerOpen
  <2>8. QED
    BY <2>2, <2>3, <2>4, <2>5, <2>6, <2>7
<1>3. CASE Authenticate("stream")
  <2>1. session.generation \in Nat /\ 0 \in 0..MaxWorkers
    BY <1>3 DEF TypeOK, SessionState
  <2>2. TypeOK'
    <3>1. http' \in HttpState
      BY <1>3, <2>1 DEF Authenticate, Incoming, HttpIdle, TypeOK, HttpState
    <3>2. QED
      BY <1>3, <3>1 DEF Authenticate, Incoming, HttpIdle, TypeOK, Stopper
  <2>3. SlotInv'
    BY <1>3, <2>1 DEF Authenticate, Incoming, HttpIdle, TypeOK, Worker,
       LifecycleState, HttpState, WorkerState, SlotInv, HandlerHolds,
       HandlerOpen, WorkerHolds, WorkerOpen
  <2>4. AsyncInv'
    BY <1>3, <2>1 DEF Authenticate, Incoming, HttpIdle, TypeOK, Worker,
       LifecycleState, HttpState, WorkerState, SlotInv, AsyncInv, HandlerHolds,
       HandlerOpen, WorkerHolds, WorkerOpen
  <2>5. FreshInv'
    BY <1>3, <2>1 DEF Authenticate, Incoming, HttpIdle, TypeOK, Worker,
       LifecycleState, HttpState, WorkerState, FreshInv, SlotInv, HandlerHolds,
       HandlerOpen, WorkerHolds, WorkerOpen
  <2>6. StopInv'
    BY <1>3, <2>1 DEF Authenticate, Incoming, HttpIdle, TypeOK, Worker,
       LifecycleState, HttpState, WorkerState, StopState, Stopper, SlotInv,
       StopInv, StopHolds, HandlerHolds, HandlerOpen, WorkerHolds, WorkerOpen
  <2>7. StaleInv'
    BY <1>3, <2>1 DEF Authenticate, Incoming, HttpIdle, TypeOK, Worker,
       SessionState, HttpState, WorkerState, SlotInv, StaleInv, Over,
       HandlerHolds, HandlerOpen, WorkerHolds, WorkerOpen
  <2>8. QED
    BY <2>2, <2>3, <2>4, <2>5, <2>6, <2>7
<1>4. CASE Logout
  <2>1. TypeOK'
    <3>1. session' \in SessionState
      BY <1>4 DEF Logout, NewGeneration, TypeOK, SessionState
    <3>2. http' \in HttpState
      BY <1>4 DEF Logout, NewGeneration, TypeOK, HttpState
    <3>3. QED
      BY <1>4, <3>1, <3>2 DEF Logout, NewGeneration, TypeOK, Stopper
  <2>2. SlotInv'
    BY <1>4 DEF Logout, NewGeneration, TypeOK, Worker, LifecycleState,
       HttpState, WorkerState, SlotInv, HandlerHolds, HandlerOpen, WorkerHolds,
       WorkerOpen
  <2>3. AsyncInv'
    BY <1>4 DEF Logout, NewGeneration, TypeOK, Worker, LifecycleState,
       HttpState, WorkerState, SlotInv, AsyncInv, HandlerHolds, HandlerOpen,
       WorkerHolds, WorkerOpen
  <2>4. FreshInv'
    BY <1>4 DEF Logout, NewGeneration, TypeOK, Worker, LifecycleState,
       HttpState, WorkerState, FreshInv, SlotInv, HandlerHolds, HandlerOpen,
       WorkerHolds, WorkerOpen
  <2>5. StopInv'
    BY <1>4 DEF Logout, NewGeneration, TypeOK, Worker, LifecycleState,
       HttpState, WorkerState, StopState, Stopper, SlotInv, StopInv, StopHolds,
       HandlerHolds, HandlerOpen, WorkerHolds, WorkerOpen
  <2>6. StaleInv'
    BY <1>4 DEF Logout, NewGeneration, TypeOK, Worker, SessionState, HttpState,
       WorkerState, SlotInv, StaleInv, Over, HandlerHolds, HandlerOpen,
       WorkerHolds, WorkerOpen
  <2>7. QED
    BY <2>1, <2>2, <2>3, <2>4, <2>5, <2>6
<1>5. CASE Revoke
  <2>1. TypeOK'
    <3>1. lifecycle' \in LifecycleState
      BY <1>5 DEF Revoke, ShutdownRequested, HttpIdle, TypeOK, LifecycleState
    <3>2. http' \in HttpState
      BY <1>5 DEF Revoke, ShutdownRequested, HttpIdle, TypeOK, HttpState
    <3>3. QED
      BY <1>5, <3>1, <3>2 DEF Revoke, ShutdownRequested, HttpIdle, TypeOK,
         Stopper
  <2>2. SlotInv'
    BY <1>5 DEF Revoke, ShutdownRequested, HttpIdle, TypeOK, Worker,
       LifecycleState, HttpState, WorkerState, SlotInv, HandlerHolds,
       HandlerOpen, WorkerHolds, WorkerOpen
  <2>3. AsyncInv'
    BY <1>5 DEF Revoke, ShutdownRequested, HttpIdle, TypeOK, Worker,
       LifecycleState, HttpState, WorkerState, SlotInv, AsyncInv, HandlerHolds,
       HandlerOpen, WorkerHolds, WorkerOpen
  <2>4. FreshInv'
    BY <1>5 DEF Revoke, ShutdownRequested, HttpIdle, TypeOK, Worker,
       LifecycleState, HttpState, WorkerState, FreshInv, SlotInv, HandlerHolds,
       HandlerOpen, WorkerHolds, WorkerOpen
  <2>5. StopInv'
    BY <1>5 DEF Revoke, ShutdownRequested, HttpIdle, TypeOK, Worker,
       LifecycleState, HttpState, WorkerState, StopState, Stopper, SlotInv,
       StopInv, StopHolds, HandlerHolds, HandlerOpen, WorkerHolds, WorkerOpen
  <2>6. StaleInv'
    BY <1>5 DEF Revoke, ShutdownRequested, HttpIdle, TypeOK, Worker,
       SessionState, HttpState, WorkerState, SlotInv, StaleInv, Over,
       HandlerHolds, HandlerOpen, WorkerHolds, WorkerOpen
  <2>7. QED
    BY <2>1, <2>2, <2>3, <2>4, <2>5, <2>6
<1>6. CASE SessionExpires
  <2>1. TypeOK'
    <3>1. session' \in SessionState
      BY <1>6 DEF SessionExpires, TypeOK, SessionState
    <3>2. QED
      BY <1>6, <3>1 DEF SessionExpires, TypeOK, Stopper
  <2>2. SlotInv'
    BY <1>6 DEF SessionExpires, TypeOK, Worker, LifecycleState, HttpState,
       WorkerState, SlotInv, HandlerHolds, HandlerOpen, WorkerHolds, WorkerOpen
  <2>3. AsyncInv'
    BY <1>6 DEF SessionExpires, TypeOK, Worker, LifecycleState, HttpState,
       WorkerState, SlotInv, AsyncInv, HandlerHolds, HandlerOpen, WorkerHolds,
       WorkerOpen
  <2>4. FreshInv'
    BY <1>6 DEF SessionExpires, TypeOK, Worker, LifecycleState, HttpState,
       WorkerState, FreshInv, SlotInv, HandlerHolds, HandlerOpen, WorkerHolds,
       WorkerOpen
  <2>5. StopInv'
    BY <1>6 DEF SessionExpires, TypeOK, Worker, LifecycleState, HttpState,
       WorkerState, StopState, Stopper, SlotInv, StopInv, StopHolds,
       HandlerHolds, HandlerOpen, WorkerHolds, WorkerOpen
  <2>6. StaleInv'
    BY <1>6 DEF SessionExpires, TypeOK, Worker, SessionState, HttpState,
       WorkerState, SlotInv, StaleInv, Over, HandlerHolds, HandlerOpen,
       WorkerHolds, WorkerOpen
  <2>7. QED
    BY <2>1, <2>2, <2>3, <2>4, <2>5, <2>6
<1>7. QED
  BY <1>1, <1>2, <1>3, <1>4, <1>5, <1>6

\* The stream handler takes the slot, hands it to a worker or gives it back.
LEMMA HandlerSteps ==
    ASSUME IInv, 
           \/ StreamAdmit
           \/ StreamBegin
           \/ StreamContext
           \/ StreamAttach
           \/ StreamCreate
           \/ StreamAbandon
           \/ StreamRelease
    PROVE  IInv'
<1> USE ServiceAssumption DEF IInv
<1>1. CASE StreamAdmit
  <2>1. /\ server = "up" /\ lifecycle.next \in 0..(MaxWorkers - 1)
        /\ lifecycle.next + 1 \in Worker
        /\ worker[lifecycle.next + 1].pc = "none"
    BY <1>1 DEF TypeOK, LifecycleState, StopInv, FreshInv, StreamAdmit, Worker
  <2>2. CASE http' = HttpIdle /\ lifecycle' = lifecycle
    <3>1. http'.pc = "idle" /\ http'.session = 0 /\ http'.worker = 0
      BY <2>2 DEF HttpIdle
    <3>2. http' \in HttpState
      BY <2>2 DEF HttpIdle, HttpState
    <3>3. TypeOK'
      BY <1>1, <2>2, <3>2 DEF StreamAdmit, TypeOK
    <3>4. SlotInv' /\ AsyncInv' /\ FreshInv'
      BY <1>1, <2>2, <3>1 DEF StreamAdmit, SlotInv, AsyncInv, FreshInv,
         HandlerHolds, HandlerOpen
    <3>5. StopInv'
      BY <1>1, <2>2, <3>1 DEF StreamAdmit, StopInv
    <3>6. StaleInv'
      BY <1>1, <2>2, <3>1 DEF StreamAdmit, StaleInv, Over, TypeOK, SessionState
    <3>7. QED
      BY <3>3, <3>4, <3>5, <3>6
  <2>3. CASE /\ Admissible(lifecycle) /\ lifecycle' = Admitted(lifecycle)
             /\ http' = [http EXCEPT !.pc = "admitted", !.worker = lifecycle'.current]
    <3>0. /\ lifecycle.next + 1 \in 0..MaxWorkers /\ lifecycle \in LifecycleState
          /\ lifecycle' = [lifecycle EXCEPT !.next = lifecycle.next + 1,
                 !.current = lifecycle.next + 1, !.active = TRUE, !.shutdown = FALSE]
      BY <2>1, <2>3 DEF Admitted, TypeOK, Worker
    <3>1. /\ lifecycle' \in LifecycleState
          /\ lifecycle'.current = lifecycle.next + 1
          /\ lifecycle'.next = lifecycle.next + 1
          /\ lifecycle'.active /\ ~lifecycle.active /\ ~lifecycle.stopping
          /\ lifecycle'.stopping = lifecycle.stopping
      BY <2>3, <3>0 DEF Admissible, LifecycleState
    <3>2. /\ http' \in HttpState /\ http'.pc = "admitted"
          /\ http'.worker = lifecycle.next + 1 /\ http'.session = http.session
      BY <2>3, <3>0, <3>1 DEF TypeOK, HttpState
    <3>3. worker' = worker /\ async' = async /\ server' = server
          /\ stop' = stop /\ stopInProgress' = stopInProgress
          /\ session' = session /\ stale' = stale
      BY <1>1 DEF StreamAdmit
    <3>4. TypeOK'
      BY <1>1, <3>1, <3>2 DEF StreamAdmit, TypeOK
    <3>5. \A w \in Worker : worker[w].pc \notin WorkerHolds
      BY <3>1 DEF SlotInv, Worker
    <3>6. SlotInv'
      BY <2>1, <3>1, <3>2, <3>3, <3>5 DEF SlotInv, HandlerHolds, Worker
    <3>7. http.worker = 0
      BY <1>1 DEF StreamAdmit, SlotInv, HandlerHolds
    <3>8. AsyncInv'
      BY <2>1, <3>2, <3>3, <3>7 DEF AsyncInv, HandlerOpen, Worker
    <3>9. FreshInv'
      BY <2>1, <3>1, <3>2, <3>3 DEF FreshInv, Worker
    <3>10. StopInv'
      BY <2>1, <3>1, <3>2, <3>3 DEF StopInv
    <3>11. StaleInv'
      BY <3>2, <3>3 DEF StaleInv, Over
    <3>12. QED
      BY <3>4, <3>6, <3>8, <3>9, <3>10, <3>11
  <2>4. QED
    BY <1>1, <2>2, <2>3 DEF StreamAdmit
<1>2. CASE StreamBegin
  <2>1. /\ http.worker \in Worker /\ worker[http.worker].pc = "none"
        /\ http.pc \notin HandlerOpen
    BY <1>2 DEF StreamBegin, TypeOK, HttpState, Worker, SlotInv, HandlerHolds,
       HandlerOpen
  <2>2. http'.worker = http.worker
    BY <1>2, <2>1 DEF StreamBegin, TypeOK, HttpState
  <2>3. TypeOK'
    <3>1. http' \in HttpState
      BY <1>2, <2>1, <2>2 DEF StreamBegin, TypeOK, HttpState
    <3>2. async' \in [Worker -> {"none", "open", "completed"}]
      BY <1>2, <2>1, <2>2 DEF StreamBegin, TypeOK, HttpState
    <3>3. QED
      BY <1>2, <3>1, <3>2 DEF StreamBegin, TypeOK, Stopper
  <2>4. SlotInv'
    BY <1>2, <2>1, <2>2 DEF StreamBegin, TypeOK, Worker, LifecycleState,
       HttpState, WorkerState, SlotInv, HandlerHolds, HandlerOpen, WorkerHolds,
       WorkerOpen
  <2>5. AsyncInv'
    <3>1. CASE async' = async /\ http' = [http EXCEPT !.pc = "release"]
      BY <1>2, <2>1, <2>2, <3>1 DEF StreamBegin, TypeOK, HttpState, AsyncInv,
         HandlerOpen
    <3>2. CASE /\ async' = [async EXCEPT ![http.worker] = "open"]
               /\ http' = [http EXCEPT !.pc = "begun"]
      <4>1. http'.pc = "begun" /\ async \in [Worker -> {"none", "open", "completed"}]
        BY <3>2 DEF TypeOK, HttpState
      <4>2. ASSUME NEW w \in Worker, w # http.worker
            PROVE  async'[w] = async[w] /\ worker'[w] = worker[w]
        BY <1>2, <3>2, <4>1, <4>2 DEF StreamBegin
      <4>3. async'[http.worker] = "open"
        BY <3>2, <4>1, <2>1
      <4>4. QED
        BY <2>1, <2>2, <4>1, <4>2, <4>3 DEF AsyncInv, HandlerOpen
    <3>3. QED
      BY <1>2, <3>1, <3>2 DEF StreamBegin
  <2>6. FreshInv'
    BY <1>2, <2>1, <2>2 DEF StreamBegin, TypeOK, Worker, LifecycleState,
       HttpState, WorkerState, FreshInv, SlotInv, HandlerHolds, HandlerOpen,
       WorkerHolds, WorkerOpen
  <2>7. StopInv'
    BY <1>2, <2>1, <2>2 DEF StreamBegin, TypeOK, Worker, LifecycleState,
       HttpState, WorkerState, StopState, Stopper, SlotInv, StopInv, StopHolds,
       HandlerHolds, HandlerOpen, WorkerHolds, WorkerOpen
  <2>8. StaleInv'
    BY <1>2, <2>1, <2>2 DEF StreamBegin, TypeOK, Worker, SessionState,
       HttpState, WorkerState, SlotInv, StaleInv, Over, HandlerHolds,
       HandlerOpen, WorkerHolds, WorkerOpen
  <2>9. QED
    BY <2>3, <2>4, <2>5, <2>6, <2>7, <2>8
<1>3. CASE StreamContext
  <2>1. /\ http.pc \in HandlerOpen /\ http'.pc \in HandlerOpen
        /\ http'.worker = http.worker /\ http'.session = http.session
        /\ lifecycle' = lifecycle /\ worker' = worker /\ async' = async
        /\ session' = session /\ stale' = stale /\ server' = server
    BY <1>3 DEF StreamContext, TypeOK, HttpState, HandlerOpen
  <2>2. TypeOK'
    <3>1. http' \in HttpState
      BY <1>3, <2>1 DEF StreamContext, TypeOK, HttpState
    <3>2. QED
      BY <1>3, <3>1 DEF StreamContext, TypeOK, Stopper
  <2>3. SlotInv'
    BY <2>1 DEF SlotInv, HandlerHolds, HandlerOpen
  <2>4. AsyncInv'
    BY <2>1 DEF AsyncInv
  <2>5. FreshInv'
    BY <2>1 DEF FreshInv, HandlerOpen
  <2>6. StopInv'
    BY <1>3, <2>1 DEF StreamContext, TypeOK, Worker, LifecycleState, HttpState,
       WorkerState, StopState, Stopper, SlotInv, StopInv, StopHolds,
       HandlerHolds, HandlerOpen, WorkerHolds, WorkerOpen
  <2>7. StaleInv'
    BY <2>1 DEF StaleInv, Over
  <2>8. QED
    BY <2>2, <2>3, <2>4, <2>5, <2>6, <2>7
<1>4. CASE StreamAttach
  <2>1. /\ http.pc \in HandlerOpen /\ http'.pc \in HandlerOpen
        /\ http'.worker = http.worker /\ http'.session = http.session
        /\ lifecycle' = lifecycle /\ worker' = worker /\ async' = async
        /\ session' = session /\ stale' = stale /\ server' = server
    BY <1>4 DEF StreamAttach, TypeOK, HttpState, HandlerOpen
  <2>2. TypeOK'
    <3>1. http' \in HttpState
      BY <1>4, <2>1 DEF StreamAttach, TypeOK, HttpState
    <3>2. QED
      BY <1>4, <3>1 DEF StreamAttach, TypeOK, Stopper
  <2>3. SlotInv'
    BY <2>1 DEF SlotInv, HandlerHolds, HandlerOpen
  <2>4. AsyncInv'
    BY <2>1 DEF AsyncInv
  <2>5. FreshInv'
    BY <2>1 DEF FreshInv, HandlerOpen
  <2>6. StopInv'
    BY <1>4, <2>1 DEF StreamAttach, TypeOK, Worker, LifecycleState, HttpState,
       WorkerState, StopState, Stopper, SlotInv, StopInv, StopHolds,
       HandlerHolds, HandlerOpen, WorkerHolds, WorkerOpen
  <2>7. StaleInv'
    BY <2>1 DEF StaleInv, Over
  <2>8. QED
    BY <2>2, <2>3, <2>4, <2>5, <2>6, <2>7
<1>5. CASE StreamCreate
  <2>1. /\ http.worker \in Worker /\ http.session \in Nat
        /\ Iterations \in 0..Iterations /\ Iterations > 0
    BY <1>5 DEF TypeOK, HttpState, Worker, SlotInv, HandlerHolds, StreamCreate
  <2>2. /\ http.worker <= lifecycle.next /\ worker[http.worker].pc = "none"
        /\ http.session <= session.generation /\ stale[http.worker] = 0
    BY <1>5, <2>1 DEF StreamCreate, HandlerHolds, SlotInv, StaleInv
  <2>3. \/ worker' = worker
        \/ /\ worker'[http.worker].pc = "session"
           /\ worker'[http.worker].session = http.session
           /\ worker'[http.worker].left = Iterations
           /\ \A v \in Worker : v # http.worker => worker'[v] = worker[v]
    BY <1>5, <2>1, <2>2 DEF StreamCreate, TypeOK
  <2>4. http'.pc # "stream" /\ http'.session \in {0, http.session}
    BY <1>5, <2>1, <2>2, <2>3 DEF StreamCreate, TypeOK, HttpState, HttpIdle
  <2>5. /\ \/ worker' = worker /\ http'.pc = "abandon" /\ http'.worker = http.worker
           \/ worker'[http.worker].pc = "session" /\ http'.pc = "idle" /\ http'.worker = 0
        /\ lifecycle' = lifecycle /\ async' = async
    BY <1>5, <2>1, <2>2, <2>3, <2>4 DEF StreamCreate, HttpIdle, TypeOK,
       HttpState
  <2>6. lifecycle.current = http.worker /\ lifecycle.active
    BY <1>5, <2>1, <2>2, <2>3, <2>4, <2>5 DEF StreamCreate, SlotInv,
       HandlerHolds
  <2>7. TypeOK'
    <3>1. worker' \in [Worker -> WorkerState]
      <4> DEFINE new == [pc |-> "session", session |-> http.session, valid |-> FALSE,
                         left |-> Iterations]
      <4>1. new \in WorkerState
        BY <2>1 DEF WorkerState
      <4>2. worker' = worker \/ worker' = [worker EXCEPT ![http.worker] = new]
        BY <1>5 DEF StreamCreate
      <4>3. QED
        BY <2>1, <4>1, <4>2 DEF TypeOK
    <3>2. http' \in HttpState
      BY <1>5, <2>1, <2>2, <2>3, <2>4, <2>5, <2>6 DEF StreamCreate, HttpIdle,
         TypeOK, HttpState
    <3>3. QED
      BY <1>5, <3>1, <3>2 DEF StreamCreate, HttpIdle, TypeOK, Stopper
  <2>8. SlotInv'
    BY <1>5, <2>1, <2>2, <2>3, <2>5, <2>6 DEF StreamCreate, SlotInv,
       HandlerHolds, WorkerHolds, Worker
  <2>9. AsyncInv'
    BY <1>5, <2>1, <2>2, <2>3, <2>5, <2>6 DEF StreamCreate, AsyncInv,
       HandlerOpen, WorkerOpen
  <2>10. FreshInv'
    <3>1. lifecycle' = lifecycle /\ server' = server /\ lifecycle.next \in Nat
      BY <1>5 DEF StreamCreate, TypeOK, LifecycleState
    <3>2. QED
      BY <2>1, <2>2, <2>3, <2>4, <3>1 DEF FreshInv, Worker
  <2>11. StopInv'
    BY <1>5, <2>1, <2>2, <2>3, <2>4, <2>5, <2>6 DEF StreamCreate, HttpIdle,
       TypeOK, Worker, LifecycleState, HttpState, WorkerState, StopState,
       Stopper, SlotInv, StopInv, StopHolds, HandlerHolds, HandlerOpen,
       WorkerHolds, WorkerOpen
  <2>12. StaleInv'
    <3>1. session' = session /\ stale' = stale /\ session.generation \in Nat
      BY <1>5 DEF StreamCreate, TypeOK, SessionState
    <3>2. QED
      BY <1>5, <2>1, <2>2, <2>3, <2>4, <2>5, <2>6, <3>1 DEF StaleInv, Over
  <2>13. QED
    BY <2>7, <2>8, <2>9, <2>10, <2>11, <2>12
<1>6. CASE StreamAbandon
  <2>1. TypeOK'
    <3>1. async' \in [Worker -> {"none", "open", "completed"}]
      BY <1>6 DEF StreamAbandon, TypeOK, HttpState
    <3>2. http' \in HttpState
      BY <1>6 DEF StreamAbandon, TypeOK, HttpState
    <3>3. QED
      BY <1>6, <3>1, <3>2 DEF StreamAbandon, TypeOK, Stopper
  <2>2. SlotInv'
    BY <1>6 DEF StreamAbandon, TypeOK, Worker, LifecycleState, HttpState,
       WorkerState, SlotInv, HandlerHolds, HandlerOpen, WorkerHolds, WorkerOpen
  <2>3. AsyncInv'
    BY <1>6 DEF StreamAbandon, TypeOK, Worker, LifecycleState, HttpState,
       WorkerState, SlotInv, AsyncInv, HandlerHolds, HandlerOpen, WorkerHolds,
       WorkerOpen
  <2>4. FreshInv'
    BY <1>6 DEF StreamAbandon, TypeOK, Worker, LifecycleState, HttpState,
       WorkerState, FreshInv, SlotInv, HandlerHolds, HandlerOpen, WorkerHolds,
       WorkerOpen
  <2>5. StopInv'
    BY <1>6 DEF StreamAbandon, TypeOK, Worker, LifecycleState, HttpState,
       WorkerState, StopState, Stopper, SlotInv, StopInv, StopHolds,
       HandlerHolds, HandlerOpen, WorkerHolds, WorkerOpen
  <2>6. StaleInv'
    BY <1>6 DEF StreamAbandon, TypeOK, Worker, SessionState, HttpState,
       WorkerState, SlotInv, StaleInv, Over, HandlerHolds, HandlerOpen,
       WorkerHolds, WorkerOpen
  <2>7. QED
    BY <2>1, <2>2, <2>3, <2>4, <2>5, <2>6
<1>7. CASE StreamRelease
  <2>1. TypeOK'
    <3>1. lifecycle' \in LifecycleState
      BY <1>7, CompletedType DEF StreamRelease, TypeOK, HttpState, Worker
    <3>2. http' \in HttpState
      BY <1>7 DEF StreamRelease, Completed, HttpIdle, TypeOK, HttpState
    <3>3. QED
      BY <1>7, <3>1, <3>2 DEF StreamRelease, Completed, HttpIdle, TypeOK,
         Stopper
  <2>2. SlotInv'
    BY <1>7 DEF StreamRelease, Completed, HttpIdle, TypeOK, Worker,
       LifecycleState, HttpState, WorkerState, SlotInv, HandlerHolds,
       HandlerOpen, WorkerHolds, WorkerOpen
  <2>3. AsyncInv'
    BY <1>7 DEF StreamRelease, Completed, HttpIdle, TypeOK, Worker,
       LifecycleState, HttpState, WorkerState, SlotInv, AsyncInv, HandlerHolds,
       HandlerOpen, WorkerHolds, WorkerOpen
  <2>4. FreshInv'
    BY <1>7 DEF StreamRelease, Completed, HttpIdle, TypeOK, Worker,
       LifecycleState, HttpState, WorkerState, FreshInv, SlotInv, HandlerHolds,
       HandlerOpen, WorkerHolds, WorkerOpen
  <2>5. StopInv'
    BY <1>7 DEF StreamRelease, Completed, HttpIdle, TypeOK, Worker,
       LifecycleState, HttpState, WorkerState, StopState, Stopper, SlotInv,
       StopInv, StopHolds, HandlerHolds, HandlerOpen, WorkerHolds, WorkerOpen
  <2>6. StaleInv'
    BY <1>7 DEF StreamRelease, Completed, HttpIdle, TypeOK, Worker,
       SessionState, HttpState, WorkerState, SlotInv, StaleInv, Over,
       HandlerHolds, HandlerOpen, WorkerHolds, WorkerOpen
  <2>7. QED
    BY <2>1, <2>2, <2>3, <2>4, <2>5, <2>6
<1>8. QED
  BY <1>1, <1>2, <1>3, <1>4, <1>5, <1>6, <1>7

\* A worker checks, sends, completes its request and gives the slot back.
LEMMA WorkerSteps ==
    ASSUME IInv, NEW w \in Worker, Work(w)
    PROVE  IInv'
<1> USE ServiceAssumption DEF IInv
<1>1. CASE CheckSession(w)
  <2>1. SessionValid(w) \in BOOLEAN
    BY <1>1 DEF SessionValid, TypeOK, SessionState
  <2>2. /\ \A v \in Worker : v # w => worker'[v] = worker[v]
        /\ worker'[w].pc \in {"current"} /\ worker'[w].session = worker[w].session
    BY <1>1, <2>1 DEF CheckSession, TypeOK, WorkerState
  <2>3. /\ worker[w].pc = "session"
        /\ http' = http /\ lifecycle' = lifecycle /\ async' = async /\ server' = server
    BY <1>1, <2>1, <2>2 DEF CheckSession
  <2>4. TypeOK'
    <3>1. worker' \in [Worker -> WorkerState]
      <4> DEFINE new == [worker[w] EXCEPT !.pc = "current", !.valid = SessionValid(w)]
      <4>1. new \in WorkerState
        BY <2>1, <1>1 DEF TypeOK, WorkerState
      <4>2. worker' = [worker EXCEPT ![w] = new]
        BY <1>1 DEF CheckSession
      <4>3. QED
        BY <4>1, <4>2 DEF TypeOK
    <3>2. QED
      BY <1>1, <3>1 DEF CheckSession, SessionValid, TypeOK, Stopper
  <2>5. SlotInv'
    BY <2>2, <2>3 DEF SlotInv, WorkerHolds
  <2>6. AsyncInv'
    BY <2>2, <2>3 DEF AsyncInv, WorkerOpen
  <2>7. FreshInv'
    BY <2>2, <2>3 DEF FreshInv
  <2>8. StopInv'
    BY <1>1, <2>1, <2>2, <2>3 DEF CheckSession, SessionValid, TypeOK, Worker,
       LifecycleState, HttpState, WorkerState, StopState, Stopper, SlotInv,
       StopInv, StopHolds, HandlerHolds, HandlerOpen, WorkerHolds, WorkerOpen
  <2>9. StaleInv'
    BY <1>1, <2>1, <2>2, <2>3 DEF CheckSession, SessionValid, TypeOK, Worker,
       SessionState, HttpState, WorkerState, SlotInv, StaleInv, Over,
       HandlerHolds, HandlerOpen, WorkerHolds, WorkerOpen
  <2>10. QED
    BY <2>4, <2>5, <2>6, <2>7, <2>8, <2>9
<1>2. CASE CheckCurrent(w)
  <2>1. /\ \A v \in Worker : v # w => worker'[v] = worker[v]
        /\ worker'[w].pc \in {"send", "complete"} /\ worker'[w].session = worker[w].session
    BY <1>2 DEF CheckCurrent, TypeOK, WorkerState
  <2>2. /\ worker[w].pc = "current"
        /\ http' = http /\ lifecycle' = lifecycle /\ async' = async /\ server' = server
    BY <1>2, <2>1 DEF CheckCurrent
  <2>3. TypeOK'
    <3>1. worker' \in [Worker -> WorkerState]
      BY <1>2, <2>1, <2>2 DEF CheckCurrent, TypeOK, WorkerState
    <3>2. QED
      BY <1>2, <3>1 DEF CheckCurrent, TypeOK, Stopper
  <2>4. SlotInv'
    BY <2>1, <2>2 DEF SlotInv, WorkerHolds
  <2>5. AsyncInv'
    BY <2>1, <2>2 DEF AsyncInv, WorkerOpen
  <2>6. FreshInv'
    BY <2>1, <2>2 DEF FreshInv
  <2>7. StopInv'
    BY <1>2, <2>1, <2>2 DEF CheckCurrent, TypeOK, Worker, LifecycleState,
       HttpState, WorkerState, StopState, Stopper, SlotInv, StopInv, StopHolds,
       HandlerHolds, HandlerOpen, WorkerHolds, WorkerOpen
  <2>8. StaleInv'
    BY <1>2, <2>1, <2>2 DEF CheckCurrent, TypeOK, Worker, SessionState,
       HttpState, WorkerState, SlotInv, StaleInv, Over, HandlerHolds,
       HandlerOpen, WorkerHolds, WorkerOpen
  <2>9. QED
    BY <2>3, <2>4, <2>5, <2>6, <2>7, <2>8
<1>3. CASE SendBatch(w)
  <2>1. worker[w] \in WorkerState /\ worker[w].left \in Nat /\ worker[w].left > 0
    BY <1>3 DEF SendBatch, TypeOK, WorkerState, StaleInv
  <2>2. worker' \in [Worker -> WorkerState]
    BY <1>3, <2>1 DEF SendBatch, TypeOK, WorkerState
  <2>3. /\ \A v \in Worker : v # w => worker'[v] = worker[v]
        /\ worker'[w].pc \in {"session", "complete"}
        /\ worker'[w].session = worker[w].session
        /\ worker'[w].pc = "session" => worker'[w].left > 0
    BY <1>3, <2>1, <2>2 DEF SendBatch, TypeOK, WorkerState
  <2>4. /\ \A v \in Worker : v # w => stale'[v] = stale[v]
        /\ stale'[w] \in {0, 1}
        /\ worker'[w].pc = "session" /\ stale'[w] # 0 => Over(w)
    BY <1>3, <2>1, <2>2, <2>3 DEF SendBatch, TypeOK, StaleInv, Over
  <2>5. /\ worker[w].pc = "send"
        /\ http' = http /\ lifecycle' = lifecycle /\ async' = async /\ server' = server
    BY <1>3, <2>1, <2>2, <2>3, <2>4 DEF SendBatch
  <2>6. TypeOK'
    <3>1. worker' \in [Worker -> WorkerState]
      BY <1>3, <2>1, <2>2, <2>3, <2>4, <2>5 DEF SendBatch, TypeOK, WorkerState
    <3>2. stale' \in [Worker -> Nat]
      BY <1>3, <2>1, <2>2, <2>3, <2>4, <2>5 DEF SendBatch, TypeOK, SessionState
    <3>3. QED
      BY <1>3, <3>1, <3>2 DEF SendBatch, TypeOK, Stopper
  <2>7. SlotInv'
    BY <2>3, <2>5 DEF SlotInv, WorkerHolds
  <2>8. AsyncInv'
    BY <2>3, <2>5 DEF AsyncInv, WorkerOpen
  <2>9. FreshInv'
    BY <2>3, <2>5 DEF FreshInv
  <2>10. StopInv'
    BY <1>3, <2>1, <2>2, <2>3, <2>4, <2>5 DEF SendBatch, TypeOK, Worker,
       LifecycleState, HttpState, WorkerState, StopState, Stopper, SlotInv,
       StopInv, StopHolds, HandlerHolds, HandlerOpen, WorkerHolds, WorkerOpen
  <2>11. StaleInv'
    <3>1. session' = session /\ http' = http
      BY <1>3 DEF SendBatch
    <3>2. QED
      BY <1>3, <2>1, <2>2, <2>3, <2>4, <2>5, <3>1 DEF StaleInv, Over
  <2>12. QED
    BY <2>6, <2>7, <2>8, <2>9, <2>10, <2>11
<1>4. CASE CompleteRequest(w)
  <2>1. TypeOK'
    <3>1. worker' \in [Worker -> WorkerState]
      BY <1>4 DEF CompleteRequest, TypeOK, WorkerState
    <3>2. async' \in [Worker -> {"none", "open", "completed"}]
      BY <1>4 DEF CompleteRequest, TypeOK, HttpState
    <3>3. QED
      BY <1>4, <3>1, <3>2 DEF CompleteRequest, TypeOK, Stopper
  <2>2. SlotInv'
    BY <1>4 DEF CompleteRequest, TypeOK, Worker, LifecycleState, HttpState,
       WorkerState, SlotInv, HandlerHolds, HandlerOpen, WorkerHolds, WorkerOpen
  <2>3. AsyncInv'
    BY <1>4 DEF CompleteRequest, TypeOK, Worker, LifecycleState, HttpState,
       WorkerState, SlotInv, AsyncInv, HandlerHolds, HandlerOpen, WorkerHolds,
       WorkerOpen
  <2>4. FreshInv'
    BY <1>4 DEF CompleteRequest, TypeOK, Worker, LifecycleState, HttpState,
       WorkerState, FreshInv, SlotInv, HandlerHolds, HandlerOpen, WorkerHolds,
       WorkerOpen
  <2>5. StopInv'
    BY <1>4 DEF CompleteRequest, TypeOK, Worker, LifecycleState, HttpState,
       WorkerState, StopState, Stopper, SlotInv, StopInv, StopHolds,
       HandlerHolds, HandlerOpen, WorkerHolds, WorkerOpen
  <2>6. StaleInv'
    BY <1>4 DEF CompleteRequest, TypeOK, Worker, SessionState, HttpState,
       WorkerState, SlotInv, StaleInv, Over, HandlerHolds, HandlerOpen,
       WorkerHolds, WorkerOpen
  <2>7. QED
    BY <2>1, <2>2, <2>3, <2>4, <2>5, <2>6
<1>5. CASE ReleaseSlot(w)
  <2>1. /\ \A v \in Worker : v # w => worker'[v] = worker[v]
        /\ worker'[w].pc \in {"deleted"} /\ worker'[w].session = worker[w].session
    BY <1>5 DEF ReleaseSlot, TypeOK, WorkerState
  <2>2. http' = http /\ async' = async /\ server' = server
    BY <1>5, <2>1 DEF ReleaseSlot
  <2>3. TypeOK'
    <3>1. worker' \in [Worker -> WorkerState]
      BY <1>5, <2>1, <2>2 DEF ReleaseSlot, Completed, TypeOK, WorkerState
    <3>2. lifecycle' \in LifecycleState
      BY <1>5, <2>1, <2>2, CompletedType DEF ReleaseSlot, TypeOK, HttpState,
         Worker
    <3>3. QED
      BY <1>5, <3>1, <3>2 DEF ReleaseSlot, Completed, TypeOK, Stopper
  <2>4. SlotInv'
    BY <1>5, <2>1, <2>2 DEF ReleaseSlot, Completed, TypeOK, Worker,
       LifecycleState, HttpState, WorkerState, SlotInv, HandlerHolds,
       HandlerOpen, WorkerHolds, WorkerOpen
  <2>5. AsyncInv'
    BY <1>5, <2>1, <2>2 DEF ReleaseSlot, AsyncInv, WorkerOpen
  <2>6. FreshInv'
    BY <1>5, <2>1, <2>2 DEF ReleaseSlot, Completed, TypeOK, Worker,
       LifecycleState, HttpState, WorkerState, FreshInv, SlotInv, HandlerHolds,
       HandlerOpen, WorkerHolds, WorkerOpen
  <2>7. StopInv'
    BY <1>5, <2>1, <2>2 DEF ReleaseSlot, Completed, TypeOK, Worker,
       LifecycleState, HttpState, WorkerState, StopState, Stopper, SlotInv,
       StopInv, StopHolds, HandlerHolds, HandlerOpen, WorkerHolds, WorkerOpen
  <2>8. StaleInv'
    BY <1>5, <2>1, <2>2 DEF ReleaseSlot, Completed, TypeOK, Worker,
       SessionState, HttpState, WorkerState, SlotInv, StaleInv, Over,
       HandlerHolds, HandlerOpen, WorkerHolds, WorkerOpen
  <2>9. QED
    BY <2>3, <2>4, <2>5, <2>6, <2>7, <2>8
<1>6. QED
  BY <1>1, <1>2, <1>3, <1>4, <1>5 DEF Work

\* A stop closes admission, waits for the slot to be free and ends the server.
LEMMA StopSteps ==
    ASSUME IInv, NEW p \in Stopper, Stop(p)
    PROVE  IInv'
<1> USE ServiceAssumption DEF IInv
<1>1. CASE StopBegin(p)
  <2>1. TypeOK'
    <3>1. stop' \in [Stopper -> StopState]
      BY <1>1 DEF StopBegin, Goto, Returns, TypeOK, StopState, LifecycleState
    <3>2. QED
      BY <1>1, <3>1 DEF StopBegin, Goto, Returns, TypeOK, Stopper
  <2>2. SlotInv'
    BY <1>1 DEF StopBegin, Goto, Returns, TypeOK, Worker, LifecycleState,
       HttpState, WorkerState, SlotInv, HandlerHolds, HandlerOpen, WorkerHolds,
       WorkerOpen
  <2>3. AsyncInv'
    BY <1>1 DEF StopBegin, Goto, Returns, TypeOK, Worker, LifecycleState,
       HttpState, WorkerState, SlotInv, AsyncInv, HandlerHolds, HandlerOpen,
       WorkerHolds, WorkerOpen
  <2>4. FreshInv'
    BY <1>1 DEF StopBegin, Goto, Returns, TypeOK, Worker, LifecycleState,
       HttpState, WorkerState, FreshInv, SlotInv, HandlerHolds, HandlerOpen,
       WorkerHolds, WorkerOpen
  <2>5. StopInv'
    BY <1>1 DEF StopBegin, Goto, Returns, TypeOK, Worker, LifecycleState,
       HttpState, WorkerState, StopState, Stopper, SlotInv, StopInv, StopHolds,
       HandlerHolds, HandlerOpen, WorkerHolds, WorkerOpen
  <2>6. StaleInv'
    BY <1>1 DEF StopBegin, Goto, Returns, TypeOK, Worker, SessionState,
       HttpState, WorkerState, SlotInv, StaleInv, Over, HandlerHolds,
       HandlerOpen, WorkerHolds, WorkerOpen
  <2>7. QED
    BY <2>1, <2>2, <2>3, <2>4, <2>5, <2>6
<1>2. CASE StopRequest(p)
  <2>1. /\ server = "up"
        /\ \A q \in Stopper : q # p => stop[q].pc \notin StopHolds
    BY <1>2 DEF StopRequest, StopInv, StopHolds
  <2>2. /\ stop'[p].pc = "wait" /\ stop'[p].worker = lifecycle.current
        /\ \A q \in Stopper : q # p => stop'[q] = stop[q]
        /\ lifecycle'.stopping /\ lifecycle'.active = lifecycle.active
        /\ lifecycle'.current = lifecycle.current
    BY <1>2, <2>1 DEF StopRequest, ShutdownRequested, TypeOK, LifecycleState,
       StopState
  <2>3. TypeOK'
    <3>1. lifecycle' \in LifecycleState
      BY <1>2, <2>1, <2>2 DEF StopRequest, ShutdownRequested, TypeOK,
         LifecycleState
    <3>2. stop' \in [Stopper -> StopState]
      <4> DEFINE new == [stop[p] EXCEPT !.pc = "wait", !.worker = lifecycle.current]
      <4>1. lifecycle.current \in 0..MaxWorkers /\ stop[p] \in StopState
        BY DEF TypeOK, LifecycleState
      <4>2. new \in StopState
        BY <4>1 DEF StopState
      <4>3. stop' = [stop EXCEPT ![p] = new]
        BY <1>2 DEF StopRequest
      <4>4. QED
        BY <4>2, <4>3 DEF TypeOK
    <3>3. QED
      BY <1>2, <3>1, <3>2 DEF StopRequest, ShutdownRequested, TypeOK, Stopper
  <2>4. SlotInv'
    BY <1>2, <2>1, <2>2 DEF StopRequest, ShutdownRequested, TypeOK, Worker,
       LifecycleState, HttpState, WorkerState, SlotInv, HandlerHolds,
       HandlerOpen, WorkerHolds, WorkerOpen
  <2>5. AsyncInv'
    BY <1>2, <2>1, <2>2 DEF StopRequest, ShutdownRequested, TypeOK, Worker,
       LifecycleState, HttpState, WorkerState, SlotInv, AsyncInv, HandlerHolds,
       HandlerOpen, WorkerHolds, WorkerOpen
  <2>6. FreshInv'
    BY <1>2, <2>1, <2>2 DEF StopRequest, ShutdownRequested, TypeOK, Worker,
       LifecycleState, HttpState, WorkerState, FreshInv, SlotInv, HandlerHolds,
       HandlerOpen, WorkerHolds, WorkerOpen
  <2>7. StopInv'
    <3>1. server' = server /\ http' = http /\ stopInProgress' = stopInProgress
      BY <1>2 DEF StopRequest
    <3>2. stopInProgress
      BY <1>2 DEF StopRequest, StopInv, StopHolds
    <3>3. QED
      BY <2>1, <2>2, <3>1, <3>2 DEF StopInv, StopHolds
  <2>8. StaleInv'
    BY <1>2, <2>1, <2>2 DEF StopRequest, ShutdownRequested, TypeOK, Worker,
       SessionState, HttpState, WorkerState, SlotInv, StaleInv, Over,
       HandlerHolds, HandlerOpen, WorkerHolds, WorkerOpen
  <2>9. QED
    BY <2>3, <2>4, <2>5, <2>6, <2>7, <2>8
<1>3. CASE StopWait(p)
  <2>1. TypeOK'
    <3>1. stop' \in [Stopper -> StopState]
      BY <1>3 DEF StopWait, StopSatisfied, Goto, Returns, TypeOK, StopState,
         LifecycleState
    <3>2. QED
      BY <1>3, <3>1 DEF StopWait, StopSatisfied, Goto, Returns, TypeOK, Stopper
  <2>2. SlotInv'
    BY <1>3 DEF StopWait, StopSatisfied, Goto, Returns, TypeOK, Worker,
       LifecycleState, HttpState, WorkerState, SlotInv, HandlerHolds,
       HandlerOpen, WorkerHolds, WorkerOpen
  <2>3. AsyncInv'
    BY <1>3 DEF StopWait, StopSatisfied, Goto, Returns, TypeOK, Worker,
       LifecycleState, HttpState, WorkerState, SlotInv, AsyncInv, HandlerHolds,
       HandlerOpen, WorkerHolds, WorkerOpen
  <2>4. FreshInv'
    BY <1>3 DEF StopWait, StopSatisfied, Goto, Returns, TypeOK, Worker,
       LifecycleState, HttpState, WorkerState, FreshInv, SlotInv, HandlerHolds,
       HandlerOpen, WorkerHolds, WorkerOpen
  <2>5. StopInv'
    BY <1>3 DEF StopWait, StopSatisfied, Goto, Returns, TypeOK, Worker,
       LifecycleState, HttpState, WorkerState, StopState, Stopper, SlotInv,
       StopInv, StopHolds, HandlerHolds, HandlerOpen, WorkerHolds, WorkerOpen
  <2>6. StaleInv'
    BY <1>3 DEF StopWait, StopSatisfied, Goto, Returns, TypeOK, Worker,
       SessionState, HttpState, WorkerState, SlotInv, StaleInv, Over,
       HandlerHolds, HandlerOpen, WorkerHolds, WorkerOpen
  <2>7. QED
    BY <2>1, <2>2, <2>3, <2>4, <2>5, <2>6
<1>4. CASE StopClearSession(p)
  <2>1. TypeOK'
    <3>1. session' \in SessionState
      BY <1>4 DEF StopClearSession, NewGeneration, Goto, TypeOK, SessionState
    <3>2. stop' \in [Stopper -> StopState]
      BY <1>4 DEF StopClearSession, NewGeneration, Goto, TypeOK, StopState,
         LifecycleState
    <3>3. QED
      BY <1>4, <3>1, <3>2 DEF StopClearSession, NewGeneration, Goto, TypeOK,
         Stopper
  <2>2. SlotInv'
    BY <1>4 DEF StopClearSession, NewGeneration, Goto, TypeOK, Worker,
       LifecycleState, HttpState, WorkerState, SlotInv, HandlerHolds,
       HandlerOpen, WorkerHolds, WorkerOpen
  <2>3. AsyncInv'
    BY <1>4 DEF StopClearSession, NewGeneration, Goto, TypeOK, Worker,
       LifecycleState, HttpState, WorkerState, SlotInv, AsyncInv, HandlerHolds,
       HandlerOpen, WorkerHolds, WorkerOpen
  <2>4. FreshInv'
    BY <1>4 DEF StopClearSession, NewGeneration, Goto, TypeOK, Worker,
       LifecycleState, HttpState, WorkerState, FreshInv, SlotInv, HandlerHolds,
       HandlerOpen, WorkerHolds, WorkerOpen
  <2>5. StopInv'
    BY <1>4 DEF StopClearSession, NewGeneration, Goto, TypeOK, Worker,
       LifecycleState, HttpState, WorkerState, StopState, Stopper, SlotInv,
       StopInv, StopHolds, HandlerHolds, HandlerOpen, WorkerHolds, WorkerOpen
  <2>6. StaleInv'
    BY <1>4 DEF StopClearSession, NewGeneration, Goto, TypeOK, Worker,
       SessionState, HttpState, WorkerState, SlotInv, StaleInv, Over,
       HandlerHolds, HandlerOpen, WorkerHolds, WorkerOpen
  <2>7. QED
    BY <2>1, <2>2, <2>3, <2>4, <2>5, <2>6
<1>5. CASE HttpdStop(p)
  <2>1. /\ server = "up" /\ ~lifecycle.active
        /\ \A q \in Stopper : q # p => stop[q].pc \notin StopHolds
    BY <1>5 DEF HttpdStop, StopInv, StopHolds
  <2>2. TypeOK'
    <3>1. stop' \in [Stopper -> StopState]
      BY <1>5, <2>1 DEF HttpdStop, Goto, TypeOK, StopState, LifecycleState
    <3>2. QED
      BY <1>5, <3>1 DEF HttpdStop, Goto, TypeOK, Stopper
  <2>3. SlotInv'
    BY <1>5, <2>1 DEF HttpdStop, Goto, TypeOK, Worker, LifecycleState,
       HttpState, WorkerState, SlotInv, HandlerHolds, HandlerOpen, WorkerHolds,
       WorkerOpen
  <2>4. AsyncInv'
    BY <1>5, <2>1 DEF HttpdStop, Goto, TypeOK, Worker, LifecycleState,
       HttpState, WorkerState, SlotInv, AsyncInv, HandlerHolds, HandlerOpen,
       WorkerHolds, WorkerOpen
  <2>5. FreshInv'
    BY <1>5, <2>1 DEF HttpdStop, Goto, TypeOK, Worker, LifecycleState,
       HttpState, WorkerState, FreshInv, SlotInv, HandlerHolds, HandlerOpen,
       WorkerHolds, WorkerOpen
  <2>6. StopInv'
    BY <1>5, <2>1 DEF HttpdStop, Goto, TypeOK, Worker, LifecycleState,
       HttpState, WorkerState, StopState, Stopper, SlotInv, StopInv, StopHolds,
       HandlerHolds, HandlerOpen, WorkerHolds, WorkerOpen
  <2>7. StaleInv'
    BY <1>5, <2>1 DEF HttpdStop, Goto, TypeOK, Worker, SessionState, HttpState,
       WorkerState, SlotInv, StaleInv, Over, HandlerHolds, HandlerOpen,
       WorkerHolds, WorkerOpen
  <2>8. QED
    BY <2>2, <2>3, <2>4, <2>5, <2>6, <2>7
<1>6. CASE StopInitLifecycle(p)
  <2>1. server = "ended" /\ http.pc = "idle" /\ ~lifecycle.active /\ lifecycle.current = 0
    BY <1>6 DEF StopInitLifecycle, SlotInv, StopInv
  <2>2. \A w \in Worker : worker[w].pc \notin WorkerHolds
    BY <1>6, <2>1 DEF SlotInv, Worker
  <2>3. TypeOK'
    <3>1. lifecycle' \in LifecycleState
      BY <1>6, <2>1, <2>2 DEF StopInitLifecycle, FreshLifecycle, Goto, TypeOK,
         LifecycleState
    <3>2. stop' \in [Stopper -> StopState]
      BY <1>6, <2>1, <2>2 DEF StopInitLifecycle, FreshLifecycle, Goto, TypeOK,
         StopState, LifecycleState
    <3>3. QED
      BY <1>6, <3>1, <3>2 DEF StopInitLifecycle, FreshLifecycle, Goto, TypeOK,
         Stopper
  <2>4. SlotInv'
    BY <1>6, <2>1, <2>2 DEF StopInitLifecycle, FreshLifecycle, Goto, TypeOK,
       Worker, LifecycleState, HttpState, WorkerState, SlotInv, HandlerHolds,
       HandlerOpen, WorkerHolds, WorkerOpen
  <2>5. AsyncInv'
    BY <1>6, <2>1, <2>2 DEF StopInitLifecycle, FreshLifecycle, Goto, TypeOK,
       Worker, LifecycleState, HttpState, WorkerState, SlotInv, AsyncInv,
       HandlerHolds, HandlerOpen, WorkerHolds, WorkerOpen
  <2>6. FreshInv'
    BY <1>6, <2>1, <2>2 DEF StopInitLifecycle, FreshLifecycle, Goto, TypeOK,
       Worker, LifecycleState, HttpState, WorkerState, FreshInv, SlotInv,
       HandlerHolds, HandlerOpen, WorkerHolds, WorkerOpen
  <2>7. StopInv'
    BY <1>6, <2>1, <2>2 DEF StopInitLifecycle, FreshLifecycle, Goto, TypeOK,
       Worker, LifecycleState, HttpState, WorkerState, StopState, Stopper,
       SlotInv, StopInv, StopHolds, HandlerHolds, HandlerOpen, WorkerHolds,
       WorkerOpen
  <2>8. StaleInv'
    BY <1>6, <2>1, <2>2 DEF StopInitLifecycle, FreshLifecycle, Goto, TypeOK,
       Worker, SessionState, HttpState, WorkerState, SlotInv, StaleInv, Over,
       HandlerHolds, HandlerOpen, WorkerHolds, WorkerOpen
  <2>9. QED
    BY <2>3, <2>4, <2>5, <2>6, <2>7, <2>8
<1>7. CASE StopClearServer(p)
  <2>1. \A q \in Stopper : q # p => stop[q].pc \notin StopHolds
    BY <1>7 DEF StopClearServer, StopInv, StopHolds
  <2>2. /\ stop'[p].pc = "unlock"
        /\ \A q \in Stopper : q # p => stop'[q] = stop[q]
    BY <1>7, <2>1 DEF StopClearServer, TypeOK, StopState
  <2>3. TypeOK'
    <3>1. stop' \in [Stopper -> StopState]
      <4> DEFINE new == [stop[p] EXCEPT !.pc = "unlock", !.result = "ok"]
      <4>1. new \in StopState
        BY <1>7 DEF TypeOK, StopState
      <4>2. stop' = [stop EXCEPT ![p] = new]
        BY <1>7 DEF StopClearServer
      <4>3. QED
        BY <4>1, <4>2 DEF TypeOK
    <3>2. QED
      BY <1>7, <3>1 DEF StopClearServer, TypeOK, Stopper
  <2>4. SlotInv'
    BY <1>7, <2>1, <2>2 DEF StopClearServer, TypeOK, Worker, LifecycleState,
       HttpState, WorkerState, SlotInv, HandlerHolds, HandlerOpen, WorkerHolds,
       WorkerOpen
  <2>5. AsyncInv'
    BY <1>7, <2>1, <2>2 DEF StopClearServer, TypeOK, Worker, LifecycleState,
       HttpState, WorkerState, SlotInv, AsyncInv, HandlerHolds, HandlerOpen,
       WorkerHolds, WorkerOpen
  <2>6. FreshInv'
    BY <1>7, <2>1, <2>2 DEF StopClearServer, TypeOK, Worker, LifecycleState,
       HttpState, WorkerState, FreshInv, SlotInv, HandlerHolds, HandlerOpen,
       WorkerHolds, WorkerOpen
  <2>7. StopInv'
    <3>1. /\ server = "ended" /\ server' = "null" /\ stopInProgress
          /\ http.pc = "idle" /\ ~lifecycle.active
      BY <1>7 DEF StopClearServer, StopInv, StopHolds
    <3>2. lifecycle' = lifecycle /\ http' = http /\ stopInProgress' = stopInProgress
      BY <1>7 DEF StopClearServer
    <3>3. QED
      BY <2>1, <2>2, <3>1, <3>2 DEF StopInv, StopHolds
  <2>8. StaleInv'
    BY <1>7, <2>1, <2>2 DEF StopClearServer, TypeOK, Worker, SessionState,
       HttpState, WorkerState, SlotInv, StaleInv, Over, HandlerHolds,
       HandlerOpen, WorkerHolds, WorkerOpen
  <2>9. QED
    BY <2>3, <2>4, <2>5, <2>6, <2>7, <2>8
<1>8. CASE StopUnlock(p)
  <2>1. TypeOK'
    <3>1. stop' \in [Stopper -> StopState]
      BY <1>8 DEF StopUnlock, Goto, TypeOK, StopState, LifecycleState
    <3>2. QED
      BY <1>8, <3>1 DEF StopUnlock, Goto, TypeOK, Stopper
  <2>2. SlotInv'
    BY <1>8 DEF StopUnlock, Goto, TypeOK, Worker, LifecycleState, HttpState,
       WorkerState, SlotInv, HandlerHolds, HandlerOpen, WorkerHolds, WorkerOpen
  <2>3. AsyncInv'
    BY <1>8 DEF StopUnlock, Goto, TypeOK, Worker, LifecycleState, HttpState,
       WorkerState, SlotInv, AsyncInv, HandlerHolds, HandlerOpen, WorkerHolds,
       WorkerOpen
  <2>4. FreshInv'
    BY <1>8 DEF StopUnlock, Goto, TypeOK, Worker, LifecycleState, HttpState,
       WorkerState, FreshInv, SlotInv, HandlerHolds, HandlerOpen, WorkerHolds,
       WorkerOpen
  <2>5. StopInv'
    BY <1>8 DEF StopUnlock, Goto, TypeOK, Worker, LifecycleState, HttpState,
       WorkerState, StopState, Stopper, SlotInv, StopInv, StopHolds,
       HandlerHolds, HandlerOpen, WorkerHolds, WorkerOpen
  <2>6. StaleInv'
    BY <1>8 DEF StopUnlock, Goto, TypeOK, Worker, SessionState, HttpState,
       WorkerState, SlotInv, StaleInv, Over, HandlerHolds, HandlerOpen,
       WorkerHolds, WorkerOpen
  <2>7. QED
    BY <2>1, <2>2, <2>3, <2>4, <2>5, <2>6
<1>9. CASE DisableSoftap(p)
  <2>1. TypeOK'
    <3>1. stop' \in [Stopper -> StopState]
      BY <1>9 DEF DisableSoftap, Goto, TypeOK, StopState, LifecycleState
    <3>2. QED
      BY <1>9, <3>1 DEF DisableSoftap, Goto, TypeOK, Stopper
  <2>2. SlotInv'
    BY <1>9 DEF DisableSoftap, Goto, TypeOK, Worker, LifecycleState, HttpState,
       WorkerState, SlotInv, HandlerHolds, HandlerOpen, WorkerHolds, WorkerOpen
  <2>3. AsyncInv'
    BY <1>9 DEF DisableSoftap, Goto, TypeOK, Worker, LifecycleState, HttpState,
       WorkerState, SlotInv, AsyncInv, HandlerHolds, HandlerOpen, WorkerHolds,
       WorkerOpen
  <2>4. FreshInv'
    BY <1>9 DEF DisableSoftap, Goto, TypeOK, Worker, LifecycleState, HttpState,
       WorkerState, FreshInv, SlotInv, HandlerHolds, HandlerOpen, WorkerHolds,
       WorkerOpen
  <2>5. StopInv'
    BY <1>9 DEF DisableSoftap, Goto, TypeOK, Worker, LifecycleState, HttpState,
       WorkerState, StopState, Stopper, SlotInv, StopInv, StopHolds,
       HandlerHolds, HandlerOpen, WorkerHolds, WorkerOpen
  <2>6. StaleInv'
    BY <1>9 DEF DisableSoftap, Goto, TypeOK, Worker, SessionState, HttpState,
       WorkerState, SlotInv, StaleInv, Over, HandlerHolds, HandlerOpen,
       WorkerHolds, WorkerOpen
  <2>7. QED
    BY <2>1, <2>2, <2>3, <2>4, <2>5, <2>6
<1>10. QED
  BY <1>1, <1>2, <1>3, <1>4, <1>5, <1>6, <1>7, <1>8, <1>9 DEF Stop

-----------------------------------------------------------------------------
\* The service starts in a state of the invariant.
LEMMA InitIInv == Init => IInv
<1> SUFFICES ASSUME Init PROVE IInv
  OBVIOUS
<1> USE ServiceAssumption
<1>1. TypeOK
  <2>1. /\ session \in SessionState /\ lifecycle \in LifecycleState
        /\ HttpIdle \in HttpState /\ NoWorker \in WorkerState /\ NoCall \in StopState
    BY DEF Init, SessionState, LifecycleState, FreshLifecycle, HttpState,
       HttpIdle, WorkerState, NoWorker, StopState, NoCall
  <2>2. QED
    BY <2>1 DEF Init, TypeOK
<1>2. SlotInv /\ AsyncInv /\ FreshInv
  BY DEF Init, SlotInv, AsyncInv, FreshInv, FreshLifecycle, HttpIdle, NoWorker,
     HandlerHolds, HandlerOpen, WorkerHolds, WorkerOpen, Worker
<1>3. StopInv
  BY DEF Init, StopInv, FreshLifecycle, HttpIdle, NoCall, StopHolds
<1>4. StaleInv
  BY DEF Init, StaleInv, Over, HttpIdle, NoWorker
<1>5. QED
  BY <1>1, <1>2, <1>3, <1>4 DEF IInv

\* Every step of every task preserves the invariant.
LEMMA StepIInv == IInv /\ [Next]_vars => IInv'
<1> SUFFICES ASSUME IInv, [Next]_vars PROVE IInv'
  OBVIOUS
<1>1. CASE UNCHANGED vars
  BY <1>1 DEF vars, IInv, TypeOK, SlotInv, AsyncInv, FreshInv, StopInv,
     StaleInv, Over
<1>2. CASE Next
  BY <1>2, SessionSteps, HandlerSteps, WorkerSteps, StopSteps DEF Next, Handler
<1>3. QED
  BY <1>1, <1>2

\* The invariant holds throughout.
THEOREM ServiceInvariant == Spec => []IInv
BY InitIInv, StepIInv, PTL DEF Spec

\* The tasks' positions and the lifecycle's generations stay in range: the
\* service never admits more streams than generations nor loses count of the
\* iterations of a worker.
THEOREM ServiceTypeCorrect == Spec => []TypeOK
<1>1. IInv => TypeOK
  BY DEF IInv
<1>2. QED
  BY <1>1, ServiceInvariant, PTL

\* httpd_stop never frees the server under a handler or an asynchronous
\* request, for any number of streams and whichever task stops it.
THEOREM ServerAlwaysOutlivesStreams == Spec => []ServerOutlivesStreams
<1>1. IInv => ServerOutlivesStreams
  BY DEF IInv, ServerOutlivesStreams, StopInv, SlotInv, AsyncInv, HandlerOpen,
     WorkerOpen, WorkerHolds, Worker
<1>2. QED
  BY <1>1, ServiceInvariant, PTL

\* The stream slot is never leaked and never held twice, through every
\* failure path of a stream's set-up.
THEOREM SlotAlwaysOwned == Spec => []SlotOwned
<1>1. IInv => SlotOwned
  BY DEF IInv, SlotOwned, SlotInv, AsyncInv, HandlerOpen, HandlerHolds,
     WorkerOpen, WorkerHolds
<1>2. QED
  BY <1>1, ServiceInvariant, PTL

\* A worker sends at most one batch after its session has ended, however
\* logins, logouts and expiry fall between its two checks.
THEOREM StreamAlwaysEndsWithSession == Spec => []StreamEndsWithSession
<1>1. IInv => StreamEndsWithSession
  BY DEF IInv, StaleInv, StreamEndsWithSession
<1>2. QED
  BY <1>1, ServiceInvariant, PTL

=============================================================================
