------------------------ MODULE ProvisioningService ------------------------
(***************************************************************************)
(* The life of the provisioning HTTP server: sessions, the one diagnostic  *)
(* stream, and the shutdown of the server (provisioning_service.c and the  *)
(* stream lifecycle of provisioning_security.c, with the two callers of    *)
(* provisioning_service_stop in app_main.c).                               *)
(*                                                                         *)
(* Tasks: the HTTP server runs one handler at a time; a stream is handed   *)
(* over to a worker task of its own; app_main and maintenance_task may     *)
(* each stop the service.  stream_mutex and service_state_lock are held    *)
(* for a few statements only, so one critical section is one action, and   *)
(* what a task read in one section may be out of date in the next.         *)
(*                                                                         *)
(* Abstractions.  A session is its generation and whether its token is     *)
(* set and has not expired; a client that asks for the stream presents the *)
(* current token or its request changes nothing.  The stream's socket is   *)
(* left out: closing it makes a send fail, which a send may do at any      *)
(* time.  A request that is answered without a change of state is left     *)
(* out, among them the logins that are refused.  The device is a           *)
(* configured one; an unprovisioned one is the same without the stops.     *)
(***************************************************************************)
EXTENDS Integers

CONSTANTS
    MaxWorkers,     \* bound: streams admitted (2^64 - 1 in the code)
    MaxSession,     \* bound: a login or logout needs a lower generation
                    \* (2^64 in the code)
    Iterations      \* batches a worker sends at most, 30 in the code

ASSUME ServiceAssumption ==
    /\ MaxWorkers \in Nat /\ MaxSession \in Nat /\ Iterations \in Nat \ {0}

Worker == 1..MaxWorkers

Stopper == {"app", "maintenance"}

VARIABLES
    server,       \* the httpd task and handle: "up", "ended", "null"
    softap,       \* is the SoftAP up, the only way for a request to come in
    session,      \* session_generation, and is its token set and unexpired
    lifecycle,    \* stream_lifecycle
    http,         \* the handler in progress and its local variables
    worker,       \* the worker tasks by generation
    async,        \* the asynchronous requests by worker generation
    stop,         \* the calls of provisioning_service_stop
    stopInProgress,  \* service_stop_in_progress
    \* History, read by no action:
    stale         \* batches a worker sent since its session ended

vars == <<server, softap, session, lifecycle, http, worker, async, stop,
          stopInProgress, stale>>

HttpIdle == [pc |-> "idle", session |-> 0, worker |-> 0]

NoWorker == [pc |-> "none", session |-> 0, valid |-> FALSE, left |-> 0]

NoCall == [pc |-> "off", worker |-> 0, result |-> "ok"]

\* provisioning_stream_lifecycle_init.
FreshLifecycle == [next |-> 0, current |-> 0, completed |-> 0, active |-> FALSE,
                   shutdown |-> FALSE, stopping |-> FALSE]

SessionState == [generation : Nat, open : BOOLEAN]

LifecycleState ==
    [next : 0..MaxWorkers, current : 0..MaxWorkers, completed : 0..MaxWorkers,
     active : BOOLEAN, shutdown : BOOLEAN, stopping : BOOLEAN]

HttpState ==
    [pc : {"idle", "logout", "revoke", "stream", "admitted", "begun", "ready",
           "attached", "abandon", "release"},
     session : Nat, worker : 0..MaxWorkers]

WorkerState ==
    [pc : {"none", "session", "current", "send", "complete", "release", "deleted"},
     session : Nat, valid : BOOLEAN, left : 0..Iterations]

StopState ==
    [pc : {"off", "request", "wait", "clear", "httpd", "init", "null", "unlock",
           "softap", "done"},
     worker : 0..MaxWorkers, result : {"ok", "timeout", "failed"}]

TypeOK ==
    /\ server \in {"up", "ended", "null"}
    /\ softap \in BOOLEAN
    /\ session \in SessionState
    /\ lifecycle \in LifecycleState
    /\ http \in HttpState
    /\ worker \in [Worker -> WorkerState]
    /\ async \in [Worker -> {"none", "open", "completed"}]
    /\ stop \in [Stopper -> StopState]
    /\ stopInProgress \in BOOLEAN
    /\ stale \in [Worker -> Nat]

\* provisioning_service_start has returned.
Init ==
    /\ server = "up"
    /\ softap = TRUE
    /\ session = [generation |-> 0, open |-> FALSE]
    /\ lifecycle = FreshLifecycle
    /\ http = HttpIdle
    /\ worker = [w \in Worker |-> NoWorker]
    /\ async = [w \in Worker |-> "none"]
    /\ stop = [p \in Stopper |-> NoCall]
    /\ stopInProgress = FALSE
    /\ stale = [w \in Worker |-> 0]

-----------------------------------------------------------------------------
(* The stream lifecycle, under stream_mutex.                               *)

\* provisioning_stream_admit.
Admissible(l) == ~l.active /\ ~l.stopping

Admitted(l) == [l EXCEPT !.next = @ + 1, !.current = l.next + 1,
                         !.active = TRUE, !.shutdown = FALSE]

\* provisioning_stream_attach_socket and provisioning_stream_worker_current.
Current(l, w) == l.active /\ l.current = w /\ ~l.shutdown /\ ~l.stopping

ShutdownRequested(l, stopping) ==
    [l EXCEPT !.stopping = @ \/ stopping, !.shutdown = @ \/ l.active]

\* provisioning_stream_complete.
Completed(l, w) ==
    IF l.active /\ l.current = w
    THEN [l EXCEPT !.completed = w, !.current = 0, !.active = FALSE, !.shutdown = FALSE]
    ELSE l

\* provisioning_stream_stop_satisfied.
StopSatisfied(l, w) ==
    w = 0 \/ (l.completed >= w /\ (~l.active \/ l.current # w))

-----------------------------------------------------------------------------
(* Sessions.                                                               *)

\* A request comes in; no handler is in progress.
Incoming == server = "up" /\ softap /\ http.pc = "idle"

NewGeneration(open) ==
    session' = [generation |-> session.generation + 1, open |-> open]

\* session_create_handler with the right secret: it does not ask whether the
\* service is stopping.  request_stream_shutdown follows.
Login ==
    /\ Incoming
    /\ session.generation < MaxSession
    /\ NewGeneration(TRUE)
    /\ http' = [HttpIdle EXCEPT !.pc = "revoke"]
    /\ UNCHANGED <<server, softap, lifecycle, worker, async, stop, stopInProgress, stale>>

\* A request for a logout or for the stream.  The stream asks authenticated().
\* The logout asks require_auth, which returns what became of the 401 response:
\* ESP_OK once it is sent, and the handler goes on as if authorized.
Authenticate(next) ==
    /\ Incoming
    /\ next = "stream" =>
          ~lifecycle.stopping /\ session.open /\ lifecycle.next < MaxWorkers
    /\ next = "logout" => session.generation < MaxSession
    /\ http' = [HttpIdle EXCEPT !.pc = next, !.session = session.generation]
    /\ UNCHANGED <<server, softap, session, lifecycle, worker, async, stop,
                   stopInProgress, stale>>

\* session_delete_handler, session_clear.
Logout ==
    /\ http.pc = "logout"
    /\ NewGeneration(FALSE)
    /\ http' = [http EXCEPT !.pc = "revoke"]
    /\ UNCHANGED <<server, softap, lifecycle, worker, async, stop, stopInProgress, stale>>

\* request_stream_shutdown(false), the end of both handlers.
Revoke ==
    /\ http.pc = "revoke"
    /\ lifecycle' = ShutdownRequested(lifecycle, FALSE)
    /\ http' = HttpIdle
    /\ UNCHANGED <<server, softap, session, worker, async, stop, stopInProgress, stale>>

\* session_expires_ms passes.
SessionExpires ==
    /\ session.open
    /\ session' = [session EXCEPT !.open = FALSE]
    /\ UNCHANGED <<server, softap, lifecycle, http, worker, async, stop,
                   stopInProgress, stale>>

-----------------------------------------------------------------------------
(* logs_stream_handler.                                                    *)

\* The session is looked at again under both locks; 204 or 409 otherwise, and
\* when the request names another generation.
StreamAdmit ==
    /\ http.pc = "stream"
    /\ \/ /\ session.open /\ session.generation = http.session
          /\ Admissible(lifecycle)
          /\ lifecycle' = Admitted(lifecycle)
          /\ http' = [http EXCEPT !.pc = "admitted", !.worker = lifecycle'.current]
       \/ /\ http' = HttpIdle
          /\ UNCHANGED lifecycle
    /\ UNCHANGED <<server, softap, session, worker, async, stop, stopInProgress, stale>>

\* httpd_req_async_handler_begin.
StreamBegin ==
    /\ http.pc = "admitted"
    /\ \/ http' = [http EXCEPT !.pc = "begun"] /\ async' = [async EXCEPT ![http.worker] = "open"]
       \/ http' = [http EXCEPT !.pc = "release"] /\ UNCHANGED async
    /\ UNCHANGED <<server, softap, session, lifecycle, worker, stop, stopInProgress, stale>>

\* calloc of the context.
StreamContext ==
    /\ http.pc = "begun"
    /\ http' \in {[http EXCEPT !.pc = "ready"], [http EXCEPT !.pc = "abandon"]}
    /\ UNCHANGED <<server, softap, session, lifecycle, worker, async, stop,
                   stopInProgress, stale>>

\* provisioning_stream_attach_socket; the socket may also be invalid.
StreamAttach ==
    /\ http.pc = "ready"
    /\ \/ Current(lifecycle, http.worker) /\ http' = [http EXCEPT !.pc = "attached"]
       \/ http' = [http EXCEPT !.pc = "abandon"]
    /\ UNCHANGED <<server, softap, session, lifecycle, worker, async, stop,
                   stopInProgress, stale>>

\* Mutant: the slot is not given back when the worker cannot be created.
StreamCreateLeaks ==
    /\ http.pc = "attached"
    /\ \/ /\ worker' = [worker EXCEPT ![http.worker] =
                [pc |-> "session", session |-> http.session, valid |-> FALSE,
                 left |-> Iterations]]
          /\ UNCHANGED async
       \/ UNCHANGED worker /\ async' = [async EXCEPT ![http.worker] = "completed"]
    /\ http' = HttpIdle
    /\ UNCHANGED <<server, softap, session, lifecycle, stop, stopInProgress, stale>>
\* xTaskCreate.
StreamCreate ==
    /\ http.pc = "attached"
    /\ \/ /\ worker' = [worker EXCEPT ![http.worker] =
                [pc |-> "session", session |-> http.session, valid |-> FALSE,
                 left |-> Iterations]]
          /\ http' = HttpIdle
       \/ http' = [http EXCEPT !.pc = "abandon"] /\ UNCHANGED worker
    /\ UNCHANGED <<server, softap, session, lifecycle, async, stop, stopInProgress, stale>>

\* The failure paths: complete the asynchronous request, then the slot.
StreamAbandon ==
    /\ http.pc = "abandon"
    /\ async' = [async EXCEPT ![http.worker] = "completed"]
    /\ http' = [http EXCEPT !.pc = "release"]
    /\ UNCHANGED <<server, softap, session, lifecycle, worker, stop, stopInProgress, stale>>

StreamRelease ==
    /\ http.pc = "release"
    /\ lifecycle' = Completed(lifecycle, http.worker)
    /\ http' = HttpIdle
    /\ UNCHANGED <<server, softap, session, worker, async, stop, stopInProgress, stale>>

-----------------------------------------------------------------------------
(* logs_stream_worker.                                                     *)

\* Mutant: only the worker's generation is looked at.
SessionUnchecked(w) == TRUE
SessionValid(w) == session.open /\ session.generation = worker[w].session

\* stream_session_is_valid: the session, under one lock ...
CheckSession(w) ==
    /\ worker[w].pc = "session"
    /\ worker' = [worker EXCEPT ![w].pc = "current", ![w].valid = SessionValid(w)]
    /\ UNCHANGED <<server, softap, session, lifecycle, http, async, stop,
                   stopInProgress, stale>>

\* ... and the worker, under the other.
CheckCurrent(w) ==
    /\ worker[w].pc = "current"
    /\ worker' = [worker EXCEPT ![w].pc =
                     IF worker[w].valid /\ Current(lifecycle, w)
                     THEN "send" ELSE "complete"]
    /\ UNCHANGED <<server, softap, session, lifecycle, http, async, stop,
                   stopInProgress, stale>>

\* Mutant: one iteration too many.
SendBatchOnceMore(w) ==
    /\ worker[w].pc = "send"
    /\ \/ /\ worker' = [worker EXCEPT ![w].left = @ - 1,
                             ![w].pc = IF worker[w].left > 0 THEN "session" ELSE "complete"]
          /\ stale' = IF SessionValid(w) THEN stale ELSE [stale EXCEPT ![w] = @ + 1]
       \/ /\ worker' = [worker EXCEPT ![w].pc = "complete"]
          /\ UNCHANGED stale
    /\ UNCHANGED <<server, softap, session, lifecycle, http, async, stop, stopInProgress>>
\* One batch; a failed send or the last iteration ends the loop.
SendBatch(w) ==
    /\ worker[w].pc = "send"
    /\ \/ /\ worker' = [worker EXCEPT ![w].left = @ - 1,
                             ![w].pc = IF worker[w].left > 1 THEN "session" ELSE "complete"]
          /\ stale' = IF session.open /\ session.generation = worker[w].session
                      THEN stale ELSE [stale EXCEPT ![w] = @ + 1]
       \/ /\ worker' = [worker EXCEPT ![w].pc = "complete"]
          /\ UNCHANGED stale
    /\ UNCHANGED <<server, softap, session, lifecycle, http, async, stop, stopInProgress>>

\* complete_stream_context.
CompleteRequest(w) ==
    /\ worker[w].pc = "complete"
    /\ async' = [async EXCEPT ![w] = "completed"]
    /\ worker' = [worker EXCEPT ![w].pc = "release"]
    /\ UNCHANGED <<server, softap, session, lifecycle, http, stop, stopInProgress, stale>>

\* provisioning_stream_complete; then the task deletes itself.
ReleaseSlot(w) ==
    /\ worker[w].pc = "release"
    /\ lifecycle' = Completed(lifecycle, w)
    /\ worker' = [worker EXCEPT ![w].pc = "deleted"]
    /\ UNCHANGED <<server, softap, session, http, async, stop, stopInProgress, stale>>

-----------------------------------------------------------------------------
(* provisioning_service_stop, called by app_main once and by               *)
(* maintenance_task until it does not time out.                            *)

Goto(p, pc) == stop' = [stop EXCEPT ![p].pc = pc]
Returns(p, result) == stop' = [stop EXCEPT ![p].pc = "softap", ![p].result = result]

\* The compare-and-exchange; nothing to do when the server is gone.
StopBegin(p) ==
    /\ stop[p].pc = "off"
    /\ \/ stopInProgress /\ Returns(p, "timeout") /\ UNCHANGED stopInProgress
       \/ ~stopInProgress /\ server = "null" /\ Returns(p, "ok") /\ UNCHANGED stopInProgress
       \/ ~stopInProgress /\ server # "null" /\ Goto(p, "request") /\ stopInProgress' = TRUE
    /\ UNCHANGED <<server, softap, session, lifecycle, http, worker, async, stale>>

\* request_stream_shutdown(true).
StopRequest(p) ==
    /\ stop[p].pc = "request"
    /\ lifecycle' = ShutdownRequested(lifecycle, TRUE)
    /\ stop' = [stop EXCEPT ![p].pc = "wait", ![p].worker = lifecycle.current]
    /\ UNCHANGED <<server, softap, session, http, worker, async, stopInProgress, stale>>

\* Mutant: the server is stopped anyway when the deadline has passed.
StopWaitGivesUp(p) ==
    /\ stop[p].pc = "wait"
    /\ Goto(p, "clear")
    /\ UNCHANGED <<server, softap, session, lifecycle, http, worker, async,
                   stopInProgress, stale>>
\* The wait for that worker, with its deadline.
StopWait(p) ==
    /\ stop[p].pc = "wait"
    /\ \/ /\ StopSatisfied(lifecycle, stop[p].worker)
          /\ Goto(p, "clear")
          /\ UNCHANGED stopInProgress
       \/ /\ ~StopSatisfied(lifecycle, stop[p].worker)
          /\ Returns(p, "timeout")
          /\ stopInProgress' = FALSE
    /\ UNCHANGED <<server, softap, session, lifecycle, http, worker, async, stale>>

StopClearSession(p) ==
    /\ stop[p].pc = "clear"
    /\ NewGeneration(FALSE)
    /\ Goto(p, "httpd")
    /\ UNCHANGED <<server, softap, lifecycle, http, worker, async, stopInProgress, stale>>

\* httpd_stop (external) lets the handler in progress finish and deletes the
\* server's task and sessions, or cannot reach it.
HttpdStop(p) ==
    /\ stop[p].pc = "httpd"
    /\ \/ http.pc = "idle" /\ server' = "ended" /\ Goto(p, "init")
       \/ stop' = [stop EXCEPT ![p].pc = "unlock", ![p].result = "failed"] /\ UNCHANGED server
    /\ UNCHANGED <<softap, session, lifecycle, http, worker, async, stopInProgress, stale>>

StopInitLifecycle(p) ==
    /\ stop[p].pc = "init"
    /\ lifecycle' = FreshLifecycle
    /\ Goto(p, "null")
    /\ UNCHANGED <<server, softap, session, http, worker, async, stopInProgress, stale>>

StopClearServer(p) ==
    /\ stop[p].pc = "null"
    /\ server' = "null"
    /\ stop' = [stop EXCEPT ![p].pc = "unlock", ![p].result = "ok"]
    /\ UNCHANGED <<softap, session, lifecycle, http, worker, async, stopInProgress, stale>>

StopUnlock(p) ==
    /\ stop[p].pc = "unlock"
    /\ stopInProgress' = FALSE
    /\ Goto(p, "softap")
    /\ UNCHANGED <<server, softap, session, lifecycle, http, worker, async, stale>>

\* Mutant: a stop that timed out is not tried again.
DisableSoftapOnce(p) ==
    /\ stop[p].pc = "softap"
    /\ softap' \in {softap, FALSE}
    /\ Goto(p, "done")
    /\ UNCHANGED <<server, session, lifecycle, http, worker, async, stopInProgress, stale>>
\* wifi_disable_softap, which may fail; maintenance_task then tries again
\* what timed out.
DisableSoftap(p) ==
    /\ stop[p].pc = "softap"
    /\ softap' \in {softap, FALSE}
    /\ Goto(p, IF p = "maintenance" /\ stop[p].result = "timeout" THEN "off" ELSE "done")
    /\ UNCHANGED <<server, session, lifecycle, http, worker, async, stopInProgress, stale>>

-----------------------------------------------------------------------------
Handler ==
    \/ Logout \/ Revoke
    \/ StreamAdmit \/ StreamBegin \/ StreamContext \/ StreamAttach
    \/ StreamCreate \/ StreamAbandon \/ StreamRelease

Work(w) ==
    \/ CheckSession(w) \/ CheckCurrent(w) \/ SendBatch(w)
    \/ CompleteRequest(w) \/ ReleaseSlot(w)

Stop(p) ==
    \/ StopBegin(p) \/ StopRequest(p) \/ StopWait(p) \/ StopClearSession(p)
    \/ HttpdStop(p) \/ StopInitLifecycle(p) \/ StopClearServer(p)
    \/ StopUnlock(p) \/ DisableSoftap(p)

Next ==
    \/ Login \/ Authenticate("logout") \/ Authenticate("stream") \/ SessionExpires
    \/ Handler
    \/ \E w \in Worker : Work(w)
    \/ \E p \in Stopper : Stop(p)

Spec == Init /\ [][Next]_vars

\* Every handler and worker goes on (sends and receives time out), and so
\* does maintenance_task, whose window closes by the absolute deadline of
\* provisioning_state_tick.  app_main need not stop the service, but a stop
\* it has begun goes on.  Nothing is asked of the clients.
FairSpec ==
    /\ Spec
    /\ WF_vars(Handler)
    /\ \A w \in Worker : WF_vars(Work(w))
    /\ WF_vars(Stop("maintenance"))
    /\ WF_vars(stop["app"].pc # "off" /\ Stop("app"))

-----------------------------------------------------------------------------
\* httpd_stop frees the server only when no worker or handler still has an
\* asynchronous request of it, whichever task stops it, however often, and
\* wherever the stream was (docs/architecture.md:32).
ServerOutlivesStreams ==
    server # "up" => http.pc = "idle" /\ \A w \in Worker : async[w] # "open"

\* There is one stream at a time, and the slot is never leaked: as long as a
\* stream is admitted, the handler or the worker that has to release it is
\* there.  A leak would refuse every later stream and hold up every stop.
SlotOwned ==
    /\ lifecycle.active <=> lifecycle.current # 0
    /\ lifecycle.active =>
          \/ http.worker = lifecycle.current
          \/ worker[lifecycle.current].pc \notin {"none", "deleted"}
    /\ \A w \in Worker : async[w] = "open" => lifecycle.current = w

\* A worker sends at most the batch it was about to send once its session
\* has been replaced, closed or has expired.
StreamEndsWithSession == \A w \in Worker : stale[w] <= 1

\* Once maintenance_task has begun to stop the service, the server goes down,
\* unless httpd_stop itself fails: no time-out, concurrent stop by app_main
\* or stuck stream holds it up for ever.
ServiceStops ==
    stop["maintenance"].pc # "off" ~>
        (server = "null" \/ \E p \in Stopper : stop[p].result = "failed")

=============================================================================
