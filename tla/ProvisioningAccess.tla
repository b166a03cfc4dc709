------------------------- MODULE ProvisioningAccess -------------------------
(***************************************************************************)
(* Who may use the provisioning service, and for how long: login and its   *)
(* lockout, the session and its expiry, and the checks every handler makes *)
(* (provisioning_service.c, provisioning_security.c), against the          *)
(* maintenance window (provisioning_state.c), which authenticated requests *)
(* keep open and maintenance_task (app_main.c) closes.                     *)
(*                                                                         *)
(* The HTTP server runs one handler at a time, maintenance_task runs beside*)
(* it and time goes by between any two steps.  now_ms() is read before the *)
(* lock under which its value is used, so a reading may be old by then.    *)
(*                                                                         *)
(* Abstractions.  Time is counted in units of the deadlines.  A request    *)
(* carries the cookie and the CSRF token of the current session or not; a  *)
(* login carries the right secret or not.  Requests come in on the SoftAP. *)
(* What a handler does once it is past its checks is modelled elsewhere    *)
(* (DeviceConfig, DiagnosticRing); here it ends the session or not.  The   *)
(* diagnostic stream and the ways in which stopping the server can fail    *)
(* are those of ProvisioningService.                                       *)
(***************************************************************************)
EXTENDS Integers, Sequences

CONSTANTS
    Inactivity,    \* maintenance_window_seconds
    Absolute,      \* maintenance_max_session_seconds
    SessionLife,   \* CONFIG_PROVISIONING_SESSION_SECONDS
    MaxFailures,   \* CONFIG_PROVISIONING_LOGIN_MAX_FAILURES
    Lockout,       \* CONFIG_PROVISIONING_LOGIN_LOCKOUT_SECONDS
    MaxTime        \* bound: the clock

\* device_config_validate and Kconfig; the bound leaves time for the window to
\* close.
ASSUME AccessAssumption ==
    /\ Inactivity \in Nat \ {0} /\ Absolute \in Nat /\ Inactivity <= Absolute
    /\ SessionLife \in Nat \ {0} /\ MaxFailures \in Nat \ {0} /\ Lockout \in Nat \ {0}
    /\ MaxTime \in Nat /\ MaxTime > Absolute

Time == 0..MaxTime

VARIABLES
    now,           \* esp_timer_get_time
    window,        \* is the state MAINTENANCE_WINDOW; it is OPERATIONAL otherwise
    last,          \* last_authenticated_ms; opened_ms is 0
    failures,      \* login_failures
    lockedUntil,   \* login_locked_until_ms
    expires,       \* session_expires_ms, or -1 when no token is set
    http,          \* the handler in progress
    maintenance,   \* maintenance_task
    stopping,      \* service_stopping
    server,        \* is the server running
    \* History, read by no action:
    wrong          \* the times of the latest failed logins since one succeeded

vars == <<now, window, last, failures, lockedUntil, expires, http, maintenance, stopping,
          server, wrong>>

\* at: the time that was read.
Idle == [pc |-> "idle", op |-> "none", at |-> 0]

TypeOK ==
    /\ now \in Time
    /\ window \in BOOLEAN
    /\ last \in Time
    /\ failures \in 0..(MaxFailures - 1)
    /\ lockedUntil \in 0..(MaxTime + Lockout)
    /\ expires \in -1..(MaxTime + SessionLife)
    /\ http \in [pc : {"idle", "body", "login", "session", "renew", "renewed",
                       "refused", "act"},
                 op : {"none", "login", "logout", "other"}, at : Time]
    /\ maintenance \in [pc : {"read", "tick", "request", "clear", "httpd", "done"}, at : Time]
    /\ stopping \in BOOLEAN
    /\ server \in BOOLEAN
    /\ wrong \in Seq(Time)

\* provisioning_state_configuration_loaded for a configured device with
\* maintenance_on_boot, then provisioning_service_start.
Init ==
    /\ now = 0
    /\ window = TRUE
    /\ last = 0
    /\ failures = 0
    /\ lockedUntil = 0
    /\ expires = -1
    /\ http = Idle
    /\ maintenance = [pc |-> "read", at |-> 0]
    /\ stopping = FALSE
    /\ server = TRUE
    /\ wrong = <<>>

Incoming == server /\ http.pc = "idle"

-----------------------------------------------------------------------------
(* session_create_handler.                                                 *)

\* Mutant: the lockout is not looked at.
LoginUnlocked ==
    /\ Incoming
    /\ http' = [Idle EXCEPT !.pc = "body", !.op = "login"]
    /\ UNCHANGED <<now, window, last, failures, lockedUntil, expires, maintenance, stopping,
                   server, wrong>>
\* 429 as long as the login is locked.
Login ==
    /\ Incoming
    /\ now >= lockedUntil
    /\ http' = [Idle EXCEPT !.pc = "body", !.op = "login"]
    /\ UNCHANGED <<now, window, last, failures, lockedUntil, expires, maintenance, stopping,
                   server, wrong>>

\* receive_json: when nothing more comes, or the error response cannot be
\* sent, the handler ends; a body that is refused with a response goes on, as
\* an empty one.
ReceiveBody ==
    /\ http.pc = "body"
    /\ \/ http' = [http EXCEPT !.pc = "login"]
       \/ http' = Idle
    /\ UNCHANGED <<now, window, last, failures, lockedUntil, expires, maintenance, stopping,
                   server, wrong>>

\* The last MaxFailures + 1 elements.
Latest(s) == IF Len(s) > MaxFailures + 1 THEN Tail(s) ELSE s

\* Mutant: the count is not reset when the lockout begins.
LoginFailsKeepsCount ==
    /\ http.pc = "login"
    /\ lockedUntil' = IF failures + 1 >= MaxFailures THEN now + Lockout ELSE lockedUntil
    /\ failures' = failures + 1
    /\ wrong' = Latest(Append(wrong, now))
    /\ http' = Idle
    /\ UNCHANGED <<now, window, last, expires, maintenance, stopping, server>>
\* A wrong secret or no body, counted under service_state_lock; now_ms is read
\* there.
LoginFails ==
    /\ http.pc = "login"
    /\ IF failures + 1 >= MaxFailures
       THEN lockedUntil' = now + Lockout /\ failures' = 0
       ELSE failures' = failures + 1 /\ UNCHANGED lockedUntil
    /\ wrong' = Latest(Append(wrong, now))
    /\ http' = Idle
    /\ UNCHANGED <<now, window, last, expires, maintenance, stopping, server>>

\* A new session; the response is sent, and then now_ms is read.
LoginSucceeds ==
    /\ http.pc = "login"
    /\ failures' = 0
    /\ expires' = now + SessionLife
    /\ wrong' = <<>>
    /\ http' = [http EXCEPT !.pc = "renew"]
    /\ UNCHANGED <<now, window, last, lockedUntil, maintenance, stopping, server>>

-----------------------------------------------------------------------------
(* The handlers that need a session.                                       *)

\* authenticated() begins: the service must not be stopping.
Request(op) ==
    /\ Incoming
    /\ http' = [Idle EXCEPT !.pc = IF stopping THEN "refused" ELSE "session", !.op = op]
    /\ UNCHANGED <<now, window, last, failures, lockedUntil, expires, maintenance, stopping,
                   server, wrong>>

\* session_snapshot and provisioning_security_session_authorized: a session
\* that has not expired, its cookie, and for a change its CSRF token.
Authorize ==
    /\ http.pc = "session"
    /\ \/ now < expires /\ http' = [http EXCEPT !.pc = "renew"]
       \/ http' = [http EXCEPT !.pc = "refused"]
    /\ UNCHANGED <<now, window, last, failures, lockedUntil, expires, maintenance, stopping,
                   server, wrong>>

\* now_ms, the argument of provisioning_state_authenticated_activity ...
ReadActivityTime ==
    /\ http.pc = "renew"
    /\ http' = [http EXCEPT !.pc = "renewed", !.at = now]
    /\ UNCHANGED <<now, window, last, failures, lockedUntil, expires, maintenance, stopping,
                   server, wrong>>

\* ... and its body, under the lock.
Activity ==
    /\ http.pc = "renewed"
    /\ last' = IF window THEN http.at ELSE last
    /\ http' = IF http.op = "login" THEN Idle ELSE [http EXCEPT !.pc = "act", !.at = 0]
    /\ UNCHANGED <<now, window, failures, lockedUntil, expires, maintenance, stopping, server,
                   wrong>>

\* require_auth sends the 401 and returns what became of the sending: ESP_OK
\* once it is sent, which its callers take for an authorized request.
Refuse ==
    /\ http.pc = "refused"
    /\ \/ http' = [http EXCEPT !.pc = "act"]
       \/ http' = Idle
    /\ UNCHANGED <<now, window, last, failures, lockedUntil, expires, maintenance, stopping,
                   server, wrong>>

\* The rest of the handler.
Act ==
    /\ http.pc = "act"
    /\ expires' = IF http.op = "logout" THEN -1 ELSE expires
    /\ http' = Idle
    /\ UNCHANGED <<now, window, last, failures, lockedUntil, maintenance, stopping, server,
                   wrong>>

-----------------------------------------------------------------------------
(* maintenance_task.                                                       *)

\* monotonic_ms, the argument of provisioning_state_tick ...
ReadTickTime ==
    /\ maintenance.pc = "read"
    /\ maintenance' = [pc |-> "tick", at |-> now]
    /\ UNCHANGED <<now, window, last, failures, lockedUntil, expires, http, stopping, server,
                   wrong>>

\* Mutant: unsigned subtraction without the guard; activity noted after the
\* time was read makes the difference wrap.
IdleForWraps(at) == IF at >= last THEN at - last ELSE 2 * MaxTime
\* The time since the last authenticated request; it may be later than the
\* time that was read.
IdleFor(at) == IF at >= last THEN at - last ELSE 0

\* Mutant: authenticated requests postpone the absolute deadline too.
DeadlinePassedInactivity(at) == IdleFor(at) >= Inactivity
DeadlinePassed(at) == IdleFor(at) >= Inactivity \/ at >= Absolute

\* ... and its body, under the lock.
TickWindow ==
    /\ maintenance.pc = "tick"
    /\ window' = ~DeadlinePassed(maintenance.at)
    /\ maintenance' = [pc |-> IF window' THEN "read" ELSE "request", at |-> 0]
    /\ UNCHANGED <<now, last, failures, lockedUntil, expires, http, stopping, server, wrong>>

\* provisioning_service_stop: request_stream_shutdown(true), ...
StopRequest ==
    /\ maintenance.pc = "request"
    /\ stopping' = TRUE
    /\ maintenance' = [maintenance EXCEPT !.pc = "clear"]
    /\ UNCHANGED <<now, window, last, failures, lockedUntil, expires, http, server, wrong>>

\* ... session_clear ...
StopClearSession ==
    /\ maintenance.pc = "clear"
    /\ expires' = -1
    /\ maintenance' = [maintenance EXCEPT !.pc = "httpd"]
    /\ UNCHANGED <<now, window, last, failures, lockedUntil, http, stopping, server, wrong>>

\* ... and httpd_stop, which lets a handler finish; the lockout is reset.
StopServer ==
    /\ maintenance.pc = "httpd"
    /\ http.pc = "idle"
    /\ server' = FALSE
    /\ stopping' = FALSE
    /\ failures' = 0
    /\ lockedUntil' = 0
    /\ maintenance' = [maintenance EXCEPT !.pc = "done"]
    /\ UNCHANGED <<now, window, last, expires, http, wrong>>

-----------------------------------------------------------------------------
Handler ==
    \/ ReceiveBody \/ LoginFails \/ LoginSucceeds
    \/ Authorize \/ ReadActivityTime \/ Activity \/ Refuse \/ Act

MaintenanceTask ==
    ReadTickTime \/ TickWindow \/ StopRequest \/ StopClearSession \/ StopServer

TimePasses ==
    /\ now < MaxTime
    /\ now' = now + 1
    /\ UNCHANGED <<window, last, failures, lockedUntil, expires, http, maintenance, stopping,
                   server, wrong>>

Next ==
    \/ Login \/ Request("logout") \/ Request("other")
    \/ Handler \/ MaintenanceTask \/ TimePasses

Spec == Init /\ [][Next]_vars

\* Time passes, maintenance_task is scheduled, and a handler that has begun
\* goes on (receiving and sending time out).  httpd_stop is served before the
\* next request.
FairSpec ==
    /\ Spec
    /\ WF_vars(TimePasses) /\ WF_vars(Handler) /\ WF_vars(MaintenanceTask)
    /\ SF_vars(StopServer)

-----------------------------------------------------------------------------
\* The window does not close before its time: not while the last request that
\* was noted as authenticated is younger than the inactivity deadline, unless
\* the absolute one has passed, however the reading of the clock, the note of
\* the request and the tick interleave.
WindowKeptOpen ==
    [][window /\ ~window' => now - last >= Inactivity \/ now >= Absolute]_vars

\* The window closes and the server goes down, whatever requests come in and
\* however often they are authenticated.
WindowCloses == <>~server

\* A client that does not know the secret cannot try it more than MaxFailures
\* times in a time shorter than the lockout, wherever the limit is reached.
GuessesBounded ==
    \A i \in DOMAIN wrong : \A j \in DOMAIN wrong :
        j - i >= MaxFailures => wrong[j] - wrong[i] >= Lockout

=============================================================================
