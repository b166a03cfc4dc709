---------------------------- MODULE AlertEngine ----------------------------
(***************************************************************************)
(* The alert rules of the backend: the evaluation of each telemetry sample *)
(* by the collector (collector/subscriber.py, services/alert_engine.py)    *)
(* and the administration of rules by the API (services/alert_service.py), *)
(* on the tables of database/schema.sql.                                   *)
(*                                                                         *)
(* The collector is one process that handles one message at a time; each   *)
(* API request runs in a thread of its own (a Client).  They meet only in  *)
(* SQLite (WAL mode).  Python's sqlite3 opens a transaction at the first   *)
(* INSERT or UPDATE of a connection and not at a SELECT, so everything     *)
(* from the first write of a `with get_connection()' block to its end is   *)
(* one atomic action, and every SELECT before that write is an action of   *)
(* its own whose result may be out of date when it is used.                *)
(*                                                                         *)
(* Abstractions.  The model is about the rules of one device.  The fields  *)
(* name and severity of a rule decide nothing: a PATCH of them changes no  *)
(* state, a name conflict is a failed request.  resolved_at is left out.   *)
(* Telemetry is the samples' ids and nothing else: no action reads it.     *)
(***************************************************************************)
EXTENDS Integers, Sequences, FiniteSets, FiniteSetsExt

CONSTANTS
    NumRules,      \* rules are numbered 1..NumRules, AUTOINCREMENT
    Client,        \* API requests that may be in progress at one time
    Metric,        \* what a sample measures
    Value,         \* the values a measurement can have
    Definition,    \* the definitions rules are created with
    Patch,         \* the bodies of PATCH requests: some fields and their values
    None,          \* SQL NULL, Python None
    MaxTime,       \* bound: sample timestamps are 1..MaxTime
    MaxSamples,    \* bound: samples stored
    MaxEdits       \* bound: PATCH and DELETE requests

ASSUME AlertConstantsAssumption ==
    /\ NumRules \in Nat /\ MaxTime \in Nat /\ MaxSamples \in Nat /\ MaxEdits \in Nat
    /\ Value \subseteq Int
    /\ None \notin Value \cup Nat

Rule == 1..NumRules

SubstantialFields == {"metric", "operator", "threshold", "duration", "hysteresis"}

\* What the schemas of the API and the CHECKs of the table admit in each field
\* of a rule.
FieldType == [metric |-> Metric, operator |-> {"greater_than", "less_than"},
              threshold |-> Int, duration |-> Nat, hysteresis |-> Nat,
              enabled |-> BOOLEAN]

DefinitionType == [metric : FieldType.metric, operator : FieldType.operator,
                   threshold : FieldType.threshold, duration : FieldType.duration,
                   hysteresis : FieldType.hysteresis, enabled : FieldType.enabled]

RuleRow == [def : DefinitionType, archived : BOOLEAN]

ASSUME DefinitionAssumption ==
    /\ \A d \in Definition : d \in DefinitionType
    /\ \A p \in Patch : /\ DOMAIN p \subseteq DOMAIN FieldType
                        /\ \A f \in DOMAIN p : p[f] \in FieldType[f]
    /\ None \notin RuleRow

VARIABLES
    rule,        \* alert_rules: None, or the definition and archived_at
    runtime,     \* alert_rule_states
    log,         \* alert_events, per rule in the order of their ids
    collector,   \* the message the collector is handling
    request,     \* the API request each client has in progress
    nextId,      \* the next telemetry id
    edits,       \* requests begun, for the bound
    \* History, read by no action:
    accepted,    \* the samples evaluated for a rule since its last reset
    raced        \* rules written from a row that had changed since it was read

database == <<rule, runtime, log>>
vars == <<database, collector, request, nextId, edits, accepted, raced>>

Created == {r \in Rule : rule[r] # None}

-----------------------------------------------------------------------------
(* domain/alerts.py.                                                       *)

IsViolation(d, v) ==
    IF d.operator = "greater_than" THEN v > d.threshold ELSE v < d.threshold

\* Mutant: recovery at the threshold, whatever the hysteresis.
IsRecoveryNoHysteresis(d, v) ==
    IF d.operator = "greater_than" THEN v <= d.threshold ELSE v >= d.threshold
IsRecovery(d, v) ==
    IF d.operator = "greater_than" THEN v <= d.threshold - d.hysteresis
                                   ELSE v >= d.threshold + d.hysteresis

UpdateExtreme(d, a, b) ==
    IF d.operator = "greater_than" THEN Max({a, b}) ELSE Min({a, b})

-----------------------------------------------------------------------------
(* The tables.                                                             *)

Unevaluated == [state |-> "normal", since |-> None, extreme |-> None,
                lastAt |-> None, lastValue |-> None, lastId |-> None]

ActiveEvents(l) == {i \in DOMAIN l : l[i].status = "active"}

\* fetch_active_event.
ActiveEvent(l) == IF ActiveEvents(l) = {} THEN None ELSE Min(ActiveEvents(l))

\* Mutant: the UPDATE lacks "AND status = 'active'".
ResolveAllEvents(l, reason) ==
    [i \in DOMAIN l |-> [l[i] EXCEPT !.status = "resolved", !.reason = reason]]
\* UPDATE alert_events SET status = 'resolved' WHERE status = 'active'.
ResolveActive(l, reason) ==
    [i \in DOMAIN l |->
        IF l[i].status = "active"
        THEN [l[i] EXCEPT !.status = "resolved", !.reason = reason] ELSE l[i]]

Time == 1..MaxTime

RuntimeRow ==
    {x \in [state : {"normal", "pending", "active"}, since : Time \cup {None},
            extreme : Value \cup {None}, lastAt : Time \cup {None},
            lastValue : Value \cup {None}, lastId : Nat \cup {None}] :
        /\ x.state = "pending" <=> x.since # None
        /\ x.state = "pending" <=> x.extreme # None}

Event == [def : DefinitionType, status : {"active", "resolved"},
          reason : {None, "condition_recovered", "rule_disabled", "rule_updated",
                    "rule_archived"},
          started : Time, activated : Time, activation : Value, last : Value,
          extreme : Value]

Sample == [id : Nat, at : Time, measured : [Metric -> Value]]

RowRead == [def : DefinitionType, runtime : RuntimeRow]

Request == [op : {"update"}, rule : Rule, changes : Patch, current : DefinitionType]
               \cup [op : {"archive"}, rule : Rule]

Accepted == [at : Time, value : Value]

\* The columns' types and CHECKs and the unique index on active events.
TypeOK ==
    /\ rule \in [Rule -> RuleRow \cup {None}]
    /\ \A r \in Created : rule[r].archived => ~rule[r].def.enabled
    /\ runtime \in [Rule -> RuntimeRow]
    /\ log \in [Rule -> Seq(Event)]
    /\ \A r \in Rule : Cardinality(ActiveEvents(log[r])) <= 1
    /\ collector \in [pc : {"idle", "saved", "selected", "fetched"},
                      sample : Sample \cup {None}, rows : {collector.rows},
                      event : Nat \cup {None}]
    /\ DOMAIN collector.rows \subseteq Rule
    /\ collector.rows \in [DOMAIN collector.rows -> RowRead]
    /\ collector.pc # "idle" => collector.sample \in Sample
    /\ collector.pc = "fetched" <=> collector.event # None
    /\ request \in [Client -> Request \cup {None}]
    /\ nextId \in Nat /\ edits \in 0..MaxEdits
    /\ accepted \in [Rule -> Seq(Accepted)]
    /\ raced \subseteq Created

Idle == [pc |-> "idle", sample |-> None, rows |-> <<>>, event |-> None]

Init ==
    /\ rule = [r \in Rule |-> None]
    /\ runtime = [r \in Rule |-> Unevaluated]
    /\ log = [r \in Rule |-> <<>>]
    /\ collector = Idle
    /\ request = [c \in Client |-> None]
    /\ nextId = 1
    /\ edits = 0
    /\ accepted = [r \in Rule |-> <<>>]
    /\ raced = {}

-----------------------------------------------------------------------------
(* The collector: process_message for telemetry and AlertEngine.evaluate.  *)

\* save_telemetry commits the sample and assigns its id.  Timestamps are
\* the device's, and messages may be lost or sent again: any order comes up.
SaveTelemetry ==
    /\ collector.pc = "idle"
    /\ nextId <= MaxSamples
    /\ \E t \in 1..MaxTime, m \in [Metric -> Value] :
          collector' = [Idle EXCEPT !.pc = "saved",
                            !.sample = [id |-> nextId, at |-> t, measured |-> m]]
    /\ nextId' = nextId + 1
    /\ UNCHANGED <<database, request, edits, accepted, raced>>

Row(r) == [def |-> rule[r].def, runtime |-> runtime[r]]

\* fetch_enabled_rules_for_device.
FetchEnabledRules ==
    /\ collector.pc = "saved"
    /\ collector' = [collector EXCEPT
          !.pc = "selected",
          !.rows = [r \in {q \in Created : rule[q].def.enabled /\ ~rule[q].archived}
                        |-> Row(r)]]
    /\ UNCHANGED <<database, request, nextId, edits, accepted, raced>>

\* A duplicate, or not later than the last sample evaluated.
Ignored(row, s) ==
    \/ row.runtime.lastId = s.id
    \/ row.runtime.lastAt # None /\ s.at <= row.runtime.lastAt

\* The rules this sample is evaluated for.
Evaluated ==
    {r \in DOMAIN collector.rows : ~Ignored(collector.rows[r], collector.sample)}

\* Nothing has been written before the first of them.
FirstIsActive ==
    /\ Evaluated # {}
    /\ collector.rows[Min(Evaluated)].runtime.state = "active"

\* _evaluate_rule reads the active event of the first rule before the
\* transaction is open; without one it raises (EvaluationFails).
FetchActiveEvent ==
    /\ collector.pc = "selected"
    /\ FirstIsActive
    /\ ActiveEvents(log[Min(Evaluated)]) # {}
    /\ collector' = [collector EXCEPT !.pc = "fetched",
                        !.event = ActiveEvent(log[Min(Evaluated)])]
    /\ UNCHANGED <<database, request, nextId, edits, accepted, raced>>

Measured(row, s) == s.measured[row.def.metric]

\* Mutant: the violation is not required to last.
ActivatesAtOnce(row, s) ==
    /\ row.runtime.state # "active"
    /\ IsViolation(row.def, Measured(row, s))
\* The sample makes a rule that is not active activate.
Activates(row, s) ==
    /\ IsViolation(row.def, Measured(row, s))
    /\ \/ row.runtime.state = "normal" /\ row.def.duration = 0
       \/ row.runtime.state = "pending" /\ s.at - row.runtime.since >= row.def.duration

\* started_at and extreme_value of a violation that this sample begins or
\* continues.
Since(row, s) ==
    IF row.runtime.state = "pending" THEN row.runtime.since ELSE s.at
PendingExtreme(row, s) ==
    IF row.runtime.state = "pending"
    THEN UpdateExtreme(row.def,
            IF row.runtime.extreme # None THEN row.runtime.extreme
                                          ELSE row.runtime.lastValue,
            Measured(row, s))
    ELSE Measured(row, s)

NextState(row, s) ==
    CASE row.runtime.state = "active" ->
            IF IsRecovery(row.def, Measured(row, s)) THEN "normal" ELSE "active"
      [] row.runtime.state # "active" /\ Activates(row, s) -> "active"
      [] OTHER -> IF IsViolation(row.def, Measured(row, s)) THEN "pending" ELSE "normal"

\* Mutant: pending_since is not cleared on activation.
NextRuntimeKeepsSince(row, s) ==
    [state     |-> NextState(row, s),
     since     |-> IF NextState(row, s) # "normal" THEN Since(row, s) ELSE None,
     extreme   |-> IF NextState(row, s) = "pending" THEN PendingExtreme(row, s) ELSE None,
     lastAt    |-> s.at,
     lastValue |-> Measured(row, s),
     lastId    |-> s.id]
\* update_runtime_state.
NextRuntime(row, s) ==
    [state     |-> NextState(row, s),
     since     |-> IF NextState(row, s) = "pending" THEN Since(row, s) ELSE None,
     extreme   |-> IF NextState(row, s) = "pending" THEN PendingExtreme(row, s) ELSE None,
     lastAt    |-> s.at,
     lastValue |-> Measured(row, s),
     lastId    |-> s.id]

\* create_event: a snapshot of the rule as it was read.
NewEvent(row, s) ==
    [def |-> row.def, status |-> "active", reason |-> None,
     started |-> Since(row, s), activated |-> s.at,
     activation |-> Measured(row, s), last |-> Measured(row, s),
     extreme |-> PendingExtreme(row, s)]

\* create_event, resolve_active_event (of an event still active) or
\* update_active_event (of the event that was fetched, active or not).
NextLog(l, row, s, e) ==
    CASE row.runtime.state # "active" ->
            IF Activates(row, s) THEN Append(l, NewEvent(row, s)) ELSE l
      [] row.runtime.state = "active" /\ IsRecovery(row.def, Measured(row, s)) ->
            IF l[e].status = "active"
            THEN [ResolveActive(l, "condition_recovered") EXCEPT
                     ![e].last = Measured(row, s)]
            ELSE l
      [] OTHER ->
            [l EXCEPT ![e].last = Measured(row, s),
                      ![e].extreme = UpdateExtreme(row.def, @, Measured(row, s))]

\* The active event _evaluate_rule works on: the one fetched before the
\* transaction for the first rule, read inside it for the others.
EventOf(r) ==
    IF r = Min(Evaluated) THEN collector.event ELSE ActiveEvent(log[r])

\* RuntimeError, or IntegrityError of idx_alert_events_one_active_per_rule.
Raises(row, s, l, e) ==
    \/ row.runtime.state = "active" /\ e = None
    \/ row.runtime.state # "active" /\ Activates(row, s) /\ ActiveEvents(l) # {}

\* _evaluate_rule for every rule that was read, in one transaction.
EvaluateRules ==
    /\ \/ collector.pc = "selected" /\ ~FirstIsActive
       \/ collector.pc = "fetched"
    /\ LET s == collector.sample
           row == collector.rows
       IN  /\ \A r \in Evaluated : ~Raises(row[r], s, log[r], EventOf(r))
           /\ runtime' = [r \in Rule |-> IF r \in Evaluated
                                         THEN NextRuntime(row[r], s) ELSE runtime[r]]
           /\ log' = [r \in Rule |-> IF r \in Evaluated
                                     THEN NextLog(log[r], row[r], s, EventOf(r))
                                     ELSE log[r]]
           /\ accepted' = [r \in Rule |->
                 IF r \in Evaluated
                 THEN Append(accepted[r], [at |-> s.at, value |-> Measured(row[r], s)])
                 ELSE accepted[r]]
           /\ raced' = raced \cup {r \in Evaluated : row[r] # Row(r)}
    /\ collector' = Idle
    /\ UNCHANGED <<rule, request, nextId, edits>>

\* Any statement may fail (a lock timeout, a full disk, an exception raised
\* above) and the collector may be killed: the transaction is rolled back,
\* the sample stays stored and is never evaluated.
EvaluationFails ==
    /\ collector.pc # "idle"
    /\ collector' = Idle
    /\ UNCHANGED <<database, request, nextId, edits, accepted, raced>>

-----------------------------------------------------------------------------
(* The API.                                                                *)

\* create_rule: rule and state rows in one transaction.
CreateRule ==
    /\ Cardinality(Created) < NumRules
    /\ \E d \in Definition :
          rule' = [rule EXCEPT ![Cardinality(Created) + 1] =
                                   [def |-> d, archived |-> FALSE]]
    /\ UNCHANGED <<runtime, log, collector, request, nextId, edits, accepted, raced>>

\* update_rule and archive_rule read the rule first; 404 when archived.
BeginRequest(c) ==
    /\ request[c] = None
    /\ edits < MaxEdits
    /\ \E r \in Created :
          /\ ~rule[r].archived
          /\ \/ \E p \in Patch :
                   request' = [request EXCEPT ![c] =
                       [op |-> "update", rule |-> r, changes |-> p,
                        current |-> rule[r].def]]
             \/ request' = [request EXCEPT ![c] = [op |-> "archive", rule |-> r]]
    /\ edits' = edits + 1
    /\ UNCHANGED <<database, collector, nextId, accepted, raced>>

Merge(changes, def) ==
    [f \in DOMAIN def |-> IF f \in DOMAIN changes THEN changes[f] ELSE def[f]]

SubstantialChange(changes, current) ==
    \E f \in SubstantialFields \cap DOMAIN changes : changes[f] # current[f]

\* Mutant: disabling a rule does not reset it.
DisablingNever(changes, current) == FALSE
Disabling(changes, current) ==
    "enabled" \in DOMAIN changes /\ ~changes["enabled"] /\ current.enabled

\* The reset of update_rule_and_runtime and of archive_rule.
Reset(r, reason) ==
    /\ log' = [log EXCEPT ![r] = ResolveActive(@, reason)]
    /\ runtime' = [runtime EXCEPT ![r] = Unevaluated]
    /\ accepted' = [accepted EXCEPT ![r] = <<>>]

\* update_rule_and_runtime.  What to do was decided from the rule as it was
\* when the request began.  The CHECK constraint refuses to enable a rule
\* that was archived since (RequestFails).
UpdateRule(c) ==
    /\ request[c] # None
    /\ request[c].op = "update"
    /\ LET q == request[c]
           r == q.rule
           clean == q.current = rule[r].def
       IN  /\ ~(rule[r].archived /\ Merge(q.changes, rule[r].def).enabled)
           /\ rule' = [rule EXCEPT ![r].def = Merge(q.changes, @)]
           /\ \/ /\ Disabling(q.changes, q.current)
                 /\ Reset(r, "rule_disabled")
                 /\ raced' = IF clean THEN raced \ {r} ELSE raced
              \/ /\ ~Disabling(q.changes, q.current)
                 /\ SubstantialChange(q.changes, q.current)
                 /\ Reset(r, "rule_updated")
                 /\ raced' = IF clean THEN raced \ {r} ELSE raced
              \/ /\ ~Disabling(q.changes, q.current)
                 /\ ~SubstantialChange(q.changes, q.current)
                 /\ raced' = IF clean THEN raced ELSE raced \cup {r}
                 /\ UNCHANGED <<runtime, log, accepted>>
    /\ request' = [request EXCEPT ![c] = None]
    /\ UNCHANGED <<collector, nextId, edits>>

\* archive_rule; nothing happens when another request archived it first.
ArchiveRule(c) ==
    /\ request[c] # None
    /\ request[c].op = "archive"
    /\ LET r == request[c].rule
       IN \/ /\ ~rule[r].archived
             /\ rule' = [rule EXCEPT ![r].archived = TRUE, ![r].def.enabled = FALSE]
             /\ Reset(r, "rule_archived")
             /\ raced' = raced \ {r}
          \/ /\ rule[r].archived
             /\ UNCHANGED <<database, accepted, raced>>
    /\ request' = [request EXCEPT ![c] = None]
    /\ UNCHANGED <<collector, nextId, edits>>

\* A conflict, a lock timeout or a dropped connection.
RequestFails(c) ==
    /\ request[c] # None
    /\ request' = [request EXCEPT ![c] = None]
    /\ UNCHANGED <<database, collector, nextId, edits, accepted, raced>>

-----------------------------------------------------------------------------
Collector ==
    \/ SaveTelemetry \/ FetchEnabledRules \/ FetchActiveEvent
    \/ EvaluateRules \/ EvaluationFails

Api ==
    \/ CreateRule
    \/ \E c \in Client :
          BeginRequest(c) \/ UpdateRule(c) \/ ArchiveRule(c) \/ RequestFails(c)

Next == Collector \/ Api

Spec == Init /\ [][Next]_vars

-----------------------------------------------------------------------------
(* Properties.  `raced' marks the rules whose last write was computed from *)
(* a row another process had changed in between; the properties that say   *)
(* so hold for every other rule, whatever overlaps with what.              *)

Untroubled == Created \ raced

\* A rule that is disabled or archived is at rest: no pending violation and
\* no active event.
AtRest(r) == runtime[r] = Unevaluated /\ ActiveEvents(log[r]) = {}

\* The two tables agree (alert_engine.py raises RuntimeError when they do
\* not): a rule is active exactly when it has an active event, that event
\* was made under the rule's present condition, and a disabled or archived
\* rule is at rest, for every rule no race has touched since its last reset.
TablesAgree ==
    \A r \in Untroubled :
        /\ runtime[r].state = "active" <=> ActiveEvents(log[r]) # {}
        /\ \A i \in ActiveEvents(log[r]), f \in SubstantialFields :
               log[r][i].def[f] = rule[r].def[f]
        /\ ~rule[r].def.enabled => AtRest(r)

\* How far a value is beyond the threshold of d, on the side d watches.
Excess(d, v) ==
    IF d.operator = "greater_than" THEN v - d.threshold ELSE d.threshold - v

\* What a run of samples h says of a rule d, without the state machine: an
\* alert is raised when the samples of some interval as long as the duration
\* are all beyond the threshold, and stays until one is within it by the
\* hysteresis.
Raised(d, h) ==
    \E j \in DOMAIN h : \E i \in 1..j :
        /\ \A k \in i..j : Excess(d, h[k].value) > 0
        /\ h[j].at - h[i].at >= d.duration
        /\ \A k \in j+1..Len(h) : Excess(d, h[k].value) > -d.hysteresis

\* v is the worst of the values of h from time t on.
IsWorst(v, d, h, t) ==
    LET values == {h[k].value : k \in {j \in DOMAIN h : h[j].at >= t}}
    IN  v \in values /\ \A w \in values : Excess(d, w) <= Excess(d, v)

\* The engine computes Raised one sample at a time: the state of a rule, the
\* start of the violation, and the extreme and last value of its active
\* event are those of the samples evaluated since the last reset, which are
\* in the order of their timestamps.
MatchesSamples ==
    \A r \in Untroubled :
        LET h == accepted[r]
            d == rule[r].def
        IN  /\ \A i, j \in DOMAIN h : i < j => h[i].at < h[j].at
            /\ runtime[r].state = "active" <=> Raised(d, h)
            /\ runtime[r].state = "pending" <=>
                   ~Raised(d, h) /\ h # <<>> /\ Excess(d, h[Len(h)].value) > 0
            /\ runtime[r].state = "pending" =>
                   IsWorst(runtime[r].extreme, d, h, runtime[r].since)
            /\ \A i \in ActiveEvents(log[r]) :
                   /\ IsWorst(log[r][i].extreme, d, h, log[r][i].started)
                   /\ log[r][i].last = h[Len(h)].value

\* No race, failure or late sample makes the engine record an alert its own
\* snapshot of the rule does not justify: the value violated the condition,
\* and the violation had begun the rule's duration earlier.
EventsJustified ==
    \A r \in Rule : \A i \in DOMAIN log[r] :
        LET e == log[r][i]
        IN  /\ Excess(e.def, e.activation) > 0
            /\ e.activated - e.started >= e.def.duration

\* History is not rewritten: an event that is resolved keeps every field,
\* except by an evaluation that raced with the request that resolved it.
ResolvedIsFinal ==
    [][\A r \in Rule : \A i \in DOMAIN log[r] :
          log[r][i].status = "resolved" /\ r \notin raced'
              => i \in DOMAIN log'[r] /\ log'[r][i] = log[r][i]]_vars

\* The assertion of _evaluate_rule: a rule whose state is active has an
\* active event.
ActiveHasEvent ==
    \A r \in Created : runtime[r].state = "active" => ActiveEvents(log[r]) # {}

=============================================================================
