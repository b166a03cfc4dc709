-------------------------- MODULE AlertEngineProofs --------------------------
(***************************************************************************)
(* The proofs about AlertEngine: its types, the agreement of the rules'    *)
(* state with their events, the equivalence of the incremental evaluation  *)
(* with the samples it was given, the justification of every event, and    *)
(* that a resolved event is final.  They hold for any number of rules,     *)
(* requests in progress, metrics, values and timestamps, for every         *)
(* definition and PATCH that the schemas admit.                            *)
(*                                                                         *)
(* TablesAgree and MatchesSamples together are nearly inductive.  They     *)
(* need where a violation began (ViolationBegan) and the timestamp of the  *)
(* last sample (LastAccepted), which the state of a rule stands for, and,  *)
(* for what the collector and the requests hold over several steps, that   *)
(* rules only come and never go and that the event fetched before the      *)
(* transaction is the active one unless the rule was reset (FetchedEvent). *)
(***************************************************************************)
EXTENDS AlertEngine, SequenceTheorems, FiniteSetTheorems, WellFoundedInduction, TLAPS

-----------------------------------------------------------------------------
(* The inductive invariant.                                                *)

InOrder(h) == \A i, j \in DOMAIN h : i < j => h[i].at < h[j].at

\* last_evaluated_at is the timestamp of the last sample of h.
LastAccepted(x, h) ==
    /\ h = <<>> => x.lastAt = None
    /\ h # <<>> => x.lastAt = h[Len(h)].at

\* The violation at the end of h begins with sample i.
BeginsAt(i, d, h) ==
    /\ \A k \in i..Len(h) : Excess(d, h[k].value) > 0
    /\ i = 1 \/ Excess(d, h[i - 1].value) <= 0

\* pending_since is where the violation that is still going on began.
ViolationBegan(x, d, h) ==
    x.state = "pending" => \E i \in DOMAIN h : h[i].at = x.since /\ BeginsAt(i, d, h)

\* The event of a rule that is active goes with its definition and samples.
EventAgrees(e, d, h) ==
    /\ \A f \in SubstantialFields : e.def[f] = d[f]
    /\ IsWorst(e.extreme, d, h, e.started)
    /\ e.last = h[Len(h)].value

StateAgrees(x, d, h) ==
    /\ x.state = "active" <=> Raised(d, h)
    /\ x.state = "pending" <=> ~Raised(d, h) /\ h # <<>> /\ Excess(d, h[Len(h)].value) > 0
    /\ x.state = "pending" => IsWorst(x.extreme, d, h, x.since)

\* TablesAgree and MatchesSamples for one rule: its runtime x, events l,
\* definition d and samples h.
RuleAgrees(x, l, d, h) ==
    /\ x.state = "active" <=> ActiveEvents(l) # {}
    /\ \A i \in ActiveEvents(l) : EventAgrees(l[i], d, h)
    /\ ~d.enabled => x = Unevaluated /\ ActiveEvents(l) = {}
    /\ InOrder(h)
    /\ StateAgrees(x, d, h)
    /\ LastAccepted(x, h)
    /\ ViolationBegan(x, d, h)

Agreement == \A r \in Untroubled : RuleAgrees(runtime[r], log[r], rule[r].def, accepted[r])

\* Ids are given in order, and a rule that has none has left no trace.
CreatedInOrder ==
    /\ Created = 1..Cardinality(Created)
    /\ \A r \in Rule \ Created :
          runtime[r] = Unevaluated /\ log[r] = <<>> /\ accepted[r] = <<>>

\* What the collector and the requests have read is of rules that exist, and
\* the collector read only rules that were enabled.
ReadersKnow ==
    /\ \A r \in DOMAIN collector.rows : r \in Created /\ collector.rows[r].def.enabled
    /\ \A c \in Client : request[c] # None => request[c].rule \in Created

\* The event fetched before the transaction exists, and is still active when
\* the rule is.
FetchedEvent ==
    collector.pc = "fetched" =>
        \A r \in Evaluated : r = Min(Evaluated) =>
            /\ collector.event \in DOMAIN log[r]
            /\ runtime[r].state = "active" => collector.event \in ActiveEvents(log[r])

IInv ==
    /\ TypeOK
    /\ CreatedInOrder
    /\ ReadersKnow
    /\ FetchedEvent
    /\ EventsJustified
    /\ Agreement

-----------------------------------------------------------------------------
(* Minima, and the definitions the rules are evaluated by.                 *)

LEMMA MinInSet ==
  ASSUME NEW S \in SUBSET Nat, S # {}
  PROVE  Min(S) \in S
<1>1. PICK x \in S : \A y \in S : ~(<<y, x>> \in OpToRel(<, Nat))
  BY NatLessThanWellFounded, WFMin
<1>2. \A y \in S : ~(y < x)
  BY <1>1, Zenon DEF OpToRel
<1>3. \A y \in S : x <= y
  BY <1>2
<1> QED
  BY <1>3 DEF Min

\* fetch_active_event finds an active event, if there is one.
LEMMA ActiveEventFound ==
  ASSUME NEW l \in Seq(Event), ActiveEvents(l) # {}
  PROVE  ActiveEvent(l) \in ActiveEvents(l)
<1>1. ActiveEvents(l) \in SUBSET Nat
  BY DEF ActiveEvents
<1>2. ActiveEvent(l) = Min(ActiveEvents(l))
  BY DEF ActiveEvent
<1> QED
  BY <1>1, <1>2, MinInSet

\* A definition's fields.
LEMMA DefinitionFields ==
  ASSUME NEW d \in DefinitionType
  PROVE  /\ d.metric \in Metric /\ d.operator \in {"greater_than", "less_than"}
         /\ d.threshold \in Int /\ d.duration \in Nat /\ d.hysteresis \in Nat
         /\ d.enabled \in BOOLEAN
BY DEF DefinitionType, FieldType

\* The conditions of alerts.py, by the excess of a value over the threshold.
LEMMA Conditions ==
  ASSUME NEW d \in DefinitionType, NEW v \in Int
  PROVE  /\ Excess(d, v) \in Int
         /\ IsViolation(d, v) <=> Excess(d, v) > 0
         /\ IsRecovery(d, v) <=> ~(Excess(d, v) > -d.hysteresis)
<1> USE DefinitionFields
<1>1. CASE d.operator = "greater_than"
  BY <1>1 DEF Excess, IsViolation, IsRecovery
<1>2. CASE d.operator = "less_than"
  BY <1>2 DEF Excess, IsViolation, IsRecovery
<1> QED
  BY <1>1, <1>2

LEMMA MaxOfTwo ==
  ASSUME NEW a \in Int, NEW b \in Int
  PROVE  Max({a, b}) \in {a, b} /\ Max({a, b}) >= a /\ Max({a, b}) >= b
<1>1. \E x \in {a, b} : \A y \in {a, b} : x >= y
  <2>1. CASE a >= b
    BY <2>1
  <2>2. CASE b >= a
    BY <2>2
  <2> QED
    BY <2>1, <2>2
<1> DEFINE m == Max({a, b})
<1>2. m \in {a, b} /\ \A y \in {a, b} : m >= y
  BY <1>1 DEF Max
<1> QED
  BY <1>2

LEMMA MinOfTwo ==
  ASSUME NEW a \in Int, NEW b \in Int
  PROVE  Min({a, b}) \in {a, b} /\ Min({a, b}) <= a /\ Min({a, b}) <= b
<1>1. \E x \in {a, b} : \A y \in {a, b} : x <= y
  <2>1. CASE a <= b
    BY <2>1
  <2>2. CASE b <= a
    BY <2>2
  <2> QED
    BY <2>1, <2>2
<1> DEFINE m == Min({a, b})
<1>2. m \in {a, b} /\ \A y \in {a, b} : m <= y
  BY <1>1 DEF Min
<1> QED
  BY <1>2

\* update_extreme keeps the worse of two values.
LEMMA ExtremeIsWorse ==
  ASSUME NEW d \in DefinitionType, NEW a \in Int, NEW b \in Int
  PROVE  /\ UpdateExtreme(d, a, b) \in {a, b}
         /\ Excess(d, a) <= Excess(d, UpdateExtreme(d, a, b))
         /\ Excess(d, b) <= Excess(d, UpdateExtreme(d, a, b))
<1> USE DefinitionFields
<1>1. CASE d.operator = "greater_than"
  <2> DEFINE m == Max({a, b})
  <2>1. m \in {a, b} /\ m >= a /\ m >= b
    BY MaxOfTwo
  <2>2. UpdateExtreme(d, a, b) = m
    BY <1>1 DEF UpdateExtreme
  <2> HIDE DEF m
  <2> QED
    BY <1>1, <2>1, <2>2 DEF Excess
<1>2. CASE d.operator = "less_than"
  <2> DEFINE m == Min({a, b})
  <2>1. m \in {a, b} /\ m <= a /\ m <= b
    BY MinOfTwo
  <2>2. UpdateExtreme(d, a, b) = m
    BY <1>2 DEF UpdateExtreme
  <2> HIDE DEF m
  <2> QED
    BY <1>2, <2>1, <2>2 DEF Excess
<1> QED
  BY <1>1, <1>2

\* PATCH.
LEMMA MergeTyped ==
  ASSUME NEW d \in DefinitionType, NEW p \in Patch
  PROVE  /\ Merge(p, d) \in DefinitionType
         /\ \A f \in SubstantialFields \cup {"enabled"} :
               Merge(p, d)[f] = IF f \in DOMAIN p THEN p[f] ELSE d[f]
<1> DEFINE m == Merge(p, d)
           F == {"metric", "operator", "threshold", "duration", "hysteresis", "enabled"}
<1>1. DOMAIN d = F /\ DOMAIN FieldType = F
  BY DEF DefinitionType, FieldType
<1>2. \A f \in F : m[f] = IF f \in DOMAIN p THEN p[f] ELSE d[f]
  BY <1>1 DEF Merge
<1>3. \A f \in F : m[f] \in FieldType[f]
  <2>1. \A f \in F : d[f] \in FieldType[f]
    BY DEF DefinitionType, FieldType
  <2> QED
    BY <1>1, <1>2, <2>1, DefinitionAssumption
<1>4. m = [f \in F |-> m[f]]
  BY <1>1 DEF Merge
<1> HIDE DEF m
<1>5. [f \in F |-> m[f]] \in DefinitionType
  BY <1>3 DEF DefinitionType, FieldType
<1> QED
  BY <1>2, <1>4, <1>5 DEF m, SubstantialFields

LEMMA RuleIsNotNone == \A x \in RuleRow : x # None
BY DefinitionAssumption

LEMMA Numbers ==
  /\ \A v \in Value : v \in Int /\ v # None
  /\ \A n \in Nat : n # None
  /\ \A t \in Time : t \in Nat /\ t # None
BY AlertConstantsAssumption DEF Time

-----------------------------------------------------------------------------
(* One more sample: how what the samples say of a rule goes on.            *)

\* Reading a run of samples that has one more.
LEMMA Appended ==
  ASSUME NEW h \in Seq(Accepted), NEW y \in Accepted
  PROVE  /\ Append(h, y) \in Seq(Accepted) /\ Len(Append(h, y)) = Len(h) + 1
         /\ DOMAIN h = 1..Len(h) /\ DOMAIN Append(h, y) = 1..(Len(h) + 1)
         /\ Append(h, y)[Len(h) + 1] = y
         /\ \A i \in 1..Len(h) : Append(h, y)[i] = h[i]
         /\ Len(h) \in Nat
         /\ \A i \in 1..Len(h) : h[i] \in Accepted
OBVIOUS

LEMMA AcceptedFields ==
  ASSUME NEW y \in Accepted
  PROVE  y.at \in Nat /\ y.at \in Time /\ y.value \in Value /\ y.value \in Int
BY Numbers DEF Accepted

\* The excess of every sample is a number.
LEMMA Excesses ==
  ASSUME NEW d \in DefinitionType, NEW h \in Seq(Accepted)
  PROVE  \A k \in 1..Len(h) : Excess(d, h[k].value) \in Int /\ h[k].at \in Nat
<1> TAKE k \in 1..Len(h)
<1>1. h[k] \in Accepted
  OBVIOUS
<1> QED
  BY <1>1, AcceptedFields, Conditions

LEMMA OrderKept ==
  ASSUME NEW h \in Seq(Accepted), NEW y \in Accepted, InOrder(h),
         h = <<>> \/ h[Len(h)].at < y.at
  PROVE  /\ \A i \in 1..Len(h) : h[i].at < y.at
         /\ InOrder(Append(h, y))
<1> USE Appended, AcceptedFields
<1>1. ASSUME NEW i \in 1..Len(h)
      PROVE  h[i].at < y.at
  <2>1. h # <<>> /\ Len(h) \in 1..Len(h)
    OBVIOUS
  <2>2. h[Len(h)].at < y.at /\ h[i].at \in Nat /\ h[Len(h)].at \in Nat /\ y.at \in Nat
    BY <2>1
  <2>3. i = Len(h) \/ h[i].at < h[Len(h)].at
    BY <2>1 DEF InOrder
  <2> QED
    BY <2>2, <2>3
<1>2. ASSUME NEW i \in 1..(Len(h) + 1), NEW j \in 1..(Len(h) + 1), i < j
      PROVE  Append(h, y)[i].at < Append(h, y)[j].at
  <2>1. i \in 1..Len(h)
    BY <1>2
  <2>2. CASE j = Len(h) + 1
    BY <1>1, <2>1, <2>2
  <2>3. CASE j \in 1..Len(h)
    <3>1. h[i].at < h[j].at
      BY <1>2, <2>1, <2>3 DEF InOrder
    <3> QED
      BY <2>1, <2>3, <3>1
  <2> QED
    BY <2>2, <2>3
<1>3. InOrder(Append(h, y))
  BY <1>2 DEF InOrder
<1> QED
  BY <1>1, <1>3

\* The interval that raises an alert: the samples i..j of h.
RaisedBy(i, j, d, h) ==
    /\ \A k \in i..j : Excess(d, h[k].value) > 0
    /\ h[j].at - h[i].at >= d.duration
    /\ \A k \in j+1..Len(h) : Excess(d, h[k].value) > -d.hysteresis

LEMMA RaisedInterval ==
  ASSUME NEW d, NEW h
  PROVE  Raised(d, h) <=> \E j \in DOMAIN h : \E i \in 1..j : RaisedBy(i, j, d, h)
BY DEF Raised, RaisedBy

\* An alert that is raised stays so unless the sample recovers from it.
LEMMA RaisedContinues ==
  ASSUME NEW d \in DefinitionType, NEW h \in Seq(Accepted), NEW y \in Accepted,
         Raised(d, h)
  PROVE  Raised(d, Append(h, y)) <=> Excess(d, y.value) > -d.hysteresis
<1> DEFINE n == Len(h)
           g == Append(h, y)
<1>1. /\ g \in Seq(Accepted) /\ Len(g) = n + 1 /\ DOMAIN h = 1..n /\ DOMAIN g = 1..(n + 1)
      /\ g[n + 1] = y /\ \A i \in 1..n : g[i] = h[i]
      /\ n \in Nat
  BY Appended
<1>2. d.hysteresis \in Nat /\ d.duration \in Nat /\ Excess(d, y.value) \in Int
  BY DefinitionFields, Conditions, AcceptedFields
<1>3. /\ \A k \in 1..n : Excess(d, h[k].value) \in Int /\ h[k].at \in Nat
      /\ \A k \in 1..(n + 1) : Excess(d, g[k].value) \in Int /\ g[k].at \in Nat
  BY <1>1, Excesses
<1> HIDE DEF n, g
<1>4. ASSUME Excess(d, y.value) > -d.hysteresis
      PROVE  Raised(d, g)
  <2>0. PICK j \in 1..n : \E i \in 1..j : RaisedBy(i, j, d, h)
    BY <1>1, RaisedInterval
  <2>1. PICK i \in 1..j : RaisedBy(i, j, d, h)
    BY <2>0
  <2>2. \A k \in i..j : Excess(d, g[k].value) > 0
    BY <1>1, <2>1 DEF RaisedBy
  <2>3. g[j].at - g[i].at >= d.duration
    BY <1>1, <2>1 DEF RaisedBy
  <2>4. ASSUME NEW k \in j+1..Len(g)
        PROVE  Excess(d, g[k].value) > -d.hysteresis
    <3>1. CASE k = n + 1
      BY <1>1, <1>4, <3>1
    <3>2. CASE k \in j+1..n
      <4>1. Excess(d, h[k].value) > -d.hysteresis
        BY <2>1, <3>2 DEF RaisedBy, n
      <4>2. k \in 1..n
        BY <1>1, <3>2
      <4> QED
        BY <1>1, <4>1, <4>2
    <3> QED
      BY <1>1, <3>1, <3>2
  <2>5. RaisedBy(i, j, d, g)
    BY <2>2, <2>3, <2>4 DEF RaisedBy
  <2>6. j \in DOMAIN g
    BY <1>1
  <2> QED
    BY <2>5, <2>6, RaisedInterval
<1>5. ASSUME Raised(d, g)
      PROVE  Excess(d, y.value) > -d.hysteresis
  <2>0. PICK j \in 1..(n + 1) : \E i \in 1..j : RaisedBy(i, j, d, g)
    BY <1>1, <1>5, RaisedInterval
  <2>1. PICK i \in 1..j : RaisedBy(i, j, d, g)
    BY <2>0
  <2>2. CASE j = n + 1
    <3>1. Excess(d, g[n + 1].value) > 0
      BY <1>1, <2>1, <2>2 DEF RaisedBy
    <3> QED
      BY <1>1, <1>2, <3>1
  <2>3. CASE j \in 1..n
    <3>1. n + 1 \in j+1..Len(g)
      BY <1>1, <2>3
    <3> QED
      BY <1>1, <2>1, <3>1 DEF RaisedBy
  <2> QED
    BY <1>1, <2>2, <2>3
<1> QED
  BY <1>4, <1>5 DEF g

\* An alert that is not raised is raised by a violation, that begins with the
\* sample or before it, and that has lasted the duration.
LEMMA RaisedBegins ==
  ASSUME NEW d \in DefinitionType, NEW h \in Seq(Accepted), NEW y \in Accepted,
         ~Raised(d, h)
  PROVE  Raised(d, Append(h, y)) <=>
            \/ Excess(d, y.value) > 0 /\ d.duration = 0
            \/ \E i \in 1..Len(h) : /\ \A k \in i..Len(h) : Excess(d, h[k].value) > 0
                                    /\ Excess(d, y.value) > 0
                                    /\ y.at - h[i].at >= d.duration
<1> DEFINE n == Len(h)
           g == Append(h, y)
<1>1. /\ g \in Seq(Accepted) /\ Len(g) = n + 1 /\ DOMAIN h = 1..n /\ DOMAIN g = 1..(n + 1)
      /\ g[n + 1] = y /\ \A i \in 1..n : g[i] = h[i]
      /\ n \in Nat
  BY Appended
<1>2. /\ d.hysteresis \in Nat /\ d.duration \in Nat /\ Excess(d, y.value) \in Int
      /\ y.at \in Nat
  BY DefinitionFields, Conditions, AcceptedFields
<1>3. /\ \A k \in 1..n : Excess(d, h[k].value) \in Int /\ h[k].at \in Nat
      /\ \A k \in 1..(n + 1) : Excess(d, g[k].value) \in Int /\ g[k].at \in Nat
  BY <1>1, Excesses
<1> DEFINE Before(i) == /\ \A k \in i..n : Excess(d, h[k].value) > 0
                        /\ Excess(d, y.value) > 0
                        /\ y.at - h[i].at >= d.duration
<1> HIDE DEF n, g
<1>4. ASSUME Excess(d, y.value) > 0, d.duration = 0
      PROVE  Raised(d, g)
  <2>1. RaisedBy(n + 1, n + 1, d, g)
    BY <1>1, <1>2, <1>4 DEF RaisedBy
  <2> QED
    BY <1>1, <2>1, RaisedInterval
<1>5. ASSUME NEW i \in 1..n, Before(i)
      PROVE  Raised(d, g)
  <2>1. ASSUME NEW k \in i..(n + 1)
        PROVE  Excess(d, g[k].value) > 0
    <3>1. CASE k = n + 1
      BY <1>1, <1>5, <3>1
    <3>2. CASE k \in i..n
      <4>1. k \in 1..n
        BY <1>1, <3>2
      <4> QED
        BY <1>1, <1>5, <3>2, <4>1
    <3> QED
      BY <1>1, <3>1, <3>2
  <2>2. g[n + 1].at - g[i].at >= d.duration
    BY <1>1, <1>5
  <2>3. \A k \in (n + 1) + 1..Len(g) : Excess(d, g[k].value) > -d.hysteresis
    BY <1>1
  <2>4. RaisedBy(i, n + 1, d, g)
    BY <2>1, <2>2, <2>3 DEF RaisedBy
  <2>5. i \in 1..(n + 1) /\ n + 1 \in DOMAIN g
    BY <1>1
  <2> QED
    BY <2>4, <2>5, RaisedInterval
<1>6. ASSUME Raised(d, g)
      PROVE  (Excess(d, y.value) > 0 /\ d.duration = 0) \/ \E i \in 1..n : Before(i)
  <2>0. PICK j \in 1..(n + 1) : \E i \in 1..j : RaisedBy(i, j, d, g)
    BY <1>1, <1>6, RaisedInterval
  <2>1. PICK i \in 1..j : RaisedBy(i, j, d, g)
    BY <2>0
  <2>2. CASE j \in 1..n
    <3>1. \A k \in i..j : k \in 1..n
      BY <1>1, <2>2
    <3>2. \A k \in j+1..n : k \in 1..n /\ k \in j+1..Len(g)
      BY <1>1, <2>2
    <3>3. \A k \in i..j : Excess(d, h[k].value) > 0
      BY <1>1, <2>1, <3>1 DEF RaisedBy
    <3>4. h[j].at - h[i].at >= d.duration
      BY <1>1, <2>1, <2>2 DEF RaisedBy
    <3>5. \A k \in j+1..n : Excess(d, h[k].value) > -d.hysteresis
      BY <1>1, <2>1, <3>2 DEF RaisedBy
    <3>6. RaisedBy(i, j, d, h)
      BY <3>3, <3>4, <3>5 DEF RaisedBy, n
    <3> QED
      BY <1>1, <2>2, <3>6, RaisedInterval
  <2>3. CASE j = n + 1
    <3>1. Excess(d, y.value) > 0
      BY <1>1, <2>1, <2>3 DEF RaisedBy
    <3>2. CASE i = n + 1
      BY <1>1, <1>2, <1>3, <2>1, <2>3, <3>1, <3>2 DEF RaisedBy
    <3>3. CASE i \in 1..n
      <4>1. ASSUME NEW k \in i..n
            PROVE  Excess(d, h[k].value) > 0
        <5>1. k \in i..j /\ k \in 1..n
          BY <1>1, <2>3, <3>3
        <5> QED
          BY <1>1, <2>1, <5>1 DEF RaisedBy
      <4>2. y.at - h[i].at >= d.duration
        BY <1>1, <2>1, <2>3, <3>3 DEF RaisedBy
      <4> QED
        BY <3>1, <3>3, <4>1, <4>2
    <3> QED
      BY <1>1, <2>3, <3>2, <3>3
  <2> QED
    BY <1>1, <2>2, <2>3
<1> QED
  BY <1>4, <1>5, <1>6 DEF g, n

\* After a sample that was no violation, only an immediate one raises.
LEMMA RaisedFromNormal ==
  ASSUME NEW d \in DefinitionType, NEW h \in Seq(Accepted), NEW y \in Accepted,
         ~Raised(d, h), h = <<>> \/ ~(Excess(d, h[Len(h)].value) > 0)
  PROVE  Raised(d, Append(h, y)) <=> Excess(d, y.value) > 0 /\ d.duration = 0
<1>1. ASSUME NEW i \in 1..Len(h), \A k \in i..Len(h) : Excess(d, h[k].value) > 0
      PROVE  FALSE
  <2>1. h # <<>> /\ Len(h) \in i..Len(h)
    OBVIOUS
  <2> QED
    BY <1>1, <2>1
<1> QED
  BY <1>1, RaisedBegins

\* While a violation goes on, it raises when the duration is over.
LEMMA RaisedFromPending ==
  ASSUME NEW d \in DefinitionType, NEW h \in Seq(Accepted), NEW y \in Accepted,
         ~Raised(d, h), InOrder(h), NEW b \in 1..Len(h), BeginsAt(b, d, h),
         \A i \in 1..Len(h) : h[i].at < y.at
  PROVE  Raised(d, Append(h, y)) <=>
            Excess(d, y.value) > 0 /\ y.at - h[b].at >= d.duration
<1>1. \A k \in 1..Len(h) : Excess(d, h[k].value) \in Int /\ h[k].at \in Nat
  BY Excesses
<1>2. d.duration \in Nat /\ y.at \in Nat
  BY DefinitionFields, AcceptedFields
<1>3. ASSUME NEW i \in 1..Len(h), \A k \in i..Len(h) : Excess(d, h[k].value) > 0
      PROVE  h[b].at <= h[i].at
  <2>1. CASE i < b
    <3>1. b - 1 \in i..Len(h) /\ b - 1 \in 1..Len(h) /\ b # 1
      BY <2>1
    <3>2. Excess(d, h[b - 1].value) > 0 /\ Excess(d, h[b - 1].value) <= 0
      BY <1>3, <3>1 DEF BeginsAt
    <3> QED
      BY <1>1, <3>1, <3>2
  <2>2. CASE i = b
    BY <1>1, <2>2
  <2>3. CASE b < i
    <3>1. h[b].at < h[i].at
      BY <2>3 DEF InOrder
    <3> QED
      BY <1>1, <3>1
  <2> QED
    BY <2>1, <2>2, <2>3
<1>4. ASSUME Raised(d, Append(h, y))
      PROVE  Excess(d, y.value) > 0 /\ y.at - h[b].at >= d.duration
  <2>1. CASE Excess(d, y.value) > 0 /\ d.duration = 0
    BY <1>1, <1>2, <2>1
  <2>2. CASE \E i \in 1..Len(h) : /\ \A k \in i..Len(h) : Excess(d, h[k].value) > 0
                                  /\ Excess(d, y.value) > 0
                                  /\ y.at - h[i].at >= d.duration
    <3>1. PICK i \in 1..Len(h) : /\ \A k \in i..Len(h) : Excess(d, h[k].value) > 0
                                 /\ Excess(d, y.value) > 0
                                 /\ y.at - h[i].at >= d.duration
      BY <2>2
    <3>2. h[b].at <= h[i].at
      BY <1>3, <3>1
    <3> QED
      BY <1>1, <1>2, <3>1, <3>2
  <2> QED
    BY <1>4, <2>1, <2>2, RaisedBegins
<1>5. ASSUME Excess(d, y.value) > 0, y.at - h[b].at >= d.duration
      PROVE  Raised(d, Append(h, y))
  BY <1>5, RaisedBegins DEF BeginsAt
<1> QED
  BY <1>4, <1>5

\* The violation that goes on begins where it did, or with the sample.
LEMMA BeginningKept ==
  ASSUME NEW d \in DefinitionType, NEW h \in Seq(Accepted), NEW y \in Accepted,
         NEW b \in 1..Len(h), BeginsAt(b, d, h), Excess(d, y.value) > 0
  PROVE  BeginsAt(b, d, Append(h, y))
<1> USE Appended
<1>1. ASSUME NEW k \in b..Len(Append(h, y))
      PROVE  Excess(d, Append(h, y)[k].value) > 0
  <2>1. CASE k = Len(h) + 1
    BY <2>1
  <2>2. CASE k \in b..Len(h)
    <3>1. k \in 1..Len(h) /\ Excess(d, h[k].value) > 0
      BY <2>2 DEF BeginsAt
    <3> QED
      BY <3>1
  <2> QED
    BY <2>1, <2>2
<1>2. b = 1 \/ Excess(d, Append(h, y)[b - 1].value) <= 0
  <2>1. CASE b # 1
    <3>1. b - 1 \in 1..Len(h) /\ Excess(d, h[b - 1].value) <= 0
      BY <2>1 DEF BeginsAt
    <3> QED
      BY <3>1
  <2> QED
    BY <2>1
<1> QED
  BY <1>1, <1>2 DEF BeginsAt

LEMMA BeginningHere ==
  ASSUME NEW d \in DefinitionType, NEW h \in Seq(Accepted), NEW y \in Accepted,
         h = <<>> \/ ~(Excess(d, h[Len(h)].value) > 0), Excess(d, y.value) > 0
  PROVE  BeginsAt(Len(h) + 1, d, Append(h, y))
<1> USE Appended
<1>1. \A k \in Len(h)+1..Len(Append(h, y)) : Excess(d, Append(h, y)[k].value) > 0
  OBVIOUS
<1>2. Len(h) + 1 = 1 \/ Excess(d, Append(h, y)[(Len(h) + 1) - 1].value) <= 0
  <2>1. CASE Len(h) # 0
    <3>1. Len(h) \in 1..Len(h) /\ h # <<>> /\ (Len(h) + 1) - 1 = Len(h)
      BY <2>1
    <3>2. Excess(d, h[Len(h)].value) \in Int /\ ~(Excess(d, h[Len(h)].value) > 0)
      BY <3>1, Excesses
    <3> QED
      BY <3>1, <3>2
  <2> QED
    BY <2>1
<1> QED
  BY <1>1, <1>2 DEF BeginsAt

\* v is among the values of h from time t on, and no value is worse.
LEMMA WorstByIndex ==
  ASSUME NEW v, NEW d, NEW h, NEW t
  PROVE  IsWorst(v, d, h, t) <=>
            /\ \E k \in DOMAIN h : h[k].at >= t /\ h[k].value = v
            /\ \A k \in DOMAIN h : h[k].at >= t => Excess(d, h[k].value) <= Excess(d, v)
BY DEF IsWorst

\* The first sample of a violation is its worst.
LEMMA WorstBegins ==
  ASSUME NEW d \in DefinitionType, NEW h \in Seq(Accepted), NEW y \in Accepted,
         \A i \in 1..Len(h) : h[i].at < y.at
  PROVE  IsWorst(y.value, d, Append(h, y), y.at)
<1> DEFINE g == Append(h, y)
<1>1. y.at \in Nat /\ Excess(d, y.value) \in Int
  BY AcceptedFields, Conditions
<1>2. \A k \in 1..Len(h) : ~(h[k].at >= y.at)
  BY <1>1, Excesses
<1>3. \A k \in DOMAIN g : g[k].at >= y.at => k = Len(h) + 1 /\ g[k] = y
  BY <1>2, Appended
<1>4. Len(h) + 1 \in DOMAIN g /\ g[Len(h) + 1] = y
  BY Appended
<1> HIDE DEF g
<1>5. \E k \in DOMAIN g : g[k].at >= y.at /\ g[k].value = y.value
  BY <1>1, <1>4
<1>6. \A k \in DOMAIN g : g[k].at >= y.at => Excess(d, g[k].value) <= Excess(d, y.value)
  BY <1>1, <1>3
<1>7. IsWorst(y.value, d, g, y.at)
  BY <1>5, <1>6, WorstByIndex
<1> QED
  BY <1>7 DEF g

\* update_extreme keeps the worst value up to date.
LEMMA WorstContinues ==
  ASSUME NEW d \in DefinitionType, NEW h \in Seq(Accepted), NEW y \in Accepted,
         \A i \in 1..Len(h) : h[i].at < y.at,
         NEW v \in Value, NEW t \in Time, IsWorst(v, d, h, t)
  PROVE  IsWorst(UpdateExtreme(d, v, y.value), d, Append(h, y), t)
<1> DEFINE g == Append(h, y)
           w == UpdateExtreme(d, v, y.value)
<1>1. y.at \in Nat /\ t \in Nat /\ v \in Int /\ y.value \in Int
  BY AcceptedFields, Numbers
<1>2. /\ w \in {v, y.value} /\ Excess(d, v) <= Excess(d, w)
      /\ Excess(d, y.value) <= Excess(d, w)
      /\ Excess(d, v) \in Int /\ Excess(d, y.value) \in Int /\ Excess(d, w) \in Int
  BY <1>1, ExtremeIsWorse, Conditions
<1> HIDE DEF w
<1>3. /\ \A k \in 1..Len(h) : Excess(d, h[k].value) \in Int /\ h[k].at \in Nat
      /\ DOMAIN h = 1..Len(h)
  BY Excesses
<1>4. /\ DOMAIN g = 1..(Len(h) + 1) /\ g[Len(h) + 1] = y /\ Len(h) \in Nat
      /\ \A i \in 1..Len(h) : g[i] = h[i] /\ i \in DOMAIN g
      /\ Len(h) + 1 \in DOMAIN g
  BY Appended
<1> HIDE DEF g
<1>5. PICK m \in 1..Len(h) : h[m].at >= t /\ h[m].value = v
  BY <1>3, WorstByIndex
<1>6. y.at >= t
  BY <1>1, <1>3, <1>5
<1>7. \E k \in DOMAIN g : g[k].at >= t /\ g[k].value = w
  <2>1. CASE w = v
    BY <1>4, <1>5, <2>1
  <2>2. CASE w = y.value
    BY <1>4, <1>6, <2>2
  <2> QED
    BY <1>2, <2>1, <2>2
<1>8. ASSUME NEW k \in DOMAIN g, g[k].at >= t
      PROVE  Excess(d, g[k].value) <= Excess(d, w)
  <2>1. CASE k = Len(h) + 1
    BY <1>2, <1>4, <2>1
  <2>2. CASE k \in 1..Len(h)
    <3>1. Excess(d, h[k].value) <= Excess(d, v)
      BY <1>3, <1>4, <1>8, <2>2, WorstByIndex
    <3> QED
      BY <1>2, <1>3, <1>4, <2>2, <3>1
  <2> QED
    BY <1>4, <2>1, <2>2
<1>9. IsWorst(w, d, g, t)
  BY <1>7, <1>8, WorstByIndex
<1> QED
  BY <1>9 DEF g, w

-----------------------------------------------------------------------------
(* One evaluation: what is written of a rule.                              *)

LEMMA RowFields ==
  ASSUME NEW row \in RowRead
  PROVE  /\ row.def \in DefinitionType /\ row.runtime \in RuntimeRow
         /\ row.runtime.state \in {"normal", "pending", "active"}
         /\ row.runtime.since \in Time \cup {None}
         /\ row.runtime.extreme \in Value \cup {None}
         /\ row.runtime.lastAt \in Time \cup {None}
         /\ row.runtime.state = "pending" <=> row.runtime.since \in Time
         /\ row.runtime.state = "pending" <=> row.runtime.extreme \in Value
<1>1. row.def \in DefinitionType /\ row.runtime \in RuntimeRow
  BY DEF RowRead
<1> QED
  BY <1>1, Numbers DEF RuntimeRow

LEMMA MeasuredTyped ==
  ASSUME NEW row \in RowRead, NEW s \in Sample
  PROVE  /\ Measured(row, s) \in Value /\ Measured(row, s) \in Int
         /\ s.at \in Time /\ s.at \in Nat /\ s.id \in Nat
<1>1. row.def.metric \in Metric
  BY RowFields, DefinitionFields
<1>2. s.measured \in [Metric -> Value] /\ s.at \in Time /\ s.id \in Nat
  BY DEF Sample
<1> QED
  BY <1>1, <1>2, Numbers DEF Measured

LEMMA SinceTyped ==
  ASSUME NEW row \in RowRead, NEW s \in Sample
  PROVE  Since(row, s) \in Time /\ Since(row, s) \in Nat
BY RowFields, MeasuredTyped, Numbers DEF Since

LEMMA PendingExtremeTyped ==
  ASSUME NEW row \in RowRead, NEW s \in Sample
  PROVE  /\ PendingExtreme(row, s) \in Value
         /\ row.runtime.state = "pending" =>
               PendingExtreme(row, s) =
                   UpdateExtreme(row.def, row.runtime.extreme, Measured(row, s))
<1>1. CASE row.runtime.state = "pending"
  <2>1. /\ row.runtime.extreme \in Value /\ row.runtime.extreme # None
        /\ row.runtime.extreme \in Int
    BY <1>1, RowFields, Numbers
  <2>2. PendingExtreme(row, s) =
           UpdateExtreme(row.def, row.runtime.extreme, Measured(row, s))
    BY <1>1, <2>1 DEF PendingExtreme
  <2>3. PendingExtreme(row, s) \in {row.runtime.extreme, Measured(row, s)}
    BY <2>1, <2>2, MeasuredTyped, RowFields, ExtremeIsWorse
  <2> QED
    BY <2>1, <2>2, <2>3, MeasuredTyped
<1>2. CASE row.runtime.state # "pending"
  BY <1>2, MeasuredTyped DEF PendingExtreme
<1> QED
  BY <1>1, <1>2

LEMMA NextStates ==
  ASSUME NEW row \in RowRead, NEW s \in Sample
  PROVE  /\ NextState(row, s) \in {"normal", "pending", "active"}
         /\ row.runtime.state = "active" =>
               NextState(row, s) = IF IsRecovery(row.def, Measured(row, s))
                                   THEN "normal" ELSE "active"
         /\ row.runtime.state # "active" /\ Activates(row, s) =>
               NextState(row, s) = "active"
         /\ row.runtime.state # "active" /\ ~Activates(row, s) =>
               NextState(row, s) = IF IsViolation(row.def, Measured(row, s))
                                   THEN "pending" ELSE "normal"
BY DEF NextState

LEMMA NextRuntimeTyped ==
  ASSUME NEW row \in RowRead, NEW s \in Sample
  PROVE  NextRuntime(row, s) \in RuntimeRow
<1>1. NextState(row, s) \in {"normal", "pending", "active"}
  BY NextStates
<1>2. Since(row, s) \in Time /\ Since(row, s) # None
  BY SinceTyped, Numbers
<1>3. PendingExtreme(row, s) \in Value /\ PendingExtreme(row, s) # None
  BY PendingExtremeTyped, Numbers
<1>4. s.at \in Time /\ s.id \in Nat /\ Measured(row, s) \in Value
  BY MeasuredTyped
<1> QED
  BY <1>1, <1>2, <1>3, <1>4 DEF NextRuntime, RuntimeRow

\* An activation is justified: a violation that has lasted the duration.
LEMMA ActivationJustified ==
  ASSUME NEW row \in RowRead, NEW s \in Sample, Activates(row, s)
  PROVE  /\ row.runtime.state # "active"
         /\ Excess(row.def, Measured(row, s)) > 0
         /\ s.at - Since(row, s) >= row.def.duration
<1>1. Excess(row.def, Measured(row, s)) > 0
  BY RowFields, MeasuredTyped, Conditions DEF Activates
<1>2. row.def.duration \in Nat /\ s.at \in Nat
  BY RowFields, DefinitionFields, MeasuredTyped
<1> QED
  BY <1>1, <1>2 DEF Activates, Since

EventJustified(e) ==
    Excess(e.def, e.activation) > 0 /\ e.activated - e.started >= e.def.duration

LEMMA NewEventTyped ==
  ASSUME NEW row \in RowRead, NEW s \in Sample
  PROVE  /\ NewEvent(row, s) \in Event /\ NewEvent(row, s).status = "active"
         /\ Activates(row, s) => EventJustified(NewEvent(row, s))
<1>1. /\ row.def \in DefinitionType /\ Since(row, s) \in Time /\ s.at \in Time
      /\ Measured(row, s) \in Value /\ PendingExtreme(row, s) \in Value
  BY RowFields, SinceTyped, MeasuredTyped, PendingExtremeTyped
<1>2. NewEvent(row, s) \in Event
  BY <1>1 DEF NewEvent, Event
<1>3. Activates(row, s) => EventJustified(NewEvent(row, s))
  BY ActivationJustified DEF NewEvent, EventJustified
<1> QED
  BY <1>2, <1>3 DEF NewEvent

-----------------------------------------------------------------------------
(* The events of a rule.                                                   *)

\* What no write changes of an event that there is.
SameOrigin(e, f) ==
    /\ e.def = f.def /\ e.started = f.started /\ e.activated = f.activated
    /\ e.activation = f.activation

\* From the events l to the events m: none is lost, and none forged.
Extends(l, m) ==
    /\ Len(l) <= Len(m)
    /\ \A i \in DOMAIN l : SameOrigin(l[i], m[i])

\* No event of l that is resolved has changed in m.
KeepsResolved(l, m) ==
    \A i \in DOMAIN l : l[i].status = "resolved" => i \in DOMAIN m /\ m[i] = l[i]

LEMMA EventFields ==
  ASSUME NEW e \in Event
  PROVE  /\ e.def \in DefinitionType /\ e.status \in {"active", "resolved"}
         /\ e.started \in Time /\ e.activated \in Time
         /\ e.activation \in Value /\ e.last \in Value /\ e.extreme \in Value
BY DEF Event

\* resolve_active_event and the resets leave no event active.
LEMMA Resolved ==
  ASSUME NEW l \in Seq(Event),
         NEW reason \in {"condition_recovered", "rule_disabled", "rule_updated",
                         "rule_archived"}
  PROVE  /\ ResolveActive(l, reason) \in Seq(Event)
         /\ Len(ResolveActive(l, reason)) = Len(l)
         /\ ActiveEvents(ResolveActive(l, reason)) = {}
         /\ Extends(l, ResolveActive(l, reason))
         /\ KeepsResolved(l, ResolveActive(l, reason))
<1> DEFINE m == ResolveActive(l, reason)
           e(i) == IF l[i].status = "active"
                   THEN [l[i] EXCEPT !.status = "resolved", !.reason = reason] ELSE l[i]
<1>1. m = [i \in 1..Len(l) |-> e(i)] /\ DOMAIN l = 1..Len(l) /\ Len(l) \in Nat
  BY DEF ResolveActive
<1>2. ASSUME NEW i \in 1..Len(l)
      PROVE  /\ e(i) \in Event /\ e(i).status = "resolved" /\ SameOrigin(l[i], e(i))
             /\ l[i].status = "resolved" => e(i) = l[i]
  <2>1. l[i] \in Event /\ l[i].status \in {"active", "resolved"}
    BY EventFields
  <2> QED
    BY <2>1 DEF Event, SameOrigin
<1> HIDE DEF m, e
<1>3. m \in Seq(Event) /\ Len(m) = Len(l) /\ DOMAIN m = 1..Len(l)
  BY <1>1, <1>2
<1>4. \A i \in 1..Len(l) : m[i] = e(i)
  BY <1>1
<1>5. ActiveEvents(m) = {}
  BY <1>2, <1>3, <1>4 DEF ActiveEvents
<1>6. Extends(l, m) /\ KeepsResolved(l, m)
  BY <1>1, <1>2, <1>3, <1>4 DEF Extends, KeepsResolved
<1> QED
  BY <1>3, <1>5, <1>6 DEF m

\* The empty set and a single event meet the unique index.
LEMMA FewEvents ==
  /\ Cardinality({}) <= 1
  /\ \A x : Cardinality({x}) <= 1
<1>1. Cardinality({}) = 0
  BY FS_EmptySet
<1>2. \A x : Cardinality({x}) = 1
  BY FS_Singleton
<1> QED
  BY <1>1, <1>2

\* The index lets one event be active.
LEMMA OneActive ==
  ASSUME NEW l \in Seq(Event), Cardinality(ActiveEvents(l)) <= 1,
         NEW i \in ActiveEvents(l), NEW j \in ActiveEvents(l)
  PROVE  i = j
<1>1. ActiveEvents(l) \subseteq 1..Len(l) /\ Len(l) \in Nat
  BY DEF ActiveEvents
<1>2. IsFiniteSet(ActiveEvents(l)) /\ Cardinality(ActiveEvents(l)) \in Nat
  <2>1. IsFiniteSet(1..Len(l))
    BY <1>1, FS_Interval
  <2>2. IsFiniteSet(ActiveEvents(l))
    BY <1>1, <2>1, FS_Subset
  <2> QED
    BY <2>2, FS_CardinalityType
<1>3. Cardinality(ActiveEvents(l)) = 0 \/ Cardinality(ActiveEvents(l)) = 1
  BY <1>2
<1>4. ActiveEvents(l) = {} \/ \E x : ActiveEvents(l) = {x}
  BY <1>2, <1>3, FS_EmptySet, FS_Singleton, Zenon
<1> QED
  BY <1>4

\* What the steps below rest on: the events l are those of the rule, and of a
\* rule that is active e is one.
EventsTyped(l, row, e) ==
    /\ l \in Seq(Event) /\ Cardinality(ActiveEvents(l)) <= 1
    /\ row.runtime.state = "active" => e \in DOMAIN l

\* create_event.
LEMMA LogActivates ==
  ASSUME NEW row \in RowRead, NEW s \in Sample, NEW l, NEW e, EventsTyped(l, row, e),
         Activates(row, s), ActiveEvents(l) = {}
  PROVE  LET m == NextLog(l, row, s, e)
         IN  /\ m \in Seq(Event) /\ Len(m) = Len(l) + 1 /\ ActiveEvents(m) = {Len(l) + 1}
             /\ m[Len(l) + 1] = NewEvent(row, s)
             /\ Extends(l, m) /\ KeepsResolved(l, m)
<1> DEFINE m == Append(l, NewEvent(row, s))
<1>1. NextLog(l, row, s, e) = m
  BY ActivationJustified DEF NextLog
<1>2. NewEvent(row, s) \in Event /\ NewEvent(row, s).status = "active"
  BY NewEventTyped
<1>3. l \in Seq(Event) /\ Len(l) \in Nat /\ DOMAIN l = 1..Len(l)
  BY DEF EventsTyped
<1>4. /\ m \in Seq(Event) /\ Len(m) = Len(l) + 1 /\ DOMAIN m = 1..(Len(l) + 1)
      /\ m[Len(l) + 1] = NewEvent(row, s) /\ \A i \in 1..Len(l) : m[i] = l[i]
  BY <1>2, <1>3
<1> HIDE DEF m
<1>5. ActiveEvents(m) = {Len(l) + 1}
  BY <1>2, <1>3, <1>4 DEF ActiveEvents
<1>6. Extends(l, m) /\ KeepsResolved(l, m)
  BY <1>3, <1>4 DEF Extends, KeepsResolved, SameOrigin
<1> QED
  BY <1>1, <1>4, <1>5, <1>6

\* No event: the rule is not active and does not become so.
LEMMA LogUntouched ==
  ASSUME NEW row \in RowRead, NEW s \in Sample, NEW l, NEW e,
         row.runtime.state # "active", ~Activates(row, s)
  PROVE  NextLog(l, row, s, e) = l
BY DEF NextLog

\* resolve_active_event, of an event that is active or that is no more.
LEMMA LogRecovers ==
  ASSUME NEW row \in RowRead, NEW s \in Sample, NEW l, NEW e, EventsTyped(l, row, e),
         row.runtime.state = "active", IsRecovery(row.def, Measured(row, s))
  PROVE  LET m == NextLog(l, row, s, e)
         IN  /\ m \in Seq(Event) /\ Len(m) = Len(l) /\ Cardinality(ActiveEvents(m)) <= 1
             /\ l[e].status = "active" => ActiveEvents(m) = {} /\ KeepsResolved(l, m)
             /\ Extends(l, m)
<1>1. l \in Seq(Event) /\ Len(l) \in Nat /\ DOMAIN l = 1..Len(l) /\ e \in 1..Len(l)
  BY DEF EventsTyped
<1> DEFINE n == ResolveActive(l, "condition_recovered")
           m == [n EXCEPT ![e].last = Measured(row, s)]
<1>2. CASE l[e].status # "active"
  <2>1. NextLog(l, row, s, e) = l
    BY <1>2 DEF NextLog
  <2>2. Extends(l, l)
    BY <1>1 DEF Extends, SameOrigin
  <2> QED
    BY <1>1, <1>2, <2>1, <2>2 DEF EventsTyped
<1>3. CASE l[e].status = "active"
  <2>1. NextLog(l, row, s, e) = m
    BY <1>3 DEF NextLog
  <2>2. /\ n \in Seq(Event) /\ Len(n) = Len(l) /\ ActiveEvents(n) = {}
        /\ Extends(l, n) /\ KeepsResolved(l, n)
    BY <1>1, Resolved
  <2> HIDE DEF n
  <2>3. Measured(row, s) \in Value /\ n[e] \in Event
    BY <1>1, <2>2, MeasuredTyped
  <2>4. /\ m \in Seq(Event) /\ Len(m) = Len(l) /\ DOMAIN m = 1..Len(l)
        /\ m[e] = [n[e] EXCEPT !.last = Measured(row, s)]
        /\ \A i \in 1..Len(l) : i # e => m[i] = n[i]
    <3>1. [n[e] EXCEPT !.last = Measured(row, s)] \in Event
      BY <2>3 DEF Event
    <3> QED
      BY <1>1, <2>2, <3>1
  <2>5. /\ [n[e] EXCEPT !.last = Measured(row, s)].status = n[e].status
        /\ SameOrigin(n[e], [n[e] EXCEPT !.last = Measured(row, s)])
    BY <2>3 DEF Event, SameOrigin
  <2> HIDE DEF m
  <2>6. ActiveEvents(m) = {}
    <3>1. \A i \in 1..Len(l) : n[i].status # "active"
      BY <1>1, <2>2 DEF ActiveEvents
    <3>2. \A i \in 1..Len(l) : m[i].status # "active"
      BY <1>1, <2>4, <2>5, <3>1
    <3> QED
      BY <2>4, <3>2 DEF ActiveEvents
  <2>7. Extends(l, m)
    BY <1>1, <2>2, <2>4, <2>5 DEF Extends, SameOrigin
  <2>8. KeepsResolved(l, m)
    BY <1>1, <1>3, <2>2, <2>4 DEF KeepsResolved
  <2>9. Cardinality(ActiveEvents(m)) <= 1
    BY <2>6, FewEvents
  <2> QED
    BY <2>1, <2>4, <2>6, <2>7, <2>8, <2>9
<1> QED
  BY <1>2, <1>3

\* update_active_event.
LEMMA LogUpdated ==
  ASSUME NEW row \in RowRead, NEW s \in Sample, NEW l, NEW e, EventsTyped(l, row, e),
         row.runtime.state = "active", ~IsRecovery(row.def, Measured(row, s))
  PROVE  LET m == NextLog(l, row, s, e)
         IN  /\ m \in Seq(Event) /\ Len(m) = Len(l) /\ ActiveEvents(m) = ActiveEvents(l)
             /\ m[e].last = Measured(row, s) /\ m[e].def = l[e].def
             /\ m[e].started = l[e].started
             /\ m[e].extreme = UpdateExtreme(row.def, l[e].extreme, Measured(row, s))
             /\ l[e].status = "active" => KeepsResolved(l, m)
             /\ Extends(l, m)
<1>1. l \in Seq(Event) /\ Len(l) \in Nat /\ DOMAIN l = 1..Len(l) /\ e \in 1..Len(l)
  BY DEF EventsTyped
<1> DEFINE v == Measured(row, s)
           w == UpdateExtreme(row.def, l[e].extreme, v)
           f == [l[e] EXCEPT !.last = v, !.extreme = w]
           m == [l EXCEPT ![e] = f]
<1>2. l[e] \in Event /\ l[e].extreme \in Value /\ l[e].extreme \in Int
  BY <1>1, EventFields, Numbers
<1>3. NextLog(l, row, s, e) = m
  <2>1. NextLog(l, row, s, e) =
          [l EXCEPT ![e].last = v, ![e].extreme = UpdateExtreme(row.def, @, v)]
    BY DEF NextLog
  <2> QED
    BY <1>1, <1>2, <2>1 DEF Event
<1>4. v \in Value /\ w \in Value
  <2>1. v \in Value /\ v \in Int
    BY MeasuredTyped
  <2>2. w \in {l[e].extreme, v}
    BY <1>2, <2>1, RowFields, ExtremeIsWorse
  <2> QED
    BY <1>2, <2>1, <2>2
<1> HIDE DEF v, w
<1>5. /\ f \in Event /\ f.status = l[e].status /\ SameOrigin(l[e], f)
      /\ f.last = v /\ f.extreme = w
  BY <1>2, <1>4 DEF Event, SameOrigin
<1> HIDE DEF f
<1>6. /\ m \in Seq(Event) /\ Len(m) = Len(l) /\ DOMAIN m = 1..Len(l)
      /\ m[e] = f /\ \A i \in 1..Len(l) : i # e => m[i] = l[i]
  BY <1>1, <1>5
<1> HIDE DEF m
<1>7. ActiveEvents(m) = ActiveEvents(l)
  BY <1>1, <1>5, <1>6 DEF ActiveEvents
<1>8. Extends(l, m)
  BY <1>1, <1>5, <1>6 DEF Extends, SameOrigin
<1>9. l[e].status = "active" => KeepsResolved(l, m)
  BY <1>1, <1>5, <1>6 DEF KeepsResolved
<1> QED
  BY <1>3, <1>5, <1>6, <1>7, <1>8, <1>9 DEF v, w, SameOrigin

\* Whatever was read, one evaluation leaves the events of a rule well-formed,
\* at most one of them active, and all of them justified.
LEMMA LogStep ==
  ASSUME NEW row \in RowRead, NEW s \in Sample, NEW l, NEW e, EventsTyped(l, row, e),
         ~Raises(row, s, l, e), \A i \in DOMAIN l : EventJustified(l[i])
  PROVE  LET m == NextLog(l, row, s, e)
         IN  /\ m \in Seq(Event) /\ Len(l) <= Len(m) /\ Cardinality(ActiveEvents(m)) <= 1
             /\ \A i \in DOMAIN m : EventJustified(m[i])
             /\ (row.runtime.state = "active" => l[e].status = "active")
                    => KeepsResolved(l, m)
<1>1. l \in Seq(Event) /\ Len(l) \in Nat /\ DOMAIN l = 1..Len(l)
  BY DEF EventsTyped
<1>2. ASSUME NEW m \in Seq(Event), Len(m) = Len(l), Extends(l, m)
      PROVE  \A i \in DOMAIN m : EventJustified(m[i])
  BY <1>1, <1>2 DEF Extends, SameOrigin, EventJustified
<1>3. CASE row.runtime.state # "active" /\ Activates(row, s)
  <2>1. ActiveEvents(l) = {}
    BY <1>3 DEF Raises
  <2> DEFINE m == NextLog(l, row, s, e)
  <2>2. /\ m \in Seq(Event) /\ Len(m) = Len(l) + 1 /\ ActiveEvents(m) = {Len(l) + 1}
        /\ m[Len(l) + 1] = NewEvent(row, s)
        /\ Extends(l, m) /\ KeepsResolved(l, m)
    BY <1>3, <2>1, LogActivates
  <2> HIDE DEF m
  <2>3. ASSUME NEW i \in DOMAIN m
        PROVE  EventJustified(m[i])
    <3>1. CASE i = Len(l) + 1
      BY <1>3, <2>2, <3>1, NewEventTyped
    <3>2. CASE i \in 1..Len(l)
      BY <1>1, <2>2, <3>2 DEF Extends, SameOrigin, EventJustified
    <3> QED
      BY <1>1, <2>2, <3>1, <3>2
  <2>4. Cardinality(ActiveEvents(m)) <= 1
    BY <2>2, FewEvents
  <2> QED
    BY <1>1, <2>2, <2>3, <2>4 DEF m
<1>4. CASE row.runtime.state # "active" /\ ~Activates(row, s)
  <2>1. NextLog(l, row, s, e) = l
    BY <1>4, LogUntouched
  <2>2. KeepsResolved(l, l)
    BY DEF KeepsResolved
  <2> QED
    BY <1>1, <2>1, <2>2 DEF EventsTyped
<1>5. CASE row.runtime.state = "active" /\ IsRecovery(row.def, Measured(row, s))
  <2> DEFINE m == NextLog(l, row, s, e)
  <2>1. /\ m \in Seq(Event) /\ Len(m) = Len(l) /\ Cardinality(ActiveEvents(m)) <= 1
        /\ l[e].status = "active" => KeepsResolved(l, m)
        /\ Extends(l, m)
    BY <1>5, LogRecovers
  <2> HIDE DEF m
  <2> QED
    BY <1>1, <1>2, <1>5, <2>1 DEF m
<1>6. CASE row.runtime.state = "active" /\ ~IsRecovery(row.def, Measured(row, s))
  <2> DEFINE m == NextLog(l, row, s, e)
  <2>1. /\ m \in Seq(Event) /\ Len(m) = Len(l) /\ ActiveEvents(m) = ActiveEvents(l)
        /\ l[e].status = "active" => KeepsResolved(l, m)
        /\ Extends(l, m)
    BY <1>6, LogUpdated
  <2>2. Cardinality(ActiveEvents(m)) <= 1
    BY <2>1 DEF EventsTyped
  <2> HIDE DEF m
  <2> QED
    BY <1>1, <1>2, <1>6, <2>1, <2>2 DEF m
<1> QED
  BY <1>3, <1>4, <1>5, <1>6

-----------------------------------------------------------------------------
(* A rule agrees with its events and samples: kept by every write.         *)

\* A reset leaves nothing to agree with, whatever the definition.
LEMMA ResetAgrees ==
  ASSUME NEW d \in DefinitionType, NEW l, ActiveEvents(l) = {}
  PROVE  RuleAgrees(Unevaluated, l, d, <<>>)
<1>1. ~Raised(d, <<>>)
  BY DEF Raised
<1>2. Unevaluated.state = "normal" /\ Unevaluated.lastAt = None
  BY DEF Unevaluated
<1>3. StateAgrees(Unevaluated, d, <<>>)
  BY <1>1, <1>2 DEF StateAgrees
<1>4. InOrder(<<>>)
  BY DEF InOrder
<1>5. LastAccepted(Unevaluated, <<>>) /\ ViolationBegan(Unevaluated, d, <<>>)
  BY <1>2 DEF LastAccepted, ViolationBegan
<1> QED
  BY <1>2, <1>3, <1>4, <1>5 DEF RuleAgrees

\* Nothing depends on whether the rule is enabled but that it is at rest if not.
LEMMA SameConditionAgrees ==
  ASSUME NEW x, NEW l, NEW h, NEW d \in DefinitionType, NEW c \in DefinitionType,
         \A f \in SubstantialFields : c[f] = d[f], ~c.enabled => ~d.enabled,
         RuleAgrees(x, l, d, h)
  PROVE  RuleAgrees(x, l, c, h)
<1>1. /\ c.operator = d.operator /\ c.threshold = d.threshold
      /\ c.duration = d.duration /\ c.hysteresis = d.hysteresis
  BY DEF SubstantialFields
<1>2. \A v : Excess(c, v) = Excess(d, v)
  BY <1>1 DEF Excess
<1>3. Raised(c, h) <=> Raised(d, h)
  BY <1>1, <1>2 DEF Raised
<1>4. \A v, t : IsWorst(v, c, h, t) <=> IsWorst(v, d, h, t)
  BY <1>2, WorstByIndex
<1>5. \A i : BeginsAt(i, c, h) <=> BeginsAt(i, d, h)
  BY <1>2 DEF BeginsAt
<1>6. StateAgrees(x, c, h)
  BY <1>2, <1>3, <1>4 DEF StateAgrees, RuleAgrees
<1>7. ViolationBegan(x, c, h)
  BY <1>5 DEF ViolationBegan, RuleAgrees
<1>8. \A i \in ActiveEvents(l) : EventAgrees(l[i], c, h)
  BY <1>4 DEF EventAgrees, RuleAgrees
<1> QED
  BY <1>6, <1>7, <1>8 DEF RuleAgrees

\* A rule is evaluated as it is: its row, events and samples agree, the event
\* is the active one, and the evaluation neither ignores the sample nor raises.
Evaluates(row, s, l, e, h) ==
    /\ row \in RowRead /\ s \in Sample /\ h \in Seq(Accepted)
    /\ EventsTyped(l, row, e)
    /\ row.runtime.state = "active" => e \in ActiveEvents(l)
    /\ RuleAgrees(row.runtime, l, row.def, h)
    /\ row.def.enabled
    /\ ~Ignored(row, s)
    /\ ~Raises(row, s, l, e)

\* The sample that is accepted.
Taken(row, s) == [at |-> s.at, value |-> Measured(row, s)]

\* What the sample and the row are, in every case.
LEMMA EvaluatesFacts ==
  ASSUME NEW row, NEW s, NEW l, NEW e, NEW h, Evaluates(row, s, l, e, h)
  PROVE  /\ Taken(row, s) \in Accepted
         /\ Taken(row, s).at = s.at /\ Taken(row, s).value = Measured(row, s)
         /\ \A i \in 1..Len(h) : h[i].at < Taken(row, s).at
         /\ InOrder(Append(h, Taken(row, s)))
         /\ LastAccepted(NextRuntime(row, s), Append(h, Taken(row, s)))
<1>1. /\ row \in RowRead /\ s \in Sample /\ h \in Seq(Accepted)
      /\ RuleAgrees(row.runtime, l, row.def, h) /\ ~Ignored(row, s)
  BY DEF Evaluates
<1> DEFINE y == Taken(row, s)
<1>2. y \in Accepted /\ y.at = s.at /\ y.value = Measured(row, s)
  BY <1>1, MeasuredTyped DEF Taken, Accepted
<1> HIDE DEF y
<1>3. ASSUME h # <<>>
      PROVE  h[Len(h)].at < y.at
  <2>1. row.runtime.lastAt = h[Len(h)].at /\ h[Len(h)] \in Accepted
    BY <1>1, <1>3 DEF RuleAgrees, LastAccepted
  <2>2. row.runtime.lastAt \in Nat /\ row.runtime.lastAt # None /\ s.at \in Nat
    BY <1>1, <2>1, AcceptedFields, MeasuredTyped, Numbers
  <2>3. ~(s.at <= row.runtime.lastAt)
    BY <1>1, <2>2 DEF Ignored
  <2> QED
    BY <1>2, <2>1, <2>2, <2>3
<1>4. h = <<>> \/ h[Len(h)].at < y.at
  BY <1>3
<1>5. InOrder(h)
  BY <1>1 DEF RuleAgrees
<1>6. (\A i \in 1..Len(h) : h[i].at < y.at) /\ InOrder(Append(h, y))
  BY <1>1, <1>2, <1>4, <1>5, OrderKept
<1>7. LastAccepted(NextRuntime(row, s), Append(h, y))
  <2>1. /\ Append(h, y) # <<>> /\ Append(h, y)[Len(Append(h, y))] = y
    BY <1>1, <1>2, Appended
  <2>2. NextRuntime(row, s).lastAt = s.at
    BY DEF NextRuntime
  <2> QED
    BY <1>2, <2>1, <2>2 DEF LastAccepted
<1> QED
  BY <1>2, <1>6, <1>7 DEF y

\* What remains to be shown of the rule x with the events m and the samples g.
Agrees(x, m, d, g) ==
    /\ x.state = "active" <=> ActiveEvents(m) # {}
    /\ \A i \in ActiveEvents(m) : EventAgrees(m[i], d, g)
    /\ StateAgrees(x, d, g)
    /\ ViolationBegan(x, d, g)

\* The evaluation of a sample that is given in the lemmas below.
LEMMA NextFields ==
  ASSUME NEW row, NEW s
  PROVE  /\ NextRuntime(row, s).state = NextState(row, s)
         /\ NextState(row, s) = "pending" =>
               /\ NextRuntime(row, s).since = Since(row, s)
               /\ NextRuntime(row, s).extreme = PendingExtreme(row, s)
BY DEF NextRuntime

\* An activation, given that the samples say so and that the violation's start
\* and extreme are theirs.
LEMMA ActivationAgrees ==
  ASSUME NEW row, NEW s, NEW l, NEW e, NEW h, Evaluates(row, s, l, e, h),
         Activates(row, s), Raised(row.def, Append(h, Taken(row, s))),
         IsWorst(PendingExtreme(row, s), row.def, Append(h, Taken(row, s)), Since(row, s))
  PROVE  Agrees(NextRuntime(row, s), NextLog(l, row, s, e), row.def,
                Append(h, Taken(row, s)))
<1>1. /\ row \in RowRead /\ s \in Sample /\ h \in Seq(Accepted)
      /\ EventsTyped(l, row, e) /\ ~Raises(row, s, l, e)
  BY DEF Evaluates
<1> DEFINE y == Taken(row, s)
           g == Append(h, y)
           m == NextLog(l, row, s, e)
           x == NextRuntime(row, s)
<1>2. y \in Accepted /\ y.value = Measured(row, s) /\ g[Len(g)] = y
  BY <1>1, EvaluatesFacts, Appended
<1>3. row.runtime.state # "active" /\ ActiveEvents(l) = {}
  BY <1>1, ActivationJustified DEF Raises
<1>4. x.state = "active"
  BY <1>1, <1>3, NextStates, NextFields
<1>5. ActiveEvents(m) = {Len(l) + 1} /\ m[Len(l) + 1] = NewEvent(row, s)
  BY <1>1, <1>3, LogActivates
<1>6. Raised(row.def, g) /\ IsWorst(PendingExtreme(row, s), row.def, g, Since(row, s))
  OBVIOUS
<1> HIDE DEF y, g, m, x
<1>7. EventAgrees(NewEvent(row, s), row.def, g)
  BY <1>2, <1>6 DEF EventAgrees, NewEvent
<1>8. StateAgrees(x, row.def, g) /\ ViolationBegan(x, row.def, g)
  BY <1>4, <1>6 DEF StateAgrees, ViolationBegan
<1>9. Agrees(x, m, row.def, g)
  BY <1>4, <1>5, <1>7, <1>8 DEF Agrees
<1> QED
  BY <1>9 DEF x, m, g, y

\* No activation of a rule that is not active.
LEMMA QuietAgrees ==
  ASSUME NEW row, NEW s, NEW l, NEW e, NEW h, Evaluates(row, s, l, e, h),
         row.runtime.state # "active", ~Activates(row, s),
         ~Raised(row.def, Append(h, Taken(row, s))),
         IsViolation(row.def, Measured(row, s)) =>
            /\ IsWorst(PendingExtreme(row, s), row.def, Append(h, Taken(row, s)),
                       Since(row, s))
            /\ \E i \in DOMAIN Append(h, Taken(row, s)) :
                  /\ Append(h, Taken(row, s))[i].at = Since(row, s)
                  /\ BeginsAt(i, row.def, Append(h, Taken(row, s)))
  PROVE  Agrees(NextRuntime(row, s), NextLog(l, row, s, e), row.def,
                Append(h, Taken(row, s)))
<1>1. /\ row \in RowRead /\ s \in Sample /\ h \in Seq(Accepted)
      /\ EventsTyped(l, row, e) /\ RuleAgrees(row.runtime, l, row.def, h)
  BY DEF Evaluates
<1> DEFINE y == Taken(row, s)
           g == Append(h, y)
           m == NextLog(l, row, s, e)
           x == NextRuntime(row, s)
<1>2. y \in Accepted /\ y.value = Measured(row, s) /\ g[Len(g)] = y /\ g # <<>>
  BY <1>1, EvaluatesFacts, Appended
<1>3. ActiveEvents(m) = {}
  BY <1>1, LogUntouched DEF RuleAgrees
<1>4. x.state = IF IsViolation(row.def, Measured(row, s)) THEN "pending" ELSE "normal"
  BY <1>1, NextStates, NextFields
<1>5. IsViolation(row.def, Measured(row, s)) <=> Excess(row.def, g[Len(g)].value) > 0
  BY <1>1, <1>2, RowFields, MeasuredTyped, Conditions
<1>6. x.state = "pending" => x.since = Since(row, s) /\ x.extreme = PendingExtreme(row, s)
  BY NextFields
<1>7. ~Raised(row.def, g)
  OBVIOUS
<1>8. IsViolation(row.def, Measured(row, s)) =>
            /\ IsWorst(PendingExtreme(row, s), row.def, g, Since(row, s))
            /\ \E i \in DOMAIN g : g[i].at = Since(row, s) /\ BeginsAt(i, row.def, g)
  OBVIOUS
<1> HIDE DEF y, g, m, x
<1>9. StateAgrees(x, row.def, g)
  BY <1>2, <1>4, <1>5, <1>6, <1>7, <1>8 DEF StateAgrees
<1>10. ViolationBegan(x, row.def, g)
  BY <1>4, <1>6, <1>8 DEF ViolationBegan
<1>11. Agrees(x, m, row.def, g)
  BY <1>3, <1>4, <1>9, <1>10 DEF Agrees
<1> QED
  BY <1>11 DEF x, m, g, y

\* A rule that is normal: a violation begins, or none does.
LEMMA NormalAgrees ==
  ASSUME NEW row, NEW s, NEW l, NEW e, NEW h, Evaluates(row, s, l, e, h),
         row.runtime.state = "normal"
  PROVE  Agrees(NextRuntime(row, s), NextLog(l, row, s, e), row.def,
                Append(h, Taken(row, s)))
<1>1. /\ row \in RowRead /\ s \in Sample /\ h \in Seq(Accepted)
      /\ RuleAgrees(row.runtime, l, row.def, h)
  BY DEF Evaluates
<1> DEFINE y == Taken(row, s)
           g == Append(h, y)
           d == row.def
<1>2. /\ y \in Accepted /\ y.value = Measured(row, s) /\ y.at = s.at
      /\ \A i \in 1..Len(h) : h[i].at < y.at
  BY EvaluatesFacts
<1>3. d \in DefinitionType /\ (IsViolation(d, y.value) <=> Excess(d, y.value) > 0)
  BY <1>1, <1>2, RowFields, MeasuredTyped, Conditions
<1>4. ~Raised(d, h) /\ (h = <<>> \/ ~(Excess(d, h[Len(h)].value) > 0))
  BY <1>1 DEF RuleAgrees, StateAgrees
<1>5. Raised(d, g) <=> Excess(d, y.value) > 0 /\ d.duration = 0
  BY <1>1, <1>2, <1>3, <1>4, RaisedFromNormal
<1>6. Since(row, s) = y.at /\ PendingExtreme(row, s) = y.value
  BY <1>2 DEF Since, PendingExtreme
<1>7. IsWorst(PendingExtreme(row, s), d, g, Since(row, s))
  BY <1>1, <1>2, <1>3, <1>6, WorstBegins
<1>8. Activates(row, s) <=> Raised(d, g)
  BY <1>2, <1>3, <1>5 DEF Activates
<1>9. ASSUME IsViolation(d, Measured(row, s))
      PROVE  \E i \in DOMAIN g : g[i].at = Since(row, s) /\ BeginsAt(i, d, g)
  <2>1. BeginsAt(Len(h) + 1, d, g)
    BY <1>1, <1>2, <1>3, <1>4, <1>9, BeginningHere
  <2>2. Len(h) + 1 \in DOMAIN g /\ g[Len(h) + 1] = y
    BY <1>1, <1>2, Appended
  <2> QED
    BY <1>6, <2>1, <2>2
<1>10. CASE Activates(row, s)
  BY <1>7, <1>8, <1>10, ActivationAgrees
<1>11. CASE ~Activates(row, s)
  BY <1>7, <1>8, <1>9, <1>11, QuietAgrees
<1> QED
  BY <1>10, <1>11

\* A rule that is pending: the violation goes on, and may last, or ends.
LEMMA PendingAgrees ==
  ASSUME NEW row, NEW s, NEW l, NEW e, NEW h, Evaluates(row, s, l, e, h),
         row.runtime.state = "pending"
  PROVE  Agrees(NextRuntime(row, s), NextLog(l, row, s, e), row.def,
                Append(h, Taken(row, s)))
<1>1. /\ row \in RowRead /\ s \in Sample /\ h \in Seq(Accepted)
      /\ RuleAgrees(row.runtime, l, row.def, h)
  BY DEF Evaluates
<1> DEFINE y == Taken(row, s)
           g == Append(h, y)
           d == row.def
           t == row.runtime.since
<1>2. /\ y \in Accepted /\ y.value = Measured(row, s) /\ y.at = s.at
      /\ \A i \in 1..Len(h) : h[i].at < y.at
  BY EvaluatesFacts
<1>3. d \in DefinitionType /\ (IsViolation(d, y.value) <=> Excess(d, y.value) > 0)
  BY <1>1, <1>2, RowFields, MeasuredTyped, Conditions
<1>4. ~Raised(d, h) /\ InOrder(h) /\ IsWorst(row.runtime.extreme, d, h, t)
  BY <1>1 DEF RuleAgrees, StateAgrees
<1>5. PICK b \in DOMAIN h : h[b].at = t /\ BeginsAt(b, d, h)
  BY <1>1 DEF RuleAgrees, ViolationBegan
<1>6. b \in 1..Len(h)
  BY <1>1
<1>7. Raised(d, g) <=> Excess(d, y.value) > 0 /\ y.at - t >= d.duration
  BY <1>1, <1>2, <1>3, <1>4, <1>5, <1>6, RaisedFromPending
<1>8. Since(row, s) = t
  BY DEF Since
<1>9. IsWorst(PendingExtreme(row, s), d, g, t)
  <2>1. row.runtime.extreme \in Value /\ t \in Time
    BY <1>1, RowFields
  <2>2. PendingExtreme(row, s) = UpdateExtreme(d, row.runtime.extreme, y.value)
    BY <1>1, <1>2, PendingExtremeTyped
  <2> QED
    BY <1>1, <1>2, <1>3, <1>4, <2>1, <2>2, WorstContinues
<1>10. Activates(row, s) <=> Raised(d, g)
  BY <1>2, <1>3, <1>7 DEF Activates
<1>11. ASSUME IsViolation(d, Measured(row, s))
       PROVE  \E i \in DOMAIN g : g[i].at = Since(row, s) /\ BeginsAt(i, d, g)
  <2>1. BeginsAt(b, d, g)
    BY <1>1, <1>2, <1>3, <1>5, <1>6, <1>11, BeginningKept
  <2>2. b \in DOMAIN g /\ g[b] = h[b]
    BY <1>1, <1>2, <1>6, Appended
  <2> QED
    BY <1>5, <1>8, <2>1, <2>2
<1>12. CASE Activates(row, s)
  BY <1>8, <1>9, <1>10, <1>12, ActivationAgrees
<1>13. CASE ~Activates(row, s)
  BY <1>8, <1>9, <1>10, <1>11, <1>13, QuietAgrees
<1> QED
  BY <1>12, <1>13

\* A rule that is active: it recovers, or its event is brought up to date.
LEMMA ActiveAgrees ==
  ASSUME NEW row, NEW s, NEW l, NEW e, NEW h, Evaluates(row, s, l, e, h),
         row.runtime.state = "active"
  PROVE  Agrees(NextRuntime(row, s), NextLog(l, row, s, e), row.def,
                Append(h, Taken(row, s)))
<1>1. /\ row \in RowRead /\ s \in Sample /\ h \in Seq(Accepted)
      /\ EventsTyped(l, row, e) /\ e \in ActiveEvents(l)
      /\ RuleAgrees(row.runtime, l, row.def, h)
  BY DEF Evaluates
<1> DEFINE y == Taken(row, s)
           g == Append(h, y)
           d == row.def
           m == NextLog(l, row, s, e)
           x == NextRuntime(row, s)
<1>2. /\ y \in Accepted /\ y.value = Measured(row, s) /\ y.at = s.at
      /\ \A i \in 1..Len(h) : h[i].at < y.at
  BY EvaluatesFacts
<1>3. /\ d \in DefinitionType /\ d.hysteresis \in Nat
      /\ Excess(d, y.value) \in Int
      /\ IsRecovery(d, Measured(row, s)) <=> ~(Excess(d, y.value) > -d.hysteresis)
  BY <1>1, <1>2, RowFields, DefinitionFields, MeasuredTyped, Conditions
<1>4. Raised(d, h) /\ ActiveEvents(l) # {} /\ EventAgrees(l[e], d, h)
  BY <1>1 DEF RuleAgrees, StateAgrees
<1>5. Raised(d, g) <=> ~IsRecovery(d, Measured(row, s))
  BY <1>1, <1>2, <1>3, <1>4, RaisedContinues
<1>6. x.state = IF IsRecovery(d, Measured(row, s)) THEN "normal" ELSE "active"
  BY <1>1, NextStates, NextFields
<1>7. g[Len(g)] = y /\ g # <<>>
  BY <1>1, <1>2, Appended
<1>8. l \in Seq(Event) /\ l[e].status = "active" /\ e \in 1..Len(l)
  BY <1>1 DEF EventsTyped, ActiveEvents
<1>9. CASE IsRecovery(d, Measured(row, s))
  <2>1. ActiveEvents(m) = {}
    BY <1>1, <1>8, <1>9, LogRecovers
  <2>2. ~(Excess(d, y.value) > 0)
    BY <1>3, <1>9
  <2> HIDE DEF y, g, m, x
  <2>3. StateAgrees(x, d, g) /\ ViolationBegan(x, d, g)
    BY <1>5, <1>6, <1>7, <1>9, <2>2 DEF StateAgrees, ViolationBegan
  <2>4. Agrees(x, m, d, g)
    BY <1>6, <1>9, <2>1, <2>3 DEF Agrees
  <2> QED
    BY <2>4 DEF x, m, g, y
<1>10. CASE ~IsRecovery(d, Measured(row, s))
  <2>1. /\ ActiveEvents(m) = ActiveEvents(l)
        /\ m[e].last = y.value /\ m[e].def = l[e].def /\ m[e].started = l[e].started
        /\ m[e].extreme = UpdateExtreme(d, l[e].extreme, y.value)
    BY <1>1, <1>2, <1>10, LogUpdated
  <2>2. l[e].extreme \in Value /\ l[e].started \in Time
    <3>1. l[e] \in Event
      BY <1>8
    <3> QED
      BY <3>1, EventFields
  <2>3. IsWorst(m[e].extreme, d, g, m[e].started)
    BY <1>1, <1>2, <1>3, <1>4, <2>1, <2>2, WorstContinues DEF EventAgrees
  <2>4. \A i \in ActiveEvents(l) : i = e
    BY <1>1, OneActive DEF EventsTyped
  <2> HIDE DEF y, g, m, x
  <2>5. EventAgrees(m[e], d, g)
    BY <1>4, <1>7, <2>1, <2>3 DEF EventAgrees
  <2>6. StateAgrees(x, d, g) /\ ViolationBegan(x, d, g)
    BY <1>5, <1>6, <1>10 DEF StateAgrees, ViolationBegan
  <2>7. Agrees(x, m, d, g)
    BY <1>4, <1>6, <1>10, <2>1, <2>4, <2>5, <2>6 DEF Agrees
  <2> QED
    BY <2>7 DEF x, m, g, y
<1> QED
  BY <1>9, <1>10

LEMMA StepAgrees ==
  ASSUME NEW row, NEW s, NEW l, NEW e, NEW h, Evaluates(row, s, l, e, h)
  PROVE  RuleAgrees(NextRuntime(row, s), NextLog(l, row, s, e), row.def,
                    Append(h, Taken(row, s)))
<1>1. row \in RowRead /\ row.def.enabled
  BY DEF Evaluates
<1>2. Agrees(NextRuntime(row, s), NextLog(l, row, s, e), row.def, Append(h, Taken(row, s)))
  BY <1>1, RowFields, NormalAgrees, PendingAgrees, ActiveAgrees
<1>3. /\ InOrder(Append(h, Taken(row, s)))
      /\ LastAccepted(NextRuntime(row, s), Append(h, Taken(row, s)))
  BY EvaluatesFacts
<1> QED
  BY <1>1, <1>2, <1>3 DEF RuleAgrees, Agrees

-----------------------------------------------------------------------------
(* The parts of TypeOK, which the steps disturb one at a time.             *)

RulesTyped ==
    /\ rule \in [Rule -> RuleRow \cup {None}]
    /\ \A r \in Created : rule[r].archived => ~rule[r].def.enabled

TablesTyped ==
    /\ runtime \in [Rule -> RuntimeRow]
    /\ log \in [Rule -> Seq(Event)]
    /\ \A r \in Rule : Cardinality(ActiveEvents(log[r])) <= 1

CollectorTyped ==
    /\ collector \in [pc : {"idle", "saved", "selected", "fetched"},
                      sample : Sample \cup {None}, rows : {collector.rows},
                      event : Nat \cup {None}]
    /\ DOMAIN collector.rows \subseteq Rule
    /\ collector.rows \in [DOMAIN collector.rows -> RowRead]
    /\ collector.pc # "idle" => collector.sample \in Sample
    /\ collector.pc = "fetched" <=> collector.event # None

RequestsTyped ==
    /\ request \in [Client -> Request \cup {None}]
    /\ nextId \in Nat /\ edits \in 0..MaxEdits

HistoryTyped ==
    /\ accepted \in [Rule -> Seq(Accepted)]
    /\ raced \subseteq Created

LEMMA TypeParts ==
  /\ TypeOK <=>
        RulesTyped /\ TablesTyped /\ CollectorTyped /\ RequestsTyped /\ HistoryTyped
  /\ TypeOK' <=>
        RulesTyped' /\ TablesTyped' /\ CollectorTyped' /\ RequestsTyped' /\ HistoryTyped'
BY Zenon DEF TypeOK, RulesTyped, TablesTyped, CollectorTyped, RequestsTyped, HistoryTyped

\* The parts of the invariant that are about the tables and their history.
TablesInv ==
    /\ RulesTyped /\ TablesTyped /\ HistoryTyped
    /\ CreatedInOrder /\ EventsJustified /\ Agreement

LEMMA InvParts ==
  /\ IInv <=> TablesInv /\ CollectorTyped /\ RequestsTyped /\ ReadersKnow /\ FetchedEvent
  /\ IInv' <=>
        TablesInv' /\ CollectorTyped' /\ RequestsTyped' /\ ReadersKnow' /\ FetchedEvent'
BY TypeParts, Zenon DEF IInv, TablesInv

\* A step that writes no table.
LEMMA NothingWritten ==
  ASSUME TablesInv, UNCHANGED <<rule, runtime, log, accepted, raced>>
  PROVE  TablesInv' /\ Created' = Created
<1>1. Created' = Created /\ Untroubled' = Untroubled
  BY DEF Created, Untroubled
<1>2. RulesTyped' /\ TablesTyped' /\ HistoryTyped'
  BY <1>1 DEF TablesInv, RulesTyped, TablesTyped, HistoryTyped
<1>3. CreatedInOrder' /\ EventsJustified' /\ Agreement'
  BY <1>1 DEF TablesInv, CreatedInOrder, EventsJustified, Agreement
<1> QED
  BY <1>1, <1>2, <1>3 DEF TablesInv

\* What a rule is.
LEMMA RuleFields ==
  ASSUME RulesTyped, NEW r \in Created
  PROVE  /\ r \in Rule /\ rule[r] \in RuleRow /\ rule[r].def \in DefinitionType
         /\ rule[r].archived \in BOOLEAN
<1>1. r \in Rule /\ rule[r] \in RuleRow
  BY DEF RulesTyped, Created
<1> QED
  BY <1>1 DEF RuleRow

LEMMA UnevaluatedTyped == Unevaluated \in RuntimeRow
BY DEF Unevaluated, RuntimeRow

-----------------------------------------------------------------------------
(* The initial state.                                                      *)

LEMMA InitIInv == Init => IInv
<1> SUFFICES ASSUME Init PROVE IInv
  OBVIOUS
<1> USE DEF Init
<1>1. Created = {}
  BY DEF Created
<1>2. RulesTyped
  BY <1>1 DEF RulesTyped
<1>3. TablesTyped
  <2>1. \A r \in Rule : ActiveEvents(log[r]) = {}
    BY DEF ActiveEvents
  <2>2. runtime \in [Rule -> RuntimeRow]
    BY UnevaluatedTyped
  <2>3. log \in [Rule -> Seq(Event)]
    <3>1. <<>> \in Seq(Event)
      OBVIOUS
    <3> QED
      BY <3>1
  <2>4. \A r \in Rule : Cardinality(ActiveEvents(log[r])) <= 1
    BY <2>1, FewEvents
  <2> HIDE DEF Init
  <2> QED
    BY <2>2, <2>3, <2>4 DEF TablesTyped
<1>4. CollectorTyped
  BY DEF CollectorTyped, Idle
<1>5. RequestsTyped
  BY AlertConstantsAssumption DEF RequestsTyped
<1>6. HistoryTyped
  BY <1>1 DEF HistoryTyped
<1>7. CreatedInOrder
  <2>1. Cardinality(Created) = 0 /\ Created = 1..0
    BY <1>1, FS_EmptySet
  <2>2. Created = 1..Cardinality(Created)
    BY <2>1
  <2>3. \A r \in Rule \ Created :
           runtime[r] = Unevaluated /\ log[r] = <<>> /\ accepted[r] = <<>>
    OBVIOUS
  <2> HIDE DEF Init
  <2> QED
    BY <2>2, <2>3, Zenon DEF CreatedInOrder
<1>8. ReadersKnow
  BY DEF ReadersKnow, Idle
<1>9. FetchedEvent
  BY DEF FetchedEvent, Idle
<1>10. EventsJustified
  BY DEF EventsJustified
<1>11. Agreement
  BY <1>1 DEF Agreement, Untroubled
<1> QED
  BY <1>2, <1>3, <1>4, <1>5, <1>6, <1>7, <1>8, <1>9, <1>10, <1>11, InvParts DEF TablesInv

-----------------------------------------------------------------------------
(* The collector's steps that write no table.                              *)

LEMMA SaveTelemetryIInv == IInv /\ SaveTelemetry => IInv'
<1> SUFFICES ASSUME IInv, SaveTelemetry PROVE IInv'
  OBVIOUS
<1> USE InvParts DEF SaveTelemetry, database
<1>1. TablesInv' /\ Created' = Created
  BY NothingWritten
<1>2. PICK t \in Time, m \in [Metric -> Value] :
         collector' = [Idle EXCEPT !.pc = "saved",
                           !.sample = [id |-> nextId, at |-> t, measured |-> m]]
  BY DEF Time
<1>3. [id |-> nextId, at |-> t, measured |-> m] \in Sample
  BY DEF RequestsTyped, Sample
<1>4. collector' = [pc |-> "saved", sample |-> [id |-> nextId, at |-> t, measured |-> m],
                    rows |-> <<>>, event |-> None]
  BY <1>2 DEF Idle
<1> HIDE DEF SaveTelemetry
<1>5. /\ collector'.pc = "saved" /\ collector'.sample \in Sample /\ collector'.rows = <<>>
      /\ collector'.event = None
      /\ collector' \in [pc : {"saved"}, sample : Sample, rows : {<<>>}, event : {None}]
  BY <1>3, <1>4
<1>6. CollectorTyped'
  <2>1. DOMAIN <<>> = {} /\ <<>> \in [DOMAIN <<>> -> RowRead]
    OBVIOUS
  <2> QED
    BY <1>5, <2>1 DEF CollectorTyped
<1>7. RequestsTyped'
  BY DEF RequestsTyped, SaveTelemetry
<1>8. ReadersKnow'
  <2>1. DOMAIN <<>> = {} /\ request' = request
    BY DEF SaveTelemetry
  <2> QED
    BY <1>1, <1>5, <2>1 DEF ReadersKnow
<1>9. FetchedEvent'
  BY <1>5 DEF FetchedEvent
<1> QED
  BY <1>1, <1>6, <1>7, <1>8, <1>9

LEMMA FetchEnabledRulesIInv == IInv /\ FetchEnabledRules => IInv'
<1> SUFFICES ASSUME IInv, FetchEnabledRules PROVE IInv'
  OBVIOUS
<1> USE InvParts DEF FetchEnabledRules, database
<1>1. TablesInv' /\ Created' = Created
  BY NothingWritten
<1> DEFINE Q == {q \in Created : rule[q].def.enabled /\ ~rule[q].archived}
           f == [r \in Q |-> Row(r)]
<1>2. ASSUME NEW r \in Q
      PROVE  r \in Created /\ r \in Rule /\ Row(r) \in RowRead /\ Row(r).def.enabled
  <2>1. r \in Rule /\ rule[r].def \in DefinitionType
    BY RuleFields DEF TablesInv
  <2>2. runtime[r] \in RuntimeRow
    BY <2>1 DEF TablesInv, TablesTyped
  <2> QED
    BY <2>1, <2>2 DEF Row, RowRead
<1>3. DOMAIN f = Q /\ \A r \in Q : f[r] = Row(r)
  OBVIOUS
<1>4. f \in [DOMAIN f -> RowRead]
  BY <1>2
<1>5. /\ collector'.pc = "selected" /\ collector'.rows = f
      /\ collector'.sample = collector.sample /\ collector'.event = collector.event
      /\ collector' = [pc |-> "selected", sample |-> collector.sample, rows |-> f,
                       event |-> collector.event]
  BY DEF CollectorTyped
<1> HIDE DEF f, Q
<1>6. CollectorTyped'
  BY <1>2, <1>3, <1>4, <1>5 DEF CollectorTyped
<1>7. RequestsTyped'
  BY DEF RequestsTyped
<1>8. ReadersKnow'
  <2>1. \A r \in DOMAIN f : r \in Created /\ f[r].def.enabled
    BY <1>2, <1>3
  <2> QED
    BY <1>1, <1>5, <2>1 DEF ReadersKnow
<1>9. FetchedEvent'
  BY <1>5 DEF FetchedEvent
<1> QED
  BY <1>1, <1>6, <1>7, <1>8, <1>9

LEMMA FetchActiveEventIInv == IInv /\ FetchActiveEvent => IInv'
<1> SUFFICES ASSUME IInv, FetchActiveEvent PROVE IInv'
  OBVIOUS
<1> USE InvParts DEF FetchActiveEvent, database
<1>1. TablesInv' /\ Created' = Created
  BY NothingWritten
<1> DEFINE q == Min(Evaluated)
<1>2. q \in Evaluated /\ q \in Rule
  <2>1. Evaluated \subseteq Rule /\ Evaluated # {}
    BY DEF Evaluated, CollectorTyped, FirstIsActive
  <2>2. Evaluated \in SUBSET Nat
    BY <2>1 DEF Rule
  <2>3. q \in Evaluated
    BY <2>1, <2>2, MinInSet
  <2> QED
    BY <2>1, <2>3
<1> HIDE DEF q
<1>3. log[q] \in Seq(Event) /\ ActiveEvents(log[q]) # {}
  BY <1>2 DEF TablesInv, TablesTyped, q
<1> DEFINE e == ActiveEvent(log[q])
<1>4. e \in ActiveEvents(log[q])
  BY <1>3, ActiveEventFound
<1>5. e \in DOMAIN log[q] /\ e \in Nat /\ e # None
  BY <1>3, <1>4, Numbers DEF ActiveEvents
<1>6. collector' = [pc |-> "fetched", sample |-> collector.sample,
                    rows |-> collector.rows, event |-> e]
  BY DEF CollectorTyped, q
<1> HIDE DEF e
<1>7. CollectorTyped'
  <2>1. collector.sample \in Sample
    BY DEF CollectorTyped
  <2> HIDE DEF FetchActiveEvent
  <2>2. /\ collector'.pc = "fetched" /\ collector'.sample = collector.sample
        /\ collector'.rows = collector.rows /\ collector'.event = e
    BY <1>6
  <2>3. collector' \in [pc : {"fetched"}, sample : Sample, rows : {collector.rows},
                       event : Nat]
    BY <1>5, <1>6, <2>1
  <2> QED
    BY <1>5, <2>1, <2>2, <2>3 DEF CollectorTyped
<1>8. RequestsTyped'
  BY DEF RequestsTyped
<1>9. ReadersKnow'
  BY <1>1, <1>6 DEF ReadersKnow
<1>10. FetchedEvent'
  <2>1. log' = log /\ runtime' = runtime
    OBVIOUS
  <2> HIDE DEF FetchActiveEvent
  <2>2. Evaluated' = Evaluated /\ collector'.event = e
    BY <1>6 DEF Evaluated
  <2> QED
    BY <1>4, <1>5, <2>1, <2>2 DEF FetchedEvent, q
<1> HIDE DEF FetchActiveEvent
<1> QED
  BY <1>1, <1>7, <1>8, <1>9, <1>10

\* The collector is idle again.
LEMMA IdleAgain ==
  ASSUME collector' = Idle
  PROVE  /\ CollectorTyped' /\ FetchedEvent'
         /\ DOMAIN collector'.rows = {}
BY DEF CollectorTyped, FetchedEvent, Idle

LEMMA EvaluationFailsIInv == IInv /\ EvaluationFails => IInv'
<1> SUFFICES ASSUME IInv, EvaluationFails PROVE IInv'
  OBVIOUS
<1> USE InvParts DEF EvaluationFails, database
<1>1. TablesInv' /\ Created' = Created
  BY NothingWritten
<1>2. CollectorTyped' /\ FetchedEvent'
  BY IdleAgain
<1>3. RequestsTyped'
  BY DEF RequestsTyped
<1>4. ReadersKnow'
  BY <1>1, IdleAgain DEF ReadersKnow
<1> QED
  BY <1>1, <1>2, <1>3, <1>4

-----------------------------------------------------------------------------
(* The API's writes to one rule.                                           *)

\* The row of a rule is replaced; no rule comes or goes.
LEMMA RowReplaced ==
  ASSUME RulesTyped, NEW q \in Created, NEW x \in RuleRow,
         x.archived => ~x.def.enabled, rule' = [rule EXCEPT ![q] = x]
  PROVE  /\ RulesTyped' /\ Created' = Created
         /\ rule'[q] = x /\ \A r \in Rule : r # q => rule'[r] = rule[r]
<1>1. q \in Rule /\ x # None /\ rule \in [Rule -> RuleRow \cup {None}]
  BY RuleFields, RuleIsNotNone DEF RulesTyped
<1>2. /\ rule' \in [Rule -> RuleRow \cup {None}]
      /\ rule'[q] = x /\ \A r \in Rule : r # q => rule'[r] = rule[r]
  BY <1>1
<1>3. Created' = Created
  BY <1>1, <1>2 DEF Created
<1>4. \A r \in Created' : rule'[r].archived => ~rule'[r].def.enabled
  BY <1>2, <1>3 DEF RulesTyped, Created
<1> QED
  BY <1>2, <1>3, <1>4 DEF RulesTyped

Reason == {"rule_disabled", "rule_updated", "rule_archived"}

\* What a reset of q leaves of runtime, log and accepted.
LEMMA ResetFacts ==
  ASSUME TablesTyped, HistoryTyped, NEW q \in Rule, NEW reason \in Reason, Reset(q, reason)
  PROVE  /\ TablesTyped'
         /\ accepted' \in [Rule -> Seq(Accepted)]
         /\ runtime'[q] = Unevaluated /\ accepted'[q] = <<>> /\ ActiveEvents(log'[q]) = {}
         /\ \A r \in Rule : r # q => /\ runtime'[r] = runtime[r] /\ log'[r] = log[r]
                                     /\ accepted'[r] = accepted[r]
         /\ \A r \in Rule : /\ Len(log'[r]) = Len(log[r]) /\ Extends(log[r], log'[r])
                            /\ KeepsResolved(log[r], log'[r])
<1> DEFINE m == ResolveActive(log[q], reason)
<1>1. log[q] \in Seq(Event)
  BY DEF TablesTyped
<1>2. /\ m \in Seq(Event) /\ Len(m) = Len(log[q]) /\ ActiveEvents(m) = {}
      /\ Extends(log[q], m) /\ KeepsResolved(log[q], m)
  BY <1>1, Resolved DEF Reason
<1> HIDE DEF m
<1>3. log' = [log EXCEPT ![q] = m] /\ runtime' = [runtime EXCEPT ![q] = Unevaluated]
      /\ accepted' = [accepted EXCEPT ![q] = <<>>]
  BY DEF Reset, m
<1>4. /\ log' \in [Rule -> Seq(Event)] /\ log'[q] = m
      /\ \A r \in Rule : r # q => log'[r] = log[r]
  BY <1>2, <1>3 DEF TablesTyped
<1>5. /\ runtime' \in [Rule -> RuntimeRow] /\ runtime'[q] = Unevaluated
      /\ \A r \in Rule : r # q => runtime'[r] = runtime[r]
  BY <1>3, UnevaluatedTyped DEF TablesTyped
<1>6. /\ accepted' \in [Rule -> Seq(Accepted)] /\ accepted'[q] = <<>>
      /\ \A r \in Rule : r # q => accepted'[r] = accepted[r]
  <2>1. <<>> \in Seq(Accepted)
    OBVIOUS
  <2> QED
    BY <1>3, <2>1 DEF HistoryTyped
<1>7. \A r \in Rule : Cardinality(ActiveEvents(log'[r])) <= 1
  BY <1>2, <1>4, FewEvents DEF TablesTyped
<1>8. \A r \in Rule : /\ Len(log'[r]) = Len(log[r]) /\ Extends(log[r], log'[r])
                      /\ KeepsResolved(log[r], log'[r])
  <2>1. \A r \in Rule : log[r] \in Seq(Event)
    BY DEF TablesTyped
  <2>2. \A r \in Rule : Extends(log[r], log[r]) /\ KeepsResolved(log[r], log[r])
    BY <2>1 DEF Extends, KeepsResolved, SameOrigin
  <2> QED
    BY <1>2, <1>4, <2>2
<1>9. TablesTyped'
  BY <1>4, <1>5, <1>7 DEF TablesTyped
<1> QED
  BY <1>2, <1>4, <1>5, <1>6, <1>8, <1>9

\* The history of a reset: q is no longer raced, or as it was.
LEMMA ResetInv ==
  ASSUME TablesInv, NEW q \in Created, NEW reason \in Reason, Reset(q, reason),
         NEW x \in RuleRow, x.archived => ~x.def.enabled, rule' = [rule EXCEPT ![q] = x],
         raced' = raced \/ raced' = raced \ {q}
  PROVE  /\ TablesInv' /\ Created' = Created
         /\ \A r \in Rule :
               /\ Len(log'[r]) = Len(log[r]) /\ KeepsResolved(log[r], log'[r])
               /\ runtime'[r].state = "active" =>
                     runtime[r].state = "active" /\ log'[r] = log[r]
<1>1. RulesTyped /\ TablesTyped /\ HistoryTyped /\ q \in Rule
  BY RuleFields DEF TablesInv
<1>2. /\ RulesTyped' /\ Created' = Created
      /\ rule'[q] = x /\ \A r \in Rule : r # q => rule'[r] = rule[r]
  BY <1>1, RowReplaced
<1>3. /\ TablesTyped'
      /\ accepted' \in [Rule -> Seq(Accepted)]
      /\ runtime'[q] = Unevaluated /\ accepted'[q] = <<>> /\ ActiveEvents(log'[q]) = {}
      /\ \A r \in Rule : r # q => /\ runtime'[r] = runtime[r] /\ log'[r] = log[r]
                                  /\ accepted'[r] = accepted[r]
      /\ \A r \in Rule : /\ Len(log'[r]) = Len(log[r]) /\ Extends(log[r], log'[r])
                         /\ KeepsResolved(log[r], log'[r])
  BY <1>1, ResetFacts
<1>4. HistoryTyped'
  BY <1>1, <1>2, <1>3 DEF HistoryTyped
<1>5. CreatedInOrder'
  <2>1. Created = 1..Cardinality(Created)
    BY Zenon DEF TablesInv, CreatedInOrder
  <2>2. Created' = 1..Cardinality(Created')
    BY <1>2, <2>1, Zenon
  <2>3. ASSUME NEW r \in Rule \ Created'
        PROVE  runtime'[r] = Unevaluated /\ log'[r] = <<>> /\ accepted'[r] = <<>>
    <3>1. r # q /\ r \in Rule \ Created
      BY <1>2
    <3>2. runtime[r] = Unevaluated /\ log[r] = <<>> /\ accepted[r] = <<>>
      BY <3>1, Zenon DEF TablesInv, CreatedInOrder
    <3> QED
      BY <1>3, <3>1, <3>2
  <2> QED
    BY <2>2, <2>3, Zenon DEF CreatedInOrder
<1>6. EventsJustified'
  <2>1. ASSUME NEW r \in Rule, NEW i \in DOMAIN log'[r]
        PROVE  EventJustified(log'[r][i])
    <3>1. i \in DOMAIN log[r] /\ SameOrigin(log[r][i], log'[r][i])
      <4>1. DOMAIN log[r] = 1..Len(log[r]) /\ DOMAIN log'[r] = 1..Len(log'[r])
        BY <1>1, <1>3 DEF TablesTyped
      <4> QED
        BY <1>3, <4>1 DEF Extends
    <3>2. EventJustified(log[r][i])
      BY <3>1 DEF TablesInv, EventsJustified, EventJustified
    <3> QED
      BY <3>1, <3>2 DEF SameOrigin, EventJustified
  <2> QED
    BY <2>1 DEF EventsJustified, EventJustified
<1>7. Agreement'
  <2>1. ASSUME NEW r \in Created, r \notin raced'
        PROVE  RuleAgrees(runtime'[r], log'[r], rule'[r].def, accepted'[r])
    <3>1. CASE r = q
      <4>1. x.def \in DefinitionType
        BY DEF RuleRow
      <4> QED
        BY <1>2, <1>3, <3>1, <4>1, ResetAgrees
    <3>2. CASE r # q
      <4>1. r \in Rule /\ r \notin raced
        BY <1>1, <2>1, <3>2, RuleFields
      <4>2. RuleAgrees(runtime[r], log[r], rule[r].def, accepted[r])
        BY <4>1 DEF TablesInv, Agreement, Untroubled
      <4> QED
        BY <1>2, <1>3, <3>2, <4>1, <4>2
    <3> QED
      BY <3>1, <3>2
  <2> QED
    BY <1>2, <2>1 DEF Agreement, Untroubled
<1>8. TablesInv'
  BY <1>2, <1>3, <1>4, <1>5, <1>6, <1>7 DEF TablesInv
<1>9. Unevaluated.state # "active"
  BY DEF Unevaluated
<1> QED
  BY <1>2, <1>3, <1>8, <1>9

\* A change that needs no reset, of a rule that is as it was read; or of one
\* that is not, and is marked.
LEMMA NoResetInv ==
  ASSUME TablesInv, NEW q \in Created, UNCHANGED <<runtime, log, accepted>>,
         NEW x \in RuleRow, x.archived => ~x.def.enabled, rule' = [rule EXCEPT ![q] = x],
         \/ raced' = raced \cup {q}
         \/ /\ raced' = raced
            /\ \A f \in SubstantialFields : x.def[f] = rule[q].def[f]
            /\ ~x.def.enabled => ~rule[q].def.enabled
  PROVE  TablesInv' /\ Created' = Created
<1>1. RulesTyped /\ TablesTyped /\ HistoryTyped /\ q \in Rule
  BY RuleFields DEF TablesInv
<1>2. /\ RulesTyped' /\ Created' = Created
      /\ rule'[q] = x /\ \A r \in Rule : r # q => rule'[r] = rule[r]
  BY <1>1, RowReplaced
<1>3. TablesTyped'
  BY <1>1 DEF TablesTyped
<1>4. HistoryTyped'
  BY <1>1, <1>2 DEF HistoryTyped
<1>5. CreatedInOrder' /\ EventsJustified'
  BY <1>2, Zenon DEF TablesInv, CreatedInOrder, EventsJustified
<1>6. Agreement'
  <2>1. ASSUME NEW r \in Created, r \notin raced'
        PROVE  RuleAgrees(runtime'[r], log'[r], rule'[r].def, accepted'[r])
    <3>1. r \in Rule /\ r \notin raced
      BY <1>1, <2>1, RuleFields
    <3>2. RuleAgrees(runtime[r], log[r], rule[r].def, accepted[r])
      BY <3>1 DEF TablesInv, Agreement, Untroubled
    <3>3. CASE r = q
      <4>1. x.def \in DefinitionType /\ rule[q].def \in DefinitionType
        BY <1>1, RuleFields DEF RuleRow
      <4>2. /\ \A f \in SubstantialFields : x.def[f] = rule[q].def[f]
            /\ ~x.def.enabled => ~rule[q].def.enabled
        BY <2>1, <3>3
      <4>3. RuleAgrees(runtime[q], log[q], x.def, accepted[q])
        BY <3>2, <3>3, <4>1, <4>2, SameConditionAgrees
      <4> QED
        BY <1>2, <3>3, <4>3
    <3>4. CASE r # q
      BY <1>2, <3>1, <3>2, <3>4
    <3> QED
      BY <3>3, <3>4
  <2> QED
    BY <1>2, <2>1 DEF Agreement, Untroubled
<1> QED
  BY <1>2, <1>3, <1>4, <1>5, <1>6 DEF TablesInv

\* What the collector and the requests hold is not disturbed by a write to a
\* rule that resets it or leaves its runtime and events alone.
LEMMA OthersKept ==
  ASSUME CollectorTyped, RequestsTyped, ReadersKnow, FetchedEvent, TablesTyped,
         TablesTyped', Created' = Created, collector' = collector,
         NEW c \in Client, request' = [request EXCEPT ![c] = None],
         UNCHANGED <<nextId, edits>>,
         \A r \in Rule : /\ Len(log'[r]) = Len(log[r])
                         /\ runtime'[r].state = "active" =>
                               runtime[r].state = "active" /\ log'[r] = log[r]
  PROVE  CollectorTyped' /\ RequestsTyped' /\ ReadersKnow' /\ FetchedEvent'
<1>1. CollectorTyped'
  BY DEF CollectorTyped
<1>2. RequestsTyped'
  BY DEF RequestsTyped
<1>3. ReadersKnow'
  <2>1. \A b \in Client : request'[b] # None => request[b] # None /\ request'[b] = request[b]
    BY DEF RequestsTyped
  <2>2. \A b \in Client : request'[b] # None => request'[b].rule \in Created'
    BY <2>1 DEF ReadersKnow
  <2> QED
    BY <2>2 DEF ReadersKnow
<1>4. FetchedEvent'
  <2>1. Evaluated' = Evaluated /\ Evaluated \subseteq Rule
    BY DEF Evaluated, CollectorTyped
  <2>2. ASSUME collector.pc = "fetched", NEW r \in Evaluated, r = Min(Evaluated)
        PROVE  /\ collector.event \in DOMAIN log'[r]
               /\ runtime'[r].state = "active" => collector.event \in ActiveEvents(log'[r])
    <3>1. /\ collector.event \in DOMAIN log[r]
          /\ runtime[r].state = "active" => collector.event \in ActiveEvents(log[r])
      BY <2>2 DEF FetchedEvent
    <3>2. r \in Rule /\ DOMAIN log'[r] = DOMAIN log[r]
      <4>1. r \in Rule /\ log[r] \in Seq(Event) /\ log'[r] \in Seq(Event)
        BY <2>1 DEF TablesTyped
      <4> QED
        BY <4>1
    <3> QED
      BY <3>1, <3>2
  <2> QED
    BY <2>1, <2>2 DEF FetchedEvent
<1> QED
  BY <1>1, <1>2, <1>3, <1>4

-----------------------------------------------------------------------------
(* The steps of the API.                                                   *)

LEMMA CreateRuleIInv == IInv /\ CreateRule => IInv'
<1> SUFFICES ASSUME IInv, CreateRule PROVE IInv'
  OBVIOUS
<1>0. /\ TablesInv /\ CollectorTyped /\ RequestsTyped /\ ReadersKnow /\ FetchedEvent
      /\ RulesTyped /\ TablesTyped /\ HistoryTyped
  BY InvParts DEF TablesInv
<1>1. UNCHANGED <<runtime, log, collector, request, nextId, edits, accepted, raced>>
  BY DEF CreateRule
<1> DEFINE n == Cardinality(Created)
           q == n + 1
<1>2. n < NumRules /\ n \in Nat
  <2>1. Created \subseteq 1..NumRules /\ IsFiniteSet(1..NumRules)
    BY FS_Interval, AlertConstantsAssumption DEF Created, Rule
  <2>2. n \in Nat
    BY <2>1, FS_Subset, FS_CardinalityType
  <2> QED
    BY <2>2 DEF CreateRule
<1>3. Created = 1..n
  BY <1>0, Zenon DEF TablesInv, CreatedInOrder
<1>4. PICK d \in Definition : rule' = [rule EXCEPT ![q] = [def |-> d, archived |-> FALSE]]
  BY DEF CreateRule
<1> HIDE DEF n
<1>5. q \in Rule /\ q \notin Created
  BY <1>2, <1>3, AlertConstantsAssumption DEF Rule
<1>6. /\ d \in DefinitionType /\ [def |-> d, archived |-> FALSE] \in RuleRow
      /\ [def |-> d, archived |-> FALSE] # None
  <2>1. d \in DefinitionType
    BY DefinitionAssumption
  <2>2. [def |-> d, archived |-> FALSE] \in RuleRow
    BY <2>1 DEF RuleRow
  <2> QED
    BY <2>1, <2>2, RuleIsNotNone
<1>7. /\ rule' \in [Rule -> RuleRow \cup {None}]
      /\ rule'[q] = [def |-> d, archived |-> FALSE]
      /\ \A r \in Rule : r # q => rule'[r] = rule[r]
  BY <1>0, <1>4, <1>5, <1>6 DEF RulesTyped
<1> HIDE DEF q
<1>8. Created' = Created \cup {q}
  BY <1>5, <1>6, <1>7 DEF Created
<1>9. RulesTyped'
  <2>1. ASSUME NEW r \in Created'
        PROVE  rule'[r].archived => ~rule'[r].def.enabled
    <3>1. CASE r = q
      BY <1>7, <3>1
    <3>2. CASE r # q
      <4>1. r \in Created /\ r \in Rule
        BY <1>8, <3>2 DEF Created
      <4> QED
        BY <1>0, <1>7, <3>2, <4>1 DEF RulesTyped
    <3> QED
      BY <3>1, <3>2
  <2> QED
    BY <1>7, <2>1 DEF RulesTyped
<1>10. TablesTyped' /\ CollectorTyped' /\ RequestsTyped' /\ EventsJustified'
  BY <1>0, <1>1 DEF TablesTyped, CollectorTyped, RequestsTyped, TablesInv, EventsJustified
<1>11. HistoryTyped'
  BY <1>0, <1>1, <1>8 DEF HistoryTyped
<1>12. CreatedInOrder'
  <2>1. Created' = 1..(n + 1)
    BY <1>2, <1>3, <1>8 DEF q
  <2>2. Cardinality(1..(n + 1)) = n + 1
    BY <1>2, FS_Interval
  <2>3. Created' = 1..Cardinality(Created')
    BY <2>1, <2>2, Zenon
  <2>4. \A r \in Rule \ Created :
           runtime[r] = Unevaluated /\ log[r] = <<>> /\ accepted[r] = <<>>
    BY <1>0, Zenon DEF TablesInv, CreatedInOrder
  <2>5. \A r \in Rule \ Created' :
           runtime'[r] = Unevaluated /\ log'[r] = <<>> /\ accepted'[r] = <<>>
    BY <1>1, <1>8, <2>4
  <2> QED
    BY <2>3, <2>5, Zenon DEF CreatedInOrder
<1>13. ReadersKnow'
  BY <1>0, <1>1, <1>8 DEF ReadersKnow
<1>14. FetchedEvent'
  <2>1. Evaluated' = Evaluated
    BY <1>1 DEF Evaluated
  <2> QED
    BY <1>0, <1>1, <2>1 DEF FetchedEvent
<1>15. Agreement'
  <2>1. ASSUME NEW r \in Created', r \notin raced'
        PROVE  RuleAgrees(runtime'[r], log'[r], rule'[r].def, accepted'[r])
    <3>1. CASE r = q
      <4>1. runtime[q] = Unevaluated /\ log[q] = <<>> /\ accepted[q] = <<>>
        BY <1>0, <1>5, Zenon DEF TablesInv, CreatedInOrder
      <4>2. ActiveEvents(log[q]) = {} /\ rule'[q].def = d
        BY <1>7, <4>1 DEF ActiveEvents
      <4>3. RuleAgrees(Unevaluated, log[q], d, <<>>)
        BY <1>6, <4>2, ResetAgrees
      <4> QED
        BY <1>1, <3>1, <4>1, <4>2, <4>3
    <3>2. CASE r # q
      <4>1. r \in Created /\ r \in Rule /\ r \notin raced
        BY <1>1, <1>8, <2>1, <3>2 DEF Created
      <4>2. RuleAgrees(runtime[r], log[r], rule[r].def, accepted[r])
        BY <1>0, <4>1 DEF TablesInv, Agreement, Untroubled
      <4> QED
        BY <1>1, <1>7, <3>2, <4>1, <4>2
    <3> QED
      BY <3>1, <3>2
  <2> QED
    BY <2>1 DEF Agreement, Untroubled
<1>16. TablesInv'
  BY <1>9, <1>10, <1>11, <1>12, <1>15 DEF TablesInv
<1> QED
  BY <1>10, <1>13, <1>14, <1>16, InvParts

\* A request, by what it asks.
LEMMA RequestFields ==
  ASSUME RequestsTyped, ReadersKnow, NEW c \in Client, request[c] # None
  PROVE  /\ request[c].rule \in Created
         /\ request[c].op = "update" => request[c].changes \in Patch
<1>1. request[c] \in Request
  BY DEF RequestsTyped
<1> QED
  BY <1>1 DEF Request, ReadersKnow

LEMMA BeginRequestIInv ==
  ASSUME IInv, NEW c \in Client, BeginRequest(c)
  PROVE  IInv'
<1>0. /\ TablesInv /\ CollectorTyped /\ RequestsTyped /\ ReadersKnow /\ FetchedEvent
      /\ RulesTyped
  BY InvParts DEF TablesInv
<1>1. /\ UNCHANGED <<rule, runtime, log, collector, nextId, accepted, raced>>
      /\ edits < MaxEdits /\ edits' = edits + 1
  BY DEF BeginRequest, database
<1>2. TablesInv' /\ Created' = Created
  BY <1>0, <1>1, NothingWritten
<1>3. \E x \in Request : x.rule \in Created /\ request' = [request EXCEPT ![c] = x]
  <2>1. PICK r \in Created :
          \/ \E p \in Patch :
                request' = [request EXCEPT ![c] =
                    [op |-> "update", rule |-> r, changes |-> p, current |-> rule[r].def]]
          \/ request' = [request EXCEPT ![c] = [op |-> "archive", rule |-> r]]
    BY DEF BeginRequest
  <2>2. r \in Rule /\ rule[r].def \in DefinitionType
    BY <1>0, RuleFields
  <2>3. ASSUME NEW p \in Patch,
               request' = [request EXCEPT ![c] =
                    [op |-> "update", rule |-> r, changes |-> p, current |-> rule[r].def]]
        PROVE  \E x \in Request : x.rule \in Created /\ request' = [request EXCEPT ![c] = x]
    <3> DEFINE x == [op |-> "update", rule |-> r, changes |-> p, current |-> rule[r].def]
    <3>1. x \in Request /\ x.rule = r
      BY <2>2 DEF Request
    <3> QED
      BY <2>3, <3>1
  <2>4. ASSUME request' = [request EXCEPT ![c] = [op |-> "archive", rule |-> r]]
        PROVE  \E x \in Request : x.rule \in Created /\ request' = [request EXCEPT ![c] = x]
    <3> DEFINE x == [op |-> "archive", rule |-> r]
    <3>1. x \in Request /\ x.rule = r
      BY <2>2 DEF Request
    <3> QED
      BY <2>4, <3>1
  <2> QED
    BY <2>1, <2>3, <2>4
<1>4. PICK x \in Request : x.rule \in Created /\ request' = [request EXCEPT ![c] = x]
  BY <1>3
<1>5. RequestsTyped'
  BY <1>0, <1>1, <1>4, AlertConstantsAssumption DEF RequestsTyped
<1>6. ReadersKnow'
  <2>1. ASSUME NEW b \in Client, request'[b] # None
        PROVE  request'[b].rule \in Created'
    BY <1>0, <1>2, <1>4, <2>1 DEF ReadersKnow, RequestsTyped
  <2> QED
    BY <1>0, <1>1, <1>2, <2>1 DEF ReadersKnow
<1>7. CollectorTyped'
  BY <1>0, <1>1 DEF CollectorTyped
<1>8. FetchedEvent'
  <2>1. Evaluated' = Evaluated
    BY <1>1 DEF Evaluated
  <2> QED
    BY <1>0, <1>1, <2>1 DEF FetchedEvent
<1> QED
  BY <1>2, <1>5, <1>6, <1>7, <1>8, InvParts

LEMMA RequestFailsIInv ==
  ASSUME IInv, NEW c \in Client, RequestFails(c)
  PROVE  IInv'
<1>0. /\ TablesInv /\ CollectorTyped /\ RequestsTyped /\ ReadersKnow /\ FetchedEvent
      /\ TablesTyped
  BY InvParts DEF TablesInv
<1>1. /\ UNCHANGED <<rule, runtime, log, collector, nextId, edits, accepted, raced>>
      /\ request' = [request EXCEPT ![c] = None]
  BY DEF RequestFails, database
<1>2. TablesInv' /\ Created' = Created
  BY <1>0, <1>1, NothingWritten
<1>3. TablesTyped' /\ collector' = collector /\ UNCHANGED <<nextId, edits>>
  BY <1>1, <1>2 DEF TablesInv
<1>4. \A r \in Rule : /\ Len(log'[r]) = Len(log[r])
                      /\ runtime'[r].state = "active" =>
                            runtime[r].state = "active" /\ log'[r] = log[r]
  BY <1>1
<1>5. CollectorTyped' /\ RequestsTyped' /\ ReadersKnow' /\ FetchedEvent'
  BY <1>0, <1>1, <1>2, <1>3, <1>4, OthersKept
<1> QED
  BY <1>2, <1>5, InvParts

\* What UpdateRule writes into the row of the rule.
Patched(c) ==
    [rule[request[c].rule] EXCEPT !.def = Merge(request[c].changes, @)]

\* What it does with the runtime and the events of rule r, whose row becomes x.
WithReset(r) ==
    \E reason \in Reason : Reset(r, reason) /\ (raced' = raced \/ raced' = raced \ {r})
WithoutReset(r, x) ==
    /\ UNCHANGED <<runtime, log, accepted>>
    /\ \/ raced' = raced \cup {r}
       \/ /\ raced' = raced
          /\ \A f \in SubstantialFields : x.def[f] = rule[r].def[f]
          /\ ~x.def.enabled => ~rule[r].def.enabled

LEMMA UpdateRuleFacts ==
  ASSUME IInv, NEW c \in Client, UpdateRule(c)
  PROVE  LET r == request[c].rule
             x == Patched(c)
         IN  /\ r \in Created /\ x \in RuleRow
             /\ x.archived => ~x.def.enabled
             /\ rule' = [rule EXCEPT ![r] = x]
             /\ WithReset(r) \/ WithoutReset(r, x)
<1> DEFINE r == request[c].rule
           p == request[c].changes
           d == rule[r].def
           x == Patched(c)
<1>1. RulesTyped /\ RequestsTyped /\ ReadersKnow
  BY InvParts DEF TablesInv
<1>2. request[c] # None /\ request[c].op = "update"
  BY DEF UpdateRule
<1>3. r \in Created /\ p \in Patch
  BY <1>1, <1>2, RequestFields
<1>4. rule[r] \in RuleRow /\ d \in DefinitionType /\ r \in Rule
  BY <1>1, <1>3, RuleFields
<1>5. /\ Merge(p, d) \in DefinitionType
      /\ \A f \in SubstantialFields \cup {"enabled"} :
            Merge(p, d)[f] = IF f \in DOMAIN p THEN p[f] ELSE d[f]
  BY <1>3, <1>4, MergeTyped
<1>6. x \in RuleRow /\ x.def = Merge(p, d) /\ x.archived = rule[r].archived
  BY <1>4, <1>5 DEF Patched, RuleRow
<1>7. ~(rule[r].archived /\ Merge(p, d).enabled)
  BY DEF UpdateRule
<1>8. rule' = [rule EXCEPT ![r] = x]
  <2>1. rule' = [rule EXCEPT ![r].def = Merge(p, @)]
    BY DEF UpdateRule
  <2> QED
    BY <1>1, <1>4, <2>1 DEF Patched, RulesTyped
<1>9. \/ \E reason \in Reason : /\ Reset(r, reason)
                                /\ raced' = raced \/ raced' = raced \ {r}
      \/ /\ ~Disabling(p, request[c].current) /\ ~SubstantialChange(p, request[c].current)
         /\ UNCHANGED <<runtime, log, accepted>>
         /\ raced' = IF request[c].current = d THEN raced ELSE raced \cup {r}
  BY DEF UpdateRule, Reason
<1>10. ASSUME ~Disabling(p, d), ~SubstantialChange(p, d)
       PROVE  /\ \A f \in SubstantialFields : x.def[f] = d[f]
              /\ ~x.def.enabled => ~d.enabled
  <2>1. \A f \in SubstantialFields : f \in DOMAIN p => p[f] = d[f]
    BY <1>10 DEF SubstantialChange
  <2>2. \A f \in SubstantialFields : x.def[f] = d[f]
    BY <1>5, <1>6, <2>1
  <2>3. x.def.enabled = IF "enabled" \in DOMAIN p THEN p["enabled"] ELSE d.enabled
    BY <1>5, <1>6
  <2>4. ~x.def.enabled => ~d.enabled
    BY <1>10, <2>3 DEF Disabling
  <2> QED
    BY <2>2, <2>4
<1> HIDE DEF x
<1>11. WithReset(r) \/ WithoutReset(r, x)
  BY <1>9, <1>10 DEF WithReset, WithoutReset
<1> QED
  BY <1>3, <1>6, <1>7, <1>8, <1>11 DEF x

LEMMA UpdateRuleIInv ==
  ASSUME IInv, NEW c \in Client, UpdateRule(c)
  PROVE  IInv' /\ \A r \in Rule : KeepsResolved(log[r], log'[r])
<1>0. /\ TablesInv /\ CollectorTyped /\ RequestsTyped /\ ReadersKnow /\ FetchedEvent
      /\ TablesTyped
  BY InvParts DEF TablesInv
<1>1. /\ collector' = collector /\ UNCHANGED <<nextId, edits>>
      /\ request' = [request EXCEPT ![c] = None]
  BY DEF UpdateRule
<1> DEFINE q == request[c].rule
           x == Patched(c)
<1>2. /\ q \in Created /\ x \in RuleRow
      /\ x.archived => ~x.def.enabled
      /\ rule' = [rule EXCEPT ![q] = x]
      /\ WithReset(q) \/ WithoutReset(q, x)
  BY UpdateRuleFacts
<1> HIDE DEF q, x
<1>3. /\ TablesInv' /\ Created' = Created
      /\ \A r \in Rule :
            /\ Len(log'[r]) = Len(log[r]) /\ KeepsResolved(log[r], log'[r])
            /\ runtime'[r].state = "active" =>
                  runtime[r].state = "active" /\ log'[r] = log[r]
  <2>1. CASE WithReset(q)
    <3>1. PICK reason \in Reason :
             Reset(q, reason) /\ (raced' = raced \/ raced' = raced \ {q})
      BY <2>1 DEF WithReset
    <3> QED
      BY <1>0, <1>2, <3>1, ResetInv
  <2>2. CASE WithoutReset(q, x)
    <3>1. TablesInv' /\ Created' = Created
      BY <1>0, <1>2, <2>2, NoResetInv DEF WithoutReset
    <3>2. \A l : KeepsResolved(l, l)
      BY DEF KeepsResolved
    <3> QED
      BY <2>2, <3>1, <3>2 DEF WithoutReset
  <2> QED
    BY <1>2, <2>1, <2>2
<1>4. TablesTyped'
  BY <1>3 DEF TablesInv
<1>5. CollectorTyped' /\ RequestsTyped' /\ ReadersKnow' /\ FetchedEvent'
  BY <1>0, <1>1, <1>3, <1>4, OthersKept
<1> QED
  BY <1>3, <1>5, InvParts

LEMMA ArchiveRuleIInv ==
  ASSUME IInv, NEW c \in Client, ArchiveRule(c)
  PROVE  IInv' /\ \A r \in Rule : KeepsResolved(log[r], log'[r])
<1>0. /\ TablesInv /\ CollectorTyped /\ RequestsTyped /\ ReadersKnow /\ FetchedEvent
      /\ RulesTyped /\ TablesTyped
  BY InvParts DEF TablesInv
<1>1. /\ collector' = collector /\ UNCHANGED <<nextId, edits>>
      /\ request' = [request EXCEPT ![c] = None] /\ request[c] # None
  BY DEF ArchiveRule
<1> DEFINE q == request[c].rule
           x == [rule[q] EXCEPT !.archived = TRUE, !.def.enabled = FALSE]
<1>2. q \in Created /\ q \in Rule /\ rule[q] \in RuleRow /\ rule[q].def \in DefinitionType
  BY <1>0, <1>1, RequestFields, RuleFields
<1>3. x \in RuleRow /\ (x.archived => ~x.def.enabled)
  BY <1>2 DEF RuleRow, DefinitionType, FieldType
<1>4. \/ /\ rule' = [rule EXCEPT ![q] = x]
         /\ Reset(q, "rule_archived") /\ raced' = raced \ {q}
      \/ UNCHANGED <<rule, runtime, log, accepted, raced>>
  <2>1. \/ /\ rule' = [rule EXCEPT ![q].archived = TRUE, ![q].def.enabled = FALSE]
           /\ Reset(q, "rule_archived") /\ raced' = raced \ {q}
        \/ UNCHANGED <<rule, runtime, log, accepted, raced>>
    BY DEF ArchiveRule, database
  <2>2. [rule EXCEPT ![q].archived = TRUE, ![q].def.enabled = FALSE] = [rule EXCEPT ![q] = x]
    BY <1>0, <1>2 DEF RulesTyped, RuleRow
  <2> QED
    BY <2>1, <2>2
<1> HIDE DEF q, x
<1>5. /\ TablesInv' /\ Created' = Created
      /\ \A r \in Rule :
            /\ Len(log'[r]) = Len(log[r]) /\ KeepsResolved(log[r], log'[r])
            /\ runtime'[r].state = "active" =>
                  runtime[r].state = "active" /\ log'[r] = log[r]
  <2>1. CASE /\ rule' = [rule EXCEPT ![q] = x]
             /\ Reset(q, "rule_archived") /\ raced' = raced \ {q}
    <3>1. "rule_archived" \in Reason
      BY DEF Reason
    <3> QED
      BY <1>0, <1>2, <1>3, <2>1, <3>1, ResetInv
  <2>2. CASE UNCHANGED <<rule, runtime, log, accepted, raced>>
    <3>1. TablesInv' /\ Created' = Created
      BY <1>0, <2>2, NothingWritten
    <3>2. \A l : KeepsResolved(l, l)
      BY DEF KeepsResolved
    <3> QED
      BY <2>2, <3>1, <3>2
  <2> QED
    BY <1>4, <2>1, <2>2
<1>6. TablesTyped'
  BY <1>5 DEF TablesInv
<1>7. CollectorTyped' /\ RequestsTyped' /\ ReadersKnow' /\ FetchedEvent'
  BY <1>0, <1>1, <1>5, <1>6, OthersKept
<1> QED
  BY <1>5, <1>7, InvParts

-----------------------------------------------------------------------------
(* The evaluation.                                                         *)

\* The rows that are evaluated, and the event each is evaluated with.
LEMMA EvaluatedFacts ==
  ASSUME IInv, collector.pc # "idle", NEW r \in Evaluated,
         ~Raises(collector.rows[r], collector.sample, log[r], EventOf(r))
  PROVE  /\ r \in Created /\ r \in Rule
         /\ collector.rows[r] \in RowRead /\ collector.sample \in Sample
         /\ collector.rows[r].def.enabled
         /\ ~Ignored(collector.rows[r], collector.sample)
         /\ EventsTyped(log[r], collector.rows[r], EventOf(r))
         /\ collector.rows[r].runtime.state = "active" /\ runtime[r].state = "active" =>
               EventOf(r) \in ActiveEvents(log[r])
<1>1. CollectorTyped /\ ReadersKnow /\ FetchedEvent /\ TablesTyped
  BY InvParts DEF TablesInv
<1> DEFINE row == collector.rows[r]
           e == EventOf(r)
<1>2. r \in DOMAIN collector.rows /\ ~Ignored(row, collector.sample)
  BY DEF Evaluated
<1>3. r \in Created /\ r \in Rule /\ row \in RowRead /\ row.def.enabled
  BY <1>1, <1>2 DEF ReadersKnow, CollectorTyped
<1>4. collector.sample \in Sample
  BY <1>1 DEF CollectorTyped
<1>5. log[r] \in Seq(Event) /\ Cardinality(ActiveEvents(log[r])) <= 1
  BY <1>1, <1>3 DEF TablesTyped
<1>6. ASSUME row.runtime.state = "active"
      PROVE  /\ e \in DOMAIN log[r]
             /\ runtime[r].state = "active" => e \in ActiveEvents(log[r])
  <2>1. e # None
    BY <1>6 DEF Raises
  <2>2. CASE r = Min(Evaluated)
    <3>1. e = collector.event
      BY <2>2 DEF EventOf
    <3>2. collector.pc = "fetched"
      BY <1>1, <2>1, <3>1 DEF CollectorTyped
    <3> QED
      BY <1>1, <2>2, <3>1, <3>2 DEF FetchedEvent
  <2>3. CASE r # Min(Evaluated)
    <3>1. e = ActiveEvent(log[r])
      BY <2>3 DEF EventOf
    <3>2. ActiveEvents(log[r]) # {}
      BY <2>1, <3>1 DEF ActiveEvent
    <3>3. e \in ActiveEvents(log[r])
      BY <1>5, <3>1, <3>2, ActiveEventFound
    <3> QED
      BY <3>3 DEF ActiveEvents
  <2> QED
    BY <2>2, <2>3
<1>7. EventsTyped(log[r], row, e)
  BY <1>5, <1>6 DEF EventsTyped
<1> QED
  BY <1>2, <1>3, <1>4, <1>6, <1>7

\* What EvaluateRules does to the tables, a rule at a time.
LEMMA EvaluateRulesFacts ==
  ASSUME IInv, EvaluateRules
  PROVE  /\ collector.pc # "idle" /\ collector' = Idle
         /\ UNCHANGED <<rule, request, nextId, edits>>
         /\ raced' = raced \cup {r \in Evaluated : collector.rows[r] # Row(r)}
         /\ \A r \in Evaluated :
               ~Raises(collector.rows[r], collector.sample, log[r], EventOf(r))
         /\ runtime' = [r \in Rule |->
               IF r \in Evaluated THEN NextRuntime(collector.rows[r], collector.sample)
                                  ELSE runtime[r]]
         /\ log' = [r \in Rule |->
               IF r \in Evaluated
               THEN NextLog(log[r], collector.rows[r], collector.sample, EventOf(r))
               ELSE log[r]]
         /\ accepted' = [r \in Rule |->
               IF r \in Evaluated
               THEN Append(accepted[r], Taken(collector.rows[r], collector.sample))
               ELSE accepted[r]]
<1>1. collector.pc # "idle"
  BY DEF EvaluateRules
<1> QED
  BY <1>1 DEF EvaluateRules, Taken

\* What an evaluation makes of one rule.
LEMMA EvaluatedRule ==
  ASSUME IInv, EvaluateRules, NEW r \in Evaluated
  PROVE  /\ runtime'[r] \in RuntimeRow
         /\ log'[r] \in Seq(Event) /\ Cardinality(ActiveEvents(log'[r])) <= 1
         /\ accepted'[r] \in Seq(Accepted)
         /\ \A i \in DOMAIN log'[r] : EventJustified(log'[r][i])
         /\ r \notin raced' =>
               /\ KeepsResolved(log[r], log'[r])
               /\ RuleAgrees(runtime'[r], log'[r], rule[r].def, accepted'[r])
<1> DEFINE row == collector.rows[r]
           s == collector.sample
           e == EventOf(r)
<1>1. /\ collector.pc # "idle" /\ ~Raises(row, s, log[r], e)
      /\ raced' = raced \cup {q \in Evaluated : collector.rows[q] # Row(q)}
  BY EvaluateRulesFacts
<1>2. /\ r \in Created /\ r \in Rule /\ row \in RowRead /\ s \in Sample /\ row.def.enabled
      /\ ~Ignored(row, s) /\ EventsTyped(log[r], row, e)
      /\ row.runtime.state = "active" /\ runtime[r].state = "active" =>
            e \in ActiveEvents(log[r])
  BY <1>1, EvaluatedFacts
<1>3. TablesTyped /\ HistoryTyped /\ EventsJustified /\ Agreement
  BY InvParts DEF TablesInv
<1>4. /\ runtime'[r] = NextRuntime(row, s) /\ log'[r] = NextLog(log[r], row, s, e)
      /\ accepted'[r] = Append(accepted[r], Taken(row, s))
  BY <1>2, EvaluateRulesFacts
<1> HIDE DEF row, s, e
<1>5. runtime'[r] \in RuntimeRow
  BY <1>2, <1>4, NextRuntimeTyped
<1>6. \A i \in DOMAIN log[r] : EventJustified(log[r][i])
  BY <1>2, <1>3 DEF EventsJustified, EventJustified
<1>7. /\ log'[r] \in Seq(Event) /\ Cardinality(ActiveEvents(log'[r])) <= 1
      /\ \A i \in DOMAIN log'[r] : EventJustified(log'[r][i])
      /\ (row.runtime.state = "active" => log[r][e].status = "active")
             => KeepsResolved(log[r], log'[r])
  BY <1>1, <1>2, <1>4, <1>6, LogStep DEF row, s, e
<1>8. accepted[r] \in Seq(Accepted) /\ accepted'[r] \in Seq(Accepted)
  <2>1. accepted[r] \in Seq(Accepted)
    BY <1>2, <1>3 DEF HistoryTyped
  <2>2. Taken(row, s) \in Accepted
    BY <1>2, MeasuredTyped DEF Taken, Accepted
  <2> QED
    BY <1>4, <2>1, <2>2
<1>9. ASSUME r \notin raced'
      PROVE  /\ KeepsResolved(log[r], log'[r])
             /\ RuleAgrees(runtime'[r], log'[r], rule[r].def, accepted'[r])
  <2>1. r \notin raced /\ row = Row(r)
    BY <1>1, <1>9 DEF row
  <2>2. row.def = rule[r].def /\ row.runtime = runtime[r]
    BY <2>1 DEF Row
  <2>3. RuleAgrees(row.runtime, log[r], row.def, accepted[r])
    BY <1>2, <1>3, <2>1, <2>2 DEF Agreement, Untroubled
  <2>4. row.runtime.state = "active" => e \in ActiveEvents(log[r])
    BY <1>2, <2>2
  <2>5. Evaluates(row, s, log[r], e, accepted[r])
    BY <1>1, <1>2, <1>8, <2>3, <2>4 DEF Evaluates, row, s, e
  <2>6. RuleAgrees(runtime'[r], log'[r], rule[r].def, accepted'[r])
    BY <1>4, <2>2, <2>5, StepAgrees
  <2>7. row.runtime.state = "active" => log[r][e].status = "active"
    BY <2>4 DEF ActiveEvents
  <2> QED
    BY <1>7, <2>6, <2>7
<1> QED
  BY <1>5, <1>7, <1>8, <1>9

\* A rule that the evaluation leaves out.
LEMMA LeftOut ==
  ASSUME IInv, EvaluateRules, NEW r \in Rule, r \notin Evaluated
  PROVE  runtime'[r] = runtime[r] /\ log'[r] = log[r] /\ accepted'[r] = accepted[r]
BY EvaluateRulesFacts

LEMMA EvaluateRulesIInv ==
  ASSUME IInv, EvaluateRules
  PROVE  /\ IInv'
         /\ \A r \in Rule : r \notin raced' => KeepsResolved(log[r], log'[r])
<1>0. /\ TablesInv /\ CollectorTyped /\ RequestsTyped /\ ReadersKnow
      /\ RulesTyped /\ TablesTyped /\ HistoryTyped /\ EventsJustified /\ Agreement
  BY InvParts DEF TablesInv
<1>1. /\ collector.pc # "idle" /\ collector' = Idle
      /\ UNCHANGED <<rule, request, nextId, edits>>
      /\ raced' = raced \cup {r \in Evaluated : collector.rows[r] # Row(r)}
      /\ \A r \in Evaluated :
            ~Raises(collector.rows[r], collector.sample, log[r], EventOf(r))
  BY EvaluateRulesFacts
<1>2. Created' = Created /\ Evaluated \subseteq Created /\ Created \subseteq Rule
  BY <1>1, EvaluatedFacts DEF Created
<1>3. RulesTyped' /\ RequestsTyped'
  BY <1>0, <1>1, <1>2 DEF RulesTyped, RequestsTyped
<1>4. TablesTyped'
  <2>1. \A r \in Rule : /\ runtime'[r] \in RuntimeRow /\ log'[r] \in Seq(Event)
                        /\ Cardinality(ActiveEvents(log'[r])) <= 1
    BY <1>0, EvaluatedRule, LeftOut DEF TablesTyped
  <2>2. /\ runtime' = [r \in Rule |-> runtime'[r]] /\ log' = [r \in Rule |-> log'[r]]
    BY EvaluateRulesFacts
  <2> QED
    BY <2>1, <2>2 DEF TablesTyped
<1>5. HistoryTyped'
  <2>1. \A r \in Rule : accepted'[r] \in Seq(Accepted)
    BY <1>0, EvaluatedRule, LeftOut DEF HistoryTyped
  <2>2. accepted' = [r \in Rule |-> accepted'[r]]
    BY EvaluateRulesFacts
  <2>3. raced' \subseteq Created'
    BY <1>0, <1>1, <1>2 DEF HistoryTyped
  <2> QED
    BY <2>1, <2>2, <2>3 DEF HistoryTyped
<1>6. CreatedInOrder'
  <2>1. Created = 1..Cardinality(Created)
    BY <1>0, Zenon DEF TablesInv, CreatedInOrder
  <2>2. Created' = 1..Cardinality(Created')
    BY <1>2, <2>1, Zenon
  <2>3. ASSUME NEW r \in Rule \ Created'
        PROVE  runtime'[r] = Unevaluated /\ log'[r] = <<>> /\ accepted'[r] = <<>>
    <3>1. r \in Rule /\ r \notin Evaluated /\ r \in Rule \ Created
      BY <1>2
    <3>2. runtime[r] = Unevaluated /\ log[r] = <<>> /\ accepted[r] = <<>>
      BY <1>0, <3>1, Zenon DEF TablesInv, CreatedInOrder
    <3> QED
      BY <3>1, <3>2, LeftOut
  <2> QED
    BY <2>2, <2>3, Zenon DEF CreatedInOrder
<1>7. CollectorTyped' /\ FetchedEvent' /\ ReadersKnow'
  BY <1>0, <1>1, <1>2, IdleAgain DEF ReadersKnow
<1>8. EventsJustified'
  <2>1. \A r \in Rule \ Evaluated : \A i \in DOMAIN log'[r] : EventJustified(log'[r][i])
    BY <1>0, LeftOut DEF EventsJustified, EventJustified
  <2>2. \A r \in Rule : \A i \in DOMAIN log'[r] : EventJustified(log'[r][i])
    BY <2>1, EvaluatedRule
  <2> QED
    BY <2>2 DEF EventsJustified, EventJustified
<1>9. Agreement'
  <2>1. ASSUME NEW r \in Created, r \notin raced'
        PROVE  RuleAgrees(runtime'[r], log'[r], rule'[r].def, accepted'[r])
    <3>1. CASE r \in Evaluated
      BY <1>1, <2>1, <3>1, EvaluatedRule
    <3>2. CASE r \notin Evaluated
      <4>1. r \in Rule /\ r \notin raced
        BY <1>1, <1>2, <2>1
      <4>2. RuleAgrees(runtime[r], log[r], rule[r].def, accepted[r])
        BY <1>0, <4>1 DEF Agreement, Untroubled
      <4> QED
        BY <1>1, <3>2, <4>1, <4>2, LeftOut
    <3> QED
      BY <3>1, <3>2
  <2> QED
    BY <1>2, <2>1 DEF Agreement, Untroubled
<1>10. ASSUME NEW r \in Rule, r \notin raced'
       PROVE  KeepsResolved(log[r], log'[r])
  <2>1. CASE r \in Evaluated
    BY <1>10, <2>1, EvaluatedRule
  <2>2. CASE r \notin Evaluated
    <3>1. KeepsResolved(log[r], log[r])
      BY DEF KeepsResolved
    <3> QED
      BY <2>2, <3>1, LeftOut
  <2> QED
    BY <2>1, <2>2
<1>11. TablesInv'
  BY <1>3, <1>4, <1>5, <1>6, <1>8, <1>9 DEF TablesInv
<1> QED
  BY <1>3, <1>7, <1>10, <1>11, InvParts

-----------------------------------------------------------------------------
(* The theorems.                                                           *)

\* Every step keeps the invariant, and the resolved events of every rule that
\* is not marked.
LEMMA NextIInv ==
  ASSUME IInv, [Next]_vars
  PROVE  /\ IInv'
         /\ \A r \in Rule : r \notin raced' => KeepsResolved(log[r], log'[r])
<1>1. ASSUME log' = log
      PROVE  \A r \in Rule : KeepsResolved(log[r], log'[r])
  BY <1>1 DEF KeepsResolved
<1>2. CASE SaveTelemetry
  BY <1>1, <1>2, SaveTelemetryIInv DEF SaveTelemetry, database
<1>3. CASE FetchEnabledRules
  BY <1>1, <1>3, FetchEnabledRulesIInv DEF FetchEnabledRules, database
<1>4. CASE FetchActiveEvent
  BY <1>1, <1>4, FetchActiveEventIInv DEF FetchActiveEvent, database
<1>5. CASE EvaluateRules
  BY <1>5, EvaluateRulesIInv
<1>6. CASE EvaluationFails
  BY <1>1, <1>6, EvaluationFailsIInv DEF EvaluationFails, database
<1>7. CASE CreateRule
  BY <1>1, <1>7, CreateRuleIInv DEF CreateRule
<1>8. ASSUME NEW c \in Client, BeginRequest(c)
      PROVE  IInv' /\ log' = log
  BY <1>8, BeginRequestIInv DEF BeginRequest, database
<1>9. ASSUME NEW c \in Client, UpdateRule(c)
      PROVE  IInv' /\ \A r \in Rule : KeepsResolved(log[r], log'[r])
  BY <1>9, UpdateRuleIInv
<1>10. ASSUME NEW c \in Client, ArchiveRule(c)
       PROVE  IInv' /\ \A r \in Rule : KeepsResolved(log[r], log'[r])
  BY <1>10, ArchiveRuleIInv
<1>11. ASSUME NEW c \in Client, RequestFails(c)
       PROVE  IInv' /\ log' = log
  BY <1>11, RequestFailsIInv DEF RequestFails, database
<1>12. CASE UNCHANGED vars
  <2>1. UNCHANGED <<rule, runtime, log, accepted, raced>> /\ UNCHANGED <<collector, request,
             nextId, edits>>
    BY <1>12 DEF vars, database
  <2>2. /\ TablesInv /\ CollectorTyped /\ RequestsTyped /\ ReadersKnow /\ FetchedEvent
    BY InvParts
  <2>3. TablesInv' /\ Created' = Created
    BY <2>1, <2>2, NothingWritten
  <2>4. CollectorTyped' /\ RequestsTyped' /\ ReadersKnow'
    BY <2>1, <2>2, <2>3 DEF CollectorTyped, RequestsTyped, ReadersKnow
  <2>5. FetchedEvent'
    <3>1. Evaluated' = Evaluated
      BY <2>1 DEF Evaluated
    <3> QED
      BY <2>1, <2>2, <3>1 DEF FetchedEvent
  <2> QED
    BY <1>1, <2>1, <2>3, <2>4, <2>5, InvParts
<1>13. CASE \E c \in Client :
              BeginRequest(c) \/ UpdateRule(c) \/ ArchiveRule(c) \/ RequestFails(c)
  BY <1>1, <1>8, <1>9, <1>10, <1>11, <1>13
<1> QED
  BY <1>2, <1>3, <1>4, <1>5, <1>6, <1>7, <1>12, <1>13 DEF Next, Collector, Api

\* The inductive invariant: the types of the tables and of everything read
\* from them, and the agreement of every rule that no race has touched with
\* its events and its samples, in alert_engine.py and alert_service.py.
THEOREM AlertInvariant == Spec => []IInv
<1>1. IInv /\ [Next]_vars => IInv'
  BY NextIInv
<1> QED
  BY InitIInv, <1>1, PTL DEF Spec

\* The types, the CHECKs of the tables and the unique index on active events.
THEOREM AlertTypeCorrect == Spec => []TypeOK
<1>1. IInv => TypeOK
  BY DEF IInv
<1> QED
  BY AlertInvariant, <1>1, PTL

\* A rule is active exactly when it has an active event, made under its present
\* condition, and is at rest when it is disabled or archived, unless a race of
\* an evaluation with a request has touched it since its last reset.
THEOREM TablesAlwaysAgree == Spec => []TablesAgree
<1>1. IInv => TablesAgree
  <2> SUFFICES ASSUME IInv, NEW r \in Untroubled
               PROVE  /\ runtime[r].state = "active" <=> ActiveEvents(log[r]) # {}
                      /\ \A i \in ActiveEvents(log[r]), f \in SubstantialFields :
                             log[r][i].def[f] = rule[r].def[f]
                      /\ ~rule[r].def.enabled => AtRest(r)
    BY DEF TablesAgree
  <2>1. RuleAgrees(runtime[r], log[r], rule[r].def, accepted[r])
    BY DEF IInv, Agreement
  <2> QED
    BY <2>1 DEF RuleAgrees, EventAgrees, AtRest
<1> QED
  BY AlertInvariant, <1>1, PTL

\* _evaluate_rule, one sample at a time, computes what all the samples since
\* the last reset say, for every definition, run of samples and PATCH.
THEOREM SamplesAlwaysMatch == Spec => []MatchesSamples
<1>1. IInv => MatchesSamples
  <2> SUFFICES ASSUME IInv, NEW r \in Untroubled
               PROVE  LET h == accepted[r]
                          d == rule[r].def
                      IN  /\ InOrder(h) /\ StateAgrees(runtime[r], d, h)
                          /\ \A i \in ActiveEvents(log[r]) :
                                 /\ IsWorst(log[r][i].extreme, d, h, log[r][i].started)
                                 /\ log[r][i].last = h[Len(h)].value
    BY DEF MatchesSamples, InOrder, StateAgrees
  <2>1. RuleAgrees(runtime[r], log[r], rule[r].def, accepted[r])
    BY DEF IInv, Agreement
  <2> QED
    BY <2>1 DEF RuleAgrees, EventAgrees
<1> QED
  BY AlertInvariant, <1>1, PTL

\* Every alert that create_event records is justified by the definition it
\* was recorded with, whatever raced with its evaluation.
THEOREM EventsAlwaysJustified == Spec => []EventsJustified
<1>1. IInv => EventsJustified
  BY DEF IInv
<1> QED
  BY AlertInvariant, <1>1, PTL

\* No step changes an event that resolve_active_event or a reset resolved,
\* unless it evaluates a rule that was changed since it was read.
THEOREM ResolvedAlwaysFinal == Spec => ResolvedIsFinal
<1>1. IInv /\ [Next]_vars =>
        [\A r \in Rule : \A i \in DOMAIN log[r] :
            log[r][i].status = "resolved" /\ r \notin raced'
                => i \in DOMAIN log'[r] /\ log'[r][i] = log[r][i]]_vars
  BY NextIInv DEF KeepsResolved
<1> QED
  BY AlertInvariant, <1>1, PTL DEF Spec, ResolvedIsFinal

=============================================================================
