----------------------- MODULE ProvisioningAccessProofs -----------------------
(***************************************************************************)
(* Proofs about ProvisioningAccess, for every lockout, limit of failures,  *)
(* session life and pair of deadlines.                                     *)
(***************************************************************************)
EXTENDS ProvisioningAccess, SequenceTheorems, TLAPS

\* TypeOK in the parts that the steps below treat one by one.
NumbersTyped ==
    /\ now \in Time /\ last \in Time
    /\ failures \in 0..(MaxFailures - 1)
    /\ lockedUntil \in 0..(MaxTime + Lockout)
    /\ expires \in -1..(MaxTime + SessionLife)

FlagsTyped == window \in BOOLEAN /\ stopping \in BOOLEAN /\ server \in BOOLEAN

HttpType ==
    [pc : {"idle", "body", "login", "session", "renew", "renewed", "refused", "act"},
     op : {"none", "login", "logout", "other"}, at : Time]

MaintenanceType ==
    [pc : {"read", "tick", "request", "clear", "httpd", "done"}, at : Time]

\* No time that was read or recorded lies ahead.
PastTimes ==
    /\ last <= now /\ http.at <= now /\ maintenance.at <= now
    /\ \A i \in DOMAIN wrong : wrong[i] <= now

\* The history of failed logins is in order and no longer than it must be; the
\* failures counted are among them.
HistoryInOrder ==
    /\ Len(wrong) <= MaxFailures + 1
    /\ failures <= Len(wrong)
    /\ \A i \in DOMAIN wrong : \A j \in DOMAIN wrong : i <= j => wrong[i] <= wrong[j]

\* A handler between its check of the lockout and its verdict has waited for
\* the lockout to end, and a server that is down runs no handler.
LoginWaited ==
    /\ http.pc \in {"body", "login"} => now >= lockedUntil
    /\ ~server => http.pc = "idle"

\* Where the lockouts lie in the history.  The failure before the ones counted
\* began the latest lockout (or is the latest one of all), and the one
\* MaxFailures earlier began the lockout before: the next failure of each came
\* after that lockout.
LockoutsPlaced ==
    server =>
        /\ failures = 0 /\ wrong # <<>> => lockedUntil >= wrong[Len(wrong)] + Lockout
        /\ failures = 0 /\ Len(wrong) = MaxFailures + 1 => wrong[2] >= wrong[1] + Lockout
        /\ 0 < failures /\ failures < Len(wrong) =>
              wrong[Len(wrong) - failures + 1] >= wrong[Len(wrong) - failures] + Lockout

IInv ==
    /\ TypeOK
    /\ PastTimes
    /\ HistoryInOrder
    /\ LoginWaited
    /\ LockoutsPlaced
    /\ GuessesBounded

-----------------------------------------------------------------------------
(* The parts of the invariant.                                             *)

\* TypeOK is the conjunction of its parts, in this state and in the next.
LEMMA TypeParts ==
    /\ TypeOK <=> /\ NumbersTyped /\ FlagsTyped
                  /\ http \in HttpType /\ maintenance \in MaintenanceType
                  /\ wrong \in Seq(Time)
    /\ TypeOK' <=> /\ NumbersTyped' /\ FlagsTyped'
                   /\ http' \in HttpType /\ maintenance' \in MaintenanceType
                   /\ wrong' \in Seq(Time)
  BY DEF TypeOK, NumbersTyped, FlagsTyped, HttpType, MaintenanceType

\* What Append and Tail do to a history.
LEMMA AppendTail ==
    ASSUME NEW s \in Seq(Time), NEW v \in Time
    PROVE  LET a == Append(s, v)
           IN  /\ Len(s) \in Nat
               /\ a \in Seq(Time) /\ Len(a) = Len(s) + 1 /\ a[Len(s) + 1] = v
               /\ \A i \in 1..Len(s) : a[i] = s[i]
               /\ Tail(a) \in Seq(Time) /\ Len(Tail(a)) = Len(s)
               /\ \A i \in 1..Len(s) : Tail(a)[i] = a[i + 1]
<1> DEFINE a == Append(s, v)
<1>1. /\ a \in Seq(Time) /\ Len(a) = Len(s) + 1 /\ a[Len(s) + 1] = v
      /\ \A i \in 1..Len(s) : a[i] = s[i]
  BY AppendProperties
<1>2. Len(s) \in Nat
  BY LenProperties
<1>3. a # <<>>
  BY <1>1, <1>2
<1>4. /\ Tail(a) \in Seq(Time) /\ Len(Tail(a)) = Len(a) - 1
      /\ \A i \in 1..(Len(a) - 1) : Tail(a)[i] = a[i + 1]
  BY <1>1, <1>3, HeadTailProperties
<1>5. Len(a) - 1 = Len(s)
  BY <1>1, <1>2
<1> QED
  BY <1>1, <1>2, <1>4, <1>5

\* Latest keeps all of a history that is not full ...
LEMMA LatestShort ==
    ASSUME NEW s \in Seq(Time), NEW v \in Time, Len(s) <= MaxFailures
    PROVE  LET t == Latest(Append(s, v))
           IN  /\ t \in Seq(Time) /\ Len(t) = Len(s) + 1 /\ t[Len(s) + 1] = v
               /\ \A i \in 1..Len(s) : t[i] = s[i]
<1>1. Latest(Append(s, v)) = Append(s, v)
  BY AppendTail, AccessAssumption DEF Latest
<1> QED
  BY <1>1, AppendTail

Full(s) == Len(s) = MaxFailures + 1

\* ... and drops the first failure of a full one.
LEMMA LatestFull ==
    ASSUME NEW s \in Seq(Time), NEW v \in Time, Full(s)
    PROVE  LET t == Latest(Append(s, v))
           IN  /\ t \in Seq(Time) /\ Len(t) = Len(s) /\ t[Len(s)] = v
               /\ \A i \in 1..(Len(s) - 1) : t[i] = s[i + 1]
<1> DEFINE a == Append(s, v)
           t == Latest(a)
<1>1. /\ Len(s) \in Nat /\ MaxFailures \in Nat
      /\ a \in Seq(Time) /\ Len(a) = Len(s) + 1 /\ a[Len(s) + 1] = v
      /\ \A i \in 1..Len(s) : a[i] = s[i]
      /\ Tail(a) \in Seq(Time) /\ Len(Tail(a)) = Len(s)
      /\ \A i \in 1..Len(s) : Tail(a)[i] = a[i + 1]
  BY AppendTail, AccessAssumption
<1>2. t = Tail(a)
  BY <1>1 DEF Latest, Full
<1> HIDE DEF t, a
<1>3. t[Len(s)] = v
  BY <1>1, <1>2, AccessAssumption DEF Full
<1>4. \A i \in 1..(Len(s) - 1) : t[i] = s[i + 1]
  BY <1>1, <1>2
<1>5. t \in Seq(Time) /\ Len(t) = Len(s)
  BY <1>1, <1>2
<1> QED
  BY <1>3, <1>4, <1>5 DEF t, a

\* The handler that is idle, and one that has begun.
LEMMA IdleType ==
    /\ Idle \in HttpType /\ Idle.pc = "idle" /\ Idle.op = "none" /\ Idle.at = 0
    /\ 0 \in Time
<1>1. 0 \in Time
  BY AccessAssumption DEF Time
<1> QED
  BY <1>1 DEF Idle, HttpType

\* Deadlines computed from a time stay in range.
LEMMA DeadlineRange ==
    /\ -1 \in -1..(MaxTime + SessionLife)
    /\ \A t \in Time : /\ t \in Int
                       /\ t + SessionLife \in -1..(MaxTime + SessionLife)
                       /\ t + Lockout \in 0..(MaxTime + Lockout)
  BY AccessAssumption DEF Time

\* A step that touches neither the history nor the lockout keeps what they say
\* of each other.
LEMMA HistoryFrame ==
    ASSUME IInv, now <= now', now' \in Time,
           UNCHANGED <<failures, lockedUntil, server, wrong>>
    PROVE  /\ HistoryInOrder' /\ LockoutsPlaced' /\ GuessesBounded'
           /\ wrong' \in Seq(Time)
           /\ \A i \in DOMAIN wrong' : wrong'[i] <= now'
<1>1. HistoryInOrder' /\ GuessesBounded' /\ wrong' \in Seq(Time)
  BY DEF IInv, TypeOK, HistoryInOrder, GuessesBounded
<1>2. LockoutsPlaced'
  BY DEF IInv, LockoutsPlaced
<1>3. \A i \in DOMAIN wrong' : wrong'[i] <= now'
  <2> SUFFICES ASSUME NEW i \in DOMAIN wrong PROVE wrong[i] <= now'
    OBVIOUS
  <2>1. wrong[i] \in Int /\ now \in Int /\ now' \in Int
    BY ElementOfSeq, LenProperties, AccessAssumption DEF IInv, TypeOK, Time
  <2>2. wrong[i] <= now
    BY DEF IInv, PastTimes
  <2> QED
    BY <2>1, <2>2
<1> QED
  BY <1>1, <1>2, <1>3

\* The initial state satisfies the invariant.
LEMMA InitIInv == Init => IInv
<1> SUFFICES ASSUME Init PROVE IInv
  OBVIOUS
<1> USE AccessAssumption DEF Init
<1>1. NumbersTyped
  BY DEF NumbersTyped, Time
<1>2. FlagsTyped /\ http \in HttpType /\ maintenance \in MaintenanceType
  BY IdleType DEF FlagsTyped, MaintenanceType
<1>3. wrong \in Seq(Time) /\ Len(wrong) = 0 /\ DOMAIN wrong = {}
  BY EmptySeq
<1>4. PastTimes
  BY <1>3 DEF PastTimes, Idle
<1>5. HistoryInOrder /\ GuessesBounded
  BY <1>3 DEF HistoryInOrder, GuessesBounded
<1>6. LoginWaited
  BY DEF LoginWaited, Idle
<1>7. LockoutsPlaced
  BY <1>3 DEF LockoutsPlaced
<1> QED
  BY <1>1, <1>2, <1>3, <1>4, <1>5, <1>6, <1>7, TypeParts DEF IInv

-----------------------------------------------------------------------------
(* One lemma per action.                                                   *)

\* A login begins only when the lockout is over.
LEMMA LoginIInv == IInv /\ Login => IInv'
<1> SUFFICES ASSUME IInv, Login PROVE IInv'
  OBVIOUS
<1> USE TypeParts, IdleType, AccessAssumption DEF IInv, Login, Incoming
<1>1. now <= now' /\ now' \in Time
  BY DEF NumbersTyped, Time
<1>2. NumbersTyped'
  BY DEF NumbersTyped, HttpType, Time
<1>3. FlagsTyped'
  BY DEF FlagsTyped
<1>4. http' \in HttpType /\ http'.at \in {0, http.at, now}
  BY DEF HttpType, NumbersTyped
<1>5. maintenance' \in MaintenanceType
  BY DEF MaintenanceType, NumbersTyped, Time
<1>6. /\ HistoryInOrder' /\ LockoutsPlaced' /\ GuessesBounded'
      /\ wrong' \in Seq(Time) /\ \A i \in DOMAIN wrong' : wrong'[i] <= now'
  BY <1>1, HistoryFrame
<1>9. http'.at <= now'
  BY <1>1, <1>4 DEF PastTimes, NumbersTyped, HttpType, Time
<1>7. PastTimes'
  BY <1>1, <1>9, <1>6 DEF PastTimes, NumbersTyped, HttpType, MaintenanceType,
     Time
<1>8. LoginWaited'
  BY <1>1 DEF LoginWaited, NumbersTyped, FlagsTyped, HttpType, Time
<1> QED
  BY <1>2, <1>3, <1>4, <1>5, <1>6, <1>7, <1>8

\* The body arrives or the handler ends.
LEMMA ReceiveBodyIInv == IInv /\ ReceiveBody => IInv'
<1> SUFFICES ASSUME IInv, ReceiveBody PROVE IInv'
  OBVIOUS
<1> USE TypeParts, IdleType, AccessAssumption DEF IInv, ReceiveBody
<1>1. now <= now' /\ now' \in Time
  BY DEF NumbersTyped, Time
<1>2. NumbersTyped'
  BY DEF NumbersTyped, HttpType, Time
<1>3. FlagsTyped'
  BY DEF FlagsTyped
<1>4. http' \in HttpType /\ http'.at \in {0, http.at, now}
  BY DEF HttpType, NumbersTyped
<1>5. maintenance' \in MaintenanceType
  BY DEF MaintenanceType, NumbersTyped, Time
<1>6. /\ HistoryInOrder' /\ LockoutsPlaced' /\ GuessesBounded'
      /\ wrong' \in Seq(Time) /\ \A i \in DOMAIN wrong' : wrong'[i] <= now'
  BY <1>1, HistoryFrame
<1>9. http'.at <= now'
  <2>1. http'.at \in {0, http.at}
    BY DEF HttpType
  <2> QED
    BY <2>1 DEF PastTimes, NumbersTyped, Time
<1>7. PastTimes'
  BY <1>1, <1>9, <1>6 DEF PastTimes, NumbersTyped, HttpType, MaintenanceType,
     Time
<1>8. LoginWaited'
  BY <1>1 DEF LoginWaited, NumbersTyped, FlagsTyped, HttpType, Time
<1> QED
  BY <1>2, <1>3, <1>4, <1>5, <1>6, <1>7, <1>8

\* A request that needs a session begins.
LEMMA RequestIInv == ASSUME NEW op \in {"logout", "other"}, IInv, Request(op) PROVE IInv'
<1> USE TypeParts, IdleType, AccessAssumption DEF IInv, Request, Incoming
<1>1. now <= now' /\ now' \in Time
  BY DEF NumbersTyped, Time
<1>2. NumbersTyped'
  BY DEF NumbersTyped, HttpType, Time
<1>3. FlagsTyped'
  BY DEF FlagsTyped
<1>4. http' \in HttpType /\ http'.at \in {0, http.at, now}
  BY DEF HttpType, NumbersTyped
<1>5. maintenance' \in MaintenanceType
  BY DEF MaintenanceType, NumbersTyped, Time
<1>6. /\ HistoryInOrder' /\ LockoutsPlaced' /\ GuessesBounded'
      /\ wrong' \in Seq(Time) /\ \A i \in DOMAIN wrong' : wrong'[i] <= now'
  BY <1>1, HistoryFrame
<1>9. http'.at <= now'
  BY <1>1, <1>4 DEF PastTimes, NumbersTyped, HttpType, Time
<1>7. PastTimes'
  BY <1>1, <1>9, <1>6 DEF PastTimes, NumbersTyped, HttpType, MaintenanceType,
     Time
<1>8. LoginWaited'
  BY <1>1 DEF LoginWaited, NumbersTyped, FlagsTyped, HttpType, Time
<1> QED
  BY <1>2, <1>3, <1>4, <1>5, <1>6, <1>7, <1>8

\* A request is authorized or refused.
LEMMA AuthorizeIInv == IInv /\ Authorize => IInv'
<1> SUFFICES ASSUME IInv, Authorize PROVE IInv'
  OBVIOUS
<1> USE TypeParts, IdleType, AccessAssumption DEF IInv, Authorize
<1>1. now <= now' /\ now' \in Time
  BY DEF NumbersTyped, Time
<1>2. NumbersTyped'
  BY DEF NumbersTyped, HttpType, Time
<1>3. FlagsTyped'
  BY DEF FlagsTyped
<1>4. http' \in HttpType /\ http'.at \in {0, http.at, now}
  BY DEF HttpType, NumbersTyped
<1>5. maintenance' \in MaintenanceType
  BY DEF MaintenanceType, NumbersTyped, Time
<1>6. /\ HistoryInOrder' /\ LockoutsPlaced' /\ GuessesBounded'
      /\ wrong' \in Seq(Time) /\ \A i \in DOMAIN wrong' : wrong'[i] <= now'
  BY <1>1, HistoryFrame
<1>9. http'.at <= now'
  BY <1>1, <1>4 DEF PastTimes, NumbersTyped, HttpType, Time
<1>7. PastTimes'
  BY <1>1, <1>9, <1>6 DEF PastTimes, NumbersTyped, HttpType, MaintenanceType,
     Time
<1>8. LoginWaited'
  BY <1>1 DEF LoginWaited, NumbersTyped, FlagsTyped, HttpType, Time
<1> QED
  BY <1>2, <1>3, <1>4, <1>5, <1>6, <1>7, <1>8

\* The time is read before the lock is taken.
LEMMA ReadActivityTimeIInv == IInv /\ ReadActivityTime => IInv'
<1> SUFFICES ASSUME IInv, ReadActivityTime PROVE IInv'
  OBVIOUS
<1> USE TypeParts, IdleType, AccessAssumption DEF IInv, ReadActivityTime
<1>1. now <= now' /\ now' \in Time
  BY DEF NumbersTyped, Time
<1>2. NumbersTyped'
  BY DEF NumbersTyped, HttpType, Time
<1>3. FlagsTyped'
  BY DEF FlagsTyped
<1>4. http' \in HttpType /\ http'.at \in {0, http.at, now}
  BY DEF HttpType, NumbersTyped
<1>5. maintenance' \in MaintenanceType
  BY DEF MaintenanceType, NumbersTyped, Time
<1>6. /\ HistoryInOrder' /\ LockoutsPlaced' /\ GuessesBounded'
      /\ wrong' \in Seq(Time) /\ \A i \in DOMAIN wrong' : wrong'[i] <= now'
  BY <1>1, HistoryFrame
<1>9. http'.at <= now'
  BY <1>1, <1>4 DEF PastTimes, NumbersTyped, HttpType, Time
<1>7. PastTimes'
  BY <1>1, <1>9, <1>6 DEF PastTimes, NumbersTyped, HttpType, MaintenanceType,
     Time
<1>8. LoginWaited'
  BY <1>1 DEF LoginWaited, NumbersTyped, FlagsTyped, HttpType, Time
<1> QED
  BY <1>2, <1>3, <1>4, <1>5, <1>6, <1>7, <1>8

\* The activity that is noted lies in the past.
LEMMA ActivityIInv == IInv /\ Activity => IInv'
<1> SUFFICES ASSUME IInv, Activity PROVE IInv'
  OBVIOUS
<1> USE TypeParts, IdleType, AccessAssumption DEF IInv, Activity
<1>1. now <= now' /\ now' \in Time
  BY DEF NumbersTyped, Time
<1>2. NumbersTyped'
  BY DEF NumbersTyped, HttpType, Time
<1>3. FlagsTyped'
  BY DEF FlagsTyped
<1>4. http' \in HttpType /\ http'.at \in {0, http.at, now}
  BY DEF HttpType, NumbersTyped
<1>5. maintenance' \in MaintenanceType
  BY DEF MaintenanceType, NumbersTyped, Time
<1>6. /\ HistoryInOrder' /\ LockoutsPlaced' /\ GuessesBounded'
      /\ wrong' \in Seq(Time) /\ \A i \in DOMAIN wrong' : wrong'[i] <= now'
  BY <1>1, HistoryFrame
<1>9. http'.at <= now'
  BY <1>1, <1>4 DEF PastTimes, NumbersTyped, HttpType, Time
<1>7. PastTimes'
  BY <1>1, <1>9, <1>6 DEF PastTimes, NumbersTyped, HttpType, MaintenanceType,
     Time
<1>8. LoginWaited'
  BY <1>1 DEF LoginWaited, NumbersTyped, FlagsTyped, HttpType, Time
<1> QED
  BY <1>2, <1>3, <1>4, <1>5, <1>6, <1>7, <1>8

\* A request is refused.
LEMMA RefuseIInv == IInv /\ Refuse => IInv'
<1> SUFFICES ASSUME IInv, Refuse PROVE IInv'
  OBVIOUS
<1> USE TypeParts, IdleType, AccessAssumption DEF IInv, Refuse
<1>1. now <= now' /\ now' \in Time
  BY DEF NumbersTyped, Time
<1>2. NumbersTyped'
  BY DEF NumbersTyped, HttpType, Time
<1>3. FlagsTyped'
  BY DEF FlagsTyped
<1>4. http' \in HttpType /\ http'.at \in {0, http.at, now}
  BY DEF HttpType, NumbersTyped
<1>5. maintenance' \in MaintenanceType
  BY DEF MaintenanceType, NumbersTyped, Time
<1>6. /\ HistoryInOrder' /\ LockoutsPlaced' /\ GuessesBounded'
      /\ wrong' \in Seq(Time) /\ \A i \in DOMAIN wrong' : wrong'[i] <= now'
  BY <1>1, HistoryFrame
<1>9. http'.at <= now'
  <2>1. http'.at \in {0, http.at}
    BY DEF HttpType
  <2> QED
    BY <2>1 DEF PastTimes, NumbersTyped, Time
<1>7. PastTimes'
  BY <1>1, <1>9, <1>6 DEF PastTimes, NumbersTyped, HttpType, MaintenanceType,
     Time
<1>8. LoginWaited'
  BY <1>1 DEF LoginWaited, NumbersTyped, FlagsTyped, HttpType, Time
<1> QED
  BY <1>2, <1>3, <1>4, <1>5, <1>6, <1>7, <1>8

\* The rest of a handler.
LEMMA ActIInv == IInv /\ Act => IInv'
<1> SUFFICES ASSUME IInv, Act PROVE IInv'
  OBVIOUS
<1> USE TypeParts, IdleType, AccessAssumption DEF IInv, Act
<1>1. now <= now' /\ now' \in Time
  BY DEF NumbersTyped, Time
<1>2. NumbersTyped'
  <2>1. expires' = -1 \/ expires' = expires
    OBVIOUS
  <2>2. expires' \in -1..(MaxTime + SessionLife)
    <3>1. CASE expires' = -1
      BY <3>1, DeadlineRange
    <3>2. CASE expires' = expires
      BY <3>2 DEF NumbersTyped
    <3> QED
      BY <2>1, <3>1, <3>2
  <2> QED
    BY <2>2 DEF NumbersTyped
<1>3. FlagsTyped'
  BY DEF FlagsTyped
<1>4. http' \in HttpType /\ http'.at \in {0, http.at, now}
  BY DEF HttpType, NumbersTyped
<1>5. maintenance' \in MaintenanceType
  BY DEF MaintenanceType, NumbersTyped, Time
<1>6. /\ HistoryInOrder' /\ LockoutsPlaced' /\ GuessesBounded'
      /\ wrong' \in Seq(Time) /\ \A i \in DOMAIN wrong' : wrong'[i] <= now'
  BY <1>1, HistoryFrame
<1>9. http'.at <= now'
  BY <1>1, <1>4 DEF PastTimes, NumbersTyped, HttpType, Time
<1>7. PastTimes'
  BY <1>1, <1>9, <1>6 DEF PastTimes, NumbersTyped, HttpType, MaintenanceType,
     Time
<1>8. LoginWaited'
  BY <1>1 DEF LoginWaited, NumbersTyped, FlagsTyped, HttpType, Time
<1> QED
  BY <1>2, <1>3, <1>4, <1>5, <1>6, <1>7, <1>8

\* The time is read before the lock is taken.
LEMMA ReadTickTimeIInv == IInv /\ ReadTickTime => IInv'
<1> SUFFICES ASSUME IInv, ReadTickTime PROVE IInv'
  OBVIOUS
<1> USE TypeParts, IdleType, AccessAssumption DEF IInv, ReadTickTime
<1>1. now <= now' /\ now' \in Time
  BY DEF NumbersTyped, Time
<1>2. NumbersTyped'
  BY DEF NumbersTyped, HttpType, Time
<1>3. FlagsTyped'
  BY DEF FlagsTyped
<1>4. http' \in HttpType /\ http'.at \in {0, http.at, now}
  BY DEF HttpType, NumbersTyped
<1>5. maintenance' \in MaintenanceType
  BY DEF MaintenanceType, NumbersTyped, Time
<1>6. /\ HistoryInOrder' /\ LockoutsPlaced' /\ GuessesBounded'
      /\ wrong' \in Seq(Time) /\ \A i \in DOMAIN wrong' : wrong'[i] <= now'
  BY <1>1, HistoryFrame
<1>9. http'.at <= now'
  BY <1>1, <1>4 DEF PastTimes, NumbersTyped, HttpType, Time
<1>7. PastTimes'
  BY <1>1, <1>9, <1>6 DEF PastTimes, NumbersTyped, HttpType, MaintenanceType,
     Time
<1>8. LoginWaited'
  BY <1>1 DEF LoginWaited, NumbersTyped, FlagsTyped, HttpType, Time
<1> QED
  BY <1>2, <1>3, <1>4, <1>5, <1>6, <1>7, <1>8

\* The window is closed or kept open.
LEMMA TickWindowIInv == IInv /\ TickWindow => IInv'
<1> SUFFICES ASSUME IInv, TickWindow PROVE IInv'
  OBVIOUS
<1> USE TypeParts, IdleType, AccessAssumption DEF IInv, TickWindow
<1>1. now <= now' /\ now' \in Time
  BY DEF NumbersTyped, Time
<1>2. NumbersTyped'
  BY DEF NumbersTyped, HttpType, Time
<1>3. FlagsTyped'
  BY DEF FlagsTyped, DeadlinePassed
<1>4. http' \in HttpType /\ http'.at \in {0, http.at, now}
  BY DEF HttpType, NumbersTyped
<1>5. maintenance' \in MaintenanceType
  BY DEF MaintenanceType, NumbersTyped, Time
<1>6. /\ HistoryInOrder' /\ LockoutsPlaced' /\ GuessesBounded'
      /\ wrong' \in Seq(Time) /\ \A i \in DOMAIN wrong' : wrong'[i] <= now'
  BY <1>1, HistoryFrame
<1>9. http'.at <= now'
  BY <1>1, <1>4 DEF PastTimes, NumbersTyped, HttpType, Time
<1>7. PastTimes'
  BY <1>1, <1>9, <1>6 DEF PastTimes, NumbersTyped, HttpType, MaintenanceType,
     Time
<1>8. LoginWaited'
  BY <1>1 DEF LoginWaited, NumbersTyped, FlagsTyped, HttpType, Time
<1> QED
  BY <1>2, <1>3, <1>4, <1>5, <1>6, <1>7, <1>8

\* The stop is requested.
LEMMA StopRequestIInv == IInv /\ StopRequest => IInv'
<1> SUFFICES ASSUME IInv, StopRequest PROVE IInv'
  OBVIOUS
<1> USE TypeParts, IdleType, AccessAssumption DEF IInv, StopRequest
<1>1. now <= now' /\ now' \in Time
  BY DEF NumbersTyped, Time
<1>2. NumbersTyped'
  BY DEF NumbersTyped, HttpType, Time
<1>3. FlagsTyped'
  BY DEF FlagsTyped
<1>4. http' \in HttpType /\ http'.at \in {0, http.at, now}
  BY DEF HttpType, NumbersTyped
<1>5. maintenance' \in MaintenanceType
  BY DEF MaintenanceType, NumbersTyped, Time
<1>6. /\ HistoryInOrder' /\ LockoutsPlaced' /\ GuessesBounded'
      /\ wrong' \in Seq(Time) /\ \A i \in DOMAIN wrong' : wrong'[i] <= now'
  BY <1>1, HistoryFrame
<1>9. http'.at <= now'
  BY <1>1, <1>4 DEF PastTimes, NumbersTyped, HttpType, Time
<1>7. PastTimes'
  BY <1>1, <1>9, <1>6 DEF PastTimes, NumbersTyped, HttpType, MaintenanceType,
     Time
<1>8. LoginWaited'
  BY <1>1 DEF LoginWaited, NumbersTyped, FlagsTyped, HttpType, Time
<1> QED
  BY <1>2, <1>3, <1>4, <1>5, <1>6, <1>7, <1>8

\* The session is closed.
LEMMA StopClearSessionIInv == IInv /\ StopClearSession => IInv'
<1> SUFFICES ASSUME IInv, StopClearSession PROVE IInv'
  OBVIOUS
<1> USE TypeParts, IdleType, AccessAssumption DEF IInv, StopClearSession
<1>1. now <= now' /\ now' \in Time
  BY DEF NumbersTyped, Time
<1>2. NumbersTyped'
  BY DEF NumbersTyped, HttpType, Time
<1>3. FlagsTyped'
  BY DEF FlagsTyped
<1>4. http' \in HttpType /\ http'.at \in {0, http.at, now}
  BY DEF HttpType, NumbersTyped
<1>5. maintenance' \in MaintenanceType
  BY DEF MaintenanceType, NumbersTyped, Time
<1>6. /\ HistoryInOrder' /\ LockoutsPlaced' /\ GuessesBounded'
      /\ wrong' \in Seq(Time) /\ \A i \in DOMAIN wrong' : wrong'[i] <= now'
  BY <1>1, HistoryFrame
<1>9. http'.at <= now'
  BY <1>1, <1>4 DEF PastTimes, NumbersTyped, HttpType, Time
<1>7. PastTimes'
  BY <1>1, <1>9, <1>6 DEF PastTimes, NumbersTyped, HttpType, MaintenanceType,
     Time
<1>8. LoginWaited'
  BY <1>1 DEF LoginWaited, NumbersTyped, FlagsTyped, HttpType, Time
<1> QED
  BY <1>2, <1>3, <1>4, <1>5, <1>6, <1>7, <1>8

\* Time passes.
LEMMA TimePassesIInv == IInv /\ TimePasses => IInv'
<1> SUFFICES ASSUME IInv, TimePasses PROVE IInv'
  OBVIOUS
<1> USE TypeParts, IdleType, AccessAssumption DEF IInv, TimePasses
<1>1. now <= now' /\ now' \in Time
  BY DEF NumbersTyped, Time
<1>2. NumbersTyped'
  BY DEF NumbersTyped, HttpType, Time
<1>3. FlagsTyped'
  BY DEF FlagsTyped
<1>4. http' \in HttpType /\ http'.at \in {0, http.at, now}
  BY DEF HttpType, NumbersTyped
<1>5. maintenance' \in MaintenanceType
  BY DEF MaintenanceType, NumbersTyped, Time
<1>6. /\ HistoryInOrder' /\ LockoutsPlaced' /\ GuessesBounded'
      /\ wrong' \in Seq(Time) /\ \A i \in DOMAIN wrong' : wrong'[i] <= now'
  BY <1>1, HistoryFrame
<1>9. http'.at <= now'
  BY <1>1, <1>4 DEF PastTimes, NumbersTyped, HttpType, Time
<1>7. PastTimes'
  BY <1>1, <1>9, <1>6 DEF PastTimes, NumbersTyped, HttpType, MaintenanceType,
     Time
<1>8. LoginWaited'
  BY <1>1 DEF LoginWaited, NumbersTyped, FlagsTyped, HttpType, Time
<1> QED
  BY <1>2, <1>3, <1>4, <1>5, <1>6, <1>7, <1>8

\* A successful login begins a new history.
LEMMA LoginSucceedsIInv == IInv /\ LoginSucceeds => IInv'
<1> SUFFICES ASSUME IInv, LoginSucceeds PROVE IInv'
  OBVIOUS
<1> USE TypeParts, AccessAssumption DEF IInv, LoginSucceeds
<1>1. NumbersTyped'
  BY DeadlineRange DEF NumbersTyped
<1>2. FlagsTyped' /\ maintenance' \in MaintenanceType
  BY DEF FlagsTyped
<1>3. http' \in HttpType /\ http'.at = http.at /\ http'.pc = "renew"
  BY DEF HttpType
<1>4. wrong' \in Seq(Time) /\ Len(wrong') = 0 /\ DOMAIN wrong' = {}
  BY EmptySeq
<1>5. PastTimes'
  BY <1>3, <1>4 DEF PastTimes
<1>6. HistoryInOrder'
  BY <1>4 DEF HistoryInOrder
<1>7. GuessesBounded'
  BY <1>4 DEF GuessesBounded
<1>8. LoginWaited'
  BY <1>3 DEF LoginWaited
<1>9. LockoutsPlaced'
  BY <1>4 DEF LockoutsPlaced
<1> QED
  BY <1>1, <1>2, <1>3, <1>4, <1>5, <1>6, <1>7, <1>8, <1>9

\* Once the server is down the lockout no longer matters: no login begins.
LEMMA StopServerIInv == IInv /\ StopServer => IInv'
<1> SUFFICES ASSUME IInv, StopServer PROVE IInv'
  OBVIOUS
<1> USE TypeParts, AccessAssumption DEF IInv, StopServer
<1>1. NumbersTyped'
  BY DEF NumbersTyped
<1>2. FlagsTyped'
  BY DEF FlagsTyped
<1>3. http' \in HttpType /\ wrong' \in Seq(Time)
  OBVIOUS
<1>4. maintenance' \in MaintenanceType /\ maintenance'.at = maintenance.at
  BY DEF MaintenanceType
<1>5. PastTimes'
  BY <1>4 DEF PastTimes
<1>6. HistoryInOrder'
  BY LenProperties DEF HistoryInOrder
<1>7. GuessesBounded'
  BY DEF GuessesBounded
<1>8. LoginWaited' /\ LockoutsPlaced'
  BY DEF LoginWaited, LockoutsPlaced
<1> QED
  BY <1>1, <1>2, <1>3, <1>4, <1>5, <1>6, <1>7, <1>8

\* A failed login is counted; the one that reaches the limit begins a lockout,
\* and with it the count from 0.
LEMMA LoginFailsIInv == IInv /\ LoginFails => IInv'
<1> SUFFICES ASSUME IInv, LoginFails PROVE IInv'
  OBVIOUS
<1>0. /\ NumbersTyped /\ FlagsTyped /\ wrong \in Seq(Time)
      /\ http \in HttpType /\ maintenance \in MaintenanceType
      /\ PastTimes /\ HistoryInOrder /\ LoginWaited /\ LockoutsPlaced /\ GuessesBounded
      /\ MaxFailures \in Nat /\ MaxFailures >= 1 /\ Lockout \in Nat /\ MaxTime \in Nat
  BY TypeParts, AccessAssumption DEF IInv
<1> DEFINE n == Len(wrong)
           m == Len(wrong')
<1>1. /\ n \in Nat /\ n <= MaxFailures + 1 /\ DOMAIN wrong = 1..n
      /\ \A i \in 1..n : wrong[i] \in Int /\ wrong[i] <= now
      /\ now \in Int /\ now' = now /\ failures \in 0..(MaxFailures - 1) /\ failures <= n
  <2>1. n \in Nat /\ DOMAIN wrong = 1..n
    BY <1>0, LenProperties
  <2>2. \A i \in 1..n : wrong[i] \in Int
    BY <1>0, ElementOfSeq DEF Time
  <2>3. n <= MaxFailures + 1 /\ failures <= n
    BY <1>0 DEF HistoryInOrder
  <2>4. \A i \in 1..n : wrong[i] <= now
    BY <1>0, <2>1 DEF PastTimes
  <2>5. now \in Int /\ failures \in 0..(MaxFailures - 1)
    BY <1>0 DEF NumbersTyped, Time
  <2>6. now' = now
    BY <1>0 DEF LoginFails
  <2> QED
    BY <1>0, <2>1, <2>2, <2>3, <2>4, <2>5, <2>6
<1>2. /\ wrong' \in Seq(Time) /\ m \in Nat /\ DOMAIN wrong' = 1..m
      /\ n <= MaxFailures =>
            m = n + 1 /\ wrong'[m] = now /\ \A i \in 1..n : wrong'[i] = wrong[i]
      /\ n = MaxFailures + 1 =>
            m = n /\ wrong'[m] = now /\ \A i \in 1..(n - 1) : wrong'[i] = wrong[i + 1]
  <2>1. now \in Time
    BY <1>0 DEF NumbersTyped
  <2>2. wrong' = Latest(Append(wrong, now))
    BY <1>0 DEF LoginFails
  <2>3. n <= MaxFailures =>
            /\ wrong' \in Seq(Time)
            /\ m = n + 1 /\ wrong'[m] = now /\ \A i \in 1..n : wrong'[i] = wrong[i]
    BY <1>0, <2>1, <2>2, LatestShort
  <2>4. Full(wrong) =>
            /\ wrong' \in Seq(Time)
            /\ m = n /\ wrong'[m] = now /\ \A i \in 1..(n - 1) : wrong'[i] = wrong[i + 1]
    <3> SUFFICES ASSUME Full(wrong)
                 PROVE  /\ wrong' \in Seq(Time)
                        /\ m = n /\ wrong'[n] = now
                        /\ \A i \in 1..(n - 1) : wrong'[i] = wrong[i + 1]
      OBVIOUS
    <3> DEFINE t == Latest(Append(wrong, now))
    <3>1. /\ t \in Seq(Time) /\ Len(t) = n /\ t[n] = now
          /\ \A i \in 1..(n - 1) : t[i] = wrong[i + 1]
      BY <1>0, <2>1, LatestFull, Zenon
    <3>2. wrong' = t
      BY <2>2
    <3> HIDE DEF t, n
    <3> QED
      BY <3>1, <3>2
  <2>5. n <= MaxFailures \/ Full(wrong)
    <3>1. ASSUME NEW k \in Nat, k <= MaxFailures + 1
          PROVE  k <= MaxFailures \/ k = MaxFailures + 1
      BY <1>0, <3>1
    <3> QED
      BY <1>1, <3>1 DEF Full
  <2>6. wrong' \in Seq(Time)
    BY <1>0, <2>3, <2>4, <2>5
  <2>7. m \in Nat /\ DOMAIN wrong' = 1..m
    BY <1>0, <2>6, LenProperties
  <2> QED
    BY <1>0, <2>3, <2>4, <2>6, <2>7 DEF Full
<1>3. /\ http.pc = "login" /\ http' = Idle /\ server' = server
      /\ \/ failures + 1 >= MaxFailures /\ failures' = 0 /\ lockedUntil' = now + Lockout
         \/ failures + 1 < MaxFailures /\ failures' = failures + 1 /\ lockedUntil' = lockedUntil
  BY <1>0, <1>1 DEF LoginFails
<1>4. now >= lockedUntil /\ server /\ lockedUntil \in Int
  BY <1>0, <1>3 DEF LoginWaited, NumbersTyped, FlagsTyped
<1>5. failures = 0 /\ n > 0 => now >= wrong[n] + Lockout
  <2> SUFFICES ASSUME failures = 0, n > 0 PROVE now >= wrong[n] + Lockout
    BY <1>0
  <2>1. wrong # <<>>
    BY <1>0, EmptySeq
  <2>2. lockedUntil >= wrong[n] + Lockout
    BY <1>0, <1>4, <2>1 DEF LockoutsPlaced
  <2>3. wrong[n] \in Int
    BY <1>0, <1>1
  <2> QED
    BY <1>0, <1>1, <1>4, <2>2, <2>3
<1> HIDE DEF n, m
<1>6. NumbersTyped'
  BY <1>0, <1>1, <1>3 DEF LoginFails, NumbersTyped, Time
<1>7. FlagsTyped' /\ http' \in HttpType /\ maintenance' \in MaintenanceType
  BY <1>0, IdleType DEF LoginFails, FlagsTyped
<1>8. \A i \in 1..m : wrong'[i] \in Int /\ wrong'[i] <= now
  BY <1>0, <1>1, <1>2
<1>9. PastTimes'
  <2>1. last' <= now' /\ http'.at <= now' /\ maintenance'.at <= now'
    BY <1>0, <1>1, <1>3, IdleType DEF LoginFails, PastTimes, NumbersTyped, Time
  <2> QED
    BY <1>0, <1>1, <1>2, <1>8, <2>1 DEF PastTimes
<1>10. LoginWaited'
  BY <1>0, <1>3, <1>4 DEF LoginWaited, Idle
<1>11. HistoryInOrder'
  <2>1. m <= MaxFailures + 1 /\ failures' <= m
    BY <1>0, <1>1, <1>2, <1>3
  <2>2. ASSUME NEW i \in 1..m, NEW j \in 1..m, i <= j PROVE wrong'[i] <= wrong'[j]
    <3>1. \A k, l \in 1..n : k <= l => wrong[k] <= wrong[l]
      BY <1>0, <1>1 DEF HistoryInOrder
    <3> QED
      BY <1>0, <1>1, <1>2, <1>8, <2>2, <3>1
  <2> QED
    BY <1>0, <1>2, <2>1, <2>2 DEF HistoryInOrder, m
<1>12. LockoutsPlaced'
  <2>0. /\ failures = 0 /\ n = MaxFailures + 1 => wrong[2] >= wrong[1] + Lockout
        /\ 0 < failures /\ failures < n =>
               wrong[n - failures + 1] >= wrong[n - failures] + Lockout
    BY <1>0, <1>4 DEF LockoutsPlaced, n
  <2>1. failures' = 0 => lockedUntil' >= wrong'[m] + Lockout
    BY <1>0, <1>1, <1>2, <1>3
  <2>2. ASSUME failures' = 0, m = MaxFailures + 1
        PROVE  wrong'[2] >= wrong'[1] + Lockout
    <3>1. failures = MaxFailures - 1
      BY <1>0, <1>1, <1>3, <2>2
    <3>2. CASE MaxFailures = 1
      <4>1. failures = 0 /\ m = 2 /\ wrong'[2] = now /\ n > 0
        BY <1>0, <1>1, <1>2, <2>2, <3>1, <3>2
      <4>2. wrong'[1] = wrong[n]
        BY <1>0, <1>1, <1>2, <3>2, <4>1
      <4> QED
        BY <1>0, <1>5, <4>1, <4>2
    <3>3. CASE MaxFailures > 1 /\ n = MaxFailures
      <4>1. wrong'[1] = wrong[1] /\ wrong'[2] = wrong[2]
        BY <1>0, <1>1, <1>2, <3>3
      <4>2. wrong[2] >= wrong[1] + Lockout
        <5>1. n - failures = 1 /\ n - failures + 1 = 2 /\ 0 < failures /\ failures < n
          BY <1>0, <1>1, <3>1, <3>3
        <5> QED
          BY <1>0, <2>0, <5>1
      <4> QED
        BY <1>0, <4>1, <4>2
    <3>4. CASE MaxFailures > 1 /\ n = MaxFailures + 1
      <4>1. wrong'[1] = wrong[2] /\ wrong'[2] = wrong[3]
        BY <1>0, <1>1, <1>2, <3>4
      <4>2. wrong[3] >= wrong[2] + Lockout
        <5>1. n - failures = 2 /\ n - failures + 1 = 3 /\ 0 < failures /\ failures < n
          BY <1>0, <1>1, <3>1, <3>4
        <5> QED
          BY <1>0, <2>0, <5>1
      <4> QED
        BY <1>0, <4>1, <4>2
    <3> QED
      BY <1>0, <1>1, <1>2, <2>2, <3>2, <3>3, <3>4
  <2>3. ASSUME 0 < failures', failures' < m
        PROVE  wrong'[m - failures' + 1] >= wrong'[m - failures'] + Lockout
    <3>1. failures' = failures + 1 /\ n > 0
      BY <1>0, <1>1, <1>2, <1>3, <2>3
    <3>2. CASE failures = 0
      <4>1. m - failures' + 1 = m /\ m - failures' = m - 1
        BY <1>0, <1>2, <3>1, <3>2
      <4>2. wrong'[m] = now /\ wrong'[m - 1] = wrong[n]
        BY <1>0, <1>1, <1>2, <3>1
      <4> QED
        BY <1>0, <1>5, <3>1, <3>2, <4>1, <4>2
    <3>3. CASE failures > 0 /\ n <= MaxFailures
      <4>1. /\ m - failures' = n - failures /\ m - failures' + 1 = n - failures + 1
            /\ n - failures \in 1..n /\ n - failures + 1 \in 1..n /\ failures < n
        BY <1>0, <1>1, <1>2, <2>3, <3>1, <3>3
      <4>2. /\ wrong'[n - failures] = wrong[n - failures]
            /\ wrong'[n - failures + 1] = wrong[n - failures + 1]
        BY <1>0, <1>2, <3>3, <4>1
      <4>3. wrong[n - failures + 1] >= wrong[n - failures] + Lockout
        BY <1>0, <2>0, <3>3, <4>1
      <4> QED
        BY <1>0, <4>1, <4>2, <4>3
    <3>4. CASE failures > 0 /\ n = MaxFailures + 1
      <4>1. /\ m - failures' = n - failures - 1 /\ m - failures' + 1 = n - failures
            /\ n - failures - 1 \in 1..(n - 1) /\ n - failures \in 1..(n - 1)
            /\ (n - failures - 1) + 1 = n - failures /\ failures < n
        BY <1>0, <1>1, <1>2, <2>3, <3>1, <3>4
      <4>2. /\ wrong'[n - failures - 1] = wrong[n - failures]
            /\ wrong'[n - failures] = wrong[n - failures + 1]
        BY <1>0, <1>2, <3>4, <4>1
      <4>3. wrong[n - failures + 1] >= wrong[n - failures] + Lockout
        BY <1>0, <2>0, <3>4, <4>1
      <4> QED
        BY <1>0, <4>1, <4>2, <4>3
    <3> QED
      BY <1>0, <1>1, <3>2, <3>3, <3>4
  <2> QED
    BY <1>0, <2>1, <2>2, <2>3 DEF LockoutsPlaced, m
<1>13. GuessesBounded'
  <2> SUFFICES ASSUME NEW i \in 1..m, NEW j \in 1..m, j - i >= MaxFailures
               PROVE  wrong'[j] - wrong'[i] >= Lockout
    BY <1>0, <1>2 DEF GuessesBounded
  <2>1. i = 1 /\ j = m /\ m = MaxFailures + 1
    BY <1>0, <1>1, <1>2
  <2>2. \A k, l \in 1..m : k <= l => wrong'[k] <= wrong'[l]
    BY <1>0, <1>2, <1>11 DEF HistoryInOrder
  <2>3. CASE failures' = 0
    <3>1. wrong'[2] >= wrong'[1] + Lockout
      BY <1>0, <1>3, <1>4, <1>12, <2>1, <2>3 DEF LockoutsPlaced, m
    <3> QED
      BY <1>0, <1>8, <2>1, <2>2, <3>1
  <2>4. CASE 0 < failures'
    <3>1. failures' < m /\ failures' \in Nat
      BY <1>0, <1>1, <1>3, <2>1
    <3>2. wrong'[m - failures' + 1] >= wrong'[m - failures'] + Lockout
      BY <1>0, <1>3, <1>4, <1>12, <2>4, <3>1 DEF LockoutsPlaced, m
    <3>3. m - failures' \in 1..m /\ m - failures' + 1 \in 1..m
      BY <1>0, <1>2, <2>4, <3>1
    <3> QED
      BY <1>0, <1>2, <1>8, <2>1, <2>2, <3>2, <3>3
  <2> QED
    BY <1>0, <1>1, <1>3, <2>3, <2>4
<1> QED
  BY <1>2, <1>6, <1>7, <1>9, <1>10, <1>11, <1>12, <1>13, TypeParts DEF IInv

\* Every step preserves the invariant.
LEMMA NextIInv == IInv /\ [Next]_vars => IInv'
<1> SUFFICES ASSUME IInv, [Next]_vars PROVE IInv'
  OBVIOUS
<1>1. CASE Login \/ Request("logout") \/ Request("other")
  BY <1>1, LoginIInv, RequestIInv
<1>2. CASE Handler
  BY <1>2, ReceiveBodyIInv, LoginFailsIInv, LoginSucceedsIInv, AuthorizeIInv,
     ReadActivityTimeIInv, ActivityIInv, RefuseIInv, ActIInv DEF Handler
<1>3. CASE MaintenanceTask
  BY <1>3, ReadTickTimeIInv, TickWindowIInv, StopRequestIInv, StopClearSessionIInv,
     StopServerIInv DEF MaintenanceTask
<1>4. CASE TimePasses
  BY <1>4, TimePassesIInv
<1>5. CASE UNCHANGED vars
  BY <1>5 DEF vars, IInv, TypeOK, PastTimes, HistoryInOrder, LoginWaited,
     LockoutsPlaced, GuessesBounded
<1> QED
  BY <1>1, <1>2, <1>3, <1>4, <1>5 DEF Next

-----------------------------------------------------------------------------
\* The invariant holds in every reachable state.
THEOREM AccessInvariant == Spec => []IInv
  BY InitIInv, NextIInv, PTL DEF Spec

\* Every variable keeps its type: the count of failures stays below its limit,
\* deadlines stay in range.
THEOREM AccessTypeCorrect == Spec => []TypeOK
  BY AccessInvariant, PTL DEF IInv

\* However logins, lockouts and time interleave, more than MaxFailures failed
\* logins take at least the lockout.
THEOREM GuessesAlwaysBounded == Spec => []GuessesBounded
  BY AccessInvariant, PTL DEF IInv

\* The window closes on no inactivity that has not happened, although the clock
\* is read before the lock is taken, by the request and by the tick.
THEOREM WindowAlwaysKeptOpen == Spec => WindowKeptOpen
<1> DEFINE Kept == window /\ ~window' => now - last >= Inactivity \/ now >= Absolute
<1>1. IInv /\ [Next]_vars => [Kept]_vars
  <2> SUFFICES ASSUME IInv, Next, window, ~window'
               PROVE  now - last >= Inactivity \/ now >= Absolute
    OBVIOUS
  <2>1. TickWindow
    BY DEF Next, Handler, MaintenanceTask, TimePasses, Login, Request, ReceiveBody,
       LoginFails, LoginSucceeds, Authorize, ReadActivityTime, Activity, Refuse, Act,
       ReadTickTime, StopRequest, StopClearSession, StopServer
  <2>2. DeadlinePassed(maintenance.at)
    BY <2>1 DEF TickWindow
  <2>3. /\ maintenance.at \in Int /\ maintenance.at <= now
        /\ now \in Int /\ last \in Int
    BY TypeParts DEF IInv, PastTimes, NumbersTyped, MaintenanceType, Time
  <2> QED
    BY <2>2, <2>3, AccessAssumption DEF DeadlinePassed, IdleFor
<1> QED
  BY <1>1, AccessInvariant, PTL DEF Spec, WindowKeptOpen

===============================================================================
