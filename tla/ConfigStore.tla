---------------------------- MODULE ConfigStore -----------------------------
(***************************************************************************)
(* What the configuration storage promises, without flash commits, boot    *)
(* counters or tasks: one active configuration, at most one pending one,   *)
(* and a pending configuration that becomes active only in one step and    *)
(* only after it was verified.  docs/device-provisioning.md, "NVS model    *)
(* and candidate activation", is the promise; DeviceConfig implements it.  *)
(***************************************************************************)
CONSTANTS Config, None

VARIABLES active, pending, verified

vars == <<active, pending, verified>>

Init == active = None /\ pending = None /\ verified = {}

\* A candidate is saved, replacing any earlier one.
Stage(c) == pending' = c /\ UNCHANGED <<active, verified>>

\* The candidate is cancelled, rolled back or found unusable, or what is
\* left of it after it became active is removed.
Discard == pending' = None /\ UNCHANGED <<active, verified>>

\* A configuration passed every check.
Verify(c) == verified' = verified \cup {c} /\ UNCHANGED <<active, pending>>

\* The verified candidate becomes the active configuration.  Its removal
\* may be delayed: the candidate is then still there and may be retried.
Promote ==
    /\ pending # None
    /\ pending \in verified
    /\ active' = pending
    /\ pending' \in {pending, None}
    /\ UNCHANGED verified

\* A factory reset or serial recovery, possibly interrupted.
Erase ==
    /\ active' \in {active, None}
    /\ pending' \in {pending, None}
    /\ UNCHANGED verified

Next ==
    \/ \E c \in Config : Stage(c) \/ Verify(c)
    \/ Discard \/ Promote \/ Erase

Spec == Init /\ [][Next]_vars
=============================================================================
