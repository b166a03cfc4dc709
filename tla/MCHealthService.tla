-------------------------- MODULE MCHealthService --------------------------
(***************************************************************************)
(* HealthService for TLC: it is finite as it stands.                       *)
(***************************************************************************)
EXTENDS HealthService

\* A device without a machine to watch, the default of machine_status.c.
MCMachineResult == "unsupported"

\* Publications and the connection fail; and everything but the connection,
\* with a clock that is synchronized later or never.
MCScenario == {[clock |-> TRUE, faults |-> {"publish", "link"}],
               [clock |-> FALSE, faults |-> FaultKind \ {"link"}]}

=============================================================================
