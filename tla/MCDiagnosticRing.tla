-------------------------- MODULE MCDiagnosticRing -------------------------
(* Instance of DiagnosticRing for TLC: a ring of Capacity records that     *)
(* wraps several times before MaxSequence.                                 *)
EXTENDS DiagnosticRing

=============================================================================
