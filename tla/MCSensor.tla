----------------------------- MODULE MCSensor -----------------------------
(* Sensor for TLC: it is finite once the polls of the status register are. *)
EXTENDS Sensor

=============================================================================
