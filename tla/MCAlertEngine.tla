--------------------------- MODULE MCAlertEngine ---------------------------
(* Instances of AlertEngine for TLC.                                       *)
EXTENDS AlertEngine, TLC

High(t, h, d) == [metric |-> "temperature", operator |-> "greater_than",
                  threshold |-> t, hysteresis |-> h, duration |-> d, enabled |-> TRUE]
Low(t, h, d) == [High(t, h, d) EXCEPT !.operator = "less_than"]

\* With values 0..3: two violating values, a dead band and a recovery, in
\* both directions.
MCDefinition == {High(1, 1, 0), High(1, 1, 1), Low(2, 1, 1)}

MCPatch == {[enabled |-> FALSE], [enabled |-> TRUE],
            [threshold |-> 1], [threshold |-> 2],
            [operator |-> "greater_than", duration |-> 2]}

\* Two rules: a violating value, a dead band and a recovery; a PATCH turns one
\* into a rule with two violating values.
MCDefinitionTwo == {High(1, 1, 1)}

MCPatchTwo == {[enabled |-> FALSE], [enabled |-> TRUE],
               [operator |-> "less_than", threshold |-> 2, duration |-> 0]}

ClientSymmetry == Permutations(Client)

=============================================================================
