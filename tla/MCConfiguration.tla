--------------------------- MODULE MCConfiguration ---------------------------
(* Values for the constants of Configuration: the PV, the slot that command 2
   triggers on and the percent range, two lists of units. *)
EXTENDS Configuration

MCUnitSet == [d \in DevVars |-> IF d = 0 THEN {75, 80}
                                ELSE IF d = 244 THEN {57} ELSE {250}]

\* Bound: after a loss the next start is followed, and no further command.
LossBound == lost => pc \in {"down", "fill", "load"}
=============================================================================
