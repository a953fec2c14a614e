------------------------------- MODULE MCBoiler -------------------------------
(* Temperatures on every side of the limits: below the minimum (1), in the *)
(* hysteresis above it (2), normal (4) and too hot (5); limits one would   *)
(* configure, and a minimum above the maximum.                             *)
EXTENDS Boiler

MCLimits == {[max |-> 4, min |-> 2, target |-> 3], [max |-> 1, min |-> 3, target |-> 3]}
MCTemperatures == {1, 2, 4, 5}
MCOutputs == {0, 40}
MCDutyCycles == {50}

=============================================================================
