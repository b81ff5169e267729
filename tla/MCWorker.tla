------------------------------ MODULE MCWorker ------------------------------
(* Two rule sets and two contents of the alert tables; the alerts of `after' refer to a
   rule that only the second set has. *)
EXTENDS Worker

CONSTANTS old, new, before, after

KnownAlerts == [s \in {old, new} |-> IF s = old THEN {before} ELSE {before, after}]
=============================================================================
