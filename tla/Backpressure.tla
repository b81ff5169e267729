---------------------------- MODULE Backpressure ----------------------------
(***************************************************************************)
(* BackpressureController (backpressure.py): the bounded count of          *)
(* deliveries in flight and its saturation level.  The controller lives in *)
(* the memory of one worker process; it is a value here, and the module    *)
(* that owns one keeps it in a variable.                                   *)
(*                                                                         *)
(* The utilization thresholds are percentages, so that the comparison      *)
(* queued / capacity >= threshold is one of integers.                      *)
(***************************************************************************)
EXTENDS Integers

CONSTANTS
  Capacity,         \* slots of one controller
  WarningPct,       \* utilization from which the level is "warning"
  CriticalPct,      \* utilization from which the level is "critical"
  RecoveryWindow    \* samples below WarningPct that bring the level back

ASSUME BackpressureAssumption ==
  /\ Capacity \in Nat \ {0}
  /\ WarningPct \in 1 .. 99
  /\ CriticalPct \in 2 .. 100
  /\ WarningPct < CriticalPct
  /\ RecoveryWindow \in Nat \ {0}

Level == {"normal", "warning", "critical"}

\* The sample counter is compared with RecoveryWindow only, so it is kept at
\* or below it; in the code it grows without bound.
Controller == [queued : 0 .. Capacity, state : Level, stable : 0 .. RecoveryWindow]

FreshController == [queued |-> 0, state |-> "normal", stable |-> 0]

Reaches(queued, pct) == queued * 100 >= pct * Capacity

\* Mutant: a sample above a threshold does not restart the recovery window.
KeepsStableCount(b) ==
  IF Reaches(b.queued, CriticalPct) THEN [b EXCEPT !.state = "critical"]
  ELSE IF Reaches(b.queued, WarningPct) THEN [b EXCEPT !.state = "warning"]
  ELSE LET samples == IF b.stable < RecoveryWindow THEN b.stable + 1 ELSE b.stable
       IN [b EXCEPT !.stable = samples,
                    !.state = IF samples >= RecoveryWindow THEN "normal" ELSE @]

\* Every reserve, refused reserve and release is one sample of the utilization.
ApplyStateTransition(b) ==
  IF Reaches(b.queued, CriticalPct)
  THEN [b EXCEPT !.state = "critical", !.stable = 0]
  ELSE IF Reaches(b.queued, WarningPct)
  THEN [b EXCEPT !.state = "warning", !.stable = 0]
  ELSE LET samples == IF b.stable < RecoveryWindow THEN b.stable + 1 ELSE b.stable
       IN [b EXCEPT !.stable = samples,
                    !.state = IF samples >= RecoveryWindow THEN "normal" ELSE @]

\* Mutant: one slot too many.
HasSlotOffByOne(b) == b.queued <= Capacity

HasSlot(b) == b.queued < Capacity

Refused(b) == ApplyStateTransition(b)

Reserved(b) == ApplyStateTransition([b EXCEPT !.queued = @ + 1])

Released(b) == ApplyStateTransition([b EXCEPT !.queued = IF @ > 0 THEN @ - 1 ELSE @])

\* The level says what the utilization demands, and is raised below the warning
\* threshold only until RecoveryWindow samples were taken there.
Tracks(b) ==
  /\ Reaches(b.queued, CriticalPct) => b.state = "critical"
  /\ Reaches(b.queued, WarningPct) /\ ~Reaches(b.queued, CriticalPct)
       => b.state = "warning"
  /\ Reaches(b.queued, WarningPct) => b.stable = 0
  /\ ~Reaches(b.queued, WarningPct) /\ b.state # "normal"
       => b.stable < RecoveryWindow

=============================================================================
