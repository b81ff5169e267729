-------------------------- MODULE RuleRuntimeProofs --------------------------
(***************************************************************************)
(* Theorems about RuleRuntime, for any number of workers, any tables of    *)
(* bindings, any bucket, margin and windows.                               *)
(***************************************************************************)
EXTENDS RuleRuntime, Induction, FiniteSetTheorems, TLAPS

\* What a worker stands at is one of its bindings, and an entry of suppress_if it clears
\* or opens is one that its rule has.
Standing(w) ==
  /\ ~At(w, "idle") => eval[w].todo \subseteq DOMAIN Catalog[loaded[w]]
  /\ eval[w].stage \notin {"idle", "candidate"} => Candidate(w) \in DOMAIN Catalog[loaded[w]]
  /\ eval[w].stage \in {"clear", "open"} => eval[w].idx \in DOMAIN Suppressions(w)

TypeInv ==
  /\ TypeOK /\ IsFiniteSet(decisions)
  /\ \A w \in Worker : Standing(w)

\* The steps of an evaluation that write nothing.
Quiet(w) ==
  \/ Finish(w)
  \/ \E a \in Alert : SkipCandidate(w, a) \/ Evaluate(w, a)
                      \/ LoadForArm(w, a) \/ CheckCrossing(w, a) \/ FailCrossing(w, a)
  \/ CheckWindow(w) \/ PassWindows(w) \/ SkipReserved(w) \/ LoadForFire(w)

\* How a step of w changes what w stands at: it is done with the event, it goes on to
\* look for a candidate, it takes one, or it goes on with the one it has.
Goes(w, r) ==
  \/ r = Idle
  \/ /\ r.stage = "candidate" /\ ~At(w, "idle")
     /\ r.event = eval[w].event /\ r.todo \subseteq eval[w].todo
     /\ r.idx = 1 \/ (At(w, "candidate") /\ r.idx = eval[w].idx)
     /\ r.since = eval[w].since
  \/ /\ r.stage \in {"arm", "window"} /\ At(w, "candidate")
     /\ r.event = eval[w].event /\ r.todo \subseteq eval[w].todo
     /\ r.alert \in eval[w].todo /\ Fits(w, r.alert) /\ r.idx = eval[w].idx
     /\ r.since = eval[w].since
  \/ /\ r.stage \notin {"idle", "candidate"} /\ eval[w].stage \notin {"idle", "candidate"}
     /\ r.event = eval[w].event /\ r.todo = eval[w].todo /\ r.alert = Candidate(w)
     /\ r.since = eval[w].since
     /\ r.stage \in {"clear", "open"} => r.idx \in DOMAIN Suppressions(w)
     /\ r.stage = "fire" => Reserve(w) /\ r.reservedAt = clock
     /\ r.stage = "mark" => At(w, "fire") /\ r.reservedAt = eval[w].reservedAt

Moves(w) == \E r \in Evaluation : Goes(w, r) /\ eval' = [eval EXCEPT ![w] = r]

-----------------------------------------------------------------------------
(* Bindings and tables. *)

LEMMA BindingIs ==
  ASSUME NEW i \in Versions, NEW a \in DOMAIN Catalog[i]
  PROVE  a \in Alert /\ WellFormed(Catalog[i][a])
  BY RuleAssumption

LEMMA CandidatesAreBound ==
  ASSUME NEW i \in Versions, NEW c \in Content
  PROVE  Candidates[i][c] \subseteq DOMAIN Catalog[i]
  BY DEF Candidates, Lookup

LEMMA EntriesHold ==
  ASSUME NEW i \in Versions, NEW a \in DOMAIN Catalog[i],
         NEW k \in DOMAIN Catalog[i][a].rule.suppressIf
  PROVE  k \in Entries
  BY DEF Entries

LEMMA IdleIs ==
  /\ Idle \in Evaluation
  /\ Idle.stage = "idle" /\ Idle.todo = {} /\ Idle.idx = 1 /\ Idle.since = 0
<1>1. (CHOOSE m \in Market : TRUE) \in Market /\ (CHOOSE c \in Content : TRUE) \in Content
      /\ (CHOOSE a \in Alert : TRUE) \in Alert
  BY RuleAssumption
<1>2. NoWatch \in Watch
  BY DEF NoWatch, Watch
<1> QED
  BY <1>1, <1>2 DEF Idle, Evaluation, Event, Stage

LEMMA EvalIs ==
  ASSUME TypeOK, NEW w \in Worker
  PROVE  /\ eval[w] \in Evaluation /\ eval[w].stage \in Stage
         /\ eval[w].event \in Event /\ eval[w].event.market \in Market
         /\ eval[w].event.content \in Content /\ eval[w].event.ts \in Nat
         /\ eval[w].todo \subseteq Alert /\ eval[w].alert \in Alert
         /\ eval[w].idx \in Nat \ {0} /\ eval[w].seen \in Watch /\ eval[w].reservedAt \in Nat
         /\ eval[w].since \in Nat /\ eval[w].saw \in Nat
         /\ loaded[w] \in Versions
  BY DEF TypeOK, Evaluation, Event

-----------------------------------------------------------------------------
(* How a worker moves. *)

LEMMA NextCandidateMoves ==
  ASSUME TypeOK, NEW w \in Worker, ~At(w, "idle"), NextCandidate(w)
  PROVE  Moves(w)
<1> DEFINE r == [Idle EXCEPT !.stage = "candidate", !.event = eval[w].event,
                             !.todo = eval[w].todo, !.since = eval[w].since]
<1>1. r \in Evaluation /\ r.stage = "candidate" /\ r.event = eval[w].event
      /\ r.todo = eval[w].todo /\ r.idx = 1 /\ r.since = eval[w].since
  BY EvalIs, IdleIs DEF Evaluation, Stage
<1>2. eval' = [eval EXCEPT ![w] = r]
  BY DEF NextCandidate
<1> HIDE DEF r
<1>3. Goes(w, r)
  BY <1>1 DEF Goes
<1> QED
  BY <1>1, <1>2, <1>3 DEF Moves

LEMMA DropsMoves ==
  ASSUME TypeOK, NEW w \in Worker, NEW a, At(w, "candidate"), Drops(w, a)
  PROVE  Moves(w)
<1> DEFINE r == [eval[w] EXCEPT !.todo = @ \ {a}]
<1>1. r \in Evaluation /\ r.stage = "candidate" /\ r.event = eval[w].event
      /\ r.todo \subseteq eval[w].todo /\ r.idx = eval[w].idx /\ r.since = eval[w].since
  BY EvalIs DEF Evaluation, At
<1>2. eval' = [eval EXCEPT ![w] = r]
  BY DEF Drops
<1> HIDE DEF r
<1>3. Goes(w, r)
  BY <1>1 DEF Goes, At
<1> QED
  BY <1>1, <1>2, <1>3 DEF Moves

LEMMA TakesMoves ==
  ASSUME TypeOK, NEW w \in Worker, NEW a, NEW to \in {"arm", "window"},
         IsNext(w, a), Fits(w, a), Takes(w, a, to)
  PROVE  Moves(w)
<1> DEFINE r == [eval[w] EXCEPT !.todo = @ \ {a}, !.alert = a, !.stage = to]
<1>1. a \in eval[w].todo /\ At(w, "candidate")
  BY DEF IsNext
<1>2. r \in Evaluation /\ r.stage = to /\ r.event = eval[w].event
      /\ r.todo \subseteq eval[w].todo /\ r.alert = a /\ r.idx = eval[w].idx
      /\ r.since = eval[w].since
  BY <1>1, EvalIs DEF Evaluation, Stage
<1>3. eval' = [eval EXCEPT ![w] = r]
  BY DEF Takes
<1> HIDE DEF r
<1>4. Goes(w, r)
  BY <1>1, <1>2 DEF Goes
<1> QED
  BY <1>2, <1>3, <1>4 DEF Moves

\* Going on with the candidate.
LEMMA StaysMoves ==
  ASSUME TypeOK, NEW w \in Worker, eval[w].stage \notin {"idle", "candidate"},
         NEW to \in Stage \ {"idle", "candidate"}, NEW k \in Nat \ {0}, NEW s \in Watch,
         NEW n \in Nat, NEW saw \in Nat,
         eval' = [eval EXCEPT ![w] = [eval[w] EXCEPT !.stage = to, !.idx = k, !.seen = s,
                                                     !.reservedAt = n, !.saw = saw]],
         to \in {"clear", "open"} => k \in DOMAIN Suppressions(w),
         to = "fire" => Reserve(w) /\ n = clock,
         to = "mark" => At(w, "fire") /\ n = eval[w].reservedAt
  PROVE  Moves(w)
<1> DEFINE r == [eval[w] EXCEPT !.stage = to, !.idx = k, !.seen = s, !.reservedAt = n,
                                !.saw = saw]
<1>1. r \in Evaluation /\ r.stage = to /\ r.event = eval[w].event
      /\ r.todo = eval[w].todo /\ r.alert = eval[w].alert /\ r.idx = k /\ r.reservedAt = n
      /\ r.since = eval[w].since
  BY EvalIs DEF Evaluation
<1>2. eval' = [eval EXCEPT ![w] = r]
  OBVIOUS
<1> HIDE DEF r
<1>3. Goes(w, r)
  BY <1>1 DEF Goes, Candidate
<1> QED
  BY <1>1, <1>2, <1>3 DEF Moves

LEMMA GotoMoves ==
  ASSUME TypeOK, NEW w \in Worker, eval[w].stage \notin {"idle", "candidate"},
         NEW to \in {"clear", "open", "reserve"}, Goto(w, to),
         to \in {"clear", "open"} => eval[w].idx \in DOMAIN Suppressions(w)
  PROVE  Moves(w)
<1>1. eval' = [eval EXCEPT ![w] = [eval[w] EXCEPT !.stage = to, !.idx = eval[w].idx,
                                     !.seen = eval[w].seen, !.reservedAt = eval[w].reservedAt,
                                     !.saw = eval[w].saw]]
  BY EvalIs DEF Goto, Evaluation
<1>2. to \in Stage \ {"idle", "candidate"}
  BY DEF Stage
<1> QED
  BY <1>1, <1>2, EvalIs, StaysMoves

LEMMA PastWindowMoves ==
  ASSUME TypeOK, NEW w \in Worker, eval[w].stage \notin {"idle", "candidate"},
         eval[w].idx \in DOMAIN Suppressions(w), PastWindow(w)
  PROVE  Moves(w)
<1>1. CASE Opens(w)
  BY <1>1, GotoMoves DEF PastWindow
<1>2. CASE ~Opens(w)
  <2>1. eval' = [eval EXCEPT ![w] = [eval[w] EXCEPT !.stage = "window", !.idx = eval[w].idx + 1,
                                     !.seen = eval[w].seen, !.reservedAt = eval[w].reservedAt,
                                     !.saw = eval[w].saw]]
    BY <1>2, EvalIs DEF PastWindow, Evaluation
  <2>2. "window" \in Stage \ {"idle", "candidate"} /\ eval[w].idx + 1 \in Nat \ {0}
    BY EvalIs DEF Stage
  <2> QED
    BY <2>1, <2>2, EvalIs, StaysMoves
<1> QED
  BY <1>1, <1>2

LEMMA StepMoves ==
  ASSUME TypeInv, NEW w \in Worker, Step(w)
  PROVE  Moves(w)
<1> TypeOK /\ Standing(w) /\ loaded[w] \in Versions
  BY EvalIs DEF TypeInv
<1>1. CASE Finish(w)
  BY <1>1, IdleIs DEF Finish, Moves, Goes
<1>2. ASSUME NEW a \in Alert, SkipCandidate(w, a)
      PROVE  Moves(w)
  BY <1>2, DropsMoves DEF SkipCandidate, IsNext
<1>3. ASSUME NEW a \in Alert, Evaluate(w, a)
      PROVE  Moves(w)
  BY <1>3, TakesMoves DEF Evaluate
<1>4. ASSUME NEW a \in Alert, LoadForArm(w, a)
      PROVE  Moves(w)
  <2>1. IsNext(w, a) /\ Fits(w, a) /\ (Drops(w, a) \/ Takes(w, a, "arm"))
    BY <1>4 DEF LoadForArm
  <2> QED
    BY <2>1, DropsMoves, TakesMoves DEF IsNext
<1>5. ASSUME NEW a \in Alert, CheckCrossing(w, a)
      PROVE  Moves(w)
  <2>1. IsNext(w, a) /\ Fits(w, a) /\ (Drops(w, a) \/ Takes(w, a, "window"))
    BY <1>5 DEF CheckCrossing
  <2> QED
    BY <2>1, DropsMoves, TakesMoves DEF IsNext
<1>51. ASSUME NEW a \in Alert, FailCrossing(w, a)
       PROVE  Moves(w)
  BY <1>51, IdleIs DEF FailCrossing, Moves, Goes
<1>6. CASE SaveArm(w) \/ OpenWindow(w) \/ SkipReserved(w) \/ SaveFired(w)
  <2>1. ~At(w, "idle") /\ NextCandidate(w)
    BY <1>6 DEF SaveArm, OpenWindow, SkipReserved, SaveFired, At
  <2> QED
    BY <2>1, NextCandidateMoves
<1>7. CASE CheckWindow(w)
  <2>1. eval[w].stage = "window" /\ eval[w].idx <= Len(Suppressions(w))
    BY <1>7 DEF CheckWindow, At, HasWindow
  <2>2. eval[w].idx \in DOMAIN Suppressions(w)
    <3>1. Candidate(w) \in DOMAIN Catalog[loaded[w]]
      BY <2>1 DEF Standing
    <3>2. /\ Len(Suppressions(w)) \in Nat
          /\ DOMAIN Suppressions(w) = 1 .. Len(Suppressions(w))
      BY <3>1, BindingIs DEF WellFormed, Suppressions, Binding, Bound
    <3> QED
      BY <2>1, <3>2, EvalIs
  <2>3. PastWindow(w) \/ NextCandidate(w) \/ Goto(w, "clear")
    BY <1>7 DEF CheckWindow
  <2> QED
    BY <2>1, <2>2, <2>3, PastWindowMoves, NextCandidateMoves, GotoMoves DEF At
<1>8. CASE ClearWindow(w)
  <2>1. eval[w].stage = "clear" /\ PastWindow(w)
    BY <1>8 DEF ClearWindow, At
  <2>2. eval[w].idx \in DOMAIN Suppressions(w)
    BY <2>1 DEF Standing
  <2> QED
    BY <2>1, <2>2, PastWindowMoves
<1>9. CASE PassWindows(w)
  BY <1>9, GotoMoves DEF PassWindows, Goto, At
<1>10. CASE Reserve(w)
  <2>1. CASE IsOneShot(Binding(w))
    <3>1. eval[w].stage = "reserve" /\ clock \in Nat
      BY <1>10, RuleAssumption DEF Reserve, At, TypeOK
    <3>2. eval' = [eval EXCEPT ![w] = [eval[w] EXCEPT !.stage = "fire", !.idx = eval[w].idx,
                                         !.seen = eval[w].seen, !.reservedAt = clock,
                                         !.saw = eval[w].saw]]
      BY <1>10, <2>1, EvalIs DEF Reserve, Evaluation
    <3>3. "fire" \in Stage \ {"idle", "candidate"}
      BY DEF Stage
    <3> QED
      BY <1>10, <3>1, <3>2, <3>3, EvalIs, StaysMoves
  <2>2. CASE ~IsOneShot(Binding(w))
    <3>1. ~At(w, "idle") /\ NextCandidate(w)
      BY <1>10, <2>2 DEF Reserve, At
    <3> QED
      BY <3>1, NextCandidateMoves
  <2> QED
    BY <2>1, <2>2
<1>11. CASE LoadForFire(w)
  <2>1. eval[w].stage = "fire"
    BY <1>11 DEF LoadForFire, At
  <2>2. CASE NextCandidate(w)
    BY <2>1, <2>2, NextCandidateMoves DEF At
  <2>3. CASE ~NextCandidate(w)
    <3> DEFINE s == watch[Place(w)]
               made == Cardinality(decisions)
               r == [eval[w] EXCEPT !.stage = "mark", !.seen = s, !.saw = made]
    <3>1. eval' = [eval EXCEPT ![w] = r]
      BY <1>11, <2>3, EvalIs DEF LoadForFire, Evaluation
    <3>2. "mark" \in Stage /\ s \in Watch /\ made \in Nat
      BY EvalIs, FS_CardinalityType DEF Stage, TypeInv, TypeOK, Place, Candidate
    <3> HIDE DEF s, made
    <3>3. /\ r \in Evaluation /\ r.stage = "mark" /\ r.event = eval[w].event
          /\ r.todo = eval[w].todo /\ r.alert = Candidate(w) /\ r.since = eval[w].since
          /\ r.reservedAt = eval[w].reservedAt
      BY <3>2, EvalIs DEF Evaluation, Candidate
    <3> HIDE DEF r
    <3>4. Goes(w, r)
      BY <2>1, <3>3 DEF Goes, At
    <3> QED
      BY <3>1, <3>3, <3>4 DEF Moves
  <2> QED
    BY <2>2, <2>3
<1> QED
  BY <1>1, <1>2, <1>3, <1>4, <1>5, <1>51, <1>6, <1>7, <1>8, <1>9, <1>10, <1>11 DEF Step

-----------------------------------------------------------------------------
(* Types. *)

LEMMA StandingHolds ==
  ASSUME TypeInv, NEW w \in Worker, Moves(w), UNCHANGED loaded
  PROVE  /\ eval' \in [Worker -> Evaluation]
         /\ \A v \in Worker : Standing(v)'
<1>1. PICK r \in Evaluation : Goes(w, r) /\ eval' = [eval EXCEPT ![w] = r]
  BY DEF Moves
<1>2. eval \in [Worker -> Evaluation] /\ \A v \in Worker : Standing(v)
  BY DEF TypeInv, TypeOK
<1>3. eval' \in [Worker -> Evaluation] /\ eval'[w] = r
      /\ \A v \in Worker : v # w => eval'[v] = eval[v]
  BY <1>1, <1>2
<1>4. ASSUME NEW v \in Worker, v # w
      PROVE  Standing(v)'
  BY <1>2, <1>3, <1>4 DEF Standing, At, Candidate, Suppressions, Binding, Bound
<1>5. Standing(w)'
  <2>1. CASE r = Idle
    BY <1>3, <2>1, IdleIs DEF Standing, At
  <2>2. CASE r.stage = "candidate" /\ ~At(w, "idle") /\ r.todo \subseteq eval[w].todo
    BY <1>2, <1>3, <2>2 DEF Standing, At
  <2>3. CASE /\ r.stage \in {"arm", "window"} /\ At(w, "candidate")
             /\ r.todo \subseteq eval[w].todo /\ r.alert \in eval[w].todo
    BY <1>2, <1>3, <2>3 DEF Standing, At, Candidate
  <2>4. CASE /\ r.stage \notin {"idle", "candidate"}
             /\ eval[w].stage \notin {"idle", "candidate"}
             /\ r.todo = eval[w].todo /\ r.alert = Candidate(w)
             /\ r.stage \in {"clear", "open"} => r.idx \in DOMAIN Suppressions(w)
    BY <1>2, <1>3, <2>4 DEF Standing, At, Candidate, Suppressions, Binding, Bound
  <2> QED
    BY <1>1, <2>1, <2>2, <2>3, <2>4 DEF Goes
<1> QED
  BY <1>3, <1>4, <1>5

LEMMA StepKeeps ==
  ASSUME NEW w, Step(w)
  PROVE  UNCHANGED <<clock, loaded, received, reloads, crashes>>
  BY DEF Step, Finish, SkipCandidate, Evaluate, LoadForArm, CheckCrossing, FailCrossing, SaveArm,
         CheckWindow, ClearWindow, OpenWindow, PassWindows, SkipReserved, Reserve,
         LoadForFire, SaveFired

LEMMA StepCases ==
  ASSUME NEW w, Step(w)
  PROVE  \/ Quiet(w) \/ SaveArm(w) \/ ClearWindow(w) \/ OpenWindow(w) \/ Reserve(w)
         \/ SaveFired(w)
  BY DEF Step, Quiet

LEMMA QuietWritesNothing ==
  ASSUME NEW w, Quiet(w)
  PROVE  UNCHANGED <<keys, history>>
  BY DEF Quiet, Finish, SkipCandidate, Evaluate, LoadForArm, CheckCrossing, FailCrossing, CheckWindow,
         PassWindows, SkipReserved, LoadForFire

LEMMA KeyExpiriesAre ==
  ASSUME clock \in Nat, NEW at \in Nat, NEW ex \in KeyExpiries(at)
  PROVE  ex \in Nat
  BY DEF KeyExpiries, Later

LEMMA BucketIs ==
  ASSUME NEW n \in Nat
  PROVE  n \div Bucket \in Nat
<1>1. Bucket \in Nat \ {0}
  BY RuleAssumption
<1> QED
  BY <1>1, SMT

\* What is at hand when a worker stands at a candidate.
LEMMA AtCandidate ==
  ASSUME TypeInv, NEW w \in Worker, eval[w].stage \notin {"idle", "candidate"}
  PROVE  /\ Candidate(w) \in DOMAIN Catalog[loaded[w]] /\ WellFormed(Binding(w))
         /\ Place(w) \in Alert \X Market /\ Time(w) \in Nat
         /\ Trigger(w) \in TriggerKey
<1>1. Candidate(w) \in DOMAIN Catalog[loaded[w]]
  BY DEF TypeInv, Standing
<1>2. WellFormed(Binding(w))
  BY <1>1, BindingIs, EvalIs DEF TypeInv, Binding, Bound
<1>3. Place(w) \in Alert \X Market /\ Time(w) \in Nat
  BY EvalIs DEF TypeInv, Place, Candidate, Time
<1>4. /\ Binding(w).rule.id \in Rule /\ Binding(w).rule.version \in Nat
      /\ eval[w].event.market \in Market /\ eval[w].event.ts \div Bucket \in Nat
  BY <1>2, EvalIs, BucketIs DEF TypeInv, WellFormed
<1>5. Trigger(w) \in TriggerKey
  BY <1>4 DEF Trigger, TriggerOf, TriggerKey
<1> QED
  BY <1>1, <1>2, <1>3, <1>5

Decision == [n : Nat, place : Alert \X Market, trigger : TriggerKey, arming : Nat,
             reservedAt : Nat, saw : Nat]

LEMMA DecideIs ==
  ASSUME TypeInv, NEW w \in Worker, eval[w].stage \notin {"idle", "candidate"},
         NEW arming \in Nat, NEW n \in Nat, NEW saw \in Nat, Decide(w, arming, n, saw)
  PROVE  decisions' \subseteq Decision /\ IsFiniteSet(decisions')
<1> DEFINE d == [n |-> Cardinality(decisions) + 1, place |-> Place(w), trigger |-> Trigger(w),
                 arming |-> arming, reservedAt |-> n, saw |-> saw]
<1>1. IsFiniteSet(decisions) /\ decisions \subseteq Decision
  BY DEF TypeInv, TypeOK, Decision
<1>2. Cardinality(decisions) \in Nat
  BY <1>1, FS_CardinalityType
<1>3. d \in Decision
  BY <1>2, AtCandidate DEF Decision
<1>4. decisions' = decisions \cup {d}
  BY DEF Decide
<1> HIDE DEF d
<1>5. IsFiniteSet(decisions')
  BY <1>1, <1>4, FS_AddElement
<1> QED
  BY <1>1, <1>3, <1>4, <1>5

\* A window that was opened.
Opened == [key : Alert \X Market \X Entries, until : Nat, fate : Fate]

\* The variables that the steps of an evaluation write, each with its type.
StoresOK ==
  /\ dedup \subseteq [key : TriggerKey, expiry : Nat]
  /\ window \in [Alert \X Market \X Entries -> Window]
  /\ watch \in [Alert \X Market -> Watch]
  /\ armings \in Nat
  /\ windows \in Seq(Opened)
  /\ decisions \subseteq Decision /\ IsFiniteSet(decisions)

LEMMA StoresFollow == TypeInv => StoresOK
  BY DEF TypeInv, TypeOK, StoresOK, Decision, Opened

LEMMA StoresSaveArm ==
  ASSUME TypeInv, NEW w \in Worker, SaveArm(w)
  PROVE  StoresOK'
<1>1. StoresOK /\ clock \in Nat
  BY StoresFollow, RuleAssumption DEF TypeInv, TypeOK
<1>2. eval[w].stage \notin {"idle", "candidate"}
  BY DEF SaveArm, At
<1> DEFINE until == Time(w) + WatchTTL(Binding(w))
<1>3. until \in Nat /\ Target(Binding(w)) \subseteq Int
  <2>1. Binding(w).rule.ttl \in Nat /\ Binding(w).filters.ttl \subseteq Nat
        /\ Target(Binding(w)) \subseteq Int
    BY <1>2, AtCandidate DEF WellFormed
  <2>2. WatchTTL(Binding(w)) \in Nat
    BY <2>1 DEF WatchTTL
  <2> QED
    BY <1>2, <2>1, <2>2, AtCandidate
<1> HIDE DEF until
<1>4. PICK ex \in KeyExpiries(until), target \in Target(Binding(w)) :
        watch' = [watch EXCEPT ![Place(w)] =
                    [arming |-> armings + 1, target |-> target, expiresAt |-> until,
                     fired |-> FALSE, expiry |-> ex]]
  BY DEF SaveArm, until
<1>5. ex \in Nat
  BY <1>1, <1>3, KeyExpiriesAre
<1>6. [arming |-> armings + 1, target |-> target, expiresAt |-> until, fired |-> FALSE,
       expiry |-> ex] \in Watch
  BY <1>1, <1>3, <1>5 DEF StoresOK, Watch
<1>7. watch' \in [Alert \X Market -> Watch]
  BY <1>1, <1>4, <1>6 DEF StoresOK
<1>8. armings' \in Nat /\ UNCHANGED <<dedup, window, windows, decisions>>
  BY <1>1 DEF SaveArm, StoresOK
<1> QED
  BY <1>1, <1>7, <1>8 DEF StoresOK

LEMMA WindowKeyIs ==
  ASSUME TypeInv, NEW w \in Worker, eval[w].stage \in {"clear", "open"}
  PROVE  /\ eval[w].idx \in DOMAIN Suppressions(w)
         /\ WindowKey(w) \in Alert \X Market \X Entries
<1>1. /\ eval[w].idx \in DOMAIN Suppressions(w)
      /\ Candidate(w) \in DOMAIN Catalog[loaded[w]]
  BY DEF TypeInv, Standing
<1>2. eval[w].idx \in Entries
  BY <1>1, EntriesHold, EvalIs DEF TypeInv, Suppressions, Binding, Bound
<1> QED
  BY <1>1, <1>2, EvalIs DEF TypeInv, WindowKey, Candidate

\* Cutting windows short changes nothing but their fates.
LEMMA CutShortIs ==
  ASSUME TypeInv, NEW w, NEW until
  PROVE  /\ CutShort(w, until) \in Seq(Opened)
         /\ Len(CutShort(w, until)) = Len(windows)
         /\ DOMAIN CutShort(w, until) = DOMAIN windows
         /\ \A n \in DOMAIN windows :
              /\ CutShort(w, until)[n].key = windows[n].key
              /\ CutShort(w, until)[n].until = windows[n].until
              /\ windows[n].fate # "kept" => CutShort(w, until)[n].fate # "kept"
              /\ /\ windows[n].key = WindowKey(w)
                 /\ until < windows[n].until /\ clock < windows[n].until - 1
                 => CutShort(w, until)[n].fate # "kept"
<1> DEFINE cut == CutShort(w, until)
<1>1. windows \in Seq(Opened) /\ Len(windows) \in Nat /\ DOMAIN windows = 1 .. Len(windows)
  BY StoresFollow DEF StoresOK
<1>2. DOMAIN cut = 1 .. Len(windows)
  BY <1>1 DEF CutShort
<1>3. ASSUME NEW n \in DOMAIN windows
      PROVE  /\ cut[n] \in Opened
             /\ cut[n].key = windows[n].key /\ cut[n].until = windows[n].until
             /\ windows[n].fate # "kept" => cut[n].fate # "kept"
             /\ /\ windows[n].key = WindowKey(w)
                /\ until < windows[n].until /\ clock < windows[n].until - 1
                => cut[n].fate # "kept"
  <2>1. windows[n] \in Opened
    BY <1>1
  <2>2. \/ cut[n] = windows[n]
           /\ ~ (/\ windows[n].key = WindowKey(w) /\ windows[n].fate = "kept"
                 /\ until < windows[n].until /\ clock < windows[n].until - 1)
        \/ cut[n] = [windows[n] EXCEPT !.fate = "raced"]
        \/ cut[n] = [windows[n] EXCEPT !.fate = "overtaken"]
    BY DEF CutShort
  <2> HIDE DEF cut
  <2> QED
    BY <2>1, <2>2 DEF Opened, Fate
<1> HIDE DEF cut
<1>4. cut \in [1 .. Len(windows) -> Opened] \/ cut \in Seq(Opened)
  <2>1. cut = [n \in 1 .. Len(windows) |-> cut[n]]
    BY <1>1 DEF CutShort, cut
  <2> QED
    BY <1>1, <1>3, <2>1
<1>5. cut \in Seq(Opened) /\ Len(cut) = Len(windows)
  BY <1>1, <1>2, <1>4
<1> QED
  BY <1>1, <1>2, <1>3, <1>5 DEF cut

LEMMA StoresWindow ==
  ASSUME TypeInv, NEW w \in Worker, ClearWindow(w) \/ OpenWindow(w)
  PROVE  StoresOK'
<1>1. StoresOK /\ clock \in Nat
  BY StoresFollow, RuleAssumption DEF TypeInv, TypeOK
<1>2. eval[w].stage \in {"clear", "open"}
  BY DEF ClearWindow, OpenWindow, At
<1>3. UNCHANGED <<dedup, watch, armings, decisions>>
  BY DEF ClearWindow, OpenWindow
<1>4. CASE ClearWindow(w)
  <2>1. window' = [window EXCEPT ![WindowKey(w)] = NoWindow] /\ windows' = CutShort(w, 0)
    BY <1>4 DEF ClearWindow
  <2>2. NoWindow \in Window
    BY DEF NoWindow, Window
  <2>3. window' \in [Alert \X Market \X Entries -> Window]
    BY <1>1, <2>1, <2>2 DEF StoresOK
  <2>4. windows' \in Seq(Opened)
    BY <2>1, CutShortIs
  <2> QED
    BY <1>1, <1>3, <2>3, <2>4 DEF StoresOK
<1>5. CASE OpenWindow(w)
  <2> DEFINE until == Time(w) + Suppressions(w)[eval[w].idx].seconds
  <2>1. until \in Nat
    <3>1. Suppressions(w)[eval[w].idx].seconds \in Nat
      BY <1>2, WindowKeyIs, AtCandidate DEF WellFormed, Suppressions
    <3> QED
      BY <1>2, <3>1, AtCandidate
  <2>2. PICK ex \in KeyExpiries(until) :
          window' = [window EXCEPT ![WindowKey(w)] = [until |-> until, expiry |-> ex]]
    BY <1>5 DEF OpenWindow
  <2>3. windows' = Append(CutShort(w, until),
                          [key |-> WindowKey(w), until |-> until, fate |-> "kept"])
    BY <1>5 DEF OpenWindow
  <2> HIDE DEF until
  <2>4. ex \in Nat
    BY <1>1, <2>1, <2>2, KeyExpiriesAre
  <2>5. [until |-> until, expiry |-> ex] \in Window
    BY <2>1, <2>4 DEF Window
  <2>6. window' \in [Alert \X Market \X Entries -> Window]
    BY <1>1, <2>2, <2>5 DEF StoresOK
  <2>7. WindowKey(w) \in Alert \X Market \X Entries
    BY <1>2, WindowKeyIs
  <2>8. windows' \in Seq(Opened)
    <3>1. [key |-> WindowKey(w), until |-> until, fate |-> "kept"] \in Opened
      BY <2>1, <2>7 DEF Opened, Fate
    <3>2. CutShort(w, until) \in Seq(Opened)
      BY CutShortIs
    <3> QED
      BY <2>3, <3>1, <3>2
  <2> QED
    BY <1>1, <1>3, <2>6, <2>8 DEF StoresOK
<1> QED
  BY <1>4, <1>5

LEMMA StoresReserve ==
  ASSUME TypeInv, NEW w \in Worker, Reserve(w)
  PROVE  StoresOK'
<1>1. StoresOK /\ clock \in Nat /\ clock + DedupTTL \in Nat
  BY StoresFollow, RuleAssumption DEF TypeInv, TypeOK, DedupTTL
<1>2. eval[w].stage \notin {"idle", "candidate"}
  BY DEF Reserve, At
<1>3. dedup' = {r \in dedup : r.key # Trigger(w)} \cup
                 {[key |-> Trigger(w), expiry |-> clock + DedupTTL]}
  BY DEF Reserve
<1>4. dedup' \subseteq [key : TriggerKey, expiry : Nat]
  BY <1>1, <1>2, <1>3, AtCandidate DEF StoresOK
<1>5. UNCHANGED decisions \/ Decide(w, 0, clock, 0)
  BY DEF Reserve
<1>6. decisions' \subseteq Decision /\ IsFiniteSet(decisions')
  BY <1>1, <1>2, <1>5, DecideIs DEF StoresOK
<1>7. UNCHANGED <<window, watch, armings, windows>>
  BY DEF Reserve
<1> QED
  BY <1>1, <1>4, <1>6, <1>7 DEF StoresOK

LEMMA StoresSaveFired ==
  ASSUME TypeInv, NEW w \in Worker, SaveFired(w)
  PROVE  StoresOK'
<1>1. StoresOK /\ clock \in Nat
  BY StoresFollow, RuleAssumption DEF TypeInv, TypeOK
<1>2. eval[w].stage \notin {"idle", "candidate"}
  BY DEF SaveFired, At
<1>3. /\ eval[w].seen \in Watch /\ eval[w].seen.expiresAt \in Nat
      /\ eval[w].seen.arming \in Nat /\ eval[w].reservedAt \in Nat /\ eval[w].saw \in Nat
  BY EvalIs DEF TypeInv, Watch
<1>4. PICK ex \in KeyExpiries(eval[w].seen.expiresAt) :
        watch' = [watch EXCEPT ![Place(w)] = [eval[w].seen EXCEPT !.fired = TRUE,
                                                                  !.expiry = ex]]
  BY DEF SaveFired
<1>5. ex \in Nat
  BY <1>1, <1>3, <1>4, KeyExpiriesAre
<1>6. [eval[w].seen EXCEPT !.fired = TRUE, !.expiry = ex] \in Watch
  BY <1>3, <1>5 DEF Watch
<1>7. watch' \in [Alert \X Market -> Watch]
  BY <1>1, <1>4, <1>6 DEF StoresOK
<1>8. decisions' \subseteq Decision /\ IsFiniteSet(decisions')
  BY <1>2, <1>3, DecideIs DEF SaveFired
<1>9. UNCHANGED <<dedup, window, armings, windows>>
  BY DEF SaveFired
<1> QED
  BY <1>1, <1>7, <1>8, <1>9 DEF StoresOK

LEMMA TypeStepOf ==
  ASSUME TypeInv, NEW w \in Worker, Step(w)
  PROVE  TypeInv'
<1>1. UNCHANGED <<clock, loaded, received, reloads, crashes>>
  BY StepKeeps
<1>2. eval' \in [Worker -> Evaluation] /\ \A v \in Worker : Standing(v)'
  BY <1>1, StepMoves, StandingHolds
<1>3. StoresOK'
  <2>1. CASE Quiet(w)
    BY <2>1, QuietWritesNothing, StoresFollow DEF keys, history, StoresOK
  <2> QED
    BY <2>1, StepCases, StoresSaveArm, StoresWindow, StoresReserve, StoresSaveFired
<1> QED
  BY <1>1, <1>2, <1>3 DEF TypeInv, TypeOK, StoresOK, Decision, Opened

LEMMA TypeInit == Init => TypeInv
<1> SUFFICES ASSUME Init PROVE TypeInv
  OBVIOUS
<1>1. NoWindow \in Window /\ NoWatch \in Watch /\ IsFiniteSet({})
  BY FS_EmptySet DEF NoWindow, Window, NoWatch, Watch
<1>2. TypeOK
  BY <1>1, IdleIs, RuleAssumption DEF Init, TypeOK
<1>3. \A w \in Worker : eval[w] = Idle
  BY DEF Init
<1>4. \A w \in Worker : Standing(w)
  BY <1>3, IdleIs DEF Standing, At
<1> QED
  BY <1>1, <1>2, <1>4 DEF Init, TypeInv

LEMMA ReceiveIs ==
  ASSUME TypeInv, NEW w \in Worker, NEW m \in Market, NEW c \in Content, NEW ts \in 0 .. clock + MaxAhead,
         Receive(w, m, c, ts)
  PROVE  \E r \in Evaluation :
           /\ eval' = [eval EXCEPT ![w] = r]
           /\ r.stage = "candidate" /\ r.event.ts = ts /\ r.idx = 1
           /\ r.since = Len(windows)
           /\ r.todo \subseteq DOMAIN Catalog[loaded[w]]
<1> DEFINE r == [Idle EXCEPT !.stage = "candidate",
                   !.event = [market |-> m, content |-> c, ts |-> ts],
                   !.todo = Candidates[loaded[w]][c], !.since = Len(windows)]
<1>1. loaded[w] \in Versions /\ ts \in Nat /\ Len(windows) \in Nat
  BY EvalIs, RuleAssumption, StoresFollow DEF TypeInv, TypeOK, StoresOK
<1>2. /\ Candidates[loaded[w]][c] \subseteq DOMAIN Catalog[loaded[w]]
      /\ Candidates[loaded[w]][c] \subseteq Alert
  BY <1>1, CandidatesAreBound, RuleAssumption
<1>3. [market |-> m, content |-> c, ts |-> ts] \in Event
  BY <1>1 DEF Event
<1>4. r \in Evaluation
  BY <1>1, <1>2, <1>3, IdleIs DEF Evaluation, Stage
<1>5. r.stage = "candidate" /\ r.event.ts = ts /\ r.idx = 1 /\ r.todo = Candidates[loaded[w]][c]
      /\ r.since = Len(windows)
  BY IdleIs DEF Evaluation
<1>6. eval' = [eval EXCEPT ![w] = r]
  BY DEF Receive
<1> HIDE DEF r
<1> QED
  BY <1>2, <1>4, <1>5, <1>6

LEMMA TypeStep == TypeInv /\ [Next]_vars => TypeInv'
<1> SUFFICES ASSUME TypeInv, [Next]_vars PROVE TypeInv'
  OBVIOUS
<1> TypeOK /\ IsFiniteSet(decisions) /\ \A v \in Worker : Standing(v)
  BY DEF TypeInv
<1>1. ASSUME NEW w \in Worker, SetBindings(w)
      PROVE  TypeInv'
  <2>1. /\ loaded' \in [Worker -> Versions] /\ reloads' \in 0 .. MaxReloads
        /\ \A v \in Worker : v # w => loaded'[v] = loaded[v]
    BY <1>1, RuleAssumption DEF SetBindings, TypeOK
  <2>2. UNCHANGED <<clock, keys, eval, received, crashes, history>> /\ eval[w].stage = "idle"
    BY <1>1 DEF SetBindings, At
  <2>3. \A v \in Worker : Standing(v)'
    BY <2>1, <2>2 DEF Standing, At, Candidate, Suppressions, Binding, Bound
  <2> QED
    BY <2>1, <2>2, <2>3 DEF TypeInv, TypeOK, keys, history
<1>2. ASSUME NEW w \in Worker, NEW m \in Market, NEW c \in Content, NEW ts \in 0 .. clock + MaxAhead,
             Receive(w, m, c, ts)
      PROVE  TypeInv'
  <2>1. PICK r \in Evaluation : /\ eval' = [eval EXCEPT ![w] = r]
                                /\ r.stage = "candidate"
                                /\ r.todo \subseteq DOMAIN Catalog[loaded[w]]
    BY <1>2, ReceiveIs
  <2>2. /\ UNCHANGED <<clock, loaded, keys, reloads, crashes, history>>
        /\ received' = received + 1 /\ received < MaxEvents
    BY <1>2 DEF Receive
  <2>5. received' \in 0 .. MaxEvents
    BY <2>2, RuleAssumption DEF TypeOK
  <2>3. /\ eval' \in [Worker -> Evaluation] /\ eval'[w] = r
        /\ \A v \in Worker : v # w => eval'[v] = eval[v]
    BY <2>1 DEF TypeOK
  <2>4. \A v \in Worker : Standing(v)'
    BY <2>1, <2>2, <2>3 DEF Standing, At, Candidate, Suppressions, Binding, Bound
  <2> QED
    BY <2>2, <2>3, <2>4, <2>5 DEF TypeInv, TypeOK, keys, history
<1>3. ASSUME NEW w \in Worker, Crash(w)
      PROVE  TypeInv'
  <2>1. /\ UNCHANGED <<clock, loaded, keys, received, reloads, history>>
        /\ crashes' \in 0 .. MaxCrashes /\ eval' = [eval EXCEPT ![w] = Idle]
    BY <1>3, RuleAssumption DEF Crash, TypeOK
  <2>2. Moves(w)
    BY <2>1, IdleIs DEF Moves, Goes
  <2>3. eval' \in [Worker -> Evaluation] /\ \A v \in Worker : Standing(v)'
    BY <2>1, <2>2, StandingHolds
  <2> QED
    BY <2>1, <2>3 DEF TypeInv, TypeOK, keys, history
<1>4. CASE Tick
  <2>1. /\ UNCHANGED <<loaded, keys, eval, received, reloads, crashes, history>>
        /\ clock' \in 0 .. MaxTime
    BY <1>4, RuleAssumption DEF Tick, TypeOK
  <2>2. \A v \in Worker : Standing(v)'
    BY <2>1 DEF Standing, At, Candidate, Suppressions, Binding, Bound
  <2> QED
    BY <2>1, <2>2 DEF TypeInv, TypeOK, keys, history
<1>5. CASE UNCHANGED vars
  <2>1. \A v \in Worker : Standing(v)'
    BY <1>5 DEF vars, Standing, At, Candidate, Suppressions, Binding, Bound
  <2> QED
    BY <1>5, <2>1 DEF TypeInv, TypeOK, vars, keys, history
<1> QED
  BY <1>1, <1>2, <1>3, <1>4, <1>5, TypeStepOf DEF Next

\* Every variable has its type: in particular a window is cleared and opened only for an
\* entry that the rule of the moment has.
THEOREM TypeCorrect == Spec => []TypeOK
<1>1. TypeInv => TypeOK
  BY DEF TypeInv
<1> QED
  BY <1>1, TypeInit, TypeStep, PTL DEF Spec

-----------------------------------------------------------------------------
(* Trigger keys. *)

\* The worker holds a trigger key it has no decision for yet.
Reserving(w) == eval[w].stage \in {"fire", "mark"}

\* The key outlives the TTL of a reservation made then.
Covered(key, at) == \E r \in dedup : r.key = key /\ r.expiry >= at + DedupTTL

Apart(x, y) == x >= y + DedupTTL \/ y >= x + DedupTTL

\* Reservations, those of decisions and those in progress, are covered and apart.
SpacingInv ==
  /\ \A d \in decisions : Covered(d.trigger, d.reservedAt)
  /\ \A w \in Worker : Reserving(w) => Covered(Trigger(w), eval[w].reservedAt)
  /\ \A d1, d2 \in decisions :
       d1.trigger = d2.trigger /\ d1 # d2 => Apart(d1.reservedAt, d2.reservedAt)
  /\ \A w \in Worker, d \in decisions :
       Reserving(w) /\ Trigger(w) = d.trigger => Apart(d.reservedAt, eval[w].reservedAt)
  /\ \A w, v \in Worker :
       Reserving(w) /\ Reserving(v) /\ w # v /\ Trigger(w) = Trigger(v)
         => Apart(eval[w].reservedAt, eval[v].reservedAt)

LEMMA SpacingInit == Init => SpacingInv
<1> SUFFICES ASSUME Init PROVE SpacingInv
  OBVIOUS
<1>1. decisions = {} /\ \A w \in Worker : eval[w].stage = "idle"
  BY IdleIs DEF Init
<1> QED
  BY <1>1 DEF SpacingInv, Reserving

\* What a step of w leaves the other workers with.
LEMMA OthersStay ==
  ASSUME TypeInv, NEW w \in Worker, Moves(w), UNCHANGED loaded, NEW v \in Worker, v # w
  PROVE  /\ eval'[v] = eval[v] /\ Trigger(v)' = Trigger(v)
         /\ Reserving(v)' <=> Reserving(v)
<1>1. eval'[v] = eval[v]
  BY DEF TypeInv, TypeOK, Moves
<1> QED
  BY <1>1 DEF Trigger, Binding, Bound, Candidate, Reserving

\* Only Reserve brings a worker to hold a key.
LEMMA ReservingFollows ==
  ASSUME TypeInv, NEW w \in Worker, Moves(w), UNCHANGED loaded, ~Reserve(w),
         NEW v \in Worker, Reserving(v)'
  PROVE  /\ Reserving(v) /\ Trigger(v)' = Trigger(v)
         /\ eval'[v].reservedAt = eval[v].reservedAt
<1>1. CASE v # w
  BY <1>1, OthersStay
<1>2. CASE v = w
  <2>1. PICK r \in Evaluation : Goes(w, r) /\ eval' = [eval EXCEPT ![w] = r]
    BY DEF Moves
  <2>2. eval'[w] = r /\ r.stage \in {"fire", "mark"}
    BY <1>2, <2>1 DEF TypeInv, TypeOK, Reserving
  <2>3. /\ At(w, "fire") /\ r.reservedAt = eval[w].reservedAt
        /\ r.event = eval[w].event /\ r.alert = eval[w].alert
    BY <2>1, <2>2, IdleIs DEF Goes, Candidate
  <2> QED
    BY <1>2, <2>2, <2>3 DEF Reserving, At, Trigger, Binding, Bound, Candidate
<1> QED
  BY <1>1, <1>2

\* A step that reserves nothing and decides nothing.
LEMMA SpacingKept ==
  ASSUME SpacingInv, UNCHANGED <<dedup, decisions>>,
         \A v \in Worker : Reserving(v)' => /\ Reserving(v) /\ Trigger(v)' = Trigger(v)
                                            /\ eval'[v].reservedAt = eval[v].reservedAt
  PROVE  SpacingInv'
<1>1. \A key, at : Covered(key, at)' <=> Covered(key, at)
  BY DEF Covered
<1>2. (\A d \in decisions : Covered(d.trigger, d.reservedAt))'
  BY <1>1 DEF SpacingInv
<1>3. ASSUME NEW v \in Worker, Reserving(v)'
      PROVE  Covered(Trigger(v), eval[v].reservedAt)'
  <2>1. Covered(Trigger(v), eval[v].reservedAt)
    BY <1>3 DEF SpacingInv
  <2>2. PICK r \in dedup : r.key = Trigger(v) /\ r.expiry >= eval[v].reservedAt + DedupTTL
    BY <2>1 DEF Covered
  <2> QED
    BY <1>3, <2>2 DEF Covered
<1>4. (\A d1, d2 \in decisions :
         d1.trigger = d2.trigger /\ d1 # d2 => Apart(d1.reservedAt, d2.reservedAt))'
  BY DEF SpacingInv, Apart
<1>5. (\A v \in Worker, d \in decisions :
         Reserving(v) /\ Trigger(v) = d.trigger => Apart(d.reservedAt, eval[v].reservedAt))'
  BY DEF SpacingInv, Apart
<1>6. (\A x, y \in Worker :
         Reserving(x) /\ Reserving(y) /\ x # y /\ Trigger(x) = Trigger(y)
           => Apart(eval[x].reservedAt, eval[y].reservedAt))'
  BY DEF SpacingInv, Apart
<1> QED
  BY <1>2, <1>3, <1>4, <1>5, <1>6 DEF SpacingInv

\* SET NX succeeds only when every covered reservation of the key is a TTL ago.
LEMMA ReserveCovers ==
  ASSUME TypeInv, NEW w \in Worker, Reserve(w)
  PROVE  /\ \A at \in Nat : Covered(Trigger(w), at) => Apart(at, clock)
         /\ \A key, at : at \in Nat /\ Covered(key, at) => Covered(key, at)'
         /\ \A key : key = Trigger(w) =>
              \E r \in dedup' : r.key = key /\ r.expiry >= clock + DedupTTL
<1> DEFINE mine == [key |-> Trigger(w), expiry |-> clock + DedupTTL]
<1>1. /\ clock \in Nat /\ DedupTTL \in Nat
      /\ dedup \subseteq [key : TriggerKey, expiry : Nat]
  BY RuleAssumption DEF TypeInv, TypeOK, DedupTTL
<1>2. /\ dedup' = {r \in dedup : r.key # Trigger(w)} \cup {mine}
      /\ \A r \in dedup : r.key = Trigger(w) => clock >= r.expiry
  BY DEF Reserve, Reservable
<1>3. mine.key = Trigger(w) /\ mine.expiry = clock + DedupTTL /\ mine \in dedup'
  BY <1>2
<1> HIDE DEF mine
<1>4. ASSUME NEW at \in Nat, Covered(Trigger(w), at)
      PROVE  clock >= at + DedupTTL
  <2>1. PICK r \in dedup : r.key = Trigger(w) /\ r.expiry >= at + DedupTTL
    BY <1>4 DEF Covered
  <2>2. clock >= r.expiry /\ r.expiry \in Nat
    BY <1>1, <1>2, <2>1
  <2> QED
    BY <1>1, <2>1, <2>2
<1>5. ASSUME NEW key, NEW at \in Nat, Covered(key, at)
      PROVE  \E r \in dedup' : r.key = key /\ r.expiry >= at + DedupTTL
  <2>1. PICK r \in dedup : r.key = key /\ r.expiry >= at + DedupTTL
    BY <1>5 DEF Covered
  <2>2. CASE key = Trigger(w)
    <3>1. clock >= at + DedupTTL
      BY <1>4, <1>5, <2>2
    <3> QED
      BY <1>1, <1>3, <2>2, <3>1
  <2>3. CASE key # Trigger(w)
    BY <1>2, <2>1, <2>3
  <2> QED
    BY <2>2, <2>3
<1>6. \A at \in Nat : Covered(Trigger(w), at) => Apart(at, clock)
  BY <1>4 DEF Apart
<1>7. \A key, at : at \in Nat /\ Covered(key, at) => Covered(key, at)'
  BY <1>5 DEF Covered
<1>8. \A key : key = Trigger(w) => \E r \in dedup' : r.key = key /\ r.expiry >= clock + DedupTTL
  BY <1>1, <1>3
<1> QED
  BY <1>6, <1>7, <1>8

\* A decision is made for the key and the time given.
LEMMA DecisionIs ==
  ASSUME TypeInv, NEW w \in Worker, NEW arming, NEW n, NEW saw, Decide(w, arming, n, saw)
  PROVE  \A d \in decisions' : d \in decisions \/ (d.trigger = Trigger(w) /\ d.reservedAt = n)
  BY DEF Decide

LEMMA ReservedAtIs ==
  ASSUME TypeInv
  PROVE  /\ \A d \in decisions : d.reservedAt \in Nat
         /\ \A v \in Worker : eval[v].reservedAt \in Nat
  BY StoresFollow, EvalIs DEF TypeInv, StoresOK, Decision

LEMMA SpacingReserve ==
  ASSUME TypeInv, SpacingInv, NEW w \in Worker, Reserve(w)
  PROVE  SpacingInv'
<1>1. /\ \A at \in Nat : Covered(Trigger(w), at) => Apart(at, clock)
      /\ \A key, at : at \in Nat /\ Covered(key, at) => Covered(key, at)'
      /\ \A key : key = Trigger(w) =>
           \E r \in dedup' : r.key = key /\ r.expiry >= clock + DedupTTL
  BY ReserveCovers
<1>2. Moves(w) /\ UNCHANGED loaded
  BY StepMoves, StepKeeps DEF Step
<1>3. \A v \in Worker : v # w =>
        /\ eval'[v] = eval[v] /\ Trigger(v)' = Trigger(v)
        /\ Reserving(v)' <=> Reserving(v)
  BY <1>2, OthersStay
<1>4. \A d \in decisions : d.trigger = Trigger(w) => Apart(d.reservedAt, clock)
  BY <1>1, ReservedAtIs DEF SpacingInv
<1>5. \A v \in Worker : Reserving(v) /\ Trigger(v) = Trigger(w)
        => Apart(eval[v].reservedAt, clock)
  BY <1>1, ReservedAtIs DEF SpacingInv
<1>6. \A d \in decisions : \E r \in dedup' : r.key = d.trigger
                                              /\ r.expiry >= d.reservedAt + DedupTTL
  <2>1. \A d \in decisions : Covered(d.trigger, d.reservedAt)'
    <3>1. ASSUME NEW d \in decisions
          PROVE  \E r \in dedup' : r.key = d.trigger /\ r.expiry >= d.reservedAt + DedupTTL
      <4>1. Covered(d.trigger, d.reservedAt) /\ d.reservedAt \in Nat
        BY ReservedAtIs DEF SpacingInv
      <4> DEFINE k == d.trigger
                 n == d.reservedAt
      <4>2. Covered(k, n) /\ n \in Nat
        BY <4>1
      <4> HIDE DEF k, n
      <4>3. \E r \in dedup' : r.key = k /\ r.expiry >= n + DedupTTL
        BY <1>1, <4>2 DEF Covered
      <4> QED
        BY <4>3 DEF k, n
    <3> QED
      BY <3>1 DEF Covered
  <2> QED
    BY <2>1 DEF Covered
<1>7. \A v \in Worker : v # w /\ Reserving(v) =>
        \E r \in dedup' : r.key = Trigger(v) /\ r.expiry >= eval[v].reservedAt + DedupTTL
  <2> SUFFICES ASSUME NEW v \in Worker, v # w, Reserving(v)
               PROVE  \E r \in dedup' : /\ r.key = Trigger(v)
                                        /\ r.expiry >= eval[v].reservedAt + DedupTTL
    OBVIOUS
  <2> DEFINE k == Trigger(v)
             n == eval[v].reservedAt
  <2>1. Covered(k, n) /\ n \in Nat
    BY ReservedAtIs DEF SpacingInv
  <2> HIDE DEF k, n
  <2>2. \E r \in dedup' : r.key = k /\ r.expiry >= n + DedupTTL
    BY <1>1, <2>1 DEF Covered
  <2> QED
    BY <2>2 DEF k, n
<1>8. CASE IsOneShot(Binding(w))
  <2>1. decisions' = decisions
    BY <1>8 DEF Reserve
  <2>2. eval'[w].reservedAt = clock /\ Trigger(w)' = Trigger(w) /\ Reserving(w)'
    <3>1. eval' = [eval EXCEPT ![w].stage = "fire", ![w].reservedAt = clock]
      BY <1>8 DEF Reserve
    <3>2. /\ eval'[w].reservedAt = clock /\ eval'[w].stage = "fire"
          /\ eval'[w].event = eval[w].event /\ eval'[w].alert = eval[w].alert
      BY <3>1, EvalIs DEF TypeInv, TypeOK, Evaluation
    <3> QED
      BY <1>2, <3>2 DEF Trigger, Binding, Bound, Candidate, Reserving
  <2>3. (\A d \in decisions : Covered(d.trigger, d.reservedAt))'
    BY <1>6, <2>1 DEF Covered
  <2>4. (\A v \in Worker : Reserving(v) => Covered(Trigger(v), eval[v].reservedAt))'
    BY <1>1, <1>3, <1>7, <2>2 DEF Covered
  <2>5. (\A d1, d2 \in decisions :
           d1.trigger = d2.trigger /\ d1 # d2 => Apart(d1.reservedAt, d2.reservedAt))'
    BY <2>1 DEF SpacingInv, Apart
  <2>6. (\A v \in Worker, d \in decisions :
           Reserving(v) /\ Trigger(v) = d.trigger => Apart(d.reservedAt, eval[v].reservedAt))'
    BY <1>3, <1>4, <2>1, <2>2 DEF SpacingInv, Apart
  <2>7. (\A x, y \in Worker :
           Reserving(x) /\ Reserving(y) /\ x # y /\ Trigger(x) = Trigger(y)
             => Apart(eval[x].reservedAt, eval[y].reservedAt))'
    BY <1>3, <1>5, <2>2 DEF SpacingInv, Apart
  <2> QED
    BY <2>3, <2>4, <2>5, <2>6, <2>7 DEF SpacingInv
<1>9. CASE ~IsOneShot(Binding(w))
  <2>1. Decide(w, 0, clock, 0) /\ NextCandidate(w)
    BY <1>9 DEF Reserve
  <2>2. /\ decisions \subseteq decisions'
        /\ \A d \in decisions' :
             d \in decisions \/ (d.trigger = Trigger(w) /\ d.reservedAt = clock)
    BY <2>1, DecisionIs DEF Decide
  <2>3. ~Reserving(w)'
    <3>1. eval'[w].stage = "candidate"
      BY <2>1, IdleIs DEF NextCandidate, TypeInv, TypeOK, Evaluation
    <3> QED
      BY <3>1 DEF Reserving
  <2>4. (\A d \in decisions : Covered(d.trigger, d.reservedAt))'
    BY <1>1, <1>6, <2>2 DEF Covered
  <2>5. (\A v \in Worker : Reserving(v) => Covered(Trigger(v), eval[v].reservedAt))'
    BY <1>3, <1>7, <2>3 DEF Covered
  <2>6. (\A d1, d2 \in decisions :
           d1.trigger = d2.trigger /\ d1 # d2 => Apart(d1.reservedAt, d2.reservedAt))'
    <3> SUFFICES ASSUME NEW d1 \in decisions', NEW d2 \in decisions',
                        d1.trigger = d2.trigger, d1 # d2
                 PROVE  Apart(d1.reservedAt, d2.reservedAt)
      BY DEF Apart
    <3>1. CASE d1 \in decisions /\ d2 \in decisions
      BY <3>1 DEF SpacingInv
    <3>2. CASE d1 \in decisions /\ d2 \notin decisions
      BY <1>4, <2>2, <3>2 DEF Apart
    <3>3. CASE d1 \notin decisions /\ d2 \in decisions
      BY <1>4, <2>2, <3>3 DEF Apart
    <3>4. CASE d1 \notin decisions /\ d2 \notin decisions
      BY <2>1, <3>4 DEF Decide
    <3> QED
      BY <3>1, <3>2, <3>3, <3>4
  <2>7. (\A v \in Worker, d \in decisions :
           Reserving(v) /\ Trigger(v) = d.trigger => Apart(d.reservedAt, eval[v].reservedAt))'
    <3> SUFFICES ASSUME NEW v \in Worker, v # w, Reserving(v), NEW d \in decisions',
                        Trigger(v) = d.trigger
                 PROVE  Apart(d.reservedAt, eval[v].reservedAt)
      BY <1>3, <2>3 DEF Apart
    <3>1. CASE d \in decisions
      BY <3>1 DEF SpacingInv
    <3>2. CASE d \notin decisions
      BY <1>5, <2>2, <3>2 DEF Apart
    <3> QED
      BY <3>1, <3>2
  <2>8. (\A x, y \in Worker :
           Reserving(x) /\ Reserving(y) /\ x # y /\ Trigger(x) = Trigger(y)
             => Apart(eval[x].reservedAt, eval[y].reservedAt))'
    BY <1>3, <2>3 DEF SpacingInv, Apart
  <2> QED
    BY <2>4, <2>5, <2>6, <2>7, <2>8 DEF SpacingInv
<1> QED
  BY <1>8, <1>9

LEMMA SpacingFired ==
  ASSUME TypeInv, SpacingInv, NEW w \in Worker, SaveFired(w)
  PROVE  SpacingInv'
<1>1. Moves(w) /\ UNCHANGED <<loaded, dedup>>
  BY StepMoves, StepKeeps DEF Step, SaveFired
<1>2. \A v \in Worker : v # w =>
        /\ eval'[v] = eval[v] /\ Trigger(v)' = Trigger(v)
        /\ Reserving(v)' <=> Reserving(v)
  BY <1>1, OthersStay
<1>3. Decide(w, eval[w].seen.arming, eval[w].reservedAt, eval[w].saw) /\ NextCandidate(w) /\ Reserving(w)
  BY DEF SaveFired, At, Reserving
<1>4. /\ decisions \subseteq decisions'
      /\ \A d \in decisions' :
           d \in decisions \/ (d.trigger = Trigger(w) /\ d.reservedAt = eval[w].reservedAt)
  BY <1>3, DecisionIs DEF Decide
<1>5. ~Reserving(w)'
  <2>1. eval'[w].stage = "candidate"
    BY <1>3, IdleIs DEF NextCandidate, TypeInv, TypeOK, Evaluation
  <2> QED
    BY <2>1 DEF Reserving
<1>6. (\A d \in decisions : Covered(d.trigger, d.reservedAt))'
  BY <1>1, <1>3, <1>4 DEF SpacingInv, Covered
<1>7. (\A v \in Worker : Reserving(v) => Covered(Trigger(v), eval[v].reservedAt))'
  BY <1>1, <1>2, <1>5 DEF SpacingInv, Covered
<1>8. (\A d1, d2 \in decisions :
         d1.trigger = d2.trigger /\ d1 # d2 => Apart(d1.reservedAt, d2.reservedAt))'
  <2> SUFFICES ASSUME NEW d1 \in decisions', NEW d2 \in decisions',
                      d1.trigger = d2.trigger, d1 # d2
               PROVE  Apart(d1.reservedAt, d2.reservedAt)
    BY DEF Apart
  <2>1. CASE d1 \in decisions /\ d2 \in decisions
    BY <2>1 DEF SpacingInv
  <2>2. CASE d1 \in decisions /\ d2 \notin decisions
    BY <1>3, <1>4, <2>2 DEF SpacingInv
  <2>3. CASE d1 \notin decisions /\ d2 \in decisions
    BY <1>3, <1>4, <2>3 DEF SpacingInv, Apart
  <2>4. CASE d1 \notin decisions /\ d2 \notin decisions
    BY <1>3, <2>4 DEF Decide
  <2> QED
    BY <2>1, <2>2, <2>3, <2>4
<1>9. (\A v \in Worker, d \in decisions :
         Reserving(v) /\ Trigger(v) = d.trigger => Apart(d.reservedAt, eval[v].reservedAt))'
  <2> SUFFICES ASSUME NEW v \in Worker, v # w, Reserving(v), NEW d \in decisions',
                      Trigger(v) = d.trigger
               PROVE  Apart(d.reservedAt, eval[v].reservedAt)
    BY <1>2, <1>5 DEF Apart
  <2>1. CASE d \in decisions
    BY <2>1 DEF SpacingInv
  <2>2. CASE d \notin decisions
    BY <1>3, <1>4, <2>2 DEF SpacingInv
  <2> QED
    BY <2>1, <2>2
<1>10. (\A x, y \in Worker :
          Reserving(x) /\ Reserving(y) /\ x # y /\ Trigger(x) = Trigger(y)
            => Apart(eval[x].reservedAt, eval[y].reservedAt))'
  BY <1>2, <1>5 DEF SpacingInv, Apart
<1> QED
  BY <1>6, <1>7, <1>8, <1>9, <1>10 DEF SpacingInv

LEMMA SpacingStep == TypeInv /\ SpacingInv /\ [Next]_vars => SpacingInv'
<1> SUFFICES ASSUME TypeInv, SpacingInv, [Next]_vars PROVE SpacingInv'
  OBVIOUS
<1>1. ASSUME NEW w \in Worker, Step(w), ~Reserve(w), ~SaveFired(w)
      PROVE  SpacingInv'
  <2>1. UNCHANGED <<dedup, decisions>>
    <3>1. Quiet(w) \/ SaveArm(w) \/ ClearWindow(w) \/ OpenWindow(w)
      BY <1>1, StepCases
    <3> QED
      BY <3>1, QuietWritesNothing DEF SaveArm, ClearWindow, OpenWindow, keys, history
  <2>2. Moves(w) /\ UNCHANGED loaded
    BY <1>1, StepMoves, StepKeeps
  <2> QED
    BY <1>1, <2>1, <2>2, ReservingFollows, SpacingKept
<1>2. ASSUME NEW w \in Worker, SetBindings(w)
      PROVE  SpacingInv'
  <2>1. /\ UNCHANGED <<eval, dedup, decisions>> /\ ~Reserving(w)
        /\ \A v \in Worker : v # w => loaded'[v] = loaded[v]
    BY <1>2 DEF SetBindings, keys, history, TypeInv, TypeOK, At, Reserving
  <2>2. \A v \in Worker : Reserving(v)' => Reserving(v) /\ Trigger(v)' = Trigger(v)
    BY <2>1 DEF Reserving, Trigger, Binding, Bound, Candidate
  <2> QED
    BY <2>1, <2>2, SpacingKept
<1>3. ASSUME NEW w \in Worker, NEW m \in Market, NEW c \in Content, NEW ts \in 0 .. clock + MaxAhead,
             Receive(w, m, c, ts)
      PROVE  SpacingInv'
  <2>1. PICK r \in Evaluation : eval' = [eval EXCEPT ![w] = r] /\ r.stage = "candidate"
    BY <1>3, ReceiveIs
  <2>2. /\ UNCHANGED <<loaded, dedup, decisions>> /\ ~Reserving(w)'
        /\ \A v \in Worker : v # w => eval'[v] = eval[v]
    BY <1>3, <2>1 DEF Receive, keys, history, TypeInv, TypeOK, Reserving
  <2>3. \A v \in Worker : Reserving(v)' => /\ Reserving(v) /\ Trigger(v)' = Trigger(v)
                                           /\ eval'[v].reservedAt = eval[v].reservedAt
    BY <2>2 DEF Reserving, Trigger, Binding, Bound, Candidate
  <2> QED
    BY <2>2, <2>3, SpacingKept
<1>4. ASSUME NEW w \in Worker, Crash(w)
      PROVE  SpacingInv'
  <2>1. /\ UNCHANGED <<loaded, dedup, decisions>> /\ ~Reserving(w)'
        /\ \A v \in Worker : v # w => eval'[v] = eval[v]
    BY <1>4, IdleIs DEF Crash, keys, history, TypeInv, TypeOK, Reserving
  <2>2. \A v \in Worker : Reserving(v)' => /\ Reserving(v) /\ Trigger(v)' = Trigger(v)
                                           /\ eval'[v].reservedAt = eval[v].reservedAt
    BY <2>1 DEF Reserving, Trigger, Binding, Bound, Candidate
  <2> QED
    BY <2>1, <2>2, SpacingKept
<1>5. CASE Tick \/ UNCHANGED vars
  <2>1. UNCHANGED <<eval, loaded, dedup, decisions>>
    BY <1>5 DEF Tick, vars, keys, history
  <2>2. \A v \in Worker : Reserving(v)' => Reserving(v) /\ Trigger(v)' = Trigger(v)
    BY <2>1 DEF Reserving, Trigger, Binding, Bound, Candidate
  <2> QED
    BY <2>1, <2>2, SpacingKept
<1> QED
  BY <1>1, <1>2, <1>3, <1>4, <1>5, SpacingReserve, SpacingFired DEF Next

LEMMA SpacingAlways == Spec => [](TypeInv /\ SpacingInv)
<1>1. Init => TypeInv /\ SpacingInv
  BY TypeInit, SpacingInit
<1>2. (TypeInv /\ SpacingInv) /\ [Next]_vars => (TypeInv /\ SpacingInv)'
  BY TypeStep, SpacingStep
<1> QED
  BY <1>1, <1>2, PTL DEF Spec

\* For any number of workers, whatever events they see in whatever order, whoever crashes:
\* two decisions of one trigger key were reserved at least the TTL of the key apart.
THEOREM TriggersAreSpaced == Spec => []TriggerSpacing
<1>1. TypeInv /\ SpacingInv => TriggerSpacing
  <2> SUFFICES ASSUME TypeInv, SpacingInv, NEW d1 \in decisions, NEW d2 \in decisions,
                      d1.trigger = d2.trigger, d1 # d2
               PROVE  \/ d2.reservedAt >= d1.reservedAt + DedupTTL
                      \/ d1.reservedAt >= d2.reservedAt + DedupTTL
    BY DEF TriggerSpacing
  <2> QED
    BY DEF SpacingInv, Apart
<1> QED
  BY <1>1, SpacingAlways, PTL

-----------------------------------------------------------------------------
(* Buckets. *)

\* An evaluation ends in time, and so a key is reserved near a timestamp of its bucket.
Near(at, ts) == ts <= at + MaxAhead /\ at <= ts + MaxDelay

TimelyInv ==
  /\ \A w \in Worker : ~At(w, "idle") => Near(clock, Time(w))
  /\ \A w \in Worker : Reserving(w) => Near(eval[w].reservedAt, Time(w))
  /\ \A d \in decisions :
       \E ts \in Nat : d.trigger.bucket = ts \div Bucket /\ Near(d.reservedAt, ts)

\* Timestamps of one bucket are less than its length apart.
LEMMA SameBucket ==
  ASSUME NEW a \in Nat, NEW b \in Nat, a \div Bucket = b \div Bucket
  PROVE  a < b + Bucket
<1>1. Bucket \in Nat \ {0}
  BY RuleAssumption
<1> QED
  BY <1>1, SMT

LEMMA TimelyInit == Init => TimelyInv
<1> SUFFICES ASSUME Init PROVE TimelyInv
  OBVIOUS
<1>1. decisions = {} /\ \A w \in Worker : eval[w].stage = "idle"
  BY IdleIs DEF Init
<1> QED
  BY <1>1 DEF TimelyInv, At, Reserving

LEMMA TimelyStepOf ==
  ASSUME TypeInv, TimelyInv, NEW w \in Worker, Step(w)
  PROVE  TimelyInv'
<1>1. Moves(w) /\ UNCHANGED <<clock, loaded>>
  BY StepMoves, StepKeeps
<1>2. PICK r \in Evaluation : Goes(w, r) /\ eval' = [eval EXCEPT ![w] = r]
  BY <1>1 DEF Moves
<1>3. eval'[w] = r /\ \A v \in Worker : v # w => eval'[v] = eval[v]
  BY <1>2 DEF TypeInv, TypeOK
<1>4. r.stage # "idle" => r.event = eval[w].event /\ ~At(w, "idle")
  BY <1>2, IdleIs DEF Goes, At
<1>5. (\A v \in Worker : ~At(v, "idle") => Near(clock, Time(v)))'
  BY <1>1, <1>3, <1>4 DEF TimelyInv, At, Near, Time
<1>6. (\A v \in Worker : Reserving(v) => Near(eval[v].reservedAt, Time(v)))'
  <2>1. CASE ~Reserve(w)
    <3>1. \A v \in Worker : Reserving(v)' =>
            Reserving(v) /\ eval'[v].reservedAt = eval[v].reservedAt
      BY <1>1, <2>1, ReservingFollows
    <3>2. \A v \in Worker : Reserving(v)' => eval'[v].event = eval[v].event
      BY <1>3, <1>4 DEF Reserving
    <3> QED
      BY <3>1, <3>2 DEF TimelyInv, Near, Time
  <2>2. CASE Reserve(w)
    <3>1. At(w, "reserve")
      BY <2>2 DEF Reserve
    <3>2. r.stage \in {"fire", "mark"} => r.reservedAt = clock
      BY <1>2, <3>1, IdleIs DEF Goes, At
    <3>3. Near(clock, Time(w))
      BY <3>1 DEF TimelyInv, At
    <3> QED
      BY <1>3, <1>4, <3>2, <3>3 DEF TimelyInv, Near, Time, Reserving
  <2> QED
    BY <2>1, <2>2
<1>7. (\A d \in decisions :
         \E ts \in Nat : d.trigger.bucket = ts \div Bucket /\ Near(d.reservedAt, ts))'
  <2>1. CASE UNCHANGED decisions
    BY <2>1 DEF TimelyInv, Near
  <2>2. ASSUME NEW arming, NEW n, NEW saw, Decide(w, arming, n, saw), Near(n, Time(w))
        PROVE  (\A d \in decisions :
                  \E ts \in Nat : d.trigger.bucket = ts \div Bucket /\ Near(d.reservedAt, ts))'
    <3>1. Trigger(w).bucket = Time(w) \div Bucket /\ Time(w) \in Nat
      BY EvalIs DEF TypeInv, Trigger, TriggerOf, Time
    <3> QED
      BY <2>2, <3>1, DecisionIs DEF TimelyInv, Near
  <2>3. CASE Reserve(w)
    <3>1. Near(clock, Time(w))
      BY <2>3 DEF Reserve, TimelyInv, At
    <3> QED
      BY <2>1, <2>2, <2>3, <3>1 DEF Reserve
  <2>4. CASE SaveFired(w)
    <3>1. Near(eval[w].reservedAt, Time(w))
      BY <2>4 DEF SaveFired, TimelyInv, At, Reserving
    <3> QED
      BY <2>2, <2>4, <3>1 DEF SaveFired
  <2>5. CASE ~Reserve(w) /\ ~SaveFired(w)
    <3>1. Quiet(w) \/ SaveArm(w) \/ ClearWindow(w) \/ OpenWindow(w)
      BY <2>5, StepCases
    <3> QED
      BY <2>1, <3>1, QuietWritesNothing DEF SaveArm, ClearWindow, OpenWindow, history
  <2> QED
    BY <2>3, <2>4, <2>5
<1> QED
  BY <1>5, <1>6, <1>7 DEF TimelyInv

LEMMA TimelyStep == TypeInv /\ TimelyInv /\ [Next]_vars => TimelyInv'
<1> SUFFICES ASSUME TypeInv, TimelyInv, [Next]_vars PROVE TimelyInv'
  OBVIOUS
<1>0. clock \in Nat /\ MaxDelay \in Nat /\ MaxAhead \in Nat /\ \A v \in Worker : Time(v) \in Nat
  BY EvalIs, RuleAssumption DEF TypeInv, TypeOK, Time
<1>1. ASSUME UNCHANGED <<clock, eval, decisions>>
      PROVE  TimelyInv'
  BY <1>1 DEF TimelyInv, At, Near, Time, Reserving
<1>2. ASSUME NEW w \in Worker, NEW m \in Market, NEW c \in Content, NEW ts \in 0 .. clock + MaxAhead,
             Receive(w, m, c, ts)
      PROVE  TimelyInv'
  <2>1. PICK r \in Evaluation : /\ eval' = [eval EXCEPT ![w] = r]
                                /\ r.stage = "candidate" /\ r.event.ts = ts
    BY <1>2, ReceiveIs
  <2>2. /\ UNCHANGED <<clock, decisions>> /\ Near(clock, ts)
        /\ eval'[w] = r /\ \A v \in Worker : v # w => eval'[v] = eval[v]
    BY <1>2, <2>1 DEF Receive, history, TypeInv, TypeOK, Near
  <2> QED
    BY <2>1, <2>2 DEF TimelyInv, At, Near, Time, Reserving
<1>3. ASSUME NEW w \in Worker, Crash(w)
      PROVE  TimelyInv'
  <2>1. /\ UNCHANGED <<clock, decisions>> /\ eval'[w].stage = "idle"
        /\ \A v \in Worker : v # w => eval'[v] = eval[v]
    BY <1>3, IdleIs DEF Crash, history, TypeInv, TypeOK
  <2> QED
    BY <2>1 DEF TimelyInv, At, Near, Time, Reserving
<1>4. CASE Tick
  <2>1. /\ UNCHANGED <<eval, decisions>> /\ clock' = clock + 1
        /\ \A v \in Worker : ~At(v, "idle") => clock < Time(v) + MaxDelay
    BY <1>4 DEF Tick, history
  <2>2. (\A v \in Worker : ~At(v, "idle") => Near(clock, Time(v)))'
    BY <1>0, <2>1 DEF TimelyInv, At, Near, Time
  <2> QED
    BY <2>1, <2>2 DEF TimelyInv, Near, Time, Reserving
<1>5. ASSUME NEW w \in Worker, SetBindings(w)
      PROVE  TimelyInv'
  BY <1>1, <1>5 DEF SetBindings, history
<1>6. CASE UNCHANGED vars
  BY <1>1, <1>6 DEF vars, history
<1> QED
  BY <1>2, <1>3, <1>4, <1>5, <1>6, TimelyStepOf DEF Next

\* For any bucket and any number of workers, whatever events of it they see in whatever
\* order: one decision per rule, version, market and bucket, as long as the safety margin
\* covers what events may come late and be timestamped ahead of the clock.
THEOREM TriggersDecideOnce == Spec => []OneDecisionPerTrigger
<1>1. TypeInv /\ SpacingInv /\ TimelyInv => OneDecisionPerTrigger
  <2> SUFFICES ASSUME TypeInv, SpacingInv, TimelyInv, MaxDelay + MaxAhead <= Margin,
                      NEW d1 \in decisions, NEW d2 \in decisions,
                      d1.trigger = d2.trigger, d1 # d2
               PROVE  FALSE
    BY DEF OneDecisionPerTrigger
  <2>1. Apart(d1.reservedAt, d2.reservedAt) /\ d1.reservedAt \in Nat /\ d2.reservedAt \in Nat
    BY ReservedAtIs DEF SpacingInv
  <2>2. PICK t1 \in Nat : d1.trigger.bucket = t1 \div Bucket /\ Near(d1.reservedAt, t1)
    BY DEF TimelyInv
  <2>3. PICK t2 \in Nat : d2.trigger.bucket = t2 \div Bucket /\ Near(d2.reservedAt, t2)
    BY DEF TimelyInv
  <2>4. t1 < t2 + Bucket /\ t2 < t1 + Bucket
    BY <2>2, <2>3, SameBucket
  <2>5. /\ MaxDelay \in Nat /\ MaxAhead \in Nat /\ Margin \in Nat /\ Bucket \in Nat
        /\ DedupTTL = Bucket + Margin
    BY RuleAssumption DEF DedupTTL
  <2> QED
    BY <2>1, <2>2, <2>3, <2>4, <2>5 DEF Apart, Near
<1>2. Init => TimelyInv
  BY TimelyInit
<1>3. TypeInv /\ TimelyInv /\ [Next]_vars => TimelyInv'
  BY TimelyStep
<1> QED
  BY <1>1, <1>2, <1>3, SpacingAlways, PTL DEF Spec

-----------------------------------------------------------------------------
(* Filters. *)

\* What a worker went on with has passed the filters.
FilterInv ==
  \A w \in Worker :
    eval[w].stage \notin {"idle", "candidate"} => Fits(w, Candidate(w))

LEMMA FilterInit == Init => FilterInv
<1> SUFFICES ASSUME Init PROVE FilterInv
  OBVIOUS
<1>1. \A w \in Worker : eval[w].stage = "idle"
  BY IdleIs DEF Init
<1> QED
  BY <1>1 DEF FilterInv

LEMMA FilterStep == TypeInv /\ FilterInv /\ [Next]_vars => FilterInv'
<1> SUFFICES ASSUME TypeInv, FilterInv, [Next]_vars PROVE FilterInv'
  OBVIOUS
<1>1. ASSUME NEW w \in Worker, Step(w)
      PROVE  FilterInv'
  <2>1. Moves(w) /\ UNCHANGED loaded
    BY <1>1, StepMoves, StepKeeps
  <2>2. PICK r \in Evaluation : Goes(w, r) /\ eval' = [eval EXCEPT ![w] = r]
    BY <2>1 DEF Moves
  <2>3. eval'[w] = r /\ \A v \in Worker : v # w => eval'[v] = eval[v]
    BY <2>2 DEF TypeInv, TypeOK
  <2>4. r.stage \notin {"idle", "candidate"} =>
          r.event = eval[w].event /\ Fits(w, r.alert)
    BY <2>2, IdleIs DEF Goes, FilterInv
  <2> QED
    BY <2>1, <2>3, <2>4 DEF FilterInv, Fits, Candidate, ContentOf
<1>2. ASSUME NEW w \in Worker, eval'[w].stage \in {"idle", "candidate"},
             \A v \in Worker : v # w => eval'[v] = eval[v] /\ loaded'[v] = loaded[v]
      PROVE  FilterInv'
  BY <1>2 DEF FilterInv, Fits, Candidate, ContentOf
<1>3. ASSUME NEW w \in Worker, SetBindings(w)
      PROVE  FilterInv'
  BY <1>2, <1>3 DEF SetBindings, At, TypeInv, TypeOK
<1>4. ASSUME NEW w \in Worker, NEW m \in Market, NEW c \in Content, NEW ts \in 0 .. clock + MaxAhead,
             Receive(w, m, c, ts)
      PROVE  FilterInv'
  <2>1. PICK r \in Evaluation : eval' = [eval EXCEPT ![w] = r] /\ r.stage = "candidate"
    BY <1>4, ReceiveIs
  <2> QED
    BY <1>2, <1>4, <2>1 DEF Receive, TypeInv, TypeOK
<1>5. ASSUME NEW w \in Worker, Crash(w)
      PROVE  FilterInv'
  BY <1>2, <1>5, IdleIs DEF Crash, TypeInv, TypeOK
<1>6. CASE Tick \/ UNCHANGED vars
  BY <1>6 DEF Tick, vars, FilterInv, Fits, Candidate, ContentOf
<1> QED
  BY <1>1, <1>3, <1>4, <1>5, <1>6 DEF Next

LEMMA FieldIsInt ==
  ASSUME NEW c \in Content, NEW f
  PROVE  FloatAt(Payload[c].fields, f) \subseteq Int
  BY RuleAssumption DEF FloatAt

LEMMA DirectIsInt ==
  ASSUME NEW c \in Content, NEW feature
  PROVE  Direct(Payload[c], feature) \subseteq Int
  BY FieldIsInt DEF Direct

\* The two signals of the server's floors are numbers.
LEMMA FloorSignalIsInt ==
  ASSUME NEW c \in Content, NEW signal \in {"smart_score", "account_age_days"}
  PROVE  FloatAt(Features(Payload[c]), signal) \subseteq Int
<1> DEFINE p == Payload[c]
           computed == {f \in Feature : Computed(p, f) # {}}
<1>1. Computed(p, signal) \subseteq Int
  <2>1. signal \notin DOMAIN PositionSignal
    BY DEF PositionSignal
  <2>2. Computed(p, signal) = Direct(p, signal)
    BY <2>1 DEF Computed
  <2> QED
    BY <2>2, DirectIsInt
<1>2. ASSUME signal \in DOMAIN Features(p)
      PROVE  ToFloat(Features(p)[signal]) \subseteq Int
  <2>1. signal \in computed \cup DOMAIN p.fields
    BY <1>2 DEF Features
  <2>2. Features(p)[signal] = IF signal \in computed
                              THEN Number(CHOOSE n \in Computed(p, signal) : TRUE)
                              ELSE p.fields[signal]
    BY <2>1 DEF Features
  <2>3. CASE signal \in computed
    <3> DEFINE n == CHOOSE n \in Computed(p, signal) : TRUE
    <3>1. n \in Int
      BY <1>1, <2>3
    <3>2. Features(p)[signal] = Number(n)
      BY <2>2, <2>3
    <3> HIDE DEF n
    <3> QED
      BY <3>1, <3>2 DEF Number, ToFloat
  <2>4. CASE signal \notin computed
    <3>1. Features(p)[signal] = p.fields[signal] /\ signal \in DOMAIN p.fields
      BY <2>1, <2>2, <2>4
    <3>2. FloatAt(p.fields, signal) \subseteq Int
      BY FieldIsInt
    <3> QED
      BY <3>1, <3>2 DEF FloatAt
  <2> QED
    BY <2>3, <2>4
<1> HIDE DEF p
<1> QED
  BY <1>2 DEF FloatAt, p

\* A minimum that an alert adds does not let through what the floor alone would hold.
LEMMA FloorHolds ==
  ASSUME NEW floor, NEW own, floor \subseteq Int, own \subseteq Int,
         \A n, k \in floor : n = k, \A n, k \in own : n = k,
         NEW values, NEW signal, FloatAt(values, signal) \subseteq Int,
         AtLeast(values, signal, Strictest(floor, own))
  PROVE  AtLeast(values, signal, Strictest(floor, {}))
<1> SUFFICES ASSUME NEW n \in Strictest(floor, {})
             PROVE  \E x \in FloatAt(values, signal) : x >= n
  BY DEF AtLeast
<1>1. n \in floor /\ n \in Int /\ \A k \in floor : k = n
  BY DEF Strictest
<1>2. PICK m \in Strictest(floor, own) : m \in Int /\ n <= m
  <2>1. CASE \E k \in own : k > n
    <3>1. PICK k \in own : k > n
      BY <2>1
    <3>2. k \in Strictest(floor, own)
      BY <1>1, <3>1 DEF Strictest
    <3> QED
      BY <1>1, <3>1, <3>2
  <2>2. CASE ~ \E k \in own : k > n
    <3>1. n \in Strictest(floor, own)
      BY <1>1, <2>2 DEF Strictest
    <3> QED
      BY <1>1, <3>1
  <2> QED
    BY <2>1, <2>2
<1>3. PICK x \in FloatAt(values, signal) : x >= m
  BY <1>2 DEF AtLeast
<1>4. x \in Int /\ x >= n
  BY <1>1, <1>2, <1>3
<1> QED
  BY <1>4

LEMMA Narrows ==
  ASSUME NEW i \in Versions, NEW a \in DOMAIN Catalog[i], NEW c \in Content,
         Accepts(Catalog[i][a], Payload[c]), ~ReplacesTag(Catalog[i][a])
  PROVE  Accepts([Catalog[i][a] EXCEPT !.filters = NoFilters], Payload[c])
<1> DEFINE b == Catalog[i][a]
           bare == [b EXCEPT !.filters = NoFilters]
           p == Payload[c]
<1>1. b = [rule |-> b.rule, filters |-> b.filters]
  BY BindingIs DEF WellFormed
<1>2. bare.rule = b.rule /\ bare.filters = NoFilters
  BY <1>1
<1>3. Accepts(b, p) /\ ~ReplacesTag(b)
  OBVIOUS
<1>4. \A minimum \in {b.rule.minSmart, b.rule.minAge, b.filters.minSmart, b.filters.minAge} :
        minimum \subseteq Int /\ \A n, k \in minimum : n = k
  BY BindingIs DEF WellFormed
<1>5. \A signal \in {"smart_score", "account_age_days"} : FloatAt(Features(p), signal) \subseteq Int
  BY FloorSignalIsInt
<1> HIDE DEF b, bare, p
<1>6. TagsMatch(bare.rule, p)
  BY <1>2, <1>3 DEF Accepts
<1>7. RequiredTag(bare) \subseteq EventTags(p)
  <2>1. RequiredTag(b) \subseteq EventTags(p)
    BY <1>3 DEF Accepts, PassesRuleFilters
  <2>2. RequiredTag(bare) = b.rule.requireTag
    BY <1>2 DEF RequiredTag, NoFilters
  <2>3. b.rule.requireTag = {} \/ RequiredTag(b) = b.rule.requireTag
    BY <1>3 DEF ReplacesTag, RequiredTag
  <2> QED
    BY <2>1, <2>2, <2>3
<1>8. AtLeast(Features(p), "smart_score", Strictest(bare.rule.minSmart, bare.filters.minSmart))
  <2>1. AtLeast(Features(p), "smart_score", Strictest(b.rule.minSmart, b.filters.minSmart))
    BY <1>3 DEF Accepts, PassesRuleFilters
  <2>2. AtLeast(Features(p), "smart_score", Strictest(b.rule.minSmart, {}))
    BY <1>4, <1>5, <2>1, FloorHolds
  <2> QED
    BY <1>2, <2>2 DEF NoFilters
<1>9. AtLeast(Features(p), "account_age_days", Strictest(bare.rule.minAge, bare.filters.minAge))
  <2>1. AtLeast(Features(p), "account_age_days", Strictest(b.rule.minAge, b.filters.minAge))
    BY <1>3 DEF Accepts, PassesRuleFilters
  <2>2. AtLeast(Features(p), "account_age_days", Strictest(b.rule.minAge, {}))
    BY <1>4, <1>5, <2>1, FloorHolds
  <2> QED
    BY <1>2, <2>2 DEF NoFilters
<1>10. PassesAlertFilters(bare, p)
  <2>1. bare.filters.categoryTags = {} /\ DOMAIN bare.filters.numeric = {}
    BY <1>2 DEF NoFilters
  <2> QED
    BY <2>1 DEF PassesAlertFilters
<1>11. Accepts(bare, p)
  BY <1>6, <1>7, <1>8, <1>9, <1>10 DEF Accepts, PassesRuleFilters
<1> QED
  BY <1>11 DEF bare, b, p

\* For any rules, filters and events: what gets past the filters of an alert gets past its
\* rule's own, except where the alert replaces the required tag.
THEOREM FiltersNarrow == Spec => []FiltersOnlyNarrow
<1>1. TypeInv /\ FilterInv => FiltersOnlyNarrow
  <2> SUFFICES ASSUME TypeInv, FilterInv, NEW w \in Worker,
                      eval[w].stage \notin {"idle", "candidate"}, ~ReplacesTag(Binding(w))
               PROVE  ContentOf(w) \in AcceptingBare[loaded[w]][Candidate(w)]
    BY DEF FiltersOnlyNarrow
  <2> DEFINE i == loaded[w]
             a == Candidate(w)
             c == ContentOf(w)
  <2>1. i \in Versions /\ a \in DOMAIN Catalog[i] /\ c \in Content
    BY EvalIs, AtCandidate DEF TypeInv, ContentOf
  <2>2. c \in Accepting[i][a]
    BY DEF FilterInv, Fits
  <2>3. ~ReplacesTag(Catalog[i][a])
    BY DEF Binding, Bound
  <2> HIDE DEF i, a, c
  <2>4. Accepts(Catalog[i][a], Payload[c])
    BY <2>1, <2>2 DEF Accepting
  <2>5. Accepts([Catalog[i][a] EXCEPT !.filters = NoFilters], Payload[c])
    BY <2>1, <2>3, <2>4, Narrows
  <2>6. c \in AcceptingBare[i][a]
    BY <2>1, <2>5 DEF AcceptingBare
  <2> QED
    BY <2>6 DEF i, a, c
<1>2. Init => TypeInv /\ FilterInv
  BY TypeInit, FilterInit
<1>3. (TypeInv /\ FilterInv) /\ [Next]_vars => (TypeInv /\ FilterInv)'
  BY TypeStep, FilterStep
<1> QED
  BY <1>1, <1>2, <1>3, PTL DEF Spec

-----------------------------------------------------------------------------
(* Deferred watches.  Their store reads in one command and writes in the next, and any    *)
(* other worker may come between.                                                        *)

Busy(w) == eval[w].stage \notin {"idle", "candidate"}

OneWorker == \A v, w \in Worker : v = w

\* A step of w leaves the evaluations of the others alone.
OthersUntouched(w) ==
  \A v \in Worker : v # w => eval'[v] = eval[v] /\ loaded'[v] = loaded[v]

LEMMA StepOthers == ASSUME TypeInv, NEW w \in Worker, Step(w) PROVE OthersUntouched(w)
<1>1. PICK r \in Evaluation : eval' = [eval EXCEPT ![w] = r]
  BY StepMoves DEF Moves
<1> QED
  BY <1>1, StepKeeps DEF OthersUntouched, TypeInv, TypeOK

\* Decisions are numbered in the order they are made.
Numbered ==
  /\ \A d \in decisions : d.n <= Cardinality(decisions)
  /\ \A d1, d2 \in decisions : d1.n = d2.n => d1 = d2

\* An arming that has been fired is fired in Redis, or another arming has taken its place.
FiredInv ==
  /\ \A d \in decisions : d.arming <= armings
  /\ \A p \in Alert \X Market : watch[p].arming <= armings
  /\ \A d \in decisions :
       d.arming > 0 /\ watch[d.place].arming = d.arming => watch[d.place].fired

\* Who is between the commands of mark_fired read the watch before any decision there is
\* of its arming.
MarkInv ==
  \A w \in Worker : At(w, "mark") =>
    /\ eval[w].saw <= Cardinality(decisions) /\ eval[w].seen.arming <= armings
    /\ \A d \in decisions :
         d.place = Place(w) /\ d.arming = eval[w].seen.arming /\ d.arming > 0
           => d.n > eval[w].saw

FireInv == Numbered /\ FiredInv /\ MarkInv /\ FiredStaysFired

LEMMA FireInit == Init => FireInv
<1> SUFFICES ASSUME Init PROVE FireInv
  OBVIOUS
<1>1. /\ decisions = {} /\ armings = 0 /\ \A w \in Worker : eval[w].stage = "idle"
      /\ \A p \in Alert \X Market : watch[p].arming = 0
  BY IdleIs DEF Init, NoWatch
<1> QED
  BY <1>1 DEF FireInv, Numbered, FiredInv, MarkInv, At, FiredStaysFired

LEMMA FireTypes ==
  ASSUME TypeInv
  PROVE  /\ armings \in Nat /\ Cardinality(decisions) \in Nat
         /\ \A d \in decisions : /\ d.place \in Alert \X Market /\ d.arming \in Nat
                                 /\ d.n \in Nat /\ d.saw \in Nat
         /\ watch \in [Alert \X Market -> Watch]
         /\ \A p \in Alert \X Market : watch[p].arming \in Nat
         /\ \A w \in Worker : /\ Place(w) \in Alert \X Market /\ eval[w].saw \in Nat
                              /\ eval[w].seen \in Watch /\ eval[w].seen.arming \in Nat
  BY StoresFollow, EvalIs, FS_CardinalityType
     DEF TypeInv, StoresOK, Decision, Watch, Place, Candidate

\* A step that writes no watch, decides nothing and begins no mark_fired.
LEMMA FireKept ==
  ASSUME FireInv, UNCHANGED <<watch, decisions, armings>>,
         \A v \in Worker : At(v, "mark")' => eval'[v] = eval[v]
  PROVE  FireInv'
<1>1. Numbered' /\ FiredInv'
  BY DEF FireInv, Numbered, FiredInv
<1>2. MarkInv'
  <2>1. \A v \in Worker : At(v, "mark")' => At(v, "mark") /\ Place(v)' = Place(v)
    BY DEF At, Place, Candidate
  <2> QED
    BY <2>1 DEF FireInv, MarkInv
<1>3. FiredStaysFired'
  BY DEF FireInv, FiredStaysFired
<1> QED
  BY <1>1, <1>2, <1>3 DEF FireInv

\* mark_fired reads a watch that nobody has fired.
LEMMA FireLoad ==
  ASSUME TypeInv, FireInv, NEW w \in Worker, LoadForFire(w)
  PROVE  FireInv'
<1>1. UNCHANGED <<watch, decisions, armings>>
  BY DEF LoadForFire, keys, history
<1>2. CASE ~Live(watch[Place(w)], Time(w))
  <2>1. NextCandidate(w)
    BY <1>2 DEF LoadForFire
  <2>2. \A v \in Worker : At(v, "mark")' => eval'[v] = eval[v]
    BY <2>1, IdleIs DEF NextCandidate, At, TypeInv, TypeOK, Evaluation
  <2> QED
    BY <1>1, <2>2, FireKept
<1>3. CASE Live(watch[Place(w)], Time(w))
  <2> DEFINE wt == watch[Place(w)]
             made == Cardinality(decisions)
  <2>1. eval' = [eval EXCEPT ![w].stage = "mark", ![w].seen = wt, ![w].saw = made]
    BY <1>3 DEF LoadForFire
  <2>2. ~wt.fired
    BY <1>3 DEF Live
  <2> HIDE DEF wt, made
  <2>3. /\ eval'[w].seen = wt /\ eval'[w].saw = made
        /\ eval'[w].event = eval[w].event /\ eval'[w].alert = eval[w].alert
        /\ \A v \in Worker : v # w => eval'[v] = eval[v]
    BY <2>1, EvalIs DEF TypeInv, TypeOK, Evaluation
  <2>4. Place(w)' = Place(w)
    BY <2>3 DEF Place, Candidate
  <2>5. \A d \in decisions : d.place = Place(w) /\ d.arming > 0 => d.arming # wt.arming
    BY <2>2 DEF FireInv, FiredInv, wt
  <2>6. wt.arming <= armings /\ made \in Nat
    BY FireTypes DEF FireInv, FiredInv, wt, made
  <2>7. MarkInv'
    <3> SUFFICES ASSUME NEW v \in Worker, At(v, "mark")'
                 PROVE  (/\ eval[v].saw <= Cardinality(decisions)
                         /\ eval[v].seen.arming <= armings
                         /\ \A d \in decisions :
                              /\ d.place = Place(v) /\ d.arming = eval[v].seen.arming
                              /\ d.arming > 0
                              => d.n > eval[v].saw)'
      BY DEF MarkInv
    <3>1. CASE v = w
      BY <1>1, <2>3, <2>4, <2>5, <2>6, <3>1 DEF made
    <3>2. CASE v # w
      <4>1. At(v, "mark") /\ Place(v)' = Place(v) /\ eval'[v] = eval[v]
        BY <2>3, <3>2 DEF At, Place, Candidate
      <4> QED
        BY <1>1, <4>1 DEF FireInv, MarkInv
    <3> QED
      BY <3>1, <3>2
  <2>8. Numbered' /\ FiredInv' /\ FiredStaysFired'
    BY <1>1 DEF FireInv, Numbered, FiredInv, FiredStaysFired
  <2> QED
    BY <2>7, <2>8 DEF FireInv
<1> QED
  BY <1>2, <1>3

LEMMA FireQuiet ==
  ASSUME TypeInv, FireInv, NEW w \in Worker, Step(w), ~SaveArm(w), ~Reserve(w), ~SaveFired(w),
         ~LoadForFire(w)
  PROVE  FireInv'
<1>1. UNCHANGED <<watch, decisions, armings>>
  <2>1. Quiet(w) \/ ClearWindow(w) \/ OpenWindow(w)
    BY StepCases
  <2> QED
    BY <2>1, QuietWritesNothing DEF ClearWindow, OpenWindow, keys, history
<1>2. PICK r \in Evaluation : Goes(w, r) /\ eval' = [eval EXCEPT ![w] = r]
  BY StepMoves DEF Moves
<1>3. eval'[w] = r /\ \A v \in Worker : v # w => eval'[v] = eval[v]
  BY <1>2 DEF TypeInv, TypeOK
<1>4. r.stage # "mark"
  <2> SUFFICES ASSUME r.stage = "mark" PROVE FALSE
    OBVIOUS
  <2>1. At(w, "fire")
    BY <1>2, IdleIs DEF Goes
  <2> QED
    BY <2>1 DEF Step, Finish, SkipCandidate, Evaluate, LoadForArm, CheckCrossing, FailCrossing,
                IsNext, SaveArm, CheckWindow, ClearWindow, OpenWindow, PassWindows,
                SkipReserved, Reserve, SaveFired, At
<1>5. \A v \in Worker : At(v, "mark")' => eval'[v] = eval[v]
  BY <1>3, <1>4 DEF At
<1> QED
  BY <1>1, <1>5, FireKept

\* A new arming is not one that anybody has fired.
LEMMA FireArm ==
  ASSUME TypeInv, FireInv, NEW w \in Worker, SaveArm(w)
  PROVE  FireInv'
<1>1. armings' = armings + 1 /\ UNCHANGED decisions /\ NextCandidate(w)
  BY DEF SaveArm
<1>2. /\ watch'[Place(w)].arming = armings + 1
      /\ \A p \in Alert \X Market : p # Place(w) => watch'[p] = watch[p]
  BY FireTypes DEF SaveArm
<1>3. (\A p \in Alert \X Market : watch[p].arming <= armings)'
  <2> SUFFICES ASSUME NEW p \in Alert \X Market PROVE watch'[p].arming <= armings'
    OBVIOUS
  <2>1. CASE p = Place(w)
    BY <1>1, <1>2, <2>1, FireTypes
  <2>2. CASE p # Place(w)
    <3>1. watch'[p] = watch[p] /\ watch[p].arming \in Nat /\ watch[p].arming <= armings
      BY <1>2, <2>2, FireTypes DEF FireInv, FiredInv
    <3> QED
      BY <1>1, <3>1, FireTypes
  <2> QED
    BY <2>1, <2>2
<1>4. \A d \in decisions : d.arming <= armings /\ d.arming \in Nat /\ armings \in Nat
  BY FireTypes DEF FireInv, FiredInv
<1>5. (\A d \in decisions :
         d.arming > 0 /\ watch[d.place].arming = d.arming => watch[d.place].fired)'
  <2> SUFFICES ASSUME NEW d \in decisions, d.arming > 0, watch'[d.place].arming = d.arming
               PROVE  watch'[d.place].fired
    BY <1>1
  <2>1. d.place # Place(w)
    BY <1>2, <1>4
  <2>2. watch'[d.place] = watch[d.place]
    BY <1>2, <2>1, FireTypes
  <2> QED
    BY <2>2 DEF FireInv, FiredInv
<1>6. FiredInv'
  BY <1>1, <1>3, <1>4, <1>5 DEF FiredInv
<1>7. MarkInv'
  <2>1. \A v \in Worker : At(v, "mark")' =>
          At(v, "mark") /\ Place(v)' = Place(v) /\ eval'[v] = eval[v]
    BY <1>1, IdleIs DEF NextCandidate, At, Place, Candidate, TypeInv, TypeOK, Evaluation
  <2>2. \A v \in Worker : At(v, "mark") => eval[v].seen.arming <= armings + 1
    BY FireTypes DEF FireInv, MarkInv
  <2> QED
    BY <1>1, <2>1, <2>2 DEF FireInv, MarkInv
<1>8. Numbered' /\ FiredStaysFired'
  BY <1>1 DEF FireInv, Numbered, FiredStaysFired
<1> QED
  BY <1>6, <1>7, <1>8 DEF FireInv

\* A decision has the next number.
LEMMA DecideNumbers ==
  ASSUME TypeInv, FireInv, NEW w \in Worker, NEW arming, NEW n, NEW saw,
         Decide(w, arming, n, saw)
  PROVE  /\ Numbered' /\ Cardinality(decisions') = Cardinality(decisions) + 1
         /\ decisions \subseteq decisions'
         /\ \A d \in decisions' : d \in decisions \/
              /\ d.n = Cardinality(decisions) + 1 /\ d.place = Place(w)
              /\ d.arming = arming /\ d.saw = saw
<1> DEFINE made == Cardinality(decisions)
           d0 == [n |-> made + 1, place |-> Place(w), trigger |-> Trigger(w),
                  arming |-> arming, reservedAt |-> n, saw |-> saw]
<1>1. decisions' = decisions \cup {d0}
  BY DEF Decide
<1>2. d0.n = made + 1 /\ d0.place = Place(w) /\ d0.arming = arming /\ d0.saw = saw
  OBVIOUS
<1>3. IsFiniteSet(decisions) /\ made \in Nat
  BY FS_CardinalityType DEF TypeInv
<1>4. /\ \A d \in decisions : d.n <= made /\ d.n \in Nat
      /\ \A d1, d2 \in decisions : d1.n = d2.n => d1 = d2
  BY FireTypes DEF FireInv, Numbered
<1> HIDE DEF d0
<1>5. d0 \notin decisions
  BY <1>2, <1>3, <1>4
<1>6. Cardinality(decisions') = made + 1
  BY <1>1, <1>3, <1>5, FS_AddElement
<1> HIDE DEF made
<1>7. Numbered'
  <2>1. \A d \in decisions' : d.n <= made + 1
    BY <1>1, <1>2, <1>3, <1>4
  <2>2. \A d1, d2 \in decisions' : d1.n = d2.n => d1 = d2
    BY <1>1, <1>2, <1>3, <1>4
  <2> QED
    BY <1>6, <2>1, <2>2 DEF Numbered
<1> QED
  BY <1>1, <1>2, <1>6, <1>7 DEF made

LEMMA FireReserve ==
  ASSUME TypeInv, FireInv, NEW w \in Worker, Reserve(w)
  PROVE  FireInv'
<1>1. UNCHANGED <<watch, armings>>
  BY DEF Reserve
<1>2. CASE IsOneShot(Binding(w))
  <2>1. UNCHANGED decisions /\ eval' = [eval EXCEPT ![w].stage = "fire", ![w].reservedAt = clock]
    BY <1>2 DEF Reserve
  <2>2. eval'[w].stage = "fire" /\ \A v \in Worker : v # w => eval'[v] = eval[v]
    BY <2>1 DEF TypeInv, TypeOK, Evaluation
  <2>3. \A v \in Worker : At(v, "mark")' => eval'[v] = eval[v]
    BY <2>2 DEF At
  <2> QED
    BY <1>1, <2>1, <2>3, FireKept
<1>3. CASE ~IsOneShot(Binding(w))
  <2>1. Decide(w, 0, clock, 0) /\ NextCandidate(w)
    BY <1>3 DEF Reserve
  <2>2. /\ Numbered' /\ Cardinality(decisions') = Cardinality(decisions) + 1
        /\ \A d \in decisions' : d \in decisions \/ d.arming = 0
    BY <2>1, DecideNumbers
  <2>3. FiredInv'
    BY <1>1, <2>2, FireTypes DEF FireInv, FiredInv
  <2>4. FiredStaysFired'
    BY <2>2 DEF FireInv, FiredStaysFired
  <2>5. MarkInv'
    <3>1. \A v \in Worker : At(v, "mark")' =>
            At(v, "mark") /\ Place(v)' = Place(v) /\ eval'[v] = eval[v]
      BY <2>1, IdleIs DEF NextCandidate, At, Place, Candidate, TypeInv, TypeOK, Evaluation
    <3>2. \A v \in Worker : At(v, "mark") => eval[v].saw <= Cardinality(decisions) + 1
      BY FireTypes DEF FireInv, MarkInv
    <3> QED
      BY <1>1, <2>2, <3>1, <3>2 DEF FireInv, MarkInv
  <2> QED
    BY <2>2, <2>3, <2>4, <2>5 DEF FireInv
<1> QED
  BY <1>2, <1>3

LEMMA FireSaved ==
  ASSUME TypeInv, FireInv, NEW w \in Worker, SaveFired(w)
  PROVE  FireInv'
<1> DEFINE made == Cardinality(decisions)
           k == eval[w].seen.arming
<1>1. /\ UNCHANGED armings /\ NextCandidate(w) /\ At(w, "mark")
      /\ Decide(w, eval[w].seen.arming, eval[w].reservedAt, eval[w].saw)
  BY DEF SaveFired
<1>2. /\ k \in Nat /\ k <= armings /\ eval[w].saw \in Nat /\ eval[w].saw <= made
      /\ made \in Nat /\ armings \in Nat
  BY <1>1, FireTypes DEF FireInv, MarkInv
<1>3. /\ watch'[Place(w)].arming = k /\ watch'[Place(w)].fired
      /\ \A p \in Alert \X Market : p # Place(w) => watch'[p] = watch[p]
  <2>1. PICK ex : watch' = [watch EXCEPT ![Place(w)] = [eval[w].seen EXCEPT !.fired = TRUE,
                                                                            !.expiry = ex]]
    BY DEF SaveFired
  <2> QED
    BY <2>1, FireTypes DEF Watch
<1>4. /\ Numbered' /\ Cardinality(decisions') = made + 1
      /\ \A d \in decisions' :
           \/ d \in decisions
           \/ d.n = made + 1 /\ d.place = Place(w) /\ d.arming = k /\ d.saw = eval[w].saw
  BY <1>1, DecideNumbers
<1>5. \A d \in decisions : d.place = Place(w) /\ d.arming = k /\ d.arming > 0
        => d.n > eval[w].saw
  BY <1>1 DEF FireInv, MarkInv
<1>6. \A d \in decisions : /\ d.n \in Nat /\ d.n <= made /\ d.saw \in Nat
                           /\ d.place \in Alert \X Market
  BY FireTypes DEF FireInv, Numbered
<1> HIDE DEF made, k
<1>7. FiredInv'
  <2>1. (\A d \in decisions : d.arming <= armings)'
    BY <1>1, <1>2, <1>4 DEF FireInv, FiredInv
  <2>2. (\A p \in Alert \X Market : watch[p].arming <= armings)'
    BY <1>1, <1>2, <1>3 DEF FireInv, FiredInv
  <2>3. (\A d \in decisions :
           d.arming > 0 /\ watch[d.place].arming = d.arming => watch[d.place].fired)'
    <3> SUFFICES ASSUME NEW d \in decisions', d.arming > 0, watch'[d.place].arming = d.arming
                 PROVE  watch'[d.place].fired
      OBVIOUS
    <3>1. CASE d.place = Place(w)
      BY <1>3, <3>1
    <3>2. CASE d.place # Place(w)
      <4>1. d \in decisions
        BY <1>4, <3>2
      <4>2. watch'[d.place] = watch[d.place]
        BY <1>3, <1>6, <3>2, <4>1
      <4> QED
        BY <4>1, <4>2 DEF FireInv, FiredInv
    <3> QED
      BY <3>1, <3>2
  <2> QED
    BY <2>1, <2>2, <2>3 DEF FiredInv
<1>8. FiredStaysFired'
  <2> SUFFICES ASSUME NEW d1 \in decisions', NEW d2 \in decisions', d1.place = d2.place,
                      d1.arming = d2.arming, d1.arming > 0, d1.n < d2.n
               PROVE  d2.saw < d1.n
    BY DEF FiredStaysFired
  <2>1. CASE d1 \in decisions /\ d2 \in decisions
    BY <2>1 DEF FireInv, FiredStaysFired
  <2>2. CASE d1 \notin decisions
    BY <1>2, <1>4, <1>6, <2>2
  <2>3. CASE d1 \in decisions /\ d2 \notin decisions
    BY <1>2, <1>4, <1>5, <1>6, <2>3
  <2> QED
    BY <2>1, <2>2, <2>3
<1>9. MarkInv'
  <2> SUFFICES ASSUME NEW v \in Worker, At(v, "mark")'
               PROVE  (/\ eval[v].saw <= Cardinality(decisions)
                       /\ eval[v].seen.arming <= armings
                       /\ \A d \in decisions :
                            /\ d.place = Place(v) /\ d.arming = eval[v].seen.arming
                            /\ d.arming > 0
                            => d.n > eval[v].saw)'
    BY DEF MarkInv
  <2>1. At(v, "mark") /\ Place(v)' = Place(v) /\ eval'[v] = eval[v]
    BY <1>1, IdleIs DEF NextCandidate, At, Place, Candidate, TypeInv, TypeOK, Evaluation
  <2>2. /\ eval[v].saw <= made /\ eval[v].saw \in Nat /\ eval[v].seen.arming <= armings
        /\ \A d \in decisions :
             d.place = Place(v) /\ d.arming = eval[v].seen.arming /\ d.arming > 0
               => d.n > eval[v].saw
    BY <2>1, FireTypes DEF FireInv, MarkInv, made
  <2>3. \A d \in decisions' :
          d.place = Place(v) /\ d.arming = eval[v].seen.arming /\ d.arming > 0
            => d.n > eval[v].saw
    BY <1>2, <1>4, <2>2
  <2> QED
    BY <1>1, <1>2, <1>4, <2>1, <2>2, <2>3
<1> QED
  BY <1>4, <1>7, <1>8, <1>9 DEF FireInv

LEMMA FireStep == TypeInv /\ FireInv /\ [Next]_vars => FireInv'
<1> SUFFICES ASSUME TypeInv, FireInv, [Next]_vars PROVE FireInv'
  OBVIOUS
<1>1. ASSUME NEW w \in Worker, SetBindings(w)
      PROVE  FireInv'
  BY <1>1, FireKept DEF SetBindings, keys, history
<1>2. ASSUME NEW w \in Worker, NEW m \in Market, NEW c \in Content, NEW ts \in 0 .. clock + MaxAhead,
             Receive(w, m, c, ts)
      PROVE  FireInv'
  <2>1. PICK r \in Evaluation : eval' = [eval EXCEPT ![w] = r] /\ r.stage = "candidate"
    BY <1>2, ReceiveIs
  <2>2. \A v \in Worker : At(v, "mark")' => eval'[v] = eval[v]
    BY <2>1 DEF At, TypeInv, TypeOK
  <2> QED
    BY <1>2, <2>2, FireKept DEF Receive, keys, history
<1>3. ASSUME NEW w \in Worker, Crash(w)
      PROVE  FireInv'
  <2>1. \A v \in Worker : At(v, "mark")' => eval'[v] = eval[v]
    BY <1>3, IdleIs DEF Crash, At, TypeInv, TypeOK
  <2> QED
    BY <1>3, <2>1, FireKept DEF Crash, keys, history
<1>4. CASE Tick \/ UNCHANGED vars
  BY <1>4, FireKept DEF Tick, vars, keys, history
<1> QED
  BY <1>1, <1>2, <1>3, <1>4, FireQuiet, FireLoad, FireArm, FireReserve, FireSaved DEF Next

LEMMA FireAlways == Spec => [](TypeInv /\ FireInv)
<1>1. Init => TypeInv /\ FireInv
  BY TypeInit, FireInit
<1>2. (TypeInv /\ FireInv) /\ [Next]_vars => (TypeInv /\ FireInv)'
  BY TypeStep, FireStep
<1> QED
  BY <1>1, <1>2, PTL DEF Spec

\* For any number of workers, whatever interleaving of their GETs and SETs, replays and
\* crashes: once a firing is written, nobody who reads the watch after it fires that
\* arming again.
THEOREM FiringsStay == Spec => []FiredStaysFired
<1>1. TypeInv /\ FireInv => FiredStaysFired
  BY DEF FireInv
<1> QED
  BY <1>1, FireAlways, PTL

\* With one worker nothing is decided between the two commands of mark_fired.
AloneFires ==
  /\ \A w \in Worker : At(w, "mark") => eval[w].saw = Cardinality(decisions)
  /\ \A d \in decisions : d.arming > 0 => d.n = d.saw + 1

LEMMA AloneFiresStep ==
  ASSUME OneWorker
  PROVE  TypeInv /\ FireInv /\ AloneFires /\ [Next]_vars => AloneFires'
<1> SUFFICES ASSUME TypeInv, FireInv, AloneFires, [Next]_vars PROVE AloneFires'
  OBVIOUS
<1>1. ASSUME UNCHANGED decisions, \A v \in Worker : At(v, "mark")' => eval'[v] = eval[v]
      PROVE  AloneFires'
  BY <1>1 DEF AloneFires, At
<1>2. ASSUME NEW w \in Worker, NEW arming, NEW n, NEW saw, Decide(w, arming, n, saw),
             NextCandidate(w), arming > 0 => saw = Cardinality(decisions)
      PROVE  AloneFires'
  <2>1. eval'[w].stage = "candidate"
    BY <1>2, IdleIs DEF NextCandidate, TypeInv, TypeOK, Evaluation
  <2>2. \A v \in Worker : ~At(v, "mark")'
    BY <2>1 DEF OneWorker, At
  <2>3. \A d \in decisions' :
          \/ d \in decisions
          \/ d.n = Cardinality(decisions) + 1 /\ d.arming = arming /\ d.saw = saw
    BY <1>2, DecideNumbers
  <2> QED
    BY <1>2, <2>2, <2>3 DEF AloneFires
<1>3. ASSUME NEW w \in Worker, Step(w)
      PROVE  AloneFires'
  <2>1. CASE Reserve(w) /\ ~IsOneShot(Binding(w))
    <3>1. Decide(w, 0, clock, 0) /\ NextCandidate(w)
      BY <2>1 DEF Reserve
    <3> QED
      BY <1>2, <3>1
  <2>2. CASE Reserve(w) /\ IsOneShot(Binding(w))
    <3>1. UNCHANGED decisions /\ eval' = [eval EXCEPT ![w].stage = "fire",
                                                      ![w].reservedAt = clock]
      BY <2>2 DEF Reserve
    <3>2. \A v \in Worker : ~At(v, "mark")'
      BY <3>1 DEF OneWorker, At, TypeInv, TypeOK, Evaluation
    <3> QED
      BY <1>1, <3>1, <3>2
  <2>3. CASE SaveFired(w)
    <3>1. /\ Decide(w, eval[w].seen.arming, eval[w].reservedAt, eval[w].saw)
          /\ NextCandidate(w) /\ eval[w].saw = Cardinality(decisions)
      BY <2>3 DEF SaveFired, AloneFires
    <3> QED
      BY <1>2, <3>1
  <2>4. CASE LoadForFire(w) /\ Live(watch[Place(w)], Time(w))
    <3>1. /\ UNCHANGED decisions
          /\ eval' = [eval EXCEPT ![w].stage = "mark", ![w].seen = watch[Place(w)],
                                  ![w].saw = Cardinality(decisions)]
      BY <2>4 DEF LoadForFire, history
    <3>2. eval'[w].saw = Cardinality(decisions)
      BY <3>1, EvalIs DEF TypeInv, TypeOK, Evaluation
    <3> QED
      BY <3>1, <3>2 DEF AloneFires, OneWorker, At
  <2>5. CASE LoadForFire(w) /\ ~Live(watch[Place(w)], Time(w))
    <3>1. UNCHANGED decisions /\ NextCandidate(w)
      BY <2>5 DEF LoadForFire, history
    <3>2. \A v \in Worker : ~At(v, "mark")'
      BY <3>1, IdleIs DEF NextCandidate, OneWorker, At, TypeInv, TypeOK, Evaluation
    <3> QED
      BY <1>1, <3>1, <3>2
  <2>6. CASE ~Reserve(w) /\ ~SaveFired(w) /\ ~LoadForFire(w)
    <3>1. UNCHANGED decisions
      <4>1. Quiet(w) \/ SaveArm(w) \/ ClearWindow(w) \/ OpenWindow(w)
        BY <1>3, <2>6, StepCases
      <4> QED
        BY <4>1, QuietWritesNothing DEF SaveArm, ClearWindow, OpenWindow, history
    <3>2. PICK r \in Evaluation : Goes(w, r) /\ eval' = [eval EXCEPT ![w] = r]
      BY <1>3, StepMoves DEF Moves
    <3>3. r.stage = "mark" => At(w, "fire")
      BY <3>2, IdleIs DEF Goes
    <3>4. ~At(w, "fire")
      BY <1>3, <2>6 DEF Step, Finish, SkipCandidate, Evaluate, LoadForArm, CheckCrossing,
            FailCrossing, IsNext, SaveArm, CheckWindow, ClearWindow, OpenWindow, PassWindows,
            SkipReserved, At
    <3>5. \A v \in Worker : ~At(v, "mark")'
      BY <3>2, <3>3, <3>4 DEF OneWorker, At, TypeInv, TypeOK
    <3> QED
      BY <1>1, <3>1, <3>5
  <2> QED
    BY <2>1, <2>2, <2>3, <2>4, <2>5, <2>6
<1>4. ASSUME NEW w \in Worker, NEW m \in Market, NEW c \in Content, NEW ts \in 0 .. clock + MaxAhead,
             Receive(w, m, c, ts)
      PROVE  AloneFires'
  <2>1. PICK r \in Evaluation : eval' = [eval EXCEPT ![w] = r] /\ r.stage = "candidate"
    BY <1>4, ReceiveIs
  <2>2. \A v \in Worker : ~At(v, "mark")'
    BY <2>1 DEF OneWorker, At, TypeInv, TypeOK
  <2> QED
    BY <1>1, <1>4, <2>2 DEF Receive, history
<1>5. ASSUME NEW w \in Worker, Crash(w)
      PROVE  AloneFires'
  <2>1. \A v \in Worker : At(v, "mark")' => eval'[v] = eval[v]
    BY <1>5, IdleIs DEF Crash, At, TypeInv, TypeOK
  <2> QED
    BY <1>1, <1>5, <2>1 DEF Crash, history
<1>6. ((\E w \in Worker : SetBindings(w)) \/ Tick \/ UNCHANGED vars) => AloneFires'
  BY <1>1 DEF SetBindings, Tick, vars, history
<1> QED
  BY <1>3, <1>4, <1>5, <1>6 DEF Next

\* For one worker, however slow, and any rules, replays and crashes: an armed watch fires at
\* most once.
THEOREM OneWorkerFiresOnce == OneWorker => (Spec => []FireOncePerArming)
<1> SUFFICES ASSUME OneWorker PROVE Spec => []FireOncePerArming
  OBVIOUS
<1>1. TypeInv /\ FireInv /\ AloneFires => FireOncePerArming
  <2> SUFFICES ASSUME TypeInv, FireInv, AloneFires, NEW d1 \in decisions, NEW d2 \in decisions,
                      d1.place = d2.place, d1.arming = d2.arming, d1.arming > 0, d1 # d2
               PROVE  FALSE
    BY DEF FireOncePerArming
  <2>1. d1.n # d2.n /\ d1.n = d1.saw + 1 /\ d2.n = d2.saw + 1
    BY DEF FireInv, Numbered, AloneFires
  <2>2. d1.n \in Nat /\ d2.n \in Nat /\ d1.saw \in Nat /\ d2.saw \in Nat
    BY FireTypes
  <2>3. (d1.n < d2.n => d2.saw < d1.n) /\ (d2.n < d1.n => d1.saw < d2.n)
    BY DEF FireInv, FiredStaysFired
  <2> QED
    BY <2>1, <2>2, <2>3
<1>2. Init => AloneFires
  <2>1. Init => decisions = {} /\ \A w \in Worker : eval[w].stage = "idle"
    BY IdleIs DEF Init
  <2> QED
    BY <2>1 DEF AloneFires, At
<1>3. TypeInv /\ FireInv /\ AloneFires /\ [Next]_vars => AloneFires'
  BY AloneFiresStep
<1> QED
  BY <1>1, <1>2, <1>3, FireAlways, PTL DEF Spec

-----------------------------------------------------------------------------
(* Suppression windows. *)

\* The window has ended on the wall clock, up to the second that int() drops.
Past(win) == clock >= win.until - 1

\* It has, or another event has ended it.
Over(win) == Past(win) \/ win.fate # "kept"

\* What Redis knows of the windows that are still open.
StoredInv ==
  \A n \in DOMAIN windows :
    \/ Over(windows[n])
    \/ /\ window[windows[n].key].until >= windows[n].until
       /\ window[windows[n].key].expiry >= windows[n].until - 1

SinceInv == \A w \in Worker : eval[w].since <= Len(windows)

FreshInv == \A w \in Worker : At(w, "candidate") => eval[w].idx = 1

\* The entries of suppress_if the worker has found inactive.
Passed(w) ==
  {k \in Entries :
     \/ eval[w].stage \in {"window", "clear", "open"} /\ k < eval[w].idx
     \/ eval[w].stage \in {"clear", "open"} /\ k = eval[w].idx
     \/ eval[w].stage \in {"reserve", "fire", "mark"} /\ k \in DOMAIN Suppressions(w)}

KeyOf(w, k) == <<Candidate(w), eval[w].event.market, k>>

\* No window of entry k that was open when the event was taken still holds it back.
Clean(w, k) ==
  \A n \in DOMAIN windows :
    n <= eval[w].since /\ windows[n].key = KeyOf(w, k)
      => Over(windows[n]) \/ windows[n].until <= Time(w)

PassedInv == \A w \in Worker : \A k \in Passed(w) : Clean(w, k)

HoldInv == StoredInv /\ SinceInv /\ FreshInv /\ PassedInv

\* Windows are only added, and one that is over stays over.
Grown ==
  /\ clock' \in Nat /\ clock <= clock' /\ Len(windows) <= Len(windows')
  /\ \A n \in DOMAIN windows' : n \in Nat /\ (n \in DOMAIN windows \/ n > Len(windows))
  /\ \A n \in DOMAIN windows :
       /\ n \in DOMAIN windows'
       /\ windows'[n].key = windows[n].key /\ windows'[n].until = windows[n].until
       /\ windows[n].fate # "kept" => windows'[n].fate # "kept"

\* The worker goes on with the candidate it has.
SameCandidate(w) ==
  /\ eval'[w].event = eval[w].event /\ eval'[w].alert = eval[w].alert
  /\ eval'[w].since = eval[w].since

LEMMA HoldInit == Init => HoldInv
<1> SUFFICES ASSUME Init PROVE HoldInv
  OBVIOUS
<1>1. /\ windows = <<>> /\ Len(windows) = 0 /\ DOMAIN windows = {}
      /\ \A w \in Worker : eval[w].stage = "idle" /\ eval[w].since = 0
  BY IdleIs DEF Init, Idle
<1> QED
  BY <1>1 DEF HoldInv, StoredInv, SinceInv, FreshInv, PassedInv, Clean, At

LEMMA EntriesAre == Entries \subseteq Nat \ {0}
<1> SUFFICES ASSUME NEW k \in Entries PROVE k \in Nat \ {0}
  OBVIOUS
<1>1. PICK i \in Versions : \E a \in DOMAIN Catalog[i] : k \in DOMAIN Catalog[i][a].rule.suppressIf
  BY DEF Entries
<1>2. PICK a \in DOMAIN Catalog[i] : k \in DOMAIN Catalog[i][a].rule.suppressIf
  BY <1>1
<1>3. /\ Len(Catalog[i][a].rule.suppressIf) \in Nat
      /\ DOMAIN Catalog[i][a].rule.suppressIf = 1 .. Len(Catalog[i][a].rule.suppressIf)
  BY <1>2, BindingIs DEF WellFormed
<1> QED
  BY <1>2, <1>3

LEMMA HoldTypes ==
  ASSUME TypeInv
  PROVE  /\ clock \in Nat /\ Len(windows) \in Nat /\ DOMAIN windows = 1 .. Len(windows)
         /\ windows \in Seq(Opened)
         /\ \A n \in DOMAIN windows :
              windows[n].until \in Nat /\ windows[n].key \in Alert \X Market \X Entries
         /\ window \in [Alert \X Market \X Entries -> Window]
         /\ \A key \in Alert \X Market \X Entries :
              window[key].until \in Nat /\ window[key].expiry \in Nat
         /\ \A w \in Worker : eval[w].since \in Nat /\ Time(w) \in Nat
<1>1. /\ clock \in Nat /\ windows \in Seq(Opened)
      /\ window \in [Alert \X Market \X Entries -> Window]
  BY StoresFollow, RuleAssumption DEF TypeInv, TypeOK, StoresOK
<1>2. /\ Len(windows) \in Nat /\ DOMAIN windows = 1 .. Len(windows)
      /\ \A n \in DOMAIN windows : windows[n] \in Opened
  BY <1>1
<1>3. \A n \in DOMAIN windows :
        windows[n].until \in Nat /\ windows[n].key \in Alert \X Market \X Entries
  BY <1>2 DEF Opened
<1>4. \A w \in Worker : eval[w].since \in Nat /\ Time(w) \in Nat
  BY EvalIs DEF TypeInv, TypeOK, Evaluation, Time
<1>5. \A key \in Alert \X Market \X Entries :
        window[key].until \in Nat /\ window[key].expiry \in Nat
  BY <1>1 DEF Window
<1> QED
  BY <1>1, <1>2, <1>3, <1>4, <1>5

\* What opening a window does to the windows.
LEMMA OpenWindowIs ==
  ASSUME TypeInv, NEW w \in Worker, OpenWindow(w)
  PROVE  \E until \in Nat :
           /\ windows' = Append(CutShort(w, until),
                                [key |-> WindowKey(w), until |-> until, fate |-> "kept"])
           /\ Len(windows') = Len(windows) + 1
           /\ DOMAIN windows' = DOMAIN windows \cup {Len(windows) + 1}
           /\ \A n \in DOMAIN windows : windows'[n] = CutShort(w, until)[n]
           /\ windows'[Len(windows) + 1] =
                [key |-> WindowKey(w), until |-> until, fate |-> "kept"]
           /\ \E ex \in Nat :
                /\ ex >= until - 1
                /\ window' = [window EXCEPT ![WindowKey(w)] = [until |-> until, expiry |-> ex]]
<1> DEFINE until == Time(w) + Suppressions(w)[eval[w].idx].seconds
<1>1. eval[w].stage = "open"
  BY DEF OpenWindow, At
<1>2. until \in Nat
  <2>1. Suppressions(w)[eval[w].idx].seconds \in Nat
    BY <1>1, WindowKeyIs, AtCandidate DEF WellFormed, Suppressions
  <2> QED
    BY <1>1, <2>1, AtCandidate
<1>3. PICK ex \in KeyExpiries(until) :
        window' = [window EXCEPT ![WindowKey(w)] = [until |-> until, expiry |-> ex]]
  BY DEF OpenWindow
<1>4. windows' = Append(CutShort(w, until),
                        [key |-> WindowKey(w), until |-> until, fate |-> "kept"])
  BY DEF OpenWindow
<1> HIDE DEF until
<1>5. ex \in Nat /\ ex >= until - 1
  BY <1>2, <1>3, HoldTypes DEF KeyExpiries, Later
<1>6. /\ CutShort(w, until) \in Seq(Opened) /\ Len(CutShort(w, until)) = Len(windows)
      /\ Len(windows) \in Nat /\ DOMAIN windows = 1 .. Len(windows)
  BY CutShortIs, HoldTypes
<1> DEFINE cut == CutShort(w, until)
           new == [key |-> WindowKey(w), until |-> until, fate |-> "kept"]
<1>7. /\ cut \in Seq(Opened) /\ Len(cut) = Len(windows) /\ windows' = Append(cut, new)
  BY <1>4, <1>6
<1> HIDE DEF cut, new
<1>8. /\ Len(windows') = Len(windows) + 1
      /\ DOMAIN windows' = DOMAIN windows \cup {Len(windows) + 1}
      /\ \A n \in DOMAIN windows : windows'[n] = cut[n]
      /\ windows'[Len(windows) + 1] = new
  BY <1>6, <1>7
<1> QED
  BY <1>2, <1>3, <1>4, <1>5, <1>8 DEF cut, new

LEMMA WindowsGrow == TypeInv /\ [Next]_vars => Grown
<1> SUFFICES ASSUME TypeInv, [Next]_vars PROVE Grown
  OBVIOUS
<1>1. ASSUME UNCHANGED windows, clock' \in {clock, clock + 1}
      PROVE  Grown
  BY <1>1, HoldTypes DEF Grown
<1>2. ASSUME NEW w \in Worker, ClearWindow(w)
      PROVE  Grown
  <2>1. windows' = CutShort(w, 0) /\ UNCHANGED clock
    BY <1>2 DEF ClearWindow
  <2> QED
    BY <2>1, CutShortIs, HoldTypes DEF Grown
<1>3. ASSUME NEW w \in Worker, OpenWindow(w)
      PROVE  Grown
  <2>1. PICK until \in Nat :
          /\ Len(windows') = Len(windows) + 1
          /\ DOMAIN windows' = DOMAIN windows \cup {Len(windows) + 1}
          /\ \A n \in DOMAIN windows : windows'[n] = CutShort(w, until)[n]
    BY <1>3, OpenWindowIs
  <2>2. UNCHANGED clock /\ clock \in Nat
    BY <1>3, HoldTypes DEF OpenWindow
  <2>3. /\ Len(windows) \in Nat /\ Len(windows) <= Len(windows')
        /\ \A n \in DOMAIN windows' : n \in Nat /\ (n \in DOMAIN windows \/ n > Len(windows))
    BY <2>1, HoldTypes
  <2>4. \A n \in DOMAIN windows :
          /\ n \in DOMAIN windows'
          /\ windows'[n].key = windows[n].key /\ windows'[n].until = windows[n].until
          /\ windows[n].fate # "kept" => windows'[n].fate # "kept"
    BY <2>1, CutShortIs
  <2> QED
    BY <2>2, <2>3, <2>4 DEF Grown
<1>4. ASSUME NEW w \in Worker, Step(w)
      PROVE  Grown
  <2>1. UNCHANGED clock
    BY <1>4, StepKeeps
  <2>2. CASE ~ClearWindow(w) /\ ~OpenWindow(w)
    <3>1. UNCHANGED windows
      BY <1>4, <2>2, StepCases, QuietWritesNothing
         DEF SaveArm, Reserve, SaveFired, history
    <3> QED
      BY <1>1, <2>1, <3>1, HoldTypes
  <2> QED
    BY <1>2, <1>3, <2>2
<1>5. CASE (\E w \in Worker : SetBindings(w) \/ Crash(w)) \/ UNCHANGED vars
  BY <1>1, <1>5, HoldTypes DEF SetBindings, Crash, vars, history
<1>6. ASSUME NEW w \in Worker, NEW m \in Market, NEW c \in Content, NEW ts \in 0 .. clock + MaxAhead,
             Receive(w, m, c, ts)
      PROVE  Grown
  BY <1>1, <1>6, HoldTypes DEF Receive, history
<1>7. CASE Tick
  BY <1>1, <1>7, HoldTypes DEF Tick, history
<1> QED
  BY <1>4, <1>5, <1>6, <1>7 DEF Next

LEMMA FreshStep ==
  ASSUME TypeInv, FreshInv, SinceInv, [Next]_vars
  PROVE  FreshInv' /\ SinceInv'
<1>0. Len(windows) <= Len(windows') /\ Len(windows) \in Nat /\ Len(windows') \in Nat
      /\ \A w \in Worker : eval[w].since \in Nat
  BY WindowsGrow, TypeStep, HoldTypes, StoresFollow DEF Grown, StoresOK
<1>1. ASSUME NEW w \in Worker, NEW r \in Evaluation, eval' = [eval EXCEPT ![w] = r],
             r.stage = "candidate" => r.idx = 1, r.since <= Len(windows)
      PROVE  FreshInv' /\ SinceInv'
  <2>1. eval'[w] = r /\ \A v \in Worker : v # w => eval'[v] = eval[v]
    BY <1>1 DEF TypeInv, TypeOK
  <2>2. r.since \in Nat
    BY DEF Evaluation
  <2>3. \A v \in Worker : eval'[v].since \in Nat /\ eval'[v].since <= Len(windows)
    BY <1>0, <1>1, <2>1, <2>2 DEF SinceInv
  <2>4. SinceInv'
    BY <1>0, <2>3 DEF SinceInv
  <2> QED
    BY <1>1, <2>1, <2>4 DEF FreshInv, At
<1>2. ASSUME NEW w \in Worker, Moves(w)
      PROVE  FreshInv' /\ SinceInv'
  <2>1. PICK r \in Evaluation : Goes(w, r) /\ eval' = [eval EXCEPT ![w] = r]
    BY <1>2 DEF Moves
  <2>2. r.stage = "candidate" => r.idx = 1
    BY <2>1, IdleIs DEF Goes, FreshInv
  <2>3. r.since <= Len(windows)
    BY <1>0, <2>1, IdleIs DEF Goes, SinceInv, Idle
  <2> QED
    BY <1>1, <2>1, <2>2, <2>3
<1>3. ASSUME NEW w \in Worker, NEW m \in Market, NEW c \in Content, NEW ts \in 0 .. clock + MaxAhead,
             Receive(w, m, c, ts)
      PROVE  FreshInv' /\ SinceInv'
  <2>1. PICK r \in Evaluation : /\ eval' = [eval EXCEPT ![w] = r] /\ r.idx = 1
                                /\ r.since = Len(windows)
    BY <1>3, ReceiveIs
  <2>2. (r.stage = "candidate" => r.idx = 1) /\ r.since <= Len(windows)
    BY <1>0, <2>1
  <2> QED
    BY <1>1, <2>1, <2>2
<1>4. ASSUME NEW w \in Worker, Crash(w)
      PROVE  FreshInv' /\ SinceInv'
  <2>1. Moves(w)
    BY <1>4, IdleIs DEF Crash, Moves, Goes
  <2> QED
    BY <1>2, <2>1
<1>5. CASE UNCHANGED eval
  <2>1. \A v \in Worker : eval'[v].since <= Len(windows')
    BY <1>0, <1>5 DEF SinceInv
  <2> QED
    BY <1>5, <2>1 DEF FreshInv, SinceInv, At
<1>6. (\E w \in Worker : SetBindings(w)) \/ Tick \/ UNCHANGED vars => UNCHANGED eval
  BY DEF SetBindings, Tick, vars
<1> QED
  BY <1>2, <1>3, <1>4, <1>5, <1>6, StepMoves DEF Next

\* What does not hold a worker back does not come to hold it back: a window opened
\* meanwhile is none of those that were open when it took the event.
LEMMA CleanStays ==
  ASSUME TypeInv, SinceInv, Grown, NEW v \in Worker, SameCandidate(v), NEW k, Clean(v, k)
  PROVE  Clean(v, k)'
<1>1. KeyOf(v, k)' = KeyOf(v, k) /\ Time(v)' = Time(v) /\ eval'[v].since = eval[v].since
  BY DEF SameCandidate, KeyOf, Candidate, Time
<1> SUFFICES ASSUME NEW n \in DOMAIN windows', n <= eval[v].since,
                    windows'[n].key = KeyOf(v, k)
             PROVE  Over(windows[n])' \/ windows'[n].until <= Time(v)
  BY <1>1 DEF Clean
<1>2. n \in DOMAIN windows
  <2>1. eval[v].since \in Nat /\ eval[v].since <= Len(windows) /\ Len(windows) \in Nat
    BY HoldTypes DEF SinceInv
  <2>2. n \in Nat /\ (n \in DOMAIN windows \/ n > Len(windows))
    BY DEF Grown
  <2> QED
    BY <2>1, <2>2
<1>3. /\ windows'[n].key = windows[n].key /\ windows'[n].until = windows[n].until
      /\ windows[n].fate # "kept" => windows'[n].fate # "kept"
      /\ clock <= clock' /\ clock' \in Nat /\ clock \in Nat /\ windows[n].until \in Nat
  BY <1>2, HoldTypes DEF Grown
<1>4. Over(windows[n]) \/ windows[n].until <= Time(v)
  BY <1>2, <1>3 DEF Clean
<1> QED
  BY <1>3, <1>4 DEF Over, Past

\* A step of w finds the entries that the others have passed as clean as they were.
LEMMA PassedByOthers ==
  ASSUME TypeInv, SinceInv, PassedInv, Grown, NEW w \in Worker, OthersUntouched(w),
         NEW v \in Worker, v # w, NEW k \in Passed(v)'
  PROVE  Clean(v, k)'
<1>1. eval'[v] = eval[v] /\ loaded'[v] = loaded[v]
  BY DEF OthersUntouched
<1>2. Passed(v)' = Passed(v)
  BY <1>1 DEF Passed, Suppressions, Binding, Bound, Candidate, Entries
<1>3. SameCandidate(v)
  BY <1>1 DEF SameCandidate
<1> QED
  BY <1>2, <1>3, CleanStays DEF PassedInv

\* Nothing is held against a worker that has passed no entry.
LEMMA PassedNothing ==
  ASSUME TypeInv, SinceInv, PassedInv, Grown, NEW w \in Worker, OthersUntouched(w),
         \/ eval'[w].stage \in {"idle", "candidate", "arm"}
         \/ eval'[w].stage = "window" /\ eval'[w].idx = 1
  PROVE  PassedInv'
<1>1. Entries' = Entries /\ Entries \subseteq Nat \ {0}
  BY EntriesAre DEF Entries
<1>2. ASSUME NEW k \in Passed(w)'
      PROVE  FALSE
  <2>1. k \in Nat \ {0}
    BY <1>1, <1>2 DEF Passed
  <2>2. eval'[w].stage = "window" /\ k < eval'[w].idx
    BY <1>2 DEF Passed
  <2> QED
    BY <2>1, <2>2
<1>3. ASSUME NEW v \in Worker, NEW k \in Passed(v)'
      PROVE  Clean(v, k)'
  BY <1>2, <1>3, PassedByOthers
<1> QED
  BY <1>3 DEF PassedInv

\* A worker goes on with its candidate.
LEMMA PassedMore ==
  ASSUME TypeInv, SinceInv, PassedInv, Grown, NEW w \in Worker, OthersUntouched(w),
         SameCandidate(w), \A k \in Passed(w)' : Clean(w, k)
  PROVE  PassedInv'
<1>1. ASSUME NEW k \in Passed(w)'
      PROVE  Clean(w, k)'
  <2>1. Clean(w, k)
    BY <1>1
  <2> QED
    BY <2>1, CleanStays
<1>2. ASSUME NEW v \in Worker, NEW k \in Passed(v)'
      PROVE  Clean(v, k)'
  BY <1>1, <1>2, PassedByOthers
<1> QED
  BY <1>2 DEF PassedInv

LEMMA PastWindowIs ==
  ASSUME TypeInv, NEW w \in Worker, PastWindow(w)
  PROVE  /\ SameCandidate(w)
         /\ \/ eval'[w].stage = "open" /\ eval'[w].idx = eval[w].idx
            \/ eval'[w].stage = "window" /\ eval'[w].idx = eval[w].idx + 1
<1>1. eval[w] \in Evaluation /\ eval \in [Worker -> Evaluation]
  BY DEF TypeInv, TypeOK
<1>2. CASE Opens(w)
  <2>1. eval' = [eval EXCEPT ![w].stage = "open"]
    BY <1>2 DEF PastWindow, Goto
  <2> QED
    BY <1>1, <2>1 DEF SameCandidate, Evaluation
<1>3. CASE ~Opens(w)
  <2>1. eval' = [eval EXCEPT ![w].stage = "window", ![w].idx = @ + 1]
    BY <1>3 DEF PastWindow
  <2>2. eval'[w] = [eval[w] EXCEPT !.stage = "window", !.idx = @ + 1]
    BY <1>1, <2>1
  <2> QED
    BY <1>1, <2>2 DEF SameCandidate, Evaluation
<1> QED
  BY <1>2, <1>3

LEMMA GotoIs ==
  ASSUME TypeInv, NEW w \in Worker, NEW to, Goto(w, to)
  PROVE  SameCandidate(w) /\ eval'[w].stage = to /\ eval'[w].idx = eval[w].idx
  BY EvalIs DEF Goto, SameCandidate, TypeInv, TypeOK, Evaluation

\* The entry at hand is found inactive.
LEMMA PassedEntry ==
  ASSUME TypeInv, SinceInv, PassedInv, Grown, NEW w \in Worker,
         OthersUntouched(w), eval[w].stage \in {"window", "clear"},
         PastWindow(w) \/ Goto(w, "clear"), Clean(w, eval[w].idx)
  PROVE  PassedInv'
<1>1. /\ SameCandidate(w)
      /\ \/ eval'[w].stage \in {"clear", "open"} /\ eval'[w].idx = eval[w].idx
         \/ eval'[w].stage = "window" /\ eval'[w].idx = eval[w].idx + 1
  BY PastWindowIs, GotoIs
<1>2. eval[w].idx \in Nat /\ Entries \subseteq Nat /\ Entries' = Entries
  BY EvalIs, EntriesAre DEF TypeInv, Entries
<1>3. ASSUME NEW k \in Passed(w)'
      PROVE  Clean(w, k)
  <2>1. k \in Entries /\ k \in Nat
    BY <1>2, <1>3 DEF Passed
  <2>2. k < eval'[w].idx \/ (eval'[w].stage \in {"clear", "open"} /\ k = eval'[w].idx)
    BY <1>1, <1>3 DEF Passed
  <2>3. k < eval[w].idx \/ k = eval[w].idx
    BY <1>1, <1>2, <2>1, <2>2
  <2>4. k < eval[w].idx => k \in Passed(w)
    BY <2>1 DEF Passed
  <2> QED
    BY <2>3, <2>4 DEF PassedInv
<1> QED
  BY <1>1, <1>3, PassedMore

\* The stored windows are as they were, and no window is new.
LEMMA StoredKept ==
  ASSUME TypeInv, StoredInv, UNCHANGED <<window, windows>>, Grown
  PROVE  StoredInv'
<1>1. ASSUME NEW n \in DOMAIN windows, Over(windows[n])
      PROVE  Over(windows[n])'
  BY <1>1, HoldTypes DEF Over, Past, Grown
<1> QED
  BY <1>1 DEF StoredInv

LEMMA HoldCheckWindow ==
  ASSUME TypeInv, HoldInv, Grown, NEW w \in Worker, CheckWindow(w)
  PROVE  StoredInv' /\ PassedInv'
<1>1. /\ eval[w].stage = "window" /\ HasWindow(w)
      /\ UNCHANGED <<clock, loaded, window, windows>> /\ OthersUntouched(w)
  BY StepOthers DEF Step, CheckWindow, At, keys, history
<1>2. StoredInv'
  BY <1>1, StoredKept DEF HoldInv
<1>3. WindowKey(w) \in Alert \X Market \X Entries /\ KeyOf(w, eval[w].idx) = WindowKey(w)
  <2>1. /\ Candidate(w) \in DOMAIN Catalog[loaded[w]]
        /\ eval[w].idx \in 1 .. Len(Suppressions(w))
        /\ DOMAIN Suppressions(w) = 1 .. Len(Suppressions(w))
    BY <1>1, AtCandidate, EvalIs DEF TypeInv, HasWindow, WellFormed, Suppressions
  <2>2. eval[w].idx \in Entries
    BY <2>1, EntriesHold, EvalIs DEF TypeInv, Suppressions, Binding, Bound
  <2> QED
    BY <2>2, EvalIs DEF TypeInv, WindowKey, KeyOf, Candidate
<1>4. ASSUME ~Present(window[WindowKey(w)]) \/ Time(w) >= window[WindowKey(w)].until
      PROVE  Clean(w, eval[w].idx)
  <2> SUFFICES ASSUME NEW n \in DOMAIN windows, windows[n].key = WindowKey(w),
                      ~Over(windows[n])
               PROVE  windows[n].until <= Time(w)
    BY <1>3 DEF Clean
  <2>1. /\ window[WindowKey(w)].until >= windows[n].until
        /\ window[WindowKey(w)].expiry >= windows[n].until - 1
    BY DEF HoldInv, StoredInv
  <2>2. clock < windows[n].until - 1
    BY HoldTypes DEF Over, Past
  <2>3. Present(window[WindowKey(w)])
    BY <1>3, <2>1, <2>2, HoldTypes DEF Present
  <2> QED
    BY <1>3, <1>4, <2>1, <2>3, HoldTypes
<1>5. CASE ~Present(window[WindowKey(w)])
  <2>1. PastWindow(w)
    BY <1>5 DEF CheckWindow
  <2> QED
    BY <1>1, <1>2, <1>4, <1>5, <2>1, PassedEntry DEF HoldInv
<1>6. CASE Present(window[WindowKey(w)]) /\ Time(w) < window[WindowKey(w)].until
  <2>1. NextCandidate(w)
    BY <1>6 DEF CheckWindow
  <2>2. eval'[w].stage = "candidate"
    BY <2>1, IdleIs DEF NextCandidate, TypeInv, TypeOK, Evaluation
  <2> QED
    BY <1>1, <1>2, <2>2, PassedNothing DEF HoldInv
<1>7. CASE Present(window[WindowKey(w)]) /\ ~(Time(w) < window[WindowKey(w)].until)
  <2>1. Goto(w, "clear")
    BY <1>7 DEF CheckWindow
  <2>2. Time(w) >= window[WindowKey(w)].until
    BY <1>3, <1>7, HoldTypes
  <2>3. Clean(w, eval[w].idx)
    BY <1>4, <2>2
  <2> QED
    BY <1>1, <1>2, <2>1, <2>3, PassedEntry DEF HoldInv
<1> QED
  BY <1>5, <1>6, <1>7

\* Ending the windows of a key at `until' leaves none of them open after it.
LEMMA CutStored ==
  ASSUME TypeInv, StoredInv, NEW w \in Worker, NEW until \in Nat, UNCHANGED clock,
         NEW n \in DOMAIN windows,
         windows'[n] = CutShort(w, until)[n],
         windows[n].key = WindowKey(w) => window'[WindowKey(w)].until = until,
         windows[n].key = WindowKey(w) /\ until >= windows[n].until
           => window'[WindowKey(w)].expiry >= windows[n].until - 1,
         windows[n].key # WindowKey(w) => window'[windows[n].key] = window[windows[n].key]
  PROVE  \/ Over(windows[n])'
         \/ /\ window'[windows'[n].key].until >= windows'[n].until
            /\ window'[windows'[n].key].expiry >= windows'[n].until - 1
<1>1. /\ windows'[n].key = windows[n].key /\ windows'[n].until = windows[n].until
      /\ windows[n].fate # "kept" => windows'[n].fate # "kept"
      /\ /\ windows[n].key = WindowKey(w) /\ until < windows[n].until
         /\ clock < windows[n].until - 1
         => windows'[n].fate # "kept"
  BY CutShortIs
<1>2. windows[n].until \in Nat /\ clock \in Nat
  BY HoldTypes
<1>3. CASE windows[n].key = WindowKey(w)
  <2>1. CASE until >= windows[n].until
    BY <1>1, <1>3, <2>1
  <2>2. CASE clock >= windows[n].until - 1
    BY <1>1, <2>2 DEF Over, Past
  <2> QED
    BY <1>1, <1>2, <1>3, <2>1, <2>2 DEF Over
<1>4. CASE windows[n].key # WindowKey(w)
  <2>1. CASE Over(windows[n])
    BY <1>1, <2>1 DEF Over, Past
  <2>2. CASE ~Over(windows[n])
    BY <1>1, <1>4, <2>2 DEF StoredInv
  <2> QED
    BY <2>1, <2>2
<1> QED
  BY <1>3, <1>4

LEMMA HoldClearWindow ==
  ASSUME TypeInv, HoldInv, Grown, NEW w \in Worker, ClearWindow(w)
  PROVE  StoredInv' /\ PassedInv'
<1>1. /\ eval[w].stage = "clear" /\ PastWindow(w) /\ UNCHANGED clock
      /\ OthersUntouched(w) /\ windows' = CutShort(w, 0)
      /\ window' = [window EXCEPT ![WindowKey(w)] = NoWindow]
  BY StepOthers DEF Step, ClearWindow, At
<1>2. WindowKey(w) \in Alert \X Market \X Entries /\ eval[w].idx \in Entries
  BY <1>1, WindowKeyIs DEF WindowKey
<1>3. /\ \A key \in Alert \X Market \X Entries :
           key # WindowKey(w) => window'[key] = window[key]
      /\ window'[WindowKey(w)].until = 0
  BY <1>1, <1>2, HoldTypes DEF NoWindow
<1>4. StoredInv'
  <2> SUFFICES ASSUME NEW n \in DOMAIN windows'
               PROVE  \/ Over(windows[n])'
                      \/ /\ window'[windows'[n].key].until >= windows'[n].until
                         /\ window'[windows'[n].key].expiry >= windows'[n].until - 1
    BY DEF StoredInv
  <2>1. n \in DOMAIN windows
    BY <1>1, CutShortIs
  <2>2. windows[n].until \in Nat /\ windows[n].key \in Alert \X Market \X Entries
    BY <2>1, HoldTypes
  <2>3. CASE windows[n].key = WindowKey(w) /\ windows[n].until = 0
    <3>1. windows'[n].until = 0 /\ clock \in Nat
      BY <1>1, <2>1, <2>3, CutShortIs, HoldTypes
    <3> QED
      BY <1>1, <3>1 DEF Over, Past
  <2>4. CASE ~(windows[n].key = WindowKey(w) /\ windows[n].until = 0)
    <3>1. windows[n].key = WindowKey(w) => ~(0 >= windows[n].until)
      BY <2>2, <2>4
    <3>2. StoredInv /\ windows'[n] = CutShort(w, 0)[n] /\ 0 \in Nat
      BY <1>1 DEF HoldInv
    <3> QED
      BY <1>1, <1>3, <2>1, <2>2, <3>1, <3>2, CutStored
  <2> QED
    BY <2>3, <2>4
<1>5. eval[w].idx \in Passed(w)
  BY <1>1, <1>2 DEF Passed
<1>6. Clean(w, eval[w].idx)
  BY <1>5 DEF HoldInv, PassedInv
<1> QED
  BY <1>1, <1>4, <1>6, PassedEntry DEF HoldInv

LEMMA HoldOpenWindow ==
  ASSUME TypeInv, HoldInv, Grown, NEW w \in Worker, OpenWindow(w)
  PROVE  StoredInv' /\ PassedInv'
<1>1. eval[w].stage = "open" /\ NextCandidate(w) /\ UNCHANGED clock /\ OthersUntouched(w)
  BY StepOthers DEF Step, OpenWindow, At
<1>2. PICK until \in Nat :
        /\ DOMAIN windows' = DOMAIN windows \cup {Len(windows) + 1}
        /\ \A n \in DOMAIN windows : windows'[n] = CutShort(w, until)[n]
        /\ windows'[Len(windows) + 1] =
             [key |-> WindowKey(w), until |-> until, fate |-> "kept"]
        /\ \E ex \in Nat :
             /\ ex >= until - 1
             /\ window' = [window EXCEPT ![WindowKey(w)] = [until |-> until, expiry |-> ex]]
  BY OpenWindowIs
<1>3. PICK ex \in Nat :
        /\ ex >= until - 1
        /\ window' = [window EXCEPT ![WindowKey(w)] = [until |-> until, expiry |-> ex]]
  BY <1>2
<1>4. WindowKey(w) \in Alert \X Market \X Entries
  BY <1>1, WindowKeyIs
<1>5. /\ \A key \in Alert \X Market \X Entries :
           key # WindowKey(w) => window'[key] = window[key]
      /\ window'[WindowKey(w)].until = until /\ window'[WindowKey(w)].expiry = ex
  BY <1>3, <1>4, HoldTypes
<1>6. StoredInv'
  <2> SUFFICES ASSUME NEW n \in DOMAIN windows'
               PROVE  \/ Over(windows[n])'
                      \/ /\ window'[windows'[n].key].until >= windows'[n].until
                         /\ window'[windows'[n].key].expiry >= windows'[n].until - 1
    BY DEF StoredInv
  <2>1. CASE n \in DOMAIN windows
    <3>1. windows[n].until \in Nat /\ windows[n].key \in Alert \X Market \X Entries
      BY <2>1, HoldTypes
    <3>2. until >= windows[n].until => ex >= windows[n].until - 1
      BY <1>3, <3>1
    <3>3. StoredInv /\ windows'[n] = CutShort(w, until)[n]
      BY <1>2, <2>1 DEF HoldInv
    <3> QED
      BY <1>1, <1>5, <2>1, <3>1, <3>2, <3>3, CutStored
  <2>2. CASE n = Len(windows) + 1
    <3>1. windows'[n].key = WindowKey(w) /\ windows'[n].until = until
      BY <1>2, <2>2
    <3> QED
      BY <1>3, <1>5, <3>1
  <2> QED
    BY <1>2, <2>1, <2>2
<1>7. eval'[w].stage = "candidate"
  BY <1>1, IdleIs DEF NextCandidate, TypeInv, TypeOK, Evaluation
<1> QED
  BY <1>1, <1>6, <1>7, PassedNothing DEF HoldInv

LEMMA GoesPast ==
  ASSUME TypeInv, NEW w \in Worker, PassWindows(w) \/ Reserve(w) \/ LoadForFire(w),
         ~NextCandidate(w)
  PROVE  SameCandidate(w) /\ eval'[w].stage \in {"reserve", "fire", "mark"}
<1>1. eval[w] \in Evaluation /\ eval \in [Worker -> Evaluation]
  BY DEF TypeInv, TypeOK
<1>2. CASE PassWindows(w)
  <2>1. eval'[w] = [eval[w] EXCEPT !.stage = "reserve"]
    BY <1>1, <1>2 DEF PassWindows
  <2> QED
    BY <1>1, <2>1 DEF SameCandidate, Evaluation
<1>3. CASE Reserve(w)
  <2>1. eval'[w] = [eval[w] EXCEPT !.stage = "fire", !.reservedAt = clock]
    BY <1>1, <1>3 DEF Reserve
  <2> QED
    BY <1>1, <2>1 DEF SameCandidate, Evaluation
<1>4. CASE LoadForFire(w)
  <2> DEFINE s == watch[Place(w)]
             made == Cardinality(decisions)
  <2>1. eval' = [eval EXCEPT ![w].stage = "mark", ![w].seen = s, ![w].saw = made]
    BY <1>4 DEF LoadForFire
  <2> HIDE DEF s, made
  <2>2. eval'[w] = [eval[w] EXCEPT !.stage = "mark", !.seen = s, !.saw = made]
    BY <1>1, <2>1
  <2> QED
    BY <1>1, <2>2 DEF SameCandidate, Evaluation
<1> QED
  BY <1>2, <1>3, <1>4

\* Going on past suppress_if, with the keys of the entries.
LEMMA HoldPast ==
  ASSUME TypeInv, HoldInv, Grown, NEW w \in Worker,
         PassWindows(w) \/ Reserve(w) \/ LoadForFire(w)
  PROVE  StoredInv' /\ PassedInv'
<1>1. UNCHANGED <<clock, loaded, window, windows>> /\ OthersUntouched(w)
  BY StepOthers DEF Step, PassWindows, Reserve, LoadForFire, keys, history
<1>2. StoredInv'
  BY <1>1, StoredKept DEF HoldInv
<1>3. CASE NextCandidate(w)
  <2>1. eval'[w].stage = "candidate"
    BY <1>3, IdleIs DEF NextCandidate, TypeInv, TypeOK, Evaluation
  <2> QED
    BY <1>1, <1>2, <2>1, PassedNothing DEF HoldInv
<1>4. CASE ~NextCandidate(w)
  <2>1. SameCandidate(w) /\ eval'[w].stage \in {"reserve", "fire", "mark"}
    BY <1>4, GoesPast
  <2>2. Passed(w)' \subseteq DOMAIN Suppressions(w) \cap Entries
    <3>1. Suppressions(w)' = Suppressions(w) /\ Entries' = Entries
      BY <1>1, <2>1 DEF Suppressions, Binding, Bound, Candidate, Entries, SameCandidate
    <3> QED
      BY <2>1, <3>1 DEF Passed
  <2>3. DOMAIN Suppressions(w) \cap Entries \subseteq Passed(w)
    <3>1. CASE eval[w].stage \in {"reserve", "fire"}
      BY <3>1 DEF Passed
    <3>2. CASE eval[w].stage = "window" /\ ~HasWindow(w)
      <4>1. /\ Len(Suppressions(w)) \in Nat
            /\ DOMAIN Suppressions(w) = 1 .. Len(Suppressions(w))
        BY <3>2, AtCandidate DEF WellFormed, Suppressions
      <4>2. \A k \in DOMAIN Suppressions(w) : k < eval[w].idx
        BY <3>2, <4>1, EvalIs DEF TypeInv, HasWindow
      <4> QED
        BY <3>2, <4>2 DEF Passed
    <3> QED
      BY <3>1, <3>2 DEF PassWindows, Reserve, LoadForFire, At
  <2>4. \A k \in Passed(w)' : Clean(w, k)
    BY <2>2, <2>3 DEF HoldInv, PassedInv
  <2> QED
    BY <1>1, <1>2, <2>1, <2>4, PassedMore DEF HoldInv
<1> QED
  BY <1>3, <1>4

\* The other steps of an evaluation leave the worker with no entry passed.
LEMMA HoldElsewhere ==
  ASSUME TypeInv, HoldInv, Grown, NEW w \in Worker, Step(w), ~CheckWindow(w),
         ~ClearWindow(w), ~OpenWindow(w), ~PassWindows(w), ~Reserve(w), ~LoadForFire(w)
  PROVE  StoredInv' /\ PassedInv'
<1>1. \/ Finish(w) \/ SaveArm(w) \/ SkipReserved(w) \/ SaveFired(w)
      \/ \E a \in Alert : SkipCandidate(w, a) \/ Evaluate(w, a)
                          \/ LoadForArm(w, a) \/ CheckCrossing(w, a) \/ FailCrossing(w, a)
  BY DEF Step
<1>2. UNCHANGED <<window, windows>> /\ OthersUntouched(w)
  BY <1>1, StepOthers
     DEF Finish, SaveArm, SkipReserved, SaveFired, SkipCandidate, Evaluate, LoadForArm,
         CheckCrossing, FailCrossing, keys, history
<1>3. StoredInv'
  BY <1>2, StoredKept DEF HoldInv
<1>4. PICK r \in Evaluation : Goes(w, r) /\ eval' = [eval EXCEPT ![w] = r]
  BY StepMoves DEF Moves
<1>5. eval'[w] = r
  BY <1>4 DEF TypeInv, TypeOK
<1>6. CASE At(w, "candidate")
  <2>1. r.stage \in {"idle", "candidate", "arm"} \/ (r.stage = "window" /\ r.idx = 1)
    BY <1>4, <1>6, IdleIs DEF Goes, HoldInv, FreshInv, At
  <2> QED
    BY <1>2, <1>3, <1>5, <2>1, PassedNothing DEF HoldInv
<1>7. CASE ~At(w, "candidate")
  <2>1. NextCandidate(w)
    BY <1>1, <1>7 DEF Finish, SaveArm, SkipReserved, SaveFired, SkipCandidate, Evaluate,
                      LoadForArm, CheckCrossing, FailCrossing, IsNext
  <2>2. eval'[w].stage = "candidate"
    BY <2>1, IdleIs DEF NextCandidate, TypeInv, TypeOK, Evaluation
  <2> QED
    BY <1>2, <1>3, <2>2, PassedNothing DEF HoldInv
<1> QED
  BY <1>6, <1>7

LEMMA HoldStep == TypeInv /\ HoldInv /\ [Next]_vars => HoldInv'
<1> SUFFICES ASSUME TypeInv, HoldInv, [Next]_vars
             PROVE  StoredInv' /\ PassedInv'
  BY FreshStep DEF HoldInv
<1>0. Grown
  BY WindowsGrow
<1>1. ASSUME NEW w \in Worker, Step(w)
      PROVE  StoredInv' /\ PassedInv'
  BY <1>0, <1>1, HoldCheckWindow, HoldClearWindow, HoldOpenWindow, HoldPast, HoldElsewhere
<1>2. ASSUME UNCHANGED <<window, windows>>, NEW w \in Worker, OthersUntouched(w),
             eval'[w].stage \in {"idle", "candidate"}
      PROVE  StoredInv' /\ PassedInv'
  <2>1. StoredInv'
    BY <1>0, <1>2, StoredKept DEF HoldInv
  <2> QED
    BY <1>0, <1>2, <2>1, PassedNothing DEF HoldInv
<1>3. ASSUME NEW w \in Worker, SetBindings(w)
      PROVE  StoredInv' /\ PassedInv'
  <2>1. OthersUntouched(w)
    BY <1>3 DEF SetBindings, OthersUntouched, TypeInv, TypeOK
  <2> QED
    BY <1>2, <1>3, <2>1 DEF SetBindings, At, keys, history
<1>4. ASSUME NEW w \in Worker, NEW m \in Market, NEW c \in Content, NEW ts \in 0 .. clock + MaxAhead,
             Receive(w, m, c, ts)
      PROVE  StoredInv' /\ PassedInv'
  <2>1. PICK r \in Evaluation : eval' = [eval EXCEPT ![w] = r] /\ r.stage = "candidate"
    BY <1>4, ReceiveIs
  <2>2. eval'[w].stage = "candidate" /\ OthersUntouched(w)
    BY <1>4, <2>1 DEF Receive, OthersUntouched, TypeInv, TypeOK
  <2> QED
    BY <1>2, <1>4, <2>2 DEF Receive, keys, history
<1>5. ASSUME NEW w \in Worker, Crash(w)
      PROVE  StoredInv' /\ PassedInv'
  <2>1. eval'[w].stage = "idle" /\ OthersUntouched(w)
    BY <1>5, IdleIs DEF Crash, OthersUntouched, TypeInv, TypeOK
  <2> QED
    BY <1>2, <1>5, <2>1 DEF Crash, keys, history
<1>6. CASE Tick \/ UNCHANGED vars
  <2>1. UNCHANGED <<window, windows, eval, loaded>>
    BY <1>6 DEF Tick, vars, keys, history
  <2>2. StoredInv'
    BY <1>0, <2>1, StoredKept DEF HoldInv
  <2>3. ASSUME NEW v \in Worker, NEW k \in Passed(v)'
        PROVE  Clean(v, k)'
    <3>1. k \in Passed(v) /\ SameCandidate(v)
      BY <2>1, <2>3
         DEF Passed, SameCandidate, Suppressions, Binding, Bound, Candidate, Entries
    <3> QED
      BY <1>0, <3>1, CleanStays DEF HoldInv, PassedInv
  <2> QED
    BY <2>2, <2>3 DEF PassedInv
<1> QED
  BY <1>1, <1>3, <1>4, <1>5, <1>6 DEF Next

LEMMA HoldAlways == Spec => [](TypeInv /\ HoldInv)
<1>1. Init => TypeInv /\ HoldInv
  BY TypeInit, HoldInit
<1>2. (TypeInv /\ HoldInv) /\ [Next]_vars => (TypeInv /\ HoldInv)'
  BY TypeStep, HoldStep
<1> QED
  BY <1>1, <1>2, PTL DEF Spec

\* For any workers, any windows of any rules and any order of the events, timestamped late
\* or ahead of the clock: what gets to its trigger key found every window that was open when
\* its event was taken over, or ended by another event.
THEOREM WindowsAreHeld == Spec => []WindowsHold
<1>1. TypeInv /\ HoldInv => WindowsHold
  <2> SUFFICES ASSUME TypeInv, HoldInv, NEW w \in Worker, NEW n \in 1 .. eval[w].since,
                      eval[w].stage \in {"reserve", "fire", "mark"},
                      NEW k \in DOMAIN Suppressions(w),
                      windows[n].key = <<Candidate(w), eval[w].event.market, k>>,
                      Time(w) < windows[n].until
               PROVE  clock >= windows[n].until - 1 \/ windows[n].fate # "kept"
    BY DEF WindowsHold
  <2>1. k \in Entries
    BY AtCandidate, EntriesHold, EvalIs DEF TypeInv, Suppressions, Binding, Bound
  <2>2. Clean(w, k)
    BY <2>1 DEF Passed, HoldInv, PassedInv
  <2>3. n \in DOMAIN windows /\ n <= eval[w].since
    BY HoldTypes DEF HoldInv, SinceInv
  <2>4. Over(windows[n]) \/ windows[n].until <= Time(w)
    BY <2>2, <2>3 DEF Clean, KeyOf
  <2> QED
    BY <2>3, <2>4, HoldTypes DEF Over, Past
<1> QED
  BY <1>1, HoldAlways, PTL

\* What makes the windows of a single worker last: none is cut, and an entry it clears or
\* opens has nothing but windows that are past.
AloneInv ==
  /\ WindowsKept
  /\ \A w \in Worker : eval[w].stage \in {"clear", "open"} =>
       \A n \in DOMAIN windows : windows[n].key = WindowKey(w) => Past(windows[n])

\* Cutting short windows of a key that are past changes none of them.
LEMMA CutNothing ==
  ASSUME TypeInv, AloneInv, NEW w \in Worker, eval[w].stage \in {"clear", "open"},
         NEW until, NEW n \in DOMAIN windows
  PROVE  CutShort(w, until)[n] = windows[n]
<1>1. windows[n].key = WindowKey(w) => ~(clock < windows[n].until - 1)
  BY HoldTypes DEF AloneInv, Past
<1> QED
  BY <1>1 DEF CutShort

LEMMA AloneStep ==
  ASSUME OneWorker, MaxAhead <= 1
  PROVE  TypeInv /\ TimelyInv /\ HoldInv /\ AloneInv /\ [Next]_vars => AloneInv'
<1> SUFFICES ASSUME TypeInv, TimelyInv, HoldInv, AloneInv, [Next]_vars
             PROVE  AloneInv'
  OBVIOUS
<1>0. Grown
  BY WindowsGrow
<1>1. ASSUME UNCHANGED windows, NEW w \in Worker, eval'[w].stage \notin {"clear", "open"}
      PROVE  AloneInv'
  BY <1>1 DEF AloneInv, WindowsKept, OneWorker
<1>2. ASSUME UNCHANGED windows, NEW w \in Worker, SameCandidate(w),
             eval'[w].idx = eval[w].idx,
             \A n \in DOMAIN windows : windows[n].key = WindowKey(w) => Past(windows[n])
      PROVE  AloneInv'
  <2>1. WindowKey(w)' = WindowKey(w)
    BY <1>2 DEF WindowKey, SameCandidate, Candidate
  <2>2. \A n \in DOMAIN windows : Past(windows[n]) => Past(windows[n])'
    BY <1>0, <1>2, HoldTypes DEF Past, Grown
  <2> QED
    BY <1>2, <2>1, <2>2 DEF AloneInv, WindowsKept, OneWorker
<1>3. ASSUME NEW w \in Worker, CheckWindow(w)
      PROVE  AloneInv'
  <2>1. eval[w].stage = "window" /\ HasWindow(w) /\ UNCHANGED <<clock, windows>>
    BY <1>3 DEF CheckWindow, At, history
  <2>2. CASE NextCandidate(w)
    <3>1. eval'[w].stage = "candidate"
      BY <2>2, IdleIs DEF NextCandidate, TypeInv, TypeOK, Evaluation
    <3> QED
      BY <1>1, <2>1, <3>1
  <2>3. CASE ~NextCandidate(w)
    <3>1. PastWindow(w) \/ Goto(w, "clear")
      BY <1>3, <2>3 DEF CheckWindow
    <3>2. CASE eval'[w].stage \notin {"clear", "open"}
      BY <1>1, <2>1, <3>2
    <3>3. CASE eval'[w].stage \in {"clear", "open"}
      <4>1. SameCandidate(w) /\ eval'[w].idx = eval[w].idx
        BY <3>1, <3>3, PastWindowIs, GotoIs
      <4>2. WindowKey(w) \in Alert \X Market \X Entries
        <5>1. /\ Candidate(w) \in DOMAIN Catalog[loaded[w]]
              /\ eval[w].idx \in 1 .. Len(Suppressions(w))
              /\ DOMAIN Suppressions(w) = 1 .. Len(Suppressions(w))
          BY <2>1, AtCandidate, EvalIs DEF TypeInv, HasWindow, WellFormed, Suppressions
        <5>2. eval[w].idx \in Entries
          BY <5>1, EntriesHold, EvalIs DEF TypeInv, Suppressions, Binding, Bound
        <5> QED
          BY <5>2, EvalIs DEF TypeInv, WindowKey, Candidate
      <4>3. ~Present(window[WindowKey(w)]) \/ Time(w) >= window[WindowKey(w)].until
        BY <1>3, <2>3, <4>2, HoldTypes DEF CheckWindow
      <4>4. Time(w) <= clock + 1
        BY <2>1, RuleAssumption, HoldTypes DEF TimelyInv, At, Near
      <4>5. ASSUME NEW n \in DOMAIN windows, windows[n].key = WindowKey(w)
            PROVE  Past(windows[n])
        <5>1. CASE Over(windows[n])
          BY <4>5, <5>1 DEF Over, AloneInv, WindowsKept
        <5>2. CASE ~Over(windows[n])
          <6>1. /\ window[WindowKey(w)].until >= windows[n].until
                /\ window[WindowKey(w)].expiry >= windows[n].until - 1
            BY <4>5, <5>2 DEF HoldInv, StoredInv
          <6> QED
            BY <4>2, <4>3, <4>4, <6>1, HoldTypes DEF Present, Past
        <5> QED
          BY <5>1, <5>2
      <4> QED
        BY <1>2, <2>1, <4>1, <4>5
    <3> QED
      BY <3>2, <3>3
  <2> QED
    BY <2>2, <2>3
<1>4. ASSUME NEW w \in Worker, ClearWindow(w)
      PROVE  AloneInv'
  <2>1. /\ eval[w].stage = "clear" /\ PastWindow(w) /\ windows' = CutShort(w, 0)
    BY <1>4 DEF ClearWindow, At
  <2>2. UNCHANGED windows
    <3>1. \A n \in DOMAIN windows : CutShort(w, 0)[n] = windows[n]
      BY <2>1, CutNothing
    <3>2. CutShort(w, 0) = [n \in DOMAIN windows |-> CutShort(w, 0)[n]]
      BY DEF CutShort
    <3>3. windows = [n \in DOMAIN windows |-> windows[n]]
      BY HoldTypes
    <3> QED
      BY <2>1, <3>1, <3>2, <3>3
  <2>3. \A n \in DOMAIN windows : windows[n].key = WindowKey(w) => Past(windows[n])
    BY <2>1 DEF AloneInv
  <2>4. CASE eval'[w].stage \notin {"clear", "open"}
    BY <1>1, <2>2, <2>4
  <2>5. CASE eval'[w].stage \in {"clear", "open"}
    <3>1. SameCandidate(w) /\ eval'[w].idx = eval[w].idx
      BY <2>1, <2>5, PastWindowIs
    <3> QED
      BY <1>2, <2>2, <2>3, <3>1
  <2> QED
    BY <2>4, <2>5
<1>5. ASSUME NEW w \in Worker, OpenWindow(w)
      PROVE  AloneInv'
  <2>1. eval[w].stage = "open" /\ NextCandidate(w)
    BY <1>5 DEF OpenWindow, At
  <2>2. PICK until \in Nat :
          /\ DOMAIN windows' = DOMAIN windows \cup {Len(windows) + 1}
          /\ \A n \in DOMAIN windows : windows'[n] = CutShort(w, until)[n]
          /\ windows'[Len(windows) + 1] =
               [key |-> WindowKey(w), until |-> until, fate |-> "kept"]
    BY <1>5, OpenWindowIs
  <2>3. \A n \in DOMAIN windows : windows'[n].fate = "kept"
    BY <2>1, <2>2, CutNothing DEF AloneInv, WindowsKept
  <2>4. WindowsKept'
    BY <2>2, <2>3 DEF WindowsKept
  <2>5. eval'[w].stage = "candidate"
    BY <2>1, IdleIs DEF NextCandidate, TypeInv, TypeOK, Evaluation
  <2> QED
    BY <2>4, <2>5 DEF AloneInv, OneWorker
<1>6. ASSUME NEW w \in Worker, Step(w), ~CheckWindow(w), ~ClearWindow(w), ~OpenWindow(w)
      PROVE  AloneInv'
  <2>1. \/ Finish(w) \/ SaveArm(w) \/ SkipReserved(w) \/ SaveFired(w)
        \/ \E a \in Alert : SkipCandidate(w, a) \/ Evaluate(w, a)
                            \/ LoadForArm(w, a) \/ CheckCrossing(w, a) \/ FailCrossing(w, a)
        \/ PassWindows(w) \/ Reserve(w) \/ LoadForFire(w)
    BY <1>6 DEF Step
  <2>2. UNCHANGED windows
    BY <1>6, StepCases, QuietWritesNothing DEF SaveArm, Reserve, SaveFired, history
  <2>3. PICK r \in Evaluation : Goes(w, r) /\ eval' = [eval EXCEPT ![w] = r]
    BY <1>6, StepMoves DEF Moves
  <2>4. eval'[w] = r
    BY <2>3 DEF TypeInv, TypeOK
  <2>5. CASE At(w, "candidate")
    <3>1. r.stage \notin {"clear", "open"}
      BY <2>3, <2>5, IdleIs DEF Goes, At
    <3> QED
      BY <1>1, <2>2, <2>4, <3>1
  <2>6. CASE NextCandidate(w)
    <3>1. eval'[w].stage = "candidate"
      BY <2>6, IdleIs DEF NextCandidate, TypeInv, TypeOK, Evaluation
    <3> QED
      BY <1>1, <2>2, <3>1
  <2>7. CASE ~At(w, "candidate") /\ ~NextCandidate(w)
    <3>1. PassWindows(w) \/ Reserve(w) \/ LoadForFire(w)
      BY <2>1, <2>7 DEF Finish, SaveArm, SkipReserved, SaveFired, SkipCandidate, Evaluate,
                        LoadForArm, CheckCrossing, FailCrossing, IsNext
    <3>2. eval'[w].stage \in {"reserve", "fire", "mark"}
      BY <2>7, <3>1, GoesPast
    <3> QED
      BY <1>1, <2>2, <3>2
  <2> QED
    BY <2>5, <2>6, <2>7
<1>7. ASSUME NEW w \in Worker, NEW m \in Market, NEW c \in Content, NEW ts \in 0 .. clock + MaxAhead,
             Receive(w, m, c, ts)
      PROVE  AloneInv'
  <2>1. PICK r \in Evaluation : eval' = [eval EXCEPT ![w] = r] /\ r.stage = "candidate"
    BY <1>7, ReceiveIs
  <2>2. eval'[w].stage = "candidate" /\ UNCHANGED windows
    BY <1>7, <2>1 DEF Receive, history, TypeInv, TypeOK
  <2> QED
    BY <1>1, <2>2
<1>8. ASSUME NEW w \in Worker, Crash(w)
      PROVE  AloneInv'
  <2>1. eval'[w].stage = "idle" /\ UNCHANGED windows
    BY <1>8, IdleIs DEF Crash, history, TypeInv, TypeOK
  <2> QED
    BY <1>1, <2>1
<1>9. ASSUME NEW w \in Worker, SetBindings(w)
      PROVE  AloneInv'
  <2>1. eval'[w].stage = "idle" /\ UNCHANGED windows
    BY <1>9 DEF SetBindings, At, history
  <2> QED
    BY <1>1, <2>1
<1>10. CASE Tick \/ UNCHANGED vars
  <2>1. UNCHANGED <<windows, eval>>
    BY <1>10 DEF Tick, vars, history
  <2>2. \A n \in DOMAIN windows : Past(windows[n]) => Past(windows[n])'
    BY <1>0, <2>1, HoldTypes DEF Past, Grown
  <2> QED
    BY <2>1, <2>2 DEF AloneInv, WindowsKept, WindowKey, Candidate
<1> QED
  BY <1>3, <1>4, <1>5, <1>6, <1>7, <1>8, <1>9, <1>10 DEF Next

\* For a single worker whose events are timestamped no more than the second that int() drops
\* ahead of the clock, no window is ended early: with WindowsAreHeld, what passes a window
\* came at its end or later.
THEOREM OneWorkerKeepsWindows == OneWorker /\ MaxAhead <= 1 => (Spec => []WindowsKept)
<1> SUFFICES ASSUME OneWorker, MaxAhead <= 1 PROVE Spec => []WindowsKept
  OBVIOUS
<1>1. Init => TypeInv /\ TimelyInv /\ HoldInv /\ AloneInv
  <2>1. ASSUME Init
        PROVE  AloneInv
    <3>1. DOMAIN windows = {} /\ \A w \in Worker : eval[w].stage = "idle"
      BY <2>1, IdleIs DEF Init
    <3> QED
      BY <3>1 DEF AloneInv, WindowsKept
  <2> QED
    BY <2>1, TypeInit, TimelyInit, HoldInit
<1>2. (TypeInv /\ TimelyInv /\ HoldInv /\ AloneInv) /\ [Next]_vars
        => (TypeInv /\ TimelyInv /\ HoldInv /\ AloneInv)'
  BY TypeStep, TimelyStep, HoldStep, AloneStep
<1>3. AloneInv => WindowsKept
  BY DEF AloneInv
<1> QED
  BY <1>1, <1>2, <1>3, PTL DEF Spec

-----------------------------------------------------------------------------
(* Expressions, and what the prefilter finds. *)

\* A node is as true as the nodes before it make it.
LEMMA NodeAgrees ==
  ASSUME NEW node, NEW f, NEW g, NEW v, NEW u,
         IsGroup(node) => \A j \in node.of : f[j] = g[j],
         ~IsGroup(node) => (Holds(node, v) <=> Holds(node, u))
  PROVE  NodeTruth(node, f, v) = NodeTruth(node, g, u)
<1>1. CASE node.op = "AND"
  BY <1>1 DEF NodeTruth, IsGroup
<1>2. CASE node.op = "OR"
  BY <1>2 DEF NodeTruth, IsGroup
<1>3. CASE node.op = "NOT"
  BY <1>3 DEF NodeTruth, IsGroup
<1>4. CASE ~IsGroup(node)
  BY <1>4 DEF NodeTruth, IsGroup, Holds
<1> QED
  BY <1>1, <1>2, <1>3, <1>4 DEF IsGroup

\* The truth of the nodes is a function: each looks at earlier ones only.
LEMMA TruthsExist ==
  ASSUME NEW e, IsExpression(e), NEW v
  PROVE  \E f : f = [i \in DOMAIN e |-> NodeTruth(e[i], f, v)]
<1> DEFINE Upto(f, n) == \A i \in DOMAIN e : i <= n => f[i] = NodeTruth(e[i], f, v)
<1>D. /\ DOMAIN e = 1 .. Len(e) /\ Len(e) \in Nat
      /\ \A i \in DOMAIN e : i \in Nat /\ i # 0
      /\ \A i \in DOMAIN e : IsGroup(e[i]) => \A j \in e[i].of : j \in DOMAIN e /\ j <= i - 1
  BY DEF IsExpression
<1>1. \E f : Upto(f, 0)
  BY <1>D
<1>2. ASSUME NEW n \in Nat \ {0}, NEW f, Upto(f, n - 1)
      PROVE  \E g : Upto(g, n)
  <2> DEFINE g == [i \in DOMAIN e |-> NodeTruth(e[i], f, v)]
  <2>1. \A i \in DOMAIN e : i <= n - 1 => g[i] = f[i]
    BY <1>2
  <2>2. \A i \in DOMAIN e : g[i] = NodeTruth(e[i], f, v)
    OBVIOUS
  <2> HIDE DEF g
  <2>3. ASSUME NEW i \in DOMAIN e, i <= n
        PROVE  g[i] = NodeTruth(e[i], g, v)
    <3>1. IsGroup(e[i]) => \A j \in e[i].of : f[j] = g[j]
      <4> SUFFICES ASSUME IsGroup(e[i]), NEW j \in e[i].of PROVE f[j] = g[j]
        OBVIOUS
      <4>1. j \in DOMAIN e /\ j \in Nat /\ i \in Nat /\ j <= i - 1
        BY <1>D
      <4> QED
        BY <1>2, <2>1, <2>3, <4>1
    <3> QED
      BY <2>2, <3>1, NodeAgrees
  <2> QED
    BY <2>3
<1>3. \A n \in Nat : \E f : Upto(f, n)
  <2> DEFINE Bad == {n \in Nat : ~ \E f : Upto(f, n)}
  <2>1. SUFFICES ASSUME Bad # {} PROVE FALSE
    OBVIOUS
  <2>2. PICK n \in Bad : \A m \in Bad : n <= m
    BY <2>1, Least
  <2> HIDE DEF Upto
  <2>3. n \in Nat /\ n # 0
    BY <1>1
  <2>4. n - 1 \in Nat /\ n - 1 \notin Bad
    BY <2>2, <2>3
  <2> QED
    BY <1>2, <2>3, <2>4
<1>4. PICK f : Upto(f, Len(e))
  BY <1>3, <1>D
<1> DEFINE g == [i \in DOMAIN e |-> f[i]]
<1>5. \A i \in DOMAIN e : g[i] = NodeTruth(e[i], g, v)
  <2> SUFFICES ASSUME NEW i \in DOMAIN e PROVE g[i] = NodeTruth(e[i], g, v)
    OBVIOUS
  <2>1. IsGroup(e[i]) => \A j \in e[i].of : f[j] = g[j]
    BY <1>D
  <2>2. g[i] = f[i] /\ f[i] = NodeTruth(e[i], f, v)
    BY <1>4, <1>D
  <2> HIDE DEF g
  <2> QED
    BY <2>1, <2>2, NodeAgrees
<1>6. g = [i \in DOMAIN e |-> g[i]]
  OBVIOUS
<1> HIDE DEF g
<1> QED
  BY <1>5, <1>6

LEMMA TruthsAre ==
  ASSUME NEW e, IsExpression(e), NEW v
  PROVE  \A i \in DOMAIN e : Truths(e, v)[i] = NodeTruth(e[i], Truths(e, v), v)
<1>1. Truths(e, v) = CHOOSE f : f = [i \in DOMAIN e |-> NodeTruth(e[i], f, v)]
  BY DEF Truths
<1>2. Truths(e, v) = [i \in DOMAIN e |-> NodeTruth(e[i], Truths(e, v), v)]
  BY <1>1, TruthsExist
<1> QED
  BY <1>2

\* An expression is as true of values that have none of its signals as of none at all.
LEMMA TruthWithoutSignals ==
  ASSUME NEW e, IsExpression(e), NEW v, NEW u,
         SignalsOf(e) \cap DOMAIN v = {}, SignalsOf(e) \cap DOMAIN u = {}
  PROVE  Truth(e, v) = Truth(e, u)
<1> DEFINE T == Truths(e, v)
           U == Truths(e, u)
           Bad == {i \in DOMAIN e : T[i] # U[i]}
<1>D. /\ DOMAIN e \subseteq Nat /\ Len(e) \in DOMAIN e
      /\ \A i \in DOMAIN e : IsGroup(e[i]) => \A j \in e[i].of : j \in DOMAIN e /\ j < i
  BY DEF IsExpression
<1>1. SUFFICES ASSUME Bad # {} PROVE FALSE
  BY <1>D DEF Truth
<1>2. PICK i \in Bad : \A j \in Bad : i <= j
  <2>1. Bad \subseteq Nat
    BY <1>D
  <2> HIDE DEF Bad
  <2> QED
    BY <1>1, <2>1, Least
<1>3. T[i] = NodeTruth(e[i], T, v) /\ U[i] = NodeTruth(e[i], U, u)
  BY TruthsAre
<1>4. i \in DOMAIN e /\ T[i] # U[i]
  OBVIOUS
<1>5. IsGroup(e[i]) => \A j \in e[i].of : T[j] = U[j]
  <2> SUFFICES ASSUME IsGroup(e[i]), NEW j \in e[i].of PROVE T[j] = U[j]
    OBVIOUS
  <2>1. j \in DOMAIN e /\ j < i /\ j \in Nat /\ i \in Nat
    BY <1>D, <1>4
  <2>2. j \notin Bad
    BY <1>2, <2>1
  <2> QED
    BY <2>1, <2>2
<1>6. ~IsGroup(e[i]) => (Holds(e[i], v) <=> Holds(e[i], u))
  <2> SUFFICES ASSUME ~IsGroup(e[i]) PROVE ~Holds(e[i], v) /\ ~Holds(e[i], u)
    OBVIOUS
  <2>1. e[i].signal \in SignalsOf(e)
    BY <1>4 DEF SignalsOf
  <2> QED
    BY <2>1 DEF Holds
<1> HIDE DEF T, U
<1> QED
  BY <1>3, <1>4, <1>5, <1>6, NodeAgrees

\* An alert that is due is filed under a field the event has: if its expression is true,
\* it has a signal of the event, for it is false without any.
LEMMA DueIsFiled ==
  ASSUME NEW i \in Versions, NEW c \in Content, NEW a \in Due[i][c]
  PROVE  LET b == Catalog[i][a]
         IN FiledFields(b) \cap (DOMAIN Features(Payload[c]) \cup {"*"}) # {}
<1> DEFINE b == Catalog[i][a]
<1>1. a \in DOMAIN Catalog[i] /\ WellFormed(b)
  BY BindingIs DEF Due
<1>2. /\ c \in Satisfying[i][a] \/ IsOneShot(b)
      /\ SignalsOf(b.rule.expression) \subseteq FieldPaths(b.rule)
      /\ ~Truth(b.rule.expression, <<>>)
  BY DEF Due
<1>3. IsExpression(b.rule.expression)
  BY <1>1 DEF WellFormed
<1> HIDE DEF b
<1>4. CASE IsOneShot(b) \/ FieldPaths(b.rule) = {}
  BY <1>4 DEF FiledFields, b
<1>5. CASE ~IsOneShot(b) /\ FieldPaths(b.rule) # {}
  <2>1. Truth(b.rule.expression, Features(Payload[c]))
    BY <1>1, <1>2, <1>5 DEF Satisfying, Values, b
  <2>2. SignalsOf(b.rule.expression) \cap DOMAIN <<>> = {}
    OBVIOUS
  <2>3. SignalsOf(b.rule.expression) \cap DOMAIN Features(Payload[c]) # {}
    BY <1>2, <1>3, <2>1, <2>2, TruthWithoutSignals
  <2>4. FieldPaths(b.rule) \subseteq FiledFields(b)
    BY <1>5 DEF FiledFields
  <2> QED
    BY <1>2, <2>3, <2>4 DEF b
<1> QED
  BY <1>4, <1>5 DEF b

\* An alert that is due has a tag of the event among those it is filed under, or none.
LEMMA DueIsTagged ==
  ASSUME NEW i \in Versions, NEW c \in Content, NEW a \in Due[i][c]
  PROVE  LET b == Catalog[i][a]
         IN FiledTags(b) = {} \/ FiledTags(b) \cap EventTags(Payload[c]) # {}
<1> DEFINE b == Catalog[i][a]
<1>1. a \in DOMAIN Catalog[i] /\ c \in Accepting[i][a]
  BY DEF Due
<1>2. /\ ~(ReplacesTag(b) /\ b.rule.categoryTags = {})
      /\ b.rule.categoryTags # {""}
  BY DEF Due
<1>3. /\ RuleTags(b.rule) = {} \/ RuleTags(b.rule) \cap EventTags(Payload[c]) # {}
      /\ RequiredTag(b) \subseteq EventTags(Payload[c])
  BY <1>1 DEF Accepting, Accepts, TagsMatch, PassesRuleFilters
<1> HIDE DEF b
<1>4. CASE b.rule.categoryTags # {}
  <2>1. RuleTags(b.rule) # {}
    BY <1>2, <1>4 DEF RuleTags
  <2>2. RuleTags(b.rule) \subseteq FiledTags(b)
    BY <1>4 DEF RuleTags, FiledTags
  <2> QED
    BY <1>3, <2>1, <2>2 DEF b
<1>5. CASE b.rule.categoryTags = {}
  <2>1. FiledTags(b) = b.rule.requireTag
    BY <1>5 DEF FiledTags
  <2>2. b.rule.requireTag # {} => RequiredTag(b) = b.rule.requireTag
    BY <1>2, <1>5 DEF ReplacesTag, RequiredTag
  <2> QED
    BY <1>3, <2>1, <2>2 DEF b
<1> QED
  BY <1>4, <1>5

\* The prefilter loses no alert, whatever the rules, the filters and the payloads: one whose
\* filters pass and whose expression is true, or whose watch the event arms, is among the
\* candidates, with the exceptions that Due names (prefilter.py, runtime.py).
THEOREM MatchesAreTried == Spec => []EveryMatchIsTried
<1>1. ASSUME NEW i \in Versions, NEW c \in Content
      PROVE  Due[i][c] \subseteq Candidates[i][c]
  <2> SUFFICES ASSUME NEW a \in Due[i][c] PROVE a \in Candidates[i][c]
    OBVIOUS
  <2>1. /\ a \in DOMAIN Catalog[i]
        /\ ObjectOf(Payload[c].type) \in FiledObjects(Catalog[i][a])
    BY DEF Due
  <2> QED
    BY <2>1, DueIsFiled, DueIsTagged DEF Candidates, Lookup
<1>2. TypeOK => EveryMatchIsTried
  BY <1>1, EvalIs DEF EveryMatchIsTried, ContentOf
<1> QED
  BY <1>2, TypeCorrect, PTL

=============================================================================
