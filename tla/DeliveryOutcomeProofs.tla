----------------------- MODULE DeliveryOutcomeProofs -----------------------
(***************************************************************************)
(* What becomes of an accepted delivery, for any number of workers,        *)
(* channels and attempts: it is sent under its own reservation, its        *)
(* attempts are on record before the next is made, nothing is sent after   *)
(* its outcome, it has an outcome or was dropped with a reason, and the    *)
(* slot it took is given back once.                                        *)
(***************************************************************************)
EXTENDS DeliveryProofs, Induction, SequenceTheorems

Sends(c) == c.stage \in {"sending", "answered"}

\* Of an item, an attempt or a receipt: its reservation was made, a terminal attempt of
\* it is on record, its attempt of that number is on record as one to be retried.
Claimed(x, made) == \E c \in made : c.key = x.key /\ c.n = x.n
Settled(x, records) == \E a \in records : a.key = x.key /\ a.n = x.n /\ a.status # "retrying"
Tried(x, no, records) ==
  [key |-> x.key, n |-> x.n, no |-> no, status |-> "retrying"] \in records

\* The items of a call are reserved and open, and the attempts before the one under way
\* are on record.
Flown(c) ==
  /\ c.stage \in {"idle", "audit", "index"} => c.items = <<>>
  /\ ~Sends(c) => c.attempt = 1
  /\ \A i \in DOMAIN c.items : Claimed(c.items[i], claims) /\ ~Settled(c.items[i], attempts)
  /\ Sends(c) => \A no \in 1 .. c.attempt - 1 : Tried(Head(c.items), no, attempts)

ClaimsNumbered == \A c \in claims : c.n <= ClaimCount(c.key)

ItemsDistinct ==
  \A d, o \in Dispatch : \A i \in DOMAIN call[d].items, j \in DOMAIN call[o].items :
    call[d].items[i] = call[o].items[j] => d = o /\ i = j

Flying == TypeInv /\ \A d \in Dispatch : Flown(call[d])

OutcomeInv ==
  /\ Flying
  /\ ClaimsNumbered /\ ItemsDistinct
  /\ \A a \in attempts : Claimed(a, claims)
  /\ SendsOnRecord /\ NoSilentDrop

-----------------------------------------------------------------------------
(* Steps that leave the items alone. *)

\* A call goes on with the items and the attempt it has.
GoesOn(c, e) ==
  /\ e.items = c.items /\ e.attempt = c.attempt
  /\ e.stage \in {"idle", "audit", "index"} => e.items = <<>>
  /\ Sends(c) => Sends(e)

AllGoOn == \A o \in Dispatch : GoesOn(call[o], call'[o])

LEMMA GoesOnUpdate ==
  ASSUME Flying, NEW d \in Dispatch, NEW e, call' = [call EXCEPT ![d] = e],
         GoesOn(call[d], e)
  PROVE  AllGoOn
<1>1. call \in [Dispatch -> Call]
  BY DEF Flying, TypeInv, TypeOK
<1> SUFFICES ASSUME NEW o \in Dispatch PROVE GoesOn(call[o], call'[o])
  BY DEF AllGoOn
<1>2. CASE o = d
  <2>1. call'[o] = e
    BY <1>1, <1>2
  <2> QED
    BY <1>2, <2>1
<1>3. CASE o # d
  <2>1. call'[o] = call[o]
    BY <1>1, <1>3
  <2> QED
    BY <2>1 DEF GoesOn, Flying, Flown
<1> QED
  BY <1>2, <1>3

LEMMA NextChannelGoesOn ==
  ASSUME Flying, NEW d \in Dispatch, NextChannel(d), ~Sends(call[d])
  PROVE  AllGoOn
<1> DEFINE e == [call[d] EXCEPT !.stage = "prepare", !.next = @ + 1, !.passedAt = 0]
<1>1. call[d] \in Call /\ call' = [call EXCEPT ![d] = e]
  BY DEF NextChannel, Flying, TypeInv, TypeOK
<1>2. GoesOn(call[d], e)
  BY <1>1 DEF GoesOn, Call
<1> HIDE DEF e
<1> QED
  BY <1>1, <1>2, GoesOnUpdate

LEMMA GotoGoesOn ==
  ASSUME Flying, NEW d \in Dispatch, NEW stage, Goto(d, stage), ~Sends(call[d]),
         stage \in {"idle", "audit", "index"} => call[d].items = <<>>
  PROVE  AllGoOn
<1> DEFINE e == [call[d] EXCEPT !.stage = stage]
<1>1. call[d] \in Call /\ call' = [call EXCEPT ![d] = e]
  BY DEF Goto, Flying, TypeInv, TypeOK
<1>2. GoesOn(call[d], e)
  BY <1>1 DEF GoesOn, Call
<1> HIDE DEF e
<1> QED
  BY <1>1, <1>2, GoesOnUpdate

\* The steps that change an item, an attempt or a reservation.
Changes(d) ==
  Enqueue(d) \/ ReleaseUnsent(d) \/ RetryAttempt(d) \/ FinishItem(d) \/ DispatchRaises(d)

LEMMA StepGoesOn ==
  ASSUME Flying, NEW d \in Dispatch, Step(d), ~Changes(d)
  PROVE  AllGoOn /\ UNCHANGED <<attempts, claims, abandoned>>
<1> USE DEF redis, history
<1>1. UNCHANGED <<attempts, claims, abandoned>>
  BY DEF Step, Changes, AuditTrigger, AuditIndex, SkipMissingBinding, SkipCooldown,
     PassCooldown, SkipBackpressure, ReserveSlot, SkipIdempotent, FinishEmpty, StartSending,
     ProviderAnswers
<1>F. Flown(call[d]) /\ call[d] \in Call
  BY DEF Flying, TypeInv, TypeOK
<1>2. CASE AuditTrigger(d)
  <2>1. Goto(d, IF call[d].trigger \in audit THEN "prepare" ELSE "index") /\ call[d].stage = "audit"
    BY <1>2 DEF AuditTrigger, At
  <2> QED
    BY <1>1, <1>F, <2>1, GotoGoesOn DEF Flown, Sends
<1>3. CASE AuditIndex(d)
  <2>1. Goto(d, "prepare") /\ call[d].stage = "index"
    BY <1>3 DEF AuditIndex, At
  <2> QED
    BY <1>1, <2>1, GotoGoesOn DEF Sends
<1>4. CASE SkipMissingBinding(d) \/ SkipCooldown(d) \/ SkipBackpressure(d) \/ SkipIdempotent(d)
  <2>1. NextChannel(d) /\ ~Sends(call[d])
    BY <1>4 DEF SkipMissingBinding, SkipCooldown, SkipBackpressure, SkipIdempotent, At, Sends
  <2> QED
    BY <1>1, <2>1, NextChannelGoesOn
<1>5. CASE PassCooldown(d)
  <2> DEFINE e == [call[d] EXCEPT !.stage = "slot", !.passedAt = clock]
  <2>1. call' = [call EXCEPT ![d] = e] /\ call[d].stage = "prepare"
    BY <1>5 DEF PassCooldown, At, Flying, TypeInv, TypeOK
  <2>2. GoesOn(call[d], e)
    BY <1>F, <2>1 DEF GoesOn, Call, Sends
  <2> HIDE DEF e
  <2> QED
    BY <1>1, <2>1, <2>2, GoesOnUpdate
<1>6. CASE ReserveSlot(d)
  <2>1. Goto(d, "claim") /\ call[d].stage = "slot"
    BY <1>6 DEF ReserveSlot, At
  <2> QED
    BY <1>1, <2>1, GotoGoesOn DEF Sends
<1>7. CASE StartSending(d)
  <2>1. Goto(d, "sending") /\ call[d].stage = "prepare"
    BY <1>7 DEF StartSending, At
  <2> QED
    BY <1>1, <2>1, GotoGoesOn DEF Sends
<1>8. CASE FinishEmpty(d)
  <2>1. call' = [call EXCEPT ![d] = IdleCall] /\ call[d].stage = "prepare" /\ call[d].items = <<>>
    BY <1>8 DEF FinishEmpty, Return, At
  <2>2. GoesOn(call[d], IdleCall)
    BY <1>F, <2>1 DEF GoesOn, Sends, IdleCall, Flown
  <2> QED
    BY <1>1, <2>1, <2>2, GoesOnUpdate
<1>9. ASSUME NEW answer, NEW delivered, ProviderAnswers(d, answer, delivered)
      PROVE  AllGoOn
  <2> DEFINE e == [call[d] EXCEPT !.stage = "answered", !.answer = answer]
  <2>1. call' = [call EXCEPT ![d] = e]
    BY <1>9 DEF ProviderAnswers, Flying, TypeInv, TypeOK
  <2>2. GoesOn(call[d], e)
    BY <1>F DEF GoesOn, Call, Sends
  <2> HIDE DEF e
  <2> QED
    BY <2>1, <2>2, GoesOnUpdate
<1> QED
  BY <1>1, <1>2, <1>3, <1>4, <1>5, <1>6, <1>7, <1>8, <1>9 DEF Step, Changes

\* Any other step than these and a crash.
LEMMA FlightCases ==
  ASSUME Flying, [Next]_vars
  PROVE  \/ AllGoOn /\ UNCHANGED <<attempts, claims, abandoned>>
         \/ \E d \in Dispatch : Changes(d)
         \/ \E w \in Worker : Crash(w)
<1> USE DEF redis, history
<1>1. UNCHANGED call => AllGoOn
  BY DEF AllGoOn, GoesOn, Flying, Flown
<1>2. ASSUME NEW d \in Dispatch, NEW k \in TriggerKey, NEW a \in Alert, NEW b \in Bindings,
             DispatchStart(d, k, a, b)
      PROVE  AllGoOn
  <2> DEFINE e == [IdleCall EXCEPT !.stage = "audit", !.trigger = k, !.alert = a,
                                   !.binding = b]
  <2>1. call' = [call EXCEPT ![d] = e] /\ call[d].stage = "idle"
    BY <1>2 DEF DispatchStart
  <2>2. e.items = <<>> /\ e.attempt = 1 /\ e.stage = "audit"
    BY DEF IdleCall
  <2>3. GoesOn(call[d], e)
    BY <2>1, <2>2 DEF GoesOn, Sends, Flying, Flown
  <2> HIDE DEF e
  <2> QED
    BY <2>1, <2>3, GoesOnUpdate
<1>3. \A d \in Dispatch, k \in TriggerKey, a \in Alert :
        /\ DispatchMuted(d, k, a) => UNCHANGED <<call, attempts, claims, abandoned>>
        /\ \A b \in Bindings : DispatchStart(d, k, a, b) => UNCHANGED <<attempts, claims, abandoned>>
  BY DEF DispatchMuted, DispatchStart
<1>4. /\ Tick => UNCHANGED <<call, attempts, claims, abandoned>>
      /\ \A u \in User, seconds \in MuteSeconds :
           SetMute(u, seconds) => UNCHANGED <<call, attempts, claims, abandoned>>
      /\ \A u \in User : ClearMute(u) => UNCHANGED <<call, attempts, claims, abandoned>>
      /\ UNCHANGED vars => UNCHANGED <<call, attempts, claims, abandoned>>
  BY DEF Tick, SetMute, ClearMute, vars
<1> QED
  BY <1>1, <1>2, <1>3, <1>4, StepGoesOn DEF Next

-----------------------------------------------------------------------------
(* What each kind of step does to the items, the attempts and the reservations. *)

\* Nothing on record is ever taken back.
LEMMA RecordsGrow ==
  ASSUME [Next]_vars
  PROVE  claims \subseteq claims' /\ attempts \subseteq attempts' /\ abandoned \subseteq abandoned'
<1> USE DEF redis, history
<1>1. ASSUME NEW d \in Dispatch, Step(d)
      PROVE  claims \subseteq claims' /\ attempts \subseteq attempts' /\ abandoned \subseteq abandoned'
  BY <1>1 DEF Step, AuditTrigger, AuditIndex, SkipMissingBinding, SkipCooldown,
     PassCooldown, SkipBackpressure, ReserveSlot, SkipIdempotent, Enqueue, ReleaseUnsent,
     FinishEmpty, StartSending, ProviderAnswers, RetryAttempt, Retry, FinishItem, DispatchRaises
<1>2. \A w \in Worker : Crash(w) => UNCHANGED <<claims, attempts>> /\ abandoned \subseteq abandoned'
  BY DEF Crash
<1>3. /\ \A d \in Dispatch, k \in TriggerKey, a \in Alert :
           DispatchMuted(d, k, a) \/ (\E b \in Bindings : DispatchStart(d, k, a, b))
             => UNCHANGED <<claims, attempts, abandoned>>
      /\ Tick => UNCHANGED <<claims, attempts, abandoned>>
      /\ \A u \in User, seconds \in MuteSeconds :
           SetMute(u, seconds) => UNCHANGED <<claims, attempts, abandoned>>
      /\ \A u \in User : ClearMute(u) => UNCHANGED <<claims, attempts, abandoned>>
      /\ UNCHANGED vars => UNCHANGED <<claims, attempts, abandoned>>
  BY DEF DispatchMuted, DispatchStart, Tick, SetMute, ClearMute, vars
<1> QED
  BY <1>1, <1>2, <1>3 DEF Next

\* The item at the head of a call that sends.
LEMMA HeadFlown ==
  ASSUME Flying, NEW d \in Dispatch, call[d].items # <<>>
  PROVE  LET h == Head(call[d].items)
         IN /\ h \in Item /\ h = call[d].items[1] /\ 1 \in DOMAIN call[d].items
            /\ Claimed(h, claims) /\ ~Settled(h, attempts)
            /\ Sends(call[d]) => \A no \in 1 .. call[d].attempt - 1 : Tried(h, no, attempts)
<1>1. call[d].items \in Seq(Item) /\ Flown(call[d])
  BY DEF Flying, TypeInv, TypeOK, Call
<1>2. Head(call[d].items) = call[d].items[1] /\ 1 \in DOMAIN call[d].items
  BY <1>1
<1> QED
  BY <1>1, <1>2 DEF Flown

LEMMA SendsStep == OutcomeInv /\ [Next]_vars => SendsOnRecord'
<1> SUFFICES ASSUME OutcomeInv, [Next]_vars, NEW r \in received'
             PROVE  /\ \E c \in claims' : c.key = r.key /\ c.n = r.n
                    /\ \A i \in 1 .. r.no - 1 :
                         [key |-> r.key, n |-> r.n, no |-> i, status |-> "retrying"] \in attempts'
  BY DEF SendsOnRecord
<1>1. CASE r \in received
  BY <1>1, RecordsGrow DEF OutcomeInv, SendsOnRecord
<1>2. CASE r \notin received
  <2>1. PICK d \in Dispatch : call[d].stage = "sending" /\ r = ReceiptOf(d)
    BY <1>2, ReceiptFrame
  <2>2. call[d].items # <<>>
    BY <2>1 DEF OutcomeInv, Flying, TypeInv, WellFormed
  <2> DEFINE h == Head(call[d].items)
  <2>3. Claimed(h, claims) /\ \A no \in 1 .. call[d].attempt - 1 : Tried(h, no, attempts)
    BY <2>1, <2>2, HeadFlown DEF OutcomeInv, Sends
  <2>4. r.key = h.key /\ r.n = h.n /\ r.no = call[d].attempt
    BY <2>1 DEF ReceiptOf
  <2> QED
    BY <2>3, <2>4, RecordsGrow DEF Claimed, Tried
<1> QED
  BY <1>1, <1>2

\* A call that keeps its items stays as it should be, unless one of them gets its outcome.
LEMMA FlownKept ==
  ASSUME Flying, NEW o \in Dispatch, GoesOn(call[o], call'[o]),
         claims \subseteq claims', attempts \subseteq attempts',
         \A a \in attempts' \ attempts :
           \/ a.status = "retrying"
           \/ \A i \in DOMAIN call[o].items :
                ~(call[o].items[i].key = a.key /\ call[o].items[i].n = a.n)
  PROVE  Flown(call[o])'
<1>1. Flown(call[o]) /\ call'[o].items = call[o].items /\ call'[o].attempt = call[o].attempt
  BY DEF Flying, GoesOn
<1>2. \A i \in DOMAIN call'[o].items :
        Claimed(call[o].items[i], claims') /\ ~Settled(call[o].items[i], attempts')
  BY <1>1 DEF Flown, Claimed, Settled
<1>3. ASSUME Sends(call'[o]), NEW no \in 1 .. call'[o].attempt - 1
      PROVE  Tried(Head(call[o].items), no, attempts')
  <2>1. ~Sends(call[o]) => call'[o].attempt = 1
    BY <1>1 DEF Flown
  <2>2. call'[o].attempt = 1 => 1 .. call'[o].attempt - 1 = {}
    OBVIOUS
  <2>3. Sends(call[o])
    BY <1>3, <2>1, <2>2, Zenon
  <2> QED
    BY <1>1, <1>3, <2>3 DEF Flown, Tried
<1>4. ~Sends(call'[o]) => call'[o].attempt = 1
  BY <1>1 DEF Flown, GoesOn
<1> QED
  BY <1>1, <1>2, <1>3, <1>4 DEF Flown, GoesOn, Sends

\* (a) Calls go on, nothing is put on record.
LEMMA OutcomeGoOn ==
  ASSUME OutcomeInv, TypeInv', SendsOnRecord', AllGoOn, UNCHANGED <<attempts, claims, abandoned>>
  PROVE  OutcomeInv'
<1>1. \A o \in Dispatch : call'[o].items = call[o].items
  BY DEF AllGoOn, GoesOn
<1>2. \A o \in Dispatch : Flown(call[o])'
  BY FlownKept DEF OutcomeInv, AllGoOn
<1>3. ItemsDistinct'
  BY <1>1 DEF OutcomeInv, ItemsDistinct
<1>4. InFlight' = InFlight
  BY <1>1 DEF InFlight, ItemsOf
<1>5. NoSilentDrop'
  BY <1>4 DEF OutcomeInv, NoSilentDrop
<1>6. ClaimsNumbered' /\ \A a \in attempts' : Claimed(a, claims')
  BY DEF OutcomeInv, ClaimsNumbered, ClaimCount, Claimed
<1> QED
  BY <1>2, <1>3, <1>5, <1>6 DEF OutcomeInv, Flying

\* The number of claims of a key when one is added.
LEMMA CountGrows ==
  ASSUME IsFiniteSet(claims), NEW c, c \notin claims, claims' = claims \cup {c}, NEW k
  PROVE  ClaimCount(k)' = ClaimCount(k) + (IF c.key = k THEN 1 ELSE 0)
<1> DEFINE old == {x \in claims : x.key = k}
           new == {x \in claims' : x.key = k}
<1>1. IsFiniteSet(old) /\ Cardinality(old) \in Nat
  BY FS_Subset, FS_CardinalityType
<1>2. CASE c.key = k
  <2>1. new = old \cup {c} /\ c \notin old
    BY <1>2
  <2> QED
    BY <1>1, <1>2, <2>1, FS_AddElement DEF ClaimCount
<1>3. CASE c.key # k
  <2>1. new = old
    BY <1>3
  <2>2. ClaimCount(k)' = ClaimCount(k) /\ ClaimCount(k) \in Nat
    BY <1>1, <2>1 DEF ClaimCount
  <2> QED
    BY <1>3, <2>2
<1> QED
  BY <1>2, <1>3

\* (b) An item joins a queue under a new reservation.
LEMMA OutcomeEnqueue ==
  ASSUME OutcomeInv, TypeInv', SendsOnRecord', NEW d \in Dispatch, Enqueue(d)
  PROVE  OutcomeInv'
<1> USE DEF redis, history
<1> DEFINE k == KeyAt(d)
           n == ClaimCount(k) + 1
           item == [key |-> k, n |-> n]
           claim == [key |-> k, n |-> n, at |-> clock, passedAt |-> call[d].passedAt,
                     cooldown |-> CooldownOf[call[d].alert]]
           e == [call[d] EXCEPT !.stage = "prepare", !.next = @ + 1, !.passedAt = 0,
                                !.items = Append(@, item)]
<1>1. /\ call \in [Dispatch -> Call] /\ call[d] \in Call /\ call[d].stage = "claim"
      /\ call' = [call EXCEPT ![d] = e]
      /\ claims' = claims \cup {claim} /\ UNCHANGED <<attempts, abandoned>>
      /\ IsFiniteSet(claims) /\ claims \subseteq Claim
  BY DEF Enqueue, At, OutcomeInv, Flying, TypeInv, TypeOK
<1>2. n \in Nat \ {0} /\ ClaimCount(k) \in Nat /\ item \in Item
  BY <1>1, EnqueueKey, ClaimCountType DEF OutcomeInv, Flying, TypeInv, Item
<1>3. ~Claimed(item, claims)
  BY <1>1, <1>2 DEF OutcomeInv, ClaimsNumbered, Claimed, Claim
<1>4. claim \notin claims
  BY <1>3 DEF Claimed
<1>5. ~Settled(item, attempts)
  BY <1>3 DEF OutcomeInv, Claimed, Settled
<1>6. /\ e.items = Append(call[d].items, item) /\ e.attempt = call[d].attempt
      /\ e.stage = "prepare" /\ call[d].items \in Seq(Item)
  BY <1>1 DEF Call
<1>7. claim.key = k /\ claim.n = n /\ item.key = k /\ item.n = n
  OBVIOUS
<1> HIDE DEF claim, e
<1>8. call'[d] = e /\ \A o \in Dispatch \ {d} : call'[o] = call[o]
  BY <1>1
<1>9. Len(call[d].items) \in Nat /\ DOMAIN call[d].items = 1 .. Len(call[d].items)
  BY <1>6
<1>10. /\ DOMAIN e.items = 1 .. Len(call[d].items) + 1
       /\ e.items[Len(call[d].items) + 1] = item
       /\ \A i \in DOMAIN call[d].items : e.items[i] = call[d].items[i]
  BY <1>2, <1>6, <1>9
<1>11. ASSUME NEW o \in Dispatch PROVE Flown(call[o])'
  <2>1. CASE o # d
    <3>1. GoesOn(call[o], call'[o])
      BY <1>8, <2>1 DEF GoesOn, OutcomeInv, Flying, Flown
    <3> QED
      BY <1>1, <3>1, FlownKept DEF OutcomeInv
  <2>2. CASE o = d
    <3>1. Flown(call[d])
      BY DEF OutcomeInv, Flying
    <3>2. \A i \in DOMAIN call[d].items :
            Claimed(call[d].items[i], claims') /\ ~Settled(call[d].items[i], attempts')
      BY <1>1, <3>1 DEF Flown, Claimed, Settled
    <3>3. Claimed(item, claims') /\ ~Settled(item, attempts')
      BY <1>1, <1>5, <1>7 DEF Claimed, Settled
    <3>4. \A i \in DOMAIN e.items :
            i \in DOMAIN call[d].items \/ i = Len(call[d].items) + 1
      BY <1>9, <1>10
    <3>5. \A i \in DOMAIN e.items : Claimed(e.items[i], claims') /\ ~Settled(e.items[i], attempts')
      BY <1>10, <3>2, <3>3, <3>4 DEF Claimed, Settled
    <3>6. call'[o] = e /\ e.stage = "prepare" /\ e.attempt = 1
      BY <1>1, <1>6, <1>8, <2>2, <3>1 DEF Flown, Sends
    <3> QED
      BY <3>5, <3>6 DEF Flown, Sends, Claimed, Settled
  <2> QED
    BY <2>1, <2>2
<1>12. ASSUME NEW c \in claims' PROVE c.n <= ClaimCount(c.key)'
  <2>1. ClaimCount(c.key)' = ClaimCount(c.key) + (IF k = c.key THEN 1 ELSE 0)
    BY <1>1, <1>4, <1>7, CountGrows
  <2>2. ClaimCount(c.key) \in Nat
    BY <1>1, ClaimCountType
  <2>3. CASE c \in claims
    <3>1. c.n <= ClaimCount(c.key) /\ c.n \in Nat
      BY <1>1, <2>3 DEF OutcomeInv, ClaimsNumbered, Claim
    <3> QED
      BY <2>1, <2>2, <3>1
  <2>4. CASE c = claim
    BY <1>2, <1>7, <2>1, <2>4
  <2> QED
    BY <1>1, <2>3, <2>4
<1>13. ItemsDistinct'
  <2>1. \A o \in Dispatch : \A i \in DOMAIN call[o].items : call[o].items[i] # item
    <3> SUFFICES ASSUME NEW o \in Dispatch, NEW i \in DOMAIN call[o].items,
                        call[o].items[i] = item
                 PROVE  FALSE
      OBVIOUS
    <3>1. Claimed(call[o].items[i], claims)
      BY DEF OutcomeInv, Flying, Flown
    <3> HIDE DEF item
    <3> QED
      BY <1>3, <3>1 DEF Claimed
  <2>2. \A o \in Dispatch : \A i \in DOMAIN call'[o].items :
          \/ i \in DOMAIN call[o].items /\ call'[o].items[i] = call[o].items[i]
          \/ o = d /\ i = Len(call[d].items) + 1 /\ call'[o].items[i] = item
    BY <1>8, <1>9, <1>10
  <2> QED
    BY <2>1, <2>2 DEF OutcomeInv, ItemsDistinct
<1>14. NoSilentDrop'
  <2>1. \A o \in Dispatch : DOMAIN call[o].items = 1 .. Len(call[o].items)
    BY DEF OutcomeInv, Flying, TypeInv, TypeOK, Call
  <2>2. \A o \in Dispatch : DOMAIN call'[o].items = 1 .. Len(call'[o].items)
    BY DEF TypeInv, TypeOK, Call
  <2>3. \A o \in Dispatch : \A i \in DOMAIN call[o].items :
          i \in DOMAIN call'[o].items /\ call'[o].items[i] = call[o].items[i]
    BY <1>8, <1>9, <1>10
  <2>4. InFlight \subseteq InFlight'
    BY <2>1, <2>2, <2>3 DEF InFlight, ItemsOf
  <2>5. item \in InFlight'
    <3>1. Len(call[d].items) + 1 \in DOMAIN call'[d].items
          /\ call'[d].items[Len(call[d].items) + 1] = item
      BY <1>8, <1>9, <1>10
    <3> QED
      BY <2>2, <3>1 DEF InFlight, ItemsOf
  <2>6. ASSUME NEW c \in claims'
        PROVE  \/ [key |-> c.key, n |-> c.n] \in InFlight' \cup abandoned'
               \/ \E a \in attempts' : a.key = c.key /\ a.n = c.n /\ a.status # "retrying"
    <3>1. CASE c \in claims
      BY <1>1, <2>4, <3>1 DEF OutcomeInv, NoSilentDrop
    <3>2. CASE c = claim
      BY <1>7, <2>5, <3>2
    <3> QED
      BY <1>1, <3>1, <3>2
  <2> QED
    BY <2>6 DEF NoSilentDrop
<1>15. \A a \in attempts' : Claimed(a, claims')
  BY <1>1 DEF OutcomeInv, Claimed
<1> QED
  BY <1>11, <1>12, <1>13, <1>14, <1>15 DEF OutcomeInv, Flying, ClaimsNumbered

\* (c) A failed attempt is put on record and the next one begins.
LEMMA OutcomeRetry ==
  ASSUME OutcomeInv, TypeInv', SendsOnRecord', NEW d \in Dispatch, RetryAttempt(d)
  PROVE  OutcomeInv'
<1> DEFINE e == [call[d] EXCEPT !.stage = "sending", !.attempt = @ + 1, !.answer = "none"]
           h == Head(call[d].items)
<1>1. /\ call \in [Dispatch -> Call] /\ call[d] \in Call /\ call[d].stage = "answered"
      /\ call' = [call EXCEPT ![d] = e]
      /\ UNCHANGED <<claims, abandoned>>
      /\ attempts' = attempts \cup {Record(d)}
      /\ call[d].attempt < MaxAttempts /\ call[d].answer = "retryable"
      /\ call[d].items # <<>>
  BY DEF RetryAttempt, Retry, At, OutcomeInv, Flying, TypeInv, TypeOK, WellFormed, history
<1>2. /\ e.items = call[d].items /\ e.attempt = call[d].attempt + 1 /\ e.stage = "sending"
      /\ call[d].attempt \in 1 .. MaxAttempts /\ MaxAttempts \in Nat
  BY <1>1, DeliveryAssumption DEF Call
<1>3. call'[d] = e /\ \A o \in Dispatch \ {d} : call'[o] = call[o]
  BY <1>1
<1> HIDE DEF e
<1>4. Record(d) = [key |-> h.key, n |-> h.n, no |-> call[d].attempt, status |-> "retrying"]
  BY <1>1 DEF Record, AttemptStatus
<1>5. Claimed(h, claims) /\ \A no \in 1 .. call[d].attempt - 1 : Tried(h, no, attempts)
  BY <1>1, HeadFlown DEF OutcomeInv, Sends
<1>6. ASSUME NEW o \in Dispatch PROVE Flown(call[o])'
  <2>1. CASE o # d
    <3>1. GoesOn(call[o], call'[o])
      BY <1>3, <2>1 DEF GoesOn, OutcomeInv, Flying, Flown
    <3>2. \A a \in attempts' \ attempts : a.status = "retrying"
      BY <1>1, <1>4
    <3> QED
      BY <1>1, <3>1, <3>2, FlownKept DEF OutcomeInv
  <2>2. CASE o = d
    <3>1. Flown(call[d])
      BY DEF OutcomeInv, Flying
    <3>2. \A i \in DOMAIN call[d].items :
            Claimed(call[d].items[i], claims') /\ ~Settled(call[d].items[i], attempts')
      BY <1>1, <1>4, <3>1 DEF Flown, Claimed, Settled
    <3>3. ASSUME NEW no \in 1 .. call[d].attempt PROVE Tried(h, no, attempts')
      <4>1. no = call[d].attempt \/ no \in 1 .. call[d].attempt - 1
        BY <1>2
      <4> QED
        BY <1>1, <1>4, <1>5, <4>1 DEF Tried
    <3>4. 1 .. e.attempt - 1 = 1 .. call[d].attempt
      BY <1>2
    <3> QED
      BY <1>2, <1>3, <2>2, <3>2, <3>3, <3>4 DEF Flown, Sends, Claimed, Settled, Tried
  <2> QED
    BY <2>1, <2>2
<1>7. \A o \in Dispatch : call'[o].items = call[o].items
  BY <1>2, <1>3
<1>8. ItemsDistinct'
  BY <1>7 DEF OutcomeInv, ItemsDistinct
<1>9. InFlight' = InFlight
  BY <1>7 DEF InFlight, ItemsOf
<1>10. NoSilentDrop'
  BY <1>1, <1>9 DEF OutcomeInv, NoSilentDrop
<1>11. ClaimsNumbered'
  BY <1>1 DEF OutcomeInv, ClaimsNumbered, ClaimCount
<1>12. \A a \in attempts' : Claimed(a, claims')
  BY <1>1, <1>4, <1>5 DEF OutcomeInv, Claimed
<1> QED
  BY <1>6, <1>8, <1>10, <1>11, <1>12 DEF OutcomeInv, Flying

\* Calls that lose items, from the head or all of them, still share none.
Shrinks(o) ==
  \/ call'[o].items = call[o].items
  \/ call[o].items # <<>> /\ call'[o].items = Tail(call[o].items)
  \/ call'[o].items = <<>>

LEMMA DistinctKept ==
  ASSUME OutcomeInv, \A o \in Dispatch : Shrinks(o)
  PROVE  ItemsDistinct'
<1>1. ASSUME NEW o \in Dispatch
      PROVE  \E s \in {0, 1} : \A i \in DOMAIN call'[o].items :
               i \in Nat /\ i + s \in DOMAIN call[o].items
                 /\ call'[o].items[i] = call[o].items[i + s]
  <2>1. call[o].items \in Seq(Item)
    BY DEF OutcomeInv, Flying, TypeInv, TypeOK, Call
  <2>2. CASE call'[o].items = call[o].items
    <3>1. \A i \in DOMAIN call'[o].items :
             i \in Nat /\ i + 0 \in DOMAIN call[o].items
               /\ call'[o].items[i] = call[o].items[i + 0]
      BY <2>1, <2>2
    <3> QED
      BY <3>1
  <2>3. CASE call[o].items # <<>> /\ call'[o].items = Tail(call[o].items)
    <3>1. \A i \in DOMAIN call'[o].items :
             i \in Nat /\ i + 1 \in DOMAIN call[o].items
               /\ call'[o].items[i] = call[o].items[i + 1]
      BY <2>1, <2>3
    <3> QED
      BY <3>1
  <2>4. CASE call'[o].items = <<>>
    BY <2>4
  <2> QED
    BY <2>2, <2>3, <2>4 DEF Shrinks
<1> SUFFICES ASSUME NEW d \in Dispatch, NEW o \in Dispatch,
                    NEW i \in DOMAIN call'[d].items, NEW j \in DOMAIN call'[o].items,
                    call'[d].items[i] = call'[o].items[j]
             PROVE  d = o /\ i = j
  BY DEF ItemsDistinct
<1>2. PICK s \in {0, 1} : \A x \in DOMAIN call'[d].items :
               x \in Nat /\ x + s \in DOMAIN call[d].items
                 /\ call'[d].items[x] = call[d].items[x + s]
  BY <1>1
<1>3. PICK t \in {0, 1} : \A x \in DOMAIN call'[o].items :
               x \in Nat /\ x + t \in DOMAIN call[o].items
                 /\ call'[o].items[x] = call[o].items[x + t]
  BY <1>1
<1>4. d = o /\ i + s = j + t
  BY <1>2, <1>3 DEF OutcomeInv, ItemsDistinct
<1>5. i + s \in DOMAIN call[d].items /\ j + s \in DOMAIN call[d].items
      /\ call[d].items[i + s] = call[d].items[j + s]
  BY <1>2, <1>4
<1>6. i + s = j + s
  BY <1>5 DEF OutcomeInv, ItemsDistinct
<1> QED
  BY <1>2, <1>4, <1>6

\* (d) Items leave their queues; attempts put on record settle only the head of one of
\* them, which leaves with them.
LEMMA OutcomeShrinks ==
  ASSUME OutcomeInv, TypeInv', SendsOnRecord', UNCHANGED claims, attempts \subseteq attempts',
         abandoned \subseteq abandoned',
         \A o \in Dispatch :
           /\ Shrinks(o)
           /\ \/ GoesOn(call[o], call'[o])
              \/ /\ call'[o].attempt = 1
                 /\ call'[o].stage \in {"idle", "audit", "index"} => call'[o].items = <<>>
           /\ \A i \in DOMAIN call[o].items :
                \/ call[o].items[i] \in InFlight' \cup abandoned'
                \/ Settled(call[o].items[i], attempts'),
         \A a \in attempts' \ attempts :
           /\ Claimed(a, claims)
           /\ \A o \in Dispatch : \A i \in DOMAIN call'[o].items :
                ~(call'[o].items[i].key = a.key /\ call'[o].items[i].n = a.n)
  PROVE  OutcomeInv'
<1>1. ItemsDistinct'
  BY DistinctKept
<1>2. ClaimsNumbered' /\ \A a \in attempts' : Claimed(a, claims')
  BY DEF OutcomeInv, ClaimsNumbered, ClaimCount, Claimed
<1>3. NoSilentDrop'
  <2> SUFFICES ASSUME NEW c \in claims'
               PROVE  \/ [key |-> c.key, n |-> c.n] \in InFlight' \cup abandoned'
                      \/ \E a \in attempts' : a.key = c.key /\ a.n = c.n /\ a.status # "retrying"
    BY DEF NoSilentDrop
  <2> DEFINE item == [key |-> c.key, n |-> c.n]
  <2>1. CASE item \in InFlight
    <3>1. PICK o \in Dispatch : item \in ItemsOf(o)
      BY <2>1 DEF InFlight
    <3>2. PICK i \in DOMAIN call[o].items : call[o].items[i] = item
      BY <3>1 DEF ItemsOf, OutcomeInv, Flying, TypeInv, TypeOK, Call
    <3>3. call[o].items[i].key = c.key /\ call[o].items[i].n = c.n
      BY <3>2
    <3> QED
      BY <3>2, <3>3 DEF Settled
  <2>2. CASE item \notin InFlight
    BY <2>2 DEF OutcomeInv, NoSilentDrop
  <2> QED
    BY <2>1, <2>2
<1>4. ASSUME NEW o \in Dispatch PROVE Flown(call[o])'
  <2>0. Flown(call[o])
    BY DEF OutcomeInv, Flying
  <2>1. \A i \in DOMAIN call'[o].items :
          \E k \in DOMAIN call[o].items : call'[o].items[i] = call[o].items[k]
    <3>1. call[o].items \in Seq(Item)
      BY DEF OutcomeInv, Flying, TypeInv, TypeOK, Call
    <3>2. CASE call[o].items # <<>> /\ call'[o].items = Tail(call[o].items)
      <4>1. \A i \in DOMAIN call'[o].items :
               i + 1 \in DOMAIN call[o].items /\ call'[o].items[i] = call[o].items[i + 1]
        BY <3>1, <3>2
      <4> QED
        BY <4>1
    <3> QED
      BY <3>1, <3>2 DEF Shrinks
  <2>2. \A i \in DOMAIN call'[o].items :
          Claimed(call'[o].items[i], claims) /\ ~Settled(call'[o].items[i], attempts)
    BY <2>0, <2>1 DEF Flown, Claimed, Settled
  <2>3. \A i \in DOMAIN call'[o].items : Claimed(call'[o].items[i], claims')
    BY <2>2 DEF Claimed
  <2>4. \A i \in DOMAIN call'[o].items : ~Settled(call'[o].items[i], attempts')
    BY <2>2 DEF Settled
  <2>5. CASE GoesOn(call[o], call'[o])
    <3>1. \A a \in attempts' \ attempts : \A i \in DOMAIN call[o].items :
             ~(call[o].items[i].key = a.key /\ call[o].items[i].n = a.n)
      BY <2>5 DEF GoesOn
    <3> QED
      BY <2>5, <3>1, FlownKept DEF OutcomeInv
  <2>6. CASE ~GoesOn(call[o], call'[o])
    <3>1. /\ call'[o].attempt = 1
          /\ call'[o].stage \in {"idle", "audit", "index"} => call'[o].items = <<>>
      BY <2>6
    <3>2. 1 .. call'[o].attempt - 1 = {}
      BY <3>1
    <3> QED
      BY <2>3, <2>4, <3>1, <3>2 DEF Flown
  <2> QED
    BY <2>5, <2>6
<1> QED
  BY <1>1, <1>2, <1>3, <1>4 DEF OutcomeInv, Flying

\* A position in a queue is one at its head or in the rest of it.
LEMMA HeadOrTail ==
  ASSUME NEW s \in Seq(Item), s # <<>>, NEW i \in DOMAIN s
  PROVE  s[i] = Head(s) \/ \E j \in DOMAIN Tail(s) : Tail(s)[j] = s[i]
<1>1. CASE i = 1
  BY <1>1
<1>2. CASE i # 1
  <2>1. i - 1 \in DOMAIN Tail(s) /\ Tail(s)[i - 1] = s[i]
    BY <1>2
  <2> QED
    BY <2>1
<1> QED
  BY <1>1, <1>2

LEMMA TailAt ==
  ASSUME NEW s \in Seq(Item), s # <<>>, NEW i \in DOMAIN Tail(s)
  PROVE  i \in Nat \ {0} /\ i + 1 \in DOMAIN s /\ Tail(s)[i] = s[i + 1]
OBVIOUS

\* What is queued after a step is in flight.
LEMMA QueuedFlies ==
  ASSUME TypeInv', NEW o \in Dispatch, NEW i \in DOMAIN call'[o].items
  PROVE  call'[o].items[i] \in InFlight'
BY DEF InFlight, ItemsOf, TypeInv, TypeOK, Call

LEMMA OutcomeRelease ==
  ASSUME OutcomeInv, TypeInv', SendsOnRecord', NEW d \in Dispatch, ReleaseUnsent(d)
  PROVE  OutcomeInv'
<1> DEFINE e == [call[d] EXCEPT !.items = Tail(@)]
<1>1. /\ call \in [Dispatch -> Call] /\ call[d] \in Call /\ call[d].stage = "prepare"
      /\ call' = [call EXCEPT ![d] = e] /\ call[d].items # <<>>
      /\ UNCHANGED <<claims, attempts>>
      /\ abandoned' = abandoned \cup {Head(call[d].items)}
  BY DEF ReleaseUnsent, At, OutcomeInv, Flying, TypeInv, TypeOK, redis
<1>2. /\ e.items = Tail(call[d].items) /\ e.attempt = call[d].attempt /\ e.stage = "prepare"
      /\ call[d].items \in Seq(Item)
  BY <1>1 DEF Call
<1>3. call'[d] = e /\ \A o \in Dispatch \ {d} : call'[o] = call[o]
  BY <1>1
<1> HIDE DEF e
<1>4. ASSUME NEW o \in Dispatch
      PROVE  /\ Shrinks(o)
             /\ \/ GoesOn(call[o], call'[o])
                \/ /\ call'[o].attempt = 1
                   /\ call'[o].stage \in {"idle", "audit", "index"} => call'[o].items = <<>>
             /\ \A i \in DOMAIN call[o].items :
                  \/ call[o].items[i] \in InFlight' \cup abandoned'
                  \/ Settled(call[o].items[i], attempts')
  <2>1. CASE o # d
    <3>1. call'[o] = call[o]
      BY <1>3, <2>1
    <3> QED
      BY <3>1, QueuedFlies DEF Shrinks, GoesOn, OutcomeInv, Flying, Flown
  <2>2. CASE o = d
    <3>1. call'[o].attempt = 1 /\ call'[o].stage = "prepare" /\ Shrinks(o)
      BY <1>1, <1>2, <1>3, <2>2 DEF OutcomeInv, Flying, Flown, Sends, Shrinks
    <3>2. \A i \in DOMAIN call[o].items : call[o].items[i] \in InFlight' \cup abandoned'
      <4> SUFFICES ASSUME NEW i \in DOMAIN call[o].items,
                          call[o].items[i] # Head(call[o].items)
                   PROVE  call[o].items[i] \in InFlight'
        BY <1>1, <2>2
      <4>1. PICK j \in DOMAIN Tail(call[o].items) : Tail(call[o].items)[j] = call[o].items[i]
        BY <1>1, <1>2, <2>2, HeadOrTail
      <4>2. j \in DOMAIN call'[o].items /\ call'[o].items[j] = call[o].items[i]
        BY <1>2, <1>3, <2>2, <4>1
      <4> QED
        BY <4>2, QueuedFlies
    <3> QED
      BY <3>1, <3>2
  <2> QED
    BY <2>1, <2>2
<1> QED
  BY <1>1, <1>4, OutcomeShrinks

LEMMA OutcomeFinish ==
  ASSUME OutcomeInv, TypeInv', SendsOnRecord', NEW d \in Dispatch, FinishItem(d)
  PROVE  OutcomeInv'
<1> DEFINE e == IF Len(call[d].items) = 1 THEN IdleCall
                ELSE [call[d] EXCEPT !.stage = "sending", !.items = Tail(@),
                                     !.attempt = 1, !.answer = "none"]
           h == Head(call[d].items)
<1>1. /\ call \in [Dispatch -> Call] /\ call[d] \in Call /\ call[d].stage = "answered"
      /\ call' = [call EXCEPT ![d] = e] /\ call[d].items # <<>>
      /\ UNCHANGED <<claims, abandoned>>
      /\ attempts' = attempts \cup {Record(d)}
      /\ call[d].answer \in {"sent", "permanent"} \/ call[d].attempt = MaxAttempts
  BY DEF FinishItem, At, Return, OutcomeInv, Flying, TypeInv, TypeOK, WellFormed, history
<1>2. /\ e.items = Tail(call[d].items) /\ e.attempt = 1
      /\ e.stage \in {"idle", "audit", "index"} => e.items = <<>>
      /\ call[d].items \in Seq(Item)
  <2>1. call[d].items \in Seq(Item)
    BY <1>1 DEF Call
  <2>2. CASE Len(call[d].items) = 1
    <3>1. \A s \in Seq(Item) : Len(s) = 1 => Tail(s) \in Seq(Item) /\ Len(Tail(s)) = 0
      OBVIOUS
    <3>2. Tail(call[d].items) = <<>>
      BY <2>1, <2>2, <3>1, EmptySeq
    <3> QED
      BY <2>1, <2>2, <3>2 DEF IdleCall
  <2>3. CASE Len(call[d].items) # 1
    BY <1>1, <2>1, <2>3 DEF Call
  <2> QED
    BY <2>2, <2>3
<1>3. call'[d] = e /\ \A o \in Dispatch \ {d} : call'[o] = call[o]
  BY <1>1
<1> HIDE DEF e
<1>4. /\ Record(d).key = h.key /\ Record(d).n = h.n /\ Record(d).status # "retrying"
      /\ Record(d) \in attempts'
  BY <1>1, DeliveryAssumption DEF Record, AttemptStatus
<1>5. h \in Item /\ h = call[d].items[1] /\ 1 \in DOMAIN call[d].items /\ Claimed(h, claims)
  BY <1>1, HeadFlown DEF OutcomeInv
<1>6. Settled(h, attempts') /\ Claimed(Record(d), claims)
  BY <1>4, <1>5 DEF Settled, Claimed
<1>7. ASSUME NEW o \in Dispatch
      PROVE  /\ Shrinks(o)
             /\ \/ GoesOn(call[o], call'[o])
                \/ /\ call'[o].attempt = 1
                   /\ call'[o].stage \in {"idle", "audit", "index"} => call'[o].items = <<>>
             /\ \A i \in DOMAIN call[o].items :
                  \/ call[o].items[i] \in InFlight' \cup abandoned'
                  \/ Settled(call[o].items[i], attempts')
  <2>1. CASE o # d
    <3>1. call'[o] = call[o]
      BY <1>3, <2>1
    <3> QED
      BY <3>1, QueuedFlies DEF Shrinks, GoesOn, OutcomeInv, Flying, Flown
  <2>2. CASE o = d
    <3>1. /\ call'[o].attempt = 1 /\ Shrinks(o)
          /\ call'[o].stage \in {"idle", "audit", "index"} => call'[o].items = <<>>
      BY <1>1, <1>2, <1>3, <2>2 DEF Shrinks
    <3>2. ASSUME NEW i \in DOMAIN call[o].items
          PROVE  \/ call[o].items[i] \in InFlight'
                 \/ Settled(call[o].items[i], attempts')
      <4>1. CASE call[o].items[i] = h
        BY <1>6, <4>1 DEF Settled
      <4>2. CASE call[o].items[i] # h
        <5>1. \E j \in DOMAIN call'[d].items : call'[d].items[j] = call[o].items[i]
          <6>1. \E j \in DOMAIN Tail(call[d].items) :
                  Tail(call[d].items)[j] = call[d].items[i]
            BY <1>1, <1>2, <2>2, <4>2, HeadOrTail
          <6> QED
            BY <1>2, <1>3, <2>2, <6>1
        <5> QED
          BY <5>1, QueuedFlies
      <4> QED
        BY <4>1, <4>2
    <3> QED
      BY <3>1, <3>2
  <2> QED
    BY <2>1, <2>2
<1>8. ASSUME NEW o \in Dispatch, NEW i \in DOMAIN call'[o].items
      PROVE  ~(call'[o].items[i].key = Record(d).key /\ call'[o].items[i].n = Record(d).n)
  <2>1. call'[o].items[i] # h
    <3>1. CASE o # d
      BY <1>3, <1>5, <3>1 DEF OutcomeInv, ItemsDistinct
    <3>2. CASE o = d
      <4>1. /\ i + 1 \in DOMAIN call[d].items /\ i + 1 # 1
            /\ call'[o].items[i] = call[d].items[i + 1]
        <5>1. call'[o].items = Tail(call[d].items) /\ call[d].items \in Seq(Item)
          BY <1>2, <1>3, <3>2
        <5>2. i \in DOMAIN Tail(call[d].items)
          BY <5>1
        <5>3. i \in Nat \ {0} /\ i + 1 \in DOMAIN call[d].items
              /\ Tail(call[d].items)[i] = call[d].items[i + 1]
          BY <1>1, <5>1, <5>2, TailAt, Zenon
        <5> QED
          BY <5>1, <5>3
      <4> QED
        BY <1>5, <4>1 DEF OutcomeInv, ItemsDistinct
    <3> QED
      BY <3>1, <3>2
  <2>2. call'[o].items[i] \in Item
    BY DEF TypeInv, TypeOK, Call
  <2> QED
    BY <1>4, <1>5, <2>1, <2>2 DEF Item
<1>9. ASSUME NEW a \in attempts' \ attempts
      PROVE  /\ Claimed(a, claims)
             /\ \A o \in Dispatch : \A i \in DOMAIN call'[o].items :
                  ~(call'[o].items[i].key = a.key /\ call'[o].items[i].n = a.n)
  <2>1. a = Record(d)
    BY <1>1
  <2> QED
    BY <1>6, <1>8, <2>1 DEF Claimed
<1>10. attempts \subseteq attempts' /\ abandoned \subseteq abandoned'
  BY <1>1
<1> QED
  BY <1>1, <1>7, <1>9, <1>10, OutcomeShrinks

LEMMA OutcomeRaises ==
  ASSUME OutcomeInv, TypeInv', SendsOnRecord', NEW d \in Dispatch, DispatchRaises(d)
  PROVE  OutcomeInv'
<1>1. /\ call \in [Dispatch -> Call] /\ call' = [call EXCEPT ![d] = IdleCall]
      /\ UNCHANGED claims
      /\ abandoned' = abandoned \cup ItemsOf(d) /\ attempts \subseteq attempts'
  BY DEF DispatchRaises, Return, OutcomeInv, Flying, TypeInv, TypeOK
<1>2. call'[d] = IdleCall /\ \A o \in Dispatch \ {d} : call'[o] = call[o]
  BY <1>1
<1>3. IdleCall.items = <<>> /\ IdleCall.attempt = 1
  BY DEF IdleCall
<1>4. ASSUME NEW o \in Dispatch
      PROVE  /\ Shrinks(o)
             /\ \/ GoesOn(call[o], call'[o])
                \/ /\ call'[o].attempt = 1
                   /\ call'[o].stage \in {"idle", "audit", "index"} => call'[o].items = <<>>
             /\ \A i \in DOMAIN call[o].items :
                  \/ call[o].items[i] \in InFlight' \cup abandoned'
                  \/ Settled(call[o].items[i], attempts')
  <2>1. CASE o # d
    <3>1. call'[o] = call[o]
      BY <1>2, <2>1
    <3> QED
      BY <3>1, QueuedFlies DEF Shrinks, GoesOn, OutcomeInv, Flying, Flown
  <2>2. CASE o = d
    <3>1. \A i \in DOMAIN call[o].items : call[o].items[i] \in ItemsOf(d)
      BY <2>2 DEF ItemsOf, OutcomeInv, Flying, TypeInv, TypeOK, Call
    <3> QED
      BY <1>1, <1>2, <1>3, <2>2, <3>1 DEF Shrinks
  <2> QED
    BY <2>1, <2>2
<1>5. ASSUME NEW a \in attempts' \ attempts
      PROVE  /\ Claimed(a, claims)
             /\ \A o \in Dispatch : \A i \in DOMAIN call'[o].items :
                  ~(call'[o].items[i].key = a.key /\ call'[o].items[i].n = a.n)
  <2> DEFINE h == Head(call[d].items)
  <2>1. call[d].stage = "answered" /\ a = Record(d)
    BY <1>5 DEF DispatchRaises
  <2>2. call[d].items # <<>>
    BY <2>1 DEF OutcomeInv, Flying, TypeInv, WellFormed
  <2>3. a.key = h.key /\ a.n = h.n
    BY <2>1 DEF Record
  <2>4. h \in Item /\ h = call[d].items[1] /\ 1 \in DOMAIN call[d].items /\ Claimed(h, claims)
    BY <2>2, HeadFlown DEF OutcomeInv
  <2> HIDE DEF h
  <2>5. ASSUME NEW o \in Dispatch, NEW i \in DOMAIN call'[o].items
        PROVE  ~(call'[o].items[i].key = a.key /\ call'[o].items[i].n = a.n)
    <3>1. o # d /\ call'[o] = call[o]
      BY <1>2, <1>3, <2>5
    <3>2. call'[o].items[i] # h
      BY <2>4, <3>1 DEF OutcomeInv, ItemsDistinct
    <3>3. call'[o].items[i] \in Item
      BY DEF TypeInv, TypeOK, Call
    <3> QED
      BY <2>3, <2>4, <3>2, <3>3 DEF Item
  <2> QED
    BY <2>3, <2>4, <2>5 DEF Claimed
<1> QED
  BY <1>1, <1>4, <1>5, OutcomeShrinks

LEMMA OutcomeCrash ==
  ASSUME OutcomeInv, TypeInv', SendsOnRecord', NEW w \in Worker, Crash(w)
  PROVE  OutcomeInv'
<1>1. /\ \A o \in Dispatch : call'[o] = IF WorkerOf[o] = w THEN IdleCall ELSE call[o]
      /\ UNCHANGED <<claims, attempts>>
      /\ abandoned' = abandoned \cup UNION {ItemsOf(d) : d \in {d \in Dispatch : WorkerOf[d] = w}}
  BY DEF Crash, redis
<1>2. IdleCall.items = <<>> /\ IdleCall.attempt = 1
  BY DEF IdleCall
<1>3. ASSUME NEW o \in Dispatch
      PROVE  /\ Shrinks(o)
             /\ \/ GoesOn(call[o], call'[o])
                \/ /\ call'[o].attempt = 1
                   /\ call'[o].stage \in {"idle", "audit", "index"} => call'[o].items = <<>>
             /\ \A i \in DOMAIN call[o].items :
                  \/ call[o].items[i] \in InFlight' \cup abandoned'
                  \/ Settled(call[o].items[i], attempts')
  <2>1. CASE WorkerOf[o] # w
    <3>1. call'[o] = call[o]
      BY <1>1, <2>1
    <3> QED
      BY <3>1, QueuedFlies DEF Shrinks, GoesOn, OutcomeInv, Flying, Flown
  <2>2. CASE WorkerOf[o] = w
    <3>1. \A i \in DOMAIN call[o].items : call[o].items[i] \in ItemsOf(o)
      BY DEF ItemsOf, OutcomeInv, Flying, TypeInv, TypeOK, Call
    <3>2. call'[o] = IdleCall /\ ItemsOf(o) \subseteq abandoned'
      BY <1>1, <2>2
    <3> QED
      BY <1>2, <3>1, <3>2 DEF Shrinks
  <2> QED
    BY <2>1, <2>2
<1> QED
  BY <1>1, <1>3, OutcomeShrinks

-----------------------------------------------------------------------------

LEMMA OutcomeInit == Init => OutcomeInv
<1> SUFFICES ASSUME Init PROVE OutcomeInv
  OBVIOUS
<1>1. \A d \in Dispatch : call[d] = IdleCall
  BY DEF Init
<1>2. IdleCall.items = <<>> /\ IdleCall.attempt = 1 /\ IdleCall.stage = "idle"
  BY DEF IdleCall
<1>3. Flying /\ ItemsDistinct
  BY <1>1, <1>2, TypeInit DEF Flying, Flown, Sends, ItemsDistinct
<1>4. claims = {} /\ attempts = {} /\ received = {}
  BY DEF Init
<1> QED
  BY <1>3, <1>4 DEF OutcomeInv, ClaimsNumbered, SendsOnRecord, NoSilentDrop

LEMMA OutcomeStep == OutcomeInv /\ [Next]_vars => OutcomeInv'
<1> SUFFICES ASSUME OutcomeInv, [Next]_vars PROVE OutcomeInv'
  OBVIOUS
<1>1. TypeInv' /\ SendsOnRecord'
  BY TypeStep, SendsStep DEF OutcomeInv, Flying
<1>2. CASE AllGoOn /\ UNCHANGED <<attempts, claims, abandoned>>
  BY <1>1, <1>2, OutcomeGoOn
<1>3. ASSUME NEW d \in Dispatch, Changes(d) PROVE OutcomeInv'
  BY <1>1, <1>3, OutcomeEnqueue, OutcomeRetry, OutcomeRelease, OutcomeFinish, OutcomeRaises
     DEF Changes
<1> QED
  BY <1>1, <1>2, <1>3, OutcomeCrash, FlightCases DEF OutcomeInv

LEMMA OutcomeAlways == Spec => []OutcomeInv
BY OutcomeInit, OutcomeStep, PTL DEF Spec

\* A message is sent only under a reservation, and its n-th copy only after n - 1 attempts
\* are on record as retrying (SendsOnRecord).
THEOREM SendsAreOnRecord == Spec => []SendsOnRecord
<1>1. OutcomeInv => SendsOnRecord
  BY DEF OutcomeInv
<1> QED
  BY <1>1, OutcomeAlways, PTL

\* Every reserved delivery is in flight, has an outcome on record or was dropped by an
\* exception, a crash or a dry run (NoSilentDrop).
THEOREM NothingDroppedSilently == Spec => []NoSilentDrop
<1>1. OutcomeInv => NoSilentDrop
  BY DEF OutcomeInv
<1> QED
  BY <1>1, OutcomeAlways, PTL

\* Nothing is sent for a reservation after its outcome is on record (TerminalIsFinal).
THEOREM OutcomesAreFinal == Spec => TerminalIsFinal
<1>1. ASSUME OutcomeInv, [Next]_vars
      PROVE  [\A r \in received' \ received :
                ~\E a \in attempts : a.key = r.key /\ a.n = r.n /\ a.status # "retrying"]_vars
  <2> SUFFICES ASSUME NEW r \in received' \ received
               PROVE  ~\E a \in attempts : a.key = r.key /\ a.n = r.n /\ a.status # "retrying"
    OBVIOUS
  <2>1. PICK d \in Dispatch : call[d].stage = "sending" /\ r = ReceiptOf(d)
    BY <1>1, ReceiptFrame
  <2>2. call[d].items # <<>>
    BY <1>1, <2>1 DEF OutcomeInv, Flying, TypeInv, WellFormed
  <2>3. ~Settled(Head(call[d].items), attempts)
    BY <1>1, <2>2, HeadFlown DEF OutcomeInv
  <2> QED
    BY <2>1, <2>3 DEF Settled, ReceiptOf
<1> QED
  BY <1>1, OutcomeAlways, PTL DEF TerminalIsFinal, Spec

-----------------------------------------------------------------------------
(* The slots of a worker: the sum over its calls. *)

\* The slots of one call, as a value; its worker's calls and what they hold.
Slots(c) == Len(c.items) + (IF c.stage = "claim" THEN 1 ELSE 0)
Mine(w) == {d \in Dispatch : WorkerOf[d] = w}
HeldBy(calls, w) == [d \in Mine(w) |-> Slots(calls[d])]
HeldSum(calls, w) == Sums(HeldBy(calls, w), Mine(w))[Mine(w)]

SlotInv == TypeInv /\ SlotAccounting

LEMMA MineFinite == ASSUME NEW w PROVE IsFiniteSet(Mine(w))
BY DeliveryAssumption, FS_Subset DEF Mine

\* The sum in SlotAccounting, now and after the step.
LEMMA SlotSum ==
  /\ SlotAccounting
       <=> \A w \in Worker : controller[w].queued = leaked[w] + HeldSum(call, w)
  /\ SlotAccounting'
       <=> \A w \in Worker : controller'[w].queued = leaked'[w] + HeldSum(call', w)
<1> DEFINE With(calls, S) ==
             CHOOSE f : f = [s \in SUBSET S |->
                               IF s = {} THEN 0
                               ELSE Slots(calls[First(s)]) + f[s \ {First(s)}]]
<1>1. ASSUME NEW calls, NEW w
      PROVE  With(calls, Mine(w)) = Sums(HeldBy(calls, w), Mine(w))
  <2>1. ASSUME NEW s \in SUBSET Mine(w), s # {}
        PROVE  HeldBy(calls, w)[First(s)] = Slots(calls[First(s)])
    BY <2>1, FirstIn DEF HeldBy
  <2>2. \A f : [s \in SUBSET Mine(w) |->
                  IF s = {} THEN 0 ELSE Slots(calls[First(s)]) + f[s \ {First(s)}]]
               = [s \in SUBSET Mine(w) |-> Plus(HeldBy(calls, w), f, s)]
    BY <2>1 DEF Plus
  <2> QED
    BY <2>2 DEF Sums
<1>2. ASSUME NEW w
      PROVE  MapThenSumSet(Held, {d \in Dispatch : WorkerOf[d] = w}) = With(call, Mine(w))[Mine(w)]
  BY DEF MapThenSumSet, MapThenFoldSet, Slots, Mine, First, Held
<1>3. ASSUME NEW w
      PROVE  MapThenSumSet(Held, {d \in Dispatch : WorkerOf[d] = w})'
               = With(call', Mine(w))[Mine(w)]
  BY DEF MapThenSumSet, MapThenFoldSet, Slots, Mine, First, Held
<1> HIDE DEF With
<1>4. ASSUME NEW w
      PROVE  MapThenSumSet(Held, {d \in Dispatch : WorkerOf[d] = w}) = HeldSum(call, w)
  BY <1>1, <1>2 DEF HeldSum
<1>5. ASSUME NEW w
      PROVE  MapThenSumSet(Held, {d \in Dispatch : WorkerOf[d] = w})' = HeldSum(call', w)
  BY <1>1, <1>3 DEF HeldSum
<1> QED
  BY <1>4, <1>5 DEF SlotAccounting

LEMMA SlotsType ==
  ASSUME NEW c \in Call
  PROVE  Slots(c) \in Nat /\ (c.items # <<>> \/ c.stage = "claim" => Slots(c) > 0)
<1>1. c.items \in Seq(Item)
  BY DEF Call
<1>2. Len(c.items) \in Nat /\ (c.items # <<>> => Len(c.items) > 0)
  BY <1>1
<1>3. CASE c.stage = "claim"
  BY <1>2, <1>3 DEF Slots
<1>4. CASE c.stage # "claim"
  BY <1>2, <1>4 DEF Slots
<1> QED
  BY <1>3, <1>4

\* A call holds no more than its worker's controller counts.
LEMMA SlotsQueued ==
  ASSUME SlotInv, NEW d \in Dispatch
  PROVE  /\ Slots(call[d]) \in Nat
         /\ controller[WorkerOf[d]].queued \in Nat
         /\ controller[WorkerOf[d]].queued >= Slots(call[d])
<1> DEFINE w == WorkerOf[d]
           h == HeldBy(call, w)
<1>1. w \in Worker /\ d \in Mine(w)
  BY DeliveryAssumption DEF Mine
<1>2. \A o \in Mine(w) : h[o] \in Nat /\ h[o] = Slots(call[o])
  BY SlotsType DEF SlotInv, TypeInv, TypeOK, HeldBy, Mine
<1> HIDE DEF h
<1>3. HeldSum(call, w) \in Nat /\ HeldSum(call, w) >= h[d]
  BY <1>1, <1>2, MineFinite, SumsBound DEF HeldSum, h
<1>4. controller[w].queued = leaked[w] + HeldSum(call, w) /\ leaked[w] \in Nat
  BY <1>1, SlotSum DEF SlotInv, TypeInv, TypeOK
<1> QED
  BY <1>1, <1>2, <1>3, <1>4

\* One call changes: its worker's count changes by what the call holds more and by what
\* is left behind.
Alone(d) ==
  /\ \A o \in Dispatch \ {d} : call'[o] = call[o]
  /\ \A v \in Worker \ {WorkerOf[d]} : controller'[v] = controller[v] /\ leaked'[v] = leaked[v]

LEMMA SlotUpdate ==
  ASSUME SlotInv, TypeInv', NEW d \in Dispatch, Alone(d),
         controller'[WorkerOf[d]].queued - controller[WorkerOf[d]].queued
           = (Slots(call'[d]) - Slots(call[d])) + (leaked'[WorkerOf[d]] - leaked[WorkerOf[d]])
  PROVE  SlotAccounting'
<1>1. /\ call \in [Dispatch -> Call] /\ call' \in [Dispatch -> Call]
      /\ controller \in [Worker -> Controller] /\ leaked \in [Worker -> Nat]
      /\ controller' \in [Worker -> Controller] /\ leaked' \in [Worker -> Nat]
      /\ WorkerOf \in [Dispatch -> Worker]
  BY DeliveryAssumption DEF SlotInv, TypeInv, TypeOK
<1>2. \A o \in Dispatch \ {d} : call'[o] = call[o]
  BY DEF Alone
<1> SUFFICES ASSUME NEW w \in Worker
             PROVE  controller'[w].queued = leaked'[w] + HeldSum(call', w)
  BY SlotSum
<1>3. controller[w].queued = leaked[w] + HeldSum(call, w)
  BY SlotSum DEF SlotInv
<1> DEFINE g == HeldBy(call, w)
           h == HeldBy(call', w)
<1>4. \A o \in Mine(w) : /\ g[o] = Slots(call[o]) /\ h[o] = Slots(call'[o])
                         /\ g[o] \in Int /\ h[o] \in Int /\ (o # d => h[o] = g[o])
  BY <1>1, <1>2, SlotsType DEF HeldBy, Mine
<1> HIDE DEF g, h
<1>5. /\ HeldSum(call, w) \in Int
      /\ HeldSum(call', w) = HeldSum(call, w) + (IF d \in Mine(w) THEN h[d] - g[d] ELSE 0)
  <2>1. \A o \in Mine(w) : g[o] \in Int /\ h[o] \in Int /\ (o # d => h[o] = g[o])
    BY <1>4
  <2>2. /\ Sums(g, Mine(w))[Mine(w)] \in Int
        /\ Sums(h, Mine(w))[Mine(w)] = Sums(g, Mine(w))[Mine(w)]
                                        + (IF d \in Mine(w) THEN h[d] - g[d] ELSE 0)
    BY <2>1, MineFinite, SumsChange
  <2> QED
    BY <2>2 DEF HeldSum, g, h
<1>6. controller[w].queued \in Int /\ controller'[w].queued \in Int
      /\ leaked[w] \in Int /\ leaked'[w] \in Int
  BY <1>1 DEF Controller
<1>7. CASE w = WorkerOf[d]
  <2>1. d \in Mine(w)
    BY <1>1, <1>7 DEF Mine
  <2>2. h[d] = Slots(call'[d]) /\ g[d] = Slots(call[d]) /\ h[d] \in Int /\ g[d] \in Int
    BY <1>4, <2>1
  <2> QED
    BY <1>3, <1>5, <1>6, <1>7, <2>1, <2>2
<1>8. CASE w # WorkerOf[d]
  <2>1. d \notin Mine(w) /\ controller'[w] = controller[w] /\ leaked'[w] = leaked[w]
    BY <1>1, <1>8 DEF Mine, Alone
  <2> QED
    BY <1>3, <1>5, <2>1
<1> QED
  BY <1>7, <1>8

\* The number a sample or an operation of the controller leaves.
LEMMA QueuedAfter ==
  ASSUME NEW b \in Controller
  PROVE  /\ Refused(b).queued = b.queued
         /\ HasSlot(b) => Reserved(b).queued = b.queued + 1
         /\ b.queued > 0 => Released(b).queued = b.queued - 1
<1>1. [b EXCEPT !.queued = IF @ > 0 THEN @ - 1 ELSE @] \in Controller
  BY BackpressureAssumption DEF Controller
<1>2. HasSlot(b) => [b EXCEPT !.queued = @ + 1] \in Controller
  BY BackpressureAssumption DEF Controller, HasSlot
<1>3. b.queued > 0 => [b EXCEPT !.queued = IF @ > 0 THEN @ - 1 ELSE @].queued = b.queued - 1
  BY DEF Controller
<1>4. [b EXCEPT !.queued = @ + 1].queued = b.queued + 1
  BY DEF Controller
<1> QED
  BY <1>1, <1>2, <1>3, <1>4, TransitionType DEF Refused, Reserved, Released

\* What a step of one call writes, beside other variables.
LEMMA AloneKept ==
  ASSUME SlotInv, NEW d \in Dispatch, NEW e, call' = [call EXCEPT ![d] = e],
         UNCHANGED leaked
  PROVE  /\ UNCHANGED controller
              => Alone(d) /\ call'[d] = e /\ controller'[WorkerOf[d]] = controller[WorkerOf[d]]
         /\ \A b : SetController(WorkerOf[d], b)
              => Alone(d) /\ call'[d] = e /\ controller'[WorkerOf[d]] = b
         /\ leaked'[WorkerOf[d]] - leaked[WorkerOf[d]] = 0
<1>1. /\ call \in [Dispatch -> Call] /\ controller \in [Worker -> Controller]
      /\ leaked[WorkerOf[d]] \in Nat /\ WorkerOf[d] \in Worker
  BY DeliveryAssumption DEF SlotInv, TypeInv, TypeOK
<1>2. call'[d] = e /\ \A o \in Dispatch \ {d} : call'[o] = call[o]
  BY <1>1
<1>3. UNCHANGED controller => Alone(d)
  BY <1>2 DEF Alone
<1>4. ASSUME NEW b, SetController(WorkerOf[d], b)
      PROVE  Alone(d) /\ controller'[WorkerOf[d]] = b
  BY <1>1, <1>2, <1>4 DEF Alone, SetController
<1>5. leaked'[WorkerOf[d]] - leaked[WorkerOf[d]] = 0
  BY <1>1
<1> QED
  BY <1>2, <1>3, <1>4, <1>5

\* A call is replaced by one that holds as much, or a slot more or less.
LEMMA SlotMoves ==
  ASSUME SlotInv, TypeInv', NEW d \in Dispatch, NEW e, call' = [call EXCEPT ![d] = e],
         UNCHANGED leaked, Slots(e) \in Nat,
         LET b == controller[WorkerOf[d]]
         IN \/ UNCHANGED controller /\ Slots(e) = Slots(call[d])
            \/ SetController(WorkerOf[d], Refused(b)) /\ Slots(e) = Slots(call[d])
            \/ HasSlot(b) /\ SetController(WorkerOf[d], Reserved(b)) /\ Slots(e) = Slots(call[d]) + 1
            \/ SetController(WorkerOf[d], Released(b)) /\ Slots(e) = Slots(call[d]) - 1
  PROVE  SlotAccounting'
<1> DEFINE w == WorkerOf[d]
           b == controller[w]
<1>1. w \in Worker /\ b \in Controller
  BY DeliveryAssumption DEF SlotInv, TypeInv, TypeOK
<1>2. Slots(call[d]) \in Nat /\ b.queued \in Nat /\ b.queued >= Slots(call[d])
  BY SlotsQueued
<1>3. /\ Alone(d) /\ call'[d] = e /\ leaked'[w] - leaked[w] = 0
      /\ \/ controller'[w] = b /\ Slots(e) = Slots(call[d])
         \/ controller'[w] = Refused(b) /\ Slots(e) = Slots(call[d])
         \/ HasSlot(b) /\ controller'[w] = Reserved(b) /\ Slots(e) = Slots(call[d]) + 1
         \/ controller'[w] = Released(b) /\ Slots(e) = Slots(call[d]) - 1
  BY AloneKept
<1>4. controller'[w].queued - b.queued = Slots(e) - Slots(call[d])
  <2>1. CASE controller'[w] = b /\ Slots(e) = Slots(call[d])
    BY <1>2, <2>1
  <2>2. CASE controller'[w] = Refused(b) /\ Slots(e) = Slots(call[d])
    BY <1>1, <1>2, <2>2, QueuedAfter
  <2>3. CASE HasSlot(b) /\ controller'[w] = Reserved(b) /\ Slots(e) = Slots(call[d]) + 1
    BY <1>1, <1>2, <2>3, QueuedAfter
  <2>4. CASE controller'[w] = Released(b) /\ Slots(e) = Slots(call[d]) - 1
    BY <1>1, <1>2, <2>4, QueuedAfter
  <2> QED
    BY <1>3, <2>1, <2>2, <2>3, <2>4
<1>5. controller'[w].queued - b.queued = (Slots(call'[d]) - Slots(call[d])) + (leaked'[w] - leaked[w])
  BY <1>2, <1>3, <1>4
<1> QED
  BY <1>3, <1>5, SlotUpdate

LEMMA SlotStep ==
  ASSUME SlotInv, TypeInv', NEW d \in Dispatch, Step(d)
  PROVE  SlotAccounting'
<1> USE DEF redis, history
<1> DEFINE c == call[d]
<1>0. /\ call \in [Dispatch -> Call] /\ c \in Call /\ c.items \in Seq(Item)
      /\ Len(c.items) \in Nat /\ (c.items # <<>> => Len(c.items) > 0)
      /\ Slots(c) \in Nat
  <2>1. call \in [Dispatch -> Call] /\ c \in Call /\ c.items \in Seq(Item)
    BY DEF SlotInv, TypeInv, TypeOK, Call
  <2> QED
    BY <2>1, SlotsType
<1>N. ASSUME NextChannel(d), UNCHANGED leaked,
             \/ c.stage # "claim" /\ (UNCHANGED controller
                                        \/ SetController(WorkerOf[d], Refused(controller[WorkerOf[d]])))
             \/ c.stage = "claim" /\ SetController(WorkerOf[d], Released(controller[WorkerOf[d]]))
      PROVE  SlotAccounting'
  <2> DEFINE e == [c EXCEPT !.stage = "prepare", !.next = @ + 1, !.passedAt = 0]
  <2>1. call' = [call EXCEPT ![d] = e]
    BY <1>0, <1>N DEF NextChannel
  <2>2. e.items = c.items /\ e.stage = "prepare"
    BY <1>0 DEF Call
  <2> HIDE DEF e
  <2>4. CASE c.stage # "claim"
    <3>1. Slots(e) = Slots(c)
      BY <1>0, <2>2, <2>4 DEF Slots
    <3> QED
      BY <1>0, <1>N, <2>1, <2>4, <3>1, SlotMoves
  <2>5. CASE c.stage = "claim"
    <3>1. Slots(e) = Slots(c) - 1 /\ Slots(e) \in Nat
      BY <1>0, <2>2, <2>5 DEF Slots
    <3> QED
      BY <1>N, <2>1, <2>5, <3>1, SlotMoves
  <2> QED
    BY <2>4, <2>5
<1>1. CASE SkipMissingBinding(d) \/ SkipCooldown(d) \/ SkipBackpressure(d) \/ SkipIdempotent(d)
  BY <1>1, <1>N DEF SkipMissingBinding, SkipCooldown, SkipBackpressure, SkipIdempotent, At
<1>K. ASSUME NEW e, call' = [call EXCEPT ![d] = e], UNCHANGED <<controller, leaked>>,
             e.items = c.items, e.stage # "claim", c.stage # "claim"
      PROVE  SlotAccounting'
  <2>1. Slots(e) = Slots(c)
    BY <1>0, <1>K DEF Slots
  <2> QED
    BY <1>0, <1>K, <2>1, SlotMoves
<1>2. ASSUME NEW stage, Goto(d, stage), stage # "claim", c.stage # "claim",
             UNCHANGED <<controller, leaked>>
      PROVE  SlotAccounting'
  <2> DEFINE e == [c EXCEPT !.stage = stage]
  <2>1. call' = [call EXCEPT ![d] = e] /\ e.items = c.items /\ e.stage = stage
    BY <1>0, <1>2 DEF Goto, Call
  <2> HIDE DEF e
  <2> QED
    BY <1>2, <1>K, <2>1
<1>3. CASE AuditTrigger(d) \/ AuditIndex(d) \/ StartSending(d)
  <2>1. /\ UNCHANGED <<controller, leaked>> /\ c.stage # "claim"
        /\ Goto(d, "prepare") \/ Goto(d, "index") \/ Goto(d, "sending")
    BY <1>3 DEF AuditTrigger, AuditIndex, StartSending, At
  <2> QED
    BY <1>2, <2>1
<1>4. CASE PassCooldown(d)
  <2> DEFINE e == [c EXCEPT !.stage = "slot", !.passedAt = clock]
  <2>1. /\ call' = [call EXCEPT ![d] = e] /\ e.items = c.items /\ e.stage = "slot"
        /\ c.stage = "prepare" /\ UNCHANGED <<controller, leaked>>
    BY <1>0, <1>4 DEF PassCooldown, At, Call
  <2> HIDE DEF e
  <2> QED
    BY <1>K, <2>1
<1>5. CASE ReserveSlot(d)
  <2> DEFINE e == [c EXCEPT !.stage = "claim"]
  <2>1. /\ call' = [call EXCEPT ![d] = e] /\ e.items = c.items /\ e.stage = "claim"
        /\ c.stage = "slot" /\ UNCHANGED leaked /\ HasSlot(controller[WorkerOf[d]])
        /\ SetController(WorkerOf[d], Reserved(controller[WorkerOf[d]]))
    BY <1>0, <1>5 DEF ReserveSlot, Goto, At, Call
  <2> HIDE DEF e
  <2>2. Slots(e) = Slots(c) + 1 /\ Slots(e) \in Nat
    BY <1>0, <2>1 DEF Slots
  <2> QED
    BY <2>1, <2>2, SlotMoves
<1>6. CASE Enqueue(d)
  <2> DEFINE item == [key |-> KeyAt(d), n |-> ClaimCount(KeyAt(d)) + 1]
             e == [c EXCEPT !.stage = "prepare", !.next = @ + 1, !.passedAt = 0,
                            !.items = Append(@, item)]
  <2>1. /\ call' = [call EXCEPT ![d] = e] /\ c.stage = "claim"
        /\ UNCHANGED <<controller, leaked>>
    BY <1>0, <1>6 DEF Enqueue, At
  <2>2. e.items = Append(c.items, item) /\ e.stage = "prepare"
    BY <1>0 DEF Call
  <2>3. item \in Item
    BY <1>6, EnqueueKey, ClaimCountType DEF SlotInv, TypeInv, Item
  <2> HIDE DEF item, e
  <2>4. Len(e.items) = Len(c.items) + 1
    BY <1>0, <2>2, <2>3
  <2>5. Slots(e) = Slots(c)
    BY <1>0, <2>1, <2>2, <2>4 DEF Slots
  <2> QED
    BY <1>0, <2>1, <2>5, SlotMoves
<1>7. CASE FinishEmpty(d)
  <2>1. /\ call' = [call EXCEPT ![d] = IdleCall] /\ c.stage = "prepare" /\ c.items = <<>>
        /\ UNCHANGED <<controller, leaked>>
    BY <1>7 DEF FinishEmpty, Return, At
  <2>2. IdleCall.items = <<>> /\ IdleCall.stage = "idle"
    BY DEF IdleCall
  <2> QED
    BY <1>K, <2>1, <2>2
<1>R. ASSUME NEW e, call' = [call EXCEPT ![d] = e], UNCHANGED leaked,
             SetController(WorkerOf[d], Released(controller[WorkerOf[d]])),
             c.stage # "claim", e.stage # "claim", c.items # <<>>, e.items = Tail(c.items)
      PROVE  SlotAccounting'
  <2>1. Len(e.items) = Len(c.items) - 1 /\ Len(c.items) > 0
    BY <1>0, <1>R
  <2>2. Slots(e) = Slots(c) - 1 /\ Slots(e) \in Nat
    BY <1>0, <1>R, <2>1 DEF Slots
  <2> QED
    BY <1>R, <2>2, SlotMoves
<1>8. CASE ReleaseUnsent(d)
  <2> DEFINE e == [c EXCEPT !.items = Tail(@)]
  <2>1. /\ call' = [call EXCEPT ![d] = e] /\ c.stage = "prepare" /\ e.stage = "prepare"
        /\ e.items = Tail(c.items) /\ c.items # <<>> /\ UNCHANGED leaked
        /\ SetController(WorkerOf[d], Released(controller[WorkerOf[d]]))
    BY <1>0, <1>8 DEF ReleaseUnsent, At, Call
  <2> HIDE DEF e
  <2> QED
    BY <1>R, <2>1
<1>9. CASE FinishItem(d)
  <2>1. /\ c.stage = "answered" /\ c.items # <<>> /\ UNCHANGED leaked
        /\ SetController(WorkerOf[d], Released(controller[WorkerOf[d]]))
    BY <1>9 DEF FinishItem, At, SlotInv, TypeInv, WellFormed
  <2>2. CASE Len(c.items) = 1
    <3>1. call' = [call EXCEPT ![d] = IdleCall]
      BY <1>9, <2>2 DEF FinishItem, Return
    <3>2. IdleCall.items = <<>> /\ IdleCall.stage = "idle"
      BY DEF IdleCall
    <3>3. Slots(IdleCall) \in Nat /\ Slots(IdleCall) = Slots(c) - 1
      BY <1>0, <2>1, <2>2, <3>2 DEF Slots
    <3> QED
      BY <2>1, <3>1, <3>3, SlotMoves
  <2>3. CASE Len(c.items) # 1
    <3> DEFINE e == [c EXCEPT !.stage = "sending", !.items = Tail(@), !.attempt = 1,
                              !.answer = "none"]
    <3>1. /\ call' = [call EXCEPT ![d] = e] /\ e.stage = "sending"
          /\ e.items = Tail(c.items)
      BY <1>0, <1>9, <2>3 DEF FinishItem, Call
    <3> HIDE DEF e
    <3> QED
      BY <1>R, <2>1, <3>1
  <2> QED
    BY <2>2, <2>3
<1>10. CASE RetryAttempt(d)
  <2> DEFINE e == [c EXCEPT !.stage = "sending", !.attempt = @ + 1, !.answer = "none"]
  <2>1. /\ call' = [call EXCEPT ![d] = e] /\ c.stage = "answered" /\ e.stage = "sending"
        /\ e.items = c.items /\ UNCHANGED <<controller, leaked>>
    BY <1>0, <1>10 DEF RetryAttempt, Retry, At, Call
  <2> HIDE DEF e
  <2> QED
    BY <1>K, <2>1
<1>11. ASSUME NEW answer, NEW delivered, ProviderAnswers(d, answer, delivered)
       PROVE  SlotAccounting'
  <2> DEFINE e == [c EXCEPT !.stage = "answered", !.answer = answer]
  <2>1. /\ call' = [call EXCEPT ![d] = e] /\ c.stage = "sending" /\ e.stage = "answered"
        /\ e.items = c.items /\ UNCHANGED <<controller, leaked>>
    BY <1>0, <1>11 DEF ProviderAnswers, Call
  <2> HIDE DEF e
  <2> QED
    BY <1>K, <2>1
<1>12. CASE DispatchRaises(d)
  <2> DEFINE w == WorkerOf[d]
             b == controller[w]
             sending == c.stage \in {"sending", "answered"}
             a == IF sending THEN Released(b) ELSE b
  <2>1. /\ call' = [call EXCEPT ![d] = IdleCall]
        /\ controller' = [controller EXCEPT ![w] = a]
        /\ leaked' = [leaked EXCEPT ![w] = leaked[w] + Slots(c) - (IF sending THEN 1 ELSE 0)]
    BY <1>12 DEF DispatchRaises, Return, SetController, Held, Slots
  <2>2. /\ Alone(d) /\ call'[d] = IdleCall /\ controller'[w] = a
        /\ leaked'[w] = leaked[w] + Slots(c) - (IF sending THEN 1 ELSE 0)
    <3>1. /\ call \in [Dispatch -> Call] /\ controller \in [Worker -> Controller]
          /\ leaked \in [Worker -> Nat] /\ w \in Worker
      BY DeliveryAssumption DEF SlotInv, TypeInv, TypeOK
    <3> HIDE DEF a
    <3> QED
      BY <2>1, <3>1 DEF Alone
  <2>3. Slots(IdleCall) = 0
    BY DEF IdleCall, Slots
  <2>4. w \in Worker /\ b \in Controller /\ leaked[w] \in Nat
    BY DeliveryAssumption DEF SlotInv, TypeInv, TypeOK
  <2>5. b.queued \in Nat /\ b.queued >= Slots(c)
    BY SlotsQueued
  <2>6. sending => Slots(c) > 0
    BY <1>0, SlotsType DEF SlotInv, TypeInv, WellFormed
  <2>7. CASE sending
    <3>1. a.queued = b.queued - 1 /\ leaked'[w] = leaked[w] + Slots(c) - 1
      BY <1>0, <2>2, <2>4, <2>5, <2>6, <2>7, QueuedAfter
    <3>2. controller'[w].queued - b.queued
            = (Slots(call'[d]) - Slots(c)) + (leaked'[w] - leaked[w])
      BY <1>0, <2>2, <2>3, <2>4, <2>5, <3>1
    <3> QED
      BY <2>2, <3>2, SlotUpdate
  <2>8. CASE ~sending
    <3>1. a.queued = b.queued /\ leaked'[w] = leaked[w] + Slots(c)
      BY <1>0, <2>2, <2>4, <2>8
    <3>2. controller'[w].queued - b.queued
            = (Slots(call'[d]) - Slots(c)) + (leaked'[w] - leaked[w])
      BY <1>0, <2>2, <2>3, <2>4, <2>5, <3>1
    <3> QED
      BY <2>2, <3>2, SlotUpdate
  <2> QED
    BY <2>7, <2>8
<1> QED
  BY <1>1, <1>3, <1>4, <1>5, <1>6, <1>7, <1>8, <1>9, <1>10, <1>11, <1>12 DEF Step

\* A crash: the worker's calls are gone, and so is its controller.
LEMMA SlotCrash ==
  ASSUME SlotInv, TypeInv', NEW w \in Worker, Crash(w)
  PROVE  SlotAccounting'
<1> SUFFICES ASSUME NEW v \in Worker
             PROVE  controller'[v].queued = leaked'[v] + HeldSum(call', v)
  BY SlotSum
<1>1. /\ controller \in [Worker -> Controller] /\ leaked \in [Worker -> Nat]
      /\ \A o \in Dispatch : call'[o] = IF WorkerOf[o] = w THEN IdleCall ELSE call[o]
      /\ controller' = [controller EXCEPT ![w] = FreshController]
      /\ leaked' = [leaked EXCEPT ![w] = 0]
  BY DEF Crash, SetController, SlotInv, TypeInv, TypeOK
<1>2. CASE v = w
  <2>1. \A o \in Mine(v) : HeldBy(call', v)[o] = 0
    <3>1. Slots(IdleCall) = 0
      BY DEF Slots, IdleCall
    <3>2. \A o \in Mine(v) : call'[o] = IdleCall
      BY <1>1, <1>2 DEF Mine
    <3> QED
      BY <3>1, <3>2 DEF HeldBy
  <2>2. HeldSum(call', v) = 0
    BY <2>1, MineFinite, SumsZero DEF HeldSum
  <2> QED
    BY <1>1, <1>2, <2>2 DEF FreshController
<1>3. CASE v # w
  <2>1. HeldBy(call', v) = HeldBy(call, v)
    BY <1>1, <1>3 DEF HeldBy, Mine
  <2>2. HeldSum(call', v) = HeldSum(call, v)
    BY <2>1 DEF HeldSum
  <2> QED
    BY <1>1, <1>3, <2>2, SlotSum DEF SlotInv
<1> QED
  BY <1>2, <1>3

\* A step that leaves every call its slots, and the controllers alone.
LEMMA SlotsSame ==
  ASSUME SlotInv, UNCHANGED <<controller, leaked>>,
         \A o \in Dispatch : Slots(call'[o]) = Slots(call[o])
  PROVE  SlotAccounting'
<1>1. \A v \in Worker : HeldBy(call', v) = HeldBy(call, v)
  BY DEF HeldBy, Mine
<1> QED
  BY <1>1, SlotSum DEF HeldSum, SlotInv

LEMMA SlotInvStep == Flying /\ SlotInv /\ [Next]_vars => SlotInv'
<1> SUFFICES ASSUME Flying, SlotInv, [Next]_vars PROVE SlotAccounting'
  BY TypeStep DEF SlotInv
<1> USE DEF redis, history
<1>T. TypeInv'
  BY TypeStep DEF SlotInv
<1>1. ASSUME NEW d \in Dispatch, NEW k \in TriggerKey, NEW a \in Alert, NEW b \in Bindings,
             DispatchStart(d, k, a, b)
      PROVE  SlotAccounting'
  <2> DEFINE e == [IdleCall EXCEPT !.stage = "audit", !.trigger = k, !.alert = a,
                                   !.binding = b]
  <2>1. /\ call' = [call EXCEPT ![d] = e] /\ call[d].stage = "idle"
        /\ UNCHANGED <<controller, leaked>> /\ call \in [Dispatch -> Call]
    BY <1>1 DEF DispatchStart, SlotInv, TypeInv, TypeOK
  <2>2. e.items = <<>> /\ e.stage = "audit"
    BY DEF IdleCall
  <2> HIDE DEF e
  <2>3. call[d].items = <<>>
    BY <2>1 DEF Flying, Flown
  <2>4. \A o \in Dispatch : Slots(call'[o]) = Slots(call[o])
    BY <2>1, <2>2, <2>3 DEF Slots
  <2> QED
    BY <2>1, <2>4, SlotsSame
<1>2. ASSUME \/ \E d \in Dispatch, k \in TriggerKey, a \in Alert : DispatchMuted(d, k, a)
             \/ Tick
             \/ \E u \in User, seconds \in MuteSeconds : SetMute(u, seconds)
             \/ \E u \in User : ClearMute(u)
             \/ UNCHANGED vars
      PROVE  SlotAccounting'
  <2>1. UNCHANGED <<call, controller, leaked>>
    BY <1>2 DEF DispatchMuted, Tick, SetMute, ClearMute, vars
  <2> QED
    BY <2>1, SlotsSame
<1> QED
  BY <1>T, <1>1, <1>2, SlotStep, SlotCrash DEF Next

LEMMA SlotInit == Init => SlotInv
<1> SUFFICES ASSUME Init PROVE SlotInv
  OBVIOUS
<1>1. ASSUME NEW w \in Worker PROVE controller[w].queued = leaked[w] + HeldSum(call, w)
  <2>1. \A o \in Mine(w) : HeldBy(call, w)[o] = 0
    BY DEF Init, HeldBy, Mine, Slots, IdleCall
  <2>2. HeldSum(call, w) = 0
    BY <2>1, MineFinite, SumsZero DEF HeldSum
  <2> QED
    BY <2>2 DEF Init, FreshController
<1> QED
  BY <1>1, SlotSum, TypeInit DEF SlotInv

\* The queued count of every controller is the slots its worker's calls hold and those an
\* exception left behind (SlotAccounting).
THEOREM SlotsAreConserved == Spec => []SlotAccounting
<1>1. SlotInv => SlotAccounting
  BY DEF SlotInv
<1>2. OutcomeInv => Flying
  BY DEF OutcomeInv
<1> QED
  BY <1>1, <1>2, OutcomeAlways, SlotInit, SlotInvStep, PTL DEF Spec

=============================================================================
