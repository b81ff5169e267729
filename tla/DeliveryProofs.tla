--------------------------- MODULE DeliveryProofs ---------------------------
(***************************************************************************)
(* Theorems about Delivery, for any number of workers, coroutines, alerts, *)
(* channels and bindings, any cooldowns and TTL, and any length of run:    *)
(* the types, the spacing of reservations and of the deliveries under one  *)
(* cooldown, audit before delivery, and the saturation level.              *)
(***************************************************************************)
EXTENDS Delivery, FiniteSetTheorems, TLAPS

-----------------------------------------------------------------------------
(* What one sample of the backpressure controller preserves. *)

\* A sample keeps the number of queued deliveries and the type of the record.
LEMMA TransitionType ==
  ASSUME NEW b \in Controller
  PROVE  /\ ApplyStateTransition(b) \in Controller
         /\ ApplyStateTransition(b).queued = b.queued
<1> DEFINE samples == IF b.stable < RecoveryWindow THEN b.stable + 1 ELSE b.stable
<1>1. 0 \in 0 .. RecoveryWindow /\ samples \in 0 .. RecoveryWindow
  BY BackpressureAssumption DEF Controller
<1>2. CASE Reaches(b.queued, CriticalPct)
  BY <1>1, <1>2 DEF Controller, Level, ApplyStateTransition
<1>3. CASE ~Reaches(b.queued, CriticalPct) /\ Reaches(b.queued, WarningPct)
  BY <1>1, <1>3 DEF Controller, Level, ApplyStateTransition
<1>4. CASE ~Reaches(b.queued, CriticalPct) /\ ~Reaches(b.queued, WarningPct)
  BY <1>1, <1>4 DEF Controller, Level, ApplyStateTransition
<1> QED
  BY <1>2, <1>3, <1>4

\* After any sample the level tracks the utilization, whatever it was before.
LEMMA TransitionTracks ==
  ASSUME NEW b \in Controller
  PROVE  Tracks(ApplyStateTransition(b))
<1>1. CASE Reaches(b.queued, CriticalPct)
  <2>1. Reaches(b.queued, WarningPct)
    BY <1>1, BackpressureAssumption DEF Reaches, Controller
  <2> QED
    BY <1>1, <2>1, BackpressureAssumption DEF Tracks, ApplyStateTransition, Controller
<1>2. CASE ~Reaches(b.queued, CriticalPct)
  BY <1>2, BackpressureAssumption DEF Tracks, ApplyStateTransition, Controller
<1> QED
  BY <1>1, <1>2

\* The fresh controller and each operation of the controller give a record of its
\* type whose level tracks its utilization.
LEMMA FreshControllerOK == FreshController \in Controller /\ Tracks(FreshController)
<1>1. FreshController \in Controller
  BY BackpressureAssumption DEF FreshController, Controller, Level
<1>2. ~Reaches(0, CriticalPct) /\ ~Reaches(0, WarningPct)
  BY BackpressureAssumption DEF Reaches
<1> QED
  BY <1>1, <1>2 DEF FreshController, Tracks

LEMMA OperationsOK ==
  ASSUME NEW b \in Controller
  PROVE  /\ Refused(b) \in Controller /\ Tracks(Refused(b))
         /\ Released(b) \in Controller /\ Tracks(Released(b))
         /\ HasSlot(b) => Reserved(b) \in Controller /\ Tracks(Reserved(b))
<1>1. [b EXCEPT !.queued = IF @ > 0 THEN @ - 1 ELSE @] \in Controller
  BY BackpressureAssumption DEF Controller
<1>2. HasSlot(b) => [b EXCEPT !.queued = @ + 1] \in Controller
  BY BackpressureAssumption DEF Controller, HasSlot
<1> QED
  BY <1>1, <1>2, TransitionType, TransitionTracks DEF Refused, Released, Reserved

-----------------------------------------------------------------------------
(* Types. *)

\* A call between the cooldown and the idempotency key stands at a channel that
\* resolved to a destination; a call that sends has an item to send.
WellFormed(c) ==
  /\ c.stage \in {"slot", "claim"}
       => /\ c.next <= Len(ChannelsOf[c.alert])
          /\ c.binding[<<UserOf[c.alert], ChannelsOf[c.alert][c.next]>>] \in Destination
  /\ c.stage \in {"sending", "answered"} => c.items # <<>>

\* The inductive form of TypeOK: the claims counted by ClaimCount are finitely many.
TypeInv ==
  /\ TypeOK
  /\ IsFiniteSet(claims)
  /\ \A d \in Dispatch : WellFormed(call[d])

-----------------------------------------------------------------------------
(* Types of what the actions are built from. *)

LEMMA IdleCallType == IdleCall \in Call
<1>1. /\ (CHOOSE k \in TriggerKey : TRUE) \in TriggerKey
      /\ (CHOOSE a \in Alert : TRUE) \in Alert
      /\ (CHOOSE b \in Bindings : TRUE) \in Bindings
  BY DeliveryAssumption
<1>2. <<>> \in Seq(Item) /\ 1 \in 1 .. MaxAttempts
  BY DeliveryAssumption
<1> QED
  BY <1>1, <1>2 DEF IdleCall, Call, Stage, Answer

LEMMA ClaimCountType ==
  ASSUME IsFiniteSet(claims), NEW k
  PROVE  ClaimCount(k) \in Nat
<1>1. IsFiniteSet({c \in claims : c.key = k})
  BY FS_Subset
<1> QED
  BY <1>1, FS_CardinalityType DEF ClaimCount

\* What a call knows about the channel it stands at.
LEMMA ChannelTypes ==
  ASSUME TypeOK, NEW d \in Dispatch, HasChannel(d)
  PROVE  /\ ChannelAt(d) \in Channel
         /\ CooldownKey(d) \in Scope \X Channel
         /\ Resolved(d) \in Destination \cup {NoDestination}
         /\ Resolved(d) \in Destination => KeyAt(d) \in DeliveryKey
<1>1. /\ call[d] \in Call
      /\ call[d].alert \in Alert /\ call[d].trigger \in TriggerKey
      /\ call[d].next \in Nat \ {0} /\ call[d].binding \in Bindings
  BY DEF TypeOK, Call
<1>2. Channels(d) \in Seq(Channel)
  BY <1>1, DeliveryAssumption DEF Channels
<1>3. ChannelAt(d) \in Channel
  BY <1>1, <1>2 DEF ChannelAt, HasChannel
<1>4. <<UserOf[call[d].alert], ChannelAt(d)>> \in User \X Channel
  BY <1>1, <1>3, DeliveryAssumption
<1>5. call[d].binding \in [User \X Channel -> Destination \cup {NoDestination}]
  BY <1>1, DeliveryAssumption
<1>6. Resolved(d) \in Destination \cup {NoDestination}
  BY <1>4, <1>5 DEF Resolved
<1>7. CooldownKey(d) \in Scope \X Channel
  BY <1>1, <1>3, DeliveryAssumption DEF CooldownKey
<1> QED
  BY <1>1, <1>3, <1>6, <1>7 DEF KeyAt, DeliveryKey

\* What a call knows about the item at the head of its queue.
LEMMA HeadTypes ==
  ASSUME TypeOK, NEW d \in Dispatch, call[d].items # <<>>
  PROVE  /\ Head(call[d].items) \in Item
         /\ Tail(call[d].items) \in Seq(Item)
         /\ Head(call[d].items) \in ItemsOf(d)
         /\ Len(call[d].items) \in Nat \ {0}
<1>1. call[d].items \in Seq(Item)
  BY DEF TypeOK, Call
<1>2. Len(call[d].items) \in Nat \ {0}
  BY <1>1
<1>3. Head(call[d].items) = call[d].items[1] /\ 1 \in 1 .. Len(call[d].items)
  BY <1>1, <1>2
<1> QED
  BY <1>1, <1>2, <1>3 DEF ItemsOf

LEMMA RecordType ==
  ASSUME TypeOK, NEW d \in Dispatch, call[d].items # <<>>
  PROVE  Record(d) \in Attempt
<1>1. Head(call[d].items).key \in DeliveryKey /\ Head(call[d].items).n \in Nat \ {0}
  BY HeadTypes DEF Item
<1>2. call[d].attempt \in 1 .. MaxAttempts
  BY DEF TypeOK, Call
<1>3. AttemptStatus(call[d].answer, call[d].attempt) \in {"sent", "retrying", "failed"}
  BY DEF AttemptStatus
<1> QED
  BY <1>1, <1>2, <1>3 DEF Record, Attempt

LEMMA ItemsOfType ==
  ASSUME TypeOK, NEW d \in Dispatch
  PROVE  /\ ItemsOf(d) \subseteq Item
         /\ Len(call[d].items) \in Nat
         /\ Held(d) \in Nat
         /\ call[d].items # <<>> => Held(d) - 1 \in Nat
<1>1. call[d].items \in Seq(Item)
  BY DEF TypeOK, Call
<1>2. Len(call[d].items) \in Nat
  BY <1>1
<1>3. call[d].items # <<>> => Len(call[d].items) > 0
  BY <1>1
<1>4. ItemsOf(d) \subseteq Item
  BY <1>1 DEF ItemsOf
<1>5. Held(d) = Len(call[d].items) \/ Held(d) = Len(call[d].items) + 1
  <2>1. CASE call[d].stage = "claim"
    BY <1>2, <2>1 DEF Held
  <2>2. CASE call[d].stage # "claim"
    BY <1>2, <2>2 DEF Held
  <2> QED
    BY <2>1, <2>2
<1>6. Held(d) \in Nat /\ (call[d].items # <<>> => Held(d) - 1 \in Nat)
  BY <1>2, <1>3, <1>5
<1> QED
  BY <1>2, <1>4, <1>6

\* A call that is replaced by a well-formed one leaves all calls well-formed.
LEMMA CallUpdate ==
  ASSUME TypeInv, NEW d \in Dispatch, NEW c \in Call, WellFormed(c),
         call' = [call EXCEPT ![d] = c]
  PROVE  /\ call' \in [Dispatch -> Call]
         /\ \A o \in Dispatch : WellFormed(call'[o])
<1>1. call \in [Dispatch -> Call]
  BY DEF TypeInv, TypeOK
<1>2. call' \in [Dispatch -> Call]
  BY <1>1
<1>3. ASSUME NEW o \in Dispatch PROVE WellFormed(call'[o])
  <2>1. CASE o = d
    <3>1. call'[o] = c
      BY <1>1, <2>1
    <3> QED
      BY <3>1
  <2>2. CASE o # d
    <3>1. call'[o] = call[o]
      BY <1>1, <2>2
    <3> QED
      BY <3>1 DEF TypeInv
  <2> QED
    BY <2>1, <2>2
<1> QED
  BY <1>2, <1>3

\* A call that reserves an idempotency key has one to reserve.
LEMMA EnqueueKey ==
  ASSUME TypeInv, NEW d \in Dispatch, Enqueue(d)
  PROVE  HasChannel(d) /\ KeyAt(d) \in DeliveryKey
<1>1. HasChannel(d) /\ Resolved(d) \in Destination
  BY DEF TypeInv, Enqueue, At, WellFormed, HasChannel, Channels, Resolved, ChannelAt
<1> QED
  BY <1>1, ChannelTypes DEF TypeInv

LEMMA IdleCallWellFormed == WellFormed(IdleCall)
BY DEF IdleCall, WellFormed

\* The moves between stages that the actions are made of.
LEMMA ReturnUpdate ==
  ASSUME TypeInv, NEW d \in Dispatch, Return(d)
  PROVE  call' \in [Dispatch -> Call] /\ \A o \in Dispatch : WellFormed(call'[o])
BY IdleCallType, IdleCallWellFormed, CallUpdate DEF Return

LEMMA NextChannelUpdate ==
  ASSUME TypeInv, NEW d \in Dispatch, NextChannel(d)
  PROVE  call' \in [Dispatch -> Call] /\ \A o \in Dispatch : WellFormed(call'[o])
<1> DEFINE c == [call[d] EXCEPT !.stage = "prepare", !.next = @ + 1, !.passedAt = 0]
<1>1. call[d] \in Call
  BY DEF TypeInv, TypeOK
<1>2. c \in Call
  <2>1. call[d].next + 1 \in Nat \ {0} /\ 0 \in Nat /\ "prepare" \in Stage
    BY <1>1 DEF Call, Stage
  <2> QED
    BY <1>1, <2>1 DEF Call
<1>3. WellFormed(c)
  BY <1>1 DEF WellFormed, Call
<1>4. call' = [call EXCEPT ![d] = c]
  BY DEF NextChannel, TypeInv, TypeOK
<1> HIDE DEF c
<1> QED
  BY <1>2, <1>3, <1>4, CallUpdate

\* A change of stage alone is harmless to the type, and leaves the call well-formed
\* unless it starts to send without an item or stands at no bound channel.
LEMMA GotoUpdate ==
  ASSUME TypeInv, NEW d \in Dispatch, NEW stage \in Stage, Goto(d, stage),
         WellFormed([call[d] EXCEPT !.stage = stage])
  PROVE  call' \in [Dispatch -> Call] /\ \A o \in Dispatch : WellFormed(call'[o])
<1> DEFINE c == [call[d] EXCEPT !.stage = stage]
<1>1. call[d] \in Call
  BY DEF TypeInv, TypeOK
<1>2. c \in Call
  BY <1>1 DEF Call
<1>3. call' = [call EXCEPT ![d] = c]
  BY DEF Goto, TypeInv, TypeOK
<1> HIDE DEF c
<1> QED
  BY <1>2, <1>3, CallUpdate DEF c

-----------------------------------------------------------------------------
(* Type correctness. *)

LEMMA TypeInit == Init => TypeInv
<1> SUFFICES ASSUME Init PROVE TypeInv
  OBVIOUS
<1>1. TypeOK
  BY DeliveryAssumption, IdleCallType, FreshControllerOK DEF Init, TypeOK
<1>2. IsFiniteSet(claims)
  BY FS_EmptySet DEF Init
<1>3. \A d \in Dispatch : WellFormed(call[d])
  BY IdleCallWellFormed DEF Init
<1> QED
  BY <1>1, <1>2, <1>3 DEF TypeInv

\* A controller that is replaced by one of its type.
LEMMA ControllerUpdate ==
  ASSUME TypeInv, NEW w \in Worker, NEW b \in Controller, SetController(w, b)
  PROVE  controller' \in [Worker -> Controller]
BY DEF TypeInv, TypeOK, SetController

LEMMA TypeStep == TypeInv /\ [Next]_vars => TypeInv'
<1> SUFFICES ASSUME TypeInv, [Next]_vars PROVE TypeInv'
  OBVIOUS
<1> USE DEF redis, history
<1>W. \A d \in Dispatch : WorkerOf[d] \in Worker
  BY DeliveryAssumption
<1>C. \A w \in Worker : controller[w] \in Controller
  BY DEF TypeInv, TypeOK
<1>D. \A d \in Dispatch : call[d] \in Call /\ WellFormed(call[d])
  BY DEF TypeInv, TypeOK
<1>B. /\ MaxDispatches \in Nat /\ MaxFaults \in Nat /\ MaxTime \in Nat
      /\ launched \in 0 .. MaxDispatches /\ faults \in 0 .. MaxFaults
      /\ clock \in 0 .. MaxTime
  BY DeliveryAssumption DEF TypeInv, TypeOK
<1>1. ASSUME NEW d \in Dispatch, NEW k \in TriggerKey, NEW a \in Alert,
             DispatchMuted(d, k, a)
      PROVE  TypeInv'
  <2>1. launched' \in 0 .. MaxDispatches
    BY <1>1, <1>B DEF DispatchMuted
  <2> QED
    BY <1>1, <2>1 DEF TypeInv, TypeOK, DispatchMuted
<1>2. ASSUME NEW d \in Dispatch, NEW k \in TriggerKey, NEW a \in Alert,
             NEW b \in Bindings, DispatchStart(d, k, a, b)
      PROVE  TypeInv'
  <2> DEFINE c == [IdleCall EXCEPT !.stage = "audit", !.trigger = k, !.alert = a,
                                   !.binding = b]
  <2>1. launched' \in 0 .. MaxDispatches /\ faults' \in 0 .. MaxFaults
    <3>1. /\ launched < MaxDispatches /\ launched' = launched + 1
          /\ faults' = faults \/ (faults < MaxFaults /\ faults' = faults + 1)
      BY <1>2 DEF DispatchStart
    <3> QED
      BY <3>1, <1>B
  <2>2. c \in Call
    BY IdleCallType DEF Call, Stage
  <2>3. WellFormed(c)
    BY <2>2 DEF WellFormed, IdleCall
  <2>4. call' = [call EXCEPT ![d] = c]
    BY <1>2 DEF DispatchStart
  <2> HIDE DEF c
  <2>5. call' \in [Dispatch -> Call] /\ \A o \in Dispatch : WellFormed(call'[o])
    BY <2>2, <2>3, <2>4, CallUpdate
  <2> QED
    BY <1>2, <2>1, <2>5 DEF TypeInv, TypeOK, DispatchStart
<1>3. ASSUME NEW d \in Dispatch, AuditTrigger(d) PROVE TypeInv'
  <2> DEFINE stage == IF call[d].trigger \in audit THEN "prepare" ELSE "index"
  <2>1. stage \in Stage /\ WellFormed([call[d] EXCEPT !.stage = stage])
    BY <1>D DEF Stage, WellFormed, Call
  <2>2. Goto(d, stage)
    BY <1>3 DEF AuditTrigger
  <2> HIDE DEF stage
  <2>3. call' \in [Dispatch -> Call] /\ \A o \in Dispatch : WellFormed(call'[o])
    BY <2>1, <2>2, GotoUpdate
  <2>4. call[d].trigger \in TriggerKey
    BY <1>D DEF Call
  <2> QED
    BY <1>3, <2>3, <2>4 DEF TypeInv, TypeOK, AuditTrigger
<1>4. ASSUME NEW d \in Dispatch, AuditIndex(d) PROVE TypeInv'
  <2>1. "prepare" \in Stage /\ WellFormed([call[d] EXCEPT !.stage = "prepare"])
    BY <1>D DEF Stage, WellFormed, Call
  <2>2. call' \in [Dispatch -> Call] /\ \A o \in Dispatch : WellFormed(call'[o])
    BY <1>4, <2>1, GotoUpdate DEF AuditIndex
  <2>3. call[d].trigger \in TriggerKey
    BY <1>D DEF Call
  <2> QED
    BY <1>4, <2>2, <2>3 DEF TypeInv, TypeOK, AuditIndex
<1>5. ASSUME NEW d \in Dispatch, SkipMissingBinding(d) PROVE TypeInv'
  <2>1. call' \in [Dispatch -> Call] /\ \A o \in Dispatch : WellFormed(call'[o])
    BY <1>5, NextChannelUpdate DEF SkipMissingBinding
  <2> QED
    BY <1>5, <2>1 DEF TypeInv, TypeOK, SkipMissingBinding
<1>6. ASSUME NEW d \in Dispatch, SkipCooldown(d) PROVE TypeInv'
  <2>1. call' \in [Dispatch -> Call] /\ \A o \in Dispatch : WellFormed(call'[o])
    BY <1>6, NextChannelUpdate DEF SkipCooldown
  <2> QED
    BY <1>6, <2>1 DEF TypeInv, TypeOK, SkipCooldown
<1>7. ASSUME NEW d \in Dispatch, PassCooldown(d) PROVE TypeInv'
  <2> DEFINE c == [call[d] EXCEPT !.stage = "slot", !.passedAt = clock]
  <2>1. c \in Call
    <3>1. clock \in Nat /\ "slot" \in Stage
      BY <1>B DEF Stage
    <3> QED
      BY <1>D, <3>1 DEF Call
  <2>2. Resolved(d) \in Destination /\ CooldownKey(d) \in Scope \X Channel
    BY <1>7, ChannelTypes DEF PassCooldown, TypeInv
  <2>3. WellFormed(c)
    BY <1>7, <1>D, <2>2 DEF PassCooldown, WellFormed, Call, HasChannel, Channels,
       Resolved, ChannelAt
  <2>4. call' = [call EXCEPT ![d] = c]
    BY <1>7 DEF PassCooldown, TypeInv, TypeOK
  <2> HIDE DEF c
  <2>5. call' \in [Dispatch -> Call] /\ \A o \in Dispatch : WellFormed(call'[o])
    BY <2>1, <2>3, <2>4, CallUpdate
  <2>6. cooldown' \in [Scope \X Channel -> Nat]
    <3>1. clock + CooldownOf[call[d].alert] \in Nat
      BY <1>B, <1>D, DeliveryAssumption DEF Call
    <3> QED
      BY <1>7, <2>2, <3>1 DEF PassCooldown, TypeInv, TypeOK
  <2> QED
    BY <1>7, <2>5, <2>6 DEF TypeInv, TypeOK, PassCooldown
<1>8. ASSUME NEW d \in Dispatch, SkipBackpressure(d) PROVE TypeInv'
  <2>1. call' \in [Dispatch -> Call] /\ \A o \in Dispatch : WellFormed(call'[o])
    BY <1>8, NextChannelUpdate DEF SkipBackpressure
  <2>2. controller' \in [Worker -> Controller]
    BY <1>8, <1>W, <1>C, OperationsOK, ControllerUpdate DEF SkipBackpressure
  <2> QED
    BY <1>8, <2>1, <2>2 DEF TypeInv, TypeOK, SkipBackpressure
<1>9. ASSUME NEW d \in Dispatch, ReserveSlot(d) PROVE TypeInv'
  <2>1. "claim" \in Stage /\ WellFormed([call[d] EXCEPT !.stage = "claim"])
    BY <1>9, <1>D DEF ReserveSlot, At, Stage, WellFormed, Call
  <2>2. call' \in [Dispatch -> Call] /\ \A o \in Dispatch : WellFormed(call'[o])
    BY <1>9, <2>1, GotoUpdate DEF ReserveSlot
  <2>3. controller' \in [Worker -> Controller]
    BY <1>9, <1>W, <1>C, OperationsOK, ControllerUpdate DEF ReserveSlot
  <2> QED
    BY <1>9, <2>2, <2>3 DEF TypeInv, TypeOK, ReserveSlot
<1>10. ASSUME NEW d \in Dispatch, SkipIdempotent(d) PROVE TypeInv'
  <2>1. call' \in [Dispatch -> Call] /\ \A o \in Dispatch : WellFormed(call'[o])
    BY <1>10, NextChannelUpdate DEF SkipIdempotent
  <2>2. controller' \in [Worker -> Controller]
    BY <1>10, <1>W, <1>C, OperationsOK, ControllerUpdate DEF SkipIdempotent
  <2> QED
    BY <1>10, <2>1, <2>2 DEF TypeInv, TypeOK, SkipIdempotent
<1>11. ASSUME NEW d \in Dispatch, Enqueue(d) PROVE TypeInv'
  <2> DEFINE n == ClaimCount(KeyAt(d)) + 1
             item == [key |-> KeyAt(d), n |-> n]
             claim == [key |-> KeyAt(d), n |-> n, at |-> clock,
                       passedAt |-> call[d].passedAt,
                       cooldown |-> CooldownOf[call[d].alert]]
             c == [call[d] EXCEPT !.stage = "prepare", !.next = @ + 1, !.passedAt = 0,
                                  !.items = Append(@, item)]
  <2>1. n \in Nat \ {0}
    BY ClaimCountType DEF TypeInv
  <2>2. KeyAt(d) \in DeliveryKey
    BY <1>11, EnqueueKey
  <2>3. item \in Item
    BY <2>1, <2>2 DEF Item
  <2>4. claim \in Claim
    <3>1. CooldownOf[call[d].alert] \in Nat /\ call[d].passedAt \in Nat /\ clock \in Nat
      BY <1>B, <1>D, DeliveryAssumption DEF Call
    <3> QED
      BY <2>1, <2>2, <3>1 DEF Claim
  <2>5. claims' = claims \cup {claim}
    BY <1>11 DEF Enqueue
  <2>6. call' = [call EXCEPT ![d] = c]
    BY <1>11 DEF Enqueue, TypeInv, TypeOK
  <2>7. idempotency' \in [DeliveryKey -> Nat]
    <3>1. clock + IdempotencyTTL \in Nat
      BY <1>B, DeliveryAssumption
    <3> QED
      BY <1>11, <2>2, <3>1 DEF Enqueue, TypeInv, TypeOK
  <2> HIDE DEF n, claim
  <2>8. c \in Call
    <3>1. /\ Append(call[d].items, item) \in Seq(Item)
          /\ call[d].next + 1 \in Nat \ {0} /\ 0 \in Nat /\ "prepare" \in Stage
      BY <1>D, <2>3 DEF Call, Stage
    <3> HIDE DEF item
    <3> QED
      BY <1>D, <3>1 DEF Call
  <2>9. WellFormed(c)
    BY <1>D DEF WellFormed, Call
  <2> HIDE DEF c
  <2>10. call' \in [Dispatch -> Call] /\ \A o \in Dispatch : WellFormed(call'[o])
    BY <2>6, <2>8, <2>9, CallUpdate
  <2>11. claims' \subseteq Claim /\ IsFiniteSet(claims')
    BY <2>4, <2>5, FS_AddElement DEF TypeInv, TypeOK
  <2> QED
    BY <1>11, <2>7, <2>10, <2>11 DEF TypeInv, TypeOK, Enqueue
<1>12. ASSUME NEW d \in Dispatch, ReleaseUnsent(d) PROVE TypeInv'
  <2> DEFINE c == [call[d] EXCEPT !.items = Tail(@)]
  <2>1. call[d].items # <<>> /\ call' = [call EXCEPT ![d] = c]
    BY <1>12 DEF ReleaseUnsent, TypeInv, TypeOK
  <2>2. c \in Call
    BY <1>D, <2>1, HeadTypes DEF Call, TypeInv
  <2>3. WellFormed(c)
    BY <1>12, <1>D DEF ReleaseUnsent, At, WellFormed, Call
  <2> HIDE DEF c
  <2>4. call' \in [Dispatch -> Call] /\ \A o \in Dispatch : WellFormed(call'[o])
    BY <2>1, <2>2, <2>3, CallUpdate
  <2>5. controller' \in [Worker -> Controller]
    BY <1>12, <1>W, <1>C, OperationsOK, ControllerUpdate DEF ReleaseUnsent
  <2>6. abandoned' \subseteq Item
    BY <1>12, <2>1, HeadTypes DEF ReleaseUnsent, TypeInv, TypeOK
  <2> QED
    BY <1>12, <2>4, <2>5, <2>6 DEF TypeInv, TypeOK, ReleaseUnsent
<1>13. ASSUME NEW d \in Dispatch, FinishEmpty(d) PROVE TypeInv'
  <2>1. call' \in [Dispatch -> Call] /\ \A o \in Dispatch : WellFormed(call'[o])
    BY <1>13, ReturnUpdate DEF FinishEmpty
  <2> QED
    BY <1>13, <2>1 DEF TypeInv, TypeOK, FinishEmpty
<1>14. ASSUME NEW d \in Dispatch, StartSending(d) PROVE TypeInv'
  <2>1. "sending" \in Stage /\ WellFormed([call[d] EXCEPT !.stage = "sending"])
    BY <1>14, <1>D DEF StartSending, Stage, WellFormed, Call
  <2>2. call' \in [Dispatch -> Call] /\ \A o \in Dispatch : WellFormed(call'[o])
    BY <1>14, <2>1, GotoUpdate DEF StartSending
  <2> QED
    BY <1>14, <2>2 DEF TypeInv, TypeOK, StartSending
<1>15. ASSUME NEW d \in Dispatch, NEW answer \in Answer \ {"none"},
              NEW delivered \in BOOLEAN, ProviderAnswers(d, answer, delivered)
       PROVE  TypeInv'
  <2> DEFINE c == [call[d] EXCEPT !.stage = "answered", !.answer = answer]
  <2>1. call' = [call EXCEPT ![d] = c]
    BY <1>15 DEF ProviderAnswers, TypeInv, TypeOK
  <2>2. c \in Call
    BY <1>D DEF Call, Stage
  <2>3. call[d].items # <<>> /\ WellFormed(c)
    BY <1>15, <1>D DEF ProviderAnswers, WellFormed, Call
  <2> HIDE DEF c
  <2>4. call' \in [Dispatch -> Call] /\ \A o \in Dispatch : WellFormed(call'[o])
    BY <2>1, <2>2, <2>3, CallUpdate
  <2>5. ReceiptOf(d) \in Receipt
    BY <1>D, <2>3, HeadTypes DEF ReceiptOf, Receipt, Item, Call, TypeInv
  <2> QED
    BY <1>15, <2>4, <2>5 DEF TypeInv, TypeOK, ProviderAnswers
<1>16. ASSUME NEW d \in Dispatch, RetryAttempt(d) PROVE TypeInv'
  <2> DEFINE c == [call[d] EXCEPT !.stage = "sending", !.attempt = @ + 1,
                                  !.answer = "none"]
  <2>1. call' = [call EXCEPT ![d] = c] /\ call[d].attempt < MaxAttempts
    BY <1>16 DEF RetryAttempt, Retry, TypeInv, TypeOK
  <2>2. c \in Call
    <3>1. call[d] \in Call /\ MaxAttempts \in Nat
      BY <1>D, DeliveryAssumption
    <3>2. call[d].attempt \in 1 .. MaxAttempts
      BY <3>1 DEF Call
    <3>3. call[d].attempt + 1 \in 1 .. MaxAttempts
      BY <2>1, <3>1, <3>2
    <3> QED
      BY <3>1, <3>3 DEF Call, Stage, Answer
  <2>3. call[d].items # <<>> /\ WellFormed(c)
    BY <1>16, <1>D DEF RetryAttempt, Retry, At, WellFormed, Call
  <2> HIDE DEF c
  <2>4. call' \in [Dispatch -> Call] /\ \A o \in Dispatch : WellFormed(call'[o])
    BY <2>1, <2>2, <2>3, CallUpdate
  <2>5. Record(d) \in Attempt
    BY <2>3, RecordType DEF TypeInv
  <2> QED
    BY <1>16, <2>4, <2>5 DEF TypeInv, TypeOK, RetryAttempt, Retry
<1>17. ASSUME NEW d \in Dispatch, FinishItem(d) PROVE TypeInv'
  <2> DEFINE c == [call[d] EXCEPT !.stage = "sending", !.items = Tail(@),
                                  !.attempt = 1, !.answer = "none"]
  <2>1. call[d].items # <<>>
    BY <1>17, <1>D DEF FinishItem, At, WellFormed
  <2>2. call' \in [Dispatch -> Call] /\ \A o \in Dispatch : WellFormed(call'[o])
    <3>1. CASE Len(call[d].items) = 1
      BY <1>17, <3>1, ReturnUpdate DEF FinishItem
    <3>2. CASE Len(call[d].items) # 1
      <4>1. call' = [call EXCEPT ![d] = c]
        BY <1>17, <3>2 DEF FinishItem, TypeInv, TypeOK
      <4>2. Tail(call[d].items) \in Seq(Item) /\ Tail(call[d].items) # <<>>
        <5>1. call[d].items \in Seq(Item)
          BY <1>D DEF Call
        <5>2. Len(Tail(call[d].items)) # 0
          BY <2>1, <3>2, <5>1
        <5>3. Tail(call[d].items) # <<>>
          <6>1. Len(<<>>) = 0
            OBVIOUS
          <6> QED
            BY <5>2, <6>1, Zenon
        <5> QED
          BY <2>1, <5>3, HeadTypes DEF TypeInv
      <4>3. 1 \in 1 .. MaxAttempts /\ "sending" \in Stage /\ "none" \in Answer
        BY DeliveryAssumption DEF Stage, Answer
      <4>4. c \in Call
        BY <1>D, <4>2, <4>3 DEF Call
      <4>5. WellFormed(c)
        BY <1>D, <4>2 DEF WellFormed, Call
      <4> HIDE DEF c
      <4> QED
        BY <4>1, <4>4, <4>5, CallUpdate
    <3> QED
      BY <3>1, <3>2
  <2>3. controller' \in [Worker -> Controller]
    BY <1>17, <1>W, <1>C, OperationsOK, ControllerUpdate DEF FinishItem
  <2>4. Record(d) \in Attempt
    BY <2>1, RecordType DEF TypeInv
  <2> QED
    BY <1>17, <2>2, <2>3, <2>4 DEF TypeInv, TypeOK, FinishItem
<1>18. ASSUME NEW d \in Dispatch, DispatchRaises(d) PROVE TypeInv'
  <2> DEFINE w == WorkerOf[d]
             sending == call[d].stage \in {"sending", "answered"}
             b == IF sending THEN Released(controller[w]) ELSE controller[w]
             lost == Held(d) - (IF sending THEN 1 ELSE 0)
  <2>1. faults' \in 0 .. MaxFaults
    <3>1. faults' = faults \/ (faults < MaxFaults /\ faults' = faults + 1)
      BY <1>18 DEF DispatchRaises
    <3> QED
      BY <3>1, <1>B
  <2>2. call' \in [Dispatch -> Call] /\ \A o \in Dispatch : WellFormed(call'[o])
    BY <1>18, ReturnUpdate DEF DispatchRaises
  <2>3. controller' \in [Worker -> Controller]
    <3>1. b \in Controller
      BY <1>W, <1>C, OperationsOK
    <3>2. SetController(w, b)
      BY <1>18 DEF DispatchRaises
    <3> HIDE DEF b
    <3> QED
      BY <1>W, <3>1, <3>2, ControllerUpdate
  <2>4. leaked' \in [Worker -> Nat]
    <3>1. lost \in Nat
      <4>1. CASE sending
        BY <1>D, <4>1, ItemsOfType DEF WellFormed, TypeInv
      <4>2. CASE ~sending
        BY <4>2, ItemsOfType DEF TypeInv
      <4> QED
        BY <4>1, <4>2
    <3>2. leaked' = [leaked EXCEPT ![w] = @ + Held(d) - (IF sending THEN 1 ELSE 0)]
      BY <1>18 DEF DispatchRaises
    <3>3. leaked[w] \in Nat /\ Held(d) \in Nat
      BY <1>W, ItemsOfType DEF TypeInv, TypeOK
    <3>4. leaked[w] + Held(d) - (IF sending THEN 1 ELSE 0) \in Nat
      <4>1. CASE sending
        BY <3>1, <3>3, <4>1
      <4>2. CASE ~sending
        BY <3>1, <3>3, <4>2
      <4> QED
        BY <4>1, <4>2
    <3> HIDE DEF sending
    <3> QED
      BY <3>2, <3>4 DEF TypeInv, TypeOK
  <2>5. abandoned' \subseteq Item
    BY <1>18, ItemsOfType DEF DispatchRaises, TypeInv, TypeOK
  <2>6. attempts' \subseteq Attempt
    <3>1. CASE UNCHANGED attempts
      BY <3>1 DEF TypeInv, TypeOK
    <3>2. CASE call[d].stage = "answered" /\ attempts' = attempts \cup {Record(d)}
      <4>1. call[d].items # <<>>
        BY <1>D, <3>2 DEF WellFormed
      <4>2. Record(d) \in Attempt
        BY <4>1, RecordType DEF TypeInv
      <4> QED
        BY <3>2, <4>2 DEF TypeInv, TypeOK
    <3> QED
      BY <1>18, <3>1, <3>2 DEF DispatchRaises
  <2> QED
    BY <1>18, <2>1, <2>2, <2>3, <2>4, <2>5, <2>6 DEF TypeInv, TypeOK, DispatchRaises
<1>19. ASSUME NEW w \in Worker, Crash(w) PROVE TypeInv'
  <2> DEFINE dead == {d \in Dispatch : WorkerOf[d] = w}
  <2>1. faults' \in 0 .. MaxFaults
    BY <1>19, <1>B DEF Crash
  <2>2. call' = [d \in Dispatch |-> IF d \in dead THEN IdleCall ELSE call[d]]
    BY <1>19 DEF Crash
  <2>3. call' \in [Dispatch -> Call] /\ \A o \in Dispatch : WellFormed(call'[o])
    BY <1>D, <2>2, IdleCallType, IdleCallWellFormed
  <2>4. controller' \in [Worker -> Controller]
    BY <1>19, FreshControllerOK, ControllerUpdate DEF Crash
  <2>5. abandoned' \subseteq Item
    <3>1. UNION {ItemsOf(d) : d \in dead} \subseteq Item
      BY ItemsOfType DEF TypeInv
    <3> QED
      BY <1>19, <3>1 DEF Crash, TypeInv, TypeOK
  <2> QED
    BY <1>19, <2>1, <2>3, <2>4, <2>5 DEF TypeInv, TypeOK, Crash
<1>20. CASE Tick
  <2>1. clock' \in 0 .. MaxTime
    BY <1>20, <1>B DEF Tick
  <2> QED
    BY <1>20, <2>1 DEF TypeInv, TypeOK, Tick
<1>21. ASSUME NEW u \in User, NEW seconds \in MuteSeconds, SetMute(u, seconds)
       PROVE  TypeInv'
  <2>1. clock + seconds \in Nat
    BY <1>B, DeliveryAssumption
  <2> QED
    BY <1>21, <2>1 DEF TypeInv, TypeOK, SetMute
<1>22. ASSUME NEW u \in User, ClearMute(u) PROVE TypeInv'
  BY <1>22 DEF TypeInv, TypeOK, ClearMute
<1>23. CASE UNCHANGED vars
  BY <1>23 DEF TypeInv, TypeOK, vars
<1> QED
  BY <1>1, <1>2, <1>3, <1>4, <1>5, <1>6, <1>7, <1>8, <1>9, <1>10, <1>11, <1>12, <1>13,
     <1>14, <1>15, <1>16, <1>17, <1>18, <1>19, <1>20, <1>21, <1>22, <1>23
  DEF Next, Step

\* Every reachable state is well-typed (TypeOK), and so are the calls in it.
THEOREM TypeInvariant == Spec => []TypeInv
<1> QED
  BY TypeInit, TypeStep, PTL DEF Spec

\* Every variable of the dispatcher keeps its type.
THEOREM TypeCorrect == Spec => []TypeOK
<1>1. TypeInv => TypeOK
  BY DEF TypeInv
<1> QED
  BY <1>1, TypeInvariant, PTL

-----------------------------------------------------------------------------
(* Reservations of one delivery key. *)

\* The key of every claim is taken until the claim's TTL is over.
ClaimsHold ==
  \A c \in claims : c.at <= clock /\ c.at + IdempotencyTTL <= idempotency[c.key]

ClaimInv == TypeInv /\ ClaimsHold /\ ClaimSpacing

\* Only Enqueue touches the reservations.
LEMMA ClaimFrame ==
  ASSUME [Next]_vars
  PROVE  \/ \E d \in Dispatch : Enqueue(d)
         \/ UNCHANGED <<claims, idempotency>> /\ clock' \in {clock, clock + 1}
<1> USE DEF redis, history
<1>1. ASSUME NEW d \in Dispatch, Step(d)
      PROVE  Enqueue(d) \/ UNCHANGED <<claims, idempotency, clock>>
  BY <1>1 DEF Step, AuditTrigger, AuditIndex, SkipMissingBinding, SkipCooldown,
     PassCooldown, SkipBackpressure, ReserveSlot, SkipIdempotent, ReleaseUnsent,
     FinishEmpty, StartSending, ProviderAnswers, RetryAttempt, Retry, FinishItem, DispatchRaises
<1>2. ASSUME NEW d \in Dispatch, NEW k \in TriggerKey, NEW a \in Alert
      PROVE  /\ DispatchMuted(d, k, a) => UNCHANGED <<claims, idempotency, clock>>
             /\ \A b \in Bindings :
                  DispatchStart(d, k, a, b) => UNCHANGED <<claims, idempotency, clock>>
  BY DEF DispatchMuted, DispatchStart
<1>3. /\ \A w \in Worker : Crash(w) => UNCHANGED <<claims, idempotency, clock>>
      /\ Tick => UNCHANGED <<claims, idempotency>> /\ clock' = clock + 1
      /\ \A u \in User, seconds \in MuteSeconds :
           SetMute(u, seconds) => UNCHANGED <<claims, idempotency, clock>>
      /\ \A u \in User : ClearMute(u) => UNCHANGED <<claims, idempotency, clock>>
  BY DEF Crash, Tick, SetMute, ClearMute
<1>4. UNCHANGED vars => UNCHANGED <<claims, idempotency, clock>>
  BY DEF vars
<1> QED
  BY <1>1, <1>2, <1>3, <1>4 DEF Next

LEMMA ClaimStep == ClaimInv /\ [Next]_vars => ClaimInv'
<1> SUFFICES ASSUME ClaimInv, [Next]_vars PROVE ClaimInv'
  OBVIOUS
<1>1. TypeInv'
  BY TypeStep DEF ClaimInv
<1>2. /\ clock \in Nat /\ IdempotencyTTL \in Nat /\ claims \subseteq Claim
      /\ idempotency \in [DeliveryKey -> Nat]
  BY DeliveryAssumption DEF ClaimInv, TypeInv, TypeOK
<1>3. ASSUME NEW d \in Dispatch, Enqueue(d) PROVE ClaimsHold' /\ ClaimSpacing'
  <2> DEFINE key == KeyAt(d)
  <2>1. PICK new : /\ claims' = claims \cup {new}
                   /\ new.key = key /\ new.at = clock
    <3> DEFINE claim == [key |-> KeyAt(d), n |-> ClaimCount(KeyAt(d)) + 1, at |-> clock,
                         passedAt |-> call[d].passedAt,
                         cooldown |-> CooldownOf[call[d].alert]]
    <3>1. claims' = claims \cup {claim}
      BY <1>3 DEF Enqueue
    <3>2. claim.key = key /\ claim.at = clock
      OBVIOUS
    <3> HIDE DEF claim
    <3> QED
      BY <3>1, <3>2
  <2>2. /\ idempotency[key] <= clock /\ clock' = clock
        /\ idempotency' = [idempotency EXCEPT ![key] = clock + IdempotencyTTL]
    <3>1. clock >= idempotency[key] /\ key \in DeliveryKey
      BY <1>3, EnqueueKey DEF Enqueue, Free, ClaimInv
    <3> QED
      BY <1>2, <1>3, <3>1 DEF Enqueue
  <2>3. \A c \in claims : c.at \in Nat /\ c.key \in DeliveryKey
    BY <1>2 DEF Claim
  <2>4. key \in DeliveryKey
    BY <1>3, EnqueueKey DEF ClaimInv
  <2> HIDE DEF key
  <2>5. ClaimsHold'
    <3>1. ASSUME NEW c \in claims
          PROVE  c.at <= clock /\ c.at + IdempotencyTTL <= idempotency'[c.key]
      <4>1. c.at <= clock /\ c.at + IdempotencyTTL <= idempotency[c.key]
        BY DEF ClaimInv, ClaimsHold
      <4>2. CASE c.key = key
        BY <1>2, <2>2, <2>3, <2>4, <4>1, <4>2
      <4>3. CASE c.key # key
        BY <1>2, <2>2, <2>3, <4>1, <4>3
      <4> QED
        BY <4>2, <4>3
    <3>2. new.at <= clock /\ new.at + IdempotencyTTL <= idempotency'[new.key]
      BY <1>2, <2>1, <2>2, <2>4
    <3> QED
      BY <2>1, <2>2, <3>1, <3>2 DEF ClaimsHold
  <2>6. \A c \in claims : c.key = key => new.at >= c.at + IdempotencyTTL
    <3> SUFFICES ASSUME NEW c \in claims, c.key = key
                 PROVE  new.at >= c.at + IdempotencyTTL
      OBVIOUS
    <3>1. c.at + IdempotencyTTL <= idempotency[key]
      BY DEF ClaimInv, ClaimsHold
    <3> QED
      BY <1>2, <2>1, <2>2, <2>3, <2>4, <3>1
  <2>7. ClaimSpacing'
    <3> SUFFICES ASSUME NEW c1 \in claims', NEW c2 \in claims', c1.key = c2.key, c1 # c2
                 PROVE  c2.at >= c1.at + IdempotencyTTL \/ c1.at >= c2.at + IdempotencyTTL
      BY DEF ClaimSpacing
    <3>1. CASE c1 \in claims /\ c2 \in claims
      BY <3>1 DEF ClaimInv, ClaimSpacing
    <3>2. CASE c1 \in claims /\ c2 = new
      BY <2>1, <2>6, <3>2
    <3>3. CASE c1 = new /\ c2 \in claims
      BY <2>1, <2>6, <3>3
    <3> QED
      BY <2>1, <3>1, <3>2, <3>3
  <2> QED
    BY <2>5, <2>7
<1>4. ASSUME UNCHANGED <<claims, idempotency>>, clock' \in {clock, clock + 1}
      PROVE  ClaimsHold' /\ ClaimSpacing'
  <2>1. \A c \in claims : c.at \in Nat
    BY <1>2 DEF Claim
  <2>2. \A c \in claims : c.at <= clock'
    BY <1>2, <1>4, <2>1 DEF ClaimInv, ClaimsHold
  <2> QED
    BY <1>4, <2>2 DEF ClaimInv, ClaimsHold, ClaimSpacing
<1> QED
  BY <1>1, <1>3, <1>4, ClaimFrame DEF ClaimInv

\* Two reservations of one trigger, channel and destination lie at least the
\* idempotency TTL apart (ClaimSpacing), for every number of workers and crashes.
THEOREM ClaimsAreSpaced == Spec => []ClaimSpacing
<1>1. Init => ClaimInv
  BY TypeInit DEF Init, ClaimInv, ClaimsHold, ClaimSpacing
<1>2. ClaimInv => ClaimSpacing
  BY DEF ClaimInv
<1> QED
  BY <1>1, <1>2, ClaimStep, PTL DEF Spec

-----------------------------------------------------------------------------
(* The audit record comes first. *)

\* A call past the audit works for a trigger on record, and so does every item.
AuditedCall(c, records) ==
  /\ c.stage \notin {"idle", "audit"} => c.trigger \in records
  /\ \A i \in 1 .. Len(c.items) : c.items[i].key.trigger \in records

AuditInv ==
  /\ TypeInv
  /\ \A d \in Dispatch : AuditedCall(call[d], audit)
  /\ AuditPrecedesDelivery

\* Only the audit writes a record, and no record is removed.
LEMMA AuditFrame ==
  ASSUME [Next]_vars
  PROVE  UNCHANGED audit \/ \E d \in Dispatch : AuditTrigger(d)
<1> USE DEF redis, history
<1>1. ASSUME NEW d \in Dispatch, Step(d)
      PROVE  AuditTrigger(d) \/ UNCHANGED audit
  BY <1>1 DEF Step, AuditIndex, SkipMissingBinding, SkipCooldown,
     PassCooldown, SkipBackpressure, ReserveSlot, SkipIdempotent, Enqueue, ReleaseUnsent,
     FinishEmpty, StartSending, ProviderAnswers, RetryAttempt, Retry, FinishItem, DispatchRaises
<1>2. ASSUME NEW d \in Dispatch, NEW k \in TriggerKey, NEW a \in Alert
      PROVE  /\ DispatchMuted(d, k, a) => UNCHANGED audit
             /\ \A b \in Bindings : DispatchStart(d, k, a, b) => UNCHANGED audit
  BY DEF DispatchMuted, DispatchStart
<1>3. /\ \A w \in Worker : Crash(w) => UNCHANGED audit
      /\ Tick => UNCHANGED audit
      /\ \A u \in User, seconds \in MuteSeconds : SetMute(u, seconds) => UNCHANGED audit
      /\ \A u \in User : ClearMute(u) => UNCHANGED audit
  BY DEF Crash, Tick, SetMute, ClearMute
<1>4. UNCHANGED vars => UNCHANGED audit
  BY DEF vars
<1> QED
  BY <1>1, <1>2, <1>3, <1>4 DEF Next

\* Calls that a step leaves alone, and calls that return, stay audited.
LEMMA AuditedUpdate ==
  ASSUME AuditInv, audit \subseteq audit', NEW d \in Dispatch, NEW c,
         AuditedCall(c, audit'), call' = [call EXCEPT ![d] = c]
  PROVE  \A o \in Dispatch : AuditedCall(call'[o], audit')
<1> SUFFICES ASSUME NEW o \in Dispatch PROVE AuditedCall(call'[o], audit')
  OBVIOUS
<1>1. CASE o = d
  <2>1. call'[o] = c
    BY <1>1 DEF AuditInv, TypeInv, TypeOK
  <2> QED
    BY <2>1
<1>2. CASE o # d
  <2>1. call'[o] = call[o]
    BY <1>2 DEF AuditInv, TypeInv, TypeOK
  <2> QED
    BY <2>1 DEF AuditInv, AuditedCall
<1> QED
  BY <1>1, <1>2

LEMMA AuditedIdle ==
  ASSUME NEW records
  PROVE  AuditedCall(IdleCall, records)
<1>1. IdleCall.stage = "idle" /\ 1 .. Len(IdleCall.items) = {}
  BY DEF IdleCall
<1> QED
  BY <1>1 DEF AuditedCall

\* A step of a call past the audit keeps its trigger, and so do the items it adds.
LEMMA AuditedStep ==
  ASSUME AuditInv, NEW d \in Dispatch, Step(d), ~AuditTrigger(d), UNCHANGED audit
  PROVE  \A o \in Dispatch : AuditedCall(call'[o], audit')
<1> DEFINE k == call[d].trigger
<1>T. /\ call \in [Dispatch -> Call] /\ call[d] \in Call /\ AuditedCall(call[d], audit)
  BY DEF AuditInv, TypeInv, TypeOK
<1>R. CASE Return(d)
  BY <1>R, AuditedIdle, AuditedUpdate DEF Return
<1>G. ASSUME NEW stage, Goto(d, stage), call[d].stage \notin {"idle", "audit"}
      PROVE  \A o \in Dispatch : AuditedCall(call'[o], audit')
  <2> DEFINE c == [call[d] EXCEPT !.stage = stage]
  <2>1. call' = [call EXCEPT ![d] = c]
    BY <1>T, <1>G DEF Goto
  <2>2. AuditedCall(c, audit')
    BY <1>T, <1>G DEF AuditedCall, Call
  <2> HIDE DEF c
  <2> QED
    BY <2>1, <2>2, AuditedUpdate
<1>N. ASSUME NextChannel(d), call[d].stage \notin {"idle", "audit"}
      PROVE  \A o \in Dispatch : AuditedCall(call'[o], audit')
  <2> DEFINE c == [call[d] EXCEPT !.stage = "prepare", !.next = @ + 1, !.passedAt = 0]
  <2>1. call' = [call EXCEPT ![d] = c]
    BY <1>T, <1>N DEF NextChannel
  <2>2. AuditedCall(c, audit')
    BY <1>T, <1>N DEF AuditedCall, Call
  <2> HIDE DEF c
  <2> QED
    BY <2>1, <2>2, AuditedUpdate
<1>1. CASE AuditIndex(d) \/ ReserveSlot(d) \/ StartSending(d)
  BY <1>1, <1>G DEF AuditIndex, ReserveSlot, StartSending, At
<1>2. CASE \/ SkipMissingBinding(d) \/ SkipCooldown(d) \/ SkipBackpressure(d)
           \/ SkipIdempotent(d)
  BY <1>2, <1>N DEF SkipMissingBinding, SkipCooldown, SkipBackpressure, SkipIdempotent, At
<1>3. CASE FinishEmpty(d) \/ DispatchRaises(d)
  BY <1>3, <1>R DEF FinishEmpty, DispatchRaises
<1>4. CASE PassCooldown(d)
  <2> DEFINE c == [call[d] EXCEPT !.stage = "slot", !.passedAt = clock]
  <2>1. call' = [call EXCEPT ![d] = c] /\ call[d].stage = "prepare"
    BY <1>T, <1>4 DEF PassCooldown, At
  <2>2. AuditedCall(c, audit')
    BY <1>T, <2>1 DEF AuditedCall, Call
  <2> HIDE DEF c
  <2> QED
    BY <2>1, <2>2, AuditedUpdate
<1>5. CASE Enqueue(d)
  <2> DEFINE item == [key |-> KeyAt(d), n |-> ClaimCount(KeyAt(d)) + 1]
             c == [call[d] EXCEPT !.stage = "prepare", !.next = @ + 1, !.passedAt = 0,
                                  !.items = Append(@, item)]
  <2>1. call' = [call EXCEPT ![d] = c] /\ call[d].stage = "claim"
    BY <1>T, <1>5 DEF Enqueue, At
  <2>2. item.key.trigger = k /\ k \in audit /\ item \in Item
    <3>1. item \in Item
      BY <1>5, EnqueueKey, ClaimCountType DEF AuditInv, TypeInv, Item
    <3> QED
      BY <1>T, <2>1, <3>1 DEF AuditedCall, KeyAt
  <2>3. c.trigger = k /\ c.items = Append(call[d].items, item)
    BY <1>T DEF Call
  <2> HIDE DEF item, c
  <2>4. \A i \in 1 .. Len(c.items) : c.items[i].key.trigger \in audit
    BY <1>T, <2>2, <2>3 DEF AuditedCall, Call
  <2> QED
    BY <2>1, <2>2, <2>3, <2>4, AuditedUpdate DEF AuditedCall
<1>6. CASE ReleaseUnsent(d)
  <2> DEFINE c == [call[d] EXCEPT !.items = Tail(@)]
  <2>1. /\ call' = [call EXCEPT ![d] = c] /\ call[d].stage = "prepare"
        /\ call[d].items # <<>>
    BY <1>T, <1>6 DEF ReleaseUnsent, At
  <2>2. AuditedCall(c, audit')
    <3>1. c.trigger = k /\ c.items = Tail(call[d].items) /\ call[d].items \in Seq(Item)
      BY <1>T DEF Call
    <3> HIDE DEF c
    <3> QED
      BY <1>T, <2>1, <3>1 DEF AuditedCall
  <2> HIDE DEF c
  <2> QED
    BY <2>1, <2>2, AuditedUpdate
<1>7. CASE \E answer \in Answer \ {"none"}, delivered \in BOOLEAN :
             ProviderAnswers(d, answer, delivered)
  <2> PICK answer \in Answer \ {"none"}, delivered \in BOOLEAN :
             ProviderAnswers(d, answer, delivered)
    BY <1>7
  <2> DEFINE c == [call[d] EXCEPT !.stage = "answered", !.answer = answer]
  <2>1. call' = [call EXCEPT ![d] = c] /\ call[d].stage = "sending"
    BY <1>T DEF ProviderAnswers
  <2>2. AuditedCall(c, audit')
    BY <1>T, <2>1 DEF AuditedCall, Call
  <2> HIDE DEF c
  <2> QED
    BY <2>1, <2>2, AuditedUpdate
<1>8. CASE RetryAttempt(d)
  <2> DEFINE c == [call[d] EXCEPT !.stage = "sending", !.attempt = @ + 1,
                                  !.answer = "none"]
  <2>1. call' = [call EXCEPT ![d] = c] /\ call[d].stage = "answered"
    BY <1>T, <1>8 DEF RetryAttempt, Retry, At
  <2>2. AuditedCall(c, audit')
    BY <1>T, <2>1 DEF AuditedCall, Call
  <2> HIDE DEF c
  <2> QED
    BY <2>1, <2>2, AuditedUpdate
<1>9. CASE FinishItem(d) /\ ~Return(d)
  <2> DEFINE c == [call[d] EXCEPT !.stage = "sending", !.items = Tail(@),
                                  !.attempt = 1, !.answer = "none"]
  <2>1. call' = [call EXCEPT ![d] = c] /\ call[d].stage = "answered"
    BY <1>T, <1>9 DEF FinishItem, At
  <2>2. AuditedCall(c, audit')
    <3>1. /\ c.trigger = k /\ c.items = Tail(call[d].items)
          /\ call[d].items \in Seq(Item) /\ call[d].items # <<>>
      BY <1>T, <2>1 DEF Call, AuditInv, TypeInv, WellFormed
    <3> HIDE DEF c
    <3> QED
      BY <1>T, <2>1, <3>1 DEF AuditedCall
  <2> HIDE DEF c
  <2> QED
    BY <2>1, <2>2, AuditedUpdate
<1> QED
  BY <1>R, <1>1, <1>2, <1>3, <1>4, <1>5, <1>6, <1>7, <1>8, <1>9 DEF Step

\* Only a provider's answer delivers, and it delivers the item at the head.
LEMMA ReceiptFrame ==
  ASSUME [Next]_vars
  PROVE  \/ UNCHANGED received
         \/ \E d \in Dispatch :
              /\ call[d].stage = "sending"
              /\ received' \in {received, received \cup {ReceiptOf(d)}}
<1> USE DEF redis, history
<1>1. ASSUME NEW d \in Dispatch, Step(d)
      PROVE  \/ UNCHANGED received
             \/ /\ call[d].stage = "sending"
                /\ received' \in {received, received \cup {ReceiptOf(d)}}
  BY <1>1 DEF Step, AuditTrigger, AuditIndex, SkipMissingBinding, SkipCooldown,
     PassCooldown, SkipBackpressure, ReserveSlot, SkipIdempotent, Enqueue, ReleaseUnsent,
     FinishEmpty, StartSending, ProviderAnswers, RetryAttempt, Retry, FinishItem, DispatchRaises
<1>2. ASSUME NEW d \in Dispatch, NEW k \in TriggerKey, NEW a \in Alert
      PROVE  /\ DispatchMuted(d, k, a) => UNCHANGED received
             /\ \A b \in Bindings : DispatchStart(d, k, a, b) => UNCHANGED received
  BY DEF DispatchMuted, DispatchStart
<1>3. /\ \A w \in Worker : Crash(w) => UNCHANGED received
      /\ Tick => UNCHANGED received
      /\ \A u \in User, seconds \in MuteSeconds : SetMute(u, seconds) => UNCHANGED received
      /\ \A u \in User : ClearMute(u) => UNCHANGED received
  BY DEF Crash, Tick, SetMute, ClearMute
<1>4. UNCHANGED vars => UNCHANGED received
  BY DEF vars
<1> QED
  BY <1>1, <1>2, <1>3, <1>4 DEF Next

LEMMA AuditStep == AuditInv /\ [Next]_vars => AuditInv'
<1> SUFFICES ASSUME AuditInv, [Next]_vars PROVE AuditInv'
  OBVIOUS
<1> USE DEF redis, history
<1>1. TypeInv'
  BY TypeStep DEF AuditInv
<1>2. audit \subseteq audit'
  BY AuditFrame DEF AuditTrigger
<1>3. AuditPrecedesDelivery'
  <2>1. ASSUME NEW d \in Dispatch, call[d].stage = "sending"
        PROVE  ReceiptOf(d).key.trigger \in audit
    <3>1. call[d].items \in Seq(Item) /\ call[d].items # <<>>
      BY <2>1 DEF AuditInv, TypeInv, TypeOK, Call, WellFormed
    <3>2. Head(call[d].items) = call[d].items[1] /\ 1 \in 1 .. Len(call[d].items)
      BY <3>1
    <3>3. Head(call[d].items).key.trigger \in audit
      BY <3>2 DEF AuditInv, AuditedCall
    <3> QED
      BY <3>3 DEF ReceiptOf
  <2> QED
    BY <1>2, <2>1, ReceiptFrame DEF AuditPrecedesDelivery, AuditInv
<1>4. \A o \in Dispatch : AuditedCall(call'[o], audit')
  <2>1. ASSUME NEW d \in Dispatch, AuditTrigger(d)
        PROVE  \A o \in Dispatch : AuditedCall(call'[o], audit')
    <3> DEFINE c == [call[d] EXCEPT !.stage = IF call[d].trigger \in audit
                                              THEN "prepare" ELSE "index"]
    <3>1. /\ call' = [call EXCEPT ![d] = c]
          /\ call[d].trigger \in audit'
      BY <2>1 DEF AuditTrigger, Goto, AuditInv, TypeInv, TypeOK
    <3>2. c.trigger = call[d].trigger /\ c.items = call[d].items
      BY DEF AuditInv, TypeInv, TypeOK, Call
    <3> HIDE DEF c
    <3>3. AuditedCall(c, audit')
      BY <1>2, <3>1, <3>2 DEF AuditedCall, AuditInv
    <3> QED
      BY <1>2, <3>1, <3>3, AuditedUpdate
  <2>2. ASSUME NEW d \in Dispatch, Step(d)
        PROVE  \A o \in Dispatch : AuditedCall(call'[o], audit')
    <3>1. CASE AuditTrigger(d)
      BY <2>1, <3>1
    <3>2. CASE ~AuditTrigger(d)
      <4>1. UNCHANGED audit
        BY <2>2, <3>2 DEF Step, AuditIndex, SkipMissingBinding, SkipCooldown,
           PassCooldown, SkipBackpressure, ReserveSlot, SkipIdempotent, Enqueue,
           ReleaseUnsent, FinishEmpty, StartSending, ProviderAnswers, RetryAttempt, Retry,
           FinishItem, DispatchRaises
      <4> QED
        BY <2>2, <3>2, <4>1, AuditedStep
    <3> QED
      BY <3>1, <3>2
  <2>3. ASSUME NEW d \in Dispatch, NEW k \in TriggerKey, NEW a \in Alert,
               NEW b \in Bindings, DispatchStart(d, k, a, b)
        PROVE  \A o \in Dispatch : AuditedCall(call'[o], audit')
    <3> DEFINE c == [IdleCall EXCEPT !.stage = "audit", !.trigger = k, !.alert = a,
                                     !.binding = b]
    <3>1. call' = [call EXCEPT ![d] = c]
      BY <2>3 DEF DispatchStart
    <3>2. c.stage = "audit" /\ c.items = <<>>
      BY DEF IdleCall
    <3> HIDE DEF c
    <3>3. AuditedCall(c, audit')
      BY <3>2 DEF AuditedCall
    <3> QED
      BY <1>2, <3>1, <3>3, AuditedUpdate
  <2>4. ASSUME NEW w \in Worker, Crash(w)
        PROVE  \A o \in Dispatch : AuditedCall(call'[o], audit')
    <3>1. \A o \in Dispatch : call'[o] \in {IdleCall, call[o]}
      BY <2>4 DEF Crash
    <3> QED
      BY <1>2, <3>1, AuditedIdle DEF AuditInv, AuditedCall
  <2>5. ASSUME UNCHANGED call
        PROVE  \A o \in Dispatch : AuditedCall(call'[o], audit')
    BY <1>2, <2>5 DEF AuditInv, AuditedCall
  <2>6. /\ \A d \in Dispatch, k \in TriggerKey, a \in Alert :
             DispatchMuted(d, k, a) => UNCHANGED call
        /\ Tick => UNCHANGED call
        /\ \A u \in User, seconds \in MuteSeconds : SetMute(u, seconds) => UNCHANGED call
        /\ \A u \in User : ClearMute(u) => UNCHANGED call
        /\ UNCHANGED vars => UNCHANGED call
    BY DEF DispatchMuted, Tick, SetMute, ClearMute, vars
  <2> QED
    BY <2>2, <2>3, <2>4, <2>5, <2>6 DEF Next
<1> QED
  BY <1>1, <1>3, <1>4 DEF AuditInv

\* Nobody receives a message of a trigger that has no audit record
\* (AuditPrecedesDelivery).
THEOREM DeliveriesAreAudited == Spec => []AuditPrecedesDelivery
<1>1. Init => AuditInv
  <2> SUFFICES ASSUME Init PROVE AuditInv
    OBVIOUS
  <2>1. \A d \in Dispatch : AuditedCall(call[d], audit)
    BY AuditedIdle DEF Init
  <2> QED
    BY <2>1, TypeInit DEF Init, AuditInv, AuditPrecedesDelivery
<1>2. AuditInv => AuditPrecedesDelivery
  BY DEF AuditInv
<1> QED
  BY <1>1, <1>2, AuditStep, PTL DEF Spec

-----------------------------------------------------------------------------
(* The saturation level. *)

SaturationInv == TypeInv /\ SaturationTracksQueue

\* A controller that is replaced by one that tracks its queue.
LEMMA TracksUpdate ==
  ASSUME SaturationInv, NEW w \in Worker, NEW b, Tracks(b), SetController(w, b)
  PROVE  SaturationTracksQueue'
<1>1. ASSUME NEW v \in Worker PROVE Tracks(controller'[v])
  <2>1. controller' = [controller EXCEPT ![w] = b] /\ controller \in [Worker -> Controller]
    BY DEF SetController, SaturationInv, TypeInv, TypeOK
  <2>2. controller'[v] = b \/ controller'[v] = controller[v]
    BY <2>1
  <2> QED
    BY <2>2 DEF SaturationInv, SaturationTracksQueue
<1> QED
  BY <1>1 DEF SaturationTracksQueue

LEMMA SaturationStep == SaturationInv /\ [Next]_vars => SaturationInv'
<1> SUFFICES ASSUME SaturationInv, [Next]_vars PROVE SaturationTracksQueue'
  BY TypeStep DEF SaturationInv
<1> USE DEF redis, history
<1>W. \A d \in Dispatch : WorkerOf[d] \in Worker /\ controller[WorkerOf[d]] \in Controller
  BY DeliveryAssumption DEF SaturationInv, TypeInv, TypeOK
<1>U. ASSUME UNCHANGED controller PROVE SaturationTracksQueue'
  BY <1>U DEF SaturationInv, SaturationTracksQueue
<1>1. ASSUME NEW d \in Dispatch, Step(d) PROVE SaturationTracksQueue'
  <2> DEFINE b == controller[WorkerOf[d]]
  <2>1. CASE SkipBackpressure(d)
    BY <1>W, <2>1, OperationsOK, TracksUpdate DEF SkipBackpressure
  <2>2. CASE ReserveSlot(d)
    BY <1>W, <2>2, OperationsOK, TracksUpdate DEF ReserveSlot
  <2>3. CASE SkipIdempotent(d) \/ ReleaseUnsent(d) \/ FinishItem(d)
    <3>1. SetController(WorkerOf[d], Released(b))
      BY <2>3 DEF SkipIdempotent, ReleaseUnsent, FinishItem
    <3> QED
      BY <1>W, <3>1, OperationsOK, TracksUpdate
  <2>4. CASE DispatchRaises(d)
    <3> DEFINE a == IF call[d].stage \in {"sending", "answered"} THEN Released(b) ELSE b
    <3>1. Tracks(a)
      BY <1>W, OperationsOK DEF SaturationInv, SaturationTracksQueue
    <3>2. SetController(WorkerOf[d], a)
      BY <2>4 DEF DispatchRaises
    <3> HIDE DEF a
    <3> QED
      BY <1>W, <3>1, <3>2, TracksUpdate
  <2>5. CASE \/ AuditTrigger(d) \/ AuditIndex(d) \/ SkipMissingBinding(d)
             \/ SkipCooldown(d) \/ PassCooldown(d) \/ Enqueue(d) \/ FinishEmpty(d)
             \/ StartSending(d) \/ RetryAttempt(d)
             \/ \E answer \in Answer \ {"none"}, delivered \in BOOLEAN :
                  ProviderAnswers(d, answer, delivered)
    <3>1. UNCHANGED controller
      BY <2>5 DEF AuditTrigger, AuditIndex, SkipMissingBinding, SkipCooldown, PassCooldown,
         Enqueue, FinishEmpty, StartSending, RetryAttempt, Retry, ProviderAnswers
    <3> QED
      BY <3>1, <1>U
  <2> QED
    BY <1>1, <2>1, <2>2, <2>3, <2>4, <2>5 DEF Step
<1>2. ASSUME NEW w \in Worker, Crash(w) PROVE SaturationTracksQueue'
  BY <1>2, FreshControllerOK, TracksUpdate DEF Crash
<1>3. ASSUME \/ \E d \in Dispatch, k \in TriggerKey, a \in Alert :
                  DispatchMuted(d, k, a) \/ \E b \in Bindings : DispatchStart(d, k, a, b)
             \/ Tick
             \/ \E u \in User, seconds \in MuteSeconds : SetMute(u, seconds)
             \/ \E u \in User : ClearMute(u)
             \/ UNCHANGED vars
      PROVE  SaturationTracksQueue'
  <2>1. UNCHANGED controller
    BY <1>3 DEF DispatchMuted, DispatchStart, Tick, SetMute, ClearMute, vars
  <2> QED
    BY <2>1, <1>U
<1> QED
  BY <1>1, <1>2, <1>3 DEF Next

\* The level of every worker's controller tracks its queue (SaturationTracksQueue),
\* for every capacity, threshold and recovery window.
THEOREM SaturationTracks == Spec => []SaturationTracksQueue
<1>1. Init => SaturationInv
  <2> SUFFICES ASSUME Init PROVE SaturationTracksQueue
    BY TypeInit DEF SaturationInv
  <2> QED
    BY FreshControllerOK DEF Init, SaturationTracksQueue
<1>2. SaturationInv => SaturationTracksQueue
  BY DEF SaturationInv
<1> QED
  BY <1>1, <1>2, SaturationStep, PTL DEF Spec

-----------------------------------------------------------------------------
(* Deliveries under one cooldown.  A delivery that is accepted carries the moment at   *)
(* which its cooldown check passed; between that check and the claim the pass is held  *)
(* by the call.  The invariant keeps all passes, those of the claims and those still   *)
(* held, apart and below the expiry of their cooldown key.                             *)

\* d holds a pass of a cooldown that is not zero.
CallCooldown(d) == CooldownOf[call[d].alert]
Holds(d) == call[d].stage \in {"slot", "claim"} /\ CallCooldown(d) > 0

KeyOf(c) == <<ScopeOf[c.key.trigger], c.key.channel>>

Apart(t1, s1, t2, s2) == t2 >= t1 + s1 \/ t1 >= t2 + s2

PassesExpire ==
  /\ \A c \in claims : c.cooldown > 0 => c.passedAt + c.cooldown <= cooldown[KeyOf(c)]
  /\ \A d \in Dispatch :
       Holds(d) => call[d].passedAt + CallCooldown(d) <= cooldown[CooldownKey(d)]

ClaimsApart ==
  \A c1, c2 \in claims :
    c1 # c2 /\ KeyOf(c1) = KeyOf(c2) /\ c1.cooldown > 0 /\ c2.cooldown > 0
      => Apart(c1.passedAt, c1.cooldown, c2.passedAt, c2.cooldown)

ClaimsApartFromCalls ==
  \A c \in claims, d \in Dispatch :
    Holds(d) /\ KeyOf(c) = CooldownKey(d) /\ c.cooldown > 0
      => Apart(c.passedAt, c.cooldown, call[d].passedAt, CallCooldown(d))

CallsApart ==
  \A d, e \in Dispatch :
    d # e /\ Holds(d) /\ Holds(e) /\ CooldownKey(d) = CooldownKey(e)
      => Apart(call[d].passedAt, CallCooldown(d), call[e].passedAt, CallCooldown(e))

PassInv ==
  /\ TypeInv
  /\ PassesExpire
  /\ ClaimsApart
  /\ ClaimsApartFromCalls
  /\ CallsApart

-----------------------------------------------------------------------------

\* A call that holds a pass after a step that takes none held it before.
Keeps(d) ==
  Holds(d)' => /\ Holds(d)
               /\ call'[d].passedAt = call[d].passedAt
               /\ call'[d].alert = call[d].alert
               /\ CooldownKey(d)' = CooldownKey(d)

\* A change of the call of d alone keeps the passes of the others.
LEMMA KeepsOthers ==
  ASSUME TypeInv, NEW d \in Dispatch, NEW c, call' = [call EXCEPT ![d] = c],
         NEW o \in Dispatch, o # d
  PROVE  call'[o] = call[o] /\ Keeps(o)
<1>1. call'[o] = call[o]
  BY DEF TypeInv, TypeOK
<1> QED
  BY <1>1 DEF Keeps, Holds, CallCooldown, CooldownKey, ChannelAt, Channels

LEMMA NotHeld ==
  ASSUME TypeInv, NEW d \in Dispatch, NEW c, call' = [call EXCEPT ![d] = c],
         c.stage \notin {"slot", "claim"}
  PROVE  \A o \in Dispatch : Keeps(o)
<1>1. call'[d] = c
  BY DEF TypeInv, TypeOK
<1>2. Keeps(d)
  BY <1>1 DEF Keeps, Holds
<1> QED
  BY <1>2, KeepsOthers

LEMMA StepKeeps ==
  ASSUME TypeInv, NEW d \in Dispatch, Step(d), ~PassCooldown(d)
  PROVE  \A o \in Dispatch : Keeps(o)
<1>T. call \in [Dispatch -> Call] /\ call[d] \in Call
  BY DEF TypeInv, TypeOK
<1>G. ASSUME NEW stage, Goto(d, stage), stage \notin {"slot", "claim"}
      PROVE  \A o \in Dispatch : Keeps(o)
  <2> DEFINE c == [call[d] EXCEPT !.stage = stage]
  <2>1. call' = [call EXCEPT ![d] = c] /\ c.stage = stage
    BY <1>T, <1>G DEF Goto, Call
  <2> HIDE DEF c
  <2> QED
    BY <1>G, <2>1, NotHeld
<1>N. ASSUME NextChannel(d) PROVE \A o \in Dispatch : Keeps(o)
  <2> DEFINE c == [call[d] EXCEPT !.stage = "prepare", !.next = @ + 1, !.passedAt = 0]
  <2>1. call' = [call EXCEPT ![d] = c] /\ c.stage = "prepare"
    BY <1>T, <1>N DEF NextChannel, Call
  <2> HIDE DEF c
  <2> QED
    BY <2>1, NotHeld
<1>R. ASSUME Return(d) PROVE \A o \in Dispatch : Keeps(o)
  <2>1. call' = [call EXCEPT ![d] = IdleCall] /\ IdleCall.stage = "idle"
    BY <1>R DEF Return, IdleCall
  <2> QED
    BY <2>1, NotHeld
<1>1. CASE AuditTrigger(d) \/ AuditIndex(d) \/ StartSending(d)
  BY <1>1, <1>G DEF AuditTrigger, AuditIndex, StartSending
<1>2. CASE \/ SkipMissingBinding(d) \/ SkipCooldown(d) \/ SkipBackpressure(d)
           \/ SkipIdempotent(d)
  BY <1>2, <1>N DEF SkipMissingBinding, SkipCooldown, SkipBackpressure, SkipIdempotent
<1>3. CASE FinishEmpty(d) \/ DispatchRaises(d)
  BY <1>3, <1>R DEF FinishEmpty, DispatchRaises
<1>4. CASE ReserveSlot(d)
  <2> DEFINE c == [call[d] EXCEPT !.stage = "claim"]
  <2>1. call' = [call EXCEPT ![d] = c] /\ call[d].stage = "slot"
    BY <1>T, <1>4 DEF ReserveSlot, Goto, At
  <2>2. /\ c.trigger = call[d].trigger /\ c.alert = call[d].alert
        /\ c.next = call[d].next /\ c.passedAt = call[d].passedAt
    BY <1>T DEF Call
  <2> HIDE DEF c
  <2>3. call'[d] = c
    BY <1>T, <2>1
  <2>4. Keeps(d)
    BY <2>1, <2>2, <2>3 DEF Keeps, Holds, CallCooldown, CooldownKey, ChannelAt, Channels
  <2> QED
    BY <2>1, <2>4, KeepsOthers
<1>5. CASE Enqueue(d)
  <2> DEFINE c == [call[d] EXCEPT !.stage = "prepare", !.next = @ + 1, !.passedAt = 0,
                     !.items = Append(@, [key |-> KeyAt(d), n |-> ClaimCount(KeyAt(d)) + 1])]
  <2>1. call' = [call EXCEPT ![d] = c] /\ c.stage = "prepare"
    BY <1>T, <1>5 DEF Enqueue, Call
  <2> HIDE DEF c
  <2> QED
    BY <2>1, NotHeld
<1>6. CASE ReleaseUnsent(d)
  <2> DEFINE c == [call[d] EXCEPT !.items = Tail(@)]
  <2>1. call' = [call EXCEPT ![d] = c] /\ c.stage = "prepare"
    BY <1>T, <1>6 DEF ReleaseUnsent, At, Call
  <2> HIDE DEF c
  <2> QED
    BY <2>1, NotHeld
<1>7. CASE \E answer \in Answer \ {"none"}, delivered \in BOOLEAN :
             ProviderAnswers(d, answer, delivered)
  <2> PICK answer \in Answer \ {"none"}, delivered \in BOOLEAN :
             ProviderAnswers(d, answer, delivered)
    BY <1>7
  <2> DEFINE c == [call[d] EXCEPT !.stage = "answered", !.answer = answer]
  <2>1. call' = [call EXCEPT ![d] = c] /\ c.stage = "answered"
    BY <1>T DEF ProviderAnswers, Call
  <2> HIDE DEF c
  <2> QED
    BY <2>1, NotHeld
<1>8. CASE RetryAttempt(d)
  <2> DEFINE c == [call[d] EXCEPT !.stage = "sending", !.attempt = @ + 1,
                                  !.answer = "none"]
  <2>1. call' = [call EXCEPT ![d] = c] /\ c.stage = "sending"
    BY <1>T, <1>8 DEF RetryAttempt, Retry, Call
  <2> HIDE DEF c
  <2> QED
    BY <2>1, NotHeld
<1>9. CASE FinishItem(d) /\ ~Return(d)
  <2> DEFINE c == [call[d] EXCEPT !.stage = "sending", !.items = Tail(@),
                                  !.attempt = 1, !.answer = "none"]
  <2>1. call' = [call EXCEPT ![d] = c] /\ c.stage = "sending"
    BY <1>T, <1>9 DEF FinishItem, Call
  <2> HIDE DEF c
  <2> QED
    BY <2>1, NotHeld
<1> QED
  BY <1>R, <1>1, <1>2, <1>3, <1>4, <1>5, <1>6, <1>7, <1>8, <1>9 DEF Step

\* Every step but the two that take and use a pass leaves the passes as they are.
LEMMA PassFrame ==
  ASSUME TypeInv, [Next]_vars
  PROVE  \/ \E d \in Dispatch : PassCooldown(d) \/ Enqueue(d)
         \/ UNCHANGED <<claims, cooldown>> /\ \A o \in Dispatch : Keeps(o)
<1> USE DEF redis, history
<1>1. ASSUME NEW d \in Dispatch, Step(d)
      PROVE  \/ PassCooldown(d) \/ Enqueue(d)
             \/ UNCHANGED <<claims, cooldown>> /\ \A o \in Dispatch : Keeps(o)
  <2>1. PassCooldown(d) \/ Enqueue(d) \/ UNCHANGED <<claims, cooldown>>
    BY <1>1 DEF Step, AuditTrigger, AuditIndex, SkipMissingBinding, SkipCooldown,
       SkipBackpressure, ReserveSlot, SkipIdempotent, ReleaseUnsent, FinishEmpty,
       StartSending, ProviderAnswers, RetryAttempt, Retry, FinishItem, DispatchRaises
  <2> QED
    BY <1>1, <2>1, StepKeeps
<1>2. ASSUME UNCHANGED call PROVE \A o \in Dispatch : Keeps(o)
  BY <1>2 DEF Keeps, Holds, CallCooldown, CooldownKey, ChannelAt, Channels
<1>3. ASSUME NEW d \in Dispatch, NEW k \in TriggerKey, NEW a \in Alert,
             NEW b \in Bindings, DispatchStart(d, k, a, b)
      PROVE  UNCHANGED <<claims, cooldown>> /\ \A o \in Dispatch : Keeps(o)
  <2> DEFINE c == [IdleCall EXCEPT !.stage = "audit", !.trigger = k, !.alert = a,
                                   !.binding = b]
  <2>1. /\ call' = [call EXCEPT ![d] = c] /\ c.stage = "audit"
        /\ UNCHANGED <<claims, cooldown>>
    BY <1>3 DEF DispatchStart, IdleCall
  <2> HIDE DEF c
  <2> QED
    BY <2>1, NotHeld
<1>4. ASSUME NEW w \in Worker, Crash(w)
      PROVE  UNCHANGED <<claims, cooldown>> /\ \A o \in Dispatch : Keeps(o)
  <2>1. UNCHANGED <<claims, cooldown>> /\ \A o \in Dispatch : call'[o] \in {IdleCall, call[o]}
    BY <1>4 DEF Crash
  <2>2. IdleCall.stage = "idle"
    BY DEF IdleCall
  <2>3. ASSUME NEW o \in Dispatch PROVE Keeps(o)
    <3>1. CASE call'[o] = call[o]
      BY <3>1 DEF Keeps, Holds, CallCooldown, CooldownKey, ChannelAt, Channels
    <3>2. CASE call'[o] = IdleCall
      BY <2>2, <3>2 DEF Keeps, Holds
    <3> QED
      BY <2>1, <3>1, <3>2
  <2> QED
    BY <2>1, <2>3
<1>5. ASSUME \/ \E d \in Dispatch, k \in TriggerKey, a \in Alert : DispatchMuted(d, k, a)
             \/ Tick
             \/ \E u \in User, seconds \in MuteSeconds : SetMute(u, seconds)
             \/ \E u \in User : ClearMute(u)
             \/ UNCHANGED vars
      PROVE  UNCHANGED <<claims, cooldown>> /\ \A o \in Dispatch : Keeps(o)
  <2>1. UNCHANGED <<claims, cooldown, call>>
    BY <1>5 DEF DispatchMuted, Tick, SetMute, ClearMute, vars
  <2> QED
    BY <2>1, <1>2
<1> QED
  BY <1>1, <1>3, <1>4, <1>5 DEF Next

-----------------------------------------------------------------------------

\* The types the arithmetic below needs.
LEMMA PassTypes ==
  ASSUME TypeInv
  PROVE  /\ clock \in Nat
         /\ cooldown \in [Scope \X Channel -> Nat]
         /\ \A c \in claims : /\ c.passedAt \in Nat /\ c.cooldown \in Nat
                              /\ KeyOf(c) \in Scope \X Channel
         /\ \A d \in Dispatch : /\ call[d].passedAt \in Nat
                                /\ CallCooldown(d) \in Nat
                                /\ Holds(d) => CooldownKey(d) \in Scope \X Channel
<1>1. clock \in Nat /\ cooldown \in [Scope \X Channel -> Nat] /\ claims \subseteq Claim
  BY DeliveryAssumption DEF TypeInv, TypeOK
<1>2. \A c \in claims : /\ c.passedAt \in Nat /\ c.cooldown \in Nat
                        /\ c.key \in DeliveryKey
  BY <1>1 DEF Claim
<1>3. \A c \in claims : KeyOf(c) \in Scope \X Channel
  BY <1>2, DeliveryAssumption DEF KeyOf, DeliveryKey
<1>4. \A d \in Dispatch : call[d].passedAt \in Nat /\ CallCooldown(d) \in Nat
  BY DeliveryAssumption DEF TypeInv, TypeOK, Call, CallCooldown
<1>5. \A d \in Dispatch : Holds(d) => CooldownKey(d) \in Scope \X Channel
  <2>1. \A d \in Dispatch : Holds(d) => HasChannel(d)
    BY DEF TypeInv, WellFormed, Holds, HasChannel, Channels
  <2> QED
    BY <2>1, ChannelTypes DEF TypeInv
<1> QED
  BY <1>1, <1>2, <1>3, <1>4, <1>5

LEMMA FrameKeepsPasses ==
  ASSUME PassInv, UNCHANGED <<claims, cooldown>>, \A o \in Dispatch : Keeps(o)
  PROVE  PassesExpire' /\ ClaimsApart' /\ ClaimsApartFromCalls' /\ CallsApart'
<1>1. \A o \in Dispatch :
        Holds(o)' => /\ Holds(o) /\ call'[o].passedAt = call[o].passedAt
                     /\ CallCooldown(o)' = CallCooldown(o)
                     /\ CooldownKey(o)' = CooldownKey(o)
  BY DEF Keeps, CallCooldown
<1>2. \A c : KeyOf(c)' = KeyOf(c)
  BY DEF KeyOf
<1>3. PassesExpire'
  BY <1>1, <1>2 DEF PassInv, PassesExpire
<1>4. ClaimsApart'
  BY <1>2 DEF PassInv, ClaimsApart, Apart
<1>5. ClaimsApartFromCalls'
  BY <1>1, <1>2 DEF PassInv, ClaimsApartFromCalls, Apart
<1>6. CallsApart'
  BY <1>1 DEF PassInv, CallsApart, Apart
<1> QED
  BY <1>3, <1>4, <1>5, <1>6

\* The check that takes a pass: every other pass of the key has expired.
LEMMA PassCooldownStep ==
  ASSUME PassInv, NEW d \in Dispatch, PassCooldown(d)
  PROVE  PassesExpire' /\ ClaimsApart' /\ ClaimsApartFromCalls' /\ CallsApart'
<1> USE DEF redis, history
<1> DEFINE key == CooldownKey(d)
           seconds == CallCooldown(d)
<1>1. /\ call[d].stage = "prepare" /\ UNCHANGED claims
      /\ key \in Scope \X Channel /\ seconds \in Nat
      /\ \/ seconds = 0 /\ UNCHANGED cooldown
         \/ /\ seconds > 0 /\ clock >= cooldown[key]
            /\ cooldown' = [cooldown EXCEPT ![key] = clock + seconds]
  BY PassTypes, ChannelTypes DEF PassInv, TypeInv, PassCooldown, Free, At, CallCooldown
<1>2. /\ call'[d].passedAt = clock
      /\ CallCooldown(d)' = seconds /\ CooldownKey(d)' = key
      /\ \A o \in Dispatch \ {d} :
           /\ call'[o] = call[o]
           /\ Holds(o)' = Holds(o) /\ CallCooldown(o)' = CallCooldown(o)
           /\ CooldownKey(o)' = CooldownKey(o)
  <2> DEFINE c == [call[d] EXCEPT !.stage = "slot", !.passedAt = clock]
  <2>1. call' = [call EXCEPT ![d] = c]
    BY DEF PassCooldown, PassInv, TypeInv, TypeOK
  <2>2. /\ c.passedAt = clock /\ c.alert = call[d].alert
        /\ c.trigger = call[d].trigger /\ c.next = call[d].next
    BY DEF PassInv, TypeInv, TypeOK, Call
  <2> HIDE DEF c
  <2>3. call'[d] = c /\ \A o \in Dispatch \ {d} : call'[o] = call[o]
    BY <2>1 DEF PassInv, TypeInv, TypeOK
  <2>4. CallCooldown(d)' = CallCooldown(d) /\ CooldownKey(d)' = CooldownKey(d)
    BY <2>2, <2>3 DEF CallCooldown, CooldownKey, ChannelAt, Channels
  <2>5. \A o \in Dispatch \ {d} :
           /\ Holds(o)' = Holds(o) /\ CallCooldown(o)' = CallCooldown(o)
           /\ CooldownKey(o)' = CooldownKey(o)
    BY <2>3 DEF Holds, CallCooldown, CooldownKey, ChannelAt, Channels
  <2> QED
    BY <2>2, <2>3, <2>4, <2>5
<1>3. /\ clock \in Nat /\ cooldown \in [Scope \X Channel -> Nat]
      /\ \A c \in claims : /\ c.passedAt \in Nat /\ c.cooldown \in Nat
                           /\ KeyOf(c) \in Scope \X Channel
      /\ \A o \in Dispatch : /\ call[o].passedAt \in Nat /\ CallCooldown(o) \in Nat
                             /\ Holds(o) => CooldownKey(o) \in Scope \X Channel
  BY PassTypes DEF PassInv
<1>4. \A c : KeyOf(c)' = KeyOf(c)
  BY DEF KeyOf
<1>5. \A x \in Scope \X Channel : cooldown[x] <= cooldown'[x]
  BY <1>1, <1>3
<1>6. /\ \A c \in claims : c.cooldown > 0 => c.passedAt + c.cooldown <= cooldown[KeyOf(c)]
      /\ \A o \in Dispatch :
           Holds(o) => call[o].passedAt + CallCooldown(o) <= cooldown[CooldownKey(o)]
  BY DEF PassInv, PassesExpire
<1>7. seconds > 0 => clock >= cooldown[key] /\ cooldown'[key] = clock + seconds
  BY <1>1, <1>3
<1> HIDE DEF key, seconds
<1>8. PassesExpire'
  <2>1. ASSUME NEW c \in claims, c.cooldown > 0
        PROVE  c.passedAt + c.cooldown <= cooldown'[KeyOf(c)]
    <3>1. cooldown[KeyOf(c)] \in Nat /\ cooldown'[KeyOf(c)] \in Nat
      BY <1>1, <1>3
    <3> QED
      BY <1>3, <1>5, <1>6, <2>1, <3>1
  <2>2. ASSUME NEW o \in Dispatch, Holds(o)'
        PROVE  call'[o].passedAt + CallCooldown(o)' <= cooldown'[CooldownKey(o)']
    <3>1. CASE o = d
      <4>1. seconds > 0
        BY <1>2, <2>2, <3>1 DEF Holds
      <4>2. call'[d].passedAt + CallCooldown(d)' = cooldown'[CooldownKey(d)']
        BY <1>2, <1>7, <4>1
      <4>3. call'[d].passedAt + CallCooldown(d)' \in Nat
        BY <1>1, <1>2, <1>3
      <4> QED
        BY <3>1, <4>2, <4>3
    <3>2. CASE o # d
      <4>1. /\ call'[o].passedAt = call[o].passedAt /\ Holds(o)
            /\ CallCooldown(o)' = CallCooldown(o) /\ CooldownKey(o)' = CooldownKey(o)
        BY <1>2, <2>2, <3>2
      <4>2. cooldown[CooldownKey(o)] \in Nat /\ cooldown'[CooldownKey(o)] \in Nat
        BY <1>1, <1>3, <4>1
      <4> QED
        BY <1>3, <1>5, <1>6, <4>1, <4>2
    <3> QED
      BY <3>1, <3>2
  <2> QED
    BY <1>1, <1>4, <2>1, <2>2 DEF PassesExpire
<1>9. ClaimsApart'
  BY <1>1, <1>4 DEF PassInv, ClaimsApart, Apart
<1>10. ClaimsApartFromCalls'
  <2> SUFFICES ASSUME NEW c \in claims, NEW o \in Dispatch, Holds(o)',
                      KeyOf(c) = CooldownKey(o)', c.cooldown > 0
               PROVE  Apart(c.passedAt, c.cooldown, call'[o].passedAt, CallCooldown(o)')
    BY <1>1, <1>4 DEF ClaimsApartFromCalls, Apart
  <2>1. CASE o = d
    <3>1. seconds > 0 /\ KeyOf(c) = key
      BY <1>2, <2>1 DEF Holds
    <3>2. c.passedAt + c.cooldown <= cooldown[key] /\ cooldown[key] <= clock
      BY <1>6, <1>7, <3>1
    <3>3. c.passedAt + c.cooldown <= clock
      BY <1>1, <1>3, <3>2
    <3> QED
      BY <1>2, <2>1, <3>3 DEF Apart
  <2>2. CASE o # d
    BY <1>2, <2>2 DEF PassInv, ClaimsApartFromCalls
  <2> QED
    BY <2>1, <2>2
<1>11. ASSUME NEW o \in Dispatch, o # d, Holds(o), Holds(d)', CooldownKey(o) = key
       PROVE  call[o].passedAt + CallCooldown(o) <= clock
  <2>1. seconds > 0
    BY <1>2, <1>11 DEF Holds
  <2>2. call[o].passedAt + CallCooldown(o) <= cooldown[key] /\ cooldown[key] <= clock
    BY <1>6, <1>7, <1>11, <2>1
  <2> QED
    BY <1>1, <1>3, <2>2
<1>12. CallsApart'
  <2> SUFFICES ASSUME NEW o \in Dispatch, NEW e \in Dispatch, o # e, Holds(o)', Holds(e)',
                      CooldownKey(o)' = CooldownKey(e)'
               PROVE  Apart(call'[o].passedAt, CallCooldown(o)',
                            call'[e].passedAt, CallCooldown(e)')
    BY DEF CallsApart, Apart
  <2>1. CASE o = d
    BY <1>2, <1>11, <2>1 DEF Apart
  <2>2. CASE e = d
    BY <1>2, <1>11, <2>2 DEF Apart
  <2>3. CASE o # d /\ e # d
    BY <1>2, <2>3 DEF PassInv, CallsApart
  <2> QED
    BY <2>1, <2>2, <2>3
<1> QED
  BY <1>8, <1>9, <1>10, <1>12

\* The claim inherits the pass of its call, which gives it up.
LEMMA EnqueueStep ==
  ASSUME PassInv, NEW d \in Dispatch, Enqueue(d)
  PROVE  PassesExpire' /\ ClaimsApart' /\ ClaimsApartFromCalls' /\ CallsApart'
<1> USE DEF redis, history
<1> DEFINE new == [key |-> KeyAt(d), n |-> ClaimCount(KeyAt(d)) + 1, at |-> clock,
                   passedAt |-> call[d].passedAt, cooldown |-> CooldownOf[call[d].alert]]
<1>1. claims' = claims \cup {new} /\ UNCHANGED cooldown /\ call[d].stage = "claim"
  BY DEF Enqueue, At
<1>2. /\ new.passedAt = call[d].passedAt /\ new.cooldown = CallCooldown(d)
      /\ KeyOf(new) = CooldownKey(d)
  BY DEF CallCooldown, KeyOf, CooldownKey, KeyAt
<1> HIDE DEF new
<1>3. \A o \in Dispatch : Keeps(o)
  <2>1. ~PassCooldown(d)
    BY <1>1 DEF PassCooldown, At
  <2> QED
    BY <2>1, StepKeeps DEF Step, PassInv
<1>4. ~Holds(d)'
  <2>1. call'[d].stage = "prepare"
    BY DEF Enqueue, PassInv, TypeInv, TypeOK, Call
  <2> QED
    BY <2>1 DEF Holds
<1>5. \A o \in Dispatch :
        Holds(o)' => /\ o # d /\ Holds(o) /\ call'[o].passedAt = call[o].passedAt
                     /\ CallCooldown(o)' = CallCooldown(o)
                     /\ CooldownKey(o)' = CooldownKey(o)
  BY <1>3, <1>4 DEF Keeps, CallCooldown
<1>6. \A c : KeyOf(c)' = KeyOf(c)
  BY DEF KeyOf
<1>7. new.cooldown > 0 => Holds(d)
  BY <1>1, <1>2 DEF Holds
<1>8. PassesExpire'
  BY <1>1, <1>2, <1>5, <1>6, <1>7 DEF PassInv, PassesExpire
<1>9. ASSUME NEW c \in claims, KeyOf(c) = KeyOf(new), c.cooldown > 0, new.cooldown > 0
      PROVE  /\ Apart(c.passedAt, c.cooldown, new.passedAt, new.cooldown)
             /\ Apart(new.passedAt, new.cooldown, c.passedAt, c.cooldown)
  BY <1>2, <1>7, <1>9 DEF PassInv, ClaimsApartFromCalls, Apart
<1>10. ClaimsApart'
  <2> SUFFICES ASSUME NEW c1 \in claims', NEW c2 \in claims', c1 # c2,
                      KeyOf(c1) = KeyOf(c2), c1.cooldown > 0, c2.cooldown > 0
               PROVE  Apart(c1.passedAt, c1.cooldown, c2.passedAt, c2.cooldown)
    BY <1>6 DEF ClaimsApart, Apart
  <2>1. CASE c1 \in claims /\ c2 \in claims
    BY <2>1 DEF PassInv, ClaimsApart
  <2>2. CASE c1 = new \/ c2 = new
    BY <1>1, <1>9, <2>2
  <2> QED
    BY <1>1, <2>1, <2>2
<1>11. ClaimsApartFromCalls'
  <2> SUFFICES ASSUME NEW c \in claims', NEW o \in Dispatch, Holds(o)',
                      KeyOf(c) = CooldownKey(o)', c.cooldown > 0
               PROVE  Apart(c.passedAt, c.cooldown, call'[o].passedAt, CallCooldown(o)')
    BY <1>6 DEF ClaimsApartFromCalls, Apart
  <2>1. CASE c \in claims
    BY <1>5, <2>1 DEF PassInv, ClaimsApartFromCalls
  <2>2. CASE c = new
    BY <1>2, <1>5, <1>7, <2>2 DEF PassInv, CallsApart
  <2> QED
    BY <1>1, <2>1, <2>2
<1>12. CallsApart'
  BY <1>5 DEF PassInv, CallsApart, Apart
<1> QED
  BY <1>8, <1>10, <1>11, <1>12

LEMMA PassStep == PassInv /\ [Next]_vars => PassInv'
<1> SUFFICES ASSUME PassInv, [Next]_vars PROVE PassInv'
  OBVIOUS
<1>1. TypeInv'
  BY TypeStep DEF PassInv
<1>2. PassesExpire' /\ ClaimsApart' /\ ClaimsApartFromCalls' /\ CallsApart'
  BY PassFrame, FrameKeepsPasses, PassCooldownStep, EnqueueStep DEF PassInv
<1> QED
  BY <1>1, <1>2 DEF PassInv

LEMMA PassInit == Init => PassInv
<1> SUFFICES ASSUME Init PROVE PassInv
  OBVIOUS
<1>1. claims = {} /\ \A d \in Dispatch : ~Holds(d)
  BY DEF Init, Holds, IdleCall
<1> QED
  BY <1>1, TypeInit
  DEF PassInv, PassesExpire, ClaimsApart, ClaimsApartFromCalls, CallsApart

LEMMA PassesSpaced == PassInv => CooldownSpacing
<1> SUFFICES ASSUME PassInv, NEW c1 \in claims, NEW c2 \in claims, c1 # c2,
                    ScopeOf[c1.key.trigger] = ScopeOf[c2.key.trigger],
                    c1.key.channel = c2.key.channel,
                    c1.cooldown > 0, c2.cooldown > 0, c1.passedAt <= c2.passedAt
             PROVE  c2.passedAt >= c1.passedAt + c1.cooldown
  BY DEF CooldownSpacing
<1>1. Apart(c1.passedAt, c1.cooldown, c2.passedAt, c2.cooldown)
  BY DEF PassInv, ClaimsApart, KeyOf
<1>2. /\ c1.passedAt \in Nat /\ c1.cooldown \in Nat
      /\ c2.passedAt \in Nat /\ c2.cooldown \in Nat
  BY PassTypes DEF PassInv
<1> QED
  BY <1>1, <1>2 DEF Apart

\* Deliveries accepted on one rule, scope and channel passed their cooldown at least
\* the cooldown of the earlier one apart (CooldownSpacing).
THEOREM CooldownsSpaceDeliveries == Spec => []CooldownSpacing
<1> QED
  BY PassInit, PassStep, PassesSpaced, PTL DEF Spec

=============================================================================
