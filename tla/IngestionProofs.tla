-------------------------- MODULE IngestionProofs ---------------------------
(***************************************************************************)
(* Theorems about Ingestion, for any stream of events, any size of the     *)
(* memory, any timeouts and back-offs, and any number of faults.           *)
(***************************************************************************)
EXTENDS Ingestion, TLAPS

\* The memory is the end of what was handed over.
WindowInv ==
  /\ Len(seen) = IF Len(given) < MaxSeen THEN Len(given) ELSE MaxSeen
  /\ \A i \in 1 .. Len(seen) : seen[i] = given[Len(given) - Len(seen) + i]

LongestPoll == Max(PollInterval)
LongestBackoff == Max({FirstBackoff, BackoffMax})

\* The back-off keeps to its cap, and a sleep after it adds an interval.
PaceInv ==
  /\ gamma.backoff <= LongestBackoff
  /\ gamma.stage = "handle" => gamma.idle = 0
  /\ gamma.stage = "backoff" => gamma.idle + gamma.left <= LongestBackoff
  /\ gamma.stage = "sleep" => gamma.idle + gamma.left <= LongestPoll + LongestBackoff

\* For how long it may have been quiet when a ping is sent, and when it is given up.
LastUnasked == PingInterval + ReceiveTimeout - 1
LastUnanswered == PingInterval + PongTimeout + 2 * ReceiveTimeout - 1

\* Silence is bounded by the ping timer, which is stopped at LastPing, and by what is
\* left of the receive in which it is looked at.
SilenceInv ==
  /\ sincePing # LastPing =>
       quiet <= IF awaiting THEN LastUnasked + sincePing ELSE sincePing
  /\ stage = "receive" =>
       quiet + left <= IF awaiting THEN LastUnanswered ELSE LastUnasked
  /\ stage = "handle" => quiet = 0
  /\ stage = "head" =>
       \/ quiet = 0
       \/ awaiting /\ sincePing <= PongTimeout
       \/ ~awaiting /\ quiet <= LastUnasked

-----------------------------------------------------------------------------
(* Largest and smallest elements. *)

LEMMA MaxOf ==
  ASSUME NEW S, S \subseteq Nat, NEW m \in S, \A x \in S : x <= m
  PROVE  Max(S) \in S /\ \A x \in S : x <= Max(S)
<1>1. m \in S /\ \A x \in S : m >= x
  OBVIOUS
<1>2. Max(S) \in S /\ \A x \in S : Max(S) >= x
  BY <1>1 DEF Max
<1> QED
  BY <1>2

LEMMA MaxOfTwo ==
  ASSUME NEW a \in Nat, NEW b \in Nat
  PROVE  /\ Max({a, b}) \in Nat
         /\ a <= Max({a, b}) /\ b <= Max({a, b})
<1> DEFINE S == {a, b}
           m == IF a <= b THEN b ELSE a
<1>1. S \subseteq Nat /\ m \in S /\ \A x \in S : x <= m
  OBVIOUS
<1>2. Max(S) \in S /\ \A x \in S : x <= Max(S)
  <2> HIDE DEF S, m
  <2> QED
    BY <1>1, MaxOf
<1> QED
  BY <1>2

LEMMA MinOfTwo ==
  ASSUME NEW a \in Nat, NEW b \in Nat
  PROVE  Min({a, b}) = IF a <= b THEN a ELSE b
<1> DEFINE S == {a, b}
           m == IF a <= b THEN a ELSE b
<1>1. m \in S /\ \A x \in S : m <= x
  OBVIOUS
<1>2. Min(S) \in S /\ \A x \in S : Min(S) <= x
  <2> HIDE DEF S, m
  <2> QED
    BY <1>1 DEF Min
<1> QED
  BY <1>2

\* A timer goes on by one until it is stopped.
LEMMA CountIs ==
  ASSUME NEW n \in Nat, NEW last \in Nat
  PROVE  Count(n, last) = IF n + 1 <= last THEN n + 1 ELSE last
  BY MinOfTwo DEF Count

LEMMA Bounds ==
  /\ LastPing \in Nat /\ PingInterval < LastPing /\ PongTimeout < LastPing
  /\ LastQuiet \in Nat /\ LastIdle \in Nat
  /\ LongestBackoff \in Nat /\ FirstBackoff <= LongestBackoff /\ BackoffMax <= LongestBackoff
  /\ LongestPoll \in Nat /\ \A p \in PollInterval : p <= LongestPoll
<1>1. /\ MaxSeen \in Nat \ {0} /\ ReceiveTimeout \in Nat \ {0} /\ FirstBackoff \in Nat \ {0}
      /\ BackoffMax \in Nat \ {0}
      /\ PingInterval \in Nat /\ PongTimeout \in Nat /\ Reconnect \in Nat
      /\ MaxGiven \in Nat /\ MaxFaults \in Nat
  BY IngestionAssumption
<1>2. LastPing \in Nat /\ PingInterval < LastPing /\ PongTimeout < LastPing
  <2>1. /\ Max({PingInterval, PongTimeout}) \in Nat
        /\ PingInterval <= Max({PingInterval, PongTimeout})
        /\ PongTimeout <= Max({PingInterval, PongTimeout})
    BY <1>1, MaxOfTwo
  <2> QED
    BY <1>1, <2>1 DEF LastPing
<1>3. LastQuiet \in Nat
  BY <1>1 DEF LastQuiet
<1>4. /\ LongestBackoff \in Nat
      /\ FirstBackoff <= LongestBackoff /\ BackoffMax <= LongestBackoff
  BY <1>1, MaxOfTwo DEF LongestBackoff
<1>5. LongestPoll \in Nat /\ \A p \in PollInterval : p <= LongestPoll
  <2>1. PICK longest \in PollInterval : \A p \in PollInterval : p <= longest
    BY IngestionAssumption
  <2>2. Max(PollInterval) \in PollInterval /\ \A p \in PollInterval : p <= Max(PollInterval)
    BY <2>1, MaxOf, IngestionAssumption
  <2> QED
    BY <2>2, IngestionAssumption DEF LongestPoll
<1>6. LastIdle \in Nat
  BY <1>4, <1>5 DEF LastIdle, LongestPoll, LongestBackoff
<1> QED
  BY <1>2, <1>3, <1>4, <1>5, <1>6

-----------------------------------------------------------------------------
(* Types. *)

\* What an event does to the memory.
LEMMA RememberIs ==
  ASSUME NEW e \in Event, seen \in Seq(Event), Len(seen) <= MaxSeen
  PROVE  /\ Remember(e) \in Seq(Event)
         /\ Len(Remember(e)) = IF Len(seen) < MaxSeen THEN Len(seen) + 1 ELSE MaxSeen
         /\ \A i \in 1 .. Len(Remember(e)) :
              Remember(e)[i] = IF i = Len(Remember(e)) THEN e
                               ELSE seen[Len(seen) + 1 - Len(Remember(e)) + i]
<1> DEFINE all == Append(seen, e)
<1>1. /\ MaxSeen \in Nat \ {0} /\ Len(seen) \in Nat
      /\ all \in Seq(Event) /\ Len(all) = Len(seen) + 1
      /\ \A i \in 1 .. Len(seen) : all[i] = seen[i]
      /\ all[Len(seen) + 1] = e
  BY IngestionAssumption
<1>2. Remember(e) = IF Len(all) > MaxSeen THEN Tail(all) ELSE all
  BY DEF Remember
<1> HIDE DEF all
<1>3. CASE Len(seen) < MaxSeen
  <2>1. Remember(e) = all
    BY <1>1, <1>2, <1>3
  <2> QED
    BY <1>1, <1>3, <2>1
<1>4. CASE Len(seen) = MaxSeen
  <2>1. Remember(e) = Tail(all) /\ all # <<>>
    BY <1>1, <1>2, <1>4
  <2>2. /\ Tail(all) \in Seq(Event) /\ Len(Tail(all)) = Len(seen)
        /\ \A i \in 1 .. Len(seen) : Tail(all)[i] = all[i + 1]
    BY <1>1, <2>1
  <2> QED
    BY <1>1, <1>4, <2>1, <2>2
<1> QED
  BY <1>1, <1>3, <1>4

LEMMA TypeInit == Init => TypeOK
<1> SUFFICES ASSUME Init PROVE TypeOK
  OBVIOUS
<1>1. /\ LastPing \in Nat /\ LastQuiet \in Nat /\ MaxSeen \in Nat /\ MaxGiven \in Nat
      /\ MaxFaults \in Nat /\ FirstBackoff \in Nat /\ PollInterval \subseteq Nat
  BY Bounds, IngestionAssumption
<1>2. gamma \in Gamma
  BY <1>1 DEF Init, Gamma
<1>3. /\ stage \in Stage /\ fatal \in BOOLEAN /\ awaiting \in BOOLEAN
      /\ subscribed \in BOOLEAN /\ silent \in BOOLEAN /\ stop \in BOOLEAN
  BY DEF Init, Stage
<1>4. /\ left \in Nat /\ sincePing \in 0 .. LastPing /\ quiet \in 0 .. LastQuiet
      /\ faults \in 0 .. MaxFaults
  BY <1>1 DEF Init
<1>5. /\ seen \in Seq(Event) /\ Len(seen) <= MaxSeen
      /\ given \in Seq(Event) /\ Len(given) <= MaxGiven
      /\ \A i, j \in DOMAIN seen : seen[i] = seen[j] => i = j
  BY <1>1 DEF Init
<1> QED
  BY <1>2, <1>3, <1>4, <1>5 DEF TypeOK

LEMMA TypeTick ==
  ASSUME TypeOK, Tick
  PROVE  TypeOK'
<1>1. /\ LastPing \in Nat /\ LastQuiet \in Nat /\ LastIdle \in Nat
  BY Bounds
<1>2. left' \in Nat
  BY DEF Tick, TypeOK
<1>3. sincePing' \in 0 .. LastPing
  <2>1. sincePing \in Nat /\ sincePing' = Count(sincePing, LastPing)
    BY <1>1 DEF Tick, TypeOK
  <2> QED
    BY <1>1, <2>1, CountIs
<1>4. quiet' \in 0 .. LastQuiet
  <2>1. quiet \in 0 .. LastQuiet /\ quiet' \in {quiet, Count(quiet, LastQuiet)}
    BY <1>1 DEF Tick, TypeOK
  <2> QED
    BY <1>1, <2>1, CountIs
<1>5. gamma' \in Gamma
  <2>1. gamma.idle \in Nat /\ gamma.left \in Nat /\ gamma \in Gamma
    BY DEF TypeOK, Gamma
  <2>2. Count(gamma.idle, LastIdle) \in Nat
    BY <1>1, <2>1, CountIs
  <2>3. CASE gamma.stage \in {"sleep", "backoff"}
    <3>1. gamma' = [gamma EXCEPT !.left = gamma.left - 1,
                                 !.idle = Count(gamma.idle, LastIdle)]
      BY <2>3 DEF Tick
    <3>2. gamma.left - 1 \in Nat
      BY <2>1, <2>3 DEF Tick
    <3> QED
      BY <2>1, <2>2, <3>1, <3>2 DEF Gamma
  <2>4. CASE gamma.stage \notin {"sleep", "backoff"}
    BY <2>1, <2>4 DEF Tick
  <2> QED
    BY <2>3, <2>4
<1> QED
  BY <1>2, <1>3, <1>4, <1>5 DEF Tick, TypeOK

LEMMA TypeGamma ==
  ASSUME TypeOK, GammaStep \/ GammaHandlerFails
  PROVE  TypeOK'
<1>1. gamma \in Gamma /\ PollInterval \subseteq Nat /\ FirstBackoff \in Nat /\ BackoffMax \in Nat
  BY IngestionAssumption DEF TypeOK
<1>2. /\ UNCHANGED <<supervisor, stop>>
      /\ faults' = faults \/ (faults < MaxFaults /\ faults' = faults + 1)
  BY DEF GammaStep, GammaPolls, GammaBrings, GammaPollFails, GammaEnds, GammaSleeps,
         GammaHandlerFails, Fault
<1>3. gamma' \in Gamma
  <2>1. CASE GammaPolls \/ GammaBrings \/ GammaEnds \/ GammaHandlerFails
    <3>1. \/ \E to \in {"poll", "ended"} : gamma' = [gamma EXCEPT !.stage = to]
          \/ gamma' = [gamma EXCEPT !.stage = "handle", !.idle = 0]
      BY <2>1 DEF GammaPolls, GammaBrings, GammaEnds, GammaHandlerFails, GammaGoes
    <3>2. ASSUME NEW to \in {"poll", "ended"}, gamma' = [gamma EXCEPT !.stage = to]
          PROVE  gamma' \in Gamma
      BY <1>1, <3>2 DEF Gamma
    <3>3. ASSUME gamma' = [gamma EXCEPT !.stage = "handle", !.idle = 0]
          PROVE  gamma' \in Gamma
      BY <1>1, <3>3 DEF Gamma
    <3> QED
      BY <3>1, <3>2, <3>3
  <2>2. CASE GammaPollFails
    <3>1. NextBackoff(gamma.backoff) \in Nat
      BY <1>1, MinOfTwo DEF NextBackoff, Gamma
    <3> QED
      BY <1>1, <2>2, <3>1 DEF GammaPollFails, Gamma
  <2>3. ASSUME NEW p \in PollInterval, GammaSleeps(p)
        PROVE  gamma' \in Gamma
    BY <1>1, <2>3 DEF GammaSleeps, Gamma
  <2> QED
    BY <2>1, <2>2, <2>3 DEF GammaStep
<1>4. faults' \in 0 .. MaxFaults
  BY <1>2, IngestionAssumption DEF TypeOK
<1> QED
  BY <1>2, <1>3, <1>4 DEF supervisor, link, TypeOK

\* The steps that leave the memory, the history, the Gamma loop and stop_event alone.
Plain ==
  \/ Connect \/ Subscribe \/ ConnectionFails \/ LeaveLoop \/ AwaitMessage \/ PingFails
  \/ ReceiveTimesOut \/ ReceivePong \/ ReceiveUnsupported \/ ReceiveBroken
  \/ (\E e \in Event : ReceiveDuplicate(e))
  \/ Handled \/ HandlerFails \/ Close \/ CloseFails \/ PauseEnds \/ ServerFallsSilent

LEMMA StepCases ==
  ASSUME [Next]_vars
  PROVE  \/ Plain
         \/ \E e \in Event : ReceiveEvent(e)
         \/ Stop \/ Tick
         \/ GammaStep \/ GammaHandlerFails
         \/ UNCHANGED vars
  BY DEF Next, SupervisorStep, Plain

LEMMA PlainFrame ==
  ASSUME Plain
  PROVE  UNCHANGED <<seen, given, stop, gamma>>
  BY DEF Plain, Connect, Subscribe, ConnectionFails, LeaveLoop, AwaitMessage, PingFails,
         ReceiveTimesOut, ReceivePong, ReceiveUnsupported, ReceiveBroken, ReceiveDuplicate,
         Handled, HandlerFails, Close, CloseFails, PauseEnds, ServerFallsSilent, link

LEMMA TypePlain ==
  ASSUME TypeOK, Plain
  PROVE  TypeOK'
<1>1. /\ LastPing \in Nat /\ LastQuiet \in Nat
      /\ ReceiveTimeout \in Nat /\ Reconnect \in Nat /\ MaxFaults \in Nat
  BY Bounds, IngestionAssumption
<1>2. UNCHANGED <<seen, given, stop, gamma>>
  BY PlainFrame
<1>3. CASE Connect \/ Subscribe \/ LeaveLoop \/ AwaitMessage \/ ReceiveTimesOut \/ Handled
           \/ Close \/ CloseFails \/ PauseEnds
  <2>1. UNCHANGED faults
    BY <1>3 DEF Connect, Subscribe, LeaveLoop, AwaitMessage, ReceiveTimesOut, Handled, Close,
                CloseFails, PauseEnds
  <2>2. stage' \in Stage /\ left' \in Nat /\ fatal' \in BOOLEAN
    BY <1>1, <1>3 DEF Connect, Subscribe, LeaveLoop, AwaitMessage, ReceiveTimesOut, Handled,
                      Close, CloseFails, PauseEnds, Goes, Raise, Stage, TypeOK
  <2>3. awaiting' \in BOOLEAN /\ subscribed' \in BOOLEAN /\ silent' \in BOOLEAN
    BY <1>3, Zenon DEF Connect, Subscribe, LeaveLoop, AwaitMessage, ReceiveTimesOut, Handled,
                       Close, CloseFails, PauseEnds, link, TypeOK
  <2>4. sincePing' \in {sincePing, 0} /\ quiet' \in {quiet, 0}
    BY <1>3 DEF Connect, Subscribe, LeaveLoop, AwaitMessage, ReceiveTimesOut, Handled, Close,
                CloseFails, PauseEnds, link
  <2>5. sincePing' \in 0 .. LastPing /\ quiet' \in 0 .. LastQuiet
    BY <1>1, <2>4 DEF TypeOK
  <2> QED
    BY <1>2, <2>1, <2>2, <2>3, <2>5 DEF TypeOK
<1>4. CASE ConnectionFails \/ PingFails \/ HandlerFails \/ ServerFallsSilent
           \/ ReceiveBroken
  <2>1. faults' \in 0 .. MaxFaults
    BY <1>1, <1>4 DEF ConnectionFails, PingFails, HandlerFails, ServerFallsSilent,
                      ReceiveBroken, Fault, TypeOK
  <2>2. stage' \in Stage /\ left' \in Nat /\ fatal' \in BOOLEAN
    BY <1>4 DEF ConnectionFails, PingFails, HandlerFails, ServerFallsSilent, ReceiveBroken,
                Raise, Goes, Stage, TypeOK
  <2>3. awaiting' \in BOOLEAN /\ subscribed' \in BOOLEAN /\ silent' \in BOOLEAN
    BY <1>4, Zenon DEF ConnectionFails, PingFails, HandlerFails, ServerFallsSilent,
                       ReceiveBroken, link, TypeOK
  <2>4. sincePing' = sincePing /\ quiet' \in {quiet, 0}
    BY <1>4, Zenon DEF ConnectionFails, PingFails, HandlerFails, ServerFallsSilent,
                       ReceiveBroken, Receives, link
  <2>5. sincePing' \in 0 .. LastPing /\ quiet' \in 0 .. LastQuiet
    BY <1>1, <2>4 DEF TypeOK
  <2> QED
    BY <1>2, <2>1, <2>2, <2>3, <2>5 DEF TypeOK
<1>5. CASE ReceivePong \/ ReceiveUnsupported \/ \E e \in Event : ReceiveDuplicate(e)
  <2>1. stage' = "head" /\ quiet' = 0 /\ awaiting' \in {awaiting, FALSE}
    BY <1>5, Zenon DEF ReceivePong, ReceiveUnsupported, ReceiveDuplicate, Receives
  <2>2. UNCHANGED <<left, sincePing, subscribed, silent, fatal, faults>>
    BY <1>5 DEF ReceivePong, ReceiveUnsupported, ReceiveDuplicate
  <2>3. stage' \in Stage /\ quiet' \in 0 .. LastQuiet
    BY <1>1, <2>1 DEF Stage
  <2>4. awaiting' \in BOOLEAN
    BY <2>1, Zenon DEF TypeOK
  <2> QED
    BY <1>2, <2>2, <2>3, <2>4 DEF TypeOK
<1> QED
  BY <1>3, <1>4, <1>5 DEF Plain

LEMMA TypeEvent ==
  ASSUME TypeOK, NEW e \in Event, ReceiveEvent(e)
  PROVE  TypeOK'
<1>1. MaxSeen \in Nat \ {0} /\ MaxGiven \in Nat /\ LastQuiet \in Nat
  BY Bounds, IngestionAssumption
<1>2. seen \in Seq(Event) /\ Len(seen) \in Nat /\ Len(seen) <= MaxSeen
  BY DEF TypeOK
<1>3. /\ seen' \in Seq(Event)
      /\ Len(seen') = IF Len(seen) < MaxSeen THEN Len(seen) + 1 ELSE MaxSeen
      /\ \A i \in 1 .. Len(seen') :
           seen'[i] = IF i = Len(seen') THEN e ELSE seen[Len(seen) + 1 - Len(seen') + i]
  BY <1>2, RememberIs DEF ReceiveEvent
<1>4. \A i \in 1 .. Len(seen) : seen[i] # e
  BY <1>2 DEF ReceiveEvent, Remembers
<1>5. \A i, j \in 1 .. Len(seen') : seen'[i] = seen'[j] => i = j
  <2> SUFFICES ASSUME NEW i \in 1 .. Len(seen'), NEW j \in 1 .. Len(seen'),
                      seen'[i] = seen'[j]
               PROVE  i = j
    OBVIOUS
  <2> DEFINE old(k) == Len(seen) + 1 - Len(seen') + k
  <2>1. \A k \in 1 .. Len(seen') : k # Len(seen') =>
          old(k) \in 1 .. Len(seen) /\ seen'[k] = seen[old(k)]
    <3>1. Len(seen') \in 1 .. MaxSeen /\ Len(seen') \in Len(seen) .. Len(seen) + 1
      BY <1>1, <1>2, <1>3
    <3>2. \A k \in 1 .. Len(seen') : k # Len(seen') => old(k) \in 1 .. Len(seen)
      BY <1>2, <3>1
    <3> QED
      BY <1>3, <3>2
  <2>2. seen'[Len(seen')] = e /\ Len(seen') \in 1 .. Len(seen')
    <3>1. Len(seen') \in Nat /\ Len(seen') >= 1
      BY <1>1, <1>2, <1>3
    <3> QED
      BY <1>3, <3>1
  <2>3. CASE i = Len(seen') \/ j = Len(seen')
    BY <1>4, <2>1, <2>2, <2>3
  <2>4. CASE i # Len(seen') /\ j # Len(seen')
    <3>1. old(i) = old(j)
      <4>1. \A k, l \in 1 .. Len(seen) : seen[k] = seen[l] => k = l
        BY DEF TypeOK
      <4>2. old(i) \in 1 .. Len(seen) /\ old(j) \in 1 .. Len(seen)
            /\ seen[old(i)] = seen[old(j)]
        BY <2>1, <2>4
      <4> HIDE DEF old
      <4> QED
        BY <4>1, <4>2
    <3> QED
      BY <1>1, <1>2, <1>3, <3>1
  <2> QED
    BY <2>3, <2>4
<1>6. given' \in Seq(Event) /\ Len(given') <= MaxGiven
  BY <1>1 DEF ReceiveEvent, TypeOK
<1>7. stage' \in Stage /\ quiet' \in 0 .. LastQuiet
  BY <1>1 DEF ReceiveEvent, Receives, Stage
<1>8. Len(seen') <= MaxSeen
  BY <1>1, <1>2, <1>3
<1>9. /\ UNCHANGED <<left, awaiting, sincePing, subscribed, silent, fatal, stop, gamma, faults>>
      /\ DOMAIN seen' = 1 .. Len(seen')
  BY <1>3 DEF ReceiveEvent
<1> QED
  BY <1>3, <1>5, <1>6, <1>7, <1>8, <1>9 DEF TypeOK

LEMMA TypeStep == TypeOK /\ [Next]_vars => TypeOK'
<1> SUFFICES ASSUME TypeOK, [Next]_vars PROVE TypeOK'
  OBVIOUS
<1>1. CASE Stop
  BY <1>1 DEF Stop, link, TypeOK
<1>2. CASE UNCHANGED vars
  BY <1>2 DEF vars, link, TypeOK
<1> QED
  BY <1>1, <1>2, StepCases, TypePlain, TypeEvent, TypeTick, TypeGamma

\* Every variable keeps its type, and the memory its size and its distinct ids: the deque
\* and the set of supervisor.py never come apart.
THEOREM TypeCorrect == Spec => []TypeOK
<1> QED
  BY TypeInit, TypeStep, PTL DEF Spec

-----------------------------------------------------------------------------
(* The memory of ids. *)

LEMMA WindowInit == Init => WindowInv
  BY IngestionAssumption DEF Init, WindowInv

\* Only an event that is handed over changes the memory or the history.
LEMMA OnlyEventsChange ==
  ASSUME [Next]_vars
  PROVE  UNCHANGED <<seen, given>> \/ \E e \in Event : ReceiveEvent(e)
<1>1. CASE Stop \/ Tick \/ GammaHandlerFails
  BY <1>1 DEF Stop, Tick, GammaHandlerFails, supervisor
<1>2. CASE GammaStep
  BY <1>2 DEF GammaStep, GammaPolls, GammaBrings, GammaPollFails, GammaEnds, GammaSleeps,
              supervisor
<1>3. CASE UNCHANGED vars
  BY <1>3 DEF vars
<1> QED
  BY <1>1, <1>2, <1>3, StepCases, PlainFrame

LEMMA WindowStep == TypeOK /\ WindowInv /\ [Next]_vars => WindowInv'
<1> SUFFICES ASSUME TypeOK, WindowInv, [Next]_vars PROVE WindowInv'
  OBVIOUS
<1>1. CASE UNCHANGED <<seen, given>>
  BY <1>1 DEF WindowInv
<1>2. ASSUME NEW e \in Event, ReceiveEvent(e)
      PROVE  WindowInv'
  <2>1. /\ MaxSeen \in Nat \ {0} /\ given \in Seq(Event) /\ Len(given) \in Nat
        /\ seen \in Seq(Event) /\ Len(seen) \in Nat /\ Len(seen) <= MaxSeen
    BY IngestionAssumption DEF TypeOK
  <2>2. /\ Len(given') = Len(given) + 1 /\ given'[Len(given) + 1] = e
        /\ \A i \in 1 .. Len(given) : given'[i] = given[i]
    BY <1>2, <2>1 DEF ReceiveEvent
  <2>3. /\ Len(seen') = IF Len(seen) < MaxSeen THEN Len(seen) + 1 ELSE MaxSeen
        /\ \A i \in 1 .. Len(seen') :
             seen'[i] = IF i = Len(seen') THEN e ELSE seen[Len(seen) + 1 - Len(seen') + i]
    BY <1>2, <2>1, RememberIs DEF ReceiveEvent
  <2>4. /\ Len(seen) = IF Len(given) < MaxSeen THEN Len(given) ELSE MaxSeen
        /\ \A i \in 1 .. Len(seen) : seen[i] = given[Len(given) - Len(seen) + i]
    BY DEF WindowInv
  <2>5. Len(seen') = IF Len(given') < MaxSeen THEN Len(given') ELSE MaxSeen
    BY <2>1, <2>2, <2>3, <2>4
  <2>6. ASSUME NEW i \in 1 .. Len(seen')
        PROVE  seen'[i] = given'[Len(given') - Len(seen') + i]
    <3>1. Len(seen') \in Nat
      BY <2>1, <2>3
    <3>2. CASE i = Len(seen')
      <4>1. Len(given') - Len(seen') + i = Len(given) + 1
        BY <2>1, <2>2, <3>1, <3>2
      <4> QED
        BY <2>2, <2>3, <3>2, <4>1
    <3>3. CASE i # Len(seen')
      <4> DEFINE k == Len(seen) + 1 - Len(seen') + i
                 n == Len(given') - Len(seen') + i
      <4>1. k \in 1 .. Len(seen) /\ n = Len(given) - Len(seen) + k /\ n \in 1 .. Len(given)
        <5>1. /\ Len(given) \in Nat /\ Len(given') = Len(given) + 1
              /\ Len(seen) \in Nat /\ Len(seen) <= Len(given)
              /\ Len(seen') \in Len(seen) .. Len(seen) + 1
          BY <2>1, <2>2, <2>3, <2>4, <3>1
        <5>2. i \in Nat /\ 1 <= i /\ i < Len(seen')
          BY <3>1, <3>3
        <5> QED
          BY <5>1, <5>2
      <4>2. seen'[i] = seen[k]
        BY <2>3, <3>3
      <4> HIDE DEF k, n
      <4>3. seen[k] = given[n] /\ given'[n] = given[n]
        BY <2>2, <2>4, <4>1
      <4> QED
        BY <4>2, <4>3 DEF n
    <3> QED
      BY <3>2, <3>3
  <2> QED
    BY <2>5, <2>6 DEF WindowInv
<1> QED
  BY <1>1, <1>2, OnlyEventsChange

LEMMA WindowAlways == Spec => [](TypeOK /\ WindowInv)
<1>1. Init => TypeOK /\ WindowInv
  BY TypeInit, WindowInit
<1>2. (TypeOK /\ WindowInv) /\ [Next]_vars => (TypeOK /\ WindowInv)'
  BY TypeStep, WindowStep
<1> QED
  BY <1>1, <1>2, PTL DEF Spec

\* The events remembered are the recent ones.
LEMMA RecentIsRemembered ==
  ASSUME TypeOK, WindowInv, NEW e
  PROVE  Recent(e) <=> Remembers(e)
<1>1. /\ MaxSeen \in Nat \ {0} /\ Len(given) \in Nat /\ Len(seen) \in Nat
      /\ DOMAIN given = 1 .. Len(given) /\ DOMAIN seen = 1 .. Len(seen)
  BY IngestionAssumption DEF TypeOK
<1>2. /\ Len(seen) = IF Len(given) < MaxSeen THEN Len(given) ELSE MaxSeen
      /\ \A i \in 1 .. Len(seen) : seen[i] = given[Len(given) - Len(seen) + i]
  BY DEF WindowInv
<1>3. ASSUME Recent(e) PROVE Remembers(e)
  <2>1. PICK i \in 1 .. Len(given) : given[i] = e /\ Len(given) - i < MaxSeen
    BY <1>1, <1>3 DEF Recent
  <2> DEFINE k == i - Len(given) + Len(seen)
  <2>2. k \in 1 .. Len(seen) /\ Len(given) - Len(seen) + k = i
    <3>1. i \in Nat /\ 1 <= i /\ i <= Len(given) /\ Len(given) - i < MaxSeen
      BY <1>1, <2>1
    <3>2. MaxSeen \in Nat /\ Len(given) \in Nat /\ Len(seen) \in Nat
      BY <1>1
    <3>3. CASE Len(seen) = Len(given)
      BY <3>1, <3>3
    <3>4. CASE Len(seen) = MaxSeen /\ MaxSeen <= Len(given)
      BY <3>1, <3>2, <3>4
    <3>5. Len(seen) = Len(given) \/ (Len(seen) = MaxSeen /\ MaxSeen <= Len(given))
      BY <1>2, <3>2
    <3> QED
      BY <3>3, <3>4, <3>5
  <2> HIDE DEF k
  <2> QED
    BY <1>1, <1>2, <2>1, <2>2 DEF Remembers
<1>4. ASSUME Remembers(e) PROVE Recent(e)
  <2>1. PICK k \in 1 .. Len(seen) : seen[k] = e
    BY <1>1, <1>4 DEF Remembers
  <2> DEFINE i == Len(given) - Len(seen) + k
  <2>2. i \in 1 .. Len(given) /\ Len(given) - i < MaxSeen
    <3>1. k \in Nat /\ 1 <= k /\ k <= Len(seen)
      BY <1>1
    <3>2. Len(seen) = IF Len(given) < MaxSeen THEN Len(given) ELSE MaxSeen
      BY <1>2
    <3> QED
      BY <1>1, <3>1, <3>2
  <2>3. seen[k] = given[i]
    BY <1>2
  <2> HIDE DEF i
  <2> QED
    BY <1>1, <2>1, <2>2, <2>3 DEF Recent
<1> QED
  BY <1>3, <1>4

LEMMA WindowAction ==
  ASSUME TypeOK, WindowInv, [Next]_vars, NEW e \in Event
  PROVE  /\ given' = Append(given, e) => ~Recent(e)
         /\ ReceiveDuplicate(e) => Recent(e)
<1>1. given \in Seq(Event)
  BY DEF TypeOK
<1>2. ASSUME given' = Append(given, e) PROVE ~Remembers(e)
  <2>1. ~UNCHANGED <<seen, given>>
    <3>1. Len(Append(given, e)) = Len(given) + 1 /\ Len(given) \in Nat
      BY <1>1
    <3> QED
      BY <1>2, <3>1
  <2>2. PICK f \in Event : ReceiveEvent(f)
    BY <2>1, OnlyEventsChange
  <2>3. given' = Append(given, f)
    BY <2>2 DEF ReceiveEvent
  <2>4. e = f
    <3>1. Append(given, e)[Len(given) + 1] = e /\ Append(given, f)[Len(given) + 1] = f
      BY <1>1
    <3> QED
      BY <1>2, <2>3, <3>1
  <2> QED
    BY <2>2, <2>4 DEF ReceiveEvent
<1>3. ReceiveDuplicate(e) => Remembers(e)
  BY DEF ReceiveDuplicate
<1> QED
  BY <1>2, <1>3, RecentIsRemembered

\* For every size of the memory: an event is handed over again only when MaxSeen others
\* were in between, and one dropped as a duplicate was among the last MaxSeen.
THEOREM WindowIsExact == Spec => WindowExact
<1>1. TypeOK /\ WindowInv /\ [Next]_vars =>
        [\A e \in Event :
           /\ given' = Append(given, e) => ~Recent(e)
           /\ ReceiveDuplicate(e) => Recent(e)]_vars
  BY WindowAction
<1> QED
  BY <1>1, WindowAlways, PTL DEF Spec, WindowExact

-----------------------------------------------------------------------------
(* The pace of the Gamma loop. *)

LEMMA PaceInit == Init => PaceInv
<1> SUFFICES ASSUME Init PROVE PaceInv
  OBVIOUS
<1>1. PICK p \in PollInterval :
        gamma = [stage |-> "sleep", left |-> p, backoff |-> FirstBackoff, idle |-> 0]
  BY DEF Init
<1>2. p \in Nat /\ p <= LongestPoll /\ LongestPoll \in Nat /\ LongestBackoff \in Nat
      /\ FirstBackoff <= LongestBackoff
  BY Bounds, IngestionAssumption
<1> QED
  BY <1>1, <1>2 DEF PaceInv

LEMMA PaceGamma ==
  ASSUME TypeOK, PaceInv, GammaStep \/ GammaHandlerFails
  PROVE  PaceInv'
<1>1. /\ gamma \in Gamma /\ gamma.idle \in Nat /\ gamma.left \in Nat /\ gamma.backoff \in Nat
      /\ PollInterval \subseteq Nat /\ \A p \in PollInterval : p <= LongestPoll
      /\ LongestPoll \in Nat /\ LongestBackoff \in Nat /\ BackoffMax \in Nat
      /\ FirstBackoff <= LongestBackoff /\ BackoffMax <= LongestBackoff
  BY Bounds, IngestionAssumption DEF TypeOK, Gamma
<1>2. ASSUME NEW to \in {"poll", "ended"}, gamma' = [gamma EXCEPT !.stage = to]
      PROVE  PaceInv'
  <2>1. gamma'.stage = to /\ gamma'.backoff = gamma.backoff
    BY <1>1, <1>2 DEF Gamma
  <2> QED
    BY <2>1 DEF PaceInv
<1>3. CASE GammaPolls \/ GammaEnds \/ GammaHandlerFails
  <2>1. \E to \in {"poll", "ended"} : gamma' = [gamma EXCEPT !.stage = to]
    BY <1>3 DEF GammaPolls, GammaEnds, GammaHandlerFails, GammaGoes
  <2> QED
    BY <1>2, <2>1
<1>4. CASE GammaBrings
  <2>1. gamma'.stage = "handle" /\ gamma'.backoff = gamma.backoff /\ gamma'.idle = 0
    BY <1>1, <1>4 DEF GammaBrings, Gamma
  <2> QED
    BY <2>1 DEF PaceInv
<1>5. CASE GammaPollFails
  <2>1. NextBackoff(gamma.backoff) <= BackoffMax
    BY <1>1, MinOfTwo DEF NextBackoff
  <2>2. NextBackoff(gamma.backoff) \in Nat
    BY <1>1, MinOfTwo DEF NextBackoff
  <2>3. /\ gamma'.stage = "backoff" /\ gamma'.left = gamma.backoff /\ gamma'.idle = 0
        /\ gamma'.backoff = NextBackoff(gamma.backoff)
    BY <1>5 DEF GammaPollFails
  <2> QED
    BY <1>1, <2>1, <2>2, <2>3 DEF PaceInv
<1>6. ASSUME NEW p \in PollInterval, GammaSleeps(p)
      PROVE  PaceInv'
  <2>1. /\ gamma'.stage = "sleep" /\ gamma'.left = p /\ gamma'.idle = gamma.idle
        /\ gamma'.backoff \in {gamma.backoff, FirstBackoff}
        /\ (gamma.stage = "backoff" /\ gamma.left = 0) \/ gamma.stage = "handle"
    BY <1>1, <1>6 DEF GammaSleeps, Gamma
  <2>2. gamma.idle <= LongestBackoff
    BY <1>1, <2>1 DEF PaceInv
  <2>3. gamma'.backoff <= LongestBackoff
    BY <1>1, <2>1 DEF PaceInv
  <2>4. p \in Nat /\ p <= LongestPoll
    BY <1>1
  <2> QED
    BY <1>1, <2>1, <2>2, <2>3, <2>4 DEF PaceInv
<1> QED
  BY <1>3, <1>4, <1>5, <1>6 DEF GammaStep

LEMMA PaceTick ==
  ASSUME TypeOK, PaceInv, Tick
  PROVE  PaceInv'
<1>1. /\ gamma \in Gamma /\ gamma.idle \in Nat /\ gamma.left \in Nat
      /\ LastIdle \in Nat /\ LongestPoll \in Nat /\ LongestBackoff \in Nat
  BY Bounds DEF TypeOK, Gamma
<1>2. CASE gamma.stage \in {"sleep", "backoff"}
  <2>1. /\ gamma'.stage = gamma.stage /\ gamma'.backoff = gamma.backoff
        /\ gamma'.left = gamma.left - 1 /\ gamma'.idle = Count(gamma.idle, LastIdle)
        /\ gamma.left > 0
    BY <1>1, <1>2 DEF Tick, Gamma
  <2>2. Count(gamma.idle, LastIdle) \in Nat /\ Count(gamma.idle, LastIdle) <= gamma.idle + 1
    BY <1>1, CountIs
  <2>3. gamma'.idle + gamma'.left <= gamma.idle + gamma.left
    BY <1>1, <2>1, <2>2
  <2> QED
    BY <1>1, <1>2, <2>1, <2>2, <2>3 DEF PaceInv
<1>3. CASE gamma.stage \notin {"sleep", "backoff"}
  BY <1>3 DEF Tick, PaceInv
<1> QED
  BY <1>2, <1>3

LEMMA PaceStep == TypeOK /\ PaceInv /\ [Next]_vars => PaceInv'
<1> SUFFICES ASSUME TypeOK, PaceInv, [Next]_vars PROVE PaceInv'
  OBVIOUS
<1>1. CASE UNCHANGED gamma
  BY <1>1 DEF PaceInv
<1>2. CASE Plain \/ Stop \/ (\E e \in Event : ReceiveEvent(e)) \/ UNCHANGED vars
  BY <1>1, <1>2, PlainFrame DEF Stop, ReceiveEvent, vars
<1> QED
  BY <1>2, StepCases, PaceGamma, PaceTick

\* However many polls failed in a row, the next one is not further away than the longest
\* interval and the largest back-off, whatever these are.
THEOREM PaceIsKept == Spec => []GammaPace
<1>1. TypeOK /\ PaceInv => GammaPace
  <2> SUFFICES ASSUME TypeOK, PaceInv, gamma.stage \in {"sleep", "backoff"}
               PROVE  gamma.idle + gamma.left <= LongestPoll + LongestBackoff
    BY DEF GammaPace, LongestPoll, LongestBackoff
  <2>1. /\ gamma.idle \in Nat /\ gamma.left \in Nat
        /\ LongestPoll \in Nat /\ LongestBackoff \in Nat
    BY Bounds DEF TypeOK, Gamma
  <2> QED
    BY <2>1 DEF PaceInv
<1>2. Init => TypeOK /\ PaceInv
  BY TypeInit, PaceInit
<1>3. (TypeOK /\ PaceInv) /\ [Next]_vars => (TypeOK /\ PaceInv)'
  BY TypeStep, PaceStep
<1> QED
  BY <1>1, <1>2, <1>3, PTL DEF Spec

-----------------------------------------------------------------------------
(* Silence. *)

LEMMA SilenceInit == Init => SilenceInv
<1> SUFFICES ASSUME Init PROVE SilenceInv
  OBVIOUS
<1>1. awaiting = FALSE /\ sincePing = 0 /\ quiet = 0 /\ stage = "connect"
  BY DEF Init
<1> QED
  BY <1>1 DEF SilenceInv

\* What the silence proofs use of the types and the constants.
LEMMA SilenceTypes ==
  ASSUME TypeOK
  PROVE  /\ left \in Nat /\ sincePing \in Nat /\ quiet \in Nat
         /\ LastPing \in Nat /\ PingInterval < LastPing /\ PongTimeout < LastPing
         /\ PingInterval \in Nat /\ PongTimeout \in Nat /\ ReceiveTimeout \in Nat \ {0}
         /\ LastUnasked \in Nat /\ LastUnasked = PingInterval + ReceiveTimeout - 1
         /\ LastUnanswered = LastUnasked + PongTimeout + ReceiveTimeout
<1>1. /\ LastPing \in Nat /\ PingInterval < LastPing /\ PongTimeout < LastPing
      /\ PingInterval \in Nat /\ PongTimeout \in Nat /\ ReceiveTimeout \in Nat \ {0}
      /\ LastQuiet \in Nat
  BY Bounds, IngestionAssumption
<1>2. left \in Nat /\ sincePing \in Nat /\ quiet \in Nat
  BY <1>1 DEF TypeOK
<1> QED
  BY <1>1, <1>2 DEF LastUnasked, LastUnanswered

\* The steps that hear something or leave the loop of a connection.
LEMMA SilenceElsewhere ==
  ASSUME TypeOK, SilenceInv, Plain, ~AwaitMessage, ~ReceiveTimesOut
  PROVE  SilenceInv'
<1>1. CASE Subscribe \/ ReceivePong \/ ReceiveUnsupported \/ ReceiveBroken
           \/ \E e \in Event : ReceiveDuplicate(e)
  <2>1. quiet' = 0 /\ stage' \in {"head", "close"}
    BY <1>1 DEF Subscribe, ReceivePong, ReceiveUnsupported, ReceiveBroken, ReceiveDuplicate,
                Receives, Raise, Goes
  <2>2. sincePing' \in Nat
    BY TypePlain, Bounds DEF TypeOK
  <2> QED
    BY <2>1, <2>2, SilenceTypes DEF SilenceInv
<1>2. CASE Connect \/ ConnectionFails \/ LeaveLoop \/ PingFails \/ HandlerFails \/ Close
           \/ CloseFails \/ PauseEnds
  <2>1. /\ UNCHANGED <<awaiting, sincePing, quiet>>
        /\ stage' \in {"connect", "subscribe", "close", "backoff", "ended"}
    BY <1>2 DEF Connect, ConnectionFails, LeaveLoop, PingFails, HandlerFails, Close,
                CloseFails, PauseEnds, Raise, Goes, link
  <2> QED
    BY <2>1 DEF SilenceInv
<1>3. CASE Handled
  BY <1>3 DEF Handled, Goes, link, SilenceInv
<1>4. CASE ServerFallsSilent
  BY <1>4 DEF ServerFallsSilent, SilenceInv
<1> QED
  BY <1>1, <1>2, <1>3, <1>4 DEF Plain

\* A receive begins: a ping that is not due was sent less than an interval ago.
LEMMA SilenceAwait ==
  ASSUME TypeOK, SilenceInv, AwaitMessage
  PROVE  SilenceInv'
<1>1. stage = "head" /\ stage' = "receive" /\ left' = ReceiveTimeout /\ quiet' = quiet
  BY DEF AwaitMessage, Goes
<1>2. CASE PingDue
  <2>1. ~awaiting /\ awaiting' /\ sincePing' = 0
    BY <1>2 DEF AwaitMessage, PingDue
  <2>2. quiet <= LastUnasked
    BY <1>1, <2>1, SilenceTypes DEF SilenceInv
  <2> QED
    BY <1>1, <2>1, <2>2, SilenceTypes DEF SilenceInv
<1>3. CASE ~PingDue /\ ~awaiting
  <2>1. ~awaiting' /\ sincePing' = sincePing /\ sincePing < PingInterval
    <3>1. ~awaiting' /\ sincePing' = sincePing
      BY <1>3, Zenon DEF AwaitMessage
    <3>2. ~(sincePing >= PingInterval)
      BY <1>3 DEF PingDue
    <3> QED
      BY <3>1, <3>2, SilenceTypes
  <2>2. quiet <= sincePing
    BY <1>3, <2>1, SilenceTypes DEF SilenceInv
  <2> QED
    BY <1>1, <2>1, <2>2, SilenceTypes DEF SilenceInv
<1>4. CASE ~PingDue /\ awaiting
  <2>1. awaiting' /\ sincePing' = sincePing
    BY <1>4 DEF AwaitMessage
  <2>2. quiet <= LastUnasked + PongTimeout
    <3>1. CASE quiet = 0
      BY <3>1, SilenceTypes
    <3>2. CASE sincePing <= PongTimeout
      BY <1>4, <3>2, SilenceTypes DEF SilenceInv
    <3> QED
      BY <1>1, <1>4, <3>1, <3>2 DEF SilenceInv
  <2> QED
    BY <1>1, <1>4, <2>1, <2>2, SilenceTypes DEF SilenceInv
<1> QED
  BY <1>2, <1>3, <1>4

\* A receive ends without a message: the heartbeat is looked at.
LEMMA SilenceTimesOut ==
  ASSUME TypeOK, SilenceInv, ReceiveTimesOut
  PROVE  SilenceInv'
<1>1. /\ stage = "receive" /\ left = 0 /\ UNCHANGED <<awaiting, sincePing, quiet>>
      /\ stage' = "close" \/ (stage' = "head" /\ ~(awaiting /\ sincePing > PongTimeout))
  BY DEF ReceiveTimesOut, Raise, link
<1>2. ~awaiting => quiet <= LastUnasked
  BY <1>1, SilenceTypes DEF SilenceInv
<1> QED
  BY <1>1, <1>2, SilenceTypes DEF SilenceInv

LEMMA SilenceTick ==
  ASSUME TypeOK, SilenceInv, Tick
  PROVE  SilenceInv'
<1>1. /\ UNCHANGED <<stage, awaiting>> /\ stage # "head"
      /\ sincePing' = Count(sincePing, LastPing)
  BY DEF Tick
<1>2. sincePing' # LastPing => sincePing' = sincePing + 1 /\ sincePing # LastPing
  BY <1>1, CountIs, SilenceTypes
<1>3. CASE stage = "receive"
  <2>1. left > 0 /\ left' = left - 1 /\ quiet' = Count(quiet, LastQuiet)
    BY <1>3 DEF Tick
  <2>2. quiet' \in Nat /\ quiet' <= quiet + 1
    BY <2>1, CountIs, SilenceTypes, Bounds
  <2>3. quiet' + left' <= quiet + left
    BY <2>1, <2>2, SilenceTypes
  <2>4. sincePing' # LastPing =>
          quiet' <= IF awaiting' THEN LastUnasked + sincePing' ELSE sincePing'
    BY <1>1, <1>2, <2>2, SilenceTypes DEF SilenceInv
  <2>5. quiet' + left' <= IF awaiting' THEN LastUnanswered ELSE LastUnasked
    <3>1. left' \in Nat
      BY <2>1, SilenceTypes
    <3> QED
      BY <1>1, <1>3, <2>2, <2>3, <3>1, SilenceTypes DEF SilenceInv
  <2> QED
    BY <1>1, <1>3, <2>4, <2>5 DEF SilenceInv
<1>4. CASE stage # "receive"
  <2>1. quiet' = quiet
    BY <1>4 DEF Tick
  <2>2. sincePing' # LastPing =>
          quiet' <= IF awaiting' THEN LastUnasked + sincePing' ELSE sincePing'
    BY <1>1, <1>2, <2>1, SilenceTypes DEF SilenceInv
  <2> QED
    BY <1>1, <1>4, <2>1, <2>2 DEF SilenceInv
<1> QED
  BY <1>3, <1>4

LEMMA SilenceStep == TypeOK /\ SilenceInv /\ [Next]_vars => SilenceInv'
<1> SUFFICES ASSUME TypeOK, SilenceInv, [Next]_vars PROVE SilenceInv'
  OBVIOUS
<1>1. CASE Stop \/ GammaStep \/ GammaHandlerFails \/ UNCHANGED vars
  <2>1. UNCHANGED <<stage, left, awaiting, sincePing, quiet>>
    BY <1>1 DEF Stop, GammaStep, GammaHandlerFails, GammaPolls, GammaBrings, GammaPollFails,
                GammaEnds, GammaSleeps, supervisor, link, vars
  <2> QED
    BY <2>1 DEF SilenceInv
<1>2. ASSUME NEW e \in Event, ReceiveEvent(e)
      PROVE  SilenceInv'
  <2>1. quiet' = 0 /\ stage' = "handle" /\ sincePing' = sincePing
    BY <1>2 DEF ReceiveEvent, Receives
  <2> QED
    BY <2>1, SilenceTypes DEF SilenceInv
<1> QED
  BY <1>1, <1>2, StepCases, SilenceElsewhere, SilenceAwait, SilenceTimesOut, SilenceTick

\* For all timeouts: a connection on which nothing arrives is given up within a ping
\* interval, a pong timeout and two receive timeouts, whether a ping was under way or not.
THEOREM SilenceIsBounded == Spec => []SilenceBounded
<1>1. TypeOK /\ SilenceInv => SilenceBounded
  <2> SUFFICES ASSUME TypeOK, SilenceInv, stage = "receive"
               PROVE  quiet < PingInterval + PongTimeout + 2 * ReceiveTimeout
    BY DEF SilenceBounded
  <2>1. quiet <= LastUnanswered
    BY SilenceTypes DEF SilenceInv
  <2> QED
    BY <2>1, SilenceTypes
<1>2. Init => TypeOK /\ SilenceInv
  BY TypeInit, SilenceInit
<1>3. (TypeOK /\ SilenceInv) /\ [Next]_vars => (TypeOK /\ SilenceInv)'
  BY TypeStep, SilenceStep
<1> QED
  BY <1>1, <1>2, <1>3, PTL DEF Spec

=============================================================================
