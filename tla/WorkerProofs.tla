---------------------------- MODULE WorkerProofs ----------------------------
(***************************************************************************)
(* Theorems about Worker, for any rule sets and alerts, any number of      *)
(* changes and batches of any size.                                        *)
(***************************************************************************)
EXTENDS Worker, TLAPS

\* The notification being handled is one that was sent, and the rules read for it are
\* at least as recent.
ServesInv ==
  /\ reload.serves \in 0 .. changes
  /\ reload.stage \in {"alerts", "waiting"} => reload.serves <= reload.asOf
  /\ reload.stage \notin {"rules", "alerts", "waiting"} => reload.serves = 0

\* The listener and the Gamma loop start after the bootstrap.
BootInv ==
  /\ phase # "boot" => task["boot"].stage = "done"
  /\ phase = "boot" => reload.stage = "off" /\ task["gamma"].stage = "off"

\* The rules being loaded are at least as recent as those in use.
AgeInv ==
  /\ loaded.asOf <= changes
  /\ reload.stage \in {"alerts", "waiting"} =>
       loaded.asOf <= reload.asOf /\ reload.asOf <= changes

\* The inductive form of TypeOK.
TypeInv == TypeOK /\ ServesInv /\ BootInv

\* A batch that has been evaluated in part, or whose decision is being dispatched, has the
\* lock, and so nothing was swapped since it began.
HolderInv ==
  \A t \in Task :
    /\ task[t].seen \subseteq {loaded}
    /\ task[t].seen # {} \/ task[t].stage = "sending" => Holds(t)

-----------------------------------------------------------------------------
(* The lock's line. *)

\* Whoever is not in line joins its end, and leaves its head where it is.
LEMMA Joins ==
  ASSUME NEW q, NEW S, IsLine(q, S), NEW x \in Member, x \notin S
  PROVE  /\ IsLine(Acquire(q, x), S \cup {x})
         /\ q # <<>> => Acquire(q, x) # <<>> /\ Head(Acquire(q, x)) = Head(q)
<1> DEFINE r == Append(q, x)
<1>1. /\ q \in Seq(Member) /\ r \in Seq(Member) /\ Len(q) \in Nat
      /\ DOMAIN q = 1 .. Len(q) /\ DOMAIN r = 1 .. Len(q) + 1
      /\ \A i \in 1 .. Len(q) : r[i] = q[i]
      /\ r[Len(q) + 1] = x
  BY DEF IsLine
<1>2. \A i \in 1 .. Len(q) : q[i] \in S
  BY <1>1 DEF IsLine
<1> HIDE DEF r
<1>3. \A i, j \in DOMAIN r : r[i] = r[j] => i = j
  <2> SUFFICES ASSUME NEW i \in 1 .. Len(q) + 1, NEW j \in 1 .. Len(q) + 1, r[i] = r[j]
               PROVE  i = j
    BY <1>1
  <2>1. CASE i \in 1 .. Len(q) /\ j \in 1 .. Len(q)
    BY <1>1, <2>1 DEF IsLine
  <2>2. CASE i = Len(q) + 1 /\ j \in 1 .. Len(q)
    BY <1>1, <1>2, <2>2
  <2>3. CASE i \in 1 .. Len(q) /\ j = Len(q) + 1
    BY <1>1, <1>2, <2>3
  <2> QED
    BY <1>1, <2>1, <2>2, <2>3
<1>4. {r[i] : i \in DOMAIN r} = S \cup {x}
  <2>1. ASSUME NEW y \in S PROVE \E i \in DOMAIN r : r[i] = y
    <3>1. PICK i \in 1 .. Len(q) : q[i] = y
      BY <1>1 DEF IsLine
    <3> QED
      BY <1>1, <3>1
  <2>2. ASSUME NEW i \in DOMAIN r PROVE r[i] \in S \cup {x}
    BY <1>1, <1>2
  <2>3. Len(q) + 1 \in DOMAIN r
    BY <1>1
  <2> QED
    BY <1>1, <2>1, <2>2, <2>3
<1>5. q # <<>> => r # <<>> /\ Head(r) = Head(q)
  BY <1>1 DEF r
<1> QED
  BY <1>1, <1>3, <1>4, <1>5 DEF IsLine, Acquire, r

\* The holder gives the lock back.
LEMMA Leaves ==
  ASSUME NEW q, NEW S, IsLine(q, S), q # <<>>
  PROVE  IsLine(Tail(q), S \ {Head(q)}) /\ Head(q) \in S
<1> DEFINE r == Tail(q)
<1>1. /\ q \in Seq(Member) /\ r \in Seq(Member) /\ Len(q) \in Nat \ {0}
      /\ DOMAIN q = 1 .. Len(q) /\ DOMAIN r = 1 .. Len(q) - 1
      /\ \A i \in 1 .. Len(q) - 1 : r[i] = q[i + 1]
      /\ Head(q) = q[1]
  BY DEF IsLine
<1> HIDE DEF r
<1>2. \A i, j \in DOMAIN r : r[i] = r[j] => i = j
  <2> SUFFICES ASSUME NEW i \in 1 .. Len(q) - 1, NEW j \in 1 .. Len(q) - 1, r[i] = r[j]
               PROVE  i = j
    BY <1>1
  <2>1. i + 1 \in DOMAIN q /\ j + 1 \in DOMAIN q /\ q[i + 1] = q[j + 1]
    BY <1>1
  <2>2. i + 1 = j + 1
    BY <2>1 DEF IsLine
  <2> QED
    BY <2>2
<1>3. {r[i] : i \in DOMAIN r} = S \ {Head(q)}
  <2>1. ASSUME NEW y \in S, y # Head(q) PROVE \E i \in DOMAIN r : r[i] = y
    <3>1. PICK i \in 1 .. Len(q) : q[i] = y
      BY <1>1 DEF IsLine
    <3>2. i # 1 /\ i - 1 \in 1 .. Len(q) - 1 /\ (i - 1) + 1 = i
      BY <1>1, <2>1, <3>1
    <3>3. i - 1 \in DOMAIN r /\ r[i - 1] = q[i]
      BY <1>1, <3>2
    <3> QED
      BY <3>1, <3>3
  <2>2. ASSUME NEW i \in DOMAIN r PROVE r[i] \in S \ {Head(q)}
    <3>1. i + 1 \in DOMAIN q /\ 1 \in DOMAIN q /\ i + 1 # 1 /\ r[i] = q[i + 1]
      BY <1>1, <2>2
    <3> QED
      BY <1>1, <3>1 DEF IsLine
  <2> QED
    BY <2>1, <2>2
<1>4. Head(q) \in S
  BY <1>1 DEF IsLine
<1> QED
  BY <1>1, <1>2, <1>3, <1>4 DEF IsLine, r

\* Whoever is cancelled leaves the line, wherever it stands; a holder keeps the lock.
LEMMA Withdraws ==
  ASSUME NEW q, NEW S, IsLine(q, S), NEW x
  PROVE  /\ IsLine(Without(q, x), S \ {x})
         /\ q # <<>> /\ Head(q) # x
              => Without(q, x) # <<>> /\ Head(Without(q, x)) = Head(q)
<1>1. /\ q \in Seq(Member) /\ Len(q) \in Nat /\ DOMAIN q = 1 .. Len(q)
      /\ \A k \in 1 .. Len(q) : q[k] \in Member
  BY DEF IsLine
<1>2. CASE ~ \E k \in DOMAIN q : q[k] = x
  <2>1. x \notin S
    BY <1>2 DEF IsLine
  <2> QED
    BY <1>2, <2>1 DEF IsLine, Without
<1>3. CASE \E k \in DOMAIN q : q[k] = x
  <2> DEFINE n == CHOOSE j \in DOMAIN q : q[j] = x
             r == [j \in 1 .. Len(q) - 1 |-> IF j < n THEN q[j] ELSE q[j + 1]]
  <2>1. n \in 1 .. Len(q) /\ q[n] = x
    BY <1>1, <1>3
  <2>2. Without(q, x) = r
    BY <1>3 DEF Without
  <2> HIDE DEF n
  <2>3. r \in Seq(Member) /\ DOMAIN r = 1 .. Len(q) - 1 /\ Len(r) = Len(q) - 1
    <3>1. r \in [1 .. Len(q) - 1 -> Member]
      <4> SUFFICES ASSUME NEW j \in 1 .. Len(q) - 1
                   PROVE  (IF j < n THEN q[j] ELSE q[j + 1]) \in Member
        OBVIOUS
      <4> QED
        BY <1>1, <2>1
    <3>2. Len(q) - 1 \in Nat
      BY <1>1, <2>1
    <3> QED
      BY <3>1, <3>2
  <2>4. \A j \in 1 .. Len(q) - 1 : r[j] = IF j < n THEN q[j] ELSE q[j + 1]
    OBVIOUS
  <2> HIDE DEF r
  <2>5. \A i, j \in DOMAIN r : r[i] = r[j] => i = j
    <3> DEFINE at(j) == IF j < n THEN j ELSE j + 1
    <3> SUFFICES ASSUME NEW i \in 1 .. Len(q) - 1, NEW j \in 1 .. Len(q) - 1, r[i] = r[j]
                 PROVE  i = j
      BY <2>3
    <3>1. at(i) \in DOMAIN q /\ at(j) \in DOMAIN q /\ q[at(i)] = q[at(j)]
      BY <1>1, <2>1, <2>4
    <3>2. at(i) = at(j)
      BY <3>1 DEF IsLine
    <3> QED
      BY <1>1, <2>1, <3>2
  <2>6. ASSUME NEW y \in S, y # x PROVE \E i \in DOMAIN r : r[i] = y
    <3>1. PICK i \in 1 .. Len(q) : q[i] = y
      BY <1>1 DEF IsLine
    <3>2. i # n
      BY <2>1, <2>6, <3>1
    <3>3. CASE i < n
      <4>1. i \in 1 .. Len(q) - 1 /\ r[i] = q[i]
        BY <1>1, <2>1, <2>4, <3>3
      <4> QED
        BY <2>3, <3>1, <4>1
    <3>4. CASE i > n
      <4>1. i - 1 \in 1 .. Len(q) - 1 /\ r[i - 1] = q[i]
        BY <1>1, <2>1, <2>4, <3>4
      <4> QED
        BY <2>3, <3>1, <4>1
    <3> QED
      BY <1>1, <2>1, <3>2, <3>3, <3>4
  <2>7. ASSUME NEW i \in DOMAIN r PROVE r[i] \in S \ {x}
    <3> DEFINE k == IF i < n THEN i ELSE i + 1
    <3>1. k \in DOMAIN q /\ k # n /\ r[i] = q[k]
      BY <1>1, <2>1, <2>3, <2>4
    <3> HIDE DEF k
    <3>2. q[k] # q[n] /\ q[k] \in S
      BY <1>1, <2>1, <3>1 DEF IsLine
    <3> QED
      BY <2>1, <3>1, <3>2
  <2>8. {r[i] : i \in DOMAIN r} = S \ {x}
    BY <2>6, <2>7
  <2>9. ASSUME q # <<>>, Head(q) # x PROVE r # <<>> /\ Head(r) = Head(q)
    <3>1. Head(q) = q[1] /\ n # 1
      BY <1>1, <2>1, <2>9
    <3>2. 1 \in 1 .. Len(q) - 1 /\ 1 < n /\ r[1] = q[1]
      BY <1>1, <2>1, <2>4, <3>1
    <3> QED
      BY <2>3, <3>1, <3>2
  <2> QED
    BY <2>2, <2>3, <2>5, <2>8, <2>9 DEF IsLine
<1> QED
  BY <1>2, <1>3

-----------------------------------------------------------------------------
(* Types. *)

LEMMA ListenerType ==
  ASSUME NEW s \in {"off", "backoff", "listening", "rules", "alerts", "waiting", "done"}
  PROVE  ListenerAt(s) \in Listener
  BY WorkerAssumption DEF ListenerAt, Listener

LEMMA TypeInit == Init => TypeInv
<1> SUFFICES ASSUME Init PROVE TypeInv
  OBVIOUS
<1>1. Types
  BY WorkerAssumption, ListenerType
     DEF Init, Types, Config, Batch, Idle, Task
<1>2. IsLine(queue, Asking)
  <2>1. Asking = {}
    BY DEF Init, Asking, InBatch, Idle, ListenerAt
  <2>2. queue \in Seq(Member) /\ DOMAIN queue = {}
    BY DEF Init
  <2> QED
    BY <2>1, <2>2 DEF IsLine
<1>3. ServesInv /\ BootInv
  BY DEF Init, ServesInv, BootInv, ListenerAt, Idle, Task
<1> QED
  BY <1>1, <1>2, <1>3 DEF TypeInv, TypeOK

\* A step that lets the lock be, the tasks and whether the listener waits for it.
LEMMA SameLine ==
  ASSUME TypeInv, UNCHANGED <<queue, task>>,
         reload'.stage = "waiting" <=> reload.stage = "waiting"
  PROVE  IsLine(queue, Asking)'
<1>1. Asking' = Asking
  BY DEF Asking, InBatch
<1> QED
  BY <1>1 DEF TypeInv, TypeOK, IsLine

\* The world outside.
LEMMA ChangeRulesTypes ==
  ASSUME TypeInv, NEW s \in RuleSet \cup {NoRules}, ChangeRules(s)
  PROVE  TypeInv'
<1>1. Types'
  <2>1. changes \in Nat /\ changes' = changes + 1
    BY DEF TypeInv, TypeOK, Types, ChangeRules
  <2>2. changes' \in Nat /\ changes' \in 1 .. changes' /\ 1 .. changes \subseteq 1 .. changes'
    BY <2>1
  <2>3. inbox' \subseteq 1 .. changes' /\ lost' \subseteq 1 .. changes'
    BY <2>1, <2>2 DEF TypeInv, TypeOK, Types, ChangeRules
  <2> QED
    BY <2>2, <2>3 DEF TypeInv, TypeOK, Types, ChangeRules
<1>2. IsLine(queue, Asking)'
  BY SameLine DEF ChangeRules
<1>3. ServesInv' /\ BootInv'
  BY DEF TypeInv, TypeOK, Types, Listener, ServesInv, BootInv, ChangeRules
<1> QED
  BY <1>1, <1>2, <1>3 DEF TypeInv, TypeOK

LEMMA ChangeAlertsTypes ==
  ASSUME TypeInv, NEW a \in Alerts, ChangeAlerts(a)
  PROVE  TypeInv'
<1>1. Types'
  BY DEF TypeInv, TypeOK, Types, ChangeAlerts
<1>2. IsLine(queue, Asking)'
  BY SameLine DEF ChangeAlerts
<1>3. ServesInv' /\ BootInv'
  BY DEF TypeInv, ServesInv, BootInv, ChangeAlerts
<1> QED
  BY <1>1, <1>2, <1>3 DEF TypeInv, TypeOK

\* The listener, outside the lock.
LEMMA ListenerFailsTypes ==
  ASSUME TypeInv, reload.stage \in {"listening", "rules", "alerts"}, ListenerFails,
         cached' \in Alerts
  PROVE  TypeInv'
<1>1. reload' = ListenerAt("backoff") /\ reload' \in Listener
  BY ListenerType DEF ListenerFails
<1>2. reload'.stage = "backoff" /\ reload'.serves = 0
  BY <1>1 DEF ListenerAt
<1>3. Types'
  <2>1. {reload.serves} \ {0} \subseteq 1 .. changes
    BY DEF TypeInv, TypeOK, Types, ServesInv
  <2>2. lost' \subseteq 1 .. changes /\ inbox' = {}
    BY <2>1 DEF TypeInv, TypeOK, Types, ListenerFails
  <2> QED
    BY <1>1, <2>2 DEF TypeInv, TypeOK, Types, ListenerFails
<1>4. IsLine(queue, Asking)'
  BY <1>2, SameLine DEF ListenerFails
<1>5. ServesInv' /\ BootInv'
  BY <1>2 DEF TypeInv, TypeOK, Types, ServesInv, BootInv, ListenerFails
<1> QED
  BY <1>3, <1>4, <1>5 DEF TypeInv, TypeOK

LEMMA ListenerTypes ==
  ASSUME TypeInv, Connect \/ (\E n \in inbox : Notice(n)) \/ LoadRules
  PROVE  TypeInv'
<1>1. reload \in Listener /\ inbox \subseteq 1 .. changes /\ changes \in Nat /\ cached \in Alerts
  BY DEF TypeInv, TypeOK, Types
<1>2. CASE LoadRules /\ active = NoRules
  BY <1>1, <1>2, ListenerFailsTypes DEF LoadRules
<1>3. ASSUME \/ Connect
             \/ \E n \in inbox : Notice(n)
             \/ LoadRules /\ active # NoRules
      PROVE  /\ reload' \in Listener /\ reload'.stage \in {"listening", "rules", "alerts"}
             /\ reload.stage \in {"backoff", "listening", "rules"}
             /\ inbox' \subseteq inbox
             /\ ServesInv'
             /\ UNCHANGED <<stored, lost, loaded, queue, task, phase>>
  <2>1. CASE Connect
    <3>1. reload' \in Listener /\ reload'.stage = "listening" /\ reload'.serves = 0
      BY <2>1, ListenerType DEF Connect, ListenerAt
    <3> QED
      BY <1>1, <2>1, <3>1 DEF Connect, ServesInv, stored
  <2>2. CASE \E n \in inbox : Notice(n)
    <3>1. PICK n \in inbox : Notice(n)
      BY <2>2
    <3>2. n \in 1 .. changes /\ n \in Nat
      BY <1>1
    <3>3. reload' \in Listener /\ reload'.stage = "rules" /\ reload'.serves = n
      BY <1>1, <3>1, <3>2 DEF Notice, Listener
    <3>4. reload.stage = "listening" /\ inbox' \subseteq inbox /\ changes' = changes
      BY <3>1 DEF Notice, stored
    <3>5. ServesInv'
      BY <1>1, <3>2, <3>3, <3>4 DEF ServesInv
    <3> QED
      BY <3>1, <3>3, <3>4, <3>5 DEF Notice
  <2>3. CASE LoadRules /\ active # NoRules
    <3>1. /\ reload' = [reload EXCEPT !.stage = "alerts", !.asOf = changes, !.rules = active]
          /\ reload.stage = "rules" /\ active \in RuleSet
          /\ UNCHANGED <<stored, inbox, lost, loaded, queue, task, phase>>
      BY <2>3 DEF LoadRules, TypeInv, TypeOK, Types
    <3>2. reload' \in Listener /\ reload'.stage = "alerts" /\ reload'.asOf = changes
          /\ reload'.serves = reload.serves
      BY <1>1, <3>1 DEF Listener
    <3>3. ServesInv'
      BY <1>1, <3>1, <3>2 DEF TypeInv, ServesInv, stored
    <3> QED
      BY <3>1, <3>2, <3>3
  <2> QED
    BY <1>3, <2>1, <2>2, <2>3
<1>4. CASE ~ (LoadRules /\ active = NoRules)
  <2>1. Types'
    BY <1>3, <1>4 DEF TypeInv, TypeOK, Types, stored
  <2>2. IsLine(queue, Asking)'
    BY <1>3, <1>4, SameLine
  <2>3. BootInv'
    BY <1>3, <1>4 DEF TypeInv, BootInv
  <2> QED
    BY <1>3, <1>4, <2>1, <2>2, <2>3 DEF TypeInv, TypeOK
<1> QED
  BY <1>2, <1>4

\* The alerts are loaded and the listener joins the line, or it fails.
LEMMA LoadAlertsTypes ==
  ASSUME TypeInv, LoadAlerts
  PROVE  TypeInv'
<1>1. PICK a \in {alerts, cached} :
        /\ cached' = a
        /\ IF a \notin Knows[reload.rules]
           THEN ListenerFails
           ELSE /\ reload' = [reload EXCEPT !.stage = "waiting", !.alerts = a]
                /\ queue' = Acquire(queue, "reload")
                /\ UNCHANGED <<active, changes, alerts, inbox, lost, loaded, task, phase>>
  BY DEF LoadAlerts
<1>2. reload \in Listener /\ reload.stage = "alerts" /\ a \in Alerts
  BY DEF TypeInv, TypeOK, Types, LoadAlerts
<1>3. CASE a \notin Knows[reload.rules]
  BY <1>1, <1>2, <1>3, ListenerFailsTypes
<1>4. CASE a \in Knows[reload.rules]
  <2>1. /\ reload' \in Listener /\ reload'.stage = "waiting"
        /\ reload'.serves = reload.serves /\ reload'.asOf = reload.asOf
        /\ queue' = Acquire(queue, "reload")
        /\ UNCHANGED <<active, changes, alerts, inbox, lost, loaded, task, phase>>
    BY <1>1, <1>2, <1>4 DEF Listener
  <2>2. Types'
    BY <1>1, <1>2, <2>1 DEF TypeInv, TypeOK, Types
  <2>3. "reload" \in Member /\ "reload" \notin Asking /\ Asking' = Asking \cup {"reload"}
    BY <1>2, <2>1 DEF Member, Asking, InBatch, Task
  <2>4. IsLine(queue', Asking')
    BY <2>1, <2>3, Joins DEF TypeInv, TypeOK
  <2>5. ServesInv' /\ BootInv'
    BY <1>2, <2>1 DEF TypeInv, ServesInv, BootInv
  <2> QED
    BY <2>2, <2>4, <2>5 DEF TypeInv, TypeOK, IsLine
<1> QED
  BY <1>3, <1>4

LEMMA SwapTypes ==
  ASSUME TypeInv, Swap
  PROVE  TypeInv'
<1>1. /\ reload \in Listener /\ reload.stage = "waiting" /\ Holds("reload")
      /\ reload' = ListenerAt("listening") /\ queue' = Tail(queue)
      /\ loaded' = [asOf |-> reload.asOf, alerts |-> reload.alerts]
      /\ UNCHANGED <<stored, inbox, lost, task, phase>>
  BY DEF TypeInv, TypeOK, Types, Swap
<1>2. reload' \in Listener /\ reload'.stage = "listening" /\ reload'.serves = 0
  BY <1>1, ListenerType DEF ListenerAt
<1>3. Types'
  <2>1. loaded' \in Config
    BY <1>1 DEF Listener, Config
  <2> QED
    BY <1>1, <1>2, <2>1 DEF TypeInv, TypeOK, Types, stored
<1>4. IsLine(queue', Asking')
  <2>1. Asking' = Asking \ {"reload"}
    BY <1>1, <1>2 DEF Asking, InBatch, Task
  <2> QED
    BY <1>1, <2>1, Leaves DEF Holds, TypeInv, TypeOK
<1>5. ServesInv' /\ BootInv'
  BY <1>1, <1>2 DEF TypeInv, TypeOK, Types, ServesInv, BootInv, stored
<1> QED
  BY <1>3, <1>4, <1>5 DEF TypeInv, TypeOK, IsLine

\* A step of task t that leaves everything else but the lock alone; b is what it leaves
\* of the task.
LEMMA TaskTypes ==
  ASSUME TypeInv, NEW t \in Task, NEW b \in Batch,
         task[t].stage \notin {"off", "done"},
         task' = [task EXCEPT ![t] = b],
         UNCHANGED <<stored, inbox, lost, reload, loaded, phase>>,
         IsLine(queue', IF b.stage \in {"batch", "sending"} THEN Asking \cup {t}
                        ELSE Asking \ {t})
  PROVE  TypeInv'
<1>1. /\ task \in [Task -> Batch] /\ task' \in [Task -> Batch]
      /\ task'[t] = b /\ \A u \in Task : u # t => task'[u] = task[u]
  BY DEF TypeInv, TypeOK, Types
<1>2. Types'
  BY <1>1 DEF TypeInv, TypeOK, Types, stored
<1>3. Asking' = IF b.stage \in {"batch", "sending"} THEN Asking \cup {t} ELSE Asking \ {t}
  BY <1>1 DEF Asking, InBatch, Task
<1>4. IsLine(queue', Asking')
  BY <1>3
<1>5. ServesInv'
  BY DEF TypeInv, ServesInv, stored
<1>6. BootInv'
  BY <1>1 DEF TypeInv, BootInv, Task
<1> QED
  BY <1>2, <1>4, <1>5, <1>6 DEF TypeInv, TypeOK, IsLine

LEMMA BatchTypes ==
  ASSUME TypeInv, NEW t \in Task, StartBatch(t) \/ Evaluate(t) \/ Dispatched(t)
  PROVE  TypeInv'
<1>1. /\ task \in [Task -> Batch] /\ loaded \in Config /\ IsLine(queue, Asking)
      /\ task[t].left \in Nat /\ task[t].seen \subseteq Config /\ t \in Member
  BY DEF TypeInv, TypeOK, Types, Batch, Member
<1>2. CASE StartBatch(t)
  <2>1. PICK n \in 1 .. MaxEvents :
          task' = [task EXCEPT ![t] = [stage |-> "batch", left |-> n, seen |-> {}]]
    BY <1>2 DEF StartBatch
  <2> DEFINE b == [stage |-> "batch", left |-> n, seen |-> {}]
  <2>2. n \in Nat
    BY WorkerAssumption
  <2>3. b \in Batch
    BY <2>2 DEF Batch
  <2>4. t \notin Asking
    BY <1>2 DEF StartBatch, Asking, InBatch, Task
  <2>5. IsLine(queue', Asking \cup {t})
    BY <1>1, <1>2, <2>4, Joins DEF StartBatch
  <2>6. task' = [task EXCEPT ![t] = b] /\ b.stage = "batch"
    BY <2>1
  <2>7. task[t].stage = "ready" /\ UNCHANGED <<stored, inbox, lost, reload, loaded, phase>>
    BY <1>2 DEF StartBatch
  <2> HIDE DEF b
  <2> QED
    BY <2>3, <2>5, <2>6, <2>7, TaskTypes
<1>3. CASE Evaluate(t)
  <2>1. PICK next \in {"batch", "sending"} :
          task' = [task EXCEPT ![t] = [stage |-> next, left |-> task[t].left - 1,
                                       seen |-> task[t].seen \cup {loaded}]]
    BY <1>1, <1>3 DEF Evaluate
  <2> DEFINE b == [stage |-> next, left |-> task[t].left - 1,
                   seen |-> task[t].seen \cup {loaded}]
  <2>2. task[t].left - 1 \in Nat
    BY <1>1, <1>3 DEF Evaluate
  <2>3. b \in Batch
    BY <1>1, <2>2 DEF Batch
  <2>4. task[t].stage = "batch" /\ Asking \cup {t} = Asking
    BY <1>3 DEF Evaluate, Asking, InBatch
  <2>5. IsLine(queue', Asking \cup {t})
    BY <1>1, <1>3, <2>4 DEF Evaluate
  <2>6. task' = [task EXCEPT ![t] = b] /\ b.stage \in {"batch", "sending"}
    BY <2>1
  <2>7. UNCHANGED <<stored, inbox, lost, reload, loaded, phase>>
    BY <1>3 DEF Evaluate
  <2> HIDE DEF b
  <2> QED
    BY <2>3, <2>4, <2>5, <2>6, <2>7, TaskTypes
<1>4. CASE Dispatched(t)
  <2> DEFINE b == [task[t] EXCEPT !.stage = "batch", !.seen = @ \cup {loaded}]
  <2>1. b \in Batch /\ b.stage = "batch"
    BY <1>1 DEF Batch
  <2>2. task' = [task EXCEPT ![t] = b]
    BY <1>1, <1>4 DEF Dispatched
  <2>3. task[t].stage = "sending" /\ Asking \cup {t} = Asking
    BY <1>4 DEF Dispatched, Asking, InBatch
  <2>4. IsLine(queue', Asking \cup {t})
    BY <1>1, <1>4, <2>3 DEF Dispatched
  <2>5. UNCHANGED <<stored, inbox, lost, reload, loaded, phase>>
    BY <1>4 DEF Dispatched
  <2> HIDE DEF b
  <2> QED
    BY <2>1, <2>2, <2>3, <2>4, <2>5, TaskTypes
<1> QED
  BY <1>2, <1>3, <1>4

LEMMA IdleType ==
  ASSUME NEW s \in {"off", "ready", "done"}
  PROVE  Idle(s) \in Batch /\ Idle(s).stage = s /\ Idle(s).seen = {}
  BY DEF Idle, Batch

\* The holder gives the lock back.
LEMMA Released ==
  ASSUME TypeInv, NEW t \in Task, Holds(t)
  PROVE  IsLine(Tail(queue), Asking \ {t}) /\ InBatch(t)
<1>1. IsLine(Tail(queue), Asking \ {t}) /\ t \in Asking
  BY Leaves DEF TypeInv, TypeOK, Holds
<1> QED
  BY <1>1 DEF Asking, Task

LEMMA FinishBatchTypes ==
  ASSUME TypeInv, NEW t \in Task, FinishBatch(t)
  PROVE  TypeInv'
<1>1. /\ IsLine(queue', Asking \ {t}) /\ InBatch(t)
      /\ UNCHANGED <<stored, inbox, lost, loaded>>
  BY Released DEF FinishBatch
<1>2. CASE t # "boot"
  <2>1. task' = [task EXCEPT ![t] = Idle("ready")] /\ UNCHANGED <<reload, phase>>
    BY <1>2 DEF FinishBatch
  <2>2. Idle("ready") \in Batch /\ Idle("ready").stage = "ready"
    BY IdleType
  <2>3. task[t].stage \notin {"off", "done"}
    BY <1>1 DEF InBatch
  <2> QED
    BY <1>1, <2>1, <2>2, <2>3, TaskTypes
<1>3. CASE t = "boot"
  <2>1. /\ task' = [task EXCEPT !["boot"] = Idle("done"), !["gamma"] = Idle("ready")]
        /\ reload' = ListenerAt("backoff") /\ phase' = "run"
    BY <1>3 DEF FinishBatch
  <2>2. phase = "boot" /\ reload.stage = "off" /\ task["gamma"].stage = "off"
    BY <1>1, <1>3 DEF TypeInv, BootInv, InBatch
  <2>3. /\ task \in [Task -> Batch] /\ task' \in [Task -> Batch]
        /\ task'["boot"].stage = "done" /\ task'["gamma"].stage = "ready"
        /\ task'["ws"] = task["ws"]
    BY <2>1, IdleType DEF TypeInv, TypeOK, Types, Task
  <2>4. reload' \in Listener /\ reload'.stage = "backoff" /\ reload'.serves = 0
    BY <2>1, ListenerType DEF ListenerAt
  <2>5. Types'
    BY <1>1, <2>1, <2>3, <2>4 DEF TypeInv, TypeOK, Types, stored
  <2>6. Asking' = Asking \ {t}
    BY <1>3, <2>2, <2>3, <2>4 DEF Asking, InBatch, Task
  <2>7. ServesInv' /\ BootInv'
    BY <1>1, <2>1, <2>3, <2>4 DEF TypeInv, TypeOK, Types, ServesInv, BootInv, stored
  <2> QED
    BY <1>1, <2>5, <2>6, <2>7 DEF TypeInv, TypeOK, IsLine
<1> QED
  BY <1>2, <1>3

\* A task is taken out of its batch and of the line, and the phase goes on.
LEMMA CancelTypes ==
  ASSUME TypeInv, NEW t \in Task,
         NEW s \in {"ready", "done"}, task' = [task EXCEPT ![t] = Idle(s)],
         t = "boot" => s = "done",
         IsLine(queue', Asking \ {t}),
         UNCHANGED <<stored, inbox, lost, reload, loaded>>,
         phase' \in {"boot", "run", "stopGamma", "stopReload", "stopWs", "stopped"},
         phase' = "boot" => phase = "boot" /\ task'["gamma"].stage = "off",
         phase' # "boot" => task'["boot"].stage = "done"
  PROVE  TypeInv'
<1>1. /\ task \in [Task -> Batch] /\ task' \in [Task -> Batch]
      /\ task'[t] = Idle(s) /\ \A u \in Task : u # t => task'[u] = task[u]
  BY IdleType DEF TypeInv, TypeOK, Types
<1>2. Types'
  BY <1>1 DEF TypeInv, TypeOK, Types, stored
<1>3. Asking' = Asking \ {t}
  BY <1>1, IdleType DEF Asking, InBatch, Task
<1>4. ServesInv' /\ BootInv'
  BY <1>1 DEF TypeInv, ServesInv, BootInv, stored
<1> QED
  BY <1>2, <1>3, <1>4 DEF TypeInv, TypeOK, IsLine

LEMMA BatchFailsTypes ==
  ASSUME TypeInv, NEW t \in Task, BatchFails(t)
  PROVE  TypeInv'
<1>1. /\ IsLine(queue', Asking \ {t}) /\ InBatch(t)
      /\ UNCHANGED <<stored, inbox, lost, reload, loaded>>
      /\ phase' = IF t = "boot" THEN "stopGamma" ELSE phase
  BY Released DEF BatchFails
<1>2. PICK s \in After(t) : task' = [task EXCEPT ![t] = Idle(s)]
  BY DEF BatchFails
<1>3. s \in {"ready", "done"} /\ (t = "boot" => s = "done")
  BY <1>2 DEF After
<1>4. /\ phase \in {"boot", "run", "stopGamma", "stopReload", "stopWs", "stopped"}
      /\ task \in [Task -> Batch] /\ "boot" \in Task /\ "gamma" \in Task
  BY DEF TypeInv, TypeOK, Types, Task
<1>5. /\ task'[t] = Idle(s) /\ \A u \in Task : u # t => task'[u] = task[u]
  BY <1>2, <1>4
<1>6. t = "boot" => task'["boot"].stage = "done"
  BY <1>3, <1>5, IdleType
<1>7. phase' = "boot" => phase = "boot" /\ task'["gamma"].stage = "off"
  BY <1>1, <1>4, <1>5 DEF TypeInv, BootInv, InBatch
<1>8. phase' # "boot" => task'["boot"].stage = "done"
  BY <1>1, <1>4, <1>5, <1>6 DEF TypeInv, BootInv
<1> QED
  BY <1>1, <1>2, <1>3, <1>4, <1>7, <1>8, CancelTypes

LEMMA StopTypes ==
  ASSUME TypeInv, Interrupt \/ StopGamma \/ StopWs
  PROVE  TypeInv'
<1>1. PICK t \in Task :
        /\ Cancel(t) /\ UNCHANGED <<stored, inbox, lost, reload, loaded>>
        /\ phase' \in {"stopGamma", "stopReload", "stopped"}
        /\ t = "boot" \/ phase # "boot"
  BY DEF Interrupt, StopGamma, StopWs, Task
<1>2. task' = [task EXCEPT ![t] = Idle("done")] /\ IsLine(queue', Asking \ {t})
  BY <1>1, Withdraws DEF Cancel, TypeInv, TypeOK
<1>3. task'["boot"].stage = "done"
  BY <1>1, <1>2, IdleType DEF TypeInv, TypeOK, Types, BootInv, Task
<1> QED
  BY <1>1, <1>2, <1>3, CancelTypes

LEMMA SupervisorEndsTypes ==
  ASSUME TypeInv, SupervisorEnds
  PROVE  TypeInv'
<1>1. Types'
  BY DEF TypeInv, TypeOK, Types, SupervisorEnds, stored
<1>2. IsLine(queue, Asking)'
  BY SameLine DEF SupervisorEnds
<1>3. ServesInv' /\ BootInv'
  BY DEF TypeInv, ServesInv, BootInv, SupervisorEnds, stored
<1> QED
  BY <1>1, <1>2, <1>3 DEF TypeInv, TypeOK

LEMMA StopReloadTypes ==
  ASSUME TypeInv, StopReload
  PROVE  TypeInv'
<1>1. /\ reload' \in Listener /\ reload'.stage = "done" /\ reload'.serves = 0
      /\ phase = "stopReload" /\ phase' = "stopWs"
      /\ inbox' = {} /\ lost' = lost \cup inbox \cup ({reload.serves} \ {0})
      /\ queue' = Without(queue, "reload")
      /\ UNCHANGED <<stored, loaded, task>>
  BY ListenerType DEF StopReload, ListenerAt
<1>2. lost' \subseteq 1 .. changes
  <2>1. {reload.serves} \ {0} \subseteq 1 .. changes
    BY DEF TypeInv, TypeOK, Types, ServesInv
  <2> QED
    BY <1>1, <2>1 DEF TypeInv, TypeOK, Types
<1>3. Types'
  BY <1>1, <1>2 DEF TypeInv, TypeOK, Types, stored
<1>4. Asking' = Asking \ {"reload"}
  BY <1>1 DEF Asking, InBatch, Task
<1>5. IsLine(queue', Asking')
  BY <1>1, <1>4, Withdraws DEF TypeInv, TypeOK
<1>6. ServesInv' /\ BootInv'
  BY <1>1 DEF TypeInv, TypeOK, Types, ServesInv, BootInv, stored
<1> QED
  BY <1>3, <1>5, <1>6 DEF TypeInv, TypeOK, IsLine

LEMMA TypeStep == TypeInv /\ [Next]_vars => TypeInv'
<1> SUFFICES ASSUME TypeInv, [Next]_vars PROVE TypeInv'
  OBVIOUS
<1>1. ASSUME NEW s \in RuleSet \cup {NoRules}, ChangeRules(s) PROVE TypeInv'
  BY <1>1, ChangeRulesTypes
<1>2. ASSUME NEW a \in Alerts, ChangeAlerts(a) PROVE TypeInv'
  BY <1>2, ChangeAlertsTypes
<1>3. CASE Connect \/ (\E n \in inbox : Notice(n)) \/ LoadRules
  BY <1>3, ListenerTypes
<1>4. CASE LoadAlerts
  BY <1>4, LoadAlertsTypes
<1>5. CASE Swap
  BY <1>5, SwapTypes
<1>6. CASE ConnectionEnds \/ LoadFails
  BY <1>6, ListenerFailsTypes DEF ConnectionEnds, LoadFails, TypeInv, TypeOK, Types
<1>7. ASSUME NEW t \in Task, StartBatch(t) \/ Evaluate(t) \/ Dispatched(t) PROVE TypeInv'
  BY <1>7, BatchTypes
<1>8. ASSUME NEW t \in Task, FinishBatch(t) PROVE TypeInv'
  BY <1>8, FinishBatchTypes
<1>9. ASSUME NEW t \in Task, BatchFails(t) PROVE TypeInv'
  BY <1>9, BatchFailsTypes
<1>10. CASE Interrupt \/ StopGamma \/ StopWs
  BY <1>10, StopTypes
<1>11. CASE SupervisorEnds
  BY <1>11, SupervisorEndsTypes
<1>12. CASE StopReload
  BY <1>12, StopReloadTypes
<1>13. CASE UNCHANGED vars
  <2>1. Types' /\ ServesInv' /\ BootInv'
    BY <1>13 DEF vars, TypeInv, TypeOK, Types, ServesInv, BootInv
  <2>2. IsLine(queue, Asking)'
    BY <1>13, SameLine DEF vars
  <2> QED
    BY <2>1, <2>2 DEF TypeInv, TypeOK
<1> QED
  BY <1>1, <1>2, <1>3, <1>4, <1>5, <1>6, <1>7, <1>8, <1>9, <1>10, <1>11, <1>12, <1>13
     DEF Next, ReloadStep, TaskStep, StopStep

\* The lock's queue holds exactly those that asked for the lock and have not given it back
\* or been cancelled, once each, and every variable has its type.
THEOREM TypeCorrect == Spec => []TypeOK
<1>1. TypeInv => TypeOK
  BY DEF TypeInv
<1> QED
  BY <1>1, TypeInit, TypeStep, PTL DEF Spec

-----------------------------------------------------------------------------
(* One configuration per batch. *)

LEMMA HolderInit == Init => HolderInv
  BY DEF Init, HolderInv, Idle

\* The lock's holder, the tasks and the configuration are left alone.
LEMMA HolderKept ==
  ASSUME TypeInv, HolderInv, UNCHANGED <<task, loaded>>,
         queue # <<>> => queue' # <<>> /\ Head(queue') = Head(queue)
  PROVE  HolderInv'
  BY DEF HolderInv, Holds

\* Task t moves; the lock's holder stays unless t gives the lock up.
LEMMA HolderMoves ==
  ASSUME TypeInv, HolderInv, NEW t \in Task,
         \A u \in Task : u # t =>
           task'[u] = task[u] \/ (task'[u].seen = {} /\ task'[u].stage # "sending"),
         UNCHANGED loaded,
         task'[t].seen \subseteq {loaded},
         task'[t].seen # {} \/ task'[t].stage = "sending" => Holds(t),
         queue # <<>> /\ (Head(queue) # t \/ task'[t].seen # {} \/ task'[t].stage = "sending")
           => queue' # <<>> /\ Head(queue') = Head(queue)
  PROVE  HolderInv'
<1> SUFFICES ASSUME NEW u \in Task
             PROVE  /\ task'[u].seen \subseteq {loaded}
                    /\ task'[u].seen # {} \/ task'[u].stage = "sending"
                         => queue' # <<>> /\ Head(queue') = u
  BY DEF HolderInv, Holds
<1>1. CASE u = t
  BY <1>1 DEF Holds
<1>2. CASE u # t /\ task'[u] = task[u]
  BY <1>2 DEF HolderInv, Holds
<1>3. CASE u # t /\ task'[u] # task[u]
  BY <1>3
<1> QED
  BY <1>1, <1>2, <1>3

LEMMA HolderStep == TypeInv /\ HolderInv /\ [Next]_vars => HolderInv'
<1> SUFFICES ASSUME TypeInv, HolderInv, [Next]_vars PROVE HolderInv'
  OBVIOUS
<1>1. /\ IsLine(queue, Asking) /\ task \in [Task -> Batch]
      /\ "boot" \in Task /\ "gamma" \in Task /\ "ws" \in Task
  BY DEF TypeInv, TypeOK, Types, Task
<1>2. ASSUME NEW s \in RuleSet \cup {NoRules}, ChangeRules(s) PROVE HolderInv'
  BY <1>2, HolderKept DEF ChangeRules
<1>3. ASSUME NEW a \in Alerts, ChangeAlerts(a) PROVE HolderInv'
  BY <1>3, HolderKept DEF ChangeAlerts
<1>4. CASE \/ Connect \/ (\E n \in inbox : Notice(n)) \/ LoadRules
           \/ ConnectionEnds \/ LoadFails \/ SupervisorEnds
  <2>1. UNCHANGED <<task, loaded, queue>>
    BY <1>4 DEF Connect, Notice, LoadRules, ConnectionEnds, LoadFails, SupervisorEnds,
                ListenerFails
  <2> QED
    BY <2>1, HolderKept
<1>5. CASE LoadAlerts
  <2>1. /\ UNCHANGED <<task, loaded>>
        /\ \/ queue' = queue
           \/ queue' = Acquire(queue, "reload") /\ reload.stage = "alerts"
    BY <1>5 DEF LoadAlerts, ListenerFails
  <2>2. CASE queue' = Acquire(queue, "reload") /\ reload.stage = "alerts"
    <3>1. "reload" \in Member /\ "reload" \notin Asking
      BY <2>2 DEF Member, Asking, Task
    <3> QED
      BY <1>1, <2>1, <2>2, <3>1, Joins, HolderKept
  <2> QED
    BY <2>1, <2>2, HolderKept
<1>6. CASE Swap
  <2>1. Holds("reload") /\ UNCHANGED task /\ "reload" \notin Task
    BY <1>6 DEF Swap, Task
  <2>2. \A t \in Task : ~ Holds(t)
    BY <2>1 DEF Holds
  <2> QED
    BY <2>1, <2>2 DEF HolderInv
<1>7. ASSUME NEW t \in Task, StartBatch(t) PROVE HolderInv'
  <2>1. t \in Member /\ t \notin Asking
    BY <1>7 DEF StartBatch, Asking, InBatch, Task, Member
  <2>2. queue # <<>> => queue' # <<>> /\ Head(queue') = Head(queue)
    BY <1>1, <1>7, <2>1, Joins DEF StartBatch
  <2>3. PICK n : task' = [task EXCEPT ![t] = [stage |-> "batch", left |-> n, seen |-> {}]]
    BY <1>7 DEF StartBatch
  <2>4. /\ task'[t].seen = {} /\ task'[t].stage = "batch"
        /\ \A u \in Task : u # t => task'[u] = task[u]
    BY <1>1, <2>3
  <2>5. UNCHANGED loaded
    BY <1>7 DEF StartBatch
  <2> QED
    BY <2>2, <2>4, <2>5, HolderMoves
<1>8. ASSUME NEW t \in Task, Evaluate(t) \/ Dispatched(t) PROVE HolderInv'
  <2>1. Holds(t) /\ UNCHANGED <<loaded, queue>>
    BY <1>8 DEF Evaluate, Dispatched, HolderInv
  <2>2. /\ task'[t].seen = task[t].seen \cup {loaded}
        /\ \A u \in Task : u # t => task'[u] = task[u]
    <3>1. CASE Evaluate(t)
      <4>1. PICK next \in {"batch", "sending"} :
              task' = [task EXCEPT ![t] = [stage |-> next, left |-> task[t].left - 1,
                                           seen |-> task[t].seen \cup {loaded}]]
        BY <1>1, <3>1 DEF Evaluate
      <4> QED
        BY <1>1, <4>1
    <3>2. CASE Dispatched(t)
      <4>1. task' = [task EXCEPT ![t] = [task[t] EXCEPT !.stage = "batch",
                                                        !.seen = @ \cup {loaded}]]
        BY <1>1, <3>2 DEF Dispatched
      <4>2. task[t] \in Batch
        BY <1>1
      <4> QED
        BY <1>1, <4>1, <4>2 DEF Batch
    <3> QED
      BY <1>8, <3>1, <3>2
  <2>3. task'[t].seen \subseteq {loaded}
    BY <2>2 DEF HolderInv
  <2> QED
    BY <2>1, <2>2, <2>3, HolderMoves
<1>9. ASSUME NEW t \in Task, FinishBatch(t) PROVE HolderInv'
  <2>1. Holds(t) /\ UNCHANGED loaded
    BY <1>9 DEF FinishBatch
  <2>2. /\ task'[t].seen = {} /\ task'[t].stage # "sending"
        /\ \A u \in Task : u # t =>
             task'[u] = task[u] \/ (task'[u].seen = {} /\ task'[u].stage # "sending")
    <3>1. CASE t # "boot"
      <4>1. task' = [task EXCEPT ![t] = Idle("ready")]
        BY <1>9, <3>1 DEF FinishBatch
      <4> QED
        BY <1>1, <4>1, IdleType
    <3>2. CASE t = "boot"
      <4>1. task' = [task EXCEPT !["boot"] = Idle("done"), !["gamma"] = Idle("ready")]
        BY <1>9, <3>2 DEF FinishBatch
      <4>2. /\ task'["boot"] = Idle("done") /\ task'["gamma"] = Idle("ready")
            /\ task'["ws"] = task["ws"]
        BY <1>1, <4>1
      <4> QED
        BY <3>2, <4>2, IdleType DEF Task
    <3> QED
      BY <3>1, <3>2
  <2>3. Head(queue) = t
    BY <2>1 DEF Holds
  <2> QED
    BY <2>1, <2>2, <2>3, HolderMoves
<1>10. ASSUME NEW t \in Task, BatchFails(t) PROVE HolderInv'
  <2>1. Holds(t) /\ UNCHANGED loaded
    BY <1>10 DEF BatchFails
  <2>2. PICK s \in {"ready", "done"} : task' = [task EXCEPT ![t] = Idle(s)]
    BY <1>10 DEF BatchFails, After
  <2>3. /\ task'[t].seen = {} /\ task'[t].stage # "sending"
        /\ \A u \in Task : u # t => task'[u] = task[u]
    BY <1>1, <2>2, IdleType
  <2>4. Head(queue) = t
    BY <2>1 DEF Holds
  <2> QED
    BY <2>1, <2>3, <2>4, HolderMoves
<1>11. CASE Interrupt \/ StopGamma \/ StopWs
  <2>1. PICK t \in Task : Cancel(t) /\ UNCHANGED loaded
    BY <1>1, <1>11 DEF Interrupt, StopGamma, StopWs
  <2>2. /\ task'[t].seen = {} /\ task'[t].stage # "sending"
        /\ \A u \in Task : u # t => task'[u] = task[u]
    BY <1>1, <2>1, IdleType DEF Cancel
  <2>3. queue # <<>> /\ Head(queue) # t => queue' # <<>> /\ Head(queue') = Head(queue)
    BY <1>1, <2>1, Withdraws DEF Cancel
  <2> QED
    BY <2>1, <2>2, <2>3, HolderMoves
<1>12. CASE StopReload
  <2>1. queue' = Without(queue, "reload") /\ UNCHANGED <<loaded, task>>
    BY <1>12 DEF StopReload
  <2>2. queue # <<>> /\ Head(queue) # "reload" => queue' # <<>> /\ Head(queue') = Head(queue)
    BY <1>1, <2>1, Withdraws
  <2>3. "reload" \notin Task
    BY DEF Task
  <2> QED
    BY <2>1, <2>2, <2>3 DEF HolderInv, Holds
<1>13. CASE UNCHANGED vars
  BY <1>13, HolderKept DEF vars
<1> QED
  BY <1>2, <1>3, <1>4, <1>5, <1>6, <1>7, <1>8, <1>9, <1>10, <1>11, <1>12, <1>13
     DEF Next, ReloadStep, TaskStep, StopStep

\* Whatever is reloaded meanwhile, all events of a batch are evaluated and all its
\* decisions dispatched under the configuration in use (event_pipeline_lock).
THEOREM BatchesAreConsistent == Spec => []OneConfigPerBatch
<1>1. HolderInv => OneConfigPerBatch
  BY DEF HolderInv, OneConfigPerBatch
<1> QED
  BY <1>1, TypeInit, TypeStep, HolderInit, HolderStep, PTL DEF Spec

-----------------------------------------------------------------------------
(* No change is forgotten. *)

\* What the listener drops when it ends is counted as lost.
LEMMA DroppedIsLost ==
  ASSUME TypeInv, ChangesAccounted, UNCHANGED <<changes, loaded>>,
         inbox' = {}, lost' = lost \cup inbox \cup ({reload.serves} \ {0})
  PROVE  ChangesAccounted'
<1> SUFFICES ASSUME NEW n \in loaded.asOf + 1 .. changes PROVE n \in lost'
  BY DEF ChangesAccounted
<1>1. n \in inbox \cup lost \cup {reload.serves}
  BY DEF ChangesAccounted
<1>2. n # 0
  BY DEF TypeInv, TypeOK, Types, Config
<1> QED
  BY <1>1, <1>2

\* A step that moves no notification out of sight.
LEMMA AccountKept ==
  ASSUME ChangesAccounted, UNCHANGED <<changes, loaded>>,
         inbox \cup lost \cup {reload.serves} \subseteq inbox' \cup lost' \cup {reload'.serves}
                                                      \cup {0},
         loaded.asOf \in Nat
  PROVE  ChangesAccounted'
<1> SUFFICES ASSUME NEW n \in loaded.asOf + 1 .. changes
             PROVE  n \in inbox' \cup lost' \cup {reload'.serves}
  BY DEF ChangesAccounted
<1>1. n # 0
  OBVIOUS
<1> QED
  BY <1>1 DEF ChangesAccounted

\* What a step does with the ages of the rules in use and of those being loaded.
LEMMA AgesKept ==
  ASSUME TypeInv, AgeInv, UNCHANGED loaded, changes' \in Nat, changes <= changes',
         \/ reload'.stage \notin {"alerts", "waiting"}
         \/ reload'.asOf = changes /\ UNCHANGED changes
         \/ reload'.asOf = reload.asOf /\ reload.stage \in {"alerts", "waiting"}
  PROVE  AgeInv'
<1>1. changes \in Nat /\ loaded.asOf \in Nat /\ reload.asOf \in Nat
  BY DEF TypeInv, TypeOK, Types, Config, Listener
<1> QED
  BY <1>1 DEF AgeInv

LEMMA AgeStep == TypeInv /\ AgeInv /\ [Next]_vars => AgeInv'
<1> SUFFICES ASSUME TypeInv, AgeInv, [Next]_vars PROVE AgeInv'
  OBVIOUS
<1>1. changes \in Nat /\ reload \in Listener
  BY DEF TypeInv, TypeOK, Types
<1>2. CASE \/ \E s \in RuleSet \cup {NoRules} : ChangeRules(s)
           \/ \E a \in Alerts : ChangeAlerts(a)
           \/ Interrupt \/ StopGamma \/ StopWs \/ SupervisorEnds
           \/ \E t \in Task : StartBatch(t) \/ Evaluate(t) \/ Dispatched(t) \/ BatchFails(t)
           \/ UNCHANGED vars
  <2>1. UNCHANGED <<loaded, reload>> /\ (changes' = changes \/ changes' = changes + 1)
    BY <1>2 DEF ChangeRules, ChangeAlerts, Interrupt, StopGamma, StopWs, SupervisorEnds,
                StartBatch, Evaluate, Dispatched, BatchFails, vars, stored
  <2>2. changes' \in Nat /\ changes <= changes'
    BY <1>1, <2>1
  <2> QED
    BY <2>1, <2>2, AgesKept
<1>3. CASE \/ Connect \/ (\E n \in inbox : Notice(n)) \/ LoadRules
           \/ ConnectionEnds \/ LoadFails \/ LoadAlerts \/ StopReload
           \/ \E t \in Task : FinishBatch(t)
  <2>1. UNCHANGED <<loaded, changes>>
    BY <1>3 DEF Connect, Notice, LoadRules, ConnectionEnds, LoadFails, LoadAlerts, StopReload,
                FinishBatch, ListenerFails, stored
  <2>2. \/ reload'.stage \notin {"alerts", "waiting"}
        \/ reload'.asOf = changes /\ UNCHANGED changes
        \/ reload'.asOf = reload.asOf /\ reload.stage \in {"alerts", "waiting"}
    <3>1. CASE \/ ListenerFails
               \/ Connect
               \/ StopReload
               \/ \E s \in {"backoff"} : reload' = ListenerAt(s)
      BY <3>1 DEF ListenerFails, Connect, StopReload, ListenerAt
    <3>2. CASE \E n \in inbox : Notice(n)
      BY <1>1, <3>2 DEF Notice, Listener
    <3>3. CASE LoadRules /\ ~ ListenerFails
      BY <1>1, <2>1, <3>3 DEF LoadRules, Listener
    <3>4. CASE LoadAlerts /\ ~ ListenerFails
      BY <1>1, <3>4 DEF LoadAlerts, Listener
    <3>5. CASE \E t \in Task : FinishBatch(t) /\ UNCHANGED reload
      BY <3>5
    <3>6. (\E t \in Task : FinishBatch(t)) =>
            UNCHANGED reload \/ reload' = ListenerAt("backoff")
      BY DEF FinishBatch
    <3> QED
      BY <1>3, <3>1, <3>2, <3>3, <3>4, <3>5, <3>6 DEF ConnectionEnds, LoadFails
  <2> QED
    BY <1>1, <2>1, <2>2, AgesKept
<1>4. CASE Swap
  <2>1. /\ loaded'.asOf = reload.asOf /\ reload.stage = "waiting" /\ UNCHANGED changes
        /\ reload'.stage = "listening"
    BY <1>4 DEF Swap, stored, ListenerAt
  <2> QED
    BY <2>1 DEF AgeInv
<1> QED
  BY <1>2, <1>3, <1>4 DEF Next, ReloadStep, TaskStep, StopStep

LEMMA AccountStep == TypeInv /\ AgeInv /\ ChangesAccounted /\ [Next]_vars => ChangesAccounted'
<1> SUFFICES ASSUME TypeInv, AgeInv, ChangesAccounted, [Next]_vars PROVE ChangesAccounted'
  OBVIOUS
<1>1. /\ changes \in Nat /\ loaded.asOf \in Nat /\ reload \in Listener
      /\ inbox \subseteq 1 .. changes
  BY DEF TypeInv, TypeOK, Types, Config
<1>2. ASSUME NEW s \in RuleSet \cup {NoRules}, ChangeRules(s) PROVE ChangesAccounted'
  <2>1. /\ changes' = changes + 1 /\ UNCHANGED <<loaded, reload>>
        /\ changes' \in inbox' \cup lost' /\ inbox \cup lost \subseteq inbox' \cup lost'
    BY <1>2 DEF ChangeRules
  <2> SUFFICES ASSUME NEW n \in loaded.asOf + 1 .. changes'
               PROVE  n \in inbox' \cup lost' \cup {reload.serves}
    BY <2>1 DEF ChangesAccounted
  <2>2. n = changes' \/ n \in loaded.asOf + 1 .. changes
    BY <1>1, <2>1
  <2> QED
    BY <2>1, <2>2 DEF ChangesAccounted
<1>3. ASSUME NEW a \in Alerts, ChangeAlerts(a) PROVE ChangesAccounted'
  BY <1>1, <1>3, AccountKept DEF ChangeAlerts
<1>4. CASE Connect
  <2>1. reload.serves = 0
    BY <1>4 DEF Connect, TypeInv, ServesInv
  <2> QED
    BY <1>1, <1>4, <2>1, AccountKept DEF Connect, stored
<1>5. CASE \E n \in inbox : Notice(n)
  <2>1. PICK n \in inbox : Notice(n)
    BY <1>5
  <2>2. reload.serves = 0 /\ reload'.serves = n
    BY <1>1, <2>1 DEF Notice, TypeInv, ServesInv, Listener
  <2>3. inbox' = inbox \ {n} /\ UNCHANGED <<changes, loaded, lost>>
    BY <2>1 DEF Notice, stored
  <2> QED
    BY <1>1, <2>2, <2>3, AccountKept
<1>6. CASE ConnectionEnds \/ LoadFails \/ (LoadRules /\ active = NoRules)
  <2>1. ListenerFails
    BY <1>6 DEF ConnectionEnds, LoadFails, LoadRules
  <2> QED
    BY <2>1, DroppedIsLost DEF ListenerFails
<1>7. CASE LoadRules /\ active # NoRules
  <2>1. reload'.serves = reload.serves /\ UNCHANGED <<changes, loaded, inbox, lost>>
    BY <1>1, <1>7 DEF LoadRules, Listener, stored
  <2> QED
    BY <1>1, <2>1, AccountKept
<1>8. CASE LoadAlerts
  <2>1. CASE ListenerFails
    BY <2>1, DroppedIsLost DEF ListenerFails
  <2>2. CASE ~ ListenerFails
    <3>1. reload'.serves = reload.serves /\ UNCHANGED <<changes, loaded, inbox, lost>>
      BY <1>1, <1>8, <2>2 DEF LoadAlerts, Listener
    <3> QED
      BY <1>1, <3>1, AccountKept
  <2> QED
    BY <2>1, <2>2
<1>9. CASE Swap
  <2>1. /\ loaded'.asOf = reload.asOf /\ UNCHANGED <<changes, inbox, lost>>
        /\ reload.stage = "waiting"
    BY <1>9 DEF Swap, stored
  <2> SUFFICES ASSUME NEW n \in reload.asOf + 1 .. changes PROVE n \in inbox \cup lost
    BY <2>1 DEF ChangesAccounted
  <2>2. n \in loaded.asOf + 1 .. changes /\ n # reload.serves
    BY <1>1, <2>1 DEF AgeInv, TypeInv, ServesInv, Listener
  <2> QED
    BY <2>2 DEF ChangesAccounted
<1>10. ASSUME NEW t \in Task, FinishBatch(t) PROVE ChangesAccounted'
  <2>1. UNCHANGED <<loaded, changes, inbox, lost>>
    BY <1>10 DEF FinishBatch, stored
  <2>2. CASE t # "boot"
    BY <1>1, <1>10, <2>1, <2>2, AccountKept DEF FinishBatch
  <2>3. CASE t = "boot"
    <3>1. reload.serves = 0
      BY <1>10, <2>3 DEF FinishBatch, TypeInv, BootInv, ServesInv
    <3> QED
      BY <1>1, <2>1, <3>1, AccountKept
  <2> QED
    BY <2>2, <2>3
<1>11. CASE StopReload
  BY <1>11, DroppedIsLost DEF StopReload, stored
<1>12. CASE \/ Interrupt \/ StopGamma \/ StopWs \/ SupervisorEnds
            \/ \E t \in Task : StartBatch(t) \/ Evaluate(t) \/ Dispatched(t) \/ BatchFails(t)
            \/ UNCHANGED vars
  <2>1. UNCHANGED <<loaded, changes, inbox, lost, reload>>
    BY <1>12 DEF Interrupt, StopGamma, StopWs, SupervisorEnds,
                 StartBatch, Evaluate, Dispatched, BatchFails, vars, stored
  <2> QED
    BY <1>1, <2>1, AccountKept
<1> QED
  BY <1>2, <1>3, <1>4, <1>5, <1>6, <1>7, <1>8, <1>9, <1>10, <1>11, <1>12
     DEF Next, ReloadStep, TaskStep, StopStep

LEMMA AccountInit == Init => AgeInv /\ ChangesAccounted
  BY DEF Init, AgeInv, ChangesAccounted, ListenerAt

\* A change of the rules that is not in use waits on the connection, is being handled, or
\* went down with a connection or a failed reload (_run_rules_reload_listener).
THEOREM NoChangeForgotten == Spec => []ChangesAccounted
  BY TypeInit, TypeStep, AccountInit, AgeStep, AccountStep, PTL DEF Spec

=============================================================================
