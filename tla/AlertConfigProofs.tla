------------------------- MODULE AlertConfigProofs -------------------------
(***************************************************************************)
(* Theorems about AlertConfig, for any number of requests, workers and     *)
(* alerts, any TTL and delay of a load, and any length of run.             *)
(***************************************************************************)
EXTENDS AlertConfig, TLAPS

\* A load at stage s has the query's answer for table t and goes on to store it.
ListedAt(s, t) ==
  s \in {"setAlerts", "setBindings"} \/ (s = "listBindings" /\ t = "alerts")

Listed(l, t) == ListedAt(loader[l].stage, t)

\* The inductive form of TypeOK: what is stored or returned was found or listed.
TypeInv ==
  /\ TypeOK
  /\ \A l \in Loader, t \in Table :
       Listed(l, t) \/ loader[l].stage = "done" => loader[l].value[t] \in Nat

\* Within one life the version of a row grows, so a client's version names one content
\* of the row; a new life starts at a commit that no client has read yet.
VersionInv ==
  /\ \A a \in Alert : row[a].life <= Latest("alerts") /\ (row[a].life = 0 => row[a] = Absent)
  /\ \A c \in Client : Decides(c) =>
       /\ Base(c).life <= Latest("alerts")
       /\ Base(c).life = 0 => Base(c) = Absent
       /\ Base(c).life = RowOf(c).life =>
            /\ Base(c).version <= RowOf(c).version
            /\ Base(c).version = RowOf(c).version => Base(c) = RowOf(c)

\* A value that was superseded was found before it was overdue; one that was listed by
\* a load was current when the load began.
ValueAge(log, v, started, listed) ==
  /\ v <= Len(log)
  /\ v < Len(log) =>
       /\ started < log[v + 1] + TTL + MaxDelay
       /\ listed => started <= log[v + 1]

\* A key is gone a TTL and a load after its value was superseded.
KeyAge(log, key, now) ==
  /\ key.value <= Len(log)
  /\ now < key.expiry /\ key.expiry <= now + TTL
  /\ key.value < Len(log) => key.expiry <= log[key.value + 1] + TTL + MaxDelay

\* Loads take at most MaxDelay, and what keys and loads hold has its age.
AgeInv ==
  /\ \A l \in Loader : loader[l].stage # "idle" =>
       /\ loader[l].started <= clock /\ clock <= loader[l].started + MaxDelay
       /\ \A t \in Table : Found(l, t) =>
            ValueAge(commits[t], loader[l].value[t], loader[l].started, Listed(l, t))
  /\ \A t \in Table : Present(t) => KeyAge(commits[t], cached[t], clock)

-----------------------------------------------------------------------------
(* Types. *)

LEMMA NoRequestType == NoRequest \in Request
<1>1. (CHOOSE a \in Alert : TRUE) \in Alert
  BY ConfigAssumption
<1> QED
  BY <1>1 DEF NoRequest, Request, Row, Absent, Table

LEMMA NoLoadType == NoLoad \in Load
  BY DEF NoLoad, Load, LoadStage, Missing

LEMMA LatestType ==
  ASSUME commits \in [Table -> Seq(Nat)], NEW t \in Table
  PROVE  Latest(t) \in Nat
  BY DEF Latest

\* What a commit leaves in the log and in the request that made it.
LEMMA CommitEffect ==
  ASSUME TypeOK, NEW c \in Client, NEW t \in Table, Commit(c, t)
  PROVE  /\ commits' \in [Table -> Seq(Nat)]
         /\ Latest(t)' = Latest(t) + 1
         /\ \A u \in Table : u # t => commits'[u] = commits[u]
         /\ \A i \in 1 .. Latest(t) : commits'[t][i] = commits[t][i]
         /\ commits'[t][Latest(t) + 1] = clock
         /\ client' \in [Client -> Request]
         /\ \A d \in Client : d # c => client'[d] = client[d]
         /\ client'[c].stage = "dropAlerts" /\ client'[c].table = t
         /\ client'[c].commit = Latest(t) + 1
<1>1. commits \in [Table -> Seq(Nat)] /\ clock \in Nat /\ Latest(t) \in Nat
  BY LatestType DEF TypeOK
<1>2. commits' = [commits EXCEPT ![t] = Append(@, clock)]
  BY DEF Commit
<1>3. commits[t] \in Seq(Nat) /\ commits'[t] = Append(commits[t], clock)
  BY <1>1, <1>2
<1>4. /\ commits' \in [Table -> Seq(Nat)]
      /\ \A u \in Table : u # t => commits'[u] = commits[u]
  BY <1>1, <1>2, <1>3
<1>5. /\ Latest(t)' = Latest(t) + 1
      /\ \A i \in 1 .. Latest(t) : commits'[t][i] = commits[t][i]
      /\ commits'[t][Latest(t) + 1] = clock
  BY <1>1, <1>3 DEF Latest
<1>6. client \in [Client -> Request] /\ NoRequest \in Request
  BY NoRequestType DEF TypeOK
<1>7. client' = [client EXCEPT ![c] = [NoRequest EXCEPT !.stage = "dropAlerts",
                                        !.table = t, !.commit = Latest(t) + 1]]
  BY DEF Commit
<1>8. \A n \in Nat : [NoRequest EXCEPT !.stage = "dropAlerts", !.table = t,
                                       !.commit = n] \in Request
  BY <1>6 DEF Request
<1>9. /\ client' \in [Client -> Request]
      /\ \A d \in Client : d # c => client'[d] = client[d]
      /\ client'[c].stage = "dropAlerts" /\ client'[c].table = t
      /\ client'[c].commit = Latest(t) + 1
  <2> DEFINE n == Latest(t) + 1
  <2>1. n \in Nat
    BY <1>1
  <2> HIDE DEF n
  <2>2. client' = [client EXCEPT ![c] = [NoRequest EXCEPT !.stage = "dropAlerts",
                                          !.table = t, !.commit = n]]
    BY <1>7 DEF n
  <2>3. /\ client' \in [Client -> Request]
        /\ \A d \in Client : d # c => client'[d] = client[d]
        /\ client'[c].stage = "dropAlerts" /\ client'[c].table = t
        /\ client'[c].commit = n
    BY <1>6, <1>8, <2>1, <2>2 DEF NoRequest
  <2> QED
    BY <2>3 DEF n
<1> QED
  BY <1>4, <1>5, <1>9

\* Every request's write to a table, and every action of a request that is no write.
Write(c) ==
  \/ Create(c) /\ RowOf(c) = Absent
  \/ Update(c) /\ Matches(c)
  \/ Delete(c) /\ RowOf(c) # Absent
  \/ UpsertBinding(c) \/ DeleteBinding(c)

LEMMA RequestCases ==
  ASSUME NEW c \in Client,
         OnlyRead(c) \/ Create(c) \/ Update(c) \/ Delete(c)
         \/ UpsertBinding(c) \/ DeleteBinding(c)
  PROVE  \/ Decides(c) /\ Answer(c)
         \/ Write(c)
  BY DEF OnlyRead, Create, Update, Delete, Write

\* The variables of the loads, which no request touches, and the other way round.
LoadSide == <<clock, loader>>

LEMMA WriteEffect ==
  ASSUME TypeOK, NEW c \in Client, Write(c)
  PROVE  /\ \E t \in Table : Commit(c, t) /\ (t = "bindings" => row' = row)
         /\ row' \in [Alert -> Row] /\ bound' \in BOOLEAN
         /\ UNCHANGED <<LoadSide, cached, faults, lost>>
<1>1. Latest("alerts") \in Nat /\ "alerts" \in Table /\ "bindings" \in Table
  BY LatestType DEF TypeOK, Table
<1>2. /\ client[c] \in Request /\ client[c].alert \in Alert
      /\ Base(c) \in Row /\ RowOf(c) \in Row /\ row \in [Alert -> Row]
  BY DEF TypeOK, Request, Base, RowOf
<1> DEFINE n == Latest("alerts") + 1
<1>n. n \in Nat
  BY <1>1
<1>a. /\ Create(c) /\ RowOf(c) = Absent
           => row' = [row EXCEPT ![client[c].alert] =
                        [life |-> n, commit |-> n, version |-> 1]]
      /\ Update(c) /\ Matches(c)
           => row' = [row EXCEPT ![client[c].alert].commit = n,
                                 ![client[c].alert].version = Base(c).version + 1]
  BY DEF Create, Update
<1> HIDE DEF n
<1>b. bound \in BOOLEAN
  BY DEF TypeOK
<1>3. CASE Create(c) /\ RowOf(c) = Absent
  <2>1. [life |-> n, commit |-> n, version |-> 1] \in Row
    BY <1>n DEF Row
  <2>2. row' \in [Alert -> Row]
    BY <1>2, <1>3, <1>a, <2>1
  <2> QED
    BY <1>1, <1>3, <1>b, <2>2 DEF Create, LoadSide
<1>4. CASE Update(c) /\ Matches(c)
  <2>1. row' \in [Alert -> Row]
    BY <1>2, <1>4, <1>a, <1>n DEF Row
  <2> QED
    BY <1>1, <1>4, <1>b, <2>1 DEF Update, LoadSide
<1>5. CASE Delete(c) /\ RowOf(c) # Absent
  <2>1. Absent \in Row
    BY DEF Absent, Row
  <2>2. row' \in [Alert -> Row]
    BY <1>2, <1>5, <2>1 DEF Delete
  <2> QED
    BY <1>1, <1>5, <1>b, <2>2 DEF Delete, LoadSide
<1>6. CASE UpsertBinding(c) \/ DeleteBinding(c)
  BY <1>1, <1>2, <1>6 DEF UpsertBinding, DeleteBinding, LoadSide
<1> QED
  BY <1>3, <1>4, <1>5, <1>6 DEF Write

LEMMA TypeInit == Init => TypeInv
<1> SUFFICES ASSUME Init PROVE TypeInv
  OBVIOUS
<1>1. Absent \in Row /\ NotCached \in Cached /\ <<>> \in Seq(Nat)
  BY DEF Absent, Row, NotCached, Cached
<1>2. TypeOK
  BY <1>1, NoRequestType, NoLoadType DEF Init, TypeOK
<1> QED
  BY <1>2 DEF TypeInv, Init, NoLoad, Listed, ListedAt

\* A step of load l that leaves it at v.
LEMMA LoadStepType ==
  ASSUME TypeInv, NEW l \in Loader, NEW v \in Load,
         loader' = [loader EXCEPT ![l] = v],
         cached' \in [Table -> Cached], faults' \in Nat,
         UNCHANGED <<clock, row, bound, commits, client, lost>>,
         \A t \in Table : ListedAt(v.stage, t) \/ v.stage = "done" => v.value[t] \in Nat
  PROVE  TypeInv'
<1>1. loader \in [Loader -> Load]
  BY DEF TypeInv, TypeOK
<1>2. /\ loader' \in [Loader -> Load] /\ loader'[l] = v
      /\ \A k \in Loader : k # l => loader'[k] = loader[k]
  BY <1>1
<1>3. TypeOK'
  BY <1>2 DEF TypeInv, TypeOK
<1>4. \A k \in Loader, t \in Table :
        ListedAt(loader'[k].stage, t) \/ loader'[k].stage = "done"
          => loader'[k].value[t] \in Nat
  <2> TAKE k \in Loader, t \in Table
  <2>1. CASE k = l
    BY <1>2, <2>1
  <2>2. CASE k # l
    BY <1>2, <2>2 DEF TypeInv, Listed
  <2> QED
    BY <2>1, <2>2
<1> QED
  BY <1>3, <1>4 DEF TypeInv, Listed

LEMMA LoadStep ==
  ASSUME TypeInv, NEW l \in Loader,
         \/ GetAlerts(l) \/ GetBindings(l) \/ ListAlerts(l) \/ ListBindings(l)
         \/ SetAlerts(l) \/ SetBindings(l) \/ Return(l) \/ LoadFails(l)
  PROVE  TypeInv'
<1>1. /\ "alerts" \in Table /\ "bindings" \in Table
      /\ \A t \in Table : t = "alerts" \/ t = "bindings"
  BY DEF Table
<1>2. /\ loader \in [Loader -> Load] /\ loader[l] \in Load
      /\ cached \in [Table -> Cached] /\ faults \in Nat /\ clock \in Nat
  BY DEF TypeInv, TypeOK
<1>3. /\ loader[l].value \in [Table -> Nat \cup {Missing}]
      /\ \A t \in Table : cached[t].value \in Nat
      /\ Missing \in Nat \cup {Missing}
  BY <1>2 DEF Load, Cached
<1>4. \A t \in Table : Latest(t) \in Nat
  BY LatestType DEF TypeInv, TypeOK
<1>5. CASE GetAlerts(l)
  <2> DEFINE f == [t \in Table |-> IF t = "alerts" /\ Present(t) THEN cached[t].value
                                   ELSE Missing]
             v == [stage |-> "getBindings", started |-> clock, value |-> f]
  <2>1. f \in [Table -> Nat \cup {Missing}]
    BY <1>3
  <2>2. loader' = [loader EXCEPT ![l] = v]
    BY <1>5 DEF GetAlerts
  <2> HIDE DEF f
  <2>3. v \in Load
    BY <1>2, <2>1 DEF Load, LoadStage
  <2> QED
    BY <1>2, <1>5, <2>2, <2>3, LoadStepType DEF GetAlerts, ListedAt
<1>6. CASE GetBindings(l) /\ Found(l, "alerts") /\ Present("bindings")
  <2> DEFINE v == [loader[l] EXCEPT !.stage = "done",
                                    !.value["bindings"] = cached["bindings"].value]
  <2>1. loader' = [loader EXCEPT ![l] = v]
    BY <1>2, <1>6 DEF GetBindings
  <2>2. v \in Load
    BY <1>1, <1>2, <1>3 DEF Load, LoadStage
  <2>3. \A t \in Table : v.value[t] \in Nat
    BY <1>1, <1>2, <1>3, <1>6 DEF Found, Load
  <2> HIDE DEF v
  <2> QED
    BY <1>2, <1>6, <2>1, <2>2, <2>3, LoadStepType DEF GetBindings
<1>7. CASE GetBindings(l) /\ ~(Found(l, "alerts") /\ Present("bindings"))
  <2> DEFINE v == [loader[l] EXCEPT !.stage = "listAlerts",
                                    !.value["alerts"] = Missing]
  <2>1. loader' = [loader EXCEPT ![l] = v]
    BY <1>2, <1>7 DEF GetBindings
  <2>2. v \in Load /\ v.stage = "listAlerts"
    BY <1>1, <1>2, <1>3 DEF Load, LoadStage
  <2> HIDE DEF v
  <2> QED
    BY <1>2, <1>7, <2>1, <2>2, LoadStepType DEF GetBindings, ListedAt
<1>8. ASSUME NEW t \in Table, NEW from, NEW to \in LoadStage, List(l, t, from, to),
             \A u \in Table : ListedAt(to, u) => u = t \/ loader[l].value[u] \in Nat,
             to # "done"
      PROVE  TypeInv'
  <2> DEFINE n == Latest(t)
             v == [loader[l] EXCEPT !.stage = to, !.value[t] = n]
  <2>1. loader' = [loader EXCEPT ![l] = v]
    BY <1>2, <1>8 DEF List
  <2>2. n \in Nat
    BY <1>4
  <2> HIDE DEF n
  <2>3. v \in Load /\ v.stage = to
    BY <1>2, <1>3, <1>8, <2>2 DEF Load
  <2>4. \A u \in Table : v.value[u] = IF u = t THEN n ELSE loader[l].value[u]
    BY <1>2, <1>3 DEF Load
  <2> HIDE DEF v
  <2>5. \A u \in Table : ListedAt(v.stage, u) \/ v.stage = "done" => v.value[u] \in Nat
    BY <1>8, <2>2, <2>3, <2>4
  <2>6. /\ cached' \in [Table -> Cached] /\ faults' \in Nat
        /\ UNCHANGED <<clock, row, bound, commits, client, lost>>
    BY <1>2, <1>8 DEF List
  <2> QED
    BY <2>1, <2>3, <2>5, <2>6, LoadStepType
<1>9. CASE ListAlerts(l)
  <2>1. \A u \in Table : ListedAt("listBindings", u) => u = "alerts"
    BY DEF ListedAt
  <2> QED
    BY <1>1, <1>8, <1>9, <2>1 DEF ListAlerts, LoadStage
<1>10. CASE ListBindings(l)
  <2>1. loader[l].value["alerts"] \in Nat
    BY <1>1, <1>10 DEF TypeInv, Listed, ListedAt, ListBindings, List
  <2> QED
    BY <1>1, <1>8, <1>10, <2>1 DEF ListBindings, LoadStage
<1>11. ASSUME NEW t \in Table, NEW from, NEW to \in {"setBindings", "done"},
              Store(l, t, from, to), from \in {"setAlerts", "setBindings"}
       PROVE  TypeInv'
  <2> DEFINE v == [loader[l] EXCEPT !.stage = to]
  <2>1. loader' = [loader EXCEPT ![l] = v]
    BY <1>2, <1>11 DEF Store, LoaderStep
  <2>2. v \in Load /\ v.stage = to /\ v.value = loader[l].value
    BY <1>2, <1>11 DEF Load, LoadStage
  <2>3. \A u \in Table : loader[l].value[u] \in Nat
    <3>0. loader[l].stage = from
      BY <1>11 DEF Store, LoaderStep
    <3>1. \A u \in Table : Listed(l, u)
      BY <1>11, <3>0 DEF Listed, ListedAt
    <3> QED
      BY <3>1 DEF TypeInv
  <2>4. Entry(l, t) \in Cached
    BY <1>2, <2>3, ConfigAssumption DEF Entry, Cached
  <2>5. cached' \in [Table -> Cached]
    BY <1>2, <1>11, <2>4 DEF Store
  <2> HIDE DEF v
  <2> QED
    BY <1>2, <1>11, <2>1, <2>2, <2>3, <2>5, LoadStepType DEF Store
<1>12. CASE SetAlerts(l) \/ SetBindings(l)
  BY <1>1, <1>11, <1>12 DEF SetAlerts, SetBindings
<1>13. CASE Return(l) \/ LoadFails(l)
  BY <1>2, <1>13, NoLoadType, LoadStepType DEF Return, LoadFails, NoLoad, ListedAt
<1> QED
  BY <1>5, <1>6, <1>7, <1>9, <1>10, <1>12, <1>13

LEMMA TypeStep == TypeInv /\ [Next]_vars => TypeInv'
<1> SUFFICES ASSUME TypeInv, [Next]_vars PROVE TypeInv'
  OBVIOUS
<1>t. "alerts" \in Table /\ "bindings" \in Table
  BY DEF Table
<1>u. ASSUME loader' = loader, TypeOK'
      PROVE  TypeInv'
  BY <1>u DEF TypeInv, Listed
<1>v. TypeOK /\ client \in [Client -> Request]
  BY DEF TypeInv, TypeOK
<1>1. ASSUME NEW c \in Client, Answer(c)
      PROVE  TypeInv'
  BY <1>1, <1>u, <1>v, NoRequestType DEF Answer, TypeOK
<1>2. ASSUME NEW c \in Client, Write(c)
      PROVE  TypeInv'
  <2>1. PICK t \in Table : Commit(c, t)
    BY <1>2, <1>v, WriteEffect
  <2>2. commits' \in [Table -> Seq(Nat)] /\ client' \in [Client -> Request]
    BY <1>v, <2>1, CommitEffect
  <2> QED
    BY <1>2, <1>u, <1>v, <2>2, WriteEffect DEF TypeOK, LoadSide
<1>3. ASSUME NEW c \in Client, NEW a \in Alert, ReadAlert(c, a)
      PROVE  TypeInv'
  <2>1. row[a] \in Row
    BY <1>v DEF TypeOK
  <2>2. client' \in [Client -> Request]
    BY <1>3, <1>v, <2>1 DEF ReadAlert, Request
  <2> QED
    BY <1>3, <1>u, <1>v, <2>2 DEF ReadAlert, TypeOK
<1>4. ASSUME NEW c \in Client, DropAlerts(c) \/ DropBindings(c)
      PROVE  TypeInv'
  <2>1. NotCached \in Cached
    BY DEF NotCached, Cached
  <2>2. client' \in [Client -> Request]
    BY <1>4, <1>v, NoRequestType DEF DropAlerts, DropBindings, Request
  <2>3. cached' \in [Table -> Cached]
    BY <1>4, <1>t, <1>v, <2>1 DEF DropAlerts, DropBindings, TypeOK
  <2> QED
    BY <1>4, <1>u, <1>v, <2>2, <2>3 DEF DropAlerts, DropBindings, TypeOK
<1>5. ASSUME NEW c \in Client, RequestFails(c)
      PROVE  TypeInv'
  <2>1. client[c].commit \in Nat
    BY <1>v DEF Request
  <2> QED
    BY <1>5, <1>u, <1>v, <2>1, NoRequestType DEF RequestFails, TypeOK
<1>11. CASE Tick
  <2>1. NotCached \in Cached
    BY DEF NotCached, Cached
  <2> QED
    BY <1>11, <1>u, <1>v, <2>1 DEF Tick, TypeOK
<1>12. CASE UNCHANGED vars
  BY <1>12, <1>u, <1>v DEF vars, TypeOK
<1> QED
  BY <1>1, <1>2, <1>3, <1>4, <1>5, <1>11, <1>12, RequestCases, LoadStep DEF Next

\* Every variable keeps its type, whatever requests and loads do.
THEOREM TypeCorrect == Spec => []TypeOK
<1>1. Spec => []TypeInv
  BY TypeInit, TypeStep, PTL DEF Spec
<1>2. TypeInv => TypeOK
  BY DEF TypeInv
<1> QED
  BY <1>1, <1>2, PTL

-----------------------------------------------------------------------------
(* Versions. *)

\* A client's step to an update of the row it read.
LEMMA OverwritesByUpdate ==
  ASSUME TypeOK, [Next]_vars, NEW c \in Client, Overwrites(c)
  PROVE  Update(c) /\ Matches(c) /\ Base(c) # Absent
<1>1. client \in [Client -> Request] /\ client[c].stage = "decide"
  BY DEF TypeOK, Overwrites, Decides
<1>2. ASSUME NEW d \in Client, Answer(d)
      PROVE  FALSE
  BY <1>1, <1>2 DEF Answer, Overwrites, NoRequest
<1>3. ASSUME NEW d \in Client, Write(d), d # c
      PROVE  FALSE
  BY <1>1, <1>3, WriteEffect, CommitEffect DEF Overwrites
<1>4. CASE Write(c)
  <2>1. ~Create(c) \/ RowOf(c) # Absent
    BY DEF Overwrites
  <2>2. ~UpsertBinding(c) /\ ~DeleteBinding(c)
    BY <1>1 DEF UpsertBinding, DeleteBinding
  <2>3. client[c].alert \in Alert /\ row \in [Alert -> Row]
    BY <1>1 DEF Request, TypeOK
  <2>4. ~(Delete(c) /\ RowOf(c) # Absent)
    BY <2>3 DEF Delete, Overwrites
  <2> QED
    BY <1>4, <2>1, <2>2, <2>4 DEF Write, Update
<1>5. ASSUME NEW d \in Client, NEW a \in Alert, ReadAlert(d, a)
      PROVE  FALSE
  BY <1>1, <1>5 DEF ReadAlert, Overwrites
<1>6. ASSUME NEW d \in Client, DropAlerts(d) \/ DropBindings(d) \/ RequestFails(d)
      PROVE  FALSE
  BY <1>1, <1>6 DEF DropAlerts, DropBindings, RequestFails, Overwrites, NoRequest
<1>7. ASSUME client' = client
      PROVE  FALSE
  BY <1>1, <1>7 DEF Overwrites
<1>8. ASSUME NEW l \in Loader,
             \/ GetAlerts(l) \/ GetBindings(l) \/ ListAlerts(l) \/ ListBindings(l)
             \/ SetAlerts(l) \/ SetBindings(l) \/ Return(l) \/ LoadFails(l)
      PROVE  client' = client
  BY <1>8 DEF GetAlerts, GetBindings, ListAlerts, ListBindings, List, SetAlerts,
     SetBindings, Store, Return, LoadFails
<1>9. Tick \/ UNCHANGED vars => client' = client
  BY DEF Tick, vars
<1> QED
  BY <1>2, <1>3, <1>4, <1>5, <1>6, <1>7, <1>8, <1>9, RequestCases DEF Next

\* What a client that read b knows of the row r of its alert after n commits.
BaseInv(b, r, n) ==
  /\ b.life <= n
  /\ b.life = 0 => b = Absent
  /\ b.life = r.life =>
       /\ b.version <= r.version
       /\ b.version = r.version => b = r

LEMMA VersionInit == Init => VersionInv
<1> SUFFICES ASSUME Init PROVE VersionInv
  OBVIOUS
<1>1. Latest("alerts") = 0
  BY DEF Init, Latest, Table
<1> QED
  BY <1>1 DEF Init, VersionInv, Absent, NoRequest, Decides

\* A step that leaves the rows alone keeps VersionInv when it leaves every client that
\* decides alone, or lets it read a row.
LEMMA SameRows ==
  ASSUME TypeOK, VersionInv, row' = row, Latest("alerts")' = Latest("alerts"),
         \A c \in Client : client'[c].stage = "decide" =>
           \/ client'[c] = client[c]
           \/ client'[c].alert \in Alert /\ client'[c].base = row[client'[c].alert]
  PROVE  VersionInv'
<1>1. \A a \in Alert : row[a].version \in Nat
  BY DEF TypeOK, Row
<1> QED
  BY <1>1 DEF VersionInv, Decides, Base, RowOf

LEMMA VersionWrite ==
  ASSUME TypeOK, VersionInv, NEW c \in Client, Write(c)
  PROVE  VersionInv'
<1>1. PICK t \in Table : Commit(c, t) /\ (t = "bindings" => row' = row)
  BY WriteEffect
<1>2. /\ client'[c].stage = "dropAlerts"
      /\ \A d \in Client : d # c => client'[d] = client[d]
      /\ \A u \in Table : u # t => commits'[u] = commits[u]
      /\ Latest(t)' = Latest(t) + 1
  BY <1>1, CommitEffect
<1>3. CASE t = "bindings"
  <2>1. Latest("alerts")' = Latest("alerts")
    BY <1>2, <1>3 DEF Latest, Table
  <2> QED
    BY <1>1, <1>2, <1>3, <2>1, SameRows
<1>4. CASE t = "alerts"
  <2>1. Latest("alerts")' = Latest("alerts") + 1 /\ Latest("alerts") \in Nat
    BY <1>2, <1>4, LatestType DEF TypeOK
  <2> DEFINE n == Latest("alerts")
             a == client[c].alert
  <2>2. /\ a \in Alert /\ row \in [Alert -> Row] /\ row' \in [Alert -> Row]
        /\ client \in [Client -> Request] /\ Base(c) \in Row
    BY WriteEffect DEF TypeOK, Request, Base
  <2>3. /\ \A b \in Alert : b # a => row'[b] = row[b]
        /\ \/ row[a] = Absent /\ row'[a] = [life |-> n + 1, commit |-> n + 1, version |-> 1]
           \/ /\ row[a] # Absent
              /\ row'[a].life = row[a].life
              /\ row'[a].version = row[a].version + 1
           \/ row'[a] = Absent
    <3>1. CASE Create(c) /\ RowOf(c) = Absent
      BY <2>2, <3>1 DEF Create, RowOf
    <3>2. CASE Update(c) /\ Matches(c)
      BY <2>2, <3>2 DEF Update, Matches, RowOf, Base, Row
    <3>3. CASE Delete(c) /\ RowOf(c) # Absent
      BY <2>2, <3>3 DEF Delete
    <3>4. CASE UpsertBinding(c) \/ DeleteBinding(c)
      <4>1. Commit(c, "bindings")
        BY <3>4 DEF UpsertBinding, DeleteBinding
      <4>2. commits'["alerts"] = commits["alerts"]
        BY <4>1, CommitEffect DEF Table
      <4> QED
        BY <2>1, <4>2 DEF Latest
    <3> QED
      BY <3>1, <3>2, <3>3, <3>4 DEF Write
  <2>4. ASSUME NEW b \in Alert
        PROVE  row'[b].life <= n + 1 /\ (row'[b].life = 0 => row'[b] = Absent)
    <3>1. /\ row[b].life \in Nat /\ row[a].life \in Nat
          /\ row[b].life <= n /\ (row[b].life = 0 => row[b] = Absent)
          /\ row[a].life <= n /\ (row[a].life = 0 => row[a] = Absent)
      BY <2>2 DEF VersionInv, Row
    <3> QED
      BY <2>1, <2>3, <3>1 DEF Absent
  <2>5. ASSUME NEW d \in Client, client'[d].stage = "decide"
        PROVE  BaseInv(client'[d].base, row'[client'[d].alert], n + 1)
    <3>1. client'[d] = client[d] /\ Decides(d)
      BY <1>2, <2>5 DEF Decides
    <3> DEFINE b == client[d].base
               r == row[client[d].alert]
               s == row'[client[d].alert]
    <3>2. /\ b \in Row /\ r \in Row /\ s \in Row
          /\ row[a] \in Row
      BY <2>2 DEF Request
    <3>3. /\ b.life <= n /\ (b.life = 0 => b = Absent)
          /\ b.life = r.life => b.version <= r.version /\ (b.version = r.version => b = r)
      BY <3>1 DEF VersionInv, Base, RowOf
    <3>4. \/ s = r
          \/ s = [life |-> n + 1, commit |-> n + 1, version |-> 1]
          \/ s.life = r.life /\ s.version = r.version + 1
          \/ s = Absent
      BY <2>2, <2>3 DEF Request
    <3>5. b.life = s.life => b.version <= s.version /\ (b.version = s.version => b = s)
      <4>1. b.life \in Nat /\ b.version \in Nat /\ r.version \in Nat /\ n \in Nat
        BY <2>1, <3>2 DEF Row
      <4> HIDE DEF n, b, r, s
      <4> QED
        BY <3>3, <3>4, <4>1 DEF Absent
    <3>6. b.life \in Nat /\ b.life <= n + 1
      BY <2>1, <3>2, <3>3 DEF Row
    <3> QED
      BY <3>1, <3>3, <3>5, <3>6 DEF BaseInv
  <2> QED
    BY <2>1, <2>4, <2>5 DEF VersionInv, BaseInv, Decides, Base, RowOf
<1> QED
  BY <1>3, <1>4 DEF Table

\* What the loads and time leave alone.
LEMMA LoadFrame ==
  ASSUME NEW l \in Loader,
         \/ GetAlerts(l) \/ GetBindings(l) \/ ListAlerts(l) \/ ListBindings(l)
         \/ SetAlerts(l) \/ SetBindings(l) \/ Return(l) \/ LoadFails(l)
  PROVE  UNCHANGED <<clock, row, bound, commits, client, lost>>
  BY DEF GetAlerts, GetBindings, ListAlerts, ListBindings, List, SetAlerts, SetBindings,
     Store, Return, LoadFails

LEMMA VersionStep == TypeInv /\ VersionInv /\ [Next]_vars => VersionInv'
<1> SUFFICES ASSUME TypeInv, VersionInv, [Next]_vars PROVE VersionInv'
  OBVIOUS
<1>t. TypeOK /\ client \in [Client -> Request]
  BY DEF TypeInv, TypeOK
<1>1. ASSUME NEW c \in Client, Write(c)
      PROVE  VersionInv'
  BY <1>1, <1>t, VersionWrite
<1>2. ASSUME UNCHANGED <<row, commits, client>>
      PROVE  VersionInv'
  <2>1. Latest("alerts")' = Latest("alerts")
    BY <1>2 DEF Latest
  <2> QED
    BY <1>2, <1>t, <2>1, SameRows
<1>3. ASSUME NEW c \in Client, UNCHANGED <<row, commits>>,
             \/ client' = [client EXCEPT ![c] = NoRequest]
             \/ client' = [client EXCEPT ![c].stage = "dropBindings"]
      PROVE  VersionInv'
  <2>1. \A d \in Client : client'[d].stage = "decide" => client'[d] = client[d]
    BY <1>3, <1>t DEF NoRequest, Request
  <2>2. Latest("alerts")' = Latest("alerts")
    BY <1>3 DEF Latest
  <2> QED
    BY <1>3, <1>t, <2>1, <2>2, SameRows
<1>4. ASSUME NEW c \in Client, Answer(c) \/ DropAlerts(c) \/ DropBindings(c) \/ RequestFails(c)
      PROVE  VersionInv'
  BY <1>3, <1>4 DEF Answer, DropAlerts, DropBindings, RequestFails
<1>5. ASSUME NEW c \in Client, NEW a \in Alert, ReadAlert(c, a)
      PROVE  VersionInv'
  <2>1. /\ client'[c].alert = a /\ client'[c].base = row[a]
        /\ \A d \in Client : d # c => client'[d] = client[d]
    BY <1>5, <1>t DEF ReadAlert, Request
  <2>2. Latest("alerts")' = Latest("alerts") /\ row' = row
    BY <1>5 DEF ReadAlert, Latest
  <2> QED
    BY <1>t, <2>1, <2>2, SameRows
<1>6. Tick \/ UNCHANGED vars => UNCHANGED <<row, commits, client>>
  BY DEF Tick, vars
<1> QED
  BY <1>1, <1>2, <1>4, <1>5, <1>6, RequestCases, LoadFrame DEF Next

\* The version check refuses every update of an alert, in one life of its id, that is
\* not based on the last one, for any number of clients and commits.
THEOREM UpdatesAreChecked == Spec => NoLostUpdate
<1>1. TypeInv /\ VersionInv /\ [Next]_vars =>
        [\A c \in Client :
           Overwrites(c) /\ Base(c).life = RowOf(c).life => Base(c) = RowOf(c)]_vars
  <2> SUFFICES ASSUME TypeInv, VersionInv, [Next]_vars, NEW c \in Client,
                      Overwrites(c), Base(c).life = RowOf(c).life
               PROVE  Base(c) = RowOf(c)
    OBVIOUS
  <2>1. Matches(c) /\ Decides(c)
    BY OverwritesByUpdate DEF TypeInv, Overwrites
  <2> QED
    BY <2>1 DEF VersionInv, Matches
<1>2. Spec => [](TypeInv /\ VersionInv)
  BY TypeInit, TypeStep, VersionInit, VersionStep, PTL DEF Spec
<1> QED
  BY <1>1, <1>2, PTL DEF Spec, NoLostUpdate

-----------------------------------------------------------------------------
(* Invalidation. *)

\* The commits that key t has not seen are pending or lost.
Reached(t) ==
  Present(t) /\ cached[t].fresh =>
    \A n \in cached[t].value + 1 .. Latest(t) :
      n \in lost[t] \/ \E c \in Client : Dropping(c, t) /\ client[c].commit = n

\* Nothing is lost for key t by a step after which it is gone, or as it was with its
\* table, while every request that had to drop it still has to, or is lost.
LEMMA ReachedFrame ==
  ASSUME NEW t \in Table, Reached(t),
         \/ ~Present(t)'
         \/ /\ cached'[t] = cached[t] /\ commits'[t] = commits[t]
            /\ lost[t] \subseteq lost'[t]
            /\ \A c \in Client : Dropping(c, t) =>
                 \/ Dropping(c, t)' /\ client'[c].commit = client[c].commit
                 \/ client[c].commit \in lost'[t]
  PROVE  Reached(t)'
<1>1. CASE ~Present(t)'
  BY <1>1 DEF Reached
<1>2. CASE Present(t)'
  <2>1. Present(t) /\ cached'[t] = cached[t] /\ Latest(t)' = Latest(t)
    BY <1>2 DEF Present, Latest
  <2>2. ASSUME cached[t].fresh, NEW n \in cached[t].value + 1 .. Latest(t)
        PROVE  n \in lost'[t] \/ \E c \in Client : Dropping(c, t)' /\ client'[c].commit = n
    BY <1>2, <2>1, <2>2 DEF Reached
  <2> QED
    BY <2>1, <2>2 DEF Reached
<1> QED
  BY <1>1, <1>2

LEMMA ReachedStep ==
  TypeInv /\ InvalidationReaches /\ [Next]_vars => InvalidationReaches'
<1> SUFFICES ASSUME TypeInv, InvalidationReaches, [Next]_vars, NEW t \in Table
             PROVE  Reached(t)'
  BY DEF InvalidationReaches, Reached
<1>t. /\ TypeOK /\ client \in [Client -> Request] /\ cached \in [Table -> Cached]
      /\ loader \in [Loader -> Load] /\ Latest(t) \in Nat /\ lost \in [Table -> SUBSET Nat]
      /\ Table = {"alerts", "bindings"}
  BY LatestType DEF TypeInv, TypeOK, Table
<1>r. Reached(t)
  BY DEF InvalidationReaches, Reached
<1>1. ASSUME NEW c \in Client, Write(c)
      PROVE  Reached(t)'
  <2>1. PICK u \in Table : Commit(c, u)
    BY <1>1, <1>t, WriteEffect
  <2>2. UNCHANGED <<cached, lost>> /\ client[c].stage \in {"idle", "decide"}
    BY <1>1, <1>t, WriteEffect DEF Write, Create, Update, Delete, UpsertBinding,
       DeleteBinding, Decides
  <2>3. /\ \A d \in Client : Dropping(d, t) => d # c
        /\ \A d \in Client : d # c => client'[d] = client[d]
        /\ Dropping(c, u)' /\ client'[c].commit = Latest(u) + 1
    BY <1>t, <2>1, <2>2, CommitEffect DEF Dropping
  <2>4. CASE u # t
    <3>1. commits'[t] = commits[t]
      BY <1>t, <2>1, <2>4, CommitEffect
    <3> QED
      BY <1>r, <2>2, <2>3, <3>1, ReachedFrame DEF Dropping
  <2>5. CASE u = t
    <3>1. Latest(t)' = Latest(t) + 1 /\ cached[t].value \in Nat
      BY <1>t, <2>1, <2>5, CommitEffect DEF Cached
    <3>2. ASSUME Present(t), cached[t].fresh,
                 NEW n \in cached[t].value + 1 .. Latest(t) + 1
          PROVE  n \in lost[t] \/ \E d \in Client : Dropping(d, t)' /\ client'[d].commit = n
      <4>1. CASE n = Latest(t) + 1
        BY <2>3, <2>5, <4>1
      <4>2. CASE n # Latest(t) + 1
        <5>1. n \in cached[t].value + 1 .. Latest(t)
          BY <1>t, <3>1, <3>2, <4>2
        <5>2. n \in lost[t] \/ \E d \in Client : Dropping(d, t) /\ client[d].commit = n
          BY <1>r, <3>2, <5>1 DEF Reached
        <5> QED
          BY <2>3, <5>2 DEF Dropping
      <4> QED
        BY <4>1, <4>2
    <3> QED
      BY <2>2, <3>1, <3>2 DEF Reached, Present
  <2> QED
    BY <2>4, <2>5
<1>2. ASSUME NEW c \in Client, Decides(c) /\ Answer(c)
      PROVE  Reached(t)'
  BY <1>2, <1>r, <1>t, ReachedFrame DEF Answer, Decides, Dropping
<1>3. ASSUME NEW c \in Client, NEW a \in Alert, ReadAlert(c, a)
      PROVE  Reached(t)'
  BY <1>3, <1>r, <1>t, ReachedFrame DEF ReadAlert, Dropping
<1>4. ASSUME NEW c \in Client, DropAlerts(c)
      PROVE  Reached(t)'
  <2>1. CASE t = "alerts"
    BY <1>4, <1>r, <1>t, <2>1, ReachedFrame DEF DropAlerts, Present
  <2>2. CASE t = "bindings"
    <3>1. cached'[t] = cached[t] /\ commits'[t] = commits[t] /\ lost'[t] = lost[t]
      BY <1>4, <1>t, <2>2 DEF DropAlerts
    <3>2. \A d \in Client : Dropping(d, t) =>
            Dropping(d, t)' /\ client'[d].commit = client[d].commit
      BY <1>4, <1>t, <2>2 DEF DropAlerts, Dropping, Request
    <3> QED
      BY <1>r, <3>1, <3>2, ReachedFrame
  <2> QED
    BY <1>t, <2>1, <2>2
<1>5. ASSUME NEW c \in Client, DropBindings(c)
      PROVE  Reached(t)'
  <2>1. CASE t = "bindings"
    BY <1>5, <1>r, <1>t, <2>1, ReachedFrame DEF DropBindings, Present
  <2>2. CASE t = "alerts"
    <3>1. cached'[t] = cached[t] /\ commits'[t] = commits[t] /\ lost'[t] = lost[t]
      BY <1>5, <1>t, <2>2 DEF DropBindings
    <3>2. \A d \in Client : Dropping(d, t) => client'[d] = client[d]
      BY <1>5, <1>t, <2>2 DEF DropBindings, Dropping
    <3> QED
      BY <1>r, <3>1, <3>2, ReachedFrame DEF Dropping
  <2> QED
    BY <1>t, <2>1, <2>2
<1>6. ASSUME NEW c \in Client, RequestFails(c)
      PROVE  Reached(t)'
  <2>1. /\ lost'[t] = IF Dropping(c, t) THEN lost[t] \cup {client[c].commit} ELSE lost[t]
        /\ \A d \in Client : d # c => client'[d] = client[d]
        /\ UNCHANGED <<cached, commits>>
    BY <1>6, <1>t DEF RequestFails
  <2> QED
    BY <1>r, <2>1, ReachedFrame DEF Dropping
<1>7. ASSUME NEW l \in Loader, SetAlerts(l) \/ SetBindings(l)
      PROVE  Reached(t)'
  <2>1. PICK u \in Table : cached' = [cached EXCEPT ![u] = Entry(l, u)]
    BY <1>7, <1>t DEF SetAlerts, SetBindings, Store
  <2>2. UNCHANGED <<commits, client, lost>>
    BY <1>7, LoadFrame
  <2>3. CASE u # t
    BY <1>r, <1>t, <2>1, <2>2, <2>3, ReachedFrame DEF Dropping
  <2>4. CASE u = t
    <3>1. /\ cached'[t].fresh => cached'[t].value = Latest(t)
          /\ Latest(t)' = Latest(t)
      BY <1>t, <2>1, <2>2, <2>4 DEF Entry, Latest
    <3> QED
      BY <1>t, <3>1 DEF Reached
  <2> QED
    BY <2>3, <2>4
<1>8. ASSUME UNCHANGED <<commits, client, lost>>,
             cached'[t] = cached[t] \/ cached'[t] = NotCached
      PROVE  Reached(t)'
  BY <1>8, <1>r, ReachedFrame DEF Dropping, Present
<1>9. ASSUME NEW l \in Loader,
             \/ GetAlerts(l) \/ GetBindings(l) \/ ListAlerts(l) \/ ListBindings(l)
             \/ Return(l) \/ LoadFails(l)
      PROVE  Reached(t)'
  BY <1>8, <1>9, LoadFrame DEF GetAlerts, GetBindings, ListAlerts, ListBindings, List,
     Return, LoadFails
<1>10. CASE Tick
  BY <1>8, <1>10 DEF Tick
<1>11. CASE UNCHANGED vars
  BY <1>8, <1>11 DEF vars
<1> QED
  BY <1>1, <1>2, <1>3, <1>4, <1>5, <1>6, <1>7, <1>9, <1>10, <1>11, RequestCases DEF Next

\* Once a request is through with its invalidation, no key holds a snapshot that was
\* current when it was stored and has missed that request's commit.
THEOREM InvalidationsReach == Spec => []InvalidationReaches
<1>1. Init => InvalidationReaches
  BY DEF Init, InvalidationReaches, Present
<1>2. Spec => [](TypeInv /\ InvalidationReaches)
  BY <1>1, TypeInit, TypeStep, ReachedStep, PTL DEF Spec
<1> QED
  BY <1>2, PTL

-----------------------------------------------------------------------------
(* Age. *)

\* A commit supersedes the latest value, at a time that is no hurry for anyone.
LEMMA AgeAppend ==
  ASSUME NEW log \in Seq(Nat), NEW new \in Seq(Nat), NEW now \in Nat,
         Len(new) = Len(log) + 1, new[Len(log) + 1] = now,
         \A i \in 1 .. Len(log) : new[i] = log[i]
  PROVE  /\ \A v \in Nat, started \in Nat, listed \in BOOLEAN :
              started <= now /\ ValueAge(log, v, started, listed)
                => ValueAge(new, v, started, listed)
         /\ \A key \in Cached : KeyAge(log, key, now) => KeyAge(new, key, now)
<1>1. Len(log) \in Nat /\ TTL \in Nat \ {0} /\ MaxDelay \in Nat
  BY ConfigAssumption
<1>2. ASSUME NEW v \in Nat, NEW started \in Nat, NEW listed \in BOOLEAN,
             started <= now, ValueAge(log, v, started, listed)
      PROVE  ValueAge(new, v, started, listed)
  <2>1. CASE v < Len(log)
    <3>1. v + 1 \in 1 .. Len(log) /\ new[v + 1] = log[v + 1]
      BY <1>1, <1>2, <2>1
    <3> QED
      BY <1>1, <1>2, <2>1, <3>1 DEF ValueAge
  <2>2. CASE v = Len(log)
    BY <1>1, <1>2, <2>2 DEF ValueAge
  <2> QED
    BY <1>1, <1>2, <2>1, <2>2 DEF ValueAge
<1>3. ASSUME NEW key \in Cached, KeyAge(log, key, now)
      PROVE  KeyAge(new, key, now)
  <2>1. key.value \in Nat /\ key.expiry \in Nat
    BY DEF Cached
  <2>2. CASE key.value < Len(log)
    <3> DEFINE i == key.value + 1
    <3>1. i \in 1 .. Len(log)
      BY <1>1, <2>1, <2>2
    <3> HIDE DEF i
    <3>2. new[i] = log[i] /\ log[i] \in Nat
      BY <3>1
    <3>3. key.expiry <= log[i] + TTL + MaxDelay
      BY <1>3, <2>2 DEF KeyAge, i
    <3>4. key.expiry <= new[key.value + 1] + TTL + MaxDelay
      BY <3>2, <3>3 DEF i
    <3>5. /\ key.value <= Len(new)
          /\ now < key.expiry /\ key.expiry <= now + TTL
      BY <1>1, <1>3, <2>1 DEF KeyAge
    <3> QED
      BY <3>4, <3>5 DEF KeyAge
  <2>3. CASE key.value = Len(log)
    BY <1>1, <1>3, <2>1, <2>3 DEF KeyAge
  <2> QED
    BY <1>1, <1>3, <2>1, <2>2, <2>3 DEF KeyAge
<1> QED
  BY <1>2, <1>3

\* What AgeInv says of one load and of one key.
LoadAge(l) ==
  loader[l].stage # "idle" =>
    /\ loader[l].started <= clock /\ clock <= loader[l].started + MaxDelay
    /\ \A t \in Table : Found(l, t) =>
         ValueAge(commits[t], loader[l].value[t], loader[l].started, Listed(l, t))
CacheAge(t) == Present(t) => KeyAge(commits[t], cached[t], clock)

\* A step of load l that leaves the other loads and the keys alone.
LEMMA LoadAgeStep ==
  ASSUME TypeInv, AgeInv, NEW l \in Loader, NEW v \in Load,
         loader' = [loader EXCEPT ![l] = v],
         UNCHANGED <<clock, commits, cached>>,
         v.stage # "idle" =>
           /\ v.started <= clock /\ clock <= v.started + MaxDelay
           /\ \A t \in Table : v.value[t] # Missing =>
                ValueAge(commits[t], v.value[t], v.started, ListedAt(v.stage, t))
  PROVE  AgeInv'
<1>1. loader \in [Loader -> Load]
  BY DEF TypeInv, TypeOK
<1>2. /\ loader'[l] = v
      /\ \A k \in Loader : k # l => loader'[k] = loader[k]
  BY <1>1
<1>3. ASSUME NEW k \in Loader, loader'[k].stage # "idle"
      PROVE  /\ loader'[k].started <= clock /\ clock <= loader'[k].started + MaxDelay
             /\ \A t \in Table : loader'[k].value[t] # Missing =>
                  ValueAge(commits[t], loader'[k].value[t], loader'[k].started,
                           ListedAt(loader'[k].stage, t))
  <2>1. CASE k = l
    BY <1>2, <1>3, <2>1
  <2>2. CASE k # l
    BY <1>2, <1>3, <2>2 DEF AgeInv, Found, Listed
  <2> QED
    BY <2>1, <2>2
<1>4. \A t \in Table : CacheAge(t)'
  BY DEF AgeInv, CacheAge, Present
<1>5. \A k \in Loader : LoadAge(k)'
  BY <1>3 DEF LoadAge, Found, Listed
<1> QED
  BY <1>4, <1>5 DEF AgeInv, LoadAge, CacheAge

LEMMA AgeInit == Init => AgeInv
  BY DEF Init, AgeInv, NoLoad, Present

\* A request's commit.
LEMMA AgeWrite ==
  ASSUME TypeInv, AgeInv, NEW c \in Client, Write(c)
  PROVE  AgeInv'
<1>1. /\ TypeOK /\ loader \in [Loader -> Load] /\ cached \in [Table -> Cached]
      /\ clock \in Nat /\ commits \in [Table -> Seq(Nat)]
  BY DEF TypeInv, TypeOK
<1>2. PICK u \in Table : Commit(c, u)
  BY <1>1, WriteEffect
<1>3. UNCHANGED <<clock, loader, cached>>
  BY <1>1, WriteEffect DEF LoadSide
<1>4. /\ commits' \in [Table -> Seq(Nat)]
      /\ \A t \in Table : t # u => commits'[t] = commits[t]
      /\ Len(commits'[u]) = Len(commits[u]) + 1
      /\ commits'[u][Len(commits[u]) + 1] = clock
      /\ \A i \in 1 .. Len(commits[u]) : commits'[u][i] = commits[u][i]
  BY <1>1, <1>2, CommitEffect DEF Latest
<1>5. /\ \A v \in Nat, started \in Nat, listed \in BOOLEAN :
           started <= clock /\ ValueAge(commits[u], v, started, listed)
             => ValueAge(commits'[u], v, started, listed)
      /\ \A key \in Cached : KeyAge(commits[u], key, clock) => KeyAge(commits'[u], key, clock)
  <2> DEFINE log == commits[u]
             new == commits'[u]
  <2>1. log \in Seq(Nat) /\ new \in Seq(Nat)
    BY <1>1, <1>4
  <2>2. /\ Len(new) = Len(log) + 1 /\ new[Len(log) + 1] = clock
        /\ \A i \in 1 .. Len(log) : new[i] = log[i]
    BY <1>4
  <2> HIDE DEF log, new
  <2>3. /\ \A v \in Nat, started \in Nat, listed \in BOOLEAN :
             started <= clock /\ ValueAge(log, v, started, listed)
               => ValueAge(new, v, started, listed)
        /\ \A key \in Cached : KeyAge(log, key, clock) => KeyAge(new, key, clock)
    BY <1>1, <2>1, <2>2, AgeAppend
  <2> QED
    BY <2>3 DEF log, new
<1>6. ASSUME NEW l \in Loader, loader[l].stage # "idle", NEW t \in Table, Found(l, t)
      PROVE  ValueAge(commits'[t], loader[l].value[t], loader[l].started, Listed(l, t))
  <2>1. /\ loader[l].started <= clock
        /\ ValueAge(commits[t], loader[l].value[t], loader[l].started, Listed(l, t))
    BY <1>6 DEF AgeInv
  <2>2. loader[l].value[t] \in Nat /\ loader[l].started \in Nat /\ Listed(l, t) \in BOOLEAN
    BY <1>1, <1>6 DEF Load, Found, Listed, ListedAt
  <2> QED
    BY <1>4, <1>5, <2>1, <2>2
<1>7. ASSUME NEW t \in Table, Present(t)
      PROVE  KeyAge(commits'[t], cached[t], clock)
  BY <1>1, <1>4, <1>5, <1>7 DEF AgeInv
<1>8. \A l \in Loader : LoadAge(l)'
  BY <1>3, <1>6 DEF LoadAge, Found, Listed, AgeInv
<1>9. \A t \in Table : CacheAge(t)'
  BY <1>3, <1>7 DEF CacheAge, Present
<1> QED
  BY <1>8, <1>9 DEF AgeInv, LoadAge, CacheAge

LEMMA AgeLoad ==
  ASSUME TypeInv, AgeInv, NEW l \in Loader,
         \/ GetAlerts(l) \/ GetBindings(l) \/ ListAlerts(l) \/ ListBindings(l)
         \/ SetAlerts(l) \/ SetBindings(l) \/ Return(l) \/ LoadFails(l)
  PROVE  AgeInv'
<1>1. /\ loader \in [Loader -> Load] /\ loader[l] \in Load
      /\ cached \in [Table -> Cached] /\ clock \in Nat
      /\ commits \in [Table -> Seq(Nat)]
      /\ \A t \in Table : Len(commits[t]) \in Nat
      /\ "alerts" \in Table /\ "bindings" \in Table
      /\ TTL \in Nat \ {0} /\ MaxDelay \in Nat
  BY ConfigAssumption DEF TypeInv, TypeOK, Table
<1>2. /\ loader[l].value \in [Table -> Nat \cup {Missing}]
      /\ loader[l].started \in Nat
      /\ \A t \in Table : cached[t].value \in Nat /\ cached[t].expiry \in Nat
      /\ Missing \notin Nat
  BY <1>1 DEF Load, Cached, Missing
<1>a. LoadAge(l) /\ \A t \in Table : CacheAge(t)
  BY DEF AgeInv, LoadAge, CacheAge
\* A key found at a time when the load is on its way is a value of its age.
<1>k. ASSUME NEW t \in Table, Present(t), NEW started \in Nat, started <= clock
      PROVE  ValueAge(commits[t], cached[t].value, started, FALSE)
  <2>1. KeyAge(commits[t], cached[t], clock)
    BY <1>a, <1>k DEF CacheAge
  <2>2. CASE cached[t].value < Len(commits[t])
    <3>1. commits[t][cached[t].value + 1] \in Nat
      <4> DEFINE i == cached[t].value + 1
      <4>1. i \in 1 .. Len(commits[t])
        BY <1>1, <1>2, <2>2
      <4> HIDE DEF i
      <4>2. commits[t][i] \in Nat
        BY <1>1, <4>1
      <4> QED
        BY <4>2 DEF i
    <3> QED
      <4> DEFINE x == commits[t][cached[t].value + 1]
      <4>1. cached[t].expiry <= x + TTL + MaxDelay /\ clock < cached[t].expiry
        BY <2>1, <2>2 DEF KeyAge
      <4>2. started < x + TTL + MaxDelay
        <5> HIDE DEF x
        <5>1. x \in Nat
          BY <3>1 DEF x
        <5> QED
          BY <1>1, <1>2, <1>k, <4>1, <5>1
      <4>3. cached[t].value <= Len(commits[t])
        BY <2>1 DEF KeyAge
      <4> QED
        BY <4>2, <4>3 DEF ValueAge
  <2>3. CASE ~(cached[t].value < Len(commits[t]))
    BY <2>1, <2>3 DEF KeyAge, ValueAge
  <2> QED
    BY <2>2, <2>3
<1>3. CASE GetAlerts(l)
  <2> DEFINE f == [t \in Table |-> IF t = "alerts" /\ Present(t) THEN cached[t].value
                                   ELSE Missing]
             v == [stage |-> "getBindings", started |-> clock, value |-> f]
  <2>1. f \in [Table -> Nat \cup {Missing}]
    BY <1>2
  <2>2. loader' = [loader EXCEPT ![l] = v] /\ UNCHANGED <<clock, commits, cached>>
    BY <1>3 DEF GetAlerts
  <2>0. clock \in Nat /\ clock <= clock
    BY <1>1
  <2>3. ASSUME NEW t \in Table, f[t] # Missing
        PROVE  ValueAge(commits[t], f[t], clock, FALSE)
    <3>1. Present(t) /\ f[t] = cached[t].value
      BY <2>3
    <3>2. ValueAge(commits[t], cached[t].value, clock, FALSE)
      BY <1>1, <1>k, <2>0, <3>1
    <3> QED
      BY <3>1, <3>2
  <2> HIDE DEF f
  <2>4. /\ v \in Load /\ v.stage = "getBindings" /\ v.started = clock /\ v.value = f
        /\ clock <= clock + MaxDelay
    BY <1>1, <2>1 DEF Load, LoadStage
  <2>5. \A t \in Table : ListedAt("getBindings", t) = FALSE
    BY DEF ListedAt
  <2> HIDE DEF v
  <2>6. \A t \in Table : v.value[t] # Missing =>
          ValueAge(commits[t], v.value[t], v.started, ListedAt(v.stage, t))
    BY <2>3, <2>4, <2>5
  <2> QED
    BY <2>0, <2>2, <2>4, <2>6, LoadAgeStep
<1>4. CASE GetBindings(l) /\ Found(l, "alerts") /\ Present("bindings")
  <2> DEFINE v == [loader[l] EXCEPT !.stage = "done",
                                    !.value["bindings"] = cached["bindings"].value]
  <2>1. loader' = [loader EXCEPT ![l] = v] /\ UNCHANGED <<clock, commits, cached>>
    BY <1>4 DEF GetBindings
  <2>2. /\ v \in Load /\ v.stage = "done" /\ v.started = loader[l].started
        /\ v.value["bindings"] = cached["bindings"].value
        /\ v.value["alerts"] = loader[l].value["alerts"]
    BY <1>1, <1>2 DEF Load, LoadStage
  <2> HIDE DEF v
  <2>3. /\ loader[l].stage = "getBindings"
        /\ loader[l].started <= clock /\ clock <= loader[l].started + MaxDelay
    BY <1>4, <1>a DEF GetBindings, LoadAge
  <2>4. \A t \in Table : ListedAt("done", t) = FALSE /\ ListedAt("getBindings", t) = FALSE
    BY DEF ListedAt
  <2>5. ValueAge(commits["bindings"], cached["bindings"].value, loader[l].started, FALSE)
    BY <1>1, <1>2, <1>4, <1>k, <2>3
  <2>6. ValueAge(commits["alerts"], loader[l].value["alerts"], loader[l].started, FALSE)
    BY <1>1, <1>4, <1>a, <2>3, <2>4 DEF LoadAge, Listed
  <2>7. \A t \in Table : t = "alerts" \/ t = "bindings"
    BY DEF Table
  <2>8. \A t \in Table : ValueAge(commits[t], v.value[t], v.started, ListedAt(v.stage, t))
    BY <2>2, <2>4, <2>5, <2>6, <2>7
  <2> QED
    BY <2>1, <2>2, <2>3, <2>8, LoadAgeStep
\* The load keeps what it found and listed, but for table t: listed now, or not found.
<1>5. ASSUME NEW t \in Table, NEW n \in Nat \cup {Missing}, NEW to \in LoadStage,
             loader' = [loader EXCEPT ![l] = [@ EXCEPT !.stage = to, !.value[t] = n]],
             UNCHANGED <<clock, commits, cached>>,
             n = Len(commits[t]) \/ n = Missing, loader[l].stage # "idle",
             \A u \in Table : ListedAt(to, u) => u = t \/ Listed(l, u)
      PROVE  AgeInv'
  <2> DEFINE v == [loader[l] EXCEPT !.stage = to, !.value[t] = n]
  <2>1. loader' = [loader EXCEPT ![l] = v]
    BY <1>5
  <2>2. /\ v \in Load /\ v.stage = to /\ v.started = loader[l].started
        /\ \A u \in Table : v.value[u] = IF u = t THEN n ELSE loader[l].value[u]
    BY <1>1, <1>2, <1>5 DEF Load
  <2> HIDE DEF v
  <2>3. loader[l].started <= clock /\ clock <= loader[l].started + MaxDelay
    BY <1>5, <1>a DEF LoadAge
  <2>4. ASSUME NEW u \in Table, v.value[u] # Missing
        PROVE  ValueAge(commits[u], v.value[u], v.started, ListedAt(v.stage, u))
    <3>1. CASE u = t
      BY <1>1, <1>5, <2>2, <2>4, <3>1 DEF ValueAge
    <3>2. CASE u # t
      <4>1. ValueAge(commits[u], loader[l].value[u], loader[l].started, Listed(l, u))
        BY <1>5, <1>a, <2>2, <2>4, <3>2 DEF LoadAge, Found
      <4> QED
        BY <1>5, <2>2, <3>2, <4>1 DEF ValueAge
    <3> QED
      BY <3>1, <3>2
  <2> QED
    BY <1>5, <2>1, <2>2, <2>3, <2>4, LoadAgeStep
<1>6. CASE GetBindings(l) /\ ~(Found(l, "alerts") /\ Present("bindings"))
  <2>1. \A u \in Table : ~ListedAt("listAlerts", u)
    BY DEF ListedAt
  <2>2. "listAlerts" \in LoadStage /\ Missing \in Nat \cup {Missing}
    BY DEF LoadStage
  <2> QED
    BY <1>1, <1>5, <1>6, <2>1, <2>2 DEF GetBindings
<1>7. CASE ListAlerts(l)
  <2>1. \A u \in Table : ListedAt("listBindings", u) => u = "alerts"
    BY DEF ListedAt
  <2>2. "listBindings" \in LoadStage /\ Latest("alerts") = Len(commits["alerts"])
    BY DEF LoadStage, Latest
  <2> QED
    BY <1>1, <1>5, <1>7, <2>1, <2>2 DEF ListAlerts, List
<1>8. CASE ListBindings(l)
  <2>1. \A u \in Table : u = "bindings" \/ Listed(l, u)
    BY <1>8 DEF ListBindings, List, Listed, ListedAt, Table
  <2>2. "setAlerts" \in LoadStage /\ Latest("bindings") = Len(commits["bindings"])
    BY DEF LoadStage, Latest
  <2> QED
    BY <1>1, <1>5, <1>8, <2>1, <2>2 DEF ListBindings, List
<1>10. CASE Return(l) \/ LoadFails(l)
  BY <1>10, NoLoadType, LoadAgeStep DEF Return, LoadFails, NoLoad

<1>11. CASE SetAlerts(l) \/ SetBindings(l)
  <2>1. PICK t \in Table, to \in LoadStage :
          /\ Store(l, t, loader[l].stage, to)
          /\ \/ t = "alerts" /\ loader[l].stage = "setAlerts" /\ to = "setBindings"
             \/ t = "bindings" /\ loader[l].stage = "setBindings" /\ to = "done"
    BY <1>1, <1>11 DEF SetAlerts, SetBindings, Store, LoaderStep, LoadStage
  <2>2. /\ loader' = [loader EXCEPT ![l].stage = to]
        /\ cached' = [cached EXCEPT ![t] = Entry(l, t)]
        /\ UNCHANGED <<clock, commits>>
    BY <2>1 DEF Store, LoaderStep
  <2>3. /\ loader[l].started <= clock /\ clock <= loader[l].started + MaxDelay
        /\ \A u \in Table : Found(l, u) =>
             ValueAge(commits[u], loader[l].value[u], loader[l].started, Listed(l, u))
    BY <1>a, <2>1 DEF LoadAge
  <2>4. Listed(l, t) /\ loader[l].value[t] \in Nat
    <3>1. Listed(l, t)
      BY <2>1 DEF Listed, ListedAt
    <3> QED
      BY <3>1 DEF TypeInv
  <2>5. KeyAge(commits[t], Entry(l, t), clock)
    <3> DEFINE v == loader[l].value[t]
    <3>1. ValueAge(commits[t], v, loader[l].started, TRUE)
      BY <1>2, <2>3, <2>4 DEF Found
    <3>2. Entry(l, t).value = v /\ Entry(l, t).expiry = clock + TTL
      BY DEF Entry
    <3>3. v \in Nat
      BY <2>4
    <3>4. v < Len(commits[t]) => commits[t][v + 1] \in Nat
      <4> SUFFICES ASSUME v < Len(commits[t]) PROVE commits[t][v + 1] \in Nat
        OBVIOUS
      <4> DEFINE i == v + 1
      <4>1. i \in 1 .. Len(commits[t])
        BY <1>1, <3>3
      <4> HIDE DEF i
      <4>2. commits[t][i] \in Nat
        BY <1>1, <4>1
      <4> QED
        BY <4>2 DEF i
    <3> DEFINE x == commits[t][v + 1]
    <3>5. v <= Len(commits[t]) /\ (v < Len(commits[t]) => loader[l].started <= x)
      BY <3>1 DEF ValueAge
    <3>6. /\ clock < clock + TTL /\ clock + TTL <= clock + TTL
          /\ v < Len(commits[t]) => clock + TTL <= x + TTL + MaxDelay
      <4>1. v < Len(commits[t]) => x \in Nat
        BY <3>4
      <4> HIDE DEF v, x
      <4> QED
        BY <1>1, <1>2, <2>3, <3>5, <4>1
    <3> QED
      BY <3>2, <3>5, <3>6 DEF KeyAge
  <2>6. \A u \in Table : CacheAge(u)'
    <3> TAKE u \in Table
    <3>1. CASE u = t
      BY <1>1, <2>2, <2>5, <3>1 DEF CacheAge
    <3>2. CASE u # t
      BY <1>1, <1>a, <2>2, <3>2 DEF CacheAge, Present
    <3> QED
      BY <3>1, <3>2
  <2>7. \A k \in Loader : LoadAge(k)'
    <3> TAKE k \in Loader
    <3>1. CASE k # l
      <4>1. loader'[k] = loader[k] /\ LoadAge(k)
        BY <1>1, <2>2, <3>1 DEF AgeInv, LoadAge
      <4> QED
        BY <2>2, <4>1 DEF LoadAge, Found, Listed
    <3>2. CASE k = l
      <4>1. /\ loader'[l].stage = to /\ loader'[l].started = loader[l].started
            /\ loader'[l].value = loader[l].value
        BY <1>1, <2>2 DEF Load
      <4>2. \A u \in Table : ListedAt(to, u) => Listed(l, u)
        BY <2>1 DEF Listed, ListedAt
      <4>3. \A u \in Table : loader[l].value[u] # Missing =>
              ValueAge(commits[u], loader[l].value[u], loader[l].started, ListedAt(to, u))
        BY <2>3, <4>2 DEF ValueAge, Found
      <4> QED
        BY <2>2, <2>3, <3>2, <4>1, <4>3 DEF LoadAge, Found, Listed
    <3> QED
      BY <3>1, <3>2
  <2> QED
    BY <2>6, <2>7 DEF AgeInv, LoadAge, CacheAge
<1> QED
  BY <1>3, <1>4, <1>6, <1>7, <1>8, <1>10, <1>11

LEMMA AgeStep == TypeInv /\ AgeInv /\ [Next]_vars => AgeInv'
<1> SUFFICES ASSUME TypeInv, AgeInv, [Next]_vars PROVE AgeInv'
  OBVIOUS
<1>1. ASSUME UNCHANGED <<clock, commits, cached, loader>>
      PROVE  AgeInv'
  BY <1>1 DEF AgeInv, Found, Listed, Present
<1>2. ASSUME NEW c \in Client, Decides(c) /\ Answer(c)
      PROVE  AgeInv'
  BY <1>1, <1>2 DEF Answer
<1>3. ASSUME NEW c \in Client,
             (\E a \in Alert : ReadAlert(c, a)) \/ RequestFails(c)
      PROVE  AgeInv'
  BY <1>1, <1>3 DEF ReadAlert, RequestFails
<1>4. ASSUME NEW c \in Client, DropAlerts(c) \/ DropBindings(c)
      PROVE  AgeInv'
  <2>1. cached \in [Table -> Cached]
    BY DEF TypeInv, TypeOK
  <2>2. \A t \in Table : cached'[t] = cached[t] \/ cached'[t] = NotCached
    BY <1>4, <2>1 DEF DropAlerts, DropBindings
  <2>3. UNCHANGED <<clock, commits, loader>>
    BY <1>4 DEF DropAlerts, DropBindings
  <2> QED
    BY <2>2, <2>3 DEF AgeInv, Found, Listed, Present
<1>5. CASE Tick
  <2>1. /\ clock \in Nat /\ cached \in [Table -> Cached] /\ loader \in [Loader -> Load]
        /\ TTL \in Nat /\ MaxDelay \in Nat
    BY ConfigAssumption DEF TypeInv, TypeOK
  <2>2. ASSUME NEW l \in Loader, loader[l].stage # "idle"
        PROVE  loader[l].started <= clock' /\ clock' <= loader[l].started + MaxDelay
    <3>1. loader[l].started \in Nat
      BY <2>1 DEF Load
    <3>2. loader[l].started <= clock /\ clock < loader[l].started + MaxDelay
      BY <1>5, <2>2 DEF Tick, AgeInv
    <3> QED
      BY <1>5, <2>1, <3>1, <3>2 DEF Tick
  <2>3. ASSUME NEW t \in Table, Present(t)'
        PROVE  KeyAge(commits[t], cached'[t], clock')
    <3>1. clock' < cached[t].expiry /\ cached'[t] = cached[t] /\ clock' = clock + 1
      BY <1>5, <2>3 DEF Tick, Present
    <3>2. KeyAge(commits[t], cached[t], clock)
      BY <2>3, <3>1 DEF AgeInv, Present
    <3>3. cached[t].expiry \in Nat
      BY <2>1 DEF Cached
    <3> QED
      BY <2>1, <3>1, <3>2, <3>3 DEF KeyAge
  <2>4. UNCHANGED <<commits, loader>>
    BY <1>5 DEF Tick
  <2>5. \A l \in Loader : LoadAge(l)'
    BY <2>2, <2>4 DEF LoadAge, AgeInv, Found, Listed
  <2>6. \A t \in Table : CacheAge(t)'
    BY <2>3, <2>4 DEF CacheAge
  <2> QED
    BY <2>5, <2>6 DEF AgeInv, LoadAge, CacheAge
<1>6. CASE UNCHANGED vars
  BY <1>1, <1>6 DEF vars
<1> QED
  BY <1>2, <1>3, <1>4, <1>5, <1>6, AgeWrite, AgeLoad, RequestCases DEF Next

\* Age bounds staleness when the load ends.
LEMMA FreshOfAge == TypeInv /\ AgeInv => StalenessBounded
<1> SUFFICES ASSUME TypeInv, AgeInv, NEW l \in Loader, NEW t \in Table,
                    loader[l].stage = "done", loader[l].value[t] < Latest(t)
             PROVE  clock < commits[t][loader[l].value[t] + 1] + TTL + 2 * MaxDelay
  BY DEF StalenessBounded
<1> DEFINE v == loader[l].value[t]
<1>1. /\ v \in Nat /\ clock \in Nat /\ commits[t] \in Seq(Nat) /\ loader[l] \in Load
      /\ TTL \in Nat /\ MaxDelay \in Nat
  BY ConfigAssumption DEF TypeInv, TypeOK
<1>2. loader[l].started \in Nat /\ Found(l, t) /\ Len(commits[t]) \in Nat
  BY <1>1 DEF Load, Found, Missing
<1>3. /\ clock <= loader[l].started + MaxDelay
      /\ loader[l].started < commits[t][v + 1] + TTL + MaxDelay
  BY <1>2 DEF AgeInv, ValueAge, Latest
<1>4. commits[t][v + 1] \in Nat
  <2> DEFINE i == v + 1
  <2>1. i \in 1 .. Len(commits[t])
    BY <1>1, <1>2 DEF Latest
  <2> HIDE DEF i
  <2>2. commits[t][i] \in Nat
    BY <1>1, <2>1
  <2> QED
    BY <2>2 DEF i
<1> HIDE DEF v
<1>5. clock < commits[t][v + 1] + TTL + 2 * MaxDelay
  <2> DEFINE x == commits[t][v + 1]
  <2>1. x \in Nat /\ loader[l].started < x + TTL + MaxDelay
    BY <1>3, <1>4
  <2> HIDE DEF x
  <2>2. clock < x + TTL + 2 * MaxDelay
    BY <1>1, <1>2, <1>3, <2>1
  <2> QED
    BY <2>2 DEF x
<1> QED
  BY <1>5 DEF v

\* No snapshot a worker gets was out of date for longer than the TTL and two loads, for
\* any TTL, any delay, and any number of requests and workers.
THEOREM SnapshotsAreFresh == Spec => []StalenessBounded
<1>1. TypeInv /\ AgeInv => StalenessBounded
  BY FreshOfAge
<1>2. Spec => [](TypeInv /\ AgeInv)
  BY TypeInit, TypeStep, AgeInit, AgeStep, PTL DEF Spec
<1> QED
  BY <1>1, <1>2, PTL

-----------------------------------------------------------------------------
(* The refinement of SnapshotService. *)

LEMMA ServiceInit == Init => Service!Init
  BY DEF Init, Service!Init, InHand, NoLoad

\* A step of one load only changes what that worker has in its hands.
LEMMA HandOf ==
  ASSUME loader \in [Loader -> Load], NEW l \in Loader, NEW v \in Load,
         loader' = [loader EXCEPT ![l] = v]
  PROVE  InHand' = [InHand EXCEPT ![l] = IF v.stage = "done" THEN {v.value} ELSE {}]
<1>1. /\ \A k \in Loader \ {l} : loader'[k] = loader[k]
      /\ loader'[l] = v
  OBVIOUS
<1> QED
  BY <1>1 DEF InHand

\* A load that does not end with a snapshot leaves its worker with none.
LEMMA HandTaken ==
  ASSUME loader \in [Loader -> Load], NEW l \in Loader, NEW v \in Load,
         loader' = [loader EXCEPT ![l] = v], v.stage # "done", UNCHANGED <<clock, commits>>
  PROVE  Service!Take(l)
<1>1. InHand' = [InHand EXCEPT ![l] = {}]
  BY HandOf
<1> QED
  BY <1>1 DEF Service!Take

\* A load that ends with a snapshot answers: what it ends with is of bounded age.
LEMMA HandFilled ==
  ASSUME TypeInv, TypeInv', AgeInv', StalenessBounded',
         NEW l \in Loader, NEW v \in Load,
         loader' = [loader EXCEPT ![l] = v], v.stage = "done", loader[l].stage # "done",
         UNCHANGED <<clock, commits>>
  PROVE  Service!Answer(l)
<1>1. loader \in [Loader -> Load] /\ loader'[l] = v /\ v.value \in [Table -> Nat \cup {Missing}]
  BY DEF TypeInv, TypeOK, Load
<1>2. InHand' = [InHand EXCEPT ![l] = {v.value}]
  BY <1>1, HandOf
<1>3. InHand[l] = {} /\ InHand'[l] = {v.value}
  BY <1>1, <1>2 DEF InHand
<1>4. ASSUME NEW t \in Table
      PROVE  v.value[t] \in Service!Acceptable(t)
  <2>1. v.value[t] \in Nat
    BY <1>1 DEF TypeInv
  <2>2. v.value[t] <= Len(commits[t])
    BY <1>1, <2>1 DEF AgeInv, Found, Missing, ValueAge
  <2>3. v.value[t] < Len(commits[t])
          => clock < commits[t][v.value[t] + 1] + TTL + 2 * MaxDelay
    <3>1. loader'[l].value[t] < Latest(t)'
            => clock' < commits'[t][loader'[l].value[t] + 1] + TTL + 2 * MaxDelay
      BY <1>1 DEF StalenessBounded
    <3>2. Latest(t)' = Len(commits[t])
      BY DEF Latest
    <3> QED
      BY <1>1, <3>1, <3>2
  <2>4. Len(commits[t]) \in Nat
    BY DEF TypeInv, TypeOK
  <2>5. v.value[t] < Len(commits[t]) => commits[t][v.value[t] + 1] \in Nat
    <3>1. v.value[t] < Len(commits[t]) => v.value[t] + 1 \in 1 .. Len(commits[t])
      BY <2>1, <2>4
    <3>2. \A i \in 1 .. Len(commits[t]) : commits[t][i] \in Nat
      BY DEF TypeInv, TypeOK
    <3> QED
      BY <3>1, <3>2
  <2> DEFINE x == commits[t][v.value[t] + 1]
  <2>6. v.value[t] < Len(commits[t]) => clock < x + (TTL + 2 * MaxDelay)
    <3>1. v.value[t] < Len(commits[t]) => x \in Nat /\ clock < x + TTL + 2 * MaxDelay
      BY <2>3, <2>5
    <3>2. TTL \in Nat /\ MaxDelay \in Nat /\ clock \in Nat
      BY ConfigAssumption DEF TypeInv, TypeOK
    <3> HIDE DEF x
    <3> QED
      BY <3>1, <3>2
  <2> QED
    BY <2>1, <2>2, <2>4, <2>6 DEF Service!Acceptable
<1>5. v.value \in [Table -> UNION {Service!Acceptable(t) : t \in Table}]
  BY <1>1, <1>4
<1> QED
  BY <1>2, <1>3, <1>4, <1>5 DEF Service!Answer

\* No step of the service is seen.
Idle == clock' = clock /\ commits' = commits /\ InHand' = InHand

\* Every step of the store is one of the service, or none is seen.
LEMMA StoreStep ==
  ASSUME TypeInv, TypeInv', AgeInv', StalenessBounded', [Next]_vars
  PROVE  Service!Next \/ Idle
<1>t. loader \in [Loader -> Load] /\ loader' \in [Loader -> Load]
  BY DEF TypeInv, TypeOK
<1>1. ASSUME UNCHANGED <<clock, commits, loader>>
      PROVE  Idle
  BY <1>1 DEF InHand, Idle
<1>2. ASSUME NEW c \in Client,
             \/ Decides(c) /\ Answer(c)
             \/ \E a \in Alert : ReadAlert(c, a)
             \/ DropAlerts(c) \/ DropBindings(c) \/ RequestFails(c)
      PROVE  Idle
  <2>1. UNCHANGED <<clock, commits, loader>>
    <3>1. CASE Decides(c) /\ Answer(c)
      BY <3>1 DEF Answer
    <3>2. ASSUME NEW a \in Alert, ReadAlert(c, a)
          PROVE  UNCHANGED <<clock, commits, loader>>
      BY <3>2 DEF ReadAlert
    <3>3. CASE DropAlerts(c) \/ DropBindings(c) \/ RequestFails(c)
      BY <3>3 DEF DropAlerts, DropBindings, RequestFails
    <3> QED
      BY <1>2, <3>1, <3>2, <3>3
  <2> QED
    BY <1>1, <2>1
<1>3. ASSUME NEW c \in Client, Write(c)
      PROVE  Service!Next
  <2>1. PICK t \in Table : Commit(c, t)
    BY <1>3, WriteEffect DEF TypeInv
  <2>2. clock' = clock /\ InHand' = InHand
    BY <1>3, WriteEffect DEF TypeInv, LoadSide, InHand
  <2>3. Service!Write(t)
    BY <2>1, <2>2 DEF Commit, Service!Write
  <2> QED
    BY <2>3 DEF Service!Next
<1>4. ASSUME NEW l \in Loader, NEW v \in Load, loader' = [loader EXCEPT ![l] = v],
             v.stage = "done" => loader[l].stage # "done", UNCHANGED <<clock, commits>>
      PROVE  Service!Next
  <2>1. CASE v.stage = "done"
    BY <1>4, <2>1, HandFilled DEF Service!Next
  <2>2. CASE v.stage # "done"
    BY <1>4, <1>t, <2>2, HandTaken DEF Service!Next
  <2> QED
    BY <2>1, <2>2
<1>5. ASSUME NEW l \in Loader,
             \/ GetAlerts(l) \/ GetBindings(l) \/ ListAlerts(l) \/ ListBindings(l)
             \/ SetAlerts(l) \/ SetBindings(l) \/ Return(l) \/ LoadFails(l)
      PROVE  Service!Next
  <2>1. UNCHANGED <<clock, commits>>
    BY <1>5, LoadFrame
  <2>2. /\ loader' = [loader EXCEPT ![l] = loader'[l]]
        /\ loader'[l].stage = "done" => loader[l].stage # "done"
    <3>1. loader[l] \in Load /\ NoLoad.stage = "idle"
      BY <1>t DEF NoLoad
    <3>2. CASE GetAlerts(l)
      BY <1>t, <3>2 DEF GetAlerts
    <3>3. CASE GetBindings(l)
      BY <1>t, <3>1, <3>3 DEF GetBindings, Load
    <3>4. CASE ListAlerts(l) \/ ListBindings(l)
      BY <1>t, <3>1, <3>4 DEF ListAlerts, ListBindings, List, Load
    <3>5. CASE SetAlerts(l) \/ SetBindings(l)
      BY <1>t, <3>1, <3>5 DEF SetAlerts, SetBindings, Store, LoaderStep, Load
    <3>6. CASE Return(l) \/ LoadFails(l)
      BY <1>t, <3>1, <3>6 DEF Return, LoadFails
    <3> QED
      BY <1>5, <3>2, <3>3, <3>4, <3>5, <3>6
  <2>3. loader'[l] \in Load
    BY <1>t
  <2> DEFINE v == loader'[l]
  <2> HIDE DEF v
  <2>4. v \in Load /\ loader' = [loader EXCEPT ![l] = v] /\ (v.stage = "done" => loader[l].stage # "done")
    BY <2>2, <2>3 DEF v
  <2> QED
    BY <1>4, <2>1, <2>4
<1>6. CASE Tick
  BY <1>6 DEF Tick, InHand, Service!Next, Service!Pass
<1>7. CASE UNCHANGED vars
  <2>1. UNCHANGED <<clock, commits, loader>>
    BY <1>7 DEF vars
  <2> QED
    BY <1>1, <2>1
<1>8. ASSUME NEW c \in Client,
             \/ OnlyRead(c) \/ Create(c) \/ Update(c) \/ Delete(c)
             \/ UpsertBinding(c) \/ DeleteBinding(c)
      PROVE  Service!Next \/ Idle
  <2>1. (Decides(c) /\ Answer(c)) \/ Write(c)
    BY <1>8, RequestCases
  <2> QED
    BY <1>2, <1>3, <2>1
<1> QED
  BY <1>2, <1>5, <1>6, <1>7, <1>8, Zenon DEF Next

LEMMA ServiceStep ==
  TypeInv /\ TypeInv' /\ AgeInv' /\ StalenessBounded' /\ [Next]_vars
    => [Service!Next]_(Service!vars)
<1>1. TypeInv /\ TypeInv' /\ AgeInv' /\ StalenessBounded' /\ [Next]_vars
        => Service!Next \/ Idle
  BY StoreStep
<1> QED
  BY <1>1 DEF Idle, Service!vars

\* The store with its cache implements a service whose answers are snapshots of bounded
\* staleness, for any number of requests and workers and whatever fails.
THEOREM StoreImplementsService == Spec => ImplementsService
<1>1. TypeInv /\ AgeInv => StalenessBounded
  BY FreshOfAge
<1>2. Spec => [](TypeInv /\ AgeInv)
  BY TypeInit, TypeStep, AgeInit, AgeStep, PTL DEF Spec
<1> QED
  BY <1>1, <1>2, ServiceInit, ServiceStep, PTL DEF Spec, ImplementsService, Service!Spec

=============================================================================
