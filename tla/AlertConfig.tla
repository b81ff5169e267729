---------------------------- MODULE AlertConfig ----------------------------
(***************************************************************************)
(* The alert configuration: API requests that write alerts and channel     *)
(* bindings to Postgres (alert_store.py, PostgresAlertStore), and workers  *)
(* that load the runtime snapshot through the Redis cache in front of it   *)
(* (RedisAlertCache, CachedAlertStore).                                    *)
(*                                                                         *)
(* A request reads a row, writes on the strength of what it read, commits, *)
(* and then deletes the two keys of the snapshot one after the other.  A   *)
(* load reads the two keys one after the other; unless both are there it   *)
(* queries the two tables one after the other and stores the two keys one  *)
(* after the other.  Every one of these is a step of its own, and the      *)
(* process may die, or Redis refuse, between any two of them.              *)
(*                                                                         *)
(* What a table holds is the number of commits it has seen: a snapshot is  *)
(* stale when commits followed the query that made it.                     *)
(***************************************************************************)
EXTENDS Integers, Sequences

CONSTANTS
  Client,      \* API requests in progress
  Loader,      \* workers loading the runtime configuration
  Alert,       \* alert ids
  TTL,         \* config_cache_ttl_seconds
  MaxDelay,    \* from the first to the last step of a load
  MaxTime,     \* bound on the clock
  MaxWrites,   \* bound on the commits of both tables
  MaxFaults    \* bound on crashes and refused Redis commands

Table == {"alerts", "bindings"}

ASSUME ConfigAssumption ==
  /\ Alert # {}
  /\ TTL \in Nat \ {0} /\ MaxDelay \in Nat /\ MaxTime \in Nat
  /\ MaxWrites \in Nat /\ MaxFaults \in Nat

VARIABLES
  clock,
  row,       \* [Alert -> row of alert_configs]
  bound,     \* the binding's row is in channel_bindings
  commits,   \* [Table -> the times of its commits]
  cached,    \* [Table -> key of the snapshot in Redis]
  client,    \* [Client -> request in progress]
  loader,    \* [Loader -> load in progress]
  faults,
  lost       \* history: [Table -> commits whose DEL was never sent]

vars == <<clock, row, bound, commits, cached, client, loader, faults, lost>>

-----------------------------------------------------------------------------

\* `life' is the commit that created the row, `commit' the one that last wrote it;
\* the code stores only the version.
Row == [life : Nat, commit : Nat, version : Nat]
Absent == [life |-> 0, commit |-> 0, version |-> 0]

\* A key of the snapshot and when Redis removes it.  `fresh' is history: the value was
\* the table's latest when it was stored.
Cached == [value : Nat, expiry : Nat, fresh : BOOLEAN]
NotCached == [value |-> 0, expiry |-> 0, fresh |-> TRUE]

Request == [stage : {"idle", "decide", "dropAlerts", "dropBindings"},
            alert : Alert, base : Row, table : Table, commit : Nat]
NoRequest == [stage |-> "idle", alert |-> CHOOSE a \in Alert : TRUE, base |-> Absent,
              table |-> "alerts", commit |-> 0]

LoadStage == {"idle", "getBindings", "listAlerts", "listBindings", "setAlerts",
              "setBindings", "done"}

Missing == -1
Load == [stage : LoadStage, value : [Table -> Nat \cup {Missing}], started : Nat]
NoLoad == [stage |-> "idle", value |-> [t \in Table |-> Missing], started |-> 0]

Init ==
  /\ clock = 0
  /\ row = [a \in Alert |-> Absent] /\ bound = FALSE
  /\ commits = [t \in Table |-> <<>>]
  /\ cached = [t \in Table |-> NotCached]
  /\ client = [c \in Client |-> NoRequest]
  /\ loader = [l \in Loader |-> NoLoad]
  /\ faults = 0 /\ lost = [t \in Table |-> {}]

Latest(t) == Len(commits[t])
Present(t) == cached[t] # NotCached

\* COMMIT of a write to table t; the request goes on to drop the snapshot.
Commit(c, t) ==
  /\ Latest("alerts") + Latest("bindings") < MaxWrites
  /\ commits' = [commits EXCEPT ![t] = Append(@, clock)]
  /\ client' = [client EXCEPT ![c] = [NoRequest EXCEPT !.stage = "dropAlerts",
                                       !.table = t, !.commit = Latest(t) + 1]]

\* The request ends without a write: an error, a no-op, or nothing to delete.
Answer(c) ==
  /\ client' = [client EXCEPT ![c] = NoRequest]
  /\ UNCHANGED <<clock, row, bound, commits, cached, loader, faults, lost>>

-----------------------------------------------------------------------------
(* Requests: alerts. *)

\* The row an update, a create or a delete is decided on: get_alert in the handler,
\* or the GET whose version an HTTP client sends back as expected_version.
ReadAlert(c, a) ==
  /\ client[c].stage = "idle"
  /\ client' = [client EXCEPT ![c].stage = "decide", ![c].alert = a, ![c].base = row[a]]
  /\ UNCHANGED <<clock, row, bound, commits, cached, loader, faults, lost>>

Decides(c) == client[c].stage = "decide"
RowOf(c) == row[client[c].alert]
Base(c) == client[c].base

\* Only read: a GET, 404, 409, an unconfirmed delete, a toggle that changes nothing.
OnlyRead(c) == Decides(c) /\ Answer(c)

\* INSERT ... ON CONFLICT DO NOTHING, with expected_version 0.
Create(c) ==
  /\ Decides(c) /\ Base(c) = Absent
  /\ IF RowOf(c) = Absent
     THEN /\ Commit(c, "alerts")
          /\ row' = [row EXCEPT ![client[c].alert] =
                       [life |-> Latest("alerts") + 1, commit |-> Latest("alerts") + 1,
                        version |-> 1]]
          /\ UNCHANGED <<clock, bound, cached, loader, faults, lost>>
     ELSE Answer(c)

\* Mutant: UPDATE ... WHERE alert_id = %s.
MatchesAny(c) == RowOf(c) # Absent

\* WHERE alert_id = %s AND version = %s
Matches(c) == RowOf(c) # Absent /\ RowOf(c).version = Base(c).version

\* UPDATE ... WHERE version = expected_version: no row updated is a conflict.
Update(c) ==
  /\ Decides(c) /\ Base(c) # Absent
  /\ IF Matches(c)
     THEN /\ Commit(c, "alerts")
          /\ row' = [row EXCEPT ![client[c].alert].commit = Latest("alerts") + 1,
                                ![client[c].alert].version = Base(c).version + 1]
          /\ UNCHANGED <<clock, bound, cached, loader, faults, lost>>
     ELSE Answer(c)

\* DELETE, whatever the version is by now.
Delete(c) ==
  /\ Decides(c) /\ Base(c) # Absent
  /\ IF RowOf(c) # Absent
     THEN /\ Commit(c, "alerts")
          /\ row' = [row EXCEPT ![client[c].alert] = Absent]
          /\ UNCHANGED <<clock, bound, cached, loader, faults, lost>>
     ELSE Answer(c)

(* Requests: bindings, written without reading them first. *)

UpsertBinding(c) ==
  /\ client[c].stage = "idle"
  /\ Commit(c, "bindings")
  /\ bound' = TRUE
  /\ UNCHANGED <<clock, row, cached, loader, faults, lost>>

DeleteBinding(c) ==
  /\ client[c].stage = "idle" /\ bound
  /\ Commit(c, "bindings")
  /\ bound' = FALSE
  /\ UNCHANGED <<clock, row, cached, loader, faults, lost>>

-----------------------------------------------------------------------------
(* Requests: invalidate_runtime_snapshot. *)

\* Mutant: the second key is left in Redis.
DropBindingsOnlySaid(c) ==
  /\ client[c].stage = "dropBindings"
  /\ client' = [client EXCEPT ![c] = NoRequest]
  /\ UNCHANGED <<clock, row, bound, commits, cached, loader, faults, lost>>

\* DEL runtime:alerts
DropAlerts(c) ==
  /\ client[c].stage = "dropAlerts"
  /\ cached' = [cached EXCEPT !["alerts"] = NotCached]
  /\ client' = [client EXCEPT ![c].stage = "dropBindings"]
  /\ UNCHANGED <<clock, row, bound, commits, loader, faults, lost>>

\* DEL runtime:bindings
DropBindings(c) ==
  /\ client[c].stage = "dropBindings"
  /\ cached' = [cached EXCEPT !["bindings"] = NotCached]
  /\ client' = [client EXCEPT ![c] = NoRequest]
  /\ UNCHANGED <<clock, row, bound, commits, loader, faults, lost>>

\* The request has committed to table t and has not dropped t's key yet.
Dropping(c, t) ==
  /\ client[c].table = t
  /\ \/ client[c].stage = "dropAlerts"
     \/ client[c].stage = "dropBindings" /\ t = "bindings"

\* Redis refuses a DEL or the process dies: the commit stays, the rest is not done.
RequestFails(c) ==
  /\ client[c].stage # "idle" /\ faults < MaxFaults
  /\ faults' = faults + 1
  /\ lost' = [t \in Table |-> IF Dropping(c, t) THEN lost[t] \cup {client[c].commit}
                              ELSE lost[t]]
  /\ client' = [client EXCEPT ![c] = NoRequest]
  /\ UNCHANGED <<clock, row, bound, commits, cached, loader>>

-----------------------------------------------------------------------------
(* Workers: get_runtime_snapshot. *)

LoaderStep(l, from, to) ==
  /\ loader[l].stage = from
  /\ loader' = [loader EXCEPT ![l].stage = to]

Found(l, t) == loader[l].value[t] # Missing

\* GET runtime:alerts
GetAlerts(l) ==
  /\ loader[l].stage = "idle"
  /\ loader' = [loader EXCEPT ![l] =
       [stage |-> "getBindings", started |-> clock,
        value |-> [t \in Table |-> IF t = "alerts" /\ Present(t) THEN cached[t].value
                                   ELSE Missing]]]
  /\ UNCHANGED <<clock, row, bound, commits, cached, client, faults, lost>>

\* Mutant: only the second key is looked at.
GetBindingsAlone(l) ==
  /\ loader[l].stage = "getBindings"
  /\ IF Present("bindings")
     THEN loader' = [loader EXCEPT ![l] =
            [@ EXCEPT !.stage = "done", !.value["bindings"] = cached["bindings"].value]]
     ELSE loader' = [loader EXCEPT ![l] =
            [@ EXCEPT !.stage = "listAlerts", !.value["alerts"] = Missing]]
  /\ UNCHANGED <<clock, row, bound, commits, cached, client, faults, lost>>

\* GET runtime:bindings; the snapshot is used only if both keys were there.
GetBindings(l) ==
  /\ loader[l].stage = "getBindings"
  /\ IF Found(l, "alerts") /\ Present("bindings")
     THEN loader' = [loader EXCEPT ![l] =
            [@ EXCEPT !.stage = "done", !.value["bindings"] = cached["bindings"].value]]
     ELSE loader' = [loader EXCEPT ![l] =
            [@ EXCEPT !.stage = "listAlerts", !.value["alerts"] = Missing]]
  /\ UNCHANGED <<clock, row, bound, commits, cached, client, faults, lost>>

\* Mutant: what the cache said is stored, not what the query said.
ListForgets(l, t, from, to) ==
  /\ LoaderStep(l, from, to)
  /\ UNCHANGED <<clock, row, bound, commits, cached, client, faults, lost>>

\* primary.list_alerts, primary.list_bindings
List(l, t, from, to) ==
  /\ loader[l].stage = from
  /\ loader' = [loader EXCEPT ![l] = [@ EXCEPT !.stage = to, !.value[t] = Latest(t)]]
  /\ UNCHANGED <<clock, row, bound, commits, cached, client, faults, lost>>

ListAlerts(l) == List(l, "alerts", "listAlerts", "listBindings")
ListBindings(l) == List(l, "bindings", "listBindings", "setAlerts")

\* Mutant: SET without EX.
EntryWithoutExpiry(l, t) ==
  [value |-> loader[l].value[t], expiry |-> MaxTime + 1,
   fresh |-> loader[l].value[t] = Latest(t)]

\* What SET ... EX ttl leaves in a key.
Entry(l, t) == [value |-> loader[l].value[t], expiry |-> clock + TTL,
                fresh |-> loader[l].value[t] = Latest(t)]

Store(l, t, from, to) ==
  /\ LoaderStep(l, from, to)
  /\ cached' = [cached EXCEPT ![t] = Entry(l, t)]
  /\ UNCHANGED <<clock, row, bound, commits, client, faults, lost>>

SetAlerts(l) == Store(l, "alerts", "setAlerts", "setBindings")
SetBindings(l) == Store(l, "bindings", "setBindings", "done")

\* The snapshot is returned to the worker.
Return(l) ==
  /\ loader[l].stage = "done"
  /\ loader' = [loader EXCEPT ![l] = NoLoad]
  /\ UNCHANGED <<clock, row, bound, commits, cached, client, faults, lost>>

\* Postgres or Redis refuses, or the worker dies.
LoadFails(l) ==
  /\ loader[l].stage # "idle" /\ faults < MaxFaults
  /\ faults' = faults + 1
  /\ loader' = [loader EXCEPT ![l] = NoLoad]
  /\ UNCHANGED <<clock, row, bound, commits, cached, client, lost>>

\* Time passes and Redis removes what has expired; no load takes longer than MaxDelay,
\* requests may take for ever.
Tick ==
  /\ clock < MaxTime
  /\ \A l \in Loader : loader[l].stage = "idle" \/ clock < loader[l].started + MaxDelay
  /\ clock' = clock + 1
  /\ cached' = [t \in Table |-> IF clock' < cached[t].expiry THEN cached[t] ELSE NotCached]
  /\ UNCHANGED <<row, bound, commits, client, loader, faults, lost>>

Next ==
  \/ \E c \in Client :
       \/ \E a \in Alert : ReadAlert(c, a)
       \/ OnlyRead(c) \/ Create(c) \/ Update(c) \/ Delete(c)
       \/ UpsertBinding(c) \/ DeleteBinding(c)
       \/ DropAlerts(c) \/ DropBindings(c) \/ RequestFails(c)
  \/ \E l \in Loader :
       \/ GetAlerts(l) \/ GetBindings(l) \/ ListAlerts(l) \/ ListBindings(l)
       \/ SetAlerts(l) \/ SetBindings(l) \/ Return(l) \/ LoadFails(l)
  \/ Tick

Spec == Init /\ [][Next]_vars

-----------------------------------------------------------------------------
(* Properties. *)

\* Every variable has its type.
TypeOK ==
  /\ clock \in Nat
  /\ row \in [Alert -> Row] /\ bound \in BOOLEAN
  /\ commits \in [Table -> Seq(Nat)]
  /\ cached \in [Table -> Cached]
  /\ client \in [Client -> Request]
  /\ loader \in [Loader -> Load]
  /\ faults \in Nat /\ lost \in [Table -> SUBSET Nat]

\* Client c overwrites the row of its alert in this step.
Overwrites(c) ==
  /\ Decides(c) /\ client'[c].stage = "dropAlerts"
  /\ RowOf(c) # Absent /\ row'[client[c].alert] # Absent

\* Two clients that read the same version cannot both update it: an update of a row
\* that still is the row the client read, in the same life, overwrites exactly what
\* the client read (upsert_alert's version check).
NoLostUpdate ==
  [][\A c \in Client :
       Overwrites(c) /\ Base(c).life = RowOf(c).life => Base(c) = RowOf(c)]_vars

\* A worker never gets a snapshot that was out of date for longer than the TTL of the
\* cache and the time of two loads (the one that filled the cache after the fact and
\* the one that reads it), whatever invalidations were lost or overtaken.
StalenessBounded ==
  \A l \in Loader, t \in Table :
    loader[l].stage = "done" /\ loader[l].value[t] < Latest(t)
      => clock < commits[t][loader[l].value[t] + 1] + TTL + 2 * MaxDelay

\* A snapshot that was current when it was stored goes stale only while the request
\* that made it so still has to drop it, or never will because it failed: once
\* invalidate_runtime_snapshot is through, what a write made stale is gone.
InvalidationReaches ==
  \A t \in Table : Present(t) /\ cached[t].fresh =>
    \A n \in cached[t].value + 1 .. Latest(t) :
      n \in lost[t] \/ \E c \in Client : Dropping(c, t) /\ client[c].commit = n

\* The snapshots in the hands of the workers.
InHand ==
  [l \in Loader |-> IF loader[l].stage = "done" THEN {loader[l].value} ELSE {}]

Service == INSTANCE SnapshotService
  WITH Reader <- Loader, Staleness <- TTL + 2 * MaxDelay, now <- clock, answer <- InHand

\* Cache, invalidations and failures included, the store is a service that answers with
\* snapshots of bounded staleness and never changes one it has answered with.
ImplementsService == Service!Spec

=============================================================================
