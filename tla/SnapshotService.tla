--------------------------- MODULE SnapshotService ---------------------------
(***************************************************************************)
(* What a worker may rely on when it asks for the runtime configuration:   *)
(* writes take effect at once and in order, an answer is one snapshot that *)
(* does not change any more, and each table in it is the latest or was     *)
(* superseded less than Staleness ago.  Nothing is said of caches, keys,   *)
(* invalidations or failures: AlertConfig is shown to implement this.      *)
(***************************************************************************)
EXTENDS Naturals, Sequences

CONSTANTS
  Reader,     \* workers
  Table,      \* tables of the configuration
  Staleness   \* for how long an answer may have been out of date

VARIABLES
  now,
  commits,    \* [Table -> the times of its commits]
  answer      \* [Reader -> the snapshot in its hands, if any, as a set]

vars == <<now, commits, answer>>

Init ==
  /\ now = 0
  /\ commits = [t \in Table |-> <<>>]
  /\ answer = [r \in Reader |-> {}]

\* What value of table t an answer may have: the number of its commits at some time.
Acceptable(t) ==
  {v \in 0 .. Len(commits[t]) : v < Len(commits[t]) => now < commits[t][v + 1] + Staleness}

Write(t) ==
  /\ commits' = [commits EXCEPT ![t] = Append(@, now)]
  /\ UNCHANGED <<now, answer>>

\* A request is answered; the first conjunct rules out most steps before the choice of v.
Answer(r) ==
  /\ answer[r] = {} /\ answer'[r] # {}
  /\ \E v \in [Table -> UNION {Acceptable(t) : t \in Table}] :
       /\ \A t \in Table : v[t] \in Acceptable(t)
       /\ answer' = [answer EXCEPT ![r] = {v}]
  /\ UNCHANGED <<now, commits>>

\* The worker uses the answer, or dies with it.
Take(r) ==
  /\ answer' = [answer EXCEPT ![r] = {}]
  /\ UNCHANGED <<now, commits>>

Pass == now' = now + 1 /\ UNCHANGED <<commits, answer>>

Next ==
  \/ \E r \in Reader : Take(r) \/ Answer(r)
  \/ \E t \in Table : Write(t)
  \/ Pass

Spec == Init /\ [][Next]_vars

=============================================================================
