----------------------------- MODULE Leadership -----------------------------
(***************************************************************************)
(* Which replicas run the background workers: leader_supervisor of         *)
(* crates/beacon-api/src/scheduler.rs, over a session-level advisory lock  *)
(* of the database.  A replica that loses the lock's connection keeps its  *)
(* workers and never contends again; another one may take over meanwhile.  *)
(* The five workers of a replica are tasks of their own: one is followed,  *)
(* which may panic while its supervisor knows nothing of it.               *)
(***************************************************************************)
EXTENDS Naturals, FiniteSets

CONSTANTS
  Node,        \* the replicas
  MaxUpsets    \* bound: lost connections, panics and deaths

NoNode == "none"

ASSUME LeadershipAssumption == MaxUpsets \in Nat /\ NoNode \notin Node

VARIABLES
  supervisor,  \* each replica's leader_supervisor: down, contending, holding or returned
  lockHolder,  \* whose connection has the advisory lock, or NoNode
  working,     \* the replicas whose worker runs
  panicked,    \* the replicas whose worker has panicked
  upsets,      \* how many upsets there were
  lost         \* history: a living replica lost its connection

leaderVars == <<supervisor, lockHolder, working, panicked, upsets, lost>>

LeaderTypeOK ==
  /\ supervisor \in [Node -> {"down", "contend", "hold", "returned"}]
  /\ lockHolder \in Node \cup {NoNode}
  /\ working \subseteq Node /\ panicked \subseteq Node
  /\ upsets \in 0..MaxUpsets /\ lost \in BOOLEAN

LeaderInit ==
  /\ supervisor = [n \in Node |-> "contend"]
  /\ lockHolder = NoNode /\ working = {} /\ panicked = {}
  /\ upsets = 0 /\ lost = FALSE

\* A bug: the workers start whether the lock was had or not.
Contend_Heedless(n) ==
  /\ supervisor[n] = "contend"
  /\ lockHolder' = IF lockHolder = NoNode THEN n ELSE lockHolder
  /\ supervisor' = [supervisor EXCEPT ![n] = "hold"]
  /\ working' = working \cup {n}
  /\ UNCHANGED <<panicked, upsets, lost>>

\* acquire_leader_lock succeeds, and spawn_workers follows at once.
Contend(n) ==
  /\ supervisor[n] = "contend" /\ lockHolder = NoNode
  /\ lockHolder' = n
  /\ supervisor' = [supervisor EXCEPT ![n] = "hold"]
  /\ working' = working \cup {n}
  /\ UNCHANGED <<panicked, upsets, lost>>

\* The connection drops, and the database gives the lock up.
LoseConnection(n) ==
  /\ lockHolder = n /\ upsets < MaxUpsets
  /\ lockHolder' = NoNode
  /\ upsets' = upsets + 1
  /\ lost' = TRUE
  /\ UNCHANGED <<supervisor, working, panicked>>

\* keepalive finds out, and the supervisor returns.
Relinquish(n) ==
  /\ supervisor[n] = "hold" /\ lockHolder # n
  /\ supervisor' = [supervisor EXCEPT ![n] = "returned"]
  /\ UNCHANGED <<lockHolder, working, panicked, upsets, lost>>

\* The task ends; nobody awaits it, and keepalive goes on holding the lock.
WorkerPanics(n) ==
  /\ n \in working /\ upsets < MaxUpsets
  /\ working' = working \ {n}
  /\ panicked' = panicked \cup {n}
  /\ upsets' = upsets + 1
  /\ UNCHANGED <<supervisor, lockHolder, lost>>

\* The process dies, with its connection and its workers.
Die(n) ==
  /\ supervisor[n] # "down" /\ upsets < MaxUpsets
  /\ supervisor' = [supervisor EXCEPT ![n] = "down"]
  /\ lockHolder' = IF lockHolder = n THEN NoNode ELSE lockHolder
  /\ working' = working \ {n} /\ panicked' = panicked \ {n}
  /\ upsets' = upsets + 1
  /\ UNCHANGED lost

\* spawn_all, on a new start
Boot(n) ==
  /\ supervisor[n] = "down"
  /\ supervisor' = [supervisor EXCEPT ![n] = "contend"]
  /\ UNCHANGED <<lockHolder, working, panicked, upsets, lost>>

LeaderNext ==
  \E n \in Node :
    \/ Contend(n) \/ LoseConnection(n) \/ Relinquish(n)
    \/ WorkerPanics(n) \/ Die(n) \/ Boot(n)

LeaderSpec == LeaderInit /\ [][LeaderNext]_leaderVars

-----------------------------------------------------------------------------
\* The inductive invariant behind WorkIsCoveredOnce.
LeaderInv ==
  /\ supervisor \in [Node -> {"down", "contend", "hold", "returned"}]
  /\ lockHolder \in Node \cup {NoNode}
  /\ panicked \subseteq {n \in Node : supervisor[n] \in {"hold", "returned"}}
  /\ working = {n \in Node : supervisor[n] \in {"hold", "returned"}} \ panicked
  /\ lockHolder # NoNode => supervisor[lockHolder] = "hold"
  /\ ~lost => working \subseteq {lockHolder}

\* A worker is left to nobody only where a replica that holds the lock has one that
\* panicked, which no other makes good; else, while none runs, the lock is free and every
\* living replica but those of a panic contends for it, although a supervisor that
\* returned never does again.  And it runs on two replicas only after one of them lost
\* its connection (scheduler.rs, lines 42-47).
WorkIsCoveredOnce ==
  /\ working = {} =>
       \/ lockHolder \in panicked
       \/ lockHolder = NoNode /\ \A n \in Node \ panicked : supervisor[n] \in {"contend", "down"}
  /\ ~lost => Cardinality(working) <= 1
=============================================================================
