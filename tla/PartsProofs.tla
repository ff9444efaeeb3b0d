----------------------------- MODULE PartsProofs -----------------------------
(***************************************************************************)
(* Proofs about the parts that share nothing with the others.  The two     *)
(* advisory locks: the election of the background workers, for any number  *)
(* of replicas, lost connections, panics and deaths, and the start of      *)
(* nodes that migrate, for any number of nodes, migrations, deaths and     *)
(* lost locks.                                                             *)
(* The key file, for any number of callers, keys, stopped calls and failed *)
(* look-ups.  Co-Steward invitations and the bank webhook, for any finite  *)
(* set of addresses, any number of requests, invitations and ids.          *)
(***************************************************************************)
EXTENDS Leadership, Migrations, KeyFile, Circle, FiniteSetTheorems, TLAPS

USE LeadershipAssumption, MigrationsAssumption

-----------------------------------------------------------------------------
(* The workers.                                                            *)

LEMMA LeaderStarts == LeaderInit => LeaderInv
  BY DEF LeaderInit, LeaderInv

LEMMA ContendKeeps ==
  ASSUME LeaderInv, NEW n \in Node, Contend(n)
  PROVE  LeaderInv'
<1>1. working = {} \/ lost BY DEF LeaderInv, Contend
<1>2. supervisor' = [supervisor EXCEPT ![n] = "hold"] /\ lockHolder' = n
       /\ working' = working \cup {n} /\ lost' = lost /\ panicked' = panicked
  BY DEF Contend
<1>3. n \notin panicked BY DEF LeaderInv, Contend
<1>4. QED BY <1>1, <1>2, <1>3 DEF LeaderInv

LEMMA LoseKeeps ==
  ASSUME LeaderInv, NEW n \in Node, LoseConnection(n) \/ Relinquish(n)
  PROVE  LeaderInv'
<1>1. CASE LoseConnection(n) BY <1>1 DEF LeaderInv, LoseConnection
<1>2. CASE Relinquish(n) BY <1>2 DEF LeaderInv, Relinquish
<1>3. QED BY <1>1, <1>2

LEMMA RestartKeeps ==
  ASSUME LeaderInv, NEW n \in Node, WorkerPanics(n) \/ Die(n) \/ Boot(n)
  PROVE  LeaderInv'
<1>1. CASE WorkerPanics(n) BY <1>1 DEF LeaderInv, WorkerPanics
<1>2. CASE Die(n) BY <1>2 DEF LeaderInv, Die
<1>3. CASE Boot(n) BY <1>3 DEF LeaderInv, Boot
<1>4. QED BY <1>1, <1>2, <1>3

\* While no connection is lost the workers run only where the lock is, and whoever has
\* the lock runs them, if they did not panic there (leader_supervisor, acquire_leader_lock).
THEOREM LeaderInductive == LeaderSpec => []LeaderInv
<1>1. LeaderInv /\ [LeaderNext]_leaderVars => LeaderInv'
  <2> SUFFICES ASSUME LeaderInv, [LeaderNext]_leaderVars PROVE LeaderInv'
    OBVIOUS
  <2>1. ASSUME NEW n \in Node,
               \/ Contend(n) \/ LoseConnection(n) \/ Relinquish(n)
               \/ WorkerPanics(n) \/ Die(n) \/ Boot(n)
        PROVE  LeaderInv'
    BY <2>1, ContendKeeps, LoseKeeps, RestartKeeps
  <2>2. CASE UNCHANGED leaderVars BY <2>2 DEF LeaderInv, leaderVars
  <2>3. QED BY <2>1, <2>2 DEF LeaderNext
<1>2. QED BY <1>1, LeaderStarts, PTL DEF LeaderSpec

\* However many replicas start, die, lose their connections and have their workers panic:
\* a worker is left to nobody only behind a lock whose holder's panicked, or where one
\* did before its replica lost the lock and all others contend for it; and two replicas
\* run the workers only after one lost its connection.
THEOREM WorkersCovered == LeaderSpec => []WorkIsCoveredOnce
<1>1. LeaderInv => WorkIsCoveredOnce
  <2> SUFFICES ASSUME LeaderInv PROVE WorkIsCoveredOnce
    OBVIOUS
  <2>1. ASSUME working = {}
        PROVE  \/ lockHolder \in panicked
               \/ lockHolder = NoNode
                    /\ \A n \in Node \ panicked : supervisor[n] \in {"contend", "down"}
    BY <2>1 DEF LeaderInv
  <2>2. ASSUME ~lost PROVE Cardinality(working) <= 1
    <3>1. working \subseteq {lockHolder} BY <2>2 DEF LeaderInv
    <3>2. IsFiniteSet({lockHolder}) /\ Cardinality({lockHolder}) = 1 BY FS_Singleton
    <3>3. QED BY <3>1, <3>2, FS_Subset
  <2>3. QED BY <2>1, <2>2 DEF WorkIsCoveredOnce
<1>2. QED BY <1>1, LeaderInductive, PTL

\* Upsets are bounded, and the history says yes or no.
LEMMA LeaderBounds ==
  ASSUME upsets \in 0..MaxUpsets, [LeaderNext]_leaderVars
  PROVE  upsets' \in 0..MaxUpsets
<1>1. CASE UNCHANGED leaderVars BY <1>1 DEF leaderVars
<1>2. CASE LeaderNext
  <2>1. upsets' = upsets \/ (upsets < MaxUpsets /\ upsets' = upsets + 1)
    BY <1>2 DEF LeaderNext, Contend, LoseConnection, Relinquish, WorkerPanics, Die, Boot
  <2>2. QED BY <2>1
<1>3. QED BY <1>1, <1>2

LEMMA LostIsBoolean ==
  ASSUME lost \in BOOLEAN, [LeaderNext]_leaderVars
  PROVE  lost' \in BOOLEAN
<1>1. lost' = lost \/ lost' = TRUE
  BY Zenon DEF LeaderNext, leaderVars, Contend, LoseConnection, Relinquish, WorkerPanics, Die, Boot
<1>2. QED BY <1>1, Zenon

\* leader_supervisor keeps to its types, for any number of replicas and upsets.
THEOREM LeaderTypes == LeaderSpec => []LeaderTypeOK
<1> DEFINE Bounded == upsets \in 0..MaxUpsets
           Flagged == lost \in BOOLEAN
<1>1. LeaderInit => Bounded BY DEF LeaderInit
<1>2. LeaderInit => Flagged BY Zenon DEF LeaderInit
<1>3. Bounded /\ [LeaderNext]_leaderVars => Bounded' BY LeaderBounds
<1>4. Flagged /\ [LeaderNext]_leaderVars => Flagged' BY LostIsBoolean
<1>5. LeaderInv /\ Bounded /\ Flagged => LeaderTypeOK
  <2> SUFFICES ASSUME LeaderInv, Bounded, Flagged PROVE LeaderTypeOK
    OBVIOUS
  <2>1. /\ supervisor \in [Node -> {"down", "contend", "hold", "returned"}]
        /\ lockHolder \in Node \cup {NoNode} /\ working \subseteq Node
        /\ panicked \subseteq Node
    BY DEF LeaderInv
  <2>2. QED BY <2>1, Zenon DEF LeaderTypeOK
<1> HIDE DEF Bounded, Flagged
<1>6. QED BY <1>1, <1>2, <1>3, <1>4, <1>5, LeaderInductive, PTL DEF LeaderSpec

-----------------------------------------------------------------------------
(* The migrations.                                                         *)

LEMMA MigrationsStart == MigrationsInit => BootInv
<1> SUFFICES ASSUME MigrationsInit PROVE BootInv
  OBVIOUS
<1>1. inSchema = 1..byHand /\ recorded = {} /\ ~bootFailed /\ byHand \in 0..LastMigration
       /\ \A b \in Booter : boot[b].pc = "down"
  BY DEF MigrationsInit, Down, BootState
<1>2. MigrationsTypeOK
  <2>1. boot \in [Booter -> [pc: {"down", "wait", "read", "look", "adopt", "run", "verify", "up"},
                             at: 1..LastMigration + 1]]
    BY DEF MigrationsInit, Down, BootState
  <2>2. inSchema \subseteq Migration
    BY <1>1 DEF Migration
  <2>3. bootLock \in Booter \cup {Unlocked} /\ strayed \in BOOLEAN /\ bootFailed \in BOOLEAN
    BY Zenon DEF MigrationsInit
  <2>4. recorded \subseteq Migration /\ mishaps \in 0..MaxMishaps
    BY <1>1, SMT DEF MigrationsInit
  <2>5. QED BY <1>1, <2>1, <2>2, <2>3, <2>4 DEF MigrationsTypeOK
<1>3. QED BY <1>1, <1>2 DEF BootInv, Applying

\* Nothing that was seen on record or in the schema goes away, and a node alone moves on:
\* what the others have seen stays so unless the lock is another's.
LEMMA BootWalks ==
  ASSUME BootInv, NEW b \in Booter,
         StartNode(b, "wait") \/ StartNode(b, "verify") \/ TakeBootLock(b) \/ ReadRecord(b)
           \/ LookForTable(b)
  PROVE  BootInv'
<1> USE DEF BootInv, MigrationsTypeOK, Applying, BootGoto, BootState, schemaVars, mishapVars, Migration
<1>1. CASE StartNode(b, "wait") BY <1>1 DEF StartNode
<1>2. CASE StartNode(b, "verify") BY <1>2 DEF StartNode
<1>3. CASE TakeBootLock(b) BY <1>3 DEF TakeBootLock
<1>4. CASE ReadRecord(b) BY <1>4 DEF ReadRecord, At
<1>5. CASE LookForTable(b) BY <1>5 DEF LookForTable, At
<1>6. QED BY <1>1, <1>2, <1>3, <1>4, <1>5

LEMMA ApplyKeeps ==
  ASSUME BootInv, NEW b \in Booter, Adopt(b) \/ RunMigration(b)
  PROVE  BootInv'
<1> DEFINE n == boot[b].at
<1>1. /\ n \in Migration /\ Applying(b) /\ boot[b].pc \in {"adopt", "run"}
      /\ recorded' = recorded \cup {n} /\ inSchema' = inSchema \cup {n}
      /\ boot' = [boot EXCEPT ![b] = [pc |-> "read", at |-> n + 1]]
      /\ UNCHANGED <<byHand, bootLock, bootFailed, mishaps, strayed>>
  BY DEF Adopt, RunMigration, At, BootInv, MigrationsTypeOK, BootGoto, BootState, Applying, mishapVars
<1>2. n \in Int /\ n + 1 \in 1..LastMigration + 1
  BY <1>1 DEF Migration
<1>3. MigrationsTypeOK'
  BY <1>1, <1>2 DEF BootInv, MigrationsTypeOK
<1>4. recorded' \subseteq inSchema' /\ inSchema' \subseteq 1..byHand' \cup recorded'
  BY <1>1 DEF BootInv
<1>5. ASSUME NEW c \in Booter
      PROVE  /\ (Applying(c) \/ boot[c].pc = "verify" =>
                   \A k \in Migration : k < boot[c].at => k \in recorded)'
             /\ (boot[c].pc \in {"look", "adopt", "run"} => boot[c].at \in Migration)'
             /\ (boot[c].pc = "adopt" => boot[c].at \in inSchema)'
             /\ (boot[c].pc = "up" => recorded = Migration)'
  <2>1. CASE c = b
    <3>1. boot'[c] = [pc |-> "read", at |-> n + 1] BY <1>1, <2>1 DEF BootInv, MigrationsTypeOK
    <3>2. \A k \in Migration : k < n + 1 => k \in recorded'
      BY <1>1, <1>2 DEF BootInv, Migration
    <3>3. QED BY <3>1, <3>2
  <2>2. CASE c # b
    <3>1. boot'[c] = boot[c] BY <1>1, <2>2 DEF BootInv, MigrationsTypeOK
    <3>2. QED BY <1>1, <3>1 DEF BootInv, Applying, MigrationsTypeOK
  <2>3. QED BY <2>1, <2>2
<1>6. ASSUME ~strayed', NEW c \in Booter
      PROVE  /\ (Applying(c) => bootLock = c)'
             /\ (boot[c].pc \in {"look", "adopt", "run"} => boot[c].at \notin recorded)'
             /\ (boot[c].pc = "run" /\ boot[c].at <= Adoptable => boot[c].at \notin inSchema)'
  <2>1. CASE c = b
    BY <1>1, <1>6, <2>1 DEF BootInv, MigrationsTypeOK, Applying
  <2>2. CASE c # b
    BY <1>1, <1>6, <2>2 DEF BootInv, MigrationsTypeOK, Applying
  <2>3. QED BY <2>1, <2>2
<1>7. (~strayed /\ byHand <= Adoptable => ~bootFailed)'
  BY <1>1 DEF BootInv
<1>8. QED BY <1>3, <1>4, <1>5, <1>6, <1>7 DEF BootInv

\* A node that met nobody and began on a schema that is recognised finds its migration
\* neither on record nor in effect.
LEMMA FailureKeeps ==
  ASSUME BootInv, NEW b \in Booter, MigrationFails(b)
  PROVE  BootInv'
<1>1. strayed \/ byHand > Adoptable
  BY DEF BootInv, MigrationsTypeOK, MigrationFails, At, Runnable, Applying, Migration
<1>2. QED BY <1>1 DEF BootInv, MigrationsTypeOK, Applying, MigrationFails, Unlock, BootGoto,
       BootState, schemaVars, mishapVars, Migration

\* A node that starts no more, or only verifies, needs nothing of the lock.
LEMMA NodeRests ==
  ASSUME BootInv, NEW b \in Booter, NEW pc \in {"up", "down", "verify"},
         NEW n \in 1..LastMigration + 1, BootGoto(b, pc, n),
         UNCHANGED <<schemaVars, bootFailed, strayed>>, mishaps' \in 0..MaxMishaps,
         Unlock(b) \/ bootLock' = bootLock,
         pc = "up" => recorded = Migration,
         pc = "verify" => \A k \in Migration : k < n => k \in recorded
  PROVE  BootInv'
<1>1. /\ boot \in [Booter -> [pc: {"down", "wait", "read", "look", "adopt", "run", "verify", "up"},
                              at: 1..LastMigration + 1]]
      /\ bootLock \in Booter \cup {Unlocked}
  BY DEF BootInv, MigrationsTypeOK
<1>2. /\ UNCHANGED <<byHand, inSchema, recorded, bootFailed, strayed>>
      /\ bootLock' = bootLock \/ (bootLock = b /\ bootLock' = Unlocked)
  BY DEF schemaVars, Unlock
<1>3. PICK t \in [pc: {"up", "down", "verify"}, at: 1..LastMigration + 1] :
        t.pc = pc /\ t.at = n /\ boot' = [boot EXCEPT ![b] = t]
  BY DEF BootGoto, BootState
<1>4. boot'[b] = t /\ \A c \in Booter : c # b => boot'[c] = boot[c]
  BY <1>1, <1>3
<1>5. MigrationsTypeOK'
  <2>1. boot' \in [Booter -> [pc: {"down", "wait", "read", "look", "adopt", "run", "verify", "up"},
                              at: 1..LastMigration + 1]]
    BY <1>1, <1>3
  <2>2. bootLock' \in Booter \cup {Unlocked}
    BY <1>1, <1>2
  <2>3. QED BY <1>2, <2>1, <2>2 DEF BootInv, MigrationsTypeOK
<1>6. recorded' \subseteq inSchema' /\ inSchema' \subseteq 1..byHand' \cup recorded'
  BY <1>2 DEF BootInv
<1>7. ASSUME NEW c \in Booter
      PROVE  /\ (Applying(c) \/ boot[c].pc = "verify" =>
                   \A k \in Migration : k < boot[c].at => k \in recorded)'
             /\ (boot[c].pc \in {"look", "adopt", "run"} => boot[c].at \in Migration)'
             /\ (boot[c].pc = "adopt" => boot[c].at \in inSchema)'
             /\ (boot[c].pc = "up" => recorded = Migration)'
  <2>1. CASE c = b BY <1>2, <1>3, <1>4, <2>1 DEF Applying
  <2>2. CASE c # b BY <1>2, <1>4, <2>2 DEF BootInv, Applying
  <2>3. QED BY <2>1, <2>2
<1>8. ASSUME ~strayed', NEW c \in Booter
      PROVE  /\ (Applying(c) => bootLock = c)'
             /\ (boot[c].pc \in {"look", "adopt", "run"} => boot[c].at \notin recorded)'
             /\ (boot[c].pc = "run" /\ boot[c].at <= Adoptable => boot[c].at \notin inSchema)'
  <2>1. CASE c = b BY <1>3, <1>4, <2>1 DEF Applying
  <2>2. CASE c # b BY <1>2, <1>4, <1>8, <2>2 DEF BootInv, Applying
  <2>3. QED BY <2>1, <2>2
<1>9. (~strayed /\ byHand <= Adoptable => ~bootFailed)'
  BY <1>2 DEF BootInv
<1>10. QED BY <1>5, <1>6, <1>7, <1>8, <1>9 DEF BootInv

LEMMA EndKeeps ==
  ASSUME BootInv, NEW b \in Booter,
         NodeUp(b) \/ VerifyRecord(b) \/ NodeDies(b) \/ LoseBootLock(b)
  PROVE  BootInv'
<1>1. /\ boot[b].at \in 1..LastMigration + 1 /\ 1 \in 1..LastMigration + 1
      /\ mishaps \in 0..MaxMishaps
  BY DEF BootInv, MigrationsTypeOK
<1>2. CASE NodeUp(b)
  <2>1. recorded \subseteq Migration /\ \A n \in Migration : n < boot[b].at => n \in recorded
    BY <1>2 DEF NodeUp, BootInv, MigrationsTypeOK, Applying
  <2>2. \A n \in Migration : n \in Nat /\ n < boot[b].at
    BY <1>1, <1>2 DEF NodeUp, Migration
  <2>3. recorded = Migration BY <2>1, <2>2, Zenon
  <2>4. BootGoto(b, "up", 1) /\ Unlock(b) /\ UNCHANGED <<schemaVars, bootFailed, mishaps, strayed>>
    BY <1>2 DEF NodeUp, mishapVars
  <2>5. QED BY <1>1, <2>3, <2>4, NodeRests
<1>3. CASE VerifyRecord(b)
  <2>1. /\ recorded \subseteq Migration /\ \A n \in Migration : n < boot[b].at => n \in recorded
        /\ UNCHANGED <<schemaVars, bootLock, bootFailed, mishaps, strayed>>
    BY <1>3 DEF VerifyRecord, BootInv, MigrationsTypeOK, mishapVars
  <2>2. CASE boot[b].at > LastMigration
    <3>1. \A n \in Migration : n < boot[b].at BY <1>1, <2>2 DEF Migration
    <3>2. recorded = Migration BY <2>1, <3>1, Zenon
    <3>3. BootGoto(b, "up", 1) BY <1>3, <2>2 DEF VerifyRecord
    <3>4. QED BY <1>1, <2>1, <3>2, <3>3, NodeRests
  <2>3. CASE boot[b].at <= LastMigration /\ boot[b].at \in recorded
    <3>1. PICK n \in 1..LastMigration + 1 : n = boot[b].at + 1 BY <1>1, <2>3
    <3>2. BootGoto(b, "verify", n) BY <1>1, <1>3, <2>3, <3>1 DEF VerifyRecord
    <3>3. \A k \in Migration : k < n => k \in recorded
      BY <1>1, <2>1, <2>3, <3>1 DEF Migration
    <3>4. QED BY <1>1, <2>1, <3>2, <3>3, NodeRests
  <2>4. CASE boot[b].at <= LastMigration /\ boot[b].at \notin recorded
    <3>1. BootGoto(b, "down", 1) BY <1>1, <1>3, <2>4 DEF VerifyRecord
    <3>2. QED BY <1>1, <2>1, <3>1, NodeRests
  <2>5. QED BY <1>1, <2>2, <2>3, <2>4
<1>4. CASE NodeDies(b)
  <2>1. /\ BootGoto(b, "down", 1) /\ Unlock(b) /\ UNCHANGED <<schemaVars, bootFailed, strayed>>
        /\ mishaps' \in 0..MaxMishaps
    BY <1>1, <1>4 DEF NodeDies
  <2>2. QED BY <1>1, <2>1, NodeRests
<1>5. CASE LoseBootLock(b)
  <2>1. /\ UNCHANGED <<byHand, inSchema, recorded, boot, bootFailed>> /\ strayed'
        /\ bootLock' = Unlocked /\ mishaps' \in 0..MaxMishaps
    BY <1>1, <1>5 DEF LoseBootLock, schemaVars
  <2>2. strayed' \in BOOLEAN BY <2>1, Zenon
  <2>3. QED BY <2>1, <2>2 DEF BootInv, MigrationsTypeOK, Applying
<1>6. QED BY <1>2, <1>3, <1>4, <1>5

\* The inductive invariant of migrate and verify_migrations (beacon-db, lines 148-312).
THEOREM BootInductive == MigrationsSpec => []BootInv
<1>1. BootInv /\ [MigrationsNext]_migrationVars => BootInv'
  <2> SUFFICES ASSUME BootInv, [MigrationsNext]_migrationVars PROVE BootInv'
    OBVIOUS
  <2>1. CASE MigrationsNext
    BY <2>1, BootWalks, ApplyKeeps, FailureKeeps, EndKeeps DEF MigrationsNext
  <2>2. CASE UNCHANGED migrationVars
    BY <2>2 DEF BootInv, MigrationsTypeOK, Applying, migrationVars, schemaVars, Migration
  <2>3. QED BY <2>1, <2>2
<1>2. QED BY <1>1, MigrationsStart, PTL DEF MigrationsSpec

\* However many nodes start together, die and start again, none breaks another's start
\* unless a lock was lost or psql took the schema too far; and a node that is up finds
\* all its migrations on record and in effect.
THEOREM BootsAlwaysSucceed == MigrationsSpec => []BootsSucceed
<1>1. BootInv => BootsSucceed
  BY DEF BootInv, BootsSucceed, MigrationsTypeOK
<1>2. QED BY <1>1, BootInductive, PTL

\* migrate and verify_migrations keep to their types.
THEOREM MigrationsTypes == MigrationsSpec => []MigrationsTypeOK
<1>1. BootInv => MigrationsTypeOK BY DEF BootInv
<1>2. QED BY <1>1, BootInductive, PTL

-----------------------------------------------------------------------------
(* The key file.                                                           *)

USE KeyFileAssumption DEF Keys, Absent, Empty

LEMMA KeyStarts == KeyInit => KeyInv
  BY DEF KeyInit, KeyInv, Waiting

\* What a step does to the calls, whatever happens to the file.
LEMMA CallMoves ==
  ASSUME KeyInv, NEW c \in Caller, NEW k \in Keys \cup {Absent},
         NEW pc \in {"idle", "read", "create", "write", "seal"}, CallAt(c, pc, k)
  PROVE  /\ call' \in [Caller -> [pc: {"idle", "read", "create", "write", "seal"},
                                  key: Keys \cup {Absent}]]
         /\ call'[c].pc = pc /\ call'[c].key = k
         /\ \A d \in Caller : d # c => call'[d] = call[d]
  BY DEF KeyInv, CallAt

\* The history variable tells who is not alone with the file.
LEMMA NotMuddled ==
  ASSUME KeyNext, ~muddled'
  PROVE  /\ ~muddled
         /\ \A c1, c2 \in Caller :
              c1 # c2 /\ call'[c1].pc \in {"create", "write"} => call'[c2].pc = "idle"
         /\ trouble' = trouble \/ made' = made
  BY DEF KeyNext

LEMMA LookKeeps ==
  ASSUME KeyInv, KeyNext, NEW c \in Caller, Look(c) \/ LookFails(c)
  PROVE  KeyInv'
<1>1. CASE /\ Generate(c) /\ UNCHANGED <<file, sealed>>
           /\ \/ file = Absent /\ trouble' = trouble
              \/ trouble < MaxTrouble /\ trouble' = trouble + 1
  <2>1. made + 1 \in Keys /\ made' = made + 1 /\ made' \in 0..MaxKeys /\ CallAt(c, "create", made + 1)
    BY <1>1 DEF Generate, KeyInv
  <2>2. UNCHANGED <<file, sealed>> /\ trouble' \in 0..MaxTrouble
        /\ (file = Absent \/ trouble' = trouble + 1)
    BY <1>1 DEF KeyInv
  <2>3. ~muddled' => file = Absent
    BY <2>1, <2>2, NotMuddled DEF KeyInv
  <2>4. /\ call' \in [Caller -> [pc: {"idle", "read", "create", "write", "seal"},
                                  key: Keys \cup {Absent}]]
        /\ call'[c].pc = "create" /\ call'[c].key \in Keys
        /\ \A d \in Caller : d # c => call'[d] = call[d]
    BY <2>1, CallMoves
  <2>5. ASSUME ~muddled' PROVE ~muddled /\ \A d \in Caller : d # c => call'[d].pc = "idle"
    BY <2>4, <2>5, NotMuddled
  <2>6. ~muddled' =>
          /\ sealed' \subseteq {file'}
          /\ \A d \in Caller : /\ call'[d].pc = "create" => file' = Absent
                               /\ call'[d].pc = "write" => file' = Empty
                               /\ call'[d].pc = "seal" => file' = call'[d].key
    BY <2>2, <2>3, <2>4, <2>5 DEF KeyInv
  <2>7. \A d \in Caller : /\ call'[d].pc = "read" => file' # Absent
                          /\ call'[d].pc \in {"create", "write", "seal"} => call'[d].key \in Keys
    BY <2>2, <2>4 DEF KeyInv
  <2>8. ~muddled' => \A c1, c2 \in Caller :
          c1 # c2 /\ call'[c1].pc \in {"create", "write"} => call'[c2].pc = "idle"
    BY NotMuddled
  <2>9. QED BY <2>1, <2>2, <2>4, <2>6, <2>7, <2>8 DEF KeyInv
<1>2. CASE file # Absent /\ CallAt(c, "read", Absent) /\ UNCHANGED <<made, file, sealed, trouble>>
  BY <1>2, CallMoves, NotMuddled DEF KeyInv
<1>3. QED BY <1>1, <1>2 DEF Look, LookFails

LEMMA ReadKeeps ==
  ASSUME KeyInv, KeyNext, NEW c \in Caller, Read(c)
  PROVE  KeyInv'
<1>1. file # Absent /\ UNCHANGED <<file, made, sealed, trouble>> BY DEF Read, KeyInv
<1>2. CASE file = Empty
  <2>1. CallAt(c, "idle", Absent) BY <1>2 DEF Read
  <2>2. QED BY <1>1, <2>1, CallMoves, NotMuddled DEF KeyInv
<1>3. CASE file # Empty
  <2>1. CallAt(c, "seal", file) /\ file \in Keys BY <1>1, <1>3 DEF Read, KeyInv
  <2>2. QED BY <1>1, <2>1, CallMoves, NotMuddled DEF KeyInv
<1>4. QED BY <1>2, <1>3

\* Where nobody else is at work, an empty file is written over nothing.
LEMMA CreateKeeps ==
  ASSUME KeyInv, KeyNext, NEW c \in Caller, Create(c)
  PROVE  KeyInv'
<1>1. /\ call[c].pc = "create" /\ call[c].key \in Keys
      /\ file' = Empty /\ CallAt(c, "write", call[c].key) /\ UNCHANGED <<made, sealed, trouble>>
  BY DEF Create, KeyInv
<1>2. ~muddled => sealed = {} BY <1>1 DEF KeyInv
<1>3. ~muddled => \A d \in Caller : d # c => call[d].pc = "idle" BY <1>1 DEF KeyInv
<1>4. QED BY <1>1, <1>2, <1>3, CallMoves, NotMuddled DEF KeyInv

LEMMA WriteKeeps ==
  ASSUME KeyInv, KeyNext, NEW c \in Caller, Write(c)
  PROVE  KeyInv'
<1>1. /\ call[c].pc = "write" /\ call[c].key \in Keys
      /\ file' = call[c].key /\ CallAt(c, "seal", call[c].key) /\ UNCHANGED <<made, sealed, trouble>>
  BY DEF Write, KeyInv
<1>2. ~muddled => sealed = {} BY <1>1 DEF KeyInv
<1>3. ~muddled => \A d \in Caller : d # c => call[d].pc = "idle" BY <1>1 DEF KeyInv
<1>4. QED BY <1>1, <1>2, <1>3, CallMoves, NotMuddled DEF KeyInv

LEMMA SealEnds ==
  ASSUME KeyInv, KeyNext, NEW c \in Caller, Seal(c) \/ CallStops(c)
  PROVE  KeyInv'
<1>1. CallAt(c, "idle", Absent) /\ UNCHANGED <<file, made>> /\ trouble' \in 0..MaxTrouble
  BY DEF Seal, CallStops, KeyInv
<1>2. sealed' \subseteq Keys /\ (~muddled => sealed' \subseteq {file})
  BY DEF Seal, CallStops, KeyInv
<1>3. QED BY <1>1, <1>2, CallMoves, NotMuddled DEF KeyInv

\* Who makes the key file is alone with it, and whoever has a key has the one in the
\* file, unless the history says otherwise (LocalFileKms::data_key).
THEOREM KeyInductive == KeySpec => []KeyInv
<1>1. KeyInv /\ [KeyNext]_keyVars => KeyInv'
  <2> SUFFICES ASSUME KeyInv, [KeyNext]_keyVars PROVE KeyInv'
    OBVIOUS
  <2>1. CASE KeyNext
    <3>1. PICK c \in Caller : Look(c) \/ LookFails(c) \/ Read(c) \/ Create(c) \/ Write(c)
                              \/ Seal(c) \/ CallStops(c)
      BY <2>1 DEF KeyNext
    <3>2. QED BY <2>1, <3>1, LookKeeps, ReadKeeps, CreateKeeps, WriteKeeps, SealEnds
  <2>2. CASE UNCHANGED keyVars BY <2>2 DEF KeyInv, keyVars
  <2>3. QED BY <2>1, <2>2
<1>2. QED BY <1>1, KeyStarts, PTL DEF KeySpec

\* What was sealed opens with the key in the file, unless first calls overlapped or a
\* look-up failed.
THEOREM SealedOpens == KeySpec => []EverySealedOpens
<1>1. KeyInv => EverySealedOpens BY DEF KeyInv, EverySealedOpens
<1>2. QED BY <1>1, KeyInductive, PTL

LEMMA MuddledIsBoolean ==
  ASSUME muddled \in BOOLEAN, [KeyNext]_keyVars
  PROVE  muddled' \in BOOLEAN
<1>1. CASE UNCHANGED keyVars BY <1>1, Zenon DEF keyVars
<1>2. CASE KeyNext BY <1>2, Zenon DEF KeyNext
<1>3. QED BY <1>1, <1>2

\* data_key keeps to its types, for any number of callers and keys.
THEOREM KeyTypes == KeySpec => []KeyTypeOK
<1> DEFINE Flagged == muddled \in BOOLEAN
<1>1. KeyInit => Flagged BY Zenon DEF KeyInit
<1>2. Flagged /\ [KeyNext]_keyVars => Flagged' BY MuddledIsBoolean
<1>3. KeyInv /\ Flagged => KeyTypeOK BY Zenon DEF KeyInv, KeyTypeOK
<1> HIDE DEF Flagged
<1>4. QED BY <1>1, <1>2, <1>3, KeyInductive, PTL DEF KeySpec

-----------------------------------------------------------------------------
(* The circle.                                                             *)

USE CircleAssumption

\* A row for one more address takes at most one more seat.
LEMMA OneMoreSeat ==
  ASSUME NEW e \in Email, NEW S, S \subseteq Taken \cup {e}
  PROVE  /\ Cardinality(S) \in Nat /\ Cardinality(Taken) \in Nat
         /\ Cardinality(S) <= Cardinality(Taken) + 1
<1>1. IsFiniteSet(Taken) BY FS_Subset DEF Taken
<1>2. IsFiniteSet(Taken \cup {e})
       /\ Cardinality(Taken \cup {e}) \in {Cardinality(Taken), Cardinality(Taken) + 1}
  BY <1>1, FS_AddElement
<1>3. QED BY <1>1, <1>2, FS_Subset, FS_CardinalityType

LEMMA FewerSeats ==
  ASSUME NEW S, S \subseteq Taken
  PROVE  /\ Cardinality(S) \in Nat /\ Cardinality(Taken) \in Nat
         /\ Cardinality(S) <= Cardinality(Taken)
<1>1. IsFiniteSet(Taken) BY FS_Subset DEF Taken
<1>2. QED BY <1>1, FS_Subset, FS_CardinalityType

LEMMA AwayIsIdle == Away \in VisitorState /\ Away.pc = "idle"
  BY DEF Away, Visitor, VisitorState

LEMMA CircleStarts == CircleInit => CircleInv
<1> SUFFICES ASSUME CircleInit PROVE CircleInv
  OBVIOUS
<1>1. Taken = {} BY DEF CircleInit, Taken, NoSeat
<1>2. Cardinality(Taken) = 0 BY <1>1, FS_EmptySet
<1>3. QED BY <1>2, AwayIsIdle DEF CircleInit, CircleInv, NoSeat, GuestAt

\* The parts of the invariant that hold whatever overlaps.
SeatFacts ==
  /\ seat \in [Email -> [taken: BOOLEAN, confirmed: BOOLEAN, token: Nat, passphrase: Nat]]
  /\ invited \in Nat /\ latest \in [Email -> Nat]
  /\ \A e \in Email : /\ seat[e].confirmed => seat[e].passphrase = latest[e]
                      /\ seat[e].token # 0 => seat[e].token = latest[e]

HookFacts == hooks \in Nat /\ 0 \notin handed

\* The parts that hold while one request is at work at a time.
SeatsFew ==
  /\ Cardinality(Taken) <= MaxSeats
  /\ \A g \in Guest : GuestAt(g, "insert") => Cardinality(Taken) < MaxSeats

HookKnown ==
  /\ \A g \in Guest : GuestAt(g, "enrol") => hook = 0
  /\ handed \subseteq {hook} \cup revoked

OneAtATime == \A g, h \in Guest : g # h => GuestAt(g, "idle") \/ GuestAt(h, "idle")
GuestsKnown ==
  /\ guest \in [Guest -> VisitorState]
  /\ \A g \in Guest : GuestAt(g, "insert") => guest[g].email \in Email

LEMMA CircleParts ==
  /\ CircleInv <=> /\ SeatFacts /\ HookFacts /\ GuestsKnown
                   /\ ~jostled => OneAtATime /\ SeatsFew /\ HookKnown
  /\ CircleInv' <=> /\ SeatFacts' /\ HookFacts' /\ GuestsKnown'
                    /\ ~jostled' => (OneAtATime /\ SeatsFew /\ HookKnown)'
  BY DEF CircleInv, SeatFacts, HookFacts, GuestsKnown, OneAtATime, SeatsFew, HookKnown

LEMMA WasAlone ==
  ASSUME CircleNext, ~jostled' PROVE ~jostled /\ OneAtATime'
  BY DEF CircleNext, OneAtATime, GuestAt

\* A step of one request that leaves the seats alone.
LEMMA SeatsAlone ==
  ASSUME CircleInv, UNCHANGED <<seat, invited, latest>>
  PROVE  SeatFacts' /\ Taken' = Taken
  BY CircleParts DEF SeatFacts, Taken

LEMMA HooksAlone ==
  ASSUME CircleInv, UNCHANGED hookVars, \A g \in Guest : GuestAt(g, "enrol")' => GuestAt(g, "enrol")
  PROVE  HookFacts' /\ (~jostled => HookKnown')
  BY CircleParts DEF HookFacts, HookKnown, hookVars

\* A request that moves on has its email and, at the insertion of a row, its count.
LEMMA GuestMoves ==
  ASSUME CircleInv, NEW g \in Guest, NEW v \in VisitorState, GuestGoto(g, v),
         v.pc = "insert" => v.email \in Email
  PROVE  /\ GuestsKnown'
         /\ \A h \in Guest : \A pc \in {"insert", "enrol"} :
              GuestAt(h, pc)' => (h # g /\ GuestAt(h, pc)) \/ (h = g /\ v.pc = pc)
  BY CircleParts DEF GuestsKnown, GuestAt, GuestGoto

-----------------------------------------------------------------------------
\* The requests that neither take a seat nor touch the webhook.
LEMMA CountKeeps ==
  ASSUME CircleInv, CircleNext, NEW g \in Guest, NEW e \in Email, InviteCount(g, e)
  PROVE  CircleInv'
<1> DEFINE v == Visitor("insert", e, 0, 0)
<1>1. GuestGoto(g, v) /\ Cardinality(Taken) < MaxSeats /\ UNCHANGED <<seatVars, hookVars>>
  BY DEF InviteCount
<1>2. v \in VisitorState /\ v.pc = "insert" /\ v.email \in Email BY DEF Visitor, VisitorState
<1> HIDE DEF v
<1>3. GuestsKnown' /\ \A h \in Guest : GuestAt(h, "enrol")' => GuestAt(h, "enrol")
  BY <1>1, <1>2, GuestMoves
<1>4. SeatFacts' /\ Taken' = Taken BY <1>1, SeatsAlone DEF seatVars
<1>5. HookFacts' /\ (~jostled => HookKnown') BY <1>1, <1>3, HooksAlone
<1>6. ~jostled => SeatsFew'
  <2>1. Cardinality(Taken') < MaxSeats BY <1>1, <1>4
  <2>2. Cardinality(Taken') \in Nat BY <1>4, FewerSeats
  <2>3. QED BY <2>1, <2>2 DEF SeatsFew
<1>7. QED BY <1>3, <1>4, <1>5, <1>6, WasAlone, CircleParts

LEMMA GuestWalks ==
  ASSUME CircleInv, CircleNext, NEW g \in Guest, NEW v \in VisitorState,
         GuestGoto(g, v), v.pc \notin {"insert", "enrol"}, UNCHANGED <<seat, invited, latest, hookVars>>
  PROVE  CircleInv'
<1>1. GuestsKnown'
       /\ \A h \in Guest : \A pc \in {"insert", "enrol"} : GuestAt(h, pc)' => GuestAt(h, pc)
  BY GuestMoves
<1>2. SeatFacts' /\ Taken' = Taken BY SeatsAlone
<1>3. HookFacts' /\ (~jostled => HookKnown') BY <1>1, HooksAlone
<1>4. ~jostled => SeatsFew' BY <1>1, <1>2, CircleParts DEF SeatsFew
<1>5. QED BY <1>1, <1>2, <1>3, <1>4, WasAlone, CircleParts

\* The row is inserted, on the count the same request made.
LEMMA InsertKeeps ==
  ASSUME CircleInv, CircleNext, NEW g \in Guest, InviteInsert(g)
  PROVE  CircleInv'
<1> DEFINE e == guest[g].email
<1>1. GuestAt(g, "insert") /\ e \in Email BY CircleParts DEF InviteInsert, GuestsKnown
<1>2. Away \in VisitorState /\ Away.pc = "idle" BY AwayIsIdle
<1>3. GuestGoto(g, Away) /\ UNCHANGED hookVars BY DEF InviteInsert
<1>4. GuestsKnown'
       /\ \A h \in Guest : \A pc \in {"insert", "enrol"} : GuestAt(h, pc)' => h # g /\ GuestAt(h, pc)
  BY <1>2, <1>3, GuestMoves
<1>5. HookFacts' /\ (~jostled => HookKnown') BY <1>3, <1>4, HooksAlone
<1>6. SeatFacts BY CircleParts
<1>7. /\ seat' = [seat EXCEPT ![e] = [seat[e] EXCEPT !.taken = TRUE, !.confirmed = FALSE,
                                                  !.token = invited + 1]]
      /\ latest' = [latest EXCEPT ![e] = invited + 1] /\ invited' = invited + 1
  BY <1>1, <1>6 DEF InviteInsert, SeatFacts
<1> HIDE DEF e
<1>8. SeatFacts'
  <2>1. seat[e] \in [taken: BOOLEAN, confirmed: BOOLEAN, token: Nat, passphrase: Nat]
         /\ invited + 1 \in Nat
    BY <1>1, <1>6 DEF SeatFacts
  <2>2. /\ seat'[e] = [seat[e] EXCEPT !.taken = TRUE, !.confirmed = FALSE, !.token = invited + 1]
        /\ latest'[e] = invited + 1
        /\ \A x \in Email : x # e => seat'[x] = seat[x] /\ latest'[x] = latest[x]
    BY <1>1, <1>6, <1>7 DEF SeatFacts
  <2>3. seat'[e] \in [taken: BOOLEAN, confirmed: BOOLEAN, token: Nat, passphrase: Nat]
         /\ ~seat'[e].confirmed /\ seat'[e].token = invited + 1
    BY <2>1, <2>2
  <2>4. seat' \in [Email -> [taken: BOOLEAN, confirmed: BOOLEAN, token: Nat, passphrase: Nat]]
         /\ latest' \in [Email -> Nat] /\ invited' \in Nat
    BY <2>1, <2>2, <2>3, <1>6, <1>7 DEF SeatFacts
  <2>5. QED BY <2>2, <2>3, <2>4, <1>6 DEF SeatFacts
<1>9. Taken' \subseteq Taken \cup {e} BY <1>1, <1>6, <1>7 DEF SeatFacts, Taken
<1>10. ~jostled' => SeatsFew'
  <2> SUFFICES ASSUME ~jostled' PROVE SeatsFew'
    OBVIOUS
  <2>1. ~jostled /\ OneAtATime' BY WasAlone
  <2>2. Cardinality(Taken) < MaxSeats BY <2>1, <1>1, CircleParts DEF SeatsFew
  <2>3. Cardinality(Taken') <= MaxSeats BY <2>2, <1>1, <1>9, OneMoreSeat
  <2>4. \A h \in Guest : ~GuestAt(h, "insert")'
    <3> SUFFICES ASSUME NEW h \in Guest, GuestAt(h, "insert")' PROVE FALSE
      OBVIOUS
    <3>1. h # g /\ GuestAt(h, "insert") BY <1>4
    <3>2. OneAtATime BY <2>1, CircleParts
    <3>3. QED BY <3>1, <3>2, <1>1 DEF OneAtATime, GuestAt
  <2>5. QED BY <2>3, <2>4 DEF SeatsFew
<1>11. QED BY <1>4, <1>5, <1>8, <1>10, WasAlone, CircleParts

LEMMA ConfirmKeeps ==
  ASSUME CircleInv, CircleNext, NEW g \in Guest, NEW e \in Email, NEW n \in Invitation,
         ConfirmSeat(g, e, n)
  PROVE  CircleInv'
<1> DEFINE v == Visitor("session", e, n, 0)
<1>1. v \in VisitorState /\ v.pc = "session" BY DEF Visitor, VisitorState, Invitation
<1>2. GuestGoto(g, v) /\ UNCHANGED <<invited, latest, hookVars>> BY DEF ConfirmSeat
<1> HIDE DEF v
<1>3. GuestsKnown'
       /\ \A h \in Guest : \A pc \in {"insert", "enrol"} : GuestAt(h, pc)' => GuestAt(h, pc)
  BY <1>1, <1>2, GuestMoves
<1>4. HookFacts' /\ (~jostled => HookKnown') BY <1>2, <1>3, HooksAlone
<1>5. SeatFacts BY CircleParts
<1>6. /\ seat \in [Email -> [taken: BOOLEAN, confirmed: BOOLEAN, token: Nat, passphrase: Nat]]
      /\ n # 0 /\ seat[e].token = n /\ n = latest[e] /\ n \in Nat
  BY <1>5 DEF ConfirmSeat, SeatFacts, Invitation
<1>7. PICK t \in [taken: BOOLEAN, confirmed: BOOLEAN, token: Nat, passphrase: Nat] :
        /\ seat' = [seat EXCEPT ![e] = t]
        /\ t.passphrase = n /\ t.token = 0 /\ t.taken = seat[e].taken
  <2>1. PICK t : t = [seat[e] EXCEPT !.confirmed = TRUE, !.passphrase = n, !.token = 0] OBVIOUS
  <2>2. /\ t \in [taken: BOOLEAN, confirmed: BOOLEAN, token: Nat, passphrase: Nat]
        /\ t.passphrase = n /\ t.token = 0 /\ t.taken = seat[e].taken
    BY <1>6, <2>1
  <2>3. seat' = [seat EXCEPT ![e] = t] BY <1>6, <2>1 DEF ConfirmSeat
  <2>4. QED BY <2>2, <2>3
<1>8. \A m \in Email : seat'[m] = IF m = e THEN t ELSE seat[m] BY <1>6, <1>7
<1>9. SeatFacts' BY <1>2, <1>5, <1>6, <1>7, <1>8 DEF SeatFacts
<1>10. Taken' = Taken BY <1>6, <1>7, <1>8 DEF Taken
<1>11. ~jostled => SeatsFew' BY <1>3, <1>10, CircleParts DEF SeatsFew
<1>12. QED BY <1>3, <1>4, <1>9, <1>11, WasAlone, CircleParts

LEMMA RevokeSeatKeeps ==
  ASSUME CircleInv, CircleNext, NEW e \in Email, RevokeSeat(e)
  PROVE  CircleInv'
<1>1. UNCHANGED <<invited, latest, guest, hookVars>> BY DEF RevokeSeat
<1>2. SeatFacts BY CircleParts
<1>3. seat' = [seat EXCEPT ![e] = [seat[e] EXCEPT !.taken = FALSE]] BY <1>2 DEF RevokeSeat, SeatFacts
<1>4. SeatFacts' /\ Taken' \subseteq Taken BY <1>1, <1>2, <1>3 DEF SeatFacts, Taken
<1>5. GuestsKnown' /\ \A h \in Guest : \A pc \in {"insert", "enrol"} : GuestAt(h, pc)' = GuestAt(h, pc)
  BY <1>1, CircleParts DEF GuestsKnown, GuestAt
<1>6. HookFacts' /\ (~jostled => HookKnown') BY <1>1, <1>5, HooksAlone
<1>7. ~jostled => SeatsFew'
  <2> SUFFICES ASSUME ~jostled PROVE SeatsFew'
    OBVIOUS
  <2>1. SeatsFew BY CircleParts
  <2>2. Cardinality(Taken') \in Nat /\ Cardinality(Taken) \in Nat
         /\ Cardinality(Taken') <= Cardinality(Taken)
    BY <1>4, FewerSeats
  <2>3. QED BY <2>1, <2>2, <1>5 DEF SeatsFew
<1>8. QED BY <1>4, <1>5, <1>6, <1>7, WasAlone, CircleParts

-----------------------------------------------------------------------------
(* The webhook.                                                            *)

LEMMA EnrolKeeps ==
  ASSUME CircleInv, CircleNext, NEW g \in Guest, EnrolFetch(g) \/ EnrolCreate(g)
  PROVE  CircleInv'
<1>1. UNCHANGED <<seat, invited, latest>> BY DEF EnrolFetch, EnrolCreate, seatVars
<1>2. SeatFacts' /\ Taken' = Taken BY <1>1, SeatsAlone
<1>3. CASE EnrolFetch(g) /\ hook # 0
  <2>1. UNCHANGED <<guest, hook, hooks, revoked>> /\ handed' = handed \cup {hook}
    BY <1>3 DEF EnrolFetch
  <2>2. GuestsKnown' /\ \A h \in Guest : \A pc \in {"insert", "enrol"} : GuestAt(h, pc)' = GuestAt(h, pc)
    BY <2>1, CircleParts DEF GuestsKnown, GuestAt
  <2>3. HookFacts' /\ (~jostled => HookKnown') BY <2>1, <2>2, <1>3, CircleParts DEF HookFacts, HookKnown
  <2>4. ~jostled => SeatsFew' BY <2>2, <1>2, CircleParts DEF SeatsFew
  <2>5. QED BY <1>2, <2>2, <2>3, <2>4, WasAlone, CircleParts
<1>4. CASE EnrolFetch(g) /\ hook = 0
  <2> DEFINE v == Visitor("enrol", Nobody, 0, 0)
  <2>1. v \in VisitorState /\ v.pc = "enrol" BY DEF Visitor, VisitorState
  <2>2. GuestGoto(g, v) /\ UNCHANGED hookVars BY <1>4 DEF EnrolFetch, hookVars
  <2> HIDE DEF v
  <2>3. GuestsKnown' /\ \A h \in Guest : GuestAt(h, "insert")' => GuestAt(h, "insert")
    BY <2>1, <2>2, GuestMoves
  <2>4. HookFacts' /\ (~jostled => HookKnown') BY <2>2, <1>4, CircleParts DEF HookFacts, HookKnown, hookVars
  <2>5. ~jostled => SeatsFew' BY <2>3, <1>2, CircleParts DEF SeatsFew
  <2>6. QED BY <1>2, <2>3, <2>4, <2>5, WasAlone, CircleParts
<1>5. CASE EnrolCreate(g)
  <2>1. Away \in VisitorState /\ Away.pc = "idle" BY AwayIsIdle
  <2>2. GuestGoto(g, Away) /\ GuestAt(g, "enrol") BY <1>5 DEF EnrolCreate
  <2>3. GuestsKnown'
         /\ \A h \in Guest : \A pc \in {"insert", "enrol"} : GuestAt(h, pc)' => h # g /\ GuestAt(h, pc)
    BY <2>1, <2>2, GuestMoves
  <2>4. ~GuestAt(g, "enrol")' BY <2>3
  <2>5. /\ hooks' = hooks + 1 /\ handed' = handed \cup {hooks + 1} /\ revoked' = revoked
        /\ hook' = IF hook = 0 THEN hooks + 1 ELSE hook
    BY <1>5 DEF EnrolCreate
  <2>6. HookFacts' BY <2>5, CircleParts DEF HookFacts
  <2>7. ~jostled => HookKnown'
    <3> SUFFICES ASSUME ~jostled PROVE HookKnown'
      OBVIOUS
    <3>1. HookKnown /\ OneAtATime /\ HookFacts BY CircleParts
    <3>2. hook = 0 BY <3>1, <2>2 DEF HookKnown
    <3>3. handed' \subseteq {hook'} \cup revoked' BY <3>1, <3>2, <2>5 DEF HookKnown, HookFacts
    <3>4. \A h \in Guest : ~GuestAt(h, "enrol")'
      BY <3>1, <2>2, <2>3, <2>4 DEF OneAtATime, GuestAt
    <3>5. QED BY <3>3, <3>4 DEF HookKnown
  <2>8. ~jostled => SeatsFew' BY <2>3, <1>2, CircleParts DEF SeatsFew
  <2>9. QED BY <1>2, <2>3, <2>6, <2>7, <2>8, WasAlone, CircleParts
<1>6. QED BY <1>3, <1>4, <1>5

LEMMA RevokeHookKeeps ==
  ASSUME CircleInv, CircleNext, RevokeHook
  PROVE  CircleInv'
<1>1. UNCHANGED <<seat, invited, latest, guest, hooks, handed>> BY DEF RevokeHook, seatVars
<1>2. SeatFacts' /\ Taken' = Taken BY <1>1, SeatsAlone
<1>3. GuestsKnown' /\ \A h \in Guest : \A pc \in {"insert", "enrol"} : GuestAt(h, pc)' = GuestAt(h, pc)
  BY <1>1, CircleParts DEF GuestsKnown, GuestAt
<1>4. HookFacts' /\ (~jostled => HookKnown')
  BY <1>1, <1>3, CircleParts DEF RevokeHook, HookFacts, HookKnown
<1>5. ~jostled => SeatsFew' BY <1>2, <1>3, CircleParts DEF SeatsFew
<1>6. QED BY <1>2, <1>3, <1>4, <1>5, WasAlone, CircleParts

-----------------------------------------------------------------------------
LEMMA GuestKeeps ==
  ASSUME CircleInv, CircleNext, NEW g \in Guest,
         \/ MatchPassphrase(g) \/ OpenDashboard(g) \/ GuestStops(g)
         \/ \E e \in Email : \E n \in Invitation : LookupSalt(g, e, n)
  PROVE  CircleInv'
<1>1. PICK v \in VisitorState : /\ GuestGoto(g, v) /\ v.pc \notin {"insert", "enrol"}
                               /\ UNCHANGED <<seat, invited, latest, hookVars>>
  <2>1. Away \in VisitorState /\ Away.pc = "idle" BY AwayIsIdle
  <2>2. CASE OpenDashboard(g) BY <2>1, <2>2 DEF OpenDashboard
  <2>3. CASE GuestStops(g) BY <2>1, <2>3 DEF GuestStops, seatVars
  <2>4. CASE \E e \in Email : \E n \in Invitation : LookupSalt(g, e, n)
    <3>1. PICK e \in Email, n \in Invitation : LookupSalt(g, e, n)
      BY <2>4
    <3> DEFINE w == Visitor("match", e, n, seat[e].passphrase)
    <3>2. seat[e].passphrase \in Nat BY CircleParts DEF SeatFacts
    <3>3. w \in VisitorState /\ w.pc = "match" BY <3>2 DEF Visitor, VisitorState, Invitation
    <3>4. GuestGoto(g, w) /\ UNCHANGED <<seat, invited, latest, hookVars>>
      BY <3>1 DEF LookupSalt, seatVars
    <3> HIDE DEF w
    <3>5. QED BY <3>3, <3>4
  <2>5. CASE MatchPassphrase(g)
    <3>1. GuestGoto(g, [guest[g] EXCEPT !.pc = "session"]) \/ GuestGoto(g, Away)
      BY <2>5 DEF MatchPassphrase
    <3>2. [guest[g] EXCEPT !.pc = "session"] \in VisitorState
           /\ [guest[g] EXCEPT !.pc = "session"].pc = "session"
      BY CircleParts DEF GuestsKnown, VisitorState
    <3>3. UNCHANGED <<seat, invited, latest, hookVars>> BY <2>5 DEF MatchPassphrase, seatVars
    <3>4. CASE GuestGoto(g, Away) BY <3>3, <3>4, <2>1
    <3>5. CASE GuestGoto(g, [guest[g] EXCEPT !.pc = "session"]) BY <3>2, <3>3, <3>5
    <3>6. QED BY <3>1, <3>4, <3>5
  <2>6. QED BY <2>2, <2>3, <2>4, <2>5
<1>2. QED BY <1>1, GuestWalks

LEMMA ExpiryKeeps ==
  ASSUME CircleInv, NEW e \in Email, DashboardExpires(e), CircleNext
  PROVE  CircleInv'
<1>1. UNCHANGED <<seat, invited, latest, guest, hookVars>> BY DEF DashboardExpires
<1>2. SeatFacts' /\ Taken' = Taken BY <1>1, SeatsAlone
<1>3. GuestsKnown' /\ \A h \in Guest : \A pc \in {"insert", "enrol"} : GuestAt(h, pc)' = GuestAt(h, pc)
  BY <1>1, CircleParts DEF GuestsKnown, GuestAt
<1>4. HookFacts' /\ (~jostled => HookKnown') BY <1>1, <1>3, HooksAlone
<1>5. ~jostled => SeatsFew' BY <1>2, <1>3, CircleParts DEF SeatsFew
<1>6. QED BY <1>2, <1>3, <1>4, <1>5, WasAlone, CircleParts

\* For any number of requests, in any order and wherever they stop: what is confirmed
\* or can be is of the last invitation, and what one request at a time reads stays true
\* until it writes (invite_co_steward, confirm_co_steward, bank_dormancy_enrol).
THEOREM CircleInductive == CircleSpec => []CircleInv
<1>1. CircleInv /\ [CircleNext]_circleVars => CircleInv'
  <2> SUFFICES ASSUME CircleInv, [CircleNext]_circleVars PROVE CircleInv'
    OBVIOUS
  <2>1. CASE CircleNext
    <3>1. \/ \E g \in Guest : InviteInsert(g) \/ MatchPassphrase(g) \/ OpenDashboard(g)
                              \/ EnrolFetch(g) \/ EnrolCreate(g) \/ GuestStops(g)
          \/ \E g \in Guest : \E e \in Email :
               InviteCount(g, e) \/ \E n \in Invitation : ConfirmSeat(g, e, n) \/ LookupSalt(g, e, n)
          \/ \E e \in Email : RevokeSeat(e) \/ DashboardExpires(e)
          \/ RevokeHook
      BY <2>1 DEF CircleNext
    <3>2. QED
      BY <2>1, <3>1, InsertKeeps, GuestKeeps, EnrolKeeps, CountKeeps, ConfirmKeeps,
         RevokeSeatKeeps, ExpiryKeeps, RevokeHookKeeps
  <2>2. CASE UNCHANGED circleVars
    BY <2>2 DEF CircleInv, circleVars, seatVars, hookVars, GuestAt, Taken
  <2>3. QED BY <2>1, <2>2
<1>2. QED BY <1>1, CircleStarts, PTL DEF CircleSpec

\* A Co-Steward who can sign in answered the last invitation of that address, and there
\* are no more of them than the plan allows unless requests overlapped.
THEOREM SeatsKept == CircleSpec => []SeatsInOrder
<1>1. CircleInv => SeatsInOrder BY DEF CircleInv, SeatsInOrder
<1>2. QED BY <1>1, CircleInductive, PTL

\* A webhook the principal was told works until it is revoked, unless requests overlapped.
THEOREM WebhookKept == CircleSpec => []WebhookAnswers
<1>1. CircleInv => WebhookAnswers BY DEF CircleInv, WebhookAnswers
<1>2. QED BY <1>1, CircleInductive, PTL

-----------------------------------------------------------------------------
(* The types of the circle: what a request carries is an invitation that   *)
(* was sent, and of an address whenever it is about to use one.            *)

SeatRow == [taken: BOOLEAN, confirmed: BOOLEAN, token: Invitation, passphrase: Invitation]

SeatTypes ==
  /\ seat \in [Email -> SeatRow] /\ invited \in Invitation /\ latest \in [Email -> Invitation]
  /\ dashboards \subseteq Email

GuestTypes ==
  /\ guest \in [Guest -> VisitorState]
  /\ \A g \in Guest : guest[g].pc \in {"insert", "match", "session"} => guest[g].email \in Email

HookTypes ==
  /\ hook \in 0..hooks /\ hooks \in 0..MaxHooks
  /\ handed \subseteq 1..hooks /\ revoked \subseteq 1..hooks

CircleTyped == SeatTypes /\ GuestTypes /\ HookTypes

LEMMA CircleTypesBegin == CircleInit => CircleTyped
<1> SUFFICES ASSUME CircleInit PROVE CircleTyped
  OBVIOUS
<1>1. SeatTypes BY DEF CircleInit, SeatTypes, SeatRow, NoSeat, Invitation
<1>2. GuestTypes BY AwayIsIdle DEF CircleInit, GuestTypes
<1>3. HookTypes BY DEF CircleInit, HookTypes
<1>4. QED BY <1>1, <1>2, <1>3 DEF CircleTyped

\* A request that moves on.
LEMMA GuestTyped ==
  ASSUME GuestTypes, NEW g \in Guest, NEW v \in VisitorState, GuestGoto(g, v),
         v.pc \in {"insert", "match", "session"} => v.email \in Email
  PROVE  GuestTypes'
BY DEF GuestTypes, GuestGoto

LEMMA LeavingTyped ==
  ASSUME GuestTypes, NEW g \in Guest, GuestGoto(g, Away)
  PROVE  GuestTypes'
<1>1. Away \in VisitorState /\ Away.pc = "idle" BY AwayIsIdle
<1>2. QED BY <1>1, GuestTyped

LEMMA InviteTyped ==
  ASSUME CircleTyped, NEW g \in Guest, InviteInsert(g) \/ \E e \in Email : InviteCount(g, e)
  PROVE  CircleTyped'
<1>1. CASE InviteInsert(g)
  <2> DEFINE e == guest[g].email
  <2>1. e \in Email BY <1>1 DEF CircleTyped, GuestTypes, InviteInsert, GuestAt
  <2>2. invited + 1 \in Invitation
    BY <1>1 DEF CircleTyped, SeatTypes, InviteInsert, Invitation
  <2>3. /\ seat' = [seat EXCEPT ![e] = [seat[e] EXCEPT !.taken = TRUE, !.confirmed = FALSE,
                                                    !.token = invited + 1]]
        /\ latest' = [latest EXCEPT ![e] = invited + 1] /\ invited' = invited + 1
        /\ UNCHANGED dashboards
    BY <1>1, <2>1 DEF InviteInsert, CircleTyped, SeatTypes
  <2> HIDE DEF e
  <2>4. SeatTypes' BY <2>1, <2>2, <2>3 DEF CircleTyped, SeatTypes, SeatRow
  <2>5. GuestTypes' BY <1>1, LeavingTyped DEF CircleTyped, InviteInsert
  <2>6. HookTypes' BY <1>1 DEF CircleTyped, HookTypes, InviteInsert, hookVars
  <2>7. QED BY <2>4, <2>5, <2>6 DEF CircleTyped
<1>2. ASSUME NEW e \in Email, InviteCount(g, e) PROVE CircleTyped'
  <2> DEFINE v == Visitor("insert", e, 0, 0)
  <2>1. v \in VisitorState /\ v.email \in Email BY DEF Visitor, VisitorState
  <2>2. GuestGoto(g, v) /\ UNCHANGED <<seatVars, hookVars>> BY <1>2 DEF InviteCount
  <2> HIDE DEF v
  <2>3. GuestTypes' BY <2>1, <2>2, GuestTyped DEF CircleTyped
  <2>4. QED BY <2>2, <2>3 DEF CircleTyped, SeatTypes, HookTypes, seatVars, hookVars
<1>3. QED BY <1>1, <1>2

LEMMA AnswerTyped ==
  ASSUME CircleTyped, NEW g \in Guest, NEW e \in Email, NEW n \in Invitation,
         ConfirmSeat(g, e, n) \/ LookupSalt(g, e, n)
  PROVE  CircleTyped'
<1>1. n \in Nat /\ seat[e].passphrase \in Nat
  BY DEF CircleTyped, SeatTypes, SeatRow, Invitation
<1>2. HookTypes' BY DEF CircleTyped, HookTypes, ConfirmSeat, LookupSalt, hookVars
<1>3. CASE ConfirmSeat(g, e, n)
  <2> DEFINE v == Visitor("session", e, n, 0)
  <2>1. v \in VisitorState /\ v.email \in Email BY <1>1 DEF Visitor, VisitorState
  <2>2. GuestGoto(g, v) /\ UNCHANGED <<invited, latest, dashboards>> BY <1>3 DEF ConfirmSeat
  <2> HIDE DEF v
  <2>3. GuestTypes' BY <2>1, <2>2, GuestTyped DEF CircleTyped
  <2>4. seat' = [seat EXCEPT ![e] = [seat[e] EXCEPT !.confirmed = TRUE, !.passphrase = n, !.token = 0]]
    BY <1>3 DEF ConfirmSeat, CircleTyped, SeatTypes
  <2>5. 0 \in Invitation BY DEF Invitation
  <2>6. SeatTypes' BY <2>2, <2>4, <2>5 DEF CircleTyped, SeatTypes, SeatRow
  <2>7. QED BY <1>2, <2>3, <2>6 DEF CircleTyped
<1>4. CASE LookupSalt(g, e, n)
  <2> DEFINE v == Visitor("match", e, n, seat[e].passphrase)
  <2>1. v \in VisitorState /\ v.email \in Email BY <1>1 DEF Visitor, VisitorState
  <2>2. GuestGoto(g, v) /\ UNCHANGED seatVars BY <1>4 DEF LookupSalt
  <2> HIDE DEF v
  <2>3. GuestTypes' BY <2>1, <2>2, GuestTyped DEF CircleTyped
  <2>4. QED BY <1>2, <2>2, <2>3 DEF CircleTyped, SeatTypes, seatVars
<1>5. QED BY <1>3, <1>4

LEMMA VisitTyped ==
  ASSUME CircleTyped, NEW g \in Guest, MatchPassphrase(g) \/ OpenDashboard(g) \/ GuestStops(g)
  PROVE  CircleTyped'
<1>1. HookTypes'
  BY DEF CircleTyped, HookTypes, MatchPassphrase, OpenDashboard, GuestStops, hookVars
<1>2. CASE MatchPassphrase(g)
  <2> DEFINE v == [guest[g] EXCEPT !.pc = "session"]
  <2>1. guest[g] \in VisitorState /\ guest[g].pc = "match" /\ guest[g].email \in Email
    BY <1>2 DEF CircleTyped, GuestTypes, MatchPassphrase, GuestAt
  <2>2. v \in VisitorState /\ v.email \in Email BY <2>1 DEF VisitorState
  <2>3. (GuestGoto(g, v) \/ GuestGoto(g, Away)) /\ UNCHANGED seatVars
    BY <1>2 DEF MatchPassphrase
  <2> HIDE DEF v
  <2>4. GuestTypes' BY <2>2, <2>3, GuestTyped, LeavingTyped DEF CircleTyped
  <2>5. QED BY <1>1, <2>3, <2>4 DEF CircleTyped, SeatTypes, seatVars
<1>3. CASE OpenDashboard(g)
  <2>1. guest[g].email \in Email
    BY <1>3 DEF CircleTyped, GuestTypes, OpenDashboard, GuestAt
  <2>2. GuestTypes' BY <1>3, LeavingTyped DEF CircleTyped, OpenDashboard
  <2>3. SeatTypes' BY <1>3, <2>1 DEF CircleTyped, SeatTypes, OpenDashboard
  <2>4. QED BY <1>1, <2>2, <2>3 DEF CircleTyped
<1>4. CASE GuestStops(g)
  <2>1. GuestTypes' BY <1>4, LeavingTyped DEF CircleTyped, GuestStops
  <2>2. SeatTypes' BY <1>4 DEF CircleTyped, SeatTypes, GuestStops, seatVars
  <2>3. QED BY <1>1, <2>1, <2>2 DEF CircleTyped
<1>5. QED BY <1>2, <1>3, <1>4

LEMMA PrincipalTyped ==
  ASSUME CircleTyped, NEW e \in Email, RevokeSeat(e) \/ DashboardExpires(e)
  PROVE  CircleTyped'
<1>1. UNCHANGED <<invited, latest, guest, hookVars>> BY DEF RevokeSeat, DashboardExpires
<1>2. CASE RevokeSeat(e)
  <2>1. seat' = [seat EXCEPT ![e] = [seat[e] EXCEPT !.taken = FALSE]] /\ UNCHANGED dashboards
    BY <1>2 DEF RevokeSeat, CircleTyped, SeatTypes
  <2>2. SeatTypes' BY <1>1, <2>1 DEF CircleTyped, SeatTypes, SeatRow
  <2>3. QED BY <1>1, <2>2 DEF CircleTyped, GuestTypes, HookTypes, hookVars
<1>3. CASE DashboardExpires(e)
  BY <1>1, <1>3 DEF CircleTyped, SeatTypes, GuestTypes, HookTypes, hookVars, DashboardExpires
<1>4. QED BY <1>2, <1>3

LEMMA HookTyped ==
  ASSUME CircleTyped,
         RevokeHook \/ \E g \in Guest : EnrolFetch(g) \/ EnrolCreate(g)
  PROVE  CircleTyped'
<1>1. SeatTypes' BY DEF CircleTyped, SeatTypes, RevokeHook, EnrolFetch, EnrolCreate, seatVars
<1>2. CASE RevokeHook
  BY <1>1, <1>2 DEF CircleTyped, GuestTypes, HookTypes, RevokeHook
<1>3. ASSUME NEW g \in Guest, EnrolFetch(g) PROVE CircleTyped'
  <2>1. HookTypes'
    <3>1. UNCHANGED <<hook, hooks, revoked>>
          /\ (handed' = handed \/ (hook # 0 /\ handed' = handed \cup {hook}))
      BY <1>3 DEF EnrolFetch
    <3>2. hook # 0 => hook \in 1..hooks BY DEF CircleTyped, HookTypes
    <3>3. QED BY <3>1, <3>2 DEF CircleTyped, HookTypes
  <2> DEFINE v == Visitor("enrol", Nobody, 0, 0)
  <2>2. v \in VisitorState /\ v.pc = "enrol" BY DEF Visitor, VisitorState
  <2>3. GuestGoto(g, v) \/ UNCHANGED guest BY <1>3 DEF EnrolFetch
  <2> HIDE DEF v
  <2>4. CASE GuestGoto(g, v)
    <3>1. GuestTypes' BY <2>2, <2>4, GuestTyped DEF CircleTyped
    <3>2. QED BY <1>1, <2>1, <3>1 DEF CircleTyped
  <2>5. CASE UNCHANGED guest BY <1>1, <2>1, <2>5 DEF CircleTyped, GuestTypes
  <2>6. QED BY <2>3, <2>4, <2>5
<1>4. ASSUME NEW g \in Guest, EnrolCreate(g) PROVE CircleTyped'
  <2>1. GuestTypes' BY <1>4, LeavingTyped DEF CircleTyped, EnrolCreate
  <2>2. HookTypes' BY <1>4 DEF CircleTyped, HookTypes, EnrolCreate
  <2>3. QED BY <1>1, <2>1, <2>2 DEF CircleTyped
<1>5. QED BY <1>2, <1>3, <1>4

LEMMA JostledIsBoolean ==
  ASSUME jostled \in BOOLEAN, [CircleNext]_circleVars
  PROVE  jostled' \in BOOLEAN
<1>1. CASE UNCHANGED circleVars BY <1>1, Zenon DEF circleVars
<1>2. CASE CircleNext BY <1>2, Zenon DEF CircleNext
<1>3. QED BY <1>1, <1>2

\* invite_co_steward, confirm_co_steward, sign_in_co_steward and bank_dormancy_enrol keep
\* to their types, for any finite set of addresses and any number of requests.
THEOREM CircleTypes == CircleSpec => []CircleTypeOK
<1> DEFINE Flagged == jostled \in BOOLEAN
<1>1. CircleInit => Flagged BY Zenon DEF CircleInit
<1>2. Flagged /\ [CircleNext]_circleVars => Flagged' BY JostledIsBoolean
<1>3. CircleTyped /\ [CircleNext]_circleVars => CircleTyped'
  <2> SUFFICES ASSUME CircleTyped, [CircleNext]_circleVars PROVE CircleTyped'
    OBVIOUS
  <2>1. CASE CircleNext
    <3>1. \/ \E g \in Guest : InviteInsert(g) \/ MatchPassphrase(g) \/ OpenDashboard(g)
                              \/ EnrolFetch(g) \/ EnrolCreate(g) \/ GuestStops(g)
          \/ \E g \in Guest : \E e \in Email :
               InviteCount(g, e) \/ \E n \in Invitation : ConfirmSeat(g, e, n) \/ LookupSalt(g, e, n)
          \/ \E e \in Email : RevokeSeat(e) \/ DashboardExpires(e)
          \/ RevokeHook
      BY <2>1 DEF CircleNext
    <3>2. QED
      BY <3>1, InviteTyped, AnswerTyped, VisitTyped, PrincipalTyped, HookTyped
  <2>2. CASE UNCHANGED circleVars
    BY <2>2 DEF CircleTyped, SeatTypes, GuestTypes, HookTypes, circleVars, seatVars, hookVars
  <2>3. QED BY <2>1, <2>2
<1>4. CircleTyped /\ Flagged => CircleTypeOK
  <2> SUFFICES ASSUME CircleTyped, Flagged PROVE CircleTypeOK
    OBVIOUS
  <2>1. SeatTypes /\ GuestTypes /\ HookTypes BY DEF CircleTyped
  <2>2. QED BY <2>1, Zenon DEF SeatTypes, SeatRow, GuestTypes, HookTypes, CircleTypeOK
<1> HIDE DEF Flagged
<1>5. QED BY <1>1, <1>2, <1>3, <1>4, CircleTypesBegin, PTL DEF CircleSpec

=============================================================================
