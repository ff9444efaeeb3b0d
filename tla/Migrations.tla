----------------------------- MODULE Migrations -----------------------------
(***************************************************************************)
(* Bringing the schema up to date when nodes start: migrate, migrate_locked*)
(* and verify_migrations of crates/beacon-db, and the boot modes of        *)
(* state.rs.  A node that applies migrations does so under an advisory     *)
(* lock of the database, held by a connection that does nothing else; each *)
(* migration is one transaction.  The database may have been begun by hand,*)
(* with psql, before there was a record of what was applied.               *)
(***************************************************************************)
EXTENDS Naturals

CONSTANTS
  Booter,       \* nodes that start, or one-off "beacon migrate" tasks
  LastMigration,\* how many migrations the binary embeds
  Adoptable,    \* the first so many are recognised in a schema made by hand
  Repeatable,   \* the migrations whose statements may be run again
  MaxMishaps    \* bound: nodes that die, and lock connections that are lost

Migration == 1..LastMigration
Unlocked == "unlocked"

ASSUME MigrationsAssumption ==
  /\ Unlocked \notin Booter
  /\ LastMigration \in Nat /\ MaxMishaps \in Nat
  /\ Adoptable \in 0..LastMigration /\ Repeatable \subseteq Migration

VARIABLES
  byHand,       \* how many migrations psql had applied
  inSchema,     \* the migrations whose statements are in effect
  recorded,     \* schema_migrations
  bootLock,     \* who holds the advisory lock, or Unlocked
  boot,         \* the nodes
  bootFailed,   \* history: a migration failed, so the node did not start
  mishaps,      \* how many nodes died or lost their lock
  strayed       \* history: a lock's connection was lost while its holder went on

schemaVars == <<byHand, inSchema, recorded>>
migrationVars == <<schemaVars, bootLock, boot, bootFailed, mishaps, strayed>>

BootState(pc, n) == [pc |-> pc, at |-> n]
Down == BootState("down", 1)

MigrationsTypeOK ==
  /\ byHand \in 0..LastMigration /\ inSchema \subseteq Migration
  /\ recorded \subseteq Migration
  /\ bootLock \in Booter \cup {Unlocked}
  /\ boot \in [Booter -> [pc: {"down", "wait", "read", "look", "adopt", "run", "verify", "up"},
                          at: 1..LastMigration + 1]]
  /\ bootFailed \in BOOLEAN /\ mishaps \in 0..MaxMishaps /\ strayed \in BOOLEAN

MigrationsInit ==
  /\ byHand \in 0..LastMigration /\ inSchema = 1..byHand /\ recorded = {}
  /\ bootLock = Unlocked
  /\ boot = [b \in Booter |-> Down]
  /\ bootFailed = FALSE /\ mishaps = 0 /\ strayed = FALSE

BootGoto(b, pc, n) == boot' = [boot EXCEPT ![b] = BootState(pc, n)]
Unlock(b) == bootLock' = IF bootLock = b THEN Unlocked ELSE bootLock
At(b, pc) == boot[b].pc = pc /\ boot[b].at \in Migration
mishapVars == <<mishaps, strayed>>

\* MIGRATE_ON_BOOT is "apply" or "verify".
StartNode(b, mode) ==
  /\ boot[b].pc = "down"
  /\ BootGoto(b, mode, 1)
  /\ UNCHANGED <<schemaVars, bootLock, bootFailed, mishapVars>>

\* A bug: the lock is one that others may have at the same time.
TakeBootLock_Shared(b) ==
  /\ boot[b].pc = "wait"
  /\ bootLock' = b
  /\ BootGoto(b, "read", 1)
  /\ UNCHANGED <<schemaVars, bootFailed, mishapVars>>

\* migrate waits for pg_advisory_lock.
TakeBootLock(b) ==
  /\ boot[b].pc = "wait" /\ bootLock = Unlocked
  /\ bootLock' = b
  /\ BootGoto(b, "read", 1)
  /\ UNCHANGED <<schemaVars, bootFailed, mishapVars>>

\* Is the migration on record?
ReadRecord(b) ==
  /\ At(b, "read")
  /\ LET n == boot[b].at
     IN IF n \in recorded THEN BootGoto(b, "read", n + 1)
        ELSE BootGoto(b, IF n <= Adoptable THEN "look" ELSE "run", n)
  /\ UNCHANGED <<schemaVars, bootLock, bootFailed, mishapVars>>

\* The first ones: is a table of theirs there?
LookForTable(b) ==
  /\ At(b, "look")
  /\ BootGoto(b, IF boot[b].at \in inSchema THEN "adopt" ELSE "run", boot[b].at)
  /\ UNCHANGED <<schemaVars, bootLock, bootFailed, mishapVars>>

Adopt(b) ==
  /\ At(b, "adopt")
  /\ recorded' = recorded \cup {boot[b].at}
  /\ BootGoto(b, "read", boot[b].at + 1)
  /\ UNCHANGED <<byHand, inSchema, bootLock, bootFailed, mishapVars>>

Runnable(n) == n \notin inSchema \ Repeatable /\ n \notin recorded

\* The statements and the record, in one transaction.
RunMigration(b) ==
  /\ At(b, "run") /\ Runnable(boot[b].at)
  /\ inSchema' = inSchema \cup {boot[b].at}
  /\ recorded' = recorded \cup {boot[b].at}
  /\ BootGoto(b, "read", boot[b].at + 1)
  /\ UNCHANGED <<byHand, bootLock, bootFailed, mishapVars>>

\* What is there already, or on record, makes it fail; the lock is given up.
MigrationFails(b) ==
  /\ At(b, "run") /\ ~Runnable(boot[b].at)
  /\ bootFailed' = TRUE
  /\ Unlock(b)
  /\ BootGoto(b, "down", 1)
  /\ UNCHANGED <<schemaVars, mishapVars>>

NodeUp(b) ==
  /\ boot[b].pc = "read" /\ boot[b].at > LastMigration
  /\ Unlock(b)
  /\ BootGoto(b, "up", 1)
  /\ UNCHANGED <<schemaVars, bootFailed, mishapVars>>

\* verify_migrations: one at a time, and no lock.
VerifyRecord(b) ==
  /\ boot[b].pc = "verify"
  /\ IF boot[b].at > LastMigration THEN BootGoto(b, "up", 1)
     ELSE IF boot[b].at \in recorded THEN BootGoto(b, "verify", boot[b].at + 1)
     ELSE BootGoto(b, "down", 1)
  /\ UNCHANGED <<schemaVars, bootLock, bootFailed, mishapVars>>

NodeDies(b) ==
  /\ boot[b].pc # "down" /\ mishaps < MaxMishaps
  /\ Unlock(b)
  /\ BootGoto(b, "down", 1)
  /\ mishaps' = mishaps + 1
  /\ UNCHANGED <<schemaVars, bootFailed, strayed>>

\* The connection with the lock is lost; the migrations run on another one.
LoseBootLock(b) ==
  /\ bootLock = b /\ mishaps < MaxMishaps
  /\ bootLock' = Unlocked
  /\ mishaps' = mishaps + 1 /\ strayed' = TRUE
  /\ UNCHANGED <<schemaVars, boot, bootFailed>>

MigrationsNext ==
  \E b \in Booter :
    \/ StartNode(b, "wait") \/ StartNode(b, "verify") \/ TakeBootLock(b)
    \/ ReadRecord(b) \/ LookForTable(b) \/ Adopt(b) \/ RunMigration(b) \/ MigrationFails(b)
    \/ NodeUp(b) \/ VerifyRecord(b) \/ NodeDies(b) \/ LoseBootLock(b)

MigrationsSpec == MigrationsInit /\ [][MigrationsNext]_migrationVars

-----------------------------------------------------------------------------
\* Nodes that start together, die and start again never break one another's start: a
\* migration fails only in a schema that psql took further than is recognised, or when
\* the connection with the lock was lost (beacon-db, lines 148-151); and a node that is
\* up finds every migration of its binary on record and in effect.
BootsSucceed ==
  /\ ~strayed /\ byHand <= Adoptable => ~bootFailed
  /\ \A b \in Booter : boot[b].pc = "up" => recorded = Migration /\ inSchema = Migration

\* What makes it inductive: the schema is what psql and the record say; whoever applies
\* has put everything before its place on record; and while no lock was lost it has the
\* lock, and what it saw of the record and the schema is still so.
Applying(b) == boot[b].pc \in {"read", "look", "adopt", "run"}
BootInv ==
  /\ MigrationsTypeOK
  /\ recorded \subseteq inSchema /\ inSchema \subseteq 1..byHand \cup recorded
  /\ \A b \in Booter :
       /\ Applying(b) \/ boot[b].pc = "verify" =>
            \A n \in Migration : n < boot[b].at => n \in recorded
       /\ boot[b].pc \in {"look", "adopt", "run"} => boot[b].at \in Migration
       /\ boot[b].pc = "adopt" => boot[b].at \in inSchema
       /\ boot[b].pc = "up" => recorded = Migration
  /\ ~strayed => \A b \in Booter :
       /\ Applying(b) => bootLock = b
       /\ boot[b].pc \in {"look", "adopt", "run"} => boot[b].at \notin recorded
       /\ boot[b].pc = "run" /\ boot[b].at <= Adoptable => boot[b].at \notin inSchema
  /\ ~strayed /\ byHand <= Adoptable => ~bootFailed
=============================================================================
