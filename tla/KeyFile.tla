------------------------------ MODULE KeyFile ------------------------------
(***************************************************************************)
(* LocalFileKms of crates/crypto-stub: the one key under which every       *)
(* letter and attachment of an Honest Operator vault is sealed, in a file  *)
(* that the first call makes.  Nothing is called at start-up, so the first *)
(* calls are those of the first requests, on every node that shares the    *)
(* disk.  A text is abstracted to the key it was sealed under.             *)
(***************************************************************************)
EXTENDS Naturals

CONSTANTS
  Caller,      \* requests that seal or open something
  MaxKeys,     \* bound: keys generated
  MaxTrouble   \* bound: calls that stop, and look-ups of the file that fail

ASSUME KeyFileAssumption == MaxKeys \in Nat /\ MaxTrouble \in Nat

VARIABLES
  file,      \* what the key file holds: Absent, Empty or a key
  made,      \* how many keys were generated
  call,      \* data_key() calls in progress
  sealed,    \* the keys something was sealed under
  trouble,   \* how many calls stopped or look-ups failed
  muddled    \* history: a look-up failed, or a call ran beside one that makes the key

keyVars == <<file, made, call, sealed, trouble, muddled>>

Absent == 0
Empty == MaxKeys + 1
Keys == 1..MaxKeys
Waiting == [pc |-> "idle", key |-> Absent]

KeyTypeOK ==
  /\ file \in Keys \cup {Absent, Empty} /\ made \in 0..MaxKeys
  /\ call \in [Caller -> [pc: {"idle", "read", "create", "write", "seal"},
                          key: Keys \cup {Absent}]]
  /\ sealed \subseteq Keys
  /\ trouble \in 0..MaxTrouble /\ muddled \in BOOLEAN

KeyInit ==
  /\ file = Absent /\ made = 0
  /\ call = [c \in Caller |-> Waiting]
  /\ sealed = {}
  /\ trouble = 0 /\ muddled = FALSE

CallAt(c, pc, k) == call' = [call EXCEPT ![c] = [pc |-> pc, key |-> k]]

\* fs::metadata: whatever the error is, it stands for a missing file.
Generate(c) ==
  /\ made < MaxKeys
  /\ made' = made + 1
  /\ CallAt(c, "create", made + 1)

\* A bug: no call looks for the file.
Look_Never(c) ==
  /\ call[c].pc = "idle"
  /\ Generate(c)
  /\ UNCHANGED <<file, sealed, trouble>>

Look(c) ==
  /\ call[c].pc = "idle"
  /\ IF file = Absent THEN Generate(c) ELSE CallAt(c, "read", Absent) /\ UNCHANGED made
  /\ UNCHANGED <<file, sealed, trouble>>

\* The file is there, but its metadata cannot be had.
LookFails(c) ==
  /\ call[c].pc = "idle" /\ file # Absent /\ trouble < MaxTrouble
  /\ Generate(c)
  /\ trouble' = trouble + 1
  /\ UNCHANGED <<file, sealed>>

\* A file that is not 32 bytes long is an error.
Read(c) ==
  /\ call[c].pc = "read"
  /\ IF file = Empty THEN CallAt(c, "idle", Absent) ELSE CallAt(c, "seal", file)
  /\ UNCHANGED <<file, made, sealed, trouble>>

\* File::create truncates what is there,
Create(c) ==
  /\ call[c].pc = "create"
  /\ file' = Empty
  /\ CallAt(c, "write", call[c].key)
  /\ UNCHANGED <<made, sealed, trouble>>

\* and write_all and flush put the key in its place.
Write(c) ==
  /\ call[c].pc = "write"
  /\ file' = call[c].key
  /\ CallAt(c, "seal", call[c].key)
  /\ UNCHANGED <<made, sealed, trouble>>

\* seal uses the key it was given; open of an older text would too.
Seal(c) ==
  /\ call[c].pc = "seal"
  /\ sealed' = sealed \cup {call[c].key}
  /\ CallAt(c, "idle", Absent)
  /\ UNCHANGED <<file, made, trouble>>

CallStops(c) ==
  /\ call[c].pc # "idle" /\ trouble < MaxTrouble
  /\ CallAt(c, "idle", Absent)
  /\ trouble' = trouble + 1
  /\ UNCHANGED <<file, made, sealed>>

KeyNext ==
  /\ \E c \in Caller :
       Look(c) \/ LookFails(c) \/ Read(c) \/ Create(c) \/ Write(c) \/ Seal(c) \/ CallStops(c)
  /\ muddled' = \/ muddled
                \/ trouble' # trouble /\ made' # made
                \/ \E c1, c2 \in Caller : /\ c1 # c2 /\ call'[c2].pc # "idle"
                                         /\ call'[c1].pc \in {"create", "write"}

KeySpec == KeyInit /\ [][KeyNext]_keyVars

-----------------------------------------------------------------------------
\* The inductive invariant behind EverySealedOpens: a key that is used is the one in
\* the file, and who makes the file is alone with it.
KeyInv ==
  /\ file \in Keys \cup {Absent, Empty} /\ made \in 0..MaxKeys /\ trouble \in 0..MaxTrouble
  /\ call \in [Caller -> [pc: {"idle", "read", "create", "write", "seal"},
                          key: Keys \cup {Absent}]]
  /\ sealed \subseteq Keys
  /\ \A c \in Caller : /\ call[c].pc = "read" => file # Absent
                       /\ call[c].pc \in {"create", "write", "seal"} => call[c].key \in Keys
  /\ ~muddled =>
       /\ sealed \subseteq {file}
       /\ \A c \in Caller : /\ call[c].pc = "create" => file = Absent
                            /\ call[c].pc = "write" => file = Empty
                            /\ call[c].pc = "seal" => file = call[c].key
       /\ \A c1, c2 \in Caller :
            c1 # c2 /\ call[c1].pc \in {"create", "write"} => call[c2].pc = "idle"

\* What was sealed can be opened with the key in the file, whichever calls stopped,
\* unless the first calls ran side by side or a look-up of the file failed: then the
\* file is written over and everything sealed before is lost.
EverySealedOpens == ~muddled => sealed \subseteq {file}
=============================================================================
