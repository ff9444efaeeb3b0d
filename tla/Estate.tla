------------------------------- MODULE Estate -------------------------------
(***************************************************************************)
(* How an account's letters come to an end: the subscription's retention,  *)
(* the account's deletion, the sweep of retention_tick in scheduler.rs     *)
(* that enforces both, and the DELETE of a single letter; over the vault   *)
(* contents they destroy.                                                  *)
(*                                                                         *)
(* No route cancels or reactivates a subscription: only the database       *)
(* functions do, and whoever calls them is outside this program.           *)
(***************************************************************************)
EXTENDS VaultContents

CONSTANTS
  Sweeper,   \* the retention sweeps, one on every node that runs workers
  Deleter,   \* slots for requests that delete a letter
  Grace,     \* days between asking for the account's deletion and having it
  Retention, \* days a cancelled subscription is kept
  MaxClock,  \* bound: the last day
  Plots      \* what may go on in one history: sets of operations

ASSUME EstateAssumption ==
  /\ Sweeper \cap Deleter = {}
  /\ Grace \in Nat \ {0} /\ Retention \in Nat \ {0}
  /\ MaxClock \in Nat
  /\ Plots \subseteq SUBSET {"subscription", "deletion", "delete", "release", "move"}

VARIABLES
  ops,           \* the operations of this history, one of Plots
  day,           \* now()
  subscription,  \* subscription.state
  retainedUntil, \* subscription.retention_until, or Never
  deletionAt,    \* principal.deletion_scheduled_for, or Never
  reaper,        \* the sweeps and the requests that destroy letters
  reprieved,     \* history: the last word on the account was cancel_account_deletion
  clashed        \* history: two handlers were at work at the same time

accountVars == <<ops, day, subscription, retainedUntil, deletionAt, reprieved>>
estateVars == <<blobVars, contentVars, accountVars, reaper, clashed>>

Never == 0
Reaper == Sweeper \cup Deleter
SubscriptionState == {"TRIALING", "ACTIVE", "PAST_DUE", "CANCELED", "EXPIRED", "DELETED"}
AllowsAuthoring == subscription \in {"TRIALING", "ACTIVE", "PAST_DUE"}

NoLetter == "none"
Reap(pc, why) == [pc |-> pc, why |-> why, letters |-> {}, letter |-> NoLetter,
                  files |-> {}, blob |-> NoBlob]
Resting == Reap("idle", "delete")
ReaperPc == {"idle", "expire", "list", "letters", "files", "blob", "erase", "drop",
             "accounts", "anonymise"}

ReaperState == [pc: ReaperPc, why: {"delete", "retention", "deletion"},
                letters: SUBSET Letter, letter: Letter \cup {NoLetter},
                files: SUBSET File, blob: Key]

\* What the destroyers leave alone.
reapFrame == <<puts, vaultState, region, upload, mover, sending, heir, moves>>

EstateTypeOK ==
  /\ ContentsTypeOK
  /\ ops \in Plots /\ day \in Nat
  /\ subscription \in SubscriptionState
  /\ retainedUntil \in Nat /\ deletionAt \in Nat
  /\ reaper \in [Reaper -> ReaperState]
  /\ reprieved \in BOOLEAN /\ clashed \in BOOLEAN

EstateInit ==
  /\ ContentsInit
  /\ ops \in Plots
  /\ day = 1
  /\ subscription = "TRIALING"
  /\ retainedUntil = Never /\ deletionAt = Never
  /\ reaper = [r \in Reaper |-> Resting]
  /\ reprieved = FALSE /\ clashed = FALSE

-----------------------------------------------------------------------------
(* The account.                                                            *)

accountFrame == <<blobVars, contentVars, reaper>>

DayPasses ==
  /\ day < MaxClock
  /\ day' = day + 1
  /\ UNCHANGED <<ops, subscription, retainedUntil, deletionAt, reprieved, accountFrame>>

\* cancel_subscription: whatever the state was.
CancelSubscription ==
  /\ "subscription" \in ops
  /\ subscription' = "CANCELED"
  /\ retainedUntil' = day + Retention
  /\ UNCHANGED <<ops, day, deletionAt, reprieved, accountFrame>>

\* reactivate_subscription
ReactivateSubscription ==
  /\ "subscription" \in ops
  /\ subscription = "CANCELED"
  /\ subscription' = "ACTIVE"
  /\ retainedUntil' = Never
  /\ UNCHANGED <<ops, day, deletionAt, reprieved, accountFrame>>

\* request_account_deletion: asking again does not move the date.
RequestDeletion ==
  /\ "deletion" \in ops
  /\ deletionAt' = IF deletionAt = Never THEN day + Grace ELSE deletionAt
  /\ reprieved' = FALSE
  /\ UNCHANGED <<ops, day, subscription, retainedUntil, accountFrame>>

\* A bug: the request can be taken back for as long as it is on record.
CancelDeletion_AnyTime ==
  /\ deletionAt # Never
  /\ deletionAt' = Never
  /\ reprieved' = TRUE
  /\ UNCHANGED <<ops, day, subscription, retainedUntil, accountFrame>>

\* cancel_account_deletion: only while the date lies ahead.
CancelDeletion ==
  /\ deletionAt # Never /\ deletionAt > day
  /\ deletionAt' = Never
  /\ reprieved' = TRUE
  /\ UNCHANGED <<ops, day, subscription, retainedUntil, accountFrame>>

-----------------------------------------------------------------------------
(* retention_tick.                                                         *)

ReapGoto(r, pc) == reaper' = [reaper EXCEPT ![r].pc = pc]
sweepFrame == <<blobVars, contentVars, accountVars>>

\* list_canceled_past_retention
SweepBegin(s) ==
  /\ reaper[s].pc = "idle"
  /\ LET due == subscription = "CANCELED" /\ retainedUntil # Never /\ retainedUntil <= day
     IN reaper' = [reaper EXCEPT ![s] =
                     Reap(IF due THEN "expire" ELSE "accounts", "retention")]
  /\ UNCHANGED sweepFrame

\* expire_subscription: no row if it was reactivated, and the sweep goes on.
SweepExpire(s) ==
  /\ reaper[s].pc = "expire"
  /\ subscription' = IF subscription = "CANCELED" THEN "EXPIRED" ELSE subscription
  /\ ReapGoto(s, "list")
  /\ UNCHANGED <<blobVars, contentVars, ops, day, retainedUntil, deletionAt, reprieved>>

\* delete_subscription
SweepDrop(s) ==
  /\ reaper[s].pc = "drop"
  /\ subscription' = IF subscription = "EXPIRED" THEN "DELETED" ELSE subscription
  /\ ReapGoto(s, "accounts")
  /\ UNCHANGED <<blobVars, contentVars, ops, day, retainedUntil, deletionAt, reprieved>>

\* list_due_account_deletions
SweepAccounts(s) ==
  /\ reaper[s].pc = "accounts"
  /\ LET due == deletionAt # Never /\ deletionAt <= day
     IN reaper' = [reaper EXCEPT ![s] =
                     IF due THEN Reap("list", "deletion") ELSE Resting]
  /\ UNCHANGED sweepFrame

\* anonymise_principal, which also forgets the request.
SweepAnonymise(s) ==
  /\ reaper[s].pc = "anonymise"
  /\ deletionAt' = Never
  /\ reaper' = [reaper EXCEPT ![s] = Resting]
  /\ UNCHANGED <<blobVars, contentVars, ops, day, subscription, retainedUntil, reprieved>>

-----------------------------------------------------------------------------
(* purge_principal_ciphertext, and delete_letter_handler with the same     *)
(* inner loop for one letter.                                              *)

\* list_letters
PurgeList(s) ==
  /\ reaper[s].pc = "list"
  /\ reaper' = [reaper EXCEPT ![s].pc = "letters",
                              ![s].letters = {l \in Letter : RowExists(l)}]
  /\ UNCHANGED sweepFrame

\* A bug: the attachments are not listed, only the letter's text goes.
PurgeLetter_TextOnly(s, l) ==
  /\ reaper[s].pc = "letters" /\ l \in reaper[s].letters
  /\ reaper' = [reaper EXCEPT ![s].pc = "files", ![s].letters = @ \ {l}, ![s].letter = l]
  /\ UNCHANGED sweepFrame

\* The next letter, and its list_attachments.
PurgeLetter(s, l) ==
  /\ reaper[s].pc = "letters" /\ l \in reaper[s].letters
  /\ reaper' = [reaper EXCEPT ![s].pc = "files", ![s].letters = @ \ {l},
                              ![s].letter = l, ![s].files = Attached(l)]
  /\ UNCHANGED sweepFrame

PurgeDone(s) ==
  /\ reaper[s].pc = "letters" /\ reaper[s].letters = {}
  /\ ReapGoto(s, IF reaper[s].why = "retention" THEN "drop" ELSE "anonymise")
  /\ UNCHANGED sweepFrame

\* DELETE /letters/:id: the same loop over one letter's attachments.
DeleteLetter(d, l) ==
  /\ "delete" \in ops
  /\ reaper[d].pc = "idle" /\ RowExists(l)
  /\ reaper' = [reaper EXCEPT ![d].pc = "files", ![d].letter = l, ![d].files = Attached(l)]
  /\ UNCHANGED sweepFrame

\* What a foreign key takes with it: the claims of rows that go.
Cascade(gone) ==
  token' = [t \in Ticket |-> IF t \in gone /\ token[t] = "issued" THEN "none" ELSE token[t]]

\* purge_attachment: the row goes first, and tells where the bytes are.
PurgeRow(r, f) ==
  /\ reaper[r].pc = "files" /\ f \in reaper[r].files
  /\ key' = [key EXCEPT ![f] = NoBlob]
  /\ Cascade({f})
  /\ reaper' = [reaper EXCEPT ![r].files = @ \ {f}, ![r].blob = key[f],
                              ![r].pc = IF key[f] = NoBlob THEN "files" ELSE "blob"]
  /\ UNCHANGED <<stored, letter, stops, accountVars, reapFrame>>

\* A bug: the row goes and the bytes stay.
PurgeBlob_RowOnly(r) ==
  /\ reaper[r].pc = "blob"
  /\ reaper' = [reaper EXCEPT ![r].pc = "files", ![r].blob = NoBlob]
  /\ UNCHANGED <<stored, letter, key, token, stops, accountVars, reapFrame>>

\* Then the bytes.
PurgeBlob(r) ==
  /\ reaper[r].pc = "blob"
  /\ Delete(reaper[r].blob)
  /\ reaper' = [reaper EXCEPT ![r].pc = "files", ![r].blob = NoBlob]
  /\ UNCHANGED <<letter, key, token, stops, accountVars, vaultState, region, upload, mover,
                 sending, heir, moves>>

\* purge_letter_ciphertext: the row stays, with nothing in it.
EraseLetter(s) ==
  /\ s \in Sweeper /\ reaper[s].pc = "files" /\ reaper[s].files = {}
  /\ LET l == reaper[s].letter
     IN letter' = [letter EXCEPT ![l] = IF RowExists(l) THEN "erased" ELSE @]
  /\ reaper' = [reaper EXCEPT ![s].pc = "letters", ![s].letter = NoLetter]
  /\ UNCHANGED <<stored, key, token, stops, accountVars, reapFrame>>

\* DELETE FROM letter, which takes with it the attachments uploaded since the listing.
DropLetter(d) ==
  /\ d \in Deleter /\ reaper[d].pc = "files" /\ reaper[d].files = {}
  /\ LET l == reaper[d].letter
     IN /\ letter' = [letter EXCEPT ![l] = "deleted"]
        /\ key' = [f \in File |-> IF LetterOf[f] = l THEN NoBlob ELSE key[f]]
        /\ Cascade({l} \cup FilesOf(l))
  /\ reaper' = [reaper EXCEPT ![d] = Resting]
  /\ UNCHANGED <<stored, stops, accountVars, reapFrame>>

\* A statement fails, or the node goes down: the sweep or request ends where it is.
ReaperStops(r) ==
  /\ reaper[r].pc # "idle" /\ stops < MaxStops
  /\ reaper' = [reaper EXCEPT ![r] = Resting]
  /\ stops' = stops + 1
  /\ UNCHANGED <<stored, letter, key, token, accountVars, reapFrame>>

\* The bytes cannot be deleted: a warning is logged.
PurgeBlobFails(r) ==
  /\ reaper[r].pc = "blob" /\ stops < MaxStops
  /\ reaper' = [reaper EXCEPT ![r].pc = "files", ![r].blob = NoBlob]
  /\ stops' = stops + 1
  /\ UNCHANGED <<stored, letter, key, token, accountVars, reapFrame>>

-----------------------------------------------------------------------------
AccountStep ==
  DayPasses \/ CancelSubscription \/ ReactivateSubscription \/ RequestDeletion \/ CancelDeletion

SweepStep(s) ==
  \/ SweepBegin(s) \/ SweepExpire(s) \/ SweepDrop(s) \/ SweepAccounts(s) \/ SweepAnonymise(s)
  \/ PurgeList(s) \/ PurgeDone(s) \/ EraseLetter(s)
  \/ \E l \in Letter : PurgeLetter(s, l)

ReapStep(r) == PurgeBlob(r) \/ \E f \in File : PurgeRow(r, f)
ReapFault(r) == ReaperStops(r) \/ PurgeBlobFails(r)

\* The sealing handlers ask whether the subscription allows authoring.
ContentsNext ==
  /\ \/ ContentsStep
     \/ "release" \in ops /\ ReleaseVault
     \/ "move" \in ops /\ \E m \in Mover : \E r \in Region : MoveBegin(m, r)
     \/ /\ AllowsAuthoring
        /\ \E l \in Letter : SealLetter(l) \/ \E fs \in SUBSET FilesOf(l) : SealMultipart(l, fs)
  /\ UNCHANGED <<accountVars, reaper>>

Working ==
  {<<"seal", l>> : l \in {x \in Letter : upload[x].pc # "idle"}}
    \cup {<<"move", m>> : m \in {x \in Mover : mover[x].pc # "idle"}}
    \cup {<<"reap", r>> : r \in {x \in Reaper : reaper[x].pc # "idle"}}
    \cup {<<"claim", t>> : t \in {x \in Ticket : token[x] = "opening"}}
    \cup IF sending.pc = "idle" THEN {} ELSE {<<"send", NoLetter>>}

EstateNext ==
  /\ \/ ContentsNext \/ AccountStep
     \/ \E s \in Sweeper : SweepStep(s)
     \/ \E d \in Deleter : DropLetter(d) \/ \E l \in Letter : DeleteLetter(d, l)
     \/ \E r \in Reaper : ReapStep(r) \/ ReapFault(r)
  /\ clashed' = (clashed \/ \E h1, h2 \in Working' : h1 # h2)

EstateSpec == EstateInit /\ [][EstateNext]_estateVars

-----------------------------------------------------------------------------
(* The inductive invariant behind RowsResolve.                             *)

\* However moves, uploads and purges interleave and wherever they stop, an
\* attachment's row points at a stored object with its own bytes
\* (routes.rs, lines 490-491: a crash never strands a row at a deleted blob).
RowsResolve ==
  \A f \in File : key[f] # NoBlob => key[f] \in stored /\ key[f].holds = f

StoreTypes ==
  /\ stored \subseteq Blob /\ puts \in Nat
  /\ region \in Region
  /\ key \in [File -> Key]
  /\ upload \in [Letter -> UploadState]
  /\ mover \in [Mover -> MoverState]
  /\ reaper \in [Reaper -> ReaperState]

\* Fresh bytes that only their maker knows of.
Secret(b) ==
  /\ b \in stored
  /\ \A f \in File : key[f] # b
  /\ \A m \in Mover : b \notin mover[m].todo /\ mover[m].old # b
  /\ \A r \in Reaper : reaper[r].blob # b

\* Bytes that no row points at.
Spent(b) == \A f \in File : key[f] # b

\* Keys are handed out once.
Numbered ==
  /\ \A b \in stored : b.id <= puts
  /\ \A m \in Mover : mover[m].old.id <= puts /\ \A b \in mover[m].todo : b.id <= puts
  /\ \A r \in Reaper : reaper[r].blob.id <= puts

MakersApart ==
  /\ \A l1, l2 \in Letter : upload[l1].pc = "row" /\ upload[l2].pc = "row" /\ l1 # l2
       => upload[l1].blob # upload[l2].blob
  /\ \A m1, m2 \in Mover : mover[m1].pc = "repoint" /\ mover[m2].pc = "repoint" /\ m1 # m2
       => mover[m1].new # mover[m2].new
  /\ \A l1 \in Letter, m1 \in Mover : upload[l1].pc = "row" /\ mover[m1].pc = "repoint"
       => upload[l1].blob # mover[m1].new

Uploads == \A l1 \in Letter : upload[l1].pc = "row" => Secret(upload[l1].blob)

Moves ==
  \A m1 \in Mover :
    /\ mover[m1].pc \in {"put", "repoint", "delete"} => mover[m1].old \in Blob
    /\ mover[m1].pc = "repoint" =>
         Secret(mover[m1].new) /\ mover[m1].new.holds = mover[m1].old.holds
    /\ mover[m1].pc = "delete" => Spent(mover[m1].old)

Purges ==
  \A r1 \in Reaper : reaper[r1].pc = "blob" => reaper[r1].blob \in Blob /\ Spent(reaper[r1].blob)

StoreInv ==
  /\ StoreTypes /\ RowsResolve /\ Numbered /\ MakersApart /\ Uploads /\ Moves /\ Purges

-----------------------------------------------------------------------------
(* Properties.                                                             *)

Alone == ~clashed /\ stops = 0
Quiet == Working = {}

\* A handler that runs alone and to its end leaves nothing in the store that no row
\* knows of.
NoLeftovers == Quiet /\ Alone => stored \subseteq {key[f] : f \in File}

\* A consumed token is wasted only when what it stood for was destroyed; and a vault
\* that is released has a token out for every letter and attachment.  Both hold unless
\* a handler was stopped or met another one at work.
HeirsAreServed ==
  Alone =>
    /\ \A l \in Letter : token[l] = "burnt" => letter[l] # "sealed"
    /\ \A f \in File : token[f] = "burnt" => key[f] = NoBlob
    /\ Quiet /\ vaultState = "RELEASED" =>
         \A l \in Letter : RowExists(l) => \A t \in {l} \cup Attached(l) : token[t] # "none"

\* The account is anonymised when everything in it is gone, if the sweep met nobody.
ErasureComplete ==
  Alone => \A s \in Sweeper : reaper[s].pc = "anonymise" =>
             stored = {} /\ \A l \in Letter : letter[l] # "sealed"

\* Who was told that the deletion is off has nothing destroyed by it, however long the
\* sweep took and whatever stopped; unless handlers overlapped: the deletion that is off
\* may be asked for after one sweep ended and while another still works at the first.
CancelledMeansKept == reprieved /\ ~clashed => \A s \in Sweeper : reaper[s].why # "deletion"

-----------------------------------------------------------------------------
(* The inductive invariants behind these.                                  *)

\* Handlers that have not met: one at most is at work.
Solo == ~clashed => \A h1, h2 \in Working : h1 = h2

\* The request on record, and the sweep that goes by it.
AccountInv ==
  /\ reprieved => deletionAt = Never
  /\ \A r1 \in Reaper : reaper[r1].pc = "idle" => reaper[r1].why = "delete"
  /\ ~clashed => \A s1 \in Sweeper : reaper[s1].why = "deletion" =>
                   deletionAt # Never /\ deletionAt <= day

\* What holds of rows and handlers however many are at work.
UploadRows ==
  /\ \A f1 \in File : key[f1] # NoBlob => RowExists(LetterOf[f1])
  /\ \A l1 \in Letter :
       /\ upload[l1].pc = "seal" => letter[l1] = "absent"
       /\ upload[l1].todo \subseteq FilesOf(l1)
       /\ \A f1 \in upload[l1].todo : key[f1] = NoBlob /\ token[f1] = "none"
       /\ upload[l1].pc = "row" => upload[l1].blob.holds \in upload[l1].todo
  /\ \A r1 \in Reaper :
       /\ \A l1 \in reaper[r1].letters : letter[l1] # "absent"
       /\ reaper[r1].pc \in {"files", "blob"} =>
            reaper[r1].letter \in Letter /\ letter[reaper[r1].letter] # "absent"

Unsent(l) == token[l] = "none" /\ \A f1 \in FilesOf(l) : token[f1] = "none"

TokenRows ==
  /\ \A l1 \in Letter : letter[l1] = "absent" \/ l1 \in sending.letters => Unsent(l1)
  /\ \A f1 \in sending.files : token[f1] = "none" /\ LetterOf[f1] \notin sending.letters
  /\ sending.pc \in {"idle", "claim"} => sending.files = {}
  /\ sending.pc = "idle" => sending.letters = {}
  /\ vaultState = "ACTIVE" => sending.pc = "idle" /\ \A t1 \in Ticket : token[t1] = "none"
  /\ \A f1 \in File : heir[f1] # NoBlob => token[f1] = "opening"

\* Bytes that no row knows of are in the hands of a handler, who will see to them.
InHand(b) ==
  \/ \E l1 \in Letter : upload[l1].pc = "row" /\ upload[l1].blob = b
  \/ \E m1 \in Mover : \/ mover[m1].pc = "repoint" /\ mover[m1].new = b
                       \/ mover[m1].pc = "delete" /\ mover[m1].old = b
  \/ \E r1 \in Reaper : reaper[r1].pc = "blob" /\ reaper[r1].blob = b

Accounted == \A b \in stored : InHand(b) \/ \E f1 \in File : key[f1] = b

\* What a handler that meets nobody may count on.
UploadCourse ==
  \A l1 \in Letter :
    /\ upload[l1].pc # "idle" => vaultState = "ACTIVE"
    /\ upload[l1].pc \in {"put", "row"} => RowExists(l1)

MoveCourse ==
  \A m1 \in Mover :
    /\ mover[m1].pc \in {"get", "put", "repoint", "delete"} =>
         \A b \in mover[m1].todo :
           (mover[m1].pc = "delete" /\ b = mover[m1].old) \/ key[b.holds] = b
    /\ mover[m1].pc \in {"put", "repoint"} => key[mover[m1].old.holds] = mover[m1].old

\* The letters a sweep or a request has yet to purge.
Ahead(r) ==
  reaper[r].letters \cup IF reaper[r].pc = "letters" THEN {} ELSE {reaper[r].letter}

ReapCourse ==
  /\ \A r1 \in Reaper : reaper[r1].pc \in {"files", "blob"} =>
       Attached(reaper[r1].letter) \subseteq reaper[r1].files
  /\ \A s1 \in Sweeper :
       /\ reaper[s1].pc \in {"letters", "files", "blob"} =>
            \A l1 \in Letter : letter[l1] = "sealed" \/ Attached(l1) # {} => l1 \in Ahead(s1)
       /\ reaper[s1].pc = "anonymise" =>
            stored = {} /\ \A l1 \in Letter : letter[l1] # "sealed"

ClaimCourse ==
  /\ \A l1 \in Letter : token[l1] = "burnt" => letter[l1] # "sealed"
  /\ \A f1 \in File : /\ token[f1] = "burnt" => key[f1] = NoBlob
                      /\ heir[f1] # NoBlob => heir[f1] = key[f1]

SendCourse ==
  /\ vaultState = "RELEASED" => \A l1 \in Letter : RowExists(l1) /\ l1 \notin sending.letters =>
       token[l1] # "none" /\ \A f1 \in Attached(l1) \ sending.files : token[f1] # "none"
  /\ \A l1 \in sending.letters : RowExists(l1)
  /\ sending.pc = "files" => \A f1 \in sending.files : key[f1] # NoBlob

Courses ==
  Alone =>
    Accounted /\ UploadCourse /\ MoveCourse /\ ReapCourse /\ ClaimCourse /\ SendCourse

EstateInv ==
  /\ EstateTypeOK /\ StoreInv /\ Solo /\ AccountInv /\ UploadRows /\ TokenRows /\ Courses

=============================================================================
