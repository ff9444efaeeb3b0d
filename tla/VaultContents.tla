--------------------------- MODULE VaultContents ---------------------------
(***************************************************************************)
(* The letters of one vault, their attachments, and where the bytes lie:   *)
(* seal_letter and seal_letter_multipart, move_vault_region, delivery      *)
(* (deliver_letter of scheduler.rs) and the two claim handlers of          *)
(* crates/beacon-api/src/routes.rs.                                        *)
(*                                                                         *)
(* Every statement and every call on the blob store is a step of its own.  *)
(* A handler may stop between any two of them: a statement fails, the      *)
(* process dies, or the client goes away.  The plan's quotas are 2^32-1    *)
(* letters and a petabyte, so no upload here meets them.                   *)
(***************************************************************************)
EXTENDS BlobStore, FiniteSets

CONSTANTS
  Letter,     \* the letters that may be sealed, each by one request
  LetterOf,   \* the letter an attachment is uploaded with
  Home,       \* the vault's first region
  Mover,      \* slots for requests that move the vault
  MaxMoves,   \* bound: moves begun
  MaxStops    \* bound: handlers stopped half-way

ASSUME ContentsAssumption ==
  /\ Letter \cap File = {}
  /\ LetterOf \in [File -> Letter]
  /\ Home \in Region
  /\ MaxMoves \in Nat /\ MaxStops \in Nat

VARIABLES
  vaultState,  \* vault.state: ACTIVE, or RELEASED for all that comes after
  region,      \* vault.storage_region
  letter,      \* letter rows: absent, sealed, erased (ciphertext purged) or deleted
  key,         \* attachment rows: storage_key, or NoBlob where there is no row
  upload,      \* the request sealing each letter
  mover,       \* the requests moving the vault
  sending,     \* the delivery of the released letters
  token,       \* claim tokens of letters and attachments
  heir,        \* the storage_key the handler of an attachment's claim has read
  moves, stops \* how many moves and interruptions so far

contentVars == <<vaultState, region, letter, key, upload, mover, sending, token,
                 heir, moves, stops>>
\* What sealing, moving, sending and claiming leave alone.
sealFrame  == <<vaultState, region, mover, sending, token, heir, moves, stops>>
moveFrame  == <<vaultState, letter, upload, sending, token, heir, stops>>
sendFrame  == <<stored, puts, region, letter, key, upload, mover, heir, moves, stops>>
claimFrame == <<stored, puts, vaultState, region, letter, key, upload, mover, sending,
                moves, stops>>

LetterState == {"absent", "sealed", "erased", "deleted"}
TokenState == {"none", "issued", "opening", "served", "burnt"}
Ticket == Letter \cup File
Key == Blob \cup {NoBlob}
FilesOf(l) == {f \in File : LetterOf[f] = l}
RowExists(l) == letter[l] \in {"sealed", "erased"}
Attached(l) == {f \in FilesOf(l) : key[f] # NoBlob}

Upload(pc, r, todo, b) == [pc |-> pc, region |-> r, todo |-> todo, blob |-> b]
NotUploading == Upload("idle", Home, {}, NoBlob)
Move(pc, t, todo) == [pc |-> pc, target |-> t, todo |-> todo, old |-> NoBlob, new |-> NoBlob]
NotMoving == Move("idle", Home, {})
Sending(pc, ls, fs) == [pc |-> pc, letters |-> ls, files |-> fs]

UploadState == [pc: {"idle", "seal", "put", "row"}, region: Region,
                todo: SUBSET File, blob: Key]
MoverState == [pc: {"idle", "list", "get", "put", "repoint", "delete"},
               target: Region, todo: SUBSET Blob, old: Key, new: Key]

ContentsTypeOK ==
  /\ BlobTypeOK
  /\ vaultState \in {"ACTIVE", "RELEASED"}
  /\ region \in Region
  /\ letter \in [Letter -> LetterState]
  /\ key \in [File -> Key]
  /\ upload \in [Letter -> UploadState]
  /\ mover \in [Mover -> MoverState]
  /\ sending \in [pc: {"idle", "claim", "list", "files"}, letters: SUBSET Letter,
                  files: SUBSET File]
  /\ token \in [Ticket -> TokenState]
  /\ heir \in [File -> Key]
  /\ moves \in 0..MaxMoves /\ stops \in 0..MaxStops

ContentsInit ==
  /\ BlobInit
  /\ vaultState = "ACTIVE" /\ region = Home
  /\ letter = [l \in Letter |-> "absent"]
  /\ key = [f \in File |-> NoBlob]
  /\ upload = [l \in Letter |-> NotUploading]
  /\ mover = [m \in Mover |-> NotMoving]
  /\ sending = Sending("idle", {}, {})
  /\ token = [t \in Ticket |-> "none"]
  /\ heir = [f \in File |-> NoBlob]
  /\ moves = 0 /\ stops = 0

-----------------------------------------------------------------------------
(* Sealing a letter, with or without files.                                *)

\* The checks on one reading of the vault.
SealBegin(l, fs) ==
  /\ letter[l] = "absent" /\ upload[l].pc = "idle"
  /\ vaultState = "ACTIVE"
  /\ upload' = [upload EXCEPT ![l] = Upload("seal", region, fs, NoBlob)]
  /\ UNCHANGED <<blobVars, letter, key, sealFrame>>

\* seal_letter: a body alone.
SealLetter(l) == SealBegin(l, {})

\* seal_letter_multipart: a body, files, or both.
SealMultipart(l, fs) == SealBegin(l, fs)

UploadNext(l, todo) ==
  upload' = [upload EXCEPT ![l] =
    IF todo = {} THEN NotUploading ELSE Upload("put", upload[l].region, todo, NoBlob)]

\* INSERT INTO letter; with no file the request is done.
SealInsert(l) ==
  /\ upload[l].pc = "seal"
  /\ letter' = [letter EXCEPT ![l] = "sealed"]
  /\ UploadNext(l, upload[l].todo)
  /\ UNCHANGED <<blobVars, key, sealFrame>>

\* Transform, seal and put one file, into the region read at the start.
UploadPut(l, f) ==
  /\ upload[l].pc = "put" /\ f \in upload[l].todo
  /\ Put(upload[l].region, f)
  /\ upload' = [upload EXCEPT ![l].pc = "row", ![l].blob = FreshKey(upload[l].region, f)]
  /\ UNCHANGED <<letter, key, sealFrame>>

\* INSERT INTO attachment: the letter's row must be there.
UploadRow(l) ==
  /\ upload[l].pc = "row" /\ RowExists(l)
  /\ LET f == upload[l].blob.holds
     IN /\ key' = [key EXCEPT ![f] = upload[l].blob]
        /\ UploadNext(l, upload[l].todo \ {f})
  /\ UNCHANGED <<blobVars, letter, sealFrame>>

\* A file the transformers refuse ends the request, the letter already stored; so
\* does an attachment whose letter is gone.
UploadRefused(l) ==
  /\ upload[l].pc = "put" \/ (upload[l].pc = "row" /\ ~RowExists(l))
  /\ upload' = [upload EXCEPT ![l] = NotUploading]
  /\ UNCHANGED <<blobVars, letter, key, sealFrame>>

-----------------------------------------------------------------------------
(* Moving the vault to another region, blob by blob.                       *)

\* A vault that is there already stays as it is.
MoveBegin(m, target) ==
  /\ mover[m].pc = "idle" /\ moves < MaxMoves
  /\ target # region
  /\ mover' = [mover EXCEPT ![m] = Move("list", target, {})]
  /\ moves' = moves + 1
  /\ UNCHANGED <<blobVars, region, key, moveFrame>>

\* list_attachments_for_vault; a key in the target region is skipped.
MoveList(m) ==
  /\ mover[m].pc = "list"
  /\ LET found == {key[f] : f \in File} \ {NoBlob}
     IN mover' = [mover EXCEPT ![m].pc = "get",
                    ![m].todo = {b \in found : KeyRegion(b) # mover[m].target}]
  /\ UNCHANGED <<blobVars, region, key, moves, moveFrame>>

\* Read the next object, under the key of the listing.
MoveGet(m, b) ==
  /\ mover[m].pc = "get" /\ b \in mover[m].todo
  /\ b \in stored
  /\ mover' = [mover EXCEPT ![m].pc = "put", ![m].old = b]
  /\ UNCHANGED <<blobVars, region, key, moves, moveFrame>>

\* The object is gone: the request fails, the vault keeps its region.
MoveMissing(m, b) ==
  /\ mover[m].pc = "get" /\ b \in mover[m].todo
  /\ b \notin stored
  /\ mover' = [mover EXCEPT ![m] = NotMoving]
  /\ UNCHANGED <<blobVars, region, key, moves, moveFrame>>

MovePut(m) ==
  LET copy == FreshKey(mover[m].target, mover[m].old.holds)
  IN /\ mover[m].pc = "put"
     /\ Put(mover[m].target, mover[m].old.holds)
     /\ mover' = [mover EXCEPT ![m].pc = "repoint", ![m].new = copy]
     /\ UNCHANGED <<region, key, moves, moveFrame>>

\* UPDATE attachment SET storage_key WHERE id: no row if it is gone by now.
Repoint(f, b) == key' = [key EXCEPT ![f] = IF key[f] = NoBlob THEN NoBlob ELSE b]

MoveRepoint(m) ==
  /\ mover[m].pc = "repoint"
  /\ Repoint(mover[m].new.holds, mover[m].new)
  /\ mover' = [mover EXCEPT ![m].pc = "delete"]
  /\ UNCHANGED <<blobVars, region, moves, moveFrame>>

MoveOn(m) ==
  mover' = [mover EXCEPT ![m] = Move("get", mover[m].target, mover[m].todo \ {mover[m].old})]

\* A bug: the old object goes although the row does not point at the new one yet.
MoveDelete_First(m) ==
  /\ mover[m].pc = "repoint"
  /\ Delete(mover[m].old)
  /\ MoveOn(m)
  /\ UNCHANGED <<region, key, moves, moveFrame>>

\* The old object goes last.
MoveDelete(m) ==
  /\ mover[m].pc = "delete"
  /\ Delete(mover[m].old)
  /\ MoveOn(m)
  /\ UNCHANGED <<region, key, moves, moveFrame>>

\* All copied: set_vault_storage_region.
MoveDone(m) ==
  /\ mover[m].pc = "get" /\ mover[m].todo = {}
  /\ region' = mover[m].target
  /\ mover' = [mover EXCEPT ![m] = NotMoving]
  /\ UNCHANGED <<blobVars, key, moves, moveFrame>>

-----------------------------------------------------------------------------
(* Delivery: perform_release works through the letters it listed, and      *)
(* deliver_letter issues one token for the letter and one per attachment.  *)

ReleaseVault ==
  /\ vaultState = "ACTIVE"
  /\ vaultState' = "RELEASED"
  /\ sending' = Sending("claim", {l \in Letter : RowExists(l)}, {})
  /\ UNCHANGED <<token, sendFrame>>

\* issue_release_claim, for the letter that comes next.
SendLetter(l) ==
  /\ sending.pc = "claim" /\ l \in sending.letters
  /\ RowExists(l)
  /\ token' = [token EXCEPT ![l] = "issued"]
  /\ sending' = [sending EXCEPT !.pc = "list", !.letters = @ \ {l}, !.files = FilesOf(l)]
  /\ UNCHANGED <<vaultState, sendFrame>>

\* A bug: only the letter itself gets a token.
SendList_LetterOnly ==
  /\ sending.pc = "list"
  /\ sending' = [sending EXCEPT !.pc = "files", !.files = {}]
  /\ UNCHANGED <<vaultState, token, sendFrame>>

\* list_attachments
SendList ==
  /\ sending.pc = "list"
  /\ sending' = [sending EXCEPT !.pc = "files", !.files = {f \in @ : key[f] # NoBlob}]
  /\ UNCHANGED <<vaultState, token, sendFrame>>

\* issue_attachment_claim
SendFile(f) ==
  /\ sending.pc = "files" /\ f \in sending.files
  /\ key[f] # NoBlob
  /\ token' = [token EXCEPT ![f] = "issued"]
  /\ sending' = [sending EXCEPT !.files = @ \ {f}]
  /\ UNCHANGED <<vaultState, sendFrame>>

\* The recipient is told, and the next letter is taken.
SendNotify ==
  /\ sending.pc = "files" /\ sending.files = {}
  /\ sending' = Sending("claim", sending.letters, {})
  /\ UNCHANGED <<vaultState, token, sendFrame>>

SendDone ==
  /\ sending.pc = "claim" /\ sending.letters = {}
  /\ sending' = Sending("idle", {}, {})
  /\ UNCHANGED <<vaultState, token, sendFrame>>

\* A letter or attachment that is gone by now fails the foreign key: the release ends.
SendFails ==
  /\ \/ sending.pc = "claim" /\ \E l \in sending.letters : ~RowExists(l)
     \/ sending.pc = "files" /\ \E f \in sending.files : key[f] = NoBlob
  /\ sending' = Sending("idle", {}, {})
  /\ UNCHANGED <<vaultState, token, sendFrame>>

-----------------------------------------------------------------------------
(* Claims.  The token is consumed before anything is looked up.            *)

\* consume_release_claim, consume_attachment_claim: one caller wins.
ConsumeClaim(t) ==
  /\ token[t] = "issued"
  /\ token' = [token EXCEPT ![t] = "opening"]
  /\ UNCHANGED <<heir, claimFrame>>

Answer(t, outcome) == token' = [token EXCEPT ![t] = outcome]

\* claim_release reads the letter: an erased one has no nonce, a deleted one no row.
OpenLetter(l) ==
  /\ token[l] = "opening"
  /\ Answer(l, IF letter[l] = "sealed" THEN "served" ELSE "burnt")
  /\ UNCHANGED <<heir, claimFrame>>

\* claim_attachment reads the row ...
FetchAttachment(f) ==
  /\ token[f] = "opening" /\ heir[f] = NoBlob
  /\ IF key[f] = NoBlob
     THEN Answer(f, "burnt") /\ UNCHANGED heir
     ELSE heir' = [heir EXCEPT ![f] = key[f]] /\ UNCHANGED token
  /\ UNCHANGED claimFrame

\* ... and then the object under the key it found.
OpenAttachment(f) ==
  /\ token[f] = "opening" /\ heir[f] # NoBlob
  /\ Answer(f, IF heir[f] \in stored THEN "served" ELSE "burnt")
  /\ heir' = [heir EXCEPT ![f] = NoBlob]
  /\ UNCHANGED claimFrame

-----------------------------------------------------------------------------
(* What goes wrong: one handler stops where it is.                         *)

UploadStops(l) ==
  /\ upload[l].pc # "idle" /\ stops < MaxStops
  /\ upload' = [upload EXCEPT ![l] = NotUploading]
  /\ stops' = stops + 1
  /\ UNCHANGED <<blobVars, vaultState, region, letter, key, mover, sending, token, heir,
                 moves>>

MoveStops(m) ==
  /\ mover[m].pc # "idle" /\ stops < MaxStops
  /\ mover' = [mover EXCEPT ![m] = NotMoving]
  /\ stops' = stops + 1
  /\ UNCHANGED <<blobVars, vaultState, region, letter, key, upload, sending, token, heir,
                 moves>>

\* The delete of the old object fails, which the loop does not mind.
MoveDeleteFails(m) ==
  /\ mover[m].pc = "delete" /\ stops < MaxStops
  /\ MoveOn(m)
  /\ stops' = stops + 1
  /\ UNCHANGED <<blobVars, vaultState, region, letter, key, upload, sending, token, heir,
                 moves>>

ClaimStops(t) ==
  /\ token[t] = "opening" /\ stops < MaxStops
  /\ Answer(t, "burnt")
  /\ heir' = [f \in File |-> IF f = t THEN NoBlob ELSE heir[f]]
  /\ stops' = stops + 1
  /\ UNCHANGED <<blobVars, vaultState, region, letter, key, upload, mover, sending, moves>>

\* Everything but the beginnings, which have conditions of their own.
ContentsStep ==
  \/ \E l \in Letter : SealInsert(l) \/ UploadRow(l) \/ UploadRefused(l) \/ UploadStops(l)
  \/ \E l \in Letter : \E f \in FilesOf(l) : UploadPut(l, f)
  \/ \E m \in Mover : \E b \in mover[m].todo : MoveGet(m, b) \/ MoveMissing(m, b)
  \/ \E m \in Mover : MoveList(m) \/ MovePut(m) \/ MoveRepoint(m) \/ MoveDelete(m)
  \/ \E m \in Mover : MoveDone(m) \/ MoveStops(m) \/ MoveDeleteFails(m)
  \/ SendList \/ SendNotify \/ SendDone \/ SendFails
  \/ \E l \in Letter : SendLetter(l) \/ OpenLetter(l)
  \/ \E f \in File : SendFile(f) \/ FetchAttachment(f) \/ OpenAttachment(f)
  \/ \E t \in Ticket : ConsumeClaim(t) \/ ClaimStops(t)

=============================================================================
