--------------------------- MODULE PrivateLetters ---------------------------
(***************************************************************************)
(* The letters of a Private Vault on their way to who may read them:       *)
(* seal_zk_letter, update_letter, claim_release (for such a vault) and     *)
(* get_zk_letter_ciphertext of crates/beacon-api/src/routes.rs, the        *)
(* handing out of a release, and recovery_redeem of passkey.rs.            *)
(*                                                                         *)
(* The operator has no key to a letter.  An heir opens it with an          *)
(* envelope stored beside it, in one of three modes: a passphrase the      *)
(* author passes on (manual), a key in two halves of which one is mailed   *)
(* when the letter is sealed (split), or a key the operator keeps          *)
(* (operator).  Whether a recovery code is the right one is the business   *)
(* of PrivateVaults; here it was.                                          *)
(***************************************************************************)
EXTENDS Naturals

CONSTANTS
  ZkLetter,   \* the letters that may be sealed, each by one request
  Person,     \* the addresses they may go to
  MaxOpenings,\* bound: releases and drills
  MaxBreaks   \* bound: requests that stop, mails that are lost

ASSUME PrivateLettersAssumption == MaxOpenings \in Nat /\ MaxBreaks \in Nat

VARIABLES
  zkVault,    \* vault.state: ACTIVE, DRILL or RELEASED
  zkLetter,   \* letter rows: absent, sealed, erased or deleted
  recipient,  \* letter.recipient_email
  heirEnvelope, \* zk_letter_heir_envelope rows: their mode, or NoMode
  mailed,     \* who was mailed a half of a letter's key
  sealing,    \* the request that seals each letter
  promised,   \* history: the mode its author was told is in place
  outbox,     \* the recipients a release has listed and not yet served
  claim,      \* release_claim rows: for whom, for a drill or not, and how far
  answer,     \* history: what the last claim of a letter was answered, and when
  redeem,     \* a recovery_redeem request: the letters listed, and those it has
  openings, breaks, \* how many releases, and how much went wrong
  lostMail,   \* history: the letters a half of whose key was lost in the mail
  readdressed \* history: the letters whose recipient was changed

letterVars == <<zkLetter, recipient, heirEnvelope, readdressed>>
sealVars == <<mailed, sealing, promised, lostMail>>
releaseVars == <<zkVault, outbox, openings>>
claimVars == <<claim, answer>>
lettersVars == <<letterVars, sealVars, releaseVars, claimVars, redeem, breaks>>

NoMode == "none"
Mode == {NoMode, "manual", "split", "operator"}
NoPerson == "nobody"
Sealer(pc, p, mode, sound) == [pc |-> pc, to |-> p, mode |-> mode, sound |-> sound]
NotSealing == Sealer("idle", NoPerson, NoMode, TRUE)
Claimed(p, drill, state) == [for |-> p, drill |-> drill, state |-> state]
NoClaim == Claimed(NoPerson, FALSE, "none")
Answered(p, drill, got, early, erased) ==
  [for |-> p, drill |-> drill, got |-> got, early |-> early, erased |-> erased]
NoAnswer == Answered(NoPerson, FALSE, NoMode, FALSE, FALSE)
Redeemer(pc, listed, todo, has) == [pc |-> pc, listed |-> listed, todo |-> todo, has |-> has]
NotRedeeming == Redeemer("idle", {}, {}, {})
Anyone == Person \cup {NoPerson}

LettersTypeOK ==
  /\ zkVault \in {"ACTIVE", "DRILL", "RELEASED"}
  /\ zkLetter \in [ZkLetter -> {"absent", "sealed", "erased", "deleted"}]
  /\ recipient \in [ZkLetter -> Anyone] /\ heirEnvelope \in [ZkLetter -> Mode]
  /\ mailed \in [ZkLetter -> SUBSET Anyone] /\ promised \in [ZkLetter -> Mode]
  /\ sealing \in [ZkLetter -> [pc: {"idle", "insert", "heir", "mail"}, to: Anyone,
                               mode: Mode, sound: BOOLEAN]]
  /\ outbox \in [ZkLetter -> Anyone]
  /\ claim \in [ZkLetter -> [for: Anyone, drill: BOOLEAN,
                             state: {"none", "issued", "opening", "fetched", "emptied", "spent"}]]
  /\ answer \in [ZkLetter -> [for: Anyone, drill: BOOLEAN, got: Mode, early: BOOLEAN,
                              erased: BOOLEAN]]
  /\ redeem \in [pc: {"idle", "fetch"}, listed: SUBSET ZkLetter, todo: SUBSET ZkLetter,
                 has: SUBSET ZkLetter]
  /\ openings \in 0..MaxOpenings /\ breaks \in 0..MaxBreaks /\ lostMail \subseteq ZkLetter
  /\ readdressed \subseteq ZkLetter

LettersInit ==
  /\ zkVault = "ACTIVE"
  /\ zkLetter = [z \in ZkLetter |-> "absent"]
  /\ recipient = [z \in ZkLetter |-> NoPerson]
  /\ heirEnvelope = [z \in ZkLetter |-> NoMode]
  /\ mailed = [z \in ZkLetter |-> {}] /\ promised = [z \in ZkLetter |-> NoMode]
  /\ sealing = [z \in ZkLetter |-> NotSealing]
  /\ outbox = [z \in ZkLetter |-> NoPerson]
  /\ claim = [z \in ZkLetter |-> NoClaim] /\ answer = [z \in ZkLetter |-> NoAnswer]
  /\ redeem = NotRedeeming
  /\ openings = 0 /\ breaks = 0 /\ lostMail = {} /\ readdressed = {}

RowThere(z) == zkLetter[z] \in {"sealed", "erased"}
\* get_zk_letter_ciphertext: what was erased, or is gone, cannot be read.
Readable(z) == zkLetter[z] = "sealed"
SealGoto(z, pc) == sealing' = [sealing EXCEPT ![z].pc = pc]
Sealed(z) == sealing' = [sealing EXCEPT ![z] = NotSealing]
Promise(z) == promised' = [promised EXCEPT ![z] = sealing[z].mode]

-----------------------------------------------------------------------------
(* Sealing.  The options for the heir are looked at when the letter's row  *)
(* is there already.                                                       *)

SealZkBegin(z, p, mode, sound) ==
  /\ zkLetter[z] = "absent" /\ sealing[z].pc = "idle"
  /\ mode = NoMode => sound
  /\ zkVault = "ACTIVE"
  /\ sealing' = [sealing EXCEPT ![z] = Sealer("insert", p, mode, sound)]
  /\ UNCHANGED <<letterVars, mailed, promised, lostMail, releaseVars, claimVars, redeem, breaks>>

SealZkInsert(z) ==
  /\ sealing[z].pc = "insert"
  /\ zkLetter' = [zkLetter EXCEPT ![z] = "sealed"]
  /\ recipient' = [recipient EXCEPT ![z] = sealing[z].to]
  /\ SealGoto(z, "heir")
  /\ UNCHANGED <<heirEnvelope, readdressed, mailed, promised, lostMail, releaseVars, claimVars, redeem, breaks>>

\* No envelope was sent: the letter is sealed for its author alone.
SealWithoutHeir(z) ==
  /\ sealing[z].pc = "heir" /\ sealing[z].mode = NoMode
  /\ Sealed(z)
  /\ UNCHANGED <<letterVars, mailed, promised, lostMail, releaseVars, claimVars, redeem, breaks>>

\* A 400, though the letter is stored; so is the failing of the envelope's foreign key.
RefuseHeir(z) ==
  /\ sealing[z].pc = "heir" /\ sealing[z].mode # NoMode
  /\ ~sealing[z].sound \/ ~RowThere(z)
  /\ Sealed(z)
  /\ UNCHANGED <<letterVars, mailed, promised, lostMail, releaseVars, claimVars, redeem, breaks>>

\* A bug: the operator's half of a split key is mailed about, not stored.
StoreHeir_SplitUnstored(z) ==
  /\ sealing[z].pc = "heir" /\ sealing[z].mode # NoMode /\ sealing[z].sound /\ RowThere(z)
  /\ heirEnvelope' = [heirEnvelope EXCEPT ![z] =
                        IF sealing[z].mode = "split" THEN NoMode ELSE sealing[z].mode]
  /\ IF sealing[z].mode = "split" THEN SealGoto(z, "mail") /\ UNCHANGED promised
                                  ELSE Sealed(z) /\ Promise(z)
  /\ UNCHANGED <<zkLetter, recipient, readdressed, mailed, lostMail, releaseVars, claimVars, redeem, breaks>>

\* upsert_zk_letter_heir_envelope; of a split key only the operator's half.
StoreHeir(z) ==
  /\ sealing[z].pc = "heir" /\ sealing[z].mode # NoMode /\ sealing[z].sound /\ RowThere(z)
  /\ heirEnvelope' = [heirEnvelope EXCEPT ![z] = sealing[z].mode]
  /\ IF sealing[z].mode = "split" THEN SealGoto(z, "mail") /\ UNCHANGED promised
                                  ELSE Sealed(z) /\ Promise(z)
  /\ UNCHANGED <<zkLetter, recipient, readdressed, mailed, lostMail, releaseVars, claimVars, redeem, breaks>>

\* heir_share: the other half is mailed, and kept nowhere.
MailHalf(z) ==
  /\ sealing[z].pc = "mail"
  /\ mailed' = [mailed EXCEPT ![z] = @ \cup {sealing[z].to}]
  /\ Sealed(z) /\ Promise(z)
  /\ UNCHANGED <<letterVars, lostMail, releaseVars, claimVars, redeem, breaks>>

\* Whether the mail went out is not asked.
MailIsLost(z) ==
  /\ sealing[z].pc = "mail" /\ breaks < MaxBreaks
  /\ Sealed(z) /\ Promise(z)
  /\ lostMail' = lostMail \cup {z}
  /\ breaks' = breaks + 1
  /\ UNCHANGED <<letterVars, mailed, releaseVars, claimVars, redeem>>

SealZkStops(z) ==
  /\ sealing[z].pc # "idle" /\ breaks < MaxBreaks
  /\ Sealed(z)
  /\ breaks' = breaks + 1
  /\ UNCHANGED <<letterVars, mailed, promised, lostMail, releaseVars, claimVars, redeem>>

-----------------------------------------------------------------------------
(* What becomes of the row.                                                *)

\* update_letter_meta, whatever the letter's envelope is.
Readdress(z, p) ==
  /\ RowThere(z)
  /\ recipient' = [recipient EXCEPT ![z] = p]
  /\ readdressed' = readdressed \cup {z}
  /\ UNCHANGED <<zkLetter, heirEnvelope, sealVars, releaseVars, claimVars, redeem, breaks>>

\* DELETE FROM letter takes the envelope and the claims with it.
DeleteZk(z) ==
  /\ RowThere(z)
  /\ zkLetter' = [zkLetter EXCEPT ![z] = "deleted"]
  /\ heirEnvelope' = [heirEnvelope EXCEPT ![z] = NoMode]
  /\ claim' = [claim EXCEPT ![z] = IF @.state = "issued" THEN NoClaim ELSE @]
  /\ UNCHANGED <<recipient, readdressed, sealVars, releaseVars, answer, redeem, breaks>>

\* purge_letter_ciphertext, of the retention sweep: the envelope stays.
EraseZk(z) ==
  /\ Readable(z)
  /\ zkLetter' = [zkLetter EXCEPT ![z] = "erased"]
  /\ UNCHANGED <<recipient, heirEnvelope, readdressed, sealVars, releaseVars, claimVars, redeem, breaks>>

-----------------------------------------------------------------------------
(* Releases, drills and claims.                                            *)

\* perform_release lists the letters and their recipients.
OpenZkVault(as) ==
  /\ zkVault = "ACTIVE" /\ openings < MaxOpenings
  /\ zkVault' = as
  /\ outbox' = [z \in ZkLetter |-> IF RowThere(z) THEN recipient[z] ELSE NoPerson]
  /\ openings' = openings + 1
  /\ UNCHANGED <<letterVars, sealVars, claimVars, redeem, breaks>>

\* deliver_letter; of the claims of a letter the latest is followed.
IssueZk(z) ==
  /\ outbox[z] # NoPerson /\ RowThere(z) /\ claim[z].state \notin {"opening", "fetched", "emptied"}
  /\ claim' = [claim EXCEPT ![z] = Claimed(outbox[z], zkVault = "DRILL", "issued")]
  /\ outbox' = [outbox EXCEPT ![z] = NoPerson]
  /\ UNCHANGED <<letterVars, sealVars, zkVault, openings, answer, redeem, breaks>>

\* A letter that is gone ends the release.
IssueZkFails(z) ==
  /\ outbox[z] # NoPerson /\ ~RowThere(z)
  /\ outbox' = [y \in ZkLetter |-> NoPerson]
  /\ UNCHANGED <<letterVars, sealVars, zkVault, openings, claimVars, redeem, breaks>>

\* When a drill is delivered the vault is ACTIVE again.
DrillEnds ==
  /\ zkVault = "DRILL" /\ \A z \in ZkLetter : outbox[z] = NoPerson
  /\ zkVault' = "ACTIVE"
  /\ UNCHANGED <<letterVars, sealVars, outbox, openings, claimVars, redeem, breaks>>

ConsumeZk(z) ==
  /\ claim[z].state = "issued"
  /\ claim' = [claim EXCEPT ![z].state = "opening"]
  /\ UNCHANGED <<letterVars, sealVars, releaseVars, answer, redeem, breaks>>

\* fetch_letter_full: of an erased letter a row without a text; a letter that is gone is
\* a 404, and the claim is spent.
FetchZk(z) ==
  /\ claim[z].state = "opening"
  /\ claim' = [claim EXCEPT ![z].state = IF Readable(z) THEN "fetched"
                                         ELSE IF RowThere(z) THEN "emptied" ELSE "spent"]
  /\ UNCHANGED <<letterVars, sealVars, releaseVars, answer, redeem, breaks>>

\* get_zk_letter_heir_envelope: whatever it finds, for a drill as for a release, of an
\* erased letter as of any other, and early, while the envelope is yet to be stored.
AnswerZk(z) ==
  /\ claim[z].state \in {"fetched", "emptied"}
  /\ claim' = [claim EXCEPT ![z].state = "spent"]
  /\ answer' = [answer EXCEPT ![z] =
                  Answered(claim[z].for, claim[z].drill, heirEnvelope[z],
                           sealing[z].pc = "heir", claim[z].state = "emptied")]
  /\ UNCHANGED <<letterVars, sealVars, releaseVars, redeem, breaks>>

-----------------------------------------------------------------------------
(* Recovery.                                                               *)

\* list_letters
RedeemList ==
  /\ redeem.pc = "idle"
  /\ LET rows == {z \in ZkLetter : RowThere(z)}
     IN redeem' = Redeemer("fetch", rows, rows, {})
  /\ UNCHANGED <<letterVars, sealVars, releaseVars, claimVars, breaks>>

\* A bug: an erased letter ends the listing.
RedeemFetch_StopsAtErased(z) ==
  /\ z \in redeem.todo /\ RowThere(z)
  /\ redeem' = [redeem EXCEPT !.todo = IF Readable(z) THEN @ \ {z} ELSE {},
                              !.has = IF Readable(z) THEN @ \cup {z} ELSE @]
  /\ UNCHANGED <<letterVars, sealVars, releaseVars, claimVars, breaks>>

\* fetch_letter_full: an erased letter is skipped, a missing one ends the request.
RedeemFetch(z) ==
  /\ z \in redeem.todo
  /\ redeem' =
       IF ~RowThere(z) THEN NotRedeeming
       ELSE [redeem EXCEPT !.todo = @ \ {z},
                           !.has = IF Readable(z) THEN @ \cup {z} ELSE @]
  /\ UNCHANGED <<letterVars, sealVars, releaseVars, claimVars, breaks>>

RedeemAnswer ==
  /\ redeem.pc = "fetch" /\ redeem.todo = {}
  /\ redeem' = NotRedeeming
  /\ UNCHANGED <<letterVars, sealVars, releaseVars, claimVars, breaks>>

-----------------------------------------------------------------------------
LettersNext ==
  \/ \E z \in ZkLetter : \E p \in Person :
       \/ \E mode \in Mode : \E sound \in BOOLEAN : SealZkBegin(z, p, mode, sound)
       \/ Readdress(z, p)
  \/ \E z \in ZkLetter :
       \/ SealZkInsert(z) \/ SealWithoutHeir(z) \/ RefuseHeir(z) \/ StoreHeir(z)
       \/ MailHalf(z) \/ MailIsLost(z) \/ SealZkStops(z) \/ DeleteZk(z) \/ EraseZk(z)
       \/ IssueZk(z) \/ IssueZkFails(z) \/ ConsumeZk(z) \/ FetchZk(z)
       \/ AnswerZk(z) \/ RedeemFetch(z)
  \/ OpenZkVault("DRILL") \/ OpenZkVault("RELEASED") \/ DrillEnds
  \/ RedeemList \/ RedeemAnswer

LettersSpec == LettersInit /\ [][LettersNext]_lettersVars

-----------------------------------------------------------------------------
\* Once a letter's author is told what is in place for the heir, whoever claimed the
\* letter, before or since, was answered with just that, unless its text had been erased
\* by then, the letter was deleted, or the answer was early, between the insert of the
\* letter and of the envelope; and a half of a split key was answered only to one who was
\* mailed the other half, unless the mail was lost or the letter was given another
\* recipient (seal_zk_letter, claim_release).
HeirOpens ==
  \A z \in ZkLetter :
    /\ promised[z] # NoMode /\ answer[z].for # NoPerson
    /\ ~answer[z].early /\ ~answer[z].erased /\ zkLetter[z] # "deleted"
    => /\ answer[z].got = promised[z]
       /\ answer[z].got = "split" /\ z \notin lostMail \cup readdressed
            => answer[z].for \in mailed[z]

\* What carries it: until the author is told, nothing is promised; what was promised is
\* on the row; releases, claims and answers are made out to the row's recipient unless it
\* was changed since; and what was answered, but for early, the row still has.
Before(z) == zkLetter[z] = "absent"
SealKeeps(z) ==
  /\ sealing[z].pc = "insert" => Before(z)
  /\ sealing[z].pc # "idle" => promised[z] = NoMode
  /\ sealing[z].pc = "mail" => sealing[z].mode = "split"
  /\ sealing[z].pc = "mail" /\ zkLetter[z] # "deleted" => heirEnvelope[z] = "split"
  /\ sealing[z].pc \in {"heir", "mail"} =>
       ~Before(z) /\ (z \notin readdressed => recipient[z] = sealing[z].to)
PromiseKept(z) ==
  promised[z] # NoMode =>
    /\ ~Before(z)
    /\ zkLetter[z] # "deleted" => heirEnvelope[z] = promised[z]
    /\ promised[z] = "split" /\ z \notin lostMail \cup readdressed => recipient[z] \in mailed[z]
MadeOut(z) ==
  /\ outbox[z] # NoPerson \/ claim[z].state # "none" \/ answer[z].for # NoPerson => ~Before(z)
  /\ z \notin readdressed =>
       /\ outbox[z] # NoPerson => outbox[z] = recipient[z]
       /\ claim[z].state # "none" => claim[z].for = recipient[z]
       /\ answer[z].for # NoPerson => answer[z].for = recipient[z]
AnswerStands(z) ==
  answer[z].for # NoPerson /\ ~answer[z].early =>
    /\ sealing[z].pc \notin {"insert", "heir"}
    /\ zkLetter[z] # "deleted" => answer[z].got = heirEnvelope[z]
LettersInv ==
  /\ LettersTypeOK
  /\ \A z \in ZkLetter : SealKeeps(z) /\ PromiseKept(z) /\ MadeOut(z) /\ AnswerStands(z)

\* A recovery that answers hands over every letter it listed that can still be read,
\* whatever was erased or deleted while it fetched them (recovery_redeem).
RedeemWhole ==
  redeem.pc = "fetch" /\ redeem.todo = {} =>
    \A z \in redeem.listed : Readable(z) => z \in redeem.has

\* What makes it inductive: no letter is sealed a second time, so a listed one that can
\* still be read is fetched or yet to be.
RedeemInv ==
  redeem.pc = "fetch" => \A z \in redeem.listed :
    ~Before(z) /\ (Readable(z) => z \in redeem.has \cup redeem.todo)

\* A drill sends the drill's text, "not the real letter body" (docs/api.md, line 503):
\* no claim of a drill is answered with what opens the letter.  It is: claim_release
\* hands out the heir's envelope of a Private Vault whatever the claim was issued for.
DrillKeepsSecret ==
  \A z \in ZkLetter : answer[z].drill => answer[z].got = NoMode
=============================================================================
