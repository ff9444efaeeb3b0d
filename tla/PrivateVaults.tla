--------------------------- MODULE PrivateVaults ---------------------------
(***************************************************************************)
(* Passkeys, recovery codes and the envelopes of Private Vaults:           *)
(* crates/beacon-api/src/passkey.rs over the tables of beacon-db.          *)
(*                                                                         *)
(* A Private Vault's key is held only inside envelopes: one per passkey,   *)
(* and one under the Recovery Key, which is itself wrapped twice, under    *)
(* the recovery code and under the passkey it was made with.  The server   *)
(* cannot open any of them; here an envelope is what it can be opened with.*)
(***************************************************************************)
EXTENDS SignIn

CONSTANTS
  MaxPasskeys,  \* bound: passkeys registered
  Vault         \* the Private Vaults that may be made

ASSUME VaultAssumption == MaxPasskeys \in Nat

VARIABLES
  passkeys,    \* principal_passkey rows
  registered,  \* how many there ever were
  codes,       \* how many recovery codes were generated
  verifier,    \* principal_recovery: the code its verifier is of, or 0
  shown,       \* history: the codes a browser was sent
  wraps,       \* principal_recovery_key: the code and the passkey it is wrapped under
  vaults,      \* Private Vault rows
  envelopes,   \* zk_key_envelope rows: vault and passkey
  prkVaults,   \* vault_prk_envelope rows
  crossed      \* history: two requests about passkeys were at work at the same time, or
               \* a Private Vault was made during one

vaultVars == <<vaults, envelopes, prkVaults>>
recoveryVars == <<codes, verifier, shown, wraps>>
passkeyVars == <<passkeys, registered>>
privateVars == <<passkeyVars, recoveryVars, vaultVars>>
accessVars == <<signInVars, privateVars, crossed>>
signInFrame == <<accountState, now, issued, tickets, sessions, minted, faults>>

Passkey == 1..MaxPasskeys
NoWraps == [code |-> 0, passkey |-> 0]

AccessTypeOK ==
  /\ SignInTypeOK
  /\ passkeys \subseteq Passkey /\ registered \in 0..MaxPasskeys
  /\ codes \in Nat /\ verifier \in 0..codes /\ shown \subseteq 1..codes
  /\ wraps \in [code: 0..codes, passkey: 0..MaxPasskeys]
  /\ vaults \subseteq Vault /\ envelopes \subseteq vaults \X passkeys
  /\ prkVaults \subseteq vaults
  /\ crossed \in BOOLEAN

NoVaultYet ==
  /\ passkeys = {} /\ registered = 0
  /\ codes = 0 /\ verifier = 0 /\ shown = {} /\ wraps = NoWraps
  /\ vaults = {} /\ envelopes = {} /\ prkVaults = {}
  /\ crossed = FALSE

AccessInit == SignInStarts(NoAccount, 0) /\ NoVaultYet

-----------------------------------------------------------------------------
(* Registering a passkey, from the consumed challenge on.                  *)

\* finish_passkey_registration and get_passkey_by_credential_id: what was not signed
\* for, or is there already, is refused.
RegisterLookup(t) ==
  /\ tab[t].pc = "lookup"
  /\ TabGoto(t, "store") \/ Leave(t)
  /\ UNCHANGED <<signInFrame, privateVars>>

\* store_passkey
RegisterStore(t) ==
  /\ tab[t].pc = "store" /\ registered < MaxPasskeys
  /\ registered' = registered + 1
  /\ passkeys' = passkeys \cup {registered + 1}
  /\ tab' = [tab EXCEPT ![t].pc = "look", ![t].passkey = registered + 1]
  /\ UNCHANGED <<signInFrame, recoveryVars, vaultVars>>

\* A bug: every passkey gets a code, as if it were the first.
RegisterLook_Always(t) ==
  /\ tab[t].pc = "look"
  /\ TabGoto(t, "code")
  /\ UNCHANGED <<signInFrame, privateVars>>

\* get_principal_recovery: only the first passkey gets a code.
RegisterLook(t) ==
  /\ tab[t].pc = "look"
  /\ TabGoto(t, IF verifier = 0 THEN "code" ELSE "mint")
  /\ UNCHANGED <<signInFrame, privateVars>>

\* upsert_principal_recovery, which overwrites.
RegisterCode(t) ==
  /\ tab[t].pc = "code"
  /\ codes' = codes + 1
  /\ verifier' = codes + 1
  /\ tab' = [tab EXCEPT ![t].pc = "mint", ![t].code = codes + 1]
  /\ UNCHANGED <<signInFrame, passkeyVars, shown, wraps, vaultVars>>

\* The session is the last statement, and the answer carries the code with it.
RegisterAnswer(t) ==
  /\ Mint(t)
  /\ shown' = shown \cup ({tab[t].code} \ {0})
  /\ UNCHANGED <<passkeyVars, codes, verifier, wraps, vaultVars>>

\* passkey_authenticate_options: only with a passkey to offer.
AuthenticateOptions(t) ==
  /\ tab[t].pc = "idle" /\ passkeys # {}
  /\ Issue("AUTHENTICATION", ChallengeTtl)
  /\ UNCHANGED <<accountState, now, faults, tab, privateVars>>

\* passkey_authenticate_verify: the passkey that signed must still be there.
AuthenticateVerify(t, p) ==
  /\ tab[t].pc = "auth"
  /\ IF p \in passkeys THEN TabGoto(t, "mint") ELSE Leave(t)
  /\ UNCHANGED <<signInFrame, privateVars>>

-----------------------------------------------------------------------------
(* Private Vaults.  Each of these routes wants a session.                  *)

\* store_recovery_key, by a browser that was shown a code and holds a passkey: the
\* first wraps stay for good.
StoreRecoveryKey(c, p) ==
  /\ sessions # 0
  /\ c \in shown /\ p \in passkeys
  /\ wraps' = IF wraps = NoWraps THEN [code |-> c, passkey |-> p] ELSE wraps
  /\ UNCHANGED <<signInVars, passkeyVars, codes, verifier, shown, vaultVars>>

\* create_vault, ZERO_KNOWLEDGE; it wants a subscription, and no passkey.
CreateVault(v) ==
  /\ sessions # 0 /\ account.subscribed
  /\ vaults' = vaults \cup {v}
  /\ UNCHANGED <<signInVars, passkeyVars, recoveryVars, envelopes, prkVaults>>

\* store_zk_envelope: the passkey's row must be there.
StoreEnvelope(v, p) ==
  /\ sessions # 0 /\ v \in vaults /\ p \in passkeys
  /\ envelopes' = envelopes \cup {<<v, p>>}
  /\ UNCHANGED <<signInVars, passkeyVars, recoveryVars, vaults, prkVaults>>

\* store_vault_prk_envelope: a browser can make one when it opens the Recovery Key
\* with the passkey it holds.
StorePrkEnvelope(v, p) ==
  /\ sessions # 0 /\ <<v, p>> \in envelopes
  /\ wraps.passkey = p
  /\ prkVaults' = prkVaults \cup {v}
  /\ UNCHANGED <<signInVars, passkeyVars, recoveryVars, vaults, envelopes>>

\* A bug: nobody asks whether it is the last one.
DeleteBegin_Unasked(t, p) ==
  /\ tab[t].pc = "idle" /\ sessions # 0 /\ p \in passkeys
  /\ tab' = [tab EXCEPT ![t].pc = "drop", ![t].passkey = p]
  /\ UNCHANGED <<signInFrame, privateVars>>

\* delete_passkey: it counts passkeys,
DeleteBegin(t, p) ==
  /\ tab[t].pc = "idle" /\ sessions # 0 /\ p \in passkeys
  /\ tab' = [tab EXCEPT ![t].pc = IF Cardinality(passkeys) <= 1 THEN "zk" ELSE "drop",
                        ![t].passkey = p]
  /\ UNCHANGED <<signInFrame, privateVars>>

\* then, for the last one, Private Vaults,
DeleteCountVaults(t) ==
  /\ tab[t].pc = "zk"
  /\ IF vaults = {} THEN TabGoto(t, "drop") ELSE Leave(t)
  /\ UNCHANGED <<signInFrame, privateVars>>

\* A bug: the envelopes under the passkey stay.
DeleteRow_NoCascade(t) ==
  /\ tab[t].pc = "drop"
  /\ passkeys' = passkeys \ {tab[t].passkey}
  /\ Leave(t)
  /\ UNCHANGED <<signInFrame, registered, recoveryVars, vaultVars>>

\* and the row goes, with its envelopes.
DeleteRow(t) ==
  /\ tab[t].pc = "drop"
  /\ passkeys' = passkeys \ {tab[t].passkey}
  /\ envelopes' = {e \in envelopes : e[2] # tab[t].passkey}
  /\ Leave(t)
  /\ UNCHANGED <<signInFrame, registered, recoveryVars, vaults, prkVaults>>

-----------------------------------------------------------------------------
TabStep(t) ==
  \/ RegisterLookup(t) \/ RegisterStore(t) \/ RegisterLook(t) \/ RegisterCode(t)
  \/ RegisterAnswer(t) \/ AuthenticateOptions(t) \/ DeleteCountVaults(t) \/ DeleteRow(t)
  \/ \E p \in Passkey : AuthenticateVerify(t, p) \/ DeleteBegin(t, p)

BrowserStep ==
  \/ \E c \in 1..codes : \E p \in Passkey : StoreRecoveryKey(c, p)
  \/ \E v \in Vault : CreateVault(v)
  \/ \E v \in Vault : \E p \in Passkey : StoreEnvelope(v, p) \/ StorePrkEnvelope(v, p)

\* The requests about passkeys: from the consumed challenge, or from the count.
AtPasskeys == {t \in Tab : tab[t].pc \in {"lookup", "store", "look", "code", "zk", "drop"}}

Crowded == \E t, u \in AtPasskeys : t # u

Crossing == crossed \/ Crowded' \/ (vaults' # vaults /\ AtPasskeys # {})

AccessNext ==
  /\ \/ SignInStep /\ UNCHANGED privateVars
     \/ BrowserStep
     \/ \E t \in Tab : TabStep(t)
  /\ crossed' = Crossing

AccessSpec == AccessInit /\ [][AccessNext]_accessVars

-----------------------------------------------------------------------------
(* The inductive invariant behind OneSessionPerTicket.                     *)
AccessInv ==
  /\ TicketInv
  /\ passkeys \subseteq Nat /\ registered \in Nat /\ codes \in Nat

(* Behind CodeOpensWraps: the verifier is of the latest code, and while    *)
(* requests did not overlap there was one code.  Who made a code holds it  *)
(* until it answers with it.                                               *)
CodeInv ==
  /\ verifier = codes /\ shown \subseteq 1..codes
  /\ wraps \in [code: Nat, passkey: Nat] /\ (wraps = NoWraps \/ wraps.code \in shown)
  /\ \A t \in Tab : tab[t].code \in 0..codes /\ (tab[t].code # 0 => tab[t].pc = "mint")
  /\ faults \in Nat
  /\ faults = 0 /\ codes # 0 => codes \in shown \/ \E t \in Tab : tab[t].code = codes
  /\ ~crossed => codes <= 1 /\ \A t \in Tab : tab[t].pc = "code" => codes = 0

(* Behind LastPasskeyStays: who is about to delete a passkey is the only   *)
(* request about passkeys, and what it found out is still so.              *)
DropInv ==
  ~crossed =>
    /\ ~Crowded
    /\ \A t \in Tab : tab[t].pc = "drop" =>
         vaults = {} \/ \E q \in passkeys : q # tab[t].passkey

(* Behind the types: what a request holds is of what there is.             *)
RangeInv ==
  /\ now \in 0..MaxNow /\ faults \in 0..MaxFaults
  /\ passkeys \subseteq Passkey /\ registered \in 0..MaxPasskeys
  /\ codes \in Nat /\ verifier \in 0..codes /\ shown \subseteq 1..codes
  /\ wraps \in [code: 0..codes, passkey: 0..MaxPasskeys]
  /\ \A t \in Tab : tab[t].code \in 0..codes
  /\ vaults \subseteq Vault /\ envelopes \subseteq vaults \X passkeys
  /\ prkVaults \subseteq vaults

PrivateInv == AccessInv /\ MakingInv /\ CodeInv /\ DropInv

-----------------------------------------------------------------------------
(* Properties.                                                             *)

\* Whenever the server would accept a recovery code and has a Recovery Key, that code
\* opens it, and it is a code some browser was or will be sent; unless requests about
\* passkeys overlapped, or the one that made the code was stopped (passkey.rs, lines
\* 218-220: a second code "would orphan the Recovery Key wraps").
CodeOpensWraps ==
  ~crossed /\ verifier # 0 =>
    /\ wraps # NoWraps => wraps.code = verifier
    /\ faults = 0 => verifier \in shown \/ \E t \in Tab : tab[t].code = verifier

\* The last passkey is not deleted while there are Private Vaults, unless requests
\* overlapped.
LastPasskeyStays ==
  [][~crossed' /\ passkeys # {} /\ passkeys' = {} => vaults = {}]_accessVars
=============================================================================
