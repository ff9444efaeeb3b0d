------------------------------ MODULE MCAccess ------------------------------
(* Small instances of signing in and Private Vaults for TLC. *)
EXTENDS PrivateVaults, TLC
CONSTANTS t1, t2, v1

TabSymmetry == Permutations(Tab)

\* A new account is made and signed in to.
DoorNext ==
  /\ \/ SignInStep /\ UNCHANGED privateVars
     \/ \E t \in Tab : RegisterAnswer(t)
  /\ UNCHANGED crossed

\* Its owner, signed in, keeps passkeys and Private Vaults.
HouseInit ==
  SignInStarts([exists |-> TRUE, tos |-> TRUE, subscribed |-> TRUE], 1) /\ NoVaultYet

HouseNext ==
  /\ \/ /\ \E t \in Tab : \/ Begin(t, "passkey", FALSE) \/ UpsertSelect(t) \/ AdmitKnown(t)
                          \/ RegisterOptions(t) \/ Stops(t)
                          \/ \E k \in Pass : Consume(t, k)
        /\ UNCHANGED privateVars
     \/ BrowserStep
     \/ \E t \in Tab : TabStep(t)
  /\ crossed' = Crossing

DoorSpec == AccessInit /\ [][DoorNext]_accessVars
HouseSpec == HouseInit /\ [][HouseNext]_accessVars
=============================================================================
