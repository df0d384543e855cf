--------------------------- MODULE DMIDLifecycle ---------------------------
(***************************************************************************)
(* The life of one IoT identity contract: any account may call any         *)
(* function, in any order, and the block time advances between calls.      *)
(***************************************************************************)
EXTENDS DMIDContract

CONSTANTS
  Accounts,   \* the accounts that send transactions
  Deployer,   \* the account that deployed the contract
  Texts,      \* DIDs, credentials and document hashes
  Genesis,    \* the block time of the deployment, in seconds since 1970
  MaxTime     \* bound: the last block time

ASSUME AccountAssumption == Deployer \in Accounts /\ NoAccount \notin Accounts
ASSUME TextAssumption == NoText \notin Texts
ASSUME NumberAssumption ==
  /\ TrustCap \in Nat /\ VcCap \in Nat /\ Lock_time \in Nat
  /\ Genesis \in Nat /\ MaxTime \in Nat /\ Genesis <= MaxTime

VARIABLES contract,  \* the storage
          now,       \* block.timestamp of the next block
          requested, \* history: the time of the last accepted DeleteDMID(1), 0: none
          revokedAt  \* history: when the identity was revoked, 0: never

vars == <<contract, now, requested, revokedAt>>

Init == /\ contract = Deployed(Deployer)
        /\ now = Genesis
        /\ requested = 0
        /\ revokedAt = 0

CallAddTrustList(a) ==
  /\ MayAddTrustList(contract, a)
  /\ \E t \in Texts : contract' = AddTrustList(contract, t)
  /\ UNCHANGED <<now, requested, revokedAt>>

CallAddVC(a) ==
  /\ MayAddVC(contract, a)
  /\ \E t \in Texts : contract' = AddVC(contract, t)
  /\ UNCHANGED <<now, requested, revokedAt>>

CallAddDMIDDocument(a) ==
  /\ OwnerMay(contract, a)
  /\ \E t \in Texts : contract' = AddDMIDDocument(contract, t)
  /\ UNCHANGED <<now, requested, revokedAt>>

CallSetEmergencyContact(a) ==
  /\ OwnerMay(contract, a)
  /\ \E b \in Accounts \cup {NoAccount} :
       contract' = SetEmergencyContact(contract, b)
  /\ UNCHANGED <<now, requested, revokedAt>>

CallOwnerChange(a) ==
  /\ ContactMay(contract, a)
  /\ \E b \in Accounts \cup {NoAccount} : contract' = OwnerChange(contract, b)
  /\ UNCHANGED <<now, requested, revokedAt>>

CallDeleteDMID(a) ==
  /\ OwnerMay(contract, a)
  /\ \E index \in {1, 2, 3} :
       /\ contract' = DeleteDMID(contract, index, now)
       /\ requested' = IF index = 1 THEN now ELSE requested
       /\ revokedAt' = IF contract'.RevokedFlag THEN now ELSE 0
  /\ UNCHANGED now

Call(a) == \/ CallAddTrustList(a) \/ CallAddVC(a) \/ CallAddDMIDDocument(a)
           \/ CallSetEmergencyContact(a) \/ CallOwnerChange(a)
           \/ CallDeleteDMID(a)

\* A later block; blocks may also share a time stamp.
NewBlock ==
  /\ now < MaxTime
  /\ now' = now + 1
  /\ UNCHANGED <<contract, requested, revokedAt>>

Next == NewBlock \/ \E a \in Accounts : Call(a)
Spec == Init /\ [][Next]_vars

-----------------------------------------------------------------------------
(* Properties.                                                             *)

Owners == Accounts \cup {NoAccount}
Storage ==
  [owner : Owners, emergency_contact : Owners,
   trustList : Seq(Texts), vcHold : Seq(Texts), didDocument : Texts \cup {NoText},
   RevokedFlag : BOOLEAN,
   first_time_for_revoke : Nat, second_time_for_revoke : Nat]

\* Types; the counters of the fixed arrays never pass the arrays.
TypeOK ==
  /\ contract \in Storage
  /\ Len(contract.trustList) <= TrustCap
  /\ Len(contract.vcHold) <= VcCap
  /\ now \in Nat /\ requested \in Nat /\ revokedAt \in Nat

\* The uint256 subtraction of DeleteDMID (IoTDIDContract.sol:97) never wraps:
\* at every block both recorded times are in the past.
NoUnderflow == /\ contract.first_time_for_revoke <= now
               /\ contract.second_time_for_revoke <= now

\* A revocation that was requested takes effect only when the lock time has
\* passed since the LAST request (IoTDIDContract.sol:85-102): whoever owned
\* the contract meanwhile, requesting again starts the wait anew.
LockRespected ==
  contract.RevokedFlag => revokedAt > requested + Lock_time

\* Revocation is final (every require tests RevokedFlag): no later call, by
\* the owner or by the emergency contact, changes anything in the contract.
RevocationFinal == [][contract.RevokedFlag => contract' = contract]_vars

\* What readers have been told stays true (acquireTrustList, acquireVC): an
\* entry read at an index below the count is read there for ever, across
\* changes of owner.
EntriesStable ==
  [][/\ \A i \in 0 .. TrustCap :
          i < Len(contract.trustList) =>
            acquireTrustList(contract', i) = acquireTrustList(contract, i)
     /\ \A i \in 0 .. VcCap :
          i < Len(contract.vcHold) =>
            acquireVC(contract', i) = acquireVC(contract, i)]_vars

=============================================================================
