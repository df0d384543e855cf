--------------------------- MODULE DMIDContract ---------------------------
(***************************************************************************)
(* IoTDIDContract.sol: the storage of one contract, its constructor and    *)
(* the functions that write it.  A function is given as its effect on the  *)
(* storage and the condition under which the call does not revert; a call  *)
(* that reverts changes nothing.  The operators marked "mutant" are        *)
(* programming errors the checks must notice; nothing else uses them.      *)
(***************************************************************************)
EXTENDS Naturals, Sequences

CONSTANTS
  NoAccount,    \* the zero address, the initial emergency_contact
  NoText,       \* the empty string
  TrustCap,     \* slots of trustList (100)
  VcCap,        \* slots of vcHold (1000)
  Lock_time     \* seconds between the two steps of a revocation (86400)

\* The storage after constructor() called by account a.
Deployed(a) ==
  [owner |-> a, emergency_contact |-> NoAccount,
   trustList |-> <<>>, vcHold |-> <<>>, didDocument |-> NoText,
   RevokedFlag |-> FALSE,
   first_time_for_revoke |-> 0, second_time_for_revoke |-> 0]

\* require(msg.sender == owner && RevokedFlag == false)
OwnerMay(c, sender) == sender = c.owner /\ c.RevokedFlag = FALSE

\* require(msg.sender == emergency_contact && RevokedFlag == false)
ContactMayAlways(c, sender) == sender = c.emergency_contact           \* mutant
ContactMay(c, sender) == sender = c.emergency_contact /\ c.RevokedFlag = FALSE

\* Writing past the last slot of a fixed array reverts.
MayAddTrustList(c, sender) == OwnerMay(c, sender) /\ Len(c.trustList) < TrustCap
MayAddVCOffByOne(c, sender) == OwnerMay(c, sender) /\ Len(c.vcHold) <= VcCap   \* mutant
MayAddVC(c, sender)        == OwnerMay(c, sender) /\ Len(c.vcHold) < VcCap

AddTrustListInFront(c, did) == [c EXCEPT !.trustList = <<did>> \o @]   \* mutant
AddTrustList(c, did)    == [c EXCEPT !.trustList = Append(@, did)]
AddVC(c, vc)            == [c EXCEPT !.vcHold = Append(@, vc)]
AddDMIDDocument(c, doc) == [c EXCEPT !.didDocument = doc]
SetEmergencyContact(c, a) == [c EXCEPT !.emergency_contact = a]
OwnerChange(c, a)       == [c EXCEPT !.owner = a]

\* index 1 records a request; index 2 records the confirmation and revokes
\* the identity if the lock time has passed; any other index does nothing.
DeleteDMIDFirstRequest(c, index, time) ==                              \* mutant
  CASE index = 1 -> IF c.first_time_for_revoke = 0
                    THEN [c EXCEPT !.first_time_for_revoke = time] ELSE c
    [] index = 2 ->
         [c EXCEPT !.second_time_for_revoke = time,
                   !.RevokedFlag = time - c.first_time_for_revoke > Lock_time]
    [] OTHER -> c
DeleteDMIDDeadline(c, index, time) ==                                  \* mutant
  CASE index = 1 -> [c EXCEPT !.first_time_for_revoke = time + Lock_time]
    [] index = 2 ->
         [c EXCEPT !.second_time_for_revoke = time,
                   !.RevokedFlag = time > c.first_time_for_revoke]
    [] OTHER -> c
DeleteDMID(c, index, time) ==
  CASE index = 1 -> [c EXCEPT !.first_time_for_revoke = time]
    [] index = 2 ->
         [c EXCEPT !.second_time_for_revoke = time,
                   !.RevokedFlag = time - c.first_time_for_revoke > Lock_time]
    [] OTHER -> c

\* The view functions: the stored text, or the empty string past the count.
acquireTrustList(c, index) ==
  IF index < Len(c.trustList) THEN c.trustList[index + 1] ELSE NoText
acquireVC(c, index) ==
  IF index < Len(c.vcHold) THEN c.vcHold[index + 1] ELSE NoText
AcquireDMIDDocument(c) == c.didDocument
=============================================================================
