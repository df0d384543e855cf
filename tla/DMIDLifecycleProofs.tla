------------------------ MODULE DMIDLifecycleProofs ------------------------
(***************************************************************************)
(* Theorems about DMIDLifecycle, for every set of accounts and texts, every *)
(* array size, every lock time and every clock.                            *)
(***************************************************************************)
EXTENDS DMIDLifecycle, TLAPS

\* The clock part of the inductive invariant: the contract's record of the
\* last request is the last request, and recorded times are in the past.
ClockInv == /\ requested = contract.first_time_for_revoke
            /\ NoUnderflow

IInv == TypeOK /\ ClockInv /\ LockRespected

\* The storage stays well typed when a list grows.
LEMMA ListUpdates ==
  ASSUME NEW c \in Storage, NEW t \in Texts
  PROVE  AddTrustList(c, t) \in Storage /\ AddVC(c, t) \in Storage
<1>1. Append(c.trustList, t) \in Seq(Texts) /\ Append(c.vcHold, t) \in Seq(Texts)
  BY DEF Storage
<1> QED BY <1>1 DEF Storage, AddTrustList, AddVC

\* The storage stays well typed when a deletion is requested or confirmed.
LEMMA DeleteUpdates ==
  ASSUME NEW c \in Storage, NEW index \in {1, 2, 3}, NEW time \in Nat
  PROVE  DeleteDMID(c, index, time) \in Storage
<1>1. CASE index = 1
  BY SMTT(30), <1>1 DEF Storage, DeleteDMID
<1>2. CASE index = 2
  <2>1. DeleteDMID(c, 2, time)
          = [c EXCEPT !.second_time_for_revoke = time,
                      !.RevokedFlag = time - c.first_time_for_revoke > Lock_time]
    BY DEF DeleteDMID
  <2>2. (time - c.first_time_for_revoke > Lock_time) \in BOOLEAN
    BY NumberAssumption DEF Storage
  <2> HIDE DEF DeleteDMID
  <2> DEFINE late == time - c.first_time_for_revoke > Lock_time
  <2>3. late \in BOOLEAN
    BY <2>2
  <2> HIDE DEF late
  <2>4. [c EXCEPT !.second_time_for_revoke = time, !.RevokedFlag = late] \in Storage
    BY <2>3 DEF Storage
  <2> QED BY <1>2, <2>1, <2>4 DEF late
<1>3. CASE index = 3
  BY <1>3 DEF DeleteDMID
<1> QED BY <1>1, <1>2, <1>3

LEMMA InitIInv == Init => IInv
<1> SUFFICES ASSUME Init PROVE IInv
  OBVIOUS
<1>1. contract \in Storage
  BY AccountAssumption DEF Init, Deployed, Storage, Owners
<1>2. TypeOK
  BY <1>1, NumberAssumption DEF Init, Deployed, TypeOK
<1>3. ClockInv /\ LockRespected
  BY NumberAssumption DEF Init, Deployed, ClockInv, NoUnderflow, LockRespected
<1> QED BY <1>2, <1>3 DEF IInv

\* A call that neither deletes nor lengthens a list only replaces a field the
\* invariant does not constrain beyond its type.
LEMMA StepIInv == IInv /\ [Next]_vars => IInv'
<1> SUFFICES ASSUME IInv, [Next]_vars PROVE IInv'
  OBVIOUS
<1> USE NumberAssumption DEF IInv
<1>1. ASSUME NEW a \in Accounts, CallAddTrustList(a) PROVE IInv'
  <2>1. PICK t \in Texts : contract' = AddTrustList(contract, t)
    BY <1>1 DEF CallAddTrustList
  <2>2. contract' \in Storage
    BY <2>1, ListUpdates DEF TypeOK
  <2>3. /\ contract'.trustList = Append(contract.trustList, t)
        /\ contract'.vcHold = contract.vcHold
        /\ contract'.first_time_for_revoke = contract.first_time_for_revoke
        /\ contract'.second_time_for_revoke = contract.second_time_for_revoke
        /\ contract'.RevokedFlag = contract.RevokedFlag
    BY <2>1 DEF AddTrustList, TypeOK, Storage
  <2>4. Len(contract'.trustList) <= TrustCap
    BY <1>1, <2>3 DEF CallAddTrustList, MayAddTrustList, TypeOK, Storage
  <2>5. TypeOK'
    BY <1>1, <2>2, <2>3, <2>4 DEF CallAddTrustList, TypeOK
  <2> QED BY <1>1, <2>3, <2>5
          DEF CallAddTrustList, ClockInv, NoUnderflow, LockRespected
<1>2. ASSUME NEW a \in Accounts, CallAddVC(a) PROVE IInv'
  <2>1. PICK t \in Texts : contract' = AddVC(contract, t)
    BY <1>2 DEF CallAddVC
  <2>2. contract' \in Storage
    BY <2>1, ListUpdates DEF TypeOK
  <2>3. /\ contract'.vcHold = Append(contract.vcHold, t)
        /\ contract'.trustList = contract.trustList
        /\ contract'.first_time_for_revoke = contract.first_time_for_revoke
        /\ contract'.second_time_for_revoke = contract.second_time_for_revoke
        /\ contract'.RevokedFlag = contract.RevokedFlag
    BY <2>1 DEF AddVC, TypeOK, Storage
  <2>4. Len(contract'.vcHold) <= VcCap
    BY <1>2, <2>3 DEF CallAddVC, MayAddVC, TypeOK, Storage
  <2>5. TypeOK'
    BY <1>2, <2>2, <2>3, <2>4 DEF CallAddVC, TypeOK
  <2> QED BY <1>2, <2>3, <2>5
          DEF CallAddVC, ClockInv, NoUnderflow, LockRespected
<1>3. ASSUME NEW a \in Accounts,
             \/ CallAddDMIDDocument(a)
             \/ CallSetEmergencyContact(a)
             \/ CallOwnerChange(a)
      PROVE  IInv'
  <2>1. /\ contract' \in Storage
        /\ contract'.trustList = contract.trustList
        /\ contract'.vcHold = contract.vcHold
        /\ contract'.first_time_for_revoke = contract.first_time_for_revoke
        /\ contract'.second_time_for_revoke = contract.second_time_for_revoke
        /\ contract'.RevokedFlag = contract.RevokedFlag
    BY <1>3 DEF CallAddDMIDDocument, CallSetEmergencyContact, CallOwnerChange,
                AddDMIDDocument, SetEmergencyContact, OwnerChange,
                TypeOK, Storage, Owners
  <2>2. UNCHANGED <<now, requested, revokedAt>>
    BY <1>3 DEF CallAddDMIDDocument, CallSetEmergencyContact, CallOwnerChange
  <2> QED BY <2>1, <2>2 DEF TypeOK, ClockInv, NoUnderflow, LockRespected
<1>4. ASSUME NEW a \in Accounts, CallDeleteDMID(a) PROVE IInv'
  <2>1. PICK index \in {1, 2, 3} :
          /\ contract' = DeleteDMID(contract, index, now)
          /\ requested' = IF index = 1 THEN now ELSE requested
          /\ revokedAt' = IF contract'.RevokedFlag THEN now ELSE 0
    BY <1>4 DEF CallDeleteDMID
  <2>2. now' = now /\ contract.RevokedFlag = FALSE
    BY <1>4 DEF CallDeleteDMID, OwnerMay
  <2>3. contract' \in Storage
    BY <2>1, DeleteUpdates DEF TypeOK
  <2>4. contract'.trustList = contract.trustList /\ contract'.vcHold = contract.vcHold
    BY <2>1 DEF DeleteDMID, TypeOK, Storage
  <2>5. TypeOK'
    BY <2>1, <2>2, <2>3, <2>4 DEF TypeOK
  <2>6. CASE index = 1
    <3>1. /\ contract'.first_time_for_revoke = now
          /\ contract'.second_time_for_revoke = contract.second_time_for_revoke
          /\ contract'.RevokedFlag = FALSE
      BY SMTT(30), <2>1, <2>2, <2>6 DEF DeleteDMID, TypeOK, Storage
    <3> QED BY <2>1, <2>2, <2>5, <2>6, <3>1
            DEF ClockInv, NoUnderflow, LockRespected, TypeOK
  <2>7. CASE index = 2
    <3> DEFINE late == now - contract.first_time_for_revoke > Lock_time
    <3>1. contract' = [contract EXCEPT !.second_time_for_revoke = now,
                                       !.RevokedFlag = late]
      BY <2>1, <2>7 DEF DeleteDMID
    <3>2. late \in BOOLEAN
      OBVIOUS
    <3> HIDE DEF late
    <3>3. /\ contract'.first_time_for_revoke = contract.first_time_for_revoke
          /\ contract'.second_time_for_revoke = now
          /\ contract'.RevokedFlag = late
      BY <3>1 DEF TypeOK, Storage
    <3>4. contract.first_time_for_revoke \in Nat
      BY DEF TypeOK, Storage
    <3>5. ClockInv'
      BY <2>1, <2>2, <2>7, <3>3 DEF ClockInv, NoUnderflow, TypeOK
    <3>6. CASE late
      <4>0. contract'.RevokedFlag
        BY <3>3, <3>6, Zenon
      <4>1. revokedAt' = now /\ requested' = contract.first_time_for_revoke
        BY <2>1, <2>7, <4>0 DEF ClockInv
      <4>2. now > contract.first_time_for_revoke + Lock_time
        BY <3>4, <3>6 DEF late, TypeOK
      <4> QED BY <2>5, <3>5, <4>1, <4>2 DEF LockRespected
    <3>7. CASE ~late
      BY <2>5, <3>3, <3>5, <3>7 DEF LockRespected
    <3> QED BY <3>6, <3>7
  <2>8. CASE index = 3
    <3>1. contract' = contract
      BY <2>1, <2>8 DEF DeleteDMID
    <3> QED BY <2>1, <2>2, <2>5, <2>8, <3>1
            DEF ClockInv, NoUnderflow, LockRespected
  <2> QED BY <2>1, <2>6, <2>7, <2>8
<1>5. CASE NewBlock
  <2>1. contract.first_time_for_revoke \in Nat /\ contract.second_time_for_revoke \in Nat
    BY DEF TypeOK, Storage
  <2> QED BY <1>5, <2>1
          DEF NewBlock, TypeOK, ClockInv, NoUnderflow, LockRespected
<1>6. CASE UNCHANGED vars
  BY <1>6 DEF vars, TypeOK, ClockInv, NoUnderflow, LockRespected
<1> QED BY <1>1, <1>2, <1>3, <1>4, <1>5, <1>6 DEF Next, Call

\* The inductive invariant holds in every reachable state.
LEMMA Invariants == Spec => []IInv
BY InitIInv, StepIInv, PTL DEF Spec

\* Types, and the counters of the fixed arrays within them, for every array
\* size.
THEOREM TypeCorrect == Spec => []TypeOK
BY Invariants, PTL DEF IInv

\* The subtraction of DeleteDMID never wraps, whatever the clock.
THEOREM Subtraction == Spec => []NoUnderflow
<1>1. IInv => NoUnderflow
  BY DEF IInv, ClockInv
<1> QED BY <1>1, Invariants, PTL

\* A requested revocation waits for the lock time, for every lock time.
THEOREM Lock == Spec => []LockRespected
<1>1. IInv => LockRespected
  BY DEF IInv
<1> QED BY <1>1, Invariants, PTL

\* A step taken from a revoked contract leaves the storage as it is.
LEMMA RevokedStep ==
  ASSUME [Next]_vars, contract.RevokedFlag
  PROVE  contract' = contract
<1>1. ASSUME NEW a \in Accounts PROVE ~Call(a)
  BY DEF Call, CallAddTrustList, CallAddVC, CallAddDMIDDocument,
         CallSetEmergencyContact, CallOwnerChange, CallDeleteDMID,
         MayAddTrustList, MayAddVC, OwnerMay, ContactMay
<1> QED BY <1>1 DEF Next, NewBlock, vars

\* Revocation is final: no account can change a revoked contract.
THEOREM Finality == Spec => RevocationFinal
<1>1. [Next]_vars => [contract.RevokedFlag => contract' = contract]_vars
  BY RevokedStep
<1> QED BY <1>1, PTL DEF Spec, RevocationFinal

\* What a call does to the two lists: one grows at its end, or both stay.
LEMMA ListsGrow ==
  ASSUME TypeOK, NEW a \in Accounts, Call(a)
  PROVE  /\ \/ contract'.trustList = contract.trustList
            \/ \E t \in Texts : contract'.trustList = Append(contract.trustList, t)
         /\ \/ contract'.vcHold = contract.vcHold
            \/ \E t \in Texts : contract'.vcHold = Append(contract.vcHold, t)
<1>1. CASE CallAddTrustList(a)
  BY <1>1 DEF CallAddTrustList, AddTrustList, TypeOK, Storage
<1>2. CASE CallAddVC(a)
  BY <1>2 DEF CallAddVC, AddVC, TypeOK, Storage
<1>3. CASE \/ CallAddDMIDDocument(a) \/ CallSetEmergencyContact(a)
           \/ CallOwnerChange(a)
  BY <1>3 DEF CallAddDMIDDocument, CallSetEmergencyContact, CallOwnerChange,
              AddDMIDDocument, SetEmergencyContact, OwnerChange, TypeOK, Storage
<1>4. CASE CallDeleteDMID(a)
  <2>1. PICK index \in {1, 2, 3} : contract' = DeleteDMID(contract, index, now)
    BY <1>4 DEF CallDeleteDMID
  <2> QED BY <2>1 DEF DeleteDMID, TypeOK, Storage
<1> QED BY <1>1, <1>2, <1>3, <1>4 DEF Call

\* A list that grows at its end keeps what it had.
LEMMA AppendKeeps ==
  ASSUME NEW s \in Seq(Texts), NEW r,
         r = s \/ \E t \in Texts : r = Append(s, t)
  PROVE  Len(s) <= Len(r) /\ \A i \in 1 .. Len(s) : r[i] = s[i]
<1>1. ASSUME NEW t \in Texts, r = Append(s, t)
      PROVE  Len(s) <= Len(r) /\ \A i \in 1 .. Len(s) : r[i] = s[i]
  BY <1>1
<1>2. CASE r = s
  BY <1>2
<1> QED BY <1>1, <1>2

\* An entry that was read stays where it was read, for every array size.
THEOREM Entries == Spec => EntriesStable
<1> DEFINE
      TrustStays == \A i \in 0 .. TrustCap :
        i < Len(contract.trustList) =>
          acquireTrustList(contract', i) = acquireTrustList(contract, i)
      VcStays == \A i \in 0 .. VcCap :
        i < Len(contract.vcHold) =>
          acquireVC(contract', i) = acquireVC(contract, i)
<1>1. TypeOK /\ [Next]_vars => [TrustStays /\ VcStays]_vars
  <2> SUFFICES ASSUME TypeOK, Next PROVE TrustStays /\ VcStays
    OBVIOUS
  <2>1. contract.trustList \in Seq(Texts) /\ contract.vcHold \in Seq(Texts)
    BY DEF TypeOK, Storage
  <2>2. CASE NewBlock
    BY <2>2 DEF NewBlock
  <2>3. ASSUME NEW a \in Accounts, Call(a) PROVE TrustStays /\ VcStays
    <3>1. /\ Len(contract.trustList) \in Nat /\ Len(contract'.trustList) \in Nat
          /\ Len(contract.trustList) <= Len(contract'.trustList)
          /\ \A i \in 1 .. Len(contract.trustList) :
               contract'.trustList[i] = contract.trustList[i]
      BY <2>1, <2>3, ListsGrow, AppendKeeps
    <3>2. /\ Len(contract.vcHold) \in Nat /\ Len(contract'.vcHold) \in Nat
          /\ Len(contract.vcHold) <= Len(contract'.vcHold)
          /\ \A i \in 1 .. Len(contract.vcHold) :
               contract'.vcHold[i] = contract.vcHold[i]
      BY SMTT(30), <2>1, <2>3, ListsGrow, AppendKeeps
    <3>3. TrustStays
      BY <3>1, NumberAssumption DEF acquireTrustList
    <3>4. VcStays
      BY <3>2, NumberAssumption DEF acquireVC
    <3> QED BY <3>3, <3>4
  <2> QED BY <2>2, <2>3 DEF Next
<1> QED BY <1>1, TypeCorrect, PTL DEF Spec, EntriesStable
=============================================================================
