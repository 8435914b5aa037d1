----------------------- MODULE CredentialRotation_proofs -----------------------
(***************************************************************************)
(* Proofs about CredentialRotation, for every set of keys and any number   *)
(* of crashes and failed calls, as long as no store update takes effect    *)
(* and reports failure while a key is cached (the case CredentialRotation's*)
(* own counterexample is about).                                           *)
(***************************************************************************)
EXTENDS CredentialRotation, TLAPS

\* The strengthened invariant holds initially.
LEMMA RotationInit == Init => RotationInv
<1> SUFFICES ASSUME Init PROVE RotationInv
  OBVIOUS
<1>1. TypeOK
  BY DEF Init, TypeOK, Slots
<1>2. stored \in Accepted
  BY DEF Init, Accepted, Slots
<1> QED
  BY <1>1, <1>2 DEF Init, RotationInv, StoredKeyOpens, CacheIsCurrent

\* What a credential read returns: the stored key, as long as the cache is current.
LEMMA GetReturnsStored ==
  ASSUME RotationInv, NEW k \in Keys, Get(k)
  PROVE  k = stored /\ cached' \in {None, stored}
  BY DEF RotationInv, CacheIsCurrent, Get, GetSecretValue

\* A key in one of the two slots is accepted; registering another key elsewhere keeps it.
LEMMA RegisterKeeps ==
  ASSUME TypeOK, NEW s \in Slots, NEW k \in Keys, slots' = [slots EXCEPT ![s] = k]
  PROVE  /\ k \in Accepted'
         /\ \A j \in Accepted : slots[s] # j => j \in Accepted'
<1>1. slots'[s] = k /\ \A t \in Slots : t # s => slots'[t] = slots[t]
  BY DEF TypeOK
<1> QED
  BY <1>1 DEF Accepted

\* Every step keeps the strengthened invariant, but for a write lost while a key is cached.
LEMMA RotationStep ==
  ASSUME RotationInv, [Next]_vars, lost' # lost => cached = None
  PROVE  RotationInv'
<1> USE DEF StoredKeyOpens, CacheIsCurrent, Return
<1>0. TypeOK /\ StoredKeyOpens /\ CacheIsCurrent /\ None \notin Keys
  BY RotationAssumption DEF RotationInv
<1>f. (NoFault \/ Fault) => faults' \in Nat
  BY <1>0 DEF NoFault, Fault, TypeOK
<1>1. CASE Call
  <2>1. TypeOK'
    BY <1>0, <1>1 DEF Call, TypeOK
  <2> QED
    BY <1>0, <1>1, <2>1 DEF Call, RotationInv, Accepted
<1>2. CASE ReadForDial
  <2>1. \A k \in Keys : Get(k) => k = stored /\ cached' \in {None, stored}
    BY GetReturnsStored
  <2>2. TypeOK'
    BY <1>0, <1>2, <1>f, <2>1 DEF ReadForDial, TypeOK
  <2> QED
    BY <1>0, <1>2, <2>1, <2>2 DEF ReadForDial, RotationInv, Accepted
<1>3. CASE Dial
  <2>1. TypeOK'
    BY <1>0, <1>3, <1>f DEF Dial, TypeOK
  <2> QED
    BY <1>0, <1>3, <2>1 DEF Dial, RotationInv, Accepted
<1>4. CASE CheckAge
  <2>1. \A k \in Keys : Get(k) => k = stored /\ cached' \in {None, stored}
    BY GetReturnsStored
  <2>2. TypeOK'
    BY <1>0, <1>4, <1>f, <2>1 DEF CheckAge, TypeOK
  <2> QED
    BY <1>0, <1>4, <2>1, <2>2 DEF CheckAge, RotationInv, Accepted
<1>5. CASE DescribeUser
  <2>1. TypeOK'
    BY <1>0, <1>5, <1>f DEF DescribeUser, TypeOK
  <2>2. pc' = "alter" => slots'[slot'] # stored' /\ held' = stored'
    BY <1>5 DEF DescribeUser, TargetSlot, RotationInv
  <2> QED
    BY <1>0, <1>5, <2>1, <2>2 DEF DescribeUser, RotationInv, Accepted
<1>6. CASE AlterUser
  <2>1. TypeOK'
    BY <1>0, <1>6, <1>f DEF AlterUser, NewCredentials, TypeOK
  <2>2. slot \in Slots /\ slots[slot] # stored /\ stored' = stored /\ cached' = cached /\ pc' \in {"update", "idle"} /\ lost' = lost
    BY <1>0, <1>6 DEF AlterUser, NewCredentials, RotationInv, TypeOK
  <2>3. ASSUME NEW k \in Keys \ minted, slots' = [slots EXCEPT ![slot] = k]
        PROVE  k \in Accepted' /\ stored \in Accepted'
    BY <1>0, <2>2, <2>3, RegisterKeeps
  <2>4. stored' \in Accepted' /\ (pc' = "update" => held' \in Accepted' \cap Keys)
    BY <1>0, <1>6, <2>2, <2>3 DEF AlterUser, NewCredentials, Accepted
  <2> QED
    BY <1>0, <2>1, <2>2, <2>4 DEF RotationInv
<1>7. CASE UpdateStored
  <2>1. held \in Accepted \cap Keys /\ Accepted' = Accepted
    BY <1>7 DEF UpdateStored, RotationInv, Accepted
  <2>2. pc' = "idle" /\ stored' \in {stored, held} /\ lost' \in Nat /\ faults' \in Nat
    BY <1>0, <1>7, <1>f DEF UpdateStored, Store, PutSecretValue, TypeOK
  <2>3. cached' \in {None, stored'}
    BY <1>0, <1>7 DEF UpdateStored, Store, PutSecretValue, TypeOK
  <2>4. TypeOK'
    BY <1>0, <1>7, <2>1, <2>2, <2>3 DEF UpdateStored, TypeOK
  <2> QED
    BY <1>0, <2>1, <2>2, <2>3, <2>4 DEF RotationInv
<1>8. CASE Age
  <2>1. TypeOK'
    BY <1>0, <1>8 DEF Age, TypeOK
  <2> QED
    BY <1>0, <1>8, <2>1 DEF Age, RotationInv, Accepted
<1>9. CASE Expire
  <2>1. TypeOK'
    BY <1>0, <1>9 DEF Expire, TypeOK
  <2> QED
    BY <1>0, <1>9, <2>1 DEF Expire, RotationInv, Accepted
<1>10. CASE Crash
  <2>1. TypeOK'
    BY <1>0, <1>10, <1>f DEF Crash, TypeOK
  <2> QED
    BY <1>0, <1>10, <2>1 DEF Crash, RotationInv, Accepted
<1>11. CASE UNCHANGED vars
  <2>1. TypeOK'
    BY <1>0, <1>11 DEF vars, TypeOK
  <2> QED
    BY <1>0, <1>11, <2>1 DEF vars, RotationInv, Accepted
<1> QED
  BY <1>1, <1>2, <1>3, <1>4, <1>5, <1>6, <1>7, <1>8, <1>9, <1>10, <1>11 DEF Next, Steps

\* What a step of the code does to slots and stored key is a step of the handover.
LEMMA HandoverStep ==
  ASSUME RotationInv, [Next]_vars
  PROVE  [Handover!Next]_<<slots, stored>>
<1>1. CASE AlterUser
  <2>1. slot \in Slots /\ slots[slot] # stored /\ stored' = stored
    BY <1>1 DEF AlterUser, NewCredentials, RotationInv, TypeOK
  <2>2. slots' = slots \/ \E k \in Keys : slots' = [slots EXCEPT ![slot] = k]
    BY <1>1 DEF AlterUser, NewCredentials
  <2> QED
    BY <2>1, <2>2 DEF Handover!Next, Handover!Register, Slots, Handover!Slots
<1>2. CASE UpdateStored
  <2>1. held \in Accepted \cap Keys /\ slots' = slots /\ stored' \in {stored, held}
    BY <1>2 DEF UpdateStored, Store, PutSecretValue, RotationInv
  <2> QED
    BY <2>1 DEF Handover!Next, Handover!Publish, Accepted, Handover!Accepted, Slots, Handover!Slots
<1>3. CASE slots' = slots /\ stored' = stored
  BY <1>3
<1> QED
  BY <1>1, <1>2, <1>3
     DEF Next, Steps, Call, ReadForDial, Dial, CheckAge, DescribeUser, Age, Expire, Crash, vars

-----------------------------------------------------------------------------
\* The strengthened invariant of a rotation, when updates may be lost only while no key
\* is cached: losing an answer does no harm by itself, serving the cached key after it does
\* (manager.go:85).
THEOREM RotationInvariantWhenLost ==
  Spec /\ [][lost' # lost => cached = None]_vars => []RotationInv
<1>1. Init => RotationInv
  BY RotationInit
<1>2. RotationInv /\ [Next]_vars /\ [lost' # lost => cached = None]_vars => RotationInv'
  BY RotationStep DEF vars
<1> QED
  BY <1>1, <1>2, PTL DEF Spec

\* The stored key is accepted, and the steps are the handover's, through any number of
\* crashed, failed and lost updates, as long as none is lost while a key is cached.
THEOREM SafeIfLostUncached ==
  Spec /\ [][lost' # lost => cached = None]_vars => []StoredKeyOpens /\ Implements
<1>1. Init => Handover!Init
  BY DEF Init, Handover!Init, Slots, Handover!Slots
<1>2. RotationInv /\ [Next]_vars => [Handover!Next]_<<slots, stored>>
  BY HandoverStep
<1>3. RotationInv => StoredKeyOpens
  BY DEF RotationInv
<1>4. Spec /\ [][lost' # lost => cached = None]_vars => Handover!Spec
  BY <1>1, <1>2, RotationInvariantWhenLost, PTL DEF Spec, Handover!Spec
<1>5. Spec /\ [][lost' # lost => cached = None]_vars => []StoredKeyOpens
  BY <1>3, RotationInvariantWhenLost, PTL
<1> QED
  BY <1>4, <1>5 DEF Implements

-----------------------------------------------------------------------------
\* Without a fault budget for them, no update is lost.
LEMMA NoneLost ==
  ASSUME MaxLost = 0, RotationInv, [Next]_vars
  PROVE  lost' = lost
<1>1. ~(lost < MaxLost)
  BY DEF RotationInv, TypeOK
<1> QED
  BY <1>1 DEF Next, Steps, Call, ReadForDial, Dial, CheckAge, DescribeUser, AlterUser,
              UpdateStored, Age, Expire, Crash, vars

\* The strengthened invariant of a rotation.
THEOREM RotationInvariant == ASSUME MaxLost = 0 PROVE Spec => []RotationInv
<1>1. Init => RotationInv
  BY RotationInit
<1>2. RotationInv /\ [Next]_vars => RotationInv'
  BY NoneLost, RotationStep
<1> QED
  BY <1>1, <1>2, PTL DEF Spec

\* The secret store always names a key Snowflake accepts.
THEOREM StoredKeyAlwaysOpens == ASSUME MaxLost = 0 PROVE Spec => []StoredKeyOpens
<1>1. RotationInv => StoredKeyOpens
  BY DEF RotationInv
<1> QED
  BY <1>1, RotationInvariant, PTL

\* KeyManager never serves a replaced key.
THEOREM CacheAlwaysCurrent == ASSUME MaxLost = 0 PROVE Spec => []CacheIsCurrent
<1>1. RotationInv => CacheIsCurrent
  BY DEF RotationInv
<1> QED
  BY <1>1, RotationInvariant, PTL

\* Every step of the code is a step of the handover, or changes neither the
\* user's slots nor the stored key.
THEOREM RotationImplements == ASSUME MaxLost = 0 PROVE Spec => Implements
<1>1. Init => Handover!Init
  BY DEF Init, Handover!Init, Slots, Handover!Slots
<1>2. RotationInv /\ [Next]_vars => [Handover!Next]_<<slots, stored>>
  BY HandoverStep
<1>3. Spec => Handover!Spec
  BY <1>1, <1>2, RotationInvariant, PTL DEF Spec, Handover!Spec
<1> QED
  BY <1>3 DEF Implements

-----------------------------------------------------------------------------
(* A slot for the next key.                                                *)

\* The user's slots hold keys generated so far, each in one slot only.
SlotsDiffer ==
    /\ \A s \in Slots : slots[s] \in minted \cup {None}
    /\ \A s, t \in Slots : (s # t /\ slots[s] = slots[t]) => slots[s] = None

\* The slots differ initially.
LEMMA SlotsDifferInit == Init => SlotsDiffer
  BY RotationAssumption DEF Init, SlotsDiffer, Slots

\* Only a key that was never generated before is registered.
LEMMA SlotsDifferStep ==
  ASSUME RotationInv, SlotsDiffer, [Next]_vars
  PROVE  SlotsDiffer'
<1>1. CASE UNCHANGED <<slots, minted>>
  BY <1>1 DEF SlotsDiffer
<1>2. CASE AlterUser /\ ~UNCHANGED <<slots, minted>>
  <2>1. PICK k \in Keys \ minted :
            minted' = minted \cup {k} /\ slots' = [slots EXCEPT ![slot] = k]
    BY <1>2 DEF AlterUser, NewCredentials
  <2>2. slot \in Slots /\ slots \in [Slots -> Keys \cup {None}] /\ None \notin Keys
    BY RotationAssumption DEF RotationInv, TypeOK
  <2>3. slots'[slot] = k /\ \A s \in Slots : s # slot => slots'[s] = slots[s]
    BY <2>1, <2>2
  <2>4. \A s \in Slots : slots[s] # k
    BY <2>1, <2>2 DEF SlotsDiffer
  <2>5. \A s \in Slots : slots'[s] \in minted' \cup {None}
    BY <2>1, <2>3 DEF SlotsDiffer
  <2>6. \A s, t \in Slots : (s # t /\ slots'[s] = slots'[t]) => slots'[s] = None
    BY <2>3, <2>4 DEF SlotsDiffer
  <2> QED
    BY <2>5, <2>6 DEF SlotsDiffer
<1>3. ~AlterUser => UNCHANGED <<slots, minted>>
  BY DEF Next, Steps, Call, ReadForDial, Dial, CheckAge, DescribeUser, UpdateStored,
         Age, Expire, Crash, vars
<1> QED
  BY <1>1, <1>2, <1>3

\* targetSlot never comes up empty: a rotation that has started finds the key it works with
\* in one slot and another slot to write, whatever failed rotations left behind
\* (rotate.go:94-138).  What DueIsRotated checks of the whole rotation under fairness rests
\* on this.
THEOREM SlotAlwaysFound ==
  Spec /\ [][lost' # lost => cached = None]_vars
     => [](pc = "describe" => \E s \in Slots : TargetSlot(held, s))
<1>1. RotationInv /\ SlotsDiffer => (pc = "describe" => \E s \in Slots : TargetSlot(held, s))
  <2> SUFFICES ASSUME RotationInv, SlotsDiffer, pc = "describe"
               PROVE  \E s \in Slots : TargetSlot(held, s)
    OBVIOUS
  <2>1. held = stored /\ stored \in Accepted /\ stored # None
    BY RotationAssumption DEF RotationInv, StoredKeyOpens, TypeOK
  <2>2. slots["RSA_PUBLIC_KEY"] # stored \/ slots["RSA_PUBLIC_KEY_2"] # stored
    BY <2>1 DEF SlotsDiffer, Slots
  <2> QED
    BY <2>1, <2>2 DEF TargetSlot, Slots
<1>2. RotationInv /\ SlotsDiffer /\ [Next]_vars => SlotsDiffer'
  BY SlotsDifferStep
<1> QED
  BY <1>1, <1>2, SlotsDifferInit, RotationInvariantWhenLost, PTL DEF Spec

-----------------------------------------------------------------------------
(* The login of the pooled connection.                                     *)

\* What is true of "a failure at any step leaves the credential db is already authenticated
\* with exactly as valid as before" (rotate.go): the key the pooled connection logged in
\* with stays accepted until the store names another, so that the first rotation of a
\* process's life, however it ends, does not touch it.  The next one may (see DueIsRotated).
THEOREM LoginKeptUntilReplaced ==
  Spec /\ [][lost' # lost => cached = None]_vars
     => [][(db = stored /\ db' = db) => db' \in Accepted']_vars
<1>1. RotationInv /\ RotationInv' /\ [Next]_vars => [(db = stored /\ db' = db) => db' \in Accepted']_vars
  <2> SUFFICES ASSUME RotationInv, RotationInv', [Next]_vars, db = stored, db' = db
               PROVE  db' \in Accepted'
    OBVIOUS
  <2>1. CASE stored' = stored
    BY <2>1 DEF RotationInv, StoredKeyOpens
  <2>2. CASE stored' # stored
    <3>1. slots' = slots
      BY <2>2 DEF Next, Steps, Call, ReadForDial, Dial, CheckAge, DescribeUser, AlterUser, UpdateStored,
                  Age, Expire, Crash, vars
    <3> QED
      BY <3>1 DEF RotationInv, StoredKeyOpens, Accepted
  <2> QED
    BY <2>1, <2>2
<1> QED
  BY <1>1, RotationInvariantWhenLost, PTL DEF Spec
=============================================================================
