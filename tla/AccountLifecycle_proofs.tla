----------------------- MODULE AccountLifecycle_proofs -----------------------
(***************************************************************************)
(* Proofs about AccountLifecycle, for every value of its constants: type   *)
(* correctness; that the platform always holds the key of every live       *)
(* account its resource created and of every account it has recorded; that *)
(* it destroys accounts by right only; and that what it records is its own.*)
(***************************************************************************)
EXTENDS AccountLifecycle, TLAPS

-----------------------------------------------------------------------------
(* The record values the steps build.                                      *)

\* The uid of the first incarnation is a uid.
LEMMA UidZero == 0 \in Uids
  BY ConstantsAssumption DEF Uids

\* A name without an object is a well-formed API-server entry.
LEMMA NoObjectType == ASSUME NEW u \in Uids PROVE NoObject(u) \in Object
  BY DEF NoObject, Object

\* The object of an idle pass is well formed.
LEMMA IdleObjectType == NoObject(0) \in Object
  BY UidZero, NoObjectType

\* A freshly created resource is well formed.
LEMMA NewObjectType ==
  ASSUME NEW o \in Object, o.uid < MaxIncarnations
  PROVE  [NoObject(o.uid + 1) EXCEPT !.phase = "live"] \in Object
<1>1. o.uid + 1 \in Uids
  BY ConstantsAssumption DEF Object, Uids
<1> QED
  BY <1>1 DEF NoObject, Object

\* The edits a pass makes of its copy keep it well formed.
LEMMA EditedObjectType ==
  ASSUME NEW o \in Object
  PROVE  /\ o.uid \in Uids
         /\ o.locator \in Locators \cup {None}
         /\ o.finalizer \in BOOLEAN
         /\ [o EXCEPT !.finalizer = TRUE, !.creating = TRUE] \in Object
         /\ [o EXCEPT !.creating = FALSE] \in Object
         /\ [o EXCEPT !.phase = "deleting"] \in Object
         /\ \A l \in Locators \cup {None} : [o EXCEPT !.locator = l] \in Object
  BY DEF Object

\* The absent secret is well formed.
LEMMA NoSecretType == NoSecret \in SecretType
  BY DEF NoSecret, SecretType

\* Every field of a secret has the type of that field.
LEMMA SecretFieldTypes ==
  ASSUME NEW s \in SecretType
  PROVE  /\ s.key \in Keys \cup {None}
         /\ [s EXCEPT !.state = "pending"] \in SecretType
         /\ \A b \in BOOLEAN : [s EXCEPT !.predates = b] \in SecretType
         /\ \A k \in Keys : [state |-> "live", key |-> k, predates |-> FALSE] \in SecretType
  BY DEF SecretType

\* Every field of an account has the type of that field.
LEMMA AccountFieldTypes ==
  ASSUME NEW a \in AccountType, NEW k \in Keys \cup {None}, NEW u \in Uids
  PROVE  /\ [a EXCEPT !.state = "dropped"] \in AccountType
         /\ [state |-> "live", key |-> k, uid |-> u] \in AccountType
         /\ [state |-> "unused", key |-> k, uid |-> u] \in AccountType
  BY DEF AccountType

-----------------------------------------------------------------------------
(* Type correctness.  Each building block of the steps keeps its part.     *)

\* A pass that ends keeps its types.
LEMMA EndPassType == EndPass => PassTypeOK'
  BY IdleObjectType DEF EndPass, PassTypeOK, Stages

\* A pass that moves to another stage keeps its types.
LEMMA GoToType == ASSUME PassTypeOK PROVE \A s \in Stages : GoTo(s) => PassTypeOK'
  BY DEF GoTo, PassTypeOK

\* A pass that goes on with a key in hand keeps its types.
LEMMA GoHoldingType ==
  ASSUME PassTypeOK
  PROVE  \A s \in Stages, k \in Keys \cup {None} : GoHolding(s, k) => PassTypeOK'
  BY DEF GoHolding, PassTypeOK

\* A pass that finishes keeps its types.
LEMMA FinishType == PassTypeOK /\ Finish => PassTypeOK'
  BY EndPassType, GoToType DEF Finish, Stages

\* What KeyManager hands out is a secret, and so is what it keeps.
LEMMA HeldType ==
  ASSUME secret \in SecretType, cached \in SecretType
  PROVE  /\ Held \in SecretType
         /\ Remember => cached' \in SecretType
         /\ Connect => cached' \in SecretType
         /\ Forget => cached' \in SecretType
  BY NoSecretType DEF Held, Remember, Connect, Forget

\* A secret that ages stays one.
LEMMA AgesType ==
  ASSUME NEW s \in SecretType
  PROVE  \A b \in BOOLEAN : Ages(s, b) \in SecretType
  BY DEF Ages, SecretType

\* A pass that records a locator in its copy keeps its types.
LEMMA GoRecordingType ==
  ASSUME PassTypeOK
  PROVE  \A s \in Stages, l \in Locators \cup {None} : GoRecording(s, l) => PassTypeOK'
  BY EditedObjectType DEF GoRecording, PassTypeOK

\* The end of a creation keeps the types of the pass.
LEMMA FinishCreateType ==
  ASSUME PassTypeOK
  PROVE  \A l \in Listed : FinishCreate(l) => PassTypeOK' /\ inGrace' \in BOOLEAN
<1>1. \A l \in Locators : GoRecording("persist", l) => PassTypeOK'
  BY GoRecordingType DEF Stages
<1> QED
  BY <1>1 DEF FinishCreate, Listed, LiveAccounts

\* A pass overtaken by another write keeps its types.
LEMMA OvertakeType == PassTypeOK /\ Overtake => PassTypeOK'
  BY DEF Overtake, PassTypeOK

\* The fault counter stays a number.
LEMMA FaultsType == faults \in Nat /\ (NoFault \/ Fault) => faults' \in Nat
  BY DEF NoFault, Fault

\* Writing the resource keeps the types of the API server.
LEMMA WriteObjectType ==
  ASSUME ServerTypeOK
  PROVE  \A o \in Object : WriteObject(o) => ServerTypeOK'
  BY DEF WriteObject, ServerTypeOK

\* A step that writes no resource keeps the types of the API server.
LEMMA ServerUnchangedType == ServerTypeOK /\ UNCHANGED server => ServerTypeOK'
  BY DEF ServerTypeOK, server

\* A step outside the pass keeps the types of the pass.
LEMMA PassUnchangedType == PassTypeOK /\ UNCHANGED pass => PassTypeOK'
  BY DEF PassTypeOK, pass

\* The types hold initially.
LEMMA TypeInit == Init => TypeOK
<1> SUFFICES ASSUME Init PROVE TypeOK
  OBVIOUS
<1>1. accounts \in [Locators -> AccountType]
  <2>1. \A l \in Locators :
           [state |-> IF l \in Foreign THEN "live" ELSE "unused", key |-> None, uid |-> 0] \in AccountType
    BY UidZero DEF AccountType
  <2> QED
    BY <2>1 DEF Init
<1>2. PassTypeOK /\ ServerTypeOK
  BY IdleObjectType DEF Init, PassTypeOK, ServerTypeOK, Stages
<1>3. permits \in [Permits -> {"none", "Active", "Expired", "Consumed"}]
  BY DEF Init
<1> QED
  BY <1>1, <1>2, <1>3, NoSecretType DEF Init, TypeOK

\* Every step keeps the types.
LEMMA TypeStep == TypeOK /\ [Next]_vars => TypeOK'
<1> SUFFICES ASSUME TypeOK, [Next]_vars PROVE TypeOK'
  OBVIOUS
<1> USE EndPassType, GoToType, FaultsType, ServerUnchangedType, PassUnchangedType
        DEF TypeOK, Stages, world, process
<1>1. CASE ReadObject
  <2>1. PassTypeOK'
    BY <1>1 DEF ReadObject, PassTypeOK, ServerTypeOK
  <2> QED
    BY <1>1, <2>1 DEF ReadObject
<1>2. CASE Observe
  <2>1. PassTypeOK' /\ faults' \in Nat
    BY <1>2 DEF Observe, ObserveDeleting, ObserveLive
  <2>2. cached' \in SecretType
    BY <1>2, HeldType DEF Observe, ObserveLive
  <2> QED
    BY <1>2, <2>1, <2>2 DEF Observe
<1>3. CASE Claim
  <2>1. CASE ClaimOK
    <3>1. [cr EXCEPT !.finalizer = TRUE, !.creating = TRUE] \in Object
      BY EditedObjectType DEF ServerTypeOK
    <3>2. ServerTypeOK' /\ PassTypeOK'
      BY <2>1, <3>1, WriteObjectType DEF ClaimOK, PassTypeOK, ServerTypeOK
    <3> QED
      BY <1>3, <2>1, <3>2 DEF Claim, ClaimOK
  <2> QED
    BY <1>3, <2>1 DEF Claim, NoFault, server
<1>4. CASE Apply
  <2>1. PassTypeOK' /\ faults' \in Nat
    BY <1>4, FinishType DEF Apply
  <2>2. cached' \in SecretType
    BY <1>4, HeldType DEF Apply
  <2> QED
    BY <1>4, <2>1, <2>2 DEF Apply
<1>5. CASE CreateCredentials
  <2>1. PassTypeOK' /\ faults' \in Nat
    BY <1>5, GoHoldingType DEF CreateCredentials, NoFault
  <2>2. secret' \in SecretType /\ minted' \subseteq Keys /\ cached' \in SecretType
    BY <1>5, SecretFieldTypes, HeldType DEF CreateCredentials, StoreKey
  <2> QED
    BY <1>5, <2>1, <2>2 DEF CreateCredentials
<1>6. CASE ReadBack
  <2>1. PassTypeOK' /\ faults' \in Nat
    BY <1>6, GoHoldingType, HeldType, SecretFieldTypes DEF ReadBack
  <2>2. cached' \in SecretType
    BY <1>6, HeldType DEF ReadBack
  <2> QED
    BY <1>6, <2>1, <2>2 DEF ReadBack
<1>7. CASE LookUp
  <2>1. PassTypeOK' /\ faults' \in Nat /\ inGrace' \in BOOLEAN
    BY <1>7, FinishCreateType DEF LookUp, NoFault
  <2> QED
    BY <1>7, <2>1 DEF LookUp
<1>8. CASE ExecCreateAccount
  <2>1. PassTypeOK' /\ faults' \in Nat
    BY <1>8 DEF ExecCreateAccount, NoFault
  <2>2. accounts' \in [Locators -> AccountType]
    <3>1. [state |-> "live", key |-> key, uid |-> obj.uid] \in AccountType
      <4>1. obj.uid \in Uids /\ key \in Keys \cup {None}
        BY EditedObjectType DEF PassTypeOK
      <4> QED
        BY <4>1 DEF AccountType
    <3> QED
      BY <1>8, <3>1 DEF ExecCreateAccount, NewAccount
  <2> QED
    BY <1>8, <2>1, <2>2 DEF ExecCreateAccount
<1>9. CASE LocateCreated
  <2>1. PassTypeOK' /\ faults' \in Nat /\ inGrace' \in BOOLEAN
    BY <1>9, FinishCreateType DEF LocateCreated
  <2> QED
    BY <1>9, <2>1 DEF LocateCreated
<1>10. CASE Persist
  <2>1. ServerTypeOK' /\ faults' \in Nat
    BY <1>10, WriteObjectType DEF Persist, PassTypeOK, NoFault
  <2> QED
    BY <1>10, <2>1, FinishType DEF Persist
<1>11. CASE Gate
  <2>1. PassTypeOK' /\ faults' \in Nat
    BY <1>11 DEF Gate, ActivePermits, PassTypeOK
  <2> QED
    BY <1>11, <2>1 DEF Gate
<1>12. CASE DropAccount
  <2>1. DropByName => accounts' \in [Locators -> AccountType]
    <3>1. \A l \in Locators : [accounts[l] EXCEPT !.state = "dropped"] \in AccountType /\ accounts[l] \in AccountType
      BY AccountFieldTypes, UidZero
    <3> QED
      BY <3>1 DEF DropByName
  <2>2. PassTypeOK' /\ faults' \in Nat
    BY <1>12, GoRecordingType DEF DropAccount
  <2> QED
    BY <1>12, <2>1, <2>2 DEF DropAccount
<1>13. CASE DeleteCredential
  <2>1. PassTypeOK' /\ faults' \in Nat
    BY <1>13 DEF DeleteCredential
  <2>2. secret' \in SecretType /\ cached' \in SecretType
    BY <1>13, SecretFieldTypes, HeldType DEF DeleteCredential, ScheduleRemoval
  <2> QED
    BY <1>13, <2>1, <2>2 DEF DeleteCredential
<1>14. CASE MarkConsumed
  <2>1. PassTypeOK' /\ faults' \in Nat
    BY <1>14 DEF MarkConsumed, NoFault
  <2>2. permits' \in [Permits -> {"none", "Active", "Expired", "Consumed"}]
    BY <1>14 DEF MarkConsumed, Consume
  <2> QED
    BY <1>14, <2>1, <2>2 DEF MarkConsumed
<1>15. CASE Settle
  <2>1. ServerTypeOK' /\ faults' \in Nat
    BY <1>15, WriteObjectType DEF Settle, PassTypeOK, NoFault
  <2> QED
    BY <1>15, <2>1 DEF Settle
<1>16. CASE Release
  <2>1. NoObject(cr.uid) \in Object
    BY EditedObjectType, NoObjectType DEF ServerTypeOK
  <2>2. ServerTypeOK' /\ faults' \in Nat
    BY <1>16, <2>1, WriteObjectType DEF Release, NoFault
  <2> QED
    BY <1>16, <2>2 DEF Release
<1>17. CASE Crash
  BY <1>17, HeldType DEF Crash
<1>18. CASE UserCreate
  <2>1. ServerTypeOK' /\ PassTypeOK'
    BY <1>18, NewObjectType, WriteObjectType, OvertakeType DEF UserCreate, ServerTypeOK
  <2>2. secret' \in SecretType /\ cached' \in SecretType
    BY <1>18, AgesType DEF UserCreate
  <2> QED
    BY <1>18, <2>1, <2>2 DEF UserCreate
<1>19. CASE UserDelete
  <2>1. NoObject(cr.uid) \in Object /\ [cr EXCEPT !.phase = "deleting"] \in Object
    BY EditedObjectType, NoObjectType DEF ServerTypeOK
  <2>2. ServerTypeOK' /\ PassTypeOK'
    BY <1>19, <2>1, WriteObjectType, OvertakeType DEF UserDelete
  <2> QED
    BY <1>19, <2>2 DEF UserDelete
<1>20. CASE UserEdit
  <2>1. ServerTypeOK' /\ PassTypeOK'
    BY <1>20, WriteObjectType, OvertakeType DEF UserEdit, ServerTypeOK
  <2> QED
    BY <1>20, <2>1 DEF UserEdit
<1>21. CASE CacheSync
  <2>1. ServerTypeOK'
    BY <1>21 DEF CacheSync, ServerTypeOK
  <2> QED
    BY <1>21, <2>1 DEF CacheSync
<1>22. CASE GraceElapses
  BY <1>22 DEF GraceElapses
<1>23. CASE PurgeSecret
  BY <1>23, NoSecretType DEF PurgeSecret
<1>24. CASE OperatorCleanup
  <2>1. \A l \in Locators : [accounts[l] EXCEPT !.state = "dropped"] \in AccountType /\ accounts[l] \in AccountType
    BY AccountFieldTypes, UidZero
  <2>2. accounts' \in [Locators -> AccountType]
    BY <1>24, <2>1 DEF OperatorCleanup
  <2> QED
    BY <1>24, <2>2, NoSecretType DEF OperatorCleanup
<1>25. ASSUME NEW p \in Permits, IssuePermit(p) \/ ExpirePermit(p) PROVE TypeOK'
  BY <1>25 DEF IssuePermit, ExpirePermit
<1>26. CASE Conclude
  <2>1. [cr EXCEPT !.creating = FALSE] \in Object
    BY EditedObjectType DEF ServerTypeOK
  <2>2. ServerTypeOK' /\ faults' \in Nat
    BY <1>26, <2>1, WriteObjectType DEF Conclude, NoFault
  <2> QED
    BY <1>26, <2>2 DEF Conclude
<1>27. CASE OperatorResumes
  <2>1. [cr EXCEPT !.creating = FALSE] \in Object
    BY EditedObjectType DEF ServerTypeOK
  <2>2. ServerTypeOK'
    BY <1>27, <2>1, WriteObjectType DEF OperatorResumes
  <2> QED
    BY <1>27, <2>2 DEF OperatorResumes
<1>28. CASE ExpireCached
  BY <1>28, HeldType DEF ExpireCached
<1>29. CASE UNCHANGED vars
  BY <1>29 DEF vars, PassTypeOK, ServerTypeOK
<1> QED
  BY <1>1, <1>2, <1>3, <1>4, <1>5, <1>6, <1>7, <1>8, <1>9, <1>10, <1>11, <1>12, <1>13, <1>14,
     <1>15, <1>16, <1>17, <1>18, <1>19, <1>20, <1>21, <1>22, <1>23, <1>24, <1>25, <1>26,
     <1>27, <1>28, <1>29
     DEF Next, Controller, Environment

\* Every variable keeps its type.
THEOREM TypeCorrect == Spec => []TypeOK
  BY TypeInit, TypeStep, PTL DEF Spec

-----------------------------------------------------------------------------
(* The strengthened invariant.  Fields of the records the steps build.     *)

\* What an edit of a resource changes and what it leaves, field by field.
LEMMA EditedObjectFields ==
  ASSUME NEW o \in Object
  PROVE  /\ [o EXCEPT !.finalizer = TRUE, !.creating = TRUE].phase = o.phase
         /\ [o EXCEPT !.finalizer = TRUE, !.creating = TRUE].uid = o.uid
         /\ [o EXCEPT !.finalizer = TRUE, !.creating = TRUE].locator = o.locator
         /\ [o EXCEPT !.finalizer = TRUE, !.creating = TRUE].finalizer = TRUE
         /\ [o EXCEPT !.creating = FALSE].phase = o.phase
         /\ [o EXCEPT !.creating = FALSE].uid = o.uid
         /\ [o EXCEPT !.creating = FALSE].locator = o.locator
         /\ [o EXCEPT !.creating = FALSE].finalizer = o.finalizer
         /\ [o EXCEPT !.phase = "deleting"].phase = "deleting"
         /\ [o EXCEPT !.phase = "deleting"].uid = o.uid
         /\ [o EXCEPT !.phase = "deleting"].locator = o.locator
         /\ [o EXCEPT !.phase = "deleting"].finalizer = o.finalizer
         /\ \A l : /\ [o EXCEPT !.locator = l].phase = o.phase
                   /\ [o EXCEPT !.locator = l].uid = o.uid
                   /\ [o EXCEPT !.locator = l].locator = l
                   /\ [o EXCEPT !.locator = l].finalizer = o.finalizer
  BY DEF Object

\* Dropping an account leaves its key and its uid.
LEMMA EditedAccountFields ==
  ASSUME NEW a \in AccountType
  PROVE  /\ [a EXCEPT !.state = "dropped"].state = "dropped"
         /\ [a EXCEPT !.state = "dropped"].key = a.key
         /\ [a EXCEPT !.state = "dropped"].uid = a.uid
  BY DEF AccountType

\* A pass that finishes ends, or keeps everything it holds until it has concluded.
LEMMA FinishSteps ==
  Finish => EndPass \/ (pc' = "conclude" /\ UNCHANGED <<obj, fresh, key, permit>>)
  BY DEF Finish, GoTo

\* Recording a locator changes the locator of the copy only.
LEMMA GoRecordingFields ==
  ASSUME obj \in Object
  PROVE  \A s, l : GoRecording(s, l) =>
            /\ pc' = s /\ obj'.phase = obj.phase /\ obj'.uid = obj.uid
            /\ obj'.finalizer = obj.finalizer /\ obj'.locator = l
            /\ fresh' = fresh /\ key' = key
  BY EditedObjectFields DEF GoRecording

\* The fields of a resource that does not exist.
LEMMA NoObjectFields ==
  ASSUME NEW u
  PROVE  /\ NoObject(u).phase = "absent"
         /\ NoObject(u).uid = u
         /\ NoObject(u).locator = None
         /\ NoObject(u).finalizer = FALSE
         /\ [NoObject(u) EXCEPT !.phase = "live"].phase = "live"
         /\ [NoObject(u) EXCEPT !.phase = "live"].uid = u
         /\ [NoObject(u) EXCEPT !.phase = "live"].locator = None
         /\ [NoObject(u) EXCEPT !.phase = "live"].finalizer = FALSE
  BY DEF NoObject

\* The uids of the three copies are numbers.
LEMMA UidsAreNaturals ==
  ASSUME TypeOK
  PROVE  cr.uid \in Nat /\ cache.uid \in Nat /\ obj.uid \in Nat
<1>1. \A o \in Object : o.uid \in Uids
  BY EditedObjectType
<1>2. \A u \in Uids : u \in Nat
  BY ConstantsAssumption DEF Uids
<1>3. cr \in Object /\ cache \in Object /\ obj \in Object
  BY DEF TypeOK, PassTypeOK, ServerTypeOK
<1> QED
  BY <1>1, <1>2, <1>3

-----------------------------------------------------------------------------
(* Who created the accounts that exist.                                    *)

\* Initially no account has a creator.
LEMMA CreatorInit == Init => OneAccountPerIncarnation /\ CreatorInv
<1> SUFFICES ASSUME Init PROVE OneAccountPerIncarnation /\ CreatorInv
  OBVIOUS
<1>1. cr.uid = 0 /\ pc = "idle" /\ \A l \in Locators : accounts[l].uid = 0
  BY DEF Init, NoObject
<1>2. \A l \in Locators : accounts[l].uid <= cr.uid
  BY <1>1
<1> QED
  BY <1>1, <1>2 DEF OneAccountPerIncarnation, CreatorInv, Creating, At

\* The facts about types the steps below use.
LEMMA CreatorTypes ==
  ASSUME TypeOK
  PROVE  /\ cr \in Object /\ cache \in Object /\ obj \in Object
         /\ cr.uid \in Nat /\ cache.uid \in Nat /\ obj.uid \in Nat
         /\ \A l \in Locators : accounts[l] \in AccountType /\ accounts[l].uid \in Nat
<1>1. \A a \in AccountType : a.uid \in Nat
  BY ConstantsAssumption DEF AccountType, Uids
<1>2. \A l \in Locators : accounts[l] \in AccountType
  BY DEF TypeOK
<1> QED
  BY <1>1, <1>2, UidsAreNaturals DEF TypeOK, PassTypeOK, ServerTypeOK

\* A step that touches neither the resource nor the accounts, makes no secret older
\* and starts no creation leaves what is said of the creators.
LEMMA CreatorKept ==
  ASSUME LifecycleInv, UNCHANGED <<server, accounts>>,
         secret'.predates => secret.predates,
         \/ EndPass
         \/ /\ pc' # "idle" => pc # "idle"
            /\ obj'.phase = obj.phase /\ obj'.uid = obj.uid
            /\ Creating' => Creating
            /\ pc' \in {"claim", "apply", "persist"} => obj.phase = "live"
  PROVE  OneAccountPerIncarnation' /\ CreatorInv'
<1>1. OneAccountPerIncarnation'
  BY DEF LifecycleInv, OneAccountPerIncarnation
<1>2. CASE EndPass
  <2>1. pc' = "idle" /\ obj'.phase = "absent"
    BY <1>2 DEF EndPass, NoObject
  <2>2. cr' = cr /\ cache' = cache
    BY DEF server
  <2> QED
    BY <1>1, <2>1, <2>2 DEF LifecycleInv, CreatorInv, Creating, At
<1>3. CASE ~EndPass
  BY <1>1, <1>3 DEF LifecycleInv, CreatorInv, Creating, At, server
<1> QED
  BY <1>2, <1>3

\* A pass that ends, with or without a write of the resource that keeps its incarnation
\* and does not bring it back to life, leaves what is said of the creators.
LEMMA CreatorEnd ==
  ASSUME LifecycleInv, EndPass, UNCHANGED <<secret, accounts, cache>>,
         cr'.uid = cr.uid, cr'.phase = "live" => cr.phase = "live"
  PROVE  OneAccountPerIncarnation' /\ CreatorInv'
<1>1. pc' = "idle" /\ obj'.phase = "absent"
  BY DEF EndPass, NoObject
<1> QED
  BY <1>1 DEF LifecycleInv, OneAccountPerIncarnation, CreatorInv, Creating, At

\* A pass that has yet to conclude keeps it too.
LEMMA CreatorConcludes ==
  ASSUME LifecycleInv, ~At("idle"), pc' = "conclude", obj' = obj, UNCHANGED <<secret, accounts, cache>>,
         cr'.uid = cr.uid, cr'.phase = cr.phase
  PROVE  OneAccountPerIncarnation' /\ CreatorInv'
  BY DEF LifecycleInv, OneAccountPerIncarnation, CreatorInv, Creating, At

\* Every step keeps what is said of the creators.
LEMMA CreatorStep ==
  ASSUME LifecycleInv, Next
  PROVE  OneAccountPerIncarnation' /\ CreatorInv'
<1> USE DEF LifecycleInv, world, process
<1>0. /\ cr \in Object /\ cache \in Object /\ obj \in Object
      /\ cr.uid \in Nat /\ cache.uid \in Nat /\ obj.uid \in Nat
      /\ \A l \in Locators : accounts[l] \in AccountType /\ accounts[l].uid \in Nat
  BY CreatorTypes
<1>1. CASE ReadObject
  BY <1>1, <1>0 DEF ReadObject, server, OneAccountPerIncarnation, CreatorInv, Creating, At
<1>2. CASE Observe
  BY <1>2, CreatorKept DEF Observe, ObserveDeleting, ObserveLive, GoTo, Exists, Creating, At
<1>3. CASE Claim
  <2>1. CASE ClaimOK
    <3>0. /\ cr'.phase = cr.phase /\ cr'.uid = cr.uid
          /\ obj' = cr' /\ fresh /\ cache' = cache /\ pc' = "apply"
          /\ pc = "claim" /\ UNCHANGED <<secret, accounts>>
      BY <1>3, <2>1, <1>0, EditedObjectFields DEF Claim, ClaimOK, WriteObject, At
    <3>1. obj.uid = cr.uid /\ obj.phase = cr.phase
      BY <3>0 DEF CopiesInv
    <3> QED
      BY <1>0, <3>0, <3>1 DEF OneAccountPerIncarnation, CreatorInv, Creating, At
  <2> QED
    BY <1>3, <2>1, CreatorKept DEF Claim
<1>4. CASE Apply
  <2>1. CASE Finish
    <3>1. pc = "apply" /\ UNCHANGED <<server, accounts, secret>>
      BY <1>4 DEF Apply, At
    <3> QED
      BY <2>1, <3>1, FinishSteps, CreatorKept DEF Creating
  <2>2. CASE ~Finish
    BY <1>4, <2>2, CreatorKept DEF Apply, GoTo, CreatorInv, Creating, At
  <2> QED
    BY <2>1, <2>2
<1>5. CASE CreateCredentials
  <2>1. secret'.predates => secret.predates
    BY <1>5 DEF CreateCredentials, StoreKey
  <2> QED
    BY <1>5, <2>1, CreatorKept DEF CreateCredentials, GoTo, GoHolding, CreatorInv, Creating, At
<1>6. CASE ReadBack
  BY <1>6, CreatorKept DEF ReadBack, GoTo, GoHolding, CreatorInv, Creating, At
<1>7. CASE LookUp
  <2>1. obj'.phase = obj.phase /\ obj'.uid = obj.uid /\ pc' \in {"persist", "exec"}
    BY <1>7, <1>0, GoRecordingFields DEF LookUp, FinishCreate, Listed, GoTo
  <2> QED
    BY <1>7, <2>1, CreatorKept DEF LookUp, CreatorInv, Creating, At
<1>8. CASE ExecCreateAccount
  <2>1. obj' = obj /\ pc = "exec" /\ pc' \in {"locate", "persist"} /\ UNCHANGED <<server, secret>>
    BY <1>8 DEF ExecCreateAccount, GoTo, At
  <2>2. CASE UNCHANGED accounts
    BY <2>1, <2>2, CreatorKept DEF CreatorInv, Creating
  <2>3. ASSUME NEW l \in Locators, NewAccount(l)
        PROVE  OneAccountPerIncarnation' /\ CreatorInv'
    <3>1. obj.phase = "live" /\ obj.uid = cr.uid /\ cache.uid = cr.uid /\ ~secret.predates
      BY <1>0, <2>1 DEF CreatorInv, CopiesInv, StageInv, Creating
    <3>2. /\ accounts'[l].state = "live" /\ accounts'[l].uid = cr.uid
          /\ \A m \in Locators \ {l} : accounts'[m] = accounts[m]
      BY <2>3, <3>1 DEF NewAccount, TypeOK
    <3>3. \A m \in Locators \ {l} :
             (accounts[m].state # "unused" /\ accounts[m].uid = cr.uid) => cr.uid = 0
      <4>1. \A m \in Locators : accounts[m].state \in {"unused", "dropped"}
        BY <1>0, <2>3 DEF NewAccount, LiveAccounts, AccountType
      <4> QED
        BY <3>1, <4>1 DEF CreatorInv
    <3>4. OneAccountPerIncarnation'
      BY <3>2, <3>3 DEF OneAccountPerIncarnation
    <3>5. \A m \in Locators : accounts'[m].uid <= cr.uid
      BY <1>0, <3>2 DEF CreatorInv
    <3>6. cr' = cr /\ cache' = cache /\ secret' = secret
      BY <2>1 DEF server
    <3> QED
      BY <2>1, <3>1, <3>2, <3>3, <3>4, <3>5, <3>6 DEF CreatorInv, Creating, At
  <2> QED
    BY <1>8, <2>2, <2>3 DEF ExecCreateAccount
<1>9. CASE LocateCreated
  <2>1. obj'.phase = obj.phase /\ obj'.uid = obj.uid /\ pc' = "persist"
    BY <1>9, <1>0, GoRecordingFields DEF LocateCreated, FinishCreate, GoTo
  <2> QED
    BY <1>9, <2>1, CreatorKept DEF LocateCreated, CreatorInv, Creating, At
<1>10. CASE Persist
  <2>1. cr'.uid = cr.uid /\ cr'.phase = cr.phase /\ cache' = cache /\ ~At("idle")
    BY <1>10 DEF Persist, WriteObject, server, CopiesInv, At
  <2> QED
    BY <1>10, <2>1, FinishSteps, CreatorEnd, CreatorConcludes DEF Persist
<1>11. CASE Gate
  BY <1>11, CreatorKept DEF Gate, GoTo, Creating, At
<1>12. CASE DropAccount
  <2>1. /\ obj'.phase = obj.phase /\ obj'.uid = obj.uid /\ pc = "drop" /\ pc' \in {"delcred", "settle"}
        /\ UNCHANGED <<server, secret>>
    BY <1>12, <1>0, GoRecordingFields DEF DropAccount, GoTo, At
  <2>2. CASE UNCHANGED accounts
    BY <2>1, <2>2, CreatorKept DEF Creating
  <2>3. CASE DropByName
    <3>1. \A l \in Locators : /\ accounts'[l].uid = accounts[l].uid
                              /\ accounts'[l].state # "live"
                              /\ accounts'[l].state # "unused" => accounts[l].state # "unused"
      BY <1>0, <2>3, EditedAccountFields DEF DropByName, LiveAccounts
    <3>2. obj.phase = "deleting"
      BY <2>1 DEF StageInv, Deleting
    <3>3. \A l \in Locators : (accounts[l].state # "unused" /\ accounts[l].uid = cr.uid /\ cr.uid # 0) =>
             "live" \notin {cr.phase, cache.phase, obj.phase}
      BY <2>1, <3>2 DEF CreatorInv, CopiesInv, At
    <3>4. cr' = cr /\ cache' = cache /\ secret' = secret
      BY <2>1 DEF server
    <3>5. OneAccountPerIncarnation'
      BY <3>1 DEF OneAccountPerIncarnation
    <3> QED
      BY <2>1, <3>1, <3>2, <3>3, <3>4, <3>5 DEF CreatorInv, Creating, At
  <2> QED
    BY <1>12, <2>2, <2>3 DEF DropAccount
<1>13. CASE DeleteCredential
  <2>1. secret'.predates => secret.predates
    BY <1>13 DEF DeleteCredential, ScheduleRemoval, TypeOK, SecretType
  <2> QED
    BY <1>13, <2>1, CreatorKept DEF DeleteCredential, GoTo, Creating, At
<1>14. CASE MarkConsumed
  BY <1>14, CreatorKept DEF MarkConsumed, GoTo, Creating, At
<1>15. CASE Settle
  <2>1. cr'.uid = cr.uid /\ cr'.phase = cr.phase /\ cache' = cache
    BY <1>15 DEF Settle, WriteObject, server, CopiesInv
  <2> QED
    BY <1>15, <2>1, CreatorEnd DEF Settle
<1>16. CASE Release
  <2>1. cr'.uid = cr.uid /\ (cr'.phase = "live" => cr.phase = "live") /\ cache' = cache
    BY <1>16, NoObjectFields DEF Release, WriteObject, server
  <2> QED
    BY <1>16, <2>1, CreatorEnd DEF Release
<1>17. CASE Crash
  BY <1>17, CreatorKept DEF Crash
<1>18. CASE UserCreate
  <2>1. /\ cr'.uid = cr.uid + 1 /\ cache' = cache /\ accounts' = accounts /\ pc' = pc /\ obj' = obj
        /\ cr.phase = "absent"
    BY <1>18, NoObjectFields DEF UserCreate, WriteObject, Overtake
  <2>2. ~Creating
    BY <2>1 DEF StageInv
  <2>3. OneAccountPerIncarnation'
    BY <2>1 DEF OneAccountPerIncarnation
  <2>4. \A l \in Locators : accounts'[l].uid <= cr'.uid /\ accounts'[l].uid # cr'.uid
    BY <1>0, <2>1 DEF CreatorInv
  <2>5. ~Creating'
    BY <2>1, <2>2 DEF Creating
  <2> QED
    BY <2>1, <2>3, <2>4, <2>5 DEF CreatorInv, At
<1>19. CASE UserDelete
  <2>1. /\ cr'.uid = cr.uid /\ cr'.phase # "live" /\ cache' = cache /\ pc' = pc /\ obj' = obj
        /\ UNCHANGED <<secret, accounts>>
    BY <1>19, <1>0, EditedObjectFields, NoObjectFields DEF UserDelete, WriteObject, Overtake
  <2> QED
    BY <2>1 DEF OneAccountPerIncarnation, CreatorInv, Creating, At
<1>20. CASE UserEdit
  BY <1>20 DEF UserEdit, WriteObject, Overtake, OneAccountPerIncarnation, CreatorInv, Creating, At
<1>21. CASE CacheSync
  BY <1>21, <1>0 DEF CacheSync, pass, CopiesInv, OneAccountPerIncarnation, CreatorInv, Creating, At
<1>22. CASE GraceElapses
  BY <1>22 DEF GraceElapses, pass, server, OneAccountPerIncarnation, CreatorInv, Creating, At
<1>23. CASE PurgeSecret
  <2>1. secret'.predates = FALSE
    BY <1>23 DEF PurgeSecret, NoSecret
  <2> QED
    BY <1>23, <2>1 DEF PurgeSecret, pass, server, OneAccountPerIncarnation, CreatorInv, Creating, At
<1>24. CASE OperatorCleanup
  <2>1. /\ secret.predates /\ secret'.predates = FALSE /\ cr' = cr /\ cache' = cache /\ pc' = pc /\ obj' = obj
    BY <1>24 DEF OperatorCleanup, NoSecret, server, pass
  <2>2. \A l \in Locators :
           /\ accounts'[l].uid = accounts[l].uid
           /\ accounts'[l].state # "unused" => accounts[l].state # "unused"
           /\ accounts'[l].state = "dropped" => accounts[l].state \in {"live", "dropped"}
    BY <1>24, <1>0, EditedAccountFields DEF OperatorCleanup, LiveAccounts
  <2>3. OneAccountPerIncarnation'
    BY <2>2 DEF OneAccountPerIncarnation
  <2>4. \A l \in Locators : (accounts[l].uid = cr.uid /\ cr.uid # 0) => accounts[l].state # "live"
    BY <2>1 DEF CreatorInv
  <2> QED
    BY <2>1, <2>2, <2>3, <2>4 DEF CreatorInv, Creating, At
<1>25. ASSUME NEW p \in Permits, IssuePermit(p) \/ ExpirePermit(p)
       PROVE  OneAccountPerIncarnation' /\ CreatorInv'
  BY <1>25 DEF IssuePermit, ExpirePermit, pass, server, OneAccountPerIncarnation, CreatorInv, Creating, At
<1>26. CASE Conclude
  <2>1. cr'.uid = cr.uid /\ cr'.phase = cr.phase /\ cache' = cache
    <3>1. CASE UNCHANGED server
      BY <3>1 DEF server
    <3>2. CASE WriteObject([cr EXCEPT !.creating = FALSE])
      BY <1>0, <3>2, EditedObjectFields DEF WriteObject
    <3> QED
      BY <1>26, <3>1, <3>2 DEF Conclude
  <2> QED
    BY <1>26, <2>1, CreatorEnd DEF Conclude
<1>27. CASE OperatorResumes
  <2>1. cr'.uid = cr.uid /\ cr'.phase = cr.phase /\ cache' = cache /\ pc' = pc /\ obj' = obj
    BY <1>27, <1>0, EditedObjectFields DEF OperatorResumes, WriteObject, pass
  <2> QED
    BY <1>27, <2>1 DEF OperatorResumes, OneAccountPerIncarnation, CreatorInv, Creating, At
<1>28. CASE ExpireCached
  BY <1>28 DEF ExpireCached, pass, server, OneAccountPerIncarnation, CreatorInv, Creating, At
<1> QED
  BY <1>1, <1>2, <1>3, <1>4, <1>5, <1>6, <1>7, <1>8, <1>9, <1>10, <1>11, <1>12, <1>13, <1>14,
     <1>15, <1>16, <1>17, <1>18, <1>19, <1>20, <1>21, <1>22, <1>23, <1>24, <1>25, <1>26,
     <1>27, <1>28
     DEF Next, Controller, Environment

-----------------------------------------------------------------------------
(* The strengthened invariant as a whole.                                  *)

\* The strengthened invariant holds initially.
LEMMA InvInit == Init => LifecycleInv
<1> SUFFICES ASSUME Init PROVE LifecycleInv
  OBVIOUS
<1>1. cr = NoObject(0) /\ cache = NoObject(0) /\ obj = NoObject(0) /\ pc = "idle" /\ fresh = FALSE
  BY DEF Init
<1>2. LiveAccountOpens
  BY DEF Init, LiveAccountOpens, LiveAccounts
<1>3. CopiesInv
  <2>1. cr.uid = 0 /\ cache.uid = 0 /\ obj.uid = 0 /\ cache.phase = "absent"
    BY <1>1 DEF NoObject
  <2> QED
    BY <1>1, <2>1 DEF CopiesInv, At
<1>4. RecordedInv
  <2>1. cr.locator = None /\ cache.locator = None /\ obj.locator = None /\ cr.phase = "absent"
    BY <1>1 DEF NoObject
  <2>2. \A l \in Locators : l \in Foreign => accounts[l].state # "unused"
    BY DEF Init
  <2> QED
    BY <1>1, <2>1, <2>2, ConstantsAssumption DEF RecordedInv, At
<1>5. StageInv
  BY <1>1 DEF StageInv, At, Creating, Deleting
<1>6. CachedInv
  BY DEF Init, CachedInv, NoSecret
<1>7. TrackedInv /\ GatedInv
  BY DEF Init, TrackedInv, GatedInv, NoObject
<1> QED
  BY <1>2, <1>3, <1>4, <1>5, <1>6, <1>7, TypeInit, CreatorInit DEF LifecycleInv

\* A step that ends the pass and leaves everything else alone, or only moves
\* the pass's knowledge of the resource, keeps what is said of the copies.
LEMMA InvEndPass ==
  ASSUME LifecycleInv, EndPass, UNCHANGED <<server, secret, accounts>>
  PROVE  LiveAccountOpens' /\ CopiesInv' /\ RecordedInv' /\ StageInv'
<1> USE DEF LifecycleInv, EndPass, server
<1>1. LiveAccountOpens'
  BY DEF LiveAccountOpens, Opens, LiveAccounts
<1>2. CopiesInv'
  <2>1. obj'.uid = 0
    BY DEF NoObject
  <2> QED
    BY <2>1, UidsAreNaturals DEF CopiesInv, At
<1>3. RecordedInv'
  <2>1. obj'.locator = None /\ None \notin Locators
    BY ConstantsAssumption DEF NoObject
  <2> QED
    BY <2>1 DEF RecordedInv, At, LiveAccounts
<1>4. StageInv'
  BY DEF StageInv, At, Creating, Deleting
<1> QED
  BY <1>1, <1>2, <1>3, <1>4

\* Every step keeps the strengthened invariant.
LEMMA InvStep ==
  ASSUME LifecycleInv, Next
  PROVE  LiveAccountOpens' /\ CopiesInv' /\ RecordedInv' /\ StageInv'
<1> USE DEF LifecycleInv, world, process
<1>0. TypeOK /\ PassTypeOK /\ ServerTypeOK /\ cr \in Object /\ cache \in Object /\ obj \in Object
      /\ cr.uid \in Nat /\ cache.uid \in Nat /\ obj.uid \in Nat /\ None \notin Locators
      /\ {cr.locator, cache.locator, obj.locator} \subseteq Locators \cup {None}
      /\ NoObject(0).uid = 0 /\ NoObject(0).phase = "absent" /\ NoObject(0).locator = None
  BY UidsAreNaturals, ConstantsAssumption, EditedObjectType DEF TypeOK, PassTypeOK, ServerTypeOK, NoObject
<1>1. CASE ReadObject
  <2>1. LiveAccountOpens'
    BY <1>1, <1>0 DEF ReadObject, server, LiveAccountOpens, Opens, LiveAccounts
  <2>2. CopiesInv'
    BY <1>1, <1>0 DEF ReadObject, server, CopiesInv, At
  <2>3. RecordedInv'
    BY <1>1, <1>0 DEF ReadObject, server, CopiesInv, RecordedInv, At, LiveAccounts
  <2>4. StageInv'
    BY <1>1, <1>0 DEF ReadObject, server, StageInv, At, Creating, Deleting, LiveAccounts
  <2> QED
    BY <2>1, <2>2, <2>3, <2>4
<1>2. CASE Observe
  <2>1. LiveAccountOpens'
    BY <1>2, <1>0 DEF Observe, ObserveDeleting, ObserveLive, GoTo, EndPass, Exists, server, LiveAccountOpens, Opens, LiveAccounts
  <2>2. CopiesInv'
    BY <1>2, <1>0 DEF Observe, ObserveDeleting, ObserveLive, GoTo, EndPass, Exists, server, CopiesInv, At
  <2>3. RecordedInv'
    BY <1>2, <1>0 DEF Observe, ObserveDeleting, ObserveLive, GoTo, EndPass, Exists, server, RecordedInv, At, LiveAccounts
  <2>4. StageInv'
    BY <1>2, <1>0 DEF Observe, ObserveDeleting, ObserveLive, GoTo, EndPass, Exists, server, StageInv, At, Creating, Deleting, LiveAccounts
  <2> QED
    BY <2>1, <2>2, <2>3, <2>4
<1>3. CASE Claim
  <2>1. CASE ClaimOK
    <3>0. /\ cr'.phase = cr.phase /\ cr'.uid = cr.uid /\ cr'.locator = cr.locator /\ cr'.finalizer = TRUE
          /\ obj' = cr' /\ fresh /\ fresh' = fresh /\ cache' = cache /\ cacheFresh' = FALSE /\ pc' = "apply"
          /\ pc = "claim" /\ UNCHANGED <<secret, accounts>>
      BY <1>3, <2>1, <1>0, EditedObjectFields DEF Claim, ClaimOK, WriteObject, At
    <3>1. cr.phase # "absent" /\ obj.uid = cr.uid
      BY <3>0 DEF StageInv, CopiesInv, At
    <3>2. LiveAccountOpens'
      BY <3>0 DEF LiveAccountOpens, Opens, LiveAccounts
    <3>3. CopiesInv'
      BY <1>0, <3>0, <3>1 DEF CopiesInv, At
    <3>4. RecordedInv'
      BY <1>0, <3>0, <3>1 DEF RecordedInv, At, LiveAccounts
    <3>5. StageInv'
      BY <1>0, <3>0, <3>1 DEF StageInv, At, Creating, Deleting, LiveAccounts
    <3> QED
      BY <3>2, <3>3, <3>4, <3>5
  <2> QED
    BY <1>3, <2>1, InvEndPass DEF Claim
<1>4. CASE Apply
  <2>1. LiveAccountOpens'
    BY <1>4, <1>0 DEF Apply, GoTo, Finish, EndPass, server, LiveAccountOpens, Opens, LiveAccounts
  <2>2. CopiesInv'
    BY <1>4, <1>0 DEF Apply, GoTo, Finish, EndPass, server, CopiesInv, At
  <2>3. RecordedInv'
    BY <1>4, <1>0 DEF Apply, GoTo, Finish, EndPass, server, CopiesInv, RecordedInv, At, LiveAccounts
  <2>4. StageInv'
    BY <1>4, <1>0 DEF Apply, GoTo, Finish, EndPass, server, CopiesInv, RecordedInv, StageInv, At, Creating, Deleting, LiveAccounts
  <2> QED
    BY <2>1, <2>2, <2>3, <2>4
<1>5. CASE CreateCredentials
  <2>1. LiveAccountOpens'
    BY <1>5, <1>0 DEF CreateCredentials, StoreKey, Vacant, GoTo, GoHolding, server, LiveAccountOpens, Opens, LiveAccounts
  <2>2. CopiesInv'
    BY <1>5, <1>0 DEF CreateCredentials, StoreKey, Vacant, GoTo, GoHolding, server, CopiesInv, At
  <2>3. RecordedInv'
    BY <1>5, <1>0 DEF CreateCredentials, StoreKey, Vacant, GoTo, GoHolding, server, StageInv, Creating, RecordedInv, At, LiveAccounts
  <2>4. StageInv'
    BY <1>5, <1>0 DEF CreateCredentials, StoreKey, Vacant, GoTo, GoHolding, server, StageInv, At, Creating, Deleting, LiveAccounts
  <2> QED
    BY <2>1, <2>2, <2>3, <2>4
<1>6. CASE ReadBack
  <2>1. LiveAccountOpens'
    BY <1>6, <1>0 DEF ReadBack, Resumable, GoTo, GoHolding, server, LiveAccountOpens, Opens, LiveAccounts
  <2>2. CopiesInv'
    BY <1>6, <1>0 DEF ReadBack, Resumable, GoTo, GoHolding, server, CopiesInv, At
  <2>3. RecordedInv'
    BY <1>6, <1>0 DEF ReadBack, Resumable, GoTo, GoHolding, server, StageInv, Creating, RecordedInv, At, LiveAccounts
  <2>4. StageInv'
    <3>0. ~Withdrawn
      BY <1>6 DEF ReadBack, At, CreatorInv, Creating, Withdrawn
    <3>1. Resumable => secret.state = "live" /\ ~secret.predates /\ Held.key = secret.key
      BY <3>0 DEF Resumable, Held, CachedInv
    <3> QED
      BY <1>6, <1>0, <3>1 DEF ReadBack, GoTo, GoHolding, server, StageInv, At, Creating, Deleting, LiveAccounts
  <2> QED
    BY <2>1, <2>2, <2>3, <2>4
<1>7. CASE LookUp
  <2>0. /\ obj'.phase = obj.phase /\ obj'.uid = obj.uid /\ obj'.finalizer = obj.finalizer
        /\ fresh' = fresh /\ key' = key /\ pc' \in {"persist", "exec"}
        /\ obj'.locator = obj.locator \/ (pc' = "persist" /\ obj'.locator \in LiveAccounts)
        /\ pc' = "exec" => obj'.locator = obj.locator
    BY <1>7, <1>0, GoRecordingFields DEF LookUp, FinishCreate, Listed, GoTo
  <2>1. LiveAccountOpens'
    BY <1>7, <1>0, <2>0 DEF LookUp, server, LiveAccountOpens, Opens, LiveAccounts
  <2>2. CopiesInv'
    BY <1>7, <1>0, <2>0 DEF LookUp, server, CopiesInv, At
  <2>3. RecordedInv'
    BY <1>7, <1>0, <2>0 DEF LookUp, server, StageInv, Creating, RecordedInv, At, LiveAccounts
  <2>4. StageInv'
    BY <1>7, <1>0, <2>0 DEF LookUp, server, StageInv, At, Creating, Deleting, LiveAccounts
  <2> QED
    BY <2>1, <2>2, <2>3, <2>4
<1>8. CASE ExecCreateAccount
  <2>1. LiveAccountOpens'
    <3>1. secret' = secret /\ secret.state = "live" /\ secret.key = key
      BY <1>8 DEF ExecCreateAccount, StageInv, At
    <3>2. UNCHANGED accounts => LiveAccountOpens'
      BY <3>1 DEF LiveAccountOpens, Opens, LiveAccounts
    <3>3. ASSUME NEW l \in Locators, NewAccount(l) PROVE LiveAccountOpens'
      <4>1. \A m \in LiveAccounts' : m = l
        BY <1>0, <3>3 DEF NewAccount, LiveAccounts, TypeOK
      <4>2. accounts'[l].key = key
        BY <1>0, <3>3 DEF NewAccount, TypeOK
      <4> QED
        BY <3>1, <4>1, <4>2 DEF LiveAccountOpens, Opens
    <3> QED
      BY <1>8, <3>2, <3>3 DEF ExecCreateAccount
  <2>2. CopiesInv'
    BY <1>8, <1>0 DEF ExecCreateAccount, NewAccount, GoTo, server, CopiesInv, At
  <2>3. RecordedInv'
    <3>1. \A m \in Locators : accounts[m].state # "unused" => accounts'[m].state # "unused"
      BY <1>8, <1>0 DEF ExecCreateAccount, NewAccount, TypeOK
    <3>2. cr' = cr /\ cache' = cache /\ obj' = obj /\ fresh' = fresh /\ secret' = secret /\ pc' \in {"locate", "persist"}
      BY <1>8 DEF ExecCreateAccount, GoTo, server
    <3>3. obj.locator = None /\ cr.locator = None
      BY <1>8 DEF ExecCreateAccount, StageInv, At, Creating
    <3>4. pc # "idle"
      BY <1>8 DEF ExecCreateAccount, At
    <3> QED
      BY <1>0, <3>1, <3>2, <3>3, <3>4 DEF RecordedInv, At
  <2>4. StageInv'
    BY <1>8, <1>0 DEF ExecCreateAccount, NewAccount, GoTo, server, StageInv, At, Creating, Deleting, LiveAccounts
  <2> QED
    BY <2>1, <2>2, <2>3, <2>4
<1>9. CASE LocateCreated
  <2>0. /\ obj'.phase = obj.phase /\ obj'.uid = obj.uid /\ obj'.finalizer = obj.finalizer
        /\ fresh' = fresh /\ key' = key /\ pc' \in {"persist", "exec"}
        /\ obj'.locator = obj.locator \/ (pc' = "persist" /\ obj'.locator \in LiveAccounts)
        /\ pc' = "exec" => obj'.locator = obj.locator
    BY <1>9, <1>0, GoRecordingFields DEF LocateCreated, FinishCreate, Listed, GoTo
  <2>1. LiveAccountOpens'
    BY <1>9, <1>0, <2>0 DEF LocateCreated, server, LiveAccountOpens, Opens, LiveAccounts
  <2>2. CopiesInv'
    BY <1>9, <1>0, <2>0 DEF LocateCreated, server, CopiesInv, At
  <2>3. RecordedInv'
    BY <1>9, <1>0, <2>0 DEF LocateCreated, server, StageInv, Creating, RecordedInv, At, LiveAccounts
  <2>4. StageInv'
    BY <1>9, <1>0, <2>0 DEF LocateCreated, server, StageInv, At, Creating, Deleting, LiveAccounts
  <2> QED
    BY <2>1, <2>2, <2>3, <2>4
<1>10. CASE Persist
  <2>1. LiveAccountOpens'
    BY <1>10, <1>0 DEF Persist, WriteObject, Finish, GoTo, EndPass, server, LiveAccountOpens, Opens, LiveAccounts
  <2>2. CopiesInv'
    BY <1>10, <1>0 DEF Persist, WriteObject, Finish, GoTo, EndPass, server, CopiesInv, At
  <2>3. RecordedInv'
    BY <1>10, <1>0 DEF Persist, WriteObject, Finish, GoTo, EndPass, server, CopiesInv, StageInv, RecordedInv, At, LiveAccounts
  <2>4. StageInv'
    BY <1>10, <1>0 DEF Persist, WriteObject, Finish, GoTo, EndPass, server, StageInv, At, Creating, Deleting, LiveAccounts
  <2> QED
    BY <2>1, <2>2, <2>3, <2>4
<1>11. CASE Gate
  <2>1. LiveAccountOpens'
    BY <1>11, <1>0 DEF Gate, GoTo, server, LiveAccountOpens, Opens, LiveAccounts
  <2>2. CopiesInv'
    BY <1>11, <1>0 DEF Gate, GoTo, server, CopiesInv, At
  <2>3. RecordedInv'
    BY <1>11, <1>0 DEF Gate, GoTo, server, CopiesInv, RecordedInv, At, LiveAccounts
  <2>4. StageInv'
    BY <1>11, <1>0 DEF Gate, GoTo, server, StageInv, At, Creating, Deleting, LiveAccounts
  <2> QED
    BY <2>1, <2>2, <2>3, <2>4
<1>12. CASE DropAccount
  <2>0. /\ obj'.phase = obj.phase /\ obj'.uid = obj.uid /\ obj'.finalizer = obj.finalizer
        /\ fresh' = fresh /\ pc' \in {"delcred", "settle"}
        /\ pc' = "delcred" => LiveAccounts' = {}
        /\ \A l \in LiveAccounts' : l \in LiveAccounts /\ accounts'[l] = accounts[l]
        /\ LiveAccounts' # {} => LiveAccounts' = LiveAccounts
        /\ \A l \in Locators : accounts[l].state # "unused" => accounts'[l].state # "unused"
        /\ \/ obj'.locator = obj.locator
           \/ obj'.locator = None /\ \A l \in Locators : accounts[l].state # "unused" => accounts'[l].state = "dropped"
        /\ pc' = "delcred" => obj'.locator = None
    <3>1. DropByName => /\ LiveAccounts' = {}
                        /\ \A l \in Locators : accounts[l].state # "unused" => accounts'[l].state = "dropped"
      BY <1>0, EditedAccountFields DEF DropByName, LiveAccounts, TypeOK, AccountType
    <3>2. UNCHANGED accounts => LiveAccounts' = LiveAccounts
      BY DEF LiveAccounts
    <3>3. accounts' = accounts \/ DropByName
      BY <1>12 DEF DropAccount
    <3>4. /\ pc' = "delcred" => DropByName
          /\ obj'.locator = obj.locator \/ (DropByName /\ pc' = "delcred" /\ obj'.locator = None)
          /\ pc' = "delcred" => obj'.locator = None
      BY <1>12, <1>0, GoRecordingFields DEF DropAccount, GoTo
    <3>5. /\ obj'.phase = obj.phase /\ obj'.uid = obj.uid /\ obj'.finalizer = obj.finalizer
          /\ fresh' = fresh /\ pc' \in {"delcred", "settle"}
      BY <1>12, <1>0, GoRecordingFields DEF DropAccount, GoTo
    <3> QED
      BY <3>1, <3>2, <3>3, <3>4, <3>5
  <2>1. LiveAccountOpens'
    BY <1>12, <1>0, <2>0 DEF DropAccount, server, LiveAccountOpens, Opens, LiveAccounts
  <2>2. CopiesInv'
    BY <1>12, <1>0, <2>0 DEF DropAccount, server, CopiesInv, At
  <2>3. RecordedInv'
    BY <1>12, <1>0, <2>0 DEF DropAccount, server, CopiesInv, StageInv, Deleting, RecordedInv, At, LiveAccounts
  <2>4. StageInv'
    BY <1>12, <1>0, <2>0 DEF DropAccount, server, StageInv, At, Creating, Deleting, LiveAccounts
  <2> QED
    BY <2>1, <2>2, <2>3, <2>4
<1>13. CASE DeleteCredential
  <2>1. LiveAccountOpens'
    BY <1>13, <1>0 DEF DeleteCredential, ScheduleRemoval, GoTo, server, StageInv, At, LiveAccountOpens, Opens, LiveAccounts
  <2>2. CopiesInv'
    BY <1>13, <1>0 DEF DeleteCredential, ScheduleRemoval, GoTo, server, CopiesInv, At
  <2>3. RecordedInv'
    BY <1>13, <1>0 DEF DeleteCredential, ScheduleRemoval, GoTo, server, StageInv, RecordedInv, At, LiveAccounts
  <2>4. StageInv'
    BY <1>13, <1>0 DEF DeleteCredential, ScheduleRemoval, GoTo, server, TypeOK, SecretType, StageInv, At, Creating, Deleting, LiveAccounts
  <2> QED
    BY <2>1, <2>2, <2>3, <2>4
<1>14. CASE MarkConsumed
  <2>1. LiveAccountOpens'
    BY <1>14, <1>0 DEF MarkConsumed, GoTo, server, LiveAccountOpens, Opens, LiveAccounts
  <2>2. CopiesInv'
    BY <1>14, <1>0 DEF MarkConsumed, GoTo, server, CopiesInv, At
  <2>3. RecordedInv'
    BY <1>14, <1>0 DEF MarkConsumed, GoTo, server, RecordedInv, At, LiveAccounts
  <2>4. StageInv'
    BY <1>14, <1>0 DEF MarkConsumed, GoTo, server, StageInv, At, Creating, Deleting, LiveAccounts
  <2> QED
    BY <2>1, <2>2, <2>3, <2>4
<1>15. CASE Settle
  <2>1. LiveAccountOpens'
    BY <1>15, <1>0 DEF Settle, WriteObject, EndPass, server, LiveAccountOpens, Opens, LiveAccounts
  <2>2. CopiesInv'
    BY <1>15, <1>0 DEF Settle, WriteObject, EndPass, server, CopiesInv, At
  <2>3. RecordedInv'
    BY <1>15, <1>0 DEF Settle, WriteObject, EndPass, server, CopiesInv, StageInv, Deleting, RecordedInv, At, LiveAccounts
  <2>4. StageInv'
    BY <1>15, <1>0 DEF Settle, WriteObject, EndPass, server, StageInv, At, Creating, Deleting, LiveAccounts
  <2> QED
    BY <2>1, <2>2, <2>3, <2>4
<1>16. CASE Release
  <2>0. /\ pc' = "idle" /\ obj'.uid = 0 /\ obj'.locator = None /\ fresh' = FALSE /\ cache' = cache /\ UNCHANGED <<secret, accounts>>
        /\ \/ cr' = cr /\ cacheFresh' = cacheFresh
           \/ /\ cr'.phase = "absent" /\ cr'.uid = cr.uid /\ cr'.locator = None
              /\ cr'.finalizer = FALSE /\ cacheFresh' = FALSE
    <3>1. /\ NoObject(cr.uid).phase = "absent" /\ NoObject(cr.uid).uid = cr.uid
          /\ NoObject(cr.uid).locator = None /\ NoObject(cr.uid).finalizer = FALSE
      BY DEF NoObject
    <3>2. /\ pc' = "idle" /\ obj'.uid = 0 /\ obj'.locator = None /\ fresh' = FALSE /\ UNCHANGED <<secret, accounts>>
          /\ WriteObject(NoObject(cr.uid)) \/ UNCHANGED server
      BY <1>16, <1>0 DEF Release, EndPass
    <3> QED
      BY <3>1, <3>2 DEF WriteObject, server
  <2>1. LiveAccountOpens'
    BY <1>16, <1>0, <2>0 DEF server, LiveAccountOpens, Opens, LiveAccounts
  <2>2. CopiesInv'
    BY <1>16, <1>0, <2>0 DEF server, CopiesInv, At
  <2>3. RecordedInv'
    BY <1>16, <1>0, <2>0 DEF server, RecordedInv, At, LiveAccounts
  <2>4. StageInv'
    BY <1>16, <1>0, <2>0 DEF server, StageInv, At, Creating, Deleting, LiveAccounts
  <2> QED
    BY <2>1, <2>2, <2>3, <2>4
<1>17. CASE Crash
  <2>1. LiveAccountOpens'
    BY <1>17, <1>0 DEF Crash, EndPass, server, LiveAccountOpens, Opens, LiveAccounts
  <2>2. CopiesInv'
    BY <1>17, <1>0 DEF Crash, EndPass, server, CopiesInv, At
  <2>3. RecordedInv'
    BY <1>17, <1>0 DEF Crash, EndPass, server, RecordedInv, At, LiveAccounts
  <2>4. StageInv'
    BY <1>17, <1>0 DEF Crash, EndPass, server, StageInv, At, Creating, Deleting, LiveAccounts
  <2> QED
    BY <2>1, <2>2, <2>3, <2>4
<1>18. CASE UserCreate
  <2>0. /\ cr'.phase = "live" /\ cr'.uid = cr.uid + 1 /\ cr'.locator = None /\ cr'.finalizer = FALSE
        /\ cr.phase = "absent" /\ cacheFresh' = FALSE /\ cache' = cache /\ accounts' = accounts
        /\ secret'.state = secret.state /\ secret'.key = secret.key
        /\ fresh' = FALSE /\ pc' = pc /\ obj' = obj /\ key' = key
    <3> DEFINE o == [NoObject(cr.uid + 1) EXCEPT !.phase = "live"]
    <3>1. o.phase = "live" /\ o.uid = cr.uid + 1 /\ o.locator = None /\ o.finalizer = FALSE
      BY DEF NoObject
    <3>2. secret'.state = secret.state /\ secret'.key = secret.key
      BY <1>18, <1>0 DEF UserCreate, Ages, TypeOK, SecretType
    <3>3. cr' = o /\ cr.phase = "absent" /\ cacheFresh' = FALSE /\ cache' = cache /\ accounts' = accounts
      BY <1>18 DEF UserCreate, WriteObject
    <3>4. fresh' = FALSE /\ pc' = pc /\ obj' = obj /\ key' = key
      BY <1>18 DEF UserCreate, Overtake
    <3> HIDE DEF o
    <3> QED
      BY <3>1, <3>2, <3>3, <3>4
  <2>1. LiveAccountOpens'
    BY <1>18, <1>0, <2>0 DEF Overtake, LiveAccountOpens, Opens, LiveAccounts
  <2>2. CopiesInv'
    BY <1>18, <1>0, <2>0 DEF Overtake, CopiesInv, At
  <2>3. RecordedInv'
    BY <1>18, <1>0, <2>0 DEF Overtake, RecordedInv, At, LiveAccounts
  <2>4. StageInv'
    BY <1>18, <1>0, <2>0 DEF Overtake, StageInv, At, Creating, Deleting, LiveAccounts
  <2> QED
    BY <2>1, <2>2, <2>3, <2>4
<1>19. CASE UserDelete
  <2>0. /\ cr'.phase = (IF cr.finalizer THEN "deleting" ELSE "absent")
        /\ cr'.uid = cr.uid /\ cr'.finalizer = cr.finalizer /\ cr.phase = "live"
        /\ cr'.locator = (IF cr.finalizer THEN cr.locator ELSE None)
        /\ cacheFresh' = FALSE /\ cache' = cache /\ UNCHANGED <<secret, accounts>>
        /\ fresh' = FALSE /\ pc' = pc /\ obj' = obj /\ key' = key
    <3>1. cr.finalizer \in BOOLEAN
      BY <1>0, EditedObjectType
    <3>2. CASE cr.finalizer
      <4>1. /\ cr' = [cr EXCEPT !.phase = "deleting"] /\ cr.phase = "live"
            /\ cacheFresh' = FALSE /\ cache' = cache
        BY <1>19, <3>2 DEF UserDelete, WriteObject
      <4>2. UNCHANGED <<secret, accounts>> /\ fresh' = FALSE /\ pc' = pc /\ obj' = obj /\ key' = key
        BY <1>19 DEF UserDelete, Overtake, world
      <4>3. /\ cr'.phase = "deleting" /\ cr'.uid = cr.uid
            /\ cr'.finalizer = cr.finalizer /\ cr'.locator = cr.locator
        BY <1>0, <4>1, EditedObjectFields
      <4> QED
        BY <3>2, <4>1, <4>2, <4>3
    <3>3. CASE ~cr.finalizer
      <4>1. /\ cr' = NoObject(cr.uid) /\ cr.phase = "live"
            /\ cacheFresh' = FALSE /\ cache' = cache
        BY <1>19, <3>3 DEF UserDelete, WriteObject
      <4>2. UNCHANGED <<secret, accounts>> /\ fresh' = FALSE /\ pc' = pc /\ obj' = obj /\ key' = key
        BY <1>19 DEF UserDelete, Overtake, world
      <4>3. cr'.phase = "absent" /\ cr'.uid = cr.uid /\ cr'.finalizer = FALSE /\ cr'.locator = None
        BY <4>1 DEF NoObject
      <4> QED
        BY <3>1, <3>3, <4>1, <4>2, <4>3
    <3> QED
      BY <3>1, <3>2, <3>3
  <2>1. LiveAccountOpens'
    BY <1>19, <1>0, <2>0 DEF Overtake, LiveAccountOpens, Opens, LiveAccounts
  <2>2. CopiesInv'
    BY <1>19, <1>0, <2>0 DEF Overtake, CopiesInv, At
  <2>3. RecordedInv'
    BY <1>19, <1>0, <2>0 DEF Overtake, RecordedInv, At, LiveAccounts
  <2>4. StageInv'
    BY <1>19, <1>0, <2>0 DEF Overtake, StageInv, At, Creating, Deleting, LiveAccounts
  <2> QED
    BY <2>1, <2>2, <2>3, <2>4
<1>20. CASE UserEdit
  <2>1. LiveAccountOpens'
    BY <1>20, <1>0 DEF UserEdit, WriteObject, Overtake, LiveAccountOpens, Opens, LiveAccounts
  <2>2. CopiesInv'
    BY <1>20, <1>0 DEF UserEdit, WriteObject, Overtake, CopiesInv, At
  <2>3. RecordedInv'
    BY <1>20, <1>0 DEF UserEdit, WriteObject, Overtake, RecordedInv, At, LiveAccounts
  <2>4. StageInv'
    BY <1>20, <1>0 DEF UserEdit, WriteObject, Overtake, StageInv, At, Creating, Deleting, LiveAccounts
  <2> QED
    BY <2>1, <2>2, <2>3, <2>4
<1>21. CASE CacheSync
  <2>1. LiveAccountOpens'
    BY <1>21, <1>0 DEF CacheSync, pass, LiveAccountOpens, Opens, LiveAccounts
  <2>2. CopiesInv'
    BY <1>21, <1>0 DEF CacheSync, pass, CopiesInv, At
  <2>3. RecordedInv'
    BY <1>21, <1>0 DEF CacheSync, pass, CopiesInv, RecordedInv, At, LiveAccounts
  <2>4. StageInv'
    BY <1>21, <1>0 DEF CacheSync, pass, StageInv, At, Creating, Deleting, LiveAccounts
  <2> QED
    BY <2>1, <2>2, <2>3, <2>4
<1>22. CASE GraceElapses
  <2>1. LiveAccountOpens'
    BY <1>22, <1>0 DEF GraceElapses, pass, server, LiveAccountOpens, Opens, LiveAccounts
  <2>2. CopiesInv'
    BY <1>22, <1>0 DEF GraceElapses, pass, server, CopiesInv, At
  <2>3. RecordedInv'
    BY <1>22, <1>0 DEF GraceElapses, pass, server, RecordedInv, At, LiveAccounts
  <2>4. StageInv'
    BY <1>22, <1>0 DEF GraceElapses, pass, server, StageInv, At, Creating, Deleting, LiveAccounts
  <2> QED
    BY <2>1, <2>2, <2>3, <2>4
<1>23. CASE PurgeSecret
  <2>1. LiveAccountOpens'
    BY <1>23, <1>0 DEF PurgeSecret, NoSecret, pass, server, LiveAccountOpens, Opens, LiveAccounts
  <2>2. CopiesInv'
    BY <1>23, <1>0 DEF PurgeSecret, NoSecret, pass, server, CopiesInv, At
  <2>3. RecordedInv'
    BY <1>23, <1>0 DEF PurgeSecret, NoSecret, pass, server, RecordedInv, At, LiveAccounts
  <2>4. StageInv'
    BY <1>23, <1>0 DEF PurgeSecret, NoSecret, pass, server, StageInv, At, Creating, Deleting, LiveAccounts
  <2> QED
    BY <2>1, <2>2, <2>3, <2>4
<1>24. CASE OperatorCleanup
  <2>0. \A l \in Locators : accounts[l].state # "unused" =>
            accounts'[l].state # "unused" /\ (accounts[l].state = "dropped" => accounts'[l].state = "dropped")
    BY <1>24, <1>0, EditedAccountFields DEF OperatorCleanup, TypeOK
  <2>1. LiveAccountOpens'
    BY <1>24, <1>0, <2>0 DEF OperatorCleanup, NoSecret, pass, server, LiveAccountOpens, Opens, LiveAccounts
  <2>2. CopiesInv'
    BY <1>24, <1>0, <2>0 DEF OperatorCleanup, NoSecret, pass, server, CopiesInv, At
  <2>3. RecordedInv'
    BY <1>24, <1>0, <2>0 DEF OperatorCleanup, NoSecret, pass, server, RecordedInv, At, LiveAccounts
  <2>4. StageInv'
    BY <1>24, <1>0, <2>0 DEF OperatorCleanup, NoSecret, pass, server, StageInv, At, Creating, Deleting, LiveAccounts
  <2> QED
    BY <2>1, <2>2, <2>3, <2>4
<1>25. ASSUME NEW p \in Permits, IssuePermit(p) \/ ExpirePermit(p)
       PROVE  LiveAccountOpens' /\ CopiesInv' /\ RecordedInv' /\ StageInv'
  <2>1. LiveAccountOpens'
    BY <1>25, <1>0 DEF IssuePermit, ExpirePermit, pass, server, LiveAccountOpens, Opens, LiveAccounts
  <2>2. CopiesInv'
    BY <1>25, <1>0 DEF IssuePermit, ExpirePermit, pass, server, CopiesInv, At
  <2>3. RecordedInv'
    BY <1>25, <1>0 DEF IssuePermit, ExpirePermit, pass, server, RecordedInv, At, LiveAccounts
  <2>4. StageInv'
    BY <1>25, <1>0 DEF IssuePermit, ExpirePermit, pass, server, StageInv, At, Creating, Deleting, LiveAccounts
  <2> QED
    BY <2>1, <2>2, <2>3, <2>4
<1>26. CASE Conclude
  <2>0. /\ cr'.phase = cr.phase /\ cr'.uid = cr.uid /\ cr'.locator = cr.locator
        /\ cr'.finalizer = cr.finalizer /\ cache' = cache
        /\ cacheFresh' = FALSE \/ (cacheFresh' = cacheFresh /\ cr' = cr)
    <3>1. CASE UNCHANGED server
      BY <3>1 DEF server
    <3>2. CASE WriteObject([cr EXCEPT !.creating = FALSE])
      <4>1. cr' = [cr EXCEPT !.creating = FALSE] /\ cache' = cache /\ cacheFresh' = FALSE
        BY <3>2 DEF WriteObject
      <4> QED
        BY <1>0, <4>1, EditedObjectFields
    <3> QED
      BY <1>26, <3>1, <3>2 DEF Conclude
  <2>1. LiveAccountOpens'
    BY <1>26, <1>0, <2>0 DEF Conclude, LiveAccountOpens, Opens, LiveAccounts
  <2>2. CopiesInv'
    BY <1>26, <1>0, <2>0 DEF Conclude, EndPass, CopiesInv, At
  <2>3. RecordedInv'
    BY <1>26, <1>0, <2>0 DEF Conclude, EndPass, RecordedInv, At, LiveAccounts
  <2>4. StageInv'
    BY <1>26, <1>0, <2>0 DEF Conclude, EndPass, StageInv, At, Creating, Deleting, LiveAccounts
  <2> QED
    BY <2>1, <2>2, <2>3, <2>4
<1>27. CASE OperatorResumes
  <2>0. /\ cr'.phase = cr.phase /\ cr'.uid = cr.uid /\ cr'.locator = cr.locator
        /\ cr'.finalizer = cr.finalizer /\ cache' = cache /\ cacheFresh' = FALSE
        /\ pc' = pc /\ obj' = obj /\ fresh' = fresh /\ key' = key
        /\ UNCHANGED <<secret, accounts>>
    BY <1>27, <1>0, EditedObjectFields DEF OperatorResumes, WriteObject, pass
  <2>1. LiveAccountOpens'
    BY <2>0 DEF LiveAccountOpens, Opens, LiveAccounts
  <2>2. CopiesInv'
    BY <1>0, <2>0 DEF CopiesInv, At
  <2>3. RecordedInv'
    BY <1>0, <2>0 DEF RecordedInv, At, LiveAccounts
  <2>4. StageInv'
    BY <1>0, <2>0 DEF StageInv, At, Creating, Deleting, LiveAccounts
  <2> QED
    BY <2>1, <2>2, <2>3, <2>4
<1>28. CASE ExpireCached
  <2>0. UNCHANGED <<cr, cache, cacheFresh, pc, obj, fresh, key, permit, secret, accounts>>
    BY <1>28 DEF ExpireCached, pass, server
  <2>1. LiveAccountOpens'
    BY <2>0 DEF LiveAccountOpens, Opens, LiveAccounts
  <2>2. CopiesInv'
    BY <2>0 DEF CopiesInv, At
  <2>3. RecordedInv'
    BY <2>0 DEF RecordedInv, At, LiveAccounts
  <2>4. StageInv'
    BY <2>0 DEF StageInv, At, Creating, Deleting, LiveAccounts
  <2> QED
    BY <2>1, <2>2, <2>3, <2>4
<1> QED
  BY <1>1, <1>2, <1>3, <1>4, <1>5, <1>6, <1>7, <1>8, <1>9, <1>10, <1>11, <1>12, <1>13, <1>14,
     <1>15, <1>16, <1>17, <1>18, <1>19, <1>20, <1>21, <1>22, <1>23, <1>24, <1>25, <1>26,
     <1>27, <1>28
     DEF Next, Controller, Environment

\* A pass that ends holds no copy, no locator and no permit.
LEMMA EndPassFields ==
  EndPass => /\ pc' = "idle" /\ fresh' = FALSE /\ permit' = None
             /\ obj'.phase = "absent" /\ obj'.locator = None
  BY DEF EndPass, NoObject

\* A resource is not created again while a credential of its predecessor counts as new:
\* within the clock-skew buffer of resumeCrashedCreate the two cannot be told apart
\* (apply.go:254).
NotRecreatedAtOnce ==
    cr'.uid # cr.uid => /\ secret.state = "live" => secret'.predates
                        /\ cached.state = "live" => cached'.predates

\* What was withdrawn stays so until the resource is created again.
LEMMA WithdrawnStep ==
  ASSUME LifecycleInv, Next, Withdrawn, ~UserCreate
  PROVE  Withdrawn'
<1>0. cr \in Object
  BY DEF LifecycleInv, TypeOK, ServerTypeOK
<1>1. cr'.phase # "live"
  <2>1. CASE Persist \/ Settle
    BY <2>1 DEF Persist, Settle, WriteObject, server, Withdrawn
  <2>2. CASE Claim \/ Conclude \/ Release \/ OperatorResumes \/ UserEdit
    <3>1. \/ cr' = [cr EXCEPT !.finalizer = TRUE, !.creating = TRUE]
          \/ cr' = [cr EXCEPT !.creating = FALSE]
          \/ cr' = NoObject(cr.uid) \/ cr' = cr
      BY <2>2 DEF Claim, ClaimOK, Conclude, Release, OperatorResumes, UserEdit, WriteObject, server
    <3>2. NoObject(cr.uid).phase = "absent"
      BY NoObjectFields
    <3> QED
      BY <1>0, <3>1, <3>2, EditedObjectFields DEF Withdrawn
  <2>3. CASE UserDelete
    BY <2>3 DEF UserDelete, Withdrawn
  <2>4. CASE UNCHANGED cr
    BY <2>4 DEF Withdrawn
  <2> QED
    BY <2>1, <2>2, <2>3, <2>4
       DEF Next, Controller, Environment, ReadObject, Observe, Apply, CreateCredentials, ReadBack,
           LookUp, ExecCreateAccount, LocateCreated, Gate, DropAccount, DeleteCredential,
           MarkConsumed, Crash, CacheSync, GraceElapses, ExpireCached, PurgeSecret,
           OperatorCleanup, IssuePermit, ExpirePermit, server
<1>2. cache'.phase # "live"
  <2>1. cache' = cache \/ cache' = cr
    BY DEF Next, Controller, Environment, ReadObject, Observe, Claim, ClaimOK, Apply,
           CreateCredentials, ReadBack, LookUp, ExecCreateAccount, LocateCreated, Persist, Conclude,
           Gate, DropAccount, DeleteCredential, MarkConsumed, Settle, Release, Crash, UserDelete,
           UserEdit, CacheSync, GraceElapses, ExpireCached, PurgeSecret, OperatorCleanup,
           OperatorResumes, IssuePermit, ExpirePermit, WriteObject, server
  <2> QED
    BY <2>1 DEF Withdrawn
<1>3. ~Creating /\ obj.phase # "live"
  BY DEF Withdrawn, LifecycleInv, CreatorInv
<1>4. secret'.state # "live"
  BY <1>3 DEF Next, Controller, Environment, ReadObject, Observe, Claim, Apply,
         CreateCredentials, ReadBack, LookUp, ExecCreateAccount, LocateCreated, Persist, Conclude,
         Gate, DropAccount, DeleteCredential, MarkConsumed, Settle, Release, Crash, UserDelete,
         UserEdit, CacheSync, GraceElapses, ExpireCached, PurgeSecret, OperatorCleanup,
         OperatorResumes, IssuePermit, ExpirePermit, world, Withdrawn, Creating, At,
         ScheduleRemoval, NoSecret
<1>5. obj'.phase # "live"
  <2>1. CASE EndPass
    BY <2>1, EndPassFields
  <2>2. CASE UNCHANGED obj
    BY <1>3, <2>2
  <2>3. CASE ReadObject
    BY <2>3 DEF ReadObject, Withdrawn
  <2>4. CASE DropAccount
    <3>1. obj'.phase = obj.phase
      BY <2>4, GoRecordingFields DEF DropAccount, GoTo, LifecycleInv, TypeOK, PassTypeOK
    <3> QED
      BY <1>3, <3>1
  <2>5. CASE Claim \/ LookUp \/ LocateCreated
    BY <1>3, <2>1, <2>5 DEF Claim, ClaimOK, LookUp, LocateCreated, At, Creating, LifecycleInv, CreatorInv
  <2> QED
    BY <2>1, <2>2, <2>3, <2>4, <2>5, FinishSteps
       DEF Next, Controller, Environment, Observe, ObserveDeleting, ObserveLive, Apply, GoTo, GoHolding,
           CreateCredentials, ReadBack, ExecCreateAccount, Persist, Conclude, Gate, DeleteCredential,
           MarkConsumed, Settle, Release, Crash, UserDelete, UserEdit, Overtake, CacheSync,
           GraceElapses, ExpireCached, PurgeSecret, OperatorCleanup, OperatorResumes, IssuePermit,
           ExpirePermit, pass
<1> QED
  BY <1>1, <1>2, <1>4, <1>5 DEF Withdrawn

\* Every step keeps the KeyManager's copy true, or withdrawn: unless the answer to a removal
\* is lost while there is one, and the resource created again at once.
LEMMA CachedStep ==
  ASSUME StaleCache => NotRecreatedAtOnce, LifecycleInv, Next
  PROVE  CachedInv'
<1>0. /\ secret \in SecretType /\ cached \in SecretType /\ CachedInv
      /\ NoSecret.state = "absent" /\ None \notin Keys /\ cr.uid \in Nat
  BY ConstantsAssumption, UidsAreNaturals DEF LifecycleInv, TypeOK, NoSecret
<1>1. CASE UNCHANGED <<secret, cached>> /\ ~UserCreate
  BY <1>0, <1>1, WithdrawnStep DEF CachedInv
<1>2. CASE (Remember \/ Connect) /\ UNCHANGED secret /\ ~UserCreate
  <2>1. cached' = cached \/ (cached' = secret' /\ secret'.state = "live")
    BY <1>2 DEF Remember, Connect, Held
  <2> QED
    BY <1>0, <1>2, <2>1, WithdrawnStep DEF CachedInv
<1>3. CASE Forget /\ (secret'.state = "live" => secret'.key # None)
  BY <1>0, <1>3 DEF Forget, CachedInv
<1>4. CASE Observe \/ Apply
  <2>1. UNCHANGED secret /\ (UNCHANGED cached \/ Connect) /\ ~UserCreate
    BY <1>4 DEF Observe, ObserveLive, Apply, UserCreate, WriteObject, NoObject, server
  <2> QED
    BY <1>1, <1>2, <2>1
<1>5. CASE CreateCredentials
  <2>1. pc = "credentials" /\ UNCHANGED cr
    BY <1>5 DEF CreateCredentials, At, server
  <2>2. obj.phase = "live" /\ ~Withdrawn /\ cr.phase # "absent"
    BY <2>1 DEF LifecycleInv, CreatorInv, StageInv, Creating, Withdrawn
  <2>3. ASSUME NEW k \in Keys, StoreKey(k)
        PROVE  secret.state # "live" /\ secret'.key # None
    BY <1>0, <2>3 DEF StoreKey, Vacant
  <2>4. \A k \in Keys : StoreKey(k) /\ UNCHANGED cached => CachedInv'
    BY <1>0, <2>2, <2>3 DEF CachedInv
  <2> QED
    BY <1>1, <1>3, <1>5, <2>2, <2>3, <2>4 DEF CreateCredentials, UserCreate
<1>6. CASE ReadBack
  <2>1. ~UserCreate
    BY <1>6 DEF ReadBack, UserCreate, LifecycleInv, StageInv, Creating, At
  <2> QED
    BY <1>1, <1>2, <1>6, <2>1 DEF ReadBack
<1>7. CASE DeleteCredential
  <2>1. ScheduleRemoval => secret'.state # "live"
    BY <1>0 DEF ScheduleRemoval, SecretType
  <2>2. pc = "delcred" /\ UNCHANGED <<cr, cache, obj>>
    BY <1>7 DEF DeleteCredential, GoTo, At, server
  <2>3. obj.phase = "deleting" /\ cr.phase = "deleting" /\ obj.uid = cr.uid /\ ~UserCreate
    BY <2>2 DEF LifecycleInv, StageInv, TrackedInv, Deleting, UserCreate
  <2>4. cache.phase # "live"
    <3>1. obj.uid = cache.uid
      BY <1>0, <2>3, UidsAreNaturals DEF LifecycleInv, CopiesInv
    <3> QED
      BY <2>2, <2>3, <3>1 DEF LifecycleInv, CreatorInv, At
  <2>5. StaleCache /\ ScheduleRemoval => Withdrawn'
    BY <2>1, <2>2, <2>3, <2>4 DEF Withdrawn
  <2>6. (StaleCache \/ cached.state # "live") /\ ScheduleRemoval /\ UNCHANGED cached => CachedInv'
    BY <1>0, <2>1, <2>5 DEF CachedInv
  <2> QED
    BY <1>1, <1>3, <1>7, <2>1, <2>3, <2>6 DEF DeleteCredential
<1>8. CASE UserCreate
  <2>1. PICK b \in BOOLEAN : secret' = Ages(secret, b) /\ cached' = Ages(cached, b)
    BY <1>8 DEF UserCreate
  <2>2. /\ cached'.state = cached.state
        /\ cached'.predates = ((cached.predates \/ b) /\ cached.state = "live")
        /\ secret'.state = secret.state /\ secret'.key = secret.key
    BY <1>0, <2>1 DEF Ages, SecretType
  <2>3. CASE ~StaleCache
    <3>1. (cached'.state = "live" /\ ~cached'.predates) => cached' = secret'
      BY <1>0, <2>1, <2>2, <2>3 DEF CachedInv, Withdrawn
    <3> QED
      BY <1>0, <2>2, <3>1 DEF CachedInv
  <2>4. CASE StaleCache
    <3>1. cr' = [NoObject(cr.uid + 1) EXCEPT !.phase = "live"]
      BY <1>8 DEF UserCreate, WriteObject
    <3>2. cr'.uid = cr.uid + 1
      BY <3>1 DEF NoObject
    <3>3. cached.state = "live" => cached'.predates
      BY <1>0, <2>4, <3>2 DEF NotRecreatedAtOnce
    <3> QED
      BY <1>0, <2>2, <3>3 DEF CachedInv
  <2> QED
    BY <2>3, <2>4
<1>9. CASE PurgeSecret
  BY <1>0, <1>9 DEF PurgeSecret, process, CachedInv
<1>10. CASE OperatorCleanup
  <2>1. secret.state = "live" /\ secret.predates /\ secret' = NoSecret /\ cached' = cached
    BY <1>10 DEF OperatorCleanup, process
  <2> QED
    BY <1>0, <2>1 DEF CachedInv, Withdrawn
<1>11. CASE Crash \/ ExpireCached
  BY <1>0, <1>3, <1>11 DEF Crash, ExpireCached, CachedInv
<1>12. CASE UNCHANGED <<secret, cached>>
  BY <1>1, <1>8, <1>12
<1> QED
  BY <1>4, <1>5, <1>6, <1>7, <1>8, <1>9, <1>10, <1>11, <1>12
     DEF Next, Controller, Environment, ReadObject, Claim, LookUp, ExecCreateAccount,
         LocateCreated, Persist, Conclude, Gate, DropAccount, MarkConsumed, Settle, Release,
         UserDelete, UserEdit, CacheSync, GraceElapses, OperatorResumes, IssuePermit, ExpirePermit,
         world, process

\* A pass that ends, or moves between stages that say nothing of the locator, keeps what
\* is said of the locators, whatever it writes that leaves phase, uid and finalizer alone.
LEMMA TrackedKept ==
  ASSUME TrackedInv, cr'.phase = cr.phase, cr'.uid = cr.uid, cr.finalizer => cr'.finalizer,
         UNCHANGED cache,
         \/ EndPass
         \/ UNCHANGED <<obj, fresh, pc>>
         \/ /\ UNCHANGED <<obj, fresh>> \/ obj'.phase # "deleting"
            /\ pc' \notin {"observe", "release", "gate", "drop", "delcred", "consume", "settle"}
         \/ /\ obj.phase = "deleting" /\ pc \in {"gate", "drop", "delcred", "consume"}
            /\ obj'.uid = obj.uid /\ pc' \in {"delcred", "consume", "settle"}
  PROVE  TrackedInv'
  BY EndPassFields DEF TrackedInv

\* Every step keeps what is said of the locators.
LEMMA TrackedStep ==
  ASSUME LifecycleInv, Next
  PROVE  TrackedInv'
<1>0. /\ TrackedInv /\ TypeOK
      /\ cr \in Object /\ cache \in Object /\ obj \in Object
      /\ cr.uid \in Nat /\ cache.uid \in Nat /\ obj.uid \in Nat
  BY UidsAreNaturals DEF LifecycleInv, TypeOK, PassTypeOK, ServerTypeOK
<1>1. CASE ReadObject
  <2>1. /\ obj' = cache /\ fresh' = cacheFresh /\ pc' = "observe" /\ UNCHANGED <<cr, cache>>
    BY <1>1 DEF ReadObject, server
  <2>2. cache.phase = "deleting" /\ cache.locator # None => cr.phase = "deleting"
    <3>1. cr.phase \in {"absent", "live", "deleting"}
      BY <1>0 DEF Object
    <3> QED
      BY <1>0, <3>1 DEF LifecycleInv, CopiesInv, TrackedInv
  <2> QED
    BY <1>0, <2>1, <2>2 DEF TrackedInv
<1>2. CASE Observe
  <2>1. CASE EndPass /\ UNCHANGED server
    BY <1>0, <2>1, TrackedKept DEF server
  <2>2. CASE UNCHANGED <<server, obj, fresh>> /\ pc' \in {"claim", "apply"}
    BY <1>0, <2>2, TrackedKept DEF server
  <2>3. CASE ObserveDeleting
    <3>1. UNCHANGED <<cr, cache, obj, fresh>> /\ pc' = IF obj.locator # None THEN "gate" ELSE "release"
      BY <1>2, <2>3 DEF Observe, ObserveDeleting, GoTo, server
    <3>2. pc = "observe"
      BY <1>2 DEF Observe, At
    <3> QED
      BY <1>0, <3>1, <3>2 DEF TrackedInv
  <2> QED
    BY <1>2, <2>1, <2>2, <2>3 DEF Observe, ObserveLive, GoTo, server
<1>3. CASE Claim
  <2>1. CASE ClaimOK
    <3>1. /\ cr' = [cr EXCEPT !.finalizer = TRUE, !.creating = TRUE] /\ obj' = cr' /\ pc' = "apply"
          /\ UNCHANGED cache /\ fresh /\ pc = "claim"
      BY <1>3, <2>1 DEF Claim, ClaimOK, WriteObject, At
    <3>2. /\ cr'.phase = cr.phase /\ cr'.uid = cr.uid /\ cr'.finalizer
      BY <1>0, <3>1, EditedObjectFields
    <3>3. cr.phase = "live"
      BY <3>1 DEF LifecycleInv, CopiesInv, CreatorInv
    <3> QED
      BY <1>0, <3>1, <3>2, <3>3, TrackedKept
  <2>2. CASE EndPass /\ UNCHANGED server
    BY <1>0, <2>2, TrackedKept DEF server
  <2> QED
    BY <1>3, <2>1, <2>2 DEF Claim
<1>4. CASE Apply
  <2>1. UNCHANGED <<cr, cache>>
    BY <1>4 DEF Apply, server
  <2>2. EndPass \/ (UNCHANGED <<obj, fresh>> /\ pc' \in {"persist", "credentials", "conclude"})
    BY <1>4, FinishSteps DEF Apply, GoTo
  <2> QED
    BY <1>0, <2>1, <2>2, TrackedKept
<1>5. CASE CreateCredentials \/ ReadBack
  <2>1. UNCHANGED <<cr, cache, obj, fresh>> /\ pc' \in {"exec", "readback", "persist", "lookup"}
    BY <1>5 DEF CreateCredentials, ReadBack, GoTo, GoHolding, server
  <2> QED
    BY <1>0, <2>1, TrackedKept
<1>6. CASE LookUp \/ ExecCreateAccount \/ LocateCreated
  <2>1. UNCHANGED <<cr, cache>>
    BY <1>6 DEF LookUp, ExecCreateAccount, LocateCreated, server
  <2>2. obj.phase = "live"
    BY <1>6 DEF LookUp, ExecCreateAccount, LocateCreated, At, LifecycleInv, CreatorInv, Creating
  <2>3. CASE UNCHANGED <<obj, fresh>> /\ pc' \in {"persist", "exec", "locate"}
    BY <1>0, <2>1, <2>3, TrackedKept
  <2>4. ASSUME NEW l, FinishCreate(l) PROVE TrackedInv'
    <3>1. obj'.phase = "live" /\ pc' = "persist"
      BY <1>0, <2>2, <2>4, GoRecordingFields DEF FinishCreate
    <3> QED
      BY <1>0, <2>1, <3>1, TrackedKept
  <2> QED
    BY <1>6, <2>3, <2>4 DEF LookUp, ExecCreateAccount, LocateCreated, GoTo
<1>7. CASE Persist
  <2>1. EndPass \/ (UNCHANGED <<obj, fresh>> /\ pc' = "conclude")
    BY <1>7, FinishSteps DEF Persist
  <2>2. CASE UNCHANGED server
    BY <1>0, <2>1, <2>2, TrackedKept DEF server
  <2>3. CASE fresh /\ WriteObject(obj)
    <3>1. cr' = obj /\ UNCHANGED cache /\ obj.phase = cr.phase /\ obj.uid = cr.uid /\ obj.finalizer = cr.finalizer
      BY <2>3 DEF WriteObject, LifecycleInv, CopiesInv
    <3> QED
      BY <1>0, <2>1, <3>1, TrackedKept
  <2> QED
    BY <1>7, <2>2, <2>3 DEF Persist
<1>8. CASE Conclude
  <2>1. EndPass
    BY <1>8 DEF Conclude
  <2>2. CASE UNCHANGED server
    BY <1>0, <2>1, <2>2, TrackedKept DEF server
  <2>3. CASE WriteObject([cr EXCEPT !.creating = FALSE])
    BY <1>0, <2>1, <2>3, EditedObjectFields, TrackedKept DEF WriteObject
  <2> QED
    BY <1>8, <2>2, <2>3 DEF Conclude
<1>9. CASE Gate
  <2>1. UNCHANGED <<cr, cache, obj, fresh>> /\ pc' \in {"drop", "settle"} /\ pc = "gate"
    BY <1>9 DEF Gate, GoTo, server, At
  <2>2. obj.phase = "deleting"
    BY <2>1 DEF LifecycleInv, StageInv, Deleting
  <2> QED
    BY <1>0, <2>1, <2>2 DEF TrackedInv
<1>10. CASE DropAccount
  <2>1. UNCHANGED <<cr, cache>> /\ pc = "drop"
    BY <1>10 DEF DropAccount, server, At
  <2>2. obj.phase = "deleting"
    BY <2>1 DEF LifecycleInv, StageInv, Deleting
  <2>3. obj'.uid = obj.uid /\ pc' \in {"delcred", "settle"}
    BY <1>0, <1>10, GoRecordingFields DEF DropAccount, GoTo
  <2> QED
    BY <1>0, <2>1, <2>2, <2>3, TrackedKept
<1>11. CASE DeleteCredential \/ MarkConsumed
  <2>1. UNCHANGED <<cr, cache, obj>> /\ pc \in {"delcred", "consume"} /\ pc' \in {"consume", "settle"}
    BY <1>11 DEF DeleteCredential, MarkConsumed, GoTo, server, At
  <2>2. obj.phase = "deleting"
    BY <2>1 DEF LifecycleInv, StageInv, Deleting
  <2> QED
    BY <1>0, <2>1, <2>2, TrackedKept
<1>12. CASE Settle
  <2>1. EndPass
    BY <1>12 DEF Settle
  <2>2. CASE UNCHANGED server
    BY <1>0, <2>1, <2>2, TrackedKept DEF server
  <2>3. CASE fresh /\ WriteObject(obj)
    <3>1. cr' = obj /\ UNCHANGED cache /\ obj.phase = cr.phase /\ obj.uid = cr.uid /\ obj.finalizer = cr.finalizer
      BY <2>3 DEF WriteObject, LifecycleInv, CopiesInv
    <3> QED
      BY <1>0, <2>1, <3>1, TrackedKept
  <2> QED
    BY <1>12, <2>2, <2>3 DEF Settle
<1>13. CASE Release
  <2>1. EndPass /\ pc = "release"
    BY <1>13 DEF Release, At
  <2>2. CASE UNCHANGED server
    BY <1>0, <2>1, <2>2, TrackedKept DEF server
  <2>3. CASE fresh /\ WriteObject(NoObject(cr.uid))
    <3>1. cache.locator = None /\ UNCHANGED cache
      BY <1>0, <2>1, <2>3 DEF WriteObject, TrackedInv, LifecycleInv, StageInv, At
    <3> QED
      BY <2>1, <3>1, EndPassFields DEF TrackedInv
  <2> QED
    BY <1>13, <2>2, <2>3 DEF Release
<1>14. CASE Crash
  BY <1>0, <1>14, TrackedKept DEF Crash, server
<1>15. CASE UserCreate
  <2>1. cr.phase = "absent" /\ fresh' = FALSE /\ UNCHANGED <<cache, pc, obj>>
    BY <1>15 DEF UserCreate, WriteObject, Overtake
  <2>2. cache.locator = None /\ ~(obj.phase = "deleting" /\ obj.locator # None)
    BY <1>0, <2>1 DEF TrackedInv
  <2> QED
    BY <1>0, <2>1, <2>2 DEF TrackedInv
<1>16. CASE UserDelete
  <2>1. cr.phase = "live" /\ fresh' = FALSE /\ UNCHANGED <<cache, pc, obj>>
    BY <1>16 DEF UserDelete, WriteObject, Overtake
  <2>2. ~(obj.phase = "deleting" /\ obj.locator # None)
    BY <1>0, <2>1 DEF TrackedInv
  <2>3. CASE cr.finalizer
    <3>1. cr' = [cr EXCEPT !.phase = "deleting"]
      BY <1>16, <2>3 DEF UserDelete, WriteObject
    <3>2. cr'.phase = "deleting" /\ cr'.uid = cr.uid /\ cr'.finalizer = cr.finalizer
      BY <1>0, <3>1, EditedObjectFields
    <3> QED
      BY <1>0, <2>1, <2>2, <2>3, <3>2 DEF TrackedInv
  <2>4. CASE ~cr.finalizer
    <3>1. cache.locator = None
      BY <1>0, <2>4 DEF TrackedInv
    <3> QED
      BY <1>0, <2>1, <2>2, <3>1 DEF TrackedInv
  <2> QED
    BY <2>3, <2>4
<1>17. CASE UserEdit
  <2>1. cr' = cr /\ fresh' = FALSE /\ UNCHANGED <<cache, pc, obj>>
    BY <1>17 DEF UserEdit, WriteObject, Overtake
  <2> QED
    BY <1>0, <2>1 DEF TrackedInv
<1>18. CASE OperatorResumes
  <2>1. cr' = [cr EXCEPT !.creating = FALSE] /\ UNCHANGED <<cache, pc, obj, fresh>>
    BY <1>18 DEF OperatorResumes, WriteObject, pass
  <2>2. cr'.phase = cr.phase /\ cr'.uid = cr.uid /\ cr'.finalizer = cr.finalizer
    BY <1>0, <2>1, EditedObjectFields
  <2> QED
    BY <1>0, <2>1, <2>2, TrackedKept
<1>19. CASE CacheSync
  <2>1. cache' = cr /\ UNCHANGED <<cr, pc, obj, fresh>>
    BY <1>19 DEF CacheSync, pass
  <2>2. cr.locator # None => cr.finalizer /\ cr.phase # "absent"
    BY DEF LifecycleInv, RecordedInv
  <2>3. fresh /\ pc \in {"observe", "release"} => obj.locator = cr.locator
    BY DEF LifecycleInv, CopiesInv
  <2> QED
    BY <1>0, <2>1, <2>2, <2>3 DEF TrackedInv
<1>20. CASE UNCHANGED <<cr, cache, pc, obj, fresh>>
  BY <1>0, <1>20 DEF TrackedInv
<1> QED
  BY <1>1, <1>2, <1>3, <1>4, <1>5, <1>6, <1>7, <1>8, <1>9, <1>10, <1>11, <1>12, <1>13, <1>14, <1>15,
     <1>16, <1>17, <1>18, <1>19, <1>20
     DEF Next, Controller, Environment, GraceElapses, ExpireCached, PurgeSecret, OperatorCleanup,
         IssuePermit, ExpirePermit, server, pass

\* A permit, once issued, stays on record.
LEMMA PermitsRecorded ==
  ASSUME LifecycleInv, Next, NEW p \in Permits, permits[p] # "none"
  PROVE  permits'[p] # "none"
<1>0. permits \in [Permits -> {"none", "Active", "Expired", "Consumed"}]
  BY DEF LifecycleInv, TypeOK
<1>1. ASSUME NEW q \in Permits, IssuePermit(q) \/ ExpirePermit(q) PROVE permits'[p] # "none"
  BY <1>0, <1>1 DEF IssuePermit, ExpirePermit
<1>2. CASE MarkConsumed
  BY <1>0, <1>2 DEF MarkConsumed, Consume
<1>3. CASE UNCHANGED permits
  BY <1>3
<1> QED
  BY <1>1, <1>2, <1>3
     DEF Next, Controller, Environment, ReadObject, Observe, Claim, Apply, CreateCredentials,
         ReadBack, LookUp, ExecCreateAccount, LocateCreated, Persist, Gate, DropAccount,
         DeleteCredential, Settle, Release, Crash, UserCreate, UserDelete, UserEdit, CacheSync,
         GraceElapses, PurgeSecret, OperatorCleanup, Conclude, ExpireCached, OperatorResumes, world

\* Every step keeps what is said of the permit a pass holds.
LEMMA GatedStep ==
  ASSUME LifecycleInv, Next
  PROVE  GatedInv'
<1>0. /\ GatedInv /\ None \notin Permits /\ permit \in Permits \cup {None}
      /\ permits \in [Permits -> {"none", "Active", "Expired", "Consumed"}]
  BY ConstantsAssumption DEF LifecycleInv, TypeOK, PassTypeOK
<1>1. CASE EndPass
  BY <1>1, EndPassFields DEF GatedInv
<1>2. CASE UNCHANGED <<permit, protection>> /\ (pc' = pc \/ pc' \notin {"drop", "delcred"})
  BY <1>0, <1>2, PermitsRecorded DEF GatedInv
<1>3. CASE Gate
  <2>1. UNCHANGED <<permits, protection>>
    BY <1>3 DEF Gate, world
  <2>2. CASE permit' \in ActivePermits
    BY <1>0, <2>1, <2>2 DEF GatedInv, ActivePermits
  <2>3. CASE UNCHANGED permit /\ (pc' = "settle" \/ ~protection)
    BY <1>0, <2>1, <2>3 DEF GatedInv
  <2> QED
    BY <1>3, <2>2, <2>3 DEF Gate, GoTo
<1>4. CASE DropAccount
  <2>1. UNCHANGED <<permit, permits, protection>> /\ pc = "drop"
    BY <1>4 DEF DropAccount, GoTo, GoRecording, process, At
  <2> QED
    BY <1>0, <2>1 DEF GatedInv
<1>5. CASE CreateCredentials \/ ReadBack \/ LookUp \/ ExecCreateAccount \/ LocateCreated
  <2>1. UNCHANGED <<permit, protection>> /\ pc' \in {"exec", "readback", "persist", "lookup", "locate"}
    BY <1>5 DEF CreateCredentials, ReadBack, LookUp, ExecCreateAccount, LocateCreated,
                FinishCreate, GoTo, GoHolding, GoRecording, process
  <2> QED
    BY <1>2, <2>1
<1>6. CASE DeleteCredential \/ MarkConsumed
  <2>1. UNCHANGED <<permit, protection>> /\ pc' \in {"consume", "settle"}
    BY <1>6 DEF DeleteCredential, MarkConsumed, GoTo, process
  <2> QED
    BY <1>2, <2>1
<1>7. CASE ReadObject \/ Observe \/ Claim
  <2>1. UNCHANGED protection
    BY <1>7 DEF ReadObject, Observe, Claim, world
  <2>2. EndPass \/ (UNCHANGED permit /\ pc' \in {"observe", "gate", "release", "claim", "apply"})
    BY <1>7 DEF ReadObject, Observe, ObserveDeleting, ObserveLive, Claim, ClaimOK, GoTo
  <2> QED
    BY <1>1, <1>2, <2>1, <2>2
<1>8. CASE Apply \/ Persist
  <2>1. UNCHANGED protection
    BY <1>8 DEF Apply, Persist, world
  <2>2. EndPass \/ (UNCHANGED permit /\ pc' \in {"persist", "credentials", "conclude"})
    BY <1>8, FinishSteps DEF Apply, Persist, GoTo
  <2> QED
    BY <1>1, <1>2, <2>1, <2>2
<1>9. CASE Conclude \/ Settle \/ Release \/ Crash
  BY <1>1, <1>9 DEF Conclude, Settle, Release, Crash
<1>10. CASE Environment /\ ~Crash
  <2>1. UNCHANGED <<permit, protection, pc>>
    BY <1>10 DEF Environment, UserCreate, UserDelete, UserEdit, Overtake, CacheSync, GraceElapses,
                 ExpireCached, PurgeSecret, OperatorCleanup, OperatorResumes, IssuePermit, ExpirePermit,
                 pass, process, world
  <2> QED
    BY <1>2, <2>1
<1> QED
  BY <1>3, <1>4, <1>5, <1>6, <1>7, <1>8, <1>9, <1>10 DEF Next, Controller

\* Every step keeps the strengthened invariant.
LEMMA LifecycleStep ==
  ASSUME StaleCache => NotRecreatedAtOnce \/ UNCHANGED vars, LifecycleInv, [Next]_vars
  PROVE  LifecycleInv'
<1>1. TypeOK'
  BY TypeStep DEF LifecycleInv
<1>2. CASE Next /\ (StaleCache => NotRecreatedAtOnce)
  BY <1>1, <1>2, InvStep, CreatorStep, CachedStep, TrackedStep, GatedStep DEF LifecycleInv
<1>3. CASE UNCHANGED vars
  <2>1. LiveAccountOpens' /\ CopiesInv'
    BY <1>3 DEF vars, LifecycleInv, LiveAccountOpens, Opens, LiveAccounts, CopiesInv, At
  <2>2. RecordedInv' /\ StageInv'
    BY <1>3 DEF vars, LifecycleInv, RecordedInv, StageInv, At, Creating, Deleting, LiveAccounts
  <2>3. OneAccountPerIncarnation' /\ CreatorInv'
    BY <1>3 DEF vars, LifecycleInv, OneAccountPerIncarnation, CreatorInv, Creating, At
  <2>4. CachedInv'
    BY <1>3 DEF vars, LifecycleInv, CachedInv, Withdrawn
  <2>5. TrackedInv' /\ GatedInv'
    BY <1>3 DEF vars, LifecycleInv, TrackedInv, GatedInv
  <2> QED
    BY <1>1, <2>1, <2>2, <2>3, <2>4, <2>5 DEF LifecycleInv
<1> QED
  BY <1>2, <1>3

\* The strengthened invariant holds of every behaviour, as long as no answer to a removal
\* is lost while the key is cached.
THEOREM LifecycleInvariant == ASSUME StaleCache = FALSE PROVE Spec => []LifecycleInv
<1>1. LifecycleInv /\ [Next]_vars => LifecycleInv'
  BY LifecycleStep
<1> QED
  BY <1>1, InvInit, PTL DEF Spec

\* It holds with such answers lost too, as long as no resource is created again within the
\* clock-skew buffer (manager.go:129, apply.go:254).
THEOREM LifecycleInvariantUnhurried == Spec /\ [][NotRecreatedAtOnce]_vars => []LifecycleInv
<1>1. LifecycleInv /\ [Next]_vars /\ [NotRecreatedAtOnce]_vars => LifecycleInv'
  BY LifecycleStep
<1> QED
  BY <1>1, InvInit, PTL DEF Spec

\* The stored secret opens every live account the resource created.
THEOREM LiveAccountsOpen == ASSUME StaleCache = FALSE PROVE Spec => []LiveAccountOpens
<1>1. LifecycleInv => LiveAccountOpens
  BY DEF LifecycleInv
<1> QED
  BY <1>1, LifecycleInvariant, PTL

\* One incarnation of the resource creates at most one account, across crashes, lost
\* answers and resumed creates (createAccount and resumeCrashedCreate in apply.go).
THEOREM OneCreator == ASSUME StaleCache = FALSE PROVE Spec => []OneAccountPerIncarnation
<1>1. LifecycleInv => OneAccountPerIncarnation
  BY DEF LifecycleInv
<1> QED
  BY <1>1, LifecycleInvariant, PTL

\* A locator recorded on a live resource names a live account the secret opens.
THEOREM RecordedAccountsOpen == ASSUME StaleCache = FALSE PROVE Spec => []RecordedAccountOpens
<1>1. LifecycleInv => RecordedAccountOpens
  BY DEF LifecycleInv, RecordedInv, LiveAccountOpens, RecordedAccountOpens
<1> QED
  BY <1>1, LifecycleInvariant, PTL

\* createAccount never runs for a resource with a recorded locator.
THEOREM RecordedIsNotRecreated == ASSUME StaleCache = FALSE PROVE Spec => []NoCreateOnceRecorded
<1>1. LifecycleInv => NoCreateOnceRecorded
  BY DEF LifecycleInv, StageInv, Creating, NoCreateOnceRecorded, At
<1> QED
  BY <1>1, LifecycleInvariant, PTL

-----------------------------------------------------------------------------
(* The refinement of AccountCustody.                                       *)

\* Initially nothing is in custody.
LEMMA CustodyInit == Init => Custody!Init
<1> SUFFICES ASSUME Init PROVE Custody!Init
  OBVIOUS
<1>1. ReadableKey = None
  BY DEF Init, ReadableKey, NoSecret
<1>2. OwnAccounts = {}
  BY DEF Init, OwnAccounts, LiveAccounts
<1>3. OwnLocator = None
  BY DEF Init, OwnLocator, NoObject
<1> QED
  BY <1>1, <1>2, <1>3 DEF Custody!Init

\* A step that writes the resource records a live account, loses the locator of one
\* that is gone, or leaves the locator.
LEMMA CustodyOfLocator ==
  ASSUME LifecycleInv, Next, UNCHANGED <<ReadableKey, OwnAccounts>>
  PROVE  Custody!Record \/ Custody!Lose \/ UNCHANGED OwnLocator
<1> USE DEF LifecycleInv
<1>0. cr \in Object /\ cr.locator \in Locators \cup {None} /\ None \notin Locators
  BY ConstantsAssumption, EditedObjectType DEF TypeOK, ServerTypeOK
<1>1. CASE UNCHANGED cr
  BY <1>1 DEF OwnLocator
<1>2. CASE Claim
  BY <1>0, <1>2, EditedObjectFields DEF Claim, ClaimOK, WriteObject, server, OwnLocator
<1>3. CASE Conclude
  BY <1>0, <1>3, EditedObjectFields DEF Conclude, WriteObject, server, OwnLocator
<1>4. CASE Persist
  <2>1. SUFFICES ASSUME cr' = obj, fresh, pc = "persist", cr'.locator # cr.locator
                 PROVE  Custody!Record \/ UNCHANGED OwnLocator
    BY <1>4 DEF Persist, WriteObject, server, At, OwnLocator
  <2>2. cr.locator = None /\ cr.phase = "live"
    BY <2>1 DEF RecordedInv, CreatorInv, CopiesInv, At
  <2>3. obj.locator \in Locators
    BY <2>1, <2>2, EditedObjectType DEF TypeOK, PassTypeOK
  <2>4. CASE obj.locator \in Foreign
    BY <2>1, <2>2, <2>4 DEF OwnLocator
  <2>5. CASE obj.locator \notin Foreign
    <3>1. obj.locator \in LiveAccounts \ Foreign
      BY <2>1, <2>2, <2>3, <2>5 DEF RecordedInv, At
    <3> DEFINE a == [at |-> obj.locator, key |-> accounts[obj.locator].key]
    <3>2. a \in OwnAccounts /\ a.at = obj.locator
      BY <3>1 DEF OwnAccounts
    <3>3. OwnLocator' = obj.locator
      BY <2>1, <2>5 DEF OwnLocator
    <3> QED
      BY <3>2, <3>3 DEF Custody!Record
  <2> QED
    BY <2>4, <2>5
<1>5. CASE Settle
  <2>1. SUFFICES ASSUME cr' = obj, fresh, pc = "settle", cr'.locator # cr.locator
                 PROVE  Custody!Lose
    BY <1>5 DEF Settle, WriteObject, server, At, OwnLocator
  <2>2. obj.locator = None /\ accounts[cr.locator].state = "dropped" /\ cr.locator \in Locators
    BY <1>0, <2>1 DEF RecordedInv
  <2>3. \A b \in OwnAccounts : b.at # OwnLocator
    <3>1. \A b \in OwnAccounts : b.at \in Locators /\ accounts[b.at].state = "live"
      BY DEF OwnAccounts, LiveAccounts
    <3> QED
      BY <1>0, <2>2, <3>1 DEF OwnLocator
  <2>4. OwnLocator' = None
    BY <2>1, <2>2 DEF OwnLocator
  <2> QED
    BY <2>3, <2>4 DEF Custody!Lose
<1>6. CASE Release
  <2>1. SUFFICES ASSUME cr' = NoObject(cr.uid), fresh, pc = "release"
                 PROVE  UNCHANGED OwnLocator
    BY <1>6 DEF Release, WriteObject, server, At, OwnLocator
  <2>2. cr.locator = None /\ cr'.locator = None
    BY <2>1 DEF CopiesInv, StageInv, At, NoObject
  <2> QED
    BY <2>2 DEF OwnLocator
<1>7. CASE UserCreate
  <2>1. cr.phase = "absent" /\ cr'.locator = None
    BY <1>7, NoObjectFields DEF UserCreate, WriteObject
  <2>2. cr.locator = None
    BY <2>1 DEF RecordedInv
  <2> QED
    BY <2>1, <2>2 DEF OwnLocator
<1>8. CASE UserDelete
  <2>1. cr.finalizer \/ cr.locator = None
    BY DEF RecordedInv
  <2>2. cr'.locator = cr.locator
    BY <1>0, <1>8, <2>1, EditedObjectFields, NoObjectFields DEF UserDelete, WriteObject
  <2> QED
    BY <2>2 DEF OwnLocator
<1>9. CASE OperatorResumes
  BY <1>0, <1>9, EditedObjectFields DEF OperatorResumes, WriteObject, OwnLocator
<1>10. \/ Claim \/ Conclude \/ Persist \/ Settle \/ Release \/ UserCreate \/ UserDelete
       \/ OperatorResumes \/ UNCHANGED cr
  BY DEF Next, Controller, Environment, ReadObject, Observe, Apply, CreateCredentials, ReadBack,
         LookUp, ExecCreateAccount, LocateCreated, Gate, DropAccount, DeleteCredential,
         MarkConsumed, Crash, UserEdit, WriteObject, CacheSync, GraceElapses, ExpireCached,
         PurgeSecret, OperatorCleanup, IssuePermit, ExpirePermit, server
<1> QED
  BY <1>1, <1>2, <1>3, <1>4, <1>5, <1>6, <1>7, <1>8, <1>9, <1>10

\* A step that touches the secret alone deposits a key, withdraws one, or leaves the
\* readable key, and no account is live when it does anything.
LEMMA CustodyOfKey ==
  ASSUME LifecycleInv, CreateCredentials \/ DeleteCredential \/ PurgeSecret
  PROVE  \/ \E k \in Keys : Custody!Deposit(k)
         \/ Custody!Withdraw
         \/ UNCHANGED <<ReadableKey, OwnAccounts, OwnLocator>>
<1> USE DEF LifecycleInv
<1>1. UNCHANGED <<OwnAccounts, OwnLocator>>
  BY DEF CreateCredentials, DeleteCredential, PurgeSecret, server, OwnAccounts, LiveAccounts, OwnLocator
<1>2. CASE UNCHANGED secret
  BY <1>1, <1>2 DEF ReadableKey
<1>3. ASSUME NEW k \in Keys, StoreKey(k) PROVE Custody!Deposit(k)
  <2>1. OwnAccounts = {}
    BY <1>3 DEF StoreKey, Vacant, LiveAccountOpens, Opens, OwnAccounts
  <2>2. ReadableKey' = k
    BY <1>3 DEF StoreKey, ReadableKey
  <2> QED
    BY <1>1, <2>1, <2>2 DEF Custody!Deposit
<1>4. CASE DeleteCredential
  <2>1. LiveAccounts = {} /\ OwnAccounts = {}
    BY <1>4 DEF DeleteCredential, StageInv, At, OwnAccounts
  <2>2. ScheduleRemoval => ReadableKey' = None
    BY DEF ScheduleRemoval, ReadableKey, TypeOK, SecretType
  <2>3. ScheduleRemoval \/ UNCHANGED secret
    BY <1>4 DEF DeleteCredential
  <2> QED
    BY <1>1, <1>2, <2>1, <2>2, <2>3 DEF Custody!Withdraw
<1>5. CASE PurgeSecret
  <2>1. ReadableKey = None /\ ReadableKey' = None
    BY <1>5 DEF PurgeSecret, NoSecret, ReadableKey
  <2> QED
    BY <1>1, <2>1
<1>6. CASE CreateCredentials
  BY <1>2, <1>3, <1>6 DEF CreateCredentials
<1> QED
  BY <1>4, <1>5, <1>6

\* Creating an account opens one with the key in the store.
LEMMA CustodyOfNew ==
  ASSUME LifecycleInv, ExecCreateAccount
  PROVE  \/ \E l \in Locators : Custody!Open(l)
         \/ UNCHANGED <<ReadableKey, OwnAccounts, OwnLocator>>
<1> USE DEF LifecycleInv
<1>1. UNCHANGED <<ReadableKey, OwnLocator>> /\ pc = "exec"
  BY DEF ExecCreateAccount, server, ReadableKey, OwnLocator, At
<1>2. CASE UNCHANGED accounts
  BY <1>1, <1>2 DEF OwnAccounts, LiveAccounts
<1>3. ASSUME NEW l \in Locators \ Foreign, NewAccount(l) PROVE Custody!Open(l)
  <2>1. ReadableKey = key /\ ReadableKey # None
    <3>1. secret.state = "live" /\ secret.key = key
      BY <1>1 DEF StageInv
    <3> QED
      BY <3>1 DEF ReadableKey, CachedInv
  <2>2. OwnAccounts = {}
    BY <1>3 DEF NewAccount, OwnAccounts
  <2>3. LiveAccounts' = {l} /\ accounts'[l].key = key
    BY <1>3 DEF NewAccount, LiveAccounts, TypeOK
  <2>4. OwnAccounts' = {[at |-> l, key |-> ReadableKey]}
    BY <1>3, <2>1, <2>3 DEF OwnAccounts
  <2> QED
    BY <1>1, <2>1, <2>2, <2>4 DEF Custody!Open
<1>4. \A l \in Foreign : ~NewAccount(l)
  BY ConstantsAssumption DEF RecordedInv, NewAccount
<1> QED
  BY <1>2, <1>3, <1>4 DEF ExecCreateAccount

\* Tearing down closes every account, and an operator's cleanup takes the key with it.
LEMMA CustodyOfOld ==
  ASSUME LifecycleInv, DropAccount \/ OperatorCleanup
  PROVE  Custody!Close \/ Custody!Clear \/ UNCHANGED <<ReadableKey, OwnAccounts, OwnLocator>>
<1> USE DEF LifecycleInv
<1>1. \A l \in Locators : accounts[l] \in AccountType
  BY DEF TypeOK
<1>2. UNCHANGED OwnLocator
  BY DEF DropAccount, OperatorCleanup, server, OwnLocator
<1>3. CASE DropAccount
  <2>1. UNCHANGED ReadableKey
    BY <1>3 DEF DropAccount, ReadableKey
  <2>2. DropByName => OwnAccounts' = {}
    BY <1>1, EditedAccountFields DEF DropByName, OwnAccounts, LiveAccounts
  <2>3. UNCHANGED accounts => UNCHANGED OwnAccounts
    BY DEF OwnAccounts, LiveAccounts
  <2>4. DropByName \/ UNCHANGED accounts
    BY <1>3 DEF DropAccount
  <2> QED
    BY <1>2, <2>1, <2>2, <2>3, <2>4 DEF Custody!Close
<1>4. CASE OperatorCleanup
  <2>1. ReadableKey' = None
    BY <1>4 DEF OperatorCleanup, NoSecret, ReadableKey
  <2>2. OwnAccounts' = {}
    BY <1>1, <1>4, EditedAccountFields DEF OperatorCleanup, OwnAccounts, LiveAccounts
  <2> QED
    BY <1>2, <2>1, <2>2 DEF Custody!Clear
<1> QED
  BY <1>3, <1>4

\* Every step of the provider and its surroundings is a step of the custody, or none.
LEMMA CustodyStep ==
  ASSUME LifecycleInv, [Next]_vars
  PROVE  [Custody!Next]_<<ReadableKey, OwnAccounts, OwnLocator>>
<1>1. CASE UNCHANGED vars
  BY <1>1 DEF vars, ReadableKey, OwnAccounts, LiveAccounts, OwnLocator
<1>2. CASE CreateCredentials \/ DeleteCredential \/ PurgeSecret
  BY <1>2, CustodyOfKey DEF Custody!Next
<1>3. CASE ExecCreateAccount
  BY <1>3, CustodyOfNew DEF Custody!Next
<1>4. CASE DropAccount \/ OperatorCleanup
  BY <1>4, CustodyOfOld DEF Custody!Next
<1>5. CASE Next /\ UNCHANGED <<ReadableKey, OwnAccounts>>
  BY <1>5, CustodyOfLocator DEF Custody!Next
<1>6. CASE UserCreate
  <2>1. UNCHANGED accounts /\ \E b \in BOOLEAN : secret' = Ages(secret, b)
    BY <1>6 DEF UserCreate
  <2>2. secret'.state = secret.state /\ secret'.key = secret.key
    BY <2>1 DEF Ages, LifecycleInv, TypeOK, SecretType
  <2>3. UNCHANGED <<ReadableKey, OwnAccounts>>
    BY <2>1, <2>2 DEF ReadableKey, OwnAccounts, LiveAccounts
  <2> QED
    BY <1>5, <1>6, <2>3 DEF Next, Environment
<1>7. CASE Next /\ UNCHANGED <<secret, accounts>>
  BY <1>5, <1>7 DEF ReadableKey, OwnAccounts, LiveAccounts
<1>8. Next => \/ CreateCredentials \/ DeleteCredential \/ PurgeSecret \/ ExecCreateAccount
              \/ DropAccount \/ OperatorCleanup \/ UserCreate \/ UNCHANGED <<secret, accounts>>
  BY DEF Next, Controller, Environment, ReadObject, Observe, Claim, Apply, ReadBack, LookUp,
         LocateCreated, Persist, Conclude, Gate, MarkConsumed, Settle, Release, Crash,
         UserDelete, UserEdit, CacheSync, GraceElapses, ExpireCached, OperatorResumes,
         IssuePermit, ExpirePermit, world
<1> QED
  BY <1>1, <1>2, <1>3, <1>4, <1>6, <1>7, <1>8

\* The provider keeps custody of the accounts it created.
THEOREM LifecycleImplements == ASSUME StaleCache = FALSE PROVE Spec => Implements
<1>1. LifecycleInv /\ [Next]_vars => [Custody!Next]_<<ReadableKey, OwnAccounts, OwnLocator>>
  BY CustodyStep
<1>2. Spec => Custody!Spec
  BY <1>1, CustodyInit, LifecycleInvariant, PTL DEF Spec, Custody!Spec
<1> QED
  BY <1>2 DEF Implements

-----------------------------------------------------------------------------
\* A permit is consumed only once the teardown it authorized is complete.
LEMMA ConsumedStep ==
  ASSUME LifecycleInv, [Next]_vars, NEW p \in Permits,
         permits[p] # "Consumed", permits'[p] = "Consumed"
  PROVE  LiveAccounts = {} /\ secret.state # "live"
<1>0. Next
  BY DEF vars
<1>1. permits # permits'
  OBVIOUS
<1>2. ASSUME NEW q \in Permits, IssuePermit(q) \/ ExpirePermit(q) PROVE FALSE
  BY <1>2 DEF IssuePermit, ExpirePermit, LifecycleInv, TypeOK
<1>3. CASE MarkConsumed
  BY <1>3 DEF MarkConsumed, LifecycleInv, StageInv, At
<1> QED
  BY <1>0, <1>1, <1>2, <1>3
     DEF Next, Controller, Environment, ReadObject, Observe, Claim, Apply, CreateCredentials,
         ReadBack, LookUp, ExecCreateAccount, LocateCreated, Persist, Gate, DropAccount,
         DeleteCredential, Settle, Release, Crash, UserCreate, UserDelete, UserEdit, CacheSync,
         GraceElapses, PurgeSecret, OperatorCleanup, Conclude, ExpireCached, OperatorResumes, world

\* No step consumes a permit before its time.
THEOREM ConsumedOnlyAfterTeardown == ASSUME StaleCache = FALSE PROVE Spec => ConsumedAfterTeardown
<1>1. LifecycleInv /\ [Next]_vars =>
        \A p \in Permits : (permits[p] # "Consumed" /\ permits'[p] = "Consumed") =>
            LiveAccounts = {} /\ secret.state # "live"
  BY ConsumedStep
<1> QED
  BY <1>1, LifecycleInvariant, PTL DEF Spec, ConsumedAfterTeardown

\* Only UserCreate begins an incarnation.
LEMMA UidKept ==
  ASSUME LifecycleInv, Next, ~UserCreate
  PROVE  cr'.uid = cr.uid
<1>0. cr \in Object
  BY DEF LifecycleInv, TypeOK, ServerTypeOK
<1>1. CASE Persist \/ Settle
  <2>1. fresh => obj.uid = cr.uid
    BY DEF LifecycleInv, CopiesInv
  <2> QED
    BY <1>1, <2>1 DEF Persist, Settle, WriteObject, server
<1>2. CASE Claim \/ Conclude \/ Release \/ OperatorResumes \/ UserEdit
  <2>1. \/ cr' = [cr EXCEPT !.finalizer = TRUE, !.creating = TRUE]
        \/ cr' = [cr EXCEPT !.creating = FALSE]
        \/ cr' = NoObject(cr.uid) \/ cr' = cr
    BY <1>2 DEF Claim, ClaimOK, Conclude, Release, OperatorResumes, UserEdit, WriteObject, server
  <2>2. NoObject(cr.uid).uid = cr.uid
    BY NoObjectFields
  <2> QED
    BY <1>0, <2>1, <2>2, EditedObjectFields
<1>3. CASE UserDelete
  BY <1>0, <1>3, EditedObjectFields, NoObjectFields DEF UserDelete, WriteObject
<1>4. CASE UNCHANGED cr
  BY <1>4
<1> QED
  BY <1>1, <1>2, <1>3, <1>4
     DEF Next, Controller, Environment, ReadObject, Observe, Apply, CreateCredentials, ReadBack,
         LookUp, ExecCreateAccount, LocateCreated, Gate, DropAccount, DeleteCredential, MarkConsumed,
         Crash, CacheSync, GraceElapses, ExpireCached, PurgeSecret, OperatorCleanup,
         IssuePermit, ExpirePermit, server

\* A secret is old only for a resource that has been created before.
LEMMA AgedStep ==
  ASSUME LifecycleInv, Next, secret.predates => cr.uid # 0
  PROVE  secret'.predates => cr'.uid # 0
<1>0. cr.uid \in Nat /\ secret \in SecretType
  BY UidsAreNaturals DEF LifecycleInv, TypeOK
<1>1. CASE UserCreate
  <2>1. cr' = [NoObject(cr.uid + 1) EXCEPT !.phase = "live"]
    BY <1>1 DEF UserCreate, WriteObject
  <2>2. cr'.uid = cr.uid + 1
    BY <2>1 DEF NoObject
  <2> QED
    BY <1>0, <2>2
<1>2. CASE ~UserCreate /\ (secret'.predates => secret.predates)
  BY <1>2, UidKept
<1>3. CASE CreateCredentials \/ DeleteCredential
  <2>1. \A k \in Keys : StoreKey(k) => ~secret'.predates
    BY DEF StoreKey
  <2>2. ScheduleRemoval => secret'.predates = secret.predates
    BY <1>0 DEF ScheduleRemoval, SecretType
  <2> QED
    BY <1>1, <1>2, <1>3, <2>1, <2>2 DEF CreateCredentials, DeleteCredential
<1>4. CASE PurgeSecret \/ OperatorCleanup
  BY <1>1, <1>2, <1>4 DEF PurgeSecret, OperatorCleanup, NoSecret
<1>5. CASE UNCHANGED secret
  BY <1>1, <1>2, <1>5
<1> QED
  BY <1>1, <1>3, <1>4, <1>5
     DEF Next, Controller, Environment, ReadObject, Observe, Claim, Apply, ReadBack, LookUp,
         ExecCreateAccount, LocateCreated, Persist, Gate, DropAccount, MarkConsumed, Settle, Release,
         Conclude, Crash, UserDelete, UserEdit, CacheSync, GraceElapses, ExpireCached,
         OperatorResumes, IssuePermit, ExpirePermit, world

\* What a step does to a live account it has a right to.
LEMMA RightStep ==
  ASSUME LifecycleInv, secret.predates => cr.uid # 0, [Next]_vars,
         NEW l \in LiveAccounts, accounts'[l].state # "live"
  PROVE  \/ /\ cr.phase = "deleting"
            /\ protection => permit \in Permits /\ permits[permit] # "none"
         \/ OperatorCleanup /\ accounts[l].uid # cr.uid
<1>0. /\ l \in Locators /\ accounts[l].state = "live" /\ accounts'[l] # accounts[l]
      /\ accounts \in [Locators -> AccountType] /\ permit \in Permits \cup {None}
  BY DEF LiveAccounts, LifecycleInv, TypeOK, PassTypeOK
<1>1. CASE DropAccount
  <2>1. obj.phase = "deleting" /\ obj.locator # None /\ pc = "drop"
    BY <1>1 DEF DropAccount, At, LifecycleInv, StageInv, TrackedInv, Deleting
  <2>2. cr.phase = "deleting"
    BY <2>1 DEF LifecycleInv, TrackedInv
  <2>3. protection => permit \in Permits /\ permits[permit] # "none"
    BY <1>0, <2>1 DEF LifecycleInv, GatedInv
  <2> QED
    BY <2>2, <2>3
<1>2. CASE OperatorCleanup
  <2>1. secret.predates /\ l \notin Foreign
    BY <1>0, <1>2 DEF OperatorCleanup
  <2>2. accounts[l].uid # cr.uid
    BY <1>0, <2>1 DEF LifecycleInv, CreatorInv
  <2> QED
    BY <1>2, <2>2
<1>3. CASE ExecCreateAccount
  BY <1>0, <1>3 DEF ExecCreateAccount, NewAccount
<1>4. CASE UNCHANGED accounts
  BY <1>0, <1>4
<1> QED
  BY <1>1, <1>2, <1>3, <1>4
     DEF vars, Next, Controller, Environment, ReadObject, Observe, Claim, Apply, CreateCredentials,
         ReadBack, LookUp, LocateCreated, Persist, Gate, DeleteCredential, MarkConsumed, Settle,
         Release, Crash, UserCreate, UserDelete, UserEdit, CacheSync, GraceElapses, PurgeSecret,
         Conclude, ExpireCached, OperatorResumes, IssuePermit, ExpirePermit, world

\* Nothing is old before the first incarnation.
LEMMA NothingAged == Init => (secret.predates => cr.uid # 0)
  BY DEF Init, NoSecret

\* Whatever copy a pass works from, and whatever came between its steps, it destroys an
\* account only under the deletion of the present incarnation and, with protection on,
\* with a permit it found Active.
THEOREM DestroysByRight == ASSUME StaleCache = FALSE PROVE Spec => DestroyedByRight
<1> DEFINE Aged == secret.predates => cr.uid # 0
<1>1. LifecycleInv /\ Aged /\ [Next]_vars =>
        \A l \in LiveAccounts : accounts'[l].state # "live" =>
            \/ /\ cr.phase = "deleting"
               /\ protection => permit \in Permits /\ permits[permit] # "none"
            \/ OperatorCleanup /\ accounts[l].uid # cr.uid
  BY RightStep
<1>2. LifecycleInv /\ Aged /\ [Next]_vars => Aged'
  BY AgedStep DEF vars
<1>3. Init => Aged
  BY NothingAged
<1> QED
  BY <1>1, <1>2, <1>3, LifecycleInvariant, PTL DEF Spec, DestroyedByRight

\* All of it holds as well with any removal's answer lost, as long as no resource is
\* created again within the clock-skew buffer: what a stale cached key can do, it does to
\* a successor that takes it for its own (manager.go:129).
THEOREM SafeUnlessRecreatedAtOnce ==
  Spec /\ [][NotRecreatedAtOnce]_vars =>
      /\ [](LiveAccountOpens /\ RecordedAccountOpens /\ OneAccountPerIncarnation /\ NoCreateOnceRecorded)
      /\ Implements /\ ConsumedAfterTeardown /\ DestroyedByRight
<1> DEFINE Aged == secret.predates => cr.uid # 0
           Hyp == Spec /\ [][NotRecreatedAtOnce]_vars
<1>1. LifecycleInv => LiveAccountOpens /\ RecordedAccountOpens /\ OneAccountPerIncarnation /\ NoCreateOnceRecorded
  BY DEF LifecycleInv, RecordedInv, StageInv, Creating, LiveAccountOpens, RecordedAccountOpens,
         NoCreateOnceRecorded, At
<1>2. LifecycleInv /\ [Next]_vars => [Custody!Next]_<<ReadableKey, OwnAccounts, OwnLocator>>
  BY CustodyStep
<1>3. LifecycleInv /\ [Next]_vars =>
        \A p \in Permits : (permits[p] # "Consumed" /\ permits'[p] = "Consumed") =>
            LiveAccounts = {} /\ secret.state # "live"
  BY ConsumedStep
<1>4. LifecycleInv /\ Aged /\ [Next]_vars =>
        \A l \in LiveAccounts : accounts'[l].state # "live" =>
            \/ /\ cr.phase = "deleting"
               /\ protection => permit \in Permits /\ permits[permit] # "none"
            \/ OperatorCleanup /\ accounts[l].uid # cr.uid
  BY RightStep
<1>5. LifecycleInv /\ Aged /\ [Next]_vars => Aged'
  BY AgedStep DEF vars
<1>6. Init => Aged
  BY NothingAged
<1>7. Hyp => Custody!Spec
  BY <1>2, CustodyInit, LifecycleInvariantUnhurried, PTL DEF Spec, Custody!Spec
<1>8. Hyp => ConsumedAfterTeardown
  BY <1>3, LifecycleInvariantUnhurried, PTL DEF Spec, ConsumedAfterTeardown
<1>9. Hyp => DestroyedByRight
  BY <1>4, <1>5, <1>6, LifecycleInvariantUnhurried, PTL DEF Spec, DestroyedByRight
<1>10. Hyp => [](LiveAccountOpens /\ RecordedAccountOpens /\ OneAccountPerIncarnation /\ NoCreateOnceRecorded)
  BY <1>1, LifecycleInvariantUnhurried, PTL
<1> QED
  BY <1>7, <1>8, <1>9, <1>10 DEF Implements

-----------------------------------------------------------------------------
(* Whose account is recorded.                                              *)

\* With a secret no older than the resource, every live account is the incarnation's own.
OwnSecretInv ==
    (secret.state = "live" /\ ~secret.predates) =>
        \A l \in LiveAccounts \ Foreign : accounts[l].uid = cr.uid

\* A recorded locator, or one about to be, names an account of this very incarnation.
OwnRecordedInv == cr.locator \in Locators \ Foreign => accounts[cr.locator].uid = cr.uid
OwnFoundInv ==
    (At("persist") /\ fresh /\ obj.locator \in Locators \ Foreign) =>
        accounts[obj.locator].uid = cr.uid

OwnInv == OwnSecretInv /\ OwnRecordedInv /\ OwnFoundInv

\* An account keeps its creator, and is live only as long as it was.
LEMMA CreatorFixed ==
  ASSUME LifecycleInv, Next, NEW l \in Locators, accounts[l].state # "unused"
  PROVE  accounts'[l].uid = accounts[l].uid /\ (accounts'[l].state = "live" => accounts[l].state = "live")
<1>0. accounts \in [Locators -> AccountType] /\ accounts[l] \in AccountType
  BY DEF LifecycleInv, TypeOK
<1>1. CASE ExecCreateAccount
  BY <1>0, <1>1 DEF ExecCreateAccount, NewAccount
<1>2. CASE DropAccount
  BY <1>0, <1>2, EditedAccountFields DEF DropAccount, DropByName
<1>3. CASE OperatorCleanup
  BY <1>0, <1>3, EditedAccountFields DEF OperatorCleanup
<1>4. CASE UNCHANGED accounts
  BY <1>4
<1> QED
  BY <1>1, <1>2, <1>3, <1>4
     DEF Next, Controller, Environment, ReadObject, Observe, Claim, Apply, CreateCredentials,
         ReadBack, LookUp, LocateCreated, Persist, Gate, DeleteCredential, MarkConsumed, Settle,
         Release, Crash, UserCreate, UserDelete, UserEdit, CacheSync, GraceElapses, PurgeSecret,
         Conclude, ExpireCached, OperatorResumes, IssuePermit, ExpirePermit, world

\* A new account is made by the incarnation whose create is under way.
LEMMA CreatedByOwn ==
  ASSUME LifecycleInv, Next, NEW l \in Locators, accounts[l].state = "unused", accounts'[l].state # "unused"
  PROVE  accounts'[l].uid = cr.uid
<1>0. accounts \in [Locators -> AccountType] /\ accounts[l] \in AccountType
  BY DEF LifecycleInv, TypeOK
<1>1. CASE ExecCreateAccount
  <2>1. obj.uid = cr.uid
    BY <1>1 DEF ExecCreateAccount, LifecycleInv, CreatorInv, Creating, At
  <2> QED
    BY <1>0, <1>1, <2>1 DEF ExecCreateAccount, NewAccount
<1>2. CASE DropAccount
  BY <1>0, <1>2 DEF DropAccount, DropByName, LiveAccounts
<1>3. CASE OperatorCleanup
  BY <1>0, <1>3 DEF OperatorCleanup, LiveAccounts
<1>4. CASE UNCHANGED accounts
  BY <1>4
<1> QED
  BY <1>1, <1>2, <1>3, <1>4
     DEF Next, Controller, Environment, ReadObject, Observe, Claim, Apply, CreateCredentials,
         ReadBack, LookUp, LocateCreated, Persist, Gate, DeleteCredential, MarkConsumed, Settle,
         Release, Crash, UserCreate, UserDelete, UserEdit, CacheSync, GraceElapses, PurgeSecret,
         Conclude, ExpireCached, OperatorResumes, IssuePermit, ExpirePermit, world

\* Every step keeps what a secret says of the accounts.
LEMMA OwnSecretStep ==
  ASSUME LifecycleInv, OwnSecretInv, Next, NotRecreatedAtOnce
  PROVE  OwnSecretInv'
<1>0. /\ accounts \in [Locators -> AccountType] /\ secret \in SecretType
      /\ cr.uid \in Nat
  BY UidsAreNaturals DEF LifecycleInv, TypeOK
<1>1. CASE UserCreate
  <2>1. cr'.uid = cr.uid + 1
    BY <1>1, NoObjectFields DEF UserCreate, WriteObject
  <2>2. \A b \in BOOLEAN : Ages(secret, b).state = secret.state
    BY <1>0 DEF Ages, SecretType
  <2>3. secret'.state = "live" => secret'.predates
    BY <1>0, <1>1, <2>1, <2>2 DEF UserCreate, NotRecreatedAtOnce
  <2> QED
    BY <2>3 DEF OwnSecretInv
<1>2. CASE ~UserCreate
  <2>1. cr'.uid = cr.uid
    BY <1>2, UidKept
  <2>2. ASSUME secret.state = "live" => secret.predates, UNCHANGED accounts
        PROVE  secret'.state = "live" /\ ~secret'.predates => \A l \in LiveAccounts' \ Foreign : FALSE
    <3>1. CASE CreateCredentials
      <4>1. CASE secret.state = "absent"
        BY <2>2, <4>1 DEF LifecycleInv, LiveAccountOpens, Opens, LiveAccounts
      <4>2. CASE secret.state # "absent"
        BY <2>2, <3>1, <4>2 DEF CreateCredentials, StoreKey, Vacant
      <4> QED
        BY <4>1, <4>2
    <3>2. CASE DeleteCredential
      BY <1>0, <2>2, <3>2 DEF DeleteCredential, ScheduleRemoval, SecretType
    <3>3. CASE secret' \in {secret, NoSecret}
      BY <2>2, <3>3 DEF NoSecret
    <3> QED
      BY <1>2, <3>1, <3>2, <3>3
         DEF Next, Controller, Environment, ReadObject, Observe, Claim, Apply, ReadBack, LookUp,
             ExecCreateAccount, LocateCreated, Persist, Gate, DropAccount, MarkConsumed, Settle,
             Release, Crash, UserDelete, UserEdit, CacheSync, GraceElapses, PurgeSecret,
             OperatorCleanup, Conclude, ExpireCached, OperatorResumes, IssuePermit, ExpirePermit, world
  <2>3. CASE secret.state = "live" /\ ~secret.predates
    <3> SUFFICES ASSUME NEW l \in LiveAccounts' \ Foreign PROVE accounts'[l].uid = cr.uid
      BY <2>1 DEF OwnSecretInv
    <3>1. l \in Locators /\ accounts'[l].state = "live"
      BY DEF LiveAccounts
    <3>2. CASE accounts[l].state = "unused"
      BY <3>1, <3>2, CreatedByOwn
    <3>3. CASE accounts[l].state # "unused"
      <4>1. l \in LiveAccounts \ Foreign /\ accounts'[l].uid = accounts[l].uid
        BY <3>1, <3>3, CreatorFixed DEF LiveAccounts
      <4> QED
        BY <2>3, <4>1 DEF OwnSecretInv
    <3> QED
      BY <3>2, <3>3
  <2>4. CASE (secret.state = "live" => secret.predates) /\ UNCHANGED accounts
    BY <2>2, <2>4 DEF OwnSecretInv
  <2>5. CASE (secret.state = "live" => secret.predates) /\ accounts' # accounts
    <3>1. CASE ExecCreateAccount
      BY <2>5, <3>1 DEF ExecCreateAccount, LifecycleInv, StageInv, At
    <3>2. CASE DropAccount
      BY <2>5, <3>2 DEF DropAccount, OwnSecretInv
    <3>3. CASE OperatorCleanup
      BY <3>3 DEF OperatorCleanup, NoSecret, OwnSecretInv
    <3> QED
      BY <1>2, <2>5, <3>1, <3>2, <3>3
         DEF Next, Controller, Environment, ReadObject, Observe, Claim, Apply, CreateCredentials,
             ReadBack, LookUp, LocateCreated, Persist, Gate, DeleteCredential, MarkConsumed, Settle,
             Release, Crash, UserDelete, UserEdit, CacheSync, GraceElapses, PurgeSecret,
             Conclude, ExpireCached, OperatorResumes, IssuePermit, ExpirePermit, world
  <2> QED
    BY <2>3, <2>4, <2>5
<1> QED
  BY <1>1, <1>2

\* A new incarnation has no locator.
LEMMA CreatedUnrecorded == UserCreate => cr'.locator = None
<1> SUFFICES ASSUME UserCreate PROVE cr'.locator = None
  OBVIOUS
<1>1. cr' = [NoObject(cr.uid + 1) EXCEPT !.phase = "live"]
  BY DEF UserCreate, WriteObject
<1> QED
  BY <1>1 DEF NoObject

\* The locator the API server holds is the one it held, none, or what Persist writes.
LEMMA LocatorWritten ==
  ASSUME LifecycleInv, Next
  PROVE  \/ cr'.locator = cr.locator \/ cr'.locator = None
         \/ Persist /\ fresh /\ cr' = obj
<1>0. cr \in Object
  BY DEF LifecycleInv, TypeOK, ServerTypeOK
<1>1. CASE Persist
  BY <1>1 DEF Persist, WriteObject, server
<1>2. CASE Settle
  BY <1>2 DEF Settle, WriteObject, server, At, LifecycleInv, RecordedInv
<1>3. CASE Claim \/ Conclude \/ OperatorResumes \/ UserEdit
  <2>1. \/ cr' = [cr EXCEPT !.finalizer = TRUE, !.creating = TRUE]
        \/ cr' = [cr EXCEPT !.creating = FALSE] \/ cr' = cr
    BY <1>3 DEF Claim, ClaimOK, Conclude, OperatorResumes, UserEdit, WriteObject, server
  <2> QED
    BY <1>0, <2>1, EditedObjectFields
<1>4. CASE UserDelete \/ Release
  <2>1. cr' = [cr EXCEPT !.phase = "deleting"] \/ cr' = NoObject(cr.uid) \/ cr' = cr
    BY <1>4 DEF UserDelete, Release, WriteObject, server
  <2>2. NoObject(cr.uid).locator = None
    BY NoObjectFields
  <2> QED
    BY <1>0, <2>1, <2>2, EditedObjectFields
<1>5. CASE UNCHANGED cr
  BY <1>5
<1> QED
  BY <1>1, <1>2, <1>3, <1>4, <1>5, CreatedUnrecorded
     DEF Next, Controller, Environment, ReadObject, Observe, Apply, CreateCredentials, ReadBack,
         LookUp, ExecCreateAccount, LocateCreated, Gate, DropAccount, DeleteCredential, MarkConsumed,
         Crash, CacheSync, GraceElapses, ExpireCached, PurgeSecret, OperatorCleanup,
         IssuePermit, ExpirePermit, server

\* Every step keeps what is said of the recorded locator.
LEMMA OwnRecordedStep ==
  ASSUME LifecycleInv, OwnRecordedInv, OwnFoundInv, Next
  PROVE  OwnRecordedInv'
<1> SUFFICES ASSUME cr'.locator \in Locators \ Foreign
             PROVE  accounts'[cr'.locator].uid = cr'.uid
  BY DEF OwnRecordedInv
<1>0. None \notin Locators
  BY ConstantsAssumption
<1>1. ~UserCreate
  BY <1>0, CreatedUnrecorded
<1>2. cr'.uid = cr.uid
  BY <1>1, UidKept
<1>3. CASE cr'.locator = cr.locator
  <2>1. accounts[cr.locator].uid = cr.uid /\ accounts[cr.locator].state # "unused"
    BY <1>3 DEF OwnRecordedInv, LifecycleInv, RecordedInv
  <2>2. accounts'[cr.locator].uid = accounts[cr.locator].uid
    BY <1>3, <2>1, CreatorFixed
  <2> QED
    BY <1>2, <1>3, <2>1, <2>2
<1>4. CASE Persist /\ fresh /\ cr' = obj
  <2>1. accounts[obj.locator].uid = cr.uid
    BY <1>4 DEF OwnFoundInv, Persist
  <2> QED
    BY <1>2, <1>4, <2>1 DEF Persist, world
<1> QED
  BY <1>0, <1>3, <1>4, LocatorWritten

\* Every step keeps what is said of the locator a pass found.
LEMMA OwnFoundStep ==
  ASSUME LifecycleInv, OwnInv, Next
  PROVE  OwnFoundInv'
<1> SUFFICES ASSUME pc' = "persist", fresh', obj'.locator \in Locators \ Foreign
             PROVE  accounts'[obj'.locator].uid = cr'.uid
  BY DEF OwnFoundInv, At
<1>0. None \notin Locators /\ obj \in Object
  BY ConstantsAssumption DEF LifecycleInv, TypeOK, PassTypeOK
<1>1. ~EndPass /\ ~Overtake /\ ~OperatorResumes
  BY EndPassFields DEF Overtake, OperatorResumes, pass, At
<1>2. cr'.uid = cr.uid
  BY <1>1, UidKept DEF UserCreate
<1>3. CASE Apply
  <2>1. obj' = obj /\ fresh /\ pc = "apply" /\ UNCHANGED <<cr, accounts>>
    BY <1>1, <1>3, FinishSteps DEF Apply, GoTo, At, server
  <2>2. obj.locator = cr.locator
    BY <2>1 DEF LifecycleInv, CopiesInv
  <2> QED
    BY <2>1, <2>2 DEF OwnInv, OwnRecordedInv
<1>4. CASE LookUp \/ LocateCreated
  <2>1. /\ pc \in {"lookup", "locate"} /\ UNCHANGED <<cr, accounts>>
        /\ \/ UNCHANGED obj
           \/ \E l \in LiveAccounts : GoRecording("persist", l)
    BY <1>4 DEF LookUp, LocateCreated, FinishCreate, Listed, GoTo, At, server
  <2>2. obj.locator = None /\ secret.state = "live" /\ ~secret.predates
    BY <2>1 DEF LifecycleInv, StageInv, Creating
  <2>3. obj'.locator \in LiveAccounts
    BY <1>0, <2>1, <2>2, GoRecordingFields
  <2> QED
    BY <2>1, <2>2, <2>3 DEF OwnInv, OwnSecretInv
<1>5. CASE CreateCredentials \/ ReadBack \/ ExecCreateAccount
  <2>1. UNCHANGED obj /\ Creating
    BY <1>5 DEF CreateCredentials, ReadBack, ExecCreateAccount, GoTo, GoHolding, At, Creating
  <2> QED
    BY <1>0, <2>1 DEF LifecycleInv, StageInv
<1>6. CASE UNCHANGED <<pc, obj, fresh>>
  <2>1. accounts[obj.locator].uid = cr.uid /\ accounts[obj.locator].state # "unused"
    BY <1>6 DEF OwnInv, OwnFoundInv, LifecycleInv, RecordedInv, At
  <2> QED
    BY <1>2, <1>6, <2>1, CreatorFixed
<1>7. CASE ReadObject \/ Observe \/ Claim \/ Persist \/ Conclude \/ Settle \/ Release \/ Crash
  BY <1>1, <1>7, FinishSteps
     DEF ReadObject, Observe, ObserveDeleting, ObserveLive, Claim, ClaimOK, Persist, Conclude,
         Settle, Release, Crash, GoTo
<1>8. CASE Gate \/ DropAccount \/ DeleteCredential \/ MarkConsumed
  BY <1>8 DEF Gate, DropAccount, DeleteCredential, MarkConsumed, GoTo, GoRecording
<1> QED
  BY <1>1, <1>3, <1>4, <1>5, <1>6, <1>7, <1>8
     DEF Next, Controller, Environment, UserCreate, UserDelete, UserEdit, CacheSync, GraceElapses,
         ExpireCached, PurgeSecret, OperatorCleanup, IssuePermit, ExpirePermit, pass

\* What RecordedAccountIsOwn claims of the code and a foreign account of the name refutes
\* does hold of every other account: what is recorded was created by the very incarnation
\* that records it, and by no predecessor whose create crashed (apply.go:149-151).
THEOREM RecordsItsOwn == Spec /\ [][NotRecreatedAtOnce]_vars => []OwnRecordedInv
<1>1. Init => OwnInv
  <2> SUFFICES ASSUME Init PROVE OwnInv
    OBVIOUS
  <2>1. cr.locator = None /\ secret.state = "absent" /\ pc = "idle" /\ None \notin Locators
    BY ConstantsAssumption, NoObjectFields DEF Init, NoSecret
  <2> QED
    BY <2>1 DEF OwnInv, OwnSecretInv, OwnRecordedInv, OwnFoundInv, At
<1>2. LifecycleInv /\ OwnInv /\ [Next]_vars /\ [NotRecreatedAtOnce]_vars => OwnInv'
  <2> SUFFICES ASSUME LifecycleInv, OwnInv, [Next]_vars, [NotRecreatedAtOnce]_vars PROVE OwnInv'
    OBVIOUS
  <2>1. CASE Next /\ NotRecreatedAtOnce
    BY <2>1, OwnSecretStep, OwnRecordedStep, OwnFoundStep DEF OwnInv
  <2>2. CASE UNCHANGED vars
    BY <2>2 DEF vars, OwnInv, OwnSecretInv, OwnRecordedInv, OwnFoundInv, At, LiveAccounts
  <2> QED
    BY <2>1, <2>2
<1>3. OwnInv => OwnRecordedInv
  BY DEF OwnInv
<1> QED
  BY <1>1, <1>2, <1>3, LifecycleInvariantUnhurried, PTL DEF Spec
=============================================================================
