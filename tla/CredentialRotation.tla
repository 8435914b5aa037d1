-------------------------- MODULE CredentialRotation --------------------------
(***************************************************************************)
(* Inline rotation of one Snowflake user's key (internal/snowflake/pool):  *)
(* OrgAdminDB or TenantDB for one target, dialing with the key it reads    *)
(* through KeyManager's cache (internal/secrets), then rotating the key    *)
(* over the pooled connection once it is due.  Calls for one target are    *)
(* serialized by its lock, and one process runs at a time, so a single     *)
(* call in progress is the whole picture; what interleaves with it is the  *)
(* cache's expiry, the key's age, crashes, and calls that fail before or   *)
(* after they took effect.                                                 *)
(***************************************************************************)
EXTENDS Naturals, FiniteSets

CONSTANTS
    Keys,       \* keypairs that may ever be generated
    None,       \* no key
    MaxFaults,  \* bound: crashes and failed calls
    MaxLost     \* bound: store updates that took effect but reported failure

ASSUME RotationAssumption ==
    /\ None \notin Keys
    /\ MaxFaults \in Nat
    /\ MaxLost \in Nat

VARIABLES
    slots,   \* the user's two public keys, as DESC USER reports them
    stored,  \* the key in the secret store
    aged,    \* keys written longer ago than the rotation interval
    cached,  \* the key KeyManager serves without reading the store
    db,      \* the key the pooled *sql.DB logs in with, None before the first dial
    pc,      \* what the call in progress does next
    held,    \* the key the call works with
    slot,    \* the slot targetSlot chose
    minted,  \* keys generated so far
    faults, lost

vars == <<slots, stored, aged, cached, db, pc, held, slot, minted, faults, lost>>

Slots == {"RSA_PUBLIC_KEY", "RSA_PUBLIC_KEY_2"}

TypeOK ==
    /\ slots \in [Slots -> Keys \cup {None}]
    /\ stored \in Keys
    /\ aged \subseteq Keys
    /\ cached \in Keys \cup {None}
    /\ db \in Keys \cup {None}
    /\ pc \in {"idle", "read", "dial", "check", "describe", "alter", "update"}
    /\ held \in Keys \cup {None}
    /\ slot \in Slots
    /\ minted \subseteq Keys
    /\ faults \in Nat
    /\ lost \in Nat

\* Public keys Snowflake accepts for the user.
Accepted == {slots[s] : s \in Slots}

\* CREATE ACCOUNT, or the operator's bootstrap, put the first key into slot one.
Init ==
    /\ stored \in Keys
    /\ slots = [s \in Slots |-> IF s = "RSA_PUBLIC_KEY" THEN stored ELSE None]
    /\ aged = {}
    /\ cached = None
    /\ db = None
    /\ pc = "idle"
    /\ held = None
    /\ slot = "RSA_PUBLIC_KEY"
    /\ minted = {stored}
    /\ faults = 0
    /\ lost = 0

Fault == faults < MaxFaults /\ faults' = faults + 1
NoFault == UNCHANGED faults

Return == pc' = "idle" /\ held' = None

-----------------------------------------------------------------------------
\* A call finds the pooled connection, or has to dial.
Call ==
    /\ pc = "idle"
    /\ pc' = IF db = None THEN "read" ELSE "check"
    /\ UNCHANGED <<slots, stored, aged, cached, db, held, slot, minted, faults, lost>>

\* The store's own calls: what it has is read, or replaced.
GetSecretValue(k) == k = stored
PutSecretValue(k) == stored' = k

\* KeyManager.GetCredentials: a cached entry is served as it is, and only a
\* successful read of the store fills the cache.
Get(k) ==
    \/ cached # None /\ k = cached /\ UNCHANGED cached
    \/ cached = None /\ GetSecretValue(k) /\ cached' = k

ReadForDial ==
    /\ pc = "read"
    /\ \/ \E k \in Keys : Get(k) /\ held' = k /\ pc' = "dial" /\ NoFault
       \/ cached = None /\ Return /\ Fault /\ UNCHANGED cached
    /\ UNCHANGED <<slots, stored, aged, db, slot, minted, lost>>

\* The probe logs in, so a key that is not accepted is never pooled.
Dial ==
    /\ pc = "dial"
    /\ \/ held \in Accepted /\ db' = held /\ pc' = "check" /\ held' = None /\ NoFault
       \/ held \notin Accepted /\ Return /\ UNCHANGED <<db, faults>>
       \/ Return /\ Fault /\ UNCHANGED db
    /\ UNCHANGED <<slots, stored, aged, cached, slot, minted, lost>>

-----------------------------------------------------------------------------
(* maybeRotateLocked and rotateCredential; every failure only ends the call. *)

CredentialDue(k) == k \in aged

CheckAge ==
    /\ pc = "check"
    /\ \/ \E k \in Keys : /\ Get(k)
                          /\ IF CredentialDue(k) THEN pc' = "describe" /\ held' = k ELSE Return
                          /\ NoFault
       \/ cached = None /\ Return /\ Fault /\ UNCHANGED cached
    /\ UNCHANGED <<slots, stored, aged, db, slot, minted, lost>>

\* Mutated forms: the slot in use is chosen; only an empty slot is.
TargetSlotInUse(k, s) == slots[s] = k
TargetSlotEmpty(k, s) == slots[s] = None /\ k \in Accepted

\* The slot that does not match the key at hand, provided the other one does.
TargetSlot(k, s) == k \in Accepted /\ slots[s] # k

\* A statement over the pooled connection can fail once its key is not accepted
\* any more: a physical connection opened since the key was replaced cannot log in.
SessionGone == db \notin Accepted

DescribeUser ==
    /\ pc = "describe"
    /\ \/ \E s \in Slots : TargetSlot(held, s) /\ slot' = s /\ pc' = "alter" /\ UNCHANGED <<held, faults>>
       \/ (~\E s \in Slots : TargetSlot(held, s)) /\ Return /\ UNCHANGED <<slot, faults>>
       \/ SessionGone /\ Return /\ UNCHANGED <<slot, faults>>
       \/ Return /\ Fault /\ UNCHANGED slot
    /\ UNCHANGED <<slots, stored, aged, cached, db, minted, lost>>

\* A generated key is like no other.
NewCredentials == Keys \ minted

\* Mutated form: a write that leaves the cached copy in place.
StoreKeepsCache(k) == PutSecretValue(k) /\ UNCHANGED cached

\* KeyManager.update: the store first, then the cached copy is dropped.
Store(k) == PutSecretValue(k) /\ cached' = None

\* Mutated form: the update that precedes the key's registration.
UpdateUnregistered ==
    /\ pc = "alter"
    /\ \E k \in NewCredentials : Store(k) /\ minted' = minted \cup {k}
    /\ Return
    /\ UNCHANGED <<slots, aged, db, slot, faults, lost>>

\* ALTER USER with a key generated for it.
AlterUser ==
    /\ pc = "alter"
    /\ \/ \E k \in NewCredentials :
             /\ minted' = minted \cup {k}
             /\ slots' = [slots EXCEPT ![slot] = k]
             /\ \/ pc' = "update" /\ held' = k /\ NoFault
                \/ Return /\ Fault
       \/ NewCredentials = {} /\ Return /\ UNCHANGED <<slots, minted, faults>>
       \/ SessionGone /\ Return /\ UNCHANGED <<slots, minted, faults>>
       \/ Return /\ Fault /\ UNCHANGED <<slots, minted>>
    /\ UNCHANGED <<stored, aged, cached, db, slot, lost>>

\* An update that took effect but reported failure leaves the cached copy alone.
UpdateStored ==
    /\ pc = "update"
    /\ Return
    /\ \/ Store(held) /\ UNCHANGED <<faults, lost>>
       \/ PutSecretValue(held) /\ lost < MaxLost /\ lost' = lost + 1 /\ UNCHANGED <<cached, faults>>
       \/ Fault /\ UNCHANGED <<stored, cached, lost>>
    /\ UNCHANGED <<slots, aged, db, slot, minted>>

-----------------------------------------------------------------------------
\* The stored key grows older than the interval.
Age ==
    /\ stored \notin aged
    /\ aged' = aged \cup {stored}
    /\ UNCHANGED <<slots, stored, cached, db, pc, held, slot, minted, faults, lost>>

\* The cached copy reaches its TTL.
Expire ==
    /\ cached # None
    /\ cached' = None
    /\ UNCHANGED <<slots, stored, aged, db, pc, held, slot, minted, faults, lost>>

\* The process ends, between calls or in the middle of one.
Crash ==
    /\ Return
    /\ cached' = None
    /\ db' = None
    /\ Fault
    /\ UNCHANGED <<slots, stored, aged, slot, minted, lost>>

Steps == ReadForDial \/ Dial \/ CheckAge \/ DescribeUser \/ AlterUser \/ UpdateStored

Next == Call \/ Steps \/ Age \/ Expire \/ Crash

Spec == Init /\ [][Next]_vars

\* The poll interval keeps the calls coming, every call ends, and entries expire.
FairSpec == Spec /\ WF_vars(Call \/ Steps) /\ WF_vars(Expire)

-----------------------------------------------------------------------------
\* The key in the store is one Snowflake accepts, at every moment of a rotation and
\* after every crash or failure in it: a restarted process can always log in.
StoredKeyOpens == stored \in Accepted

\* KeyManager never serves a key the store has replaced.
CacheIsCurrent == cached \in {None, stored}

\* Strengthening: the key a rotation starts from is the stored one, the slot it
\* writes holds another, and the key it is about to store is registered.
RotationInv ==
    /\ TypeOK
    /\ StoredKeyOpens
    /\ CacheIsCurrent
    /\ pc \in {"describe", "alter"} => held = stored
    /\ pc = "alter" => slots[slot] # stored
    /\ pc = "update" => held \in Accepted \cap Keys

Handover == INSTANCE KeyHandover

\* The steps of a rotation keep the handover's promise (rotate.go: the new key is
\* registered in the other slot before the store names it).
Implements == Handover!Spec

\* A due key is eventually replaced, failures notwithstanding (rotate.go: "the same check
\* simply runs again on the next call") -- unless the connection it would run over has
\* lost its own key: the pool logs in once and keeps that login, and the second rotation
\* of a process's life overwrites the slot it logged in with.
DueIsRotated ==
    (stored \in aged) ~> (stored \notin aged \/ db \notin Accepted \cup {None} \/ minted = Keys)
=============================================================================
