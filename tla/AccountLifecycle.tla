-------------------------- MODULE AccountLifecycle --------------------------
(***************************************************************************)
(* One SnowflakeAccount resource from creation to removal, as the provider *)
(* process drives it: the managed reconciler's passes (Observe, Create,    *)
(* Update, Delete of internal/controller/snowflakeaccount), the account    *)
(* module they run (internal/account/modules/account) and the deletion     *)
(* permit gate (internal/deletion), against a Kubernetes API server, a     *)
(* secret store and a Snowflake organization that may each fail a call     *)
(* before or after it took effect.                                         *)
(*                                                                         *)
(* Every call that leaves the process is a step of its own, so a crash, a  *)
(* user's edit or delete, and the passing of time fall between any two of  *)
(* them.  Names are fixed: the resource may be removed and created again   *)
(* under the same name, each time as a new incarnation (uid).              *)
(***************************************************************************)
EXTENDS Naturals, FiniteSets

CONSTANTS
    Locators,         \* account locators Snowflake may assign
    Foreign,          \* locators of accounts with this resolved name that the resource did not create
    Keys,             \* keypairs secrets.NewCredentials may generate
    Permits,          \* DeletionPermit objects that target the resource
    None,             \* "" or nil
    StaleCache,       \* whether a removal's answer may be lost while the process still caches the key
    MaxIncarnations,  \* bound: how often the resource is created
    MaxFaults         \* bound: crashes, failed calls, lost answers and conflicting edits

ASSUME ConstantsAssumption ==
    /\ Foreign \subseteq Locators
    /\ None \notin Locators \cup Keys \cup Permits
    /\ StaleCache \in BOOLEAN
    /\ MaxIncarnations \in Nat
    /\ MaxFaults \in Nat

VARIABLES
    cr,        \* the SnowflakeAccount object held by the API server
    cache,     \* the informer's copy of it
    cacheFresh,\* whether that copy is current
    pc,        \* the call the reconcile pass in progress makes next
    obj,       \* the pass's own copy of the object
    fresh,     \* whether that copy carries the current resourceVersion
    key,       \* the credentials the pass holds
    permit,    \* the permit the pass was authorized by
    secret,    \* the secret stored at the resource's tenant identifier
    cached,    \* the KeyManager's copy of it
    protection,\* cfg.Deletion.Protection of the running process
    accounts,  \* every account of the organization that bears the resolved name
    permits,   \* status.state of every permit
    inGrace,   \* AccountCreatedAt lies less than the creation grace period back
    minted,    \* keys generated so far and written to the store
    faults     \* faults so far

vars == <<cr, cache, cacheFresh, pc, obj, fresh, key, permit, secret, cached, protection,
          accounts, permits, inGrace, minted, faults>>
pass == <<pc, obj, fresh, key, permit>>
server == <<cr, cache, cacheFresh>>
process == <<cached, protection>>
world == <<secret, cached, protection, accounts, permits, inGrace, minted>>

-----------------------------------------------------------------------------
(* Types.                                                                  *)

Uids == 0 .. MaxIncarnations

Object == [phase : {"absent", "live", "deleting"}, uid : Uids,
           finalizer : BOOLEAN, locator : Locators \cup {None},
           creating : BOOLEAN]  \* a creation was announced and not concluded

NoObject(uid) ==
    [phase |-> "absent", uid |-> uid, finalizer |-> FALSE, locator |-> None, creating |-> FALSE]

\* Where a pass can be; each value names the call the pass makes next.
Stages == {"idle", "observe", "claim", "apply", "credentials", "readback", "lookup",
           "exec", "locate", "persist", "conclude", "gate", "drop", "delcred", "consume",
           "settle", "release"}

SecretType == [state : {"absent", "live", "pending"}, key : Keys \cup {None}, predates : BOOLEAN]

NoSecret == [state |-> "absent", key |-> None, predates |-> FALSE]

AccountType == [state : {"unused", "live", "dropped"}, key : Keys \cup {None}, uid : Uids]

PassTypeOK ==
    /\ pc \in Stages
    /\ obj \in Object
    /\ fresh \in BOOLEAN
    /\ key \in Keys \cup {None}
    /\ permit \in Permits \cup {None}

ServerTypeOK == cr \in Object /\ cache \in Object /\ cacheFresh \in BOOLEAN

TypeOK ==
    /\ PassTypeOK
    /\ ServerTypeOK
    /\ secret \in SecretType
    /\ cached \in SecretType
    /\ protection \in BOOLEAN
    /\ accounts \in [Locators -> AccountType]
    /\ permits \in [Permits -> {"none", "Active", "Expired", "Consumed"}]
    /\ inGrace \in BOOLEAN
    /\ minted \subseteq Keys
    /\ faults \in Nat

LiveAccounts == {l \in Locators : accounts[l].state = "live"}

-----------------------------------------------------------------------------
Init ==
    /\ cr = NoObject(0)
    /\ cache = NoObject(0)
    /\ cacheFresh = TRUE
    /\ pc = "idle"
    /\ obj = NoObject(0)
    /\ fresh = FALSE
    /\ key = None
    /\ permit = None
    /\ secret = NoSecret
    /\ cached = NoSecret
    /\ protection \in BOOLEAN
    /\ accounts = [l \in Locators |->
                     [state |-> IF l \in Foreign THEN "live" ELSE "unused", key |-> None, uid |-> 0]]
    /\ permits = [p \in Permits |-> "none"]
    /\ inGrace = FALSE
    /\ minted = {}
    /\ faults = 0

-----------------------------------------------------------------------------
(* Building blocks of the steps.                                           *)

Fault == faults < MaxFaults /\ faults' = faults + 1
NoFault == UNCHANGED faults

At(stage) == pc = stage
GoTo(stage) == pc' = stage /\ UNCHANGED <<obj, fresh, key, permit>>
GoHolding(stage, k) == pc' = stage /\ key' = k /\ UNCHANGED <<obj, fresh, permit>>
GoRecording(stage, l) ==
    /\ pc' = stage
    /\ obj' = [obj EXCEPT !.locator = l]
    /\ UNCHANGED <<fresh, key, permit>>
EndPass ==
    /\ pc' = "idle"
    /\ obj' = NoObject(0)
    /\ fresh' = FALSE
    /\ key' = None
    /\ permit' = None

\* A write to the resource through the API server: it carries the resourceVersion
\* the writer read, so it takes effect only from a current copy, and leaves the
\* informer's copy behind.  A write whose answer is lost ends the pass like one that
\* was answered, so that case needs no step of its own.
WriteObject(o) ==
    /\ cr' = o
    /\ cacheFresh' = FALSE
    /\ UNCHANGED cache

\* A write by someone else leaves the pass's copy behind as well.
Overtake == fresh' = FALSE /\ UNCHANGED <<pc, obj, key, permit>>

-----------------------------------------------------------------------------
(* The managed reconciler around the four methods.                         *)

\* The pass starts from the informer's copy, current or not.  A resource whose creation
\* was announced and never concluded is refused, for good: Setup does not declare its
\* external name deterministic.
ReadObject ==
    /\ At("idle")
    /\ cache.phase # "absent"
    /\ ~cache.creating
    /\ pc' = "observe"
    /\ obj' = cache
    /\ fresh' = cacheFresh
    /\ UNCHANGED <<key, permit, server, world, faults>>

\* Mutated form: a write that a stale copy can make.
ClaimUnchecked ==
    /\ WriteObject([cr EXCEPT !.finalizer = TRUE, !.creating = TRUE])
    /\ GoTo("apply")
    /\ NoFault

\* Before Create the reconciler adds its finalizer and announces the creation with
\* writes that a stale copy cannot make; their answer refreshes the copy.
ClaimOK ==
    /\ fresh
    /\ WriteObject([cr EXCEPT !.finalizer = TRUE, !.creating = TRUE])
    /\ pc' = "apply"
    /\ obj' = cr'
    /\ UNCHANGED <<fresh, key, permit>>
    /\ NoFault

Claim ==
    /\ At("claim")
    /\ \/ ClaimOK
       \/ ~fresh /\ EndPass /\ UNCHANGED <<server, faults>>
       \/ Fault /\ EndPass /\ UNCHANGED server
    /\ UNCHANGED world

\* After Create, failed or not, the reconciler writes down that the creation is over; it
\* writes its annotations alone, so the age of its copy does not matter.
Conclude ==
    /\ At("conclude")
    /\ EndPass
    /\ \/ WriteObject([cr EXCEPT !.creating = FALSE]) /\ NoFault
       \/ Fault /\ UNCHANGED server
    /\ UNCHANGED world

\* The status write that follows Delete, whether Delete failed or not: it is what
\* persists a locator that Teardown cleared.
Settle ==
    /\ At("settle")
    /\ EndPass
    /\ \/ fresh /\ WriteObject(obj) /\ NoFault
       \/ ~fresh /\ UNCHANGED <<server, faults>>
       \/ Fault /\ UNCHANGED server
    /\ UNCHANGED world

\* The finalizer is removed once Observe reports that nothing exists.
Release ==
    /\ At("release")
    /\ EndPass
    /\ \/ fresh /\ WriteObject(NoObject(cr.uid)) /\ NoFault
       \/ ~fresh /\ UNCHANGED <<server, faults>>
       \/ Fault /\ UNCHANGED server
    /\ UNCHANGED world

-----------------------------------------------------------------------------
(* external.Observe and external.apply.                                    *)

\* Pipeline.Observe over the account module: the account exists for the managed
\* reconciler once its locator is known and its grace period is over.
Exists == obj.locator # None /\ ~inGrace

\* KeyManager.get: the cached credential if there is one, else the stored one, which is
\* cached.  A secret pending deletion cannot be read.
Held == IF cached.state = "live" THEN cached ELSE secret
Remember == cached' = IF Held.state = "live" THEN Held ELSE cached
Forget == cached' = NoSecret

\* TenantDB: a new connection is made with the credential, a pooled one returned as it is.
Connect == Remember \/ UNCHANGED cached

\* Mutated form: a resource under deletion without a locator is created again.
ObserveDeletingRecreates ==
    /\ obj.phase = "deleting"
    /\ GoTo(IF obj.locator # None THEN "gate" ELSE IF secret.state = "live" THEN "claim" ELSE "release")
    /\ NoFault

\* A resource under deletion is judged by its recorded locator alone.
ObserveDeleting ==
    /\ obj.phase = "deleting"
    /\ GoTo(IF obj.locator # None THEN "gate" ELSE "release")
    /\ NoFault

\* Not there yet: Create.  There: the account is connected to, and
\* there is nothing to do (up to date, or unreachable), or Update.  Reading the namespace
\* labels may fail either way.
ObserveLive ==
    /\ obj.phase = "live"
    /\ \/ ~Exists /\ GoTo("claim") /\ NoFault /\ UNCHANGED cached
       \/ Exists /\ (GoTo("apply") \/ EndPass) /\ NoFault /\ Connect
       \/ EndPass /\ Fault /\ UNCHANGED cached

Observe ==
    /\ At("observe")
    /\ (ObserveDeleting /\ UNCHANGED cached) \/ ObserveLive
    /\ UNCHANGED <<server, secret, protection, accounts, permits, inGrace, minted>>

\* The pass ends, by way of the annotation if it announced a creation.
Finish == IF obj.creating THEN GoTo("conclude") ELSE EndPass

\* A known locator is never created again: the existing account is only
\* re-confirmed, which changes nothing here.  Otherwise the request must pass
\* checkCreatable before any side effect.
Apply ==
    /\ At("apply")
    /\ \/ obj.locator # None /\ Connect /\ GoTo("persist") /\ NoFault
       \/ obj.locator = None /\ UNCHANGED cached /\ GoTo("credentials") /\ NoFault
       \/ obj.locator = None /\ UNCHANGED cached /\ GoTo("persist") /\ Fault
       \/ Finish /\ UNCHANGED cached /\ Fault
    /\ UNCHANGED <<server, secret, protection, accounts, permits, inGrace, minted>>

\* apply ends with its own status write, after a success and after a failure, so
\* that a captured locator survives; a copy made stale meanwhile loses it.
Persist ==
    /\ At("persist")
    /\ Finish
    /\ \/ fresh /\ WriteObject(obj) /\ NoFault
       \/ ~fresh /\ UNCHANGED <<server, faults>>
       \/ Fault /\ UNCHANGED server
    /\ UNCHANGED world

-----------------------------------------------------------------------------
(* createAccount: the fresh create, and its resumption.                    *)

\* The store's create-only rule, and a mutated form that overwrites.
VacantUnlessPending == secret.state # "pending"
Vacant == secret.state = "absent"

StoreKey(k) ==
    /\ Vacant
    /\ k \notin minted
    /\ minted' = minted \cup {k}
    /\ secret' = [state |-> "live", key |-> k, predates |-> FALSE]

\* acquireCredentials' create-only write.  A secret pending deletion is a user
\* error; any other failure, an occupied identifier included, is followed by
\* reading the identifier back.
CreateCredentials ==
    /\ At("credentials")
    /\ \/ \E k \in Keys : StoreKey(k) /\ Forget /\ GoHolding("exec", k) /\ NoFault
       \/ \E k \in Keys : StoreKey(k) /\ GoTo("readback") /\ Fault /\ UNCHANGED cached
       \/ secret.state = "live" /\ GoTo("readback") /\ UNCHANGED <<secret, cached, minted, faults>>
       \/ secret.state = "pending" /\ GoTo("persist") /\ UNCHANGED <<secret, cached, minted, faults>>
       \/ GoTo("readback") /\ Fault /\ UNCHANGED <<secret, cached, minted>>
    /\ UNCHANGED <<server, protection, accounts, permits, inGrace>>

\* resumeCrashedCreate: the occupying credential is this resource's own when it was
\* written no earlier than the resource (less the clock-skew buffer).
Resumable == Held.state = "live" /\ ~Held.predates

ReadBack ==
    /\ At("readback")
    /\ \/ Resumable /\ GoHolding("lookup", Held.key) /\ Remember /\ NoFault
       \/ ~Resumable /\ GoTo("persist") /\ Remember /\ NoFault
       \/ cached.state # "live" /\ GoTo("persist") /\ Fault /\ UNCHANGED cached
    /\ UNCHANGED <<server, secret, protection, accounts, permits, inGrace, minted>>

\* Mutated form: a listing that still shows dropped accounts (SHOW ACCOUNTS HISTORY).
ListedWithDropped == {l \in Locators : accounts[l].state # "unused"}

\* findAccountLocator: the accounts SHOW ACCOUNTS lists under exactly the resolved name.
Listed == LiveAccounts

\* finishCreate: the locator goes into the object in memory; the grace period starts.
FinishCreate(l) ==
    /\ GoRecording("persist", l)
    /\ inGrace' = TRUE

\* The SHOW ACCOUNTS of a resumed create, by name: an account already there is adopted.
LookUp ==
    /\ At("lookup")
    /\ \/ \E l \in Listed : FinishCreate(l) /\ NoFault
       \/ Listed = {} /\ GoTo("exec") /\ UNCHANGED <<inGrace, faults>>
       \/ GoTo("persist") /\ Fault /\ UNCHANGED inGrace
    /\ UNCHANGED <<server, secret, process, accounts, permits, minted>>

\* Snowflake refuses a name that a live account bears.
NewAccount(l) ==
    /\ LiveAccounts = {}
    /\ accounts[l].state = "unused"
    /\ accounts' = [accounts EXCEPT ![l] = [state |-> "live", key |-> key, uid |-> obj.uid]]

ExecCreateAccount ==
    /\ At("exec")
    /\ \/ \E l \in Locators : NewAccount(l) /\ GoTo("locate") /\ NoFault
       \/ \E l \in Locators : NewAccount(l) /\ GoTo("persist") /\ Fault
       \/ LiveAccounts # {} /\ GoTo("persist") /\ UNCHANGED <<accounts, faults>>
       \/ GoTo("persist") /\ Fault /\ UNCHANGED accounts
    /\ UNCHANGED <<server, secret, process, permits, inGrace, minted>>

\* The SHOW ACCOUNTS after CREATE ACCOUNT.
LocateCreated ==
    /\ At("locate")
    /\ \/ \E l \in Listed : FinishCreate(l) /\ NoFault
       \/ GoTo("persist") /\ Fault /\ UNCHANGED inGrace
    /\ UNCHANGED <<server, secret, process, accounts, permits, minted>>

-----------------------------------------------------------------------------
(* external.Delete: the permit gate, Teardown, and the permit's end.       *)

ActivePermits == {p \in Permits : permits[p] = "Active"}

\* Mutated form: finding no Active permit blocks nothing.
GateUnchecked ==
    /\ At("gate")
    /\ \/ /\ protection
          /\ permit' \in ActivePermits
          /\ pc' = "drop"
          /\ UNCHANGED <<obj, fresh, key>>
          /\ NoFault
       \/ (protection => ActivePermits = {}) /\ GoTo("drop") /\ NoFault
       \/ GoTo("settle") /\ Fault
    /\ UNCHANGED <<server, world>>

\* Without an Active permit, deletion is blocked; without protection none is needed.
Gate ==
    /\ At("gate")
    /\ \/ /\ protection
          /\ permit' \in ActivePermits
          /\ pc' = "drop"
          /\ UNCHANGED <<obj, fresh, key>>
          /\ NoFault
       \/ protection /\ ActivePermits = {} /\ GoTo("settle") /\ NoFault
       \/ ~protection /\ GoTo("drop") /\ NoFault
       \/ GoTo("settle") /\ Fault
    /\ UNCHANGED <<server, world>>

\* DROP ACCOUNT IF EXISTS <resolved name>: whichever account bears the name.
DropByName ==
    accounts' = [l \in Locators |->
                   IF l \in LiveAccounts THEN [accounts[l] EXCEPT !.state = "dropped"] ELSE accounts[l]]

\* Mutated forms: the locator is cleared whether or not the drop succeeded, and
\* it is never cleared.
DropAccountForgets ==
    /\ At("drop")
    /\ \/ /\ DropByName
          /\ GoRecording("delcred", None)
          /\ NoFault
       \/ GoRecording("settle", None) /\ Fault /\ UNCHANGED accounts
    /\ UNCHANGED <<server, secret, process, permits, inGrace, minted>>

DropAccountKeepsLocator ==
    /\ At("drop") /\ DropByName /\ GoTo("delcred") /\ NoFault
    /\ UNCHANGED <<server, secret, process, permits, inGrace, minted>>

DropAccount ==
    /\ At("drop")
    /\ \/ /\ DropByName
          /\ GoRecording("delcred", None)
          /\ NoFault
       \/ DropByName /\ GoTo("settle") /\ Fault
       \/ GoTo("settle") /\ Fault /\ UNCHANGED accounts
    /\ UNCHANGED <<server, secret, process, permits, inGrace, minted>>

\* KeyStore.Delete schedules a live secret's removal and is a no-op otherwise.
ScheduleRemoval ==
    secret' = IF secret.state = "live" THEN [secret EXCEPT !.state = "pending"] ELSE secret

\* Mutated form: a failed removal is swallowed.
DeleteCredentialSwallows ==
    /\ At("delcred")
    /\ \/ ScheduleRemoval /\ Forget /\ NoFault
       \/ Fault /\ UNCHANGED <<secret, cached>>
    /\ GoTo(IF permit # None THEN "consume" ELSE "settle")
    /\ UNCHANGED <<server, protection, accounts, permits, inGrace, minted>>

\* KeyManager.DeleteCredentials forgets its copy only when the store reported success.
DeleteCredential ==
    /\ At("delcred")
    /\ \/ /\ ScheduleRemoval
          /\ Forget
          /\ GoTo(IF permit # None THEN "consume" ELSE "settle")
          /\ NoFault
       \/ /\ StaleCache \/ cached.state # "live"
          /\ ScheduleRemoval
          /\ GoTo("settle")
          /\ Fault
          /\ UNCHANGED cached
       \/ GoTo("settle") /\ Fault /\ UNCHANGED <<secret, cached>>
    /\ UNCHANGED <<server, protection, accounts, permits, inGrace, minted>>

\* MarkConsumed writes the permit as the gate read it, so it fails when the permit
\* controller has moved it on since; its error, like every other, only ends Delete.
Consume(p) == permits[p] = "Active" /\ permits' = [permits EXCEPT ![p] = "Consumed"]

MarkConsumed ==
    /\ At("consume")
    /\ GoTo("settle")
    /\ \/ Consume(permit) /\ NoFault
       \/ permits[permit] # "Active" /\ UNCHANGED <<permits, faults>>
       \/ Fault /\ UNCHANGED permits
    /\ UNCHANGED <<server, secret, process, accounts, inGrace, minted>>

\* The process dies; the next one starts with nothing in memory and reads its
\* configuration again.
Crash ==
    /\ ~At("idle")
    /\ EndPass
    /\ Forget
    /\ protection' \in BOOLEAN
    /\ Fault
    /\ UNCHANGED <<server, secret, accounts, permits, inGrace, minted>>

-----------------------------------------------------------------------------
(* The tenant, the platform team, the informer and time.                   *)

\* Whether a live credential was written before this incarnation (less the buffer) is up
\* to how long ago that was; what predated the last incarnation predates this one.
Ages(s, b) == [s EXCEPT !.predates = (s.predates \/ b) /\ s.state = "live"]

UserCreate ==
    /\ cr.phase = "absent"
    /\ cr.uid < MaxIncarnations
    /\ WriteObject([NoObject(cr.uid + 1) EXCEPT !.phase = "live"])
    /\ \E b \in BOOLEAN : secret' = Ages(secret, b) /\ cached' = Ages(cached, b)
    /\ Overtake
    /\ UNCHANGED <<protection, accounts, permits, inGrace, minted, faults>>

UserDelete ==
    /\ cr.phase = "live"
    /\ WriteObject(IF cr.finalizer THEN [cr EXCEPT !.phase = "deleting"] ELSE NoObject(cr.uid))
    /\ Overtake
    /\ UNCHANGED <<world, faults>>

\* Any other write to the resource (a spec edit, a label, an annotation).
UserEdit ==
    /\ cr.phase # "absent"
    /\ WriteObject(cr)
    /\ Overtake
    /\ Fault
    /\ UNCHANGED world

\* Someone finds the refused resource and removes the annotation.
OperatorResumes ==
    /\ At("idle")
    /\ cr.creating
    /\ WriteObject([cr EXCEPT !.creating = FALSE])
    /\ UNCHANGED <<pass, world, faults>>

CacheSync ==
    /\ ~cacheFresh
    /\ cache' = cr
    /\ cacheFresh' = TRUE
    /\ UNCHANGED <<cr, pass, world, faults>>

GraceElapses ==
    /\ inGrace
    /\ inGrace' = FALSE
    /\ UNCHANGED <<server, pass, secret, process, accounts, permits, minted, faults>>

IssuePermit(p) ==
    /\ permits[p] = "none"
    /\ permits' = [permits EXCEPT ![p] = "Active"]
    /\ UNCHANGED <<server, pass, secret, process, accounts, inGrace, minted, faults>>

\* The permit controller, once the window closed.
ExpirePermit(p) ==
    /\ permits[p] = "Active"
    /\ permits' = [permits EXCEPT ![p] = "Expired"]
    /\ UNCHANGED <<server, pass, secret, process, accounts, inGrace, minted, faults>>

\* Secrets.CacheTTL elapses.
ExpireCached ==
    /\ cached.state = "live"
    /\ Forget
    /\ UNCHANGED <<server, pass, secret, protection, accounts, permits, inGrace, minted, faults>>

\* The recovery window of a removed secret elapses: days, where a cached copy lasts minutes.
PurgeSecret ==
    /\ secret.state = "pending"
    /\ cached.state # "live"
    /\ secret' = NoSecret
    /\ UNCHANGED <<server, pass, process, accounts, permits, inGrace, minted, faults>>

\* The manual recovery the module's error asks for: an operator removes the secret
\* that predates the resource together with any account left behind.
OperatorCleanup ==
    /\ secret.state = "live"
    /\ secret.predates
    /\ secret' = NoSecret
    /\ accounts' = [l \in Locators |->
                      IF l \in LiveAccounts \ Foreign THEN [accounts[l] EXCEPT !.state = "dropped"]
                      ELSE accounts[l]]
    /\ UNCHANGED <<server, pass, process, permits, inGrace, minted, faults>>

-----------------------------------------------------------------------------
Controller ==
    \/ ReadObject \/ Observe \/ Claim \/ Apply \/ CreateCredentials \/ ReadBack
    \/ LookUp \/ ExecCreateAccount \/ LocateCreated \/ Persist \/ Conclude
    \/ Gate \/ DropAccount \/ DeleteCredential \/ MarkConsumed \/ Settle \/ Release

Environment ==
    \/ Crash \/ UserCreate \/ UserDelete \/ UserEdit
    \/ CacheSync \/ GraceElapses \/ ExpireCached \/ PurgeSecret
    \/ OperatorCleanup \/ OperatorResumes
    \/ \E p \in Permits : IssuePermit(p) \/ ExpirePermit(p)

Next == Controller \/ Environment

Spec == Init /\ [][Next]_vars

\* The work queue retries every pass, the informer catches up and windows elapse.  Users,
\* faults and operators owe nothing: a refused resource may never be attended to.
Fairness ==
    /\ WF_vars(Controller)
    /\ WF_vars(CacheSync)
    /\ WF_vars(GraceElapses)
    /\ WF_vars(ExpireCached)
    /\ WF_vars(PurgeSecret)

FairSpec == Spec /\ Fairness

-----------------------------------------------------------------------------
(* What the provider promises.                                             *)

Opens(l) == secret.state = "live" /\ secret.key = accounts[l].key

\* The platform never locks itself out: as long as an account this resource created
\* is live, the secret at its identifier is live and holds the account's key, across
\* crashes, lost answers, resumed creates and teardowns (apply.go, teardown.go).
LiveAccountOpens == \A l \in LiveAccounts \ Foreign : Opens(l)

\* A locator recorded on a resource not under deletion names a live account that
\* the stored secret opens (the locator is persisted last, and cleared first).
RecordedAccountOpens ==
    (cr.phase = "live" /\ cr.locator \in Locators \ Foreign) =>
        cr.locator \in LiveAccounts /\ Opens(cr.locator)

\* One incarnation is never the creator of two accounts.
OneAccountPerIncarnation ==
    \A l, m \in Locators :
        ("unused" \notin {accounts[l].state, accounts[m].state}
            /\ accounts[l].uid = accounts[m].uid /\ accounts[m].uid # 0) => l = m

-----------------------------------------------------------------------------
(* The inductive strengthening of the three properties above.              *)

Creating == pc \in {"credentials", "readback", "lookup", "exec", "locate"}
            \/ (pc = "apply" /\ obj.locator = None)

Deleting == pc \in {"gate", "drop", "delcred", "consume", "settle", "release"}

\* Copies age: the pass read what the informer held, the informer what the API
\* server held; a copy still current agrees with what it is a copy of.
CopiesInv ==
    /\ obj.uid <= cache.uid
    /\ cache.uid <= cr.uid
    /\ cacheFresh => cache = cr
    /\ fresh => /\ obj.phase = cr.phase
                     /\ obj.uid = cr.uid
                     /\ obj.finalizer = cr.finalizer
    /\ (fresh /\ pc \in {"observe", "claim", "apply", "gate", "drop", "release"}) => obj.locator = cr.locator
    /\ (cache.phase = "deleting" /\ cache.uid = cr.uid) => cr.phase # "live"
    /\ (~At("idle") /\ obj.phase = "deleting" /\ obj.uid = cr.uid) => cr.phase # "live"

\* A recorded locator was recorded by a pass that saw this very incarnation; it names
\* an account that exists or existed, and a pass replaces it only once that is dropped.
RecordedInv ==
    /\ cr.phase = "deleting" => cr.finalizer
    /\ cr.locator # None => cr.finalizer /\ cr.phase # "absent" /\ cache.uid = cr.uid
    /\ (cr.locator # None /\ ~At("idle")) => obj.uid = cr.uid
    /\ \A l \in Locators :
          l \in {cr.locator, cache.locator, obj.locator} \cup Foreign => accounts[l].state # "unused"
    /\ (fresh /\ At("persist") /\ cr.locator # None) => obj.locator = cr.locator
    /\ (fresh /\ pc \in {"delcred", "consume", "settle"}) =>
           obj.locator = cr.locator \/ (obj.locator = None /\ accounts[cr.locator].state = "dropped")
    /\ (cr.phase = "live" /\ cr.locator \in Locators \ Foreign) =>
           cr.locator \in LiveAccounts /\ ~secret.predates
    /\ (At("persist") /\ fresh /\ cr.phase = "live" /\ obj.locator \in Locators \ Foreign) =>
           obj.locator \in LiveAccounts /\ ~secret.predates

\* What a pass knows when it stands at a given call.
StageInv ==
    /\ ~At("idle") => obj.phase # "absent"
    /\ Creating => cr.finalizer /\ cr.phase # "absent" /\ obj.locator = None /\ cr.locator = None
    /\ (At("persist") /\ fresh) => cr.finalizer
    /\ pc \in {"lookup", "exec", "locate"} =>
           secret.state = "live" /\ ~secret.predates /\ secret.key = key
    /\ Deleting => obj.phase = "deleting"
    /\ pc \in {"delcred", "consume"} => LiveAccounts = {}
    /\ At("consume") => secret.state # "live"
    /\ At("release") => obj.locator = None

\* An account is its creator's until that is gone: the pass and the informer have seen the
\* incarnation that created it, and once it is dropped they know of the deletion.
CreatorInv ==
    /\ (Creating \/ pc \in {"claim", "apply", "persist"}) => obj.phase = "live"
    /\ Creating => obj.uid = cr.uid
    /\ (~At("idle") /\ obj.phase = "deleting" /\ obj.uid = cache.uid) => cache.phase # "live"
    /\ \A l \in Locators : accounts[l].uid <= cr.uid
    /\ \A l \in Locators :
          (accounts[l].state # "unused" /\ accounts[l].uid = cr.uid /\ cr.uid # 0) =>
              /\ cache.uid = cr.uid
              /\ ~At("idle") => obj.uid = cr.uid
              /\ accounts[l].state = "live" => ~secret.predates
              /\ accounts[l].state = "dropped" => "live" \notin {cr.phase, cache.phase, obj.phase}

\* The answer to the removal of a key was lost, under the resource's deletion: the key is
\* gone from the store and no pass can create an account with the cached copy.
Withdrawn ==
    /\ StaleCache
    /\ secret.state # "live"
    /\ "live" \notin {cr.phase, cache.phase, obj.phase}

\* What can be read is a key, and what is cached is the stored one, unless it was withdrawn
\* from there or an operator removed that by hand: it predates the resource then, and no
\* create is resumed with it.
CachedInv ==
    /\ secret.state = "live" => secret.key # None
    /\ cached.state # "pending"
    /\ (cached.state = "live" /\ ~cached.predates) => cached = secret \/ Withdrawn

\* A locator, wherever it is read from, is that of the resource's present incarnation,
\* which cannot go before a pass has seen it cleared.
TrackedInv ==
    /\ cache.locator # None => cache.uid = cr.uid /\ cr.finalizer /\ cr.phase # "absent"
    /\ ((obj.phase = "deleting" /\ obj.locator # None) \/ pc \in {"delcred", "consume", "settle"}) =>
           obj.uid = cr.uid /\ cr.finalizer /\ cr.phase = "deleting"
    /\ (fresh /\ pc \in {"observe", "release"}) => cache.locator = obj.locator
    /\ pc \in {"gate", "drop"} => obj.locator # None

\* With protection on, a pass that destroys holds a permit that was Active when it looked.
GatedInv ==
    /\ (pc \in {"drop", "delcred"} /\ protection) => permit # None
    /\ permit # None => permits[permit] # "none"

\* The inductive invariant: where the pass in progress stands, what its copy, the
\* informer and the API server hold, and what exists outside always agree like this,
\* whatever was lost, overtaken or interrupted (reconciler.go, apply.go, teardown.go).
LifecycleInv ==
    /\ TypeOK /\ LiveAccountOpens /\ OneAccountPerIncarnation
    /\ CopiesInv /\ RecordedInv /\ StageInv /\ CreatorInv /\ CachedInv
    /\ TrackedInv /\ GatedInv

-----------------------------------------------------------------------------
\* createAccount never runs for a resource whose locator the API server holds, not
\* even from a stale informer copy (reconciler.go:229-235: without the write in apply
\* "every later reconcile re-attempts account creation").
NoCreateOnceRecorded ==
    pc \in {"credentials", "readback", "lookup", "exec", "locate"} => cr.locator = None

\* The provider keeps custody of the accounts it created: a key is stored before an account
\* opens with it and withdrawn only when none is left, whatever is recorded was live, and no
\* lost, stale or failed status write makes it lose track of a live account.
OwnLocator == IF cr.locator \in Foreign THEN None ELSE cr.locator
OwnAccounts == {[at |-> l, key |-> accounts[l].key] : l \in LiveAccounts \ Foreign}
ReadableKey == IF secret.state = "live" THEN secret.key ELSE None
Custody == INSTANCE AccountCustody
             WITH deposited <- ReadableKey, live <- OwnAccounts, recorded <- OwnLocator
Implements == Custody!Spec

\* No account of the name is destroyed except under the deletion of the resource's present
\* incarnation and, with protection on, by a pass that found a permit Active; operators
\* remove by hand only what an earlier incarnation created (reconciler.go: "no active
\* request, no destruction").
DestroyedByRight ==
    [][\A l \in LiveAccounts : accounts'[l].state # "live" =>
           \/ /\ cr.phase = "deleting"
              /\ protection => permit \in Permits /\ permits[permit] # "none"
           \/ OperatorCleanup /\ accounts[l].uid # cr.uid]_vars

\* A permit becomes Consumed only after the teardown it authorized is complete: no
\* account of the name is live and no secret readable (spec 020:170: a permit is marked
\* as "used only after the teardown succeeds").
ConsumedAfterTeardown ==
    [][\A p \in Permits :
         (permits[p] # "Consumed" /\ permits'[p] = "Consumed") =>
             LiveAccounts = {} /\ secret.state # "live"]_vars

\* A resource gone from the API server took its secret with it (spec 012, Edge
\* Cases: Teardown without a locator "clears the stray secret a crashed create
\* leaves behind").
StraySecretCleared == cr.phase = "absent" => secret.state # "live"

\* The recorded locator is that of an account the resource created (apply.go:149-151:
\* an account found on resuming is "the tenant's own account").
RecordedAccountIsOwn == cr.locator \notin Foreign

\* Every resource under deletion is eventually released, unless protection is on and no
\* permit is Active: so it is after a crash between the drop and the status write too, when
\* the account is gone, its locator still recorded and its permit perhaps used up.  Not so
\* a resource whose create was interrupted before its annotation was cleared: the managed
\* reconciler refuses that one until somebody removes the annotation.
DeletionCompletes ==
    (cr.phase = "deleting" /\ ~cr.creating)
        ~> (cr.phase = "absent" \/ (protection /\ ActivePermits = {}))

\* Every resource eventually gets its account recorded, unless it is deleted or its
\* identifier is occupied by a secret older than itself (spec 012: if the controller
\* crashes while creating an account, "the next run finds the key that the earlier attempt
\* already stored, and continues with it", "the module resumes automatically").
CreateCompletes ==
    (cr.phase = "live") ~> (cr.locator # None \/ cr.phase # "live" \/ secret.predates)
=============================================================================
