# Yukimi in TLA+

Yukimi is a Kubernetes provider (Crossplane) that gives tenants Snowflake accounts. A
tenant creates a `SnowflakeAccount`; the provider creates the account in the company's
Snowflake organization, keeps the credential of the account's platform user in a secret
store, rotates it, and destroys the account when the resource is deleted and a
`DeletionPermit` allows it. This directory holds a formal model of that code: TLA+
modules translated from the Go source, TLC configurations that check them on small
instances, and proofs that TLAPS checks for every value of the constants.

Paths are relative to the repository root. `PROJECT.json` names, for every definition
that models code, the lines it stands for.

## The system

| Part | Code | State it keeps | Operations |
|---|---|---|---|
| SnowflakeAccount controller | `internal/controller/snowflakeaccount` | none of its own; `status` and finalizer of the resource, through an informer cache | Connect, Observe, Create, Update, Delete |
| account pipeline | `internal/account/pipeline` | the outcomes of one run | Observe, Apply, Destroy over an ordered list of modules |
| account module | `internal/account/modules/account` | `status.accountLocator`, `status.accountCreatedAt`, and the account itself | Observe, Apply (create, resume, reconcile), Teardown |
| deletion gate | `internal/deletion` | none; reads and writes permits | FindActivePermit, MarkConsumed |
| DeletionPermit controller | `internal/controller/deletionpermit` | `status.state`, `status.validUntil` | Observe (everything else is empty) |
| credential store | `internal/secrets`, `internal/secrets/aws` | secrets by identifier; a read-through cache | Create, Get, Update, Delete (scheduled) |
| connection pool | `internal/snowflake/pool` | cached `*sql.DB` per target, one mutex per target | OrgAdminDB, TenantDB, EvictTenant, Close |
| key rotation | `internal/snowflake/pool/rotate.go` | the two key slots of the user, the stored key | maybeRotateLocked on every pooled call |
| names | `internal/secrets/identifier.go`, `internal/account/tenant` | none | identifiers of secrets, names of accounts |
| configuration | `internal/config/base`, `internal/config/backplane` | what the files say | Load, Region, ContainsCIDR |
| startup | `cmd/provider` | whether the process runs | main |

How they interact. The managed reconciler of crossplane-runtime calls the controller's
four methods, one pass per resource at a time; passes of different resources run in
parallel and share the pool, the `KeyManager`'s cache and the informer cache. A pass reads
its object from the informer, which lags behind; it writes with the resourceVersion it
read, which the API server refuses if it is out of date. The account module calls
Snowflake (through the pool) and the secret store; neither can be called in one
transaction with the other or with the API server. The permit controller and the deletion
gate share the permit objects. `package/manifests/deployment.yaml` deploys one replica
with `Recreate` and leader election, so there is one process at a time.

What is hard about it:

- **Three stores, no transaction.** Creating an account stores a key, runs CREATE ACCOUNT,
  looks the locator up and records it. A crash, a failed call or a lost answer between any
  two must not leave an account nobody can open, or create a second one. Tearing it down
  goes the other way, with an audit record at its end.
- **Stale copies.** Every decision is made on a copy: the informer's, the cached key, the
  cached connection, the permit's state as last written.
- **Two controllers, one permit.** Expiry by the clock, consumption by a deletion, edits
  and revocation by tenants race over it.
- **Rotation in two services.** The new key must be accepted before the store names it,
  and only two slots exist.
- **Locks around dials.** A dial may hang; what it holds must stop nobody else.
- **Joined names.** Identifiers are joined by a separator that the parts may contain, and
  limits in one place are all that keeps another's limit from being hit.

What makes each part correct is the list of properties under *Runs* below; the hazards
they are for are listed, each at its line, in `PROJECT.json`.

## Modules

| Module | Models | Composes |
|---|---|---|
| `AccountLifecycle` | one resource, from creation to removal, over any number of incarnations: controller, account module, gate, key cache, secret store, API server, organization | the account module's calls inside the controller's passes |
| `AccountCustody` | abstract: a key is stored before an account opens with it and kept until none is left; no locator of a live account is forgotten | refined by `AccountLifecycle` |
| `Pipeline` | the controller over a list of N modules that keep `module.go`'s contract | the same passes, with the module list in place of the one module |
| `DeletionPermit` | permit controller against deletion gate, with the informer, the clock and tenants | both controllers |
| `PermitLifecycle` | abstract: a permit's state only moves forward | refined by `DeletionPermit` |
| `CredentialRotation` | rotation of one user's key through pool, `KeyManager` and store | `rotate.go`, `manager.go`, `connect.go` |
| `KeyHandover` | abstract: the store never names a key that is not accepted | refined by `CredentialRotation` |
| `ConnectionPool` | callers, locks, dials and cached connections | |
| `Naming` | rules on names, identifiers, resolved account names | |
| `Configuration` | what the two files must look like; CIDR containment | extends `Naming` |
| `Admission` | start of the process, then every resource up to its stored credential | extends `Configuration` |
| `MC*` | model values and bounds for TLC | |
| `*_proofs` | theorems and proofs | |

### AccountLifecycle

`pc` is the external call the pass makes next; one action per call, named as the function
that makes it, so that crashes, edits and the passing of time fall between any two.
`ReadObject`, `Claim`, `Conclude`, `Settle` and `Release` are the managed reconciler's own
steps, taken from how `src/` relies on it (crossplane-runtime v2.2.0 is not vendored, so
they are marked external): the read through the informer, the write of finalizer and
creation annotation before Create, the annotation that concludes it, the status write
after Delete, the removal of the finalizer. A resource whose creation was announced and
not concluded (`creating`) is refused by every pass, since `Setup` does not declare its
external name deterministic (`reconciler.go:85`); `OperatorResumes` is the person who
removes the annotation. The reconciler's status writes after Observe, Create and Update
are left out here. They change conditions, which this module does not have, and nothing
else of what `external.apply` has persisted itself; after a Create the condition is
`Creating()`, which sets Ready to False over what apply wrote. `Pipeline`, which has
Ready, models that write.

`obj` is the pass's copy and `fresh` whether its resourceVersion is current; `cache` and
`cacheFresh` are the informer's. A write from a stale copy is refused. Faults are counted:
a crash, a call that fails, a call that took effect and lost its answer, a conflicting
edit. A write to the resource whose answer is lost ends the pass like one that was
answered and needs no step of its own. `secret.predates` is the comparison of timestamps in
`resumeCrashedCreate`. `cached` is the `KeyManager`'s copy of the secret, which a create or
removal clears only when the store reports success; `StaleCache` says whether a removal may
lose its answer while the key is cached (FALSE in the runs, see *Findings*; the theorems
cover both). `protection`
is the setting of the running process; a restart may find another in its file. `accounts`
are the accounts of the organization that bear the resolved name, `Foreign` the ones the
resource did not create. Creation and deletion windows (`inGrace`, the restore and recovery
windows) elapse by themselves; they are not timed, but a recovery window outlasts the
cache's TTL. The permit list is read from the truth here: its staleness is
`DeletionPermit`'s subject, the checks before a create `Admission`'s (here their failure is
a failed call), the search among other accounts `Admission`'s too.

`Implements` maps this to `AccountCustody`: the key that can be read, the live accounts the
resource created with the key that opens each, and the recorded locator.

### Pipeline

A module has in place the state of one generation of the spec, none, or one that somebody
changed. `Observe`, `Apply` and `Teardown` of each module are steps. `Aborting` modules
call `Abort`; `Detects` are those whose Observe reads their state back. Production
registers only the account module today (`Setup`); the contract the others will have to
keep is in `module.go:94-114`, and the model is of the pipeline's promise to all of them.

The account module is not connected to while its account is new (`grace`), and reports
Pending then; so the managed reconciler calls Create again, though the locator is known.
A Create is announced before (`Claim`, which sets `creating`) and concluded behind
`external.apply`'s own status write (`Persist`), by two writes of the reconciler's:
`Conclude` clears the annotation and brings the object back as the API server holds it,
`Announce` persists `Creating()`, that is, Ready False, on that object. A resource whose
Create was not concluded is refused (`Refuse`), which also persists `Creating()`. The
account's Teardown may fail behind the drop, when it has cleared the locator already.

### DeletionPermit

The clock counts poll intervals; a tick waits until the permit controller has seen every
permit, since it polls each once per interval; a deletion's pass may outlast one.
While the process is down, time passes and nothing is observed; `dark` is the last tick
it was down for. `rv` is the resourceVersion; `lister` the informer's copies, in which a
permit that was deleted but still has its finalizer is present and, as in the code, still
authorizes.

`exists` says whether a target's account does, `recorded` whether the resource's status
has its locator; `stale` is a locator cleared in the API server and still in the informer.
The two part ways in a deletion: `Teardown` drops the account, and only `Settle`, the
status write that follows Delete, takes the locator off the record, which the informer
learns later (`SyncTarget`). A crash or a refused write in between leaves the locator, and
the next pass goes through the gate again, with whatever permit is Active by then, to tear
down what is left (`Authorize`). `uses` counts the accounts a permit destroyed; a repeated
pass destroys none. `Existing` are the targets that are there at first: one that is not was
deleted for good, which lets an edit move a permit to a name nobody has.

### CredentialRotation

One target. `slots` are the user's two public keys, `stored` the secret, `cached` the
`KeyManager`'s entry, `held` and `db` the locals of the call and the key the pooled
connection logged in with. `MaxLost` bounds store updates that took effect but reported
failure; with `MaxLost = 0` every other failure and every crash remains. The pool keeps a
connection and the key it was opened with across rotations (`connect.go:53`): the first
one of a process's life leaves that key in its slot, the second overwrites it, and whoever
rotates over this connection after that fails to log in. `DueIsRotated` says so.

### ConnectionPool

`lockOf` numbers the mutexes that `keyLock` makes; callers hold them over look, dial,
install, close of the replaced connection, and rotation. Short sections under `locksMu` and
`entriesMu` are one step each. Handles are interchangeable. `Close` runs when no call is in
flight (a deferred call in `main`, after `mgr.Start` returned). Errors in building an
identifier happen before the lock and change nothing.

### Naming, Configuration, Admission

A name is a sequence of characters. Letters and digits are told apart from each other but
not by kind, and the word `orgadmin` is one character; limits are scaled with it. The hash
that ends an account name is an arbitrary function of the namespace. The loaders accept a
file or end the process, so the order of their checks does not matter. Of `base.yaml` the
cloud sections, the organization, its admin account, the region of the key store and the
grace period of deletions are modelled by rule, the format and range of every other
setting by one flag. `FindAccount` looks a resolved name up as `findAccountLocator` does:
`Like` is the pattern match of SHOW ACCOUNTS, which takes each `_` for a wildcard, `FindRow`
the exact match behind it, which takes the first of the matching positions; case is left
out, since resolved names differ in more than case. An address is a sequence of `Wide` bits, as
`net.IP` has sixteen bytes; an IPv4 one begins with `MappedPrefix` and has `Bits` bits
behind it. A range has the family it is written in: the same addresses may be written as
`10.0.0.0/9` and, in the mapped form of IPv6, as `::ffff:10.0.0.0/105`. `Contains` compares
as `net.IPNet.Contains` does, which tells an IPv4 address by its bits and never by how it
is written; `ContainsCIDR` compares the prefix lengths as they stand, since
`backplane.go:275,282` drop the width that `Mask.Size` reports beside them.

## Runs

`tlc -config X.cfg M` in this directory. Each passing run exhausts its instance.

| Run | Module | Shows | Bounds |
|---|---|---|---|
| `lifecycle_faults` | `MCAccountLifecycle` | `LiveAccountOpens`, `RecordedAccountOpens`: an account of the resource can always be opened with the stored key. `NoCreateOnceRecorded`, `OneAccountPerIncarnation`: never two accounts. `Implements` (`AccountCustody`), `ConsumedAfterTeardown`. `DestroyedByRight`: no account goes but under its present owner's deletion and, with protection on, on a permit. `LifecycleInv` is the inductive invariant | 2 incarnations, 3 faults, 2 locators, 2 keys, 2 permits; symmetry on locators, keys, permits; 633 425 states |
| `lifecycle_live` | `MCAccountLifecycle` | `DeletionCompletes`: a deletion comes to its end, unless protection is on and no permit is Active, or the resource's creation was announced and never concluded | 1 fault, 2 incarnations, 1 permit; 287 442 states |
| `lifecycle_own`, `lifecycle_stray`, `lifecycle_resume` | `MCAccountLifecycle` | violated, see *Findings* | no fault; 1 fault; 1 fault, under the same fairness as `lifecycle_live` |
| `rotation` | `MCCredentialRotation` | `StoredKeyOpens`, `CacheIsCurrent`, `RotationInv`; `Implements` (the handover); `DueIsRotated`: a due key is replaced in the end, unless the pooled connection has lost its own key to an earlier rotation | 4 keys, 3 faults, no lost update; 25 008 states |
| `rotation_lost` | `MCCredentialRotation` | violated, see *Findings* | 1 lost update |
| `permit_race` | `MCDeletionPermit` | `Implements` (`PermitLifecycle`), `ExpiresOnlyWhenClosed`, `TerminalIsFrozen`, `ConsumedForItsTarget`, `AuthorizedWithinPoll`, `PermitEnds`; `DeletionInv` is the inductive invariant | 1 permit, 2 targets of which one is gone for good and one has 2 lives, windows of 1 and 2 polls, time 3, 1 edit, 1 failed call or outage; 1 520 325 states |
| `permit_once` | `MCDeletionPermit` | violated, see *Findings* | 2 lives of one target, 1 edit, no fault |
| `pool` | `MCConnectionPool` | `OneCallInside`, `NothingLeaks`, `NoTwin`, `ReturnsWhatWasAsked`, `CallsReturn`; `PoolInv` is the inductive invariant, `CachedIsOpen` a part of it | 3 callers, org admin and one tenant, 2 locators; 54 258 states |
| `pipeline` | `MCPipeline` | `ObservedIsApplied`, `ReadyIsEarned`, `AccountDroppedLast`, `DriftIsUndone`, `SpecIsApplied`; `PipelineInv` is the inductive invariant | 3 modules, the account module second, 2 generations, 3 faults; 165 145 states |
| `admission` | `MCAdmission` | `NamesAreUnique`, `IdentifiersFit`, `RangesFit`, `RecoveryFits`, `LookUpIsExact` | 10 base files, 484 pairs of ranges over 3-bit addresses of two families and 7 faulty regions, 5 namespaces, 3 names, 2 resources; 322 424 states |

Why the bounds suffice. Two incarnations are what it takes to meet a predecessor's secret
or account; three faults allow a crash in the create, another in its resumption and one in
the teardown. Four keys give three rotations: one that fails after each of its steps, and
the ones that must find a slot among two occupied ones. Two targets and one permit are all
a permit can be confused over: its edit moves the window, or the permit to the other name
and away from the account it was held for; one failed call is a teardown that fails
behind the drop, or a lost status write and the repeated pass it takes. Three
callers are a holder of a lock, a waiter and one in another target; two locators a
recreated account. In a list of three modules the account module has one module before and
one behind it. Two resources suffice for uniqueness. Three bits are an IPv4 address of two
behind a mapped prefix of one, so a range may lie on either side of the family's border or
across it; the ranges of a pair are all there are, up to flipping the same last bits in
both. The other sets of `admission` were chosen so that identifiers do come close:
namespaces with dashes at the places where the joined identifier has them, repeated dashes,
one at the length limit, one that reads `orgadmin`, two namespaces with the same hash, and
names of which one matches the other as a pattern.

`CHECK_DEADLOCK FALSE` is set where a bound stops the system (incarnations, the clock,
generations). The pool, rotation and admission runs keep the deadlock check.

### Fairness

- `AccountLifecycle`, `Pipeline`: weak fairness of the controller's steps (the work queue
  requeues every failed pass and polls), of the informer, of elapsing windows and, in the
  former, of the cache's TTL. Users, operators and faults owe nothing. In particular nobody
  need ever remove the annotation of a creation that was never concluded
  (`OperatorResumes`), so the liveness properties except a resource that is refused for it:
  `~cr.creating` in `DeletionCompletes`, `Interrupted` in `DriftIsUndone` and
  `SpecIsApplied`. `CreateCompletes`, which does not, is finding 3.
- `CredentialRotation`: calls keep coming (every poll reaches the pool) and end, cache
  entries expire. Aging and crashes owe nothing.
- `DeletionPermit`: the informer and the permit controller work (weak), the process comes
  back. The clock is strongly fair, for in the model it waits for the controller to catch
  up, again and again.
- `ConnectionPool`: a call that runs goes on, except that a dial to a `Hung` target may
  never answer; getting a mutex is strongly fair, since `sync.Mutex` hands itself to a
  waiter that starves. Nothing is assumed of a target whose dial hangs.

## Proofs

`tlapm M_proofs.tla`. All theorems hold for every value of the constants that satisfies the
named assumptions (`ConstantsAssumption`, `PermitAssumption`, `PoolAssumption`, ...): any
number of locators, permits, callers, faults, and so on. Every invariant and every action
property that a passing run checks is the statement of one of them.

- `AccountLifecycle_proofs`: `TypeCorrect`, `LifecycleInvariant` and from it
  `LiveAccountsOpen`, `RecordedAccountsOpen`, `OneCreator`, `RecordedIsNotRecreated`,
  `ConsumedOnlyAfterTeardown`, `DestroysByRight` and `LifecycleImplements`, the refinement of
  `AccountCustody`. All but the first under `StaleCache = FALSE`, an explicit hypothesis.
  `LiveAccountOpens` is not
  inductive: a step that schedules the secret's removal is safe only because the pass
  there knows that no account is left (`StageInv`), which holds because a fresh copy
  agrees with the API server (`CopiesInv`) and a recorded locator was recorded by a pass
  that saw this incarnation (`RecordedInv`). `OneAccountPerIncarnation` needs to know what
  a pass that creates cannot have seen: once an account of its incarnation was dropped,
  neither its copy nor the informer's is live any more (`CreatorInv`). A create may be
  resumed with a cached key because what is cached and not older than the resource is what
  is stored, or was withdrawn under a deletion no pass can create in (`CachedInv`).
  `DestroysByRight` needs to know that a locator, in whichever copy it is read, is the
  present incarnation's, so that no pass left over from a predecessor drops a successor's
  account (`TrackedInv`), and that a pass beyond the gate holds the permit it found
  (`GatedInv`).

  What a lost answer to a removal can do (`StaleCache = TRUE`) is bounded by
  `LifecycleInvariantUnhurried` and `SafeUnlessRecreatedAtOnce`: every one of these results
  holds for either value of `StaleCache` in any behaviour in which no resource is created
  again while a key of its predecessor counts as new (`NotRecreatedAtOnce`, the clock-skew
  buffer at `apply.go:254`). `RecordsItsOwn`, under the same hypothesis, is what remains of
  the claim that finding 1 refutes: but for accounts of others, what is recorded was created
  by the very incarnation that records it. It needs an invariant of its own (`OwnInv`): as
  long as the secret is no older than the resource, every live account is the incarnation's.
- `Pipeline_proofs`: `PipelineInvariant` and from it `ClaimsAreTrue`,
  `AccountIsDroppedLast`, `ReadyStaysEarned`. The invariant says
  what a run that stands at module n has shown of the modules before it (`AppliedInv`) or
  behind it (`TornInv`), and which of the pass's copies are still the API server's
  (`CopiesInv`). For Ready it says that a Create is only begun for a resource that is not
  Ready, since a Ready one has an account that is located and past its grace period
  (`GroundedInv`): what `Creating()` takes back is what the same Create has earned
  (`EarnedInv`). `OlderSpecNeverApplied`: passes on stale copies never put an older spec's
  state over a newer one's, since a module's last Apply was for no later a spec than the
  informer's copy and the pass's see. `ClaimsNeverRecede`: `observedGeneration` never falls,
  by one more conjunct on current copies (`ClaimInv`).
- `CredentialRotation_proofs`: `RotationInvariant`, `StoredKeyAlwaysOpens`,
  `CacheAlwaysCurrent`, and `RotationImplements`, the refinement of `KeyHandover`, under
  `MaxLost = 0`, an explicit hypothesis: `rotation_lost` shows that some hypothesis is needed.
  `RotationInvariantWhenLost` and `SafeIfLostUncached` replace it by a weaker one: updates
  may be lost, but not while a key is cached. The invariant says that the key a rotation
  started from is the stored one and the slot it writes holds another. Since keys are never
  registered twice (`SlotsDiffer`), such a slot always exists: `SlotAlwaysFound`, on which
  `DueIsRotated` rests. `LoginKeptUntilReplaced` is about its exception: a rotation over a
  connection whose key is the stored one never takes that key's slot, so only a later
  rotation takes its login away.
- `DeletionPermit_proofs`: `PermitsTyped`, `DeletionInvariant`, `StatesMoveForward` (the
  refinement of `PermitLifecycle`), `ExpiryIsEarned`, `TerminalStaysFrozen`,
  `MarkedForItsTarget`, `AuthorizesInTime`. The invariant is optimistic concurrency's: a
  copy with the object's resourceVersion is the object, or what Observe just computed from
  it (`PermitInv`); what was observed in this interval is open (`SeenInv`). It follows that
  an interval that ends with the process up leaves no permit Active, in the API server or in
  the cache, beyond that interval, which is what `AuthorizesInTime` rests on; the interval
  in which the process comes back from an outage is excepted in the property itself
  (`now = dark`). A pass that marks a permit has its target under deletion and the account
  gone (`AccountInv`), and if the mark is accepted no edit has moved the permit to another
  target meanwhile: `MarkedForItsTarget`. A permit's mark does not say that the account was
  destroyed on that very permit, and no theorem does: see *Findings*.
- `ConnectionPool_proofs`: `PoolInvariant` and from it `RotationIsExclusive`,
  `CacheIsSound`, `EveryConnectionIsOwned`, `OneConnectionPerAccount`, `CallsGetWhatTheyAsk`,
  and `WaitsOnlyForItsOwn`: whoever holds up a call works on that call's own target, the
  safety half of `CallsReturn`. The invariant says who owns each lock and each open
  connection.
- `Admission_proofs`: `NamesStayUnique`, `IdentifiersAlwaysFit`, `RecoveryAlwaysFits`,
  `RangesAlwaysFit`, `LookUpsAreExact`. For the names, a valid namespace has no `_` and a
  valid segment no two separators in
  a row, so a joined identifier splits in one way (`SplitUnique`, `ThreeParts`) and the
  translation of `_` to `-` in the organization, a constant of the process, loses nothing.
  The limits enter only through 63 + 63 + 5 <= 127 + 5 (`LimitsAssumption`). A range that
  starts in another and keeps no fewer bits of the address lies within it, for any widths of
  the two families (`NarrowerIsWithin`). Prefix lengths say which keeps more as long as
  they are of one family, or the candidate alone is IPv4, which keeps the mapped prefix
  besides (`NarrowerKeepsMore`). Where the range alone is, `Contains` refuses a candidate
  that is no IPv4 address (`NetworkOfIPv4`), and one in mapped form is the exception in
  `RangesFit` (`Misjudged`). A list of rows has a first match exactly when it
  has one, and LIKE lets every exact match through.

Only model-checked: liveness under fairness (`DeletionCompletes`, `DueIsRotated`,
`PermitEnds`, `CallsReturn`, `DriftIsUndone`, `SpecIsApplied`), which is beyond the prover;
for three of them a theorem states the safety part that is hard (`SlotAlwaysFound`,
`WaitsOnlyForItsOwn`, `OlderSpecNeverApplied`).

## Findings

Each is the counterexample of a run that checks what the repository says of itself.

1. `lifecycle_own`: a create that failed because another account of the organization has
   the resolved name is resumed, and then records that account as the tenant's
   (`apply.go:153`). A later deletion drops it. That takes a name collision: `RecordsItsOwn`
   proves it of no other account.
2. `lifecycle_stray`: a resource deleted after its create crashed leaves its secret behind,
   although spec 012 says teardown clears it; Observe reports that nothing exists and
   Delete is never called (`reconciler.go:181`).
3. `lifecycle_resume`: spec 012 (lines 86-104, 260-272) has an interrupted create resume by
   itself. After one crash between the reconciler's two creation annotations every pass
   refuses the resource (`reconciler.go:85` does not declare its name deterministic), its
   deletion too, until somebody removes the first annotation.
4. `rotation_lost`: a store update that took effect but reported failure leaves the old key
   in the cache (`manager.go:85`); the next rotation then overwrites the slot of the key
   that is stored. Nothing else goes wrong when an update is lost: `SafeIfLostUncached`.
5. `permit_once`: a permit destroys two accounts of one name, since its Consumed state does
   not reach the gate in time. Either `MarkConsumed` is refused after an edit overtook it
   (`consume.go:38`), and the status write that clears the locator goes through, so that
   the deletion is not repeated and the permit stays Active; or the mark is written and the
   informer the gate lists from still shows the permit as Active.

Noted while modelling, without a run of their own:

- With `StaleCache = TRUE` `lifecycle_faults` finds `LifecycleInv` violated in 21 states: a
  removal whose answer was lost leaves the key in the cache (`manager.go:129`), and a
  resource created again within the clock-skew buffer takes it up. Same cause as
  4; only there, as `SafeUnlessRecreatedAtOnce` proves.
- Specs 009 and 020 say the next reconcile retries a failed teardown from the top.
  `dropAccount` clears the locator (`teardown.go:46`), and the status write after a failed
  Delete persists that, so if deleting the credential fails afterwards the next pass finds
  nothing to tear down and releases the resource. For the same reason a module registered
  before the account module whose Teardown fails after the drop is not retried, though spec
  009:472 has the next attempt walk the whole list again (`reconciler.go:181-184`).
- Where that status write is lost instead, the next pass goes through the gate again though
  the account is gone: without another Active permit the deletion is blocked, with one that
  permit is Consumed having destroyed nothing. `ConsumedForItsTarget` says what a mark does
  mean.
- Ready may stay False after everything is in place. If an account's grace period ends
  between Observe, which reports it as not there yet, and Apply, the Create completes at
  once, `external.apply` persists Ready True, and the reconciler's `Creating()` sets it to
  False. `observedGeneration` is current, so the next passes find the resource up to date
  and latch nothing (`pipeline.go:147-150`): Ready stays False until the spec is edited or
  drifts, where spec 020:97 has it so until the next observe. No fault is needed.
- The second rotation in one process's life overwrites the slot of the key that the pooled
  connection logged in with (`connect.go:53`): new sessions of it, and later rotations, fail
  until the connection is evicted or the process restarts, with no fault and 14 states.
  `rotate.go:65-67` and spec 004:25,35 say that the credential the connection logged in
  with stays valid and that an account is logged into once for the controller's lifetime.
- `ContainsCIDR` compares prefix lengths of different families (`backplane.go:275,282`):
  `::ffff:10.0.0.0/97` passes as within `10.0.0.0/8`, though its addresses are not, and
  `backplane.go:263` says "fully contained".
- A window that closed while the process was down still authorizes until the permit
  controller has polled it; so does a permit terminal in the API server but not yet in the
  informer's copy.
- `Observe` does not compare the platform user's e-mail with the spec, so its drift is seen
  only when the spec changes.
- `identifierPattern` of `base.yaml` accepts `a__b`, which `validateSegment` rejects. The
  process then ends later in startup, at the org-admin connection.
- In an organization named `orgadmin` a tenant's identifier may equal the platform's own.
- A namespace that contains `--` can never get an account.

## Not modelled

`syncPlatformEmail` and the probe of a new connection beyond its success; rendering of SQL
statements and classification of driver errors (`internal/snowflake/statement`, but for
`FindRow`); host names and account URLs; the settings of `database/sql` (`applyPoolSettings`) and its physical
connections; `KeyManager.Invalidate` by outside callers (there are none); PEM and JSON
encodings; backplane parameters (no code reads them yet) and `Region.Connection` (no
caller); namespace labels other than `alpha-tester` (no caller); conditions' texts, events
and logs; generated code, the end-to-end suite and packaging.

## Plan

The order was by what costs most when wrong: losing or doubling an account
(`AccountLifecycle`), losing its key (`CredentialRotation`), destroying without permission
(`DeletionPermit`), the shared machinery below (`ConnectionPool`) and around (`Pipeline`),
and what everything is named after (`Naming`, `Configuration`, `Admission`). Left to do:

1. A module of host names and statement rendering (quoting, bare identifiers), and
   `syncPlatformEmail` as a step of the reconcile path.
2. Rotation and the pool composed: two targets whose rotations share one `KeyManager`.
