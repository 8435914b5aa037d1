------------------------------- MODULE Pipeline -------------------------------
(***************************************************************************)
(* internal/account/pipeline under external.Observe, apply and Delete: an  *)
(* ordered list of modules that a reconcile pass observes, applies, or     *)
(* tears down in reverse, and the four values derived from their outcomes  *)
(* (exists, up to date, Ready, the first error).                           *)
(*                                                                         *)
(* A module is what its contract in module.go says: it has the state for   *)
(* one generation of the spec in place, or none, or a state somebody       *)
(* changed.  Each call of a module is a step, so edits of the spec,        *)
(* changes in Snowflake, lost writes and crashes fall between any two.     *)
(* The account module is the one module with a role of its own, and a new  *)
(* account a grace period in which it is not connected to.                 *)
(***************************************************************************)
EXTENDS Naturals, Sequences

CONSTANTS
    N,              \* number of modules; 1 .. N is the order of registration
    Account,        \* the account module
    Aborting,       \* modules that call Abort on an outcome that is not Done
    Detects,        \* modules whose Observe reads their state back
    MaxGeneration,  \* bound: edits of the spec
    MaxFaults       \* bound: failures, waits, changes from outside and crashes

Modules == 1 .. N

ASSUME PipelineAssumption ==
    /\ N \in Nat \ {0}
    /\ Account \in Modules
    /\ Account \in Aborting
    /\ Detects \subseteq Modules \ {Account}
    /\ MaxGeneration \in Nat \ {0}
    /\ MaxFaults \in Nat

VARIABLES
    cr,          \* the resource as the API server holds it
    cache,       \* the informer's copy of it
    cacheFresh,  \* whether that copy is current
    pc,          \* what the pass in progress does
    obj, fresh,  \* the pass's copy, and whether it is current
    outs,        \* the outcomes of the run so far
    state,       \* the generation whose state each module has in place
    done,        \* the generation of each module's last Apply that was Done
    torn,        \* modules whose Teardown was accepted
    grace,       \* whether the account is too new to be connected to
    faults

vars == <<cr, cache, cacheFresh, pc, obj, fresh, outs, state, done, torn, grace, faults>>
server == <<cr, cache, cacheFresh>>
modules == <<state, done, torn>>
world == <<modules, grace>>

Absent == 0
Changed == MaxGeneration + 1

Outcome == {"Done", "Pending", "Drifted", "Failed"}

Object == [phase : {"live", "deleting", "gone"}, generation : 1 .. MaxGeneration,
           observed : 0 .. MaxGeneration, ready : BOOLEAN, located : BOOLEAN,
           creating : BOOLEAN]   \* annotated: a Create has begun and not been concluded

ServerTypeOK == cr \in Object /\ cache \in Object /\ cacheFresh \in BOOLEAN
CopyTypeOK == obj \in Object /\ fresh \in BOOLEAN
RunTypeOK ==
    /\ pc \in {"idle", "refuse", "observe", "claim", "apply", "persist", "conclude", "announce",
               "destroy", "settle", "release"}
    /\ outs \in Seq(Outcome) /\ Len(outs) <= N
WorldTypeOK ==
    /\ state \in [Modules -> Absent .. Changed]
    /\ done \in [Modules -> 0 .. MaxGeneration]
    /\ torn \subseteq Modules
    /\ grace \in BOOLEAN

\* The types; a run never reports more outcomes than there are modules.
TypeOK == ServerTypeOK /\ CopyTypeOK /\ RunTypeOK /\ WorldTypeOK /\ faults \in Nat

Created == [phase |-> "live", generation |-> 1, observed |-> 0, ready |-> FALSE, located |-> FALSE,
            creating |-> FALSE]

Init ==
    /\ cr = Created /\ cache = Created /\ cacheFresh = TRUE
    /\ pc = "idle" /\ obj = Created /\ fresh = FALSE
    /\ outs = <<>>
    /\ state = [m \in Modules |-> Absent]
    /\ done = [m \in Modules |-> 0]
    /\ torn = {}
    /\ grace = FALSE
    /\ faults = 0

Fault == faults < MaxFaults /\ faults' = faults + 1
NoFault == UNCHANGED faults

\* Mutated form: a run goes on from the outcomes of the previous one.
EnterKeeping(stage) == pc' = stage /\ UNCHANGED <<outs, obj, fresh>>

\* Every run starts with no outcomes.
Enter(stage) == pc' = stage /\ outs' = <<>> /\ UNCHANGED <<obj, fresh>>
EndPass == pc' = "idle" /\ outs' = <<>> /\ obj' = Created /\ fresh' = FALSE

Write(o) == cr' = o /\ cacheFresh' = FALSE /\ UNCHANGED cache

\* A write of the pass's copy, as o: a copy that was overtaken is refused.
WriteCopy(o) ==
    /\ \/ fresh /\ Write(o) /\ NoFault
       \/ ~fresh /\ UNCHANGED server /\ NoFault
       \/ UNCHANGED server /\ Fault
    /\ UNCHANGED world

\* The status writes that end a pass; Creating() is one that sets Ready to False.
WriteStatus == EndPass /\ WriteCopy(obj)
WriteCreating == EndPass /\ WriteCopy([obj EXCEPT !.ready = FALSE])

-----------------------------------------------------------------------------
(* Pipeline.Observe, and what the controller makes of it.                  *)

\* An unfinished Create is refused; a pass on a resource under deletion asks no module.
ReadObject ==
    /\ pc = "idle"
    /\ cache.phase # "gone"
    /\ pc' = IF cache.creating THEN "refuse"
             ELSE IF cache.phase = "live" THEN "observe"
             ELSE IF cache.located THEN "destroy" ELSE "release"
    /\ obj' = cache
    /\ fresh' = cacheFresh
    /\ UNCHANGED <<outs, server, world, faults>>

Refuse == pc = "refuse" /\ WriteCreating

\* What module m may report without a fault.
Observes(m) ==
    IF m = Account THEN IF obj.located /\ ~grace THEN "Done" ELSE "Pending"
    ELSE IF state[m] = Absent THEN "Pending"
    ELSE IF m \in Detects /\ state[m] # obj.generation THEN "Drifted"
    ELSE "Done"

ObserveModule ==
    /\ pc = "observe"
    /\ Len(outs) < N
    /\ \/ outs' = Append(outs, Observes(Len(outs) + 1)) /\ NoFault
       \/ outs' = Append(outs, "Failed") /\ Fault
       \/ Len(outs) + 1 # Account /\ outs' = Append(outs, "Pending") /\ Fault
    /\ UNCHANGED <<pc, obj, fresh, server, world>>

Any(o) == \E i \in DOMAIN outs : outs[i] = o

Exists == outs[Account] \in {"Done", "Drifted"}

\* Mutated forms: either half of the question is dropped.
UpToDateByGeneration == obj.observed = obj.generation
UpToDateByDrift == ~Any("Drifted")

UpToDate == obj.observed = obj.generation /\ ~Any("Drifted")

Decide ==
    /\ pc = "observe"
    /\ Len(outs) = N
    /\ IF Any("Failed") THEN EndPass
       ELSE IF ~Exists THEN Enter("claim")
       ELSE IF ~UpToDate THEN Enter("apply")
       ELSE EndPass
    /\ UNCHANGED <<server, world, faults>>

\* The write that precedes Create: it announces one.
Claim ==
    /\ pc = "claim"
    /\ \/ /\ fresh
          /\ Write([cr EXCEPT !.creating = TRUE])
          /\ pc' = "apply" /\ outs' = <<>> /\ obj' = [obj EXCEPT !.creating = TRUE] /\ UNCHANGED fresh
          /\ NoFault
       \/ ~fresh /\ EndPass /\ UNCHANGED server /\ NoFault
       \/ EndPass /\ UNCHANGED server /\ Fault
    /\ UNCHANGED world

-----------------------------------------------------------------------------
(* Pipeline.Apply.                                                         *)

\* Mutated form: a run counts as complete when nothing failed.
CompleteUnlessFailed(run) == \A i \in DOMAIN run : run[i] # "Failed"

\* AllDone: a stopped run always ends in an outcome that is not Done.
Complete(run) == \A i \in DOMAIN run : run[i] = "Done"

Stops(m, o) == o # "Done" /\ m \in Aborting

\* Mutated form: the latch is recomputed at every run.
ReadyThisRun(run) == Complete(run)

\* Ready: latched, or this run was complete.
Ready(run) == obj.ready \/ Complete(run)

\* Module m reported o; the run ends, or goes on with the next module.
Reported(m, o, located) ==
    LET run == Append(outs, o) IN
    /\ outs' = run
    /\ IF Stops(m, o) \/ m = N
       THEN /\ pc' = "persist"
            /\ obj' = [obj EXCEPT !.located = located, !.ready = Ready(run),
                                  !.observed = IF Complete(run) THEN obj.generation ELSE @]
       ELSE pc' = "apply" /\ obj' = [obj EXCEPT !.located = located]
    /\ UNCHANGED fresh

PutInPlace(m) ==
    /\ state' = [state EXCEPT ![m] = obj.generation]
    /\ done' = [done EXCEPT ![m] = obj.generation]

\* The account module creates an account it has no locator of, which begins the grace
\* period, and reports a new one as Pending.
ApplyNewAccount ==
    /\ UNCHANGED <<state, done>>
    /\ \/ ~obj.located /\ Reported(Account, "Pending", TRUE) /\ grace' = TRUE /\ NoFault
       \/ ~obj.located /\ Reported(Account, "Failed", FALSE) /\ UNCHANGED grace /\ Fault
       \/ obj.located /\ grace /\ Reported(Account, "Pending", TRUE) /\ UNCHANGED grace /\ NoFault

\* A module behind the account needs its locator (TenantDB); a failure may leave a
\* part of the module's state behind.
ApplyState(m) ==
    /\ UNCHANGED grace
    /\ \/ (m > Account => obj.located) /\ PutInPlace(m) /\ Reported(m, "Done", obj.located) /\ NoFault
       \/ m # Account /\ Reported(m, "Pending", obj.located) /\ UNCHANGED <<state, done>> /\ Fault
       \/ /\ Reported(m, "Failed", obj.located) /\ Fault
          /\ state' = state \/ state' = [state EXCEPT ![m] = Changed]
          /\ UNCHANGED done

ApplyModule ==
    LET m == Len(outs) + 1 IN
    /\ pc = "apply"
    /\ IF m = Account /\ (grace \/ ~obj.located) THEN ApplyNewAccount ELSE ApplyState(m)
    /\ UNCHANGED <<server, torn>>

\* external.apply's own status write ends an Update; a Create has two writes to come.
Persist ==
    /\ pc = "persist"
    /\ IF obj.creating THEN pc' = "conclude" /\ UNCHANGED <<outs, obj, fresh>> ELSE EndPass
    /\ WriteCopy(obj)

\* The managed reconciler's annotation write after Create: retried on a conflict, it
\* brings the object back as the API server holds it.
Conclude ==
    /\ pc = "conclude"
    /\ \/ /\ Write([cr EXCEPT !.creating = FALSE])
          /\ pc' = "announce" /\ obj' = cr' /\ fresh' = TRUE /\ UNCHANGED outs
          /\ NoFault
       \/ EndPass /\ UNCHANGED server /\ Fault
    /\ UNCHANGED world

\* Its status write after Create, whatever apply has persisted.
Announce == pc = "announce" /\ WriteCreating

-----------------------------------------------------------------------------
(* external.Delete and Pipeline.Destroy.                                   *)

\* Without a permit the deletion is blocked, which also shows in Ready.
Blocked ==
    /\ pc = "destroy"
    /\ outs = <<>>
    /\ pc' = "settle"
    /\ obj' = [obj EXCEPT !.ready = FALSE]
    /\ Fault
    /\ UNCHANGED <<fresh, outs, server, world>>

\* Mutated form: Teardown in the order of registration.
DestroyInOrder == Len(outs) + 1

\* Teardown in reverse.
Destroys == N - Len(outs)

\* The account's Teardown clears the locator once the account is dropped, and may
\* fail after that.
TeardownModule ==
    LET m == Destroys  dropped == [obj EXCEPT !.located = FALSE] IN
    /\ pc = "destroy"
    /\ \/ /\ torn' = torn \cup {m}
          /\ obj' = IF m = Account THEN dropped ELSE obj
          /\ outs' = Append(outs, "Done")
          /\ pc' = IF Len(outs') = N THEN "settle" ELSE "destroy"
          /\ NoFault
       \/ /\ obj' = obj \/ (m = Account /\ obj' = dropped)
          /\ pc' = "settle"
          /\ Fault
          /\ UNCHANGED <<torn, outs>>
    /\ UNCHANGED <<fresh, server, state, done, grace>>

\* The status write that follows Delete, whether it failed or not.
Settle == pc = "settle" /\ WriteStatus

Release ==
    /\ pc = "release"
    /\ EndPass
    /\ \/ fresh /\ Write([cr EXCEPT !.phase = "gone"]) /\ NoFault
       \/ ~fresh /\ UNCHANGED server /\ NoFault
       \/ UNCHANGED server /\ Fault
    /\ UNCHANGED world

-----------------------------------------------------------------------------
(* The tenant, the informer, Snowflake, the process.                       *)

Overtake == fresh' = FALSE /\ UNCHANGED <<pc, obj, outs>>

EditSpec ==
    /\ cr.phase = "live"
    /\ cr.generation < MaxGeneration
    /\ Write([cr EXCEPT !.generation = @ + 1])
    /\ Overtake
    /\ UNCHANGED <<world, faults>>

DeleteResource ==
    /\ cr.phase = "live"
    /\ Write([cr EXCEPT !.phase = "deleting"])
    /\ Overtake
    /\ UNCHANGED <<world, faults>>

CacheSync ==
    /\ ~cacheFresh
    /\ cache' = cr
    /\ cacheFresh' = TRUE
    /\ UNCHANGED <<cr, pc, obj, fresh, outs, world, faults>>

\* Somebody changes what a module put in place.
ChangeOutside(m) ==
    /\ state[m] # Absent
    /\ state' = [state EXCEPT ![m] = Changed]
    /\ Fault
    /\ UNCHANGED <<server, pc, obj, fresh, outs, done, torn, grace>>

GraceElapses ==
    /\ grace
    /\ grace' = FALSE
    /\ UNCHANGED <<server, pc, obj, fresh, outs, modules, faults>>

Crash == pc # "idle" /\ EndPass /\ Fault /\ UNCHANGED <<server, world>>

Controller ==
    \/ ReadObject \/ Refuse \/ ObserveModule \/ Decide \/ Claim \/ ApplyModule \/ Persist
    \/ Conclude \/ Announce \/ Blocked \/ TeardownModule \/ Settle \/ Release

Next ==
    \/ Controller
    \/ EditSpec \/ DeleteResource \/ CacheSync \/ GraceElapses \/ Crash
    \/ \E m \in Modules : ChangeOutside(m)

Spec == Init /\ [][Next]_vars

\* The work queue polls forever, the informer catches up and the grace period elapses.
FairSpec == Spec /\ WF_vars(Controller) /\ WF_vars(CacheSync) /\ WF_vars(GraceElapses)

-----------------------------------------------------------------------------
\* The generation the status claims was put in place by every module, whatever was
\* interrupted, refused or overtaken since (SC-023, "the last apply completed with
\* every module Done for the current spec").
ObservedIsApplied == \A m \in Modules : cr.observed <= done[m]

\* Ready turns true only together with a complete run of the very spec the API server
\* holds (SC-022).  From a live resource it is taken back only by the Creating() write of
\* the Create whose own run earned it, or of the refusal of a Create that was cut short.
ReadyIsEarned ==
    [][/\ (~cr.ready /\ cr'.ready) =>
             cr'.observed = cr.generation /\ \A m \in Modules : done[m] >= cr.generation
       /\ (cr.ready /\ ~cr'.ready) =>
             \/ cr'.phase = "deleting"
             \/ pc = "announce" /\ Complete(outs)
             \/ pc = "refuse" /\ cr.creating]_vars

\* The account is dropped after everything registered behind it (SC-012, SC-013): once
\* the drop has cleared the locator of a resource under deletion, no module that needed
\* the account is left to tear down.
AccountDroppedLast ==
    (cr.phase # "live" /\ pc = "settle" /\ cr.located /\ ~obj.located) => Account + 1 .. N \subseteq torn

(* The inductive strengthening.                                            *)

\* A run in progress has modules left to call, and only a run has outcomes.
ProgressInv ==
    /\ pc \in {"idle", "refuse", "claim", "release"} => outs = <<>>
    /\ pc \in {"apply", "destroy"} => Len(outs) < N

\* Copies age; a current one differs from the object only by what the pass is about to
\* write, and it withdraws Ready only from a resource under deletion.
CopiesInv ==
    /\ cache.generation <= cr.generation
    /\ cacheFresh => cache = cr
    /\ pc \notin {"idle", "announce"} => obj.generation <= cache.generation
    /\ pc \in {"destroy", "settle"} => obj.phase = "deleting"
    /\ fresh =>
          /\ obj.phase = cr.phase /\ obj.generation = cr.generation
          /\ obj.creating = cr.creating
          /\ pc \notin {"persist", "conclude", "settle"} =>
                obj.ready = cr.ready /\ obj.observed = cr.observed
          /\ pc = "persist" => (cr.ready => obj.ready)
          /\ obj.ready => cr.ready \/ obj.observed = obj.generation

\* What any copy claims was applied by every module, and a module's last complete Apply
\* was for no later a spec than the pass sees.
AppliedInv ==
    /\ \A m \in Modules :
          /\ \A o \in {cr, cache, obj} : o.observed <= done[m]
          /\ done[m] <= cache.generation
          /\ pc # "idle" => done[m] <= obj.generation
    /\ pc = "apply" => \A m \in DOMAIN outs : outs[m] = "Done" => done[m] = obj.generation

\* Teardown works its way down, and the locator goes when the account's turn has come.
TornInv ==
    /\ pc = "destroy" => \A m \in Modules : m > N - Len(outs) => m \in torn
    /\ (Account \in torn \/ (pc \in {"destroy", "settle"} /\ ~obj.located)) =>
          Account + 1 .. N \subseteq torn

\* Ready goes with an account that is located and past its grace period.
GroundedInv ==
    \A o \in {cr, cache, obj} : o.ready => ~grace /\ (o.phase = "live" => o.located)

\* So an account that is not there to be observed is that of a resource which is not Ready,
\* and a Create that finds Ready True in the end has earned it in its own run.
EarnedInv ==
    /\ pc \in {"observe", "claim", "apply"} => obj.phase = "live"
    /\ pc \in {"observe", "claim"} => ~obj.creating /\ (fresh => cacheFresh)
    /\ pc = "refuse" => obj.creating
    /\ (pc = "observe" /\ Account \in DOMAIN outs) =>
          \/ outs[Account] = "Failed"
          \/ outs[Account] = "Pending" /\ ~obj.ready
          \/ outs[Account] # "Pending" /\ obj.located
    /\ pc = "claim" => ~obj.ready
    /\ pc = "apply" =>
          /\ ~obj.located => ~cr.ready /\ ~cache.ready
          /\ obj.creating => ~cr.ready /\ ~obj.ready
          /\ (Account \in DOMAIN outs /\ outs[Account] = "Done") => obj.located /\ ~grace
    /\ (pc = "persist" /\ obj.creating) => ~cr.ready /\ (obj.ready => Complete(outs))
    /\ (pc \in {"conclude", "announce"} /\ cr.ready) => Complete(outs)

\* The inductive invariant: at every moment of a run, whatever was overtaken, refused or
\* interrupted before, the outcomes so far, the pass's copy, the informer's and the
\* object agree with what the modules have done (pipeline.go, reconciler.go).
PipelineInv ==
    TypeOK /\ ProgressInv /\ CopiesInv /\ AppliedInv /\ TornInv /\ GroundedInv /\ EarnedInv

\* A Create was cut short before its annotation was cleared: the managed reconciler refuses
\* every pass until somebody removes it.
Interrupted == cr.creating /\ pc = "idle"

\* A change from outside that a module can see is undone (spec 009: "the next apply
\* restores what the spec says"), but for a resource that is refused.
DriftIsUndone ==
    \A m \in Detects :
        (cr.phase = "live" /\ state[m] = Changed)
            ~> (cr.phase # "live" \/ state[m] # Changed \/ Interrupted)

\* Every spec is eventually put in place by every module and claimed, faults aside, but for
\* a resource that is refused.  Ready need not be True then (see ReadyIsEarned).
SpecIsApplied ==
    (cr.phase = "live") ~> (cr.phase # "live" \/ cr.observed = cr.generation \/ Interrupted)
=============================================================================
