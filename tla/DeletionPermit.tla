---------------------------- MODULE DeletionPermit ----------------------------
(***************************************************************************)
(* Deletion permits between the two controllers that share them: the       *)
(* permit controller (internal/controller/deletionpermit), which keeps     *)
(* status.state in step with the clock, and the account controller's       *)
(* deletion gate (internal/deletion, external.Delete), which looks for an  *)
(* Active permit, tears the account down and marks the permit Consumed.    *)
(*                                                                         *)
(* Both read through one informer cache, which may lag behind, and both    *)
(* write through the API server, which refuses a write that is not based   *)
(* on the object's current resourceVersion.  Tenants edit and revoke       *)
(* permits at any time.                                                    *)
(*                                                                         *)
(* A deletion goes through the gate as long as the resource's status has   *)
(* its account's locator, which is cleared by a status write of its own    *)
(* after the account is gone and the permit marked: a pass that is         *)
(* repeated asks for a permit again, and tears down what is left.          *)
(***************************************************************************)
EXTENDS Integers, FiniteSets

CONSTANTS
    Permits, Targets,
    Existing,   \* the targets there are at first; the others were deleted for good
    Windows,    \* values of spec.duration
    MaxTime,    \* bound: the clock
    MaxEdits,   \* bound: edits of a permit's spec
    MaxLives,   \* bound: how often a target is created
    MaxFaults   \* bound: failed calls, and outages of the process

ASSUME PermitAssumption ==
    /\ Targets # {} /\ Existing \subseteq Targets /\ Windows # {}
    /\ Windows \subseteq Nat \ {0}
    /\ {MaxTime, MaxEdits, MaxLives, MaxFaults} \subseteq Nat

VARIABLES
    now,
    dark,     \* the last tick that the process was down for
    permits,  \* the objects as the API server holds them
    lister,   \* the informer's copies
    work,     \* the permit controller's pass over each permit: its copy after Observe
    seen,     \* permits the controller has brought up to date since the last tick
    targets,  \* the resources a permit may name
    exists,   \* whether each one's account does
    recorded, \* whether its status has the locator: "stale" is on record in the cache only
    pc,       \* what the account controller's pass over each target does next
    held,     \* the permit (as listed) that pass was authorized by
    lives, uses, edits, up, faults

clock == <<now, dark>>
resources == <<targets, exists, recorded, lives>>
passes == <<pc, held>>
accounts == <<resources, passes, uses>>
vars == <<clock, permits, lister, work, seen, accounts, edits, up, faults>>
controller == <<work, seen>>
bounds == <<edits, faults>>

States == {"absent", "", "Active", "Expired", "Consumed", "removed"}
Terminal == {"Expired", "Consumed"}

Permit == [state : States, target : Targets, created : 0 .. MaxTime, window : Windows,
           until : Nat, revoked : BOOLEAN, rv : Nat]

NoPermit == [state |-> "absent", target |-> CHOOSE t \in Targets : TRUE, created |-> 0,
             window |-> CHOOSE w \in Windows : TRUE, until |-> 0, revoked |-> FALSE, rv |-> 0]

\* A pass holds nothing, or a copy of the permit it is about.
Idle == [busy |-> FALSE]
Holding(p, o) == [busy |-> TRUE, name |-> p, copy |-> o]
Pass == [busy : {FALSE}] \cup [busy : {TRUE}, name : Permits, copy : Permit]

\* Every permit has a state the API type knows, and every pass a copy of one permit.
TypeOK ==
    /\ now \in 0 .. MaxTime /\ dark \in 0 .. MaxTime
    /\ permits \in [Permits -> Permit]
    /\ lister \in [Permits -> Permit]
    /\ work \in [Permits -> Pass]
    /\ seen \subseteq Permits
    /\ targets \in [Targets -> {"live", "deleting", "gone"}]
    /\ exists \in [Targets -> BOOLEAN]
    /\ recorded \in [Targets -> {"yes", "stale", "no"}]
    /\ pc \in [Targets -> {"idle", "teardown", "consume", "settle"}]
    /\ held \in [Targets -> Pass]
    /\ lives \in [Targets -> Nat] /\ uses \in [Permits -> Nat]
    /\ up \in BOOLEAN
    /\ {edits, faults} \subseteq Nat

Present(o) == o.state \notin {"absent", "removed"}
Closes(o) == o.created + o.window

Init ==
    /\ now = 0 /\ dark = 0
    /\ permits = [p \in Permits |-> NoPermit]
    /\ lister = permits
    /\ work = [p \in Permits |-> Idle]
    /\ seen = {}
    /\ targets = [t \in Targets |-> IF t \in Existing THEN "live" ELSE "gone"]
    /\ exists = [t \in Targets |-> t \in Existing]
    /\ recorded = [t \in Targets |-> IF t \in Existing THEN "yes" ELSE "no"]
    /\ pc = [t \in Targets |-> "idle"]
    /\ held = [t \in Targets |-> Idle]
    /\ lives = [t \in Targets |-> IF t \in Existing THEN 1 ELSE MaxLives]
    /\ uses = [p \in Permits |-> 0]
    /\ edits = 0 /\ up = TRUE /\ faults = 0

Fault == faults < MaxFaults /\ faults' = faults + 1
NoFault == UNCHANGED faults

\* A write based on copy o of permit p; a write that changes nothing leaves the
\* resourceVersion alone.
Current(p, o) == o.rv = permits[p].rv
Write(p, o) == permits' = [permits EXCEPT ![p] = [o EXCEPT !.rv = permits[p].rv + 1]]

-----------------------------------------------------------------------------
(* The permit controller.                                                  *)

\* Mutated form: the state is recomputed whatever it is.
ObservedAlways(o) ==
    [o EXCEPT !.until = Closes(o), !.state = IF now > Closes(o) THEN "Expired" ELSE "Active"]

\* Mutated form: the state is computed once, when the permit is new.
ObservedOnce(o) ==
    IF o.revoked \/ o.state # "" THEN o
    ELSE [o EXCEPT !.until = Closes(o), !.state = IF now > Closes(o) THEN "Expired" ELSE "Active"]

\* external.Observe: nothing is recomputed once the state is terminal.
Observed(o) ==
    IF o.revoked \/ o.state \in Terminal THEN o
    ELSE [o EXCEPT !.until = Closes(o), !.state = IF now > Closes(o) THEN "Expired" ELSE "Active"]

ObservePermit(p) ==
    /\ up
    /\ ~work[p].busy
    /\ Present(lister[p])
    /\ work' = [work EXCEPT ![p] = Holding(p, Observed(lister[p]))]
    /\ UNCHANGED <<clock, permits, lister, seen, accounts, bounds, up>>

\* Mutated form: a status write that does not mind a newer resourceVersion.
PersistBlind(p) ==
    /\ Write(p, work[p].copy)
    /\ seen' = seen \cup {p}
    /\ NoFault

\* The status write that ends a pass: refused on a stale copy, which is retried; a
\* revoked permit is not there for the controller, so its finalizer goes instead.
PersistStatus(p) ==
    LET o == work[p].copy IN
    \/ /\ Current(p, o)
       /\ IF o.revoked THEN Write(p, [o EXCEPT !.state = "removed"])
          ELSE IF o = permits[p] THEN UNCHANGED permits
          ELSE Write(p, o)
       /\ seen' = seen \cup {p}
       /\ NoFault
    \/ ~Current(p, o) /\ UNCHANGED <<permits, seen>> /\ NoFault
    \/ UNCHANGED <<permits, seen>> /\ Fault

FinishPermit(p) ==
    /\ up
    /\ work[p].busy
    /\ work' = [work EXCEPT ![p] = Idle]
    /\ PersistStatus(p)
    /\ UNCHANGED <<clock, lister, accounts, edits, up>>

-----------------------------------------------------------------------------
(* The account controller's deletion of a target.                          *)

Candidates(t) == {p \in Permits : lister[p].state = "Active" /\ lister[p].target = t}

\* FindActivePermit: the earliest of the listed Active permits that name the target.
FindActivePermit(t) ==
    {p \in Candidates(t) : \A q \in Candidates(t) : lister[p].created <= lister[q].created}

\* Observe under deletion: the account exists if the status says where.  The gate follows.
Authorize(t) ==
    /\ up
    /\ targets[t] = "deleting"
    /\ recorded[t] # "no"
    /\ pc[t] = "idle"
    /\ \E p \in FindActivePermit(t) : held' = [held EXCEPT ![t] = Holding(p, lister[p])]
    /\ pc' = [pc EXCEPT ![t] = "teardown"]
    /\ UNCHANGED <<clock, permits, lister, controller, resources, uses, bounds, up>>

EndPass(t) == pc' = [pc EXCEPT ![t] = "idle"] /\ held' = [held EXCEPT ![t] = Idle]
Proceed(t, step) == pc' = [pc EXCEPT ![t] = step] /\ UNCHANGED held

\* DROP ACCOUNT IF EXISTS: a permit is used if there is an account to drop.
Drop(t) ==
    /\ exists' = [exists EXCEPT ![t] = FALSE]
    /\ uses' = IF exists[t] THEN [uses EXCEPT ![held[t].name] = @ + 1] ELSE uses

\* It may fail before the drop, with the drop's answer lost, or on the credential, when
\* the copy's locator is cleared already.
Teardown(t) ==
    /\ up
    /\ pc[t] = "teardown"
    /\ \/ Drop(t) /\ Proceed(t, "consume") /\ NoFault
       \/ UNCHANGED <<exists, uses>> /\ EndPass(t) /\ Fault
       \/ Drop(t) /\ (EndPass(t) \/ Proceed(t, "settle")) /\ Fault
    /\ UNCHANGED <<clock, permits, lister, controller, targets, recorded, lives, edits, up>>

\* Mutated form: the permit is written whatever became of it since the gate.
MarkBlind(t) == Write(held[t].name, [held[t].copy EXCEPT !.state = "Consumed"]) /\ NoFault

\* MarkConsumed writes the permit as it was listed; its failure only ends Delete.
MarkConsumed(t) ==
    LET p == held[t].name  o == held[t].copy IN
    \/ Current(p, o) /\ Write(p, [o EXCEPT !.state = "Consumed"]) /\ NoFault
    \/ ~Current(p, o) /\ UNCHANGED permits /\ NoFault
    \/ UNCHANGED permits /\ Fault

Consume(t) ==
    /\ up
    /\ pc[t] = "consume"
    /\ MarkConsumed(t)
    /\ Proceed(t, "settle")
    /\ UNCHANGED <<clock, lister, controller, resources, uses, edits, up>>

\* The status write that follows Delete, without the locator: refused if the pass began
\* with a copy that had it for too long.
Settle(t) ==
    /\ up
    /\ pc[t] = "settle"
    /\ EndPass(t)
    /\ \/ recorded[t] = "yes" /\ recorded' = [recorded EXCEPT ![t] = "stale"] /\ NoFault
       \/ recorded[t] # "yes" /\ UNCHANGED recorded /\ NoFault
       \/ UNCHANGED recorded /\ Fault
    /\ UNCHANGED <<clock, permits, lister, controller, targets, exists, lives, uses, edits, up>>

\* Without a locator nothing is left to delete, and no permit is asked for.
Release(t) ==
    /\ up
    /\ targets[t] = "deleting"
    /\ recorded[t] = "no"
    /\ pc[t] = "idle"
    /\ targets' = [targets EXCEPT ![t] = "gone"]
    /\ UNCHANGED <<clock, permits, lister, controller, exists, recorded, lives, passes, uses, bounds, up>>

-----------------------------------------------------------------------------
(* Tenants, the informer, the clock, the process.                          *)

CreatePermit(p, t, w) ==
    /\ permits[p].state = "absent"
    /\ Write(p, [permits[p] EXCEPT !.state = "", !.created = now, !.target = t, !.window = w])
    /\ UNCHANGED <<clock, lister, controller, accounts, bounds, up>>

\* spec.duration and spec.targetRef may be edited at any time.
EditPermit(p, t, w) ==
    /\ Present(permits[p])
    /\ edits < MaxEdits
    /\ edits' = edits + 1
    /\ Write(p, [permits[p] EXCEPT !.target = t, !.window = w])
    /\ seen' = seen \ {p}
    /\ UNCHANGED <<clock, lister, work, accounts, faults, up>>

RevokePermit(p) ==
    /\ Present(permits[p])
    /\ ~permits[p].revoked
    /\ Write(p, [permits[p] EXCEPT !.revoked = TRUE])
    /\ seen' = seen \ {p}
    /\ UNCHANGED <<clock, lister, work, accounts, bounds, up>>

DeleteTarget(t) ==
    /\ targets[t] = "live"
    /\ targets' = [targets EXCEPT ![t] = "deleting"]
    /\ UNCHANGED <<clock, permits, lister, controller, exists, recorded, lives, passes, uses, bounds, up>>

\* A resource of that name is created again, and its account with it.
RecreateTarget(t) ==
    /\ targets[t] = "gone"
    /\ lives[t] < MaxLives
    /\ targets' = [targets EXCEPT ![t] = "live"]
    /\ exists' = [exists EXCEPT ![t] = TRUE]
    /\ recorded' = [recorded EXCEPT ![t] = "yes"]
    /\ lives' = [lives EXCEPT ![t] = @ + 1]
    /\ UNCHANGED <<clock, permits, lister, controller, passes, uses, bounds, up>>

Sync(p) ==
    /\ up
    /\ lister[p] # permits[p]
    /\ lister' = [lister EXCEPT ![p] = permits[p]]
    /\ UNCHANGED <<clock, permits, controller, accounts, bounds, up>>

SyncTarget(t) ==
    /\ up
    /\ recorded[t] = "stale"
    /\ recorded' = [recorded EXCEPT ![t] = "no"]
    /\ UNCHANGED <<clock, permits, lister, controller, targets, exists, lives, passes, uses, bounds, up>>

\* One tick is one poll interval: while the process is up, informer and controller
\* catch up with every permit within it, and no pass over a permit outlasts it.
CaughtUp == \A p \in Permits :
    /\ lister[p] = permits[p]
    /\ ~work[p].busy
    /\ Present(permits[p]) => p \in seen \/ permits[p].state \in Terminal

Tick ==
    /\ now < MaxTime
    /\ up => CaughtUp
    /\ now' = now + 1
    /\ dark' = IF up THEN dark ELSE now + 1
    /\ seen' = {}
    /\ UNCHANGED <<permits, lister, work, accounts, bounds, up>>

\* The process goes down, and comes back with a fresh cache.
GoDown ==
    /\ up
    /\ Fault
    /\ up' = FALSE
    /\ work' = [p \in Permits |-> Idle]
    /\ pc' = [t \in Targets |-> "idle"]
    /\ held' = [t \in Targets |-> Idle]
    /\ UNCHANGED <<clock, permits, lister, seen, resources, uses, edits>>

ComeUp ==
    /\ ~up
    /\ up' = TRUE
    /\ lister' = permits
    /\ recorded' = [t \in Targets |-> IF recorded[t] = "yes" THEN "yes" ELSE "no"]
    /\ UNCHANGED <<clock, permits, controller, targets, exists, lives, passes, uses, bounds>>

Next ==
    \/ \E p \in Permits :
          \/ ObservePermit(p) \/ FinishPermit(p) \/ Sync(p)
          \/ RevokePermit(p)
          \/ \E t \in Targets, w \in Windows : CreatePermit(p, t, w) \/ EditPermit(p, t, w)
    \/ \E t \in Targets :
          \/ Authorize(t) \/ Teardown(t) \/ Consume(t) \/ Settle(t) \/ Release(t)
          \/ DeleteTarget(t) \/ RecreateTarget(t) \/ SyncTarget(t)
    \/ Tick \/ GoDown \/ ComeUp

Spec == Init /\ [][Next]_vars

\* The clock runs, the process comes back, the informer and the controller keep up.
FairSpec ==
    /\ Spec
    /\ SF_vars(Tick) /\ WF_vars(ComeUp)
    /\ \A p \in Permits : WF_vars(Sync(p)) /\ WF_vars(ObservePermit(p)) /\ WF_vars(FinishPermit(p))

-----------------------------------------------------------------------------
Lifecycle == INSTANCE PermitLifecycle WITH state <- [p \in Permits |-> permits[p].state]

\* A permit's state only moves forward, whoever writes it and from whatever copy
\* (spec 019: "only ever forward, never back").
Implements == Lifecycle!Spec

\* A permit expires only once its window, as last edited, has closed.
ExpiresOnlyWhenClosed ==
    [][\A p \in Permits :
         (permits[p].state # "Expired" /\ permits'[p].state = "Expired") => now > Closes(permits[p])]_vars

\* A permit turns Consumed only for the target it names by then, under deletion and with
\* its account gone, however it was edited since the gate (spec 019: the tenant "only then
\* drops the account and marks the permit `Consumed`").  It need not be the permit the
\* account was destroyed on: where the status write after Delete is lost, the repeated
\* pass finds nothing left to drop, and consumes another.
ConsumedForItsTarget ==
    [][\A p \in Permits :
         (permits[p].state # "Consumed" /\ permits'[p].state = "Consumed") =>
             targets[permits[p].target] = "deleting" /\ ~exists[permits[p].target]]_vars

\* A terminal permit's recorded window is frozen (SC-012, SC-015).
TerminalIsFrozen ==
    [][\A p \in Permits :
         permits[p].state \in Terminal => permits'[p].until = permits[p].until]_vars

(* Why optimistic concurrency is enough: a copy as old as the object is either the
   object itself or what the controller just computed from it.              *)
Computed(o, c) ==
    /\ Present(o)
    /\ c.revoked = o.revoked
    /\ \/ c = o
       \/ /\ ~o.revoked
          /\ o.state \in {"", "Active"}
          /\ c.state \in {"Active", "Expired"}
          /\ c.state = "Expired" => now > Closes(o)

ListerInv == \A p \in Permits :
    /\ lister[p].rv <= permits[p].rv
    /\ Current(p, lister[p]) => lister[p] = permits[p]

WorkInv == \A p \in Permits : work[p].busy =>
    /\ work[p].copy.rv <= permits[p].rv
    /\ Current(p, work[p].copy) => Computed(permits[p], work[p].copy)

HeldInv == \A t \in Targets :
    /\ pc[t] # "idle" => held[t].busy
    /\ held[t].busy =>
          LET p == held[t].name  o == held[t].copy IN
          /\ o.state = "Active" /\ o.target = t
          /\ o.rv <= permits[p].rv
          /\ Current(p, o) => o = permits[p]

PermitInv == ListerInv /\ WorkInv /\ HeldInv

(* Why a permit is never Active for long after its window: what the controller has
   brought up to date since the last tick, or is about to write, was open at this
   tick, and no pass outlives the process.                                  *)
Open(o) == o.state = "Active" => now <= o.until

SeenInv ==
    /\ \A p \in seen : Open(permits[p])
    /\ \A p \in Permits : work[p].busy => up /\ (work[p].copy.revoked \/ Open(work[p].copy))

(* A pass is over before its target is released, and an account whose locator is off the
   record is gone, as is that of a pass with a permit to mark.                *)
AccountInv == \A t \in Targets :
    /\ pc[t] # "idle" => targets[t] = "deleting"
    /\ targets[t] = "live" => exists[t] /\ recorded[t] = "yes"
    /\ (recorded[t] # "yes" \/ pc[t] \in {"consume", "settle"}) => ~exists[t]

\* The inductive invariant: every copy of a permit, in the informer, in the permit
\* controller's pass or in a deletion's hands, is older than the object or agrees with
\* it, so a write that goes through never undoes another (consume.go, lookup.go); what
\* the permit controller has just brought up to date is open; and the account behind a
\* deletion's permit is where the deletion has got to.
DeletionInv == TypeOK /\ PermitInv /\ SeenInv /\ AccountInv

\* No permit, as stored or as listed, is Active more than one poll interval beyond the
\* validUntil it shows, except in the interval in which the process comes back.
Timely == \A p \in Permits : \A o \in {permits[p], lister[p]} :
    o.state = "Active" => now <= o.until + 1 \/ now = dark

Authorized(t) == pc[t] = "idle" /\ pc'[t] = "teardown"

\* A permit authorizes at most one poll interval beyond the validUntil it shows (spec
\* 019: the worst-case staleness is "about one poll interval"), or else before the first
\* poll after an outage.
AuthorizedWithinPoll ==
    [][\A t \in Targets : Authorized(t) => now <= held'[t].copy.until + 1 \/ now = dark]_vars

\* A permit is used at most once (spec 019: "if deletion succeeds, the permit cannot
\* be used again").
UsedOnce == \A p \in Permits : uses[p] <= 1

\* Every permit comes to rest, with no further action from anyone, once its window
\* closes (spec 019: "it becomes Expired on its own").
PermitEnds ==
    \A p \in Permits :
        (permits[p].state \in {"", "Active"} /\ \A w \in Windows : permits[p].created + w < MaxTime)
            ~> permits[p].state \in Terminal \cup {"removed"}
=============================================================================
