------------------------- MODULE DeletionPermit_proofs -------------------------
(***************************************************************************)
(* Proofs about DeletionPermit, for any sets of permits, targets and       *)
(* windows and any number of edits, faults and crashes.  The argument is   *)
(* the one behind optimistic concurrency: a copy that still has the        *)
(* object's resourceVersion is that object, or what was just computed from *)
(* it (PermitInv), and every write either is refused or starts from such   *)
(* a copy.                                                                 *)
(***************************************************************************)
EXTENDS DeletionPermit, TLAPS

\* The groups of variables that actions leave alone as one.
USE DEF clock, resources, passes

\* Times and windows are numbers.
LEMMA Bounds == MaxTime \in Nat /\ MaxLives \in Nat /\ \A w \in Windows : w \in Nat
  BY PermitAssumption

\* Every field of a permit has the type of that field.
LEMMA PermitFields ==
  ASSUME NEW o \in Permit
  PROVE  /\ o.state \in States /\ o.target \in Targets
         /\ o.created \in 0 .. MaxTime /\ o.window \in Windows
         /\ Closes(o) \in Nat /\ o.until \in Nat
         /\ o.revoked \in BOOLEAN /\ o.rv \in Nat
<1>1. /\ o.created \in 0 .. MaxTime /\ o.window \in Windows
      /\ o.state \in States /\ o.target \in Targets
      /\ o.until \in Nat /\ o.revoked \in BOOLEAN /\ o.rv \in Nat
  BY DEF Permit
<1>2. o.created \in Nat /\ o.window \in Nat
  BY <1>1, Bounds
<1> QED
  BY <1>1, <1>2 DEF Closes

\* The deleted permit is a well-formed entry.
LEMMA NoPermitIsPermit == NoPermit \in Permit
  BY PermitAssumption DEF NoPermit, Permit, States

\* The edits of a permit that the actions make.
LEMMA PermitEdits ==
  ASSUME NEW o \in Permit
  PROVE  /\ \A s \in States :
              /\ [o EXCEPT !.state = s] \in Permit
              /\ [o EXCEPT !.state = s].state = s
              /\ [o EXCEPT !.state = s].until = o.until
         /\ [o EXCEPT !.revoked = TRUE] \in Permit
         /\ [o EXCEPT !.revoked = TRUE].state = o.state
         /\ [o EXCEPT !.revoked = TRUE].until = o.until
         /\ \A n \in Nat :
              /\ [o EXCEPT !.rv = n] \in Permit
              /\ [o EXCEPT !.rv = n].state = o.state
              /\ [o EXCEPT !.rv = n].until = o.until
              /\ [o EXCEPT !.rv = n].rv = n
  BY DEF Permit, States

\* A write: one permit changes, and gets the next resourceVersion.
LEMMA WriteEffect ==
  ASSUME TypeOK, NEW p \in Permits, NEW o \in Permit, Write(p, o)
  PROVE  /\ permits' \in [Permits -> Permit]
         /\ permits' = [permits EXCEPT ![p] = permits'[p]]
         /\ permits'[p].rv = permits[p].rv + 1
         /\ permits'[p].state = o.state
         /\ permits'[p].until = o.until
         /\ \A q \in Permits \ {p} : permits'[q] = permits[q]
<1>1. permits[p] \in Permit /\ permits \in [Permits -> Permit]
  BY DEF TypeOK
<1>2. permits[p].rv + 1 \in Nat
  BY <1>1, PermitFields
<1> DEFINE e == [o EXCEPT !.rv = permits[p].rv + 1]
<1>3. e \in Permit /\ e.state = o.state /\ e.until = o.until /\ e.rv = permits[p].rv + 1
  BY <1>2, PermitEdits
<1>4. permits' = [permits EXCEPT ![p] = e]
  BY DEF Write
<1> HIDE DEF e
<1> QED
  BY <1>1, <1>3, <1>4

\* What the controller computes from a copy of a permit.
LEMMA ObservedEffect ==
  ASSUME NEW o \in Permit, now \in Nat, Present(o)
  PROVE  /\ Observed(o) \in Permit
         /\ Observed(o).rv = o.rv
         /\ Computed(o, Observed(o))
<1>1. Closes(o) \in Nat /\ o.revoked \in BOOLEAN /\ o.state \in States
  BY PermitFields
<1>2. CASE o.revoked \/ o.state \in Terminal
  <2>1. Observed(o) = o
    BY <1>2 DEF Observed
  <2> QED
    BY <2>1 DEF Computed
<1>3. CASE ~(o.revoked \/ o.state \in Terminal)
  <2> DEFINE s == IF now > Closes(o) THEN "Expired" ELSE "Active"
             e == [o EXCEPT !.until = Closes(o), !.state = s]
  <2>1. Observed(o) = e
    BY <1>3 DEF Observed
  <2>2. s \in {"Active", "Expired"} /\ s \in States /\ (s = "Expired" => now > Closes(o))
    BY DEF States
  <2> HIDE DEF s
  <2>3. e \in Permit /\ e.state = s /\ e.rv = o.rv /\ e.revoked = o.revoked
    BY <1>1, <2>2 DEF Permit
  <2>4. o.state \in {"", "Active"} /\ ~o.revoked
    BY <1>1, <1>3 DEF Present, States, Terminal
  <2> HIDE DEF e
  <2> QED
    BY <2>1, <2>2, <2>3, <2>4 DEF Computed
<1> QED
  BY <1>2, <1>3

\* An idle pass and one holding a copy of a permit are well formed.
LEMMA Passes ==
  /\ Idle \in Pass /\ Idle.busy = FALSE
  /\ \A p \in Permits, o \in Permit :
        /\ Holding(p, o) \in Pass
        /\ Holding(p, o).busy = TRUE /\ Holding(p, o).name = p /\ Holding(p, o).copy = o
  BY DEF Idle, Holding, Pass

\* A busy pass names a permit and holds a copy of one.
LEMMA PassFields ==
  ASSUME NEW h \in Pass, h.busy
  PROVE  h.name \in Permits /\ h.copy \in Permit
  BY DEF Pass

-----------------------------------------------------------------------------
(* How a step changes the permits.                                         *)

Change(p) ==
    /\ permits' = [permits EXCEPT ![p] = permits'[p]]
    /\ permits'[p].rv = permits[p].rv + 1
    /\ \A q \in Permits \ {p} : permits'[q] = permits[q]
    /\ \/ permits[p].state = "absent" /\ permits'[p].state = ""
       \/ /\ permits'[p].state = permits[p].state
          /\ permits[p].state \in Terminal => permits'[p].until = permits[p].until
       \/ permits[p].state \in {"", "Active"} /\ permits'[p].state = "Active"
       \/ /\ permits[p].state \in {"", "Active"} /\ permits'[p].state = "Expired"
          /\ now > Closes(permits[p])
       \/ /\ permits[p].state = "Active" /\ permits'[p].state = "Consumed"
          /\ targets[permits[p].target] = "deleting" /\ ~exists[permits[p].target]
       \/ /\ Present(permits[p])
          /\ permits'[p].state = "removed"
          /\ permits'[p].until = permits[p].until

PermitsChange == permits' \in [Permits -> Permit] /\ (permits' = permits \/ \E p \in Permits : Change(p))

\* A status write changes one permit at most, to its next version.
LEMMA PersistChange ==
  ASSUME TypeOK, PermitInv, NEW p \in Permits, work[p].busy, PersistStatus(p)
  PROVE  PermitsChange
<1> DEFINE o == work[p].copy
<1>1. o \in Permit /\ permits[p] \in Permit /\ permits \in [Permits -> Permit]
  BY PassFields DEF TypeOK
<1>2. Current(p, o) => Computed(permits[p], o)
  BY DEF PermitInv, WorkInv
<1> HIDE DEF o
<1>3. CASE UNCHANGED permits
  BY <1>1, <1>3 DEF PermitsChange
<1>4. CASE Current(p, o) /\ o.revoked /\ Write(p, [o EXCEPT !.state = "removed"])
  <2>1. [o EXCEPT !.state = "removed"] \in Permit
        /\ [o EXCEPT !.state = "removed"].state = "removed"
        /\ [o EXCEPT !.state = "removed"].until = o.until
    BY <1>1, PermitEdits DEF States
  <2>2. Present(permits[p]) /\ o = permits[p]
    BY <1>2, <1>4 DEF Computed
  <2>3. Change(p) /\ permits' \in [Permits -> Permit]
    BY <1>4, <2>1, <2>2, WriteEffect DEF Change
  <2> QED
    BY <2>3 DEF PermitsChange
<1>5. CASE Current(p, o) /\ ~o.revoked /\ Write(p, o)
  <2>1. Computed(permits[p], o)
    BY <1>2, <1>5
  <2>2. Change(p) /\ permits' \in [Permits -> Permit]
    BY <1>1, <1>5, <2>1, WriteEffect DEF Change, Computed
  <2> QED
    BY <2>2 DEF PermitsChange
<1> QED
  BY <1>3, <1>4, <1>5 DEF PersistStatus, o

\* MarkConsumed changes one permit at most, to its next version.
LEMMA ConsumeChange ==
  ASSUME TypeOK, PermitInv, AccountInv, NEW t \in Targets, pc[t] = "consume", MarkConsumed(t)
  PROVE  PermitsChange
<1> DEFINE p == held[t].name
           o == held[t].copy
<1>1. /\ held[t].busy /\ o.state = "Active" /\ o.target = t /\ (Current(p, o) => o = permits[p])
      /\ targets[t] = "deleting" /\ ~exists[t]
  BY DEF PermitInv, HeldInv, AccountInv
<1>2. p \in Permits /\ o \in Permit /\ permits \in [Permits -> Permit]
  BY <1>1, PassFields DEF TypeOK
<1>3. CASE UNCHANGED permits
  BY <1>2, <1>3 DEF PermitsChange
<1>4. CASE Current(p, o) /\ Write(p, [o EXCEPT !.state = "Consumed"])
  <2> HIDE DEF p, o
  <2>1. [o EXCEPT !.state = "Consumed"] \in Permit
        /\ [o EXCEPT !.state = "Consumed"].state = "Consumed"
    BY <1>2, PermitEdits DEF States
  <2>2. Change(p) /\ permits' \in [Permits -> Permit]
    BY <1>1, <1>2, <1>4, <2>1, WriteEffect DEF Change
  <2> QED
    BY <1>2, <2>2 DEF PermitsChange
<1> QED
  BY <1>3, <1>4 DEF MarkConsumed

\* Every step changes one permit at most, to its next version.
LEMMA StepChange ==
  ASSUME TypeOK, PermitInv, AccountInv, [Next]_vars
  PROVE  PermitsChange
<1>0. permits \in [Permits -> Permit] /\ now \in 0 .. MaxTime
  BY DEF TypeOK
<1>1. ASSUME UNCHANGED permits PROVE PermitsChange
  BY <1>0, <1>1 DEF PermitsChange
<1>2. ASSUME NEW p \in Permits, FinishPermit(p) PROVE PermitsChange
  BY <1>2, PersistChange DEF FinishPermit
<1>3. ASSUME NEW t \in Targets, Consume(t) PROVE PermitsChange
  BY <1>3, ConsumeChange DEF Consume
<1>4. ASSUME NEW p \in Permits, RevokePermit(p) PROVE PermitsChange
  <2>1. [permits[p] EXCEPT !.revoked = TRUE] \in Permit
        /\ [permits[p] EXCEPT !.revoked = TRUE].state = permits[p].state
        /\ [permits[p] EXCEPT !.revoked = TRUE].until = permits[p].until
    BY <1>0, PermitEdits
  <2>2. Change(p) /\ permits' \in [Permits -> Permit]
    BY <1>4, <2>1, WriteEffect DEF Change, RevokePermit
  <2> QED
    BY <2>2 DEF PermitsChange
<1>5. ASSUME NEW p \in Permits, NEW t \in Targets, NEW w \in Windows, CreatePermit(p, t, w)
      PROVE  PermitsChange
  <2> DEFINE e == [permits[p] EXCEPT !.state = "", !.created = now, !.target = t, !.window = w]
  <2>1. e \in Permit /\ e.state = ""
    <3>1. permits[p] \in Permit /\ now \in 0 .. MaxTime
      BY <1>0
    <3> QED
      BY <3>1 DEF Permit, States
  <2>2. permits[p].state = "absent" /\ Write(p, e)
    BY <1>5 DEF CreatePermit
  <2> HIDE DEF e
  <2>3. Change(p) /\ permits' \in [Permits -> Permit]
    BY <2>1, <2>2, WriteEffect DEF Change
  <2> QED
    BY <2>3 DEF PermitsChange
<1>6. ASSUME NEW p \in Permits, NEW t \in Targets, NEW w \in Windows, EditPermit(p, t, w)
      PROVE  PermitsChange
  <2> DEFINE e == [permits[p] EXCEPT !.target = t, !.window = w]
  <2>1. e \in Permit /\ e.state = permits[p].state /\ e.until = permits[p].until
    <3>1. permits[p] \in Permit /\ now \in 0 .. MaxTime
      BY <1>0
    <3> QED
      BY <3>1 DEF Permit, States
  <2>2. Write(p, e)
    BY <1>6 DEF EditPermit
  <2> HIDE DEF e
  <2>3. Change(p) /\ permits' \in [Permits -> Permit]
    BY <2>1, <2>2, WriteEffect DEF Change
  <2> QED
    BY <2>3 DEF PermitsChange
<1>7. ASSUME NEW p \in Permits, ObservePermit(p) \/ Sync(p) PROVE PermitsChange
  BY <1>1, <1>7 DEF ObservePermit, Sync
<1>8. ASSUME NEW t \in Targets,
             Authorize(t) \/ Teardown(t) \/ Settle(t) \/ Release(t) \/ DeleteTarget(t) \/ RecreateTarget(t) \/ SyncTarget(t)
      PROVE  PermitsChange
  BY <1>1, <1>8 DEF Authorize, Teardown, Settle, Release, DeleteTarget, RecreateTarget, SyncTarget
<1>9. ASSUME Tick \/ GoDown \/ ComeUp PROVE PermitsChange
  BY <1>1, <1>9 DEF Tick, GoDown, ComeUp
<1>10. CASE UNCHANGED vars
  BY <1>1, <1>10 DEF vars
<1> QED
  BY <1>2, <1>3, <1>4, <1>5, <1>6, <1>7, <1>8, <1>9, <1>10 DEF Next

-----------------------------------------------------------------------------
(* Type correctness and the invariant.                                     *)

\* The strengthened invariant holds initially.
LEMMA DeletionInit == Init => DeletionInv
<1> SUFFICES ASSUME Init PROVE DeletionInv
  OBVIOUS
<1>1. TypeOK
  <2>1. /\ targets \in [Targets -> {"live", "deleting", "gone"}]
        /\ recorded \in [Targets -> {"yes", "stale", "no"}]
        /\ lives \in [Targets -> Nat]
    BY Bounds DEF Init
  <2>2. exists \in [Targets -> BOOLEAN]
    <3>1. exists = [t \in Targets |-> t \in Existing]
      BY DEF Init
    <3>2. \A t \in Targets : (t \in Existing) \in BOOLEAN
      OBVIOUS
    <3> QED
      BY <3>1, <3>2, Zenon
  <2> QED
    BY <2>1, <2>2, Passes, NoPermitIsPermit, Bounds DEF Init, TypeOK
<1>2. \A p \in Permits : permits[p].rv \in Nat
  BY <1>1, PermitFields DEF TypeOK
<1>3. PermitInv
  BY <1>2, Passes DEF Init, PermitInv, ListerInv, WorkInv, HeldInv
<1>4. SeenInv
  BY Passes DEF Init, SeenInv
<1>5. AccountInv
  BY DEF Init, AccountInv
<1> QED
  BY <1>1, <1>3, <1>4, <1>5 DEF DeletionInv

\* The count of failed calls stays a number.
LEMMA FaultsType == ASSUME TypeOK, NoFault \/ Fault PROVE faults' \in Nat
  BY DEF NoFault, Fault, TypeOK

\* Every step keeps the types.
LEMMA TypeStep ==
  ASSUME DeletionInv, [Next]_vars
  PROVE  TypeOK'
<1>0. TypeOK /\ PermitInv /\ permits' \in [Permits -> Permit]
  BY StepChange DEF DeletionInv, PermitsChange
<1> USE <1>0 DEF TypeOK
<1>1. ASSUME NEW p \in Permits, ObservePermit(p) PROVE TypeOK'
  <2>1. Observed(lister[p]) \in Permit
    BY <1>1, ObservedEffect, Bounds DEF ObservePermit
  <2>2. Holding(p, Observed(lister[p])) \in Pass
    BY <2>1, Passes
  <2> QED
    BY <1>1, <2>2 DEF ObservePermit, accounts, bounds
<1>2. ASSUME NEW p \in Permits, FinishPermit(p) PROVE TypeOK'
  <2>1. seen' \subseteq Permits /\ faults' \in Nat
    BY <1>2, FaultsType DEF FinishPermit, PersistStatus
  <2> QED
    BY <1>2, <2>1, Passes DEF FinishPermit, accounts
<1>3. ASSUME NEW p \in Permits, Sync(p) PROVE TypeOK'
  BY <1>3 DEF Sync, controller, accounts, bounds
<1>4. ASSUME NEW p \in Permits, RevokePermit(p) PROVE TypeOK'
  BY <1>4 DEF RevokePermit, accounts, bounds
<1>5. ASSUME NEW p \in Permits, NEW t \in Targets, NEW w \in Windows,
             CreatePermit(p, t, w) \/ EditPermit(p, t, w)
      PROVE  TypeOK'
  BY <1>5 DEF CreatePermit, EditPermit, controller, accounts, bounds
<1>6. ASSUME NEW t \in Targets, Authorize(t) PROVE TypeOK'
  <2>1. PICK p \in FindActivePermit(t) : held' = [held EXCEPT ![t] = Holding(p, lister[p])]
    BY <1>6 DEF Authorize
  <2>2. Holding(p, lister[p]) \in Pass
    BY <2>1, Passes DEF FindActivePermit, Candidates
  <2> QED
    BY <1>6, <2>1, <2>2 DEF Authorize, controller, bounds
<1>7. ASSUME NEW t \in Targets, Teardown(t) PROVE TypeOK'
  <2>1. faults' \in Nat
    BY <1>7, FaultsType DEF Teardown
  <2>2. held[t].busy
    BY <1>7 DEF Teardown, PermitInv, HeldInv
  <2>3. held[t].name \in Permits
    BY <2>2, PassFields
  <2>4. held' \in [Targets -> Pass] /\ pc' \in [Targets -> {"idle", "teardown", "consume", "settle"}]
    BY <1>7, Passes DEF Teardown, EndPass, Proceed
  <2>5. uses' \in [Permits -> Nat] /\ exists' \in [Targets -> BOOLEAN]
    <3>1. uses[held[t].name] + 1 \in Nat
      BY <2>3
    <3> QED
      BY <1>7, <3>1 DEF Teardown, Drop
  <2> QED
    BY <1>7, <2>1, <2>4, <2>5 DEF Teardown, controller
<1>8. ASSUME NEW t \in Targets, Consume(t) \/ Settle(t) PROVE TypeOK'
  <2>1. faults' \in Nat
    BY <1>8, FaultsType DEF Consume, MarkConsumed, Settle
  <2>2. held' \in [Targets -> Pass] /\ pc' \in [Targets -> {"idle", "teardown", "consume", "settle"}]
    <3>1. CASE Proceed(t, "settle")
      BY <3>1 DEF Proceed
    <3>2. CASE EndPass(t)
      BY <3>2, Passes DEF EndPass
    <3> QED
      BY <1>8, <3>1, <3>2 DEF Consume, Settle
  <2>3. recorded' \in [Targets -> {"yes", "stale", "no"}]
    BY <1>8 DEF Consume, Settle
  <2> QED
    BY <1>8, <2>1, <2>2, <2>3 DEF Consume, Settle, controller
<1>9. ASSUME NEW t \in Targets, Release(t) \/ DeleteTarget(t) \/ RecreateTarget(t) \/ SyncTarget(t)
      PROVE  TypeOK'
  <2>1. targets' \in [Targets -> {"live", "deleting", "gone"}] /\ recorded' \in [Targets -> {"yes", "stale", "no"}]
    BY <1>9 DEF Release, DeleteTarget, RecreateTarget, SyncTarget
  <2>2. exists' \in [Targets -> BOOLEAN]
    <3>1. exists' = exists \/ exists' = [exists EXCEPT ![t] = TRUE]
      BY <1>9 DEF Release, DeleteTarget, RecreateTarget, SyncTarget
    <3>2. exists \in [Targets -> BOOLEAN] /\ TRUE \in BOOLEAN
      OBVIOUS
    <3> QED
      BY <3>1, <3>2
  <2>3. lives' \in [Targets -> Nat]
    BY <1>9 DEF Release, DeleteTarget, RecreateTarget, SyncTarget
  <2> QED
    BY <1>9, <2>1, <2>2, <2>3 DEF Release, DeleteTarget, RecreateTarget, SyncTarget, controller, bounds
<1>10. CASE Tick
  BY <1>10, Bounds DEF Tick, accounts, bounds
<1>11. CASE GoDown
  <2>1. work' \in [Permits -> Pass] /\ held' \in [Targets -> Pass] /\ pc' \in [Targets -> {"idle"}]
    BY <1>11, Passes DEF GoDown
  <2>2. faults' \in Nat
    BY <1>11, FaultsType DEF GoDown
  <2> QED
    BY <1>11, <2>1, <2>2 DEF GoDown
<1>12. CASE ComeUp
  <2>1. recorded' \in [Targets -> {"yes", "stale", "no"}]
    BY <1>12 DEF ComeUp
  <2> QED
    BY <1>12, <2>1 DEF ComeUp, controller, accounts, bounds
<1>13. CASE UNCHANGED vars
  BY <1>13 DEF vars, accounts
<1> QED
  BY <1>1, <1>2, <1>3, <1>4, <1>5, <1>6, <1>7, <1>8, <1>9, <1>10, <1>11, <1>12, <1>13 DEF Next

-----------------------------------------------------------------------------
(* The invariant.  A step that leaves a copy alone keeps what is known of  *)
(* it: the object is as it was, or has moved on to the next version.       *)

\* A permit is as it was, or has the next resourceVersion.
LEMMA MovedOn ==
  ASSUME TypeOK, PermitsChange, NEW p \in Permits
  PROVE  /\ permits[p].rv \in Nat
         /\ permits'[p] = permits[p] \/ permits'[p].rv = permits[p].rv + 1
<1>1. permits[p] \in Permit
  BY DEF TypeOK
<1> QED
  BY <1>1, PermitFields DEF PermitsChange, Change

\* A copy that is up to date after a step was of a permit the step left alone.
LEMMA OldCopy ==
  ASSUME TypeOK, PermitsChange, NEW p \in Permits, NEW o \in Permit, o.rv <= permits[p].rv
  PROVE  /\ o.rv <= permits'[p].rv
         /\ o.rv = permits'[p].rv => permits'[p] = permits[p]
<1>1. o.rv \in Nat
  BY PermitFields
<1> QED
  BY <1>1, MovedOn

\* Every step keeps what is said of the informer.
LEMMA ListerStep ==
  ASSUME DeletionInv, [Next]_vars
  PROVE  ListerInv'
<1>0. TypeOK /\ ListerInv /\ PermitsChange
  BY StepChange DEF DeletionInv, PermitInv
<1>1. \A p \in Permits : lister'[p] = lister[p] \/ (permits' = permits /\ lister'[p] = permits[p])
  <2>1. ASSUME NEW q \in Permits, Sync(q) PROVE <1>1!:
    BY <1>0, <2>1 DEF TypeOK, Sync
  <2>2. CASE ComeUp
    BY <1>0, <2>2 DEF TypeOK, ComeUp
  <2>3. CASE UNCHANGED lister
    BY <2>3
  <2> QED
    BY <2>1, <2>2, <2>3 DEF Next, vars, ObservePermit, FinishPermit, RevokePermit, CreatePermit, EditPermit,
      Authorize, Teardown, Consume, Settle, Release, DeleteTarget, RecreateTarget, SyncTarget, Tick, GoDown
<1>2. ASSUME NEW p \in Permits PROVE lister'[p].rv <= permits'[p].rv /\ (Current(p, lister[p]) => lister[p] = permits[p])'
  <2>1. lister[p] \in Permit /\ permits[p] \in Permit
    BY <1>0 DEF TypeOK
  <2>2. CASE lister'[p] = lister[p]
    BY <1>0, <2>1, <2>2, OldCopy DEF ListerInv, Current
  <2>3. CASE permits' = permits /\ lister'[p] = permits[p]
    BY <2>1, <2>3, PermitFields
  <2> QED
    BY <1>1, <2>2, <2>3
<1> QED
  BY <1>2 DEF ListerInv

\* Every step keeps what is said of the permit controller.
LEMMA WorkStep ==
  ASSUME DeletionInv, [Next]_vars
  PROVE  WorkInv'
<1>0. TypeOK /\ ListerInv /\ WorkInv /\ PermitsChange /\ now \in Nat /\ now' \in Nat /\ now <= now'
  <2>1. TypeOK /\ ListerInv /\ WorkInv /\ PermitsChange
    BY StepChange DEF DeletionInv, PermitInv
  <2>2. now \in Nat
    BY <2>1, Bounds DEF TypeOK
  <2>3. now' = now \/ now' = now + 1
    BY DEF Next, vars, ObservePermit, FinishPermit, Sync, RevokePermit, CreatePermit, EditPermit,
      Authorize, Teardown, Consume, Settle, Release, DeleteTarget, RecreateTarget, SyncTarget, Tick, GoDown, ComeUp
  <2> QED
    BY <2>1, <2>2, <2>3
<1>1. ASSUME NEW p \in Permits, work'[p] = work[p], work[p].busy
      PROVE  work[p].copy.rv <= permits'[p].rv
             /\ (work[p].copy.rv = permits'[p].rv => Computed(permits[p], work[p].copy)')
  <2>1. work[p].copy \in Permit /\ permits[p] \in Permit
    BY <1>0, <1>1, PassFields DEF TypeOK
  <2>2. work[p].copy.rv <= permits[p].rv /\ (work[p].copy.rv = permits[p].rv => Computed(permits[p], work[p].copy))
    BY <1>0, <1>1 DEF WorkInv, Current
  <2>3. Closes(permits[p]) \in Nat
    BY <2>1, PermitFields
  <2>4. work[p].copy.rv <= permits'[p].rv /\ (work[p].copy.rv = permits'[p].rv => permits'[p] = permits[p])
    BY <1>0, <2>1, <2>2, OldCopy
  <2>5. ASSUME permits'[p] = permits[p], Computed(permits[p], work[p].copy)
        PROVE  Computed(permits[p], work[p].copy)'
    <3>1. now > Closes(permits[p]) => now' > Closes(permits'[p])
      BY <1>0, <2>3, <2>5
    <3>2. work'[p].copy = work[p].copy
      BY <1>1
    <3>3. Closes(permits[p])' = Closes(permits'[p]) /\ Present(permits[p])' = Present(permits[p])
      BY <2>5 DEF Closes, Present
    <3> QED
      BY <2>5, <3>1, <3>2, <3>3 DEF Computed
  <2> QED
    BY <2>2, <2>4, <2>5
<1>2. \A p \in Permits : \/ work'[p] = work[p]
                         \/ ~work'[p].busy
                         \/ ObservePermit(p)
  <2>1. ASSUME NEW q \in Permits, ObservePermit(q) \/ FinishPermit(q) PROVE <1>2!:
    BY <1>0, <2>1, Passes DEF TypeOK, ObservePermit, FinishPermit
  <2>2. CASE GoDown
    BY <2>2, Passes DEF GoDown
  <2>3. CASE UNCHANGED work
    BY <2>3
  <2> QED
    BY <2>1, <2>2, <2>3 DEF Next, vars, Sync, RevokePermit, CreatePermit, EditPermit,
      Authorize, Teardown, Consume, Settle, Release, DeleteTarget, RecreateTarget, SyncTarget, Tick, ComeUp, controller
<1>3. ASSUME NEW p \in Permits, ObservePermit(p)
      PROVE  work'[p].copy.rv <= permits'[p].rv
             /\ (work'[p].copy.rv = permits'[p].rv => Computed(permits[p], work[p].copy)')
  <2>1. lister[p] \in Permit /\ Present(lister[p]) /\ permits' = permits /\ now' = now /\ permits[p] \in Permit
    BY <1>0, <1>3 DEF TypeOK, ObservePermit
  <2>2. Observed(lister[p]) \in Permit /\ Observed(lister[p]).rv = lister[p].rv
        /\ Computed(lister[p], Observed(lister[p]))
    BY <1>0, <2>1, ObservedEffect
  <2>3. work'[p].copy = Observed(lister[p])
    BY <1>0, <1>3, <2>2, Passes DEF TypeOK, ObservePermit
  <2>4. lister[p].rv <= permits[p].rv /\ (lister[p].rv = permits[p].rv => lister[p] = permits[p])
    BY <1>0 DEF ListerInv, Current
  <2> QED
    BY <2>1, <2>2, <2>3, <2>4 DEF Computed, Present, Closes
<1> QED
  BY <1>1, <1>2, <1>3 DEF WorkInv, Current

\* Every step keeps what is said of the permit a deletion holds.
LEMMA HeldStep ==
  ASSUME DeletionInv, [Next]_vars
  PROVE  HeldInv'
<1>0. TypeOK /\ ListerInv /\ HeldInv /\ PermitsChange /\ TypeOK'
  BY StepChange, TypeStep DEF DeletionInv, PermitInv
<1> DEFINE Fresh(t) == LET p == held[t].name  o == held[t].copy IN
                         /\ o.state = "Active" /\ o.target = t
                         /\ o.rv <= permits[p].rv
                         /\ Current(p, o) => o = permits[p]
           Good(t) == /\ pc[t] # "idle" => held[t].busy
                      /\ held[t].busy => Fresh(t)
<1>1. HeldInv <=> \A t \in Targets : Good(t)
  BY DEF HeldInv
<1>1p. HeldInv' <=> \A t \in Targets : Good(t)'
  BY DEF HeldInv
<1>2. ASSUME NEW t \in Targets, held'[t] = held[t], held[t].busy, Fresh(t) PROVE Fresh(t)'
  <2>1. held[t].name \in Permits /\ held[t].copy \in Permit
    BY <1>0, <1>2, PassFields DEF TypeOK
  <2>2. held[t].copy.rv <= permits'[held[t].name].rv
        /\ (held[t].copy.rv = permits'[held[t].name].rv => permits'[held[t].name] = permits[held[t].name])
    BY <1>0, <1>2, <2>1, OldCopy
  <2> QED
    BY <1>2, <2>2 DEF Current
<1>3. ASSUME NEW t \in Targets, held'[t] = held[t], pc'[t] = pc[t] \/ pc[t] # "idle", Good(t) PROVE Good(t)'
  BY <1>2, <1>3
<1>4. ASSUME NEW t \in Targets, held'[t] = Idle, pc'[t] = "idle" PROVE Good(t)'
  BY <1>4, Passes
<1> HIDE DEF Good
<1>5. ASSUME NEW t \in Targets, Authorize(t) PROVE HeldInv'
  <2>1. PICK p \in FindActivePermit(t) : held' = [held EXCEPT ![t] = Holding(p, lister[p])]
    BY <1>5 DEF Authorize
  <2>2. p \in Permits /\ lister[p] \in Permit /\ lister[p].state = "Active" /\ lister[p].target = t
    BY <1>0, <2>1 DEF FindActivePermit, Candidates, TypeOK
  <2>3. held'[t].busy /\ held'[t].name = p /\ held'[t].copy = lister[p] /\ pc'[t] = "teardown"
    BY <1>0, <1>5, <2>1, <2>2, Passes DEF TypeOK, Authorize
  <2>4. permits' = permits /\ \A u \in Targets \ {t} : held'[u] = held[u] /\ pc'[u] = pc[u]
    BY <1>0, <1>5, <2>1 DEF TypeOK, Authorize
  <2>5. Good(t)'
    BY <1>0, <2>2, <2>3, <2>4 DEF Good, ListerInv, Current
  <2> QED
    BY <1>0, <1>1, <1>1p, <1>3, <2>4, <2>5
<1>6. ASSUME NEW t \in Targets, EndPass(t) \/ (pc[t] # "idle" /\ \E step : Proceed(t, step))
      PROVE  HeldInv'
  <2>1. \A u \in Targets \ {t} : held'[u] = held[u] /\ pc'[u] = pc[u]
    BY <1>0, <1>6 DEF TypeOK, EndPass, Proceed
  <2>2. Good(t)'
    <3>1. CASE EndPass(t)
      BY <1>0, <1>4, <3>1 DEF TypeOK, EndPass
    <3>2. CASE pc[t] # "idle" /\ held' = held
      BY <1>0, <1>1, <1>3, <3>2
    <3> QED
      BY <1>6, <3>1, <3>2 DEF Proceed
  <2> QED
    BY <1>0, <1>1, <1>1p, <1>3, <2>1, <2>2
<1>7. ASSUME NEW t \in Targets, Teardown(t) \/ Consume(t) \/ Settle(t) PROVE HeldInv'
  <2>1. EndPass(t) \/ (pc[t] # "idle" /\ \E step : Proceed(t, step))
    BY <1>7, Zenon DEF Teardown, Consume, Settle
  <2> QED
    BY <1>6, <2>1
<1>8. CASE GoDown
  <2>1. \A t \in Targets : held'[t] = Idle /\ pc'[t] = "idle"
    BY <1>8 DEF GoDown
  <2> QED
    BY <1>1p, <1>4, <2>1
<1>9. CASE UNCHANGED <<held, pc>>
  BY <1>0, <1>1, <1>1p, <1>3, <1>9
<1> QED
  BY <1>5, <1>6, <1>7, <1>8, <1>9 DEF Next, vars, ObservePermit, FinishPermit, Sync, RevokePermit, CreatePermit,
      EditPermit, Settle, Release, DeleteTarget, RecreateTarget, SyncTarget, Tick, ComeUp, accounts

-----------------------------------------------------------------------------
(* The clock.  A permit is Active after a step because it was before, with *)
(* the same validUntil, or because it was just found to be open.           *)

\* A write to one permit leaves every other permit as it was.
LEMMA OthersKept ==
  ASSUME NEW p \in Permits, NEW q \in Permits \ {p}, NEW o,
         permits \in [Permits -> Permit], Write(p, o)
  PROVE  permits'[q] = permits[q]
  BY DEF Write

\* The status write that ends a pass leaves a permit Active only if it is open.
LEMMA PersistOpens ==
  ASSUME DeletionInv, NEW p \in Permits, work[p].busy, PersistStatus(p)
  PROVE  /\ \/ permits' = permits /\ (p \in seen' => p \in seen \/ Open(permits[p]))
            \/ permits'[p].state = "Active" => now <= permits'[p].until
         /\ \A q \in Permits \ {p} : permits'[q] = permits[q]
         /\ seen' \subseteq seen \cup {p}
<1> DEFINE o == work[p].copy
<1>1. TypeOK /\ o \in Permit /\ permits[p] \in Permit /\ permits \in [Permits -> Permit]
  BY PassFields DEF TypeOK, DeletionInv
<1>2. o.revoked \/ Open(o)
  BY DEF DeletionInv, SeenInv
<1> HIDE DEF o
<1>3. CASE UNCHANGED <<permits, seen>>
  BY <1>3
<1>4. CASE Current(p, o) /\ o.revoked /\ Write(p, [o EXCEPT !.state = "removed"]) /\ seen' = seen \cup {p}
  <2>1. [o EXCEPT !.state = "removed"] \in Permit /\ [o EXCEPT !.state = "removed"].state = "removed"
    BY <1>1, PermitEdits DEF States
  <2>2. permits'[p].state = "removed" /\ \A q \in Permits \ {p} : permits'[q] = permits[q]
    BY <1>1, <1>4, <2>1, WriteEffect
  <2> QED
    BY <1>4, <2>2
<1>5. CASE ~o.revoked /\ o = permits[p] /\ UNCHANGED permits /\ seen' = seen \cup {p}
  BY <1>2, <1>5
<1>6. CASE ~o.revoked /\ Write(p, o) /\ seen' = seen \cup {p}
  <2>1. permits'[p].state = o.state /\ permits'[p].until = o.until
        /\ \A q \in Permits \ {p} : permits'[q] = permits[q]
    BY <1>1, <1>6, WriteEffect
  <2> QED
    BY <1>2, <1>6, <2>1 DEF Open
<1> QED
  BY <1>3, <1>4, <1>5, <1>6 DEF PersistStatus, o

\* How a step that is no tick leaves a permit Active, and what it brings up to date.
LEMMA ActiveAfter ==
  ASSUME DeletionInv, [Next]_vars, NEW p \in Permits
  PROVE  /\ permits'[p].state = "Active" =>
              \/ permits[p].state = "Active" /\ permits'[p].until = permits[p].until
              \/ now <= permits'[p].until
         /\ ~Tick /\ p \in seen' => p \in seen \/ (permits'[p].state = "Active" => now <= permits'[p].until)
<1> DEFINE Goal == /\ permits'[p].state = "Active" =>
                        \/ permits[p].state = "Active" /\ permits'[p].until = permits[p].until
                        \/ now <= permits'[p].until
                   /\ ~Tick /\ p \in seen' =>
                        p \in seen \/ (permits'[p].state = "Active" => now <= permits'[p].until)
<1>0. TypeOK /\ PermitInv /\ permits \in [Permits -> Permit] /\ permits[p] \in Permit
  BY DEF DeletionInv, TypeOK
<1>1. ASSUME permits'[p] = permits[p], seen' \subseteq seen PROVE Goal
  BY <1>1
<1>2. ASSUME NEW q \in Permits, FinishPermit(q) PROVE Goal
  <2>1. work[q].busy /\ PersistStatus(q)
    BY <1>2 DEF FinishPermit
  <2>2. /\ \/ permits' = permits /\ (q \in seen' => q \in seen \/ Open(permits[q]))
           \/ permits'[q].state = "Active" => now <= permits'[q].until
        /\ \A r \in Permits \ {q} : permits'[r] = permits[r]
        /\ seen' \subseteq seen \cup {q}
    BY <2>1, PersistOpens
  <2> QED
    BY <2>2 DEF Open
<1>3. ASSUME NEW t \in Targets, Consume(t) PROVE Goal
  <2> DEFINE q == held[t].name
             o == held[t].copy
  <2>1. held[t].busy /\ MarkConsumed(t) /\ seen' = seen
    BY <1>0, <1>3 DEF Consume, PermitInv, HeldInv, controller
  <2>2. q \in Permits /\ o \in Permit
    BY <1>0, <2>1, PassFields DEF TypeOK
  <2>3. CASE Write(q, [o EXCEPT !.state = "Consumed"])
    <3> HIDE DEF q, o
    <3>1. [o EXCEPT !.state = "Consumed"] \in Permit /\ [o EXCEPT !.state = "Consumed"].state = "Consumed"
      BY <2>2, PermitEdits DEF States
    <3>2. permits'[q].state = "Consumed" /\ \A r \in Permits \ {q} : permits'[r] = permits[r]
      BY <1>0, <2>2, <2>3, <3>1, WriteEffect
    <3> QED
      BY <2>1, <3>2
  <2>4. CASE UNCHANGED permits
    BY <1>1, <2>1, <2>4
  <2> QED
    BY <2>1, <2>3, <2>4 DEF MarkConsumed
<1>4. ASSUME NEW q \in Permits, NEW t \in Targets, NEW w \in Windows,
             RevokePermit(q) \/ EditPermit(q, t, w) \/ CreatePermit(q, t, w)
      PROVE  Goal
  <2>1. seen' \subseteq seen
    BY <1>4 DEF RevokePermit, EditPermit, CreatePermit, controller
  <2>2. CASE q # p
    <3>1. permits'[p] = permits[p]
      BY <1>0, <1>4, <2>2, OthersKept DEF RevokePermit, EditPermit, CreatePermit
    <3> QED
      BY <1>1, <2>1, <3>1
  <2>3. CASE q = p
    <3>1. \E e \in Permit : Write(p, e) /\ (e.state = "" \/ (e.state = permits[p].state /\ e.until = permits[p].until))
      <4>1. CASE RevokePermit(p)
        <5>1. [permits[p] EXCEPT !.revoked = TRUE] \in Permit
              /\ [permits[p] EXCEPT !.revoked = TRUE].state = permits[p].state
              /\ [permits[p] EXCEPT !.revoked = TRUE].until = permits[p].until
          BY <1>0, PermitEdits
        <5> QED
          BY <4>1, <5>1 DEF RevokePermit
      <4>2. CASE EditPermit(p, t, w)
        <5> DEFINE e == [permits[p] EXCEPT !.target = t, !.window = w]
        <5>1. e \in Permit /\ e.state = permits[p].state /\ e.until = permits[p].until
          BY <1>0 DEF Permit
        <5>2. Write(p, e)
          BY <4>2 DEF EditPermit
        <5> HIDE DEF e
        <5> QED
          BY <5>1, <5>2
      <4>3. CASE CreatePermit(p, t, w)
        <5> DEFINE e == [permits[p] EXCEPT !.state = "", !.created = now, !.target = t, !.window = w]
        <5>1. e \in Permit /\ e.state = ""
          <6>1. now \in 0 .. MaxTime
            BY <1>0 DEF TypeOK
          <6> QED
            BY <1>0, <6>1 DEF Permit, States
        <5>2. Write(p, e)
          BY <4>3 DEF CreatePermit
        <5> HIDE DEF e
        <5> QED
          BY <5>1, <5>2
      <4> QED
        BY <1>4, <2>3, <4>1, <4>2, <4>3
    <3>2. PICK e \in Permit : Write(p, e) /\ (e.state = "" \/ (e.state = permits[p].state /\ e.until = permits[p].until))
      BY <3>1
    <3>3. permits'[p].state = e.state /\ permits'[p].until = e.until
      BY <1>0, <3>2, WriteEffect
    <3> QED
      BY <2>1, <3>2, <3>3
  <2> QED
    BY <2>2, <2>3
<1>5. ASSUME Tick PROVE Goal
  BY <1>5 DEF Tick
<1>6. ASSUME NEW q \in Permits, RevokePermit(q) PROVE Goal
  BY <1>4, <1>6, PermitAssumption
<1> HIDE DEF Goal
<1>7. ASSUME NEW q \in Permits, ObservePermit(q) \/ Sync(q) PROVE Goal
  BY <1>1, <1>7 DEF ObservePermit, Sync, controller
<1>8. ASSUME NEW t \in Targets,
             Authorize(t) \/ Teardown(t) \/ Settle(t) \/ Release(t) \/ DeleteTarget(t) \/ RecreateTarget(t) \/ SyncTarget(t)
      PROVE  Goal
  <2>1. permits' = permits /\ seen' = seen
    BY <1>8 DEF Authorize, Teardown, Settle, Release, DeleteTarget, RecreateTarget, SyncTarget, controller
  <2> QED
    BY <1>1, <2>1
<1>9. ASSUME GoDown \/ ComeUp \/ UNCHANGED vars PROVE Goal
  BY <1>1, <1>9 DEF GoDown, ComeUp, controller, vars
<1>10. Goal
  <2>1. ASSUME NEW q \in Permits, NEW t \in Targets, NEW w \in Windows, CreatePermit(q, t, w) \/ EditPermit(q, t, w)
        PROVE  Goal
    BY <1>4, <2>1
  <2> QED
    BY <1>2, <1>3, <1>5, <1>6, <1>7, <1>8, <1>9, <2>1 DEF Next
<1> QED
  BY <1>10 DEF Goal

\* How a step that is no tick leaves a pass of the permit controller busy.
LEMMA PassesAfter ==
  ASSUME DeletionInv, [Next]_vars, NEW p \in Permits, work'[p].busy
  PROVE  \/ work'[p] = work[p] /\ up' = up
         \/ ObservePermit(p)
<1>0. TypeOK /\ ~Idle.busy
  BY Passes DEF DeletionInv
<1>1. ASSUME NEW q \in Permits, ObservePermit(q) \/ FinishPermit(q)
      PROVE  (work'[p] = work[p] /\ up' = up) \/ ObservePermit(p)
  BY <1>0, <1>1 DEF TypeOK, ObservePermit, FinishPermit
<1>2. CASE GoDown
  BY <1>0, <1>2 DEF GoDown
<1>3. CASE ComeUp
  <2>1. ~work[p].busy
    BY <1>3 DEF ComeUp, DeletionInv, SeenInv
  <2> QED
    BY <1>3, <2>1 DEF ComeUp, controller
<1>4. CASE UNCHANGED <<work, up>>
  BY <1>4
<1> QED
  BY <1>1, <1>2, <1>3, <1>4 DEF Next, vars, Sync, RevokePermit, CreatePermit, EditPermit,
      Authorize, Teardown, Consume, Settle, Release, DeleteTarget, RecreateTarget, SyncTarget, Tick, controller

\* Every step keeps what is said of the permits brought up to date.
LEMMA SeenStep ==
  ASSUME DeletionInv, [Next]_vars
  PROVE  SeenInv'
<1>0. TypeOK /\ now \in Nat /\ seen' \subseteq Permits
  BY TypeStep, Bounds DEF DeletionInv, TypeOK
<1>1. CASE Tick
  <2>1. seen' = {} /\ work' = work /\ up' = up
    BY <1>1 DEF Tick
  <2>2. \A p \in Permits : ~work[p].busy
    BY <1>1 DEF Tick, CaughtUp, DeletionInv, SeenInv
  <2> QED
    BY <2>1, <2>2 DEF SeenInv
<1>2. CASE ~Tick
  <2>1. now' = now
    BY <1>2 DEF Next, vars, ObservePermit, FinishPermit, Sync, RevokePermit, CreatePermit, EditPermit,
      Authorize, Teardown, Consume, Settle, Release, DeleteTarget, RecreateTarget, SyncTarget, GoDown, ComeUp
  <2>2. ASSUME NEW p \in seen' PROVE Open(permits[p])'
    <3>1. p \in Permits
      BY <1>0
    <3>2. p \in seen => Open(permits[p])
      BY DEF DeletionInv, SeenInv
    <3> QED
      BY <1>2, <2>1, <2>2, <3>1, <3>2, ActiveAfter DEF Open
  <2>3. ASSUME NEW p \in Permits, work'[p].busy
        PROVE  up' /\ (work'[p].copy.revoked \/ Open(work[p].copy)')
    <3>1. CASE work'[p] = work[p] /\ up' = up
      BY <2>1, <2>3, <3>1 DEF DeletionInv, SeenInv, Open
    <3>2. CASE ObservePermit(p)
      <4>1. lister[p] \in Permit /\ up' = up /\ up
        BY <1>0, <3>2 DEF TypeOK, ObservePermit
      <4>2. Observed(lister[p]) \in Permit
        BY <1>0, <3>2, <4>1, ObservedEffect DEF ObservePermit
      <4>3. work'[p].copy = Observed(lister[p])
        BY <1>0, <3>2, <4>2, Passes DEF TypeOK, ObservePermit
      <4>4. Observed(lister[p]).revoked \/ Open(Observed(lister[p]))
        <5>1. Closes(lister[p]) \in Nat
          BY <4>1, PermitFields
        <5>2. CASE lister[p].revoked \/ lister[p].state \in Terminal
          BY <5>2 DEF Observed, Open, Terminal
        <5>3. CASE ~(lister[p].revoked \/ lister[p].state \in Terminal)
          <6> DEFINE s == IF now > Closes(lister[p]) THEN "Expired" ELSE "Active"
                     e == [lister[p] EXCEPT !.until = Closes(lister[p]), !.state = s]
          <6>1. Observed(lister[p]) = e
            BY <5>3 DEF Observed
          <6>2. e.until = Closes(lister[p]) /\ e.state = s
            BY <4>1 DEF Permit
          <6>3. s = "Active" => now <= Closes(lister[p])
            BY <1>0, <5>1
          <6> HIDE DEF e, s
          <6> QED
            BY <6>1, <6>2, <6>3 DEF Open
        <5> QED
          BY <5>2, <5>3
      <4> QED
        BY <2>1, <4>1, <4>3, <4>4 DEF Open
    <3> QED
      BY <2>3, <3>1, <3>2, PassesAfter
  <2> QED
    BY <2>2, <2>3 DEF SeenInv
<1> QED
  BY <1>1, <1>2

\* Where the informer's copy of a permit comes from.
LEMMA ListerAfter ==
  ASSUME TypeOK, [Next]_vars, NEW p \in Permits
  PROVE  lister'[p] = lister[p] \/ (permits' = permits /\ lister'[p] = permits[p])
<1>1. ASSUME NEW q \in Permits, Sync(q)
      PROVE  lister'[p] = lister[p] \/ (permits' = permits /\ lister'[p] = permits[p])
  BY <1>1 DEF TypeOK, Sync
<1>2. CASE ComeUp
  BY <1>2 DEF TypeOK, ComeUp
<1>3. CASE UNCHANGED lister
  BY <1>3
<1> QED
  BY <1>1, <1>2, <1>3 DEF Next, vars, ObservePermit, FinishPermit, RevokePermit, CreatePermit, EditPermit,
      Authorize, Teardown, Consume, Settle, Release, DeleteTarget, RecreateTarget, SyncTarget, Tick, GoDown

-----------------------------------------------------------------------------
(* The accounts behind the deletions.                                      *)

\* Every step keeps what is said of the accounts.
LEMMA AccountStep ==
  ASSUME DeletionInv, [Next]_vars
  PROVE  AccountInv'
<1>0. TypeOK /\ AccountInv
  BY DEF DeletionInv
<1> USE <1>0 DEF TypeOK, AccountInv
<1>1. ASSUME NEW t \in Targets, Authorize(t) PROVE AccountInv'
  BY <1>1 DEF Authorize
<1>2. ASSUME NEW t \in Targets, Teardown(t) PROVE AccountInv'
  <2>1. UNCHANGED <<targets, recorded>> /\ targets[t] = "deleting"
    BY <1>2 DEF Teardown
  <2>2. CASE exists' = [exists EXCEPT ![t] = FALSE]
    <3>1. \A u \in Targets \ {t} : pc'[u] = pc[u]
      BY <1>2 DEF Teardown, EndPass, Proceed
    <3> QED
      BY <2>1, <2>2, <3>1
  <2>3. CASE UNCHANGED exists /\ EndPass(t)
    BY <2>1, <2>3 DEF EndPass
  <2> QED
    BY <1>2, <2>2, <2>3 DEF Teardown, Drop
<1>3. ASSUME NEW t \in Targets, Consume(t) PROVE AccountInv'
  BY <1>3 DEF Consume, Proceed
<1>4. ASSUME NEW t \in Targets, Settle(t) PROVE AccountInv'
  BY <1>4 DEF Settle, EndPass
<1>5. ASSUME NEW t \in Targets, Release(t) \/ DeleteTarget(t) \/ SyncTarget(t) PROVE AccountInv'
  BY <1>5 DEF Release, DeleteTarget, SyncTarget
<1>6. ASSUME NEW t \in Targets, RecreateTarget(t) PROVE AccountInv'
  BY <1>6 DEF RecreateTarget
<1>7. CASE GoDown
  BY <1>7 DEF GoDown
<1>8. CASE ComeUp
  BY <1>8 DEF ComeUp
<1>9. CASE UNCHANGED <<targets, exists, recorded, pc>>
  BY <1>9
<1> QED
  BY <1>1, <1>2, <1>3, <1>4, <1>5, <1>6, <1>7, <1>8, <1>9 DEF Next, vars, ObservePermit, FinishPermit, Sync,
      RevokePermit, CreatePermit, EditPermit, Tick, accounts

\* Every step keeps the strengthened invariant.
LEMMA DeletionStep ==
  ASSUME DeletionInv, [Next]_vars
  PROVE  DeletionInv'
  BY TypeStep, ListerStep, WorkStep, HeldStep, SeenStep, AccountStep DEF DeletionInv, PermitInv

\* The strengthened invariant holds of every behaviour.
THEOREM DeletionInvariant == Spec => []DeletionInv
<1>1. DeletionInv /\ [Next]_vars => DeletionInv'
  BY DeletionStep
<1> QED
  BY DeletionInit, <1>1, PTL DEF Spec

-----------------------------------------------------------------------------
(* The theorems.                                                           *)

\* Every variable keeps its type: no write leaves a permit in a state, or a pass with
\* a copy, that the controllers do not know.
THEOREM PermitsTyped == Spec => []TypeOK
<1>1. DeletionInv => TypeOK
  BY DEF DeletionInv
<1> QED
  BY DeletionInvariant, <1>1, PTL

\* A copy that carries the object's resourceVersion is the object, or what the permit
\* controller's Observe computed from it.
THEOREM CopiesAreCurrent == Spec => []PermitInv
<1>1. DeletionInv => PermitInv
  BY DEF DeletionInv
<1> QED
  BY DeletionInvariant, <1>1, PTL

\* Whoever writes a permit's status, from whatever copy, moves its state forward only.
THEOREM StatesMoveForward == Spec => Implements
<1>1. Init => Lifecycle!Init
  BY DEF Init, Lifecycle!Init, NoPermit
<1>2. ASSUME DeletionInv, [Next]_vars
      PROVE  [Lifecycle!Next]_([p \in Permits |-> permits[p].state])
  <2>1. PermitsChange /\ permits \in [Permits -> Permit]
    BY <1>2, StepChange DEF DeletionInv, TypeOK
  <2>2. ASSUME NEW p \in Permits, Change(p)
        PROVE  [Lifecycle!Next]_([q \in Permits |-> permits[q].state])
    <3> DEFINE s == [q \in Permits |-> permits[q].state]
    <3>1. s' = [s EXCEPT ![p] = permits'[p].state]
      BY <2>1, <2>2 DEF Change, PermitsChange
    <3>2. s[p] = permits[p].state
      OBVIOUS
    <3>3. permits[p].state \in States
      BY <2>1, PermitFields
    <3>4. s' = s \/ Lifecycle!Next
      <4>1. \/ permits'[p].state = permits[p].state
            \/ permits[p].state = "absent" /\ permits'[p].state = ""
            \/ permits[p].state \in {"", "Active"} /\ permits'[p].state \in {"Active", "Expired"}
            \/ permits[p].state = "Active" /\ permits'[p].state = "Consumed"
            \/ Present(permits[p]) /\ permits'[p].state = "removed"
        BY <2>2 DEF Change
      <4>2. Present(permits[p]) => permits[p].state \in {"", "Active", "Expired", "Consumed"}
        BY <3>3 DEF States, Present
      <4> HIDE DEF s
      <4>3. CASE permits'[p].state = permits[p].state
        <5>1. s' = s
          BY <4>3 , <2>1, <2>2 DEF Change, s
        <5> QED
          BY <5>1
      <4>4. CASE permits'[p].state # permits[p].state
        <5>1. s[p] = permits[p].state /\ s' = [s EXCEPT ![p] = permits'[p].state]
          BY <3>1, <3>2
        <5>2. \/ s[p] \in {"absent"} /\ s' = [s EXCEPT ![p] = ""]
              \/ s[p] \in {""} /\ s' = [s EXCEPT ![p] = "Active"]
              \/ s[p] \in {"", "Active"} /\ s' = [s EXCEPT ![p] = "Expired"]
              \/ s[p] \in {"Active"} /\ s' = [s EXCEPT ![p] = "Consumed"]
              \/ s[p] \in {"", "Active", "Expired", "Consumed"} /\ s' = [s EXCEPT ![p] = "removed"]
          BY <4>1, <4>2, <4>4, <5>1
        <5> QED
          BY <5>2 DEF s, Lifecycle!Next, Lifecycle!Move
      <4> QED
        BY <4>3, <4>4
    <3> QED
      BY <3>4
  <2> QED
    BY <2>1, <2>2 DEF PermitsChange
<1> QED
  BY DeletionInvariant, <1>1, <1>2, PTL DEF Spec, Implements, Lifecycle!Spec

\* A permit turns Expired only when the window its spec now states has closed.
THEOREM ExpiryIsEarned == Spec => ExpiresOnlyWhenClosed
<1>1. ASSUME DeletionInv, [Next]_vars
      PROVE  \A p \in Permits :
               (permits[p].state # "Expired" /\ permits'[p].state = "Expired") => now > Closes(permits[p])
  <2>1. PermitsChange
    BY <1>1, StepChange DEF DeletionInv
  <2> QED
    BY <2>1 DEF PermitsChange, Change
<1> QED
  BY DeletionInvariant, <1>1, PTL DEF Spec, ExpiresOnlyWhenClosed

\* Once a permit is Expired or Consumed, its recorded validUntil never changes again.
THEOREM TerminalStaysFrozen == Spec => TerminalIsFrozen
<1>1. ASSUME DeletionInv, [Next]_vars
      PROVE  \A p \in Permits :
               permits[p].state \in Terminal => permits'[p].until = permits[p].until
  <2>1. PermitsChange
    BY <1>1, StepChange DEF DeletionInv
  <2> QED
    BY <2>1 DEF PermitsChange, Change, Terminal
<1> QED
  BY DeletionInvariant, <1>1, PTL DEF Spec, TerminalIsFrozen

\* A permit is marked Consumed only while the target it names is under deletion and its
\* account is gone: one that was edited since the gate, to name another target, is not.
THEOREM MarkedForItsTarget == Spec => ConsumedForItsTarget
<1>1. ASSUME DeletionInv, [Next]_vars
      PROVE  \A p \in Permits :
               (permits[p].state # "Consumed" /\ permits'[p].state = "Consumed") =>
                   targets[permits[p].target] = "deleting" /\ ~exists[permits[p].target]
  <2>1. PermitsChange
    BY <1>1, StepChange DEF DeletionInv
  <2> QED
    BY <2>1 DEF PermitsChange, Change
<1> QED
  BY DeletionInvariant, <1>1, PTL DEF Spec, ConsumedForItsTarget

-----------------------------------------------------------------------------
(* How long a permit authorizes.                                           *)

\* A tick while the process is up leaves no permit Active for longer than the poll
\* interval it ends, and one while it is down begins the time it may come back in; every
\* other step keeps what earlier ticks established.
LEMMA TimelyStep ==
  ASSUME DeletionInv, Timely, [Next]_vars
  PROVE  Timely'
<1>0. TypeOK /\ now \in Nat /\ \A p \in Permits : permits[p] \in Permit /\ lister[p] \in Permit
  BY Bounds DEF DeletionInv, TypeOK
<1>1. CASE Tick /\ up
  <2>1. now' = now + 1 /\ permits' = permits /\ lister' = lister /\ CaughtUp
    BY <1>1 DEF Tick
  <2>2. ASSUME NEW p \in Permits, permits[p].state = "Active" PROVE now' <= permits[p].until + 1
    <3>1. p \in seen
      BY <2>1, <2>2 DEF CaughtUp, Present, Terminal
    <3>2. now <= permits[p].until
      BY <2>2, <3>1 DEF DeletionInv, SeenInv, Open
    <3>3. permits[p].until \in Nat
      BY <1>0, PermitFields
    <3> QED
      BY <1>0, <2>1, <3>2, <3>3
  <2>3. \A p \in Permits : lister[p] = permits[p]
    BY <2>1 DEF CaughtUp
  <2> QED
    BY <2>1, <2>2, <2>3 DEF Timely
<1>2. CASE Tick /\ ~up
  <2>1. now' = dark'
    BY <1>2 DEF Tick
  <2> QED
    BY <2>1 DEF Timely
<1>3. CASE ~Tick
  <2>1. now' = now /\ dark' = dark
    BY <1>3 DEF Next, vars, ObservePermit, FinishPermit, Sync, RevokePermit, CreatePermit, EditPermit,
      Authorize, Teardown, Consume, Settle, Release, DeleteTarget, RecreateTarget, SyncTarget, GoDown, ComeUp
  <2>2. permits' \in [Permits -> Permit]
    BY TypeStep DEF TypeOK
  <2>3. ASSUME NEW p \in Permits, permits'[p].state = "Active"
        PROVE  now' <= permits'[p].until + 1 \/ now' = dark'
    <3>1. \/ permits[p].state = "Active" /\ permits'[p].until = permits[p].until
          \/ now <= permits'[p].until
      BY <2>3, ActiveAfter
    <3>2. permits'[p].until \in Nat
      BY <2>2, PermitFields
    <3> QED
      BY <1>0, <2>1, <3>1, <3>2 DEF Timely
  <2>4. ASSUME NEW p \in Permits, lister'[p].state = "Active"
        PROVE  now' <= lister'[p].until + 1 \/ now' = dark'
    BY <1>0, <2>1, <2>4, ListerAfter DEF Timely
  <2> QED
    BY <2>3, <2>4 DEF Timely
<1> QED
  BY <1>1, <1>2, <1>3

\* What a deletion is authorized by is listed as Active.
LEMMA AuthorizedBy ==
  ASSUME DeletionInv, [Next]_vars, NEW t \in Targets, Authorized(t)
  PROVE  \E p \in Permits : lister[p].state = "Active" /\ held'[t].copy = lister[p]
<1>0. TypeOK
  BY DEF DeletionInv
<1>1. ASSUME NEW u \in Targets, Authorize(u)
      PROVE  \E p \in Permits : lister[p].state = "Active" /\ held'[t].copy = lister[p]
  <2>1. u = t
    BY <1>0, <1>1 DEF TypeOK, Authorize, Authorized
  <2>2. PICK p \in FindActivePermit(t) : held' = [held EXCEPT ![t] = Holding(p, lister[p])]
    BY <1>1, <2>1 DEF Authorize
  <2>3. p \in Permits /\ lister[p].state = "Active"
    BY <2>2 DEF FindActivePermit, Candidates
  <2>4. held'[t] = Holding(p, lister[p])
    BY <1>0, <2>2 DEF TypeOK
  <2> QED
    BY <2>3, <2>4 DEF Holding
<1>2. ASSUME NEW u \in Targets, Teardown(u) \/ Consume(u) \/ Settle(u) PROVE FALSE
  BY <1>0, <1>2 DEF TypeOK, Teardown, Consume, Settle, EndPass, Proceed, Authorized
<1>3. CASE GoDown
  BY <1>3 DEF GoDown, Authorized
<1>4. CASE UNCHANGED pc
  BY <1>4 DEF Authorized
<1> QED
  BY <1>1, <1>2, <1>3, <1>4 DEF Next, vars, ObservePermit, FinishPermit, Sync, RevokePermit, CreatePermit, EditPermit,
      Release, DeleteTarget, RecreateTarget, SyncTarget, Tick, ComeUp, accounts

\* A permit authorizes at most one poll interval beyond the validUntil it shows, or else
\* in the interval in which the process has come back from an outage.
THEOREM AuthorizesInTime == Spec => AuthorizedWithinPoll
<1>1. Init => Timely
  BY DEF Init, Timely, NoPermit
<1>2. ASSUME DeletionInv, Timely, [Next]_vars
      PROVE  Timely'
  BY <1>2, TimelyStep
<1>3. ASSUME DeletionInv, Timely, [Next]_vars
      PROVE  \A t \in Targets : Authorized(t) => now <= held'[t].copy.until + 1 \/ now = dark
  BY <1>3, AuthorizedBy DEF Timely
<1> QED
  BY DeletionInvariant, <1>1, <1>2, <1>3, PTL DEF Spec, AuthorizedWithinPoll
=============================================================================
