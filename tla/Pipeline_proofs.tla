---------------------------- MODULE Pipeline_proofs ----------------------------
(***************************************************************************)
(* The pipeline's safety properties for any list of modules, any number of *)
(* edits and faults.  A run's outcomes say what its modules did            *)
(* (AppliedInv, TornInv); a pass writes only what its copy, if still       *)
(* current, may claim (CopiesInv); generations only grow, so a claim once  *)
(* true stays true.                                                        *)
(***************************************************************************)
EXTENDS Pipeline, TLAPS

\* The facts on the constants in the form the provers use.
LEMMA ConstantsTyped ==
    /\ N \in Nat /\ N >= 1
    /\ Account \in Nat /\ 1 <= Account /\ Account <= N
    /\ MaxGeneration \in Nat /\ MaxGeneration >= 1
    /\ MaxFaults \in Nat
    /\ Modules = 1 .. N
  BY PipelineAssumption DEF Modules

\* The copy a pass without one holds.
LEMMA CreatedTyped ==
    /\ Created \in Object
    /\ Created.phase = "live" /\ Created.generation = 1 /\ Created.observed = 0
    /\ Created.ready = FALSE /\ Created.located = FALSE
    /\ Created.creating = FALSE
  BY ConstantsTyped DEF Created, Object

\* Outcomes are appended one at a time.
LEMMA AppendOutcome ==
    ASSUME NEW s \in Seq(Outcome), NEW o \in Outcome
    PROVE  /\ Append(s, o) \in Seq(Outcome)
           /\ Len(s) \in Nat
           /\ Len(Append(s, o)) = Len(s) + 1
           /\ DOMAIN Append(s, o) = 1 .. Len(s) + 1
           /\ \A i \in DOMAIN s : Append(s, o)[i] = s[i]
           /\ Append(s, o)[Len(s) + 1] = o
  OBVIOUS

\* A run without outcomes.
LEMMA NoOutcomes == <<>> \in Seq(Outcome) /\ Len(<<>>) = 0 /\ DOMAIN <<>> = {}
  OBVIOUS

\* What an observed module may report.
LEMMA ObservesTyped == \A m \in Modules : Observes(m) \in Outcome
  BY DEF Observes, Outcome

-----------------------------------------------------------------------------
(* Types, and the progress of a run, variable group by variable group.     *)

\* Counting a fault, or none.
LEMMA FaultsTyped ==
    ASSUME faults \in Nat, Fault \/ NoFault
    PROVE  faults' \in Nat
  BY DEF Fault, NoFault

\* A write of a typed object.
LEMMA WriteTyped ==
    ASSUME ServerTypeOK, NEW o \in Object, Write(o)
    PROVE  ServerTypeOK'
  BY DEF Write, ServerTypeOK

\* The end of a pass, or a new run in it.
LEMMA EnterTyped ==
    ASSUME CopyTypeOK,
           NEW stage \in {"idle", "claim", "apply"},
           EndPass \/ Enter(stage)
    PROVE  CopyTypeOK' /\ RunTypeOK' /\ ProgressInv'
  <1>1. pc' \in {"idle", "claim", "apply"} /\ outs' = <<>>
    BY DEF EndPass, Enter
  <1>2. RunTypeOK'
    BY <1>1, NoOutcomes, ConstantsTyped DEF RunTypeOK
  <1>3. CopyTypeOK'
    BY CreatedTyped DEF EndPass, Enter, CopyTypeOK
  <1>4. ProgressInv'
    BY <1>1, NoOutcomes, ConstantsTyped DEF ProgressInv
  <1> QED  BY <1>2, <1>3, <1>4

\* A write of the pass's copy leaves the server typed.
LEMMA WriteCopyTyped ==
    ASSUME TypeOK, NEW o \in Object, WriteCopy(o)
    PROVE  ServerTypeOK' /\ WorldTypeOK' /\ faults' \in Nat
  <1>1. ServerTypeOK' /\ faults' \in Nat
    BY WriteTyped, FaultsTyped DEF TypeOK, WriteCopy, server, ServerTypeOK
  <1>2. WorldTypeOK'
    BY DEF WriteCopy, TypeOK, WorldTypeOK, world, modules
  <1> QED  BY <1>1, <1>2

\* The status writes that end a pass leave everything typed.
LEMMA WriteStatusTyped ==
    ASSUME TypeOK, WriteStatus \/ WriteCreating
    PROVE  TypeOK' /\ ProgressInv'
  <1>1. CopyTypeOK' /\ RunTypeOK' /\ ProgressInv'
    BY EnterTyped DEF TypeOK, WriteStatus, WriteCreating
  <1>2. obj \in Object /\ [obj EXCEPT !.ready = FALSE] \in Object
    BY DEF TypeOK, CopyTypeOK, Object
  <1>3. ServerTypeOK' /\ WorldTypeOK' /\ faults' \in Nat
    BY <1>2, WriteCopyTyped DEF WriteStatus, WriteCreating
  <1> QED  BY <1>1, <1>3 DEF TypeOK

\* Steps of others change neither run nor pass, but for the currency of its copy.
LEMMA RunUntouched ==
    ASSUME CopyTypeOK, RunTypeOK, ProgressInv,
           UNCHANGED <<pc, obj, outs>>, fresh' \in BOOLEAN
    PROVE  CopyTypeOK' /\ RunTypeOK' /\ ProgressInv'
  BY DEF CopyTypeOK, RunTypeOK, ProgressInv

\* Every step keeps the types and the progress of a run.
LEMMA TypeStep ==
    ASSUME TypeOK, ProgressInv, [Next]_vars
    PROVE  TypeOK' /\ ProgressInv'
  <1> USE ConstantsTyped
  <1>1. CASE ReadObject
    <2>1. pc' \in {"refuse", "observe", "destroy", "release"} /\ outs' = <<>>
      BY <1>1 DEF ReadObject, ProgressInv
    <2>2. RunTypeOK' /\ ProgressInv'
      BY <2>1, NoOutcomes DEF RunTypeOK, ProgressInv
    <2>3. CopyTypeOK' /\ ServerTypeOK' /\ WorldTypeOK' /\ faults' \in Nat
      BY <1>1 DEF ReadObject, TypeOK, CopyTypeOK, ServerTypeOK, WorldTypeOK, server, world, modules
    <2> QED  BY <2>2, <2>3 DEF TypeOK
  <1>2. CASE ObserveModule
    <2>1. Len(outs) \in Nat /\ Len(outs) < N /\ Len(outs) + 1 \in Modules /\ pc = "observe"
      BY <1>2 DEF ObserveModule, TypeOK, RunTypeOK
    <2>2. PICK o \in Outcome : outs' = Append(outs, o)
      BY <1>2, <2>1, ObservesTyped DEF ObserveModule, Outcome
    <2>3. outs' \in Seq(Outcome) /\ Len(outs') <= N
      BY <2>1, <2>2, AppendOutcome DEF TypeOK, RunTypeOK
    <2>4. RunTypeOK' /\ ProgressInv'
      BY <1>2, <2>1, <2>3 DEF ObserveModule, RunTypeOK, ProgressInv
    <2>5. CopyTypeOK' /\ ServerTypeOK' /\ WorldTypeOK' /\ faults' \in Nat
      BY <1>2, FaultsTyped
         DEF ObserveModule, TypeOK, CopyTypeOK, ServerTypeOK, WorldTypeOK, server, world, modules
    <2> QED  BY <2>4, <2>5 DEF TypeOK
  <1>3. CASE Decide
    <2>1. EndPass \/ Enter("claim") \/ Enter("apply")
      BY <1>3 DEF Decide
    <2>2. CopyTypeOK' /\ RunTypeOK' /\ ProgressInv'
      BY <2>1, EnterTyped DEF TypeOK
    <2>3. ServerTypeOK' /\ WorldTypeOK' /\ faults' \in Nat
      BY <1>3 DEF Decide, TypeOK, ServerTypeOK, WorldTypeOK, server, world, modules
    <2> QED  BY <2>2, <2>3 DEF TypeOK
  <1>4. CASE Claim
    <2>1. /\ [obj EXCEPT !.creating = TRUE] \in Object
          /\ [cr EXCEPT !.creating = TRUE] \in Object
      BY DEF TypeOK, CopyTypeOK, ServerTypeOK, Object
    <2>2. CopyTypeOK' /\ RunTypeOK' /\ ProgressInv'
      <3>1. CASE EndPass
        BY <3>1, EnterTyped DEF TypeOK
      <3>2. CASE ~EndPass
        <4>1. /\ pc' = "apply" /\ outs' = <<>> /\ fresh' = fresh
              /\ obj' = [obj EXCEPT !.creating = TRUE]
          BY <1>4, <3>2 DEF Claim
        <4>2. CopyTypeOK'
          BY <2>1, <4>1 DEF TypeOK, CopyTypeOK
        <4> QED  BY <4>1, <4>2, NoOutcomes DEF RunTypeOK, ProgressInv
      <3> QED  BY <3>1, <3>2
    <2>3. ServerTypeOK' /\ WorldTypeOK' /\ faults' \in Nat
      BY <1>4, <2>1, WriteTyped, FaultsTyped DEF Claim, TypeOK, ServerTypeOK, WorldTypeOK, server, world, modules
    <2> QED  BY <2>2, <2>3 DEF TypeOK
  <1>5. CASE ApplyModule
    <2> DEFINE m == Len(outs) + 1
    <2>1. Len(outs) \in Nat /\ Len(outs) < N /\ m \in Modules /\ pc = "apply"
      BY <1>5 DEF ApplyModule, TypeOK, RunTypeOK, ProgressInv
    <2>2. PICK o \in Outcome, located \in BOOLEAN : Reported(m, o, located)
      BY <1>5 DEF ApplyModule, ApplyNewAccount, ApplyState, Outcome, TypeOK, CopyTypeOK, Object
    <2>3. outs' = Append(outs, o) /\ outs' \in Seq(Outcome) /\ Len(outs') = m
      BY <2>1, <2>2, AppendOutcome DEF TypeOK, RunTypeOK, Reported
    <2>4. pc' \in {"persist", "apply"} /\ (pc' = "apply" => m # N)
      BY <2>2 DEF Reported
    <2>5. RunTypeOK' /\ ProgressInv'
      BY <2>1, <2>3, <2>4 DEF RunTypeOK, ProgressInv
    <2>6. CopyTypeOK'
      <3>1. obj \in Object /\ fresh' \in BOOLEAN
        BY <2>2 DEF TypeOK, CopyTypeOK, Reported
      <3>2. Ready(Append(outs, o)) \in BOOLEAN
        BY <3>1 DEF Ready, Complete, Object
      <3>3. PICK observed \in 0 .. MaxGeneration, ready \in BOOLEAN :
               obj' = [obj EXCEPT !.located = located, !.ready = ready, !.observed = observed]
        <4>1. /\ obj.generation \in 0 .. MaxGeneration /\ obj.observed \in 0 .. MaxGeneration
              /\ obj.ready \in BOOLEAN
          BY <3>1 DEF Object
        <4>2. CASE Stops(m, o) \/ m = N
          BY <2>2, <3>2, <4>1, <4>2 DEF Reported
        <4>3. CASE ~(Stops(m, o) \/ m = N)
          <5>1. obj' = [obj EXCEPT !.located = located]
            BY <2>2, <4>3 DEF Reported
          <5>2. obj' = [obj EXCEPT !.located = located, !.ready = obj.ready, !.observed = obj.observed]
            BY <3>1, <5>1 DEF Object
          <5> QED  BY <4>1, <5>2
        <4> QED  BY <4>2, <4>3
      <3>4. obj' \in Object
        BY <3>1, <3>3 DEF Object
      <3> QED  BY <3>1, <3>4 DEF CopyTypeOK
    <2>7. PutInPlace(m) \/ UNCHANGED <<state, done>>
          \/ (UNCHANGED done /\ state' = [state EXCEPT ![m] = Changed])
      BY <1>5 DEF ApplyModule, ApplyNewAccount, ApplyState
    <2>8. WorldTypeOK'
      <3>1. torn' \subseteq Modules /\ grace' \in BOOLEAN
        BY <1>5 DEF ApplyModule, ApplyNewAccount, ApplyState, TypeOK, WorldTypeOK
      <3>2. obj.generation \in 1 .. MaxGeneration
        BY DEF TypeOK, CopyTypeOK, Object
      <3>3. /\ obj.generation \in 0 .. MaxGeneration
            /\ obj.generation \in Absent .. Changed /\ Changed \in Absent .. Changed
        BY <3>2 DEF Absent, Changed
      <3>4. state \in [Modules -> Absent .. Changed] /\ done \in [Modules -> 0 .. MaxGeneration]
        BY DEF TypeOK, WorldTypeOK
      <3>5. state' \in [Modules -> Absent .. Changed]
        BY <2>1, <2>7, <3>3, <3>4 DEF PutInPlace
      <3>6. done' \in [Modules -> 0 .. MaxGeneration]
        BY <2>1, <2>7, <3>3, <3>4 DEF PutInPlace
      <3> QED  BY <3>1, <3>5, <3>6 DEF WorldTypeOK
    <2>9. ServerTypeOK' /\ faults' \in Nat
      BY <1>5, FaultsTyped DEF ApplyModule, ApplyNewAccount, ApplyState, TypeOK, ServerTypeOK, server
    <2> QED  BY <2>5, <2>6, <2>8, <2>9 DEF TypeOK
  <1>6. CASE Persist
    <2>1. ServerTypeOK' /\ WorldTypeOK' /\ faults' \in Nat
      BY <1>6, WriteCopyTyped DEF Persist, TypeOK, CopyTypeOK
    <2>2. CASE EndPass
      BY <2>1, <2>2, EnterTyped DEF TypeOK
    <2>3. CASE pc' = "conclude" /\ UNCHANGED <<outs, obj, fresh>>
      <3>1. CopyTypeOK' /\ RunTypeOK' /\ ProgressInv'
        BY <2>3 DEF TypeOK, CopyTypeOK, RunTypeOK, ProgressInv
      <3> QED  BY <2>1, <3>1 DEF TypeOK
    <2> QED  BY <1>6, <2>2, <2>3 DEF Persist
  <1>16. CASE Conclude
    <2>1. CASE EndPass
      <3>1. CopyTypeOK' /\ RunTypeOK' /\ ProgressInv'
        BY <2>1, EnterTyped DEF TypeOK
      <3>2. pc' = "idle"
        BY <2>1 DEF EndPass
      <3>3. ServerTypeOK' /\ WorldTypeOK' /\ faults' \in Nat
        BY <1>16, <3>2, FaultsTyped DEF Conclude, TypeOK, ServerTypeOK, WorldTypeOK, server, world, modules
      <3> QED  BY <3>1, <3>3 DEF TypeOK
    <2>2. CASE ~EndPass
      <3> DEFINE o == [cr EXCEPT !.creating = FALSE]
      <3>1. o \in Object
        BY DEF TypeOK, ServerTypeOK, Object
      <3>2. /\ Write(o) /\ obj' = cr' /\ fresh' = TRUE /\ UNCHANGED outs /\ NoFault
            /\ pc' = "announce" /\ UNCHANGED world
        BY <1>16, <2>2 DEF Conclude
      <3>3. ServerTypeOK' /\ cr' = o
        BY <3>1, <3>2, WriteTyped DEF TypeOK, Write
      <3>4. CopyTypeOK'
        BY <3>1, <3>2, <3>3 DEF CopyTypeOK
      <3>5. RunTypeOK' /\ ProgressInv'
        BY <3>2 DEF TypeOK, RunTypeOK, ProgressInv
      <3>6. WorldTypeOK' /\ faults' \in Nat
        BY <3>2, FaultsTyped DEF TypeOK, WorldTypeOK, world, modules
      <3> QED  BY <3>3, <3>4, <3>5, <3>6 DEF TypeOK
    <2> QED  BY <2>1, <2>2
  <1>17. CASE Refuse \/ Announce
    BY <1>17, WriteStatusTyped DEF Refuse, Announce
  <1>18. CASE GraceElapses
    <2>1. CopyTypeOK' /\ RunTypeOK' /\ ProgressInv'
      BY <1>18, RunUntouched DEF GraceElapses, TypeOK, CopyTypeOK
    <2>2. ServerTypeOK' /\ WorldTypeOK' /\ faults' \in Nat
      BY <1>18 DEF GraceElapses, TypeOK, ServerTypeOK, WorldTypeOK, server, modules
    <2> QED  BY <2>1, <2>2 DEF TypeOK
  <1>7. CASE Blocked
    <2>1. RunTypeOK' /\ ProgressInv'
      BY <1>7 DEF Blocked, TypeOK, RunTypeOK, ProgressInv
    <2>2. CopyTypeOK'
      BY <1>7 DEF Blocked, TypeOK, CopyTypeOK, Object
    <2>3. ServerTypeOK' /\ WorldTypeOK' /\ faults' \in Nat
      BY <1>7, FaultsTyped DEF Blocked, TypeOK, ServerTypeOK, WorldTypeOK, server, world, modules
    <2> QED  BY <2>1, <2>2, <2>3 DEF TypeOK
  <1>8. CASE TeardownModule
    <2>1. Len(outs) \in Nat /\ Len(outs) < N /\ Destroys \in Modules
      BY <1>8 DEF TeardownModule, Destroys, TypeOK, RunTypeOK, ProgressInv
    <2>2. \/ outs' = outs /\ pc' = "settle"
          \/ outs' = Append(outs, "Done") /\ pc' = IF Len(outs') = N THEN "settle" ELSE "destroy"
      BY <1>8 DEF TeardownModule
    <2>3. "Done" \in Outcome
      BY DEF Outcome
    <2>4. RunTypeOK' /\ ProgressInv'
      <3>1. CASE outs' = outs /\ pc' = "settle"
        BY <3>1 DEF TypeOK, RunTypeOK, ProgressInv
      <3>2. CASE outs' = Append(outs, "Done") /\ pc' = IF Len(outs') = N THEN "settle" ELSE "destroy"
        <4>1. outs' \in Seq(Outcome) /\ Len(outs') = Len(outs) + 1
          BY <2>3, <3>2, AppendOutcome DEF TypeOK, RunTypeOK
        <4> QED  BY <2>1, <3>2, <4>1 DEF RunTypeOK, ProgressInv
      <3> QED  BY <2>2, <3>1, <3>2
    <2>5. CopyTypeOK'
      BY <1>8 DEF TeardownModule, TypeOK, CopyTypeOK, Object
    <2>6. WorldTypeOK'
      BY <1>8, <2>1 DEF TeardownModule, TypeOK, WorldTypeOK
    <2>7. ServerTypeOK' /\ faults' \in Nat
      BY <1>8, FaultsTyped DEF TeardownModule, TypeOK, ServerTypeOK, server
    <2> QED  BY <2>4, <2>5, <2>6, <2>7 DEF TypeOK
  <1>9. CASE Settle
    BY <1>9, WriteStatusTyped DEF Settle
  <1>10. CASE Release
    <2>1. CopyTypeOK' /\ RunTypeOK' /\ ProgressInv'
      BY <1>10, EnterTyped DEF Release, TypeOK
    <2>2. [cr EXCEPT !.phase = "gone"] \in Object
      BY DEF TypeOK, ServerTypeOK, Object
    <2>3. ServerTypeOK' /\ WorldTypeOK' /\ faults' \in Nat
      BY <1>10, <2>2, WriteTyped, FaultsTyped DEF Release, TypeOK, ServerTypeOK, WorldTypeOK, server, world, modules
    <2> QED  BY <2>1, <2>3 DEF TypeOK
  <1>11. CASE EditSpec \/ DeleteResource
    <2>1. CopyTypeOK' /\ RunTypeOK' /\ ProgressInv'
      BY <1>11, RunUntouched DEF EditSpec, DeleteResource, Overtake, TypeOK
    <2>2. PICK o \in Object : Write(o)
      BY <1>11 DEF EditSpec, DeleteResource, TypeOK, ServerTypeOK, Object
    <2>3. ServerTypeOK' /\ WorldTypeOK' /\ faults' \in Nat
      BY <1>11, <2>2, WriteTyped DEF EditSpec, DeleteResource, TypeOK, WorldTypeOK, world, modules
    <2> QED  BY <2>1, <2>3 DEF TypeOK
  <1>12. CASE CacheSync
    <2>1. CopyTypeOK' /\ RunTypeOK' /\ ProgressInv'
      BY <1>12, RunUntouched DEF CacheSync, TypeOK, CopyTypeOK
    <2>2. ServerTypeOK' /\ WorldTypeOK' /\ faults' \in Nat
      BY <1>12 DEF CacheSync, TypeOK, ServerTypeOK, WorldTypeOK, world, modules
    <2> QED  BY <2>1, <2>2 DEF TypeOK
  <1>13. CASE Crash
    <2>1. CopyTypeOK' /\ RunTypeOK' /\ ProgressInv'
      BY <1>13, EnterTyped DEF Crash, TypeOK
    <2>2. ServerTypeOK' /\ WorldTypeOK' /\ faults' \in Nat
      BY <1>13, FaultsTyped DEF Crash, TypeOK, ServerTypeOK, WorldTypeOK, server, world, modules
    <2> QED  BY <2>1, <2>2 DEF TypeOK
  <1>14. CASE \E m \in Modules : ChangeOutside(m)
    <2>1. CopyTypeOK' /\ RunTypeOK' /\ ProgressInv'
      BY <1>14, RunUntouched DEF ChangeOutside, TypeOK, CopyTypeOK
    <2>2. WorldTypeOK'
      BY <1>14 DEF ChangeOutside, TypeOK, WorldTypeOK, Absent, Changed
    <2>3. ServerTypeOK' /\ faults' \in Nat
      BY <1>14, FaultsTyped DEF ChangeOutside, TypeOK, ServerTypeOK, server
    <2> QED  BY <2>1, <2>2, <2>3 DEF TypeOK
  <1>15. CASE UNCHANGED vars
    BY <1>15 DEF vars, TypeOK, ServerTypeOK, CopyTypeOK, RunTypeOK, WorldTypeOK, ProgressInv
  <1> QED
    BY <1>1, <1>2, <1>3, <1>4, <1>5, <1>6, <1>7, <1>8, <1>9, <1>10, <1>11, <1>12, <1>13, <1>14,
       <1>15, <1>16, <1>17, <1>18
       DEF Next, Controller

-----------------------------------------------------------------------------
(* The copies.                                                             *)

\* What a reported outcome leaves in the pass's copy; only a run of all modules counts as
\* complete.
LEMMA ReportedFields ==
    ASSUME TypeOK, Len(outs) < N,
           NEW o \in Outcome, NEW located \in BOOLEAN, Reported(Len(outs) + 1, o, located)
    PROVE  /\ outs' = Append(outs, o) /\ fresh' = fresh /\ pc' \in {"apply", "persist"}
           /\ obj'.phase = obj.phase /\ obj'.generation = obj.generation
           /\ obj'.located = located /\ obj'.creating = obj.creating
           /\ obj'.ready => obj.ready \/ obj'.observed = obj.generation
           /\ obj'.ready => obj.ready \/ (pc' = "persist" /\ Complete(outs') /\ Len(outs) + 1 = N)
           /\ obj.ready => obj'.ready
           /\ pc' = "apply" => obj'.ready = obj.ready /\ obj'.observed = obj.observed
           /\ \/ obj'.observed = obj.observed
              \/ /\ pc' = "persist" /\ obj'.observed = obj.generation
                 /\ Complete(Append(outs, o)) /\ Len(outs) + 1 = N
  <1> DEFINE run == Append(outs, o)
  <1>1. /\ obj \in Object /\ outs \in Seq(Outcome) /\ Len(outs) \in Nat
    BY DEF TypeOK, CopyTypeOK, RunTypeOK
  <1>2. outs' = run /\ fresh' = fresh
    BY DEF Reported
  <1>3. Complete(run) => o = "Done"
    <2>1. DOMAIN run = 1 .. Len(outs) + 1 /\ run[Len(outs) + 1] = o
      BY <1>1, AppendOutcome
    <2>2. Len(outs) + 1 \in DOMAIN run
      BY <1>1, <2>1
    <2> QED  BY <2>1, <2>2 DEF Complete
  <1>4. CASE Stops(Len(outs) + 1, o) \/ Len(outs) + 1 = N
    <2>1. /\ pc' = "persist"
          /\ obj' = [obj EXCEPT !.located = located, !.ready = Ready(run),
                                !.observed = IF Complete(run) THEN obj.generation ELSE obj.observed]
      BY <1>4 DEF Reported
    <2>2. /\ obj'.phase = obj.phase /\ obj'.generation = obj.generation /\ obj'.located = located
          /\ obj'.creating = obj.creating
          /\ obj'.ready = Ready(run)
          /\ obj'.observed = IF Complete(run) THEN obj.generation ELSE obj.observed
      BY <1>1, <2>1 DEF Object
    <2>3. Complete(run) => Len(outs) + 1 = N
      BY <1>3, <1>4 DEF Stops
    <2> HIDE DEF run
    <2>4. Ready(run) <=> obj.ready \/ Complete(run)
      BY DEF Ready
    <2> QED  BY <1>2, <2>1, <2>2, <2>3, <2>4 DEF run
  <1>5. CASE ~(Stops(Len(outs) + 1, o) \/ Len(outs) + 1 = N)
    <2>1. pc' = "apply" /\ obj' = [obj EXCEPT !.located = located]
      BY <1>5 DEF Reported
    <2>2. /\ obj'.phase = obj.phase /\ obj'.generation = obj.generation /\ obj'.located = located
          /\ obj'.creating = obj.creating
          /\ obj'.ready = obj.ready /\ obj'.observed = obj.observed
      BY <1>1, <2>1 DEF Object
    <2> QED  BY <1>2, <2>1, <2>2
  <1> QED  BY <1>4, <1>5

\* What a module's step reports.
LEMMA ApplyReports ==
    ASSUME TypeOK, ProgressInv, ApplyModule
    PROVE  /\ pc = "apply" /\ Len(outs) < N /\ Len(outs) \in Nat /\ Len(outs) + 1 \in Modules
           /\ UNCHANGED <<server, torn>>
           /\ \E o \in Outcome, located \in BOOLEAN :
                 /\ Reported(Len(outs) + 1, o, located)
                 /\ IF o = "Done" THEN PutInPlace(Len(outs) + 1) ELSE UNCHANGED done
  <1>1. pc = "apply" /\ Len(outs) < N /\ Len(outs) \in Nat /\ Len(outs) + 1 \in Modules
    BY ConstantsTyped DEF ApplyModule, TypeOK, RunTypeOK, ProgressInv
  <1>2. UNCHANGED <<server, torn>>
    BY DEF ApplyModule
  <1>3. {"Done", "Pending", "Failed"} \subseteq Outcome /\ obj.located \in BOOLEAN
    BY DEF Outcome, TypeOK, CopyTypeOK, Object
  <1> DEFINE m == Len(outs) + 1
  <1> DEFINE Result(o, located) ==
                /\ Reported(m, o, located)
                /\ IF o = "Done" THEN PutInPlace(m) ELSE UNCHANGED done
  <1>4. \/ Result("Pending", TRUE) \/ Result("Failed", FALSE)
        \/ Result("Done", obj.located) \/ Result("Pending", obj.located)
        \/ Result("Failed", obj.located)
    BY DEF ApplyModule, ApplyNewAccount, ApplyState
  <1> HIDE DEF Result
  <1>5. \E o \in Outcome, located \in BOOLEAN : Result(o, located)
    BY <1>3, <1>4
  <1> QED  BY <1>1, <1>2, <1>5 DEF Result

\* The outcome reported is the run's last, and the locator reported is the copy's.
LEMMA ApplyFinds ==
    ASSUME TypeOK, Len(outs) < N, NEW o \in Outcome, NEW located \in BOOLEAN,
           Reported(Len(outs) + 1, o, located)
    PROVE  outs'[Len(outs) + 1] = o /\ obj'.located = located
  <1>1. outs' = Append(outs, o) /\ obj'.located = located
    BY ReportedFields
  <1> QED  BY <1>1, AppendOutcome DEF TypeOK, RunTypeOK

\* What a module's step does to the account's locator and grace period.
LEMMA ApplyGrace ==
    ASSUME TypeOK, ProgressInv, ApplyModule
    PROVE  /\ obj.located => obj'.located
           /\ grace' = grace \/ ~obj.located
           /\ (Len(outs) + 1 = Account /\ outs'[Account] = "Done") => obj'.located /\ ~grace'
  <1> DEFINE k == Len(outs) + 1
  <1> DEFINE Result(o, located) ==
                /\ Reported(k, o, located)
                /\ obj.located => located
                /\ grace' = grace \/ ~obj.located
                /\ (k = Account /\ o = "Done") => located /\ ~grace'
  <1>0. Len(outs) < N
    BY ApplyReports
  <1>1. {"Done", "Pending", "Failed"} \subseteq Outcome /\ obj.located \in BOOLEAN /\ grace \in BOOLEAN
    BY DEF Outcome, TypeOK, CopyTypeOK, WorldTypeOK, Object
  <1>2. CASE k = Account /\ (grace \/ ~obj.located)
    <2>1. ApplyNewAccount
      BY <1>2 DEF ApplyModule
    <2>2. Result("Pending", TRUE) \/ Result("Failed", FALSE)
      BY <1>2, <2>1 DEF ApplyNewAccount
    <2> HIDE DEF Result
    <2>3. PICK o \in Outcome, located \in BOOLEAN : Result(o, located)
      BY <1>1, <2>2
    <2>4. outs'[k] = o /\ obj'.located = located
      BY <1>0, <2>3, ApplyFinds DEF Result
    <2> QED  BY <2>3, <2>4 DEF Result
  <1>3. CASE ~(k = Account /\ (grace \/ ~obj.located))
    <2>1. ApplyState(k)
      BY <1>3 DEF ApplyModule
    <2>2. Result("Done", obj.located) \/ Result("Pending", obj.located) \/ Result("Failed", obj.located)
      BY <1>3, <2>1 DEF ApplyState
    <2> HIDE DEF Result
    <2>3. PICK o \in Outcome, located \in BOOLEAN : Result(o, located)
      BY <1>1, <2>2
    <2>4. outs'[k] = o /\ obj'.located = located
      BY <1>0, <2>3, ApplyFinds DEF Result
    <2> QED  BY <2>3, <2>4 DEF Result
  <1> QED  BY <1>2, <1>3

\* Writes of the pass's copy.
LEMMA WriteCopyCases ==
    ASSUME NEW o, WriteCopy(o)
    PROVE  /\ cache' = cache /\ UNCHANGED world
           /\ (cr' = cr /\ cacheFresh' = cacheFresh) \/ (fresh /\ cr' = o /\ cacheFresh' = FALSE)
  BY DEF WriteCopy, Write, server

\* The copy as Creating() leaves it.
LEMMA CreatingFields ==
    ASSUME NEW o \in Object
    PROVE  LET p == [o EXCEPT !.ready = FALSE] IN
           /\ p.phase = o.phase /\ p.generation = o.generation /\ p.observed = o.observed
           /\ p.located = o.located /\ p.creating = o.creating /\ p.ready = FALSE
  BY DEF Object

\* Every step keeps what is known of the copies.
LEMMA CopiesStep ==
    ASSUME TypeOK, ProgressInv, CopiesInv, [Next]_vars
    PROVE  CopiesInv'
  <1>0. /\ cr \in Object /\ cache \in Object /\ obj \in Object
        /\ fresh \in BOOLEAN /\ cacheFresh \in BOOLEAN
    BY DEF TypeOK, ServerTypeOK, CopyTypeOK
  <1>1. CASE ReadObject
    <2>1. pc' = "destroy" => cache.phase = "deleting"
      BY <1>0, <1>1 DEF ReadObject, Object
    <2>2. pc' \in {"refuse", "observe", "destroy", "release"}
      BY <1>1 DEF ReadObject
    <2> QED  BY <1>0, <1>1, <2>1, <2>2 DEF ReadObject, CopiesInv, server, Object
  <1>2. CASE ObserveModule
    BY <1>2 DEF ObserveModule, CopiesInv, server
  <1>3. CASE Decide
    <2>1. /\ UNCHANGED server
          /\ \/ pc' = "idle" /\ fresh' = FALSE
             \/ pc' \in {"claim", "apply"} /\ UNCHANGED <<obj, fresh>>
      BY <1>3 DEF Decide, Enter, EndPass
    <2>2. pc = "observe"
      BY <1>3 DEF Decide
    <2> QED  BY <2>1, <2>2 DEF CopiesInv, server
  <1>4. CASE Claim
    <2>1. \/ pc' = "idle" /\ fresh' = FALSE /\ UNCHANGED server
          \/ /\ pc' = "apply" /\ UNCHANGED <<fresh, cache>> /\ cacheFresh' = FALSE
             /\ obj' = [obj EXCEPT !.creating = TRUE] /\ cr' = [cr EXCEPT !.creating = TRUE]
      BY <1>4 DEF Claim, EndPass, Write
    <2>2. pc = "claim"
      BY <1>4 DEF Claim
    <2>3. CASE pc' = "apply"
      <3>1. /\ obj' = [obj EXCEPT !.creating = TRUE] /\ cr' = [cr EXCEPT !.creating = TRUE]
            /\ cacheFresh' = FALSE /\ UNCHANGED <<fresh, cache>>
        BY <2>1, <2>3
      <3>2. /\ obj'.phase = obj.phase /\ obj'.generation = obj.generation /\ obj'.creating
            /\ obj'.ready = obj.ready /\ obj'.observed = obj.observed
            /\ cr'.phase = cr.phase /\ cr'.generation = cr.generation /\ cr'.creating
            /\ cr'.ready = cr.ready /\ cr'.observed = cr.observed
            /\ obj'.creating = cr'.creating
        BY <1>0, <3>1 DEF Object
      <3> QED  BY <2>2, <2>3, <3>1, <3>2 DEF CopiesInv
    <2> QED  BY <2>1, <2>2, <2>3 DEF CopiesInv, server
  <1>5. CASE ApplyModule
    <2>1. pc = "apply" /\ UNCHANGED server
      BY <1>5, ApplyReports
    <2>2. /\ fresh' = fresh /\ pc' \in {"apply", "persist"}
          /\ obj'.phase = obj.phase /\ obj'.generation = obj.generation
          /\ obj'.creating = obj.creating
          /\ obj'.ready => obj.ready \/ obj'.observed = obj.generation
          /\ obj.ready => obj'.ready
          /\ pc' = "apply" => obj'.ready = obj.ready /\ obj'.observed = obj.observed
      BY <1>5, ApplyReports, ReportedFields
    <2> QED  BY <2>1, <2>2 DEF CopiesInv, server
  <1>6. CASE pc' = "idle" /\ (Persist \/ Settle \/ Refuse \/ Announce)
    <2>1. PICK o \in {obj, [obj EXCEPT !.ready = FALSE]} : EndPass /\ WriteCopy(o)
      BY <1>6 DEF Persist, Settle, Refuse, Announce, WriteStatus, WriteCreating
    <2>2. o.generation = obj.generation /\ o.phase = obj.phase
      BY <1>0, CreatingFields
    <2>3. /\ pc' = "idle" /\ fresh' = FALSE /\ cache' = cache
          /\ (cr' = cr /\ cacheFresh' = cacheFresh) \/ (fresh /\ cr' = o /\ cacheFresh' = FALSE)
      BY <2>1, WriteCopyCases DEF EndPass
    <2> QED  BY <2>2, <2>3 DEF CopiesInv
  <1>15. CASE Persist /\ pc' # "idle"
    <2>1. /\ pc = "persist" /\ pc' = "conclude" /\ UNCHANGED <<obj, fresh>> /\ cache' = cache
          /\ (cr' = cr /\ cacheFresh' = cacheFresh) \/ (fresh /\ cr' = obj /\ cacheFresh' = FALSE)
      BY <1>15, WriteCopyCases DEF Persist, EndPass
    <2> QED  BY <2>1 DEF CopiesInv
  <1>16. CASE Conclude
    <2>1. \/ pc' = "idle" /\ fresh' = FALSE /\ UNCHANGED server
          \/ /\ pc' = "announce" /\ obj' = cr' /\ cache' = cache /\ cacheFresh' = FALSE
             /\ cr' = [cr EXCEPT !.creating = FALSE]
      BY <1>16 DEF Conclude, EndPass, Write
    <2>2. CASE pc' = "announce"
      <3>1. obj' = cr' /\ cache' = cache /\ cacheFresh' = FALSE /\ cr'.generation = cr.generation
        BY <1>0, <2>1, <2>2 DEF Object
      <3> QED  BY <2>2, <3>1 DEF CopiesInv
    <2> QED  BY <2>1, <2>2 DEF CopiesInv, server
  <1>17. CASE GraceElapses
    BY <1>17 DEF GraceElapses, CopiesInv, server
  <1>7. CASE Blocked
    <2>1. /\ obj'.creating = obj.creating /\ obj'.phase = obj.phase /\ obj'.generation = obj.generation
          /\ obj'.observed = obj.observed /\ obj'.ready = FALSE
      BY <1>0, <1>7 DEF Blocked, Object
    <2> QED  BY <1>7, <2>1 DEF Blocked, CopiesInv, server
  <1>8. CASE TeardownModule
    <2>1. /\ obj'.phase = obj.phase /\ obj'.generation = obj.generation
          /\ obj'.creating = obj.creating
          /\ obj'.observed = obj.observed /\ obj'.ready = obj.ready
      BY <1>0, <1>8 DEF TeardownModule, Object
    <2>2. pc = "destroy" /\ pc' \in {"destroy", "settle"} /\ UNCHANGED <<fresh, server>>
      BY <1>8 DEF TeardownModule
    <2> QED  BY <2>1, <2>2 DEF CopiesInv, server
  <1>9. CASE Release
    <2>1. /\ pc' = "idle" /\ fresh' = FALSE /\ cache' = cache
          /\ \/ cr' = cr /\ cacheFresh' = cacheFresh
             \/ cr' = [cr EXCEPT !.phase = "gone"] /\ cacheFresh' = FALSE
      BY <1>9 DEF Release, EndPass, Write, server
    <2>2. cr'.generation = cr.generation
      BY <1>0, <2>1 DEF Object
    <2> QED  BY <2>1, <2>2 DEF CopiesInv
  <1>10. CASE EditSpec \/ DeleteResource
    <2>1. /\ fresh' = FALSE /\ cacheFresh' = FALSE /\ UNCHANGED <<pc, obj, cache>>
          /\ \/ cr' = [cr EXCEPT !.generation = @ + 1]
             \/ cr' = [cr EXCEPT !.phase = "deleting"]
      BY <1>10 DEF EditSpec, DeleteResource, Write, Overtake
    <2>2. cr'.generation >= cr.generation /\ cr'.generation \in Nat
      BY <1>0, <2>1, ConstantsTyped DEF Object
    <2>3. cache.generation \in Nat /\ cr.generation \in Nat
      BY <1>0, ConstantsTyped DEF Object
    <2> QED  BY <2>1, <2>2, <2>3 DEF CopiesInv
  <1>11. CASE CacheSync
    <2>1. /\ obj.generation \in Nat /\ cache.generation \in Nat /\ cr.generation \in Nat
      BY <1>0, ConstantsTyped DEF Object
    <2> QED  BY <1>11, <2>1 DEF CacheSync, CopiesInv
  <1>12. CASE Crash
    BY <1>12 DEF Crash, EndPass, CopiesInv, server
  <1>13. CASE \E m \in Modules : ChangeOutside(m)
    BY <1>13 DEF ChangeOutside, CopiesInv, server
  <1>14. CASE UNCHANGED vars
    BY <1>14 DEF vars, CopiesInv
  <1> QED
    <2>1. Settle \/ Refuse \/ Announce => pc' = "idle"
      BY DEF Settle, Refuse, Announce, WriteStatus, WriteCreating, EndPass
    <2> QED
      BY <1>1, <1>2, <1>3, <1>4, <1>5, <1>6, <1>7, <1>8, <1>9, <1>10, <1>11, <1>12, <1>13, <1>14,
         <1>15, <1>16, <1>17, <2>1
         DEF Next, Controller

-----------------------------------------------------------------------------
(* What the copies claim.                                                  *)

\* The numbers the argument compares.
LEMMA Numbers ==
    ASSUME TypeOK
    PROVE  /\ \A o \in {cr, cache, obj} : o.generation \in Nat /\ o.observed \in Nat
           /\ \A m \in Modules : done[m] \in Nat
  <1>1. cr \in Object /\ cache \in Object /\ obj \in Object
    BY DEF TypeOK, ServerTypeOK, CopyTypeOK
  <1>2. \A o \in Object : o.generation \in Nat /\ o.observed \in Nat
    BY ConstantsTyped DEF Object
  <1>3. \A m \in Modules : done[m] \in Nat
    BY ConstantsTyped DEF TypeOK, WorldTypeOK
  <1> QED  BY <1>1, <1>2, <1>3

\* The end of a pass claims nothing.
LEMMA EndClaimsNothing ==
    ASSUME TypeOK, AppliedInv, EndPass, UNCHANGED <<cache, done>>,
           \A m \in Modules : cr'.observed <= done[m]
    PROVE  AppliedInv'
  <1>1. pc' = "idle" /\ obj'.observed = 0
    BY CreatedTyped DEF EndPass
  <1>2. \A m \in Modules : \A o \in {cr', cache', obj'} : o.observed <= done[m]
    BY <1>1, Numbers DEF AppliedInv
  <1>3. \A m \in Modules : done'[m] <= cache'.generation
    BY DEF AppliedInv
  <1> QED  BY <1>1, <1>2, <1>3 DEF AppliedInv

\* Every step keeps claims true.
LEMMA AppliedStep ==
    ASSUME TypeOK, ProgressInv, CopiesInv, AppliedInv, [Next]_vars
    PROVE  AppliedInv'
  <1>1. CASE ReadObject
    <2>1. pc' # "apply" /\ obj' = cache /\ UNCHANGED <<cr, cache, done>>
      BY <1>1 DEF ReadObject, server, world, modules
    <2> QED  BY <2>1 DEF AppliedInv
  <1>2. CASE ObserveModule
    BY <1>2 DEF ObserveModule, AppliedInv, server, world, modules
  <1>3. CASE Decide
    <2>1. UNCHANGED <<cr, cache, done>> /\ pc = "observe"
      BY <1>3 DEF Decide, server, world, modules
    <2>2. CASE EndPass
      BY <2>1, <2>2, EndClaimsNothing DEF AppliedInv
    <2>3. CASE Enter("claim") \/ Enter("apply")
      <3>1. outs' = <<>> /\ obj' = obj
        BY <2>3 DEF Enter
      <3> QED  BY <2>1, <3>1, NoOutcomes DEF AppliedInv
    <2> QED  BY <1>3, <2>2, <2>3 DEF Decide
  <1>4. CASE Claim
    <2>1. UNCHANGED <<cache, done>> /\ pc = "claim"
      BY <1>4 DEF Claim, Write, server, world, modules
    <2>2. CASE EndPass
      <3>1. cr' = cr
        BY <1>4, <2>2 DEF Claim, EndPass, server
      <3> QED  BY <2>1, <2>2, <3>1, EndClaimsNothing DEF AppliedInv
    <2>3. CASE ~EndPass
      <3>1. /\ outs' = <<>> /\ pc' = "apply" /\ obj' = [obj EXCEPT !.creating = TRUE]
            /\ cr' = [cr EXCEPT !.creating = TRUE]
        BY <1>4, <2>3 DEF Claim, Write
      <3>2. /\ cr'.observed = cr.observed /\ obj'.observed = obj.observed
            /\ obj'.generation = obj.generation
        BY <3>1 DEF TypeOK, ServerTypeOK, CopyTypeOK, Object
      <3> QED  BY <2>1, <3>1, <3>2, NoOutcomes DEF AppliedInv
    <2> QED  BY <2>2, <2>3
  <1>5. CASE ApplyModule
    <2> DEFINE k == Len(outs) + 1
    <2>1. /\ pc = "apply" /\ Len(outs) < N /\ Len(outs) \in Nat /\ k \in Modules
          /\ UNCHANGED <<cr, cache>>
      BY <1>5, ApplyReports DEF server
    <2>2. PICK o \in Outcome, located \in BOOLEAN :
             /\ Reported(k, o, located)
             /\ IF o = "Done" THEN PutInPlace(k) ELSE UNCHANGED done
      BY <1>5, ApplyReports
    <2>3. /\ outs' = Append(outs, o)
          /\ obj'.generation = obj.generation
          /\ \/ obj'.observed = obj.observed
             \/ /\ pc' = "persist" /\ obj'.observed = obj.generation
                /\ Complete(outs') /\ k = N
      BY <2>1, <2>2, ReportedFields
    <2>4. /\ DOMAIN outs' = 1 .. k /\ DOMAIN outs = 1 .. Len(outs) /\ outs'[k] = o
          /\ \A i \in DOMAIN outs : outs'[i] = outs[i]
      BY <2>3, AppendOutcome DEF TypeOK, RunTypeOK
    <2>5. /\ \A m \in Modules : m # k => done'[m] = done[m]
          /\ done'[k] = IF o = "Done" THEN obj.generation ELSE done[k]
      BY <2>1, <2>2 DEF PutInPlace, TypeOK, WorldTypeOK
    <2>6. \A m \in Modules : done[m] <= obj.generation /\ obj.generation <= cache.generation
      BY <2>1 DEF AppliedInv, CopiesInv
    <2>7. \A m \in Modules : done[m] <= done'[m] /\ done'[m] <= obj.generation
      BY <2>5, <2>6, Numbers
    <2>8. \A i \in DOMAIN outs' : outs'[i] = "Done" => done'[i] = obj.generation
      <3>1. \A i \in DOMAIN outs : outs[i] = "Done" => done[i] = obj.generation
        BY <2>1 DEF AppliedInv
      <3>2. \A i \in DOMAIN outs : i \in Modules /\ i # k
        BY <2>1, <2>4, ConstantsTyped
      <3>3. \A i \in DOMAIN outs' : i = k \/ i \in DOMAIN outs
        BY <2>1, <2>4
      <3> QED  BY <2>4, <2>5, <3>1, <3>2, <3>3
    <2>9. \A m \in Modules : obj'.observed <= done'[m]
      <3>1. CASE obj'.observed = obj.observed
        <4>1. \A m \in Modules : obj.observed <= done[m]
          BY DEF AppliedInv
        <4>2. \A m \in Modules : done'[m] \in Nat
          BY TypeStep, ConstantsTyped DEF TypeOK, WorldTypeOK
        <4> QED  BY <2>7, <3>1, <4>1, <4>2, Numbers
      <3>2. CASE obj'.observed = obj.generation /\ Complete(outs') /\ k = N
        <4>1. \A m \in Modules : m \in DOMAIN outs'
          BY <2>4, <3>2, ConstantsTyped
        <4>2. \A m \in Modules : done'[m] = obj.generation
          BY <2>8, <3>2, <4>1 DEF Complete
        <4> QED  BY <3>2, <4>2, Numbers
      <3> QED  BY <2>3, <3>1, <3>2
    <2>10. \A m \in Modules : cr.observed <= done'[m] /\ cache.observed <= done'[m]
      <3>1. \A m \in Modules : cr.observed <= done[m] /\ cache.observed <= done[m]
        BY DEF AppliedInv
      <3>2. \A m \in Modules : done'[m] \in Nat
        BY TypeStep, ConstantsTyped DEF TypeOK, WorldTypeOK
      <3> QED  BY <2>7, <3>1, <3>2, Numbers
    <2>11. \A m \in Modules : done'[m] <= cache'.generation /\ done'[m] <= obj'.generation
      <3>1. \A m \in Modules : done'[m] \in Nat
        BY TypeStep, ConstantsTyped DEF TypeOK, WorldTypeOK
      <3> QED  BY <2>1, <2>3, <2>6, <2>7, <3>1, Numbers
    <2> QED  BY <2>1, <2>3, <2>8, <2>9, <2>10, <2>11 DEF AppliedInv
  <1>6. CASE pc' = "idle" /\ (Persist \/ Settle \/ Refuse \/ Announce)
    <2>1. PICK o \in {obj, [obj EXCEPT !.ready = FALSE]} : EndPass /\ WriteCopy(o)
      BY <1>6 DEF Persist, Settle, Refuse, Announce, WriteStatus, WriteCreating
    <2>2. o.observed = obj.observed
      BY CreatingFields DEF TypeOK, CopyTypeOK
    <2>3. EndPass /\ UNCHANGED <<cache, done>> /\ (cr' = cr \/ cr' = o)
      BY <2>1, WriteCopyCases DEF world, modules
    <2> QED  BY <2>2, <2>3, EndClaimsNothing DEF AppliedInv
  <1>15. CASE Persist /\ pc' # "idle"
    <2>1. /\ pc = "persist" /\ pc' = "conclude" /\ UNCHANGED <<obj, cache, done>>
          /\ cr' = cr \/ cr' = obj
      BY <1>15, WriteCopyCases DEF Persist, EndPass, world, modules
    <2> QED  BY <2>1 DEF AppliedInv
  <1>16. CASE Conclude
    <2>1. CASE EndPass
      <3>1. UNCHANGED <<cr, cache, done>>
        BY <1>16, <2>1 DEF Conclude, EndPass, server, world, modules
      <3> QED  BY <2>1, <3>1, EndClaimsNothing DEF AppliedInv
    <2>2. CASE ~EndPass
      <3>1. /\ pc' = "announce" /\ obj' = cr' /\ UNCHANGED <<cache, done>>
            /\ cr' = [cr EXCEPT !.creating = FALSE]
        BY <1>16, <2>2 DEF Conclude, Write, world, modules
      <3>2. cr'.observed = cr.observed /\ cr'.generation = cr.generation
        BY <3>1 DEF TypeOK, ServerTypeOK, Object
      <3>3. \A m \in Modules : done[m] <= cr.generation
        BY Numbers DEF AppliedInv, CopiesInv
      <3> QED  BY <3>1, <3>2, <3>3 DEF AppliedInv
    <2> QED  BY <2>1, <2>2
  <1>17. CASE GraceElapses
    BY <1>17 DEF GraceElapses, AppliedInv, server, modules
  <1>7. CASE Blocked
    <2>1. obj'.generation = obj.generation /\ obj'.observed = obj.observed
      BY <1>7 DEF Blocked, TypeOK, CopyTypeOK, Object
    <2> QED  BY <1>7, <2>1 DEF Blocked, AppliedInv, server, world, modules
  <1>8. CASE TeardownModule
    <2>1. obj'.generation = obj.generation /\ obj'.observed = obj.observed
      BY <1>8 DEF TeardownModule, TypeOK, CopyTypeOK, Object
    <2>2. pc = "destroy" /\ pc' \in {"destroy", "settle"} /\ UNCHANGED <<cr, cache, done>>
      BY <1>8 DEF TeardownModule, server
    <2> QED  BY <2>1, <2>2 DEF AppliedInv
  <1>9. CASE Release
    <2>1. EndPass /\ UNCHANGED <<cache, done>> /\ (cr' = cr \/ cr' = [cr EXCEPT !.phase = "gone"])
      BY <1>9 DEF Release, Write, server, world, modules
    <2>2. cr'.observed = cr.observed
      BY <2>1 DEF TypeOK, ServerTypeOK, Object
    <2> QED  BY <2>1, <2>2, EndClaimsNothing DEF AppliedInv
  <1>10. CASE EditSpec \/ DeleteResource
    <2>1. /\ UNCHANGED <<pc, obj, outs, cache, done>>
          /\ \/ cr' = [cr EXCEPT !.generation = @ + 1]
             \/ cr' = [cr EXCEPT !.phase = "deleting"]
      BY <1>10 DEF EditSpec, DeleteResource, Write, Overtake, world, modules
    <2>2. cr'.observed = cr.observed
      BY <2>1 DEF TypeOK, ServerTypeOK, Object
    <2> QED  BY <2>1, <2>2 DEF AppliedInv
  <1>11. CASE CacheSync
    <2>1. UNCHANGED <<cr, pc, obj, outs, done>> /\ cache' = cr
      BY <1>11 DEF CacheSync, world, modules
    <2>2. \A m \in Modules : done[m] <= cr.generation
      BY Numbers DEF AppliedInv, CopiesInv
    <2> QED  BY <2>1, <2>2 DEF AppliedInv
  <1>12. CASE Crash
    <2>1. EndPass /\ UNCHANGED <<cr, cache, done>>
      BY <1>12 DEF Crash, server, world, modules
    <2> QED  BY <2>1, EndClaimsNothing DEF AppliedInv
  <1>13. CASE \E m \in Modules : ChangeOutside(m)
    BY <1>13 DEF ChangeOutside, AppliedInv, server
  <1>14. CASE UNCHANGED vars
    BY <1>14 DEF vars, AppliedInv
  <1> QED
    <2>1. Settle \/ Refuse \/ Announce => pc' = "idle"
      BY DEF Settle, Refuse, Announce, WriteStatus, WriteCreating, EndPass
    <2> QED
      BY <1>1, <1>2, <1>3, <1>4, <1>5, <1>6, <1>7, <1>8, <1>9, <1>10, <1>11, <1>12, <1>13, <1>14,
         <1>15, <1>16, <1>17, <2>1
         DEF Next, Controller

-----------------------------------------------------------------------------
(* Teardown.                                                               *)

\* Every step keeps teardown in order.
LEMMA TornStep ==
    ASSUME TypeOK, ProgressInv, TornInv, [Next]_vars
    PROVE  TornInv'
  <1> USE ConstantsTyped
  <1>1. CASE ReadObject
    <2>1. outs' = <<>> /\ torn' = torn /\ (pc' = "destroy" => obj'.located) /\ pc' # "settle"
      BY <1>1 DEF ReadObject, ProgressInv, world, modules
    <2> QED  BY <2>1, NoOutcomes DEF TornInv
  <1>2. CASE ApplyModule
    <2>1. torn' = torn /\ pc' \in {"apply", "persist"}
      BY <1>2, ApplyReports, ReportedFields
    <2> QED  BY <2>1 DEF TornInv
  <1>3. CASE Blocked
    <2>1. pc = "destroy" /\ pc' = "settle" /\ torn' = torn /\ obj'.located = obj.located
      BY <1>3 DEF Blocked, world, modules, TypeOK, CopyTypeOK, Object
    <2> QED  BY <2>1 DEF TornInv
  <1>4. CASE TeardownModule
    <2> DEFINE d == N - Len(outs)
    <2>1. /\ pc = "destroy" /\ Len(outs) \in Nat /\ Len(outs) < N /\ d \in Modules
      BY <1>4 DEF TeardownModule, TypeOK, RunTypeOK, ProgressInv
    <2>2. \A m \in Modules : m > d => m \in torn
      BY <2>1 DEF TornInv
    <2>3. d = Account => Account + 1 .. N \subseteq torn
      BY <2>1, <2>2
    <2>4. /\ torn' = torn \/ (torn' = torn \cup {d} /\ outs' = Append(outs, "Done"))
          /\ pc' = "destroy" => torn' = torn \cup {d} /\ outs' = Append(outs, "Done")
          /\ obj'.located = obj.located \/ d = Account
      BY <1>4 DEF TeardownModule, Destroys
    <2>5. pc' = "destroy" => \A m \in Modules : m > N - Len(outs') => m \in torn'
      <3>1. SUFFICES ASSUME pc' = "destroy", NEW m \in Modules, m > N - Len(outs')
                     PROVE  m \in torn'
        OBVIOUS
      <3>2. "Done" \in Outcome
        BY DEF Outcome
      <3>3. Len(outs') = Len(outs) + 1
        BY <2>4, <3>1, <3>2, AppendOutcome DEF TypeOK, RunTypeOK
      <3>4. m = d \/ m > d
        BY <2>1, <3>1, <3>3
      <3> QED  BY <2>2, <2>4, <3>1, <3>4
    <2>6. (Account \in torn' \/ ~obj'.located) => Account + 1 .. N \subseteq torn'
      <3>1. (Account \in torn' \/ ~obj'.located) => Account \in torn \/ ~obj.located \/ d = Account
        BY <2>4
      <3> QED  BY <2>1, <2>3, <2>4, <3>1 DEF TornInv
    <2> QED  BY <2>5, <2>6 DEF TornInv
  <1>5. CASE Refuse \/ Persist \/ Conclude \/ Announce \/ Settle \/ Release \/ Crash
    <2>1. pc' \in {"idle", "conclude", "announce"} /\ torn' = torn
      BY <1>5 DEF Refuse, Persist, Conclude, Announce, Settle, WriteStatus, WriteCreating, WriteCopy,
                  Release, Crash, EndPass, world, modules
    <2> QED  BY <2>1 DEF TornInv
  <1>6. CASE Decide \/ Claim \/ ObserveModule
    <2>1. pc' \in {"idle", "claim", "apply", "observe"} /\ torn' = torn
      BY <1>6 DEF Decide, Claim, ObserveModule, Enter, EndPass, world, modules
    <2> QED  BY <2>1 DEF TornInv
  <1>7. CASE EditSpec \/ DeleteResource \/ CacheSync \/ GraceElapses \/ (\E m \in Modules : ChangeOutside(m)) \/ UNCHANGED vars
    <2>1. UNCHANGED <<pc, obj, outs, torn>>
      BY <1>7 DEF EditSpec, DeleteResource, Overtake, CacheSync, GraceElapses, ChangeOutside,
                  world, modules, vars
    <2> QED  BY <2>1 DEF TornInv
  <1> QED
    BY <1>1, <1>2, <1>3, <1>4, <1>5, <1>6, <1>7 DEF Next, Controller

-----------------------------------------------------------------------------
(* Ready.                                                                  *)

\* What a module's step does to the copy's Ready and locator.
LEMMA ApplyEarns ==
    ASSUME TypeOK, ProgressInv, GroundedInv, EarnedInv, ApplyModule
    PROVE  GroundedInv' /\ EarnedInv'
  <1> DEFINE k == Len(outs) + 1
  <1>1. /\ pc = "apply" /\ Len(outs) < N /\ Len(outs) \in Nat /\ k \in Modules
        /\ UNCHANGED <<cr, cache, cacheFresh>>
    BY ApplyReports DEF server
  <1>2. PICK o \in Outcome, located \in BOOLEAN : Reported(k, o, located)
    BY ApplyReports
  <1>3. /\ outs' = Append(outs, o) /\ fresh' = fresh /\ pc' \in {"apply", "persist"}
        /\ obj'.phase = obj.phase /\ obj'.creating = obj.creating
        /\ obj'.ready => obj.ready \/ (pc' = "persist" /\ Complete(outs') /\ k = N)
        /\ pc' = "apply" => obj'.ready = obj.ready
    BY <1>1, <1>2, ReportedFields
  <1>4. /\ DOMAIN outs' = 1 .. k /\ DOMAIN outs = 1 .. Len(outs)
        /\ \A i \in DOMAIN outs : outs'[i] = outs[i]
    BY <1>3, AppendOutcome DEF TypeOK, RunTypeOK
  <1>5. /\ obj.located => obj'.located
        /\ grace' = grace \/ ~obj.located
        /\ (k = Account /\ outs'[Account] = "Done") => obj'.located /\ ~grace'
    BY ApplyGrace
  <1>6. (Account \in DOMAIN outs' /\ outs'[Account] = "Done") => obj'.located /\ ~grace'
    <2>1. SUFFICES ASSUME Account \in DOMAIN outs', outs'[Account] = "Done", Account # k
                   PROVE  obj'.located /\ ~grace'
      BY <1>5
    <2>2. Account \in DOMAIN outs
      BY <1>1, <1>4, <2>1, ConstantsTyped
    <2>3. obj.located /\ ~grace
      BY <1>1, <1>4, <2>1, <2>2 DEF EarnedInv
    <2> QED  BY <1>5, <2>3
  <1>7. obj'.ready => obj'.located /\ ~grace'
    <2>1. CASE obj.ready
      <3>1. obj.located /\ ~grace
        BY <1>1, <2>1 DEF GroundedInv, EarnedInv
      <3> QED  BY <1>5, <3>1
    <2>2. CASE Complete(outs') /\ k = N
      <3>1. Account \in DOMAIN outs'
        BY <1>4, <2>2, ConstantsTyped
      <3> QED  BY <1>6, <2>2, <3>1 DEF Complete
    <2> QED  BY <1>3, <2>1, <2>2
  <1>8. \A p \in {cr, cache} : p.ready => ~grace' /\ (p.phase = "live" => p.located)
    <2>1. \A p \in {cr, cache} : p.ready => ~grace /\ obj.located /\ (p.phase = "live" => p.located)
      BY <1>1 DEF GroundedInv, EarnedInv
    <2> QED  BY <1>5, <2>1
  <1>9. GroundedInv'
    BY <1>1, <1>7, <1>8 DEF GroundedInv
  <1>10. EarnedInv'
    <2>1. CASE pc' = "apply"
      BY <1>1, <1>3, <1>5, <1>6, <2>1 DEF EarnedInv
    <2>2. CASE pc' = "persist"
      <3>1. obj.creating => ~cr.ready /\ ~obj.ready
        BY <1>1 DEF EarnedInv
      <3> QED  BY <1>1, <1>3, <2>2, <3>1 DEF EarnedInv
    <2> QED  BY <1>3, <2>1, <2>2
  <1> QED  BY <1>9, <1>10

\* A pass that ends, having written nothing or a copy that claims no more than its own.
LEMMA EndEarns ==
    ASSUME GroundedInv, NEW p, p \in {cr, obj},
           EndPass, cache' = cache, grace' = grace,
           cr'.ready => p.ready, cr'.phase = p.phase, cr'.located = p.located
    PROVE  GroundedInv' /\ EarnedInv'
  <1>1. pc' = "idle" /\ obj'.ready = FALSE
    BY CreatedTyped DEF EndPass
  <1>2. \A o \in {cr, obj} : o.ready => ~grace /\ (o.phase = "live" => o.located)
    BY DEF GroundedInv
  <1>3. cr'.ready => ~grace /\ (cr'.phase = "live" => cr'.located)
    BY <1>2
  <1>4. GroundedInv'
    BY <1>1, <1>3 DEF GroundedInv
  <1>5. EarnedInv'
    BY <1>1 DEF EarnedInv
  <1> QED  BY <1>4, <1>5

\* Every step keeps what is known of Ready.
LEMMA EarnedStep ==
    ASSUME TypeOK, ProgressInv, CopiesInv, GroundedInv, EarnedInv, [Next]_vars
    PROVE  GroundedInv' /\ EarnedInv'
  <1>0. cr \in Object /\ cache \in Object /\ obj \in Object
    BY DEF TypeOK, ServerTypeOK, CopyTypeOK
  <1>1. CASE ReadObject
    <2>1. /\ outs' = <<>> /\ obj' = cache /\ fresh' = cacheFresh /\ UNCHANGED <<server, grace>>
          /\ pc' \in {"refuse", "observe", "destroy", "release"}
          /\ pc' = "observe" => ~cache.creating /\ cache.phase = "live"
          /\ pc' = "refuse" => cache.creating
      BY <1>1 DEF ReadObject, ProgressInv, world
    <2> QED  BY <2>1, NoOutcomes DEF GroundedInv, EarnedInv, server
  <1>2. CASE ObserveModule
    <2>1. Len(outs) \in Nat /\ pc = "observe" /\ UNCHANGED <<pc, obj, fresh, server, grace>>
      BY <1>2 DEF ObserveModule, TypeOK, RunTypeOK, world
    <2>2. PICK o \in Outcome : /\ outs' = Append(outs, o)
                               /\ \/ o = "Failed" \/ o = Observes(Len(outs) + 1)
                                  \/ Len(outs) + 1 # Account
      <3>1. \/ outs' = Append(outs, Observes(Len(outs) + 1))
            \/ outs' = Append(outs, "Failed")
            \/ Len(outs) + 1 # Account /\ outs' = Append(outs, "Pending")
        BY <1>2 DEF ObserveModule
      <3>2. Len(outs) + 1 \in Modules
        BY <1>2, <2>1, ConstantsTyped DEF ObserveModule, Modules
      <3>3. Observes(Len(outs) + 1) \in Outcome
        BY <3>2, ObservesTyped
      <3> QED  BY <3>1, <3>3, Zenon DEF Outcome
    <2>3. /\ DOMAIN outs' = 1 .. Len(outs) + 1 /\ DOMAIN outs = 1 .. Len(outs)
          /\ outs'[Len(outs) + 1] = o /\ \A i \in DOMAIN outs : outs'[i] = outs[i]
      BY <2>2, AppendOutcome DEF TypeOK, RunTypeOK
    <2>4. Account \in DOMAIN outs' =>
             \/ outs'[Account] = "Failed"
             \/ outs'[Account] = "Pending" /\ ~obj.ready
             \/ outs'[Account] # "Pending" /\ obj.located
      <3>1. CASE Account = Len(outs) + 1
        <4>1. o = "Failed" \/ o = IF obj.located /\ ~grace THEN "Done" ELSE "Pending"
          BY <2>2, <3>1 DEF Observes
        <4>2. obj.ready => obj.located /\ ~grace
          BY <2>1 DEF GroundedInv, EarnedInv
        <4> QED  BY <2>3, <3>1, <4>1, <4>2
      <3>2. CASE Account # Len(outs) + 1
        <4>1. Account \in DOMAIN outs' => Account \in DOMAIN outs /\ outs'[Account] = outs[Account]
          BY <2>1, <2>3, <3>2, ConstantsTyped
        <4> QED  BY <2>1, <4>1 DEF EarnedInv
      <3> QED  BY <3>1, <3>2
    <2>5. EarnedInv'
      BY <2>1, <2>4 DEF EarnedInv, server
    <2> QED  BY <2>1, <2>5 DEF GroundedInv, server
  <1>3. CASE Decide
    <2>1. pc = "observe" /\ UNCHANGED <<cr, cache, cacheFresh, grace>>
      BY <1>3 DEF Decide, server, world
    <2>2. CASE EndPass
      BY <2>1, <2>2, EndEarns
    <2>3. CASE ~EndPass
      <3>1. /\ Len(outs) = N /\ ~Any("Failed") /\ outs' = <<>> /\ UNCHANGED <<obj, fresh>>
            /\ IF Exists THEN pc' = "apply" ELSE pc' = "claim"
        BY <1>3, <2>3 DEF Decide, Enter
      <3>2. DOMAIN outs = 1 .. Len(outs)
        BY DEF TypeOK, RunTypeOK
      <3>3. Account \in DOMAIN outs
        BY <3>1, <3>2, ConstantsTyped
      <3>4. outs[Account] # "Failed" /\ outs[Account] \in Outcome
        BY <3>1, <3>3 DEF Any, TypeOK, RunTypeOK
      <3>5. IF Exists THEN obj.located ELSE ~obj.ready
        BY <2>1, <3>3, <3>4 DEF EarnedInv, Exists, Outcome
      <3>6. EarnedInv'
        BY <2>1, <3>1, <3>5, NoOutcomes DEF EarnedInv
      <3> QED  BY <2>1, <3>1, <3>6 DEF GroundedInv
    <2> QED  BY <2>2, <2>3
  <1>4. CASE Claim
    <2>1. CASE EndPass
      <3>1. UNCHANGED <<cr, cache, grace>>
        BY <1>4, <2>1 DEF Claim, EndPass, server, world
      <3> QED  BY <2>1, <3>1, EndEarns
    <2>2. CASE ~EndPass
      <3>1. /\ pc = "claim" /\ fresh /\ pc' = "apply" /\ outs' = <<>> /\ UNCHANGED <<cache, grace>>
            /\ obj' = [obj EXCEPT !.creating = TRUE] /\ cr' = [cr EXCEPT !.creating = TRUE]
        BY <1>4, <2>2 DEF Claim, Write, world
      <3>2. /\ obj'.ready = obj.ready /\ obj'.located = obj.located /\ obj'.phase = obj.phase
            /\ cr'.ready = cr.ready /\ cr'.located = cr.located /\ cr'.phase = cr.phase
        BY <1>0, <3>1 DEF Object
      <3>3. ~obj.ready /\ obj.phase = "live" /\ cache = cr /\ cr.ready = obj.ready
        BY <3>1 DEF EarnedInv, CopiesInv
      <3>4. EarnedInv'
        BY <3>1, <3>2, <3>3, NoOutcomes DEF EarnedInv
      <3> QED  BY <3>1, <3>2, <3>4 DEF GroundedInv
    <2> QED  BY <2>1, <2>2
  <1>5. CASE ApplyModule
    BY <1>5, ApplyEarns
  <1>6. CASE EndPass /\ (Persist \/ Settle \/ Refuse \/ Announce)
    <2>1. PICK o \in {obj, [obj EXCEPT !.ready = FALSE]} : WriteCopy(o)
      BY <1>6 DEF Persist, Settle, Refuse, Announce, WriteStatus, WriteCreating
    <2>2. o.phase = obj.phase /\ o.located = obj.located /\ (o.ready => obj.ready)
      BY <1>0, CreatingFields
    <2>3. cache' = cache /\ grace' = grace /\ (cr' = cr \/ cr' = o)
      BY <2>1, WriteCopyCases DEF world
    <2> QED  BY <1>6, <2>2, <2>3, EndEarns
  <1>7. CASE Persist /\ ~EndPass
    <2>1. /\ pc = "persist" /\ obj.creating /\ pc' = "conclude" /\ UNCHANGED <<outs, obj, cache, grace>>
          /\ cr' = cr \/ cr' = obj
      BY <1>7, WriteCopyCases DEF Persist, world
    <2>2. ~cr.ready /\ (obj.ready => Complete(outs))
      BY <2>1 DEF EarnedInv
    <2>3. cr'.ready => Complete(outs')
      BY <2>1, <2>2 DEF Complete
    <2>4. EarnedInv'
      BY <2>1, <2>3 DEF EarnedInv
    <2> QED  BY <2>1, <2>4 DEF GroundedInv
  <1>8. CASE Conclude
    <2>1. CASE EndPass
      <3>1. UNCHANGED <<cr, cache, grace>>
        BY <1>8, <2>1 DEF Conclude, EndPass, server, world
      <3> QED  BY <2>1, <3>1, EndEarns
    <2>2. CASE ~EndPass
      <3>1. /\ pc = "conclude" /\ pc' = "announce" /\ obj' = cr' /\ UNCHANGED <<outs, cache, grace>>
            /\ cr' = [cr EXCEPT !.creating = FALSE]
        BY <1>8, <2>2 DEF Conclude, Write, world
      <3>2. cr'.ready = cr.ready /\ cr'.located = cr.located /\ cr'.phase = cr.phase
        BY <1>0, <3>1 DEF Object
      <3>3. cr'.ready => Complete(outs')
        BY <3>1, <3>2 DEF EarnedInv, Complete
      <3>4. EarnedInv'
        BY <3>1, <3>3 DEF EarnedInv
      <3> QED  BY <3>1, <3>2, <3>4 DEF GroundedInv
    <2> QED  BY <2>1, <2>2
  <1>9. CASE Blocked \/ TeardownModule
    <2>1. /\ obj'.phase = obj.phase /\ (obj'.ready => obj.ready)
      BY <1>0, <1>9 DEF Blocked, TeardownModule, Object
    <2>2. /\ pc = "destroy" /\ pc' \in {"destroy", "settle"} /\ UNCHANGED <<cr, cache, grace>>
      BY <1>9 DEF Blocked, TeardownModule, server, world
    <2>3. obj.phase = "deleting"
      BY <2>2 DEF CopiesInv
    <2>4. EarnedInv'
      BY <2>2 DEF EarnedInv
    <2> QED  BY <2>1, <2>2, <2>3, <2>4 DEF GroundedInv
  <1>10. CASE Release \/ Crash
    <2>1. /\ EndPass /\ UNCHANGED <<cache, grace>>
          /\ cr' = cr \/ cr' = [cr EXCEPT !.phase = "gone"]
      BY <1>10 DEF Release, Crash, Write, server, world
    <2>2. CASE cr' = cr
      BY <2>1, <2>2, EndEarns
    <2>3. CASE cr' = [cr EXCEPT !.phase = "gone"]
      <3>1. cr'.phase # "live" /\ cr'.ready = cr.ready
        BY <1>0, <2>3 DEF Object
      <3>2. pc' = "idle" /\ obj'.ready = FALSE
        BY <2>1, CreatedTyped DEF EndPass
      <3> QED  BY <2>1, <3>1, <3>2 DEF GroundedInv, EarnedInv
    <2> QED  BY <2>1, <2>2, <2>3
  <1>11. CASE EditSpec \/ DeleteResource
    <2>1. /\ fresh' = FALSE /\ UNCHANGED <<pc, obj, outs, cache, grace>>
          /\ \/ cr' = [cr EXCEPT !.generation = @ + 1]
             \/ cr' = [cr EXCEPT !.phase = "deleting"]
      BY <1>11 DEF EditSpec, DeleteResource, Write, Overtake, world
    <2>2. cr'.ready = cr.ready /\ (cr'.phase = "live" => cr'.phase = cr.phase /\ cr'.located = cr.located)
      BY <1>0, <2>1 DEF Object
    <2>3. EarnedInv'
      BY <2>1, <2>2 DEF EarnedInv, Complete
    <2> QED  BY <2>1, <2>2, <2>3 DEF GroundedInv
  <1>12. CASE CacheSync
    <2>1. UNCHANGED <<cr, pc, obj, fresh, outs, grace>> /\ cache' = cr /\ cacheFresh'
      BY <1>12 DEF CacheSync, world
    <2>2. EarnedInv'
      BY <2>1 DEF EarnedInv, Complete
    <2> QED  BY <2>1, <2>2 DEF GroundedInv
  <1>13. CASE GraceElapses
    <2>1. UNCHANGED <<cr, cache, cacheFresh, pc, obj, fresh, outs>> /\ ~grace'
      BY <1>13 DEF GraceElapses, server
    <2>2. EarnedInv'
      BY <2>1 DEF EarnedInv, Complete
    <2> QED  BY <2>1, <2>2 DEF GroundedInv
  <1>14. CASE (\E m \in Modules : ChangeOutside(m)) \/ UNCHANGED vars
    <2>1. UNCHANGED <<cr, cache, cacheFresh, pc, obj, fresh, outs, grace>>
      BY <1>14 DEF ChangeOutside, server, vars
    <2>2. EarnedInv'
      BY <2>1 DEF EarnedInv, Complete
    <2> QED  BY <2>1, <2>2 DEF GroundedInv
  <1> QED
    <2>1. Settle \/ Refuse \/ Announce => EndPass
      BY DEF Settle, Refuse, Announce, WriteStatus, WriteCreating
    <2> QED
      BY <1>1, <1>2, <1>3, <1>4, <1>5, <1>6, <1>7, <1>8, <1>9, <1>10, <1>11, <1>12, <1>13, <1>14, <2>1
         DEF Next, Controller

-----------------------------------------------------------------------------
\* The invariant holds at the start.
LEMMA InitInv == Init => PipelineInv
  <1> SUFFICES ASSUME Init PROVE PipelineInv
    OBVIOUS
  <1> USE ConstantsTyped, CreatedTyped, NoOutcomes
  <1>1. TypeOK
    <2>1. ServerTypeOK /\ CopyTypeOK /\ faults \in Nat
      BY DEF Init, ServerTypeOK, CopyTypeOK
    <2>2. RunTypeOK
      BY DEF Init, RunTypeOK
    <2>3. WorldTypeOK
      <3>1. 0 \in Absent .. Changed /\ 0 \in 0 .. MaxGeneration
        BY DEF Absent, Changed
      <3> QED  BY <3>1 DEF Init, WorldTypeOK, Absent
    <2> QED  BY <2>1, <2>2, <2>3 DEF TypeOK
  <1>2. ProgressInv /\ CopiesInv
    BY DEF Init, ProgressInv, CopiesInv
  <1>3. AppliedInv
    BY DEF Init, AppliedInv
  <1>4. TornInv /\ GroundedInv /\ EarnedInv
    BY DEF Init, TornInv, GroundedInv, EarnedInv
  <1> QED  BY <1>1, <1>2, <1>3, <1>4 DEF PipelineInv

\* The inductive invariant of the pipeline.
THEOREM PipelineInvariant == Spec => []PipelineInv
  <1>1. PipelineInv /\ [Next]_vars => PipelineInv'
    BY TypeStep, CopiesStep, AppliedStep, TornStep, EarnedStep DEF PipelineInv
  <1> QED  BY InitInv, <1>1, PTL DEF Spec

\* What the status claims was applied, for any list of modules.
THEOREM ClaimsAreTrue == Spec => []ObservedIsApplied
  <1>1. PipelineInv => ObservedIsApplied
    BY DEF PipelineInv, AppliedInv, ObservedIsApplied
  <1> QED  BY PipelineInvariant, <1>1, PTL

\* The account is dropped last of what needs it.
THEOREM AccountIsDroppedLast == Spec => []AccountDroppedLast
  <1>1. PipelineInv => AccountDroppedLast
    BY DEF PipelineInv, TornInv, AccountDroppedLast
  <1> QED  BY PipelineInvariant, <1>1, PTL

\* Ready appears only with a complete run of the current spec; only the Creating() writes
\* of the Create that earned it, or that was cut short, take it back from a live resource.
THEOREM ReadyStaysEarned == Spec => ReadyIsEarned
  <1> DEFINE Earned ==
        /\ (~cr.ready /\ cr'.ready) =>
              cr'.observed = cr.generation /\ \A m \in Modules : done[m] >= cr.generation
        /\ (cr.ready /\ ~cr'.ready) =>
              \/ cr'.phase = "deleting"
              \/ pc = "announce" /\ Complete(outs)
              \/ pc = "refuse" /\ cr.creating
  <1>1. PipelineInv /\ [Next]_vars => Earned
    <2> SUFFICES ASSUME PipelineInv, [Next]_vars PROVE Earned
      OBVIOUS
    <2>1. TypeOK /\ CopiesInv /\ AppliedInv /\ EarnedInv /\ cr \in Object /\ obj \in Object
      BY DEF PipelineInv, TypeOK, ServerTypeOK, CopyTypeOK
    <2>2. CASE (Persist \/ Settle) /\ cr' # cr
      <3>1. fresh /\ cr' = obj /\ pc \in {"persist", "settle"}
        BY <2>2, WriteCopyCases DEF Persist, Settle, WriteStatus
      <3>2. /\ obj.generation = cr.generation
            /\ obj.ready => cr.ready \/ obj.observed = obj.generation
            /\ pc = "persist" => (cr.ready => obj.ready)
            /\ pc = "settle" => obj.phase = "deleting"
        BY <2>1, <3>1 DEF CopiesInv
      <3>3. \A m \in Modules : obj.observed <= done[m]
        BY <2>1 DEF AppliedInv
      <3>4. \A m \in Modules : obj.observed = cr.generation => done[m] >= cr.generation
        BY <2>1, <3>3, Numbers
      <3> QED  BY <3>1, <3>2, <3>4
    <2>3. CASE (Refuse \/ Announce) /\ cr' # cr
      <3>1. fresh /\ cr' = [obj EXCEPT !.ready = FALSE] /\ pc \in {"refuse", "announce"}
        BY <2>3, WriteCopyCases DEF Refuse, Announce, WriteCreating
      <3>2. ~cr'.ready
        BY <2>1, <3>1, CreatingFields
      <3>3. pc = "announce" => (cr.ready => Complete(outs))
        BY <2>1 DEF EarnedInv
      <3>4. pc = "refuse" => cr.creating
        BY <2>1, <3>1 DEF EarnedInv, CopiesInv
      <3> QED  BY <3>1, <3>2, <3>3, <3>4
    <2>4. CASE cr'.ready = cr.ready
      BY <2>4
    <2>5. ~(Persist \/ Settle \/ Refuse \/ Announce) => cr'.ready = cr.ready
      <3>1. CASE Release \/ EditSpec \/ DeleteResource \/ Claim \/ Conclude
        <4>1. \/ cr' = cr \/ cr' = [cr EXCEPT !.phase = "gone"]
              \/ cr' = [cr EXCEPT !.generation = @ + 1] \/ cr' = [cr EXCEPT !.phase = "deleting"]
              \/ cr' = [cr EXCEPT !.creating = TRUE] \/ cr' = [cr EXCEPT !.creating = FALSE]
          BY <3>1 DEF Release, EditSpec, DeleteResource, Claim, Conclude, Write, server
        <4> QED  BY <2>1, <4>1 DEF Object
      <3>2. CASE ReadObject \/ ObserveModule \/ Decide \/ ApplyModule \/ Blocked \/ TeardownModule
        BY <3>2 DEF ReadObject, ObserveModule, Decide, ApplyModule, Blocked, TeardownModule, server
      <3>3. CASE CacheSync \/ GraceElapses \/ Crash \/ (\E m \in Modules : ChangeOutside(m)) \/ UNCHANGED vars
        BY <3>3 DEF CacheSync, GraceElapses, Crash, ChangeOutside, server, vars
      <3> QED  BY <3>1, <3>2, <3>3 DEF Next, Controller
    <2> QED  BY <2>2, <2>3, <2>4, <2>5
  <1>2. PipelineInv /\ [Next]_vars => [Earned]_vars
    BY <1>1
  <1> QED  BY PipelineInvariant, <1>2, PTL DEF Spec, ReadyIsEarned

-----------------------------------------------------------------------------
(* Time runs forward: passes on stale copies undo nothing newer.           *)

\* A module's state is never replaced by that of an older spec.
NoModuleGoesBack == [][\A m \in Modules : done[m] <= done'[m]]_vars

\* A pass that works on an outdated copy of the spec never puts its state over a newer
\* one's: each complete Apply of a module is for the same generation or a later one
\* than the module's last (one pass at a time, and the informer's copy only advances).
THEOREM OlderSpecNeverApplied == Spec => NoModuleGoesBack
  <1>1. PipelineInv /\ [Next]_vars => \A m \in Modules : done[m] <= done'[m]
    <2> SUFFICES ASSUME PipelineInv, [Next]_vars
                 PROVE  \A m \in Modules : done[m] <= done'[m]
      OBVIOUS
    <2>1. \A m \in Modules : done[m] \in Nat  BY Numbers DEF PipelineInv
    <2>2. CASE UNCHANGED done  BY <2>1, <2>2
    <2>3. CASE ApplyModule
      <3>1. pc = "apply" /\ (UNCHANGED done \/ PutInPlace(Len(outs) + 1))
        BY <2>3, ApplyReports DEF PipelineInv
      <3>2. CASE PutInPlace(Len(outs) + 1)
        <4>1. \A m \in Modules : done'[m] \in {done[m], obj.generation}
          BY <3>2 DEF PutInPlace, PipelineInv, TypeOK, WorldTypeOK
        <4>2. \A m \in Modules : done[m] <= obj.generation
          BY <3>1 DEF PipelineInv, AppliedInv
        <4> QED  BY <4>1, <4>2, <2>1
      <3> QED  BY <3>1, <3>2, <2>2
    <2>4. ~ApplyModule => UNCHANGED done
      <3>1. CASE ReadObject \/ ObserveModule \/ Decide \/ Claim \/ Conclude \/ Blocked \/ TeardownModule \/ Release
        BY <3>1 DEF ReadObject, ObserveModule, Decide, Claim, Conclude, Blocked, TeardownModule, Release, world, modules
      <3>2. CASE Refuse \/ Persist \/ Announce \/ Settle
        BY <3>2 DEF Refuse, Persist, Announce, Settle, WriteStatus, WriteCreating, WriteCopy, world, modules
      <3>3. CASE EditSpec \/ DeleteResource \/ CacheSync \/ GraceElapses \/ Crash \/ (\E m \in Modules : ChangeOutside(m))
        BY <3>3 DEF EditSpec, DeleteResource, CacheSync, GraceElapses, Crash, ChangeOutside, world, modules
      <3>4. CASE UNCHANGED vars  BY <3>4 DEF vars
      <3> QED  BY <3>1, <3>2, <3>3, <3>4 DEF Next, Controller
    <2> QED  BY <2>2, <2>3, <2>4
  <1>2. PipelineInv /\ [Next]_vars => [\A m \in Modules : done[m] <= done'[m]]_vars
    BY <1>1
  <1> QED  BY PipelineInvariant, <1>2, PTL DEF Spec, NoModuleGoesBack

\* A copy that may still be written claims no less than the object does.
ClaimInv == fresh => cr.observed <= obj.observed

\* The spec a status claims is no later than the object's.
LEMMA ClaimsArePast ==
    ASSUME PipelineInv
    PROVE  cr.observed <= cr.generation
  <1>1. Account \in Modules  BY PipelineAssumption
  <1>2. cr.observed <= done[Account] /\ done[Account] <= cache.generation
    BY <1>1 DEF PipelineInv, AppliedInv
  <1>3. cache.generation <= cr.generation  BY DEF PipelineInv, CopiesInv
  <1>4. /\ cr.observed \in Nat /\ cr.generation \in Nat /\ cache.generation \in Nat
        /\ done[Account] \in Nat
    BY <1>1, Numbers DEF PipelineInv
  <1> QED  BY <1>2, <1>3, <1>4

\* What each step does to the object's claim and to that of a current copy.
LEMMA ClaimStep ==
    ASSUME PipelineInv, ClaimInv, [Next]_vars
    PROVE  ClaimInv' /\ cr.observed <= cr'.observed
  <1>0. /\ TypeOK /\ ProgressInv /\ CopiesInv
        /\ cr \in Object /\ cache \in Object /\ obj \in Object
        /\ cr.observed \in Nat /\ obj.observed \in Nat /\ obj.generation \in Nat
    BY Numbers DEF PipelineInv, TypeOK, ServerTypeOK, CopyTypeOK
  <1>1. CASE ReadObject
    <2>1. cr' = cr /\ obj' = cache /\ fresh' = cacheFresh
      BY <1>1 DEF ReadObject, server
    <2>2. cacheFresh => cache = cr  BY <1>0 DEF CopiesInv
    <2> QED  BY <1>0, <2>1, <2>2 DEF ClaimInv
  <1>2. CASE Decide \/ Claim
    <2>1. /\ cr' = cr \/ cr' = [cr EXCEPT !.creating = TRUE]
          /\ \/ fresh' = FALSE
             \/ fresh' = fresh /\ (obj' = obj \/ obj' = [obj EXCEPT !.creating = TRUE])
      BY <1>2 DEF Decide, Claim, Enter, EndPass, Write, server
    <2>2. cr'.observed = cr.observed /\ (fresh' => fresh /\ obj'.observed = obj.observed)
      BY <1>0, <2>1 DEF Object
    <2> QED  BY <1>0, <2>2 DEF ClaimInv
  <1>3. CASE ApplyModule
    <2>1. cr' = cr  BY <1>0, <1>3, ApplyReports DEF server
    <2>2. fresh' = fresh /\ obj'.observed \in {obj.observed, obj.generation}
      BY <1>0, <1>3, ApplyReports, ReportedFields
    <2>3. fresh => obj.generation = cr.generation  BY <1>0 DEF CopiesInv
    <2> QED  BY <1>0, <2>1, <2>2, <2>3, ClaimsArePast DEF ClaimInv
  <1>4. CASE Refuse \/ Persist \/ Announce \/ Settle
    <2>1. PICK o \in {obj, [obj EXCEPT !.ready = FALSE]} :
             /\ WriteCopy(o)
             /\ fresh' = FALSE \/ (Persist /\ o = obj /\ fresh' = fresh /\ obj' = obj)
      BY <1>4 DEF Refuse, Persist, Announce, Settle, WriteStatus, WriteCreating, EndPass
    <2>2. o.observed = obj.observed
      BY <1>0, CreatingFields
    <2>3. cr' = cr \/ (fresh /\ cr' = o)
      BY <2>1, WriteCopyCases
    <2> QED  BY <1>0, <2>1, <2>2, <2>3 DEF ClaimInv
  <1>8. CASE Conclude
    <2>1. \/ cr' = cr /\ fresh' = FALSE
          \/ cr' = [cr EXCEPT !.creating = FALSE] /\ obj' = cr'
      BY <1>8 DEF Conclude, EndPass, Write, server
    <2>2. cr'.observed = cr.observed
      BY <1>0, <2>1 DEF Object
    <2> QED  BY <1>0, <2>1, <2>2 DEF ClaimInv
  <1>5. CASE Blocked \/ TeardownModule
    <2>1. UNCHANGED <<cr, fresh>>  BY <1>5 DEF Blocked, TeardownModule, server
    <2>2. obj'.observed = obj.observed
      BY <1>0, <1>5 DEF Blocked, TeardownModule, Object
    <2> QED  BY <1>0, <2>1, <2>2 DEF ClaimInv
  <1>6. CASE Release \/ EditSpec \/ DeleteResource
    <2>1. /\ fresh' = FALSE
          /\ \/ cr' = cr \/ cr' = [cr EXCEPT !.phase = "gone"]
             \/ cr' = [cr EXCEPT !.generation = @ + 1] \/ cr' = [cr EXCEPT !.phase = "deleting"]
      BY <1>6 DEF Release, EditSpec, DeleteResource, Write, EndPass, Overtake, server
    <2>2. cr'.observed = cr.observed  BY <1>0, <2>1 DEF Object
    <2> QED  BY <1>0, <2>1, <2>2 DEF ClaimInv
  <1>7. CASE ObserveModule \/ CacheSync \/ GraceElapses \/ Crash \/ (\E m \in Modules : ChangeOutside(m)) \/ UNCHANGED vars
    <2>1. cr' = cr /\ (fresh' = FALSE \/ (obj' = obj /\ fresh' = fresh))
      BY <1>7 DEF ObserveModule, CacheSync, GraceElapses, Crash, ChangeOutside, EndPass, server, vars
    <2> QED  BY <1>0, <2>1 DEF ClaimInv
  <1> QED  BY <1>1, <1>2, <1>3, <1>4, <1>5, <1>6, <1>7, <1>8 DEF Next, Controller

\* status.observedGeneration never falls: a pass that was overtaken, interrupted or runs
\* on an old copy takes no claim back.
THEOREM ClaimsNeverRecede == Spec => [][cr.observed <= cr'.observed]_vars
  <1>1. Init => ClaimInv  BY DEF Init, ClaimInv
  <1>2. PipelineInv /\ ClaimInv /\ [Next]_vars => ClaimInv'  BY ClaimStep
  <1>3. PipelineInv /\ ClaimInv /\ [Next]_vars => [cr.observed <= cr'.observed]_vars
    BY ClaimStep
  <1> QED  BY PipelineInvariant, <1>1, <1>2, <1>3, PTL DEF Spec
=============================================================================
