----------------------------- MODULE LaneGateProofs -----------------------------
(****************************************************************************)
(* The protocols of a lane, proved correct for every interleaving: the gate *)
(* of requestAbort, drive and the effects (the inductive invariant          *)
(* GateInvariant and what follows from it), the refinement of               *)
(* OperationLifecycle, and the order in which input leaves the inbox.       *)
(****************************************************************************)
EXTENDS LaneTypeProofs, WellFoundedInduction

----------------------------------------------------------------------------
(* Reading updated records.                                                 *)

\* Moving the pass changes none of its other fields.
LEMMA GotoFields ==
  ASSUME TypeOK, NEW pc, Goto(pc)
  PROVE  /\ pass'.pc = pc /\ pass'.op = pass.op /\ pass'.aborting = pass.aborting
         /\ pass'.signalled = pass.signalled /\ pass'.response = pass.response
  BY DEF TypeOK, PassTypeOK, PassType, Goto

\* Moving the operation changes neither its identity nor its control status.
LEMMA AdvanceFields ==
  ASSUME TypeOK, NEW leaf, NEW continuation, NEW attempt,
         Advance(leaf, continuation, attempt)
  PROVE  op'.id = op.id /\ op'.cancelled = op.cancelled
  BY DEF TypeOK, OperationTypeOK, OperationType, Advance

\* What the steps of a pass have in common for the gate: host, request and
\* control status stay as they are.
SameGate ==
  /\ UNCHANGED <<up, abort>>
  /\ op'.id = op.id /\ op'.cancelled = op.cancelled
  /\ pass'.op = pass.op /\ pass'.aborting = pass.aborting
  /\ pass'.signalled = pass.signalled

\* A step of the pass keeps the invariant if it leaves the early part of a
\* pass only when the operation is running and no request is ahead of it, or
\* when its effects were signalled.
LEMMA GateFrame ==
  ASSUME TypeOK, GateInvariant, SameGate, Driving,
         pass'.pc # "off",
         pass'.pc # "tools" => exec' = AllCalls("idle"),
         pass.pc \in Early =>
           pass'.pc \in Early \/ pass.signalled \/ (Running /\ LineFree),
         pass'.pc = "wait_cancel" => pass.aborting,
         pass'.pc = "reconcile" => op.cancelled,
         pass'.pc = "respond" /\ pass'.response = "aborted" => op.cancelled
  PROVE  GateInvariant'
<1>1. PassIsOwned'
  BY DEF GateInvariant, PassIsOwned, SameGate, Driving
<1>2. RequestIsOwned'
  BY DEF GateInvariant, RequestIsOwned, SameGate
<1>3. ClosedGateHasCause'
  BY DEF GateInvariant, ClosedGateHasCause, SameGate, Driving
<1>4. SignalHasCause'
  BY DEF GateInvariant, SignalHasCause, SameGate, Driving
<1>5. UnsignalledIsEarly'
  BY DEF GateInvariant, UnsignalledIsEarly, SameGate, Driving, LineFree, Running
<1>6. WaitsHaveCause'
  BY DEF GateInvariant, WaitsHaveCause, SameGate
<1> QED
  BY <1>1, <1>2, <1>3, <1>4, <1>5, <1>6 DEF GateInvariant

\* A refused admission was refused by a request this pass does not overtake.
LEMMA RefusalHasCause ==
  ASSUME GateInvariant, Driving, pass.aborting
  PROVE  pass.signalled \/ LineFree
  BY DEF GateInvariant, ClosedGateHasCause, RequestIsOwned, LineFree

\* A step that settles the operation leaves a pass that is ending.
LEMMA GateSettle ==
  ASSUME TypeOK, GateInvariant, Driving, pass.pc # "tools", NEW status,
         Settle(status), UNCHANGED <<up, abort, exec>>
  PROVE  GateInvariant'
<1>1. /\ pass'.pc = "ending" /\ pass'.op = pass.op
      /\ pass'.aborting = pass.aborting /\ pass'.signalled = pass.signalled
  BY DEF TypeOK, PassTypeOK, PassType, Settle
<1>2. PassIsOwned'
  BY <1>1 DEF GateInvariant, PassIsOwned, Driving
<1>3. RequestIsOwned'
  BY <1>1 DEF GateInvariant, RequestIsOwned
<1> QED
  BY <1>1, <1>2, <1>3 DEF GateInvariant, ClosedGateHasCause, SignalHasCause,
     UnsignalledIsEarly, WaitsHaveCause, Driving

\* So does a step that releases the pass.
LEMMA GateRelease ==
  ASSUME TypeOK, GateInvariant, ReleasePass, UNCHANGED up
  PROVE  GateInvariant'
<1>1. pass'.pc = "off"
  BY DEF ReleasePass, NoPass
<1>2. /\ abort'.queued = abort.queued /\ abort'.op = abort.op
      /\ abort'.captured = FALSE /\ abort'.holds = FALSE
  BY DEF ReleasePass, TypeOK, HostTypeOK, AbortType
<1>3. PassIsOwned'
  BY <1>1 DEF ReleasePass, PassIsOwned, Driving
<1>4. RequestIsOwned'
  BY <1>2 DEF GateInvariant, RequestIsOwned
<1> QED
  BY <1>1, <1>3, <1>4 DEF GateInvariant, ClosedGateHasCause, SignalHasCause,
     UnsignalledIsEarly, WaitsHaveCause, Driving

\* The invariant does not depend on the other variables.
LEMMA GateStutter ==
  ASSUME GateInvariant, UNCHANGED <<op, pass, abort, up, exec>>
  PROVE  GateInvariant'
  BY DEF GateInvariant, PassIsOwned, RequestIsOwned, ClosedGateHasCause,
         SignalHasCause, UnsignalledIsEarly, WaitsHaveCause, Driving, LineFree

----------------------------------------------------------------------------
(* The gate invariant is inductive.                                         *)

\* Initially no pass is installed and no request is queued.
LEMMA GateInit == Init => GateInvariant
  BY DEF Init, GateInvariant, PassIsOwned, RequestIsOwned, ClosedGateHasCause,
         SignalHasCause, UnsignalledIsEarly, WaitsHaveCause, Driving, NoPass, NoAbort

\* Commands of the host, stops and restarts.
LEMMA GateCommands ==
  ASSUME TypeOK, GateInvariant,
         HostStep \/ CommitAbort \/ ClearPass \/ Stop \/ Restart
  PROVE  GateInvariant'
<1>1. ASSUME NEW p \in BOOLEAN, AcceptRun(p) PROVE GateInvariant'
  <2>1. ~Driving
    BY <1>1 DEF AcceptRun, Idle, GateInvariant, PassIsOwned
  <2>2. UNCHANGED <<pass, abort, up, exec>>
    BY <1>1 DEF AcceptRun, passVars, hostVars
  <2>3. pass.pc \in {"off", "ending"}
    BY <2>1 DEF Driving, GateInvariant, PassIsOwned
  <2> QED
    BY <2>2, <2>3 DEF GateInvariant, PassIsOwned, RequestIsOwned, ClosedGateHasCause,
       SignalHasCause, UnsignalledIsEarly, WaitsHaveCause, Driving
<1>2. ASSUME NEW i \in Items, NEW k \in Kinds, Enqueue(i, k) \/ Append(i, k)
      PROVE  GateInvariant'
  BY <1>2, GateStutter DEF Enqueue, Append, Appended, operationVars, passVars, hostVars
<1>3. ASSUME NEW i \in Items, CancelQueued(i) PROVE GateInvariant'
  BY <1>3, GateStutter DEF CancelQueued, operationVars, passVars, hostVars
<1>4. ASSUME NEW id \in Ops, NEW claimed \in BOOLEAN, RequestAbort(id, claimed)
      PROVE GateInvariant'
  <2> DEFINE captured == pass.pc # "off" /\ pass.op = id
  <2>1. /\ abort'.queued /\ abort'.op = id /\ abort'.captured = captured
        /\ abort'.holds = (captured /\ ~pass.aborting)
    BY <1>4 DEF RequestAbort
  <2>2. /\ UNCHANGED <<op, exec, up>>
        /\ pass'.pc = pass.pc /\ pass'.op = pass.op /\ pass'.signalled = pass.signalled
        /\ pass'.response = pass.response
        /\ pass'.aborting = (pass.aborting \/ captured)
    BY <1>4, Fields DEF RequestAbort, operationVars, TypeOK, PassTypeOK, PassType
  <2>3. ~abort.queued /\ ~abort.holds /\ ~abort.captured
    <3>1. ~abort.queued
      BY <1>4 DEF RequestAbort
    <3> QED
      BY <3>1 DEF GateInvariant, RequestIsOwned
  <2>4. PassIsOwned' /\ WaitsHaveCause'
    BY <2>2 DEF GateInvariant, PassIsOwned, WaitsHaveCause, Driving
  <2>5. RequestIsOwned'
    <3>1. id # 0
      BY DEF Ops
    <3> QED
      BY <2>1, <2>2, <3>1 DEF RequestIsOwned
  <2>6. ClosedGateHasCause' /\ SignalHasCause'
    BY <2>1, <2>2, <2>3 DEF GateInvariant, ClosedGateHasCause, SignalHasCause, Driving
  <2>7. UnsignalledIsEarly'
    <3>1. Driving' => LineFree'
      BY <2>1, <2>2 DEF LineFree, Driving
    <3> QED
      BY <2>2, <3>1 DEF GateInvariant, UnsignalledIsEarly, Driving
  <2> QED
    BY <2>4, <2>5, <2>6, <2>7 DEF GateInvariant
<1>5. ASSUME NEW policy \in Policies, InstallPass(policy) PROVE GateInvariant'
  <2>1. /\ pass'.pc = "begin" /\ pass'.op = op.id
        /\ ~pass'.aborting /\ ~pass'.signalled
    BY <1>5 DEF InstallPass, NoPass
  <2>2. UNCHANGED <<op, abort, up, exec>> /\ up /\ op.id # 0 /\ pass.pc = "off"
    BY <1>5 DEF InstallPass, operationVars, hostVars, Idle
  <2>3. ~abort.captured
    BY <2>2 DEF GateInvariant, RequestIsOwned
  <2> QED
    BY <2>1, <2>2, <2>3 DEF GateInvariant, PassIsOwned, RequestIsOwned,
       ClosedGateHasCause, SignalHasCause, UnsignalledIsEarly, WaitsHaveCause,
       Driving, Early
<1>6. CASE CommitAbort
  <2>1. /\ op'.id = op.id /\ op'.cancelled = (op.cancelled \/ op.id = abort.op)
        /\ abort' = NoAbort /\ UNCHANGED <<up, exec>>
    BY <1>6 DEF CommitAbort, TypeOK, OperationTypeOK, OperationType
  <2>2. /\ pass'.pc = pass.pc /\ pass'.op = pass.op /\ pass'.aborting = pass.aborting
        /\ pass'.response = pass.response
        /\ pass'.signalled = (pass.signalled \/ SignalsCaptured)
    BY <1>6 DEF CommitAbort, TypeOK, PassTypeOK, PassType
  <2>3. ~abort'.queued /\ ~abort'.captured /\ ~abort'.holds
    BY <2>1 DEF NoAbort
  <2>4. PassIsOwned' /\ WaitsHaveCause'
    BY <2>1, <2>2 DEF GateInvariant, PassIsOwned, WaitsHaveCause, Driving
  <2>5. RequestIsOwned'
    BY <2>3 DEF RequestIsOwned
  <2>6. ClosedGateHasCause'
    BY <2>1, <2>2 DEF GateInvariant, ClosedGateHasCause, RequestIsOwned,
       PassIsOwned, SignalsCaptured, Driving
  <2>7. SignalHasCause'
    BY <2>1, <2>2 DEF GateInvariant, SignalHasCause, SignalsCaptured, Driving
  <2>8. UnsignalledIsEarly'
    <3>1. SUFFICES ASSUME Driving, ~pass.signalled, ~SignalsCaptured,
                          op.cancelled \/ op.id = abort.op
                   PROVE  pass.pc \in Early
      BY <2>1, <2>2, <2>3 DEF UnsignalledIsEarly, Driving, LineFree
    <3>2. CASE op.cancelled
      BY <3>1, <3>2 DEF GateInvariant, UnsignalledIsEarly
    <3>3. CASE op.id = abort.op
      <4>1. ~abort.captured
        BY <3>1, <3>3 DEF SignalsCaptured, GateInvariant, RequestIsOwned
      <4>2. ~LineFree
        BY <1>6, <3>1, <3>3, <4>1 DEF CommitAbort, LineFree, GateInvariant, PassIsOwned
      <4> QED
        BY <3>1, <4>2 DEF GateInvariant, UnsignalledIsEarly
    <3> QED
      BY <3>1, <3>2, <3>3
  <2> QED
    BY <2>4, <2>5, <2>6, <2>7, <2>8 DEF GateInvariant
<1>7. CASE ClearPass
  BY <1>7, GateRelease DEF ClearPass
<1>8. CASE Stop
  <2>1. pass' = NoPass /\ abort' = NoAbort /\ exec' = AllCalls("idle")
    BY <1>8 DEF Stop
  <2> QED
    BY <2>1 DEF GateInvariant, PassIsOwned, RequestIsOwned, ClosedGateHasCause,
       SignalHasCause, UnsignalledIsEarly, WaitsHaveCause, Driving, NoPass, NoAbort
<1>9. CASE Restart
  <2>1. pass.pc = "off" /\ UNCHANGED <<op, pass, abort, exec>>
    BY <1>9 DEF Restart, GateInvariant, PassIsOwned, operationVars, passVars
  <2> QED
    BY <2>1 DEF GateInvariant, PassIsOwned, RequestIsOwned, ClosedGateHasCause,
       SignalHasCause, UnsignalledIsEarly, WaitsHaveCause, Driving
<1> QED
  BY <1>1, <1>2, <1>3, <1>4, <1>5, <1>6, <1>7, <1>8, <1>9 DEF HostStep

\* A step that only moves the pass, at a place that is not early, with no
\* change to what the gate knows.
LEMMA GateGoto ==
  ASSUME TypeOK, GateInvariant, Driving, pass.pc # "tools",
         NEW pc \in PcType \ {"off", "reconcile", "respond", "wait_cancel"},
         Goto(pc), UNCHANGED <<up, abort, exec>>,
         op'.id = op.id /\ op'.cancelled = op.cancelled,
         pass.pc \in Early => pc \in Early \/ (Running /\ LineFree)
  PROVE  GateInvariant'
<1>1. SameGate /\ pass'.pc = pc
  BY GotoFields DEF SameGate
<1>2. exec' = AllCalls("idle")
  BY DEF GateInvariant, PassIsOwned
<1> QED
  BY <1>1, <1>2, GateFrame

\* An admission, whether it is granted or refused.
LEMMA GateAdmit ==
  ASSUME TypeOK, GateInvariant, Driving, pass.pc # "tools",
         NEW pc \in PcType \ {"off", "reconcile", "respond", "wait_cancel"},
         Admit(pc), UNCHANGED <<op, up, abort, exec>>,
         pass.pc \in Early => Running /\ (pc \in Early \/ LineFree)
  PROVE  GateInvariant'
<1>1. CASE ~pass.aborting
  BY <1>1, GateGoto DEF Admit, Goto
<1>2. CASE pass.aborting
  <2>1. Goto("wait_cancel")
    BY <1>2 DEF Admit, Goto
  <2>2. SameGate /\ pass'.pc = "wait_cancel"
    BY <2>1, GotoFields DEF SameGate
  <2>3. exec' = AllCalls("idle")
    BY DEF GateInvariant, PassIsOwned
  <2> QED
    BY <1>2, <2>2, <2>3, GateFrame, RefusalHasCause
<1> QED
  BY <1>1, <1>2

\* A procedure that finds its operation cancelled dispatches again.
LEMMA GateCancelSeen ==
  ASSUME TypeOK, GateInvariant, Driving, pass.pc # "tools", CancelSeen, KeepDurable,
         UNCHANGED <<up, abort, exec>>
  PROVE  GateInvariant'
  BY GateGoto DEF CancelSeen, KeepDurable, operationVars, PcType, Early

\* The steps of driveOperation and of reconciliation.
LEMMA GateDispatch ==
  ASSUME TypeOK, GateInvariant,
         \/ BeforeDrive \/ DriveHookReturns \/ CancellationArrives
         \/ DispatchCancelled \/ Reconcile
  PROVE  GateInvariant'
<1> USE DEF KeepProcess, KeepDurable, hostVars, operationVars
<1>1. CASE BeforeDrive
  <2>1. Driving /\ pass.pc = "begin"
    BY <1>1 DEF BeforeDrive, Pass, Driving
  <2>2. CASE op.cancelled
    BY <1>1, <2>1, <2>2, GateGoto DEF BeforeDrive, PcType, Early
  <2>3. CASE ~op.cancelled
    BY <1>1, <2>1, <2>3, GateAdmit DEF BeforeDrive, PcType, Early, Running
  <2> QED
    BY <2>2, <2>3
<1>2. CASE DriveHookReturns
  <2>1. Driving /\ pass.pc = "drive_hook"
    BY <1>2 DEF DriveHookReturns, Pass, Driving
  <2> QED
    BY <1>2, <2>1, GateGoto DEF DriveHookReturns, PcType, Early
<1>3. CASE CancellationArrives
  <2>1. Driving /\ pass.pc = "wait_cancel"
    BY <1>3 DEF CancellationArrives, Pass, Driving
  <2> QED
    BY <1>3, <2>1, GateGoto DEF CancellationArrives, PcType, Early
<1>4. CASE DispatchCancelled
  <2>1. Driving /\ pass.pc = "dispatch" /\ op.cancelled
    BY <1>4 DEF DispatchCancelled, Pass, Driving
  <2>2. /\ pass'.pc = "reconcile" /\ pass'.op = pass.op
        /\ pass'.aborting /\ pass'.signalled
    BY <1>4 DEF DispatchCancelled, TypeOK, PassTypeOK, PassType
  <2>3. UNCHANGED <<op, abort, up, exec>>
    BY <1>4 DEF DispatchCancelled
  <2> QED
    BY <2>1, <2>2, <2>3 DEF GateInvariant, PassIsOwned, RequestIsOwned,
       ClosedGateHasCause, SignalHasCause, UnsignalledIsEarly, WaitsHaveCause, Driving
<1>5. CASE Reconcile
  <2>1. Driving /\ pass.pc = "reconcile" /\ op.cancelled
    BY <1>5 DEF Reconcile, Pass, Driving, GateInvariant, WaitsHaveCause
  <2>2. CASE op.at \in EffectPending
    <3>1. pass'.pc = "respond" /\ SameGate
      BY <1>5, <2>2 DEF Reconcile, SameGate, TypeOK, PassTypeOK, PassType
    <3>2. exec' = AllCalls("idle")
      BY <1>5, <2>1 DEF Reconcile, GateInvariant, PassIsOwned
    <3> QED
      BY <2>1, <3>1, <3>2, GateFrame DEF Early
  <2>3. CASE op.at \notin EffectPending
    BY <1>5, <2>1, <2>3, GateSettle DEF Reconcile
  <2> QED
    BY <2>2, <2>3
<1> QED
  BY <1>1, <1>2, <1>3, <1>4, <1>5

\* The steps of startRun, runCheckpoint and finishRunBoundary.
LEMMA GateBoundary ==
  ASSUME TypeOK, GateInvariant,
         \/ StartRun \/ RunHookReturns \/ Checkpoint
         \/ \E followUp \in BOOLEAN : EndHookReturns(followUp)
  PROVE  GateInvariant'
<1> USE DEF KeepProcess, KeepDurable, hostVars, operationVars, Running
<1>1. CASE StartRun
  <2>1. Driving /\ pass.pc = "dispatch" /\ LineFree
    BY <1>1 DEF StartRun, Command, Pass, Driving
  <2> QED
    BY <1>1, <2>1, GateAdmit DEF StartRun, PcType
<1>2. CASE RunHookReturns
  <2>1. Driving /\ pass.pc = "run_hook"
    BY <1>2 DEF RunHookReturns, Command, Pass, Driving
  <2>2. CASE CancelSeen /\ KeepDurable
    BY <1>2, <2>1, <2>2, GateCancelSeen DEF RunHookReturns
  <2>3. CASE Goto("dispatch") /\ Advance("checkpoint", "need_assistant", 0)
    BY <1>2, <2>1, <2>3, GateGoto, AdvanceFields DEF RunHookReturns, PcType, Early
  <2> QED
    BY <1>2, <2>2, <2>3 DEF RunHookReturns
<1>3. CASE Checkpoint
  <2>1. Driving /\ pass.pc = "dispatch" /\ LineFree /\ ~op.cancelled
    BY <1>3 DEF Checkpoint, Command, Pass, Driving
  <2>2. UNCHANGED <<up, abort, exec>>
    BY <1>3 DEF Checkpoint
  <2>3. exec' = AllCalls("idle")
    BY <2>1, <2>2 DEF GateInvariant, PassIsOwned
  <2>4. CASE ReadyForAssistant /\ Goto("dispatch")
    <3>1. op'.id = op.id /\ op'.cancelled = op.cancelled
      BY <2>4, AdvanceFields DEF ReadyForAssistant
    <3> QED
      BY <2>1, <2>2, <2>4, <3>1, GateGoto DEF PcType, Early
  <2>5. CASE ~(ReadyForAssistant /\ Goto("dispatch"))
    <3>1. op' = op
      BY <1>3, <2>5 DEF Checkpoint
    <3>2. CASE pass.aborting
      <4>1. Goto("wait_cancel")
        BY <1>3, <2>5, <3>2 DEF Checkpoint, Goto
      <4>2. SameGate /\ pass'.pc = "wait_cancel"
        BY <2>2, <3>1, <4>1, GotoFields DEF SameGate
      <4> QED
        BY <2>1, <2>3, <3>2, <4>2, GateFrame
    <3>3. CASE ~pass.aborting
      <4>1. /\ pass'.pc = "end_hook" /\ pass'.op = pass.op
            /\ pass'.aborting = pass.aborting /\ pass'.signalled = pass.signalled
        BY <1>3, <2>5, <3>3 DEF Checkpoint, TypeOK, PassTypeOK, PassType
      <4> QED
        BY <2>1, <2>2, <2>3, <3>1, <4>1, GateFrame DEF SameGate
    <3> QED
      BY <3>2, <3>3
  <2> QED
    BY <2>4, <2>5
<1>4. ASSUME NEW followUp \in BOOLEAN, EndHookReturns(followUp)
      PROVE  GateInvariant'
  <2>1. Driving /\ pass.pc = "end_hook" /\ UNCHANGED <<up, abort, exec>>
    BY <1>4 DEF EndHookReturns, Command, Pass, Driving
  <2>2. CASE CancelSeen /\ KeepDurable
    BY <2>1, <2>2, GateCancelSeen
  <2>3. CASE /\ ReadyForAssistant
             /\ pass' = [pass EXCEPT !.pc = "dispatch", !.plan = {}]
    <3>1. /\ pass'.pc = "dispatch" /\ pass'.op = pass.op
          /\ pass'.aborting = pass.aborting /\ pass'.signalled = pass.signalled
      BY <2>3 DEF TypeOK, PassTypeOK, PassType
    <3>2. exec' = AllCalls("idle")
      BY <2>1 DEF GateInvariant, PassIsOwned
    <3> QED
      BY <2>1, <2>3, <3>1, <3>2, AdvanceFields, GateFrame
      DEF ReadyForAssistant, SameGate, Early
  <2>4. CASE Settle("completed")
    BY <2>1, <2>4, GateSettle
  <2> QED
    BY <1>4, <2>2, <2>3, <2>4 DEF EndHookReturns
<1> QED
  BY <1>1, <1>2, <1>3, <1>4

\* The steps that prepare, make and answer a request.
LEMMA GateRequest ==
  ASSUME TypeOK, GateInvariant,
         \/ PrepareGeneration \/ ConfigurationFailure \/ PublishGenerationIntent
         \/ PrepareDeferredPoll \/ PublishPollIntent \/ CallProvider \/ StreamFrame
         \/ RecoverGeneration
         \/ \E reply \in Replies \union {"aborted"} : ProviderAnswers(reply)
  PROVE  GateInvariant'
<1> USE DEF KeepProcess, KeepDurable, hostVars, operationVars, Running
<1>1. CASE PrepareGeneration
  <2>1. Driving /\ pass.pc = "dispatch" /\ LineFree
    BY <1>1 DEF PrepareGeneration, Command, Pass, Driving
  <2> QED
    BY <1>1, <2>1, GateAdmit DEF PrepareGeneration, PcType
<1>2. CASE ConfigurationFailure
  <2>1. Driving /\ pass.pc = "dispatch"
    BY <1>2 DEF ConfigurationFailure, Command, Pass, Driving
  <2> QED
    BY <1>2, <2>1, GateSettle DEF ConfigurationFailure
<1>3. CASE PublishGenerationIntent
  <2>1. Driving /\ pass.pc = "request_hook"
    BY <1>3 DEF PublishGenerationIntent, Command, Pass, Driving
  <2>2. CASE CancelSeen /\ KeepDurable
    BY <1>3, <2>1, <2>2, GateCancelSeen DEF PublishGenerationIntent
  <2>3. CASE Goto("call") /\ Advance("assistant.effect_pending", op.cont, op.attempt)
    BY <1>3, <2>1, <2>3, GateGoto, AdvanceFields DEF PublishGenerationIntent, PcType, Early
  <2> QED
    BY <1>3, <2>2, <2>3 DEF PublishGenerationIntent
<1>4. CASE PrepareDeferredPoll
  <2>1. Driving /\ pass.pc = "dispatch" /\ LineFree
    BY <1>4 DEF PrepareDeferredPoll, Command, Pass, Driving
  <2>2. CASE pass.permit
    BY <1>4, <2>1, <2>2, GateAdmit DEF PrepareDeferredPoll, PcType
  <2>3. CASE ~pass.permit
    BY <1>4, <2>3, GateRelease DEF PrepareDeferredPoll
  <2> QED
    BY <2>2, <2>3
<1>5. CASE PublishPollIntent
  <2>1. Driving /\ pass.pc = "poll_hook"
    BY <1>5 DEF PublishPollIntent, Command, Pass, Driving
  <2>2. CASE CancelSeen /\ KeepDurable
    BY <1>5, <2>1, <2>2, GateCancelSeen DEF PublishPollIntent
  <2>3. CASE ~(CancelSeen /\ KeepDurable)
    <3>1. op'.id = op.id /\ op'.cancelled = op.cancelled
      BY <1>5, <2>3 DEF PublishPollIntent, TypeOK, OperationTypeOK, OperationType
    <3>2. /\ pass'.pc = "call" /\ pass'.op = pass.op
          /\ pass'.aborting = pass.aborting /\ pass'.signalled = pass.signalled
      BY <1>5, <2>3 DEF PublishPollIntent, TypeOK, PassTypeOK, PassType
    <3>3. UNCHANGED <<up, abort>> /\ exec' = AllCalls("idle")
      BY <1>5, <2>1 DEF PublishPollIntent, GateInvariant, PassIsOwned
    <3> QED
      BY <2>1, <3>1, <3>2, <3>3, GateFrame DEF SameGate, Early
  <2> QED
    BY <2>2, <2>3
<1>6. CASE CallProvider
  <2>1. Driving /\ pass.pc = "call"
    BY <1>6 DEF CallProvider, Pass, Driving
  <2> QED
    BY <1>6, <2>1, GateAdmit DEF CallProvider, PcType, Early
<1>7. CASE StreamFrame
  BY <1>7, GateStutter DEF StreamFrame
<1>8. CASE RecoverGeneration
  <2>1. Driving /\ pass.pc = "dispatch" /\ LineFree /\ ~op.cancelled
    BY <1>8 DEF RecoverGeneration, Command, Pass, Driving
  <2>2. /\ pass'.pc = "respond" /\ pass'.response = "interrupted" /\ SameGate
    BY <1>8 DEF RecoverGeneration, SameGate, TypeOK, PassTypeOK, PassType
  <2>3. exec' = AllCalls("idle")
    BY <1>8, <2>1 DEF RecoverGeneration, GateInvariant, PassIsOwned
  <2> QED
    BY <2>1, <2>2, <2>3, GateFrame
<1>9. ASSUME NEW reply \in Replies \union {"aborted"}, ProviderAnswers(reply)
      PROVE  GateInvariant'
  <2>1. Driving /\ pass.pc = "effect"
    BY <1>9 DEF ProviderAnswers, Pass, Driving
  <2>2. /\ pass'.pc = "respond" /\ pass'.response = reply /\ SameGate
    BY <1>9 DEF ProviderAnswers, SameGate, TypeOK, PassTypeOK, PassType
  <2>3. exec' = AllCalls("idle")
    BY <1>9, <2>1 DEF ProviderAnswers, GateInvariant, PassIsOwned
  <2>4. reply = "aborted" => op.cancelled
    BY <1>9, <2>1 DEF ProviderAnswers, GateInvariant, SignalHasCause
  <2> QED
    BY <2>1, <2>2, <2>3, <2>4, GateFrame DEF Early
<1> QED
  BY <1>1, <1>2, <1>3, <1>4, <1>5, <1>6, <1>7, <1>8, <1>9

\* The settlement of a response, and the wait for a retry.
LEMMA GateResponse ==
  ASSUME TypeOK, GateInvariant,
         PublishResponse \/ RetryWait \/ TimerEnds \/ StartRetry \/ TimePasses
  PROVE  GateInvariant'
<1> USE DEF KeepProcess, KeepDurable, hostVars, operationVars, Running
<1>1. CASE PublishResponse
  <2>1. Driving /\ pass.pc = "respond"
    BY <1>1 DEF PublishResponse, Command, Pass, Driving
  <2>2. CASE Settle("failed")
    BY <1>1, <2>1, <2>2, GateSettle DEF PublishResponse
  <2>3. CASE ~Settle("failed")
    <3>1. op'.id = op.id /\ op'.cancelled = op.cancelled
      BY <1>1, <2>3, AdvanceFields DEF PublishResponse
    <3>2. /\ pass'.pc = "dispatch" /\ pass'.op = pass.op
          /\ pass'.aborting = pass.aborting /\ pass'.signalled = pass.signalled
      BY <1>1, <2>3 DEF PublishResponse, TypeOK, PassTypeOK, PassType
    <3>3. UNCHANGED <<up, abort>> /\ exec' = AllCalls("idle")
      BY <1>1, <2>1 DEF PublishResponse, GateInvariant, PassIsOwned
    <3> QED
      BY <2>1, <3>1, <3>2, <3>3, GateFrame DEF SameGate, Early
  <2> QED
    BY <2>2, <2>3
<1>2. CASE RetryWait
  <2>1. Driving /\ pass.pc = "dispatch"
    BY <1>2 DEF RetryWait, Pass, Driving
  <2>2. CASE due
    BY <1>2, <2>1, <2>2, GateGoto DEF RetryWait, PcType, Early
  <2>3. CASE ~due /\ pass.waits
    BY <1>2, <2>1, <2>3, GateAdmit DEF RetryWait, PcType, Early
  <2>4. CASE ~due /\ ~pass.waits
    BY <1>2, <2>4, GateRelease DEF RetryWait
  <2> QED
    BY <2>2, <2>3, <2>4
<1>3. CASE TimerEnds
  <2>1. Driving /\ pass.pc = "timer" /\ UNCHANGED <<op, up, abort, exec>>
    BY <1>3 DEF TimerEnds, Pass, Driving
  <2>2. CASE pass.signalled
    <3>1. SameGate /\ pass'.pc = "wait_cancel"
      BY <1>3, <2>1, <2>2, GotoFields DEF TimerEnds, SameGate
    <3>2. pass.aborting /\ exec' = AllCalls("idle")
      BY <2>1, <2>2 DEF GateInvariant, SignalHasCause, PassIsOwned
    <3> QED
      BY <2>1, <2>2, <3>1, <3>2, GateFrame
  <2>3. CASE ~pass.signalled
    BY <1>3, <2>1, <2>3, GateGoto DEF TimerEnds, PcType, Early
  <2> QED
    BY <2>2, <2>3
<1>4. CASE StartRetry
  <2>1. Driving /\ pass.pc = "retry"
    BY <1>4 DEF StartRetry, Command, Pass, Driving
  <2>2. CASE CancelSeen /\ KeepDurable
    BY <1>4, <2>1, <2>2, GateCancelSeen DEF StartRetry
  <2>3. CASE Goto("dispatch") /\ Advance("assistant.ready", op.cont, op.attempt)
    BY <1>4, <2>1, <2>3, GateGoto, AdvanceFields DEF StartRetry, PcType, Early
  <2> QED
    BY <1>4, <2>2, <2>3 DEF StartRetry
<1>5. CASE TimePasses
  BY <1>5, GateStutter DEF TimePasses, passVars
<1> QED
  BY <1>1, <1>2, <1>3, <1>4, <1>5

\* The steps of a tool batch never touch the gate.
LEMMA GateTools ==
  ASSUME TypeOK, GateInvariant, ToolStep
  PROVE  GateInvariant'
<1>1. CASE EnterTools
  <2>1. /\ Driving /\ pass.pc \in {"dispatch", "reconcile"}
        /\ LineFree /\ (pass.pc = "dispatch" => Running)
    BY <1>1 DEF EnterTools, Driving
  <2>2. SameGate /\ pass'.pc = "tools_place"
    BY <1>1 DEF EnterTools, SameGate, KeepLane, operationVars, hostVars,
                TypeOK, PassTypeOK, PassType
  <2>3. exec' = AllCalls("idle")
    BY <1>1, <2>1 DEF EnterTools, GateInvariant, PassIsOwned
  <2> QED
    BY <2>1, <2>2, <2>3, GateFrame DEF Early
<1>2. CASE PlaceLeftovers
  <2>1. Driving /\ pass.pc = "tools_place"
    BY <1>2 DEF PlaceLeftovers, Pass, Driving
  <2>2. op'.id = op.id /\ op'.cancelled = op.cancelled
    BY <1>2 DEF PlaceLeftovers, KeepLane, operationVars, CommitPlacement, CloseBatch,
                TypeOK, OperationTypeOK, OperationType
  <2>3. SameGate /\ pass'.pc = "tools"
    BY <1>2, <2>2 DEF PlaceLeftovers, SameGate, hostVars, TypeOK, PassTypeOK, PassType
  <2> QED
    BY <2>1, <2>3, GateFrame DEF Early
<1>3. CASE LeaveTools
  <2>1. Driving /\ pass.pc = "tools" /\ exec' = AllCalls("idle")
    BY <1>3 DEF LeaveTools, Pass, Driving
  <2>2. SameGate /\ pass'.pc = "dispatch"
    BY <1>3 DEF LeaveTools, SameGate, KeepLane, operationVars, hostVars,
                TypeOK, PassTypeOK, PassType
  <2> QED
    BY <2>1, <2>2, GateFrame DEF Early
<1>4. ASSUME NEW c \in Calls, InvocationStep(c) PROVE GateInvariant'
  <2>1. Driving /\ pass.pc = "tools"
    BY <1>4 DEF InvocationStep, Pass, Driving
  <2>2. UNCHANGED <<pass, up, abort>>
    BY <1>4 DEF InvocationStep, StartPlanned, RefusePlanned, ToolHookReturns,
       PublishToolIntent, RecoverCall, ClearReplayCheckpoint, InvokeTool, WriteScratch,
       ToolReturns, PublishToolOutcome, ReadPlacement, PlaceResults, hostVars, passVars
  <2>3. op'.id = op.id /\ op'.cancelled = op.cancelled
    <3>1. CASE op' = op
      BY <3>1
    <3>2. CASE PlaceResults(c)
      BY <3>2 DEF PlaceResults, CommitPlacement, CloseBatch,
                  TypeOK, OperationTypeOK, OperationType
    <3> QED
      BY <1>4, <3>1, <3>2 DEF InvocationStep, StartPlanned, RefusePlanned,
         ToolHookReturns, PublishToolIntent, RecoverCall, ClearReplayCheckpoint,
         InvokeTool, WriteScratch, ToolReturns, PublishToolOutcome, ReadPlacement,
         KeepLane, operationVars
  <2> QED
    BY <2>1, <2>2, <2>3, GateFrame DEF SameGate, Early
<1> QED
  BY <1>1, <1>2, <1>3, <1>4 DEF ToolStep

\* GateInvariant is inductive, relative to the types.
LEMMA GateNext ==
  ASSUME TypeOK, GateInvariant, [Next]_vars
  PROVE  GateInvariant'
<1>1. CASE UNCHANGED vars
  BY <1>1, GateStutter DEF vars, operationVars, passVars, hostVars
<1>2. CASE Next
  BY <1>2, GateCommands, GateDispatch, GateBoundary, GateRequest, GateResponse, GateTools
  DEF Next, PassStep, HookStep, ProviderStep, ProcedureStep
<1> QED
  BY <1>1, <1>2

\* The pass, the queued abort request and the durable control status agree, at
\* every moment of every interleaving of requestAbort, drive and the effects.
THEOREM GateProtocol == Spec => []GateInvariant
<1>1. Init => GateInvariant
  BY GateInit
<1>2. TypeOK /\ GateInvariant /\ [Next]_vars => GateInvariant'
  BY GateNext
<1> QED
  BY <1>1, <1>2, TypeCorrect, PTL DEF Spec

----------------------------------------------------------------------------
(* What follows from it.                                                    *)

\* The signal of a pass fires only after its cancellation is durable.
THEOREM SignalsFollowCancellation == Spec => []SignalMeansCancelled
<1>1. GateInvariant => SignalMeansCancelled
  BY DEF GateInvariant, SignalHasCause, SignalMeansCancelled
<1> QED
  BY <1>1, GateProtocol, PTL

\* A provider request or a tool of a cancelled operation has been signalled,
\* also when its pass was installed while the abort request was queued.
THEOREM CancellationReachesEffects == Spec => []CancelledEffectsAreSignalled
<1>1. TypeOK /\ GateInvariant => CancelledEffectsAreSignalled
  <2>1. SUFFICES ASSUME TypeOK, GateInvariant, op.cancelled,
                        pass.pc = "effect" \/ \E c \in Calls : exec[c] = "run"
                 PROVE  pass.signalled
    BY DEF CancelledEffectsAreSignalled
  <2>2. pass.pc \in {"effect", "tools"}
    BY <2>1 DEF GateInvariant, PassIsOwned, AllCalls
  <2>3. Driving
    BY <2>1, <2>2 DEF GateInvariant, PassIsOwned, Driving
  <2> QED
    BY <2>1, <2>2, <2>3 DEF GateInvariant, UnsignalledIsEarly, Early
<1> QED
  BY <1>1, GateProtocol, TypeCorrect, PTL

\* The places of a pass whose admission needs a running operation.
Guarded == {"effect", "timer", "drive_hook", "run_hook", "end_hook",
            "request_hook", "poll_hook"}

\* Nothing that needs a running operation starts in this step.
Quiet ==
  /\ pass'.pc \in Guarded => pass'.pc = pass.pc
  /\ \A c \in Calls : exec'[c] \in {"hook", "run"} => exec'[c] = exec[c]

\* Commands start nothing.
LEMMA CommandsAreQuiet ==
  ASSUME TypeOK, HostStep \/ CommitAbort \/ ClearPass \/ Stop \/ Restart \/ TimePasses
  PROVE  Quiet
<1>1. ASSUME NEW id \in Ops, NEW claimed \in BOOLEAN, RequestAbort(id, claimed)
      PROVE  Quiet
  <2>1. pass'.pc = pass.pc /\ exec' = exec
    BY <1>1 DEF RequestAbort, TypeOK, PassTypeOK, PassType
  <2> QED
    BY <2>1 DEF Quiet
<1>2. CASE CommitAbort
  <2>1. pass'.pc = pass.pc /\ exec' = exec
    BY <1>2 DEF CommitAbort, TypeOK, PassTypeOK, PassType
  <2> QED
    BY <2>1 DEF Quiet
<1>3. ASSUME NEW policy \in Policies, InstallPass(policy) PROVE Quiet
  <2>1. pass'.pc = "begin" /\ exec' = exec
    BY <1>3 DEF InstallPass, NoPass
  <2> QED
    BY <2>1 DEF Quiet, Guarded
<1>4. CASE ClearPass \/ Stop
  BY <1>4 DEF ClearPass, ReleasePass, Stop, NoPass, AllCalls, Quiet, Guarded
<1>5. CASE UNCHANGED <<pass, exec>>
  BY <1>5 DEF Quiet
<1>6. ASSUME \/ \E p \in BOOLEAN : AcceptRun(p)
             \/ \E i \in Items, k \in Kinds : Enqueue(i, k) \/ Append(i, k)
             \/ \E i \in Items : CancelQueued(i)
             \/ Restart \/ TimePasses
      PROVE  UNCHANGED <<pass, exec>>
  BY <1>6 DEF AcceptRun, Enqueue, Append, Appended, CancelQueued, Restart,
              TimePasses, passVars
<1> QED
  BY <1>1, <1>2, <1>3, <1>4, <1>5, <1>6 DEF HostStep

\* On a cancelled operation the procedures of a pass start nothing: they read
\* its control status, or find the gate closed.
LEMMA CancelledPassIsQuiet ==
  ASSUME TypeOK, GateInvariant, op.cancelled, HookStep \/ ProviderStep \/ ProcedureStep
  PROVE  Quiet
<1> USE DEF KeepProcess, Running
<1>1. exec' = exec \/ exec' = AllCalls("idle")
  BY DEF HookStep, DriveHookReturns, RunHookReturns, EndHookReturns,
     PublishGenerationIntent, PublishPollIntent, ProviderStep, ProviderAnswers,
     StreamFrame, ProcedureStep, BeforeDrive, CancellationArrives, DispatchCancelled,
     Reconcile, StartRun, Checkpoint, PrepareGeneration, ConfigurationFailure,
     PrepareDeferredPoll, CallProvider, RecoverGeneration, PublishResponse,
     RetryWait, TimerEnds, StartRetry, ReleasePass
<1>2. ASSUME pass'.pc = pass.pc \/ pass'.pc \notin Guarded PROVE Quiet
  BY <1>1, <1>2 DEF Quiet, AllCalls
<1>3. CASE CallProvider
  <2>1. Driving /\ pass.pc = "call"
    BY <1>3 DEF CallProvider, Pass, Driving
  <2>2. pass.aborting
    BY <2>1 DEF GateInvariant, UnsignalledIsEarly, SignalHasCause, Early
  <2>3. Goto("wait_cancel")
    BY <1>3, <2>2 DEF CallProvider, Admit, Goto
  <2> QED
    BY <1>2, <2>3, GotoFields DEF Guarded
<1>4. ASSUME NEW pc \in {"dispatch", "retry", "wait_cancel"}, Goto(pc) PROVE Quiet
  BY <1>2, <1>4, GotoFields DEF Guarded
<1>5. ASSUME NEW status, Settle(status) PROVE Quiet
  <2>1. pass'.pc = "ending"
    BY <1>5 DEF Settle, TypeOK, PassTypeOK, PassType
  <2> QED
    BY <1>2, <2>1 DEF Guarded
<1>6. CASE HookStep
  BY <1>4, <1>6 DEF HookStep, DriveHookReturns, RunHookReturns, EndHookReturns,
     PublishGenerationIntent, PublishPollIntent, CancelSeen
<1>7. CASE StreamFrame
  BY <1>2, <1>7 DEF StreamFrame
<1>8. ASSUME NEW reply, ProviderAnswers(reply) PROVE Quiet
  <2>1. pass'.pc = "respond"
    BY <1>8 DEF ProviderAnswers, TypeOK, PassTypeOK, PassType
  <2> QED
    BY <1>2, <2>1 DEF Guarded
<1>9. CASE DispatchCancelled \/ Reconcile
  <2>1. CASE \E status : Settle(status)
    BY <1>5, <2>1
  <2>2. CASE ~\E status : Settle(status)
    <3>1. pass'.pc \in {"reconcile", "respond"}
      BY <1>9, <2>2 DEF DispatchCancelled, Reconcile, TypeOK, PassTypeOK, PassType
    <3> QED
      BY <1>2, <3>1 DEF Guarded
  <2> QED
    BY <2>1, <2>2
<1>10. CASE PublishResponse
  <2>1. pass'.pc = "dispatch"
    BY <1>10 DEF PublishResponse, TypeOK, PassTypeOK, PassType
  <2> QED
    BY <1>2, <2>1 DEF Guarded
<1>11. CASE BeforeDrive \/ CancellationArrives \/ TimerEnds \/ StartRetry
  BY <1>4, <1>11 DEF BeforeDrive, CancellationArrives, TimerEnds, StartRetry, CancelSeen
<1>12. ASSUME \/ StartRun \/ Checkpoint \/ PrepareGeneration \/ ConfigurationFailure
              \/ PrepareDeferredPoll \/ RecoverGeneration \/ RetryWait
       PROVE  FALSE
  BY <1>12 DEF StartRun, Checkpoint, PrepareGeneration, ConfigurationFailure,
     PrepareDeferredPoll, RecoverGeneration, RetryWait
<1> QED
  BY <1>3, <1>6, <1>7, <1>8, <1>9, <1>10, <1>11, <1>12 DEF ProviderStep, ProcedureStep

\* Nor do the tools of a cancelled operation.
LEMMA CancelledToolsAreQuiet ==
  ASSUME TypeOK, GateInvariant, op.cancelled, ToolStep
  PROVE  Quiet
<1>1. CASE EnterTools \/ PlaceLeftovers \/ LeaveTools
  <2>1. pass'.pc \in {"tools_place", "tools", "dispatch"}
    BY <1>1 DEF EnterTools, PlaceLeftovers, LeaveTools, TypeOK, PassTypeOK, PassType
  <2>2. exec' = exec \/ exec' = AllCalls("idle")
    BY <1>1 DEF EnterTools, PlaceLeftovers, LeaveTools
  <2> QED
    BY <2>1, <2>2 DEF Quiet, Guarded, AllCalls
<1>2. ASSUME NEW c \in Calls, InvocationStep(c) PROVE Quiet
  <2>1. Driving /\ pass.pc = "tools"
    BY <1>2 DEF InvocationStep, Pass, Driving
  <2>2. pass.aborting
    BY <2>1 DEF GateInvariant, UnsignalledIsEarly, SignalHasCause, Early
  <2>3. UNCHANGED pass
    BY <1>2 DEF InvocationStep, StartPlanned, RefusePlanned, ToolHookReturns,
       PublishToolIntent, RecoverCall, ClearReplayCheckpoint, InvokeTool, WriteScratch,
       ToolReturns, PublishToolOutcome, ReadPlacement, PlaceResults, passVars
  <2>4. \/ exec' = exec
        \/ \E state \in ExecType \ {"hook", "run"} : Move(c, state)
    BY <1>2, <2>2 DEF InvocationStep, StartPlanned, RefusePlanned, ToolHookReturns,
       PublishToolIntent, RecoverCall, ClearReplayCheckpoint, InvokeTool, WriteScratch,
       ToolReturns, PublishToolOutcome, ReadPlacement, PlaceResults, passVars, ExecType
  <2>5. exec \in [Calls -> ExecType]
    BY DEF TypeOK, PassTypeOK
  <2> QED
    BY <2>3, <2>4, <2>5 DEF Quiet, Move
<1> QED
  BY <1>1, <1>2 DEF ToolStep

\* Once a cancellation is durable no hook, request, tool or retry timer
\* starts, whatever the pass had read before it.
THEOREM NoEffectAfterCancellation == Spec => EffectsOnlyWhileRunning
<1> DEFINE Starts == \/ RequestStarts \/ HookStarts \/ (\E c \in Calls : ToolStarts(c))
                     \/ (pass.pc # "timer" /\ pass'.pc = "timer")
<1>1. Quiet => ~Starts
  BY DEF Quiet, Guarded, RequestStarts, HookStarts, ToolStarts
<1>2. ASSUME TypeOK, GateInvariant, [Next]_vars PROVE [Starts => Running]_vars
  <2>1. CASE UNCHANGED vars
    BY <2>1
  <2>2. CASE Next /\ op.cancelled
    BY <1>1, <1>2, <2>2, CommandsAreQuiet, CancelledPassIsQuiet, CancelledToolsAreQuiet
    DEF Next, PassStep
  <2>3. CASE ~op.cancelled
    BY <2>3 DEF Running
  <2> QED
    BY <1>2, <2>1, <2>2, <2>3
<1>3. TypeOK /\ GateInvariant /\ [Next]_vars => [Starts => Running]_vars
  BY <1>2
<1> QED
  BY <1>3, GateProtocol, TypeCorrect, PTL DEF Spec, EffectsOnlyWhileRunning

----------------------------------------------------------------------------
(* The lane implements OperationLifecycle.  A step either leaves the ledger *)
(* of operations alone, accepts an operation, makes a cancellation durable, *)
(* or settles the current operation with an outcome that agrees with its    *)
(* control status.                                                          *)

LeavesLedger ==
  UNCHANGED <<accepted, results>> /\ op'.id = op.id /\ op'.cancelled = op.cancelled

SettlesAs(status) ==
  Driving /\ Settle(status) /\ (status = "aborted" <=> op.cancelled)

\* Commands other than acceptance and cancellation leave the ledger alone.
LEMMA CommandsLeaveLedger ==
  ASSUME HostStep \/ ClearPass \/ Stop \/ Restart \/ TimePasses
  PROVE  LeavesLedger \/ \E p \in BOOLEAN : AcceptRun(p)
<1>1. UNCHANGED operationVars => LeavesLedger
  BY DEF operationVars, LeavesLedger
<1> QED
  BY <1>1 DEF HostStep, Enqueue, Append, Appended, CancelQueued, RequestAbort,
     InstallPass, ClearPass, Stop, Restart, TimePasses

\* Tool batches leave the ledger alone.
LEMMA ToolsLeaveLedger ==
  ASSUME TypeOK, ToolStep
  PROVE  LeavesLedger
<1>1. KeepLane => LeavesLedger
  BY DEF KeepLane, operationVars, LeavesLedger
<1>2. ASSUME NEW S, CommitPlacement(S) PROVE LeavesLedger
  BY <1>2 DEF CommitPlacement, CloseBatch, LeavesLedger,
              TypeOK, OperationTypeOK, OperationType
<1>3. CASE EnterTools \/ PlaceLeftovers \/ LeaveTools
  BY <1>1, <1>2, <1>3 DEF EnterTools, PlaceLeftovers, LeaveTools
<1>4. ASSUME NEW c \in Calls, InvocationStep(c) PROVE LeavesLedger
  BY <1>1, <1>2, <1>4 DEF InvocationStep, StartPlanned, RefusePlanned,
     ToolHookReturns, PublishToolIntent, RecoverCall, ClearReplayCheckpoint,
     InvokeTool, WriteScratch, ToolReturns, PublishToolOutcome, ReadPlacement,
     PlaceResults
<1> QED
  BY <1>3, <1>4 DEF ToolStep

\* A procedure of a pass leaves the ledger alone or settles its operation, as
\* completed or failed only when it is running and as aborted only when not.
LEMMA ProceduresSettle ==
  ASSUME TypeOK, GateInvariant, HookStep \/ ProviderStep \/ ProcedureStep
  PROVE  LeavesLedger \/ \E status \in Statuses : SettlesAs(status)
<1> USE DEF Running, Statuses
<1>1. KeepDurable => LeavesLedger
  BY DEF KeepDurable, operationVars, LeavesLedger
<1>2. ASSUME NEW leaf, NEW continuation, NEW attempt,
             Advance(leaf, continuation, attempt), UNCHANGED <<accepted, results>>
      PROVE  LeavesLedger
  BY <1>2, AdvanceFields DEF LeavesLedger
<1>3. CASE EndHookReturns(TRUE) \/ EndHookReturns(FALSE)
  <2>1. CASE Settle("completed") /\ ~op.cancelled
    BY <1>3, <2>1 DEF EndHookReturns, Command, Pass, Driving, SettlesAs
  <2>2. CASE ~(Settle("completed") /\ ~op.cancelled)
    BY <1>1, <1>2, <1>3, <2>2 DEF EndHookReturns, ReadyForAssistant
  <2> QED
    BY <2>1, <2>2
<1>4. CASE RunHookReturns \/ PublishGenerationIntent
  BY <1>1, <1>2, <1>4 DEF RunHookReturns, PublishGenerationIntent
<1>5. CASE PublishPollIntent
  BY <1>1, <1>5 DEF PublishPollIntent, LeavesLedger, TypeOK, OperationTypeOK, OperationType
<1>6. CASE StreamFrame \/ CallProvider
  BY <1>6 DEF StreamFrame, CallProvider, operationVars, LeavesLedger
<1>7. CASE Reconcile
  <2>1. Driving /\ op.cancelled
    BY <1>7 DEF Reconcile, Pass, Driving, GateInvariant, WaitsHaveCause
  <2> QED
    BY <1>1, <1>7, <2>1 DEF Reconcile, SettlesAs
<1>8. CASE ConfigurationFailure
  BY <1>8 DEF ConfigurationFailure, Command, Pass, Driving, SettlesAs
<1>9. CASE PublishResponse
  <2>1. CASE Settle("failed") /\ ~op.cancelled
    BY <1>9, <2>1 DEF PublishResponse, Command, Pass, Driving, SettlesAs
  <2>2. CASE ~(Settle("failed") /\ ~op.cancelled)
    BY <1>2, <1>9, <2>2 DEF PublishResponse
  <2> QED
    BY <2>1, <2>2
<1>10. CASE Checkpoint \/ StartRetry
  BY <1>1, <1>2, <1>10 DEF Checkpoint, StartRetry, ReadyForAssistant
<1>11. ASSUME \/ DriveHookReturns \/ BeforeDrive \/ CancellationArrives
              \/ DispatchCancelled \/ StartRun \/ PrepareGeneration
              \/ PrepareDeferredPoll \/ RecoverGeneration \/ RetryWait \/ TimerEnds
              \/ \E reply : ProviderAnswers(reply)
       PROVE  KeepDurable
  BY <1>11 DEF DriveHookReturns, BeforeDrive, CancellationArrives, DispatchCancelled,
     StartRun, PrepareGeneration, PrepareDeferredPoll, RecoverGeneration, RetryWait,
     TimerEnds, ProviderAnswers
<1> QED
  BY <1>1, <1>3, <1>4, <1>5, <1>6, <1>7, <1>8, <1>9, <1>10, <1>11
  DEF HookStep, ProviderStep, ProcedureStep

\* The four kinds of step.
LEMMA LedgerSteps ==
  ASSUME TypeOK, GateInvariant, [Next]_vars
  PROVE  \/ LeavesLedger \/ (\E p \in BOOLEAN : AcceptRun(p)) \/ CommitAbort
         \/ \E status \in Statuses : SettlesAs(status)
<1>1. CASE UNCHANGED vars
  BY <1>1 DEF vars, operationVars, LeavesLedger
<1>2. CASE Next
  BY <1>2, CommandsLeaveLedger, ToolsLeaveLedger, ProceduresSettle DEF Next, PassStep
<1> QED
  BY <1>1, <1>2

----------------------------------------------------------------------------
\* What acceptance does to the ledger.
LEMMA AcceptLedger ==
  ASSUME TypeOK, NEW p \in BOOLEAN, AcceptRun(p)
  PROVE  /\ op.id = 0 /\ accepted < MaxOps /\ UNCHANGED results
         /\ accepted' = accepted + 1 /\ op'.id = accepted + 1 /\ ~op'.cancelled
  BY DEF AcceptRun, Idle, NoOperation

\* What a cancellation does to it.
LEMMA CancelLedger ==
  ASSUME TypeOK, CommitAbort
  PROVE  /\ UNCHANGED <<accepted, results>> /\ op'.id = op.id
         /\ op'.cancelled = (op.cancelled \/ op.id = abort.op)
  BY DEF CommitAbort, TypeOK, OperationTypeOK, OperationType

\* What settlement does to it.
LEMMA SettleLedger ==
  ASSUME TypeOK, GateInvariant, NEW status \in Statuses, SettlesAs(status)
  PROVE  /\ UNCHANGED accepted /\ op'.id = 0 /\ op.id \in Ops /\ ~op'.cancelled
         /\ results' = [results EXCEPT ![op.id] = status]
  BY Fields DEF SettlesAs, Settle, NoOperation, GateInvariant, PassIsOwned, Ops

\* LedgerInvariant is inductive.
LEMMA LedgerNext ==
  ASSUME TypeOK, GateInvariant, LedgerInvariant, [Next]_vars
  PROVE  LedgerInvariant'
<1> USE DEF LedgerInvariant
<1>1. CASE LeavesLedger
  BY <1>1 DEF LeavesLedger
<1>2. ASSUME NEW p \in BOOLEAN, AcceptRun(p) PROVE LedgerInvariant'
  <2>1. accepted \in Nat
    BY DEF TypeOK, OperationTypeOK
  <2> QED
    BY <1>2, <2>1, AcceptLedger DEF Ops
<1>3. CASE CommitAbort
  BY <1>3, CancelLedger
<1>4. ASSUME NEW status \in Statuses, SettlesAs(status) PROVE LedgerInvariant'
  <2>1. results \in [Ops -> Statuses \union {"none"}] /\ accepted \in Nat
    BY DEF TypeOK, OperationTypeOK
  <2>2. status # "none" /\ 0 \notin Ops
    BY DEF Statuses, Ops
  <2>3. /\ UNCHANGED accepted /\ op'.id = 0 /\ op.id \in Ops
        /\ results' = [results EXCEPT ![op.id] = status]
    BY <1>4, SettleLedger
  <2>4. op.id = accepted /\ \A i \in Ops : i <= accepted /\ i # op.id => i # 0
    BY <2>2, <2>3
  <2>5. \A i \in Ops : results'[i] # "none" <=> i <= accepted
    BY <2>1, <2>2, <2>3, <2>4 DEF Ops
  <2> QED
    BY <2>2, <2>3, <2>5
<1> QED
  BY <1>1, <1>2, <1>3, <1>4, LedgerSteps

\* At every moment one operation at most is open, it is the last one that was
\* accepted, and exactly the accepted operations before it have a result.
THEOREM LedgerCorrect == Spec => []LedgerInvariant
<1>1. Init => LedgerInvariant
  BY DEF Init, LedgerInvariant, NoOperation, Ops
<1>2. TypeOK /\ GateInvariant /\ LedgerInvariant /\ [Next]_vars => LedgerInvariant'
  BY LedgerNext
<1> QED
  BY <1>1, <1>2, TypeCorrect, GateProtocol, PTL DEF Spec

----------------------------------------------------------------------------
(* Refinement.                                                              *)

StatusMap == [i \in Ops |-> StatusOf(i)]

\* Every step of the lane is a step of OperationLifecycle or leaves its status
\* alone.
LEMMA LifecycleNext ==
  ASSUME TypeOK, GateInvariant, LedgerInvariant, [Next]_vars
  PROVE  [Promise!Change]_StatusMap
<1>1. accepted \in Nat /\ results \in [Ops -> Statuses \union {"none"}]
  BY DEF TypeOK, OperationTypeOK
<1>2. CASE LeavesLedger
  BY <1>2 DEF LeavesLedger, StatusMap, StatusOf
<1>3. ASSUME NEW p \in BOOLEAN, AcceptRun(p) PROVE Promise!Change
  <2> DEFINE n == accepted + 1
  <2>1. /\ op.id = 0 /\ accepted < MaxOps /\ results' = results
        /\ op'.id = n /\ ~op'.cancelled
    BY <1>3, AcceptLedger
  <2>2. n \in Ops /\ 0 \notin Ops
    <3>1. accepted < MaxOps
      BY <2>1
    <3> QED
      BY <1>1, <3>1, BoundsAssumption DEF Ops
  <2>3. \A j \in Ops : results[j] # "none" <=> j < n
    BY <1>1, <2>1, <2>2 DEF LedgerInvariant, Ops
  <2>4. \A j \in Ops : StatusOf(j) = IF j < n THEN results[j] ELSE "unaccepted"
    BY <2>1, <2>2, <2>3 DEF StatusOf
  <2>5. \A j \in Ops : StatusOf(j)' = IF j = n THEN "running" ELSE StatusOf(j)
    <3>1. results[n] = "none"
      BY <1>1, <2>2, <2>3
    <3> QED
      BY <2>1, <2>2, <3>1 DEF StatusOf
  <2>6. \A j \in Ops : j < n => results[j] \in Statuses
    BY <1>1, <2>3
  <2>7. /\ StatusMap[n] = "unaccepted"
        /\ \A j \in Ops : /\ StatusMap[j] \notin {"running", "cancelling"}
                          /\ j < n => StatusMap[j] # "unaccepted"
    BY <1>1, <2>2, <2>4, <2>6 DEF StatusMap, Statuses, Ops
  <2>8. StatusMap' = [StatusMap EXCEPT ![n] = "running"]
    BY <2>2, <2>5 DEF StatusMap
  <2> QED
    BY <2>2, <2>7, <2>8 DEF Promise!Change, Promise!Accept, Promise!Open,
       StatusMap, Ops
<1>4. CASE CommitAbort
  <2>1. CASE op.id # 0 /\ op.id = abort.op /\ ~op.cancelled
    <3>1. op.id \in Ops
      BY <2>1, Fields DEF Ops
    <3>2. StatusMap[op.id] = "running"
      BY <2>1, <3>1 DEF StatusMap, StatusOf, LedgerInvariant
    <3>3. StatusMap' = [StatusMap EXCEPT ![op.id] = "cancelling"]
      BY <1>4, <2>1, <3>1, CancelLedger DEF StatusMap, StatusOf, LedgerInvariant
    <3> QED
      BY <3>1, <3>2, <3>3 DEF Promise!Change, Promise!Cancel, StatusMap, Ops
  <2>2. CASE op.id = 0 \/ op.id # abort.op \/ op.cancelled
    <3>1. op'.id = op.id /\ (op.id # 0 => (op'.cancelled <=> op.cancelled))
      BY <1>4, <2>2, CancelLedger
    <3>2. \A i \in Ops : i # 0
      BY DEF Ops
    <3>3. \A i \in Ops : StatusOf(i)' = StatusOf(i)
      BY <1>4, <3>1, <3>2, CancelLedger DEF StatusOf
    <3> QED
      BY <3>3 DEF StatusMap
  <2> QED
    BY <2>1, <2>2
<1>5. ASSUME NEW status \in Statuses, SettlesAs(status) PROVE Promise!Change
  <2>1. op.id \in Ops
    BY <1>5, SettleLedger
  <2>2. StatusMap[op.id] = IF status = "aborted" THEN "cancelling" ELSE "running"
    BY <1>5, <2>1 DEF SettlesAs, StatusMap, StatusOf, LedgerInvariant
  <2>3. StatusMap' = [StatusMap EXCEPT ![op.id] = status]
    <3>1. op'.id = 0 /\ results' = [results EXCEPT ![op.id] = status]
      BY <1>5, SettleLedger
    <3>2. status # "none" /\ 0 \notin Ops
      BY DEF Statuses, Ops
    <3>3. \A i \in Ops : StatusOf(i)' = IF i = op.id THEN status ELSE StatusOf(i)
      BY <1>1, <2>1, <3>1, <3>2 DEF StatusOf
    <3> QED
      BY <3>3 DEF StatusMap
  <2> QED
    BY <2>1, <2>2, <2>3 DEF Promise!Change, Promise!SettleAs, StatusMap, Ops, Statuses
<1> QED
  BY <1>2, <1>3, <1>4, <1>5, LedgerSteps

\* The lane implements OperationLifecycle: operations are accepted one at a
\* time and settle once, and one whose cancellation was acknowledged settles
\* as aborted.
THEOREM LaneKeepsLifecycle == Spec => KeepsLifecycle
<1>1. Init => Promise!Begin
  BY DEF Init, Promise!Begin, StatusOf, NoOperation, Ops
<1>2. TypeOK /\ GateInvariant /\ LedgerInvariant /\ [Next]_vars
        => [Promise!Change]_[i \in Ops |-> StatusOf(i)]
  BY LifecycleNext DEF StatusMap
<1> QED
  BY <1>1, <1>2, TypeCorrect, GateProtocol, LedgerCorrect, PTL
  DEF Spec, KeepsLifecycle, Promise!Lifecycle

----------------------------------------------------------------------------
(* The inbox.                                                               *)

\* What a boundary may deliver: queued items, each with the ones of its class
\* before it.
LEMMA OldestIsFirst ==
  ASSUME NEW S, S \subseteq Items, NEW i \in Oldest(S), NEW j \in S
  PROVE  i <= j
  BY DEF Oldest

LEMMA SomeIsOldest ==
  ASSUME NEW S, S \subseteq Items, S # {}
  PROVE  Oldest(S) # {}
<1>1. S \subseteq Nat
  BY BoundsAssumption DEF Items
<1>2. PICK i \in S : \A j \in S : <<j, i>> \notin OpToRel(<, Nat)
  BY <1>1, NatLessThanWellFounded, WFMin
<1>3. ASSUME NEW j \in S PROVE i <= j
  <2>1. i \in Nat /\ j \in Nat
    BY <1>1
  <2>2. ASSUME j < i PROVE FALSE
    <3>1. <<j, i>> \in Nat \X Nat /\ <<j, i>>[1] < <<j, i>>[2]
      BY <2>1, <2>2
    <3>2. <<j, i>> \in OpToRel(<, Nat)
      BY <3>1 DEF OpToRel
    <3> QED
      BY <1>2, <3>2
  <2> QED
    BY <2>1, <2>2
<1> QED
  BY <1>3 DEF Oldest

Selects(S) ==
  /\ S \subseteq Queued
  /\ \A i \in S : \A j \in Queued : j < i /\ Class(j) = Class(i) => j \in S

LEMMA PickSelects ==
  ASSUME NEW all, NEW k \in {"steer", "followUp"}
  PROVE  LET S == Pick(all, QueuedAs({k}))
         IN  /\ S \subseteq QueuedAs({k})
             /\ \A i \in S : \A j \in QueuedAs({k}) : j < i => j \in S
<1> DEFINE S == Pick(all, QueuedAs({k}))
<1>1. QueuedAs({k}) \subseteq Items /\ Items \subseteq Nat
  BY BoundsAssumption DEF QueuedAs, Queued, Items
<1>2. CASE all
  BY <1>1, <1>2 DEF Pick
<1>3. CASE ~all
  <2>1. S = Oldest(QueuedAs({k}))
    BY <1>3 DEF Pick
  <2>2. \A i \in S : \A j \in QueuedAs({k}) : i \in Nat /\ j \in Nat /\ i <= j
    BY <1>1, <2>1 DEF Oldest
  <2> QED
    BY <2>1, <2>2 DEF Oldest
<1> QED
  BY <1>2, <1>3

LEMMA SelectionsSelect ==
  /\ Selects(SelectAccepted)
  /\ \A mayFinish : Selects(SelectAtBoundary(mayFinish))
<1> DEFINE Steered == Pick(SteerAll, QueuedAs({"steer"}))
           Followed == Pick(FollowUpAll, QueuedAs({"followUp"}))
<1>1. /\ Steered \subseteq QueuedAs({"steer"})
      /\ \A i \in Steered : \A j \in QueuedAs({"steer"}) : j < i => j \in Steered
  BY PickSelects
<1>2. /\ Followed \subseteq QueuedAs({"followUp"})
      /\ \A i \in Followed : \A j \in QueuedAs({"followUp"}) : j < i => j \in Followed
  BY PickSelects
<1> HIDE DEF Steered, Followed
<1>3. /\ Writes \subseteq Queued /\ \A i \in Queued : Class(i) = "write" /\ kind[i] # "write" => i \in Writes
      /\ \A i \in Queued : kind[i] \in {"write", "note"} <=> i \in Writes
  BY DEF Writes, QueuedAs, Class
<1>4. ASSUME NEW S, S \in {Writes \union Steered, Writes \union Steered \union Followed,
               QueuedAs({"write", "note", "nextRun"}) \union Steered \union Followed}
      PROVE  Selects(S)
  <2>1. S \subseteq Queued
    BY <1>1, <1>2, <1>3, <1>4 DEF QueuedAs
  <2>2. ASSUME NEW i \in S, NEW j \in Queued, j < i, Class(j) = Class(i) PROVE j \in S
    <3>1. CASE i \in Steered
      BY <1>1, <1>4, <2>2, <3>1 DEF QueuedAs, Class
    <3>2. CASE i \in Followed /\ i \notin Steered
      <4>1. kind[i] = "followUp" /\ i \notin Writes
        BY <1>2, <3>2 DEF QueuedAs, Writes
      <4>2. j \in QueuedAs({"followUp"})
        BY <2>2, <4>1 DEF QueuedAs, Class
      <4>3. j \in Followed
        BY <1>2, <2>2, <3>2, <4>2
      <4> QED
        BY <1>4, <2>2, <3>2, <4>1, <4>3 DEF QueuedAs
    <3>3. CASE i \notin Steered \union Followed
      <4>1. (kind[i] \in {"write", "note"} /\ i \in Writes) \/ kind[i] = "nextRun"
        BY <1>4, <2>2, <3>3 DEF QueuedAs, Writes
      <4>2. kind[i] \in {"write", "note"} => kind[j] \in {"write", "note"}
        BY <2>2 DEF Class
      <4>3. kind[i] = "nextRun" => kind[j] = "nextRun"
        BY <2>2 DEF Class
      <4> QED
        BY <1>4, <2>2, <3>3, <4>1, <4>2, <4>3 DEF QueuedAs, Writes
    <3> QED
      BY <3>1, <3>2, <3>3
  <2> QED
    BY <2>1, <2>2 DEF Selects
<1>5. Selects(SelectAccepted)
  BY <1>4 DEF SelectAccepted, Steered, Followed
<1>6. ASSUME NEW mayFinish PROVE Selects(SelectAtBoundary(mayFinish))
  BY <1>4 DEF SelectAtBoundary, Steered, Followed
<1> QED
  BY <1>5, <1>6

\* How a step changes the inbox.
LEMMA InboxSteps ==
  ASSUME [Next]_vars
  PROVE  \/ UNCHANGED <<kind, fate>>
         \/ (Idle \/ op.at = "checkpoint") /\ \E S : Selects(S) /\ Deliver(S)
         \/ \E i \in Items, k \in Kinds : Enqueue(i, k) \/ Append(i, k)
         \/ \E i \in Items : CancelQueued(i)
         \/ CommitAbort
<1>1. CASE UNCHANGED vars
  BY <1>1 DEF vars, inboxVars
<1>2. CASE HostStep
  BY <1>2, SelectionsSelect DEF HostStep, AcceptRun, RequestAbort, InstallPass, inboxVars
<1>3. CASE Stop \/ Restart \/ TimePasses \/ ClearPass
  BY <1>3 DEF Stop, Restart, TimePasses, ClearPass, inboxVars
<1>4. CASE Checkpoint \/ \E followUp \in BOOLEAN : EndHookReturns(followUp)
  BY <1>4, SelectionsSelect DEF Checkpoint, EndHookReturns, FinalPlan, Command, KeepDurable,
     inboxVars
<1>5. CASE HookStep \/ ProviderStep
  BY <1>4, <1>5 DEF HookStep, DriveHookReturns, RunHookReturns,
     PublishGenerationIntent, PublishPollIntent, ProviderStep, ProviderAnswers,
     StreamFrame, KeepDurable, inboxVars
<1>6. CASE ProcedureStep
  BY <1>4, <1>6 DEF ProcedureStep, BeforeDrive, CancellationArrives, DispatchCancelled,
     Reconcile, StartRun, PrepareGeneration, ConfigurationFailure,
     PrepareDeferredPoll, CallProvider, RecoverGeneration, PublishResponse,
     RetryWait, TimerEnds, StartRetry, KeepDurable, inboxVars
<1>7. CASE ToolStep
  BY <1>7 DEF ToolStep, EnterTools, PlaceLeftovers, LeaveTools, CommitPlacement,
     InvocationStep, StartPlanned, RefusePlanned, ToolHookReturns, PublishToolIntent,
     RecoverCall, ClearReplayCheckpoint, InvokeTool, WriteScratch, ToolReturns,
     PublishToolOutcome, ReadPlacement, PlaceResults, KeepLane, inboxVars
<1> QED
  BY <1>1, <1>2, <1>3, <1>5, <1>6, <1>7 DEF Next, PassStep

InOrder ==
  \A i \in Items :
    /\ Enters(i) => /\ fate[i] \in {"new", "queued"}
                    /\ Idle \/ op.at = "checkpoint"
                    /\ \A j \in 1 .. (i - 1) :
                         fate[j] = "queued" /\ Class(j) = Class(i)' => Enters(j)
    /\ fate[i] \in {"delivered", "cancelled", "drained"} => fate'[i] = fate[i]

\* Input enters the transcript on an idle lane or at a checkpoint, never between a
\* request and its response or a call and its result; input of one class keeps
\* its order; and what left the inbox never enters again.
THEOREM InputKeepsOrder == Spec => InputEntersInOrder
<1>1. ASSUME TypeOK, [Next]_vars PROVE [InOrder]_vars
  <2>1. /\ fate \in [Items -> Fates] /\ kind \in [Items -> ItemKinds]
        /\ \A i \in Items : \A j \in 1 .. (i - 1) : j \in Items /\ j < i
    BY <1>1, BoundsAssumption DEF TypeOK, InboxTypeOK, Items
  <2>2. CASE UNCHANGED <<kind, fate>>
    BY <2>2 DEF InOrder, Enters
  <2>3. ASSUME Idle \/ op.at = "checkpoint", NEW S, Selects(S), Deliver(S) PROVE InOrder
    <3>1. \A i \in Items : /\ fate'[i] = (IF i \in S THEN "delivered" ELSE fate[i])
                           /\ Class(i)' = Class(i)
      BY <2>3 DEF Deliver, Class
    <3>2. \A i \in S : fate[i] = "queued"
      BY <2>3 DEF Selects, Queued
    <3> QED
      BY <2>1, <2>3, <3>1, <3>2 DEF InOrder, Enters, Selects, Queued
  <2>4. ASSUME NEW i \in Items, NEW k \in Kinds, Enqueue(i, k) PROVE InOrder
    BY <2>1, <2>4 DEF InOrder, Enters, Enqueue, NextItem
  <2>5. ASSUME NEW i \in Items, NEW k \in Kinds, Append(i, k) PROVE InOrder
    <3>1. kind' = [kind EXCEPT ![i] = k] /\ k \in {"write", "note"} /\ fate[i] = "new"
      BY <2>5 DEF Append, Appended, NextItem
    <3>2. CASE Idle
      <4>1. \A j \in Items : fate'[j] = IF j = i \/ j \in Writes THEN "delivered" ELSE fate[j]
        BY <2>5, <3>2 DEF Append, Appended
      <4>2. \A j \in Writes : fate[j] = "queued" /\ kind[j] \in {"write", "note"} /\ j # i
        BY <3>1 DEF Writes, QueuedAs, Queued
      <4>3. \A j \in Items : (j = i \/ j \in Writes) => Class(j)' = "write"
        BY <2>1, <3>1, <4>2 DEF Class
      <4>4. \A j \in Items : fate[j] = "queued" /\ Class(j) = "write" => j \in Writes
        BY <2>1 DEF Class, Writes, QueuedAs, Queued
      <4> QED
        BY <2>1, <3>1, <3>2, <4>1, <4>2, <4>3, <4>4 DEF InOrder, Enters
    <3>3. CASE ~Idle
      BY <2>1, <2>5, <3>1, <3>3 DEF Append, Appended, InOrder, Enters
    <3> QED
      BY <3>2, <3>3
  <2>6. ASSUME NEW i \in Items, CancelQueued(i) PROVE InOrder
    BY <2>1, <2>6 DEF InOrder, Enters, CancelQueued, Queued
  <2>7. CASE CommitAbort
    <3> DEFINE S == IF op.id = abort.op /\ Running
                    THEN QueuedAs({"steer", "followUp"}) ELSE {}
    <3>1. /\ fate' = [i \in Items |-> IF i \in S THEN "drained" ELSE fate[i]]
          /\ S \subseteq Queued
      BY <2>7 DEF CommitAbort, QueuedAs
    <3> HIDE DEF S
    <3>2. \A i \in Items : fate'[i] = IF i \in S THEN "drained" ELSE fate[i]
      BY <3>1
    <3>3. \A i \in S : fate[i] = "queued"
      BY <3>1 DEF Queued
    <3>4. \A i \in Items : ~Enters(i)
      BY <3>2 DEF Enters
    <3>5. \A i \in Items : fate[i] \in {"delivered", "cancelled", "drained"} => fate'[i] = fate[i]
      BY <3>2, <3>3
    <3> QED
      BY <3>4, <3>5 DEF InOrder
  <2> QED
    BY <1>1, <2>2, <2>3, <2>4, <2>5, <2>6, <2>7, InboxSteps
<1> QED
  BY <1>1, TypeCorrect, PTL DEF Spec, InputEntersInOrder, InOrder

\* A plan without anything to answer is all there is to take.
LEMMA EmptyPlanTakesAll ==
  ASSUME TypeOK, Projecting(SelectAtBoundary(TRUE)) = {},
         NEW j \in Queued, j \notin SelectAtBoundary(TRUE)
  PROVE  kind[j] = "nextRun"
<1> DEFINE Steered == Pick(SteerAll, QueuedAs({"steer"}))
           Followed == Pick(FollowUpAll, QueuedAs({"followUp"}))
<1>1. /\ QueuedAs({"steer"}) \subseteq Items /\ QueuedAs({"followUp"}) \subseteq Items
  BY DEF QueuedAs, Queued
<1>2. Steered \subseteq QueuedAs({"steer"}) /\ Followed \subseteq QueuedAs({"followUp"})
  BY PickSelects
<1>3. /\ QueuedAs({"steer"}) # {} => Steered # {}
      /\ QueuedAs({"followUp"}) # {} => Followed # {}
  BY <1>1, SomeIsOldest DEF Pick
<1> HIDE DEF Steered, Followed
<1>4. Projecting(Writes \union Steered) = {}
  BY DEF SelectAtBoundary, Steered, Projecting
<1>5. SelectAtBoundary(TRUE) = Writes \union Steered \union Followed
  BY <1>4 DEF SelectAtBoundary, Steered, Followed
<1>6. Steered = {} /\ Followed = {}
  BY <1>2, <1>5 DEF Projecting, QueuedAs
<1>7. j \in Items /\ kind[j] \in ItemKinds /\ j \notin Writes
  BY <1>5 DEF TypeOK, InboxTypeOK, Queued
<1> QED
  BY <1>3, <1>6, <1>7 DEF QueuedAs, Writes, ItemKinds

\* A run that completes has taken every steering message, follow-up and write
\* there is, also the ones that came while before_run_end was asked.
THEOREM CompletionTakesAll == Spec => CompletionTakesAllInput
<1> DEFINE TakesAll == \A i \in Ops : results[i] = "none" /\ results'[i] = "completed" =>
                         \A j \in Items : fate'[j] = "queued" => kind[j] = "nextRun"
<1>1. ASSUME TypeOK, GateInvariant, [Next]_vars PROVE [TakesAll]_vars
  <2>1. ASSUME NEW followUp \in BOOLEAN, EndHookReturns(followUp) PROVE TakesAll
    <3>1. CASE UNCHANGED results
      BY <3>1
    <3>2. CASE ~UNCHANGED results
      <4>1. Deliver(SelectAtBoundary(TRUE)) /\ Projecting(SelectAtBoundary(TRUE)) = {}
        BY <2>1, <3>2 DEF EndHookReturns, FinalPlan, KeepDurable, operationVars
      <4> QED
        BY <1>1, <4>1, EmptyPlanTakesAll DEF Deliver, Queued
    <3> QED
      BY <3>1, <3>2
  <2>2. CASE \E status \in {"failed", "aborted"} : Settle(status)
    BY <1>1, <2>2 DEF Settle, TypeOK, OperationTypeOK
  <2>3. CASE UNCHANGED results
    BY <2>3
  <2>4. CASE UNCHANGED vars
    BY <2>3, <2>4 DEF vars, operationVars
  <2>5. CASE HostStep \/ CommitAbort \/ Stop \/ Restart \/ TimePasses \/ ClearPass
    BY <2>3, <2>5 DEF HostStep, AcceptRun, Enqueue, Append, Appended, CancelQueued, RequestAbort,
       InstallPass, CommitAbort, Stop, Restart, TimePasses, ClearPass, operationVars
  <2>6. CASE HookStep \/ ProviderStep
    BY <2>1, <2>3, <2>6 DEF HookStep, DriveHookReturns, RunHookReturns, PublishGenerationIntent,
       PublishPollIntent, ProviderStep, ProviderAnswers, StreamFrame, KeepDurable, operationVars
  <2>7. CASE ProcedureStep
    BY <2>2, <2>3, <2>7 DEF ProcedureStep, BeforeDrive, CancellationArrives, DispatchCancelled,
       Reconcile, StartRun, Checkpoint, PrepareGeneration, ConfigurationFailure,
       PrepareDeferredPoll, CallProvider, RecoverGeneration, PublishResponse,
       RetryWait, TimerEnds, StartRetry, KeepDurable, operationVars
  <2>8. CASE ToolStep
    BY <1>1, <2>3, <2>8, ToolsLeaveLedger DEF LeavesLedger
  <2> QED
    BY <1>1, <2>4, <2>5, <2>6, <2>7, <2>8 DEF Next, PassStep
<1> QED
  BY <1>1, TypeCorrect, GateProtocol, PTL DEF Spec, CompletionTakesAllInput

=============================================================================
