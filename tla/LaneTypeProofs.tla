----------------------------- MODULE LaneTypeProofs -----------------------------
(****************************************************************************)
(* Type correctness of LaneRun, for every number of operations, items, tool *)
(* calls, attempts and stops, every queue mode and every way to drive.      *)
(****************************************************************************)
EXTENDS LaneInvariants, TLAPS

USE BoundsAssumption, SettingsAssumption, ChoicesAssumption

----------------------------------------------------------------------------
(* Values and updates of the records.                                       *)

\* The null records are values of their types.
LEMMA NullValues ==
  NoOperation \in OperationType /\ NoPass \in PassType /\ NoAbort \in AbortType
  BY DEF NoOperation, NoPass, NoAbort, OperationType, PassType, AbortType,
         Leaves, Continuations, PcType, Responses

\* A pass stays a pass when one of its fields is given a value of the field's
\* type.
LEMMA PassUpdate ==
  ASSUME NEW p \in PassType
  PROVE  /\ \A x \in PcType : [p EXCEPT !.pc = x] \in PassType
         /\ \A x \in BOOLEAN : /\ [p EXCEPT !.aborting = x] \in PassType
                               /\ [p EXCEPT !.signalled = x] \in PassType
                               /\ [p EXCEPT !.permit = x] \in PassType
                               /\ [p EXCEPT !.waits = x] \in PassType
                               /\ [p EXCEPT !.serial = x] \in PassType
         /\ \A x \in 0 .. MaxOps : [p EXCEPT !.op = x] \in PassType
         /\ \A x \in SUBSET Items : [p EXCEPT !.plan = x] \in PassType
         /\ \A x \in Responses : [p EXCEPT !.response = x] \in PassType
         /\ \A x \in PcType, y \in SUBSET Items :
              [p EXCEPT !.pc = x, !.plan = y] \in PassType
         /\ \A x \in PcType, y \in Responses :
              [p EXCEPT !.pc = x, !.response = y] \in PassType
  BY DEF PassType

\* The same of an operation.
LEMMA OperationUpdate ==
  ASSUME NEW o \in OperationType
  PROVE  /\ \A x \in 0 .. MaxOps : [o EXCEPT !.id = x] \in OperationType
         /\ \A x \in BOOLEAN : [o EXCEPT !.cancelled = x] \in OperationType
         /\ \A x \in Leaves : [o EXCEPT !.at = x] \in OperationType
         /\ \A x \in Continuations : [o EXCEPT !.cont = x] \in OperationType
         /\ \A x \in Leaves, y \in Continuations, z \in 0 .. MaxAttempts :
              [o EXCEPT !.at = x, !.cont = y, !.attempt = z] \in OperationType
  BY DEF OperationType

\* The fields have the types of the records.
LEMMA Fields ==
  ASSUME TypeOK
  PROVE  /\ op.id \in 0 .. MaxOps /\ op.at \in Leaves /\ op.cancelled \in BOOLEAN
         /\ op.cont \in Continuations /\ op.attempt \in 0 .. MaxAttempts
         /\ pass.op \in 0 .. MaxOps /\ pass.pc \in PcType
         /\ pass.aborting \in BOOLEAN /\ pass.signalled \in BOOLEAN
         /\ pass.permit \in BOOLEAN /\ pass.plan \in SUBSET Items
         /\ pass.response \in Responses
         /\ abort.queued \in BOOLEAN /\ abort.op \in 0 .. MaxOps
         /\ abort.captured \in BOOLEAN /\ abort.holds \in BOOLEAN
<1>1. op \in OperationType /\ pass \in PassType /\ abort \in AbortType
  BY DEF TypeOK, OperationTypeOK, PassTypeOK, HostTypeOK
<1> QED
  BY <1>1 DEF OperationType, PassType, AbortType

\* Variables that do not change keep their types.
LEMMA KeepTypes ==
  /\ OperationTypeOK /\ UNCHANGED operationVars => OperationTypeOK'
  /\ InboxTypeOK /\ UNCHANGED inboxVars => InboxTypeOK'
  /\ BatchTypeOK /\ UNCHANGED <<batchVars, ran>> => BatchTypeOK'
  /\ ResponseTypeOK /\ UNCHANGED responseVars => ResponseTypeOK'
  /\ PassTypeOK /\ UNCHANGED passVars => PassTypeOK'
  /\ HostTypeOK /\ UNCHANGED hostVars => HostTypeOK'
<1>1. OperationTypeOK /\ UNCHANGED operationVars => OperationTypeOK'
  BY DEF OperationTypeOK, operationVars
<1>2. InboxTypeOK /\ UNCHANGED inboxVars => InboxTypeOK'
  BY DEF InboxTypeOK, inboxVars
<1>3. BatchTypeOK /\ UNCHANGED <<batchVars, ran>> => BatchTypeOK'
  BY DEF BatchTypeOK, batchVars
<1>4. ResponseTypeOK /\ UNCHANGED responseVars => ResponseTypeOK'
  BY DEF ResponseTypeOK, responseVars
<1>5. PassTypeOK /\ UNCHANGED passVars => PassTypeOK'
  BY DEF PassTypeOK, passVars
<1>6. HostTypeOK /\ UNCHANGED hostVars => HostTypeOK'
  BY DEF HostTypeOK, hostVars
<1> QED
  BY <1>1, <1>2, <1>3, <1>4, <1>5, <1>6

----------------------------------------------------------------------------
(* Type correctness.                                                        *)

\* The initial state is well typed.
LEMMA TypeInit == Init => TypeOK
<1> SUFFICES ASSUME Init PROVE TypeOK
  OBVIOUS
<1>1. OperationTypeOK
  BY NullValues DEF Init, OperationTypeOK
<1>2. InboxTypeOK
  BY DEF Init, InboxTypeOK, Fates, ItemKinds
<1>3. BatchTypeOK
  BY DEF Init, BatchTypeOK, AllCalls, CallTypes
<1>4. ResponseTypeOK
  <2>1. frames \subseteq {"current", "stale"}
    BY DEF Init
  <2> QED
    BY <2>1 DEF Init, ResponseTypeOK
<1>5. PassTypeOK
  BY NullValues DEF Init, PassTypeOK, AllCalls, NothingRead, ExecType
<1>6. HostTypeOK
  <2>1. abort \in AbortType
    BY NullValues DEF Init
  <2>2. turns \in 0 .. MaxTurns /\ stops \in 0 .. MaxStops
    BY DEF Init
  <2>3. up \in BOOLEAN
    BY DEF Init
  <2> QED
    BY <2>1, <2>2, <2>3 DEF HostTypeOK
<1> QED
  BY <1>1, <1>2, <1>3, <1>4, <1>5, <1>6 DEF TypeOK

\* Delivering items changes nothing but what became of them.
LEMMA DeliverTypes ==
  ASSUME InboxTypeOK, NEW S, Deliver(S)
  PROVE  InboxTypeOK'
  BY DEF InboxTypeOK, Deliver, Fates

\* Commands of the host and of the process that runs the lane keep the types.
LEMMA TypeCommands ==
  ASSUME TypeOK, HostStep \/ CommitAbort \/ ClearPass \/ Stop \/ Restart
  PROVE  TypeOK'
<1> USE KeepTypes, NullValues DEF TypeOK
<1>1. ASSUME NEW p \in BOOLEAN, AcceptRun(p) PROVE TypeOK'
  <2>1. accepted + 1 \in 0 .. MaxOps
    BY <1>1 DEF AcceptRun, OperationTypeOK
  <2>2. [NoOperation EXCEPT !.id = accepted + 1] \in OperationType
    BY <2>1, OperationUpdate
  <2>3. OperationTypeOK'
    BY <1>1, <2>1, <2>2 DEF AcceptRun, OperationTypeOK
  <2>4. InboxTypeOK'
    BY <1>1, DeliverTypes DEF AcceptRun
  <2> QED
    BY <1>1, <2>3, <2>4 DEF AcceptRun
<1>2. ASSUME NEW i \in Items, NEW k \in Kinds, Enqueue(i, k) PROVE TypeOK'
  <2>1. InboxTypeOK'
    BY <1>2 DEF Enqueue, InboxTypeOK, Fates, ItemKinds
  <2> QED
    BY <1>2, <2>1 DEF Enqueue
<1>3. ASSUME NEW i \in Items, NEW k \in Kinds, Append(i, k) PROVE TypeOK'
  <2>1. InboxTypeOK'
    BY <1>3 DEF Append, Appended, InboxTypeOK, Fates, ItemKinds
  <2> QED
    BY <1>3, <2>1 DEF Append, Appended
<1>4. ASSUME NEW i \in Items, CancelQueued(i) PROVE TypeOK'
  <2>1. InboxTypeOK'
    BY <1>4 DEF CancelQueued, InboxTypeOK, Fates
  <2> QED
    BY <1>4, <2>1 DEF CancelQueued
<1>5. ASSUME NEW id \in Ops, NEW claimed \in BOOLEAN, RequestAbort(id, claimed)
      PROVE TypeOK'
  <2>1. pass' \in PassType
    BY <1>5, PassUpdate DEF RequestAbort, PassTypeOK
  <2>2. abort' \in AbortType
    BY <1>5, Fields DEF RequestAbort, AbortType, Ops
  <2>3. PassTypeOK' /\ HostTypeOK'
    BY <1>5, <2>1, <2>2 DEF RequestAbort, PassTypeOK, HostTypeOK
  <2> QED
    BY <1>5, <2>3 DEF RequestAbort
<1>6. ASSUME NEW policy \in Policies, InstallPass(policy) PROVE TypeOK'
  <2>1. pass' \in PassType
    BY <1>6 DEF InstallPass, PolicyType, NoPass, PassType, PcType, Responses,
                OperationTypeOK, OperationType
  <2>2. PassTypeOK'
    BY <1>6, <2>1 DEF InstallPass, PassTypeOK
  <2> QED
    BY <1>6, <2>2 DEF InstallPass
<1>7. CASE CommitAbort
  <2>1. op' \in OperationType
    BY <1>7, OperationUpdate DEF CommitAbort, OperationTypeOK, OperationType
  <2>2. pass' \in PassType
    <3>1. pass' = [pass EXCEPT !.signalled = pass.signalled \/ SignalsCaptured]
      BY <1>7 DEF CommitAbort
    <3>2. (pass.signalled \/ SignalsCaptured) \in BOOLEAN
      OBVIOUS
    <3>3. pass \in PassType
      BY DEF PassTypeOK
    <3> QED
      BY <3>1, <3>2, <3>3, PassUpdate
  <2>3. InboxTypeOK'
    BY <1>7 DEF CommitAbort, InboxTypeOK, Fates
  <2>4. OperationTypeOK' /\ PassTypeOK' /\ HostTypeOK'
    BY <1>7, <2>1, <2>2 DEF CommitAbort, OperationTypeOK, PassTypeOK, HostTypeOK
  <2> QED
    BY <1>7, <2>3, <2>4 DEF CommitAbort
<1>8. CASE ClearPass
  <2>1. PassTypeOK'
    BY <1>8 DEF ClearPass, ReleasePass, PassTypeOK, AllCalls, NothingRead, ExecType
  <2>2. HostTypeOK'
    BY <1>8 DEF ClearPass, ReleasePass, HostTypeOK, AbortType
  <2> QED
    BY <1>8, <2>1, <2>2 DEF ClearPass
<1>9. CASE Stop
  <2>1. PassTypeOK'
    BY <1>9 DEF Stop, PassTypeOK, AllCalls, NothingRead, ExecType
  <2>2. stops' \in 0 .. MaxStops
    BY <1>9 DEF Stop, HostTypeOK
  <2>3. HostTypeOK'
    BY <1>9, <2>2 DEF Stop, HostTypeOK
  <2> QED
    BY <1>9, <2>1, <2>3 DEF Stop
<1>10. CASE Restart
  <2>1. HostTypeOK'
    BY <1>10 DEF Restart, HostTypeOK
  <2> QED
    BY <1>10, <2>1 DEF Restart
<1> QED
  BY <1>1, <1>2, <1>3, <1>4, <1>5, <1>6, <1>7, <1>8, <1>9, <1>10 DEF HostStep

\* A step that only moves the pass keeps the types.
LEMMA MoveTypes ==
  ASSUME TypeOK, KeepDurable, KeepProcess, pass' \in PassType
  PROVE  TypeOK'
<1>1. PassTypeOK'
  BY DEF TypeOK, PassTypeOK, KeepProcess
<1> QED
  BY <1>1, KeepTypes DEF TypeOK, KeepDurable, KeepProcess

\* Going to a step, at the gate or not.
LEMMA GotoTypes ==
  ASSUME TypeOK, NEW pc \in PcType, Goto(pc) \/ Admit(pc)
  PROVE  pass' \in PassType
<1>1. pass \in PassType /\ "wait_cancel" \in PcType
  BY DEF TypeOK, PassTypeOK, PcType
<1>2. \A x \in PcType : [pass EXCEPT !.pc = x] \in PassType
  BY <1>1, PassUpdate
<1> QED
  BY <1>1, <1>2 DEF Goto, Admit

\* Releasing the pass.
LEMMA ReleaseTypes ==
  ASSUME TypeOK, ReleasePass, UNCHANGED <<up, turns, stops>>
  PROVE  PassTypeOK' /\ HostTypeOK'
<1>1. PassTypeOK'
  BY NullValues DEF ReleasePass, PassTypeOK, AllCalls, NothingRead, ExecType
<1>2. abort' \in AbortType
  BY DEF TypeOK, HostTypeOK, ReleasePass, AbortType
<1> QED
  BY <1>1, <1>2 DEF TypeOK, HostTypeOK

\* Moving the operation to another leaf.
LEMMA AdvanceTypes ==
  ASSUME TypeOK, NEW leaf \in Leaves, NEW continuation \in Continuations,
         NEW attempt \in 0 .. MaxAttempts, Advance(leaf, continuation, attempt)
  PROVE  op' \in OperationType
  BY OperationUpdate DEF TypeOK, OperationTypeOK, Advance

\* Settling an operation.
LEMMA SettleTypes ==
  ASSUME TypeOK, NEW status \in Statuses, Settle(status)
  PROVE  /\ OperationTypeOK' /\ BatchTypeOK' /\ ResponseTypeOK'
         /\ pass' \in PassType
<1>1. OperationTypeOK'
  BY NullValues DEF TypeOK, OperationTypeOK, Settle, Statuses
<1>2. BatchTypeOK'
  BY DEF TypeOK, BatchTypeOK, Settle, DropBatch, AllCalls, CallTypes
<1>3. frames' \subseteq {"current", "stale"}
  BY DEF TypeOK, ResponseTypeOK, Settle
<1>4. ResponseTypeOK'
  BY <1>3 DEF ResponseTypeOK, Settle
<1>5. pass' \in PassType
  BY DEF TypeOK, PassTypeOK, Settle, PassType, PcType, Responses
<1> QED
  BY <1>1, <1>2, <1>4, <1>5

\* The steps of a pass before its first procedure, and reconciliation.
LEMMA TypeDispatch ==
  ASSUME TypeOK, \/ BeforeDrive \/ DriveHookReturns \/ CancellationArrives
                 \/ DispatchCancelled \/ Reconcile
  PROVE  TypeOK'
<1>1. CASE BeforeDrive
  BY <1>1, MoveTypes, GotoTypes DEF BeforeDrive, PcType
<1>2. CASE DriveHookReturns
  BY <1>2, MoveTypes, GotoTypes DEF DriveHookReturns, PcType
<1>3. CASE CancellationArrives
  BY <1>3, MoveTypes, GotoTypes DEF CancellationArrives, PcType
<1>4. CASE DispatchCancelled
  <2>1. pass' \in PassType
    BY <1>4 DEF DispatchCancelled, TypeOK, PassTypeOK, PassType, PcType
  <2> QED
    BY <1>4, <2>1, MoveTypes DEF DispatchCancelled
<1>5. CASE Reconcile
  <2>1. CASE op.at \in EffectPending
    <3>1. pass' = [pass EXCEPT !.pc = "respond", !.response = "interrupted"]
      BY <1>5, <2>1 DEF Reconcile
    <3>2. "respond" \in PcType /\ "interrupted" \in Responses
      BY DEF PcType, Responses
    <3>3. pass' \in PassType
      BY <3>1, <3>2, PassUpdate DEF TypeOK, PassTypeOK
    <3> QED
      BY <1>5, <2>1, <3>3, MoveTypes DEF Reconcile
  <2>2. CASE op.at \notin EffectPending
    <3>1. PassTypeOK'
      BY <1>5, <2>2, SettleTypes DEF Reconcile, Statuses, TypeOK, PassTypeOK, KeepProcess
    <3> QED
      BY <1>5, <2>2, <3>1, SettleTypes, KeepTypes
      DEF Reconcile, Statuses, TypeOK, KeepProcess
  <2> QED
    BY <2>1, <2>2
<1> QED
  BY <1>1, <1>2, <1>3, <1>4, <1>5

\* The steps of startRun, runCheckpoint and finishRunBoundary.
LEMMA TypeBoundary ==
  ASSUME TypeOK, \/ StartRun \/ RunHookReturns \/ Checkpoint
                 \/ \E followUp \in BOOLEAN : EndHookReturns(followUp)
  PROVE  TypeOK'
<1>1. CASE StartRun
  BY <1>1, MoveTypes, GotoTypes DEF StartRun, PcType
<1>2. CASE RunHookReturns
  <2>1. CASE CancelSeen /\ KeepDurable
    BY <1>2, <2>1, MoveTypes, GotoTypes DEF RunHookReturns, CancelSeen, PcType
  <2>2. CASE ~(CancelSeen /\ KeepDurable)
    <3>1. pass' \in PassType
      BY <1>2, <2>2, GotoTypes DEF RunHookReturns, PcType
    <3>2. op' \in OperationType
      BY <1>2, <2>2, AdvanceTypes DEF RunHookReturns, Leaves, Continuations
    <3>3. OperationTypeOK' /\ PassTypeOK'
      BY <1>2, <2>2, <3>1, <3>2
      DEF RunHookReturns, TypeOK, OperationTypeOK, PassTypeOK, KeepProcess
    <3> QED
      BY <1>2, <2>2, <3>3, KeepTypes DEF RunHookReturns, TypeOK, KeepProcess
  <2> QED
    BY <2>1, <2>2
<1>3. CASE Checkpoint
  <2>1. CASE KeepDurable
    <3>1. pass' \in PassType
      <4>1. SelectAtBoundary(op.cont = "may_finish") \in SUBSET Items
        BY DEF SelectAtBoundary, Writes, QueuedAs, Queued, Pick, Oldest
      <4>2. PICK plan \in SUBSET Items :
              \/ Goto("dispatch") \/ Goto("wait_cancel")
              \/ pass' = [pass EXCEPT !.pc = "end_hook", !.plan = plan]
        BY <1>3, <4>1 DEF Checkpoint
      <4>3. {"dispatch", "wait_cancel", "end_hook"} \subseteq PcType
        BY DEF PcType
      <4>4. CASE pass' = [pass EXCEPT !.pc = "end_hook", !.plan = plan]
        BY <4>3, <4>4, PassUpdate DEF TypeOK, PassTypeOK
      <4> QED
        BY <4>2, <4>3, <4>4, GotoTypes
    <3> QED
      BY <1>3, <2>1, <3>1, MoveTypes DEF Checkpoint
  <2>2. CASE ~KeepDurable
    <3>1. pass' \in PassType
      BY <1>3, <2>2, GotoTypes DEF Checkpoint, PcType
    <3>2. op' \in OperationType
      BY <1>3, <2>2, AdvanceTypes DEF Checkpoint, ReadyForAssistant, Leaves, Continuations
    <3>3. OperationTypeOK' /\ PassTypeOK'
      BY <1>3, <2>2, <3>1, <3>2
      DEF Checkpoint, TypeOK, OperationTypeOK, PassTypeOK, KeepProcess
    <3>4. InboxTypeOK'
      BY <1>3, <2>2, DeliverTypes DEF Checkpoint, TypeOK
    <3> QED
      BY <1>3, <2>2, <3>3, <3>4, KeepTypes DEF Checkpoint, TypeOK, KeepProcess
  <2> QED
    BY <2>1, <2>2
<1>4. ASSUME NEW followUp \in BOOLEAN, EndHookReturns(followUp)
      PROVE  TypeOK'
  <2>1. turns' \in 0 .. MaxTurns
    BY <1>4 DEF EndHookReturns, TypeOK, HostTypeOK
  <2>2. HostTypeOK'
    BY <1>4, <2>1 DEF EndHookReturns, TypeOK, HostTypeOK
  <2>3. CASE CancelSeen /\ KeepDurable
    <3>1. pass' \in PassType
      BY <2>3, GotoTypes DEF CancelSeen, PcType
    <3>2. PassTypeOK'
      BY <1>4, <3>1 DEF EndHookReturns, TypeOK, PassTypeOK
    <3> QED
      BY <2>2, <2>3, <3>2, KeepTypes DEF TypeOK, KeepDurable
  <2>4. CASE /\ ReadyForAssistant /\ Deliver(FinalPlan)
             /\ pass' = [pass EXCEPT !.pc = "dispatch", !.plan = {}]
             /\ UNCHANGED <<accepted, results, batchVars, responseVars, ran>>
    <3>1. op' \in OperationType
      BY <2>4, AdvanceTypes DEF ReadyForAssistant, Leaves, Continuations
    <3>2. pass' \in PassType
      BY <2>4 DEF TypeOK, PassTypeOK, PassType, PcType
    <3>3. OperationTypeOK' /\ PassTypeOK'
      BY <1>4, <2>4, <3>1, <3>2 DEF EndHookReturns, TypeOK, OperationTypeOK, PassTypeOK
    <3>4. InboxTypeOK'
      BY <2>4, DeliverTypes DEF TypeOK
    <3> QED
      BY <2>2, <2>4, <3>3, <3>4, KeepTypes DEF TypeOK
  <2>5. CASE Settle("completed") /\ Deliver(FinalPlan)
    <3>1. InboxTypeOK'
      BY <2>5, DeliverTypes DEF TypeOK
    <3>2. PassTypeOK'
      BY <1>4, <2>5, SettleTypes DEF EndHookReturns, Statuses, TypeOK, PassTypeOK
    <3> QED
      BY <2>2, <2>5, <3>1, <3>2, SettleTypes DEF TypeOK, Statuses
  <2> QED
    BY <1>4, <2>3, <2>4, <2>5 DEF EndHookReturns
<1> QED
  BY <1>1, <1>2, <1>3, <1>4

\* The steps that prepare, make and answer a request.
LEMMA TypeRequest ==
  ASSUME TypeOK,
         \/ PrepareGeneration \/ ConfigurationFailure \/ PublishGenerationIntent
         \/ PrepareDeferredPoll \/ PublishPollIntent \/ CallProvider \/ StreamFrame
         \/ RecoverGeneration
         \/ \E reply \in Replies \union {"aborted"} : ProviderAnswers(reply)
  PROVE  TypeOK'
<1>1. CASE PrepareGeneration
  BY <1>1, MoveTypes, GotoTypes DEF PrepareGeneration, PcType
<1>2. CASE ConfigurationFailure
  <2>1. PassTypeOK'
    BY <1>2, SettleTypes DEF ConfigurationFailure, Statuses, TypeOK, PassTypeOK, KeepProcess
  <2> QED
    BY <1>2, <2>1, SettleTypes, KeepTypes DEF ConfigurationFailure, Statuses, TypeOK, KeepProcess
<1>3. CASE PublishGenerationIntent
  <2>1. CASE CancelSeen /\ KeepDurable
    BY <1>3, <2>1, MoveTypes, GotoTypes DEF PublishGenerationIntent, CancelSeen, PcType
  <2>2. CASE ~(CancelSeen /\ KeepDurable)
    <3>1. pass' \in PassType
      BY <1>3, <2>2, GotoTypes DEF PublishGenerationIntent, PcType
    <3>2. op' \in OperationType
      BY <1>3, <2>2, AdvanceTypes, Fields DEF PublishGenerationIntent, Leaves
    <3>3. OperationTypeOK' /\ PassTypeOK'
      BY <1>3, <2>2, <3>1, <3>2
      DEF PublishGenerationIntent, TypeOK, OperationTypeOK, PassTypeOK, KeepProcess
    <3>4. ResponseTypeOK'
      BY <1>3, <2>2 DEF PublishGenerationIntent, ReserveResponse, TypeOK, ResponseTypeOK
    <3> QED
      BY <1>3, <2>2, <3>3, <3>4, KeepTypes DEF PublishGenerationIntent, TypeOK, KeepProcess
  <2> QED
    BY <2>1, <2>2
<1>4. CASE PrepareDeferredPoll
  <2>1. CASE pass.permit
    BY <1>4, <2>1, MoveTypes, GotoTypes DEF PrepareDeferredPoll, PcType
  <2>2. CASE ~pass.permit
    BY <1>4, <2>2, ReleaseTypes, KeepTypes DEF PrepareDeferredPoll, TypeOK, KeepDurable
  <2> QED
    BY <2>1, <2>2
<1>5. CASE PublishPollIntent
  <2>1. CASE CancelSeen /\ KeepDurable
    BY <1>5, <2>1, MoveTypes, GotoTypes DEF PublishPollIntent, CancelSeen, PcType
  <2>2. CASE ~(CancelSeen /\ KeepDurable)
    <3>1. pass' \in PassType
      BY <1>5, <2>2 DEF PublishPollIntent, TypeOK, PassTypeOK, PassType, PcType
    <3>2. op' \in OperationType
      BY <1>5, <2>2, OperationUpdate DEF PublishPollIntent, TypeOK, OperationTypeOK, Leaves
    <3>3. OperationTypeOK' /\ PassTypeOK'
      BY <1>5, <2>2, <3>1, <3>2
      DEF PublishPollIntent, TypeOK, OperationTypeOK, PassTypeOK, KeepProcess
    <3>4. ResponseTypeOK'
      BY <1>5, <2>2 DEF PublishPollIntent, ReserveResponse, TypeOK, ResponseTypeOK
    <3> QED
      BY <1>5, <2>2, <3>3, <3>4, KeepTypes DEF PublishPollIntent, TypeOK, KeepProcess
  <2> QED
    BY <2>1, <2>2
<1>6. CASE CallProvider
  <2>1. pass' \in PassType
    BY <1>6, GotoTypes DEF CallProvider, PcType
  <2>2. PassTypeOK'
    BY <1>6, <2>1 DEF CallProvider, TypeOK, PassTypeOK, KeepProcess
  <2>3. sent' \in BOOLEAN
    BY <1>6, Fields DEF CallProvider, TypeOK, ResponseTypeOK
  <2>4. ResponseTypeOK'
    BY <1>6, <2>3 DEF CallProvider, TypeOK, ResponseTypeOK
  <2> QED
    BY <1>6, <2>2, <2>4, KeepTypes DEF CallProvider, TypeOK, KeepProcess
<1>7. CASE StreamFrame
  <2>1. ResponseTypeOK'
    BY <1>7 DEF StreamFrame, TypeOK, ResponseTypeOK
  <2>2. PassTypeOK'
    BY <1>7 DEF StreamFrame, TypeOK, PassTypeOK, KeepProcess
  <2> QED
    BY <1>7, <2>1, <2>2, KeepTypes DEF StreamFrame, TypeOK, KeepProcess
<1>8. CASE RecoverGeneration
  <2>1. pass' \in PassType
    BY <1>8 DEF RecoverGeneration, TypeOK, PassTypeOK, PassType, PcType, Responses
  <2> QED
    BY <1>8, <2>1, MoveTypes DEF RecoverGeneration
<1>9. ASSUME NEW reply \in Replies \union {"aborted"}, ProviderAnswers(reply)
      PROVE  TypeOK'
  <2>1. pass' \in PassType
    BY <1>9 DEF ProviderAnswers, TypeOK, PassTypeOK, PassType, PcType, Responses
  <2>2. PassTypeOK'
    BY <1>9, <2>1 DEF ProviderAnswers, TypeOK, PassTypeOK
  <2>3. turns' \in 0 .. MaxTurns
    <3>1. turns' = turns \/ (turns < MaxTurns /\ turns' = turns + 1)
      BY <1>9, Zenon DEF ProviderAnswers
    <3> QED
      BY <3>1 DEF TypeOK, HostTypeOK
  <2>4. HostTypeOK'
    BY <1>9, <2>3 DEF ProviderAnswers, TypeOK, HostTypeOK
  <2> QED
    BY <1>9, <2>2, <2>4, KeepTypes DEF ProviderAnswers, TypeOK, KeepDurable
<1> QED
  BY <1>1, <1>2, <1>3, <1>4, <1>5, <1>6, <1>7, <1>8, <1>9

\* The settlement of a response, and the wait for a retry.
LEMMA TypeResponse ==
  ASSUME TypeOK, PublishResponse \/ RetryWait \/ TimerEnds \/ StartRetry \/ TimePasses
  PROVE  TypeOK'
<1>1. CASE PublishResponse
  <2>1. CASE Settle("failed")
    <3>1. PassTypeOK'
      BY <1>1, <2>1, SettleTypes DEF PublishResponse, Statuses, TypeOK, PassTypeOK, KeepProcess
    <3> QED
      BY <1>1, <2>1, <3>1, SettleTypes, KeepTypes
      DEF PublishResponse, Statuses, TypeOK, KeepProcess
  <2>2. CASE ~Settle("failed")
    <3> DEFINE answered == op.cancelled \/ pass.response = "stop"
    <3>1. op' \in OperationType
      <4>1. CASE answered
        BY <1>1, <2>2, <4>1, AdvanceTypes DEF PublishResponse, Leaves, Continuations
      <4>2. CASE ~answered /\ Retries
        <5>1. op.attempt + 1 \in 0 .. MaxAttempts
          BY <4>2, Fields DEF Retries
        <5> QED
          BY <1>1, <2>2, <4>2, <5>1, AdvanceTypes, Fields DEF PublishResponse, Leaves
      <4>3. CASE ~answered /\ ~Retries
        BY <1>1, <2>2, <4>3, AdvanceTypes, Fields DEF PublishResponse, Leaves
      <4> QED
        BY <4>1, <4>2, <4>3
    <3>2. pass' \in PassType
      <4>1. pass' = [pass EXCEPT !.pc = "dispatch", !.response = "none"]
        BY <1>1, <2>2 DEF PublishResponse
      <4> QED
        BY <4>1 DEF TypeOK, PassTypeOK, PassType, PcType, Responses
    <3>3. OperationTypeOK' /\ PassTypeOK'
      BY <1>1, <2>2, <3>1, <3>2
      DEF PublishResponse, TypeOK, OperationTypeOK, PassTypeOK, KeepProcess
    <3>4. frames' \subseteq {"current", "stale"}
      BY <1>1, <2>2 DEF PublishResponse, TypeOK, ResponseTypeOK
    <3>5. ResponseTypeOK'
      BY <1>1, <2>2, <3>4 DEF PublishResponse, ResponseTypeOK
    <3>6. calls' \in [Calls -> CallTypes]
      BY <1>1, <2>2 DEF PublishResponse, TypeOK, BatchTypeOK, PlanBatch, CallTypes
    <3>7. BatchTypeOK'
      BY <1>1, <2>2, <3>6 DEF PublishResponse, TypeOK, BatchTypeOK
    <3> QED
      BY <1>1, <3>3, <3>5, <3>7, KeepTypes DEF PublishResponse, TypeOK, KeepProcess
  <2> QED
    BY <2>1, <2>2
<1>2. CASE RetryWait
  <2>1. CASE ReleasePass /\ UNCHANGED <<up, turns, stops>>
    BY <1>2, <2>1, ReleaseTypes, KeepTypes DEF RetryWait, TypeOK, KeepDurable
  <2>2. CASE ~(ReleasePass /\ UNCHANGED <<up, turns, stops>>)
    BY <1>2, <2>2, MoveTypes, GotoTypes DEF RetryWait, PcType
  <2> QED
    BY <2>1, <2>2
<1>3. CASE TimerEnds
  BY <1>3, MoveTypes, GotoTypes DEF TimerEnds, PcType
<1>4. CASE StartRetry
  <2>1. CASE CancelSeen /\ KeepDurable
    BY <1>4, <2>1, MoveTypes, GotoTypes DEF StartRetry, CancelSeen, PcType
  <2>2. CASE ~(CancelSeen /\ KeepDurable)
    <3>1. pass' \in PassType
      BY <1>4, <2>2, GotoTypes DEF StartRetry, PcType
    <3>2. op' \in OperationType
      BY <1>4, <2>2, AdvanceTypes, Fields DEF StartRetry, Leaves
    <3>3. OperationTypeOK' /\ PassTypeOK'
      BY <1>4, <2>2, <3>1, <3>2
      DEF StartRetry, TypeOK, OperationTypeOK, PassTypeOK, KeepProcess
    <3> QED
      BY <1>4, <2>2, <3>3, KeepTypes DEF StartRetry, TypeOK, KeepProcess
  <2> QED
    BY <2>1, <2>2
<1>5. CASE TimePasses
  <2>1. ResponseTypeOK'
    BY <1>5 DEF TimePasses, TypeOK, ResponseTypeOK
  <2> QED
    BY <1>5, <2>1, KeepTypes DEF TimePasses, TypeOK
<1> QED
  BY <1>1, <1>2, <1>3, <1>4, <1>5

\* Entering a tool batch, and one command of a placement.
LEMMA PlacementTypes ==
  ASSUME TypeOK, NEW r \in Readers, CommitPlacement(r)
  PROVE  /\ OperationTypeOK' /\ BatchTypeOK'
         /\ placing' \in [Readers -> SUBSET Calls]
<1>1. op' \in OperationType
  BY DEF CommitPlacement, CloseBatch, TypeOK, OperationTypeOK, OperationType,
         Leaves, Continuations
<1>2. OperationTypeOK'
  BY <1>1 DEF CommitPlacement, TypeOK, OperationTypeOK
<1>3. Placed(placing[r]) \in [Calls -> CallTypes]
  BY DEF Placed, TypeOK, BatchTypeOK, CallTypes, Done
<1>4. calls' \in [Calls -> CallTypes]
  BY <1>3 DEF CommitPlacement, CloseBatch, AllCalls, CallTypes
<1>5. BatchTypeOK'
  BY <1>4 DEF CommitPlacement, CloseBatch, TypeOK, BatchTypeOK
<1>6. placing' \in [Readers -> SUBSET Calls]
  BY DEF CommitPlacement, TypeOK, PassTypeOK
<1> QED
  BY <1>2, <1>5, <1>6

\* Entering and leaving a batch.
LEMMA TypeBatch ==
  ASSUME TypeOK, EnterTools \/ PlaceLeftovers \/ LeaveTools
  PROVE  TypeOK'
<1>1. ReadyPrefix \subseteq Calls /\ 0 \in Readers
  BY DEF ReadyPrefix, Batch, Readers
<1>2. CASE EnterTools
  <2>1. pass' \in PassType
    BY <1>2 DEF EnterTools, TypeOK, PassTypeOK, PassType, PcType
  <2>2. PassTypeOK'
    BY <1>1, <1>2, <2>1 DEF EnterTools, TypeOK, PassTypeOK
  <2> QED
    BY <1>2, <2>2, KeepTypes DEF EnterTools, TypeOK, KeepLane, KeepBatch
<1>3. CASE PlaceLeftovers
  <2>1. pass' \in PassType
    BY <1>3, Fields DEF PlaceLeftovers, TypeOK, PassTypeOK, PassType, PcType
  <2>2. placing' \in [Readers -> SUBSET Calls]
    BY <1>1, <1>3, PlacementTypes DEF PlaceLeftovers, TypeOK, PassTypeOK
  <2>3. PassTypeOK'
    BY <1>3, <2>1, <2>2 DEF PlaceLeftovers, TypeOK, PassTypeOK
  <2>4. CASE placing[0] = {}
    BY <1>3, <2>3, <2>4, KeepTypes DEF PlaceLeftovers, TypeOK, KeepLane, KeepBatch
  <2>5. CASE placing[0] # {}
    BY <1>1, <1>3, <2>3, <2>5, PlacementTypes, KeepTypes
    DEF PlaceLeftovers, CommitPlacement, TypeOK
  <2> QED
    BY <2>4, <2>5
<1>4. CASE LeaveTools
  <2>1. pass' \in PassType
    BY <1>4 DEF LeaveTools, TypeOK, PassTypeOK, PassType, PcType
  <2>2. PassTypeOK'
    BY <1>4, <2>1 DEF LeaveTools, TypeOK, PassTypeOK, AllCalls, ExecType
  <2> QED
    BY <1>4, <2>2, KeepTypes DEF LeaveTools, TypeOK, KeepLane, KeepBatch
<1> QED
  BY <1>2, <1>3, <1>4

\* An invocation moves on and leaves the rest of the pass alone.
LEMMA ExecTypes ==
  ASSUME TypeOK, NEW c \in Calls, NEW state \in ExecType, Move(c, state)
  PROVE  exec' \in [Calls -> ExecType]
  BY DEF TypeOK, PassTypeOK, Move

\* The steps of one invocation.
LEMMA TypeInvocation ==
  ASSUME TypeOK, NEW c \in Calls, InvocationStep(c)
  PROVE  TypeOK'
<1> USE DEF ExecType
<1>1. CASE StartPlanned(c) \/ RefusePlanned(c) \/ RecoverCall(c)
             \/ \E cleared \in BOOLEAN : ToolHookReturns(c, cleared)
             \/ \E terminate \in BOOLEAN : ToolReturns(c, terminate)
  <2>1. exec' \in [Calls -> ExecType]
    BY <1>1, ExecTypes
    DEF StartPlanned, RefusePlanned, RecoverCall, ToolHookReturns, ToolReturns
  <2>2. KeepLane /\ KeepBatch /\ UNCHANGED <<pass, placing, hostVars>>
    BY <1>1 DEF StartPlanned, RefusePlanned, RecoverCall, ToolHookReturns, ToolReturns
  <2>3. PassTypeOK'
    BY <2>1, <2>2 DEF TypeOK, PassTypeOK
  <2> QED
    BY <2>2, <2>3, KeepTypes DEF TypeOK, KeepLane, KeepBatch
<1>2. ASSUME NEW replay \in Pending, PublishToolIntent(c, replay) PROVE TypeOK'
  <2>1. exec' \in [Calls -> ExecType]
    BY <1>2, ExecTypes DEF PublishToolIntent
  <2>2. PassTypeOK'
    BY <1>2, <2>1 DEF PublishToolIntent, TypeOK, PassTypeOK
  <2>3. BatchTypeOK'
    BY <1>2 DEF PublishToolIntent, TypeOK, BatchTypeOK, KeepBatch, batchVars,
                CallTypes, Pending
  <2> QED
    BY <1>2, <2>2, <2>3, KeepTypes DEF PublishToolIntent, TypeOK, KeepLane
<1>3. CASE ClearReplayCheckpoint(c)
  <2>1. exec' \in [Calls -> ExecType]
    BY <1>3, ExecTypes DEF ClearReplayCheckpoint
  <2>2. PassTypeOK'
    BY <1>3, <2>1 DEF ClearReplayCheckpoint, TypeOK, PassTypeOK
  <2>3. BatchTypeOK'
    BY <1>3 DEF ClearReplayCheckpoint, TypeOK, BatchTypeOK
  <2> QED
    BY <1>3, <2>2, <2>3, KeepTypes DEF ClearReplayCheckpoint, TypeOK, KeepLane
<1>4. CASE InvokeTool(c)
  <2>1. exec' \in [Calls -> ExecType]
    BY <1>4, ExecTypes DEF InvokeTool
  <2>2. PassTypeOK'
    BY <1>4, <2>1 DEF InvokeTool, TypeOK, PassTypeOK
  <2>3. BatchTypeOK'
    BY <1>4 DEF InvokeTool, TypeOK, BatchTypeOK, batchVars
  <2> QED
    BY <1>4, <2>2, <2>3, KeepTypes DEF InvokeTool, TypeOK, KeepLane
<1>5. CASE WriteScratch(c)
  <2>1. BatchTypeOK'
    BY <1>5 DEF WriteScratch, TypeOK, BatchTypeOK
  <2> QED
    BY <1>5, <2>1, KeepTypes DEF WriteScratch, TypeOK, KeepLane
<1>6. CASE PublishToolOutcome(c)
  <2>1. exec' \in [Calls -> ExecType]
    BY <1>6, ExecTypes DEF PublishToolOutcome
  <2>2. PassTypeOK'
    BY <1>6, <2>1 DEF PublishToolOutcome, TypeOK, PassTypeOK
  <2>3. BatchTypeOK'
    BY <1>6 DEF PublishToolOutcome, TypeOK, BatchTypeOK, CallTypes, Ready
  <2> QED
    BY <1>6, <2>2, <2>3, KeepTypes DEF PublishToolOutcome, TypeOK, KeepLane
<1>7. CASE ReadPlacement(c)
  <2>1. exec' \in [Calls -> ExecType]
    BY <1>7, ExecTypes DEF ReadPlacement
  <2>2. PassTypeOK'
    BY <1>7, <2>1 DEF ReadPlacement, ReadyPrefix, Batch, TypeOK, PassTypeOK
  <2> QED
    BY <1>7, <2>2, KeepTypes DEF ReadPlacement, TypeOK, KeepLane, KeepBatch
<1>8. CASE PlaceResults(c)
  <2>1. exec' \in [Calls -> ExecType] /\ c \in Readers
    BY <1>8, ExecTypes DEF PlaceResults, Calls, Readers
  <2>2. PassTypeOK'
    BY <1>8, <2>1, PlacementTypes DEF PlaceResults, TypeOK, PassTypeOK
  <2> QED
    BY <1>8, <2>1, <2>2, PlacementTypes, KeepTypes DEF PlaceResults, CommitPlacement, TypeOK
<1> QED
  BY <1>1, <1>2, <1>3, <1>4, <1>5, <1>6, <1>7, <1>8 DEF InvocationStep

\* Every variable always holds a value of its kind, whatever commands,
\* procedures, stops and restarts follow one another; in particular the number
\* of an attempt never exceeds the retry policy's.
THEOREM TypeCorrect == Spec => []TypeOK
<1>1. TypeOK /\ UNCHANGED vars => TypeOK'
  BY KeepTypes DEF TypeOK, vars
<1>2. TypeOK /\ Next => TypeOK'
  BY TypeCommands, TypeDispatch, TypeBoundary, TypeRequest, TypeResponse,
     TypeBatch, TypeInvocation
  DEF Next, PassStep, HookStep, ProviderStep, ProcedureStep, ToolStep
<1> QED
  BY <1>1, <1>2, TypeInit, PTL DEF Spec

=============================================================================
