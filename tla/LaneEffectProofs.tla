---------------------------- MODULE LaneEffectProofs ----------------------------
(****************************************************************************)
(* Requests are sent once, tools run once and wait their turn, and results  *)
(* are placed once and in order: the inductive invariant EffectInvariant,   *)
(* and what follows.  On top of it StoresInvariant: what is stored beside   *)
(* the operation is what its leaf and its calls say, so nothing is left     *)
(* behind and no check of the procedures fails.                             *)
(****************************************************************************)
EXTENDS LaneGateProofs

----------------------------------------------------------------------------
(* Outside a tool batch.                                                    *)

\* No call is being invoked and no result is waiting for placement.
LEMMA NothingReadOutside ==
  ASSUME TypeOK, GateInvariant, EffectInvariant, pass.pc \notin {"tools", "tools_place"}
  PROVE  exec = AllCalls("idle") /\ placing = NothingRead
<1>1. exec = AllCalls("idle")
  BY DEF GateInvariant, PassIsOwned
<1>2. \A r \in Readers : placing[r] = {}
  BY <1>1 DEF EffectInvariant, PlacementsAreChained, AllCalls, Readers, Calls
<1> QED
  BY <1>1, <1>2 DEF TypeOK, PassTypeOK, NothingRead

\* What the invariant says of a pass that has no tools under way.
LEMMA IdleFrame ==
  ASSUME TypeOK', exec' = AllCalls("idle"), placing' = NothingRead,
         pass'.pc = "call" => ~sent',
         \A c \in ran' : calls'[c] \notin {"none", "planned"},
         op'.id = 0 \/ op'.at # "tools" => calls' = AllCalls("none"),
         \A c \in Calls : calls'[c] # "none" => \A d \in 1 .. c : calls'[d] # "none"
  PROVE  EffectInvariant'
<1>1. \A c \in Calls : exec'[c] = "idle"
  BY DEF AllCalls
<1>2. \A r \in Readers : placing'[r] = {}
  BY DEF NothingRead
<1>3. NothingIsRepeated'
  <2>1. \A c \in Calls : calls'[c] \in CallTypes
    BY DEF TypeOK, BatchTypeOK
  <2>2. ran' \subseteq Calls
    BY DEF TypeOK, BatchTypeOK
  <2> QED
    BY <1>1, <2>1, <2>2 DEF NothingIsRepeated, CallOf
<1>4. PlacementsAreChained'
  <2>1. 0 \in Readers /\ Calls \subseteq Readers
    BY BoundsAssumption DEF Readers, Calls
  <2> QED
    BY <1>1, <1>2, <2>1 DEF PlacementsAreChained
<1>5. PlacementIsCurrent' /\ PlacementsFollowOrder'
  BY <1>2 DEF PlacementIsCurrent, PlacementsFollowOrder
<1> QED
  BY <1>3, <1>4, <1>5 DEF EffectInvariant

\* Steps that leave the batch alone.
LEMMA BatchFrame ==
  ASSUME TypeOK', EffectInvariant, UNCHANGED <<calls, ran>>,
         exec' = AllCalls("idle"), placing' = NothingRead,
         pass'.pc = "call" => ~sent',
         op'.id = 0 \/ op'.at # "tools" => op.id = 0 \/ op.at # "tools"
  PROVE  EffectInvariant'
<1>1. \A c \in ran' : calls'[c] \notin {"none", "planned"}
  BY DEF EffectInvariant, NothingIsRepeated
<1>2. op'.id = 0 \/ op'.at # "tools" => calls' = AllCalls("none")
  BY DEF EffectInvariant, NothingIsRepeated
<1>3. \A c \in Calls : calls'[c] # "none" => \A d \in 1 .. c : calls'[d] # "none"
  BY DEF EffectInvariant, PlacementsFollowOrder
<1> QED
  BY <1>1, <1>2, <1>3, IdleFrame

\* Steps that drop the batch.
LEMMA DropFrame ==
  ASSUME TypeOK', calls' = AllCalls("none"), ran' = {},
         exec' = AllCalls("idle"), placing' = NothingRead,
         pass'.pc = "call" => ~sent'
  PROVE  EffectInvariant'
<1>1. \A c \in Calls : calls'[c] = "none"
  BY DEF AllCalls
<1> QED
  BY <1>1, IdleFrame

\* The invariant does not depend on the other variables.
LEMMA EffectStutter ==
  ASSUME EffectInvariant, UNCHANGED <<sent, calls, ran, exec, placing>>,
         pass'.pc = pass.pc, op'.id = op.id, op'.at = op.at
  PROVE  EffectInvariant'
<1>1. \A c \in Calls : CallOf(c)' = CallOf(c)
  BY DEF CallOf
<1>2. NothingIsRepeated' /\ PlacementsAreChained'
  BY <1>1 DEF EffectInvariant, NothingIsRepeated, PlacementsAreChained
<1>3. PlacementIsCurrent' /\ PlacementsFollowOrder'
  BY DEF EffectInvariant, PlacementIsCurrent, PlacementsFollowOrder
<1> QED
  BY <1>2, <1>3 DEF EffectInvariant

\* Commands, stops and restarts.
LEMMA EffectCommands ==
  ASSUME TypeOK, TypeOK', GateInvariant, EffectInvariant,
         HostStep \/ CommitAbort \/ ClearPass \/ Stop \/ Restart \/ TimePasses
  PROVE  EffectInvariant'
<1>1. ASSUME NEW p \in BOOLEAN, AcceptRun(p) PROVE EffectInvariant'
  <2>1. pass.pc \notin {"tools", "tools_place"} /\ UNCHANGED pass
    BY <1>1 DEF AcceptRun, Idle, passVars, GateInvariant, PassIsOwned, Driving
  <2>2. UNCHANGED <<calls, ran, exec, placing, sent>> /\ op.id = 0
    BY <1>1 DEF AcceptRun, Idle, batchVars, passVars, responseVars
  <2>3. pass'.pc = "call" => ~sent'
    BY <2>1, <2>2 DEF EffectInvariant, NothingIsRepeated
  <2> QED
    BY <2>1, <2>2, <2>3, NothingReadOutside, BatchFrame
<1>2. ASSUME UNCHANGED <<op, pass, sent, calls, ran, exec, placing>>
      PROVE  EffectInvariant'
  BY <1>2, EffectStutter
<1>3. ASSUME \/ \E i \in Items, k \in Kinds : Enqueue(i, k) \/ Append(i, k)
             \/ \E i \in Items : CancelQueued(i)
             \/ Restart \/ TimePasses
      PROVE  UNCHANGED <<op, pass, sent, calls, ran, exec, placing>>
  BY <1>3 DEF Enqueue, Append, Appended, CancelQueued, Restart, TimePasses,
              operationVars, passVars, batchVars, responseVars
<1>4. ASSUME NEW id \in Ops, NEW claimed \in BOOLEAN, RequestAbort(id, claimed)
      PROVE  EffectInvariant'
  <2>1. UNCHANGED <<op, sent, calls, ran, exec, placing>> /\ pass'.pc = pass.pc
    BY <1>4 DEF RequestAbort, operationVars, batchVars, responseVars,
                TypeOK, PassTypeOK, PassType
  <2> QED
    BY <2>1, EffectStutter
<1>5. CASE CommitAbort
  <2>1. UNCHANGED <<sent, calls, ran, exec, placing>> /\ pass'.pc = pass.pc
    BY <1>5 DEF CommitAbort, batchVars, responseVars, TypeOK, PassTypeOK, PassType
  <2>2. op'.id = op.id /\ op'.at = op.at
    BY <1>5 DEF CommitAbort, TypeOK, OperationTypeOK, OperationType
  <2> QED
    BY <2>1, <2>2, EffectStutter
<1>6. ASSUME NEW policy \in Policies, InstallPass(policy) PROVE EffectInvariant'
  <2>1. /\ UNCHANGED <<op, calls, ran, exec, placing>>
        /\ pass.pc = "off" /\ pass'.pc = "begin"
    BY <1>6 DEF InstallPass, operationVars, batchVars, NoPass
  <2> QED
    BY <2>1, NothingReadOutside, BatchFrame
<1>7. CASE ClearPass \/ Stop
  <2>1. /\ UNCHANGED <<op, calls, ran>> /\ pass' = NoPass
        /\ exec' = AllCalls("idle") /\ placing' = NothingRead
    BY <1>7 DEF ClearPass, ReleasePass, Stop, operationVars, batchVars
  <2>2. pass'.pc = "off"
    BY <2>1 DEF NoPass
  <2> QED
    BY <2>1, <2>2, BatchFrame
<1> QED
  BY <1>1, <1>2, <1>3, <1>4, <1>5, <1>6, <1>7 DEF HostStep

\* Procedures of a pass.
LEMMA EffectProcedures ==
  ASSUME TypeOK, TypeOK', GateInvariant, EffectInvariant,
         HookStep \/ ProviderStep \/ ProcedureStep
  PROVE  EffectInvariant'
<1>1. pass.pc \notin {"tools", "tools_place"}
  BY DEF HookStep, DriveHookReturns, RunHookReturns, EndHookReturns,
     PublishGenerationIntent, PublishPollIntent, ProviderStep, ProviderAnswers,
     StreamFrame, ProcedureStep, BeforeDrive, CancellationArrives, DispatchCancelled,
     Reconcile, StartRun, Checkpoint, PrepareGeneration, ConfigurationFailure,
     PrepareDeferredPoll, CallProvider, RecoverGeneration, PublishResponse,
     RetryWait, TimerEnds, StartRetry, Command, Pass
<1>2. exec' = AllCalls("idle") /\ placing' = NothingRead
  <2>1. \/ UNCHANGED <<exec, placing>>
        \/ exec' = AllCalls("idle") /\ placing' = NothingRead
    BY DEF HookStep, DriveHookReturns, RunHookReturns, EndHookReturns,
       PublishGenerationIntent, PublishPollIntent, ProviderStep, ProviderAnswers,
       StreamFrame, ProcedureStep, BeforeDrive, CancellationArrives, DispatchCancelled,
       Reconcile, StartRun, Checkpoint, PrepareGeneration, ConfigurationFailure,
       PrepareDeferredPoll, CallProvider, RecoverGeneration, PublishResponse,
       RetryWait, TimerEnds, StartRetry, ReleasePass, KeepProcess
  <2> QED
    BY <1>1, <2>1, NothingReadOutside
<1>3. ASSUME KeepDurable, pass'.pc # "call" PROVE EffectInvariant'
  BY <1>2, <1>3, BatchFrame DEF KeepDurable, operationVars, batchVars
<1>4. ASSUME UNCHANGED <<calls, ran>>, op.at # "tools", pass'.pc # "call"
      PROVE  EffectInvariant'
  BY <1>2, <1>4, BatchFrame
<1>5. ASSUME NEW status, Settle(status) PROVE EffectInvariant'
  <2>1. pass'.pc = "ending" /\ calls' = AllCalls("none") /\ ran' = {}
    BY <1>5 DEF Settle, DropBatch, TypeOK, PassTypeOK, PassType
  <2> QED
    BY <1>2, <2>1, DropFrame
<1>6. ASSUME KeepDurable, NEW pc \in PcType \ {"call"}, Goto(pc) \/ Admit(pc)
      PROVE  EffectInvariant'
  <2>1. pass'.pc # "call"
    BY <1>6, GotoFields DEF Admit, Goto
  <2> QED
    BY <1>3, <1>6, <2>1
<1>7. ASSUME NEW pc \in PcType \ {"call"}, Goto(pc), UNCHANGED <<calls, ran>>,
             op.at # "tools"
      PROVE  EffectInvariant'
  BY <1>4, <1>7, GotoFields
<1>8. CASE \/ DriveHookReturns \/ BeforeDrive \/ CancellationArrives \/ StartRun
           \/ PrepareGeneration \/ TimerEnds
  BY <1>6, <1>8 DEF DriveHookReturns, BeforeDrive, CancellationArrives, StartRun,
     PrepareGeneration, TimerEnds, PcType
<1>9. CASE RunHookReturns \/ StartRetry
  BY <1>6, <1>7, <1>9
  DEF RunHookReturns, StartRetry, CancelSeen, Command, PcType, batchVars
<1>10. ASSUME NEW followUp \in BOOLEAN, EndHookReturns(followUp)
       PROVE  EffectInvariant'
  <2>1. CASE CancelSeen /\ KeepDurable
    BY <1>6, <2>1 DEF CancelSeen, PcType
  <2>2. CASE /\ pass' = [pass EXCEPT !.pc = "dispatch", !.plan = {}]
             /\ UNCHANGED <<calls, ran>>
    <3>1. pass'.pc = "dispatch"
      BY <2>2 DEF TypeOK, PassTypeOK, PassType
    <3> QED
      BY <1>4, <1>10, <2>2, <3>1 DEF EndHookReturns, Command
  <2> QED
    BY <1>5, <1>10, <2>1, <2>2 DEF EndHookReturns, batchVars
<1>11. CASE PublishGenerationIntent \/ PublishPollIntent
  <2>1. CASE CancelSeen /\ KeepDurable
    BY <1>6, <2>1 DEF CancelSeen, PcType
  <2>2. CASE ~(CancelSeen /\ KeepDurable)
    <3>1. UNCHANGED <<calls, ran>> /\ ~sent' /\ op.at # "tools"
      BY <1>11, <2>2 DEF PublishGenerationIntent, PublishPollIntent, ReserveResponse,
                         Command, batchVars
    <3> QED
      BY <1>2, <3>1, BatchFrame
  <2> QED
    BY <2>1, <2>2
<1>12. ASSUME NEW reply, ProviderAnswers(reply) PROVE EffectInvariant'
  <2>1. pass'.pc = "respond"
    BY <1>12 DEF ProviderAnswers, TypeOK, PassTypeOK, PassType
  <2> QED
    BY <1>3, <1>12, <2>1 DEF ProviderAnswers
<1>13. CASE StreamFrame
  BY <1>4, <1>13 DEF StreamFrame, Command, Pass, batchVars, EffectPending
<1>14. CASE CallProvider
  <2>1. pass'.pc # "call" /\ UNCHANGED <<op, calls, ran>>
    BY <1>14, GotoFields DEF CallProvider, Admit, Goto, operationVars, batchVars
  <2> QED
    BY <1>2, <2>1, BatchFrame
<1>15. CASE DispatchCancelled
  <2>1. pass'.pc = "reconcile"
    BY <1>15 DEF DispatchCancelled, TypeOK, PassTypeOK, PassType
  <2> QED
    BY <1>3, <1>15, <2>1 DEF DispatchCancelled
<1>16. CASE Reconcile \/ RecoverGeneration
  <2>1. CASE pass' = [pass EXCEPT !.pc = "respond", !.response = "interrupted"]
    <3>1. pass'.pc = "respond"
      BY <2>1 DEF TypeOK, PassTypeOK, PassType
    <3>2. CASE KeepDurable
      BY <1>3, <3>1, <3>2
    <3>3. CASE ~KeepDurable
      BY <1>5, <1>16, <3>3 DEF Reconcile, RecoverGeneration
    <3> QED
      BY <3>2, <3>3
  <2> QED
    BY <1>5, <1>16, <2>1 DEF Reconcile, RecoverGeneration
<1>17. CASE Checkpoint
  <2>1. pass'.pc # "call"
    <3>1. CASE Goto("dispatch") \/ Goto("wait_cancel")
      BY <3>1, GotoFields
    <3>2. CASE ~(Goto("dispatch") \/ Goto("wait_cancel"))
      BY <1>17, <3>2 DEF Checkpoint, Goto, TypeOK, PassTypeOK, PassType
    <3> QED
      BY <3>1, <3>2
  <2>2. UNCHANGED <<calls, ran>> /\ op.at # "tools"
    BY <1>17 DEF Checkpoint, KeepDurable, batchVars, Command
  <2> QED
    BY <1>4, <2>1, <2>2
<1>18. CASE ConfigurationFailure
  BY <1>5, <1>18 DEF ConfigurationFailure
<1>19. CASE PrepareDeferredPoll \/ RetryWait
  <2>1. CASE ReleasePass
    BY <1>3, <1>19, <2>1 DEF PrepareDeferredPoll, RetryWait, ReleasePass, NoPass
  <2>2. CASE ~ReleasePass
    BY <1>6, <1>19, <2>2 DEF PrepareDeferredPoll, RetryWait, PcType
  <2> QED
    BY <2>1, <2>2
<1>20. CASE PublishResponse
  <2>1. CASE Settle("failed")
    BY <1>5, <2>1
  <2>2. CASE ~Settle("failed")
    <3>1. pass'.pc = "dispatch" /\ ran' = ran /\ op.at # "tools"
      BY <1>20, <2>2 DEF PublishResponse, Command, EffectPending,
                         TypeOK, PassTypeOK, PassType
    <3>2. CASE calls' = calls
      BY <1>4, <3>1, <3>2
    <3>3. CASE Running /\ pass.response = "tools" /\ \E n \in Calls : PlanBatch(n)
      <4>1. PICK n \in Calls : PlanBatch(n)
        BY <3>3
      <4>2. ran' = {}
        <5>1. \A c \in ran : calls[c] # "none" /\ c \in Calls
          BY DEF EffectInvariant, NothingIsRepeated, TypeOK, BatchTypeOK
        <5>2. \A c \in Calls : calls[c] = "none"
          BY <3>1 DEF EffectInvariant, NothingIsRepeated, AllCalls
        <5> QED
          BY <3>1, <5>1, <5>2
      <4>3. op'.id # 0 /\ op'.at = "tools"
        <5>1. op.id # 0
          BY <1>20 DEF PublishResponse, Command, Pass, GateInvariant, PassIsOwned, Driving
        <5>2. ~Retries /\ Running /\ pass.response # "stop"
          BY <3>3 DEF Retries
        <5> QED
          BY <1>20, <2>2, <3>3, <5>1, <5>2
          DEF PublishResponse, Advance, Running, TypeOK, OperationTypeOK, OperationType
      <4>4. \A c \in Calls : calls'[c] # "none" => \A d \in 1 .. c : calls'[d] # "none"
        BY <4>1, BoundsAssumption DEF PlanBatch, Calls
      <4> QED
        BY <1>2, <3>1, <4>2, <4>3, <4>4, IdleFrame
    <3> QED
      BY <1>20, <2>2, <3>2, <3>3 DEF PublishResponse
  <2> QED
    BY <2>1, <2>2
<1> QED
  BY <1>8, <1>9, <1>10, <1>11, <1>12, <1>13, <1>14, <1>15, <1>16, <1>17, <1>18,
     <1>19, <1>20 DEF HookStep, ProviderStep, ProcedureStep

----------------------------------------------------------------------------
(* Inside a tool batch.                                                     *)

\* A step of one invocation that is not a placement: the other calls stay as
\* they are, and this one keeps its place in the batch.
LEMMA InvocationFrame ==
  ASSUME TypeOK, TypeOK', EffectInvariant, pass.pc = "tools", NEW c \in Calls,
         UNCHANGED <<op, pass, sent, placing>>,
         \A d \in Calls \ {c} : calls'[d] = calls[d] /\ exec'[d] = exec[d],
         calls[c] # "none" /\ calls'[c] # "none",
         calls[c] \in Ready => calls'[c] \in Ready,
         calls[c] \in Done => calls'[c] \in Done,
         exec[c] # "placing" /\ exec'[c] # "placing",
         calls'[c] \in CallOf(c)',
         ran' \subseteq ran \union {c},
         c \in ran' => /\ calls'[c] # "planned"
                       /\ exec'[c] = "invoke" => calls'[c] = "pending_safe"
  PROVE  EffectInvariant'
<1> USE DEF EffectInvariant
<1>1. \A d \in Calls \ {c} : CallOf(d)' = CallOf(d)
  BY DEF CallOf
<1>2. op.id # 0 /\ op.at = "tools"
  BY DEF NothingIsRepeated, AllCalls
<1>3. NothingIsRepeated'
  <2>1. ran' \subseteq Calls
    BY DEF TypeOK, BatchTypeOK
  <2> QED
    BY <1>1, <1>2, <2>1 DEF NothingIsRepeated
<1>4. PlacementsAreChained'
  BY DEF PlacementsAreChained
<1>5. PlacementIsCurrent'
  <2>1. placing \in [Readers -> SUBSET Calls]
    BY DEF TypeOK, PassTypeOK
  <2> QED
    BY <2>1 DEF PlacementIsCurrent
<1>6. PlacementsFollowOrder'
  <2>1. \A e \in Calls : \A d \in 1 .. e : d \in Calls
    BY BoundsAssumption DEF Calls
  <2>2. placing \in [Readers -> SUBSET Calls]
    BY DEF TypeOK, PassTypeOK
  <2>3. \A d \in Calls : (calls[d] = "none" <=> calls'[d] = "none")
                        /\ (calls[d] \in Done => calls'[d] \in Done)
    OBVIOUS
  <2> QED
    BY <2>1, <2>2, <2>3 DEF PlacementsFollowOrder
<1> QED
  BY <1>3, <1>4, <1>5, <1>6

\* What a command that commits a placement does to the calls: those that were
\* read are done, unless that completes the batch, which is then dropped.
LEMMA PlacementFrame ==
  ASSUME TypeOK, TypeOK', GateInvariant, EffectInvariant, NEW r \in Readers,
         CommitPlacement(r), pass'.pc = "tools", UNCHANGED sent,
         r = 0 => pass.pc = "tools_place" /\ exec' = exec,
         r # 0 => pass.pc = "tools" /\ exec[r] = "placing"
                  /\ exec' = [exec EXCEPT ![r] = "end"]
  PROVE  EffectInvariant'
<1> USE DEF EffectInvariant
<1>1. /\ placing \in [Readers -> SUBSET Calls] /\ calls \in [Calls -> CallTypes]
      /\ exec \in [Calls -> ExecType] /\ ran \subseteq Calls /\ 0 \in Readers
      /\ \A c \in Calls : c # 0 /\ c \in Readers /\ \A d \in 1 .. c : d \in Calls
  BY BoundsAssumption DEF TypeOK, PassTypeOK, BatchTypeOK, Calls, Readers
<1>2. \A q \in Readers : placing'[q] = {}
  <2>1. placing' = [placing EXCEPT ![r] = {}]
    BY DEF CommitPlacement
  <2>2. r # 0 => r \in Calls
    BY DEF Readers, Calls
  <2>3. pass.pc = "tools_place" => exec = AllCalls("idle")
    BY DEF GateInvariant, PassIsOwned
  <2>4. \A q \in Readers : q # 0 => q \in Calls
    BY DEF Readers, Calls
  <2> QED
    BY <1>1, <2>1, <2>2, <2>3, <2>4 DEF PlacementsAreChained, AllCalls
<1>3. \A c \in placing[r] : calls[c] \in Ready
  BY DEF PlacementIsCurrent
<1>4. /\ \A c \in Calls : c # r => exec'[c] = exec[c]
      /\ r \in Calls => exec[r] = "placing" /\ exec'[r] = "end"
  BY <1>1
<1>5. \A c \in Calls : calls[c] \in CallOf(c)
  BY DEF NothingIsRepeated
<1>6. PlacementsAreChained'
  <2>1. \A c \in Calls : exec'[c] # "placing"
    <3>1. CASE r = 0
      BY <3>1 DEF GateInvariant, PassIsOwned, AllCalls
    <3>2. CASE r # 0
      <4>1. r \in Calls
        BY <3>2 DEF Readers, Calls
      <4> QED
        BY <1>4, <3>2, <4>1 DEF PlacementsAreChained
    <3> QED
      BY <3>1, <3>2
  <2> QED
    BY <1>1, <1>2, <2>1 DEF PlacementsAreChained
<1>7. PlacementIsCurrent'
  BY <1>2 DEF PlacementIsCurrent
<1>8. CASE \A c \in Batch : Placed(placing[r])[c] \in Done
  <2>1. calls' = AllCalls("none") /\ ran' = {}
    BY <1>8 DEF CommitPlacement, CloseBatch
  <2>2. \A c \in Calls : calls[c] \in Ready \union Done \union {"none"}
    BY <1>1, <1>3, <1>8 DEF Batch, Placed
  <2>3. \A c \in Calls : exec[c] \in {"idle", "staged", "placing", "end"}
    BY <1>1, <1>5, <2>2 DEF CallOf, Ready, Done, Pending, ExecType
  <2>4. \A c \in Calls : exec'[c] \in {"idle", "staged", "placing", "end"}
    BY <1>4, <2>3
  <2>5. NothingIsRepeated'
    BY <2>1, <2>4 DEF NothingIsRepeated, CallOf, AllCalls, CallTypes
  <2>6. PlacementsFollowOrder'
    BY <1>2, <2>1 DEF PlacementsFollowOrder, AllCalls
  <2> QED
    BY <1>6, <1>7, <2>5, <2>6
<1>9. CASE ~\A c \in Batch : Placed(placing[r])[c] \in Done
  <2>1. calls' = Placed(placing[r]) /\ UNCHANGED <<op, ran>>
    BY <1>9 DEF CommitPlacement
  <2>2. \A c \in Calls : \/ calls'[c] = calls[c]
                        \/ (calls[c] \in Ready /\ calls'[c] \in Done)
    <3>1. SUFFICES ASSUME NEW c \in Calls, calls'[c] # calls[c]
                   PROVE  calls[c] \in Ready /\ calls'[c] \in Done
      OBVIOUS
    <3>2. c \in placing[r]
      BY <2>1, <3>1 DEF Placed
    <3> QED
      BY <1>3, <2>1, <3>2 DEF Placed, Done
  <2>3. op.id # 0 /\ op.at = "tools"
    BY <1>9, <1>1 DEF NothingIsRepeated, AllCalls, Batch
  <2>4. \A c \in Calls : calls'[c] \in CallOf(c)'
    <3>1. SUFFICES ASSUME NEW c \in Calls PROVE calls'[c] \in CallOf(c)'
      OBVIOUS
    <3>2. CASE calls'[c] = calls[c]
      BY <1>4, <1>5, <3>2 DEF CallOf
    <3>3. CASE calls[c] \in Ready /\ calls'[c] \in Done
      <4>1. exec[c] \in {"idle", "staged", "placing", "end"}
        BY <1>1, <1>5, <3>3 DEF CallOf, Ready, Pending, ExecType
      <4>2. exec'[c] \in {"idle", "staged", "placing", "end"}
        BY <1>4, <4>1
      <4> QED
        BY <3>3, <4>2 DEF CallOf, CallTypes, Done
    <3> QED
      BY <2>2, <3>2, <3>3
  <2>5. \A c \in ran : calls'[c] \notin {"none", "planned"}
    BY <1>1, <2>2 DEF NothingIsRepeated, Done
  <2>6. \A c \in ran : exec'[c] = "invoke" => calls'[c] = "pending_safe"
    <3>1. SUFFICES ASSUME NEW c \in ran, exec'[c] = "invoke"
                   PROVE  calls'[c] = "pending_safe"
      OBVIOUS
    <3>2. exec[c] = "invoke" /\ c \in Calls
      BY <1>1, <1>4, <3>1
    <3>3. calls[c] = "pending_safe"
      BY <3>1, <3>2 DEF NothingIsRepeated
    <3> QED
      BY <2>2, <3>2, <3>3 DEF Ready
  <2>7. NothingIsRepeated'
    BY <2>1, <2>3, <2>4, <2>5, <2>6 DEF NothingIsRepeated
  <2>8. \A c \in Calls : calls'[c] = "none" <=> calls[c] = "none"
    BY <2>2 DEF Ready, Done
  <2>9. PlacementsFollowOrder'
    BY <1>1, <1>2, <2>8 DEF PlacementsFollowOrder
  <2> QED
    BY <1>6, <1>7, <2>7, <2>9
<1> QED
  BY <1>8, <1>9

\* The results that readPlacement finds are ready and continue what is placed.
LEMMA ReadyPrefixIsOrdered ==
  ASSUME TypeOK, EffectInvariant, NEW c \in ReadyPrefix
  PROVE  /\ calls[c] \in Ready
         /\ \A d \in 1 .. c : d \in ReadyPrefix \/ calls[d] \in Done
<1>1. c \in Calls /\ calls[c] \in Ready /\ op.at = "tools"
      /\ \A d \in Before(c) : calls[d] \in Ready \union Done
  BY DEF ReadyPrefix, Batch
<1>2. \A d \in 1 .. c : /\ d \in Calls /\ (d < c \/ d = c)
                        /\ \A e \in Calls : e < d => e < c
  BY <1>1, BoundsAssumption DEF Calls
<1>3. \A d \in 1 .. c : calls[d] # "none"
  BY <1>1 DEF EffectInvariant, PlacementsFollowOrder, Ready
<1>4. \A d \in 1 .. c : calls[d] \in Ready \union Done
  BY <1>1, <1>2, <1>3 DEF Before, Batch
<1>5. \A d \in 1 .. c : calls[d] \in Ready => d \in ReadyPrefix
  BY <1>1, <1>2, <1>3, <1>4 DEF ReadyPrefix, Before, Batch
<1> QED
  BY <1>1, <1>4, <1>5

\* Steps of a tool batch.
LEMMA EffectTools ==
  ASSUME TypeOK, TypeOK', GateInvariant, EffectInvariant, ToolStep
  PROVE  EffectInvariant'
<1>1. /\ calls \in [Calls -> CallTypes] /\ exec \in [Calls -> ExecType]
      /\ placing \in [Readers -> SUBSET Calls] /\ 0 \in Readers /\ Calls \subseteq Readers
  BY BoundsAssumption DEF TypeOK, BatchTypeOK, PassTypeOK, Readers, Calls
<1>2. CASE EnterTools
  <2>1. /\ UNCHANGED <<op, calls, ran, exec, sent>> /\ pass'.pc = "tools_place"
        /\ placing' = [placing EXCEPT ![0] = ReadyPrefix]
        /\ pass.pc \notin {"tools", "tools_place"}
    BY <1>2 DEF EnterTools, KeepLane, KeepBatch, operationVars, batchVars, responseVars,
                TypeOK, PassTypeOK, PassType
  <2>2. exec = AllCalls("idle") /\ placing = NothingRead
    BY <2>1, NothingReadOutside
  <2>3. \A r \in Readers : placing'[r] = IF r = 0 THEN ReadyPrefix ELSE {}
    BY <2>1, <2>2 DEF NothingRead
  <2>4. 0 \notin Calls
    BY DEF Calls
  <2>5. NothingIsRepeated'
    <3>1. \A c \in Calls : CallOf(c)' = CallOf(c)
      BY <2>1 DEF CallOf
    <3> QED
      BY <2>1, <3>1 DEF EffectInvariant, NothingIsRepeated
  <2>6. PlacementsAreChained'
    BY <1>1, <2>1, <2>2, <2>3, <2>4 DEF PlacementsAreChained, AllCalls
  <2>7. PlacementIsCurrent' /\ PlacementsFollowOrder'
    BY <2>1, <2>3, ReadyPrefixIsOrdered
    DEF PlacementIsCurrent, PlacementsFollowOrder, EffectInvariant
  <2> QED
    BY <2>5, <2>6, <2>7 DEF EffectInvariant
<1>3. CASE PlaceLeftovers
  <2>1. pass.pc = "tools_place" /\ pass'.pc = "tools" /\ UNCHANGED exec
    BY <1>3 DEF PlaceLeftovers, Pass, TypeOK, PassTypeOK, PassType
  <2>2. CASE placing[0] = {}
    <3>1. UNCHANGED <<op, calls, ran, sent, placing>>
      BY <1>3, <2>2 DEF PlaceLeftovers, KeepLane, KeepBatch, operationVars, batchVars,
                        responseVars
    <3>2. \A c \in Calls : CallOf(c)' = CallOf(c)
      BY <2>1, <3>1 DEF CallOf
    <3>3. NothingIsRepeated' /\ PlacementsAreChained'
      BY <2>1, <2>2, <3>1, <3>2
      DEF EffectInvariant, NothingIsRepeated, PlacementsAreChained
    <3>4. PlacementIsCurrent' /\ PlacementsFollowOrder'
      BY <3>1 DEF EffectInvariant, PlacementIsCurrent, PlacementsFollowOrder
    <3> QED
      BY <3>3, <3>4 DEF EffectInvariant
  <2>3. CASE placing[0] # {}
    <3>1. CommitPlacement(0) /\ UNCHANGED sent
      BY <1>3, <2>3 DEF PlaceLeftovers, CommitPlacement, responseVars
    <3> QED
      BY <1>1, <2>1, <3>1, PlacementFrame
  <2> QED
    BY <2>2, <2>3
<1>4. CASE LeaveTools
  <2>1. /\ UNCHANGED <<op, calls, ran, sent, placing>> /\ exec' = AllCalls("idle")
        /\ pass.pc = "tools" /\ pass'.pc = "dispatch"
        /\ \A c \in Calls : exec[c] \in {"idle", "end"}
    BY <1>4 DEF LeaveTools, Pass, KeepLane, KeepBatch, operationVars, batchVars,
                responseVars, TypeOK, PassTypeOK, PassType
  <2>2. \A r \in Readers : r = 0 \/ r \in Calls
    BY DEF Readers, Calls
  <2>3. placing' = NothingRead
    BY <1>1, <2>1, <2>2 DEF EffectInvariant, PlacementsAreChained, NothingRead
  <2> QED
    BY <2>1, <2>3, BatchFrame
<1>5. ASSUME NEW c \in Calls, InvocationStep(c) PROVE EffectInvariant'
  <2> USE DEF KeepLane, KeepBatch, operationVars, batchVars, responseVars, passVars
  <2>1. pass.pc = "tools"
    BY <1>5 DEF InvocationStep, Pass
  <2>2. calls[c] \in CallOf(c)
    BY DEF EffectInvariant, NothingIsRepeated
  <2>3. c \in ran => calls[c] \notin {"none", "planned"}
    BY DEF EffectInvariant, NothingIsRepeated
  <2>4. ASSUME UNCHANGED <<op, pass, sent, placing, calls>>,
               \A d \in Calls \ {c} : exec'[d] = exec[d],
               exec[c] # "placing", exec'[c] # "placing",
               calls[c] # "none", calls[c] \in CallOf(c)',
               \/ ran' = ran
               \/ ran' = ran \union {c} /\ calls[c] # "planned" /\ exec'[c] = "run",
               exec'[c] = "invoke" => calls[c] = "pending_safe"
        PROVE  EffectInvariant'
    <3>1. c \in ran' => calls'[c] # "planned"
      BY <2>3, <2>4
    <3>2. c \in ran' => (exec'[c] = "invoke" => calls'[c] = "pending_safe")
      BY <2>4
    <3>3. ran' \subseteq ran \union {c}
      BY <2>4
    <3> QED
      BY <2>1, <2>4, <3>1, <3>2, <3>3, InvocationFrame
  <2>5. CASE StartPlanned(c) \/ RefusePlanned(c)
    <3>1. exec'[c] \in {"hook", "outcome"} /\ calls[c] = "planned" /\ exec[c] = "idle"
      BY <1>1, <2>5 DEF StartPlanned, RefusePlanned, CanStart, Move
    <3>2. calls[c] \in CallOf(c)'
      BY <2>5, <3>1 DEF CallOf, StartPlanned, RefusePlanned
    <3>3. UNCHANGED <<op, pass, sent, placing, calls, ran>>
          /\ \A d \in Calls \ {c} : exec'[d] = exec[d]
      BY <1>1, <2>5 DEF StartPlanned, RefusePlanned, Move
    <3> QED
      BY <2>4, <3>1, <3>2, <3>3
  <2>6. ASSUME NEW cleared \in BOOLEAN, ToolHookReturns(c, cleared) PROVE EffectInvariant'
    <3>1. /\ exec'[c] \in {"intent", "outcome"} /\ exec[c] = "hook"
          /\ calls[c] = "planned"
      BY <1>1, <2>2, <2>6 DEF ToolHookReturns, Move, CallOf
    <3>2. calls[c] \in CallOf(c)'
      BY <2>6, <3>1 DEF CallOf, ToolHookReturns
    <3>3. UNCHANGED <<op, pass, sent, placing, calls, ran>>
          /\ \A d \in Calls \ {c} : exec'[d] = exec[d]
      BY <1>1, <2>6 DEF ToolHookReturns, Move
    <3> QED
      BY <2>4, <3>1, <3>2, <3>3
  <2>7. ASSUME NEW replay \in Pending, PublishToolIntent(c, replay) PROVE EffectInvariant'
    <3>1. exec[c] = "intent" /\ calls[c] = "planned" /\ c \notin ran
      BY <2>2, <2>3, <2>7 DEF PublishToolIntent, CallOf
    <3>2. CASE op.cancelled
      <4>1. exec'[c] = "outcome"
        BY <1>1, <2>7, <3>2 DEF PublishToolIntent, Move
      <4>2. calls[c] \in CallOf(c)'
        BY <2>7, <3>1, <3>2, <4>1 DEF PublishToolIntent, CallOf
      <4>3. UNCHANGED <<op, pass, sent, placing, calls, ran>>
            /\ \A d \in Calls \ {c} : exec'[d] = exec[d]
        BY <1>1, <2>7, <3>2 DEF PublishToolIntent, Move
      <4> QED
        BY <2>4, <3>1, <4>1, <4>2, <4>3
    <3>3. CASE ~op.cancelled
      <4>1. /\ UNCHANGED <<op, pass, sent, placing, ran>> /\ calls'[c] = replay
            /\ exec'[c] = "invoke"
            /\ \A d \in Calls \ {c} : calls'[d] = calls[d] /\ exec'[d] = exec[d]
        BY <1>1, <2>7, <3>3 DEF PublishToolIntent, Move
      <4>2. calls'[c] \in CallOf(c)' /\ calls'[c] # "none"
        BY <4>1 DEF CallOf, Pending
      <4>3. calls[c] \notin Ready \union Done
        BY <3>1 DEF Ready, Done
      <4> QED
        BY <2>1, <3>1, <4>1, <4>2, <4>3, InvocationFrame
    <3> QED
      BY <3>2, <3>3
  <2>8. CASE RecoverCall(c)
    <3>1. /\ exec'[c] \in {"replay", "outcome"} /\ exec[c] = "idle"
          /\ calls[c] \in Pending
          /\ exec'[c] = "replay" => calls[c] = "pending_safe"
      BY <1>1, <2>8 DEF RecoverCall, CanStart, Move
    <3>2. calls[c] \in CallOf(c)' /\ calls[c] # "none"
      BY <2>8, <3>1 DEF CallOf, RecoverCall, Pending
    <3>3. UNCHANGED <<op, pass, sent, placing, calls, ran>>
          /\ \A d \in Calls \ {c} : exec'[d] = exec[d]
      BY <1>1, <2>8 DEF RecoverCall, Move
    <3> QED
      BY <2>4, <3>1, <3>2, <3>3
  <2>9. CASE ClearReplayCheckpoint(c)
    <3>1. exec'[c] = "invoke" /\ exec[c] = "replay" /\ calls[c] = "pending_safe"
      BY <1>1, <2>2, <2>9 DEF ClearReplayCheckpoint, Move, CallOf
    <3>2. calls[c] \in CallOf(c)'
      BY <2>9, <3>1 DEF CallOf, ClearReplayCheckpoint, Pending
    <3>3. UNCHANGED <<op, pass, sent, placing, calls, ran>>
          /\ \A d \in Calls \ {c} : exec'[d] = exec[d]
      BY <1>1, <2>9 DEF ClearReplayCheckpoint, Move
    <3> QED
      BY <2>4, <3>1, <3>2, <3>3
  <2>10. CASE InvokeTool(c)
    <3>1. exec'[c] \in {"run", "outcome"} /\ exec[c] = "invoke" /\ calls[c] \in Pending
      BY <1>1, <2>2, <2>10 DEF InvokeTool, Move, CallOf
    <3>2. calls[c] \in CallOf(c)' /\ calls[c] # "none"
      BY <2>10, <3>1 DEF CallOf, InvokeTool, Pending
    <3>3. UNCHANGED <<op, pass, sent, placing, calls>>
          /\ \A d \in Calls \ {c} : exec'[d] = exec[d]
      BY <1>1, <2>10 DEF InvokeTool, Move
    <3>4. ran' = ran \/ (ran' = ran \union {c} /\ exec'[c] = "run")
      BY <1>1, <2>10 DEF InvokeTool, Move
    <3>5. calls[c] # "planned"
      BY <3>1 DEF Pending
    <3> QED
      BY <2>4, <3>1, <3>2, <3>3, <3>4, <3>5
  <2>11. CASE WriteScratch(c)
    BY <2>11, EffectStutter DEF WriteScratch
  <2>12. ASSUME NEW terminate \in BOOLEAN, ToolReturns(c, terminate) PROVE EffectInvariant'
    <3>1. /\ exec'[c] \in {"outcome", "outcome_term"} /\ exec[c] = "run"
          /\ calls[c] \in Pending
      BY <1>1, <2>2, <2>12 DEF ToolReturns, Move, CallOf
    <3>2. calls[c] \in CallOf(c)' /\ calls[c] # "none"
      BY <2>12, <3>1 DEF CallOf, ToolReturns, Pending
    <3>3. UNCHANGED <<op, pass, sent, placing, calls, ran>>
          /\ \A d \in Calls \ {c} : exec'[d] = exec[d]
      BY <1>1, <2>12 DEF ToolReturns, Move
    <3> QED
      BY <2>4, <3>1, <3>2, <3>3
  <2>13. CASE PublishToolOutcome(c)
    <3>1. /\ UNCHANGED <<op, pass, sent, placing, ran>> /\ calls'[c] \in Ready
          /\ exec[c] \in {"outcome", "outcome_term"} /\ exec'[c] = "staged"
          /\ \A d \in Calls \ {c} : calls'[d] = calls[d] /\ exec'[d] = exec[d]
      BY <1>1, <2>13 DEF PublishToolOutcome, Move, Ready
    <3>2. calls[c] \in {"planned"} \union Pending
      BY <2>2, <3>1 DEF CallOf
    <3>3. calls'[c] \in CallOf(c)'
      BY <3>1 DEF CallOf, Ready
    <3>4. calls[c] \notin Ready \union Done \union {"none"}
          /\ calls'[c] \notin {"none", "planned"}
      BY <3>1, <3>2 DEF Ready, Done, Pending
    <3> QED
      BY <2>1, <3>1, <3>3, <3>4, InvocationFrame
  <2>14. CASE ReadPlacement(c)
    <3>1. /\ UNCHANGED <<op, pass, sent, calls, ran>> /\ exec[c] = "staged"
          /\ exec'[c] = IF ReadyPrefix = {} THEN "end" ELSE "placing"
          /\ \A d \in Calls \ {c} : exec'[d] = exec[d] /\ exec[d] # "placing"
          /\ placing'[c] = ReadyPrefix
          /\ \A r \in Readers \ {c} : placing'[r] = placing[r]
      BY <1>1, <2>14 DEF ReadPlacement, NoPlacement, Move
    <3>2. c # 0
      BY DEF Calls
    <3>3. \A d \in Calls \ {c} : CallOf(d)' = CallOf(d)
      BY <3>1 DEF CallOf
    <3>4. calls[c] \in CallOf(c)'
      BY <2>2, <3>1 DEF CallOf
    <3>5. NothingIsRepeated'
      <4>1. exec'[c] # "invoke"
        BY <3>1
      <4>2. ran \subseteq Calls
        BY DEF TypeOK, BatchTypeOK
      <4> QED
        BY <3>1, <3>3, <3>4, <4>1, <4>2 DEF EffectInvariant, NothingIsRepeated
    <3>6. PlacementsAreChained'
      BY <1>1, <3>1, <3>2 DEF EffectInvariant, PlacementsAreChained
    <3>7. PlacementIsCurrent'
      BY <1>1, <3>1, ReadyPrefixIsOrdered DEF EffectInvariant, PlacementIsCurrent
    <3>8. PlacementsFollowOrder'
      BY <1>1, <3>1, ReadyPrefixIsOrdered DEF EffectInvariant, PlacementsFollowOrder
    <3> QED
      BY <3>5, <3>6, <3>7, <3>8 DEF EffectInvariant
  <2>15. CASE PlaceResults(c)
    <3>1. /\ CommitPlacement(c) /\ exec[c] = "placing" /\ UNCHANGED <<pass, sent>>
          /\ exec' = [exec EXCEPT ![c] = "end"]
      BY <2>15 DEF PlaceResults, Move, CommitPlacement
    <3>2. c # 0
      BY DEF Calls
    <3> QED
      BY <1>1, <2>1, <3>1, <3>2, PlacementFrame
  <2> QED
    BY <1>5, <2>5, <2>6, <2>7, <2>8, <2>9, <2>10, <2>11, <2>12, <2>13, <2>14, <2>15
    DEF InvocationStep
<1> QED
  BY <1>2, <1>3, <1>4, <1>5 DEF ToolStep

----------------------------------------------------------------------------
(* The invariant.                                                           *)

\* Initially nothing is read, sent or planned.
LEMMA EffectInit == Init => EffectInvariant
<1>1. SUFFICES ASSUME Init PROVE EffectInvariant
  OBVIOUS
<1>2. NothingIsRepeated
  BY <1>1 DEF Init, NothingIsRepeated, NoPass, AllCalls, CallOf, CallTypes
<1>3. PlacementsAreChained
  BY <1>1, BoundsAssumption
  DEF Init, PlacementsAreChained, NothingRead, AllCalls, Readers, Calls
<1>4. PlacementIsCurrent /\ PlacementsFollowOrder
  BY <1>1 DEF Init, PlacementIsCurrent, PlacementsFollowOrder, NothingRead, AllCalls
<1> QED
  BY <1>2, <1>3, <1>4 DEF EffectInvariant

\* EffectInvariant is inductive, relative to the types and the gate protocol.
LEMMA EffectNext ==
  ASSUME TypeOK, TypeOK', GateInvariant, EffectInvariant, [Next]_vars
  PROVE  EffectInvariant'
<1>1. CASE UNCHANGED vars
  <2>1. UNCHANGED <<op, pass, sent, calls, ran, exec, placing>>
    BY <1>1 DEF vars, operationVars, batchVars, responseVars, passVars
  <2> QED
    BY <2>1, EffectStutter
<1>2. CASE Next
  BY <1>2, EffectCommands, EffectProcedures, EffectTools DEF Next, PassStep
<1> QED
  BY <1>1, <1>2

\* What a pass has read, sent, started and is about to place agrees with the
\* durable record of the response and of every call, whatever happens between
\* its commands.
THEOREM EffectProtocol == Spec => []EffectInvariant
<1>1. Init => EffectInvariant
  BY EffectInit
<1>2. TypeOK /\ TypeOK' /\ GateInvariant /\ EffectInvariant /\ [Next]_vars
        => EffectInvariant'
  BY EffectNext
<1> QED
  BY <1>1, <1>2, TypeCorrect, GateProtocol, PTL DEF Spec

\* What readPlacement found in one command still holds when commitPlacement
\* runs in another.
THEOREM PlacementsStayCurrent == Spec => []PlacementIsCurrent
<1>1. EffectInvariant => PlacementIsCurrent
  BY DEF EffectInvariant
<1> QED
  BY <1>1, EffectProtocol, PTL

----------------------------------------------------------------------------
(* Requests and tools happen once.                                          *)

\* A request is made by CallProvider alone.
LEMMA OnlyCallProviderSends ==
  ASSUME TypeOK, [Next]_vars, RequestStarts
  PROVE  pass.pc = "call"
<1>1. pass.pc # "effect" /\ pass'.pc = "effect"
  BY DEF RequestStarts
<1>2. ASSUME NEW pc \in PcType \ {"effect"}, Goto(pc) \/ Admit(pc) PROVE FALSE
  BY <1>1, <1>2, GotoFields DEF Admit, Goto
<1>3. ASSUME NEW status, Settle(status) PROVE FALSE
  BY <1>1, <1>3 DEF Settle, TypeOK, PassTypeOK, PassType
<1>4. ASSUME HostStep \/ CommitAbort \/ ClearPass \/ Stop \/ Restart \/ TimePasses
      PROVE  FALSE
  BY <1>1, <1>4, CommandsAreQuiet DEF Quiet, Guarded
<1>5. ASSUME ToolStep PROVE FALSE
  <2>1. CASE EnterTools \/ PlaceLeftovers \/ LeaveTools
    BY <1>1, <2>1 DEF EnterTools, PlaceLeftovers, LeaveTools, TypeOK, PassTypeOK, PassType
  <2>2. ASSUME NEW c \in Calls, InvocationStep(c) PROVE FALSE
    BY <1>1, <2>2 DEF InvocationStep, StartPlanned, RefusePlanned, ToolHookReturns,
       PublishToolIntent, RecoverCall, ClearReplayCheckpoint, InvokeTool, WriteScratch,
       ToolReturns, PublishToolOutcome, ReadPlacement, PlaceResults, passVars
  <2> QED
    BY <1>5, <2>1, <2>2 DEF ToolStep
<1>6. ASSUME HookStep PROVE FALSE
  <2>1. ASSUME NEW followUp \in BOOLEAN, EndHookReturns(followUp) PROVE FALSE
    <3>1. CASE CancelSeen \/ Settle("completed")
      BY <1>2, <1>3, <3>1 DEF CancelSeen, PcType
    <3>2. CASE ~(CancelSeen \/ Settle("completed"))
      BY <1>1, <2>1, <3>2 DEF EndHookReturns, TypeOK, PassTypeOK, PassType
    <3> QED
      BY <3>1, <3>2
  <2>2. CASE PublishPollIntent
    <3>1. CASE CancelSeen
      BY <1>2, <3>1 DEF CancelSeen, PcType
    <3>2. CASE ~CancelSeen
      BY <1>1, <2>2, <3>2 DEF PublishPollIntent, TypeOK, PassTypeOK, PassType
    <3> QED
      BY <3>1, <3>2
  <2> QED
    BY <1>2, <1>6, <2>1, <2>2 DEF HookStep, DriveHookReturns, RunHookReturns,
       PublishGenerationIntent, CancelSeen, PcType
<1>7. ASSUME ProviderStep PROVE FALSE
  BY <1>1, <1>7 DEF ProviderStep, ProviderAnswers, StreamFrame, Command, Pass,
                    TypeOK, PassTypeOK, PassType
<1>8. ASSUME ProcedureStep, ~CallProvider PROVE FALSE
  <2>1. CASE \/ BeforeDrive \/ CancellationArrives \/ StartRun \/ PrepareGeneration
             \/ TimerEnds \/ StartRetry
    BY <1>2, <2>1 DEF BeforeDrive, CancellationArrives, StartRun, PrepareGeneration,
                      TimerEnds, StartRetry, CancelSeen, PcType
  <2>2. CASE PrepareDeferredPoll \/ RetryWait
    <3>1. CASE ReleasePass
      BY <1>1, <3>1 DEF ReleasePass, NoPass
    <3>2. CASE ~ReleasePass
      BY <1>2, <2>2, <3>2 DEF PrepareDeferredPoll, RetryWait, PcType
    <3> QED
      BY <3>1, <3>2
  <2>3. CASE DispatchCancelled \/ RecoverGeneration
    BY <1>1, <2>3 DEF DispatchCancelled, RecoverGeneration, TypeOK, PassTypeOK, PassType
  <2>4. CASE Reconcile \/ ConfigurationFailure
    <3>1. CASE \E status : Settle(status)
      BY <1>3, <3>1
    <3>2. CASE ~\E status : Settle(status)
      BY <1>1, <2>4, <3>2 DEF Reconcile, ConfigurationFailure, TypeOK, PassTypeOK, PassType
    <3> QED
      BY <3>1, <3>2
  <2>5. CASE Checkpoint
    <3>1. CASE Goto("dispatch") \/ Goto("wait_cancel")
      BY <1>2, <3>1 DEF PcType
    <3>2. CASE ~(Goto("dispatch") \/ Goto("wait_cancel"))
      BY <1>1, <2>5, <3>2 DEF Checkpoint, TypeOK, PassTypeOK, PassType
    <3> QED
      BY <3>1, <3>2
  <2>6. CASE PublishResponse
    <3>1. CASE Settle("failed")
      BY <1>3, <3>1
    <3>2. CASE ~Settle("failed")
      <4>1. pass' = [pass EXCEPT !.pc = "dispatch", !.response = "none"]
        BY <2>6, <3>2 DEF PublishResponse
      <4> QED
        BY <1>1, <4>1 DEF TypeOK, PassTypeOK, PassType
    <3> QED
      BY <3>1, <3>2
  <2> QED
    BY <1>8, <2>1, <2>2, <2>3, <2>4, <2>5, <2>6 DEF ProcedureStep
<1>9. ~UNCHANGED vars
  BY <1>1 DEF vars, passVars
<1> QED
  BY <1>4, <1>5, <1>6, <1>7, <1>8, <1>9 DEF Next, PassStep, CallProvider, Pass

\* A tool is invoked by InvokeTool alone.
LEMMA OnlyInvokeToolStarts ==
  ASSUME TypeOK, [Next]_vars, NEW c \in Calls, ToolStarts(c)
  PROVE  exec[c] = "invoke"
<1>1. exec[c] # "run" /\ exec'[c] = "run"
  BY DEF ToolStarts
<1>2. exec' # exec /\ exec' # AllCalls("idle")
  BY <1>1 DEF AllCalls
<1>3. PICK d \in Calls : InvocationStep(d)
  BY <1>2 DEF vars, passVars, Next, PassStep, HostStep, AcceptRun, Enqueue, Append,
     Appended, CancelQueued, RequestAbort, InstallPass, CommitAbort, Stop, Restart,
     TimePasses, HookStep, DriveHookReturns, RunHookReturns, EndHookReturns,
     PublishGenerationIntent, PublishPollIntent, ProviderStep, ProviderAnswers,
     StreamFrame, ProcedureStep, BeforeDrive, CancellationArrives, DispatchCancelled,
     Reconcile, StartRun, Checkpoint, PrepareGeneration, ConfigurationFailure,
     PrepareDeferredPoll, CallProvider, RecoverGeneration, PublishResponse,
     RetryWait, TimerEnds, StartRetry, ClearPass, ReleasePass, KeepProcess, hostVars,
     ToolStep, EnterTools, PlaceLeftovers, LeaveTools
<1>4. exec \in [Calls -> ExecType]
  BY DEF TypeOK, PassTypeOK
<1>5. CASE InvokeTool(d)
  BY <1>1, <1>4, <1>5 DEF InvokeTool, Move
<1>6. CASE ~InvokeTool(d)
  <2>1. exec' = exec \/ \E state : state # "run" /\ Move(d, state)
    BY <1>3, <1>6 DEF InvocationStep, StartPlanned, RefusePlanned, ToolHookReturns,
       PublishToolIntent, RecoverCall, ClearReplayCheckpoint, WriteScratch,
       ToolReturns, PublishToolOutcome, ReadPlacement, PlaceResults, passVars
  <2> QED
    BY <1>1, <1>4, <2>1 DEF Move
<1> QED
  BY <1>5, <1>6

\* A durable response intent is sent to the provider at most once and a tool
\* call runs at most once, over any number of passes and restarts, unless its
\* durable record says that the tool is replay-safe.
THEOREM EffectsAreNotRepeated == Spec => EffectsHappenOnce
<1> DEFINE Once == /\ RequestStarts => ~sent
                   /\ \A c \in Calls : ToolStarts(c) /\ c \in ran
                                         => calls[c] = "pending_safe"
<1>1. TypeOK /\ EffectInvariant /\ [Next]_vars => [Once]_vars
  <2>1. SUFFICES ASSUME TypeOK, EffectInvariant, [Next]_vars PROVE Once
    OBVIOUS
  <2>2. RequestStarts => ~sent
    BY <2>1, OnlyCallProviderSends DEF EffectInvariant, NothingIsRepeated
  <2>3. ASSUME NEW c \in Calls, ToolStarts(c), c \in ran
        PROVE  calls[c] = "pending_safe"
    BY <2>1, <2>3, OnlyInvokeToolStarts DEF EffectInvariant, NothingIsRepeated
  <2> QED
    BY <2>2, <2>3
<1> QED
  BY <1>1, TypeCorrect, EffectProtocol, PTL DEF Spec, EffectsHappenOnce

----------------------------------------------------------------------------
(* Results enter in source order.                                           *)

\* Which results are placed and which calls are dropped by a placement.
KeepsOrder ==
  \A c \in Calls :
    /\ calls[c] \notin Done /\ calls'[c] \in Done =>
         \A d \in 1 .. (c - 1) : calls'[d] \in Done
    /\ calls[c] # "none" /\ calls'[c] = "none" => calls[c] \in Ready \union Done

\* A step changes the calls in one of three ways: a batch is planned or found
\* empty outside of tools, a call becomes pending or ready, or a placement
\* commits.
LEMMA CallsChange ==
  ASSUME TypeOK, [Next]_vars
  PROVE  \/ op.at # "tools" /\ \A c \in Calls : calls'[c] \in {"none", "planned", calls[c]}
         \/ \A c \in Calls : calls'[c] = calls[c] \/ calls'[c] \in Pending \union Ready
         \/ \E r \in Readers : CommitPlacement(r)
<1> DEFINE Goal == \/ /\ op.at # "tools"
                       /\ \A c \in Calls : calls'[c] \in {"none", "planned", calls[c]}
                   \/ \A c \in Calls : calls'[c] = calls[c] \/ calls'[c] \in Pending \union Ready
                   \/ \E r \in Readers : CommitPlacement(r)
<1>1. calls' = calls => Goal
  OBVIOUS
<1>2. ASSUME op.at # "tools", NEW status, Settle(status) PROVE Goal
  BY <1>2 DEF Settle, DropBatch, AllCalls
<1>3. CASE \E status : Settle(status) /\ (Reconcile \/ ConfigurationFailure
                          \/ \E followUp \in BOOLEAN : EndHookReturns(followUp))
  BY <1>2, <1>3 DEF Reconcile, ConfigurationFailure, EndHookReturns, Command
<1>4. CASE PublishResponse
  <2>1. op.at # "tools"
    BY <1>4 DEF PublishResponse, Command, EffectPending
  <2>2. CASE Settle("failed")
    BY <1>2, <2>1, <2>2
  <2>3. CASE ~Settle("failed")
    <3>1. calls' = calls \/ \E n \in Calls : PlanBatch(n)
      BY <1>4, <2>3 DEF PublishResponse
    <3> QED
      BY <2>1, <3>1 DEF PlanBatch
  <2> QED
    BY <2>2, <2>3
<1>5. ASSUME NEW c \in Calls, InvocationStep(c) PROVE Goal
  <2>1. \/ UNCHANGED calls
        \/ \E state \in Pending \union Ready : calls' = [calls EXCEPT ![c] = state]
        \/ CommitPlacement(c)
    BY <1>5 DEF InvocationStep, StartPlanned, RefusePlanned, ToolHookReturns,
       PublishToolIntent, RecoverCall, ClearReplayCheckpoint, InvokeTool, WriteScratch,
       ToolReturns, PublishToolOutcome, ReadPlacement, PlaceResults, KeepBatch,
       batchVars, Ready
  <2>2. c \in Readers /\ calls \in [Calls -> CallTypes]
    BY BoundsAssumption DEF Readers, Calls, TypeOK, BatchTypeOK
  <2> QED
    BY <2>1, <2>2
<1>6. CASE EnterTools \/ PlaceLeftovers \/ LeaveTools
  <2>1. 0 \in Readers
    BY BoundsAssumption DEF Readers
  <2>2. calls' = calls \/ CommitPlacement(0)
    BY <1>6 DEF EnterTools, PlaceLeftovers, LeaveTools, CommitPlacement, KeepBatch, batchVars
  <2> QED
    BY <2>1, <2>2
<1>7. CASE HostStep \/ CommitAbort \/ ClearPass \/ Stop \/ Restart \/ TimePasses
  BY <1>1, <1>7 DEF HostStep, AcceptRun, Enqueue, Append, Appended, CancelQueued,
     RequestAbort, InstallPass, CommitAbort, ClearPass, Stop, Restart, TimePasses, batchVars
<1>8. CASE UNCHANGED vars
  BY <1>1, <1>8 DEF vars, batchVars
<1>9. CASE ProviderStep \/ HookStep
  BY <1>1, <1>3, <1>9 DEF ProviderStep, ProviderAnswers, StreamFrame, HookStep,
     DriveHookReturns, RunHookReturns, EndHookReturns, PublishGenerationIntent,
     PublishPollIntent, KeepDurable, batchVars
<1>10. CASE ProcedureStep
  BY <1>1, <1>3, <1>4, <1>10 DEF ProcedureStep, BeforeDrive, CancellationArrives,
     DispatchCancelled, Reconcile, StartRun, Checkpoint, PrepareGeneration,
     ConfigurationFailure, PrepareDeferredPoll, CallProvider, RecoverGeneration,
     RetryWait, TimerEnds, StartRetry, KeepDurable, batchVars
<1> QED
  BY <1>5, <1>6, <1>7, <1>8, <1>9, <1>10 DEF Next, PassStep, ToolStep

\* A placement continues the results that are placed already, and drops a
\* batch only when all of its results are there.
LEMMA PlacementKeepsOrder ==
  ASSUME TypeOK, EffectInvariant, NEW r \in Readers, CommitPlacement(r)
  PROVE  KeepsOrder
<1>1. placing[r] \subseteq Calls /\ \A c \in placing[r] : calls[c] \in Ready
  BY DEF TypeOK, PassTypeOK, EffectInvariant, PlacementIsCurrent
<1>2. \A c \in placing[r] : \A d \in 1 .. c : d \in placing[r] \/ calls[d] \in Done
  BY DEF EffectInvariant, PlacementsFollowOrder
<1>3. \A c \in Calls : \A d \in 1 .. (c - 1) : d \in Calls /\ d \in 1 .. c
  BY BoundsAssumption DEF Calls
<1>4. CASE \A c \in Batch : Placed(placing[r])[c] \in Done
  <2>1. \A c \in Calls : calls'[c] = "none"
    BY <1>4 DEF CommitPlacement, CloseBatch, AllCalls
  <2>2. \A c \in Calls : calls[c] # "none" => calls[c] \in Ready \union Done
    BY <1>1, <1>4 DEF Batch, Placed
  <2> QED
    BY <2>1, <2>2 DEF KeepsOrder, Done
<1>5. CASE ~\A c \in Batch : Placed(placing[r])[c] \in Done
  <2>1. calls' = Placed(placing[r])
    BY <1>5 DEF CommitPlacement
  <2>2. \A c \in Calls : calls'[c] = calls[c] \/ (c \in placing[r] /\ calls'[c] \in Done)
    BY <2>1 DEF Placed, Done
  <2>3. \A c \in placing[r] : calls'[c] \in Done
    BY <1>1, <2>1 DEF Placed, Done
  <2>4. ASSUME NEW c \in Calls, calls[c] \notin Done, calls'[c] \in Done,
               NEW d \in 1 .. (c - 1)
        PROVE  calls'[d] \in Done
    <3>1. c \in placing[r]
      BY <2>2, <2>4
    <3>2. d \in Calls /\ d \in 1 .. c
      BY <1>3, <2>4
    <3>3. d \in placing[r] \/ calls[d] \in Done
      BY <1>2, <3>1, <3>2
    <3> QED
      BY <2>2, <2>3, <3>2, <3>3
  <2>5. ASSUME NEW c \in Calls, calls[c] # "none" PROVE calls'[c] # "none"
    BY <2>2, <2>5 DEF Done
  <2> QED
    BY <2>4, <2>5 DEF KeepsOrder
<1> QED
  BY <1>4, <1>5

\* Results of a batch enter the transcript in source order, in whatever order
\* the tools return, and the batch ends only when every call has its result.
THEOREM ResultsAreOrdered == Spec => ResultsInSourceOrder
<1>1. TypeOK /\ EffectInvariant /\ [Next]_vars => [KeepsOrder]_vars
  <2>1. SUFFICES ASSUME TypeOK, EffectInvariant, [Next]_vars PROVE KeepsOrder
    OBVIOUS
  <2>2. CASE /\ op.at # "tools"
             /\ \A c \in Calls : calls'[c] \in {"none", "planned", calls[c]}
    <3>1. \A c \in Calls : calls[c] = "none"
      BY <2>1, <2>2 DEF EffectInvariant, NothingIsRepeated, AllCalls
    <3> QED
      BY <2>2, <3>1 DEF KeepsOrder, Done
  <2>3. CASE \A c \in Calls : calls'[c] = calls[c] \/ calls'[c] \in Pending \union Ready
    BY <2>3 DEF KeepsOrder, Pending, Ready, Done
  <2> QED
    BY <2>1, <2>2, <2>3, CallsChange, PlacementKeepsOrder
<1> QED
  BY <1>1, TypeCorrect, EffectProtocol, PTL DEF Spec, ResultsInSourceOrder, KeepsOrder

----------------------------------------------------------------------------
(* Serial execution.                                                        *)

OnTheWay == {"hook", "intent", "replay", "invoke"}

\* A step of an invocation: the pass and the other invocations stay, results that
\* are placed stay placed while a call is on its way, and a call sets out when
\* CanStart allows it.
LEMMA InvocationSerial ==
  ASSUME TypeOK, EffectInvariant, NEW c \in Calls, InvocationStep(c)
  PROVE  /\ pass' = pass /\ \A d \in Calls \ {c} : exec'[d] = exec[d]
         /\ exec'[c] \in OnTheWay => exec[c] \in OnTheWay \/ CanStart(c)
         /\ \A e \in Calls : exec'[e] \in OnTheWay =>
              \A d \in Calls : calls[d] \in Done => calls'[d] \in Done
<1>1. /\ exec \in [Calls -> ExecType] /\ calls \in [Calls -> CallTypes]
      /\ \A d \in Calls : calls[d] \in CallOf(d)
  BY DEF TypeOK, PassTypeOK, BatchTypeOK, EffectInvariant, NothingIsRepeated
<1>2. pass' = pass /\ \E state \in ExecType : exec' = [exec EXCEPT ![c] = state]
  <2>1. pass' = pass
    BY DEF InvocationStep, StartPlanned, RefusePlanned, ToolHookReturns, PublishToolIntent,
       RecoverCall, ClearReplayCheckpoint, InvokeTool, WriteScratch, ToolReturns,
       PublishToolOutcome, ReadPlacement, PlaceResults, passVars
  <2>2. CASE WriteScratch(c)
    BY <1>1, <2>1, <2>2 DEF WriteScratch, passVars
  <2>3. CASE ~WriteScratch(c)
    BY <2>1, <2>3 DEF InvocationStep, StartPlanned, RefusePlanned, ToolHookReturns,
       PublishToolIntent, RecoverCall, ClearReplayCheckpoint, InvokeTool, ToolReturns,
       PublishToolOutcome, ReadPlacement, PlaceResults, Move, ExecType
  <2> QED
    BY <2>2, <2>3, <2>1
<1>3. exec'[c] \in OnTheWay => exec[c] \in OnTheWay \/ CanStart(c)
  BY <1>1 DEF OnTheWay, InvocationStep, StartPlanned, RefusePlanned, ToolHookReturns,
     PublishToolIntent, RecoverCall, ClearReplayCheckpoint, InvokeTool, WriteScratch,
     ToolReturns, PublishToolOutcome, ReadPlacement, PlaceResults, Move, passVars
<1>4. CASE PlaceResults(c)
  <2>1. exec[c] = "placing" /\ exec'[c] = "end" /\ CommitPlacement(c)
    BY <1>1, <1>4 DEF PlaceResults, Move
  <2>2. ASSUME NEW e \in Calls, exec'[e] \in OnTheWay, NEW d \in Calls, calls[d] \in Done
        PROVE  calls'[d] \in Done
    <3>1. exec[e] \in OnTheWay
      BY <1>2, <2>1, <2>2, <1>1 DEF OnTheWay
    <3>2. calls[e] \in {"planned"} \union Pending
      BY <1>1, <3>1 DEF CallOf, OnTheWay, Pending
    <3>3. e \in Batch /\ Placed(placing[c])[e] \notin Done
      <4>1. e \notin placing[c]
        <5>1. c \in Readers
          BY BoundsAssumption DEF Readers, Calls
        <5> QED
          BY <3>2, <5>1 DEF EffectInvariant, PlacementIsCurrent, Ready, Pending
      <4> QED
        BY <3>2, <4>1 DEF Batch, Placed, Pending, Done
    <3>4. calls' = Placed(placing[c])
      BY <2>1, <3>3 DEF CommitPlacement
    <3> QED
      BY <2>2, <3>4 DEF Placed, Done
  <2> QED
    BY <1>2, <1>3, <1>1, <2>2
<1>5. CASE ~PlaceResults(c)
  <2>1. calls' = calls \/ (calls[c] \notin Done /\ \E state : calls' = [calls EXCEPT ![c] = state])
    <3>1. exec[c] \in {"intent", "outcome", "outcome_term"} => calls[c] \notin Done
      BY <1>1 DEF CallOf, Pending, Done
    <3> QED
      BY <1>5, <3>1 DEF InvocationStep, StartPlanned, RefusePlanned, ToolHookReturns,
         PublishToolIntent, RecoverCall, ClearReplayCheckpoint, InvokeTool, WriteScratch,
         ToolReturns, PublishToolOutcome, ReadPlacement, KeepBatch, batchVars
  <2> QED
    BY <1>1, <1>2, <1>3, <2>1
<1> QED
  BY <1>4, <1>5

LEMMA SerialStep ==
  ASSUME TypeOK, GateInvariant, EffectInvariant, SerialMatches, [Next]_vars
  PROVE  SerialMatches'
<1>1. ASSUME exec' = AllCalls("idle") PROVE SerialMatches'
  BY <1>1 DEF SerialMatches, AllCalls
<1>2. pass.pc # "tools" => exec = AllCalls("idle")
  BY DEF GateInvariant, PassIsOwned
<1>3. ASSUME UNCHANGED <<calls, exec>>, pass'.serial = pass.serial PROVE SerialMatches'
  BY <1>3 DEF SerialMatches
<1>4. CASE HookStep \/ ProviderStep \/ ProcedureStep
  <2>1. pass.pc # "tools"
    BY <1>4 DEF HookStep, DriveHookReturns, RunHookReturns, EndHookReturns,
       PublishGenerationIntent, PublishPollIntent, ProviderStep, ProviderAnswers,
       StreamFrame, ProcedureStep, BeforeDrive, CancellationArrives, DispatchCancelled,
       Reconcile, StartRun, Checkpoint, PrepareGeneration, ConfigurationFailure,
       PrepareDeferredPoll, CallProvider, RecoverGeneration, PublishResponse,
       RetryWait, TimerEnds, StartRetry, Command, Pass
  <2>2. exec' = exec \/ exec' = AllCalls("idle")
    BY <1>4 DEF HookStep, DriveHookReturns, RunHookReturns, EndHookReturns,
       PublishGenerationIntent, PublishPollIntent, ProviderStep, ProviderAnswers,
       StreamFrame, ProcedureStep, BeforeDrive, CancellationArrives, DispatchCancelled,
       Reconcile, StartRun, Checkpoint, PrepareGeneration, ConfigurationFailure,
       PrepareDeferredPoll, CallProvider, RecoverGeneration, PublishResponse,
       RetryWait, TimerEnds, StartRetry, ReleasePass, KeepProcess
  <2> QED
    BY <1>1, <1>2, <2>1, <2>2
<1>5. CASE ClearPass \/ Stop \/ LeaveTools
  BY <1>1, <1>5 DEF ClearPass, ReleasePass, Stop, LeaveTools
<1>6. CASE EnterTools \/ PlaceLeftovers \/ \E policy \in Policies : InstallPass(policy)
  BY <1>1, <1>2, <1>6 DEF EnterTools, PlaceLeftovers, InstallPass, Pass
<1>7. CASE \/ UNCHANGED vars \/ CommitAbort \/ Restart \/ TimePasses
           \/ \E p \in BOOLEAN : AcceptRun(p)
           \/ \E i \in Items, k \in Kinds : Enqueue(i, k) \/ Append(i, k)
           \/ \E i \in Items : CancelQueued(i)
           \/ \E id \in Ops, claimed \in BOOLEAN : RequestAbort(id, claimed)
  <2>1. UNCHANGED <<calls, exec>>
    BY <1>7 DEF vars, CommitAbort, Restart, TimePasses, AcceptRun, Enqueue, Append, Appended,
       CancelQueued, RequestAbort, batchVars, passVars
  <2>2. pass'.serial = pass.serial
    <3>1. pass \in PassType
      BY DEF TypeOK, PassTypeOK
    <3>2. CASE CommitAbort \/ \E id \in Ops, claimed \in BOOLEAN : RequestAbort(id, claimed)
      BY <3>1, <3>2 DEF CommitAbort, RequestAbort, PassType
    <3>3. CASE ~(CommitAbort \/ \E id \in Ops, claimed \in BOOLEAN : RequestAbort(id, claimed))
      BY <1>7, <3>3 DEF vars, Restart, TimePasses, AcceptRun, Enqueue, Append, Appended,
         CancelQueued, passVars
    <3> QED
      BY <3>2, <3>3
  <2> QED
    BY <1>3, <2>1, <2>2
<1>8. ASSUME NEW c \in Calls, InvocationStep(c) PROVE SerialMatches'
  <2>1. ASSUME pass'.serial, NEW e \in Calls, exec'[e] \in OnTheWay, NEW d \in 1 .. (e - 1)
        PROVE  calls'[d] \in Done
    <3>1. pass.serial /\ d \in Calls /\ d < e /\ d \in 1 .. e
      BY <1>8, <2>1, InvocationSerial, BoundsAssumption DEF Calls
    <3>2. CASE exec[e] \in OnTheWay
      BY <1>8, <2>1, <3>1, <3>2, InvocationSerial DEF SerialMatches, OnTheWay
    <3>3. CASE exec[e] \notin OnTheWay
      <4>1. e = c /\ CanStart(c)
        BY <1>8, <2>1, <3>3, InvocationSerial
      <4>2. calls[e] # "none"
        BY <4>1 DEF CanStart, Pending
      <4>3. d \in Before(c)
        BY <3>1, <4>1, <4>2 DEF Before, Batch, EffectInvariant, PlacementsFollowOrder
      <4>4. calls[d] \in Done
        BY <3>1, <4>1, <4>3 DEF CanStart
      <4> QED
        BY <1>8, <2>1, <3>1, <4>4, InvocationSerial
    <3> QED
      BY <3>2, <3>3
  <2> QED
    BY <2>1 DEF SerialMatches, OnTheWay
<1> QED
  BY <1>4, <1>5, <1>6, <1>7, <1>8 DEF Next, PassStep, HostStep, ToolStep

\* Under sequential execution a tool starts only when the results of all the calls
\* before it are in the transcript, in every pass that runs the batch.
THEOREM SerialToolsWait == Spec => SerialToolsFollowResults
<1> DEFINE Follows == pass.serial => \A c \in Calls : ToolStarts(c) =>
                        \A d \in 1 .. (c - 1) : calls[d] \in Done
<1>1. Init => SerialMatches
  BY DEF Init, SerialMatches, NoPass
<1>2. Spec => []SerialMatches
  BY <1>1, SerialStep, TypeCorrect, GateProtocol, EffectProtocol, PTL DEF Spec
<1>3. TypeOK /\ SerialMatches /\ [Next]_vars => [Follows]_vars
  BY OnlyInvokeToolStarts DEF SerialMatches
<1> QED
  BY <1>2, <1>3, TypeCorrect, PTL DEF Spec, SerialToolsFollowResults

----------------------------------------------------------------------------
(* What is stored beside the operation.                                     *)

\* Items enter the inbox with their payload and leave it with it.
LEMMA InboxChanges ==
  ASSUME [Next]_vars
  PROVE  \/ UNCHANGED <<fate, payload>>
         \/ \E S : Deliver(S)
         \/ \E i \in Items, k \in Kinds : Enqueue(i, k) \/ Append(i, k)
         \/ \E i \in Items : CancelQueued(i)
         \/ CommitAbort
<1>1. CASE UNCHANGED vars
  BY <1>1 DEF vars, inboxVars
<1>2. CASE HostStep
  BY <1>2 DEF HostStep, AcceptRun, RequestAbort, InstallPass, inboxVars
<1>3. CASE Stop \/ Restart \/ TimePasses \/ ClearPass
  BY <1>3 DEF Stop, Restart, TimePasses, ClearPass, inboxVars
<1>4. CASE HookStep \/ ProviderStep
  BY <1>4 DEF HookStep, DriveHookReturns, RunHookReturns, EndHookReturns,
     PublishGenerationIntent, PublishPollIntent, ProviderStep, ProviderAnswers,
     StreamFrame, KeepDurable, inboxVars
<1>5. CASE ProcedureStep
  BY <1>5 DEF ProcedureStep, BeforeDrive, CancellationArrives, DispatchCancelled,
     Reconcile, StartRun, Checkpoint, PrepareGeneration, ConfigurationFailure,
     PrepareDeferredPoll, CallProvider, RecoverGeneration, PublishResponse,
     RetryWait, TimerEnds, StartRetry, KeepDurable, inboxVars
<1>6. CASE ToolStep
  BY <1>6 DEF ToolStep, EnterTools, PlaceLeftovers, LeaveTools, CommitPlacement,
     InvocationStep, StartPlanned, RefusePlanned, ToolHookReturns, PublishToolIntent,
     RecoverCall, ClearReplayCheckpoint, InvokeTool, WriteScratch, ToolReturns,
     PublishToolOutcome, ReadPlacement, PlaceResults, KeepLane, inboxVars
<1> QED
  BY <1>1, <1>2, <1>3, <1>4, <1>5, <1>6 DEF Next, PassStep

LEMMA PayloadStep ==
  ASSUME TypeOK, PayloadsMatch, [Next]_vars
  PROVE  PayloadsMatch'
<1>1. fate \in [Items -> Fates]
  BY DEF TypeOK, InboxTypeOK
<1> USE DEF PayloadsMatch, Queued
<1>2. CASE UNCHANGED <<fate, payload>>
  BY <1>2
<1>3. ASSUME NEW S, Deliver(S) PROVE PayloadsMatch'
  BY <1>3 DEF Deliver
<1>4. ASSUME NEW i \in Items, NEW k \in Kinds, Enqueue(i, k) PROVE PayloadsMatch'
  BY <1>1, <1>4 DEF Enqueue
<1>5. ASSUME NEW i \in Items, NEW k \in Kinds, Append(i, k) PROVE PayloadsMatch'
  <2>1. PICK S : Appended(i, k, S)
    BY <1>5 DEF Append
  <2>2. CASE S = {}
    BY <1>1, <2>1, <2>2 DEF Appended
  <2>3. CASE S # {}
    BY <2>1, <2>3 DEF Appended
  <2> QED
    BY <2>2, <2>3
<1>6. ASSUME NEW i \in Items, CancelQueued(i) PROVE PayloadsMatch'
  BY <1>1, <1>6 DEF CancelQueued
<1>7. CASE CommitAbort
  <2>1. PICK S : /\ fate' = [i \in Items |-> IF i \in S THEN "drained" ELSE fate[i]]
                 /\ payload' = payload \ S
    BY <1>7 DEF CommitAbort
  <2> QED
    BY <2>1
<1> QED
  BY <1>2, <1>3, <1>4, <1>5, <1>6, <1>7, InboxChanges

\* A settled operation leaves no batch and no frames.
LEMMA SettleStores ==
  ASSUME EffectInvariant, BatchMatches, FramesMatch, NEW status, Settle(status)
  PROVE  BatchMatches' /\ FramesMatch'
<1>1. staged' = {}
  <2>1. CASE op.at = "tools"
    BY <2>1 DEF Settle, BatchMatches
  <2>2. CASE op.at # "tools"
    <3>1. \A c \in Calls : calls[c] = "none"
      BY <2>2 DEF EffectInvariant, NothingIsRepeated, AllCalls
    <3> QED
      BY <2>2, <3>1 DEF Settle, BatchMatches, Ready
  <2> QED
    BY <2>1, <2>2
<1>2. \A c \in Calls : calls'[c] = "none"
  BY DEF Settle, DropBatch, AllCalls
<1>3. BatchMatches'
  BY <1>1, <1>2 DEF BatchMatches, Settle, DropBatch, Ready, Pending
<1>4. FramesMatch'
  BY DEF FramesMatch, Settle, NoOperation, EffectPending
<1> QED
  BY <1>3, <1>4

\* Steps that leave the batch alone and do not leave it.
LEMMA BatchKept ==
  ASSUME BatchMatches, UNCHANGED batchVars, op'.at # "tools" => op.at # "tools"
  PROVE  BatchMatches'
  BY DEF BatchMatches, batchVars

LEMMA FramesKept ==
  ASSUME FramesMatch, frames' \subseteq frames, op'.id = op.id, op'.at = op.at
  PROVE  FramesMatch'
  BY DEF FramesMatch

\* Steps from one leaf to another, neither of which has an effect pending.
LEMMA FramesLeft ==
  ASSUME FramesMatch, frames' \subseteq frames \ {"current"}, op'.id # 0
  PROVE  FramesMatch'
  BY DEF FramesMatch

LEMMA StoresHost ==
  ASSUME TypeOK, GateInvariant, EffectInvariant, BatchMatches, FramesMatch,
         \/ UNCHANGED vars
         \/ HostStep \/ CommitAbort \/ ClearPass \/ Stop \/ Restart \/ TimePasses
  PROVE  BatchMatches' /\ FramesMatch'
<1>1. UNCHANGED <<batchVars, frames>>
  BY DEF vars, HostStep, AcceptRun, Enqueue, Append, Appended, CancelQueued,
     RequestAbort, InstallPass, CommitAbort, ClearPass, Stop, Restart, TimePasses,
     responseVars
<1>2. CASE \E p \in BOOLEAN : AcceptRun(p)
  <2>1. op.at = "starting" /\ op'.at = "starting" /\ frames = {}
    BY <1>2 DEF AcceptRun, Idle, FramesMatch, NoOperation, EffectPending
  <2> QED
    BY <1>1, <2>1, BatchKept DEF FramesMatch, EffectPending
<1>3. CASE ~\E p \in BOOLEAN : AcceptRun(p)
  <2>1. op'.id = op.id /\ op'.at = op.at
    <3>1. CASE CommitAbort
      BY <3>1 DEF CommitAbort, TypeOK, OperationTypeOK, OperationType
    <3>2. CASE ~CommitAbort
      BY <1>3, <3>2 DEF vars, HostStep, Enqueue, Append, Appended, CancelQueued,
         RequestAbort, InstallPass, ClearPass, Stop, Restart, TimePasses, operationVars
    <3> QED
      BY <3>1, <3>2
  <2> QED
    BY <1>1, <2>1, BatchKept, FramesKept
<1> QED
  BY <1>2, <1>3

LEMMA StoresProcedures ==
  ASSUME TypeOK, GateInvariant, EffectInvariant, BatchMatches, FramesMatch,
         HookStep \/ ProviderStep \/ ProcedureStep
  PROVE  BatchMatches' /\ FramesMatch'
<1>1. op \in OperationType /\ op.id # 0
  <2>1. Driving
    BY DEF HookStep, DriveHookReturns, RunHookReturns, EndHookReturns,
       PublishGenerationIntent, PublishPollIntent, ProviderStep, ProviderAnswers,
       StreamFrame, ProcedureStep, BeforeDrive, CancellationArrives, DispatchCancelled,
       Reconcile, StartRun, Checkpoint, PrepareGeneration, ConfigurationFailure,
       PrepareDeferredPoll, CallProvider, RecoverGeneration, PublishResponse,
       RetryWait, TimerEnds, StartRetry, Command, Pass, Driving
  <2> QED
    BY <2>1 DEF TypeOK, OperationTypeOK, GateInvariant, PassIsOwned
<1>2. ASSUME KeepDurable PROVE BatchMatches' /\ FramesMatch'
  BY <1>2, BatchKept, FramesKept DEF KeepDurable, operationVars, responseVars
<1>3. ASSUME UNCHANGED <<batchVars, frames>>, op.at \notin EffectPending, op.at # "tools",
             NEW leaf, NEW cont, NEW attempt, Advance(leaf, cont, attempt)
      PROVE  BatchMatches' /\ FramesMatch'
  <2>1. op'.id # 0
    BY <1>1, <1>3 DEF Advance, OperationType
  <2> QED
    BY <1>3, <2>1, BatchKept, FramesLeft DEF FramesMatch
<1>4. CASE \E status : Settle(status)
  BY <1>4, SettleStores
<1>5. CASE \/ BeforeDrive \/ DriveHookReturns \/ CancellationArrives \/ DispatchCancelled
           \/ StartRun \/ PrepareGeneration \/ PrepareDeferredPoll \/ RecoverGeneration
           \/ RetryWait \/ TimerEnds \/ \E reply : ProviderAnswers(reply)
  BY <1>2, <1>5 DEF BeforeDrive, DriveHookReturns, CancellationArrives, DispatchCancelled,
     StartRun, PrepareGeneration, PrepareDeferredPoll, RecoverGeneration, RetryWait,
     TimerEnds, ProviderAnswers
<1>6. CASE Reconcile \/ ConfigurationFailure
  BY <1>2, <1>4, <1>6 DEF Reconcile, ConfigurationFailure
<1>7. CASE RunHookReturns \/ StartRetry \/ Checkpoint
  BY <1>2, <1>3, <1>7 DEF RunHookReturns, StartRetry, Checkpoint, Command,
     ReadyForAssistant, responseVars, EffectPending
<1>8. ASSUME NEW followUp \in BOOLEAN, EndHookReturns(followUp)
      PROVE  BatchMatches' /\ FramesMatch'
  BY <1>2, <1>3, <1>4, <1>8 DEF EndHookReturns, Command, ReadyForAssistant, responseVars,
     EffectPending
<1>9. CASE PublishGenerationIntent \/ PublishPollIntent
  <2>1. CASE KeepDurable
    BY <1>2, <2>1
  <2>2. CASE ~KeepDurable
    <3>1. UNCHANGED batchVars /\ op.at # "tools"
      BY <1>9, <2>2 DEF PublishGenerationIntent, PublishPollIntent, Command
    <3>2. frames' = {}
      BY <1>9, <2>2 DEF PublishGenerationIntent, PublishPollIntent, ReserveResponse, Command,
                        FramesMatch, EffectPending
    <3>3. op'.id # 0
      BY <1>1, <1>9, <2>2 DEF PublishGenerationIntent, PublishPollIntent, Advance, OperationType
    <3> QED
      BY <3>1, <3>2, <3>3, BatchKept DEF FramesMatch
  <2> QED
    BY <2>1, <2>2
<1>10. CASE CallProvider
  BY <1>10, BatchKept, FramesKept DEF CallProvider, operationVars
<1>11. CASE StreamFrame
  BY <1>11, BatchKept DEF StreamFrame, Command, FramesMatch, operationVars
<1>12. CASE PublishResponse /\ ~\E status : Settle(status)
  <2>1. /\ op.at \in EffectPending /\ op.at # "tools"
        /\ frames' = frames \ {"current"} /\ UNCHANGED <<args, scratch, staged>>
        /\ calls' = calls \/ \E n \in Calls : PlanBatch(n)
    BY <1>12 DEF PublishResponse, Command, EffectPending
  <2>2. op'.id # 0
    <3>1. \E leaf, cont, attempt : Advance(leaf, cont, attempt)
      BY <1>12 DEF PublishResponse
    <3> QED
      BY <1>1, <3>1 DEF Advance, OperationType
  <2>3. FramesMatch'
    BY <2>1, <2>2, FramesLeft
  <2>4. \A c \in Calls : calls[c] = "none" /\ calls'[c] \in {"none", "planned"}
    <3>1. \A c \in Calls : calls[c] = "none"
      BY <2>1 DEF EffectInvariant, NothingIsRepeated, AllCalls
    <3> QED
      BY <2>1, <3>1 DEF PlanBatch
  <2>5. BatchMatches'
    BY <2>1, <2>4 DEF BatchMatches, Ready, Pending
  <2> QED
    BY <2>3, <2>5
<1> QED
  BY <1>4, <1>5, <1>6, <1>7, <1>8, <1>9, <1>10, <1>11, <1>12
  DEF HookStep, ProviderStep, ProcedureStep

LEMMA StoresInvocation ==
  ASSUME TypeOK, EffectInvariant, BatchMatches, NEW c \in Calls, InvocationStep(c),
         ~PlaceResults(c)
  PROVE  BatchMatches'
<1>1. /\ calls \in [Calls -> CallTypes] /\ exec \in [Calls -> ExecType]
      /\ calls[c] \in CallOf(c)
  BY DEF TypeOK, BatchTypeOK, PassTypeOK, EffectInvariant, NothingIsRepeated
<1>2. op' = op
  BY DEF InvocationStep, StartPlanned, RefusePlanned, ToolHookReturns, PublishToolIntent,
     RecoverCall, ClearReplayCheckpoint, InvokeTool, WriteScratch, ToolReturns,
     PublishToolOutcome, ReadPlacement, KeepLane, operationVars
<1>3. calls[c] \in {"planned"} \union Pending => op.at = "tools"
  BY DEF EffectInvariant, NothingIsRepeated, AllCalls, Pending
<1>4. CASE UNCHANGED batchVars
  BY <1>2, <1>4, BatchKept
<1>5. ASSUME NEW replay \in Pending, PublishToolIntent(c, replay) PROVE BatchMatches'
  <2>1. calls[c] = "planned"
    BY <1>1, <1>5 DEF PublishToolIntent, CallOf
  <2>2. CASE op.cancelled
    BY <1>4, <1>5, <2>2 DEF PublishToolIntent, KeepBatch
  <2>3. CASE ~op.cancelled
    <3>1. /\ calls' = [calls EXCEPT ![c] = replay] /\ args' = args \union {c}
          /\ UNCHANGED <<scratch, staged>>
      BY <1>5, <2>3 DEF PublishToolIntent
    <3>2. calls'[c] \in Pending /\ \A d \in Calls \ {c} : calls'[d] = calls[d]
      BY <1>1, <3>1
    <3> QED
      BY <1>2, <1>3, <2>1, <3>1, <3>2 DEF BatchMatches, Pending, Ready
  <2> QED
    BY <2>2, <2>3
<1>6. CASE ClearReplayCheckpoint(c) \/ WriteScratch(c)
  BY <1>2, <1>6 DEF ClearReplayCheckpoint, WriteScratch, BatchMatches
<1>7. CASE PublishToolOutcome(c)
  <2>1. /\ staged' = staged \union {c} /\ scratch' = scratch \ {c} /\ args' = args
        /\ \E state \in Ready : calls' = [calls EXCEPT ![c] = state]
    BY <1>7 DEF PublishToolOutcome, Ready
  <2>2. calls'[c] \in Ready /\ \A d \in Calls \ {c} : calls'[d] = calls[d]
    BY <1>1, <2>1
  <2> QED
    BY <1>2, <2>1, <2>2 DEF BatchMatches, Pending, Ready
<1> QED
  BY <1>4, <1>5, <1>6, <1>7 DEF InvocationStep, StartPlanned, RefusePlanned, ToolHookReturns,
     RecoverCall, InvokeTool, ToolReturns, ReadPlacement, KeepBatch

LEMMA StoresPlacement ==
  ASSUME TypeOK, EffectInvariant, BatchMatches, NEW r \in Readers, CommitPlacement(r)
  PROVE  BatchMatches'
<1>1. placing[r] \subseteq Calls /\ \A c \in placing[r] : calls[c] \in Ready
  BY DEF TypeOK, PassTypeOK, EffectInvariant, PlacementIsCurrent
<1>2. staged' = staged \ placing[r] /\ scratch' = scratch
  BY DEF CommitPlacement
<1>3. CASE \A c \in Batch : Placed(placing[r])[c] \in Done
  <2>1. args' = {} /\ \A c \in Calls : calls'[c] = "none"
    BY <1>3 DEF CommitPlacement, CloseBatch, AllCalls
  <2>2. \A c \in Calls : c \in placing[r] \/ calls[c] \in Done \union {"none"}
    BY <1>3 DEF Batch, Placed
  <2>3. \A c \in Calls : calls[c] \notin Pending /\ (calls[c] \in Ready => c \in placing[r])
    BY <1>1, <2>2 DEF Pending, Ready, Done
  <2> QED
    BY <1>2, <2>1, <2>3 DEF BatchMatches, Ready, Pending
<1>4. CASE ~\A c \in Batch : Placed(placing[r])[c] \in Done
  <2>1. calls' = Placed(placing[r]) /\ UNCHANGED <<op, args>>
    BY <1>4 DEF CommitPlacement
  <2>2. \A c \in Calls : IF c \in placing[r] THEN calls'[c] \in Done ELSE calls'[c] = calls[c]
    BY <2>1 DEF Placed, Done
  <2> QED
    BY <1>1, <1>2, <2>1, <2>2 DEF BatchMatches, Ready, Pending, Done
<1> QED
  BY <1>3, <1>4

\* A placement commits what was read, so the lane is in a tool batch.
LEMMA PlacementFrames ==
  ASSUME TypeOK, EffectInvariant, FramesMatch, NEW r \in Readers, placing[r] # {},
         CommitPlacement(r)
  PROVE  FramesMatch'
<1>1. PICK c \in Calls : calls[c] \in Ready
  BY DEF TypeOK, PassTypeOK, EffectInvariant, PlacementIsCurrent
<1>2. op.id # 0 /\ op.at = "tools"
  BY <1>1 DEF EffectInvariant, NothingIsRepeated, AllCalls, Ready
<1>3. frames' = {}
  BY <1>2 DEF FramesMatch, CommitPlacement, responseVars, EffectPending
<1>4. op'.id = op.id
  BY DEF CommitPlacement, CloseBatch, TypeOK, OperationTypeOK, OperationType
<1> QED
  BY <1>2, <1>3, <1>4 DEF FramesMatch

LEMMA StoresTools ==
  ASSUME TypeOK, EffectInvariant, BatchMatches, FramesMatch, ToolStep
  PROVE  BatchMatches' /\ FramesMatch'
<1>1. 0 \in Readers /\ \A c \in Calls : c \in Readers
  BY BoundsAssumption DEF Readers, Calls
<1>2. ASSUME NEW r \in Readers, placing[r] # {}, CommitPlacement(r)
      PROVE  BatchMatches' /\ FramesMatch'
  BY <1>2, StoresPlacement, PlacementFrames
<1>3. ASSUME KeepLane PROVE FramesMatch'
  BY <1>3, FramesKept DEF KeepLane, operationVars, responseVars
<1>4. ASSUME KeepLane, KeepBatch PROVE BatchMatches'
  BY <1>4, BatchKept DEF KeepLane, KeepBatch, operationVars
<1>5. CASE EnterTools \/ PlaceLeftovers \/ LeaveTools
  BY <1>1, <1>2, <1>3, <1>4, <1>5 DEF EnterTools, PlaceLeftovers, LeaveTools
<1>6. ASSUME NEW c \in Calls, InvocationStep(c), PlaceResults(c)
      PROVE  BatchMatches' /\ FramesMatch'
  BY <1>1, <1>2, <1>6 DEF PlaceResults, EffectInvariant, PlacementsAreChained
<1>7. ASSUME NEW c \in Calls, InvocationStep(c), ~PlaceResults(c)
      PROVE  BatchMatches' /\ FramesMatch'
  <2>1. KeepLane
    BY <1>7 DEF InvocationStep, StartPlanned, RefusePlanned, ToolHookReturns, PublishToolIntent,
       RecoverCall, ClearReplayCheckpoint, InvokeTool, WriteScratch, ToolReturns,
       PublishToolOutcome, ReadPlacement
  <2> QED
    BY <1>3, <1>7, <2>1, StoresInvocation
<1> QED
  BY <1>5, <1>6, <1>7 DEF ToolStep

LEMMA StoresInit == Init => StoresInvariant
  BY DEF Init, StoresInvariant, PayloadsMatch, Queued, BatchMatches, FramesMatch, AllCalls,
         NoOperation, EffectPending, Ready, Pending

LEMMA StoresNext ==
  ASSUME TypeOK, GateInvariant, EffectInvariant, StoresInvariant, [Next]_vars
  PROVE  StoresInvariant'
<1>1. PayloadsMatch'
  BY PayloadStep DEF StoresInvariant
<1>2. BatchMatches' /\ FramesMatch'
  BY StoresHost, StoresProcedures, StoresTools DEF StoresInvariant, Next, PassStep
<1> QED
  BY <1>1, <1>2 DEF StoresInvariant

\* Payloads are of queued items, staged results of ready calls, arguments, memos
\* and checkpoints of calls under way, and frames of the pending response.
LEMMA StoresProtocol == Spec => []StoresInvariant
  BY StoresInit, StoresNext, TypeCorrect, GateProtocol, EffectProtocol, PTL DEF Spec

\* Over any number of runs, passes, cancellations and stops nothing stays in the
\* Session that no procedure will read or delete.
THEOREM NothingStays == Spec => []NothingLeftBehind
<1>1. TypeOK /\ StoresInvariant => NothingLeftBehind
  BY DEF StoresInvariant, PayloadsMatch, BatchMatches, FramesMatch, NothingLeftBehind
<1> QED
  BY <1>1, StoresProtocol, TypeCorrect, PTL

\* A pass that waited for a cancellation finds it durable: who closed the gate has
\* signalled it, or its request is still queued.
LEMMA WaitsEnd ==
  ASSUME GateInvariant, pass.pc = "wait_cancel", CancellationSettled
  PROVE  op.cancelled
<1>1. Driving /\ pass.aborting
  BY DEF GateInvariant, PassIsOwned, WaitsHaveCause, Driving
<1>2. ~abort.holds
  BY DEF GateInvariant, RequestIsOwned, CancellationSettled
<1> QED
  BY <1>1, <1>2 DEF GateInvariant, ClosedGateHasCause, SignalHasCause

\* No procedure meets a state that its code rejects with SessionInvariantError,
\* which would fault the harness.
THEOREM NothingFaults == Spec => []NoInvariantFault
<1>1. TypeOK /\ GateInvariant /\ StoresInvariant => NoInvariantFault
  BY WaitsEnd DEF GateInvariant, PassIsOwned, WaitsHaveCause, StoresInvariant, PayloadsMatch,
     BatchMatches, NoInvariantFault
<1> QED
  BY <1>1, StoresProtocol, GateProtocol, TypeCorrect, PTL

=============================================================================
