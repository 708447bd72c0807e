------------------------------ MODULE LaneState ------------------------------
(****************************************************************************)
(* The state of one lane of an AgentHarness: what its Session stores (the   *)
(* current operation, the inbox, the tool batch, the partial response) and  *)
(* what only the process knows (the installed drive pass, its effect gate,  *)
(* the abort request being processed).  The operators here are the writes   *)
(* that several procedures share.                                           *)
(*                                                                          *)
(* Every command of a lane reads its state, plans and commits once while it *)
(* holds the Session's mutation line, so a command is one atomic step of    *)
(* this specification.  What the process does between two commands (hooks,  *)
(* provider requests, tools, timers) is where steps interleave.             *)
(****************************************************************************)
EXTENDS Naturals, FiniteSets

CONSTANTS
  MaxOps,       \* operations a host may have accepted
  MaxItems,     \* inbox items and idle appends, numbered in order of their ids
  MaxAttempts,  \* retryPolicy.maxRetries + 1
  MaxCalls,     \* tool calls in one assistant response
  MaxTurns,     \* replies and hook follow-ups that extend a run
  MaxStops,     \* times the process crashes, closes or faults
  Kinds,        \* kinds of item the host submits
  Replies,      \* kinds of response the provider gives
  SteerAll,     \* steeringMode = "all"
  FollowUpAll,  \* followUpMode = "all"
  Serial,       \* operations accepted with toolExecution = "sequential"
  Policies      \* the DriveOptions hosts use: [permit, waits]

ItemKinds  == {"steer", "followUp", "nextRun", "write", "note"}
ReplyKinds == {"stop", "tools", "error", "fatal", "deferred"}
PolicyType == [permit : BOOLEAN, waits : BOOLEAN]

ASSUME BoundsAssumption ==
  /\ MaxOps \in Nat \ {0} /\ MaxItems \in Nat /\ MaxAttempts \in Nat \ {0}
  /\ MaxCalls \in Nat \ {0} /\ MaxTurns \in Nat /\ MaxStops \in Nat
ASSUME SettingsAssumption ==
  /\ SteerAll \in BOOLEAN /\ FollowUpAll \in BOOLEAN /\ Serial \subseteq 1 .. MaxOps
ASSUME ChoicesAssumption ==
  /\ Kinds \subseteq ItemKinds /\ Replies \subseteq ReplyKinds
  /\ Policies \subseteq PolicyType

Ops   == 1 .. MaxOps
Items == 1 .. MaxItems
Calls == 1 .. MaxCalls
Readers == 0 .. MaxCalls

VARIABLES
  (* durable *)
  op,        \* the current operation; id 0 when the lane is idle
  accepted,  \* operations accepted so far
  results,   \* operationResult records
  kind,      \* kind of each inbox item
  fate,      \* what became of each item; the inbox is the queued ones
  payload,   \* items with a pending entry payload
  calls,     \* status of each call of the current batch
  args,      \* calls with persisted arguments
  scratch,   \* calls with a memo or an output checkpoint
  staged,    \* calls with a staged result payload
  frames,    \* frame lists: of the pending response, of one it replaced
  due,       \* notBefore of the retry wait has passed
  (* process-local *)
  up,        \* an open harness owns the Session
  pass,      \* the installed drive pass
  exec,      \* progress of each tool invocation in this pass
  placing,   \* results that each reader (0 is the pass, c the invocation of
             \* call c) has read for placement and not yet committed
  abort,     \* the abort request whose command is still queued, the pass it
             \* captured, and whether a drive claim is queued ahead of it
  (* observation and bounds *)
  sent,      \* a request was made for the current response intent
  ran,       \* calls of this batch whose tool has been invoked
  turns, stops

operationVars == <<op, accepted, results>>
inboxVars     == <<kind, fate, payload>>
batchVars     == <<calls, args, scratch, staged>>
responseVars  == <<frames, due, sent>>
passVars      == <<pass, exec, placing>>
hostVars      == <<up, abort, turns, stops>>
vars == <<operationVars, inboxVars, batchVars, responseVars, passVars,
          hostVars, ran>>

Leaves == {"starting", "checkpoint", "assistant.ready",
           "assistant.effect_pending", "assistant.retry_wait", "tools",
           "deferred.suspended", "deferred.effect_pending"}
EffectPending == {"assistant.effect_pending", "deferred.effect_pending"}
Continuations == {"need_assistant", "may_finish"}
OperationType == [id : 0 .. MaxOps, at : Leaves, cancelled : BOOLEAN,
                  cont : Continuations, attempt : 0 .. MaxAttempts]
Statuses  == {"completed", "failed", "aborted"}
Fates     == {"new", "queued", "delivered", "cancelled", "drained"}
Ready     == {"ready", "ready_term"}
Done      == {"done", "done_term"}
Pending   == {"pending_never", "pending_safe"}
CallTypes == {"none", "planned"} \union Pending \union Ready \union Done

PcType == {"off", "begin", "drive_hook", "dispatch", "run_hook", "end_hook",
           "request_hook", "poll_hook", "call", "effect", "respond", "timer",
           "retry", "wait_cancel", "reconcile", "tools_place", "tools",
           "ending"}
Responses == ReplyKinds \union {"aborted", "interrupted", "none"}
PassType  == [op : 0 .. MaxOps, pc : PcType, aborting : BOOLEAN,
              signalled : BOOLEAN, permit : BOOLEAN, waits : BOOLEAN,
              serial : BOOLEAN, plan : SUBSET Items, response : Responses]
ExecType  == {"idle", "hook", "intent", "replay", "invoke", "run", "outcome",
              "outcome_term", "staged", "placing", "end"}
AbortType == [queued : BOOLEAN, op : 0 .. MaxOps, captured : BOOLEAN,
              holds : BOOLEAN, claimed : BOOLEAN]

NoOperation == [id |-> 0, at |-> "starting", cancelled |-> FALSE,
                cont |-> "need_assistant", attempt |-> 0]
NoPass  == [op |-> 0, pc |-> "off", aborting |-> FALSE, signalled |-> FALSE,
            permit |-> FALSE, waits |-> FALSE, serial |-> FALSE,
            plan |-> {}, response |-> "none"]
NoAbort == [queued |-> FALSE, op |-> 0, captured |-> FALSE,
            holds |-> FALSE, claimed |-> FALSE]

AllCalls(status) == [c \in Calls |-> status]
NothingRead == [r \in Readers |-> {}]

Init ==
  /\ op = NoOperation /\ accepted = 0 /\ results = [i \in Ops |-> "none"]
  /\ kind = [i \in Items |-> "write"] /\ fate = [i \in Items |-> "new"]
  /\ payload = {}
  /\ calls = AllCalls("none") /\ args = {} /\ scratch = {} /\ staged = {}
  /\ frames = {} /\ due = FALSE
  /\ up = TRUE /\ pass = NoPass /\ exec = AllCalls("idle") /\ placing = NothingRead
  /\ abort = NoAbort
  /\ sent = FALSE /\ ran = {} /\ turns = 0 /\ stops = 0

----------------------------------------------------------------------------
(* Inbox selection.  Ids grow with the order of submission, so the first of *)
(* a set of items is the one with the least id.                             *)

Idle    == op.id = 0
Running == ~op.cancelled

Queued      == {i \in Items : fate[i] = "queued"}
QueuedAs(K) == {i \in Queued : kind[i] \in K}
Writes      == QueuedAs({"write", "note"})
Newest(S)   == {i \in S : \A j \in S : j <= i}  \* mutant of Oldest
Oldest(S)   == {i \in S : \A j \in S : i <= j}
Pick(all, S) == IF all THEN S ELSE Oldest(S)

\* A custom entry without an entry projector does not reach the model.
Projecting(S) == {i \in S : kind[i] # "note"}

\* selectAcceptedInbox
SelectAccepted ==
  QueuedAs({"write", "note", "nextRun"})
    \union Pick(SteerAll, QueuedAs({"steer"}))
    \union Pick(FollowUpAll, QueuedAs({"followUp"}))

\* planBoundaryInbox: follow-ups only count when nothing else is to answer.
SelectAtBoundary(mayFinish) ==
  LET first == Writes \union Pick(SteerAll, QueuedAs({"steer"}))
  IN  IF mayFinish /\ Projecting(first) = {}
      THEN first \union Pick(FollowUpAll, QueuedAs({"followUp"}))
      ELSE first

\* Mutant: the payloads of delivered items are kept.
DeliverKeepingPayload(S) ==
  /\ fate' = [i \in Items |-> IF i \in S THEN "delivered" ELSE fate[i]]
  /\ UNCHANGED <<payload, kind>>

Deliver(S) ==
  /\ fate' = [i \in Items |-> IF i \in S THEN "delivered" ELSE fate[i]]
  /\ payload' = payload \ S
  /\ kind' = kind

----------------------------------------------------------------------------
(* The mutation line, the pass and its gate.                                *)

Driving == up /\ pass.pc \notin {"off", "ending"}
Pass(pc) == up /\ pass.pc = pc

\* Mutant: commands overtake the abort request queued before them.
LineOvertaken == TRUE

\* A pass installed while an abort command was already queued did not exist
\* when that request looked for it; its own commands queue behind it.
LineFree == ~(abort.queued /\ abort.op = pass.op /\ ~abort.captured)

\* Mutants: a refused admission does not wait; it waits for ever.
CancellationIgnored == TRUE
CancellationLost    == FALSE

\* The promise a refused admission waits for: that of the request that closed
\* the gate.
CancellationSettled == ~(abort.queued /\ abort.holds)

\* A command of the pass that wants the operation at one of these leaves.
Command(pc, leaves) == Pass(pc) /\ LineFree /\ op.at \in leaves

Goto(pc) == pass' = [pass EXCEPT !.pc = pc]

\* activeDrive is cleared: an abort request that captured this pass has
\* nobody left to signal.
ReleasePass ==
  /\ pass' = NoPass /\ exec' = AllCalls("idle") /\ placing' = NothingRead
  /\ abort' = [abort EXCEPT !.captured = FALSE, !.holds = FALSE]

\* Mutant: the gate is not consulted.
AdmitAlways(pc) == Goto(pc)

\* Admit an effect or a hook, or stop at the closed gate.
Admit(pc) == Goto(IF pass.aborting THEN "wait_cancel" ELSE pc)

----------------------------------------------------------------------------
(* Writes shared by the procedures that settle an operation.                *)

\* Mutant: the frames of the response that is replaced are not deleted.
ReserveResponseOnly(deleted) ==
  frames' = (IF frames = {} THEN {} ELSE {"stale"}) /\ sent' = FALSE

\* A new response entry id: frames kept under the id it replaces are now
\* frames of no response.
ReserveResponse(deleted) ==
  /\ frames' = IF frames \subseteq deleted THEN {} ELSE {"stale"}
  /\ sent' = FALSE

\* The tool batch is gone from the operation, with all that belongs to it.
DropBatch ==
  /\ calls' = AllCalls("none") /\ args' = {} /\ scratch' = {} /\ ran' = {}

\* operationCleanupWrites, with the result record and the lane state that
\* settleOperation adds.
Settle(status) ==
  /\ op' = NoOperation
  /\ results' = [results EXCEPT ![op.id] = status]
  /\ staged' = IF op.at = "tools"
               THEN {c \in staged : calls[c] \notin Ready} ELSE staged
  /\ frames' = IF op.at \in EffectPending THEN frames \ {"current"} ELSE frames
  /\ DropBatch
  /\ pass' = [pass EXCEPT !.pc = "ending", !.response = "none", !.plan = {}]
  /\ due' = FALSE /\ sent' = FALSE
  /\ UNCHANGED accepted

=============================================================================
