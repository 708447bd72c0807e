---------------------------- MODULE LaneInvariants ----------------------------
(****************************************************************************)
(* Inductive invariants of a lane, from which its safety properties follow. *)
(* Each is a conjunction of parts, named for the fact they state.           *)
(****************************************************************************)
EXTENDS LaneRun

----------------------------------------------------------------------------
(* The gate: what the pass, the abort request and the operation's control   *)
(* status know of one another.                                              *)

\* Where a pass may be that was installed while an abort request was queued:
\* it has not had the mutation line yet, so no effect or procedure hook of it
\* has been admitted.
Early == {"begin", "drive_hook", "dispatch", "timer", "retry"}

PassIsOwned ==
  /\ pass.pc # "off" => up
  /\ Driving => pass.op = op.id /\ op.id # 0
  /\ pass.pc # "tools" => exec = AllCalls("idle")

RequestIsOwned ==
  /\ abort.queued => abort.op # 0
  /\ abort.holds => abort.captured
  /\ abort.captured => /\ abort.queued /\ pass.aborting /\ pass.pc # "off"
                       /\ pass.op = abort.op

\* A closed gate has a cause: the cancellation is durable and the effects are
\* signalled, or the request that closed it is still queued.
ClosedGateHasCause == Driving /\ pass.aborting => pass.signalled \/ abort.holds

SignalHasCause == Driving /\ pass.signalled => op.cancelled /\ pass.aborting

\* A pass that has not been signalled although its operation is cancelled, or
\* is about to be without its knowledge, cannot get past its next command.
UnsignalledIsEarly ==
  Driving /\ ~pass.signalled /\ (op.cancelled \/ ~LineFree) => pass.pc \in Early

WaitsHaveCause ==
  /\ pass.pc = "wait_cancel" => pass.aborting
  /\ pass.pc = "reconcile" => op.cancelled
  /\ pass.pc = "respond" /\ pass.response = "aborted" => op.cancelled

\* The inductive invariant of the gate protocol.
GateInvariant ==
  /\ PassIsOwned /\ RequestIsOwned /\ ClosedGateHasCause /\ SignalHasCause
  /\ UnsignalledIsEarly /\ WaitsHaveCause

----------------------------------------------------------------------------
(* Operations: acceptance numbers them, one is open at a time, and exactly  *)
(* the others that were accepted have a result.                             *)

\* The inductive invariant of acceptance and settlement.
LedgerInvariant ==
  /\ op.id # 0 => op.id = accepted
  /\ \A i \in Ops : results[i] # "none" <=> i <= accepted /\ i # op.id

----------------------------------------------------------------------------
(* Responses and tool calls: what was already done, and what was read.      *)

\* What an invocation of this pass may find in the durable record of its call.
CallOf(c) ==
  CASE exec[c] = "idle" -> CallTypes
    [] exec[c] \in {"hook", "intent"} -> {"planned"}
    [] exec[c] = "replay" -> {"pending_safe"}
    [] exec[c] \in {"invoke", "run"} -> Pending
    [] exec[c] \in {"outcome", "outcome_term"} -> {"planned"} \union Pending
    [] OTHER -> Ready \union Done \union {"none"}

\* A pass that is about to send a request has not sent it; a call that ran has
\* an intent, and one that is about to run again is replay-safe.
NothingIsRepeated ==
  /\ pass.pc = "call" => ~sent
  /\ \A c \in Calls : calls[c] \in CallOf(c)
  /\ \A c \in ran : calls[c] \notin {"none", "planned"}
  /\ \A c \in ran : exec[c] = "invoke" => calls[c] = "pending_safe"
  /\ op.id = 0 \/ op.at # "tools" => calls = AllCalls("none")

\* Placements of a pass follow one another.
PlacementsAreChained ==
  /\ placing[0] # {} => pass.pc = "tools_place"
  /\ \A c \in Calls : placing[c] # {} <=> exec[c] = "placing"
  /\ \A c, d \in Calls : exec[c] = "placing" /\ exec[d] = "placing" => c = d

\* A batch has its calls numbered without a gap, and what was read for
\* placement continues what is already placed.
PlacementsFollowOrder ==
  /\ \A c \in Calls : calls[c] # "none" => \A d \in 1 .. c : calls[d] # "none"
  /\ \A r \in Readers : \A c \in placing[r] : \A d \in 1 .. c :
       d \in placing[r] \/ calls[d] \in Done

\* The inductive invariant of request and tool execution.
EffectInvariant ==
  /\ NothingIsRepeated /\ PlacementsAreChained
  /\ PlacementIsCurrent /\ PlacementsFollowOrder

\* In a serial pass a call that is on its way to its tool has the results of all
\* the calls before it in the transcript.
SerialMatches ==
  pass.serial => \A c \in Calls : exec[c] \in {"hook", "intent", "replay", "invoke"} =>
                   \A d \in 1 .. (c - 1) : calls[d] \in Done

----------------------------------------------------------------------------
(* What is stored beside the operation belongs to it.                       *)

PayloadsMatch == payload = Queued

BatchMatches ==
  /\ staged = {c \in Calls : calls[c] \in Ready}
  /\ scratch \subseteq {c \in Calls : calls[c] \in Pending}
  /\ {c \in Calls : calls[c] \in Pending} \subseteq args
  /\ op.at # "tools" => args = {}

\* Frames are of the response that is pending; an idle lane has none.
FramesMatch ==
  /\ op.id = 0 => op.at = "starting"
  /\ frames \subseteq (IF op.at \in EffectPending THEN {"current"} ELSE {})

\* The inductive invariant of what is stored.
StoresInvariant == PayloadsMatch /\ BatchMatches /\ FramesMatch

=============================================================================
