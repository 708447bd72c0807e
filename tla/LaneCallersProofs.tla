--------------------------- MODULE LaneCallersProofs ---------------------------
(****************************************************************************)
(* The callers of a lane, for any number of callers, operations, waits and  *)
(* failed commits: type correctness, idle owners that are alone, answers    *)
(* that are about the caller's own operation, and a closed lane at rest.    *)
(****************************************************************************)
EXTENDS LaneCallers, FiniteSetTheorems, SequenceTheorems, TLAPS

USE CallersAssumption

----------------------------------------------------------------------------
(* The inductive invariant.                                                 *)

\* Who queues on the line waits there, once.
LineIsQueue ==
  /\ \A i \in 1 .. Len(line) : pc[line[i]] = "line"
  /\ \A i, j \in 1 .. Len(line) : line[i] = line[j] => i = j

\* A call that has answered does nothing more.
AnswersAreLast == \A c \in Callers : answer[c] # "none" => pc[c] = "done"

\* Operations are numbered by acceptance; all but the current one have a result.
Ledger ==
  /\ op # 0 => op = accepted
  /\ settled = (1 .. accepted) \ {op}

\* The turn of a commit lasts until the commit has ended, and what its plan
\* read is still so then.
TurnsAreHeld ==
  /\ busy \in Callers => pc[busy] = "commit"
  /\ \A c \in Callers : pc[c] = "commit" =>
       /\ busy = c
       /\ stage[c] \in {"accept", "cancel", "write"}
       /\ stage[c] = "accept" => op = 0 /\ accepted < MaxOps
       /\ stage[c] = "cancel" => op = target[c]
  /\ busy = "pass" => active # 0 /\ ~pass[active].ended

\* The installed pass drives the current operation until it has settled it.
PassesAreOwned ==
  /\ active # 0 /\ ~pass[active].ended => pass[active].op = op /\ op # 0
  /\ active # 0 => pass[active].outcome \in {"pending", "closed"}
  /\ \A p \in 1 .. passes :
       pass[p].ended \/ pass[p].outcome = "settled" => pass[p].op \in settled

\* Who installed a pass observes it, or has its outcome.
PassesAreInstalled ==
  \A p \in 1 .. passes : \E c \in Callers : pc[c] \in {"observe", "done"} /\ saw[c] = p

\* An observer waits for a pass of its operation, and one that aborts for a
\* pass that can only settle it.
ObserversMatch ==
  \A c \in Callers :
    /\ pc[c] = "observe" => saw[c] \in 1 .. passes
    /\ pc[c] = "observe" /\ kind[c] = "abort" =>
         stage[c] = "claim" /\ pass[saw[c]].outcome \notin {"retry", "deferred"}

\* A call begins with its first command; a drive or a cancellation is about
\* an operation.
DrivesHaveTargets ==
  \A c \in Callers :
    /\ pc[c] = "new" => stage[c] = First(kind[c])
    /\ stage[c] \in {"cancel", "claim"} /\ pc[c] \notin {"new", "done"} => target[c] # 0

\* abort reaches its drive with the cancellation durable.
AbortsAreDurable ==
  \A c \in Callers :
    /\ kind[c] = "abort" => stage[c] \in {"inspect", "cancel", "claim"}
    /\ kind[c] = "abort" /\ stage[c] # "inspect" => target[c] \in 1 .. accepted
    /\ kind[c] = "abort" /\ stage[c] = "claim" /\ op = target[c] =>
         control = "cancel_requested"

\* An owner is a caller between its claim and its release, and is alone.
OwnersAreAlone ==
  /\ CallbackIsAlone
  /\ \A c \in Callers : pc[c] \in {"claimed", "running"} => owner = c

\* A close that has returned has found the line empty and the lane unowned.
ClosesAreComplete ==
  /\ closer # "no" => closed # "no"
  /\ closer = "done" => line = <<>> /\ busy = "none" /\ owner = "none"

CallersInvariant ==
  /\ LineIsQueue /\ AnswersAreLast /\ Ledger /\ TurnsAreHeld
  /\ PassesAreOwned /\ PassesAreInstalled /\ ObserversMatch /\ DrivesHaveTargets
  /\ AbortsAreDurable /\ OwnersAreAlone /\ ClosesAreComplete /\ AnswersAreOwn

----------------------------------------------------------------------------
(* Lemmas about the line and the passes.                                    *)

\* The caller that has its turn was first in the line.
LEMMA LeaveLine ==
  ASSUME TypeOK, NEW c \in Callers, Leave(c)
  PROVE  /\ line' \in Seq(Callers) /\ line[1] = c /\ Len(line) \in Nat \ {0}
         /\ Len(line') = Len(line) - 1
         /\ \A i \in 1 .. Len(line') : line'[i] = line[i + 1]
<1>1. line \in Seq(Callers) /\ line # <<>> /\ line' = Tail(line) /\ Head(line) = c
  BY DEF TypeOK, LineTypeOK, Leave
<1>2. Len(line) \in Nat \ {0}
  BY <1>1, LenProperties, EmptySeq
<1>3. Head(line) = line[1]
  BY <1>1
<1> QED
  BY <1>1, <1>2, <1>3, HeadTailProperties

\* It waited there.
LEMMA HasWaited ==
  ASSUME TypeOK, LineIsQueue, NEW c \in Callers, Turn(c)
  PROVE  Leave(c) /\ pc[c] = "line"
<1>1. Leave(c)
  BY DEF Turn, TurnedAway, TurnCommits, TurnRefuses, TurnInspects, TurnAlreadyCancelled,
         TurnInstalls, TurnJoins, TurnFindsEnd, TurnWaits, TurnFindsIdle, TurnOwns, HasTurn
<1> QED
  BY <1>1, LeaveLine DEF LineIsQueue

\* The passes so far, and the active one, are numbered.
LEMMA PassNumbers ==
  ASSUME PassTypeOK
  PROVE  /\ passes \in Nat /\ active \in Nat /\ 1 .. passes \subseteq Passes
         /\ active # 0 => active \in 1 .. passes
  BY FS_CardinalityType DEF PassTypeOK, Passes

\* There is a pass left for a caller that has its turn: who installed one does
\* not come back to the line.
LEMMA RoomForPass ==
  ASSUME TypeOK, PassesAreInstalled, NEW c \in Callers, pc[c] = "line"
  PROVE  passes + 1 \in Passes
<1> DEFINE S == {d \in Callers \ {c} : saw[d] \in 1 .. passes}
           f == [d \in S |-> saw[d]]
<1>1. passes \in Nat /\ Cardinality(Callers) \in Nat
  BY FS_CardinalityType DEF TypeOK, PassTypeOK, Passes
<1>2. f \in Surjection(S, 1 .. passes)
  <2>1. ASSUME NEW p \in 1 .. passes PROVE \E d \in S : f[d] = p
    BY <2>1 DEF PassesAreInstalled
  <2> QED
    BY <2>1 DEF Surjection
<1>3. IsFiniteSet(Callers \ {c}) /\ Cardinality(Callers \ {c}) = Cardinality(Callers) - 1
  BY FS_RemoveElement
<1>4. IsFiniteSet(S) /\ Cardinality(S) <= Cardinality(Callers) - 1
  <2>1. S \in SUBSET (Callers \ {c})
    OBVIOUS
  <2> HIDE DEF S
  <2> QED
    BY <1>3, <2>1, FS_Subset
<1>5. Cardinality(1 .. passes) <= Cardinality(S)
  <2> HIDE DEF S, f
  <2> QED
    BY <1>2, <1>4, FS_Surjection
<1>6. Cardinality(1 .. passes) = passes
  BY <1>1, FS_Interval
<1>7. Cardinality(S) \in Nat
  BY <1>4, FS_CardinalityType
<1> HIDE DEF S
<1> QED
  BY <1>1, <1>4, <1>5, <1>6, <1>7 DEF Passes

----------------------------------------------------------------------------
(* What a step changes.                                                     *)

\* A commit ends with what its plan asked for.
LEMMA CommitEffects ==
  ASSUME TypeOK, TurnsAreHeld, NEW c \in Callers, CommitEnds(c)
  PROVE  /\ busy = c /\ busy' = "none" /\ pc[c] = "commit"
         /\ \/ /\ stage[c] = "accept" /\ op = 0 /\ accepted < MaxOps
               /\ op' = accepted + 1 /\ accepted' = accepted + 1
               /\ control' = "running" /\ at' = "working"
               /\ target' = [target EXCEPT ![c] = accepted + 1]
               /\ \/ kind[c] = "prompt" /\ Command(c, "claim") /\ UNCHANGED answer
                  \/ Return(c, "accepted") /\ UNCHANGED stage
            \/ /\ stage[c] = "cancel" /\ op = target[c] /\ control' = "cancel_requested"
               /\ Command(c, "claim") /\ UNCHANGED <<op, accepted, at, target, answer>>
            \/ /\ stage[c] = "write" /\ Return(c, "written")
               /\ UNCHANGED <<op, accepted, control, at, target, stage>>
<1>1. busy = c /\ busy' = "none" /\ pc[c] = "commit"
  BY DEF CommitEnds, TurnsAreHeld
<1>2. CASE stage[c] = "accept"
  BY <1>1, <1>2 DEF CommitEnds, TurnsAreHeld
<1>3. CASE stage[c] = "cancel"
  BY <1>1, <1>3 DEF CommitEnds, TurnsAreHeld
<1>4. CASE stage[c] = "write"
  BY <1>1, <1>4 DEF CommitEnds, TurnsAreHeld
<1> QED
  BY <1>1, <1>2, <1>3, <1>4 DEF TurnsAreHeld

\* No other caller's variables change.
OnlyCaller(c) ==
  \A d \in Callers \ {c} :
    /\ pc'[d] = pc[d] /\ stage'[d] = stage[d] /\ target'[d] = target[d]
    /\ saw'[d] = saw[d] /\ answer'[d] = answer[d]

\* The variables of a caller are changed by a step of its own, or by the
\* failure of its commit.
LEMMA CallerSteps ==
  ASSUME TypeOK, TurnsAreHeld, Next
  PROVE  /\ kind' = kind
         /\ \/ \E c \in Callers : (Call(c) \/ Step(c)) /\ OnlyCaller(c)
            \/ /\ CommitFails /\ UNCHANGED <<stage, target, saw>>
               /\ \/ busy \in Callers /\ Return(busy, "closed") /\ OnlyCaller(busy)
                  \/ busy = "pass" /\ UNCHANGED <<pc, answer>>
            \/ /\ PassStep \/ Close \/ CloseEnds
               /\ UNCHANGED <<pc, stage, target, saw, answer>>
<1> USE DEF TypeOK, CallTypeOK, Goto, Command, Return, callVars, OnlyCaller
<1>1. ASSUME NEW c \in Callers, Call(c) \/ Step(c)
      PROVE  OnlyCaller(c)
  <2>1. CASE Call(c)
    BY <2>1 DEF Call
  <2>2. CASE Ask(c) \/ LookAgain(c) \/ StartCallback(c) \/ EndCallback(c)
    BY <2>2 DEF Ask, LookAgain, StartCallback, EndCallback
  <2>3. CASE CommitEnds(c)
    <3>1. saw' = saw
      BY <2>3 DEF CommitEnds
    <3> QED
      BY <2>3, <3>1, CommitEffects
  <2>4. CASE Observe(c) \/ TurnFindsEnd(c)
    BY <2>4 DEF Observe, TurnFindsEnd, DriveEnds
  <2>5. CASE TurnedAway(c) \/ TurnCommits(c) \/ TurnRefuses(c) \/ TurnFindsIdle(c) \/ TurnOwns(c)
    BY <2>5 DEF TurnedAway, TurnCommits, TurnRefuses, TurnFindsIdle, TurnOwns
  <2>6. CASE TurnInspects(c) \/ TurnAlreadyCancelled(c)
    BY <2>6 DEF TurnInspects, TurnAlreadyCancelled
  <2>7. CASE TurnInstalls(c) \/ TurnJoins(c) \/ TurnWaits(c)
    BY <2>7 DEF TurnInstalls, TurnJoins, TurnWaits
  <2> QED
    BY <1>1, <2>1, <2>2, <2>3, <2>4, <2>5, <2>6, <2>7 DEF Step, Turn
<1>2. ASSUME CommitFails
      PROVE  /\ UNCHANGED <<stage, target, saw>>
             /\ \/ busy \in Callers /\ Return(busy, "closed") /\ OnlyCaller(busy)
                \/ busy = "pass" /\ UNCHANGED <<pc, answer>>
  <2>1. CASE busy = "pass"
    BY <1>2, <2>1 DEF CommitFails
  <2>2. CASE busy \in Callers
    BY <1>2, <2>2 DEF CommitFails
  <2> QED
    BY <1>2, <2>1, <2>2 DEF CommitFails, LineTypeOK
<1>3. ASSUME PassStep \/ Close \/ CloseEnds
      PROVE  UNCHANGED <<pc, stage, target, saw, answer>>
  BY <1>3 DEF PassStep, PassCommits, PassCommitEnds, PassEnds, PassStops, Close, CloseEnds
<1>4. kind' = kind
  <2>1. ASSUME NEW c \in Callers, Turn(c) PROVE kind' = kind
    BY <2>1 DEF Turn, TurnedAway, TurnCommits, TurnRefuses, TurnInspects, TurnAlreadyCancelled,
           TurnInstalls, TurnJoins, TurnFindsEnd, TurnWaits, TurnFindsIdle, TurnOwns
  <2>2. ASSUME NEW c \in Callers, Call(c) \/ Step(c) PROVE kind' = kind
    BY <2>1, <2>2 DEF Step, Call, Ask, CommitEnds, Observe, LookAgain, StartCallback, EndCallback
  <2>3. CASE PassStep \/ CommitFails \/ Close \/ CloseEnds
    BY <2>3 DEF PassStep, PassCommits, PassCommitEnds, PassEnds, PassStops, CommitFails, Close,
           CloseEnds
  <2> QED
    BY <2>2, <2>3 DEF Next
<1>5. CASE \E c \in Callers : Call(c) \/ Step(c)
  BY <1>1, <1>4, <1>5
<1>6. CASE CommitFails
  BY <1>2, <1>4, <1>6
<1>7. CASE PassStep \/ Close \/ CloseEnds
  BY <1>3, <1>4, <1>7
<1> QED
  BY <1>5, <1>6, <1>7 DEF Next

\* How a caller moves, which of its steps move it there, and which change the
\* lane.
Moves(c) ==
  /\ pc[c] # "done" /\ (answer'[c] = answer[c] \/ pc'[c] = "done")
  /\ pc'[c] # "new" /\ (pc[c] = "new" => Call(c))
  /\ pc[c] = "line" => Turn(c)
  /\ pc[c] = "commit" => CommitEnds(c)
  /\ pc[c] = "observe" => pc'[c] = "done" /\ saw'[c] = saw[c]
  /\ pc'[c] = "line" => Ask(c)
  /\ pc'[c] = "commit" => TurnCommits(c)
  /\ pc'[c] = "observe" => TurnInstalls(c) \/ TurnJoins(c)
  /\ pc'[c] \in {"claimed", "running"} => TurnOwns(c) \/ StartCallback(c)
  /\ answer'[c] \in {"settled", "aborted"} => Observe(c) \/ TurnFindsEnd(c)
  /\ saw'[c] = saw[c] \/ TurnInstalls(c) \/ TurnJoins(c) \/ TurnWaits(c)
  /\ \/ stage'[c] = stage[c]
     \/ CommitEnds(c) \/ TurnInspects(c) \/ TurnAlreadyCancelled(c)
  /\ target'[c] = target[c] \/ Call(c) \/ CommitEnds(c) \/ TurnInspects(c)
  /\ line' = line \/ Ask(c) \/ pc[c] = "line"
  /\ UNCHANGED <<op, accepted, control, at, settled>> \/ CommitEnds(c)
  /\ busy' = busy \/ TurnCommits(c) \/ CommitEnds(c)
  /\ UNCHANGED <<active, passes>> \/ TurnInstalls(c)
  /\ owner' = owner \/ TurnOwns(c) \/ StartCallback(c) \/ EndCallback(c)
  /\ closer' = closer /\ (closed # "no" => closed' # "no")

LEMMA CallerMoves ==
  ASSUME TypeOK, LineIsQueue, AnswersAreLast, TurnsAreHeld, NEW c \in Callers,
         Call(c) \/ Step(c)
  PROVE  Moves(c)
<1> USE DEF Goto, Command, Return, callVars, lineVars, opVars, passVars, endVars
<1>1. /\ pc \in [Callers -> Places] /\ stage \in [Callers -> Stages]
      /\ target \in [Callers -> Ops \union {0}] /\ saw \in [Callers -> Passes \union {0}]
      /\ answer \in [Callers -> Answers]
  BY DEF TypeOK, CallTypeOK
<1>2. answer[c] # "none" => pc[c] = "done"
  BY DEF AnswersAreLast
<1>3. pc[c] = "commit" => busy = c
  BY DEF TurnsAreHeld
<1>4. Turn(c) => pc[c] = "line" /\ busy = "none"
  BY HasWaited DEF Leave
<1>5. CASE Call(c)
  BY <1>1, <1>2, <1>5 DEF Call, Moves
<1>6. CASE Ask(c) \/ LookAgain(c) \/ StartCallback(c) \/ EndCallback(c)
  BY <1>1, <1>2, <1>6 DEF Ask, LookAgain, Sees, StartCallback, EndCallback, Moves
<1>7. CASE CommitEnds(c)
  <2>1. saw' = saw /\ line' = line /\ UNCHANGED <<passVars, owner, endVars>>
    BY <1>7 DEF CommitEnds
  <2> QED
    BY <1>1, <1>2, <1>7, <2>1, CommitEffects DEF Moves
<1>8. CASE Observe(c)
  BY <1>1, <1>2, <1>8 DEF Observe, Sees, DriveEnds, Seal, Moves
<1>9. CASE Turn(c)
  <2> USE <1>1, <1>2, <1>4, <1>9 DEF Moves
  <2>1. CASE TurnedAway(c) \/ TurnRefuses(c) \/ TurnFindsIdle(c)
    BY <2>1 DEF TurnedAway, TurnRefuses, TurnFindsIdle
  <2>2. CASE TurnCommits(c)
    BY <2>2 DEF TurnCommits
  <2>3. CASE TurnInspects(c) \/ TurnAlreadyCancelled(c)
    BY <2>3 DEF TurnInspects, TurnAlreadyCancelled
  <2>4. CASE TurnInstalls(c) \/ TurnJoins(c)
    BY <2>4 DEF TurnInstalls, TurnJoins
  <2>5. CASE TurnFindsEnd(c)
    BY <2>5 DEF TurnFindsEnd, DriveEnds, Seal
  <2>6. CASE TurnWaits(c) \/ TurnOwns(c)
    BY <2>6 DEF TurnWaits, TurnOwns
  <2> QED
    BY <2>1, <2>2, <2>3, <2>4, <2>5, <2>6 DEF Turn
<1> QED
  BY <1>5, <1>6, <1>7, <1>8, <1>9 DEF Step

\* What the variables of an installed pass are changed by: its operation and
\* its kind stay, it ends once, and has one outcome but for a close.
LEMMA PassSteps ==
  ASSUME TypeOK, TurnsAreHeld, Next, NEW p \in 1 .. passes
  PROVE  /\ pass'[p].op = pass[p].op
         /\ \/ pass'[p].ended = pass[p].ended
            \/ PassCommitEnds /\ Settle /\ p = active /\ pass'[p].ended
         /\ \/ pass'[p].outcome = pass[p].outcome
            \/ pass[p].outcome = "pending" /\ pass'[p].outcome = "closed"
            \/ PassEnds /\ p = active
<1> USE DEF TypeOK, PassTypeOK, PassType
<1>1. p \in Passes /\ passes + 1 # p /\ p \in Nat
  BY PassNumbers
<1>2. ASSUME NEW why, Seal(why)
      PROVE  /\ pass'[p].op = pass[p].op /\ pass'[p].ended = pass[p].ended
             /\ \/ pass'[p].outcome = pass[p].outcome
                \/ pass[p].outcome = "pending" /\ pass'[p].outcome = "closed"
  BY <1>1, <1>2 DEF Seal
<1>3. ASSUME NEW c \in Callers, Call(c) \/ Step(c)
      PROVE  /\ pass'[p].op = pass[p].op /\ pass'[p].ended = pass[p].ended
             /\ \/ pass'[p].outcome = pass[p].outcome
                \/ pass[p].outcome = "pending" /\ pass'[p].outcome = "closed"
  <2>1. CASE TurnInstalls(c)
    BY <1>1, <2>1 DEF TurnInstalls
  <2>2. CASE TurnFindsEnd(c) \/ Observe(c)
    BY <1>2, <2>2 DEF TurnFindsEnd, Observe, DriveEnds
  <2>3. CASE Turn(c) /\ ~TurnInstalls(c) /\ ~TurnFindsEnd(c)
    <3>1. pass' = pass
      BY <2>3 DEF passVars, Turn, TurnedAway, TurnCommits, TurnRefuses, TurnInspects,
             TurnAlreadyCancelled, TurnJoins, TurnWaits, TurnFindsIdle, TurnOwns
    <3> QED
      BY <3>1
  <2>4. CASE (Call(c) \/ Step(c)) /\ ~Turn(c) /\ ~Observe(c)
    <3>1. pass' = pass
      BY <2>4 DEF passVars, Step, Call, Ask, CommitEnds, LookAgain, StartCallback, EndCallback
    <3> QED
      BY <3>1
  <2> QED
    BY <1>3, <2>1, <2>2, <2>3, <2>4 DEF Step
<1>4. CASE PassCommitEnds
  <2>1. CASE Settle
    BY <1>1, <1>4, <2>1 DEF Settle
  <2>2. CASE Advance
    BY <1>1, <1>4, <2>2 DEF Advance
  <2> QED
    BY <1>4, <2>1, <2>2 DEF PassCommitEnds
<1>5. CASE PassEnds
  <2>1. CASE p = active
    BY <1>1, <1>5, <2>1 DEF PassEnds
  <2>2. CASE p # active
    BY <1>1, <1>5, <2>2 DEF PassEnds
  <2> QED
    BY <2>1, <2>2
<1>6. CASE PassCommits \/ PassStops \/ CloseEnds
  BY <1>6 DEF PassCommits, PassStops, CloseEnds, passVars
<1>7. CASE CommitFails \/ Close
  BY <1>2, <1>7 DEF CommitFails, Close
<1> QED
  BY <1>3, <1>4, <1>5, <1>6, <1>7 DEF Next, PassStep

----------------------------------------------------------------------------
(* Every step preserves each part of the invariant.                         *)

\* Which caller moves, and how.
LEMMA WhoMoves ==
  ASSUME TypeOK, CallersInvariant, Next
  PROVE  /\ kind' = kind
         /\ \/ \E c \in Callers : (Call(c) \/ Step(c)) /\ Moves(c) /\ OnlyCaller(c)
            \/ /\ CommitFails /\ UNCHANGED <<stage, target, saw>>
               /\ \/ busy \in Callers /\ Return(busy, "closed") /\ OnlyCaller(busy)
                  \/ busy = "pass" /\ UNCHANGED <<pc, answer>>
            \/ /\ PassStep \/ Close \/ CloseEnds
               /\ UNCHANGED <<pc, stage, target, saw, answer>>
  BY CallerSteps, CallerMoves DEF CallersInvariant

LEMMA QueueStep ==
  ASSUME TypeOK, CallersInvariant, Next
  PROVE  LineIsQueue'
<1> USE DEF CallersInvariant, LineIsQueue, TypeOK, CallTypeOK, LineTypeOK
<1>1. ASSUME NEW c \in Callers, Ask(c), OnlyCaller(c)
      PROVE  LineIsQueue'
  <2>1. CASE line' = line
    BY <1>1, <2>1 DEF OnlyCaller, Ask
  <2>2. CASE line' = Append(line, c) /\ pc' = [pc EXCEPT ![c] = "line"]
    <3>1. /\ Len(line) \in Nat /\ Len(line') = Len(line) + 1 /\ line'[Len(line) + 1] = c
          /\ \A i \in 1 .. Len(line) : line'[i] = line[i] /\ line[i] \in Callers
      BY <2>2, AppendProperties, LenProperties
    <3>2. pc[c] # "line"
      BY <1>1 DEF Ask
    <3>3. \A i \in 1 .. Len(line') : i = Len(line) + 1 \/ i \in 1 .. Len(line)
      BY <3>1
    <3> QED
      BY <2>2, <3>1, <3>2, <3>3
  <2> QED
    BY <1>1, <2>1, <2>2 DEF Ask, Goto
<1>2. ASSUME NEW c \in Callers, Turn(c), OnlyCaller(c)
      PROVE  LineIsQueue'
  <2>1. /\ line[1] = c /\ Len(line) \in Nat \ {0} /\ Len(line') = Len(line) - 1
        /\ \A i \in 1 .. Len(line') : line'[i] = line[i + 1]
    BY <1>2, LeaveLine, HasWaited
  <2>2. \A i \in 1 .. Len(line') : i + 1 \in 1 .. Len(line) /\ i + 1 # 1
    BY <2>1
  <2>3. \A i \in 1 .. Len(line) : line[i] \in Callers
    BY LenProperties
  <2>4. ASSUME NEW i \in 1 .. Len(line')
        PROVE  line'[i] \in Callers \ {c} /\ pc[line'[i]] = "line"
    <3>1. line'[i] = line[i + 1] /\ i + 1 \in 1 .. Len(line) /\ i + 1 # 1 /\ 1 \in 1 .. Len(line)
      BY <2>1, <2>2
    <3>2. line[i + 1] \in Callers /\ pc[line[i + 1]] = "line"
      BY <2>3, <3>1
    <3>3. line[i + 1] # line[1]
      BY <3>1
    <3> QED
      BY <2>1, <3>1, <3>2, <3>3
  <2>5. \A i, j \in 1 .. Len(line') : line'[i] = line'[j] => i = j
    BY <2>1, <2>2
  <2> QED
    BY <1>2, <2>4, <2>5 DEF OnlyCaller
<1>3. ASSUME NEW c \in Callers, Moves(c), OnlyCaller(c), ~Ask(c), ~Turn(c)
      PROVE  LineIsQueue'
  <2>1. line' = line /\ pc[c] # "line"
    BY <1>3 DEF Moves
  <2>2. \A i \in 1 .. Len(line) : line[i] \in Callers \ {c}
    BY <2>1, LenProperties
  <2> QED
    BY <1>3, <2>1, <2>2 DEF OnlyCaller
<1>4. ASSUME line' = line, (busy \in Callers /\ OnlyCaller(busy)) \/ UNCHANGED pc
      PROVE  LineIsQueue'
  <2>1. \A c \in Callers : pc[c] = "line" => pc'[c] = "line"
    BY <1>4 DEF OnlyCaller, TurnsAreHeld
  <2>2. \A i \in 1 .. Len(line) : line[i] \in Callers
    BY LenProperties
  <2> QED
    BY <1>4, <2>1, <2>2
<1>5. CommitFails \/ PassStep \/ Close \/ CloseEnds => line' = line
  BY DEF lineVars, PassStep, PassCommits, PassCommitEnds, PassEnds, PassStops, CommitFails,
         Close, CloseEnds
<1> QED
  BY <1>1, <1>2, <1>3, <1>4, <1>5, WhoMoves

LEMMA AnswersStep ==
  ASSUME TypeOK, CallersInvariant, Next
  PROVE  AnswersAreLast'
<1> USE DEF CallersInvariant, AnswersAreLast, TypeOK, CallTypeOK
<1>1. ASSUME NEW c \in Callers, Moves(c), OnlyCaller(c)
      PROVE  AnswersAreLast'
  BY <1>1 DEF Moves, OnlyCaller
<1>2. CASE busy \in Callers /\ Return(busy, "closed") /\ OnlyCaller(busy)
  BY <1>2 DEF Return, OnlyCaller
<1>3. CASE UNCHANGED <<pc, answer>>
  BY <1>3
<1> QED
  BY <1>1, <1>2, <1>3, WhoMoves

\* An acceptance makes the next operation current, a settlement gives the
\* current one its result.
LEMMA LedgerStep ==
  ASSUME TypeOK, CallersInvariant, Next
  PROVE  Ledger' /\ settled \subseteq settled'
<1> USE DEF CallersInvariant, Ledger, TypeOK, OpTypeOK, Ops
<1>1. CASE UNCHANGED <<op, accepted, control, at, settled>>
  BY <1>1
<1>2. CASE PassCommitEnds
  BY <1>2 DEF PassCommitEnds, Settle, Advance, TurnsAreHeld, PassesAreOwned
<1>3. ASSUME NEW c \in Callers, CommitEnds(c)
      PROVE  Ledger' /\ settled \subseteq settled'
  <2>1. settled' = settled
    BY <1>3 DEF CommitEnds
  <2> QED
    BY <1>3, <2>1, CommitEffects
<1>4. CASE CommitFails \/ Close \/ CloseEnds \/ PassCommits \/ PassEnds \/ PassStops
  BY <1>1, <1>4 DEF opVars, CommitFails, Close, CloseEnds, PassCommits, PassEnds, PassStops
<1>5. ASSUME NEW c \in Callers, Moves(c)
      PROVE  Ledger' /\ settled \subseteq settled'
  BY <1>1, <1>3, <1>5 DEF Moves
<1> QED
  BY <1>2, <1>4, <1>5, WhoMoves DEF PassStep

\* The pass does not move while a caller or the harness does.
LEMMA PassRests ==
  ASSUME TypeOK, TurnsAreHeld,
         \/ \E c \in Callers : Moves(c)
         \/ CommitFails \/ PassCommits \/ PassStops \/ Close \/ CloseEnds
  PROVE  ~PassCommitEnds /\ ~PassEnds
<1>1. ASSUME NEW c \in Callers, Moves(c) PROVE ~PassCommitEnds /\ ~PassEnds
  <2>1. active \in Nat /\ passes \in Nat
    BY PassNumbers DEF TypeOK
  <2>2. TurnCommits(c) => busy = "none"
    BY DEF TurnCommits, HasTurn, Leave
  <2>3. CommitEnds(c) => busy = c
    BY DEF CommitEnds
  <2>4. TurnInstalls(c) => active' = passes + 1
    BY DEF TurnInstalls
  <2> QED
    BY <1>1, <2>1, <2>2, <2>3, <2>4 DEF Moves, PassCommitEnds, PassEnds
<1>2. CASE CommitFails
  <2>1. failures' # failures /\ active' = active
    BY <1>2 DEF CommitFails, TypeOK, LineTypeOK
  <2> QED
    BY <2>1 DEF PassCommitEnds, PassEnds
<1>3. CASE PassCommits \/ PassStops
  BY <1>3 DEF PassCommits, PassStops, PassCommitEnds, PassEnds, passVars
<1>4. CASE Close \/ CloseEnds
  BY <1>4 DEF Close, CloseEnds, PassCommitEnds, PassEnds, endVars
<1> QED
  BY <1>1, <1>2, <1>3, <1>4

\* A turn that commits is the only one until its commit has ended.
LEMMA TurnsStep ==
  ASSUME TypeOK, CallersInvariant, Next
  PROVE  TurnsAreHeld'
<1> USE DEF CallersInvariant, TurnsAreHeld, TypeOK, CallTypeOK, LineTypeOK
<1>1. ASSUME NEW c \in Callers, TurnCommits(c), OnlyCaller(c)
      PROVE  TurnsAreHeld'
  BY <1>1 DEF TurnCommits, HasTurn, Leave, NeedsCommit, Goto, OnlyCaller, opVars
<1>2. ASSUME NEW c \in Callers, CommitEnds(c), OnlyCaller(c)
      PROVE  TurnsAreHeld'
  <2>1. busy = c /\ busy' = "none" /\ pc'[c] \in {"ask", "done"}
    BY <1>2, CommitEffects DEF Command, Return
  <2> QED
    BY <1>2, <2>1 DEF OnlyCaller
<1>3. ASSUME busy' = busy, busy = "pass"
      PROVE  active' = active => active' # 0 /\ ~pass'[active'].ended
  <2>1. active \in 1 .. passes /\ ~PassCommitEnds
    BY <1>3, PassNumbers DEF PassCommitEnds
  <2> QED
    BY <1>3, <2>1, PassSteps
<1>4. ASSUME NEW c \in Callers, Moves(c), OnlyCaller(c), ~TurnCommits(c), ~CommitEnds(c)
      PROVE  TurnsAreHeld'
  <2>1. /\ busy' = busy /\ pc[c] # "commit" /\ pc'[c] # "commit"
        /\ UNCHANGED <<op, accepted>>
    BY <1>4 DEF Moves
  <2>2. CASE busy = "pass"
    <3>1. active' = active
      BY <1>4, <2>2 DEF Moves, TurnInstalls, HasTurn, Leave
    <3> QED
      BY <1>3, <1>4, <2>1, <2>2, <3>1 DEF OnlyCaller
  <2>3. CASE busy # "pass"
    BY <1>4, <2>1, <2>3 DEF OnlyCaller
  <2> QED
    BY <2>2, <2>3
<1>5. ASSUME CommitFails,
             \/ busy \in Callers /\ Return(busy, "closed") /\ OnlyCaller(busy)
             \/ busy = "pass" /\ UNCHANGED pc
      PROVE  TurnsAreHeld'
  <2>1. busy' = "none" /\ \A c \in Callers : pc'[c] # "commit"
    BY <1>5 DEF CommitFails, Return, OnlyCaller
  <2> QED
    BY <2>1
<1>6. CASE PassCommits
  BY <1>6 DEF PassCommits, Running, callVars, opVars, passVars
<1>7. CASE PassCommitEnds
  BY <1>7 DEF PassCommitEnds
<1>8. CASE PassEnds \/ PassStops
  BY <1>8 DEF PassEnds, PassStops, lineVars, opVars
<1>9. CASE Close \/ CloseEnds
  <2>1. busy' = busy /\ active' = active /\ UNCHANGED <<pc, stage, target, op, accepted>>
    BY <1>9 DEF Close, CloseEnds, callVars, lineVars, opVars, passVars
  <2> QED
    BY <1>3, <2>1
<1>10. ASSUME NEW c \in Callers, Moves(c), OnlyCaller(c)
       PROVE  TurnsAreHeld'
  BY <1>1, <1>2, <1>4, <1>10
<1>11. CASE PassStep \/ Close \/ CloseEnds
  BY <1>6, <1>7, <1>8, <1>9, <1>11 DEF PassStep
<1> QED
  BY <1>5, <1>10, <1>11, WhoMoves

\* A new pass drives the operation of the caller that installs it.
LEMMA NewPass ==
  ASSUME TypeOK, CallersInvariant, NEW c \in Callers, TurnInstalls(c)
  PROVE  /\ op # 0 /\ op = target[c] /\ stage[c] = "claim" /\ passes + 1 \in Passes
         /\ passes' = passes + 1 /\ active' = passes + 1 /\ UNCHANGED <<op, settled>>
         /\ pc' = [pc EXCEPT ![c] = "observe"] /\ saw' = [saw EXCEPT ![c] = passes + 1]
         /\ UNCHANGED <<stage, target>>
         /\ pass'[passes + 1].op = op /\ ~pass'[passes + 1].ended
         /\ pass'[passes + 1].outcome = "pending"
         /\ \A p \in 1 .. passes : pass'[p] = pass[p]
<1> USE DEF CallersInvariant
<1>1. /\ op = target[c] /\ stage[c] = "claim" /\ UNCHANGED <<op, settled, stage, target>>
      /\ passes' = passes + 1 /\ active' = passes + 1
      /\ pc' = [pc EXCEPT ![c] = "observe"] /\ saw' = [saw EXCEPT ![c] = passes + 1]
  BY DEF TurnInstalls, HasTurn, Goto, opVars
<1>2. op # 0 /\ passes + 1 \in Passes
  <2>1. pc[c] = "line"
    BY HasWaited DEF Turn
  <2> QED
    BY <1>1, <2>1, RoomForPass DEF DrivesHaveTargets
<1>3. pass'[passes + 1] = [NoPass EXCEPT !.op = op, !.waits = kind[c] \in {"prompt", "resume"},
                                         !.polls = kind[c] = "resume"]
  BY <1>2 DEF TurnInstalls, TypeOK, PassTypeOK
<1>4. /\ pass'[passes + 1].op = op /\ ~pass'[passes + 1].ended
      /\ pass'[passes + 1].outcome = "pending"
  BY <1>3 DEF NoPass
<1>5. \A p \in 1 .. passes : pass'[p] = pass[p]
  BY <1>2, PassNumbers DEF TurnInstalls, TypeOK, PassTypeOK
<1> QED
  BY <1>1, <1>2, <1>4, <1>5

\* An operation gets its result from the pass that drives it.
LEMMA PassesOwnedStep ==
  ASSUME TypeOK, CallersInvariant, Next
  PROVE  PassesAreOwned'
<1> USE DEF CallersInvariant, PassesAreOwned
<1>1. /\ passes \in Nat /\ active \in Nat /\ (active # 0 => active \in 1 .. passes)
      /\ settled \subseteq settled' /\ PassTypeOK
  BY PassNumbers, LedgerStep DEF TypeOK, PassTypeOK
<1>2. ASSUME ~PassCommitEnds, ~PassEnds
      PROVE  /\ \A p \in 1 .. passes :
                  pass'[p].ended \/ pass'[p].outcome = "settled" => pass'[p].op \in settled'
             /\ active # 0 => /\ pass'[active].op = pass[active].op
                              /\ pass'[active].ended = pass[active].ended
                              /\ pass'[active].outcome \in {"pending", "closed"}
  <2>1. \A p \in 1 .. passes :
          /\ pass'[p].op = pass[p].op /\ pass'[p].ended = pass[p].ended
          /\ pass'[p].outcome = pass[p].outcome \/ pass'[p].outcome = "closed"
    BY <1>2, PassSteps
  <2> QED
    BY <1>1, <2>1
<1>3. ASSUME UNCHANGED <<active, passes, op>>, ~PassCommitEnds, ~PassEnds
      PROVE  PassesAreOwned'
  BY <1>1, <1>2, <1>3
<1>4. ASSUME NEW c \in Callers, TurnInstalls(c)
      PROVE  PassesAreOwned'
  <2>1. \A p \in 1 .. passes + 1 : p \in 1 .. passes \/ p = passes + 1
    BY <1>1
  <2> QED
    BY <1>1, <1>4, <2>1, NewPass
<1>5. CASE PassCommitEnds /\ Settle
  <2>1. /\ active # 0 /\ pass[active].op = op /\ settled' = settled \union {op}
        /\ UNCHANGED <<active, passes>>
    BY <1>5 DEF PassCommitEnds, Settle, TurnsAreHeld
  <2>2. pass' = [pass EXCEPT ![active].ended = TRUE]
    BY <1>5 DEF Settle
  <2>3. /\ \A p \in 1 .. passes : p # active => pass'[p] = pass[p]
        /\ pass'[active] = [pass[active] EXCEPT !.ended = TRUE]
    BY <1>1, <2>1, <2>2, PassNumbers DEF PassTypeOK
  <2>4. /\ pass'[active].ended /\ pass'[active].op = pass[active].op
        /\ pass'[active].outcome = pass[active].outcome
    BY <1>1, <2>1, <2>3, PassNumbers DEF PassTypeOK, PassType
  <2> QED
    BY <1>1, <2>1, <2>3, <2>4
<1>6. CASE PassCommitEnds /\ Advance
  <2>1. UNCHANGED <<active, passes, op, settled>> /\ active # 0
    BY <1>6 DEF PassCommitEnds, Advance, TurnsAreHeld
  <2>2. CASE Settle
    BY <1>5, <1>6, <2>2
  <2>3. CASE ~Settle /\ ~PassEnds
    <3>1. \A p \in 1 .. passes :
            /\ pass'[p].op = pass[p].op /\ pass'[p].ended = pass[p].ended
            /\ pass'[p].outcome = pass[p].outcome \/ pass'[p].outcome = "closed"
      BY <2>3, PassSteps
    <3> QED
      BY <1>1, <2>1, <3>1
  <2>4. ~PassEnds
    BY <1>6 DEF PassCommitEnds, PassEnds
  <2> QED
    BY <2>2, <2>3, <2>4
<1>7. CASE PassEnds
  <2>1. /\ active # 0 /\ active' = 0 /\ UNCHANGED <<op, settled, passes>> /\ busy # "pass"
    BY <1>7 DEF PassEnds, opVars
  <2>2. \A p \in 1 .. passes : pass'[p].op = pass[p].op /\ pass'[p].ended = pass[p].ended
    BY <2>1, PassSteps DEF PassCommitEnds
  <2>3. \A p \in 1 .. passes : p # active => pass'[p] = pass[p]
    BY <1>1, <1>7, PassNumbers DEF PassEnds, PassTypeOK
  <2>4. pass'[active].outcome = "settled" => pass[active].ended
    BY <1>1, <1>7, <2>1, PassNumbers DEF PassEnds, Stuck, PassTypeOK, PassType
  <2> QED
    BY <1>1, <2>1, <2>2, <2>3, <2>4
<1>8. ASSUME NEW c \in Callers, Moves(c)
      PROVE  PassesAreOwned'
  <2>1. UNCHANGED <<active, passes>> \/ TurnInstalls(c)
    BY <1>8 DEF Moves
  <2>2. op' = op \/ CommitEnds(c)
    BY <1>8 DEF Moves
  <2>3. CASE UNCHANGED <<active, passes, op>>
    BY <1>3, <1>8, <2>3, PassRests
  <2>4. CASE CommitEnds(c)
    <3>1. busy = c /\ UNCHANGED <<active, passes, pass, settled>>
      BY <2>4 DEF CommitEnds, passVars
    <3>2. op' = op \/ op = 0
      BY <2>4, CommitEffects
    <3> QED
      BY <1>1, <3>1, <3>2
  <2> QED
    BY <1>4, <2>1, <2>2, <2>3, <2>4
<1>9. CASE PassCommits \/ CommitFails \/ Close \/ CloseEnds
  <2>1. UNCHANGED <<active, passes, op>>
    BY <1>9 DEF PassCommits, CommitFails, Close, CloseEnds, opVars, passVars
  <2> QED
    BY <1>3, <1>9, <2>1, PassRests
<1>10. CASE PassStops
  BY <1>1, <1>10 DEF PassStops, opVars
<1> QED
  BY <1>5, <1>6, <1>7, <1>8, <1>9, <1>10, WhoMoves DEF PassStep, PassCommitEnds

\* Who installed a pass keeps to it.
LEMMA InstalledStep ==
  ASSUME TypeOK, CallersInvariant, Next
  PROVE  PassesAreInstalled'
<1> USE DEF CallersInvariant, PassesAreInstalled
<1>1. \A d \in Callers : pc[d] \in {"observe", "done"} =>
        pc'[d] \in {"observe", "done"} /\ saw'[d] = saw[d]
  <2>1. ASSUME NEW c \in Callers, Moves(c), OnlyCaller(c), NEW d \in Callers,
               pc[d] \in {"observe", "done"}
        PROVE  pc'[d] \in {"observe", "done"} /\ saw'[d] = saw[d]
    BY <2>1 DEF Moves, OnlyCaller
  <2>2. CASE busy \in Callers /\ Return(busy, "closed") /\ OnlyCaller(busy) /\ UNCHANGED saw
    BY <2>2 DEF Return, OnlyCaller, TypeOK, CallTypeOK
  <2>3. CASE UNCHANGED <<pc, saw>>
    BY <2>3
  <2> QED
    BY <2>1, <2>2, <2>3, WhoMoves
<1>2. CASE passes' = passes
  BY <1>1, <1>2
<1>3. ASSUME NEW c \in Callers, TurnInstalls(c)
      PROVE  PassesAreInstalled'
  <2>1. passes' = passes + 1 /\ pc'[c] = "observe" /\ saw'[c] = passes + 1 /\ passes \in Nat
    BY <1>3, NewPass, PassNumbers DEF TypeOK, CallTypeOK
  <2>2. \A p \in 1 .. passes' : p \in 1 .. passes \/ p = passes + 1
    BY <2>1
  <2> QED
    BY <1>1, <2>1, <2>2
<1>4. passes' = passes \/ \E c \in Callers : TurnInstalls(c)
  <2>1. CASE CommitFails \/ PassStep \/ Close \/ CloseEnds
    BY <2>1 DEF CommitFails, PassStep, PassCommits, PassCommitEnds, PassEnds, PassStops, Close,
           CloseEnds, passVars
  <2>2. CASE \E c \in Callers : Moves(c)
    BY <2>2 DEF Moves
  <2> QED
    BY <2>1, <2>2, WhoMoves
<1> QED
  BY <1>2, <1>3, <1>4

\* A call keeps to the operation it set out with.
LEMMA TargetsStep ==
  ASSUME TypeOK, CallersInvariant, Next
  PROVE  DrivesHaveTargets'
<1> USE DEF CallersInvariant, DrivesHaveTargets
<1>1. ASSUME NEW c \in Callers, Call(c) \/ Step(c), Moves(c)
      PROVE  /\ pc'[c] # "new"
             /\ stage'[c] \in {"cancel", "claim"} /\ pc'[c] \notin {"new", "done"} =>
                  target'[c] # 0
  <2>1. CASE Call(c)
    BY <2>1 DEF Call, Goto, Return, First, Ops, TypeOK, CallTypeOK, Kinds
  <2>2. CASE CommitEnds(c)
    BY <2>2, CommitEffects DEF Command, Return, TypeOK, CallTypeOK, OpTypeOK
  <2>3. CASE TurnInspects(c)
    BY <2>3 DEF TurnInspects, Command, TypeOK, CallTypeOK
  <2>4. CASE TurnAlreadyCancelled(c)
    BY <2>4, HasWaited DEF Turn, TurnAlreadyCancelled, HasTurn, Command, TypeOK, CallTypeOK
  <2>5. CASE ~Call(c) /\ ~CommitEnds(c) /\ ~TurnInspects(c) /\ ~TurnAlreadyCancelled(c)
    BY <1>1, <2>5 DEF Moves
  <2> QED
    BY <2>1, <2>2, <2>3, <2>4, <2>5
<1>2. ASSUME NEW c \in Callers, Call(c) \/ Step(c), Moves(c), OnlyCaller(c), kind' = kind
      PROVE  DrivesHaveTargets'
  BY <1>1, <1>2 DEF OnlyCaller, First
<1>3. CASE /\ UNCHANGED <<kind, stage, target>>
           /\ busy \in Callers /\ Return(busy, "closed") /\ OnlyCaller(busy)
  <2>1. \A d \in Callers : pc'[d] \in {pc[d], "done"}
    BY <1>3 DEF Return, OnlyCaller, TypeOK, CallTypeOK
  <2> QED
    BY <1>3, <2>1 DEF First
<1>4. CASE UNCHANGED <<kind, pc, stage, target>>
  BY <1>4 DEF First
<1> QED
  BY <1>2, <1>3, <1>4, WhoMoves

\* A caller that aborts comes to its drive with the cancellation committed.
LEMMA AbortsStep ==
  ASSUME TypeOK, CallersInvariant, Next
  PROVE  AbortsAreDurable'
<1> USE DEF CallersInvariant, AbortsAreDurable
<1>1. /\ accepted \in Nat /\ accepted' \in {accepted, accepted + 1}
      /\ op' \in {op, 0, accepted + 1} /\ (op' = accepted + 1 => accepted' = accepted + 1)
      /\ control = "cancel_requested" /\ op' # accepted + 1 => control' = "cancel_requested"
      /\ op \in Nat /\ op <= accepted
  <2>1. /\ accepted \in Nat /\ op \in Nat /\ op <= accepted
    BY DEF TypeOK, OpTypeOK, Ops, Ledger
  <2>2. ASSUME NEW c \in Callers, CommitEnds(c)
        PROVE  /\ accepted' \in {accepted, accepted + 1} /\ op' \in {op, accepted + 1}
               /\ op' = accepted + 1 => accepted' = accepted + 1
               /\ control = "cancel_requested" /\ op' # accepted + 1 =>
                    control' = "cancel_requested"
    BY <2>1, <2>2, CommitEffects
  <2>3. CASE PassCommitEnds
    BY <2>1, <2>3 DEF PassCommitEnds, Settle, Advance
  <2>4. CASE CommitFails \/ Close \/ CloseEnds \/ PassCommits \/ PassEnds \/ PassStops
    BY <2>1, <2>4 DEF opVars, CommitFails, Close, CloseEnds, PassCommits, PassEnds, PassStops
  <2>5. ASSUME NEW c \in Callers, Moves(c)
        PROVE  UNCHANGED <<op, accepted, control>> \/ CommitEnds(c)
    BY <2>5 DEF Moves
  <2> QED
    BY <2>1, <2>2, <2>3, <2>4, <2>5, WhoMoves DEF PassStep
<1>2. ASSUME NEW d \in Callers, stage'[d] = stage[d], target'[d] = target[d], kind' = kind
      PROVE  /\ kind'[d] = "abort" => stage'[d] \in {"inspect", "cancel", "claim"}
             /\ kind'[d] = "abort" /\ stage'[d] # "inspect" => target'[d] \in 1 .. accepted'
             /\ kind'[d] = "abort" /\ stage'[d] = "claim" /\ op' = target'[d] =>
                  control' = "cancel_requested"
  BY <1>1, <1>2
<1>3. ASSUME NEW c \in Callers, Call(c) \/ Step(c), Moves(c), kind' = kind, kind[c] = "abort"
      PROVE  /\ stage'[c] \in {"inspect", "cancel", "claim"}
             /\ stage'[c] # "inspect" => target'[c] \in 1 .. accepted'
             /\ stage'[c] = "claim" /\ op' = target'[c] => control' = "cancel_requested"
  <2>1. CASE Call(c)
    BY <1>1, <1>3, <2>1 DEF Call, First, DrivesHaveTargets
  <2>2. CASE CommitEnds(c)
    BY <1>1, <1>3, <2>2, CommitEffects DEF Command, Return, TypeOK, CallTypeOK
  <2>3. CASE TurnInspects(c)
    BY <1>1, <1>3, <2>3 DEF TurnInspects, Command, TypeOK, CallTypeOK, Ledger, opVars
  <2>4. CASE TurnAlreadyCancelled(c)
    BY <1>1, <1>3, <2>4 DEF TurnAlreadyCancelled, HasTurn, Command, TypeOK, CallTypeOK, opVars
  <2>5. CASE ~Call(c) /\ ~CommitEnds(c) /\ ~TurnInspects(c) /\ ~TurnAlreadyCancelled(c)
    BY <1>2, <1>3, <2>5 DEF Moves
  <2> QED
    BY <2>1, <2>2, <2>3, <2>4, <2>5
<1>4. ASSUME NEW c \in Callers, Call(c) \/ Step(c), Moves(c), OnlyCaller(c), kind' = kind
      PROVE  AbortsAreDurable'
  BY <1>2, <1>3, <1>4 DEF OnlyCaller
<1>5. CASE UNCHANGED <<kind, stage, target>>
  BY <1>2, <1>5
<1> QED
  BY <1>4, <1>5, WhoMoves

\* A caller observes a pass of its operation; one that aborts, a pass that can
\* no longer come to rest at a wait.
LEMMA ObserversStep ==
  ASSUME TypeOK, CallersInvariant, Next
  PROVE  ObserversMatch' /\ \A c \in Callers : pc'[c] = "observe" => pass'[saw'[c]].op = target'[c]
<1> USE DEF CallersInvariant, ObserversMatch, AnswersAreOwn
<1>1. /\ passes \in Nat /\ (active # 0 => active \in 1 .. passes)
      /\ passes' = passes \/ passes' = passes + 1
  <2>1. passes \in Nat /\ (active # 0 => active \in 1 .. passes)
    BY PassNumbers DEF TypeOK
  <2>2. CASE CommitFails \/ PassStep \/ Close \/ CloseEnds
    BY <2>1, <2>2 DEF CommitFails, PassStep, PassCommits, PassCommitEnds, PassEnds, PassStops,
           Close, CloseEnds, passVars
  <2>3. ASSUME NEW c \in Callers, Moves(c) PROVE passes' = passes \/ passes' = passes + 1
    BY <2>3 DEF Moves, TurnInstalls
  <2> QED
    BY <2>1, <2>2, <2>3, WhoMoves
<1> DEFINE Holds(d) ==
  pc'[d] = "observe" =>
    /\ saw'[d] \in 1 .. passes' /\ pass'[saw'[d]].op = target'[d]
    /\ kind[d] = "abort" =>
         stage'[d] = "claim" /\ pass'[saw'[d]].outcome \notin {"retry", "deferred"}
<1>2. ASSUME NEW d \in Callers, pc[d] = "observe",
             stage'[d] = stage[d], target'[d] = target[d], saw'[d] = saw[d]
      PROVE  Holds(d)
  <2>1. saw[d] \in 1 .. passes /\ pass[saw[d]].op = target[d]
    BY <1>2
  <2>2. pass'[saw[d]].op = pass[saw[d]].op
    BY <2>1, PassSteps
  <2>3. ASSUME kind[d] = "abort"
        PROVE  pass'[saw[d]].outcome \notin {"retry", "deferred"}
    <3>1. stage[d] = "claim" /\ pass[saw[d]].outcome \notin {"retry", "deferred"}
      BY <1>2, <2>3
    <3>2. CASE PassEnds /\ saw[d] = active
      <4>1. CASE pass' = [pass EXCEPT ![active].outcome = "settled"]
        BY <2>1, <3>2, <4>1, PassNumbers DEF TypeOK, PassTypeOK, PassType
      <4>2. CASE Running /\ control = "running"
        BY <2>1, <2>3, <3>1, <3>2, <4>2 DEF Running, PassesAreOwned, AbortsAreDurable
      <4> QED
        BY <3>2, <4>1, <4>2 DEF PassEnds
    <3> QED
      BY <2>1, <3>1, <3>2, PassSteps
  <2> QED
    BY <1>1, <1>2, <2>1, <2>2, <2>3
<1>3. ASSUME NEW c \in Callers, TurnInstalls(c)
      PROVE  Holds(c)
  <2>1. /\ saw'[c] = passes + 1 /\ passes' = passes + 1 /\ target' = target /\ stage' = stage
        /\ stage[c] = "claim" /\ op = target[c]
        /\ pass'[passes + 1].op = op /\ pass'[passes + 1].outcome = "pending"
    BY <1>3, NewPass DEF TypeOK, CallTypeOK
  <2> QED
    BY <1>1, <2>1
<1>4. ASSUME NEW c \in Callers, TurnJoins(c)
      PROVE  Holds(c)
  <2>1. /\ saw'[c] = active /\ active # 0 /\ pass' = pass /\ passes' = passes
        /\ target' = target /\ stage' = stage /\ stage[c] = "claim" /\ op = target[c]
        /\ pc'[c] = IF pass[active].op = op THEN "observe" ELSE "occupied"
    BY <1>4 DEF TurnJoins, HasTurn, Goto, passVars, TypeOK, CallTypeOK
  <2> QED
    BY <1>1, <2>1 DEF PassesAreOwned
<1>5. ASSUME NEW c \in Callers, Moves(c), OnlyCaller(c), NEW d \in Callers
      PROVE  Holds(d)
  <2>1. CASE d = c
    BY <1>3, <1>4, <1>5, <2>1 DEF Moves
  <2>2. CASE d # c
    BY <1>2, <1>5, <2>2 DEF OnlyCaller
  <2> QED
    BY <2>1, <2>2
<1>6. ASSUME UNCHANGED <<stage, target, saw>>, NEW d \in Callers,
             (busy \in Callers /\ Return(busy, "closed") /\ OnlyCaller(busy)) \/ UNCHANGED pc
      PROVE  Holds(d)
  <2>1. pc'[d] = "observe" => pc[d] = "observe"
    BY <1>6 DEF Return, OnlyCaller, TypeOK, CallTypeOK
  <2> QED
    BY <1>2, <1>6, <2>1
<1>7. kind' = kind /\ \A d \in Callers : Holds(d)
  BY <1>5, <1>6, WhoMoves
<1> QED
  BY <1>7

\* An idle lane has no operation and no pass, and gets none while it is owned.
LEMMA OwnersStep ==
  ASSUME TypeOK, CallersInvariant, Next
  PROVE  OwnersAreAlone'
<1> USE DEF CallersInvariant, OwnersAreAlone, CallbackIsAlone, Idle
<1>1. ASSUME NEW c \in Callers, TurnOwns(c), OnlyCaller(c)
      PROVE  OwnersAreAlone'
  <2>1. /\ owner = "none" /\ owner' = c /\ busy' = "none" /\ op' = 0 /\ active' = 0
    BY <1>1 DEF TurnOwns, HasTurn, Leave, opVars, passVars
  <2>2. \A d \in Callers \ {c} : pc'[d] \notin {"claimed", "running"}
    BY <1>1, <2>1 DEF OnlyCaller
  <2> QED
    BY <2>1, <2>2
<1>2. ASSUME NEW c \in Callers, StartCallback(c) \/ EndCallback(c), OnlyCaller(c)
      PROVE  OwnersAreAlone'
  <2>1. owner = c /\ UNCHANGED <<op, active, busy>>
    BY <1>2 DEF StartCallback, EndCallback, opVars, passVars, lineVars
  <2>2. \/ owner' = "none" /\ pc'[c] = "done"
        \/ owner' = owner
    BY <1>2 DEF StartCallback, EndCallback, Release, Return, Goto, TypeOK, CallTypeOK
  <2> QED
    BY <1>2, <2>1, <2>2 DEF OnlyCaller
<1>3. ASSUME NEW c \in Callers, Moves(c), OnlyCaller(c),
             ~TurnOwns(c), ~StartCallback(c), ~EndCallback(c)
      PROVE  OwnersAreAlone'
  <2>1. owner' = owner /\ pc'[c] \notin {"claimed", "running"}
    BY <1>3 DEF Moves
  <2>2. owner # "none" => ~TurnCommits(c) /\ ~CommitEnds(c) /\ ~TurnInstalls(c)
    BY DEF TurnCommits, TurnInstalls, HasTurn, CommitEnds
  <2>3. owner # "none" => UNCHANGED <<op, active, busy>>
    BY <1>3, <2>2 DEF Moves
  <2> QED
    BY <1>3, <2>1, <2>3 DEF OnlyCaller
<1>4. ASSUME NEW c \in Callers, Moves(c), OnlyCaller(c)
      PROVE  OwnersAreAlone'
  BY <1>1, <1>2, <1>3, <1>4
<1>5. CommitFails \/ PassStep \/ Close \/ CloseEnds =>
        owner' = owner /\ (owner # "none" => UNCHANGED <<op, active, busy>>)
  BY DEF CommitFails, PassStep, PassCommits, PassCommitEnds, PassEnds, PassStops, Close,
         CloseEnds, Running, opVars, passVars, lineVars
<1>6. ASSUME owner' = owner, owner # "none" => UNCHANGED <<op, active, busy>>,
             (busy \in Callers /\ Return(busy, "closed") /\ OnlyCaller(busy)) \/ UNCHANGED pc
      PROVE  OwnersAreAlone'
  <2>1. \A d \in Callers : pc'[d] \in {"claimed", "running"} => pc[d] \in {"claimed", "running"}
    BY <1>6 DEF Return, OnlyCaller, TypeOK, CallTypeOK
  <2> QED
    BY <1>6, <2>1
<1> QED
  BY <1>4, <1>5, <1>6, WhoMoves

\* Close waits for the line and for the owner, and keeps newcomers out.
LEMMA ClosesStep ==
  ASSUME TypeOK, CallersInvariant, Next
  PROVE  ClosesAreComplete'
<1> USE DEF CallersInvariant, ClosesAreComplete
<1>1. ASSUME NEW c \in Callers, Moves(c)
      PROVE  ClosesAreComplete'
  <2>1. closer' = closer /\ (closed # "no" => closed' # "no")
    BY <1>1 DEF Moves
  <2>2. ASSUME closer = "done"
        PROVE  line' = <<>> /\ busy' = "none" /\ owner' = "none"
    <3>1. line = <<>> /\ busy = "none" /\ owner = "none" /\ closed # "no"
      BY <2>2
    <3>2. /\ ~TurnCommits(c) /\ ~CommitEnds(c) /\ ~TurnOwns(c) /\ pc[c] # "line"
          /\ Ask(c) => line' = line
          /\ StartCallback(c) \/ EndCallback(c) => owner' \in {owner, "none"}
      <4>1. ~Turn(c)
        BY <3>1, HasWaited DEF Leave
      <4> QED
        BY <1>1, <3>1, <4>1 DEF Moves, TurnCommits, CommitEnds, TurnOwns, HasTurn, Ask,
               StartCallback, EndCallback, Release, TypeOK, LineTypeOK
    <3> QED
      BY <1>1, <3>1, <3>2 DEF Moves
  <2> QED
    BY <2>1, <2>2
<1>2. CASE CommitFails
  BY <1>2 DEF CommitFails, Seal
<1>3. CASE PassStep
  BY <1>3 DEF PassStep, PassCommits, PassCommitEnds, PassEnds, PassStops, Running, endVars, lineVars
<1>4. CASE Close \/ CloseEnds
  BY <1>4 DEF Close, CloseEnds, Seal, lineVars
<1> QED
  BY <1>1, <1>2, <1>3, <1>4, WhoMoves

\* The end that a call reports is the end of its own operation.
LEMMA OwnAnswersStep ==
  ASSUME TypeOK, CallersInvariant, Next
  PROVE  AnswersAreOwn'
<1> USE DEF CallersInvariant
<1>1. settled \subseteq settled'
  BY LedgerStep
<1>2. ASSUME NEW c \in Callers, Observe(c), answer'[c] \in {"settled", "aborted"}
      PROVE  target'[c] \in settled
  <2>1. /\ pc[c] = "observe" /\ target' = target /\ answer[c] = "none"
        /\ saw[c] \in 1 .. passes /\ pass[saw[c]].op = target[c]
    BY <1>2 DEF Observe, Sees, AnswersAreLast, AnswersAreOwn, ObserversMatch
  <2>2. Outcome(c) # "closed" /\ DriveEnds(c, Outcome(c))
    BY <1>2, <2>1 DEF Observe, Return, TypeOK, CallTypeOK
  <2>3. answer'[c] = Ending(c, Outcome(c))
    BY <1>2, <2>1, <2>2 DEF DriveEnds, Return, TypeOK, CallTypeOK
  <2>4. Outcome(c) \in {"settled", "retry", "deferred"}
    BY <1>2, <2>1, <2>2, PassNumbers
       DEF Observe, Sees, Outcome, TypeOK, PassTypeOK, PassType
  <2>5. Outcome(c) = "settled"
    BY <1>2, <2>1, <2>3, <2>4 DEF Ending, ObserversMatch, Outcome
  <2> QED
    BY <2>1, <2>5 DEF PassesAreOwned, Outcome
<1>3. ASSUME NEW c \in Callers, TurnFindsEnd(c), answer'[c] \in {"settled", "aborted"}
      PROVE  target'[c] \in settled
  <2>1. /\ target' = target /\ answer[c] = "none"
        /\ DriveEnds(c, IF target[c] \in settled THEN "settled" ELSE "mismatch")
    <3>1. pc[c] = "line"
      BY <1>3, HasWaited DEF Turn
    <3> QED
      BY <1>3, <3>1 DEF TurnFindsEnd, AnswersAreLast
  <2>2. CASE target[c] \in settled
    BY <2>1, <2>2
  <2>3. CASE target[c] \notin settled
    <3>1. answer'[c] \in {"closed", Ending(c, "mismatch")}
      BY <2>1, <2>3 DEF DriveEnds, Return, TypeOK, CallTypeOK
    <3>2. Ending(c, "mismatch") \in {"fault", "mismatch"}
      BY DEF Ending
    <3> QED
      BY <1>3, <3>1, <3>2
  <2> QED
    BY <2>2, <2>3
<1>4. ASSUME NEW c \in Callers, Moves(c), OnlyCaller(c), NEW d \in Callers,
             answer'[d] \in {"settled", "aborted"}
      PROVE  target'[d] \in settled'
  <2>1. CASE d = c
    BY <1>1, <1>2, <1>3, <1>4, <2>1 DEF Moves
  <2>2. CASE d # c
    BY <1>1, <1>4, <2>2 DEF OnlyCaller, AnswersAreOwn
  <2> QED
    BY <2>1, <2>2
<1>5. ASSUME UNCHANGED target, NEW d \in Callers, answer'[d] \in {"settled", "aborted"},
             (busy \in Callers /\ Return(busy, "closed") /\ OnlyCaller(busy)) \/ UNCHANGED answer
      PROVE  target'[d] \in settled'
  <2>1. answer[d] \in {"settled", "aborted"}
    BY <1>5 DEF Return, OnlyCaller, TypeOK, CallTypeOK
  <2> QED
    BY <1>1, <1>5, <2>1 DEF AnswersAreOwn
<1>6. \A d \in Callers : answer'[d] \in {"settled", "aborted"} => target'[d] \in settled'
  BY <1>4, <1>5, WhoMoves
<1> QED
  BY <1>6, ObserversStep DEF AnswersAreOwn

----------------------------------------------------------------------------
(* Type correctness.                                                        *)

\* A caller's progress, command and answer are written by these.
LEMMA CallUpdates ==
  ASSUME CallTypeOK, NEW c \in Callers
  PROVE  /\ \A w \in Places : Goto(c, w) => pc' \in [Callers -> Places]
         /\ \A w \in Stages : Command(c, w) =>
              pc' \in [Callers -> Places] /\ stage' \in [Callers -> Stages]
         /\ \A w \in Answers : Return(c, w) =>
              pc' \in [Callers -> Places] /\ answer' \in [Callers -> Answers]
  BY DEF CallTypeOK, Goto, Command, Return, Places

\* What a drive ends with is an answer, or closes the lane.
LEMMA DriveEndsTypes ==
  ASSUME TypeOK, NEW c \in Callers, NEW found \in {"settled", "retry", "deferred", "mismatch"},
         DriveEnds(c, found)
  PROVE  /\ pc' \in [Callers -> Places] /\ answer' \in [Callers -> Answers]
         /\ signalled' \in [Callers -> BOOLEAN]
<1>1. Ending(c, found) \in Answers \union {"fault"}
  BY DEF Ending, Answers
<1>2. CASE Ending(c, found) = "fault"
  <2>1. Return(c, "closed") /\ SignalStateChange
    BY <1>2 DEF DriveEnds, Seal
  <2> QED
    BY <2>1, CallUpdates DEF SignalStateChange, TypeOK, Answers
<1>3. CASE Ending(c, found) # "fault"
  <2>1. Return(c, Ending(c, found)) /\ signalled' = signalled
    BY <1>3 DEF DriveEnds
  <2>2. Ending(c, found) \in Answers
    BY <1>1, <1>3
  <2> QED
    BY <2>1, <2>2, CallUpdates DEF TypeOK, CallTypeOK
<1> QED
  BY <1>2, <1>3

LEMMA CallTypes ==
  ASSUME TypeOK, CallersInvariant, Next
  PROVE  CallTypeOK'
<1> USE CallUpdates DEF TypeOK
<1>1. kind' = kind
  BY CallerSteps DEF CallersInvariant
<1>2. ASSUME SignalStateChange
      PROVE  signalled' \in [Callers -> BOOLEAN]
  BY <1>2 DEF SignalStateChange
<1>3. ASSUME NEW c \in Callers, Call(c) PROVE CallTypeOK'
  <2>1. target' \in [Callers -> Ops \union {0}]
    BY <1>3 DEF Call, CallTypeOK
  <2>2. pc' \in [Callers -> Places] /\ answer' \in [Callers -> Answers]
    BY <1>3 DEF Call, CallTypeOK, Places, Answers
  <2> QED
    BY <1>3, <2>1, <2>2 DEF Call, CallTypeOK
<1>4. ASSUME NEW c \in Callers, Ask(c) \/ LookAgain(c) \/ TurnedAway(c) PROVE CallTypeOK'
  <2>1. pc' \in [Callers -> Places] /\ answer' \in [Callers -> Answers]
    BY <1>4 DEF Ask, LookAgain, TurnedAway, CallTypeOK, Places, Answers
  <2> QED
    BY <1>4, <2>1 DEF Ask, LookAgain, TurnedAway, CallTypeOK
<1>5. ASSUME NEW c \in Callers, StartCallback(c) \/ EndCallback(c) PROVE CallTypeOK'
  <2>1. pc' \in [Callers -> Places] /\ answer' \in [Callers -> Answers]
    BY <1>5 DEF StartCallback, EndCallback, CallTypeOK, Places, Answers
  <2>2. signalled' \in [Callers -> BOOLEAN]
    BY <1>2, <1>5 DEF StartCallback, EndCallback, Release, CallTypeOK
  <2> QED
    BY <1>5, <2>1, <2>2 DEF StartCallback, EndCallback, CallTypeOK
<1>6. ASSUME NEW c \in Callers, CommitEnds(c) PROVE CallTypeOK'
  <2>1. UNCHANGED <<kind, saw>> /\ SignalStateChange
    BY <1>6 DEF CommitEnds
  <2>2. target' \in [Callers -> Ops \union {0}]
    BY <1>6, CommitEffects DEF CallersInvariant, CallTypeOK, OpTypeOK, Ops
  <2>3. /\ pc' \in [Callers -> Places] /\ answer' \in [Callers -> Answers]
        /\ stage' \in [Callers -> Stages]
    BY <1>6, CommitEffects DEF CallersInvariant, CallTypeOK, Stages, Answers
  <2> QED
    BY <1>2, <2>1, <2>2, <2>3 DEF CallTypeOK
<1>7. ASSUME NEW c \in Callers, Observe(c) PROVE CallTypeOK'
  <2>1. UNCHANGED <<kind, stage, target, saw>> /\ pc[c] = "observe" /\ Outcome(c) # "pending"
    BY <1>7 DEF Observe, Sees
  <2>2. CASE Outcome(c) = "closed"
    <3>1. Return(c, "closed") /\ signalled' = signalled
      BY <1>7, <2>2 DEF Observe
    <3> QED
      BY <2>1, <3>1 DEF CallTypeOK, Answers
  <2>3. CASE Outcome(c) # "closed"
    <3>1. Outcome(c) \in {"settled", "retry", "deferred"}
      BY <2>1, <2>3, PassNumbers
         DEF CallersInvariant, ObserversMatch, Outcome, PassTypeOK, PassType
    <3>2. DriveEnds(c, Outcome(c))
      BY <1>7, <2>3 DEF Observe
    <3> QED
      BY <2>1, <3>1, <3>2, DriveEndsTypes DEF CallTypeOK
  <2> QED
    BY <2>2, <2>3
<1>8. ASSUME NEW c \in Callers, TurnCommits(c) \/ TurnRefuses(c) \/ TurnFindsIdle(c)
      PROVE  CallTypeOK'
  <2>1. /\ UNCHANGED <<kind, stage, target, saw, signalled>>
        /\ \/ Goto(c, "commit") /\ UNCHANGED answer
           \/ \E w \in {"busy", "nothing", "idle"} : Return(c, w)
    BY <1>8 DEF TurnCommits, TurnRefuses, TurnFindsIdle
  <2> QED
    BY <2>1 DEF CallTypeOK, Places, Answers
<1>9. ASSUME NEW c \in Callers, TurnInspects(c) \/ TurnAlreadyCancelled(c)
      PROVE  CallTypeOK'
  <2>1. /\ UNCHANGED <<kind, saw, signalled, answer>>
        /\ target' \in {target, [target EXCEPT ![c] = op]}
        /\ \E w \in {"cancel", "claim"} : Command(c, w)
    BY <1>9 DEF TurnInspects, TurnAlreadyCancelled
  <2> QED
    BY <2>1 DEF CallTypeOK, OpTypeOK, Stages
<1>10. ASSUME NEW c \in Callers, TurnInstalls(c) PROVE CallTypeOK'
  <2>1. /\ UNCHANGED <<kind, stage, target, answer>> /\ SignalStateChange
        /\ Goto(c, "observe") /\ saw' = [saw EXCEPT ![c] = passes + 1] /\ passes + 1 \in Passes
    BY <1>10, NewPass DEF TurnInstalls
  <2> QED
    BY <1>2, <2>1 DEF CallTypeOK, Places
<1>11. ASSUME NEW c \in Callers, TurnJoins(c) \/ TurnWaits(c) PROVE CallTypeOK'
  <2>1. /\ UNCHANGED <<kind, stage, target, answer>>
        /\ signalled' \in {signalled, [signalled EXCEPT ![c] = FALSE]}
        /\ \E w \in {"observe", "occupied", "wait"} : Goto(c, w)
        /\ saw' = [saw EXCEPT ![c] = active]
    BY <1>11 DEF TurnJoins, TurnWaits
  <2>2. active \in Passes \union {0}
    BY PassNumbers
  <2>3. saw' \in [Callers -> Passes \union {0}] /\ signalled' \in [Callers -> BOOLEAN]
    BY <2>1, <2>2 DEF CallTypeOK
  <2>4. pc' \in [Callers -> Places]
    BY <2>1 DEF Places
  <2> QED
    BY <2>1, <2>3, <2>4 DEF CallTypeOK
<1>12. ASSUME NEW c \in Callers, TurnFindsEnd(c) PROVE CallTypeOK'
  <2>1. /\ UNCHANGED <<kind, stage, target, saw>>
        /\ \E found \in {"settled", "mismatch"} : DriveEnds(c, found)
    BY <1>12 DEF TurnFindsEnd
  <2> QED
    BY <2>1, DriveEndsTypes DEF CallTypeOK
<1>13. ASSUME NEW c \in Callers, TurnOwns(c) PROVE CallTypeOK'
  BY <1>2, <1>13 DEF TurnOwns, CallTypeOK, Places
<1>14. ASSUME NEW c \in Callers, Step(c) PROVE CallTypeOK'
  BY <1>4, <1>5, <1>6, <1>7, <1>8, <1>9, <1>10, <1>11, <1>12, <1>13, <1>14 DEF Step, Turn
<1>15. CASE CommitFails
  <2>1. /\ UNCHANGED <<kind, stage, target, saw>> /\ SignalStateChange
    BY <1>15 DEF CommitFails, Seal
  <2>2. pc' \in [Callers -> Places] /\ answer' \in [Callers -> Answers]
    <3>1. CASE busy = "pass"
      BY <1>15, <3>1 DEF CommitFails, CallTypeOK
    <3>2. CASE busy \in Callers
      BY <1>15, <3>2 DEF CommitFails, Answers
    <3> QED
      BY <1>15, <3>1, <3>2 DEF CommitFails, LineTypeOK
  <2> QED
    BY <1>2, <2>1, <2>2 DEF CallTypeOK
<1>16. CASE PassStep \/ Close \/ CloseEnds
  <2>1. /\ UNCHANGED <<kind, pc, stage, target, saw, answer>>
        /\ SignalStateChange \/ signalled' = signalled
    BY <1>16 DEF PassStep, PassCommits, PassCommitEnds, PassEnds, PassStops, Close, CloseEnds,
           Seal, callVars
  <2> QED
    BY <1>2, <2>1 DEF CallTypeOK
<1> QED
  BY <1>3, <1>14, <1>15, <1>16 DEF Next

\* The lane is closed for one of two reasons, and its passes stay passes.
LEMMA SealTypes ==
  ASSUME TypeOK, NEW why \in {"closed", "fault"}, Seal(why)
  PROVE  closed' \in {"no", "closed", "fault"} /\ pass' \in [Passes -> PassType]
<1>1. closed' \in {"no", "closed", "fault"}
  BY DEF Seal, TypeOK, LineTypeOK
<1>2. \A p \in Passes : [pass[p] EXCEPT !.outcome = "closed"] \in PassType
  BY DEF TypeOK, PassTypeOK, PassType
<1> QED
  BY <1>1, <1>2 DEF Seal, TypeOK, PassTypeOK

LEMMA LineTypes ==
  ASSUME TypeOK, CallersInvariant, Next
  PROVE  LineTypeOK'
<1> USE DEF TypeOK, LineTypeOK
<1>1. ASSUME NEW c \in Callers, Moves(c), Call(c) \/ Step(c)
      PROVE  LineTypeOK'
  <2>1. line' \in Seq(Callers)
    <3>1. CASE Turn(c)
      BY <3>1, LeaveLine, HasWaited DEF CallersInvariant
    <3>2. CASE Ask(c)
      BY <3>2, AppendProperties DEF Ask
    <3>3. CASE ~Turn(c) /\ ~Ask(c)
      BY <1>1, <3>3 DEF Moves
    <3> QED
      BY <3>1, <3>2, <3>3
  <2>2. busy' \in Callers \union {"none", "pass"}
    BY <1>1 DEF Moves, TurnCommits, CommitEnds
  <2>3. owner' \in Callers \union {"none"}
    BY <1>1 DEF Moves, TurnOwns, StartCallback, EndCallback, Release
  <2>4. closed' \in {"no", "closed", "fault"} /\ UNCHANGED boundVars
    <3>1. CASE Observe(c) \/ TurnFindsEnd(c)
      BY <3>1, SealTypes DEF Observe, TurnFindsEnd, DriveEnds
    <3>2. CASE Step(c) /\ ~Observe(c) /\ ~Turn(c)
      BY <3>2 DEF Step, Ask, CommitEnds, LookAgain, StartCallback, EndCallback, endVars
    <3>3. CASE Turn(c) /\ ~TurnFindsEnd(c)
      BY <3>3 DEF Turn, TurnedAway, TurnCommits, TurnRefuses, TurnInspects, TurnAlreadyCancelled,
             TurnInstalls, TurnJoins, TurnWaits, TurnFindsIdle, TurnOwns, endVars
    <3>4. CASE Call(c)
      BY <3>4 DEF Call, endVars
    <3> QED
      BY <1>1, <3>1, <3>2, <3>3, <3>4
  <2>5. closer' = closer
    BY <1>1 DEF Moves
  <2> QED
    BY <2>1, <2>2, <2>3, <2>4, <2>5 DEF boundVars
<1>2. CASE CommitFails
  <2>1. closed' \in {"no", "closed", "fault"}
    BY <1>2, SealTypes DEF CommitFails
  <2>2. failures' \in 0 .. MaxFailures
    BY <1>2 DEF CommitFails
  <2> QED
    BY <1>2, <2>1, <2>2 DEF CommitFails
<1>3. CASE PassStep
  <2>1. waitings' \in 0 .. MaxWaits
    BY <1>3 DEF PassStep, PassCommits, PassCommitEnds, PassEnds, PassStops, Settle, Advance,
           boundVars
  <2> QED
    BY <1>3, <2>1 DEF PassStep, PassCommits, PassCommitEnds, PassEnds, PassStops, boundVars,
           endVars, lineVars
<1>4. CASE Close \/ CloseEnds
  BY <1>4, SealTypes DEF Close, CloseEnds, boundVars, lineVars
<1> QED
  BY <1>1, <1>2, <1>3, <1>4, WhoMoves

LEMMA OpTypes ==
  ASSUME TypeOK, CallersInvariant, Next
  PROVE  OpTypeOK'
<1> USE DEF TypeOK, OpTypeOK
<1>1. ASSUME UNCHANGED opVars
      PROVE  OpTypeOK'
  BY <1>1 DEF opVars
<1>2. ASSUME NEW c \in Callers, CommitEnds(c)
      PROVE  OpTypeOK'
  <2>1. settled' = settled
    BY <1>2 DEF CommitEnds
  <2>2. op' \in Ops \union {0} /\ accepted' \in 0 .. MaxOps
    BY <1>2, CommitEffects DEF CallersInvariant, Ops
  <2>3. control' \in {"running", "cancel_requested"} /\ at' \in {"working", "retry", "deferred"}
    BY <1>2, CommitEffects DEF CallersInvariant
  <2> QED
    BY <2>1, <2>2, <2>3
<1>3. CASE PassCommitEnds
  <2>1. op \in Ops
    BY <1>3 DEF PassCommitEnds, CallersInvariant, TurnsAreHeld, PassesAreOwned
  <2> QED
    BY <1>3, <2>1 DEF PassCommitEnds, Settle, Advance
<1>4. CASE CommitFails \/ PassCommits \/ PassEnds \/ PassStops \/ Close \/ CloseEnds
  BY <1>1, <1>4 DEF CommitFails, PassCommits, PassEnds, PassStops, Close, CloseEnds
<1>5. ASSUME NEW c \in Callers, Moves(c)
      PROVE  OpTypeOK'
  BY <1>1, <1>2, <1>5 DEF Moves, opVars
<1> QED
  BY <1>3, <1>4, <1>5, WhoMoves DEF PassStep

LEMMA PassTypes ==
  ASSUME TypeOK, CallersInvariant, Next
  PROVE  PassTypeOK'
<1> USE DEF TypeOK, PassTypeOK
<1>1. passes \in Nat /\ active \in Nat /\ (active # 0 => active \in Passes)
  BY PassNumbers
<1>2. ASSUME UNCHANGED <<active, passes>>, pass' \in [Passes -> PassType]
      PROVE  PassTypeOK'
  BY <1>2
<1>3. ASSUME NEW c \in Callers, TurnInstalls(c)
      PROVE  PassTypeOK'
  <2>1. passes + 1 \in Passes /\ passes' = passes + 1 /\ active' = passes + 1
    BY <1>3, NewPass
  <2>2. [NoPass EXCEPT !.op = op, !.waits = kind[c] \in {"prompt", "resume"},
                       !.polls = kind[c] = "resume"] \in PassType
    <3>1. \A o \in Ops \union {0}, a, b \in BOOLEAN :
            [NoPass EXCEPT !.op = o, !.waits = a, !.polls = b] \in PassType
      BY DEF NoPass, PassType
    <3>2. (kind[c] \in {"prompt", "resume"}) \in BOOLEAN /\ (kind[c] = "resume") \in BOOLEAN
      OBVIOUS
    <3> QED
      BY <3>1, <3>2 DEF OpTypeOK
  <2>3. pass' \in [Passes -> PassType]
    BY <1>3, <2>1, <2>2 DEF TurnInstalls
  <2> QED
    BY <1>1, <2>1, <2>3
<1>4. ASSUME NEW c \in Callers, Moves(c), Call(c) \/ Step(c), ~TurnInstalls(c)
      PROVE  PassTypeOK'
  <2>1. UNCHANGED <<active, passes>>
    BY <1>4 DEF Moves
  <2>2. CASE Observe(c) \/ TurnFindsEnd(c)
    BY <1>2, <2>1, <2>2, SealTypes DEF Observe, TurnFindsEnd, DriveEnds
  <2>3. CASE Step(c) /\ ~Observe(c) /\ ~Turn(c)
    BY <1>2, <2>1, <2>3 DEF Step, Ask, CommitEnds, LookAgain, StartCallback, EndCallback, passVars
  <2>4. CASE Turn(c) /\ ~TurnFindsEnd(c)
    BY <1>2, <1>4, <2>1, <2>4
       DEF Turn, TurnedAway, TurnCommits, TurnRefuses, TurnInspects, TurnAlreadyCancelled,
           TurnJoins, TurnWaits, TurnFindsIdle, TurnOwns, passVars
  <2>5. CASE Call(c)
    BY <1>2, <2>1, <2>5 DEF Call, passVars
  <2> QED
    BY <1>4, <2>2, <2>3, <2>4, <2>5
<1>5. CASE CommitFails \/ Close
  BY <1>2, <1>5, SealTypes DEF CommitFails, Close
<1>6. CASE PassCommits \/ PassStops \/ CloseEnds
  BY <1>1, <1>6 DEF PassCommits, PassStops, CloseEnds, passVars
<1>7. CASE PassCommitEnds
  <2>1. active \in Passes /\ UNCHANGED <<active, passes>>
    BY <1>1, <1>7 DEF PassCommitEnds, CallersInvariant, TurnsAreHeld
  <2>2. /\ [pass[active] EXCEPT !.ended = TRUE] \in PassType
        /\ [pass[active] EXCEPT !.polls = FALSE] \in PassType
    BY <2>1 DEF PassType
  <2>3. \/ pass' = [pass EXCEPT ![active] = [pass[active] EXCEPT !.ended = TRUE]]
        \/ pass' = [pass EXCEPT ![active] = [pass[active] EXCEPT !.polls = FALSE]]
        \/ pass' = pass
    BY <1>7, <2>1 DEF PassCommitEnds, Settle, Advance
  <2>4. pass' \in [Passes -> PassType]
    BY <2>1, <2>2, <2>3
  <2> QED
    BY <1>2, <2>1, <2>4
<1>8. CASE PassEnds
  <2>1. active \in Passes /\ active' = 0 /\ passes' = passes
    BY <1>1, <1>8 DEF PassEnds
  <2>2. \A w \in {"settled", "retry", "deferred"} : [pass[active] EXCEPT !.outcome = w] \in PassType
    BY <2>1 DEF PassType
  <2>3. \E w \in {"settled", "retry", "deferred"} :
          pass' = [pass EXCEPT ![active] = [pass[active] EXCEPT !.outcome = w]]
    BY <1>8 DEF PassEnds, Stuck
  <2>4. pass' \in [Passes -> PassType]
    BY <2>1, <2>2, <2>3
  <2> QED
    BY <1>1, <2>1, <2>4
<1> QED
  BY <1>3, <1>4, <1>5, <1>6, <1>7, <1>8, WhoMoves DEF PassStep

----------------------------------------------------------------------------
(* The theorems.                                                            *)

LEMMA CallersInit == Init => TypeOK /\ CallersInvariant
<1> SUFFICES ASSUME Init PROVE TypeOK /\ CallersInvariant
  OBVIOUS
<1>1. kind \in [Callers -> Kinds] /\ \A c \in Callers : First(kind[c]) \in Stages
  BY DEF Init, First, Kinds, Stages
<1>2. CallTypeOK
  BY <1>1 DEF Init, CallTypeOK, Places, Answers
<1>3. LineTypeOK /\ OpTypeOK
  BY EmptySeq DEF Init, LineTypeOK, OpTypeOK
<1>4. PassTypeOK
  BY DEF Init, PassTypeOK, PassType, NoPass
<1>5. LineIsQueue /\ AnswersAreLast /\ TurnsAreHeld /\ PassesAreInstalled /\ ObserversMatch
  BY EmptySeq DEF Init, LineIsQueue, AnswersAreLast, TurnsAreHeld, PassesAreInstalled,
     ObserversMatch
<1>6. Ledger /\ PassesAreOwned /\ OwnersAreAlone /\ ClosesAreComplete /\ AnswersAreOwn
  BY DEF Init, Ledger, PassesAreOwned, OwnersAreAlone, CallbackIsAlone, ClosesAreComplete,
     AnswersAreOwn
<1>7. DrivesHaveTargets /\ AbortsAreDurable
  BY <1>1 DEF Init, DrivesHaveTargets, AbortsAreDurable, First
<1> QED
  BY <1>2, <1>3, <1>4, <1>5, <1>6, <1>7 DEF TypeOK, CallersInvariant

LEMMA CallersNext ==
  TypeOK /\ CallersInvariant /\ [Next]_vars => TypeOK' /\ CallersInvariant'
<1> SUFFICES ASSUME TypeOK, CallersInvariant, [Next]_vars PROVE TypeOK' /\ CallersInvariant'
  OBVIOUS
<1>1. CASE Next
  <2>1. TypeOK'
    BY <1>1, CallTypes, LineTypes, OpTypes, PassTypes DEF TypeOK
  <2>2. CallersInvariant'
    BY <1>1, QueueStep, AnswersStep, LedgerStep, TurnsStep, PassesOwnedStep, InstalledStep,
       ObserversStep, TargetsStep, AbortsStep, OwnersStep, ClosesStep, OwnAnswersStep
       DEF CallersInvariant
  <2> QED
    BY <2>1, <2>2
<1>2. CASE UNCHANGED vars
  <2> USE <1>2 DEF vars, callVars, lineVars, opVars, passVars, endVars, boundVars
  <2>1. TypeOK'
    BY DEF TypeOK, CallTypeOK, LineTypeOK, OpTypeOK, PassTypeOK
  <2>2. /\ LineIsQueue' /\ AnswersAreLast' /\ Ledger' /\ TurnsAreHeld' /\ PassesAreOwned'
        /\ PassesAreInstalled'
    BY DEF CallersInvariant, LineIsQueue, AnswersAreLast, Ledger, TurnsAreHeld, PassesAreOwned,
       PassesAreInstalled
  <2>3. ObserversMatch' /\ DrivesHaveTargets' /\ AbortsAreDurable'
    BY DEF CallersInvariant, ObserversMatch, DrivesHaveTargets, AbortsAreDurable, First
  <2>4. OwnersAreAlone' /\ ClosesAreComplete' /\ AnswersAreOwn'
    BY DEF CallersInvariant, OwnersAreAlone, CallbackIsAlone, Idle, ClosesAreComplete,
       AnswersAreOwn
  <2> QED
    BY <2>1, <2>2, <2>3, <2>4 DEF CallersInvariant
<1> QED
  BY <1>1, <1>2

LEMMA CallersInductive == Spec => [](TypeOK /\ CallersInvariant)
  BY CallersInit, CallersNext, PTL DEF Spec

\* LaneCallers is well typed: in particular there is never a pass without a
\* caller that installed it (Lane.drive), and no more operations than acceptances.
THEOREM CallersTypesHold == Spec => []TypeOK
  BY CallersInductive, PTL

\* While a callback owns the lane (runWhenIdle) there is no operation, no pass
\* and no commit, however many callers were queued when it claimed the lane.
THEOREM CallbacksAreAlone == Spec => []CallbackIsAlone
<1>1. CallersInvariant => CallbackIsAlone
  BY DEF CallersInvariant, OwnersAreAlone
<1> QED
  BY <1>1, CallersInductive, PTL

\* prompt, resume, abort and drive report the end of their own operation,
\* whosever pass they joined or waited for.
THEOREM AnswersAreTheirOwn == Spec => []AnswersAreOwn
<1>1. CallersInvariant => AnswersAreOwn
  BY DEF CallersInvariant
<1> QED
  BY <1>1, CallersInductive, PTL

\* Once AgentHarness.close has returned no step changes the lane's operation or
\* commits, and no callback of runWhenIdle runs.
THEOREM ClosedStaysQuiet == Spec => ClosedIsQuiet
<1>1. ASSUME TypeOK, CallersInvariant, [Next]_vars, closer = "done"
      PROVE  /\ UNCHANGED <<op, accepted, control, at, settled, busy>>
             /\ \A c \in Callers : pc[c] # "running"
  <2>1. line = <<>> /\ busy = "none" /\ owner = "none" /\ closed # "no"
    BY <1>1 DEF CallersInvariant, ClosesAreComplete
  <2>2. \A c \in Callers : pc[c] # "running"
    <3>1. \A c \in Callers : c # "none"
      BY CallersAssumption
    <3> QED
      BY <1>1, <2>1, <3>1 DEF CallersInvariant, OwnersAreAlone
  <2>3. ASSUME NEW c \in Callers, Moves(c)
        PROVE  UNCHANGED <<op, accepted, control, at, settled, busy>>
    BY <2>1, <2>3 DEF Moves, CommitEnds, TurnCommits, HasTurn
  <2>4. CASE PassStep \/ CommitFails \/ Close \/ CloseEnds
    BY <2>1, <2>2, <2>4 DEF PassStep, PassCommits, PassCommitEnds, PassEnds, PassStops,
           CommitFails, Close, CloseEnds, Running, opVars, lineVars
  <2>5. CASE UNCHANGED vars
    BY <2>2, <2>5 DEF vars, opVars, lineVars
  <2> QED
    BY <1>1, <2>2, <2>3, <2>4, <2>5, WhoMoves
<1>2. TypeOK /\ CallersInvariant /\ [Next]_vars =>
        [closer = "done" => /\ UNCHANGED <<op, accepted, control, at, settled, busy>>
                            /\ \A c \in Callers : pc[c] # "running"]_vars
  BY <1>1
<1> QED
  BY <1>2, CallersInductive, PTL DEF Spec, ClosedIsQuiet

=============================================================================
