---------------------------- MODULE JsonlStorage ----------------------------
(****************************************************************************)
(* One session in a JSONL file: JsonlStorage, the Session's mutation line   *)
(* in front of it, and a fork that reads the file beside it.  A transaction *)
(* is one line.  Bytes reach the file in pieces, any file system call may   *)
(* fail with some of its bytes written, and the process may stop anywhere.  *)
(*                                                                          *)
(* The file starts in format 3 (a legacy session) or format 4.  The legacy  *)
(* entries themselves never change and are left out: the upgrade rewrites   *)
(* the file as format 4 with the line of the transaction that caused it.    *)
(* A transaction has one sequence number here, whatever its writes.         *)
(****************************************************************************)
EXTENDS Naturals, SequencesExt

CONSTANTS
  Requests,     \* transactions that callers submit
  Formats,      \* formats the file may start in
  FaultsOnError,\* a failed commit faults the owner: all writes come from a
                \* harness; FALSE when hosts also use the Session directly
  MaxFailures,  \* file system calls that fail
  MaxStops      \* times the process stops without closing

ASSUME StorageAssumption ==
  /\ IsFiniteSet(Requests) /\ Formats \subseteq {"v3", "v4"}
  /\ FaultsOnError \in BOOLEAN /\ MaxFailures \in Nat /\ MaxStops \in Nat

VARIABLES
  (* files *)
  format,  \* of the session file
  lines,   \* of the session file, after the header
  temp,    \* the staging file
  (* process *)
  phase,   \* of the Session: who may use it
  memory,  \* InMemoryStorageState: the transactions it holds, its next
           \* sequence, and what backs it
  queue,   \* callers waiting on the mutation line
  job,     \* the commit or repair that uses the file system now
  fork,    \* a fork of this session, and what had committed when it began
  answer,  \* what the caller of each transaction knows
  (* bounds *)
  failures, stops

fileVars == <<format, lines, temp>>
vars == <<fileVars, phase, memory, queue, job, fork, answer, failures, stops>>

NoRequest == "none"
LineType == [seq : Nat, req : Requests, is : {"whole", "torn", "mixed"}]
NoFile  == [state |-> "none", lines |-> <<>>]
NoJob   == [req |-> NoRequest, pc |-> "none"]
NoFork  == [pc |-> "none", from |-> "v4", bound |-> 0, index |-> <<>>, copy |-> <<>>,
            known |-> {}]
Unread  == [log |-> <<>>, next |-> 1, backing |-> "none"]

Init ==
  /\ format \in Formats /\ lines = <<>> /\ temp = NoFile
  /\ phase = "closed" /\ memory = Unread /\ queue = <<>> /\ job = NoJob
  /\ fork = NoFork /\ answer = [r \in Requests |-> "new"]
  /\ failures = 0 /\ stops = 0

Torn     == lines # <<>> /\ Last(lines).is = "torn"
Complete == SubSeq(lines, 1, IF Torn THEN Len(lines) - 1 ELSE Len(lines))
Transactions(ls) == [i \in DOMAIN ls |-> ls[i].req]

\* validateCommittedWrites and parseJsonlTransaction accept every line.
Replayable ==
  \A i \in DOMAIN Complete :
    /\ Complete[i].is = "whole"
    /\ i > 1 => Complete[i].seq > Complete[i - 1].seq
\* Mutant: the count of the lines, from 0.
SeqAfter(ls) == Len(ls)
NextSeq(ls) == IF ls = <<>> THEN 1 ELSE Last(ls).seq + 1

Reply(R, what) == [r \in Requests |-> IF r \in R THEN what ELSE answer[r]]
Fails == failures < MaxFailures /\ failures' = failures + 1

----------------------------------------------------------------------------
(* Opening.                                                                 *)

\* Read the file and replay it.  A torn last line is dropped by publishing the
\* others again; a line that does not replay is corruption.
Open ==
  /\ phase = "closed"
  /\ memory' = IF format = "v3" THEN [Unread EXCEPT !.backing = "v3"]
               ELSE IF Replayable
                 THEN [log |-> Transactions(Complete), next |-> NextSeq(Complete),
                       backing |-> "v4"]
               ELSE Unread
  /\ phase' = IF format = "v4" /\ ~Replayable THEN "corrupt"
              ELSE IF format = "v4" /\ Torn THEN "repairing" ELSE "open"
  /\ job' = IF phase' = "repairing" THEN [NoJob EXCEPT !.pc = "stage"] ELSE NoJob
  /\ UNCHANGED <<fileVars, queue, fork, answer, failures, stops>>

----------------------------------------------------------------------------
(* Commits.                                                                 *)

\* A Session call takes its place on the mutation line, which refuses it once
\* the session is sealed.
Submit(r) ==
  /\ answer[r] = "new" /\ phase \in {"open", "faulted", "closing"}
  /\ IF phase = "open"
       THEN queue' = Append(queue, r) /\ answer' = Reply({r}, "pending")
       ELSE queue' = queue /\ answer' = Reply({r}, "rejected")
  /\ UNCHANGED <<fileVars, phase, memory, job, fork, failures, stops>>

StartCommit ==
  /\ phase = "open" /\ job = NoJob /\ queue # <<>>
  /\ job' = [req |-> Head(queue),
             pc |-> IF memory.backing = "v3" THEN "stage" ELSE "append"]
  /\ queue' = Tail(queue)
  /\ UNCHANGED <<fileVars, phase, memory, fork, answer, failures, stops>>

NewLine(is) == [seq |-> memory.next, req |-> job.req, is |-> is]

\* The first bytes of the line arrive, behind whatever the file ends in.
WritePart ==
  /\ job.pc = "append"
  /\ lines' = IF Torn THEN lines ELSE Append(lines, NewLine("torn"))
  /\ job' = [job EXCEPT !.pc = IF Torn THEN "appending_mixed" ELSE "appending"]
  /\ UNCHANGED <<format, temp, phase, memory, queue, fork, answer, failures, stops>>

\* The rest arrives, with the newline that makes it a line.
WriteRest ==
  /\ job.pc \in {"appending", "appending_mixed"}
  /\ lines' = [lines EXCEPT ![Len(lines)].is =
                 IF job.pc = "appending" THEN "whole" ELSE "mixed"]
  /\ job' = [job EXCEPT !.pc = "written"]
  /\ UNCHANGED <<format, temp, phase, memory, queue, fork, answer, failures, stops>>

Applied == [log |-> Append(memory.log, job.req), next |-> memory.next + 1, backing |-> "v4"]

\* Mutant: memory changes when the append is under way.
AppliesEarly ==
  /\ job.pc \in {"appending", "written"}
  /\ memory' = Applied /\ answer' = Reply({job.req}, "committed") /\ job' = NoJob
  /\ UNCHANGED <<fileVars, phase, queue, fork, failures, stops>>

\* appendFile succeeds: only now memory changes and the caller hears of it.
CommitApplies ==
  /\ job.pc = "written"
  /\ memory' = Applied /\ answer' = Reply({job.req}, "committed") /\ job' = NoJob
  /\ UNCHANGED <<fileVars, phase, queue, fork, failures, stops>>

----------------------------------------------------------------------------
(* publishFileAtomically, for a repair and for the upgrade of format 3.     *)

StagedLines ==
  IF phase = "repairing" THEN Complete ELSE <<NewLine("whole")>>

\* Mutant: the staging file is published before its lines are written.
StagePublishes ==
  /\ job.pc = "stage"
  /\ temp' = [state |-> "part", lines |-> <<>>]
  /\ job' = [job EXCEPT !.pc = "publish"]
  /\ UNCHANGED <<format, lines, phase, memory, queue, fork, answer, failures, stops>>

\* writeFile truncates the staging file, whatever an earlier process left there.
StageBegin ==
  /\ job.pc = "stage"
  /\ temp' = [state |-> "part", lines |-> <<>>]
  /\ job' = [job EXCEPT !.pc = "staging"]
  /\ UNCHANGED <<format, lines, phase, memory, queue, fork, answer, failures, stops>>

StageWrite ==
  /\ job.pc = "staging"
  /\ temp' = [state |-> "whole", lines |-> StagedLines]
  /\ job' = [job EXCEPT !.pc = "publish"]
  /\ UNCHANGED <<format, lines, phase, memory, queue, fork, answer, failures, stops>>

\* renameFile, after which the repair is over or the upgrade has committed.
Publish ==
  /\ job.pc = "publish"
  /\ lines' = temp.lines /\ format' = "v4" /\ temp' = NoFile
  /\ job' = IF phase = "repairing" THEN NoJob ELSE [job EXCEPT !.pc = "written"]
  /\ phase' = IF phase = "repairing" THEN "open" ELSE phase
  /\ UNCHANGED <<memory, queue, fork, answer, failures, stops>>

\* A file system call of the job fails, perhaps after it wrote.  The staging
\* file is removed if it can be.  A commit is rejected: it faults the harness
\* that made it, while a caller of the Session may go on.  A repair fails the
\* open.
JobFails ==
  /\ job # NoJob /\ Fails
  /\ job.pc = "written" => format = "v4" /\ memory.backing = "v4"
  /\ temp' \in {temp, NoFile}
  /\ job' = NoJob
  /\ IF phase = "repairing"
       THEN phase' = "closed" /\ memory' = Unread /\ UNCHANGED <<answer, queue>>
     ELSE IF FaultsOnError /\ phase = "open"
       THEN /\ phase' = "faulted" /\ queue' = <<>> /\ UNCHANGED memory
            /\ answer' = Reply({job.req} \union ToSet(queue), "rejected")
     ELSE answer' = Reply({job.req}, "rejected") /\ UNCHANGED <<phase, queue, memory>>
  /\ UNCHANGED <<format, lines, fork, stops>>

----------------------------------------------------------------------------
(* Closing, and the process stopping.                                       *)

\* Mutant: callers that wait are forgotten.
CloseForgets ==
  /\ phase \in {"open", "faulted"}
  /\ phase' = "closing" /\ queue' = <<>>
  /\ UNCHANGED <<fileVars, memory, job, fork, answer, failures, stops>>

\* Session.close seals the mutation line: callers that wait their turn are
\* rejected, the one that holds it finishes.
Close ==
  /\ phase \in {"open", "faulted"}
  /\ phase' = "closing" /\ queue' = <<>>
  /\ answer' = Reply(ToSet(queue), "rejected")
  /\ UNCHANGED <<fileVars, memory, job, fork, failures, stops>>

CloseEnds ==
  /\ phase = "closing" /\ job = NoJob
  /\ phase' = "closed" /\ memory' = Unread
  /\ UNCHANGED <<fileVars, queue, job, fork, answer, failures, stops>>

Stop ==
  /\ phase # "corrupt" /\ stops < MaxStops /\ stops' = stops + 1
  /\ phase' = "closed" /\ memory' = Unread /\ queue' = <<>> /\ job' = NoJob
  /\ answer' = [r \in Requests |-> IF answer[r] = "pending" THEN "lost" ELSE answer[r]]
  /\ fork' = IF fork.pc \in {"captured", "indexed"} THEN [fork EXCEPT !.pc = "failed"] ELSE fork
  /\ UNCHANGED <<fileVars, failures>>

----------------------------------------------------------------------------
(* Forks.                                                                   *)

Acknowledged == {r \in Requests : answer[r] = "committed"}

\* An open source gives the next sequence of its commit queue, once the commit
\* that runs has ended; it must be in format 4.  A closed one is read to its end.
ForkCapture ==
  /\ fork.pc = "none"
  /\ \/ /\ phase \in {"open", "faulted", "closing"} /\ memory.backing = "v4" /\ job = NoJob
        /\ fork' = [NoFork EXCEPT !.pc = "captured", !.bound = memory.next,
                                  !.known = Acknowledged]
     \/ /\ phase \in {"closed", "repairing"}
        /\ fork' = [NoFork EXCEPT !.pc = "captured", !.from = format, !.known = Acknowledged]
  /\ UNCHANGED <<fileVars, phase, memory, queue, job, answer, failures, stops>>

\* Mutant: a pass reads to the end of the file.
AllLines(ls, bound) == ls
\* The lines before the first that reaches the bound.
Before(ls, bound) ==
  LET Reaches(i) == bound # 0 /\ ls[i].seq >= bound
      IsEnd(n)   == (\A i \in 1 .. n : ~Reaches(i)) /\ (n < Len(ls) => Reaches(n + 1))
  IN SubSeq(ls, 1, CHOOSE n \in 0 .. Len(ls) : IsEnd(n))
CanRead(seen)  == format = fork.from /\ \A i \in DOMAIN seen : seen[i].is = "whole"

ForkIndex ==
  /\ fork.pc = "captured"
  /\ LET seen == Before(Complete, fork.bound)
     IN fork' = IF CanRead(seen)
                  THEN [fork EXCEPT !.pc = "indexed", !.index = Transactions(seen),
                          !.bound = IF fork.bound = 0 THEN NextSeq(seen) ELSE fork.bound]
                  ELSE [fork EXCEPT !.pc = "failed"]
  /\ UNCHANGED <<fileVars, phase, memory, queue, job, answer, failures, stops>>

\* The copy reads the source again; it is published by one rename.
ForkCopy ==
  /\ fork.pc = "indexed"
  /\ LET seen == Before(Complete, fork.bound)
     IN fork' = IF CanRead(seen) THEN [fork EXCEPT !.pc = "done", !.copy = Transactions(seen)]
                ELSE [fork EXCEPT !.pc = "failed"]
  /\ UNCHANGED <<fileVars, phase, memory, queue, job, answer, failures, stops>>

----------------------------------------------------------------------------

JobStep == StartCommit \/ WritePart \/ WriteRest \/ CommitApplies
             \/ StageBegin \/ StageWrite \/ Publish \/ JobFails
ForkStep == ForkCapture \/ ForkIndex \/ ForkCopy
Next == \/ Open \/ Close \/ CloseEnds \/ Stop \/ JobStep \/ ForkStep
        \/ \E r \in Requests : Submit(r)

Spec == Init /\ [][Next]_vars

\* File system calls return.
FairSpec == Spec /\ WF_vars(JobStep)

----------------------------------------------------------------------------

Phases == {"closed", "repairing", "open", "faulted", "closing", "corrupt"}
JobPcs == {"none", "append", "appending", "appending_mixed", "written",
           "stage", "staging", "publish"}

FileTypeOK ==
  /\ format \in {"v3", "v4"} /\ lines \in Seq(LineType)
  /\ temp \in [state : {"none", "part", "whole"}, lines : Seq(LineType)]

ProcessTypeOK ==
  /\ phase \in Phases
  /\ memory \in [log : Seq(Requests), next : Nat \ {0}, backing : {"none", "v3", "v4"}]
  /\ queue \in Seq(Requests)
  /\ job \in [req : Requests \union {NoRequest}, pc : JobPcs]

AnswerTypeOK ==
  /\ answer \in [Requests -> {"new", "pending", "committed", "rejected", "lost"}]
  /\ fork \in [pc : {"none", "captured", "indexed", "done", "failed"}, from : {"v3", "v4"},
               bound : Nat, index : Seq(Requests), copy : Seq(Requests),
               known : SUBSET Requests]
  /\ failures \in 0 .. MaxFailures /\ stops \in 0 .. MaxStops

\* The variables keep their types.
TypeOK == FileTypeOK /\ ProcessTypeOK /\ AnswerTypeOK

\* What the next process will read: the whole lines of a format 4 file, or
\* nothing new in a format 3 file or a corrupt one.
Recorded == IF format = "v4" /\ Replayable THEN Transactions(Complete) ELSE <<>>

Abstract == INSTANCE TransactionLog WITH log <- Recorded

\* The file keeps the promise of a session store: what a caller was told is
\* committed is read by every later process, whole, once and in order, through
\* torn lines, failed calls, repairs, the upgrade and restarts.
KeepsPromise == Abstract!Promise

\* A session that is open and between commits answers reads from memory; that
\* is exactly what the file holds, and the next sequence is free in the file.
MemoryIsFile ==
  phase = "open" /\ job = NoJob =>
    memory.log = Recorded /\ memory.next >= NextSeq(lines) /\ ~Torn

\* docs/harness.md:362: a torn final line is discarded before new writes are
\* admitted, so that nothing follows one.
TornLineIsLast == \A i \in DOMAIN lines : lines[i].is # "mixed"

\* A fork holds the transactions its source had committed when it was asked,
\* the same ones in both of its passes over the file, whatever the source
\* appends, repairs or upgrades meanwhile.
ForkIsSnapshot ==
  fork.pc = "done" => /\ fork.copy = fork.index
                      /\ fork.known \subseteq ToSet(fork.copy)
                      /\ \A r \in ToSet(fork.copy) : answer[r] # "new"

\* Every caller hears of its commit, also when a call before it fails or the
\* session is closed under it.
CallersHear == \A r \in Requests : answer[r] = "pending" ~> answer[r] # "pending"
=============================================================================
