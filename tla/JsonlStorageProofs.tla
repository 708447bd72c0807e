-------------------------- MODULE JsonlStorageProofs --------------------------
(****************************************************************************)
(* One session's file, for any transactions, failures and stops: type       *)
(* correctness, and, when every write comes from a harness, the promise of  *)
(* TransactionLog, a memory that is what the file holds, a file in which    *)
(* nothing follows a torn line, and a fork that is a snapshot.              *)
(****************************************************************************)
EXTENDS JsonlStorage, SequenceTheorems, WellFoundedInduction, TLAPS

USE StorageAssumption

----------------------------------------------------------------------------
(* The inductive invariants.                                                *)

\* What runs the file system, and which format it meets there.  This holds for
\* every host.
JobMatches ==
  /\ job.pc = "none" => job = NoJob
  /\ phase \in {"closed", "corrupt", "faulted"} => job.pc = "none"
  /\ phase = "repairing" => job.pc \in {"stage", "staging", "publish"}
  /\ job.pc # "none" /\ phase # "repairing" => job.req \in Requests
  /\ job.pc \in {"append", "appending", "appending_mixed"} => memory.backing = "v4"
  /\ job.pc \in {"appending", "appending_mixed"} => lines # <<>>
  /\ job.pc \in {"stage", "staging", "publish"} /\ phase # "repairing" =>
       memory.backing = "v3" /\ format = "v3"
  /\ job.pc = "written" => format = "v4"
  /\ memory.backing = "v4" => format = "v4"
  /\ phase = "repairing" => memory.backing = "v4"
  /\ phase \in {"open", "faulted", "closing"} => memory.backing # "none"
  /\ phase = "closed" => memory = Unread
  /\ memory.backing = "v3" /\ job.pc # "written" => format = "v3"
  /\ format = "v3" => lines = <<>>
  /\ queue # <<>> => phase = "open"

\* The lines a reader accepts are whole transactions of callers, each once, in
\* the order of their sequence numbers.
LinesAreSound ==
  /\ \A i \in 1 .. Len(Complete) : Complete[i].is = "whole" /\ answer[Complete[i].req] # "new"
  /\ \A i, j \in 1 .. Len(Complete) :
       /\ i < j => Complete[i].seq < Complete[j].seq
       /\ Complete[i].req = Complete[j].req => i = j

\* A torn line is the one that is being appended, or nothing is appended until
\* the file is opened again.
TornMatches ==
  /\ Torn /\ phase = "open" => job.pc = "appending"
  /\ job.pc = "appending" => Torn /\ Last(lines) = NewLine("torn")
  /\ job.pc \in {"append", "written"} => ~Torn
  /\ job.pc # "appending_mixed"
  /\ job.pc = "publish" => temp.lines = StagedLines

\* The sequence number that memory gives out next is the one the file expects.
NextMatches ==
  /\ (phase \in {"repairing", "open"} \/ job.pc # "none") /\ job.pc # "written" =>
       memory.next = NextSeq(Complete)
  /\ job.pc = "written" => Complete # <<>> /\ Last(Complete) = NewLine("whole")
  /\ phase \in {"open", "faulted", "closing"} => memory.next <= NextSeq(Complete)

\* Memory holds the lines, but for one that was written and is not applied yet.
LogMatches ==
  phase \in {"open", "repairing"} =>
    Transactions(Complete) = IF job.pc = "written" THEN Append(memory.log, job.req)
                             ELSE memory.log

\* Callers that wait their turn are not recorded yet, and wait once.
QueueIsOwn ==
  \A i \in 1 .. Len(queue) :
    /\ answer[queue[i]] = "pending" /\ (job.pc # "none" => queue[i] # job.req)
    /\ \A j \in 1 .. Len(queue) : queue[i] = queue[j] => i = j
    /\ \A k \in 1 .. Len(Complete) : Complete[k].req # queue[i]

\* The caller whose transaction is at the file waits; it is recorded once the
\* bytes are there.
JobIsOwn ==
  job.pc # "none" /\ phase # "repairing" =>
    /\ answer[job.req] = "pending"
    /\ job.pc # "written" => \A k \in 1 .. Len(Complete) : Complete[k].req # job.req

\* What a caller was told is in the file, below the next sequence of memory.
CommittedIsRecorded ==
  \A r \in Requests : answer[r] = "committed" =>
    \E i \in 1 .. Len(Complete) :
      /\ Complete[i].req = r
      /\ phase \in {"open", "faulted", "closing"} => Complete[i].seq < memory.next

\* The lines below a fork's bound are final.
ForkMatches ==
  /\ fork.pc \in {"captured", "indexed"} =>
       /\ fork.from = "v4" => format = "v4"
       /\ fork.bound <= NextSeq(Complete)
  /\ fork.pc = "captured" =>
       /\ fork.bound # 0 => fork.from = "v4"
       /\ \A r \in fork.known : \E i \in 1 .. Len(Complete) :
            Complete[i].req = r /\ (fork.bound # 0 => Complete[i].seq < fork.bound)
  /\ fork.pc = "indexed" =>
       /\ fork.bound # 0
       /\ format = fork.from => fork.index = Transactions(Before(Complete, fork.bound))
       /\ fork.known \subseteq ToSet(fork.index)
       /\ \A r \in ToSet(fork.index) : answer[r] # "new"
  /\ ForkIsSnapshot

StorageInvariant ==
  /\ LinesAreSound /\ TornMatches /\ NextMatches /\ LogMatches /\ QueueIsOwn /\ JobIsOwn
  /\ CommittedIsRecorded /\ ForkMatches

----------------------------------------------------------------------------
(* Lines of a file.                                                         *)

\* A torn line is the last one, and a reader drops it: Torn and Complete, of any
\* lines.
EndsTorn(ls) == ls # <<>> /\ Last(ls).is = "torn"
Wholes(ls) == SubSeq(ls, 1, IF EndsTorn(ls) THEN Len(ls) - 1 ELSE Len(ls))

LEMMA LineIsRecord ==
  ASSUME NEW l \in LineType
  PROVE  l.seq \in Nat /\ l.req \in Requests /\ l.is \in {"whole", "torn", "mixed"}
BY DEF LineType

LEMMA LastProperties ==
  ASSUME NEW S, NEW s \in Seq(S)
  PROVE  /\ s # <<>> => Last(s) \in S /\ Len(s) \in 1 .. Len(s)
         /\ \A e \in S : Last(Append(s, e)) = e
<1>1. ASSUME s # <<>> PROVE Last(s) \in S /\ Len(s) \in 1 .. Len(s)
  <2>1. Len(s) \in Nat \ {0}
    BY <1>1, EmptySeq
  <2> QED
    BY <2>1, ElementOfSeq DEF Last
<1>2. \A e \in S : Last(Append(s, e)) = e
  BY AppendProperties DEF Last
<1> QED
  BY <1>1, <1>2

LEMMA WholesProperties ==
  ASSUME NEW ls \in Seq(LineType)
  PROVE  /\ Wholes(ls) \in Seq(LineType)
         /\ Len(Wholes(ls)) = IF EndsTorn(ls) THEN Len(ls) - 1 ELSE Len(ls)
         /\ \A i \in 1 .. Len(Wholes(ls)) : Wholes(ls)[i] = ls[i]
         /\ ~EndsTorn(ls) => Wholes(ls) = ls
         /\ EndsTorn(ls) => Len(ls) \in Nat \ {0}
<1> DEFINE n == IF EndsTorn(ls) THEN Len(ls) - 1 ELSE Len(ls)
<1>1. Len(ls) \in Nat /\ (EndsTorn(ls) => Len(ls) \in Nat \ {0})
  BY EmptySeq, LenProperties DEF EndsTorn
<1>2. n \in Nat /\ n <= Len(ls)
  BY <1>1
<1>3. \A i \in 1 .. n : ls[i] \in LineType
  BY <1>1, <1>2, ElementOfSeq
<1> HIDE DEF n
<1>4. /\ SubSeq(ls, 1, n) \in Seq(LineType)
      /\ Len(SubSeq(ls, 1, n)) = IF 1 <= n THEN n - 1 + 1 ELSE 0
      /\ \A i \in 1 .. n - 1 + 1 : SubSeq(ls, 1, n)[i] = ls[1 + i - 1]
  BY <1>2, <1>3, SubSeqProperties
<1>5. Len(SubSeq(ls, 1, n)) = n /\ \A i \in 1 .. n : SubSeq(ls, 1, n)[i] = ls[i]
  BY <1>2, <1>4
<1>6. n = Len(ls) => SubSeq(ls, 1, n) = ls
  BY SubSeqFull
<1>7. Wholes(ls) = SubSeq(ls, 1, n)
  BY DEF Wholes, n
<1> QED
  BY <1>1, <1>4, <1>5, <1>6, <1>7 DEF n

\* What a reader finds after the first bytes of a line, and after the rest.
LEMMA TornAppended ==
  ASSUME NEW ls \in Seq(LineType), ~EndsTorn(ls), NEW l \in LineType, l.is = "torn"
  PROVE  EndsTorn(Append(ls, l)) /\ Wholes(Append(ls, l)) = ls
<1>1. /\ Append(ls, l) \in Seq(LineType) /\ Append(ls, l) # <<>>
      /\ Len(Append(ls, l)) = Len(ls) + 1 /\ Last(Append(ls, l)) = l
      /\ \A i \in 1 .. Len(ls) : Append(ls, l)[i] = ls[i]
  BY AppendProperties, LastProperties
<1>2. EndsTorn(Append(ls, l))
  BY <1>1 DEF EndsTorn
<1>3. Len(ls) \in Nat
  BY LenProperties
<1>4. /\ Wholes(Append(ls, l)) \in Seq(LineType)
      /\ Len(Wholes(Append(ls, l))) = Len(ls)
      /\ \A i \in 1 .. Len(ls) : Wholes(Append(ls, l))[i] = Append(ls, l)[i]
  <2> DEFINE new == Append(ls, l)
  <2> HIDE DEF new
  <2>1. new \in Seq(LineType) /\ EndsTorn(new) /\ Len(new) = Len(ls) + 1
    BY <1>1, <1>2 DEF new
  <2>2. /\ Wholes(new) \in Seq(LineType) /\ Len(Wholes(new)) = Len(new) - 1
        /\ \A i \in 1 .. Len(Wholes(new)) : Wholes(new)[i] = new[i]
    BY <2>1, WholesProperties
  <2> QED
    BY <1>3, <2>1, <2>2 DEF new
<1>5. Wholes(Append(ls, l)) = ls
  BY <1>1, <1>4, SeqEqual
<1> QED
  BY <1>2, <1>5

LEMMA TornCompleted ==
  ASSUME NEW ls \in Seq(LineType), EndsTorn(ls), NEW is \in {"whole", "mixed"}
  PROVE  LET new == [ls EXCEPT ![Len(ls)].is = is]
         IN /\ new \in Seq(LineType) /\ ~EndsTorn(new)
            /\ new = Append(Wholes(ls), [Last(ls) EXCEPT !.is = is])
<1> DEFINE l == [Last(ls) EXCEPT !.is = is]
           new == [ls EXCEPT ![Len(ls)].is = is]
<1>1. Len(ls) \in Nat \ {0} /\ Len(Wholes(ls)) = Len(ls) - 1 /\ Wholes(ls) \in Seq(LineType)
  BY WholesProperties
<1>2. Last(ls) \in LineType /\ Len(ls) \in 1 .. Len(ls)
  BY <1>1, LastProperties DEF EndsTorn
<1>3. l \in LineType /\ l.is = is
  BY <1>2 DEF LineType
<1>4. new = [ls EXCEPT ![Len(ls)] = l]
  BY DEF Last
<1>5. /\ new \in Seq(LineType) /\ Len(new) = Len(ls)
      /\ \A j \in 1 .. Len(ls) : new[j] = IF j = Len(ls) THEN l ELSE ls[j]
  <2> HIDE DEF l, new
  <2> QED
    BY <1>2, <1>3, <1>4, ExceptSeq
<1> HIDE DEF l, new
<1>6. Last(new) = l
  BY <1>2, <1>5 DEF Last
<1>7. ~EndsTorn(new)
  BY <1>3, <1>6 DEF EndsTorn
<1>8. /\ Append(Wholes(ls), l) \in Seq(LineType) /\ Len(Append(Wholes(ls), l)) = Len(ls)
      /\ \A i \in 1 .. Len(ls) : Append(Wholes(ls), l)[i] = new[i]
  <2>1. /\ Append(Wholes(ls), l) \in Seq(LineType)
        /\ Len(Append(Wholes(ls), l)) = Len(ls) - 1 + 1
        /\ \A i \in 1 .. Len(ls) - 1 : Append(Wholes(ls), l)[i] = Wholes(ls)[i]
        /\ Append(Wholes(ls), l)[Len(ls) - 1 + 1] = l
    BY <1>1, <1>3, AppendProperties
  <2>2. \A i \in 1 .. Len(ls) - 1 : Wholes(ls)[i] = ls[i]
    BY <1>1, WholesProperties
  <2> QED
    BY <1>1, <1>5, <2>1, <2>2
<1>9. new = Append(Wholes(ls), l)
  BY <1>5, <1>8, SeqEqual
<1> QED
  BY <1>5, <1>7, <1>9 DEF l, new

LEMMA TransactionsProperties ==
  ASSUME NEW ls \in Seq(LineType)
  PROVE  /\ Transactions(ls) \in Seq(Requests) /\ Len(Transactions(ls)) = Len(ls)
         /\ DOMAIN Transactions(ls) = 1 .. Len(ls)
         /\ \A i \in 1 .. Len(ls) : Transactions(ls)[i] = ls[i].req
         /\ \A r : r \in ToSet(Transactions(ls)) <=> \E i \in 1 .. Len(ls) : ls[i].req = r
         /\ \A l \in LineType : Transactions(Append(ls, l)) = Append(Transactions(ls), l.req)
<1>1. Len(ls) \in Nat /\ DOMAIN ls = 1 .. Len(ls) /\ \A i \in 1 .. Len(ls) : ls[i] \in LineType
  BY LenProperties, ElementOfSeq
<1>2. /\ Transactions(ls) = [i \in 1 .. Len(ls) |-> ls[i].req]
      /\ \A i \in 1 .. Len(ls) : ls[i].req \in Requests
  BY <1>1, LineIsRecord DEF Transactions
<1>3. /\ Transactions(ls) \in Seq(Requests) /\ Len(Transactions(ls)) = Len(ls)
      /\ DOMAIN Transactions(ls) = 1 .. Len(ls)
      /\ \A i \in 1 .. Len(ls) : Transactions(ls)[i] = ls[i].req
  BY <1>1, <1>2
<1>4. \A r : r \in ToSet(Transactions(ls)) <=> \E i \in 1 .. Len(ls) : ls[i].req = r
  BY <1>3 DEF ToSet
<1>5. ASSUME NEW l \in LineType
      PROVE  Transactions(Append(ls, l)) = Append(Transactions(ls), l.req)
  <2>1. /\ Append(ls, l) \in Seq(LineType) /\ Len(Append(ls, l)) = Len(ls) + 1
        /\ \A i \in 1 .. Len(ls) : Append(ls, l)[i] = ls[i]
        /\ Append(ls, l)[Len(ls) + 1] = l
    BY AppendProperties
  <2>2. DOMAIN Append(ls, l) = 1 .. Len(ls) + 1
    BY <2>1, LenProperties
  <2>3. Transactions(Append(ls, l)) = [i \in 1 .. Len(ls) + 1 |-> Append(ls, l)[i].req]
    BY <2>2 DEF Transactions
  <2>4. l.req \in Requests
    BY LineIsRecord
  <2>5. /\ Append(Transactions(ls), l.req) \in Seq(Requests)
        /\ Len(Append(Transactions(ls), l.req)) = Len(ls) + 1
        /\ \A i \in 1 .. Len(ls) : Append(Transactions(ls), l.req)[i] = Transactions(ls)[i]
        /\ Append(Transactions(ls), l.req)[Len(ls) + 1] = l.req
    BY <1>3, <2>4, AppendProperties
  <2>6. /\ Transactions(Append(ls, l)) \in Seq(Requests)
        /\ Len(Transactions(Append(ls, l))) = Len(ls) + 1
    <3>1. \A i \in 1 .. Len(ls) + 1 : Append(ls, l)[i].req \in Requests
      BY <1>1, <1>2, <2>1, <2>4
    <3> QED
      BY <1>1, <2>3, <3>1
  <2>7. \A i \in 1 .. Len(ls) + 1 :
          Transactions(Append(ls, l))[i] = Append(Transactions(ls), l.req)[i]
    <3> TAKE i \in 1 .. Len(ls) + 1
    <3>1. Transactions(Append(ls, l))[i] = Append(ls, l)[i].req
      BY <2>3
    <3>2. CASE i \in 1 .. Len(ls)
      BY <3>1, <3>2, <1>3, <2>1, <2>5
    <3>3. CASE i = Len(ls) + 1
      BY <3>1, <3>3, <2>1, <2>5
    <3>4. i \in 1 .. Len(ls) \/ i = Len(ls) + 1
      <4>1. Len(ls) \in Nat
        BY <1>1
      <4> QED
        BY <4>1
    <3> QED
      BY <3>2, <3>3, <3>4
  <2> QED
    BY <2>5, <2>6, <2>7, SeqEqual
<1> QED
  BY <1>3, <1>4, <1>5

----------------------------------------------------------------------------
(* Sequence numbers, and the part of a file below a bound.                  *)

Increasing(ls) == \A i, j \in 1 .. Len(ls) : i < j => ls[i].seq < ls[j].seq

LEMMA NextSeqProperties ==
  ASSUME NEW ls \in Seq(LineType)
  PROVE  /\ NextSeq(ls) \in Nat \ {0}
         /\ \A l \in LineType : NextSeq(Append(ls, l)) = l.seq + 1
         /\ Increasing(ls) => \A i \in 1 .. Len(ls) : ls[i].seq < NextSeq(ls)
<1>1. ls # <<>> => Last(ls) \in LineType /\ Last(ls).seq \in Nat
  BY LastProperties, LineIsRecord
<1>2. NextSeq(ls) \in Nat \ {0}
  BY <1>1 DEF NextSeq
<1>3. ASSUME NEW l \in LineType PROVE NextSeq(Append(ls, l)) = l.seq + 1
  <2>1. Append(ls, l) # <<>> /\ Last(Append(ls, l)) = l
    BY AppendProperties, LastProperties
  <2> QED
    BY <2>1 DEF NextSeq
<1>4. ASSUME Increasing(ls), NEW i \in 1 .. Len(ls) PROVE ls[i].seq < NextSeq(ls)
  <2>1. Len(ls) \in Nat /\ i \in Nat
    BY LenProperties
  <2>2. ls # <<>> /\ Len(ls) \in 1 .. Len(ls)
    BY <2>1, EmptySeq
  <2>3. NextSeq(ls) = ls[Len(ls)].seq + 1
    BY <2>2 DEF NextSeq, Last
  <2>4. ls[i].seq \in Nat /\ ls[Len(ls)].seq \in Nat
    BY <2>2, ElementOfSeq, LineIsRecord
  <2>5. i < Len(ls) => ls[i].seq < ls[Len(ls)].seq
    BY <1>4, <2>2 DEF Increasing
  <2>6. i = Len(ls) => ls[i].seq = ls[Len(ls)].seq
    OBVIOUS
  <2>7. i < Len(ls) \/ i = Len(ls)
    BY <2>1
  <2> QED
    BY <2>3, <2>4, <2>5, <2>6, <2>7
<1> QED
  BY <1>2, <1>3, <1>4

\* Where a reader with a bound stops.
Reaches(ls, bound, i) == bound # 0 /\ ls[i].seq >= bound
EndsAt(ls, bound, n) ==
  /\ \A i \in 1 .. n : ~Reaches(ls, bound, i)
  /\ n < Len(ls) => Reaches(ls, bound, n + 1)

LEMMA EndExists ==
  ASSUME NEW ls \in Seq(LineType), NEW bound \in Nat
  PROVE  \E n \in 0 .. Len(ls) : EndsAt(ls, bound, n)
<1> DEFINE T == {i \in 1 .. Len(ls) : Reaches(ls, bound, i)}
<1>1. Len(ls) \in Nat
  BY LenProperties
<1>2. CASE T = {}
  BY <1>1, <1>2 DEF EndsAt
<1>3. CASE T # {}
  <2>1. PICK m \in T : \A y \in T : ~(<<y, m>> \in OpToRel(<, Nat))
    <3>1. T \subseteq Nat
      BY <1>1
    <3> HIDE DEF T
    <3> QED
      BY <1>3, <3>1, NatLessThanWellFounded, WFMin
  <2>2. m \in 1 .. Len(ls) /\ \A y \in T : ~(y < m)
    <3>1. m \in 1 .. Len(ls) /\ T \subseteq Nat
      BY <1>1
    <3>2. ASSUME NEW y \in T, y < m PROVE FALSE
      <4>1. <<y, m>> \in Nat \X Nat /\ <<y, m>>[1] < <<y, m>>[2]
        BY <3>1, <3>2
      <4>2. <<y, m>> \in OpToRel(<, Nat)
        BY <4>1 DEF OpToRel
      <4> QED
        BY <2>1, <4>2
    <3> QED
      BY <3>1, <3>2
  <2>3. m - 1 \in 0 .. Len(ls) /\ m - 1 + 1 = m
    BY <1>1, <2>2
  <2>4. \A i \in 1 .. m - 1 : ~Reaches(ls, bound, i)
    BY <1>1, <2>2
  <2>5. EndsAt(ls, bound, m - 1)
    BY <2>1, <2>3, <2>4 DEF EndsAt
  <2> QED
    BY <2>3, <2>5
<1> QED
  BY <1>2, <1>3

LEMMA BeforeIs ==
  ASSUME NEW ls \in Seq(LineType), NEW bound \in Nat,
         NEW n \in 0 .. Len(ls), EndsAt(ls, bound, n)
  PROVE  Before(ls, bound) = SubSeq(ls, 1, n)
<1> DEFINE m == CHOOSE k \in 0 .. Len(ls) : EndsAt(ls, bound, k)
<1>1. m \in 0 .. Len(ls) /\ EndsAt(ls, bound, m)
  OBVIOUS
<1>2. Before(ls, bound) = SubSeq(ls, 1, m)
  BY DEF Before, EndsAt, Reaches
<1> HIDE DEF m
<1>3. Len(ls) \in Nat
  BY LenProperties
<1>4. ~(m < n)
  BY <1>1, <1>3 DEF EndsAt
<1>5. ~(n < m)
  BY <1>1, <1>3 DEF EndsAt
<1>6. m = n
  BY <1>1, <1>3, <1>4, <1>5
<1> QED
  BY <1>2, <1>6

LEMMA BeforeProperties ==
  ASSUME NEW ls \in Seq(LineType), NEW bound \in Nat
  PROVE  /\ Before(ls, bound) \in Seq(LineType)
         /\ Len(Before(ls, bound)) \in 0 .. Len(ls)
         /\ \A i \in 1 .. Len(Before(ls, bound)) : Before(ls, bound)[i] = ls[i]
         /\ EndsAt(ls, bound, Len(Before(ls, bound)))
         /\ bound = 0 => Before(ls, bound) = ls
<1>1. PICK n \in 0 .. Len(ls) : EndsAt(ls, bound, n)
  BY EndExists
<1>2. Before(ls, bound) = SubSeq(ls, 1, n)
  BY <1>1, BeforeIs
<1>3. Len(ls) \in Nat /\ n \in Nat /\ n <= Len(ls)
  BY LenProperties
<1>4. \A i \in 1 .. n : ls[i] \in LineType
  BY <1>3, ElementOfSeq
<1>5. /\ SubSeq(ls, 1, n) \in Seq(LineType)
      /\ Len(SubSeq(ls, 1, n)) = IF 1 <= n THEN n - 1 + 1 ELSE 0
      /\ \A i \in 1 .. n - 1 + 1 : SubSeq(ls, 1, n)[i] = ls[1 + i - 1]
  BY <1>3, <1>4, SubSeqProperties
<1>6. Len(SubSeq(ls, 1, n)) = n /\ \A i \in 1 .. n : SubSeq(ls, 1, n)[i] = ls[i]
  BY <1>3, <1>5
<1>7. ASSUME bound = 0 PROVE Before(ls, bound) = ls
  <2>1. n = Len(ls)
    BY <1>1, <1>3, <1>7 DEF EndsAt, Reaches
  <2> QED
    BY <1>2, <2>1, SubSeqFull
<1> QED
  BY <1>1, <1>2, <1>3, <1>5, <1>6, <1>7

\* A line that reaches the bound changes nothing below it.
LEMMA BeforeAppend ==
  ASSUME NEW ls \in Seq(LineType), NEW bound \in Nat \ {0},
         NEW l \in LineType, l.seq >= bound
  PROVE  Before(Append(ls, l), bound) = Before(ls, bound)
<1> DEFINE new == Append(ls, l)
           n == Len(Before(ls, bound))
<1>1. /\ new \in Seq(LineType) /\ Len(new) = Len(ls) + 1
      /\ \A i \in 1 .. Len(ls) : new[i] = ls[i]
      /\ new[Len(ls) + 1] = l
  BY AppendProperties
<1>2. n \in 0 .. Len(ls) /\ EndsAt(ls, bound, n)
  BY BeforeProperties
<1> HIDE DEF new, n
<1>3. Len(ls) \in Nat
  BY LenProperties
<1>4. n \in 0 .. Len(new)
  BY <1>1, <1>2, <1>3
<1>5. \A i \in 1 .. n : ~Reaches(new, bound, i)
  BY <1>1, <1>2, <1>3 DEF EndsAt, Reaches
<1>6. n < Len(new) => Reaches(new, bound, n + 1)
  <2>1. CASE n < Len(ls)
    BY <1>1, <1>2, <1>3, <2>1 DEF EndsAt, Reaches
  <2>2. CASE n = Len(ls)
    BY <1>1, <2>2 DEF Reaches
  <2> QED
    BY <1>2, <1>3, <2>1, <2>2
<1>7. EndsAt(new, bound, n)
  BY <1>5, <1>6 DEF EndsAt
<1>8. Before(new, bound) = SubSeq(new, 1, n) /\ Before(ls, bound) = SubSeq(ls, 1, n)
  BY <1>1, <1>2, <1>4, <1>7, BeforeIs
<1>9. SubSeq(new, 1, n) = SubSeq(ls, 1, n)
  <2>1. \A i \in 1 .. n : new[i] = ls[i]
    BY <1>1, <1>2, <1>3
  <2>2. \A i \in 1 .. n : ls[i] \in LineType /\ new[i] \in LineType
    BY <1>2, <1>3, <2>1, ElementOfSeq
  <2>3. n \in Nat
    BY <1>2
  <2>4. /\ SubSeq(ls, 1, n) \in Seq(LineType) /\ SubSeq(new, 1, n) \in Seq(LineType)
        /\ Len(SubSeq(ls, 1, n)) = IF 1 <= n THEN n - 1 + 1 ELSE 0
        /\ Len(SubSeq(new, 1, n)) = IF 1 <= n THEN n - 1 + 1 ELSE 0
        /\ \A i \in 1 .. n - 1 + 1 : SubSeq(ls, 1, n)[i] = ls[1 + i - 1]
        /\ \A i \in 1 .. n - 1 + 1 : SubSeq(new, 1, n)[i] = new[1 + i - 1]
    BY <2>2, <2>3, SubSeqProperties
  <2>5. /\ Len(SubSeq(ls, 1, n)) = n /\ Len(SubSeq(new, 1, n)) = n
        /\ \A i \in 1 .. n : SubSeq(ls, 1, n)[i] = SubSeq(new, 1, n)[i]
    BY <2>1, <2>3, <2>4
  <2> QED
    BY <2>4, <2>5, SeqEqual
<1> QED
  BY <1>8, <1>9 DEF new

----------------------------------------------------------------------------
(* Types, and the job that runs.                                            *)

FileType   == [state : {"none", "part", "whole"}, lines : Seq(LineType)]
MemoryType == [log : Seq(Requests), next : Nat \ {0}, backing : {"none", "v3", "v4"}]
JobType    == [req : Requests \union {NoRequest}, pc : JobPcs]
ForkType   == [pc : {"none", "captured", "indexed", "done", "failed"}, from : {"v3", "v4"},
               bound : Nat, index : Seq(Requests), copy : Seq(Requests),
               known : SUBSET Requests]
AnswerType == {"new", "pending", "committed", "rejected", "lost"}

\* Complete and Torn are Wholes and EndsTorn of the file.
LEMMA FileReads ==
  ASSUME TypeOK
  PROVE  /\ Complete = Wholes(lines) /\ Torn = EndsTorn(lines)
         /\ Complete \in Seq(LineType) /\ Len(Complete) \in Nat
         /\ ~Torn => Complete = lines
         /\ Torn => Len(lines) \in Nat \ {0}
<1>1. Complete = Wholes(lines) /\ Torn = EndsTorn(lines)
  BY DEF Complete, Wholes, Torn, EndsTorn
<1>2. lines \in Seq(LineType)
  BY DEF TypeOK, FileTypeOK
<1> QED
  BY <1>1, <1>2, WholesProperties, LenProperties

LEMMA NullValues ==
  /\ NoFile \in FileType /\ NoJob \in JobType /\ NoFork \in ForkType /\ Unread \in MemoryType
<1>1. \A S : <<>> \in Seq(S)
  BY EmptySeq
<1> QED
  BY <1>1 DEF NoFile, FileType, NoJob, JobType, NoFork, ForkType, Unread, MemoryType, JobPcs

LEMMA TypeFacts ==
  ASSUME TypeOK
  PROVE  /\ format \in {"v3", "v4"} /\ lines \in Seq(LineType) /\ temp \in FileType
         /\ phase \in Phases /\ memory \in MemoryType /\ queue \in Seq(Requests)
         /\ job \in JobType /\ job.req \in Requests \union {NoRequest} /\ job.pc \in JobPcs
         /\ memory.next \in Nat \ {0} /\ memory.log \in Seq(Requests)
         /\ memory.backing \in {"none", "v3", "v4"}
         /\ temp.lines \in Seq(LineType)
         /\ fork \in ForkType /\ fork.bound \in Nat /\ fork.from \in {"v3", "v4"}
         /\ fork.known \subseteq Requests
         /\ fork.index \in Seq(Requests) /\ fork.copy \in Seq(Requests)
         /\ answer \in [Requests -> AnswerType]
         /\ failures \in 0 .. MaxFailures /\ stops \in 0 .. MaxStops
BY DEF TypeOK, FileTypeOK, ProcessTypeOK, AnswerTypeOK, FileType, MemoryType, JobType, ForkType,
       AnswerType

LEMMA ReplyType ==
  ASSUME TypeOK, NEW R, NEW what \in AnswerType
  PROVE  Reply(R, what) \in [Requests -> AnswerType]
BY TypeFacts DEF Reply

\* A new line is a line, while a caller's transaction is at the file.
LEMMA NewLineType ==
  ASSUME TypeOK, JobMatches, job.pc # "none", phase # "repairing",
         NEW is \in {"whole", "torn", "mixed"}
  PROVE  /\ NewLine(is) \in LineType
         /\ NewLine(is).seq = memory.next /\ NewLine(is).req = job.req /\ NewLine(is).is = is
<1>1. job.req \in Requests /\ memory.next \in Nat
  BY TypeFacts DEF JobMatches
<1> QED
  BY <1>1 DEF NewLine, LineType

LEMMA OpenTypes == TypeOK /\ JobMatches /\ Open => TypeOK' /\ JobMatches'
<1> SUFFICES ASSUME TypeOK, JobMatches, Open PROVE TypeOK' /\ JobMatches'
  OBVIOUS
<1>1. job = NoJob /\ memory = Unread /\ phase = "closed"
  BY DEF JobMatches, Open
<1>2. /\ memory' \in MemoryType
      /\ memory'.backing = IF format = "v3" THEN "v3" ELSE IF Replayable THEN "v4" ELSE "none"
  <2>1. [log |-> Transactions(Complete), next |-> NextSeq(Complete), backing |-> "v4"]
          \in MemoryType
    BY FileReads, TransactionsProperties, NextSeqProperties DEF MemoryType
  <2>2. [Unread EXCEPT !.backing = "v3"] \in MemoryType /\ Unread \in MemoryType
    BY NullValues DEF MemoryType
  <2> QED
    BY <2>1, <2>2 DEF Open, Unread
<1>3. /\ phase' \in {"corrupt", "repairing", "open"}
      /\ phase' = "corrupt" <=> format = "v4" /\ ~Replayable
      /\ phase' = "repairing" => format = "v4" /\ Replayable
  BY TypeFacts DEF Open
<1>4. /\ job' \in JobType /\ job'.req = NoRequest
      /\ job'.pc = IF phase' = "repairing" THEN "stage" ELSE "none"
      /\ job'.pc = "none" => job' = NoJob
  BY NullValues DEF Open, NoJob, JobType, JobPcs
<1>5. UNCHANGED <<fileVars, queue, fork, answer, failures, stops>>
  BY DEF Open
<1>6. TypeOK'
  <2>1. FileTypeOK' /\ AnswerTypeOK'
    BY <1>5 DEF TypeOK, FileTypeOK, AnswerTypeOK, fileVars
  <2>2. ProcessTypeOK'
    BY <1>2, <1>3, <1>4, <1>5, TypeFacts DEF ProcessTypeOK, MemoryType, JobType, Phases
  <2> QED
    BY <2>1, <2>2 DEF TypeOK
<1>7. JobMatches'
  BY <1>1, <1>2, <1>3, <1>4, <1>5, TypeFacts DEF JobMatches, fileVars
<1> QED
  BY <1>6, <1>7

LEMMA SubmitTypes ==
  ASSUME TypeOK, JobMatches, NEW r \in Requests, Submit(r)
  PROVE  TypeOK' /\ JobMatches'
<1>1. queue' \in Seq(Requests) /\ answer' \in [Requests -> AnswerType]
  <2>1. queue \in Seq(Requests) /\ Append(queue, r) \in Seq(Requests)
    BY TypeFacts, AppendProperties
  <2>2. "pending" \in AnswerType /\ "rejected" \in AnswerType
    BY DEF AnswerType
  <2>3. /\ Reply({r}, "pending") \in [Requests -> AnswerType]
        /\ Reply({r}, "rejected") \in [Requests -> AnswerType]
    BY <2>2, ReplyType
  <2> QED
    BY <2>1, <2>3 DEF Submit
<1>2. phase # "open" => queue' = queue
  BY DEF Submit
<1>3. UNCHANGED <<fileVars, phase, memory, job, fork, failures, stops>>
  BY DEF Submit
<1>4. TypeOK'
  BY <1>1, <1>3 DEF TypeOK, FileTypeOK, ProcessTypeOK, AnswerTypeOK, fileVars, AnswerType
<1>5. JobMatches'
  BY <1>2, <1>3 DEF JobMatches, fileVars, NewLine, Unread
<1> QED
  BY <1>4, <1>5

LEMMA StartTypes == TypeOK /\ JobMatches /\ StartCommit => TypeOK' /\ JobMatches'
<1> SUFFICES ASSUME TypeOK, JobMatches, StartCommit PROVE TypeOK' /\ JobMatches'
  OBVIOUS
<1>1. /\ phase = "open" /\ job.pc = "none" /\ queue # <<>>
      /\ UNCHANGED <<fileVars, phase, memory, fork, answer, failures, stops>>
  BY DEF StartCommit, NoJob
<1>2. queue' \in Seq(Requests) /\ Head(queue) \in Requests
  BY <1>1, TypeFacts, HeadTailProperties DEF StartCommit
<1>3. /\ job' \in JobType /\ job'.req \in Requests
      /\ job'.pc = IF memory.backing = "v3" THEN "stage" ELSE "append"
  BY <1>2 DEF StartCommit, JobType, JobPcs
<1>4. TypeOK'
  BY <1>1, <1>2, <1>3 DEF TypeOK, FileTypeOK, ProcessTypeOK, AnswerTypeOK, fileVars, JobType
<1>5. JobMatches'
  BY <1>1, <1>2, <1>3, TypeFacts DEF JobMatches, fileVars
<1> QED
  BY <1>4, <1>5

LEMMA WritePartTypes == TypeOK /\ JobMatches /\ WritePart => TypeOK' /\ JobMatches'
<1> SUFFICES ASSUME TypeOK, JobMatches, WritePart PROVE TypeOK' /\ JobMatches'
  OBVIOUS
<1>1. /\ job.pc = "append" /\ phase # "repairing" /\ phase \notin {"closed", "corrupt", "faulted"}
      /\ UNCHANGED <<format, temp, phase, memory, queue, fork, answer, failures, stops>>
  BY DEF WritePart, JobMatches
<1>2. lines' \in Seq(LineType)
  <2>1. NewLine("torn") \in LineType
    BY <1>1, NewLineType
  <2>2. Append(lines, NewLine("torn")) \in Seq(LineType)
    BY <2>1, TypeFacts, AppendProperties
  <2> QED
    BY <2>2, TypeFacts DEF WritePart
<1>6. lines' # <<>>
  <2>1. NewLine("torn") \in LineType
    BY <1>1, NewLineType
  <2> QED
    BY <2>1, TypeFacts, AppendProperties DEF WritePart, Torn
<1>3. /\ job' \in JobType /\ job'.req = job.req
      /\ job'.pc \in {"appending", "appending_mixed"}
  BY TypeFacts DEF WritePart, JobType, JobPcs
<1>4. TypeOK'
  BY <1>1, <1>2, <1>3 DEF TypeOK, FileTypeOK, ProcessTypeOK, AnswerTypeOK, JobType
<1>5. JobMatches'
  <2>1. format' = "v4"
    BY <1>1 DEF JobMatches
  <2> QED
    BY <1>1, <1>3, <1>6, <2>1 DEF JobMatches
<1> QED
  BY <1>4, <1>5

LEMMA WriteRestTypes == TypeOK /\ JobMatches /\ WriteRest => TypeOK' /\ JobMatches'
<1> SUFFICES ASSUME TypeOK, JobMatches, WriteRest PROVE TypeOK' /\ JobMatches'
  OBVIOUS
<1>1. /\ job.pc \in {"appending", "appending_mixed"}
      /\ UNCHANGED <<format, temp, phase, memory, queue, fork, answer, failures, stops>>
  BY DEF WriteRest
<1>2. lines' \in Seq(LineType)
  <2>1. PICK is \in {"whole", "mixed"} : lines' = [lines EXCEPT ![Len(lines)].is = is]
    BY DEF WriteRest
  <2>2. lines \in Seq(LineType)
    BY TypeFacts
  <2>3. Len(lines) \in 1 .. Len(lines) /\ lines[Len(lines)] \in LineType
    BY <1>1, <2>2, LastProperties, ElementOfSeq DEF JobMatches
  <2>4. [lines[Len(lines)] EXCEPT !.is = is] \in LineType
    BY <2>3 DEF LineType
  <2>5. lines' = [lines EXCEPT ![Len(lines)] = [lines[Len(lines)] EXCEPT !.is = is]]
    BY <2>1
  <2> QED
    BY <2>2, <2>3, <2>4, <2>5, ExceptSeq
<1>3. job' \in JobType /\ job'.req = job.req /\ job'.pc = "written"
  BY TypeFacts DEF WriteRest, JobType, JobPcs
<1>4. TypeOK'
  BY <1>1, <1>2, <1>3 DEF TypeOK, FileTypeOK, ProcessTypeOK, AnswerTypeOK, JobType
<1>5. JobMatches'
  BY <1>1, <1>3, TypeFacts DEF JobMatches
<1> QED
  BY <1>4, <1>5

LEMMA AppliesTypes == TypeOK /\ JobMatches /\ CommitApplies => TypeOK' /\ JobMatches'
<1> SUFFICES ASSUME TypeOK, JobMatches, CommitApplies PROVE TypeOK' /\ JobMatches'
  OBVIOUS
<1>1. /\ job.pc = "written" /\ job' = NoJob /\ job'.pc = "none" /\ job'.req = NoRequest
      /\ format = "v4" /\ phase \notin {"repairing", "closed", "corrupt", "faulted"}
      /\ UNCHANGED <<fileVars, phase, queue, fork, failures, stops>>
  BY DEF CommitApplies, JobMatches, NoJob
<1>2. memory' \in MemoryType /\ memory'.backing = "v4"
  <2>1. job.req \in Requests
    BY <1>1 DEF JobMatches
  <2>2. Append(memory.log, job.req) \in Seq(Requests)
    BY <2>1, TypeFacts, AppendProperties
  <2> QED
    BY <2>2, TypeFacts DEF CommitApplies, Applied, MemoryType
<1>3. answer' \in [Requests -> AnswerType]
  BY ReplyType DEF CommitApplies, AnswerType
<1>4. TypeOK'
  BY <1>1, <1>2, <1>3, NullValues
  DEF TypeOK, FileTypeOK, ProcessTypeOK, AnswerTypeOK, JobType, MemoryType, AnswerType, fileVars
<1>5. JobMatches'
  BY <1>1, <1>2 DEF JobMatches, fileVars
<1> QED
  BY <1>4, <1>5

LEMMA StageTypes ==
  TypeOK /\ JobMatches /\ (StageBegin \/ StageWrite) => TypeOK' /\ JobMatches'
<1> SUFFICES ASSUME TypeOK, JobMatches, StageBegin \/ StageWrite PROVE TypeOK' /\ JobMatches'
  OBVIOUS
<1>1. /\ job.pc \in {"stage", "staging"} /\ phase \notin {"closed", "corrupt", "faulted"}
      /\ UNCHANGED <<format, lines, phase, memory, queue, fork, answer, failures, stops>>
  BY DEF StageBegin, StageWrite, JobMatches
<1>2. job' \in JobType /\ job'.req = job.req /\ job'.pc \in {"staging", "publish"}
  BY TypeFacts DEF StageBegin, StageWrite, JobType, JobPcs
<1>3. temp' \in FileType
  <2>1. <<>> \in Seq(LineType) /\ Complete \in Seq(LineType)
    BY EmptySeq, FileReads
  <2>2. phase # "repairing" => <<NewLine("whole")>> \in Seq(LineType)
    <3>1. phase # "repairing" => NewLine("whole") \in LineType
      BY <1>1, NewLineType
    <3> QED
      BY <3>1
  <2>3. StagedLines \in Seq(LineType)
    BY <2>1, <2>2 DEF StagedLines
  <2>4. /\ [state |-> "part", lines |-> <<>>] \in FileType
        /\ [state |-> "whole", lines |-> StagedLines] \in FileType
    BY <2>1, <2>3 DEF FileType
  <2> QED
    BY <2>4 DEF StageBegin, StageWrite
<1>4. TypeOK'
  BY <1>1, <1>2, <1>3
  DEF TypeOK, FileTypeOK, ProcessTypeOK, AnswerTypeOK, JobType, FileType
<1>5. JobMatches'
  BY <1>1, <1>2 DEF JobMatches
<1> QED
  BY <1>4, <1>5

LEMMA PublishTypes == TypeOK /\ JobMatches /\ Publish => TypeOK' /\ JobMatches'
<1> SUFFICES ASSUME TypeOK, JobMatches, Publish PROVE TypeOK' /\ JobMatches'
  OBVIOUS
<1>1. /\ job.pc = "publish" /\ phase \notin {"closed", "corrupt", "faulted"}
      /\ UNCHANGED <<memory, queue, fork, answer, failures, stops>>
      /\ format' = "v4" /\ lines' \in Seq(LineType) /\ temp' \in FileType
  BY TypeFacts, NullValues DEF Publish, JobMatches
<1>2. CASE phase = "repairing"
  <2>1. /\ phase' = "open" /\ job' = NoJob /\ job'.pc = "none" /\ job'.req = NoRequest
        /\ memory.backing = "v4"
    BY <1>2 DEF Publish, NoJob, JobMatches
  <2>2. TypeOK'
    BY <1>1, <2>1, NullValues
    DEF TypeOK, FileTypeOK, ProcessTypeOK, AnswerTypeOK, JobType, FileType, Phases
  <2>3. JobMatches'
    BY <1>1, <2>1, <1>2 DEF JobMatches
  <2> QED
    BY <2>2, <2>3
<1>3. CASE phase # "repairing"
  <2>1. /\ phase' = phase /\ job' \in JobType /\ job'.pc = "written" /\ job'.req = job.req
    BY <1>3, TypeFacts DEF Publish, JobType, JobPcs
  <2>2. TypeOK'
    BY <1>1, <2>1
    DEF TypeOK, FileTypeOK, ProcessTypeOK, AnswerTypeOK, JobType, FileType
  <2>3. JobMatches'
    BY <1>1, <2>1, <1>3 DEF JobMatches
  <2> QED
    BY <2>2, <2>3
<1> QED
  BY <1>2, <1>3

LEMMA JobFailsTypes == TypeOK /\ JobMatches /\ JobFails => TypeOK' /\ JobMatches'
<1> SUFFICES ASSUME TypeOK, JobMatches, JobFails PROVE TypeOK' /\ JobMatches'
  OBVIOUS
<1>1. /\ job.pc # "none" /\ phase \notin {"closed", "corrupt", "faulted"}
      /\ job' = NoJob /\ job'.pc = "none" /\ job'.req = NoRequest
      /\ UNCHANGED <<format, lines, fork, stops>>
  BY DEF JobFails, JobMatches, NoJob
<1>2. failures' \in 0 .. MaxFailures
  BY TypeFacts DEF JobFails, Fails
<1>3. temp' \in FileType
  BY TypeFacts, NullValues DEF JobFails
<1>4. answer' \in [Requests -> AnswerType]
  <2>1. \A R : Reply(R, "rejected") \in [Requests -> AnswerType]
    BY ReplyType DEF AnswerType
  <2> QED
    BY <2>1, TypeFacts DEF JobFails
<1>5. /\ phase = "repairing" => phase' = "closed" /\ memory' = Unread /\ queue' = queue
      /\ phase # "repairing" =>
           /\ memory' = memory
           /\ \/ phase' = phase /\ queue' = queue
              \/ phase' = "faulted" /\ phase = "open" /\ queue' = <<>>
  BY DEF JobFails
<1>6. memory' \in MemoryType /\ queue' \in Seq(Requests) /\ phase' \in Phases
  BY <1>5, TypeFacts, NullValues, EmptySeq DEF Phases
<1>7. TypeOK'
  BY <1>1, <1>2, <1>3, <1>4, <1>6, TypeFacts, NullValues
  DEF TypeOK, FileTypeOK, ProcessTypeOK, AnswerTypeOK, JobType, MemoryType, AnswerType, FileType
<1>8. Unread.backing = "none"
  BY DEF Unread
<1>9. phase # "repairing" /\ memory.backing = "v3" => format = "v3"
  BY DEF JobFails, JobMatches
<1>10. JobMatches'
  BY <1>1, <1>5, <1>8, <1>9, TypeFacts DEF JobMatches
<1> QED
  BY <1>7, <1>10

LEMMA HostTypes ==
  TypeOK /\ JobMatches /\ (Close \/ CloseEnds \/ Stop) => TypeOK' /\ JobMatches'
<1> SUFFICES ASSUME TypeOK, JobMatches, Close \/ CloseEnds \/ Stop PROVE TypeOK' /\ JobMatches'
  OBVIOUS
<1>1. UNCHANGED fileVars /\ failures' = failures /\ stops' \in 0 .. MaxStops
  BY TypeFacts DEF Close, CloseEnds, Stop
<1>2. answer' \in [Requests -> AnswerType]
  <2>1. Reply(ToSet(queue), "rejected") \in [Requests -> AnswerType]
    BY ReplyType DEF AnswerType
  <2>2. Stop => answer' \in [Requests -> AnswerType]
    BY TypeFacts DEF Stop, AnswerType
  <2> QED
    BY <2>1, <2>2, TypeFacts DEF Close, CloseEnds
<1>3. fork' \in ForkType
  <2>1. fork \in ForkType /\ [fork EXCEPT !.pc = "failed"] \in ForkType
    BY TypeFacts DEF ForkType
  <2> QED
    BY <2>1 DEF Close, CloseEnds, Stop
<1>4. /\ queue' # <<>> => queue' = queue /\ phase = "closing"
      /\ \/ Close /\ phase \in {"open", "faulted"} /\ phase' = "closing" /\ UNCHANGED <<memory, job>>
         \/ phase' = "closed" /\ memory' = Unread /\ job' = NoJob
  BY DEF Close, CloseEnds, Stop
<1>5. /\ queue' \in Seq(Requests) /\ phase' \in Phases /\ memory' \in MemoryType
      /\ job' \in JobType /\ queue' = <<>>
  BY <1>4, TypeFacts, NullValues, EmptySeq DEF Phases, JobMatches
<1>6. TypeOK'
  BY <1>1, <1>2, <1>3, <1>5, TypeFacts
  DEF TypeOK, FileTypeOK, ProcessTypeOK, AnswerTypeOK, JobType, MemoryType, AnswerType, ForkType,
      fileVars
<1>7. Unread.backing = "none" /\ NoJob.pc = "none"
  BY DEF Unread, NoJob
<1>8. JobMatches'
  <2>1. CASE Close /\ phase \in {"open", "faulted"} /\ phase' = "closing" /\ UNCHANGED <<memory, job>>
    BY <1>1, <1>5, <2>1 DEF JobMatches, fileVars
  <2>2. CASE phase' = "closed" /\ memory' = Unread /\ job' = NoJob
    BY <1>1, <1>5, <1>7, <2>2 DEF JobMatches, fileVars
  <2> QED
    BY <1>4, <2>1, <2>2
<1> QED
  BY <1>6, <1>8

LEMMA ForkTypes == TypeOK /\ JobMatches /\ ForkStep => TypeOK' /\ JobMatches'
<1> SUFFICES ASSUME TypeOK, JobMatches, ForkStep PROVE TypeOK' /\ JobMatches'
  OBVIOUS
<1>1. UNCHANGED <<fileVars, phase, memory, queue, job, answer, failures, stops>>
  BY DEF ForkStep, ForkCapture, ForkIndex, ForkCopy
<1>2. fork' \in ForkType
  <2>1. CASE ForkCapture
    <3>1. Acknowledged \in SUBSET Requests /\ "captured" \in {"captured"}
      BY DEF Acknowledged
    <3>2. /\ [NoFork EXCEPT !.pc = "captured", !.bound = memory.next, !.known = Acknowledged]
               \in ForkType
          /\ [NoFork EXCEPT !.pc = "captured", !.from = format, !.known = Acknowledged]
               \in ForkType
      BY <3>1, TypeFacts, NullValues DEF ForkType
    <3> QED
      BY <2>1, <3>2 DEF ForkCapture
  <2>2. LET seen == Before(Complete, fork.bound)
        IN seen \in Seq(LineType) /\ Transactions(seen) \in Seq(Requests) /\ NextSeq(seen) \in Nat
    BY TypeFacts, FileReads, BeforeProperties, TransactionsProperties, NextSeqProperties
  <2>3. CASE ForkIndex
    BY <2>2, <2>3, TypeFacts DEF ForkIndex, ForkType
  <2>4. CASE ForkCopy
    BY <2>2, <2>4, TypeFacts DEF ForkCopy, ForkType
  <2> QED
    BY <2>1, <2>3, <2>4 DEF ForkStep
<1>3. TypeOK'
  BY <1>1, <1>2 DEF TypeOK, FileTypeOK, ProcessTypeOK, AnswerTypeOK, fileVars, ForkType
<1>4. JobMatches'
  BY <1>1 DEF JobMatches, fileVars
<1> QED
  BY <1>3, <1>4

LEMMA TypesInit == Init => TypeOK /\ JobMatches
<1> SUFFICES ASSUME Init PROVE TypeOK /\ JobMatches
  OBVIOUS
<1>1. \A S : <<>> \in Seq(S)
  BY EmptySeq
<1>2. FileTypeOK
  BY <1>1, NullValues DEF Init, FileTypeOK, FileType
<1>3. ProcessTypeOK
  BY <1>1, NullValues DEF Init, ProcessTypeOK, MemoryType, JobType, Phases
<1>4. AnswerTypeOK
  BY NullValues DEF Init, AnswerTypeOK, ForkType
<1>5. JobMatches
  BY DEF Init, JobMatches, NoJob, Unread
<1> QED
  BY <1>2, <1>3, <1>4, <1>5 DEF TypeOK

LEMMA TypesNext == TypeOK /\ JobMatches /\ [Next]_vars => TypeOK' /\ JobMatches'
<1> SUFFICES ASSUME TypeOK, JobMatches, [Next]_vars PROVE TypeOK' /\ JobMatches'
  OBVIOUS
<1>1. CASE Next
  BY <1>1, OpenTypes, SubmitTypes, StartTypes, WritePartTypes, WriteRestTypes, AppliesTypes,
     StageTypes, PublishTypes, JobFailsTypes, HostTypes, ForkTypes DEF Next, JobStep
<1>2. CASE UNCHANGED vars
  BY <1>2
  DEF vars, fileVars, TypeOK, FileTypeOK, ProcessTypeOK, AnswerTypeOK, JobMatches
<1> QED
  BY <1>1, <1>2

\* Every variable keeps its type, whichever hosts write and whatever fails: what
\* is appended, staged, published, replayed and copied are lines of transactions.
THEOREM StorageTypesHold == Spec => []TypeOK
<1>1. Spec => [](TypeOK /\ JobMatches)
  BY TypesInit, TypesNext, PTL DEF Spec
<1> QED
  BY <1>1, PTL

----------------------------------------------------------------------------
(* The file, when every write comes from a harness.                         *)

\* Whole lines in the order of their numbers replay: Replayable, of any lines.
Replays(ls) ==
  \A i \in DOMAIN ls : ls[i].is = "whole" /\ (i > 1 => ls[i].seq > ls[i - 1].seq)

LEMMA SoundReplays ==
  ASSUME NEW ls \in Seq(LineType), Increasing(ls),
         \A i \in 1 .. Len(ls) : ls[i].is = "whole"
  PROVE  Replays(ls)
<1>1. DOMAIN ls = 1 .. Len(ls) /\ Len(ls) \in Nat
  BY LenProperties
<1>2. ASSUME NEW i \in 1 .. Len(ls), i > 1
      PROVE  ls[i].seq > ls[i - 1].seq
  <2>1. i - 1 \in 1 .. Len(ls) /\ i - 1 < i
    BY <1>1, <1>2
  <2>2. ls[i - 1].seq < ls[i].seq
    BY <2>1 DEF Increasing
  <2>3. ls[i].seq \in Nat /\ ls[i - 1].seq \in Nat
    BY <2>1, ElementOfSeq, LineIsRecord
  <2> QED
    BY <2>2, <2>3
<1> QED
  BY <1>1, <1>2 DEF Replays

\* The next process reads the complete lines, all of them.
LEMMA RecordedIs ==
  ASSUME TypeOK, JobMatches, LinesAreSound
  PROVE  /\ Replayable /\ Recorded = Transactions(Complete)
         /\ format = "v3" => Complete = <<>>
<1>1. Complete \in Seq(LineType) /\ Len(Complete) \in Nat
  BY FileReads
<1>2. Replayable
  <2>1. Increasing(Complete) /\ \A i \in 1 .. Len(Complete) : Complete[i].is = "whole"
    BY DEF LinesAreSound, Increasing
  <2>2. Replays(Complete)
    BY <1>1, <2>1, SoundReplays
  <2> QED
    BY <2>2 DEF Replays, Replayable
<1>3. ASSUME format = "v3" PROVE Complete = <<>> /\ Transactions(Complete) = <<>>
  <2>1. lines = <<>>
    BY <1>3 DEF JobMatches
  <2>2. Complete = <<>>
    BY <2>1, FileReads DEF Torn
  <2>3. Transactions(Complete) \in Seq(Requests) /\ Len(Transactions(Complete)) = 0
    BY <1>1, <2>2, TransactionsProperties, EmptySeq
  <2> QED
    BY <2>2, <2>3, EmptySeq
<1> QED
  BY <1>2, <1>3, TypeFacts DEF Recorded

\* The one step that records a transaction, and what it leaves alone.
Records ==
  /\ job.pc \in {"appending", "publish"} /\ phase \in {"open", "closing"}
  /\ Complete' = Append(Complete, NewLine("whole")) /\ ~Torn'
  /\ format' = "v4" /\ job' = [job EXCEPT !.pc = "written"]
  /\ UNCHANGED <<phase, memory, queue, fork, answer, failures, stops>>

LEMMA WriteRestRecords ==
  ASSUME TypeOK, JobMatches, StorageInvariant, WriteRest, TypeOK'
  PROVE  Records
<1>1. /\ job.pc = "appending" /\ phase \in {"open", "closing"} /\ format = "v4"
      /\ Torn /\ Last(lines) = NewLine("torn")
  BY TypeFacts DEF WriteRest, StorageInvariant, TornMatches, JobMatches, Phases
<1>2. /\ lines' = [lines EXCEPT ![Len(lines)].is = "whole"]
      /\ job' = [job EXCEPT !.pc = "written"]
      /\ UNCHANGED <<format, temp, phase, memory, queue, fork, answer, failures, stops>>
  BY <1>1 DEF WriteRest
<1>3. lines \in Seq(LineType) /\ EndsTorn(lines) /\ Complete = Wholes(lines)
  BY <1>1, FileReads, TypeFacts
<1>4. /\ ~EndsTorn(lines')
      /\ lines' = Append(Wholes(lines), [Last(lines) EXCEPT !.is = "whole"])
  BY <1>2, <1>3, TornCompleted
<1>5. [Last(lines) EXCEPT !.is = "whole"] = NewLine("whole")
  BY <1>1 DEF NewLine
<1>6. Torn' = EndsTorn(lines') /\ Complete' = Wholes(lines')
  BY DEF Torn, EndsTorn, Complete, Wholes
<1>7. Wholes(lines') = lines'
  BY <1>4, WholesProperties DEF TypeOK, FileTypeOK
<1> QED
  BY <1>1, <1>2, <1>3, <1>4, <1>5, <1>6, <1>7 DEF Records

LEMMA UpgradeRecords ==
  ASSUME TypeOK, JobMatches, StorageInvariant, Publish, phase # "repairing", TypeOK'
  PROVE  Records
<1>1. /\ job.pc = "publish" /\ phase \in {"open", "closing"} /\ format = "v3" /\ lines = <<>>
      /\ temp.lines = <<NewLine("whole")>>
  BY TypeFacts DEF Publish, StorageInvariant, TornMatches, StagedLines, JobMatches, Phases
<1>2. /\ lines' = <<NewLine("whole")>> /\ format' = "v4"
      /\ job' = [job EXCEPT !.pc = "written"]
      /\ UNCHANGED <<phase, memory, queue, fork, answer, failures, stops>>
  BY <1>1 DEF Publish
<1>3. Complete = <<>>
  BY <1>1, FileReads DEF Torn
<1>4. NewLine("whole") \in LineType /\ NewLine("whole").is = "whole"
  BY <1>1, NewLineType
<1>5. lines' = Append(<<>>, NewLine("whole"))
  BY <1>2
<1>6. Last(lines') = NewLine("whole")
  BY <1>4, <1>5, EmptySeq, LastProperties
<1>7. Torn' = EndsTorn(lines') /\ Complete' = Wholes(lines')
  BY DEF Torn, EndsTorn, Complete, Wholes
<1>8. ~EndsTorn(lines')
  BY <1>4, <1>6 DEF EndsTorn
<1>9. Wholes(lines') = lines'
  BY <1>8, WholesProperties DEF TypeOK, FileTypeOK
<1> QED
  BY <1>1, <1>2, <1>3, <1>5, <1>7, <1>8, <1>9 DEF Records

\* A repair publishes the lines a reader accepted; the others are gone.
LEMMA RepairKeeps ==
  ASSUME TypeOK, JobMatches, StorageInvariant, Publish, phase = "repairing"
  PROVE  Complete' = Complete /\ ~Torn'
<1>1. lines' = Complete
  BY DEF Publish, StorageInvariant, TornMatches, StagedLines
<1>2. Complete \in Seq(LineType)
  BY FileReads
<1>3. ~EndsTorn(lines')
  <2>1. Complete # <<>> => Len(Complete) \in 1 .. Len(Complete)
    BY <1>2, LastProperties
  <2> QED
    BY <1>1, <2>1 DEF EndsTorn, Last, StorageInvariant, LinesAreSound
<1>4. Torn' = EndsTorn(lines') /\ Complete' = Wholes(lines')
  BY DEF Torn, EndsTorn, Complete, Wholes
<1>5. Wholes(lines') = lines'
  BY <1>1, <1>2, <1>3, WholesProperties
<1> QED
  BY <1>1, <1>3, <1>4, <1>5

\* The first bytes of a line change nothing for a reader.
LEMMA WritePartKeeps ==
  ASSUME TypeOK, JobMatches, StorageInvariant, WritePart
  PROVE  /\ Complete' = Complete /\ Torn' /\ Last(lines') = NewLine("torn")
         /\ ~Torn /\ job' = [job EXCEPT !.pc = "appending"]
<1>1. ~Torn /\ job.pc = "append" /\ phase # "repairing"
  BY DEF WritePart, StorageInvariant, TornMatches, JobMatches
<1>2. lines' = Append(lines, NewLine("torn")) /\ job' = [job EXCEPT !.pc = "appending"]
  BY <1>1 DEF WritePart
<1>3. /\ lines \in Seq(LineType) /\ ~EndsTorn(lines) /\ Complete = lines
      /\ NewLine("torn") \in LineType /\ NewLine("torn").is = "torn"
  BY <1>1, FileReads, TypeFacts, NewLineType
<1>4. Torn' = EndsTorn(lines') /\ Complete' = Wholes(lines')
  BY DEF Torn, EndsTorn, Complete, Wholes
<1>5. EndsTorn(lines') /\ Wholes(lines') = lines /\ Last(lines') = NewLine("torn")
  BY <1>2, <1>3, TornAppended, LastProperties
<1> QED
  BY <1>1, <1>2, <1>3, <1>4, <1>5

\* Every other step leaves the file as it is.
LEMMA FileKeeps ==
  ASSUME lines' = lines
  PROVE  Complete' = Complete /\ Torn' = Torn /\ Last(lines') = Last(lines)
BY DEF Complete, Torn

LEMMA FileSteps ==
  ASSUME TypeOK, JobMatches, StorageInvariant, Next, TypeOK'
  PROVE  Complete' = Complete \/ Records
<1>1. CASE WriteRest
  BY <1>1, WriteRestRecords
<1>2. CASE Publish
  BY <1>2, UpgradeRecords, RepairKeeps
<1>3. CASE WritePart
  BY <1>3, WritePartKeeps
<1>4. ASSUME ~WriteRest, ~Publish, ~WritePart PROVE lines' = lines
  BY <1>4 DEF Next, Open, Close, CloseEnds, Stop, JobStep, StartCommit, CommitApplies, StageBegin,
     StageWrite, JobFails, ForkStep, ForkCapture, ForkIndex, ForkCopy, Submit, fileVars
<1> QED
  BY <1>1, <1>2, <1>3, <1>4, FileKeeps

----------------------------------------------------------------------------
(* Answers.                                                                 *)

\* What a caller knows is final, and only one that has not submitted yet begins
\* to wait.
LEMMA AnswersMove ==
  ASSUME TypeOK, JobMatches, StorageInvariant, FaultsOnError, Next
  PROVE  \A r \in Requests :
           /\ answer[r] # "new" => answer'[r] # "new"
           /\ answer[r] = "committed" => answer'[r] = "committed"
           /\ answer'[r] = "committed" => \/ answer[r] = "committed"
                                          \/ CommitApplies /\ r = job.req
<1>1. \A i \in 1 .. Len(queue) : answer[queue[i]] = "pending"
  BY DEF StorageInvariant, QueueIsOwn
<1>2. ToSet(queue) = {queue[i] : i \in 1 .. Len(queue)}
  BY TypeFacts, LenProperties DEF ToSet
<1>3. \A r \in ToSet(queue) : answer[r] = "pending"
  BY <1>1, <1>2
<1>4. \A R, what : \A r \in Requests : Reply(R, what)[r] = IF r \in R THEN what ELSE answer[r]
  BY DEF Reply
<1>5. CASE \E r \in Requests : Submit(r)
  BY <1>4, <1>5 DEF Submit
<1>6. CASE CommitApplies
  <2>1. answer[job.req] = "pending"
    BY <1>6 DEF CommitApplies, StorageInvariant, JobIsOwn, JobMatches
  <2> QED
    BY <1>4, <1>6, <2>1 DEF CommitApplies
<1>7. CASE JobFails
  <2>1. phase # "repairing" => answer[job.req] = "pending"
    BY <1>7 DEF JobFails, StorageInvariant, JobIsOwn, JobMatches
  <2>2. \/ answer' = answer
        \/ phase # "repairing" /\ answer' = Reply({job.req} \union ToSet(queue), "rejected")
        \/ phase # "repairing" /\ answer' = Reply({job.req}, "rejected")
    BY <1>7 DEF JobFails
  <2> QED
    BY <1>3, <1>4, <2>1, <2>2
<1>8. CASE Close
  BY <1>3, <1>4, <1>8 DEF Close
<1>9. CASE Stop
  BY <1>9 DEF Stop
<1>10. ASSUME ~(\E r \in Requests : Submit(r)), ~CommitApplies, ~JobFails, ~Close, ~Stop
       PROVE  answer' = answer
  BY <1>10 DEF Next, Open, CloseEnds, JobStep, StartCommit, WritePart, WriteRest, StageBegin,
     StageWrite, Publish, ForkStep, ForkCapture, ForkIndex, ForkCopy
<1> QED
  BY <1>5, <1>6, <1>7, <1>8, <1>9, <1>10

----------------------------------------------------------------------------
(* Each part of the invariant is kept by every step.                        *)

\* What Records appends.
LEMMA RecordsFacts ==
  ASSUME TypeOK, JobMatches, StorageInvariant, Records
  PROVE  /\ NewLine("whole") \in LineType
         /\ NewLine("whole").seq = memory.next /\ NewLine("whole").req = job.req
         /\ NewLine("whole").is = "whole" /\ job.req \in Requests
         /\ answer[job.req] = "pending" /\ memory.next = NextSeq(Complete)
         /\ Complete' \in Seq(LineType)
         /\ Len(Complete') = Len(Complete) + 1 /\ Len(Complete) \in Nat
         /\ \A i \in 1 .. Len(Complete) : Complete'[i] = Complete[i]
         /\ Complete'[Len(Complete) + 1] = NewLine("whole")
         /\ NextSeq(Complete') = memory.next + 1
<1>1. job.pc # "none" /\ phase # "repairing" /\ job.pc # "written"
  BY DEF Records
<1>2. /\ NewLine("whole") \in LineType
      /\ NewLine("whole").seq = memory.next /\ NewLine("whole").req = job.req
      /\ NewLine("whole").is = "whole" /\ job.req \in Requests
  BY <1>1, NewLineType DEF JobMatches
<1>3. answer[job.req] = "pending" /\ memory.next = NextSeq(Complete)
  BY <1>1 DEF StorageInvariant, JobIsOwn, NextMatches
<1>4. Complete \in Seq(LineType) /\ Complete' = Append(Complete, NewLine("whole"))
  BY FileReads DEF Records
<1>5. /\ Complete' \in Seq(LineType) /\ Len(Complete') = Len(Complete) + 1
      /\ \A i \in 1 .. Len(Complete) : Complete'[i] = Complete[i]
      /\ Complete'[Len(Complete) + 1] = NewLine("whole")
  BY <1>2, <1>4, AppendProperties
<1>6. NextSeq(Complete') = memory.next + 1
  BY <1>2, <1>4, NextSeqProperties
<1> QED
  BY <1>2, <1>3, <1>4, <1>5, <1>6, LenProperties

LEMMA SoundBelowNext ==
  ASSUME TypeOK, LinesAreSound
  PROVE  Increasing(Complete) /\ \A i \in 1 .. Len(Complete) : Complete[i].seq < NextSeq(Complete)
BY FileReads, NextSeqProperties DEF LinesAreSound, Increasing

LEMMA LinesStep ==
  ASSUME TypeOK, JobMatches, StorageInvariant, FaultsOnError, Next, TypeOK'
  PROVE  LinesAreSound'
<1>1. \A i \in 1 .. Len(Complete) : Complete[i].req \in Requests
  BY FileReads, ElementOfSeq, LineIsRecord
<1>2. CASE Complete' = Complete
  BY <1>1, <1>2, AnswersMove DEF StorageInvariant, LinesAreSound
<1>3. CASE Records
  <2> DEFINE n == Len(Complete)
  <2>1. /\ n \in Nat /\ Len(Complete') = n + 1
        /\ \A i \in 1 .. n : Complete'[i] = Complete[i]
        /\ Complete'[n + 1] = NewLine("whole") /\ NewLine("whole").seq = memory.next
        /\ NewLine("whole").req = job.req /\ NewLine("whole").is = "whole"
        /\ job.req \in Requests /\ answer[job.req] = "pending"
    BY <1>3, RecordsFacts
  <2>2. \A i \in 1 .. n : Complete[i].seq < memory.next
    BY <1>3, RecordsFacts, SoundBelowNext DEF StorageInvariant
  <2>3. \A i \in 1 .. n : Complete[i].req # job.req
    BY <1>3 DEF Records, StorageInvariant, JobIsOwn
  <2>4. /\ \A i \in 1 .. n : Complete[i].is = "whole" /\ answer[Complete[i].req] # "new"
        /\ \A i, j \in 1 .. n :
             /\ i < j => Complete[i].seq < Complete[j].seq
             /\ Complete[i].req = Complete[j].req => i = j
    BY DEF StorageInvariant, LinesAreSound
  <2>5. answer' = answer
    BY <1>3 DEF Records
  <2> HIDE DEF n
  <2>6. ASSUME NEW i \in 1 .. n + 1
        PROVE  Complete'[i].is = "whole" /\ answer[Complete'[i].req] # "new"
    <3>1. i \in 1 .. n \/ i = n + 1
      BY <2>1
    <3> QED
      BY <2>1, <2>4, <3>1
  <2>7. ASSUME NEW i \in 1 .. n + 1, NEW j \in 1 .. n + 1
        PROVE  /\ i < j => Complete'[i].seq < Complete'[j].seq
               /\ Complete'[i].req = Complete'[j].req => i = j
    <3>1. CASE i \in 1 .. n /\ j \in 1 .. n
      BY <2>1, <2>4, <3>1
    <3>2. CASE i \in 1 .. n /\ j = n + 1
      BY <2>1, <2>2, <2>3, <3>2
    <3>3. CASE i = n + 1 /\ j \in 1 .. n
      BY <2>1, <2>3, <3>3
    <3>4. CASE i = n + 1 /\ j = n + 1
      BY <2>1, <3>4
    <3> QED
      BY <2>1, <3>1, <3>2, <3>3, <3>4
  <2>8. LinesAreSound' = (/\ \A i \in 1 .. Len(Complete') : Complete'[i].is = "whole"
                                                           /\ answer'[Complete'[i].req] # "new"
                          /\ \A i, j \in 1 .. Len(Complete') :
                               /\ i < j => Complete'[i].seq < Complete'[j].seq
                               /\ Complete'[i].req = Complete'[j].req => i = j)
    BY DEF LinesAreSound
  <2> QED
    BY <2>1, <2>5, <2>6, <2>7, <2>8
<1> QED
  BY <1>2, <1>3, FileSteps

LEMMA TornStep ==
  ASSUME TypeOK, JobMatches, StorageInvariant, FaultsOnError, Next, TypeOK'
  PROVE  TornMatches'
<1>1. CASE Open
  <2>1. Torn' = Torn /\ job.pc = "none" /\ (format = "v3" => ~Torn)
    BY <1>1, FileKeeps DEF Open, fileVars, JobMatches, Torn
  <2>2. job'.pc \in {"none", "stage"} /\ (phase' = "open" => ~Torn)
    BY <1>1, <2>1, TypeFacts DEF Open, NoJob
  <2> QED
    BY <2>1, <2>2 DEF TornMatches
<1>2. CASE StartCommit
  <2>1. /\ Torn' = Torn /\ ~Torn /\ job'.pc \in {"append", "stage"}
    BY <1>2, FileKeeps DEF StartCommit, fileVars, StorageInvariant, TornMatches, NoJob
  <2> QED
    BY <2>1 DEF TornMatches
<1>3. CASE WritePart
  <2>1. job'.pc = "appending" /\ job'.req = job.req /\ memory' = memory
    BY <1>3, WritePartKeeps, TypeFacts DEF WritePart, JobType
  <2>2. NewLine("torn")' = NewLine("torn")
    BY <2>1 DEF NewLine
  <2> QED
    BY <1>3, <2>1, <2>2, WritePartKeeps DEF TornMatches
<1>4. CASE Records
  <2>1. ~Torn' /\ job'.pc = "written"
    BY <1>4, TypeFacts DEF Records, JobType
  <2> QED
    BY <2>1 DEF TornMatches
<1>5. CASE Publish /\ phase = "repairing"
  <2>1. ~Torn' /\ job'.pc = "none"
    BY <1>5, RepairKeeps DEF Publish, NoJob
  <2> QED
    BY <2>1 DEF TornMatches
<1>6. CASE CommitApplies
  <2>1. Torn' = Torn /\ ~Torn /\ job'.pc = "none"
    BY <1>6, FileKeeps DEF CommitApplies, fileVars, StorageInvariant, TornMatches, NoJob
  <2> QED
    BY <2>1 DEF TornMatches
<1>7. CASE StageBegin
  <2>1. Torn' = Torn /\ job'.pc = "staging" /\ (Torn => phase' # "open")
    BY <1>7, FileKeeps, TypeFacts DEF StageBegin, StorageInvariant, TornMatches, JobType
  <2> QED
    BY <2>1 DEF TornMatches
<1>8. CASE StageWrite
  <2>1. /\ Torn' = Torn /\ Complete' = Complete /\ job'.pc = "publish" /\ job'.req = job.req
        /\ (Torn => phase' # "open") /\ temp'.lines = StagedLines
        /\ UNCHANGED <<phase, memory>>
    BY <1>8, FileKeeps, TypeFacts DEF StageWrite, StorageInvariant, TornMatches, JobType
  <2>2. StagedLines' = StagedLines
    BY <2>1 DEF StagedLines, NewLine
  <2> QED
    BY <2>1, <2>2 DEF TornMatches
<1>9. CASE JobFails
  <2>1. job'.pc = "none" /\ phase' # "open"
    BY <1>9, TypeFacts DEF JobFails, JobMatches, NoJob, Phases
  <2> QED
    BY <2>1 DEF TornMatches
<1>10. CASE CloseEnds \/ Stop
  <2>1. job'.pc = "none" /\ phase' # "open"
    BY <1>10 DEF CloseEnds, Stop, NoJob
  <2> QED
    BY <2>1 DEF TornMatches
<1>11. CASE Close \/ ForkStep \/ \E r \in Requests : Submit(r)
  <2>1. /\ UNCHANGED <<fileVars, memory, job>>
        /\ \/ phase' = phase
           \/ phase' = "closing" /\ phase # "repairing"
    BY <1>11 DEF Close, ForkStep, ForkCapture, ForkIndex, ForkCopy, Submit
  <2>2. /\ Torn' = Torn /\ Complete' = Complete /\ Last(lines') = Last(lines)
    BY <2>1, FileKeeps DEF fileVars
  <2>3. StagedLines' = StagedLines /\ NewLine("torn")' = NewLine("torn")
    BY <2>1, <2>2 DEF StagedLines, NewLine
  <2> QED
    BY <2>1, <2>2, <2>3 DEF TornMatches, StorageInvariant, fileVars
<1> QED
  BY <1>1, <1>2, <1>3, <1>4, <1>5, <1>6, <1>7, <1>8, <1>9, <1>10, <1>11, WriteRestRecords,
     UpgradeRecords DEF Next, JobStep

LEMMA NextStep ==
  ASSUME TypeOK, JobMatches, StorageInvariant, FaultsOnError, Next, TypeOK'
  PROVE  NextMatches'
<1>1. CASE Records
  <2>1. /\ job'.pc = "written" /\ job'.req = job.req /\ memory' = memory
        /\ Complete' # <<>> /\ Last(Complete') = NewLine("whole")
        /\ memory'.next <= NextSeq(Complete')
    <3>1. Complete' # <<>> /\ Last(Complete') = NewLine("whole")
      BY <1>1, RecordsFacts, FileReads, AppendProperties, LastProperties DEF Records
    <3>2. memory'.next <= NextSeq(Complete')
      BY <1>1, RecordsFacts, TypeFacts DEF Records
    <3> QED
      BY <1>1, <3>1, <3>2, TypeFacts DEF Records, JobType
  <2>2. NewLine("whole")' = NewLine("whole")
    BY <2>1 DEF NewLine
  <2> QED
    BY <2>1, <2>2 DEF NextMatches
<1>2. CASE Open
  <2>1. /\ Complete' = Complete /\ job'.pc # "written" /\ NextSeq(<<>>) = 1
    BY <1>2, FileKeeps DEF Open, fileVars, NoJob, NextSeq
  <2>2. phase' # "corrupt" => memory'.next = NextSeq(Complete)
    BY <1>2, <2>1, RecordedIs, TypeFacts DEF Open, Unread, StorageInvariant
  <2>3. phase' = "corrupt" => job'.pc = "none"
    BY <1>2 DEF Open, NoJob
  <2>4. NextSeq(Complete) \in Nat
    BY FileReads, NextSeqProperties
  <2> QED
    BY <2>1, <2>2, <2>3, <2>4 DEF NextMatches
<1>3. CASE CommitApplies
  <2>1. /\ Complete' = Complete /\ job'.pc = "none" /\ job.pc = "written" /\ phase' = phase
        /\ memory'.next = memory.next + 1
    BY <1>3, FileKeeps DEF CommitApplies, Applied, fileVars, NoJob
  <2>2. NextSeq(Complete) = memory.next + 1
    BY <2>1 DEF StorageInvariant, NextMatches, NextSeq, NewLine
  <2> QED
    BY <2>1, <2>2, TypeFacts DEF NextMatches
<1>4. CASE JobFails
  <2>1. /\ Complete' = Complete /\ job'.pc = "none" /\ phase' \notin {"open", "repairing"}
        /\ \/ memory' = memory /\ phase \in {"open", "faulted", "closing"}
           \/ phase' = "closed"
    BY <1>4, FileKeeps, TypeFacts DEF JobFails, JobMatches, NoJob, Phases
  <2> QED
    BY <2>1 DEF NextMatches, StorageInvariant
<1>5. CASE CloseEnds \/ Stop
  <2>1. job'.pc = "none" /\ phase' = "closed"
    BY <1>5 DEF CloseEnds, Stop, NoJob
  <2> QED
    BY <2>1 DEF NextMatches
<1>6. CASE Publish /\ phase = "repairing"
  <2>1. Complete' = Complete /\ job'.pc = "none" /\ memory' = memory
    BY <1>6, RepairKeeps DEF Publish, NoJob
  <2>2. memory.next = NextSeq(Complete) /\ memory.next \in Nat
    BY <1>6, TypeFacts DEF StorageInvariant, NextMatches, JobMatches
  <2> QED
    BY <2>1, <2>2 DEF NextMatches
<1>7. CASE StartCommit \/ WritePart \/ StageBegin \/ StageWrite
  <2>1. /\ Complete' = Complete /\ job'.pc # "written" /\ job.pc # "written"
        /\ UNCHANGED <<phase, memory>>
        /\ phase \in {"repairing", "open"} \/ job.pc # "none"
    BY <1>7, FileKeeps, WritePartKeeps, TypeFacts
    DEF StartCommit, WritePart, StageBegin, StageWrite, fileVars, NoJob, JobType
  <2> QED
    BY <2>1 DEF NextMatches, StorageInvariant
<1>8. CASE Close \/ ForkStep \/ \E r \in Requests : Submit(r)
  <2>1. /\ UNCHANGED <<fileVars, memory, job>>
        /\ \/ phase' = phase
           \/ phase' = "closing" /\ phase \in {"open", "faulted"}
    BY <1>8 DEF Close, ForkStep, ForkCapture, ForkIndex, ForkCopy, Submit
  <2>2. Complete' = Complete
    BY <2>1, FileKeeps DEF fileVars
  <2>3. NewLine("whole")' = NewLine("whole")
    BY <2>1 DEF NewLine
  <2> QED
    BY <2>1, <2>2, <2>3 DEF NextMatches, StorageInvariant
<1> QED
  BY <1>1, <1>2, <1>3, <1>4, <1>5, <1>6, <1>7, <1>8, WriteRestRecords, UpgradeRecords
  DEF Next, JobStep

LEMMA LogStep ==
  ASSUME TypeOK, JobMatches, StorageInvariant, FaultsOnError, Next, TypeOK'
  PROVE  LogMatches'
<1> USE DEF StorageInvariant
<1>1. CASE Records
  <2>1. job'.pc = "written" /\ job'.req = job.req /\ UNCHANGED <<memory, phase>>
        /\ job.pc # "written"
    BY <1>1, TypeFacts DEF Records, JobType
  <2>2. Transactions(Complete') = Append(Transactions(Complete), job.req)
    BY <1>1, RecordsFacts, FileReads, TransactionsProperties DEF Records
  <2> QED
    BY <2>1, <2>2 DEF LogMatches
<1>2. CASE Open
  <2>1. Complete' = Complete /\ job'.pc # "written"
    BY <1>2, FileKeeps DEF Open, fileVars, NoJob
  <2>2. phase' # "corrupt" => memory'.log = Transactions(Complete)
    <3>1. format = "v4" => phase' = "corrupt" \/ memory'.log = Transactions(Complete)
      BY <1>2 DEF Open
    <3>2. format = "v3" => Transactions(Complete) = <<>> /\ memory'.log = <<>>
      BY <1>2, RecordedIs DEF Open, Unread, Recorded
    <3> QED
      BY <3>1, <3>2, TypeFacts
  <2> QED
    BY <2>1, <2>2 DEF LogMatches
<1>3. CASE CommitApplies
  <2>1. /\ Complete' = Complete /\ job'.pc = "none" /\ job.pc = "written" /\ phase' = phase
        /\ memory'.log = Append(memory.log, job.req)
    BY <1>3, FileKeeps DEF CommitApplies, Applied, fileVars, NoJob
  <2> QED
    BY <2>1 DEF LogMatches
<1>4. CASE JobFails \/ CloseEnds \/ Stop \/ Close
  <2>1. phase' \notin {"open", "repairing"}
    BY <1>4, TypeFacts DEF JobFails, JobMatches, CloseEnds, Stop, Close, Phases
  <2> QED
    BY <2>1 DEF LogMatches
<1>5. CASE Publish /\ phase = "repairing"
  <2>1. Complete' = Complete /\ job'.pc = "none" /\ job.pc # "written" /\ memory' = memory
    BY <1>5, RepairKeeps DEF Publish, NoJob
  <2> QED
    BY <1>5, <2>1 DEF LogMatches
<1>6. CASE StartCommit \/ WritePart \/ StageBegin \/ StageWrite
  <2>1. /\ Complete' = Complete /\ job'.pc # "written" /\ job.pc # "written"
        /\ UNCHANGED <<phase, memory>>
    BY <1>6, FileKeeps, WritePartKeeps, TypeFacts
    DEF StartCommit, WritePart, StageBegin, StageWrite, fileVars, NoJob, JobType
  <2> QED
    BY <2>1 DEF LogMatches
<1>7. CASE ForkStep \/ \E r \in Requests : Submit(r)
  <2>1. UNCHANGED <<fileVars, memory, job, phase>>
    BY <1>7 DEF ForkStep, ForkCapture, ForkIndex, ForkCopy, Submit
  <2>2. Complete' = Complete
    BY <2>1, FileKeeps DEF fileVars
  <2> QED
    BY <2>1, <2>2 DEF LogMatches
<1> QED
  BY <1>1, <1>2, <1>3, <1>4, <1>5, <1>6, <1>7, WriteRestRecords, UpgradeRecords
  DEF Next, JobStep

LEMMA QueueStep ==
  ASSUME TypeOK, JobMatches, StorageInvariant, FaultsOnError, Next, TypeOK'
  PROVE  QueueIsOwn'
<1> USE DEF StorageInvariant
<1>1. CASE Records
  <2>1. /\ queue' = queue /\ answer' = answer /\ job.pc # "none" /\ job'.req = job.req
    BY <1>1, TypeFacts DEF Records, JobType
  <2>2. ASSUME NEW i \in 1 .. Len(queue), NEW k \in 1 .. Len(Complete')
        PROVE  Complete'[k].req # queue[i]
    <3>1. k \in 1 .. Len(Complete) \/ k = Len(Complete) + 1
      BY <1>1, RecordsFacts
    <3>2. queue[i] # job.req /\ \A m \in 1 .. Len(Complete) : Complete[m].req # queue[i]
      BY <2>1 DEF QueueIsOwn
    <3> QED
      BY <1>1, <3>1, <3>2, RecordsFacts
  <2> QED
    BY <2>1, <2>2 DEF QueueIsOwn
<1>2. CASE JobFails \/ Close \/ CloseEnds \/ Stop \/ Open
  <2>1. queue' = <<>>
    BY <1>2, TypeFacts DEF JobFails, Close, CloseEnds, Stop, Open, JobMatches, Phases
  <2>2. Len(queue') = 0
    BY <2>1, EmptySeq
  <2> QED
    BY <2>2 DEF QueueIsOwn
<1>3. CASE StartCommit
  <2>1. /\ queue' = Tail(queue) /\ job'.req = Head(queue) /\ queue # <<>> /\ answer' = answer
        /\ Complete' = Complete
    BY <1>3, FileKeeps DEF StartCommit, fileVars
  <2>2. /\ Len(Tail(queue)) = Len(queue) - 1 /\ Head(queue) = queue[1] /\ Len(queue) \in Nat \ {0}
        /\ \A i \in 1 .. Len(Tail(queue)) : Tail(queue)[i] = queue[i + 1]
    BY <2>1, TypeFacts, HeadTailProperties, EmptySeq
  <2>3. ASSUME NEW i \in 1 .. Len(Tail(queue))
        PROVE  /\ i + 1 \in 1 .. Len(queue) /\ 1 \in 1 .. Len(queue) /\ i + 1 # 1
               /\ Tail(queue)[i] = queue[i + 1]
    BY <2>2
  <2>4. ASSUME NEW i \in 1 .. Len(Tail(queue)), NEW j \in 1 .. Len(Tail(queue)),
               Tail(queue)[i] = Tail(queue)[j]
        PROVE  i = j
    <3>1. i + 1 = j + 1
      BY <2>3, <2>4 DEF QueueIsOwn
    <3> QED
      BY <3>1, <2>2
  <2>5. ASSUME NEW i \in 1 .. Len(Tail(queue))
        PROVE  /\ answer[Tail(queue)[i]] = "pending" /\ Tail(queue)[i] # Head(queue)
               /\ \A k \in 1 .. Len(Complete) : Complete[k].req # Tail(queue)[i]
    BY <2>2, <2>3 DEF QueueIsOwn
  <2> QED
    BY <2>1, <2>4, <2>5 DEF QueueIsOwn
<1>4. CASE CommitApplies
  <2>1. /\ queue' = queue /\ job'.pc = "none" /\ Complete' = Complete /\ job.pc # "none"
        /\ answer' = Reply({job.req}, "committed")
    BY <1>4, FileKeeps DEF CommitApplies, fileVars, NoJob
  <2>2. \A i \in 1 .. Len(queue) : queue[i] \in Requests /\ queue[i] # job.req
    BY <2>1, TypeFacts, ElementOfSeq DEF QueueIsOwn
  <2>3. \A i \in 1 .. Len(queue) : answer'[queue[i]] = answer[queue[i]]
    BY <2>1, <2>2 DEF Reply
  <2> QED
    BY <2>1, <2>3 DEF QueueIsOwn
<1>5. CASE \E r \in Requests : Submit(r)
  <2>1. PICK r \in Requests : Submit(r)
    BY <1>5
  <2>2. UNCHANGED <<fileVars, phase, memory, job>> /\ Complete' = Complete /\ answer[r] = "new"
    BY <2>1, FileKeeps DEF Submit, fileVars
  <2>3. \A i \in 1 .. Len(queue) : queue[i] \in Requests /\ answer[queue[i]] = "pending"
    BY TypeFacts, ElementOfSeq DEF QueueIsOwn
  <2>4. CASE phase = "open"
    <3>1. /\ queue' = Append(queue, r) /\ answer'[r] = "pending"
          /\ \A i \in 1 .. Len(queue) : answer'[queue[i]] = "pending" /\ queue[i] # r
      BY <2>1, <2>2, <2>3, <2>4 DEF Submit, Reply
    <3>2. /\ Len(Append(queue, r)) = Len(queue) + 1 /\ Len(queue) \in Nat
          /\ \A i \in 1 .. Len(queue) : Append(queue, r)[i] = queue[i]
          /\ Append(queue, r)[Len(queue) + 1] = r
      BY TypeFacts, AppendProperties, LenProperties
    <3>3. (job.pc # "none" => r # job.req) /\ \A k \in 1 .. Len(Complete) : Complete[k].req # r
      BY <2>2, <2>4 DEF JobIsOwn, LinesAreSound
    <3>4. ASSUME NEW i \in 1 .. Len(queue) + 1
          PROVE  /\ answer'[Append(queue, r)[i]] = "pending"
                 /\ job.pc # "none" => Append(queue, r)[i] # job.req
                 /\ \A k \in 1 .. Len(Complete) : Complete[k].req # Append(queue, r)[i]
      <4>1. i \in 1 .. Len(queue) \/ i = Len(queue) + 1
        BY <3>2
      <4> QED
        BY <4>1, <3>1, <3>2, <3>3 DEF QueueIsOwn
    <3>5. ASSUME NEW i \in 1 .. Len(queue) + 1, NEW j \in 1 .. Len(queue) + 1,
                 Append(queue, r)[i] = Append(queue, r)[j]
          PROVE  i = j
      <4>1. /\ i \in 1 .. Len(queue) \/ i = Len(queue) + 1
            /\ j \in 1 .. Len(queue) \/ j = Len(queue) + 1
        BY <3>2
      <4> QED
        BY <4>1, <3>1, <3>2, <3>5 DEF QueueIsOwn
    <3> QED
      BY <2>2, <3>1, <3>2, <3>4, <3>5 DEF QueueIsOwn
  <2>5. CASE phase # "open"
    <3>1. queue' = queue /\ \A i \in 1 .. Len(queue) : answer'[queue[i]] = answer[queue[i]]
      BY <2>1, <2>2, <2>3, <2>5 DEF Submit, Reply
    <3> QED
      BY <2>2, <3>1 DEF QueueIsOwn
  <2> QED
    BY <2>4, <2>5
<1>6. CASE WritePart \/ StageBegin \/ StageWrite \/ ForkStep \/ (Publish /\ phase = "repairing")
  <2>1. /\ queue' = queue /\ answer' = answer /\ Complete' = Complete
        /\ job'.pc # "none" => job.pc # "none" /\ job'.req = job.req
    BY <1>6, FileKeeps, WritePartKeeps, RepairKeeps, TypeFacts
    DEF WritePart, StageBegin, StageWrite, ForkStep, ForkCapture, ForkIndex, ForkCopy, Publish,
        fileVars, NoJob, JobType
  <2> QED
    BY <2>1 DEF QueueIsOwn
<1> QED
  BY <1>1, <1>2, <1>3, <1>4, <1>5, <1>6, WriteRestRecords, UpgradeRecords DEF Next, JobStep

LEMMA OwnStep ==
  ASSUME TypeOK, JobMatches, StorageInvariant, FaultsOnError, Next, TypeOK'
  PROVE  JobIsOwn'
<1> USE DEF StorageInvariant
<1>1. CASE Records
  <2>1. /\ job'.pc = "written" /\ job'.req = job.req /\ answer' = answer
        /\ answer[job.req] = "pending"
    BY <1>1, RecordsFacts, TypeFacts DEF Records, JobType
  <2> QED
    BY <2>1 DEF JobIsOwn
<1>2. CASE StartCommit
  <2>1. /\ job'.req = Head(queue) /\ queue # <<>> /\ answer' = answer /\ Complete' = Complete
    BY <1>2, FileKeeps DEF StartCommit, fileVars
  <2>2. Head(queue) = queue[1] /\ 1 \in 1 .. Len(queue)
    BY <2>1, TypeFacts, EmptySeq
  <2> QED
    BY <2>1, <2>2 DEF JobIsOwn, QueueIsOwn
<1>3. CASE CommitApplies \/ JobFails \/ CloseEnds \/ Stop \/ (Publish /\ phase = "repairing")
  <2>1. job'.pc = "none"
    BY <1>3 DEF CommitApplies, JobFails, CloseEnds, Stop, Publish, NoJob
  <2> QED
    BY <2>1 DEF JobIsOwn
<1>4. CASE Open
  <2>1. job'.pc # "none" => phase' = "repairing"
    BY <1>4 DEF Open, NoJob
  <2> QED
    BY <2>1 DEF JobIsOwn
<1>5. CASE Close
  <2>1. /\ job' = job /\ Complete' = Complete /\ phase # "repairing"
        /\ answer' = Reply(ToSet(queue), "rejected")
    BY <1>5, FileKeeps DEF Close, fileVars
  <2>2. job.pc # "none" => job.req \in Requests /\ job.req \notin ToSet(queue)
    <3>1. ToSet(queue) = {queue[i] : i \in 1 .. Len(queue)}
      BY TypeFacts, LenProperties DEF ToSet
    <3> QED
      BY <2>1, <3>1 DEF QueueIsOwn, JobMatches
  <2> QED
    BY <2>1, <2>2 DEF JobIsOwn, Reply
<1>6. CASE \E r \in Requests : Submit(r)
  <2>1. PICK r \in Requests : Submit(r)
    BY <1>6
  <2>2. UNCHANGED <<fileVars, phase, job>> /\ Complete' = Complete /\ answer[r] = "new"
    BY <2>1, FileKeeps DEF Submit, fileVars
  <2>3. ASSUME job.pc # "none", phase # "repairing" PROVE answer'[job.req] = "pending"
    <3>1. job.req \in Requests /\ answer[job.req] = "pending" /\ job.req # r
      BY <2>2, <2>3 DEF JobIsOwn, JobMatches
    <3> QED
      BY <2>1, <3>1 DEF Submit, Reply
  <2> QED
    BY <2>2, <2>3 DEF JobIsOwn
<1>7. CASE WritePart \/ StageBegin \/ StageWrite \/ ForkStep
  <2>1. /\ answer' = answer /\ Complete' = Complete /\ phase' = phase
        /\ job'.pc # "none" => job.pc \notin {"none", "written"} \/ job' = job
        /\ job'.req = job.req
    BY <1>7, FileKeeps, WritePartKeeps, TypeFacts
    DEF WritePart, StageBegin, StageWrite, ForkStep, ForkCapture, ForkIndex, ForkCopy,
        fileVars, NoJob, JobType
  <2> QED
    BY <2>1 DEF JobIsOwn
<1> QED
  BY <1>1, <1>2, <1>3, <1>4, <1>5, <1>6, <1>7, WriteRestRecords, UpgradeRecords
  DEF Next, JobStep

LEMMA CommittedStep ==
  ASSUME TypeOK, JobMatches, StorageInvariant, FaultsOnError, Next, TypeOK'
  PROVE  CommittedIsRecorded'
<1> USE DEF StorageInvariant
<1> DEFINE Live == {"open", "faulted", "closing"}
<1> SUFFICES ASSUME NEW r \in Requests, answer'[r] = "committed"
             PROVE  \E i \in 1 .. Len(Complete') :
                      /\ Complete'[i].req = r
                      /\ phase' \in Live => Complete'[i].seq < memory'.next
  BY DEF CommittedIsRecorded
<1>1. CASE Records
  <2>1. answer[r] = "committed" /\ UNCHANGED <<phase, memory>>
    BY <1>1 DEF Records
  <2>2. PICK i \in 1 .. Len(Complete) :
          Complete[i].req = r /\ (phase \in Live => Complete[i].seq < memory.next)
    BY <2>1 DEF CommittedIsRecorded
  <2>3. i \in 1 .. Len(Complete') /\ Complete'[i] = Complete[i]
    BY <1>1, RecordsFacts
  <2> QED
    BY <2>1, <2>2, <2>3
<1>2. CASE CommitApplies
  <2>1. /\ Complete' = Complete /\ memory'.next = memory.next + 1 /\ phase' = phase
        /\ phase \in Live /\ job.pc = "written"
    BY <1>2, FileKeeps, TypeFacts DEF CommitApplies, Applied, fileVars, JobMatches, Phases
  <2>2. Complete # <<>> /\ Last(Complete) = NewLine("whole")
    BY <2>1 DEF NextMatches
  <2>3. CASE r = job.req
    <3>1. /\ Len(Complete) \in 1 .. Len(Complete)
          /\ Complete[Len(Complete)].req = r /\ Complete[Len(Complete)].seq = memory.next
      BY <2>2, <2>3, FileReads, LastProperties DEF Last, NewLine
    <3>2. Complete[Len(Complete)].seq < memory.next + 1
      BY <3>1, TypeFacts
    <3> QED
      BY <2>1, <3>1, <3>2
  <2>4. CASE answer[r] = "committed"
    <3>1. PICK i \in 1 .. Len(Complete) :
            Complete[i].req = r /\ (phase \in Live => Complete[i].seq < memory.next)
      BY <2>4 DEF CommittedIsRecorded
    <3>2. Complete[i].seq \in Nat
      BY FileReads, ElementOfSeq, LineIsRecord
    <3> QED
      BY <2>1, <3>1, <3>2, TypeFacts
  <2> QED
    BY <2>3, <2>4, AnswersMove
<1>3. ASSUME ~CommitApplies, Complete' = Complete
      PROVE  \E i \in 1 .. Len(Complete') :
               /\ Complete'[i].req = r
               /\ phase' \in Live => Complete'[i].seq < memory'.next
  <2>1. answer[r] = "committed"
    BY <1>3, AnswersMove
  <2>2. PICK i \in 1 .. Len(Complete) :
          Complete[i].req = r /\ (phase \in Live => Complete[i].seq < memory.next)
    BY <2>1 DEF CommittedIsRecorded
  <2>3. Complete[i].seq < NextSeq(Complete)
    BY SoundBelowNext
  <2>4. CASE Open
    <3>1. phase' \in Live => memory'.next = NextSeq(Complete)
      BY <2>4, RecordedIs, TypeFacts DEF Open, Unread, NextSeq
    <3> QED
      BY <1>3, <2>2, <2>3, <3>1
  <2>5. CASE Publish /\ phase = "repairing"
    <3>1. memory' = memory /\ memory.next = NextSeq(Complete)
      BY <2>5 DEF Publish, NextMatches, JobMatches
    <3> QED
      BY <1>3, <2>2, <2>3, <3>1
  <2>6. CASE phase' \notin Live
    BY <1>3, <2>2, <2>6
  <2>7. CASE phase' \in Live /\ ~Open /\ ~(Publish /\ phase = "repairing")
    <3>1. memory' = memory /\ phase \in Live
      BY <1>3, <2>7
      DEF Next, JobStep, Submit, Close, CloseEnds, Stop, StartCommit, WritePart, WriteRest,
          StageBegin, StageWrite, Publish, JobFails, ForkStep, ForkCapture, ForkIndex, ForkCopy
    <3> QED
      BY <1>3, <2>2, <3>1
  <2> QED
    BY <2>4, <2>5, <2>6, <2>7
<1> QED
  BY <1>1, <1>2, <1>3, FileSteps

----------------------------------------------------------------------------
(* Forks.                                                                   *)

\* A fork, while no step of its own is taken: the lines below its bound stay.
LEMMA ForkWaits ==
  ASSUME TypeOK, JobMatches, StorageInvariant, FaultsOnError, Next, TypeOK',
         fork' = fork
  PROVE  ForkMatches'
<1> USE DEF StorageInvariant
<1>1. format' = format \/ format' = "v4"
  BY DEF Next, JobStep, Open, Submit, Close, CloseEnds, Stop, StartCommit, WritePart, WriteRest,
         CommitApplies, StageBegin, StageWrite, Publish, JobFails, ForkStep, ForkCapture, ForkIndex,
         ForkCopy, fileVars
<1>2. /\ NextSeq(Complete) \in Nat /\ fork.bound \in Nat
      /\ NextSeq(Complete') \in Nat /\ NextSeq(Complete) <= NextSeq(Complete')
  <2>1. NextSeq(Complete) \in Nat /\ fork.bound \in Nat
    BY FileReads, NextSeqProperties, TypeFacts
  <2>2. CASE Records
    BY <2>1, <2>2, RecordsFacts
  <2> QED
    BY <2>1, <2>2, FileSteps
<1>3. ASSUME NEW i \in 1 .. Len(Complete)
      PROVE  i \in 1 .. Len(Complete') /\ Complete'[i] = Complete[i]
  BY RecordsFacts, FileSteps
<1>4. ASSUME fork.pc = "indexed"
      PROVE  Before(Complete', fork.bound) = Before(Complete, fork.bound)
  <2>1. CASE Records
    <3>1. fork.bound # 0 /\ fork.bound <= NewLine("whole").seq /\ NewLine("whole") \in LineType
      BY <1>4, <2>1, RecordsFacts DEF ForkMatches
    <3>2. NewLine("whole").seq \in Nat
      BY <3>1, LineIsRecord
    <3> QED
      BY <1>2, <2>1, <3>1, <3>2, FileReads, BeforeAppend DEF Records
  <2> QED
    BY <2>1, FileSteps
<1>5. \A r \in Requests : answer[r] # "new" => answer'[r] # "new"
  BY AnswersMove
<1>6. /\ \A r \in ToSet(fork.index) : r \in Requests
      /\ \A r \in ToSet(fork.copy) : r \in Requests
  <2>1. /\ ToSet(fork.index) = {fork.index[i] : i \in 1 .. Len(fork.index)}
        /\ ToSet(fork.copy) = {fork.copy[i] : i \in 1 .. Len(fork.copy)}
    BY TypeFacts, LenProperties DEF ToSet
  <2> QED
    BY <2>1, TypeFacts, ElementOfSeq
<1>7. fork.pc \in {"captured", "indexed"} =>
        /\ fork.from = "v4" => format' = "v4"
        /\ fork.bound <= NextSeq(Complete')
  BY <1>1, <1>2 DEF ForkMatches
<1>8. ASSUME fork.pc = "captured", NEW r \in fork.known
      PROVE  \E i \in 1 .. Len(Complete') :
               Complete'[i].req = r /\ (fork.bound # 0 => Complete'[i].seq < fork.bound)
  <2>1. PICK i \in 1 .. Len(Complete) :
          Complete[i].req = r /\ (fork.bound # 0 => Complete[i].seq < fork.bound)
    BY <1>8 DEF ForkMatches
  <2> QED
    BY <1>3, <2>1
<1>9. ASSUME fork.pc = "indexed", format' = fork.from
      PROVE  fork.index = Transactions(Before(Complete', fork.bound))
  <2>1. format = fork.from
    BY <1>1, <1>9, TypeFacts DEF ForkMatches
  <2> QED
    BY <1>4, <1>9, <2>1 DEF ForkMatches
<1>10. fork.pc = "indexed" => \A r \in ToSet(fork.index) : answer'[r] # "new"
  BY <1>5, <1>6 DEF ForkMatches
<1>11. ForkIsSnapshot'
  BY <1>5, <1>6 DEF ForkMatches, ForkIsSnapshot
<1>12. fork.pc = "captured" => (fork.bound # 0 => fork.from = "v4")
  BY DEF ForkMatches
<1>13. fork.pc = "indexed" => fork.bound # 0 /\ fork.known \subseteq ToSet(fork.index)
  BY DEF ForkMatches
<1> QED
  BY <1>7, <1>8, <1>9, <1>10, <1>11, <1>12, <1>13 DEF ForkMatches

LEMMA CaptureStep ==
  ASSUME TypeOK, JobMatches, StorageInvariant, ForkCapture
  PROVE  ForkMatches'
<1> USE DEF StorageInvariant
<1>1. Complete' = Complete /\ format' = format
  BY FileKeeps DEF ForkCapture, fileVars
<1>2. /\ fork'.pc = "captured" /\ fork'.known = Acknowledged
      /\ \/ /\ phase \in {"open", "faulted", "closing"} /\ memory.backing = "v4"
            /\ fork'.bound = memory.next /\ fork'.from = "v4"
         \/ fork'.bound = 0 /\ fork'.from = format
  BY DEF ForkCapture, NoFork
<1>3. ASSUME NEW r \in Acknowledged
      PROVE  \E i \in 1 .. Len(Complete) :
               /\ Complete[i].req = r
               /\ phase \in {"open", "faulted", "closing"} => Complete[i].seq < memory.next
  BY <1>3 DEF Acknowledged, CommittedIsRecorded
<1>4. NextSeq(Complete) \in Nat
  BY FileReads, NextSeqProperties
<1>5. /\ fork'.from = "v4" => format = "v4"
      /\ fork'.bound <= NextSeq(Complete)
      /\ fork'.bound # 0 => fork'.from = "v4"
  BY <1>2, <1>4, TypeFacts DEF JobMatches, NextMatches
<1>6. \A r \in fork'.known : \E i \in 1 .. Len(Complete) :
        Complete[i].req = r /\ (fork'.bound # 0 => Complete[i].seq < fork'.bound)
  BY <1>2, <1>3
<1>7. ForkIsSnapshot'
  BY <1>2 DEF ForkIsSnapshot
<1> QED
  BY <1>1, <1>2, <1>5, <1>6, <1>7 DEF ForkMatches

\* What a pass reads: all that was committed below the bound, and nothing that
\* was not submitted.
LEMMA PassReads ==
  ASSUME TypeOK, JobMatches, StorageInvariant, fork.pc = "captured"
  PROVE  LET index == Transactions(Before(Complete, fork.bound))
         IN /\ fork.known \subseteq ToSet(index)
            /\ \A r \in ToSet(index) : answer[r] # "new"
<1> USE DEF StorageInvariant
<1> DEFINE seen == Before(Complete, fork.bound)
<1>1. /\ seen \in Seq(LineType) /\ Len(seen) \in 0 .. Len(Complete)
      /\ \A i \in 1 .. Len(seen) : seen[i] = Complete[i]
      /\ EndsAt(Complete, fork.bound, Len(seen))
  BY FileReads, TypeFacts, BeforeProperties
<1>2. Len(Complete) \in Nat /\ fork.bound \in Nat
  BY FileReads, TypeFacts
<1> HIDE DEF seen
<1>3. ASSUME NEW r \in fork.known PROVE r \in ToSet(Transactions(seen))
  <2>1. PICK i \in 1 .. Len(Complete) :
          Complete[i].req = r /\ (fork.bound # 0 => Complete[i].seq < fork.bound)
    BY <1>3 DEF ForkMatches
  <2>2. ASSUME i > Len(seen) PROVE FALSE
    <3>1. Len(seen) + 1 \in 1 .. Len(Complete) /\ Len(seen) < Len(Complete)
      BY <1>1, <1>2, <2>2
    <3>2. fork.bound # 0 /\ Complete[Len(seen) + 1].seq >= fork.bound
      BY <1>1, <3>1 DEF EndsAt, Reaches
    <3>3. Complete[Len(seen) + 1].seq \in Nat /\ Complete[i].seq \in Nat
      BY <3>1, FileReads, ElementOfSeq, LineIsRecord
    <3>4. Len(seen) + 1 < i => Complete[Len(seen) + 1].seq < Complete[i].seq
      BY <3>1 DEF LinesAreSound
    <3>5. Len(seen) + 1 < i \/ Len(seen) + 1 = i
      BY <1>1, <1>2, <2>2
    <3> QED
      BY <1>2, <2>1, <3>2, <3>3, <3>4, <3>5
  <2>3. i \in 1 .. Len(seen)
    BY <1>1, <1>2, <2>2
  <2>4. seen[i].req = r
    BY <1>1, <2>1, <2>3
  <2> QED
    BY <1>1, <2>3, <2>4, TransactionsProperties
<1>4. ASSUME NEW r \in ToSet(Transactions(seen)) PROVE answer[r] # "new"
  <2>1. PICK i \in 1 .. Len(seen) : seen[i].req = r
    BY <1>1, <1>4, TransactionsProperties
  <2>2. i \in 1 .. Len(Complete) /\ Complete[i].req = r
    BY <1>1, <1>2, <2>1
  <2> QED
    BY <2>2 DEF LinesAreSound
<1> QED
  BY <1>3, <1>4 DEF seen

LEMMA IndexStep ==
  ASSUME TypeOK, JobMatches, StorageInvariant, ForkIndex
  PROVE  ForkMatches'
<1> USE DEF StorageInvariant
<1> DEFINE seen == Before(Complete, fork.bound)
<1>1. Complete' = Complete /\ format' = format /\ answer' = answer /\ fork.pc = "captured"
  BY FileKeeps DEF ForkIndex, fileVars
<1>2. CASE ~CanRead(seen)
  <2>1. fork' = [fork EXCEPT !.pc = "failed"]
    BY <1>2 DEF ForkIndex
  <2>2. fork'.pc = "failed"
    BY <2>1, TypeFacts DEF ForkType
  <2> QED
    BY <2>2 DEF ForkMatches, ForkIsSnapshot
<1>3. CASE CanRead(seen)
  <2>1. /\ fork' = [fork EXCEPT !.pc = "indexed", !.index = Transactions(seen),
                      !.bound = IF fork.bound = 0 THEN NextSeq(seen) ELSE fork.bound]
        /\ format = fork.from
    BY <1>3 DEF ForkIndex, CanRead
  <2>2. /\ fork'.pc = "indexed" /\ fork'.index = Transactions(seen) /\ fork'.from = fork.from
        /\ fork'.known = fork.known
        /\ fork'.bound = IF fork.bound = 0 THEN NextSeq(seen) ELSE fork.bound
    <3> HIDE DEF seen
    <3> QED
      BY <2>1, TypeFacts DEF ForkType
  <2>3. /\ fork'.bound # 0 /\ fork'.bound <= NextSeq(Complete)
        /\ Before(Complete, fork'.bound) = seen
    <3>1. CASE fork.bound = 0
      <4>1. seen = Complete /\ fork'.bound = NextSeq(Complete)
        BY <2>2, <3>1, FileReads, BeforeProperties
      <4>2. NextSeq(Complete) \in Nat \ {0} /\ Len(Complete) \in 0 .. Len(Complete)
        BY FileReads, NextSeqProperties
      <4>3. EndsAt(Complete, NextSeq(Complete), Len(Complete))
        <5>1. ASSUME NEW i \in 1 .. Len(Complete)
              PROVE  ~Reaches(Complete, NextSeq(Complete), i)
          <6>1. Complete[i].seq < NextSeq(Complete) /\ Complete[i].seq \in Nat
            BY SoundBelowNext, FileReads, ElementOfSeq, LineIsRecord
          <6> QED
            BY <4>2, <6>1 DEF Reaches
        <5> QED
          BY <4>2, <5>1 DEF EndsAt
      <4>4. Before(Complete, NextSeq(Complete)) = SubSeq(Complete, 1, Len(Complete))
        BY <4>2, <4>3, FileReads, BeforeIs
      <4>5. SubSeq(Complete, 1, Len(Complete)) = Complete
        BY FileReads, SubSeqFull
      <4> QED
        BY <4>1, <4>2, <4>4, <4>5
    <3>2. CASE fork.bound # 0
      BY <1>1, <2>2, <3>2 DEF ForkMatches
    <3> QED
      BY <3>1, <3>2
  <2>4. /\ fork.known \subseteq ToSet(Transactions(seen))
        /\ \A r \in ToSet(Transactions(seen)) : answer[r] # "new"
    BY <1>1, PassReads
  <2>5. fork'.from = "v4" => format = "v4"
    BY <2>1, <2>2
  <2> HIDE DEF seen
  <2> QED
    BY <1>1, <2>2, <2>3, <2>4, <2>5 DEF ForkMatches, ForkIsSnapshot
<1> QED
  BY <1>2, <1>3

LEMMA CopyStep ==
  ASSUME TypeOK, JobMatches, StorageInvariant, ForkCopy
  PROVE  ForkMatches'
<1> USE DEF StorageInvariant
<1> DEFINE seen == Before(Complete, fork.bound)
<1>1. answer' = answer /\ fork.pc = "indexed"
  BY DEF ForkCopy
<1>2. CASE ~CanRead(seen)
  <2>1. fork' = [fork EXCEPT !.pc = "failed"]
    BY <1>2 DEF ForkCopy
  <2>2. fork'.pc = "failed"
    BY <2>1, TypeFacts DEF ForkType
  <2> QED
    BY <2>2 DEF ForkMatches, ForkIsSnapshot
<1>3. CASE CanRead(seen)
  <2>1. /\ fork' = [fork EXCEPT !.pc = "done", !.copy = Transactions(seen)]
        /\ format = fork.from
    BY <1>3 DEF ForkCopy, CanRead
  <2>2. fork.index = Transactions(seen)
    BY <1>1, <2>1 DEF ForkMatches
  <2>3. /\ fork'.pc = "done" /\ fork'.index = fork.index /\ fork'.copy = fork.index
        /\ fork'.known = fork.known
    <3> HIDE DEF seen
    <3> QED
      BY <2>1, <2>2, TypeFacts DEF ForkType
  <2>4. ForkIsSnapshot'
    BY <1>1, <2>3 DEF ForkMatches, ForkIsSnapshot
  <2> QED
    BY <2>3, <2>4 DEF ForkMatches
<1> QED
  BY <1>2, <1>3

LEMMA ForkStepKeeps ==
  ASSUME TypeOK, JobMatches, StorageInvariant, FaultsOnError, Next, TypeOK'
  PROVE  ForkMatches'
<1>1. CASE ForkStep
  BY <1>1, CaptureStep, IndexStep, CopyStep DEF ForkStep
<1>2. CASE Stop
  <2>1. fork'.pc = "failed" \/ fork' = fork
    BY <1>2, TypeFacts DEF Stop, ForkType
  <2>2. fork'.pc = "failed" => ForkMatches'
    BY DEF ForkMatches, ForkIsSnapshot
  <2> QED
    BY <2>1, <2>2, ForkWaits
<1>3. ASSUME ~ForkStep, ~Stop PROVE fork' = fork
  BY <1>3 DEF Next, JobStep, Open, Submit, Close, CloseEnds, StartCommit, WritePart, WriteRest,
     CommitApplies, StageBegin, StageWrite, Publish, JobFails
<1> QED
  BY <1>1, <1>2, <1>3, ForkWaits

----------------------------------------------------------------------------
(* The invariant, and what follows from it.                                 *)

LEMMA StorageInit == Init => StorageInvariant
<1> SUFFICES ASSUME Init PROVE StorageInvariant
  OBVIOUS
<1>1. /\ lines = <<>> /\ phase = "closed" /\ queue = <<>> /\ job.pc = "none" /\ fork.pc = "none"
      /\ answer = [r \in Requests |-> "new"]
  BY DEF Init, NoJob, NoFork
<1>2. Complete = <<>> /\ ~Torn /\ Len(<<>>) = 0
  BY <1>1, TypesInit, FileReads, EmptySeq DEF Torn
<1>3. LinesAreSound /\ TornMatches /\ QueueIsOwn
  BY <1>1, <1>2 DEF LinesAreSound, TornMatches, QueueIsOwn
<1>4. NextMatches /\ LogMatches /\ JobIsOwn /\ CommittedIsRecorded
  BY <1>1, <1>2 DEF NextMatches, LogMatches, JobIsOwn, CommittedIsRecorded
<1>5. ForkMatches
  BY <1>1 DEF ForkMatches, ForkIsSnapshot
<1> QED
  BY <1>3, <1>4, <1>5 DEF StorageInvariant

LEMMA StorageNext ==
  ASSUME FaultsOnError
  PROVE  TypeOK /\ JobMatches /\ StorageInvariant /\ [Next]_vars
           => TypeOK' /\ JobMatches' /\ StorageInvariant'
<1> SUFFICES ASSUME TypeOK, JobMatches, StorageInvariant, [Next]_vars
             PROVE  TypeOK' /\ JobMatches' /\ StorageInvariant'
  OBVIOUS
<1>1. TypeOK' /\ JobMatches'
  BY TypesNext
<1>2. CASE Next
  BY <1>1, <1>2, LinesStep, TornStep, NextStep, LogStep, QueueStep, OwnStep, CommittedStep,
     ForkStepKeeps DEF StorageInvariant
<1>3. CASE UNCHANGED vars
  <2> USE <1>3 DEF vars, fileVars, StorageInvariant
  <2>1. Complete' = Complete /\ Torn' = Torn /\ Last(lines') = Last(lines)
    BY FileKeeps
  <2>2. (NewLine("torn"))' = NewLine("torn") /\ (NewLine("whole"))' = NewLine("whole")
        /\ StagedLines' = StagedLines
    BY <2>1 DEF NewLine, StagedLines
  <2>3. LinesAreSound' /\ TornMatches' /\ QueueIsOwn'
    BY <2>1, <2>2 DEF LinesAreSound, TornMatches, QueueIsOwn
  <2>4. NextMatches' /\ LogMatches' /\ JobIsOwn' /\ CommittedIsRecorded'
    BY <2>1, <2>2 DEF NextMatches, LogMatches, JobIsOwn, CommittedIsRecorded
  <2>5. ForkMatches'
    BY <2>1 DEF ForkMatches, ForkIsSnapshot
  <2> QED
    BY <1>1, <2>3, <2>4, <2>5
<1> QED
  BY <1>1, <1>2, <1>3

LEMMA StorageInductive ==
  ASSUME FaultsOnError
  PROVE  Spec => [](TypeOK /\ JobMatches /\ StorageInvariant)
<1>1. Init => TypeOK /\ JobMatches /\ StorageInvariant
  BY TypesInit, StorageInit
<1>2. TypeOK /\ JobMatches /\ StorageInvariant /\ [Next]_vars
        => (TypeOK /\ JobMatches /\ StorageInvariant)'
  BY StorageNext
<1> QED
  BY <1>1, <1>2, PTL DEF Spec

\* When every write comes from a harness, what an open session answers from memory
\* is what its file holds whenever no commit is under way, and the next sequence
\* number is free in the file.
THEOREM MemoryMatchesFile ==
  ASSUME FaultsOnError
  PROVE  Spec => []MemoryIsFile
<1>1. TypeOK /\ JobMatches /\ StorageInvariant => MemoryIsFile
  <2> SUFFICES ASSUME TypeOK, JobMatches, StorageInvariant, phase = "open", job = NoJob
               PROVE  memory.log = Recorded /\ memory.next >= NextSeq(lines) /\ ~Torn
    BY DEF MemoryIsFile
  <2>1. job.pc = "none"
    BY DEF NoJob
  <2>2. memory.log = Transactions(Complete) /\ memory.next = NextSeq(Complete) /\ ~Torn
    BY <2>1 DEF StorageInvariant, LogMatches, NextMatches, TornMatches
  <2>3. Complete = lines /\ Recorded = Transactions(Complete) /\ memory.next \in Nat
    BY <2>2, FileReads, RecordedIs, TypeFacts DEF StorageInvariant
  <2> QED
    BY <2>2, <2>3
<1> QED
  BY <1>1, StorageInductive, PTL

\* A fork holds what its source had committed when it was asked, in both of its
\* passes, whatever is appended, repaired or upgraded between them.
THEOREM ForksAreSnapshots ==
  ASSUME FaultsOnError
  PROVE  Spec => []ForkIsSnapshot
<1>1. StorageInvariant => ForkIsSnapshot
  BY DEF StorageInvariant, ForkMatches
<1> QED
  BY <1>1, StorageInductive, PTL

\* docs/harness.md:362 holds when every write comes from a harness: nothing is
\* written behind a torn line.
THEOREM NothingFollowsTornLine ==
  ASSUME FaultsOnError
  PROVE  Spec => []TornLineIsLast
<1>1. TypeOK /\ JobMatches /\ StorageInvariant => TornLineIsLast
  <2> SUFFICES ASSUME TypeOK, JobMatches, StorageInvariant, NEW i \in DOMAIN lines
               PROVE  lines[i].is # "mixed"
    BY DEF TornLineIsLast
  <2>1. /\ lines \in Seq(LineType) /\ Complete = Wholes(lines) /\ Torn = EndsTorn(lines)
        /\ i \in 1 .. Len(lines) /\ Len(lines) \in Nat
    BY FileReads, TypeFacts, LenProperties
  <2>2. CASE i \in 1 .. Len(Complete)
    <3>1. Complete[i] = lines[i]
      BY <2>1, <2>2, WholesProperties
    <3> QED
      BY <2>2, <3>1 DEF StorageInvariant, LinesAreSound
  <2>3. CASE i \notin 1 .. Len(Complete)
    <3>1. Len(Complete) = IF Torn THEN Len(lines) - 1 ELSE Len(lines)
      BY <2>1, WholesProperties
    <3>2. Torn /\ i = Len(lines)
      BY <2>1, <2>3, <3>1
    <3> QED
      BY <3>2 DEF Torn, Last
  <2> QED
    BY <2>2, <2>3
<1> QED
  BY <1>1, StorageInductive, PTL

----------------------------------------------------------------------------
(* The session store implements TransactionLog.                             *)

LEMMA RecordedSteps ==
  ASSUME TypeOK, JobMatches, StorageInvariant, FaultsOnError, Next, TypeOK', LinesAreSound'
  PROVE  \/ Recorded' = Recorded
         \/ Records /\ Recorded' = Append(Recorded, job.req)
<1>1. Recorded = Transactions(Complete) /\ Replayable
  BY RecordedIs DEF StorageInvariant
<1>2. Replayable = Replays(Complete) /\ Replayable' = Replays(Complete')
  BY DEF Replayable, Replays
<1>3. Recorded' = IF format' = "v4" /\ Replays(Complete') THEN Transactions(Complete') ELSE <<>>
  BY <1>2 DEF Recorded, Transactions
<1>4. CASE Records
  <2>1. Complete' \in Seq(LineType) /\ format' = "v4"
    BY <1>4, RecordsFacts DEF Records
  <2>2. Increasing(Complete') /\ \A i \in 1 .. Len(Complete') : Complete'[i].is = "whole"
    BY DEF LinesAreSound, Increasing
  <2>3. Recorded' = Transactions(Complete')
    BY <1>3, <2>1, <2>2, SoundReplays
  <2>4. Transactions(Complete') = Append(Transactions(Complete), job.req)
    BY <1>4, RecordsFacts, FileReads, TransactionsProperties DEF Records
  <2> QED
    BY <1>1, <1>4, <2>3, <2>4
<1>5. CASE Complete' = Complete
  <2>1. format' = "v4" => Recorded' = Recorded
    BY <1>1, <1>2, <1>3, <1>5
  <2>2. format' # "v4" => format = format' /\ Recorded' = Recorded
    <3>1. format' = format \/ format' = "v4"
      BY DEF Next, JobStep, Open, Submit, Close, CloseEnds, Stop, StartCommit, WritePart,
             WriteRest, CommitApplies, StageBegin, StageWrite, Publish, JobFails, ForkStep,
             ForkCapture, ForkIndex, ForkCopy, fileVars
    <3> QED
      BY <1>3, <3>1 DEF Recorded
  <2> QED
    BY <2>1, <2>2
<1> QED
  BY <1>4, <1>5, FileSteps

LEMMA LoggedIs ==
  ASSUME TypeOK, JobMatches, StorageInvariant, NEW r
  PROVE  Abstract!Logged(r) <=> \E i \in 1 .. Len(Complete) : Complete[i].req = r
<1>1. Recorded = Transactions(Complete)
  BY RecordedIs DEF StorageInvariant
<1>2. /\ DOMAIN Transactions(Complete) = 1 .. Len(Complete)
      /\ \A i \in 1 .. Len(Complete) : Transactions(Complete)[i] = Complete[i].req
  BY FileReads, TransactionsProperties
<1>3. Abstract!Logged(r) <=> \E i \in DOMAIN Recorded : Recorded[i] = r
  BY DEF Abstract!Logged
<1> QED
  BY <1>1, <1>2, <1>3

LEMMA PromiseStep ==
  ASSUME TypeOK, JobMatches, StorageInvariant, FaultsOnError, Next, TypeOK', LinesAreSound'
  PROVE  Abstract!Change \/ UNCHANGED <<Recorded, answer>>
<1> USE DEF StorageInvariant
<1>1. CASE Records
  <2>1. job.req \in Requests /\ answer[job.req] = "pending" /\ answer' = answer
    BY <1>1, RecordsFacts DEF Records
  <2>2. ~Abstract!Logged(job.req)
    BY <1>1, LoggedIs DEF Records, JobIsOwn
  <2>3. CASE Recorded' = Append(Recorded, job.req)
    BY <2>1, <2>2, <2>3 DEF Abstract!Change, Abstract!Persist
  <2>4. CASE Recorded' = Recorded
    BY <2>1, <2>4
  <2> QED
    BY <2>3, <2>4, RecordedSteps
<1>2. ASSUME ~Records PROVE Recorded' = Recorded
  BY <1>2, RecordedSteps
<1>3. CASE CommitApplies
  <2>1. job.req \in Requests /\ answer[job.req] = "pending" /\ job.pc = "written"
    BY <1>3 DEF CommitApplies, JobIsOwn, JobMatches
  <2>2. Abstract!Logged(job.req)
    <3>1. Complete # <<>> /\ Last(Complete).req = job.req
      BY <2>1 DEF NextMatches, NewLine
    <3>2. Len(Complete) \in 1 .. Len(Complete)
      BY <3>1, FileReads, LastProperties
    <3> QED
      BY <3>1, <3>2, LoggedIs DEF Last
  <2>3. answer' = [answer EXCEPT ![job.req] = "committed"]
    BY <1>3, TypeFacts DEF CommitApplies, Reply
  <2>4. ~Records
    BY <2>1 DEF Records
  <2> QED
    BY <1>2, <2>1, <2>2, <2>3, <2>4 DEF Abstract!Change, Abstract!Acknowledge
<1>4. CASE \E r \in Requests : Submit(r)
  <2>1. PICK r \in Requests : Submit(r)
    BY <1>4
  <2>2. answer[r] = "new" /\ lines' = lines /\ ~Records
    <3>1. answer[r] = "new" /\ answer' # answer
      BY <2>1, TypeFacts DEF Submit, Reply
    <3> QED
      BY <2>1, <3>1 DEF Submit, fileVars, Records
  <2>3. CASE phase = "open"
    <3>1. answer' = [answer EXCEPT ![r] = "pending"]
      BY <2>1, <2>3, TypeFacts DEF Submit, Reply
    <3> QED
      BY <1>2, <2>2, <3>1 DEF Abstract!Change, Abstract!Submit
  <2>4. CASE phase # "open"
    <3>1. answer' = [s \in Requests |-> IF s \in {r} THEN "rejected" ELSE answer[s]]
      BY <2>1, <2>4 DEF Submit, Reply
    <3> QED
      BY <1>2, <2>2, <3>1 DEF Abstract!Change, Abstract!Refuse
  <2> QED
    BY <2>3, <2>4
<1>5. ToSet(queue) \in SUBSET Requests /\ \A r \in ToSet(queue) : answer[r] = "pending"
  <2>1. ToSet(queue) = {queue[i] : i \in 1 .. Len(queue)}
    BY TypeFacts, LenProperties DEF ToSet
  <2> QED
    BY <2>1, TypeFacts, ElementOfSeq DEF QueueIsOwn
<1>6. ASSUME NEW R \in SUBSET Requests, \A r \in R : answer[r] = "pending",
             answer' = Reply(R, "rejected"), Recorded' = Recorded
      PROVE  Abstract!Change
  BY <1>6 DEF Abstract!Change, Abstract!Refuse, Reply
<1>7. CASE Close
  <2>1. ~Records \/ answer' = answer
    BY DEF Records
  <2>2. answer' = Reply(ToSet(queue), "rejected")
    BY <1>7 DEF Close
  <2> QED
    BY <1>1, <1>2, <1>5, <1>6, <2>2
<1>8. CASE JobFails
  <2>1. \/ answer' = answer
        \/ /\ phase # "repairing"
           /\ \/ answer' = Reply({job.req} \union ToSet(queue), "rejected")
              \/ answer' = Reply({job.req}, "rejected")
    BY <1>8 DEF JobFails
  <2>2. phase # "repairing" => job.req \in Requests /\ answer[job.req] = "pending"
    BY <1>8 DEF JobFails, JobIsOwn, JobMatches
  <2>3. CASE phase # "repairing" /\ answer' = Reply({job.req} \union ToSet(queue), "rejected")
    <3>1. /\ {job.req} \union ToSet(queue) \in SUBSET Requests
          /\ \A r \in {job.req} \union ToSet(queue) : answer[r] = "pending"
      BY <1>5, <2>2, <2>3
    <3> QED
      BY <1>1, <1>2, <1>6, <2>3, <3>1
  <2>4. CASE phase # "repairing" /\ answer' = Reply({job.req}, "rejected")
    <3>1. {job.req} \in SUBSET Requests /\ \A r \in {job.req} : answer[r] = "pending"
      BY <2>2, <2>4
    <3> QED
      BY <1>1, <1>2, <1>6, <2>4, <3>1
  <2> QED
    BY <1>1, <1>2, <2>1, <2>3, <2>4
<1>9. CASE Stop
  BY <1>1, <1>2, <1>9 DEF Stop, Abstract!Change, Abstract!Stop
<1>10. ASSUME ~(\E r \in Requests : Submit(r)), ~CommitApplies, ~JobFails, ~Close, ~Stop
       PROVE  answer' = answer
  BY <1>10 DEF Next, Open, CloseEnds, JobStep, StartCommit, WritePart, WriteRest, StageBegin,
     StageWrite, Publish, ForkStep, ForkCapture, ForkIndex, ForkCopy
<1> QED
  BY <1>1, <1>2, <1>3, <1>4, <1>7, <1>8, <1>9, <1>10

\* When every write comes from a harness, the file keeps the promise of a session
\* store: what a caller was told is committed is read by every later process,
\* whole, once and in order, through torn lines, failed calls, repairs, the upgrade
\* of a legacy file and restarts.
THEOREM StorageKeepsPromise ==
  ASSUME FaultsOnError
  PROVE  Spec => KeepsPromise
<1>1. Init => Abstract!Begin
  <2> SUFFICES ASSUME Init PROVE Recorded = <<>> /\ answer = [r \in Requests |-> "new"]
    BY DEF Abstract!Begin
  <2>1. lines = <<>> /\ answer = [r \in Requests |-> "new"]
    BY DEF Init
  <2>2. Complete = <<>>
    BY <2>1, TypesInit, FileReads DEF Torn
  <2>3. Recorded = <<>>
    BY <2>2 DEF Recorded, Transactions
  <2> QED
    BY <2>1, <2>3
<1>2. TypeOK /\ JobMatches /\ StorageInvariant /\ [Next]_vars
        => [Abstract!Change]_<<Recorded, answer>>
  <2> SUFFICES ASSUME TypeOK, JobMatches, StorageInvariant, [Next]_vars
               PROVE  [Abstract!Change]_<<Recorded, answer>>
    OBVIOUS
  <2>1. CASE Next
    <3>1. TypeOK' /\ LinesAreSound'
      BY <2>1, StorageNext DEF StorageInvariant
    <3> QED
      BY <2>1, <3>1, PromiseStep
  <2>2. CASE UNCHANGED vars
    <3>1. Complete' = Complete /\ format' = format /\ answer' = answer
      BY <2>2, FileKeeps DEF vars, fileVars
    <3>2. Recorded' = Recorded
      BY <3>1 DEF Recorded, Replayable
    <3> QED
      BY <3>1, <3>2
  <2> QED
    BY <2>1, <2>2
<1> QED
  BY <1>1, <1>2, StorageInductive, PTL DEF Spec, KeepsPromise, Abstract!Promise
=============================================================================
