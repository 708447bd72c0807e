--------------------------- MODULE StructuralProofs ---------------------------
(****************************************************************************)
(* Compaction and navigation, for any stored transcripts, and any number of *)
(* operations, summaries, entries of the host and crashes: type             *)
(* correctness, one compaction for a cause, and summaries that stand for    *)
(* what they replace.                                                       *)
(****************************************************************************)
EXTENDS StructuralDrive, SequenceTheorems, WellFoundedInduction, TLAPS

----------------------------------------------------------------------------
(* The inductive invariants.                                                *)

PreparationType ==
  [from : 0 .. Len(tree), kept : SUBSET Ids, history : SUBSET Ids, prefix : SUBSET Ids]
PcType   == {"off", "dispatch", "checkpoint", "end_hook", "answer", "respond",
             "deciding", "request", "summarized", "timer"}
BackType == {"none", "stop", "tools", "retry", "fatal", "overflow", "summary"}
PassType == [pc : PcType, prep : {NoPreparation} \union PreparationType, back : BackType]
NavType  == [asked : BOOLEAN, target : 0 .. Len(tree), summarize : BOOLEAN,
             prep : {NoPreparation} \union PreparationType]

\* What is stored of an entry refers to older entries.
EntriesLookBack ==
  /\ tree \in Seq(EntryType)
  /\ \A e \in Ids : /\ tree[e].branch \union tree[e].told \union tree[e].tail \subseteq 1 .. (e - 1)
                    /\ tree[e].from \in 0 .. (e - 1)

\* What an operation is about agrees with its leaf.
OpMatches ==
  /\ Accepted <= MaxOps
  /\ Idle => op = NoOp
  /\ op.at \in {"checkpoint", "ready", "pending"} => op.boundary = "none"
  /\ op.at \in Summing => op.boundary # "none"
  /\ op.at = "navigation.ready_to_commit" => op.boundary = "navigation"

\* Where a pass is agrees with the leaf it has read, and only a checkpoint and a
\* response carry a preparation.
PassMatches ==
  /\ pass \in PassType
  /\ pass.pc \notin {"checkpoint", "respond"} => pass.prep = NoPreparation
  /\ pass.pc = "checkpoint" => op.at = "checkpoint"
  /\ pass.pc = "end_hook" => \/ op.at = "checkpoint"
                             \/ op.at = "summary.deciding" /\ op.boundary = "threshold"
  /\ pass.pc \in {"answer", "respond"} => op.at = "pending"
  /\ pass.pc = "deciding" => op.at = "summary.deciding"
  /\ pass.pc \in {"request", "summarized"} => op.at = "summary.effect_pending"
  /\ pass.pc = "timer" => op.at = "summary.retry_wait"
  /\ pass.pc = "respond" /\ pass.back \in {"tools", "retry"} => turns < MaxTurns

NavMatches == nav \in NavType /\ (nav.asked => nav.prep # NoPreparation)

\* The inductive invariant of the types.
StructuralInvariant ==
  TypeOK /\ EntriesLookBack /\ OpMatches /\ PassMatches /\ NavMatches

\* What the operation was compacted for: for a threshold there is a summary
\* behind the trigger before it is asked for again, an overflow is not recovered
\* again until there is another trigger.
CausesMatch ==
  /\ causes \subseteq {"threshold", "overflow"} \X (0 .. Len(tree))
  /\ Idle => causes = {}
  /\ <<"overflow", op.trigger>> \in causes => op.used
  /\ <<"threshold", op.trigger>> \in causes /\ op.at = "checkpoint" /\ ~op.cancelled =>
       Newest(tip) > op.trigger
  /\ pass.pc = "checkpoint" /\ pass.prep # NoPreparation => Newest(tip) <= op.trigger
  /\ pass.pc = "respond" /\ pass.prep # NoPreparation => ~op.used

\* A preparation divides the context of the tip.
Divides(p) == Spoken(p.history \union p.prefix \union p.kept) = Context(tip)

\* What was prepared still fits the tip it will be placed at, or the branch that
\* its navigation leaves.
OpFits ==
  /\ op.at \in Summing /\ op.boundary # "navigation" => Divides(op.prep)
  /\ op.at \in Summing /\ op.boundary = "navigation" =>
       op.prep.history = Abandoned(op.source, op.target)
PassFits == pass.prep # NoPreparation => Divides(pass.prep)
NavFits  == nav.asked => nav.prep.history = Abandoned(nav.prep.from, nav.target)
PreparationsFit == OpFits /\ PassFits /\ NavFits

----------------------------------------------------------------------------
(* Least and greatest entries.                                              *)

LEMMA NoLess ==
  ASSUME NEW S, S \subseteq Nat, S # {}
  PROVE  \E x \in S : \A y \in S : x <= y
<1>1. PICK x \in S : \A y \in S : <<y, x>> \notin OpToRel(<, Nat)
  BY NatLessThanWellFounded, WFMin
<1>2. ASSUME NEW y \in S PROVE x <= y
  <2>1. x \in Nat /\ y \in Nat
    OBVIOUS
  <2>2. ASSUME y < x PROVE FALSE
    <3>1. <<y, x>> \in Nat \X Nat /\ <<y, x>>[1] < <<y, x>>[2]
      BY <2>1, <2>2
    <3>2. <<y, x>> \in OpToRel(<, Nat)
      BY <3>1 DEF OpToRel
    <3> QED
      BY <1>1, <3>2
  <2> QED
    BY <2>1, <2>2
<1> QED
  BY <1>2

LEMMA MinIsLeast ==
  ASSUME NEW S, S \subseteq Nat, S # {}
  PROVE  Min(S) \in S /\ \A y \in S : Min(S) <= y
  BY NoLess DEF Min

LEMMA MaxIsGreatest ==
  ASSUME NEW S, NEW n \in Nat, S \subseteq 0 .. n, S # {}
  PROVE  Max(S) \in S /\ \A y \in S : Max(S) >= y
<1> DEFINE Below == {n - x : x \in S}
<1>1. Below \subseteq Nat /\ Below # {}
  <2>1. \A x \in S : x \in 0 .. n /\ n - x \in Nat
    OBVIOUS
  <2>2. PICK x \in S : TRUE
    OBVIOUS
  <2>3. n - x \in Below
    OBVIOUS
  <2> QED
    BY <2>1, <2>3
<1>2. PICK b \in Below : \A y \in Below : b <= y
  BY <1>1, NoLess
<1>3. PICK x \in S : b = n - x
  BY <1>2
<1>4. \A y \in S : x >= y
  BY <1>2, <1>3
<1> QED
  BY <1>4 DEF Max

LEMMA MaxIs ==
  ASSUME NEW S, NEW n \in Nat, S \subseteq 0 .. n, NEW x \in S, \A y \in S : y <= x
  PROVE  Max(S) = x
<1>1. Max(S) \in S /\ \A y \in S : Max(S) >= y
  BY MaxIsGreatest
<1>2. Max(S) >= x /\ Max(S) <= x
  BY <1>1
<1>3. Max(S) \in Nat /\ x \in Nat
  <2>1. \A y \in S : y \in Nat
    OBVIOUS
  <2> QED
    BY <1>1, <2>1
<1> QED
  BY <1>2, <1>3

----------------------------------------------------------------------------
(* Entries stay.                                                            *)

\* A step adds entries behind the others.
Extends ==
  /\ Len(tree) \in Nat /\ Len(tree') \in Nat /\ Len(tree) <= Len(tree')
  /\ \A e \in Ids : tree'[e] = tree[e]

LEMMA LengthIsNat ==
  ASSUME EntriesLookBack
  PROVE  Len(tree) \in Nat
  BY LenProperties DEF EntriesLookBack

LEMMA PathLooksBack ==
  ASSUME EntriesLookBack, NEW e \in 0 .. Len(tree)
  PROVE  /\ Path(e) \subseteq 1 .. e /\ Path(e) \subseteq Ids
         /\ e # 0 => e \in Path(e)
         /\ Max(Path(e) \union {0}) = e
<1>1. Len(tree) \in Nat
  BY LengthIsNat
<1>2. Path(e) \subseteq 1 .. e /\ (e # 0 => e \in Path(e))
  BY <1>1 DEF EntriesLookBack, Path, Ids
<1>3. Max(Path(e) \union {0}) = e
  BY <1>1, <1>2, MaxIs
<1> QED
  BY <1>1, <1>2, <1>3 DEF Ids

LEMMA NewestIs ==
  ASSUME EntriesLookBack, NEW e \in 0 .. Len(tree)
  PROVE  /\ Newest(e) \in Path(e) \union {0} /\ Newest(e) \in 0 .. e
         /\ Newest(e) # 0 => Kind(Newest(e)) = "compaction"
         /\ \A x \in Path(e) : Kind(x) = "compaction" => x <= Newest(e)
<1> DEFINE S == {x \in Path(e) : Kind(x) = "compaction"} \union {0}
<1>1. Path(e) \subseteq 1 .. e /\ e \in Nat
  <2>1. Len(tree) \in Nat
    BY LengthIsNat
  <2>2. Path(e) \subseteq 1 .. e
    BY PathLooksBack
  <2> QED
    BY <2>1, <2>2
<1>2. Max(S) \in S /\ \A y \in S : Max(S) >= y
  BY <1>1, MaxIsGreatest
<1> QED
  BY <1>1, <1>2 DEF Newest

LEMMA PathsStay ==
  ASSUME EntriesLookBack, Extends, NEW e \in 0 .. Len(tree)
  PROVE  Path(e)' = Path(e) /\ \A x \in Path(e) : x \in Ids /\ Kind(x)' = Kind(x)
  BY PathLooksBack DEF Extends, Path, Kind, Ids

LEMMA NewestStays ==
  ASSUME EntriesLookBack, Extends, NEW e \in 0 .. Len(tree)
  PROVE  Newest(e)' = Newest(e)
<1>1. {x \in Path(e) : Kind(x) = "compaction"}' = {x \in Path(e) : Kind(x) = "compaction"}
  BY PathsStay
<1> QED
  BY <1>1 DEF Newest

LEMMA RetainedExists ==
  ASSUME EntriesLookBack, NEW e \in 0 .. Len(tree)
  PROVE  Retained(e) \subseteq Ids /\ Segment(e) \subseteq Ids
<1>1. Newest(e) \in 0 .. e /\ Len(tree) \in Nat
  BY NewestIs, LengthIsNat
<1>2. Newest(e) # 0 => tree[Newest(e)].tail \subseteq Ids
  BY <1>1 DEF EntriesLookBack, Ids
<1> QED
  BY <1>2, PathLooksBack DEF Retained, Segment

LEMMA RetainedStays ==
  ASSUME EntriesLookBack, Extends, NEW e \in 0 .. Len(tree)
  PROVE  Retained(e)' = Retained(e) /\ Segment(e)' = Segment(e)
<1>1. Newest(e)' = Newest(e) /\ Newest(e) \in 0 .. Len(tree)
  BY NewestStays, NewestIs, LengthIsNat
<1>2. Newest(e) # 0 => tree'[Newest(e)] = tree[Newest(e)]
  BY <1>1, LengthIsNat DEF Extends, Ids
<1> QED
  BY <1>1, <1>2, PathsStay DEF Retained, Segment

LEMMA ContextStays ==
  ASSUME EntriesLookBack, Extends, NEW e \in 0 .. Len(tree)
  PROVE  Context(e)' = Context(e)
<1>1. \A x \in Ids : Kind(x)' = Kind(x)
  BY DEF Extends, Kind
<1> QED
  BY <1>1, RetainedStays, RetainedExists DEF Context

LEMMA AbandonedStays ==
  ASSUME EntriesLookBack, Extends, NEW e \in 0 .. Len(tree), NEW t \in 0 .. Len(tree)
  PROVE  Abandoned(e, t)' = Abandoned(e, t)
  BY PathsStay DEF Abandoned

LEMMA ParentIsOlder ==
  ASSUME EntriesLookBack, NEW e \in Ids
  PROVE  Parent(e) \in 0 .. (e - 1) /\ Parent(e) \in 0 .. Len(tree)
<1>1. tree[e].branch \subseteq 1 .. (e - 1) /\ e - 1 \in Nat /\ e - 1 <= Len(tree)
  BY LengthIsNat DEF EntriesLookBack, Ids
<1>2. Max(tree[e].branch \union {0}) \in tree[e].branch \union {0}
  BY <1>1, MaxIsGreatest
<1> QED
  BY <1>1, <1>2, LengthIsNat DEF Parent

----------------------------------------------------------------------------
(* How a commit grows the tree.                                             *)

\* An entry that may be inserted next.
Fits(x) ==
  /\ x \in EntryType /\ x.branch \union x.told \union x.tail \subseteq Ids
  /\ x.from \in 0 .. Len(tree)

\* What leads to the i-th entry of a chain after n, from the end of a branch.
Behind(branch, n, i) == branch \union (n + 1) .. (n + i - 1)

Grown(first, kinds, n, branch) == tree' = tree \o first \o Chain(kinds, n, branch)

LEMMA ChainIs ==
  ASSUME NEW kinds \in Seq(Kinds), NEW n \in Nat, NEW branch \in SUBSET (1 .. n)
  PROVE  /\ Chain(kinds, n, branch) \in Seq(EntryType)
         /\ Len(Chain(kinds, n, branch)) = Len(kinds)
         /\ \A i \in 1 .. Len(kinds) :
              Chain(kinds, n, branch)[i] = Entry(kinds[i], Behind(branch, n, i))
<1>1. Len(kinds) \in Nat
  BY LenProperties
<1>2. ASSUME NEW i \in 1 .. Len(kinds)
      PROVE  Entry(kinds[i], Behind(branch, n, i)) \in EntryType
  <2>1. kinds[i] \in Kinds
    BY ElementOfSeq
  <2>2. Behind(branch, n, i) \in SUBSET Int
    BY <1>1 DEF Behind
  <2> QED
    BY <2>1, <2>2 DEF Entry, EntryType
<1> DEFINE c == [i \in 1 .. Len(kinds) |-> Entry(kinds[i], Behind(branch, n, i))]
<1>3. c \in [1 .. Len(kinds) -> EntryType]
  BY <1>2
<1>4. Chain(kinds, n, branch) = c
  BY DEF Chain, Behind
<1>5. c \in Seq(EntryType)
  <2> HIDE DEF c
  <2> QED
    BY <1>1, <1>3
<1>6. Len(c) = Len(kinds)
  BY <1>1
<1> QED
  BY <1>4, <1>5, <1>6

LEMMA Join ==
  ASSUME NEW S, NEW a \in Seq(S), NEW b \in Seq(S), NEW d, d = a \o b
  PROVE  /\ d \in Seq(S) /\ Len(d) = Len(a) + Len(b)
         /\ \A i \in 1 .. Len(a) : d[i] = a[i]
         /\ \A i \in 1 .. Len(b) : d[Len(a) + i] = b[i]
<1>1. Len(a) \in Nat /\ Len(b) \in Nat
  BY LenProperties
<1>2. /\ d \in Seq(S) /\ Len(d) = Len(a) + Len(b)
      /\ \A i \in 1 .. Len(a) + Len(b) : d[i] = IF i <= Len(a) THEN a[i] ELSE b[i - Len(a)]
  BY ConcatProperties
<1>3. ASSUME NEW i \in 1 .. Len(b) PROVE d[Len(a) + i] = b[i]
  <2>1. Len(a) + i \in 1 .. Len(a) + Len(b) /\ ~(Len(a) + i <= Len(a)) /\ Len(a) + i - Len(a) = i
    BY <1>1
  <2> QED
    BY <1>2, <2>1
<1> QED
  BY <1>1, <1>2, <1>3

LEMMA JoinOfThree ==
  ASSUME NEW S, NEW a \in Seq(S), NEW b \in Seq(S), NEW c \in Seq(S), NEW d, d = a \o b \o c
  PROVE  /\ d \in Seq(S) /\ Len(d) = Len(a) + Len(b) + Len(c)
         /\ \A i \in 1 .. Len(a) : d[i] = a[i]
         /\ \A i \in 1 .. Len(b) : d[Len(a) + i] = b[i]
         /\ \A i \in 1 .. Len(c) : d[Len(a) + Len(b) + i] = c[i]
<1> DEFINE ab == a \o b
<1>1. Len(a) \in Nat /\ Len(b) \in Nat /\ Len(c) \in Nat
  BY LenProperties
<1>2. /\ ab \in Seq(S) /\ Len(ab) = Len(a) + Len(b)
      /\ \A i \in 1 .. Len(a) : ab[i] = a[i]
      /\ \A i \in 1 .. Len(b) : ab[Len(a) + i] = b[i]
  BY Join
<1>3. /\ d \in Seq(S) /\ Len(d) = Len(ab) + Len(c)
      /\ \A i \in 1 .. Len(ab) : d[i] = ab[i]
      /\ \A i \in 1 .. Len(c) : d[Len(ab) + i] = c[i]
  BY <1>2, Join
<1> HIDE DEF ab
<1> QED
  BY <1>1, <1>2, <1>3

LEMMA TreeGrows ==
  ASSUME EntriesLookBack, NEW first, NEW kinds \in Seq(Kinds),
         first = <<>> \/ \E x : Fits(x) /\ first = <<x>>,
         NEW n \in Nat, n = Len(tree) + Len(first), NEW branch \in SUBSET (1 .. n),
         Grown(first, kinds, n, branch)
  PROVE  /\ Extends /\ EntriesLookBack' /\ Len(tree') = n + Len(kinds)
         /\ Len(kinds) \in Nat
         /\ \A x : first = <<x>> => n = Len(tree) + 1 /\ tree'[n] = x
         /\ \A i \in 1 .. Len(kinds) :
              tree'[n + i] = Entry(kinds[i], Behind(branch, n, i))
<1> DEFINE c == Chain(kinds, n, branch)
<1>1. /\ Len(tree) \in Nat /\ Len(kinds) \in Nat /\ Len(first) \in {0, 1}
      /\ first \in Seq(EntryType)
  <2>1. Len(tree) \in Nat /\ Len(kinds) \in Nat
    BY LengthIsNat, LenProperties
  <2>2. CASE first = <<>>
    BY <2>1, <2>2
  <2>3. ASSUME NEW x, Fits(x), first = <<x>> PROVE Len(first) = 1 /\ first \in Seq(EntryType)
    BY <2>3 DEF Fits
  <2> QED
    BY <2>1, <2>2, <2>3
<1>2. n \in Nat
  BY <1>1
<1>3. /\ c \in Seq(EntryType) /\ Len(c) = Len(kinds)
      /\ \A i \in 1 .. Len(kinds) :
           c[i] = Entry(kinds[i], Behind(branch, n, i))
  BY <1>2, ChainIs
<1>4. tree' = tree \o first \o c
  BY DEF Grown
<1>5. /\ tree' \in Seq(EntryType) /\ Len(tree') = n + Len(kinds)
      /\ \A i \in 1 .. Len(tree) : tree'[i] = tree[i]
      /\ \A i \in 1 .. Len(first) : tree'[Len(tree) + i] = first[i]
      /\ \A i \in 1 .. Len(kinds) : tree'[n + i] = c[i]
  <2>1. tree \in Seq(EntryType)
    BY DEF EntriesLookBack
  <2>2. /\ tree' \in Seq(EntryType) /\ Len(tree') = Len(tree) + Len(first) + Len(c)
        /\ \A i \in 1 .. Len(tree) : tree'[i] = tree[i]
        /\ \A i \in 1 .. Len(first) : tree'[Len(tree) + i] = first[i]
        /\ \A i \in 1 .. Len(c) : tree'[Len(tree) + Len(first) + i] = c[i]
    BY <1>1, <1>3, <1>4, <2>1, JoinOfThree
  <2> QED
    BY <1>3, <2>2
<1>6. \A i \in 1 .. Len(tree) : tree'[i] = tree[i]
  BY <1>5
<1>7. ASSUME NEW x, first = <<x>> PROVE n = Len(tree) + 1 /\ tree'[n] = x
  BY <1>1, <1>5, <1>7
<1>8. ASSUME NEW i \in 1 .. Len(kinds)
      PROVE  tree'[n + i] = Entry(kinds[i], Behind(branch, n, i))
  BY <1>3, <1>5
<1>9. ASSUME NEW e \in Ids'
      PROVE  /\ tree'[e].branch \union tree'[e].told \union tree'[e].tail \subseteq 1 .. (e - 1)
             /\ tree'[e].from \in 0 .. (e - 1)
  <2>1. CASE e <= Len(tree)
    <3>1. e \in 1 .. Len(tree) /\ e \in Ids
      BY <1>1, <1>2, <1>5, <1>9, <2>1 DEF Ids
    <3> QED
      BY <1>6, <3>1 DEF EntriesLookBack
  <2>2. CASE e > Len(tree) /\ e <= n
    <3>1. PICK x : Fits(x) /\ first = <<x>>
      BY <1>1, <1>2, <1>9, <2>2 DEF Ids
    <3>2. e = n /\ e - 1 = Len(tree) /\ tree'[e] = x
      BY <1>1, <1>5, <1>7, <2>2, <3>1 DEF Ids
    <3> QED
      BY <3>1, <3>2 DEF Fits, Ids
  <2>3. CASE e > n
    <3>1. PICK i \in 1 .. Len(kinds) : e = n + i
      <4>1. e - n \in 1 .. Len(kinds) /\ e = n + (e - n)
        BY <1>1, <1>2, <1>5, <2>3 DEF Ids
      <4> QED
        BY <4>1
    <3>2. tree'[e] = Entry(kinds[i], Behind(branch, n, i))
      BY <1>8, <3>1
    <3>3. Behind(branch, n, i) \subseteq 1 .. (e - 1) /\ 0 \in 0 .. (e - 1)
      <4>1. e - 1 \in Nat /\ n <= e - 1 /\ n + i - 1 = e - 1 /\ i \in Nat
        BY <1>1, <1>2, <3>1
      <4>2. 1 .. n \subseteq 1 .. (e - 1) /\ (n + 1) .. (n + i - 1) \subseteq 1 .. (e - 1)
        BY <1>2, <4>1
      <4>3. branch \subseteq 1 .. (e - 1)
        BY <4>2
      <4>4. Behind(branch, n, i) \subseteq 1 .. (e - 1)
        BY <4>2, <4>3 DEF Behind
      <4> QED
        BY <4>1, <4>4
    <3>4. /\ tree'[e].branch = Behind(branch, n, i) /\ tree'[e].told = {}
          /\ tree'[e].tail = {} /\ tree'[e].from = 0
      BY <3>2 DEF Entry
    <3> QED
      BY <3>3, <3>4
  <2> QED
    BY <1>1, <1>2, <1>5, <2>1, <2>2, <2>3 DEF Ids
<1> QED
  BY <1>1, <1>2, <1>5, <1>6, <1>7, <1>8, <1>9 DEF Extends, EntriesLookBack, Ids

\* Queued entries are appended at the tip.
LEMMA TipGrows ==
  ASSUME EntriesLookBack, tip \in 0 .. Len(tree), NEW kinds \in Seq(Kinds), Grow(<<>>, kinds)
  PROVE  /\ Extends /\ EntriesLookBack' /\ Len(tree') = Len(tree) + Len(kinds)
         /\ tip' \in 0 .. Len(tree')
         /\ Path(tip)' = Path(tip) \union (Len(tree) + 1) .. Len(tree')
         /\ \A i \in 1 .. Len(kinds) : tree'[Len(tree) + i].kind = kinds[i]
<1> DEFINE n == Len(tree)
<1>1. n \in Nat /\ Path(tip) \subseteq 1 .. tip /\ Path(tip) \in SUBSET (1 .. n)
      /\ Max(Path(tip) \union {0}) = tip
  BY LengthIsNat, PathLooksBack DEF Ids
<1>2. /\ n = Len(tree) + Len(<<>>) /\ Grown(<<>>, kinds, n, Path(tip))
      /\ tip' = Max(Path(tip) \union (n + 1) .. (n + Len(kinds)) \union {0})
  BY <1>1 DEF Grow, Grown
<1>3. /\ Extends /\ EntriesLookBack' /\ Len(tree') = n + Len(kinds) /\ Len(kinds) \in Nat
      /\ \A i \in 1 .. Len(kinds) :
           tree'[n + i] = Entry(kinds[i], Behind(Path(tip), n, i))
  <2>1. PICK first : first = <<>>
    OBVIOUS
  <2>2. Grown(first, kinds, n, Path(tip)) /\ n = Len(tree) + Len(first)
    BY <1>2, <2>1
  <2> HIDE DEF n
  <2>3. \A x : first # <<x>>
    BY <2>1
  <2>4. /\ EntriesLookBack /\ kinds \in Seq(Kinds) /\ n = Len(tree) + Len(first)
        /\ (first = <<>> \/ \E y : Fits(y) /\ first = <<y>>) /\ n \in Nat
        /\ Path(tip) \in SUBSET (1 .. n) /\ Grown(first, kinds, n, Path(tip))
    BY <1>1, <2>1, <2>2
  <2>5. Extends /\ EntriesLookBack' /\ Len(kinds) \in Nat
    BY <2>4, TreeGrows
  <2>6. Len(tree') = n + Len(kinds)
    BY <2>4, TreeGrows
  <2>7. \A i \in 1 .. Len(kinds) : tree'[n + i] = Entry(kinds[i], Behind(Path(tip), n, i))
    BY <2>4, TreeGrows
  <2> QED
    BY <2>5, <2>6, <2>7
<1> HIDE DEF n
<1>6. \A i \in 1 .. Len(kinds) : tree'[n + i].kind = kinds[i]
  <2>1. \A k, b : Entry(k, b).kind = k
    BY DEF Entry
  <2> QED
    BY <1>3, <2>1
<1>4. CASE Len(kinds) = 0
  <2>1. tip' = tip
    <3>1. (n + 1) .. (n + Len(kinds)) = {}
      BY <1>1, <1>4
    <3>2. Path(tip) \union (n + 1) .. (n + Len(kinds)) \union {0} = Path(tip) \union {0}
      BY <3>1
    <3> QED
      BY <1>1, <1>2, <3>2
  <2>2. Path(tip)' = Path(tip)
    BY <2>1, <1>3, PathsStay DEF Path
  <2> QED
    BY <1>1, <1>3, <1>4, <2>1, <2>2 DEF n
<1>5. CASE Len(kinds) # 0
  <2>1. tip' = n + Len(kinds)
    <3> DEFINE S == Path(tip) \union (n + 1) .. (n + Len(kinds)) \union {0}
    <3>1. S \subseteq 0 .. (n + Len(kinds)) /\ n + Len(kinds) \in S /\ n + Len(kinds) \in Nat
      BY <1>1, <1>3, <1>5
    <3>2. \A y \in S : y <= n + Len(kinds)
      BY <1>1, <1>3, <3>1
    <3> HIDE DEF S
    <3>3. Max(S) = n + Len(kinds)
      BY <3>1, <3>2, MaxIs
    <3> QED
      BY <1>2, <3>3 DEF S
  <2>2. tree'[tip'] = Entry(kinds[Len(kinds)], Behind(Path(tip), n, Len(kinds)))
    BY <1>3, <1>5, <2>1
  <2>3. /\ tree'[tip'].branch = Path(tip) \union (n + 1) .. (n + Len(kinds) - 1)
        /\ tip' # 0 /\ (n + 1) .. (n + Len(kinds) - 1) \union {tip'} = (n + 1) .. (n + Len(kinds))
    <3>1. tree'[tip'].branch = Behind(Path(tip), n, Len(kinds))
      BY <2>2 DEF Entry
    <3>2. tip' # 0 /\ (n + 1) .. (n + Len(kinds) - 1) \union {tip'} = (n + 1) .. (n + Len(kinds))
      BY <1>1, <1>3, <1>5, <2>1
    <3> QED
      BY <3>1, <3>2 DEF Behind
  <2>4. Path(tip)' = Path(tip) \union (n + 1) .. (n + Len(kinds))
    BY <2>3 DEF Path
  <2> QED
    <3>1. tip' \in 0 .. Len(tree')
      BY <1>1, <1>3, <2>1
    <3> QED
      BY <1>3, <1>6, <2>4, <3>1 DEF n
<1> QED
  BY <1>3, <1>4, <1>5, <1>6 DEF n

\* An entry is inserted, and queued entries behind it.
LEMMA EntryGrows ==
  ASSUME EntriesLookBack, NEW x, Fits(x), NEW kinds \in Seq(Kinds), Grow(<<x>>, kinds)
  PROVE  /\ Extends /\ EntriesLookBack' /\ Len(tree') = Len(tree) + 1 + Len(kinds)
         /\ tip' = Len(tree')
         /\ Path(tip)' = x.branch \union (Len(tree) + 1) .. Len(tree')
         /\ tree'[Len(tree) + 1] = x
         /\ \A i \in 1 .. Len(kinds) : tree'[Len(tree) + 1 + i].kind = kinds[i]
<1> DEFINE n == Len(tree) + 1
           base == x.branch \union {n}
<1>1. Len(tree) \in Nat /\ n \in Nat /\ x.branch \subseteq 1 .. Len(tree) /\ base \in SUBSET (1 .. n)
  BY LengthIsNat DEF Fits, Ids
<1>2. /\ n = Len(tree) + Len(<<x>>) /\ Grown(<<x>>, kinds, n, base)
      /\ tip' = Max(base \union (n + 1) .. (n + Len(kinds)) \union {0})
  BY <1>1 DEF Grow, Grown
<1>3. /\ Extends /\ EntriesLookBack' /\ Len(tree') = n + Len(kinds) /\ Len(kinds) \in Nat
      /\ tree'[n] = x
      /\ \A i \in 1 .. Len(kinds) :
           tree'[n + i] = Entry(kinds[i], Behind(base, n, i))
  <2>1. PICK first : first = <<x>>
    OBVIOUS
  <2>2. Grown(first, kinds, n, base) /\ n = Len(tree) + Len(first)
    BY <1>2, <2>1
  <2> HIDE DEF n, base
  <2>3. \E y : Fits(y) /\ first = <<y>>
    BY <2>1
  <2>4. /\ EntriesLookBack /\ kinds \in Seq(Kinds) /\ n = Len(tree) + Len(first)
        /\ (first = <<>> \/ \E y : Fits(y) /\ first = <<y>>) /\ n \in Nat
        /\ base \in SUBSET (1 .. n) /\ Grown(first, kinds, n, base)
    BY <1>1, <2>1, <2>2, <2>3
  <2>5. Extends /\ EntriesLookBack' /\ Len(kinds) \in Nat
    BY <2>4, TreeGrows
  <2>6. Len(tree') = n + Len(kinds)
    BY <2>4, TreeGrows
  <2>7. \A i \in 1 .. Len(kinds) : tree'[n + i] = Entry(kinds[i], Behind(base, n, i))
    BY <2>4, TreeGrows
  <2>8. tree'[n] = x
    BY <2>1, <2>4, TreeGrows
  <2> QED
    BY <2>5, <2>6, <2>7, <2>8
<1> HIDE DEF n
<1>4. tip' = n + Len(kinds)
  <2> DEFINE S == base \union (n + 1) .. (n + Len(kinds)) \union {0}
  <2>1. S \subseteq 0 .. (n + Len(kinds)) /\ n + Len(kinds) \in S /\ n + Len(kinds) \in Nat
    BY <1>1, <1>3
  <2>2. \A y \in S : y <= n + Len(kinds)
    BY <1>1, <1>3, <2>1
  <2> HIDE DEF S
  <2>3. Max(S) = n + Len(kinds)
    BY <2>1, <2>2, MaxIs
  <2> QED
    BY <1>2, <2>3 DEF S
<1>5. Path(tip)' = x.branch \union n .. (n + Len(kinds))
  <2>1. CASE Len(kinds) = 0
    <3>1. tip' = n /\ tip' # 0 /\ tree'[tip'] = x /\ n .. (n + Len(kinds)) = {n}
      BY <1>1, <1>3, <1>4, <2>1 DEF n
    <3> QED
      BY <3>1 DEF Path
  <2>2. CASE Len(kinds) # 0
    <3>1. tree'[tip'].branch = Behind(base, n, Len(kinds))
      <4>1. Len(kinds) \in 1 .. Len(kinds)
        BY <1>3, <2>2
      <4>2. tree'[tip'] = Entry(kinds[Len(kinds)], Behind(base, n, Len(kinds)))
        BY <1>3, <1>4, <4>1
      <4> QED
        BY <4>2 DEF Entry
    <3>2. /\ tree'[tip'].branch = base \union (n + 1) .. (n + Len(kinds) - 1) /\ tip' # 0
          /\ {n} \union (n + 1) .. (n + Len(kinds) - 1) \union {tip'} = n .. (n + Len(kinds))
      <4>1. /\ tip' # 0
            /\ {n} \union (n + 1) .. (n + Len(kinds) - 1) \union {tip'} = n .. (n + Len(kinds))
        BY <1>1, <1>3, <1>4, <2>2
      <4> QED
        BY <3>1, <4>1 DEF Behind
    <3> QED
      BY <3>2 DEF Path
  <2> QED
    BY <2>1, <2>2
<1>6. \A i \in 1 .. Len(kinds) : tree'[n + i].kind = kinds[i]
  <2>1. \A k, b : Entry(k, b).kind = k
    BY DEF Entry
  <2> QED
    BY <1>3, <2>1
<1> QED
  BY <1>3, <1>4, <1>5, <1>6 DEF n

----------------------------------------------------------------------------
(* What a summary is prepared from.                                         *)

Said(s) == {x \in s : Kind(x) # "note"}

\* A cut divides what was said in three.
LEMMA CutDivides ==
  ASSUME EntriesLookBack, NEW all \in SUBSET Ids, NEW copied, NEW e \in 0 .. Len(tree),
         NEW p \in PreparedFrom(e, copied, all)
  PROVE  /\ p \in PreparationType /\ p.from = e
         /\ p.history \union p.prefix \union p.kept = Said(all)
<1> DEFINE Opens(x) == Role(copied, x) \in {"user", "branch"}
           Before(y) == {z \in all : z <= y /\ \A w \in all :
                           z <= w /\ w < y => Role(copied, w) \in {"note", "branch"}}
           Turn(x) == IF Role(copied, x) = "user" THEN {x} ELSE {y \in all : y <= x /\ Opens(y)}
           Start(x) == IF Turn(x) = {} THEN x ELSE Max(Turn(x))
           CutAt(x, turn) ==
             [from |-> e, kept |-> Said({y \in all : y >= x}),
              history |-> Said({y \in all : y < turn}),
              prefix |-> Said({y \in all : turn <= y /\ y < x})]
<1>1. Len(tree) \in Nat /\ all \subseteq Nat /\ all \subseteq 0 .. Len(tree)
  BY LengthIsNat DEF Ids
<1>a. PICK y \in all : \E x : x = Min(Before(y)) /\ p = CutAt(x, Start(x))
  BY DEF PreparedFrom, Said
<1>2. PICK x : x = Min(Before(y)) /\ p = CutAt(x, Start(x))
  BY <1>a
<1>3. x \in all
  <2>1. y \in Before(y)
    <3>1. \A w \in all : w \in Nat
      BY <1>1
    <3>2. \A w \in all : ~(y <= w /\ w < y)
      BY <3>1
    <3>3. y <= y
      BY <3>1
    <3> QED
      BY <3>2, <3>3
  <2>2. Before(y) \subseteq all /\ Before(y) \subseteq Nat
    BY <1>1
  <2> HIDE DEF Before
  <2> QED
    BY <1>2, <2>1, <2>2, MinIsLeast
<1>4. PICK t \in Nat : t = Start(x) /\ t <= x
  <2>1. CASE Turn(x) = {}
    BY <1>1, <1>3, <2>1
  <2>2. CASE Turn(x) # {}
    <3>1. Turn(x) \subseteq 0 .. Len(tree) /\ \A z \in Turn(x) : z <= x /\ z \in Nat
      <4>1. Turn(x) \subseteq all
        BY <1>3
      <4>2. \A w \in all : w \in Nat /\ w \in 0 .. Len(tree)
        BY <1>1
      <4>3. \A z \in Turn(x) : z <= x
        BY <1>3, <4>2
      <4> HIDE DEF Turn
      <4> QED
        BY <4>1, <4>2, <4>3
    <3> HIDE DEF Turn
    <3>2. Max(Turn(x)) \in Turn(x)
      BY <1>1, <2>2, <3>1, MaxIsGreatest
    <3> QED
      BY <2>2, <3>1, <3>2
  <2> QED
    BY <2>1, <2>2
<1> HIDE DEF Start, Before, Turn, Opens
<1>5. p = CutAt(x, t)
  BY <1>2, <1>4
<1>6. /\ p.from = e /\ p.kept = Said({z \in all : z >= x})
      /\ p.history = Said({z \in all : z < t})
      /\ p.prefix = Said({z \in all : t <= z /\ z < x})
      /\ p \in [from : {e}, kept : {p.kept}, history : {p.history}, prefix : {p.prefix}]
  BY <1>5
<1>7. \A z \in all : z \in Nat /\ (z < t \/ (t <= z /\ z < x) \/ z >= x)
  BY <1>1, <1>3, <1>4
<1>8. p.history \union p.prefix \union p.kept = Said(all)
  BY <1>6, <1>7 DEF Said
<1>9. p.history \subseteq Ids /\ p.prefix \subseteq Ids /\ p.kept \subseteq Ids
  BY <1>6 DEF Said
<1> QED
  BY <1>6, <1>8, <1>9 DEF PreparationType

\* Something that was said is cut at something.
LEMMA CutExists ==
  ASSUME NEW all, NEW copied, NEW e, PreparedFrom(e, copied, all) = {}
  PROVE  Said(all) = {}
<1> DEFINE Opens(x) == Role(copied, x) \in {"user", "branch"}
           Moved(x) == Min({y \in all : y <= x /\ \A z \in all :
                              y <= z /\ z < x => Role(copied, z) \in {"note", "branch"}})
           Turn(x) == IF Role(copied, x) = "user" THEN {x} ELSE {y \in all : y <= x /\ Opens(y)}
           CutAt(x, turn) ==
             [from |-> e, kept |-> Said({y \in all : y >= x}),
              history |-> Said({y \in all : y < turn}),
              prefix |-> Said({y \in all : turn <= y /\ y < x})]
           Cut(x) == CutAt(x, IF Turn(x) = {} THEN x ELSE Max(Turn(x)))
<1>1. PreparedFrom(e, copied, all) = {Cut(x) : x \in {Moved(y) : y \in Said(all)}}
  BY DEF PreparedFrom, Said
<1> HIDE DEF Cut, Moved
<1>2. ASSUME NEW y \in Said(all) PROVE FALSE
  <2>1. Moved(y) \in {Moved(z) : z \in Said(all)}
    OBVIOUS
  <2>2. Cut(Moved(y)) \in PreparedFrom(e, copied, all)
    BY <1>1, <2>1
  <2> QED
    BY <2>2
<1> QED
  BY <1>2

LEMMA CutsAre ==
  ASSUME NEW e
  PROVE  Cuts(e) = PreparedFrom(e, Retained(e), Retained(e) \union Segment(e))
<1> DEFINE P(c) == PreparedFrom(e, c[1], c[2])
           one == <<Retained(e), Retained(e) \union Segment(e)>>
<1>1. Cuts(e) = UNION {P(c) : c \in {one}}
  BY DEF Cuts
<1>2. P(one) = PreparedFrom(e, Retained(e), Retained(e) \union Segment(e))
  OBVIOUS
<1> HIDE DEF P, one
<1>3. UNION {P(c) : c \in {one}} = P(one)
  OBVIOUS
<1> QED
  BY <1>1, <1>2, <1>3

\* Whatever is prepared at a tip divides what was said there.
LEMMA PreparationIs ==
  ASSUME EntriesLookBack, NEW e \in 0 .. Len(tree), NEW p \in Preparations(e)
  PROVE  /\ p \in PreparationType /\ p # NoPreparation /\ p.from = e
         /\ p.history \union p.prefix \union p.kept = Said(Retained(e) \union Segment(e))
<1> DEFINE all == Retained(e) \union Segment(e)
<1>1. all \in SUBSET Ids /\ e \in Nat
  BY RetainedExists, LengthIsNat
<1>2. CASE Cuts(e) # {}
  <2>1. p \in PreparedFrom(e, Retained(e), all)
    BY <1>2, CutsAre DEF Preparations
  <2> HIDE DEF all
  <2>2. /\ p \in PreparationType /\ p.from = e
        /\ p.history \union p.prefix \union p.kept = Said(all)
    BY <1>1, <2>1, CutDivides
  <2>3. p # NoPreparation
    BY <1>1, <2>2 DEF NoPreparation
  <2> QED
    BY <2>2, <2>3 DEF all
<1>3. CASE Cuts(e) = {}
  <2>1. Said(all) = {}
    BY <1>3, CutsAre, CutExists
  <2>2. p = [from |-> e, kept |-> {}, history |-> {}, prefix |-> {}]
    BY <1>3 DEF Preparations, NoPreparation
  <2>3. p # NoPreparation
    BY <1>1, <2>2 DEF NoPreparation
  <2> QED
    BY <2>1, <2>2, <2>3 DEF PreparationType
<1> QED
  BY <1>2, <1>3

\* Of what was said at a tip a request sees all but errors, when no compaction was
\* copied forward.
LEMMA ContextIsSpoken ==
  ASSUME EntriesLookBack, NEW e \in 0 .. Len(tree),
         \A x \in Retained(e) : Kind(x) # "compaction"
  PROVE  Spoken(Said(Retained(e) \union Segment(e))) = Context(e)
<1> DEFINE all == Retained(e) \union Segment(e)
<1>1. all \subseteq Ids
  BY RetainedExists
<1>2. \A x \in all : Kind(x) \in Kinds
  <2>1. \A x \in Ids : tree[x] \in EntryType
    BY ElementOfSeq DEF EntriesLookBack, Ids
  <2> QED
    BY <1>1, <2>1 DEF Kind, EntryType
<1>3. \A x \in Segment(e) : Kind(x) # "compaction"
  <2>1. \A x \in Path(e) : Kind(x) = "compaction" => x <= Newest(e)
    BY NewestIs
  <2>2. \A x \in Path(e) : x \in Nat
    <3>1. Path(e) \subseteq Ids /\ Len(tree) \in Nat
      BY PathLooksBack, LengthIsNat
    <3> QED
      BY <3>1 DEF Ids
  <2>3. Newest(e) \in Nat
    BY NewestIs, LengthIsNat
  <2> QED
    BY <2>1, <2>2, <2>3 DEF Segment
<1> QED
  BY <1>2, <1>3 DEF Spoken, Said, Context, Kinds

\* What a navigation leaves behind is a preparation, too.
LEMMA BranchPreparationIs ==
  ASSUME EntriesLookBack, NEW e \in 0 .. Len(tree), NEW target
  PROVE  /\ BranchPreparation(e, target) \in PreparationType
         /\ BranchPreparation(e, target) # NoPreparation
         /\ BranchPreparation(e, target).from = e
         /\ BranchPreparation(e, target).history = Abandoned(e, target)
<1>1. Abandoned(e, target) \subseteq Ids /\ e \in Nat
  <2>1. Path(e) \subseteq Ids
    BY PathLooksBack
  <2>2. Len(tree) \in Nat
    BY LengthIsNat
  <2> QED
    BY <2>1, <2>2 DEF Abandoned
<1>2. BranchPreparation(e, target) \in
        [from : {e}, kept : {{}}, history : {Abandoned(e, target)}, prefix : {{}}]
  <2>1. PICK h : h = Abandoned(e, target)
    OBVIOUS
  <2>2. [NoPreparation EXCEPT !.from = e, !.history = h] \in
          [from : {e}, kept : {{}}, history : {h}, prefix : {{}}]
    BY DEF NoPreparation
  <2> QED
    BY <2>1, <2>2 DEF BranchPreparation
<1>3. NoPreparation.from = -1
  BY DEF NoPreparation
<1> QED
  BY <1>1, <1>2, <1>3 DEF PreparationType

----------------------------------------------------------------------------
(* Types: the parts of the invariant.                                       *)

LaneTypes == EntriesLookBack /\ tip \in 0 .. Len(tree) /\ inbox \in Seq({"user", "note"})
OpTypes ==
  /\ op \in OpType /\ (op.at \in Summing <=> op.prep # NoPreparation)
  /\ settled \in 0 .. MaxOps /\ OpMatches
PassTypes == PassMatches /\ (Idle => pass = NoPass)
BudgetTypes == turns \in 0 .. MaxTurns /\ incidents \in 0 .. MaxIncidents

LEMMA PartsAreAll ==
  StructuralInvariant <=> LaneTypes /\ OpTypes /\ PassTypes /\ NavMatches /\ BudgetTypes
<1>1. EntriesLookBack =>
        \A e \in Ids : tree[e] \in EntryType /\ tree[e].branch \subseteq 1 .. (e - 1)
  BY ElementOfSeq DEF EntriesLookBack, Ids
<1>2. PassMatches => pass.pc \in {"off", "dispatch", "checkpoint", "end_hook", "answer",
                       "respond", "deciding", "request", "summarized", "timer"}
  BY DEF PassMatches, PassType, PcType
<1> QED
  BY <1>1, <1>2 DEF StructuralInvariant, TypeOK, LaneTypes, OpTypes, PassTypes, BudgetTypes

\* What is of these types stays so when the tree grows.
LEMMA TypesWiden ==
  ASSUME Extends
  PROVE  /\ 0 .. Len(tree) \subseteq 0 .. Len(tree') /\ Ids \subseteq Ids'
         /\ PreparationType \subseteq PreparationType' /\ OpType \subseteq OpType'
         /\ PassType \subseteq PassType' /\ NavType \subseteq NavType'
<1>1. 0 .. Len(tree) \subseteq 0 .. Len(tree') /\ Ids \subseteq Ids'
  BY DEF Extends, Ids
<1>2. PreparationType \subseteq PreparationType'
  BY <1>1 DEF PreparationType
<1>3. OpType = [at : Leaves, boundary : {"none", "manual", "threshold", "overflow", "navigation"},
   cancelled : BOOLEAN, source : 0 .. Len(tree), trigger : 0 .. Len(tree),
   cont : {"need_assistant", "may_finish"}, used : BOOLEAN,
   attempt : 0 .. MaxAttempts, target : 0 .. Len(tree),
   prep : {NoPreparation} \union PreparationType]
  BY DEF OpType, PreparationType
<1> QED
  BY <1>1, <1>2, <1>3 DEF PassType, NavType, OpType, PreparationType

LEMMA NoPreparationIsNone == NoPreparation \notin PreparationType
  BY DEF NoPreparation, PreparationType

----------------------------------------------------------------------------
(* Types: the lane.                                                         *)

\* What a commit inserts itself: the response or the summary.
Inserted(x) ==
  \/ x \in {Entry("assistant", Path(tip)), Entry("error", Path(tip))}
  \/ op.at \in Summing /\ \E carries \in BOOLEAN : x = SummaryEntry(carries)

\* How a step changes the lane.
LaneStep ==
  \/ UNCHANGED <<tree, tip>> /\ inbox' = inbox
  \/ UNCHANGED <<tree, tip>> /\ \E kind \in {"user", "note"} : inbox' = Append(inbox, kind)
  \/ UNCHANGED <<tree, inbox>> /\ op.at = "navigation.ready_to_commit" /\ tip' = op.target
  \/ inbox' = <<>> /\ \E kinds \in Seq({"user", "note"}) : Grow(<<>>, kinds)
  \/ \E x : Inserted(x) /\ Grow(<<x>>, <<>>) /\ inbox' = inbox
  \/ \E x : Inserted(x) /\ Grow(<<x>>, inbox) /\ inbox' = <<>>

LEMMA HostLane ==
  ASSUME StructuralInvariant, HostStep PROVE LaneStep
<1>1. inbox \in Seq({"user", "note"})
  BY DEF StructuralInvariant, TypeOK
<1>2. ASSUME NEW kind \in {"user", "note"} PROVE Append(inbox, kind) \in Seq({"user", "note"})
  BY <1>1
<1>3. ASSUME NEW kind \in {"user", "note"}, AppendEntry(kind) PROVE LaneStep
  BY <1>2, <1>3 DEF AppendEntry, LaneStep
<1>4. CASE AcceptRun
  BY <1>2, <1>4 DEF AcceptRun, LaneStep
<1>5. CASE AcceptCompaction \/ AcceptNavigation \/ RequestAbort \/ InstallPass \/ Crash
          \/ ReportRetry
  BY <1>5 DEF AcceptCompaction, AcceptNavigation, RequestAbort, InstallPass, Crash, ReportRetry,
     KeepTree, LaneStep
<1>6. ASSUME NEW target, NEW summarize, ObserveTip(target, summarize) PROVE LaneStep
  BY <1>6 DEF ObserveTip, KeepTree, LaneStep
<1> QED
  BY <1>3, <1>4, <1>5, <1>6 DEF HostStep

LEMMA PassLane ==
  ASSUME StructuralInvariant, PassStep PROVE LaneStep
<1>1. inbox \in Seq({"user", "note"})
  BY DEF StructuralInvariant, TypeOK
<1>2. CASE CancelSeen \/ ReadThreshold \/ CallProvider \/ ProviderAnswers \/ Decide \/ Generate
          \/ Summarize \/ RecoverSummary \/ StartTimer \/ TimerEnds
  BY <1>2 DEF CancelSeen, ReadThreshold, CallProvider, ProviderAnswers, Decide, Generate,
     Summarize, RecoverSummary, StartTimer, TimerEnds, WaitForRetry, PublishFailed, KeepTree, LaneStep
<1>3. ASSUME Place(<<>>) PROVE LaneStep
  BY <1>1, <1>3 DEF Place, LaneStep
<1>4. CASE Reconcile
  BY <1>4 DEF Reconcile, KeepTree, LaneStep, Inserted
<1>5. CASE RunCheckpoint \/ FinishRun
  BY <1>3, <1>5 DEF RunCheckpoint, FinishRun, KeepTree, LaneStep
<1>6. CASE PublishResponse
  BY <1>6 DEF PublishResponse, LaneStep, Inserted
<1>7. CASE RecoverAssistant
  BY <1>7 DEF RecoverAssistant, LaneStep, Inserted
<1>8. ASSUME NEW carries \in BOOLEAN, op.at \in Summing, PublishSummary(carries) PROVE LaneStep
  BY <1>8 DEF PublishSummary, Place, LaneStep, Inserted
<1>9. CASE HookDecides
  <2>1. op.at \in Summing
    BY <1>9 DEF HookDecides, At, StructuralInvariant, PassMatches, Summing
  <2>2. PublishDeclined => LaneStep
    BY <1>3 DEF PublishDeclined, KeepTree, LaneStep
  <2>3. KeepTree => LaneStep
    BY DEF KeepTree, LaneStep
  <2> QED
    BY <1>8, <1>9, <2>1, <2>2, <2>3 DEF HookDecides
<1>10. CASE PublishAttempt
  <2>1. op.at \in Summing
    BY <1>10 DEF PublishAttempt, At, StructuralInvariant, PassMatches, Summing
  <2>2. Carries(op.prep) \in BOOLEAN
    BY DEF Carries
  <2>3. KeepTree => LaneStep
    BY DEF KeepTree, LaneStep
  <2> QED
    BY <1>8, <1>10, <2>1, <2>2, <2>3 DEF PublishAttempt, WaitForRetry, PublishFailed
<1>11. CASE CommitNavigation
  BY <1>11 DEF CommitNavigation, Dispatch, LaneStep
<1> QED
  BY <1>2, <1>4, <1>5, <1>6, <1>7, <1>9, <1>10, <1>11 DEF PassStep

\* The two summaries.
LEMMA CompactionIs ==
  ASSUME EntriesLookBack, NEW p \in PreparationType, NEW e \in 0 .. Len(tree), NEW carries \in BOOLEAN
  PROVE  /\ Compaction(p, e, carries) \in EntryType
         /\ Compaction(p, e, carries).kind = "compaction"
         /\ Compaction(p, e, carries).branch = Path(e)
         /\ Compaction(p, e, carries).from = 0
         /\ Compaction(p, e, carries).told = p.history \union p.prefix
         /\ Compaction(p, e, carries).tail = p.kept
<1>1. PICK b \in SUBSET Ids : b = Path(e)
  BY PathLooksBack
<1>2. PICK t \in SUBSET Ids : t = p.history \union p.prefix
  BY DEF PreparationType
<1>3. PICK k \in SUBSET Ids : k = p.kept
  BY DEF PreparationType
<1>4. PICK y : y = Compaction(p, e, carries)
  OBVIOUS
<1>5. y \in [kind : {"compaction"}, branch : {b}, from : {0}, told : {t}, tail : {k},
              carries : BOOLEAN]
  BY <1>1, <1>2, <1>3, <1>4 DEF Compaction, Entry
<1>6. y \in EntryType
  <2>1. Ids \subseteq Int
    BY LengthIsNat DEF Ids
  <2>2. b \in SUBSET Int /\ t \in SUBSET Int /\ k \in SUBSET Int
    BY <2>1
  <2>3. y \in [kind : {"compaction"}, branch : SUBSET Int, from : {0}, told : SUBSET Int,
              tail : SUBSET Int, carries : BOOLEAN]
    BY <1>5, <2>2
  <2> QED
    BY <2>3 DEF EntryType, Kinds
<1> QED
  BY <1>1, <1>2, <1>3, <1>4, <1>5, <1>6

LEMMA BranchSummaryIs ==
  ASSUME EntriesLookBack, NEW p \in PreparationType, NEW source \in 0 .. Len(tree),
         NEW target \in 0 .. Len(tree)
  PROVE  /\ BranchSummary(p, source, target) \in EntryType
         /\ BranchSummary(p, source, target).kind = "branch"
         /\ BranchSummary(p, source, target).branch = Path(target)
         /\ BranchSummary(p, source, target).from = source
         /\ BranchSummary(p, source, target).told = p.history
         /\ BranchSummary(p, source, target).tail = {}
<1>1. PICK b \in SUBSET Ids : b = Path(target)
  BY PathLooksBack
<1>2. PICK h \in SUBSET Ids : h = p.history
  BY DEF PreparationType
<1>3. PICK y : y = BranchSummary(p, source, target)
  OBVIOUS
<1>4. y \in [kind : {"branch"}, branch : {b}, from : {source}, told : {h}, tail : {{}},
              carries : {TRUE}]
  BY <1>1, <1>2, <1>3 DEF BranchSummary, Entry
<1>5. y \in EntryType
  <2>1. Ids \subseteq Int /\ source \in Int
    BY LengthIsNat DEF Ids
  <2> QED
    BY <1>4, <2>1 DEF EntryType, Kinds
<1> QED
  BY <1>1, <1>2, <1>3, <1>4, <1>5

LEMMA InsertedFits ==
  ASSUME StructuralInvariant, NEW x, Inserted(x)
  PROVE  Fits(x)
<1>1. EntriesLookBack /\ tip \in 0 .. Len(tree) /\ op \in OpType /\ Len(tree) \in Nat
  BY LengthIsNat DEF StructuralInvariant, TypeOK
<1>2. \A e \in 0 .. Len(tree) : Path(e) \in SUBSET Ids
  BY <1>1, PathLooksBack
<1>3. ASSUME NEW kind \in Kinds, NEW branch \in SUBSET Ids PROVE Fits(Entry(kind, branch))
  BY <1>1, <1>3 DEF Fits, Entry, EntryType, Ids
<1>4. CASE x \in {Entry("assistant", Path(tip)), Entry("error", Path(tip))}
  BY <1>1, <1>2, <1>3, <1>4 DEF Kinds
<1>5. ASSUME op.at \in Summing, NEW carries \in BOOLEAN, x = SummaryEntry(carries) PROVE Fits(x)
  <2>1. /\ op.prep \in PreparationType /\ op.source \in 0 .. Len(tree)
        /\ op.target \in 0 .. Len(tree)
    BY <1>1, <1>5 DEF StructuralInvariant, TypeOK, OpType, PreparationType
  <2>2. PICK h \in SUBSET Ids : h = op.prep.history
    BY <2>1 DEF PreparationType
  <2>3. PICK t \in SUBSET Ids : t = op.prep.history \union op.prep.prefix
    BY <2>1 DEF PreparationType
  <2>4. PICK k \in SUBSET Ids : k = op.prep.kept
    BY <2>1 DEF PreparationType
  <2>5. PICK b \in SUBSET Ids : b = Path(tip)
    BY <1>1, <1>2
  <2>6. PICK d \in SUBSET Ids : d = Path(op.target)
    BY <1>2, <2>1
  <2>7. CASE op.boundary # "navigation"
    <3>1. x.branch = b /\ x.from = 0 /\ x.told = t /\ x.tail = k /\ x \in EntryType
      BY <1>1, <1>5, <2>1, <2>2, <2>3, <2>4, <2>5, <2>7, CompactionIs DEF SummaryEntry, EntryType
    <3> QED
      BY <1>1, <3>1 DEF Fits
  <2>8. CASE op.boundary = "navigation"
    <3>1. x.branch = d /\ x.from = op.source /\ x.told = h /\ x.tail = {} /\ x \in EntryType
      BY <1>1, <1>5, <2>1, <2>2, <2>6, <2>8, BranchSummaryIs DEF SummaryEntry
    <3> QED
      BY <2>1, <3>1 DEF Fits
  <2> QED
    BY <2>7, <2>8
<1> QED
  BY <1>4, <1>5 DEF Inserted

LEMMA LaneTypesKept ==
  ASSUME StructuralInvariant, LaneStep
  PROVE  LaneTypes' /\ Extends
<1>1. /\ EntriesLookBack /\ tip \in 0 .. Len(tree) /\ inbox \in Seq({"user", "note"})
      /\ op \in OpType /\ Len(tree) \in Nat
  BY LengthIsNat DEF StructuralInvariant, TypeOK
<1>2. \A s \in Seq({"user", "note"}) : s \in Seq(Kinds)
  BY SeqMonotonic DEF Kinds
<1>3. <<>> \in Seq({"user", "note"})
  OBVIOUS
<1>4. ASSUME UNCHANGED tree PROVE EntriesLookBack' /\ Extends
  BY <1>1, <1>4 DEF EntriesLookBack, Extends, Ids
<1>5. CASE UNCHANGED <<tree, tip>> /\ inbox' = inbox
  BY <1>1, <1>4, <1>5 DEF LaneTypes
<1>6. ASSUME UNCHANGED <<tree, tip>>, NEW kind \in {"user", "note"}, inbox' = Append(inbox, kind)
      PROVE  LaneTypes' /\ Extends
  BY <1>1, <1>4, <1>6 DEF LaneTypes
<1>7. CASE UNCHANGED <<tree, inbox>> /\ op.at = "navigation.ready_to_commit" /\ tip' = op.target
  BY <1>1, <1>4, <1>7 DEF LaneTypes, OpType
<1>8. ASSUME inbox' = <<>>, NEW kinds \in Seq({"user", "note"}), Grow(<<>>, kinds)
      PROVE  LaneTypes' /\ Extends
  BY <1>1, <1>2, <1>3, <1>8, TipGrows DEF LaneTypes
<1>9. ASSUME NEW x, Inserted(x), NEW kinds \in Seq({"user", "note"}), Grow(<<x>>, kinds),
             inbox' \in Seq({"user", "note"})
      PROVE  LaneTypes' /\ Extends
  <2>1. Fits(x) /\ kinds \in Seq(Kinds)
    BY <1>2, <1>9, InsertedFits
  <2>2. Extends /\ EntriesLookBack' /\ tip' = Len(tree')
    BY <1>1, <1>9, <2>1, EntryGrows
  <2>3. Len(tree') \in Nat
    BY <2>2 DEF Extends
  <2> QED
    BY <1>9, <2>2, <2>3 DEF LaneTypes
<1> QED
  BY <1>1, <1>3, <1>5, <1>6, <1>7, <1>8, <1>9 DEF LaneStep

LEMMA LaneChanges ==
  ASSUME StructuralInvariant, [Next]_vars
  PROVE  LaneStep /\ LaneTypes' /\ Extends
<1>1. UNCHANGED vars => LaneStep
  BY DEF vars, laneVars, LaneStep
<1> QED
  BY <1>1, HostLane, PassLane, LaneTypesKept DEF Next

\* The last queued message becomes an entry of this commit.
LEMMA TriggerIsNew ==
  ASSUME StructuralInvariant, NEW first,
         first = <<>> \/ \E x : Inserted(x) /\ first = <<x>>, Place(first), Projecting # {}
  PROVE  /\ Trigger(first) \in 0 .. Len(tree') /\ Trigger(first) > Len(tree)
         /\ Trigger(first) \in Int
<1>1. /\ EntriesLookBack /\ tip \in 0 .. Len(tree) /\ inbox \in Seq({"user", "note"})
      /\ Len(tree) \in Nat /\ Len(inbox) \in Nat /\ inbox \in Seq(Kinds)
  <2>1. Seq({"user", "note"}) \subseteq Seq(Kinds)
    BY SeqMonotonic DEF Kinds
  <2> QED
    BY <2>1, LengthIsNat, LenProperties DEF StructuralInvariant, TypeOK
<1>2. Max(Projecting) \in 1 .. Len(inbox)
  <2>1. Projecting \subseteq 0 .. Len(inbox) /\ Projecting \subseteq 1 .. Len(inbox)
    BY <1>1 DEF Projecting
  <2> QED
    BY <1>1, <2>1, MaxIsGreatest
<1>3. Len(first) \in Nat /\ Len(tree') = Len(tree) + Len(first) + Len(inbox)
  <2>1. CASE first = <<>>
    <3>1. Grow(<<>>, inbox)
      BY <2>1 DEF Place
    <3> QED
      BY <1>1, <2>1, <3>1, TipGrows
  <2>2. ASSUME NEW x, Inserted(x), first = <<x>>
        PROVE  Len(first) \in Nat /\ Len(tree') = Len(tree) + Len(first) + Len(inbox)
    <3>1. Grow(<<x>>, inbox) /\ Fits(x)
      BY <2>2, InsertedFits DEF Place
    <3>2. Len(tree') = Len(tree) + 1 + Len(inbox)
      BY <1>1, <3>1, EntryGrows
    <3> QED
      BY <2>2, <3>2
  <2> QED
    BY <2>1, <2>2
<1> HIDE DEF Projecting
<1> QED
  BY <1>1, <1>2, <1>3 DEF Trigger

----------------------------------------------------------------------------
(* Types: the operation.                                                    *)

\* What an operation is about agrees with its leaf.
Agrees(o) ==
  /\ o.at \in Summing <=> o.prep # NoPreparation
  /\ o.at = "none" => o = NoOp
  /\ o.at \in {"checkpoint", "ready", "pending"} => o.boundary = "none"
  /\ o.at \in Summing => o.boundary # "none"
  /\ o.at = "navigation.ready_to_commit" => o.boundary = "navigation"

Operation(n, attempts, preparations) ==
  [at : Leaves, boundary : {"none", "manual", "threshold", "overflow", "navigation"},
   cancelled : BOOLEAN, source : 0 .. n, trigger : 0 .. n,
   cont : {"need_assistant", "may_finish"}, used : BOOLEAN,
   attempt : 0 .. attempts, target : 0 .. n, prep : preparations]

LEMMA OpTypeIs ==
  /\ OpType = Operation(Len(tree), MaxAttempts, {NoPreparation} \union PreparationType)
  /\ OpType' = Operation(Len(tree'), MaxAttempts, {NoPreparation} \union PreparationType')
  BY DEF OpType, Operation, PreparationType, NoPreparation

LEMMA OpTypesAre ==
  /\ OpTypes <=> op \in OpType /\ Agrees(op) /\ settled \in 0 .. MaxOps /\ Accepted <= MaxOps
  /\ OpTypes' <=> op' \in OpType' /\ Agrees(op') /\ settled' \in 0 .. MaxOps /\ Accepted' <= MaxOps
  BY DEF OpTypes, OpMatches, Agrees, Idle

\* A new operation.
LEMMA NoOpIs ==
  ASSUME LaneTypes
  PROVE  NoOp \in OpType /\ Agrees(NoOp) /\ NoOp.at = "none"
<1>1. 0 \in 0 .. Len(tree) /\ 0 \in 0 .. MaxAttempts
  BY LengthIsNat, StructuralBounds DEF LaneTypes
<1> QED
  BY <1>1 DEF NoOp, OpType, Agrees, Leaves, Summing

\* Some fields of an operation are changed.
LEMMA AskIs ==
  ASSUME op \in OpType', NEW trigger \in 0 .. Len(tree'), NEW used \in BOOLEAN,
         AskAssistant(trigger, used), MaxAttempts \in Nat
  PROVE  /\ op' \in OpType' /\ Agrees(op') /\ op'.at = "ready" /\ op'.boundary = "none"
         /\ op'.trigger = trigger /\ op'.used = used /\ op'.cancelled = op.cancelled
<1>1. op' = [op EXCEPT !.at = "ready", !.boundary = "none", !.trigger = trigger,
                       !.used = used, !.attempt = 0, !.prep = NoPreparation]
  BY DEF AskAssistant
<1>2. op \in Operation(Len(tree'), MaxAttempts, {NoPreparation} \union PreparationType')
  BY OpTypeIs
<1>3. op' \in [at : {"ready"}, boundary : {"none"},
   cancelled : {op.cancelled}, source : 0 .. Len(tree'), trigger : {trigger},
   cont : {"need_assistant", "may_finish"}, used : {used},
   attempt : {0}, target : 0 .. Len(tree'), prep : {NoPreparation}]
  BY <1>1, <1>2 DEF Operation
<1>4. op.cancelled \in BOOLEAN
  BY <1>2 DEF Operation
<1>5. op' \in Operation(Len(tree'), MaxAttempts, {NoPreparation} \union PreparationType')
  BY <1>3, <1>4 DEF Operation, Leaves
<1> QED
  BY <1>3, <1>5, OpTypeIs DEF Agrees, Summing

LEMMA CompactIs ==
  ASSUME op \in OpType', NEW reason \in {"threshold", "overflow"}, NEW p \in PreparationType',
         NEW cont \in {"need_assistant", "may_finish"}, NEW used \in BOOLEAN,
         Compact(reason, p, cont, used), MaxAttempts \in Nat
  PROVE  /\ op' \in OpType' /\ Agrees(op') /\ op'.at = "summary.deciding" /\ op'.boundary = reason
         /\ op'.trigger = op.trigger /\ op'.used = used /\ op'.cancelled = op.cancelled
         /\ op'.prep = p
<1>1. op' = [op EXCEPT !.at = "summary.deciding", !.boundary = reason, !.prep = p,
                       !.cont = cont, !.used = used, !.attempt = 0]
  BY DEF Compact
<1>2. op \in Operation(Len(tree'), MaxAttempts, {NoPreparation} \union PreparationType')
  BY OpTypeIs
<1>3. op' \in [at : {"summary.deciding"}, boundary : {reason},
   cancelled : {op.cancelled}, source : 0 .. Len(tree'), trigger : {op.trigger},
   cont : {cont}, used : {used}, attempt : {0}, target : 0 .. Len(tree'), prep : {p}]
  BY <1>1, <1>2 DEF Operation
<1>4. op.cancelled \in BOOLEAN /\ op.trigger \in 0 .. Len(tree')
  BY <1>2 DEF Operation
<1>5. op' \in Operation(Len(tree'), MaxAttempts, {NoPreparation} \union PreparationType')
  BY <1>3, <1>4 DEF Operation, Leaves
<1>6. p # NoPreparation
  BY DEF PreparationType, NoPreparation
<1> QED
  BY <1>3, <1>5, <1>6, OpTypeIs DEF Agrees, Summing

\* A leaf is followed by another that is about the same.
LEMMA GotoIs ==
  ASSUME op \in OpType', Agrees(op), NEW leaf \in Leaves \ {"none"}, NEW attempt \in 0 .. MaxAttempts,
         op' = [op EXCEPT !.at = leaf, !.attempt = attempt], ~Idle,
         \/ op.at \in Summing /\ leaf \in Summing
         \/ /\ op.at \in {"checkpoint", "ready", "pending"}
            /\ leaf \in {"checkpoint", "ready", "pending"}
  PROVE  /\ op' \in OpType' /\ Agrees(op') /\ op'.at = leaf /\ op'.boundary = op.boundary
         /\ op'.trigger = op.trigger /\ op'.used = op.used /\ op'.cancelled = op.cancelled
         /\ op'.prep = op.prep /\ op'.source = op.source /\ op'.target = op.target
<1>1. op \in Operation(Len(tree'), MaxAttempts, {NoPreparation} \union PreparationType')
  BY OpTypeIs
<1>2. op' \in [at : {leaf}, boundary : {op.boundary},
   cancelled : {op.cancelled}, source : {op.source}, trigger : {op.trigger},
   cont : {op.cont}, used : {op.used}, attempt : {attempt}, target : {op.target}, prep : {op.prep}]
  BY <1>1 DEF Operation
<1>3. op' \in Operation(Len(tree'), MaxAttempts, {NoPreparation} \union PreparationType')
  BY <1>1, <1>2 DEF Operation
<1> QED
  BY <1>2, <1>3, OpTypeIs DEF Agrees, Summing, Idle

LEMMA GoesTo ==
  ASSUME op \in OpType', Agrees(op), NEW leaf \in Leaves \ {"none"}, Goto(leaf), ~Idle,
         \/ op.at \in Summing /\ leaf \in Summing
         \/ /\ op.at \in {"checkpoint", "ready", "pending"}
            /\ leaf \in {"checkpoint", "ready", "pending"}
  PROVE  /\ op' \in OpType' /\ Agrees(op') /\ op'.at = leaf /\ op'.boundary = op.boundary
         /\ op'.trigger = op.trigger /\ op'.used = op.used /\ op'.cancelled = op.cancelled
         /\ op'.prep = op.prep /\ op'.source = op.source /\ op'.target = op.target
<1>1. op \in Operation(Len(tree'), MaxAttempts, {NoPreparation} \union PreparationType')
  BY OpTypeIs
<1>2. op.attempt \in 0 .. MaxAttempts
  BY <1>1 DEF Operation
<1>3. op' = [op EXCEPT !.at = leaf, !.attempt = op.attempt]
  BY <1>1 DEF Goto, Operation
<1> QED
  BY <1>2, <1>3, GotoIs

LEMMA CancelIs ==
  ASSUME op \in OpType', Agrees(op), op' = [op EXCEPT !.cancelled = TRUE], ~Idle
  PROVE  /\ op' \in OpType' /\ Agrees(op') /\ op'.at = op.at /\ op'.boundary = op.boundary
         /\ op'.trigger = op.trigger /\ op'.used = op.used /\ op'.cancelled = TRUE
         /\ op'.prep = op.prep /\ op'.source = op.source /\ op'.target = op.target
<1>1. op \in Operation(Len(tree'), MaxAttempts, {NoPreparation} \union PreparationType')
  BY OpTypeIs
<1>2. op' \in [at : {op.at}, boundary : {op.boundary},
   cancelled : {TRUE}, source : {op.source}, trigger : {op.trigger},
   cont : {op.cont}, used : {op.used}, attempt : {op.attempt}, target : {op.target},
   prep : {op.prep}]
  BY <1>1 DEF Operation
<1>3. op' \in Operation(Len(tree'), MaxAttempts, {NoPreparation} \union PreparationType')
  BY <1>1, <1>2 DEF Operation
<1> QED
  BY <1>2, <1>3, OpTypeIs DEF Agrees, Idle

\* A response or a summary is followed by a checkpoint.
LEMMA CheckpointIs ==
  ASSUME op \in OpType', NEW trigger \in 0 .. Len(tree'), NEW used \in BOOLEAN,
         NEW cont \in {"need_assistant", "may_finish"},
         op' = [op EXCEPT !.at = "checkpoint", !.boundary = "none", !.trigger = trigger,
                          !.used = used, !.cont = cont, !.prep = NoPreparation]
  PROVE  /\ op' \in OpType' /\ Agrees(op') /\ op'.at = "checkpoint" /\ op'.boundary = "none"
         /\ op'.trigger = trigger /\ op'.used = used /\ op'.cancelled = op.cancelled
         /\ op'.cont = cont
<1>1. op \in Operation(Len(tree'), MaxAttempts, {NoPreparation} \union PreparationType')
  BY OpTypeIs
<1>2. op' \in [at : {"checkpoint"}, boundary : {"none"},
   cancelled : {op.cancelled}, source : {op.source}, trigger : {trigger},
   cont : {cont}, used : {used}, attempt : {op.attempt}, target : {op.target},
   prep : {NoPreparation}]
  BY <1>1 DEF Operation
<1>3. op' \in Operation(Len(tree'), MaxAttempts, {NoPreparation} \union PreparationType')
  BY <1>1, <1>2 DEF Operation, Leaves
<1> QED
  BY <1>2, <1>3, OpTypeIs DEF Agrees, Summing

\* A run goes on behind its summary.
LEMMA ResumesIs ==
  ASSUME StructuralInvariant, Extends, NEW first,
         first = <<>> \/ \E x : Inserted(x) /\ first = <<x>>, Place(first), Resumes(first)
  PROVE  /\ op' \in OpType' /\ Agrees(op') /\ op'.at \in {"ready", "checkpoint"}
         /\ op'.boundary = "none" /\ op'.cancelled = op.cancelled
         /\ \/ op'.trigger > Len(tree) /\ op'.used = FALSE
            \/ op'.trigger = op.trigger /\ op'.used = op.used
         /\ op'.at = "checkpoint" => Projecting = {} /\ op.cont # "need_assistant"
<1>1. op \in OpType /\ op \in OpType' /\ MaxAttempts \in Nat
  BY TypesWiden, StructuralBounds DEF StructuralInvariant, TypeOK
<1>2. op \in Operation(Len(tree'), MaxAttempts, {NoPreparation} \union PreparationType')
  BY <1>1, OpTypeIs
<1>3. /\ op.trigger \in 0 .. Len(tree') /\ op.used \in BOOLEAN
      /\ op.cont \in {"need_assistant", "may_finish"}
  BY <1>2 DEF Operation
<1>4. CASE Projecting # {}
  <2>1. Trigger(first) \in 0 .. Len(tree') /\ Trigger(first) > Len(tree)
    BY <1>4, TriggerIsNew
  <2>2. AskAssistant(Trigger(first), FALSE)
    BY <1>4 DEF Resumes
  <2> QED
    BY <1>1, <2>1, <2>2, AskIs
<1>5. CASE Projecting = {} /\ op.cont = "need_assistant"
  <2>1. AskAssistant(op.trigger, op.used)
    BY <1>5 DEF Resumes
  <2> QED
    BY <1>1, <1>3, <2>1, AskIs
<1>6. CASE Projecting = {} /\ op.cont # "need_assistant"
  <2>1. op' = [op EXCEPT !.at = "checkpoint", !.boundary = "none", !.trigger = op.trigger,
                         !.used = op.used, !.cont = op.cont, !.prep = NoPreparation]
    BY <1>2, <1>6 DEF Resumes, Operation
  <2> QED
    BY <1>1, <1>3, <1>6, <2>1, CheckpointIs
<1> QED
  BY <1>4, <1>5, <1>6

\* How an operation may go on, settle or begin.
LEMMA OpGoesOn ==
  ASSUME StructuralInvariant, Extends, LaneTypes', settled' = settled
  PROVE  /\ op' = op => OpTypes'
         /\ op' \in OpType' /\ Agrees(op') /\ op'.at # "none" /\ ~Idle => OpTypes'
         /\ op' \in OpType' /\ Agrees(op') /\ op'.at # "none" /\ Accepted < MaxOps /\ Idle => OpTypes'
<1>1. OpTypes /\ op \in OpType' /\ settled \in Int /\ MaxOps \in Int
  BY PartsAreAll, TypesWiden, StructuralBounds DEF OpTypes
<1> QED
  BY <1>1, OpTypesAre DEF Accepted, Idle

LEMMA OpSettles ==
  ASSUME StructuralInvariant, Extends, LaneTypes', ~Idle, op' = NoOp, settled' = settled + 1
  PROVE  OpTypes'
<1>1. OpTypes /\ settled \in Int /\ MaxOps \in Int
  BY PartsAreAll, TypesWiden, StructuralBounds DEF OpTypes
<1>2. op' \in OpType'
  <2>1. 0 \in 0 .. Len(tree') /\ 0 \in 0 .. MaxAttempts
    BY LengthIsNat, StructuralBounds DEF Extends
  <2>2. op' \in Operation(Len(tree'), MaxAttempts, {NoPreparation} \union PreparationType')
    BY <2>1 DEF NoOp, Operation, Leaves
  <2> QED
    BY <2>2, OpTypeIs
<1>3. Agrees(op') /\ op'.at = "none"
  BY DEF NoOp, Agrees, Summing
<1> QED
  BY <1>1, <1>2, <1>3, OpTypesAre DEF Accepted, Idle

\* What all steps start from.
LEMMA Given ==
  ASSUME StructuralInvariant, Extends
  PROVE  /\ op \in OpType /\ op \in OpType' /\ Agrees(op) /\ MaxAttempts \in Nat
         /\ Len(tree) \in Nat /\ Len(tree') \in Nat /\ EntriesLookBack
         /\ tip \in 0 .. Len(tree) /\ 0 .. Len(tree) \subseteq 0 .. Len(tree')
         /\ op.trigger \in 0 .. Len(tree) /\ op.used \in BOOLEAN /\ op.attempt \in 0 .. MaxAttempts
         /\ op.cont \in {"need_assistant", "may_finish"}
         /\ pass \in PassType /\ pass \in PassType' /\ nav \in NavType /\ nav \in NavType'
<1>1. op \in OpType /\ EntriesLookBack /\ tip \in 0 .. Len(tree) /\ PassMatches /\ NavMatches
  BY DEF StructuralInvariant, TypeOK
<1>2. Agrees(op) /\ MaxAttempts \in Nat
  BY PartsAreAll, OpTypesAre, StructuralBounds
<1>3. op \in Operation(Len(tree), MaxAttempts, {NoPreparation} \union PreparationType)
  BY <1>1, OpTypeIs
<1>4. /\ op.trigger \in 0 .. Len(tree) /\ op.used \in BOOLEAN /\ op.attempt \in 0 .. MaxAttempts
      /\ op.cont \in {"need_assistant", "may_finish"}
  BY <1>3 DEF Operation
<1> QED
  BY <1>1, <1>2, <1>4, TypesWiden DEF PassMatches, NavMatches, Extends

LEMMA HostOp ==
  ASSUME StructuralInvariant, HostStep, Extends, LaneTypes'
  PROVE  OpTypes'
<1>1. ASSUME NEW kind, AppendEntry(kind) PROVE OpTypes'
  BY <1>1, OpGoesOn DEF AppendEntry
<1>2. ASSUME NEW target, NEW summarize, ObserveTip(target, summarize) PROVE OpTypes'
  BY <1>2, OpGoesOn DEF ObserveTip
<1>3. CASE InstallPass \/ Crash \/ ReportRetry
  BY <1>3, OpGoesOn DEF InstallPass, Crash, ReportRetry
<1>4. CASE RequestAbort
  <2>1. op' = [op EXCEPT !.cancelled = TRUE] /\ ~Idle /\ settled' = settled
    BY <1>4 DEF RequestAbort
  <2>2. op' \in OpType' /\ Agrees(op') /\ op'.at = op.at
    BY <2>1, CancelIs, Given
  <2> QED
    BY <2>1, <2>2, OpGoesOn DEF Idle
<1>5. CASE AcceptRun
  <2>1. /\ op' = [NoOp EXCEPT !.at = "checkpoint", !.source = tip, !.trigger = tip']
        /\ settled' = settled /\ Idle /\ Accepted < MaxOps
    BY <1>5 DEF AcceptRun
  <2>2. tip \in 0 .. Len(tree') /\ tip' \in 0 .. Len(tree') /\ 0 \in 0 .. Len(tree')
        /\ 0 \in 0 .. MaxAttempts
    BY Given DEF LaneTypes
  <2>3. op' \in [at : {"checkpoint"}, boundary : {"none"},
     cancelled : {FALSE}, source : {tip}, trigger : {tip'},
     cont : {"need_assistant"}, used : {FALSE}, attempt : {0}, target : {0}, prep : {NoPreparation}]
    BY <2>1 DEF NoOp
  <2>4. op' \in Operation(Len(tree'), MaxAttempts, {NoPreparation} \union PreparationType')
    BY <2>2, <2>3 DEF Operation, Leaves
  <2>5. Agrees(op') /\ op'.at # "none"
    BY <2>3 DEF Agrees, Summing
  <2> QED
    BY <2>1, <2>4, <2>5, OpTypeIs, OpGoesOn
<1>6. CASE AcceptCompaction
  <2>1. PICK p \in Preparations(tip) :
          op' = [NoOp EXCEPT !.at = "summary.deciding", !.boundary = "manual", !.source = tip,
                             !.prep = p]
    BY <1>6 DEF AcceptCompaction
  <2>2. settled' = settled /\ Idle /\ Accepted < MaxOps
    BY <1>6 DEF AcceptCompaction
  <2>3. tip \in 0 .. Len(tree') /\ 0 \in 0 .. Len(tree') /\ 0 \in 0 .. MaxAttempts
    BY Given DEF LaneTypes
  <2>4. p \in PreparationType' /\ p # NoPreparation
    BY PreparationIs, Given, TypesWiden
  <2>5. op' \in [at : {"summary.deciding"}, boundary : {"manual"},
     cancelled : {FALSE}, source : {tip}, trigger : {0},
     cont : {"need_assistant"}, used : {FALSE}, attempt : {0}, target : {0}, prep : {p}]
    BY <2>1 DEF NoOp
  <2>6. op' \in Operation(Len(tree'), MaxAttempts, {NoPreparation} \union PreparationType')
    BY <2>3, <2>4, <2>5 DEF Operation, Leaves
  <2>7. Agrees(op') /\ op'.at # "none"
    BY <2>4, <2>5 DEF Agrees, Summing
  <2> QED
    BY <2>2, <2>6, <2>7, OpTypeIs, OpGoesOn
<1>7. CASE AcceptNavigation
  <2>1. settled' = settled
    BY <1>7 DEF AcceptNavigation
  <2>2. CASE op' = op
    BY <2>1, <2>2, OpGoesOn
  <2>3. CASE op' # op
    <3>1. /\ Idle /\ Accepted < MaxOps /\ nav.asked
          /\ op' = [NoOp EXCEPT !.source = tip, !.target = nav.target,
                                !.boundary = "navigation",
                                !.at = IF nav.summarize THEN "summary.deciding"
                                       ELSE "navigation.ready_to_commit",
                                !.prep = IF nav.summarize THEN nav.prep ELSE NoPreparation]
      <4>1. Accepted # MaxOps /\ Idle /\ nav.asked
        BY <1>7, <2>3 DEF AcceptNavigation
      <4>2. Accepted \in Int /\ MaxOps \in Int /\ Accepted <= MaxOps
        BY StructuralBounds, PartsAreAll, OpTypesAre DEF Accepted
      <4> QED
        BY <1>7, <2>3, <4>1, <4>2 DEF AcceptNavigation
    <3>2. /\ tip \in 0 .. Len(tree') /\ 0 \in 0 .. Len(tree') /\ 0 \in 0 .. MaxAttempts
          /\ nav \in NavType' /\ nav.prep # NoPreparation
      BY <3>1, Given DEF LaneTypes, StructuralInvariant, NavMatches
    <3>3. /\ nav.target \in 0 .. Len(tree') /\ nav.prep \in PreparationType'
          /\ nav.summarize \in BOOLEAN
      BY <3>2 DEF NavType
    <3>4. CASE nav.summarize
      <4>1. op' \in [at : {"summary.deciding"}, boundary : {"navigation"},
         cancelled : {FALSE}, source : {tip}, trigger : {0}, cont : {"need_assistant"},
         used : {FALSE}, attempt : {0}, target : {nav.target}, prep : {nav.prep}]
        BY <3>1, <3>4 DEF NoOp
      <4>2. op' \in Operation(Len(tree'), MaxAttempts, {NoPreparation} \union PreparationType')
        BY <3>2, <3>3, <4>1 DEF Operation, Leaves
      <4>3. Agrees(op') /\ op'.at # "none"
        BY <3>2, <4>1 DEF Agrees, Summing
      <4> QED
        BY <2>1, <3>1, <4>2, <4>3, OpTypeIs, OpGoesOn
    <3>5. CASE ~nav.summarize
      <4>1. op' \in [at : {"navigation.ready_to_commit"}, boundary : {"navigation"},
         cancelled : {FALSE}, source : {tip}, trigger : {0}, cont : {"need_assistant"},
         used : {FALSE}, attempt : {0}, target : {nav.target}, prep : {NoPreparation}]
        BY <3>1, <3>5 DEF NoOp
      <4>2. op' \in Operation(Len(tree'), MaxAttempts, {NoPreparation} \union PreparationType')
        BY <3>2, <3>3, <4>1 DEF Operation, Leaves
      <4>3. Agrees(op') /\ op'.at # "none"
        BY <4>1 DEF Agrees, Summing
      <4> QED
        BY <2>1, <3>1, <4>2, <4>3, OpTypeIs, OpGoesOn
    <3> QED
      BY <3>4, <3>5
  <2> QED
    BY <2>2, <2>3
<1> QED
  BY <1>1, <1>2, <1>3, <1>4, <1>5, <1>6, <1>7 DEF HostStep

----------------------------------------------------------------------------
(* Types: the pass.                                                         *)

\* A pass starts again, or ends with its operation.
LEMMA PassIsFresh ==
  ASSUME pass' = NoPass \/ (Again /\ op'.at # "none")
  PROVE  PassTypes' /\ pass'.pc \in {"off", "dispatch"} /\ pass'.prep = NoPreparation
<1>1. /\ pass' \in [pc : {"off", "dispatch"}, prep : {NoPreparation}, back : {"none"}]
  BY DEF NoPass, Again
<1>2. pass' \in PassType'
  BY <1>1 DEF PassType, PcType, BackType
<1>3. PassMatches'
  BY <1>1, <1>2 DEF PassMatches
<1> QED
  BY <1>1, <1>3 DEF PassTypes, Idle

\* A pass goes on where it was.
LEMMA PassIsKept ==
  ASSUME StructuralInvariant, Extends, pass' = pass, turns' = turns,
         (op'.at = op.at /\ op'.boundary = op.boundary) \/ pass.pc \in {"off", "dispatch"},
         Idle' => Idle
  PROVE  PassTypes'
<1>1. PassMatches /\ (Idle => pass = NoPass)
  BY DEF StructuralInvariant, TypeOK
<1>2. pass' \in PassType'
  BY Given
<1>3. PassMatches'
  BY <1>1, <1>2 DEF PassMatches
<1> QED
  BY <1>1, <1>3 DEF PassTypes

\* A pass goes on from a leaf that it has just read.
LEMMA PassMoves ==
  ASSUME StructuralInvariant, Extends, ~Idle', pass.pc \in {"dispatch", "request"},
         NEW pc \in PcType, NEW back \in BackType, pass' = [pass EXCEPT !.pc = pc, !.back = back],
         \/ pc = "answer" /\ op'.at = "pending"
         \/ pc = "deciding" /\ op'.at = "summary.deciding"
         \/ pc \in {"request", "summarized"} /\ op'.at = "summary.effect_pending"
         \/ pc = "timer" /\ op'.at = "summary.retry_wait"
  PROVE  PassTypes' /\ pass'.pc = pc /\ pass'.prep = NoPreparation
<1>1. PassMatches /\ pass.prep = NoPreparation
  BY DEF StructuralInvariant, PassMatches
<1>2. pass \in PassType
  BY <1>1 DEF PassMatches
<1>3. pass' \in [pc : {pc}, prep : {NoPreparation}, back : {back}]
  BY <1>1, <1>2 DEF PassType
<1>4. pass' \in PassType'
  BY <1>3 DEF PassType
<1>5. PassMatches'
  BY <1>3, <1>4 DEF PassMatches
<1> QED
  BY <1>3, <1>5 DEF PassTypes

LEMMA PassMovesOn ==
  ASSUME StructuralInvariant, Extends, ~Idle', pass.pc \in {"dispatch", "request"},
         NEW pc \in PcType, pass' = [pass EXCEPT !.pc = pc],
         \/ pc = "answer" /\ op'.at = "pending"
         \/ pc = "deciding" /\ op'.at = "summary.deciding"
         \/ pc \in {"request", "summarized"} /\ op'.at = "summary.effect_pending"
         \/ pc = "timer" /\ op'.at = "summary.retry_wait"
  PROVE  PassTypes' /\ pass'.pc = pc /\ pass'.prep = NoPreparation
<1>1. pass \in PassType
  BY DEF StructuralInvariant, PassMatches
<1>2. pass.back \in BackType /\ pass' = [pass EXCEPT !.pc = pc, !.back = pass.back]
  BY <1>1 DEF PassType
<1> QED
  BY <1>2, PassMoves

\* A pass asks the hook of the end.
LEMMA PassEnds ==
  ASSUME pass' = [NoPass EXCEPT !.pc = "end_hook"], op'.at # "none",
         op'.at = "checkpoint" \/ (op'.at = "summary.deciding" /\ op'.boundary = "threshold")
  PROVE  PassTypes' /\ pass'.pc = "end_hook" /\ pass'.prep = NoPreparation
<1>1. pass' \in [pc : {"end_hook"}, prep : {NoPreparation}, back : {"none"}]
  BY DEF NoPass
<1>2. pass' \in PassType'
  BY <1>1 DEF PassType, PcType, BackType
<1>3. PassMatches'
  BY <1>1, <1>2 DEF PassMatches
<1> QED
  BY <1>1, <1>3 DEF PassTypes, Idle

LEMMA HostPass ==
  ASSUME StructuralInvariant, HostStep, Extends
  PROVE  PassTypes'
<1>1. PassMatches /\ (Idle => pass = NoPass)
  BY DEF StructuralInvariant, TypeOK
<1>2. ASSUME NEW kind, AppendEntry(kind) PROVE PassTypes'
  BY <1>2, PassIsKept DEF AppendEntry, Idle
<1>3. ASSUME NEW target, NEW summarize, ObserveTip(target, summarize) PROVE PassTypes'
  BY <1>3, PassIsKept DEF ObserveTip, budgets, Idle
<1>4. CASE InstallPass
  BY <1>4, PassIsFresh DEF InstallPass, Idle
<1>5. CASE Crash \/ ReportRetry
  BY <1>5, PassIsFresh DEF Crash, ReportRetry
<1>6. CASE RequestAbort
  <2>1. op'.at = op.at /\ op'.boundary = op.boundary
    BY <1>6, CancelIs, Given DEF RequestAbort
  <2> QED
    BY <1>6, <2>1, PassIsKept DEF RequestAbort, budgets, Idle
<1>7. CASE AcceptRun \/ AcceptCompaction
  <2>1. pass' = NoPass
    BY <1>1, <1>7 DEF AcceptRun, AcceptCompaction
  <2> QED
    BY <2>1, PassIsFresh
<1>8. CASE AcceptNavigation
  <2>1. op' = op \/ (Idle /\ pass' = NoPass)
    BY <1>1, <1>8 DEF AcceptNavigation
  <2>2. pass' = pass /\ turns' = turns
    BY <1>8 DEF AcceptNavigation, budgets
  <2>3. CASE op' = op
    BY <2>2, <2>3, PassIsKept DEF Idle
  <2> QED
    BY <2>1, <2>3, PassIsFresh
<1> QED
  BY <1>2, <1>3, <1>4, <1>5, <1>6, <1>7, <1>8 DEF HostStep

----------------------------------------------------------------------------
(* Types: the steps of a pass.                                              *)

LEMMA Driven ==
  ASSUME StructuralInvariant
  PROVE  /\ pass.pc # "off" => ~Idle
         /\ pass.pc = "dispatch" => pass.prep = NoPreparation
  BY DEF StructuralInvariant, TypeOK, PassMatches, NoPass

\* The operation settles.
LEMMA SettleIs ==
  ASSUME StructuralInvariant, Extends, LaneTypes', pass.pc # "off", NEW status, Settle(status)
  PROVE  OpTypes' /\ PassTypes'
<1>1. ~Idle
  BY Driven
<1> QED
  BY <1>1, OpSettles, PassIsFresh DEF Settle

LEMMA SummaryPublished ==
  ASSUME StructuralInvariant, Extends, LaneTypes', pass.pc # "off", op.at \in Summing,
         NEW carries \in BOOLEAN, PublishSummary(carries)
  PROVE  OpTypes' /\ PassTypes'
<1>1. CASE ~InRun
  BY <1>1, SettleIs DEF PublishSummary
<1>2. CASE InRun
  <2>1. PICK first : first = <<SummaryEntry(carries)>>
    OBVIOUS
  <2>2. Place(first) /\ Resumes(first) /\ Again /\ settled' = settled
    BY <1>2, <2>1 DEF PublishSummary
  <2>3. \E x : Inserted(x) /\ first = <<x>>
    BY <2>1 DEF Inserted
  <2>4. op' \in OpType' /\ Agrees(op') /\ op'.at \in {"ready", "checkpoint"}
    BY <2>2, <2>3, ResumesIs
  <2>5. ~Idle
    BY Driven
  <2> QED
    BY <2>2, <2>4, <2>5, OpGoesOn, PassIsFresh
<1> QED
  BY <1>1, <1>2

LEMMA DeclinedPublished ==
  ASSUME StructuralInvariant, Extends, LaneTypes', pass.pc = "deciding", PublishDeclined
  PROVE  OpTypes' /\ PassTypes'
<1>1. ~Idle /\ op.at = "summary.deciding"
  BY Driven DEF StructuralInvariant, PassMatches
<1>2. CASE op.boundary = "threshold" /\ Place(<<>>) /\ Resumes(<<>>) /\ Again /\ settled' = settled
  <2>1. op' \in OpType' /\ Agrees(op') /\ op'.at \in {"ready", "checkpoint"}
    <3>1. PICK first : first = <<>>
      OBVIOUS
    <3>2. Place(first) /\ Resumes(first)
      BY <1>2, <3>1
    <3> QED
      BY <3>1, <3>2, ResumesIs
  <2> QED
    BY <1>1, <1>2, <2>1, OpGoesOn, PassIsFresh
<1>3. CASE /\ op.boundary = "threshold" /\ pass' = [NoPass EXCEPT !.pc = "end_hook"]
           /\ UNCHANGED <<op, settled>>
  BY <1>1, <1>3, OpGoesOn, PassEnds
<1>4. CASE Settle("failed") \/ Settle("declined")
  BY <1>4, SettleIs
<1> QED
  BY <1>2, <1>3, <1>4 DEF PublishDeclined

LEMMA RunTypes ==
  ASSUME StructuralInvariant, Extends, LaneTypes',
         Reconcile \/ CancelSeen \/ ReadThreshold \/ RunCheckpoint \/ FinishRun
  PROVE  OpTypes' /\ PassTypes'
<1>1. PassMatches /\ OpMatches
  BY DEF StructuralInvariant
<1>2. CASE Reconcile
  <2>1. pass.pc = "dispatch" /\ ~Idle
    BY <1>2, Driven DEF Reconcile, At
  <2>2. CASE op.at # "pending"
    BY <1>2, <2>1, <2>2, SettleIs DEF Reconcile
  <2>3. CASE op.at = "pending"
    <3>1. Goto("checkpoint") /\ UNCHANGED <<pass, settled, turns>>
      BY <1>2, <2>3 DEF Reconcile
    <3>2. op' \in OpType' /\ Agrees(op') /\ op'.at = "checkpoint" /\ op'.boundary = op.boundary
      <4>1. "checkpoint" \in Leaves \ {"none"}
        BY DEF Leaves
      <4> QED
        BY <2>1, <2>3, <3>1, <4>1, GoesTo, Given
    <3> QED
      BY <2>1, <3>1, <3>2, OpGoesOn, PassIsKept DEF Idle
  <2> QED
    BY <2>2, <2>3
<1>3. CASE CancelSeen
  <2>1. ~Idle /\ Again /\ op' = op /\ settled' = settled
    BY <1>3, Driven DEF CancelSeen
  <2> QED
    BY <2>1, OpGoesOn, PassIsFresh DEF Idle
<1>4. CASE ReadThreshold
  <2>1. pass.pc = "dispatch" /\ op.at = "checkpoint" /\ op' = op /\ settled' = settled /\ ~Idle
    BY <1>4, Driven DEF ReadThreshold, Dispatch, At
  <2>2. PICK p \in {NoPreparation} \union Preparations(tip) :
          pass' = [pass EXCEPT !.pc = "checkpoint", !.prep = p]
    BY <1>4 DEF ReadThreshold
  <2>3. p \in {NoPreparation} \union PreparationType'
    BY PreparationIs, Given, TypesWiden
  <2>4. pass' \in [pc : {"checkpoint"}, prep : {p}, back : {pass.back}] /\ pass.back \in BackType
    BY <1>1, <2>2 DEF PassMatches, PassType
  <2>5. pass' \in PassType'
    BY <2>3, <2>4 DEF PassType, PcType
  <2>6. PassMatches'
    BY <2>1, <2>4, <2>5 DEF PassMatches
  <2> QED
    BY <2>1, <2>6, OpGoesOn DEF PassTypes, Idle
<1>5. ASSUME NEW trigger \in 0 .. Len(tree'), NEW used \in BOOLEAN, AskAssistant(trigger, used),
             ~Idle, Again, settled' = settled
      PROVE  OpTypes' /\ PassTypes'
  <2>1. op' \in OpType' /\ Agrees(op') /\ op'.at = "ready"
    BY <1>5, AskIs, Given
  <2> QED
    BY <1>5, <2>1, OpGoesOn, PassIsFresh
<1>6. ASSUME Place(<<>>), Projecting # {} PROVE Trigger(<<>>) \in 0 .. Len(tree')
  <2>1. PICK first : first = <<>>
    OBVIOUS
  <2> QED
    BY <1>6, <2>1, TriggerIsNew
<1>7. CASE RunCheckpoint
  <2>1. pass.pc = "checkpoint" /\ op.at = "checkpoint" /\ ~Idle /\ settled' = settled
    BY <1>1, <1>7, Driven DEF RunCheckpoint, At, PassMatches
  <2>2. CASE Projecting # {}
    BY <1>5, <1>6, <1>7, <2>1, <2>2 DEF RunCheckpoint
  <2>3. CASE Projecting = {} /\ pass.prep # NoPreparation
    <3>1. Compact("threshold", pass.prep, op.cont, op.used) /\ Again
      BY <1>7, <2>3 DEF RunCheckpoint
    <3>2. pass.prep \in PreparationType'
      BY <2>3, Given DEF PassType
    <3>3. op' \in OpType' /\ Agrees(op') /\ op'.at = "summary.deciding"
      BY <3>1, <3>2, CompactIs, Given
    <3> QED
      BY <2>1, <3>1, <3>3, OpGoesOn, PassIsFresh
  <2>4. CASE Projecting = {} /\ pass.prep = NoPreparation /\ op.cont = "need_assistant"
    <3>1. AskAssistant(op.trigger, op.used) /\ Again
      BY <1>7, <2>4 DEF RunCheckpoint
    <3> QED
      BY <1>5, <2>1, <3>1, Given
  <2>5. CASE Projecting = {} /\ pass.prep = NoPreparation /\ op.cont # "need_assistant"
    <3>1. op' = op /\ op.cont \in {"need_assistant", "may_finish"}
      BY <1>7, <2>5, Given DEF RunCheckpoint
    <3>2. OpTypes'
      BY <2>1, <3>1, OpGoesOn
    <3>3. pass' = [NoPass EXCEPT !.pc = "end_hook"]
      BY <1>7, <2>5 DEF RunCheckpoint
    <3>4. op'.at = "checkpoint" /\ op'.at # "none"
      BY <2>1, <3>1
    <3>5. PassTypes'
      BY <3>3, <3>4, PassEnds
    <3> QED
      BY <3>2, <3>5
  <2> QED
    BY <2>2, <2>3, <2>4, <2>5
<1>8. CASE FinishRun
  <2>1. pass.pc # "off" /\ ~Idle
    BY <1>8, Driven DEF FinishRun, At
  <2>2. CASE Projecting # {}
    BY <1>5, <1>6, <1>8, <2>1, <2>2 DEF FinishRun
  <2>3. CASE Projecting = {}
    BY <1>8, <2>1, <2>3, SettleIs DEF FinishRun
  <2> QED
    BY <2>2, <2>3
<1> QED
  BY <1>2, <1>3, <1>4, <1>7, <1>8

LEMMA ResponseTypes ==
  ASSUME StructuralInvariant, Extends, LaneTypes',
         CallProvider \/ ProviderAnswers \/ PublishResponse \/ RecoverAssistant
  PROVE  OpTypes' /\ PassTypes'
<1>1. PassMatches /\ OpMatches
  BY DEF StructuralInvariant
<1>2. CASE CallProvider
  <2>1. /\ pass.pc = "dispatch" /\ op.at = "ready" /\ Goto("pending") /\ settled' = settled
        /\ pass' = [pass EXCEPT !.pc = "answer"] /\ ~Idle
    BY <1>2, Driven DEF CallProvider, Dispatch, At
  <2>2. op' \in OpType' /\ Agrees(op') /\ op'.at = "pending"
    <3>1. "pending" \in Leaves \ {"none"}
      BY DEF Leaves
    <3> QED
      BY <2>1, <3>1, GoesTo, Given
  <2>3. OpTypes'
    BY <2>1, <2>2, OpGoesOn
  <2>4. "answer" \in PcType /\ ~Idle'
    BY <2>2 DEF PcType, Idle
  <2> QED
    BY <2>1, <2>2, <2>3, <2>4, PassMovesOn
<1>3. CASE ProviderAnswers
  <2>1. /\ pass.pc = "answer" /\ op.at = "pending" /\ op' = op /\ settled' = settled
        /\ turns' = turns /\ ~Idle
    BY <1>1, <1>3, Driven DEF ProviderAnswers, At, PassMatches
  <2>2. PICK r \in {"stop", "tools", "retry", "fatal", "overflow"},
             p \in {NoPreparation} \union Preparations(tip) :
          /\ r \in {"tools", "retry"} => turns < MaxTurns
          /\ pass' = [pc |-> "respond", prep |-> p, back |-> r]
    BY <1>3 DEF ProviderAnswers
  <2>3. p \in {NoPreparation} \union PreparationType'
    BY PreparationIs, Given, TypesWiden
  <2>4. pass' \in PassType'
    BY <2>2, <2>3 DEF PassType, PcType, BackType
  <2>5. PassMatches'
    BY <2>1, <2>2, <2>4 DEF PassMatches
  <2> QED
    BY <2>1, <2>5, OpGoesOn DEF PassTypes, Idle
<1>4. CASE PublishResponse
  <2>1. pass.pc = "respond" /\ op.at = "pending" /\ ~Idle
    BY <1>1, <1>4, Driven DEF PublishResponse, At, PassMatches
  <2>2. Grow(<<Entry(IF ~op.cancelled /\ pass.back \in {"stop", "tools"} THEN "assistant" ELSE "error", Path(tip))>>, <<>>)
    BY <1>4 DEF PublishResponse
  <2>3. Len(tree) + 1 \in 0 .. Len(tree')
    <3>1. PICK x : x = Entry(IF ~op.cancelled /\ pass.back \in {"stop", "tools"} THEN "assistant" ELSE "error", Path(tip))
      OBVIOUS
    <3>2. Inserted(x) /\ Grow(<<x>>, <<>>)
      BY <2>2, <3>1 DEF Inserted
    <3>3. <<>> \in Seq(Kinds)
      OBVIOUS
    <3>4. Len(tree') = Len(tree) + 1 + Len(<<>>)
      BY <3>2, <3>3, InsertedFits, EntryGrows, Given
    <3> QED
      BY <3>4, Given
  <2>4. ASSUME NEW cont \in {"need_assistant", "may_finish"}, Again, settled' = settled,
               op' = [op EXCEPT !.at = "checkpoint", !.trigger = Len(tree) + 1, !.used = FALSE, !.cont = cont]
        PROVE  OpTypes' /\ PassTypes'
    <3>1. op.boundary = "none" /\ op.prep = NoPreparation
      BY <1>1, <2>1, Given DEF OpMatches, Agrees, Summing
    <3>2. op' = [op EXCEPT !.at = "checkpoint", !.boundary = "none", !.trigger = Len(tree) + 1,
                           !.used = FALSE, !.cont = cont, !.prep = NoPreparation]
      <4>1. op \in Operation(Len(tree'), MaxAttempts, {NoPreparation} \union PreparationType')
        BY OpTypeIs, Given
      <4> QED
        BY <2>4, <3>1, <4>1 DEF Operation
    <3>3. op' \in OpType' /\ Agrees(op') /\ op'.at = "checkpoint"
      BY <2>3, <3>2, CheckpointIs, Given
    <3> QED
      BY <2>1, <2>4, <3>3, OpGoesOn, PassIsFresh
  <2>5. ASSUME Goto("ready"), Again, settled' = settled PROVE OpTypes' /\ PassTypes'
    <3>1. "ready" \in Leaves \ {"none"}
      BY DEF Leaves
    <3>2. op' \in OpType' /\ Agrees(op') /\ op'.at = "ready"
      BY <2>1, <2>5, <3>1, GoesTo, Given
    <3> QED
      BY <2>1, <2>5, <3>2, OpGoesOn, PassIsFresh
  <2>6. ASSUME pass.prep # NoPreparation, Compact("overflow", pass.prep, "need_assistant", TRUE),
               Again, settled' = settled
        PROVE  OpTypes' /\ PassTypes'
    <3>1. pass.prep \in PreparationType'
      BY <2>6, Given DEF PassType
    <3>2. op' \in OpType' /\ Agrees(op') /\ op'.at = "summary.deciding"
      BY <2>6, <3>1, CompactIs, Given
    <3> QED
      BY <2>1, <2>6, <3>2, OpGoesOn, PassIsFresh
  <2>7. Settle("failed") => OpTypes' /\ PassTypes'
    BY <2>1, SettleIs
  <2> QED
    BY <1>4, <2>4, <2>5, <2>6, <2>7 DEF PublishResponse
<1>5. CASE RecoverAssistant
  <2>1. pass.pc = "dispatch" /\ op.at = "pending" /\ ~Idle
    BY <1>5, Driven DEF RecoverAssistant, Dispatch, At
  <2>2. CASE Goto("ready") /\ Again /\ settled' = settled
    <3>1. "ready" \in Leaves \ {"none"}
      BY DEF Leaves
    <3>2. op' \in OpType' /\ Agrees(op') /\ op'.at = "ready"
      BY <2>1, <2>2, <3>1, GoesTo, Given
    <3> QED
      BY <2>1, <2>2, <3>2, OpGoesOn, PassIsFresh
  <2> QED
    BY <1>5, <2>1, <2>2, SettleIs DEF RecoverAssistant
<1> QED
  BY <1>2, <1>3, <1>4, <1>5

LEMMA SummaryTypes ==
  ASSUME StructuralInvariant, Extends, LaneTypes',
         \/ Decide \/ HookDecides \/ Generate \/ Summarize \/ PublishAttempt \/ RecoverSummary
         \/ StartTimer \/ TimerEnds \/ CommitNavigation
  PROVE  OpTypes' /\ PassTypes'
<1>1. PassMatches /\ OpMatches
  BY DEF StructuralInvariant
<1>2. CASE Decide
  <2>1. /\ pass.pc = "dispatch" /\ op.at = "summary.deciding" /\ op' = op /\ settled' = settled
        /\ pass' = [pass EXCEPT !.pc = "deciding"] /\ ~Idle
    BY <1>2, Driven DEF Decide, Dispatch, At
  <2>2. "deciding" \in PcType /\ ~Idle'
    BY <2>1 DEF PcType, Idle
  <2> QED
    BY <2>1, <2>2, OpGoesOn, PassMovesOn
<1>3. ASSUME op.at \in Summing, ~Idle, NEW leaf \in Summing, NEW attempt \in 0 .. MaxAttempts,
             op' = [op EXCEPT !.at = leaf, !.attempt = attempt], Again, settled' = settled
      PROVE  OpTypes' /\ PassTypes'
  <2>1. leaf \in Leaves \ {"none"}
    BY DEF Leaves, Summing
  <2>2. op' \in OpType' /\ Agrees(op') /\ op'.at = leaf
    BY <1>3, <2>1, GotoIs, Given
  <2> QED
    BY <1>3, <2>1, <2>2, OpGoesOn, PassIsFresh
<1>4. ASSUME op.at \in Summing, ~Idle, WaitForRetry, AttemptsLeft PROVE OpTypes' /\ PassTypes'
  <2>1. op.attempt + 1 \in 0 .. MaxAttempts /\ "summary.retry_wait" \in Summing
    BY <1>4, Given DEF AttemptsLeft, Summing
  <2> QED
    BY <1>3, <1>4, <2>1 DEF WaitForRetry
<1>5. CASE HookDecides
  <2>1. pass.pc = "deciding" /\ op.at \in Summing /\ ~Idle
    BY <1>1, <1>5, Driven DEF HookDecides, At, PassMatches, Summing
  <2>2. CASE op' = [op EXCEPT !.at = "summary.ready", !.attempt = 1] /\ Again /\ settled' = settled
    <3>1. 1 \in 0 .. MaxAttempts /\ "summary.ready" \in Summing
      BY StructuralBounds DEF Summing
    <3> QED
      BY <1>3, <2>1, <2>2, <3>1
  <2> QED
    BY <1>5, <2>1, <2>2, DeclinedPublished, SummaryPublished DEF HookDecides
<1>6. CASE Generate
  <2>1. pass.pc = "dispatch" /\ op.at = "summary.ready" /\ ~Idle
    BY <1>6, Driven DEF Generate, Dispatch, At
  <2>2. CASE /\ Goto("summary.effect_pending") /\ pass' = [pass EXCEPT !.pc = "request"]
             /\ settled' = settled
    <3>1. op' \in OpType' /\ Agrees(op') /\ op'.at = "summary.effect_pending"
      <4>1. "summary.effect_pending" \in Leaves \ {"none"} /\ op.at \in Summing
            /\ "summary.effect_pending" \in Summing
        BY <2>1 DEF Leaves, Summing
      <4> QED
        BY <2>1, <2>2, <4>1, GoesTo, Given
    <3>2. "request" \in PcType /\ ~Idle'
      BY <3>1 DEF PcType, Idle
    <3> QED
      BY <2>1, <2>2, <3>1, <3>2, OpGoesOn, PassMovesOn
  <2> QED
    BY <1>6, <2>1, <2>2, SettleIs DEF Generate, PublishFailed
<1>7. CASE Summarize
  <2>1. /\ pass.pc = "request" /\ op.at = "summary.effect_pending" /\ op' = op
        /\ settled' = settled /\ ~Idle
    BY <1>1, <1>7, Driven DEF Summarize, At, PassMatches
  <2>2. PICK r \in {"summary", "retry", "fatal"} :
          pass' = [pass EXCEPT !.pc = "summarized", !.back = r]
    BY <1>7 DEF Summarize
  <2>3. "summarized" \in PcType /\ r \in BackType /\ ~Idle'
    BY <2>1 DEF PcType, BackType, Idle
  <2> QED
    BY <2>1, <2>2, <2>3, OpGoesOn, PassMoves
<1>8. CASE PublishAttempt
  <2>1. pass.pc = "summarized" /\ op.at \in Summing /\ ~Idle
    BY <1>1, <1>8, Driven DEF PublishAttempt, At, PassMatches, Summing
  <2>2. Carries(op.prep) \in BOOLEAN
    BY DEF Carries
  <2> QED
    BY <1>4, <1>8, <2>1, <2>2, SettleIs, SummaryPublished DEF PublishAttempt, PublishFailed
<1>9. CASE RecoverSummary
  <2>1. pass.pc = "dispatch" /\ op.at \in Summing /\ ~Idle
    BY <1>9, Driven DEF RecoverSummary, Dispatch, At, Summing
  <2> QED
    BY <1>4, <1>9, <2>1, SettleIs DEF RecoverSummary, PublishFailed
<1>10. CASE StartTimer
  <2>1. /\ pass.pc = "dispatch" /\ op.at = "summary.retry_wait" /\ op' = op /\ settled' = settled
        /\ pass' = [pass EXCEPT !.pc = "timer"] /\ ~Idle
    BY <1>10, Driven DEF StartTimer, Dispatch, At
  <2>2. "timer" \in PcType /\ ~Idle'
    BY <2>1 DEF PcType, Idle
  <2> QED
    BY <2>1, <2>2, OpGoesOn, PassMovesOn
<1>11. CASE TimerEnds
  <2>1. /\ op.at = "summary.retry_wait" /\ ~Idle /\ Goto("summary.ready") /\ Again
        /\ settled' = settled
    BY <1>1, <1>11, Driven DEF TimerEnds, At, PassMatches
  <2>2. op' \in OpType' /\ Agrees(op') /\ op'.at = "summary.ready"
    <3>1. "summary.ready" \in Leaves \ {"none"} /\ op.at \in Summing /\ "summary.ready" \in Summing
      BY <2>1 DEF Leaves, Summing
    <3> QED
      BY <2>1, <3>1, GoesTo, Given
  <2> QED
    BY <2>1, <2>2, OpGoesOn, PassIsFresh
<1>12. CASE CommitNavigation
  <2>1. pass.pc # "off" /\ Settle("completed")
    BY <1>12 DEF CommitNavigation, Dispatch, At
  <2> QED
    BY <2>1, SettleIs
<1> QED
  BY <1>2, <1>5, <1>6, <1>7, <1>8, <1>9, <1>10, <1>11, <1>12

LEMMA PassTypesKept ==
  ASSUME StructuralInvariant, PassStep, Extends, LaneTypes'
  PROVE  OpTypes' /\ PassTypes'
  BY RunTypes, ResponseTypes, SummaryTypes DEF PassStep

----------------------------------------------------------------------------
(* Types: navigation and budgets.                                           *)

LEMMA NavKept ==
  ASSUME StructuralInvariant, [Next]_vars, Extends
  PROVE  NavMatches'
<1>1. nav \in NavType' /\ (nav.asked => nav.prep # NoPreparation)
  BY Given DEF StructuralInvariant, NavMatches
<1>2. ASSUME nav' = nav PROVE NavMatches'
  BY <1>1, <1>2 DEF NavMatches
<1>3. ASSUME nav' = NoNav PROVE NavMatches'
  <2>1. nav' \in NavType'
    BY <1>3, Given DEF NoNav, NavType
  <2> QED
    BY <1>3, <2>1 DEF NavMatches, NoNav
<1>4. ASSUME NEW target \in 0 .. Len(tree), BranchPreparation(tip, target) \in PreparationType,
             NEW summarize \in BOOLEAN,
             nav' \in [asked : {TRUE}, target : {target}, summarize : {summarize},
                       prep : {BranchPreparation(tip, target)}]
      PROVE  NavMatches'
  <2>1. BranchPreparation(tip, target) \in PreparationType' /\ target \in 0 .. Len(tree')
    BY <1>4, TypesWiden
  <2>2. BranchPreparation(tip, target) # NoPreparation
    BY Given, BranchPreparationIs
  <2> QED
    BY <1>4, <2>1, <2>2 DEF NavMatches, NavType
<1>5. ASSUME NEW target \in Targets \cap (Ids \union {0}), NEW summarize \in BOOLEAN,
             ObserveTip(target, summarize)
      PROVE  NavMatches'
  <2>1. target \in 0 .. Len(tree) /\ BranchPreparation(tip, target) \in PreparationType
    BY Given, BranchPreparationIs DEF Ids
  <2>2. nav' = [asked |-> TRUE, target |-> target, summarize |-> summarize,
                prep |-> BranchPreparation(tip, target)]
    BY <1>5 DEF ObserveTip
  <2> QED
    BY <1>4, <2>1, <2>2
<1>6. CASE AcceptNavigation
  <2>1. CASE nav' = [nav EXCEPT !.prep = BranchPreparation(tip, nav.target)] /\ nav.asked
    <3>1. nav \in NavType
      BY Given
    <3>2. nav.target \in 0 .. Len(tree) /\ nav.summarize \in BOOLEAN /\ nav.asked = TRUE
      BY <2>1, <3>1 DEF NavType
    <3>3. BranchPreparation(tip, nav.target) \in PreparationType
      BY <3>2, Given, BranchPreparationIs
    <3>4. nav' \in [asked : {TRUE}, target : {nav.target}, summarize : {nav.summarize},
                    prep : {BranchPreparation(tip, nav.target)}]
      BY <2>1, <3>1, <3>2 DEF NavType
    <3> QED
      BY <1>4, <3>2, <3>3, <3>4
  <2> QED
    BY <1>3, <1>6, <2>1 DEF AcceptNavigation
<1>7. CASE UNCHANGED vars
  BY <1>2, <1>7 DEF vars
<1>8. CASE PassStep
  BY <1>2, <1>8 DEF PassStep, Reconcile, CancelSeen, ReadThreshold, RunCheckpoint, FinishRun,
     CallProvider, ProviderAnswers, PublishResponse, RecoverAssistant, Decide, HookDecides,
     Generate, Summarize, PublishAttempt, RecoverSummary, StartTimer, TimerEnds,
     CommitNavigation, KeepHost
<1>9. ASSUME NEW kind, AppendEntry(kind) PROVE NavMatches'
  BY <1>2, <1>9 DEF AppendEntry
<1>10. CASE AcceptRun \/ AcceptCompaction \/ RequestAbort \/ InstallPass \/ ReportRetry
  BY <1>2, <1>10 DEF AcceptRun, AcceptCompaction, RequestAbort, InstallPass, ReportRetry
<1>11. CASE Crash
  BY <1>3, <1>11 DEF Crash
<1> QED
  BY <1>5, <1>6, <1>7, <1>8, <1>9, <1>10, <1>11 DEF Next, HostStep

LEMMA BudgetKept ==
  ASSUME StructuralInvariant, [Next]_vars
  PROVE  BudgetTypes'
<1>1. /\ turns \in 0 .. MaxTurns /\ incidents \in 0 .. MaxIncidents
      /\ MaxTurns \in Nat /\ MaxIncidents \in Nat /\ PassMatches
  BY StructuralBounds DEF StructuralInvariant, TypeOK
<1>2. turns' = turns \/ (turns < MaxTurns /\ turns' = turns + 1)
  <2>1. CASE PublishResponse
    BY <1>1, <2>1 DEF PublishResponse, PassMatches, At
  <2>2. CASE RecoverAssistant
    BY <2>2 DEF RecoverAssistant
  <2>3. CASE HostStep
    BY <2>3 DEF HostStep, AppendEntry, AcceptRun, AcceptCompaction, ObserveTip, AcceptNavigation,
       RequestAbort, InstallPass, Crash, ReportRetry, budgets
  <2>4. CASE UNCHANGED vars
    BY <2>4 DEF vars, budgets
  <2>5. CASE Reconcile \/ CancelSeen \/ ReadThreshold \/ RunCheckpoint \/ FinishRun
             \/ CallProvider \/ ProviderAnswers
    BY <2>5 DEF Reconcile, CancelSeen, ReadThreshold, RunCheckpoint, FinishRun,
       CallProvider, ProviderAnswers
  <2>6. CASE Decide \/ HookDecides \/ Generate \/ Summarize \/ PublishAttempt \/ RecoverSummary
             \/ StartTimer \/ TimerEnds \/ CommitNavigation
    BY <2>6 DEF Decide, HookDecides, Generate, Summarize, PublishAttempt, RecoverSummary,
       StartTimer, TimerEnds, CommitNavigation
  <2> QED
    BY <2>1, <2>2, <2>3, <2>4, <2>5, <2>6 DEF Next, PassStep
<1>3. incidents' = incidents \/ (incidents < MaxIncidents /\ incidents' = incidents + 1)
  <2>1. CASE HostStep
    BY <2>1 DEF HostStep, AppendEntry, AcceptRun, AcceptCompaction, ObserveTip, AcceptNavigation,
       RequestAbort, InstallPass, Crash, ReportRetry, budgets, Incident
  <2>2. CASE UNCHANGED vars
    BY <2>2 DEF vars, budgets
  <2>3. CASE PassStep
    BY <2>3 DEF PassStep, Reconcile, CancelSeen, ReadThreshold, RunCheckpoint, FinishRun,
       CallProvider, ProviderAnswers, PublishResponse, RecoverAssistant, Decide, HookDecides,
       Generate, Summarize, PublishAttempt, RecoverSummary, StartTimer, TimerEnds,
       CommitNavigation, KeepHost
  <2> QED
    BY <2>1, <2>2, <2>3 DEF Next
<1> QED
  BY <1>1, <1>2, <1>3 DEF BudgetTypes

----------------------------------------------------------------------------
(* Types: the theorem.                                                      *)

LEMMA StructuralStart ==
  ASSUME Init PROVE StructuralInvariant
<1>1. tree \in Seq(EntryType) /\ Len(tree) \in Nat /\ tip = Len(tree)
  BY StructuralBounds, LenProperties DEF Init
<1>2. EntriesLookBack
  BY <1>1, StoredEntriesLookBack DEF Init, EntriesLookBack, Ids
<1>3. LaneTypes
  BY <1>1, <1>2 DEF Init, LaneTypes
<1>4. OpTypes
  <2>1. op \in OpType /\ Agrees(op) /\ op.at = "none" /\ settled = 0
    BY <1>3, NoOpIs DEF Init
  <2> QED
    BY <2>1, StructuralBounds, OpTypesAre DEF Accepted, Idle
<1>5. PassTypes
  <2>1. pass \in PassType
    BY DEF Init, NoPass, PassType, PcType, BackType
  <2> QED
    BY <2>1 DEF Init, NoPass, PassTypes, PassMatches
<1>6. NavMatches
  BY <1>1 DEF Init, NoNav, NavMatches, NavType
<1>7. BudgetTypes
  BY StructuralBounds DEF Init, BudgetTypes
<1> QED
  BY <1>3, <1>4, <1>5, <1>6, <1>7, PartsAreAll

LEMMA StructuralStep ==
  ASSUME StructuralInvariant, [Next]_vars
  PROVE  StructuralInvariant' /\ Extends
<1>1. LaneTypes' /\ Extends
  BY LaneChanges
<1>2. CASE UNCHANGED vars
  <2>1. StructuralInvariant' <=> StructuralInvariant
    BY <1>2 DEF vars, laneVars, budgets, StructuralInvariant, TypeOK, EntriesLookBack, OpMatches,
       PassMatches, NavMatches, OpType, PassType, NavType, PreparationType, Ids, Idle, Accepted
  <2> QED
    BY <1>1, <2>1
<1>3. CASE Next
  <2>1. OpTypes' /\ PassTypes'
    BY <1>1, <1>3, HostOp, HostPass, PassTypesKept DEF Next
  <2>2. NavMatches' /\ BudgetTypes'
    BY <1>1, NavKept, BudgetKept
  <2>3. StructuralInvariant' <=> LaneTypes' /\ OpTypes' /\ PassTypes' /\ NavMatches' /\ BudgetTypes'
    BY PartsAreAll, PTL
  <2> QED
    BY <1>1, <2>1, <2>2, <2>3
<1> QED
  BY <1>2, <1>3

LEMMA StructuralProtocol == Spec => []StructuralInvariant
  BY StructuralStart, StructuralStep, PTL DEF Spec

\* However summaries, runs and navigations interleave, every entry hangs from an
\* older one, attempts stay within the policy, and an operation carries a preparation
\* exactly while its summary is due (structural.ts:163-250).
THEOREM StructuralTypesHold == Spec => []TypeOK
<1>1. StructuralInvariant => TypeOK
  BY DEF StructuralInvariant
<1> QED
  BY <1>1, StructuralProtocol, PTL

----------------------------------------------------------------------------
(* Causes: the parts of a step.                                             *)

BeginsOnce ==
  \A reason \in {"threshold", "overflow"} : Begins(reason) => <<reason, op.trigger>> \notin causes

LEMMA CausesAre ==
  ASSUME StructuralInvariant, CausesMatch, Extends
  PROVE  /\ causes \subseteq {"threshold", "overflow"} \X (0 .. Len(tree))
         /\ causes \subseteq {"threshold", "overflow"} \X (0 .. Len(tree'))
         /\ \A reason, t : t > Len(tree) => <<reason, t>> \notin causes
<1>1. causes \subseteq {"threshold", "overflow"} \X (0 .. Len(tree))
  BY DEF CausesMatch
<1>2. \A t \in 0 .. Len(tree) : t \in 0 .. Len(tree') /\ ~(t > Len(tree))
  BY Given
<1> QED
  BY <1>1, <1>2

\* What a settled operation was compacted for is forgotten.
LEMMA CausesEnd ==
  ASSUME NEW status, Settle(status)
  PROVE  CausesMatch' /\ BeginsOnce
<1>1. causes' = {} /\ op'.boundary = "none" /\ op'.at = "none" /\ pass'.prep = NoPreparation
  BY DEF Settle, NoOp, NoPass
<1> QED
  BY <1>1 DEF CausesMatch, BeginsOnce, Begins

\* A new operation was not compacted for anything.
LEMMA CausesBegin ==
  ASSUME StructuralInvariant, CausesMatch, Extends, Idle, causes' = causes, pass' = pass,
         op'.boundary \in {"none", "manual", "navigation"}
  PROVE  CausesMatch' /\ BeginsOnce
<1>1. causes' = {} /\ pass'.prep = NoPreparation
  BY DEF CausesMatch, StructuralInvariant, TypeOK, NoPass
<1> QED
  BY <1>1 DEF CausesMatch, BeginsOnce, Begins

\* Behind a new trigger nothing was compacted.
LEMMA CausesAreOld ==
  ASSUME StructuralInvariant, CausesMatch, Extends, causes' = causes, ~Idle', op'.trigger > Len(tree),
         op'.boundary = "none", pass'.prep = NoPreparation
  PROVE  CausesMatch' /\ BeginsOnce
  BY CausesAre DEF CausesMatch, BeginsOnce, Begins, Idle

\* The same trigger, which is a checkpoint's only where it was one, or behind a
\* summary.
LEMMA CausesStay ==
  ASSUME StructuralInvariant, CausesMatch, Extends, causes' = causes, ~Idle',
         op'.trigger = op.trigger, op'.used = op.used,
         op'.boundary \in {op.boundary, "none"},
         \/ op'.at # "checkpoint" \/ op'.cancelled
         \/ Newest(tip)' > op.trigger
         \/ op.at = "checkpoint" /\ op'.cancelled = op.cancelled /\ Newest(tip)' = Newest(tip),
         \/ pass'.prep = NoPreparation
         \/ pass' = pass /\ Newest(tip)' = Newest(tip)
  PROVE  CausesMatch' /\ BeginsOnce
<1>1. BeginsOnce
  BY DEF BeginsOnce, Begins
<1>2. /\ causes' \subseteq {"threshold", "overflow"} \X (0 .. Len(tree'))
      /\ <<"overflow", op'.trigger>> \in causes' => op'.used
  BY CausesAre DEF CausesMatch
<1>3. <<"threshold", op'.trigger>> \in causes' /\ op'.at = "checkpoint" /\ ~op'.cancelled =>
        Newest(tip)' > op'.trigger
  BY DEF CausesMatch
<1>4. /\ pass'.pc = "checkpoint" /\ pass'.prep # NoPreparation => Newest(tip)' <= op'.trigger
      /\ pass'.pc = "respond" /\ pass'.prep # NoPreparation => ~op'.used
  BY DEF CausesMatch
<1> QED
  BY <1>1, <1>2, <1>3, <1>4 DEF CausesMatch, Idle

\* A summary in a run is recorded with its cause.
LEMMA CausesGrow ==
  ASSUME StructuralInvariant, CausesMatch, Extends, ~Idle', NEW reason \in {"threshold", "overflow"},
         causes' = causes \union {<<reason, op.trigger>>}, <<reason, op.trigger>> \notin causes,
         op'.trigger = op.trigger, op'.boundary = reason, op'.at = "summary.deciding",
         reason = "overflow" => op'.used, op.used => op'.used,
         pass'.prep = NoPreparation
  PROVE  CausesMatch' /\ BeginsOnce
<1>1. causes' \subseteq {"threshold", "overflow"} \X (0 .. Len(tree'))
  BY CausesAre, Given
<1>2. BeginsOnce
  BY DEF BeginsOnce, Begins
<1>3. <<"overflow", op'.trigger>> \in causes' => op'.used
  BY DEF CausesMatch
<1> QED
  BY <1>1, <1>2, <1>3 DEF CausesMatch, Idle

LEMMA TipStays ==
  ASSUME UNCHANGED <<tree, tip>> PROVE Newest(tip)' = Newest(tip)
  BY DEF Newest, Path, Kind

\* A compaction at the tip is the newest one.
TipIsCompacted ==
  /\ Newest(tip) \in Nat
  /\ \A x \in Path(tip) : Kind(x) = "compaction" => x <= Newest(tip)

LEMMA TipHasNewest ==
  LaneTypes => TipIsCompacted
<1>1. ASSUME LaneTypes PROVE TipIsCompacted
  BY <1>1, NewestIs, LengthIsNat DEF TipIsCompacted, LaneTypes
<1> QED
  BY <1>1

LEMMA CompactionIsNewest ==
  ASSUME StructuralInvariant, StructuralInvariant', NEW x, Inserted(x), x.kind = "compaction",
         NEW kinds \in Seq({"user", "note"}), Grow(<<x>>, kinds)
  PROVE  Newest(tip)' > Len(tree)
<1>1. /\ Fits(x) /\ kinds \in Seq(Kinds) /\ EntriesLookBack /\ Len(tree) \in Nat
      /\ EntriesLookBack' /\ tip' \in 0 .. Len(tree')
  <2>1. Seq({"user", "note"}) \subseteq Seq(Kinds)
    BY SeqMonotonic DEF Kinds
  <2> QED
    BY <2>1, InsertedFits, LengthIsNat DEF StructuralInvariant, TypeOK
<1>2. /\ Path(tip)' = x.branch \union (Len(tree) + 1) .. Len(tree')
      /\ tree'[Len(tree) + 1] = x /\ Len(tree') = Len(tree) + 1 + Len(kinds)
  BY <1>1, EntryGrows
<1>3. TipIsCompacted'
  <2>1. LaneTypes'
    BY DEF StructuralInvariant, TypeOK, LaneTypes
  <2> QED
    BY <2>1, TipHasNewest, PTL
<1>4. Len(tree) + 1 \in Path(tip)' /\ Len(tree) + 1 \in Nat
  <2>1. Len(kinds) \in Nat
    BY LenProperties
  <2> QED
    BY <1>1, <1>2, <2>1
<1>5. \A y \in Path(tip)' : tree'[y].kind = "compaction" => y <= Newest(tip)'
  BY <1>3 DEF TipIsCompacted, Kind
<1>6. Len(tree) + 1 <= Newest(tip)' /\ Newest(tip)' \in Nat
  BY <1>2, <1>3, <1>4, <1>5 DEF TipIsCompacted
<1> QED
  BY <1>1, <1>6

\* A summary is published.
LEMMA CausesOfSummary ==
  ASSUME StructuralInvariant, StructuralInvariant', CausesMatch, Extends, pass.pc # "off",
         op.at \in Summing, NEW carries \in BOOLEAN, PublishSummary(carries)
  PROVE  CausesMatch' /\ BeginsOnce
<1>1. CASE ~InRun
  BY <1>1, CausesEnd DEF PublishSummary
<1>2. CASE InRun
  <2>1. PICK x : x = SummaryEntry(carries)
    OBVIOUS
  <2>2. Inserted(x)
    BY <2>1 DEF Inserted
  <2>3. x.kind = "compaction"
    <3>1. op.prep \in PreparationType
      BY Given DEF Agrees, OpType, PreparationType
    <3> QED
      BY <1>2, <2>1, <3>1, Given, CompactionIs DEF SummaryEntry, InRun
  <2>4. PICK first : first = <<x>>
    OBVIOUS
  <2>5. Place(first) /\ Resumes(first) /\ Again /\ causes' = causes
    BY <1>2, <2>1, <2>4 DEF PublishSummary
  <2>6. /\ op'.at \in {"ready", "checkpoint"}
        /\ op'.boundary = "none" /\ op'.cancelled = op.cancelled
        /\ \/ op'.trigger > Len(tree) /\ op'.used = FALSE
           \/ op'.trigger = op.trigger /\ op'.used = op.used
    BY <2>2, <2>4, <2>5, ResumesIs
  <2>7. Newest(tip)' > Len(tree) /\ Newest(tip)' \in Nat
    <3>1. Grow(<<x>>, inbox) /\ inbox \in Seq({"user", "note"})
      BY <2>4, <2>5 DEF Place, StructuralInvariant, TypeOK
    <3>2. Newest(tip)' > Len(tree)
      BY <2>2, <2>3, <3>1, CompactionIsNewest
    <3>3. TipIsCompacted'
      <4>1. LaneTypes'
        BY DEF StructuralInvariant, TypeOK, LaneTypes
      <4> QED
        BY <4>1, TipHasNewest, PTL
    <3> QED
      BY <3>2, <3>3 DEF TipIsCompacted
  <2>8. Newest(tip)' > op.trigger
    BY <2>7, Given
  <2>9. ~Idle' /\ pass'.prep = NoPreparation
    BY <2>5, <2>6, PassIsFresh DEF Idle
  <2> QED
    BY <2>5, <2>6, <2>8, <2>9, CausesAreOld, CausesStay
<1> QED
  BY <1>1, <1>2

LEMMA CausesOfDecline ==
  ASSUME StructuralInvariant, StructuralInvariant', CausesMatch, Extends, pass.pc = "deciding",
         PublishDeclined
  PROVE  CausesMatch' /\ BeginsOnce
<1>1. op.at = "summary.deciding" /\ ~Idle
  BY Driven DEF StructuralInvariant, PassMatches
<1>2. CASE /\ op.boundary = "threshold" /\ Place(<<>>) /\ Resumes(<<>>) /\ Again /\ causes' = causes
           /\ Projecting # {} \/ op.cont = "need_assistant"
  <2>1. PICK first : first = <<>>
    OBVIOUS
  <2>2. Place(first) /\ Resumes(first)
    BY <1>2, <2>1
  <2>3. /\ op'.at = "ready" /\ op'.boundary = "none"
        /\ \/ op'.trigger > Len(tree) /\ op'.used = FALSE
           \/ op'.trigger = op.trigger /\ op'.used = op.used
    BY <1>2, <2>1, <2>2, ResumesIs
  <2>4. ~Idle' /\ pass'.prep = NoPreparation
    BY <1>2, <2>3, PassIsFresh DEF Idle
  <2> QED
    BY <1>2, <2>3, <2>4, CausesAreOld, CausesStay
<1>3. CASE /\ op.boundary = "threshold" /\ pass' = [NoPass EXCEPT !.pc = "end_hook"]
           /\ UNCHANGED <<op, causes>>
  <2>1. pass'.prep = NoPreparation
    BY <1>3 DEF NoPass
  <2>2. op'.at # "checkpoint" /\ ~Idle' /\ op' = op
    BY <1>1, <1>3 DEF Idle
  <2> QED
    BY <1>3, <2>1, <2>2, CausesStay
<1>4. CASE Settle("failed") \/ Settle("declined")
  BY <1>4, CausesEnd
<1> QED
  BY <1>2, <1>3, <1>4 DEF PublishDeclined

LEMMA CausesOfHost ==
  ASSUME StructuralInvariant, StructuralInvariant', CausesMatch, Extends, HostStep
  PROVE  CausesMatch' /\ BeginsOnce
<1>1. ASSUME UNCHANGED <<op, causes>>, pass' = pass \/ pass' = NoPass,
             \/ UNCHANGED <<tree, tip>>
             \/ Idle /\ pass' = pass
      PROVE  CausesMatch' /\ BeginsOnce
  <2>1. CASE Idle
    <3>1. op' = op /\ op.boundary = "none" /\ pass.prep = NoPreparation /\ causes = {}
      BY <2>1, <1>1 DEF StructuralInvariant, TypeOK, OpMatches, NoOp, NoPass, CausesMatch
    <3>2. op'.boundary = "none" /\ pass'.prep = NoPreparation /\ causes' = {}
      BY <1>1, <3>1 DEF NoPass
    <3> QED
      BY <3>2 DEF CausesMatch, BeginsOnce, Begins
  <2>2. CASE ~Idle
    <3>1. Newest(tip)' = Newest(tip) /\ ~Idle' /\ op' = op
      BY <1>1, <2>2, TipStays DEF Idle
    <3>2. pass'.prep = NoPreparation \/ pass' = pass
      BY <1>1 DEF NoPass
    <3> QED
      BY <1>1, <3>1, <3>2, CausesStay
  <2> QED
    BY <2>1, <2>2
<1>2. ASSUME NEW kind, AppendEntry(kind) PROVE CausesMatch' /\ BeginsOnce
  BY <1>1, <1>2 DEF AppendEntry
<1>3. ASSUME NEW target, NEW summarize, ObserveTip(target, summarize)
      PROVE  CausesMatch' /\ BeginsOnce
  BY <1>1, <1>3 DEF ObserveTip, KeepTree
<1>4. CASE Crash \/ ReportRetry
  BY <1>1, <1>4 DEF Crash, ReportRetry, KeepTree
<1>5. CASE InstallPass
  <2>1. ~Idle /\ pass'.prep = NoPreparation /\ Newest(tip)' = Newest(tip) /\ op' = op /\ causes' = causes
    BY <1>5, TipStays DEF InstallPass, Again, NoPass, KeepTree
  <2>2. ~Idle'
    BY <2>1 DEF Idle
  <2> QED
    BY <2>1, <2>2, CausesStay
<1>6. CASE RequestAbort
  <2>1. /\ op'.at = op.at /\ op'.boundary = op.boundary /\ op'.trigger = op.trigger
        /\ op'.used = op.used /\ op'.cancelled
    BY <1>6, CancelIs, Given DEF RequestAbort
  <2>2. causes' = causes /\ pass' = pass /\ Newest(tip)' = Newest(tip) /\ ~Idle'
    BY <1>6, <2>1, TipStays DEF RequestAbort, KeepTree, Idle
  <2> QED
    BY <2>1, <2>2, CausesStay
<1>7. CASE AcceptRun
  <2>1. Idle /\ causes' = causes /\ pass' = pass /\ op'.boundary = "none"
    BY <1>7 DEF AcceptRun, NoOp
  <2> QED
    BY <2>1, CausesBegin
<1>8. CASE AcceptCompaction
  <2>1. Idle /\ causes' = causes /\ pass' = pass /\ op'.boundary = "manual"
    BY <1>8 DEF AcceptCompaction, NoOp
  <2> QED
    BY <2>1, CausesBegin
<1>9. CASE AcceptNavigation
  <2>1. causes' = causes /\ pass' = pass /\ UNCHANGED <<tree, tip>>
    BY <1>9 DEF AcceptNavigation, KeepTree
  <2>2. CASE op' = op
    BY <1>1, <2>1, <2>2
  <2>3. CASE op' # op
    <3>1. Idle /\ op'.boundary = "navigation"
      BY <1>9, <2>3 DEF AcceptNavigation, NoOp
    <3> QED
      BY <2>1, <3>1, CausesBegin
  <2> QED
    BY <2>2, <2>3
<1> QED
  BY <1>2, <1>3, <1>4, <1>5, <1>6, <1>7, <1>8, <1>9 DEF HostStep

LEMMA CausesOfRun ==
  ASSUME StructuralInvariant, StructuralInvariant', CausesMatch, Extends,
         Reconcile \/ CancelSeen \/ ReadThreshold \/ RunCheckpoint \/ FinishRun
  PROVE  CausesMatch' /\ BeginsOnce
<1>1. PassMatches /\ OpMatches
  BY DEF StructuralInvariant
<1>2. CASE Reconcile
  <2>1. pass.pc = "dispatch" /\ ~Idle /\ pass.prep = NoPreparation
    BY <1>2, Driven DEF Reconcile, At
  <2>2. CASE op.at # "pending"
    BY <1>2, <2>2, CausesEnd DEF Reconcile
  <2>3. CASE op.at = "pending"
    <3>1. Goto("checkpoint") /\ UNCHANGED <<pass, causes>> /\ op.cancelled
      BY <1>2, <2>3 DEF Reconcile
    <3>2. "checkpoint" \in Leaves \ {"none"}
      BY DEF Leaves
    <3>3. /\ op'.at = "checkpoint" /\ op'.boundary = op.boundary /\ op'.trigger = op.trigger
          /\ op'.used = op.used /\ op'.cancelled = op.cancelled
      BY <2>1, <2>3, <3>1, <3>2, GoesTo, Given
    <3> QED
      BY <2>1, <3>1, <3>3, CausesStay DEF Idle
  <2> QED
    BY <2>2, <2>3
<1>3. CASE CancelSeen
  <2>1. ~Idle /\ Again /\ op' = op /\ causes' = causes /\ Newest(tip)' = Newest(tip)
    BY <1>3, Driven, TipStays DEF CancelSeen, KeepTree
  <2>2. pass'.prep = NoPreparation /\ ~Idle'
    BY <2>1 DEF Again, NoPass, Idle
  <2> QED
    BY <2>1, <2>2, CausesStay
<1>4. CASE ReadThreshold
  <2>1. /\ op' = op /\ causes' = causes /\ Newest(tip)' = Newest(tip)
        /\ ~Idle /\ pass.pc = "dispatch"
    BY <1>4, Driven, TipStays DEF ReadThreshold, Dispatch, At, KeepTree
  <2>2. PICK p \in {NoPreparation} \union
                     (IF Newest(tip) > op.trigger \/ ~MaySummarize THEN {} ELSE Preparations(tip)) :
          pass' = [pass EXCEPT !.pc = "checkpoint", !.prep = p]
    BY <1>4 DEF ReadThreshold
  <2>3. pass'.pc = "checkpoint" /\ pass'.prep = p
    BY <1>1, <2>2 DEF PassMatches, PassType
  <2>4. p # NoPreparation => Newest(tip) <= op.trigger
    <3>1. Newest(tip) \in Int /\ op.trigger \in Int
      BY Given, NewestIs
    <3> QED
      BY <2>2, <3>1
  <2>5. causes' \subseteq {"threshold", "overflow"} \X (0 .. Len(tree'))
    BY <2>1, CausesAre
  <2> QED
    BY <2>1, <2>3, <2>4, <2>5 DEF CausesMatch, BeginsOnce, Begins, Idle
<1>5. ASSUME NEW first, first = <<>>, Place(first), Projecting # {},
             AskAssistant(Trigger(first), FALSE), Again, causes' = causes
      PROVE  CausesMatch' /\ BeginsOnce
  <2>1. Trigger(first) \in 0 .. Len(tree') /\ Trigger(first) > Len(tree)
    BY <1>5, TriggerIsNew
  <2>2. op'.at = "ready" /\ op'.boundary = "none" /\ op'.trigger = Trigger(first)
    BY <1>5, <2>1, AskIs, Given
  <2>3. pass'.prep = NoPreparation /\ ~Idle'
    BY <1>5, <2>2 DEF Again, NoPass, Idle
  <2> QED
    BY <1>5, <2>1, <2>2, <2>3, CausesAreOld
<1>6. CASE RunCheckpoint
  <2>1. pass.pc = "checkpoint" /\ op.at = "checkpoint" /\ ~Idle /\ ~op.cancelled
    BY <1>1, <1>6, Driven DEF RunCheckpoint, At, PassMatches
  <2>2. CASE Projecting # {}
    BY <1>5, <1>6, <2>2 DEF RunCheckpoint
  <2>3. CASE Projecting = {} /\ pass.prep # NoPreparation
    <3>1. Compact("threshold", pass.prep, op.cont, op.used) /\ Again
      BY <1>6, <2>3 DEF RunCheckpoint
    <3>2. pass.prep \in PreparationType'
      BY <2>3, Given DEF PassType
    <3>3. /\ op'.at = "summary.deciding" /\ op'.boundary = "threshold"
          /\ op'.trigger = op.trigger /\ op'.used = op.used
      BY <3>1, <3>2, CompactIs, Given
    <3>4. <<"threshold", op.trigger>> \notin causes
      <4>1. Newest(tip) <= op.trigger /\ Newest(tip) \in Int /\ op.trigger \in Int
        BY <2>1, <2>3, Given, NewestIs DEF CausesMatch
      <4>2. <<"threshold", op.trigger>> \in causes => Newest(tip) > op.trigger
        BY <2>1 DEF CausesMatch
      <4> QED
        BY <4>1, <4>2
    <3>5. ~Idle' /\ pass'.prep = NoPreparation
      BY <3>1, <3>3 DEF Again, NoPass, Idle
    <3>6. causes' = causes \union {<<"threshold", op.trigger>>}
      BY <3>1 DEF Compact
    <3> QED
      BY <3>3, <3>4, <3>5, <3>6, CausesGrow
  <2>4. CASE Projecting = {} /\ pass.prep = NoPreparation /\ op.cont = "need_assistant"
    <3>1. AskAssistant(op.trigger, op.used) /\ Again /\ causes' = causes
      BY <1>6, <2>4 DEF RunCheckpoint
    <3>2. /\ op'.at = "ready" /\ op'.boundary = "none" /\ op'.trigger = op.trigger
          /\ op'.used = op.used
      BY <3>1, AskIs, Given
    <3>3. ~Idle' /\ pass'.prep = NoPreparation
      BY <3>1, <3>2 DEF Again, NoPass, Idle
    <3> QED
      BY <3>1, <3>2, <3>3, CausesStay
  <2>5. CASE Projecting = {} /\ pass.prep = NoPreparation /\ op.cont # "need_assistant"
    <3>1. /\ pass' = [NoPass EXCEPT !.pc = "end_hook"] /\ op' = op /\ causes' = causes
          /\ UNCHANGED <<tree, tip>>
      BY <1>6, <2>5 DEF RunCheckpoint, KeepTree
    <3>2. ~Idle' /\ pass'.prep = NoPreparation /\ Newest(tip)' = Newest(tip)
      BY <2>1, <3>1, TipStays DEF NoPass, Idle
    <3> QED
      BY <2>1, <3>1, <3>2, CausesStay
  <2> QED
    BY <2>2, <2>3, <2>4, <2>5
<1>7. CASE FinishRun
  <2>1. CASE Projecting # {}
    BY <1>5, <1>7, <2>1 DEF FinishRun
  <2>2. CASE Projecting = {}
    BY <1>7, <2>2, CausesEnd DEF FinishRun
  <2> QED
    BY <2>1, <2>2
<1> QED
  BY <1>2, <1>3, <1>4, <1>6, <1>7

LEMMA CausesOfResponse ==
  ASSUME StructuralInvariant, StructuralInvariant', CausesMatch, Extends,
         CallProvider \/ ProviderAnswers \/ PublishResponse \/ RecoverAssistant
  PROVE  CausesMatch' /\ BeginsOnce
<1>1. PassMatches /\ OpMatches
  BY DEF StructuralInvariant
<1>2. ASSUME op.at \in {"ready", "pending"}, ~Idle, NEW leaf \in {"ready", "pending"}, Goto(leaf),
             causes' = causes, pass'.prep = NoPreparation
      PROVE  CausesMatch' /\ BeginsOnce
  <2>1. leaf \in Leaves \ {"none"}
    BY DEF Leaves
  <2>2. /\ op'.at = leaf /\ op'.boundary = op.boundary /\ op'.trigger = op.trigger
        /\ op'.used = op.used
    BY <1>2, <2>1, GoesTo, Given
  <2> QED
    BY <1>2, <2>2, CausesStay DEF Idle
<1>3. CASE CallProvider
  <2>1. /\ pass.pc = "dispatch" /\ op.at = "ready" /\ Goto("pending") /\ causes' = causes
        /\ pass' = [pass EXCEPT !.pc = "answer"] /\ ~Idle /\ pass.prep = NoPreparation
    BY <1>3, Driven DEF CallProvider, Dispatch, At
  <2>2. pass'.prep = NoPreparation
    BY <1>1, <2>1 DEF PassMatches, PassType
  <2> QED
    BY <1>2, <2>1, <2>2
<1>4. CASE ProviderAnswers
  <2>1. op' = op /\ causes' = causes /\ op.at = "pending"
    BY <1>1, <1>4 DEF ProviderAnswers, At, PassMatches
  <2>2. PICK r \in {"stop", "tools", "retry", "fatal", "overflow"} :
          \E p \in IF r = "overflow" /\ MayRecover /\ MaySummarize /\ Preparations(tip) # {}
                   THEN Preparations(tip) ELSE {NoPreparation} :
            pass' = [pc |-> "respond", prep |-> p, back |-> r]
    BY <1>4 DEF ProviderAnswers
  <2>3. pass'.pc = "respond" /\ (pass'.prep # NoPreparation => ~op.used)
    BY <2>2 DEF MayRecover
  <2>4. causes' \subseteq {"threshold", "overflow"} \X (0 .. Len(tree'))
    BY <2>1, CausesAre
  <2> QED
    BY <2>1, <2>3, <2>4 DEF CausesMatch, BeginsOnce, Begins, Idle
<1>5. CASE PublishResponse
  <2>1. pass.pc = "respond" /\ op.at = "pending" /\ ~Idle /\ op.boundary = "none"
    BY <1>1, <1>5, Driven DEF PublishResponse, At, PassMatches, OpMatches
  <2>2. Len(tree) + 1 > Len(tree)
    BY Given
  <2>3. ASSUME NEW cont \in {"need_assistant", "may_finish"}, Again, causes' = causes,
               op' = [op EXCEPT !.at = "checkpoint", !.trigger = Len(tree) + 1, !.used = FALSE, !.cont = cont]
        PROVE  CausesMatch' /\ BeginsOnce
    <3>1. op'.at = "checkpoint" /\ op'.trigger = Len(tree) + 1 /\ op'.boundary = "none"
      <4>1. op \in Operation(Len(tree), MaxAttempts, {NoPreparation} \union PreparationType)
        BY OpTypeIs, Given
      <4> QED
        BY <2>1, <2>3, <4>1 DEF Operation
    <3>2. ~Idle' /\ pass'.prep = NoPreparation
      BY <2>3, <3>1 DEF Again, NoPass, Idle
    <3> QED
      BY <2>2, <2>3, <3>1, <3>2, CausesAreOld
  <2>4. ASSUME Goto("ready"), Again, causes' = causes PROVE CausesMatch' /\ BeginsOnce
    BY <1>2, <2>1, <2>4 DEF Again, NoPass
  <2>5. ASSUME pass.prep # NoPreparation, Compact("overflow", pass.prep, "need_assistant", TRUE), Again
        PROVE  CausesMatch' /\ BeginsOnce
    <3>1. pass.prep \in PreparationType'
      BY <2>5, Given DEF PassType
    <3>2. /\ op'.at = "summary.deciding" /\ op'.boundary = "overflow"
          /\ op'.trigger = op.trigger /\ op'.used = TRUE
      BY <2>5, <3>1, CompactIs, Given
    <3>3. <<"overflow", op.trigger>> \notin causes
      BY <2>1, <2>5 DEF CausesMatch
    <3>4. ~Idle' /\ pass'.prep = NoPreparation
      BY <2>5, <3>2 DEF Again, NoPass, Idle
    <3>5. causes' = causes \union {<<"overflow", op.trigger>>}
      BY <2>5 DEF Compact
    <3> QED
      BY <3>2, <3>3, <3>4, <3>5, CausesGrow
  <2>6. Settle("failed") => CausesMatch' /\ BeginsOnce
    BY CausesEnd
  <2> QED
    BY <1>5, <2>3, <2>4, <2>5, <2>6 DEF PublishResponse
<1>6. CASE RecoverAssistant
  <2>1. pass.pc = "dispatch" /\ op.at = "pending" /\ ~Idle
    BY <1>6, Driven DEF RecoverAssistant, Dispatch, At
  <2>2. CASE Goto("ready") /\ Again /\ causes' = causes
    BY <1>2, <2>1, <2>2 DEF Again, NoPass
  <2> QED
    BY <1>6, <2>1, <2>2, CausesEnd DEF RecoverAssistant
<1> QED
  BY <1>3, <1>4, <1>5, <1>6

\* Steps within a summary leave what it is for alone.
LEMMA CausesOfLeaf ==
  ASSUME StructuralInvariant, CausesMatch, Extends, op.at \in Summing, ~Idle, causes' = causes,
         NEW leaf \in Summing, NEW attempt \in 0 .. MaxAttempts, pass'.prep = NoPreparation,
         \/ op' = op
         \/ op' = [op EXCEPT !.at = leaf, !.attempt = attempt]
         \/ Goto(leaf)
  PROVE  CausesMatch' /\ BeginsOnce
<1>1. leaf \in Leaves \ {"none"} /\ leaf # "checkpoint"
  BY DEF Leaves, Summing
<1>2. /\ op'.at \in Summing /\ op'.boundary = op.boundary /\ op'.trigger = op.trigger
      /\ op'.used = op.used
  BY <1>1, GoesTo, GotoIs, Given
<1>3. op'.at # "checkpoint" /\ ~Idle'
  BY <1>2 DEF Summing, Idle
<1> QED
  BY <1>2, <1>3, CausesStay

LEMMA CausesOfStructure ==
  ASSUME StructuralInvariant, StructuralInvariant', CausesMatch, Extends,
         \/ Decide \/ HookDecides \/ Generate \/ Summarize \/ PublishAttempt \/ RecoverSummary
         \/ StartTimer \/ TimerEnds \/ CommitNavigation
  PROVE  CausesMatch' /\ BeginsOnce
<1>1. PassMatches /\ OpMatches
  BY DEF StructuralInvariant
<1>2. Again => pass'.prep = NoPreparation
  BY DEF Again, NoPass
<1>3. ASSUME NEW pc, pass.pc = "dispatch", pass' = [pass EXCEPT !.pc = pc]
      PROVE  pass'.prep = NoPreparation
  BY <1>1, <1>3 DEF PassMatches, PassType
<1>4. ASSUME op.at \in Summing, ~Idle, WaitForRetry, AttemptsLeft PROVE CausesMatch' /\ BeginsOnce
  <2>1. op.attempt + 1 \in 0 .. MaxAttempts /\ "summary.retry_wait" \in Summing
    BY <1>4, Given DEF AttemptsLeft, Summing
  <2>2. /\ op' = [op EXCEPT !.at = "summary.retry_wait", !.attempt = op.attempt + 1]
        /\ causes' = causes /\ Again
    BY <1>4 DEF WaitForRetry
  <2> QED
    BY <1>2, <1>4, <2>1, <2>2, CausesOfLeaf
<1>5. ASSUME op.at \in Summing, ~Idle, causes' = causes, pass'.prep = NoPreparation,
             NEW leaf \in Summing, op' = op \/ Goto(leaf)
      PROVE  CausesMatch' /\ BeginsOnce
  BY <1>5, CausesOfLeaf, Given
<1>6. CASE Decide
  <2>1. /\ pass.pc = "dispatch" /\ op.at \in Summing /\ op' = op /\ causes' = causes
        /\ pass' = [pass EXCEPT !.pc = "deciding"] /\ ~Idle
    BY <1>6, Driven DEF Decide, Dispatch, At, Summing
  <2>2. pass'.prep = NoPreparation
    BY <1>1, <2>1 DEF PassMatches, PassType
  <2> QED
    BY <1>5, <2>1, <2>2
<1>7. CASE HookDecides
  <2>1. pass.pc = "deciding" /\ pass.pc # "off" /\ op.at \in Summing /\ ~Idle
    BY <1>1, <1>7, Driven DEF HookDecides, At, PassMatches, Summing
  <2>2. CASE op' = [op EXCEPT !.at = "summary.ready", !.attempt = 1] /\ Again /\ causes' = causes
    <3>1. 1 \in 0 .. MaxAttempts /\ "summary.ready" \in Summing
      BY StructuralBounds DEF Summing
    <3> QED
      BY <1>2, <2>1, <2>2, <3>1, CausesOfLeaf
  <2>3. PublishDeclined => CausesMatch' /\ BeginsOnce
    BY <2>1, CausesOfDecline
  <2>4. PublishSummary(TRUE) => CausesMatch' /\ BeginsOnce
    BY <2>1, CausesOfSummary
  <2> QED
    BY <1>7, <2>2, <2>3, <2>4 DEF HookDecides
<1>8. CASE Generate
  <2>1. pass.pc = "dispatch" /\ op.at \in Summing /\ ~Idle
    BY <1>8, Driven DEF Generate, Dispatch, At, Summing
  <2>2. CASE /\ Goto("summary.effect_pending") /\ pass' = [pass EXCEPT !.pc = "request"]
             /\ causes' = causes
    <3>1. "summary.effect_pending" \in Summing
      BY DEF Summing
    <3> QED
      BY <1>3, <1>5, <2>1, <2>2, <3>1
  <2> QED
    BY <1>8, <2>2, CausesEnd DEF Generate, PublishFailed
<1>9. CASE Summarize
  <2>1. /\ pass.pc = "request" /\ op.at \in Summing /\ ~Idle /\ op' = op /\ causes' = causes
    BY <1>1, <1>9, Driven DEF Summarize, At, PassMatches, Summing
  <2>2. \E r : pass' = [pass EXCEPT !.pc = "summarized", !.back = r]
    BY <1>9 DEF Summarize
  <2>3. pass'.prep = NoPreparation
    BY <1>1, <2>1, <2>2 DEF PassMatches, PassType
  <2> QED
    BY <1>5, <2>1, <2>3
<1>10. CASE PublishAttempt
  <2>1. pass.pc = "summarized" /\ pass.pc # "off" /\ op.at \in Summing /\ ~Idle
    BY <1>1, <1>10, Driven DEF PublishAttempt, At, PassMatches, Summing
  <2>2. Carries(op.prep) \in BOOLEAN
    BY DEF Carries
  <2>3. PublishSummary(Carries(op.prep)) => CausesMatch' /\ BeginsOnce
    BY <2>1, <2>2, CausesOfSummary
  <2> QED
    BY <1>4, <1>10, <2>1, <2>3, CausesEnd DEF PublishAttempt, PublishFailed
<1>11. CASE RecoverSummary
  <2>1. op.at \in Summing /\ ~Idle
    BY <1>11, Driven DEF RecoverSummary, Dispatch, At, Summing
  <2> QED
    BY <1>4, <1>11, <2>1, CausesEnd DEF RecoverSummary, PublishFailed
<1>12. CASE StartTimer
  <2>1. /\ pass.pc = "dispatch" /\ op.at \in Summing /\ op' = op /\ causes' = causes
        /\ pass' = [pass EXCEPT !.pc = "timer"] /\ ~Idle
    BY <1>12, Driven DEF StartTimer, Dispatch, At, Summing
  <2>2. pass'.prep = NoPreparation
    BY <1>1, <2>1 DEF PassMatches, PassType
  <2> QED
    BY <1>5, <2>1, <2>2
<1>13. CASE TimerEnds
  <2>1. /\ op.at \in Summing /\ ~Idle /\ Goto("summary.ready") /\ Again /\ causes' = causes
    BY <1>1, <1>13, Driven DEF TimerEnds, At, PassMatches, Summing
  <2>2. "summary.ready" \in Summing
    BY DEF Summing
  <2> QED
    BY <1>2, <1>5, <2>1, <2>2
<1>14. CASE CommitNavigation
  BY <1>14, CausesEnd DEF CommitNavigation
<1> QED
  BY <1>6, <1>7, <1>8, <1>9, <1>10, <1>11, <1>12, <1>13, <1>14

LEMMA CausesStep ==
  ASSUME StructuralInvariant, StructuralInvariant', CausesMatch, [Next]_vars
  PROVE  CausesMatch' /\ [BeginsOnce]_vars
<1>1. Extends
  BY StructuralStep
<1>2. CASE UNCHANGED vars
  <2>1. CausesMatch' <=> CausesMatch
    BY <1>2 DEF vars, laneVars, CausesMatch, Idle, Newest, Path, Kind
  <2> QED
    BY <1>2, <2>1
<1>3. CASE HostStep
  BY <1>1, <1>3, CausesOfHost
<1>4. CASE PassStep
  BY <1>1, <1>4, CausesOfRun, CausesOfResponse, CausesOfStructure DEF PassStep
<1> QED
  BY <1>2, <1>3, <1>4 DEF Next

LEMMA CausesStart ==
  ASSUME Init PROVE CausesMatch
  BY DEF Init, CausesMatch, NoOp, NoPass

\* However often a run is aborted, declined, retried, recovered or given input, it
\* compacts once for a trigger, at a threshold and after an overflow
\* (checkpoint.ts, response.ts:213-235).
THEOREM CompactsOnce == Spec => CompactsOncePerCause
<1>1. Init => CausesMatch
  BY CausesStart
<1>2. StructuralInvariant /\ StructuralInvariant' /\ CausesMatch /\ [Next]_vars =>
        CausesMatch' /\ [BeginsOnce]_vars
  BY CausesStep
<1>3. [BeginsOnce]_vars <=>
        [\A reason \in {"threshold", "overflow"} :
           Begins(reason) => <<reason, op.trigger>> \notin causes]_vars
  BY DEF BeginsOnce
<1> QED
  BY <1>1, <1>2, <1>3, StructuralProtocol, PTL DEF Spec, CompactsOncePerCause

----------------------------------------------------------------------------
(* Summaries: what was prepared and what is in the tree.                    *)

\* No compaction copies another one forward.
LEMMA NoCompactionIsRetained ==
  ASSUME EntriesLookBack, SummariesFit, NEW e \in 0 .. Len(tree)
  PROVE  \A x \in Retained(e) : Kind(x) # "compaction"
<1>1. ASSUME NEW x \in Retained(e), Kind(x) = "compaction" PROVE FALSE
  <2>1. /\ Newest(e) \in Ids /\ Kind(Newest(e)) = "compaction"
        /\ x \in tree[Newest(e)].tail
    <3>1. Newest(e) # 0
      BY <1>1 DEF Retained
    <3>2. Newest(e) \in Ids
      BY <3>1, NewestIs, LengthIsNat DEF Ids
    <3> QED
      BY <1>1, <3>1, <3>2, NewestIs DEF Retained
  <2>2. Spoken(tree[Newest(e)].told \union tree[Newest(e)].tail) = Context(Parent(Newest(e)))
    BY <2>1 DEF SummariesFit
  <2>3. x \in Spoken(tree[Newest(e)].told \union tree[Newest(e)].tail)
    BY <1>1, <2>1 DEF Spoken
  <2>4. Kind(x) \in {"user", "assistant", "branch"}
    BY <2>2, <2>3 DEF Context
  <2> QED
    BY <1>1, <2>4
<1> QED
  BY <1>1

\* Wherever the cut falls, also inside a turn, the history, the prefix of the split turn
\* and the tail that is kept are together just what the model is given at the tip:
\* nothing is dropped and nothing is added (compaction.ts findCutPoint,
\* prepareCompaction).
THEOREM PreparationDivides ==
  ASSUME EntriesLookBack, SummariesFit, tip \in 0 .. Len(tree), NEW p \in Preparations(tip)
  PROVE  Divides(p)
<1>1. p.history \union p.prefix \union p.kept = Said(Retained(tip) \union Segment(tip))
  BY PreparationIs
<1>2. Spoken(Said(Retained(tip) \union Segment(tip))) = Context(tip)
  BY NoCompactionIsRetained, ContextIsSpoken
<1> QED
  BY <1>1, <1>2 DEF Divides

LEMMA SpokenStays ==
  ASSUME Extends, NEW s \in SUBSET Ids
  PROVE  {x \in s : Kind(x)' # "error"} = Spoken(s)
  BY DEF Extends, Spoken, Kind

\* A preparation still fits when the context stays.
LEMMA DividesStays ==
  ASSUME Extends, Context(tip)' = Context(tip), NEW p \in PreparationType, Divides(p)
  PROVE  {x \in p.history \union p.prefix \union p.kept : Kind(x)' # "error"} = Context(tip)'
<1>1. p.history \union p.prefix \union p.kept \in SUBSET Ids
  BY DEF PreparationType
<1> QED
  BY <1>1, SpokenStays DEF Divides

LEMMA TipContextStays ==
  ASSUME UNCHANGED <<tree, tip>> PROVE Context(tip)' = Context(tip)
  BY DEF Context, Retained, Segment, Newest, Path, Kind

\* Notes and errors are no context.
LEMMA ContextUnchanged ==
  ASSUME EntriesLookBack, Extends, tip \in 0 .. Len(tree),
         Path(tip)' = Path(tip) \union (Len(tree) + 1) .. Len(tree'),
         \A x \in (Len(tree) + 1) .. Len(tree') : tree'[x].kind \in {"note", "error"}
  PROVE  Context(tip)' = Context(tip)
<1> DEFINE new == (Len(tree) + 1) .. Len(tree')
<1>1. /\ Path(tip) \subseteq Ids /\ Len(tree) \in Nat /\ Newest(tip) \in 0 .. Len(tree)
      /\ \A x \in Ids : tree'[x] = tree[x]
      /\ \A x \in Ids : x \in Nat /\ x <= Len(tree)
      /\ \A x \in new : x > Len(tree)
  <2>1. Len(tree) \in Nat /\ Len(tree') \in Nat /\ Path(tip) \subseteq Ids
        /\ \A x \in Ids : tree'[x] = tree[x]
    BY PathLooksBack DEF Extends
  <2>2. Newest(tip) \in 0 .. tip
    BY NewestIs
  <2> QED
    BY <2>1, <2>2 DEF Ids
<1>2. \A x \in new : tree'[x].kind \in {"note", "error"}
  OBVIOUS
<1>3. Path(tip)' = Path(tip) \union new
  OBVIOUS
<1> HIDE DEF new
<1>4. {x \in Path(tip)' : tree'[x].kind = "compaction"} = {x \in Path(tip) : tree[x].kind = "compaction"}
  BY <1>1, <1>2, <1>3
<1>5. Newest(tip)' = Newest(tip)
  BY <1>4 DEF Newest, Kind
<1>6. Retained(tip)' = Retained(tip)
  <2>1. Newest(tip) # 0 => tree'[Newest(tip)] = tree[Newest(tip)]
    BY <1>1 DEF Ids
  <2> QED
    BY <1>5, <2>1 DEF Retained
<1>7. Segment(tip)' = Segment(tip) \union {x \in new : x > Newest(tip)}
  BY <1>3, <1>5 DEF Segment
<1>8. Retained(tip) \subseteq Ids /\ Segment(tip) \subseteq Ids
  BY RetainedExists
<1>9. {x \in Retained(tip)' \union Segment(tip)' : tree'[x].kind \in {"user", "assistant", "branch"}}
        = {x \in Retained(tip) \union Segment(tip) : tree[x].kind \in {"user", "assistant", "branch"}}
  BY <1>1, <1>2, <1>6, <1>7, <1>8
<1> QED
  BY <1>9 DEF Context, Kind

----------------------------------------------------------------------------
(* Summaries: entries.                                                      *)

\* What an entry stands for.
StandsFor(e) ==
  /\ Kind(e) = "compaction" =>
       Spoken(tree[e].told \union tree[e].tail) = Context(Parent(e))
  /\ Kind(e) = "branch" => tree[e].told = Abandoned(tree[e].from, Parent(e))

LEMMA FitIsStanding ==
  /\ SummariesFit <=> \A e \in Ids : StandsFor(e)
  /\ SummariesFit' <=> \A e \in Ids' : StandsFor(e)'
  BY DEF SummariesFit, StandsFor

\* What stands for something goes on to stand for it.
LEMMA StandingStays ==
  ASSUME EntriesLookBack, Extends, NEW e \in Ids, StandsFor(e)
  PROVE  StandsFor(e)'
<1>1. tree'[e] = tree[e]
  BY DEF Extends
<1>2. PICK p \in 0 .. Len(tree) : p = Parent(e)
  BY ParentIsOlder
<1>3. Parent(e)' = p
  BY <1>1, <1>2 DEF Parent
<1>4. Context(p)' = Context(p)
  BY ContextStays
<1>5. PICK s \in SUBSET Ids : s = tree[e].told \union tree[e].tail
  <2>1. tree[e].told \union tree[e].tail \subseteq 1 .. (e - 1)
    BY DEF EntriesLookBack
  <2>2. 1 .. (e - 1) \subseteq Ids
    BY LengthIsNat DEF Ids
  <2> QED
    BY <2>1, <2>2
<1>6. PICK f \in 0 .. Len(tree) : f = tree[e].from
  <2>1. tree[e].from \in 0 .. (e - 1) /\ e - 1 <= Len(tree) /\ e \in Nat
    BY LengthIsNat DEF EntriesLookBack, Ids
  <2> QED
    BY <2>1, LengthIsNat
<1>7. Abandoned(f, p)' = Abandoned(f, p)
  BY AbandonedStays
<1>8. {x \in s : Kind(x)' # "error"} = Spoken(s)
  BY SpokenStays
<1>9. ASSUME tree'[e].kind = "compaction"
      PROVE  Spoken(tree[e].told \union tree[e].tail)' = Context(Parent(e))'
  <2>1. Spoken(s) = Context(p)
    BY <1>1, <1>2, <1>5, <1>9 DEF StandsFor, Kind
  <2>2. {x \in tree'[e].told \union tree'[e].tail : Kind(x)' # "error"} = Context(p)'
    BY <1>1, <1>4, <1>5, <1>8, <2>1
  <2>3. Context(Parent(e))' = Context(p)'
    BY <1>3 DEF Context, Retained, Segment, Newest, Path, Kind
  <2> QED
    BY <2>2, <2>3 DEF Spoken
<1>10. ASSUME tree'[e].kind = "branch"
       PROVE  tree'[e].told = Abandoned(tree[e].from, Parent(e))'
  <2>1. tree[e].told = Abandoned(f, p)
    BY <1>1, <1>2, <1>6, <1>10 DEF StandsFor, Kind
  <2>2. Abandoned(tree[e].from, Parent(e))' = Abandoned(f, p)'
    BY <1>1, <1>3, <1>6 DEF Abandoned, Path, Kind
  <2> QED
    BY <1>1, <1>7, <2>1, <2>2
<1> QED
  BY <1>9, <1>10 DEF StandsFor, Kind

\* A summary that is inserted stands for what it was prepared for.
LEMMA InsertedStands ==
  ASSUME StructuralInvariant, EntriesLookBack', OpFits, Extends, NEW x, Inserted(x),
         NEW n \in Nat, n = Len(tree) + 1, tree'[n] = x
  PROVE  StandsFor(n)'
<1>1. EntriesLookBack /\ tip \in 0 .. Len(tree) /\ op \in OpType /\ Len(tree) \in Nat
  BY LengthIsNat DEF StructuralInvariant, TypeOK
<1>2. CASE x \in {Entry("assistant", Path(tip)), Entry("error", Path(tip))}
  <2>1. tree'[n].kind \in {"assistant", "error"}
    BY <1>2 DEF Entry
  <2> QED
    BY <2>1 DEF StandsFor, Kind
<1>3. ASSUME op.at \in Summing, NEW carries \in BOOLEAN, x = SummaryEntry(carries)
      PROVE  StandsFor(n)'
  <2>1. PICK p \in PreparationType : p = op.prep
    BY <1>1, <1>3 DEF StructuralInvariant, TypeOK, OpType, PreparationType
  <2>2. PICK source \in 0 .. Len(tree) : source = op.source
    BY <1>1 DEF OpType
  <2>3. PICK target \in 0 .. Len(tree) : target = op.target
    BY <1>1 DEF OpType
  <2>4. CASE op.boundary # "navigation"
    <3>1. PICK t \in 0 .. Len(tree) : t = tip
      BY <1>1
    <3>2. /\ x.kind = "compaction" /\ x.branch = Path(t) /\ x.told = p.history \union p.prefix
          /\ x.tail = p.kept
      BY <1>1, <1>3, <2>1, <2>4, <3>1, CompactionIs DEF SummaryEntry
    <3>3. Parent(n)' = t
      <4>1. Max(Path(t) \union {0}) = t
        BY <1>1, PathLooksBack
      <4> QED
        BY <3>2, <4>1 DEF Parent
    <3>4. Spoken(p.history \union p.prefix \union p.kept) = Context(t)
      BY <1>3, <2>1, <2>4, <3>1 DEF OpFits, Divides
    <3>5. Context(t)' = Context(t)
      BY <1>1, ContextStays
    <3>6. PICK s \in SUBSET Ids : s = p.history \union p.prefix \union p.kept
      BY DEF PreparationType
    <3>7. {y \in s : Kind(y)' # "error"} = Spoken(s)
      BY SpokenStays
    <3>8. {y \in tree'[n].told \union tree'[n].tail : Kind(y)' # "error"} = Context(t)'
      BY <3>2, <3>4, <3>5, <3>6, <3>7
    <3>9. Context(Parent(n))' = Context(t)'
      BY <3>3 DEF Context, Retained, Segment, Newest, Path, Kind
    <3>10. Spoken(tree[n].told \union tree[n].tail)' = Context(Parent(n))'
      BY <3>8, <3>9 DEF Spoken
    <3> QED
      BY <3>2, <3>10 DEF StandsFor, Kind
  <2>5. CASE op.boundary = "navigation"
    <3>1. /\ x.kind = "branch" /\ x.branch = Path(target) /\ x.from = source /\ x.told = p.history
      BY <1>1, <1>3, <2>1, <2>2, <2>3, <2>5, BranchSummaryIs DEF SummaryEntry
    <3>2. Parent(n)' = target
      <4>1. Max(Path(target) \union {0}) = target
        BY <1>1, PathLooksBack
      <4> QED
        BY <3>1, <4>1 DEF Parent
    <3>3. p.history = Abandoned(source, target)
      BY <1>3, <2>1, <2>2, <2>3, <2>5 DEF OpFits
    <3>4. Abandoned(source, target)' = Abandoned(source, target)
      BY <1>1, AbandonedStays
    <3>5. Abandoned(tree[n].from, Parent(n))' = Abandoned(source, target)'
      BY <3>1, <3>2 DEF Abandoned, Path, Kind
    <3>6. tree'[n].told = Abandoned(tree[n].from, Parent(n))'
      BY <3>1, <3>3, <3>4, <3>5
    <3> QED
      BY <3>1, <3>6 DEF StandsFor, Kind
  <2> QED
    BY <2>4, <2>5
<1> QED
  BY <1>2, <1>3 DEF Inserted

\* Whatever a step inserts, the summaries in the tree fit.
LEMMA SummariesStep ==
  ASSUME StructuralInvariant, StructuralInvariant', SummariesFit, OpFits, LaneStep, Extends
  PROVE  SummariesFit'
<1>1. /\ EntriesLookBack /\ EntriesLookBack' /\ tip \in 0 .. Len(tree) /\ Len(tree) \in Nat
      /\ Len(tree') \in Nat /\ inbox \in Seq({"user", "note"})
      /\ Seq({"user", "note"}) \subseteq Seq(Kinds)
  <2>1. Seq({"user", "note"}) \subseteq Seq(Kinds)
    BY SeqMonotonic DEF Kinds
  <2> QED
    BY <2>1, Given DEF StructuralInvariant, TypeOK
<1>2. \A e \in Ids : StandsFor(e)'
  BY <1>1, StandingStays, FitIsStanding
<1>3. CASE UNCHANGED tree
  <2>1. Ids' = Ids
    BY <1>3 DEF Ids
  <2> QED
    BY <1>2, <2>1, FitIsStanding
<1>4. ASSUME NEW e \in Ids', tree'[e].kind \in {"user", "note"} PROVE StandsFor(e)'
  BY <1>4 DEF StandsFor, Kind
<1>5. ASSUME NEW kinds \in Seq({"user", "note"}), Grow(<<>>, kinds) PROVE SummariesFit'
  <2>1. /\ Len(tree') = Len(tree) + Len(kinds) /\ Len(kinds) \in Nat
        /\ \A i \in 1 .. Len(kinds) : tree'[Len(tree) + i].kind = kinds[i]
    BY <1>1, <1>5, TipGrows, LenProperties
  <2>2. \A i \in 1 .. Len(kinds) : kinds[i] \in {"user", "note"}
    BY <1>5, ElementOfSeq
  <2>3. ASSUME NEW e \in Ids' PROVE StandsFor(e)'
    <3>1. CASE e \in Ids
      BY <1>2, <3>1
    <3>2. CASE e \notin Ids
      <4>1. PICK i \in 1 .. Len(kinds) : e = Len(tree) + i
        <5>1. e - Len(tree) \in 1 .. Len(kinds) /\ e = Len(tree) + (e - Len(tree))
          BY <1>1, <2>1, <2>3, <3>2 DEF Ids
        <5> QED
          BY <5>1
      <4> QED
        BY <1>4, <2>1, <2>2, <2>3, <4>1
    <3> QED
      BY <3>1, <3>2
  <2> QED
    BY <2>3, FitIsStanding
<1>6. ASSUME NEW x, Inserted(x), NEW kinds \in Seq({"user", "note"}), Grow(<<x>>, kinds)
      PROVE  SummariesFit'
  <2>1. /\ Len(tree') = Len(tree) + 1 + Len(kinds) /\ Len(kinds) \in Nat
        /\ tree'[Len(tree) + 1] = x
        /\ \A i \in 1 .. Len(kinds) : tree'[Len(tree) + 1 + i].kind = kinds[i]
    BY <1>1, <1>6, InsertedFits, EntryGrows, LenProperties
  <2>2. \A i \in 1 .. Len(kinds) : kinds[i] \in {"user", "note"}
    BY <1>6, ElementOfSeq
  <2>3. PICK n \in Nat : n = Len(tree) + 1
    BY <1>1
  <2>4. StandsFor(n)'
    BY <1>1, <1>6, <2>1, <2>3, InsertedStands
  <2>5. ASSUME NEW e \in Ids' PROVE StandsFor(e)'
    <3>1. CASE e \in Ids
      BY <1>2, <3>1
    <3>2. CASE e = n
      BY <2>4, <3>2
    <3>3. CASE e \notin Ids /\ e # n
      <4>1. PICK i \in 1 .. Len(kinds) : e = Len(tree) + 1 + i
        <5>1. e - (Len(tree) + 1) \in 1 .. Len(kinds) /\ e = Len(tree) + 1 + (e - (Len(tree) + 1))
          BY <1>1, <2>1, <2>3, <2>5, <3>3 DEF Ids
        <5> QED
          BY <5>1
      <4> QED
        BY <1>4, <2>1, <2>2, <2>5, <4>1
    <3> QED
      BY <3>1, <3>2, <3>3
  <2> QED
    BY <2>5, FitIsStanding
<1>7. <<>> \in Seq({"user", "note"})
  OBVIOUS
<1> QED
  BY <1>1, <1>3, <1>5, <1>6, <1>7 DEF LaneStep

----------------------------------------------------------------------------
(* Summaries: what was prepared for a navigation.                           *)

LEMMA NavFitsStep ==
  ASSUME StructuralInvariant, StructuralInvariant', NavFits, [Next]_vars, Extends
  PROVE  NavFits'
<1>1. /\ EntriesLookBack /\ tip \in 0 .. Len(tree) /\ nav \in NavType
      /\ (nav.asked => nav.prep # NoPreparation)
  BY Given DEF StructuralInvariant, NavMatches
<1>2. ASSUME nav' = nav PROVE NavFits'
  <2>1. CASE ~nav.asked
    BY <1>2, <2>1 DEF NavFits
  <2>2. CASE nav.asked
    <3>1. PICK e \in 0 .. Len(tree) : e = nav.prep.from
      BY <1>1, <2>2 DEF NavType, PreparationType
    <3>2. PICK t \in 0 .. Len(tree) : t = nav.target
      BY <1>1 DEF NavType
    <3>3. nav.prep.history = Abandoned(e, t)
      BY <2>2, <3>1, <3>2 DEF NavFits
    <3>4. Abandoned(e, t)' = Abandoned(e, t)
      BY <1>1, AbandonedStays
    <3>5. Abandoned(nav.prep.from, nav.target)' = Abandoned(e, t)'
      BY <1>2, <3>1, <3>2 DEF Abandoned, Path, Kind
    <3> QED
      BY <1>2, <3>3, <3>4, <3>5 DEF NavFits
  <2> QED
    BY <2>1, <2>2
<1>3. ASSUME nav' = NoNav PROVE NavFits'
  BY <1>3 DEF NavFits, NoNav
<1>4. ASSUME NEW target, UNCHANGED <<tree, tip>>, nav'.target = target,
             nav'.prep = BranchPreparation(tip, target)
      PROVE  NavFits'
  <2>1. PICK e \in 0 .. Len(tree) : e = tip
    BY <1>1
  <2>2. nav'.prep.from = e /\ nav'.prep.history = Abandoned(e, target)
    BY <1>1, <1>4, <2>1, BranchPreparationIs
  <2>3. Abandoned(nav.prep.from, nav.target)' = Abandoned(e, target)
    BY <1>4, <2>2 DEF Abandoned, Path, Kind
  <2> QED
    BY <2>2, <2>3 DEF NavFits
<1>5. ASSUME NEW target, NEW summarize, ObserveTip(target, summarize) PROVE NavFits'
  <2>1. /\ nav' = [asked |-> TRUE, target |-> target, summarize |-> summarize,
                   prep |-> BranchPreparation(tip, target)]
        /\ UNCHANGED <<tree, tip>>
    BY <1>5 DEF ObserveTip, KeepTree
  <2> QED
    BY <1>4, <2>1
<1>6. CASE AcceptNavigation
  <2>1. CASE nav' = [nav EXCEPT !.prep = BranchPreparation(tip, nav.target)]
    <3>1. UNCHANGED <<tree, tip>>
      BY <1>6 DEF AcceptNavigation, KeepTree
    <3>2. PICK target : target = nav.target
      OBVIOUS
    <3>3. nav'.target = target /\ nav'.prep = BranchPreparation(tip, target)
      BY <1>1, <2>1, <3>2 DEF NavType
    <3> QED
      BY <1>4, <3>1, <3>3
  <2> QED
    BY <1>3, <1>6, <2>1 DEF AcceptNavigation
<1>7. CASE UNCHANGED vars
  BY <1>2, <1>7 DEF vars
<1>8. CASE PassStep
  BY <1>2, <1>8 DEF PassStep, Reconcile, CancelSeen, ReadThreshold, RunCheckpoint, FinishRun,
     CallProvider, ProviderAnswers, PublishResponse, RecoverAssistant, Decide, HookDecides,
     Generate, Summarize, PublishAttempt, RecoverSummary, StartTimer, TimerEnds,
     CommitNavigation, KeepHost
<1>9. ASSUME NEW kind, AppendEntry(kind) PROVE NavFits'
  BY <1>2, <1>9 DEF AppendEntry
<1>10. CASE AcceptRun \/ AcceptCompaction \/ RequestAbort \/ InstallPass \/ ReportRetry
  BY <1>2, <1>10 DEF AcceptRun, AcceptCompaction, RequestAbort, InstallPass, ReportRetry
<1>11. CASE Crash
  BY <1>3, <1>11 DEF Crash
<1> QED
  BY <1>5, <1>6, <1>7, <1>8, <1>9, <1>10, <1>11 DEF Next, HostStep

----------------------------------------------------------------------------
(* Summaries: what was prepared for a compaction.                           *)

\* Nothing is prepared.
LEMMA FitsEnd ==
  ASSUME op'.at \notin Summing, pass'.prep = NoPreparation
  PROVE  OpFits' /\ PassFits'
  BY DEF OpFits, PassFits

\* Something is prepared, for the same tip.
LEMMA FitsStay ==
  ASSUME OpFits, PassFits, UNCHANGED <<tree, tip>>,
         \/ op'.at \notin Summing
         \/ /\ op.at \in Summing /\ op'.prep = op.prep /\ op'.boundary = op.boundary
            /\ op'.source = op.source /\ op'.target = op.target,
         pass'.prep \in {NoPreparation, pass.prep}
  PROVE  OpFits' /\ PassFits'
<1>1. Context(tip)' = Context(tip)
  BY TipContextStays
<1>2. \A s : {x \in s : Kind(x)' # "error"} = Spoken(s)
  BY DEF Spoken, Kind
<1>3. ASSUME NEW p, Divides(p)
      PROVE  {x \in p.history \union p.prefix \union p.kept : Kind(x)' # "error"} = Context(tip)'
  BY <1>1, <1>2, <1>3 DEF Divides
<1>4. OpFits'
  <2>1. CASE op'.at \notin Summing
    BY <2>1 DEF OpFits
  <2>2. CASE /\ op.at \in Summing /\ op'.prep = op.prep /\ op'.boundary = op.boundary
             /\ op'.source = op.source /\ op'.target = op.target
    <3>1. CASE op.boundary # "navigation"
      <4>1. PICK p : p = op.prep
        OBVIOUS
      <4>2. Divides(p)
        BY <2>2, <3>1, <4>1 DEF OpFits
      <4>3. {x \in p.history \union p.prefix \union p.kept : Kind(x)' # "error"} = Context(tip)'
        BY <1>3, <4>2
      <4>4. Divides(op.prep)'
        BY <2>2, <4>1, <4>3 DEF Divides, Spoken
      <4> QED
        BY <2>2, <3>1, <4>4 DEF OpFits
    <3>2. CASE op.boundary = "navigation"
      <4>1. op.prep.history = Abandoned(op.source, op.target)
        BY <2>2, <3>2 DEF OpFits
      <4>2. Abandoned(op.source, op.target)' = Abandoned(op.source, op.target)
        BY <2>2 DEF Abandoned, Path, Kind
      <4> QED
        BY <2>2, <3>2, <4>1, <4>2 DEF OpFits
    <3> QED
      BY <3>1, <3>2
  <2> QED
    BY <2>1, <2>2
<1>5. PassFits'
  <2>1. CASE pass'.prep = NoPreparation
    BY <2>1 DEF PassFits
  <2>2. CASE pass'.prep = pass.prep /\ pass.prep # NoPreparation
    <3>1. PICK p : p = pass.prep
      OBVIOUS
    <3>2. {x \in p.history \union p.prefix \union p.kept : Kind(x)' # "error"} = Context(tip)'
      BY <1>3, <2>2, <3>1 DEF PassFits
    <3>3. Divides(pass.prep)'
      BY <2>2, <3>1, <3>2 DEF Divides, Spoken
    <3> QED
      BY <3>3 DEF PassFits
  <2> QED
    BY <2>1, <2>2
<1> QED
  BY <1>4, <1>5

\* A summary of this context is due.
LEMMA FitsDue ==
  ASSUME Extends, NEW p \in PreparationType, Divides(p), Context(tip)' = Context(tip),
         op'.prep = p, op'.boundary # "navigation", pass'.prep = NoPreparation
  PROVE  OpFits' /\ PassFits'
<1>1. {x \in p.history \union p.prefix \union p.kept : Kind(x)' # "error"} = Context(tip)'
  BY DividesStays
<1>2. Divides(op.prep)'
  BY <1>1 DEF Divides, Spoken
<1> QED
  BY <1>2 DEF OpFits, PassFits

\* A pass has prepared one.
LEMMA FitsRead ==
  ASSUME Extends, NEW p \in PreparationType, Divides(p), UNCHANGED <<tree, tip>>,
         op'.at \notin Summing, pass'.prep = p
  PROVE  OpFits' /\ PassFits'
<1>1. {x \in p.history \union p.prefix \union p.kept : Kind(x)' # "error"} = Context(tip)'
  BY DividesStays, TipContextStays
<1>2. Divides(pass.prep)'
  BY <1>1 DEF Divides, Spoken
<1> QED
  BY <1>2 DEF OpFits, PassFits

\* What a boundary places before a summary changes no context.
LEMMA NotesAreNoContext ==
  ASSUME StructuralInvariant, Place(<<>>), Projecting = {}
  PROVE  Context(tip)' = Context(tip)
<1>1. /\ EntriesLookBack /\ tip \in 0 .. Len(tree) /\ Len(tree) \in Nat
      /\ inbox \in Seq({"user", "note"}) /\ inbox \in Seq(Kinds) /\ Len(inbox) \in Nat
  <2>1. Seq({"user", "note"}) \subseteq Seq(Kinds)
    BY SeqMonotonic DEF Kinds
  <2> QED
    BY <2>1, LengthIsNat, LenProperties DEF StructuralInvariant, TypeOK
<1>2. /\ Extends /\ Len(tree') = Len(tree) + Len(inbox)
      /\ Path(tip)' = Path(tip) \union (Len(tree) + 1) .. Len(tree')
      /\ \A i \in 1 .. Len(inbox) : tree'[Len(tree) + i].kind = inbox[i]
  BY <1>1, TipGrows DEF Place
<1>3. \A i \in 1 .. Len(inbox) : inbox[i] = "note"
  <2>1. \A i \in 1 .. Len(inbox) : inbox[i] \in {"user", "note"}
    BY <1>1, ElementOfSeq
  <2> QED
    BY <2>1 DEF Projecting
<1>4. ASSUME NEW x \in (Len(tree) + 1) .. Len(tree') PROVE tree'[x].kind \in {"note", "error"}
  <2>1. x - Len(tree) \in 1 .. Len(inbox) /\ x = Len(tree) + (x - Len(tree))
    BY <1>1, <1>2
  <2> QED
    BY <1>2, <1>3, <2>1
<1> QED
  BY <1>1, <1>2, <1>4, ContextUnchanged

LEMMA ErrorIsNoContext ==
  ASSUME StructuralInvariant, NEW x, x = Entry("error", Path(tip)), Grow(<<x>>, <<>>)
  PROVE  Context(tip)' = Context(tip)
<1>1. EntriesLookBack /\ tip \in 0 .. Len(tree) /\ Len(tree) \in Nat /\ <<>> \in Seq(Kinds)
  BY LengthIsNat DEF StructuralInvariant, TypeOK
<1>2. Inserted(x)
  BY DEF Inserted
<1>3. /\ Extends /\ Len(tree') = Len(tree) + 1 + Len(<<>>) /\ tree'[Len(tree) + 1] = x
      /\ Path(tip)' = x.branch \union (Len(tree) + 1) .. Len(tree')
  BY <1>1, <1>2, InsertedFits, EntryGrows
<1>4. x.branch = Path(tip) /\ x.kind = "error"
  BY DEF Entry
<1>5. ASSUME NEW y \in (Len(tree) + 1) .. Len(tree') PROVE tree'[y].kind \in {"note", "error"}
  <2>1. y = Len(tree) + 1
    BY <1>1, <1>3
  <2> QED
    BY <1>3, <1>4, <2>1
<1> QED
  BY <1>1, <1>3, <1>4, <1>5, ContextUnchanged

LEMMA FitsOfHost ==
  ASSUME StructuralInvariant, StructuralInvariant', SummariesFit, PreparationsFit, Extends, HostStep
  PROVE  OpFits' /\ PassFits'
<1>1. /\ OpFits /\ PassFits /\ NavFits /\ EntriesLookBack /\ tip \in 0 .. Len(tree)
      /\ (Idle => op.at \notin Summing /\ pass.prep = NoPreparation)
  <2>1. Idle => op.at \notin Summing /\ pass.prep = NoPreparation
    BY DEF Idle, Summing, StructuralInvariant, TypeOK, NoPass
  <2> QED
    BY <2>1, Given DEF PreparationsFit
<1>2. ASSUME op' = op, UNCHANGED <<tree, tip>> \/ Idle, pass' = pass \/ pass'.prep = NoPreparation
      PROVE  OpFits' /\ PassFits'
  <2>1. CASE Idle
    BY <1>1, <1>2, <2>1, FitsEnd
  <2>2. CASE UNCHANGED <<tree, tip>>
    <3>1. pass'.prep \in {NoPreparation, pass.prep}
      BY <1>2
    <3> QED
      BY <1>1, <1>2, <2>2, <3>1, FitsStay
  <2> QED
    BY <1>2, <2>1, <2>2
<1>3. ASSUME NEW kind, AppendEntry(kind) PROVE OpFits' /\ PassFits'
  BY <1>2, <1>3 DEF AppendEntry
<1>4. ASSUME NEW target, NEW summarize, ObserveTip(target, summarize) PROVE OpFits' /\ PassFits'
  BY <1>2, <1>4 DEF ObserveTip, KeepTree
<1>5. CASE Crash \/ ReportRetry
  BY <1>2, <1>5 DEF Crash, ReportRetry, KeepTree, NoPass
<1>6. CASE InstallPass
  BY <1>2, <1>6 DEF InstallPass, KeepTree, Again, NoPass
<1>7. CASE RequestAbort
  <2>1. /\ op'.at = op.at /\ op'.boundary = op.boundary /\ op'.prep = op.prep
        /\ op'.source = op.source /\ op'.target = op.target
    BY <1>7, CancelIs, Given DEF RequestAbort
  <2>2. pass'.prep \in {NoPreparation, pass.prep} /\ UNCHANGED <<tree, tip>>
    BY <1>7 DEF RequestAbort, KeepTree
  <2> QED
    BY <1>1, <2>1, <2>2, FitsStay
<1>8. CASE AcceptRun
  <2>1. op'.at = "checkpoint" /\ pass' = pass /\ Idle
    BY <1>8 DEF AcceptRun, NoOp
  <2> QED
    BY <1>1, <2>1, FitsEnd DEF Summing
<1>9. CASE AcceptCompaction
  <2>1. PICK p \in Preparations(tip) :
          op' = [NoOp EXCEPT !.at = "summary.deciding", !.boundary = "manual", !.source = tip,
                             !.prep = p]
    BY <1>9 DEF AcceptCompaction
  <2>2. /\ pass' = pass /\ Idle /\ UNCHANGED <<tree, tip>>
    BY <1>9 DEF AcceptCompaction, KeepTree
  <2>3. op'.prep = p /\ op'.boundary = "manual"
    BY <2>1 DEF NoOp
  <2>4. p \in PreparationType /\ Divides(p)
    BY <1>1, PreparationIs, PreparationDivides
  <2> QED
    BY <1>1, <2>2, <2>3, <2>4, TipContextStays, FitsDue
<1>10. CASE AcceptNavigation
  <2>1. pass' = pass /\ UNCHANGED <<tree, tip>>
    BY <1>10 DEF AcceptNavigation, KeepTree
  <2>2. CASE op' = op
    BY <1>2, <2>1, <2>2
  <2>3. CASE op' # op
    <3>1. /\ Idle /\ nav.asked /\ nav.prep.from = tip
          /\ op' = [NoOp EXCEPT !.source = tip, !.target = nav.target,
                                !.boundary = "navigation",
                                !.at = IF nav.summarize THEN "summary.deciding"
                                       ELSE "navigation.ready_to_commit",
                                !.prep = IF nav.summarize THEN nav.prep ELSE NoPreparation]
      BY <1>10, <2>3 DEF AcceptNavigation, TipIsObserved
    <3>2. CASE nav.summarize
      <4>1. /\ op'.prep = nav.prep /\ op'.boundary = "navigation" /\ op'.source = tip
            /\ op'.target = nav.target
        BY <3>1, <3>2 DEF NoOp
      <4>2. nav.prep.history = Abandoned(tip, nav.target)
        BY <1>1, <3>1 DEF NavFits
      <4>3. Abandoned(op.source, op.target)' = Abandoned(tip, nav.target)
        BY <2>1, <4>1 DEF Abandoned, Path, Kind
      <4>4. OpFits'
        BY <4>1, <4>2, <4>3 DEF OpFits
      <4> QED
        BY <1>1, <2>1, <3>1, <4>4 DEF PassFits
    <3>3. CASE ~nav.summarize
      <4>1. op'.at = "navigation.ready_to_commit"
        BY <3>1, <3>3 DEF NoOp
      <4>2. op'.at \notin Summing
        BY <4>1 DEF Summing
      <4> QED
        BY <1>1, <2>1, <3>1, <4>2, FitsEnd
    <3> QED
      BY <3>2, <3>3
  <2> QED
    BY <2>2, <2>3
<1> QED
  BY <1>3, <1>4, <1>5, <1>6, <1>7, <1>8, <1>9, <1>10 DEF HostStep

LEMMA FitsOfSettle ==
  ASSUME NEW status, Settle(status) PROVE OpFits' /\ PassFits'
<1>1. op'.at = "none" /\ pass'.prep = NoPreparation
  BY DEF Settle, NoOp, NoPass
<1> QED
  BY <1>1, FitsEnd DEF Summing

\* The run around a summary.
LEMMA FitsOfRun ==
  ASSUME StructuralInvariant, StructuralInvariant', SummariesFit, PreparationsFit, Extends,
         \/ Reconcile \/ CancelSeen \/ ReadThreshold \/ RunCheckpoint \/ FinishRun
         \/ CallProvider \/ ProviderAnswers \/ PublishResponse \/ RecoverAssistant
  PROVE  OpFits' /\ PassFits'
<1>1. /\ OpFits /\ PassFits /\ EntriesLookBack /\ tip \in 0 .. Len(tree) /\ PassMatches
      /\ (Again => pass'.prep = NoPreparation)
  BY Given DEF PreparationsFit, StructuralInvariant, Again, NoPass
<1>2. ASSUME NEW leaf \in {"checkpoint", "ready", "pending"}, Goto(leaf), pass'.prep = NoPreparation
      PROVE  OpFits' /\ PassFits'
  <2>1. op'.at = leaf
    BY <1>2, Given DEF Goto, OpType
  <2> QED
    BY <1>2, <2>1, FitsEnd DEF Summing
<1>3. ASSUME NEW trigger, NEW used, AskAssistant(trigger, used), Again PROVE OpFits' /\ PassFits'
  <2>1. op'.at = "ready"
    BY <1>3, Given DEF AskAssistant, OpType
  <2> QED
    BY <1>1, <1>3, <2>1, FitsEnd DEF Summing
<1>4. ASSUME pass.prep # NoPreparation, Context(tip)' = Context(tip),
             NEW reason \in {"threshold", "overflow"}, NEW cont \in {"need_assistant", "may_finish"},
             NEW used \in BOOLEAN, Compact(reason, pass.prep, cont, used), Again
      PROVE  OpFits' /\ PassFits'
  <2>1. PICK p \in PreparationType : p = pass.prep
    BY <1>4, Given DEF PassType
  <2>2. p \in PreparationType' /\ Divides(p)
    BY <1>1, <1>4, <2>1, TypesWiden DEF PassFits
  <2>3. op'.prep = p /\ op'.boundary = reason
    BY <1>4, <2>1, <2>2, CompactIs, Given
  <2> QED
    BY <1>1, <1>4, <2>2, <2>3, FitsDue
<1>5. CASE Reconcile
  <2>1. pass.prep = NoPreparation
    BY <1>5, Driven DEF Reconcile, At
  <2> QED
    BY <1>2, <1>5, <2>1, FitsOfSettle DEF Reconcile
<1>6. CASE CancelSeen
  <2>1. op' = op /\ UNCHANGED <<tree, tip>> /\ Again
    BY <1>6 DEF CancelSeen, KeepTree
  <2> QED
    BY <1>1, <2>1, FitsStay
<1>7. ASSUME UNCHANGED <<tree, tip>>, op' = op, op.at \in {"checkpoint", "pending"},
             NEW p \in {NoPreparation} \union Preparations(tip), pass'.prep = p
      PROVE  OpFits' /\ PassFits'
  <2>1. op'.at \notin Summing
    BY <1>7 DEF Summing
  <2>2. CASE p = NoPreparation
    BY <1>7, <2>1, <2>2, FitsEnd
  <2>3. CASE p \in Preparations(tip)
    <3>1. p \in PreparationType /\ Divides(p)
      BY <1>1, <2>3, PreparationIs, PreparationDivides
    <3> QED
      BY <1>7, <2>1, <3>1, FitsRead
  <2> QED
    BY <2>2, <2>3
<1>8. CASE ReadThreshold
  <2>1. op' = op /\ op.at = "checkpoint" /\ UNCHANGED <<tree, tip>>
    BY <1>8 DEF ReadThreshold, Dispatch, KeepTree
  <2>2. PICK p \in {NoPreparation} \union Preparations(tip) :
          pass' = [pass EXCEPT !.pc = "checkpoint", !.prep = p]
    BY <1>8 DEF ReadThreshold
  <2>3. pass'.prep = p
    BY <1>1, <2>2 DEF PassMatches, PassType
  <2> QED
    BY <1>7, <2>1, <2>2, <2>3
<1>9. CASE RunCheckpoint
  <2>1. pass.pc = "checkpoint" /\ op.at = "checkpoint"
    BY <1>1, <1>9 DEF RunCheckpoint, At, PassMatches
  <2>2. CASE Projecting # {}
    BY <1>3, <1>9, <2>2 DEF RunCheckpoint
  <2>3. CASE Projecting = {} /\ pass.prep # NoPreparation
    <3>1. Compact("threshold", pass.prep, op.cont, op.used) /\ Again /\ Place(<<>>)
      BY <1>9, <2>3 DEF RunCheckpoint
    <3>2. Context(tip)' = Context(tip)
      BY <2>3, <3>1, NotesAreNoContext
    <3> QED
      BY <1>4, <2>3, <3>1, <3>2, Given
  <2>4. CASE Projecting = {} /\ pass.prep = NoPreparation /\ op.cont = "need_assistant"
    BY <1>3, <1>9, <2>4 DEF RunCheckpoint
  <2>5. CASE Projecting = {} /\ pass.prep = NoPreparation /\ op.cont # "need_assistant"
    <3>1. op' = op /\ pass'.prep = NoPreparation
      BY <1>9, <2>5 DEF RunCheckpoint, NoPass
    <3> QED
      BY <2>1, <3>1, FitsEnd DEF Summing
  <2> QED
    BY <2>2, <2>3, <2>4, <2>5
<1>10. CASE FinishRun
  BY <1>3, <1>10, FitsOfSettle DEF FinishRun
<1>11. CASE CallProvider
  <2>1. Goto("pending") /\ pass' = [pass EXCEPT !.pc = "answer"] /\ pass.prep = NoPreparation
    BY <1>11, Driven DEF CallProvider, Dispatch, At
  <2>2. pass'.prep = NoPreparation
    BY <1>1, <2>1 DEF PassMatches, PassType
  <2> QED
    BY <1>2, <2>1, <2>2
<1>12. CASE ProviderAnswers
  <2>1. op' = op /\ op.at = "pending" /\ UNCHANGED <<tree, tip>>
    BY <1>1, <1>12 DEF ProviderAnswers, At, PassMatches, KeepTree
  <2>2. PICK r \in {"stop", "tools", "retry", "fatal", "overflow"},
             p \in {NoPreparation} \union Preparations(tip) :
          pass' = [pc |-> "respond", prep |-> p, back |-> r]
    BY <1>12 DEF ProviderAnswers
  <2>3. pass'.prep = p
    BY <2>2
  <2> QED
    BY <1>7, <2>1, <2>2, <2>3
<1>13. CASE PublishResponse
  <2>1. ASSUME NEW cont, NEW entry, Again,
               op' = [op EXCEPT !.at = "checkpoint", !.trigger = entry, !.used = FALSE, !.cont = cont]
        PROVE  OpFits' /\ PassFits'
    <3>1. op'.at = "checkpoint"
      BY <2>1, Given DEF OpType
    <3> QED
      BY <1>1, <2>1, <3>1, FitsEnd DEF Summing
  <2>2. ASSUME Goto("ready"), Again PROVE OpFits' /\ PassFits'
    BY <1>1, <1>2, <2>2
  <2>3. ASSUME pass.back = "overflow", pass.prep # NoPreparation,
               Compact("overflow", pass.prep, "need_assistant", TRUE), Again
        PROVE  OpFits' /\ PassFits'
    <3>1. PICK x : x = Entry("error", Path(tip))
      OBVIOUS
    <3>2. Grow(<<x>>, <<>>)
      BY <1>13, <2>3, <3>1 DEF PublishResponse
    <3>3. Context(tip)' = Context(tip)
      BY <3>1, <3>2, ErrorIsNoContext
    <3> QED
      BY <1>4, <2>3, <3>3
  <2> QED
    BY <1>13, <2>1, <2>2, <2>3, FitsOfSettle DEF PublishResponse
<1>14. CASE RecoverAssistant
  BY <1>1, <1>2, <1>14, FitsOfSettle DEF RecoverAssistant
<1> QED
  BY <1>5, <1>6, <1>8, <1>9, <1>10, <1>11, <1>12, <1>13, <1>14

\* Steps within a summary move neither the tip nor the preparation.
LEMMA FitsOfLeaf ==
  ASSUME StructuralInvariant, OpFits, PassFits, Extends, UNCHANGED <<tree, tip>>, op.at \in Summing,
         ~Idle, NEW leaf \in Summing, NEW attempt \in 0 .. MaxAttempts, pass'.prep = NoPreparation,
         \/ op' = op
         \/ op' = [op EXCEPT !.at = leaf, !.attempt = attempt]
         \/ Goto(leaf)
  PROVE  OpFits' /\ PassFits'
<1>1. leaf \in Leaves \ {"none"}
  BY DEF Leaves, Summing
<1>2. /\ op'.prep = op.prep /\ op'.boundary = op.boundary /\ op'.source = op.source
      /\ op'.target = op.target
  BY <1>1, GoesTo, GotoIs, Given
<1> QED
  BY <1>2, FitsStay

LEMMA FitsOfStructure ==
  ASSUME StructuralInvariant, StructuralInvariant', PreparationsFit, Extends,
         \/ Decide \/ HookDecides \/ Generate \/ Summarize \/ PublishAttempt \/ RecoverSummary
         \/ StartTimer \/ TimerEnds \/ CommitNavigation
  PROVE  OpFits' /\ PassFits'
<1>1. OpFits /\ PassFits /\ PassMatches /\ (Again => pass'.prep = NoPreparation)
  BY DEF PreparationsFit, StructuralInvariant, Again, NoPass
<1>2. ASSUME NEW pc, pass.pc = "dispatch", pass' = [pass EXCEPT !.pc = pc]
      PROVE  pass'.prep = NoPreparation
  BY <1>1, <1>2 DEF PassMatches, PassType
<1>3. ASSUME op.at \in Summing, ~Idle, UNCHANGED <<tree, tip>>, pass'.prep = NoPreparation,
             NEW leaf \in Summing, op' = op \/ Goto(leaf)
      PROVE  OpFits' /\ PassFits'
  BY <1>1, <1>3, FitsOfLeaf, Given
<1>4. ASSUME op.at \in Summing, ~Idle, WaitForRetry, AttemptsLeft PROVE OpFits' /\ PassFits'
  <2>1. op.attempt + 1 \in 0 .. MaxAttempts /\ "summary.retry_wait" \in Summing
    BY <1>4, Given DEF AttemptsLeft, Summing
  <2>2. /\ op' = [op EXCEPT !.at = "summary.retry_wait", !.attempt = op.attempt + 1]
        /\ UNCHANGED <<tree, tip>> /\ Again
    BY <1>4 DEF WaitForRetry, KeepTree
  <2> QED
    BY <1>1, <1>4, <2>1, <2>2, FitsOfLeaf
<1>5. ASSUME NEW first, first = <<>> \/ \E x : Inserted(x) /\ first = <<x>>, Place(first),
             Resumes(first), Again
      PROVE  OpFits' /\ PassFits'
  <2>1. op'.at \in {"ready", "checkpoint"}
    BY <1>5, ResumesIs
  <2> QED
    BY <1>1, <1>5, <2>1, FitsEnd DEF Summing
<1>6. ASSUME op.at \in Summing, NEW carries \in BOOLEAN, PublishSummary(carries)
      PROVE  OpFits' /\ PassFits'
  <2>1. CASE ~InRun
    BY <1>6, <2>1, FitsOfSettle DEF PublishSummary
  <2>2. CASE InRun
    <3>1. PICK first : first = <<SummaryEntry(carries)>>
      OBVIOUS
    <3>2. Place(first) /\ Resumes(first) /\ Again
      BY <1>6, <2>2, <3>1 DEF PublishSummary
    <3>3. \E x : Inserted(x) /\ first = <<x>>
      BY <1>6, <3>1 DEF Inserted
    <3> QED
      BY <1>5, <3>2, <3>3
  <2> QED
    BY <2>1, <2>2
<1>7. CASE Decide
  <2>1. /\ pass.pc = "dispatch" /\ op.at \in Summing /\ op' = op /\ UNCHANGED <<tree, tip>>
        /\ pass' = [pass EXCEPT !.pc = "deciding"] /\ ~Idle
    BY <1>7, Driven DEF Decide, Dispatch, At, Summing, KeepTree
  <2>2. pass'.prep = NoPreparation
    BY <1>2, <2>1
  <2> QED
    BY <1>3, <2>1, <2>2
<1>8. CASE HookDecides
  <2>1. pass.pc = "deciding" /\ op.at \in Summing /\ ~Idle
    BY <1>1, <1>8, Driven DEF HookDecides, At, PassMatches, Summing
  <2>2. CASE op' = [op EXCEPT !.at = "summary.ready", !.attempt = 1] /\ Again /\ KeepTree
    <3>1. 1 \in 0 .. MaxAttempts /\ "summary.ready" \in Summing
      BY StructuralBounds DEF Summing
    <3>2. UNCHANGED <<tree, tip>>
      BY <2>2 DEF KeepTree
    <3> QED
      BY <1>1, <2>1, <2>2, <3>1, <3>2, FitsOfLeaf
  <2>3. CASE PublishDeclined
    <3>1. CASE Place(<<>>) /\ Resumes(<<>>) /\ Again
      <4>1. PICK first : first = <<>>
        OBVIOUS
      <4>2. Place(first) /\ Resumes(first)
        BY <3>1, <4>1
      <4> QED
        BY <1>5, <3>1, <4>1, <4>2
    <3>2. CASE pass' = [NoPass EXCEPT !.pc = "end_hook"] /\ KeepTree /\ op' = op
      <4>1. pass'.prep = NoPreparation /\ UNCHANGED <<tree, tip>>
        BY <3>2 DEF NoPass, KeepTree
      <4> QED
        BY <1>3, <2>1, <3>2, <4>1
    <3>3. CASE Settle("failed") \/ Settle("declined")
      BY <3>3, FitsOfSettle
    <3> QED
      BY <2>3, <3>1, <3>2, <3>3 DEF PublishDeclined
  <2>4. PublishSummary(TRUE) => OpFits' /\ PassFits'
    BY <1>6, <2>1
  <2> QED
    BY <1>8, <2>2, <2>3, <2>4 DEF HookDecides
<1>9. CASE Generate
  <2>1. pass.pc = "dispatch" /\ op.at \in Summing /\ ~Idle
    BY <1>9, Driven DEF Generate, Dispatch, At, Summing
  <2>2. CASE /\ Goto("summary.effect_pending") /\ pass' = [pass EXCEPT !.pc = "request"]
             /\ KeepTree
    <3>1. "summary.effect_pending" \in Summing /\ UNCHANGED <<tree, tip>>
      BY <2>2 DEF Summing, KeepTree
    <3>2. pass'.prep = NoPreparation
      BY <1>2, <2>1, <2>2
    <3> QED
      BY <1>3, <2>1, <2>2, <3>1, <3>2
  <2> QED
    BY <1>9, <2>2, FitsOfSettle DEF Generate, PublishFailed
<1>10. CASE Summarize
  <2>1. /\ pass.pc = "request" /\ op.at \in Summing /\ ~Idle /\ op' = op /\ UNCHANGED <<tree, tip>>
    BY <1>1, <1>10, Driven DEF Summarize, At, PassMatches, Summing, KeepTree
  <2>2. \E r : pass' = [pass EXCEPT !.pc = "summarized", !.back = r]
    BY <1>10 DEF Summarize
  <2>3. pass'.prep = NoPreparation
    BY <1>1, <2>1, <2>2 DEF PassMatches, PassType
  <2> QED
    BY <1>3, <2>1, <2>3
<1>11. CASE PublishAttempt
  <2>1. pass.pc = "summarized" /\ op.at \in Summing /\ ~Idle
    BY <1>1, <1>11, Driven DEF PublishAttempt, At, PassMatches, Summing
  <2>2. Carries(op.prep) \in BOOLEAN
    BY DEF Carries
  <2>3. PublishSummary(Carries(op.prep)) => OpFits' /\ PassFits'
    BY <1>6, <2>1, <2>2
  <2> QED
    BY <1>4, <1>11, <2>1, <2>3, FitsOfSettle DEF PublishAttempt, PublishFailed
<1>12. CASE RecoverSummary
  <2>1. op.at \in Summing /\ ~Idle
    BY <1>12, Driven DEF RecoverSummary, Dispatch, At, Summing
  <2> QED
    BY <1>4, <1>12, <2>1, FitsOfSettle DEF RecoverSummary, PublishFailed
<1>13. CASE StartTimer
  <2>1. /\ pass.pc = "dispatch" /\ op.at \in Summing /\ op' = op /\ UNCHANGED <<tree, tip>>
        /\ pass' = [pass EXCEPT !.pc = "timer"] /\ ~Idle
    BY <1>13, Driven DEF StartTimer, Dispatch, At, Summing, KeepTree
  <2>2. pass'.prep = NoPreparation
    BY <1>2, <2>1
  <2> QED
    BY <1>3, <2>1, <2>2
<1>14. CASE TimerEnds
  <2>1. /\ op.at \in Summing /\ ~Idle /\ Goto("summary.ready") /\ Again /\ UNCHANGED <<tree, tip>>
    BY <1>1, <1>14, Driven DEF TimerEnds, At, PassMatches, Summing, KeepTree
  <2>2. "summary.ready" \in Summing
    BY DEF Summing
  <2> QED
    BY <1>1, <1>3, <2>1, <2>2
<1>15. CASE CommitNavigation
  BY <1>15, FitsOfSettle DEF CommitNavigation
<1> QED
  BY <1>7, <1>8, <1>9, <1>10, <1>11, <1>12, <1>13, <1>14, <1>15

LEMMA FitsStep ==
  ASSUME StructuralInvariant, StructuralInvariant', SummariesFit, PreparationsFit, [Next]_vars
  PROVE  SummariesFit' /\ PreparationsFit'
<1>1. LaneStep /\ Extends
  BY LaneChanges
<1>2. OpFits /\ PassFits /\ NavFits
  BY DEF PreparationsFit
<1>3. SummariesFit' /\ NavFits'
  BY <1>1, <1>2, SummariesStep, NavFitsStep
<1>4. CASE UNCHANGED vars
  <2>1. OpFits' <=> OpFits
    BY <1>4 DEF vars, laneVars, OpFits, Divides, Spoken, Context, Retained, Segment, Newest, Path,
       Kind, Abandoned
  <2>2. PassFits' <=> PassFits
    BY <1>4 DEF vars, laneVars, PassFits, Divides, Spoken, Context, Retained, Segment, Newest, Path,
       Kind
  <2> QED
    BY <1>2, <1>3, <2>1, <2>2 DEF PreparationsFit
<1>5. CASE HostStep
  BY <1>1, <1>3, <1>5, FitsOfHost DEF PreparationsFit
<1>6. CASE PassStep
  BY <1>1, <1>3, <1>6, FitsOfRun, FitsOfStructure DEF PassStep, PreparationsFit
<1> QED
  BY <1>4, <1>5, <1>6 DEF Next

LEMMA FitsStart ==
  ASSUME Init PROVE PreparationsFit
<1>1. op.at \notin Summing /\ pass.prep = NoPreparation /\ ~nav.asked
  BY DEF Init, NoOp, NoPass, NoNav, Summing
<1> QED
  BY <1>1 DEF PreparationsFit, OpFits, PassFits, NavFits

\* A Session opened on a transcript whose summaries fit keeps them so: a summary is
\* prepared at one tip and placed at another time (structural.ts:250), and stands for
\* just what it replaces, whatever comes in between.
THEOREM SummariesGoOnFitting == Spec /\ SummariesFit => []SummariesFit
<1>1. Init => PreparationsFit
  BY FitsStart
<1>2. /\ StructuralInvariant /\ StructuralInvariant' /\ SummariesFit /\ PreparationsFit
      /\ [Next]_vars
      => SummariesFit' /\ PreparationsFit'
  BY FitsStep
<1> QED
  BY <1>1, <1>2, StructuralProtocol, PTL DEF Spec

=============================================================================
