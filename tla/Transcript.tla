------------------------------ MODULE Transcript ------------------------------
(****************************************************************************)
(* The entry tree of a Session as compaction and navigation see it          *)
(* (session/types.ts, session/context.ts, compaction/compaction.ts).        *)
(*                                                                          *)
(* Entries are numbered as they are inserted, so that an entry is newer     *)
(* than those on its path and a set of them is also a sequence.  Texts are  *)
(* left out: of a summary the tree keeps which messages it was made from,   *)
(* and whether the summary before it went into it.  Token counts are left   *)
(* out too: the cut of a compaction may fall on any valid cut point.        *)
(****************************************************************************)
EXTENDS Integers, Sequences, FiniteSets, FiniteSetsExt

VARIABLE tree   \* the entries

\* An assistant entry stands for a response with its tool results, an error for
\* a response that failed, was aborted or overflowed, a note for a custom entry
\* that projects no message.
Kinds == {"user", "assistant", "error", "note", "compaction", "branch"}

Ids     == 1 .. Len(tree)
Kind(e) == tree[e].kind

\* branch is what the parents of an entry lead to, from the tip at which a summary
\* was asked for, told what it was made from, tail the messages a compaction copies
\* forward, carries whether the request was given the summary before.
Entry(kind, branch) ==
  [kind |-> kind, branch |-> branch, from |-> 0, told |-> {}, tail |-> {},
   carries |-> TRUE]

EntryType ==
  [kind : Kinds, branch : SUBSET Int, from : Int, told : SUBSET Int,
   tail : SUBSET Int, carries : BOOLEAN]

Parent(e) == Max(tree[e].branch \union {0})

\* scanBranch: the entries from e to the root.
Path(e) == IF e = 0 THEN {} ELSE tree[e].branch \union {e}

Newest(e)   == Max({x \in Path(e) : Kind(x) = "compaction"} \union {0})
Segment(e)  == LET last == Newest(e) IN {x \in Path(e) : x > last}
Retained(e) == LET last == Newest(e) IN IF last = 0 THEN {} ELSE tree[last].tail

\* buildSessionContext: the messages a request sees besides the summary.
Context(e) == {x \in Retained(e) \union Segment(e) : Kind(x) \in {"user", "assistant", "branch"}}

----------------------------------------------------------------------------
(* prepareCompaction and findCutPoint.                                      *)

\* A message that was copied forward is a message, whatever it was.
Role(copied, x) == IF x \in copied /\ Kind(x) = "branch" THEN "assistant" ELSE Kind(x)

\* What a compaction at tip e may be prepared from: it is cut at an entry that
\* has a message, moved over the entries before it that have none, and when
\* that is inside a turn, history and prefix go into a summary each.
PreparedFrom(e, copied, all) ==
  LET Said(s)  == {x \in s : Kind(x) # "note"}
      Opens(x) == Role(copied, x) \in {"user", "branch"}
      Moved(x) == Min({y \in all : y <= x /\ \A z \in all :
                         y <= z /\ z < x => Role(copied, z) \in {"note", "branch"}})
      Turn(x)  == IF Role(copied, x) = "user" THEN {x} ELSE {y \in all : y <= x /\ Opens(y)}
      CutAt(x, turn) ==
        [from |-> e, kept |-> Said({y \in all : y >= x}),
         history |-> Said({y \in all : y < turn}),
         prefix |-> Said({y \in all : turn <= y /\ y < x})]
  IN {CutAt(x, IF Turn(x) = {} THEN x ELSE Max(Turn(x))) : x \in {Moved(y) : y \in Said(all)}}

Cuts(e) ==
  UNION {PreparedFrom(e, c[1], c[2]) : c \in {<<Retained(e), Retained(e) \union Segment(e)>>}}

NoPreparation == [from |-> -1, kept |-> {}, history |-> {}, prefix |-> {}]

\* There is nothing to compact at the root and right after a compaction.
Preparations(e) ==
  IF e = 0 \/ Newest(e) = e THEN {}
  ELSE IF Cuts(e) = {} THEN {[NoPreparation EXCEPT !.from = e]} ELSE Cuts(e)

\* prepareBranchEntries: what is left behind by a navigation to a target.
Abandoned(e, target) == {x \in Path(e) \ Path(target) : Kind(x) # "note"}
BranchPreparation(e, target) ==
  [NoPreparation EXCEPT !.from = e, !.history = Abandoned(e, target)]

\* compactWithRequest: a split turn without history asks for no history
\* summary, and only that request is given the previous summary.
Carries(p) == ~(p.prefix # {} /\ p.history = {})

Compaction(p, tip, carries) ==
  [Entry("compaction", Path(tip)) EXCEPT
     !.told = p.history \union p.prefix, !.tail = p.kept, !.carries = carries]

BranchSummary(p, source, target) ==
  [Entry("branch", Path(target)) EXCEPT !.from = source, !.told = p.history]
=============================================================================
