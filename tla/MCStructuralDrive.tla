-------------------------- MODULE MCStructuralDrive --------------------------
(****************************************************************************)
(* The transcripts a Session is opened with: a new one, one that was        *)
(* compacted after its first response, and one that left a response for the *)
(* prompt before it.                                                        *)
(****************************************************************************)
EXTENDS StructuralDrive

Compacted ==
  [Chain(<<"user", "assistant", "compaction", "user">>, 0, {})
     EXCEPT ![3].told = {1}, ![3].tail = {2}]

Navigated ==
  Chain(<<"user", "assistant">>, 0, {}) \o
  <<[Entry("branch", {1}) EXCEPT !.from = 2, !.told = {2}],
    Entry("note", {1, 3})>>

NewSession  == {<<>>}
Transcripts == NewSession \union {Compacted, Navigated}
=============================================================================
