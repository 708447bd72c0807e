---------------------------- MODULE MCLaneCallers ----------------------------
(****************************************************************************)
(* Values for the constants of LaneCallers: calls that meet in one pass, at *)
(* an idle lane, at the end of an operation and at a cancellation.          *)
(****************************************************************************)
EXTENDS LaneCallers

CONSTANTS c1, c2, c3
Three == {c1, c2, c3}
Mix(a, b, c) == [i \in Three |-> CASE i = c1 -> a [] i = c2 -> b [] i = c3 -> c]
SomeMixes ==
  {Mix("prompt", "resume", "abort"), Mix("prompt", "abort", "drive"),
   Mix("prompt", "prompt", "drive"), Mix("accept", "resume", "drive"),
   Mix("accept", "drive", "idle"), Mix("prompt", "abort", "abort"),
   Mix("prompt", "callback", "write"), Mix("prompt", "callback", "callback"),
   Mix("accept", "resume", "callback")}
=============================================================================
