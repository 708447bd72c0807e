--------------------------- MODULE MCJsonlStorage ---------------------------
(****************************************************************************)
(* Values for the constants of JsonlStorage.  Transactions are symmetric.   *)
(****************************************************************************)
EXTENDS JsonlStorage, TLC

CONSTANTS r1, r2, r3
TwoRequests   == {r1, r2}
ThreeRequests == {r1, r2, r3}
Interchange   == Permutations(Requests)
=============================================================================
