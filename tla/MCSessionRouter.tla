-------------------------- MODULE MCSessionRouter --------------------------
(****************************************************************************)
(* Values for the constants of SessionRouter.  Which connection comes first *)
(* and which Session it asks for makes no difference, so every script       *)
(* starts with the same attach; then a Session is shared, removed, left or  *)
(* exchanged for another one.                                               *)
(****************************************************************************)
EXTENDS SessionRouter

CONSTANTS c1, c2, s1, s2
TwoClients  == {c1, c2}
TwoSessions == {s1, s2}

M(c, kind, s) == [client |-> c, kind |-> kind, session |-> s]
AllScripts ==
  { <<M(c1, "attach", s1), M(c2, "attach", s1), M(c1, "remove", s1)>>,
    <<M(c1, "attach", s1), M(c1, "attach", s2), M(c2, "attach", s2)>>,
    <<M(c1, "attach", s1), M(c1, "attach", s2), M(c2, "remove", s1)>>,
    <<M(c1, "attach", s1), M(c1, "detach", s1), M(c2, "remove", s1)>> }
OneAttach == { <<M(c1, "attach", s1)>> }
=============================================================================
