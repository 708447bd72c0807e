---------------------------- MODULE MCEventWatch ----------------------------
(****************************************************************************)
(* Values for the constants of EventWatch.  Watches are symmetric.          *)
(****************************************************************************)
EXTENDS EventWatch

CONSTANTS w1, w2
TwoWatchers == {w1, w2}
OneWatcher  == {w1}
=============================================================================
