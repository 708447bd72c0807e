------------------------------ MODULE MCLaneRun ------------------------------
(****************************************************************************)
(* Values for the constants of LaneRun that a configuration file cannot     *)
(* write: how hosts drive.                                                  *)
(****************************************************************************)
EXTENDS LaneInvariants

\* drive(), continuation of a prompt, and resume().
AllPolicies    == PolicyType
ResumePolicy   == {[permit |-> TRUE, waits |-> TRUE]}
MixedPolicies  == {[permit |-> TRUE, waits |-> TRUE], [permit |-> FALSE, waits |-> FALSE]}
=============================================================================
