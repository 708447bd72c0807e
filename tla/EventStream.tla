----------------------------- MODULE EventStream -----------------------------
(****************************************************************************)
(* What a watch promises: a snapshot of the published history and, after    *)
(* it, every later event once and in order.  A watch may be given a newer   *)
(* snapshot at any time and goes on from there.  One whose new snapshot was *)
(* refused, because the harness had closed, is owed nothing more.           *)
(****************************************************************************)
EXTENDS Integers, Sequences

CONSTANT Watchers
VARIABLES
  history,  \* how many events have been published
  closed,   \* no more will be
  base,     \* the events a snapshot included, or why there is none
  heard     \* the events its listener was given after the snapshot

NoSnapshot == -1
Refused    == -2
streamVars == <<history, closed, base, heard>>

View(w) == base[w] + Len(heard[w])

Empty ==
  /\ history = 0 /\ closed = FALSE
  /\ base = [w \in Watchers |-> NoSnapshot]
  /\ heard = [w \in Watchers |-> <<>>]

Publish ==
  /\ ~closed
  /\ history' \in history + 1 .. history + 2
  /\ UNCHANGED <<closed, base, heard>>

Finish ==
  /\ closed' = TRUE
  /\ UNCHANGED <<history, base, heard>>

\* A first snapshot, or a newer one: never one that forgets what was heard.
Rebase(w) ==
  /\ base[w] # Refused
  /\ \E snapshot \in 0 .. history :
       /\ base[w] # NoSnapshot => snapshot >= View(w)
       /\ base' = [base EXCEPT ![w] = snapshot]
  /\ heard' = [heard EXCEPT ![w] = <<>>]
  /\ UNCHANGED <<history, closed>>

Hear(w) ==
  /\ base[w] >= 0 /\ View(w) < history
  /\ heard' = [heard EXCEPT ![w] = Append(@, View(w) + 1)]
  /\ UNCHANGED <<history, closed, base>>

\* No snapshot can be had once the history is complete.
Refuse(w) ==
  /\ closed' = TRUE
  /\ base' = [base EXCEPT ![w] = Refused]
  /\ heard' = [heard EXCEPT ![w] = <<>>]
  /\ UNCHANGED history

Flow == Publish \/ Finish \/ \E w \in Watchers : Rebase(w) \/ Hear(w) \/ Refuse(w)

Stream == Empty /\ [][Flow]_streamVars
=============================================================================
