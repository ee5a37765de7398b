----------------------------- MODULE LossyLink -----------------------------
(***************************************************************************)
(* What the links between two nodes promise: an announced event is, on     *)
(* every link, delivered at most once or lost, never both; nothing is      *)
(* delivered that was not announced; the order is not promised; and every  *)
(* announced event is settled in the end.  PeerLink implements this; the   *)
(* clipboard model ClipNode builds on it.                                  *)
(***************************************************************************)
EXTENDS FiniteSets

CONSTANTS Links, Events

VARIABLES transit,    \* <<link, event>> pairs announced and not settled
          delivered,  \* the pairs the receiving node handled
          lost        \* the pairs it never will

vars == <<transit, delivered, lost>>

Init == transit = {} /\ delivered = {} /\ lost = {}

\* Announce e on every link; the links of full are lost at once.
Announce(e, full) ==
  /\ (Links \X {e}) \cap (transit \cup delivered \cup lost) = {}
  /\ transit' = transit \cup ((Links \ full) \X {e})
  /\ lost' = lost \cup (full \X {e})
  /\ UNCHANGED delivered

Deliver(p) ==
  /\ p \in transit
  /\ transit' = transit \ {p}
  /\ delivered' = delivered \cup {p}
  /\ UNCHANGED lost

Lose(pairs) ==
  /\ pairs # {} /\ pairs \subseteq transit
  /\ transit' = transit \ pairs
  /\ lost' = lost \cup pairs
  /\ UNCHANGED delivered

Next == \/ \E e \in Events, full \in SUBSET Links : Announce(e, full)
        \/ \E p \in Links \X Events : Deliver(p)
        \/ \E pairs \in SUBSET transit : Lose(pairs)

Settle(p) == p \in transit /\ Next /\ p \notin transit'

Fairness == \A p \in Links \X Events : WF_vars(Settle(p))

Safety == Init /\ [][Next]_vars

Spec == Safety /\ Fairness
=============================================================================
