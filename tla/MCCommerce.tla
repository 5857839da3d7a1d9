----------------------------- MODULE MCCommerce -----------------------------
(* A small instance of Commerce for TLC.                                   *)
EXTENDS Commerce, TLC

(* Workers and token ids are interchangeable.                              *)
Symmetry == Permutations(Workers) \cup Permutations(Tokens)

Idle(w) == front[w] = NoFront

(* Buyers pay when no handler runs.  No handler reads what a payment       *)
(* changes, a payment reads tokens alone, and a handler can be lost        *)
(* anywhere: what is ordered beside handlers can be ordered after them.    *)
PaidAtRest == burnt # {} => \A w \in Workers: Idle(w)

(* An empty cart is checked with no other handler beside it.               *)
EmptyCartsAlone ==
  \A w, v \in Workers:
    w # v /\ job[w] # NoCall /\ job[w].total = 0 => Idle(v)
=============================================================================
