--------------------------- MODULE MCPaymentSystem ---------------------------
(* Small instances of PaymentSystem for TLC.                               *)
EXTENDS PaymentSystem, TLC

(* Workers are interchangeable.  Not used with liveness properties.        *)
Symmetry == Permutations(Workers)
=============================================================================
