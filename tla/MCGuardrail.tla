----------------------------- MODULE MCGuardrail -----------------------------
(* Small instances of Guardrail for TLC.  No symmetry: a liveness property *)
(* is checked together with the others.                                    *)
EXTENDS Guardrail, TLC
=============================================================================
