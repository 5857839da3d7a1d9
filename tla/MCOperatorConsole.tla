-------------------------- MODULE MCOperatorConsole --------------------------
(* Small instances of OperatorConsole for TLC.                             *)
EXTENDS OperatorConsole, TLC
=============================================================================
