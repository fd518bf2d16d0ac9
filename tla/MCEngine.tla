------------------------------ MODULE MCEngine ------------------------------
(***************************************************************************)
(* Engine with constants for TLC.                                          *)
(***************************************************************************)
EXTENDS Engine

\* Values with and without bytes: a record cut off behind its header can swallow
\* the next one exactly.
Lengths == <<2, 0>>
=============================================================================
