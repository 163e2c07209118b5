---------------------------- MODULE MCProjectLedger ----------------------------
(***************************************************************************)
(* Instances of ProjectLedger for TLC.                                     *)
(***************************************************************************)
EXTENDS ProjectLedger, TLC

\* Payments and requests are interchangeable.
LedgerSymmetry == Permutations(Payments) \cup Permutations(Requests)
================================================================================
