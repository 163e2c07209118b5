------------------------------ MODULE MCDashboard ------------------------------
(***************************************************************************)
(* Instance of Dashboard for TLC: the end of a year, the end of a leap     *)
(* February, and the same month one year later.                            *)
(***************************************************************************)
EXTENDS Dashboard, TLC

CONSTANTS x1, x2

MCPayments == {x1, x2}
MCDays == {Date(2023, 12, 31), Date(2024, 1, 1),
           Date(2024, 2, 29), Date(2024, 12, 31)}

PaymentSymmetry == Permutations(MCPayments)
================================================================================
