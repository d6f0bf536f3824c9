----------------------------- MODULE MCBilling -----------------------------
(* Instance of Billing for TLC: one order of each kind.                    *)
EXTENDS Billing, TLC
CONSTANTS p1, p2, c1, c2
=============================================================================
