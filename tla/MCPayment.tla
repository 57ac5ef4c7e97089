------------------------------ MODULE MCPayment ------------------------------
(* Small instances of Payment.  Intents are not interchangeable: the step that *)
(* creates one takes any fresh one, by CHOOSE.                                 *)
EXTENDS Payment, TLC

Interchangeable == Permutations(Requests)
=============================================================================
