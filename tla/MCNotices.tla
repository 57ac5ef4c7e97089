------------------------------ MODULE MCNotices ------------------------------
(* A small instance of Notices, and with it of Payment under fairness.       *)
EXTENDS Notices
=============================================================================
