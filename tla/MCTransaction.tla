--------------------------- MODULE MCTransaction ---------------------------
(* A small instance of Transaction for TLC; MCTransaction.cfg gives the       *)
(* constants their values.                                                    *)
EXTENDS Transaction, TLC
=============================================================================
