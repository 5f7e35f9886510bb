--------------------------- MODULE MCRetryPacing ---------------------------
(* A small instance of RetryPacing for TLC.                                *)
EXTENDS RetryPacing
=============================================================================
