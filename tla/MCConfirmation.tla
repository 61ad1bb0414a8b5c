--------------------------- MODULE MCConfirmation ---------------------------
(* Small instance of Confirmation: two ids minted under one context.       *)
EXTENDS Confirmation

CONSTANTS c1, c2, c3, u1, u2
=============================================================================
