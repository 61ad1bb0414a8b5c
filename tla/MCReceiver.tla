----------------------------- MODULE MCReceiver -----------------------------
EXTENDS Receiver

CONSTANTS m1, r1, r2
=============================================================================
