---------------------------- MODULE MCVMManager ----------------------------
EXTENDS VMManager
=============================================================================
