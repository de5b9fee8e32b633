----------------------------- MODULE MCWarmPool -----------------------------
EXTENDS WarmPool
=============================================================================
