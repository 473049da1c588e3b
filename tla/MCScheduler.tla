---------------------------- MODULE MCScheduler ----------------------------
EXTENDS ThreadScheduler
=============================================================================
