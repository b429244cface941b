------------------------------ MODULE MCVMPool ------------------------------
EXTENDS VMPool
=============================================================================
