----------------------------- MODULE MC_MemoryFd ----------------------------
EXTENDS MemoryFd, TLC
=============================================================================
