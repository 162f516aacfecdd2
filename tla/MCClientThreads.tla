-------------------------- MODULE MCClientThreads --------------------------
EXTENDS ClientThreads
=============================================================================
