----------------------------- MODULE MCFileSys -----------------------------
EXTENDS FileSys, MCCalls
=============================================================================
