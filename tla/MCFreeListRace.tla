--------------------------- MODULE MCFreeListRace ---------------------------
EXTENDS FreeListRace
=============================================================================
