------------------------- MODULE MCGarbageCollection -------------------------
EXTENDS GarbageCollection

CONSTANTS c1, i1

MCContainers == { c1 }
MCImages == { i1 }
MCImageOf == [c \in Containers |-> i1]
=============================================================================
