--------------------------- MODULE MCContainerLogs ---------------------------
EXTENDS ContainerLogs

CONSTANTS start1, start2, stop1, s1

MCStarters == { start1, start2 }
MCStoppers == { stop1 }
MCSessions == { s1 }
=============================================================================
