------------------------- MODULE MCContainerManager -------------------------
EXTENDS ContainerManager

CONSTANTS c1, c2, web

MCOne == {c1}
MCTwo == {c1, c2}
MCNames == {web}
MCSameName == [c \in Containers |-> web]
=============================================================================
