--------------------------- MODULE MCConstruction ---------------------------
EXTENDS Construction

MCNode == 1..2
MCNode3 == 1..3
=============================================================================
