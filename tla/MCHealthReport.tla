--------------------------- MODULE MCHealthReport ---------------------------
EXTENDS HealthReport
CONSTANTS c1, c2, timer, operator
=============================================================================
