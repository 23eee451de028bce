-------------------------- MODULE MCHealthDelivery --------------------------
EXTENDS HealthDelivery
CONSTANTS w1, k1, k2, timer, operator
=============================================================================
