------------------------------ MODULE MCGateway ------------------------------
EXTENDS Gateway
CONSTANTS u1, k1, k2
=============================================================================
