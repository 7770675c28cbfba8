----------------------------- MODULE MCAccounts -----------------------------
EXTENDS Accounts
CONSTANTS u1, u2, e1, n1, n2, k1, w1, w2
=============================================================================
