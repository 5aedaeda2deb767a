----------------------------- MODULE MCFwUpdate -----------------------------
EXTENDS FwUpdate

Switching == {2, 4}
Smallest  == {1}
=============================================================================
