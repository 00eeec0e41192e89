---------------------------- MODULE MCMembership ----------------------------
\* Membership for TLC: the constants come from the configurations.
EXTENDS Membership
=============================================================================
