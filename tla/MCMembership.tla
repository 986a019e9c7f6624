---------------------------- MODULE MCMembership ----------------------------
EXTENDS Membership, TLC

CONSTANTS u1, u2, u3

\* everybody but the users a configuration names
GuestSymmetry == Permutations({u2, u3})
=============================================================================
