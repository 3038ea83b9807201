---------------------------- MODULE MCMemberRun ----------------------------
EXTENDS MemberRun

CONSTANTS w1, w2
=============================================================================
