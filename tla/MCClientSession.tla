---------------------------- MODULE MCClientSession ---------------------------
EXTENDS ClientSession, TLC

CONSTANTS u1, u2, f1, f2

MCUsers == {u1, u2}
MCFibers == {f1, f2}
=============================================================================
