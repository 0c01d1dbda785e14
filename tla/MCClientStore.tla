----------------------------- MODULE MCClientStore ----------------------------
EXTENDS ClientStore, TLC

CONSTANTS monthly, yearly

MCProducts == {monthly, yearly}
=============================================================================
