--------------------------- MODULE MCClientPortfolio ---------------------------
EXTENDS ClientPortfolio, TLC

CONSTANTS c1, r1, x1, s1

MCCommands == {c1}
MCRefreshes == {r1}
MCExecutions == {x1}
MCScans == {s1}
=============================================================================
