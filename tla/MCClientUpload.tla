---------------------------- MODULE MCClientUpload ----------------------------
EXTENDS ClientUpload, TLC

CONSTANTS p1, p2, a1, a2, s1, b1, b2

MCPictures == {p1, p2}
MCHoldings == {b1}
MCTradeSlips == {b2}
MCAssets == {a1, a2}
MCSymbols == {s1}
MCSymbolOf == [a \in MCAssets |-> s1]
=============================================================================
