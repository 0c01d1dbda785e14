---------------------------- MODULE MCClientReport ----------------------------
EXTENDS ClientReport, MCFigures

CONSTANTS old, new

MCSnapshots == {old}

(* Figures are drawn between the steps of the screens: a behaviour may begin  *)
(* with a look at one.                                                        *)
MCInit == Init /\ shown \in {Nothing} \cup FigureData
Look == shown # Nothing /\ shown' = Nothing /\ UNCHANGED vars
MCNext == (shown = Nothing /\ Next /\ UNCHANGED shown) \/ Look
MCSpec == MCInit /\ [][MCNext]_<<vars, shown>> /\ Fairness
=============================================================================
