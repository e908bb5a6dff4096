------------------------------ MODULE MCServer ------------------------------
(* Instances of Server for TLC.                                              *)
EXTENDS Server

CONSTANTS w1, w2, w3, w4

\* One client of the record API, one that also reloads, and two of the handlers on
\* the loop, of which one also reloads.
MCFour == {w1, w2, w3, w4}
MCSends == [w \in MCFour |->
  CASE w = w1 -> {"record"}
    [] w = w2 -> {"record", "reload"}
    [] w = w3 -> {"push", "page", "import"}
    [] w = w4 -> {"push", "import", "reload"}]

MCThree == {w1, w2, w3}
MCSendsThree == [w \in MCThree |->
  CASE w = w1 -> {"record"} [] w = w2 -> {"reload"} [] w = w3 -> {"push"}]
=============================================================================
