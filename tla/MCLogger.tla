------------------------------ MODULE MCLogger ------------------------------
(* Instances of Logger for TLC.                                             *)
EXTENDS Logger

CONSTANTS e1, e2

\* An event that every level lets through, and one that the higher level does not.
TwoLevels == e1 :> 2 @@ e2 :> 1
OneEvent == e1 :> 2
=============================================================================
