------------------------ MODULE MCRouterLinkState ------------------------
(* Two threads work for one side of a link, and one for the other.         *)
EXTENDS RouterLinkState

CONSTANTS a1, a2, b1

MCThreads == {a1, a2, b1}

MCSideOf == [t \in MCThreads |-> IF t = b1 THEN "B" ELSE "A"]
============================================================================
