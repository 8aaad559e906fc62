---------------------------- MODULE MCToolCalls ----------------------------
(* The policies TLC gives to ToolCalls: p1 is asked before p2.             *)
EXTENDS ToolCalls

CONSTANTS p1, p2

Priorities == [p \in {p1, p2} |-> IF p = p1 THEN 0 ELSE 1]
=============================================================================
