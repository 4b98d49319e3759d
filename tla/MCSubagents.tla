---------------------------- MODULE MCSubagents ----------------------------
(* Instances of Subagents: a child of Root with a child of its own.        *)
EXTENDS Subagents

CONSTANTS a, b

Chain == [k \in {a, b} |-> IF k = a THEN Root ELSE a]
=============================================================================
