------------------------- MODULE MCPipedAsyncCommand -------------------------
(* Instances of PipedAsyncCommand for TLC. *)
EXTENDS PipedAsyncCommand

CONSTANTS c1, c2

\* An exception may send one of the handlers into a second round.
Twice == [c \in Conn |-> IF c = c1 THEN 2 ELSE 1]
==============================================================================
