------------------------------ MODULE MCBoard ------------------------------
(* Instances of Board: two tickets, so that the operator can move on while *)
(* replies are under way, and few changes and commands.                    *)
EXTENDS Board
=============================================================================
