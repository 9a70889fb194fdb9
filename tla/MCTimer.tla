------------------------------ MODULE MCTimer -------------------------------
(* Timer for TLC: the stopped period and one that runs.                    *)
EXTENDS Timer

MCPeriods == {0, 2}
MCAppOps == Ops \ {"release_self"}
=============================================================================
