------------------------------- MODULE MCHif --------------------------------
(* Hif for TLC: the sets of packet kinds the runs choose from.             *)
EXTENDS Hif

MCWellFormed == DOMAIN Script
MCSparing == (DOMAIN Script \cup Malformed) \ Overreading
MCPairedOps == Ops \ Unpaired
=============================================================================
