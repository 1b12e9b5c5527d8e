------------------------------- MODULE MCAStar -------------------------------
(* AStar on the towns of Towns.                                             *)
EXTENDS AStar, Towns
=============================================================================
