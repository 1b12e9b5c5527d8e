----------------------------- MODULE MCDriveAudit -----------------------------
(* AStar with the driver of DriveAudit on the towns of Towns.                *)
EXTENDS AStarInvariants, RouteReply, Towns
===============================================================================
