------------------------------ MODULE MCRouteStatus ------------------------------
(* Instance of RouteStatus for TLC.                                             *)
EXTENDS RouteStatus

CONSTANTS r1, r2

MCIds == <<r1, r2>>
================================================================================
