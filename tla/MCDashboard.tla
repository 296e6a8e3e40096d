---------------------------- MODULE MCDashboard ----------------------------
(***************************************************************************)
(* A page with two requests to use, the one the other left among them,     *)
(* over a pool of one connection.                                          *)
(***************************************************************************)
EXTENDS Dashboard

CONSTANTS p1, p2, c1

MCReads == {p1, p2}
MCWrites == {Form, Runner}
MCConns == {c1}
=============================================================================
