---------------------------- MODULE MCTestServer ----------------------------
(***************************************************************************)
(* Three requests to two tenants that exist, one that does not, or none.   *)
(***************************************************************************)
EXTENDS TestServer

CONSTANTS p1, p2, p3, a, b, c
=============================================================================
