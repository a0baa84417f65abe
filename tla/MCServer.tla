------------------------------ MODULE MCServer ------------------------------
(* A small instance of Server: two listeners and two connections.           *)
EXTENDS Server

CONSTANTS v4, v6, c1, c2
=============================================================================
