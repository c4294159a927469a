----------------------------- MODULE MCAdminClients -----------------------------
(* An instance of AdminClients for TLC.                                      *)
EXTENDS AdminClients

CONSTANTS p1, p2
=============================================================================
