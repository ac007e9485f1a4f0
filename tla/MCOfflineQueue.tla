---------------------------- MODULE MCOfflineQueue ----------------------------
(* OfflineQueue with an expense the server takes, one it refuses, and two pages. *)
EXTENDS OfflineQueue

CONSTANTS i1, i2, h1, h2, none
=============================================================================
