----------------------------- MODULE MCSaleBooks -----------------------------
(* SaleBooks with two requests, one scan and one failure. *)
EXTENDS SaleBooks

CONSTANTS b1, r1, r2, scan
=============================================================================
