---------------------------- MODULE MCAuditTrail ----------------------------
(***************************************************************************)
(* Small instances of AuditTrail: one household, one user who leaves.      *)
(***************************************************************************)
EXTENDS AuditTrail, TLC

CONSTANTS anna, home

MCMessage == [kind: Kind, user: {anna}, household: {home}]
=============================================================================
