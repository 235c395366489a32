----------------------- MODULE MCNotificationService -----------------------
(***************************************************************************)
(* Small instances of NotificationService: two members, whose events are   *)
(* about one of them.                                                      *)
(***************************************************************************)
EXTENDS NotificationService, TLC

CONSTANTS anna, ben

MCMessage == [kind: Kind, user: {anna}]
MCSymmetry == Permutations(Handler)
=============================================================================
