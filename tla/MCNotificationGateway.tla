----------------------- MODULE MCNotificationGateway -----------------------
(***************************************************************************)
(* Small instances of NotificationGateway: anna has two tabs, ben none.    *)
(***************************************************************************)
EXTENDS NotificationGateway

CONSTANTS anna, ben, n1, n2

MCOwner == [t \in Tab |-> anna]
MCAddressee == [n \in Notification |-> IF n = n1 THEN anna ELSE ben]
=============================================================================
