---------------------------- MODULE MCWebSession ----------------------------
(***************************************************************************)
(* Small instances of WebSession: a laptop and a phone of one user, both   *)
(* signed in, and two bundles: the shell on the laptop and another, which  *)
(* is on the phone or is a micro frontend in the laptop's window.          *)
(***************************************************************************)
EXTENDS WebSession, TLC

CONSTANTS laptop, phone, shell, other, q1, q2, q3

MCBrowser == {laptop, phone}
MCBundle == {shell, other}
MCCall == MCBrowser \cup MCBundle
HomeApart == [b \in MCBundle |-> IF b = shell THEN laptop ELSE phone]
HomeShared == [b \in MCBundle |-> laptop]
MCReq == {q1, q2, q3}
MCOwner == [q \in MCReq |-> IF q = q3 THEN other ELSE shell]
MCLogout == {q2}
MCDeleting == {phone}
=============================================================================
