------------------------ MODULE NotificationService ------------------------
(***************************************************************************)
(* notification-service: in-app notifications and emails for the events of *)
(* its queue.  One household.  There is no guard against redelivery.       *)
(*                                                                         *)
(* A budget alert fans out: Promise.all runs one chain of awaits per       *)
(* member, and rejects as soon as one chain does, while the others run on. *)
(* The clients of household-service and auth-service swallow errors (no    *)
(* members, no preferences), and so does the mailer.                       *)
(***************************************************************************)
EXTENDS RabbitQueue, FiniteSets

CONSTANTS User, None

Kind == {"budget", "memberJoined", "mailOnly", "householdDeleted"}

ASSUME NotificationAssumption ==
  Message \subseteq [kind: Kind, user: User] /\ None \notin User

VARIABLES
  rows,       \* notifications
  reading,    \* the notification that a PATCH has read and will save
  pc,         \* where each handler is
  chain,      \* and each member's part of its Promise.all
  made,       \* history: notifications made of an event for a user
  mailed,     \* history: emails about an event to a user
  excused,    \* history: who was not to be told of an event, or not findable
  settled,    \* history: events that were settled when the household was erased
  restored    \* history: rows that were inserted again by marking them as read

ownVars == <<rows, reading, pc, chain, made, mailed,
             excused, settled, restored>>
vars == <<queueVars, ownVars>>

\* event, user and copy stand for the id of a row.
Notification == [event: MessageId, user: User, copy: Nat]
Steps == {"prefs", "persist", "mail", "over"}
NoChain == [u \in User |-> "over"]

TypeOK ==
  /\ QueueTypeOK
  /\ rows \subseteq Notification
  /\ reading \in Notification \cup {None}
  /\ pc \in [Handler -> {"free", "members", "erase", "fan", "rejected"}]
  /\ chain \in [Handler -> [User -> Steps]]
  /\ made \in [MessageId -> [User -> Nat]]
  /\ mailed \in [MessageId -> [User -> Nat]]
  /\ excused \subseteq MessageId \X User
  /\ settled \subseteq MessageId
  /\ restored \subseteq Notification

Init ==
  /\ QueueInit
  /\ rows = {} /\ reading = None
  /\ pc = [h \in Handler |-> "free"]
  /\ chain = [h \in Handler |-> NoChain]
  /\ made = [i \in MessageId |-> [u \in User |-> 0]]
  /\ mailed = made
  /\ excused = {} /\ settled = {} /\ restored = {}

-----------------------------------------------------------------------------
(* The other services *)

Deleted == \E i \in DOMAIN log : log[i].kind = "householdDeleted"

PublishEvent ==
  /\ ~Deleted
  /\ \E m \in Message : Publish(m)
  /\ UNCHANGED ownVars

-----------------------------------------------------------------------------
(* NotificationConsumer *)

event(h) == log[msg[h]]
Goto(h, step) == pc' = [pc EXCEPT ![h] = step]
Advance(h, u, step) == chain' = [chain EXCEPT ![h][u] = step]
tables == <<rows, reading>>
history == <<made, mailed, excused, settled, restored>>

FirstStep == [budget |-> "over", memberJoined |-> "persist", mailOnly |-> "mail",
              householdDeleted |-> "over"]

StartHandler(h) ==
  \E i \in MessageId :
    /\ Deliver(h, i)
    /\ Goto(h, CASE log[i].kind = "budget"           -> "members"
                 [] log[i].kind = "householdDeleted" -> "erase"
                 [] OTHER                            -> "fan")
    /\ Advance(h, log[i].user, FirstStep[log[i].kind])
    /\ UNCHANGED <<tables, history>>

\* getHouseholdMembers: the members the household has now, or none when the
\* request fails.
GetMembers(h) ==
  /\ pc[h] = "members"
  /\ \E M \in SUBSET User :
       /\ chain' = [chain EXCEPT ![h] = [u \in User |-> IF u \in M THEN "prefs" ELSE "over"]]
       /\ excused' = excused \cup ({msg[h]} \X (User \ M))
  /\ Goto(h, "fan")
  /\ UNCHANGED <<queueVars, tables, made, mailed, settled, restored>>

\* Mutant: the email is sent to everybody, whatever his preferences.
PreferencesIgnored(h, u) ==
  /\ chain[h][u] = "prefs"
  /\ Advance(h, u, "mail")
  /\ UNCHANGED <<queueVars, tables, pc, made, mailed, excused, settled, restored>>

\* getNotificationPreferences: what the user wants now, or null when the request
\* fails, which is as if he wants no alerts.
GetPreferences(h, u) ==
  /\ chain[h][u] = "prefs"
  /\ \/ /\ Advance(h, u, "persist")
        /\ UNCHANGED excused
     \/ /\ Advance(h, u, "over")
        /\ excused' = excused \cup {<<msg[h], u>>}
  /\ UNCHANGED <<queueVars, tables, pc, made, mailed, settled, restored>>

NewRow(h, u) == [event |-> msg[h], user |-> u, copy |-> made[msg[h]][u]]

\* persist: save, and emit notification.created (see NotificationGateway).
Persist(h, u) ==
  /\ chain[h][u] = "persist"
  /\ rows' = rows \cup {NewRow(h, u)}
  /\ made' = [made EXCEPT ![msg[h]][u] = @ + 1]
  /\ Advance(h, u, IF event(h).kind = "budget" THEN "mail" ELSE "over")
  /\ UNCHANGED <<queueVars, reading, pc, mailed, excused, settled, restored>>

\* send: whether or not the SMTP server takes the email, the handler goes on.
SendMail(h, u) ==
  /\ chain[h][u] = "mail"
  /\ \/ mailed' = [mailed EXCEPT ![msg[h]][u] = @ + 1]
     \/ UNCHANGED mailed
  /\ Advance(h, u, "over")
  /\ UNCHANGED <<queueVars, tables, pc, made, excused, settled, restored>>

\* An insert fails: Promise.all rejects, the other chains run on.
PersistFails(h, u) ==
  /\ chain[h][u] = "persist"
  /\ Fault("throw")
  /\ Goto(h, "rejected")
  /\ Advance(h, u, "over")
  /\ UNCHANGED <<log, deliv, msg, live, tables, history>>

\* Mutant: a single row is found and removed.
DeleteOne(h) ==
  /\ pc[h] = "erase"
  /\ \/ \E n \in rows : rows' = rows \ {n}
     \/ rows = {} /\ rows' = {}
  /\ settled' = {i \in MessageId : deliv[i] = "acked" /\ \A g \in Handler : msg[g] # i}
  /\ Goto(h, "fan")
  /\ UNCHANGED <<queueVars, reading, chain, made, mailed, excused, restored>>

\* deleteByHousehold
DeleteByHousehold(h) ==
  /\ pc[h] = "erase"
  /\ rows' = {}
  /\ settled' = {i \in MessageId : deliv[i] = "acked" /\ \A g \in Handler : msg[g] # i}
  /\ Goto(h, "fan")
  /\ UNCHANGED <<queueVars, reading, chain, made, mailed, excused, restored>>

FinishHandler(h) ==
  /\ pc[h] \in {"fan", "rejected"}
  /\ chain[h] = NoChain
  /\ \/ pc[h] = "fan" /\ Ack(h)
     \/ pc[h] = "rejected" /\ Throw(h) /\ UNCHANGED faults
  /\ Goto(h, "free")
  /\ UNCHANGED <<tables, chain, history>>

\* PATCH /notifications/:id/read, the query and the save, which inserts a row
\* again that was deleted in between.
FindNotification ==
  /\ reading = None
  /\ reading' \in rows
  /\ UNCHANGED <<queueVars, rows, pc, chain, history>>

SaveRead ==
  /\ reading # None
  /\ rows' = rows \cup {reading}
  /\ restored' = restored \cup ({reading} \ rows)
  /\ reading' = None
  /\ UNCHANGED <<queueVars, pc, chain, made, mailed, excused, settled>>

RestartService ==
  /\ Crash
  /\ pc' = [h \in Handler |-> "free"]
  /\ chain' = [h \in Handler |-> NoChain]
  /\ reading' = None
  /\ UNCHANGED <<rows, history>>

LoseChannel == DropChannel /\ UNCHANGED ownVars

Handle(h) ==
  \/ StartHandler(h) \/ GetMembers(h) \/ DeleteByHousehold(h) \/ FinishHandler(h)
  \/ \E u \in User :
       GetPreferences(h, u) \/ Persist(h, u) \/ SendMail(h, u) \/ PersistFails(h, u)

Next ==
  \/ PublishEvent
  \/ \E h \in Handler : Handle(h)
  \/ FindNotification \/ SaveRead
  \/ RestartService \/ LoseChannel

Spec == Init /\ [][Next]_vars

-----------------------------------------------------------------------------
(* Properties *)

\* An event that is settled has made a notification for everybody it concerns,
\* but for those who were no members, had no alerts on or could not be asked
\* about, although one member's failure ends the handler for all.  Without a guard
\* it is told once per delivery: once, and once more for each crash, lost channel
\* or failing handler at most; and nobody gets an email about a budget whose
\* notification he does not get.
ToldOncePerDelivery ==
  \A i \in DOMAIN log, u \in User :
    /\ deliv[i] = "acked" =>
         /\ log[i].kind = "budget" => made[i][u] > 0 \/ <<i, u>> \in excused
         /\ log[i].kind = "memberJoined" /\ log[i].user = u => made[i][u] > 0
    /\ made[i][u] <= 1 + faults
    /\ log[i].kind = "budget" => mailed[i][u] <= made[i][u]

\* Erasing the household takes every notification of the events settled before,
\* for good, but the one that was just being marked as read (docs/edge-cases.md:991).
ErasedForGood == \A n \in rows : n.event \in settled => n \in restored
=============================================================================
