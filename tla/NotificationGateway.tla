------------------------ MODULE NotificationGateway ------------------------
(***************************************************************************)
(* The way of a notification to the screen: the socket gateway of          *)
(* api-gateway, the sockets that tabs of the shell open and close, and the *)
(* list each tab shows.                                                    *)
(*                                                                         *)
(* The gateway keeps one socket per user, the last that has connected, and *)
(* forgets the user when any of his sockets closes.  pushToClient does not *)
(* ack: a new gateway process gets all events again.                       *)
(***************************************************************************)
EXTENDS Naturals, FiniteSets

CONSTANTS
  Notification, Addressee,  \* ids of notifications, and whose they are
  User, Tab, Owner,         \* tabs of the shell, and the user logged in there
  None,
  MaxRestarts               \* bound: new gateway processes

ASSUME GatewayAssumption ==
  /\ Owner \in [Tab -> User] /\ Addressee \in [Notification -> User]
  /\ None \notin Tab /\ MaxRestarts \in Nat

VARIABLES
  rows,       \* notification-service: notifications
  waiting,    \* notification.created events in the queue of the gateway
  unacked,    \* notification.created events delivered to the gateway
  clients,    \* its Map from users to sockets
  open,       \* tabs whose socket is connected
  closing,    \* tabs whose former socket the gateway has not seen close yet
  stale,      \* tabs whose query ['notifications'] is invalidated
  shown,      \* the list each tab has fetched
  crossed,    \* history: tabs that saw another socket of the user come or go
  restarts

events == <<rows, waiting, unacked>>
tabs == <<open, closing, stale, shown>>
gatewayVars == <<events, clients, tabs, crossed, restarts>>

GatewayTypeOK ==
  /\ rows \subseteq Notification /\ waiting \subseteq Notification
  /\ unacked \subseteq Notification
  /\ clients \in [User -> Tab \cup {None}]
  /\ open \subseteq Tab /\ closing \subseteq Tab
  /\ stale \subseteq Tab /\ crossed \subseteq Tab
  /\ shown \in [Tab -> SUBSET Notification]
  /\ restarts \in 0..MaxRestarts

GatewayInit ==
  /\ rows = {} /\ waiting = {} /\ restarts = 0
  /\ unacked = {}
  /\ clients = [u \in User |-> None]
  /\ open = {} /\ closing = {} /\ stale = {} /\ crossed = {}
  /\ shown = [t \in Tab |-> {}]

\* notification-service: persist, which makes each id once, and deleteByHousehold.
Persist(n) ==
  /\ n \notin rows \cup waiting \cup unacked
  /\ rows' = rows \cup {n}
  /\ waiting' = waiting \cup {n}
  /\ UNCHANGED <<unacked, clients, tabs, crossed, restarts>>

Erase ==
  /\ rows' = {}
  /\ UNCHANGED <<waiting, unacked, clients, tabs, crossed, restarts>>

ListForUser(u) == {n \in rows : Addressee[n] = u}
Siblings(t) == {s \in open \ {t} : Owner[s] = Owner[t]}

\* The effect of AuthContext on a new access token; a socket reconnects alike.
HandleConnection(t) ==
  /\ t \notin open
  /\ open' = open \cup {t}
  /\ clients' = [clients EXCEPT ![Owner[t]] = t]
  /\ crossed' = (crossed \ {t}) \cup Siblings(t)
  /\ UNCHANGED <<events, closing, stale, shown, restarts>>

\* Mutant: the user stays registered.
ForgetNothing(t) ==
  /\ t \in open
  /\ open' = open \ {t}
  /\ crossed' = crossed \cup Siblings(t)
  /\ UNCHANGED <<events, clients, closing, stale, shown, restarts>>

\* logout, a closed tab, or the network.
HandleDisconnect(t) ==
  /\ t \in open
  /\ open' = open \ {t}
  /\ clients' = [clients EXCEPT ![Owner[t]] = None]
  /\ crossed' = crossed \cup Siblings(t)
  /\ UNCHANGED <<events, closing, stale, shown, restarts>>

\* A refreshed access token: the effect closes the socket and opens another,
\* which can be connected before the gateway sees the former one close.
RenewSocket(t) ==
  /\ t \in open \ closing
  /\ closing' = closing \cup {t}
  /\ clients' = [clients EXCEPT ![Owner[t]] = t]
  /\ crossed' = (crossed \ {t}) \cup Siblings(t)
  /\ UNCHANGED <<events, open, stale, shown, restarts>>

FormerSocketCloses(t) ==
  /\ t \in closing
  /\ closing' = closing \ {t}
  /\ clients' = [clients EXCEPT ![Owner[t]] = None]
  /\ crossed' = crossed \cup Siblings(t) \cup ({t} \cap open)
  /\ UNCHANGED <<events, open, stale, shown, restarts>>

\* Mutant: the tab leaves its list as it is.
PushIgnored(n) ==
  /\ n \in waiting
  /\ waiting' = waiting \ {n}
  /\ unacked' = unacked \cup {n}
  /\ UNCHANGED <<rows, clients, tabs, crossed, restarts>>

\* pushToClient; the tab that gets it invalidates its list.
PushToClient(n) ==
  /\ n \in waiting
  /\ waiting' = waiting \ {n}
  /\ unacked' = unacked \cup {n}
  /\ stale' = stale \cup ({clients[Addressee[n]]} \ {None})
  /\ UNCHANGED <<rows, clients, open, closing, shown, crossed, restarts>>

\* useQuery fetches a list that was invalidated, and on mounting the page.
FetchList(t) ==
  /\ t \in stale
  /\ shown' = [shown EXCEPT ![t] = ListForUser(Owner[t])]
  /\ stale' = stale \ {t}
  /\ UNCHANGED <<events, clients, open, closing, crossed, restarts>>

\* A new process: the broker delivers again, all sockets are closed.
RestartGateway ==
  /\ restarts < MaxRestarts
  /\ restarts' = restarts + 1
  /\ waiting' = waiting \cup unacked
  /\ unacked' = {}
  /\ clients' = [u \in User |-> None]
  /\ open' = {} /\ closing' = {} /\ crossed' = {}
  /\ UNCHANGED <<rows, stale, shown>>

GatewayNext ==
  \/ \E n \in Notification : Persist(n)
  \/ Erase
  \/ \E t \in Tab : HandleConnection(t) \/ HandleDisconnect(t)
       \/ RenewSocket(t) \/ FormerSocketCloses(t) \/ FetchList(t)
  \/ \E n \in waiting : PushToClient(n)
  \/ RestartGateway

GatewaySpec == GatewayInit /\ [][GatewayNext]_gatewayVars

\* The gateway's consumer and the tabs are not stopped for good.
GatewayFairSpec ==
  /\ GatewaySpec
  /\ \A t \in Tab : WF_gatewayVars(FetchList(t))
  /\ \A n \in Notification : WF_gatewayVars(PushToClient(n))

-----------------------------------------------------------------------------
(* Properties *)

\* Whom the gateway pushes to is connected, and the tab of a user is the one it
\* pushes to, unless another tab of that user has come or gone meanwhile, or the
\* tab's own former socket.
RegisteredAndOpen ==
  /\ \A u \in User : clients[u] # None => clients[u] \in open /\ Owner[clients[u]] = u
  /\ \A t \in open \ crossed : clients[Owner[t]] = t

\* A notification whose event is on its way is shown in the tab its user is
\* registered with, unless he disconnects or it is erased.
PushReachesTab ==
  \A n \in Notification, t \in Tab :
    n \in waiting /\ clients[Addressee[n]] = t
      ~> n \in shown[t] \/ clients[Addressee[n]] # t \/ n \notin rows
=============================================================================
