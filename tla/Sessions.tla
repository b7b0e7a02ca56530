------------------------------ MODULE Sessions ------------------------------
(***************************************************************************)
(* Login sessions, realtime sockets and presence of the LanGram server.    *)
(*                                                                         *)
(* Node runs one callback at a time, so a step of this module is what a    *)
(* handler does between two awaits: one statement of the database, or one  *)
(* synchronous stretch over the maps of RealtimeSessionService and         *)
(* PresenceService.  Handlers of different requests and sockets interleave *)
(* at every await.                                                         *)
(*                                                                         *)
(* Socket.IO emits a socket's "disconnect" event inside disconnect(true),  *)
(* so a socket the server closes has its handleDisconnect run, up to the   *)
(* first await, within the same step.                                      *)
(***************************************************************************)
EXTENDS Naturals, FiniteSets

CONSTANTS
  User,         \* accounts
  Session,      \* rows of the session table, one per login request
  Socket,       \* server-side sockets, one per realtime connection
  None,         \* no user, no session, no socket
  MaxRestarts   \* bound: how often the server process is restarted

ASSUME NoneAssumption == None \notin User \cup Session \cup Socket

VARIABLES
  login,            \* where the login request that creates a session stands
  owner,            \* the user a login request is for
  session,          \* the session rows
  older,            \* history: the user's other rows when a login revoked them
  conn,             \* where a socket's handleConnection stands
  token,            \* the session whose access token a socket presents
  dataUser,         \* client.data.user
  open,             \* the sockets whose connection is still open
  socketsByUserId,  \* RealtimeSessionService's map
  onlineUserIds,    \* PresenceService's set
  leaving,          \* the sockets whose handleDisconnect has yet to announce it
  heard,            \* the last presence:update emitted to a user's friends
  staleToken,       \* history: sockets whose token was dead when they connected
  restarts          \* server restarts so far

loginVars    == <<login, owner, session, older>>
socketVars   == <<conn, token, dataUser, open, staleToken>>
registryVars == <<socketsByUserId, onlineUserIds>>
presenceVars == <<leaving, heard>>
vars == <<loginVars, socketVars, registryVars, presenceVars, restarts>>

LoginStep   == {"idle", "revoke", "kick", "create", "done", "failed"}
SessionRow  == {"none", "live", "expired", "revoked"}
ConnStep    == {"idle", "authenticate", "register", "notify", "deliver", "up", "ended"}

-----------------------------------------------------------------------------
(* AuthService: issueSession, logout, resetPassword                        *)

RowsOf(u) == {s \in Session : owner[s] = u /\ session[s] # "none"}

(* Mutant: the login forgets to revoke. *)
RevokeNothing(u) == u \in User /\ UNCHANGED session

(* updateMany of every session of the user with revokedAt null. *)
RevokeSessionsOf(u) ==
  session' = [s \in Session |-> IF s \in RowsOf(u) THEN "revoked" ELSE session[s]]

(* A password, code, guest or registration request is accepted. *)
LoginStart(s, u) ==
  /\ login[s] = "idle"
  /\ login' = [login EXCEPT ![s] = "revoke"]
  /\ owner' = [owner EXCEPT ![s] = u]
  /\ UNCHANGED <<session, older, socketVars, registryVars, presenceVars, restarts>>

LoginRevoke(s) ==
  /\ login[s] = "revoke"
  /\ login' = [login EXCEPT ![s] = "kick"]
  /\ older' = [older EXCEPT ![s] = RowsOf(owner[s])]
  /\ RevokeSessionsOf(owner[s])
  /\ UNCHANGED <<owner, socketVars, registryVars, presenceVars, restarts>>

(* kickUser deletes the entry before it closes the socket: the socket's    *)
(* handleDisconnect finds itself unregistered and does nothing.            *)
KickUser(u) ==
  /\ open' = open \ {socketsByUserId[u]}
  /\ socketsByUserId' = [socketsByUserId EXCEPT ![u] = None]
  /\ UNCHANGED <<onlineUserIds, leaving>>

LoginKick(s) ==
  /\ login[s] = "kick"
  /\ login' = [login EXCEPT ![s] = "create"]
  /\ KickUser(owner[s])
  /\ UNCHANGED <<owner, session, older, conn, token, dataUser, staleToken, heard, restarts>>

(* device.upsert and session.create. *)
LoginCreate(s) ==
  /\ login[s] = "create"
  /\ login' = [login EXCEPT ![s] = "done"]
  /\ session' = [session EXCEPT ![s] = "live"]
  /\ UNCHANGED <<owner, older, socketVars, registryVars, presenceVars, restarts>>

(* The device or the session cannot be written: revoked and kicked already. *)
LoginFail(s) ==
  /\ login[s] = "create"
  /\ login' = [login EXCEPT ![s] = "failed"]
  /\ UNCHANGED <<owner, session, older, socketVars, registryVars, presenceVars, restarts>>

Logout(s) ==
  /\ session[s] = "live"
  /\ session' = [session EXCEPT ![s] = "revoked"]
  /\ UNCHANGED <<login, owner, older, socketVars, registryVars, presenceVars, restarts>>

ResetPassword(u) ==
  /\ \E s \in RowsOf(u) : session[s] # "revoked"
  /\ RevokeSessionsOf(u)
  /\ UNCHANGED <<login, owner, older, socketVars, registryVars, presenceVars, restarts>>

(* expiresAt passes. *)
Expire(s) ==
  /\ session[s] = "live"
  /\ session' = [session EXCEPT ![s] = "expired"]
  /\ UNCHANGED <<login, owner, older, socketVars, registryVars, presenceVars, restarts>>

-----------------------------------------------------------------------------
(* RealtimeGateway, RealtimeSessionService, PresenceService                *)

Registered(k) == dataUser[k] # None /\ socketsByUserId[dataUser[k]] = k

(* The connection of k closes and handleDisconnect runs up to its first    *)
(* await: unregisterSocket answers true only for the registered socket.    *)
CloseSocket(k) ==
  /\ open' = open \ {k}
  /\ IF Registered(k)
     THEN /\ socketsByUserId' = [socketsByUserId EXCEPT ![dataUser[k]] = None]
          /\ onlineUserIds' = onlineUserIds \ {dataUser[k]}
          /\ leaving' = leaving \cup {k}
     ELSE UNCHANGED <<registryVars, leaving>>

(* A client connects with the access token of a session it was given. *)
Connect(k, s) ==
  /\ conn[k] = "idle"
  /\ login[s] = "done"
  /\ conn' = [conn EXCEPT ![k] = "authenticate"]
  /\ token' = [token EXCEPT ![k] = s]
  /\ open' = open \cup {k}
  /\ staleToken' = IF session[s] = "live" THEN staleToken ELSE staleToken \cup {k}
  /\ UNCHANGED <<loginVars, dataUser, registryVars, presenceVars, restarts>>

(* The session read of RealtimeAuthService.authenticate finds a live row. *)
Authenticate(k) ==
  /\ conn[k] = "authenticate"
  /\ session[token[k]] = "live"
  /\ conn' = [conn EXCEPT ![k] = "register"]
  /\ UNCHANGED <<loginVars, token, dataUser, open, staleToken, registryVars, presenceVars, restarts>>

(* No live row, or the access token itself has expired: the catch block. *)
Reject(k) ==
  /\ conn[k] = "authenticate"
  /\ conn' = [conn EXCEPT ![k] = "ended"]
  /\ CloseSocket(k)
  /\ UNCHANGED <<loginVars, token, dataUser, staleToken, heard, restarts>>

(* Mutant: a socket that takes over leaves its predecessor alone. *)
KickedNobody(k, u) == IF u \in User THEN {} ELSE {k}

(* The socket registerSocket kicks: closing it runs its handleDisconnect,  *)
(* which still finds itself in the map and starts announcing the user as   *)
(* gone.  A socket that is closed already has no disconnect event left.    *)
Kicked(k, u) == ({socketsByUserId[u]} \ {None, k}) \cap open

(* After the await of authenticate: data.user, registerSocket, markOnline. *)
Register(k) ==
  LET u == owner[token[k]] IN
  /\ conn[k] = "register"
  /\ conn' = [conn EXCEPT ![k] = "notify"]
  /\ dataUser' = [dataUser EXCEPT ![k] = u]
  /\ open' = open \ Kicked(k, u)
  /\ leaving' = leaving \cup Kicked(k, u)
  /\ socketsByUserId' = [socketsByUserId EXCEPT ![u] = k]
  /\ onlineUserIds' = onlineUserIds \cup {u}
  /\ UNCHANGED <<loginVars, token, staleToken, heard, restarts>>

(* Mutant: the socket is entered in the map again after the await. *)
NotifyAndRegister(k) ==
  /\ conn[k] = "notify"
  /\ conn' = [conn EXCEPT ![k] = "deliver"]
  /\ heard' = [heard EXCEPT ![dataUser[k]] = "online"]
  /\ socketsByUserId' = [socketsByUserId EXCEPT ![dataUser[k]] = k]
  /\ UNCHANGED <<loginVars, token, dataUser, open, staleToken, onlineUserIds, leaving, restarts>>

(* The friends have been read: tell those that are connected. *)
NotifyOnline(k) ==
  /\ conn[k] = "notify"
  /\ conn' = [conn EXCEPT ![k] = "deliver"]
  /\ heard' = [heard EXCEPT ![dataUser[k]] = "online"]
  /\ UNCHANGED <<loginVars, token, dataUser, open, staleToken, registryVars, leaving, restarts>>

(* deliverOfflineMessages comes to its end (Delivery.tla is about it). *)
FinishConnection(k) ==
  /\ conn[k] = "deliver"
  /\ conn' = [conn EXCEPT ![k] = "up"]
  /\ UNCHANGED <<loginVars, token, dataUser, open, staleToken, registryVars, presenceVars, restarts>>

(* Reading the friends or the pending messages fails: the catch block. *)
FailConnection(k) ==
  /\ conn[k] \in {"notify", "deliver"}
  /\ conn' = [conn EXCEPT ![k] = "ended"]
  /\ IF k \in open THEN CloseSocket(k) ELSE UNCHANGED <<open, registryVars, leaving>>
  /\ UNCHANGED <<loginVars, token, dataUser, staleToken, heard, restarts>>

(* The client closes the connection or the network drops it, at any time. *)
ClientDrop(k) ==
  /\ k \in open
  /\ CloseSocket(k)
  /\ UNCHANGED <<loginVars, conn, token, dataUser, staleToken, heard, restarts>>

(* The rest of handleDisconnect: lastSeenAt written and the friends read. *)
NotifyOffline(k) ==
  /\ k \in leaving
  /\ leaving' = leaving \ {k}
  /\ heard' = [heard EXCEPT ![dataUser[k]] = "offline"]
  /\ UNCHANGED <<loginVars, socketVars, registryVars, restarts>>

(* The process ends and starts again: the rows stay, memory and            *)
(* connections are gone, and no handler is left to announce it.            *)
ServerRestart ==
  /\ restarts < MaxRestarts
  /\ restarts' = restarts + 1
  /\ login' = [s \in Session |->
                 IF login[s] \in {"revoke", "kick", "create"} THEN "failed" ELSE login[s]]
  /\ conn' = [k \in Socket |-> IF conn[k] = "idle" THEN "idle" ELSE "ended"]
  /\ open' = {}
  /\ socketsByUserId' = [u \in User |-> None]
  /\ onlineUserIds' = {}
  /\ leaving' = {}
  /\ UNCHANGED <<owner, session, older, token, dataUser, staleToken, heard>>

-----------------------------------------------------------------------------
Init ==
  /\ login = [s \in Session |-> "idle"]
  /\ owner = [s \in Session |-> None]
  /\ session = [s \in Session |-> "none"]
  /\ older = [s \in Session |-> {}]
  /\ conn = [k \in Socket |-> "idle"]
  /\ token = [k \in Socket |-> None]
  /\ dataUser = [k \in Socket |-> None]
  /\ open = {}
  /\ socketsByUserId = [u \in User |-> None]
  /\ onlineUserIds = {}
  /\ leaving = {}
  /\ heard = [u \in User |-> "none"]
  /\ staleToken = {}
  /\ restarts = 0

LoginNext ==
  \/ \E s \in Session, u \in User : LoginStart(s, u)
  \/ \E s \in Session : \/ LoginRevoke(s) \/ LoginKick(s) \/ LoginCreate(s)
                        \/ LoginFail(s) \/ Logout(s) \/ Expire(s)
  \/ \E u \in User : ResetPassword(u)

SocketNext ==
  \/ \E k \in Socket, s \in Session : Connect(k, s)
  \/ \E k \in Socket : \/ Authenticate(k) \/ Reject(k) \/ Register(k)
                       \/ NotifyOnline(k) \/ FinishConnection(k) \/ FailConnection(k)
                       \/ ClientDrop(k) \/ NotifyOffline(k)

Next == LoginNext \/ SocketNext \/ ServerRestart

Spec == Init /\ [][Next]_vars

-----------------------------------------------------------------------------
TypeOK ==
  /\ login \in [Session -> LoginStep]
  /\ owner \in [Session -> User \cup {None}]
  /\ session \in [Session -> SessionRow]
  /\ older \in [Session -> SUBSET Session]
  /\ conn \in [Socket -> ConnStep]
  /\ token \in [Socket -> Session \cup {None}]
  /\ dataUser \in [Socket -> User \cup {None}]
  /\ open \in SUBSET Socket
  /\ socketsByUserId \in [User -> Socket \cup {None}]
  /\ onlineUserIds \in SUBSET User
  /\ leaving \in SUBSET Socket
  /\ heard \in [User -> {"none", "online", "offline"}]
  /\ staleToken \in SUBSET Socket
  /\ restarts \in Nat

(* The events of a socket are accepted on client.data.user alone, so a     *)
(* socket that is open and carries a user must be the one in the registry: *)
(* no interleaving of connects, drops, kicks and logins leaves a second    *)
(* authenticated connection of a user open behind the registry's back.     *)
OneOpenSocket ==
  \A k \in open : dataUser[k] # None => socketsByUserId[dataUser[k]] = k

(* A user whose socket is in the registry is shown as online: the          *)
(* handleDisconnect that a takeover triggers does not undo the markOnline  *)
(* of the socket that took over.                                           *)
RegisteredIsOnline ==
  \A u \in User : socketsByUserId[u] # None => u \in onlineUserIds

(* Once a login has revoked the sessions of its user, no older session is  *)
(* live again: not through another login that was under way, nor a restart. *)
OlderSessionsDead ==
  \A s, t \in Session :
    login[s] \notin {"idle", "revoke"} /\ t \in older[s] => session[t] # "live"

(* The access token outlives its session, and yet a connection opened with *)
(* the token of a dead session is never attached to a user.                *)
DeadTokenNeverRegisters == \A k \in staleToken : dataUser[k] = None

(* A login that has answered has taken the older devices of its user off   *)
(* the air: no connection opened with an older session is still served.    *)
OldDeviceOffline ==
  \A s \in Session : login[s] = "done" =>
    \A k \in open : dataUser[k] # None => token[k] \notin older[s]

(* When no connect or disconnect handler of a user is under way, friends   *)
(* were last told "online" about a user that has a connection.             *)
Settled(u) ==
  \A k \in Socket : dataUser[k] = u => conn[k] \in {"up", "ended"} /\ k \notin leaving

FriendsHearTheTruth ==
  \A u \in User : Settled(u) /\ socketsByUserId[u] \in open => heard[u] = "online"

(* The registry implements the single-device promise: a socket that was    *)
(* replaced, kicked or dropped never becomes the user's current one again. *)
Device == INSTANCE SingleDevice WITH
  current <- socketsByUserId,
  retired <- {k \in Socket : dataUser[k] # None /\ socketsByUserId[dataUser[k]] # k}

SingleDeviceSpec == Device!Spec

=============================================================================
