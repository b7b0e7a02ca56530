--------------------------- MODULE SessionsProofs ---------------------------
(***************************************************************************)
(* Proofs about Sessions, for every set of users, sessions and sockets.    *)
(* The safety properties are proved through one inductive invariant, IInv: *)
(* it ties the steps of the handlers to the rows and the maps they have    *)
(* already written.                                                        *)
(***************************************************************************)
EXTENDS Sessions, TLAPS

(* A row exists exactly for a login that has reached its end. *)
RowsAreDone == \A s \in Session : session[s] # "none" => login[s] = "done"

(* A login under way is for a user. *)
LoginsHaveOwners == \A s \in Session : login[s] # "idle" => owner[s] \in User

(* A socket that has connected presents the token of a finished login. *)
SocketsHaveTokens ==
  \A k \in Socket : conn[k] # "idle" => token[k] \in Session /\ login[token[k]] = "done"

(* A socket is attached to a user from registerSocket on, not earlier. *)
AttachedAfterRegister ==
  \A k \in Socket :
    /\ conn[k] \in {"idle", "authenticate", "register"} => dataUser[k] = None
    /\ conn[k] \in {"notify", "deliver", "up"} => dataUser[k] \in User

(* Only connected sockets are open. *)
OpenHaveConnected == \A k \in open : conn[k] # "idle"

(* The entry of a user in the map is a socket attached to that user. *)
EntriesAreAttached ==
  \A u \in User : socketsByUserId[u] # None => dataUser[socketsByUserId[u]] = u

(* A socket that announces a departure is attached to the user who left. *)
LeaversAreAttached == \A k \in leaving : dataUser[k] \in User

(* The rows a login found are revoked for good. *)
OlderAreRevoked ==
  \A s \in Session : \A t \in older[s] : session[t] = "revoked"

(* A token that was dead when its socket connected still is, and the       *)
(* socket never got beyond authenticate.                                   *)
StaleStayOut ==
  \A k \in staleToken :
    /\ conn[k] \in {"authenticate", "ended"}
    /\ dataUser[k] = None
    /\ session[token[k]] \in {"expired", "revoked"}

(* The rows a finished login left are there. *)
DoneHaveRows == \A s \in Session : login[s] = "done" => session[s] # "none"

IInv ==
  /\ TypeOK
  /\ RowsAreDone
  /\ DoneHaveRows
  /\ LoginsHaveOwners
  /\ SocketsHaveTokens
  /\ AttachedAfterRegister
  /\ OpenHaveConnected
  /\ EntriesAreAttached
  /\ LeaversAreAttached
  /\ OlderAreRevoked
  /\ StaleStayOut
  /\ OneOpenSocket
  /\ RegisteredIsOnline

-----------------------------------------------------------------------------
(* Each action keeps the invariant.  The conjuncts it cannot disturb come   *)
(* last: none of their variables changes.                                  *)

(* A step of LoginStart keeps the inductive invariant.                     *)
LEMMA LoginStartKeeps ==
  ASSUME IInv, NEW s \in Session, NEW u \in User, LoginStart(s, u)
  PROVE  IInv'
<1>1. TypeOK'
  BY NoneAssumption DEF IInv, TypeOK, LoginStep, SessionRow, ConnStep,
    LoginStart, socketVars, registryVars, presenceVars
<1>2. RowsAreDone'
  BY NoneAssumption DEF IInv, TypeOK, RowsAreDone, LoginStart, socketVars,
    registryVars, presenceVars
<1>3. DoneHaveRows'
  BY NoneAssumption DEF IInv, TypeOK, DoneHaveRows, LoginStart, socketVars,
    registryVars, presenceVars
<1>4. LoginsHaveOwners'
  BY NoneAssumption DEF IInv, TypeOK, LoginsHaveOwners, LoginStart, socketVars,
    registryVars, presenceVars
<1>5. SocketsHaveTokens'
  BY NoneAssumption DEF IInv, TypeOK, SocketsHaveTokens, LoginStart,
    socketVars, registryVars, presenceVars
<1>6. /\ AttachedAfterRegister' /\ OpenHaveConnected' /\ EntriesAreAttached' /\
        LeaversAreAttached' /\ OlderAreRevoked' /\ StaleStayOut' /\ OneOpenSocket' /\
        RegisteredIsOnline'
  BY DEF IInv, AttachedAfterRegister, OpenHaveConnected, EntriesAreAttached,
    LeaversAreAttached, OlderAreRevoked, StaleStayOut, OneOpenSocket,
    RegisteredIsOnline, LoginStart, socketVars, registryVars, presenceVars
<1>7. QED
  BY <1>1, <1>2, <1>3, <1>4, <1>5, <1>6 DEF IInv

(* A step of LoginRevoke keeps the inductive invariant.                    *)
LEMMA LoginRevokeKeeps ==
  ASSUME IInv, NEW s \in Session, LoginRevoke(s)
  PROVE  IInv'
<1>1. TypeOK'
  BY NoneAssumption DEF IInv, TypeOK, LoginStep, SessionRow, ConnStep,
    LoginRevoke, RevokeSessionsOf, RowsOf, socketVars, registryVars,
    presenceVars
<1>2. RowsAreDone'
  BY NoneAssumption DEF IInv, TypeOK, RowsAreDone, LoginRevoke,
    RevokeSessionsOf, RowsOf, socketVars, registryVars, presenceVars
<1>3. DoneHaveRows'
  BY NoneAssumption DEF IInv, TypeOK, DoneHaveRows, LoginRevoke,
    RevokeSessionsOf, RowsOf, socketVars, registryVars, presenceVars
<1>4. LoginsHaveOwners'
  BY NoneAssumption DEF IInv, TypeOK, LoginsHaveOwners, LoginRevoke,
    RevokeSessionsOf, RowsOf, socketVars, registryVars, presenceVars
<1>5. SocketsHaveTokens'
  BY NoneAssumption DEF IInv, TypeOK, SocketsHaveTokens, LoginRevoke,
    RevokeSessionsOf, RowsOf, socketVars, registryVars, presenceVars
<1>6. OlderAreRevoked'
  BY NoneAssumption DEF IInv, TypeOK, OlderAreRevoked, LoginRevoke,
    RevokeSessionsOf, RowsOf, socketVars, registryVars, presenceVars
<1>7. StaleStayOut'
  BY NoneAssumption DEF IInv, TypeOK, StaleStayOut, SocketsHaveTokens,
    LoginRevoke, RevokeSessionsOf, RowsOf, socketVars, registryVars,
    presenceVars
<1>8. /\ AttachedAfterRegister' /\ OpenHaveConnected' /\ EntriesAreAttached' /\
        LeaversAreAttached' /\ OneOpenSocket' /\ RegisteredIsOnline'
  BY DEF IInv, AttachedAfterRegister, OpenHaveConnected, EntriesAreAttached,
    LeaversAreAttached, OneOpenSocket, RegisteredIsOnline, LoginRevoke,
    RevokeSessionsOf, RowsOf, socketVars, registryVars, presenceVars
<1>9. QED
  BY <1>1, <1>2, <1>3, <1>4, <1>5, <1>6, <1>7, <1>8 DEF IInv

(* A step of LoginKick keeps the inductive invariant.                      *)
LEMMA LoginKickKeeps ==
  ASSUME IInv, NEW s \in Session, LoginKick(s)
  PROVE  IInv'
<1>1. TypeOK'
  BY NoneAssumption DEF IInv, TypeOK, LoginStep, SessionRow, ConnStep,
    LoginKick, KickUser
<1>2. RowsAreDone'
  BY NoneAssumption DEF IInv, TypeOK, RowsAreDone, LoginKick, KickUser
<1>3. DoneHaveRows'
  BY NoneAssumption DEF IInv, TypeOK, DoneHaveRows, LoginKick, KickUser
<1>4. LoginsHaveOwners'
  BY NoneAssumption DEF IInv, TypeOK, LoginsHaveOwners, LoginKick, KickUser
<1>5. SocketsHaveTokens'
  BY NoneAssumption DEF IInv, TypeOK, SocketsHaveTokens, LoginKick, KickUser
<1>6. OpenHaveConnected'
  BY NoneAssumption DEF IInv, TypeOK, OpenHaveConnected, LoginKick, KickUser
<1>7. EntriesAreAttached'
  BY NoneAssumption DEF IInv, TypeOK, EntriesAreAttached, LoginKick, KickUser
<1>8. OneOpenSocket'
  BY NoneAssumption DEF IInv, TypeOK, OneOpenSocket, LoginKick, KickUser
<1>9. RegisteredIsOnline'
  BY NoneAssumption DEF IInv, TypeOK, RegisteredIsOnline, LoginKick, KickUser
<1>10. /\ AttachedAfterRegister' /\ LeaversAreAttached' /\ OlderAreRevoked' /\
        StaleStayOut'
  BY DEF IInv, AttachedAfterRegister, LeaversAreAttached, OlderAreRevoked,
    StaleStayOut, LoginKick, KickUser
<1>11. QED
  BY <1>1, <1>2, <1>3, <1>4, <1>5, <1>6, <1>7, <1>8, <1>9, <1>10 DEF IInv

(* A step of LoginCreate keeps the inductive invariant.                    *)
LEMMA LoginCreateKeeps ==
  ASSUME IInv, NEW s \in Session, LoginCreate(s)
  PROVE  IInv'
<1>1. TypeOK'
  BY NoneAssumption DEF IInv, TypeOK, LoginStep, SessionRow, ConnStep,
    LoginCreate, socketVars, registryVars, presenceVars
<1>2. RowsAreDone'
  BY NoneAssumption DEF IInv, TypeOK, RowsAreDone, LoginCreate, socketVars,
    registryVars, presenceVars
<1>3. DoneHaveRows'
  BY NoneAssumption DEF IInv, TypeOK, DoneHaveRows, LoginCreate, socketVars,
    registryVars, presenceVars
<1>4. LoginsHaveOwners'
  BY NoneAssumption DEF IInv, TypeOK, LoginsHaveOwners, LoginCreate,
    socketVars, registryVars, presenceVars
<1>5. SocketsHaveTokens'
  BY NoneAssumption DEF IInv, TypeOK, SocketsHaveTokens, LoginCreate,
    socketVars, registryVars, presenceVars
<1>6. OlderAreRevoked'
  BY NoneAssumption DEF IInv, TypeOK, OlderAreRevoked, RowsAreDone,
    LoginCreate, socketVars, registryVars, presenceVars
<1>7. StaleStayOut'
  BY NoneAssumption DEF IInv, TypeOK, StaleStayOut, SocketsHaveTokens,
    RowsAreDone, LoginCreate, socketVars, registryVars, presenceVars
<1>8. /\ AttachedAfterRegister' /\ OpenHaveConnected' /\ EntriesAreAttached' /\
        LeaversAreAttached' /\ OneOpenSocket' /\ RegisteredIsOnline'
  BY DEF IInv, AttachedAfterRegister, OpenHaveConnected, EntriesAreAttached,
    LeaversAreAttached, OneOpenSocket, RegisteredIsOnline, LoginCreate,
    socketVars, registryVars, presenceVars
<1>9. QED
  BY <1>1, <1>2, <1>3, <1>4, <1>5, <1>6, <1>7, <1>8 DEF IInv

(* A step of LoginFail keeps the inductive invariant.                      *)
LEMMA LoginFailKeeps ==
  ASSUME IInv, NEW s \in Session, LoginFail(s)
  PROVE  IInv'
<1>1. TypeOK'
  BY NoneAssumption DEF IInv, TypeOK, LoginStep, SessionRow, ConnStep,
    LoginFail, socketVars, registryVars, presenceVars
<1>2. RowsAreDone'
  BY NoneAssumption DEF IInv, TypeOK, RowsAreDone, LoginFail, socketVars,
    registryVars, presenceVars
<1>3. DoneHaveRows'
  BY NoneAssumption DEF IInv, TypeOK, DoneHaveRows, LoginFail, socketVars,
    registryVars, presenceVars
<1>4. LoginsHaveOwners'
  BY NoneAssumption DEF IInv, TypeOK, LoginsHaveOwners, LoginFail, socketVars,
    registryVars, presenceVars
<1>5. SocketsHaveTokens'
  BY NoneAssumption DEF IInv, TypeOK, SocketsHaveTokens, LoginFail, socketVars,
    registryVars, presenceVars
<1>6. /\ AttachedAfterRegister' /\ OpenHaveConnected' /\ EntriesAreAttached' /\
        LeaversAreAttached' /\ OlderAreRevoked' /\ StaleStayOut' /\ OneOpenSocket' /\
        RegisteredIsOnline'
  BY DEF IInv, AttachedAfterRegister, OpenHaveConnected, EntriesAreAttached,
    LeaversAreAttached, OlderAreRevoked, StaleStayOut, OneOpenSocket,
    RegisteredIsOnline, LoginFail, socketVars, registryVars, presenceVars
<1>7. QED
  BY <1>1, <1>2, <1>3, <1>4, <1>5, <1>6 DEF IInv

(* A step of Logout keeps the inductive invariant.                         *)
LEMMA LogoutKeeps ==
  ASSUME IInv, NEW s \in Session, Logout(s)
  PROVE  IInv'
<1>1. TypeOK'
  BY NoneAssumption DEF IInv, TypeOK, LoginStep, SessionRow, ConnStep, Logout,
    socketVars, registryVars, presenceVars
<1>2. RowsAreDone'
  BY NoneAssumption DEF IInv, TypeOK, RowsAreDone, Logout, socketVars,
    registryVars, presenceVars
<1>3. DoneHaveRows'
  BY NoneAssumption DEF IInv, TypeOK, DoneHaveRows, Logout, socketVars,
    registryVars, presenceVars
<1>4. OlderAreRevoked'
  BY NoneAssumption DEF IInv, TypeOK, OlderAreRevoked, Logout, socketVars,
    registryVars, presenceVars
<1>5. StaleStayOut'
  BY NoneAssumption DEF IInv, TypeOK, StaleStayOut, Logout, socketVars,
    registryVars, presenceVars
<1>6. /\ LoginsHaveOwners' /\ SocketsHaveTokens' /\ AttachedAfterRegister' /\
        OpenHaveConnected' /\ EntriesAreAttached' /\ LeaversAreAttached' /\
        OneOpenSocket' /\ RegisteredIsOnline'
  BY DEF IInv, LoginsHaveOwners, SocketsHaveTokens, AttachedAfterRegister,
    OpenHaveConnected, EntriesAreAttached, LeaversAreAttached, OneOpenSocket,
    RegisteredIsOnline, Logout, socketVars, registryVars, presenceVars
<1>7. QED
  BY <1>1, <1>2, <1>3, <1>4, <1>5, <1>6 DEF IInv

(* A step of ResetPassword keeps the inductive invariant.                  *)
LEMMA ResetPasswordKeeps ==
  ASSUME IInv, NEW u \in User, ResetPassword(u)
  PROVE  IInv'
<1>1. TypeOK'
  BY NoneAssumption DEF IInv, TypeOK, LoginStep, SessionRow, ConnStep,
    ResetPassword, RevokeSessionsOf, RowsOf, socketVars, registryVars,
    presenceVars
<1>2. RowsAreDone'
  BY NoneAssumption DEF IInv, TypeOK, RowsAreDone, ResetPassword,
    RevokeSessionsOf, RowsOf, socketVars, registryVars, presenceVars
<1>3. DoneHaveRows'
  BY NoneAssumption DEF IInv, TypeOK, DoneHaveRows, ResetPassword,
    RevokeSessionsOf, RowsOf, socketVars, registryVars, presenceVars
<1>4. OlderAreRevoked'
  BY NoneAssumption DEF IInv, TypeOK, OlderAreRevoked, ResetPassword,
    RevokeSessionsOf, RowsOf, socketVars, registryVars, presenceVars
<1>5. StaleStayOut'
  BY NoneAssumption DEF IInv, TypeOK, StaleStayOut, SocketsHaveTokens,
    ResetPassword, RevokeSessionsOf, RowsOf, socketVars, registryVars,
    presenceVars
<1>6. /\ LoginsHaveOwners' /\ SocketsHaveTokens' /\ AttachedAfterRegister' /\
        OpenHaveConnected' /\ EntriesAreAttached' /\ LeaversAreAttached' /\
        OneOpenSocket' /\ RegisteredIsOnline'
  BY DEF IInv, LoginsHaveOwners, SocketsHaveTokens, AttachedAfterRegister,
    OpenHaveConnected, EntriesAreAttached, LeaversAreAttached, OneOpenSocket,
    RegisteredIsOnline, ResetPassword, RevokeSessionsOf, RowsOf, socketVars,
    registryVars, presenceVars
<1>7. QED
  BY <1>1, <1>2, <1>3, <1>4, <1>5, <1>6 DEF IInv

(* A step of Expire keeps the inductive invariant.                         *)
LEMMA ExpireKeeps ==
  ASSUME IInv, NEW s \in Session, Expire(s)
  PROVE  IInv'
<1>1. TypeOK'
  BY NoneAssumption DEF IInv, TypeOK, LoginStep, SessionRow, ConnStep, Expire,
    socketVars, registryVars, presenceVars
<1>2. RowsAreDone'
  BY NoneAssumption DEF IInv, TypeOK, RowsAreDone, Expire, socketVars,
    registryVars, presenceVars
<1>3. DoneHaveRows'
  BY NoneAssumption DEF IInv, TypeOK, DoneHaveRows, Expire, socketVars,
    registryVars, presenceVars
<1>4. OlderAreRevoked'
  BY NoneAssumption DEF IInv, TypeOK, OlderAreRevoked, Expire, socketVars,
    registryVars, presenceVars
<1>5. StaleStayOut'
  BY NoneAssumption DEF IInv, TypeOK, StaleStayOut, Expire, socketVars,
    registryVars, presenceVars
<1>6. /\ LoginsHaveOwners' /\ SocketsHaveTokens' /\ AttachedAfterRegister' /\
        OpenHaveConnected' /\ EntriesAreAttached' /\ LeaversAreAttached' /\
        OneOpenSocket' /\ RegisteredIsOnline'
  BY DEF IInv, LoginsHaveOwners, SocketsHaveTokens, AttachedAfterRegister,
    OpenHaveConnected, EntriesAreAttached, LeaversAreAttached, OneOpenSocket,
    RegisteredIsOnline, Expire, socketVars, registryVars, presenceVars
<1>7. QED
  BY <1>1, <1>2, <1>3, <1>4, <1>5, <1>6 DEF IInv

(* A step of Connect keeps the inductive invariant.                        *)
LEMMA ConnectKeeps ==
  ASSUME IInv, NEW k \in Socket, NEW s \in Session, Connect(k, s)
  PROVE  IInv'
<1>1. TypeOK'
  BY NoneAssumption DEF IInv, TypeOK, LoginStep, SessionRow, ConnStep, Connect,
    loginVars, registryVars, presenceVars
<1>2. SocketsHaveTokens'
  BY NoneAssumption DEF IInv, TypeOK, SocketsHaveTokens, Connect, loginVars,
    registryVars, presenceVars
<1>3. AttachedAfterRegister'
  BY NoneAssumption DEF IInv, TypeOK, AttachedAfterRegister, Connect,
    loginVars, registryVars, presenceVars
<1>4. OpenHaveConnected'
  BY NoneAssumption DEF IInv, TypeOK, OpenHaveConnected, Connect, loginVars,
    registryVars, presenceVars
<1>5. StaleStayOut'
  BY NoneAssumption DEF IInv, TypeOK, StaleStayOut, DoneHaveRows,
    AttachedAfterRegister, SessionRow, Connect, loginVars, registryVars,
    presenceVars
<1>6. OneOpenSocket'
  BY NoneAssumption DEF IInv, TypeOK, OneOpenSocket, AttachedAfterRegister,
    Connect, loginVars, registryVars, presenceVars
<1>7. /\ RowsAreDone' /\ DoneHaveRows' /\ LoginsHaveOwners' /\ EntriesAreAttached' /\
        LeaversAreAttached' /\ OlderAreRevoked' /\ RegisteredIsOnline'
  BY DEF IInv, RowsAreDone, DoneHaveRows, LoginsHaveOwners, EntriesAreAttached,
    LeaversAreAttached, OlderAreRevoked, RegisteredIsOnline, Connect,
    loginVars, registryVars, presenceVars
<1>8. QED
  BY <1>1, <1>2, <1>3, <1>4, <1>5, <1>6, <1>7 DEF IInv

(* A step of Authenticate keeps the inductive invariant.                   *)
LEMMA AuthenticateKeeps ==
  ASSUME IInv, NEW k \in Socket, Authenticate(k)
  PROVE  IInv'
<1>1. TypeOK'
  BY NoneAssumption DEF IInv, TypeOK, LoginStep, SessionRow, ConnStep,
    Authenticate, loginVars, registryVars, presenceVars
<1>2. SocketsHaveTokens'
  BY NoneAssumption DEF IInv, TypeOK, SocketsHaveTokens, Authenticate,
    loginVars, registryVars, presenceVars
<1>3. AttachedAfterRegister'
  BY NoneAssumption DEF IInv, TypeOK, AttachedAfterRegister, Authenticate,
    loginVars, registryVars, presenceVars
<1>4. OpenHaveConnected'
  BY NoneAssumption DEF IInv, TypeOK, OpenHaveConnected, Authenticate,
    loginVars, registryVars, presenceVars
<1>5. StaleStayOut'
  BY NoneAssumption DEF IInv, TypeOK, StaleStayOut, Authenticate, loginVars,
    registryVars, presenceVars
<1>6. /\ RowsAreDone' /\ DoneHaveRows' /\ LoginsHaveOwners' /\ EntriesAreAttached' /\
        LeaversAreAttached' /\ OlderAreRevoked' /\ OneOpenSocket' /\
        RegisteredIsOnline'
  BY DEF IInv, RowsAreDone, DoneHaveRows, LoginsHaveOwners, EntriesAreAttached,
    LeaversAreAttached, OlderAreRevoked, OneOpenSocket, RegisteredIsOnline,
    Authenticate, loginVars, registryVars, presenceVars
<1>7. QED
  BY <1>1, <1>2, <1>3, <1>4, <1>5, <1>6 DEF IInv

(* A step of Reject keeps the inductive invariant.                         *)
LEMMA RejectKeeps ==
  ASSUME IInv, NEW k \in Socket, Reject(k)
  PROVE  IInv'
<1>1. TypeOK'
  BY NoneAssumption DEF IInv, TypeOK, LoginStep, SessionRow, ConnStep, Reject,
    CloseSocket, Registered, loginVars, registryVars
<1>2. SocketsHaveTokens'
  BY NoneAssumption DEF IInv, TypeOK, SocketsHaveTokens, Reject,
    CloseSocket, Registered, loginVars, registryVars
<1>3. AttachedAfterRegister'
  BY NoneAssumption DEF IInv, TypeOK, AttachedAfterRegister, Reject,
    CloseSocket, Registered, loginVars, registryVars
<1>4. OpenHaveConnected'
  BY NoneAssumption DEF IInv, TypeOK, OpenHaveConnected, Reject,
    CloseSocket, Registered, loginVars, registryVars
<1>5. EntriesAreAttached'
  BY NoneAssumption DEF IInv, TypeOK, EntriesAreAttached, Reject,
    CloseSocket, Registered, loginVars, registryVars
<1>6. LeaversAreAttached'
  BY NoneAssumption DEF IInv, TypeOK, LeaversAreAttached, Reject,
    CloseSocket, Registered, loginVars, registryVars
<1>7. StaleStayOut'
  BY NoneAssumption DEF IInv, TypeOK, StaleStayOut, Reject,
    CloseSocket, Registered, loginVars, registryVars
<1>8. OneOpenSocket'
  BY NoneAssumption DEF IInv, TypeOK, OneOpenSocket, Reject,
    CloseSocket, Registered, loginVars, registryVars
<1>9. RegisteredIsOnline'
  BY NoneAssumption DEF IInv, TypeOK, RegisteredIsOnline, Reject,
    CloseSocket, Registered, loginVars, registryVars
<1>10. /\ RowsAreDone' /\ DoneHaveRows' /\ LoginsHaveOwners' /\ OlderAreRevoked'
  BY DEF IInv, RowsAreDone, DoneHaveRows, LoginsHaveOwners, OlderAreRevoked,
    Reject, CloseSocket, Registered, loginVars, registryVars
<1>11. QED
  BY <1>1, <1>2, <1>3, <1>4, <1>5, <1>6, <1>7, <1>8, <1>9, <1>10 DEF IInv

(* A step of Register keeps the inductive invariant.                       *)
LEMMA RegisterKeeps ==
  ASSUME IInv, NEW k \in Socket, Register(k)
  PROVE  IInv'
<1>1. TypeOK'
  BY NoneAssumption DEF IInv, TypeOK, LoginStep, SessionRow, ConnStep,
    SocketsHaveTokens, LoginsHaveOwners, AttachedAfterRegister, Register,
    Kicked, loginVars
<1>2. SocketsHaveTokens'
  BY NoneAssumption DEF IInv, TypeOK, SocketsHaveTokens, Register, Kicked,
    loginVars
<1>3. AttachedAfterRegister'
  BY NoneAssumption DEF IInv, TypeOK, AttachedAfterRegister, SocketsHaveTokens,
    LoginsHaveOwners, Register, Kicked, loginVars
<1>4. OpenHaveConnected'
  BY NoneAssumption DEF IInv, TypeOK, OpenHaveConnected, Register, Kicked,
    loginVars
<1>5. EntriesAreAttached'
  BY NoneAssumption DEF IInv, TypeOK, EntriesAreAttached,
    AttachedAfterRegister, SocketsHaveTokens, LoginsHaveOwners, Register,
    Kicked, loginVars
<1>6. LeaversAreAttached'
  BY NoneAssumption DEF IInv, TypeOK, LeaversAreAttached, EntriesAreAttached,
    SocketsHaveTokens, LoginsHaveOwners, Register, Kicked, loginVars
<1>7. StaleStayOut'
  BY NoneAssumption DEF IInv, TypeOK, StaleStayOut, Register, Kicked,
    loginVars
<1>8. OneOpenSocket'
  BY NoneAssumption DEF IInv, TypeOK, OneOpenSocket, AttachedAfterRegister,
    SocketsHaveTokens, LoginsHaveOwners, Register, Kicked, loginVars
<1>9. RegisteredIsOnline'
  BY NoneAssumption DEF IInv, TypeOK, RegisteredIsOnline, Register, Kicked,
    loginVars
<1>10. /\ RowsAreDone' /\ DoneHaveRows' /\ LoginsHaveOwners' /\ OlderAreRevoked'
  BY DEF IInv, RowsAreDone, DoneHaveRows, LoginsHaveOwners, OlderAreRevoked,
    Register, Kicked, loginVars
<1>11. QED
  BY <1>1, <1>2, <1>3, <1>4, <1>5, <1>6, <1>7, <1>8, <1>9, <1>10 DEF IInv

(* A step of NotifyOnline keeps the inductive invariant.                   *)
LEMMA NotifyOnlineKeeps ==
  ASSUME IInv, NEW k \in Socket, NotifyOnline(k)
  PROVE  IInv'
<1>1. TypeOK'
  BY NoneAssumption DEF IInv, TypeOK, LoginStep, SessionRow, ConnStep,
    SocketsHaveTokens, LoginsHaveOwners, AttachedAfterRegister, NotifyOnline,
    loginVars, registryVars
<1>2. SocketsHaveTokens'
  BY NoneAssumption DEF IInv, TypeOK, SocketsHaveTokens, NotifyOnline,
    loginVars, registryVars
<1>3. AttachedAfterRegister'
  BY NoneAssumption DEF IInv, TypeOK, AttachedAfterRegister, NotifyOnline,
    loginVars, registryVars
<1>4. OpenHaveConnected'
  BY NoneAssumption DEF IInv, TypeOK, OpenHaveConnected, NotifyOnline,
    loginVars, registryVars
<1>5. StaleStayOut'
  BY NoneAssumption DEF IInv, TypeOK, StaleStayOut, NotifyOnline, loginVars,
    registryVars
<1>6. /\ RowsAreDone' /\ DoneHaveRows' /\ LoginsHaveOwners' /\ EntriesAreAttached' /\
        LeaversAreAttached' /\ OlderAreRevoked' /\ OneOpenSocket' /\
        RegisteredIsOnline'
  BY DEF IInv, RowsAreDone, DoneHaveRows, LoginsHaveOwners, EntriesAreAttached,
    LeaversAreAttached, OlderAreRevoked, OneOpenSocket, RegisteredIsOnline,
    NotifyOnline, loginVars, registryVars
<1>7. QED
  BY <1>1, <1>2, <1>3, <1>4, <1>5, <1>6 DEF IInv

(* A step of FinishConnection keeps the inductive invariant.               *)
LEMMA FinishConnectionKeeps ==
  ASSUME IInv, NEW k \in Socket, FinishConnection(k)
  PROVE  IInv'
<1>1. TypeOK'
  BY NoneAssumption DEF IInv, TypeOK, LoginStep, SessionRow, ConnStep,
    FinishConnection, loginVars, registryVars, presenceVars
<1>2. SocketsHaveTokens'
  BY NoneAssumption DEF IInv, TypeOK, SocketsHaveTokens, FinishConnection,
    loginVars, registryVars, presenceVars
<1>3. AttachedAfterRegister'
  BY NoneAssumption DEF IInv, TypeOK, AttachedAfterRegister, FinishConnection,
    loginVars, registryVars, presenceVars
<1>4. OpenHaveConnected'
  BY NoneAssumption DEF IInv, TypeOK, OpenHaveConnected, FinishConnection,
    loginVars, registryVars, presenceVars
<1>5. StaleStayOut'
  BY NoneAssumption DEF IInv, TypeOK, StaleStayOut, FinishConnection,
    loginVars, registryVars, presenceVars
<1>6. /\ RowsAreDone' /\ DoneHaveRows' /\ LoginsHaveOwners' /\ EntriesAreAttached' /\
        LeaversAreAttached' /\ OlderAreRevoked' /\ OneOpenSocket' /\
        RegisteredIsOnline'
  BY DEF IInv, RowsAreDone, DoneHaveRows, LoginsHaveOwners, EntriesAreAttached,
    LeaversAreAttached, OlderAreRevoked, OneOpenSocket, RegisteredIsOnline,
    FinishConnection, loginVars, registryVars, presenceVars
<1>7. QED
  BY <1>1, <1>2, <1>3, <1>4, <1>5, <1>6 DEF IInv

(* A step of FailConnection keeps the inductive invariant.                 *)
LEMMA FailConnectionKeeps ==
  ASSUME IInv, NEW k \in Socket, FailConnection(k)
  PROVE  IInv'
<1>1. TypeOK'
  BY NoneAssumption DEF IInv, TypeOK, LoginStep, SessionRow, ConnStep,
    FailConnection, CloseSocket, Registered, loginVars, registryVars
<1>2. SocketsHaveTokens'
  BY NoneAssumption DEF IInv, TypeOK, SocketsHaveTokens, FailConnection,
    CloseSocket, Registered, loginVars, registryVars
<1>3. AttachedAfterRegister'
  BY NoneAssumption DEF IInv, TypeOK, AttachedAfterRegister, FailConnection,
    CloseSocket, Registered, loginVars, registryVars
<1>4. OpenHaveConnected'
  BY NoneAssumption DEF IInv, TypeOK, OpenHaveConnected, FailConnection,
    CloseSocket, Registered, loginVars, registryVars
<1>5. EntriesAreAttached'
  BY NoneAssumption DEF IInv, TypeOK, EntriesAreAttached, FailConnection,
    CloseSocket, Registered, loginVars, registryVars
<1>6. LeaversAreAttached'
  BY NoneAssumption DEF IInv, TypeOK, LeaversAreAttached, FailConnection,
    CloseSocket, Registered, loginVars, registryVars
<1>7. StaleStayOut'
  BY NoneAssumption DEF IInv, TypeOK, StaleStayOut, FailConnection,
    CloseSocket, Registered, loginVars, registryVars
<1>8. OneOpenSocket'
  BY NoneAssumption DEF IInv, TypeOK, OneOpenSocket, FailConnection,
    CloseSocket, Registered, loginVars, registryVars
<1>9. RegisteredIsOnline'
  BY NoneAssumption DEF IInv, TypeOK, RegisteredIsOnline, FailConnection,
    CloseSocket, Registered, loginVars, registryVars
<1>10. /\ RowsAreDone' /\ DoneHaveRows' /\ LoginsHaveOwners' /\ OlderAreRevoked'
  BY DEF IInv, RowsAreDone, DoneHaveRows, LoginsHaveOwners, OlderAreRevoked,
    FailConnection, CloseSocket, Registered, loginVars, registryVars
<1>11. QED
  BY <1>1, <1>2, <1>3, <1>4, <1>5, <1>6, <1>7, <1>8, <1>9, <1>10 DEF IInv

(* A step of ClientDrop keeps the inductive invariant.                     *)
LEMMA ClientDropKeeps ==
  ASSUME IInv, NEW k \in Socket, ClientDrop(k)
  PROVE  IInv'
<1>1. TypeOK'
  BY NoneAssumption DEF IInv, TypeOK, LoginStep, SessionRow, ConnStep,
    ClientDrop, CloseSocket, Registered, loginVars, registryVars
<1>2. OpenHaveConnected'
  BY NoneAssumption DEF IInv, TypeOK, OpenHaveConnected, ClientDrop,
    CloseSocket, Registered, loginVars, registryVars
<1>3. EntriesAreAttached'
  BY NoneAssumption DEF IInv, TypeOK, EntriesAreAttached, ClientDrop,
    CloseSocket, Registered, loginVars, registryVars
<1>4. LeaversAreAttached'
  BY NoneAssumption DEF IInv, TypeOK, LeaversAreAttached, ClientDrop,
    CloseSocket, Registered, loginVars, registryVars
<1>5. OneOpenSocket'
  BY NoneAssumption DEF IInv, TypeOK, OneOpenSocket, ClientDrop,
    CloseSocket, Registered, loginVars, registryVars
<1>6. RegisteredIsOnline'
  BY NoneAssumption DEF IInv, TypeOK, RegisteredIsOnline, ClientDrop,
    CloseSocket, Registered, loginVars, registryVars
<1>7. /\ RowsAreDone' /\ DoneHaveRows' /\ LoginsHaveOwners' /\ SocketsHaveTokens' /\
        AttachedAfterRegister' /\ OlderAreRevoked' /\ StaleStayOut'
  BY DEF IInv, RowsAreDone, DoneHaveRows, LoginsHaveOwners, SocketsHaveTokens,
    AttachedAfterRegister, OlderAreRevoked, StaleStayOut, ClientDrop,
    CloseSocket, Registered, loginVars, registryVars
<1>8. QED
  BY <1>1, <1>2, <1>3, <1>4, <1>5, <1>6, <1>7 DEF IInv

(* A step of NotifyOffline keeps the inductive invariant.                  *)
LEMMA NotifyOfflineKeeps ==
  ASSUME IInv, NEW k \in Socket, NotifyOffline(k)
  PROVE  IInv'
<1>1. TypeOK'
  BY NoneAssumption DEF IInv, TypeOK, LoginStep, SessionRow, ConnStep,
    SocketsHaveTokens, LoginsHaveOwners, AttachedAfterRegister, NotifyOffline,
    loginVars, socketVars, registryVars, LeaversAreAttached
<1>2. LeaversAreAttached'
  BY NoneAssumption DEF IInv, TypeOK, LeaversAreAttached, NotifyOffline,
    loginVars, socketVars, registryVars
<1>3. /\ RowsAreDone' /\ DoneHaveRows' /\ LoginsHaveOwners' /\ SocketsHaveTokens' /\
        AttachedAfterRegister' /\ OpenHaveConnected' /\ EntriesAreAttached' /\
        OlderAreRevoked' /\ StaleStayOut' /\ OneOpenSocket' /\ RegisteredIsOnline'
  BY DEF IInv, RowsAreDone, DoneHaveRows, LoginsHaveOwners, SocketsHaveTokens,
    AttachedAfterRegister, OpenHaveConnected, EntriesAreAttached,
    OlderAreRevoked, StaleStayOut, OneOpenSocket, RegisteredIsOnline,
    NotifyOffline, loginVars, socketVars, registryVars
<1>4. QED
  BY <1>1, <1>2, <1>3 DEF IInv

(* A step of ServerRestart keeps the inductive invariant.                  *)
LEMMA ServerRestartKeeps ==
  ASSUME IInv, ServerRestart
  PROVE  IInv'
<1>1. TypeOK'
  BY NoneAssumption DEF IInv, TypeOK, LoginStep, SessionRow, ConnStep,
    ServerRestart
<1>2. RowsAreDone'
  BY NoneAssumption DEF IInv, TypeOK, RowsAreDone, ServerRestart
<1>3. DoneHaveRows'
  BY NoneAssumption DEF IInv, TypeOK, DoneHaveRows, ServerRestart
<1>4. LoginsHaveOwners'
  BY NoneAssumption DEF IInv, TypeOK, LoginsHaveOwners, ServerRestart
<1>5. SocketsHaveTokens'
  BY NoneAssumption DEF IInv, TypeOK, SocketsHaveTokens, ServerRestart
<1>6. AttachedAfterRegister'
  BY NoneAssumption DEF IInv, TypeOK, AttachedAfterRegister, ServerRestart
<1>7. OpenHaveConnected'
  BY NoneAssumption DEF IInv, TypeOK, OpenHaveConnected, ServerRestart
<1>8. EntriesAreAttached'
  BY NoneAssumption DEF IInv, TypeOK, EntriesAreAttached, ServerRestart
<1>9. LeaversAreAttached'
  BY NoneAssumption DEF IInv, TypeOK, LeaversAreAttached, ServerRestart
<1>10. StaleStayOut'
  BY NoneAssumption DEF IInv, TypeOK, StaleStayOut, ServerRestart
<1>11. OneOpenSocket'
  BY NoneAssumption DEF IInv, TypeOK, OneOpenSocket, ServerRestart
<1>12. RegisteredIsOnline'
  BY NoneAssumption DEF IInv, TypeOK, RegisteredIsOnline, ServerRestart
<1>13. /\ OlderAreRevoked'
  BY DEF IInv, OlderAreRevoked, ServerRestart
<1>14. QED
  BY <1>1, <1>2, <1>3, <1>4, <1>5, <1>6, <1>7, <1>8, <1>9, <1>10, <1>11, <1>12,
    <1>13 DEF IInv

-----------------------------------------------------------------------------
(* The initial state satisfies the inductive invariant. *)
LEMMA InitEstablishes == Init => IInv
  BY NoneAssumption
  DEF Init, IInv, TypeOK, LoginStep, SessionRow, ConnStep, RowsAreDone, DoneHaveRows,
      LoginsHaveOwners, SocketsHaveTokens, AttachedAfterRegister, OpenHaveConnected,
      EntriesAreAttached, LeaversAreAttached, OlderAreRevoked, StaleStayOut,
      OneOpenSocket, RegisteredIsOnline

(* Every step keeps it: one lemma for each action. *)
LEMMA NextKeeps == IInv /\ [Next]_vars => IInv'
<1> SUFFICES ASSUME IInv, [Next]_vars PROVE IInv'
  OBVIOUS
<1>1. CASE LoginNext
  BY <1>1, LoginStartKeeps, LoginRevokeKeeps, LoginKickKeeps, LoginCreateKeeps,
     LoginFailKeeps, LogoutKeeps, ExpireKeeps, ResetPasswordKeeps
  DEF LoginNext
<1>2. CASE SocketNext
  BY <1>2, ConnectKeeps, AuthenticateKeeps, RejectKeeps, RegisterKeeps, NotifyOnlineKeeps,
     FinishConnectionKeeps, FailConnectionKeeps, ClientDropKeeps, NotifyOfflineKeeps
  DEF SocketNext
<1>3. CASE ServerRestart
  BY <1>3, ServerRestartKeeps
<1>4. CASE UNCHANGED vars
  BY <1>4
  DEF vars, loginVars, socketVars, registryVars, presenceVars, IInv, TypeOK, RowsAreDone,
      DoneHaveRows, LoginsHaveOwners, SocketsHaveTokens, AttachedAfterRegister,
      OpenHaveConnected, EntriesAreAttached, LeaversAreAttached, OlderAreRevoked,
      StaleStayOut, OneOpenSocket, RegisteredIsOnline
<1>5. QED BY <1>1, <1>2, <1>3, <1>4 DEF Next

(* The inductive invariant holds in every reachable state. *)
THEOREM Invariance == Spec => []IInv
  BY InitEstablishes, NextKeeps, PTL DEF Spec

(* Every variable keeps its type. *)
THEOREM TypeCorrect == Spec => []TypeOK
<1>1. IInv => TypeOK BY DEF IInv
<1>2. QED BY <1>1, Invariance, PTL

(* Whatever the order of connects, kicks, drops and logins, an open socket *)
(* that carries a user is the one in the registry: one device per user.    *)
THEOREM OneSocketPerUser == Spec => []OneOpenSocket
<1>1. IInv => OneOpenSocket BY DEF IInv
<1>2. QED BY <1>1, Invariance, PTL

(* A takeover never leaves the user of a registered socket offline. *)
THEOREM RegisteredStaysOnline == Spec => []RegisteredIsOnline
<1>1. IInv => RegisteredIsOnline BY DEF IInv
<1>2. QED BY <1>1, Invariance, PTL

(* No session that a login found is live after that login revoked. *)
THEOREM RevocationIsFinal == Spec => []OlderSessionsDead
<1>1. IInv => OlderSessionsDead
  BY DEF IInv, OlderAreRevoked, OlderSessionsDead
<1>2. QED BY <1>1, Invariance, PTL

(* The token of a dead session opens no realtime connection. *)
THEOREM DeadTokensAreRefused == Spec => []DeadTokenNeverRegisters
<1>1. IInv => DeadTokenNeverRegisters
  BY DEF IInv, StaleStayOut, DeadTokenNeverRegisters
<1>2. QED BY <1>1, Invariance, PTL

-----------------------------------------------------------------------------
(* Refinement: what a step does to the registry is a step of SingleDevice. *)

(* The sockets that were current and no longer are: SingleDevice's retired. *)
Retired == {k \in Socket : dataUser[k] # None /\ socketsByUserId[dataUser[k]] # k}

(* The registry starts out empty, as SingleDevice does. *)
LEMMA InitRefines == Init => Device!Init
  BY DEF Init, Device!Init

(* Actions that leave the map and client.data.user alone stutter. *)
LEMMA StutterRefines ==
  ASSUME UNCHANGED <<dataUser, socketsByUserId>>
  PROVE  UNCHANGED Device!vars
  BY DEF Device!vars

(* A registered socket that goes detaches its user. *)
LEMMA DetachRefines ==
  ASSUME IInv, NEW u \in User, socketsByUserId[u] # None, UNCHANGED dataUser,
         socketsByUserId' = [socketsByUserId EXCEPT ![u] = None]
  PROVE  Device!Detach(u)
<1>1. dataUser[socketsByUserId[u]] = u /\ socketsByUserId[u] \in Socket
  BY DEF IInv, EntriesAreAttached, TypeOK
<1>2. Retired' = Retired \cup {socketsByUserId[u]}
  BY <1>1, NoneAssumption DEF Retired, IInv, TypeOK, EntriesAreAttached
<1>3. QED BY <1>2 DEF Device!Detach, Retired

(* kickUser detaches the user of the login, or finds nobody to kick. *)
LEMMA KickRefines ==
  ASSUME IInv, NEW s \in Session, LoginKick(s)
  PROVE  [Device!Next]_(Device!vars)
<1> DEFINE u == owner[s]
<1>1. u \in User /\ UNCHANGED dataUser
      /\ socketsByUserId' = [socketsByUserId EXCEPT ![u] = None]
  BY DEF IInv, LoginsHaveOwners, LoginKick, KickUser
<1>2. CASE socketsByUserId[u] = None
  <2>1. socketsByUserId' = socketsByUserId
    BY <1>1, <1>2 DEF IInv, TypeOK
  <2>2. QED BY <1>1, <2>1, StutterRefines
<1>3. CASE socketsByUserId[u] # None
  BY <1>1, <1>3, DetachRefines DEF Device!Next
<1>4. QED BY <1>2, <1>3

(* A socket that closes detaches its user if it is the registered one. *)
LEMMA CloseRefines ==
  ASSUME IInv, NEW k \in Socket, CloseSocket(k), UNCHANGED dataUser
  PROVE  [Device!Next]_(Device!vars)
<1>1. CASE Registered(k)
  <2>1. dataUser[k] \in User /\ socketsByUserId[dataUser[k]] # None
    BY <1>1, NoneAssumption DEF IInv, TypeOK, Registered
  <2>2. socketsByUserId' = [socketsByUserId EXCEPT ![dataUser[k]] = None]
    BY <1>1 DEF CloseSocket
  <2>3. QED BY <2>1, <2>2, DetachRefines DEF Device!Next
<1>2. CASE ~Registered(k)
  BY <1>2, StutterRefines DEF CloseSocket, registryVars
<1>3. QED BY <1>1, <1>2

(* registerSocket attaches a socket that was never current before. *)
LEMMA RegisterRefines ==
  ASSUME IInv, NEW k \in Socket, Register(k)
  PROVE  [Device!Next]_(Device!vars)
<1> DEFINE u == owner[token[k]]
<1>1. u \in User /\ dataUser[k] = None
  BY DEF IInv, SocketsHaveTokens, LoginsHaveOwners, AttachedAfterRegister, Register
<1>2. k \notin Retired /\ \A v \in User : socketsByUserId[v] # k
  BY <1>1, NoneAssumption DEF Retired, IInv, EntriesAreAttached
<1>3. /\ socketsByUserId' = [socketsByUserId EXCEPT ![u] = k]
      /\ dataUser' = [dataUser EXCEPT ![k] = u]
  BY DEF Register
<1>4. Retired' = Retired \cup ({socketsByUserId[u]} \ {None})
  BY <1>1, <1>2, <1>3, NoneAssumption DEF Retired, IInv, TypeOK, EntriesAreAttached
<1>5. Device!Attach(u, k)
  BY <1>2, <1>3, <1>4 DEF Device!Attach, Retired
<1>6. QED BY <1>1, <1>5 DEF Device!Next

(* A restart detaches every user at once. *)
LEMMA RestartRefines ==
  ASSUME IInv, ServerRestart
  PROVE  [Device!Next]_(Device!vars)
<1>1. socketsByUserId' = [u \in User |-> None] /\ UNCHANGED dataUser
  BY DEF ServerRestart
<1>2. Retired' = Retired \cup ({socketsByUserId[u] : u \in User} \ {None})
  BY <1>1, NoneAssumption DEF Retired, IInv, TypeOK, EntriesAreAttached
<1>3. Device!Reset
  BY <1>1, <1>2 DEF Device!Reset, Retired
<1>4. QED BY <1>3 DEF Device!Next

(* Every step of the sessions is a step of the registry or a stutter. *)
LEMMA StepRefines == IInv /\ [Next]_vars => [Device!Next]_(Device!vars)
<1> SUFFICES ASSUME IInv, [Next]_vars PROVE [Device!Next]_(Device!vars)
  OBVIOUS
<1>1. ASSUME NEW s \in Session, LoginKick(s) PROVE [Device!Next]_(Device!vars)
  BY <1>1, KickRefines
<1>2. ASSUME NEW k \in Socket, Reject(k) \/ FailConnection(k) \/ ClientDrop(k)
      PROVE  [Device!Next]_(Device!vars)
  <2>1. UNCHANGED dataUser
    BY <1>2 DEF Reject, FailConnection, ClientDrop
  <2>2. CASE CloseSocket(k)
    BY <2>1, <2>2, CloseRefines
  <2>3. CASE UNCHANGED registryVars
    BY <2>1, <2>3, StutterRefines DEF registryVars
  <2>4. QED BY <1>2, <2>2, <2>3 DEF Reject, FailConnection, ClientDrop
<1>3. ASSUME NEW k \in Socket, Register(k) PROVE [Device!Next]_(Device!vars)
  BY <1>3, RegisterRefines
<1>4. CASE ServerRestart
  BY <1>4, RestartRefines
<1>5. ASSUME UNCHANGED <<dataUser, socketsByUserId>> PROVE [Device!Next]_(Device!vars)
  BY <1>5, StutterRefines
<1>6. CASE LoginNext
  <2>1. (\E s \in Session : LoginKick(s)) \/ UNCHANGED <<dataUser, socketsByUserId>>
    BY <1>6 DEF LoginNext, LoginStart, LoginRevoke, LoginCreate, LoginFail, Logout, Expire,
       ResetPassword, socketVars, registryVars
  <2>2. QED BY <2>1, <1>1, <1>5
<1>7. CASE SocketNext
  <2>1. \/ \E k \in Socket : Reject(k) \/ FailConnection(k) \/ ClientDrop(k) \/ Register(k)
        \/ UNCHANGED <<dataUser, socketsByUserId>>
    BY <1>7 DEF SocketNext, Connect, Authenticate, NotifyOnline, FinishConnection,
       NotifyOffline, socketVars, registryVars
  <2>2. QED BY <2>1, <1>2, <1>3, <1>5
<1>8. CASE UNCHANGED vars
  BY <1>8, <1>5 DEF vars, socketVars, registryVars
<1>9. QED BY <1>4, <1>6, <1>7, <1>8 DEF Next

(* The realtime registry keeps the single-device promise: a socket that    *)
(* was replaced, kicked or dropped is never a user's current one again.    *)
THEOREM RegistryIsSingleDevice == Spec => SingleDeviceSpec
  BY InitRefines, StepRefines, Invariance, PTL DEF Spec, SingleDeviceSpec, Device!Spec

=============================================================================
