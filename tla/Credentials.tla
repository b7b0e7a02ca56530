---------------------------- MODULE Credentials ----------------------------
(***************************************************************************)
(* What an account of LanGram is entered with: e-mail codes, captchas,     *)
(* passwords and refresh tokens, as AuthService looks them up and uses     *)
(* them.  One e-mail address, whose account exists once a registration     *)
(* has created it; addresses share nothing.                                *)
(*                                                                         *)
(* Every handler looks a secret up in one statement, compares it (bcrypt,  *)
(* an await), and marks it as used by id in a later one.  A request that   *)
(* presents a wrong or an expired secret changes nothing and is left out,  *)
(* except for wrong captcha answers, which are counted.  The lookups that  *)
(* a handler makes before its first write are taken together.              *)
(***************************************************************************)
EXTENDS Naturals, FiniteSets

CONSTANTS
  Request,    \* calls of the REST interface, each also the session, the
              \* password and the refresh secret that it may create
  Captcha,    \* rows of auth_captcha_challenges
  None,
  MaxAttempts,  \* TEXT_CAPTCHA_MAX_ATTEMPTS
  MaxCodes      \* bound: rows of email_verification_codes

ASSUME NoneAssumption == None \notin Request /\ None \notin Captcha /\ None \notin Nat
ASSUME KindAssumption == Request \cap Captcha = {} /\ (Request \cup Captcha) \cap Nat = {}
ASSUME BoundAssumption == MaxCodes \in Nat /\ MaxAttempts \in Nat

(* A code is its place in the order of createdAt. *)
Code == 1 .. MaxCodes

VARIABLES
  purpose,   \* of a code
  age,       \* of a code: within the resend interval, within its life, past it
  sending,   \* for each purpose, the calls that found no recent code
  attempts,  \* attemptCount of a captcha
  open,      \* the captchas that exist and have not expired
  consumed,  \* the codes and captchas with a consumedAt
  req,       \* where a request stands, for which endpoint, and what it has
             \* looked up: a code, captcha or session; an attemptCount, a
             \* password or a refresh secret
  password,  \* the request that wrote passwordHash, None without an account
  session,   \* the session rows, by the request that created them
  secret,    \* whose secret refreshTokenHash is of
  used,      \* history: which request has used up which secret
  looked,    \* history: which requests held a secret when it was first used
  raced      \* history: the logins under way when a reset revoked the sessions

rows    == <<purpose, age, sending, attempts, open>>
account == <<password, session, secret, raced>>
uses    == <<consumed, used, looked>>
vars == <<rows, req, account, uses>>

Purpose == {"REGISTER", "LOGIN", "PASSWORD_RESET"}
Age     == {"none", "fresh", "live", "expired"}
Kind    == {"none", "register", "temporary", "code", "password", "reset", "refresh"}
Step    == {"idle", "consume", "create", "answer", "compare", "revoke", "open",
            "store", "cut", "rotate", "done", "failed"}
Secret  == Code \cup Captcha \cup Request
Call    == [at : Step, kind : Kind, holds : Secret \cup {None},
            saw : Secret \cup {None} \cup 0 .. MaxAttempts]

-----------------------------------------------------------------------------
(* createAndSendEmailCode                                                  *)

Newest(S) == CHOOSE c \in S : \A d \in S : d <= c
Unconsumed(p) == {c \in Code : age[c] # "none" /\ purpose[c] = p /\ c \notin consumed}

(* The bound on the rows counts those that are about to be created. *)
FreeCode == Cardinality({c \in Code : age[c] # "none"})
              + sending["REGISTER"] + sending["LOGIN"] + sending["PASSWORD_RESET"] < MaxCodes

(* The latest code that is not consumed is past the resend interval; a     *)
(* code for a reset is for an account with a password.                     *)
SendRead(p) ==
  /\ p = "PASSWORD_RESET" => password # None
  /\ Unconsumed(p) # {} => age[Newest(Unconsumed(p))] # "fresh"
  /\ FreeCode
  /\ sending' = [sending EXCEPT ![p] = @ + 1]
  /\ UNCHANGED <<purpose, age, attempts, open, req, account, uses>>

SendWrite(p, c) ==
  /\ sending[p] > 0
  /\ age[c] = "none" /\ \A d \in Code : d < c => age[d] # "none"
  /\ sending' = [sending EXCEPT ![p] = @ - 1]
  /\ purpose' = [purpose EXCEPT ![c] = p]
  /\ age' = [age EXCEPT ![c] = "fresh"]
  /\ UNCHANGED <<attempts, open, req, account, uses>>

(* The resend interval, and later the life of a code, passes; nobody looks *)
(* at the age of a code that is consumed.                                  *)
Grow(c) ==
  /\ age[c] \in {"fresh", "live"} /\ c \notin consumed
  /\ age' = [age EXCEPT ![c] = IF @ = "fresh" THEN "live" ELSE "expired"]
  /\ UNCHANGED <<purpose, sending, attempts, open, req, account, uses>>

-----------------------------------------------------------------------------
(* Steps that requests share                                               *)

Goto(r, step) == req' = [req EXCEPT ![r].at = step]

(* The request ends, with nothing that a later step depends on. *)
End(r, step) ==
  req' = [req EXCEPT ![r] = [at |-> step, kind |-> "none", holds |-> None, saw |-> None]]

(* A request of kind k looks up x, in which it reads y. *)
LookUp(r, k, x, y, step) ==
  /\ req[r].at = "idle"
  /\ req' = [req EXCEPT ![r] = [at |-> step, kind |-> k, holds |-> x, saw |-> y]]
  /\ UNCHANGED <<rows, account, uses>>

(* Those who have looked up a code, a captcha or a refresh secret and have *)
(* yet to use it.                                                          *)
Holders(x) == {r \in Request : \/ req[r].at \in {"consume", "answer"} /\ req[r].holds = x
                               \/ req[r].at = "rotate" /\ req[r].saw = x}

UseUp(x, r) ==
  /\ used' = used \cup {<<x, r>>}
  /\ looked' = IF \E q \in Request : <<x, q>> \in used THEN looked
               ELSE looked \cup {<<x, q>> : q \in Holders(x)}

-----------------------------------------------------------------------------
(* consumeEmailCode, in register, loginWithEmailCode, login, resetPassword *)

(* Mutant: consumed codes are found, too. *)
UsableConsumed(p) == {c \in Code : purpose[c] = p /\ age[c] \in {"fresh", "live"}}

Usable(p) == {c \in Unconsumed(p) : age[c] \in {"fresh", "live"}}

PurposeOf(k) == CASE k = "register" -> "REGISTER"
                  [] k = "code"     -> "LOGIN"
                  [] k = "reset"    -> "PASSWORD_RESET"

(* Only the newest usable code is compared with. *)
CodeRead(r, k) ==
  /\ (k = "register") = (password = None)
  /\ Usable(PurposeOf(k)) # {}
  /\ LookUp(r, k, Newest(Usable(PurposeOf(k))), None, "consume")

CodeConsume(r) ==
  /\ req[r].at = "consume"
  /\ Goto(r, CASE req[r].kind = "register" -> "create"
               [] req[r].kind = "code"     -> "revoke"
               [] req[r].kind = "reset"    -> "store")
  /\ consumed' = consumed \cup {req[r].holds}
  /\ UseUp(req[r].holds, r)
  /\ UNCHANGED <<rows, account>>

(* registerTemporary: no code. *)
TemporaryRead(r) == password = None /\ LookUp(r, "temporary", None, None, "create")

(* The e-mail address is unique. *)
CreateAccount(r) ==
  /\ req[r].at = "create" /\ password = None
  /\ Goto(r, "revoke")
  /\ password' = r
  /\ UNCHANGED <<rows, session, secret, raced, uses>>

-----------------------------------------------------------------------------
(* createTextCaptcha, consumeTextCaptcha, loginWithPassword, login         *)

CaptchaCreate(k) ==
  /\ k \notin open /\ attempts[k] = 0
  /\ open' = open \cup {k}
  /\ UNCHANGED <<purpose, age, sending, attempts, req, account, uses>>

(* A captcha that expires before it is answered is one never looked up. *)
CaptchaExpire(k) ==
  /\ k \in open /\ attempts[k] > 0
  /\ open' = open \ {k}
  /\ UNCHANGED <<purpose, age, sending, attempts, req, account, uses>>

CaptchaRead(r, k) ==
  /\ k \in open \ consumed /\ attempts[k] < MaxAttempts
  /\ LookUp(r, "password", k, attempts[k], "answer")

(* The count that was looked up is written back, one higher. *)
CountAttempt(r) == attempts' = [attempts EXCEPT ![req[r].holds] = req[r].saw + 1]

CaptchaWrong(r) ==
  /\ req[r].at = "answer"
  /\ End(r, "failed")
  /\ CountAttempt(r)
  /\ UNCHANGED <<purpose, age, sending, open, account, uses>>

CaptchaRight(r) ==
  /\ req[r].at = "answer"
  /\ Goto(r, "compare")
  /\ CountAttempt(r)
  /\ consumed' = consumed \cup {req[r].holds}
  /\ UseUp(req[r].holds, r)
  /\ UNCHANGED <<purpose, age, sending, open, account>>

(* The password is compared with the hash that is read here. *)
PasswordRead(r) ==
  /\ req[r].at = "compare" /\ password # None
  /\ req' = [req EXCEPT ![r] = [@ EXCEPT !.at = "revoke", !.saw = password]]
  /\ UNCHANGED <<rows, account, uses>>

(* The deprecated login asks for no captcha. *)
LegacyPasswordRead(r) == password # None /\ LookUp(r, "password", None, password, "revoke")

-----------------------------------------------------------------------------
(* issueSession, resetPassword, logout                                     *)

RevokeAll == session' = [s \in Request |-> IF session[s] = "live" THEN "dead" ELSE session[s]]

IssueRevoke(r) ==
  /\ req[r].at = "revoke"
  /\ Goto(r, "open")
  /\ RevokeAll
  /\ UNCHANGED <<rows, password, secret, raced, uses>>

IssueCreate(r) ==
  /\ req[r].at = "open"
  /\ Goto(r, "done")
  /\ session' = [session EXCEPT ![r] = "live"]
  /\ secret' = [secret EXCEPT ![r] = r]
  /\ UNCHANGED <<rows, password, raced, uses>>

LoginsUnderWay == {q \in Request : req[q].at \in {"revoke", "open"}}

ResetStore(r) ==
  /\ req[r].at = "store"
  /\ Goto(r, "cut")
  /\ password' = r
  /\ UNCHANGED <<rows, session, secret, raced, uses>>

(* Mutant: only the session of the request is revoked. *)
ResetOwn(r) ==
  /\ req[r].at = "cut"
  /\ End(r, "done")
  /\ session' = [session EXCEPT ![r] = "dead"]
  /\ raced' = [raced EXCEPT ![r] = LoginsUnderWay]
  /\ UNCHANGED <<rows, password, secret, uses>>

ResetRevoke(r) ==
  /\ req[r].at = "cut"
  /\ End(r, "done")
  /\ RevokeAll
  /\ raced' = [raced EXCEPT ![r] = LoginsUnderWay]
  /\ UNCHANGED <<rows, password, secret, uses>>

Logout(s) ==
  /\ session[s] = "live"
  /\ session' = [session EXCEPT ![s] = "dead"]
  /\ UNCHANGED <<rows, req, password, secret, raced, uses>>

-----------------------------------------------------------------------------
(* refresh                                                                 *)

(* A client presents the secret of a live session. *)
RefreshRead(r, s) == session[s] = "live" /\ LookUp(r, "refresh", s, secret[s], "rotate")

(* The new hash is written by id, whatever has become of the session. *)
RefreshWrite(r) ==
  /\ req[r].at = "rotate"
  /\ End(r, "done")
  /\ secret' = [secret EXCEPT ![req[r].holds] = r]
  /\ UseUp(req[r].saw, r)
  /\ UNCHANGED <<rows, password, session, raced, consumed>>

-----------------------------------------------------------------------------
(* A statement throws, or the unique e-mail address refuses the account. *)
Fail(r) ==
  /\ req[r].at \notin {"idle", "done", "failed"}
  /\ End(r, "failed")
  /\ UNCHANGED <<rows, account, uses>>

Init ==
  /\ purpose = [c \in Code |-> "LOGIN"]
  /\ age = [c \in Code |-> "none"]
  /\ sending = [p \in Purpose |-> 0]
  /\ attempts = [k \in Captcha |-> 0]
  /\ open = {} /\ consumed = {}
  /\ req = [r \in Request |-> [at |-> "idle", kind |-> "none", holds |-> None, saw |-> None]]
  /\ password = None
  /\ session = [r \in Request |-> "none"]
  /\ secret = [r \in Request |-> None]
  /\ used = {} /\ looked = {}
  /\ raced = [r \in Request |-> {}]

RowsNext ==
  \/ \E p \in Purpose, c \in Code : SendRead(p) \/ SendWrite(p, c) \/ Grow(c)
  \/ \E k \in Captcha : CaptchaCreate(k) \/ CaptchaExpire(k)

RequestNext(r) ==
  \/ \E k \in {"register", "code", "reset"} : CodeRead(r, k)
  \/ \E k \in Captcha : CaptchaRead(r, k)
  \/ CodeConsume(r) \/ TemporaryRead(r) \/ CreateAccount(r)
  \/ CaptchaWrong(r) \/ CaptchaRight(r) \/ PasswordRead(r) \/ LegacyPasswordRead(r)
  \/ IssueRevoke(r) \/ IssueCreate(r) \/ ResetStore(r) \/ ResetRevoke(r) \/ Logout(r)
  \/ \E s \in Request : RefreshRead(r, s)
  \/ RefreshWrite(r) \/ Fail(r)

Next == RowsNext \/ \E r \in Request : RequestNext(r)

Spec == Init /\ [][Next]_vars

-----------------------------------------------------------------------------
(* Properties                                                              *)

(* Every variable has its type; a captcha never counts more than the       *)
(* MaxAttempts wrong answers that consumeTextCaptcha admits.               *)
TypeOK ==
  /\ purpose \in [Code -> Purpose]
  /\ age \in [Code -> Age]
  /\ sending \in [Purpose -> 0 .. MaxCodes]
  /\ attempts \in [Captcha -> 0 .. MaxAttempts]
  /\ open \subseteq Captcha /\ consumed \subseteq Code \cup Captcha
  /\ req \in [Request -> Call]
  /\ password \in Request \cup {None}
  /\ session \in [Request -> {"none", "live", "dead"}]
  /\ secret \in [Request -> Request \cup {None}]
  /\ used \in SUBSET (Secret \X Request) /\ looked \in SUBSET (Secret \X Request)
  /\ raced \in [Request -> SUBSET Request]

(* An e-mail code, a captcha or a refresh token that is used again is used *)
(* by a request that had looked it up, or had been compared with it, before*)
(* the first use, and by no later one: consumeEmailCode, consumeTextCaptcha*)
(* and refresh look a secret up in one statement and use it up in another. *)
SecretUsesOverlap ==
  \A x \in Secret, r \in Request : <<x, r>> \in used => <<x, r>> \in looked

(* After resetPassword no session lives that was opened with a password    *)
(* from before, but for logins that were under way when it revoked the     *)
(* sessions, and for a reset that has yet to revoke them, or failed to.    *)
OldPasswordSessionsRaced ==
  \A s \in Request : session[s] = "live" /\ req[s].kind = "password" /\ req[s].saw # password =>
    req[password].at \in {"cut", "failed"} \/ s \in raced[password]
=============================================================================
