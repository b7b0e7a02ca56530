------------------------- MODULE CredentialsProofs -------------------------
(***************************************************************************)
(* Proofs about Credentials, for every set of requests and captchas and    *)
(* every limit.  TInv are the types and what a request has looked up; SInv *)
(* says what keeps a secret that has been used up from being found again;  *)
(* PInv relates the logins with a password to who wrote it.  TInv is       *)
(* inductive, and so are SInv and PInv where it holds.  LoginInv is that   *)
(* of the pages of the client, for any number of calls.                    *)
(***************************************************************************)
EXTENDS SignIns, FiniteSetTheorems, WellFoundedInduction, TLAPS

UsedUp(x) == \E q \in Request : <<x, q>> \in used

(* What a request has looked up is of the right kind. *)
HoldersHold ==
  \A r \in Request :
    /\ req[r].at = "consume" =>
         req[r].holds \in Code /\ req[r].kind \in {"register", "code", "reset"}
    /\ req[r].at = "answer"  => req[r].holds \in Captcha /\ req[r].saw \in 0 .. MaxAttempts - 1
    /\ req[r].at = "rotate"  => req[r].holds \in Request /\ req[r].saw \in Request

(* A session has a refresh secret. *)
SessionsHaveSecrets == \A s \in Request : session[s] # "none" => secret[s] \in Request

(* The types, and what a request may rely on. *)
TInv == TypeOK /\ HoldersHold /\ SessionsHaveSecrets

(* The request whose refresh secret a session has, has ended. *)
SecretsAreMade == \A s \in Request : secret[s] # None => req[secret[s]].at = "done"

(* Two sessions never share a refresh secret. *)
SecretsAreApart ==
  \A s, t \in Request : secret[s] = secret[t] /\ secret[s] # None => s = t

(* A refresh under way was compared with a secret that only its session    *)
(* can have.                                                               *)
RotatesKnow ==
  \A r \in Request : req[r].at = "rotate" =>
    /\ req[req[r].saw].at = "done"
    /\ \A s \in Request : secret[s] = req[r].saw => s = req[r].holds

(* A secret that was used up is not found again. *)
UsedIsOver ==
  /\ \A x \in Code \cup Captcha : UsedUp(x) => x \in consumed
  /\ \A x \in Request : UsedUp(x) => req[x].at = "done" /\ \A s \in Request : secret[s] # x

(* Who still holds a secret that was used up held it at the first use. *)
HoldersLooked ==
  \A x \in Secret, r \in Request : UsedUp(x) /\ r \in Holders(x) => <<x, r>> \in looked

(* What is known about secrets. *)
SInv ==
  /\ SecretsAreMade
  /\ SecretsAreApart
  /\ RotatesKnow
  /\ UsedIsOver
  /\ HoldersLooked
  /\ SecretUsesOverlap

(* A request has ended once its session exists. *)
SessionsAreOpened == \A s \in Request : session[s] # "none" => req[s].at = "done"

(* An account is created by a registration. *)
CreatorsRegister ==
  \A r \in Request : req[r].at = "create" => req[r].kind \in {"register", "temporary"}

(* Who wrote the password is past the statement that writes it. *)
WriterHasWritten ==
  password # None => req[password].at \in {"revoke", "open", "cut", "done", "failed"}

(* A login that got in with an earlier password raced the reset that wrote *)
(* the present one, unless the reset has not revoked the sessions.         *)
StaleLoginsRaced ==
  \A s \in Request : req[s].kind = "password" /\ req[s].at \in {"revoke", "open", "done"} =>
    /\ password # None
    /\ req[s].saw # password /\ (req[s].at = "done" => session[s] = "live") =>
         req[password].at \in {"cut", "failed"} \/ s \in raced[password]

(* What is known about passwords. *)
PInv == SessionsAreOpened /\ CreatorsRegister /\ WriterHasWritten /\ StaleLoginsRaced

-----------------------------------------------------------------------------
(* Lemmas                                                                  *)

(* A code is a number, and neither a captcha nor a request.                *)
LEMMA SecretsAreDistinct ==
  /\ Code \cap Captcha = {} /\ Code \cap Request = {} /\ Captcha \cap Request = {}
  /\ None \notin Secret
  BY NoneAssumption, KindAssumption, BoundAssumption DEF Code, Secret

(* The newest of some codes is one of them.                                *)
LEMMA NewestIsOne ==
  ASSUME NEW S \in SUBSET Code, S # {}
  PROVE  Newest(S) \in S
<1> DEFINE Less  == OpToRel(<, Nat)
           Below == {MaxCodes - c : c \in S}
<1>1. IsWellFoundedOn(Less, Nat)
  BY NatLessThanWellFounded
<1>2. \A i, j \in Nat : <<i, j>> \in Less <=> i < j
  BY DEF OpToRel
<1> HIDE DEF Less
<1>3. Below \subseteq Nat /\ Below # {}
  <2>1. Below \subseteq Nat
    BY BoundAssumption DEF Code
  <2>2. PICK c \in S : TRUE
    OBVIOUS
  <2>3. MaxCodes - c \in Below
    OBVIOUS
  <2>4. QED BY <2>1, <2>3
<1>4. PICK m \in Below : \A n \in Below : ~ (<<n, m>> \in Less)
  <2> HIDE DEF Below
  <2>1. QED BY <1>1, <1>3, WFMin
<1>5. PICK c \in S : m = MaxCodes - c
  OBVIOUS
<1>6. ASSUME NEW d \in S PROVE d <= c
  <2>1. MaxCodes - d \in Below
    OBVIOUS
  <2>2. ~ (MaxCodes - d < m)
    BY <1>2, <1>3, <1>4, <2>1
  <2>3. QED BY <1>5, <2>2, BoundAssumption DEF Code
<1>7. QED BY <1>6 DEF Newest

-----------------------------------------------------------------------------
(* Type correctness                                                        *)

(* Using a secret up keeps the two histories.                              *)
LEMMA UsesAreTyped ==
  ASSUME TypeOK, NEW x \in Secret, NEW r \in Request, UseUp(x, r)
  PROVE  used' \in SUBSET (Secret \X Request) /\ looked' \in SUBSET (Secret \X Request)
<1>1. Holders(x) \subseteq Request
  BY DEF Holders
<1> DEFINE held == {<<x, q>> : q \in Holders(x)}
<1>2. held \in SUBSET (Secret \X Request)
  BY <1>1
<1>3. looked' \in {looked, looked \cup held} /\ used' = used \cup {<<x, r>>}
  BY DEF UseUp
<1> HIDE DEF held
<1>4. QED BY <1>2, <1>3 DEF TypeOK

(* A step of Next keeps the types and what goes with them.                 *)
LEMMA TypesAreKept == TInv /\ [Next]_vars => TInv'
<1> SUFFICES ASSUME TInv, [Next]_vars PROVE TInv'
  OBVIOUS
<1> USE NoneAssumption, KindAssumption, BoundAssumption
<1> USE DEF TInv, TypeOK, HoldersHold, SessionsHaveSecrets, Purpose, Age, Kind, Step, Secret, Call
<1>1. ASSUME NEW p \in Purpose, SendRead(p) PROVE TInv'
  <2> DEFINE S == {c \in Code : age[c] # "none"}
  <2>1. Cardinality(S) \in Nat
    <3>1. IsFiniteSet(Code)
      BY FS_Interval DEF Code
    <3>2. S \subseteq Code
      OBVIOUS
    <3> HIDE DEF S
    <3>3. QED BY <3>1, <3>2, FS_Subset, FS_CardinalityType
  <2>2. sending[p] + 1 \in 0 .. MaxCodes
    BY <1>1, <2>1 DEF SendRead, FreeCode
  <2>3. QED BY <1>1, <2>2 DEF SendRead, account, uses
<1>2. ASSUME NEW p \in Purpose, NEW c \in Code, SendWrite(p, c) PROVE TInv'
  BY <1>2 DEF SendWrite, uses, account
<1>3. ASSUME NEW c \in Code, Grow(c) PROVE TInv'
  BY <1>3 DEF Grow, uses, account
<1>4. ASSUME NEW k \in Captcha, CaptchaCreate(k) PROVE TInv'
  BY <1>4 DEF CaptchaCreate, uses, account
<1>5. ASSUME NEW k \in Captcha, CaptchaExpire(k) PROVE TInv'
  BY <1>5 DEF CaptchaExpire, uses, account
<1>6. ASSUME NEW r \in Request, NEW k \in {"register", "code", "reset"}, CodeRead(r, k) PROVE TInv'
  <2> DEFINE c == Newest(Usable(PurposeOf(k)))
  <2>1. c \in Code
    <3>1. Usable(PurposeOf(k)) \in SUBSET Code /\ Usable(PurposeOf(k)) # {}
      BY <1>6 DEF CodeRead, Usable, Unconsumed
    <3>2. QED BY <3>1, NewestIsOne
  <2> HIDE DEF c
  <2>2. LookUp(r, k, c, None, "consume")
    BY <1>6 DEF CodeRead, c
  <2>3. QED BY <2>1, <2>2 DEF LookUp, rows, account, uses
<1>7. ASSUME NEW r \in Request, NEW k \in Captcha, CaptchaRead(r, k) PROVE TInv'
  BY <1>7 DEF CaptchaRead, LookUp, uses, account, rows
<1>8. ASSUME NEW r \in Request, CodeConsume(r) PROVE TInv'
  <2>1. used' \in SUBSET (Secret \X Request) /\ looked' \in SUBSET (Secret \X Request)
    BY <1>8, UsesAreTyped DEF CodeConsume
  <2>2. req' \in [Request -> Call] /\ consumed' \in SUBSET (Code \cup Captcha)
    BY <1>8 DEF CodeConsume, Goto
  <2>3. HoldersHold'
    BY <1>8 DEF CodeConsume, Goto
  <2>4. QED BY <1>8, <2>1, <2>2, <2>3 DEF CodeConsume, rows, account
<1>9. ASSUME NEW r \in Request, TemporaryRead(r) PROVE TInv'
  BY <1>9 DEF TemporaryRead, LookUp, uses, account, rows
<1>10. ASSUME NEW r \in Request, CreateAccount(r) PROVE TInv'
  BY <1>10 DEF CreateAccount, uses, rows, Goto
<1>11. ASSUME NEW r \in Request, CaptchaWrong(r) PROVE TInv'
  BY <1>11 DEF CaptchaWrong, uses, account, CountAttempt, End
<1>12. ASSUME NEW r \in Request, CaptchaRight(r) PROVE TInv'
  <2>1. used' \in SUBSET (Secret \X Request) /\ looked' \in SUBSET (Secret \X Request)
    BY <1>12, UsesAreTyped DEF CaptchaRight
  <2>2. req' \in [Request -> Call] /\ consumed' \in SUBSET (Code \cup Captcha)
    BY <1>12 DEF CaptchaRight, Goto
  <2>3. attempts' \in [Captcha -> 0 .. MaxAttempts]
    BY <1>12 DEF CaptchaRight, CountAttempt
  <2>4. HoldersHold'
    BY <1>12 DEF CaptchaRight, Goto
  <2>5. QED BY <1>12, <2>1, <2>2, <2>3, <2>4 DEF CaptchaRight, account
<1>13. ASSUME NEW r \in Request, PasswordRead(r) PROVE TInv'
  <2> DEFINE c == [req[r] EXCEPT !.at = "revoke", !.saw = password]
  <2>1. c \in Call /\ c.at = "revoke"
    <3>1. password \in Request /\ req[r] \in Call
      BY <1>13 DEF PasswordRead
    <3>2. QED BY <3>1
  <2>2. req' = [req EXCEPT ![r] = c]
    BY <1>13 DEF PasswordRead
  <2>3. req[r].at = "compare" /\ UNCHANGED <<rows, account, uses>>
    BY <1>13 DEF PasswordRead
  <2> HIDE DEF c
  <2>4. QED BY <2>3, <2>1, <2>2 DEF rows, account, uses
<1>14. ASSUME NEW r \in Request, LegacyPasswordRead(r) PROVE TInv'
  BY <1>14 DEF LegacyPasswordRead, LookUp, uses, account, rows
<1>15. ASSUME NEW r \in Request, IssueRevoke(r) PROVE TInv'
  BY <1>15 DEF IssueRevoke, uses, rows, RevokeAll, Goto
<1>16. ASSUME NEW r \in Request, IssueCreate(r) PROVE TInv'
  BY <1>16 DEF IssueCreate, uses, rows, Goto
<1>17. ASSUME NEW r \in Request, ResetStore(r) PROVE TInv'
  BY <1>17 DEF ResetStore, uses, rows, Goto
<1>18. ASSUME NEW r \in Request, ResetRevoke(r) PROVE TInv'
  BY <1>18 DEF ResetRevoke, LoginsUnderWay, uses, rows, RevokeAll, End
<1>19. ASSUME NEW r \in Request, Logout(r) PROVE TInv'
  BY <1>19 DEF Logout, uses, rows
<1>20. ASSUME NEW r \in Request, NEW s \in Request, RefreshRead(r, s) PROVE TInv'
  BY <1>20 DEF RefreshRead, LookUp, uses, account, rows
<1>21. ASSUME NEW r \in Request, RefreshWrite(r) PROVE TInv'
  <2>1. used' \in SUBSET (Secret \X Request) /\ looked' \in SUBSET (Secret \X Request)
    BY <1>21, UsesAreTyped DEF RefreshWrite
  <2>2. req' \in [Request -> Call]
    BY <1>21 DEF RefreshWrite, End
  <2>3. HoldersHold'
    BY <1>21 DEF RefreshWrite, End
  <2>4. secret' \in [Request -> Request \cup {None}] /\ SessionsHaveSecrets'
    BY <1>21 DEF RefreshWrite
  <2>5. QED BY <1>21, <2>1, <2>2, <2>3, <2>4 DEF RefreshWrite, rows
<1>22. ASSUME NEW r \in Request, Fail(r) PROVE TInv'
  BY <1>22 DEF Fail, uses, account, rows, End
<1>23. CASE UNCHANGED vars
  BY <1>23 DEF vars, rows, account, uses, Holders
<1>24. QED
  <2>1. CASE RowsNext
    BY <2>1, <1>1, <1>2, <1>3, <1>4, <1>5 DEF RowsNext
  <2>2. ASSUME NEW r \in Request, RequestNext(r) PROVE TInv'
    BY <2>2, <1>6, <1>7, <1>8, <1>9, <1>10, <1>11, <1>12, <1>13, <1>14, <1>15,
      <1>16, <1>17, <1>18, <1>19, <1>20, <1>21, <1>22
    DEF RequestNext
  <2>3. QED BY <2>1, <2>2, <1>23 DEF Next

-----------------------------------------------------------------------------
(* Secrets                                                                 *)

(* In the initial state nothing has been looked up or used.                *)
LEMMA InitEstablishes == Init => TInv /\ SInv
<1> SUFFICES ASSUME Init PROVE TInv /\ SInv
  OBVIOUS
<1> USE NoneAssumption, KindAssumption, BoundAssumption
<1>1. TypeOK
  BY DEF Init, TypeOK, Purpose, Age, Kind, Step, Secret, Call
<1>2. HoldersHold /\ SessionsHaveSecrets
  BY DEF Init, HoldersHold, SessionsHaveSecrets
<1>3. SInv
  BY DEF Init, SInv, SecretsAreMade, SecretsAreApart, RotatesKnow, UsedIsOver, HoldersLooked,
         SecretUsesOverlap, UsedUp
<1>4. QED BY <1>1, <1>2, <1>3 DEF TInv

(* A step of one request that uses nothing up keeps the secrets, if what   *)
(* it has looked up has not been used up.                                  *)
LEMMA StepAside ==
  ASSUME TInv, SInv, NEW r \in Request, req[r].at # "done",
         \A q \in Request \ {r} : req'[q] = req[q],
         UNCHANGED <<secret, consumed, used, looked>>,
         \A x \in Secret : r \in Holders(x)' => ~ UsedUp(x),
         req'[r].at = "rotate" =>
           /\ req[req'[r].saw].at = "done" /\ req'[r].saw \in Request
           /\ \A s \in Request : secret[s] = req'[r].saw => s = req'[r].holds
  PROVE  SInv'
<1>1. SecretsAreMade'
  BY DEF SInv, SecretsAreMade, TInv, TypeOK
<1>2. SecretsAreApart'
  BY DEF SInv, SecretsAreApart
<1>3. RotatesKnow'
  BY DEF SInv, RotatesKnow, TInv, HoldersHold
<1>4. UsedIsOver'
  BY DEF SInv, UsedIsOver, UsedUp
<1>5. HoldersLooked'
  <2> SUFFICES ASSUME NEW x \in Secret, NEW q \in Request, UsedUp(x), q \in Holders(x)'
               PROVE  <<x, q>> \in looked
    BY DEF HoldersLooked, UsedUp
  <2>1. q \in Holders(x)
    BY DEF Holders
  <2>2. QED BY <2>1 DEF SInv, HoldersLooked
<1>6. SecretUsesOverlap'
  BY DEF SInv, SecretUsesOverlap
<1>7. QED BY <1>1, <1>2, <1>3, <1>4, <1>5, <1>6 DEF SInv

(* The same for a step that looks nothing up.                              *)
LEMMA StepOn ==
  ASSUME TInv, SInv, NEW r \in Request, req[r].at # "done",
         \A q \in Request \ {r} : req'[q] = req[q],
         UNCHANGED <<secret, consumed, used, looked>>,
         req'[r].at \notin {"consume", "answer", "rotate"}
  PROVE  SInv'
<1>1. \A x \in Secret : r \notin Holders(x)'
  BY DEF Holders
<1>2. QED BY <1>1, StepAside

(* Whoever uses a secret up held it at its first use.                      *)
LEMMA UseIsLooked ==
  ASSUME TInv, SInv, NEW x \in Secret, NEW r \in Holders(x), UseUp(x, r),
         \A q \in Request \ {r} : req'[q] = req[q],
         req'[r].at \notin {"consume", "answer", "rotate"}
  PROVE  HoldersLooked' /\ SecretUsesOverlap'
<1>1. r \in Request
  BY DEF Holders
<1>2. \A y \in Secret : Holders(y)' \subseteq Holders(y)
  BY <1>1 DEF Holders
<1>3. used' = used \cup {<<x, r>>} /\ looked \subseteq looked'
  BY DEF UseUp
<1>4. \A q \in Holders(x) : <<x, q>> \in looked'
  <2>1. CASE UsedUp(x)
    BY <2>1, <1>3 DEF SInv, HoldersLooked, Holders
  <2>2. CASE ~ UsedUp(x)
    BY <2>2 DEF UseUp, UsedUp
  <2>3. QED BY <2>1, <2>2
<1>5. HoldersLooked'
  <2> SUFFICES ASSUME NEW y \in Secret, NEW q \in Request, UsedUp(y)', q \in Holders(y)'
               PROVE  <<y, q>> \in looked'
    BY DEF HoldersLooked
  <2>1. UsedUp(y) \/ y = x
    BY <1>3 DEF UsedUp
  <2>2. q \in Holders(y)
    BY <1>2
  <2>3. QED BY <2>1, <2>2, <1>3, <1>4 DEF SInv, HoldersLooked
<1>6. SecretUsesOverlap'
  BY <1>3, <1>4 DEF SInv, SecretUsesOverlap
<1>7. QED BY <1>5, <1>6

(* A code or captcha is used up.                                           *)
LEMMA ConsumeAside ==
  ASSUME TInv, SInv, NEW r \in Request, NEW x \in Code \cup Captcha, r \in Holders(x),
         req[r].at \in {"consume", "answer"}, UseUp(x, r),
         \A q \in Request \ {r} : req'[q] = req[q],
         req'[r].at \notin {"consume", "answer", "rotate"},
         consumed' = consumed \cup {x}, UNCHANGED secret
  PROVE  SInv'
<1>1. x \in Secret /\ x \notin Request
  BY SecretsAreDistinct DEF Secret
<1>2. HoldersLooked' /\ SecretUsesOverlap'
  BY <1>1, UseIsLooked
<1>3. \A y \in Secret : UsedUp(y)' => UsedUp(y) \/ y = x
  BY DEF UseUp, UsedUp
<1>4. SecretsAreMade' /\ SecretsAreApart'
  BY DEF SInv, SecretsAreMade, SecretsAreApart, TInv, TypeOK
<1>5. RotatesKnow'
  BY DEF SInv, RotatesKnow, TInv, HoldersHold
<1>6. UsedIsOver'
  BY <1>1, <1>3 DEF SInv, UsedIsOver, Secret
<1>7. QED BY <1>2, <1>4, <1>5, <1>6 DEF SInv

(* A step of Next keeps what is known about the secrets.                   *)
LEMMA SecretsAreKept == TInv /\ SInv /\ [Next]_vars => SInv'
<1> SUFFICES ASSUME TInv, SInv, [Next]_vars PROVE SInv'
  OBVIOUS
<1> USE NoneAssumption, KindAssumption, BoundAssumption
<1>1. ASSUME UNCHANGED <<req, secret, uses>> PROVE SInv'
  BY <1>1 DEF SInv, SecretsAreMade, SecretsAreApart, RotatesKnow, UsedIsOver, HoldersLooked,
              SecretUsesOverlap, UsedUp, Holders, uses
<1>2. CASE RowsNext
  BY <1>1, <1>2 DEF RowsNext, SendRead, SendWrite, Grow, CaptchaCreate, CaptchaExpire, account
<1>3. ASSUME NEW r \in Request, NEW k \in {"register", "code", "reset"}, CodeRead(r, k)
      PROVE  SInv'
  <2> DEFINE c == Newest(Usable(PurposeOf(k)))
  <2>1. c \in Usable(PurposeOf(k))
    BY <1>3, NewestIsOne DEF CodeRead, Usable, Unconsumed
  <2> HIDE DEF c
  <2>2. LookUp(r, k, c, None, "consume")
    BY <1>3 DEF CodeRead, c
  <2>3. ~ UsedUp(c)
    BY <2>1 DEF SInv, UsedIsOver, Usable, Unconsumed
  <2>4. /\ req[r].at # "done" /\ req'[r].at = "consume" /\ req'[r].holds = c
        /\ \A q \in Request \ {r} : req'[q] = req[q]
        /\ UNCHANGED <<secret, consumed, used, looked>>
    BY <2>2 DEF LookUp, account, uses, TInv, TypeOK
  <2>5. \A x \in Secret : r \in Holders(x)' => x = c
    BY <2>4 DEF Holders
  <2>6. QED BY <2>3, <2>4, <2>5, StepAside
<1>4. ASSUME NEW r \in Request, NEW k \in Captcha, CaptchaRead(r, k) PROVE SInv'
  <2>1. ~ UsedUp(k)
    BY <1>4 DEF CaptchaRead, SInv, UsedIsOver
  <2>2. /\ req[r].at # "done" /\ req'[r].at = "answer" /\ req'[r].holds = k
        /\ \A q \in Request \ {r} : req'[q] = req[q]
        /\ UNCHANGED <<secret, consumed, used, looked>>
    BY <1>4 DEF CaptchaRead, LookUp, account, uses, TInv, TypeOK
  <2>3. \A x \in Secret : r \in Holders(x)' => x = k
    BY <2>2 DEF Holders
  <2>4. QED BY <2>1, <2>2, <2>3, StepAside
<1>5. ASSUME NEW r \in Request, NEW s \in Request, RefreshRead(r, s) PROVE SInv'
  <2>1. secret[s] \in Request
    BY <1>5 DEF RefreshRead, TInv, SessionsHaveSecrets
  <2>2. /\ ~ UsedUp(secret[s]) /\ req[secret[s]].at = "done"
        /\ \A t \in Request : secret[t] = secret[s] => t = s
    BY <2>1 DEF SInv, UsedIsOver, SecretsAreMade, SecretsAreApart
  <2>3. /\ req[r].at # "done" /\ req'[r].at = "rotate"
        /\ req'[r].holds = s /\ req'[r].saw = secret[s]
        /\ \A q \in Request \ {r} : req'[q] = req[q]
        /\ UNCHANGED <<secret, consumed, used, looked>>
    BY <1>5 DEF RefreshRead, LookUp, account, uses, TInv, TypeOK
  <2>4. \A x \in Secret : r \in Holders(x)' => x = secret[s]
    BY <2>3 DEF Holders
  <2>5. QED BY <2>1, <2>2, <2>3, <2>4, StepAside
<1>6. ASSUME NEW r \in Request, CodeConsume(r) PROVE SInv'
  <2> DEFINE x == req[r].holds
  <2>1. x \in Code /\ req[r].at = "consume" /\ req[r].kind \in {"register", "code", "reset"}
    BY <1>6 DEF CodeConsume, TInv, HoldersHold
  <2>2. /\ UseUp(x, r) /\ consumed' = consumed \cup {x} /\ UNCHANGED secret
        /\ r \in Holders(x)
    BY <1>6, <2>1 DEF CodeConsume, account, Holders
  <2>3. /\ req'[r].at \in {"create", "revoke", "store"}
        /\ \A q \in Request \ {r} : req'[q] = req[q]
    BY <1>6, <2>1 DEF CodeConsume, Goto, TInv, TypeOK, Call
  <2> HIDE DEF x
  <2>4. QED BY <2>1, <2>2, <2>3, ConsumeAside
<1>7. ASSUME NEW r \in Request, CaptchaRight(r) PROVE SInv'
  <2> DEFINE x == req[r].holds
  <2>1. x \in Captcha /\ req[r].at = "answer"
    BY <1>7 DEF CaptchaRight, TInv, HoldersHold
  <2>2. /\ UseUp(x, r) /\ consumed' = consumed \cup {x} /\ UNCHANGED secret
        /\ r \in Holders(x)
    BY <1>7, <2>1 DEF CaptchaRight, account, Holders
  <2>3. /\ req'[r].at = "compare"
        /\ \A q \in Request \ {r} : req'[q] = req[q]
    BY <1>7, <2>1 DEF CaptchaRight, Goto, TInv, TypeOK, Call
  <2> HIDE DEF x
  <2>4. QED BY <2>1, <2>2, <2>3, ConsumeAside
<1>8. ASSUME NEW r \in Request, IssueCreate(r) PROVE SInv'
  <2>1. /\ req[r].at = "open" /\ req'[r].at = "done"
        /\ \A q \in Request \ {r} : req'[q] = req[q]
        /\ secret' = [secret EXCEPT ![r] = r] /\ UNCHANGED <<consumed, used, looked>>
    BY <1>8 DEF IssueCreate, Goto, uses, TInv, TypeOK, Call
  <2>2. /\ \A s \in Request : secret[s] # r
        /\ ~ UsedUp(r)
        /\ \A q \in Request : req[q].at = "rotate" => req[q].saw # r
    BY <2>1 DEF SInv, SecretsAreMade, UsedIsOver, RotatesKnow
  <2>3. secret \in [Request -> Request \cup {None}]
    BY DEF TInv, TypeOK
  <2>4. SecretsAreMade' /\ SecretsAreApart'
    BY <2>1, <2>2, <2>3 DEF SInv, SecretsAreMade, SecretsAreApart
  <2>5. RotatesKnow'
    BY <2>1, <2>2, <2>3 DEF SInv, RotatesKnow, TInv, HoldersHold
  <2>6. UsedIsOver'
    BY <2>1, <2>2, <2>3 DEF SInv, UsedIsOver, UsedUp
  <2>7. HoldersLooked' /\ SecretUsesOverlap'
    BY <2>1 DEF SInv, HoldersLooked, SecretUsesOverlap, Holders, UsedUp
  <2>8. QED BY <2>4, <2>5, <2>6, <2>7 DEF SInv
<1>9. ASSUME NEW r \in Request, RefreshWrite(r) PROVE SInv'
  <2> DEFINE x == req[r].saw
             s == req[r].holds
  <2>1. /\ req[r].at = "rotate" /\ x \in Request /\ s \in Request /\ r \in Holders(x)
        /\ UseUp(x, r)
    BY <1>9 DEF RefreshWrite, TInv, HoldersHold, Holders
  <2>2. /\ req'[r].at = "done"
        /\ \A q \in Request \ {r} : req'[q] = req[q]
        /\ secret' = [secret EXCEPT ![s] = r] /\ UNCHANGED consumed
    BY <1>9 DEF RefreshWrite, End, TInv, TypeOK
  <2>3. req[x].at = "done" /\ \A t \in Request : secret[t] = x => t = s
    BY <2>1 DEF SInv, RotatesKnow
  <2> HIDE DEF x, s
  <2>4. /\ \A t \in Request : secret[t] # r
        /\ \A q \in Request : req[q].at = "rotate" => req[q].saw # r
    BY <2>1 DEF SInv, SecretsAreMade, RotatesKnow
  <2>5. secret \in [Request -> Request \cup {None}]
    BY DEF TInv, TypeOK
  <2>6. SecretsAreMade' /\ SecretsAreApart'
    BY <2>1, <2>2, <2>4, <2>5 DEF SInv, SecretsAreMade, SecretsAreApart
  <2>7. RotatesKnow'
    BY <2>1, <2>2, <2>4, <2>5 DEF SInv, RotatesKnow, TInv, HoldersHold
  <2>8. \A y : UsedUp(y)' => UsedUp(y) \/ y = x
    BY <2>1 DEF UseUp, UsedUp
  <2>9. UsedIsOver'
    <3>1. \A y \in Code \cup Captcha : UsedUp(y)' => y \in consumed'
      BY <2>1, <2>2, <2>8, SecretsAreDistinct DEF SInv, UsedIsOver
    <3>2. ASSUME NEW y \in Request, UsedUp(y)'
          PROVE  req'[y].at = "done" /\ \A t \in Request : secret'[t] # y
      <4>1. /\ req[y].at = "done" /\ y # r
            /\ \A t \in Request : secret[t] = y => t = s
        BY <2>1, <2>3, <2>8, <3>2 DEF SInv, UsedIsOver
      <4>2. QED BY <4>1, <2>1, <2>2, <2>5
    <3>3. QED BY <3>1, <3>2 DEF UsedIsOver
  <2>10. HoldersLooked' /\ SecretUsesOverlap'
    BY <2>1, <2>2, UseIsLooked DEF Secret
  <2>11. QED BY <2>6, <2>7, <2>9, <2>10 DEF SInv
<1>10. ASSUME NEW r \in Request, Logout(r) PROVE SInv'
  BY <1>1, <1>10 DEF Logout
<1>11. ASSUME NEW r \in Request,
              \/ TemporaryRead(r) \/ CreateAccount(r) \/ CaptchaWrong(r)
              \/ PasswordRead(r) \/ LegacyPasswordRead(r) \/ IssueRevoke(r)
              \/ ResetStore(r) \/ ResetRevoke(r) \/ Fail(r)
       PROVE  SInv'
  <2>1. req \in [Request -> Call]
    BY DEF TInv, TypeOK
  <2>2. /\ req[r].at # "done"
        /\ req'[r].at \notin {"consume", "answer", "rotate"}
        /\ \A q \in Request \ {r} : req'[q] = req[q]
    <3>1. CASE CreateAccount(r) \/ IssueRevoke(r) \/ ResetStore(r)
      BY <3>1, <2>1 DEF CreateAccount, IssueRevoke, ResetStore, Goto, Call
    <3>2. CASE CaptchaWrong(r) \/ ResetRevoke(r) \/ Fail(r)
      BY <3>2, <2>1 DEF CaptchaWrong, ResetRevoke, Fail, End
    <3>3. CASE TemporaryRead(r) \/ LegacyPasswordRead(r)
      BY <3>3, <2>1 DEF TemporaryRead, LegacyPasswordRead, LookUp
    <3>4. CASE PasswordRead(r)
      <4>1. req[r] \in Call
        BY <2>1
      <4>2. QED BY <3>4, <2>1, <4>1 DEF PasswordRead, Call
    <3>5. QED BY <1>11, <3>1, <3>2, <3>3, <3>4
  <2>3. UNCHANGED <<secret, consumed, used, looked>>
    BY <1>11 DEF TemporaryRead, CreateAccount, CaptchaWrong, PasswordRead,
         LegacyPasswordRead, IssueRevoke, ResetStore, ResetRevoke, Fail, LookUp, account, uses
  <2>4. QED BY <2>2, <2>3, StepOn
<1>12. CASE UNCHANGED vars
  BY <1>1, <1>12 DEF vars, account
<1>13. QED
  <2>1. ASSUME NEW r \in Request, RequestNext(r) PROVE SInv'
    BY <2>1, <1>3, <1>4, <1>5, <1>6, <1>7, <1>8, <1>9, <1>10, <1>11 DEF RequestNext
  <2>2. QED BY <2>1, <1>2, <1>12 DEF Next

-----------------------------------------------------------------------------
(* Theorems                                                                *)

(* Every variable has its type; in particular attemptCount never exceeds   *)
(* TEXT_CAPTCHA_MAX_ATTEMPTS, however many answers are under way at once.  *)
THEOREM TypeCorrect == Spec => []TypeOK
<1>1. Init => TInv
  BY InitEstablishes
<1>2. TInv /\ [Next]_vars => TInv'
  BY TypesAreKept
<1>3. TInv => TypeOK
  BY DEF TInv
<1>4. QED BY <1>1, <1>2, <1>3, PTL DEF Spec

(* A code, a captcha or a refresh token is used more than once only by     *)
(* requests that had all looked it up before the first of them used it.    *)
THEOREM SecretsAreUsedOnceOrTogether == Spec => []SecretUsesOverlap
<1>1. Init => TInv /\ SInv
  BY InitEstablishes
<1>2. TInv /\ SInv /\ [Next]_vars => (TInv /\ SInv)'
  BY TypesAreKept, SecretsAreKept
<1>3. TInv /\ SInv => SecretUsesOverlap
  BY DEF SInv
<1>4. QED BY <1>1, <1>2, <1>3, PTL DEF Spec

-----------------------------------------------------------------------------
(* Passwords                                                               *)

(* A step of Next keeps what is known about logins and the password.       *)
LEMMA PasswordsAreKept == TInv /\ PInv /\ [Next]_vars => PInv'
<1> SUFFICES ASSUME TInv, PInv, [Next]_vars PROVE PInv'
  OBVIOUS
<1>1. /\ req \in [Request -> Call] /\ password \in Request \cup {None}
      /\ session \in [Request -> {"none", "live", "dead"}]
      /\ raced \in [Request -> SUBSET Request]
      /\ None \notin Request
  BY NoneAssumption DEF TInv, TypeOK
<1> USE DEF PInv, SessionsAreOpened, CreatorsRegister, WriterHasWritten, StaleLoginsRaced
<1>2. ASSUME UNCHANGED <<req, password, session, raced>> PROVE PInv'
  BY <1>2
<1>3. CASE RowsNext
  BY <1>2, <1>3 DEF RowsNext, SendRead, SendWrite, Grow, CaptchaCreate, CaptchaExpire, account
<1>4. ASSUME NEW r \in Request, NEW k \in {"register", "code", "reset"}, CodeRead(r, k) PROVE PInv'
  BY <1>1, <1>4 DEF CodeRead, LookUp, account, Call
<1>5. ASSUME NEW r \in Request, NEW k \in Captcha, CaptchaRead(r, k) PROVE PInv'
  BY <1>1, <1>5 DEF CaptchaRead, LookUp, account, Call
<1>6. ASSUME NEW r \in Request, CodeConsume(r) PROVE PInv'
  <2>1. req[r].at = "consume" /\ req[r].kind \in {"register", "code", "reset"}
    BY <1>6 DEF CodeConsume, TInv, HoldersHold
  <2>2. QED BY <1>1, <1>6, <2>1 DEF CodeConsume, account, Goto, Call
<1>7. ASSUME NEW r \in Request, TemporaryRead(r) PROVE PInv'
  BY <1>1, <1>7 DEF TemporaryRead, LookUp, account, Call
<1>8. ASSUME NEW r \in Request, CreateAccount(r) PROVE PInv'
  BY <1>1, <1>8 DEF CreateAccount, Goto, Call
<1>9. ASSUME NEW r \in Request, CaptchaWrong(r) PROVE PInv'
  BY <1>1, <1>9 DEF CaptchaWrong, account, End, Call
<1>10. ASSUME NEW r \in Request, CaptchaRight(r) PROVE PInv'
  BY <1>1, <1>10 DEF CaptchaRight, account, Goto, Call
<1>11. ASSUME NEW r \in Request, PasswordRead(r) PROVE PInv'
  BY <1>1, <1>11 DEF PasswordRead, account, Call
<1>12. ASSUME NEW r \in Request, LegacyPasswordRead(r) PROVE PInv'
  BY <1>1, <1>12 DEF LegacyPasswordRead, LookUp, account, Call
<1>13. ASSUME NEW r \in Request, IssueRevoke(r) PROVE PInv'
  BY <1>1, <1>13 DEF IssueRevoke, RevokeAll, Goto, Call
<1>14. ASSUME NEW r \in Request, IssueCreate(r) PROVE PInv'
  BY <1>1, <1>14 DEF IssueCreate, Goto, Call
<1>15. ASSUME NEW r \in Request, ResetStore(r) PROVE PInv'
  BY <1>1, <1>15 DEF ResetStore, Goto, Call
<1>16. ASSUME NEW r \in Request, ResetRevoke(r) PROVE PInv'
  BY <1>1, <1>16 DEF ResetRevoke, LoginsUnderWay, RevokeAll, End, Call
<1>17. ASSUME NEW r \in Request, Logout(r) PROVE PInv'
  BY <1>1, <1>17 DEF Logout, Call
<1>18. ASSUME NEW r \in Request, NEW s \in Request, RefreshRead(r, s) PROVE PInv'
  BY <1>1, <1>18 DEF RefreshRead, LookUp, account, Call
<1>19. ASSUME NEW r \in Request, RefreshWrite(r) PROVE PInv'
  BY <1>1, <1>19 DEF RefreshWrite, End, Call
<1>20. ASSUME NEW r \in Request, Fail(r) PROVE PInv'
  BY <1>1, <1>20 DEF Fail, account, End, Call
<1>21. CASE UNCHANGED vars
  BY <1>2, <1>21 DEF vars, account
<1>22. QED
  <2>1. ASSUME NEW r \in Request, RequestNext(r) PROVE PInv'
    BY <2>1, <1>4, <1>5, <1>6, <1>7, <1>8, <1>9, <1>10, <1>11, <1>12, <1>13,
      <1>14, <1>15, <1>16, <1>17, <1>18, <1>19, <1>20
    DEF RequestNext
  <2>2. QED BY <2>1, <1>3, <1>21 DEF Next

(* A session that lives on after a reset of the password was being opened  *)
(* when resetPassword revoked the sessions, or the reset has not done so.  *)
THEOREM OldPasswordsLeaveWithTheReset == Spec => []OldPasswordSessionsRaced
<1>1. Init => TInv /\ PInv
  <2>1. Init => PInv
    BY DEF Init, PInv, SessionsAreOpened, CreatorsRegister, WriterHasWritten, StaleLoginsRaced
  <2>2. QED BY <2>1, InitEstablishes
<1>2. TInv /\ PInv /\ [Next]_vars => (TInv /\ PInv)'
  BY TypesAreKept, PasswordsAreKept
<1>3. TInv /\ PInv => OldPasswordSessionsRaced
  BY DEF PInv, SessionsAreOpened, StaleLoginsRaced, OldPasswordSessionsRaced
<1>4. QED BY <1>1, <1>2, <1>3, PTL DEF Spec

-----------------------------------------------------------------------------
(* The pages that a user signs in with                                     *)

(* A login, registration or reset that has not been answered *)
Submitted(c) == calls[c].at \in {"sent", "captcha"} /\ calls[c].kind = "submit"

SubmitsTyped ==
  /\ calls \in [L!Call -> L!Row]
  /\ signedIn \in L!Call \cup {None}
  /\ page = "app" => \A c \in L!Call : ~calls[c].here

(* Calls are made in their order. *)
MadeInOrder == \A c, d \in L!Call : c < d /\ calls[c].at = "idle" => calls[d].at = "idle"

(* A submit that has not been let go has its page and its ref, so that no  *)
(* other has been begun since.                                             *)
SubmitsAreHeld == \A c \in L!Call : Submitted(c) /\ c \notin loose => calls[c].here /\ "submit" \in busy
LaterFindLoose ==
  \A c, d \in L!Call : c < d /\ Submitted(c) /\ (Submitted(d) \/ calls[d].at = "signedIn") => c \in loose

LoginInv == SubmitsTyped /\ MadeInOrder /\ SubmitsAreHeld /\ LaterFindLoose /\ LaterLoginStays

(* What holds of the calls goes on to hold when some of them end, without  *)
(* having signed in, and none is made.                                     *)
LEMMA SomeEnd ==
  ASSUME LoginInv, signedIn' \in {signedIn, None}, calls' \in [L!Call -> L!Row], loose \subseteq loose',
         page' = "app" => page = "app",
         \A c \in L!Call :
           /\ calls'[c].at = "idle" <=> calls[c].at = "idle"
           /\ calls'[c].at = "signedIn" <=> calls[c].at = "signedIn"
           /\ Submitted(c)' => Submitted(c)
           /\ calls'[c].here => calls[c].here
           /\ Submitted(c)' /\ c \notin loose' => calls'[c].here /\ "submit" \in busy'
  PROVE  LoginInv'
<1> USE DEF LoginInv
<1>1. SubmitsTyped'
  BY DEF SubmitsTyped
<1>2. MadeInOrder'
  BY DEF MadeInOrder, L!Call
<1>3. SubmitsAreHeld'
  BY DEF SubmitsAreHeld, L!Call
<1>4. LaterFindLoose'
  BY DEF LaterFindLoose, L!Call
<1>5. LaterLoginStays'
  <2>1. None \notin L!Call
    BY NoneAssumption DEF L!Call
  <2>2. QED BY <2>1 DEF LaterLoginStays, L!LaterLoginStays
<1>6. QED BY <1>1, <1>2, <1>3, <1>4, <1>5

(* The calls of a page that is left lose it.                               *)
LEMMA PageLeft ==
  ASSUME NEW next \in [L!Call -> L!Row], NEW p, L!Open(p, next)
  PROVE  /\ calls' \in [L!Call -> L!Row] /\ busy' = {} /\ page' = p
         /\ \A c \in L!Call : /\ calls'[c].at = next[c].at /\ calls'[c].kind = next[c].kind
                              /\ calls'[c].here = FALSE
<1>1. \A c \in L!Call : /\ [next[c] EXCEPT !.here = FALSE] \in L!Row
                        /\ [next[c] EXCEPT !.here = FALSE].at = next[c].at
                        /\ [next[c] EXCEPT !.here = FALSE].kind = next[c].kind
                        /\ [next[c] EXCEPT !.here = FALSE].here = FALSE
  BY DEF L!Row
<1>2. calls' = [c \in L!Call |-> [next[c] EXCEPT !.here = FALSE]] /\ busy' = {} /\ page' = p
  BY DEF L!Open
<1>3. QED BY <1>1, <1>2

LEMMA CallsEnd ==
  ASSUME calls \in [L!Call -> L!Row], NEW ending \in SUBSET L!Call, NEW at \in {"signedIn", "over"}
  PROVE  /\ L!Ended(ending, at) \in [L!Call -> L!Row]
         /\ \A c \in L!Call :
              /\ c \in ending => L!Ended(ending, at)[c].at = at /\ ~L!Ended(ending, at)[c].here
              /\ c \notin ending => L!Ended(ending, at)[c] = calls[c]
<1>1. /\ [L!Idle EXCEPT !.at = at] \in L!Row
      /\ [L!Idle EXCEPT !.at = at].at = at /\ [L!Idle EXCEPT !.at = at].here = FALSE
      /\ [L!Idle EXCEPT !.at = at].kind = "submit"
  BY DEF L!Idle, L!Row, L!Flag, L!Mode
<1>2. QED BY <1>1 DEF L!Ended

(* Calls end that have been answered.                                      *)
LEMMA TheyEnd ==
  ASSUME LoginInv, NEW ending \in SUBSET L!Call, \A c \in ending : calls[c].at \in {"sent", "captcha"},
         calls' = L!Ended(ending, "over"), L!Finally(ending), UNCHANGED <<page, signedIn>>
  PROVE  LoginInv'
<1>1. calls \in [L!Call -> L!Row]
  BY DEF LoginInv, SubmitsTyped
<1>2. /\ calls' \in [L!Call -> L!Row]
      /\ \A c \in L!Call : /\ c \in ending => calls'[c].at = "over" /\ ~calls'[c].here
                           /\ c \notin ending => calls'[c] = calls[c]
  BY <1>1, CallsEnd
<1>3. loose \subseteq loose'
  BY DEF L!Finally
<1>4. ASSUME NEW c \in L!Call, Submitted(c)', c \notin loose'
      PROVE  calls'[c].here /\ "submit" \in busy'
  <2>1. c \notin ending /\ calls'[c] = calls[c] /\ Submitted(c)
    BY <1>2, <1>4 DEF Submitted
  <2>2. calls[c].here /\ "submit" \in busy
    BY <1>3, <1>4, <2>1 DEF LoginInv, SubmitsAreHeld
  <2>3. c \in L!UnderWay("submit") \ ending
    BY <2>1, <2>2 DEF Submitted, L!UnderWay
  <2>4. ending \cap L!UnderWay("submit") = {}
    BY <1>4, <2>3 DEF L!Finally, L!Flag
  <2>5. "submit" \in busy'
    BY <2>2, <2>4 DEF L!Finally, L!Flag
  <2>6. QED BY <2>1, <2>2, <2>5
<1>5. \A c \in L!Call : /\ calls'[c].at = "idle" <=> calls[c].at = "idle"
                        /\ calls'[c].at = "signedIn" <=> calls[c].at = "signedIn"
                        /\ Submitted(c)' => Submitted(c)
                        /\ calls'[c].here => calls[c].here
  BY <1>2 DEF Submitted
<1>6. QED BY <1>2, <1>3, <1>4, <1>5, SomeEnd

(* The user goes to another page.                                          *)
LEMMA GoneTo ==
  ASSUME LoginInv, NEW p \in L!Page, L!Open(p, calls), signedIn' \in {signedIn, None}, p # "app",
         loose' = loose \cup L!AllUnderWay \/ (page = "app" /\ loose' = loose)
  PROVE  LoginInv'
<1>1. calls \in [L!Call -> L!Row]
  BY DEF LoginInv, SubmitsTyped
<1>2. /\ calls' \in [L!Call -> L!Row] /\ busy' = {} /\ page' = p
      /\ \A c \in L!Call : /\ calls'[c].at = calls[c].at /\ calls'[c].kind = calls[c].kind
                           /\ ~calls'[c].here
  BY <1>1, PageLeft
<1>3. ASSUME NEW c \in L!Call, Submitted(c) PROVE c \in loose'
  <2>1. CASE calls[c].here
    <3>1. page # "app"
      BY <2>1 DEF LoginInv, SubmitsTyped
    <3>2. c \in L!AllUnderWay
      BY <1>3, <2>1 DEF Submitted, L!AllUnderWay, L!UnderWay
    <3>3. QED BY <3>1, <3>2
  <2>2. CASE ~calls[c].here
    BY <1>3, <2>2 DEF LoginInv, SubmitsAreHeld
  <2>3. QED BY <2>1, <2>2
<1>4. \A c \in L!Call : Submitted(c)' <=> Submitted(c)
  BY <1>2 DEF Submitted
<1>5. loose \subseteq loose'
  OBVIOUS
<1>6. QED BY <1>2, <1>3, <1>4, <1>5, SomeEnd

(* A call is made: its flag was clear, so all submits before are loose.    *)
LEMMA Begun ==
  ASSUME LoginInv, NEW c \in L!Call, NEW flag \in L!Flag, NEW m \in L!Mode \cup {"register", "guest"},
         L!Begin(c, flag, m), page # "app"
  PROVE  LoginInv'
<1> DEFINE r == [at |-> "sent", kind |-> flag, of |-> m, here |-> TRUE]
<1>1. r \in L!Row /\ r.at = "sent" /\ r.kind = flag /\ r.here = TRUE
  BY DEF L!Row
<1>2. /\ calls' = [calls EXCEPT ![c] = r] /\ busy' = busy \cup {flag} /\ flag \notin busy
      /\ calls[c].at = "idle" /\ UNCHANGED <<page, signedIn, loose>>
  BY DEF L!Begin
<1> HIDE DEF r
<1>3. calls \in [L!Call -> L!Row]
  BY DEF LoginInv, SubmitsTyped
<1>4. calls' \in [L!Call -> L!Row] /\ calls'[c] = r /\ \A d \in L!Call : d # c => calls'[d] = calls[d]
  BY <1>1, <1>2, <1>3
<1>5. SubmitsTyped'
  BY <1>2, <1>4 DEF LoginInv, SubmitsTyped
<1>6. MadeInOrder'
  <2>1. \A d \in L!Call : d < c => calls[d].at # "idle"
    BY DEF L!Begin
  <2>2. QED BY <1>1, <1>2, <1>4, <2>1 DEF LoginInv, MadeInOrder, L!Call
<1>7. SubmitsAreHeld'
  BY <1>1, <1>2, <1>4 DEF LoginInv, SubmitsAreHeld, Submitted
<1>8. LaterFindLoose'
  <2>1. ASSUME NEW a \in L!Call, NEW d \in L!Call, a < d, Submitted(a)', Submitted(d)' \/ calls'[d].at = "signedIn"
        PROVE  a \in loose
    <3>1. CASE a = c
      <4>1. calls[d].at = "idle" /\ d # c
        BY <1>2, <2>1, <3>1 DEF LoginInv, MadeInOrder, L!Call
      <4>2. QED BY <1>4, <2>1, <4>1 DEF Submitted
    <3>2. CASE d = c /\ a # c
      <4>1. Submitted(a) /\ flag = "submit"
        BY <1>1, <1>4, <2>1, <3>2 DEF Submitted
      <4>2. QED BY <1>2, <4>1 DEF LoginInv, SubmitsAreHeld
    <3>3. CASE a # c /\ d # c
      BY <1>4, <2>1, <3>3 DEF LoginInv, LaterFindLoose, Submitted
    <3>4. QED BY <3>1, <3>2, <3>3
  <2>2. QED BY <1>2, <2>1 DEF LaterFindLoose
<1>9. LaterLoginStays'
  BY <1>1, <1>2, <1>4 DEF LoginInv, LaterLoginStays, L!LaterLoginStays
<1>10. QED BY <1>5, <1>6, <1>7, <1>8, <1>9 DEF LoginInv

(* A login succeeds: those after it were made after it was let go.         *)
LEMMA SignedIn ==
  ASSUME LoginInv, NEW c \in L!Call, L!SignIn(c)
  PROVE  LoginInv'
<1> DEFINE next == L!Ended({c}, "signedIn")
<1>1. calls \in [L!Call -> L!Row]
  BY DEF LoginInv, SubmitsTyped
<1>2. /\ next \in [L!Call -> L!Row]
      /\ next[c].at = "signedIn" /\ \A d \in L!Call : d # c => next[d] = calls[d]
  <2>1. {c} \in SUBSET L!Call
    OBVIOUS
  <2>2. /\ next \in [L!Call -> L!Row]
        /\ \A d \in L!Call : /\ d \in {c} => next[d].at = "signedIn"
                             /\ d \notin {c} => next[d] = calls[d]
    BY <1>1, <2>1, CallsEnd
  <2>3. QED BY <2>2
<1>3. L!Open("app", next) /\ signedIn' = c /\ Submitted(c)
      /\ loose' = IF c \in loose THEN loose \cup L!AllUnderWay ELSE loose
  BY DEF L!SignIn, L!Sent, Submitted
<1> HIDE DEF next
<1>4. /\ calls' \in [L!Call -> L!Row] /\ busy' = {} /\ page' = "app"
      /\ \A d \in L!Call : /\ calls'[d].at = next[d].at /\ calls'[d].kind = next[d].kind
                           /\ calls'[d].here = FALSE
  BY <1>2, <1>3, PageLeft
<1>5. /\ calls'[c].at = "signedIn"
      /\ \A d \in L!Call : d # c => /\ calls'[d].at = calls[d].at /\ (Submitted(d)' <=> Submitted(d))
  BY <1>2, <1>4 DEF Submitted
<1>6. \A d \in L!Call : Submitted(d)' => Submitted(d) /\ d # c
  BY <1>5 DEF Submitted
<1>7. SubmitsTyped'
  BY <1>3, <1>4 DEF SubmitsTyped
<1>8. MadeInOrder'
  <2>1. calls[c].at # "idle"
    BY <1>3 DEF Submitted
  <2>2. \A d \in L!Call : calls'[d].at = "idle" <=> calls[d].at = "idle"
    BY <1>5, <2>1
  <2>3. QED BY <2>2 DEF LoginInv, MadeInOrder
<1>9. ASSUME NEW d \in L!Call, Submitted(d), d # c PROVE d \in loose'
  <2>1. CASE c \in loose
    <3>1. CASE calls[d].here
      <4>1. d \in L!AllUnderWay
        BY <1>9, <3>1 DEF Submitted, L!AllUnderWay, L!UnderWay
      <4>2. QED BY <1>3, <2>1, <4>1
    <3>2. CASE ~calls[d].here
      BY <1>3, <1>9, <3>2 DEF LoginInv, SubmitsAreHeld
    <3>3. QED BY <3>1, <3>2
  <2>2. CASE c \notin loose
    <3>1. d < c
      BY <1>3, <1>9, <2>2 DEF LoginInv, LaterFindLoose, L!Call
    <3>2. QED BY <1>3, <1>9, <3>1 DEF LoginInv, LaterFindLoose
  <2>3. QED BY <2>1, <2>2
<1>10. SubmitsAreHeld' /\ LaterFindLoose'
  BY <1>6, <1>9 DEF SubmitsAreHeld, LaterFindLoose
<1>11. LaterLoginStays'
  <2>1. ASSUME NEW d \in L!Call, c < d, calls'[d].at = "signedIn" PROVE c \in loose'
    <3>1. d # c /\ calls[d].at = "signedIn"
      BY <1>5, <2>1 DEF L!Call
    <3>2. c \in loose
      BY <1>3, <2>1, <3>1 DEF LoginInv, LaterFindLoose
    <3>3. QED BY <1>3, <3>2
  <2>2. QED BY <1>3, <2>1 DEF LaterLoginStays, L!LaterLoginStays
<1>12. QED BY <1>7, <1>8, <1>10, <1>11 DEF LoginInv

LEMMA LoginStep == LoginInv /\ [L!Next]_(L!vars) => LoginInv'
<1> SUFFICES ASSUME LoginInv, [L!Next]_(L!vars) PROVE LoginInv'
  OBVIOUS
<1>0. calls \in [L!Call -> L!Row]
  BY DEF LoginInv, SubmitsTyped
<1>1. ASSUME UNCHANGED <<page, busy, calls, signedIn>>, loose' = loose PROVE LoginInv'
  <2>1. \A c \in L!Call : Submitted(c)' <=> Submitted(c)
    BY <1>1 DEF Submitted
  <2>2. \A c \in L!Call : Submitted(c) /\ c \notin loose => calls[c].here /\ "submit" \in busy
    BY DEF LoginInv, SubmitsAreHeld
  <2>3. QED BY <1>0, <1>1, <2>1, <2>2, SomeEnd
<1>2. CASE UNCHANGED L!vars
  BY <1>1, <1>2 DEF L!vars
<1>3. ASSUME NEW p \in L!Page, L!FollowLink(p) PROVE LoginInv'
  BY <1>3, GoneTo DEF L!FollowLink
<1>4. CASE L!Logout
  <2>1. /\ L!Open("login", calls) /\ "login" \in L!Page /\ signedIn' = None
        /\ page = "app" /\ loose' = loose
    BY <1>4 DEF L!Logout, L!Page
  <2>2. QED BY <2>1, GoneTo
<1>5. ASSUME NEW m \in L!Mode, L!SwitchMode(m) PROVE LoginInv'
  <2>1. UNCHANGED <<page, calls, signedIn>> /\ loose' = loose \cup L!AllUnderWay
    BY <1>5 DEF L!SwitchMode
  <2>2. \A c \in L!Call : (Submitted(c)' <=> Submitted(c)) /\ calls'[c] = calls[c]
    BY <2>1 DEF Submitted
  <2>3. \A c \in L!Call : Submitted(c) => c \in loose'
    BY <2>1 DEF LoginInv, SubmitsAreHeld, Submitted, L!AllUnderWay, L!UnderWay
  <2>4. QED BY <1>0, <2>1, <2>2, <2>3, SomeEnd
<1>6. CASE L!HandleCaptchaAnswerChange \/ L!PressRefresh \/ L!TimerExpires \/ L!Reconnected
  BY <1>1, <1>6 DEF L!HandleCaptchaAnswerChange, L!PressRefresh, L!TimerExpires, L!Reconnected, L!RefreshCaptcha
<1>7. ASSUME NEW works \in BOOLEAN, L!CaptchaComes(works) PROVE LoginInv'
  <2>1. L!Waiting \in SUBSET L!Call /\ \A c \in L!Waiting : calls[c].at \in {"sent", "captcha"}
    BY DEF L!Waiting, L!UnderWay
  <2>2. calls' = L!Ended(L!Waiting, "over") /\ L!Finally(L!Waiting) /\ UNCHANGED <<page, signedIn>>
    BY <1>7 DEF L!CaptchaComes
  <2>3. QED BY <2>1, <2>2, TheyEnd
<1>8. ASSUME NEW c \in L!Call, L!UserNext(c) PROVE LoginInv'
  <2>1. \E flag \in L!Flag, m \in L!Mode \cup {"register", "guest"} : L!Begin(c, flag, m) /\ page # "app"
    BY <1>8 DEF L!UserNext, L!HandlePasswordSubmit, L!HandleEmailCodeSubmit, L!HandlePasswordResetSubmit,
                L!HandleRegister, L!HandleGuest, L!HandleSendCode, L!HandleSendPasswordResetCode,
                L!HandleRegisterSendCode, L!Showing, L!Flag, L!Mode
  <2>2. QED BY <2>1, Begun
<1>9. ASSUME NEW c \in L!Call, L!SignIn(c) PROVE LoginInv'
  BY <1>9, SignedIn
<1>10. ASSUME NEW c \in L!Call, calls[c].at = "sent", calls' = L!Ended({c}, "over"), L!Finally({c}),
              UNCHANGED <<page, signedIn>>
       PROVE  LoginInv'
  BY <1>10, TheyEnd
<1>11. ASSUME NEW c \in L!Call, L!CallEnds(c) \/ L!ResetSucceeds(c) PROVE LoginInv'
  BY <1>10, <1>11 DEF L!CallEnds, L!ResetSucceeds, L!Sent
<1>12. ASSUME NEW c \in L!Call, L!PasswordRefused(c) PROVE LoginInv'
  <2>1. CASE calls[c].here /\ ~refreshing
    <3> DEFINE r == [calls[c] EXCEPT !.at = "captcha"]
    <3>1. r \in L!Row /\ r.at = "captcha" /\ r.kind = calls[c].kind /\ r.here = calls[c].here
      BY <1>0 DEF L!Row
    <3>2. calls' = [calls EXCEPT ![c] = r] /\ UNCHANGED <<page, busy, signedIn, loose>> /\ calls[c].at = "sent"
      BY <1>12, <2>1 DEF L!PasswordRefused, L!Sent
    <3> HIDE DEF r
    <3>3. /\ calls' \in [L!Call -> L!Row]
          /\ \A d \in L!Call : /\ calls'[d].at = "idle" <=> calls[d].at = "idle"
                               /\ calls'[d].at = "signedIn" <=> calls[d].at = "signedIn"
                               /\ Submitted(d)' <=> Submitted(d)
                               /\ calls'[d].here = calls[d].here
      BY <1>0, <3>1, <3>2 DEF Submitted
    <3>4. \A d \in L!Call : Submitted(d) /\ d \notin loose => calls[d].here /\ "submit" \in busy
      BY DEF LoginInv, SubmitsAreHeld
    <3>5. QED BY <3>2, <3>3, <3>4, SomeEnd
  <2>2. CASE ~(calls[c].here /\ ~refreshing)
    BY <1>10, <1>12, <2>2 DEF L!PasswordRefused, L!Sent
  <2>3. QED BY <2>1, <2>2
<1>13. QED BY <1>2, <1>3, <1>4, <1>5, <1>6, <1>7, <1>8, <1>9, <1>11, <1>12 DEF L!Next

LEMMA LoginInit == L!Init => LoginInv
<1> SUFFICES ASSUME L!Init PROVE LoginInv
  OBVIOUS
<1>1. L!Idle \in L!Row /\ L!Idle.at = "idle" /\ L!Idle.here = FALSE
  BY DEF L!Idle, L!Row, L!Flag, L!Mode
<1>2. /\ calls \in [L!Call -> L!Row] /\ page = "login" /\ signedIn = None
      /\ \A c \in L!Call : calls[c].at = "idle" /\ ~calls[c].here
  BY <1>1 DEF L!Init
<1>3. SubmitsTyped /\ MadeInOrder
  BY <1>2 DEF SubmitsTyped, MadeInOrder
<1>4. SubmitsAreHeld /\ LaterFindLoose /\ LaterLoginStays
  BY <1>2 DEF SubmitsAreHeld, LaterFindLoose, Submitted, LaterLoginStays, L!LaterLoginStays
<1>5. QED BY <1>3, <1>4 DEF LoginInv

(* The session that the client keeps comes from the latest login that has  *)
(* succeeded, unless an earlier one was let go while it was under way:     *)
(* whichever forms are opened, left and switched, and whatever order       *)
(* answers and captchas come in.                                           *)
THEOREM LaterLoginIsKept == L!Spec => []LaterLoginStays
<1>1. LoginInv => LaterLoginStays
  BY DEF LoginInv
<1>2. QED BY <1>1, LoginInit, LoginStep, PTL DEF L!Spec
=============================================================================
