------------------------------ MODULE LoginForm ------------------------------
(***************************************************************************)
(* The pages that a user of LanGram signs in with: LoginPage with its      *)
(* three forms, RegisterPage and GuestLoginPage.  A form has one submit    *)
(* and one request for an e-mail code under way at a time, by two refs of  *)
(* its page (submitInFlightRef with isSubmitting, sendCodeInFlightRef with *)
(* isSendingCode, which are set and cleared together).  The forms of       *)
(* LoginPage share the refs, and switchMode clears them while what was     *)
(* submitted is still on its way: its answer finds another form.           *)
(*                                                                         *)
(* What is typed into a form is left out, but for the answer to the        *)
(* captcha, which is taken away when another captcha comes; so are the     *)
(* texts of errors and notices.                                            *)
(***************************************************************************)
EXTENDS Naturals

CONSTANTS
  None,
  MaxCalls   \* bound: submits and requests for a code

(* A call is its place in the order in which the user has made them. *)
Call == 1 .. MaxCalls

VARIABLES
  page,       \* where the window is: a page of auth/, or the application
  mode,       \* of LoginPage: the form that it shows
  captcha,    \* whether there is a captcha
  answer,     \* whether an answer to it is typed
  trouble,    \* hasCaptchaRefreshError
  refreshing, \* captchaRefreshInFlightRef
  busy,       \* what the refs say is in flight
  calls,      \* for each call its state, what it is, and whether its page is
              \* still there
  session,    \* the login whose answer was stored last, None when signed out
  loose       \* history: calls whose form was left, or whose ref was
              \* cleared by another call, while they were under way

form == <<mode, captcha, answer, trouble, refreshing>>
vars == <<page, form, busy, calls, session, loose>>

Mode == {"password", "emailCode", "forgotPassword"}
Page == {"login", "register", "guest", "app"}
Flag == {"submit", "send"}
Row  == [at : {"idle", "sent", "captcha", "signedIn", "over"},
         kind : Flag, of : Mode \cup {"register", "guest"}, here : BOOLEAN]

Idle == [at |-> "idle", kind |-> "submit", of |-> "password", here |-> FALSE]

UnderWay(flag) == {c \in Call : calls[c].at \in {"sent", "captcha"} /\ calls[c].kind = flag /\ calls[c].here}

-----------------------------------------------------------------------------
(* Pages and forms                                                         *)

(* A page that is opened starts with fresh refs and an empty form; what    *)
(* the page that is left has under way goes on.                            *)
Open(p, next) ==
  /\ page' = p
  /\ mode' = "password" /\ captcha' = FALSE /\ answer' = FALSE /\ trouble' = FALSE
  /\ refreshing' = (p = "login")
  /\ busy' = {}
  /\ calls' = [c \in Call |-> [next[c] EXCEPT !.here = FALSE]]

AllUnderWay == UnderWay("submit") \cup UnderWay("send")

FollowLink(p) ==
  /\ page # "app" /\ p \notin {page, "app"}
  /\ Open(p, calls)
  /\ loose' = loose \cup AllUnderWay
  /\ UNCHANGED session

Logout ==
  /\ page = "app"
  /\ Open("login", calls)
  /\ session' = None
  /\ UNCHANGED loose

Showing(m) == page = "login" /\ mode = m

(* The tabs and links: forgotPassword is entered from password only, and   *)
(* left for it.                                                            *)
Tab(m) == m # mode /\ "password" \in {m, mode}

SwitchMode(m) ==
  /\ page = "login" /\ Tab(m)
  /\ mode' = m
  /\ captcha' = FALSE /\ answer' = FALSE /\ trouble' = FALSE
  /\ refreshing' = (refreshing \/ m = "password")
  /\ busy' = {}
  /\ loose' = loose \cup AllUnderWay
  /\ UNCHANGED <<page, calls, session>>

-----------------------------------------------------------------------------
(* The captcha                                                             *)

HandleCaptchaAnswerChange ==
  /\ Showing("password")
  /\ answer' = TRUE
  /\ UNCHANGED <<page, mode, captcha, trouble, refreshing, busy, calls, session, loose>>

(* One refresh at a time. *)
RefreshCaptcha ==
  /\ Showing("password") /\ ~refreshing
  /\ refreshing' = TRUE
  /\ UNCHANGED <<page, mode, captcha, answer, trouble, busy, calls, session, loose>>

PressRefresh == RefreshCaptcha
TimerExpires == captcha /\ RefreshCaptcha
Reconnected  == RefreshCaptcha

(* The flags that are cleared by the calls that end, and the others that   *)
(* had set them.                                                           *)
Finally(ending) ==
  /\ busy' = busy \ {f \in Flag : ending \cap UnderWay(f) # {}}
  /\ loose' = loose \cup UNION {UnderWay(f) \ ending : f \in {g \in Flag : ending \cap UnderWay(g) # {}}}

Ended(ending, at) == [c \in Call |-> IF c \in ending THEN [Idle EXCEPT !.at = at] ELSE calls[c]]

(* The refused login that has asked for the captcha goes on. *)
Waiting == {c \in UnderWay("submit") : calls[c].at = "captcha"}

CaptchaComes(works) ==
  /\ refreshing
  /\ refreshing' = FALSE
  /\ captcha' = (captcha \/ works) /\ answer' = FALSE /\ trouble' = ~works
  /\ calls' = Ended(Waiting, "over") /\ Finally(Waiting)
  /\ UNCHANGED <<page, mode, session>>

-----------------------------------------------------------------------------
(* What the user submits                                                   *)

(* Mutant: the button only, which is disabled by the next rendering. *)
BeginUnguarded(c, flag, m) ==
  /\ calls[c].at = "idle" /\ \A d \in Call : d < c => calls[d].at # "idle"
  /\ calls' = [calls EXCEPT ![c] = [at |-> "sent", kind |-> flag, of |-> m, here |-> TRUE]]
  /\ busy' = busy \cup {flag}
  /\ UNCHANGED <<page, form, session, loose>>

Begin(c, flag, m) ==
  /\ flag \notin busy
  /\ calls[c].at = "idle" /\ \A d \in Call : d < c => calls[d].at # "idle"
  /\ calls' = [calls EXCEPT ![c] = [at |-> "sent", kind |-> flag, of |-> m, here |-> TRUE]]
  /\ busy' = busy \cup {flag}
  /\ UNCHANGED <<page, form, session, loose>>

HandlePasswordSubmit(c) ==
  Showing("password") /\ captcha /\ answer /\ Begin(c, "submit", "password")
HandleEmailCodeSubmit(c)       == Showing("emailCode") /\ Begin(c, "submit", "emailCode")
HandlePasswordResetSubmit(c)   == Showing("forgotPassword") /\ Begin(c, "submit", "forgotPassword")
HandleRegister(c)              == page = "register" /\ Begin(c, "submit", "register")
HandleGuest(c)                 == page = "guest" /\ Begin(c, "submit", "guest")
HandleSendCode(c)              == Showing("emailCode") /\ Begin(c, "send", "emailCode")
HandleSendPasswordResetCode(c) == Showing("forgotPassword") /\ Begin(c, "send", "forgotPassword")
HandleRegisterSendCode(c)      == page = "register" /\ Begin(c, "send", "register")

-----------------------------------------------------------------------------
(* What comes back, to whatever the user is looking at by then             *)

Sent(c, flag) == calls[c].at = "sent" /\ calls[c].kind = flag

(* setSession and navigate, also for a page that is gone: the page that    *)
(* the user has gone to is left as well.                                   *)
SignIn(c) ==
  /\ Sent(c, "submit") /\ calls[c].of # "forgotPassword"
  /\ session' = c
  /\ Open("app", Ended({c}, "signedIn"))
  /\ loose' = IF c \in loose THEN loose \cup AllUnderWay ELSE loose

(* A request for a code ends, or a submit fails: but for a login with a    *)
(* password, unless the network has failed.                                *)
CallEnds(c) ==
  /\ calls[c].at = "sent"
  /\ calls' = Ended({c}, "over") /\ Finally({c})
  /\ UNCHANGED <<page, form, session>>

(* A login with a password that is refused asks for another captcha, and   *)
(* waits for it, unless one is on its way.                                 *)
PasswordRefused(c) ==
  /\ Sent(c, "submit") /\ calls[c].of = "password"
  /\ IF calls[c].here
     THEN answer' = FALSE /\ refreshing' = TRUE
     ELSE UNCHANGED <<answer, refreshing>>
  /\ IF calls[c].here /\ ~refreshing
     THEN calls' = [calls EXCEPT ![c].at = "captcha"] /\ UNCHANGED <<busy, loose>>
     ELSE calls' = Ended({c}, "over") /\ Finally({c})
  /\ UNCHANGED <<page, mode, captcha, trouble, session>>

(* Mutant: another captcha is asked for when the captcha changes, only. *)
NeedsCaptchaOnce(m) == FALSE

(* LoginPage asks for a captcha when it comes to its first form without one. *)
NeedsCaptcha(m) == m # "password" /\ ~captcha

(* The password is reset: the user is taken to the first form. *)
ResetSucceeds(c) ==
  /\ Sent(c, "submit") /\ calls[c].of = "forgotPassword"
  /\ calls' = Ended({c}, "over") /\ Finally({c})
  /\ IF calls[c].here
     THEN mode' = "password" /\ refreshing' = (refreshing \/ NeedsCaptcha(mode))
     ELSE UNCHANGED <<mode, refreshing>>
  /\ UNCHANGED <<page, captcha, answer, trouble, session>>

-----------------------------------------------------------------------------
Init ==
  /\ page = "login" /\ mode = "password"
  /\ captcha = FALSE /\ answer = FALSE /\ trouble = FALSE /\ refreshing = TRUE
  /\ busy = {} /\ session = None /\ loose = {}
  /\ calls = [c \in Call |-> Idle]

UserNext(c) ==
  \/ HandlePasswordSubmit(c) \/ HandleEmailCodeSubmit(c) \/ HandlePasswordResetSubmit(c)
  \/ HandleRegister(c) \/ HandleGuest(c)
  \/ HandleSendCode(c) \/ HandleSendPasswordResetCode(c) \/ HandleRegisterSendCode(c)

Next ==
  \/ \E p \in Page : FollowLink(p)
  \/ \E m \in Mode : SwitchMode(m)
  \/ Logout \/ HandleCaptchaAnswerChange
  \/ PressRefresh \/ TimerExpires \/ Reconnected
  \/ \E works \in BOOLEAN : CaptchaComes(works)
  \/ \E c \in Call : UserNext(c) \/ SignIn(c) \/ CallEnds(c) \/ PasswordRefused(c) \/ ResetSucceeds(c)

Spec == Init /\ [][Next]_vars

-----------------------------------------------------------------------------
(* Properties                                                              *)

(* Every variable has its type. *)
TypeOK ==
  /\ page \in Page /\ mode \in Mode
  /\ captcha \in BOOLEAN /\ answer \in BOOLEAN /\ trouble \in BOOLEAN /\ refreshing \in BOOLEAN
  /\ busy \subseteq Flag
  /\ calls \in [Call -> Row]
  /\ session \in Call \cup {None}
  /\ loose \subseteq Call

(* The session that the client keeps comes from the latest of the logins   *)
(* that have succeeded; an earlier one replaces it only if its form was    *)
(* left while it was under way, by the user or for the answer to a call    *)
(* that had been left itself, or if such an answer has cleared its         *)
(* submitInFlightRef.                                                      *)
LaterLoginStays ==
  \A c, d \in Call : session = c /\ c < d /\ calls[d].at = "signedIn" => c \in loose

(* The first form of LoginPage shows a captcha, or waits for one, or says  *)
(* that it has got none: no switch between the forms, and no answer to     *)
(* what an earlier form has submitted, leaves it without.                  *)
CaptchaIsComing == Showing("password") => captcha \/ refreshing \/ trouble
=============================================================================
