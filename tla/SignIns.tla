------------------------------- MODULE SignIns -------------------------------
(* How users sign in: what the server makes of their secrets               *)
(* (Credentials), and the pages of the client (LoginForm).  The two share  *)
(* no state.                                                               *)
EXTENDS Credentials

CONSTANT MaxSubmits  \* MaxCalls of LoginForm

VARIABLES page, mode, captcha, answer, trouble, refreshing, busy, calls, signedIn, loose

pages == <<page, mode, captcha, answer, trouble, refreshing, busy, calls, signedIn, loose>>

L == INSTANCE LoginForm WITH MaxCalls <- MaxSubmits, session <- signedIn

(* What the client keeps of several logins: see LoginForm. *)
LaterLoginStays == L!LaterLoginStays
=============================================================================
