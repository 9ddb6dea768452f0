------------------------------- MODULE SignIn -------------------------------
(***************************************************************************)
(* Signing in (apps/accounts): the password, the second factor and its     *)
(* enrolment, and the throttles that count failures for all web workers.   *)
(*                                                                         *)
(* No view runs in a transaction of its own.  A request loads the session, *)
(* reads what it decides on, and writes at the end; between the two other  *)
(* requests, also of the same browser, do the same.  A session is saved    *)
(* whole, from the copy its request loaded; django.contrib.auth gives it a *)
(* new key when somebody signs in or out, after which a request that still *)
(* has the old key saves nothing (SessionInterrupted).                     *)
(*                                                                         *)
(* Passwords, tokens and codes are right or wrong.  Time is counted from   *)
(* the events it is compared with: a row has the age of its window and the *)
(* time its block has left.                                                *)
(***************************************************************************)
EXTENDS Integers, Sequences, FiniteSetsExt

CONSTANTS
    Users,         \* accounts (accounts.User)
    Superusers,    \* those created on the command line
    Nobody,        \* no user
    Browsers,      \* browser sessions, each at an address of its own
    Requests,      \* requests that the workers run at a time
    Methods,       \* second factors in use, see MFA_METHODS
    Limit,         \* Limit[action]: failures within a window that block the key
    Window,        \* length of the window that failures are counted in
    Block,         \* length of a block
    CodeCount,     \* recovery codes that are issued at a time
    MaxDevices,    \* bound: MaxDevices[u], TOTP devices of a user
    MaxRows        \* bound: keys that count failures at a time

Actions == {"LOGIN", "TOTP", "EMAIL_OTP_SEND", "TOTP_SETUP"}

ASSUME SignInAssumption ==
    /\ Superusers \subseteq Users
    /\ Nobody \notin Users
    /\ Methods \subseteq {"totp", "email", "recovery"}
    /\ Limit \in [Actions -> Nat \ {0}]
    /\ Window \in Nat \ {0}
    /\ Block \in Nat
    /\ Block >= Window
    /\ CodeCount \in Nat
    /\ MaxDevices \in [Users -> Nat]
    /\ MaxRows \in Nat
    /\ IsFiniteSet(Requests)

VARIABLES
    status,        \* status[u]: "none" before the account exists, then is_active
    enabled,       \* enabled[u]: User.totp_enabled
    devices,       \* devices[u]: TOTPDevice rows, oldest first; TRUE once confirmed
    codes,         \* codes[u]: unused RecoveryCode rows
    throttle,      \* AuthThrottle rows by key
    session,       \* session[b]: the stored session of browser b
    request,       \* request[r]: what request r has read and where it is
    mailed         \* mailed[k]: codes allowed under the mail throttle k as it now counts

accountVars == <<status, enabled, devices, codes>>
signInVars == <<accountVars, throttle, session, request, mailed>>

-----------------------------------------------------------------------------
(* Rows *)

\* _client_key: the address, the identity and, for a code, the method.
Key(action, b, u) == <<action, b, u, "none">>
TotpKey(b, u, method) == <<"TOTP", b, u, method>>
MailKeys == {Key("EMAIL_OTP_SEND", b, u) : b \in Browsers, u \in Users}
ThrottleKeys ==
    ((Actions \ {"TOTP"}) \X Browsers \X Users \X {"none"})
        \cup ({"TOTP"} \X Browsers \X Users \X Methods)

\* A key without a row is a row that counts nothing, and so is one whose
\* window and block are over: the next failure starts it afresh.
Row == [attempts : Nat, age : 0 .. Window, left : 0 .. Block]
NoRow == [attempts |-> 0, age |-> 0, left |-> 0]

\* The code mailed last: whose it is, and whether its five minutes still run.
Otp == [user : Users \cup {Nobody}, live : BOOLEAN]
NoOtp == [user |-> Nobody, live |-> FALSE]

\* proved is no field of the stored session: it is the user whose second
\* factor was seen since the session was last emptied.
Session ==
    [user : Users \cup {Nobody}, preauth : Users \cup {Nobody}, device : Nat,
     mfa : BOOLEAN, recovery : BOOLEAN, otp : Otp, shown : BOOLEAN, proved : Users \cup {Nobody}]

Empty ==
    [user |-> Nobody, preauth |-> Nobody, device |-> 0, mfa |-> FALSE, recovery |-> FALSE,
     otp |-> NoOtp, shown |-> FALSE, proved |-> Nobody]

Stages == {"idle", "login", "send", "mail", "verify", "setup", "check", "confirm", "enable", "issue"}

\* current: the session has kept its key since the request loaded it.
Request ==
    [stage : Stages, browser : Browsers \cup {Nobody}, user : Users \cup {Nobody},
     method : Methods \cup {"email", "none"}, copy : Session, current : BOOLEAN, device : Nat]

Idle ==
    [stage |-> "idle", browser |-> Nobody, user |-> Nobody, method |-> "none", copy |-> Empty,
     current |-> FALSE, device |-> 0]

-----------------------------------------------------------------------------
(* Throttles *)

\* is_throttled
Throttled(key) == throttle[key].left > 0

\* Fault: a window does not end.
WindowEndless(row) == FALSE

WindowOver(row) == row.age >= Window

\* register_auth_failure: one transaction that locks the row.
Register(row, limit) ==
    LET fresh == row.attempts = 0 \/ WindowOver(row)
        attempts == IF fresh THEN 1 ELSE row.attempts + 1
    IN  [attempts |-> attempts,
         age |-> IF fresh THEN 0 ELSE row.age,
         left |-> IF attempts >= limit THEN Block ELSE row.left]

RegisterFailure(key) ==
    /\ Cardinality({k \in ThrottleKeys : throttle[k] # NoRow} \cup {key}) <= MaxRows
    /\ throttle' = [throttle EXCEPT ![key] = Register(@, Limit[key[1]])]

\* clear_auth_failures
ClearFailures(keys) ==
    throttle' = [k \in ThrottleKeys |-> IF k \in keys THEN NoRow ELSE throttle[k]]

-----------------------------------------------------------------------------
(* Sessions *)

IsActive(u) == u # Nobody /\ status[u] = "active"

\* request.user.is_authenticated: ModelBackend knows no inactive user.  The
\* bypass for local development is off.
Authenticated(sess) == IsActive(sess.user)

\* Fault: a user who has not enrolled passes without a second factor.
VerifiedUnlessEnrolled(sess) ==
    sess.device # 0 \/ sess.mfa \/ sess.recovery \/ ~enabled[sess.user]

\* The second factors mfa_required accepts: the device of the session, or
\* the flag of a mailed or of a recovery code.
Verified(sess) == sess.device # 0 \/ sess.mfa \/ sess.recovery

\* mfa_required
Passes(sess) == Authenticated(sess) /\ Verified(sess)

\* django.contrib.auth.login: the session of somebody else is emptied first.
AuthLogin(sess, u) ==
    IF sess.user \in {Nobody, u} THEN [sess EXCEPT !.user = u] ELSE [Empty EXCEPT !.user = u]

Begin(r, b, stage, u, method, device) ==
    /\ request[r].stage = "idle"
    /\ request' = [request EXCEPT ![r] =
                      [stage |-> stage, browser |-> b, user |-> u, method |-> method,
                       copy |-> session[b], current |-> TRUE, device |-> device]]

At(r, stage) == request[r].stage = stage
Goto(r, stage) == request' = [request EXCEPT ![r].stage = stage]
End(r) == request' = [request EXCEPT ![r] = Idle]

\* The request ends and saves its copy of the session.
EndSaving(r, sess) ==
    /\ session' = IF request[r].current THEN [session EXCEPT ![request[r].browser] = sess] ELSE session
    /\ End(r)

\* The session of b is stored under a new key: other requests hold the old one.
Renewed(b) ==
    [q \in Requests |->
        IF request[q].browser = b THEN [request[q] EXCEPT !.current = FALSE] ELSE request[q]]

\* The request ends with u signed in; the session keeps its key only if u was.
EndSignedIn(r, u, sess) ==
    IF request[r].copy.user = u THEN EndSaving(r, sess)
    ELSE /\ session' = [session EXCEPT ![request[r].browser] = sess]
         /\ request' = [Renewed(request[r].browser) EXCEPT ![r] = Idle]

-----------------------------------------------------------------------------
(* Password *)

\* login_view is asked for the account u.
Login(r, b, u) ==
    /\ ~Authenticated(session[b])
    /\ ~Throttled(Key("LOGIN", b, u))
    /\ Begin(r, b, "login", u, "none", 0)
    /\ UNCHANGED <<accountVars, throttle, session, mailed>>

\* A wrong password, or an account that is not active.
LoginRefused(r) ==
    /\ At(r, "login")
    /\ RegisterFailure(Key("LOGIN", request[r].browser, request[r].user))
    /\ End(r)
    /\ UNCHANGED <<accountVars, session, mailed>>

\* The right password: on to the second factor, or to its enrolment.
LoginAccepted(r) ==
    LET u == request[r].user
        copy == request[r].copy
    IN  /\ At(r, "login")
        /\ IsActive(u)
        /\ ClearFailures({Key("LOGIN", request[r].browser, u)})
        /\ IF enabled[u]
           THEN EndSaving(r, [copy EXCEPT !.preauth = u, !.mfa = FALSE, !.recovery = FALSE, !.otp = NoOtp])
           ELSE EndSignedIn(r, u, AuthLogin(copy, u))
        /\ UNCHANGED <<accountVars, mailed>>

-----------------------------------------------------------------------------
(* Second factor *)

\* send_email_otp: a code by mail for the user of the first factor.
Send(r, b) ==
    LET u == session[b].preauth IN
    /\ IsActive(u)
    /\ ~Throttled(Key("EMAIL_OTP_SEND", b, u))
    /\ Begin(r, b, "send", u, "email", 0)
    /\ UNCHANGED <<accountVars, throttle, session, mailed>>

\* Fault: only the block that was read before the attempt was counted holds.
TooManySendsBefore(row) == FALSE

\* The test on the row as register_auth_failure returns it.
TooManySends(row) == row.left > 0 /\ row.attempts >= Limit["EMAIL_OTP_SEND"]

\* The attempt is counted, and refused if it was one too many.
CountSend(r) ==
    LET key == Key("EMAIL_OTP_SEND", request[r].browser, request[r].user)
        row == Register(throttle[key], Limit["EMAIL_OTP_SEND"])
    IN  /\ At(r, "send")
        /\ RegisterFailure(key)
        /\ IF TooManySends(row)
           THEN End(r) /\ UNCHANGED mailed
           ELSE /\ Goto(r, "mail")
                /\ mailed' = [mailed EXCEPT ![key] = IF row.attempts = 1 THEN 1 ELSE @ + 1]
        /\ UNCHANGED <<accountVars, session>>

\* send_mail delivers the code, or fails and takes it back.
Mail(r, delivered) ==
    /\ At(r, "mail")
    /\ EndSaving(r, [request[r].copy EXCEPT
                       !.otp = IF delivered THEN [user |-> request[r].user, live |-> TRUE] ELSE NoOtp])
    /\ UNCHANGED <<accountVars, throttle, mailed>>

\* verify_view is sent a code.
Verify(r, b, method) ==
    LET u == session[b].preauth IN
    /\ IsActive(u)
    /\ ~Throttled(TotpKey(b, u, method))
    /\ Begin(r, b, "verify", u, method, 0)
    /\ UNCHANGED <<accountVars, throttle, session, mailed>>

\* verify_view finds the user of the first factor inactive.
VerifyLost(b) ==
    /\ session[b].preauth # Nobody
    /\ ~IsActive(session[b].preauth)
    /\ session' = [session EXCEPT ![b].preauth = Nobody]
    /\ UNCHANGED <<accountVars, throttle, request, mailed>>

Confirmed(u) == {i \in DOMAIN devices[u] : devices[u][i]}

\* There is something the code may be right for.
FactorExists(r) ==
    LET u == request[r].user IN
    CASE request[r].method = "totp" -> Confirmed(u) # {}
      [] request[r].method = "email" -> request[r].copy.otp = [user |-> u, live |-> TRUE]
      [] request[r].method = "recovery" -> codes[u] > 0

\* _finish_mfa: the user is signed in, and the session says by what.
Finished(r) ==
    LET u == request[r].user
        method == request[r].method
        sess == AuthLogin(request[r].copy, u)
    IN  [sess EXCEPT !.device = IF method = "totp" THEN Min(Confirmed(u)) ELSE @,
                     !.recovery = @ \/ method = "recovery",
                     !.mfa = @ \/ method = "email",
                     !.preauth = Nobody, !.otp = NoOtp, !.proved = u]

\* The right code.  It is found and, if it is a recovery code, used up in one
\* step: the codes are counted, not told apart.
FinishMfa(r) ==
    LET u == request[r].user
        b == request[r].browser
        method == request[r].method
        mail == IF method = "email" THEN {Key("EMAIL_OTP_SEND", b, u)} ELSE {}
    IN  /\ At(r, "verify")
        /\ FactorExists(r)
        /\ codes' = IF method = "recovery" THEN [codes EXCEPT ![u] = @ - 1] ELSE codes
        /\ ClearFailures({TotpKey(b, u, method)} \cup mail)
        /\ mailed' = [k \in MailKeys |-> IF k \in mail THEN 0 ELSE mailed[k]]
        /\ EndSignedIn(r, u, Finished(r))
        /\ UNCHANGED <<status, enabled, devices>>

\* A wrong code; a mailed one that is too old is forgotten.
VerifyFailed(r) ==
    LET copy == request[r].copy
        forgets == request[r].method = "email" /\ copy.otp # NoOtp /\ ~copy.otp.live
    IN  /\ At(r, "verify")
        /\ RegisterFailure(TotpKey(request[r].browser, request[r].user, request[r].method))
        /\ IF forgets THEN EndSaving(r, [copy EXCEPT !.otp = NoOtp]) ELSE End(r) /\ UNCHANGED session
        /\ UNCHANGED <<accountVars, mailed>>

-----------------------------------------------------------------------------
(* Enrolment *)

Unconfirmed(u) == DOMAIN devices[u] \ Confirmed(u)

\* totp_setup looks for the user's unconfirmed device.  It must not find two
\* (MultipleObjectsReturned).
Setup(r, b) ==
    LET u == session[b].user IN
    /\ Authenticated(session[b])
    /\ ~enabled[u]
    /\ Cardinality(Unconfirmed(u)) <= 1
    /\ IF Unconfirmed(u) = {} THEN Begin(r, b, "setup", u, "none", 0)
                              ELSE Begin(r, b, "check", u, "none", Min(Unconfirmed(u)))
    /\ UNCHANGED <<accountVars, throttle, session, mailed>>

\* get_or_create found none and inserts one.
CreateDevice(r) ==
    LET u == request[r].user IN
    /\ At(r, "setup")
    /\ Len(devices[u]) < MaxDevices[u]
    /\ devices' = [devices EXCEPT ![u] = Append(@, FALSE)]
    /\ request' = [request EXCEPT ![r].stage = "check", ![r].device = Len(devices[u]) + 1]
    /\ UNCHANGED <<status, enabled, codes, throttle, session, mailed>>

\* The page is shown, without a code or because there were too many.
ShowSetup(r) ==
    /\ At(r, "check")
    /\ End(r)
    /\ UNCHANGED <<accountVars, throttle, session, mailed>>

CheckSetup(r) ==
    /\ At(r, "check")
    /\ ~Throttled(Key("TOTP_SETUP", request[r].browser, request[r].user))
    /\ Goto(r, "confirm")
    /\ UNCHANGED <<accountVars, throttle, session, mailed>>

SetupFailed(r) ==
    /\ At(r, "confirm")
    /\ RegisterFailure(Key("TOTP_SETUP", request[r].browser, request[r].user))
    /\ End(r)
    /\ UNCHANGED <<accountVars, session, mailed>>

\* Fault: the user is marked before the device.
EnableFirst(r) ==
    /\ At(r, "confirm")
    /\ enabled' = [enabled EXCEPT ![request[r].user] = TRUE]
    /\ Goto(r, "enable")
    /\ UNCHANGED <<status, devices, codes, throttle, session, mailed>>

\* The code is right for the device: three statements follow, each committed
\* by itself.
ConfirmDevice(r) ==
    /\ At(r, "confirm")
    /\ devices' = [devices EXCEPT ![request[r].user][request[r].device] = TRUE]
    /\ Goto(r, "enable")
    /\ UNCHANGED <<status, enabled, codes, throttle, session, mailed>>

EnableUser(r) ==
    /\ At(r, "enable")
    /\ enabled' = [enabled EXCEPT ![request[r].user] = TRUE]
    /\ Goto(r, "issue")
    /\ UNCHANGED <<status, devices, codes, throttle, session, mailed>>

\* regenerate_recovery_codes
Regenerated(u) == [codes EXCEPT ![u] = CodeCount]

\* New recovery codes, and the session that is to show them once.
IssueCodes(r) ==
    LET u == request[r].user IN
    /\ At(r, "issue")
    /\ codes' = Regenerated(u)
    /\ ClearFailures({Key("TOTP_SETUP", request[r].browser, u)})
    /\ EndSaving(r, [request[r].copy EXCEPT !.device = request[r].device, !.shown = TRUE, !.proved = u])
    /\ UNCHANGED <<status, enabled, devices, mailed>>

-----------------------------------------------------------------------------
(* Using and leaving the session *)

\* recovery_codes shows the codes and forgets them.
ShowCodes(b) ==
    /\ Passes(session[b])
    /\ session[b].shown
    /\ session' = [session EXCEPT ![b].shown = FALSE]
    /\ UNCHANGED <<accountVars, throttle, request, mailed>>

\* logout_view, and mfa_required for a user who has enrolled since: the
\* session is emptied.
Leave(b) ==
    /\ Authenticated(session[b])
    /\ session' = [session EXCEPT ![b] = Empty]
    /\ request' = Renewed(b)
    /\ UNCHANGED <<accountVars, throttle, mailed>>

\* account_create
CreateAccount(u) ==
    /\ status[u] = "none"
    /\ status' = [status EXCEPT ![u] = "active"]
    /\ UNCHANGED <<enabled, devices, codes, throttle, session, request, mailed>>

\* account_status, by an administrator, who does not switch off superusers
ToggleStatus(u) ==
    /\ status[u] # "none"
    /\ u \notin Superusers
    /\ status' = [status EXCEPT ![u] = IF @ = "active" THEN "inactive" ELSE "active"]
    /\ UNCHANGED <<enabled, devices, codes, throttle, session, request, mailed>>

\* A worker dies; what it had committed stays.
Crash(r) ==
    /\ request[r].stage # "idle"
    /\ End(r)
    /\ UNCHANGED <<accountVars, throttle, session, mailed>>

\* Time passes: windows grow old, blocks run out and mailed codes expire.
Aged(row) ==
    LET older == [row EXCEPT !.age = Min({@ + 1, Window}), !.left = Max({@ - 1, 0})]
    IN  IF row = NoRow \/ (WindowOver(older) /\ older.left = 0) THEN NoRow ELSE older

Tick ==
    /\ throttle' = [k \in ThrottleKeys |-> Aged(throttle[k])]
    /\ mailed' = [k \in MailKeys |-> IF throttle'[k] = NoRow THEN 0 ELSE mailed[k]]
    /\ session' = [b \in Browsers |-> [session[b] EXCEPT !.otp.live = FALSE]]
    /\ request' = [r \in Requests |-> [request[r] EXCEPT !.copy.otp.live = FALSE]]
    /\ UNCHANGED accountVars

SignInInit ==
    /\ status = [u \in Users |-> IF u \in Superusers THEN "active" ELSE "none"]
    /\ enabled = [u \in Users |-> FALSE]
    /\ devices = [u \in Users |-> <<>>]
    /\ codes = [u \in Users |-> 0]
    /\ throttle = [k \in ThrottleKeys |-> NoRow]
    /\ session = [b \in Browsers |-> Empty]
    /\ request = [r \in Requests |-> Idle]
    /\ mailed = [k \in MailKeys |-> 0]

SignInNext ==
    \/ \E r \in Requests :
          \/ \E b \in Browsers :
                \/ \E u \in Users : Login(r, b, u)
                \/ Send(r, b)
                \/ \E method \in Methods : Verify(r, b, method)
                \/ Setup(r, b)
          \/ LoginRefused(r) \/ LoginAccepted(r)
          \/ CountSend(r) \/ (\E delivered \in BOOLEAN : Mail(r, delivered))
          \/ FinishMfa(r) \/ VerifyFailed(r)
          \/ CreateDevice(r) \/ ShowSetup(r) \/ CheckSetup(r) \/ SetupFailed(r)
          \/ ConfirmDevice(r) \/ EnableUser(r) \/ IssueCodes(r)
          \/ Crash(r)
    \/ \E b \in Browsers : VerifyLost(b) \/ ShowCodes(b) \/ Leave(b)
    \/ \E u \in Users : CreateAccount(u) \/ ToggleStatus(u)
    \/ Tick

SignInSpec == SignInInit /\ [][SignInNext]_signInVars

-----------------------------------------------------------------------------
(* Properties *)

\* Types; a request that runs belongs to a browser and concerns an account,
\* and no account has more recovery codes than were issued at a time.
SignInTypeOK ==
    /\ status \in [Users -> {"none", "active", "inactive"}]
    /\ enabled \in [Users -> BOOLEAN]
    /\ devices \in [Users -> Seq(BOOLEAN)]
    /\ codes \in [Users -> 0 .. CodeCount]
    /\ throttle \in [ThrottleKeys -> Row]
    /\ session \in [Browsers -> Session]
    /\ request \in [Requests -> Request]
    /\ mailed \in [MailKeys -> Nat]
    /\ \A r \in Requests :
          /\ request[r].stage # "idle" => request[r].browser \in Browsers /\ request[r].user \in Users
          /\ request[r].stage = "verify" => request[r].method \in Methods

\* Whoever passes mfa_required (accounts/views.py:72-88) has shown a second
\* factor of the account the session is signed in to, whatever was signed in
\* to in the browser before and whichever of its requests was saved last.
VerifiedAsSelf ==
    \A b \in Browsers : Passes(session[b]) => session[b].proved = session[b].user

\* Wherever totp_setup is cut off (accounts/views.py:268-275), an account that
\* asks for a second factor has a device that can give it.
EnabledHasDevice == \A u \in Users : enabled[u] => Confirmed(u) # {}

\* register_auth_failure (accounts/services.py:31-44): a key that is not
\* blocked has attempts left in its window, also right after a block, and only
\* the requests that were under way when it was blocked go beyond the limit.
AttemptsLeft ==
    \A k \in ThrottleKeys :
        LET row == throttle[k] IN
        /\ row.left > 0 \/ row.attempts < Limit[k[1]]
        /\ row.attempts < Limit[k[1]] + Cardinality(Requests)

\* However many requests ask at a time, fewer codes than the limit are mailed
\* while the throttle counts them (accounts/views.py:164-169).
MailsBounded == \A k \in MailKeys : mailed[k] < Limit["EMAIL_OTP_SEND"]

=============================================================================
