---------------------------- MODULE SignIn_proofs ----------------------------
(***************************************************************************)
(* Proofs about SignIn, for any accounts, browsers, limits and windows, and *)
(* any finite number of concurrent requests.                               *)
(*                                                                         *)
(* No property of SignIn is inductive: each follows from what a request    *)
(* carries from the step that read it to the step that uses it.            *)
(* OwnFactors says it of the copies of sessions, Devices of the device     *)
(* that is being confirmed, Blocks of the requests that have passed        *)
(* is_throttled, and Mails of the row an attempt is counted in.            *)
(***************************************************************************)
EXTENDS SignIn, Sums

-----------------------------------------------------------------------------
(* Types *)

\* A request that runs belongs to a browser and concerns an account.
Running(q) ==
    /\ q.stage # "idle" => q.browser \in Browsers /\ q.user \in Users
    /\ q.stage = "verify" => q.method \in Methods
TypedRequests == request \in [Requests -> Request] /\ \A r \in Requests : Running(request[r])
TypedSessions == session \in [Browsers -> Session]
TypedThrottle == throttle \in [ThrottleKeys -> Row]
TypedAccounts ==
    /\ status \in [Users -> {"none", "active", "inactive"}]
    /\ enabled \in [Users -> BOOLEAN]
    /\ devices \in [Users -> Seq(BOOLEAN)]
    /\ codes \in [Users -> 0 .. CodeCount]

LEMMA TypeParts ==
  SignInTypeOK <=> /\ TypedAccounts
                   /\ TypedThrottle
                   /\ TypedSessions
                   /\ TypedRequests
                   /\ mailed \in [MailKeys -> Nat]
  BY DEF SignInTypeOK, TypedAccounts, TypedThrottle, TypedSessions, TypedRequests, Running

\* What requests are made of.
LEMMA EmptyTyped == Empty \in Session /\ NoOtp \in Otp
  BY DEF Empty, Session, NoOtp, Otp

LEMMA IdleTyped == Idle \in Request /\ Running(Idle)
  BY EmptyTyped DEF Idle, Request, Running, Stages

LEMMA EndTyped ==
  ASSUME TypedRequests, NEW r \in Requests, End(r)
  PROVE  TypedRequests'
  BY IdleTyped DEF TypedRequests, End

LEMMA GotoTyped ==
  ASSUME TypedRequests, NEW r \in Requests, NEW stage \in Stages \ {"verify"}, Goto(r, stage),
         request[r].stage # "idle"
  PROVE  TypedRequests'
<1> DEFINE q == [request[r] EXCEPT !.stage = stage]
<1>1. q \in Request /\ Running(q)
  BY DEF TypedRequests, Request, Running
<1>2. request' = [request EXCEPT ![r] = q]
  BY DEF Goto
<1> HIDE DEF q
<1> QED
  BY <1>1, <1>2 DEF TypedRequests

LEMMA BeginTyped ==
  ASSUME TypedRequests, TypedSessions, NEW r \in Requests, NEW b \in Browsers, NEW stage \in Stages,
         NEW u \in Users, NEW method \in Methods \cup {"email", "none"}, stage = "verify" => method \in Methods,
         NEW device \in Nat, Begin(r, b, stage, u, method, device)
  PROVE  TypedRequests'
<1> DEFINE q == [stage |-> stage, browser |-> b, user |-> u, method |-> method,
                 copy |-> session[b], current |-> TRUE, device |-> device]
<1>1. q \in Request /\ Running(q)
  BY DEF TypedSessions, Request, Running
<1>2. request' = [request EXCEPT ![r] = q]
  BY DEF Begin
<1> HIDE DEF q
<1> QED
  BY <1>1, <1>2 DEF TypedRequests

LEMMA SavingTyped ==
  ASSUME TypedRequests, TypedSessions, NEW r \in Requests, NEW sess \in Session, EndSaving(r, sess)
  PROVE  TypedRequests' /\ TypedSessions'
  BY EndTyped DEF EndSaving, TypedSessions

LEMMA RenewedTyped ==
  ASSUME TypedRequests, NEW b
  PROVE  /\ Renewed(b) \in [Requests -> Request]
         /\ \A r \in Requests : Running(Renewed(b)[r])
<1>1. \A q \in Request : /\ [q EXCEPT !.current = FALSE] \in Request
                         /\ Running(q) => Running([q EXCEPT !.current = FALSE])
  BY DEF Request, Running
<1> QED
  BY <1>1 DEF TypedRequests, Renewed

LEMMA SignedInTyped ==
  ASSUME TypedRequests, TypedSessions, NEW r \in Requests, NEW u, NEW sess \in Session,
         EndSignedIn(r, u, sess)
  PROVE  TypedRequests' /\ TypedSessions'
<1>1. CASE request[r].copy.user = u
  BY <1>1, SavingTyped DEF EndSignedIn
<1>2. CASE request[r].copy.user # u
  <2>1. request' = [Renewed(request[r].browser) EXCEPT ![r] = Idle]
    BY <1>2 DEF EndSignedIn
  <2>2. session' = [session EXCEPT ![request[r].browser] = sess]
    BY <1>2 DEF EndSignedIn
  <2> QED
    BY <2>1, <2>2, RenewedTyped, IdleTyped DEF TypedRequests, TypedSessions
<1> QED
  BY <1>1, <1>2

LEMMA LoginTyped ==
  ASSUME NEW sess \in Session, NEW u \in Users
  PROVE  AuthLogin(sess, u) \in Session
  BY EmptyTyped DEF AuthLogin, Session

-----------------------------------------------------------------------------
(* Throttles *)

LEMMA MinPair ==
  ASSUME NEW a \in Int, NEW b \in Int
  PROVE  Min({a, b}) = IF a <= b THEN a ELSE b
  BY DEF Min

LEMMA MaxPair ==
  ASSUME NEW a \in Int, NEW b \in Int
  PROVE  Max({a, b}) = IF a >= b THEN a ELSE b
  BY DEF Max

LEMMA NoRowTyped == NoRow \in Row /\ NoRow.attempts = 0
  BY SignInAssumption DEF NoRow, Row

\* Counting a failure: the row starts afresh or goes on, and is blocked at
\* the limit.
LEMMA Registered ==
  ASSUME NEW row \in Row, NEW limit
  PROVE  LET fresh == row.attempts = 0 \/ WindowOver(row)
             new == Register(row, limit)
         IN  /\ new \in Row
             /\ new.attempts = IF fresh THEN 1 ELSE row.attempts + 1
             /\ new.age = IF fresh THEN 0 ELSE row.age
             /\ new.left = IF new.attempts >= limit THEN Block ELSE row.left
  BY SignInAssumption DEF Row, Register, WindowOver

\* Time: a row grows older and its block runs out, until it counts nothing.
LEMMA AgedRow ==
  ASSUME NEW row \in Row
  PROVE  /\ Aged(row) \in Row
         /\ \/ Aged(row) = NoRow
            \/ /\ Aged(row).attempts = row.attempts
               /\ Aged(row).age = IF row.age + 1 <= Window THEN row.age + 1 ELSE Window
               /\ Aged(row).left = IF row.left >= 1 THEN row.left - 1 ELSE 0
               /\ Aged(row).age < Window \/ Aged(row).left # 0
<1> DEFINE age == IF row.age + 1 <= Window THEN row.age + 1 ELSE Window
           left == IF row.left >= 1 THEN row.left - 1 ELSE 0
           older == [row EXCEPT !.age = Min({@ + 1, Window}), !.left = Max({@ - 1, 0})]
<1>1. /\ row.age \in 0 .. Window /\ row.left \in 0 .. Block /\ row.attempts \in Nat
      /\ Window \in Nat \ {0} /\ Block \in Nat
  BY SignInAssumption DEF Row
<1>2. Min({row.age + 1, Window}) = age
  BY <1>1, MinPair
<1>3. Max({row.left - 1, 0}) = left
  BY <1>1, MaxPair
<1>4. age \in 0 .. Window /\ left \in 0 .. Block
  BY <1>1
<1> HIDE DEF age, left
<1>5. older = [row EXCEPT !.age = age, !.left = left]
  BY <1>2, <1>3
<1>6. older \in Row /\ older.attempts = row.attempts /\ older.age = age /\ older.left = left
  BY <1>4, <1>5 DEF Row
<1> HIDE DEF older
<1>7. Aged(row) = IF row = NoRow \/ (WindowOver(older) /\ older.left = 0) THEN NoRow ELSE older
  BY DEF Aged, older
<1>8. WindowOver(older) <=> age >= Window
  BY <1>6 DEF WindowOver
<1>9. CASE Aged(row) = NoRow
  BY <1>9, NoRowTyped
<1>10. CASE Aged(row) # NoRow
  <2>1. Aged(row) = older /\ ~(age >= Window /\ left = 0)
    BY <1>6, <1>7, <1>8, <1>10
  <2> QED
    BY <1>1, <1>4, <1>6, <2>1 DEF age, left
<1> QED
  BY <1>9, <1>10

LEMMA KeysAre ==
  ASSUME NEW b \in Browsers, NEW u \in Users
  PROVE  /\ \A action \in Actions \ {"TOTP"} : Key(action, b, u) \in ThrottleKeys /\ Key(action, b, u)[1] = action
         /\ \A method \in Methods : TotpKey(b, u, method) \in ThrottleKeys /\ TotpKey(b, u, method)[1] = "TOTP"
         /\ Key("EMAIL_OTP_SEND", b, u) \in MailKeys
  BY DEF Key, TotpKey, ThrottleKeys, MailKeys, Actions

LEMMA MailKeysAre ==
  ASSUME NEW k \in MailKeys
  PROVE  k \in ThrottleKeys /\ k[1] = "EMAIL_OTP_SEND"
<1>1. PICK b \in Browsers, u \in Users : k = Key("EMAIL_OTP_SEND", b, u)
  BY DEF MailKeys
<1>2. "EMAIL_OTP_SEND" \in Actions \ {"TOTP"}
  BY DEF Actions
<1> QED
  BY <1>1, <1>2, KeysAre

LEMMA LimitOf ==
  ASSUME NEW k \in ThrottleKeys
  PROVE  k[1] \in Actions /\ Limit[k[1]] \in Nat \ {0}
<1>1. k[1] \in Actions
  BY DEF ThrottleKeys, Actions
<1> QED
  BY <1>1, SignInAssumption

LEMMA FailureTyped ==
  ASSUME TypedThrottle, NEW key \in ThrottleKeys, RegisterFailure(key)
  PROVE  TypedThrottle'
<1>1. Register(throttle[key], Limit[key[1]]) \in Row
  BY Registered DEF TypedThrottle
<1>2. throttle' = [throttle EXCEPT ![key] = Register(throttle[key], Limit[key[1]])]
  BY DEF RegisterFailure
<1> QED
  BY <1>1, <1>2 DEF TypedThrottle

LEMMA ClearTyped ==
  ASSUME TypedThrottle, NEW keys, ClearFailures(keys)
  PROVE  TypedThrottle'
  BY NoRowTyped DEF TypedThrottle, ClearFailures

\* A request that is under way has a key of its own to count a failure by.
LEMMA RequestIs ==
  ASSUME TypedRequests, NEW r \in Requests
  PROVE  /\ request[r] \in Request /\ request[r].copy \in Session /\ request[r].device \in Nat
         /\ request[r].stage # "idle" =>
               /\ request[r].browser \in Browsers /\ request[r].user \in Users
               /\ Key("LOGIN", request[r].browser, request[r].user) \in ThrottleKeys
               /\ Key("TOTP_SETUP", request[r].browser, request[r].user) \in ThrottleKeys
               /\ Key("EMAIL_OTP_SEND", request[r].browser, request[r].user) \in ThrottleKeys
               /\ Key("EMAIL_OTP_SEND", request[r].browser, request[r].user) \in MailKeys
         /\ request[r].stage = "verify" =>
               /\ request[r].method \in Methods
               /\ TotpKey(request[r].browser, request[r].user, request[r].method) \in ThrottleKeys
<1>1. request[r] \in Request /\ Running(request[r])
  BY DEF TypedRequests
<1>2. request[r].copy \in Session /\ request[r].device \in Nat
  BY <1>1 DEF Request
<1>3. {"LOGIN", "TOTP_SETUP", "EMAIL_OTP_SEND"} \subseteq Actions \ {"TOTP"}
  BY DEF Actions
<1> QED
  BY <1>1, <1>2, <1>3, KeysAre DEF Running

\* Devices are numbered from 1.
LEMMA DevicesAre ==
  ASSUME TypedAccounts, NEW u \in Users
  PROVE  /\ devices[u] \in Seq(BOOLEAN)
         /\ Confirmed(u) \subseteq Nat \ {0} /\ Unconfirmed(u) \subseteq Nat \ {0}
         /\ Confirmed(u) \cup Unconfirmed(u) = DOMAIN devices[u]
         /\ Confirmed(u) # {} => Min(Confirmed(u)) \in Confirmed(u)
         /\ Unconfirmed(u) # {} => Min(Unconfirmed(u)) \in Unconfirmed(u)
<1>1. devices[u] \in Seq(BOOLEAN)
  BY DEF TypedAccounts
<1>2. DOMAIN devices[u] \subseteq Nat \ {0}
  BY <1>1
<1>3. Confirmed(u) \subseteq DOMAIN devices[u] /\ Confirmed(u) \cup Unconfirmed(u) = DOMAIN devices[u]
  BY DEF Confirmed, Unconfirmed
<1>4. ASSUME NEW S \in SUBSET Nat, S # {} PROVE Min(S) \in S
  BY <1>4, LeastElement DEF Min
<1>5. Confirmed(u) \subseteq Nat \ {0} /\ Unconfirmed(u) \subseteq Nat \ {0}
  BY <1>2, <1>3
<1>6. Confirmed(u) \in SUBSET Nat /\ Unconfirmed(u) \in SUBSET Nat
  BY <1>5
<1> QED
  BY <1>1, <1>3, <1>4, <1>5, <1>6

LEMMA MarkedTyped ==
  ASSUME NEW marks \in Seq(BOOLEAN), NEW i
  PROVE  /\ [marks EXCEPT ![i] = TRUE] \in Seq(BOOLEAN)
         /\ DOMAIN [marks EXCEPT ![i] = TRUE] = DOMAIN marks
         /\ \A j \in DOMAIN marks : [marks EXCEPT ![i] = TRUE][j] = (marks[j] \/ j = i)
<1>1. \A j \in DOMAIN marks : marks[j] \in BOOLEAN
  OBVIOUS
<1>2. \A j \in DOMAIN marks : [marks EXCEPT ![i] = TRUE][j] = IF j = i THEN TRUE ELSE marks[j]
  OBVIOUS
<1>3. \A j \in DOMAIN marks : (IF j = i THEN TRUE ELSE marks[j]) = (marks[j] \/ j = i)
  BY <1>1
<1>4. [marks EXCEPT ![i] = TRUE] \in Seq(BOOLEAN)
  <2> DEFINE new == [marks EXCEPT ![i] = TRUE]
  <2>1. DOMAIN new = 1 .. Len(marks) /\ Len(marks) \in Nat
    OBVIOUS
  <2>2. \A j \in DOMAIN marks : new[j] \in BOOLEAN
    BY <1>1
  <2>3. new = [j \in 1 .. Len(marks) |-> new[j]] /\ DOMAIN marks = 1 .. Len(marks)
    BY <2>1
  <2> HIDE DEF new
  <2>4. new \in [1 .. Len(marks) -> BOOLEAN]
    BY <2>2, <2>3
  <2>5. new \in Seq(BOOLEAN)
    BY <2>1, <2>4
  <2> QED
    BY <2>5 DEF new
<1>5. \A j \in DOMAIN marks : [marks EXCEPT ![i] = TRUE][j] = (marks[j] \/ j = i)
  BY <1>2, <1>3, Zenon
<1> QED
  BY <1>4, <1>5

LEMMA FinishedTyped ==
  ASSUME TypedAccounts, TypedRequests, NEW r \in Requests, request[r].stage = "verify", FactorExists(r)
  PROVE  Finished(r) \in Session
<1> DEFINE u == request[r].user
           sess == AuthLogin(request[r].copy, u)
           device == IF request[r].method = "totp" THEN Min(Confirmed(u)) ELSE sess.device
<1>1. u \in Users /\ request[r].copy \in Session
  BY RequestIs
<1>2. sess \in Session
  BY <1>1, LoginTyped
<1>3. device \in Nat
  <2>1. CASE request[r].method = "totp"
    <3>1. Confirmed(u) # {}
      BY <2>1 DEF FactorExists
    <3>2. Min(Confirmed(u)) \in Nat
      BY <1>1, <3>1, DevicesAre
    <3> QED
      BY <2>1, <3>2
  <2>2. CASE request[r].method # "totp"
    BY <1>2, <2>2 DEF Session
  <2> QED
    BY <2>1, <2>2
<1>4. NoOtp \in Otp
  BY EmptyTyped
<1> HIDE DEF u, sess, device
<1>5. Finished(r) = [sess EXCEPT !.device = device,
                     !.recovery = @ \/ request[r].method = "recovery",
                     !.mfa = @ \/ request[r].method = "email",
                     !.preauth = Nobody, !.otp = NoOtp, !.proved = u]
  BY DEF Finished, u, sess, device
<1> QED
  BY <1>1, <1>2, <1>3, <1>4, <1>5 DEF Session

LEMMA SignInTypeInit == SignInInit => SignInTypeOK
<1> SUFFICES ASSUME SignInInit PROVE SignInTypeOK
  OBVIOUS
<1>1. TypedAccounts
  BY SignInAssumption DEF SignInInit, TypedAccounts
<1>2. TypedThrottle /\ TypedSessions /\ TypedRequests /\ mailed \in [MailKeys -> Nat]
  BY NoRowTyped, EmptyTyped, IdleTyped DEF SignInInit, TypedThrottle, TypedSessions, TypedRequests
<1> QED
  BY <1>1, <1>2, TypeParts

\* The accounts, the throttles and the mails.
LEMMA AccountsStep ==
  ASSUME SignInTypeOK, [SignInNext]_signInVars
  PROVE  TypedAccounts'
<1>0. TypedAccounts /\ TypedRequests
  BY TypeParts
<1>a. ASSUME UNCHANGED accountVars PROVE TypedAccounts'
  BY <1>0, <1>a DEF accountVars, TypedAccounts
<1>1. ASSUME NEW r \in Requests, FinishMfa(r) PROVE TypedAccounts'
  <2>1. /\ FactorExists(r) /\ request[r].user \in Users
        /\ codes' = IF request[r].method = "recovery" THEN [codes EXCEPT ![request[r].user] = @ - 1] ELSE codes
        /\ UNCHANGED <<status, enabled, devices>>
    BY <1>0, <1>1, RequestIs DEF FinishMfa, At
  <2>2. request[r].method = "recovery" => codes[request[r].user] > 0
    BY <2>1 DEF FactorExists
  <2> QED
    BY <1>0, <2>1, <2>2, SignInAssumption DEF TypedAccounts
<1>2. ASSUME NEW r \in Requests, CreateDevice(r) PROVE TypedAccounts'
  <2>1. request[r].user \in Users
    BY <1>0, <1>2, RequestIs DEF CreateDevice, At
  <2>2. /\ devices' = [devices EXCEPT ![request[r].user] = Append(devices[request[r].user], FALSE)]
        /\ UNCHANGED <<status, enabled, codes>>
    BY <1>2 DEF CreateDevice
  <2>3. Append(devices[request[r].user], FALSE) \in Seq(BOOLEAN)
    BY <1>0, <2>1, DevicesAre
  <2> QED
    BY <1>0, <2>1, <2>2, <2>3 DEF TypedAccounts
<1>3. ASSUME NEW r \in Requests, ConfirmDevice(r) PROVE TypedAccounts'
  <2> DEFINE u == request[r].user
             d == [devices[u] EXCEPT ![request[r].device] = TRUE]
  <2>1. u \in Users
    BY <1>0, <1>3, RequestIs DEF ConfirmDevice, At
  <2>2. devices' = [devices EXCEPT ![u] = d] /\ UNCHANGED <<status, enabled, codes>>
    BY <1>3 DEF ConfirmDevice
  <2>3. d \in Seq(BOOLEAN)
    <3>1. devices[u] \in Seq(BOOLEAN)
      BY <1>0, <2>1, DevicesAre
    <3> HIDE DEF u
    <3> QED
      BY <3>1, MarkedTyped
  <2> HIDE DEF u, d
  <2> QED
    BY <1>0, <2>1, <2>2, <2>3 DEF TypedAccounts
<1>4. ASSUME NEW r \in Requests, EnableUser(r) PROVE TypedAccounts'
  BY <1>0, <1>4 DEF EnableUser, TypedAccounts
<1>5. ASSUME NEW r \in Requests, IssueCodes(r) PROVE TypedAccounts'
  <2>1. codes' = [codes EXCEPT ![request[r].user] = CodeCount] /\ UNCHANGED <<status, enabled, devices>>
    BY <1>5 DEF IssueCodes, Regenerated
  <2>2. CodeCount \in 0 .. CodeCount
    BY SignInAssumption
  <2> QED
    BY <1>0, <2>1, <2>2 DEF TypedAccounts
<1>6. ASSUME NEW u \in Users, CreateAccount(u) \/ ToggleStatus(u) PROVE TypedAccounts'
  BY <1>0, <1>6 DEF CreateAccount, ToggleStatus, TypedAccounts
<1> QED
  <2> USE <1>a DEF accountVars
  <2>1. ASSUME NEW r \in Requests, NEW b \in Browsers, NEW u \in Users, Login(r, b, u) PROVE TypedAccounts'
    BY <2>1 DEF Login
  <2>2. ASSUME NEW r \in Requests, NEW b \in Browsers, Send(r, b) \/ Setup(r, b) PROVE TypedAccounts'
    BY <2>2 DEF Send, Setup
  <2>3. ASSUME NEW r \in Requests, NEW b \in Browsers, NEW method \in Methods, Verify(r, b, method)
        PROVE  TypedAccounts'
    BY <2>3 DEF Verify
  <2>4. ASSUME NEW r \in Requests,
               \/ LoginRefused(r) \/ LoginAccepted(r) \/ CountSend(r) \/ VerifyFailed(r)
               \/ ShowSetup(r) \/ CheckSetup(r) \/ SetupFailed(r) \/ Crash(r)
        PROVE  TypedAccounts'
    BY <2>4 DEF LoginRefused, LoginAccepted, CountSend, VerifyFailed, ShowSetup, CheckSetup, SetupFailed, Crash
  <2>5. ASSUME NEW r \in Requests, NEW delivered \in BOOLEAN, Mail(r, delivered) PROVE TypedAccounts'
    BY <2>5 DEF Mail
  <2>6. ASSUME NEW b \in Browsers, VerifyLost(b) \/ ShowCodes(b) \/ Leave(b) PROVE TypedAccounts'
    BY <2>6 DEF VerifyLost, ShowCodes, Leave
  <2>7. CASE Tick
    BY <2>7 DEF Tick
  <2>8. CASE UNCHANGED signInVars
    BY <2>8 DEF signInVars
  <2> QED
    BY <1>1, <1>2, <1>3, <1>4, <1>5, <1>6, <2>1, <2>2, <2>3, <2>4, <2>5, <2>6, <2>7, <2>8 DEF SignInNext

LEMMA ThrottleStep ==
  ASSUME SignInTypeOK, [SignInNext]_signInVars
  PROVE  TypedThrottle'
<1>0. TypedThrottle /\ TypedRequests
  BY TypeParts
<1>a. ASSUME UNCHANGED throttle PROVE TypedThrottle'
  BY <1>0, <1>a DEF TypedThrottle
<1>b. ASSUME NEW key \in ThrottleKeys, RegisterFailure(key) PROVE TypedThrottle'
  BY <1>0, <1>b, FailureTyped
<1>c. ASSUME NEW keys, ClearFailures(keys) PROVE TypedThrottle'
  BY <1>0, <1>c, ClearTyped
<1>1. ASSUME NEW r \in Requests, LoginRefused(r) \/ CountSend(r) \/ VerifyFailed(r) \/ SetupFailed(r)
      PROVE  TypedThrottle'
  <2>1. \E key \in ThrottleKeys : RegisterFailure(key)
    BY <1>0, <1>1, RequestIs DEF LoginRefused, CountSend, VerifyFailed, SetupFailed, At
  <2> QED
    BY <1>b, <2>1
<1>2. ASSUME NEW r \in Requests, LoginAccepted(r) \/ FinishMfa(r) \/ IssueCodes(r) PROVE TypedThrottle'
  <2>1. \E keys : ClearFailures(keys)
    BY <1>2, Zenon DEF LoginAccepted, FinishMfa, IssueCodes
  <2> QED
    BY <1>c, <2>1
<1>3. CASE Tick
  BY <1>0, <1>3, AgedRow DEF Tick, TypedThrottle
<1>4. ASSUME NEW r \in Requests, NEW b \in Browsers, NEW u \in Users, Login(r, b, u) PROVE TypedThrottle'
  BY <1>4, <1>a DEF Login
<1>5. ASSUME NEW r \in Requests, NEW b \in Browsers, Send(r, b) \/ Setup(r, b) PROVE TypedThrottle'
  BY <1>5, <1>a DEF Send, Setup
<1>6. ASSUME NEW r \in Requests, NEW b \in Browsers, NEW method \in Methods, Verify(r, b, method)
      PROVE  TypedThrottle'
  BY <1>6, <1>a DEF Verify
<1>7. ASSUME NEW r \in Requests, \/ CreateDevice(r) \/ ShowSetup(r) \/ CheckSetup(r) \/ ConfirmDevice(r)
                                 \/ EnableUser(r) \/ Crash(r)
      PROVE  TypedThrottle'
  BY <1>7, <1>a DEF CreateDevice, ShowSetup, CheckSetup, ConfirmDevice, EnableUser, Crash
<1>8. ASSUME NEW r \in Requests, NEW delivered \in BOOLEAN, Mail(r, delivered) PROVE TypedThrottle'
  BY <1>8, <1>a DEF Mail
<1>9. ASSUME NEW b \in Browsers, VerifyLost(b) \/ ShowCodes(b) \/ Leave(b) PROVE TypedThrottle'
  BY <1>9, <1>a DEF VerifyLost, ShowCodes, Leave
<1>10. ASSUME NEW u \in Users, CreateAccount(u) \/ ToggleStatus(u) PROVE TypedThrottle'
  BY <1>10, <1>a DEF CreateAccount, ToggleStatus
<1>11. CASE UNCHANGED signInVars
  BY <1>11, <1>a DEF signInVars
<1> QED
  BY <1>1, <1>2, <1>3, <1>4, <1>5, <1>6, <1>7, <1>8, <1>9, <1>10, <1>11 DEF SignInNext

\* What may happen to the sessions and the requests in a step.
LEMMA SessionsStep ==
  ASSUME SignInTypeOK, [SignInNext]_signInVars
  PROVE  TypedSessions' /\ TypedRequests'
<1>0. TypedAccounts /\ TypedSessions /\ TypedRequests
  BY TypeParts
<1> DEFINE Goal == TypedSessions' /\ TypedRequests'
<1>a. ASSUME UNCHANGED session PROVE TypedSessions'
  BY <1>0, <1>a DEF TypedSessions
<1>b. ASSUME UNCHANGED request PROVE TypedRequests'
  BY <1>0, <1>b DEF TypedRequests
<1>s. ASSUME NEW b \in Browsers PROVE session[b] \in Session
  BY <1>0 DEF TypedSessions
<1>u. ASSUME NEW b \in Browsers, session[b].user \in Users \cup {Nobody}, session[b].preauth \in Users \cup {Nobody}
      PROVE  /\ IsActive(session[b].user) => session[b].user \in Users
             /\ IsActive(session[b].preauth) => session[b].preauth \in Users
  BY <1>u DEF IsActive
<1>v. ASSUME NEW b \in Browsers
      PROVE  session[b].user \in Users \cup {Nobody} /\ session[b].preauth \in Users \cup {Nobody}
  BY <1>s DEF Session
<1>1. ASSUME NEW r \in Requests, NEW b \in Browsers, NEW u \in Users, Login(r, b, u) PROVE Goal
  <2>1. Begin(r, b, "login", u, "none", 0)
    BY <1>1 DEF Login
  <2>2. TypedRequests'
    BY <1>0, <2>1, BeginTyped DEF Stages
  <2> QED
    BY <1>1, <1>a, <2>2 DEF Login
<1>2. ASSUME NEW r \in Requests, NEW b \in Browsers, Send(r, b) PROVE Goal
  <2> DEFINE u == session[b].preauth
  <2>1. Begin(r, b, "send", u, "email", 0) /\ u \in Users
    BY <1>2, <1>u, <1>v DEF Send
  <2>2. TypedRequests'
    BY <1>0, <2>1, BeginTyped DEF Stages
  <2> QED
    BY <1>2, <1>a, <2>2 DEF Send
<1>3. ASSUME NEW r \in Requests, NEW b \in Browsers, NEW method \in Methods, Verify(r, b, method) PROVE Goal
  <2> DEFINE u == session[b].preauth
  <2>1. Begin(r, b, "verify", u, method, 0) /\ u \in Users /\ method \in Methods \cup {"email", "none"}
    BY <1>3, <1>u, <1>v DEF Verify
  <2> HIDE DEF u
  <2>2. TypedRequests'
    <3>1. PICK stage : stage = "verify"
      OBVIOUS
    <3>2. stage \in Stages /\ Begin(r, b, stage, u, method, 0) /\ (stage = "verify" => method \in Methods)
      BY <2>1, <3>1 DEF Stages
    <3> QED
      BY <1>0, <2>1, <3>2, 0 \in Nat, BeginTyped
  <2> QED
    BY <1>3, <1>a, <2>2 DEF Verify
<1>4. ASSUME NEW r \in Requests, NEW b \in Browsers, Setup(r, b) PROVE Goal
  <2> DEFINE u == session[b].user
  <2>1. u \in Users
    BY <1>4, <1>u, <1>v DEF Setup, Authenticated
  <2>2. ASSUME Unconfirmed(u) = {} PROVE TypedRequests'
    <3>1. Begin(r, b, "setup", u, "none", 0)
      BY <1>4, <2>2 DEF Setup
    <3> HIDE DEF u
    <3> QED
      BY <1>0, <2>1, <3>1, BeginTyped DEF Stages
  <2>3. ASSUME Unconfirmed(u) # {} PROVE TypedRequests'
    <3>1. Begin(r, b, "check", u, "none", Min(Unconfirmed(u)))
      BY <1>4, <2>3 DEF Setup
    <3>2. Min(Unconfirmed(u)) \in Nat
      BY <1>0, <2>1, <2>3, DevicesAre
    <3> HIDE DEF u
    <3> QED
      BY <1>0, <2>1, <3>1, <3>2, BeginTyped DEF Stages
  <2> QED
    BY <1>4, <1>a, <2>2, <2>3 DEF Setup
<1>5. ASSUME NEW r \in Requests, LoginRefused(r) \/ ShowSetup(r) \/ SetupFailed(r) \/ Crash(r) PROVE Goal
  <2>1. End(r) /\ UNCHANGED session
    BY <1>5 DEF LoginRefused, ShowSetup, SetupFailed, Crash
  <2> QED
    BY <1>0, <1>a, <2>1, EndTyped
<1>6. ASSUME NEW r \in Requests, CheckSetup(r) \/ ConfirmDevice(r) \/ EnableUser(r) PROVE Goal
  <2>1. /\ \E stage \in Stages \ {"verify"} : Goto(r, stage)
        /\ request[r].stage # "idle" /\ UNCHANGED session
    BY <1>6 DEF CheckSetup, ConfirmDevice, EnableUser, Stages, At
  <2> QED
    BY <1>0, <1>a, <2>1, GotoTyped
<1>7. ASSUME NEW r \in Requests, CountSend(r) PROVE Goal
  <2>1. /\ Goto(r, "mail") \/ End(r)
        /\ request[r].stage # "idle" /\ UNCHANGED session
    BY <1>7 DEF CountSend, At
  <2> QED
    BY <1>0, <1>a, <2>1, GotoTyped, EndTyped DEF Stages
<1>8. ASSUME NEW r \in Requests, CreateDevice(r) PROVE Goal
  <2> DEFINE q == [request[r] EXCEPT !.stage = "check", !.device = Len(devices[request[r].user]) + 1]
  <2>1. request' = [request EXCEPT ![r] = q] /\ UNCHANGED session /\ request[r].stage = "setup"
    BY <1>8 DEF CreateDevice, At
  <2>2. Len(devices[request[r].user]) + 1 \in Nat
    BY <1>0, <2>1, RequestIs, DevicesAre
  <2>3. q \in Request /\ Running(q)
    BY <1>0, <2>1, <2>2, RequestIs DEF Request, Running, Stages
  <2> HIDE DEF q
  <2> QED
    BY <1>0, <1>a, <2>1, <2>3 DEF TypedRequests
<1>9. ASSUME NEW r \in Requests, LoginAccepted(r) PROVE Goal
  <2> DEFINE u == request[r].user
             copy == request[r].copy
             sess == [copy EXCEPT !.preauth = u, !.mfa = FALSE, !.recovery = FALSE, !.otp = NoOtp]
  <2>1. u \in Users /\ copy \in Session
    BY <1>0, <1>9, RequestIs DEF LoginAccepted, At
  <2>2. sess \in Session
    BY <2>1, EmptyTyped DEF Session
  <2>3. AuthLogin(copy, u) \in Session
    BY <2>1, LoginTyped
  <2>4. EndSaving(r, sess) \/ EndSignedIn(r, u, AuthLogin(copy, u))
    BY <1>9 DEF LoginAccepted
  <2> HIDE DEF sess
  <2> QED
    BY <1>0, <2>2, <2>3, <2>4, SavingTyped, SignedInTyped
<1>10. ASSUME NEW r \in Requests, NEW delivered \in BOOLEAN, Mail(r, delivered) PROVE Goal
  <2> DEFINE otp == IF delivered THEN [user |-> request[r].user, live |-> TRUE] ELSE NoOtp
             sess == [request[r].copy EXCEPT !.otp = otp]
  <2>1. EndSaving(r, sess) /\ request[r].stage # "idle"
    BY <1>10 DEF Mail, At
  <2>2. otp \in Otp
    BY <1>0, <2>1, RequestIs, EmptyTyped DEF Otp
  <2> HIDE DEF otp
  <2>3. sess \in Session
    BY <1>0, <2>2, RequestIs DEF Session
  <2> HIDE DEF sess
  <2> QED
    BY <1>0, <2>1, <2>3, SavingTyped
<1>11. ASSUME NEW r \in Requests, FinishMfa(r) PROVE Goal
  <2>1. /\ request[r].stage = "verify" /\ FactorExists(r)
        /\ EndSignedIn(r, request[r].user, Finished(r))
    BY <1>11 DEF FinishMfa, At
  <2>2. Finished(r) \in Session
    BY <1>0, <2>1, FinishedTyped
  <2> QED
    BY <1>0, <2>1, <2>2, SignedInTyped
<1>12. ASSUME NEW r \in Requests, VerifyFailed(r) PROVE Goal
  <2>1. \/ EndSaving(r, [request[r].copy EXCEPT !.otp = NoOtp])
        \/ End(r) /\ UNCHANGED session
    BY <1>12 DEF VerifyFailed
  <2>2. [request[r].copy EXCEPT !.otp = NoOtp] \in Session
    BY <1>0, RequestIs, EmptyTyped DEF Session
  <2> QED
    BY <1>0, <1>a, <2>1, <2>2, SavingTyped, EndTyped
<1>13. ASSUME NEW r \in Requests, IssueCodes(r) PROVE Goal
  <2> DEFINE u == request[r].user
             sess == [request[r].copy EXCEPT !.device = request[r].device, !.shown = TRUE, !.proved = u]
  <2>1. EndSaving(r, sess) /\ request[r].stage # "idle"
    BY <1>13 DEF IssueCodes, At
  <2>2. sess \in Session
    BY <1>0, <2>1, RequestIs DEF Session
  <2> HIDE DEF sess
  <2> QED
    BY <1>0, <2>1, <2>2, SavingTyped
<1>14. ASSUME NEW b \in Browsers, VerifyLost(b) \/ ShowCodes(b) PROVE Goal
  <2>1. /\ [session[b] EXCEPT !.preauth = Nobody] \in Session
        /\ [session[b] EXCEPT !.shown = FALSE] \in Session
    BY <1>s DEF Session
  <2>2. /\ \E sess \in Session : session' = [session EXCEPT ![b] = sess]
        /\ UNCHANGED request
    BY <1>14, <2>1 DEF VerifyLost, ShowCodes
  <2> QED
    BY <1>0, <1>b, <2>2 DEF TypedSessions
<1>15. ASSUME NEW b \in Browsers, Leave(b) PROVE Goal
  <2>1. session' = [session EXCEPT ![b] = Empty] /\ request' = Renewed(b)
    BY <1>15 DEF Leave
  <2> QED
    BY <1>0, <2>1, RenewedTyped, EmptyTyped DEF TypedSessions, TypedRequests
<1>16. CASE Tick
  <2>1. \A sess \in Session : [sess EXCEPT !.otp.live = FALSE] \in Session
    BY DEF Session, Otp
  <2>2. \A q \in Request : /\ [q EXCEPT !.copy.otp.live = FALSE] \in Request
                           /\ Running(q) => Running([q EXCEPT !.copy.otp.live = FALSE])
    <3>1. \A q \in Request : q.copy \in Session
      BY DEF Request
    <3>2. \A q \in Request : [q EXCEPT !.copy.otp.live = FALSE] = [q EXCEPT !.copy = [q.copy EXCEPT !.otp.live = FALSE]]
      OBVIOUS
    <3>3. \A q \in Request : \A c \in Session : [q EXCEPT !.copy = c] \in Request /\ (Running(q) => Running([q EXCEPT !.copy = c]))
      BY DEF Request, Running
    <3> QED
      BY <2>1, <3>1, <3>2, <3>3
  <2> QED
    BY <1>0, <1>16, <2>1, <2>2 DEF Tick, TypedSessions, TypedRequests
<1>17. ASSUME NEW u \in Users, CreateAccount(u) \/ ToggleStatus(u) PROVE Goal
  BY <1>17, <1>a, <1>b DEF CreateAccount, ToggleStatus
<1>18. CASE UNCHANGED signInVars
  BY <1>18, <1>a, <1>b DEF signInVars
<1> QED
  BY <1>1, <1>2, <1>3, <1>4, <1>5, <1>6, <1>7, <1>8, <1>9, <1>10, <1>11, <1>12, <1>13, <1>14,
     <1>15, <1>16, <1>17, <1>18 DEF SignInNext

-----------------------------------------------------------------------------
(* Mails *)

\* While a key counts, fewer codes were allowed under it than it counted
\* attempts, and than the limit.
Mails ==
    \A k \in MailKeys : mailed[k] <= throttle[k].attempts /\ mailed[k] < Limit["EMAIL_OTP_SEND"]

MailsTyped == mailed \in [MailKeys -> Nat] /\ Mails

\* What a step may do to the mails: count some other failure, forget keys
\* that are no mail keys, or let one more code be sent.
LEMMA MailsKept ==
  ASSUME TypedThrottle, MailsTyped, UNCHANGED mailed,
         \A k \in MailKeys : throttle'[k] = throttle[k]
  PROVE  MailsTyped'
  BY DEF MailsTyped, Mails

LEMMA OtherFailure ==
  ASSUME TypedThrottle, NEW key, key[1] # "EMAIL_OTP_SEND", RegisterFailure(key)
  PROVE  \A k \in MailKeys : throttle'[k] = throttle[k]
  BY MailKeysAre DEF TypedThrottle, RegisterFailure

LEMMA OtherClear ==
  ASSUME TypedThrottle, NEW keys, ClearFailures(keys)
  PROVE  \A k \in MailKeys : k \notin keys => throttle'[k] = throttle[k]
  BY MailKeysAre DEF ClearFailures

LEMMA CountMail ==
  ASSUME TypedThrottle, TypedRequests, MailsTyped, NEW r \in Requests, CountSend(r)
  PROVE  MailsTyped'
<1> DEFINE key == Key("EMAIL_OTP_SEND", request[r].browser, request[r].user)
           limit == Limit["EMAIL_OTP_SEND"]
           row == Register(throttle[key], limit)
<1>1. key \in MailKeys /\ key \in ThrottleKeys /\ key[1] = "EMAIL_OTP_SEND"
  BY RequestIs, MailKeysAre DEF CountSend, At
<1>2. /\ throttle' = [throttle EXCEPT ![key] = row]
      /\ \/ TooManySends(row) /\ UNCHANGED mailed
         \/ /\ ~TooManySends(row)
            /\ mailed' = [mailed EXCEPT ![key] = IF row.attempts = 1 THEN 1 ELSE mailed[key] + 1]
  BY <1>1 DEF CountSend, RegisterFailure
<1>3. limit \in Nat \ {0} /\ Block \in Nat \ {0}
  BY SignInAssumption DEF Actions
<1>4. throttle[key] \in Row
  BY <1>1 DEF TypedThrottle
<1> HIDE DEF limit
<1>5. /\ row \in Row
      /\ row.attempts = 1 \/ row.attempts = throttle[key].attempts + 1
      /\ row.attempts >= limit => row.left = Block
  BY <1>4, Registered
<1>6. row.attempts \in Nat /\ row.attempts # 0 /\ throttle[key].attempts \in Nat
  BY <1>4, <1>5 DEF Row
<1> HIDE DEF key, row
<1>7. TooManySends(row) <=> row.attempts >= limit
  BY <1>3, <1>5 DEF TooManySends, limit
<1>8. mailed[key] \in Nat /\ mailed[key] <= throttle[key].attempts /\ mailed[key] < limit
  BY <1>1 DEF MailsTyped, Mails, limit
<1>9. /\ mailed'[key] \in Nat
      /\ mailed'[key] <= throttle'[key].attempts
      /\ mailed'[key] < limit
  <2>1. throttle'[key] = row
    BY <1>1, <1>2 DEF TypedThrottle
  <2>2. CASE TooManySends(row) /\ UNCHANGED mailed
    <3>1. mailed[key] <= row.attempts
      BY <1>3, <1>5, <1>6, <1>7, <1>8, <2>2
    <3> QED
      BY <1>8, <2>1, <2>2, <3>1
  <2>3. CASE ~TooManySends(row)
    <3>1. mailed'[key] = IF row.attempts = 1 THEN 1 ELSE mailed[key] + 1
      BY <1>1, <1>2, <2>3 DEF MailsTyped
    <3>2. row.attempts < limit
      BY <1>3, <1>6, <1>7, <2>3
    <3> QED
      BY <1>3, <1>5, <1>6, <1>8, <2>1, <3>1, <3>2
  <2> QED
    BY <1>2, <2>2, <2>3
<1>10. ASSUME NEW k \in MailKeys, k # key
       PROVE  mailed'[k] = mailed[k] /\ throttle'[k] = throttle[k]
  BY <1>2, <1>10, MailKeysAre DEF MailsTyped, TypedThrottle
<1>11. mailed' \in [MailKeys -> Nat]
  <2>1. mailed' = mailed \/ mailed' = [mailed EXCEPT ![key] = mailed'[key]]
    BY <1>1, <1>2 DEF MailsTyped
  <2> QED
    BY <1>9, <2>1 DEF MailsTyped
<1> QED
  BY <1>9, <1>10, <1>11 DEF MailsTyped, Mails, limit

LEMMA MailsStep ==
  ASSUME SignInTypeOK, MailsTyped, [SignInNext]_signInVars
  PROVE  MailsTyped'
<1>0. TypedThrottle /\ TypedRequests
  BY TypeParts
<1>a. ASSUME UNCHANGED <<throttle, mailed>> PROVE MailsTyped'
  BY <1>a DEF MailsTyped, Mails
<1>1. ASSUME NEW r \in Requests, LoginRefused(r) \/ VerifyFailed(r) \/ SetupFailed(r)
      PROVE  MailsTyped'
  <2>1. /\ \E key : key[1] # "EMAIL_OTP_SEND" /\ RegisterFailure(key)
        /\ UNCHANGED mailed
    BY <1>1 DEF LoginRefused, VerifyFailed, SetupFailed, Key, TotpKey
  <2> QED
    BY <1>0, <2>1, OtherFailure, MailsKept
<1>2. ASSUME NEW r \in Requests, LoginAccepted(r) \/ IssueCodes(r) PROVE MailsTyped'
  <2>1. /\ \E keys : ClearFailures(keys) /\ \A k \in keys : k[1] # "EMAIL_OTP_SEND"
        /\ UNCHANGED mailed
    BY <1>2 DEF LoginAccepted, IssueCodes, Key
  <2>2. \A k \in MailKeys : throttle'[k] = throttle[k]
    BY <1>0, <2>1, OtherClear, MailKeysAre
  <2> QED
    BY <1>0, <2>1, <2>2, MailsKept
<1>3. ASSUME NEW r \in Requests, FinishMfa(r) PROVE MailsTyped'
  <2> DEFINE key == TotpKey(request[r].browser, request[r].user, request[r].method)
             mail == IF request[r].method = "email"
                     THEN {Key("EMAIL_OTP_SEND", request[r].browser, request[r].user)} ELSE {}
  <2>1. /\ ClearFailures({key} \cup mail)
        /\ mailed' = [k \in MailKeys |-> IF k \in mail THEN 0 ELSE mailed[k]]
    BY <1>3 DEF FinishMfa
  <2>2. key \notin MailKeys
    BY MailKeysAre DEF TotpKey
  <2> HIDE DEF mail, key
  <2>3. \A k \in MailKeys : throttle'[k] = IF k \in mail THEN NoRow ELSE throttle[k]
    BY <2>1, <2>2, MailKeysAre DEF ClearFailures
  <2> QED
    BY <2>1, <2>3, SignInAssumption, NoRowTyped DEF MailsTyped, Mails, Actions
<1>4. ASSUME NEW r \in Requests, CountSend(r) PROVE MailsTyped'
  BY <1>0, <1>4, CountMail
<1>5. CASE Tick
  <2>1. mailed' = [k \in MailKeys |-> IF throttle'[k] = NoRow THEN 0 ELSE mailed[k]]
    BY <1>5 DEF Tick
  <2>2. ASSUME NEW k \in MailKeys PROVE throttle'[k] = NoRow \/ throttle'[k].attempts = throttle[k].attempts
    <3>1. throttle'[k] = Aged(throttle[k]) /\ throttle[k] \in Row
      BY <1>0, <1>5, MailKeysAre DEF Tick, TypedThrottle
    <3> QED
      BY <3>1, AgedRow
  <2> QED
    BY <2>1, <2>2, SignInAssumption, NoRowTyped DEF MailsTyped, Mails, Actions
<1>6. ASSUME NEW r \in Requests, NEW b \in Browsers, NEW u \in Users, Login(r, b, u) PROVE MailsTyped'
  BY <1>6, <1>a DEF Login
<1>7. ASSUME NEW r \in Requests, NEW b \in Browsers, Send(r, b) \/ Setup(r, b) PROVE MailsTyped'
  BY <1>7, <1>a DEF Send, Setup
<1>8. ASSUME NEW r \in Requests, NEW b \in Browsers, NEW method \in Methods, Verify(r, b, method)
      PROVE  MailsTyped'
  BY <1>8, <1>a DEF Verify
<1>9. ASSUME NEW r \in Requests, \/ CreateDevice(r) \/ ShowSetup(r) \/ CheckSetup(r) \/ ConfirmDevice(r)
                                 \/ EnableUser(r) \/ Crash(r)
      PROVE  MailsTyped'
  BY <1>9, <1>a DEF CreateDevice, ShowSetup, CheckSetup, ConfirmDevice, EnableUser, Crash
<1>10. ASSUME NEW r \in Requests, NEW delivered \in BOOLEAN, Mail(r, delivered) PROVE MailsTyped'
  BY <1>10, <1>a DEF Mail
<1>11. ASSUME NEW b \in Browsers, VerifyLost(b) \/ ShowCodes(b) \/ Leave(b) PROVE MailsTyped'
  BY <1>11, <1>a DEF VerifyLost, ShowCodes, Leave
<1>12. ASSUME NEW u \in Users, CreateAccount(u) \/ ToggleStatus(u) PROVE MailsTyped'
  BY <1>12, <1>a DEF CreateAccount, ToggleStatus
<1>13. CASE UNCHANGED signInVars
  BY <1>13, <1>a DEF signInVars
<1> QED
  BY <1>1, <1>2, <1>3, <1>4, <1>5, <1>6, <1>7, <1>8, <1>9, <1>10, <1>11, <1>12, <1>13 DEF SignInNext

LEMMA SignInStep ==
  ASSUME SignInTypeOK, Mails, [SignInNext]_signInVars
  PROVE  SignInTypeOK' /\ Mails'
<1>1. MailsTyped
  BY TypeParts DEF MailsTyped
<1>2. TypedAccounts' /\ TypedThrottle' /\ TypedSessions' /\ TypedRequests' /\ MailsTyped'
  BY <1>1, AccountsStep, ThrottleStep, SessionsStep, MailsStep
<1> QED
  BY <1>2 DEF SignInTypeOK, TypedAccounts, TypedThrottle, TypedSessions, TypedRequests, Running, MailsTyped

LEMMA MailsInit == SignInInit => Mails
<1> SUFFICES ASSUME SignInInit PROVE Mails
  OBVIOUS
<1>1. ASSUME NEW k \in MailKeys PROVE mailed[k] = 0 /\ throttle[k].attempts = 0
  BY <1>1, MailKeysAre, NoRowTyped DEF SignInInit
<1>2. Limit["EMAIL_OTP_SEND"] \in Nat \ {0}
  BY SignInAssumption DEF Actions
<1> QED
  BY <1>1, <1>2 DEF Mails

\* Accounts, throttles, sessions and requests keep their types, whatever runs
\* at the same time; no recovery code is used that was not issued.
THEOREM SignInTypeCorrect == SignInSpec => []SignInTypeOK
<1>1. SignInInit => SignInTypeOK /\ Mails
  BY SignInTypeInit, MailsInit
<1>2. (SignInTypeOK /\ Mails) /\ [SignInNext]_signInVars => (SignInTypeOK /\ Mails)'
  BY SignInStep
<1> QED
  BY <1>1, <1>2, PTL DEF SignInSpec

\* However many requests ask for codes at a time, fewer than the limit are
\* mailed while the throttle counts them: send_email_otp decides on the row
\* that its own attempt is counted in.
THEOREM MailsStayBounded == SignInSpec => []MailsBounded
<1>1. SignInInit => SignInTypeOK /\ Mails
  BY SignInTypeInit, MailsInit
<1>2. (SignInTypeOK /\ Mails) /\ [SignInNext]_signInVars => (SignInTypeOK /\ Mails)'
  BY SignInStep
<1>3. Mails => MailsBounded
  BY DEF Mails, MailsBounded
<1> QED
  BY <1>1, <1>2, <1>3, PTL DEF SignInSpec

-----------------------------------------------------------------------------
(* Whose second factor *)

Enrolling == {"setup", "check", "confirm", "enable", "issue"}

\* A session with a second factor has the one of its own user.  A session
\* that nobody is signed in to has none: the next login would inherit it.
OwnFactor(sess) == Verified(sess) => sess.user # Nobody /\ sess.proved = sess.user

\* So do the copies that requests loaded, for any of them may be saved last;
\* and who enrols does so in a session of his own.
OwnCopy(q) ==
    /\ OwnFactor(q.copy)
    /\ q.stage \in Enrolling => q.copy.user = q.user
OwnFactors ==
    /\ \A b \in Browsers : OwnFactor(session[b])
    /\ \A r \in Requests : OwnCopy(request[r])

LEMMA IdleOwn == OwnFactor(Empty) /\ OwnCopy(Idle)
  BY DEF OwnFactor, OwnCopy, Verified, Empty, Idle, Enrolling

LEMMA OwnEnd ==
  ASSUME OwnFactors, NEW r \in Requests, End(r), UNCHANGED session
  PROVE  OwnFactors'
  BY IdleOwn DEF OwnFactors, End

LEMMA OwnSaving ==
  ASSUME OwnFactors, NEW r \in Requests, NEW sess, OwnFactor(sess), EndSaving(r, sess)
  PROVE  OwnFactors'
  BY IdleOwn DEF OwnFactors, EndSaving, End

LEMMA OwnRenewed ==
  ASSUME OwnFactors, TypedRequests, NEW b, NEW r \in Requests
  PROVE  OwnCopy(Renewed(b)[r])
<1>1. request[r] \in Request /\ OwnCopy(request[r])
  BY DEF OwnFactors, TypedRequests
<1>2. /\ [request[r] EXCEPT !.current = FALSE].copy = request[r].copy
      /\ [request[r] EXCEPT !.current = FALSE].stage = request[r].stage
      /\ [request[r] EXCEPT !.current = FALSE].user = request[r].user
  BY <1>1 DEF Request
<1> QED
  BY <1>1, <1>2 DEF Renewed, OwnCopy

LEMMA OwnSignedIn ==
  ASSUME OwnFactors, TypedRequests, NEW r \in Requests, NEW u, NEW sess, OwnFactor(sess),
         EndSignedIn(r, u, sess)
  PROVE  OwnFactors'
<1>1. CASE request[r].copy.user = u
  BY <1>1, OwnSaving DEF EndSignedIn
<1>2. CASE request[r].copy.user # u
  <2>1. /\ session' = [session EXCEPT ![request[r].browser] = sess]
        /\ request' = [Renewed(request[r].browser) EXCEPT ![r] = Idle]
    BY <1>2 DEF EndSignedIn
  <2>2. \A q \in Requests : OwnCopy(Renewed(request[r].browser)[q])
    BY OwnRenewed
  <2>3. DOMAIN Renewed(request[r].browser) = Requests
    BY DEF Renewed
  <2> QED
    BY <2>1, <2>2, <2>3, IdleOwn DEF OwnFactors
<1> QED
  BY <1>1, <1>2

LEMMA OwnGoto ==
  ASSUME OwnFactors, TypedRequests, NEW r \in Requests, NEW stage, Goto(r, stage), UNCHANGED session,
         stage \in Enrolling => request[r].stage \in Enrolling
  PROVE  OwnFactors'
<1> DEFINE q == [request[r] EXCEPT !.stage = stage]
<1>1. request' = [request EXCEPT ![r] = q]
  BY DEF Goto
<1>2. q.copy = request[r].copy /\ q.user = request[r].user /\ q.stage = stage
  BY DEF TypedRequests, Request
<1>3. OwnCopy(q)
  BY <1>2 DEF OwnFactors, OwnCopy
<1> HIDE DEF q
<1> QED
  BY <1>1, <1>3 DEF OwnFactors

LEMMA OwnBegin ==
  ASSUME OwnFactors, NEW r \in Requests, NEW b \in Browsers, NEW stage, NEW u, NEW method, NEW device,
         Begin(r, b, stage, u, method, device), UNCHANGED session,
         stage \in Enrolling => u = session[b].user
  PROVE  OwnFactors'
<1> DEFINE q == [stage |-> stage, browser |-> b, user |-> u, method |-> method,
                 copy |-> session[b], current |-> TRUE, device |-> device]
<1>1. request' = [request EXCEPT ![r] = q]
  BY DEF Begin
<1>2. OwnCopy(q)
  BY DEF OwnFactors, OwnCopy
<1> HIDE DEF q
<1> QED
  BY <1>1, <1>2 DEF OwnFactors

\* Signing in keeps a second factor only if it is the same user's.
LEMMA OwnLogin ==
  ASSUME NEW sess \in Session, OwnFactor(sess), NEW u, u # Nobody
  PROVE  OwnFactor(AuthLogin(sess, u)) /\ AuthLogin(sess, u).user = u
  BY DEF OwnFactor, AuthLogin, Verified, Session, Empty

\* The second factor that was just seen is the user's who is signed in.
LEMMA OwnFinished ==
  ASSUME TypedRequests, NEW r \in Requests, request[r].stage = "verify"
  PROVE  OwnFactor(Finished(r))
<1> DEFINE u == request[r].user
           sess == AuthLogin(request[r].copy, u)
<1>1. u \in Users /\ request[r].copy \in Session
  BY RequestIs
<1>2. u # Nobody /\ sess \in Session /\ sess.user = u
  <2>1. u # Nobody /\ sess \in Session
    BY <1>1, SignInAssumption, LoginTyped
  <2>2. sess.user = u
    BY <1>1 DEF AuthLogin, Session, Empty
  <2> QED
    BY <2>1, <2>2
<1> HIDE DEF u, sess
<1>3. Finished(r) = [sess EXCEPT !.device = IF request[r].method = "totp" THEN Min(Confirmed(u)) ELSE @,
                     !.recovery = @ \/ request[r].method = "recovery",
                     !.mfa = @ \/ request[r].method = "email",
                     !.preauth = Nobody, !.otp = NoOtp, !.proved = u]
  BY DEF Finished, u, sess
<1>4. Finished(r).user = u /\ Finished(r).proved = u
  BY <1>2, <1>3 DEF Session
<1> QED
  BY <1>2, <1>4 DEF OwnFactor

LEMMA OwnStep ==
  ASSUME SignInTypeOK, OwnFactors, [SignInNext]_signInVars
  PROVE  OwnFactors'
<1>0. TypedSessions /\ TypedRequests
  BY TypeParts
<1>a. ASSUME UNCHANGED <<session, request>> PROVE OwnFactors'
  BY <1>a DEF OwnFactors
<1>b. ASSUME NEW b \in Browsers, NEW sess, OwnFactor(sess), session' = [session EXCEPT ![b] = sess], UNCHANGED request
      PROVE  OwnFactors'
  BY <1>b DEF OwnFactors
<1>1. ASSUME NEW r \in Requests, NEW b \in Browsers, NEW u \in Users, Login(r, b, u) PROVE OwnFactors'
  <2>1. Begin(r, b, "login", u, "none", 0) /\ UNCHANGED session /\ "login" \notin Enrolling
    BY <1>1 DEF Login, Enrolling
  <2> QED
    BY <2>1, OwnBegin
<1>2. ASSUME NEW r \in Requests, NEW b \in Browsers, Send(r, b) PROVE OwnFactors'
  <2>1. Begin(r, b, "send", session[b].preauth, "email", 0) /\ UNCHANGED session /\ "send" \notin Enrolling
    BY <1>2 DEF Send, Enrolling
  <2> QED
    BY <2>1, OwnBegin
<1>3. ASSUME NEW r \in Requests, NEW b \in Browsers, NEW method \in Methods, Verify(r, b, method) PROVE OwnFactors'
  <2>1. Begin(r, b, "verify", session[b].preauth, method, 0) /\ UNCHANGED session /\ "verify" \notin Enrolling
    BY <1>3 DEF Verify, Enrolling
  <2> QED
    BY <2>1, OwnBegin
<1>4. ASSUME NEW r \in Requests, NEW b \in Browsers, Setup(r, b) PROVE OwnFactors'
  <2>1. \E stage, device : Begin(r, b, stage, session[b].user, "none", device)
    BY <1>4 DEF Setup
  <2>2. UNCHANGED session
    BY <1>4 DEF Setup
  <2> QED
    BY <2>1, <2>2, OwnBegin
<1>5. ASSUME NEW r \in Requests, LoginRefused(r) \/ ShowSetup(r) \/ SetupFailed(r) \/ Crash(r) PROVE OwnFactors'
  BY <1>5, OwnEnd DEF LoginRefused, ShowSetup, SetupFailed, Crash
<1>6. ASSUME NEW r \in Requests, CheckSetup(r) \/ ConfirmDevice(r) \/ EnableUser(r) PROVE OwnFactors'
  <2>1. /\ \E stage : Goto(r, stage)
        /\ request[r].stage \in Enrolling /\ UNCHANGED session
    BY <1>6 DEF CheckSetup, ConfirmDevice, EnableUser, Enrolling, At
  <2> QED
    BY <1>0, <2>1, OwnGoto
<1>7. ASSUME NEW r \in Requests, CountSend(r) PROVE OwnFactors'
  <2>1. (Goto(r, "mail") \/ End(r)) /\ UNCHANGED session /\ "mail" \notin Enrolling
    BY <1>7 DEF CountSend, Enrolling
  <2> QED
    BY <1>0, <2>1, OwnGoto, OwnEnd
<1>8. ASSUME NEW r \in Requests, CreateDevice(r) PROVE OwnFactors'
  <2> DEFINE q == [request[r] EXCEPT !.stage = "check", !.device = Len(devices[request[r].user]) + 1]
  <2>1. request' = [request EXCEPT ![r] = q] /\ UNCHANGED session /\ request[r].stage \in Enrolling
    BY <1>8 DEF CreateDevice, At, Enrolling
  <2>2. q.copy = request[r].copy /\ q.user = request[r].user
    BY <1>0 DEF TypedRequests, Request
  <2>3. OwnCopy(q)
    BY <2>1, <2>2 DEF OwnFactors, OwnCopy
  <2> HIDE DEF q
  <2> QED
    BY <2>1, <2>3 DEF OwnFactors
<1>9. ASSUME NEW r \in Requests, LoginAccepted(r) PROVE OwnFactors'
  <2> DEFINE u == request[r].user
             copy == request[r].copy
             sess == [copy EXCEPT !.preauth = u, !.mfa = FALSE, !.recovery = FALSE, !.otp = NoOtp]
  <2>1. copy \in Session /\ OwnFactor(copy) /\ u # Nobody
    BY <1>0, <1>9, RequestIs DEF OwnFactors, OwnCopy, LoginAccepted, IsActive
  <2>2. OwnFactor(sess)
    BY <2>1 DEF OwnFactor, Verified, Session
  <2>3. OwnFactor(AuthLogin(copy, u))
    BY <2>1, OwnLogin
  <2>4. EndSaving(r, sess) \/ EndSignedIn(r, u, AuthLogin(copy, u))
    BY <1>9 DEF LoginAccepted
  <2> HIDE DEF sess
  <2> QED
    BY <1>0, <2>2, <2>3, <2>4, OwnSaving, OwnSignedIn
<1>10. ASSUME NEW r \in Requests, NEW sess, EndSaving(r, [request[r].copy EXCEPT !.otp = sess]) PROVE OwnFactors'
  <2> DEFINE new == [request[r].copy EXCEPT !.otp = sess]
  <2>1. request[r].copy \in Session /\ OwnFactor(request[r].copy)
    BY <1>0, RequestIs DEF OwnFactors, OwnCopy
  <2>2. OwnFactor(new)
    BY <2>1 DEF OwnFactor, Verified, Session
  <2> HIDE DEF new
  <2>3. EndSaving(r, new)
    BY <1>10 DEF new
  <2> QED
    BY <2>2, <2>3, OwnSaving
<1>11. ASSUME NEW r \in Requests, NEW delivered \in BOOLEAN, Mail(r, delivered) PROVE OwnFactors'
  <2>1. \E otp : EndSaving(r, [request[r].copy EXCEPT !.otp = otp])
    BY <1>11, Zenon DEF Mail
  <2> QED
    BY <1>10, <2>1
<1>12. ASSUME NEW r \in Requests, FinishMfa(r) PROVE OwnFactors'
  <2>1. request[r].stage = "verify" /\ EndSignedIn(r, request[r].user, Finished(r))
    BY <1>12 DEF FinishMfa, At
  <2> QED
    BY <1>0, <2>1, OwnFinished, OwnSignedIn
<1>13. ASSUME NEW r \in Requests, VerifyFailed(r) PROVE OwnFactors'
  <2>1. \/ EndSaving(r, [request[r].copy EXCEPT !.otp = NoOtp])
        \/ End(r) /\ UNCHANGED session
    BY <1>13 DEF VerifyFailed
  <2> QED
    BY <1>10, <2>1, OwnEnd
<1>14. ASSUME NEW r \in Requests, IssueCodes(r) PROVE OwnFactors'
  <2> DEFINE u == request[r].user
             sess == [request[r].copy EXCEPT !.device = request[r].device, !.shown = TRUE, !.proved = u]
  <2>1. EndSaving(r, sess) /\ request[r].stage = "issue"
    BY <1>14 DEF IssueCodes, At
  <2>2. request[r].copy \in Session /\ u \in Users /\ request[r].copy.user = u
    BY <1>0, <2>1, RequestIs DEF OwnFactors, OwnCopy, Enrolling
  <2>3. OwnFactor(sess)
    BY <2>2, SignInAssumption DEF OwnFactor, Session
  <2> HIDE DEF sess
  <2> QED
    BY <2>1, <2>3, OwnSaving
<1>15. ASSUME NEW b \in Browsers, VerifyLost(b) \/ ShowCodes(b) PROVE OwnFactors'
  <2>1. session[b] \in Session /\ OwnFactor(session[b])
    BY <1>0 DEF TypedSessions, OwnFactors
  <2>2. OwnFactor([session[b] EXCEPT !.preauth = Nobody]) /\ OwnFactor([session[b] EXCEPT !.shown = FALSE])
    BY <2>1 DEF OwnFactor, Verified, Session
  <2>3. /\ \/ session' = [session EXCEPT ![b] = [session[b] EXCEPT !.preauth = Nobody]]
           \/ session' = [session EXCEPT ![b] = [session[b] EXCEPT !.shown = FALSE]]
        /\ UNCHANGED request
    BY <1>15 DEF VerifyLost, ShowCodes
  <2> QED
    BY <1>b, <2>2, <2>3
<1>16. ASSUME NEW b \in Browsers, Leave(b) PROVE OwnFactors'
  <2>1. session' = [session EXCEPT ![b] = Empty] /\ request' = Renewed(b)
    BY <1>16 DEF Leave
  <2>2. \A r \in Requests : OwnCopy(request'[r])
    BY <1>0, <2>1, OwnRenewed
  <2>3. \A c \in Browsers : OwnFactor(session'[c])
    BY <2>1, IdleOwn DEF OwnFactors
  <2> QED
    BY <2>2, <2>3 DEF OwnFactors
<1>17. CASE Tick
  <2>1. \A sess \in Session : OwnFactor(sess) => OwnFactor([sess EXCEPT !.otp.live = FALSE])
    BY DEF OwnFactor, Verified, Session
  <2>2. \A b \in Browsers : OwnFactor(session'[b])
    BY <1>0, <1>17, <2>1 DEF Tick, TypedSessions, OwnFactors
  <2>3. ASSUME NEW r \in Requests PROVE OwnCopy(request'[r])
    <3> DEFINE copy == [request[r].copy EXCEPT !.otp.live = FALSE]
    <3>1. request[r] \in Request /\ request[r].copy \in Session /\ OwnCopy(request[r])
      BY <1>0, RequestIs DEF OwnFactors
    <3>2. OwnFactor(copy) /\ copy.user = request[r].copy.user
      BY <2>1, <3>1 DEF OwnCopy, Session
    <3>3. request'[r] = [request[r] EXCEPT !.copy = copy]
      BY <1>17 DEF Tick
    <3> HIDE DEF copy
    <3>4. request'[r].copy = copy /\ request'[r].stage = request[r].stage /\ request'[r].user = request[r].user
      BY <3>1, <3>3 DEF Request
    <3> QED
      BY <3>1, <3>2, <3>4 DEF OwnCopy
  <2> QED
    BY <2>2, <2>3 DEF OwnFactors
<1>18. ASSUME NEW u \in Users, CreateAccount(u) \/ ToggleStatus(u) PROVE OwnFactors'
  BY <1>18, <1>a DEF CreateAccount, ToggleStatus
<1>19. CASE UNCHANGED signInVars
  BY <1>19, <1>a DEF signInVars
<1> QED
  BY <1>1, <1>2, <1>3, <1>4, <1>5, <1>6, <1>7, <1>8, <1>9, <1>11, <1>12, <1>13, <1>14,
     <1>15, <1>16, <1>17, <1>18, <1>19 DEF SignInNext

\* Whoever passes mfa_required has shown a second factor of the account that
\* is signed in, in any interleaving of any number of requests.
THEOREM VerifiedIsSelf == SignInSpec => []VerifiedAsSelf
<1>1. SignInInit => SignInTypeOK /\ Mails /\ OwnFactors
  BY SignInTypeInit, MailsInit, IdleOwn DEF SignInInit, OwnFactors
<1>2. (SignInTypeOK /\ Mails /\ OwnFactors) /\ [SignInNext]_signInVars => (SignInTypeOK /\ Mails /\ OwnFactors)'
  BY SignInStep, OwnStep
<1>3. OwnFactors => VerifiedAsSelf
  BY DEF OwnFactors, OwnFactor, VerifiedAsSelf, Passes
<1> QED
  BY <1>1, <1>2, <1>3, PTL DEF SignInSpec

-----------------------------------------------------------------------------
(* Devices *)

Marked(marks) == {i \in DOMAIN marks : marks[i]}

LEMMA ConfirmedIsMarked == \A u : Confirmed(u) = Marked(devices[u])
  BY DEF Confirmed, Marked

\* The device a request confirms is there, and confirmed before the account
\* is told to ask for it.
DeviceOf(q) ==
    /\ q.stage \in {"check", "confirm"} => q.device \in DOMAIN devices[q.user]
    /\ q.stage \in {"enable", "issue"} => q.device \in Marked(devices[q.user])
Devices == EnabledHasDevice /\ \A r \in Requests : DeviceOf(request[r])

\* Devices are added and confirmed, never taken away.
DevicesGrow ==
    \A u \in Users : DOMAIN devices[u] \subseteq DOMAIN devices'[u] /\ Marked(devices[u]) \subseteq Marked(devices'[u])

\* A request goes on as it was, starts before its device is confirmed, ends,
\* or is saved.
LEMMA DevicesStep ==
  ASSUME Devices, TypedRequests, TypedRequests', DevicesGrow,
         \A u \in Users : enabled'[u] => enabled[u] \/ Marked(devices'[u]) # {},
         \A r \in Requests : \/ /\ request'[r].stage = request[r].stage
                                /\ request'[r].user = request[r].user
                                /\ request'[r].device = request[r].device
                             \/ request'[r].stage \notin {"check", "confirm", "enable", "issue"}
                             \/ DeviceOf(request[r])'
  PROVE  Devices'
<1>1. ASSUME NEW r \in Requests PROVE DeviceOf(request[r])'
  <2>1. CASE /\ request'[r].stage = request[r].stage
             /\ request'[r].user = request[r].user
             /\ request'[r].device = request[r].device
    <3>1. DeviceOf(request[r])
      BY DEF Devices
    <3>2. request[r].stage # "idle" => request[r].user \in Users
      BY DEF TypedRequests, Running
    <3>3. request[r].stage \in {"check", "confirm"} => request[r].device \in DOMAIN devices'[request[r].user]
      BY <3>1, <3>2 DEF DeviceOf, DevicesGrow
    <3>4. request[r].stage \in {"enable", "issue"} => request[r].device \in Marked(devices'[request[r].user])
      BY <3>1, <3>2 DEF DeviceOf, DevicesGrow
    <3> QED
      BY <2>1, <3>3, <3>4 DEF DeviceOf
  <2>2. CASE request'[r].stage \notin {"check", "confirm", "enable", "issue"}
    BY <2>2 DEF DeviceOf
  <2> QED
    BY <2>1, <2>2
<1>2. EnabledHasDevice'
  <2>1. \A u \in Users : enabled[u] => Confirmed(u) # {}
    BY DEF Devices, EnabledHasDevice
  <2>2. \A u \in Users : enabled'[u] => Marked(devices'[u]) # {}
    BY <2>1, ConfirmedIsMarked DEF DevicesGrow
  <2> QED
    BY <2>2 DEF EnabledHasDevice, Confirmed, Marked
<1> QED
  BY <1>1, <1>2 DEF Devices


\* One more mark, or one more device.
LEMMA MarkedMore ==
  ASSUME NEW marks \in Seq(BOOLEAN), NEW i \in DOMAIN marks
  PROVE  /\ DOMAIN [marks EXCEPT ![i] = TRUE] = DOMAIN marks
         /\ Marked(marks) \subseteq Marked([marks EXCEPT ![i] = TRUE])
         /\ i \in Marked([marks EXCEPT ![i] = TRUE])
<1>1. /\ DOMAIN [marks EXCEPT ![i] = TRUE] = DOMAIN marks
      /\ \A j \in DOMAIN marks : [marks EXCEPT ![i] = TRUE][j] = (marks[j] \/ j = i)
  BY MarkedTyped
<1> QED
  BY <1>1, Zenon DEF Marked

LEMMA OneAppended ==
  ASSUME NEW S, NEW s \in Seq(S), NEW x \in S
  PROVE  /\ DOMAIN s \subseteq DOMAIN Append(s, x)
         /\ Len(s) + 1 \in DOMAIN Append(s, x)
         /\ \A i \in DOMAIN s : Append(s, x)[i] = s[i]
  OBVIOUS

LEMMA DeviceMore ==
  ASSUME NEW marks \in Seq(BOOLEAN)
  PROVE  /\ DOMAIN marks \subseteq DOMAIN Append(marks, FALSE)
         /\ Marked(marks) \subseteq Marked(Append(marks, FALSE))
         /\ Len(marks) + 1 \in DOMAIN Append(marks, FALSE)
<1>1. /\ DOMAIN marks \subseteq DOMAIN Append(marks, FALSE)
      /\ Len(marks) + 1 \in DOMAIN Append(marks, FALSE)
      /\ \A i \in DOMAIN marks : Append(marks, FALSE)[i] = marks[i]
  BY FALSE \in BOOLEAN, OneAppended, Zenon
<1> QED
  BY <1>1, Zenon DEF Marked

\* A request that is kept, ended or saved is at no device that it was not at.
AtDevice(q) == q.stage \in {"check", "confirm", "enable", "issue"}
SameDevice(q, p) == q.stage = p.stage /\ q.user = p.user /\ q.device = p.device

LEMMA RenewedSame ==
  ASSUME TypedRequests, NEW b, NEW r \in Requests
  PROVE  SameDevice(Renewed(b)[r], request[r])
<1>1. request[r] \in Request
  BY DEF TypedRequests
<1>2. SameDevice([request[r] EXCEPT !.current = FALSE], request[r])
  BY <1>1 DEF SameDevice, Request
<1> QED
  BY <1>2 DEF Renewed, SameDevice

LEMMA EndSame ==
  ASSUME TypedRequests, NEW r \in Requests, End(r), NEW q \in Requests
  PROVE  SameDevice(request'[q], request[q]) \/ ~AtDevice(request'[q])
  BY DEF TypedRequests, End, SameDevice, AtDevice, Idle

LEMMA SignedInSame ==
  ASSUME TypedRequests, NEW r \in Requests, NEW u, NEW sess, EndSignedIn(r, u, sess), NEW q \in Requests
  PROVE  SameDevice(request'[q], request[q]) \/ ~AtDevice(request'[q])
<1>1. CASE request[r].copy.user = u
  BY <1>1, EndSame DEF EndSignedIn, EndSaving
<1>2. CASE request[r].copy.user # u
  <2>1. request' = [Renewed(request[r].browser) EXCEPT ![r] = Idle]
    BY <1>2 DEF EndSignedIn
  <2>2. DOMAIN Renewed(request[r].browser) = Requests
    BY DEF Renewed
  <2>3. request'[q] = Idle \/ request'[q] = Renewed(request[r].browser)[q]
    BY <2>1, <2>2
  <2>4. ~AtDevice(Idle)
    BY DEF AtDevice, Idle
  <2> QED
    BY <2>3, <2>4, RenewedSame
<1> QED
  BY <1>1, <1>2

LEMMA DeviceStep ==
  ASSUME SignInTypeOK, TypedRequests', Devices, [SignInNext]_signInVars
  PROVE  Devices'
<1>0. TypedAccounts /\ TypedRequests
  BY TypeParts
<1> DEFINE Kept(r) == SameDevice(request'[r], request[r]) \/ ~AtDevice(request'[r])
<1>a. ASSUME UNCHANGED <<enabled, devices>>, \A r \in Requests : Kept(r) \/ DeviceOf(request[r])'
      PROVE  Devices'
  BY <1>0, <1>a, DevicesStep DEF SameDevice, AtDevice, DevicesGrow
<1>b. ASSUME NEW r \in Requests, NEW q, request' = [request EXCEPT ![r] = q],
             UNCHANGED <<enabled, devices>>,
             ~AtDevice(q) \/ DeviceOf(q)
      PROVE  Devices'
  <2>1. \A p \in Requests : p # r => request'[p] = request[p]
    BY <1>0, <1>b DEF TypedRequests
  <2>2. request'[r] = q
    BY <1>0, <1>b DEF TypedRequests
  <2>3. ~AtDevice(q) => Kept(r)
    BY <2>2 DEF AtDevice
  <2>4. DeviceOf(q) => DeviceOf(request[r])'
    BY <1>b, <2>2 DEF DeviceOf, Marked
  <2>5. \A p \in Requests : Kept(p) \/ DeviceOf(request[p])'
    BY <1>b, <2>1, <2>3, <2>4 DEF SameDevice
  <2> QED
    BY <1>a, <1>b, <2>5
<1>c. ASSUME NEW r \in Requests, End(r), UNCHANGED <<enabled, devices>> PROVE Devices'
  BY <1>0, <1>a, <1>c, EndSame
<1>1. ASSUME NEW r \in Requests, NEW b \in Browsers, NEW stage, NEW u, NEW method, NEW device,
             Begin(r, b, stage, u, method, device), UNCHANGED <<enabled, devices>>,
             stage \notin {"check", "confirm", "enable", "issue"}
      PROVE  Devices'
  <2> DEFINE q == [stage |-> stage, browser |-> b, user |-> u, method |-> method,
                   copy |-> session[b], current |-> TRUE, device |-> device]
  <2>1. request' = [request EXCEPT ![r] = q] /\ ~AtDevice(q)
    BY <1>1 DEF Begin, AtDevice
  <2> HIDE DEF q
  <2> QED
    BY <1>b, <1>1, <2>1
<1>2. ASSUME NEW r \in Requests, NEW b \in Browsers, NEW u \in Users, Login(r, b, u) PROVE Devices'
  <2>1. Begin(r, b, "login", u, "none", 0) /\ UNCHANGED <<enabled, devices>>
    BY <1>2 DEF Login, accountVars
  <2> QED
    BY <1>1, <2>1
<1>3. ASSUME NEW r \in Requests, NEW b \in Browsers, Send(r, b) PROVE Devices'
  <2>1. Begin(r, b, "send", session[b].preauth, "email", 0) /\ UNCHANGED <<enabled, devices>>
    BY <1>3 DEF Send, accountVars
  <2> QED
    BY <1>1, <2>1
<1>4. ASSUME NEW r \in Requests, NEW b \in Browsers, NEW method \in Methods, Verify(r, b, method) PROVE Devices'
  <2>1. Begin(r, b, "verify", session[b].preauth, method, 0) /\ UNCHANGED <<enabled, devices>>
    BY <1>4 DEF Verify, accountVars
  <2> QED
    BY <1>1, <2>1
<1>5. ASSUME NEW r \in Requests, NEW b \in Browsers, Setup(r, b) PROVE Devices'
  <2> DEFINE u == session[b].user
             first == Min(Unconfirmed(u))
             q == [stage |-> "check", browser |-> b, user |-> u, method |-> "none",
                   copy |-> session[b], current |-> TRUE, device |-> first]
  <2>1. UNCHANGED <<enabled, devices>>
    BY <1>5 DEF Setup, accountVars
  <2>2. ASSUME Unconfirmed(u) = {} PROVE Devices'
    <3>1. Begin(r, b, "setup", u, "none", 0)
      BY <1>5, <2>2 DEF Setup
    <3> QED
      BY <1>1, <2>1, <3>1
  <2>3. ASSUME Unconfirmed(u) # {} PROVE Devices'
    <3>1. request' = [request EXCEPT ![r] = q]
      BY <1>5, <2>3 DEF Setup, Begin
    <3>2. u \in Users
      <4>1. TypedSessions
        BY TypeParts
      <4> QED
        BY <1>5, <4>1 DEF Setup, Authenticated, IsActive, TypedSessions, Session
    <3>3. first \in DOMAIN devices[u]
      BY <1>0, <2>3, <3>2, DevicesAre
    <3>4. DeviceOf(q)
      BY <3>3 DEF DeviceOf
    <3> HIDE DEF q
    <3> QED
      BY <1>b, <2>1, <3>1, <3>4
  <2> QED
    BY <2>2, <2>3
<1>6. ASSUME NEW r \in Requests, LoginRefused(r) \/ ShowSetup(r) \/ SetupFailed(r) \/ Crash(r) PROVE Devices'
  BY <1>6, <1>c DEF LoginRefused, ShowSetup, SetupFailed, Crash, accountVars
<1>7. ASSUME NEW r \in Requests, NEW delivered \in BOOLEAN, Mail(r, delivered) PROVE Devices'
  BY <1>7, <1>c DEF Mail, EndSaving, accountVars
<1>8. ASSUME NEW r \in Requests, VerifyFailed(r) \/ IssueCodes(r) PROVE Devices'
  BY <1>8, <1>c DEF VerifyFailed, IssueCodes, EndSaving, accountVars
<1>9. ASSUME NEW r \in Requests, CountSend(r) PROVE Devices'
  <2>1. UNCHANGED <<enabled, devices>>
    BY <1>9 DEF CountSend, accountVars
  <2>2. CASE End(r)
    BY <1>c, <2>1, <2>2
  <2>3. CASE Goto(r, "mail")
    <3> DEFINE q == [request[r] EXCEPT !.stage = "mail"]
    <3>1. request' = [request EXCEPT ![r] = q] /\ ~AtDevice(q)
      BY <1>0, <2>3 DEF Goto, AtDevice, TypedRequests, Request
    <3> HIDE DEF q
    <3> QED
      BY <1>b, <2>1, <3>1
  <2> QED
    BY <1>9, <2>2, <2>3 DEF CountSend
<1>10. ASSUME NEW r \in Requests, LoginAccepted(r) \/ FinishMfa(r) PROVE Devices'
  <2>1. /\ \E u, sess : EndSaving(r, sess) \/ EndSignedIn(r, u, sess)
        /\ UNCHANGED <<enabled, devices>>
    BY <1>10 DEF LoginAccepted, FinishMfa, accountVars
  <2>2. \A p \in Requests : Kept(p)
    BY <1>0, <2>1, EndSame, SignedInSame DEF EndSaving
  <2> QED
    BY <1>a, <2>1, <2>2
<1>11. ASSUME NEW r \in Requests, CheckSetup(r) PROVE Devices'
  <2> DEFINE q == [request[r] EXCEPT !.stage = "confirm"]
  <2>1. /\ request' = [request EXCEPT ![r] = q] /\ UNCHANGED <<enabled, devices>>
        /\ request[r].stage = "check" /\ DeviceOf(request[r])
    BY <1>11 DEF CheckSetup, Goto, At, accountVars, Devices
  <2>2. q.user = request[r].user /\ q.device = request[r].device /\ q.stage = "confirm"
    BY <1>0 DEF TypedRequests, Request
  <2> HIDE DEF q
  <2>3. DeviceOf(q)
    BY <2>1, <2>2 DEF DeviceOf
  <2> QED
    BY <1>b, <2>1, <2>3
<1>12. ASSUME NEW r \in Requests, CreateDevice(r) PROVE Devices'
  <2> DEFINE u == request[r].user
             device == Len(devices[u]) + 1
             q == [request[r] EXCEPT !.stage = "check", !.device = device]
  <2>1. /\ request' = [request EXCEPT ![r] = q]
        /\ devices' = [devices EXCEPT ![u] = Append(devices[u], FALSE)]
        /\ UNCHANGED enabled /\ request[r].stage = "setup"
    BY <1>12 DEF CreateDevice, At
  <2>2. u \in Users /\ devices[u] \in Seq(BOOLEAN)
    BY <1>0, <2>1, RequestIs, DevicesAre
  <2>3. /\ DOMAIN devices[u] \subseteq DOMAIN devices'[u]
        /\ Marked(devices[u]) \subseteq Marked(devices'[u])
        /\ device \in DOMAIN devices'[u]
    BY <1>0, <2>1, <2>2, DeviceMore DEF TypedAccounts
  <2>4. DevicesGrow
    BY <1>0, <2>1, <2>3 DEF DevicesGrow, TypedAccounts
  <2>5. q.user = u /\ q.device = device /\ q.stage = "check"
    BY <1>0 DEF TypedRequests, Request
  <2> HIDE DEF q, device, u
  <2>6. request'[r] = q /\ \A p \in Requests : p # r => request'[p] = request[p]
    BY <1>0, <2>1 DEF TypedRequests
  <2>7. DeviceOf(request[r])'
    BY <2>3, <2>5, <2>6 DEF DeviceOf
  <2> QED
    BY <1>0, <2>1, <2>4, <2>6, <2>7, DevicesStep
<1>13. ASSUME NEW r \in Requests, ConfirmDevice(r) PROVE Devices'
  <2> DEFINE u == request[r].user
             d == [devices[u] EXCEPT ![request[r].device] = TRUE]
             q == [request[r] EXCEPT !.stage = "enable"]
  <2>1. /\ request' = [request EXCEPT ![r] = q]
        /\ devices' = [devices EXCEPT ![u] = d]
        /\ UNCHANGED enabled /\ request[r].stage = "confirm" /\ DeviceOf(request[r])
    BY <1>13 DEF ConfirmDevice, Goto, At, Devices
  <2>2. u \in Users /\ devices[u] \in Seq(BOOLEAN) /\ request[r].device \in DOMAIN devices[u]
    BY <1>0, <2>1, RequestIs, DevicesAre DEF DeviceOf
  <2>3. /\ DOMAIN d = DOMAIN devices[u]
        /\ Marked(devices[u]) \subseteq Marked(d)
        /\ request[r].device \in Marked(d)
    BY <2>2, MarkedMore
  <2>4. q.user = u /\ q.device = request[r].device /\ q.stage = "enable"
    BY <1>0 DEF TypedRequests, Request
  <2> HIDE DEF q, d, u
  <2>5. devices'[u] = d /\ \A v \in Users : v # u => devices'[v] = devices[v]
    BY <1>0, <2>1, <2>2 DEF TypedAccounts
  <2>6. DevicesGrow
    BY <2>3, <2>5 DEF DevicesGrow
  <2>7. request'[r] = q /\ \A p \in Requests : p # r => request'[p] = request[p]
    BY <1>0, <2>1 DEF TypedRequests
  <2>8. DeviceOf(request[r])'
    BY <2>3, <2>4, <2>5, <2>7 DEF DeviceOf
  <2> QED
    BY <1>0, <2>1, <2>6, <2>7, <2>8, DevicesStep
<1>14. ASSUME NEW r \in Requests, EnableUser(r) PROVE Devices'
  <2> DEFINE q == [request[r] EXCEPT !.stage = "issue"]
  <2>1. /\ request' = [request EXCEPT ![r] = q]
        /\ enabled' = [enabled EXCEPT ![request[r].user] = TRUE]
        /\ UNCHANGED devices /\ request[r].stage = "enable" /\ DeviceOf(request[r])
    BY <1>14 DEF EnableUser, Goto, At, Devices
  <2>2. q.user = request[r].user /\ q.device = request[r].device /\ q.stage = "issue"
    BY <1>0 DEF TypedRequests, Request
  <2>3. request[r].device \in Marked(devices[request[r].user])
    BY <2>1 DEF DeviceOf
  <2> HIDE DEF q
  <2>4. request'[r] = q /\ \A p \in Requests : p # r => request'[p] = request[p]
    BY <1>0, <2>1 DEF TypedRequests
  <2>5. DeviceOf(request[r])'
    BY <2>1, <2>2, <2>3, <2>4 DEF DeviceOf
  <2>6. \A u \in Users : enabled'[u] => enabled[u] \/ Marked(devices'[u]) # {}
    BY <1>0, <2>1, <2>3 DEF TypedAccounts
  <2>7. DevicesGrow
    BY <2>1 DEF DevicesGrow
  <2> QED
    BY <1>0, <2>4, <2>5, <2>6, <2>7, DevicesStep
<1>15. ASSUME NEW b \in Browsers, VerifyLost(b) \/ ShowCodes(b) PROVE Devices'
  BY <1>15, <1>a DEF VerifyLost, ShowCodes, accountVars, SameDevice
<1>16. ASSUME NEW b \in Browsers, Leave(b) PROVE Devices'
  <2>1. request' = Renewed(b) /\ UNCHANGED <<enabled, devices>>
    BY <1>16 DEF Leave, accountVars
  <2> QED
    BY <1>0, <1>a, <2>1, RenewedSame
<1>17. CASE Tick
  <2>1. UNCHANGED <<enabled, devices>>
    BY <1>17 DEF Tick, accountVars
  <2>2. ASSUME NEW r \in Requests PROVE SameDevice(request'[r], request[r])
    <3> DEFINE copy == [request[r].copy EXCEPT !.otp.live = FALSE]
    <3>1. request'[r] = [request[r] EXCEPT !.copy = copy] /\ request[r] \in Request
      BY <1>0, <1>17 DEF Tick, TypedRequests
    <3> HIDE DEF copy
    <3> QED
      BY <3>1 DEF SameDevice, Request
  <2> QED
    BY <1>a, <2>1, <2>2
<1>18. ASSUME NEW u \in Users, CreateAccount(u) \/ ToggleStatus(u) PROVE Devices'
  BY <1>18, <1>a DEF CreateAccount, ToggleStatus, SameDevice
<1>19. CASE UNCHANGED signInVars
  BY <1>19, <1>a DEF signInVars, accountVars, SameDevice
<1> QED
  BY <1>2, <1>3, <1>4, <1>5, <1>6, <1>7, <1>8, <1>9, <1>10, <1>11, <1>12, <1>13, <1>14,
     <1>15, <1>16, <1>17, <1>18, <1>19 DEF SignInNext

\* However many requests enrol an account at a time and wherever they are cut
\* off, an account that asks for a second factor has a device that gives it.
THEOREM EnabledAlwaysHasDevice == SignInSpec => []EnabledHasDevice
<1>1. SignInInit => SignInTypeOK /\ Mails /\ Devices
  BY SignInTypeInit, MailsInit DEF SignInInit, Devices, EnabledHasDevice, DeviceOf, Idle
<1>2. (SignInTypeOK /\ Mails /\ Devices) /\ [SignInNext]_signInVars => (SignInTypeOK /\ Mails /\ Devices)'
  BY SignInStep, DeviceStep DEF SignInTypeOK, TypedRequests, Running
<1>3. Devices => EnabledHasDevice
  BY DEF Devices
<1> QED
  BY <1>1, <1>2, <1>3, PTL DEF SignInSpec

-----------------------------------------------------------------------------
(* Attempts *)

\* A request that has passed is_throttled and would count its failure under k.
Counts(q, k) ==
    \/ q.stage = "login" /\ k = Key("LOGIN", q.browser, q.user)
    \/ q.stage = "send" /\ k = Key("EMAIL_OTP_SEND", q.browser, q.user)
    \/ q.stage = "verify" /\ k = TotpKey(q.browser, q.user, q.method)
    \/ q.stage = "confirm" /\ k = Key("TOTP_SETUP", q.browser, q.user)
UnderWay(k) == {r \in Requests : Counts(request[r], k)}

\* A key at its limit is blocked until its window is over, and the attempts
\* beyond the limit leave so many fewer requests under way.
BlockedAtLimit(k) ==
    LET row == throttle[k] IN
    row.attempts >= Limit[k[1]] =>
        /\ row.left > 0
        /\ row.age + row.left >= Window
        /\ row.attempts + Cardinality(UnderWay(k)) < Limit[k[1]] + Cardinality(Requests)
Blocks == \A k \in ThrottleKeys : BlockedAtLimit(k)

LEMMA UnderWayFinite ==
  ASSUME NEW k
  PROVE  /\ IsFiniteSet(UnderWay(k)) /\ Cardinality(UnderWay(k)) \in Nat
         /\ Cardinality(Requests) \in Nat
         /\ Cardinality(UnderWay(k)) <= Cardinality(Requests)
<1>1. IsFiniteSet(Requests) /\ UnderWay(k) \in SUBSET Requests
  BY SignInAssumption DEF UnderWay
<1> QED
  BY <1>1, FS_Subset, FS_CardinalityType

\* What a step does to a key: nothing, while no request joins it; nothing,
\* and it is not blocked; it is forgotten; a request counts its failure and
\* leaves; it grows older.
RowStep(k) ==
    \/ throttle'[k] = throttle[k] /\ UnderWay(k)' \subseteq UnderWay(k)
    \/ throttle'[k] = throttle[k] /\ throttle[k].left = 0
    \/ throttle'[k] = NoRow
    \/ /\ throttle'[k] = Register(throttle[k], Limit[k[1]])
       /\ \E r \in UnderWay(k) : UnderWay(k)' \subseteq UnderWay(k) \ {r}
    \/ throttle'[k] = Aged(throttle[k]) /\ UnderWay(k)' \subseteq UnderWay(k)

LEMMA BlockedStep ==
  ASSUME TypedThrottle, NEW k \in ThrottleKeys, BlockedAtLimit(k), RowStep(k)
  PROVE  BlockedAtLimit(k)'
<1> DEFINE row == throttle[k]
           limit == Limit[k[1]]
           n == Cardinality(UnderWay(k))
           m == Cardinality(Requests)
<1>1. /\ row \in Row /\ row.attempts \in Nat /\ row.age \in 0 .. Window /\ row.left \in 0 .. Block
      /\ limit \in Nat \ {0} /\ Window \in Nat \ {0} /\ Block \in Nat /\ Block >= Window
  BY LimitOf, SignInAssumption DEF TypedThrottle, Row
<1>2. n \in Nat /\ m \in Nat /\ n <= m /\ IsFiniteSet(UnderWay(k)) /\ UnderWay(k) \subseteq Requests
  BY UnderWayFinite DEF UnderWay
<1>3. /\ Cardinality(UnderWay(k)') \in Nat
      /\ UnderWay(k)' \subseteq UnderWay(k) => Cardinality(UnderWay(k)') <= n
      /\ \A r \in UnderWay(k) : UnderWay(k)' \subseteq UnderWay(k) \ {r} => Cardinality(UnderWay(k)') + 1 <= n
  <2>1. IsFiniteSet(Requests) /\ UnderWay(k)' \in SUBSET Requests
    BY SignInAssumption DEF UnderWay
  <2>2. Cardinality(UnderWay(k)') \in Nat
    BY <2>1, FS_Subset, FS_CardinalityType
  <2>3. UnderWay(k)' \subseteq UnderWay(k) => Cardinality(UnderWay(k)') <= n
    BY <1>2, FS_Subset
  <2>4. ASSUME NEW r \in UnderWay(k), UnderWay(k)' \subseteq UnderWay(k) \ {r}
        PROVE  Cardinality(UnderWay(k)') + 1 <= n
    <3>1. IsFiniteSet(UnderWay(k) \ {r}) /\ Cardinality(UnderWay(k) \ {r}) = n - 1
      BY <1>2, FS_RemoveElement
    <3>2. Cardinality(UnderWay(k)') <= n - 1
      BY <2>4, <3>1, FS_Subset
    <3> QED
      BY <1>2, <2>2, <3>2
  <2> QED
    BY <2>2, <2>3, <2>4
<1>4. BlockedAtLimit(k)' <=>
          (throttle'[k].attempts >= limit =>
              /\ throttle'[k].left > 0
              /\ throttle'[k].age + throttle'[k].left >= Window
              /\ throttle'[k].attempts + Cardinality(UnderWay(k)') < limit + m)
  BY DEF BlockedAtLimit
<1>5. row.attempts >= limit => row.left > 0 /\ row.age + row.left >= Window /\ row.attempts + n < limit + m
  BY DEF BlockedAtLimit
<1> HIDE DEF row, limit, n, m
<1>6. CASE throttle'[k] = throttle[k] /\ UnderWay(k)' \subseteq UnderWay(k)
  BY <1>1, <1>2, <1>3, <1>4, <1>5, <1>6 DEF row
<1>7. CASE throttle'[k] = throttle[k] /\ throttle[k].left = 0
  BY <1>1, <1>4, <1>5, <1>7 DEF row
<1>8. CASE throttle'[k] = NoRow
  BY <1>1, <1>4, <1>8, NoRowTyped
<1>9. ASSUME throttle'[k] = Register(throttle[k], limit), NEW r \in UnderWay(k),
             UnderWay(k)' \subseteq UnderWay(k) \ {r}
      PROVE  BlockedAtLimit(k)'
  <2> DEFINE new == Register(row, limit)
  <2>1. /\ \/ new.attempts = 1
           \/ new.attempts = row.attempts + 1
        /\ new.age \in 0 .. Window
        /\ new.attempts >= limit => new.left = Block
    <3>1. new \in Row
      BY <1>1, Registered
    <3>2. new.age \in 0 .. Window
      BY <3>1 DEF Row
    <3> HIDE DEF new
    <3>3. /\ new.attempts = 1 \/ new.attempts = row.attempts + 1
          /\ new.attempts >= limit => new.left = Block
      BY <1>1, Registered DEF new
    <3> QED
      BY <3>2, <3>3
  <2>2. throttle'[k] = new
    BY <1>9 DEF row
  <2> HIDE DEF new
  <2>3. Cardinality(UnderWay(k)') + 1 <= n
    BY <1>3, <1>9
  <2>4. ASSUME new.attempts >= limit PROVE new.attempts + Cardinality(UnderWay(k)') < limit + m
    <3>1. CASE new.attempts = 1
      BY <1>1, <1>2, <1>3, <2>3, <2>4, <3>1
    <3>2. CASE new.attempts = row.attempts + 1
      BY <1>1, <1>2, <1>3, <1>5, <2>3, <2>4, <3>2
    <3> QED
      BY <2>1, <3>1, <3>2
  <2> QED
    BY <1>1, <1>4, <2>1, <2>2, <2>4
<1>10. CASE throttle'[k] = Aged(throttle[k]) /\ UnderWay(k)' \subseteq UnderWay(k)
  <2> DEFINE new == Aged(row)
  <2>1. \/ new = NoRow
        \/ /\ new.attempts = row.attempts
           /\ new.age = IF row.age + 1 <= Window THEN row.age + 1 ELSE Window
           /\ new.left = IF row.left >= 1 THEN row.left - 1 ELSE 0
           /\ new.age < Window \/ new.left # 0
    BY <1>1, AgedRow
  <2>2. throttle'[k] = new
    BY <1>10 DEF row
  <2> HIDE DEF new
  <2>3. CASE new = NoRow
    BY <1>8, <2>2, <2>3
  <2>4. CASE new # NoRow
    <3>1. Cardinality(UnderWay(k)') <= n
      BY <1>3, <1>10
    <3> QED
      BY <1>1, <1>2, <1>3, <1>4, <1>5, <2>1, <2>2, <2>4, <3>1
  <2> QED
    BY <2>3, <2>4
<1> QED
  BY <1>6, <1>7, <1>8, <1>9, <1>10 DEF RowStep, limit

\* Requests that only end or go on elsewhere.
LEMMA NoneJoins ==
  ASSUME NEW k, \A r \in Requests : Counts(request'[r], k) => Counts(request[r], k)
  PROVE  UnderWay(k)' \subseteq UnderWay(k)
  BY DEF UnderWay, Counts

LEMMA IdleCounts == \A k : ~Counts(Idle, k)
  BY DEF Counts, Idle

LEMMA RenewedCounts ==
  ASSUME TypedRequests, NEW b, NEW r \in Requests, NEW k
  PROVE  Counts(Renewed(b)[r], k) => Counts(request[r], k)
<1>1. request[r] \in Request
  BY DEF TypedRequests
<1>2. Counts([request[r] EXCEPT !.current = FALSE], k) => Counts(request[r], k)
  BY <1>1 DEF Counts, Request
<1> QED
  BY <1>2 DEF Renewed

\* The request that r becomes counts under no key, or under the key K only.
LEMMA OneChanges ==
  ASSUME TypedRequests, NEW r \in Requests, NEW q, request' = [request EXCEPT ![r] = q], NEW k
  PROVE  /\ ~Counts(q, k) => UnderWay(k)' \subseteq UnderWay(k) \ {r}
         /\ UnderWay(k)' \subseteq UnderWay(k) \cup {r}
<1>1. request'[r] = q /\ \A p \in Requests : p # r => request'[p] = request[p]
  BY DEF TypedRequests
<1>2. UnderWay(k)' = {p \in Requests : Counts(request'[p], k)}
  BY DEF UnderWay, Counts
<1> QED
  BY <1>1, <1>2, Zenon DEF UnderWay

LEMMA EndCounts ==
  ASSUME TypedRequests, NEW r \in Requests, End(r), NEW k
  PROVE  UnderWay(k)' \subseteq UnderWay(k) \ {r}
  BY OneChanges, IdleCounts DEF End

LEMMA SignedInCounts ==
  ASSUME TypedRequests, NEW r \in Requests, NEW u, NEW sess, EndSignedIn(r, u, sess), NEW k
  PROVE  UnderWay(k)' \subseteq UnderWay(k)
<1>1. CASE request[r].copy.user = u
  BY <1>1, EndCounts DEF EndSignedIn, EndSaving
<1>2. CASE request[r].copy.user # u
  <2>1. request' = [Renewed(request[r].browser) EXCEPT ![r] = Idle]
    BY <1>2 DEF EndSignedIn
  <2>2. DOMAIN Renewed(request[r].browser) = Requests
    BY DEF Renewed
  <2>3. \A q \in Requests : request'[q] = Idle \/ request'[q] = Renewed(request[r].browser)[q]
    BY <2>1, <2>2
  <2> QED
    BY <2>3, IdleCounts, RenewedCounts, NoneJoins
<1> QED
  BY <1>1, <1>2

\* A request that passes is_throttled joins those under way at its key.
LEMMA JoinStep ==
  ASSUME TypedThrottle, TypedRequests, NEW r \in Requests, NEW q, request' = [request EXCEPT ![r] = q],
         UNCHANGED throttle, NEW key \in ThrottleKeys, ~Throttled(key),
         \A k : Counts(q, k) => k = key, NEW k \in ThrottleKeys
  PROVE  RowStep(k)
<1>1. CASE k = key
  <2>1. throttle[k].left = 0
    BY <1>1 DEF Throttled, TypedThrottle, Row
  <2> QED
    BY <2>1 DEF RowStep
<1>2. CASE k # key
  <2>1. UnderWay(k)' \subseteq UnderWay(k)
    BY <1>2, OneChanges
  <2> QED
    BY <2>1 DEF RowStep
<1> QED
  BY <1>1, <1>2

\* A request counts its failure and does nothing else that counts.
LEMMA FailStep ==
  ASSUME TypedThrottle, TypedRequests, NEW r \in Requests, NEW q, request' = [request EXCEPT ![r] = q],
         NEW key \in ThrottleKeys, RegisterFailure(key), Counts(request[r], key),
         \A k : ~Counts(q, k), NEW k \in ThrottleKeys
  PROVE  RowStep(k)
<1>1. UnderWay(k)' \subseteq UnderWay(k) \ {r}
  BY OneChanges
<1>2. throttle' = [throttle EXCEPT ![key] = Register(throttle[key], Limit[key[1]])]
  BY DEF RegisterFailure
<1>3. CASE k = key
  <2>1. throttle'[k] = Register(throttle[k], Limit[k[1]])
    BY <1>2, <1>3 DEF TypedThrottle
  <2>2. r \in UnderWay(k)
    BY <1>3 DEF UnderWay
  <2> QED
    BY <1>1, <2>1, <2>2 DEF RowStep
<1>4. CASE k # key
  <2>1. throttle'[k] = throttle[k]
    BY <1>2, <1>4 DEF TypedThrottle
  <2> QED
    BY <1>1, <2>1 DEF RowStep
<1> QED
  BY <1>3, <1>4

LEMMA ClearStep ==
  ASSUME NEW keys, ClearFailures(keys), NEW k \in ThrottleKeys, UnderWay(k)' \subseteq UnderWay(k)
  PROVE  RowStep(k)
<1>1. throttle'[k] = NoRow \/ throttle'[k] = throttle[k]
  BY DEF ClearFailures
<1> QED
  BY <1>1 DEF RowStep

LEMMA RowSteps ==
  ASSUME SignInTypeOK, [SignInNext]_signInVars, NEW k \in ThrottleKeys
  PROVE  RowStep(k)
<1>0. TypedThrottle /\ TypedRequests /\ TypedSessions
  BY TypeParts
<1>u. \A b \in Browsers : /\ IsActive(session[b].user) => session[b].user \in Users
                          /\ IsActive(session[b].preauth) => session[b].preauth \in Users
  BY <1>0 DEF TypedSessions, Session, IsActive
<1>a. ASSUME UNCHANGED throttle, UnderWay(k)' \subseteq UnderWay(k) PROVE RowStep(k)
  BY <1>a DEF RowStep
<1>b. ASSUME NEW r \in Requests, End(r), UNCHANGED throttle PROVE RowStep(k)
  BY <1>0, <1>a, <1>b, EndCounts
<1>c. ASSUME NEW r \in Requests, NEW q, request' = [request EXCEPT ![r] = q], UNCHANGED throttle, ~Counts(q, k)
      PROVE  RowStep(k)
  BY <1>0, <1>a, <1>c, OneChanges
<1>1. ASSUME NEW r \in Requests, NEW b \in Browsers, NEW u \in Users, Login(r, b, u) PROVE RowStep(k)
  <2> DEFINE key == Key("LOGIN", b, u)
             q == [stage |-> "login", browser |-> b, user |-> u, method |-> "none",
                   copy |-> session[b], current |-> TRUE, device |-> 0]
  <2>1. request' = [request EXCEPT ![r] = q] /\ UNCHANGED throttle /\ ~Throttled(key)
    BY <1>1 DEF Login, Begin
  <2>2. key \in ThrottleKeys
    BY KeysAre DEF Actions
  <2>3. \A j : Counts(q, j) => j = key
    BY DEF Counts
  <2> HIDE DEF key, q
  <2> QED
    BY <1>0, <2>1, <2>2, <2>3, JoinStep
<1>2. ASSUME NEW r \in Requests, NEW b \in Browsers, Send(r, b) PROVE RowStep(k)
  <2> DEFINE u == session[b].preauth
             key == Key("EMAIL_OTP_SEND", b, u)
             q == [stage |-> "send", browser |-> b, user |-> u, method |-> "email",
                   copy |-> session[b], current |-> TRUE, device |-> 0]
  <2>1. request' = [request EXCEPT ![r] = q] /\ UNCHANGED throttle /\ ~Throttled(key) /\ u \in Users
    BY <1>2, <1>u DEF Send, Begin
  <2>2. key \in ThrottleKeys
    BY <2>1, KeysAre DEF Actions
  <2>3. \A j : Counts(q, j) => j = key
    BY DEF Counts
  <2> HIDE DEF key, q
  <2> QED
    BY <1>0, <2>1, <2>2, <2>3, JoinStep
<1>3. ASSUME NEW r \in Requests, NEW b \in Browsers, NEW method \in Methods, Verify(r, b, method) PROVE RowStep(k)
  <2> DEFINE u == session[b].preauth
             key == TotpKey(b, u, method)
             q == [stage |-> "verify", browser |-> b, user |-> u, method |-> method,
                   copy |-> session[b], current |-> TRUE, device |-> 0]
  <2>1. request' = [request EXCEPT ![r] = q] /\ UNCHANGED throttle /\ ~Throttled(key) /\ u \in Users
    BY <1>3, <1>u DEF Verify, Begin
  <2>2. key \in ThrottleKeys
    BY <2>1, KeysAre
  <2>3. \A j : Counts(q, j) => j = key
    BY DEF Counts
  <2> HIDE DEF key, q
  <2> QED
    BY <1>0, <2>1, <2>2, <2>3, JoinStep
<1>4. ASSUME NEW r \in Requests, NEW b \in Browsers, Setup(r, b) PROVE RowStep(k)
  <2>1. /\ \E stage \in {"setup", "check"} : \E u, device :
              request' = [request EXCEPT ![r] =
                             [stage |-> stage, browser |-> b, user |-> u, method |-> "none",
                              copy |-> session[b], current |-> TRUE, device |-> device]]
        /\ UNCHANGED throttle
    BY <1>4, Zenon DEF Setup, Begin
  <2> QED
    BY <1>c, <2>1 DEF Counts
<1>5. ASSUME NEW r \in Requests, CheckSetup(r) PROVE RowStep(k)
  <2> DEFINE key == Key("TOTP_SETUP", request[r].browser, request[r].user)
             q == [request[r] EXCEPT !.stage = "confirm"]
  <2>1. /\ request' = [request EXCEPT ![r] = q] /\ UNCHANGED throttle /\ ~Throttled(key)
        /\ request[r].stage = "check"
    BY <1>5 DEF CheckSetup, Goto, At
  <2>2. key \in ThrottleKeys
    BY <1>0, <2>1, RequestIs
  <2>3. q.stage = "confirm" /\ q.browser = request[r].browser /\ q.user = request[r].user
    BY <1>0 DEF TypedRequests, Request
  <2>4. \A j : Counts(q, j) => j = key
    BY <2>3 DEF Counts
  <2> HIDE DEF key, q
  <2> QED
    BY <1>0, <2>1, <2>2, <2>4, JoinStep
<1>6. ASSUME NEW r \in Requests, NEW key \in ThrottleKeys, Counts(request[r], key), RegisterFailure(key), End(r)
      PROVE  RowStep(k)
  <2>1. request' = [request EXCEPT ![r] = Idle]
    BY <1>6 DEF End
  <2> QED
    BY <1>0, <1>6, <2>1, IdleCounts, FailStep
<1>7. ASSUME NEW r \in Requests, LoginRefused(r) \/ SetupFailed(r) \/ VerifyFailed(r) PROVE RowStep(k)
  <2>1. \E key \in ThrottleKeys : Counts(request[r], key) /\ RegisterFailure(key)
    BY <1>0, <1>7, RequestIs DEF LoginRefused, SetupFailed, VerifyFailed, Counts, At
  <2>2. End(r)
    BY <1>7 DEF LoginRefused, SetupFailed, VerifyFailed, EndSaving
  <2> QED
    BY <1>6, <2>1, <2>2
<1>8. ASSUME NEW r \in Requests, CountSend(r) PROVE RowStep(k)
  <2> DEFINE key == Key("EMAIL_OTP_SEND", request[r].browser, request[r].user)
             q == [request[r] EXCEPT !.stage = "mail"]
  <2>1. key \in ThrottleKeys /\ Counts(request[r], key) /\ RegisterFailure(key)
    BY <1>0, <1>8, RequestIs DEF CountSend, Counts, At
  <2>2. CASE End(r)
    BY <1>6, <2>1, <2>2
  <2>3. CASE Goto(r, "mail")
    <3>1. request' = [request EXCEPT ![r] = q] /\ \A j : ~Counts(q, j)
      BY <1>0, <2>3 DEF Goto, Counts, TypedRequests, Request
    <3> HIDE DEF key, q
    <3> QED
      BY <1>0, <2>1, <3>1, FailStep
  <2> QED
    BY <1>8, <2>2, <2>3 DEF CountSend
<1>9. ASSUME NEW r \in Requests, LoginAccepted(r) \/ FinishMfa(r) \/ IssueCodes(r) PROVE RowStep(k)
  <2>1. /\ \E keys : ClearFailures(keys)
        /\ \E u, sess : EndSaving(r, sess) \/ EndSignedIn(r, u, sess)
    BY <1>9, Zenon DEF LoginAccepted, FinishMfa, IssueCodes
  <2>2. UnderWay(k)' \subseteq UnderWay(k)
    BY <1>0, <2>1, EndCounts, SignedInCounts DEF EndSaving
  <2> QED
    BY <2>1, <2>2, ClearStep
<1>10. ASSUME NEW r \in Requests, ShowSetup(r) \/ Crash(r) PROVE RowStep(k)
  BY <1>b, <1>10 DEF ShowSetup, Crash
<1>11. ASSUME NEW r \in Requests, NEW delivered \in BOOLEAN, Mail(r, delivered) PROVE RowStep(k)
  BY <1>b, <1>11 DEF Mail, EndSaving
<1>12. ASSUME NEW r \in Requests, CreateDevice(r) PROVE RowStep(k)
  <2> DEFINE q == [request[r] EXCEPT !.stage = "check", !.device = Len(devices[request[r].user]) + 1]
  <2>1. request' = [request EXCEPT ![r] = q] /\ UNCHANGED throttle
    BY <1>12 DEF CreateDevice
  <2>2. q.stage = "check"
    BY <1>0 DEF TypedRequests, Request
  <2> HIDE DEF q
  <2> QED
    BY <1>c, <2>1, <2>2 DEF Counts
<1>13. ASSUME NEW r \in Requests, ConfirmDevice(r) \/ EnableUser(r) PROVE RowStep(k)
  <2>1. PICK stage \in {"enable", "issue"} : Goto(r, stage) /\ UNCHANGED throttle
    BY <1>13 DEF ConfirmDevice, EnableUser
  <2> DEFINE q == [request[r] EXCEPT !.stage = stage]
  <2>2. q.stage = stage /\ request' = [request EXCEPT ![r] = q]
    BY <1>0, <2>1 DEF TypedRequests, Request, Goto
  <2> HIDE DEF q
  <2> QED
    BY <1>c, <2>1, <2>2 DEF Counts
<1>14. ASSUME NEW b \in Browsers, VerifyLost(b) \/ ShowCodes(b) PROVE RowStep(k)
  BY <1>14, <1>a, NoneJoins DEF VerifyLost, ShowCodes
<1>15. ASSUME NEW b \in Browsers, Leave(b) PROVE RowStep(k)
  <2>1. request' = Renewed(b) /\ UNCHANGED throttle
    BY <1>15 DEF Leave
  <2> QED
    BY <1>0, <1>a, <2>1, RenewedCounts, NoneJoins
<1>16. CASE Tick
  <2>1. throttle'[k] = Aged(throttle[k])
    BY <1>16 DEF Tick
  <2>2. ASSUME NEW r \in Requests PROVE Counts(request'[r], k) => Counts(request[r], k)
    <3> DEFINE copy == [request[r].copy EXCEPT !.otp.live = FALSE]
    <3>1. request'[r] = [request[r] EXCEPT !.copy = copy] /\ request[r] \in Request
      BY <1>0, <1>16 DEF Tick, TypedRequests
    <3> HIDE DEF copy
    <3> QED
      BY <3>1 DEF Counts, Request
  <2> QED
    BY <2>1, <2>2, NoneJoins DEF RowStep
<1>17. ASSUME NEW u \in Users, CreateAccount(u) \/ ToggleStatus(u) PROVE RowStep(k)
  BY <1>17, <1>a, NoneJoins DEF CreateAccount, ToggleStatus
<1>18. CASE UNCHANGED signInVars
  BY <1>18, <1>a, NoneJoins DEF signInVars
<1> QED
  BY <1>1, <1>2, <1>3, <1>4, <1>5, <1>7, <1>8, <1>9, <1>10, <1>11, <1>12, <1>13, <1>14,
     <1>15, <1>16, <1>17, <1>18 DEF SignInNext

LEMMA BlocksInit == SignInInit => Blocks
<1> SUFFICES ASSUME SignInInit, NEW k \in ThrottleKeys PROVE BlockedAtLimit(k)
  BY DEF Blocks
<1>1. throttle[k].attempts = 0 /\ Limit[k[1]] \in Nat \ {0}
  BY LimitOf, NoRowTyped DEF SignInInit
<1> QED
  BY <1>1 DEF BlockedAtLimit

\* A key that is not blocked has attempts left, also right after a block; and
\* beyond its limit go only requests that were under way when it was blocked.
THEOREM AttemptsAreLimited == SignInSpec => []AttemptsLeft
<1>1. SignInInit => SignInTypeOK /\ Mails /\ Blocks
  BY SignInTypeInit, MailsInit, BlocksInit
<1>2. (SignInTypeOK /\ Mails /\ Blocks) /\ [SignInNext]_signInVars => (SignInTypeOK /\ Mails /\ Blocks)'
  <2> SUFFICES ASSUME SignInTypeOK, Mails, Blocks, [SignInNext]_signInVars
               PROVE  (SignInTypeOK /\ Mails /\ Blocks)'
    OBVIOUS
  <2>1. ASSUME NEW k \in ThrottleKeys PROVE BlockedAtLimit(k)'
    <3>1. RowStep(k) /\ BlockedAtLimit(k) /\ TypedThrottle
      BY RowSteps, TypeParts DEF Blocks
    <3> QED
      BY <3>1, BlockedStep
  <2> QED
    BY <2>1, SignInStep DEF Blocks
<1>3. SignInTypeOK /\ Blocks => AttemptsLeft
  <2> SUFFICES ASSUME SignInTypeOK, Blocks, NEW k \in ThrottleKeys
               PROVE  /\ throttle[k].left > 0 \/ throttle[k].attempts < Limit[k[1]]
                      /\ throttle[k].attempts < Limit[k[1]] + Cardinality(Requests)
    BY DEF AttemptsLeft
  <2>1. throttle[k].attempts \in Nat /\ Limit[k[1]] \in Nat \ {0}
    BY LimitOf DEF SignInTypeOK, Row
  <2> QED
    BY <2>1, UnderWayFinite DEF Blocks, BlockedAtLimit
<1> QED
  BY <1>1, <1>2, <1>3, PTL DEF SignInSpec

=============================================================================
