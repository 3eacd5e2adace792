---------------------------- MODULE WebsiteProofs ----------------------------
(***************************************************************************)
(* Theorems about Website, for any requests, addresses and their           *)
(* spellings, browsers, tabs and faults.                                   *)
(***************************************************************************)
EXTENDS Website, TLAPS

-----------------------------------------------------------------------------
(* The accounts.                                                           *)

\* A handler that runs has a form, and whoever was granted a session gave the
\* password of the account.
AccountInv ==
    /\ account \in [Addresses -> Passwords \union {None}]
    /\ at \in [Requests -> {"new", "lookUp", "insert", "granted", "refused"}]
    /\ sent \in [Requests -> Forms \union {None}]
    /\ \A r \in Requests :
        /\ at[r] # "new" => sent[r] \in Forms
        /\ at[r] = "granted" => account[sent[r].address] = sent[r].password

\* AccountInv holds at first.
LEMMA InitAccountInv == Init => AccountInv
BY DEF Init, AccountInv

\* Only Send, LookUp, Insert and Unanswered write what AccountInv speaks of.
LEMMA OtherStepsKeepServer ==
    ASSUME [Next]_vars,
           \A r \in Requests : ~ LookUp(r) /\ ~ Insert(r) /\ \A t \in Tabs : ~ Send(t, r),
           \A t \in Tabs : ~ Unanswered(t)
    PROVE  UNCHANGED <<account, at, sent>>
BY DEF Next, vars, serverVars, Expire, Me, Load, Land, Answered, Logout

\* The form of a request is well formed.
LEMMA FormsOK ==
    ASSUME NEW kind \in {"signup", "login"}, NEW s \in Spellings, NEW p \in Passwords
    PROVE  Form(kind, s, p) \in Forms
BY WebsiteAssumption DEF Form, Forms

\* Every step keeps AccountInv, and what OneWinner says on top of it.
LEMMA NextAccountInv == AccountInv /\ OneWinner /\ [Next]_vars => AccountInv' /\ OneWinner'
<1> SUFFICES ASSUME AccountInv, OneWinner, [Next]_vars
             PROVE  AccountInv' /\ OneWinner'
    OBVIOUS
<1> USE DEF AccountInv, Goto
<1>1. ASSUME NEW r \in Requests, LookUp(r) PROVE AccountInv' /\ OneWinner'
    <2>1. /\ UNCHANGED <<account, sent>>
          /\ at' \in [Requests -> {"new", "lookUp", "insert", "granted", "refused"}]
          /\ \A q \in Requests \ {r} : at'[q] = at[q]
          /\ sent[r] \in Forms
          /\ at'[r] = "granted" =>
                sent[r].kind = "login" /\ account[sent[r].address] = sent[r].password
        BY <1>1 DEF LookUp, Forms
    <2>2. AccountInv'
        BY <2>1
    <2>3. ASSUME NEW q \in Requests, at'[q] = "granted", sent[q].kind = "signup"
          PROVE  q # r /\ at[q] = "granted"
        BY <2>1, <2>3
    <2>4. OneWinner'
        BY <2>1, <2>2, <2>3 DEF OneWinner
    <2> QED BY <2>2, <2>4
<1>2. ASSUME NEW r \in Requests, Insert(r) PROVE AccountInv' /\ OneWinner'
    <2> DEFINE address == sent[r].address
    <2>1. /\ UNCHANGED sent
          /\ at' \in [Requests -> {"new", "lookUp", "insert", "granted", "refused"}]
          /\ \A q \in Requests \ {r} : at'[q] = at[q]
          /\ sent[r] \in Forms /\ address \in Addresses /\ sent[r].password \in Passwords
        BY <1>2 DEF Insert, Forms
    <2>2. CASE account[address] = None
                /\ account' = [account EXCEPT ![address] = sent[r].password]
        <3>1. ASSUME NEW q \in Requests \ {r}, at[q] = "granted"
              PROVE  sent[q].address # address /\ sent[q].address \in Addresses
            <4>1. sent[q] \in Forms /\ account[sent[q].address] = sent[q].password
                BY <3>1
            <4>2. sent[q].password # None /\ sent[q].address \in Addresses
                BY <4>1, WebsiteAssumption DEF Forms
            <4> QED BY <4>1, <4>2, <2>2
        <3>2. AccountInv'
            BY <2>1, <2>2, <3>1
        <3>3. OneWinner'
            BY <2>1, <3>1, <3>2 DEF OneWinner
        <3> QED BY <3>2, <3>3
    <2>3. CASE account' = account /\ at'[r] # "granted"
        BY <2>1, <2>3 DEF OneWinner
    <2> QED BY <1>2, <2>2, <2>3 DEF Insert
<1>3. ASSUME NEW r \in Requests, NEW t \in Tabs, Send(t, r) PROVE AccountInv' /\ OneWinner'
    <2>1. PICK f \in Forms : sent' = [sent EXCEPT ![r] = f]
        BY <1>3, FormsOK DEF Send
    <2>2. /\ UNCHANGED account
          /\ at[r] = "new" /\ at' = [at EXCEPT ![r] = "lookUp"]
        BY <1>3 DEF Send
    <2> QED BY <2>1, <2>2 DEF OneWinner
<1>4. ASSUME NEW t \in Tabs, Unanswered(t) PROVE AccountInv' /\ OneWinner'
    <2>1. /\ UNCHANGED <<account, sent>>
          /\ \/ UNCHANGED at
             \/ at[form[t]] = "lookUp" /\ at' = [at EXCEPT ![form[t]] = "refused"]
        BY <1>4 DEF Unanswered
    <2> QED BY <2>1 DEF OneWinner
<1>5. CASE UNCHANGED <<account, at, sent>>
    BY <1>5 DEF OneWinner
<1> QED BY <1>1, <1>2, <1>3, <1>4, <1>5, OtherStepsKeepServer

\* However many signups with one address run at once, one is answered with a
\* session, and the account has its password.
THEOREM SignupHasOneWinner == Spec => []OneWinner
<1>1. Init => AccountInv /\ OneWinner
    BY InitAccountInv DEF Init, OneWinner
<1>2. (AccountInv /\ OneWinner) /\ [Next]_vars => (AccountInv /\ OneWinner)'
    BY NextAccountInv
<1> QED BY <1>1, <1>2, PTL DEF Spec

-----------------------------------------------------------------------------
(* The sessions.                                                           *)

\* What a page that was not overtaken shows, or will show once its check has
\* come back, and that tokens are of requests that were sent.
SessionInv ==
    /\ token \in [Browsers -> Requests \union {None}]
    /\ user \in [Tabs -> Addresses \union {None}]
    /\ loading \in [Tabs -> BOOLEAN]
    /\ check \in [Tabs -> [at : {"none", "asked", "valid", "failed"},
                           token : Requests \union {None}]]
    /\ form \in [Tabs -> Requests \union {None}]
    /\ \A b \in Browsers : token[b] # None => at[token[b]] = "granted"
    /\ \A t \in Tabs : check[t].token # None => at[check[t].token] = "granted"
    /\ \A t \in Tabs \ overtaken :
        IF check[t].at = "none" THEN user[t] = Owner(token[BrowserOf[t]])
        ELSE check[t].token = token[BrowserOf[t]]
    /\ \A t \in Tabs : ~ loading[t] => check[t].at = "none"
    /\ \A t \in Tabs : check[t].at = "none" => check[t] = NoCheck

\* SessionInv holds at first.
LEMMA InitSessionInv == Init => SessionInv
BY WebsiteAssumption DEF Init, SessionInv, Owner, NoCheck, Check

\* SetSession keeps SessionInv: as a form or a logout does it, with the check of
\* t as it is, and as a failed check does it, which is then over.
LEMMA SetSessionKeeps ==
    ASSUME SessionInv, NEW t \in Tabs, NEW stored \in Requests \union {None},
           NEW checking \in BOOLEAN,
           stored # None => at[stored] = "granted",
           SetSession(t, stored, checking),
           UNCHANGED <<at, sent>>,
           \/ checking = Checking(t) /\ UNCHANGED <<check, loading>>
           \/ /\ ~ checking
              /\ check' = [check EXCEPT ![t] = NoCheck]
              /\ loading' = [loading EXCEPT ![t] = FALSE],
           form' \in [Tabs -> Requests \union {None}],
           Owner(stored) \in Addresses \union {None}
    PROVE  SessionInv'
<1> DEFINE b == BrowserOf[t]
<1>1. b \in Browsers /\ \A u \in Tabs : BrowserOf[u] \in Browsers
    BY WebsiteAssumption
<1>2. /\ token' = [token EXCEPT ![b] = stored]
      /\ user' = [user EXCEPT ![t] = Owner(stored)]
      /\ overtaken' = IF checking
                      THEN overtaken \union {u \in Tabs \ {t} : BrowserOf[u] = b /\ token[b] # stored} \union {t}
                      ELSE (overtaken \union {u \in Tabs \ {t} : BrowserOf[u] = b /\ token[b] # stored}) \ {t}
    BY DEF SetSession
<1>3. /\ token' \in [Browsers -> Requests \union {None}]
      /\ user' \in [Tabs -> Addresses \union {None}]
      /\ loading' \in [Tabs -> BOOLEAN]
      /\ check' \in [Tabs -> [at : {"none", "asked", "valid", "failed"},
                              token : Requests \union {None}]]
    <2>1. NoCheck \in [at : {"none", "asked", "valid", "failed"},
                       token : Requests \union {None}]
        BY DEF NoCheck, Check
    <2>2. token' \in [Browsers -> Requests \union {None}]
        BY <1>2 DEF SessionInv
    <2>3. user' \in [Tabs -> Addresses \union {None}]
        BY <1>2 DEF SessionInv
    <2>4. loading' \in [Tabs -> BOOLEAN]
        BY DEF SessionInv
    <2>5. check' \in [Tabs -> [at : {"none", "asked", "valid", "failed"},
                              token : Requests \union {None}]]
        BY <2>1 DEF SessionInv
    <2> QED BY <2>2, <2>3, <2>4, <2>5
<1>4. \A c \in Browsers : token'[c] # None => at'[token'[c]] = "granted"
    BY <1>1, <1>2 DEF SessionInv
<1>5. \A u \in Tabs : check'[u].token # None => at'[check'[u].token] = "granted"
    BY DEF SessionInv, NoCheck, Check
<1>6. \A u \in Tabs : ~ loading'[u] => check'[u].at = "none"
    BY DEF SessionInv, NoCheck, Check
<1>7. \A u \in Tabs : check'[u].at = "none" => check'[u] = NoCheck
    BY DEF SessionInv, NoCheck, Check
<1>8. sent' = sent
    OBVIOUS
<1>9. ASSUME NEW u \in Tabs, u \notin overtaken'
      PROVE  IF check'[u].at = "none" THEN user'[u] = Owner(token'[BrowserOf[u]])
             ELSE check'[u].token = token'[BrowserOf[u]]
    <2>1. CASE u = t
        <3>1. ~ checking /\ check'[t].at = "none"
            BY <1>2, <1>9, <2>1 DEF SessionInv, Checking, NoCheck, Check
        <3>2. user'[t] = Owner(stored) /\ token'[b] = stored
            BY <1>1, <1>2 DEF SessionInv
        <3> QED BY <2>1, <3>1, <3>2 DEF Owner
    <2>2. CASE u # t
        <3>1. /\ u \notin overtaken
              /\ BrowserOf[u] = b => token[b] = stored
              /\ check'[u] = check[u] /\ user'[u] = user[u]
            BY <1>2, <1>9, <2>2 DEF SessionInv
        <3>2. token'[BrowserOf[u]] = token[BrowserOf[u]]
            BY <1>1, <1>2, <3>1 DEF SessionInv
        <3> QED BY <3>1, <3>2 DEF SessionInv, Owner
    <2> QED BY <2>1, <2>2
<1> QED BY <1>3, <1>4, <1>5, <1>6, <1>7, <1>8, <1>9 DEF SessionInv, Owner

\* A token's owner, where there is a token, has an address.
LEMMA OwnerOK ==
    ASSUME AccountInv, NEW r \in Requests \union {None}, r # None => at[r] = "granted"
    PROVE  Owner(r) \in Addresses \union {None}
<1>1. CASE r = None
    BY <1>1 DEF Owner
<1>2. CASE r # None
    <2>1. sent[r] \in Forms
        BY <1>2 DEF AccountInv
    <2> QED BY <1>2, <2>1 DEF Owner, Forms
<1> QED BY <1>1, <1>2

\* The handlers leave the pages alone, and granted requests as they are.
LEMMA ServerKeepsSession ==
    ASSUME SessionInv, UNCHANGED pageVars,
           \A r \in Requests : at[r] = "granted" => at'[r] = "granted" /\ sent'[r] = sent[r]
    PROVE  SessionInv'
<1>1. \A r \in Requests \union {None} :
        (r # None => at[r] = "granted") => Owner(r)' = Owner(r)
    BY DEF Owner
<1>2. \A t \in Tabs : BrowserOf[t] \in Browsers
    BY WebsiteAssumption
<1> QED BY <1>1, <1>2 DEF SessionInv, pageVars, Owner

\* Every step keeps SessionInv.
LEMMA NextSessionInv == AccountInv /\ SessionInv /\ [Next]_vars => SessionInv'
<1> SUFFICES ASSUME AccountInv, SessionInv, [Next]_vars
             PROVE  SessionInv'
    OBVIOUS
<1>1. ASSUME NEW r \in Requests, LookUp(r) \/ Insert(r) \/ Expire(r) PROVE SessionInv'
    <2>1. UNCHANGED pageVars /\ UNCHANGED sent
        BY <1>1 DEF LookUp, Insert, Expire
    <2>2. \A q \in Requests : at[q] = "granted" => at'[q] = "granted"
        BY <1>1 DEF LookUp, Insert, Expire, Goto, AccountInv
    <2> QED BY <2>1, <2>2, ServerKeepsSession
<1>2. ASSUME NEW t \in Tabs, Me(t) PROVE SessionInv'
    <2>1. PICK state \in {"failed", "valid"} :
            check' = [check EXCEPT ![t] = Check(state, check[t].token)]
        BY <1>2 DEF Me
    <2>2. check[t].at = "asked" /\ UNCHANGED <<serverVars, token, user, loading, form, overtaken>>
        BY <1>2 DEF Me
    <2>3. Check(state, check[t].token) \in
            [at : {"none", "asked", "valid", "failed"}, token : Requests \union {None}]
        BY DEF Check, SessionInv
    <2> QED BY <2>1, <2>2, <2>3 DEF SessionInv, Check, Owner, serverVars
<1>3. ASSUME NEW t \in Tabs, Load(t) PROVE SessionInv'
    <2> DEFINE stored == token[BrowserOf[t]]
               asked == IF stored = None THEN NoCheck ELSE Check("asked", stored)
    <2>1. /\ user' = [user EXCEPT ![t] = None]
          /\ loading' = [loading EXCEPT ![t] = (stored # None)]
          /\ check' = [check EXCEPT ![t] = asked]
          /\ form' = [form EXCEPT ![t] = None]
          /\ overtaken' = overtaken \ {t}
          /\ UNCHANGED <<serverVars, token>>
        BY <1>3 DEF Load
    <2>2. stored \in Requests \union {None} /\ BrowserOf[t] \in Browsers
        BY WebsiteAssumption DEF SessionInv
    <2>3. asked \in [at : {"none", "asked", "valid", "failed"}, token : Requests \union {None}]
        BY <2>2 DEF NoCheck, Check
    <2>4. /\ asked.token = stored
          /\ asked.at = IF stored = None THEN "none" ELSE "asked"
        BY DEF NoCheck, Check
    <2>5. \A u \in Tabs : ~ loading'[u] => check'[u].at = "none"
        BY <2>1, <2>4 DEF SessionInv
    <2>6. \A u \in Tabs : check'[u].at = "none" => check'[u] = NoCheck
        BY <2>1, <2>4 DEF SessionInv
    <2>7. \A u \in Tabs \ overtaken' :
            IF check'[u].at = "none" THEN user'[u] = Owner(token[BrowserOf[u]])
            ELSE check'[u].token = token[BrowserOf[u]]
        BY <2>1, <2>4 DEF SessionInv, Owner
    <2>8. \A u \in Tabs : check'[u].token # None => at[check'[u].token] = "granted"
        BY <2>1, <2>2, <2>4 DEF SessionInv
    <2>9. /\ user' \in [Tabs -> Addresses \union {None}]
          /\ loading' \in [Tabs -> BOOLEAN]
          /\ form' \in [Tabs -> Requests \union {None}]
        BY <2>1 DEF SessionInv
    <2>10. check' \in [Tabs -> [at : {"none", "asked", "valid", "failed"},
                               token : Requests \union {None}]]
        BY <2>1, <2>3 DEF SessionInv
    <2> QED BY <2>1, <2>5, <2>6, <2>7, <2>8, <2>9, <2>10 DEF SessionInv, serverVars, Owner
<1>4. ASSUME NEW t \in Tabs, Land(t) PROVE SessionInv'
    <2>1. CASE check[t].at = "valid" /\ user' = [user EXCEPT ![t] = Owner(check[t].token)]
                /\ UNCHANGED <<token, overtaken>>
        <3>1. /\ check' = [check EXCEPT ![t] = NoCheck]
              /\ loading' = [loading EXCEPT ![t] = FALSE]
              /\ UNCHANGED <<serverVars, form>>
            BY <1>4 DEF Land
        <3>2. Owner(check[t].token) \in Addresses \union {None}
            BY OwnerOK DEF SessionInv
        <3>3. NoCheck \in [at : {"none", "asked", "valid", "failed"},
                           token : Requests \union {None}]
            BY DEF NoCheck, Check
        <3>4. NoCheck.at = "none" /\ NoCheck.token = None
            BY DEF NoCheck, Check
        <3>5. user' \in [Tabs -> Addresses \union {None}]
            BY <2>1, <3>2 DEF SessionInv
        <3> QED BY <2>1, <3>1, <3>3, <3>4, <3>5 DEF SessionInv, serverVars, Owner
    <2>2. CASE SetSession(t, None, FALSE)
        BY <1>4, <2>2, SetSessionKeeps DEF Land, serverVars, SessionInv, Owner
    <2> QED BY <1>4, <2>1, <2>2 DEF Land
<1>5. ASSUME NEW t \in Tabs, NEW r \in Requests, Send(t, r) PROVE SessionInv'
    <2>1. /\ UNCHANGED <<token, user, loading, check, overtaken>>
          /\ form' = [form EXCEPT ![t] = r]
          /\ \A q \in Requests : at[q] = "granted" => at'[q] = "granted" /\ sent'[q] = sent[q]
        BY <1>5 DEF Send, Goto, AccountInv
    <2>3. \A u \in Tabs : BrowserOf[u] \in Browsers
        BY WebsiteAssumption
    <2>4. form' \in [Tabs -> Requests \union {None}]
        BY <2>1 DEF SessionInv
    <2>5. ASSUME NEW u \in Tabs \ overtaken
          PROVE  IF check[u].at = "none" THEN user[u] = Owner(token[BrowserOf[u]])'
                 ELSE check[u].token = token[BrowserOf[u]]
        <3>1. Owner(token[BrowserOf[u]])' = Owner(token[BrowserOf[u]])
            BY <2>1, <2>3 DEF SessionInv, Owner
        <3> QED BY <3>1 DEF SessionInv
    <2>6. /\ \A b \in Browsers : token[b] # None => at'[token[b]] = "granted"
          /\ \A u \in Tabs : check[u].token # None => at'[check[u].token] = "granted"
        BY <2>1 DEF SessionInv
    <2> QED BY <2>1, <2>4, <2>5, <2>6 DEF SessionInv
<1>6. ASSUME NEW t \in Tabs, Answered(t) PROVE SessionInv'
    <2>1. /\ form[t] \in Requests /\ form' = [form EXCEPT ![t] = None]
          /\ UNCHANGED <<serverVars, loading, check>>
        BY <1>6 DEF Answered, SessionInv
    <2>2. form' \in [Tabs -> Requests \union {None}]
        BY <2>1 DEF SessionInv
    <2>3. CASE at[form[t]] = "granted" /\ SetSession(t, form[t], Checking(t))
        <3>1. Owner(form[t]) \in Addresses \union {None}
            BY <2>1, <2>3, OwnerOK
        <3>2. Checking(t) \in BOOLEAN
            BY DEF Checking
        <3> QED BY <2>1, <2>2, <2>3, <3>1, <3>2, SetSessionKeeps DEF serverVars
    <2>4. CASE UNCHANGED <<token, user, overtaken>>
        BY <2>1, <2>2, <2>4 DEF SessionInv, serverVars, Owner
    <2> QED BY <1>6, <2>3, <2>4 DEF Answered
<1>7. ASSUME NEW t \in Tabs, Unanswered(t) PROVE SessionInv'
    <2>1. /\ UNCHANGED <<sent, token, user, loading, check, overtaken>>
          /\ form' = [form EXCEPT ![t] = None]
          /\ \A q \in Requests : at[q] = "granted" => at'[q] = "granted"
        BY <1>7 DEF Unanswered, Goto, AccountInv
    <2>2. \A u \in Tabs : BrowserOf[u] \in Browsers
        BY WebsiteAssumption
    <2> QED BY <2>1, <2>2 DEF SessionInv, Owner
<1>8. ASSUME NEW t \in Tabs, Logout(t) PROVE SessionInv'
    <2>1. SetSession(t, None, Checking(t)) /\ UNCHANGED <<serverVars, loading, check, form>>
        BY <1>8 DEF Logout
    <2>2. Checking(t) \in BOOLEAN /\ Owner(None) = None
        BY DEF Checking, Owner
    <2>3. form' \in [Tabs -> Requests \union {None}]
        BY <2>1 DEF SessionInv
    <2> QED BY <2>1, <2>2, <2>3, SetSessionKeeps DEF serverVars
<1>9. CASE UNCHANGED vars
    BY <1>9 DEF vars, serverVars, pageVars, SessionInv, Owner
<1> QED BY <1>1, <1>2, <1>3, <1>4, <1>5, <1>6, <1>7, <1>8, <1>9 DEF Next

\* Only another tab, or a check that is still to come back, lets a page show
\* another user than the one under whose token it posts.
THEOREM SessionIsOfOneUser == Spec => []SessionOfOneUser
<1>1. Init => AccountInv /\ OneWinner /\ SessionInv
    BY InitAccountInv, InitSessionInv DEF Init, OneWinner
<1>2. (AccountInv /\ OneWinner /\ SessionInv) /\ [Next]_vars
        => (AccountInv /\ OneWinner /\ SessionInv)'
    BY NextAccountInv, NextSessionInv
<1>3. SessionInv => SessionOfOneUser
    BY DEF SessionInv, SessionOfOneUser
<1> QED BY <1>1, <1>2, <1>3, PTL DEF Spec
=============================================================================
