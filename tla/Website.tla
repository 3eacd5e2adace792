------------------------------- MODULE Website -------------------------------
(***************************************************************************)
(* Accounts and sessions of the judge website: POST /auth/signup and       *)
(* /auth/login and GET /auth/me (routes/app/index.ts), the rows of users   *)
(* (db.ts), and what a browser keeps of them: the token in localStorage,   *)
(* common to its tabs, and the user that AuthProvider (auth.tsx) of each   *)
(* tab shows.                                                              *)
(*                                                                         *)
(* A handler is one action per awaited command; a request goes on when the *)
(* page that sent it is gone.  A token is named by the request that was    *)
(* answered with it, a user by his address.  Faults:                       *)
(*   "down"     a command fails and has no effect                          *)
(*   "lost"     an INSERT has its effect, its caller gets an error         *)
(*   "limited"  the limiter of signups or logins answers 429               *)
(*   "net"      a request or its answer does not get through               *)
(*   "expired"  a token expires                                            *)
(*   "reload"   a tab is loaded again, or its page closed and opened       *)
(***************************************************************************)
EXTENDS Integers

CONSTANTS
    Requests,       \* signups and logins; each is sent at most once
    Spellings,      \* email addresses as people type them
    Addresses,      \* email addresses
    AddressOf,      \* AddressOf[s]: s trimmed and in lower case
    Passwords,      \* passwords that are long enough
    Browsers,
    Tabs,
    BrowserOf,      \* BrowserOf[t]: the browser whose tab t is
    None,           \* no account, no token, no user, no request
    Faults,         \* the classes of faults that may happen
    MaxFaults       \* bound on how many do

ASSUME WebsiteAssumption ==
    /\ AddressOf \in [Spellings -> Addresses]
    /\ BrowserOf \in [Tabs -> Browsers]
    /\ None \notin Requests \union Addresses \union Passwords
    /\ MaxFaults \in Nat

VARIABLES
    account,    \* account[a]: the password of the account of a, None if none
    at,         \* at[r]: where the handler of r is, and how it answers
    sent,       \* sent[r]: the form that r carries
    token,      \* token[b]: vj_token in the localStorage of b
    expired,    \* tokens past their seven days
    user,       \* user[t]: the user that tab t shows
    loading,    \* loading[t]: AuthProvider does not know yet whom to show
    check,      \* check[t]: the GET /auth/me sent when tab t was loaded
    form,       \* form[t]: the request that the form of t is waiting for
    overtaken,  \* tabs whose user was set by what is no longer so (for the
                \* properties): see SetSession
    faults      \* faults so far

serverVars == <<account, at, sent, expired>>
pageVars == <<token, user, loading, check, form, overtaken>>
vars == <<serverVars, pageVars, faults>>

Check(state, carried) == [at |-> state, token |-> carried]
NoCheck == Check("none", None)

Form(kind, spelling, password) ==
    [kind |-> kind, address |-> AddressOf[spelling], password |-> password]

Forms == [kind : {"signup", "login"}, address : Addresses, password : Passwords]

TypeOK ==
    /\ account \in [Addresses -> Passwords \union {None}]
    /\ at \in [Requests -> {"new", "lookUp", "insert", "granted", "refused"}]
    /\ sent \in [Requests -> Forms \union {None}]
    /\ token \in [Browsers -> Requests \union {None}]
    /\ expired \subseteq Requests
    /\ user \in [Tabs -> Addresses \union {None}]
    /\ loading \in [Tabs -> BOOLEAN]
    /\ check \in [Tabs -> [at : {"none", "asked", "valid", "failed"},
                           token : Requests \union {None}]]
    /\ form \in [Tabs -> Requests \union {None}]
    /\ overtaken \subseteq Tabs
    /\ faults \in 0..MaxFaults

Init ==
    /\ account = [a \in Addresses |-> None]
    /\ at = [r \in Requests |-> "new"]
    /\ sent = [r \in Requests |-> None]
    /\ token = [b \in Browsers |-> None]
    /\ expired = {}
    /\ user = [t \in Tabs |-> None]
    /\ loading = [t \in Tabs |-> FALSE]
    /\ check = [t \in Tabs |-> NoCheck]
    /\ form = [t \in Tabs |-> None]
    /\ overtaken = {}
    /\ faults = 0

Fault(class) ==
    /\ class \in Faults
    /\ faults < MaxFaults
    /\ faults' = faults + 1

\* The user whose id a token carries.
Owner(r) == IF r = None THEN None ELSE sent[r].address

-----------------------------------------------------------------------------
(* The API.                                                                *)

Goto(r, next) == at' = [at EXCEPT ![r] = next]

\* getUserByEmail: the pre-check of a signup; or a login, and its comparison
\* with the password of the account, if there is one.
LookUp(r) ==
    LET found == account[sent[r].address] IN
    /\ at[r] = "lookUp"
    /\ \/ /\ Goto(r, IF sent[r].kind = "signup"
                     THEN IF found = None THEN "insert" ELSE "refused"
                     ELSE IF found = sent[r].password THEN "granted" ELSE "refused")
          /\ UNCHANGED faults
       \/ Goto(r, "refused") /\ (Fault("down") \/ Fault("limited"))
    /\ UNCHANGED <<account, sent, expired, pageVars>>

\* A slip: ON CONFLICT (email) DO UPDATE.
InsertOrUpdate(r) ==
    /\ at[r] = "insert"
    /\ account' = [account EXCEPT ![sent[r].address] = sent[r].password]
    /\ Goto(r, "granted")
    /\ UNCHANGED <<sent, expired, pageVars, faults>>

\* createUser with the hash of the password.  A taken address is refused by
\* the unique key; of another error the client hears as well.
Insert(r) ==
    LET address == sent[r].address IN
    /\ at[r] = "insert"
    /\ \/ /\ account[address] = None
          /\ account' = [account EXCEPT ![address] = sent[r].password]
          /\ \/ Goto(r, "granted") /\ UNCHANGED faults
             \/ Goto(r, "refused") /\ Fault("lost")
       \/ account[address] # None /\ Goto(r, "refused") /\ UNCHANGED <<account, faults>>
       \/ Goto(r, "refused") /\ Fault("down") /\ UNCHANGED account
    /\ UNCHANGED <<sent, expired, pageVars>>

\* GET /auth/me: requireAuth looks at the token of the request; no account is
\* ever removed, so getUserById finds the user.
Me(t) ==
    LET carried == check[t].token IN
    /\ check[t].at = "asked"
    /\ \/ /\ check' = [check EXCEPT ![t] =
                           Check(IF carried \in expired THEN "failed" ELSE "valid", carried)]
          /\ UNCHANGED faults
       \/ /\ check' = [check EXCEPT ![t] = Check("failed", carried)]
          /\ Fault("down") \/ Fault("net")
    /\ UNCHANGED <<serverVars, token, user, loading, form, overtaken>>

\* Tokens live for seven days.
Expire(r) ==
    /\ r \notin expired /\ \E b \in Browsers : token[b] = r
    /\ Fault("expired")
    /\ expired' = expired \union {r}
    /\ UNCHANGED <<account, at, sent, pageVars>>

-----------------------------------------------------------------------------
(* The pages.                                                              *)

\* Tab t stores a token, or removes it, and shows its user.  Other tabs of the
\* browser are not told; and the answer to the check of t may be still to come.
SetSession(t, stored, checking) ==
    LET b == BrowserOf[t]
        others == {u \in Tabs \ {t} : BrowserOf[u] = b /\ token[b] # stored} IN
    /\ token' = [token EXCEPT ![b] = stored]
    /\ user' = [user EXCEPT ![t] = Owner(stored)]
    /\ overtaken' = IF checking THEN overtaken \union others \union {t}
                    ELSE (overtaken \union others) \ {t}

Checking(t) == check[t].at # "none"

\* The tab is loaded: AuthProvider asks whose the stored token is.
Load(t) ==
    LET stored == token[BrowserOf[t]] IN
    /\ Fault("reload")
    /\ user' = [user EXCEPT ![t] = None]
    /\ loading' = [loading EXCEPT ![t] = stored # None]
    /\ check' = [check EXCEPT ![t] = IF stored = None THEN NoCheck ELSE Check("asked", stored)]
    /\ form' = [form EXCEPT ![t] = None]
    /\ overtaken' = overtaken \ {t}
    /\ UNCHANGED <<serverVars, token>>

\* A slip: then() in the place of finally().
LandWithoutFinally(t) ==
    /\ \/ /\ check[t].at = "valid"
          /\ user' = [user EXCEPT ![t] = Owner(check[t].token)]
          /\ loading' = [loading EXCEPT ![t] = FALSE]
          /\ UNCHANGED <<token, overtaken>>
       \/ /\ check[t].at = "failed"
          /\ SetSession(t, None, FALSE)
          /\ UNCHANGED loading
    /\ check' = [check EXCEPT ![t] = NoCheck]
    /\ UNCHANGED <<serverVars, form, faults>>

\* The answer comes: its user is shown, whoever is signed in meanwhile.  After
\* a failure of any kind nobody is, and the token of all tabs is removed.
Land(t) ==
    /\ \/ /\ check[t].at = "valid"
          /\ user' = [user EXCEPT ![t] = Owner(check[t].token)]
          /\ UNCHANGED <<token, overtaken>>
       \/ /\ check[t].at = "failed"
          /\ SetSession(t, None, FALSE)
    /\ check' = [check EXCEPT ![t] = NoCheck]
    /\ loading' = [loading EXCEPT ![t] = FALSE]
    /\ UNCHANGED <<serverVars, form, faults>>

\* onSubmit of Login or Signup; the button is disabled until the answer.
Send(t, r) ==
    /\ form[t] = None /\ at[r] = "new"
    /\ \E kind \in {"signup", "login"}, spelling \in Spellings, password \in Passwords :
        sent' = [sent EXCEPT ![r] = Form(kind, spelling, password)]
    /\ Goto(r, "lookUp")
    /\ form' = [form EXCEPT ![t] = r]
    /\ UNCHANGED <<account, expired, token, user, loading, check, overtaken, faults>>

\* The answer: a session, or an error to be shown.
Answered(t) ==
    /\ form[t] # None
    /\ \/ at[form[t]] = "granted" /\ SetSession(t, form[t], Checking(t))
       \/ at[form[t]] = "refused" /\ UNCHANGED <<token, user, overtaken>>
    /\ form' = [form EXCEPT ![t] = None]
    /\ UNCHANGED <<serverVars, loading, check, faults>>

\* fetch rejects: the request has not arrived, or it goes on unheard.
Unanswered(t) ==
    /\ form[t] # None
    /\ Fault("net")
    /\ \/ at[form[t]] = "lookUp" /\ Goto(form[t], "refused")
       \/ UNCHANGED at
    /\ form' = [form EXCEPT ![t] = None]
    /\ UNCHANGED <<account, sent, expired, token, user, loading, check, overtaken>>

\* A slip: the token stays.
LogoutOfPage(t) ==
    /\ user[t] # None
    /\ user' = [user EXCEPT ![t] = None]
    /\ UNCHANGED <<serverVars, token, loading, check, form, overtaken, faults>>

\* The button of App.
Logout(t) ==
    /\ user[t] # None
    /\ SetSession(t, None, Checking(t))
    /\ UNCHANGED <<serverVars, loading, check, form, faults>>

Next ==
    \/ \E r \in Requests : LookUp(r) \/ Insert(r) \/ Expire(r)
    \/ \E t \in Tabs :
        \/ Me(t) \/ Load(t) \/ Land(t) \/ Answered(t) \/ Unanswered(t) \/ Logout(t)
        \/ \E r \in Requests : Send(t, r)

\* Handlers go on, and fetch resolves or rejects.
Fairness ==
    /\ \A r \in Requests : WF_vars(LookUp(r)) /\ WF_vars(Insert(r))
    /\ \A t \in Tabs : WF_vars(Me(t)) /\ WF_vars(Land(t)) /\ WF_vars(Answered(t))

Spec == Init /\ [][Next]_vars /\ Fairness

-----------------------------------------------------------------------------
\* However many signups with one address pass the pre-check at once, however it
\* is spelled, one is answered with a session, and the account has its password
\* (index.ts: "The UNIQUE constraint on users.email is the real guard").
OneWinner ==
    \A r \in Requests :
        at[r] = "granted" =>
            /\ account[sent[r].address] = sent[r].password
            /\ sent[r].kind = "signup" =>
                \A q \in Requests \ {r} :
                    at[q] = "granted" /\ sent[q].kind = "signup"
                        => sent[q].address # sent[r].address

\* A page that knows whom to show shows the user under whose token it posts,
\* unless another tab changed the token, or a sign-in overtook the check that
\* was sent when the page was loaded.
SessionOfOneUser ==
    \A t \in Tabs \ overtaken :
        ~ loading[t] => user[t] = Owner(token[BrowserOf[t]])

\* No form stays busy, and no page says "Loading" for ever.
EventuallyKnown ==
    \A t \in Tabs :
        /\ loading[t] ~> ~ loading[t]
        /\ form[t] # None ~> form[t] = None
=============================================================================
