-------------------------- MODULE SdkClientProofs --------------------------
(***************************************************************************)
(* Theorems about SdkClient and RateLimit, for any waiters, bounds on      *)
(* time, limit, window, pauses and timeouts.                               *)
(***************************************************************************)
EXTENDS SdkClient, FiniteSetTheorems, TLAPS

-----------------------------------------------------------------------------
(* Sets of times.                                                          *)

\* A set of numbers has a least one.  (Intervals from 0 are finite, so one of
\* them is minimal; the library states induction itself for operators only.)
LEMMA LeastNumber ==
    ASSUME NEW T \in SUBSET Nat, T # {}
    PROVE  \E m \in T : \A n \in T : m <= n
<1> DEFINE family == {0..n : n \in T}
<1>1. family \subseteq FiniteSubsetsOf(Nat)
    <2>1. \A n \in T : 0..n \in SUBSET Nat /\ IsFiniteSet(0..n)
        BY FS_Interval
    <2> QED BY <2>1 DEF FiniteSubsetsOf
<1>2. family # {}
    OBVIOUS
<1>3. PICK x \in family : \A y \in family : ~ (<<y, x>> \in StrictSubsetOrdering(Nat))
    <2> HIDE DEF family
    <2> QED BY <1>1, <1>2, FS_StrictSubsetOrderingWellFounded, WFMin
<1>4. PICK m \in T : x = 0..m
    BY <1>3
<1>5. ASSUME NEW n \in T, n < m PROVE FALSE
    <2>1. 0..n \subseteq 0..m /\ m \in 0..m /\ m \notin 0..n
        BY <1>5
    <2>2. <<0..n, 0..m>> \in StrictSubsetOrdering(Nat)
        BY <2>1 DEF StrictSubsetOrdering
    <2> QED BY <1>3, <1>4, <2>2
<1> QED BY <1>5

-----------------------------------------------------------------------------
(* The limiter.                                                            *)

Admitted(a) == Answered(a, TRUE)

\* What is admitted in the window that ends at t.
InWindow(a, t) == {m \in Admitted(a) : t - Window < m.at /\ m.at <= t}

\* The log holds nothing but admitted requests, and all that may still count: a
\* key outlives them.
LogInv ==
    \A a \in Accounts :
        /\ IsFiniteSet(Admitted(a))
        /\ log[a] \subseteq Admitted(a)
        /\ \A m \in Admitted(a) :
            /\ m.at <= now
            /\ m.at + Window <= logEnds[a]
            /\ m.at + Window > now => m \in log[a]
        /\ \A t \in 0..now : Cardinality(InWindow(a, t)) <= Limit

\* The members of the log and the requests admitted are typed.
LEMMA Typed ==
    ASSUME TypeOK, NEW a \in Accounts
    PROVE  /\ log[a] \in SUBSET Member /\ logEnds[a] \in Int /\ now \in Nat
           /\ Admitted(a) \in SUBSET Member
           /\ \A m \in Member : m.at \in Nat /\ m.id \in Requests
<1>1. log[a] \in SUBSET Member /\ logEnds[a] \in Int
    BY DEF TypeOK
<1>2. now \in Nat /\ \A m \in Member : m.at \in Nat /\ m.id \in Requests
    BY RateLimitAssumption DEF TypeOK, Times, Member
<1>3. Admitted(a) \in SUBSET Member
    BY DEF TypeOK, Admitted, Answered, Member
<1> QED BY <1>1, <1>2, <1>3

\* What the script keeps is what was admitted in the window that ends now.
LEMMA KeptIsRecent ==
    ASSUME TypeOK, LogInv, NEW a \in Accounts
    PROVE  /\ Kept(a) = InWindow(a, now)
           /\ IsFiniteSet(Kept(a)) /\ Cardinality(Kept(a)) \in Nat
<1>1. Kept(a) = InWindow(a, now)
    <2>1. ASSUME NEW m \in InWindow(a, now) PROVE m \in Kept(a)
        <3>1. /\ m \in Admitted(a) /\ now - Window < m.at
              /\ m.at \in Nat /\ logEnds[a] \in Int /\ now \in Nat
            BY Typed DEF InWindow
        <3>2. m.at + Window > now
            BY <3>1, RateLimitAssumption
        <3>3. m \in log[a] /\ m.at + Window <= logEnds[a]
            BY <3>1, <3>2 DEF LogInv
        <3>4. ~ (now > logEnds[a])
            BY <3>1, <3>2, <3>3, RateLimitAssumption
        <3> QED BY <3>1, <3>3, <3>4 DEF Kept, Live
    <2>2. ASSUME NEW m \in Kept(a) PROVE m \in InWindow(a, now)
        <3>1. m \in log[a] /\ m.at > now - Window
            BY DEF Kept, Live
        <3>2. m \in Admitted(a) /\ m.at <= now
            BY <3>1 DEF LogInv
        <3>3. m.at \in Nat /\ now \in Nat
            BY <3>2, Typed
        <3>4. now - Window < m.at
            BY <3>1, <3>3, RateLimitAssumption
        <3> QED BY <3>2, <3>4 DEF InWindow
    <2> QED BY <2>1, <2>2
<1>2. IsFiniteSet(Kept(a))
    BY <1>1, FS_Subset DEF LogInv, InWindow
<1> QED BY <1>1, <1>2, FS_CardinalityType

\* The script adds the request to those admitted or to those refused.
LEMMA ScriptAnswers ==
    ASSUME NEW a \in Accounts, NEW r, Script(a, r), NEW b, NEW v \in BOOLEAN
    PROVE  Answered(b, v)' = Answered(b, v) \union
                (IF b = a /\ v = Allowed(a) THEN {[id |-> r, at |-> now]} ELSE {})
<1>1. decisions' = decisions \union {Decision(a, r)}
    BY DEF Script
<1>2. /\ Decision(a, r).account = a /\ Decision(a, r).id = r
      /\ Decision(a, r).at = now /\ Decision(a, r).allowed = Allowed(a)
    BY DEF Decision
<1> HIDE DEF Decision
<1> QED BY <1>1, <1>2 DEF Answered

\* LogInv holds at first.
LEMMA InitLogInv == LimitInit => LogInv
<1> SUFFICES ASSUME LimitInit PROVE LogInv
    OBVIOUS
<1>1. \A a \in Accounts : Admitted(a) = {}
    BY DEF LimitInit, Admitted, Answered
<1>2. \A a \in Accounts : \A t \in 0..now : InWindow(a, t) = {}
    BY <1>1 DEF InWindow
<1> QED BY <1>1, <1>2, FS_EmptySet, RateLimitAssumption DEF LimitInit, LogInv

\* Time keeps it: a window that ends later holds no more of what there is.
LEMMA TickLogInv ==
    ASSUME TypeOK, LogInv, Tick
    PROVE  LogInv'
<1>1. now' = now + 1 /\ UNCHANGED <<log, logEnds, decisions>> /\ now \in Nat
    BY RateLimitAssumption DEF Tick, TypeOK, Times
<1> SUFFICES ASSUME NEW a \in Accounts
             PROVE  /\ IsFiniteSet(Admitted(a))'
                    /\ (log[a] \subseteq Admitted(a))'
                    /\ (\A m \in Admitted(a) :
                          /\ m.at <= now
                          /\ m.at + Window <= logEnds[a]
                          /\ m.at + Window > now => m \in log[a])'
                    /\ \A t \in 0..now' : Cardinality(InWindow(a, t)') <= Limit
    BY DEF LogInv
<1>2. Admitted(a)' = Admitted(a) /\ \A t : InWindow(a, t)' = InWindow(a, t)
    BY <1>1 DEF Admitted, Answered, InWindow
<1>3. ASSUME NEW m \in Admitted(a)
      PROVE  m.at <= now' /\ (m.at + Window > now' => m \in log[a])
    <2>1. m.at \in Nat
        BY Typed
    <2> QED BY <1>1, <2>1, RateLimitAssumption DEF LogInv
<1>4. ASSUME NEW t \in 0..now' PROVE Cardinality(InWindow(a, t)) <= Limit
    <2>1. CASE t \in 0..now
        BY <2>1 DEF LogInv
    <2>2. CASE t = now + 1
        <3>1. \A m \in Admitted(a) : m.at \in Nat /\ m.at <= now
            BY Typed DEF LogInv
        <3>2. InWindow(a, t) \subseteq InWindow(a, now)
            BY <1>1, <2>2, <3>1, RateLimitAssumption DEF InWindow
        <3>3. /\ IsFiniteSet(InWindow(a, now)) /\ Cardinality(InWindow(a, now)) <= Limit
              /\ Cardinality(InWindow(a, now)) \in Nat
            BY <1>1, KeptIsRecent DEF LogInv
        <3>4. Cardinality(InWindow(a, t)) <= Cardinality(InWindow(a, now))
              /\ Cardinality(InWindow(a, t)) \in Nat
            BY <3>2, <3>3, FS_Subset, FS_CardinalityType
        <3> QED BY <3>3, <3>4, RateLimitAssumption
    <2> QED BY <1>1, <2>1, <2>2
<1> QED BY <1>1, <1>2, <1>3, <1>4 DEF LogInv

\* So does the script.
LEMMA ScriptLogInv ==
    ASSUME TypeOK, LogInv, NEW a \in Accounts, NEW r \in Requests, Script(a, r)
    PROVE  LogInv'
<1> DEFINE new == [id |-> r, at |-> now]
<1>1. /\ now' = now /\ now \in Nat
      /\ log' = [log EXCEPT ![a] = After(a, r)]
      /\ logEnds' = [logEnds EXCEPT ![a] = Ends(a)]
    BY RateLimitAssumption DEF Script, TypeOK, Times
<1>2. log \in [Accounts -> SUBSET Member] /\ logEnds \in [Accounts -> Int]
    BY DEF TypeOK
<1> SUFFICES ASSUME NEW b \in Accounts
             PROVE  /\ IsFiniteSet(Admitted(b)')
                    /\ log'[b] \subseteq Admitted(b)'
                    /\ \A m \in Admitted(b)' :
                          /\ m.at <= now
                          /\ m.at + Window <= logEnds'[b]
                          /\ m.at + Window > now => m \in log'[b]
                    /\ \A t \in 0..now : Cardinality(InWindow(b, t)') <= Limit
    BY <1>1 DEF LogInv
<1>3. CASE b # a \/ ~ Allowed(a)
    <2>1. Admitted(b)' = Admitted(b)
        BY <1>3, ScriptAnswers DEF Admitted
    <2>2. \A t : InWindow(b, t)' = InWindow(b, t)
        BY <2>1 DEF InWindow
    <2>3. logEnds'[b] = logEnds[b] /\ (b # a => log'[b] = log[b])
        BY <1>1, <1>2, <1>3 DEF Ends
    <2>4. b = a => log'[b] = Kept(a)
        BY <1>1, <1>2, <1>3 DEF After
    <2>5. Kept(b) = InWindow(b, now)
        BY KeptIsRecent
    <2>6. log'[b] \subseteq Admitted(b)
        BY <2>3, <2>4, <2>5 DEF LogInv, InWindow
    <2>7. ASSUME NEW m \in Admitted(b), m.at + Window > now PROVE m \in log'[b]
        <3>1. m.at \in Nat /\ m.at <= now
            BY Typed DEF LogInv
        <3>2. m \in InWindow(b, now)
            BY <1>1, <2>7, <3>1, RateLimitAssumption DEF InWindow
        <3> QED BY <2>3, <2>4, <2>5, <2>7, <3>2 DEF LogInv
    <2> QED BY <2>1, <2>2, <2>3, <2>6, <2>7 DEF LogInv
<1>4. CASE b = a /\ Allowed(a)
    <2>1. Admitted(a)' = Admitted(a) \union {new}
        BY <1>4, ScriptAnswers DEF Admitted
    <2>2. log'[a] = Kept(a) \union {new} /\ logEnds'[a] = now + Window
        BY <1>1, <1>2, <1>4 DEF After, Ends
    <2>3. Kept(a) = InWindow(a, now) /\ IsFiniteSet(Kept(a)) /\ Cardinality(Kept(a)) \in Nat
        BY KeptIsRecent
    <2>4. new.at = now
        OBVIOUS
    <2>5. \A m \in Admitted(a) : m.at \in Nat /\ m.at <= now
        BY Typed DEF LogInv
    <2> HIDE DEF new
    <2>6. IsFiniteSet(Admitted(a)')
        BY <2>1, FS_AddElement DEF LogInv
    <2>7. log'[a] \subseteq Admitted(a)'
        BY <2>1, <2>2, <2>3 DEF InWindow
    <2>8. ASSUME NEW m \in Admitted(a)'
          PROVE  /\ m.at <= now
                 /\ m.at + Window <= logEnds'[a]
                 /\ m.at + Window > now => m \in log'[a]
        <3>1. CASE m = new
            BY <1>1, <2>2, <2>4, <3>1, RateLimitAssumption
        <3>2. CASE m \in Admitted(a)
            BY <1>1, <2>2, <2>3, <2>5, <3>2, RateLimitAssumption DEF InWindow
        <3> QED BY <2>1, <2>8, <3>1, <3>2
    <2>9. ASSUME NEW t \in 0..now PROVE Cardinality(InWindow(a, t)') <= Limit
        <3>1. CASE t < now
            <4>1. InWindow(a, t)' = InWindow(a, t)
                BY <1>1, <2>1, <2>4, <3>1 DEF InWindow
            <4> QED BY <4>1 DEF LogInv
        <3>2. CASE t = now
            <4>1. InWindow(a, t)' \subseteq Kept(a) \union {new}
                BY <2>1, <2>3, <3>2 DEF InWindow
            <4>2. Cardinality(Kept(a)) < Limit
                BY <1>4 DEF Allowed
            <4>3. /\ IsFiniteSet(Kept(a) \union {new})
                  /\ \/ Cardinality(Kept(a) \union {new}) = Cardinality(Kept(a))
                     \/ Cardinality(Kept(a) \union {new}) = Cardinality(Kept(a)) + 1
                <5>1. /\ IsFiniteSet(Kept(a) \union {new})
                      /\ Cardinality(Kept(a) \union {new}) =
                            IF new \in Kept(a) THEN Cardinality(Kept(a))
                            ELSE Cardinality(Kept(a)) + 1
                    BY ONLY <2>3, FS_AddElement
                <5> QED BY ONLY <5>1
            <4>4. /\ Cardinality(InWindow(a, t)') <= Cardinality(Kept(a) \union {new})
                  /\ Cardinality(InWindow(a, t)') \in Nat
                BY <4>1, <4>3, FS_Subset, FS_CardinalityType
            <4> QED BY <2>3, <4>2, <4>3, <4>4, RateLimitAssumption
        <3> QED BY <1>1, <3>1, <3>2
    <2> QED BY <1>4, <2>6, <2>7, <2>8, <2>9
<1> QED BY <1>3, <1>4

\* reset_at is a time: the log that the script leaves has an oldest member, or
\* is empty.
LEMMA ResetAtTyped ==
    ASSUME NEW members \in SUBSET Member, now \in Nat
    PROVE  /\ ResetAt(members) \in Int
           /\ (\A m \in members : m.at <= now) => ResetAt(members) <= now + Window
           /\ members # {} => \E m \in members :
                ResetAt(members) = m.at + Window /\ \A n \in members : m.at <= n.at
<1> DEFINE times == {m.at : m \in members}
<1>1. times \in SUBSET Nat
    BY RateLimitAssumption DEF Member, Times
<1>2. CASE members = {}
    BY <1>2, RateLimitAssumption DEF ResetAt
<1>3. CASE members # {}
    <2>1. PICK t \in times : \A n \in times : t <= n
        <3>1. times # {}
            BY <1>3
        <3> HIDE DEF times
        <3> QED BY <1>1, <3>1, LeastNumber
    <2>2. PICK u \in times : \A m \in members : u <= m.at
        BY <2>1
    <2> DEFINE oldest == CHOOSE v \in times : \A m \in members : v <= m.at
    <2>3. oldest \in times
        BY <2>2
    <2>4. ResetAt(members) = oldest + Window
        BY <1>3 DEF ResetAt
    <2>5. oldest \in Nat
        BY <1>1, <2>3
    <2>6. PICK m \in members : m.at = oldest
        BY <2>3
    <2>7. \A n \in members : oldest <= n.at
        BY <2>2
    <2> HIDE DEF oldest
    <2> QED BY <2>4, <2>5, <2>6, <2>7, RateLimitAssumption
<1> QED BY <1>2, <1>3

\* The script, and the clock, keep the types of the limiter.
LEMMA ScriptTypes ==
    ASSUME TypeOK, NEW a \in Accounts, NEW r \in Requests, Script(a, r)
    PROVE  /\ TypeOK'
           /\ Decision(a, r).at \in Nat /\ Decision(a, r).resetAt \in Int
<1>1. now \in Times /\ now \in Nat /\ now' = now
    BY RateLimitAssumption DEF TypeOK, Times, Script
<1>2. After(a, r) \in SUBSET Member
    <2>1. Kept(a) \in SUBSET Member
        BY DEF Kept, Live, TypeOK
    <2> QED BY <1>1, <2>1 DEF After, Member
<1>3. ResetAt(After(a, r)) \in Int
    BY <1>1, <1>2, ResetAtTyped
<1>4. Allowed(a) \in BOOLEAN
    BY DEF Allowed
<1>5. Decision(a, r) \in [account : Accounts, id : Requests, at : Times,
                          allowed : BOOLEAN, resetAt : Int]
    BY <1>1, <1>3, <1>4 DEF Decision
<1>6. Ends(a) \in Int
    BY <1>1, RateLimitAssumption DEF Ends, TypeOK
<1> QED BY <1>1, <1>2, <1>5, <1>6, RateLimitAssumption DEF Script, TypeOK, Times

LEMMA TickTypes == TypeOK /\ Tick => TypeOK'
BY RateLimitAssumption DEF TypeOK, Times, Tick

\* Nothing the script leaves behind is from the future.
LEMMA ResetsInTime ==
    ASSUME TypeOK, LogInv, NEW a \in Accounts, NEW r \in Requests
    PROVE  Decision(a, r).resetAt <= Decision(a, r).at + Window
<1>1. now \in Nat /\ now \in Times
    BY RateLimitAssumption DEF TypeOK, Times
<1>2. Kept(a) \in SUBSET Member /\ \A m \in Kept(a) : m.at <= now
    BY KeptIsRecent, Typed DEF InWindow
<1>3. After(a, r) \in SUBSET Member /\ \A m \in After(a, r) : m.at <= now
    BY <1>1, <1>2 DEF After, Member
<1>4. ResetAt(After(a, r)) <= now + Window
    BY <1>1, <1>3, ResetAtTyped
<1> QED BY <1>4 DEF Decision

\* Retry-After is at least one second, long enough for the oldest member to
\* leave the window, and less than a second longer.
LEMMA RetryAfterTyped ==
    ASSUME NEW d, d.at \in Nat, d.resetAt \in Int
    PROVE  /\ RetryAfter(d) \in Nat \ {0}
           /\ RetryAfter(d) * Second >= d.resetAt - d.at
           /\ d.resetAt <= d.at + Window => RetryAfter(d) * Second < Window + Second
<1> DEFINE seconds == (d.resetAt - d.at + Second - 1) \div Second
<1>1. seconds \in Int
    BY RateLimitAssumption
<1>2. RetryAfter(d) = IF seconds > 1 THEN seconds ELSE 1
    BY DEF RetryAfter
<1>3. /\ seconds * Second <= d.resetAt - d.at + Second - 1
      /\ d.resetAt - d.at + Second - 1 < (seconds + 1) * Second
    BY RateLimitAssumption
<1> HIDE DEF seconds
<1>4. CASE seconds > 1
    <2>1. seconds * Second \in Int /\ (seconds + 1) * Second = seconds * Second + Second
        BY <1>1, RateLimitAssumption
    <2> QED BY <1>1, <1>2, <1>3, <1>4, <2>1, RateLimitAssumption
<1>5. CASE ~ (seconds > 1)
    <2>1. (seconds + 1) * Second <= 2 * Second
        BY <1>1, <1>5, RateLimitAssumption
    <2>2. 1 * Second = Second /\ (seconds + 1) * Second \in Int
        BY <1>1, RateLimitAssumption
    <2> QED BY <1>1, <1>2, <1>3, <1>5, <2>1, <2>2, RateLimitAssumption
<1> QED BY <1>4, <1>5

-----------------------------------------------------------------------------
(* The client.                                                             *)

\* The types of what is not the limiter's.
ClientTypes ==
    /\ pc \in [Waiters -> {"idle", "creating", "polling", "sleeping"} \union Ended]
    /\ sent \in [Waiters -> 0..(Timeout + 2)]
    /\ wire \in [Waiters -> [at : {"idle", "sent", "unfinished", "terminal",
                                   "limited", "failed"}, retry : Nat]]
    /\ delay \in [Waiters -> 0..MaxPoll]
    /\ deadline \in [Waiters -> Nat]
    /\ wake \in [Waiters -> Nat]
    /\ told \subseteq Requests
    /\ faults \in 0..MaxFaults

\* A waiter polls when it starts to wait, at most once in a tick after that, and
\* not after its deadline: so it sends at most Timeout + 2 requests.
PollInv ==
    \A w \in Waiters :
        /\ pc[w] = "idle" => sent[w] = 0
        /\ pc[w] = "creating" => sent[w] = 1
        /\ pc[w] = "polling" =>
            sent[w] >= 2 /\ sent[w] + deadline[w] <= now + Timeout + 2
        /\ pc[w] = "sleeping" =>
            /\ sent[w] + deadline[w] <= wake[w] + Timeout + 1
            /\ wake[w] <= deadline[w]
            /\ sent[w] >= 2
        /\ pc[w] \in {"polling", "sleeping"} => delay[w] >= 1
        /\ At(w) = "sent" => sent[w] >= 1
        /\ At(w) = "limited" =>
            wire[w].retry >= 1 /\ wire[w].retry * Second < Window + Second

ClientInv == TypeOK /\ ClientTypes /\ LogInv /\ PollInv /\ IsFiniteSet(decisions)

\* ClientInv holds at first.
LEMMA InitClientInv == Init => ClientInv
<1> SUFFICES ASSUME Init PROVE ClientInv
    OBVIOUS
<1>1. TypeOK
    BY RateLimitAssumption DEF Init, LimitInit, TypeOK, Times
<1>2. ClientTypes
    BY SdkAssumption DEF Init, ClientTypes, Wire
<1>3. LogInv
    BY InitLogInv DEF Init
<1>4. PollInv
    BY SdkAssumption DEF Init, PollInv, At, Wire
<1>5. IsFiniteSet(decisions)
    BY FS_EmptySet DEF Init, LimitInit
<1> QED BY <1>1, <1>2, <1>3, <1>4, <1>5 DEF ClientInv

\* The id of a waiter's request is one of Requests.
LEMMA IdsOK ==
    ASSUME ClientTypes, PollInv, NEW w \in Waiters, sent[w] >= 1
    PROVE  <<w, sent[w]>> \in Requests
<1>1. sent[w] \in 1..(Timeout + 2)
    BY SdkAssumption DEF ClientTypes, PollInv
<1> QED BY <1>1, SdkAssumption

\* What a step of the whole is for the limiter.
LEMMA LimitSteps ==
    ASSUME ClientInv, [Next]_vars
    PROVE  \/ Tick
           \/ \E r \in Requests : Script(Account, r)
           \/ UNCHANGED limitVars
<1> USE DEF ClientInv
<1>1. ASSUME NEW w \in Waiters, Serve(w) \/ ServeUnlimited(w)
      PROVE  \/ Script(Account, <<w, sent[w]>>) /\ <<w, sent[w]>> \in Requests
             \/ UNCHANGED limitVars
    <2>1. At(w) = "sent"
        BY <1>1 DEF Serve, ServeUnlimited
    <2>2. <<w, sent[w]>> \in Requests
        BY <2>1, IdsOK DEF PollInv
    <2> QED BY <1>1, <2>2 DEF Serve, ServeUnlimited
<1>2. ASSUME OtherRequest PROVE \E r \in Requests : Script(Account, r)
    <2> DEFINE others == {d \in decisions : d.id[1] = "other"}
               n == 1 + Cardinality(others)
    <2>1. n <= MaxOthers /\ Script(Account, <<"other", n>>)
        BY <1>2 DEF OtherRequest
    <2>2. ASSUME n \in 1..MaxOthers PROVE <<"other", n>> \in Requests
        BY <2>2, SdkAssumption
    <2>3. Cardinality(others) \in Nat
        <3>1. others \in SUBSET decisions
            OBVIOUS
        <3> HIDE DEF others
        <3> QED BY <3>1, FS_Subset, FS_CardinalityType
    <2>4. n \in 1..MaxOthers
        BY <2>1, <2>3, SdkAssumption
    <2> QED BY <2>1, <2>2, <2>4
<1>3. ASSUME NEW w \in Waiters,
             Run(w) \/ WaiterStep(w) \/ Abort(w) \/ RequestFails(w)
      PROVE  UNCHANGED limitVars
    BY <1>3 DEF Run, WaiterStep, Created, Throw, Return, NotYet, HoldOff, Poll, Pause,
                Abort, RequestFails
<1> QED BY <1>1, <1>2, <1>3 DEF Next, Clock, vars

\* Every step keeps what is said of the limiter.
LEMMA LimiterKept ==
    ASSUME ClientInv, [Next]_vars
    PROVE  /\ TypeOK' /\ LogInv' /\ IsFiniteSet(decisions)'
           /\ now \in Nat /\ now' \in Nat /\ now <= now'
<1> USE DEF ClientInv
<1>1. now \in Nat
    BY RateLimitAssumption DEF TypeOK, Times
<1>2. CASE Tick
    <2>1. UNCHANGED decisions /\ now' = now + 1
        BY <1>2 DEF Tick
    <2> QED BY <1>1, <1>2, <2>1, TickTypes, TickLogInv
<1>3. ASSUME NEW r \in Requests, Script(Account, r)
      PROVE  TypeOK' /\ LogInv' /\ IsFiniteSet(decisions)' /\ now' = now
    <2>1. TypeOK' /\ LogInv'
        BY <1>3, SdkAssumption, ScriptTypes, ScriptLogInv
    <2>2. decisions' = decisions \union {Decision(Account, r)} /\ now' = now
        BY <1>3 DEF Script
    <2>3. IsFiniteSet(decisions \union {Decision(Account, r)})
        BY FS_AddElement
    <2> QED BY <2>1, <2>2, <2>3
<1>4. CASE UNCHANGED limitVars
    <2>1. TypeOK' /\ UNCHANGED <<now, decisions>>
        BY <1>4 DEF limitVars, TypeOK
    <2>2. LogInv'
        BY <1>4 DEF limitVars, LogInv, InWindow, Admitted, Answered
    <2> QED BY <1>1, <2>1, <2>2
<1> QED BY <1>1, <1>2, <1>3, <1>4, LimitSteps

\* The next pause is one of 1..MaxPoll.
LEMMA BackOffOK ==
    ASSUME NEW d \in 1..MaxPoll
    PROVE  BackOff(d) \in 1..MaxPoll
<1>1. (3 * d + 1) \div 2 \in Nat /\ (3 * d + 1) \div 2 >= 1
    BY SdkAssumption
<1> QED BY <1>1, SdkAssumption DEF BackOff

\* The steps of a waiter keep ClientTypes and PollInv, ...
LEMMA WaiterKeeps ==
    ASSUME ClientInv, NEW w \in Waiters, UNCHANGED now,
           Run(w) \/ WaiterStep(w) \/ Abort(w)
    PROVE  ClientTypes' /\ PollInv'
<1> USE DEF ClientInv
<1>1. now \in Nat
    BY RateLimitAssumption DEF TypeOK, Times
<1>2. CASE Run(w) \/ Created(w) \/ Poll(w)
    <2>1. /\ sent' = [sent EXCEPT ![w] = @ + 1]
          /\ wire' = [wire EXCEPT ![w] = Wire("sent", 0)]
          /\ UNCHANGED <<told, faults, wake>>
        BY <1>2 DEF Run, Created, Poll, Send
    <2>2. CASE Run(w)
        <3>1. pc[w] = "idle" /\ pc' = [pc EXCEPT ![w] = "creating"]
              /\ UNCHANGED <<delay, deadline>>
            BY <2>2 DEF Run
        <3>2. sent[w] \in Nat /\ sent[w] + 1 \in 0..(Timeout + 2)
            BY <3>1, SdkAssumption DEF ClientTypes, PollInv
        <3>3. ClientTypes'
            BY <3>2, <2>1, <3>1 DEF ClientTypes, Wire
        <3>4. PollInv'
            BY <2>1, <3>1, SdkAssumption DEF ClientTypes, PollInv, Wire, At
        <3> QED BY <3>3, <3>4
    <2>3. CASE Created(w)
        <3>1. /\ pc[w] = "creating" /\ pc' = [pc EXCEPT ![w] = "polling"]
              /\ deadline' = [deadline EXCEPT ![w] = now + Timeout]
              /\ delay' = [delay EXCEPT ![w] = FirstPoll]
            BY <2>3 DEF Created
        <3>2. sent[w] \in Nat /\ sent[w] + 1 \in 0..(Timeout + 2)
            BY <3>1, SdkAssumption DEF ClientTypes, PollInv
        <3>3. ClientTypes'
            BY <3>2, <1>1, <2>1, <3>1, SdkAssumption DEF ClientTypes, Wire
        <3>4. PollInv'
            BY <1>1, <2>1, <3>1, SdkAssumption DEF ClientTypes, PollInv, Wire, At
        <3> QED BY <3>3, <3>4
    <2>4. CASE Poll(w)
        <3>1. /\ pc[w] = "sleeping" /\ pc' = [pc EXCEPT ![w] = "polling"]
              /\ now >= wake[w] /\ UNCHANGED <<delay, deadline>>
            BY <2>4 DEF Poll
        <3>2. sent[w] \in Nat /\ sent[w] + 1 \in 0..(Timeout + 2)
            BY <3>1, SdkAssumption DEF ClientTypes, PollInv
        <3>3. ClientTypes'
            BY <3>2, <2>1, <3>1 DEF ClientTypes, Wire
        <3>4. PollInv'
            BY <1>1, <2>1, <3>1, SdkAssumption DEF ClientTypes, PollInv, Wire, At
        <3> QED BY <3>3, <3>4
    <2> QED BY <1>2, <2>2, <2>3, <2>4
<1>3. CASE Throw(w) \/ Return(w) \/ Abort(w)
    <2>1. /\ \E next \in {"thrown", "returned", "aborted"} : pc' = [pc EXCEPT ![w] = next]
          /\ UNCHANGED <<delay, deadline, wake, told, sent, wire>>
          /\ faults' = faults \/ (faults < MaxFaults /\ faults' = faults + 1)
        BY <1>3 DEF Throw, Return, Abort, Fault
    <2>2. ClientTypes'
        BY <2>1, SdkAssumption DEF ClientTypes, Ended
    <2>3. PollInv'
        BY <2>1 DEF ClientTypes, PollInv, At
    <2> QED BY <2>2, <2>3
<1>4. CASE NotYet(w) \/ HoldOff(w)
    <2>1. /\ pc[w] = "polling" /\ sent[w] >= 2
          /\ sent[w] + deadline[w] <= now + Timeout + 2
          /\ delay[w] \in 1..MaxPoll
        BY <1>4, SdkAssumption DEF NotYet, HoldOff, PollInv, ClientTypes
    <2>2. <<w, sent[w]>> \in Requests
        BY <2>1, IdsOK DEF ClientTypes
    <2>3. PICK pause \in Nat : pause >= 1 /\ Pause(w, pause)
        <3>1. CASE NotYet(w)
            BY <2>1, <3>1 DEF NotYet
        <3>2. CASE HoldOff(w)
            <4>1. wire[w].retry \in Nat /\ wire[w].retry >= 1
                BY <3>2 DEF HoldOff, PollInv, ClientTypes
            <4>2. wire[w].retry * Second \in Nat /\ wire[w].retry * Second >= 1
                BY <4>1, RateLimitAssumption
            <4> QED BY <3>2, <4>2 DEF HoldOff
        <3> QED BY <1>4, <3>1, <3>2
    <2>4. /\ wake' = [wake EXCEPT ![w] = now + pause]
          /\ pc' = [pc EXCEPT ![w] = IF now + pause > deadline[w] THEN "timedout" ELSE "sleeping"]
          /\ UNCHANGED <<deadline, sent, wire, faults>>
        BY <2>3 DEF Pause
    <2>5. told' \subseteq Requests
        BY <1>4, <2>2 DEF NotYet, HoldOff, ClientTypes
    <2>6. delay' \in [Waiters -> 0..MaxPoll] /\ delay'[w] >= 1
          /\ \A v \in Waiters \ {w} : delay'[v] = delay[v]
        <3>1. CASE NotYet(w)
            <4>1. BackOff(delay[w]) \in 1..MaxPoll
                BY <2>1, BackOffOK
            <4> QED BY <3>1, <4>1, SdkAssumption DEF NotYet, ClientTypes
        <3>2. CASE HoldOff(w)
            BY <2>1, <3>2 DEF HoldOff, ClientTypes
        <3> QED BY <1>4, <3>1, <3>2
    <2>7. ClientTypes'
        <3>1. \E next \in {"timedout", "sleeping"} : pc' = [pc EXCEPT ![w] = next]
            BY <2>4
        <3>2. pc' \in [Waiters -> {"idle", "creating", "polling", "sleeping"} \union Ended]
            BY <3>1 DEF ClientTypes, Ended
        <3>3. wake' \in [Waiters -> Nat]
            BY <1>1, <2>3, <2>4 DEF ClientTypes
        <3> QED BY <2>4, <2>5, <2>6, <3>2, <3>3 DEF ClientTypes
    <2>8. PollInv'
        BY <1>1, <2>1, <2>3, <2>4, <2>6, SdkAssumption DEF ClientTypes, PollInv, At
    <2> QED BY <2>7, <2>8
<1> QED BY <1>2, <1>3, <1>4 DEF WaiterStep

\* ... and those of the server.
LEMMA ServerKeeps ==
    ASSUME ClientInv, NEW w \in Waiters,
           Serve(w) \/ ServeUnlimited(w) \/ RequestFails(w), UNCHANGED now
    PROVE  ClientTypes' /\ PollInv'
<1> USE DEF ClientInv
<1>1. UNCHANGED <<pc, delay, deadline, wake, told, sent>>
      /\ faults' \in 0..MaxFaults
    BY SdkAssumption DEF Serve, ServeUnlimited, RequestFails, clientVars, ClientTypes, Fault
<1>2. PICK at \in {"unfinished", "terminal", "limited", "failed"}, retry \in Nat :
            /\ wire' = [wire EXCEPT ![w] = Wire(at, retry)]
            /\ at = "limited" => retry >= 1 /\ retry * Second < Window + Second
    <2>1. CASE Serve(w)
        <3> DEFINE d == Decision(Account, <<w, sent[w]>>)
        <3>1. <<w, sent[w]>> \in Requests /\ Script(Account, <<w, sent[w]>>)
            BY <2>1, IdsOK DEF Serve, PollInv
        <3>2. RetryAfter(d) \in Nat \ {0} /\ RetryAfter(d) * Second < Window + Second
            <4>1. d.at \in Nat /\ d.resetAt \in Int /\ d.resetAt <= d.at + Window
                BY <3>1, ScriptTypes, ResetsInTime, SdkAssumption
            <4> HIDE DEF d
            <4> QED BY <4>1, RetryAfterTyped
        <3> HIDE DEF d
        <3>3. PICK at \in {"unfinished", "terminal", "limited", "failed"} :
                wire' = [wire EXCEPT ![w] = Wire(at, IF at = "limited" THEN RetryAfter(d) ELSE 0)]
            BY <2>1 DEF Serve, Handled, d
        <3>4. PICK retry \in Nat : /\ retry = IF at = "limited" THEN RetryAfter(d) ELSE 0
                                   /\ at = "limited" =>
                                        retry >= 1 /\ retry * Second < Window + Second
            BY <3>2
        <3> QED BY <3>3, <3>4
    <2>2. CASE ServeUnlimited(w)
        BY <2>2 DEF ServeUnlimited, Handled
    <2>3. CASE RequestFails(w)
        BY <2>3 DEF RequestFails
    <2> QED BY <2>1, <2>2, <2>3
<1>3. ClientTypes'
    BY <1>1, <1>2 DEF ClientTypes, Wire
<1>4. PollInv'
    BY <1>1, <1>2 DEF ClientTypes, PollInv, Wire, At
<1> QED BY <1>3, <1>4

\* Every step keeps ClientInv.
LEMMA NextClientInv == ClientInv /\ [Next]_vars => ClientInv'
<1> SUFFICES ASSUME ClientInv, [Next]_vars PROVE ClientInv'
    OBVIOUS
<1>1. TypeOK' /\ LogInv' /\ IsFiniteSet(decisions)'
      /\ now \in Nat /\ now' \in Nat /\ now <= now'
    BY LimiterKept
<1>2. ASSUME NEW w \in Waiters, Run(w) \/ WaiterStep(w) \/ Abort(w)
      PROVE  ClientTypes' /\ PollInv'
    <2>1. UNCHANGED now
        BY <1>2 DEF Run, WaiterStep, Created, Throw, Return, NotYet, HoldOff, Poll, Pause,
                    Abort, limitVars
    <2> QED BY <1>2, <2>1, WaiterKeeps
<1>3. ASSUME NEW w \in Waiters, Serve(w) \/ ServeUnlimited(w) \/ RequestFails(w)
      PROVE  ClientTypes' /\ PollInv'
    <2>1. UNCHANGED now
        BY <1>3 DEF Serve, ServeUnlimited, RequestFails, Script, limitVars
    <2> QED BY <1>3, <2>1, ServerKeeps
<1>4. ASSUME OtherRequest \/ Clock \/ UNCHANGED vars
      PROVE  ClientTypes' /\ PollInv'
    <2>1. UNCHANGED <<pc, delay, deadline, wake, told, sent, wire, faults>>
        BY <1>4 DEF OtherRequest, Clock, vars, clientVars
    <2>2. ClientTypes'
        BY <2>1 DEF ClientInv, ClientTypes
    <2>3. PollInv'
        BY <1>1, <2>1, SdkAssumption DEF ClientInv, ClientTypes, PollInv, At
    <2> QED BY <2>2, <2>3
<1>5. ClientTypes' /\ PollInv'
    BY <1>2, <1>3, <1>4 DEF Next
<1> QED BY <1>1, <1>5 DEF ClientInv

LEMMA ClientInvHolds == Spec => []ClientInv
BY InitClientInv, NextClientInv, PTL DEF Spec

\* Every part has its type: in particular every pause and every Retry-After is
\* one, and a waiter sends at most Timeout + 2 requests, whatever fails.
THEOREM Types == Spec => []TypeInvariant
<1>1. ClientInv => TypeInvariant
    BY DEF ClientInv, ClientTypes, TypeInvariant
<1> QED BY <1>1, ClientInvHolds, PTL

-----------------------------------------------------------------------------
(* What the limiter promises.                                              *)

\* In no window are more requests of an account admitted than its limit: not
\* around a boundary, not after the log was trimmed, has expired, or was used by
\* a request whose client is gone or whose reply from Redis was lost.
THEOREM WindowHolds == Spec => []WindowLimit
<1>1. ClientInv => WindowLimit
    <2> SUFFICES ASSUME ClientInv, NEW a \in Accounts, NEW t \in 0..now
                 PROVE  Cardinality(Promise(a)!Recent(t)) <= Limit
        BY DEF WindowLimit
    <2>1. Promise(a)!Recent(t) = InWindow(a, t)
        BY DEF Promise!Recent, InWindow, Admitted
    <2> QED BY <2>1 DEF ClientInv, LogInv
<1> QED BY <1>1, ClientInvHolds, PTL

\* An id is new to the promise when the script has not seen it.
LEMMA UnseenIsNew ==
    ASSUME NEW r, Script(Account, r)
    PROVE  OneWindow!New(r)
BY DEF Script, OneWindow!New, Answered

\* The promise counts as everyone does.
LEMMA SameCardinality == \A S : OneWindow!Cardinality(S) = Cardinality(S)
BY DEF OneWindow!Cardinality, Cardinality

\* The script admits and refuses as the promise does, ...
LEMMA ScriptRefines ==
    ASSUME ClientInv, NEW r \in Requests, Script(Account, r)
    PROVE  OneWindow!Admit(r) \/ OneWindow!Refuse(r)
<1>1. Account \in Accounts /\ now' = now
    BY SdkAssumption DEF Script
<1>2. Kept(Account) = OneWindow!Recent(now) /\ Cardinality(Kept(Account)) \in Nat
    <2>1. OneWindow!Recent(now) = InWindow(Account, now)
        BY DEF OneWindow!Recent, InWindow, Admitted
    <2> QED BY <1>1, <2>1, KeptIsRecent DEF ClientInv
<1>3. \A v \in BOOLEAN : Answered(Account, v)' = Answered(Account, v) \union
                (IF v = Allowed(Account) THEN {[id |-> r, at |-> now]} ELSE {})
    BY <1>1, ScriptAnswers
<1>4. OneWindow!New(r)
    BY UnseenIsNew
<1>5. CASE Allowed(Account)
    <2>1. /\ Answered(Account, TRUE)' = Answered(Account, TRUE) \union {[id |-> r, at |-> now]}
          /\ Answered(Account, FALSE)' = Answered(Account, FALSE)
        BY <1>3, <1>5
    <2>2. Cardinality(OneWindow!Recent(now)) < Limit
        BY <1>2, <1>5 DEF Allowed
    <2>3. OneWindow!Admit(r)
        BY <1>1, <1>4, <2>1, <2>2, SameCardinality DEF OneWindow!Admit
    <2> QED BY <2>3
<1>6. CASE ~ Allowed(Account)
    <2>1. Allowed(Account) = FALSE
        BY <1>6 DEF Allowed
    <2>2. /\ Answered(Account, FALSE)' = Answered(Account, FALSE) \union {[id |-> r, at |-> now]}
          /\ Answered(Account, TRUE)' = Answered(Account, TRUE)
        BY <1>3, <2>1
    <2>3. Cardinality(OneWindow!Recent(now)) >= Limit
        BY <1>2, <1>6, RateLimitAssumption DEF Allowed
    <2>4. OneWindow!Refuse(r)
        BY <1>1, <1>4, <2>2, <2>3, SameCardinality DEF OneWindow!Refuse
    <2> QED BY <2>4
<1> QED BY <1>5, <1>6

\* The log in Redis, the waiters and whatever fails around them implement the
\* promise of an unbounded history: every step of theirs admits or refuses as
\* it says, lets time pass, or is none of its business.
THEOREM LogKeepsThePromise == Spec => KeepsThePromise
<1>1. Init => OneWindow!WindowInit
    BY DEF Init, LimitInit, OneWindow!WindowInit, Answered
<1>2. ClientInv /\ [Next]_vars => [OneWindow!WindowNext]_(OneWindow!windowVars)
    <2> SUFFICES ASSUME ClientInv, [Next]_vars
                 PROVE  [OneWindow!WindowNext]_(OneWindow!windowVars)
        OBVIOUS
    <2>1. CASE Tick
        BY <2>1 DEF Tick, Answered, OneWindow!Pass, OneWindow!WindowNext
    <2>2. CASE \E r \in Requests : Script(Account, r)
        BY <2>2, ScriptRefines DEF OneWindow!WindowNext
    <2>3. CASE UNCHANGED limitVars
        BY <2>3 DEF limitVars, Answered, OneWindow!windowVars
    <2> QED BY <2>1, <2>2, <2>3, LimitSteps
<1> QED BY <1>1, <1>2, ClientInvHolds, PTL DEF Spec, KeepsThePromise, OneWindow!WindowSpec

-----------------------------------------------------------------------------
(* The limiter by itself, whoever calls it: every account has its own        *)
(* promise, and what is asked for the others is none of its business.        *)

LimiterInv == TypeOK /\ LogInv

\* The script and the clock keep what is known of all logs.
LEMMA LimiterInvHolds == LimitSpec => []LimiterInv
<1>1. LimitInit => LimiterInv
    <2> SUFFICES ASSUME LimitInit PROVE TypeOK
        BY InitLogInv DEF LimiterInv
    <2> QED BY RateLimitAssumption DEF LimitInit, TypeOK, Times, Member
<1>2. LimiterInv /\ [LimitNext]_limitVars => LimiterInv'
    <2> SUFFICES ASSUME LimiterInv, [LimitNext]_limitVars PROVE LimiterInv'
        OBVIOUS
    <2> USE DEF LimiterInv
    <2>1. CASE Tick
        BY <2>1, TickTypes, TickLogInv
    <2>2. ASSUME NEW a \in Accounts, NEW r \in Requests, Script(a, r) PROVE LimiterInv'
        BY <2>2, ScriptTypes, ScriptLogInv
    <2>3. CASE UNCHANGED limitVars
        BY <2>3 DEF limitVars, TypeOK, LogInv, Admitted, Answered, InWindow
    <2> QED BY <2>1, <2>2, <2>3 DEF LimitNext
<1> QED BY <1>1, <1>2, PTL DEF LimitSpec

\* The promises count as everyone does.
LEMMA PromiseCounts == ASSUME NEW a PROVE \A S : Promise(a)!Cardinality(S) = Cardinality(S)
BY DEF Promise!Cardinality, Cardinality

\* The script answers for its own account as the promise says, ...
LEMMA ScriptKeepsPromise ==
    ASSUME LimiterInv, NEW a \in Accounts, NEW r \in Requests, Script(a, r)
    PROVE  Promise(a)!Admit(r) \/ Promise(a)!Refuse(r)
<1>1. now' = now
    BY DEF Script
<1>2. Kept(a) = Promise(a)!Recent(now) /\ Cardinality(Kept(a)) \in Nat
    <2>1. Promise(a)!Recent(now) = InWindow(a, now)
        BY DEF Promise!Recent, InWindow, Admitted
    <2> QED BY <2>1, KeptIsRecent DEF LimiterInv
<1>3. \A v \in BOOLEAN : Answered(a, v)' = Answered(a, v) \union
                (IF v = Allowed(a) THEN {[id |-> r, at |-> now]} ELSE {})
    BY ScriptAnswers
<1>4. Promise(a)!New(r)
    BY DEF Script, Promise!New, Answered
<1>5. CASE Allowed(a)
    <2>1. /\ Answered(a, TRUE)' = Answered(a, TRUE) \union {[id |-> r, at |-> now]}
          /\ Answered(a, FALSE)' = Answered(a, FALSE)
        BY <1>3, <1>5
    <2>2. Cardinality(Promise(a)!Recent(now)) < Limit
        BY <1>2, <1>5 DEF Allowed
    <2>3. Promise(a)!Admit(r)
        BY <1>1, <1>4, <2>1, <2>2, PromiseCounts DEF Promise!Admit
    <2> QED BY <2>3
<1>6. CASE ~ Allowed(a)
    <2>1. Allowed(a) = FALSE
        BY <1>6 DEF Allowed
    <2>2. /\ Answered(a, FALSE)' = Answered(a, FALSE) \union {[id |-> r, at |-> now]}
          /\ Answered(a, TRUE)' = Answered(a, TRUE)
        BY <1>3, <2>1
    <2>3. Cardinality(Promise(a)!Recent(now)) >= Limit
        BY <1>2, <1>6, RateLimitAssumption DEF Allowed
    <2>4. Promise(a)!Refuse(r)
        BY <1>1, <1>4, <2>2, <2>3, PromiseCounts DEF Promise!Refuse
    <2> QED BY <2>4
<1> QED BY <1>5, <1>6

\* ... and leaves the answers of the other accounts alone.
LEMMA ScriptSparesOthers ==
    ASSUME NEW a \in Accounts, NEW b \in Accounts, a # b, NEW r, Script(b, r)
    PROVE  UNCHANGED Promise(a)!windowVars
<1>1. \A v \in BOOLEAN : Answered(a, v)' = Answered(a, v)
    BY ScriptAnswers
<1>2. now' = now
    BY DEF Script
<1> QED BY <1>1, <1>2 DEF Promise!windowVars

\* Every account, of any number, is admitted and refused exactly as the complete
\* history of its own requests says, however the scripts of the others interleave
\* with its own: one sorted set, trimmed when used and expired when not, is as
\* good as the history.
THEOREM EveryAccountKeepsThePromise ==
    ASSUME NEW CONSTANT a \in Accounts
    PROVE  LimitSpec => Promise(a)!WindowSpec
<1>1. LimitInit => Promise(a)!WindowInit
    BY DEF LimitInit, Promise!WindowInit, Answered
<1>2. LimiterInv /\ [LimitNext]_limitVars =>
        [Promise(a)!WindowNext]_(Promise(a)!windowVars)
    <2> SUFFICES ASSUME LimiterInv, [LimitNext]_limitVars
                 PROVE  [Promise(a)!WindowNext]_(Promise(a)!windowVars)
        OBVIOUS
    <2>1. CASE Tick
        BY <2>1 DEF Tick, Answered, Promise!Pass, Promise!WindowNext
    <2>2. ASSUME NEW b \in Accounts, NEW r \in Requests, Script(b, r)
          PROVE  [Promise(a)!WindowNext]_(Promise(a)!windowVars)
        <3>1. CASE b = a
            BY <2>2, <3>1, ScriptKeepsPromise DEF Promise!WindowNext
        <3>2. CASE b # a
            BY <2>2, <3>2, ScriptSparesOthers
        <3> QED BY <3>1, <3>2
    <2>3. CASE UNCHANGED limitVars
        BY <2>3 DEF limitVars, Answered, Promise!windowVars
    <2> QED BY <2>1, <2>2, <2>3 DEF LimitNext
<1> QED BY <1>1, <1>2, LimiterInvHolds, PTL DEF LimitSpec, Promise!WindowSpec

\* No account is admitted more than its limit in any interval as long as the
\* window, whatever it and the others ask for.
THEOREM LimitHolds == LimitSpec => []WindowLimit
<1>1. LimiterInv => WindowLimit
    <2> SUFFICES ASSUME LimiterInv, NEW a \in Accounts, NEW t \in 0..now
                 PROVE  Cardinality(Promise(a)!Recent(t)) <= Limit
        BY DEF WindowLimit
    <2>1. Promise(a)!Recent(t) = InWindow(a, t)
        BY DEF Promise!Recent, InWindow, Admitted
    <2> QED BY <2>1 DEF LimiterInv, LogInv
<1> QED BY <1>1, LimiterInvHolds, PTL

-----------------------------------------------------------------------------
(* What waitFor promises.                                                  *)

\* waitFor never gives up more than a poll before its deadline, or, when it was
\* rate-limited, more than a window and a second.
THEOREM GivesUpInTime == Spec => GivesUpLate
<1> DEFINE Late == \A w \in Waiters : (pc[w] # "timedout" /\ pc'[w] = "timedout") =>
            now + (IF At(w) = "limited" THEN Window + Second ELSE MaxPoll) > deadline[w]
<1>1. ClientInv /\ [Next]_vars => [Late]_vars
    <2> SUFFICES ASSUME ClientInv, Next, NEW w \in Waiters,
                        pc[w] # "timedout", pc'[w] = "timedout"
                 PROVE  now + (IF At(w) = "limited" THEN Window + Second ELSE MaxPoll) > deadline[w]
        OBVIOUS
    <2> USE DEF ClientInv
    <2>1. now \in Nat /\ deadline[w] \in Nat /\ delay[w] \in 0..MaxPoll
        BY RateLimitAssumption DEF TypeOK, Times, ClientTypes
    <2>2. NotYet(w) \/ HoldOff(w)
        <3>1. ASSUME NEW v \in Waiters, WaiterStep(v) \/ Run(v) \/ Abort(v), ~ NotYet(v), ~ HoldOff(v)
              PROVE  pc'[w] # "timedout"
            <4>1. \E next \in {"creating", "polling", "thrown", "returned", "aborted"} :
                    pc' = [pc EXCEPT ![v] = next]
                BY <3>1 DEF WaiterStep, Run, Abort, Created, Throw, Return, Poll
            <4> QED BY <4>1 DEF ClientTypes
        <3>2. ASSUME NEW v \in Waiters, NotYet(v) \/ HoldOff(v) PROVE v = w
            BY <3>2 DEF NotYet, HoldOff, Pause, ClientTypes
        <3>3. ASSUME UNCHANGED pc PROVE FALSE
            BY <3>3
        <3>4. ASSUME NEW v \in Waiters, Serve(v) \/ ServeUnlimited(v) \/ RequestFails(v)
              PROVE  FALSE
            BY <3>3, <3>4 DEF Serve, ServeUnlimited, RequestFails, clientVars
        <3>5. ASSUME OtherRequest \/ Clock PROVE FALSE
            BY <3>3, <3>5 DEF OtherRequest, Clock, clientVars
        <3> QED BY <3>1, <3>2, <3>4, <3>5 DEF Next, WaiterStep
    <2>3. CASE NotYet(w)
        <3>1. At(w) = "unfinished" /\ now + delay[w] > deadline[w]
            BY <2>3 DEF NotYet, Pause, ClientTypes
        <3> QED BY <2>1, <3>1, SdkAssumption
    <2>4. CASE HoldOff(w)
        <3>1. At(w) = "limited" /\ now + wire[w].retry * Second > deadline[w]
            BY <2>4 DEF HoldOff, Pause, ClientTypes
        <3>2. wire[w].retry * Second < Window + Second /\ wire[w].retry \in Nat
            BY <3>1 DEF PollInv, ClientTypes
        <3>3. wire[w].retry * Second \in Nat
            BY <3>2, RateLimitAssumption
        <3> QED BY <2>1, <3>1, <3>2, <3>3, RateLimitAssumption
    <2> QED BY <2>2, <2>3, <2>4
<1>2. Spec => [][Late]_vars
    BY <1>1, ClientInvHolds, PTL DEF Spec
<1> QED BY <1>2 DEF GivesUpLate

-----------------------------------------------------------------------------
(* Retry-After is the truth.                                               *)

\* When d was refused the window was full, and it stays so until the oldest
\* request in it leaves.
Full(d) ==
    /\ Cardinality(InWindow(Account, d.at)) >= Limit
    /\ \E m \in InWindow(Account, d.at) :
        d.resetAt = m.at + Window /\ \A n \in InWindow(Account, d.at) : m.at <= n.at

\* What the limiter has decided.
DecisionInv ==
    /\ \A d, e \in decisions : d.id = e.id => d = e
    /\ \A d \in decisions : d.account = Account /\ d.at <= now
    /\ \A d \in decisions : ~ d.allowed => Full(d)

\* Every request was sent by its waiter, or is another program's.
IdInv ==
    \A d \in decisions : \/ \E w \in Waiters : \E n \in Nat : d.id = <<w, n>> /\ n <= sent[w]
                         \/ \E n \in Nat : d.id = <<"other", n>>

\* A 429 on its way to w is the answer to the last request of w, and holds w off
\* until the window has room.
LimitedInv ==
    \A w \in Waiters : At(w) = "limited" =>
        \E d \in decisions : /\ d.id = <<w, sent[w]>> /\ ~ d.allowed
                             /\ wire[w].retry * Second >= d.resetAt - d.at

\* What of the refusal d of the n-th request of w holds once w was told: w sleeps
\* until the window has room, and only then asks again.
Held(w, n, d) ==
    /\ d.id = <<w, n>> /\ ~ d.allowed /\ n <= sent[w]
    /\ n = sent[w] => /\ pc[w] \notin {"idle", "creating", "polling"}
                      /\ pc[w] = "sleeping" => d.resetAt <= wake[w]
    /\ n < sent[w] => d.resetAt <= now

HeldInv == \A i \in told : \E w \in Waiters, n \in Nat, d \in decisions : i = <<w, n>> /\ Held(w, n, d)

\* The next request of a waiter that was told found the window with room.
LaterInv ==
    \A d, e \in decisions :
        (d.id \in told /\ e.id = <<d.id[1], d.id[2] + 1>>) => d.resetAt <= e.at

ToldInv == IdInv /\ LimitedInv /\ HeldInv /\ LaterInv

HonestInv == DecisionInv /\ ToldInv

LEMMA InitHonestInv == Init => HonestInv
BY DEF Init, LimitInit, HonestInv, DecisionInv, ToldInv, IdInv, LimitedInv, HeldInv, LaterInv,
       At, Wire

\* The script keeps DecisionInv: it is only while the window has room that a
\* request at the present time is added to it.
LEMMA ScriptDecisionInv ==
    ASSUME ClientInv, DecisionInv, NEW r \in Requests, Script(Account, r)
    PROVE  DecisionInv'
<1> USE DEF ClientInv
<1>0. PICK new : new = Decision(Account, r)
    OBVIOUS
<1>1. /\ Account \in Accounts /\ now' = now /\ now \in Nat
      /\ decisions' = decisions \union {new}
      /\ \A d \in decisions : d.id # r
    BY <1>0, SdkAssumption, RateLimitAssumption DEF Script, TypeOK, Times
<1>2. /\ new.account = Account /\ new.id = r /\ new.at = now
      /\ new.allowed = Allowed(Account) /\ new.resetAt = ResetAt(After(Account, r))
    BY <1>0 DEF Decision
<1>3. Kept(Account) = InWindow(Account, now) /\ Cardinality(Kept(Account)) \in Nat
    BY <1>1, KeptIsRecent
<1>4. Admitted(Account)' = Admitted(Account) \union
            (IF Allowed(Account) THEN {[id |-> r, at |-> now]} ELSE {})
    <2>1. Allowed(Account) \in BOOLEAN
        BY DEF Allowed
    <2>2. Answered(Account, TRUE)' = Answered(Account, TRUE) \union
            (IF Account = Account /\ TRUE = Allowed(Account) THEN {[id |-> r, at |-> now]} ELSE {})
        BY <1>1, ScriptAnswers
    <2> QED BY <2>1, <2>2 DEF Admitted
<1>5. ASSUME NEW t \in Nat, t < now \/ ~ Allowed(Account)
      PROVE  InWindow(Account, t)' = InWindow(Account, t)
    BY <1>1, <1>4, <1>5 DEF InWindow
<1>6. ASSUME NEW d \in decisions, ~ d.allowed
      PROVE  Full(d)'
    <2>1. d.at \in Nat /\ d.at <= now /\ Full(d)
        BY <1>6, RateLimitAssumption DEF DecisionInv, TypeOK, Times
    <2>2. d.at < now \/ ~ Allowed(Account)
        <3>1. CASE d.at = now
            BY <1>3, <2>1, <3>1, RateLimitAssumption DEF Full, Allowed
        <3> QED BY <1>1, <2>1, <3>1
    <2>3. InWindow(Account, d.at)' = InWindow(Account, d.at)
        BY <1>5, <2>1, <2>2
    <2> QED BY <2>1, <2>3 DEF Full
<1>7. ASSUME ~ new.allowed PROVE Full(new)'
    <2>1. ~ Allowed(Account) /\ After(Account, r) = Kept(Account)
        BY <1>2, <1>7 DEF After
    <2>2. Cardinality(Kept(Account)) >= Limit /\ Kept(Account) # {}
        BY <1>3, <2>1, FS_EmptySet, RateLimitAssumption DEF Allowed
    <2>3. Kept(Account) \in SUBSET Member
        BY <1>1, <1>3, Typed DEF InWindow
    <2>4. \E m \in Kept(Account) :
            ResetAt(Kept(Account)) = m.at + Window /\ \A n \in Kept(Account) : m.at <= n.at
        BY <1>1, <2>2, <2>3, ResetAtTyped
    <2>5. InWindow(Account, new.at)' = Kept(Account)
        BY <1>1, <1>2, <1>3, <1>5, <2>1
    <2> QED BY <1>2, <2>1, <2>2, <2>4, <2>5 DEF Full
<1> QED BY <1>1, <1>2, <1>6, <1>7 DEF DecisionInv

\* Time, and steps that are not the limiter's, keep it.
LEMMA QuietDecisionInv ==
    ASSUME ClientInv, DecisionInv, UNCHANGED decisions, now \in Nat, now' \in Nat, now <= now'
    PROVE  DecisionInv'
<1>1. \A t : InWindow(Account, t)' = InWindow(Account, t)
    BY DEF InWindow, Admitted, Answered
<1>2. \A d \in decisions : d.at \in Nat
    BY RateLimitAssumption DEF ClientInv, TypeOK, Times
<1> QED BY <1>1, <1>2 DEF DecisionInv, Full

\* So do all steps.
LEMMA NextDecisionInv ==
    ASSUME ClientInv, DecisionInv, [Next]_vars
    PROVE  DecisionInv'
<1>1. now \in Nat /\ now' \in Nat /\ now <= now'
    BY LimiterKept
<1>2. CASE Tick \/ UNCHANGED limitVars
    <2>1. UNCHANGED decisions
        BY <1>2 DEF Tick, limitVars
    <2> QED BY <1>1, <2>1, QuietDecisionInv
<1>3. CASE \E r \in Requests : Script(Account, r)
    BY <1>3, ScriptDecisionInv
<1> QED BY <1>2, <1>3, LimitSteps

\* A step of a waiter keeps ToldInv, ...
LEMMA WaiterToldInv ==
    ASSUME ClientInv, HonestInv, NEW w \in Waiters, Run(w) \/ WaiterStep(w) \/ Abort(w)
    PROVE  ToldInv'
<1> USE DEF ClientInv, HonestInv, ToldInv
<1>1. /\ UNCHANGED <<now, decisions>> /\ now \in Nat
      /\ \A d \in decisions : d.at \in Nat /\ d.resetAt \in Int /\ d.at <= now
    <2>1. UNCHANGED limitVars
        BY DEF Run, WaiterStep, Created, Throw, Return, NotYet, HoldOff, Poll, Pause, Abort
    <2> QED BY <2>1, RateLimitAssumption DEF limitVars, TypeOK, Times, DecisionInv
<1>2. CASE Run(w) \/ Created(w) \/ Poll(w)
    <2>1. /\ sent' = [sent EXCEPT ![w] = @ + 1]
          /\ wire' = [wire EXCEPT ![w] = Wire("sent", 0)]
          /\ \E next \in {"creating", "polling"} : pc' = [pc EXCEPT ![w] = next]
          /\ UNCHANGED <<told, wake>>
          /\ pc[w] \in {"idle", "creating"} \/ (pc[w] = "sleeping" /\ wake[w] <= now)
        BY <1>2 DEF Run, Created, Poll, Send
    <2>2. /\ \A v \in Waiters : sent[v] \in Nat /\ sent'[v] \in Nat /\ sent[v] <= sent'[v]
          /\ \A v \in Waiters \ {w} : sent'[v] = sent[v] /\ pc'[v] = pc[v] /\ wire'[v] = wire[v]
          /\ sent'[w] = sent[w] + 1 /\ At(w)' = "sent" /\ wake[w] \in Nat
        BY <2>1, SdkAssumption DEF ClientTypes, Wire, At
    <2>3. IdInv'
        BY <1>1, <2>2 DEF IdInv
    <2>4. LimitedInv'
        BY <1>1, <2>2 DEF LimitedInv, At
    <2>5. HeldInv'
        <3>1. ASSUME NEW v \in Waiters, NEW n \in Nat, NEW d \in decisions, Held(v, n, d)
              PROVE  Held(v, n, d)'
            <4>1. CASE v = w
                BY <1>1, <2>1, <2>2, <3>1, <4>1 DEF Held
            <4>2. CASE v # w
                BY <1>1, <2>1, <2>2, <3>1, <4>2 DEF Held
            <4> QED BY <4>1, <4>2
        <3> QED BY <1>1, <2>1, <3>1 DEF HeldInv
    <2>6. LaterInv'
        BY <1>1, <2>1 DEF LaterInv
    <2> QED BY <2>3, <2>4, <2>5, <2>6
<1>3. CASE Throw(w) \/ Return(w) \/ Abort(w) \/ NotYet(w)
    <2>1. /\ UNCHANGED <<sent, wire, told>>
          /\ \E next \in {"thrown", "returned", "aborted", "sleeping", "timedout"} :
                pc' = [pc EXCEPT ![w] = next]
          /\ \A v \in Waiters \ {w} : wake'[v] = wake[v]
          /\ pc'[w] = "sleeping" => pc[w] = "polling"
        BY <1>3 DEF Throw, Return, Abort, NotYet, Pause, ClientTypes
    <2>2. IdInv' /\ LimitedInv' /\ LaterInv'
        BY <1>1, <2>1 DEF IdInv, LimitedInv, LaterInv, At
    <2>3. HeldInv'
        <3>1. ASSUME NEW v \in Waiters, NEW n \in Nat, NEW d \in decisions, Held(v, n, d)
              PROVE  Held(v, n, d)'
            BY <1>1, <2>1, <3>1 DEF Held, ClientTypes
        <3> QED BY <1>1, <2>1, <3>1 DEF HeldInv
    <2> QED BY <2>2, <2>3
<1>4. CASE HoldOff(w)
    <2>1. /\ pc[w] = "polling" /\ At(w) = "limited"
          /\ told' = told \union {<<w, sent[w]>>}
          /\ UNCHANGED <<sent, wire>>
          /\ wake' = [wake EXCEPT ![w] = now + wire[w].retry * Second]
          /\ \E next \in {"sleeping", "timedout"} : pc' = [pc EXCEPT ![w] = next]
        BY <1>4 DEF HoldOff, Pause
    <2>2. PICK e \in decisions : /\ e.id = <<w, sent[w]>> /\ ~ e.allowed
                                 /\ wire[w].retry * Second >= e.resetAt - e.at
        BY <2>1 DEF LimitedInv
    <2>3. wire[w].retry * Second \in Nat /\ sent[w] \in Nat
        BY RateLimitAssumption, SdkAssumption DEF ClientTypes
    <2>4. IdInv' /\ LimitedInv'
        BY <1>1, <2>1 DEF IdInv, LimitedInv, At
    <2>5. HeldInv'
        <3>1. ASSUME NEW v \in Waiters, NEW n \in Nat, NEW d \in decisions, Held(v, n, d)
              PROVE  Held(v, n, d)'
            BY <1>1, <2>1, <3>1 DEF Held, ClientTypes
        <3>2. Held(w, sent[w], e)'
            <4>1. e.resetAt <= now + wire[w].retry * Second
                BY <1>1, <2>2, <2>3
            <4> QED BY <1>1, <2>1, <2>2, <2>3, <4>1 DEF Held, ClientTypes
        <3> QED BY <1>1, <2>1, <2>3, <3>1, <3>2 DEF HeldInv
    <2>6. LaterInv'
        <3>1. ASSUME NEW d \in decisions, d.id = <<w, sent[w] + 1>> PROVE FALSE
            BY <2>3, <3>1, SdkAssumption DEF IdInv
        <3> QED BY <1>1, <2>1, <3>1 DEF LaterInv
    <2> QED BY <2>4, <2>5, <2>6
<1> QED BY <1>2, <1>3, <1>4 DEF WaiterStep

\* ... and so does one that runs the script, or the clock.
LEMMA ScriptToldInv ==
    ASSUME ClientInv, HonestInv, UNCHANGED <<pc, sent, wake, told>>,
           NEW r, Script(Account, r),
           \/ \E w \in Waiters : At(w) = "sent" /\ r = <<w, sent[w]>>
           \/ \E n \in Nat : r = <<"other", n>>
    PROVE  IdInv' /\ HeldInv' /\ LaterInv'
<1> USE DEF ClientInv, HonestInv, ToldInv
<1>1. /\ decisions' = decisions \union {Decision(Account, r)}
      /\ \A d \in decisions : d.id # r
      /\ now' = now /\ now \in Nat
    BY RateLimitAssumption DEF Script, TypeOK, Times
<1>2. Decision(Account, r).id = r /\ Decision(Account, r).at = now
    BY DEF Decision
<1>3. PICK new : new = Decision(Account, r)
    OBVIOUS
<1>4. \A w \in Waiters : sent[w] \in Nat
    BY SdkAssumption DEF ClientTypes
<1>5. IdInv'
    BY <1>1, <1>2, <1>4 DEF IdInv
<1>6. HeldInv'
    <2>1. ASSUME NEW v \in Waiters, NEW n \in Nat, NEW d \in decisions, Held(v, n, d)
          PROVE  Held(v, n, d)'
        BY <1>1, <2>1 DEF Held
    <2> QED BY <1>1, <2>1 DEF HeldInv
<1>7. LaterInv'
    <2>1. ASSUME NEW d \in decisions, d.id \in told, r = <<d.id[1], d.id[2] + 1>>
          PROVE  d.resetAt <= now
        <3>1. PICK w \in Waiters, n \in Nat, e \in decisions : d.id = <<w, n>> /\ Held(w, n, e)
            BY <2>1 DEF HeldInv
        <3>2. e = d /\ r = <<w, n + 1>>
            BY <2>1, <3>1 DEF Held, DecisionInv
        <3>3. r = <<w, sent[w]>> /\ n < sent[w]
            BY <1>4, <3>2, SdkAssumption
        <3> QED BY <3>1, <3>2, <3>3 DEF Held
    <2>2. r \notin told
        BY <1>1 DEF HeldInv, Held
    <2> QED BY <1>1, <1>2, <2>1, <2>2 DEF LaterInv
<1> QED BY <1>5, <1>6, <1>7

\* Nothing of this is disturbed when only time passes or a reply comes.
LEMMA QuietToldInv ==
    ASSUME ClientInv, HonestInv, UNCHANGED <<pc, sent, wake, told, decisions>>,
           now \in Nat, now' \in Nat, now <= now'
    PROVE  IdInv' /\ HeldInv' /\ LaterInv'
<1> USE DEF ClientInv, HonestInv, ToldInv
<1>1. \A d \in decisions : d.resetAt \in Int
    BY DEF TypeOK
<1>2. ASSUME NEW v \in Waiters, NEW n \in Nat, NEW d \in decisions, Held(v, n, d)
      PROVE  Held(v, n, d)'
    BY <1>1, <1>2 DEF Held
<1>3. HeldInv'
    BY <1>2 DEF HeldInv
<1> QED BY <1>3 DEF IdInv, LaterInv

\* A reply that tells w to hold off says for how long, whichever reply it is.
LEMMA ServerToldInv ==
    ASSUME ClientInv, HonestInv, NEW w \in Waiters,
           Serve(w) \/ ServeUnlimited(w) \/ RequestFails(w)
    PROVE  ToldInv'
<1> USE DEF ClientInv, HonestInv, ToldInv
<1> DEFINE r == <<w, sent[w]>>
<1>1. /\ UNCHANGED <<pc, sent, wake, told>>
      /\ now \in Nat
    BY RateLimitAssumption DEF Serve, ServeUnlimited, RequestFails, clientVars, TypeOK, Times
<1>2. CASE Script(Account, r) /\ At(w) = "sent"
    <2>1. IdInv' /\ HeldInv' /\ LaterInv'
        BY <1>1, <1>2, ScriptToldInv
    <2>2. decisions' = decisions \union {Decision(Account, r)}
        BY <1>2 DEF Script
    <2>3. ASSUME NEW v \in Waiters, At(v)' = "limited"
          PROVE  \E d \in decisions' : /\ d.id = <<v, sent'[v]>> /\ ~ d.allowed
                                       /\ wire'[v].retry * Second >= d.resetAt - d.at
        <3>1. CASE v = w
            <4>1. Serve(w)
                <5>1. ASSUME ServeUnlimited(w) \/ RequestFails(w) PROVE FALSE
                    <6>1. \E at \in {"unfinished", "terminal", "failed"} :
                            wire' = [wire EXCEPT ![w] = Wire(at, 0)]
                        BY <5>1 DEF ServeUnlimited, RequestFails, Handled
                    <6> QED BY <2>3, <3>1, <6>1 DEF At, Wire, ClientTypes
                <5> QED BY <5>1
            <4>2. PICK at \in IF Allowed(Account) THEN Handled(w) ELSE {"limited"} :
                    wire' = [wire EXCEPT ![w] = Wire(at, IF at = "limited"
                                THEN RetryAfter(Decision(Account, r)) ELSE 0)]
                BY <4>1 DEF Serve
            <4>3. at = "limited" /\ ~ Allowed(Account)
                <5>1. wire'[w].at = at
                    BY <4>2 DEF Wire, ClientTypes
                <5> QED BY <2>3, <3>1, <4>2, <5>1 DEF At, Handled
            <4>4. wire'[w].retry = RetryAfter(Decision(Account, r))
                BY <4>2, <4>3 DEF Wire, ClientTypes
            <4>5. r \in Requests
                BY <1>2, IdsOK DEF PollInv, ClientTypes
            <4>6. PICK new : new = Decision(Account, r)
                OBVIOUS
            <4>7. new.at \in Nat /\ new.resetAt \in Int
                BY <1>2, <4>5, <4>6, ScriptTypes, SdkAssumption
            <4>8. RetryAfter(new) * Second >= new.resetAt - new.at
                BY <4>7, RetryAfterTyped
            <4>9. new \in decisions' /\ new.id = r /\ ~ new.allowed
                BY <2>2, <4>3, <4>6 DEF Decision
            <4> QED BY <1>1, <3>1, <4>4, <4>6, <4>8, <4>9
        <3>2. CASE v # w
            <4>1. wire'[v] = wire[v]
                BY <3>2 DEF Serve, ServeUnlimited, RequestFails, ClientTypes
            <4>2. At(v) = "limited"
                BY <2>3, <4>1 DEF At
            <4> QED BY <1>1, <2>2, <4>1, <4>2 DEF LimitedInv
        <3> QED BY <3>1, <3>2
    <2>4. LimitedInv'
        BY <2>3 DEF LimitedInv
    <2> QED BY <2>1, <2>4
<1>3. CASE UNCHANGED limitVars
    <2>1. UNCHANGED <<now, decisions>>
        BY <1>3 DEF limitVars
    <2>2. IdInv' /\ HeldInv' /\ LaterInv'
        BY <1>1, <2>1, QuietToldInv
    <2>3. ~ Serve(w)
        <3>1. ASSUME Serve(w) PROVE FALSE
            <4>1. Script(Account, r)
                BY <3>1 DEF Serve
            <4>2. Decision(Account, r) \in decisions' /\ Decision(Account, r).id = r
                BY <4>1 DEF Script, Decision
            <4> QED BY <2>1, <4>1, <4>2 DEF Script
        <3> QED BY <3>1
    <2>4. \E at \in {"unfinished", "terminal", "failed"} : wire' = [wire EXCEPT ![w] = Wire(at, 0)]
        BY <2>3 DEF ServeUnlimited, RequestFails, Handled
    <2>5. LimitedInv'
        <3>1. At(w)' # "limited" /\ \A v \in Waiters \ {w} : wire'[v] = wire[v]
            BY <2>4 DEF At, Wire, ClientTypes
        <3>2. ASSUME NEW v \in Waiters, At(v)' = "limited"
              PROVE  At(v) = "limited" /\ wire'[v] = wire[v]
            BY <3>1, <3>2 DEF At
        <3> QED BY <1>1, <2>1, <3>2 DEF LimitedInv
    <2> QED BY <2>2, <2>5
<1> QED BY <1>2, <1>3 DEF Serve, ServeUnlimited, RequestFails

\* Every step keeps HonestInv.
LEMMA NextHonestInv == ClientInv /\ HonestInv /\ [Next]_vars => HonestInv'
<1> SUFFICES ASSUME ClientInv, HonestInv, [Next]_vars PROVE HonestInv'
    OBVIOUS
<1>1. DecisionInv'
    BY NextDecisionInv DEF HonestInv
<1>2. ASSUME OtherRequest PROVE ToldInv'
    <2>1. UNCHANGED <<pc, sent, wake, told, wire>>
        BY <1>2 DEF OtherRequest, clientVars
    <2>2. PICK n \in Nat : Script(Account, <<"other", n>>)
        <3> DEFINE others == {d \in decisions : d.id[1] = "other"}
        <3>1. Cardinality(others) \in Nat
            <4>1. others \in SUBSET decisions /\ IsFiniteSet(decisions)
                BY DEF ClientInv
            <4> HIDE DEF others
            <4> QED BY <4>1, FS_Subset, FS_CardinalityType
        <3>2. Script(Account, <<"other", 1 + Cardinality(others)>>)
            BY <1>2 DEF OtherRequest
        <3> HIDE DEF others
        <3>3. 1 + Cardinality(others) \in Nat
            BY <3>1
        <3> QED BY <3>2, <3>3
    <2>3. IdInv' /\ HeldInv' /\ LaterInv'
        BY <2>1, <2>2, ScriptToldInv
    <2>4. LimitedInv'
        BY <2>1, <2>2 DEF Script, HonestInv, ToldInv, LimitedInv, At
    <2> QED BY <2>3, <2>4 DEF ToldInv
<1>3. ASSUME Clock \/ UNCHANGED vars PROVE ToldInv'
    <2>1. UNCHANGED <<pc, sent, wake, told, wire, decisions>>
        BY <1>3 DEF Clock, Tick, vars, clientVars, limitVars
    <2>2. IdInv' /\ HeldInv' /\ LaterInv'
        BY <2>1, LimiterKept, QuietToldInv
    <2>3. LimitedInv'
        BY <2>1 DEF HonestInv, ToldInv, LimitedInv, At
    <2> QED BY <2>2, <2>3 DEF ToldInv
<1>4. ToldInv'
    BY <1>2, <1>3, WaiterToldInv, ServerToldInv DEF Next
<1> QED BY <1>1, <1>4 DEF HonestInv

\* A waiter that was told to hold off, and did, is refused again only if other
\* requests of the account took the room there was: through the script's
\* reset_at, its rounding to seconds and the pause of waitFor, for every window,
\* limit and length of a second.
THEOREM RetryAfterHolds == Spec => []RetryAfterIsHonest
<1>1. ClientInv /\ HonestInv => RetryAfterIsHonest
    <2> SUFFICES ASSUME ClientInv, HonestInv, NEW d1 \in decisions, NEW d2 \in decisions,
                        d1.id \in told, ~ d2.allowed, d2.id = <<d1.id[1], d1.id[2] + 1>>,
                        \A d \in decisions : d.allowed /\ d1.at < d.at => ~ (d.at <= d2.at)
                 PROVE  FALSE
        BY DEF RetryAfterIsHonest
    <2> USE DEF ClientInv, HonestInv, ToldInv
    <2>1. /\ d1.at \in Nat /\ d2.at \in Nat /\ d1.resetAt \in Int
          /\ d1.resetAt <= d2.at
        BY RateLimitAssumption DEF TypeOK, Times, LaterInv
    <2>2. d1.at <= now /\ d2.at <= now /\ Full(d2)
        BY DEF DecisionInv
    <2>3. ~ d1.allowed
        BY DEF HeldInv, Held, DecisionInv
    <2>4. PICK m \in InWindow(Account, d1.at) : d1.resetAt = m.at + Window
        BY <2>3 DEF DecisionInv, Full
    <2>5. \A n \in Admitted(Account) : n.at \in Nat /\ (n.at <= d1.at \/ n.at > d2.at)
        <3>1. ASSUME NEW n \in Admitted(Account) PROVE n.at <= d1.at \/ n.at > d2.at
            <4>1. PICK d \in decisions : d.allowed /\ d.at = n.at
                BY <3>1 DEF Admitted, Answered
            <4>2. d.at \in Nat
                BY RateLimitAssumption DEF TypeOK, Times
            <4> QED BY <2>1, <4>1, <4>2
        <3> QED BY <3>1, Typed, SdkAssumption
    <2>6. m \in Admitted(Account) /\ m.at \in Nat /\ d1.at - Window < m.at /\ m.at <= d1.at
        BY <2>4, <2>5 DEF InWindow
    <2>7. InWindow(Account, d2.at) \subseteq InWindow(Account, d1.at) \ {m}
        <3>1. ASSUME NEW n \in InWindow(Account, d2.at)
              PROVE  n \in Admitted(Account) /\ d1.at - Window < n.at /\ n.at <= d1.at /\ n # m
            <4>1. n \in Admitted(Account) /\ d2.at - Window < n.at /\ n.at <= d2.at /\ n.at \in Nat
                BY <2>5 DEF InWindow
            <4>2. n.at <= d1.at
                BY <2>1, <2>5, <4>1
            <4>3. m.at < n.at
                BY <2>1, <2>4, <2>6, <4>1, RateLimitAssumption
            <4> QED BY <2>1, <2>6, <4>1, <4>2, <4>3, RateLimitAssumption
        <3> QED BY <3>1 DEF InWindow
    <2>8. /\ IsFiniteSet(InWindow(Account, d1.at))
          /\ Cardinality(InWindow(Account, d1.at)) <= Limit
        <3>1. IsFiniteSet(Admitted(Account)) /\ d1.at \in 0..now
            BY <2>1, <2>2, RateLimitAssumption, SdkAssumption DEF LogInv, TypeOK, Times
        <3>2. InWindow(Account, d1.at) \in SUBSET Admitted(Account)
            BY DEF InWindow
        <3> QED BY <3>1, <3>2, FS_Subset, SdkAssumption DEF LogInv
    <2>9. Cardinality(InWindow(Account, d2.at)) < Limit
        <3> DEFINE W == InWindow(Account, d1.at)
        <3>1. IsFiniteSet(W \ {m}) /\ Cardinality(W \ {m}) = Cardinality(W) - 1 /\ Cardinality(W) \in Nat
            BY <2>4, <2>8, FS_RemoveElement, FS_CardinalityType
        <3> HIDE DEF W
        <3>2. Cardinality(InWindow(Account, d2.at)) <= Cardinality(W \ {m})
              /\ Cardinality(InWindow(Account, d2.at)) \in Nat
            BY <2>7, <3>1, FS_Subset, FS_CardinalityType DEF W
        <3>3. Cardinality(W) <= Limit
            BY <2>8 DEF W
        <3> QED BY <3>1, <3>2, <3>3, RateLimitAssumption
    <2>10. Cardinality(InWindow(Account, d2.at)) \in Nat
        BY <2>7, <2>8, FS_Subset, FS_CardinalityType
    <2> QED BY <2>2, <2>9, <2>10, RateLimitAssumption DEF Full
<1>2. Spec => [](ClientInv /\ HonestInv)
    BY ClientInvHolds, InitHonestInv, NextHonestInv, PTL DEF Spec
<1> QED BY <1>1, <1>2, PTL
=============================================================================
