----------------------------- MODULE BootProofs -----------------------------
(***************************************************************************)
(* Theorems about Boot, for any number of workers, loops, migrations,      *)
(* problems, test cases and faults.                                        *)
(***************************************************************************)
EXTENDS Boot, TLAPS

\* What the arguments below need to know of the types.
Shape ==
    /\ applied \subseteq Migrations
    /\ copies \in [Problems -> Nat] /\ tests \in [Problems -> Nat]
    /\ at \in [Processes -> Starting \union {"new", "down", "up", "stopping", "stopped"}]
    /\ program \in [Processes -> {"seed", "server", "worker"}]
    /\ known \in [Processes -> SUBSET Migrations]
    /\ seeded \in [Processes -> SUBSET Problems]

\* A process knows only what is applied, and is up only once all of it is.
SchemaInv ==
    \A p \in Processes :
        /\ known[p] \subseteq applied
        /\ at[p] \in {"up", "stopping"} => applied = Migrations

\* A problem is there with all its test cases or not at all, and the server is
\* not started before all of them are there.
SeedInv ==
    /\ \A t \in Problems : \/ copies[t] = 0 /\ tests[t] = 0
                           \/ copies[t] = 1 /\ tests[t] = TestCases
    /\ \A p \in Processes :
        /\ \A t \in seeded[p] : copies[t] = 1
        /\ p \in Apis => program[p] \in {"seed", "server"}
        /\ at[p] = "up" => program[p] # "seed"
        /\ program[p] = "server" => seeded[p] = Problems

BootInv == Shape /\ SchemaInv /\ SeedInv

-----------------------------------------------------------------------------
\* BootInv holds at first.
LEMMA InitBootInv == Init => BootInv
<1> SUFFICES ASSUME Init PROVE BootInv
    OBVIOUS
<1>1. Shape
    BY DEF Init, Shape, FirstProgram
<1>2. SchemaInv
    BY DEF Init, SchemaInv
<1>3. SeedInv
    BY DEF Init, SeedInv, FirstProgram, Processes
<1> QED BY <1>1, <1>2, <1>3 DEF BootInv

\* The end of a container keeps BootInv, whatever is committed at that moment
\* keeps it too.
LEMMA LeaveKeepsInv ==
    ASSUME BootInv, NEW p \in Processes, Leave(p, "down") \/ Leave(p, "stopped"),
           UNCHANGED rowVars
    PROVE  BootInv'
<1> USE DEF BootInv, Leave, Goto, rowVars
<1>1. Shape'
    BY DEF Shape, FirstProgram
<1>2. SchemaInv'
    BY DEF Shape, SchemaInv
<1>3. SeedInv'
    BY DEF Shape, SeedInv, FirstProgram, Processes
<1> QED BY <1>1, <1>2, <1>3

\* So do the steps of runMigrations.
LEMMA MigrateKeepsInv ==
    ASSUME BootInv, NEW p \in Processes,
           Start(p) \/ Restart(p) \/ Prepare(p) \/ CreateTable(p) \/ Read(p) \/ Apply(p) \/ Commit(p)
    PROVE  BootInv'
<1> USE DEF BootInv, Goto
<1>1. CASE Start(p) \/ Restart(p) \/ Prepare(p)
    <2>1. /\ UNCHANGED <<applied, copies, tests, program, known, seeded>>
          /\ \E next \in {"prepare", "read", "create"} : at' = [at EXCEPT ![p] = next]
        BY <1>1 DEF Start, Restart, Prepare, rowVars
    <2> QED BY <2>1 DEF Shape, SchemaInv, SeedInv, Starting
<1>2. CASE CreateTable(p)
    <2>1. UNCHANGED <<applied, copies, tests>>
        BY <1>2 DEF CreateTable
    <2>2. CASE Leave(p, "down")
        <3>1. Shape'
            BY <2>1, <2>2 DEF Shape, Leave, FirstProgram
        <3>2. SchemaInv'
            BY <2>1, <2>2 DEF Shape, SchemaInv, Leave
        <3>3. SeedInv'
            BY <2>1, <2>2 DEF Shape, SeedInv, Leave, FirstProgram, Processes
        <3> QED BY <3>1, <3>2, <3>3
    <2>3. CASE at' = [at EXCEPT ![p] = "read"] /\ UNCHANGED <<program, known, seeded>>
        BY <2>1, <2>3 DEF Shape, SchemaInv, SeedInv, Starting
    <2> QED BY <1>2, <2>2, <2>3 DEF CreateTable
<1>3. CASE Read(p)
    <2>1. UNCHANGED <<applied, copies, tests, program, seeded>>
          /\ known' = [known EXCEPT ![p] = applied]
        BY <1>3 DEF Read, rowVars
    <2>2. \/ /\ Migrations \subseteq applied
             /\ \/ at' = [at EXCEPT ![p] = "seed"]
                \/ at' = [at EXCEPT ![p] = "up"] /\ program[p] # "seed"
          \/ ~ (Migrations \subseteq applied) /\ at' = [at EXCEPT ![p] = "apply"]
        BY <1>3 DEF Read, Migrate
    <2>3. Shape'
        BY <2>1, <2>2 DEF Shape, Starting
    <2>4. SchemaInv'
        BY <2>1, <2>2 DEF Shape, SchemaInv
    <2>5. SeedInv'
        BY <2>1, <2>2 DEF Shape, SeedInv
    <2> QED BY <2>3, <2>4, <2>5
<1>4. CASE Apply(p)
    <2>1. UNCHANGED rowVars
        BY <1>4 DEF Apply
    <2>2. CASE Leave(p, "down")
        BY <2>1, <2>2, LeaveKeepsInv
    <2>3. CASE at[p] = "apply" /\ at' = [at EXCEPT ![p] = "commit"]
                /\ UNCHANGED <<program, known, seeded>>
        BY <2>1, <2>3 DEF Shape, SchemaInv, SeedInv, Starting, rowVars
    <2> QED BY <1>4, <2>2, <2>3 DEF Apply
<1>5. CASE Commit(p)
    <2> DEFINE v == FirstLeft(p)
    <2>1. v \subseteq Migrations /\ known[p] \subseteq applied
        BY DEF FirstLeft, SchemaInv
    <2>2. applied' = applied \union v /\ UNCHANGED <<copies, tests>>
        BY <1>5 DEF Commit
    <2>3. \A q \in Processes : at[q] \in {"up", "stopping"} => applied' = Migrations
        BY <2>1, <2>2 DEF SchemaInv
    <2> HIDE DEF v
    <2>4. CASE Leave(p, "down")
        <3>1. Shape'
            BY <2>1, <2>2, <2>4 DEF Shape, Leave, FirstProgram
        <3>2. SchemaInv'
            BY <2>2, <2>3, <2>4 DEF Shape, SchemaInv, Leave
        <3>3. SeedInv'
            BY <2>2, <2>4 DEF Shape, SeedInv, Leave, FirstProgram, Processes
        <3> QED BY <3>1, <3>2, <3>3
    <2>5. CASE known' = [known EXCEPT ![p] = @ \union v] /\ Migrate(p, known[p] \union v)
                /\ UNCHANGED <<program, seeded>>
        <3>1. \/ /\ Migrations \subseteq known[p] \union v
                 /\ \/ at' = [at EXCEPT ![p] = "seed"]
                    \/ at' = [at EXCEPT ![p] = "up"] /\ program[p] # "seed"
              \/ ~ (Migrations \subseteq known[p] \union v) /\ at' = [at EXCEPT ![p] = "apply"]
            BY <2>5 DEF Migrate
        <3>2. Shape'
            BY <2>1, <2>2, <2>5, <3>1 DEF Shape, Starting
        <3>3. SchemaInv'
            BY <2>1, <2>2, <2>3, <2>5, <3>1 DEF Shape, SchemaInv
        <3>4. SeedInv'
            BY <2>2, <2>5, <3>1 DEF Shape, SeedInv
        <3> QED BY <3>2, <3>3, <3>4
    <2> QED BY <1>5, <2>4, <2>5 DEF Commit, v
<1> QED BY <1>1, <1>2, <1>3, <1>4, <1>5

\* So do those of seed(), and the start of the server after it.
LEMMA SeedKeepsInv ==
    ASSUME BootInv, NEW p \in Processes, Seed(p) \/ Serve(p)
    PROVE  BootInv'
<1> USE DEF BootInv, Goto
<1>1. CASE Seed(p)
    <2>1. PICK t \in Problems \ seeded[p] :
            IF copies[t] = 0 THEN Create(p, t)
            ELSE /\ seeded' = [seeded EXCEPT ![p] = @ \union {t}]
                 /\ UNCHANGED <<copies, tests, at, program, known, loop, faults>>
        BY <1>1 DEF Seed
    <2>2. UNCHANGED applied
        BY <1>1 DEF Seed
    <2>3. CASE copies[t] # 0
        <3>1. copies[t] = 1
            BY <2>3 DEF SeedInv
        <3> QED BY <2>1, <2>2, <2>3, <3>1 DEF Shape, SchemaInv, SeedInv
    <2>4. CASE copies[t] = 0
        <3>1. copies' = [copies EXCEPT ![t] = 1] /\ tests' = [tests EXCEPT ![t] = TestCases]
            <4>1. copies[t] = 0 /\ tests[t] = 0
                BY <2>4 DEF SeedInv
            <4> QED BY <2>1, <4>1, BootAssumption DEF Create, Shape
        <3>2. CASE seeded' = [seeded EXCEPT ![p] = @ \union {t}] /\ UNCHANGED <<at, program, known>>
            <4>1. Shape'
                BY <2>2, <3>1, <3>2, BootAssumption DEF Shape
            <4>2. SchemaInv'
                BY <2>2, <3>2 DEF Shape, SchemaInv
            <4>3. SeedInv'
                BY <2>4, <3>1, <3>2 DEF Shape, SeedInv
            <4> QED BY <4>1, <4>2, <4>3
        <3>3. CASE Leave(p, "down")
            <4>1. Shape'
                BY <2>2, <3>1, <3>3, BootAssumption DEF Shape, Leave, FirstProgram
            <4>2. SchemaInv'
                BY <2>2, <3>3 DEF Shape, SchemaInv, Leave
            <4>3. SeedInv'
                BY <2>4, <3>1, <3>3 DEF Shape, SeedInv, Leave, FirstProgram, Processes
            <4> QED BY <4>1, <4>2, <4>3
        <3> QED BY <2>1, <2>4, <3>2, <3>3 DEF Create
    <2> QED BY <2>3, <2>4
<1>2. CASE Serve(p)
    <2>1. /\ seeded[p] = Problems
          /\ at' = [at EXCEPT ![p] = "prepare"]
          /\ program' = [program EXCEPT ![p] = "server"]
          /\ known' = [known EXCEPT ![p] = {}]
          /\ UNCHANGED <<applied, copies, tests, seeded>>
        BY <1>2 DEF Serve, rowVars
    <2>2. Shape'
        BY <2>1 DEF Shape, Starting
    <2>3. SchemaInv'
        BY <2>1 DEF Shape, SchemaInv
    <2>4. SeedInv'
        BY <2>1 DEF Shape, SeedInv
    <2> QED BY <2>2, <2>3, <2>4
<1> QED BY <1>1, <1>2

\* Every step keeps BootInv.
LEMMA NextBootInv == BootInv /\ [Next]_vars => BootInv'
<1> SUFFICES ASSUME BootInv, [Next]_vars PROVE BootInv'
    OBVIOUS
<1>1. ASSUME NEW p \in Processes, BootStep(p) \/ Restart(p) PROVE BootInv'
    BY <1>1, MigrateKeepsInv, SeedKeepsInv DEF BootStep
<1>2. ASSUME NEW p \in Processes, Quit(p) \/ Fail(p) PROVE BootInv'
    BY <1>2, LeaveKeepsInv DEF Quit, Fail
<1>3. ASSUME NEW p \in Processes, Terminate(p) PROVE BootInv'
    <2>1. CASE Leave(p, "stopped")
        BY <1>3, <2>1, LeaveKeepsInv DEF Terminate
    <2>2. CASE /\ at[p] = "up" /\ at' = [at EXCEPT ![p] = "stopping"]
               /\ UNCHANGED <<program, known, seeded, rowVars>>
        BY <2>2 DEF BootInv, Shape, SchemaInv, SeedInv, rowVars
    <2> QED BY <1>3, <2>1, <2>2 DEF Terminate, Goto
<1>4. ASSUME NEW l \in Loops, LoopStep(l) PROVE BootInv'
    BY <1>4 DEF LoopStep, BootInv, Shape, SchemaInv, SeedInv, rowVars
<1>5. ASSUME UNCHANGED vars PROVE BootInv'
    BY <1>5 DEF vars, rowVars, processVars, BootInv, Shape, SchemaInv, SeedInv
<1> QED BY <1>1, <1>2, <1>3, <1>4, <1>5 DEF Next

\* It holds in every reachable state.
LEMMA BootInvHolds == Spec => []BootInv
BY InitBootInv, NextBootInv, PTL DEF Spec

\* With any number of processes that migrate, seed, fail, die, lose the answer
\* of a COMMIT and are started again in any order, whatever is up has the whole
\* schema, and the API every seeded problem, once and with all its test cases.
THEOREM ReadyWhenUp == Spec => []UpMeansReady
<1>1. BootInv => UpMeansReady
    <2> SUFFICES ASSUME BootInv PROVE UpMeansReady
        OBVIOUS
    <2> USE DEF BootInv
    <2>1. \A p \in Processes : at[p] \in {"up", "stopping"} => applied = Migrations
        BY DEF SchemaInv
    <2>2. ASSUME NEW t \in Problems
          PROVE  copies[t] <= 1 /\ tests[t] = copies[t] * TestCases
        BY BootAssumption DEF SeedInv
    <2>3. ASSUME NEW t \in Problems, NEW p \in Apis, at[p] = "up"
          PROVE  copies[t] = 1
        BY <2>3 DEF SeedInv, Processes
    <2> QED BY <2>1, <2>2, <2>3 DEF UpMeansReady
<1> QED BY <1>1, BootInvHolds, PTL
=============================================================================
