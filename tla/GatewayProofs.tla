--------------------------- MODULE GatewayProofs ---------------------------
(***************************************************************************)
(* Theorems about Gateway, for any keys, accounts, cap, requests, size of  *)
(* the buffer and faults.                                                  *)
(***************************************************************************)
EXTENDS Gateway, FiniteSetTheorems, SequenceTheorems, TLAPS

-----------------------------------------------------------------------------
(* The cap on active keys.                                                 *)

\* Whoever has counted holds the row of its account, and no one else does: so
\* what was counted still is so when the row of the key is committed.
LockInv ==
    /\ key \in [Keys -> {"none", "active", "revoked", "deleted"}]
    /\ making \in [Keys -> {"new", "lock", "count", "commit", "shown", "full", "failed"}]
    /\ locks \subseteq Keys
    /\ \A j, k \in locks : Owner[j] = Owner[k] => j = k
    /\ \A k \in Keys : making[k] \in {"count", "commit"} => k \in locks

Counted == \A k \in Keys : making[k] = "commit" => Cardinality(Active(Owner[k])) < MaxActive

CapInv == LockInv /\ Counted /\ KeyCap

\* A set of keys that has lost members, or has at most one that it had not.
LEMMA FewerKeys ==
    ASSUME NEW A \in SUBSET Keys, NEW B \in SUBSET Keys, B \subseteq A
    PROVE  /\ Cardinality(A) \in Nat /\ Cardinality(B) \in Nat
           /\ Cardinality(B) <= Cardinality(A)
BY GatewayAssumption, FS_Subset, FS_CardinalityType

LEMMA OneMoreKey ==
    ASSUME NEW A \in SUBSET Keys, NEW B \in SUBSET Keys, NEW k \in Keys, B \subseteq A \union {k},
           Cardinality(A) < MaxActive
    PROVE  Cardinality(B) <= MaxActive
<1>1. IsFiniteSet(A) /\ Cardinality(A) \in Nat
    BY GatewayAssumption, FS_Subset, FS_CardinalityType
<1>2. /\ A \union {k} \in SUBSET Keys
      /\ \/ Cardinality(A \union {k}) = Cardinality(A)
         \/ Cardinality(A \union {k}) = Cardinality(A) + 1
    <2>1. A \union {k} \in SUBSET Keys
        OBVIOUS
    <2>2. Cardinality(A \union {k}) = IF k \in A THEN Cardinality(A) ELSE Cardinality(A) + 1
        BY ONLY <1>1, FS_AddElement
    <2> QED BY ONLY <2>1, <2>2
<1>3. Cardinality(B) <= Cardinality(A \union {k}) /\ Cardinality(B) \in Nat
      /\ Cardinality(A \union {k}) \in Nat
    BY <1>2, FewerKeys
<1> QED BY <1>1, <1>2, <1>3, GatewayAssumption

\* What keeps CapInv: locks stay distinct, and an account whose active keys grow
\* in number grows by one that was counted.
LEMMA CapKept ==
    ASSUME CapInv, LockInv',
           \A k \in Keys : \/ Active(Owner[k])' \subseteq Active(Owner[k])
                           \/ /\ Cardinality(Active(Owner[k])) < MaxActive
                              /\ \E j \in Keys : Active(Owner[k])' \subseteq Active(Owner[k]) \union {j},
           \A k \in Keys : making'[k] = "commit" =>
                \/ Cardinality(Active(Owner[k])') < MaxActive
                \/ making[k] = "commit" /\ Active(Owner[k])' \subseteq Active(Owner[k])
    PROVE  CapInv'
<1>1. \A k \in Keys : Active(Owner[k]) \in SUBSET Keys /\ Active(Owner[k])' \in SUBSET Keys
    BY DEF Active
<1>2. ASSUME NEW k \in Keys PROVE Cardinality(Active(Owner[k])') <= MaxActive
    <2>1. CASE Active(Owner[k])' \subseteq Active(Owner[k])
        BY <1>1, <2>1, FewerKeys, GatewayAssumption DEF CapInv, KeyCap
    <2>2. CASE \E j \in Keys : /\ Active(Owner[k])' \subseteq Active(Owner[k]) \union {j}
                               /\ Cardinality(Active(Owner[k])) < MaxActive
        BY <1>1, <2>2, OneMoreKey
    <2> QED BY <2>1, <2>2
<1>3. ASSUME NEW k \in Keys, making'[k] = "commit"
      PROVE  Cardinality(Active(Owner[k])') < MaxActive
    <2>1. CASE making[k] = "commit" /\ Active(Owner[k])' \subseteq Active(Owner[k])
        <3>1. Cardinality(Active(Owner[k])) < MaxActive
            BY <2>1 DEF CapInv, Counted
        <3> QED BY <1>1, <2>1, <3>1, FewerKeys, GatewayAssumption
    <2> QED BY <1>3, <2>1
<1>4. Counted' /\ KeyCap'
    BY <1>2, <1>3 DEF Counted, KeyCap
<1> QED BY <1>4 DEF CapInv

\* CapInv holds at first.
LEMMA InitCapInv == Init => CapInv
<1> SUFFICES ASSUME Init PROVE CapInv
    OBVIOUS
<1>1. \A k \in Keys : Active(Owner[k]) = {}
    BY DEF Init, Active
<1>2. LockInv
    BY DEF Init, LockInv
<1>3. \A k \in Keys : Cardinality(Active(Owner[k])) = 0
    BY <1>1, FS_EmptySet
<1>4. Counted /\ KeyCap
    BY <1>3, GatewayAssumption DEF Init, Counted, KeyCap
<1> QED BY <1>2, <1>4 DEF CapInv

\* Every step keeps CapInv.
LEMMA NextCapInv == CapInv /\ [Next]_vars => CapInv'
<1> SUFFICES ASSUME CapInv, [Next]_vars PROVE CapInv'
    OBVIOUS
<1> USE DEF Step
<1>1. ASSUME NEW k \in Keys, Ask(k) \/ LockUser(k) \/ Fail(k)
      PROVE  CapInv'
    <2>1. LockInv'
        BY <1>1 DEF Ask, LockUser, Fail, CapInv, LockInv
    <2>2. UNCHANGED key /\ \A j \in Keys : making'[j] = "commit" => making[j] = "commit"
        BY <1>1 DEF Ask, LockUser, Fail, CapInv, LockInv
    <2> QED BY <2>1, <2>2, CapKept DEF Active
<1>2. ASSUME NEW k \in Keys, Count(k) PROVE CapInv'
    <2>1. LockInv' /\ UNCHANGED key
        BY <1>2 DEF Count, CapInv, LockInv
    <2>2. \A a : Active(a)' = Active(a)
        BY <2>1 DEF Active
    <2>3. \A j \in Keys : making'[j] = "commit" =>
            \/ making[j] = "commit"
            \/ j = k /\ ~ (Cardinality(Active(Owner[k])) >= MaxActive)
        BY <1>2 DEF Count, CapInv, LockInv
    <2>4. Cardinality(Active(Owner[k])) \in Nat
        BY FewerKeys DEF Active
    <2> QED BY <2>1, <2>2, <2>3, <2>4, CapKept, GatewayAssumption
<1>3. ASSUME NEW k \in Keys, Commit(k) PROVE CapInv'
    <2>1. making[k] = "commit" /\ k \in locks /\ key' = [key EXCEPT ![k] = "active"]
        BY <1>3 DEF Commit, CapInv, LockInv
    <2>2. LockInv'
        BY <1>3 DEF Commit, CapInv, LockInv
    <2>3. ASSUME NEW a
          PROVE  /\ Active(a)' \subseteq Active(a) \union {k}
                 /\ a # Owner[k] => Active(a)' \subseteq Active(a)
        BY <2>1 DEF Active, CapInv, LockInv
    <2>4. Cardinality(Active(Owner[k])) < MaxActive
        BY <2>1 DEF CapInv, Counted
    <2>5. \A j \in Keys : making'[j] = "commit" => making[j] = "commit" /\ Owner[j] # Owner[k]
        BY <1>3, <2>1 DEF Commit, CapInv, LockInv
    <2>6. ASSUME NEW j \in Keys
          PROVE  \/ Active(Owner[j])' \subseteq Active(Owner[j])
                 \/ /\ Cardinality(Active(Owner[j])) < MaxActive
                    /\ \E i \in Keys : Active(Owner[j])' \subseteq Active(Owner[j]) \union {i}
        <3>1. CASE Owner[j] = Owner[k]
            BY <2>3, <2>4, <3>1
        <3>2. CASE Owner[j] # Owner[k]
            BY <2>3, <3>2
        <3> QED BY <3>1, <3>2
    <2> QED BY <2>2, <2>3, <2>5, <2>6, CapKept
<1>4. ASSUME NEW k \in Keys, Revoke(k) \/ DeleteKey(k) PROVE CapInv'
    <2>1. LockInv' /\ UNCHANGED making
        BY <1>4 DEF Revoke, DeleteKey, CapInv, LockInv
    <2>2. \A a : Active(a)' \subseteq Active(a)
        BY <1>4 DEF Revoke, DeleteKey, Active, CapInv, LockInv
    <2> QED BY <2>1, <2>2, CapKept
<1>5. CASE Crash
    <2>1. PICK done \in SUBSET {k \in Keys : making[k] = "commit"} :
            key' = [k \in Keys |-> IF k \in done THEN "active" ELSE key[k]]
        BY <1>5 DEF Crash
    <2>2. LockInv' /\ \A k \in Keys : making'[k] # "commit"
        BY <1>5, <2>1 DEF Crash, CapInv, LockInv
    <2>3. ASSUME NEW k \in Keys
          PROVE  \/ Active(Owner[k])' \subseteq Active(Owner[k])
                 \/ /\ Cardinality(Active(Owner[k])) < MaxActive
                    /\ \E j \in Keys : Active(Owner[k])' \subseteq Active(Owner[k]) \union {j}
        <3>1. CASE \A j \in done : Owner[j] # Owner[k]
            BY <2>1, <3>1 DEF Active
        <3>2. CASE \E j \in done : Owner[j] = Owner[k]
            <4>1. PICK j \in done : Owner[j] = Owner[k]
                BY <3>2
            <4>2. \A i \in done : Owner[i] = Owner[k] => i = j
                BY <4>1 DEF CapInv, LockInv
            <4>3. Active(Owner[k])' \subseteq Active(Owner[k]) \union {j}
                BY <2>1, <4>2 DEF Active
            <4>4. Cardinality(Active(Owner[k])) < MaxActive
                BY <4>1 DEF CapInv, Counted
            <4> QED BY <4>1, <4>3, <4>4
        <3> QED BY <3>1, <3>2
    <2> QED BY <2>2, <2>3, CapKept
<1>6. CASE UNCHANGED keyVars
    BY <1>6 DEF keyVars, CapInv, LockInv, Counted, KeyCap, Active
<1>7. ASSUME NEW r \in Requests,
             Authenticate(r) \/ RateLimited(r) \/ Handle(r) \/ ClientGone(r)
      PROVE  UNCHANGED keyVars
    BY <1>7 DEF Authenticate, RateLimited, Handle, ClientGone
<1>8. CASE Flush \/ Flushed \/ FlushFails
    BY <1>6, <1>8 DEF Flush, Flushed, FlushFails
<1> QED BY <1>1, <1>2, <1>3, <1>4, <1>5, <1>6, <1>7, <1>8 DEF Next, CreateStep, vars

\* The cap on active keys holds with any number of creations at once, some of
\* which fail or lose the answer of their COMMIT, with revocations and deletions,
\* and with a process that dies while a COMMIT is on its way.
THEOREM CapHolds == Spec => []KeyCap
<1>1. CapInv => KeyCap
    BY DEF CapInv
<1> QED BY <1>1, InitCapInv, NextCapInv, PTL DEF Spec

-----------------------------------------------------------------------------
(* Types, and what the operations on the buffer do.                        *)

\* How many of the oldest do not fit.
Excess(seq) == Len(seq) - Len(Capped(seq))

\* What is left of a sequence at the cap is its newest part.
LEMMA CappedIsSuffix ==
    ASSUME NEW S, NEW seq \in Seq(S)
    PROVE  /\ Capped(seq) \in Seq(S)
           /\ Len(seq) \in Nat /\ Len(Capped(seq)) \in Nat /\ Excess(seq) \in Nat
           /\ Len(Capped(seq)) <= MaxBuffered
           /\ \A i \in 1..Len(Capped(seq)) : Capped(seq)[i] = seq[Excess(seq) + i]
<1>1. Len(seq) \in Nat /\ \A i \in 1..Len(seq) : seq[i] \in S
    BY LenProperties, ElementOfSeq
<1>2. MaxBuffered \in Nat \ {0}
    BY GatewayAssumption
<1>3. CASE Len(seq) > MaxBuffered
    <2> DEFINE m == Len(seq) - MaxBuffered + 1
    <2>1. Capped(seq) = SubSeq(seq, m, Len(seq))
        BY <1>3 DEF Capped
    <2>2. m \in Int /\ Len(seq) \in Int /\ m <= Len(seq) /\ m >= 1
        BY <1>1, <1>2, <1>3
    <2>3. \A i \in m..Len(seq) : seq[i] \in S
        BY <1>1, <2>2
    <2>4. /\ SubSeq(seq, m, Len(seq)) \in Seq(S)
          /\ Len(SubSeq(seq, m, Len(seq))) = IF m <= Len(seq) THEN Len(seq) - m + 1 ELSE 0
          /\ \A i \in 1..(Len(seq) - m + 1) : SubSeq(seq, m, Len(seq))[i] = seq[m + i - 1]
        <3> HIDE DEF m
        <3> QED BY ONLY <2>2, <2>3, SubSeqProperties
    <2>5. Len(Capped(seq)) = MaxBuffered
        BY <1>1, <1>2, <2>1, <2>2, <2>4
    <2>6. Excess(seq) = m - 1
        BY <1>1, <1>2, <2>5 DEF Excess
    <2>7. \A i \in 1..Len(Capped(seq)) : Capped(seq)[i] = seq[Excess(seq) + i]
        <3> SUFFICES ASSUME NEW i \in 1..Len(Capped(seq))
                     PROVE  Capped(seq)[i] = seq[Excess(seq) + i]
            OBVIOUS
        <3>1. i \in 1..(Len(seq) - m + 1) /\ m + i - 1 = Excess(seq) + i
            BY <1>1, <1>2, <2>5, <2>6
        <3> QED BY <2>1, <2>4, <3>1
    <2> QED BY <1>1, <1>2, <2>1, <2>2, <2>4, <2>5, <2>6, <2>7
<1>4. CASE ~ (Len(seq) > MaxBuffered)
    BY <1>1, <1>2, <1>4 DEF Capped, Excess
<1> QED BY <1>3, <1>4

\* Both ends of a sequence at the cap: what is dropped and what is left.
LEMMA CappedElements ==
    ASSUME NEW S, NEW seq \in Seq(S)
    PROVE  /\ In(Capped(seq)) \subseteq In(seq)
           /\ In(seq) \subseteq In(Capped(seq)) \union {seq[i] : i \in 1..Excess(seq)}
<1>1. /\ Capped(seq) \in Seq(S)
      /\ Len(seq) \in Nat /\ Len(Capped(seq)) \in Nat /\ Excess(seq) \in Nat
      /\ \A i \in 1..Len(Capped(seq)) : Capped(seq)[i] = seq[Excess(seq) + i]
    BY CappedIsSuffix
<1>2. DOMAIN seq = 1..Len(seq) /\ DOMAIN Capped(seq) = 1..Len(Capped(seq))
    BY <1>1, LenProperties
<1>3. ASSUME NEW i \in 1..Len(Capped(seq)) PROVE Excess(seq) + i \in 1..Len(seq)
    BY <1>1 DEF Excess
<1>4. ASSUME NEW i \in 1..Len(seq), i \notin 1..Excess(seq)
      PROVE  \E j \in 1..Len(Capped(seq)) : seq[i] = Capped(seq)[j]
    <2>1. i - Excess(seq) \in 1..Len(Capped(seq)) /\ Excess(seq) + (i - Excess(seq)) = i
        BY <1>1, <1>4 DEF Excess
    <2> QED BY <1>1, <2>1
<1>5. In(Capped(seq)) = {Capped(seq)[i] : i \in 1..Len(Capped(seq))}
    BY <1>2 DEF In
<1>6. In(seq) = {seq[i] : i \in 1..Len(seq)}
    BY <1>2 DEF In
<1>7. In(Capped(seq)) \subseteq In(seq)
    BY <1>1, <1>3, <1>5, <1>6
<1>8. In(seq) \subseteq In(Capped(seq)) \union {seq[i] : i \in 1..Excess(seq)}
    BY <1>4, <1>5, <1>6
<1> QED BY <1>7, <1>8

\* The members of two sequences in a row are those of both.
LEMMA InOfConcat ==
    ASSUME NEW S, NEW s \in Seq(S), NEW t \in Seq(S)
    PROVE  In(s \o t) = In(s) \union In(t)
<1>1. /\ s \o t \in Seq(S) /\ Len(s \o t) = Len(s) + Len(t)
      /\ \A i \in 1..(Len(s) + Len(t)) :
            (s \o t)[i] = IF i <= Len(s) THEN s[i] ELSE t[i - Len(s)]
      /\ Len(s) \in Nat /\ Len(t) \in Nat
    BY ConcatProperties, LenProperties
<1>2. /\ DOMAIN (s \o t) = 1..(Len(s) + Len(t))
      /\ DOMAIN s = 1..Len(s) /\ DOMAIN t = 1..Len(t)
    BY <1>1, LenProperties
<1>3. ASSUME NEW i \in 1..(Len(s) + Len(t)) PROVE (s \o t)[i] \in In(s) \union In(t)
    <2>1. CASE i <= Len(s)
        BY <1>1, <1>2, <2>1 DEF In
    <2>2. CASE ~ (i <= Len(s))
        <3>1. i - Len(s) \in 1..Len(t)
            BY <1>1, <2>2
        <3> QED BY <1>1, <1>2, <2>2, <3>1 DEF In
    <2> QED BY <2>1, <2>2
<1>4. ASSUME NEW i \in 1..Len(s) PROVE s[i] \in In(s \o t)
    <2>1. i \in 1..(Len(s) + Len(t)) /\ i <= Len(s)
        BY <1>1
    <2> QED BY <1>1, <1>2, <2>1 DEF In
<1>5. ASSUME NEW i \in 1..Len(t) PROVE t[i] \in In(s \o t)
    <2>1. /\ Len(s) + i \in 1..(Len(s) + Len(t)) /\ ~ (Len(s) + i <= Len(s))
          /\ (Len(s) + i) - Len(s) = i
        BY <1>1
    <2>2. (s \o t)[Len(s) + i] = t[i]
        BY <1>1, <2>1
    <2> QED BY <1>2, <2>1, <2>2 DEF In
<1> QED BY <1>2, <1>3, <1>4, <1>5 DEF In

LEMMA InOfAppend ==
    ASSUME NEW S, NEW s \in Seq(S), NEW e \in S
    PROVE  In(Append(s, e)) = In(s) \union {e}
<1>1. Append(s, e) = s \o <<e>> /\ <<e>> \in Seq(S)
    BY AppendIsConcat
<1>2. DOMAIN <<e>> = {1} /\ <<e>>[1] = e
    OBVIOUS
<1>3. In(<<e>>) = {e}
    BY <1>2 DEF In
<1>4. ASSUME NEW t \in Seq(S) PROVE In(s \o t) = In(s) \union In(t)
    BY InOfConcat
<1>5. In(s \o <<e>>) = In(s) \union In(<<e>>)
    BY <1>1, <1>4
<1> QED BY <1>1, <1>3, <1>5

\* Records are numbered from 1.
LEMMA RecordNumbers ==
    ASSUME TypeOK
    PROVE  /\ Len(finished) \in Nat /\ Records = 1..Len(finished)
           /\ rows \in [Records -> Nat]
           /\ \A i \in Records : finished[i] \in [key : Keys, answer : Answers]
<1> DEFINE Entries == [key : Keys, answer : Answers]
<1>1. finished \in Seq(Entries) /\ rows \in [Records -> Nat]
    BY DEF TypeOK
<1>2. /\ Len(finished) \in Nat /\ DOMAIN finished = 1..Len(finished)
      /\ \A i \in 1..Len(finished) : finished[i] \in Entries
    <2> HIDE DEF Entries
    <2> QED BY <1>1, LenProperties, ElementOfSeq
<1> QED BY <1>1, <1>2 DEF Records

\* The "finish" event adds a record, the newest, that has no row yet.
LEMMA FinishAdds ==
    ASSUME TypeOK, NEW r \in Requests, NEW answer \in Answers, Finish(r, answer)
    PROVE  LET n == Len(finished) + 1 IN
           /\ n \notin Records /\ Records' = Records \union {n}
           /\ Len(finished)' = n
           /\ finished' \in Seq([key : Keys, answer : Answers])
           /\ \A i \in Records : finished'[i] = finished[i]
           /\ rows' \in [Records' -> Nat]
           /\ rows'[n] = 0 /\ \A i \in Records : rows'[i] = rows[i]
           /\ Append(buffer, n) \in Seq(Records') /\ batch \in Seq(Records')
           /\ In(Append(buffer, n)) = In(buffer) \union {n}
           /\ Len(Append(buffer, n)) = Len(buffer) + 1
<1> DEFINE n == Len(finished) + 1
           new == [key |-> KeyOf[r], answer |-> answer]
           Entries == [key : Keys, answer : Answers]
<1>1. /\ finished \in Seq(Entries) /\ rows \in [Records -> Nat]
      /\ Len(finished) \in Nat /\ Records = 1..Len(finished)
      /\ buffer \in Seq(Records) /\ batch \in Seq(Records)
    BY RecordNumbers DEF TypeOK
<1>2. new \in Entries
    BY GatewayAssumption
<1>3. finished' = Append(finished, new) /\ rows' = Append(rows, 0)
    BY DEF Finish
<1>4. /\ finished' \in Seq(Entries) /\ Len(finished') = n
      /\ \A i \in 1..Len(finished) : finished'[i] = finished[i]
    <2> HIDE DEF Entries, new
    <2> QED BY <1>1, <1>2, <1>3, AppendProperties
<1>5. /\ Records' = 1..n /\ n \in Nat /\ n \notin Records
      /\ Records' = Records \union {n} /\ Records \subseteq Records'
    <2>1. DOMAIN finished' = 1..n
        BY <1>4, LenProperties
    <2> QED BY <1>1, <2>1 DEF Records
<1>6. /\ rows' \in [Records' -> Nat]
      /\ rows'[n] = 0 /\ \A i \in Records : rows'[i] = rows[i]
    <2>1. rows \in Seq(Nat) /\ DOMAIN rows = 1..Len(finished)
        <3>1. \E m \in Nat : rows \in [1..m -> Nat]
            BY <1>1
        <3> QED BY <1>1, <3>1, SeqDef
    <2>2. Len(rows) = Len(finished)
        <3>1. DOMAIN rows = 1..Len(rows) /\ Len(rows) \in Nat
            BY <2>1, LenProperties
        <3> QED BY <1>1, <2>1, <3>1
    <2>3. /\ rows' \in Seq(Nat) /\ Len(rows') = n /\ rows'[n] = 0
          /\ \A i \in 1..Len(finished) : rows'[i] = rows[i]
        BY <1>3, <2>1, <2>2, AppendProperties
    <2>4. rows' \in [1..n -> Nat]
        BY <2>3, LenProperties
    <2> QED BY <1>1, <1>5, <2>3, <2>4
<1>7. buffer \in Seq(Records') /\ batch \in Seq(Records')
    BY <1>1, <1>5, SeqMonotonic
<1>8. Append(buffer, n) \in Seq(Records') /\ Len(Append(buffer, n)) = Len(buffer) + 1
    BY <1>5, <1>7, AppendProperties
<1>9. In(Append(buffer, n)) = In(buffer) \union {n}
    <2>1. n \in Records'
        BY <1>5
    <2> HIDE DEF n
    <2> QED BY <1>7, <2>1, InOfAppend
<1>10. /\ finished' \in Seq([key : Keys, answer : Answers]) /\ Len(finished)' = n
       /\ \A i \in Records : finished'[i] = finished[i]
    BY <1>1, <1>4
<1> QED BY <1>5, <1>6, <1>7, <1>8, <1>9, <1>10

\* What CountDropped adds.
LEMMA CountedExcess ==
    ASSUME dropped \in Nat, NEW S, NEW seq \in Seq(S), CountDropped(seq)
    PROVE  dropped' = dropped + Excess(seq) /\ dropped' \in Nat
BY CappedIsSuffix DEF CountDropped, Excess

\* Types at first.
LEMMA InitTypeOK == Init => TypeOK
<1> SUFFICES ASSUME Init PROVE TypeOK
    OBVIOUS
<1>1. <<>> \in Seq([key : Keys, answer : Answers]) /\ <<>> \in Seq(Records)
    BY EmptySeq
<1>2. Records = {} /\ rows \in [Records -> Nat]
    BY DEF Init, Records
<1> QED BY <1>1, <1>2, GatewayAssumption DEF Init, TypeOK

\* The rows that the INSERT of a flush leaves.
LEMMA WrittenTypes ==
    ASSUME TypeOK
    PROVE  Written \in [Records -> Nat]
BY RecordNumbers DEF Written

\* A flush that fails loses what the cap drops.
LEMMA PutBackTypes ==
    ASSUME TypeOK, PutBack
    PROVE  /\ batch \o buffer \in Seq(Records)
           /\ buffer' \in Seq(Records) /\ Len(buffer') <= MaxBuffered
           /\ dropped' = dropped + Excess(batch \o buffer) /\ dropped' \in Nat
<1>1. batch \o buffer \in Seq(Records)
    BY ConcatProperties DEF TypeOK
<1>2. /\ buffer' = Capped(batch \o buffer) /\ CountDropped(batch \o buffer)
      /\ dropped \in Nat
    BY DEF PutBack, TypeOK
<1> QED BY <1>1, <1>2, CappedIsSuffix, CountedExcess

\* A new record may push the oldest one out.
LEMMA FinishTypes ==
    ASSUME TypeOK, NEW r \in Requests, NEW answer \in Answers, Finish(r, answer),
           UNCHANGED <<keyVars, faults>>
    PROVE  /\ TypeOK'
           /\ LET added == Append(buffer, Len(finished) + 1)
              IN  buffer' = Capped(added) /\ dropped' = dropped + Excess(added)
<1> DEFINE added == Append(buffer, Len(finished) + 1)
<1>1. added \in Seq(Records') /\ batch \in Seq(Records') /\ Records \subseteq Records'
    BY FinishAdds
<1>2. buffer' = Capped(added) /\ CountDropped(added) /\ dropped \in Nat
    BY DEF Finish, TypeOK
<1>3. /\ buffer' \in Seq(Records')
      /\ dropped' = dropped + Excess(added) /\ dropped' \in Nat
    <2> HIDE DEF added
    <2> QED BY <1>1, <1>2, CappedIsSuffix, CountedExcess
<1>4. /\ finished' \in Seq([key : Keys, answer : Answers])
      /\ rows' \in [Records' -> Nat]
    BY FinishAdds
<1>5. /\ at' \in [Requests -> {"new", "limit", "handler", "answered",
                               "unauthorized", "gone"}]
      /\ UNCHANGED <<keyVars, batch, lost, faults>>
    BY DEF Finish, Goto, TypeOK
<1>6. TypeOK'
    BY <1>1, <1>3, <1>4, <1>5 DEF TypeOK, keyVars
<1> QED BY <1>2, <1>3, <1>6

\* Every step keeps the types.
LEMMA NextTypeOK == TypeOK /\ [Next]_vars => TypeOK'
<1> SUFFICES ASSUME TypeOK, [Next]_vars PROVE TypeOK'
    OBVIOUS
<1>0. /\ key \in [Keys -> {"none", "active", "revoked", "deleted"}]
      /\ making \in [Keys -> {"new", "lock", "count", "commit",
                              "shown", "full", "failed"}]
      /\ at \in [Requests -> {"new", "limit", "handler", "answered",
                              "unauthorized", "gone"}]
      /\ locks \subseteq Keys /\ faults \in 0..MaxFaults
    BY DEF TypeOK
<1>1. ASSUME NEW k \in Keys, Ask(k) \/ CreateStep(k) \/ Fail(k) \/ Revoke(k)
      PROVE  TypeOK'
    <2>1. /\ key' \in [Keys -> {"none", "active", "revoked", "deleted"}]
          /\ making' \in [Keys -> {"new", "lock", "count", "commit",
                                   "shown", "full", "failed"}]
          /\ locks' \subseteq Keys
          /\ faults' \in 0..MaxFaults
          /\ UNCHANGED <<at, usageVars>>
        BY <1>0, <1>1, GatewayAssumption
           DEF Ask, CreateStep, LockUser, Count, Commit, Fail, Revoke, Step, Fault
    <2> QED BY <2>1 DEF TypeOK, usageVars, Records
<1>2. ASSUME NEW r \in Requests,
             \/ Authenticate(r) \/ ClientGone(r)
             \/ Goto(r, "handler") /\ UNCHANGED <<keyVars, usageVars, faults>>
      PROVE  TypeOK'
    <2>1. /\ at' \in [Requests -> {"new", "limit", "handler", "answered",
                                   "unauthorized", "gone"}]
          /\ faults' \in 0..MaxFaults
          /\ UNCHANGED <<keyVars, usageVars>>
        BY <1>0, <1>2, GatewayAssumption DEF Authenticate, ClientGone, Goto, Fault
    <2> QED BY <2>1 DEF TypeOK, keyVars, usageVars, Records
<1>3. ASSUME NEW r \in Requests, NEW answer \in Answers, Finish(r, answer),
             UNCHANGED <<keyVars, faults>>
      PROVE  TypeOK'
    BY <1>3, FinishTypes
<1>4. CASE Flush \/ Flushed
    <2>1. /\ buffer' \in Seq(Records) /\ batch' \in Seq(Records)
          /\ rows' \in [Records -> Nat]
          /\ UNCHANGED <<keyVars, at, finished, dropped, lost, faults>>
        BY <1>4, EmptySeq, WrittenTypes DEF Flush, Flushed, TypeOK
    <2> QED BY <2>1 DEF TypeOK, keyVars, Records
<1>5. CASE FlushFails
    <2>1. /\ buffer' \in Seq(Records) /\ batch' \in Seq(Records)
          /\ dropped' \in Nat
        BY <1>5, EmptySeq, PutBackTypes DEF FlushFails
    <2>2. rows' \in [Records -> Nat] /\ faults' \in 0..MaxFaults
        BY <1>5, WrittenTypes, GatewayAssumption DEF FlushFails, Fault, TypeOK
    <2>3. UNCHANGED <<keyVars, at, finished, lost>>
        BY <1>5 DEF FlushFails
    <2> QED BY <2>1, <2>2, <2>3 DEF TypeOK, keyVars, Records
<1>6. CASE Crash
    <2>1. /\ key' \in [Keys -> {"none", "active", "revoked", "deleted"}]
          /\ making' \in [Keys -> {"new", "lock", "count", "commit",
                                   "shown", "full", "failed"}]
          /\ at' \in [Requests -> {"new", "limit", "handler", "answered",
                                   "unauthorized", "gone"}]
          /\ faults' \in 0..MaxFaults
        BY <1>6, GatewayAssumption DEF Crash, Fault, TypeOK
    <2>2. rows' \in [Records -> Nat] /\ lost' \subseteq Records
        BY <1>6, WrittenTypes DEF Crash, TypeOK
    <2>3. /\ buffer' \in Seq(Records) /\ batch' \in Seq(Records)
          /\ dropped' \in Nat /\ locks' \subseteq Keys /\ finished' = finished
        BY <1>6, EmptySeq DEF Crash
    <2> QED BY <2>1, <2>2, <2>3 DEF TypeOK, Records
<1>7. ASSUME NEW k \in Keys, DeleteKey(k) PROVE TypeOK'
    <2>1. /\ key' \in [Keys -> {"none", "active", "revoked", "deleted"}]
          /\ rows' \in [Records -> Nat] /\ lost' \subseteq Records
          /\ faults' \in 0..MaxFaults
          /\ UNCHANGED <<making, locks, at, finished, buffer, batch, dropped>>
        BY <1>7, GatewayAssumption DEF DeleteKey, Fault, TypeOK
    <2> QED BY <2>1 DEF TypeOK, Records
<1>8. CASE UNCHANGED vars
    BY <1>8 DEF TypeOK, vars, keyVars, usageVars, Records
<1>9. ASSUME NEW r \in Requests, RateLimited(r) \/ Handle(r)
      PROVE  \/ Goto(r, "handler") /\ UNCHANGED <<keyVars, usageVars, faults>>
             \/ UNCHANGED <<keyVars, faults>> /\ \E answer \in Answers : Finish(r, answer)
    BY <1>9 DEF RateLimited, Handle, Answers
<1> QED BY <1>1, <1>2, <1>3, <1>4, <1>5, <1>6, <1>7, <1>8, <1>9 DEF Next

\* Every variable keeps its type: what waits, was lost or has rows are records.
THEOREM TypesHold == Spec => []TypeOK
BY InitTypeOK, NextTypeOK, PTL DEF Spec

-----------------------------------------------------------------------------
(* Order and number of the records that wait.                              *)

Increasing(seq) == \A i, j \in 1..Len(seq) : i < j => seq[i] < seq[j]

\* What is left at the cap is in order, ...
LEMMA CappedIncreasing ==
    ASSUME NEW S, NEW seq \in Seq(S), Increasing(seq)
    PROVE  Increasing(Capped(seq))
<1> SUFFICES ASSUME NEW i \in 1..Len(Capped(seq)), NEW j \in 1..Len(Capped(seq)), i < j
             PROVE  Capped(seq)[i] < Capped(seq)[j]
    BY DEF Increasing
<1>1. /\ Len(seq) \in Nat /\ Len(Capped(seq)) \in Nat /\ Excess(seq) \in Nat
      /\ \A k \in 1..Len(Capped(seq)) : Capped(seq)[k] = seq[Excess(seq) + k]
    BY CappedIsSuffix
<1>2. /\ Excess(seq) + i \in 1..Len(seq) /\ Excess(seq) + j \in 1..Len(seq)
      /\ Excess(seq) + i < Excess(seq) + j
    BY <1>1 DEF Excess
<1> QED BY <1>1, <1>2 DEF Increasing

\* ... and so are two sequences in a row, if what is in the first is smaller.
LEMMA ConcatIncreasing ==
    ASSUME NEW s \in Seq(Nat), NEW t \in Seq(Nat)
    PROVE  Increasing(s \o t) <=>
                /\ Increasing(s) /\ Increasing(t)
                /\ \A a \in In(s), b \in In(t) : a < b
<1>1. /\ Len(s \o t) = Len(s) + Len(t)
      /\ \A i \in 1..(Len(s) + Len(t)) :
            (s \o t)[i] = IF i <= Len(s) THEN s[i] ELSE t[i - Len(s)]
      /\ Len(s) \in Nat /\ Len(t) \in Nat
    BY ConcatProperties, LenProperties
<1>2. DOMAIN s = 1..Len(s) /\ DOMAIN t = 1..Len(t)
    BY LenProperties
<1>3. /\ \A i \in 1..Len(s) : i \in 1..(Len(s) + Len(t)) /\ (s \o t)[i] = s[i]
      /\ \A j \in 1..Len(t) : /\ Len(s) + j \in 1..(Len(s) + Len(t))
                              /\ (s \o t)[Len(s) + j] = t[j]
    <2>1. ASSUME NEW j \in 1..Len(t)
          PROVE  /\ Len(s) + j \in 1..(Len(s) + Len(t))
                 /\ ~ (Len(s) + j <= Len(s)) /\ (Len(s) + j) - Len(s) = j
        BY <1>1
    <2> QED BY <1>1, <2>1
<1>4. ASSUME Increasing(s \o t)
      PROVE  /\ Increasing(s) /\ Increasing(t)
             /\ \A a \in In(s), b \in In(t) : a < b
    <2>1. Increasing(s)
        BY <1>1, <1>3, <1>4 DEF Increasing
    <2>2. ASSUME NEW i \in 1..Len(t), NEW j \in 1..Len(t), i < j PROVE t[i] < t[j]
        <3>1. Len(s) + i < Len(s) + j
            BY <1>1, <2>2
        <3> QED BY <1>1, <1>3, <1>4, <3>1 DEF Increasing
    <2>3. ASSUME NEW i \in 1..Len(s), NEW j \in 1..Len(t) PROVE s[i] < t[j]
        <3>1. i < Len(s) + j
            BY <1>1
        <3> QED BY <1>1, <1>3, <1>4, <3>1 DEF Increasing
    <2> QED BY <1>2, <2>1, <2>2, <2>3 DEF Increasing, In
<1>5. ASSUME Increasing(s), Increasing(t), \A a \in In(s), b \in In(t) : a < b,
             NEW i \in 1..(Len(s) + Len(t)), NEW j \in 1..(Len(s) + Len(t)), i < j
      PROVE  (s \o t)[i] < (s \o t)[j]
    <2>1. CASE j <= Len(s)
        BY <1>1, <1>5, <2>1 DEF Increasing
    <2>2. CASE i <= Len(s) /\ ~ (j <= Len(s))
        <3>1. j - Len(s) \in 1..Len(t) /\ i \in 1..Len(s)
            BY <1>1, <2>2
        <3>2. s[i] \in In(s) /\ t[j - Len(s)] \in In(t)
            BY <1>2, <3>1 DEF In
        <3> QED BY <1>1, <1>5, <2>2, <3>2
    <2>3. CASE ~ (i <= Len(s)) /\ ~ (j <= Len(s))
        <3>1. /\ i - Len(s) \in 1..Len(t) /\ j - Len(s) \in 1..Len(t)
              /\ i - Len(s) < j - Len(s)
            BY <1>1, <1>5, <2>3
        <3> QED BY <1>1, <1>5, <2>3, <3>1 DEF Increasing
    <2> QED BY <1>1, <1>5, <2>1, <2>2, <2>3
<1>6. (/\ Increasing(s) /\ Increasing(t)
       /\ \A a \in In(s), b \in In(t) : a < b) => Increasing(s \o t)
    BY <1>1, <1>5 DEF Increasing
<1> QED BY <1>4, <1>6

\* BoundedInOrder in these terms.
Ordered ==
    /\ Len(buffer) <= MaxBuffered /\ Len(batch) <= MaxBuffered
    /\ Increasing(batch) /\ Increasing(buffer)
    /\ \A a \in In(batch), b \in In(buffer) : a < b

LEMMA OrderMeans ==
    TypeOK => /\ batch \in Seq(Nat) /\ buffer \in Seq(Nat)
              /\ BoundedInOrder <=> Ordered
<1> SUFFICES ASSUME TypeOK
             PROVE  /\ batch \in Seq(Nat) /\ buffer \in Seq(Nat)
                    /\ BoundedInOrder <=> Ordered
    OBVIOUS
<1>1. Records \subseteq Nat
    BY RecordNumbers
<1>2. batch \in Seq(Nat) /\ buffer \in Seq(Nat)
    BY <1>1, SeqMonotonic DEF TypeOK
<1> QED BY <1>2, ConcatIncreasing DEF BoundedInOrder, Increasing, Ordered

LEMMA OrderMeansNext == TypeOK' => (BoundedInOrder' <=> Ordered')
BY OrderMeans, PTL

-----------------------------------------------------------------------------
(* The records that are nowhere.                                           *)

Missing == {i \in Records : rows[i] = 0 /\ i \notin Waiting \union lost}

LEMMA MissingFinite ==
    ASSUME TypeOK
    PROVE  IsFiniteSet(Missing) /\ Cardinality(Missing) \in Nat
<1>1. IsFiniteSet(Records)
    BY RecordNumbers, FS_Interval
<1>2. Missing \in SUBSET Records
    BY DEF Missing
<1> QED BY <1>1, <1>2, FS_Subset, FS_CardinalityType

\* No more than n things have the numbers 1..n.
LEMMA NumberedThings ==
    ASSUME NEW f, NEW n \in Nat
    PROVE  LET things == {f[i] : i \in 1..n}
           IN  IsFiniteSet(things) /\ Cardinality(things) \in Nat /\ Cardinality(things) <= n
<1> DEFINE things == {f[i] : i \in 1..n}
           g == [i \in 1..n |-> f[i]]
<1>1. g \in Surjection(1..n, things)
    BY DEF Surjection
<1>2. IsFiniteSet(1..n) /\ Cardinality(1..n) = n
    BY FS_Interval
<1> HIDE DEF things, g
<1>3. IsFiniteSet(things) /\ Cardinality(things) <= Cardinality(1..n)
    BY <1>1, <1>2, FS_Surjection
<1>4. Cardinality(things) \in Nat
    BY <1>3, FS_CardinalityType
<1> QED BY <1>2, <1>3, <1>4 DEF things

\* Dropped records are counted one by one.
LEMMA MissingCounted ==
    ASSUME TypeOK, TypeOK', DroppedAreCounted, NEW f, NEW n \in Nat,
           Missing' \subseteq Missing \union {f[i] : i \in 1..n},
           dropped' = dropped + n
    PROVE  DroppedAreCounted'
<1> DEFINE things == {f[i] : i \in 1..n}
<1>1. IsFiniteSet(things) /\ Cardinality(things) \in Nat /\ Cardinality(things) <= n
    BY NumberedThings
<1>2. IsFiniteSet(Missing) /\ Cardinality(Missing) \in Nat
    BY MissingFinite
<1> DEFINE both == Missing \union things
<1>3. /\ IsFiniteSet(both)
      /\ Cardinality(both) = Cardinality(Missing) + Cardinality(things)
                                - Cardinality(Missing \intersect things)
    <2> HIDE DEF things
    <2> QED BY <1>1, <1>2, FS_Union
<1>4. Cardinality(Missing \intersect things) \in Nat
    <2> HIDE DEF things
    <2> QED BY <1>2, FS_Intersection, FS_CardinalityType
<1>5. Missing' \in SUBSET both
    OBVIOUS
<1>6. /\ IsFiniteSet(Missing') /\ Cardinality(Missing') <= Cardinality(both)
      /\ Cardinality(Missing') \in Nat /\ Cardinality(both) \in Nat
    <2> HIDE DEF both
    <2> QED BY <1>3, <1>5, FS_Subset, FS_CardinalityType
<1>7. Cardinality(Missing) <= dropped /\ dropped \in Nat
    BY DEF DroppedAreCounted, Missing, TypeOK
<1>8. Cardinality(Missing') <= dropped'
    <2> HIDE DEF things, both
    <2> QED BY <1>1, <1>2, <1>3, <1>4, <1>6, <1>7
<1> QED BY <1>8 DEF DroppedAreCounted, Missing

-----------------------------------------------------------------------------
(* The ledger: an invariant of all that becomes of a record.               *)

\* As long as nothing goes wrong and nothing is dropped, a record is stored
\* once, or waits.
NothingAmiss ==
    (faults = 0 /\ dropped = 0) =>
        /\ \A i \in Records : rows[i] = IF i \in Waiting THEN 0 ELSE 1
        /\ \A k \in Keys : key[k] # "deleted"

LedgerInv == TypeOK /\ BoundedInOrder /\ DroppedAreCounted /\ NothingAmiss

\* The ledger is empty at first.
LEMMA InitLedger == Init => LedgerInv
<1> SUFFICES ASSUME Init PROVE LedgerInv
    OBVIOUS
<1>1. TypeOK /\ Records = {}
    BY InitTypeOK DEF Init, Records
<1>2. BoundedInOrder
    BY <1>1, OrderMeans, GatewayAssumption DEF Init, Increasing, In, Ordered
<1>3. Cardinality({i \in Records : rows[i] = 0 /\ i \notin Waiting \union lost}) = 0
    BY <1>1, FS_EmptySet
<1>4. DroppedAreCounted
    BY <1>3 DEF Init, DroppedAreCounted
<1> QED BY <1>1, <1>2, <1>4 DEF LedgerInv, NothingAmiss, Init

\* A step that neither touches records nor deletes a key.
LEMMA QuietLedger ==
    ASSUME LedgerInv, TypeOK', UNCHANGED usageVars, faults' >= faults,
           \A k \in Keys : key'[k] = "deleted" => key[k] = "deleted"
    PROVE  LedgerInv'
<1>1. /\ Records' = Records /\ Waiting' = Waiting
      /\ BoundedInOrder' = BoundedInOrder /\ DroppedAreCounted' = DroppedAreCounted
    BY DEF usageVars, Records, Waiting, In, BoundedInOrder, DroppedAreCounted
<1>2. faults' = 0 => faults = 0
    BY GatewayAssumption DEF LedgerInv, TypeOK
<1>3. NothingAmiss'
    BY <1>1, <1>2 DEF LedgerInv, NothingAmiss, usageVars
<1> QED BY <1>1, <1>3 DEF LedgerInv

\* A request ends.
LEMMA FinishLedger ==
    ASSUME LedgerInv, NEW r \in Requests, NEW answer \in Answers, Finish(r, answer),
           UNCHANGED <<keyVars, faults>>
    PROVE  LedgerInv'
<1> DEFINE n == Len(finished) + 1
           added == Append(buffer, n)
<1>1. TypeOK
    BY DEF LedgerInv
<1>2. /\ TypeOK' /\ buffer' = Capped(added) /\ dropped' = dropped + Excess(added)
      /\ batch' = batch /\ lost' = lost
    BY <1>1, FinishTypes DEF Finish
<1>3. /\ n \notin Records /\ Records' = Records \union {n}
      /\ rows'[n] = 0 /\ \A i \in Records : rows'[i] = rows[i]
      /\ added \in Seq(Records') /\ In(added) = In(buffer) \union {n}
    BY <1>1, FinishAdds
<1>4. Records = 1..Len(finished) /\ Len(finished) \in Nat
    BY <1>1, RecordNumbers
<1>5. n \in Nat /\ (\A i \in Records : i < n) /\ Records' \subseteq Nat
    BY <1>3, <1>4
<1>6. /\ In(Capped(added)) \subseteq In(added)
      /\ In(added) \subseteq In(Capped(added)) \union {added[i] : i \in 1..Excess(added)}
      /\ Excess(added) \in Nat /\ Len(Capped(added)) <= MaxBuffered
    <2> HIDE DEF added
    <2> QED BY <1>3, CappedElements, CappedIsSuffix
<1>7. In(batch) \subseteq Records /\ In(buffer) \subseteq Records
    BY <1>1, ElementOfSeq, LenProperties DEF TypeOK, In
<1>8. BoundedInOrder'
    <2>1. /\ batch \in Seq(Nat) /\ buffer \in Seq(Nat)
          /\ Len(batch) <= MaxBuffered
          /\ Increasing(batch) /\ Increasing(buffer)
          /\ \A a \in In(batch), b \in In(buffer) : a < b
        BY <1>1, OrderMeans DEF LedgerInv, Ordered
    <2>2. added = buffer \o <<n>> /\ <<n>> \in Seq(Nat)
        BY <1>5, <2>1, AppendIsConcat
    <2>3. Increasing(<<n>>) /\ In(<<n>>) = {n}
        BY DEF Increasing, In
    <2>4. Increasing(added)
        <3>1. \A a \in In(buffer), b \in In(<<n>>) : a < b
            BY <1>5, <1>7, <2>3
        <3>2. Increasing(buffer \o <<n>>)
            BY <2>1, <2>2, <2>3, <3>1, ConcatIncreasing
        <3> QED BY <2>2, <3>2
    <2>5. Increasing(Capped(added))
        <3> HIDE DEF added
        <3> QED BY <1>3, <2>4, CappedIncreasing
    <2>6. \A a \in In(batch), b \in In(added) : a < b
        BY <1>3, <1>5, <1>7, <2>1
    <2>7. Ordered'
        BY <1>2, <1>6, <2>1, <2>5, <2>6 DEF Ordered
    <2> QED BY <1>2, <2>7, OrderMeansNext
<1>9. DroppedAreCounted'
    <2>1. Missing' \subseteq Missing \union {added[i] : i \in 1..Excess(added)}
        <3> SUFFICES ASSUME NEW i \in Missing', i \notin {added[j] : j \in 1..Excess(added)}
                     PROVE  i \in Missing
            OBVIOUS
        <3>1. /\ i \in Records' /\ rows'[i] = 0
              /\ i \notin In(batch) /\ i \notin In(Capped(added)) /\ i \notin lost
            BY <1>2 DEF Missing, Waiting
        <3>2. i \notin In(added)
            BY <1>6, <3>1
        <3> QED BY <1>3, <3>1, <3>2 DEF Missing, Waiting
    <2> HIDE DEF added
    <2> QED BY <1>1, <1>2, <1>6, <2>1, MissingCounted DEF LedgerInv
<1>10. NothingAmiss'
    <2> SUFFICES ASSUME faults' = 0, dropped' = 0
                 PROVE  /\ \A i \in Records' : rows'[i] = IF i \in Waiting' THEN 0 ELSE 1
                        /\ \A k \in Keys : key'[k] # "deleted"
        BY DEF NothingAmiss
    <2>1. dropped = 0 /\ Excess(added) = 0
        <3> HIDE DEF added
        <3> QED BY <1>1, <1>2, <1>6 DEF TypeOK
    <2>2. In(Capped(added)) = In(added)
        <3>1. 1..Excess(added) = {}
            BY <2>1
        <3> QED BY <1>6, <3>1
    <2>3. Waiting' = Waiting \union {n}
        BY <1>2, <1>3, <2>2 DEF Waiting
    <2>4. /\ \A i \in Records : rows[i] = IF i \in Waiting THEN 0 ELSE 1
          /\ \A k \in Keys : key[k] # "deleted"
        BY <2>1 DEF LedgerInv, NothingAmiss
    <2> QED BY <1>3, <2>3, <2>4 DEF keyVars
<1> QED BY <1>2, <1>8, <1>9, <1>10 DEF LedgerInv

\* A step that lets no record go missing.
LEMMA NoneMissing ==
    ASSUME TypeOK, TypeOK', DroppedAreCounted, Missing' \subseteq Missing, dropped' = dropped
    PROVE  DroppedAreCounted'
<1> DEFINE none == [i \in Nat |-> i]
<1>1. Missing' \subseteq Missing \union {none[i] : i \in 1..0} /\ dropped' = dropped + 0
    BY DEF TypeOK
<1> HIDE DEF none
<1> QED BY <1>1, MissingCounted

\* What waits are records, and what is put back is in order.
LEMMA WaitingOrdered ==
    ASSUME LedgerInv
    PROVE  /\ In(batch) \subseteq Records /\ In(buffer) \subseteq Records
           /\ batch \in Seq(Nat) /\ buffer \in Seq(Nat)
           /\ Ordered /\ Increasing(batch \o buffer)
           /\ In(batch \o buffer) = Waiting
           /\ In(batch) \intersect In(buffer) = {}
           /\ \A i \in Waiting : KeyOfRecord(i) \in Keys
<1>1. TypeOK /\ BoundedInOrder
    BY DEF LedgerInv
<1>2. In(batch) \subseteq Records /\ In(buffer) \subseteq Records
    BY <1>1, ElementOfSeq, LenProperties DEF TypeOK, In
<1>3. batch \in Seq(Nat) /\ buffer \in Seq(Nat) /\ Ordered
    BY <1>1, OrderMeans
<1>4. Increasing(batch \o buffer) /\ In(batch \o buffer) = Waiting
    BY <1>3, ConcatIncreasing, InOfConcat DEF Ordered, Waiting
<1>5. In(batch) \intersect In(buffer) = {}
    <2>1. Records \subseteq Nat
        BY <1>1, RecordNumbers
    <2>2. ASSUME NEW i \in Nat, i \in In(batch), i \in In(buffer) PROVE FALSE
        <3>1. i < i
            BY <1>3, <2>2 DEF Ordered
        <3> QED BY <3>1
    <2> QED BY <1>2, <2>1, <2>2
<1>6. \A i \in Waiting : KeyOfRecord(i) \in Keys
    BY <1>1, <1>2, RecordNumbers DEF KeyOfRecord, Waiting
<1> QED BY <1>2, <1>3, <1>4, <1>5, <1>6

\* Nothing is in an empty sequence.
LEMMA EmptyIn == In(<<>>) = {} /\ Increasing(<<>>) /\ Len(<<>>) = 0
BY DEF In, Increasing

\* The flush begins.
LEMMA FlushLedger ==
    ASSUME LedgerInv, TypeOK', Flush
    PROVE  LedgerInv'
<1>1. /\ batch = <<>> /\ batch' = buffer /\ buffer' = <<>>
      /\ UNCHANGED <<key, finished, rows, dropped, lost, faults>>
    BY DEF Flush, keyVars
<1>2. Waiting' = Waiting /\ Records' = Records
    BY <1>1, EmptyIn DEF Waiting, Records, In
<1>3. Ordered'
    BY <1>1, EmptyIn, WaitingOrdered, GatewayAssumption DEF Ordered, Increasing, In
<1>4. BoundedInOrder'
    BY <1>3, OrderMeansNext
<1>5. DroppedAreCounted' /\ NothingAmiss'
    BY <1>1, <1>2 DEF LedgerInv, DroppedAreCounted, NothingAmiss
<1> QED BY <1>4, <1>5 DEF LedgerInv

\* The flush ends.
LEMMA FlushedLedger ==
    ASSUME LedgerInv, TypeOK', Flushed
    PROVE  LedgerInv'
<1>1. /\ batch' = <<>> /\ rows' = Written
      /\ UNCHANGED <<key, finished, buffer, dropped, lost, faults>>
    BY DEF Flushed, keyVars
<1>2. Waiting' = In(buffer) /\ Records' = Records /\ In(buffer)' = In(buffer)
    BY <1>1, EmptyIn DEF Waiting, Records, In
<1>3. rows \in [Records -> Nat]
    BY RecordNumbers DEF LedgerInv
<1>4. \A i \in Records : rows'[i] = IF i \in In(batch) THEN rows[i] + 1 ELSE rows[i]
    BY <1>1 DEF Written
<1>5. Ordered'
    BY <1>1, EmptyIn, WaitingOrdered, GatewayAssumption DEF Ordered, Increasing, In
<1>6. BoundedInOrder'
    BY <1>5, OrderMeansNext
<1>7. Missing' \subseteq Missing
    <2> SUFFICES ASSUME NEW i \in Missing' PROVE i \in Missing
        OBVIOUS
    <2>1. i \in Records /\ rows'[i] = 0 /\ i \notin In(buffer) /\ i \notin lost
        BY <1>1, <1>2 DEF Missing
    <2>2. i \notin In(batch) /\ rows[i] = 0
        BY <1>3, <1>4, <2>1
    <2> QED BY <2>1, <2>2 DEF Missing, Waiting
<1>8. DroppedAreCounted'
    BY <1>1, <1>7, NoneMissing DEF LedgerInv
<1>9. NothingAmiss'
    <2> SUFFICES ASSUME faults = 0, dropped = 0
                 PROVE  /\ \A i \in Records : rows'[i] = IF i \in In(buffer) THEN 0 ELSE 1
                        /\ \A k \in Keys : key[k] # "deleted"
        BY <1>1, <1>2 DEF NothingAmiss
    <2>1. /\ \A i \in Records : rows[i] = IF i \in Waiting THEN 0 ELSE 1
          /\ \A k \in Keys : key[k] # "deleted"
        BY DEF LedgerInv, NothingAmiss
    <2>2. ASSUME NEW i \in Records
          PROVE  rows'[i] = IF i \in In(buffer) THEN 0 ELSE 1
        BY <1>4, <2>1, WaitingOrdered DEF Waiting
    <2> QED BY <2>1, <2>2
<1> QED BY <1>6, <1>8, <1>9 DEF LedgerInv

\* The flush fails: what does not fit any more is counted.
LEMMA FlushFailsLedger ==
    ASSUME LedgerInv, TypeOK', FlushFails
    PROVE  LedgerInv'
<1> DEFINE both == batch \o buffer
<1>1. /\ TypeOK /\ PutBack /\ batch' = <<>> /\ Records' = Records
      /\ UNCHANGED <<key, finished, lost>>
    BY DEF LedgerInv, FlushFails, keyVars, Records
<1>2. /\ both \in Seq(Records) /\ Len(buffer') <= MaxBuffered
      /\ buffer' = Capped(both) /\ dropped' = dropped + Excess(both)
    BY <1>1, PutBackTypes DEF PutBack
<1>3. /\ In(Capped(both)) \subseteq Waiting
      /\ Waiting \subseteq In(Capped(both)) \union {both[i] : i \in 1..Excess(both)}
      /\ Excess(both) \in Nat
    <2>1. In(both) = Waiting
        BY WaitingOrdered
    <2> HIDE DEF both
    <2> QED BY <1>2, <2>1, CappedElements, CappedIsSuffix
<1>4. Waiting' = In(Capped(both)) /\ In(buffer)' = In(Capped(both)) /\ In(batch)' = {}
    BY <1>1, <1>2, EmptyIn DEF Waiting, In
<1>5. BoundedInOrder'
    <2>1. Increasing(both)
        BY WaitingOrdered
    <2>2. Increasing(Capped(both))
        <3> HIDE DEF both
        <3> QED BY <1>2, <2>1, CappedIncreasing
    <2>3. Increasing(batch)' /\ Increasing(buffer)'
        BY <1>1, <1>2, <2>2, EmptyIn DEF Increasing
    <2>4. Ordered'
        BY <1>1, <1>2, <1>4, <2>3, EmptyIn, GatewayAssumption DEF Ordered
    <2> QED BY <2>4, OrderMeansNext
<1>6. rows' = rows \/ rows' = Written
    BY DEF FlushFails
<1>7. \A i \in Records : rows'[i] = 0 => rows[i] = 0
    BY <1>1, <1>6, RecordNumbers DEF Written
<1>8. DroppedAreCounted'
    <2>1. Missing' \subseteq Missing \union {both[i] : i \in 1..Excess(both)}
        <3> SUFFICES ASSUME NEW i \in Missing', i \notin {both[j] : j \in 1..Excess(both)}
                     PROVE  i \in Missing
            OBVIOUS
        <3>1. i \in Records /\ rows'[i] = 0 /\ i \notin In(Capped(both)) /\ i \notin lost
            BY <1>1, <1>4 DEF Missing
        <3>2. i \notin Waiting /\ rows[i] = 0
            BY <1>3, <1>7, <3>1
        <3> QED BY <3>1, <3>2 DEF Missing
    <2> HIDE DEF both
    <2> QED BY <1>1, <1>2, <1>3, <2>1, MissingCounted DEF LedgerInv
<1>9. ~ (faults' = 0 /\ dropped' = 0)
    <2> SUFFICES ASSUME faults' = 0, dropped' = 0 PROVE FALSE
        OBVIOUS
    <2>1. faults \in Nat /\ dropped \in Nat
        BY <1>1, GatewayAssumption DEF TypeOK
    <2>2. dropped = 0
        <3> HIDE DEF both
        <3> QED BY <1>2, <1>3, <2>1
    <2>3. ~ Writable /\ faults = 0
        BY <2>1 DEF FlushFails, Fault
    <2>4. \E i \in In(batch) : key[KeyOfRecord(i)] = "deleted"
        BY <2>3 DEF Writable
    <2> QED BY <2>2, <2>3, <2>4, WaitingOrdered DEF LedgerInv, NothingAmiss, Waiting
<1> QED BY <1>5, <1>8, <1>9 DEF LedgerInv, NothingAmiss

\* The process dies: what it had not stored is lost, all of it.
LEMMA CrashLedger ==
    ASSUME LedgerInv, TypeOK', Crash
    PROVE  LedgerInv'
<1>1. /\ batch' = <<>> /\ buffer' = <<>> /\ dropped' = 0 /\ finished' = finished
      /\ lost' = lost \union {i \in Records : rows'[i] = 0}
      /\ faults' = faults + 1
    BY DEF Crash, Fault
<1>2. Ordered'
    BY <1>1, EmptyIn, GatewayAssumption DEF Ordered, Increasing, In
<1>3. BoundedInOrder'
    BY <1>2, OrderMeansNext
<1>4. {i \in Records' : rows'[i] = 0 /\ i \notin (Waiting \union lost)'} = {}
    BY <1>1 DEF Records
<1>5. DroppedAreCounted'
    BY <1>1, <1>4, FS_EmptySet DEF DroppedAreCounted
<1>6. faults' # 0
    BY <1>1, GatewayAssumption DEF LedgerInv, TypeOK
<1> QED BY <1>3, <1>5, <1>6 DEF LedgerInv, NothingAmiss

\* A key is deleted: its rows are lost.
LEMMA DeleteLedger ==
    ASSUME LedgerInv, TypeOK', NEW k \in Keys, DeleteKey(k)
    PROVE  LedgerInv'
<1> DEFINE theirs == {i \in Records : KeyOfRecord(i) = k /\ rows[i] > 0}
<1>1. /\ rows' = [i \in Records |-> IF i \in theirs THEN 0 ELSE rows[i]]
      /\ lost' = lost \union theirs
      /\ faults' = faults + 1
      /\ UNCHANGED <<finished, buffer, batch, dropped>>
    BY DEF DeleteKey, Fault
<1>2. Records' = Records /\ Waiting' = Waiting /\ BoundedInOrder' = BoundedInOrder
    BY <1>1 DEF Records, Waiting, In, BoundedInOrder
<1>3. Missing' \subseteq Missing
    BY <1>1, <1>2 DEF Missing
<1>4. DroppedAreCounted'
    BY <1>1, <1>3, NoneMissing DEF LedgerInv
<1>5. faults' # 0
    BY <1>1, GatewayAssumption DEF LedgerInv, TypeOK
<1> QED BY <1>2, <1>4, <1>5 DEF LedgerInv, NothingAmiss

\* Every step keeps the ledger.
LEMMA NextLedger == LedgerInv /\ [Next]_vars => LedgerInv'
<1> SUFFICES ASSUME LedgerInv, [Next]_vars PROVE LedgerInv'
    OBVIOUS
<1>1. TypeOK' /\ TypeOK
    BY NextTypeOK DEF LedgerInv
<1>2. faults \in Nat
    BY <1>1, GatewayAssumption DEF TypeOK
<1>3. ASSUME NEW k \in Keys, Ask(k) \/ CreateStep(k) \/ Fail(k) \/ Revoke(k)
      PROVE  LedgerInv'
    <2>1. /\ UNCHANGED usageVars /\ faults' >= faults
          /\ \A j \in Keys : key'[j] = "deleted" => key[j] = "deleted"
        BY <1>1, <1>2, <1>3
           DEF Ask, CreateStep, LockUser, Count, Commit, Fail, Revoke, Step, Fault, TypeOK
    <2> QED BY <1>1, <2>1, QuietLedger
<1>4. ASSUME NEW r \in Requests,
             \/ Authenticate(r) \/ ClientGone(r)
             \/ Goto(r, "handler") /\ UNCHANGED <<keyVars, usageVars, faults>>
      PROVE  LedgerInv'
    <2>1. UNCHANGED usageVars /\ faults' >= faults /\ key' = key
        BY <1>2, <1>4 DEF Authenticate, ClientGone, Fault, keyVars
    <2> QED BY <1>1, <2>1, QuietLedger
<1>5. ASSUME NEW r \in Requests, RateLimited(r) \/ Handle(r)
      PROVE  LedgerInv'
    <2>1. \/ Goto(r, "handler") /\ UNCHANGED <<keyVars, usageVars, faults>>
          \/ UNCHANGED <<keyVars, faults>> /\ \E answer \in Answers : Finish(r, answer)
        BY <1>5 DEF RateLimited, Handle, Answers
    <2> QED BY <1>4, <2>1, FinishLedger
<1>6. CASE UNCHANGED vars
    BY <1>1, <1>2, <1>6, QuietLedger DEF vars, keyVars
<1> QED BY <1>1, <1>3, <1>4, <1>5, <1>6, FlushLedger, FlushedLedger, FlushFailsLedger,
           CrashLedger, DeleteLedger DEF Next

\* No record disappears unnoticed: one that is neither stored nor waiting was
\* lost with a process or with the row of its key, or is among those that the
\* buffer has counted as dropped, however many flushes fail and whatever the
\* INSERT of a failed flush has done.
THEOREM DroppedIsCounted == Spec => []DroppedAreCounted
BY InitLedger, NextLedger, PTL DEF Spec, LedgerInv

\* What waits is in the order in which the requests finished and bounded by the
\* cap, with batches put back in front of newer records any number of times.
THEOREM WaitsInOrder == Spec => []BoundedInOrder
BY InitLedger, NextLedger, PTL DEF Spec, LedgerInv

-----------------------------------------------------------------------------
(* The roll-up.                                                            *)

\* The records of k that were answered so.
Theirs(k, answers) == {i \in Records : KeyOfRecord(i) = k /\ finished[i].answer \in answers}

LEMMA TheirsFinite ==
    ASSUME TypeOK, NEW k, NEW answers
    PROVE  IsFiniteSet(Theirs(k, answers)) /\ Cardinality(Theirs(k, answers)) \in Nat
<1>1. IsFiniteSet(Records)
    BY RecordNumbers, FS_Interval
<1>2. Theirs(k, answers) \in SUBSET Records
    BY DEF Theirs
<1> QED BY <1>1, <1>2, FS_Subset, FS_CardinalityType

\* Where every record has one row, rows are as many as records.
LEMMA OneRowEach ==
    ASSUME TypeOK, \A i \in Records : rows[i] = 1, NEW k, NEW answers
    PROVE  Cardinality(Tally(k, answers)) = AnswersTo(k, answers)
<1> DEFINE them == Theirs(k, answers)
           tally == Tally(k, answers)
           f == [i \in them |-> <<i, 1>>]
<1>1. 1 \in 1..(MaxFaults + 1)
    BY GatewayAssumption
<1>2. ASSUME NEW t \in tally PROVE t = <<t[1], 1>> /\ t[1] \in them
    <2>1. /\ t \in Records \X (1..(MaxFaults + 1))
          /\ KeyOfRecord(t[1]) = k /\ t[2] <= rows[t[1]] /\ finished[t[1]].answer \in answers
        BY DEF Tally
    <2>2. t = <<t[1], t[2]>> /\ t[1] \in Records /\ t[2] \in 1..(MaxFaults + 1)
        BY <2>1
    <2>3. t[2] = 1
        BY <2>1, <2>2, GatewayAssumption
    <2> QED BY <2>1, <2>2, <2>3 DEF Theirs
<1>3. ASSUME NEW i \in them PROVE <<i, 1>> \in tally
    <2>1. <<i, 1>> \in Records \X (1..(MaxFaults + 1))
        BY <1>1 DEF Theirs
    <2>2. <<i, 1>>[1] = i /\ <<i, 1>>[2] = 1 /\ rows[i] = 1 /\ i \in Records
        BY DEF Theirs
    <2> QED BY <2>1, <2>2 DEF Tally, Theirs
<1>4. f \in Injection(them, tally)
    <2>1. f \in [them -> tally]
        BY <1>3
    <2>2. ASSUME NEW i \in them, NEW j \in them, f[i] = f[j] PROVE i = j
        BY <2>2
    <2> QED BY <2>1, <2>2 DEF Injection, IsInjective
<1>5. f \in Surjection(them, tally)
    <2>1. ASSUME NEW t \in tally PROVE \E i \in them : f[i] = t
        BY <1>2
    <2> QED BY <1>3, <2>1 DEF Surjection
<1>6. ExistsBijection(them, tally)
    BY <1>4, <1>5 DEF Bijection, ExistsBijection
<1> HIDE DEF f, tally
<1>7. Cardinality(tally) = Cardinality(them)
    BY <1>6, TheirsFinite, FS_Bijection
<1> QED BY <1>7 DEF tally, Theirs, AnswersTo

\* Once nothing waits, and if nothing failed and nothing was dropped, the roll-up
\* of a key counts each request of its programs once, in the column of its
\* answer, for any number of keys and requests and any interleaving of flushes.
THEOREM RollUpIsTrue == Spec => []UsageIsTrue
<1>1. LedgerInv => UsageIsTrue
    <2> SUFFICES ASSUME LedgerInv, faults = 0, dropped = 0, Waiting = {}, NEW k \in Keys
                 PROVE  /\ UsageOf(k).requests = AnswersTo(k, Answers)
                        /\ UsageOf(k).created = AnswersTo(k, {"created"})
                        /\ UsageOf(k).throttled + UsageOf(k).errors
                                = AnswersTo(k, {"throttled", "error"})
        BY DEF UsageIsTrue
    <2>1. TypeOK /\ \A i \in Records : rows[i] = 1
        BY DEF LedgerInv, NothingAmiss
    <2>2. \A answers : Cardinality(Tally(k, answers)) = AnswersTo(k, answers)
        BY <2>1, OneRowEach
    <2>3. AnswersTo(k, {"throttled"}) + AnswersTo(k, {"error"})
            = AnswersTo(k, {"throttled", "error"})
        <3> DEFINE S == Theirs(k, {"throttled"})
                   T == Theirs(k, {"error"})
        <3>1. /\ S \union T = Theirs(k, {"throttled", "error"})
              /\ S \intersect T = {}
            BY DEF Theirs
        <3>2. /\ IsFiniteSet(S) /\ Cardinality(S) \in Nat
              /\ IsFiniteSet(T) /\ Cardinality(T) \in Nat
            BY <2>1, TheirsFinite
        <3>3. /\ AnswersTo(k, {"throttled"}) = Cardinality(S)
              /\ AnswersTo(k, {"error"}) = Cardinality(T)
              /\ AnswersTo(k, {"throttled", "error"}) = Cardinality(S \union T)
            BY <3>1 DEF Theirs, AnswersTo
        <3> HIDE DEF S, T
        <3>4. Cardinality(S \union T)
                = Cardinality(S) + Cardinality(T) - Cardinality(S \intersect T)
            BY <3>2, FS_Union
        <3>5. Cardinality(S \intersect T) = 0
            BY <3>1, FS_EmptySet
        <3> QED BY <3>2, <3>3, <3>4, <3>5
    <2> QED BY <2>2, <2>3 DEF UsageOf
<1> QED BY <1>1, InitLedger, NextLedger, PTL DEF Spec

-----------------------------------------------------------------------------
(* Creations that have ended.                                              *)

\* Locks are held by transactions under way, and a key has a row only when its
\* transaction is over.
EndedInv ==
    /\ TypeOK
    /\ \A k \in locks : making[k] \in {"count", "commit"}
    /\ \A k \in Keys : key[k] # "none" => making[k] \in {"shown", "failed"}

LEMMA InitEnded == Init => EndedInv
BY InitTypeOK DEF Init, EndedInv

LEMMA NextEnded == EndedInv /\ [Next]_vars => EndedInv'
<1> SUFFICES ASSUME EndedInv, [Next]_vars PROVE EndedInv'
    OBVIOUS
<1>1. TypeOK /\ TypeOK'
    BY NextTypeOK DEF EndedInv
<1>2. ASSUME NEW k \in Keys, Ask(k) \/ CreateStep(k) \/ Fail(k) \/ Revoke(k) \/ DeleteKey(k)
      PROVE  EndedInv'
    <2>1. /\ key \in [Keys -> {"none", "active", "revoked", "deleted"}]
          /\ making \in [Keys -> {"new", "lock", "count", "commit",
                                  "shown", "full", "failed"}]
          /\ locks \subseteq Keys
          /\ \A j \in locks : making[j] \in {"count", "commit"}
          /\ \A j \in Keys : key[j] # "none" => making[j] \in {"shown", "failed"}
        BY <1>1 DEF EndedInv, TypeOK
    <2>2. ASSUME NEW j \in locks' PROVE making'[j] \in {"count", "commit"}
        BY <1>2, <2>1, <2>2
           DEF Ask, CreateStep, LockUser, Count, Commit, Fail, Revoke, DeleteKey, Step
    <2>3. ASSUME NEW j \in Keys, key'[j] # "none" PROVE making'[j] \in {"shown", "failed"}
        BY <1>2, <2>1, <2>3
           DEF Ask, CreateStep, LockUser, Count, Commit, Fail, Revoke, DeleteKey, Step
    <2> QED BY <1>1, <2>2, <2>3 DEF EndedInv
<1>3. CASE UNCHANGED keyVars
    BY <1>1, <1>3 DEF keyVars, EndedInv
<1>4. CASE Crash
    <2>1. PICK done \in SUBSET {k \in Keys : making[k] = "commit"} :
            key' = [k \in Keys |-> IF k \in done THEN "active" ELSE key[k]]
        BY <1>4 DEF Crash
    <2>2. /\ making' = [k \in Keys |-> IF making[k] \in {"lock", "count", "commit"}
                                       THEN "failed" ELSE making[k]]
          /\ locks' = {}
        BY <1>4 DEF Crash
    <2> QED BY <1>1, <2>1, <2>2 DEF EndedInv
<1>5. ASSUME NEW r \in Requests,
             Authenticate(r) \/ RateLimited(r) \/ Handle(r) \/ ClientGone(r)
      PROVE  UNCHANGED keyVars
    BY <1>5 DEF Authenticate, RateLimited, Handle, ClientGone
<1>6. CASE Flush \/ Flushed \/ FlushFails
    BY <1>3, <1>6 DEF Flush, Flushed, FlushFails
<1> QED BY <1>2, <1>3, <1>4, <1>5, <1>6 DEF Next, vars

\* No creation leaves the row lock of its account behind, whatever became of it:
\* the safe part of EveryCreationAnswered, for any number of creations.
THEOREM NoLockLeft == Spec => [](\A k \in locks : making[k] \in {"count", "commit"})
BY InitEnded, NextEnded, PTL DEF Spec, EndedInv

\* A key that was revoked, or whose row was deleted, is never active again, also
\* when the process dies and a COMMIT it had sent is carried out after its death.
THEOREM RevokedForGood ==
    Spec => [][\A k \in Keys : key[k] \in {"revoked", "deleted"} =>
                                    key'[k] \in {"revoked", "deleted"}]_vars
<1>1. ASSUME EndedInv, Next, NEW k \in Keys, key[k] \in {"revoked", "deleted"}
      PROVE  key'[k] \in {"revoked", "deleted"}
    <2>1. key \in [Keys -> {"none", "active", "revoked", "deleted"}]
        BY <1>1 DEF EndedInv, TypeOK
    <2>2. making[k] \in {"shown", "failed"}
        BY <1>1 DEF EndedInv
    <2>3. CASE \E j \in Keys :
                Ask(j) \/ CreateStep(j) \/ Fail(j) \/ Revoke(j) \/ DeleteKey(j)
        BY <1>1, <2>1, <2>2, <2>3
           DEF Ask, CreateStep, LockUser, Count, Commit, Fail, Revoke, DeleteKey
    <2>4. CASE Crash
        BY <1>1, <2>2, <2>4 DEF Crash
    <2>5. CASE UNCHANGED key
        BY <1>1, <2>5
    <2>6. ASSUME NEW r \in Requests,
                 Authenticate(r) \/ RateLimited(r) \/ Handle(r) \/ ClientGone(r)
          PROVE  UNCHANGED key
        BY <2>6 DEF Authenticate, RateLimited, Handle, ClientGone, keyVars
    <2>7. CASE Flush \/ Flushed \/ FlushFails
        BY <2>5, <2>7 DEF Flush, Flushed, FlushFails, keyVars
    <2> QED BY <1>1, <2>3, <2>4, <2>5, <2>6, <2>7 DEF Next
<1>2. EndedInv /\ [Next]_vars =>
        [\A k \in Keys : key[k] \in {"revoked", "deleted"} =>
                                key'[k] \in {"revoked", "deleted"}]_vars
    BY <1>1
<1> QED BY <1>2, InitEnded, NextEnded, PTL DEF Spec

=============================================================================
