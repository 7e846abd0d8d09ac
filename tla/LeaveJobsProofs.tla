-------------------------- MODULE LeaveJobsProofs --------------------------
(***************************************************************************)
(* Theorems about what the leave services do by timers: LeaveOutbox, for   *)
(* every set of processes, handlers and limits and every finite set of     *)
(* notices; GovernmentJobs, for every set of policies, every finite staff  *)
(* and every length of years, fortnights, catch-ups and pages; LegacyLeave *)
(* for any accrual runs at once, leave types, rates, caps and resets, and  *)
(* every finite staff and set of applications.                             *)
(***************************************************************************)
EXTENDS LeaveOutbox, GovernmentJobs, LegacyLeave, ArithmeticFacts, SequenceTheorems, TLAPS

-----------------------------------------------------------------------------
(* Lists without repetitions *)

\* A list without the entry at one place.
LEMMA EntryRemoved ==
    ASSUME NEW S, NEW s \in Seq(S), IsInjective(s), NEW i \in DOMAIN s
    PROVE  /\ RemoveAt(s, i) \in Seq(S) /\ IsInjective(RemoveAt(s, i))
           /\ Range(RemoveAt(s, i)) = Range(s) \ {s[i]}
<1> DEFINE front == SubSeq(s, 1, i - 1)
           back == SubSeq(s, i + 1, Len(s))
           r == RemoveAt(s, i)
<1>1. Len(s) \in Nat /\ DOMAIN s = 1..Len(s) /\ \A j \in 1..Len(s) : s[j] \in S
  BY LenProperties, ElementOfSeq
<1>2. i \in 1..Len(s)
  BY <1>1
<1>3. /\ front \in Seq(S) /\ Len(front) = i - 1
      /\ \A j \in 1..i - 1 : front[j] = s[j]
  <2>1. \A j \in 1..i - 1 : s[j] \in S
    BY <1>1, <1>2
  <2>2. /\ front \in Seq(S) /\ Len(front) = IF 1 <= i - 1 THEN (i - 1) - 1 + 1 ELSE 0
        /\ \A j \in 1..(i - 1) - 1 + 1 : front[j] = s[1 + j - 1]
    BY <1>1, <1>2, <2>1, SubSeqProperties
  <2>3. QED
    BY <1>2, <2>2
<1>4. /\ back \in Seq(S) /\ Len(back) = Len(s) - i
      /\ \A j \in 1..Len(s) - i : back[j] = s[i + j]
  <2>1. \A j \in i + 1..Len(s) : s[j] \in S
    BY <1>1, <1>2
  <2>2. /\ back \in Seq(S) /\ Len(back) = IF i + 1 <= Len(s) THEN Len(s) - (i + 1) + 1 ELSE 0
        /\ \A j \in 1..Len(s) - (i + 1) + 1 : back[j] = s[(i + 1) + j - 1]
    BY <1>1, <1>2, <2>1, SubSeqProperties
  <2>3. /\ (IF i + 1 <= Len(s) THEN Len(s) - (i + 1) + 1 ELSE 0) = Len(s) - i
        /\ Len(s) - (i + 1) + 1 = Len(s) - i
        /\ \A j \in 1..Len(s) - i : (i + 1) + j - 1 = i + j
    BY <1>1, <1>2
  <2>4. Len(back) = Len(s) - i
    BY <2>2, <2>3
  <2>5. ASSUME NEW j \in 1..Len(s) - i PROVE back[j] = s[i + j]
    <3>1. j \in 1..Len(s) - (i + 1) + 1
      BY <2>3
    <3>2. back[j] = s[(i + 1) + j - 1]
      BY <2>2, <3>1
    <3>3. QED
      BY <2>3, <3>2
  <2>6. QED
    BY <2>2, <2>4, <2>5
<1> HIDE DEF front, back
<1>5. /\ r \in Seq(S) /\ Len(r) = Len(s) - 1
      /\ \A j \in 1..Len(s) - 1 : r[j] = IF j < i THEN s[j] ELSE s[j + 1]
  <2>1. /\ r \in Seq(S) /\ Len(r) = Len(front) + Len(back)
        /\ \A j \in 1..Len(front) + Len(back) :
              r[j] = IF j <= Len(front) THEN front[j] ELSE back[j - Len(front)]
    BY <1>3, <1>4, ConcatProperties DEF RemoveAt, front, back
  <2> HIDE DEF r
  <2>2. Len(r) = Len(s) - 1
    BY <1>1, <1>2, <1>3, <1>4, <2>1
  <2>3. ASSUME NEW j \in 1..Len(s) - 1 PROVE r[j] = IF j < i THEN s[j] ELSE s[j + 1]
    <3>1. CASE j < i
      <4>1. j <= Len(front) /\ j \in 1..i - 1 /\ j \in 1..Len(front) + Len(back)
        BY <1>1, <1>2, <1>3, <1>4, <3>1
      <4>2. QED
        BY <1>3, <2>1, <3>1, <4>1
    <3>2. CASE ~(j < i)
      <4>1. /\ ~(j <= Len(front)) /\ j - Len(front) \in 1..Len(s) - i
            /\ j \in 1..Len(front) + Len(back) /\ i + (j - Len(front)) = j + 1
        BY <1>1, <1>2, <1>3, <1>4, <3>2
      <4>2. r[j] = back[j - Len(front)] /\ back[j - Len(front)] = s[i + (j - Len(front))]
        BY <1>4, <2>1, <4>1
      <4>3. QED
        BY <3>2, <4>1, <4>2
    <3>3. QED
      BY <3>1, <3>2
  <2>4. QED
    BY <2>1, <2>2, <2>3
<1> HIDE DEF r
<1>6. DOMAIN r = 1..Len(s) - 1
  BY <1>5, LenProperties
<1>7. IsInjective(r)
  BY <1>1, <1>2, <1>5, <1>6 DEF IsInjective
<1>8. Range(r) \subseteq Range(s) \ {s[i]}
  <2>1. SUFFICES ASSUME NEW j \in 1..Len(s) - 1 PROVE r[j] \in Range(s) \ {s[i]}
    BY <1>6 DEF Range
  <2>2. PICK k \in 1..Len(s) : r[j] = s[k] /\ k # i
    BY <1>1, <1>2, <1>5
  <2>3. s[k] # s[i]
    BY <1>1, <1>2, <2>2 DEF IsInjective
  <2>4. QED
    BY <1>1, <2>2, <2>3 DEF Range
<1>9. Range(s) \ {s[i]} \subseteq Range(r)
  <2>1. SUFFICES ASSUME NEW k \in 1..Len(s), s[k] # s[i] PROVE s[k] \in Range(r)
    BY <1>1 DEF Range
  <2>2. CASE k < i
    <3>1. k \in 1..Len(s) - 1 /\ r[k] = s[k]
      BY <1>1, <1>2, <1>5, <2>2
    <3>2. QED
      BY <1>6, <3>1 DEF Range
  <2>3. CASE k > i
    <3>1. k - 1 \in 1..Len(s) - 1 /\ ~(k - 1 < i) /\ (k - 1) + 1 = k
      BY <1>1, <1>2, <2>3
    <3>2. r[k - 1] = s[k]
      BY <1>5, <3>1
    <3>3. QED
      BY <1>6, <3>1, <3>2 DEF Range
  <2>4. QED
    BY <1>1, <1>2, <2>1, <2>2, <2>3
<1>10. QED
  BY <1>5, <1>7, <1>8, <1>9 DEF r

\* A list without one of its entries.
LEMMA RemovedFrom ==
    ASSUME NEW S, NEW s \in Seq(S), IsInjective(s), NEW n
    PROVE  /\ RemoveFirst(s, n) \in Seq(S) /\ IsInjective(RemoveFirst(s, n))
           /\ Range(RemoveFirst(s, n)) = Range(s) \ {n}
<1>1. DOMAIN s = 1..Len(s) /\ Len(s) \in Nat
  BY LenProperties
<1>2. CASE \E i \in 1..Len(s) : s[i] = n
  <2>1. PICK i \in 1..Len(s) : s[i] = n
    BY <1>2
  <2>2. {j \in 1..Len(s) : s[j] = n} = {i}
    BY <1>1, <2>1 DEF IsInjective
  <2>3. Min({i}) = i
    BY <1>1, <2>1 DEF Min
  <2>4. RemoveFirst(s, n) = RemoveAt(s, i)
    BY <1>2, <2>2, <2>3 DEF RemoveFirst, SelectInSeq
  <2>5. QED
    BY <1>1, <2>1, <2>4, EntryRemoved
<1>3. CASE ~\E i \in 1..Len(s) : s[i] = n
  <2>1. RemoveFirst(s, n) = s
    BY <1>3 DEF RemoveFirst
  <2>2. n \notin Range(s)
    BY <1>1, <1>3 DEF Range
  <2>3. QED
    BY <2>1, <2>2
<1>4. QED
  BY <1>2, <1>3

\* A list with an entry put in that it did not have.
LEMMA InsertedInto ==
    ASSUME NEW S, NEW s \in Seq(S), IsInjective(s), NEW n \in S, n \notin Range(s),
           NEW i \in 1..Len(s) + 1
    PROVE  /\ InsertAt(s, i, n) \in Seq(S) /\ IsInjective(InsertAt(s, i, n))
           /\ Range(InsertAt(s, i, n)) = Range(s) \cup {n}
<1> DEFINE front == SubSeq(s, 1, i - 1)
           mid == front \o <<n>>
           back == SubSeq(s, i, Len(s))
           r == InsertAt(s, i, n)
<1>1. Len(s) \in Nat /\ DOMAIN s = 1..Len(s) /\ \A j \in 1..Len(s) : s[j] \in S
  BY LenProperties, ElementOfSeq
<1>2. i \in Nat /\ 1 <= i /\ i <= Len(s) + 1
  BY <1>1
<1>3. /\ front \in Seq(S) /\ Len(front) = i - 1
      /\ \A j \in 1..i - 1 : front[j] = s[j]
  <2>1. \A j \in 1..i - 1 : s[j] \in S
    BY <1>1, <1>2
  <2>2. /\ front \in Seq(S) /\ Len(front) = IF 1 <= i - 1 THEN (i - 1) - 1 + 1 ELSE 0
        /\ \A j \in 1..(i - 1) - 1 + 1 : front[j] = s[1 + j - 1]
    BY <1>1, <1>2, <2>1, SubSeqProperties
  <2>3. QED
    BY <1>2, <2>2
<1>4. /\ back \in Seq(S) /\ Len(back) = Len(s) - i + 1
      /\ \A j \in 1..Len(s) - i + 1 : back[j] = s[i + j - 1]
  <2>1. \A j \in i..Len(s) : s[j] \in S
    BY <1>1, <1>2
  <2>2. /\ back \in Seq(S) /\ Len(back) = IF i <= Len(s) THEN Len(s) - i + 1 ELSE 0
        /\ \A j \in 1..Len(s) - i + 1 : back[j] = s[i + j - 1]
    BY <1>1, <1>2, <2>1, SubSeqProperties
  <2>3. QED
    BY <1>1, <1>2, <2>2
<1> HIDE DEF front, back
<1>5. /\ mid \in Seq(S) /\ Len(mid) = i
      /\ \A j \in 1..i : mid[j] = IF j < i THEN s[j] ELSE n
  <2>1. mid = Append(front, n)
    BY <1>3, AppendIsConcat
  <2>2. /\ mid \in Seq(S) /\ Len(mid) = (i - 1) + 1
        /\ \A j \in 1..i - 1 : mid[j] = front[j]
        /\ mid[(i - 1) + 1] = n
    <3>1. /\ Append(front, n) \in Seq(S) /\ Len(Append(front, n)) = Len(front) + 1
          /\ \A j \in 1..Len(front) : Append(front, n)[j] = front[j]
          /\ Append(front, n)[Len(front) + 1] = n
      BY <1>3, AppendProperties
    <3> HIDE DEF mid
    <3>2. QED
      BY <1>3, <2>1, <3>1
  <2> HIDE DEF mid
  <2>3. (i - 1) + 1 = i
    BY <1>2
  <2>4. QED
    BY <1>2, <1>3, <2>2, <2>3
<1> HIDE DEF mid
<1>6. /\ r \in Seq(S) /\ Len(r) = Len(s) + 1
      /\ \A j \in 1..Len(s) + 1 : r[j] = IF j < i THEN s[j] ELSE IF j = i THEN n ELSE s[j - 1]
  <2>1. /\ r \in Seq(S) /\ Len(r) = Len(mid) + Len(back)
        /\ \A j \in 1..Len(mid) + Len(back) :
              r[j] = IF j <= Len(mid) THEN mid[j] ELSE back[j - Len(mid)]
    BY <1>4, <1>5, ConcatProperties DEF InsertAt, mid, front, back
  <2> HIDE DEF r
  <2>2. Len(r) = Len(s) + 1
    BY <1>1, <1>2, <1>4, <1>5, <2>1
  <2>3. ASSUME NEW j \in 1..Len(s) + 1
        PROVE  r[j] = IF j < i THEN s[j] ELSE IF j = i THEN n ELSE s[j - 1]
    <3>1. CASE j <= i
      <4>1. j <= Len(mid) /\ j \in 1..i /\ j \in 1..Len(mid) + Len(back)
        BY <1>1, <1>2, <1>4, <1>5, <3>1
      <4>2. r[j] = IF j < i THEN s[j] ELSE n
        BY <1>5, <2>1, <4>1
      <4>3. j < i \/ j = i
        BY <1>1, <1>2, <3>1
      <4>4. QED
        BY <4>2, <4>3
    <3>2. CASE ~(j <= i)
      <4>1. /\ ~(j <= Len(mid)) /\ j - Len(mid) \in 1..Len(s) - i + 1
            /\ j \in 1..Len(mid) + Len(back) /\ i + (j - Len(mid)) - 1 = j - 1
            /\ ~(j < i) /\ j # i
        BY <1>1, <1>2, <1>4, <1>5, <3>2
      <4>2. r[j] = back[j - Len(mid)] /\ back[j - Len(mid)] = s[i + (j - Len(mid)) - 1]
        BY <1>4, <2>1, <4>1
      <4>3. QED
        BY <4>1, <4>2
    <3>3. QED
      BY <3>1, <3>2
  <2>4. QED
    BY <2>1, <2>2, <2>3
<1> HIDE DEF r
<1>7. DOMAIN r = 1..Len(s) + 1
  BY <1>6, LenProperties
<1>8. IsInjective(r)
  <2>1. \A j \in 1..Len(s) : s[j] # n
    BY <1>1 DEF Range
  <2>2. \A j, k \in 1..Len(s) : s[j] = s[k] => j = k
    BY <1>1 DEF IsInjective
  <2>3. ASSUME NEW j \in 1..Len(s) + 1, NEW k \in 1..Len(s) + 1, j < k PROVE r[j] # r[k]
    <3>1. CASE j < i /\ k < i
      BY <1>1, <1>2, <1>6, <2>2, <2>3, <3>1
    <3>2. CASE j < i /\ k = i
      BY <1>1, <1>2, <1>6, <2>1, <2>3, <3>2
    <3>3. CASE j < i /\ i < k
      <4>1. j \in 1..Len(s) /\ k - 1 \in 1..Len(s) /\ j # k - 1 /\ ~(k < i) /\ k # i
        BY <1>1, <1>2, <3>3
      <4>2. QED
        BY <1>6, <2>2, <3>3, <4>1
    <3>4. CASE j = i /\ i < k
      <4>1. k - 1 \in 1..Len(s) /\ ~(k < i) /\ k # i /\ ~(j < i)
        BY <1>1, <1>2, <3>4
      <4>2. QED
        BY <1>6, <2>1, <3>4, <4>1
    <3>5. CASE i < j
      <4>1. /\ j - 1 \in 1..Len(s) /\ k - 1 \in 1..Len(s) /\ j - 1 # k - 1
            /\ ~(j < i) /\ j # i /\ ~(k < i) /\ k # i
        BY <1>1, <1>2, <2>3, <3>5
      <4>2. QED
        BY <1>6, <2>2, <4>1
    <3>6. QED
      BY <1>1, <1>2, <2>3, <3>1, <3>2, <3>3, <3>4, <3>5
  <2>4. \A j, k \in 1..Len(s) + 1 : r[j] = r[k] => j = k
    <3>1. \A j, k \in 1..Len(s) + 1 : j = k \/ j < k \/ k < j
      BY <1>1
    <3>2. QED
      BY <2>3, <3>1
  <2>5. QED
    BY <1>7, <2>4 DEF IsInjective
<1>9. Range(r) \subseteq Range(s) \cup {n}
  BY <1>1, <1>2, <1>6, <1>7 DEF Range
<1>10. Range(s) \cup {n} \subseteq Range(r)
  <2>1. n \in Range(r)
    <3>1. i \in 1..Len(s) + 1 /\ r[i] = n
      BY <1>1, <1>2, <1>6
    <3>2. QED
      BY <1>7, <3>1 DEF Range
  <2>2. ASSUME NEW k \in 1..Len(s) PROVE s[k] \in Range(r)
    <3>1. CASE k < i
      <4>1. k \in 1..Len(s) + 1 /\ r[k] = s[k]
        BY <1>1, <1>2, <1>6, <3>1
      <4>2. QED
        BY <1>7, <4>1 DEF Range
    <3>2. CASE ~(k < i)
      <4>1. k + 1 \in 1..Len(s) + 1 /\ ~(k + 1 < i) /\ k + 1 # i /\ (k + 1) - 1 = k
        BY <1>1, <1>2, <3>2
      <4>2. r[k + 1] = s[k]
        BY <1>6, <4>1
      <4>3. QED
        BY <1>7, <4>1, <4>2 DEF Range
    <3>3. QED
      BY <3>1, <3>2
  <2>3. QED
    BY <1>1, <2>1, <2>2 DEF Range
<1>11. QED
  BY <1>6, <1>8, <1>9, <1>10 DEF r

\* A list with an entry added to its end that it did not have.
LEMMA AppendedTo ==
    ASSUME NEW S, NEW s \in Seq(S), IsInjective(s), NEW n \in S, n \notin Range(s)
    PROVE  /\ Append(s, n) \in Seq(S) /\ IsInjective(Append(s, n))
           /\ Range(Append(s, n)) = Range(s) \cup {n}
<1> DEFINE r == Append(s, n)
<1>1. Len(s) \in Nat /\ DOMAIN s = 1..Len(s)
  BY LenProperties
<1>2. /\ r \in Seq(S) /\ Len(r) = Len(s) + 1
      /\ \A j \in 1..Len(s) : r[j] = s[j]
      /\ r[Len(s) + 1] = n
  BY AppendProperties
<1> HIDE DEF r
<1>3. DOMAIN r = 1..Len(s) + 1
  BY <1>2, LenProperties
<1>4. \A j \in 1..Len(s) + 1 : j \in 1..Len(s) \/ j = Len(s) + 1
  BY <1>1
<1>5. IsInjective(r)
  BY <1>1, <1>2, <1>3, <1>4 DEF IsInjective, Range
<1>6. Range(r) = Range(s) \cup {n}
  <2>1. Range(r) \subseteq Range(s) \cup {n}
    BY <1>1, <1>2, <1>3, <1>4 DEF Range
  <2>2. \A j \in 1..Len(s) : j \in 1..Len(s) + 1
    BY <1>1
  <2>3. Len(s) + 1 \in 1..Len(s) + 1
    BY <1>1
  <2>4. Range(s) \cup {n} \subseteq Range(r)
    BY <1>1, <1>2, <1>3, <2>2, <2>3 DEF Range
  <2>5. QED
    BY <2>1, <2>4
<1>7. QED
  BY <1>2, <1>5, <1>6 DEF r

-----------------------------------------------------------------------------
(* Types *)

Busy == {"mailing", "accepted"}

\* A process holds a notice while it is mailing one, and only then.
LEMMA ProcessFields ==
    ASSUME NEW x \in Process
    PROVE  /\ x.at \in {"down", "idle", "run"} \cup Busy
           /\ x.muted \in BOOLEAN /\ x.tries \in 0..Limit
           /\ x.at \in Busy => x.notice \in Notices /\ x.tries < Limit
           /\ x.at \notin Busy => x.notice = None
<1>1. Limit \in Nat /\ Limit > 0
  BY LimitAssumption
<1>2. CASE x \in [at: {"down", "idle"}, muted: BOOLEAN, tries: {0}, notice: {None}]
  BY <1>1, <1>2 DEF Busy
<1>3. CASE x \in [at: {"run"}, muted: BOOLEAN, tries: 0..Limit, notice: {None}]
  BY <1>1, <1>3 DEF Busy
<1>4. CASE x \in [at: {"mailing", "accepted"}, muted: BOOLEAN, tries: 0..Limit - 1, notice: Notices]
  BY <1>1, <1>4 DEF Busy
<1>5. QED
  BY <1>2, <1>3, <1>4 DEF Process

At(muted, at, tries, n) == [at |-> at, muted |-> muted, tries |-> tries, notice |-> n]

\* The records that steps make of a process are processes.
LEMMA ProcessMade ==
    ASSUME NEW x \in Process
    PROVE  /\ At(x.muted, "idle", 0, None) \in Process
           /\ \A t \in 0..Limit : At(x.muted, "run", t, None) \in Process
           /\ \A t \in 0..Limit - 1, n \in Notices :
                 At(x.muted, "mailing", t, n) \in Process /\ At(x.muted, "accepted", t, n) \in Process
           /\ \A b \in BOOLEAN : /\ [x EXCEPT !.muted = b] \in Process
                                 /\ [x EXCEPT !.muted = b].at = x.at
                                 /\ [x EXCEPT !.muted = b].notice = x.notice
           /\ [at |-> "down", muted |-> FALSE, tries |-> 0, notice |-> None] \in Process
<1>1. x.muted \in BOOLEAN
  BY ProcessFields
<1>2. At(x.muted, "idle", 0, None) \in Process
  BY <1>1 DEF At, Process
<1>3. \A t \in 0..Limit : At(x.muted, "run", t, None) \in Process
  BY <1>1 DEF At, Process
<1>4. \A t \in 0..Limit - 1, n \in Notices :
         At(x.muted, "mailing", t, n) \in Process /\ At(x.muted, "accepted", t, n) \in Process
  BY <1>1 DEF At, Process
<1>5. \A b \in BOOLEAN : /\ [x EXCEPT !.muted = b] \in Process
                         /\ [x EXCEPT !.muted = b].at = x.at
                         /\ [x EXCEPT !.muted = b].notice = x.notice
  BY DEF Process
<1>6. [at |-> "down", muted |-> FALSE, tries |-> 0, notice |-> None] \in Process
  BY DEF Process
<1>7. QED
  BY <1>2, <1>3, <1>4, <1>5, <1>6

\* The due notices are a list of pending ones, each once.
DueOK ==
    /\ due \in Seq(Notices) /\ IsInjective(due)
    /\ \A n \in Range(due) : status[n] = "pending"

\* The types, with no bound on how often a notice is mailed.
OutboxTypes ==
    /\ status \in [Notices -> Statuses]
    /\ DueOK
    /\ inactive \subseteq Notices /\ unwanted \subseteq Notices /\ unreachable \subseteq Notices
    /\ mailed \in [Notices -> Nat]
    /\ process \in [Processes -> Process]
    /\ testing \in BOOLEAN
    /\ refreshing \in [Handlers -> Refresh]
    /\ faults \in 0..MaxFaults /\ changes \in 0..MaxChanges

\* The outbox starts empty.
LEMMA OutboxTypesInit == Init => OutboxTypes
<1> SUFFICES ASSUME Init PROVE OutboxTypes
  OBVIOUS
<1>1. DueOK
  <2>1. due \in Seq(Notices) /\ DOMAIN due = {}
    BY DEF Init
  <2>2. QED
    BY <2>1 DEF DueOK, IsInjective, Range
<1>2. process \in [Processes -> Process] /\ refreshing \in [Handlers -> Refresh]
  BY DEF Init, Process, Refresh, NoRefresh
<1>3. QED
  <2>1. MaxFaults \in Nat /\ MaxChanges \in Nat
    BY BoundsAssumption
  <2>2. faults \in 0..MaxFaults /\ changes \in 0..MaxChanges
    BY <2>1 DEF Init
  <2>3. mailed \in [Notices -> Nat] /\ status \in [Notices -> Statuses]
    BY DEF Init, Statuses
  <2>4. QED
    BY <1>1, <1>2, <2>2, <2>3 DEF Init, OutboxTypes

\* A notice settled, backed off, queued or due again: the list stays a list of
\* pending notices.
LEMMA DueMade ==
    ASSUME status \in [Notices -> Statuses], DueOK, NEW n \in Notices
    PROVE  /\ due' = RemoveFirst(due, n) =>
                /\ Range(due') = Range(due) \ {n}
                /\ (\A m \in Notices \ {n} : status'[m] = status[m]) => DueOK'
           /\ /\ n \notin Range(due)
              /\ (\E i \in 1..Len(due) + 1 : due' = InsertAt(due, i, n)) \/ due' = Append(due, n)
              =>
                /\ Range(due') = Range(due) \cup {n}
                /\ (\A m \in Notices \ {n} : status'[m] = status[m]) /\ status'[n] = "pending" => DueOK'
<1>1. due \in Seq(Notices) /\ IsInjective(due) /\ (\A m \in Range(due) : status[m] = "pending")
      /\ Range(due) \subseteq Notices
  BY RangeOfSeq DEF DueOK
<1>2. ASSUME due' = RemoveFirst(due, n)
      PROVE  /\ Range(due') = Range(due) \ {n}
             /\ (\A m \in Notices \ {n} : status'[m] = status[m]) => DueOK'
  <2>1. due' \in Seq(Notices) /\ IsInjective(due') /\ Range(due') = Range(due) \ {n}
    BY <1>1, <1>2, RemovedFrom
  <2>2. QED
    BY <1>1, <2>1 DEF DueOK
<1>3. ASSUME (\E i \in 1..Len(due) + 1 : due' = InsertAt(due, i, n)) \/ due' = Append(due, n),
             n \notin Range(due)
      PROVE  /\ Range(due') = Range(due) \cup {n}
             /\ (\A m \in Notices \ {n} : status'[m] = status[m]) /\ status'[n] = "pending" => DueOK'
  <2>1. due' \in Seq(Notices) /\ IsInjective(due') /\ Range(due') = Range(due) \cup {n}
    <3>1. CASE \E i \in 1..Len(due) + 1 : due' = InsertAt(due, i, n)
      BY <1>1, <1>3, <3>1, InsertedInto
    <3>2. CASE due' = Append(due, n)
      BY <1>1, <1>3, <3>2, AppendedTo
    <3>3. QED
      BY <1>3, <3>1, <3>2
  <2>2. QED
    BY <1>1, <2>1 DEF DueOK
<1>4. QED
  BY <1>2, <1>3

\* The next notice is a due one that nobody holds.
LEMMA NextIsFree ==
    ASSUME OutboxTypes, NEW i \in DOMAIN due, IsNext(i)
    PROVE  /\ due[i] \in Notices /\ due[i] \in Range(due) /\ status[due[i]] = "pending"
           /\ \A q \in Processes : process[q].at \in Busy => process[q].notice # due[i]
<1>1. due[i] \in Range(due)
  BY DEF Range
<1>2. due[i] \in Notices /\ status[due[i]] = "pending"
  BY <1>1, RangeOfSeq DEF OutboxTypes, DueOK
<1>3. due[i] # None /\ due[i] \notin Held
  BY <1>2, NoneAssumption DEF IsNext, Free
<1>4. \A q \in Processes : process[q].notice # due[i]
  BY <1>3 DEF Held
<1>5. QED
  BY <1>1, <1>2, <1>4

\* What the steps of a delivery run do: where the process goes, and what
\* becomes of the notice it works on.
RunStep(p, x) ==
    /\ process' = [process EXCEPT ![p] = x]
    /\ UNCHANGED surroundings /\ UNCHANGED <<testing, changes>>
    /\ refreshing' \in [Handlers -> Refresh]
    /\ \/ \* a run begins, ends, pauses, or its process starts
          /\ x.at \notin Busy /\ process[p].at # "accepted"
          /\ UNCHANGED <<status, due, mailed, faults>>
       \/ \* a free notice is skipped or put off
          /\ x.at \notin Busy /\ process[p].at = "run" /\ faults' = faults /\ mailed' = mailed
          /\ \E n \in Notices :
               /\ n \in Range(due) /\ \A q \in Processes : process[q].at \in Busy => process[q].notice # n
               /\ due' = RemoveFirst(due, n)
               /\ \/ n \in inactive \cup unwanted /\ status' = [status EXCEPT ![n] = "skipped"]
                  \/ status' = status
       \/ \* a free notice is taken up
          /\ process[p].at = "run" /\ x.at = "mailing"
          /\ x.notice \in Range(due)
          /\ \A q \in Processes : process[q].at \in Busy => process[q].notice # x.notice
          /\ UNCHANGED <<status, due, mailed, faults>>
       \/ \* the mail server takes it
          /\ process[p].at = "mailing" /\ x.at = "accepted" /\ x.notice = process[p].notice
          /\ mailed' = [mailed EXCEPT ![x.notice] = @ + 1]
          /\ UNCHANGED <<status, due, faults>>
       \/ \* it refuses it, or its answer is lost
          /\ process[p].at = "mailing" /\ x.at \notin Busy
          /\ due' = RemoveFirst(due, process[p].notice) /\ status' = status
          /\ \/ mailed' = mailed /\ faults' = faults
             \/ /\ mailed' = [mailed EXCEPT ![process[p].notice] = @ + 1]
                /\ faults' = faults + 1 /\ faults < MaxFaults
       \/ \* the row says it is sent
          /\ process[p].at = "accepted" /\ x.at \notin Busy
          /\ due' = RemoveFirst(due, process[p].notice)
          /\ status' = [status EXCEPT ![process[p].notice] = "sent"]
          /\ UNCHANGED <<mailed, faults>>
       \/ \* the transaction is lost
          /\ x.at \notin Busy /\ faults' = faults + 1 /\ faults < MaxFaults
          /\ UNCHANGED <<status, due, mailed>>

\* Every step of a delivery run is one of these.
LEMMA RunSteps ==
    ASSUME OutboxTypes, NEW p \in Processes,
           Deliver(p) \/ (\E n \in Notices : Accept(p, n)) \/ Crash(p) \/ Restart(p)
    PROVE  \E x \in Process : RunStep(p, x)
<1> USE DEF surroundings, settings
<1>0. PICK y : y = process[p]
  OBVIOUS
<1>1. /\ y \in Process /\ process \in [Processes -> Process]
      /\ refreshing \in [Handlers -> Refresh] /\ testing \in BOOLEAN
      /\ Limit \in Nat
  BY <1>0, LimitAssumption DEF OutboxTypes
<1>2. /\ y.muted \in BOOLEAN /\ y.tries \in 0..Limit
      /\ y.at \in Busy => y.notice \in Notices /\ y.tries \in 0..Limit - 1
      /\ y.at \notin Busy => y.notice = None
  BY <1>1, ProcessFields
<1>3. \A t \in 0..Limit : t # Limit => t + 1 \in 0..Limit /\ t \in 0..Limit - 1
  BY <1>1
<1>4. \A t \in 0..Limit - 1 : t + 1 \in 0..Limit
  BY <1>1
<1>5. /\ [at |-> "run", muted |-> y.muted, tries |-> 0, notice |-> None] \in Process
      /\ [at |-> "idle", muted |-> y.muted, tries |-> 0, notice |-> None] \in Process
      /\ [at |-> "down", muted |-> FALSE, tries |-> 0, notice |-> None] \in Process
      /\ \A b \in BOOLEAN : [at |-> "idle", muted |-> b, tries |-> 0, notice |-> None] \in Process
      /\ \A t \in 0..Limit : [at |-> "run", muted |-> y.muted, tries |-> t, notice |-> None] \in Process
      /\ \A t \in 0..Limit - 1, n \in Notices :
            /\ [at |-> "mailing", muted |-> y.muted, tries |-> t, notice |-> n] \in Process
            /\ [at |-> "accepted", muted |-> y.muted, tries |-> t, notice |-> n] \in Process
  BY <1>1, <1>2 DEF Process
<1> DEFINE Goal == \E x \in Process : RunStep(p, x)
<1> USE DEF RunStep
<1>6. ASSUME StartRun(p) PROVE Goal
  <2>1. PICK x : x = [at |-> "run", muted |-> y.muted, tries |-> 0, notice |-> None]
    OBVIOUS
  <2>2. x \in Process /\ process' = [process EXCEPT ![p] = x] /\ x.at \notin Busy /\ process[p].at # "accepted"
        /\ UNCHANGED <<status, due, surroundings, mailed, settings, faults, changes>>
    BY <1>0, <1>5, <1>6, <2>1 DEF StartRun, Become, Busy
  <2>3. QED
    BY <1>1, <2>2
<1>7. ASSUME StopRun(p) \/ Pause(p) PROVE Goal
  <2>1. PICK x : x = [at |-> "idle", muted |-> y.muted, tries |-> 0, notice |-> None]
    OBVIOUS
  <2>2. x \in Process /\ process' = [process EXCEPT ![p] = x] /\ x.at \notin Busy /\ process[p].at # "accepted"
        /\ UNCHANGED <<status, due, surroundings, mailed, settings, faults, changes>>
    BY <1>0, <1>5, <1>7, <2>1 DEF StopRun, Pause, EndRun, Become, Busy
  <2>3. QED
    BY <1>1, <2>2
<1>8. ASSUME Restart(p) PROVE Goal
  <2>1. PICK b \in BOOLEAN :
          /\ process' = [process EXCEPT ![p] = [at |-> "idle", muted |-> b, tries |-> 0, notice |-> None]]
          /\ faults' = faults \/ Fault
    BY <1>8 DEF Restart
  <2>2. PICK x : x = [at |-> "idle", muted |-> b, tries |-> 0, notice |-> None]
    OBVIOUS
  <2>3. x \in Process /\ process' = [process EXCEPT ![p] = x] /\ x.at \notin Busy /\ process[p].at # "accepted"
        /\ UNCHANGED <<status, due, surroundings, mailed, settings, changes>>
    BY <1>0, <1>5, <1>8, <2>1, <2>2 DEF Restart, Busy
  <2>4. CASE faults' = faults
    BY <1>1, <2>3, <2>4
  <2>5. CASE Fault
    BY <1>1, <2>3, <2>5 DEF Fault
  <2>6. QED
    BY <2>1, <2>4, <2>5
<1>9. ASSUME Pick(p) PROVE Goal
  <2>1. PICK i \in DOMAIN due : IsNext(i) /\
          LET n == due[i] IN
            \/ n \in inactive \cup (unwanted \ unreachable) /\ Settle(n, "skipped") /\ NextTry(p)
            \/ n \in unreachable \ inactive /\ BackOff(n) /\ NextTry(p) /\ UNCHANGED status
            \/ /\ n \notin inactive \cup unwanted \cup unreachable
               /\ Become(p, "mailing", process[p].tries, n)
               /\ UNCHANGED <<status, due>>
    BY <1>9 DEF Pick
  <2>2. PICK n : n = due[i]
    OBVIOUS
  <2>3. /\ n \in Notices /\ n \in Range(due)
        /\ \A q \in Processes : process[q].at \in Busy => process[q].notice # n
    BY <2>1, <2>2, NextIsFree
  <2>4. /\ y.at = "run" /\ y.tries \in 0..Limit - 1 /\ y.tries + 1 \in 0..Limit
        /\ UNCHANGED <<surroundings, mailed, settings, faults, changes>>
    BY <1>0, <1>1, <1>2, <1>9 DEF Pick
  <2>5. CASE n \in inactive \cup unwanted /\ Settle(n, "skipped") /\ NextTry(p)
    <3>1. PICK x : x = [at |-> "run", muted |-> y.muted, tries |-> y.tries + 1, notice |-> None]
      OBVIOUS
    <3>2. x \in Process /\ process' = [process EXCEPT ![p] = x] /\ x.at \notin Busy
          /\ status' = [status EXCEPT ![n] = "skipped"] /\ due' = RemoveFirst(due, n)
      BY <1>0, <1>5, <2>4, <2>5, <3>1 DEF NextTry, Become, Busy, Settle
    <3>3. QED
      BY <1>0, <1>1, <2>3, <2>4, <2>5, <3>2
  <2>6. CASE BackOff(n) /\ NextTry(p) /\ UNCHANGED status
    <3>1. PICK x : x = [at |-> "run", muted |-> y.muted, tries |-> y.tries + 1, notice |-> None]
      OBVIOUS
    <3>2. x \in Process /\ process' = [process EXCEPT ![p] = x] /\ x.at \notin Busy
          /\ status' = status /\ due' = RemoveFirst(due, n)
      BY <1>0, <1>5, <2>4, <2>6, <3>1 DEF NextTry, Become, Busy, BackOff
    <3>3. QED
      BY <1>0, <1>1, <2>3, <2>4, <3>2
  <2>7. CASE Become(p, "mailing", process[p].tries, n) /\ UNCHANGED <<status, due>>
    <3>1. PICK x : x = [at |-> "mailing", muted |-> y.muted, tries |-> y.tries, notice |-> n]
      OBVIOUS
    <3>2. x \in Process /\ process' = [process EXCEPT ![p] = x] /\ x.at = "mailing" /\ x.notice = n
      BY <1>0, <1>5, <2>3, <2>4, <2>7, <3>1 DEF Become
    <3>3. QED
      BY <1>0, <1>1, <2>3, <2>4, <2>7, <3>2
  <2>8. QED
    BY <2>1, <2>2, <2>5, <2>6, <2>7
<1>10. ASSUME NEW n \in Notices, Accept(p, n) PROVE Goal
  <2>1. PICK x : x = [at |-> "accepted", muted |-> y.muted, tries |-> y.tries, notice |-> n]
    OBVIOUS
  <2>2. /\ y.at = "mailing" /\ y.notice = n /\ mailed' = [mailed EXCEPT ![n] = @ + 1]
        /\ UNCHANGED <<status, due, surroundings, settings, faults, changes>>
    BY <1>0, <1>10 DEF Accept
  <2>3. x \in Process /\ process' = [process EXCEPT ![p] = x] /\ x.at = "accepted" /\ x.notice = n
    BY <1>0, <1>2, <1>5, <1>10, <2>1, <2>2 DEF Accept, Become, Busy
  <2>4. QED
    BY <1>0, <1>1, <2>2, <2>3
<1>11. ASSUME Refuse(p) \/ LoseAnswer(p) \/ Record(p) PROVE Goal
  <2>1. PICK x : x = [at |-> "run", muted |-> y.muted, tries |-> y.tries + 1, notice |-> None]
    OBVIOUS
  <2>2. y.at \in Busy /\ NextTry(p)
    BY <1>0, <1>11 DEF Refuse, LoseAnswer, Record, Busy
  <2>3. x \in Process /\ process' = [process EXCEPT ![p] = x] /\ x.at \notin Busy
    BY <1>0, <1>2, <1>4, <1>5, <2>1, <2>2 DEF NextTry, Become, Busy
  <2>4. /\ UNCHANGED <<surroundings, settings, changes>>
        /\ due' = RemoveFirst(due, y.notice)
    BY <1>0, <1>11 DEF Refuse, LoseAnswer, Record, BackOff, Settle
  <2>5. CASE Refuse(p)
    BY <1>0, <1>1, <2>3, <2>4, <2>5 DEF Refuse
  <2>6. CASE LoseAnswer(p)
    BY <1>0, <1>1, <2>3, <2>4, <2>6 DEF LoseAnswer, Fault
  <2>7. CASE Record(p)
    BY <1>0, <1>1, <2>3, <2>4, <2>7 DEF Record, Settle
  <2>8. QED
    BY <1>11, <2>5, <2>6, <2>7
<1>12. ASSUME LoseConnection(p) PROVE Goal
  <2>1. PICK x : x = [at |-> "idle", muted |-> y.muted, tries |-> 0, notice |-> None]
    OBVIOUS
  <2>2. x \in Process /\ process' = [process EXCEPT ![p] = x] /\ x.at \notin Busy
        /\ faults' = faults + 1 /\ faults < MaxFaults
        /\ UNCHANGED <<status, due, surroundings, mailed, settings, changes>>
    BY <1>0, <1>5, <1>12, <2>1 DEF LoseConnection, EndRun, Become, Busy, Fault
  <2>3. QED
    BY <1>1, <2>2
<1>13. ASSUME Crash(p) PROVE Goal
  <2>1. PICK x : x = [at |-> "down", muted |-> FALSE, tries |-> 0, notice |-> None]
    OBVIOUS
  <2>2. x \in Process /\ process' = [process EXCEPT ![p] = x] /\ x.at \notin Busy
        /\ faults' = faults + 1 /\ faults < MaxFaults
        /\ UNCHANGED <<status, due, surroundings, mailed, testing, changes>>
    BY <1>0, <1>5, <1>13, <2>1 DEF Crash, Busy, Fault
  <2>3. refreshing' \in [Handlers -> Refresh]
    <3>1. NoRefresh \in Refresh
      BY DEF NoRefresh, Refresh
    <3>2. QED
      BY <1>1, <1>13, <3>1 DEF Crash
  <2>4. QED
    BY <2>2, <2>3
<1> HIDE DEF Goal, RunStep
<1>14. Goal
  BY <1>6, <1>7, <1>8, <1>9, <1>10, <1>11, <1>12, <1>13 DEF Deliver
<1>15. QED
  BY <1>14 DEF Goal

\* What the steps around the delivery runs do: they queue a notice, make one due
\* again, or change nothing that a run has done.
AroundStep ==
    /\ mailed' = mailed /\ (faults' = faults \/ faults' = faults + 1)
    /\ \A q \in Processes : process'[q].at = process[q].at /\ process'[q].notice = process[q].notice
    /\ Range(due) \subseteq Range(due')
    /\ \/ status' = status
       \/ /\ UNCHANGED <<inactive, unwanted>>
          /\ \E n \in Notices : status[n] = "absent" /\ status' = [status EXCEPT ![n] = "pending"]

\* Every step that is not of a delivery run is one of these, and keeps the types.
LEMMA AroundSteps ==
    ASSUME OutboxTypes,
           \/ \E n \in Notices : Enqueue(n) \/ Deactivate(n) \/ Unwant(n) \/ Readdress(n) \/ FallDue(n)
           \/ \E h \in Handlers :
                \/ ReadTesting(h) \/ KeepTesting(h) \/ FailRefresh(h)
                \/ \E p \in Processes : ViewTesting(h, p) \/ \E b \in BOOLEAN : SetTesting(h, p, b)
           \/ UNCHANGED vars
    PROVE  OutboxTypes' /\ AroundStep
<1> DEFINE Goal == OutboxTypes' /\ AroundStep
<1> USE DEF surroundings, settings
<1>0. /\ process \in [Processes -> Process] /\ refreshing \in [Handlers -> Refresh]
      /\ status \in [Notices -> Statuses] /\ testing \in BOOLEAN /\ DueOK
      /\ inactive \subseteq Notices /\ unwanted \subseteq Notices /\ unreachable \subseteq Notices
      /\ mailed \in [Notices -> Nat] /\ faults \in 0..MaxFaults /\ changes \in 0..MaxChanges
      /\ MaxChanges \in Nat /\ MaxFaults \in Nat
  BY BoundsAssumption DEF OutboxTypes
<1>1. ASSUME NEW n \in Notices, Enqueue(n) PROVE Goal
  <2>1. /\ status[n] = "absent" /\ status' = [status EXCEPT ![n] = "pending"]
        /\ \E i \in 1..Len(due) + 1 : due' = InsertAt(due, i, n)
        /\ UNCHANGED <<surroundings, mailed, process, settings, faults, changes>>
    BY <1>1 DEF Enqueue
  <2>2. n \notin Range(due)
    BY <1>0, <2>1 DEF DueOK
  <2>3. status'[n] = "pending" /\ (\A m \in Notices \ {n} : status'[m] = status[m])
        /\ status' \in [Notices -> Statuses]
    BY <1>0, <2>1 DEF Statuses
  <2>4. DueOK' /\ Range(due') = Range(due) \cup {n}
    BY <1>0, <2>1, <2>2, <2>3, DueMade
  <2>5. QED
    BY <1>0, <2>1, <2>3, <2>4 DEF OutboxTypes, AroundStep
<1>2. ASSUME NEW n \in Notices, FallDue(n) PROVE Goal
  <2>1. /\ status[n] = "pending" /\ n \notin Range(due) /\ due' = Append(due, n)
        /\ UNCHANGED <<status, surroundings, mailed, process, settings, faults, changes>>
    BY <1>2 DEF FallDue
  <2>2. DueOK' /\ Range(due') = Range(due) \cup {n}
    BY <1>0, <2>1, DueMade
  <2>3. QED
    BY <1>0, <2>1, <2>2 DEF OutboxTypes, AroundStep
\* The other steps leave the list and the states of the notices alone.
<1>3. ASSUME UNCHANGED <<status, due, mailed>>,
             faults' = faults \/ (faults' = faults + 1 /\ faults < MaxFaults),
             inactive' \subseteq Notices, unwanted' \subseteq Notices, unreachable' \subseteq Notices,
               testing' \in BOOLEAN,
             process' \in [Processes -> Process], refreshing' \in [Handlers -> Refresh],
             changes' \in 0..MaxChanges,
             \A q \in Processes : process'[q].at = process[q].at /\ process'[q].notice = process[q].notice
      PROVE  Goal
  <2>1. DueOK'
    BY <1>0, <1>3 DEF DueOK
  <2>2. faults' \in 0..MaxFaults
    BY <1>0, <1>3
  <2>3. QED
    BY <1>0, <1>3, <2>1, <2>2 DEF OutboxTypes, AroundStep
<1> HIDE DEF Goal
<1>4. Change => changes' \in 0..MaxChanges
  BY <1>0 DEF Change
<1>5. ASSUME NEW n \in Notices, Deactivate(n) \/ Unwant(n) \/ Readdress(n) PROVE Goal
  <2>1. inactive' \subseteq Notices /\ unwanted' \subseteq Notices /\ unreachable' \subseteq Notices
    BY <1>0, <1>5 DEF Deactivate, Unwant, Readdress
  <2>2. QED
    BY <1>0, <1>3, <1>4, <1>5, <2>1 DEF Deactivate, Unwant, Readdress
<1>6. ASSUME NEW h \in Handlers, NEW p \in Processes,
             ViewTesting(h, p) \/ \E b \in BOOLEAN : SetTesting(h, p, b)
      PROVE  Goal
  <2>1. [at |-> "reading", by |-> p, value |-> FALSE] \in Refresh
    BY DEF Refresh
  <2>2. refreshing' \in [Handlers -> Refresh] /\ testing' \in BOOLEAN
    BY <1>0, <1>6, <2>1 DEF ViewTesting, SetTesting
  <2>3. QED
    BY <1>0, <1>3, <1>4, <1>6, <2>2 DEF ViewTesting, SetTesting
<1>7. ASSUME NEW h \in Handlers, ReadTesting(h) PROVE Goal
  <2>1. PICK r : r = refreshing[h]
    OBVIOUS
  <2>2. r \in Refresh /\ r.at = "reading"
    BY <1>0, <1>7, <2>1 DEF ReadTesting
  <2>3. PICK x : x = [[r EXCEPT !.at = "read"] EXCEPT !.value = testing]
    OBVIOUS
  <2>4. x \in Refresh
    BY <1>0, <2>2, <2>3 DEF Refresh
  <2>5. refreshing' \in [Handlers -> Refresh]
    <3>1. refreshing' = [refreshing EXCEPT ![h] = x]
      BY <1>0, <1>7, <2>1, <2>3 DEF ReadTesting
    <3>2. QED
      BY <1>0, <2>4, <3>1
  <2>6. QED
    BY <1>0, <1>3, <1>7, <2>5 DEF ReadTesting
<1>8. ASSUME NEW h \in Handlers, KeepTesting(h) \/ FailRefresh(h) PROVE Goal
  <2>1. PICK r : r = refreshing[h]
    OBVIOUS
  <2>2. r \in Refresh /\ r.at # "done"
    BY <1>0, <1>8, <2>1 DEF KeepTesting, FailRefresh
  <2>3. r.by \in Processes /\ r.value \in BOOLEAN
    BY <2>2 DEF Refresh
  <2>4. PICK b \in BOOLEAN : process' = [process EXCEPT ![r.by] = [process[r.by] EXCEPT !.muted = b]]
    <3>1. CASE KeepTesting(h)
      BY <1>0, <2>1, <2>3, <3>1 DEF KeepTesting
    <3>2. CASE FailRefresh(h)
      <4>1. process' = [process EXCEPT ![r.by] = [process[r.by] EXCEPT !.muted = FALSE]]
        BY <1>0, <2>1, <2>3, <3>2 DEF FailRefresh
      <4>2. QED
        BY <4>1
    <3>3. QED
      BY <1>8, <3>1, <3>2
  <2>5. PICK x : x = [process[r.by] EXCEPT !.muted = b]
    OBVIOUS
  <2>6. x \in Process /\ x.at = process[r.by].at /\ x.notice = process[r.by].notice
    BY <1>0, <2>3, <2>5, ProcessMade
  <2>7. /\ process' \in [Processes -> Process]
        /\ \A q \in Processes : process'[q].at = process[q].at /\ process'[q].notice = process[q].notice
    BY <1>0, <2>3, <2>4, <2>5, <2>6
  <2>8. refreshing' \in [Handlers -> Refresh]
    <3>1. NoRefresh \in Refresh
      BY DEF NoRefresh, Refresh
    <3>2. QED
      BY <1>0, <1>8, <3>1 DEF KeepTesting, FailRefresh
  <2>9. QED
    BY <1>0, <1>3, <1>8, <2>7, <2>8 DEF KeepTesting, FailRefresh, Fault
<1>9. ASSUME UNCHANGED vars PROVE Goal
  BY <1>0, <1>3, <1>9 DEF vars
<1>10. Goal
  BY <1>1, <1>2, <1>5, <1>6, <1>7, <1>8, <1>9
<1>11. QED
  BY <1>10 DEF Goal

\* A step of a delivery run keeps the types.
LEMMA RunKeepsTypes ==
    ASSUME OutboxTypes, NEW p \in Processes, NEW x \in Process, RunStep(p, x)
    PROVE  OutboxTypes'
<1>0. /\ process \in [Processes -> Process] /\ status \in [Notices -> Statuses] /\ DueOK
      /\ mailed \in [Notices -> Nat] /\ faults \in 0..MaxFaults /\ MaxFaults \in Nat
  BY BoundsAssumption DEF OutboxTypes
<1>1. process' \in [Processes -> Process] /\ refreshing' \in [Handlers -> Refresh]
      /\ inactive' \subseteq Notices /\ unwanted' \subseteq Notices /\ unreachable' \subseteq Notices
      /\ testing' \in BOOLEAN /\ changes' \in 0..MaxChanges
  BY <1>0 DEF RunStep, OutboxTypes, surroundings
<1>2. process[p].at \in Busy => process[p].notice \in Notices
  BY <1>0, ProcessFields
<1>3. x.at \in Busy => x.notice \in Notices
  BY ProcessFields
<1>4. faults' \in 0..MaxFaults
  <2>1. faults' = faults \/ (faults' = faults + 1 /\ faults < MaxFaults)
    BY DEF RunStep
  <2>2. QED
    BY <1>0, <2>1
<1>5. mailed' \in [Notices -> Nat]
  <2>1. mailed' = mailed \/ \E n \in Notices : mailed' = [mailed EXCEPT ![n] = @ + 1]
    BY <1>2, <1>3 DEF RunStep, Busy
  <2>2. QED
    BY <1>0, <2>1
<1>6. status' \in [Notices -> Statuses] /\ DueOK'
  <2>1. CASE UNCHANGED <<status, due>>
    BY <1>0, <2>1 DEF DueOK
  <2>2. ASSUME NEW n \in Notices, due' = RemoveFirst(due, n),
               status' = status \/ \E s \in Statuses : status' = [status EXCEPT ![n] = s]
        PROVE  status' \in [Notices -> Statuses] /\ DueOK'
    <3>1. status' \in [Notices -> Statuses] /\ \A m \in Notices \ {n} : status'[m] = status[m]
      BY <1>0, <2>2
    <3>2. QED
      BY <1>0, <2>2, <3>1, DueMade
  <2>3. "skipped" \in Statuses /\ "sent" \in Statuses
    BY DEF Statuses
  <2>4. UNCHANGED <<status, due>> \/ \E n \in Notices :
            /\ due' = RemoveFirst(due, n)
            /\ status' = status \/ \E s \in Statuses : status' = [status EXCEPT ![n] = s]
    BY <1>2, <2>3 DEF RunStep, Busy
  <2>5. QED
    BY <2>1, <2>2, <2>4
<1>7. QED
  BY <1>1, <1>4, <1>5, <1>6 DEF OutboxTypes

-----------------------------------------------------------------------------
(* The row lock *)

\* A notice that is being mailed is a due one, and one process's.
LocksHeld ==
    /\ \A p \in Processes : process[p].at \in Busy => process[p].notice \in Range(due)
    /\ \A p, q \in Processes :
          /\ process[p].at \in Busy /\ process[q].at \in Busy
          /\ process[p].notice = process[q].notice
          => p = q

\* Steps around the runs take no notice off the list and no lock.
LEMMA LocksAround ==
    ASSUME LocksHeld, AroundStep
    PROVE  LocksHeld'
  BY DEF LocksHeld, AroundStep

\* Runs take a lock on a free notice, and take a notice off that they hold or
\* that is free.
LEMMA LocksRun ==
    ASSUME OutboxTypes, LocksHeld, NEW p \in Processes, NEW x \in Process, RunStep(p, x)
    PROVE  LocksHeld'
<1>0. /\ process \in [Processes -> Process] /\ status \in [Notices -> Statuses] /\ DueOK
  BY DEF OutboxTypes
<1>1. process'[p] = x /\ \A q \in Processes \ {p} : process'[q] = process[q]
  BY <1>0 DEF RunStep
<1>2. process[p].at \in Busy => process[p].notice \in Notices
  BY <1>0, ProcessFields
<1>3. \A n \in Notices : due' = RemoveFirst(due, n) => Range(due') = Range(due) \ {n}
  BY <1>0, DueMade
\* The process gives up what it held, if anything, and nothing else is taken.
<1>4. ASSUME x.at \notin Busy, \A q \in Processes \ {p} :
                process[q].at \in Busy => process[q].notice \in Range(due')
      PROVE  LocksHeld'
  BY <1>1, <1>4 DEF LocksHeld
\* The process takes or keeps a notice that no other holds.
<1>5. ASSUME x.at \in Busy, x.notice \in Range(due), due' = due,
             \A q \in Processes \ {p} : process[q].at \in Busy => process[q].notice # x.notice
      PROVE  LocksHeld'
  BY <1>1, <1>5 DEF LocksHeld
<1>6. CASE x.at \notin Busy /\ due' = due
  BY <1>4, <1>6 DEF LocksHeld
<1>7. ASSUME NEW n \in Notices, x.at \notin Busy, due' = RemoveFirst(due, n),
             \A q \in Processes \ {p} : process[q].at \in Busy => process[q].notice # n
      PROVE  LocksHeld'
  <2>1. Range(due') = Range(due) \ {n}
    BY <1>3, <1>7
  <2>2. QED
    BY <1>4, <1>7, <2>1 DEF LocksHeld
<1>8. process[p].at \in Busy => \A q \in Processes \ {p} :
         process[q].at \in Busy => process[q].notice # process[p].notice
  BY DEF LocksHeld
<1>9. \/ x.at \notin Busy /\ due' = due
      \/ \E n \in Notices : /\ x.at \notin Busy /\ due' = RemoveFirst(due, n)
                            /\ \A q \in Processes \ {p} : process[q].at \in Busy => process[q].notice # n
      \/ /\ x.at \in Busy /\ x.notice \in Range(due) /\ due' = due
         /\ \A q \in Processes \ {p} : process[q].at \in Busy => process[q].notice # x.notice
  <2>1. process[p].at = "mailing" => process[p].notice \in Range(due)
    BY DEF LocksHeld, Busy
  <2>2. QED
    BY <1>2, <1>8, <2>1 DEF RunStep, Busy
<1>10. QED
  BY <1>5, <1>6, <1>7, <1>9

-----------------------------------------------------------------------------
(* Repeated mails *)

\* The mail server has taken the notice, and the row says so or the transaction
\* that will say so is under way.
Accounted(n) ==
    \/ status[n] = "sent"
    \/ \E p \in Processes : process[p].at = "accepted" /\ process[p].notice = n

\* The mails of each notice that no row and no transaction accounts for.
Lost == [n \in Notices |-> mailed[n] - IF Accounted(n) THEN 1 ELSE 0]

\* What is accounted for has been mailed, and what is not has cost a fault each.
LossesCounted ==
    /\ \A n \in Notices : Lost[n] \in Nat
    /\ SumFunctionOnSet(Lost, Notices) <= faults

\* Nothing is mailed at the start.
LEMMA LossesInit == Init => LossesCounted
<1> SUFFICES ASSUME Init PROVE LossesCounted
  OBVIOUS
<1>1. PICK f : f = Lost
  OBVIOUS
<1>2. \A n \in Notices : f[n] = 0
  BY <1>1 DEF Init, Lost, Accounted
<1>3. SumFunctionOnSet(f, Notices) <= SumFunctionOnSet([n \in Notices |-> 0], Notices)
  BY <1>2, SumPointwise, NoticesAssumption
<1>4. SumFunctionOnSet([n \in Notices |-> 0], Notices) = 0
  <2> DEFINE z == [n \in Notices |-> 0]
             G == {T \in SUBSET Notices : SumFunctionOnSet(z, T) = 0}
  <2>1. ASSUME NEW T \in SUBSET Notices, \A U \in SUBSET T : U # T => U \in G PROVE T \in G
    <3>1. CASE T = {}
      BY <3>1, SumEmpty
    <3>2. CASE T # {}
      <4>1. IsFiniteSet(T)
        BY FS_Subset, NoticesAssumption
      <4>2. AnyOf(T) \in T /\ SumFunctionOnSet(z, T) = z[AnyOf(T)] + SumFunctionOnSet(z, T \ {AnyOf(T)})
        BY <3>2, <4>1, SumTakesOne
      <4>3. T \ {AnyOf(T)} \in G /\ z[AnyOf(T)] = 0
        BY <2>1, <4>2
      <4>4. QED
        BY <4>2, <4>3
    <3>3. QED
      BY <3>1, <3>2
  <2> HIDE DEF G
  <2>2. Notices \in G
    BY <2>1, SubsetInduction, NoticesAssumption
  <2>3. QED
    BY <2>2 DEF G
<1>5. SumFunctionOnSet(f, Notices) \in Int
  BY <1>2, SumType, NoticesAssumption
<1>6. faults = 0
  BY DEF Init
<1>7. QED
  BY <1>1, <1>2, <1>3, <1>4, <1>5, <1>6 DEF LossesCounted

\* No mail is lost.
LEMMA NoneLost ==
    ASSUME OutboxTypes, LossesCounted, \A n \in Notices : Lost'[n] = Lost[n],
           faults' = faults \/ faults' = faults + 1
    PROVE  LossesCounted'
<1>1. PICK f, g : f = Lost /\ g = Lost'
  OBVIOUS
<1>2. \A n \in Notices : f[n] \in Nat /\ g[n] = f[n]
  BY <1>1 DEF LossesCounted
<1>3. SumFunctionOnSet(g, Notices) = SumFunctionOnSet(f, Notices)
  BY <1>2, SumSame, NoticesAssumption
<1>4. SumFunctionOnSet(f, Notices) \in Int
  BY <1>2, SumType, NoticesAssumption
<1>5. SumFunctionOnSet(f, Notices) <= faults /\ faults \in Nat
  BY <1>1, BoundsAssumption DEF LossesCounted, OutboxTypes
<1>6. SumFunctionOnSet(g, Notices) <= faults'
  BY <1>3, <1>4, <1>5
<1>7. QED
  BY <1>1, <1>2, <1>6 DEF LossesCounted

\* A fault loses one.
LEMMA OneLost ==
    ASSUME OutboxTypes, LossesCounted, NEW n \in Notices, Lost'[n] = Lost[n] + 1,
           \A m \in Notices \ {n} : Lost'[m] = Lost[m], faults' = faults + 1
    PROVE  LossesCounted'
<1>1. PICK f, g : f = Lost /\ g = Lost'
  OBVIOUS
<1>2. /\ \A m \in Notices : f[m] \in Nat
      /\ g[n] = f[n] + 1 /\ \A m \in Notices \ {n} : g[m] = f[m]
  BY <1>1 DEF LossesCounted
<1>3. SumFunctionOnSet(g, Notices) = SumFunctionOnSet(f, Notices) + 1
  BY <1>2, SumOneChanged, NoticesAssumption
<1>4. SumFunctionOnSet(f, Notices) \in Int
  BY <1>2, SumType, NoticesAssumption
<1>5. SumFunctionOnSet(f, Notices) <= faults /\ faults \in Nat
  BY <1>1, BoundsAssumption DEF LossesCounted, OutboxTypes
<1>6. SumFunctionOnSet(g, Notices) <= faults'
  BY <1>3, <1>4, <1>5
<1>7. \A m \in Notices : g[m] \in Nat
  BY <1>2
<1>8. QED
  BY <1>1, <1>6, <1>7 DEF LossesCounted

\* Steps around the runs lose nothing.
LEMMA LossesAround ==
    ASSUME OutboxTypes, LossesCounted, AroundStep
    PROVE  LossesCounted'
<1>1. status \in [Notices -> Statuses]
  BY DEF OutboxTypes
<1>2. \A n \in Notices : status'[n] = "sent" <=> status[n] = "sent"
  BY <1>1 DEF AroundStep
<1>3. \A n \in Notices : Accounted(n)' <=> Accounted(n)
  BY <1>2 DEF Accounted, AroundStep
<1>4. \A n \in Notices : Lost'[n] = Lost[n]
  BY <1>3 DEF Lost, AroundStep
<1>5. QED
  BY <1>4, NoneLost DEF AroundStep

\* A run that is about to mail a notice finds it pending and unaccounted for, and
\* one that has mailed it is the only one to account for it.
LEMMA HeldNotice ==
    ASSUME OutboxTypes, LocksHeld, NEW p \in Processes, process[p].at \in Busy
    PROVE  /\ process[p].notice \in Notices
           /\ status[process[p].notice] = "pending"
           /\ \A q \in Processes \ {p} : ~(process[q].at = "accepted" /\ process[q].notice = process[p].notice)
           /\ Accounted(process[p].notice) <=> process[p].at = "accepted"
<1>1. process[p].notice \in Notices
  BY ProcessFields DEF OutboxTypes
<1>2. status[process[p].notice] = "pending"
  BY DEF OutboxTypes, DueOK, LocksHeld
<1>3. \A q \in Processes \ {p} : ~(process[q].at = "accepted" /\ process[q].notice = process[p].notice)
  BY DEF LocksHeld, Busy
<1>4. Accounted(process[p].notice) <=> process[p].at = "accepted"
  BY <1>2, <1>3 DEF Accounted
<1>5. QED
  BY <1>1, <1>2, <1>3, <1>4

\* Runs lose a mail only by a fault, and then one.
LEMMA LossesRun ==
    ASSUME OutboxTypes, LocksHeld, LossesCounted, NEW p \in Processes, NEW x \in Process, RunStep(p, x)
    PROVE  LossesCounted'
<1>0. /\ process \in [Processes -> Process] /\ status \in [Notices -> Statuses] /\ DueOK
      /\ mailed \in [Notices -> Nat]
  BY DEF OutboxTypes
<1>1. process'[p] = x /\ \A q \in Processes \ {p} : process'[q] = process[q]
  BY <1>0 DEF RunStep
\* A notice that the step does not touch is accounted for as it was.
<1>2. ASSUME NEW n \in Notices, status'[n] = "sent" <=> status[n] = "sent", mailed'[n] = mailed[n],
             x.at = "accepted" /\ x.notice = n <=> process[p].at = "accepted" /\ process[p].notice = n
      PROVE  Lost'[n] = Lost[n]
  <2>1. Accounted(n)' <=> Accounted(n)
    BY <1>1, <1>2 DEF Accounted
  <2>2. QED
    BY <1>2, <2>1 DEF Lost
\* The run begins, ends or takes up a notice.
<1>3. CASE x.at # "accepted" /\ process[p].at # "accepted" /\ UNCHANGED <<status, mailed, faults>>
  <2>1. \A n \in Notices : Lost'[n] = Lost[n]
    BY <1>2, <1>3
  <2>2. QED
    BY <1>3, <2>1, NoneLost
\* It skips a notice or puts it off.
<1>4. ASSUME x.at \notin Busy, process[p].at = "run", faults' = faults, mailed' = mailed,
             NEW n \in Notices, n \in Range(due),
             status' = status \/ status' = [status EXCEPT ![n] = "skipped"]
      PROVE  LossesCounted'
  <2>1. status[n] = "pending"
    BY <1>0, <1>4 DEF DueOK
  <2>2. \A m \in Notices : status'[m] = "sent" <=> status[m] = "sent"
    BY <1>0, <1>4, <2>1
  <2>3. \A m \in Notices : Lost'[m] = Lost[m]
    BY <1>2, <1>4, <2>2 DEF Busy
  <2>4. QED
    BY <1>4, <2>3, NoneLost
\* The mail server takes the notice.
<1>5. CASE /\ process[p].at = "mailing" /\ x.at = "accepted" /\ x.notice = process[p].notice
           /\ mailed' = [mailed EXCEPT ![x.notice] = @ + 1]
           /\ UNCHANGED <<status, faults>>
  <2>1. PICK n : n = x.notice
    OBVIOUS
  <2>2. n \in Notices /\ ~Accounted(n)
    BY <1>5, <2>1, HeldNotice DEF Busy
  <2>3. Accounted(n)'
    BY <1>1, <1>5, <2>1 DEF Accounted
  <2>4. mailed'[n] = mailed[n] + 1 /\ mailed[n] \in Nat /\ \A m \in Notices \ {n} : mailed'[m] = mailed[m]
    BY <1>0, <1>5, <2>1, <2>2
  <2>5. Lost'[n] = Lost[n]
    BY <2>2, <2>3, <2>4 DEF Lost
  <2>6. \A m \in Notices \ {n} : Lost'[m] = Lost[m]
    BY <1>2, <1>5, <2>1, <2>4
  <2>7. QED
    BY <1>5, <2>5, <2>6, NoneLost
\* It refuses it, or its answer is lost.
<1>6. CASE process[p].at = "mailing" /\ x.at \notin Busy /\ status' = status
  <2>1. PICK n : n = process[p].notice
    OBVIOUS
  <2>2. n \in Notices /\ ~Accounted(n)
    BY <1>6, <2>1, HeldNotice DEF Busy
  <2>3. ~Accounted(n)'
    BY <1>1, <1>6, <2>2 DEF Accounted, Busy
  <2>4. CASE mailed' = mailed /\ faults' = faults
    <3>1. \A m \in Notices : Lost'[m] = Lost[m]
      BY <1>2, <1>6, <2>4 DEF Busy
    <3>2. QED
      BY <2>4, <3>1, NoneLost
  <2>5. CASE mailed' = [mailed EXCEPT ![process[p].notice] = @ + 1] /\ faults' = faults + 1
    <3>1. mailed'[n] = mailed[n] + 1 /\ mailed[n] \in Nat /\ \A m \in Notices \ {n} : mailed'[m] = mailed[m]
      BY <1>0, <2>1, <2>2, <2>5
    <3>2. Lost'[n] = Lost[n] + 1
      BY <2>2, <2>3, <3>1 DEF Lost
    <3>3. \A m \in Notices \ {n} : Lost'[m] = Lost[m]
      BY <1>2, <1>6, <3>1 DEF Busy
    <3>4. QED
      BY <2>2, <2>5, <3>2, <3>3, OneLost
  <2>6. CASE mailed' = mailed /\ faults' = faults + 1
    <3>1. \A m \in Notices : Lost'[m] = Lost[m]
      BY <1>2, <1>6, <2>6 DEF Busy
    <3>2. QED
      BY <2>6, <3>1, NoneLost
  <2>7. QED
    BY <1>6, <2>4, <2>5, <2>6 DEF RunStep, Busy
\* The row says it is sent.
<1>7. CASE /\ process[p].at = "accepted" /\ x.at \notin Busy
           /\ status' = [status EXCEPT ![process[p].notice] = "sent"]
           /\ UNCHANGED <<mailed, faults>>
  <2>1. PICK n : n = process[p].notice
    OBVIOUS
  <2>2. n \in Notices /\ Accounted(n)
    BY <1>7, <2>1, HeldNotice DEF Busy
  <2>3. Accounted(n)' /\ \A m \in Notices \ {n} : status'[m] = status[m]
    BY <1>0, <1>7, <2>1, <2>2 DEF Accounted
  <2>4. Lost'[n] = Lost[n]
    BY <1>7, <2>2, <2>3 DEF Lost
  <2>5. \A m \in Notices \ {n} : Lost'[m] = Lost[m]
    BY <1>2, <1>7, <2>1, <2>3 DEF Busy
  <2>6. QED
    BY <1>7, <2>4, <2>5, NoneLost
\* The transaction is lost with the database or the process.
<1>8. CASE x.at \notin Busy /\ faults' = faults + 1 /\ UNCHANGED <<status, mailed>>
  <2>1. CASE process[p].at # "accepted"
    <3>1. \A m \in Notices : Lost'[m] = Lost[m]
      BY <1>2, <1>8, <2>1 DEF Busy
    <3>2. QED
      BY <1>8, <3>1, NoneLost
  <2>2. CASE process[p].at = "accepted"
    <3>1. PICK n : n = process[p].notice
      OBVIOUS
    <3>2. /\ n \in Notices /\ Accounted(n) /\ status[n] = "pending"
          /\ \A q \in Processes \ {p} : ~(process[q].at = "accepted" /\ process[q].notice = n)
      BY <2>2, <3>1, HeldNotice DEF Busy
    <3>3. ~Accounted(n)'
      BY <1>1, <1>8, <3>2 DEF Accounted, Busy
    <3>4. Lost'[n] = Lost[n] + 1
      BY <1>0, <1>8, <3>2, <3>3 DEF Lost
    <3>5. \A m \in Notices \ {n} : Lost'[m] = Lost[m]
      BY <1>2, <1>8, <3>1 DEF Busy
    <3>6. QED
      BY <1>8, <3>2, <3>4, <3>5, OneLost
  <2>3. QED
    BY <2>1, <2>2
<1>9. QED
  BY <1>3, <1>4, <1>5, <1>6, <1>7, <1>8 DEF RunStep, Busy

-----------------------------------------------------------------------------
(* What the outbox delivers *)

OutboxInv == OutboxTypes /\ LocksHeld /\ LossesCounted

\* The inductive invariant holds in every reachable state.
THEOREM OutboxInductive == Spec => []OutboxInv
<1>1. Init => OutboxInv
  <2>1. Init => LocksHeld
    BY DEF Init, LocksHeld, Busy
  <2>2. QED
    BY <2>1, OutboxTypesInit, LossesInit DEF OutboxInv
<1>2. OutboxInv /\ [Next]_vars => OutboxInv'
  <2> SUFFICES ASSUME OutboxInv, [Next]_vars PROVE OutboxInv'
    OBVIOUS
  <2> USE DEF OutboxInv
  <2>1. ASSUME NEW p \in Processes,
               Deliver(p) \/ (\E n \in Notices : Accept(p, n)) \/ Crash(p) \/ Restart(p)
        PROVE  OutboxInv'
    <3>1. PICK x \in Process : RunStep(p, x)
      BY <2>1, RunSteps
    <3>2. QED
      BY <3>1, RunKeepsTypes, LocksRun, LossesRun
  <2>2. ASSUME \/ \E n \in Notices : Enqueue(n) \/ Deactivate(n) \/ Unwant(n) \/ Readdress(n) \/ FallDue(n)
               \/ \E h \in Handlers :
                    \/ ReadTesting(h) \/ KeepTesting(h) \/ FailRefresh(h)
                    \/ \E p \in Processes : ViewTesting(h, p) \/ \E b \in BOOLEAN : SetTesting(h, p, b)
               \/ UNCHANGED vars
        PROVE  OutboxInv'
    <3>1. OutboxTypes' /\ AroundStep
      BY <2>2, AroundSteps
    <3>2. QED
      BY <3>1, LocksAround, LossesAround
  <2> HIDE DEF OutboxInv
  <2>3. QED
    BY <2>1, <2>2 DEF Next
<1>3. QED
  BY <1>1, <1>2, PTL DEF Spec

\* However many processes share the outbox and however often they retry, a
\* notice is mailed again only at the price of a fault: of a transaction lost
\* between the mail server's taking a message and the row's saying so.
THEOREM OnlyFaultsRepeat == Spec => []DeliveryInv
<1>1. OutboxInv => DeliveryInv
  <2> SUFFICES ASSUME OutboxInv PROVE DeliveryInv
    OBVIOUS
  <2>0. /\ OutboxTypes /\ LossesCounted /\ mailed \in [Notices -> Nat]
        /\ faults \in 0..MaxFaults /\ MaxFaults \in Nat
    BY BoundsAssumption DEF OutboxInv, OutboxTypes
  <2>1. PICK f : f = Lost
    OBVIOUS
  <2>2. PICK e : e = [n \in Notices |-> IF mailed[n] > 1 THEN mailed[n] - 1 ELSE 0]
    OBVIOUS
  <2>3. \A n \in Notices : f[n] \in Nat
    BY <2>0, <2>1 DEF LossesCounted
  <2>4. \A n \in Notices : f[n] = mailed[n] \/ f[n] = mailed[n] - 1
    BY <2>0, <2>1 DEF Lost
  <2>5. \A n \in Notices : e[n] \in Nat /\ e[n] <= f[n]
    BY <2>0, <2>2, <2>3, <2>4
  <2>6. SumFunctionOnSet(f, Notices) <= faults /\ SumFunctionOnSet(f, Notices) \in Int
    BY <2>0, <2>1, <2>3, SumType, NoticesAssumption DEF LossesCounted
  <2>7. SumFunctionOnSet(e, Notices) <= SumFunctionOnSet(f, Notices)
        /\ SumFunctionOnSet(e, Notices) \in Int
    BY <2>3, <2>5, SumPointwise, SumType, NoticesAssumption
  <2>8. Repeats = SumFunctionOnSet(e, Notices)
    BY <2>2 DEF Repeats, SumFunction
  <2>9. RepeatsAreFaults
    BY <2>0, <2>6, <2>7, <2>8 DEF RepeatsAreFaults
  <2>10. ASSUME NEW n \in Notices PROVE mailed[n] \in 0..MaxFaults + 1
    <3>1. SumFunctionOnSet(f, {n}) <= SumFunctionOnSet(f, Notices)
      BY <2>3, SumMonotone, NoticesAssumption
    <3>2. SumFunctionOnSet(f, {n}) = f[n]
      <4>1. {n} = {} \cup {n} /\ SumFunctionOnSet(f, {}) = 0
        BY SumEmpty
      <4>2. SumFunctionOnSet(f, {} \cup {n}) = SumFunctionOnSet(f, {}) + f[n]
        BY <2>3, SumAdd, FS_EmptySet
      <4>3. QED
        BY <2>3, <4>1, <4>2
    <3>3. f[n] \in Nat /\ mailed[n] \in Nat /\ (f[n] = mailed[n] \/ f[n] = mailed[n] - 1)
      BY <2>0, <2>3, <2>4
    <3>4. QED
      BY <2>0, <2>6, <3>1, <3>2, <3>3
  <2>11. mailed \in [Notices -> 0..MaxFaults + 1]
    BY <2>0, <2>10
  <2>12. TypeOK
    BY <2>0, <2>11 DEF TypeOK, OutboxTypes, DueOK
  <2>13. QED
    BY <2>9, <2>12 DEF DeliveryInv
<1>2. QED
  BY <1>1, OutboxInductive, PTL

\* The outbox keeps the promise of NoticePromise: whatever fails, a notice that an
\* application transaction committed is owed until the mail server has it or it
\* is found unwanted, and is final from then on.
THEOREM OutboxKeepsPromise == Spec => KeepsPromise
<1> USE DEF KeepsPromise
<1>1. Init => Promise!Init
  BY DEF Init, Promise!Init
<1>2. OutboxInv /\ OutboxInv' /\ [Next]_vars => [Promise!Next]_(Promise!vars)
  <2> SUFFICES ASSUME OutboxInv, OutboxInv', [Next]_vars
               PROVE  Promise!Next \/ UNCHANGED Promise!vars
    OBVIOUS
  <2> DEFINE owed == {n \in Notices : status[n] = "pending"}
             told == {n \in Notices : mailed[n] > 0}
             closed == {n \in Notices : status[n] \in {"sent", "skipped"}}
             moot == inactive \cup unwanted
             Goal == Promise!Next \/ UNCHANGED Promise!vars
  <2>0. /\ OutboxTypes /\ LocksHeld /\ LossesCounted
        /\ status \in [Notices -> Statuses] /\ mailed \in [Notices -> Nat]
        /\ process \in [Processes -> Process] /\ DueOK /\ inactive' \subseteq Notices /\ unwanted' \subseteq Notices
    BY DEF OutboxInv, OutboxTypes
  <2>1. ASSUME UNCHANGED <<status, mailed, inactive, unwanted>> PROVE Goal
    BY <2>1 DEF Promise!vars
  <2>2. ASSUME UNCHANGED <<status, mailed>> PROVE Goal
    BY <2>0, <2>2 DEF Promise!Next, Promise!MoveOn
  <2>3. ASSUME NEW n \in Notices, status[n] = "absent", status' = [status EXCEPT ![n] = "pending"],
               UNCHANGED <<mailed, inactive, unwanted>>
        PROVE  Goal
    <3>1. owed' = owed \cup {n} /\ closed' = closed /\ told' = told /\ n \notin owed \cup closed
      BY <2>0, <2>3
    <3>2. Promise!Owe(n)
      BY <2>3, <3>1 DEF Promise!Owe
    <3>3. QED
      BY <3>2 DEF Promise!Next
  <2>4. ASSUME NEW n \in Notices, status[n] = "pending", UNCHANGED <<status, inactive, unwanted>>,
               mailed' = [mailed EXCEPT ![n] = @ + 1]
        PROVE  Goal
    <3>1. told' = told \cup {n} /\ n \in owed
      BY <2>0, <2>4
    <3>2. Promise!Tell(n)
      BY <2>4, <3>1 DEF Promise!Tell
    <3>3. QED
      BY <3>2 DEF Promise!Next
  <2>5. ASSUME NEW n \in Notices, status[n] = "pending", NEW s \in {"sent", "skipped"},
               status' = [status EXCEPT ![n] = s], UNCHANGED <<mailed, inactive, unwanted>>,
               n \in inactive \cup unwanted \/ mailed[n] > 0
        PROVE  Goal
    <3>1. owed' = owed \ {n} /\ closed' = closed \cup {n} /\ n \in owed /\ n \in told \cup moot
      BY <2>0, <2>5
    <3>2. Promise!Close(n)
      BY <2>5, <3>1 DEF Promise!Close
    <3>3. QED
      BY <3>2 DEF Promise!Next
  <2> HIDE DEF Goal
  <2>6. ASSUME AroundStep PROVE Goal
    BY <2>2, <2>3, <2>6 DEF AroundStep
  <2>7. ASSUME NEW p \in Processes, NEW x \in Process, RunStep(p, x) PROVE Goal
    <3>0. UNCHANGED <<inactive, unwanted>>
      BY <2>7 DEF RunStep, surroundings
    <3>1. ASSUME NEW n \in Notices, n \in Range(due),
                 status' = status \/ (n \in inactive \cup unwanted /\ status' = [status EXCEPT ![n] = "skipped"]),
                 mailed' = mailed
          PROVE  Goal
      <4>1. status[n] = "pending"
        BY <2>0, <3>1 DEF DueOK
      <4>2. QED
        BY <2>1, <2>5, <3>0, <3>1, <4>1
    <3>2. ASSUME process[p].at = "mailing", status' = status,
                 \/ mailed' = mailed
                 \/ mailed' = [mailed EXCEPT ![process[p].notice] = @ + 1]
          PROVE  Goal
      <4>1. process[p].notice \in Notices /\ status[process[p].notice] = "pending"
        BY <2>0, <3>2, HeldNotice DEF Busy
      <4>2. QED
        BY <2>1, <2>4, <3>0, <3>2, <4>1
    <3>3. ASSUME process[p].at = "accepted", mailed' = mailed,
                 status' = [status EXCEPT ![process[p].notice] = "sent"]
          PROVE  Goal
      <4>1. PICK n : n = process[p].notice
        OBVIOUS
      <4>2. n \in Notices /\ status[n] = "pending" /\ Accounted(n)
        BY <2>0, <3>3, <4>1, HeldNotice DEF Busy
      <4>3. Lost[n] \in Nat /\ Lost[n] = mailed[n] - 1 /\ mailed[n] \in Nat
        BY <2>0, <4>2 DEF LossesCounted, Lost
      <4>4. mailed[n] > 0
        BY <4>3
      <4>5. QED
        BY <2>5, <3>0, <3>3, <4>1, <4>2, <4>4
    <3>4. CASE UNCHANGED <<status, mailed>>
      BY <2>2, <3>4
    <3>5. QED
      BY <2>7, <3>1, <3>2, <3>3, <3>4 DEF RunStep
  <2>8. ASSUME NEW p \in Processes,
               Deliver(p) \/ (\E n \in Notices : Accept(p, n)) \/ Crash(p) \/ Restart(p)
        PROVE  Goal
    BY <2>0, <2>7, <2>8, RunSteps
  <2>9. ASSUME \/ \E n \in Notices : Enqueue(n) \/ Deactivate(n) \/ Unwant(n) \/ Readdress(n) \/ FallDue(n)
               \/ \E h \in Handlers :
                    \/ ReadTesting(h) \/ KeepTesting(h) \/ FailRefresh(h)
                    \/ \E p \in Processes : ViewTesting(h, p) \/ \E b \in BOOLEAN : SetTesting(h, p, b)
               \/ UNCHANGED vars
        PROVE  Goal
    BY <2>0, <2>6, <2>9, AroundSteps
  <2>10. Goal
    BY <2>8, <2>9 DEF Next
  <2>11. QED
    BY <2>10 DEF Goal
<1>3. QED
  BY <1>1, <1>2, OutboxInductive, PTL DEF Spec, Promise!Spec

-----------------------------------------------------------------------------
(* Days and the years they are in *)

LEMMA StartType ==
    ASSUME NEW y \in Nat
    PROVE  StartOf(y) \in Nat
<1>1. Year \in Nat
  BY JobsAssumption
<1> QED
  BY <1>1 DEF StartOf

LEMMA YearBounds ==
    ASSUME NEW d \in Nat
    PROVE  /\ ServiceYear(d) \in Nat
           /\ StartOf(ServiceYear(d)) \in Nat /\ StartOf(ServiceYear(d)) <= d
           /\ d < StartOf(ServiceYear(d)) + Year
<1>1. Year \in Nat /\ Year > 0
  BY JobsAssumption
<1> QED
  BY <1>1 DEF ServiceYear, StartOf

LEMMA YearsInOrder ==
    ASSUME NEW y \in Nat, NEW z \in Nat, y < z
    PROVE  /\ StartOf(y) \in Nat /\ StartOf(z) \in Nat
           /\ StartOf(y) + Year <= StartOf(z)
<1>1. Year \in Nat /\ Year > 0
  BY JobsAssumption
<1>2. PICK k \in Nat : z = y + 1 + k
  <2>1. z - y - 1 \in Nat /\ z = y + 1 + (z - y - 1)
    OBVIOUS
  <2> QED
    BY <2>1
<1>3. k * Year \in Nat
  BY <1>1
<1>4. (y + 1 + k) * Year = y * Year + Year + k * Year
  BY <1>1
<1>5. y * Year \in Nat /\ z * Year \in Nat
  BY <1>1
<1> QED
  BY <1>1, <1>2, <1>3, <1>4, <1>5 DEF StartOf

\* A day is in a year when it lies between its first day and that of the next.
LEMMA InYear ==
    ASSUME NEW d \in Nat, NEW y \in Nat
    PROVE  /\ StartOf(y) <= d <=> y <= ServiceYear(d)
           /\ d < StartOf(y) <=> ServiceYear(d) < y
<1>1. ServiceYear(d) \in Nat /\ StartOf(ServiceYear(d)) \in Nat /\ StartOf(y) \in Nat /\ Year \in Nat
  BY YearBounds, StartType, JobsAssumption
<1>2. CASE y <= ServiceYear(d)
  <2>1. y = ServiceYear(d) \/ y < ServiceYear(d)
    BY <1>1, <1>2
  <2>2. StartOf(y) <= StartOf(ServiceYear(d))
    BY <1>1, <2>1, YearsInOrder
  <2> QED
    BY <1>1, <1>2, <2>2, YearBounds
<1>3. CASE ServiceYear(d) < y
  <2>1. StartOf(ServiceYear(d)) + Year <= StartOf(y)
    BY <1>1, <1>3, YearsInOrder
  <2> QED
    BY <1>1, <1>3, <2>1, YearBounds
<1> QED
  BY <1>1, <1>2, <1>3

LEMMA YearsGrow ==
    ASSUME NEW d \in Nat, NEW n \in Nat, d <= n
    PROVE  ServiceYear(d) <= ServiceYear(n)
<1>1. ServiceYear(d) \in Nat /\ StartOf(ServiceYear(d)) <= d /\ StartOf(ServiceYear(d)) \in Nat
  BY YearBounds
<1>2. StartOf(ServiceYear(d)) <= n
  BY <1>1
<1> QED
  BY <1>1, <1>2, InYear

LEMMA StartsItsYear ==
    ASSUME NEW y \in Nat
    PROVE  StartOf(y) \in Nat /\ ServiceYear(StartOf(y)) = y
<1>1. StartOf(y) \in Nat /\ ServiceYear(StartOf(y)) \in Nat
  <2>1. StartOf(y) \in Nat
    BY StartType
  <2> QED
    BY <2>1, YearBounds
<1>2. y <= ServiceYear(StartOf(y))
  BY <1>1, InYear
<1>3. ~(ServiceYear(StartOf(y)) > y)
  BY <1>1, InYear, YearsInOrder, JobsAssumption
<1> QED
  BY <1>1, <1>2, <1>3

-----------------------------------------------------------------------------
Posting == [kind: {"accrual", "renewal"}, code: Codes, date: Days]
Account == [open: BOOLEAN, asOf: Days, balance: Int, manual: BOOLEAN]
Books == [account: [Codes -> [ServiceYears -> Account]], posts: SUBSET Posting]

\* The balances of a code are in order: each began in its year, and what was not opened is empty;
\* a year that was renewed follows one that is open.
Orderly(a) ==
    /\ a \in [ServiceYears -> Account]
    /\ \A y \in ServiceYears :
        /\ a[y].open => ServiceYear(a[y].asOf) = y
        /\ ~a[y].open => a[y].balance = 0
        /\ y # 0 /\ a[y].open /\ ~a[y].manual => a[y - 1].open

LEMMA Governs ==
    ASSUME NEW d, Governed(d)
    PROVE  Governing(d) \in Covering(d) /\ Governing(d) \in Policies
BY DEF Governed, Governing, Covering, Published

LEMMA ReservedType == \A e, c, y : Reserved(e, c, y) \in Nat
<1> SUFFICES ASSUME NEW e, NEW c, NEW y PROVE Reserved(e, c, y) \in Nat
  OBVIOUS
<1> DEFINE Q == {q \in Requests : leave[q].status = "pending" /\ Leave[q].employee = e
                                  /\ Leave[q].code = c /\ ServiceYear(Leave[q].day) = y}
<1>1. IsFiniteSet(Q)
  BY JobsAssumption, FS_Subset
<1> QED
  BY <1>1, FS_CardinalityType DEF Reserved

\* What a renewal of a year makes of balances that are in order.
LEMMA RenewMakes ==
    ASSUME NEW e, NEW c, NEW s, NEW y, NEW u, c \in Codes, s \in Books, Orderly(s.account[c]),
           y \in ServiceYears, y # 0, s.account[c][y - 1].open, u \in Renew(e, c, s, y)
    PROVE  /\ u \in Books /\ Orderly(u.account[c]) /\ \A k \in Codes \ {c} : u.account[k] = s.account[k]
           /\ ~s.account[c][y].open /\ Reserved(e, c, y - 1) = 0 /\ Governed(StartOf(y))
           /\ u.posts = s.posts \cup {Post("renewal", c, StartOf(y))}
           /\ \A z \in ServiceYears \ {y, y - 1} : u.account[c][z] = s.account[c][z]
           /\ u.account[c][y].open /\ ~u.account[c][y].manual /\ u.account[c][y].asOf = StartOf(y)
           /\ c = "recreation" => u.account[c][y].balance = s.account[c][y - 1].balance
           /\ u.account[c][y - 1].balance = 0 /\ u.account[c][y - 1].open
           /\ u.account[c][y - 1].manual = s.account[c][y - 1].manual
           /\ u.account[c][y - 1].asOf = s.account[c][y - 1].asOf
<1> DEFINE a == s.account[c]
           granted == IF c = "recreation" THEN a[y - 1].balance ELSE Annual[Governing(StartOf(y))]
           o == [open |-> TRUE, asOf |-> StartOf(y), balance |-> granted, manual |-> FALSE]
<1>1. y \in Nat /\ y - 1 \in ServiceYears /\ StartOf(y) \in Days /\ ServiceYear(StartOf(y)) = y
  <2>1. LastDay \in Nat
    BY JobsAssumption
  <2>2. y \in Nat /\ y - 1 \in ServiceYears /\ y <= ServiceYear(LastDay)
    BY <2>1, YearBounds DEF ServiceYears
  <2>3. StartOf(y) \in Nat /\ ServiceYear(StartOf(y)) = y /\ StartOf(y) <= LastDay
    BY <2>1, <2>2, StartsItsYear, InYear
  <2> QED
    BY <2>1, <2>2, <2>3 DEF Days
<1>2. /\ ~a[y].open /\ ~(Reserved(e, c, y - 1) > 0) /\ Governed(StartOf(y))
      /\ u = [account |-> [s.account EXCEPT ![c] = [@ EXCEPT ![y - 1].balance = 0, ![y] = o]],
              posts |-> s.posts \cup {Post("renewal", c, StartOf(y))}]
  BY DEF Renew, Opened
<1>3. granted \in Int
  <2>1. a[y - 1] \in Account
    BY <1>1 DEF Books
  <2>2. Annual[Governing(StartOf(y))] \in Int
    BY <1>2, Governs, JobsAssumption
  <2> QED
    BY <2>1, <2>2 DEF Account
<1> HIDE DEF granted
<1>4. o \in Account
  BY <1>1, <1>3 DEF Account
<1>5. PICK b : b = [a EXCEPT ![y - 1].balance = 0, ![y] = o]
  OBVIOUS
<1>6. a \in [ServiceYears -> Account] /\ a[y - 1] \in Account
  BY <1>1 DEF Books
<1>7. /\ b \in [ServiceYears -> Account] /\ b[y] = o
      /\ b[y - 1] = [a[y - 1] EXCEPT !.balance = 0]
      /\ \A z \in ServiceYears \ {y, y - 1} : b[z] = a[z]
  <2>1. y - 1 # y
    BY <1>1
  <2>2. [a[y - 1] EXCEPT !.balance = 0] \in Account
    BY <1>6 DEF Account
  <2>3. PICK w : w = [a[y - 1] EXCEPT !.balance = 0]
    OBVIOUS
  <2>4. b = [[a EXCEPT ![y - 1] = w] EXCEPT ![y] = o]
    BY <1>5, <2>3
  <2> QED
    BY <1>1, <1>4, <1>6, <2>1, <2>2, <2>3, <2>4
<1>8. u.account = [s.account EXCEPT ![c] = b] /\ u.posts = s.posts \cup {Post("renewal", c, StartOf(y))}
      /\ u = [account |-> u.account, posts |-> u.posts]
  BY <1>2, <1>5
<1>9. u.account[c] = b /\ u.account \in [Codes -> [ServiceYears -> Account]]
      /\ \A k \in Codes \ {c} : u.account[k] = s.account[k]
  BY <1>7, <1>8 DEF Books
<1>10. u \in Books
  <2>1. Post("renewal", c, StartOf(y)) \in Posting
    BY <1>1 DEF Post, Posting
  <2> QED
    BY <1>8, <1>9, <2>1 DEF Books
<1>11. /\ b[y - 1].balance = 0 /\ b[y - 1].open = a[y - 1].open /\ b[y - 1].manual = a[y - 1].manual
       /\ b[y - 1].asOf = a[y - 1].asOf
  BY <1>6, <1>7 DEF Account
<1>12. Orderly(b)
  <2> SUFFICES ASSUME NEW z \in ServiceYears
               PROVE  /\ b[z].open => ServiceYear(b[z].asOf) = z
                      /\ ~b[z].open => b[z].balance = 0
                      /\ z # 0 /\ b[z].open /\ ~b[z].manual => b[z - 1].open
    BY <1>7 DEF Orderly
  <2>1. z # 0 => z - 1 \in ServiceYears
    BY YearBounds, JobsAssumption DEF ServiceYears
  <2>2. z - 1 # z /\ (z - 1 = y - 1 => z = y) /\ z \in Int /\ y \in Int
    BY YearBounds, JobsAssumption DEF ServiceYears
  <2>3. CASE z = y
    <3>1. b[z - 1].open
      BY <1>11, <2>3
    <3>2. b[z].open /\ b[z].asOf = StartOf(y)
      BY <1>7, <2>3
    <3> QED
      BY <1>1, <2>3, <3>1, <3>2
  <2>4. CASE z = y - 1
    <3>1. z # 0 => b[z - 1] = a[z - 1]
      BY <1>7, <2>1, <2>2, <2>4
    <3> QED
      BY <1>1, <1>7, <1>11, <2>1, <2>2, <2>4, <3>1 DEF Orderly
  <2>5. CASE z # y /\ z # y - 1
    <3>1. b[z] = a[z]
      BY <1>7, <2>5
    <3>2. z # 0 /\ z - 1 # y - 1 => b[z - 1] = a[z - 1] \/ z - 1 = y
      BY <1>7, <2>1
    <3> QED
      BY <1>7, <2>1, <2>2, <2>5, <3>1, <3>2 DEF Orderly
  <2> QED
    BY <2>3, <2>4, <2>5
<1>13. Reserved(e, c, y - 1) = 0
  BY <1>2, ReservedType
<1>14. c = "recreation" => granted = a[y - 1].balance
  BY DEF granted
<1>15. y - 1 \in ServiceYears /\ y \in ServiceYears /\ c \in Codes
  BY <1>1
<1> HIDE DEF o
<1>16. o.open /\ ~o.manual /\ o.asOf = StartOf(y) /\ o.balance = granted
  BY DEF o
<1> QED
  BY <1>2, <1>7, <1>8, <1>9, <1>10, <1>11, <1>12, <1>13, <1>14, <1>15, <1>16

-----------------------------------------------------------------------------
LEMMA YearsFinite == IsFiniteSet(ServiceYears) /\ ServiceYears \subseteq Nat /\ ServiceYear(LastDay) \in Nat
<1>1. LastDay \in Nat /\ ServiceYear(LastDay) \in Nat
  BY YearBounds, JobsAssumption
<1> QED
  BY <1>1, FS_Interval DEF ServiceYears

LEMMA TotalType ==
    ASSUME NEW a \in [ServiceYears -> Account]
    PROVE  Total(a) \in Int
<1> DEFINE f == [y \in ServiceYears |-> a[y].balance]
<1>1. \A y \in ServiceYears : f[y] \in Int
  BY DEF Account
<1> HIDE DEF f
<1>2. SumFunctionOnSet(f, ServiceYears) \in Int
  BY <1>1, YearsFinite, SumType
<1> QED
  BY <1>2 DEF f, Total

\* What is moved from one year to an empty one is not lost.
LEMMA TotalMoved ==
    ASSUME NEW a, NEW b, NEW y, NEW x,
           a \in [ServiceYears -> Account], b \in [ServiceYears -> Account],
           y \in ServiceYears, x \in ServiceYears, x # y,
           a[y].balance = 0, b[x].balance = 0, b[y].balance = a[x].balance,
           \A z \in ServiceYears \ {y, x} : b[z] = a[z]
    PROVE  Total(b) = Total(a)
<1>0. PICK f, g : /\ f = [z \in ServiceYears |-> a[z].balance]
                  /\ g = [z \in ServiceYears |-> b[z].balance]
  OBVIOUS
<1>1. f \in [ServiceYears -> Int] /\ g \in [ServiceYears -> Int] /\ IsFiniteSet(ServiceYears)
  BY <1>0, YearsFinite DEF Account
<1>2. f[y] = 0 /\ g[x] = 0 /\ g[y] = f[x] /\ \A z \in ServiceYears \ {x, y} : g[z] = f[z]
  BY <1>0
<1>3. Total(a) = SumFunctionOnSet(f, ServiceYears) /\ Total(b) = SumFunctionOnSet(g, ServiceYears)
  BY <1>0 DEF Total
<1>4. SumFunctionOnSet(g, ServiceYears) = SumFunctionOnSet(f, ServiceYears)
  BY <1>1, <1>2, SumMoved
<1> QED
  BY <1>3, <1>4

\* What is added to one year is added in all.
LEMMA TotalRaised ==
    ASSUME NEW a, NEW b, NEW y, NEW k,
           a \in [ServiceYears -> Account], b \in [ServiceYears -> Account],
           y \in ServiceYears, k \in Int, b[y].balance = a[y].balance + k,
           \A z \in ServiceYears \ {y} : b[z] = a[z]
    PROVE  Total(b) = Total(a) + k
<1>0. PICK f, g : /\ f = [z \in ServiceYears |-> a[z].balance]
                  /\ g = [z \in ServiceYears |-> b[z].balance]
  OBVIOUS
<1>1. /\ f \in [ServiceYears -> Int] /\ g \in [ServiceYears -> Int]
      /\ g[y] = f[y] + k
      /\ \A z \in ServiceYears \ {y} : g[z] = f[z]
  BY <1>0 DEF Account
<1>2. IsFiniteSet(ServiceYears)
  BY YearsFinite
<1>3. SumFunctionOnSet(g, ServiceYears) = SumFunctionOnSet(f, ServiceYears) + (g[y] - f[y])
  BY <1>1, <1>2, SumDiffers
<1>4. g[y] - f[y] = k
  BY <1>1
<1> QED
  BY <1>0, <1>3, <1>4 DEF Total

-----------------------------------------------------------------------------
(* What a run does to the balances of a code *)

ClosedRight(e, c, a, b, y) ==
    Renewed(b, y) => IF Renewed(a, y) THEN b[y] = a[y] ELSE b[y].balance = 0 /\ Reserved(e, c, y) = 0

\* From a to b, what was open stays open, and years up to that of day n are renewed.
Carries(a, b, n) ==
    \A y \in ServiceYears :
        IF a[y].open THEN b[y].open /\ b[y].asOf = a[y].asOf /\ b[y].manual = a[y].manual
        ELSE b[y].open => y # 0 /\ ~b[y].manual /\ y <= ServiceYear(n)

\* The days that a posting rests on are governed, up to its own.
Rests(a, x) ==
    /\ Governed(x.date)
    /\ \A n \in DaysUsed(a, x) : n \in Days /\ n <= x.date /\ Governed(n)

\* u comes of s by postings to code c of employee e, up to day n.
Follows(e, c, s, u, n) ==
    /\ u \in Books /\ Orderly(u.account[c])
    /\ \A k \in Codes \ {c} : u.account[k] = s.account[k]
    /\ s.posts \subseteq u.posts /\ \A x \in u.posts \ s.posts : x.date <= n /\ Rests(s.account, x)
    /\ Carries(s.account[c], u.account[c], n)
    /\ \A y \in ServiceYears : ClosedRight(e, c, s.account[c], u.account[c], y)
    /\ c = "recreation" => Total(u.account[c]) >= Total(s.account[c])

LEMMA FollowsSelf ==
    ASSUME NEW e, NEW c, NEW s, NEW n, c \in Codes, s \in Books, Orderly(s.account[c])
    PROVE  Follows(e, c, s, s, n)
<1>1. Total(s.account[c]) \in Int
  BY TotalType DEF Orderly
<1>2. Total(s.account[c]) >= Total(s.account[c])
  BY <1>1
<1> QED
  BY <1>2 DEF Follows, Carries, ClosedRight

LEMMA FollowsLater ==
    ASSUME NEW e, NEW c, NEW s, NEW u, NEW m, NEW n,
           c \in Codes, m \in Nat \cup {-1}, n \in Nat, m <= n, m = -1 => u = s,
           Follows(e, c, s, u, m)
    PROVE  Follows(e, c, s, u, n)
<1>1. \A x \in u.posts \ s.posts : x.date \in Nat /\ x.date <= n
  <2>1. \A x \in u.posts : x.date \in Nat
    BY DEF Follows, Books, Posting, Days
  <2> QED
    BY <2>1 DEF Follows
<1>2. Carries(s.account[c], u.account[c], n)
  <2>1. CASE m = -1
    BY <2>1 DEF Follows, Carries
  <2>2. CASE m # -1
    <3>1. m \in Nat /\ ServiceYear(m) <= ServiceYear(n) /\ ServiceYear(m) \in Nat /\ ServiceYear(n) \in Nat
      BY <2>2, YearsGrow, YearBounds
    <3> QED
      BY <3>1, YearsFinite DEF Follows, Carries
  <2> QED
    BY <2>1, <2>2
<1> QED
  BY <1>1, <1>2 DEF Follows

LEMMA RenewFollows ==
    ASSUME NEW e, NEW c, NEW s, NEW n, NEW t, NEW y, NEW u,
           c \in Codes, s \in Books, Orderly(s.account[c]), n \in Nat, Follows(e, c, s, t, n),
           y \in ServiceYears, y # 0, StartOf(y) <= n, t.account[c][y - 1].open, u \in Renew(e, c, t, y)
    PROVE  Follows(e, c, s, u, n) /\ u.account[c][y].open /\ t.posts \subseteq u.posts
<1> DEFINE A == s.account[c]
           B == t.account[c]
           C == u.account[c]
<1>1. t \in Books /\ Orderly(B)
  BY DEF Follows
<1>2. /\ u \in Books /\ Orderly(C) /\ \A k \in Codes \ {c} : u.account[k] = t.account[k]
      /\ ~B[y].open /\ Reserved(e, c, y - 1) = 0 /\ Governed(StartOf(y))
      /\ u.posts = t.posts \cup {Post("renewal", c, StartOf(y))}
      /\ \A z \in ServiceYears \ {y, y - 1} : C[z] = B[z]
      /\ C[y].open /\ ~C[y].manual /\ C[y].asOf = StartOf(y)
      /\ c = "recreation" => C[y].balance = B[y - 1].balance
      /\ C[y - 1].balance = 0 /\ C[y - 1].open
      /\ C[y - 1].manual = B[y - 1].manual /\ C[y - 1].asOf = B[y - 1].asOf
  BY <1>1, RenewMakes
<1>3. y \in Nat /\ y - 1 \in ServiceYears /\ y - 1 # y /\ (y - 1) + 1 = y /\ y <= ServiceYear(n)
  BY YearsFinite, InYear DEF ServiceYears
<1>4. A \in [ServiceYears -> Account] /\ B \in [ServiceYears -> Account] /\ C \in [ServiceYears -> Account]
  BY <1>1, <1>2 DEF Orderly
<1>5. ~A[y].open
  BY <1>2 DEF Follows, Carries
<1>6. \A x \in u.posts \ s.posts : x.date <= n /\ Rests(s.account, x)
  <2>1. PICK x : x = Post("renewal", c, StartOf(y))
    OBVIOUS
  <2>2. x \in Posting /\ x.date = StartOf(y) /\ x.kind = "renewal"
    <3>1. x \in Posting
      BY <1>2, <2>1 DEF Books
    <3> QED
      BY <2>1, <3>1 DEF Post
  <2>3. StartOf(y) \in Nat
    BY <2>2 DEF Posting, Days
  <2>4. Rests(s.account, x)
    BY <1>2, <2>2, <2>3 DEF Rests, DaysUsed, Posting
  <2> QED
    BY <1>2, <2>1, <2>2, <2>4 DEF Follows
<1>7. Carries(A, C, n)
  <2> SUFFICES ASSUME NEW z \in ServiceYears
               PROVE  IF A[z].open THEN C[z].open /\ C[z].asOf = A[z].asOf /\ C[z].manual = A[z].manual
                      ELSE C[z].open => z # 0 /\ ~C[z].manual /\ z <= ServiceYear(n)
    BY DEF Carries
  <2>1. IF A[z].open THEN B[z].open /\ B[z].asOf = A[z].asOf /\ B[z].manual = A[z].manual
        ELSE B[z].open => z # 0 /\ ~B[z].manual /\ z <= ServiceYear(n)
    BY DEF Follows, Carries
  <2> QED
    BY <1>2, <1>3, <1>5, <2>1
<1>8. ASSUME NEW z \in ServiceYears
      PROVE  ClosedRight(e, c, A, C, z)
  <2>1. ClosedRight(e, c, A, B, z)
    BY DEF Follows
  <2>2. CASE z = y - 1
    <3>1. ~Renewed(A, z)
      BY <1>3, <1>5, <2>2 DEF Renewed
    <3> QED
      BY <1>2, <2>2, <3>1 DEF ClosedRight
  <2>3. CASE z = y
    <3>1. ~Renewed(C, z)
      <4> SUFFICES ASSUME Renewed(C, z) PROVE FALSE
        OBVIOUS
      <4>1. y + 1 \in ServiceYears /\ y + 1 # y /\ y + 1 # y - 1 /\ (y + 1) - 1 = y /\ y + 1 # 0
        BY <1>3, <2>3 DEF Renewed
      <4>2. B[y + 1].open /\ ~B[y + 1].manual
        BY <1>2, <2>3, <4>1 DEF Renewed
      <4>3. B[y].open
        BY <1>1, <4>1, <4>2 DEF Orderly
      <4> QED
        BY <1>2, <4>3
    <3> QED
      BY <3>1 DEF ClosedRight
  <2>4. CASE z # y /\ z # y - 1
    <3>1. C[z] = B[z]
      BY <1>2, <2>4
    <3>2. z + 1 # y /\ z \in Nat
      <4>1. z \in Nat
        BY YearsFinite
      <4> QED
        BY <1>3, <2>4, <4>1
    <3>3. z + 1 \in ServiceYears => (C[z + 1].open = B[z + 1].open /\ C[z + 1].manual = B[z + 1].manual)
      <4> SUFFICES ASSUME z + 1 \in ServiceYears
                   PROVE  C[z + 1].open = B[z + 1].open /\ C[z + 1].manual = B[z + 1].manual
        OBVIOUS
      <4>1. CASE z + 1 = y - 1
        <5>1. C[y - 1] \in Account /\ B[y - 1] \in Account
          BY <1>3, <1>4
        <5> QED
          BY <1>2, <4>1, <5>1 DEF Account
      <4>2. CASE z + 1 # y - 1
        BY <1>2, <3>2, <4>2
      <4> QED
        BY <4>1, <4>2
    <3>4. Renewed(C, z) = Renewed(B, z)
      BY <3>3 DEF Renewed
    <3> QED
      BY <2>1, <3>1, <3>4 DEF ClosedRight
  <2> QED
    BY <2>2, <2>3, <2>4
<1>9. ASSUME c = "recreation"
      PROVE  Total(C) >= Total(A)
  <2>1. B[y].balance = 0
    BY <1>1, <1>2 DEF Orderly
  <2>2. Total(C) = Total(B)
    BY <1>2, <1>3, <1>4, <1>9, <2>1, TotalMoved
  <2> QED
    BY <1>9, <2>2 DEF Follows
<1>10. \A k \in Codes \ {c} : u.account[k] = s.account[k]
  BY <1>2 DEF Follows
<1>11. s.posts \subseteq u.posts
  BY <1>2 DEF Follows
<1> QED
  BY <1>2, <1>6, <1>7, <1>8, <1>9, <1>10, <1>11 DEF Follows

-----------------------------------------------------------------------------
(* The years that RenewTo renews, one after another *)

LEMMA GreatestYear ==
    ASSUME NEW T, T \subseteq ServiceYears, T # {}
    PROVE  Max(T) \in T /\ \A y \in T : y <= Max(T)
<1>1. PICK N \in Nat : ServiceYears = 0..N
  BY YearsFinite DEF ServiceYears
<1> DEFINE D == {N - y : y \in T}
<1>2. D \in SUBSET Nat /\ D # {}
  <2>1. \A y \in T : y \in 0..N
    BY <1>1
  <2>2. \A y \in T : N - y \in Nat
    BY <2>1
  <2> QED
    BY <2>2
<1> HIDE DEF D
<1>3. PICK m \in D : \A k \in D : m <= k
  BY <1>2, LeastNatural
<1>4. PICK x \in T : m = N - x
  BY DEF D
<1>5. \A y \in T : y \in Nat /\ x \in Nat /\ x >= y
  <2> SUFFICES ASSUME NEW y \in T PROVE y \in Nat /\ x \in Nat /\ x >= y
    OBVIOUS
  <2>1. N - y \in D
    BY DEF D
  <2>2. m <= N - y
    BY <1>3, <2>1
  <2>3. x \in 0..N /\ y \in 0..N
    BY <1>1
  <2> QED
    BY <1>4, <2>2, <2>3
<1>6. \E z \in T : \A y \in T : z >= y
  BY <1>5
<1>7. Max(T) \in T /\ \A y \in T : Max(T) >= y
  BY <1>6 DEF Max
<1> QED
  BY <1>5, <1>7

Renewals(r, e, c, s, last, end) ==
    r = [y \in last..end |-> IF y = last THEN {s} ELSE UNION {Renew(e, c, t, y) : t \in r[y - 1]}]

LEMMA RenewalsExist ==
    ASSUME NEW e, NEW c, NEW s, NEW last, last \in Nat
    PROVE  \A k \in Nat : \E r : Renewals(r, e, c, s, last, last + k)
<1> DEFINE G == {k \in Nat : \E r : Renewals(r, e, c, s, last, last + k)}
<1>1. 0 \in G
  <2> DEFINE r == [y \in last..last + 0 |-> {s}]
  <2>1. \A y \in last..last + 0 : y = last
    OBVIOUS
  <2>2. Renewals(r, e, c, s, last, last + 0)
    BY <2>1 DEF Renewals
  <2> QED
    BY <2>2
<1>2. ASSUME NEW k \in Nat, k \in G PROVE k + 1 \in G
  <2>1. PICK r : Renewals(r, e, c, s, last, last + k)
    BY <1>2
  <2> DEFINE q == [y \in last..last + (k + 1) |->
                     IF y = last THEN {s} ELSE UNION {Renew(e, c, t, y) : t \in r[y - 1]}]
  <2>2. ASSUME NEW y \in last..last + k PROVE q[y] = r[y]
    <3>1. y \in last..last + (k + 1)
      OBVIOUS
    <3>2. r[y] = IF y = last THEN {s} ELSE UNION {Renew(e, c, t, y) : t \in r[y - 1]}
      BY <2>1 DEF Renewals
    <3> QED
      BY <3>1, <3>2
  <2>3. \A y \in last..last + (k + 1) : y # last => y - 1 \in last..last + k
    OBVIOUS
  <2>4. q = [y \in last..last + (k + 1) |->
               IF y = last THEN {s} ELSE UNION {Renew(e, c, t, y) : t \in q[y - 1]}]
    BY <2>2, <2>3
  <2> HIDE DEF q
  <2>5. Renewals(q, e, c, s, last, last + (k + 1))
    BY <2>4 DEF Renewals
  <2> QED
    BY <2>5
<1> HIDE DEF G
<1>3. \A k \in Nat : k \in G
  <2> SUFFICES ASSUME NEW n \in Nat PROVE n \in G
    OBVIOUS
  <2>1. G \in SUBSET Nat
    BY DEF G
  <2>2. \A k \in 0..(n - 1) : k \in G => k + 1 \in G
    BY <1>2
  <2> QED
    BY <1>1, <2>1, <2>2, RangeInduction
<1> QED
  BY <1>3 DEF G

\* What is in force for a day when RenewTo begins, and the step from one year to the next.
LEMMA RenewToUnfolds ==
    ASSUME NEW e, NEW c, NEW s, NEW d, NEW u, u \in RenewTo(e, c, s, d)
    PROVE  LET begun == {y \in ServiceYears : s.account[c][y].open /\ s.account[c][y].asOf <= d}
           IN  begun # {} /\ u \in (CHOOSE r : Renewals(r, e, c, s, Max(begun), ServiceYear(d)))[ServiceYear(d)]
BY DEF RenewTo, Renewals

LEMMA RenewToFollows ==
    ASSUME NEW e, NEW c, NEW s, NEW n, NEW t, NEW u,
           c \in Codes, s \in Books, Orderly(s.account[c]), n \in Days, Follows(e, c, s, t, n),
           u \in RenewTo(e, c, t, n)
    PROVE  Follows(e, c, s, u, n) /\ u.account[c][ServiceYear(n)].open /\ t.posts \subseteq u.posts
<1> DEFINE begun == {y \in ServiceYears : t.account[c][y].open /\ t.account[c][y].asOf <= n}
<1>1. PICK last : last = Max(begun)
  OBVIOUS
<1>2. PICK end : end = ServiceYear(n)
  OBVIOUS
<1>3. begun # {} /\ u \in (CHOOSE r : Renewals(r, e, c, t, last, end))[end]
  BY <1>1, <1>2, RenewToUnfolds
<1>4. last \in ServiceYears /\ t.account[c][last].open /\ t.account[c][last].asOf <= n
  <2>1. begun \subseteq ServiceYears
    OBVIOUS
  <2> HIDE DEF begun
  <2>2. last \in begun
    BY <1>1, <1>3, <2>1, GreatestYear
  <2> QED
    BY <2>2 DEF begun
<1>5. t \in Books /\ Orderly(t.account[c])
  BY DEF Follows
<1>6. n \in Nat /\ LastDay \in Nat /\ n <= LastDay
  BY JobsAssumption DEF Days
<1>7. last \in Nat /\ end \in ServiceYears /\ end \in Nat /\ last <= end
  <2>1. t.account[c][last].asOf \in Nat
    BY <1>4, <1>5 DEF Orderly, Account, Days
  <2>2. ServiceYear(t.account[c][last].asOf) <= end
    BY <1>2, <1>4, <1>6, <2>1, YearsGrow
  <2>3. end \in Nat /\ end <= ServiceYear(LastDay)
    BY <1>2, <1>6, YearBounds, YearsGrow
  <2> QED
    BY <1>4, <1>5, <2>2, <2>3, YearsFinite DEF Orderly, ServiceYears
<1>8. PICK k \in Nat : end = last + k
  <2>1. end - last \in Nat /\ end = last + (end - last)
    BY <1>7
  <2> QED
    BY <2>1
<1>9. PICK r : Renewals(r, e, c, t, last, end) /\ u \in r[end]
  BY <1>3, <1>7, <1>8, RenewalsExist
<1>10. /\ r[last] = {t}
       /\ \A y \in last..end : y # last => r[y] = UNION {Renew(e, c, x, y) : x \in r[y - 1]}
  <2>1. last \in last..end
    BY <1>7
  <2>2. \A y \in last..end : r[y] = IF y = last THEN {t} ELSE UNION {Renew(e, c, x, y) : x \in r[y - 1]}
    BY <1>9 DEF Renewals
  <2> QED
    BY <2>1, <2>2
<1> DEFINE Fine(y) == \A x \in r[y] : /\ Follows(e, c, s, x, n) /\ x.account[c][y].open
                                      /\ t.posts \subseteq x.posts
           G == {j \in Nat : j <= k => Fine(last + j)}
<1>11. 0 \in G
  BY <1>4, <1>7, <1>10
<1>12. ASSUME NEW j \in 0..(k - 1), j \in G PROVE j + 1 \in G
  <2>1. PICK y : y = last + (j + 1)
    OBVIOUS
  <2>2. /\ y \in last..end /\ y # last /\ y - 1 = last + j /\ y \in ServiceYears /\ y # 0 /\ y <= end
        /\ j + 1 \in Nat /\ j <= k
    <3>1. /\ y \in last..end /\ y # last /\ y - 1 = last + j /\ y # 0 /\ y <= end /\ y \in Nat
          /\ j + 1 \in Nat /\ j <= k
      BY <1>7, <1>8, <2>1
    <3>2. \A z \in ServiceYears, w \in Nat : w <= z => w \in ServiceYears
      BY YearsFinite DEF ServiceYears
    <3> QED
      BY <1>7, <3>1, <3>2
  <2>3. StartOf(y) <= n
    BY <1>2, <1>6, <2>2, YearsFinite, InYear
  <2>4. ASSUME NEW x \in r[y] PROVE Follows(e, c, s, x, n) /\ x.account[c][y].open /\ t.posts \subseteq x.posts
    <3>1. PICK z \in r[y - 1] : x \in Renew(e, c, z, y)
      BY <1>10, <2>2
    <3>2. Follows(e, c, s, z, n) /\ z.account[c][y - 1].open /\ t.posts \subseteq z.posts
      BY <1>12, <2>2, <3>1
    <3>3. Follows(e, c, s, x, n) /\ x.account[c][y].open /\ z.posts \subseteq x.posts
      BY <1>6, <2>2, <2>3, <3>1, <3>2, RenewFollows
    <3> QED
      BY <3>2, <3>3
  <2> QED
    BY <2>1, <2>2, <2>4
<1> HIDE DEF Fine
<1>13. \A j \in 0..k : j \in G
  <2>1. G \in SUBSET Nat
    OBVIOUS
  <2> HIDE DEF G
  <2> QED
    BY <1>11, <1>12, <2>1, RangeInduction
<1>14. Fine(end)
  BY <1>8, <1>13
<1> QED
  BY <1>2, <1>9, <1>14 DEF Fine

-----------------------------------------------------------------------------
(* The posting of an accrual *)

LEMMA LeastYear ==
    ASSUME NEW T, T \subseteq ServiceYears, T # {}
    PROVE  Min(T) \in T
<1>1. T \in SUBSET Nat
  BY YearsFinite
<1>2. \E m \in T : \A y \in T : m <= y
  BY <1>1, LeastNatural
<1> QED
  BY <1>2 DEF Min

LEMMA WithCreditMakes ==
    ASSUME NEW row, NEW asked, NEW cap, row \in Account, asked \in Nat, cap \in Nat
    PROVE  /\ WithCredit(row, asked, cap) \in Account
           /\ \E k \in Nat : WithCredit(row, asked, cap).balance = row.balance + k
           /\ WithCredit(row, asked, cap).open = row.open /\ WithCredit(row, asked, cap).asOf = row.asOf
           /\ WithCredit(row, asked, cap).manual = row.manual
<1>1. PICK k : k = Lesser(asked, Greater(0, cap - row.balance))
  OBVIOUS
<1>2. row.balance \in Int
  BY DEF Account
<1>3. k \in Nat
  BY <1>1, <1>2 DEF Lesser, Greater
<1>4. WithCredit(row, asked, cap) = [row EXCEPT !.balance = row.balance + k]
  BY <1>1 DEF WithCredit, Account
<1>5. row.balance + k \in Int
  BY <1>2, <1>3
<1>6. PICK z : z = row.balance + k
  OBVIOUS
<1>7. WithCredit(row, asked, cap) = [row EXCEPT !.balance = z] /\ z \in Int
  BY <1>4, <1>5, <1>6
<1>8. /\ WithCredit(row, asked, cap) \in Account /\ WithCredit(row, asked, cap).balance = z
      /\ WithCredit(row, asked, cap).open = row.open /\ WithCredit(row, asked, cap).asOf = row.asOf
      /\ WithCredit(row, asked, cap).manual = row.manual
  BY <1>7 DEF Account
<1> QED
  BY <1>3, <1>6, <1>8

\* An accrual renews up to its year and raises the balance of that year.
LEMMA AccrueMakes ==
    ASSUME NEW e, NEW t, NEW n, NEW u, t \in Books, Orderly(t.account["recreation"]), n \in Days,
           u \in Accrue(e, t, n)
    PROVE  /\ Governed(n) /\ \E y \in ServiceYears : t.account["recreation"][y].open
           /\ \A m \in CreditDays(t.account["recreation"], n) : m \in Days /\ m <= n /\ Governed(m)
           /\ \E x \in RenewTo(e, "recreation", t, n), asked \in Nat, cap \in Nat :
                /\ u.account = [x.account EXCEPT !["recreation"][ServiceYear(n)] = WithCredit(@, asked, cap)]
                /\ u.posts = x.posts \cup {Post("accrual", "recreation", n)}
                /\ u = [account |-> u.account, posts |-> u.posts]
<1> DEFINE opened == {y \in ServiceYears : t.account["recreation"][y].open}
           from == CreditFrom(t.account["recreation"])
           credited == CreditDays(t.account["recreation"], n)
           rates == [m \in credited |-> DailyRate[Governing(m)]]
           asked == SumFunctionOnSet(rates, credited)
           cap == CreditCap[Governing(n)]
<1>1. /\ credited # {} /\ \A m \in credited : Governed(m)
      /\ \E x \in RenewTo(e, "recreation", t, n) :
            u = [account |-> [x.account EXCEPT !["recreation"][ServiceYear(n)] = WithCredit(@, asked, cap)],
                 posts |-> x.posts \cup {Post("accrual", "recreation", n)}]
  BY DEF Accrue
<1>2. PICK x \in RenewTo(e, "recreation", t, n) :
            u = [account |-> [x.account EXCEPT !["recreation"][ServiceYear(n)] = WithCredit(@, asked, cap)],
                 posts |-> x.posts \cup {Post("accrual", "recreation", n)}]
  BY <1>1
<1>3. n \in Nat /\ Fortnight \in Nat /\ Fortnight > 0
  BY JobsAssumption DEF Days
<1>4. from \in Nat /\ opened # {}
  <2>1. opened # {}
    BY <1>2, RenewToUnfolds
  <2>2. opened \subseteq ServiceYears
    OBVIOUS
  <2> HIDE DEF opened
  <2>3. Min(opened) \in opened
    BY <2>1, <2>2, LeastYear
  <2>4. Min(opened) \in ServiceYears
    BY <2>2, <2>3
  <2>5. t.account["recreation"][Min(opened)].asOf \in Nat
    BY <2>4 DEF Orderly, Account, Days
  <2> QED
    BY <2>1, <2>5 DEF CreditFrom, opened
<1>5. credited = {m \in (n - Fortnight + 1)..n : m >= from}
  BY DEF CreditDays
<1> HIDE DEF credited, from
<1>6. credited \subseteq (n - Fortnight + 1)..n /\ n \in credited
  <2>1. PICK m \in credited : m \in (n - Fortnight + 1)..n /\ m >= from
    BY <1>1, <1>5
  <2> QED
    BY <1>3, <1>4, <1>5, <2>1
<1>7. \A m \in credited : m \in Days /\ m <= n /\ Governed(m)
  <2>1. LastDay \in Nat /\ n <= LastDay
    BY JobsAssumption DEF Days
  <2>2. ASSUME NEW m \in credited PROVE m \in Days /\ m <= n
    <3>1. m \in (n - Fortnight + 1)..n /\ m >= from
      BY <1>5
    <3>2. m \in Int /\ m <= n /\ m >= 0
      BY <1>3, <1>4, <3>1
    <3> QED
      BY <1>3, <2>1, <3>2 DEF Days
  <2> QED
    BY <1>1, <2>2
<1>8. IsFiniteSet(credited)
  <2>1. PICK a \in Int : a = n - Fortnight + 1
    BY <1>3
  <2>2. IsFiniteSet(a..n)
    BY <1>3, <2>1, FS_Interval
  <2>3. credited \subseteq a..n
    BY <1>6, <2>1
  <2> QED
    BY <2>2, <2>3, FS_Subset
<1>9. \A m \in credited : rates[m] \in Nat
  BY <1>1, Governs, JobsAssumption
<1>10. cap \in Nat /\ Governed(n)
  BY <1>1, <1>6, Governs, JobsAssumption
<1> HIDE DEF rates, cap
<1>11. asked \in Nat
  BY <1>8, <1>9, SumNat
<1> HIDE DEF asked
<1>12. /\ u.account = [x.account EXCEPT !["recreation"][ServiceYear(n)] = WithCredit(@, asked, cap)]
       /\ u.posts = x.posts \cup {Post("accrual", "recreation", n)}
       /\ u = [account |-> u.account, posts |-> u.posts]
  BY <1>2
<1>13. \E y \in ServiceYears : t.account["recreation"][y].open
  BY <1>4
<1> QED
  BY <1>10, <1>11, <1>12, <1>7, <1>13 DEF credited

\* Renewals open no year before the first, so credit begins where it did.
LEMMA CreditStays ==
    ASSUME NEW a, NEW b, NEW n, Carries(a, b, n), Orderly(b), \E y \in ServiceYears : b[y].open
    PROVE  CreditFrom(b) = CreditFrom(a)
<1> DEFINE S == {y \in ServiceYears : a[y].open}
           T == {y \in ServiceYears : b[y].open}
<1>1. S \subseteq T /\ T \subseteq ServiceYears /\ T # {} /\ \A y \in S : b[y].asOf = a[y].asOf
  BY DEF Carries
<1>2. PICK m \in T : \A y \in T : m <= y
  <2>1. T \in SUBSET Nat
    BY <1>1, YearsFinite
  <2> HIDE DEF T
  <2> QED
    BY <1>1, <2>1, LeastNatural
<1>3. m \in S
  <2> SUFFICES ASSUME m \notin S PROVE FALSE
    OBVIOUS
  <2>1. m \in ServiceYears /\ b[m].open /\ m # 0 /\ ~b[m].manual
    BY <1>2 DEF Carries
  <2>2. b[m - 1].open
    BY <2>1 DEF Orderly
  <2>3. m - 1 \in ServiceYears /\ m \in Nat
    BY <2>1, YearsFinite DEF ServiceYears
  <2>4. m <= m - 1
    BY <1>2, <2>2, <2>3
  <2> QED
    BY <2>3, <2>4
<1>4. m \in Nat /\ \A y \in S \cup T : y \in Nat
  BY <1>1, <1>2, YearsFinite
<1> HIDE DEF S, T
<1>5. Min(S) = m /\ Min(T) = m
  <2>1. \A y \in S : m <= y
    BY <1>1, <1>2
  <2>2. ASSUME NEW U \in SUBSET Nat, m \in U, \A y \in U : m <= y PROVE Min(U) = m
    <3>1. Min(U) \in U /\ \A y \in U : Min(U) <= y
      BY <2>2 DEF Min
    <3>2. Min(U) \in Nat /\ Min(U) <= m /\ m <= Min(U)
      BY <2>2, <3>1
    <3> QED
      BY <1>4, <3>2
  <2> QED
    BY <1>2, <1>3, <1>4, <2>1, <2>2
<1>6. CreditFrom(a) = a[Min(S)].asOf /\ CreditFrom(b) = b[Min(T)].asOf
  BY DEF CreditFrom, S, T
<1> QED
  BY <1>1, <1>3, <1>5, <1>6

LEMMA AccrueFollows ==
    ASSUME NEW e, NEW s, NEW n, NEW t, NEW u,
           s \in Books, Orderly(s.account["recreation"]), n \in Days,
           Follows(e, "recreation", s, t, n), ~Renewed(s.account["recreation"], ServiceYear(n)),
           u \in Accrue(e, t, n)
    PROVE  /\ Follows(e, "recreation", s, u, n)
           /\ Post("accrual", "recreation", n) \in u.posts /\ t.posts \subseteq u.posts
<1>1. t \in Books /\ Orderly(t.account["recreation"])
  BY DEF Follows
<1>2. PICK x \in RenewTo(e, "recreation", t, n), asked \in Nat, cap \in Nat :
        /\ u.account = [x.account EXCEPT !["recreation"][ServiceYear(n)] = WithCredit(@, asked, cap)]
        /\ u.posts = x.posts \cup {Post("accrual", "recreation", n)}
        /\ u = [account |-> u.account, posts |-> u.posts]
  BY <1>1, AccrueMakes
<1>3. /\ Governed(n) /\ n \in Nat /\ \E y \in ServiceYears : t.account["recreation"][y].open
      /\ \A m \in CreditDays(t.account["recreation"], n) : m \in Days /\ m <= n /\ Governed(m)
  BY <1>1, AccrueMakes DEF Days
<1>4. PICK Y : Y = ServiceYear(n)
  OBVIOUS
<1>5. PICK R : R = "recreation"
  OBVIOUS
<1>6. R \in Codes /\ Follows(e, R, s, x, n) /\ x.account[R][Y].open /\ t.posts \subseteq x.posts
  <2>1. "recreation" \in Codes
    BY DEF Codes
  <2> QED
    BY <1>2, <1>4, <1>5, <2>1, RenewToFollows
<1> DEFINE A == s.account[R]
           X == x.account[R]
           B == u.account[R]
<1>7. x \in Books /\ Orderly(X) /\ X \in [ServiceYears -> Account]
  BY <1>6 DEF Follows, Orderly
<1>8. Y \in ServiceYears /\ Y \in Nat
  <2>1. LastDay \in Nat /\ n <= LastDay
    BY JobsAssumption DEF Days
  <2> QED
    BY <1>3, <1>4, <2>1, YearBounds, YearsGrow DEF ServiceYears
<1>9. PICK row : row = WithCredit(X[Y], asked, cap)
  OBVIOUS
<1>10. /\ row \in Account /\ \E k \in Nat : row.balance = X[Y].balance + k
       /\ row.open /\ row.asOf = X[Y].asOf /\ row.manual = X[Y].manual
  <2>1. X[Y] \in Account
    BY <1>7, <1>8
  <2> QED
    BY <1>6, <1>9, <2>1, WithCreditMakes
<1>11. /\ u.account = [x.account EXCEPT ![R] = [X EXCEPT ![Y] = row]]
  BY <1>2, <1>4, <1>5, <1>9
<1>12. /\ B = [X EXCEPT ![Y] = row] /\ \A k \in Codes \ {R} : u.account[k] = x.account[k]
       /\ u.account \in [Codes -> [ServiceYears -> Account]]
  <2>1. PICK b : b = [X EXCEPT ![Y] = row]
    OBVIOUS
  <2>2. b \in [ServiceYears -> Account]
    BY <1>7, <1>10, <2>1
  <2>3. u.account = [x.account EXCEPT ![R] = b] /\ x.account \in [Codes -> [ServiceYears -> Account]]
    BY <1>7, <1>11, <2>1 DEF Books
  <2> QED
    BY <1>6, <2>1, <2>2, <2>3
<1>13. B[Y] = row /\ \A z \in ServiceYears \ {Y} : B[z] = X[z]
  BY <1>7, <1>8, <1>12
<1>14. B \in [ServiceYears -> Account]
  BY <1>6, <1>12
<1>15. \A z \in ServiceYears : B[z].open = X[z].open /\ B[z].asOf = X[z].asOf /\ B[z].manual = X[z].manual
  <2> SUFFICES ASSUME NEW z \in ServiceYears
               PROVE  B[z].open = X[z].open /\ B[z].asOf = X[z].asOf /\ B[z].manual = X[z].manual
    OBVIOUS
  <2>1. X[Y].open \in BOOLEAN /\ row.open \in BOOLEAN
    BY <1>7, <1>8, <1>10 DEF Account
  <2> QED
    BY <1>6, <1>10, <1>13, <2>1
<1>16. u \in Books
  <2>1. Post("accrual", "recreation", n) \in Posting
    BY DEF Post, Posting, Codes
  <2> QED
    BY <1>2, <1>7, <1>12, <2>1 DEF Books
<1> HIDE DEF A, X, B
<1>17. Orderly(B)
  <2>1. ~B[Y].open => FALSE
    BY <1>6, <1>8, <1>15 DEF X
  <2>2. \A z \in ServiceYears : z # 0 => z - 1 \in ServiceYears
    BY YearsFinite DEF ServiceYears
  <2> QED
    BY <1>7, <1>13, <1>14, <1>15, <2>1, <2>2 DEF Orderly
<1>18. Carries(A, B, n)
  <2>1. Carries(A, X, n)
    BY <1>6 DEF Follows, A, X
  <2> QED
    BY <1>15, <2>1 DEF Carries
<1>19. ASSUME NEW z \in ServiceYears PROVE ClosedRight(e, R, A, B, z)
  <2>1. ClosedRight(e, R, A, X, z) /\ Carries(A, X, n)
    BY <1>6 DEF Follows, A, X
  <2>2. CASE z = Y
    <3> SUFFICES ASSUME Renewed(B, Y) PROVE FALSE
      BY <2>2 DEF ClosedRight
    <3>1. Y + 1 \in ServiceYears /\ B[Y + 1].open /\ ~B[Y + 1].manual
      BY DEF Renewed
    <3>2. X[Y + 1].open /\ ~X[Y + 1].manual
      BY <1>15, <3>1
    <3>3. ~A[Y + 1].open => Y + 1 <= Y
      BY <1>4, <2>1, <3>1, <3>2 DEF Carries
    <3>4. A[Y + 1].open /\ ~A[Y + 1].manual
      BY <1>8, <2>1, <3>1, <3>2, <3>3 DEF Carries
    <3>5. Renewed(A, Y)
      BY <3>1, <3>4 DEF Renewed
    <3> QED
      BY <1>4, <1>5, <3>5 DEF A
  <2>3. CASE z # Y
    <3>1. B[z] = X[z] /\ (Renewed(B, z) <=> Renewed(X, z))
      BY <1>13, <1>15, <2>3 DEF Renewed
    <3> QED
      BY <2>1, <3>1 DEF ClosedRight
  <2> QED
    BY <2>2, <2>3
<1>20. Total(B) >= Total(A)
  <2>1. PICK k \in Nat : row.balance = X[Y].balance + k
    BY <1>10 DEF X
  <2>2. Total(B) = Total(X) + k
    <3>1. k \in Int /\ B[Y].balance = X[Y].balance + k
      BY <1>13, <2>1
    <3> QED
      BY <1>7, <1>8, <1>13, <1>14, <3>1, TotalRaised
  <2>3. Total(X) >= Total(A) /\ Total(X) \in Int /\ Total(A) \in Int
    <3>1. Total(X) >= Total(A)
      BY <1>5, <1>6 DEF Follows, A, X
    <3>2. A \in [ServiceYears -> Account]
      BY <1>5 DEF A, Orderly
    <3> QED
      BY <1>7, <3>1, <3>2, TotalType
  <2> QED
    BY <2>2, <2>3
<1>21. \A k \in Codes \ {R} : u.account[k] = s.account[k]
  BY <1>6, <1>12 DEF Follows
<1>22. s.posts \subseteq u.posts /\ \A p \in u.posts \ s.posts : p.date <= n /\ Rests(s.account, p)
  <2>1. PICK p : p = Post("accrual", "recreation", n)
    OBVIOUS
  <2>2. p.date = n /\ p.kind = "accrual"
    BY <2>1 DEF Post
  <2>3. CreditFrom(t.account[R]) = CreditFrom(s.account[R])
    BY <1>1, <1>3, <1>5, CreditStays DEF Follows
  <2>4. DaysUsed(s.account, p) = CreditDays(t.account[R], n)
    BY <1>5, <2>2, <2>3 DEF DaysUsed, CreditDays
  <2>5. Rests(s.account, p)
    BY <1>3, <1>5, <2>2, <2>4 DEF Rests
  <2> QED
    BY <1>2, <1>3, <1>6, <2>1, <2>2, <2>5 DEF Follows
<1>23. Follows(e, R, s, u, n)
  BY <1>16, <1>17, <1>18, <1>19, <1>20, <1>21, <1>22 DEF Follows, A, B
<1> QED
  BY <1>2, <1>5, <1>6, <1>23

-----------------------------------------------------------------------------
(* A run: the accruals that are due, one after another, and then the year *)

\* The postings of the schedule that precede a renewed year are all made.
Paid(e, a, made) ==
    LET first == plan[e]["recreation"].first
    IN  plan[e]["recreation"] # None =>
            \A y \in ServiceYears : Renewed(a, y) =>
                \A n \in first..(StartOf(y + 1) - 1) :
                    (n - first) % Fortnight = 0 => Post("accrual", "recreation", n) \in made

Accruals(f, e, s, now, d) ==
    f = [n \in -1..d |->
            IF n = -1 THEN {s}
            ELSE IF n \in now THEN UNION {Accrue(e, t, n) : t \in f[n - 1]} ELSE f[n - 1]]

LEMMA AccrualsExist ==
    ASSUME NEW e, NEW s, NEW now
    PROVE  \A d \in Nat : \E f : Accruals(f, e, s, now, d)
<1> DEFINE G == {k \in Nat : \E f : Accruals(f, e, s, now, k - 1)}
<1>1. 0 \in G
  <2> DEFINE f == [n \in -1..-1 |-> {s}]
  <2>1. \A n \in -1..-1 : n = -1
    OBVIOUS
  <2>2. Accruals(f, e, s, now, -1)
    BY <2>1 DEF Accruals
  <2>3. 0 - 1 = -1
    OBVIOUS
  <2> QED
    BY <2>2, <2>3
<1>2. ASSUME NEW k \in Nat, k \in G PROVE k + 1 \in G
  <2>1. PICK f : Accruals(f, e, s, now, k - 1)
    BY <1>2
  <2> DEFINE g == [n \in -1..k |->
                     IF n = -1 THEN {s}
                     ELSE IF n \in now THEN UNION {Accrue(e, t, n) : t \in f[n - 1]} ELSE f[n - 1]]
  <2>2. ASSUME NEW n \in -1..(k - 1) PROVE g[n] = f[n]
    <3>1. n \in -1..k
      OBVIOUS
    <3>2. f[n] = IF n = -1 THEN {s}
                 ELSE IF n \in now THEN UNION {Accrue(e, t, n) : t \in f[n - 1]} ELSE f[n - 1]
      BY <2>1 DEF Accruals
    <3> QED
      BY <3>1, <3>2
  <2>3. \A n \in -1..k : n # -1 => n - 1 \in -1..(k - 1)
    OBVIOUS
  <2>4. g = [n \in -1..k |->
               IF n = -1 THEN {s}
               ELSE IF n \in now THEN UNION {Accrue(e, t, n) : t \in g[n - 1]} ELSE g[n - 1]]
    BY <2>2, <2>3
  <2> HIDE DEF g
  <2>5. Accruals(g, e, s, now, k)
    BY <2>4 DEF Accruals
  <2>6. (k + 1) - 1 = k
    OBVIOUS
  <2> QED
    BY <2>5, <2>6
<1> HIDE DEF G
<1>3. \A k \in Nat : k \in G
  <2> SUFFICES ASSUME NEW n \in Nat PROVE n \in G
    OBVIOUS
  <2>1. G \in SUBSET Nat
    BY DEF G
  <2>2. \A k \in 0..(n - 1) : k \in G => k + 1 \in G
    BY <1>2
  <2> QED
    BY <1>1, <2>1, <2>2, RangeInduction
<1> SUFFICES ASSUME NEW d \in Nat PROVE \E f : Accruals(f, e, s, now, d)
  OBVIOUS
<1>4. d + 1 \in G /\ (d + 1) - 1 = d
  BY <1>3
<1> QED
  BY <1>4 DEF G

\* What is due to an employee by a day, and as much of it as one run posts.
DueOf(e, c, d) == IF c = "recreation" THEN DueBy(e, plan[e][c].first, d) ELSE {}
NowOf(owed) == {n \in owed : Cardinality({m \in owed : m < n}) < MaxPosts}

LEMMA RunCodeUnfolds ==
    ASSUME NEW e, NEW c, NEW s, NEW d, NEW u, u \in RunCode(e, c, s, d)
    PROVE  \/ u = s
           \/ LET now == NowOf(DueOf(e, c, d))
                  accrued == (CHOOSE f : Accruals(f, e, s, now, d))[d]
              IN  /\ plan[e][c] # None
                  /\ \/ u \in accrued
                     \/ now = DueOf(e, c, d) /\ \E t \in accrued : u \in RenewTo(e, c, t, d)
BY DEF RunCode, Accruals, DueOf, NowOf

\* A run posts the earliest of what is due.
LEMMA EarliestFirst ==
    ASSUME NEW owed, NEW d, NEW m, NEW n, d \in Nat, owed \subseteq 0..d, n \in NowOf(owed), m \in owed, m < n
    PROVE  m \in NowOf(owed)
<1>1. IsFiniteSet(0..d)
  BY FS_Interval
<1>2. IsFiniteSet({x \in owed : x < n}) /\ IsFiniteSet({x \in owed : x < m})
  BY <1>1, FS_Subset
<1>3. {x \in owed : x < m} \subseteq {x \in owed : x < n}
  <2>1. n \in Int /\ m \in Int
    BY DEF NowOf
  <2>2. ASSUME NEW x \in owed, x < m PROVE x < n
    <3>1. x \in Int
      OBVIOUS
    <3> QED
      BY <2>1, <2>2, <3>1
  <2> QED
    BY <2>2
<1>4. Cardinality({x \in owed : x < m}) <= Cardinality({x \in owed : x < n})
  BY <1>2, <1>3, FS_Subset
<1>5. Cardinality({x \in owed : x < m}) \in Nat /\ Cardinality({x \in owed : x < n}) \in Nat
  BY <1>2, FS_CardinalityType
<1>6. MaxPosts \in Nat /\ Cardinality({x \in owed : x < n}) < MaxPosts
  BY JobsAssumption DEF NowOf
<1> QED
  BY <1>4, <1>5, <1>6 DEF NowOf

\* What is not due any more was posted.
LEMMA DueOrPosted ==
    ASSUME NEW e, NEW d, NEW m, d \in Nat, plan[e]["recreation"].first \in Nat,
           m \in plan[e]["recreation"].first..d, (m - plan[e]["recreation"].first) % Fortnight = 0
    PROVE  m \in DueOf(e, "recreation", d) \/ Post("accrual", "recreation", m) \in posts[e]
BY DEF DueOf, DueBy

\* Years that a run renews are paid for when all that precedes its day is posted.
LEMMA PaidOn ==
    ASSUME NEW e, NEW s, NEW t, NEW u, NEW m, NEW n,
           plan[e]["recreation"] # None => plan[e]["recreation"].first \in Nat, n \in Nat,
           Carries(s.account["recreation"], t.account["recreation"], m),
           Carries(s.account["recreation"], u.account["recreation"], n),
           Paid(e, t.account["recreation"], t.posts), t.posts \subseteq u.posts,
           plan[e]["recreation"] # None =>
                \A k \in plan[e]["recreation"].first..(n - 1) :
                    (k - plan[e]["recreation"].first) % Fortnight = 0 => Post("accrual", "recreation", k) \in u.posts
    PROVE  Paid(e, u.account["recreation"], u.posts)
<1> SUFFICES ASSUME plan[e]["recreation"] # None, NEW y \in ServiceYears, Renewed(u.account["recreation"], y),
                    NEW k \in plan[e]["recreation"].first..(StartOf(y + 1) - 1),
                    (k - plan[e]["recreation"].first) % Fortnight = 0
             PROVE  Post("accrual", "recreation", k) \in u.posts
  BY DEF Paid
<1> DEFINE S == s.account["recreation"]
           T == t.account["recreation"]
           U == u.account["recreation"]
<1>1. y + 1 \in ServiceYears /\ U[y + 1].open /\ ~U[y + 1].manual /\ y \in Nat /\ y + 1 \in Nat
  BY YearsFinite DEF Renewed
<1>2. CASE S[y + 1].open
  <2>1. ~S[y + 1].manual
    BY <1>1, <1>2 DEF Carries
  <2>2. Renewed(T, y)
    BY <1>1, <1>2, <2>1 DEF Carries, Renewed
  <2> QED
    BY <2>2 DEF Paid
<1>3. CASE ~S[y + 1].open
  <2>1. y + 1 <= ServiceYear(n)
    BY <1>1, <1>3 DEF Carries
  <2>2. StartOf(y + 1) <= n /\ StartOf(y + 1) \in Nat
    BY <1>1, <2>1, InYear, StartType
  <2>3. k \in plan[e]["recreation"].first..(n - 1)
    BY <2>2
  <2> QED
    BY <2>3
<1> QED
  BY <1>2, <1>3

LEMMA AccrualsFollow ==
    ASSUME NEW e, NEW c, NEW s, NEW d, NEW f,
           c \in Codes, s \in Books, Orderly(s.account[c]), d \in Days,
           c = "recreation" => plan[e][c] # None /\ plan[e][c].first \in Nat,
           posts[e] \subseteq s.posts, Paid(e, s.account["recreation"], posts[e]),
           Accruals(f, e, s, NowOf(DueOf(e, c, d)), d)
    PROVE  \A t \in f[d] :
            /\ Follows(e, c, s, t, d) /\ s.posts \subseteq t.posts
            /\ c = "recreation" => Paid(e, t.account["recreation"], t.posts)
            /\ \A m \in NowOf(DueOf(e, c, d)) : Post("accrual", "recreation", m) \in t.posts
<1> DEFINE owed == DueOf(e, c, d)
           now == NowOf(owed)
           Right(t, n) == /\ Follows(e, c, s, t, n) /\ (n = -1 => t = s)
                          /\ c = "recreation" => Paid(e, t.account["recreation"], t.posts)
                          /\ \A m \in now : m <= n => Post("accrual", "recreation", m) \in t.posts
           G == {k \in Nat : k <= d + 1 => \A t \in f[k - 1] : Right(t, k - 1)}
<1>1. d \in Nat
  BY DEF Days
<1>2. owed \subseteq 0..d
  <2>1. \A x \in DueBy(e, plan[e][c].first, d) : x \in plan[e][c].first..d
    BY DEF DueBy
  <2> QED
    BY <1>1, <2>1 DEF DueOf
<1>3. now \subseteq owed
  BY DEF NowOf
<1>4. /\ f[-1] = {s}
      /\ \A n \in 0..d : f[n] = IF n \in now THEN UNION {Accrue(e, t, n) : t \in f[n - 1]} ELSE f[n - 1]
  <2>1. -1 \in -1..d /\ \A n \in 0..d : n \in -1..d /\ n # -1
    BY <1>1
  <2>2. \A n \in -1..d : f[n] = IF n = -1 THEN {s}
                                ELSE IF n \in now THEN UNION {Accrue(e, t, n) : t \in f[n - 1]} ELSE f[n - 1]
    BY DEF Accruals
  <2> QED
    BY <2>1, <2>2
<1>5. 0 \in G
  <2>1. 0 - 1 = -1
    OBVIOUS
  <2>2. Follows(e, c, s, s, -1)
    BY FollowsSelf
  <2>3. c = "recreation" => Paid(e, s.account["recreation"], s.posts)
    BY DEF Paid
  <2>4. \A m \in now : ~(m <= -1)
    BY <1>2, <1>3
  <2>5. Right(s, -1)
    BY <2>2, <2>3, <2>4
  <2> HIDE DEF Right, now
  <2> QED
    BY <1>4, <2>1, <2>5
<1>6. ASSUME NEW n \in 0..d, NEW t \in f[n - 1], Right(t, n - 1), n \in now, NEW u, u \in Accrue(e, t, n)
      PROVE  Right(u, n)
  <2>1. c = "recreation" /\ n \in owed
    BY <1>3, <1>6 DEF DueOf
  <2>2. PICK R : R = "recreation"
    OBVIOUS
  <2>3. n \in plan[e][R].first..d /\ (n - plan[e][R].first) % Fortnight = 0
        /\ Post("accrual", "recreation", n) \notin posts[e]
    BY <2>1, <2>2 DEF DueOf, DueBy
  <2>4. n \in Nat /\ n \in Days /\ n - 1 \in Nat \cup {-1} /\ n - 1 <= n
    BY <1>1, JobsAssumption DEF Days
  <2>5. Follows(e, R, s, t, n)
    BY <1>6, <2>1, <2>2, <2>4, FollowsLater
  <2>6. ~Renewed(s.account[R], ServiceYear(n))
    <3> SUFFICES ASSUME Renewed(s.account[R], ServiceYear(n)) PROVE FALSE
      OBVIOUS
    <3>1. PICK y : y = ServiceYear(n)
      OBVIOUS
    <3>2. y \in Nat /\ y + 1 \in Nat /\ y < y + 1 /\ n < StartOf(y) + Year
      BY <2>4, <3>1, YearBounds
    <3>3. StartOf(y) + Year <= StartOf(y + 1) /\ StartOf(y) \in Nat /\ StartOf(y + 1) \in Nat
      BY <3>2, YearsInOrder
    <3>4. n <= StartOf(y + 1) - 1
      BY <2>4, <3>2, <3>3, JobsAssumption
    <3>5. n \in plan[e][R].first..(StartOf(y + 1) - 1)
      BY <2>1, <2>2, <2>3, <2>4, <3>3, <3>4
    <3>6. y \in ServiceYears
      <4>1. LastDay \in Nat /\ n <= LastDay
        BY <2>4, JobsAssumption DEF Days
      <4> QED
        BY <2>4, <3>1, <3>2, <4>1, YearBounds, YearsGrow DEF ServiceYears
    <3> QED
      BY <2>1, <2>2, <2>3, <3>1, <3>5, <3>6 DEF Paid
  <2>7. Follows(e, R, s, u, n) /\ Post("accrual", R, n) \in u.posts /\ t.posts \subseteq u.posts
    BY <1>6, <2>1, <2>2, <2>4, <2>5, <2>6, AccrueFollows
  <2>8. ASSUME NEW m \in now, m <= n
        PROVE  Post("accrual", "recreation", m) \in u.posts
    <3>1. m \in Int /\ (m = n \/ m <= n - 1)
      BY <1>2, <1>3, <2>4, <2>8
    <3> QED
      BY <1>6, <2>2, <2>7, <3>1
  <2>9. ASSUME NEW k \in plan[e][R].first..(n - 1), (k - plan[e][R].first) % Fortnight = 0
        PROVE  Post("accrual", "recreation", k) \in u.posts
    <3>1. k \in plan[e][R].first..d /\ k < n /\ k <= n - 1
      BY <1>1, <2>1, <2>2, <2>4
    <3>2. k \in owed \/ Post("accrual", "recreation", k) \in posts[e]
      BY <1>1, <2>1, <2>2, <2>9, <3>1, DueOrPosted
    <3>3. CASE k \in owed
      <4>1. k \in now
        BY <1>1, <1>2, <1>6, <3>1, <3>3, EarliestFirst
      <4>2. k <= n
        BY <2>4, <3>1
      <4> QED
        BY <2>8, <4>1, <4>2
    <3>4. CASE Post("accrual", "recreation", k) \in posts[e]
      BY <2>7, <3>4 DEF Follows
    <3> QED
      BY <3>2, <3>3, <3>4
  <2>10. Paid(e, u.account["recreation"], u.posts)
    <3>1. Carries(s.account[R], t.account[R], n) /\ Carries(s.account[R], u.account[R], n)
      BY <2>5, <2>7 DEF Follows
    <3>2. Paid(e, t.account[R], t.posts)
      BY <1>6, <2>1, <2>2
    <3> QED
      BY <2>1, <2>2, <2>4, <2>7, <2>9, <3>1, <3>2, PaidOn
  <2> QED
    BY <2>1, <2>2, <2>4, <2>7, <2>8, <2>10
<1>7. ASSUME NEW n \in 0..d, NEW t \in f[n - 1], Right(t, n - 1), n \notin now
      PROVE  Right(t, n)
  <2>1. n \in Nat /\ n - 1 \in Nat \cup {-1} /\ n - 1 <= n /\ n # -1
    BY <1>1
  <2>2. Follows(e, c, s, t, n)
    BY <1>7, <2>1, FollowsLater
  <2>3. \A m \in now : m <= n => m <= n - 1
    BY <1>2, <1>3, <1>7, <2>1
  <2> HIDE DEF now
  <2> QED
    BY <1>7, <2>1, <2>2, <2>3
<1> HIDE DEF Right, now
<1>8. ASSUME NEW k \in 0..d, k \in G PROVE k + 1 \in G
  <2>1. k \in Nat /\ k <= d + 1 /\ (k + 1) - 1 = k /\ k + 1 \in Nat
    BY <1>1
  <2>2. \A t \in f[k - 1] : Right(t, k - 1)
    BY <1>8, <2>1
  <2>3. \A u \in f[k] : Right(u, k)
    <3>1. CASE k \in now
      <4> SUFFICES ASSUME NEW u \in f[k] PROVE Right(u, k)
        OBVIOUS
      <4>0. f[k] = UNION {Accrue(e, t, k) : t \in f[k - 1]}
        BY <1>4, <3>1
      <4>1. PICK t \in f[k - 1] : u \in Accrue(e, t, k)
        BY <4>0
      <4> QED
        BY <1>6, <2>2, <3>1, <4>1
    <3>2. CASE k \notin now
      BY <1>4, <1>7, <2>2, <3>2
    <3> QED
      BY <3>1, <3>2
  <2> QED
    BY <2>1, <2>3
<1>9. \A t \in f[d] : Right(t, d)
  <2>1. G \in SUBSET Nat
    OBVIOUS
  <2>2. d + 1 \in Nat /\ (d + 1) - 1 = d /\ d + 1 \in 0..(d + 1)
    BY <1>1
  <2> HIDE DEF G
  <2>3. \A k \in 0..((d + 1) - 1) : k \in G => k + 1 \in G
    BY <1>8, <2>2
  <2>4. d + 1 \in G
    BY <1>5, <2>1, <2>2, <2>3, RangeInduction
  <2> QED
    BY <2>2, <2>4 DEF G
<1>10. \A m \in now : m <= d
  <2>1. \A m \in owed : m <= d
    BY <1>1, <1>2
  <2> QED
    BY <1>3, <2>1
<1> QED
  BY <1>9, <1>10 DEF Right, now, Follows

LEMMA RunCodeFollows ==
    ASSUME NEW e, NEW c, NEW s, NEW d, NEW u,
           c \in Codes, s \in Books, Orderly(s.account[c]), d \in Days,
           plan[e]["recreation"] # None => plan[e]["recreation"].first \in Nat,
           posts[e] \subseteq s.posts, Paid(e, s.account["recreation"], posts[e]),
           u \in RunCode(e, c, s, d)
    PROVE  /\ Follows(e, c, s, u, d)
           /\ c = "recreation" => Paid(e, u.account["recreation"], u.posts)
<1>1. d \in Nat
  BY DEF Days
<1>2. CASE u = s
  <2>1. Follows(e, c, s, s, d)
    BY FollowsSelf
  <2> QED
    BY <1>2, <2>1 DEF Paid
<1>3. CASE u # s
  <2>1. PICK now : now = NowOf(DueOf(e, c, d))
    OBVIOUS
  <2>2. PICK f : Accruals(f, e, s, now, d) /\ f = CHOOSE g : Accruals(g, e, s, now, d)
    BY <1>1, AccrualsExist
  <2>3. /\ plan[e][c] # None
        /\ u \in f[d] \/ (now = DueOf(e, c, d) /\ \E t \in f[d] : u \in RenewTo(e, c, t, d))
    BY <1>3, <2>1, <2>2, RunCodeUnfolds
  <2>4. \A t \in f[d] :
            /\ Follows(e, c, s, t, d) /\ s.posts \subseteq t.posts
            /\ c = "recreation" => Paid(e, t.account["recreation"], t.posts)
            /\ \A m \in now : Post("accrual", "recreation", m) \in t.posts
    BY <2>1, <2>2, <2>3, AccrualsFollow
  <2>5. CASE u \in f[d]
    BY <2>4, <2>5
  <2>6. ASSUME now = DueOf(e, c, d), NEW t \in f[d], u \in RenewTo(e, c, t, d)
        PROVE  /\ Follows(e, c, s, u, d)
               /\ c = "recreation" => Paid(e, u.account["recreation"], u.posts)
    <3>1. /\ Follows(e, c, s, t, d) /\ s.posts \subseteq t.posts
          /\ c = "recreation" => Paid(e, t.account["recreation"], t.posts)
          /\ \A m \in now : Post("accrual", "recreation", m) \in t.posts
      BY <2>4
    <3>2. Follows(e, c, s, u, d) /\ t.posts \subseteq u.posts
      BY <2>6, <3>1, RenewToFollows
    <3>3. ASSUME c = "recreation" PROVE Paid(e, u.account["recreation"], u.posts)
      <4>1. plan[e]["recreation"] # None /\ plan[e]["recreation"].first \in Nat
        BY <2>3, <3>3
      <4>2. ASSUME NEW k \in plan[e]["recreation"].first..(d - 1),
                   (k - plan[e]["recreation"].first) % Fortnight = 0
            PROVE  Post("accrual", "recreation", k) \in u.posts
        <5>1. k \in plan[e]["recreation"].first..d
          BY <1>1, <4>1
        <5>2. k \in DueOf(e, "recreation", d) \/ Post("accrual", "recreation", k) \in posts[e]
          BY <1>1, <4>1, <4>2, <5>1, DueOrPosted
        <5> QED
          BY <2>6, <3>1, <3>2, <3>3, <5>2
      <4>3. /\ Carries(s.account["recreation"], t.account["recreation"], d)
            /\ Carries(s.account["recreation"], u.account["recreation"], d)
        BY <3>1, <3>2, <3>3 DEF Follows
      <4>4. Paid(e, t.account["recreation"], t.posts)
        BY <3>1, <3>3
      <4> QED
        BY <1>1, <3>2, <4>1, <4>2, <4>3, <4>4, PaidOn
    <3> QED
      BY <3>2, <3>3
  <2> QED
    BY <2>3, <2>5, <2>6
<1> QED
  BY <1>2, <1>3

\* What a run for an employee leaves, compared with what it found.
RunRight(e, u, d) ==
    /\ u \in Books
    /\ posts[e] \subseteq u.posts /\ \A x \in u.posts \ posts[e] : x.date <= d /\ Rests(account[e], x)
    /\ \A c \in Codes :
        /\ Orderly(u.account[c]) /\ Carries(account[e][c], u.account[c], d)
        /\ \A y \in ServiceYears : ClosedRight(e, c, account[e][c], u.account[c], y)
        /\ c = "recreation" => Total(u.account[c]) >= Total(account[e][c])
    /\ Paid(e, u.account["recreation"], u.posts)

LEMMA RunForRight ==
    ASSUME NEW e, NEW d, NEW u, d \in Days,
           account[e] \in [Codes -> [ServiceYears -> Account]], posts[e] \in SUBSET Posting,
           \A c \in Codes : Orderly(account[e][c]),
           plan[e]["recreation"] # None => plan[e]["recreation"].first \in Nat,
           Paid(e, account[e]["recreation"], posts[e]),
           u \in RunFor(e, d)
    PROVE  RunRight(e, u, d)
<1>1. PICK s : s = [account |-> account[e], posts |-> posts[e]]
  OBVIOUS
<1>2. PICK t \in RunCode(e, "medical", s, d) : u \in RunCode(e, "recreation", t, d)
  BY <1>1 DEF RunFor
<1>3. s \in Books /\ s.account = account[e] /\ s.posts = posts[e] /\ \A c \in Codes : Orderly(s.account[c])
  BY <1>1 DEF Books
<1>4. PICK R : R = "recreation"
  OBVIOUS
<1>5. PICK M : M = "medical"
  OBVIOUS
<1>6. R # M /\ Codes = {M, R}
  BY <1>4, <1>5 DEF Codes
<1>7. Follows(e, M, s, t, d)
  BY <1>2, <1>3, <1>4, <1>5, <1>6, RunCodeFollows
<1>8. t \in Books /\ t.account[R] = s.account[R] /\ s.posts \subseteq t.posts
  BY <1>6, <1>7 DEF Follows
<1>9. Follows(e, R, t, u, d) /\ Paid(e, u.account[R], u.posts)
  BY <1>2, <1>3, <1>4, <1>6, <1>8, RunCodeFollows
<1>10. /\ u \in Books /\ u.account[M] = t.account[M]
       /\ Orderly(u.account[R]) /\ Orderly(u.account[M])
       /\ Carries(s.account[R], u.account[R], d) /\ Carries(s.account[M], u.account[M], d)
       /\ Total(u.account[R]) >= Total(s.account[R])
       /\ \A y \in ServiceYears : /\ ClosedRight(e, R, s.account[R], u.account[R], y)
                                  /\ ClosedRight(e, M, s.account[M], u.account[M], y)
  BY <1>4, <1>6, <1>7, <1>8, <1>9 DEF Follows
<1>11. posts[e] \subseteq u.posts /\ \A x \in u.posts \ posts[e] : x.date <= d /\ Rests(account[e], x)
  <2>1. \A x : Rests(t.account, x) <=> Rests(s.account, x)
    BY <1>4, <1>8 DEF Rests, DaysUsed
  <2> QED
    BY <1>3, <1>7, <1>9, <2>1 DEF Follows
<1> QED
  BY <1>3, <1>4, <1>5, <1>6, <1>9, <1>10, <1>11 DEF RunRight

-----------------------------------------------------------------------------
(* Policies and the dates they govern *)

PolicyRow == [from: PolicyDates \cup {0, None}, to: PolicyDates \cup {FirstEnd, None}, next: Policies \cup {None}]

\* Policies do not overlap, and one that was replaced began before its successor.
PoliciesLaid ==
    /\ policy \in [Policies -> PolicyRow]
    /\ \A p \in Published :
        /\ policy[p].from \in Nat /\ policy[p].to \in Nat /\ policy[p].from <= policy[p].to
        /\ policy[p].next # None =>
            policy[p].next \in Published /\ policy[p].from < policy[policy[p].next].from
    /\ \A p, r \in Published : p # r => Until(p) < policy[r].from \/ Until(r) < policy[p].from

Reliance == [day: Days, policy: Policies, event: Days]

\* A day that was used is governed by the policy it was used with, or by one that ends before
\* the event that used it.
Keeps(x) == \E p \in Covering(x.day) : p = x.policy \/ Until(p) < x.event

\* What days were used for was posted, or granted.
Stands(d) ==
    \/ \E e \in Employees : d \in PostedOn(e)
    \/ \E q \in Requests : leave[q].status = "approved" /\ Leave[q].day = d

\* What was used was used by a posting or granted leave of a date that is governed.
ReliedKept ==
    /\ relied \subseteq Reliance
    /\ \A x \in relied : x.day <= x.event /\ Governed(x.event) /\ Keeps(x) /\ Stands(x.event)

LEMMA UntilBounds ==
    ASSUME PoliciesLaid, NEW p \in Published
    PROVE  /\ policy[p].from \in Nat /\ Until(p) \in Nat
           /\ policy[p].from <= Until(p) /\ Until(p) <= policy[p].to
<1>1. CASE policy[p].next = None
  BY <1>1 DEF PoliciesLaid, Until
<1>2. CASE policy[p].next # None
  <2>1. PICK r \in Published : r = policy[p].next
    BY <1>2 DEF PoliciesLaid
  <2>2. policy[r].from \in Nat /\ policy[p].from \in Nat /\ policy[p].to \in Nat
        /\ policy[p].from <= policy[p].to /\ policy[p].from < policy[r].from
    BY <1>2, <2>1 DEF PoliciesLaid
  <2>3. Until(p) = Lesser(policy[p].to, policy[r].from - 1)
    BY <1>2, <2>1 DEF Until
  <2> QED
    BY <2>2, <2>3 DEF Lesser
<1> QED
  BY <1>1, <1>2

OneCoversEach == \A d \in Nat : \A p \in Covering(d) : Covering(d) = {p}

LEMMA OneCovers == PoliciesLaid => OneCoversEach
<1> USE DEF OneCoversEach
<1> SUFFICES ASSUME PoliciesLaid, NEW d \in Nat, NEW p \in Covering(d), NEW r \in Covering(d), r # p
             PROVE  FALSE
  OBVIOUS
<1>1. p \in Published /\ r \in Published /\ policy[p].from <= d /\ d <= Until(p) /\ policy[r].from <= d /\ d <= Until(r)
  BY DEF Covering
<1>2. Until(p) < policy[r].from \/ Until(r) < policy[p].from
  BY <1>1 DEF PoliciesLaid
<1>3. Until(p) \in Nat /\ Until(r) \in Nat /\ policy[p].from \in Nat /\ policy[r].from \in Nat
  BY <1>1, UntilBounds
<1> QED
  BY <1>1, <1>2, <1>3

\* What a publication makes of the policies.
LEMMA PublishMakes ==
    ASSUME PoliciesLaid, NEW p, NEW from, NEW to, NEW prior, p \in Policies, from \in PolicyDates,
           to \in PolicyDates, prior \in Policies \cup {None}, Publish(p, from, to, prior)
    PROVE  /\ policy' \in [Policies -> PolicyRow] /\ p \notin Published /\ Published' = Published \cup {p}
           /\ policy'[p] = [from |-> from, to |-> to, next |-> None]
           /\ from \in Nat /\ to \in Nat /\ from <= to
           /\ \A r \in Published : policy'[r].from = policy[r].from /\ policy'[r].to = policy[r].to
           /\ \A r \in Published \ {prior} : policy'[r].next = policy[r].next
           /\ prior \in Published => policy[prior].next = None /\ policy'[prior].next = p
<1>1. from \in Nat /\ to \in Nat /\ from <= to /\ p \notin Published /\ None \notin Nat /\ None \notin Policies
  BY JobsAssumption, PolicyIdsAssumption DEF Publish
<1>2. policy' = [r \in Policies |->
            CASE r = p -> [from |-> from, to |-> to, next |-> None]
              [] r = prior -> [policy[r] EXCEPT !.next = p]
              [] OTHER -> policy[r]]
  BY DEF Publish
<1>5. prior # None => prior \in Published /\ policy[prior].next = None /\ prior # p
  BY <1>1 DEF Publish, MayPublish
<1>3. policy'[p] = [from |-> from, to |-> to, next |-> None]
  <2>1. p # prior
    BY <1>1, <1>5
  <2> QED
    BY <1>2, <2>1
<1>4. \A r \in Policies : r # p /\ r # prior => policy'[r] = policy[r]
  BY <1>2
<1>6. prior # None => policy'[prior] = [policy[prior] EXCEPT !.next = p]
  BY <1>2, <1>5
<1>7. policy \in [Policies -> PolicyRow]
  BY DEF PoliciesLaid
<1>8. prior # None => /\ policy'[prior] \in PolicyRow /\ policy'[prior].next = p
                      /\ policy'[prior].from = policy[prior].from /\ policy'[prior].to = policy[prior].to
  BY <1>6, <1>7 DEF PolicyRow
<1>9. [from |-> from, to |-> to, next |-> None] \in PolicyRow
  BY DEF PolicyRow
<1>10. policy' \in [Policies -> PolicyRow]
  <2>1. policy' = [r \in Policies |-> policy'[r]]
    BY <1>2
  <2>2. \A r \in Policies : policy'[r] \in PolicyRow
    <3> SUFFICES ASSUME NEW r \in Policies PROVE policy'[r] \in PolicyRow
      OBVIOUS
    <3>1. CASE r = p
      BY <1>3, <1>9, <3>1
    <3>2. CASE r = prior
      BY <1>1, <1>8, <3>2
    <3>3. CASE r # p /\ r # prior
      BY <1>4, <1>7, <3>3
    <3> QED
      BY <3>1, <3>2, <3>3
  <2> QED
    BY <2>1, <2>2
<1>11. \A r \in Policies \ {p} : policy'[r].from = policy[r].from /\ policy'[r].to = policy[r].to
  <2> SUFFICES ASSUME NEW r \in Policies \ {p}
               PROVE  policy'[r].from = policy[r].from /\ policy'[r].to = policy[r].to
    OBVIOUS
  <2>1. CASE r = prior
    BY <1>1, <1>8, <2>1
  <2>2. CASE r # prior
    BY <1>4, <2>2
  <2> QED
    BY <2>1, <2>2
<1>12. Published' = Published \cup {p}
  <2>1. policy'[p].from = from /\ from # None
    BY <1>1, <1>3
  <2> QED
    BY <1>11, <2>1 DEF Published
<1>13. \A r \in Published : r \in Policies \ {p}
  BY <1>1 DEF Published
<1>14. \A r \in Published \ {prior} : policy'[r].next = policy[r].next
  BY <1>4, <1>13
<1>15. prior \in Published => policy[prior].next = None /\ policy'[prior].next = p
  BY <1>1, <1>5, <1>8 DEF Published
<1> QED
  BY <1>1, <1>3, <1>10, <1>11, <1>12, <1>13, <1>14, <1>15

LEMMA PublishUntil ==
    ASSUME PoliciesLaid, NEW p, NEW from, NEW to, NEW prior, p \in Policies, from \in PolicyDates,
           to \in PolicyDates, prior \in Policies \cup {None}, Publish(p, from, to, prior)
    PROVE  /\ Until(p)' = to
           /\ \A r \in Published \ {prior} : Until(r)' = Until(r)
           /\ prior \in Published => /\ Until(prior)' = from - 1 /\ policy[prior].from < from
                                     /\ from <= Until(prior) /\ Until(prior) <= to
<1>1. /\ policy' \in [Policies -> PolicyRow] /\ p \notin Published /\ Published' = Published \cup {p}
      /\ policy'[p] = [from |-> from, to |-> to, next |-> None]
      /\ from \in Nat /\ to \in Nat /\ from <= to
      /\ \A r \in Published : policy'[r].from = policy[r].from /\ policy'[r].to = policy[r].to
      /\ \A r \in Published \ {prior} : policy'[r].next = policy[r].next
      /\ prior \in Published => policy[prior].next = None /\ policy'[prior].next = p
  BY PublishMakes
<1>2. Until(p)' = to
  <2>1. policy'[p].next = None /\ policy'[p].to = to
    BY <1>1
  <2> QED
    BY <2>1 DEF Until
<1>3. ASSUME NEW r \in Published \ {prior} PROVE Until(r)' = Until(r)
  <2>1. policy'[r].next = policy[r].next /\ policy'[r].to = policy[r].to
    BY <1>1
  <2>2. policy[r].next # None => policy'[policy[r].next].from = policy[policy[r].next].from
    BY <1>1 DEF PoliciesLaid
  <2> QED
    BY <2>1, <2>2 DEF Until
<1>4. ASSUME prior \in Published
      PROVE  /\ Until(prior)' = from - 1 /\ policy[prior].from < from
             /\ from <= Until(prior) /\ Until(prior) <= to
  <2>1. prior # None /\ p # None
    BY <1>4, PolicyIdsAssumption DEF Published
  <2>2. policy[prior].from < from /\ from <= Until(prior) /\ Until(prior) <= to
    BY <2>1 DEF Publish, MayPublish
  <2>3. Until(prior) = policy[prior].to /\ policy[prior].to \in Nat
    BY <1>1, <1>4 DEF Until, PoliciesLaid
  <2>4. Until(prior)' = Lesser(policy[prior].to, from - 1)
    <3>1. policy'[prior].next = p /\ policy'[prior].to = policy[prior].to /\ policy'[p].from = from
      BY <1>1, <1>4
    <3> QED
      BY <2>1, <3>1 DEF Until
  <2> QED
    BY <1>1, <2>2, <2>3, <2>4 DEF Lesser
<1> QED
  BY <1>2, <1>3, <1>4

LEMMA PublishLays ==
    ASSUME PoliciesLaid, NEW p, NEW from, NEW to, NEW prior, p \in Policies, from \in PolicyDates,
           to \in PolicyDates, prior \in Policies \cup {None}, Publish(p, from, to, prior)
    PROVE  PoliciesLaid'
<1>1. /\ policy' \in [Policies -> PolicyRow] /\ p \notin Published /\ Published' = Published \cup {p}
      /\ policy'[p].from = from /\ policy'[p].to = to /\ policy'[p].next = None
      /\ from \in Nat /\ to \in Nat /\ from <= to
      /\ \A r \in Published : policy'[r].from = policy[r].from /\ policy'[r].to = policy[r].to
      /\ \A r \in Published \ {prior} : policy'[r].next = policy[r].next
      /\ prior \in Published => policy[prior].next = None /\ policy'[prior].next = p
  <2>1. /\ policy' \in [Policies -> PolicyRow] /\ p \notin Published /\ Published' = Published \cup {p}
        /\ policy'[p] = [from |-> from, to |-> to, next |-> None]
        /\ from \in Nat /\ to \in Nat /\ from <= to
        /\ \A r \in Published : policy'[r].from = policy[r].from /\ policy'[r].to = policy[r].to
        /\ \A r \in Published \ {prior} : policy'[r].next = policy[r].next
        /\ prior \in Published => policy[prior].next = None /\ policy'[prior].next = p
    BY PublishMakes
  <2>2. policy'[p].from = from /\ policy'[p].to = to /\ policy'[p].next = None
    BY <2>1
  <2> QED
    BY <2>1, <2>2
<1>2. /\ Until(p)' = to
      /\ \A r \in Published \ {prior} : Until(r)' = Until(r)
      /\ prior \in Published => /\ Until(prior)' = from - 1 /\ policy[prior].from < from
                                /\ from <= Until(prior) /\ Until(prior) <= to
  BY PublishUntil
<1>3. ASSUME NEW r \in Published \cup {p}
      PROVE  /\ policy'[r].from \in Nat /\ policy'[r].to \in Nat /\ policy'[r].from <= policy'[r].to
             /\ policy'[r].next # None =>
                    policy'[r].next \in Published \cup {p} /\ policy'[r].from < policy'[policy'[r].next].from
  <2>1. CASE r = p
    BY <1>1, <2>1
  <2>2. CASE r \in Published /\ r = prior
    BY <1>1, <1>2, <2>2 DEF PoliciesLaid
  <2>3. CASE r \in Published \ {prior}
    BY <1>1, <2>3 DEF PoliciesLaid
  <2> QED
    BY <2>1, <2>2, <2>3
<1>4. ASSUME NEW r \in Published PROVE to < policy[r].from \/ Until(r)' < from
  <2>1. CASE r = prior
    BY <1>1, <1>2, <2>1
  <2>2. CASE r # prior
    <3>1. ~(policy[r].from <= to /\ Until(r) >= from)
      <4>1. LET overlapping == {x \in Published : policy[x].from <= to /\ Until(x) >= from}
            IN  overlapping = {} \/ overlapping = {prior}
        BY DEF Publish, MayPublish
      <4> QED
        BY <2>2, <4>1
    <3>2. policy[r].from \in Nat /\ Until(r) \in Nat /\ Until(r)' = Until(r)
      BY <1>2, <2>2, UntilBounds
    <3> QED
      BY <1>1, <3>1, <3>2
  <2> QED
    BY <2>1, <2>2
<1>5. ASSUME NEW r \in Published PROVE Until(r)' <= Until(r) /\ Until(r)' \in Int /\ Until(r) \in Int
  <2>1. Until(r) \in Nat
    BY UntilBounds
  <2> QED
    BY <1>1, <1>2, <2>1
<1>6. ASSUME NEW r \in Published \cup {p}, NEW x \in Published \cup {p}, r # x
      PROVE  Until(r)' < policy'[x].from \/ Until(x)' < policy'[r].from
  <2>1. CASE r = p
    BY <1>1, <1>2, <1>4, <1>6, <2>1
  <2>2. CASE x = p
    BY <1>1, <1>2, <1>4, <1>6, <2>2
  <2>3. CASE r \in Published /\ x \in Published
    <3>1. Until(r) < policy[x].from \/ Until(x) < policy[r].from
      BY <1>6, <2>3 DEF PoliciesLaid
    <3>2. policy[r].from \in Nat /\ policy[x].from \in Nat
      BY <2>3, UntilBounds
    <3>3. /\ Until(r)' <= Until(r) /\ Until(r)' \in Int /\ Until(r) \in Int
          /\ Until(x)' <= Until(x) /\ Until(x)' \in Int /\ Until(x) \in Int
      BY <1>5, <2>3
    <3>4. policy'[r].from = policy[r].from /\ policy'[x].from = policy[x].from
      BY <1>1, <2>3
    <3> QED
      BY <3>1, <3>2, <3>3, <3>4
  <2> QED
    BY <2>1, <2>2, <2>3
<1> QED
  BY <1>1, <1>3, <1>6 DEF PoliciesLaid

LEMMA PublishKeepsRelied ==
    ASSUME PoliciesLaid, ReliedKept, NEW p, NEW from, NEW to, NEW prior, p \in Policies, from \in PolicyDates,
           to \in PolicyDates, prior \in Policies \cup {None}, Publish(p, from, to, prior)
    PROVE  ReliedKept'
<1>1. /\ Published' = Published \cup {p} /\ from \in Nat /\ to \in Nat /\ policy'[p].from = from
      /\ \A r \in Published : policy'[r].from = policy[r].from
  <2>1. policy'[p] = [from |-> from, to |-> to, next |-> None]
    BY PublishMakes
  <2>2. policy'[p].from = from
    BY <2>1
  <2> QED
    BY <2>2, PublishMakes
<1>2. /\ Until(p)' = to
      /\ \A r \in Published \ {prior} : Until(r)' = Until(r)
      /\ prior \in Published => /\ Until(prior)' = from - 1
                                /\ from <= Until(prior) /\ Until(prior) <= to
  BY PublishUntil
<1>3. posts' = posts /\ leave' = leave /\ relied' = relied
  BY DEF Publish
<1>4. \A d \in Days : Stands(d)' <=> Stands(d)
  BY <1>3 DEF Stands, PostedOn
<1>5. ASSUME NEW x \in relied PROVE x.day <= x.event /\ Governed(x.event)' /\ Keeps(x)'
  <2>1. /\ x.day \in Nat /\ x.event \in Nat /\ x.day <= x.event
        /\ Governed(x.event) /\ Keeps(x) /\ Stands(x.event)
    BY DEF ReliedKept, Reliance, Days
  <2>2. ASSUME NEW g, g \in Covering(x.event) PROVE Governed(x.event)'
    <3>1. g \in Published /\ policy[g].from <= x.event /\ x.event <= Until(g) /\ Until(g) \in Nat
      BY <2>2, UntilBounds DEF Covering
    <3>2. g \in Covering(x.event)' \/ p \in Covering(x.event)'
      BY <1>1, <1>2, <2>1, <3>1 DEF Covering
    <3> QED
      BY <3>2 DEF Governed
  <2>3. ASSUME NEW g, g \in Covering(x.day), g = x.policy \/ Until(g) < x.event PROVE Keeps(x)'
    <3>1. g \in Published /\ policy[g].from <= x.day /\ x.day <= Until(g) /\ Until(g) \in Nat
      BY <2>3, UntilBounds DEF Covering
    <3>2. CASE x.day <= Until(g)'
      <4>1. Until(g)' <= Until(g) /\ Until(g)' \in Int
        BY <1>1, <1>2, <3>1
      <4>2. g \in Covering(x.day)' /\ (g = x.policy \/ Until(g)' < x.event)
        BY <1>1, <2>1, <2>3, <3>1, <3>2, <4>1 DEF Covering
      <4> QED
        BY <4>2 DEF Keeps
    <3>3. CASE ~(x.day <= Until(g)')
      <4>1. g = prior /\ from <= x.day /\ x.day <= to
        BY <1>1, <1>2, <2>1, <3>1, <3>3
      <4>2. ~Relied(from, to)
        <5>1. prior # None
          BY <3>1, <4>1, PolicyIdsAssumption DEF Published
        <5> QED
          BY <5>1 DEF Publish, MayPublish
      <4>3. to < x.event
        <5> SUFFICES ASSUME x.event <= to PROVE FALSE
          BY <1>1, <2>1
        <5>1. x.event \in from..to
          BY <1>1, <2>1, <4>1
        <5> QED
          BY <2>1, <4>2, <5>1 DEF Relied, Stands
      <4>4. p \in Covering(x.day)' /\ Until(p)' < x.event
        BY <1>1, <1>2, <4>1, <4>3 DEF Covering
      <4> QED
        BY <4>4 DEF Keeps
    <3> QED
      BY <3>2, <3>3
  <2> QED
    BY <2>1, <2>2, <2>3 DEF Governed, Keeps
<1> QED
  BY <1>3, <1>4, <1>5 DEF ReliedKept, Reliance

\* What an extension makes of the policies.
LEMMA ExtendMakes ==
    ASSUME PoliciesLaid, NEW p, NEW to, p \in Policies, to \in PolicyDates, Extend(p, to)
    PROVE  /\ policy' \in [Policies -> PolicyRow] /\ Published' = Published /\ p \in Published
           /\ policy'[p].from = policy[p].from /\ policy'[p].next = None /\ policy'[p].to = to /\ to \in Nat
           /\ \A r \in Published \ {p} : policy'[r] = policy[r]
           /\ Until(p)' = to /\ Until(p) < to
           /\ \A r \in Published \ {p} : Until(r)' = Until(r)
<1>1. p \in Published /\ policy[p].next = None /\ to > Until(p) /\ to \in Nat
  BY JobsAssumption DEF Extend
<1>2. policy \in [Policies -> PolicyRow] /\ policy' = [policy EXCEPT ![p].to = to]
  BY DEF Extend, PoliciesLaid
<1>3. policy[p] \in PolicyRow /\ policy'[p] = [policy[p] EXCEPT !.to = to]
  BY <1>2
<1>4. /\ policy'[p] \in PolicyRow /\ policy'[p].from = policy[p].from /\ policy'[p].next = None
      /\ policy'[p].to = to
  BY <1>1, <1>3 DEF PolicyRow
<1>5. \A r \in Policies \ {p} : policy'[r] = policy[r]
  BY <1>2
<1>6. policy' \in [Policies -> PolicyRow]
  BY <1>2, <1>4, <1>5
<1>7. Published' = Published /\ \A r \in Published \ {p} : policy'[r] = policy[r]
  BY <1>4, <1>5 DEF Published
<1>8. Until(p)' = to
  BY <1>4 DEF Until
<1>9. \A r \in Published : policy'[r].from = policy[r].from /\ (policy[r].next # None => policy[r].next \in Published)
  BY <1>4, <1>7 DEF PoliciesLaid
<1>10. ASSUME NEW r \in Published \ {p} PROVE Until(r)' = Until(r)
  BY <1>7, <1>9 DEF Until
<1> QED
  BY <1>1, <1>4, <1>6, <1>7, <1>8, <1>10, UntilBounds

LEMMA ExtendLays ==
    ASSUME PoliciesLaid, NEW p, NEW to, p \in Policies, to \in PolicyDates, Extend(p, to)
    PROVE  PoliciesLaid'
<1>1. /\ policy' \in [Policies -> PolicyRow] /\ Published' = Published /\ p \in Published
      /\ policy'[p].from = policy[p].from /\ policy'[p].next = None /\ policy'[p].to = to /\ to \in Nat
      /\ \A r \in Published \ {p} : policy'[r] = policy[r]
      /\ Until(p)' = to /\ Until(p) < to
      /\ \A r \in Published \ {p} : Until(r)' = Until(r)
  BY ExtendMakes
<1>2. \A r \in Published : policy'[r].from = policy[r].from
  BY <1>1
<1>3. ASSUME NEW r \in Published
      PROVE  /\ policy'[r].from \in Nat /\ policy'[r].to \in Nat /\ policy'[r].from <= policy'[r].to
             /\ policy'[r].next # None =>
                    policy'[r].next \in Published /\ policy'[r].from < policy'[policy'[r].next].from
  <2>1. CASE r = p
    BY <1>1, <2>1, UntilBounds
  <2>2. CASE r # p
    BY <1>1, <1>2, <2>2 DEF PoliciesLaid
  <2> QED
    BY <2>1, <2>2
<1>4. ASSUME NEW r \in Published \ {p} PROVE to < policy[r].from \/ Until(r) < policy[p].from
  <2>1. ~(policy[r].from <= to /\ Until(r) > Until(p))
    BY DEF Extend
  <2>2. Until(p) < policy[r].from \/ Until(r) < policy[p].from
    BY <1>1 DEF PoliciesLaid
  <2>3. /\ policy[r].from \in Nat /\ Until(r) \in Nat /\ policy[r].from <= Until(r)
        /\ policy[p].from \in Nat /\ Until(p) \in Nat
    BY <1>1, UntilBounds
  <2> QED
    BY <1>1, <2>1, <2>2, <2>3
<1>5. ASSUME NEW r \in Published, NEW x \in Published, r # x
      PROVE  Until(r)' < policy'[x].from \/ Until(x)' < policy'[r].from
  <2>1. CASE r = p
    BY <1>1, <1>2, <1>4, <1>5, <2>1
  <2>2. CASE x = p
    BY <1>1, <1>2, <1>4, <1>5, <2>2
  <2>3. CASE r # p /\ x # p
    BY <1>1, <1>2, <1>5, <2>3 DEF PoliciesLaid
  <2> QED
    BY <2>1, <2>2, <2>3
<1> QED
  BY <1>1, <1>3, <1>5 DEF PoliciesLaid

LEMMA ExtendKeepsRelied ==
    ASSUME PoliciesLaid, ReliedKept, NEW p, NEW to, p \in Policies, to \in PolicyDates, Extend(p, to)
    PROVE  ReliedKept'
<1>1. /\ Published' = Published /\ p \in Published
      /\ \A r \in Published : policy'[r].from = policy[r].from
      /\ to \in Nat /\ Until(p)' = to /\ Until(p) < to
      /\ \A r \in Published \ {p} : Until(r)' = Until(r)
  BY ExtendMakes
<1>2. \A r \in Published \ {p} : ~(policy[r].from <= to /\ Until(r) > Until(p))
  BY DEF Extend
<1>3. posts' = posts /\ leave' = leave /\ relied' = relied
  BY DEF Extend
<1>4. \A d \in Days : Stands(d)' <=> Stands(d)
  BY <1>3 DEF Stands, PostedOn
<1>5. ASSUME NEW x \in relied PROVE x.day <= x.event /\ Governed(x.event)' /\ Keeps(x)'
  <2>1. x.day \in Nat /\ x.event \in Nat /\ x.day <= x.event /\ Governed(x.event) /\ Keeps(x)
    BY DEF ReliedKept, Reliance, Days
  <2>2. ASSUME NEW r \in Published
        PROVE  /\ policy[r].from \in Nat /\ Until(r) \in Nat /\ Until(r) <= Until(r)' /\ Until(r)' \in Nat
               /\ policy'[r].from = policy[r].from
    BY <1>1, UntilBounds
  <2>3. PICK g : g \in Covering(x.event)
    BY <2>1 DEF Governed
  <2>4. g \in Published /\ policy[g].from <= x.event /\ x.event <= Until(g)
    BY <2>3 DEF Covering
  <2>5. Governed(x.event)'
    <3>1. g \in Covering(x.event)'
      BY <1>1, <2>1, <2>2, <2>4 DEF Covering
    <3> QED
      BY <3>1 DEF Governed
  <2>6. PICK c : c \in Covering(x.day) /\ (c = x.policy \/ Until(c) < x.event)
    BY <2>1 DEF Keeps
  <2>7. c \in Published /\ c \in Covering(x.day)'
    BY <1>1, <2>1, <2>2, <2>6 DEF Covering
  \* The policy of the event lies in the way of an extension up to it.
  <2>8. c = x.policy \/ Until(c)' < x.event
    <3> SUFFICES ASSUME Until(c) < x.event PROVE Until(c)' < x.event
      BY <2>6
    <3>1. CASE c = p
      <4>1. g # p /\ Until(g) > Until(p)
        BY <2>1, <2>2, <2>4, <2>7, <3>1
      <4>2. to < policy[g].from
        BY <1>1, <1>2, <2>2, <2>4, <4>1
      <4> QED
        BY <1>1, <2>1, <2>2, <2>4, <3>1, <4>2
    <3>2. CASE c # p
      BY <1>1, <2>7, <3>2
    <3> QED
      BY <3>1, <3>2
  <2> QED
    BY <2>1, <2>5, <2>7, <2>8 DEF Keeps
<1> QED
  BY <1>3, <1>4, <1>5 DEF ReliedKept, Reliance

-----------------------------------------------------------------------------
(* The inductive invariant *)

PlanRow == [first: Nat \cup {None}, facts: Nat]

\* The schedules and the sweep, and what a change of the day or of the facts leaves of them.
PlansMade ==
    /\ plan \in [Employees -> [Codes -> PlanRow \cup {None}]]
    /\ \A e \in Employees : facts[e] <= changes
    /\ sweep = NoSweep \/ sweep.asOf \in 0..today

\* Years are closed as they pass, and with every period paid that the schedule has in them.
BooksKept ==
    \A e \in Employees :
        /\ \A c \in Codes :
            /\ Orderly(account[e][c])
            /\ \A y \in ServiceYears : Renewed(account[e][c], y) => y + 1 <= ServiceYear(today)
        /\ Paid(e, account[e]["recreation"], posts[e])

JobsInv == JobTypes /\ PlansMade /\ PoliciesLaid /\ ReliedKept /\ BooksKept

LEMMA InitTypes == JobsInit => JobTypes /\ PlansMade
<1> SUFFICES ASSUME JobsInit PROVE JobTypes /\ PlansMade
  OBVIOUS
<1>1. 0 \in Nat /\ LastDay \in Nat /\ 0 \in Days /\ MaxChanges \in Nat /\ Balance \in Int
  BY JobsAssumption DEF Days
<1>2. Min(Firsts) \in Firsts /\ Firsts \subseteq Nat
  <2>1. Firsts \in SUBSET Nat /\ Firsts # {}
    BY JobsAssumption
  <2>2. \E n \in Firsts : \A m \in Firsts : n <= m
    BY <2>1, LeastNatural
  <2> QED
    BY <2>1, <2>2 DEF Min
<1>3. policy \in [Policies -> PolicyRow]
  BY JobsAssumption DEF JobsInit, PolicyRow, Unpublished
<1>4. account \in [Employees -> [Codes -> [ServiceYears -> Account]]]
  BY <1>1 DEF JobsInit, Account, Opened, Unopened
<1>5. plan \in [Employees -> [Codes -> PlanRow \cup {None}]]
  BY <1>2 DEF JobsInit, PlanRow, FirstOf
<1>6. ASSUME NEW e \in Employees, NEW c \in Codes
      PROVE  plan[e][c] = None \/ (plan[e][c].first \in FirstsOf(c) /\ plan[e][c].facts \in 0..facts[e])
  BY <1>2 DEF JobsInit, FirstOf, FirstsOf
<1>7. facts \in [Employees -> 0..MaxChanges] /\ changes \in 0..MaxChanges /\ \A e \in Employees : facts[e] <= changes
  BY <1>1 DEF JobsInit
<1>8. enabled \in [Employees -> SUBSET Codes]
  BY DEF JobsInit
<1>9. posts \in [Employees -> SUBSET Posting] /\ relied \subseteq Reliance /\ today \in Days
  BY <1>1 DEF JobsInit
<1>10. leave \in [Requests -> [status: {"none", "pending", "approved", "released"}, policy: Policies \cup {None}]]
  BY DEF JobsInit
<1>11. sweep = NoSweep /\ sweep \in [asOf: Days \cup {None}, cursor: Employees \cup {-1}, page: SUBSET Employees]
  BY DEF JobsInit, NoSweep
<1> QED
  BY <1>3, <1>4, <1>5, <1>6, <1>7, <1>8, <1>9, <1>10, <1>11 DEF JobTypes, PlansMade, PolicyRow, Account, Posting,
     Reliance

LEMMA InitPolicies == JobsInit => PoliciesLaid /\ ReliedKept
<1> SUFFICES ASSUME JobsInit PROVE PoliciesLaid /\ ReliedKept
  OBVIOUS
<1>1. policy = [p \in Policies |->
                    IF p = FirstPolicy THEN [from |-> 0, to |-> FirstEnd, next |-> None] ELSE Unpublished]
  BY DEF JobsInit
<1>2. FirstPolicy \in Policies /\ FirstEnd \in Nat /\ None \notin Nat
  BY JobsAssumption, PolicyIdsAssumption
<1>3. /\ policy[FirstPolicy] = [from |-> 0, to |-> FirstEnd, next |-> None]
      /\ \A p \in Policies \ {FirstPolicy} : policy[p].from = None
  BY <1>1, <1>2 DEF Unpublished
<1>4. policy[FirstPolicy].from = 0 /\ policy[FirstPolicy].to = FirstEnd /\ policy[FirstPolicy].next = None
  BY <1>3
<1>5. Published = {FirstPolicy}
  BY <1>2, <1>3, <1>4 DEF Published
<1>6. policy \in [Policies -> PolicyRow]
  BY InitTypes DEF JobTypes, PolicyRow
<1>7. PoliciesLaid
  BY <1>2, <1>4, <1>5, <1>6 DEF PoliciesLaid
<1>8. relied = {}
  BY DEF JobsInit
<1> QED
  BY <1>7, <1>8 DEF ReliedKept

LEMMA InitBooks == JobsInit => BooksKept
<1> SUFFICES ASSUME JobsInit, NEW e \in Employees PROVE
        /\ \A c \in Codes :
            /\ Orderly(account[e][c])
            /\ \A y \in ServiceYears : Renewed(account[e][c], y) => y + 1 <= ServiceYear(today)
        /\ Paid(e, account[e]["recreation"], posts[e])
  BY DEF BooksKept
<1>1. account \in [Employees -> [Codes -> [ServiceYears -> Account]]]
  BY InitTypes DEF JobTypes, Account
<1>2. ASSUME NEW c \in Codes, NEW y \in ServiceYears
      PROVE  account[e][c][y] = Unopened \/ (y = 0 /\ account[e][c][y] = Opened(0, Balance, TRUE))
  BY <1>2 DEF JobsInit
<1>3. ServiceYear(0) = 0
  BY StartsItsYear, JobsAssumption DEF StartOf
<1>4. ASSUME NEW c \in Codes PROVE Orderly(account[e][c])
  <2>0. /\ ~Unopened.open /\ Unopened.balance = 0
        /\ Opened(0, Balance, TRUE).open /\ Opened(0, Balance, TRUE).asOf = 0 /\ Opened(0, Balance, TRUE).manual
    BY DEF Opened, Unopened
  <2>1. \A y \in ServiceYears :
            /\ account[e][c][y].open => y = 0 /\ account[e][c][y].asOf = 0 /\ account[e][c][y].manual
            /\ ~account[e][c][y].open => account[e][c][y].balance = 0
    BY <1>2, <1>4, <2>0
  <2> QED
    BY <1>1, <1>3, <2>1 DEF Orderly
<1>5. ASSUME NEW c \in Codes, NEW y \in ServiceYears PROVE ~Renewed(account[e][c], y)
  <2> SUFFICES ASSUME y + 1 \in ServiceYears PROVE ~(account[e][c][y + 1].open /\ ~account[e][c][y + 1].manual)
    BY DEF Renewed
  <2>1. ~Unopened.open /\ Opened(0, Balance, TRUE).manual
    BY DEF Opened, Unopened
  <2> QED
    BY <1>2, <1>5, <2>1
<1>6. "recreation" \in Codes
  BY DEF Codes
<1> QED
  BY <1>4, <1>5, <1>6 DEF Paid

LEMMA SameBooks ==
    ASSUME BooksKept, account' = account, plan' = plan, posts' = posts, today' = today
    PROVE  BooksKept'
BY DEF BooksKept, Paid

\* One balance of one year changes, and is neither opened by a renewal nor emptied of one.
LEMMA RowKeepsBooks ==
    ASSUME JobTypes, BooksKept, plan' = plan, posts' = posts, today' = today,
           NEW e, NEW c, NEW y, NEW row, e \in Employees, c \in Codes, y \in ServiceYears,
           row \in Account, account' = [account EXCEPT ![e][c][y] = row],
           row.open, ServiceYear(row.asOf) = y, account[e][c][y].open => row.manual = account[e][c][y].manual,
           ~account[e][c][y].open => row.manual
    PROVE  /\ account' \in [Employees -> [Codes -> [ServiceYears -> Account]]]
           /\ BooksKept'
<1>1. account \in [Employees -> [Codes -> [ServiceYears -> Account]]]
  BY DEF JobTypes, Account
<1>2. PICK mine : mine = account[e]
  OBVIOUS
<1>3. PICK old : old = mine[c]
  OBVIOUS
<1>4. mine \in [Codes -> [ServiceYears -> Account]] /\ old \in [ServiceYears -> Account]
  BY <1>1, <1>2, <1>3
<1>5. PICK new : new = [old EXCEPT ![y] = row]
  OBVIOUS
<1>6. account' = [account EXCEPT ![e] = [mine EXCEPT ![c] = new]]
  BY <1>2, <1>3, <1>5
<1>7. new \in [ServiceYears -> Account] /\ new[y] = row /\ \A z \in ServiceYears \ {y} : new[z] = old[z]
  BY <1>4, <1>5
<1>8. account' \in [Employees -> [Codes -> [ServiceYears -> Account]]]
  BY <1>1, <1>4, <1>6, <1>7
<1>9. /\ account'[e][c] = new
      /\ \A f \in Employees, k \in Codes : <<f, k>> # <<e, c>> => account'[f][k] = account[f][k]
  BY <1>1, <1>2, <1>4, <1>6
<1>10. Orderly(old) /\ \A z \in ServiceYears : Renewed(old, z) => z + 1 <= ServiceYear(today)
  BY <1>2, <1>3 DEF BooksKept
<1>11. \A z \in ServiceYears : Renewed(new, z) = Renewed(old, z)
  <2> SUFFICES ASSUME NEW z \in ServiceYears, z + 1 \in ServiceYears
               PROVE  (new[z + 1].open /\ ~new[z + 1].manual) = (old[z + 1].open /\ ~old[z + 1].manual)
    BY DEF Renewed
  <2>1. CASE z + 1 # y
    BY <1>7, <2>1
  <2>2. CASE z + 1 = y
    <3>1. new[z + 1] = row /\ old[y] = account[e][c][y]
      BY <1>2, <1>3, <1>7, <2>2
    <3>2. row.open \in BOOLEAN /\ row.manual \in BOOLEAN /\ old[y].open \in BOOLEAN /\ old[y].manual \in BOOLEAN
      BY <1>4 DEF Account
    <3> QED
      BY <2>2, <3>1, <3>2
  <2> QED
    BY <2>1, <2>2
<1>12. Orderly(new)
  <2> SUFFICES ASSUME NEW z \in ServiceYears
               PROVE  /\ new[z].open => ServiceYear(new[z].asOf) = z
                      /\ ~new[z].open => new[z].balance = 0
                      /\ z # 0 /\ new[z].open /\ ~new[z].manual => new[z - 1].open
    BY <1>7 DEF Orderly
  <2>1. /\ old[z].open => ServiceYear(old[z].asOf) = z
        /\ ~old[z].open => old[z].balance = 0
        /\ z # 0 /\ old[z].open /\ ~old[z].manual => old[z - 1].open
    BY <1>10 DEF Orderly
  <2>2. old[y] = account[e][c][y]
    BY <1>2, <1>3
  <2>3. z # 0 => z - 1 \in ServiceYears
    BY YearsFinite DEF ServiceYears
  <2>4. z # 0 /\ old[z - 1].open => new[z - 1].open
    BY <1>7, <2>3
  <2>5. CASE z = y
    BY <1>7, <2>1, <2>2, <2>4, <2>5
  <2>6. CASE z # y
    BY <1>7, <2>1, <2>4, <2>6
  <2> QED
    BY <2>5, <2>6
<1>13. BooksKept'
  <2> SUFFICES ASSUME NEW f \in Employees PROVE
        /\ \A k \in Codes :
            /\ Orderly(account'[f][k])
            /\ \A z \in ServiceYears : Renewed(account'[f][k], z) => z + 1 <= ServiceYear(today)
        /\ Paid(f, account[f]["recreation"], posts[f])'
    BY DEF BooksKept
  <2>1. \A k \in Codes : /\ Orderly(account'[f][k])
                         /\ \A z \in ServiceYears : Renewed(account'[f][k], z) = Renewed(account[f][k], z)
    <3> SUFFICES ASSUME NEW k \in Codes
                 PROVE  /\ Orderly(account'[f][k])
                        /\ \A z \in ServiceYears : Renewed(account'[f][k], z) = Renewed(account[f][k], z)
      OBVIOUS
    <3>1. CASE f = e /\ k = c
      BY <1>2, <1>3, <1>9, <1>11, <1>12, <3>1
    <3>2. CASE ~(f = e /\ k = c)
      <4>1. account'[f][k] = account[f][k]
        BY <1>9, <3>2
      <4> QED
        BY <4>1 DEF BooksKept
    <3> QED
      BY <3>1, <3>2
  <2>2. "recreation" \in Codes
    BY DEF Codes
  <2>3. Paid(f, account[f]["recreation"], posts[f])
    BY DEF BooksKept
  <2>4. Paid(f, account[f]["recreation"], posts[f])'
    BY <2>1, <2>2, <2>3 DEF Paid
  <2> QED
    BY <2>1, <2>4 DEF BooksKept
<1> QED
  BY <1>8, <1>13

LEMMA RunTypes ==
    ASSUME NEW e, NEW d, NEW u, JobTypes, PlansMade, BooksKept, e \in Employees, d \in Days, u \in RunFor(e, d)
    PROVE  RunRight(e, u, d)
<1>1. account[e] \in [Codes -> [ServiceYears -> Account]] /\ posts[e] \in SUBSET Posting
  BY DEF JobTypes, Account, Posting
<1>2. plan[e]["recreation"] # None => plan[e]["recreation"].first \in Nat
  <2>1. plan[e]["recreation"] # None => plan[e]["recreation"].first \in Firsts
    BY DEF JobTypes, FirstsOf, Codes
  <2> QED
    BY <2>1, JobsAssumption
<1>3. (\A c \in Codes : Orderly(account[e][c])) /\ Paid(e, account[e]["recreation"], posts[e])
  BY DEF BooksKept
<1> QED
  BY <1>1, <1>2, <1>3, RunForRight

\* The postings of a run keep the books.
LEMMA RunKeepsBooks ==
    ASSUME NEW e, NEW d, NEW u, JobTypes, PlansMade, BooksKept, e \in Employees, d \in Days, d <= today,
           u \in RunFor(e, d), account' = [account EXCEPT ![e] = u.account],
           posts' = [posts EXCEPT ![e] = u.posts], plan' = plan, today' = today
    PROVE  /\ account' \in [Employees -> [Codes -> [ServiceYears -> Account]]]
           /\ posts' \in [Employees -> SUBSET Posting]
           /\ account'[e] = u.account /\ posts'[e] = u.posts
           /\ \A f \in Employees \ {e} : account'[f] = account[f] /\ posts'[f] = posts[f]
           /\ BooksKept'
<1>1. RunRight(e, u, d)
  BY RunTypes
<1>2. u.account \in [Codes -> [ServiceYears -> Account]] /\ u.posts \in SUBSET Posting
  BY <1>1 DEF RunRight, Books
<1>3. account \in [Employees -> [Codes -> [ServiceYears -> Account]]] /\ posts \in [Employees -> SUBSET Posting]
  BY DEF JobTypes, Account, Posting
<1>4. /\ account' \in [Employees -> [Codes -> [ServiceYears -> Account]]]
      /\ posts' \in [Employees -> SUBSET Posting]
      /\ account'[e] = u.account /\ posts'[e] = u.posts
      /\ \A f \in Employees \ {e} : account'[f] = account[f] /\ posts'[f] = posts[f]
  BY <1>2, <1>3
<1>5. d \in Nat /\ today \in Nat /\ d <= today
  BY DEF JobTypes, Days
<1>6. /\ ServiceYear(d) \in Nat /\ ServiceYear(today) \in Nat /\ ServiceYear(d) <= ServiceYear(today)
  BY <1>5, YearsGrow, YearBounds
<1>7. ASSUME NEW c \in Codes, NEW y \in ServiceYears, Renewed(u.account[c], y)
      PROVE  y + 1 <= ServiceYear(today)
  <2>1. Carries(account[e][c], u.account[c], d)
    BY <1>1 DEF RunRight
  <2>2. y + 1 \in ServiceYears /\ u.account[c][y + 1].open /\ ~u.account[c][y + 1].manual
    BY <1>7 DEF Renewed
  <2>3. CASE account[e][c][y + 1].open
    <3>1. Renewed(account[e][c], y)
      BY <2>1, <2>2, <2>3 DEF Carries, Renewed
    <3> QED
      BY <3>1 DEF BooksKept
  <2>4. CASE ~account[e][c][y + 1].open
    <3>1. y + 1 <= ServiceYear(d) /\ y + 1 \in Nat
      BY <2>1, <2>2, <2>4, YearsFinite DEF Carries
    <3> QED
      BY <1>6, <3>1
  <2> QED
    BY <2>3, <2>4
<1>8. (\A c \in Codes : Orderly(u.account[c])) /\ Paid(e, u.account["recreation"], u.posts)
  BY <1>1 DEF RunRight
<1>9. BooksKept'
  <2> SUFFICES ASSUME NEW f \in Employees PROVE
        /\ \A k \in Codes :
            /\ Orderly(account'[f][k])
            /\ \A z \in ServiceYears : Renewed(account'[f][k], z) => z + 1 <= ServiceYear(today)
        /\ Paid(f, account[f]["recreation"], posts[f])'
    BY DEF BooksKept
  <2>1. CASE f = e
    BY <1>4, <1>7, <1>8, <2>1 DEF Paid
  <2>2. CASE f # e
    <3>1. account'[f] = account[f] /\ posts'[f] = posts[f]
      BY <1>4, <2>2
    <3>2. /\ \A k \in Codes :
                /\ Orderly(account[f][k])
                /\ \A z \in ServiceYears : Renewed(account[f][k], z) => z + 1 <= ServiceYear(today)
          /\ Paid(f, account[f]["recreation"], posts[f])
      BY DEF BooksKept
    <3>3. Paid(f, account[f]["recreation"], posts[f])'
      BY <3>1, <3>2 DEF Paid
    <3> QED
      BY <3>1, <3>2, <3>3
  <2> QED
    BY <2>1, <2>2
<1> QED
  BY <1>4, <1>9

\* A new schedule begins in the current year, of which nothing is closed.
LEMMA PlanKeepsBooks ==
    ASSUME JobTypes, BooksKept, PlansMade, NEW e, NEW c, NEW first, e \in Employees, c \in Codes,
           first \in FirstsOf(c), SavePlan(e, c, first)
    PROVE  BooksKept'
<1>1. account' = account /\ posts' = posts /\ today' = today /\ facts' = facts
  BY DEF SavePlan
<1>2. plan' = [plan EXCEPT ![e][c] = [first |-> first, facts |-> facts[e]]]
  BY DEF SavePlan
<1>3. plan \in [Employees -> [Codes -> PlanRow \cup {None}]]
  BY DEF PlansMade
<1>4. "recreation" \in Codes
  BY DEF Codes
<1>5. \A f \in Employees : f # e \/ c # "recreation" => plan'[f]["recreation"] = plan[f]["recreation"]
  BY <1>2, <1>3, <1>4
<1>6. ASSUME c = "recreation"
      PROVE  Paid(e, account[e]["recreation"], posts[e])'
  <2>1. PICK R : R = "recreation"
    OBVIOUS
  <2>2. PICK year : year = ServiceYear(today)
    OBVIOUS
  <2>3. today \in Nat /\ year \in Nat /\ year \in ServiceYears
    <3>1. today \in Nat /\ today <= LastDay /\ LastDay \in Nat
      BY JobsAssumption DEF JobTypes, Days
    <3>2. ServiceYear(today) \in Nat /\ ServiceYear(today) <= ServiceYear(LastDay)
      BY <3>1, YearBounds, YearsGrow
    <3> QED
      BY <2>2, <3>1, <3>2, YearsFinite DEF ServiceYears
  <2>4. PICK current : current = account[e][R][year]
    OBVIOUS
  <2>5. current.open /\ first >= current.asOf /\ first \in Nat
    <3>1. MayPlan(e, c, first)
      BY DEF SavePlan
    <3>2. first \in Nat
      BY <1>6, JobsAssumption DEF FirstsOf
    <3> QED
      BY <1>6, <2>1, <2>2, <2>4, <3>1, <3>2 DEF MayPlan
  <2>6. account[e][R] \in [ServiceYears -> Account] /\ Orderly(account[e][R])
    BY <1>4, <2>1 DEF BooksKept, Orderly
  <2>7. current.asOf \in Nat /\ ServiceYear(current.asOf) = year
    BY <2>3, <2>4, <2>5, <2>6 DEF Orderly, Account, Days
  <2>8. StartOf(year) <= first /\ StartOf(year) \in Nat
    BY <2>5, <2>7, YearBounds
  <2>9. plan'[e][R] = [first |-> first, facts |-> facts[e]]
    BY <1>2, <1>3, <1>6, <2>1
  <2>10. plan'[e][R].first = first
    BY <2>9
  <2>11. ASSUME NEW y \in ServiceYears, Renewed(account[e][R], y)
         PROVE  first..(StartOf(y + 1) - 1) = {}
    <3>1. y + 1 <= year /\ y + 1 \in Nat
      BY <1>4, <2>1, <2>2, <2>11, YearsFinite DEF BooksKept
    <3>2. StartOf(y + 1) <= StartOf(year) /\ StartOf(y + 1) \in Nat
      <4>1. CASE y + 1 = year
        BY <2>8, <4>1
      <4>2. CASE y + 1 < year
        <5>1. StartOf(y + 1) + Year <= StartOf(year) /\ StartOf(y + 1) \in Nat /\ Year \in Nat
          BY <2>3, <3>1, <4>2, YearsInOrder, JobsAssumption
        <5> QED
          BY <2>8, <5>1
      <4> QED
        BY <2>3, <3>1, <4>1, <4>2
    <3> QED
      BY <2>5, <2>8, <3>2
  <2> QED
    BY <1>1, <2>1, <2>10, <2>11 DEF Paid
<1>7. BooksKept'
  <2> SUFFICES ASSUME NEW f \in Employees PROVE
        /\ \A k \in Codes :
            /\ Orderly(account[f][k])
            /\ \A z \in ServiceYears : Renewed(account[f][k], z) => z + 1 <= ServiceYear(today)
        /\ Paid(f, account[f]["recreation"], posts[f])'
    BY <1>1 DEF BooksKept
  <2>1. /\ \A k \in Codes :
            /\ Orderly(account[f][k])
            /\ \A z \in ServiceYears : Renewed(account[f][k], z) => z + 1 <= ServiceYear(today)
        /\ Paid(f, account[f]["recreation"], posts[f])
    BY DEF BooksKept
  <2>2. Paid(f, account[f]["recreation"], posts[f])'
    <3>1. CASE f = e /\ c = "recreation"
      BY <1>6, <3>1
    <3>2. CASE ~(f = e /\ c = "recreation")
      BY <1>1, <1>5, <2>1, <3>2 DEF Paid
    <3> QED
      BY <3>1, <3>2
  <2> QED
    BY <2>1, <2>2
<1> QED
  BY <1>7

LEMMA NewDayKeepsBooks ==
    ASSUME JobTypes, BooksKept, NewDay
    PROVE  BooksKept' /\ today' = today + 1 /\ today' \in Days
<1>1. account' = account /\ posts' = posts /\ plan' = plan /\ today' = today + 1 /\ today < LastDay
  BY DEF NewDay
<1>2. today \in Nat /\ LastDay \in Nat /\ today + 1 \in Nat /\ today + 1 \in Days
  BY <1>1, JobsAssumption DEF JobTypes, Days
<1>3. /\ ServiceYear(today) \in Nat /\ ServiceYear(today + 1) \in Nat
      /\ ServiceYear(today) <= ServiceYear(today + 1)
  BY <1>2, YearBounds, YearsGrow
<1>4. \A y \in ServiceYears : y + 1 <= ServiceYear(today) => y + 1 <= ServiceYear(today')
  BY <1>1, <1>3, YearsFinite
<1>5. BooksKept'
  <2> SUFFICES ASSUME NEW f \in Employees PROVE
        /\ \A k \in Codes :
            /\ Orderly(account[f][k])
            /\ \A z \in ServiceYears : Renewed(account[f][k], z) => z + 1 <= ServiceYear(today')
        /\ Paid(f, account[f]["recreation"], posts[f])'
    BY <1>1 DEF BooksKept
  <2>1. /\ \A k \in Codes :
            /\ Orderly(account[f][k])
            /\ \A z \in ServiceYears : Renewed(account[f][k], z) => z + 1 <= ServiceYear(today)
        /\ Paid(f, account[f]["recreation"], posts[f])
    BY DEF BooksKept
  <2>2. Paid(f, account[f]["recreation"], posts[f])'
    BY <1>1, <2>1 DEF Paid
  <2> QED
    BY <1>4, <2>1, <2>2
<1> QED
  BY <1>1, <1>2, <1>5

-----------------------------------------------------------------------------
(* What is relied on stays as it was *)

LEMMA ReliedStays ==
    ASSUME ReliedKept, policy' = policy, posts' = posts, relied' = relied,
           \A q \in Requests : leave[q].status = "approved" => leave'[q].status = "approved"
    PROVE  ReliedKept'
<1>1. \A x : Covering(x)' = Covering(x)
  BY DEF Covering, Published, Until
<1>2. \A x : Governed(x)' = Governed(x) /\ Keeps(x)' = Keeps(x)
  BY <1>1 DEF Governed, Keeps, Until
<1>3. \A d : Stands(d) => Stands(d)'
  BY DEF Stands, PostedOn
<1> QED
  BY <1>2, <1>3 DEF ReliedKept, Reliance

\* A governed day that is used as the policies stand keeps its policy.
LEMMA UsedNow ==
    ASSUME NEW d, NEW x, Governed(d), x.day = d, x.policy = Governing(d)
    PROVE  Keeps(x) /\ Governing(d) \in Policies
BY Governs DEF Keeps

LEMMA RunKeepsRelied ==
    ASSUME NEW e, NEW d, NEW u, JobTypes, PoliciesLaid, ReliedKept, e \in Employees,
           RunRight(e, u, d), posts' = [posts EXCEPT ![e] = u.posts], policy' = policy, leave' = leave,
           relied' = relied \cup Reliances(account[e], u.posts \ posts[e])
    PROVE  ReliedKept'
<1>1. /\ u.posts \in SUBSET Posting /\ posts[e] \subseteq u.posts
      /\ \A x \in u.posts \ posts[e] : x.date \in Days /\ Rests(account[e], x)
  BY DEF RunRight, Books, Posting
<1>2. posts'[e] = u.posts /\ \A f \in Employees \ {e} : posts'[f] = posts[f]
  BY DEF JobTypes
<1>3. /\ \A x : Governed(x)' = Governed(x) /\ Keeps(x)' = Keeps(x)
      /\ \A f \in Employees : PostedOn(f) \subseteq PostedOn(f)'
  <2>1. \A x : Covering(x)' = Covering(x)
    BY DEF Covering, Published, Until
  <2>2. \A f \in Employees : PostedOn(f) \subseteq PostedOn(f)'
    BY <1>1, <1>2 DEF PostedOn
  <2> QED
    BY <2>1, <2>2 DEF Governed, Keeps, Until
<1>4. \A n : Stands(n) => Stands(n)'
  BY <1>3 DEF Stands
<1>5. ASSUME NEW z \in relied'
      PROVE  z \in Reliance /\ z.day <= z.event /\ Governed(z.event)' /\ Keeps(z)' /\ Stands(z.event)'
  <2>1. CASE z \in relied
    BY <1>3, <1>4, <2>1 DEF ReliedKept
  <2>2. ASSUME NEW x \in u.posts \ posts[e], NEW n \in DaysUsed(account[e], x),
               z = [day |-> n, policy |-> Governing(n), event |-> x.date]
        PROVE  z \in Reliance /\ z.day <= z.event /\ Governed(z.event)' /\ Keeps(z)' /\ Stands(z.event)'
    <3>1. z.day = n /\ z.policy = Governing(n) /\ z.event = x.date
      BY <2>2
    <3>2. x.date \in Days /\ n \in Days /\ n <= x.date /\ Governed(x.date) /\ Governed(n)
      BY <1>1 DEF Rests
    <3>3. Keeps(z) /\ Governing(n) \in Policies
      BY <3>1, <3>2, UsedNow
    <3>4. Stands(x.date)'
      BY <1>2 DEF Stands, PostedOn
    <3> QED
      BY <1>3, <2>2, <3>1, <3>2, <3>3, <3>4 DEF Reliance
  <2>3. z \in relied \/ \E x \in u.posts \ posts[e] : \E n \in DaysUsed(account[e], x) :
            z = [day |-> n, policy |-> Governing(n), event |-> x.date]
    BY DEF Reliances
  <2> QED
    BY <2>1, <2>2, <2>3
<1> QED
  BY <1>5 DEF ReliedKept, Reliance

-----------------------------------------------------------------------------
(* Each action keeps the invariant *)

LEMMA SameJobs ==
    ASSUME JobsInv, UNCHANGED jobVars
    PROVE  JobsInv'
<1> USE DEF JobsInv, jobVars
<1>1. JobTypes' /\ PlansMade'
  BY DEF JobTypes, PlansMade
<1>2. PoliciesLaid'
  BY DEF PoliciesLaid, Published, Until
<1> QED
  BY <1>1, <1>2, SameBooks, ReliedStays

LEMMA SamePolicies ==
    ASSUME PoliciesLaid, policy' = policy
    PROVE  PoliciesLaid'
BY DEF PoliciesLaid, Published, Until

LEMMA Counted ==
    ASSUME JobTypes, Change
    PROVE  changes' \in 0..MaxChanges /\ changes' = changes + 1 /\ changes \in Nat
BY JobsAssumption DEF JobTypes, Change

LEMMA PoliciesKeep ==
    ASSUME JobsInv, NEW p \in Policies, NEW to \in PolicyDates,
           Extend(p, to) \/ \E from \in PolicyDates, prior \in Policies \cup {None} : Publish(p, from, to, prior)
    PROVE  JobsInv'
<1> USE DEF JobsInv
<1>1. policy' \in [Policies -> PolicyRow] /\ PoliciesLaid' /\ ReliedKept'
  <2>1. CASE Extend(p, to)
    BY <2>1, ExtendMakes, ExtendLays, ExtendKeepsRelied
  <2>2. ASSUME NEW from, NEW prior, from \in PolicyDates, prior \in Policies \cup {None},
               Publish(p, from, to, prior)
        PROVE  policy' \in [Policies -> PolicyRow] /\ PoliciesLaid' /\ ReliedKept'
    <3>1. policy' \in [Policies -> PolicyRow]
      BY <2>2, PublishMakes
    <3>2. PoliciesLaid'
      BY <2>2, PublishLays
    <3>3. ReliedKept'
      BY <2>2, PublishKeepsRelied
    <3> QED
      BY <3>1, <3>2, <3>3
  <2> QED
    BY <2>1, <2>2
<1>2. Change /\ UNCHANGED <<account, plan, facts, enabled, posts, leave, sweep, today, relied>>
  BY DEF Publish, Extend
<1>3. changes' \in 0..MaxChanges /\ changes' = changes + 1 /\ changes \in Nat
  BY <1>2, Counted
<1>4. JobTypes'
  BY <1>1, <1>2, <1>3 DEF JobTypes, PolicyRow
<1>5. PlansMade'
  BY <1>2, <1>3 DEF PlansMade, JobTypes
<1> QED
  BY <1>1, <1>2, <1>4, <1>5, SameBooks

\* A step that changes one balance, and perhaps an application.
LEMMA RowKeeps ==
    ASSUME JobsInv, Change, UNCHANGED <<policy, plan, facts, enabled, posts, sweep, today>>,
           account' \in [Employees -> [Codes -> [ServiceYears -> Account]]], BooksKept', ReliedKept',
           leave' \in [Requests -> [status: {"none", "pending", "approved", "released"}, policy: Policies \cup {None}]]
    PROVE  JobsInv'
<1> USE DEF JobsInv
<1>1. changes' \in 0..MaxChanges /\ changes' = changes + 1 /\ changes \in Nat
  BY Counted
<1>2. JobTypes'
  BY <1>1 DEF JobTypes, Account, ReliedKept, Reliance
<1>3. PlansMade'
  BY <1>1 DEF PlansMade, JobTypes
<1> QED
  BY <1>2, <1>3, SamePolicies

LEMMA YearOfDay ==
    ASSUME NEW d \in Days
    PROVE  d \in Nat /\ ServiceYear(d) \in ServiceYears
<1>1. d \in Nat /\ d <= LastDay /\ LastDay \in Nat
  BY JobsAssumption DEF Days
<1>2. ServiceYear(d) \in Nat /\ ServiceYear(d) <= ServiceYear(LastDay)
  BY <1>1, YearBounds, YearsGrow
<1> QED
  BY <1>1, <1>2, YearsFinite DEF ServiceYears

LEMMA SaveOpeningKeeps ==
    ASSUME JobsInv, NEW e, NEW c, NEW d, e \in Employees, c \in Codes, d \in Openings, SaveOpening(e, c, d)
    PROVE  JobsInv'
<1> USE DEF JobsInv
<1>1. Change /\ UNCHANGED <<policy, plan, facts, enabled, posts, leave, sweep, today, relied>>
  BY DEF SaveOpening
<1>2. d \in Days /\ ServiceYear(d) \in ServiceYears
  BY YearOfDay, JobsAssumption
<1>3. PICK row : row = Opened(d, Balance, TRUE)
  OBVIOUS
<1>4. row \in Account /\ row.open /\ row.asOf = d /\ row.manual
  BY <1>2, <1>3, JobsAssumption DEF Opened, Account
<1>5. ~account[e][c][ServiceYear(d)].open /\ account' = [account EXCEPT ![e][c][ServiceYear(d)] = row]
  BY <1>3 DEF SaveOpening
<1>6. account' \in [Employees -> [Codes -> [ServiceYears -> Account]]] /\ BooksKept'
  BY <1>1, <1>2, <1>4, <1>5, RowKeepsBooks
<1>7. ReliedKept'
  BY <1>1, ReliedStays
<1>8. leave' \in [Requests -> [status: {"none", "pending", "approved", "released"}, policy: Policies \cup {None}]]
  BY <1>1 DEF JobTypes
<1> QED
  BY <1>1, <1>6, <1>7, <1>8, RowKeeps

\* The change of the amount of one balance that is open.
LEMMA AmountKeepsBooks ==
    ASSUME JobsInv, NEW e, NEW c, NEW y, NEW delta, e \in Employees, c \in Codes, y \in ServiceYears, delta \in Int,
           account[e][c][y].open, account' = [account EXCEPT ![e][c][y].balance = @ + delta],
           plan' = plan, posts' = posts, today' = today
    PROVE  account' \in [Employees -> [Codes -> [ServiceYears -> Account]]] /\ BooksKept'
<1> USE DEF JobsInv
<1>1. account[e][c][y] \in Account
  BY DEF JobTypes, Account
<1>2. PICK row : row = [account[e][c][y] EXCEPT !.balance = @ + delta]
  OBVIOUS
<1>3. account' = [account EXCEPT ![e][c][y] = row]
  BY <1>2
<1>4. row \in Account /\ row.open /\ row.asOf = account[e][c][y].asOf /\ row.manual = account[e][c][y].manual
  BY <1>1, <1>2 DEF Account
<1>5. ServiceYear(account[e][c][y].asOf) = y
  BY DEF BooksKept, Orderly
<1> QED
  BY <1>3, <1>4, <1>5, RowKeepsBooks

LEMMA CorrectKeeps ==
    ASSUME JobsInv, NEW e, NEW c, NEW y, NEW delta, e \in Employees, c \in Codes, y \in ServiceYears,
           delta \in Corrections, Correct(e, c, y, delta)
    PROVE  JobsInv'
<1>1. Change /\ UNCHANGED <<policy, plan, facts, enabled, posts, leave, sweep, today, relied>>
  BY DEF Correct
<1>2. delta \in Int
  BY JobsAssumption
<1>3. account[e][c][y].open /\ account' = [account EXCEPT ![e][c][y].balance = @ + delta]
  BY DEF Correct
<1>4. account' \in [Employees -> [Codes -> [ServiceYears -> Account]]] /\ BooksKept'
  BY <1>1, <1>2, <1>3, AmountKeepsBooks
<1>5. ReliedKept'
  BY <1>1, ReliedStays DEF JobsInv
<1>6. leave' \in [Requests -> [status: {"none", "pending", "approved", "released"}, policy: Policies \cup {None}]]
  BY <1>1 DEF JobTypes, JobsInv
<1> QED
  BY <1>1, <1>4, <1>5, <1>6, RowKeeps

LEMMA LeaveKeeps ==
    ASSUME JobsInv, NEW q, q \in Requests, Apply(q) \/ Release(q)
    PROVE  JobsInv'
<1> USE DEF JobsInv
<1>1. Change /\ UNCHANGED <<policy, account, plan, facts, enabled, posts, sweep, today, relied>>
  BY DEF Apply, Release
<1>2. leave \in [Requests -> [status: {"none", "pending", "approved", "released"}, policy: Policies \cup {None}]]
  BY DEF JobTypes
<1>3. /\ leave' \in [Requests -> [status: {"none", "pending", "approved", "released"}, policy: Policies \cup {None}]]
      /\ leave[q].status # "approved" /\ \A r \in Requests \ {q} : leave'[r] = leave[r]
  <2>1. CASE Apply(q)
    <3>1. Governed(Leave[q].day) /\ leave[q].status = "none"
          /\ leave' = [leave EXCEPT ![q] = [status |-> "pending", policy |-> Governing(Leave[q].day)]]
      BY <2>1 DEF Apply
    <3>2. Governing(Leave[q].day) \in Policies
      BY <3>1, Governs
    <3> QED
      BY <1>2, <3>1, <3>2
  <2>2. CASE Release(q)
    BY <1>2, <2>2 DEF Release
  <2> QED
    BY <2>1, <2>2
<1>4. account' \in [Employees -> [Codes -> [ServiceYears -> Account]]] /\ BooksKept'
  BY <1>1, SameBooks DEF JobTypes, Account
<1>5. ReliedKept'
  BY <1>1, <1>3, ReliedStays
<1> QED
  BY <1>1, <1>3, <1>4, <1>5, RowKeeps

LEMMA GrantKeeps ==
    ASSUME JobsInv, NEW q, q \in Requests, Grant(q)
    PROVE  JobsInv'
<1> USE DEF JobsInv
<1>1. Change /\ UNCHANGED <<policy, plan, facts, enabled, posts, sweep, today>>
  BY DEF Grant
<1>2. PICK e, c, d : e = Leave[q].employee /\ c = Leave[q].code /\ d = Leave[q].day
  OBVIOUS
<1>3. e \in Employees /\ c \in Codes /\ d \in Days
  BY <1>2, LeaveAssumption
<1>4. d \in Nat /\ ServiceYear(d) \in ServiceYears
  BY <1>3, YearOfDay
<1>5. PICK y : y = ServiceYear(d)
  OBVIOUS
<1>6. /\ leave[q].status = "pending" /\ Governed(d) /\ Governing(d) = leave[q].policy
      /\ account[e][c][y].balance >= Reserved(e, c, y)
      /\ leave' = [leave EXCEPT ![q].status = "approved"]
      /\ account' = [account EXCEPT ![e][c][y].balance = @ - 1]
      /\ relied' = relied \cup {[day |-> d, policy |-> leave[q].policy, event |-> d]}
  BY <1>2, <1>5 DEF Grant
<1>7. Reserved(e, c, y) >= 1
  <2> DEFINE Q == {r \in Requests : leave[r].status = "pending" /\ Leave[r].employee = e
                                    /\ Leave[r].code = c /\ ServiceYear(Leave[r].day) = y}
  <2>1. IsFiniteSet(Q) /\ q \in Q
    BY <1>2, <1>5, <1>6, JobsAssumption, FS_Subset
  <2>2. Cardinality(Q) \in Nat /\ Cardinality(Q) # 0
    BY <2>1, FS_CardinalityType, FS_EmptySet
  <2>3. Cardinality(Q) >= 1
    BY <2>2
  <2> QED
    BY <2>3 DEF Reserved
<1>8. account[e][c][y].open
  <2>1. account[e][c][y].balance \in Int /\ Reserved(e, c, y) \in Nat
    BY <1>3, <1>4, <1>5, ReservedType DEF JobTypes
  <2>2. account[e][c][y].balance # 0
    BY <1>6, <1>7, <2>1
  <2> QED
    BY <1>3, <1>4, <1>5, <2>2 DEF BooksKept, Orderly
<1>9. PICK delta \in Int : delta = -1 /\ account' = [account EXCEPT ![e][c][y].balance = @ + delta]
  <2>1. account[e][c][y].balance \in Int
    BY <1>3, <1>4, <1>5 DEF JobTypes
  <2>2. PICK delta \in Int : delta = -1
    OBVIOUS
  <2>3. account[e][c][y].balance - 1 = account[e][c][y].balance + delta
    BY <2>1, <2>2
  <2> QED
    BY <1>6, <2>2, <2>3
<1>10. account' \in [Employees -> [Codes -> [ServiceYears -> Account]]] /\ BooksKept'
  BY <1>1, <1>3, <1>4, <1>5, <1>8, <1>9, AmountKeepsBooks
<1>11. leave \in [Requests -> [status: {"none", "pending", "approved", "released"}, policy: Policies \cup {None}]]
  BY DEF JobTypes
<1>12. /\ leave' \in [Requests -> [status: {"none", "pending", "approved", "released"}, policy: Policies \cup {None}]]
       /\ leave'[q].status = "approved" /\ \A r \in Requests \ {q} : leave'[r] = leave[r]
  BY <1>6, <1>11
<1>13. ReliedKept'
  <2>1. /\ \A x : Governed(x)' = Governed(x) /\ Keeps(x)' = Keeps(x)
        /\ \A f : PostedOn(f)' = PostedOn(f)
    <3>1. \A x : Covering(x)' = Covering(x)
      BY <1>1 DEF Covering, Published, Until
    <3> QED
      BY <1>1, <3>1 DEF Governed, Keeps, Until, PostedOn
  <2>2. Stands(d)' /\ \A n : Stands(n) => Stands(n)'
    BY <1>2, <1>12, <2>1 DEF Stands
  <2>3. ASSUME NEW x \in relied'
        PROVE  x \in Reliance /\ x.day <= x.event /\ Governed(x.event)' /\ Keeps(x)' /\ Stands(x.event)'
    <3>1. CASE x \in relied
      BY <2>1, <2>2, <3>1 DEF ReliedKept
    <3>2. CASE x = [day |-> d, policy |-> leave[q].policy, event |-> d]
      <4>1. x.day = d /\ x.policy = leave[q].policy /\ x.event = d
        BY <3>2
      <4>2. Keeps(x) /\ leave[q].policy \in Policies
        BY <1>6, <4>1, UsedNow
      <4> QED
        BY <1>3, <1>4, <1>6, <2>1, <2>2, <3>2, <4>1, <4>2 DEF Reliance
    <3> QED
      BY <1>6, <3>1, <3>2
  <2> QED
    BY <2>3 DEF ReliedKept, Reliance
<1> QED
  BY <1>1, <1>10, <1>12, <1>13, RowKeeps

\* A step that leaves policies, balances and postings alone.
LEMMA RestKeeps ==
    ASSUME JobsInv, UNCHANGED <<policy, account, posts, leave, relied>>, JobTypes', PlansMade', BooksKept'
    PROVE  JobsInv'
BY SamePolicies, ReliedStays DEF JobsInv

LEMMA SavePlanKeeps ==
    ASSUME JobsInv, NEW e, NEW c, NEW first, e \in Employees, c \in Codes, first \in FirstsOf(c),
           SavePlan(e, c, first)
    PROVE  JobsInv'
<1> USE DEF JobsInv
<1>1. /\ Change /\ UNCHANGED <<policy, account, facts, enabled, posts, leave, sweep, today, relied>>
      /\ plan' = [plan EXCEPT ![e][c] = [first |-> first, facts |-> facts[e]]]
  BY DEF SavePlan
<1>2. changes' \in 0..MaxChanges /\ changes' = changes + 1 /\ changes \in Nat
  BY <1>1, Counted
<1>3. PICK row : row = [first |-> first, facts |-> facts[e]]
  OBVIOUS
<1>4. row \in PlanRow /\ row.first = first /\ row.facts = facts[e] /\ facts[e] \in Nat
  <2>1. facts[e] \in Nat /\ first \in Nat \cup {None}
    BY JobsAssumption DEF JobTypes, FirstsOf
  <2> QED
    BY <1>3, <2>1 DEF PlanRow
<1>5. plan \in [Employees -> [Codes -> PlanRow \cup {None}]]
  BY DEF PlansMade
<1>6. /\ plan' \in [Employees -> [Codes -> PlanRow \cup {None}]] /\ plan'[e][c] = row
      /\ \A f \in Employees, k \in Codes : <<f, k>> # <<e, c>> => plan'[f][k] = plan[f][k]
  <2>1. PICK mine : mine = [plan[e] EXCEPT ![c] = row]
    OBVIOUS
  <2>2. plan' = [plan EXCEPT ![e] = mine]
    BY <1>1, <1>3, <2>1
  <2>3. mine \in [Codes -> PlanRow \cup {None}]
    BY <1>4, <1>5, <2>1
  <2> QED
    BY <1>5, <2>1, <2>2, <2>3
<1>7. ASSUME NEW f \in Employees, NEW k \in Codes
      PROVE  plan'[f][k] = None \/ (plan'[f][k].first \in FirstsOf(k) /\ plan'[f][k].facts \in 0..facts[f])
  <2>1. CASE f = e /\ k = c
    BY <1>4, <1>6, <2>1
  <2>2. CASE ~(f = e /\ k = c)
    BY <1>6, <2>2 DEF JobTypes
  <2> QED
    BY <2>1, <2>2
<1>8. JobTypes'
  BY <1>1, <1>2, <1>7 DEF JobTypes
<1>9. PlansMade'
  BY <1>1, <1>2, <1>6 DEF PlansMade, JobTypes
<1>10. BooksKept'
  BY PlanKeepsBooks
<1> QED
  BY <1>1, <1>8, <1>9, <1>10, RestKeeps

LEMMA SetEnabledKeeps ==
    ASSUME JobsInv, NEW e \in Employees, NEW codes \in SUBSET Codes, SetEnabled(e, codes)
    PROVE  JobsInv'
<1> USE DEF JobsInv
<1>1. /\ Change /\ UNCHANGED <<policy, account, plan, facts, posts, leave, sweep, today, relied>>
      /\ enabled' = [enabled EXCEPT ![e] = codes]
  BY DEF SetEnabled
<1>2. changes' \in 0..MaxChanges /\ changes' = changes + 1 /\ changes \in Nat
  BY <1>1, Counted
<1>3. JobTypes' /\ PlansMade'
  BY <1>1, <1>2 DEF JobTypes, PlansMade
<1> QED
  BY <1>1, <1>3, SameBooks, RestKeeps

LEMMA AmendFactsKeeps ==
    ASSUME JobsInv, NEW e \in Employees, AmendFacts(e)
    PROVE  JobsInv'
<1> USE DEF JobsInv
<1>1. /\ Change /\ UNCHANGED <<policy, account, plan, enabled, posts, leave, sweep, today, relied>>
      /\ facts' = [facts EXCEPT ![e] = @ + 1]
  BY DEF AmendFacts
<1>2. changes' \in 0..MaxChanges /\ changes' = changes + 1 /\ changes \in Nat /\ MaxChanges \in Nat
  BY <1>1, Counted, JobsAssumption
<1>3. facts \in [Employees -> 0..MaxChanges] /\ \A f \in Employees : facts[f] <= changes
  BY DEF JobTypes, PlansMade
<1>4. \A f \in Employees : /\ facts[f] \in Nat /\ facts'[f] \in Nat
                           /\ facts[f] <= facts'[f] /\ facts'[f] <= changes'
  BY <1>1, <1>2, <1>3
<1>5. facts' \in [Employees -> 0..MaxChanges]
  <2>1. \A f \in Employees : facts'[f] \in 0..MaxChanges
    BY <1>2, <1>4
  <2>2. facts' = [f \in Employees |-> facts'[f]]
    BY <1>1, <1>3
  <2> QED
    BY <2>1, <2>2
<1>6. ASSUME NEW f \in Employees, NEW k \in Codes
      PROVE  plan[f][k] = None \/ (plan[f][k].first \in FirstsOf(k) /\ plan[f][k].facts \in 0..facts'[f])
  <2>1. plan[f][k] = None \/ (plan[f][k].first \in FirstsOf(k) /\ plan[f][k].facts \in 0..facts[f])
    BY DEF JobTypes
  <2> QED
    BY <1>4, <2>1
<1>7. JobTypes'
  BY <1>1, <1>2, <1>5, <1>6 DEF JobTypes
<1>8. PlansMade'
  BY <1>1, <1>4 DEF PlansMade
<1> QED
  BY <1>1, <1>7, <1>8, SameBooks, RestKeeps

\* The transaction of one employee, for a day that has come.
LEMMA PostKeeps ==
    ASSUME JobsInv, NEW e, NEW d, e \in Employees, d \in Days, d <= today, PostFor(e, d),
           UNCHANGED <<policy, plan, facts, enabled, leave, today, changes>>,
           sweep' \in [asOf: Days \cup {None}, cursor: Employees \cup {-1}, page: SUBSET Employees],
           sweep' = NoSweep \/ sweep'.asOf \in 0..today
    PROVE  JobsInv'
<1> USE DEF JobsInv
<1>1. PICK u \in RunFor(e, d) :
        /\ account' = [account EXCEPT ![e] = u.account]
        /\ posts' = [posts EXCEPT ![e] = u.posts]
        /\ relied' = relied \cup Reliances(account[e], u.posts \ posts[e])
  BY DEF PostFor
<1>2. /\ account' \in [Employees -> [Codes -> [ServiceYears -> Account]]]
      /\ posts' \in [Employees -> SUBSET Posting]
      /\ BooksKept'
  BY <1>1, RunKeepsBooks
<1>3. ReliedKept'
  BY <1>1, RunTypes, RunKeepsRelied
<1>4. JobTypes'
  BY <1>2, <1>3 DEF JobTypes, Account, Posting, ReliedKept, Reliance
<1>5. PlansMade'
  BY DEF PlansMade
<1> QED
  BY <1>2, <1>3, <1>4, <1>5, SamePolicies

LEMMA RunByHandKeeps ==
    ASSUME JobsInv, NEW e \in Employees, NEW d \in Days, RunByHand(e, d)
    PROVE  JobsInv'
<1>1. /\ d <= today /\ PostFor(e, d)
      /\ UNCHANGED <<policy, plan, facts, enabled, leave, sweep, today, changes>>
  BY DEF RunByHand
<1>2. /\ sweep' \in [asOf: Days \cup {None}, cursor: Employees \cup {-1}, page: SUBSET Employees]
      /\ sweep' = NoSweep \/ sweep'.asOf \in 0..today
  BY <1>1 DEF JobsInv, JobTypes, PlansMade
<1> QED
  BY <1>1, <1>2, PostKeeps

\* A step of the sweep that posts nothing.
LEMMA SweepKeeps ==
    ASSUME JobsInv, UNCHANGED <<policy, account, plan, facts, enabled, posts, leave, today, relied>>,
           changes' \in 0..MaxChanges, changes' >= changes,
           sweep' \in [asOf: Days \cup {None}, cursor: Employees \cup {-1}, page: SUBSET Employees],
           sweep' = NoSweep \/ sweep'.asOf \in 0..today
    PROVE  JobsInv'
<1> USE DEF JobsInv
<1>1. JobTypes'
  BY DEF JobTypes
<1>2. PlansMade'
  BY DEF PlansMade, JobTypes
<1> QED
  BY <1>1, <1>2, SameBooks, RestKeeps

NoSweepTyped == NoSweep \in [asOf: Days \cup {None}, cursor: Employees \cup {-1}, page: SUBSET Employees]

LEMMA TimerKeeps ==
    ASSUME JobsInv, StartSweep \/ NextPage \/ StopSweep
    PROVE  JobsInv'
<1> USE DEF JobsInv
<1>1. UNCHANGED <<policy, account, plan, facts, enabled, posts, leave, today, relied>>
  BY DEF StartSweep, NextPage, StopSweep
<1>2. changes' \in 0..MaxChanges /\ changes' >= changes
  <2>1. CASE Change
    BY <2>1, Counted
  <2>2. CASE changes' = changes
    BY <2>2, JobsAssumption DEF JobTypes
  <2> QED
    BY <2>1, <2>2 DEF StartSweep, NextPage, StopSweep
<1>3. NoSweepTyped
  BY DEF NoSweepTyped, NoSweep
<1>4. /\ sweep' \in [asOf: Days \cup {None}, cursor: Employees \cup {-1}, page: SUBSET Employees]
      /\ sweep' = NoSweep \/ sweep'.asOf \in 0..today
  <2>1. CASE StartSweep
    <3>1. sweep' = [asOf |-> today, cursor |-> -1, page |-> {}]
      BY <2>1 DEF StartSweep, NoSweep
    <3>2. today \in Days /\ today \in 0..today
      BY DEF JobTypes, Days
    <3> QED
      BY <3>1, <3>2
  <2>2. CASE StopSweep
    BY <1>3, <2>2 DEF StopSweep, NoSweepTyped
  <2>3. CASE NextPage
    <3>1. PICK page : /\ page \in SUBSET Employees /\ sweep # NoSweep
                      /\ sweep' = IF page = {} THEN NoSweep ELSE [sweep EXCEPT !.page = page, !.cursor = Max(page)]
      <4> DEFINE ahead == {e \in Employees : e > sweep.cursor /\ Scheduled(e)}
                 nearest == {e \in ahead : Cardinality({f \in ahead : f < e}) < PageSize}
      <4>1. /\ sweep # NoSweep
            /\ sweep' = IF nearest = {} THEN NoSweep
                        ELSE [sweep EXCEPT !.page = nearest, !.cursor = Max(nearest)]
        BY <2>3 DEF NextPage
      <4>2. nearest \in SUBSET Employees
        OBVIOUS
      <4> HIDE DEF nearest
      <4> QED
        BY <4>1, <4>2, Zenon
    <3>2. CASE page = {}
      BY <1>3, <3>1, <3>2 DEF NoSweepTyped
    <3>3. CASE page # {}
      <4>1. Max(page) \in Employees
        <5>1. page \in SUBSET Nat /\ IsFiniteSet(page)
          BY <3>1, JobsAssumption, FS_Subset
        <5>2. \E m \in page : \A n \in page : n <= m
          BY <3>3, <5>1, GreatestNatural
        <5>3. \E m \in page : \A n \in page : m >= n
          BY <5>2
        <5> QED
          BY <3>1, <5>3 DEF Max
      <4>2. sweep \in [asOf: Days \cup {None}, cursor: Employees \cup {-1}, page: SUBSET Employees]
            /\ sweep.asOf \in 0..today
        BY <3>1 DEF JobTypes, PlansMade
      <4>3. sweep' = [sweep EXCEPT !.page = page, !.cursor = Max(page)]
        BY <3>1, <3>3
      <4> QED
        BY <3>1, <4>1, <4>2, <4>3
    <3> QED
      BY <3>2, <3>3
  <2> QED
    BY <2>1, <2>2, <2>3
<1> QED
  BY <1>1, <1>2, <1>4, SweepKeeps

LEMMA VisitedType ==
    ASSUME JobsInv, sweep.page # {}
    PROVE  /\ Visited \in sweep.page /\ Visited \in Employees
           /\ sweep.asOf \in Days /\ sweep.asOf \in 0..today
<1>1. sweep \in [asOf: Days \cup {None}, cursor: Employees \cup {-1}, page: SUBSET Employees] /\ today \in Days
  BY DEF JobsInv, JobTypes
<1>2. sweep # NoSweep
  BY DEF NoSweep
<1>3. sweep.asOf \in 0..today
  BY <1>2 DEF JobsInv, PlansMade
<1>4. sweep.page \in SUBSET Nat /\ sweep.page \subseteq Employees
  BY <1>1, JobsAssumption
<1>5. \E n \in sweep.page : \A m \in sweep.page : n <= m
  BY <1>4, LeastNatural
<1>6. Visited \in sweep.page
  BY <1>5 DEF Visited, Min
<1> QED
  BY <1>1, <1>3, <1>4, <1>6, JobsAssumption DEF Days

LEMMA VisitKeeps ==
    ASSUME JobsInv, Visit
    PROVE  JobsInv'
<1>1. sweep.page # {} /\ UNCHANGED <<policy, plan, facts, enabled, leave, today, changes>>
  BY DEF Visit
<1>2. /\ Visited \in sweep.page /\ Visited \in Employees
      /\ sweep.asOf \in Days /\ sweep.asOf \in 0..today
  BY <1>1, VisitedType
<1>3. sweep' = [sweep EXCEPT !.page = @ \ {Visited}]
  BY DEF Visit, PassOver, Advance
<1>4. sweep \in [asOf: Days \cup {None}, cursor: Employees \cup {-1}, page: SUBSET Employees]
  BY DEF JobsInv, JobTypes
<1>5. /\ sweep' \in [asOf: Days \cup {None}, cursor: Employees \cup {-1}, page: SUBSET Employees]
      /\ sweep'.asOf = sweep.asOf
  BY <1>3, <1>4
<1>6. CASE PostFor(Visited, sweep.asOf)
  <2>1. sweep.asOf <= today
    BY <1>2
  <2> QED
    BY <1>1, <1>2, <1>5, <1>6, <2>1, PostKeeps
<1>7. CASE PassOver
  <2>1. UNCHANGED <<account, posts, relied>>
    BY <1>7 DEF PassOver
  <2>2. changes' \in 0..MaxChanges /\ changes' >= changes
    BY <1>1, JobsAssumption DEF JobsInv, JobTypes
  <2> QED
    BY <1>1, <1>2, <1>5, <2>1, <2>2, SweepKeeps
<1> QED
  BY <1>6, <1>7 DEF Visit

LEMMA NewDayKeeps ==
    ASSUME JobsInv, NewDay
    PROVE  JobsInv'
<1> USE DEF JobsInv
<1>1. UNCHANGED <<policy, account, plan, facts, enabled, posts, leave, sweep, relied, changes>>
  BY DEF NewDay
<1>2. BooksKept' /\ today' = today + 1 /\ today' \in Days
  BY NewDayKeepsBooks
<1>3. JobTypes'
  BY <1>1, <1>2 DEF JobTypes
<1>4. PlansMade'
  BY <1>1, <1>2 DEF PlansMade, JobTypes, Days
<1> QED
  BY <1>1, <1>2, <1>3, <1>4, RestKeeps

-----------------------------------------------------------------------------
LEMMA JobsInvInit == JobsInit => JobsInv
BY InitTypes, InitPolicies, InitBooks DEF JobsInv

LEMMA JobsInvStep == JobsInv /\ [JobsNext]_jobVars => JobsInv'
<1> SUFFICES ASSUME JobsInv, [JobsNext]_jobVars PROVE JobsInv'
  OBVIOUS
<1>1. CASE UNCHANGED jobVars
  BY <1>1, SameJobs
<1>2. ASSUME NEW p \in Policies, NEW to \in PolicyDates,
             Extend(p, to) \/ \E from \in PolicyDates, prior \in Policies \cup {None} : Publish(p, from, to, prior)
      PROVE  JobsInv'
  BY <1>2, PoliciesKeep
<1>3. ASSUME NEW e \in Employees, NEW c \in Codes, NEW d \in Openings, SaveOpening(e, c, d)
      PROVE  JobsInv'
  BY <1>3, SaveOpeningKeeps
<1>4. ASSUME NEW e \in Employees, NEW c \in Codes, NEW first \in FirstsOf(c), SavePlan(e, c, first)
      PROVE  JobsInv'
  BY <1>4, SavePlanKeeps
<1>5. ASSUME NEW e \in Employees, NEW c \in Codes, NEW y \in ServiceYears, NEW delta \in Corrections,
             Correct(e, c, y, delta)
      PROVE  JobsInv'
  BY <1>5, CorrectKeeps
<1>6. ASSUME NEW e \in Employees, NEW codes \in SUBSET Codes, SetEnabled(e, codes)
      PROVE  JobsInv'
  BY <1>6, SetEnabledKeeps
<1>7. ASSUME NEW e \in Employees, AmendFacts(e)
      PROVE  JobsInv'
  BY <1>7, AmendFactsKeeps
<1>8. ASSUME NEW e \in Employees, NEW d \in Days, RunByHand(e, d)
      PROVE  JobsInv'
  BY <1>8, RunByHandKeeps
<1>9. ASSUME NEW q \in Requests, Apply(q) \/ Grant(q) \/ Release(q)
      PROVE  JobsInv'
  BY <1>9, LeaveKeeps, GrantKeeps
<1>10. CASE StartSweep \/ NextPage \/ StopSweep
  BY <1>10, TimerKeeps
<1>11. CASE Visit
  BY <1>11, VisitKeeps
<1>12. CASE NewDay
  BY <1>12, NewDayKeeps
<1> QED
  BY <1>1, <1>2, <1>3, <1>4, <1>5, <1>6, <1>7, <1>8, <1>9, <1>10, <1>11, <1>12 DEF JobsNext

THEOREM JobsInvAlways == JobsSpec => []JobsInv
<1>1. JobsInit => JobsInv
  BY JobsInvInit
<1>2. JobsInv /\ [JobsNext]_jobVars => JobsInv'
  BY JobsInvStep
<1> QED
  BY <1>1, <1>2, PTL DEF JobsSpec

\* A date has one policy, and a day that a posting or granted leave used keeps the one it was used
\* with, but for days whose policy ends before the date of the posting.
THEOREM PolicyAlways == JobsSpec => []PolicyInv
<1>1. JobsInv => PolicyInv
  <2> SUFFICES ASSUME JobsInv PROVE PolicyInv
    OBVIOUS
  <2>1. ASSUME NEW d \in Days PROVE Cardinality(Covering(d)) <= 1
    <3>1. CASE Covering(d) = {}
      BY <3>1, FS_EmptySet
    <3>2. CASE Covering(d) # {}
      <4>1. PICK p : Covering(d) = {p}
        BY <3>2, OneCovers DEF JobsInv, OneCoversEach, Days
      <4>2. Cardinality({p}) = 1
        BY FS_Singleton
      <4> QED
        BY <4>1, <4>2
    <3> QED
      BY <3>1, <3>2
  <2> QED
    BY <2>1 DEF JobsInv, PolicyInv, OnePolicyPerDate, UsedPoliciesStay, ReliedKept, Keeps
<1> QED
  BY <1>1, JobsInvAlways, PTL

\* What a step may do to the balances that were closed.
ClosingStep ==
    posts' # posts => \A e \in Employees, c \in Codes :
        /\ c = "recreation" => Total(account'[e][c]) >= Total(account[e][c])
        /\ \A y \in ServiceYears : Renewed(account'[e][c], y) =>
            IF Renewed(account[e][c], y) THEN account'[e][c][y] = account[e][c][y]
            ELSE account'[e][c][y].balance = 0 /\ Reserved(e, c, y) = 0

LEMMA PostCloses ==
    ASSUME JobsInv, NEW e, NEW d, e \in Employees, d \in Days, PostFor(e, d)
    PROVE  ClosingStep
<1>1. PICK u \in RunFor(e, d) : account' = [account EXCEPT ![e] = u.account]
  BY DEF PostFor
<1>2. RunRight(e, u, d)
  BY RunTypes DEF JobsInv
<1>3. account \in [Employees -> [Codes -> [ServiceYears -> Account]]]
  BY DEF JobsInv, JobTypes, Account
<1>4. account'[e] = u.account /\ \A f \in Employees \ {e} : account'[f] = account[f]
  BY <1>1, <1>3
<1>5. ASSUME NEW f \in Employees, NEW c \in Codes
      PROVE  /\ c = "recreation" => Total(account'[f][c]) >= Total(account[f][c])
             /\ \A y \in ServiceYears : ClosedRight(f, c, account[f][c], account'[f][c], y)
  <2>1. CASE f = e
    BY <1>2, <1>4, <2>1 DEF RunRight
  <2>2. CASE f # e
    <3>1. account'[f][c] = account[f][c]
      BY <1>4, <2>2
    <3>2. Total(account[f][c]) \in Int
      BY <1>3, TotalType
    <3>3. \A y \in ServiceYears : ClosedRight(f, c, account[f][c], account'[f][c], y)
      BY <3>1 DEF ClosedRight
    <3> QED
      BY <3>1, <3>2, <3>3
  <2> QED
    BY <2>1, <2>2
<1> QED
  BY <1>5 DEF ClosingStep, ClosedRight

\* A run closes a year once, empty and when nothing holds it, and never loses recreation credit.
THEOREM YearsCloseAlways == JobsSpec => YearsCloseOnce
<1>1. JobsInv /\ [JobsNext]_jobVars => [ClosingStep]_jobVars
  <2> SUFFICES ASSUME JobsInv, JobsNext, posts' # posts PROVE ClosingStep
    BY DEF ClosingStep, jobVars
  <2>1. /\ \A p, from, to, prior : ~Publish(p, from, to, prior) /\ ~Extend(p, to)
        /\ \A e, c, d : ~SaveOpening(e, c, d) /\ ~SavePlan(e, c, d)
        /\ \A e, c, y, delta : ~Correct(e, c, y, delta)
    BY DEF Publish, Extend, SaveOpening, SavePlan, Correct
  <2>2. /\ \A e, codes : ~SetEnabled(e, codes) /\ ~AmendFacts(e)
        /\ \A q : ~Apply(q) /\ ~Grant(q) /\ ~Release(q)
        /\ ~StartSweep /\ ~NextPage /\ ~StopSweep /\ ~NewDay
    BY DEF SetEnabled, AmendFacts, Apply, Grant, Release, StartSweep, NextPage, StopSweep, NewDay
  <2>3. (\E e \in Employees, d \in Days : RunByHand(e, d)) \/ Visit
    BY <2>1, <2>2 DEF JobsNext
  <2>4. CASE \E e \in Employees, d \in Days : RunByHand(e, d)
    BY <2>4, PostCloses DEF RunByHand
  <2>5. CASE Visit
    BY <2>5, VisitedType, PostCloses DEF Visit, PassOver
  <2> QED
    BY <2>3, <2>4, <2>5
<1> QED
  BY <1>1, JobsInvAlways, PTL DEF JobsSpec, YearsCloseOnce, ClosingStep

-----------------------------------------------------------------------------
(* Legacy leave: what holds between the steps of runs *)

Drafts == UNION {[D -> Row] : D \in SUBSET Rows}
RunOps == [kind: {"run"}, scheduled: BOOLEAN, left: SUBSET Dates, period: Dates, staff: SUBSET Employees,
           credit: Seq(Rows), reset: Seq(Rows), read: Int \cup {None}, mine: Drafts]
ScanOps == [kind: {"scan"}, left: SUBSET Dates]
Ops == {Idle} \cup ScanOps \cup RunOps

LockRow == [holder: Runners \cup {None}, orphans: SUBSET Runners]

LegacyMade ==
    /\ bal \in [Rows -> Row] /\ outcome \in [Apps -> Outcomes] /\ standing \in [Employees -> Standings]
    /\ runs \subseteq Dates /\ anchor \in Dates \cup {None} /\ lock \in LockRow
    /\ op \in [Runners -> Ops]
    /\ today \in Dates /\ changes \in 0..MaxChanges

\* A balance that is there was begun on some day, and one that is not is empty.
BalanceSound(row) == IF row.there THEN row.lastReset \in Dates ELSE row = Absent
BalancesSound == \A r \in Rows : BalanceSound(bal[r])

\* What is credited, is credited by a run that is recorded.
CreditsRecorded ==
    \A r \in Rows, p \in Dates : bal[r].credits[p] <= 1 /\ (bal[r].credits[p] > 0 => p \in runs)

Shown(o, r) == IF r \in DOMAIN o.mine THEN o.mine[r] ELSE bal[r]

\* A run's row is the committed one, moved by adjustments that are recorded, and credited at most
\* once more, for its period, when its turn has come.
DraftSound(o, r) ==
    /\ r[1] \in o.staff /\ o.mine[r].there /\ o.mine[r].lastReset \in Dates
    /\ o.mine[r].pending = bal[r].pending
    /\ o.mine[r].balance - o.mine[r].posted = bal[r].balance - bal[r].posted
    /\ \A p \in Dates : o.mine[r].credits[p] <=
            bal[r].credits[p] + (IF p = o.period /\ r \notin Range(o.credit) THEN 1 ELSE 0)

\* A run's staff are entitled, each balance is credited once, and what was read is there.
RunSound(o) ==
    /\ IsInjective(o.credit) /\ \A r \in Range(o.credit) \cup Range(o.reset) : r[1] \in o.staff
    /\ \A e \in o.staff : standing[e] = "entitled"
    /\ \A r \in DOMAIN o.mine : DraftSound(o, r)
    /\ o.read # None => o.credit # <<>> /\ Shown(o, Head(o.credit)).there
RunsSound == \A h \in Runners : Running(h) => RunSound(op[h])

\* A row is in the hands of one run.
RunsApart ==
    \A g, h \in Runners : g # h /\ Running(g) /\ Running(h) => DOMAIN op[g].mine \cap DOMAIN op[h].mine = {}

\* Who catches up has the lock, or had it and lost it.
Catching(o) == o.kind = "scan" \/ (o.kind = "run" /\ o.scheduled)
HadLock(l, h) == l.holder = h \/ h \in l.orphans
LockHeld == \A h \in Runners : Catching(op[h]) => HadLock(lock, h)

LegacyInv ==
    /\ LegacyMade /\ BalancesSound /\ DaysInOnePlace /\ BalanceExplained /\ CreditsRecorded
    /\ RunsSound /\ RunsApart /\ LockHeld

-----------------------------------------------------------------------------
(* Days, balances and their sums *)

LEMMA DateYear ==
    ASSUME NEW d \in Dates
    PROVE  YearOf(d) \in Years /\ YearOf(d) \in Nat
<1> DEFINE y == d \div YearDays
           z == MaxDate \div YearDays
<1>1. d \in Nat /\ MaxDate \in Nat /\ d <= MaxDate /\ YearDays \in Nat /\ YearDays > 0
  BY CalendarAssumption DEF Dates
<1>2. y \in Nat /\ z \in Nat /\ y * YearDays <= d /\ MaxDate < z * YearDays + YearDays
  BY <1>1
<1>3. ASSUME z < y PROVE FALSE
  <2>1. PICK k \in Nat : y = z + 1 + k
    <3>1. y - z - 1 \in Nat /\ y = z + 1 + (y - z - 1)
      BY <1>2, <1>3
    <3> QED
      BY <3>1
  <2>2. y * YearDays = z * YearDays + YearDays + k * YearDays
    BY <1>1, <1>2, <2>1
  <2>3. k * YearDays \in Nat /\ z * YearDays \in Nat
    BY <1>1, <1>2
  <2> QED
    BY <1>1, <1>2, <2>2, <2>3
<1>4. y \in 0..z
  BY <1>2, <1>3
<1> QED
  BY <1>4 DEF YearOf, Years

\* A reset falls on the day of the run, or before.
LEMMA BoundaryPast ==
    ASSUME NEW e, NEW t, NEW d \in Dates, NEW b, e \in Employees, b = ResetBoundary(e, t, d)
    PROVE  b = None \/ (b \in Int /\ b <= d)
<1>1. d \in Nat /\ YearDays \in Nat /\ YearDays > 0
  BY CalendarAssumption DEF Dates
<1>2. YearOf(d) * YearDays \in Nat /\ YearOf(d) * YearDays <= d
  BY <1>1 DEF YearOf
<1>3. ASSUME NEW n \in 0..(YearDays - 1) PROVE LatestOn(n, d) \in Int /\ LatestOn(n, d) <= d
  <2>1. PICK m : m = YearOf(d) * YearDays + n
    OBVIOUS
  <2>2. LatestOn(n, d) = IF m > d THEN m - YearDays ELSE m
    BY <2>1 DEF LatestOn
  <2> QED
    BY <1>1, <1>2, <2>1, <2>2
<1>4. FinancialYear \in 0..(YearDays - 1)
  BY CalendarAssumption
<1>5. Joined[e] # None => Joined[e] % YearDays \in 0..(YearDays - 1)
  BY <1>1, KindsAssumption
<1> QED
  BY <1>3, <1>4, <1>5 DEF ResetBoundary

LEMMA RowFields ==
    ASSUME NEW row, row \in Row
    PROVE  /\ row.there \in BOOLEAN /\ row.balance \in Int /\ row.pending \in Nat
           /\ row.lastReset \in Dates \cup {None} /\ row.posted \in Int /\ row.credits \in [Dates -> Nat]
BY DEF Row

LEMMA AbsentRow == Absent \in Row /\ BalanceSound(Absent)
BY DEF Absent, Row, BalanceSound

LEMMA SeedType ==
    ASSUME NEW t, t \in Kinds
    PROVE  Seed(t) \in Int
BY KindsAssumption DEF Seed

LEMMA CreditType ==
    ASSUME NEW t, NEW n, t \in Kinds, n \in Int
    PROVE  CreditFor(t, n) \in Int
BY KindsAssumption DEF CreditFor, Smaller, Larger

LEMMA OpeningType ==
    ASSUME NEW t, NEW row, t \in Kinds, row \in Row
    PROVE  OpeningFor(t, row) \in Int
<1>1. Seed(t) \in Int /\ row.there \in BOOLEAN
  BY SeedType, RowFields
<1>2. Unused(row) \in Int
  BY RowFields DEF Unused, Larger
<1> QED
  BY <1>1, <1>2 DEF OpeningFor

LEMMA PriorType ==
    ASSUME NEW b, NEW r, b \in [Rows -> Row], r \in Rows
    PROVE  Prior(b, r) \in Row
<1> DEFINE earlier == {y \in Years : y < r[3] /\ b[<<r[1], r[2], y>>].there}
<1>1. CASE earlier = {}
  BY <1>1, AbsentRow DEF Prior
<1>2. CASE earlier # {}
  <2>1. IsFiniteSet(Years) /\ Years \in SUBSET Nat
    <3>1. MaxDate \in Dates
      BY CalendarAssumption DEF Dates
    <3>2. YearOf(MaxDate) \in Nat
      BY <3>1, DateYear
    <3> QED
      BY <3>2, FS_Interval DEF Years
  <2>2. IsFiniteSet(earlier) /\ earlier \in SUBSET Nat
    BY <2>1, FS_Subset
  <2>3. \E m \in earlier : \A n \in earlier : n <= m
    BY <1>2, <2>2, GreatestNatural
  <2>4. Max(earlier) \in earlier
    BY <2>2, <2>3 DEF Max
  <2>5. r[1] \in Employees /\ r[2] \in Kinds
    BY DEF Rows
  <2>6. <<r[1], r[2], Max(earlier)>> \in Rows
    BY <2>4, <2>5 DEF Rows
  <2>7. Prior(b, r) = b[<<r[1], r[2], Max(earlier)>>]
    BY <1>2 DEF Prior
  <2> QED
    BY <2>6, <2>7
<1> QED
  BY <1>1, <1>2

\* Two rows that hold the same days, and of which the same leave was taken.
Alike(a, b) == a.pending = b.pending /\ a.balance - a.posted = b.balance - b.posted

LEMMA MovedMakes ==
    ASSUME NEW row, NEW n, row \in Row, n \in Int
    PROVE  /\ Moved(row, n) \in Row /\ Alike(Moved(row, n), row)
           /\ Moved(row, n).there = row.there /\ Moved(row, n).lastReset = row.lastReset
           /\ Moved(row, n).credits = row.credits
<1>1. PICK m : m = Moved(row, n)
  OBVIOUS
<1>3. row.balance \in Int /\ row.posted \in Int
  BY RowFields
<1>2. /\ m \in Row /\ m.balance = row.balance + n /\ m.posted = row.posted + n /\ m.pending = row.pending
      /\ m.there = row.there /\ m.lastReset = row.lastReset /\ m.credits = row.credits
  <2>1. m = [row EXCEPT !.balance = row.balance + n, !.posted = row.posted + n]
    BY <1>1 DEF Moved, Row
  <2>2. row.balance + n \in Int /\ row.posted + n \in Int
    BY <1>3
  <2> QED
    BY <2>1, <2>2 DEF Row
<1>4. Alike(m, row)
  BY <1>2, <1>3 DEF Alike
<1> QED
  BY <1>1, <1>2, <1>4

LEMMA EnsuredMakes ==
    ASSUME NEW b, NEW r, b \in [Rows -> Row], r \in Rows, BalanceSound(b[r]), today \in Dates
    PROVE  /\ Ensured(b, r) \in Row /\ Ensured(b, r).there /\ Ensured(b, r).lastReset \in Dates
           /\ Alike(Ensured(b, r), b[r]) /\ Ensured(b, r).credits = b[r].credits
<1>1. CASE b[r].there
  <2>1. Ensured(b, r) = b[r] /\ b[r] \in Row
    BY <1>1 DEF Ensured
  <2> QED
    BY <1>1, <2>1 DEF BalanceSound, Alike
<1>2. CASE ~b[r].there
  <2>1. b[r] = Absent
    BY <1>2 DEF BalanceSound
  <2>2. PICK n : n = OpeningFor(r[2], Prior(b, r))
    OBVIOUS
  <2>3. n \in Int
    BY <2>2, PriorType, OpeningType DEF Rows
  <2>4. PICK m : m = [Absent EXCEPT !.there = TRUE, !.balance = n, !.posted = n, !.lastReset = today]
    OBVIOUS
  <2>5. Ensured(b, r) = m
    BY <1>2, <2>2, <2>4 DEF Ensured
  <2>6. /\ m \in Row /\ m.there /\ m.lastReset = today /\ m.pending = 0 /\ m.balance = n /\ m.posted = n
        /\ m.credits = Absent.credits
    BY <2>3, <2>4 DEF Absent, Row
  <2>7. Absent.pending = 0 /\ Absent.balance = 0 /\ Absent.posted = 0
    BY DEF Absent
  <2> QED
    BY <2>1, <2>3, <2>5, <2>6, <2>7 DEF Alike
<1> QED
  BY <1>1, <1>2

LEMMA DaysType ==
    ASSUME NEW S, S \subseteq Apps
    PROVE  DaysOf(S) \in Nat
<1>1. IsFiniteSet(S) /\ \A a \in S : [x \in Apps |-> Filed[x].days][a] \in Nat
  BY FiledAssumption, FS_Subset
<1> QED
  BY <1>1, SumNat DEF DaysOf

\* Another application with its days, or one less.
LEMMA DaysMore ==
    ASSUME NEW S, NEW a, S \subseteq Apps, a \in Apps \ S
    PROVE  DaysOf(S \cup {a}) = DaysOf(S) + Filed[a].days
<1>1. IsFiniteSet(S) /\ \A x \in S \cup {a} : [y \in Apps |-> Filed[y].days][x] \in Int
  BY FiledAssumption, FS_Subset
<1> QED
  BY <1>1, SumAdd DEF DaysOf

LEMMA DaysLess ==
    ASSUME NEW S, NEW a, S \subseteq Apps, a \in S
    PROVE  DaysOf(S \ {a}) = DaysOf(S) - Filed[a].days /\ Filed[a].days <= DaysOf(S)
<1>1. IsFiniteSet(S) /\ \A x \in S : [y \in Apps |-> Filed[y].days][x] \in Int
  BY FiledAssumption, FS_Subset
<1>2. DaysOf(S \ {a}) = DaysOf(S) - Filed[a].days
  BY <1>1, SumRemove DEF DaysOf
<1>3. DaysOf(S \ {a}) \in Nat /\ DaysOf(S) \in Nat /\ Filed[a].days \in Nat
  BY FiledAssumption, DaysType
<1> QED
  BY <1>2, <1>3

-----------------------------------------------------------------------------
(* The rows of a pass: each once, and of the run's staff *)

\* All of a finite set, in some order.
LEMMA Listed ==
    ASSUME NEW S, IsFiniteSet(S)
    PROVE  \E s \in [1..Cardinality(S) -> S] : \A k, l \in DOMAIN s : k # l => s[k] # s[l]
<1>1. Cardinality(S) \in Nat /\ ExistsBijection(1..Cardinality(S), S)
  BY FS_CardinalityType
<1>2. PICK s : s \in Bijection(1..Cardinality(S), S)
  BY <1>1 DEF ExistsBijection
<1>3. s \in [1..Cardinality(S) -> S] /\ \A k, l \in DOMAIN s : s[k] = s[l] => k = l
  BY <1>2 DEF Bijection, Injection, IsInjective
<1> QED
  BY <1>3

RowsOfType(types, staff, year, t) == IF t \in types THEN {<<e, t, year>> : e \in staff} ELSE {}

ListOf(S) == CHOOSE s \in [1..Cardinality(S) -> S] : \A k, l \in DOMAIN s : k # l => s[k] # s[l]

Flat(f, types, staff, year, n) ==
    f = [i \in 0..n |-> IF i = 0 THEN <<>>
                        ELSE f[i - 1] \o ListOf(RowsOfType(types, staff, year, Types[i]))]

LEMMA RowsUnfold ==
    ASSUME NEW types, NEW staff, NEW year
    PROVE  RowsOf(types, staff, year) = (CHOOSE f : Flat(f, types, staff, year, Len(Types)))[Len(Types)]
BY DEF RowsOf, Flat, ListOf, RowsOfType

LEMMA FlatExists ==
    ASSUME NEW types, NEW staff, NEW year
    PROVE  \A n \in Nat : \E f : Flat(f, types, staff, year, n)
<1> DEFINE G == {k \in Nat : \E f : Flat(f, types, staff, year, k)}
           More(s, i) == s \o ListOf(RowsOfType(types, staff, year, Types[i]))
<1> HIDE DEF More
<1>0. \A f, n : Flat(f, types, staff, year, n) <=> f = [i \in 0..n |-> IF i = 0 THEN <<>> ELSE More(f[i - 1], i)]
  BY DEF Flat, More
<1>1. 0 \in G
  <2> DEFINE f == [i \in 0..0 |-> <<>>]
  <2>1. f = [i \in 0..0 |-> IF i = 0 THEN <<>> ELSE More(f[i - 1], i)]
    OBVIOUS
  <2> HIDE DEF f
  <2>2. Flat(f, types, staff, year, 0)
    BY <1>0, <2>1
  <2> QED
    BY <2>2
<1>2. ASSUME NEW k \in Nat, k \in G PROVE k + 1 \in G
  <2>1. PICK f : Flat(f, types, staff, year, k)
    BY <1>2
  <2>2. f = [i \in 0..k |-> IF i = 0 THEN <<>> ELSE More(f[i - 1], i)]
    BY <1>0, <2>1
  <2> DEFINE g == [i \in 0..(k + 1) |-> IF i = 0 THEN <<>> ELSE More(f[i - 1], i)]
  <2>3. ASSUME NEW i \in 0..k PROVE g[i] = f[i]
    <3>1. i \in 0..(k + 1)
      OBVIOUS
    <3>2. f[i] = IF i = 0 THEN <<>> ELSE More(f[i - 1], i)
      BY <2>2
    <3> QED
      BY <3>1, <3>2
  <2>4. \A i \in 0..(k + 1) : i # 0 => i - 1 \in 0..k
    OBVIOUS
  <2>5. g = [i \in 0..(k + 1) |-> IF i = 0 THEN <<>> ELSE More(g[i - 1], i)]
    BY <2>3, <2>4
  <2> HIDE DEF g
  <2>6. Flat(g, types, staff, year, k + 1)
    BY <1>0, <2>5
  <2> QED
    BY <2>6
<1> HIDE DEF G
<1>3. ASSUME NEW n \in Nat PROVE n \in G
  <2>1. G \in SUBSET Nat
    BY DEF G
  <2>2. \A k \in 0..(n - 1) : k \in G => k + 1 \in G
    BY <1>2
  <2> QED
    BY <1>1, <2>1, <2>2, RangeInduction
<1> QED
  BY <1>3 DEF G

\* A list of rows of the staff and the year, each once, of the types named so far.
Rowlist(s, staff, year, n) ==
    /\ s \in Seq(Rows) /\ IsInjective(s)
    /\ \A i \in 1..Len(s) : \E e \in staff, j \in 1..n : s[i] = <<e, Types[j], year>>

LEMMA ListLonger ==
    ASSUME NEW s, NEW staff, NEW year, NEW n, NEW types,
           staff \subseteq Employees, year \in Years, n \in Nat, n + 1 <= Len(Types), Rowlist(s, staff, year, n)
    PROVE  Rowlist(s \o ListOf(RowsOfType(types, staff, year, Types[n + 1])), staff, year, n + 1)
<1> DEFINE t == Types[n + 1]
           S == RowsOfType(types, staff, year, t)
           u == ListOf(S)
           w == s \o u
<1>1. /\ Len(Types) \in Nat /\ DOMAIN Types = 1..Len(Types) /\ n + 1 \in 1..Len(Types)
      /\ t \in Kinds /\ \A j \in 1..n : j \in 1..Len(Types) /\ Types[j] # t
  <2>1. Types \in Seq(Kinds) /\ \A i, j \in DOMAIN Types : Types[i] = Types[j] => i = j
    BY KindsAssumption
  <2>2. Len(Types) \in Nat /\ DOMAIN Types = 1..Len(Types) /\ n + 1 \in 1..Len(Types)
    BY <2>1, LenProperties
  <2>3. \A j \in 1..n : j \in 1..Len(Types) /\ j # n + 1
    BY <2>2
  <2> QED
    BY <2>1, <2>2, <2>3 DEF Kinds
<1>2. IsFiniteSet(S) /\ S \subseteq Rows /\ \A r \in S : \E e \in staff : r = <<e, t, year>>
  <2>1. IsFiniteSet(staff)
    BY KindsAssumption, FS_Subset
  <2>2. PICK f : f = [e \in staff |-> <<e, t, year>>]
    OBVIOUS
  <2>3. {<<e, t, year>> : e \in staff} = {f[e] : e \in staff}
    BY <2>2
  <2>4. IsFiniteSet({f[e] : e \in staff})
    BY <2>1, ImageFinite
  <2>5. IsFiniteSet(S)
    BY <2>3, <2>4, FS_EmptySet DEF RowsOfType
  <2>6. \A r \in S : \E e \in staff : r = <<e, t, year>>
    BY DEF RowsOfType
  <2>7. \A e \in staff : <<e, t, year>> \in Rows
    BY <1>1 DEF Rows
  <2> QED
    BY <2>5, <2>6, <2>7
<1>3. /\ u \in [1..Cardinality(S) -> S] /\ Cardinality(S) \in Nat
      /\ \A k, l \in DOMAIN u : k # l => u[k] # u[l]
  BY <1>2, Listed, FS_CardinalityType DEF ListOf
<1> HIDE DEF u, S
<1>4. u \in Seq(Rows) /\ Len(u) = Cardinality(S) /\ DOMAIN u = 1..Len(u)
  <2>1. u \in [1..Cardinality(S) -> Rows]
    BY <1>2, <1>3
  <2>2. u \in Seq(Rows)
    BY <1>3, <2>1
  <2> QED
    BY <1>3, <2>1, <2>2, LenProperties
<1>5. s \in Seq(Rows) /\ Len(s) \in Nat /\ DOMAIN s = 1..Len(s) /\ \A i, j \in 1..Len(s) : s[i] = s[j] => i = j
  BY LenProperties DEF Rowlist, IsInjective
<1>6. /\ w \in Seq(Rows) /\ Len(w) = Len(s) + Len(u) /\ DOMAIN w = 1..Len(w)
      /\ \A i \in 1..Len(w) : w[i] = IF i <= Len(s) THEN s[i] ELSE u[i - Len(s)]
  <2>0. s \in Seq(Rows) /\ u \in Seq(Rows)
    BY <1>4, <1>5
  <2>1. s \o u \in Seq(Rows) /\ Len(s \o u) = Len(s) + Len(u)
    BY <2>0, ConcatProperties
  <2>2. DOMAIN w = 1..Len(w)
    BY <2>1, LenProperties
  <2>3. \A i \in 1..Len(s) + Len(u) : w[i] = IF i <= Len(s) THEN s[i] ELSE u[i - Len(s)]
    BY <1>4, <1>5, ConcatProperties
  <2> QED
    BY <2>1, <2>2, <2>3
<1> HIDE DEF w
<1>7. \A i \in 1..Len(s) : w[i] = s[i] /\ \E e \in staff, j \in 1..n : s[i] = <<e, Types[j], year>>
  BY <1>3, <1>4, <1>5, <1>6 DEF Rowlist
<1>8. ASSUME NEW i \in 1..Len(w), i > Len(s)
      PROVE  i - Len(s) \in 1..Len(u) /\ w[i] = u[i - Len(s)] /\ \E e \in staff : w[i] = <<e, t, year>>
  <2>1. i - Len(s) \in 1..Len(u) /\ w[i] = u[i - Len(s)]
    BY <1>3, <1>4, <1>5, <1>6, <1>8
  <2>2. u[i - Len(s)] \in S
    BY <1>3, <1>4, <2>1
  <2> QED
    BY <1>2, <2>1, <2>2
<1>9. ASSUME NEW i \in 1..Len(w), NEW j \in 1..Len(w), w[i] = w[j] PROVE i = j
  <2>1. CASE i <= Len(s) /\ j <= Len(s)
    BY <1>5, <1>7, <1>9, <2>1
  <2>2. CASE i > Len(s) /\ j > Len(s)
    <3>1. u[i - Len(s)] = u[j - Len(s)] /\ i - Len(s) \in DOMAIN u /\ j - Len(s) \in DOMAIN u
      BY <1>4, <1>8, <1>9, <2>2
    <3>2. i - Len(s) = j - Len(s)
      BY <1>3, <3>1
    <3> QED
      BY <1>5, <3>2
  <2>3. ASSUME NEW k \in 1..Len(s), NEW l \in 1..Len(w), l > Len(s) PROVE w[k] # w[l]
    <3>1. PICK e \in staff, m \in 1..n : w[k] = <<e, Types[m], year>>
      BY <1>7
    <3>2. PICK f \in staff : w[l] = <<f, t, year>>
      BY <1>8, <2>3
    <3>3. Types[m] # t
      BY <1>1
    <3> QED
      BY <3>1, <3>2, <3>3
  <2>4. CASE i <= Len(s) /\ j > Len(s)
    <3>1. i \in 1..Len(s)
      BY <1>5, <2>4
    <3> QED
      BY <1>9, <2>3, <2>4, <3>1
  <2>5. CASE j <= Len(s) /\ i > Len(s)
    <3>1. j \in 1..Len(s)
      BY <1>5, <2>5
    <3> QED
      BY <1>9, <2>3, <2>5, <3>1
  <2> QED
    BY <1>5, <1>6, <2>1, <2>2, <2>4, <2>5
<1>10. ASSUME NEW i \in 1..Len(w) PROVE \E e \in staff, j \in 1..n + 1 : w[i] = <<e, Types[j], year>>
  <2>1. CASE i <= Len(s)
    <3>1. i \in 1..Len(s)
      BY <1>5, <2>1
    <3>2. PICK e \in staff, j \in 1..n : w[i] = <<e, Types[j], year>>
      BY <1>7, <3>1
    <3>3. j \in 1..n + 1
      OBVIOUS
    <3> QED
      BY <3>2, <3>3
  <2>2. CASE i > Len(s)
    <3>1. PICK e \in staff : w[i] = <<e, Types[n + 1], year>>
      BY <1>8, <2>2
    <3>2. n + 1 \in 1..n + 1
      OBVIOUS
    <3> QED
      BY <3>1, <3>2
  <2> QED
    BY <1>5, <1>6, <2>1, <2>2
<1>11. IsInjective(w)
  BY <1>6, <1>9 DEF IsInjective
<1>12. Rowlist(w, staff, year, n + 1)
  BY <1>6, <1>10, <1>11 DEF Rowlist
<1> QED
  BY <1>12 DEF w, u, S

LEMMA RowsListed ==
    ASSUME NEW types, NEW staff, NEW year, staff \subseteq Employees, year \in Years
    PROVE  /\ RowsOf(types, staff, year) \in Seq(Rows) /\ IsInjective(RowsOf(types, staff, year))
           /\ \A r \in Range(RowsOf(types, staff, year)) : r[1] \in staff
<1> DEFINE N == Len(Types)
           f == CHOOSE f : Flat(f, types, staff, year, N)
<1>1. N \in Nat
  BY KindsAssumption, LenProperties
<1>2. Flat(f, types, staff, year, N)
  BY <1>1, FlatExists
<1>3. RowsOf(types, staff, year) = f[N]
  BY RowsUnfold
<1> HIDE DEF f
<1> DEFINE G == {k \in 0..N : Rowlist(f[k], staff, year, k)}
<1>4. 0 \in G
  <2>1. f[0] = <<>>
    BY <1>1, <1>2 DEF Flat
  <2>2. f[0] \in Seq(Rows) /\ Len(f[0]) = 0 /\ IsInjective(f[0])
    BY <2>1, EmptySeq DEF IsInjective
  <2> QED
    BY <1>1, <2>2 DEF Rowlist
<1>5. ASSUME NEW k \in 0..(N - 1), k \in G PROVE k + 1 \in G
  <2>1. k \in Nat /\ k + 1 \in 0..N /\ k + 1 # 0 /\ (k + 1) - 1 = k
    BY <1>1
  <2>2. f[k + 1] = f[(k + 1) - 1] \o ListOf(RowsOfType(types, staff, year, Types[k + 1]))
    BY <1>2, <2>1 DEF Flat
  <2>3. Rowlist(f[k], staff, year, k)
    BY <1>5
  <2>4. k + 1 <= N
    BY <1>1, <2>1
  <2>5. Rowlist(f[k] \o ListOf(RowsOfType(types, staff, year, Types[k + 1])), staff, year, k + 1)
    BY <2>1, <2>3, <2>4, ListLonger
  <2> QED
    BY <2>1, <2>2, <2>5
<1> HIDE DEF G
<1>6. G \in SUBSET Nat
  BY DEF G
<1>7. \A k \in 0..N : k \in G
  BY <1>1, <1>4, <1>5, <1>6, RangeInduction
<1>8. Rowlist(f[N], staff, year, N)
  BY <1>1, <1>7 DEF G
<1>9. DOMAIN f[N] = 1..Len(f[N])
  BY <1>8, LenProperties DEF Rowlist
<1> QED
  BY <1>3, <1>8, <1>9 DEF Rowlist, Range

-----------------------------------------------------------------------------
(* What a runner is in the middle of *)

LEMMA OpKinds ==
    ASSUME NEW o, o \in Ops
    PROVE  /\ o.kind = "idle" => o = Idle
           /\ o.kind = "scan" => o \in ScanOps
           /\ o.kind = "run" => o \in RunOps
           /\ o.kind \in {"idle", "scan", "run"}
<1>1. CASE o = Idle
  BY <1>1 DEF Idle
<1>2. CASE o \in ScanOps
  BY <1>2 DEF ScanOps
<1>3. CASE o \in RunOps
  BY <1>3 DEF RunOps
<1> QED
  BY <1>1, <1>2, <1>3 DEF Ops

LEMMA RunFields ==
    ASSUME NEW o, o \in RunOps
    PROVE  /\ o.kind = "run" /\ o.scheduled \in BOOLEAN /\ o.left \subseteq Dates /\ o.period \in Dates
           /\ o.staff \subseteq Employees /\ o.credit \in Seq(Rows) /\ o.reset \in Seq(Rows)
           /\ o.read \in Int \cup {None} /\ DOMAIN o.mine \subseteq Rows
           /\ o.mine \in [DOMAIN o.mine -> Row]
<1>1. o.mine \in Drafts
  BY DEF RunOps
<1>2. PICK D \in SUBSET Rows : o.mine \in [D -> Row]
  BY <1>1 DEF Drafts
<1> QED
  BY <1>2 DEF RunOps

LEMMA DraftMade ==
    ASSUME NEW D, NEW m, D \subseteq Rows, m \in [D -> Row]
    PROVE  m \in Drafts
BY DEF Drafts

\* A run with one more row written.
Writing(o, r, row) == [o EXCEPT !.mine = [x \in DOMAIN @ \cup {r} |-> IF x = r THEN row ELSE @[x]]]

LEMMA WritingMakes ==
    ASSUME NEW o, NEW r, NEW row, o \in RunOps, r \in Rows, row \in Row
    PROVE  LET m == Writing(o, r, row)
           IN  /\ m \in RunOps /\ DOMAIN m.mine = DOMAIN o.mine \cup {r} /\ m.mine[r] = row
               /\ \A x \in DOMAIN o.mine \ {r} : m.mine[x] = o.mine[x]
               /\ m.scheduled = o.scheduled /\ m.left = o.left /\ m.period = o.period /\ m.staff = o.staff
               /\ m.credit = o.credit /\ m.reset = o.reset /\ m.read = o.read
<1> DEFINE m == Writing(o, r, row)
           f == [x \in DOMAIN o.mine \cup {r} |-> IF x = r THEN row ELSE o.mine[x]]
<1>1. DOMAIN o.mine \subseteq Rows /\ o.mine \in [DOMAIN o.mine -> Row]
  BY RunFields
<1>2. f \in [DOMAIN o.mine \cup {r} -> Row] /\ DOMAIN o.mine \cup {r} \subseteq Rows
  BY <1>1
<1>3. f \in Drafts
  BY <1>2, DraftMade
<1>4. m = [o EXCEPT !.mine = f]
  BY DEF Writing, RunOps
<1>5. DOMAIN f = DOMAIN o.mine \cup {r} /\ f[r] = row /\ \A x \in DOMAIN o.mine \ {r} : f[x] = o.mine[x]
  OBVIOUS
<1> HIDE DEF f, m
<1>6. /\ m \in RunOps /\ m.mine = f /\ m.scheduled = o.scheduled /\ m.left = o.left /\ m.period = o.period
      /\ m.staff = o.staff /\ m.credit = o.credit /\ m.reset = o.reset /\ m.read = o.read
  BY <1>3, <1>4 DEF RunOps
<1>7. /\ m \in RunOps /\ DOMAIN m.mine = DOMAIN o.mine \cup {r} /\ m.mine[r] = row
      /\ \A x \in DOMAIN o.mine \ {r} : m.mine[x] = o.mine[x]
      /\ m.scheduled = o.scheduled /\ m.left = o.left /\ m.period = o.period /\ m.staff = o.staff
      /\ m.credit = o.credit /\ m.reset = o.reset /\ m.read = o.read
  BY <1>5, <1>6
<1> QED
  BY <1>7 DEF m

\* The first of a list of rows, and the rest.
LEMMA FirstAndRest ==
    ASSUME NEW s, s \in Seq(Rows), s # <<>>
    PROVE  /\ Head(s) \in Rows /\ Head(s) \in Range(s)
           /\ Tail(s) \in Seq(Rows) /\ Range(Tail(s)) \subseteq Range(s)
           /\ IsInjective(s) => IsInjective(Tail(s)) /\ Head(s) \notin Range(Tail(s))
<1>1. /\ Head(s) \in Rows /\ Tail(s) \in Seq(Rows) /\ Len(Tail(s)) = Len(s) - 1
      /\ \A i \in 1..Len(Tail(s)) : Tail(s)[i] = s[i + 1]
  BY HeadTailProperties
<1>2. Len(s) \in Nat /\ Len(s) # 0 /\ DOMAIN s = 1..Len(s) /\ DOMAIN Tail(s) = 1..(Len(s) - 1)
  <2>1. Len(s) \in Nat \ {0} /\ DOMAIN s = 1..Len(s)
    BY EmptySeq, LenProperties
  <2>2. DOMAIN Tail(s) = 1..Len(Tail(s))
    BY <1>1, LenProperties
  <2> QED
    BY <1>1, <2>1, <2>2
<1>3. Head(s) = s[1] /\ 1 \in DOMAIN s
  BY <1>2 DEF Head
<1>4. \A i \in DOMAIN Tail(s) : i + 1 \in DOMAIN s /\ i + 1 # 1 /\ Tail(s)[i] = s[i + 1]
  BY <1>1, <1>2
<1>5. Head(s) \in Range(s) /\ Range(Tail(s)) \subseteq Range(s)
  BY <1>3, <1>4 DEF Range
<1>6. ASSUME IsInjective(s) PROVE IsInjective(Tail(s)) /\ Head(s) \notin Range(Tail(s))
  <2>1. \A i, j \in DOMAIN s : s[i] = s[j] => i = j
    BY <1>6 DEF IsInjective
  <2>2. ASSUME NEW i \in DOMAIN Tail(s), NEW j \in DOMAIN Tail(s), Tail(s)[i] = Tail(s)[j] PROVE i = j
    <3>1. i + 1 = j + 1
      BY <1>4, <2>1, <2>2
    <3> QED
      BY <1>2, <3>1
  <2>3. \A i \in DOMAIN Tail(s) : Tail(s)[i] # Head(s)
    BY <1>3, <1>4, <2>1
  <2> QED
    BY <2>2, <2>3 DEF IsInjective, Range
<1> QED
  BY <1>1, <1>5, <1>6

-----------------------------------------------------------------------------
(* What a step leaves as it was *)

\* A run that a step does not touch: its staff stay, and its rows are as they were.
LEMMA RunStays ==
    ASSUME NEW o, o \in RunOps, RunSound(o),
           \A e \in o.staff : standing'[e] = "entitled",
           \A r \in Rows : bal[r].there => bal'[r].there,
           \A r \in DOMAIN o.mine : bal'[r] = bal[r]
    PROVE  RunSound(o)'
<1>1. \A r \in DOMAIN o.mine : DraftSound(o, r)'
  BY DEF RunSound, DraftSound
<1>2. ASSUME o.read # None PROVE o.credit # <<>> /\ Shown(o, Head(o.credit))'.there
  <2>1. o.credit # <<>> /\ Head(o.credit) \in Rows /\ Shown(o, Head(o.credit)).there
    BY <1>2, RunFields, FirstAndRest DEF RunSound
  <2> QED
    BY <2>1 DEF Shown
<1> QED
  BY <1>1, <1>2 DEF RunSound

\* All runs but those of G.
LEMMA RunsStay ==
    ASSUME NEW G, LegacyMade, RunsSound,
           \A h \in Runners \ G : op'[h] = op[h],
           \A h \in Runners \ G : Running(h) =>
                /\ \A e \in op[h].staff : standing'[e] = "entitled"
                /\ \A r \in DOMAIN op[h].mine : bal'[r] = bal[r],
           \A r \in Rows : bal[r].there => bal'[r].there,
           \A h \in Runners \cap G : (Running(h) => RunSound(op[h]))'
    PROVE  RunsSound'
<1> SUFFICES ASSUME NEW h \in Runners, Running(h)' PROVE RunSound(op[h])'
  BY DEF RunsSound
<1>1. CASE h \in G
  BY <1>1
<1>2. CASE h \notin G
  <2>1. op'[h] = op[h] /\ Running(h) /\ RunSound(op[h]) /\ op[h] \in RunOps
    BY <1>2, OpKinds DEF RunsSound, Running, LegacyMade
  <2>2. PICK o : o = op[h]
    OBVIOUS
  <2>3. RunSound(o)'
    BY <1>2, <2>1, <2>2, RunStays
  <2> QED
    BY <2>1, <2>2, <2>3
<1> QED
  BY <1>1, <1>2

\* Rows whose days, and the leave taken of them, are what they were.
LEMMA RowsStay ==
    ASSUME LegacyMade, BalancesSound, DaysInOnePlace, BalanceExplained, outcome' = outcome,
           bal' \in [Rows -> Row],
           \A r \in Rows : BalanceSound(bal'[r]) /\ Alike(bal'[r], bal[r])
    PROVE  BalancesSound' /\ DaysInOnePlace' /\ BalanceExplained'
<1>1. \A r, s : FiledOn(r, s)' = FiledOn(r, s)
  BY DEF FiledOn
<1>2. BalancesSound'
  BY DEF BalancesSound
<1>3. DaysInOnePlace'
  BY <1>1 DEF DaysInOnePlace, Alike
<1>4. ASSUME NEW r \in Rows PROVE bal'[r].balance = bal'[r].posted - DaysOf(FiledOn(r, "approved"))'
  <2>1. DaysOf(FiledOn(r, "approved"))' = DaysOf(FiledOn(r, "approved"))
    BY <1>1
  <2>2. DaysOf(FiledOn(r, "approved")) \in Nat
    BY DaysType DEF FiledOn
  <2>3. bal'[r].balance \in Int /\ bal'[r].posted \in Int /\ bal[r].balance \in Int /\ bal[r].posted \in Int
    BY RowFields DEF LegacyMade
  <2>4. bal[r].balance = bal[r].posted - DaysOf(FiledOn(r, "approved"))
    BY DEF BalanceExplained
  <2>5. bal'[r].balance - bal'[r].posted = bal[r].balance - bal[r].posted
    BY DEF Alike
  <2> QED
    BY <2>1, <2>2, <2>3, <2>4, <2>5
<1> QED
  BY <1>2, <1>3, <1>4 DEF BalanceExplained

LEMMA CreditsStay ==
    ASSUME CreditsRecorded, runs \subseteq runs', \A r \in Rows : bal'[r].credits = bal[r].credits
    PROVE  CreditsRecorded'
BY DEF CreditsRecorded

\* Nothing of the data changes.
LEMMA DataStays ==
    ASSUME LegacyInv, UNCHANGED <<bal, outcome, runs>>
    PROVE  BalancesSound' /\ DaysInOnePlace' /\ BalanceExplained' /\ CreditsRecorded'
<1>1. \A r, s : FiledOn(r, s)' = FiledOn(r, s)
  BY DEF FiledOn
<1> QED
  BY <1>1 DEF LegacyInv, BalancesSound, DaysInOnePlace, BalanceExplained, CreditsRecorded

LEMMA AlikeSelf == \A row \in Row : Alike(row, row)
BY DEF Alike

LEMMA LegacyInvInit == LegacyInit => LegacyInv
<1> SUFFICES ASSUME LegacyInit PROVE LegacyInv
  OBVIOUS
<1>1. \A h \in Runners : op[h] = Idle /\ op[h].kind = "idle"
  BY DEF LegacyInit, Idle
<1>2. 0 \in Dates /\ MaxChanges \in Nat
  BY CalendarAssumption DEF Dates
<1>3. \A r \in Rows : FiledOn(r, "approved") = {}
  BY DEF LegacyInit, FiledOn
<1>4. DaysOf({}) = 0
  BY SumEmpty DEF DaysOf
<1>5. ASSUME NEW r \in Rows
      PROVE  /\ bal[r] \in Row /\ BalanceSound(bal[r]) /\ bal[r].pending = DaysOf(FiledOn(r, "pending"))
             /\ bal[r].balance = bal[r].posted /\ bal[r].posted \in Int
             /\ \A p \in Dates : bal[r].credits[p] = 0
  <2>1. PICK n : n = DaysOf(FiledOn(r, "pending"))
    OBVIOUS
  <2>2. n \in Nat
    BY <2>1, DaysType DEF FiledOn
  <2>3. bal[r] = IF n = 0 THEN Absent
                 ELSE [Absent EXCEPT !.there = TRUE, !.balance = n, !.posted = n, !.pending = n, !.lastReset = 0]
    BY <2>1 DEF LegacyInit
  <2>4. CASE n = 0
    <3>1. Absent.pending = 0 /\ Absent.balance = 0 /\ Absent.posted = 0 /\ \A p \in Dates : Absent.credits[p] = 0
      BY DEF Absent
    <3> QED
      BY <2>1, <2>3, <2>4, <3>1, AbsentRow
  <2>5. CASE n # 0
    <3>1. PICK m : m = [Absent EXCEPT !.there = TRUE, !.balance = n, !.posted = n, !.pending = n, !.lastReset = 0]
      OBVIOUS
    <3>2. /\ m \in Row /\ m.there /\ m.lastReset = 0 /\ m.pending = n /\ m.balance = n /\ m.posted = n
          /\ \A p \in Dates : m.credits[p] = 0
      <4>1. Absent \in Row /\ \A p \in Dates : Absent.credits[p] = 0
        BY AbsentRow DEF Absent
      <4>2. n \in Int /\ n \in Nat /\ 0 \in Dates \cup {None}
        BY <1>2, <2>2
      <4>3. /\ m \in Row /\ m.there /\ m.lastReset = 0 /\ m.pending = n /\ m.balance = n /\ m.posted = n
            /\ m.credits = Absent.credits
        BY <3>1, <4>1, <4>2 DEF Row
      <4> QED
        BY <4>1, <4>3
    <3>3. bal[r] = m
      BY <2>3, <2>5, <3>1
    <3> QED
      BY <1>2, <2>1, <2>2, <3>2, <3>3 DEF BalanceSound
  <2> QED
    BY <2>4, <2>5
<1>6. LegacyMade
  <2>1. DOMAIN bal = Rows /\ bal \in [Rows -> Row]
    <3>1. bal = [r \in Rows |-> bal[r]]
      BY DEF LegacyInit
    <3> QED
      BY <1>5, <3>1
  <2>2. outcome \in [Apps -> Outcomes] /\ standing \in [Employees -> Standings]
    BY DEF LegacyInit, Outcomes, Standings
  <2>3. op \in [Runners -> Ops]
    BY DEF LegacyInit, Ops
  <2>4. anchor \in Dates \cup {None}
    BY CalendarAssumption DEF LegacyInit
  <2>5. runs = {} /\ lock \in LockRow /\ today = 0 /\ changes = 0
    BY DEF LegacyInit, Unlocked, LockRow
  <2>6. 0 \in 0..MaxChanges
    BY <1>2
  <2> QED
    BY <1>2, <2>1, <2>2, <2>3, <2>4, <2>5, <2>6 DEF LegacyMade
<1>7. BalanceExplained
  BY <1>3, <1>4, <1>5 DEF BalanceExplained
<1>8. DaysInOnePlace
  BY <1>5 DEF DaysInOnePlace
<1>9. CreditsRecorded /\ BalancesSound
  BY <1>5 DEF CreditsRecorded, BalancesSound
<1>10. RunsSound /\ RunsApart /\ LockHeld
  BY <1>1 DEF RunsSound, RunsApart, LockHeld, Running, Catching
<1> QED
  BY <1>6, <1>7, <1>8, <1>9, <1>10 DEF LegacyInv

-----------------------------------------------------------------------------
(* Decisions, adjustments and the staff record *)

LEMMA StillMade ==
    ASSUME LegacyInv, op' = op, lock' = lock
    PROVE  RunsApart' /\ LockHeld' /\ op' \in [Runners -> Ops] /\ lock' \in LockRow
BY DEF LegacyInv, LegacyMade, RunsApart, LockHeld, Running, Catching

LEMMA ChangeMade ==
    ASSUME Change, changes \in 0..MaxChanges
    PROVE  changes' \in 0..MaxChanges
BY CalendarAssumption DEF Change

LEMMA ReleasedMakes ==
    ASSUME NEW row, NEW n, row \in Row, n \in Nat, n <= row.pending, BalanceSound(row)
    PROVE  LET m == Released(row, n)
               k == Taken(row, n)
           IN  /\ m \in Row /\ BalanceSound(m) /\ m.there = row.there /\ m.credits = row.credits
               /\ m.pending = row.pending - n /\ m.balance = row.balance /\ m.posted = row.posted
               /\ k \in Row /\ BalanceSound(k) /\ k.there = row.there /\ k.credits = row.credits
               /\ k.pending = row.pending - n /\ k.balance = row.balance - n /\ k.posted = row.posted
<1>1. row.pending \in Nat /\ row.balance \in Int /\ Larger(0, row.pending - n) = row.pending - n
      /\ row.pending - n \in Nat
  BY RowFields DEF Larger
<1>2. PICK m : m = [row EXCEPT !.pending = row.pending - n]
  OBVIOUS
<1>3. Released(row, n) = m
  BY <1>1, <1>2 DEF Released, Row
<1>4. /\ m \in Row /\ m.there = row.there /\ m.credits = row.credits /\ m.lastReset = row.lastReset
      /\ m.pending = row.pending - n /\ m.balance = row.balance /\ m.posted = row.posted
  BY <1>1, <1>2 DEF Row
<1>5. PICK k : k = [m EXCEPT !.balance = row.balance - n]
  OBVIOUS
<1>6. Taken(row, n) = k
  BY <1>3, <1>4, <1>5 DEF Taken, Row
<1>7. /\ k \in Row /\ k.there = row.there /\ k.credits = row.credits /\ k.lastReset = row.lastReset
      /\ k.pending = row.pending - n /\ k.balance = row.balance - n /\ k.posted = row.posted
  BY <1>1, <1>4, <1>5 DEF Row
<1>8. CASE row.there
  BY <1>3, <1>4, <1>6, <1>7, <1>8 DEF BalanceSound
<1>9. CASE ~row.there
  <2>1. row = Absent /\ row.pending = 0 /\ row.balance = 0
    BY <1>9 DEF BalanceSound, Absent
  <2>2. n = 0
    BY <2>1
  <2>3. m = row
    BY <1>2, <2>1, <2>2 DEF Row
  <2>4. k = row
    BY <1>5, <2>1, <2>2, <2>3 DEF Row
  <2> QED
    BY <1>3, <1>4, <1>6, <1>7, <2>3, <2>4 DEF BalanceSound
<1> QED
  BY <1>8, <1>9

\* An application is settled: its days are let go, or taken.
LEMMA SettlementKeeps ==
    ASSUME LegacyInv, NEW a, NEW s, NEW row, a \in Apps, outcome[a] = "pending",
           s \in {"approved", "rejected", "cancelled"}, outcome' = [outcome EXCEPT ![a] = s],
           bal' = [bal EXCEPT ![Filed[a].row] = row],
           row = IF s = "approved" THEN Taken(bal[Filed[a].row], Filed[a].days)
                 ELSE Released(bal[Filed[a].row], Filed[a].days),
           \A h \in Runners : Running(h) => Filed[a].row \notin DOMAIN op[h].mine,
           UNCHANGED <<standing, runs, anchor, lock, op, today>>, Change
    PROVE  LegacyInv'
<1> DEFINE R == Filed[a].row
           n == Filed[a].days
           On(r, x) == FiledOn(r, x)
<1>1. R \in Rows /\ n \in Nat /\ bal[R] \in Row /\ BalanceSound(bal[R])
  BY FiledAssumption DEF LegacyInv, LegacyMade, BalancesSound
<1>2. \A r, x : On(r, x) \subseteq Apps
  BY DEF FiledOn
<1>3. a \in On(R, "pending") /\ a \notin On(R, "approved")
  BY DEF FiledOn
<1>4. /\ On(R, "pending")' = On(R, "pending") \ {a}
      /\ On(R, "approved")' = IF s = "approved" THEN On(R, "approved") \cup {a} ELSE On(R, "approved")
      /\ \A r \in Rows \ {R} : On(r, "pending")' = On(r, "pending") /\ On(r, "approved")' = On(r, "approved")
  <2>1. \A x \in Apps : outcome'[x] = IF x = a THEN s ELSE outcome[x]
    BY DEF LegacyInv, LegacyMade
  <2> QED
    BY <2>1 DEF FiledOn
<1> HIDE DEF On
<1>5. \A r \in Rows : bal[r].pending = DaysOf(On(r, "pending"))
      /\ bal[r].balance = bal[r].posted - DaysOf(On(r, "approved"))
  BY DEF LegacyInv, DaysInOnePlace, BalanceExplained, On
<1>6. DaysOf(On(R, "pending") \ {a}) = bal[R].pending - n /\ n <= bal[R].pending
  BY <1>1, <1>2, <1>3, <1>5, DaysLess
<1>7. DaysOf(On(R, "approved") \cup {a}) = DaysOf(On(R, "approved")) + n /\ DaysOf(On(R, "approved")) \in Nat
  BY <1>2, <1>3, DaysMore, DaysType
<1>8. /\ row \in Row /\ BalanceSound(row) /\ row.there = bal[R].there /\ row.credits = bal[R].credits
      /\ row.pending = bal[R].pending - n /\ row.posted = bal[R].posted
      /\ row.balance = IF s = "approved" THEN bal[R].balance - n ELSE bal[R].balance
  BY <1>1, <1>6, ReleasedMakes
<1>9. \A r \in Rows : bal'[r] = IF r = R THEN row ELSE bal[r]
  BY DEF LegacyInv, LegacyMade
<1>10. bal' \in [Rows -> Row]
  BY <1>1, <1>8 DEF LegacyInv, LegacyMade
<1>11. BalancesSound'
  BY <1>8, <1>9 DEF LegacyInv, BalancesSound
<1>12. DaysInOnePlace'
  <2>1. ASSUME NEW r \in Rows PROVE bal'[r].pending = DaysOf(On(r, "pending")')
    <3>1. CASE r # R
      BY <1>4, <1>5, <1>9, <3>1
    <3>2. CASE r = R
      <4>1. bal'[R].pending = bal[R].pending - n
        BY <1>1, <1>8, <1>9
      <4>2. DaysOf(On(R, "pending")') = bal[R].pending - n
        BY <1>4, <1>6
      <4> QED
        BY <3>2, <4>1, <4>2
    <3> QED
      BY <3>1, <3>2
  <2> QED
    BY <2>1 DEF DaysInOnePlace, On
<1>13. BalanceExplained'
  <2>1. ASSUME NEW r \in Rows PROVE bal'[r].balance = bal'[r].posted - DaysOf(On(r, "approved")')
    <3>1. CASE r # R
      BY <1>4, <1>5, <1>9, <3>1
    <3>2. CASE r = R
      <4>1. bal[R].balance \in Int /\ bal[R].posted \in Int
        BY <1>1, RowFields
      <4>2. bal'[R].balance = row.balance /\ bal'[R].posted = bal[R].posted
        BY <1>1, <1>8, <1>9
      <4>3. CASE s = "approved"
        <5>1. DaysOf(On(R, "approved")') = DaysOf(On(R, "approved")) + n
          BY <1>4, <1>7, <4>3
        <5>2. bal[R].balance = bal[R].posted - DaysOf(On(R, "approved")) /\ row.balance = bal[R].balance - n
          BY <1>1, <1>5, <1>8, <4>3
        <5> QED
          BY <1>1, <1>7, <3>2, <4>1, <4>2, <5>1, <5>2
      <4>4. CASE s # "approved"
        BY <1>1, <1>4, <1>5, <1>8, <3>2, <4>1, <4>2, <4>4
      <4> QED
        BY <4>3, <4>4
    <3> QED
      BY <3>1, <3>2
  <2> QED
    BY <2>1 DEF BalanceExplained, On
<1>14. CreditsRecorded'
  <2>1. \A r \in Rows : bal'[r].credits = bal[r].credits
    BY <1>8, <1>9
  <2> QED
    BY <2>1, CreditsStay DEF LegacyInv
<1>15. RunsSound'
  <2>1. \A r \in Rows : bal[r].there => bal'[r].there
    BY <1>8, <1>9
  <2>2. ASSUME NEW h \in Runners, Running(h)
        PROVE  (\A e \in op[h].staff : standing'[e] = "entitled") /\ \A r \in DOMAIN op[h].mine : bal'[r] = bal[r]
    <3>1. op[h] \in RunOps /\ RunSound(op[h])
      BY <2>2, OpKinds DEF LegacyInv, LegacyMade, RunsSound, Running
    <3>2. DOMAIN op[h].mine \subseteq Rows /\ R \notin DOMAIN op[h].mine
      BY <2>2, <3>1, RunFields
    <3> QED
      BY <1>9, <3>1, <3>2 DEF RunSound
  <2>3. \A h \in Runners \cap {} : (Running(h) => RunSound(op[h]))'
    OBVIOUS
  <2> QED
    BY <2>1, <2>2, <2>3, RunsStay DEF LegacyInv
<1>16. outcome' \in [Apps -> Outcomes] /\ changes' \in 0..MaxChanges
  BY ChangeMade DEF LegacyInv, LegacyMade, Outcomes
<1>17. LegacyMade' /\ RunsApart' /\ LockHeld'
  BY <1>10, <1>16, StillMade DEF LegacyInv, LegacyMade
<1> QED
  BY <1>11, <1>12, <1>13, <1>14, <1>15, <1>17 DEF LegacyInv

LEMMA CancelKeeps ==
    ASSUME LegacyInv, NEW a \in Apps, Cancel(a)
    PROVE  LegacyInv'
<1>1. \A h \in Runners : Running(h) => Filed[a].row \notin DOMAIN op[h].mine
  BY DEF Cancel, RowLocked
<1>2. bal' = [bal EXCEPT ![Filed[a].row] = Released(bal[Filed[a].row], Filed[a].days)]
  BY DEF Cancel
<1> QED
  BY <1>1, <1>2, SettlementKeeps DEF Cancel

\* Who is not locked by a run, has no row in its hands.
LEMMA NotInHand ==
    ASSUME RunsSound, NEW e, ~StaffLocked(e)
    PROVE  \A h \in Runners : Running(h) => e \notin op[h].staff /\ \A r \in DOMAIN op[h].mine : r[1] # e
BY DEF RunsSound, RunSound, DraftSound, StaffLocked

LEMMA DecideKeeps ==
    ASSUME LegacyInv, NEW a \in Apps, NEW s \in {"approved", "rejected"}, Decide(a, s)
    PROVE  LegacyInv'
<1> DEFINE R == Filed[a].row
<1>1. \A h \in Runners : Running(h) => R \notin DOMAIN op[h].mine
  <2>1. ~StaffLocked(R[1])
    BY DEF Decide
  <2> QED
    BY <2>1, NotInHand DEF LegacyInv
<1>2. PICK row : row = IF s = "approved" THEN Taken(bal[R], Filed[a].days) ELSE Released(bal[R], Filed[a].days)
  OBVIOUS
<1>3. bal' = [bal EXCEPT ![R] = row]
  BY <1>2 DEF Decide
<1>4. /\ outcome[a] = "pending" /\ outcome' = [outcome EXCEPT ![a] = s] /\ Change
      /\ UNCHANGED <<standing, runs, anchor, lock, op, today>>
  BY DEF Decide, MayDecide
<1> QED
  BY <1>1, <1>2, <1>3, <1>4, SettlementKeeps

\* A balance is set: nobody's run has it in hand, and its days and leave are as they were.
LEMMA SettingKeeps ==
    ASSUME LegacyInv, NEW r, NEW row, r \in Rows, row \in Row, row.there, row.lastReset \in Dates,
           Alike(row, bal[r]), row.credits = bal[r].credits, bal' = [bal EXCEPT ![r] = row],
           \A h \in Runners : Running(h) => r[1] \notin op[h].staff,
           \A e \in Employees : standing[e] = "entitled" => standing'[e] = "entitled",
           standing' \in [Employees -> Standings],
           UNCHANGED <<outcome, runs, anchor, lock, op, today>>, Change
    PROVE  LegacyInv'
<1>1. \A x \in Rows : bal'[x] = IF x = r THEN row ELSE bal[x]
  BY DEF LegacyInv, LegacyMade
<1>2. bal' \in [Rows -> Row]
  BY DEF LegacyInv, LegacyMade
<1>3. ASSUME NEW x \in Rows
      PROVE  /\ BalanceSound(bal'[x]) /\ Alike(bal'[x], bal[x]) /\ bal'[x].credits = bal[x].credits
             /\ bal[x].there => bal'[x].there
  BY <1>1, AlikeSelf DEF LegacyInv, LegacyMade, BalancesSound, BalanceSound
<1>4. BalancesSound' /\ DaysInOnePlace' /\ BalanceExplained'
  BY <1>2, <1>3, RowsStay DEF LegacyInv
<1>5. CreditsRecorded'
  BY <1>3, CreditsStay DEF LegacyInv
<1>6. ASSUME NEW h \in Runners, Running(h)
      PROVE  (\A e \in op[h].staff : standing'[e] = "entitled") /\ \A x \in DOMAIN op[h].mine : bal'[x] = bal[x]
  <2>1. op[h] \in RunOps /\ RunSound(op[h])
    BY <1>6, OpKinds DEF LegacyInv, LegacyMade, RunsSound, Running
  <2>2. DOMAIN op[h].mine \subseteq Rows /\ op[h].staff \subseteq Employees
    BY <2>1, RunFields
  <2>3. r \notin DOMAIN op[h].mine
    BY <1>6, <2>1 DEF RunSound, DraftSound
  <2> QED
    BY <1>1, <2>1, <2>2, <2>3 DEF RunSound
<1>7. RunsSound'
  <2>1. \A h \in Runners \cap {} : (Running(h) => RunSound(op[h]))'
    OBVIOUS
  <2> QED
    BY <1>3, <1>6, <2>1, RunsStay DEF LegacyInv
<1>8. changes' \in 0..MaxChanges
  BY ChangeMade DEF LegacyInv, LegacyMade
<1>9. LegacyMade' /\ RunsApart' /\ LockHeld'
  BY <1>2, <1>8, StillMade DEF LegacyInv, LegacyMade
<1> QED
  BY <1>4, <1>5, <1>7, <1>9 DEF LegacyInv

LEMMA AdjustKeeps ==
    ASSUME LegacyInv, NEW r \in Rows, NEW n \in Amounts, Adjust(r, n)
    PROVE  LegacyInv'
<1>1. bal \in [Rows -> Row] /\ BalanceSound(bal[r]) /\ today \in Dates /\ n \in Int
  BY CalendarAssumption DEF LegacyInv, LegacyMade, BalancesSound
<1>2. PICK ens : ens = Ensured(bal, r)
  OBVIOUS
<1>3. /\ ens \in Row /\ ens.there /\ ens.lastReset \in Dates /\ Alike(ens, bal[r])
      /\ ens.credits = bal[r].credits
  BY <1>1, <1>2, EnsuredMakes
<1>4. PICK row : row = Moved(ens, n)
  OBVIOUS
<1>5. /\ row \in Row /\ row.there /\ row.lastReset \in Dates /\ Alike(row, bal[r])
      /\ row.credits = bal[r].credits
  BY <1>1, <1>3, <1>4, MovedMakes DEF Alike
<1>6. \A h \in Runners : Running(h) => r[1] \notin op[h].staff
  BY NotInHand DEF Adjust, LegacyInv
<1>7. /\ bal' = [bal EXCEPT ![r] = row] /\ Change
      /\ UNCHANGED <<outcome, standing, runs, anchor, lock, op, today>>
  BY <1>2, <1>4 DEF Adjust
<1> QED
  BY <1>5, <1>6, <1>7, SettingKeeps DEF LegacyInv, LegacyMade

LEMMA ImportKeeps ==
    ASSUME LegacyInv, NEW e \in Newcomers, NEW i \in DOMAIN Types, NEW n \in Amounts, Import(e, Types[i], n)
    PROVE  LegacyInv'
<1>1. /\ bal \in [Rows -> Row] /\ today \in Dates /\ n \in Int /\ standing \in [Employees -> Standings]
      /\ \A r \in Rows : BalanceSound(bal[r])
  BY CalendarAssumption DEF LegacyInv, LegacyMade, BalancesSound
<1>2. PICK r : r = <<e, Types[i], YearOf(today)>>
  OBVIOUS
<1>3. r \in Rows /\ r[1] = e /\ e \in Employees
  BY <1>1, <1>2, DateYear, KindsAssumption DEF Rows, Kinds
<1>4. PICK ens : ens = Ensured(bal, r)
  OBVIOUS
<1>5. /\ ens \in Row /\ ens.there /\ ens.lastReset \in Dates /\ Alike(ens, bal[r])
      /\ ens.credits = bal[r].credits
  BY <1>1, <1>3, <1>4, EnsuredMakes
<1>6. n - ens.balance \in Int
  BY <1>1, <1>5, RowFields
<1>7. PICK row : row = Moved(ens, n - ens.balance)
  OBVIOUS
<1>8. /\ row \in Row /\ row.there /\ row.lastReset \in Dates /\ Alike(row, bal[r])
      /\ row.credits = bal[r].credits
  BY <1>5, <1>6, <1>7, MovedMakes DEF Alike
<1>9. /\ bal' = [bal EXCEPT ![r] = row] /\ Change /\ standing[e] = "absent"
      /\ standing' = [standing EXCEPT ![e] = "entitled"]
      /\ UNCHANGED <<outcome, runs, anchor, lock, op, today>>
  BY <1>2, <1>4, <1>7 DEF Import
<1>10. \A h \in Runners : Running(h) => r[1] \notin op[h].staff
  BY <1>3, <1>9 DEF LegacyInv, RunsSound, RunSound
<1>11. /\ standing' \in [Employees -> Standings]
       /\ \A x \in Employees : standing[x] = "entitled" => standing'[x] = "entitled"
  BY <1>1, <1>9 DEF Standings
<1> QED
  BY <1>3, <1>8, <1>9, <1>10, <1>11, SettingKeeps

\* Steps of people that touch no balance and no run.
LEMMA StandingKeeps ==
    ASSUME LegacyInv, UNCHANGED <<bal, outcome, runs, lock, op>>, standing' \in [Employees -> Standings],
           anchor' \in Dates \cup {None}, today' \in Dates, changes' \in 0..MaxChanges,
           \A h \in Runners : Running(h) => \A x \in op[h].staff : standing'[x] = standing[x]
    PROVE  LegacyInv'
<1>1. BalancesSound' /\ DaysInOnePlace' /\ BalanceExplained' /\ CreditsRecorded'
  BY DataStays
<1>2. RunsSound'
  <2>1. \A h \in Runners \cap {} : (Running(h) => RunSound(op[h]))'
    OBVIOUS
  <2>2. \A h \in Runners : Running(h) => \A x \in op[h].staff : standing'[x] = "entitled"
    BY DEF LegacyInv, RunsSound, RunSound
  <2> QED
    BY <2>1, <2>2, RunsStay DEF LegacyInv
<1>3. LegacyMade' /\ RunsApart' /\ LockHeld'
  BY StillMade DEF LegacyInv, LegacyMade
<1> QED
  BY <1>1, <1>2, <1>3 DEF LegacyInv

LEMMA SetStandingKeeps ==
    ASSUME LegacyInv, NEW e \in Employees, NEW s \in Standings, SetStanding(e, s)
    PROVE  LegacyInv'
<1>1. standing' \in [Employees -> Standings] /\ \A x \in Employees \ {e} : standing'[x] = standing[x]
  BY DEF SetStanding, LegacyInv, LegacyMade
<1>2. ASSUME NEW h \in Runners, Running(h) PROVE \A x \in op[h].staff : standing'[x] = standing[x]
  <2>1. op[h] \in RunOps
    BY <1>2, OpKinds DEF LegacyInv, LegacyMade, Running
  <2>2. op[h].staff \subseteq Employees
    BY <2>1, RunFields
  <2>3. e \notin op[h].staff
    BY <1>2, NotInHand DEF SetStanding, LegacyInv
  <2> QED
    BY <1>1, <2>2, <2>3
<1>3. changes' \in 0..MaxChanges
  BY ChangeMade DEF SetStanding, LegacyInv, LegacyMade
<1> QED
  BY <1>1, <1>2, <1>3, StandingKeeps DEF SetStanding, LegacyInv, LegacyMade

LEMMA SetAnchorKeeps ==
    ASSUME LegacyInv, NEW d \in Anchors \cup {None}, SetAnchor(d)
    PROVE  LegacyInv'
<1>1. changes' \in 0..MaxChanges
  BY ChangeMade DEF SetAnchor, LegacyInv, LegacyMade
<1>2. anchor' \in Dates \cup {None}
  BY CalendarAssumption DEF SetAnchor
<1> QED
  BY <1>1, <1>2, StandingKeeps DEF SetAnchor, LegacyInv, LegacyMade

LEMMA NextDayKeeps ==
    ASSUME LegacyInv, NextDay
    PROVE  LegacyInv'
<1>1. today' \in Dates
  BY CalendarAssumption DEF NextDay, LegacyInv, LegacyMade, Dates
<1> QED
  BY <1>1, StandingKeeps DEF NextDay, LegacyInv, LegacyMade

-----------------------------------------------------------------------------
(* Steps of a run *)

\* A runner goes over to m: it has no row that another has, and the lock if it catches up.
LEMMA OpsMove ==
    ASSUME LegacyInv, NEW h, NEW m, h \in Runners, m \in Ops, op' = [op EXCEPT ![h] = m],
           \A g \in Runners \ {h} : Running(g) /\ m.kind = "run" => DOMAIN m.mine \cap DOMAIN op[g].mine = {},
           Catching(m) => HadLock(lock', h),
           \A g \in Runners \ {h} : Catching(op[g]) => HadLock(lock', g)
    PROVE  op' \in [Runners -> Ops] /\ RunsApart' /\ LockHeld'
<1>1. op' \in [Runners -> Ops] /\ \A g \in Runners : op'[g] = IF g = h THEN m ELSE op[g]
  BY DEF LegacyInv, LegacyMade
<1>2. LockHeld'
  BY <1>1 DEF LockHeld
<1>3. ASSUME NEW g \in Runners, NEW k \in Runners, g # k, Running(g)', Running(k)'
      PROVE  DOMAIN op'[g].mine \cap DOMAIN op'[k].mine = {}
  <2>1. CASE g = h
    BY <1>1, <1>3, <2>1 DEF Running
  <2>2. CASE k = h
    BY <1>1, <1>3, <2>2 DEF Running
  <2>3. CASE g # h /\ k # h
    BY <1>1, <1>3, <2>3 DEF Running, LegacyInv, RunsApart
  <2> QED
    BY <2>1, <2>2, <2>3
<1> QED
  BY <1>1, <1>2, <1>3 DEF RunsApart

LEMMA RunMoves ==
    ASSUME LegacyInv, NEW h, NEW m, h \in Runners, m \in Ops, op' = [op EXCEPT ![h] = m],
           m.kind = "run" => RunSound(m),
           \A g \in Runners \ {h} : Running(g) /\ m.kind = "run" => DOMAIN m.mine \cap DOMAIN op[g].mine = {},
           Catching(m) => HadLock(lock', h),
           \A g \in Runners \ {h} : Catching(op[g]) => HadLock(lock', g),
           lock' \in LockRow, changes' \in 0..MaxChanges,
           UNCHANGED <<bal, outcome, standing, runs, anchor, today>>
    PROVE  LegacyInv'
<1>1. op' \in [Runners -> Ops] /\ RunsApart' /\ LockHeld'
  BY OpsMove
<1>2. BalancesSound' /\ DaysInOnePlace' /\ BalanceExplained' /\ CreditsRecorded'
  BY DataStays
<1>3. \A g \in Runners : op'[g] = IF g = h THEN m ELSE op[g]
  BY DEF LegacyInv, LegacyMade
<1>4. RunsSound'
  <2>1. (Running(h) => RunSound(op[h]))'
    BY <1>3 DEF Running, RunSound, DraftSound, Shown
  <2>2. \A g \in Runners \ {h} : Running(g) =>
            /\ \A e \in op[g].staff : standing'[e] = "entitled"
            /\ \A r \in DOMAIN op[g].mine : bal'[r] = bal[r]
    BY DEF LegacyInv, RunsSound, RunSound
  <2>3. \A g \in Runners \cap {h} : (Running(g) => RunSound(op[g]))'
    BY <2>1
  <2>4. \A r \in Rows : bal[r].there => bal'[r].there
    OBVIOUS
  <2>5. LegacyMade /\ RunsSound /\ \A g \in Runners \ {h} : op'[g] = op[g]
    BY <1>3 DEF LegacyInv
  <2> QED
    BY <2>2, <2>3, <2>4, <2>5, RunsStay
<1>5. LegacyMade'
  BY <1>1 DEF LegacyInv, LegacyMade
<1> QED
  BY <1>1, <1>2, <1>4, <1>5 DEF LegacyInv

\* A run that begins: it has written nothing yet.
LEMMA BegunSound ==
    ASSUME LegacyInv, NEW h, NEW p, NEW s, NEW left, h \in Runners, p \in Dates, s \in BOOLEAN,
           left \subseteq Dates, BeginRun(h, p, s, left)
    PROVE  \E m \in RunOps : /\ op' = [op EXCEPT ![h] = m] /\ RunSound(m) /\ DOMAIN m.mine = {}
                             /\ m.scheduled = s
<1> DEFINE staff == {e \in Employees : standing[e] = "entitled"}
<1>1. PICK credit : credit = RowsOf({t \in Kinds : Accruable[t] /\ Rate[t] > 0}, staff, YearOf(p))
  OBVIOUS
<1>2. PICK reset : reset = RowsOf({t \in Kinds : Resets[t] # "none"}, staff, YearOf(p))
  OBVIOUS
<1>3. /\ credit \in Seq(Rows) /\ IsInjective(credit) /\ \A r \in Range(credit) : r[1] \in staff
      /\ reset \in Seq(Rows) /\ \A r \in Range(reset) : r[1] \in staff
  <2>1. staff \subseteq Employees /\ YearOf(p) \in Years
    BY DateYear
  <2> QED
    BY <1>1, <1>2, <2>1, RowsListed
<1>4. PICK none : none = [r \in {} |-> Absent]
  OBVIOUS
<1>5. none \in Drafts /\ DOMAIN none = {}
  <2>1. none \in [{} -> Row] /\ {} \subseteq Rows
    BY <1>4
  <2> QED
    BY <2>1, DraftMade
<1>6. PICK m : m = [kind |-> "run", scheduled |-> s, left |-> left, period |-> p, staff |-> staff,
                    credit |-> credit, reset |-> reset, read |-> None, mine |-> none]
  OBVIOUS
<1>7. op' = [op EXCEPT ![h] = m]
  BY <1>1, <1>2, <1>4, <1>6 DEF BeginRun
<1>8. m \in RunOps
  BY <1>3, <1>5, <1>6 DEF RunOps
<1>9. /\ m.staff = staff /\ m.credit = credit /\ m.reset = reset /\ m.read = None /\ m.mine = none
      /\ m.scheduled = s
  BY <1>6
<1>10. RunSound(m)
  BY <1>3, <1>5, <1>9 DEF RunSound
<1> QED
  BY <1>5, <1>7, <1>8, <1>9, <1>10

LEMMA StartByHandKeeps ==
    ASSUME LegacyInv, NEW h \in Runners, NEW p \in HandDates, StartByHand(h, p)
    PROVE  LegacyInv'
<1>1. p \in Dates
  BY CalendarAssumption
<1>2. PICK m \in RunOps : op' = [op EXCEPT ![h] = m] /\ RunSound(m) /\ DOMAIN m.mine = {} /\ m.scheduled = FALSE
  BY <1>1, BegunSound DEF StartByHand
<1>3. m \in Ops /\ m.kind = "run" /\ ~Catching(m)
  BY <1>2, RunFields DEF Ops, Catching
<1>4. changes' \in 0..MaxChanges
  BY ChangeMade DEF StartByHand, LegacyInv, LegacyMade
<1>5. lock' = lock /\ UNCHANGED <<bal, outcome, standing, runs, anchor, today>>
  BY DEF StartByHand
<1>6. lock' \in LockRow /\ \A g \in Runners \ {h} : Catching(op[g]) => HadLock(lock', g)
  BY <1>5 DEF LegacyInv, LegacyMade, LockHeld
<1>7. \A g \in Runners \ {h} : Running(g) /\ m.kind = "run" => DOMAIN m.mine \cap DOMAIN op[g].mine = {}
  BY <1>2
<1> QED
  BY <1>2, <1>3, <1>4, <1>5, <1>6, <1>7, RunMoves

LEMMA WakeKeeps ==
    ASSUME LegacyInv, NEW h \in Runners, Wake(h)
    PROVE  LegacyInv'
<1>1. PICK m : m = [kind |-> "scan", left |-> Due]
  OBVIOUS
<1>2. m \in Ops /\ m.kind = "scan"
  <2>1. Due \subseteq Dates
    BY DEF Due
  <2> QED
    BY <1>1, <2>1 DEF Ops, ScanOps
<1>3. /\ op' = [op EXCEPT ![h] = m] /\ lock.holder = None /\ lock' = [lock EXCEPT !.holder = h]
      /\ UNCHANGED <<bal, outcome, standing, runs, anchor, today, changes>>
  BY <1>1 DEF Wake, MayWake
<1>4. lock' \in LockRow /\ lock'.holder = h /\ lock'.orphans = lock.orphans
  BY <1>3 DEF LegacyInv, LegacyMade, LockRow
<1>5. HadLock(lock', h) /\ \A g \in Runners \ {h} : Catching(op[g]) => HadLock(lock', g)
  BY <1>3, <1>4, LegacyAssumption DEF LegacyInv, LockHeld, HadLock
<1> QED
  BY <1>2, <1>3, <1>4, <1>5, RunMoves DEF LegacyInv, LegacyMade

\* The lock as a runner that ends leaves it.
LEMMA FreedLock ==
    ASSUME LegacyInv, NEW h \in Runners
    PROVE  Freed(h) \in LockRow /\ \A g \in Runners \ {h} : Catching(op[g]) => HadLock(Freed(h), g)
<1>1. lock \in LockRow
  BY DEF LegacyInv, LegacyMade
<1>2. Freed(h).holder = (IF lock.holder = h THEN None ELSE lock.holder) /\ Freed(h).orphans = lock.orphans \ {h}
  BY DEF Freed
<1>3. Freed(h) \in LockRow
  BY <1>1 DEF Freed, LockRow
<1>4. ASSUME NEW g \in Runners \ {h}, Catching(op[g]) PROVE HadLock(Freed(h), g)
  <2>1. lock.holder = g \/ g \in lock.orphans
    BY <1>4 DEF LegacyInv, LockHeld, HadLock
  <2> QED
    BY <1>2, <1>4, <2>1 DEF HadLock
<1> QED
  BY <1>3, <1>4

LEMMA ScanDueKeeps ==
    ASSUME LegacyInv, NEW h \in Runners, ScanDue(h)
    PROVE  LegacyInv'
<1> DEFINE left == op[h].left \ runs
<1>1. op[h] \in ScanOps /\ op[h].kind = "scan" /\ left \subseteq Dates
  <2>1. op[h] \in Ops /\ op[h].kind = "scan"
    BY DEF ScanDue, LegacyInv, LegacyMade
  <2>2. op[h] \in ScanOps
    BY <2>1, OpKinds
  <2> QED
    BY <2>1, <2>2 DEF ScanOps
<1>2. HadLock(lock, h) /\ \A g \in Runners \ {h} : Catching(op[g]) => HadLock(lock, g)
  BY <1>1 DEF LegacyInv, LockHeld, Catching
<1>3. CASE left # {}
  <2>1. Min(left) \in left
    <3>1. left \in SUBSET Nat
      BY <1>1 DEF Dates
    <3>2. \E d \in left : \A n \in left : d <= n
      BY <1>3, <3>1, LeastNatural
    <3> QED
      BY <3>2 DEF Min
  <2>2. BeginRun(h, Min(left), TRUE, left \ {Min(left)}) /\ lock' = lock
    BY <1>3 DEF ScanDue
  <2>3. Min(left) \in Dates /\ left \ {Min(left)} \subseteq Dates
    BY <1>1, <2>1
  <2>4. PICK m \in RunOps : op' = [op EXCEPT ![h] = m] /\ RunSound(m) /\ DOMAIN m.mine = {} /\ m.scheduled = TRUE
    BY <2>2, <2>3, BegunSound
  <2>5. m \in Ops
    BY <2>4 DEF Ops
  <2>6. UNCHANGED <<bal, outcome, standing, runs, anchor, today, changes>>
    BY DEF ScanDue
  <2>7. \A g \in Runners \ {h} : Running(g) /\ m.kind = "run" => DOMAIN m.mine \cap DOMAIN op[g].mine = {}
    BY <2>4
  <2> QED
    BY <1>2, <2>2, <2>4, <2>5, <2>6, <2>7, RunMoves DEF LegacyInv, LegacyMade
<1>4. CASE left = {}
  <2>1. op' = [op EXCEPT ![h] = Idle] /\ lock' = Freed(h)
    BY <1>4 DEF ScanDue
  <2>2. Idle \in Ops /\ Idle.kind = "idle" /\ ~Catching(Idle)
    BY DEF Ops, Idle, Catching
  <2>3. UNCHANGED <<bal, outcome, standing, runs, anchor, today, changes>>
    BY DEF ScanDue
  <2> QED
    BY <2>1, <2>2, <2>3, FreedLock, RunMoves DEF LegacyInv, LegacyMade
<1> QED
  BY <1>3, <1>4

\* A run that stops: the lock goes with it.
LEMMA StopKeeps ==
    ASSUME LegacyInv, NEW h, h \in Runners, op' = [op EXCEPT ![h] = Idle],
           lock' = Freed(h), changes' \in 0..MaxChanges,
           UNCHANGED <<bal, outcome, standing, runs, anchor, today>>
    PROVE  LegacyInv'
<1>1. Idle \in Ops /\ Idle.kind = "idle" /\ ~Catching(Idle)
  BY DEF Ops, Idle, Catching
<1>2. lock' \in LockRow /\ \A g \in Runners \ {h} : Catching(op[g]) => HadLock(lock', g)
  BY FreedLock
<1> QED
  BY <1>1, <1>2, RunMoves

LEMMA LoseLockKeeps ==
    ASSUME LegacyInv, NEW h \in Runners, LoseLock(h)
    PROVE  LegacyInv'
<1>1. PICK o : o = op[h]
  OBVIOUS
<1>2. o \in Ops /\ op' = [op EXCEPT ![h] = o]
  BY <1>1 DEF LoseLock, LegacyInv, LegacyMade
<1>3. o.kind = "run" => RunSound(o)
  BY <1>1 DEF LegacyInv, RunsSound, Running
<1>4. \A g \in Runners \ {h} : Running(g) /\ o.kind = "run" => DOMAIN o.mine \cap DOMAIN op[g].mine = {}
  BY <1>1 DEF LegacyInv, RunsApart, Running
<1>5. lock \in LockRow /\ lock.holder = h /\ lock' = [holder |-> None, orphans |-> lock.orphans \cup {h}]
  BY DEF LoseLock, LegacyInv, LegacyMade
<1>6. lock' \in LockRow /\ lock'.orphans = lock.orphans \cup {h}
  BY <1>5 DEF LockRow
<1>7. HadLock(lock', h) /\ \A g \in Runners \ {h} : Catching(op[g]) => HadLock(lock', g)
  BY <1>5, <1>6 DEF LegacyInv, LockHeld, HadLock
<1>8. changes' \in 0..MaxChanges /\ UNCHANGED <<bal, outcome, standing, runs, anchor, today>>
  BY ChangeMade DEF LoseLock, LegacyInv, LegacyMade
<1> QED
  BY <1>2, <1>3, <1>4, <1>6, <1>7, <1>8, RunMoves

LEMMA AbortRunKeeps ==
    ASSUME LegacyInv, NEW h \in Runners, AbortRun(h)
    PROVE  LegacyInv'
<1>1. changes' \in 0..MaxChanges
  BY ChangeMade DEF AbortRun, LegacyInv, LegacyMade
<1> QED
  BY <1>1, StopKeeps DEF AbortRun

LEMMA BreakDeadlockKeeps ==
    ASSUME LegacyInv, NEW h \in Runners, NEW g \in Runners, BreakDeadlock(h, g)
    PROVE  LegacyInv'
BY StopKeeps DEF BreakDeadlock, LegacyInv, LegacyMade

\* What a run sees of a row: a sound balance with the days and the leave of the committed one.
LEMMA ShownSound ==
    ASSUME LegacyInv, NEW h, NEW o, NEW r, h \in Runners, Running(h), o = op[h], r \in Rows
    PROVE  /\ o \in RunOps /\ RunSound(o) /\ View(h) \in [Rows -> Row] /\ View(h)[r] = Shown(o, r)
           /\ Shown(o, r) \in Row /\ BalanceSound(Shown(o, r)) /\ Alike(Shown(o, r), bal[r])
           /\ bal[r].there => Shown(o, r).there
           /\ r \in DOMAIN o.mine => Shown(o, r).there
           /\ \A p \in Dates : Shown(o, r).credits[p] <=
                    bal[r].credits[p] + (IF p = o.period /\ r \notin Range(o.credit) THEN 1 ELSE 0)
<1>1. o \in RunOps /\ RunSound(o)
  BY OpKinds DEF LegacyInv, LegacyMade, RunsSound, Running
<1>2. o.mine \in [DOMAIN o.mine -> Row] /\ DOMAIN o.mine \subseteq Rows
  BY <1>1, RunFields
<1>3. \A x \in Rows : bal[x] \in Row /\ BalanceSound(bal[x])
  BY DEF LegacyInv, LegacyMade, BalancesSound
<1>4. View(h) = [x \in Rows |-> Shown(o, x)]
  BY DEF View, Shown
<1>5. \A x \in Rows : Shown(o, x) \in Row
  BY <1>2, <1>3 DEF Shown
<1>6. View(h) \in [Rows -> Row] /\ View(h)[r] = Shown(o, r)
  BY <1>4, <1>5
<1>7. CASE r \in DOMAIN o.mine
  <2>1. Shown(o, r) = o.mine[r] /\ DraftSound(o, r)
    BY <1>1, <1>7 DEF RunSound, Shown
  <2> QED
    BY <1>1, <1>5, <1>6, <2>1 DEF DraftSound, BalanceSound, Alike
<1>8. CASE r \notin DOMAIN o.mine
  <2>1. Shown(o, r) = bal[r]
    BY <1>8 DEF Shown
  <2>2. \A p \in Dates : bal[r].credits[p] \in Nat
    BY <1>3, RowFields
  <2>3. \A p \in Dates : bal[r].credits[p] <=
                bal[r].credits[p] + (IF p = o.period /\ r \notin Range(o.credit) THEN 1 ELSE 0)
    BY <2>2
  <2> QED
    BY <1>1, <1>3, <1>5, <1>6, <1>8, <2>1, <2>3, AlikeSelf
<1> QED
  BY <1>7, <1>8

\* A run that writes one of its staff's rows: what it has in hand stays sound.
LEMMA WritingSound ==
    ASSUME NEW o, NEW m, NEW r, NEW row, o \in RunOps, RunSound(o), r \in Rows, row \in Row,
           m \in RunOps, DOMAIN m.mine = DOMAIN o.mine \cup {r}, m.mine[r] = row,
           \A x \in DOMAIN o.mine \ {r} : m.mine[x] = o.mine[x],
           m.staff = o.staff, m.period = o.period,
           Range(m.credit) \subseteq Range(o.credit), \A x \in DOMAIN o.mine : bal[x].credits \in [Dates -> Nat],
           r[1] \in o.staff, row.there, row.lastReset \in Dates, Alike(row, bal[r]),
           \A p \in Dates : row.credits[p] <=
                bal[r].credits[p] + (IF p = o.period /\ r \notin Range(m.credit) THEN 1 ELSE 0)
    PROVE  \A x \in DOMAIN m.mine : DraftSound(m, x)
<1> SUFFICES ASSUME NEW x \in DOMAIN m.mine PROVE DraftSound(m, x)
  OBVIOUS
<1>1. CASE x = r
  BY <1>1 DEF DraftSound, Alike
<1>2. CASE x # r
  <2>1. x \in DOMAIN o.mine /\ m.mine[x] = o.mine[x] /\ DraftSound(o, x)
    BY <1>2 DEF RunSound
  <2>2. ASSUME NEW p \in Dates
        PROVE  m.mine[x].credits[p] <=
                    bal[x].credits[p] + (IF p = m.period /\ x \notin Range(m.credit) THEN 1 ELSE 0)
    <3>1. o.mine[x].credits[p] \in Nat /\ bal[x].credits[p] \in Nat
      BY <2>1, RunFields, RowFields
    <3>2. o.mine[x].credits[p] <=
                bal[x].credits[p] + (IF p = o.period /\ x \notin Range(o.credit) THEN 1 ELSE 0)
      BY <2>1 DEF DraftSound
    <3>3. CASE x \in Range(o.credit)
      BY <2>1, <3>1, <3>2, <3>3
    <3>4. CASE x \notin Range(o.credit)
      BY <2>1, <3>1, <3>2, <3>4
    <3> QED
      BY <3>3, <3>4
  <2> QED
    BY <2>1, <2>2 DEF DraftSound
<1> QED
  BY <1>1, <1>2

\* A run's own row, or one that no other run has.
LEMMA WantedFree ==
    ASSUME LegacyInv, NEW h, h \in Runners, Proceeds(h), NEW r, r \in Wanted(h), NEW m,
           DOMAIN m.mine \subseteq DOMAIN op[h].mine \cup {r}
    PROVE  \A g \in Runners \ {h} : Running(g) => DOMAIN m.mine \cap DOMAIN op[g].mine = {}
<1> SUFFICES ASSUME NEW g \in Runners \ {h}, Running(g) PROVE DOMAIN m.mine \cap DOMAIN op[g].mine = {}
  OBVIOUS
<1>1. DOMAIN op[h].mine \cap DOMAIN op[g].mine = {}
  BY DEF LegacyInv, RunsApart, Proceeds
<1>2. r \notin DOMAIN op[g].mine
  BY DEF Proceeds, WaitsFor
<1> QED
  BY <1>1, <1>2

\* A step of a run's two passes.
LEMMA PassKeeps ==
    ASSUME LegacyInv, NEW h, NEW m, h \in Runners, Proceeds(h), m \in RunOps, RunSound(m),
           op' = [op EXCEPT ![h] = m], m.scheduled = op[h].scheduled,
           \A g \in Runners \ {h} : Running(g) => DOMAIN m.mine \cap DOMAIN op[g].mine = {},
           UNCHANGED <<bal, outcome, standing, runs, anchor, lock, today, changes>>
    PROVE  LegacyInv'
<1>1. m \in Ops /\ m.kind = "run"
  BY RunFields DEF Ops
<1>2. Catching(m) => Catching(op[h])
  BY <1>1 DEF Catching, Proceeds, Running
<1> QED
  BY <1>1, <1>2, RunMoves DEF LegacyInv, LegacyMade, LockHeld

LEMMA ReadCreditKeeps ==
    ASSUME LegacyInv, NEW h \in Runners, ReadCredit(h)
    PROVE  LegacyInv'
<1>1. PICK o : o = op[h]
  OBVIOUS
<1>2. PICK r : r = Head(o.credit)
  OBVIOUS
<1>3. Proceeds(h) /\ Running(h) /\ o.credit # <<>> /\ o.read = None
  BY <1>1 DEF ReadCredit, Proceeds
<1>4. o \in RunOps /\ RunSound(o)
  BY <1>1, <1>3, OpKinds DEF LegacyInv, LegacyMade, RunsSound, Running
<1>5. r \in Rows /\ r \in Range(o.credit) /\ r[1] \in o.staff
  BY <1>2, <1>3, <1>4, RunFields, FirstAndRest DEF RunSound
<1>6. PICK v : v = View(h)
  OBVIOUS
<1>7. /\ v \in [Rows -> Row] /\ v[r] = Shown(o, r) /\ BalanceSound(v[r]) /\ Alike(v[r], bal[r])
      /\ r \in DOMAIN o.mine => v[r].there
      /\ \A p \in Dates : v[r].credits[p] <=
                bal[r].credits[p] + (IF p = o.period /\ r \notin Range(o.credit) THEN 1 ELSE 0)
  BY <1>1, <1>3, <1>5, <1>6, ShownSound
<1>8. PICK row : row = Ensured(v, r)
  OBVIOUS
<1>9. /\ row \in Row /\ row.there /\ row.lastReset \in Dates /\ Alike(row, v[r])
      /\ row.credits = v[r].credits
  BY <1>5, <1>7, <1>8, EnsuredMakes DEF LegacyInv, LegacyMade
<1>10. row.balance \in Int /\ UNCHANGED <<bal, outcome, standing, runs, anchor, lock, today, changes>>
  BY <1>9, RowFields DEF ReadCredit
<1>11. CASE v[r].there
  <2>1. PICK m : m = [o EXCEPT !.read = row.balance]
    OBVIOUS
  <2>2. op' = [op EXCEPT ![h] = m]
    BY <1>1, <1>2, <1>6, <1>8, <1>11, <2>1 DEF ReadCredit
  <2>3. /\ m \in RunOps /\ m.credit = o.credit /\ m.reset = o.reset /\ m.staff = o.staff
        /\ m.mine = o.mine /\ m.period = o.period /\ m.scheduled = o.scheduled
    BY <1>4, <1>10, <2>1 DEF RunOps
  <2>4. RunSound(m)
    <3>1. \A x \in DOMAIN m.mine : DraftSound(m, x)
      BY <1>4, <2>3 DEF RunSound, DraftSound
    <3>2. Shown(m, Head(m.credit)).there
      BY <1>2, <1>7, <1>11, <2>3 DEF Shown
    <3> QED
      BY <1>3, <1>4, <2>3, <3>1, <3>2 DEF RunSound
  <2>5. \A g \in Runners \ {h} : Running(g) => DOMAIN m.mine \cap DOMAIN op[g].mine = {}
    BY <1>1, <1>3, <2>3 DEF LegacyInv, RunsApart
  <2> QED
    BY <1>1, <1>3, <1>10, <2>2, <2>3, <2>4, <2>5, PassKeeps
<1>12. CASE ~v[r].there
  <2>1. PICK w : w = Writing(o, r, row)
    OBVIOUS
  <2>2. PICK m : m = [w EXCEPT !.read = row.balance]
    OBVIOUS
  <2>3. op' = [op EXCEPT ![h] = m]
    <3>1. Wrote(h, r, row) = w
      BY <1>1, <2>1 DEF Wrote, Writing
    <3> QED
      BY <1>1, <1>2, <1>6, <1>8, <1>12, <2>2, <3>1 DEF ReadCredit
  <2>4. /\ w \in RunOps /\ DOMAIN w.mine = DOMAIN o.mine \cup {r} /\ w.mine[r] = row
        /\ \A x \in DOMAIN o.mine \ {r} : w.mine[x] = o.mine[x]
        /\ w.scheduled = o.scheduled /\ w.period = o.period /\ w.staff = o.staff
        /\ w.credit = o.credit /\ w.reset = o.reset
    BY <1>4, <1>5, <1>9, <2>1, WritingMakes
  <2>5. /\ m \in RunOps /\ DOMAIN m.mine = DOMAIN o.mine \cup {r} /\ m.mine[r] = row
        /\ \A x \in DOMAIN o.mine \ {r} : m.mine[x] = o.mine[x]
        /\ m.scheduled = o.scheduled /\ m.period = o.period /\ m.staff = o.staff
        /\ m.credit = o.credit /\ m.reset = o.reset
    BY <1>10, <2>2, <2>4 DEF RunOps
  <2>6. r \notin DOMAIN o.mine
    BY <1>7, <1>12
  <2>7. \A x \in DOMAIN m.mine : DraftSound(m, x)
    <3>1. Alike(row, bal[r])
      BY <1>7, <1>9 DEF Alike
    <3>2. \A p \in Dates : row.credits[p] <=
                bal[r].credits[p] + (IF p = o.period /\ r \notin Range(m.credit) THEN 1 ELSE 0)
      BY <1>7, <1>9, <2>5
    <3>3. \A x \in DOMAIN o.mine : bal[x].credits \in [Dates -> Nat]
      BY <1>4, RunFields, RowFields DEF LegacyInv, LegacyMade
    <3> QED
      BY <1>4, <1>5, <1>9, <2>5, <3>1, <3>2, <3>3, WritingSound
  <2>8. RunSound(m)
    <3>1. Shown(m, Head(m.credit)).there
      BY <1>2, <1>9, <2>5 DEF Shown
    <3> QED
      BY <1>3, <1>4, <2>5, <2>7, <3>1 DEF RunSound
  <2>9. r \in Wanted(h)
    BY <1>1, <1>2, <1>3, <1>6, <1>12 DEF Wanted
  <2>10. \A g \in Runners \ {h} : Running(g) => DOMAIN m.mine \cap DOMAIN op[g].mine = {}
    BY <1>1, <1>3, <2>5, <2>9, WantedFree
  <2> QED
    BY <1>1, <1>3, <1>10, <2>3, <2>5, <2>8, <2>10, PassKeeps
<1> QED
  BY <1>11, <1>12

\* A run that passes over a row: what it has in hand stays sound.
LEMMA PassingSound ==
    ASSUME NEW o, NEW m, o \in RunOps, RunSound(o), m.mine = o.mine, m.staff = o.staff, m.period = o.period,
           Range(m.credit) \subseteq Range(o.credit), \A x \in DOMAIN o.mine : bal[x].credits \in [Dates -> Nat]
    PROVE  \A x \in DOMAIN m.mine : DraftSound(m, x)
<1> SUFFICES ASSUME NEW x \in DOMAIN o.mine PROVE DraftSound(m, x)
  OBVIOUS
<1>1. DraftSound(o, x)
  BY DEF RunSound
<1>2. ASSUME NEW p \in Dates
      PROVE  o.mine[x].credits[p] <= bal[x].credits[p] + (IF p = o.period /\ x \notin Range(m.credit) THEN 1 ELSE 0)
  <2>1. o.mine[x].credits[p] \in Nat /\ bal[x].credits[p] \in Nat
    BY RunFields, RowFields
  <2>2. o.mine[x].credits[p] <= bal[x].credits[p] + (IF p = o.period /\ x \notin Range(o.credit) THEN 1 ELSE 0)
    BY <1>1 DEF DraftSound
  <2>3. CASE x \in Range(o.credit)
    BY <2>1, <2>2, <2>3
  <2>4. CASE x \notin Range(o.credit)
    BY <2>1, <2>2, <2>4
  <2> QED
    BY <2>3, <2>4
<1> QED
  BY <1>1, <1>2 DEF DraftSound

\* A row credited for a period.
CreditedOnce(row, read, n, p) == [Credited(row, read, n) EXCEPT !.credits[p] = @ + 1]

LEMMA CreditMakes ==
    ASSUME NEW row, NEW n, NEW p, NEW read, row \in Row, n \in Int, p \in Dates
    PROVE  LET k == CreditedOnce(row, read, n, p)
           IN  /\ k \in Row /\ k.there = row.there /\ k.lastReset = row.lastReset /\ Alike(k, row)
               /\ k.credits[p] = row.credits[p] + 1
               /\ \A q \in Dates \ {p} : k.credits[q] = row.credits[q]
<1>0. PICK k : k = CreditedOnce(row, read, n, p)
  OBVIOUS
<1>1. PICK m : m = Credited(row, read, n)
  OBVIOUS
<1>2. /\ m \in Row /\ Alike(m, row) /\ m.there = row.there /\ m.lastReset = row.lastReset
      /\ m.credits = row.credits
  BY <1>1, MovedMakes DEF Credited
<1>3. PICK c : c = [m.credits EXCEPT ![p] = m.credits[p] + 1]
  OBVIOUS
<1>4. /\ m.credits \in [Dates -> Nat] /\ c \in [Dates -> Nat] /\ c[p] = row.credits[p] + 1
      /\ \A q \in Dates \ {p} : c[q] = row.credits[q]
  BY <1>2, <1>3, RowFields
<1>5. k = [m EXCEPT !.credits = c]
  BY <1>0, <1>1, <1>2, <1>3 DEF CreditedOnce, Row
<1>7. /\ k \in Row /\ k.there = m.there /\ k.lastReset = m.lastReset /\ k.credits = c
      /\ k.pending = m.pending /\ k.balance = m.balance /\ k.posted = m.posted
  BY <1>2, <1>4, <1>5 DEF Row
<1>8. Alike(k, row)
  BY <1>2, <1>7 DEF Alike
<1> QED
  BY <1>0, <1>2, <1>4, <1>7, <1>8

LEMMA WriteCreditKeeps ==
    ASSUME LegacyInv, NEW h \in Runners, WriteCredit(h)
    PROVE  LegacyInv'
<1>1. PICK o : o = op[h]
  OBVIOUS
<1>2. PICK r : r = Head(o.credit)
  OBVIOUS
<1>3. /\ Proceeds(h) /\ Running(h) /\ o.credit # <<>> /\ o.read # None
      /\ UNCHANGED <<bal, outcome, standing, runs, anchor, lock, today, changes>>
  BY <1>1 DEF WriteCredit, Proceeds
<1>4. /\ o \in RunOps /\ RunSound(o) /\ o.period \in Dates /\ o.credit \in Seq(Rows)
      /\ o.read \in Int /\ IsInjective(o.credit)
  <2>1. o \in RunOps /\ RunSound(o)
    BY <1>1, <1>3, OpKinds DEF LegacyInv, LegacyMade, RunsSound, Running
  <2> QED
    BY <1>3, <2>1, RunFields DEF RunSound
<1>5. /\ r \in Rows /\ r \in Range(o.credit) /\ r[1] \in o.staff /\ Tail(o.credit) \in Seq(Rows)
      /\ Range(Tail(o.credit)) \subseteq Range(o.credit) /\ r \notin Range(Tail(o.credit))
      /\ IsInjective(Tail(o.credit))
  BY <1>2, <1>3, <1>4, FirstAndRest DEF RunSound
<1>6. PICK v : v = View(h)
  OBVIOUS
<1>7. /\ v[r] = Shown(o, r) /\ v[r] \in Row /\ BalanceSound(v[r]) /\ Alike(v[r], bal[r]) /\ v[r].there
      /\ \A p \in Dates : v[r].credits[p] <=
                bal[r].credits[p] + (IF p = o.period /\ r \notin Range(o.credit) THEN 1 ELSE 0)
  <2>1. Shown(o, r).there
    BY <1>2, <1>3, <1>4 DEF RunSound
  <2> QED
    BY <1>1, <1>3, <1>5, <1>6, <2>1, ShownSound
<1>8. PICK n : n = CreditFor(r[2], o.read)
  OBVIOUS
<1>9. n \in Int
  <2>1. r[2] \in Kinds
    BY <1>5 DEF Rows
  <2> QED
    BY <1>4, <1>8, <2>1, CreditType
<1>10. \A x \in DOMAIN o.mine : bal[x].credits \in [Dates -> Nat]
  BY <1>4, RunFields, RowFields DEF LegacyInv, LegacyMade
<1>11. CASE ~(n > 0)
  <2>1. PICK m : m = [o EXCEPT !.credit = Tail(o.credit), !.read = None]
    OBVIOUS
  <2>2. op' = [op EXCEPT ![h] = m]
    <3>1. [o EXCEPT !.credit = Tail(@), !.read = None] = m
      BY <1>4, <2>1 DEF RunOps
    <3> QED
      BY <1>1, <1>2, <1>8, <1>11, <3>1 DEF WriteCredit
  <2>3. /\ m \in RunOps /\ m.credit = Tail(o.credit) /\ m.reset = o.reset /\ m.staff = o.staff
        /\ m.mine = o.mine /\ m.period = o.period /\ m.scheduled = o.scheduled /\ m.read = None
    BY <1>4, <1>5, <2>1 DEF RunOps
  <2>4. \A x \in DOMAIN m.mine : DraftSound(m, x)
    BY <1>4, <1>5, <1>10, <2>3, PassingSound
  <2>5. RunSound(m)
    BY <1>4, <1>5, <2>3, <2>4 DEF RunSound
  <2>6. \A g \in Runners \ {h} : Running(g) => DOMAIN m.mine \cap DOMAIN op[g].mine = {}
    BY <1>1, <1>3, <2>3 DEF LegacyInv, RunsApart
  <2> QED
    BY <1>1, <1>3, <2>2, <2>3, <2>5, <2>6, PassKeeps
<1>12. CASE n > 0
  <2>1. PICK row : row = CreditedOnce(v[r], o.read, n, o.period)
    OBVIOUS
  <2>2. /\ row \in Row /\ row.there /\ row.lastReset \in Dates /\ Alike(row, v[r])
        /\ row.credits[o.period] = v[r].credits[o.period] + 1
        /\ \A q \in Dates \ {o.period} : row.credits[q] = v[r].credits[q]
    <3>1. PICK x, p, k : x = v[r] /\ p = o.period /\ k = o.read
      OBVIOUS
    <3>2. x \in Row /\ p \in Dates /\ row = CreditedOnce(x, k, n, p)
      BY <1>4, <1>7, <2>1, <3>1
    <3>3. /\ row \in Row /\ row.there = x.there /\ row.lastReset = x.lastReset /\ Alike(row, x)
          /\ row.credits[p] = x.credits[p] + 1
          /\ \A q \in Dates \ {p} : row.credits[q] = x.credits[q]
      BY <1>9, <3>2, CreditMakes
    <3> QED
      BY <1>7, <3>1, <3>3 DEF BalanceSound
  <2>3. PICK w : w = Writing(o, r, row)
    OBVIOUS
  <2>4. PICK m : m = [w EXCEPT !.credit = Tail(o.credit), !.read = None]
    OBVIOUS
  <2>5. /\ w \in RunOps /\ DOMAIN w.mine = DOMAIN o.mine \cup {r} /\ w.mine[r] = row
        /\ \A x \in DOMAIN o.mine \ {r} : w.mine[x] = o.mine[x]
        /\ w.scheduled = o.scheduled /\ w.period = o.period /\ w.staff = o.staff
        /\ w.credit = o.credit /\ w.reset = o.reset
    BY <1>4, <1>5, <2>2, <2>3, WritingMakes
  <2>6. op' = [op EXCEPT ![h] = m]
    <3>1. Wrote(h, r, row) = w
      BY <1>1, <2>3 DEF Wrote, Writing
    <3>2. [w EXCEPT !.credit = Tail(@), !.read = None] = m
      BY <2>4, <2>5 DEF RunOps
    <3> QED
      BY <1>1, <1>2, <1>6, <1>8, <1>12, <2>1, <3>1, <3>2 DEF WriteCredit, CreditedOnce
  <2>7. /\ m \in RunOps /\ DOMAIN m.mine = DOMAIN o.mine \cup {r} /\ m.mine[r] = row
        /\ \A x \in DOMAIN o.mine \ {r} : m.mine[x] = o.mine[x]
        /\ m.scheduled = o.scheduled /\ m.period = o.period /\ m.staff = o.staff
        /\ m.credit = Tail(o.credit) /\ m.reset = o.reset /\ m.read = None
    BY <1>5, <2>4, <2>5 DEF RunOps
  <2>8. \A x \in DOMAIN m.mine : DraftSound(m, x)
    <3>1. Alike(row, bal[r])
      BY <1>7, <2>2 DEF Alike
    <3>2. ASSUME NEW p \in Dates
          PROVE  row.credits[p] <= bal[r].credits[p] + (IF p = o.period /\ r \notin Range(m.credit) THEN 1 ELSE 0)
      <4>1. v[r].credits[p] <= bal[r].credits[p] + 0
        BY <1>5, <1>7
      <4>2. v[r].credits[p] \in Nat /\ bal[r].credits[p] \in Nat
        BY <1>5, <1>7, RowFields DEF LegacyInv, LegacyMade
      <4>3. CASE p = o.period
        BY <1>5, <2>2, <2>7, <4>1, <4>2, <4>3
      <4>4. CASE p # o.period
        BY <2>2, <4>1, <4>2, <4>4
      <4> QED
        BY <4>3, <4>4
    <3> QED
      BY <1>4, <1>5, <1>10, <2>2, <2>7, <3>1, <3>2, WritingSound
  <2>9. RunSound(m)
    BY <1>4, <1>5, <2>7, <2>8 DEF RunSound
  <2>10. r \in Wanted(h)
    BY <1>1, <1>2, <1>3, <1>8, <1>12 DEF Wanted
  <2>11. \A g \in Runners \ {h} : Running(g) => DOMAIN m.mine \cap DOMAIN op[g].mine = {}
    BY <1>1, <1>3, <2>7, <2>10, WantedFree
  <2> QED
    BY <1>1, <1>3, <2>6, <2>7, <2>9, <2>11, PassKeeps
<1> QED
  BY <1>11, <1>12

\* A row that a reset forfeits: it opens anew, on the boundary.
Forfeited(row, t, b) == [Moved(row, Seed(t) - row.balance) EXCEPT !.lastReset = b, !.credits = Absent.credits]

LEMMA ForfeitMakes ==
    ASSUME NEW row, NEW t, NEW b, row \in Row, t \in Kinds, b \in Dates
    PROVE  LET k == Forfeited(row, t, b)
           IN  /\ k \in Row /\ k.there = row.there /\ k.lastReset = b /\ Alike(k, row)
               /\ \A p \in Dates : k.credits[p] = 0
<1>0. PICK k : k = Forfeited(row, t, b)
  OBVIOUS
<1>1. Seed(t) - row.balance \in Int
  BY SeedType, RowFields
<1>2. PICK m : m = Moved(row, Seed(t) - row.balance)
  OBVIOUS
<1>3. m \in Row /\ Alike(m, row) /\ m.there = row.there
  BY <1>1, <1>2, MovedMakes
<1>4. Absent.credits \in [Dates -> Nat] /\ \A p \in Dates : Absent.credits[p] = 0
  BY DEF Absent
<1>5. k = [m EXCEPT !.lastReset = b, !.credits = Absent.credits]
  BY <1>0, <1>2 DEF Forfeited
<1>6. /\ k \in Row /\ k.there = m.there /\ k.lastReset = b /\ k.credits = Absent.credits
      /\ k.pending = m.pending /\ k.balance = m.balance /\ k.posted = m.posted
  BY <1>3, <1>4, <1>5 DEF Row
<1>7. Alike(k, row)
  BY <1>3, <1>6 DEF Alike
<1> QED
  BY <1>0, <1>3, <1>4, <1>6, <1>7

\* The first of a list, as a set.
LEMMA FirstOnly ==
    ASSUME NEW s, s \in Seq(Rows), s # <<>>
    PROVE  {s[i] : i \in 1..Smaller(1, Len(s))} = {Head(s)}
<1>1. PICK n : n = Len(s)
  OBVIOUS
<1>2. n \in Nat /\ n # 0
  BY <1>1, EmptySeq
<1>3. Smaller(1, n) = 1
  BY <1>2 DEF Smaller
<1>4. Head(s) = s[1]
  BY DEF Head
<1> QED
  BY <1>1, <1>3, <1>4

LEMMA ResetKeeps ==
    ASSUME LegacyInv, NEW h \in Runners, Reset(h)
    PROVE  LegacyInv'
<1>1. PICK o : o = op[h]
  OBVIOUS
<1>2. PICK r : r = Head(o.reset)
  OBVIOUS
<1>3. /\ Proceeds(h) /\ Running(h) /\ o.credit = <<>> /\ o.reset # <<>>
      /\ UNCHANGED <<bal, outcome, standing, runs, anchor, lock, today, changes>>
  BY <1>1 DEF Reset, Proceeds
<1>4. /\ o \in RunOps /\ RunSound(o) /\ o.period \in Dates /\ o.reset \in Seq(Rows)
      /\ o.read = None
  <2>1. o \in RunOps /\ RunSound(o)
    BY <1>1, <1>3, OpKinds DEF LegacyInv, LegacyMade, RunsSound, Running
  <2> QED
    BY <1>3, <2>1, RunFields DEF RunSound
<1>5. /\ r \in Rows /\ r[1] \in o.staff /\ Tail(o.reset) \in Seq(Rows)
      /\ Range(Tail(o.reset)) \subseteq Range(o.reset)
  BY <1>2, <1>3, <1>4, FirstAndRest DEF RunSound
<1>6. PICK v : v = View(h)
  OBVIOUS
<1>7. /\ v[r] = Shown(o, r) /\ v[r] \in Row /\ BalanceSound(v[r]) /\ Alike(v[r], bal[r])
      /\ \A p \in Dates : v[r].credits[p] <=
                bal[r].credits[p] + (IF p = o.period /\ r \notin Range(o.credit) THEN 1 ELSE 0)
  BY <1>1, <1>3, <1>5, <1>6, ShownSound
<1>8. PICK b : b = ResetBoundary(r[1], r[2], o.period)
  OBVIOUS
<1>9. \A x \in DOMAIN o.mine : bal[x].credits \in [Dates -> Nat]
  BY <1>4, RunFields, RowFields DEF LegacyInv, LegacyMade
<1>10. Wanted(h) = IF v[r].there /\ b # None THEN {r} ELSE {}
  <2>4. {o.reset[i] : i \in 1..Smaller(1, Len(o.reset))} = {r}
    BY <1>2, <1>3, <1>4, FirstOnly
  <2>5. Wanted(h) = {x \in {r} : v[x].there /\ ResetBoundary(x[1], x[2], o.period) # None}
    BY <1>1, <1>3, <1>6, <2>4 DEF Wanted
  <2> QED
    BY <1>8, <2>5
<1>11. CASE Wanted(h) = {}
  <2>1. PICK m : m = [o EXCEPT !.reset = Tail(o.reset)]
    OBVIOUS
  <2>2. op' = [op EXCEPT ![h] = m]
    <3>1. [o EXCEPT !.reset = Tail(@)] = m
      BY <1>4, <2>1 DEF RunOps
    <3> QED
      BY <1>1, <1>11, <3>1 DEF Reset
  <2>3. /\ m \in RunOps /\ m.credit = o.credit /\ m.reset = Tail(o.reset) /\ m.staff = o.staff
        /\ m.mine = o.mine /\ m.period = o.period /\ m.scheduled = o.scheduled /\ m.read = None
    BY <1>4, <1>5, <2>1 DEF RunOps
  <2>4. \A x \in DOMAIN m.mine : DraftSound(m, x)
    BY <1>4, <1>9, <2>3, PassingSound
  <2>5. RunSound(m)
    BY <1>4, <1>5, <2>3, <2>4 DEF RunSound
  <2>6. \A g \in Runners \ {h} : Running(g) => DOMAIN m.mine \cap DOMAIN op[g].mine = {}
    BY <1>1, <1>3, <2>3 DEF LegacyInv, RunsApart
  <2> QED
    BY <1>1, <1>3, <2>2, <2>3, <2>5, <2>6, PassKeeps
<1>12. CASE Wanted(h) # {}
  <2>1. v[r].there /\ b # None /\ r \in Wanted(h) /\ v[r].lastReset \in Dates
    BY <1>7, <1>10, <1>12 DEF BalanceSound
  <2>2. PICK anew : anew = Forfeited(v[r], r[2], b)
    OBVIOUS
  <2>3. PICK row : row = IF IsResetDue(v[r].lastReset, b) THEN anew ELSE v[r]
    OBVIOUS
  <2>4. v[r].credits \in [Dates -> Nat] /\ bal[r].credits \in [Dates -> Nat]
    BY <1>5, <1>7, RowFields DEF LegacyInv, LegacyMade
  <2>5. /\ row \in Row /\ row.there /\ row.lastReset \in Dates /\ Alike(row, bal[r])
        /\ \A p \in Dates : row.credits[p] <=
                bal[r].credits[p] + (IF p = o.period /\ r \notin Range(o.credit) THEN 1 ELSE 0)
    <3>1. CASE IsResetDue(v[r].lastReset, b)
      <4>1. v[r].lastReset < b
        BY <2>1, <3>1, LegacyAssumption DEF IsResetDue
      <4>2. b \in Int /\ b <= o.period
        BY <1>4, <1>5, <1>8, <2>1, BoundaryPast DEF Rows
      <4>3. b \in Dates
        BY <1>4, <2>1, <4>1, <4>2, CalendarAssumption DEF Dates
      <4>4. r[2] \in Kinds
        BY <1>5 DEF Rows
      <4>5. anew \in Row /\ anew.there /\ anew.lastReset = b /\ Alike(anew, v[r]) /\ \A p \in Dates :
            anew.credits[p] = 0
        BY <1>7, <2>1, <2>2, <4>3, <4>4, ForfeitMakes
      <4>6. Alike(anew, bal[r])
        BY <1>7, <4>5 DEF Alike
      <4>7. \A p \in Dates : 0 <= bal[r].credits[p] + (IF p = o.period /\ r \notin Range(o.credit) THEN 1 ELSE 0)
        BY <2>4
      <4>8. row = anew
        BY <2>3, <3>1
      <4> QED
        BY <4>3, <4>5, <4>6, <4>7, <4>8
    <3>2. CASE ~IsResetDue(v[r].lastReset, b)
      BY <1>7, <2>1, <2>3, <3>2
    <3> QED
      BY <3>1, <3>2
  <2>6. PICK w : w = Writing(o, r, row)
    OBVIOUS
  <2>7. PICK m : m = [w EXCEPT !.reset = Tail(o.reset)]
    OBVIOUS
  <2>8. /\ w \in RunOps /\ DOMAIN w.mine = DOMAIN o.mine \cup {r} /\ w.mine[r] = row
        /\ \A x \in DOMAIN o.mine \ {r} : w.mine[x] = o.mine[x]
        /\ w.scheduled = o.scheduled /\ w.period = o.period /\ w.staff = o.staff
        /\ w.credit = o.credit /\ w.reset = o.reset /\ w.read = o.read
    BY <1>4, <1>5, <2>5, <2>6, WritingMakes
  <2>9. op' = [op EXCEPT ![h] = m]
    <3>1. Wrote(h, r, row) = w
      BY <1>1, <2>6 DEF Wrote, Writing
    <3>2. [w EXCEPT !.reset = Tail(@)] = m
      BY <2>7, <2>8 DEF RunOps
    <3> QED
      BY <1>1, <1>2, <1>6, <1>8, <1>12, <2>2, <2>3, <3>1, <3>2 DEF Reset, Forfeited
  <2>10. /\ m \in RunOps /\ DOMAIN m.mine = DOMAIN o.mine \cup {r} /\ m.mine[r] = row
         /\ \A x \in DOMAIN o.mine \ {r} : m.mine[x] = o.mine[x]
         /\ m.scheduled = o.scheduled /\ m.period = o.period /\ m.staff = o.staff
         /\ m.credit = o.credit /\ m.reset = Tail(o.reset) /\ m.read = None
    BY <1>4, <1>5, <2>7, <2>8 DEF RunOps
  <2>11. \A x \in DOMAIN m.mine : DraftSound(m, x)
    BY <1>4, <1>5, <1>9, <2>5, <2>10, WritingSound
  <2>12. RunSound(m)
    BY <1>4, <1>5, <2>10, <2>11 DEF RunSound
  <2>13. \A g \in Runners \ {h} : Running(g) => DOMAIN m.mine \cap DOMAIN op[g].mine = {}
    BY <1>1, <1>3, <2>1, <2>10, WantedFree
  <2> QED
    BY <1>1, <1>3, <2>9, <2>10, <2>12, <2>13, PassKeeps
<1> QED
  BY <1>11, <1>12

\* The end of a run: what it wrote is committed at once, and its period recorded; or, where the
\* period is recorded already, nothing is.
LEMMA CommitKeeps ==
    ASSUME LegacyInv, NEW h, NEW m, NEW o, h \in Runners, Running(h), o = op[h], o.period \notin runs,
           m \in Ops, m.kind # "run", op' = [op EXCEPT ![h] = m], Catching(m) => o.scheduled,
           bal' = View(h), runs' = runs \cup {o.period},
           UNCHANGED <<outcome, standing, anchor, lock, today, changes>>
    PROVE  LegacyInv'
<1>1. /\ o \in RunOps /\ RunSound(o) /\ bal' \in [Rows -> Row]
      /\ \A r \in Rows : /\ bal'[r] = Shown(o, r) /\ BalanceSound(bal'[r]) /\ Alike(bal'[r], bal[r])
                         /\ bal[r].there => bal'[r].there
  <2>1. o \in RunOps /\ RunSound(o)
    BY OpKinds DEF LegacyInv, LegacyMade, RunsSound, Running
  <2>2. ASSUME NEW r \in Rows
        PROVE  /\ View(h)[r] = Shown(o, r) /\ BalanceSound(View(h)[r]) /\ Alike(View(h)[r], bal[r])
               /\ bal[r].there => View(h)[r].there
               /\ View(h) \in [Rows -> Row]
    BY ShownSound
  <2>3. View(h) \in [Rows -> Row]
    <3>1. CASE Rows = {}
      <4>1. View(h) = [r \in Rows |-> IF r \in DOMAIN op[h].mine THEN op[h].mine[r] ELSE bal[r]]
        BY DEF View
      <4> QED
        BY <3>1, <4>1
    <3>2. CASE Rows # {}
      BY <2>2, <3>2
    <3> QED
      BY <3>1, <3>2
  <2> QED
    BY <2>1, <2>2, <2>3
<1>2. BalancesSound' /\ DaysInOnePlace' /\ BalanceExplained'
  BY <1>1, RowsStay DEF LegacyInv
<1>3. ASSUME NEW r \in Rows, NEW p \in Dates
      PROVE  bal'[r].credits[p] <= 1 /\ (bal'[r].credits[p] > 0 => p \in runs')
  <2>1. bal'[r].credits[p] <= bal[r].credits[p] + (IF p = o.period /\ r \notin Range(o.credit) THEN 1 ELSE 0)
    BY <1>1, ShownSound
  <2>2. bal[r].credits[p] \in Nat /\ bal'[r].credits[p] \in Nat
    BY <1>1, RowFields DEF LegacyInv, LegacyMade
  <2>3. bal[r].credits[p] <= 1 /\ (bal[r].credits[p] > 0 => p \in runs)
    BY DEF LegacyInv, CreditsRecorded
  <2>4. CASE p = o.period
    <3>1. bal[r].credits[p] = 0
      BY <2>2, <2>3, <2>4
    <3>2. bal'[r].credits[p] <= 1
      BY <2>1, <2>2, <3>1
    <3> QED
      BY <2>4, <3>2
  <2>5. CASE p # o.period
    <3>1. bal'[r].credits[p] <= bal[r].credits[p]
      BY <2>1, <2>2, <2>5
    <3> QED
      BY <2>2, <2>3, <3>1
  <2> QED
    BY <2>4, <2>5
<1>4. CreditsRecorded'
  BY <1>3 DEF CreditsRecorded
<1>5. ASSUME NEW g \in Runners \ {h}, Running(g)
      PROVE  /\ \A e \in op[g].staff : standing'[e] = "entitled"
             /\ \A r \in DOMAIN op[g].mine : bal'[r] = bal[r]
  <2>1. op[g] \in RunOps /\ RunSound(op[g])
    BY <1>5, OpKinds DEF LegacyInv, LegacyMade, RunsSound, Running
  <2>2. DOMAIN op[g].mine \subseteq Rows
    BY <2>1, RunFields
  <2>3. DOMAIN op[g].mine \cap DOMAIN o.mine = {}
    BY <1>5 DEF LegacyInv, RunsApart
  <2>4. \A r \in DOMAIN op[g].mine : Shown(o, r) = bal[r]
    BY <2>3 DEF Shown
  <2> QED
    BY <1>1, <2>1, <2>2, <2>4 DEF RunSound
<1>6. \A g \in Runners : op'[g] = IF g = h THEN m ELSE op[g]
  BY DEF LegacyInv, LegacyMade
<1>7. RunsSound'
  <2>1. \A g \in Runners \cap {h} : (Running(g) => RunSound(op[g]))'
    BY <1>6 DEF Running
  <2>2. LegacyMade /\ RunsSound /\ \A g \in Runners \ {h} : op'[g] = op[g]
    BY <1>6 DEF LegacyInv
  <2>3. \A r \in Rows : bal[r].there => bal'[r].there
    BY <1>1
  <2> QED
    BY <1>5, <2>1, <2>2, <2>3, RunsStay
<1>8. op' \in [Runners -> Ops] /\ RunsApart' /\ LockHeld'
  <2>1. Catching(m) => HadLock(lock', h)
    BY DEF Catching, Running, LegacyInv, LockHeld
  <2>2. \A g \in Runners \ {h} : Catching(op[g]) => HadLock(lock', g)
    BY DEF LegacyInv, LockHeld
  <2> QED
    BY <2>1, <2>2, OpsMove
<1>9. LegacyMade'
  <2>1. o.period \in Dates
    BY <1>1, RunFields
  <2> QED
    BY <1>1, <1>8, <2>1 DEF LegacyInv, LegacyMade
<1> QED
  BY <1>2, <1>4, <1>7, <1>8, <1>9 DEF LegacyInv

LEMMA FinishRunKeeps ==
    ASSUME LegacyInv, NEW h \in Runners, FinishRun(h)
    PROVE  LegacyInv'
<1>1. PICK o : o = op[h]
  OBVIOUS
<1>2. Running(h) /\ UNCHANGED <<outcome, standing, anchor, today, changes>>
  BY DEF FinishRun
<1>3. o \in RunOps /\ o.kind = "run" /\ o.left \subseteq Dates
  <2>1. o \in RunOps
    BY <1>1, <1>2, OpKinds DEF LegacyInv, LegacyMade, Running
  <2> QED
    BY <2>1, RunFields
<1>4. Idle \in Ops /\ Idle.kind = "idle" /\ ~Catching(Idle)
  BY DEF Ops, Idle, Catching
<1>5. CASE o.period \in runs
  <2>1. /\ bal' = bal /\ runs' = runs /\ op' = [op EXCEPT ![h] = Idle]
        /\ lock' = IF o.scheduled THEN Freed(h) ELSE lock
    BY <1>1, <1>5 DEF FinishRun, Recorded
  <2>2. ASSUME NEW g \in Runners \ {h}, Catching(op[g]) PROVE HadLock(lock', g)
    <3>1. HadLock(lock, g) /\ HadLock(Freed(h), g)
      BY <2>2, FreedLock DEF LegacyInv, LockHeld
    <3> QED
      BY <2>1, <3>1
  <2>3. lock' \in LockRow /\ changes' \in 0..MaxChanges
    BY <1>2, <2>1, FreedLock DEF LegacyInv, LegacyMade
  <2> QED
    BY <1>2, <1>4, <2>1, <2>2, <2>3, RunMoves
<1>6. CASE o.period \notin runs
  <2>1. PICK m : m = IF o.scheduled THEN [kind |-> "scan", left |-> o.left] ELSE Idle
    OBVIOUS
  <2>2. /\ bal' = View(h) /\ runs' = runs \cup {o.period} /\ op' = [op EXCEPT ![h] = m]
        /\ lock' = lock
    BY <1>1, <1>6, <2>1 DEF FinishRun, Recorded
  <2>3. m \in Ops /\ m.kind # "run" /\ (Catching(m) => o.scheduled)
    <3>1. CASE o.scheduled
      BY <1>3, <2>1, <3>1 DEF Ops, ScanOps
    <3>2. CASE ~o.scheduled
      BY <1>4, <2>1, <3>2
    <3> QED
      BY <3>1, <3>2
  <2> QED
    BY <1>1, <1>2, <1>6, <2>2, <2>3, CommitKeeps
<1> QED
  BY <1>5, <1>6

-----------------------------------------------------------------------------
LEMMA LegacyInvStep == LegacyInv /\ [LegacyNext]_legacyVars => LegacyInv'
<1> SUFFICES ASSUME LegacyInv, [LegacyNext]_legacyVars PROVE LegacyInv'
  OBVIOUS
<1>1. CASE UNCHANGED legacyVars
  BY <1>1, StandingKeeps DEF legacyVars, LegacyInv, LegacyMade
<1>2. CASE \E a \in Apps : Cancel(a) \/ \E decision \in {"approved", "rejected"} : Decide(a, decision)
  BY <1>2, CancelKeeps, DecideKeeps
<1>3. CASE \E r \in Rows, delta \in Amounts : Adjust(r, delta)
  BY <1>3, AdjustKeeps
<1>4. CASE \E e \in Newcomers, i \in DOMAIN Types, target \in Amounts : Import(e, Types[i], target)
  BY <1>4, ImportKeeps
<1>5. CASE \E e \in Employees, s \in Standings : SetStanding(e, s)
  BY <1>5, SetStandingKeeps
<1>6. CASE \E d \in Anchors \cup {None} : SetAnchor(d)
  BY <1>6, SetAnchorKeeps
<1>7. CASE NextDay
  BY <1>7, NextDayKeeps
<1>8. CASE \E h \in Runners : Wake(h) \/ AbortRun(h) \/ LoseLock(h)
  BY <1>8, WakeKeeps, AbortRunKeeps, LoseLockKeeps
<1>9. CASE \E h \in Runners : Step(h)
  BY <1>9, ScanDueKeeps, ReadCreditKeeps, WriteCreditKeeps, ResetKeeps, FinishRunKeeps DEF Step
<1>10. CASE \E h \in Runners : \E p \in HandDates : StartByHand(h, p)
  BY <1>10, StartByHandKeeps
<1>11. CASE \E h \in Runners : \E g \in Runners \ {h} : BreakDeadlock(h, g)
  BY <1>11, BreakDeadlockKeeps
<1> QED
  BY <1>1, <1>2, <1>3, <1>4, <1>5, <1>6, <1>7, <1>8, <1>9, <1>10, <1>11 DEF LegacyNext

\* The inductive invariant entails what the run checks.
LEMMA LegacyInvEntails == LegacyInv => AccrualInv
<1> SUFFICES ASSUME LegacyInv PROVE AccrualInv
  OBVIOUS
<1>1. LegacyTypes
  <2>1. ASSUME NEW h \in Runners, Running(h)
        PROVE  /\ DOMAIN op[h].mine \subseteq Rows /\ \A r \in DOMAIN op[h].mine : op[h].mine[r] \in Row
               /\ op[h].read \in Int \cup {None}
    <3>1. op[h] \in RunOps
      BY <2>1, OpKinds DEF LegacyInv, LegacyMade, Running
    <3> QED
      BY <3>1, RunFields
  <2> QED
    BY <2>1 DEF LegacyInv, LegacyMade, LegacyTypes, LockRow
<1>2. NoDateCreditedTwice
  BY DEF LegacyInv, CreditsRecorded, NoDateCreditedTwice
<1>3. OneSchedulerAtATime
  <2> DEFINE S == {h \in Runners \ lock.orphans : op[h].kind = "scan" \/ (Running(h) /\ op[h].scheduled)}
  <2>1. \A h \in S : lock.holder = h
    BY DEF LegacyInv, LockHeld, HadLock, Catching, Running
  <2>2. S \subseteq {lock.holder}
    BY <2>1
  <2>3. IsFiniteSet({lock.holder}) /\ Cardinality({lock.holder}) = 1
    BY FS_Singleton
  <2>4. Cardinality(S) <= 1
    BY <2>2, <2>3, FS_Subset
  <2> QED
    BY <2>4 DEF OneSchedulerAtATime
<1> QED
  BY <1>1, <1>2, <1>3 DEF LegacyInv, AccrualInv

\* Whatever interleaves with the accrual runs of legacy leave - decisions, cancellations,
\* adjustments, imports, other runs by hand, timer and cron, crashes, deadlocks, lost locks - the days of a
\* pending application are held once and those of a granted one taken once, a balance is what its
\* adjustments explain, and no period is credited twice.
THEOREM AccrualAlways == LegacySpec => []AccrualInv
<1>1. LegacySpec => []LegacyInv
  BY LegacyInvInit, LegacyInvStep, PTL DEF LegacySpec
<1> QED
  BY <1>1, LegacyInvEntails, PTL
=============================================================================
