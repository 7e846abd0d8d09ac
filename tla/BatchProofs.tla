---------------------------- MODULE BatchProofs -----------------------------
(***************************************************************************)
(* Theorems about BatchWorkflow, for every set of accounts, batches, PD    *)
(* numbers and handlers and every value of the bounds; and about the files *)
(* of batches, AbaFile, for every set of drafts, changes and blacklists,   *)
(* with any number of transactions, and for every width of the fields.     *)
(***************************************************************************)
EXTENDS BatchFiles, ArithmeticFacts, SequenceTheorems, FiniteSetTheorems, TLAPS

-----------------------------------------------------------------------------
(* The day's last code exists *)

\* The place of a number in the order of text is itself a number.
LEMMA RankIsNatural ==
    ASSUME NEW n \in Nat
    PROVE  TextRank(n) \in Nat
<1>1. Base \in Nat
  BY BoundsAssumption
<1>2. \A k \in Nat : k * Base \in Nat
  BY <1>1
<1>3. QED
  BY <1>2 DEF TextRank

\* Numbers whose places in that order are bounded have a last one.
LEMMA LastInOrder ==
    ASSUME NEW S \in SUBSET Nat, S # {}, NEW N \in Nat, \A m \in S : TextRank(m) <= N
    PROVE  \E n \in S : \A m \in S : TextRank(m) <= TextRank(n)
<1> DEFINE T == {N - TextRank(m) : m \in S}
<1>1. \A m \in S : TextRank(m) \in Nat
  BY RankIsNatural
<1>2. T \in SUBSET Nat /\ T # {}
  <2>1. ASSUME NEW v \in Nat, v <= N PROVE N - v \in Nat
    BY <2>1
  <2>2. \A m \in S : N - TextRank(m) \in Nat
    BY <1>1, <2>1
  <2>3. QED
    BY <2>2
<1>3. PICK k \in T : \A j \in T : k <= j
  BY <1>2, LeastNatural
<1>4. PICK n \in S : k = N - TextRank(n)
  BY <1>3
<1>5. \A m \in S : N - TextRank(n) <= N - TextRank(m)
  BY <1>3, <1>4
<1>6. QED
  BY <1>1, <1>5

\* The codes in a table are bounded in the order of text.
Below(t, N) == \A b \in DOMAIN t : TextRank(t[b].code.seq) <= N

Numbered == \E N \in Nat : Below(live, N) /\ Below(hist, N) /\ Below(archive, N)

\* What a row's columns hold.
LEMMA RowFields ==
    ASSUME NEW t, IsTable(t), NEW b \in DOMAIN t
    PROVE  /\ b \in Batches /\ t[b] \in Row
           /\ t[b].code \in Code /\ t[b].code.seq \in Nat /\ t[b].code.day \in Nat
           /\ t[b].stage \in Stages /\ t[b].owner \in Users /\ t[b].file \in File
           /\ t[b].type \in {"aba", "public_health"}
  BY DEF IsTable, Row, Code

\* The number a submission tries first is a number.
LEMMA NextSequenceIsNatural ==
    ASSUME TypeOK, Numbered
    PROVE  NextSequence \in Nat
<1> DEFINE taken == {x.code.seq : x \in {y \in Combined : y.code.day = today}}
<1>1. PICK N \in Nat : Below(live, N) /\ Below(hist, N) /\ Below(archive, N)
  BY DEF Numbered
<1>2. \A x \in Combined : x.code.seq \in Nat /\ TextRank(x.code.seq) <= N
  BY <1>1, RowFields DEF Combined, Below, TypeOK
<1>3. taken \in SUBSET Nat /\ \A m \in taken : TextRank(m) <= N
  BY <1>2
<1>4. CASE taken = {}
  BY <1>4 DEF NextSequence
<1>5. CASE taken # {}
  <2> DEFINE last == CHOOSE n \in taken : \A m \in taken : TextRank(m) <= TextRank(n)
  <2>1. \E n \in taken : \A m \in taken : TextRank(m) <= TextRank(n)
    BY <1>3, <1>5, LastInOrder
  <2>2. last \in taken
    BY <2>1
  <2>3. last \in Nat
    BY <1>3, <2>2
  <2>4. NextSequence = 1 + last
    BY <1>5 DEF NextSequence
  <2>5. QED
    BY <2>3, <2>4
<1>6. QED
  BY <1>4, <1>5

-----------------------------------------------------------------------------
(* Types *)

\* An operation in progress carries the fields its kind has.
LEMMA OpFields ==
    ASSUME NEW o \in Op
    PROVE  /\ o.kind \in {"number", "insert"} => o.form \in Form
           /\ o.kind = "insert" => o.seq \in Nat /\ o.attempt \in Nat /\ o.since \in Nat
           /\ o.kind \in {"insert", "stage", "amend", "review"} => o.batch \in Batches
           /\ o.kind \in {"stage", "amend"} => o.actor \in Users
           /\ o.kind = "stage" => o.target \in {"approved", "rejected"}
           /\ o.kind = "amend" => o.file \in File /\ o.stage \in Stages
           /\ o.kind = "review" => o.entry \in Review
  BY DEF Op, Idle

\* Rows that are inserted or changed are rows.
LEMMA RowsMade ==
    /\ \A b \in Batches, f \in Form, c \in Code : Submitted(b, f, c) \in Row
    /\ \A x \in Row, s \in Stages : Restaged(x, s) \in Row
    /\ \A x \in Row, g \in File : [x EXCEPT !.file = g] \in Row
    /\ \A x \in Row, d \in 0..MaxDate : [x.file EXCEPT !.date = d] \in File
<1>1. 0 \in 0..MaxDate
  BY BoundsAssumption
<1>2. \A b \in Batches : [pay |-> b, date |-> 0] \in File
  BY <1>1 DEF File
<1>3. \A b \in Batches, f \in Form, c \in Code : Submitted(b, f, c) \in Row
  <2> SUFFICES ASSUME NEW b \in Batches, NEW f \in Form, NEW c \in Code
               PROVE  Submitted(b, f, c) \in Row
    OBVIOUS
  <2>1. /\ f.type \in {"aba", "public_health"} /\ f.owner \in Users /\ f.pd \in PDs
        /\ (IF f.root = None THEN b ELSE f.root) \in Batches
    BY DEF Form
  <2>2. QED
    BY <1>2, <2>1 DEF Submitted, Row, Stages
<1>4. \A x \in Row, s \in Stages : Restaged(x, s) \in Row
  BY DEF Restaged, Row
<1>5. \A x \in Row, g \in File : [x EXCEPT !.file = g] \in Row
  BY DEF Row
<1>6. \A x \in Row, d \in 0..MaxDate : [x.file EXCEPT !.date = d] \in File
  BY DEF Row, File
<1>7. QED
  BY <1>3, <1>4, <1>5, <1>6

\* Tables with a row put in, with rows taken out, and two tables joined.
LEMMA TablesMade ==
    ASSUME NEW t, IsTable(t)
    PROVE  /\ \A b \in Batches, x \in Row : IsTable(Put(t, b, x))
           /\ \A S : IsTable(Without(t, S))
           /\ \A s : IsTable(s) => IsTable([b \in DOMAIN t \cup DOMAIN s |->
                                              IF b \in DOMAIN s THEN s[b] ELSE t[b]])
  BY DEF IsTable, Put, Without

\* A larger bound is a bound.
LEMMA BelowWider ==
    ASSUME NEW t, IsTable(t), NEW N \in Nat, NEW M \in Nat, N <= M, Below(t, N)
    PROVE  Below(t, M)
<1> SUFFICES ASSUME NEW b \in DOMAIN t
             PROVE  TextRank(t[b].code.seq) <= M
  BY DEF Below
<1>1. TextRank(t[b].code.seq) \in Nat /\ TextRank(t[b].code.seq) <= N
  BY RowFields, RankIsNatural DEF Below
<1>2. QED
  BY <1>1

\* A table with one more row has a bound, no smaller.
LEMMA BelowPut ==
    ASSUME NEW t, IsTable(t), NEW N \in Nat, Below(t, N),
           NEW b, NEW x, TextRank(x.code.seq) \in Nat
    PROVE  \E M \in Nat : N <= M /\ Below(Put(t, b, x), M)
<1>1. PICK M \in Nat : N <= M /\ TextRank(x.code.seq) <= M
  <2>1. CASE TextRank(x.code.seq) <= N
    BY <2>1
  <2>2. CASE ~(TextRank(x.code.seq) <= N)
    BY <2>2
  <2>3. QED
    BY <2>1, <2>2
<1>2. Below(t, M)
  BY <1>1, BelowWider
<1>3. Below(Put(t, b, x), M)
  BY <1>1, <1>2 DEF Below, Put
<1>4. QED
  BY <1>1, <1>3

\* The same batches with the same codes are as bounded as before.
LEMMA BelowKept ==
    ASSUME NEW s, NEW t, NEW N, Below(s, N), DOMAIN t \subseteq DOMAIN s,
           \A b \in DOMAIN t : t[b].code = s[b].code
    PROVE  Below(t, N)
  BY DEF Below

\* A batch that a stage transaction has locked is in the live table.
HeldRows == \A h \in Handlers : op[h].kind = "stage" => op[h].batch \in DOMAIN live

TypeInv == TypeOK /\ Numbered /\ HeldRows

\* The empty tables have their types.
LEMMA TypeInit == Init => TypeInv
<1> SUFFICES ASSUME Init PROVE TypeInv
  OBVIOUS
<1>1. DOMAIN Empty = {}
  BY DEF Empty
<1>2. IsTable(Empty)
  BY DEF Empty, IsTable
<1>3. Below(Empty, 0)
  BY <1>1 DEF Below
<1>4. Numbered
  BY <1>3 DEF Init, Numbered
<1>5. TypeOK
  BY <1>2 DEF Init, TypeOK, Op
<1>6. HeldRows
  BY DEF Init, HeldRows, Idle
<1>7. QED
  BY <1>4, <1>5, <1>6 DEF TypeInv

\* Types, and the bound on the codes, through every step.
LEMMA TypeStep ==
    ASSUME TypeInv, [Next]_vars
    PROVE  TypeInv'
<1> DEFINE Goal == TypeInv'
<1> USE DEF TypeInv
<1>0. /\ \A h \in Handlers : op[h] \in Op
      /\ op \in [Handlers -> Op]
      /\ IsTable(live) /\ IsTable(hist) /\ IsTable(archive)
  BY DEF TypeOK
<1>1. PICK N \in Nat : Below(live, N) /\ Below(hist, N) /\ Below(archive, N)
  BY DEF Numbered
\* A step that leaves the tables alone and gives one handler something to do.
<1>2. ASSUME NEW h \in Handlers, NEW o \in Op, op' = [op EXCEPT ![h] = o],
             UNCHANGED <<live, hist, archive, today, inserted>>,
             reviews' \in [Batches -> SUBSET Review],
             born' \subseteq Batches,
             o.kind = "stage" => o.batch \in DOMAIN live
      PROVE  Goal
  <2>1. op' \in [Handlers -> Op] /\ \A g \in Handlers : op'[g] = IF g = h THEN o ELSE op[g]
    BY <1>0, <1>2
  <2>2. TypeOK'
    BY <1>2, <2>1 DEF TypeOK, IsTable
  <2>3. Numbered'
    BY <1>1, <1>2 DEF Numbered, Below
  <2>4. HeldRows'
    BY <1>2, <2>1 DEF HeldRows
  <2>5. QED
    BY <2>2, <2>3, <2>4
<1>3. /\ Idle \in Op /\ Idle.kind = "idle"

      /\ reviews \in [Batches -> SUBSET Review] /\ born \subseteq Batches
      /\ today \in Nat /\ inserted \in Nat
  BY DEF Op, Idle, TypeOK
\* A step that replaces the live table by one as bounded.
<1>4. ASSUME NEW h \in Handlers, NEW o \in Op, op' = [op EXCEPT ![h] = o],
             IsTable(live'), NEW M \in Nat, N <= M, Below(live', M),
             UNCHANGED <<hist, archive, today, born>>, inserted' \in Nat,
             reviews' \in [Batches -> SUBSET Review], o.kind # "stage",
             \A g \in Handlers : op[g].kind = "stage" => op[g].batch \in DOMAIN live'
      PROVE  Goal
  <2>1. op' \in [Handlers -> Op] /\ \A g \in Handlers : op'[g] = IF g = h THEN o ELSE op[g]
    BY <1>0, <1>4
  <2>2. TypeOK'
    BY <1>3, <1>4, <2>1 DEF TypeOK, IsTable
  <2>3. Below(hist, M) /\ Below(archive, M)
    BY <1>0, <1>1, <1>4, BelowWider
  <2>4. Below(hist', M) /\ Below(archive', M)
    BY <1>4, <2>3
  <2>5. HeldRows'
    BY <1>4, <2>1 DEF HeldRows
  <2>6. QED
    BY <1>4, <2>2, <2>4, <2>5 DEF Numbered
<1> HIDE DEF Goal
<1>5. ASSUME NEW h \in Handlers, NEW f \in Form, CheckPd(h, f)
      PROVE  Goal
  <2>1. [kind |-> "number", form |-> f] \in Op
    BY DEF Op
  <2>2. QED
    BY <1>2, <1>3, <1>5, <2>1 DEF CheckPd, Begin
<1>6. ASSUME NEW h \in Handlers, NEW b \in Batches, ReadSequence(h, b)
      PROVE  Goal
  <2>1. op[h].form \in Form
    BY <1>0, <1>6, OpFields DEF ReadSequence
  <2>2. [kind |-> "insert", form |-> op[h].form, batch |-> b,
         seq |-> NextSequence, attempt |-> 0, since |-> inserted] \in Op
    BY <1>3, <2>1, NextSequenceIsNatural DEF Op
  <2>3. QED
    BY <1>2, <1>3, <1>6, <2>2 DEF ReadSequence, Continue
<1>7. ASSUME NEW h \in Handlers, InsertBatch(h)
      PROVE  Goal
  <2> DEFINE b == op[h].batch
             c == [day |-> today, seq |-> op[h].seq]
             f == op[h].form
             x == Submitted(b, f, c)
             o == [kind |-> "review", batch |-> b,
                   entry |-> [act |-> "submit", by |-> f.owner, stage |-> "submitted"]]
  <2>1. op[h].kind = "insert" /\ live' = Put(live, b, x) /\ op' = [op EXCEPT ![h] = o]
        /\ inserted' = inserted + 1 /\ UNCHANGED <<hist, reviews, archive, today, born>>
    BY <1>7 DEF InsertBatch, Continue
  <2>2. b \in Batches /\ f \in Form /\ op[h].seq \in Nat
    BY <1>0, <2>1, OpFields
  <2>3. c \in Code /\ x \in Row
    BY <1>3, <2>2, RowsMade DEF Code
  <2>4. o \in Op
    BY <2>2 DEF Op, Review, Form, Stages
  <2>5. IsTable(live')
    BY <1>0, <2>1, <2>2, <2>3, TablesMade
  <2>6. TextRank(x.code.seq) \in Nat
    BY <2>2, RankIsNatural DEF Submitted
  <2>7. PICK M \in Nat : N <= M /\ Below(Put(live, b, x), M)
    BY <1>0, <1>1, <2>6, BelowPut
  <2>8. Below(live', M)
    BY <2>1, <2>7
  <2>9. inserted' \in Nat /\ reviews' \in [Batches -> SUBSET Review]
    BY <1>3, <2>1
  <2>10. \A g \in Handlers : op[g].kind = "stage" => op[g].batch \in DOMAIN live'
    BY <2>1 DEF HeldRows, Put
  <2>11. o.kind # "stage"
    OBVIOUS
  <2>12. QED
    BY <1>4, <2>1, <2>4, <2>5, <2>7, <2>8, <2>9, <2>10, <2>11
<1>8. ASSUME NEW h \in Handlers, RetryInsert(h)
      PROVE  Goal
  <2> DEFINE o == [op[h] EXCEPT !.seq = op[h].seq + 1, !.attempt = op[h].attempt + 1]
  <2>1. op[h].kind = "insert"
    BY <1>8 DEF RetryInsert
  <2>2. op[h].seq + 1 \in Nat /\ op[h].attempt + 1 \in Nat
    BY <1>0, <2>1, OpFields
  <2>3. \A v, w \in Nat : [op[h] EXCEPT !.seq = v, !.attempt = w] \in Op
    BY <1>0, <2>1 DEF Op, Idle
  <2>4. o \in Op /\ o.kind # "stage"
    <3>1. \A v, w \in Nat : [op[h] EXCEPT !.seq = v, !.attempt = w].kind # "stage"
      BY <1>0, <2>1 DEF Op, Idle
    <3>2. QED
      BY <2>2, <2>3, <3>1
  <2>5. op' = [op EXCEPT ![h] = o]
        /\ UNCHANGED <<live, hist, reviews, archive, today, born, inserted>>
    BY <1>8 DEF RetryInsert, Continue
  <2> HIDE DEF o
  <2>6. QED
    BY <1>2, <1>3, <2>4, <2>5
<1>9. ASSUME NEW h \in Handlers, WriteReview(h)
      PROVE  Goal
  <2>1. op[h].batch \in Batches /\ op[h].entry \in Review
    BY <1>0, <1>9, OpFields DEF WriteReview
  <2>2. reviews' \in [Batches -> SUBSET Review]
    BY <1>3, <1>9, <2>1 DEF WriteReview
  <2>3. QED
    BY <1>2, <1>3, <1>9, <2>2 DEF WriteReview, End
<1>11. ASSUME NEW h \in Handlers, NEW b \in Batches, NEW u \in Users,
              NEW target \in {"approved", "rejected"}, LockForStage(h, b, u, target)
       PROVE  Goal
  <2>1. [kind |-> "stage", batch |-> b, actor |-> u, target |-> target] \in Op
    BY DEF Op
  <2>2. QED
    BY <1>2, <1>3, <1>11, <2>1 DEF LockForStage, Begin
<1>12. ASSUME NEW h \in Handlers, CommitStage(h)
       PROVE  Goal
  <2> DEFINE b == op[h].batch
             target == op[h].target
  <2>1. op[h].kind = "stage" /\ live' = Put(live, b, Restaged(live[b], target))
        /\ op' = [op EXCEPT ![h] = Idle]
        /\ UNCHANGED <<hist, archive, today, born, inserted>>
        /\ reviews' = [reviews EXCEPT ![b] = @ \cup
                         {[act |-> "decide", by |-> op[h].actor, stage |-> target]}]
    BY <1>12 DEF CommitStage, End
  <2>2. b \in Batches /\ op[h].actor \in Users /\ target \in Stages
    BY <1>0, <2>1, OpFields DEF Stages
  <2>3. Restaged(live[b], target) \in Row /\ b \in DOMAIN live
    BY <1>0, <2>1, <2>2, RowFields, RowsMade DEF HeldRows
  <2>4. IsTable(live') /\ DOMAIN live' = DOMAIN live
    <3>1. IsTable(live')
      BY <1>0, <2>1, <2>2, <2>3, TablesMade
    <3>2. DOMAIN live' = DOMAIN live
      BY <2>1, <2>3 DEF Put
    <3>3. QED
      BY <3>1, <3>2
  <2>5. Restaged(live[b], target).code = live[b].code
    BY <1>0, <2>3, RowFields DEF Restaged, Row
  <2>6. \A c \in DOMAIN live' : live'[c].code = live[c].code
    BY <2>1, <2>4, <2>5 DEF Put
  <2>7. Below(live', N)
    BY <1>1, <2>4, <2>6, BelowKept
  <2>8. reviews' \in [Batches -> SUBSET Review]
    <3>1. [act |-> "decide", by |-> op[h].actor, stage |-> target] \in Review
      BY <2>2 DEF Review
    <3>2. QED
      BY <1>3, <2>1, <2>2, <3>1
  <2>9. \A g \in Handlers : op[g].kind = "stage" => op[g].batch \in DOMAIN live'
    BY <2>4 DEF HeldRows
  <2>10. inserted' \in Nat /\ N <= N /\ UNCHANGED <<hist, archive, today, born>>
    BY <1>3, <2>1
  <2>11. QED
    BY <1>3, <1>4, <2>1, <2>4, <2>7, <2>8, <2>9, <2>10
<1>13. ASSUME NEW h \in Handlers, NEW b \in Batches, NEW u \in Users,
              NEW date \in 0..MaxDate, ReadForAmend(h, b, u, date)
       PROVE  Goal
  <2> DEFINE o == [kind |-> "amend", batch |-> b, actor |-> u, code |-> live[b].code,
                   stage |-> live[b].stage, file |-> [live[b].file EXCEPT !.date = date]]
  <2>1. b \in DOMAIN live
    BY <1>13 DEF ReadForAmend
  <2>2. [live[b].file EXCEPT !.date = date] \in File
    BY <1>0, <2>1, RowFields, RowsMade
  <2>3. o \in Op /\ o.kind # "stage"
    BY <1>0, <2>1, <2>2, RowFields DEF Op
  <2>4. op' = [op EXCEPT ![h] = o]
        /\ UNCHANGED <<live, hist, reviews, archive, today, born, inserted>>
    BY <1>13 DEF ReadForAmend, Begin
  <2> HIDE DEF o
  <2>5. QED
    BY <1>2, <1>3, <2>3, <2>4
<1>14. ASSUME NEW h \in Handlers, WriteAmend(h)
       PROVE  Goal
  <2> DEFINE o == [kind |-> "review", batch |-> op[h].batch,
                   entry |-> [act |-> "amend", by |-> op[h].actor, stage |-> op[h].stage]]
  <2>1. op[h].kind = "amend" /\ op' = [op EXCEPT ![h] = o]
        /\ UNCHANGED <<hist, reviews, archive, today, born, inserted>>
    BY <1>14 DEF WriteAmend, Continue
  <2>2. op[h].batch \in Batches /\ op[h].actor \in Users /\ op[h].stage \in Stages
        /\ op[h].file \in File
    BY <1>0, <2>1, OpFields
  <2>3. o \in Op /\ o.kind # "stage"
    BY <2>2 DEF Op, Review
  <2>4. /\ DOMAIN live' = DOMAIN live
        /\ live' = [c \in DOMAIN live |-> live'[c]]
        /\ \A c \in DOMAIN live :
              live'[c] = live[c] \/ live'[c] = [live[c] EXCEPT !.file = op[h].file]
    BY <1>14 DEF WriteAmend
  <2>5. \A c \in DOMAIN live : live'[c] \in Row /\ live'[c].code = live[c].code
    <3>1. \A x \in Row : [x EXCEPT !.file = op[h].file].code = x.code
      BY DEF Row
    <3>2. \A x \in Row : [x EXCEPT !.file = op[h].file] \in Row
      BY <2>2, RowsMade
    <3>3. \A c \in DOMAIN live : live[c] \in Row
      BY <1>0, RowFields
    <3>4. QED
      BY <2>4, <3>1, <3>2, <3>3
  <2>6. IsTable(live')
    BY <1>0, <2>4, <2>5 DEF IsTable
  <2>7. Below(live', N)
    BY <1>1, <2>4, <2>5, BelowKept
  <2>8. \A g \in Handlers : op[g].kind = "stage" => op[g].batch \in DOMAIN live'
    BY <2>4 DEF HeldRows
  <2>9. inserted' \in Nat /\ reviews' \in [Batches -> SUBSET Review] /\ N <= N
        /\ UNCHANGED <<hist, archive, today, born>>
    BY <1>3, <2>1
  <2> HIDE DEF o
  <2>10. QED
    BY <1>4, <2>1, <2>3, <2>6, <2>7, <2>8, <2>9
<1>16. ASSUME NEW h \in Handlers, Abandon(h)
       PROVE  Goal
  BY <1>2, <1>3, <1>16 DEF Abandon, End
\* A deletion, the archive script, the day and stuttering change no handler.
<1>17. ASSUME IsTable(live'), IsTable(hist'), IsTable(archive'), UNCHANGED <<op, reviews, born>>,
              today' \in Nat, inserted' \in Nat,
              Below(live', N), Below(hist', N), Below(archive', N),
              \A g \in Handlers : op[g].kind = "stage" => op[g].batch \in DOMAIN live'
       PROVE  Goal
  <2>1. TypeOK'
    BY <1>0, <1>3, <1>17 DEF TypeOK
  <2>2. Numbered' /\ HeldRows'
    BY <1>17 DEF Numbered, HeldRows
  <2>3. QED
    BY <2>1, <2>2 DEF Goal
<1>15. ASSUME NEW b \in Batches, DeleteBatch(b)
       PROVE  Goal
  <2>1. ~Locked(b) /\ live' = Without(live, {b})
        /\ UNCHANGED <<hist, reviews, op, archive, today, born, inserted>>
    BY <1>15 DEF DeleteBatch
  <2>2. IsTable(live') /\ DOMAIN live' = DOMAIN live \ {b}
    BY <1>0, <2>1, TablesMade DEF Without
  <2>3. Below(live', N)
    BY <1>1, <2>1 DEF Below, Without
  <2>4. \A g \in Handlers : op[g].kind = "stage" => op[g].batch \in DOMAIN live'
    BY <2>1, <2>2 DEF HeldRows, Locked
  <2>5. IsTable(hist') /\ IsTable(archive') /\ Below(hist', N) /\ Below(archive', N)
        /\ today' \in Nat /\ inserted' \in Nat
    BY <1>0, <1>1, <1>3, <2>1
  <2>6. QED
    BY <1>17, <2>1, <2>2, <2>3, <2>4, <2>5
<1>18. ASSUME ArchiveCopy
       PROVE  Goal
  <2> DEFINE old == {b \in DOMAIN live : live[b].code.day < today}
  <2>1. archive' = [b \in old |-> live[b]] /\ old \subseteq DOMAIN live
        /\ UNCHANGED <<live, hist, reviews, op, today, born, inserted>>
    BY <1>18 DEF ArchiveCopy
  <2> HIDE DEF old
  <2>2. IsTable(archive')
    BY <1>0, <2>1 DEF IsTable
  <2>3. Below(archive', N)
    BY <1>1, <2>1 DEF Below
  <2>4. IsTable(live') /\ IsTable(hist') /\ Below(live', N) /\ Below(hist', N)
        /\ today' \in Nat /\ inserted' \in Nat
        /\ \A g \in Handlers : op[g].kind = "stage" => op[g].batch \in DOMAIN live'
    BY <1>0, <1>1, <1>3, <2>1 DEF HeldRows
  <2>5. QED
    BY <1>17, <2>1, <2>2, <2>3, <2>4
<1>19. ASSUME ArchiveCommit
       PROVE  Goal
  <2>1. /\ \A b \in DOMAIN archive : ~Locked(b)
        /\ live' = Without(live, DOMAIN archive)
        /\ hist' = [b \in DOMAIN hist \cup DOMAIN archive |->
                      IF b \in DOMAIN archive THEN archive[b] ELSE hist[b]]
        /\ archive' = Empty
        /\ UNCHANGED <<reviews, op, today, born, inserted>>
    BY <1>19 DEF ArchiveCommit
  <2>2. IsTable(live') /\ IsTable(hist') /\ IsTable(archive')
    <3>1. IsTable(Empty)
      BY DEF Empty, IsTable
    <3>2. QED
      BY <1>0, <2>1, <3>1, TablesMade
  <2>3. Below(live', N)
    BY <1>1, <2>1 DEF Below, Without
  <2>4. Below(hist', N) /\ Below(archive', N)
    BY <1>1, <2>1 DEF Below, Empty
  <2>5. \A g \in Handlers : op[g].kind = "stage" => op[g].batch \in DOMAIN live'
    BY <2>1 DEF HeldRows, Locked, Without
  <2>6. QED
    BY <1>3, <1>17, <2>1, <2>2, <2>3, <2>4, <2>5
<1>20. ASSUME ArchiveRollback
       PROVE  Goal
  <2>1. archive' = Empty /\ UNCHANGED <<live, hist, reviews, op, today, born, inserted>>
    BY <1>20 DEF ArchiveRollback
  <2>2. IsTable(archive') /\ Below(archive', N)
    BY <2>1 DEF Empty, IsTable, Below
  <2>3. IsTable(live') /\ IsTable(hist') /\ Below(live', N) /\ Below(hist', N)
        /\ today' \in Nat /\ inserted' \in Nat
        /\ \A g \in Handlers : op[g].kind = "stage" => op[g].batch \in DOMAIN live'
    BY <1>0, <1>1, <1>3, <2>1 DEF HeldRows
  <2>4. QED
    BY <1>17, <2>1, <2>2, <2>3
<1>21. ASSUME UNCHANGED <<live, hist, reviews, op, archive, born>>,
              today' \in Nat, inserted' \in Nat
       PROVE  Goal
  <2>1. IsTable(live') /\ IsTable(hist') /\ IsTable(archive')
        /\ Below(live', N) /\ Below(hist', N) /\ Below(archive', N)
        /\ \A g \in Handlers : op[g].kind = "stage" => op[g].batch \in DOMAIN live'
    BY <1>0, <1>1, <1>21 DEF HeldRows
  <2>2. QED
    BY <1>17, <1>21, <2>1
<1>22. ASSUME NewDay PROVE Goal
  BY <1>3, <1>21, <1>22 DEF NewDay
<1>23. ASSUME UNCHANGED vars PROVE Goal
  BY <1>3, <1>21, <1>23 DEF vars
<1>24. Goal
  BY <1>5, <1>6, <1>7, <1>8, <1>9, <1>11, <1>12, <1>13, <1>14, <1>15, <1>16,
     <1>18, <1>19, <1>20, <1>22, <1>23 DEF Next
<1>25. QED
  BY <1>24 DEF Goal

\* Every table, handler and archive copy keeps its type through every call, and
\* the archive's and the administrator's removals spare locked rows.
THEOREM TypeCorrect == Spec => []TypeOK
<1>1. Spec => []TypeInv
  BY TypeInit, TypeStep, PTL DEF Spec
<1>2. TypeInv => TypeOK
  BY DEF TypeInv
<1>3. QED
  BY <1>1, <1>2, PTL

-----------------------------------------------------------------------------
(* Codes *)

\* A batch id that waits to be inserted is in no table and is no other
\* handler's, and every batch in a table was handed out.
Fresh ==
    /\ DOMAIN live \subseteq born /\ DOMAIN hist \subseteq born /\ DOMAIN archive \subseteq born
    /\ \A h \in Handlers : op[h].kind = "insert" =>
          /\ op[h].batch \in born
          /\ op[h].batch \notin DOMAIN live \cup DOMAIN hist \cup DOMAIN archive
    /\ \A g, h \in Handlers :
          op[g].kind = "insert" /\ op[h].kind = "insert" /\ op[g].batch = op[h].batch => g = h

\* Rows are dated no later than today, archived ones earlier.
Days ==
    /\ \A b \in DOMAIN live : live[b].code.day <= today
    /\ \A b \in DOMAIN hist : hist[b].code.day < today
    /\ \A b \in DOMAIN archive : archive[b].code.day < today

\* The codes of the archive's copies are each other's and the history's like
\* rows of one table, and a live row shares a copy's code only as its original.
ArchiveCopies ==
    \A b \in DOMAIN archive :
        /\ b \notin DOMAIN hist
        /\ \A c \in DOMAIN archive : archive[b].code = archive[c].code => b = c
        /\ \A c \in DOMAIN hist : archive[b].code # hist[c].code
        /\ \A c \in DOMAIN live : archive[b].code = live[c].code => b = c

CodeInv == Fresh /\ Days /\ ArchiveCopies /\ OneRowPerCode

\* Rows that are left keep the codes they had.
CodesKept(s, t) == DOMAIN t \subseteq DOMAIN s /\ \A b \in DOMAIN t : t[b].code = s[b].code

\* No table holds a code at the start.
LEMMA CodeInit == Init => CodeInv
  BY BoundsAssumption DEF Init, CodeInv, Fresh, Days, ArchiveCopies, OneRowPerCode, Empty, Idle

\* Codes through every step.
LEMMA CodeStep ==
    ASSUME TypeInv, CodeInv, [Next]_vars
    PROVE  CodeInv'
<1> DEFINE Goal == CodeInv'
<1> USE DEF CodeInv
<1>0. /\ op \in [Handlers -> Op]
      /\ IsTable(live) /\ IsTable(hist) /\ IsTable(archive)
      /\ today \in Nat
  BY DEF TypeInv, TypeOK
\* A step that inserts nothing and changes no code.
<1>1. ASSUME CodesKept(live, live'), UNCHANGED <<hist, archive, today, born>>,
             \A h \in Handlers : op'[h] = op[h] \/ op'[h].kind # "insert"
      PROVE  Goal
  <2>1. Fresh'
    BY <1>1 DEF Fresh, CodesKept
  <2>2. Days' /\ ArchiveCopies'
    BY <1>1 DEF Days, ArchiveCopies, CodesKept
  <2>3. OneRowPerCode'
    BY <1>1 DEF OneRowPerCode, CodesKept
  <2>4. QED
    BY <2>1, <2>2, <2>3
<1>2. CodesKept(live, live)
  BY DEF CodesKept
<1> HIDE DEF Goal
<1>3. ASSUME NEW h \in Handlers, NEW o, o.kind # "insert", op' = [op EXCEPT ![h] = o],
             CodesKept(live, live'), UNCHANGED <<hist, archive, today, born>>
      PROVE  Goal
  <2>1. \A g \in Handlers : op'[g] = op[g] \/ op'[g].kind # "insert"
    BY <1>0, <1>3
  <2>2. QED
    BY <1>1, <1>3, <2>1
<1>4. ASSUME NEW h \in Handlers, \E f \in Form : CheckPd(h, f)
      PROVE  Goal
  BY <1>2, <1>3, <1>4 DEF CheckPd, Begin
<1>5. ASSUME NEW h \in Handlers, NEW b \in Batches, ReadSequence(h, b)
      PROVE  Goal
  <2>1. /\ b \notin born /\ born' = born \cup {b}
        /\ \A g \in Handlers \ {h} : op'[g] = op[g]
        /\ op'[h].kind = "insert" /\ op'[h].batch = b
        /\ UNCHANGED <<live, hist, archive, today>>
    BY <1>0, <1>5 DEF ReadSequence, Continue
  <2>2. Fresh'
    BY <2>1 DEF Fresh
  <2>3. Days' /\ ArchiveCopies'
    BY <2>1 DEF Days, ArchiveCopies
  <2>4. OneRowPerCode'
    BY <2>1 DEF OneRowPerCode
  <2>5. QED
    BY <2>2, <2>3, <2>4 DEF Goal
<1>6. ASSUME NEW h \in Handlers, InsertBatch(h)
      PROVE  Goal
  <2> DEFINE b == op[h].batch
             c == [day |-> today, seq |-> op[h].seq]
             x == Submitted(b, op[h].form, c)
  <2>1. /\ op[h].kind = "insert" /\ ~CodeTaken(c) /\ live' = Put(live, b, x)
        /\ \A g \in Handlers \ {h} : op'[g] = op[g]
        /\ op'[h].kind # "insert"
        /\ UNCHANGED <<hist, archive, today, born>>
    BY <1>0, <1>6 DEF InsertBatch, Continue
  <2>2. b \in born /\ b \notin DOMAIN live /\ b \notin DOMAIN hist /\ b \notin DOMAIN archive
    BY <2>1 DEF Fresh
  <2>3. /\ DOMAIN live' = DOMAIN live \cup {b}
        /\ live'[b].code = c
        /\ \A d \in DOMAIN live : live'[d] = live[d]
    BY <2>1, <2>2 DEF Put, Submitted
  <2>4. /\ \A d \in DOMAIN live : live[d].code # c
        /\ \A d \in DOMAIN hist : hist[d].code.day < today
        /\ \A d \in DOMAIN archive : archive[d].code.day < today
    BY <2>1 DEF CodeTaken, Days
  <2>5. /\ \A d \in DOMAIN hist : hist[d].code # c
        /\ \A d \in DOMAIN archive : archive[d].code # c
    BY <1>0, <2>4, RowFields
  <2> HIDE DEF b, x
  <2>6. Fresh'
    BY <2>1, <2>2, <2>3 DEF Fresh, b
  <2>7. Days'
    BY <1>0, <2>1, <2>3 DEF Days
  <2> HIDE DEF c
  <2>8. ArchiveCopies'
    BY <2>1, <2>3, <2>5 DEF ArchiveCopies
  <2>9. OneRowPerCode'
    <3>1. DOMAIN live' \cap DOMAIN hist' = {}
      BY <2>1, <2>2, <2>3 DEF OneRowPerCode
    <3>2. \A d, e \in DOMAIN live' : live'[d].code = live'[e].code => d = e
      BY <2>3, <2>4 DEF OneRowPerCode
    <3>3. \A d \in DOMAIN live', e \in DOMAIN hist' : live'[d].code # hist'[e].code
      BY <2>1, <2>3, <2>5 DEF OneRowPerCode
    <3>4. QED
      BY <2>1, <3>1, <3>2, <3>3 DEF OneRowPerCode
  <2>10. QED
    BY <2>6, <2>7, <2>8, <2>9 DEF Goal
<1>7. ASSUME NEW h \in Handlers, RetryInsert(h)
      PROVE  Goal
  <2>1. /\ op[h].kind = "insert" /\ op[h] \in Op
        /\ \A g \in Handlers \ {h} : op'[g] = op[g]
        /\ op'[h] = [op[h] EXCEPT !.seq = op[h].seq + 1, !.attempt = op[h].attempt + 1]
        /\ UNCHANGED <<live, hist, archive, today, born>>
    BY <1>0, <1>7 DEF RetryInsert, Continue
  <2>2. op'[h].kind = "insert" /\ op'[h].batch = op[h].batch
    <3>1. \A v, w : LET o == [op[h] EXCEPT !.seq = v, !.attempt = w]
                    IN  o.kind = "insert" /\ o.batch = op[h].batch
      BY <2>1 DEF Op, Idle
    <3>2. QED
      BY <2>1, <3>1
  <2>3. \A g \in Handlers : op'[g].kind = "insert" =>
                              op[g].kind = "insert" /\ op'[g].batch = op[g].batch
    BY <2>1, <2>2
  <2>4. Fresh'
    BY <2>1, <2>3 DEF Fresh
  <2>5. Days' /\ ArchiveCopies'
    BY <2>1 DEF Days, ArchiveCopies
  <2>6. OneRowPerCode'
    BY <2>1 DEF OneRowPerCode
  <2>7. QED
    BY <2>4, <2>5, <2>6 DEF Goal
<1>8. Idle.kind # "insert"
  BY DEF Idle
<1>9. ASSUME NEW h \in Handlers, WriteReview(h) \/ Abandon(h)
      PROVE  Goal
  BY <1>2, <1>3, <1>8, <1>9 DEF WriteReview, Abandon, End
<1>10. ASSUME NEW h \in Handlers, NEW b \in Batches, NEW u \in Users,
              \/ \E target \in {"approved", "rejected"} : LockForStage(h, b, u, target)
              \/ \E date \in 0..MaxDate : ReadForAmend(h, b, u, date)
       PROVE  Goal
  BY <1>2, <1>3, <1>10 DEF LockForStage, ReadForAmend, Begin
<1>11. ASSUME NEW h \in Handlers, CommitStage(h)
       PROVE  Goal
  <2>1. op[h].batch \in DOMAIN live /\ live' = Put(live, op[h].batch, Restaged(live[op[h].batch], op[h].target))
        /\ op' = [op EXCEPT ![h] = Idle] /\ UNCHANGED <<hist, archive, today, born>>
    BY <1>11 DEF CommitStage, End, TypeInv, HeldRows
  <2>2. \A s : Restaged(live[op[h].batch], s).code = live[op[h].batch].code
    BY <1>0, <2>1, RowFields DEF Restaged, Row
  <2>3. CodesKept(live, live')
    BY <2>1, <2>2 DEF CodesKept, Put
  <2>4. QED
    BY <1>3, <1>8, <2>1, <2>3
<1>12. ASSUME NEW h \in Handlers, WriteAmend(h)
       PROVE  Goal
  <2>1. /\ DOMAIN live' = DOMAIN live
        /\ \A b \in DOMAIN live :
              live'[b] = live[b] \/ live'[b] = [live[b] EXCEPT !.file = op[h].file]
        /\ UNCHANGED <<hist, archive, today, born>>
    BY <1>12 DEF WriteAmend
  <2>2. \A x \in Row : \A v : [x EXCEPT !.file = v].code = x.code
    BY DEF Row
  <2>3. \A b \in DOMAIN live : live'[b].code = live[b].code
    <3>1. SUFFICES ASSUME NEW b \in DOMAIN live PROVE live'[b].code = live[b].code
      OBVIOUS
    <3>2. live[b] \in Row
      BY <1>0, RowFields
    <3>3. PICK v : live'[b] = live[b] \/ live'[b] = [live[b] EXCEPT !.file = v]
      BY <2>1
    <3>4. QED
      BY <2>2, <3>2, <3>3
  <2>4. CodesKept(live, live')
    BY <2>1, <2>3 DEF CodesKept
  <2>5. QED
    BY <1>3, <1>12, <2>1, <2>4 DEF WriteAmend, Continue
<1>13. ASSUME NEW b \in Batches, DeleteBatch(b)
       PROVE  Goal
  <2>1. CodesKept(live, live')
    BY <1>13 DEF DeleteBatch, CodesKept, Without
  <2>2. QED
    BY <1>1, <1>13, <2>1 DEF DeleteBatch
<1>14. ASSUME ArchiveCopy
       PROVE  Goal
  <2> DEFINE old == {b \in DOMAIN live : live[b].code.day < today}
  <2>1. /\ \A b \in old, d \in DOMAIN hist : hist[d].code # live[b].code
        /\ archive' = [b \in old |-> live[b]]
        /\ UNCHANGED <<live, hist, op, today, born>>
    BY <1>14 DEF ArchiveCopy
  <2>2. DOMAIN archive' \subseteq DOMAIN live
        /\ \A b \in DOMAIN archive' : archive'[b] = live[b] /\ live[b].code.day < today
    BY <2>1
  <2>3. \A b \in DOMAIN archive', d \in DOMAIN hist : archive'[b].code # hist[d].code
    BY <2>1
  <2> HIDE DEF old
  <2>4. Fresh'
    BY <2>1, <2>2 DEF Fresh
  <2>5. Days'
    BY <2>1, <2>2 DEF Days
  <2>6. ArchiveCopies'
    BY <2>1, <2>2, <2>3 DEF ArchiveCopies, OneRowPerCode
  <2>7. OneRowPerCode'
    BY <2>1 DEF OneRowPerCode
  <2>8. QED
    BY <2>4, <2>5, <2>6, <2>7 DEF Goal
<1>15. ASSUME ArchiveCommit
       PROVE  Goal
  <2>1. /\ DOMAIN live' = DOMAIN live \ DOMAIN archive
        /\ \A b \in DOMAIN live' : live'[b] = live[b]
        /\ DOMAIN hist' = DOMAIN hist \cup DOMAIN archive
        /\ \A b \in DOMAIN archive : hist'[b] = archive[b]
        /\ \A b \in DOMAIN hist \ DOMAIN archive : hist'[b] = hist[b]
        /\ DOMAIN archive' = {}
        /\ UNCHANGED <<op, today, born>>
    BY <1>15 DEF ArchiveCommit, Without, Empty
  <2>2. Fresh'
    BY <2>1 DEF Fresh
  <2>3. Days' /\ ArchiveCopies'
    BY <2>1 DEF Days, ArchiveCopies
  <2>4. DOMAIN live' \cap DOMAIN hist' = {}
    BY <2>1 DEF OneRowPerCode
  <2>5. \A b, c \in DOMAIN live' : live'[b].code = live'[c].code => b = c
    BY <2>1 DEF OneRowPerCode
  <2>6. \A b, c \in DOMAIN hist' : hist'[b].code = hist'[c].code => b = c
    BY <2>1 DEF OneRowPerCode, ArchiveCopies
  <2>7. \A b \in DOMAIN live', c \in DOMAIN hist' : live'[b].code # hist'[c].code
    BY <2>1 DEF OneRowPerCode, ArchiveCopies
  <2>8. QED
    BY <2>2, <2>3, <2>4, <2>5, <2>6, <2>7 DEF Goal, OneRowPerCode
<1>16. ASSUME ArchiveRollback
       PROVE  Goal
  <2>1. DOMAIN archive' = {} /\ UNCHANGED <<live, hist, op, today, born>>
    BY <1>16 DEF ArchiveRollback, Empty
  <2>2. QED
    BY <2>1 DEF Goal, Fresh, Days, ArchiveCopies, OneRowPerCode
<1>17. ASSUME NewDay
       PROVE  Goal
  <2>1. today' = today + 1 /\ UNCHANGED <<live, hist, op, archive, born>>
    BY <1>17 DEF NewDay
  <2>2. Fresh' /\ ArchiveCopies' /\ OneRowPerCode'
    BY <2>1 DEF Fresh, ArchiveCopies, OneRowPerCode
  <2>3. \A b \in DOMAIN live : live[b].code.day \in Nat
    BY <1>0, RowFields
  <2>4. \A b \in DOMAIN hist : hist[b].code.day \in Nat
    BY <1>0, RowFields
  <2>5. \A b \in DOMAIN archive : archive[b].code.day \in Nat
    BY <1>0, RowFields
  <2>6. Days'
    BY <1>0, <2>1, <2>3, <2>4, <2>5 DEF Days
  <2>7. QED
    BY <2>2, <2>6 DEF Goal
<1>18. ASSUME UNCHANGED vars
       PROVE  Goal
  BY <1>1, <1>2, <1>18 DEF vars
<1>19. Goal
  BY <1>4, <1>5, <1>6, <1>7, <1>9, <1>10, <1>11, <1>12, <1>13, <1>14, <1>15, <1>16,
     <1>17, <1>18 DEF Next
<1>20. QED
  BY <1>19 DEF Goal

\* Over the live table and the archive together a code names one batch: the
\* live column is UNIQUE and the archive holds earlier days only, so a code
\* that is free in the live table is free.
THEOREM CodesAreUnique == Spec => []OneRowPerCode
<1>1. TypeInv /\ CodeInv /\ [Next]_vars => (TypeInv /\ CodeInv)'
  BY TypeStep, CodeStep
<1>2. Init => TypeInv /\ CodeInv
  BY TypeInit, CodeInit
<1>3. TypeInv /\ CodeInv => OneRowPerCode
  BY DEF CodeInv
<1>4. QED
  BY <1>1, <1>2, <1>3, PTL DEF Spec

-----------------------------------------------------------------------------
(* Review *)

\* What a stage transaction checked still holds of the row it has locked, and
\* no other transaction has locked it.
StageHeld ==
    /\ \A h \in Handlers : op[h].kind = "stage" =>
          CanReview(op[h].actor) /\ MayMove(live[op[h].batch], op[h].actor, op[h].target)
    /\ \A g, h \in Handlers :
          op[g].kind = "stage" /\ op[h].kind = "stage" /\ op[g].batch = op[h].batch => g = h

\* A row that stands approved is a public health batch's, approved by another.
Backed(x, entries) ==
    x.stage = "approved" =>
        /\ x.type = "public_health"
        /\ \E e \in entries : /\ e.act = "decide" /\ e.stage = "approved"
                             /\ CanReview(e.by) /\ e.by # x.owner

\* The archive's copies are of rows that were backed: they will be history.
Approvals ==
    /\ \A b \in DOMAIN live : Backed(live[b], reviews[b])
    /\ \A b \in DOMAIN hist : Backed(hist[b], reviews[b])
    /\ \A b \in DOMAIN archive : Backed(archive[b], reviews[b])

ReviewInv == StageHeld /\ Approvals

\* Nothing is approved at the start.
LEMMA ReviewInit == Init => ReviewInv
  BY DEF Init, ReviewInv, StageHeld, Approvals, Empty, Idle

\* Only public health has an approval stage, and a departmental batch moves
\* from where it was submitted or approved.
LEMMA StageTable ==
    /\ \A t : \A s \in Stages : "approved" \in WorkflowStageTransitions(t)[s] => t = "public_health"
    /\ \A r : \A s \in Stages : r \in WorkflowStageTransitions("aba")[s] => s \in {"submitted", "approved"}
<1>1. ASSUME NEW t, NEW s \in Stages, "approved" \in WorkflowStageTransitions(t)[s]
      PROVE  t = "public_health"
  BY <1>1 DEF WorkflowStageTransitions, Stages
<1>2. ASSUME NEW s \in Stages, NEW r, r \in WorkflowStageTransitions("aba")[s]
      PROVE  s \in {"submitted", "approved"}
  BY <1>2 DEF WorkflowStageTransitions, Stages
<1>3. QED
  BY <1>1, <1>2

\* Rows that are left stand as they stood, and new ones do not stand approved.
RowsStand(s, t) ==
    \A b \in DOMAIN t :
        \/ b \in DOMAIN s /\ t[b].stage = s[b].stage /\ t[b].type = s[b].type /\ t[b].owner = s[b].owner
        \/ b \notin DOMAIN s /\ t[b].stage = "submitted"

\* Reviews through every step.
LEMMA ReviewStep ==
    ASSUME TypeInv, TypeInv', CodeInv, ReviewInv, [Next]_vars
    PROVE  ReviewInv'
<1> DEFINE Goal == ReviewInv'
<1>0. /\ op \in [Handlers -> Op] /\ \A h \in Handlers : op[h] \in Op
      /\ IsTable(live) /\ IsTable(hist) /\ IsTable(archive)
      /\ reviews \in [Batches -> SUBSET Review]
      /\ HeldRows /\ HeldRows' /\ Fresh /\ StageHeld /\ Approvals
  BY DEF TypeInv, TypeOK, CodeInv, ReviewInv
<1>1. RowsStand(live, live)
  BY DEF RowsStand
\* More reviews back what was backed.
<1>2. ASSUME \A b \in Batches : reviews[b] \subseteq reviews'[b]
      PROVE  \A x : \A b \in Batches : Backed(x, reviews[b]) => Backed(x, reviews'[b])
  BY <1>2 DEF Backed
<1>3. ASSUME RowsStand(live, live'), UNCHANGED <<hist, archive>>,
             \A b \in Batches : reviews[b] \subseteq reviews'[b],
             \A h \in Handlers : op'[h] = op[h] \/ op'[h].kind # "stage"
      PROVE  Goal
  <2>1. \A h \in Handlers : op'[h].kind = "stage" =>
            op'[h] = op[h] /\ op[h].batch \in DOMAIN live /\ op[h].batch \in DOMAIN live'
    BY <1>0, <1>3 DEF HeldRows
  <2>2. StageHeld'
    BY <1>0, <1>3, <2>1 DEF StageHeld, MayMove, RowsStand
  <2>3. \A x : \A b \in Batches : Backed(x, reviews[b]) => Backed(x, reviews'[b])
    BY <1>2, <1>3
  <2>4. \A b \in DOMAIN live' : Backed(live'[b], reviews'[b])
    <3> SUFFICES ASSUME NEW b \in DOMAIN live' PROVE Backed(live'[b], reviews'[b])
      OBVIOUS
    <3>1. CASE b \in DOMAIN live
      <4>1. Backed(live[b], reviews'[b])
        BY <1>0, <2>3, <3>1, RowFields DEF Approvals
      <4>2. QED
        BY <1>3, <3>1, <4>1 DEF Backed, RowsStand
    <3>2. CASE b \notin DOMAIN live
      BY <1>3, <3>2 DEF Backed, RowsStand
    <3>3. QED
      BY <3>1, <3>2
  <2>5. \A b \in DOMAIN hist : Backed(hist[b], reviews'[b])
    BY <1>0, <2>3, RowFields DEF Approvals
  <2>6. \A b \in DOMAIN archive : Backed(archive[b], reviews'[b])
    BY <1>0, <2>3, RowFields DEF Approvals
  <2>7. Approvals'
    BY <1>3, <2>4, <2>5, <2>6 DEF Approvals
  <2>8. QED
    BY <2>2, <2>7 DEF ReviewInv
<1> HIDE DEF Goal
<1>4. ASSUME NEW h \in Handlers, NEW o, o.kind # "stage", op' = [op EXCEPT ![h] = o],
             RowsStand(live, live'), UNCHANGED <<hist, archive, reviews>>
      PROVE  Goal
  <2>1. \A g \in Handlers : op'[g] = op[g] \/ op'[g].kind # "stage"
    BY <1>0, <1>4
  <2>2. QED
    BY <1>3, <1>4, <2>1
<1>5. Idle.kind # "stage"
  BY DEF Idle
<1>6. ASSUME NEW h \in Handlers, \E f \in Form : CheckPd(h, f)
      PROVE  Goal
  BY <1>1, <1>4, <1>6 DEF CheckPd, Begin
<1>7. ASSUME NEW h \in Handlers, NEW b \in Batches, ReadSequence(h, b)
      PROVE  Goal
  BY <1>1, <1>4, <1>7 DEF ReadSequence, Continue
<1>8. ASSUME NEW h \in Handlers, InsertBatch(h)
      PROVE  Goal
  <2>1. op[h].batch \notin DOMAIN live
    BY <1>0, <1>8 DEF InsertBatch, Fresh
  <2>2. RowsStand(live, live')
    BY <1>8, <2>1 DEF InsertBatch, Put, Submitted, RowsStand
  <2>3. QED
    BY <1>4, <1>8, <2>2 DEF InsertBatch, Continue
<1>9. ASSUME NEW h \in Handlers, RetryInsert(h)
      PROVE  Goal
  <2> DEFINE o == [op[h] EXCEPT !.seq = op[h].seq + 1, !.attempt = op[h].attempt + 1]
  <2>1. op[h].kind = "insert" /\ op' = [op EXCEPT ![h] = o] /\ UNCHANGED <<live, hist, archive, reviews>>
    BY <1>9 DEF RetryInsert, Continue
  <2>2. \A v, w : [op[h] EXCEPT !.seq = v, !.attempt = w].kind # "stage"
    BY <1>0, <2>1 DEF Op, Idle
  <2>3. o.kind # "stage"
    BY <2>2
  <2> HIDE DEF o
  <2>4. QED
    BY <1>1, <1>4, <2>1, <2>3
<1>10. ASSUME NEW h \in Handlers, WriteReview(h)
       PROVE  Goal
  <2>1. \A g \in Handlers : op'[g] = op[g] \/ op'[g].kind # "stage"
    BY <1>0, <1>5, <1>10 DEF WriteReview, End
  <2>2. \A b \in Batches : reviews[b] \subseteq reviews'[b]
    BY <1>0, <1>10 DEF WriteReview
  <2>3. QED
    BY <1>1, <1>3, <1>10, <2>1, <2>2 DEF WriteReview
<1>11. ASSUME NEW h \in Handlers, Abandon(h)
       PROVE  Goal
  BY <1>1, <1>4, <1>5, <1>11 DEF Abandon, End
<1>12. ASSUME NEW h \in Handlers, NEW b \in Batches, NEW u \in Users,
              NEW target \in {"approved", "rejected"}, LockForStage(h, b, u, target)
       PROVE  Goal
  <2> DEFINE o == [kind |-> "stage", batch |-> b, actor |-> u, target |-> target]
  <2>1. /\ CanReview(u) /\ ~Locked(b) /\ MayMove(live[b], u, target)
        /\ \A g \in Handlers : op'[g] = IF g = h THEN o ELSE op[g]
        /\ UNCHANGED <<live, hist, archive, reviews>>
    BY <1>0, <1>12 DEF LockForStage, Begin
  <2>2. \A g \in Handlers : op[g].kind = "stage" => op[g].batch # b
    BY <2>1 DEF Locked
  <2>3. StageHeld'
    BY <1>0, <2>1, <2>2 DEF StageHeld
  <2>4. Approvals'
    BY <1>0, <2>1 DEF Approvals, Backed
  <2>5. QED
    BY <2>3, <2>4 DEF Goal, ReviewInv
<1>13. ASSUME NEW h \in Handlers, CommitStage(h)
       PROVE  Goal
  <2> DEFINE b == op[h].batch
             u == op[h].actor
             target == op[h].target
             e == [act |-> "decide", by |-> u, stage |-> target]
  <2>1. /\ op[h].kind = "stage" /\ op' = [op EXCEPT ![h] = Idle]
        /\ live' = Put(live, b, Restaged(live[b], target))
        /\ reviews' = [reviews EXCEPT ![b] = @ \cup {e}]
        /\ UNCHANGED <<hist, archive>>
    BY <1>13 DEF CommitStage, End
  <2>2. b \in DOMAIN live /\ b \in Batches /\ CanReview(u) /\ MayMove(live[b], u, target)
    BY <1>0, <2>1, RowFields DEF HeldRows, StageHeld
  <2>3. live[b] \in Row /\ live[b].stage \in Stages
    BY <1>0, <2>2, RowFields
  <2>4. \A s : LET x == Restaged(live[b], s)
               IN  x.stage = s /\ x.type = live[b].type /\ x.owner = live[b].owner
    BY <2>3 DEF Restaged, Row
  <2>5. /\ DOMAIN live' = DOMAIN live
        /\ live'[b].stage = target /\ live'[b].type = live[b].type /\ live'[b].owner = live[b].owner
        /\ \A c \in DOMAIN live \ {b} : live'[c] = live[c]
    BY <2>1, <2>2, <2>4 DEF Put
  <2>6. /\ e \in reviews'[b]
        /\ \A c \in Batches : reviews[c] \subseteq reviews'[c]
    BY <1>0, <2>1, <2>2
  <2>7. Backed(live'[b], reviews'[b])
    <3>1. ASSUME target = "approved"
          PROVE  live[b].type = "public_health" /\ u # live[b].owner
      <4>1. "approved" \in WorkflowStageTransitions(live[b].type)[live[b].stage]
        BY <2>2, <3>1 DEF MayMove
      <4>2. live[b].type = "public_health"
        BY <2>3, <4>1, StageTable
      <4>3. QED
        BY <2>2, <3>1, <4>2 DEF MayMove
    <3>2. e.act = "decide" /\ e.stage = target /\ e.by = u
      OBVIOUS
    <3> HIDE DEF e
    <3>3. QED
      BY <2>2, <2>5, <2>6, <3>1, <3>2 DEF Backed
  <2>8. \A x : \A c \in Batches : Backed(x, reviews[c]) => Backed(x, reviews'[c])
    BY <1>2, <2>6
  <2>9. \A c \in DOMAIN live \ {b} : Backed(live[c], reviews'[c])
    BY <1>0, <2>8, RowFields DEF Approvals
  <2>10. \A c \in DOMAIN live' : Backed(live'[c], reviews'[c])
    <3> SUFFICES ASSUME NEW c \in DOMAIN live' PROVE Backed(live'[c], reviews'[c])
      OBVIOUS
    <3>1. CASE c = b
      BY <2>7, <3>1
    <3>2. CASE c # b
      BY <2>5, <2>9, <3>2
    <3>3. QED
      BY <3>1, <3>2
  <2>11. \A c \in DOMAIN hist : Backed(hist[c], reviews'[c])
    BY <1>0, <2>8, RowFields DEF Approvals
  <2>12. \A c \in DOMAIN archive : Backed(archive[c], reviews'[c])
    BY <1>0, <2>8, RowFields DEF Approvals
  <2>13. Approvals'
    BY <2>1, <2>10, <2>11, <2>12 DEF Approvals
  <2>14. StageHeld'
    <3>1. \A g \in Handlers : op'[g].kind = "stage" =>
              /\ op'[g] = op[g] /\ op[g].batch # b
              /\ op[g].batch \in DOMAIN live
      BY <1>0, <1>5, <2>1 DEF StageHeld, HeldRows
    <3>2. \A g \in Handlers : op'[g].kind = "stage" => live'[op'[g].batch] = live[op[g].batch]
      BY <2>5, <3>1
    <3>3. QED
      BY <1>0, <3>1, <3>2 DEF StageHeld
  <2>15. QED
    BY <2>13, <2>14 DEF Goal, ReviewInv
<1>14. ASSUME NEW h \in Handlers, NEW b \in Batches, NEW u \in Users,
              \E date \in 0..MaxDate : ReadForAmend(h, b, u, date)
       PROVE  Goal
  BY <1>1, <1>4, <1>14 DEF ReadForAmend, Begin
<1>15. ASSUME NEW h \in Handlers, WriteAmend(h)
       PROVE  Goal
  <2>1. /\ DOMAIN live' = DOMAIN live
        /\ \A b \in DOMAIN live :
              live'[b] = live[b] \/ live'[b] = [live[b] EXCEPT !.file = op[h].file]
    BY <1>15 DEF WriteAmend
  <2>2. \A x \in Row : /\ [x EXCEPT !.file = op[h].file].stage = x.stage
                       /\ [x EXCEPT !.file = op[h].file].type = x.type
                       /\ [x EXCEPT !.file = op[h].file].owner = x.owner
    BY DEF Row
  <2>3. \A b \in DOMAIN live : live[b] \in Row
    BY <1>0, RowFields
  <2>4. \A b \in DOMAIN live : /\ live'[b].stage = live[b].stage /\ live'[b].type = live[b].type
                              /\ live'[b].owner = live[b].owner
    BY <2>1, <2>2, <2>3
  <2>5. RowsStand(live, live')
    BY <2>1, <2>4 DEF RowsStand
  <2>6. QED
    BY <1>4, <1>15, <2>5 DEF WriteAmend, Continue
<1>16. ASSUME NEW b \in Batches, DeleteBatch(b)
       PROVE  Goal
  <2>1. RowsStand(live, live')
    BY <1>16 DEF DeleteBatch, RowsStand, Without
  <2>2. QED
    BY <1>3, <1>16, <2>1 DEF DeleteBatch
<1>17. ASSUME ArchiveCopy
       PROVE  Goal
  <2>1. /\ \A b \in DOMAIN archive' : b \in DOMAIN live /\ archive'[b] = live[b]
        /\ UNCHANGED <<live, hist, op, reviews>>
    BY <1>17 DEF ArchiveCopy
  <2>2. StageHeld'
    BY <1>0, <2>1 DEF StageHeld
  <2>3. Approvals'
    BY <1>0, <2>1 DEF Approvals, Backed
  <2>4. QED
    BY <2>2, <2>3 DEF Goal, ReviewInv
<1>18. ASSUME ArchiveCommit
       PROVE  Goal
  <2>1. /\ \A b \in DOMAIN live' : b \in DOMAIN live /\ live'[b] = live[b]
        /\ \A b \in DOMAIN hist' : \/ b \in DOMAIN archive /\ hist'[b] = archive[b]
                                   \/ b \in DOMAIN hist /\ hist'[b] = hist[b]
        /\ DOMAIN archive' = {}
        /\ UNCHANGED <<op, reviews>>
    BY <1>18 DEF ArchiveCommit, Without, Empty
  <2>2. StageHeld'
    BY <1>0, <2>1 DEF StageHeld, HeldRows
  <2>3. Approvals'
    BY <1>0, <2>1 DEF Approvals, Backed
  <2>4. QED
    BY <2>2, <2>3 DEF Goal, ReviewInv
<1>19. ASSUME ArchiveRollback
       PROVE  Goal
  <2>1. DOMAIN archive' = {} /\ UNCHANGED <<live, hist, op, reviews>>
    BY <1>19 DEF ArchiveRollback, Empty
  <2>2. QED
    BY <1>0, <2>1 DEF Goal, ReviewInv, StageHeld, Approvals, Backed
<1>20. ASSUME NewDay
       PROVE  Goal
  BY <1>1, <1>3, <1>20 DEF NewDay
<1>21. ASSUME UNCHANGED vars
       PROVE  Goal
  BY <1>1, <1>3, <1>21 DEF vars
<1>22. Goal
  BY <1>6, <1>7, <1>8, <1>9, <1>10, <1>11, <1>12, <1>13, <1>14, <1>15, <1>16, <1>17,
     <1>18, <1>19, <1>20, <1>21 DEF Next
<1>23. QED
  BY <1>22 DEF Goal

\* A batch that stands approved, archived or not, was approved by a reviewer
\* other than its submitter: the check is made on the row the update changes.
THEOREM ApprovalIsByAnother == Spec => []ApprovedByAnother
<1> DEFINE Inv == TypeInv /\ CodeInv /\ ReviewInv
<1>1. Init => Inv
  BY TypeInit, CodeInit, ReviewInit
<1>2. Inv /\ [Next]_vars => Inv'
  BY TypeStep, CodeStep, ReviewStep
<1>3. Inv => ApprovedByAnother
  BY DEF ReviewInv, Approvals, Backed, ApprovedByAnother
<1>4. QED
  BY <1>1, <1>2, <1>3, PTL DEF Spec

-----------------------------------------------------------------------------
(* Decisions *)

Decisions(entries) == {e \in entries : e.act = "decide"}

\* No batch is decided before it is inserted; a departmental batch is decided
\* by leaving the stage it was submitted in, to which nothing returns.
DecisionInv ==
    /\ \A b \in Batches \ born : Decisions(reviews[b]) = {}
    /\ \A h \in Handlers : op[h].kind = "insert" => Decisions(reviews[op[h].batch]) = {}
    /\ \A h \in Handlers : op[h].kind = "review" => op[h].entry.act # "decide"
    /\ \A b \in DOMAIN live : live[b].type = "aba" =>
          /\ live[b].stage = "submitted" => Decisions(reviews[b]) = {}
          /\ \A d, e \in Decisions(reviews[b]) : d = e

\* Nothing is decided at the start.
LEMMA DecisionInit == Init => DecisionInv
  BY DEF Init, DecisionInv, Decisions, Empty, Idle

\* Decisions through every step.
LEMMA DecisionStep ==
    ASSUME TypeInv, CodeInv, ReviewInv, DecisionInv, [Next]_vars
    PROVE  DecisionInv'
<1> DEFINE Goal == DecisionInv'
<1>0. /\ op \in [Handlers -> Op] /\ \A h \in Handlers : op[h] \in Op
      /\ IsTable(live) /\ reviews \in [Batches -> SUBSET Review]
      /\ HeldRows /\ Fresh /\ StageHeld /\ Approvals
  BY DEF TypeInv, TypeOK, CodeInv, ReviewInv
\* A step that decides nothing and inserts nothing.
<1>1. ASSUME RowsStand(live, live'), DOMAIN live' \subseteq DOMAIN live, born \subseteq born',
             \A b \in Batches : Decisions(reviews'[b]) = Decisions(reviews[b]),
             \A h \in Handlers : \/ op'[h] = op[h]
                                 \/ /\ op'[h].kind = "insert" => Decisions(reviews'[op'[h].batch]) = {}
                                    /\ op'[h].kind = "review" => op'[h].entry.act # "decide"
      PROVE  Goal
  <2>1. \A h \in Handlers : op[h].kind = "insert" => op[h].batch \in Batches
    BY <1>0, OpFields
  <2>2. \A h \in Handlers :
            /\ op'[h].kind = "insert" => Decisions(reviews'[op'[h].batch]) = {}
            /\ op'[h].kind = "review" => op'[h].entry.act # "decide"
    BY <1>1, <2>1 DEF DecisionInv
  <2>3. \A b \in Batches \ born' : Decisions(reviews'[b]) = {}
    BY <1>1 DEF DecisionInv
  <2>4. \A b \in DOMAIN live' : live'[b].type = "aba" =>
          /\ live'[b].stage = "submitted" => Decisions(reviews'[b]) = {}
          /\ \A d, e \in Decisions(reviews'[b]) : d = e
    <3>1. \A b \in DOMAIN live' : /\ b \in DOMAIN live /\ b \in Batches
                                  /\ live'[b].stage = live[b].stage /\ live'[b].type = live[b].type
      BY <1>0, <1>1, RowFields DEF RowsStand
    <3>2. QED
      BY <1>1, <3>1 DEF DecisionInv
  <2>5. QED
    BY <2>2, <2>3, <2>4 DEF DecisionInv
<1>2. RowsStand(live, live)
  BY DEF RowsStand
<1>3. ASSUME UNCHANGED reviews
      PROVE  \A b \in Batches : Decisions(reviews'[b]) = Decisions(reviews[b])
  BY <1>3 DEF Decisions
<1>4. Idle.kind # "insert" /\ Idle.kind # "review"
  BY DEF Idle
<1> HIDE DEF Goal
<1>5. ASSUME NEW h \in Handlers, NEW o, op' = [op EXCEPT ![h] = o], UNCHANGED <<live, born, reviews>>,
             o.kind # "insert", o.kind # "review"
      PROVE  Goal
  BY <1>0, <1>1, <1>2, <1>3, <1>5
<1>6. ASSUME NEW h \in Handlers, NEW f \in Form, CheckPd(h, f)
      PROVE  Goal
  <2> DEFINE o == [kind |-> "number", form |-> f]
  <2>1. op' = [op EXCEPT ![h] = o] /\ UNCHANGED <<live, born, reviews>>
    BY <1>6 DEF CheckPd, Begin
  <2>2. o.kind = "number"
    OBVIOUS
  <2> HIDE DEF o
  <2>3. QED
    BY <1>5, <2>1, <2>2
<1>7. ASSUME NEW h \in Handlers, NEW b \in Batches, ReadSequence(h, b)
      PROVE  Goal
  <2>1. /\ b \notin born /\ born' = born \cup {b} /\ UNCHANGED <<live, reviews>>
        /\ \A g \in Handlers \ {h} : op'[g] = op[g]
        /\ op'[h].kind = "insert" /\ op'[h].batch = b
    BY <1>0, <1>7 DEF ReadSequence, Continue
  <2>2. Decisions(reviews'[b]) = {}
    BY <1>3, <2>1 DEF DecisionInv
  <2>3. Decisions(reviews'[op'[h].batch]) = {}
    BY <2>1, <2>2 DEF Decisions
  <2>4. QED
    BY <1>1, <1>2, <1>3, <2>1, <2>3
<1>8. ASSUME NEW h \in Handlers, InsertBatch(h)
      PROVE  Goal
  <2> DEFINE b == op[h].batch
  <2>1. /\ op[h].kind = "insert" /\ DOMAIN live' = DOMAIN live \cup {b}
        /\ live'[b].stage = "submitted"
        /\ \A c \in DOMAIN live \ {b} : live'[c] = live[c]
        /\ \A g \in Handlers \ {h} : op'[g] = op[g]
        /\ op'[h].kind = "review" /\ op'[h].entry.act = "submit"
        /\ UNCHANGED <<reviews, born>>
    BY <1>0, <1>8 DEF InsertBatch, Continue, Put, Submitted
  <2>2. b \in Batches /\ Decisions(reviews[b]) = {}
    BY <1>0, <2>1, OpFields DEF DecisionInv
  <2>3. \A c : Decisions(reviews'[c]) = Decisions(reviews[c])
    BY <2>1 DEF Decisions
  <2>4. \A g \in Handlers : /\ op'[g].kind = "insert" => Decisions(reviews'[op'[g].batch]) = {}
                            /\ op'[g].kind = "review" => op'[g].entry.act # "decide"
    BY <2>1, <2>3 DEF DecisionInv
  <2>5. \A c \in DOMAIN live' : live'[c].type = "aba" =>
          /\ live'[c].stage = "submitted" => Decisions(reviews'[c]) = {}
          /\ \A d, e \in Decisions(reviews'[c]) : d = e
    BY <2>1, <2>2, <2>3 DEF DecisionInv
  <2>6. \A c \in Batches \ born' : Decisions(reviews'[c]) = {}
    BY <2>1, <2>3 DEF DecisionInv
  <2>7. QED
    BY <2>4, <2>5, <2>6 DEF Goal, DecisionInv
<1>9. ASSUME NEW h \in Handlers, RetryInsert(h)
      PROVE  Goal
  <2>1. /\ op[h].kind = "insert" /\ op[h] \in Op
        /\ \A g \in Handlers \ {h} : op'[g] = op[g]
        /\ op'[h] = [op[h] EXCEPT !.seq = op[h].seq + 1, !.attempt = op[h].attempt + 1]
        /\ UNCHANGED <<live, born, reviews>>
    BY <1>0, <1>9 DEF RetryInsert, Continue
  <2>2. op'[h].kind = "insert" /\ op'[h].batch = op[h].batch
    <3>1. \A v, w : LET o == [op[h] EXCEPT !.seq = v, !.attempt = w]
                    IN  o.kind = "insert" /\ o.batch = op[h].batch
      BY <2>1 DEF Op, Idle
    <3>2. QED
      BY <2>1, <3>1
  <2>3. Decisions(reviews'[op'[h].batch]) = {}
    BY <2>1, <2>2 DEF DecisionInv, Decisions
  <2>4. QED
    BY <1>1, <1>2, <1>3, <2>1, <2>2, <2>3
<1>10. ASSUME NEW h \in Handlers, WriteReview(h)
       PROVE  Goal
  <2>1. /\ op[h].entry.act # "decide" /\ op' = [op EXCEPT ![h] = Idle]
        /\ reviews' = [reviews EXCEPT ![op[h].batch] = @ \cup {op[h].entry}]
        /\ UNCHANGED <<live, born>>
    BY <1>10 DEF WriteReview, End, DecisionInv
  <2>2. \A b \in Batches : Decisions(reviews'[b]) = Decisions(reviews[b])
    BY <1>0, <2>1 DEF Decisions
  <2>3. QED
    BY <1>0, <1>1, <1>2, <1>4, <2>1, <2>2
<1>11. ASSUME NEW h \in Handlers, Abandon(h)
       PROVE  Goal
  BY <1>4, <1>5, <1>11 DEF Abandon, End
<1>12. ASSUME NEW h \in Handlers, NEW b \in Batches, NEW u \in Users,
              NEW target \in {"approved", "rejected"}, LockForStage(h, b, u, target)
       PROVE  Goal
  <2> DEFINE o == [kind |-> "stage", batch |-> b, actor |-> u, target |-> target]
  <2>1. op' = [op EXCEPT ![h] = o] /\ UNCHANGED <<live, born, reviews>>
    BY <1>12 DEF LockForStage, Begin
  <2>2. o.kind = "stage"
    OBVIOUS
  <2> HIDE DEF o
  <2>3. QED
    BY <1>5, <2>1, <2>2
<1>13. ASSUME NEW h \in Handlers, NEW b \in Batches, NEW u \in Users,
              NEW date \in 0..MaxDate, ReadForAmend(h, b, u, date)
       PROVE  Goal
  <2> DEFINE o == [kind |-> "amend", batch |-> b, actor |-> u, code |-> live[b].code,
                   stage |-> live[b].stage, file |-> [live[b].file EXCEPT !.date = date]]
  <2>1. op' = [op EXCEPT ![h] = o] /\ UNCHANGED <<live, born, reviews>>
    BY <1>13 DEF ReadForAmend, Begin
  <2>2. o.kind = "amend"
    OBVIOUS
  <2> HIDE DEF o
  <2>3. QED
    BY <1>5, <2>1, <2>2
<1>14. ASSUME NEW h \in Handlers, CommitStage(h)
       PROVE  Goal
  <2> DEFINE b == op[h].batch
             target == op[h].target
             e == [act |-> "decide", by |-> op[h].actor, stage |-> target]
  <2>1. /\ op[h].kind = "stage" /\ op' = [op EXCEPT ![h] = Idle]
        /\ live' = Put(live, b, Restaged(live[b], target))
        /\ reviews' = [reviews EXCEPT ![b] = @ \cup {e}]
        /\ UNCHANGED born
    BY <1>14 DEF CommitStage, End
  <2>2. b \in DOMAIN live /\ b \in Batches /\ MayMove(live[b], op[h].actor, target)
        /\ target \in {"approved", "rejected"}
    BY <1>0, <2>1, RowFields, OpFields DEF HeldRows, StageHeld
  <2>3. live[b] \in Row /\ live[b].stage \in Stages
    BY <1>0, <2>2, RowFields
  <2>4. \A s : Restaged(live[b], s).stage = s /\ Restaged(live[b], s).type = live[b].type
    BY <2>3 DEF Restaged, Row
  <2>5. /\ DOMAIN live' = DOMAIN live
        /\ live'[b].stage = target /\ live'[b].type = live[b].type
        /\ \A c \in DOMAIN live \ {b} : live'[c] = live[c]
    BY <2>1, <2>2, <2>4 DEF Put
  <2>6. /\ \A c \in Batches \ {b} : Decisions(reviews'[c]) = Decisions(reviews[c])
        /\ Decisions(reviews'[b]) = Decisions(reviews[b]) \cup {e}
    <3>1. e.act = "decide"
      OBVIOUS
    <3> HIDE DEF e
    <3>2. QED
      BY <1>0, <2>1, <2>2, <3>1 DEF Decisions
  <2>7. ASSUME live[b].type = "aba"
        PROVE  Decisions(reviews[b]) = {}
    <3>1. live[b].stage # "approved"
      BY <1>0, <2>2, <2>7 DEF Approvals, Backed
    <3>2. target \in WorkflowStageTransitions("aba")[live[b].stage]
      BY <2>2, <2>7 DEF MayMove
    <3>3. live[b].stage = "submitted"
      BY <2>3, <3>1, <3>2, StageTable
    <3>4. QED
      BY <2>2, <2>7, <3>3 DEF DecisionInv
  <2> HIDE DEF e
  <2>8. ASSUME NEW c \in DOMAIN live', live'[c].type = "aba"
        PROVE  /\ live'[c].stage = "submitted" => Decisions(reviews'[c]) = {}
               /\ \A d1, d2 \in Decisions(reviews'[c]) : d1 = d2
    <3>1. CASE c = b
      BY <2>2, <2>5, <2>6, <2>7, <2>8, <3>1
    <3>2. CASE c # b
      <4>1. c \in Batches /\ c \in DOMAIN live /\ live'[c] = live[c]
        BY <1>0, <2>5, <3>2, RowFields
      <4>2. QED
        BY <2>6, <2>8, <3>2, <4>1 DEF DecisionInv
    <3>3. QED
      BY <3>1, <3>2
  <2>9. \A c \in Batches \ born' : Decisions(reviews'[c]) = {}
    BY <1>0, <2>1, <2>2, <2>6 DEF DecisionInv, Fresh
  <2>10. \A g \in Handlers : op'[g].kind \in {"insert", "review"} => g # h /\ op'[g] = op[g]
    BY <1>0, <1>4, <2>1
  <2>11. \A g \in Handlers : op[g].kind = "insert" => op[g].batch # b /\ op[g].batch \in Batches
    BY <1>0, <2>2, OpFields DEF Fresh
  <2>12. \A g \in Handlers : /\ op'[g].kind = "insert" => Decisions(reviews'[op'[g].batch]) = {}
                             /\ op'[g].kind = "review" => op'[g].entry.act # "decide"
    <3> SUFFICES ASSUME NEW g \in Handlers
                 PROVE  /\ op'[g].kind = "insert" => Decisions(reviews'[op'[g].batch]) = {}
                        /\ op'[g].kind = "review" => op'[g].entry.act # "decide"
      OBVIOUS
    <3>1. op'[g].kind = "review" => op'[g].entry.act # "decide"
      BY <2>10 DEF DecisionInv
    <3>2. ASSUME op'[g].kind = "insert" PROVE Decisions(reviews'[op'[g].batch]) = {}
      <4>1. op'[g] = op[g] /\ Decisions(reviews[op[g].batch]) = {}
        BY <2>10, <3>2 DEF DecisionInv
      <4>2. reviews'[op[g].batch] = reviews[op[g].batch]
        BY <1>0, <2>1, <2>11, <3>2, <4>1
      <4>3. QED
        BY <4>1, <4>2 DEF Decisions
    <3>3. QED
      BY <3>1, <3>2
  <2>13. QED
    BY <2>8, <2>9, <2>12 DEF Goal, DecisionInv
<1>15. ASSUME NEW h \in Handlers, WriteAmend(h)
       PROVE  Goal
  <2>1. /\ DOMAIN live' = DOMAIN live
        /\ \A b \in DOMAIN live :
              live'[b] = live[b] \/ live'[b] = [live[b] EXCEPT !.file = op[h].file]
        /\ \A g \in Handlers \ {h} : op'[g] = op[g]
        /\ op'[h].kind = "review" /\ op'[h].entry.act = "amend"
        /\ UNCHANGED <<born, reviews>>
    BY <1>0, <1>15 DEF WriteAmend, Continue
  <2>2. \A x \in Row : /\ [x EXCEPT !.file = op[h].file].stage = x.stage
                       /\ [x EXCEPT !.file = op[h].file].type = x.type
                       /\ [x EXCEPT !.file = op[h].file].owner = x.owner
    BY DEF Row
  <2>3. \A b \in DOMAIN live : live[b] \in Row
    BY <1>0, RowFields
  <2>4. \A b \in DOMAIN live : /\ live'[b].stage = live[b].stage /\ live'[b].type = live[b].type
                              /\ live'[b].owner = live[b].owner
    BY <2>1, <2>2, <2>3
  <2>5. RowsStand(live, live')
    BY <2>1, <2>4 DEF RowsStand
  <2>6. QED
    BY <1>1, <1>3, <2>1, <2>5
<1>16. ASSUME NEW b \in Batches, DeleteBatch(b)
       PROVE  Goal
  <2>1. RowsStand(live, live') /\ DOMAIN live' \subseteq DOMAIN live
    BY <1>16 DEF DeleteBatch, RowsStand, Without
  <2>2. QED
    BY <1>1, <1>3, <1>16, <2>1 DEF DeleteBatch
<1>17. ASSUME ArchiveCommit
       PROVE  Goal
  <2>1. RowsStand(live, live') /\ DOMAIN live' \subseteq DOMAIN live /\ UNCHANGED <<op, born, reviews>>
    BY <1>17 DEF ArchiveCommit, RowsStand, Without
  <2>2. QED
    BY <1>1, <1>3, <2>1
<1>18. ASSUME UNCHANGED <<live, op, born, reviews>>
       PROVE  Goal
  BY <1>1, <1>2, <1>3, <1>18
<1>19. ASSUME ArchiveCopy \/ ArchiveRollback \/ NewDay \/ UNCHANGED vars
       PROVE  Goal
  BY <1>18, <1>19 DEF ArchiveCopy, ArchiveRollback, NewDay, vars
<1>20. Goal
  BY <1>6, <1>7, <1>8, <1>9, <1>10, <1>11, <1>12, <1>13, <1>14, <1>15, <1>16, <1>17,
     <1>19 DEF Next
<1>21. QED
  BY <1>20 DEF Goal

IInv == TypeInv /\ CodeInv /\ ReviewInv /\ DecisionInv

\* The inductive invariant holds in every reachable state.
THEOREM Inductive == Spec => []IInv
<1>1. Init => IInv
  BY TypeInit, CodeInit, ReviewInit, DecisionInit DEF IInv
<1>2. IInv /\ [Next]_vars => IInv'
  BY TypeStep, CodeStep, ReviewStep, DecisionStep DEF IInv
<1>3. QED
  BY <1>1, <1>2, PTL DEF Spec

\* A departmental batch is decided once, however many reviewers act on it.
THEOREM AbaIsDecidedOnce == Spec => []AbaDecidedOnce
<1>1. IInv => AbaDecidedOnce
  <2> SUFFICES ASSUME IInv, NEW b \in DOMAIN live, live[b].type = "aba"
               PROVE  Cardinality(Decisions(reviews[b])) <= 1
    BY DEF AbaDecidedOnce, Decisions
  <2>1. \A d, e \in Decisions(reviews[b]) : d = e
    BY DEF IInv, DecisionInv
  <2>2. CASE Decisions(reviews[b]) = {}
    BY <2>2, FS_EmptySet
  <2>3. CASE Decisions(reviews[b]) # {}
    <3>1. PICK e \in Decisions(reviews[b]) : TRUE
      BY <2>3
    <3>2. Decisions(reviews[b]) = {e}
      BY <2>1, <3>1
    <3>3. Cardinality({e}) = 1
      BY FS_Singleton
    <3>4. QED
      BY <3>2, <3>3
  <2>4. QED
    BY <2>2, <2>3
<1>2. QED
  BY <1>1, Inductive, PTL

-----------------------------------------------------------------------------
(* The attempts of a submission *)

\* The rows of a day from a number on.
Ahead(t, day, n) == {b \in DOMAIN t : t[b].code.day = day /\ t[b].code.seq >= n}

\* The day's numbers do not run ahead of its submissions, and a submission has
\* no more attempts behind it, and codes in front of it, than batches have been
\* inserted since it read the last code.
RaceInv ==
    /\ IsFiniteSet(DOMAIN live)
    /\ \A b \in DOMAIN live : live[b].code.day = today => live[b].code.seq <= inserted
    /\ \A h \in Handlers : op[h].kind = "insert" =>
          /\ op[h].seq <= inserted + 1 /\ op[h].since <= inserted
          /\ inserted <= PadLimit =>
                op[h].attempt + Cardinality(Ahead(live, today, op[h].seq))
                    <= inserted - op[h].since

\* Up to the limit, text and numbers have one order.
LEMMA RankOrder ==
    ASSUME NEW m \in Nat, NEW n \in Nat, m <= PadLimit, n <= PadLimit,
           TextRank(m) <= TextRank(n)
    PROVE  m <= n
<1>1. Base \in Nat /\ Base >= 1
  BY BoundsAssumption
<1>2. 2 * m * Base <= 2 * n * Base
  BY DEF TextRank
<1>3. SUFFICES ASSUME n + 1 <= m PROVE FALSE
  OBVIOUS
<1>4. 2 * n * Base + 2 * Base <= 2 * m * Base
  <2>1. \A a, b \in Nat : a <= b => a * Base <= b * Base
    BY <1>1
  <2>2. (2 * (n + 1)) * Base <= (2 * m) * Base
    BY <1>3, <2>1
  <2>3. (2 * (n + 1)) * Base = 2 * n * Base + 2 * Base
    BY <1>1
  <2>4. QED
    BY <2>2, <2>3
<1>5. 2 * n * Base \in Nat /\ 2 * m * Base \in Nat
  BY <1>1
<1>6. QED
  BY <1>1, <1>2, <1>4, <1>5

\* The number after the day's last code is one that the day's submissions reach,
\* and within the limit no code of the day lies from there on.
LEMMA NextIsFree ==
    ASSUME TypeInv, CodeInv, RaceInv
    PROVE  /\ NextSequence \in Nat /\ NextSequence <= inserted + 1
           /\ inserted <= PadLimit => Ahead(live, today, NextSequence) = {}
<1> DEFINE taken == {x.code.seq : x \in {y \in Combined : y.code.day = today}}
<1>0. /\ IsTable(live) /\ IsTable(hist) /\ today \in Nat /\ inserted \in Nat
      /\ NextSequence \in Nat /\ PadLimit \in Nat
  BY NextSequenceIsNatural, BoundsAssumption DEF TypeInv, TypeOK
<1>1. \A b \in DOMAIN hist : hist[b].code.day # today
  <2>1. \A b \in DOMAIN hist : hist[b].code.day \in Nat /\ hist[b].code.day < today
    BY <1>0, RowFields DEF CodeInv, Days
  <2>2. QED
    BY <1>0, <2>1
<1>2. taken = {live[b].code.seq : b \in {c \in DOMAIN live : live[c].code.day = today}}
  BY <1>1 DEF Combined
<1>3. \A n \in taken : n \in Nat /\ n <= inserted
  <2>1. \A b \in DOMAIN live : live[b].code.seq \in Nat
    BY <1>0, RowFields
  <2>2. \A b \in DOMAIN live : live[b].code.day = today => live[b].code.seq <= inserted
    BY DEF RaceInv
  <2> HIDE DEF taken
  <2>3. QED
    BY <1>2, <2>1, <2>2
<1>4. CASE taken = {}
  <2>1. NextSequence = 1
    BY <1>4 DEF NextSequence
  <2>2. Ahead(live, today, NextSequence) = {}
    BY <1>2, <1>4 DEF Ahead
  <2>3. QED
    BY <1>0, <2>1, <2>2
<1>5. CASE taken # {}
  <2> DEFINE last == CHOOSE n \in taken : \A m \in taken : TextRank(m) <= TextRank(n)
  <2>1. \E n \in taken : \A m \in taken : TextRank(m) <= TextRank(n)
    <3>1. PICK N \in Nat : Below(live, N)
      BY DEF TypeInv, Numbered
    <3>2. taken \in SUBSET Nat /\ \A m \in taken : TextRank(m) <= N
      BY <1>2, <1>3, <3>1 DEF Below
    <3>3. QED
      BY <1>5, <3>2, LastInOrder
  <2>2. last \in taken /\ \A m \in taken : TextRank(m) <= TextRank(last)
    BY <2>1
  <2>3. NextSequence = 1 + last
    BY <1>5 DEF NextSequence
  <2> HIDE DEF last
  <2>4. last \in Nat /\ last <= inserted
    BY <1>3, <2>2
  <2>5. ASSUME inserted <= PadLimit PROVE Ahead(live, today, NextSequence) = {}
    <3>1. \A m \in taken : m <= last
      <4>1. SUFFICES ASSUME NEW m \in taken PROVE m <= last
        OBVIOUS
      <4>2. m \in Nat /\ m <= PadLimit /\ last <= PadLimit
        BY <1>0, <1>3, <2>4, <2>5
      <4>3. TextRank(m) <= TextRank(last)
        BY <2>2
      <4>4. QED
        BY <2>4, <4>2, <4>3, RankOrder
    <3>2. SUFFICES ASSUME NEW b \in DOMAIN live, live[b].code.day = today,
                          live[b].code.seq >= NextSequence
                   PROVE  FALSE
      BY DEF Ahead
    <3>3. live[b].code.seq \in taken
      BY <1>2, <3>2
    <3>4. live[b].code.seq \in Nat /\ live[b].code.seq <= last
      BY <1>3, <3>1, <3>3
    <3>5. QED
      BY <2>3, <2>4, <3>2, <3>4
  <2>6. QED
    BY <1>0, <2>3, <2>4, <2>5
<1>6. QED
  BY <1>4, <1>5

\* What lies ahead is some of the live rows.
LEMMA AheadFinite ==
    ASSUME NEW t, IsFiniteSet(DOMAIN t), NEW day, NEW n
    PROVE  IsFiniteSet(Ahead(t, day, n)) /\ Cardinality(Ahead(t, day, n)) \in Nat
<1>1. Ahead(t, day, n) \in SUBSET (DOMAIN t)
  BY DEF Ahead
<1>2. QED
  BY <1>1, FS_Subset, FS_CardinalityType

\* With rows gone and the codes of the others as they were, no more lies ahead.
LEMMA AheadKept ==
    ASSUME NEW s, NEW t, IsFiniteSet(DOMAIN s), CodesKept(s, t), NEW day, NEW n
    PROVE  /\ IsFiniteSet(DOMAIN t)
           /\ Cardinality(Ahead(t, day, n)) <= Cardinality(Ahead(s, day, n))
<1>1. Ahead(t, day, n) \in SUBSET Ahead(s, day, n)
  BY DEF Ahead, CodesKept
<1>2. DOMAIN t \in SUBSET DOMAIN s
  BY DEF CodesKept
<1>3. QED
  BY <1>1, <1>2, AheadFinite, FS_Subset

\* No batch is inserted at the start.
LEMMA RaceInit == Init => RaceInv
<1>1. DOMAIN Empty = {}
  BY DEF Empty
<1>2. QED
  BY <1>1, FS_EmptySet DEF Init, RaceInv, Idle

\* Attempts through every step.
LEMMA RaceStep ==
    ASSUME TypeInv, CodeInv, RaceInv, [Next]_vars
    PROVE  RaceInv'
<1> DEFINE Goal == RaceInv'
<1>0. /\ op \in [Handlers -> Op] /\ \A h \in Handlers : op[h] \in Op
      /\ IsTable(live) /\ today \in Nat /\ inserted \in Nat /\ PadLimit \in Nat
      /\ IsFiniteSet(DOMAIN live)
  BY BoundsAssumption DEF TypeInv, TypeOK, RaceInv
<1>1. \A h \in Handlers : op[h].kind = "insert" =>
          /\ op[h].seq \in Nat /\ op[h].attempt \in Nat /\ op[h].since \in Nat
  BY <1>0, OpFields
<1>2. \A d, n : Cardinality(Ahead(live, d, n)) \in Nat
  BY <1>0, AheadFinite
\* A step that inserts nothing and changes no code.
<1>3. ASSUME CodesKept(live, live'), UNCHANGED <<today, inserted>>,
             \A h \in Handlers : op'[h] = op[h] \/ op'[h].kind # "insert"
      PROVE  Goal
  <2>1. /\ IsFiniteSet(DOMAIN live')
        /\ \A d, n : Cardinality(Ahead(live', d, n)) <= Cardinality(Ahead(live, d, n))
    BY <1>0, <1>3, AheadKept
  <2>2. \A d, n : Cardinality(Ahead(live', d, n)) \in Nat
    BY <2>1, AheadFinite
  <2>3. \A b \in DOMAIN live' : live'[b].code.day = today' => live'[b].code.seq <= inserted'
    BY <1>3 DEF RaceInv, CodesKept
  <2>4. ASSUME NEW h \in Handlers, op'[h].kind = "insert"
        PROVE  /\ op'[h].seq <= inserted' + 1 /\ op'[h].since <= inserted'
               /\ inserted' <= PadLimit =>
                    op'[h].attempt + Cardinality(Ahead(live', today', op'[h].seq))
                        <= inserted' - op'[h].since
    <3>1. op'[h] = op[h] /\ op[h].kind = "insert"
      BY <1>3, <2>4
    <3>2. /\ op[h].seq <= inserted + 1 /\ op[h].since <= inserted
          /\ inserted <= PadLimit =>
                op[h].attempt + Cardinality(Ahead(live, today, op[h].seq)) <= inserted - op[h].since
      BY <3>1 DEF RaceInv
    <3>3. /\ Cardinality(Ahead(live', today, op[h].seq)) \in Nat
          /\ Cardinality(Ahead(live', today, op[h].seq)) <= Cardinality(Ahead(live, today, op[h].seq))
      BY <2>1, <2>2
    <3>4. QED
      BY <1>0, <1>1, <1>2, <1>3, <3>1, <3>2, <3>3
  <2>5. QED
    BY <2>1, <2>3, <2>4 DEF RaceInv
<1>4. CodesKept(live, live)
  BY DEF CodesKept
<1> HIDE DEF Goal
<1>5. ASSUME NEW h \in Handlers, NEW o, o.kind # "insert", op' = [op EXCEPT ![h] = o],
             CodesKept(live, live'), UNCHANGED <<today, inserted>>
      PROVE  Goal
  <2>1. \A g \in Handlers : op'[g] = op[g] \/ op'[g].kind # "insert"
    BY <1>0, <1>5
  <2>2. QED
    BY <1>3, <1>5, <2>1
<1>6. ASSUME NEW h \in Handlers, \E f \in Form : CheckPd(h, f)
      PROVE  Goal
  BY <1>4, <1>5, <1>6 DEF CheckPd, Begin
<1>7. ASSUME NEW h \in Handlers, NEW b \in Batches, ReadSequence(h, b)
      PROVE  Goal
  <2>1. /\ \A g \in Handlers \ {h} : op'[g] = op[g]
        /\ op'[h].kind = "insert" /\ op'[h].seq = NextSequence
        /\ op'[h].attempt = 0 /\ op'[h].since = inserted
        /\ UNCHANGED <<live, today, inserted>>
    BY <1>0, <1>7 DEF ReadSequence, Continue
  <2>2. /\ NextSequence \in Nat /\ NextSequence <= inserted + 1
        /\ inserted <= PadLimit => Ahead(live, today, NextSequence) = {}
    BY NextIsFree
  <2>3. inserted <= PadLimit =>
           0 + Cardinality(Ahead(live, today, NextSequence)) <= inserted - inserted
    BY <1>0, <2>2, FS_EmptySet
  <2>4. QED
    BY <1>0, <2>1, <2>2, <2>3 DEF Goal, RaceInv
<1>8. ASSUME NEW h \in Handlers, InsertBatch(h)
      PROVE  Goal
  <2>1. PICK b, x : /\ b = op[h].batch
                    /\ x = Submitted(b, op[h].form, [day |-> today, seq |-> op[h].seq])
    OBVIOUS
  <2>2. /\ op[h].kind = "insert" /\ live' = Put(live, b, x)
        /\ \A g \in Handlers \ {h} : op'[g] = op[g]
        /\ op'[h].kind # "insert"
        /\ inserted' = inserted + 1 /\ UNCHANGED today
    BY <1>0, <1>8, <2>1 DEF InsertBatch, Continue
  <2>3. b \notin DOMAIN live
    BY <2>1, <2>2 DEF CodeInv, Fresh
  <2>4. /\ DOMAIN live' = DOMAIN live \cup {b}
        /\ live'[b].code = [day |-> today, seq |-> op[h].seq]
        /\ \A d \in DOMAIN live : live'[d] = live[d]
    BY <2>1, <2>2, <2>3 DEF Put, Submitted
  <2>5. IsFiniteSet(DOMAIN live')
    BY <1>0, <2>4, FS_AddElement
  <2>6. \A d \in DOMAIN live' : live'[d].code.day = today' => live'[d].code.seq <= inserted'
    <3>1. live'[b].code.seq <= inserted + 1
      BY <2>2, <2>4 DEF RaceInv
    <3>2. \A d \in DOMAIN live : live[d].code.day = today => live[d].code.seq <= inserted + 1
      <4>1. \A d \in DOMAIN live : live[d].code.seq \in Nat
        BY <1>0, RowFields
      <4>2. QED
        BY <1>0, <4>1 DEF RaceInv
    <3>3. QED
      BY <2>2, <2>4, <3>1, <3>2
  <2>7. \A n : Cardinality(Ahead(live', today, n)) \in Nat
               /\ Cardinality(Ahead(live', today, n)) <= Cardinality(Ahead(live, today, n)) + 1
    <3>1. SUFFICES ASSUME NEW n
                   PROVE  Cardinality(Ahead(live', today, n)) \in Nat
                          /\ Cardinality(Ahead(live', today, n)) <= Cardinality(Ahead(live, today, n)) + 1
      OBVIOUS
    <3>2. Ahead(live', today, n) \in SUBSET (Ahead(live, today, n) \cup {b})
      BY <2>4 DEF Ahead
    <3>3. b \notin Ahead(live, today, n) /\ IsFiniteSet(Ahead(live, today, n))
      <4>1. b \notin Ahead(live, today, n)
        BY <2>3 DEF Ahead
      <4>2. QED
        BY <1>0, <4>1, AheadFinite
    <3>4. /\ IsFiniteSet(Ahead(live, today, n) \cup {b})
          /\ Cardinality(Ahead(live, today, n) \cup {b}) = Cardinality(Ahead(live, today, n)) + 1
      BY <3>3, FS_AddElement
    <3>5. Cardinality(Ahead(live', today, n)) <= Cardinality(Ahead(live, today, n) \cup {b})
      BY <3>2, <3>4, FS_Subset
    <3>6. Cardinality(Ahead(live', today, n)) \in Nat
      BY <2>5, AheadFinite
    <3>7. QED
      BY <3>4, <3>5, <3>6
  <2>8. ASSUME NEW g \in Handlers, op'[g].kind = "insert"
        PROVE  /\ op'[g].seq <= inserted' + 1 /\ op'[g].since <= inserted'
               /\ inserted' <= PadLimit =>
                    op'[g].attempt + Cardinality(Ahead(live', today', op'[g].seq))
                        <= inserted' - op'[g].since
    <3>1. op'[g] = op[g] /\ op[g].kind = "insert"
      BY <2>2, <2>8
    <3>2. /\ op[g].seq <= inserted + 1 /\ op[g].since <= inserted
          /\ inserted <= PadLimit =>
                op[g].attempt + Cardinality(Ahead(live, today, op[g].seq)) <= inserted - op[g].since
      BY <3>1 DEF RaceInv
    <3>3. PICK v, w, z : v = Cardinality(Ahead(live', today, op[g].seq))
                      /\ w = Cardinality(Ahead(live, today, op[g].seq)) /\ z = op[g]
      OBVIOUS
    <3>4. v \in Nat /\ w \in Nat /\ v <= w + 1
      BY <1>2, <2>7, <3>3
    <3>5. z.attempt \in Nat /\ z.since \in Nat /\ z.seq \in Nat
      BY <1>1, <3>1, <3>3
    <3>6. z.seq <= inserted + 1 /\ z.since <= inserted
          /\ (inserted <= PadLimit => z.attempt + w <= inserted - z.since)
      BY <3>2, <3>3
    <3>7. z.seq <= (inserted + 1) + 1 /\ z.since <= inserted + 1
          /\ (inserted + 1 <= PadLimit => z.attempt + v <= (inserted + 1) - z.since)
      BY <1>0, <3>4, <3>5, <3>6
    <3>8. QED
      BY <2>2, <3>1, <3>3, <3>7
  <2>9. QED
    BY <2>5, <2>6, <2>8 DEF Goal, RaceInv
<1>9. ASSUME NEW h \in Handlers, RetryInsert(h)
      PROVE  Goal
  <2>1. PICK o : o = op[h]
    OBVIOUS
  <2>2. /\ o \in Op /\ o.kind = "insert" /\ CodeTaken([day |-> today, seq |-> o.seq])
        /\ \A g \in Handlers \ {h} : op'[g] = op[g]
        /\ op'[h] = [o EXCEPT !.seq = o.seq + 1, !.attempt = o.attempt + 1]
        /\ UNCHANGED <<live, today, inserted>>
    BY <1>0, <1>9, <2>1 DEF RetryInsert, Continue
  <2>3. /\ op'[h].seq = o.seq + 1 /\ op'[h].attempt = o.attempt + 1 /\ op'[h].since = o.since
    <3>1. \A v, w : LET q == [o EXCEPT !.seq = v, !.attempt = w]
                    IN  q.seq = v /\ q.attempt = w /\ q.since = o.since
      BY <2>2 DEF Op, Idle
    <3>2. QED
      BY <2>2, <3>1
  <2>4. PICK b \in DOMAIN live : live[b].code = [day |-> today, seq |-> o.seq]
    BY <2>2 DEF CodeTaken
  <2>5. o.seq \in Nat /\ o.attempt \in Nat /\ o.since \in Nat /\ o.seq <= inserted
    BY <1>1, <2>1, <2>2, <2>4 DEF RaceInv
  <2>6. Cardinality(Ahead(live, today, o.seq + 1)) + 1 <= Cardinality(Ahead(live, today, o.seq))
    <3>1. b \in Ahead(live, today, o.seq) /\ b \notin Ahead(live, today, o.seq + 1)
      BY <2>4, <2>5 DEF Ahead
    <3>2. Ahead(live, today, o.seq + 1) \in SUBSET (Ahead(live, today, o.seq) \ {b})
      <4>1. \A d \in DOMAIN live : live[d].code.seq \in Nat
        BY <1>0, RowFields
      <4>2. QED
        BY <2>5, <3>1, <4>1 DEF Ahead
    <3>3. IsFiniteSet(Ahead(live, today, o.seq))
      BY <1>0, AheadFinite
    <3>4. /\ IsFiniteSet(Ahead(live, today, o.seq) \ {b})
          /\ Cardinality(Ahead(live, today, o.seq) \ {b}) = Cardinality(Ahead(live, today, o.seq)) - 1
      BY <3>1, <3>3, FS_RemoveElement
    <3>5. Cardinality(Ahead(live, today, o.seq + 1)) <= Cardinality(Ahead(live, today, o.seq) \ {b})
      BY <3>2, <3>4, FS_Subset
    <3>6. QED
      BY <1>2, <3>4, <3>5
  <2>7. /\ o.since <= inserted
        /\ inserted <= PadLimit =>
              o.attempt + Cardinality(Ahead(live, today, o.seq)) <= inserted - o.since
    BY <2>1, <2>2 DEF RaceInv
  <2>8. /\ o.seq + 1 <= inserted + 1
        /\ inserted <= PadLimit =>
              (o.attempt + 1) + Cardinality(Ahead(live, today, o.seq + 1)) <= inserted - o.since
    BY <1>0, <1>2, <2>5, <2>6, <2>7
  <2>9. \A g \in Handlers : op'[g].kind = "insert" =>
          /\ op'[g].seq <= inserted + 1 /\ op'[g].since <= inserted
          /\ inserted <= PadLimit =>
                op'[g].attempt + Cardinality(Ahead(live, today, op'[g].seq)) <= inserted - op'[g].since
    <3>1. SUFFICES ASSUME NEW g \in Handlers, op'[g].kind = "insert"
                   PROVE  /\ op'[g].seq <= inserted + 1 /\ op'[g].since <= inserted
                          /\ inserted <= PadLimit =>
                                op'[g].attempt + Cardinality(Ahead(live, today, op'[g].seq))
                                    <= inserted - op'[g].since
      OBVIOUS
    <3>2. CASE g = h
      BY <2>3, <2>7, <2>8, <3>2
    <3>3. CASE g # h
      BY <2>2, <3>1, <3>3 DEF RaceInv
    <3>4. QED
      BY <3>2, <3>3
  <2>10. QED
    BY <2>2, <2>9 DEF Goal, RaceInv
<1>10. Idle.kind # "insert"
  BY DEF Idle
<1>11. ASSUME NEW h \in Handlers, WriteReview(h) \/ Abandon(h)
       PROVE  Goal
  BY <1>4, <1>5, <1>10, <1>11 DEF WriteReview, Abandon, End
<1>12. ASSUME NEW h \in Handlers, NEW b \in Batches, NEW u \in Users,
              \/ \E target \in {"approved", "rejected"} : LockForStage(h, b, u, target)
              \/ \E date \in 0..MaxDate : ReadForAmend(h, b, u, date)
       PROVE  Goal
  BY <1>4, <1>5, <1>12 DEF LockForStage, ReadForAmend, Begin
<1>13. ASSUME NEW h \in Handlers, CommitStage(h)
       PROVE  Goal
  <2>1. op[h].batch \in DOMAIN live /\ live' = Put(live, op[h].batch, Restaged(live[op[h].batch], op[h].target))
        /\ op' = [op EXCEPT ![h] = Idle] /\ UNCHANGED <<today, inserted>>
    BY <1>13 DEF CommitStage, End, TypeInv, HeldRows
  <2>2. \A s : Restaged(live[op[h].batch], s).code = live[op[h].batch].code
    BY <1>0, <2>1, RowFields DEF Restaged, Row
  <2>3. CodesKept(live, live')
    BY <2>1, <2>2 DEF CodesKept, Put
  <2>4. QED
    BY <1>5, <1>10, <2>1, <2>3
<1>14. ASSUME NEW h \in Handlers, WriteAmend(h)
       PROVE  Goal
  <2>1. /\ DOMAIN live' = DOMAIN live
        /\ \A b \in DOMAIN live :
              live'[b] = live[b] \/ live'[b] = [live[b] EXCEPT !.file = op[h].file]
        /\ UNCHANGED <<today, inserted>>
    BY <1>14 DEF WriteAmend
  <2>2. \A x \in Row : \A v : [x EXCEPT !.file = v].code = x.code
    BY DEF Row
  <2>3. \A b \in DOMAIN live : live'[b].code = live[b].code
    <3>1. SUFFICES ASSUME NEW b \in DOMAIN live PROVE live'[b].code = live[b].code
      OBVIOUS
    <3>2. live[b] \in Row
      BY <1>0, RowFields
    <3>3. PICK v : live'[b] = live[b] \/ live'[b] = [live[b] EXCEPT !.file = v]
      BY <2>1
    <3>4. QED
      BY <2>2, <3>2, <3>3
  <2>4. CodesKept(live, live')
    BY <2>1, <2>3 DEF CodesKept
  <2>5. QED
    BY <1>5, <1>14, <2>1, <2>4 DEF WriteAmend, Continue
<1>15. ASSUME NEW b \in Batches, DeleteBatch(b)
       PROVE  Goal
  <2>1. CodesKept(live, live')
    BY <1>15 DEF DeleteBatch, CodesKept, Without
  <2>2. QED
    BY <1>3, <1>15, <2>1 DEF DeleteBatch
<1>16. ASSUME ArchiveCommit
       PROVE  Goal
  <2>1. CodesKept(live, live') /\ UNCHANGED <<op, today, inserted>>
    BY <1>16 DEF ArchiveCommit, CodesKept, Without
  <2>2. QED
    BY <1>3, <2>1
<1>17. ASSUME NewDay
       PROVE  Goal
  <2>1. /\ today' = today + 1 /\ inserted' = 0 /\ UNCHANGED <<live, op>>
        /\ \A h \in Handlers : op[h].kind # "insert"
    BY <1>17 DEF NewDay
  <2>2. \A b \in DOMAIN live : live[b].code.day # today + 1
    <3>1. \A b \in DOMAIN live : live[b].code.day \in Nat /\ live[b].code.day <= today
      BY <1>0, RowFields DEF CodeInv, Days
    <3>2. QED
      BY <1>0, <3>1
  <2>3. QED
    BY <1>0, <2>1, <2>2 DEF Goal, RaceInv
<1>18. ASSUME ArchiveCopy \/ ArchiveRollback \/ UNCHANGED vars
       PROVE  Goal
  BY <1>3, <1>4, <1>18 DEF ArchiveCopy, ArchiveRollback, vars
<1>19. Goal
  BY <1>6, <1>7, <1>8, <1>9, <1>11, <1>12, <1>13, <1>14, <1>15, <1>16, <1>17, <1>18 DEF Next
<1>20. QED
  BY <1>19 DEF Goal

\* While the day has no more batches than two digits count, a submission is
\* turned away from as many codes at most as batches were inserted since it read
\* the last one: it runs out of attempts only when that many overtook it.
THEOREM AttemptsCountRaces == Spec => []AttemptsAreRaces
<1>1. TypeInv /\ CodeInv /\ RaceInv => AttemptsAreRaces
  <2> SUFFICES ASSUME TypeInv, CodeInv, RaceInv, inserted <= PadLimit,
                      NEW h \in Handlers, op[h].kind = "insert"
               PROVE  op[h].attempt <= inserted - op[h].since
    BY DEF AttemptsAreRaces
  <2>1. op[h].attempt \in Nat /\ op[h].since \in Nat /\ inserted \in Nat
    BY OpFields DEF TypeInv, TypeOK
  <2>2. Cardinality(Ahead(live, today, op[h].seq)) \in Nat
    BY AheadFinite DEF RaceInv
  <2>3. op[h].attempt + Cardinality(Ahead(live, today, op[h].seq)) <= inserted - op[h].since
    BY DEF RaceInv
  <2>4. QED
    BY <2>1, <2>2, <2>3
<1>2. Init => TypeInv /\ CodeInv /\ RaceInv
  BY TypeInit, CodeInit, RaceInit
<1>3. TypeInv /\ CodeInv /\ RaceInv /\ [Next]_vars => (TypeInv /\ CodeInv /\ RaceInv)'
  BY TypeStep, CodeStep, RaceStep
<1>4. QED
  BY <1>1, <1>2, <1>3, PTL DEF Spec

-----------------------------------------------------------------------------
(* Fields *)

\* A function on 1..n is a sequence of n elements.
LEMMA LenOfFunction ==
    ASSUME NEW n \in Nat, NEW S, NEW s \in [1..n -> S]
    PROVE  s \in Seq(S) /\ Len(s) = n
<1>1. s \in Seq(S)
  BY SeqDef
<1>2. Len(s) \in Nat /\ DOMAIN s = 1..Len(s)
  BY <1>1, LenProperties
<1>3. DOMAIN s = 1..n
  OBVIOUS
<1>4. 1..n = 1..Len(s) => n = Len(s)
  BY <1>2
<1>5. QED
  BY <1>1, <1>2, <1>3, <1>4

\* slice takes a prefix.
LEMMA CutType ==
    ASSUME NEW S, NEW s \in Seq(S), NEW n \in Nat
    PROVE  /\ Cut(s, n) \in Seq(S)
           /\ Len(Cut(s, n)) = IF Len(s) < n THEN Len(s) ELSE n
           /\ \A i \in 1..Len(Cut(s, n)) : Cut(s, n)[i] = s[i]
<1> DEFINE m == IF Len(s) < n THEN Len(s) ELSE n
<1>1. Len(s) \in Nat /\ m \in 0..Len(s)
  BY LenProperties
<1>2. /\ SubSeq(s, 1, m) \in Seq(S)
      /\ Len(SubSeq(s, 1, m)) = IF 1 <= m THEN m - 1 + 1 ELSE 0
      /\ \A i \in 1..(m - 1 + 1) : SubSeq(s, 1, m)[i] = s[1 + i - 1]
  BY <1>1, SubSeqProperties
<1>3. QED
  BY <1>1, <1>2 DEF Cut

\* A field has its width.
LEMMA FieldType ==
    ASSUME NEW s \in Text, NEW n \in Nat
    PROVE  Field(s, n) \in Text /\ Len(Field(s, n)) = n
<1>1. Field(s, n) \in [1..n -> Char]
  BY TextAssumption, ElementOfSeq DEF Field, Text, Plain
<1>2. QED
  BY <1>1, LenOfFunction DEF Text

\* Two sequences written alike.
LEMMA ToAsciiType ==
    ASSUME NEW s \in Text
    PROVE  /\ ToAscii(s) \in Text /\ Len(ToAscii(s)) = Len(s)
           /\ AsciiOnly(s) => ToAscii(s) = s
<1>1. Len(s) \in Nat /\ s \in [1..Len(s) -> Char]
  BY LenProperties DEF Text
<1>2. ToAscii(s) \in [1..Len(s) -> Char]
  BY <1>1, TextAssumption DEF ToAscii
<1>3. AsciiOnly(s) => ToAscii(s) = s
  BY <1>1 DEF AsciiOnly, ToAscii
<1>4. QED
  BY <1>1, <1>2, <1>3, LenOfFunction DEF Text

LEMMA PadRType ==
    ASSUME NEW s \in Text, NEW n \in Nat
    PROVE  PadR(s, n) \in Text /\ Len(PadR(s, n)) = n
BY CutType, ToAsciiType, FieldType DEF PadR, Text

\* The server's padding and the browser's agree on ASCII.
LEMMA PadRIsField ==
    ASSUME NEW s \in Text, NEW n \in Nat, AsciiOnly(s)
    PROVE  PadR(s, n) = Field(s, n)
<1> DEFINE c == Cut(s, n)
<1>1. /\ c \in Text /\ Len(c) = IF Len(s) < n THEN Len(s) ELSE n
      /\ \A i \in 1..Len(c) : c[i] = s[i]
  BY CutType DEF Text
<1>2. Len(s) \in Nat /\ Len(c) <= Len(s)
  BY <1>1, LenProperties DEF Text
<1>3. AsciiOnly(c)
  BY <1>1, <1>2 DEF AsciiOnly
<1>4. ToAscii(c) = c
  BY <1>1, <1>3, ToAsciiType
<1>5. \A i \in 1..n : i <= Len(c) <=> i <= Len(s)
  BY <1>1, <1>2
<1>6. Field(c, n) = Field(s, n)
  BY <1>1, <1>5 DEF Field
<1>7. QED
  BY <1>4, <1>6 DEF PadR

-----------------------------------------------------------------------------
(* Numbers *)

\* A number that fits its field is written whole.
LEMMA NumbersFit ==
    /\ \A n \in 0..Limit : Ten(n) = n
    /\ \A n \in Nat : Six(n) = n <=> n <= MaxLines
BY WidthsAssumption DEF Ten, Six

LEMMA CentsFit ==
    ASSUME NEW tx \in Transaction, RowOk(tx)
    PROVE  Cents(tx) \in 0..Limit
<1>1. tx.amount \in Int /\ tx.amount > 0
  BY DEF Transaction, RowOk
<1>2. (tx.amount + 5) \div 10 \in Nat
  BY <1>1
<1>3. QED
  BY <1>2, WidthsAssumption DEF RowOk, Cents

\* A total of a list is one of the list with a zero, and of zeros with the total, at its end.
LEMMA TotalWithZero ==
    ASSUME NEW n \in Nat, NEW total \in Nat,
           NEW s \in [1..n -> Nat], Len(s) = n, AddsUp(s, total),
           NEW t \in [1..n + 1 -> Nat], Len(t) = n + 1,
           \A i \in 1..n : t[i] = s[i], t[n + 1] = 0
    PROVE  AddsUp(t, total)
<1>1. PICK r \in [0..n -> 0..total] :
        /\ r[0] = 0 /\ r[n] = total
        /\ \A i \in 1..n : r[i] = r[i - 1] + s[i]
  BY DEF AddsUp
<1> DEFINE q == [i \in 0..n + 1 |-> IF i <= n THEN r[i] ELSE total]
<1>2. q \in [0..n + 1 -> 0..total]
  BY <1>1
<1>3. q[0] = 0 /\ q[n + 1] = total
  BY <1>1
<1>4. ASSUME NEW i \in 1..n + 1
      PROVE  q[i] = q[i - 1] + t[i]
  <2>1. CASE i \in 1..n
    BY <1>1, <2>1
  <2>2. CASE i = n + 1
    <3>1. q[i] = total /\ q[i - 1] = total /\ t[i] = 0
      BY <1>1, <2>2
    <3>2. QED
      BY <3>1
  <2>3. QED
    BY <2>1, <2>2
<1> HIDE DEF q
<1>5. QED
  BY <1>2, <1>3, <1>4 DEF AddsUp

LEMMA TotalAtEnd ==
    ASSUME NEW n \in Nat, NEW total \in Nat,
           NEW t \in [1..n + 1 -> Nat], Len(t) = n + 1,
           \A i \in 1..n : t[i] = 0, t[n + 1] = total
    PROVE  AddsUp(t, total)
<1> DEFINE q == [i \in 0..n + 1 |-> IF i <= n THEN 0 ELSE total]
<1>1. q \in [0..n + 1 -> 0..total] /\ q[0] = 0 /\ q[n + 1] = total
  OBVIOUS
<1>2. ASSUME NEW i \in 1..n + 1
      PROVE  q[i] = q[i - 1] + t[i]
  <2>1. CASE i \in 1..n
    BY <2>1
  <2>2. CASE i = n + 1
    BY <2>2
  <2>3. QED
    BY <2>1, <2>2
<1> HIDE DEF q
<1>3. QED
  BY <1>1, <1>2 DEF AddsUp

-----------------------------------------------------------------------------
(* Files *)

Line == [bsb: Digits, account: Digits, code: Nat, cents: Nat, ref: Text, remitter: Text, rest: Text]

\* A file of a draft: a payment for each transaction, then the balancing debit.
FileOf(f, d, total) ==
    LET n == Len(d.txs)
    IN  /\ f.details \in [1..n + 1 -> Line] /\ Len(f.details) = n + 1
        /\ \A i \in 1..n :
              /\ f.details[i].code = 53 /\ f.details[i].cents = Cents(d.txs[i])
              /\ f.details[i].bsb = d.txs[i].bsb.digits
              /\ f.details[i].account = d.txs[i].account.digits
        /\ f.details[n + 1].code = DebitCode /\ f.details[n + 1].cents = total
        /\ f.trailer = [net |-> 0, credits |-> total, debits |-> total, count |-> Six(n + 1)]

LEMMA DraftType ==
    ASSUME NEW d \in Draft
    PROVE  /\ d.head \in HeaderData /\ Len(d.txs) \in Nat
           /\ \A i \in 1..Len(d.txs) : d.txs[i] \in Transaction
BY LenProperties, ElementOfSeq DEF Draft

LEMMA PaymentType ==
    ASSUME NEW d \in Draft, NEW i \in 1..Len(d.txs), RowOk(d.txs[i])
    PROVE  /\ Payment(d.head, d.txs[i]) \in Line
           /\ Payment(d.head, d.txs[i]).cents = Cents(d.txs[i])
<1> DEFINE tx == d.txs[i]
<1>1. tx \in Transaction /\ d.head \in HeaderData
  BY DraftType
<1>2. Cents(tx) \in 0..Limit /\ Ten(Cents(tx)) = Cents(tx)
  BY <1>1, CentsFit, NumbersFit
<1>3. PadR(tx.ref, 18) \in Text /\ PadR(d.head.remitter, 16) \in Text
  BY <1>1, PadRType DEF Transaction, HeaderData
<1>4. tx.bsb.digits \in Digits /\ tx.account.digits \in Digits /\ tx.rest \in Text
  BY <1>1 DEF Transaction, Typed
<1> HIDE DEF tx
<1>5. Payment(d.head, tx) \in Line /\ Payment(d.head, tx).cents = Cents(tx)
  BY <1>2, <1>3, <1>4 DEF Payment, Line
<1>6. QED
  BY <1>5 DEF tx

\* The text of the balancing debit before it is padded.
LEMMA ReferenceType ==
    ASSUME NEW s \in Text, NEW date \in Date
    PROVE  /\ s \o <<"-">> \o date \in Text
           /\ Len(s \o <<"-">> \o date) = Len(s) + 7
<1>1. date \in Text /\ Len(date) = 6
  <2>1. date \in [1..6 -> Char]
    BY TextAssumption DEF Date, Plain
  <2>2. QED
    BY <2>1, LenOfFunction DEF Text
<1>2. <<"-">> \in Text /\ Len(<<"-">>) = 1
  BY TextAssumption DEF Text, Plain
<1> DEFINE u == s \o <<"-">>
<1>3. u \in Text /\ Len(u) = Len(s) + 1 /\ Len(s) \in Nat
  BY <1>2, ConcatProperties, LenProperties DEF Text
<1> HIDE DEF u
<1>4. u \o date \in Text /\ Len(u \o date) = Len(u) + 6
  <2>1. u \in Seq(Char) /\ date \in Seq(Char)
    BY <1>1, <1>3 DEF Text
  <2>2. u \o date \in Seq(Char) /\ Len(u \o date) = Len(u) + Len(date)
    BY <2>1, ConcatProperties
  <2>3. QED
    BY <1>1, <2>2 DEF Text
<1>5. Len(u \o date) = Len(s) + 7
  BY <1>3, <1>4
<1>6. QED
  BY <1>4, <1>5 DEF u

LEMMA ProcType ==
    ASSUME NEW h, NEW day \in Date
    PROVE  Proc(h, day) \in Date
BY DEF Proc

LEMMA BalancingType ==
    ASSUME NEW h \in HeaderData, NEW date \in Date, NEW total \in 0..Limit
    PROVE  Balancing(h, date, total) \in Line /\ Balancing(h, date, total).cents = total
<1>1. total \in Nat /\ Ten(total) = total
  BY NumbersFit, WidthsAssumption
<1>2. Cut(h.desc, 12) \in Text
  BY CutType DEF HeaderData, Text
<1>3. PadR(Cut(h.desc, 12) \o <<"-">> \o date, 18) \in Text /\ PadR(h.remitter, 16) \in Text
  BY <1>2, ReferenceType, PadRType DEF HeaderData
<1>4. h.bsb.digits \in Digits /\ h.account.digits \in Digits /\ h.rest \in Text
  BY DEF HeaderData, Typed
<1>5. QED
  BY <1>1, <1>3, <1>4 DEF Balancing, Line, DebitCode

LEMMA BuiltIsFileOf ==
    ASSUME NEW d \in Draft, NEW total \in Nat, NEW day \in Date, Buildable(d, total)
    PROVE  FileOf(BuildAbaFile(d, total, day), d, total)
<1> DEFINE n == Len(d.txs)
           date == Proc(d.head, day)
           f == BuildAbaFile(d, total, day)
<1>1. n \in Nat /\ d.head \in HeaderData /\ date \in Date
  BY DraftType, ProcType
<1>2. total \in 0..Limit /\ Ten(total) = total /\ Ten(total - total) = 0
  BY NumbersFit, WidthsAssumption DEF Buildable
<1>3. \A i \in 1..n : /\ Payment(d.head, d.txs[i]) \in Line
                      /\ Payment(d.head, d.txs[i]).cents = Cents(d.txs[i])
  BY PaymentType DEF Buildable
<1>4. Balancing(d.head, date, total) \in Line /\ Balancing(d.head, date, total).cents = total
  BY <1>1, <1>2, BalancingType
<1>5. /\ f.details = [i \in 1..n + 1 |-> IF i <= n THEN Payment(d.head, d.txs[i])
                                         ELSE Balancing(d.head, date, total)]
      /\ f.trailer = [net |-> 0, credits |-> total, debits |-> total, count |-> Six(n + 1)]
  BY <1>2 DEF BuildAbaFile
<1> HIDE DEF n, date, f
<1>6. f.details \in [1..n + 1 -> Line]
  BY <1>1, <1>3, <1>4, <1>5
<1>7. Len(f.details) = n + 1
  BY <1>1, <1>6, LenOfFunction
<1>8. \A i \in 1..n : f.details[i] = Payment(d.head, d.txs[i])
  BY <1>1, <1>5
<1>9. f.details[n + 1] = Balancing(d.head, date, total)
  BY <1>1, <1>5
<1>10. \A i \in 1..n : /\ f.details[i].code = 53 /\ f.details[i].cents = Cents(d.txs[i])
                       /\ f.details[i].bsb = d.txs[i].bsb.digits
                       /\ f.details[i].account = d.txs[i].account.digits
  <2>1. TAKE i \in 1..n
  <2>2. /\ Payment(d.head, d.txs[i]).code = 53
        /\ Payment(d.head, d.txs[i]).bsb = d.txs[i].bsb.digits
        /\ Payment(d.head, d.txs[i]).account = d.txs[i].account.digits
    BY DEF Payment
  <2>3. QED
    BY <1>3, <1>8, <2>2
<1>11. f.details[n + 1].code = DebitCode /\ f.details[n + 1].cents = total
  BY <1>4, <1>9 DEF Balancing
<1>12. QED
  BY <1>5, <1>6, <1>7, <1>10, <1>11 DEF FileOf, n, f

LEMMA FileAddsUp ==
    ASSUME NEW d \in Draft, NEW total \in Nat, Buildable(d, total), NEW f, FileOf(f, d, total)
    PROVE  /\ AddsUp(Amounts(f, CreditCodes), total)
           /\ AddsUp(Amounts(f, {DebitCode}), total)
<1> DEFINE n == Len(d.txs)
           s == CentsOf(d)
           credits == Amounts(f, CreditCodes)
           debits == Amounts(f, {DebitCode})
<1>1. n \in Nat /\ \A i \in 1..n : Cents(d.txs[i]) \in Nat
  BY DraftType, CentsFit DEF Buildable
<1>2. s \in [1..n -> Nat] /\ AddsUp(s, total)
  BY <1>1 DEF CentsOf, Buildable
<1>3. Len(s) = n
  BY <1>1, <1>2, LenOfFunction
<1>4. /\ f.details \in [1..n + 1 -> Line] /\ Len(f.details) = n + 1
      /\ \A i \in 1..n : f.details[i].code = 53 /\ f.details[i].cents = Cents(d.txs[i])
      /\ f.details[n + 1].code = DebitCode /\ f.details[n + 1].cents = total
  BY DEF FileOf
<1>5. \A i \in 1..n + 1 : f.details[i].cents \in Nat
  BY <1>4 DEF Line
<1>6. credits \in [1..n + 1 -> Nat] /\ debits \in [1..n + 1 -> Nat]
  BY <1>4, <1>5 DEF Amounts
<1>7. Len(credits) = n + 1 /\ Len(debits) = n + 1
  BY <1>1, <1>6, LenOfFunction
<1>8. \A i \in 1..n : credits[i] = s[i] /\ debits[i] = 0
  BY <1>1, <1>4 DEF Amounts, CreditCodes, DebitCode, CentsOf
<1>9. credits[n + 1] = 0 /\ debits[n + 1] = total
  BY <1>1, <1>4 DEF Amounts, CreditCodes, DebitCode
<1> HIDE DEF n, s, credits, debits
<1>10. AddsUp(credits, total)
  <2>1. \A i \in 1..n : credits[i] = s[i]
    BY <1>8
  <2>2. QED
    BY <1>1, <1>2, <1>3, <1>6, <1>7, <1>9, <2>1, TotalWithZero
<1>11. AddsUp(debits, total)
  BY <1>1, <1>6, <1>7, <1>8, <1>9, TotalAtEnd
<1>12. QED
  BY <1>10, <1>11 DEF credits, debits

\* The server accepts the file, and its credits are the draft's transactions.
LEMMA FileIsAsShown ==
    ASSUME NEW d \in Draft, NEW total \in Nat, Buildable(d, total), NEW f, FileOf(f, d, total)
    PROVE  AcceptedAsShown(d, f)
<1> DEFINE n == Len(d.txs)
<1>1. /\ n \in Nat /\ Len(f.details) = n + 1
      /\ \A i \in 1..n : /\ f.details[i].code = 53 /\ f.details[i].cents = Cents(d.txs[i])
                         /\ f.details[i].bsb = d.txs[i].bsb.digits
                         /\ f.details[i].account = d.txs[i].account.digits
      /\ f.details[n + 1].code = DebitCode
      /\ f.trailer = [net |-> 0, credits |-> total, debits |-> total, count |-> Six(n + 1)]
  BY DraftType DEF FileOf
<1>2. Accepted(f) <=> Fits(d)
  <2>1. \A i \in 1..n + 1 : f.details[i].code \in CreditCodes \cup {DebitCode}
    BY <1>1 DEF CreditCodes, DebitCode
  <2>2. f.trailer.net = Distance(f.trailer.credits, f.trailer.debits)
    BY <1>1 DEF Distance
  <2>3. f.trailer.count = n + 1 <=> n + 1 <= MaxLines
    BY <1>1, NumbersFit
  <2>4. /\ AddsUp(Amounts(f, CreditCodes), f.trailer.credits)
        /\ AddsUp(Amounts(f, {DebitCode}), f.trailer.debits)
    <3>1. f.trailer.credits = total /\ f.trailer.debits = total
      BY <1>1
    <3>2. AddsUp(Amounts(f, CreditCodes), total) /\ AddsUp(Amounts(f, {DebitCode}), total)
      BY FileAddsUp
    <3>3. QED
      BY <3>1, <3>2
  <2>5. QED
    BY <1>1, <2>1, <2>2, <2>3, <2>4 DEF Accepted, Fits
<1>3. CreditLines(f) = 1..n
  BY <1>1 DEF CreditLines, DebitCode
<1>4. SameCredits(d.txs, f)
  <2> DEFINE line == [i \in 1..n |-> i]
  <2>1. /\ line \in [1..n -> CreditLines(f)]
        /\ \A i \in CreditLines(f) : \E k \in 1..n : line[k] = i
        /\ \A k, m \in 1..n : line[k] = line[m] => k = m
    BY <1>3
  <2>2. \A k \in 1..n :
          /\ Cents(d.txs[k]) = f.details[line[k]].cents
          /\ BuildBlacklistKey(d.txs[k].bsb.digits, d.txs[k].account.digits)
               = BuildBlacklistKey(f.details[line[k]].bsb, f.details[line[k]].account)
    BY <1>1
  <2> HIDE DEF line
  <2>3. QED
    BY <2>1, <2>2 DEF SameCredits
<1>5. QED
  BY <1>2, <1>4 DEF AcceptedAsShown

\* A payment has a BSB of six digits and an account: its keys are there.
LEMMA KeysExist ==
    ASSUME NEW tx \in Transaction, RowOk(tx)
    PROVE  /\ NormalizeBsb(tx.bsb.digits) # Nothing
           /\ BuildBlacklistKey(tx.bsb.digits, tx.account.digits) # Nothing
           /\ Given(tx.bsb) /\ Given(tx.account)
<1> DEFINE bsb == tx.bsb.digits
           account == tx.account.digits
<1>1. /\ bsb \in Digits /\ Len(bsb) = 6
      /\ account \in Digits /\ Len(account) \in 5..9
  BY DEF Transaction, Typed, RowOk
<1> HIDE DEF bsb, account
<1>2. bsb \in Text /\ account \in Text
  BY <1>1, SeqMonotonic, TextAssumption DEF Digits, Text, Plain
<1>3. account # Nothing /\ account # <<>> /\ bsb # <<>>
  <2>1. account # Nothing
    BY <1>2, TextAssumption
  <2>2. Len(account) # 0 /\ Len(bsb) # 0
    BY <1>1
  <2>3. QED
    BY <2>1, <2>2, EmptySeq
<1>4. Cut(bsb, 6) \in Digits /\ Cut(bsb, 6) \in Text
  BY <1>1, <1>2, CutType DEF Digits, Text
<1>5. NormalizeBsb(bsb) = Cut(bsb, 6)
  BY <1>1 DEF NormalizeBsb
<1>6. BuildBlacklistKey(bsb, account) = [bsb |-> Cut(bsb, 6), account |-> account]
  BY <1>1, <1>3 DEF BuildBlacklistKey
<1>7. [bsb |-> Cut(bsb, 6), account |-> account] \in [bsb: Digits, account: Digits]
  BY <1>1, <1>4
<1>8. NormalizeBsb(bsb) # Nothing /\ BuildBlacklistKey(bsb, account) # Nothing
  BY <1>4, <1>5, <1>6, <1>7, TextAssumption
<1>9. QED
  BY <1>3, <1>8 DEF Given, bsb, account

LEMMA FileIsBlockedAlike ==
    ASSUME NEW d \in Draft, NEW total \in Nat, Buildable(d, total), NEW f, FileOf(f, d, total),
           NEW entries \in SUBSET Entry
    PROVE  BlockedAlike(d, f, entries)
<1> DEFINE n == Len(d.txs)
<1>1. /\ n \in Nat /\ Len(f.details) = n + 1
      /\ \A i \in 1..n : /\ f.details[i].code = 53
                         /\ f.details[i].bsb = d.txs[i].bsb.digits
                         /\ f.details[i].account = d.txs[i].account.digits
      /\ f.details[n + 1].code = DebitCode
  BY DraftType DEF FileOf
<1>2. CreditLines(f) = 1..n
  BY <1>1 DEF CreditLines, DebitCode
<1>3. ASSUME NEW i \in 1..n
      PROVE  IsBlacklistedCombo(d.txs[i].bsb.digits, d.txs[i].account.digits, entries)
               <=> \E e \in entries : Blocks(e, f.details[i].bsb, f.details[i].account)
  <2> DEFINE bsb == d.txs[i].bsb.digits
             account == d.txs[i].account.digits
  <2>1. NormalizeBsb(bsb) # Nothing /\ BuildBlacklistKey(bsb, account) # Nothing
    BY DraftType, KeysExist DEF Buildable
  <2>2. \A e \in entries : e.all \in BOOLEAN
    BY DEF Entry
  <2>3. f.details[i].bsb = bsb /\ f.details[i].account = account
    BY <1>1
  <2> HIDE DEF bsb, account
  <2>4. (\E e \in entries : e.all /\ NormalizeBsb(e.bsb) = NormalizeBsb(bsb))
          <=> NormalizeBsb(bsb) \in {NormalizeBsb(e.bsb) : e \in {x \in entries : x.all}}
    OBVIOUS
  <2>5. (\E e \in entries : ~e.all /\ BuildBlacklistKey(e.bsb, e.account)
                                       = BuildBlacklistKey(bsb, account))
          <=> BuildBlacklistKey(bsb, account)
                \in {BuildBlacklistKey(e.bsb, e.account) : e \in {x \in entries : ~x.all}}
    OBVIOUS
  <2>6. IsBlacklistedCombo(bsb, account, entries)
          <=> \E e \in entries : Blocks(e, bsb, account)
    BY <2>1, <2>2, <2>4, <2>5 DEF IsBlacklistedCombo, Blocks
  <2>7. QED
    BY <2>3, <2>6 DEF bsb, account
<1>4. \A i \in 1..n : Given(d.txs[i].bsb) /\ Given(d.txs[i].account)
  BY DraftType, KeysExist DEF Buildable
<1>5. QED
  BY <1>2, <1>3, <1>4 DEF BlockedAlike, FindBlockedTransactions, FindBlacklistedCredit

-----------------------------------------------------------------------------
(* Amended files *)

\* Trimmed text ends at one place.
LEMMA EndExists ==
    ASSUME NEW s \in Text
    PROVE  \E n \in 0..Len(s) : EndsAt(s, n)
<1> DEFINE T == {n \in 0..Len(s) : \A i \in n + 1..Len(s) : s[i] = Blank}
<1>1. Len(s) \in Nat
  BY LenProperties DEF Text
<1>2. T \in SUBSET Nat /\ Len(s) \in T
  BY <1>1
<1>3. PICK n \in T : \A m \in T : n <= m
  BY <1>2, LeastNatural
<1>4. ASSUME n > 0, s[n] = Blank
      PROVE  FALSE
  <2>1. n \in 0..Len(s) /\ \A i \in n + 1..Len(s) : s[i] = Blank
    OBVIOUS
  <2>2. \A i \in n - 1 + 1..Len(s) : i = n \/ i \in n + 1..Len(s)
    BY <1>1, <2>1
  <2>3. n - 1 \in 0..Len(s)
    BY <1>1, <1>4, <2>1
  <2>4. n - 1 \in T
    BY <1>4, <2>1, <2>2, <2>3
  <2>5. QED
    BY <1>3, <2>1, <2>4
<1>5. QED
  BY <1>4 DEF EndsAt

LEMMA EndIsUnique ==
    ASSUME NEW s \in Text, NEW n \in 0..Len(s), EndsAt(s, n)
    PROVE  n = CHOOSE m \in 0..Len(s) : EndsAt(s, m)
<1>1. Len(s) \in Nat
  BY LenProperties DEF Text
<1>2. ASSUME NEW m \in 0..Len(s), EndsAt(s, m)
      PROVE  m = n
  <2>1. ~(m < n)
    <3>1. m < n => n \in m + 1..Len(s) /\ n > 0
      BY <1>1
    <3>2. QED
      BY <1>2, <3>1 DEF EndsAt
  <2>2. ~(n < m)
    <3>1. n < m => m \in n + 1..Len(s) /\ m > 0
      BY <1>1
    <3>2. QED
      BY <1>2, <3>1 DEF EndsAt
  <2>3. QED
    BY <1>1, <2>1, <2>2
<1>3. QED
  BY <1>2

LEMMA TrimEndType ==
    ASSUME NEW s \in Text
    PROVE  TrimEnd(s) \in Text
<1> DEFINE n == CHOOSE m \in 0..Len(s) : EndsAt(s, m)
<1>1. n \in 0..Len(s)
  BY EndExists
<1>2. Len(s) \in Nat
  BY LenProperties DEF Text
<1> HIDE DEF n
<1>3. SubSeq(s, 1, n) \in Seq(Char)
  BY <1>1, <1>2, SubSeqProperties DEF Text
<1>4. QED
  BY <1>3 DEF TrimEnd, Text, n

\* Trimming a field gives back a text that fits it and does not end in a blank.
LEMMA TrimEndOfField ==
    ASSUME NEW s \in Text, NEW n \in Nat, Len(s) <= n, NoBlankEnd(s)
    PROVE  TrimEnd(Field(s, n)) = s
<1> DEFINE x == Field(s, n)
           k == Len(s)
<1>1. x \in Text /\ Len(x) = n /\ k \in Nat /\ k <= n
  BY FieldType, LenProperties DEF Text
<1>2. \A i \in 1..n : x[i] = IF i <= k THEN s[i] ELSE Blank
  BY DEF Field
<1> HIDE DEF x
<1>3. EndsAt(x, k)
  BY <1>1, <1>2 DEF NoBlankEnd, EndsAt
<1>4. TrimEnd(x) = SubSeq(x, 1, k)
  <2>1. k \in 0..Len(x)
    BY <1>1
  <2>2. k = CHOOSE m \in 0..Len(x) : EndsAt(x, m)
    BY <1>1, <1>3, <2>1, EndIsUnique
  <2>3. QED
    BY <2>2 DEF TrimEnd
<1>5. /\ SubSeq(x, 1, k) \in Seq(Char) /\ Len(SubSeq(x, 1, k)) = k
      /\ \A i \in 1..k : SubSeq(x, 1, k)[i] = x[i]
  BY <1>1, SubSeqProperties DEF Text
<1>6. \A i \in 1..k : SubSeq(x, 1, k)[i] = s[i]
  BY <1>1, <1>2, <1>5
<1>7. SubSeq(x, 1, k) = s
  BY <1>1, <1>5, <1>6, SeqEqual DEF Text
<1>8. QED
  BY <1>4, <1>7 DEF x

AmendmentRef(f, v) == Field(TrimEnd(AmendedDesc(f.head.desc, v)) \o <<"-">> \o v.proc, 18)

LEMMA AmendedDescType ==
    ASSUME NEW desc \in Text, NEW v \in Amendment
    PROVE  AmendedDesc(desc, v) \in Text
BY FieldType DEF AmendedDesc, Amendment

LEMMA AmendmentRefType ==
    ASSUME NEW f, f.head.desc \in Text, NEW v \in Amendment
    PROVE  AmendmentRef(f, v) \in Text
<1>1. TrimEnd(AmendedDesc(f.head.desc, v)) \in Text
  BY AmendedDescType, TrimEndType
<1>2. v.proc \in Date
  BY DEF Amendment
<1>3. QED
  BY <1>1, <1>2, ReferenceType, FieldType DEF AmendmentRef

LEMMA AmendedLineType ==
    ASSUME NEW x \in Line, NEW ref \in Text, NEW v \in Amendment
    PROVE  /\ AmendedLine(x, ref, v) \in Line
           /\ AmendedLine(x, ref, v).code = x.code /\ AmendedLine(x, ref, v).cents = x.cents
           /\ AmendedLine(x, ref, v).bsb = x.bsb /\ AmendedLine(x, ref, v).account = x.account
           /\ SamePayment(x, AmendedLine(x, ref, v))
<1>1. v.remitter # Nothing => Field(v.remitter, 16) \in Text
  BY FieldType DEF Amendment
<1>2. QED
  BY <1>1 DEF AmendedLine, Line, SamePayment

LEMMA AmendedIsFileOf ==
    ASSUME NEW d \in Draft, NEW total \in Nat, NEW v \in Amendment,
           NEW f, FileOf(f, d, total), f.head.desc \in Text
    PROVE  LET g == AmendValueDate(f, v)
           IN  FileOf(g, d, total) /\ g.head.desc \in Text /\ SamePayments(f, g)
<1> DEFINE n == Len(d.txs)
           g == AmendValueDate(f, v)
           ref == AmendmentRef(f, v)
<1>1. n \in Nat /\ FileOf(f, d, total)
  BY DraftType
<1>2. f.details \in [1..n + 1 -> Line] /\ Len(f.details) = n + 1
  BY <1>1 DEF FileOf
<1>3. ref \in Text /\ g.head.desc \in Text
  <2>1. ref \in Text /\ AmendedDesc(f.head.desc, v) \in Text
    BY AmendmentRefType, AmendedDescType
  <2>2. g.head.desc = AmendedDesc(f.head.desc, v)
    BY DEF AmendValueDate
  <2>3. QED
    BY <2>1, <2>2
<1>4. /\ g.details = [i \in 1..n + 1 |-> AmendedLine(f.details[i], ref, v)]
      /\ g.trailer = f.trailer
  BY <1>2 DEF AmendValueDate, AmendmentRef
<1> HIDE DEF n, g, ref
<1>5. \A i \in 1..n + 1 :
        LET x == f.details[i]
        IN  /\ g.details[i] = AmendedLine(x, ref, v) /\ g.details[i] \in Line
            /\ g.details[i].code = x.code /\ g.details[i].cents = x.cents
            /\ g.details[i].bsb = x.bsb /\ g.details[i].account = x.account
            /\ SamePayment(x, g.details[i])
  <2>1. TAKE i \in 1..n + 1
  <2>2. f.details[i] \in Line
    BY <1>2
  <2>3. g.details[i] = AmendedLine(f.details[i], ref, v)
    BY <1>4
  <2>4. /\ AmendedLine(f.details[i], ref, v) \in Line
        /\ AmendedLine(f.details[i], ref, v).code = f.details[i].code
        /\ AmendedLine(f.details[i], ref, v).cents = f.details[i].cents
        /\ AmendedLine(f.details[i], ref, v).bsb = f.details[i].bsb
        /\ AmendedLine(f.details[i], ref, v).account = f.details[i].account
        /\ SamePayment(f.details[i], AmendedLine(f.details[i], ref, v))
    BY <1>3, <2>2, AmendedLineType
  <2>5. QED
    BY <2>3, <2>4
<1>6. g.details \in [1..n + 1 -> Line] /\ Len(g.details) = n + 1
  <2>1. g.details \in [1..n + 1 -> Line]
    BY <1>4, <1>5
  <2>2. QED
    BY <1>1, <2>1, LenOfFunction
<1>7. FileOf(g, d, total)
  <2>1. \A i \in 1..n : i \in 1..n + 1
    BY <1>1
  <2>2. n + 1 \in 1..n + 1
    BY <1>1
  <2>3. QED
    BY <1>1, <1>4, <1>5, <1>6, <2>1, <2>2 DEF FileOf, n
<1>8. SamePayments(f, g)
  BY <1>2, <1>5, <1>6 DEF SamePayments
<1>9. QED
  BY <1>3, <1>7, <1>8 DEF g

LEMMA BuiltDescType ==
    ASSUME NEW d \in Draft, NEW total, NEW day
    PROVE  BuildAbaFile(d, total, day).head.desc \in Text
<1>1. PadR(d.head.desc, 12) \in Text
  BY DraftType, PadRType DEF HeaderData
<1>2. QED
  BY <1>1 DEF BuildAbaFile

LEMMA SamePaymentsTransitive ==
    ASSUME NEW f, NEW g, NEW h, SamePayments(f, g), SamePayments(g, h)
    PROVE  SamePayments(f, h)
BY DEF SamePayments, SamePayment

-----------------------------------------------------------------------------
(* Amending and building again *)

LEMMA FieldOfCut ==
    ASSUME NEW s \in Text, NEW n \in Nat
    PROVE  Field(Cut(s, n), n) = Field(s, n)
<1> DEFINE c == Cut(s, n)
<1>1. /\ Len(c) = IF Len(s) < n THEN Len(s) ELSE n
      /\ \A i \in 1..Len(c) : c[i] = s[i]
      /\ Len(s) \in Nat
  BY CutType, LenProperties DEF Text
<1> HIDE DEF c
<1>2. \A i \in 1..n : i <= Len(c) <=> i <= Len(s)
  BY <1>1
<1>3. Field(c, n) = Field(s, n)
  BY <1>1, <1>2 DEF Field
<1>4. QED
  BY <1>3 DEF c

\* A cut of ASCII text, a hyphen and a date are ASCII.
LEMMA ReferenceIsAscii ==
    ASSUME NEW s \in Text, AsciiOnly(s), NEW date \in Date
    PROVE  AsciiOnly(s \o <<"-">> \o date)
<1>1. /\ date \in Seq(Char) /\ Len(date) = 6
      /\ \A i \in 1..6 : Ascii[date[i]] = date[i]
  <2>1. date \in [1..6 -> Char] /\ \A i \in 1..6 : date[i] \in Plain
    BY TextAssumption DEF Date, Plain
  <2>2. date \in Seq(Char) /\ Len(date) = 6
    BY <2>1, LenOfFunction
  <2>3. \A i \in 1..6 : Ascii[date[i]] = date[i]
    BY <2>1, TextAssumption
  <2>4. QED
    BY <2>2, <2>3
<1>2. <<"-">> \in Seq(Char) /\ Len(<<"-">>) = 1 /\ <<"-">>[1] = "-" /\ Ascii["-"] = "-"
  BY TextAssumption DEF Plain
<1> DEFINE h == <<"-">>
           u == s \o h
<1>3. s \in Seq(Char) /\ h \in Seq(Char) /\ Len(s) \in Nat
  BY <1>2, LenProperties DEF Text
<1> HIDE DEF h
<1>4. /\ u \in Seq(Char) /\ Len(u) = Len(s) + Len(h)
      /\ \A i \in 1..Len(s) + Len(h) : u[i] = IF i <= Len(s) THEN s[i] ELSE h[i - Len(s)]
  BY <1>3, ConcatProperties
<1>5. Len(h) = 1 /\ h[1] = "-"
  BY <1>2 DEF h
<1>6. AsciiOnly(u)
  <2>1. ASSUME NEW i \in 1..Len(u)
        PROVE  Ascii[u[i]] = u[i]
    <3>1. CASE i <= Len(s)
      <4>1. i \in 1..Len(s) /\ u[i] = s[i]
        BY <1>3, <1>4, <1>5, <3>1
      <4>2. QED
        BY <4>1 DEF AsciiOnly
    <3>2. CASE i = Len(s) + 1
      <4>1. u[i] = h[1]
        BY <1>3, <1>4, <1>5, <3>2
      <4>2. QED
        BY <1>2, <1>5, <4>1
    <3>3. QED
      BY <1>3, <1>4, <1>5, <3>1, <3>2
  <2>2. QED
    BY <2>1 DEF AsciiOnly
<1> HIDE DEF u
<1>7. /\ Len(u \o date) = Len(u) + 6
      /\ \A i \in 1..Len(u) + 6 : (u \o date)[i] = IF i <= Len(u) THEN u[i] ELSE date[i - Len(u)]
  <2>1. u \in Seq(Char) /\ date \in Seq(Char)
    BY <1>1, <1>4
  <2>2. /\ Len(u \o date) = Len(u) + Len(date)
        /\ \A i \in 1..Len(u) + Len(date) :
              (u \o date)[i] = IF i <= Len(u) THEN u[i] ELSE date[i - Len(u)]
    BY <2>1, ConcatProperties
  <2>3. QED
    BY <1>1, <2>2
<1>8. Len(u) \in Nat
  BY <1>3, <1>4, <1>5
<1>9. AsciiOnly(u \o date)
  <2>1. ASSUME NEW i \in 1..Len(u \o date)
        PROVE  Ascii[(u \o date)[i]] = (u \o date)[i]
    <3>1. CASE i <= Len(u)
      <4>1. i \in 1..Len(u) /\ (u \o date)[i] = u[i]
        BY <1>7, <1>8, <3>1
      <4>2. QED
        BY <1>6, <4>1 DEF AsciiOnly
    <3>2. CASE i > Len(u)
      <4>1. i - Len(u) \in 1..6 /\ (u \o date)[i] = date[i - Len(u)]
        BY <1>7, <1>8, <3>2
      <4>2. QED
        BY <1>1, <4>1
    <3>3. QED
      BY <1>8, <3>1, <3>2
  <2>2. QED
    BY <2>1 DEF AsciiOnly
<1>10. QED
  BY <1>9 DEF u, h

LEMMA RedraftedType ==
    ASSUME NEW d \in Draft, NEW v \in Amendment
    PROVE  LET h == Redrafted(d, v).head
           IN  /\ h \in HeaderData /\ Redrafted(d, v).txs = d.txs
               /\ h.proc = v.proc /\ v.proc \in Date
               /\ h.desc = IF v.desc = Nothing THEN d.head.desc ELSE v.desc
               /\ h.remitter = IF v.remitter = Nothing THEN d.head.remitter ELSE v.remitter
               /\ h.bsb = d.head.bsb /\ h.account = d.head.account /\ h.rest = d.head.rest
<1>1. d.head \in HeaderData
  BY DraftType
<1>2. v.proc \in Date /\ v.proc \in Text
  <2>1. v.proc \in Date
    BY DEF Amendment
  <2>2. v.proc \in [1..6 -> Char]
    BY <2>1, TextAssumption DEF Date, Plain
  <2>3. QED
    BY <2>1, <2>2, LenOfFunction DEF Text
<1>3. /\ v.desc # Nothing => v.desc \in Text
      /\ v.remitter # Nothing => v.remitter \in Text
  BY DEF Amendment
<1>4. QED
  BY <1>1, <1>2, <1>3 DEF Redrafted, HeaderData

\* Two lines are the same if their fields are.
LEMMA SameFields ==
    ASSUME NEW x \in Line, NEW y \in Line,
           x.bsb = y.bsb, x.account = y.account, x.code = y.code, x.cents = y.cents,
           x.ref = y.ref, x.remitter = y.remitter, x.rest = y.rest
    PROVE  x = y
BY DEF Line

LEMMA AmendingIsRebuilding ==
    ASSUME NEW d \in Draft, NEW total \in Nat, NEW day \in Date, Buildable(d, total),
           NEW v \in Amendment, Agreed(Redrafted(d, v).head)
    PROVE  AmendValueDate(BuildAbaFile(d, total, day), v)
             = BuildAbaFile(Redrafted(d, v), total, day)
<1> DEFINE n == Len(d.txs)
           r == Redrafted(d, v)
           f == BuildAbaFile(d, total, day)
           g == AmendValueDate(f, v)
           desc == r.head.desc
           remitter == r.head.remitter
           c == Cut(desc, 12)
           text == c \o <<"-">> \o v.proc
           ref == AmendmentRef(f, v)
<1>1. /\ n \in Nat /\ d.head \in HeaderData /\ r.head \in HeaderData /\ r.txs = d.txs
      /\ r.head.proc = v.proc /\ v.proc \in Date /\ Proc(r.head, day) = v.proc
      /\ r.head.bsb = d.head.bsb /\ r.head.account = d.head.account /\ r.head.rest = d.head.rest
  BY DraftType, RedraftedType DEF Proc
<1>2. /\ desc \in Text /\ desc = IF v.desc = Nothing THEN d.head.desc ELSE v.desc
      /\ remitter \in Text
      /\ remitter = IF v.remitter = Nothing THEN d.head.remitter ELSE v.remitter
      /\ AsciiOnly(desc) /\ AsciiOnly(remitter) /\ NoBlankEnd(c)
  BY RedraftedType DEF HeaderData, Agreed
<1>3. PadR(desc, 12) = Field(desc, 12) /\ PadR(remitter, 16) = Field(remitter, 16)
  BY <1>2, PadRIsField
<1>4. c \in Text /\ Len(c) <= 12 /\ AsciiOnly(c)
  <2>1. /\ c \in Text /\ Len(c) = IF Len(desc) < 12 THEN Len(desc) ELSE 12
        /\ \A i \in 1..Len(c) : c[i] = desc[i]
        /\ Len(desc) \in Nat
    BY <1>2, CutType, LenProperties DEF Text
  <2>2. \A i \in 1..Len(c) : i \in 1..Len(desc)
    BY <2>1
  <2>3. AsciiOnly(c)
    BY <1>2, <2>1, <2>2 DEF AsciiOnly
  <2>4. QED
    BY <2>1, <2>3
<1>5. f.head.desc = PadR(d.head.desc, 12) /\ f.head.rest = d.head.rest
  BY DEF BuildAbaFile
<1>6. AmendedDesc(f.head.desc, v) = Field(desc, 12)
  BY <1>2, <1>3, <1>5 DEF AmendedDesc
<1>7. ref = Field(text, 18)
  <2>1. TrimEnd(Field(c, 12)) = c
    BY <1>2, <1>4, TrimEndOfField
  <2>2. Field(c, 12) = Field(desc, 12)
    BY <1>2, FieldOfCut
  <2>3. QED
    BY <1>6, <2>1, <2>2 DEF AmendmentRef
<1>8. PadR(text, 18) = Field(text, 18) /\ Field(text, 18) \in Text
  BY <1>1, <1>4, ReferenceType, ReferenceIsAscii, PadRIsField, FieldType
<1>9. /\ g.head = [desc |-> Field(desc, 12), proc |-> v.proc, rest |-> d.head.rest]
      /\ g = [head |-> g.head, details |-> g.details, trailer |-> f.trailer]
      /\ g.details = [i \in 1..Len(f.details) |-> AmendedLine(f.details[i], ref, v)]
  BY <1>5, <1>6 DEF AmendValueDate, AmendmentRef
<1>10. FileOf(f, d, total) /\ total \in 0..Limit
  BY BuiltIsFileOf, WidthsAssumption DEF Buildable
<1>11. Len(f.details) = n + 1
  BY <1>10 DEF FileOf
<1>12. \A i \in 1..n : AmendedLine(Payment(d.head, d.txs[i]), ref, v) = Payment(r.head, d.txs[i])
  <2>1. TAKE i \in 1..n
  <2> DEFINE x == Payment(d.head, d.txs[i])
             y == Payment(r.head, d.txs[i])
  <2>2. x \in Line
    BY PaymentType DEF Buildable
  <2>3. /\ y.bsb = x.bsb /\ y.account = x.account /\ y.code = x.code /\ y.cents = x.cents
        /\ y.ref = x.ref /\ y.rest = x.rest /\ x.code = 53
        /\ x.remitter = PadR(d.head.remitter, 16) /\ y.remitter = PadR(remitter, 16)
    BY DEF Payment
  <2>4. y \in Line
    <3>1. PadR(remitter, 16) \in Text
      BY <1>2, PadRType
    <3>2. y = [bsb |-> y.bsb, account |-> y.account, code |-> y.code, cents |-> y.cents,
               ref |-> y.ref, remitter |-> y.remitter, rest |-> y.rest]
      BY DEF Payment
    <3> HIDE DEF x, y
    <3>3. QED
      BY <2>2, <2>3, <3>1, <3>2 DEF Line
  <2> HIDE DEF x, y
  <2>5. AmendedLine(x, ref, v).remitter = y.remitter
    <3>1. v.remitter = Nothing => AmendedLine(x, ref, v).remitter = x.remitter
      BY <2>2 DEF AmendedLine, Line
    <3>2. v.remitter # Nothing => AmendedLine(x, ref, v).remitter = Field(v.remitter, 16)
      BY <2>2 DEF AmendedLine, Line
    <3>3. QED
      BY <1>2, <1>3, <2>3, <3>1, <3>2
  <2>6. AmendedLine(x, ref, v).ref = x.ref /\ AmendedLine(x, ref, v).rest = x.rest
    BY <2>2, <2>3 DEF AmendedLine, Line, DebitCode
  <2>7. AmendedLine(x, ref, v) = y
    BY <1>7, <1>8, <2>2, <2>3, <2>4, <2>5, <2>6, AmendedLineType, SameFields
  <2>8. QED
    BY <2>7 DEF x, y
<1>13. AmendedLine(Balancing(d.head, Proc(d.head, day), total), ref, v)
         = Balancing(r.head, v.proc, total)
  <2> DEFINE x == Balancing(d.head, Proc(d.head, day), total)
             y == Balancing(r.head, v.proc, total)
  <2>1. x \in Line /\ y \in Line
    BY <1>1, <1>10, ProcType, BalancingType
  <2>2. /\ y.bsb = x.bsb /\ y.account = x.account /\ y.code = x.code /\ y.cents = x.cents
        /\ y.rest = x.rest /\ x.code = DebitCode
        /\ x.remitter = PadR(d.head.remitter, 16) /\ y.remitter = PadR(remitter, 16)
        /\ y.ref = PadR(text, 18)
    BY <1>1 DEF Balancing
  <2> HIDE DEF x, y
  <2>3. AmendedLine(x, ref, v).remitter = y.remitter
    <3>1. v.remitter = Nothing => AmendedLine(x, ref, v).remitter = x.remitter
      BY <2>1 DEF AmendedLine, Line
    <3>2. v.remitter # Nothing => AmendedLine(x, ref, v).remitter = Field(v.remitter, 16)
      BY <2>1 DEF AmendedLine, Line
    <3>3. QED
      BY <1>2, <1>3, <2>2, <3>1, <3>2
  <2>4. AmendedLine(x, ref, v).ref = ref /\ AmendedLine(x, ref, v).rest = x.rest
    BY <2>1, <2>2 DEF AmendedLine, Line
  <2>5. AmendedLine(x, ref, v) = y
    BY <1>7, <1>8, <2>1, <2>2, <2>3, <2>4, AmendedLineType, SameFields
  <2>6. QED
    BY <2>5 DEF x, y
<1>14. \A i \in 1..n + 1 : f.details[i] = IF i <= n THEN Payment(d.head, d.txs[i])
                                          ELSE Balancing(d.head, Proc(d.head, day), total)
  BY DEF BuildAbaFile
<1>15. BuildAbaFile(r, total, day)
         = [head |-> g.head,
            details |-> [i \in 1..n + 1 |-> IF i <= n THEN Payment(r.head, d.txs[i])
                                           ELSE Balancing(r.head, v.proc, total)],
            trailer |-> f.trailer]
  BY <1>1, <1>3, <1>9 DEF BuildAbaFile
<1> HIDE DEF n, r, f, g, desc, remitter, c, text, ref
<1>16. \A i \in 1..n + 1 : AmendedLine(f.details[i], ref, v)
                             = IF i <= n THEN Payment(r.head, d.txs[i])
                               ELSE Balancing(r.head, v.proc, total)
  <2>1. \A i \in 1..n + 1 : i <= n => i \in 1..n
    BY <1>1
  <2>2. QED
    BY <1>12, <1>13, <1>14, <2>1
<1>17. g.details = [i \in 1..n + 1 |-> IF i <= n THEN Payment(r.head, d.txs[i])
                                      ELSE Balancing(r.head, v.proc, total)]
  BY <1>9, <1>11, <1>16
<1>18. QED
  BY <1>9, <1>15, <1>17 DEF r, f, g

-----------------------------------------------------------------------------
\* The inputs are of their types.
LEMMA InputsType ==
    /\ \A d \in Drafts : d \in Draft /\ Totals(d) \subseteq Nat
    /\ \A v \in Amendments : v \in Amendment /\ v.proc \in Date
    /\ \A entries \in Blacklists : entries \in SUBSET Entry
<1>1. \A d \in Drafts : Totals(d) \subseteq Nat
  BY DEF Totals
<1>2. QED
  BY <1>1, InputsAssumption DEF Amendment

\* What every file pays is what its draft says and its reviewers are shown, before and after any
\* change of its date, and both sides block the same files: for every draft and every total within
\* the widths of the format.
THEOREM PaymentsKept == BuiltIsPaid /\ AmendedIsPaid /\ AmendingRebuilds /\ SidesBlockAlike
<1>1. ASSUME NEW d \in Drafts, NEW total \in Totals(d), Buildable(d, total),
             NEW v \in Amendments, NEW w \in Amendments
      PROVE  LET f == BuildAbaFile(d, total, v.proc)
                 once == AmendValueDate(f, v)
                 twice == AmendValueDate(once, w)
             IN  /\ AcceptedAsShown(d, f)
                 /\ AcceptedAsShown(d, once) /\ SamePayments(f, once)
                 /\ AcceptedAsShown(d, twice) /\ SamePayments(f, twice)
  <2> DEFINE f == BuildAbaFile(d, total, v.proc)
             once == AmendValueDate(f, v)
             twice == AmendValueDate(once, w)
  <2>1. d \in Draft /\ total \in Nat /\ v \in Amendment /\ w \in Amendment /\ v.proc \in Date
    BY InputsType
  <2>2. FileOf(f, d, total) /\ f.head.desc \in Text
    BY <1>1, <2>1, BuiltIsFileOf, BuiltDescType
  <2> HIDE DEF f
  <2>3. FileOf(once, d, total) /\ once.head.desc \in Text /\ SamePayments(f, once)
    BY <2>1, <2>2, AmendedIsFileOf
  <2> HIDE DEF once
  <2>4. FileOf(twice, d, total) /\ SamePayments(once, twice)
    BY <2>1, <2>3, AmendedIsFileOf
  <2> HIDE DEF twice
  <2>5. AcceptedAsShown(d, f) /\ AcceptedAsShown(d, once) /\ AcceptedAsShown(d, twice)
    BY <1>1, <2>1, <2>2, <2>3, <2>4, FileIsAsShown
  <2>6. SamePayments(f, twice)
    BY <2>3, <2>4, SamePaymentsTransitive
  <2>7. QED
    BY <2>3, <2>5, <2>6 DEF f, once, twice
<1>2. ASSUME NEW d \in Drafts, NEW total \in Totals(d), Buildable(d, total),
             NEW v \in Amendments, Agreed(Redrafted(d, v).head)
      PROVE  AmendValueDate(BuildAbaFile(d, total, v.proc), v)
               = BuildAbaFile(Redrafted(d, v), total, v.proc)
  BY <1>2, InputsType, AmendingIsRebuilding
<1>3. ASSUME NEW d \in Drafts, NEW total \in Totals(d), Buildable(d, total),
             NEW v \in Amendments, NEW entries \in Blacklists
      PROVE  BlockedAlike(d, BuildAbaFile(d, total, v.proc), entries)
  <2>1. d \in Draft /\ total \in Nat /\ v.proc \in Date /\ entries \in SUBSET Entry
    BY InputsType
  <2>2. QED
    BY <1>3, <2>1, BuiltIsFileOf, FileIsBlockedAlike
<1>4. BuiltIsPaid /\ AmendedIsPaid
  BY <1>1 DEF BuiltIsPaid, AmendedIsPaid
<1>5. AmendingRebuilds
  BY <1>2 DEF AmendingRebuilds
<1>6. SidesBlockAlike
  BY <1>3 DEF SidesBlockAlike
<1>7. QED
  BY <1>4, <1>5, <1>6

-----------------------------------------------------------------------------
(* The files of batches *)

\* Every stored file pays what its reviewers were shown, whenever it is looked at.
THEOREM FilesArePaid == Spec => []StoredFilesKeepPayments
<1>1. StoredFilesKeepPayments
  BY PaymentsKept DEF StoredFilesKeepPayments
<1>2. QED
  BY <1>1, PTL
=============================================================================
