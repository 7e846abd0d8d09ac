------------------------- MODULE PublicHealthProofs -------------------------
(***************************************************************************)
(* What PublicHealth guarantees with any number of participants, levels,   *)
(* periods, tabs and batches.                                              *)
(***************************************************************************)
EXTENDS PublicHealth, FiniteSetTheorems, TLAPS

-----------------------------------------------------------------------------
(* Types *)

Paying == [at: {"none", "draft", "submitted"}, entries: Entries]
Answers == [period: Periods, entries: Entries]
Tab == [shows: Periods \cup {None}, from: Periods \cup {None}, entries: Entries, awaits: SUBSET Answers]
Batch == [period: Periods, from: Periods, pays: SUBSET Participants, stage: {"submitted", "approved", "rejected"}]
Op == {Idle}
      \cup [kind: {"edit"}, participant: Participants, status: {"active", "inactive"}, named: BOOLEAN]
      \cup [kind: {"level"}, participant: Participants, level: Levels, closes: [Levels -> Nat]]
      \cup [kind: {"save"}, period: Periods, entries: Entries]
      \cup [kind: {"mark"}, period: Periods]

\* The types of the tables, and of what tabs and transactions hold.
HealthTypes ==
    /\ tier \in [Levels -> Amounts]
    /\ status \in [Participants -> {"none", "active", "inactive"}]
    /\ open \in [Participants -> [Levels -> Nat]]
    /\ period \in [Periods -> Paying]
    /\ \E n \in Nat : batch \in [1..n -> Batch]
    /\ tab \in [Tabs -> Tab]
    /\ op \in [Tabs -> Op]
    /\ changes \in 0..MaxChanges

\* A transaction that changes a level holds its participant, who is there, and the levels
\* it found open are still those that are.
LevelsHeld ==
    /\ \A t \in Tabs : op[t].kind \in {"edit", "level"} => status[op[t].participant] # "none"
    /\ \A t \in Tabs : op[t].kind = "level" => op[t].closes = open[op[t].participant]
    /\ \A s, t \in Tabs : op[s].kind = "level" /\ op[t].kind = "level"
                          /\ op[s].participant = op[t].participant => s = t

\* Who has not been added has no level, and everybody else has one.
LevelsOpen ==
    /\ OneOpenLevel
    /\ \A p \in Participants : status[p] = "none" => open[p] = [l \in Levels |-> 0]

\* A transaction that saves entries holds its period, which is a draft.
PeriodsHeld ==
    /\ \A t \in Tabs : op[t].kind = "save" => period[op[t].period].at = "draft"
    /\ \A t \in Tabs : op[t].kind = "mark" => \E n \in DOMAIN batch : batch[n].period = op[t].period

\* Entries are those of a period that was created, at its levels, and inactive at LV0.
Matches(entries, d) ==
    /\ period[d].at # "none" /\ DOMAIN entries \subseteq DOMAIN period[d].entries
    /\ \A p \in DOMAIN entries : /\ entries[p].level = period[d].entries[p].level
                                 /\ entries[p].level = 0 => ~entries[p].active

OfPeriod(entries, from) == IF from = None THEN DOMAIN entries = {} ELSE Matches(entries, from)

\* What tabs show and await was read of some period, and what is paid is at a paid level.
EntriesKept ==
    /\ \A d \in Periods : Matches(period[d].entries, d) \/ period[d] = NoPeriod
    /\ \A t \in Tabs : /\ OfPeriod(tab[t].entries, tab[t].from)
                       /\ \A a \in tab[t].awaits : Matches(a.entries, a.period)
    /\ \A n \in DOMAIN batch : /\ period[batch[n].from].at # "none"
                               /\ \A p \in batch[n].pays : /\ p \in DOMAIN period[batch[n].from].entries
                                                           /\ period[batch[n].from].entries[p].level # 0

HealthInv == HealthTypes /\ LevelsHeld /\ LevelsOpen /\ PeriodsHeld /\ EntriesKept /\ SubmittedWasPosted

-----------------------------------------------------------------------------
LEMMA OpFields ==
    ASSUME HealthTypes, NEW t \in Tabs
    PROVE  /\ op[t] \in Op
           /\ op[t].kind = "edit" => op[t].participant \in Participants /\ op[t].status \in {"active", "inactive"}
           /\ op[t].kind = "level" => /\ op[t].participant \in Participants /\ op[t].level \in Levels
                                      /\ op[t].closes \in [Levels -> Nat]
           /\ op[t].kind = "save" => op[t].period \in Periods /\ op[t].entries \in Entries
           /\ op[t].kind = "mark" => op[t].period \in Periods
<1>1. op[t] \in Op
  BY DEF HealthTypes
<1> QED
  BY <1>1 DEF Op, Idle

LEMMA TabFields ==
    ASSUME HealthTypes, NEW t \in Tabs
    PROVE  /\ tab[t] \in Tab /\ tab[t].shows \in Periods \cup {None} /\ tab[t].from \in Periods \cup {None}
           /\ tab[t].entries \in Entries /\ tab[t].awaits \in SUBSET Answers
BY DEF HealthTypes, Tab

LEMMA PeriodFields ==
    ASSUME HealthTypes, NEW d \in Periods
    PROVE  /\ period[d] \in Paying /\ period[d].at \in {"none", "draft", "submitted"}
           /\ period[d].entries \in Entries
BY DEF HealthTypes, Paying

\* A participant in entries has an entry there.
LEMMA EntryFields ==
    ASSUME NEW entries \in Entries
    PROVE  /\ DOMAIN entries \subseteq Participants /\ entries \in [DOMAIN entries -> Entry]
           /\ \A p \in DOMAIN entries :
                 /\ entries[p] \in Entry /\ entries[p].level \in Levels
                 /\ entries[p].active \in BOOLEAN /\ entries[p].amount \in Amounts
BY DEF Entries, Entry

LEMMA NoEntriesType == NoEntries \in Entries /\ DOMAIN NoEntries = {}
<1>1. NoEntries \in [{} -> Entry]
  BY DEF NoEntries
<1> QED
  BY <1>1 DEF Entries, NoEntries

LEMMA LevelsType == 0 \in Levels /\ 1 \in Levels /\ Levels \subseteq Nat
BY BoundsAssumption DEF Levels

\* Wherever somebody is paid is a level.
LEMMA CurrentLevelType ==
    ASSUME HealthTypes, NEW p \in Participants
    PROVE  CurrentLevel(p) \in Levels
<1>1. CASE \A l \in Levels : open[p][l] = 0
  BY <1>1, LevelsType DEF CurrentLevel
<1>2. CASE ~\A l \in Levels : open[p][l] = 0
  <2>1. \A l \in Levels : open[p][l] \in Nat
    BY DEF HealthTypes
  <2>2. \E l \in Levels : open[p][l] > 0
    BY <1>2, <2>1
  <2> QED
    BY <1>2, <2>2 DEF CurrentLevel
<1> QED
  BY <1>1, <1>2

\* What a period copies: a participant's level, what it pays, and whether it pays.
LEMMA CopiedType ==
    ASSUME HealthTypes
    PROVE  /\ Copied \in Entries
           /\ \A p \in DOMAIN Copied : Copied[p].level = 0 => ~Copied[p].active
<1> DEFINE S == {q \in Participants : status[q] = "active"}
<1>1. ASSUME NEW p \in S
      PROVE  Copied[p] \in Entry /\ (Copied[p].level = 0 => ~Copied[p].active)
  <2>1. PICK l \in Levels : l = CurrentLevel(p)
    BY CurrentLevelType
  <2>2. PICK b \in BOOLEAN : b = (l # 0)
    OBVIOUS
  <2>3. Copied[p] = [level |-> l, active |-> b, amount |-> tier[l]]
    BY <2>1, <2>2 DEF Copied
  <2>4. tier[l] \in Amounts
    BY DEF HealthTypes
  <2>5. Copied[p] \in Entry /\ Copied[p].level = l /\ Copied[p].active = b
    BY <2>3, <2>4 DEF Entry
  <2>6. l = 0 => b = FALSE
    BY <2>2
  <2> QED
    BY <2>5, <2>6
<1>2. DOMAIN Copied = S /\ Copied = [p \in S |-> Copied[p]] /\ S \in SUBSET Participants
  BY DEF Copied
<1>3. Copied \in [S -> Entry]
  BY <1>1, <1>2
<1> QED
  BY <1>1, <1>2, <1>3 DEF Entries

\* What a save writes: the same entries at the same levels, inactive at LV0.
LEMMA SavedType ==
    ASSUME NEW was \in Entries, NEW sent \in Entries
    PROVE  /\ Saved(was, sent) \in Entries /\ DOMAIN Saved(was, sent) = DOMAIN was
           /\ \A p \in DOMAIN was :
                 /\ Saved(was, sent)[p].level = was[p].level
                 /\ Saved(was, sent)[p].active => was[p].active \/ was[p].level # 0
<1>1. ASSUME NEW p \in DOMAIN was
      PROVE  /\ Saved(was, sent)[p] \in Entry /\ Saved(was, sent)[p].level = was[p].level
             /\ Saved(was, sent)[p].active => was[p].active \/ was[p].level # 0
  <2>1. was[p] \in Entry
    BY EntryFields
  <2>2. CASE p \in DOMAIN sent
    <3>1. PICK b \in BOOLEAN : b = (was[p].level # 0 /\ sent[p].active)
      OBVIOUS
    <3>2. Saved(was, sent)[p] = [was[p] EXCEPT !.active = b]
      BY <2>2, <3>1 DEF Saved
    <3> QED
      BY <2>1, <3>1, <3>2 DEF Entry
  <2>3. CASE p \notin DOMAIN sent
    BY <2>1, <2>3 DEF Saved
  <2> QED
    BY <2>2, <2>3
<1>2. DOMAIN Saved(was, sent) = DOMAIN was /\ Saved(was, sent) = [p \in DOMAIN was |-> Saved(was, sent)[p]]
  BY DEF Saved
<1>3. Saved(was, sent) \in [DOMAIN was -> Entry] /\ DOMAIN was \in SUBSET Participants
  BY <1>1, <1>2, EntryFields
<1> QED
  BY <1>1, <1>2, <1>3 DEF Entries

\* What a tab shows after a box is ticked or cleared: not an entry at LV0.
LEMMA ToggledType ==
    ASSUME HealthTypes, NEW t \in Tabs, NEW p \in Participants, Toggle(t, p)
    PROVE  /\ tab' \in [Tabs -> Tab] /\ \A s \in Tabs : s # t => tab'[s] = tab[s]
           /\ tab'[t].shows = tab[t].shows /\ tab'[t].from = tab[t].from /\ tab'[t].awaits = tab[t].awaits
           /\ DOMAIN tab'[t].entries = DOMAIN tab[t].entries
           /\ \A q \in DOMAIN tab[t].entries :
                 /\ tab'[t].entries[q].level = tab[t].entries[q].level
                 /\ tab'[t].entries[q].level = 0 => tab'[t].entries[q] = tab[t].entries[q]
<1> DEFINE e == tab[t].entries
<1>1. /\ e \in Entries /\ tab[t] \in Tab /\ p \in DOMAIN e /\ e[p].level # 0 /\ e[p] \in Entry
      /\ e \in [DOMAIN e -> Entry] /\ DOMAIN e \in SUBSET Participants
  BY TabFields, EntryFields DEF Toggle
<1>2. PICK b \in BOOLEAN : b = ~e[p].active
  OBVIOUS
<1>3. PICK x : x = [e EXCEPT ![p] = [e[p] EXCEPT !.active = b]]
  OBVIOUS
<1>4. tab' = [tab EXCEPT ![t] = [tab[t] EXCEPT !.entries = x]]
  BY <1>2, <1>3 DEF Toggle
<1>5. [e[p] EXCEPT !.active = b] \in Entry /\ [e[p] EXCEPT !.active = b].level = e[p].level
  BY <1>1 DEF Entry
<1> HIDE DEF e
<1>6. x \in [DOMAIN e -> Entry] /\ DOMAIN x = DOMAIN e /\ \A q \in DOMAIN e : q # p => x[q] = e[q]
  BY <1>1, <1>3, <1>5
<1>7. x[p].level = e[p].level
  BY <1>1, <1>3, <1>5
<1>8. x \in Entries
  BY <1>1, <1>6 DEF Entries
<1>9. [tab[t] EXCEPT !.entries = x] \in Tab
  BY <1>1, <1>8 DEF Tab
<1>10. tab \in [Tabs -> Tab]
  BY DEF HealthTypes
<1>11. /\ tab' \in [Tabs -> Tab] /\ tab'[t] = [tab[t] EXCEPT !.entries = x]
       /\ \A s \in Tabs : s # t => tab'[s] = tab[s]
  BY <1>4, <1>9, <1>10
<1>12. /\ tab'[t].shows = tab[t].shows /\ tab'[t].from = tab[t].from /\ tab'[t].awaits = tab[t].awaits
       /\ tab'[t].entries = x
  BY <1>1, <1>11 DEF Tab
<1> QED
  BY <1>1, <1>6, <1>7, <1>11, <1>12 DEF e

\* Batches are numbered as they are submitted.
LEMMA PostType ==
    ASSUME HealthTypes, EntriesKept, NEW t \in Tabs, Post(t)
    PROVE  /\ \E n \in Nat : batch' \in [1..n -> Batch]
           /\ DOMAIN batch \subseteq DOMAIN batch' /\ \A k \in DOMAIN batch : batch'[k] = batch[k]
           /\ tab[t].shows \in Periods /\ tab[t].from \in Periods
           /\ \E n \in DOMAIN batch' :
                 /\ batch'[n].period = tab[t].shows /\ batch'[n].from = tab[t].from
                 /\ batch'[n].pays = Paid(tab[t].entries)
                 /\ \A k \in DOMAIN batch' : k # n => k \in DOMAIN batch
<1>1. PICK m \in Nat : batch \in [1..m -> Batch]
  BY DEF HealthTypes
<1>2. Cardinality(DOMAIN batch) = m
  <2>1. Cardinality(1..m) = IF 1 > m THEN 0 ELSE m - 1 + 1
    BY FS_Interval
  <2>2. Cardinality(1..m) = m
    BY <2>1
  <2> QED
    BY <1>1, <2>2
<1>3. /\ tab[t].shows \in Periods /\ tab[t].from \in Periods
      /\ Paid(tab[t].entries) \in SUBSET Participants
  <2>1. tab[t].shows # None /\ tab[t].from # None
    BY DEF Post, Paid, EntriesKept, OfPeriod
  <2> QED
    BY <2>1, TabFields, EntryFields DEF Paid
<1> DEFINE x == [period |-> tab[t].shows, from |-> tab[t].from, pays |-> Paid(tab[t].entries), stage |-> "submitted"]
<1>4. x \in Batch
  BY <1>3 DEF Batch
<1>5. batch' = [k \in 1..m + 1 |-> IF k < m + 1 THEN batch[k] ELSE x]
  BY <1>2 DEF Post
<1>6. x.period = tab[t].shows /\ x.from = tab[t].from /\ x.pays = Paid(tab[t].entries)
  OBVIOUS
<1> HIDE DEF x
<1>7. \A k \in 1..m + 1 : k = m + 1 \/ k \in 1..m
  BY <1>1
<1>8. batch' \in [1..m + 1 -> Batch]
  BY <1>1, <1>4, <1>5, <1>7
<1>9. DOMAIN batch' = 1..m + 1 /\ DOMAIN batch = 1..m /\ batch'[m + 1] = x /\ m + 1 \in 1..m + 1
  BY <1>1, <1>5
<1>10. \A k \in 1..m : k \in 1..m + 1 /\ batch'[k] = batch[k]
  BY <1>1, <1>5
<1> QED
  BY <1>1, <1>3, <1>6, <1>7, <1>8, <1>9, <1>10

LEMMA TypesInit == Init => HealthTypes
<1> SUFFICES ASSUME Init PROVE HealthTypes
  OBVIOUS
<1>1. tier \in [Levels -> Amounts] /\ open \in [Participants -> [Levels -> Nat]]
  BY BoundsAssumption DEF Init
<1>2. NoPeriod \in Paying
  BY NoEntriesType DEF NoPeriod, Paying
<1>3. period \in [Periods -> Paying]
  BY <1>2 DEF Init
<1>4. 0 \in Nat /\ batch \in [1..0 -> Batch]
  BY DEF Init
<1>5. Blank \in Tab
  BY NoEntriesType DEF Blank, Tab
<1>6. tab \in [Tabs -> Tab] /\ op \in [Tabs -> Op]
  BY <1>5 DEF Init, Op
<1>7. changes \in 0..MaxChanges
  BY BoundsAssumption DEF Init
<1> QED
  BY <1>1, <1>3, <1>4, <1>6, <1>7 DEF Init, HealthTypes

\* Transactions begin and end.
LEMMA GoType ==
    ASSUME HealthTypes, NEW t \in Tabs, NEW state \in Op, Go(t, state)
    PROVE  /\ op' \in [Tabs -> Op] /\ op'[t] = state
           /\ \A s \in Tabs : s # t => op'[s] = op[s]
BY DEF HealthTypes, Go

LEMMA DoneType ==
    ASSUME HealthTypes, NEW t \in Tabs, Done(t)
    PROVE  /\ op' \in [Tabs -> Op] /\ op'[t] = Idle
           /\ \A s \in Tabs : s # t => op'[s] = op[s]
<1>1. Idle \in Op
  BY DEF Op
<1> QED
  BY <1>1, GoType DEF Done

\* A change of levels, of what participants are or of a period, and nothing else of it.
LEMMA CommitLevelType ==
    ASSUME HealthTypes, LevelsHeld, LevelsOpen, NEW t \in Tabs, CommitLevel(t)
    PROVE  /\ op[t].participant \in Participants /\ op[t].level \in Levels
           /\ open' = [open EXCEPT ![op[t].participant] = [l \in Levels |-> IF l = op[t].level THEN 1 ELSE 0]]
<1>1. PICK p \in Participants, l \in Levels : p = op[t].participant /\ l = op[t].level
  BY OpFields DEF CommitLevel
<1>2. PICK f : f = open[p]
  OBVIOUS
<1>3. op[t].closes = f /\ f \in [Levels -> Nat]
  BY <1>1, <1>2 DEF CommitLevel, LevelsHeld, HealthTypes
<1>4. \A k \in Levels : f[k] - f[k] + (IF k = l THEN 1 ELSE 0) = IF k = l THEN 1 ELSE 0
  BY <1>3
<1>5. open' = [open EXCEPT ![p] = [k \in Levels |-> f[k] - f[k] + (IF k = l THEN 1 ELSE 0)]]
  BY <1>1, <1>2, <1>3 DEF CommitLevel
<1>6. [k \in Levels |-> f[k] - f[k] + (IF k = l THEN 1 ELSE 0)] = [k \in Levels |-> IF k = l THEN 1 ELSE 0]
  BY <1>4
<1> QED
  BY <1>1, <1>5, <1>6

\* What a step may do to the periods: create one, write its entries from a save, or mark it.
LEMMA PeriodStep ==
    ASSUME HealthTypes, PeriodsHeld, [Next]_vars
    PROVE  \/ period' = period
           \/ \E d \in Periods : /\ period[d].at = "none"
                                 /\ period' = [period EXCEPT ![d] = [at |-> "draft", entries |-> Copied]]
           \/ \E t \in Tabs : CommitSave(t)
           \/ \E t \in Tabs : Mark(t)
<1>1. CASE \E d \in Periods : Create(d)
  BY <1>1 DEF Create
<1>2. CASE ~\E d \in Periods : Create(d)
  BY <1>2 DEF Next, vars, SetTier, Add, Deactivate, ReadParticipant, WriteParticipant, BeginLevel, CommitLevel,
     Open, Answer, Toggle, LockForSave, Post, Review, Fail, Back
<1> QED
  BY <1>1, <1>2

LEMMA TabStep ==
    ASSUME HealthTypes, [Next]_vars
    PROVE  \/ tab' = tab
           \/ \E t \in Tabs, d \in Periods : Open(t, d)
           \/ \E t \in Tabs : \E a \in tab[t].awaits : Answer(t, a)
           \/ \E t \in Tabs, p \in Participants : Toggle(t, p)
           \/ \E t \in Tabs : Mark(t) \/ Back(t)
<1>1. CASE \E t \in Tabs : \/ \E p \in Participants : ReadParticipant(t, p) \/ \E l \in Levels : BeginLevel(t, p, l)
                           \/ WriteParticipant(t) \/ CommitLevel(t) \/ LockForSave(t) \/ CommitSave(t)
                           \/ Post(t) \/ Fail(t)
  BY <1>1 DEF ReadParticipant, BeginLevel, WriteParticipant, CommitLevel, LockForSave, CommitSave, Post, Fail
<1>2. CASE \/ \E l \in Levels, a \in Amounts : SetTier(l, a)
           \/ \E p \in Participants : Add(p) \/ Deactivate(p)
           \/ \E d \in Periods : Create(d)
           \/ \E n \in DOMAIN batch, s \in {"approved", "rejected"} : Review(n, s)
           \/ UNCHANGED vars
  BY <1>2 DEF SetTier, Add, Deactivate, Create, Review, vars
<1> QED
  BY <1>1, <1>2 DEF Next

\* What officers change is counted.
LEMMA ChangesStep ==
    ASSUME HealthTypes, [Next]_vars
    PROVE  changes' \in 0..MaxChanges
<1>1. changes \in 0..MaxChanges /\ MaxChanges \in Nat
  BY BoundsAssumption DEF HealthTypes
<1>2. Change => changes' \in 0..MaxChanges
  BY <1>1 DEF Change
<1>3. CASE \/ \E l \in Levels, a \in Amounts : SetTier(l, a)
           \/ \E p \in Participants : Add(p) \/ Deactivate(p)
           \/ \E d \in Periods : Create(d)
           \/ \E n \in DOMAIN batch, s \in {"approved", "rejected"} : Review(n, s)
           \/ UNCHANGED vars
  <2>1. Change \/ changes' = changes
    BY <1>3 DEF SetTier, Add, Deactivate, Create, Review, vars
  <2> QED
    BY <1>1, <1>2, <2>1
<1>4. CASE \E t \in Tabs : \/ \E p \in Participants : ReadParticipant(t, p) \/ Toggle(t, p) \/ \E l \in Levels : BeginLevel(t, p, l)
                           \/ LockForSave(t)
  <2>1. Change
    BY <1>4 DEF ReadParticipant, Toggle, BeginLevel, LockForSave
  <2> QED
    BY <1>2, <2>1
<1>5. CASE \E t \in Tabs : \/ \E d \in Periods : Open(t, d)
                           \/ \E a \in tab[t].awaits : Answer(t, a)
                           \/ WriteParticipant(t) \/ CommitLevel(t) \/ CommitSave(t) \/ Post(t) \/ Mark(t) \/ Fail(t) \/ Back(t)
  <2>1. changes' = changes
    BY <1>5 DEF Open, Answer, WriteParticipant, CommitLevel, CommitSave, Post, Mark, Fail, Back
  <2> QED
    BY <1>1, <2>1
<1> QED
  BY <1>3, <1>4, <1>5 DEF Next

LEMMA TablesStep ==
    ASSUME HealthTypes, LevelsHeld, LevelsOpen, [Next]_vars
    PROVE  /\ tier' \in [Levels -> Amounts]
           /\ status' \in [Participants -> {"none", "active", "inactive"}]
           /\ open' \in [Participants -> [Levels -> Nat]]
           /\ changes' \in 0..MaxChanges
<1>1. ASSUME NEW l \in Levels, NEW a \in Amounts, SetTier(l, a)
      PROVE  tier' \in [Levels -> Amounts] /\ UNCHANGED <<status, open>>
  BY <1>1 DEF SetTier, HealthTypes
<1>2. ASSUME NEW p \in Participants, Add(p)
      PROVE  /\ status' \in [Participants -> {"none", "active", "inactive"}]
             /\ open' \in [Participants -> [Levels -> Nat]] /\ UNCHANGED tier
  <2>1. open' = [open EXCEPT ![p] = [open[p] EXCEPT ![1] = 1]] /\ open[p] \in [Levels -> Nat]
    BY <1>2 DEF Add, HealthTypes
  <2>2. [open[p] EXCEPT ![1] = 1] \in [Levels -> Nat]
    BY <2>1
  <2> QED
    BY <1>2, <2>1, <2>2 DEF Add, HealthTypes
<1>3. ASSUME NEW p \in Participants, Deactivate(p)
      PROVE  status' \in [Participants -> {"none", "active", "inactive"}] /\ UNCHANGED <<tier, open>>
  BY <1>3 DEF Deactivate, HealthTypes
<1>4. ASSUME NEW t \in Tabs, WriteParticipant(t)
      PROVE  status' \in [Participants -> {"none", "active", "inactive"}] /\ UNCHANGED <<tier, open>>
  BY <1>4, OpFields DEF WriteParticipant, HealthTypes
<1>5. ASSUME NEW t \in Tabs, CommitLevel(t)
      PROVE  open' \in [Participants -> [Levels -> Nat]] /\ UNCHANGED <<tier, status>>
  <2>1. PICK p \in Participants, l \in Levels :
          open' = [open EXCEPT ![p] = [k \in Levels |-> IF k = l THEN 1 ELSE 0]]
    BY <1>5, CommitLevelType
  <2>2. [k \in Levels |-> IF k = l THEN 1 ELSE 0] \in [Levels -> Nat]
    OBVIOUS
  <2> QED
    BY <1>5, <2>1, <2>2 DEF CommitLevel, HealthTypes
<1>6. CASE \E t \in Tabs : \/ \E p \in Participants : ReadParticipant(t, p) \/ Toggle(t, p) \/ \E l \in Levels : BeginLevel(t, p, l)
                           \/ \E d \in Periods : Open(t, d)
                           \/ \E a \in tab[t].awaits : Answer(t, a)
                           \/ LockForSave(t) \/ CommitSave(t) \/ Post(t) \/ Mark(t) \/ Fail(t) \/ Back(t)
  <2>1. UNCHANGED <<tier, status, open>>
    BY <1>6 DEF ReadParticipant, Toggle, BeginLevel, Open, Answer, LockForSave, CommitSave, Post, Mark, Fail, Back
  <2> QED
    BY <2>1, ChangesStep DEF HealthTypes
<1>7. CASE \/ \E d \in Periods : Create(d)
           \/ \E n \in DOMAIN batch, s \in {"approved", "rejected"} : Review(n, s)
           \/ UNCHANGED vars
  <2>1. UNCHANGED <<tier, status, open>>
    BY <1>7 DEF Create, Review, vars
  <2> QED
    BY <2>1, ChangesStep DEF HealthTypes
<1> QED
  BY <1>1, <1>2, <1>3, <1>4, <1>5, <1>6, <1>7, ChangesStep DEF Next, HealthTypes

LEMMA PeriodTypeStep ==
    ASSUME HealthTypes, PeriodsHeld, [Next]_vars
    PROVE  period' \in [Periods -> Paying]
<1>1. period \in [Periods -> Paying]
  BY DEF HealthTypes
<1>2. CASE \E d \in Periods : period' = [period EXCEPT ![d] = [at |-> "draft", entries |-> Copied]]
  <2>1. [at |-> "draft", entries |-> Copied] \in Paying
    BY CopiedType DEF Paying
  <2> QED
    BY <1>1, <1>2, <2>1
<1>3. ASSUME NEW t \in Tabs, CommitSave(t)
      PROVE  period' \in [Periods -> Paying]
  <2>1. PICK d \in Periods, e \in Entries : d = op[t].period /\ e = op[t].entries
    BY <1>3, OpFields DEF CommitSave
  <2>2. period' = [period EXCEPT ![d] = [period[d] EXCEPT !.entries = Saved(period[d].entries, e)]]
    BY <1>1, <1>3, <2>1 DEF CommitSave
  <2>3. period[d] \in Paying /\ Saved(period[d].entries, e) \in Entries
    BY PeriodFields, SavedType
  <2>4. [period[d] EXCEPT !.entries = Saved(period[d].entries, e)] \in Paying
    BY <2>3 DEF Paying
  <2> QED
    BY <1>1, <2>2, <2>4
<1>4. ASSUME NEW t \in Tabs, Mark(t)
      PROVE  period' \in [Periods -> Paying]
  <2>1. PICK d \in Periods : d = op[t].period
    BY <1>4, OpFields DEF Mark
  <2>2. period' = [period EXCEPT ![d] = [period[d] EXCEPT !.at = "submitted"]]
    BY <1>1, <1>4, <2>1 DEF Mark
  <2>3. [period[d] EXCEPT !.at = "submitted"] \in Paying
    BY PeriodFields DEF Paying
  <2> QED
    BY <1>1, <2>2, <2>3
<1> QED
  BY <1>1, <1>2, <1>3, <1>4, PeriodStep

LEMMA TabTypeStep ==
    ASSUME HealthTypes, [Next]_vars
    PROVE  tab' \in [Tabs -> Tab]
<1>1. tab \in [Tabs -> Tab] /\ NoEntries \in Entries
  BY NoEntriesType DEF HealthTypes
<1>2. ASSUME NEW t \in Tabs, NEW d \in Periods, Open(t, d)
      PROVE  tab' \in [Tabs -> Tab]
  <2>1. PICK a : a = [period |-> d, entries |-> period[d].entries]
    OBVIOUS
  <2>2. a \in Answers
    BY <2>1, PeriodFields DEF Answers
  <2>3. tab' = [tab EXCEPT ![t] = [tab[t] EXCEPT !.shows = d, !.awaits = tab[t].awaits \cup {a}]]
    BY <1>1, <1>2, <2>1 DEF Open
  <2>4. tab[t] \in Tab /\ tab[t].awaits \cup {a} \in SUBSET Answers
    BY <2>2, TabFields
  <2>5. [tab[t] EXCEPT !.shows = d, !.awaits = tab[t].awaits \cup {a}] \in Tab
    BY <2>4 DEF Tab
  <2> QED
    BY <1>1, <2>3, <2>5
<1>3. ASSUME NEW t \in Tabs, NEW a \in tab[t].awaits, Answer(t, a)
      PROVE  tab' \in [Tabs -> Tab]
  <2>1. tab' = [tab EXCEPT ![t] = [tab[t] EXCEPT !.from = a.period, !.entries = a.entries,
                                                !.awaits = tab[t].awaits \ {a}]]
    BY <1>1, <1>3 DEF Answer
  <2>2. tab[t] \in Tab /\ a \in Answers /\ tab[t].awaits \ {a} \in SUBSET Answers
    BY TabFields
  <2>3. a.period \in Periods /\ a.entries \in Entries
    BY <2>2 DEF Answers
  <2>4. [tab[t] EXCEPT !.from = a.period, !.entries = a.entries, !.awaits = tab[t].awaits \ {a}] \in Tab
    BY <2>2, <2>3 DEF Tab
  <2> QED
    BY <1>1, <2>1, <2>4
<1>4. ASSUME NEW t \in Tabs, Mark(t) \/ Back(t)
      PROVE  tab' \in [Tabs -> Tab]
  <2>1. tab' = [tab EXCEPT ![t] = [tab[t] EXCEPT !.shows = None]]
    BY <1>1, <1>4 DEF Mark, Back
  <2>2. [tab[t] EXCEPT !.shows = None] \in Tab
    BY TabFields DEF Tab
  <2> QED
    BY <1>1, <2>1, <2>2
<1>5. ASSUME NEW t \in Tabs, NEW p \in Participants, Toggle(t, p)
      PROVE  tab' \in [Tabs -> Tab]
  BY <1>5, ToggledType
<1> QED
  BY <1>1, <1>2, <1>3, <1>4, <1>5, TabStep

LEMMA OpTypeStep ==
    ASSUME HealthTypes, [Next]_vars
    PROVE  op' \in [Tabs -> Op]
<1>1. ASSUME NEW t \in Tabs, NEW p \in Participants, ReadParticipant(t, p)
      PROVE  op' \in [Tabs -> Op]
  <2>1. PICK named \in BOOLEAN, s \in {"active", "inactive"} :
          Go(t, [kind |-> "edit", participant |-> p, status |-> s, named |-> named])
    BY <1>1 DEF ReadParticipant
  <2>2. [kind |-> "edit", participant |-> p, status |-> s, named |-> named] \in Op
    BY DEF Op
  <2> QED
    BY <2>1, <2>2, GoType
<1>2. ASSUME NEW t \in Tabs, NEW p \in Participants, NEW l \in Levels, BeginLevel(t, p, l)
      PROVE  op' \in [Tabs -> Op]
  <2>1. open[p] \in [Levels -> Nat]
    BY DEF HealthTypes
  <2>2. [kind |-> "level", participant |-> p, level |-> l, closes |-> open[p]] \in Op
    BY <2>1 DEF Op
  <2> QED
    BY <1>2, <2>2, GoType DEF BeginLevel
<1>3. ASSUME NEW t \in Tabs, LockForSave(t)
      PROVE  op' \in [Tabs -> Op]
  <2>1. tab[t].shows \in Periods /\ tab[t].entries \in Entries
    BY <1>3, TabFields DEF LockForSave
  <2>2. [kind |-> "save", period |-> tab[t].shows, entries |-> tab[t].entries] \in Op
    BY <2>1 DEF Op
  <2> QED
    BY <1>3, <2>2, GoType DEF LockForSave
<1>4. ASSUME NEW t \in Tabs, Post(t)
      PROVE  op' \in [Tabs -> Op]
  <2>1. tab[t].shows \in Periods
    BY <1>4, TabFields DEF Post
  <2>2. [kind |-> "mark", period |-> tab[t].shows] \in Op
    BY <2>1 DEF Op
  <2> QED
    BY <1>4, <2>2, GoType DEF Post
<1>5. CASE \E t \in Tabs : WriteParticipant(t) \/ CommitLevel(t) \/ CommitSave(t) \/ Mark(t) \/ Fail(t)
  BY <1>5, DoneType DEF WriteParticipant, CommitLevel, CommitSave, Mark, Fail
<1>6. CASE \E t \in Tabs : \/ \E d \in Periods : Open(t, d)
                           \/ \E a \in tab[t].awaits : Answer(t, a)
                           \/ \E p \in Participants : Toggle(t, p)
                           \/ Back(t)
  BY <1>6 DEF Open, Answer, Toggle, Back, HealthTypes
<1>7. CASE \/ \E l \in Levels, a \in Amounts : SetTier(l, a)
           \/ \E p \in Participants : Add(p) \/ Deactivate(p)
           \/ \E d \in Periods : Create(d)
           \/ \E n \in DOMAIN batch, s \in {"approved", "rejected"} : Review(n, s)
           \/ UNCHANGED vars
  BY <1>7 DEF SetTier, Add, Deactivate, Create, Review, vars, HealthTypes
<1> QED
  BY <1>1, <1>2, <1>3, <1>4, <1>5, <1>6, <1>7 DEF Next

\* Batches are added, and reviewed; what they are of stays.
LEMMA BatchStep ==
    ASSUME HealthTypes, [Next]_vars
    PROVE  \/ batch' = batch
           \/ \E t \in Tabs : Post(t)
           \/ \E n \in DOMAIN batch, s \in {"approved", "rejected"} : Review(n, s)
<1>1. CASE \/ \E l \in Levels, a \in Amounts : SetTier(l, a)
           \/ \E p \in Participants : Add(p) \/ Deactivate(p)
           \/ \E d \in Periods : Create(d)
           \/ UNCHANGED vars
  BY <1>1 DEF SetTier, Add, Deactivate, Create, vars
<1>2. CASE \E t \in Tabs : \/ \E p \in Participants : ReadParticipant(t, p) \/ Toggle(t, p) \/ \E l \in Levels : BeginLevel(t, p, l)
                           \/ \E d \in Periods : Open(t, d)
                           \/ \E a \in tab[t].awaits : Answer(t, a)
                           \/ WriteParticipant(t) \/ CommitLevel(t) \/ LockForSave(t) \/ CommitSave(t)
                           \/ Mark(t) \/ Fail(t) \/ Back(t)
  BY <1>2 DEF ReadParticipant, Toggle, BeginLevel, Open, Answer, WriteParticipant, CommitLevel, LockForSave, CommitSave,
     Mark, Fail, Back
<1> QED
  BY <1>1, <1>2 DEF Next

LEMMA ReviewType ==
    ASSUME HealthTypes, NEW n \in DOMAIN batch, NEW s \in {"approved", "rejected"}, Review(n, s)
    PROVE  /\ \E m \in Nat : batch' \in [1..m -> Batch]
           /\ DOMAIN batch' = DOMAIN batch
           /\ \A k \in DOMAIN batch : /\ batch'[k].period = batch[k].period /\ batch'[k].from = batch[k].from
                                      /\ batch'[k].pays = batch[k].pays
<1>1. PICK m \in Nat : batch \in [1..m -> Batch]
  BY DEF HealthTypes
<1>2. batch' = [batch EXCEPT ![n] = [batch[n] EXCEPT !.stage = s]]
  BY DEF Review
<1>3. PICK x : x = [batch[n] EXCEPT !.stage = s]
  OBVIOUS
<1>4. x \in Batch /\ x.period = batch[n].period /\ x.from = batch[n].from /\ x.pays = batch[n].pays
  BY <1>1, <1>3 DEF Batch
<1>5. batch' \in [1..m -> Batch] /\ batch'[n] = x /\ \A k \in DOMAIN batch : k # n => batch'[k] = batch[k]
  BY <1>1, <1>2, <1>3, <1>4
<1> QED
  BY <1>1, <1>4, <1>5

LEMMA TypesStep ==
    ASSUME HealthTypes, LevelsHeld, LevelsOpen, PeriodsHeld, EntriesKept, [Next]_vars
    PROVE  HealthTypes'
<1>1. \E n \in Nat : batch' \in [1..n -> Batch]
  <2>1. CASE batch' = batch
    BY <2>1 DEF HealthTypes
  <2>2. CASE \E t \in Tabs : Post(t)
    BY <2>2, PostType
  <2>3. CASE \E n \in DOMAIN batch, s \in {"approved", "rejected"} : Review(n, s)
    BY <2>3, ReviewType
  <2> QED
    BY <2>1, <2>2, <2>3, BatchStep
<1> QED
  BY <1>1, TablesStep, PeriodTypeStep, TabTypeStep, OpTypeStep DEF HealthTypes

-----------------------------------------------------------------------------
(* Levels *)

\* The participants and their levels stay, and no transaction of them begins.
LEMMA LevelsFrame ==
    ASSUME LevelsHeld, LevelsOpen, UNCHANGED <<status, open>>,
           \A t \in Tabs : op'[t] = op[t] \/ op'[t].kind \notin {"edit", "level"}
    PROVE  LevelsHeld' /\ LevelsOpen'
<1>1. LevelsOpen'
  BY DEF LevelsOpen, OneOpenLevel
<1>2. LevelsHeld'
  BY DEF LevelsHeld
<1> QED
  BY <1>1, <1>2

LEMMA AddLevels ==
    ASSUME HealthTypes, LevelsHeld, LevelsOpen, NEW p \in Participants, Add(p)
    PROVE  LevelsHeld' /\ LevelsOpen'
<1>1. /\ status[p] = "none" /\ op' = op
      /\ status'[p] = "active" /\ \A q \in Participants : q # p => status'[q] = status[q] /\ open'[q] = open[q]
      /\ open'[p] = [open[p] EXCEPT ![1] = 1]
  BY DEF Add, HealthTypes
<1>2. open'[p] = [k \in Levels |-> IF k = 1 THEN 1 ELSE 0]
  BY <1>1 DEF LevelsOpen
<1>3. ASSUME NEW q \in Participants, status'[q] # "none"
      PROVE  \E l \in Levels : open'[q] = [k \in Levels |-> IF k = l THEN 1 ELSE 0]
  <2>1. CASE q = p
    <3>1. 1 \in Levels
      BY LevelsType
    <3> QED
      BY <1>2, <2>1, <3>1
  <2>2. CASE q # p
    <3>1. status[q] # "none" /\ open'[q] = open[q]
      BY <1>1, <1>3, <2>2
    <3>2. PICK l \in Levels : open[q] = [k \in Levels |-> IF k = l THEN 1 ELSE 0]
      BY <3>1 DEF LevelsOpen, OneOpenLevel
    <3> QED
      BY <3>1, <3>2
  <2> QED
    BY <2>1, <2>2
<1>4. ASSUME NEW q \in Participants, status'[q] = "none"
      PROVE  open'[q] = [l \in Levels |-> 0]
  BY <1>1, <1>4 DEF LevelsOpen
<1>5. LevelsOpen'
  BY <1>3, <1>4 DEF LevelsOpen, OneOpenLevel
<1>6. \A t \in Tabs : op[t].kind \in {"edit", "level"} => op[t].participant \in Participants /\ op[t].participant # p
  BY <1>1, OpFields DEF LevelsHeld
<1>7. LevelsHeld'
  BY <1>1, <1>6 DEF LevelsHeld
<1> QED
  BY <1>5, <1>7

\* A participant who is there becomes active or inactive.
LEMMA StatusLevels ==
    ASSUME HealthTypes, LevelsHeld, LevelsOpen, NEW p \in Participants, NEW s \in {"active", "inactive"},
           status[p] # "none", status' = [status EXCEPT ![p] = s], open' = open,
           \A t \in Tabs : op'[t] = op[t] \/ op'[t].kind \notin {"edit", "level"}
    PROVE  LevelsHeld' /\ LevelsOpen'
<1>1. \A q \in Participants : status'[q] # "none" <=> status[q] # "none"
  BY DEF HealthTypes
<1>2. LevelsOpen'
  BY <1>1 DEF LevelsOpen, OneOpenLevel
<1>3. \A t \in Tabs : op[t].kind \in {"edit", "level"} => op[t].participant \in Participants
  BY OpFields
<1>4. LevelsHeld'
  BY <1>1, <1>3 DEF LevelsHeld
<1> QED
  BY <1>2, <1>4

LEMMA ReadLevels ==
    ASSUME HealthTypes, LevelsHeld, LevelsOpen, NEW t \in Tabs, NEW p \in Participants, ReadParticipant(t, p)
    PROVE  LevelsHeld' /\ LevelsOpen'
<1>1. PICK x : x.kind = "edit" /\ x.participant = p /\ Go(t, x)
  BY DEF ReadParticipant
<1>2. op'[t] = x /\ (\A s \in Tabs : s # t => op'[s] = op[s]) /\ UNCHANGED <<status, open>> /\ status[p] # "none"
  BY <1>1 DEF Go, HealthTypes, ReadParticipant
<1>3. LevelsHeld'
  BY <1>1, <1>2 DEF LevelsHeld
<1>4. LevelsOpen'
  BY <1>2 DEF LevelsOpen, OneOpenLevel
<1> QED
  BY <1>3, <1>4

\* A transaction that changes a level waits for the one before it.
LEMMA BeginLevels ==
    ASSUME HealthTypes, LevelsHeld, LevelsOpen, NEW t \in Tabs, NEW p \in Participants, NEW l \in Levels,
           BeginLevel(t, p, l)
    PROVE  LevelsHeld' /\ LevelsOpen'
<1>1. PICK x : x.kind = "level" /\ x.participant = p /\ x.closes = open[p] /\ Go(t, x)
  BY DEF BeginLevel
<1>2. /\ op'[t] = x /\ \A s \in Tabs : s # t => op'[s] = op[s]
      /\ UNCHANGED <<status, open>> /\ status[p] # "none" /\ ~Held(p)
  BY <1>1 DEF Go, HealthTypes, BeginLevel
<1>3. \A s \in Tabs : op[s].kind = "level" => op[s].participant # p
  BY <1>2 DEF Held
<1>4. LevelsHeld'
  BY <1>1, <1>2, <1>3 DEF LevelsHeld
<1>5. LevelsOpen'
  BY <1>2 DEF LevelsOpen, OneOpenLevel
<1> QED
  BY <1>4, <1>5

LEMMA CommitLevels ==
    ASSUME HealthTypes, LevelsHeld, LevelsOpen, NEW t \in Tabs, CommitLevel(t)
    PROVE  LevelsHeld' /\ LevelsOpen'
<1>1. PICK p \in Participants, l \in Levels : /\ p = op[t].participant
                                              /\ open' = [open EXCEPT ![p] = [k \in Levels |-> IF k = l THEN 1 ELSE 0]]
  BY CommitLevelType
<1>2. /\ op[t].kind = "level" /\ status' = status /\ status[p] # "none"
      /\ open'[p] = [k \in Levels |-> IF k = l THEN 1 ELSE 0]
      /\ \A q \in Participants : q # p => open'[q] = open[q]
      /\ op'[t].kind = "idle" /\ \A s \in Tabs : s # t => op'[s] = op[s]
  <2>1. op[t].kind = "level" /\ status' = status /\ status[p] # "none"
    BY <1>1 DEF CommitLevel, LevelsHeld
  <2>2. /\ open'[p] = [k \in Levels |-> IF k = l THEN 1 ELSE 0]
        /\ \A q \in Participants : q # p => open'[q] = open[q]
    BY <1>1 DEF HealthTypes
  <2>3. op'[t].kind = "idle" /\ \A s \in Tabs : s # t => op'[s] = op[s]
    BY DoneType DEF CommitLevel, Idle
  <2> QED
    BY <2>1, <2>2, <2>3
<1>3. \A s \in Tabs : s # t /\ op[s].kind = "level" => op[s].participant \in Participants /\ op[s].participant # p
  BY <1>1, <1>2, OpFields DEF LevelsHeld
<1>4. LevelsHeld'
  BY <1>2, <1>3 DEF LevelsHeld
<1>5. LevelsOpen'
  BY <1>2 DEF LevelsOpen, OneOpenLevel
<1> QED
  BY <1>4, <1>5

LEMMA LevelsStep ==
    ASSUME HealthTypes, LevelsHeld, LevelsOpen, [Next]_vars
    PROVE  LevelsHeld' /\ LevelsOpen'
<1>1. ASSUME NEW p \in Participants, Deactivate(p)
      PROVE  LevelsHeld' /\ LevelsOpen'
  BY <1>1, StatusLevels DEF Deactivate
<1>2. ASSUME NEW t \in Tabs, WriteParticipant(t)
      PROVE  LevelsHeld' /\ LevelsOpen'
  <2>1. PICK p \in Participants, s \in {"active", "inactive"} : p = op[t].participant /\ s = op[t].status
    BY <1>2, OpFields DEF WriteParticipant
  <2>2. status[p] # "none" /\ status' = [status EXCEPT ![p] = s] /\ open' = open
    BY <1>2, <2>1 DEF WriteParticipant, LevelsHeld
  <2>3. \A u \in Tabs : op'[u] = op[u] \/ op'[u].kind \notin {"edit", "level"}
    BY <1>2, DoneType DEF WriteParticipant, Idle
  <2> QED
    BY <2>2, <2>3, StatusLevels
<1>3. CASE \E t \in Tabs : CommitSave(t) \/ Mark(t) \/ Fail(t)
  <2>1. UNCHANGED <<status, open>>
    BY <1>3 DEF CommitSave, Mark, Fail
  <2>2. \A t \in Tabs : op'[t] = op[t] \/ op'[t].kind \notin {"edit", "level"}
    BY <1>3, DoneType DEF CommitSave, Mark, Fail, Idle
  <2> QED
    BY <2>1, <2>2, LevelsFrame
<1>4. CASE \E t \in Tabs : LockForSave(t) \/ Post(t)
  <2>1. PICK t \in Tabs : \E x : Go(t, x) /\ x.kind \in {"save", "mark"} /\ UNCHANGED <<status, open>>
    BY <1>4 DEF LockForSave, Post
  <2>2. \A s \in Tabs : op'[s] = op[s] \/ op'[s].kind \notin {"edit", "level"}
    BY <2>1 DEF Go, HealthTypes
  <2> QED
    BY <2>1, <2>2, LevelsFrame
<1>5. CASE \E t \in Tabs : \/ \E d \in Periods : Open(t, d)
                           \/ \E a \in tab[t].awaits : Answer(t, a)
                           \/ \E p \in Participants : Toggle(t, p)
                           \/ Back(t)
  <2>1. UNCHANGED <<status, open, op>>
    BY <1>5 DEF Open, Answer, Toggle, Back
  <2> QED
    BY <2>1, LevelsFrame
<1>6. CASE \/ \E l \in Levels, a \in Amounts : SetTier(l, a)
           \/ \E d \in Periods : Create(d)
           \/ \E n \in DOMAIN batch, s \in {"approved", "rejected"} : Review(n, s)
           \/ UNCHANGED vars
  <2>1. UNCHANGED <<status, open, op>>
    BY <1>6 DEF SetTier, Create, Review, vars
  <2> QED
    BY <2>1, LevelsFrame
<1> QED
  BY <1>1, <1>2, <1>3, <1>4, <1>5, <1>6, AddLevels, ReadLevels, BeginLevels, CommitLevels DEF Next

-----------------------------------------------------------------------------
(* Periods and the batches that pay them *)

\* What a step may do to a period: create it, keep its participants and their levels, or mark it.
LEMMA PeriodMoves ==
    ASSUME HealthTypes, PeriodsHeld, EntriesKept, [Next]_vars, NEW d \in Periods
    PROVE  \/ period'[d] = period[d]
           \/ period[d].at = "none" /\ period'[d] = [at |-> "draft", entries |-> Copied]
           \/ /\ period[d].at = "draft" /\ period'[d].at = "draft"
              /\ \E t \in Tabs : CommitSave(t) /\ op[t].period = d
              /\ \E e \in Entries : period'[d].entries = Saved(period[d].entries, e)
           \/ /\ period'[d].entries = period[d].entries /\ period'[d].at = "submitted"
              /\ \E t \in Tabs : Mark(t) /\ op[t].period = d
<1>1. period \in [Periods -> Paying] /\ period[d] \in Paying
  BY DEF HealthTypes
<1>2. CASE \E x \in Periods : /\ period[x].at = "none"
                              /\ period' = [period EXCEPT ![x] = [at |-> "draft", entries |-> Copied]]
  BY <1>1, <1>2
<1>3. ASSUME NEW t \in Tabs, CommitSave(t), period'[d] # period[d]
      PROVE  /\ period[d].at = "draft" /\ period'[d].at = "draft" /\ op[t].period = d
             /\ \E e \in Entries : period'[d].entries = Saved(period[d].entries, e)
  <2>1. PICK x \in Periods, e \in Entries : x = op[t].period /\ e = op[t].entries
    BY <1>3, OpFields DEF CommitSave
  <2>2. period' = [period EXCEPT ![x] = [period[x] EXCEPT !.entries = Saved(period[x].entries, e)]]
    BY <1>1, <1>3, <2>1 DEF CommitSave
  <2>3. x = d
    BY <1>1, <1>3, <2>2
  <2>4. period'[d] = [period[d] EXCEPT !.entries = Saved(period[d].entries, e)]
    BY <1>1, <2>2, <2>3
  <2>5. period'[d].at = period[d].at /\ period'[d].entries = Saved(period[d].entries, e)
    BY <1>1, <2>4 DEF Paying
  <2>6. period[d].at = "draft"
    BY <1>3, <2>1, <2>3 DEF PeriodsHeld, CommitSave
  <2> QED
    BY <2>1, <2>3, <2>5, <2>6
<1>4. ASSUME NEW t \in Tabs, Mark(t), period'[d] # period[d]
      PROVE  /\ period'[d].entries = period[d].entries /\ period'[d].at = "submitted" /\ op[t].period = d
  <2>1. PICK x \in Periods : x = op[t].period
    BY <1>4, OpFields DEF Mark
  <2>2. period' = [period EXCEPT ![x] = [period[x] EXCEPT !.at = "submitted"]]
    BY <1>1, <1>4, <2>1 DEF Mark
  <2>3. x = d
    BY <1>1, <1>4, <2>2
  <2>4. period'[d] = [period[d] EXCEPT !.at = "submitted"]
    BY <1>1, <2>2, <2>3
  <2> QED
    BY <1>1, <2>1, <2>3, <2>4 DEF Paying
<1> QED
  BY <1>2, <1>3, <1>4, PeriodStep

\* Batches that are there stay of their periods.
LEMMA BatchesStay ==
    ASSUME HealthTypes, EntriesKept, [Next]_vars
    PROVE  /\ DOMAIN batch \subseteq DOMAIN batch'
           /\ \A n \in DOMAIN batch : /\ batch'[n].period = batch[n].period /\ batch'[n].from = batch[n].from
                                      /\ batch'[n].pays = batch[n].pays
<1>1. CASE \E t \in Tabs : Post(t)
  BY <1>1, PostType
<1>2. CASE \E n \in DOMAIN batch, s \in {"approved", "rejected"} : Review(n, s)
  BY <1>2, ReviewType
<1> QED
  BY <1>1, <1>2, BatchStep

\* A period that is being saved is marked by nobody.
LEMMA MarkWaits ==
    ASSUME NEW s \in Tabs, NEW t \in Tabs, Mark(t), op[s].kind = "save"
    PROVE  op[s].period # op[t].period
BY DEF Mark, PeriodHeld

\* Transactions that save or mark a period begin in a tab; the others end, or stay.
LEMMA PeriodOps ==
    ASSUME HealthTypes, [Next]_vars, NEW t \in Tabs
    PROVE  \/ op'[t] = op[t]
           \/ op'[t].kind \notin {"save", "mark"}
           \/ LockForSave(t) /\ op'[t] = [kind |-> "save", period |-> tab[t].shows, entries |-> tab[t].entries]
           \/ Post(t) /\ op'[t] = [kind |-> "mark", period |-> tab[t].shows]
<1>1. ASSUME NEW s \in Tabs, WriteParticipant(s) \/ CommitLevel(s) \/ CommitSave(s) \/ Mark(s) \/ Fail(s)
      PROVE  op'[t] = op[t] \/ op'[t].kind \notin {"save", "mark"}
  BY <1>1, DoneType DEF WriteParticipant, CommitLevel, CommitSave, Mark, Fail, Idle
<1>2. ASSUME NEW s \in Tabs, NEW p \in Participants, ReadParticipant(s, p) \/ \E l \in Levels : BeginLevel(s, p, l)
      PROVE  op'[t] = op[t] \/ op'[t].kind \notin {"save", "mark"}
  <2>1. \E x : Go(s, x) /\ x.kind \notin {"save", "mark"}
    <3>1. CASE ReadParticipant(s, p)
      <4>1. PICK named \in BOOLEAN, u \in {"active", "inactive"} :
              Go(s, [kind |-> "edit", participant |-> p, status |-> u, named |-> named])
        BY <3>1 DEF ReadParticipant
      <4> QED
        BY <4>1
    <3>2. CASE \E l \in Levels : BeginLevel(s, p, l)
      BY <3>2 DEF BeginLevel
    <3> QED
      BY <1>2, <3>1, <3>2
  <2> QED
    BY <2>1 DEF Go, HealthTypes
<1>3. ASSUME NEW s \in Tabs, LockForSave(s)
      PROVE  \/ op'[t] = op[t]
             \/ LockForSave(t) /\ op'[t] = [kind |-> "save", period |-> tab[t].shows, entries |-> tab[t].entries]
  <2>1. PICK x : x = [kind |-> "save", period |-> tab[s].shows, entries |-> tab[s].entries]
    OBVIOUS
  <2>2. op' = [op EXCEPT ![s] = x] /\ op \in [Tabs -> Op]
    BY <1>3, <2>1 DEF LockForSave, Go, HealthTypes
  <2>3. IF s = t THEN op'[t] = x ELSE op'[t] = op[t]
    BY <2>2
  <2> QED
    BY <1>3, <2>1, <2>3
<1>4. ASSUME NEW s \in Tabs, Post(s)
      PROVE  \/ op'[t] = op[t]
             \/ Post(t) /\ op'[t] = [kind |-> "mark", period |-> tab[t].shows]
  <2>1. PICK x : x = [kind |-> "mark", period |-> tab[s].shows]
    OBVIOUS
  <2>2. op' = [op EXCEPT ![s] = x] /\ op \in [Tabs -> Op]
    BY <1>4, <2>1 DEF Post, Go, HealthTypes
  <2>3. IF s = t THEN op'[t] = x ELSE op'[t] = op[t]
    BY <2>2
  <2> QED
    BY <1>4, <2>1, <2>3
<1>5. CASE \/ \E l \in Levels, a \in Amounts : SetTier(l, a)
           \/ \E p \in Participants : Add(p) \/ Deactivate(p)
           \/ \E d \in Periods : Create(d)
           \/ \E s \in Tabs : \/ \E d \in Periods : Open(s, d)
                              \/ \E a \in tab[s].awaits : Answer(s, a)
                              \/ \E p \in Participants : Toggle(s, p)
                              \/ Back(s)
           \/ \E n \in DOMAIN batch, s \in {"approved", "rejected"} : Review(n, s)
           \/ UNCHANGED vars
  BY <1>5 DEF SetTier, Add, Deactivate, Create, Open, Answer, Toggle, Back, Review, vars
<1> QED
  BY <1>1, <1>2, <1>3, <1>4, <1>5 DEF Next

\* Once a period is created it keeps its participants and their levels.
LEMMA LevelsStay ==
    ASSUME HealthTypes, PeriodsHeld, EntriesKept, [Next]_vars, NEW d \in Periods, period[d].at # "none"
    PROVE  /\ period'[d].at # "none" /\ DOMAIN period'[d].entries = DOMAIN period[d].entries
           /\ \A p \in DOMAIN period[d].entries : period'[d].entries[p].level = period[d].entries[p].level
<1>1. CASE period'[d] = period[d]
  BY <1>1
<1>2. CASE period'[d].at = "draft" /\ \E e \in Entries : period'[d].entries = Saved(period[d].entries, e)
  BY <1>2, PeriodFields, SavedType
<1>3. CASE period'[d].entries = period[d].entries /\ period'[d].at = "submitted"
  BY <1>3
<1> QED
  BY <1>1, <1>2, <1>3, PeriodMoves

\* So what was read of it is still of it.
LEMMA MatchesStay ==
    ASSUME HealthTypes, PeriodsHeld, EntriesKept, [Next]_vars, NEW d \in Periods, NEW e, Matches(e, d)
    PROVE  Matches(e, d)'
BY LevelsStay DEF Matches

LEMMA PeriodsKept ==
    ASSUME HealthTypes, PeriodsHeld, EntriesKept, [Next]_vars
    PROVE  \A d \in Periods : (Matches(period[d].entries, d) \/ period[d] = NoPeriod)'
<1> SUFFICES ASSUME NEW d \in Periods
             PROVE  (Matches(period[d].entries, d) \/ period[d] = NoPeriod)'
  OBVIOUS
<1>1. CASE period'[d] = period[d]
  BY <1>1 DEF EntriesKept, Matches
<1>2. CASE period'[d] = [at |-> "draft", entries |-> Copied]
  <2>1. period'[d].at # "none" /\ period'[d].entries = Copied
    BY <1>2
  <2>2. \A p \in DOMAIN Copied : Copied[p].level = 0 => ~Copied[p].active
    BY CopiedType
  <2> QED
    BY <2>1, <2>2 DEF Matches
<1>3. CASE period[d].at = "draft" /\ period'[d].at = "draft" /\ \E e \in Entries : period'[d].entries = Saved(period[d].entries, e)
  <2>1. PICK e \in Entries : period'[d].entries = Saved(period[d].entries, e)
    BY <1>3
  <2>2. Matches(period[d].entries, d) /\ period[d].entries \in Entries
    BY <1>3, PeriodFields DEF EntriesKept, NoPeriod
  <2>3. /\ DOMAIN period'[d].entries = DOMAIN period[d].entries
        /\ \A p \in DOMAIN period[d].entries :
              /\ period'[d].entries[p].level = period[d].entries[p].level
              /\ period'[d].entries[p].active => period[d].entries[p].active \/ period[d].entries[p].level # 0
    BY <2>1, <2>2, SavedType
  <2> QED
    BY <1>3, <2>2, <2>3 DEF Matches
<1>4. CASE period'[d].entries = period[d].entries /\ period'[d].at = "submitted" /\ \E t \in Tabs : Mark(t) /\ op[t].period = d
  <2>1. Matches(period[d].entries, d) \/ DOMAIN period[d].entries = {}
    BY NoEntriesType DEF EntriesKept, NoPeriod
  <2> QED
    BY <1>4, <2>1 DEF Matches
<1> QED
  BY <1>1, <1>2, <1>3, <1>4, PeriodMoves

\* What a tab shows, and the answers that it awaits, are of periods.
LEMMA OfPeriodStay ==
    ASSUME HealthTypes, PeriodsHeld, EntriesKept, [Next]_vars,
           NEW d \in Periods \cup {None}, NEW e, OfPeriod(e, d)
    PROVE  OfPeriod(e, d)'
<1>1. CASE d = None
  BY <1>1 DEF OfPeriod
<1>2. CASE d # None
  BY <1>2, MatchesStay DEF OfPeriod
<1> QED
  BY <1>1, <1>2

LEMMA TabsKept ==
    ASSUME HealthTypes, PeriodsHeld, EntriesKept, [Next]_vars, NEW t \in Tabs
    PROVE  /\ OfPeriod(tab[t].entries, tab[t].from)'
           /\ (\A a \in tab[t].awaits : Matches(a.entries, a.period))'
<1>1. ASSUME NEW e, NEW d \in Periods \cup {None}, OfPeriod(e, d), tab'[t].entries = e, tab'[t].from = d
      PROVE  OfPeriod(tab[t].entries, tab[t].from)'
  <2>1. OfPeriod(e, d)'
    BY <1>1, OfPeriodStay
  <2> QED
    BY <1>1, <2>1 DEF OfPeriod, Matches
<1>2. ASSUME \A a \in tab'[t].awaits : a.period \in Periods /\ Matches(a.entries, a.period)
      PROVE  (\A a \in tab[t].awaits : Matches(a.entries, a.period))'
  <2>1. ASSUME NEW a \in tab'[t].awaits
        PROVE  Matches(a.entries, a.period)'
    BY <1>2, MatchesStay
  <2> QED
    BY <2>1
<1>3. /\ tab \in [Tabs -> Tab] /\ tab[t] \in Tab /\ tab[t].from \in Periods \cup {None}
      /\ OfPeriod(tab[t].entries, tab[t].from)
      /\ \A a \in tab[t].awaits : a.period \in Periods /\ Matches(a.entries, a.period)
  BY TabFields DEF HealthTypes, EntriesKept, Answers
<1>4. CASE tab'[t] = tab[t]
  BY <1>1, <1>2, <1>3, <1>4
<1>5. ASSUME NEW d \in Periods, Open(t, d)
      PROVE  /\ OfPeriod(tab[t].entries, tab[t].from)'
             /\ (\A a \in tab[t].awaits : Matches(a.entries, a.period))'
  <2>1. PICK x : x = [period |-> d, entries |-> period[d].entries]
    OBVIOUS
  <2>2. tab'[t] = [[tab[t] EXCEPT !.shows = d] EXCEPT !.awaits = @ \cup {x}]
    BY <1>3, <1>5, <2>1 DEF Open
  <2>3. tab'[t].from = tab[t].from /\ tab'[t].entries = tab[t].entries /\ tab'[t].awaits = tab[t].awaits \cup {x}
    BY <1>3, <2>2 DEF Tab
  <2>4. Matches(period[d].entries, d)
    BY <1>5 DEF Open, EntriesKept, NoPeriod
  <2>5. x.period = d /\ x.entries = period[d].entries
    BY <2>1
  <2> QED
    BY <1>1, <1>2, <1>3, <2>3, <2>4, <2>5
<1>6. ASSUME NEW a \in tab[t].awaits, Answer(t, a)
      PROVE  /\ OfPeriod(tab[t].entries, tab[t].from)'
             /\ (\A b \in tab[t].awaits : Matches(b.entries, b.period))'
  <2>1. tab'[t] = [[[tab[t] EXCEPT !.from = a.period] EXCEPT !.entries = a.entries] EXCEPT !.awaits = @ \ {a}]
    BY <1>3, <1>6 DEF Answer
  <2>2. tab'[t].from = a.period /\ tab'[t].entries = a.entries /\ tab'[t].awaits \subseteq tab[t].awaits
    BY <1>3, <2>1 DEF Tab
  <2>3. OfPeriod(a.entries, a.period)
    BY <1>3, <1>6, NoneAssumption DEF OfPeriod
  <2> QED
    BY <1>1, <1>2, <1>3, <1>6, <2>2, <2>3
<1>7. ASSUME NEW p \in Participants, Toggle(t, p)
      PROVE  /\ OfPeriod(tab[t].entries, tab[t].from)'
             /\ (\A a \in tab[t].awaits : Matches(a.entries, a.period))'
  <2>1. PICK e, d : e = tab'[t].entries /\ d = tab[t].from
    OBVIOUS
  <2>2. /\ tab'[t].from = d /\ tab'[t].awaits = tab[t].awaits /\ DOMAIN e = DOMAIN tab[t].entries
        /\ \A q \in DOMAIN tab[t].entries :
              e[q].level = tab[t].entries[q].level /\ (e[q].level = 0 => e[q] = tab[t].entries[q])
    BY <1>7, <2>1, ToggledType
  <2>3. d = None => OfPeriod(e, d)
    BY <1>3, <2>1, <2>2 DEF OfPeriod
  <2>4. d # None => OfPeriod(e, d)
    <3>1. d # None => Matches(tab[t].entries, d)
      BY <1>3, <2>1 DEF OfPeriod
    <3> QED
      BY <2>2, <3>1 DEF Matches, OfPeriod
  <2>5. d \in Periods \cup {None} /\ tab'[t].entries = e /\ tab'[t].from = d
    BY <1>3, <2>1, <2>2
  <2>6. OfPeriod(tab[t].entries, tab[t].from)'
    BY <1>1, <2>3, <2>4, <2>5
  <2>7. \A a \in tab'[t].awaits : a.period \in Periods /\ Matches(a.entries, a.period)
    BY <1>3, <2>2
  <2> QED
    BY <1>2, <2>6, <2>7
<1>8. CASE Mark(t) \/ Back(t)
  <2>1. tab'[t] = [tab[t] EXCEPT !.shows = None]
    BY <1>3, <1>8 DEF Mark, Back
  <2>2. tab'[t].from = tab[t].from /\ tab'[t].entries = tab[t].entries /\ tab'[t].awaits = tab[t].awaits
    BY <1>3, <2>1 DEF Tab
  <2> QED
    BY <1>1, <1>2, <1>3, <2>2
<1>9. ASSUME NEW s \in Tabs, s # t,
             \/ \E d \in Periods : Open(s, d)
             \/ \E a \in tab[s].awaits : Answer(s, a)
             \/ \E p \in Participants : Toggle(s, p)
             \/ Mark(s) \/ Back(s)
      PROVE  tab'[t] = tab[t]
  BY <1>3, <1>9, ToggledType DEF Open, Answer, Mark, Back
<1> QED
  BY <1>4, <1>5, <1>6, <1>7, <1>8, <1>9, TabStep

\* A batch pays who is at a paid level in the entries it was made of, and goes on doing so.
LEMMA PaymentsKept ==
    ASSUME HealthTypes, PeriodsHeld, EntriesKept, [Next]_vars
    PROVE  (\A n \in DOMAIN batch : /\ period[batch[n].from].at # "none"
                                    /\ \A p \in batch[n].pays : /\ p \in DOMAIN period[batch[n].from].entries
                                                                /\ period[batch[n].from].entries[p].level # 0)'
<1> DEFINE Pays(d, ps) == /\ period[d].at # "none"
                          /\ \A p \in ps : p \in DOMAIN period[d].entries /\ period[d].entries[p].level # 0
<1>1. ASSUME NEW d \in Periods, NEW ps, Pays(d, ps)
      PROVE  Pays(d, ps)'
  BY <1>1, LevelsStay
<1>2. ASSUME NEW n \in DOMAIN batch
      PROVE  /\ batch[n].from \in Periods /\ Pays(batch[n].from, batch[n].pays)
             /\ batch'[n].from = batch[n].from /\ batch'[n].pays = batch[n].pays
  <2>1. batch[n].from \in Periods
    BY DEF HealthTypes, Batch
  <2> QED
    BY <2>1, BatchesStay DEF EntriesKept
<1>3. ASSUME NEW t \in Tabs, Post(t)
      PROVE  tab[t].from \in Periods /\ Pays(tab[t].from, Paid(tab[t].entries))
  <2>1. tab[t].from \in Periods /\ Matches(tab[t].entries, tab[t].from)
    BY <1>3, PostType, NoneAssumption DEF EntriesKept, OfPeriod
  <2> QED
    BY <2>1 DEF Matches, Paid
<1>4. ASSUME NEW n \in DOMAIN batch'
      PROVE  \E d \in Periods : \E ps : Pays(d, ps) /\ batch'[n].from = d /\ batch'[n].pays = ps
  <2>1. CASE n \in DOMAIN batch
    BY <1>2, <2>1
  <2>2. CASE n \notin DOMAIN batch
    <3>1. PICK t \in Tabs : Post(t)
      BY <2>2, BatchStep, ReviewType
    <3>2. batch'[n].from = tab[t].from /\ batch'[n].pays = Paid(tab[t].entries)
      BY <2>2, <3>1, PostType
    <3> QED
      BY <1>3, <3>1, <3>2
  <2> QED
    BY <2>1, <2>2
<1>5. ASSUME NEW n \in DOMAIN batch'
      PROVE  \E d \in Periods : \E ps : Pays(d, ps)' /\ batch'[n].from = d /\ batch'[n].pays = ps
  BY <1>1, <1>4
<1> QED
  BY <1>5

LEMMA EntriesStep ==
    ASSUME HealthTypes, PeriodsHeld, EntriesKept, [Next]_vars
    PROVE  EntriesKept'
BY PeriodsKept, TabsKept, PaymentsKept DEF EntriesKept

\* A period that is being saved stays a draft, and a batch of a period that is being marked stays.
LEMMA PeriodsStep ==
    ASSUME HealthTypes, PeriodsHeld, EntriesKept, SubmittedWasPosted, [Next]_vars
    PROVE  PeriodsHeld' /\ SubmittedWasPosted'
<1> DEFINE Posted(d) == \E n \in DOMAIN batch : batch[n].period = d
<1>1. ASSUME NEW d \in Periods, Posted(d)
      PROVE  Posted(d)'
  BY <1>1, BatchesStay
<1>2. ASSUME NEW t \in Tabs, op'[t].kind = "save"
      PROVE  period'[op'[t].period].at = "draft"
  <2>1. CASE op'[t] = op[t]
    <3>1. PICK d \in Periods : d = op[t].period
      BY <1>2, <2>1, OpFields
    <3>2. period[d].at = "draft"
      BY <1>2, <2>1, <3>1 DEF PeriodsHeld
    <3>3. ~\E s \in Tabs : Mark(s) /\ op[s].period = d
      BY <1>2, <2>1, <3>1, MarkWaits
    <3>4. period'[d].at = "draft"
      BY <3>2, <3>3, PeriodMoves
    <3> QED
      BY <2>1, <3>1, <3>4
  <2>2. CASE LockForSave(t) /\ op'[t] = [kind |-> "save", period |-> tab[t].shows, entries |-> tab[t].entries]
    BY <2>2 DEF LockForSave
  <2>3. ~(Post(t) /\ op'[t] = [kind |-> "mark", period |-> tab[t].shows])
    BY <1>2
  <2>4. op'[t].kind \in {"save", "mark"}
    BY <1>2
  <2> QED
    BY <2>1, <2>2, <2>3, <2>4, PeriodOps
<1>3. ASSUME NEW t \in Tabs, op'[t].kind = "mark"
      PROVE  \E d \in Periods : op'[t].period = d /\ Posted(d)'
  <2>1. CASE op'[t] = op[t]
    <3>1. PICK d \in Periods : d = op[t].period
      BY <1>3, <2>1, OpFields
    <3>2. Posted(d)
      BY <1>3, <2>1, <3>1 DEF PeriodsHeld
    <3> QED
      BY <1>1, <2>1, <3>1, <3>2
  <2>2. CASE Post(t) /\ op'[t] = [kind |-> "mark", period |-> tab[t].shows]
    <3>1. PICK d \in Periods : d = tab[t].shows
      BY <2>2, PostType
    <3>2. \E n \in DOMAIN batch' : batch'[n].period = d
      BY <2>2, <3>1, PostType
    <3> QED
      BY <2>2, <3>1, <3>2
  <2>3. ~(LockForSave(t) /\ op'[t] = [kind |-> "save", period |-> tab[t].shows, entries |-> tab[t].entries])
    BY <1>3
  <2>4. op'[t].kind \in {"save", "mark"}
    BY <1>3
  <2> QED
    BY <2>1, <2>2, <2>3, <2>4, PeriodOps
<1>4. ASSUME NEW d \in Periods, period'[d].at = "submitted"
      PROVE  Posted(d)'
  <2>1. Posted(d)
    <3>1. CASE \E t \in Tabs : Mark(t) /\ op[t].period = d
      BY <3>1 DEF Mark, PeriodsHeld
    <3>2. CASE period'[d] = period[d]
      BY <1>4, <3>2 DEF SubmittedWasPosted
    <3> QED
      BY <1>4, <3>1, <3>2, PeriodMoves
  <2> QED
    BY <1>1, <2>1
<1> QED
  BY <1>2, <1>3, <1>4 DEF PeriodsHeld, SubmittedWasPosted

-----------------------------------------------------------------------------
LEMMA HealthInit == Init => HealthInv
<1> SUFFICES ASSUME Init PROVE HealthInv
  OBVIOUS
<1>1. \A t \in Tabs : op[t].kind = "idle" /\ tab[t] = Blank
  BY DEF Init, Idle
<1>2. LevelsHeld /\ PeriodsHeld
  BY <1>1 DEF LevelsHeld, PeriodsHeld
<1>3. LevelsOpen
  BY DEF Init, LevelsOpen, OneOpenLevel
<1>4. DOMAIN batch = {}
  BY DEF Init
<1>5. \A d \in Periods : period[d] = NoPeriod
  BY DEF Init
<1>6. \A t \in Tabs : OfPeriod(tab[t].entries, tab[t].from) /\ tab[t].awaits = {}
  BY <1>1, NoEntriesType DEF Blank, OfPeriod
<1>7. EntriesKept
  BY <1>4, <1>5, <1>6 DEF EntriesKept
<1>8. SubmittedWasPosted
  BY <1>5 DEF SubmittedWasPosted, NoPeriod
<1> QED
  BY <1>2, <1>3, <1>7, <1>8, TypesInit DEF HealthInv

LEMMA HealthStep == HealthInv /\ [Next]_vars => HealthInv'
BY TypesStep, LevelsStep, EntriesStep, PeriodsStep DEF HealthInv

LEMMA HealthIsInvariant == Spec => []HealthInv
BY HealthInit, HealthStep, PTL DEF Spec

\* public-health.js:295 and :476: whatever officers change while periods are created, saved and
\* paid, everybody who was added has exactly one open level, an entry at LV0 is inactive and paid
\* by no batch, and a period is marked only after a batch of it was accepted.
THEOREM LevelsAndPaymentsAgree == Spec => []AllowanceInv
<1>1. ASSUME HealthInv
      PROVE  AllowanceInv
  <2>1. TypeOK
    <3>1. \A d \in Periods : /\ period[d].at \in {"none", "draft", "submitted"}
                             /\ \A p \in DOMAIN period[d].entries : period[d].entries[p] \in Entry
      BY <1>1, PeriodFields, EntryFields DEF HealthInv
    <3>2. \A n \in DOMAIN batch : /\ batch[n].period \in Periods /\ batch[n].from \in Periods
                                  /\ batch[n].pays \subseteq Participants
      BY <1>1 DEF HealthInv, HealthTypes, Batch
    <3>3. \A t \in Tabs : tab[t].shows \in Periods \cup {None}
      BY <1>1, TabFields DEF HealthInv
    <3> QED
      BY <1>1, <3>1, <3>2, <3>3 DEF HealthInv, HealthTypes, TypeOK
  <2>2. UnpaidLevel
    <3>1. \A d \in Periods : \A p \in DOMAIN period[d].entries :
             period[d].entries[p].level = 0 => ~period[d].entries[p].active
      BY <1>1, NoEntriesType DEF HealthInv, EntriesKept, Matches, NoPeriod
    <3> QED
      BY <1>1, <3>1 DEF HealthInv, EntriesKept, UnpaidLevel
  <2> QED
    BY <1>1, <2>1, <2>2 DEF HealthInv, LevelsOpen, AllowanceInv
<1> QED
  BY <1>1, HealthIsInvariant, PTL

\* public-health.js:467, "a period submitted meanwhile must not be edited under the reviewer": a
\* save that was begun while the period was a draft ends before it is marked, or never.
THEOREM SubmittedEntriesStay == Spec => EntriesStayUnderReview
<1>1. ASSUME HealthInv, [Next]_vars
      PROVE  [\A d \in Periods : period[d].at = "submitted" => period'[d].entries = period[d].entries]_vars
  <2>1. ASSUME NEW d \in Periods, period[d].at = "submitted"
        PROVE  period'[d].entries = period[d].entries
    BY <1>1, <2>1, PeriodMoves DEF HealthInv
  <2> QED
    BY <2>1
<1> QED
  BY <1>1, HealthIsInvariant, PTL DEF Spec, EntriesStayUnderReview
=============================================================================
