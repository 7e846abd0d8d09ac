------------------------------ MODULE AbaFile ------------------------------
(***************************************************************************)
(* ABA (Cemtex) files: how the browser builds one of a draft (buildAbaFile *)
(* of client lib/generator-utils.ts), what the server accepts and how it   *)
(* amends one (lib/abaFile.js), and what a submission compares the file    *)
(* with (routes/batches.js, client lib/blacklist.ts).                      *)
(*                                                                         *)
(* A record of a file is its fields: numbers by their digits, texts padded *)
(* to their width.  The fields that no rule reads (bank, reel, user, trace *)
(* account, titles) are carried as one, "rest".  A total is never summed   *)
(* up here: AddsUp relates a list and its total as the loops do, by the    *)
(* running totals between them.                                            *)
(***************************************************************************)
EXTENDS Integers, Sequences

CONSTANTS
    Limit,          \* the largest number of ten digits, the width of an amount
    MaxLines,       \* the largest number of six digits, the width of the count
    Char,           \* characters
    Ascii,          \* what padR makes of each: letters lose their accents, the rest becomes "?"
    Nothing,        \* not sent; no account; no key
    Drafts,         \* header forms with their transactions
    Amendments,     \* value-date changes
    Blacklists      \* sets of active blacklist entries

Blank == " "
Digit == {"0", "1", "2", "3", "4", "5", "6", "7", "8", "9"}
Plain == {Blank, "-"} \cup Digit
Text == Seq(Char)
Digits == Seq(Digit)

\* What is typed for a number: its digits, and whether there is anything but digits, spaces
\* and hyphens with them.
Typed == [digits: Digits, stray: BOOLEAN]
Transaction == [bsb: Typed, account: Typed, amount: Int, ref: Text, rest: Text]
HeaderData == [user: Text, remitter: Text, apca: Typed, desc: Text, proc: Text,
               bsb: Typed, account: Typed, rest: Text]
Draft == [head: HeaderData, txs: Seq(Transaction)]
Date == [1..6 -> Digit]
Amendment == [proc: Date, desc: Text \cup {Nothing}, remitter: Text \cup {Nothing}]
Entry == [bsb: Digits, account: Digits \cup {Nothing}, all: BOOLEAN]

ASSUME WidthsAssumption == Limit \in Nat /\ MaxLines \in Nat
ASSUME TextAssumption ==
    /\ Plain \subseteq Char
    /\ Nothing \notin Text /\ Nothing \notin [bsb: Digits, account: Digits]
    /\ Ascii \in [Char -> Char] /\ \A c \in Plain : Ascii[c] = c
ASSUME InputsAssumption ==
    /\ Drafts \subseteq Draft /\ Amendments \subseteq Amendment
    /\ Blacklists \subseteq SUBSET Entry

-----------------------------------------------------------------------------
(* Fields *)

\* String.prototype.slice(0, n), padEnd with slice, and trimEnd.
Cut(s, n) == SubSeq(s, 1, IF Len(s) < n THEN Len(s) ELSE n)
Field(s, n) == [i \in 1..n |-> IF i <= Len(s) THEN s[i] ELSE Blank]
EndsAt(s, n) == (n > 0 => s[n] # Blank) /\ \A i \in n + 1..Len(s) : s[i] = Blank
TrimEnd(s) == SubSeq(s, 1, CHOOSE n \in 0..Len(s) : EndsAt(s, n))

ToAscii(s) == [i \in 1..Len(s) |-> Ascii[s[i]]]
PadR(s, n) == Field(ToAscii(Cut(s, n)), n)

\* padL of a number: the last digits that fit.
Ten(n) == n % (Limit + 1)
Six(n) == n % (MaxLines + 1)

\* Amounts are in tenths of a cent: Math.round(amount * 100).
Cents(tx) == (tx.amount + 5) \div 10

\* The loop over a list that ends with this total.
AddsUp(s, total) ==
    \E t \in [0..Len(s) -> 0..total] :
        /\ t[0] = 0 /\ t[Len(s)] = total
        /\ \A i \in 1..Len(s) : t[i] = t[i - 1] + s[i]

-----------------------------------------------------------------------------
(* buildAbaFile *)

DebitCode == 13
CreditCodes == 50..57

RowOk(tx) ==
    /\ \E i \in 1..Len(tx.ref) : tx.ref[i] # Blank
    /\ Len(tx.bsb.digits) = 6
    /\ ~tx.account.stray /\ Len(tx.account.digits) \in 5..9
    /\ tx.amount > 0 /\ Cents(tx) <= Limit

CentsOf(d) == [i \in 1..Len(d.txs) |-> Cents(d.txs[i])]

BuildableFaulty(d, total) ==
    /\ Len(d.txs) > 0
    /\ d.head.user # <<>> /\ d.head.remitter # <<>>
    /\ Len(d.head.apca.digits) = 6
    /\ \A i \in 1..Len(d.txs) : RowOk(d.txs[i])
    /\ AddsUp(CentsOf(d), total)
    /\ Len(d.head.bsb.digits) = 6 /\ Len(d.head.account.digits) \in 5..9

\* What it does not refuse with an error; the pages ask for a transaction at least.
Buildable(d, total) ==
    /\ Len(d.txs) > 0
    /\ d.head.user # <<>> /\ d.head.remitter # <<>>
    /\ Len(d.head.apca.digits) = 6
    /\ \A i \in 1..Len(d.txs) : RowOk(d.txs[i])
    /\ AddsUp(CentsOf(d), total) /\ total <= Limit
    /\ Len(d.head.bsb.digits) = 6 /\ Len(d.head.account.digits) \in 5..9

\* The date of the form, or today's.
Proc(h, date) == IF h.proc \in Date THEN h.proc ELSE date

Payment(h, tx) ==
    [bsb |-> tx.bsb.digits, account |-> tx.account.digits, code |-> 53, cents |-> Ten(Cents(tx)),
     ref |-> PadR(tx.ref, 18), remitter |-> PadR(h.remitter, 16), rest |-> tx.rest]

Balancing(h, proc, total) ==
    [bsb |-> h.bsb.digits, account |-> h.account.digits, code |-> DebitCode, cents |-> Ten(total),
     ref |-> PadR(Cut(h.desc, 12) \o <<"-">> \o proc, 18), remitter |-> PadR(h.remitter, 16),
     rest |-> h.rest]

BuildAbaFile(d, total, date) ==
    LET n == Len(d.txs)
    IN  [head |-> [desc |-> PadR(d.head.desc, 12), proc |-> Proc(d.head, date), rest |-> d.head.rest],
         details |-> [i \in 1..n + 1 |-> IF i <= n THEN Payment(d.head, d.txs[i])
                                         ELSE Balancing(d.head, Proc(d.head, date), total)],
         trailer |-> [net |-> Ten(total - total), credits |-> Ten(total), debits |-> Ten(total),
                      count |-> Six(n + 1)]]

-----------------------------------------------------------------------------
(* parseAbaFile and amendValueDate *)

Amounts(f, codes) ==
    [i \in 1..Len(f.details) |-> IF f.details[i].code \in codes THEN f.details[i].cents ELSE 0]

Distance(a, b) == IF a < b THEN b - a ELSE a - b

Accepted(f) ==
    /\ Len(f.details) > 0
    /\ \A i \in 1..Len(f.details) : f.details[i].code \in CreditCodes \cup {DebitCode}
    /\ AddsUp(Amounts(f, CreditCodes), f.trailer.credits)
    /\ AddsUp(Amounts(f, {DebitCode}), f.trailer.debits)
    /\ f.trailer.net = Distance(f.trailer.credits, f.trailer.debits)
    /\ f.trailer.count = Len(f.details)

AmendedDesc(desc, v) == IF v.desc = Nothing THEN desc ELSE Field(v.desc, 12)
AmendedLine(x, ref, v) ==
    [x EXCEPT !.remitter = IF v.remitter = Nothing THEN @ ELSE Field(v.remitter, 16),
              !.ref = IF x.code = DebitCode THEN ref ELSE @]

\* The balancing debit's lodgement reference follows the description and the date.
AmendValueDate(f, v) ==
    LET desc == AmendedDesc(f.head.desc, v)
        ref == Field(TrimEnd(desc) \o <<"-">> \o v.proc, 18)
    IN  [head |-> [desc |-> desc, proc |-> v.proc, rest |-> f.head.rest],
         details |-> [i \in 1..Len(f.details) |-> AmendedLine(f.details[i], ref, v)],
         trailer |-> f.trailer]

-----------------------------------------------------------------------------
(* POST /batches: the file beside the transactions that reviewers are shown *)

CreditLines(f) == {i \in 1..Len(f.details) : f.details[i].code # DebitCode}

BuildBlacklistKey(bsb, account) ==
    IF Len(bsb) < 6 \/ account \in {<<>>, Nothing} THEN Nothing
    ELSE [bsb |-> Cut(bsb, 6), account |-> account]

\* sameCredits: the keys of both, sorted, are the same; that is, they pair up.
SameCredits(txs, f) ==
    \E line \in [1..Len(txs) -> CreditLines(f)] :
        /\ \A i \in CreditLines(f) : \E n \in 1..Len(txs) : line[n] = i
        /\ \A n, m \in 1..Len(txs) : line[n] = line[m] => n = m
        /\ \A n \in 1..Len(txs) :
              LET paid == f.details[line[n]]
              IN  /\ Cents(txs[n]) = paid.cents
                  /\ BuildBlacklistKey(txs[n].bsb.digits, txs[n].account.digits)
                       = BuildBlacklistKey(paid.bsb, paid.account)

\* Whether an entry names an account: of the server, where two missing keys are equal ...
NormalizeBsb(bsb) == IF Len(bsb) < 6 THEN Nothing ELSE Cut(bsb, 6)

Blocks(entry, bsb, account) ==
    IF entry.all THEN NormalizeBsb(entry.bsb) = NormalizeBsb(bsb)
    ELSE BuildBlacklistKey(entry.bsb, entry.account) = BuildBlacklistKey(bsb, account)

FindBlacklistedCredit(f, entries) ==
    \E i \in CreditLines(f), e \in entries : Blocks(e, f.details[i].bsb, f.details[i].account)

\* ... and of the browser, which keeps sets of the keys that there are.
IsBlacklistedCombo(bsb, account, entries) ==
    LET keys == {BuildBlacklistKey(e.bsb, e.account) : e \in {x \in entries : ~x.all}}
        bsbs == {NormalizeBsb(e.bsb) : e \in {x \in entries : x.all}}
    IN  \/ NormalizeBsb(bsb) \in bsbs \ {Nothing}
        \/ BuildBlacklistKey(bsb, account) \in keys \ {Nothing}

\* A field that is not empty; one of blanks alone, which no file is built of, counts as empty.
Given(typed) == typed.digits # <<>> \/ typed.stray

FindBlockedTransactions(d, entries) ==
    \E i \in 1..Len(d.txs) :
        /\ Given(d.txs[i].bsb) /\ Given(d.txs[i].account)
        /\ IsBlacklistedCombo(d.txs[i].bsb.digits, d.txs[i].account.digits, entries)

-----------------------------------------------------------------------------
(* Properties *)

\* The draft as amended by hand, to be built again.
Redrafted(d, v) ==
    [head |-> [d.head EXCEPT !.proc = v.proc,
                             !.desc = IF v.desc = Nothing THEN @ ELSE v.desc,
                             !.remitter = IF v.remitter = Nothing THEN @ ELSE v.remitter],
     txs |-> d.txs]

\* The texts that both conversions write alike: of ASCII characters, a description that does not
\* end in a blank where it is cut.
AsciiOnly(s) == \A i \in 1..Len(s) : Ascii[s[i]] = s[i]
NoBlankEnd(s) == EndsAt(s, Len(s))
Agreed(h) == AsciiOnly(h.desc) /\ AsciiOnly(h.remitter) /\ NoBlankEnd(Cut(h.desc, 12))

Fits(d) == Len(d.txs) + 1 <= MaxLines
Totals(d) == 0..Limit * Len(d.txs)

\* A file that the browser builds adds up for the server, unless it has more lines than a trailer
\* can count, and pays what reviewers are shown.
AcceptedAsShown(d, f) == (Accepted(f) <=> Fits(d)) /\ SameCredits(d.txs, f)

\* "payees, accounts and amounts are carried over byte for byte".
SamePayment(x, y) ==
    [y EXCEPT !.ref = <<>>, !.remitter = <<>>] = [x EXCEPT !.ref = <<>>, !.remitter = <<>>]
SamePayments(f, g) ==
    /\ Len(g.details) = Len(f.details)
    /\ \A i \in 1..Len(f.details) : SamePayment(f.details[i], g.details[i])

\* The browser blocks a draft if and only if the server finds a blacklisted credit in its file.
BlockedAlike(d, f, entries) ==
    FindBlockedTransactions(d, entries) <=> FindBlacklistedCredit(f, entries)

\* A file that is built is accepted as it was shown.
BuiltIsPaid ==
    \A d \in Drafts : \A total \in Totals(d) : Buildable(d, total) =>
        \A v \in Amendments : AcceptedAsShown(d, BuildAbaFile(d, total, v.proc))

\* What it becomes when its date is changed, and changed again, is accepted as it was shown, and
\* pays the same.
AmendedIsPaid ==
    \A d \in Drafts : \A total \in Totals(d) : Buildable(d, total) =>
        \A v, w \in Amendments :
            LET f == BuildAbaFile(d, total, v.proc)
                once == AmendValueDate(f, v)
                twice == AmendValueDate(once, w)
            IN  \A g \in {once, twice} : AcceptedAsShown(d, g) /\ SamePayments(f, g)

\* To change the date of a file is to build the file of the changed draft (abaFile.js:98, "as it
\* does when the browser builds the file"), for texts that both sides write alike.
AmendingRebuilds ==
    \A d \in Drafts : \A total \in Totals(d) : Buildable(d, total) =>
        \A v \in Amendments :
            LET r == Redrafted(d, v)
            IN  Agreed(r.head) => AmendValueDate(BuildAbaFile(d, total, v.proc), v)
                                    = BuildAbaFile(r, total, v.proc)

\* A file is refused for its payees only if the browser would have said so.
SidesBlockAlike ==
    \A d \in Drafts : \A total \in Totals(d) : Buildable(d, total) =>
        \A v \in Amendments, entries \in Blacklists :
            BlockedAlike(d, BuildAbaFile(d, total, v.proc), entries)
=============================================================================
