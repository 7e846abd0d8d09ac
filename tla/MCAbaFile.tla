----------------------------- MODULE MCAbaFile -----------------------------
(***************************************************************************)
(* Drafts, changes and blacklists of AbaFile for TLC.  Each draft differs  *)
(* from a good one in one field of its header, or pays one of the lists of *)
(* transactions; amounts lie on both sides of half a cent and of the       *)
(* largest amount of a line and of a file.                                 *)
(***************************************************************************)
EXTENDS AbaFile

MCChar == Plain \cup {"A", "e", "e-acute", "n-dash", "?"}
MCAscii == [c \in MCChar |-> CASE c = "e-acute" -> "e" [] c = "n-dash" -> "?" [] OTHER -> c]

Times(c, n) == [i \in 1..n |-> c]
Plainly(digits) == [digits |-> digits, stray |-> FALSE]
Bsbs == {Times("0", 6), Times("1", 6)}
Tx(bsb, account, amount, ref) ==
    [bsb |-> Plainly(bsb), account |-> account, amount |-> amount, ref |-> ref, rest |-> <<>>]

GoodTxs == {Tx(b, Plainly(Times("2", 9)), x, <<"A", "n-dash">>) : b \in Bsbs, x \in {4, 25, 54}}
BadTxs == {Tx(Times("0", 5), Plainly(Times("2", 9)), 10, <<"A">>),
           Tx(Times("0", 6), Plainly(Times("2", 4)), 10, <<"A">>),
           Tx(Times("0", 6), [digits |-> Times("2", 5), stray |-> TRUE], 10, <<"A">>),
           Tx(Times("0", 6), Plainly(Times("2", 5)), 55, <<"A">>),
           Tx(Times("0", 6), Plainly(Times("2", 5)), 0, <<"A">>),
           Tx(Times("0", 6), Plainly(Times("2", 5)), 10, <<" ">>)}
Lists == {<<x>> : x \in GoodTxs \cup BadTxs} \cup {<<x, y>> : x, y \in GoodTxs}
         \cup {Times(x, 3) : x \in {y \in GoodTxs : y.bsb = Plainly(Times("0", 6)) /\ y.amount < 50}}
         \cup {<<>>}

GoodForm == [user |-> <<"A">>, remitter |-> <<"A">>, apca |-> Plainly(Times("3", 6)), desc |-> <<"A">>,
         proc |-> Times("4", 6), bsb |-> Plainly(Times("5", 6)), account |-> Plainly(Times("6", 5)),
         rest |-> <<>>]
Forms == {GoodForm, [GoodForm EXCEPT !.remitter = <<>>], [GoodForm EXCEPT !.remitter = <<"e-acute">>],
          [GoodForm EXCEPT !.apca = Plainly(Times("3", 5))], [GoodForm EXCEPT !.bsb = Plainly(<<>>)],
          [GoodForm EXCEPT !.account = Plainly(Times("6", 10))], [GoodForm EXCEPT !.proc = <<"4">>]}
         \cup {[GoodForm EXCEPT !.desc = d] :
                 d \in {<<>>, <<"A", " ">>, <<"n-dash">>, Times("A", 12), Times("A", 13)}}
Pair == <<CHOOSE x \in GoodTxs : x.amount = 25, CHOOSE x \in GoodTxs : x.amount = 4>>

MCDrafts == {[head |-> GoodForm, txs |-> l] : l \in Lists} \cup {[head |-> h, txs |-> Pair] : h \in Forms}

MCAmendments ==
    [proc: {Times("7", 6)}, desc: {Nothing, <<>>, <<"A", "e">>, <<"e-acute">>, Times("e", 13)},
     remitter: {Nothing, <<>>, Times("e", 17)}]

MCBlacklists ==
    LET entry == [bsb: Bsbs \cup {<<"0">>}, account: {Nothing, <<>>, Times("2", 9)}, all: BOOLEAN]
    IN  {{}} \cup {{e} : e \in entry} \cup {entry}
=============================================================================
