----------------------------- MODULE MCJsonPipe -----------------------------
(***************************************************************************)
(* Values of every type with every way of ending and of nesting, one at    *)
(* each limit of the reader (a string of SBufLen characters, one container *)
(* more than MaxDepth) and of the writer (a number of NumberLen).          *)
(***************************************************************************)
EXTENDS JsonPipe

Scalar(type, text) == [type |-> type, text |-> text, items |-> <<>>]
Holder(type, items) == [type |-> type, text |-> <<>>, items |-> items]
At(key, value) == [key |-> key, value |-> value]
In(value) == At(<<>>, value)

Null == Scalar("null", <<>>)
True == Scalar("bool", <<"t">>)
False == Scalar("bool", <<"f">>)
Negative == Scalar("number", <<"-", "digit", "digit">>)
Point == Scalar("number", <<"digit", ".", "digit">>)
TooLong == Scalar("number", <<"digit", ".", "digit", "digit">>)
Empty == Scalar("string", <<>>)
Text == Scalar("string", <<"bslash", "n", "{">>)
Break == Scalar("string", <<"nl", "quote", ",">>)
Full == Scalar("string", <<"t", "ws", "]", ":">>)
NoList == Holder("list", <<>>)
NoObject == Holder("object", <<>>)
Mixed == Holder("list", <<In(Null), In(Point), In(Text), In(True), In(Negative)>>)
Pairs == Holder("object", <<At(<<"quote">>, Break), At(<<>>, False), At(<<"nl">>, Point)>>)
Deep == Holder("list", <<In(Holder("object", <<At(<<"n">>, NoList)>>)), In(Empty)>>)
Wide == Holder("list", <<In(NoList), In(NoObject), In(NoList)>>)
Cut == Holder("object", <<At(<<"n">>, Full)>>)

Inside(d) == {d} \cup {d.items[k].value : k \in DOMAIN d.items}
MCDoc ==
  LET top == {Text, Break, Full, TooLong, Negative, Mixed, Pairs, Deep, Wide, Cut}
      mid == UNION {Inside(d) : d \in top}
  IN  UNION {Inside(d) : d \in mid}
MCIndents == {NONE, <<"ws">>}
MCKey == {<<>>, <<"quote">>, <<"nl">>, <<"n">>}
MCRests == {"end", "nul", "ws", "digit", "}", ",", "quote"}
=============================================================================
