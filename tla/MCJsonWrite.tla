---------------------------- MODULE MCJsonWrite -----------------------------
(***************************************************************************)
(* Values of every type, the containers empty and full, nested up to three *)
(* deep with first and last items, a number at the limit of its buffer, a  *)
(* string of all that is escaped.  Memory streams end at every byte.       *)
(***************************************************************************)
EXTENDS JsonWrite

Scalar(type, text) == [type |-> type, text |-> text, items |-> <<>>]
Holder(type, items) == [type |-> type, text |-> <<>>, items |-> items]
In(value) == [key |-> <<>>, value |-> value]
At(key, value) == [key |-> key, value |-> value]

Null == Scalar("null", <<>>)
True == Scalar("bool", <<"t">>)
False == Scalar("bool", <<"f">>)
Fitting == Scalar("number", <<"-", "digit">>)
TooLong == Scalar("number", <<"digit", ".", "digit">>)
Empty == Scalar("string", <<>>)
Special == Scalar("string", <<"quote", "nl", "bslash", "other">>)
Error == Scalar("error", <<>>)
NoList == Holder("list", <<>>)
NoObject == Holder("object", <<>>)
One == Holder("list", <<In(Null)>>)
Two == Holder("object", <<At(<<"other">>, Fitting), At(<<"nl">>, One)>>)
Three == Holder("list", <<In(Two), In(Empty)>>)
Hollow == Holder("object", <<At(<<>>, NoObject), At(<<"quote">>, NoList)>>)
Late == Holder("list", <<In(False), In(TooLong)>>)
Broken == Holder("object", <<At(<<"n">>, Error)>>)

MCDoc == {Null, True, False, Fitting, TooLong, Empty, Special, Error, NoList, NoObject,
          One, Two, Three, Hollow, Late, Broken}
MCIndents == {NONE, <<>>, <<"ws", "ws">>}
=============================================================================
