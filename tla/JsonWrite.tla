----------------------------- MODULE JsonWrite ------------------------------
(***************************************************************************)
(* The JSON writer of src/cosmic_json_write.c over a stream that takes all *)
(* of a write, a part of it, or nothing.                                   *)
(*                                                                         *)
(* The code branches on nothing but the answers of cosmic_io_write, and    *)
(* every failure returns -1 through all the calls on the stack with no     *)
(* other write.  So a document comes to a sequence of writes, each with    *)
(* the test that its caller makes of the answer; the first part of this    *)
(* module says which, the second is the machine that makes them.           *)
(***************************************************************************)
EXTENDS Integers, Sequences, SequencesExt

CONSTANTS
  Doc,        (* json values, with all the values inside them               *)
  Indents,    (* values of the parameter indent, sequences of blanks        *)
  NONE,       (* a null pointer as indent                                   *)
  NumberLen,  (* COSMIC_NUMBER_BUFFER_LEN                                   *)
  MaxRoom     (* bound: the size of a memory stream                         *)

(* Bytes: those that the writer puts out itself, and all others.           *)
Char == {"ws", "nl", "quote", "bslash", "{", "}", "[", "]", ":", ",", "digit", "-",
         ".", "n", "t", "f", "other"}

(* A value is [type, text, items].  text is that of a string, the digits   *)
(* that fprec makes of a number, or the first letter of true and false;    *)
(* items are pairs of a key and a value, the key left empty in a list.     *)
Value(D) ==
  [type  : {"null", "number", "string", "bool", "object", "list", "error"},
   text  : Seq(Char),
   items : Seq([key : Seq(Char), value : D])]

(* No value is inside itself, over however many others: among any values   *)
(* there is one with none of them in it.                                   *)
ASSUME JsonWriteAssumption ==
  /\ Doc \subseteq Value(Doc)
  /\ \A d \in Doc : /\ d.type \notin {"object", "list"} => d.items = <<>>
                    /\ d.type \in {"number", "bool"} => d.text # <<>>
  /\ \A S \in SUBSET Doc :
       S # {} => \E d \in S : \A k \in DOMAIN d.items : d.items[k].value \notin S
  /\ Indents \subseteq Seq(Char) \cup {NONE} /\ NONE \notin Int
  /\ NumberLen \in Nat \ {0} /\ MaxRoom \in Nat

-----------------------------------------------------------------------------
(* The tests of an answer.  must: no byte is a failure.  may: -1 is.       *)
(* whole: as must, and the text is counted in full whatever was taken.     *)
(* refuse: -1 is returned, and the text is not written.                    *)
Write(text, test) == <<[text |-> text, test |-> test]>>
Must(text) == Write(text, "must")
Refusal == Write(<<>>, "refuse")

WriteNewline(indent) == IF indent = NONE THEN <<>> ELSE Write(<<"nl">>, "may")

(* idepth is the number of containers around. *)
WriteIndent(indent, idepth) ==
  IF indent = NONE THEN <<>>
  ELSE [i \in 1 .. idepth |-> [text |-> indent, test |-> "whole"]]

(* Mutant: no comma, answer 0, counts as a failure. *)
WriteCommaDue(items, k) == IF k < Len(items) THEN Write(<<",">>, "may") ELSE Refusal

WriteComma(items, k) == IF k < Len(items) THEN Write(<<",">>, "may") ELSE <<>>

(* Mutant: the answer is tested as that of a comma is. *)
WriteColonMay(indent) == Write(IF indent = NONE THEN <<":">> ELSE <<":", "ws">>, "may")

WriteColon(indent) == Must(IF indent = NONE THEN <<":">> ELSE <<":", "ws">>)

Spelled(letter) == <<letter, "other", "other", "other">> \o IF letter = "f" THEN <<"other">> ELSE <<>>

WriteNull == Must(Spelled("n"))

WriteNumber(j) == IF Len(j.text) >= NumberLen THEN Write(j.text, "refuse") ELSE Must(j.text)

WriteBool(j) == Must(Spelled(j.text[1]))

(* Mutant: the backslash is written as it is. *)
EscapedQuote(c) ==
  CASE c = "quote" -> Must(<<"bslash">>) \o Must(<<c>>)
    [] c = "nl" -> Must(<<"bslash", "n">>)
    [] OTHER -> Must(<<c>>)

Escaped(c) ==
  CASE c \in {"bslash", "quote"} -> Must(<<"bslash">>) \o Must(<<c>>)
    [] c = "nl" -> Must(<<"bslash", "n">>)
    [] OTHER -> Must(<<c>>)

(* Mutant: the empty string returns too early. *)
WriteStringOpen(cp) ==
  Must(<<"quote">>) \o FlattenSeq([n \in DOMAIN cp |-> Escaped(cp[n])])
    \o IF cp = <<>> THEN <<>> ELSE Must(<<"quote">>)

WriteString(cp) ==
  Must(<<"quote">>) \o FlattenSeq([n \in DOMAIN cp |-> Escaped(cp[n])]) \o Must(<<"quote">>)

(* An item that is the k-th of items, with what comes before its value and *)
(* the writes of the value itself.                                         *)
WriteItem(items, k, indent, idepth, before, value) ==
  WriteIndent(indent, idepth) \o before \o value
    \o WriteComma(items, k) \o WriteNewline(indent)

(* Mutant: the depth is not counted down before the closing brace. *)
WriteObjectDeep(j, indent, idepth, values) ==
  Must(<<"{">>) \o WriteNewline(indent)
    \o FlattenSeq([k \in DOMAIN j.items |->
         WriteItem(j.items, k, indent, idepth + 1,
                   WriteString(j.items[k].key) \o WriteColon(indent), values[k])])
    \o WriteIndent(indent, idepth + 1) \o Must(<<"}">>)

WriteObject(j, indent, idepth, values) ==
  IF j.items = <<>> THEN Must(<<"{", "}">>)
  ELSE Must(<<"{">>) \o WriteNewline(indent)
         \o FlattenSeq([k \in DOMAIN j.items |->
              WriteItem(j.items, k, indent, idepth + 1,
                        WriteString(j.items[k].key) \o WriteColon(indent), values[k])])
         \o WriteIndent(indent, idepth) \o Must(<<"}">>)

(* Mutant: the line of the closing bracket is ended too. *)
WriteListLine(j, indent, idepth, values) ==
  Must(<<"[">>) \o WriteNewline(indent)
    \o FlattenSeq([k \in DOMAIN j.items |->
         WriteItem(j.items, k, indent, idepth + 1, <<>>, values[k])])
    \o WriteIndent(indent, idepth) \o Must(<<"]">>) \o WriteNewline(indent)

WriteList(j, indent, idepth, values) ==
  IF j.items = <<>> THEN Must(<<"[", "]">>)
  ELSE Must(<<"[">>) \o WriteNewline(indent)
         \o FlattenSeq([k \in DOMAIN j.items |->
              WriteItem(j.items, k, indent, idepth + 1, <<>>, values[k])])
         \o WriteIndent(indent, idepth) \o Must(<<"]">>)

WriteValue(json, indent) ==
  LET write[j \in Doc] ==
        [idepth \in Nat |->
          LET values == [k \in DOMAIN j.items |-> write[j.items[k].value][idepth + 1]]
          IN  CASE j.type = "null"   -> WriteNull
                [] j.type = "number" -> WriteNumber(j)
                [] j.type = "string" -> WriteString(j.text)
                [] j.type = "bool"   -> WriteBool(j)
                [] j.type = "object" -> WriteObject(j, indent, idepth, values)
                [] j.type = "list"   -> WriteList(j, indent, idepth, values)
                [] OTHER             -> Refusal]
  IN  write[json][0]

(* A value that is written at once: at the top the answer of its only      *)
(* write is returned as it is.                                             *)
Bare(j) == j.type \in {"null", "number", "bool"} \/ (j.type \in {"object", "list"} /\ j.items = <<>>)

-----------------------------------------------------------------------------
VARIABLES
  json,      (* the value to be written                                     *)
  indent,    (* wr->indent                                                  *)
  stream,    (* the kind of wr->io                                          *)
  room,      (* bytes that a memory stream still has room for               *)
  writes,    (* the writes not made yet                                     *)
  i,         (* the sum of the answers so far, as the calls on the stack    *)
             (* hold it between them                                        *)
  ret,       (* the answer of write_stream_s, NONE before it returns        *)
  out,       (* history: what the stream has taken                          *)
  lost,      (* history: in which ways bytes were lost unseen               *)
  refused    (* history: the last write brought no byte to the stream       *)

vars == <<json, indent, stream, room, writes, i, ret, out, lost, refused>>

Init ==
  /\ json \in Doc /\ indent \in Indents
  /\ stream \in {"mem", "socket", "file"}
  /\ room \in IF stream = "mem" THEN 0 .. MaxRoom ELSE {0}
  /\ writes = WriteValue(json, indent)
  /\ i = 0
  /\ ret = NONE
  /\ out = <<>>
  /\ lost = {}
  /\ refused = FALSE

(* The bytes that a stream takes of n, and its answer.  Memory takes what  *)
(* fits; a socket all, or it gives up; a file any part.                    *)
Answers(n) ==
  CASE stream = "mem" ->
         IF room = 0 THEN {[took |-> 0, j |-> -1]}
         ELSE LET k == IF room < n THEN room ELSE n IN {[took |-> k, j |-> k]}
    [] stream = "socket" ->
         {[took |-> n, j |-> n]} \cup [took : 0 .. n - 1, j : {0, -1}]
    [] stream = "file" ->
         {[took |-> 0, j |-> -1]} \cup {[took |-> k, j |-> k] : k \in (IF n = 0 THEN 0 ELSE 1) .. n}

Fails(test, j) == IF test = "may" THEN j < 0 ELSE j <= 0

(* Mutant: what was asked is counted, not what was taken. *)
CountedInFull(write, j) == Len(write.text)

Counted(write, j) == IF write.test = "whole" THEN Len(write.text) ELSE j

(* How an answer that is taken for success lost bytes. *)
Losses(write, j) ==
  IF j = Len(write.text) THEN {} ELSE IF j = 0 THEN {"separator"}
  ELSE IF write.test = "whole" THEN {"indent"} ELSE {"part"}

Refuse ==
  /\ ret = NONE
  /\ Head(writes).test = "refuse"
  /\ ret' = -1
  /\ UNCHANGED <<json, indent, stream, room, writes, i, out, lost, refused>>

(* One call of cosmic_io_write, with what its caller makes of the answer.  *)
IoWrite ==
  /\ ret = NONE
  /\ Head(writes).test # "refuse"
  /\ \E answer \in Answers(Len(Head(writes).text)) :
       LET write == Head(writes)
           j == answer.j
           sum == i + Counted(write, j)
           last == Len(writes) = 1
           gone == ~Bare(json) /\ Fails(write.test, j)
       IN  /\ out' = out \o SubSeq(write.text, 1, answer.took)
           /\ room' = IF stream = "mem" THEN room - answer.took ELSE room
           /\ writes' = Tail(writes)
           /\ i' = IF gone \/ last THEN i ELSE sum
           /\ lost' = IF gone \/ (last /\ j <= 0) THEN lost ELSE lost \cup Losses(write, j)
           /\ refused' = (j <= 0 /\ write.text # <<>>)
           /\ ret' = IF gone THEN -1 ELSE IF last THEN sum ELSE NONE
  /\ UNCHANGED <<json, indent, stream>>

Returned == ret # NONE /\ UNCHANGED vars

Next == Refuse \/ IoWrite \/ Returned

Spec == Init /\ [][Next]_vars
-----------------------------------------------------------------------------
(* The text of a value: its items apart by commas, on lines of their own   *)
(* when there is an indent, one deeper than the value they belong to.      *)
Joined(parts, between) ==
  FlattenSeq([k \in DOMAIN parts |-> IF k = 1 THEN parts[k] ELSE between \o parts[k]])

Quoted(s) ==
  LET Of(c) == CASE c = "nl" -> <<"bslash", "n">>
                 [] c \in {"quote", "bslash"} -> <<"bslash", c>>
                 [] OTHER -> <<c>>
  IN  <<"quote">> \o FlattenSeq([k \in DOMAIN s |-> Of(s[k])]) \o <<"quote">>

(* What begins a line that is n deep. *)
Line(ind, n) == IF ind = NONE THEN <<>> ELSE <<"nl">> \o FlattenSeq([m \in 1 .. n |-> ind])

(* What comes before the value of the k-th item. *)
Name(ind, d, k) ==
  IF d.type = "object"
  THEN Quoted(d.items[k].key) \o (IF ind = NONE THEN <<":">> ELSE <<":", "ws">>)
  ELSE <<>>

Text ==
  LET text[d \in Doc] ==
        [n \in Nat |->
          LET items == [k \in DOMAIN d.items |-> Name(indent, d, k) \o text[d.items[k].value][n + 1]]
              inside == IF items = <<>> THEN <<>>
                        ELSE Line(indent, n + 1) \o Joined(items, <<",">> \o Line(indent, n + 1))
                             \o Line(indent, n)
          IN  CASE d.type = "object" -> <<"{">> \o inside \o <<"}">>
                [] d.type = "list"   -> <<"[">> \o inside \o <<"]">>
                [] d.type = "string" -> Quoted(d.text)
                [] d.type = "number" -> d.text
                [] d.type = "null"   -> Spelled("n")
                [] d.type = "bool"   -> Spelled(d.text[1])
                [] d.type = "error"  -> <<>>]
  IN  text[json][0]

(* A number too long for its buffer, or an error, is in the value. *)
Unwritable ==
  LET has[d \in Doc] == \/ d.type = "error"
                        \/ d.type = "number" /\ Len(d.text) >= NumberLen
                        \/ \E k \in DOMAIN d.items : has[d.items[k].value]
  IN  has[json]

(* Every variable has its type.                                            *)
TypeOK ==
  /\ json \in Doc /\ indent \in Indents
  /\ stream \in {"mem", "socket", "file"}
  /\ room \in 0 .. MaxRoom
  /\ i \in Nat
  /\ ret = NONE \/ ret \in Int
  /\ lost \subseteq {"separator", "indent", "part"}
  /\ refused \in BOOLEAN
  /\ ret = NONE => writes # <<>>

(* As long as no byte was lost unseen, what is out is the beginning of the *)
(* text, after a failure too; and a positive answer means that it is the   *)
(* whole text: commas between the items and none behind the last, every    *)
(* line indented as deep as it is nested, every text escaped.              *)
Whole ==
  lost = {} =>
    /\ IsPrefix(out, Text)
    /\ ret # NONE /\ ret > 0 => out = Text /\ ~Unwritable

(* On a memory stream a positive answer means the whole text, whatever the *)
(* size of the buffer, but for a bare value at the top, whose only write   *)
(* is cut off unseen (:138, :227, :63, :76, :128).                         *)
MemoryWhole ==
  stream = "mem" /\ ret # NONE /\ ret > 0 => out = Text \/ Bare(json)

(* On a socket all that can be missing under a positive answer are commas  *)
(* and line breaks, whose writes may time out: their answer 0 is taken for *)
(* "nothing to write" (:190, :197, :265, :272).                            *)
SocketLosesSeparators ==
  LET Kept(s) == FlattenSeq([k \in DOMAIN s |-> IF s[k] \in {",", "nl"} THEN <<>> ELSE <<s[k]>>])
  IN  stream = "socket" /\ ret # NONE /\ ret > 0 => Kept(out) = Kept(Text)

(* The answer is the number of bytes that were taken, unless the stream    *)
(* took a part of an indent, which is counted in full (:45).  (And every   *)
(* variable has its type.)                                                 *)
Counts ==
  /\ TypeOK
  /\ ret = NONE /\ "indent" \notin lost => i = Len(out)
  /\ ret # NONE /\ ret > 0 /\ "indent" \notin lost => ret = Len(out)

(* The writer gives up only where the stream took nothing of a write, the  *)
(* value cannot be written, or the indent is the empty text, with which no *)
(* container can be written: a write of no bytes counts as failed (:40).   *)
FailsWithReason ==
  ret = -1 => refused \/ Unwritable \/ (indent = <<>> /\ ~Bare(json))
=============================================================================
