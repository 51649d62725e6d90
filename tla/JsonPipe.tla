------------------------------ MODULE JsonPipe ------------------------------
(***************************************************************************)
(* The writer and the reader of JSON put together: a value is written to a *)
(* memory stream with cosmic_json_write_stream_s, and what is there is     *)
(* read with cosmic_json_read_stream_s.  Behind the text the stream ends,  *)
(* or holds what the caller left in the buffer or sent after it.           *)
(*                                                                         *)
(* JsonRead counts the characters of strings and leaves their texts open;  *)
(* here they are known, and made rebuilds from them the value that the     *)
(* reader returns.                                                         *)
(***************************************************************************)
EXTENDS Integers, Sequences, SequencesExt

CONSTANTS Doc, Indents, NONE, NumberLen, MaxRoom, Key, MaxDepth, SBufLen, MaxInput,
          Rests     (* what may follow the text in the stream *)

VARIABLES json, indent, stream, room, writes, i, ret, out, lost, refused,
          mode, frames, stage, scan, depth, error, parent, entries, result,
          consumed, lead, cut,
          rest,     (* the character behind the text                        *)
          chars,    (* the characters kept by the scanning function         *)
          made      (* the values created, with their types and texts       *)

W == INSTANCE JsonWrite
R == INSTANCE JsonRead

writer == <<json, indent, stream, room, writes, i, ret, out, lost, refused>>
reader == <<mode, frames, stage, scan, depth, error, parent, entries, result,
            consumed, lead, cut>>
vars == <<writer, reader, rest, chars, made>>

ASSUME JsonPipeAssumption == Rests \subseteq R!Char \cup {R!End}

Init ==
  /\ W!Init /\ stream = "mem" /\ room = MaxRoom
  /\ R!Init
  /\ rest \in Rests
  /\ chars = <<>>
  /\ made = <<>>

Writing == W!Next /\ ret = NONE /\ UNCHANGED <<reader, rest, chars, made>>

(* The next character of the stream; the line breaks of the writer are     *)
(* blanks to the reader.                                                   *)
Upcoming ==
  IF consumed < Len(out) THEN IF out[consumed + 1] = "nl" THEN "ws" ELSE out[consumed + 1]
  ELSE IF consumed = Len(out) THEN rest ELSE R!End

(* What read_string keeps of a character (:73-110). *)
Unescaped(c) == IF scan.esc /\ c = "n" THEN "nl" ELSE c

Kept(c) ==
  CASE mode = "string" -> IF scan.esc \/ c \notin {"bslash", "quote"}
                          THEN Append(chars, Unescaped(c)) ELSE chars
    [] mode = "number" -> IF c \in {"digit", "."} THEN Append(chars, c) ELSE chars
    [] mode = "seek"   -> IF c = "quote" THEN <<>> ELSE <<c>>
    [] OTHER -> chars

Type(c) ==
  CASE mode = "string" -> "string"
    [] mode = "number" -> "number"
    [] mode = "compare" -> IF chars = <<"n">> THEN "null" ELSE "bool"
    [] OTHER -> IF c = "{" THEN "object" ELSE "list"

(* A value that appears among those allocated is recorded; its key is that *)
(* which its container has read last.                                      *)
Made(c) ==
  [type |-> Type(c),
   text |-> IF Type(c) \in {"string", "number", "bool"} THEN Kept(c) ELSE <<>>,
   key  |-> IF frames = <<>> \/ Last(frames).key = NONE THEN <<>> ELSE Last(frames).key,
   in   |-> IF frames = <<>> THEN 0 ELSE Last(frames).node]

Step(c) ==
  \/ c = "ws" /\ R!SeekBlank
  \/ R!SeekFound(c) \/ R!SeekFail(c) \/ R!Number(c)
  \/ /\ R!String(c)
     /\ mode' = "seek" /\ stage = "key" => Last(frames').key = Kept(c)
  \/ /\ R!Compare
     /\ IF c = R!End THEN consumed' = consumed
        ELSE consumed' # consumed /\ (error'.code = "unexpected" <=> c # "other")

Reading ==
  LET c == Upcoming
  IN  /\ ret # NONE /\ ret > 0
      /\ mode # "done"
      /\ Step(c)
      /\ chars' = Kept(c)
      /\ made' = IF R!Fresh \in DOMAIN parent' THEN Append(made, Made(c)) ELSE made
      /\ UNCHANGED <<writer, rest>>

Over == (IF ret = NONE THEN FALSE ELSE ret <= 0 \/ mode = "done") /\ UNCHANGED vars

Next == Writing \/ Reading \/ Over

Spec == Init /\ [][Next]_vars
-----------------------------------------------------------------------------
(* The value that was read: its items are the values created in it, in the *)
(* order of their creation.                                                *)
ReadBack ==
  LET value[n \in DOMAIN made] ==
        LET inside == SelectSeq([k \in DOMAIN made |-> k], LAMBDA k : made[k].in = n)
        IN  [type  |-> made[n].type,
             text  |-> made[n].text,
             items |-> [k \in DOMAIN inside |->
                          [key |-> made[inside[k]].key, value |-> value[inside[k]]]]]
  IN  value[result]

Read == mode = "done" /\ result # 0

Containers ==
  LET count[d \in Doc] ==
        FoldLeft(LAMBDA n, item : n + count[item.value],
                 IF d.type \in {"object", "list"} THEN 1 ELSE 0, d.items)
  IN  count[json]

StringsFit ==
  LET fit[d \in Doc] ==
        /\ d.type = "string" => Len(d.text) < SBufLen
        /\ \A k \in DOMAIN d.items : Len(d.items[k].key) < SBufLen /\ fit[d.items[k].value]
  IN  fit[json]

(* A bare number ends where something follows that no number goes on with. *)
Ends == json.type = "number" => rest \notin {R!End, "digit", ".", "-"}

(* What was written is read back as the same value, whatever the indent:   *)
(* every escape of the writer (:89-105) is one the reader undoes, every    *)
(* number it writes fits the buffer of the reader, and its layout is       *)
(* skipped.  Three things stand against it: a bare number has to be ended, *)
(* strings as long as the buffer are cut, and max_depth has to be as large *)
(* as the number of all containers.  Where it is not read back, that is an *)
(* error and not another value, but for a string that is cut and a bare    *)
(* number that more digits follow.                                         *)
RoundTrip ==
  StringsFit =>
    /\ mode = "done" /\ Ends /\ Containers <= MaxDepth => Read
    /\ Read /\ (json.type = "number" => rest # "digit") => ReadBack = json

(* The reader stops behind the text, so that what follows in the stream is *)
(* there for the next call; only a bare number takes one character more.   *)
TakesItsText ==
  Read /\ StringsFit /\ Ends =>
    consumed = Len(out) + (IF json.type = "number" THEN 1 ELSE 0)
=============================================================================
