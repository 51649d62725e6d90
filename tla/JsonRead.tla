------------------------------ MODULE JsonRead ------------------------------
(***************************************************************************)
(* The JSON reader of src/cosmic_json_read.c: a recursive descent over a   *)
(* stream that is read one character at a time, with one character of      *)
(* overflow behind a number.                                               *)
(*                                                                         *)
(* The stack of C calls is explicit: frames holds the calls of             *)
(* read_object and read_list that have not returned, innermost last, and   *)
(* mode says which scanning function runs on top of them.  A step is one   *)
(* read of the stream with all that the code does until the next one.      *)
(* The text is any text: each read delivers a character of the classes the *)
(* code tells apart, or finds the stream at its end.                       *)
(***************************************************************************)
EXTENDS Integers, Sequences, FiniteSets, SequencesExt

CONSTANTS
  Key,        (* the strings that occur as keys                            *)
  NONE,       (* no key                                                    *)
  MaxDepth,   (* max_depth                                                 *)
  SBufLen,    (* sbuflen: characters kept of a string                      *)
  NumberLen,  (* COSMIC_NUMBER_BUFFER_LEN                                  *)
  MaxInput    (* bound: the length of the text                             *)

ASSUME JsonReadAssumption ==
  /\ NONE \notin Key
  /\ MaxDepth \in Nat /\ SBufLen \in Nat /\ MaxInput \in Nat
  /\ NumberLen \in Nat /\ NumberLen > 1

VARIABLES
  mode,       (* the scanning function that reads: seek, string, compare,  *)
              (* number; done when read_stream_s has returned              *)
  frames,     (* the containers being read, innermost last                 *)
  stage,      (* what the innermost loop looks for                         *)
  scan,       (* the locals of the scanning function                       *)
  depth,      (* rw->depth                                                 *)
  error,      (* rw->error                                                 *)
  parent,     (* allocated json values: the container that owns them       *)
  entries,    (* the keys of the containers                                *)
  result,     (* the value read_stream_s returned, 0 for an error          *)
  consumed,   (* history: characters taken from the stream                 *)
  lead,       (* history: blanks before the text proper                    *)
  cut         (* history: a string ended at SBufLen, not at its quote      *)

vars == <<mode, frames, stage, scan, depth, error, parent, entries, result,
          consumed, lead, cut>>

(* The classes of characters: blank, the first letters of null, true and   *)
(* false, the zero byte (which strchr finds in every string), all others.  *)
(* Within a string "n" is any of n, r and b.                               *)
Char == {"ws", "quote", "bslash", "{", "}", "[", "]", ":", ",", "digit", "-",
         ".", "n", "t", "f", "nul", "other"}
End == "end"

(* The letters after the first one. *)
Letters == [n |-> 3, t |-> 3, f |-> 4]

Err(c, i, f) == [code |-> c, index |-> i, func |-> f]

(* j characters counted, n stored, an escape open, a point seen, a digit   *)
(* seen, letters still to compare.                                         *)
Scan == [j |-> 0, n |-> 0, esc |-> FALSE, dec |-> FALSE, dig |-> FALSE, tail |-> 0]

(* A call of read_object or read_list: its container, key and count i.     *)
Frame(kind, m) == [kind |-> kind, node |-> m, key |-> NONE, i |-> 0]

Closer(kind) == IF kind = "object" THEN "}" ELSE "]"
First(kind) == IF kind = "object" THEN "key" ELSE "value"

(* i += j in the innermost call; read_stream_s does not count.             *)
Count(fr, j) ==
  IF fr = <<>> THEN fr ELSE [fr EXCEPT ![Len(fr)].i = @ + j]

(* What the calls on the stack have counted together.                      *)
Sum(fr) ==
  LET upto[a \in 0 .. Len(fr)] == IF a = 0 THEN 0 ELSE upto[a - 1] + fr[a].i
  IN  upto[Len(fr)]

(* Json values are named by the order of their creation.                   *)
Fresh == Cardinality(DOMAIN parent) + 1
With(v) == [n \in DOMAIN parent \cup {v} |-> IF n = v THEN 0 ELSE parent[n]]

(* A value and all that it owns, which cosmic_json_free frees with it.     *)
Owned(own, m) ==
  {n \in DOMAIN own :
     \A S \in SUBSET DOMAIN own :
       m \in S /\ (\A p \in DOMAIN own : own[p] \in S => p \in S) => n \in S}

Without(own, ms) ==
  [n \in DOMAIN own \ UNION {Owned(own, m) : m \in ms} |-> own[n]]

Containers(fr) == {fr[a].node : a \in DOMAIN fr}

-----------------------------------------------------------------------------
Init ==
  /\ mode = "seek"
  /\ frames = <<>>
  /\ stage = "value"
  /\ scan = Scan
  /\ depth = 0
  /\ error = Err("none", -1, "none")
  /\ parent = [n \in {} |-> 0]
  /\ entries = [n \in {} |-> {}]
  /\ result = 0
  /\ consumed = 0
  /\ lead = 0
  /\ cut = FALSE

(* One character taken from the stream, or none left. *)
Read(c) ==
  /\ c # End => consumed < MaxInput
  /\ consumed' = IF c = End THEN consumed ELSE consumed + 1

(* The innermost loop goes on and looks for st.                            *)
Continue(fr, own, ents, st) ==
  /\ mode' = "seek"
  /\ frames' = fr
  /\ stage' = st
  /\ scan' = Scan
  /\ parent' = own
  /\ entries' = ents
  /\ UNCHANGED <<error, result>>

(* Every call on the stack frees its container, adds its count to the      *)
(* index and returns -1.                                                   *)
Abort(fr, own, ents, e) ==
  LET rest == Without(own, Containers(fr))
  IN  /\ mode' = "done"
      /\ frames' = <<>>
      /\ scan' = Scan
      /\ parent' = rest
      /\ entries' = [n \in DOMAIN ents \cap DOMAIN rest |-> ents[n]]
      /\ error' = [e EXCEPT !.index = @ + Sum(fr)]
      /\ UNCHANGED <<stage, result>>

Fail(fr, code, index, func) == Abort(fr, parent, entries, Err(code, index, func))

Finish(own, ents, v) ==
  /\ mode' = "done"
  /\ frames' = <<>>
  /\ result' = v
  /\ parent' = own
  /\ entries' = ents
  /\ scan' = Scan
  /\ UNCHANGED <<stage, error>>

(* cosmic_json_add_kv refuses a key the object has; a list takes all.      *)
Refused(fr, ents) ==
  Last(fr).kind = "object" /\ Last(fr).key \in ents[Last(fr).node]

Attached(fr, own, v) == [own EXCEPT ![v] = Last(fr).node]

Noted(fr, ents) ==
  IF Last(fr).kind = "object"
  THEN [ents EXCEPT ![Last(fr).node] = @ \cup {Last(fr).key}] ELSE ents

(* Mutant: a value that its object refuses is not freed. *)
GiveNoFree(fr, own, ents, v, j) ==
  LET g == Count(fr, j)
  IN  IF fr = <<>> THEN Finish(own, ents, v)
      ELSE IF Refused(g, ents) THEN Abort(g, own, ents, error)
      ELSE Continue(g, Attached(g, own, v), Noted(g, ents), "end")

(* A value and the characters it took, j, are returned to the innermost    *)
(* call.  If the object refuses the key the value is freed, and no error   *)
(* is set (:342-347).                                                      *)
Give(fr, own, ents, v, j) ==
  LET g == Count(fr, j)
  IN  IF fr = <<>> THEN Finish(own, ents, v)
      ELSE IF Refused(g, ents) THEN Abort(g, Without(own, {v}), ents, error)
      ELSE Continue(g, Attached(g, own, v), Noted(g, ents), "end")

(* Behind a number the next character has been read: it takes the place of *)
(* the search for the separator, unless it is blank or zero.               *)
GiveNumber(fr, own, v, j, o) ==
  LET g == Count(fr, j)
      f == Last(g)
      own2 == Attached(g, own, v)
      ents2 == Noted(g, entries)
  IN  IF fr = <<>> \/ o \in {"ws", "nul"} THEN Give(fr, own, entries, v, j)
      ELSE IF Refused(g, entries) THEN Give(fr, own, entries, v, j)
      ELSE IF o = Closer(f.kind) THEN Give(Front(g), own2, ents2, f.node, f.i)
      ELSE IF o = "," THEN Continue(g, own2, ents2, First(f.kind))
      ELSE Abort(g, own2, ents2, Err("unexpected", 1, f.kind))

Close(fr) == Give(Front(fr), parent, entries, Last(fr).node, Last(fr).i)

-----------------------------------------------------------------------------
(* Mutant: the depth is compared before it is counted. *)
EnterLate(fr, kind) ==
  /\ depth' = depth + 1
  /\ IF depth > MaxDepth THEN Fail(fr, "max_depth", 0, kind)
     ELSE Continue(Append(fr, Frame(kind, Fresh)), With(Fresh),
                   [n \in DOMAIN entries \cup {Fresh} |->
                      IF n = Fresh THEN {} ELSE entries[n]],
                   First(kind))

(* read_object, read_list: the call is counted, and never uncounted.       *)
Enter(fr, kind) ==
  /\ depth' = depth + 1
  /\ IF depth + 1 > MaxDepth THEN Fail(fr, "max_depth", 0, kind)
     ELSE Continue(Append(fr, Frame(kind, Fresh)), With(Fresh),
                   [n \in DOMAIN entries \cup {Fresh} |->
                      IF n = Fresh THEN {} ELSE entries[n]],
                   First(kind))

(* A scanning function starts on top of fr.                                *)
Start(fr, m, s) ==
  /\ mode' = m
  /\ frames' = fr
  /\ scan' = s
  /\ UNCHANGED <<stage, error, parent, entries, result>>

StartString(fr) ==
  IF SBufLen = 0 THEN Fail(fr, "io", 0, "read_string")
  ELSE Start(fr, "string", Scan)

(* read_value, by the first character of the value.                        *)
Value(fr, c) ==
  \/ c = "{" /\ Enter(fr, "object")
  \/ c = "[" /\ Enter(fr, "list")
  \/ /\ UNCHANGED depth
     /\ \/ c = "quote" /\ StartString(fr)
        \/ c \in DOMAIN Letters /\ Start(fr, "compare", [Scan EXCEPT !.tail = Letters[c]])
        \/ c \in {"digit", "-"} /\ Start(fr, "number", [Scan EXCEPT !.n = 1, !.dig = (c = "digit")])
        \/ c = "nul" /\ Fail(fr, "io", 0, "read_number")

(* What seek_until stops at. *)
Kind == IF frames = <<>> THEN "none" ELSE Last(frames).kind

Expect ==
  {"nul"} \cup
  CASE stage = "key"   -> {"quote", "}"}
    [] stage = "colon" -> {":"}
    [] stage = "end"   -> {",", Closer(Kind)}
    [] stage = "value" -> {"quote", "{", "[", "t", "f", "n", "digit", "-"}
                          \cup IF Kind = "list" THEN {"]"} ELSE {}

SeekBlank ==
  /\ mode = "seek"
  /\ Read("ws")
  /\ scan' = [scan EXCEPT !.j = @ + 1]
  /\ lead' = IF frames = <<>> THEN lead + 1 ELSE lead
  /\ UNCHANGED <<mode, frames, stage, depth, error, parent, entries, result, cut>>

SeekFound(c) ==
  /\ mode = "seek"
  /\ c \in Expect
  /\ Read(c)
  /\ LET fr == Count(frames, scan.j + 1)
     IN  IF stage = "value" /\ c # "]" THEN Value(fr, c)
         ELSE /\ UNCHANGED depth
              /\ \/ frames # <<>> /\ c = Closer(Kind) /\ Close(fr)
                 \/ stage = "key" /\ c # "}" /\ StartString(fr)
                 \/ stage = "colon" /\ Continue(fr, parent, entries, "value")
                 \/ /\ stage = "end" /\ c # Closer(Kind)
                    /\ Continue(fr, parent, entries, First(Kind))
  /\ UNCHANGED <<lead, cut>>

(* Mutant: at the end of the stream the search goes on. *)
SeekFailRetry(c) ==
  /\ mode = "seek"
  /\ c \notin Expect \cup {"ws"}
  /\ Read(c)
  /\ IF c = End THEN UNCHANGED vars
     ELSE Fail(frames, "unexpected", scan.j + 1, "seek_until")
  /\ UNCHANGED <<depth, lead, cut>>

(* Mutant: the index starts from 0. *)
SeekFailFromZero(c) ==
  /\ mode = "seek"
  /\ c \notin Expect \cup {"ws"}
  /\ Read(c)
  /\ IF c = End THEN Fail(frames, "io", scan.j, "seek_until")
     ELSE Fail(frames, "unexpected", scan.j, "seek_until")
  /\ UNCHANGED <<depth, lead, cut>>

SeekFail(c) ==
  /\ mode = "seek"
  /\ c \notin Expect \cup {"ws"}
  /\ Read(c)
  /\ IF c = End THEN Fail(frames, "io", scan.j, "seek_until")
     ELSE Fail(frames, "unexpected", scan.j + 1, "seek_until")
  /\ UNCHANGED <<depth, lead, cut>>

-----------------------------------------------------------------------------
(* The string ends, at its quote or where the buffer is full.              *)
StringDone(j, full) ==
  /\ cut' = (cut \/ full)
  /\ IF stage = "key"
     THEN \E k \in Key :
            Continue([Count(frames, j) EXCEPT ![Len(frames)].key = k],
                     parent, entries, "colon")
     ELSE Give(frames, With(Fresh), entries, Fresh, j)

String(c) ==
  LET j == scan.j + 1
  IN  /\ mode = "string"
      /\ Read(c)
      /\ \/ c = End /\ Fail(frames, "io", scan.j, "read_string") /\ UNCHANGED cut
         \/ /\ c = "bslash" /\ ~scan.esc
            /\ Start(frames, "string", [scan EXCEPT !.j = j, !.esc = TRUE])
            /\ UNCHANGED cut
         \/ c = "quote" /\ ~scan.esc /\ StringDone(j, FALSE)
         \/ /\ scan.esc /\ c \notin {"bslash", "quote", "n", End}
            /\ Fail(frames, "unexpected", j, "read_string")
            /\ UNCHANGED cut
         \/ /\ scan.esc => c \in {"bslash", "quote", "n"}
            /\ ~scan.esc => c \notin {"bslash", "quote", End}
            /\ IF scan.n + 1 = SBufLen THEN StringDone(j, TRUE)
               ELSE /\ Start(frames, "string",
                             [scan EXCEPT !.j = j, !.n = @ + 1, !.esc = FALSE])
                    /\ UNCHANGED cut
      /\ UNCHANGED <<depth, lead>>

(* The rest of null, true or false, letter by letter: the one read is the  *)
(* one due, or it is not.                                                  *)
Compare ==
  LET j == scan.j + 1
  IN  /\ mode = "compare"
      /\ \/ Read(End) /\ Fail(frames, "io", scan.j, "read_and_compare")
         \/ Read("other") /\ Fail(frames, "unexpected", j, "read_and_compare")
         \/ /\ Read("other")
            /\ IF scan.tail = 1 THEN Give(frames, With(Fresh), entries, Fresh, j)
               ELSE Start(frames, "compare", [scan EXCEPT !.j = j, !.tail = @ - 1])
      /\ UNCHANGED <<depth, lead, cut>>

(* Mutant: a number that cannot be converted sets no error. *)
NumberDoneSilent(n, dig, o) ==
  IF dig THEN GiveNumber(frames, With(Fresh), Fresh, n, o)
  ELSE Abort(frames, parent, entries, error)

(* strtod takes any text with a sign, digits and a point that has a digit. *)
NumberDone(n, dig, o) ==
  IF dig THEN GiveNumber(frames, With(Fresh), Fresh, n, o)
  ELSE Fail(frames, "unexpected", 0, "read_number")

(* Mutant: where the stream stops, so does the number. *)
NumberAtEnd(c) ==
  /\ mode = "number"
  /\ Read(c)
  /\ IF c \in {"digit", "."} THEN Start(frames, "number", [scan EXCEPT !.n = @ + 1, !.dig = TRUE])
     ELSE NumberDone(scan.n, scan.dig, c)
  /\ UNCHANGED <<depth, lead, cut>>

Number(c) ==
  /\ mode = "number"
  /\ Read(c)
  /\ \/ c = End /\ Fail(frames, "io", scan.n, "read_number")
     \/ /\ c = "-" \/ (c = "." /\ scan.dec)
        /\ Fail(frames, "unexpected", scan.n, "read_number")
     \/ /\ c = "digit" \/ (c = "." /\ ~scan.dec)
        /\ LET s == [scan EXCEPT !.n = @ + 1, !.dec = @ \/ c = ".", !.dig = @ \/ c = "digit"]
           IN  IF s.n = NumberLen THEN NumberDone(s.n, s.dig, c)
               ELSE Start(frames, "number", s)
     \/ c \notin {End, "-", ".", "digit"} /\ NumberDone(scan.n, scan.dig, c)
  /\ UNCHANGED <<depth, lead, cut>>

Done == mode = "done" /\ UNCHANGED vars

Next ==
  \/ SeekBlank \/ Compare \/ Done
  \/ \E c \in Char \cup {End} : SeekFound(c) \/ SeekFail(c) \/ String(c) \/ Number(c)

(* The reader is a loop of calls that return: it does not stop by itself.  *)
Spec == Init /\ [][Next]_vars /\ WF_vars(Next)
-----------------------------------------------------------------------------
(* Every variable has its type.                                            *)
TypeOK ==
  /\ mode \in {"seek", "string", "compare", "number", "done"}
  /\ frames \in Seq([kind : {"object", "list"}, node : Nat \ {0},
                     key : Key \cup {NONE}, i : Nat])
  /\ stage \in {"key", "colon", "value", "end"}
  /\ scan \in [j : Nat, n : Nat, esc : BOOLEAN, dec : BOOLEAN, dig : BOOLEAN, tail : 0 .. 4]
  /\ depth \in 0 .. MaxDepth + 1
  /\ error.code \in {"none", "io", "unexpected", "max_depth"}
  /\ error.index \in Int
  /\ \A n \in DOMAIN parent : parent[n] \in DOMAIN parent \cup {0}
  /\ \A n \in DOMAIN entries : n \in DOMAIN parent /\ entries[n] \subseteq Key
  /\ result \in Nat
  /\ consumed \in 0 .. MaxInput
  /\ lead \in 0 .. consumed
  /\ cut \in BOOLEAN

(* Every value is owned once: by the containers being read while the       *)
(* reader runs, afterwards by the value it returns.  A failed read leaves  *)
(* none behind (:345, :373, :444).                                         *)
NoLeak ==
  /\ DOMAIN parent = (UNION {Owned(parent, m) : m \in Containers(frames)})
                     \cup (IF result = 0 THEN {} ELSE Owned(parent, result))
  /\ \A m \in Containers(frames) : parent[m] = 0
  /\ Cardinality(Containers(frames)) = Len(frames)

(* What the calls have counted is what has been read, less the blanks and  *)
(* the first character, which read_stream_s does not count.  So the index  *)
(* of an error is that of the last character read, counted from the start  *)
(* of the value, with three exceptions: no value begins (:37, counted from *)
(* 1); a number has no digits (:226, the index of its sign); a number is   *)
(* followed by no separator (:359, :432, one too high, or two when the     *)
(* number fills its buffer and nothing behind it has been read).           *)
ErrorIndex ==
  /\ mode = "seek" /\ frames # <<>> => consumed = lead + 1 + Sum(frames) + scan.j
  /\ error.code \in {"unexpected", "max_depth"} =>
       LET last == consumed - 1 - lead
       IN  \/ error.index = last
           \/ error.func = "seek_until" /\ last = 0 /\ error.index = consumed
           \/ error.func = "read_number" /\ error.index \in {last - 1, last - 2}
           \/ error.func \in {"object", "list"} /\ error.index \in {last + 1, last + 2}

(* Never more containers are open than max_depth allows, and only the one  *)
(* too many is refused (:13-15).  The depth is not how deep the reader is, *)
(* as its comment has it (:6): it is never taken back when a container     *)
(* ends, so that it is at least that.  (And every variable has its type.)  *)
NestingBounded ==
  /\ TypeOK
  /\ Len(frames) <= MaxDepth
  /\ Len(frames) <= depth
  /\ error.code = "max_depth" <=> depth = MaxDepth + 1

(* A read of the stream that brings no character (its end, a socket whose  *)
(* wait is over or whose peer is gone all answer 0 or -1) ends the reader  *)
(* with an io error, whatever has been read before: a text that breaks off *)
(* is never taken for a shorter one (:26, :63, :130, :214).                *)
EndIsAnError ==
  [][mode # "done" /\ consumed' = consumed =>
       mode' = "done" /\ result' = 0 /\ error'.code = "io"]_vars

(* A read that fails without setting an error, so that its code is still   *)
(* that of success, has met a key that its object has already: for the     *)
(* value just read, or for the container that ends with it (:342-347).     *)
(* The tests take the code of success to mean that there is a value        *)
(* (tests/test_json_read.c:9).                                             *)
SilentOnlyByKey ==
  [][mode # "done" /\ mode' = "done" /\ result' = 0 /\ error'.code = "none" =>
       LET holders == {Front(frames)} \cup IF mode = "seek" THEN {} ELSE {frames}
       IN  \E fr \in holders \ {<<>>} : Refused(fr, entries)]_vars

(* The reader comes to an end with every text.                             *)
Finishes == <>(mode = "done")

-----------------------------------------------------------------------------
(* A string ends at its quote: "Unescaped quote signals end of string"     *)
(* (:74).                                                                  *)
StringsEndAtQuote == mode = "done" /\ result # 0 => ~cut
=============================================================================
