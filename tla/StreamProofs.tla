----------------------------- MODULE StreamProofs ----------------------------
(***************************************************************************)
(* The theorems about the two streams that keep their bytes themselves:    *)
(* the connection of SocketIo and, at the end, the memory of IoMem.        *)
(*                                                                         *)
(* A connection keeps its promises for buffers of any size, writes of any  *)
(* length and any number of bytes: the bytes arrive in order and once, the *)
(* end is told after the last of them, answers are what they say, and a    *)
(* process is ended by SIGPIPE only if a reset came in between.            *)
(*                                                                         *)
(* None of this is inductive alone.  The bytes that a process has sent are *)
(* those received, those that wait at the other end and those on their     *)
(* way, in this order, until a reset or a close loses some; a reset comes  *)
(* from an end that is closed for good; and what a process learnt from     *)
(* poll is still true when it reads or sends, whatever the other process   *)
(* and the network do in between.                                          *)
(***************************************************************************)
EXTENDS SocketIo, IoMem, FiniteSetTheorems, SequenceTheorems, TLAPS

IoRec == [open : BOOLEAN, rpwait : {FOREVER, LIMITED}, wpwait : {FOREVER, LIMITED},
          nonblock : BOOLEAN]
CallRec == [at : {"none", "rpoll", "recv", "wpoll", "send"}, left : 0 .. MaxAsk,
            len : 0 .. MaxAsk, n : 0 .. MaxAsk]
TcpRec == [flight : Seq(Nat), queue : Seq(Nat), shut : SUBSET {"r", "w"},
           reset : BOOLEAN, err : BOOLEAN]
LogRec == [sent : Nat, base : Nat, rcvd : Seq(Nat), rans : -1 .. MaxAsk, wans : -1 .. MaxAsk,
           why : {"none", "timeout", "hangup", "signal"}, raced : BOOLEAN, killed : BOOLEAN]

(* TypeOK, with what the records are made of. *)
Typed ==
  /\ io \in [Peer -> IoRec] /\ call \in [Peer -> CallRec]
  /\ tcp \in [Peer -> TcpRec] /\ log \in [Peer -> LogRec]
  /\ gone \subseteq Peer

(* A process that has ended has closed its end and is in no call.  Only an *)
(* open end is read from or sent over.  A write has sent what it does not  *)
(* still want, and outside of writes the last answer covers all bytes.     *)
Steps(x) ==
  /\ x \in gone => ~io[x].open /\ call[x].at = "none"
  /\ call[x].at \in {"send", "recv"} => io[x].open
  /\ call[x].at \in {"wpoll", "send"} =>
       /\ call[x].left > 0 /\ call[x].n + call[x].left <= call[x].len
       /\ log[x].sent + call[x].left = log[x].base + call[x].len
       /\ log[x].base + call[x].len <= MaxBytes[x]
       /\ log[x].wans = 0
  /\ call[x].at \notin {"wpoll", "send"} /\ x \notin gone => log[x].base = log[x].sent
  /\ log[x].base <= log[x].sent /\ log[x].sent <= MaxBytes[x]

(* A reset comes from an end that is closed for good.  Poll has seen none  *)
(* before a send, so that one that is there now has come since.            *)
Resets(x) ==
  /\ tcp[x].reset => ~io[Other(x)].open
  /\ tcp[x].err => tcp[x].reset
  /\ call[x].at = "send" => ~tcp[x].reset \/ log[x].raced
  /\ log[x].killed => x \in gone /\ ("w" \in tcp[x].shut \/ log[x].raced)

(* The bytes on their way to a reader: those it has received are the first *)
(* that were sent, and while its end is open those that wait in its queue  *)
(* and those in flight follow, up to the last unless there was a reset.    *)
Ordered(had, queue, flight, sent, open, lost) ==
  /\ Len(queue) <= Cap /\ Len(flight) <= Cap
  /\ Len(had) <= sent /\ \A i \in 1 .. Len(had) : had[i] = i
  /\ open =>
       /\ Len(had) + Len(queue) + Len(flight) <= sent
       /\ lost \/ Len(had) + Len(queue) + Len(flight) = sent
       /\ \A i \in 1 .. Len(queue) : queue[i] = Len(had) + i
       /\ \A i \in 1 .. Len(flight) : flight[i] = Len(had) + Len(queue) + i

Flow(x) ==
  Ordered(log[x].rcvd, tcp[x].queue, tcp[Other(x)].flight, log[Other(x)].sent,
          io[x].open, tcp[x].reset)

(* What poll has told a reader stays true until it reads, and so does what *)
(* it was told of the end.                                                 *)
AllRead(x) ==
  \/ tcp[x].reset \/ "r" \in tcp[x].shut
  \/ Ended(Other(x)) /\ Len(log[x].rcvd) = log[Other(x)].sent

Ends(x) ==
  /\ call[x].at = "recv" => tcp[x].queue # <<>> \/ Eof(x)
  /\ log[x].why = "hangup" => AllRead(x)

IInv == Typed /\ \A x \in Peer : Steps(x) /\ Resets(x) /\ Flow(x) /\ Ends(x)

-----------------------------------------------------------------------------
(* An array, as the byte buffers of the code, is a sequence.               *)
LEMMA ArrayIsSeq ==
  ASSUME NEW S, NEW k \in Nat, NEW f \in [1 .. k -> S]
  PROVE  f \in Seq(S) /\ Len(f) = k
OBVIOUS

(* The first k elements of a sequence, and those behind them.              *)
LEMMA SplitAt ==
  ASSUME NEW S, NEW s \in Seq(S), NEW k \in 0 .. Len(s)
  PROVE  /\ SubSeq(s, 1, k) \in Seq(S) /\ Len(SubSeq(s, 1, k)) = k
         /\ \A i \in 1 .. k : SubSeq(s, 1, k)[i] = s[i]
         /\ SubSeq(s, k + 1, Len(s)) \in Seq(S)
         /\ Len(SubSeq(s, k + 1, Len(s))) = Len(s) - k
         /\ \A i \in 1 .. Len(s) - k : SubSeq(s, k + 1, Len(s))[i] = s[k + i]
OBVIOUS

(* A sequence that agrees with a longer one is its beginning (IsPrefix of  *)
(* the community modules, expanded).                                       *)
LEMMA PrefixIs ==
  ASSUME NEW S, NEW s \in Seq(S), NEW t \in Seq(S), Len(s) <= Len(t),
         \A i \in 1 .. Len(s) : s[i] = t[i]
  PROVE  SubSeq(s, 1, Len(s)) = SubSeq(t, 1, Len(s))
OBVIOUS

-----------------------------------------------------------------------------
(* The order of the bytes, as each kind of step leaves it.  An end that    *)
(* closes, or a reset, asks for less.                                      *)
LEMMA OrderStays ==
  ASSUME NEW had, NEW queue, NEW flight, NEW sent, NEW open, NEW lost, NEW open2, NEW lost2,
         Ordered(had, queue, flight, sent, open, lost), open2 => open, lost => lost2
  PROVE  Ordered(had, queue, flight, sent, open2, lost2)
BY DEF Ordered

(* Nothing is asked of the bytes on their way to an end that is closed. *)
LEMMA OrderCloses ==
  ASSUME NEW had, NEW queue, NEW flight, NEW sent, NEW open, NEW lost,
         NEW queue2, NEW flight2, NEW open2, NEW lost2,
         Ordered(had, queue, flight, sent, open, lost), ~open2,
         Len(queue2) <= Cap, Len(flight2) <= Cap
  PROVE  Ordered(had, queue2, flight2, sent, open2, lost2)
BY DEF Ordered

(* A reset loses the bytes in flight. *)
LEMMA OrderLoses ==
  ASSUME NEW had \in Seq(Nat), NEW queue \in Seq(Nat), NEW flight \in Seq(Nat), NEW sent \in Nat,
         NEW open, NEW lost, NEW lost2, Ordered(had, queue, flight, sent, open, lost), lost2
  PROVE  Ordered(had, queue, <<>>, sent, open, lost2)
<1>1. /\ Len(had) \in Nat /\ Len(queue) \in Nat /\ Len(flight) \in Nat /\ Len(<<>>) = 0
      /\ Cap \in Nat
  BY SocketIoAssumption
<1>2. open => Len(had) + Len(queue) + Len(<<>>) <= sent
  <2>1. open => Len(had) + Len(queue) + Len(flight) <= sent
    BY DEF Ordered
  <2>2. QED
    BY <1>1, <2>1
<1>3. \A i \in 1 .. Len(<<>>) : FALSE
  BY <1>1
<1>4. QED
  BY <1>1, <1>2, <1>3 DEF Ordered

(* A read takes the first k bytes of the queue (:71-78). *)
LEMMA OrderTakes ==
  ASSUME NEW had \in Seq(Nat), NEW queue \in Seq(Nat), NEW flight \in Seq(Nat), NEW sent \in Nat,
         NEW open, NEW lost, NEW k \in 0 .. Len(queue),
         open, Ordered(had, queue, flight, sent, open, lost)
  PROVE  /\ SubSeq(queue, 1, k) \in Seq(Nat) /\ Len(SubSeq(queue, 1, k)) = k
         /\ had \o SubSeq(queue, 1, k) \in Seq(Nat) /\ SubSeq(queue, k + 1, Len(queue)) \in Seq(Nat)
         /\ Ordered(had \o SubSeq(queue, 1, k), SubSeq(queue, k + 1, Len(queue)), flight, sent,
                    open, lost)
<1> DEFINE more == SubSeq(queue, 1, k)
           rest == SubSeq(queue, k + 1, Len(queue))
<1>1. Len(had) \in Nat /\ Len(queue) \in Nat /\ Len(flight) \in Nat /\ k \in Nat
  OBVIOUS
<1>3. more \in Seq(Nat) /\ Len(more) = k /\ \A i \in 1 .. k : more[i] = queue[i]
  BY SplitAt
<1>4. /\ rest \in Seq(Nat) /\ Len(rest) = Len(queue) - k
      /\ \A i \in 1 .. Len(queue) - k : rest[i] = queue[k + i]
  BY SplitAt
<1> HIDE DEF more, rest
<1>5. /\ had \o more \in Seq(Nat) /\ Len(had \o more) = Len(had) + k
      /\ \A i \in 1 .. Len(had) + k : (had \o more)[i] = IF i <= Len(had) THEN had[i] ELSE more[i - Len(had)]
  BY <1>3, ConcatProperties
<1>6. /\ Len(queue) <= Cap /\ Len(flight) <= Cap /\ Len(had) <= sent
      /\ \A i \in 1 .. Len(had) : had[i] = i
      /\ Len(had) + Len(queue) + Len(flight) <= sent
      /\ lost \/ Len(had) + Len(queue) + Len(flight) = sent
      /\ \A i \in 1 .. Len(queue) : queue[i] = Len(had) + i
      /\ \A i \in 1 .. Len(flight) : flight[i] = Len(had) + Len(queue) + i
  BY DEF Ordered
<1>7. ASSUME NEW i \in 1 .. Len(had \o more)
      PROVE  (had \o more)[i] = i
  <2>1. i \in 1 .. Len(had) + k
    BY <1>5
  <2>2. CASE i <= Len(had)
    BY <1>1, <1>5, <1>6, <2>1, <2>2
  <2>3. CASE ~(i <= Len(had))
    <3>1. i - Len(had) \in 1 .. k /\ i - Len(had) \in 1 .. Len(queue)
      BY <1>1, <2>1, <2>3
    <3>2. (had \o more)[i] = queue[i - Len(had)]
      BY <1>3, <1>5, <2>1, <2>3, <3>1
    <3>3. queue[i - Len(had)] = Len(had) + (i - Len(had))
      BY <1>6, <3>1
    <3>4. QED
      BY <1>1, <3>2, <3>3
  <2>4. QED
    BY <2>2, <2>3
<1>8. ASSUME NEW i \in 1 .. Len(rest)
      PROVE  rest[i] = Len(had \o more) + i
  <2>1. k + i \in 1 .. Len(queue) /\ i \in 1 .. Len(queue) - k
    BY <1>1, <1>4
  <2>2. rest[i] = Len(had) + (k + i)
    BY <1>4, <1>6, <2>1
  <2>3. QED
    BY <1>1, <1>5, <2>2
<1>9. ASSUME NEW i \in 1 .. Len(flight)
      PROVE  flight[i] = Len(had \o more) + Len(rest) + i
  BY <1>1, <1>4, <1>5, <1>6
<1>10. Len(had \o more) + Len(rest) = Len(had) + Len(queue) /\ Len(rest) <= Cap
  BY <1>1, <1>4, <1>5, <1>6, SocketIoAssumption
<1>11. Len(had \o more) <= sent
  BY <1>1, <1>5, <1>6
<1>12. Ordered(had \o more, rest, flight, sent, open, lost)
  BY <1>6, <1>7, <1>8, <1>9, <1>10, <1>11 DEF Ordered
<1>13. QED
  BY <1>3, <1>4, <1>5, <1>12 DEF more, rest

(* A byte arrives: the first in flight joins the end of the queue. *)
LEMMA OrderArrives ==
  ASSUME NEW had \in Seq(Nat), NEW queue \in Seq(Nat), NEW flight \in Seq(Nat), NEW sent \in Nat,
         NEW open, NEW lost, flight # <<>>, Len(queue) < Cap,
         open, Ordered(had, queue, flight, sent, open, lost)
  PROVE  /\ Append(queue, Head(flight)) \in Seq(Nat) /\ Tail(flight) \in Seq(Nat)
         /\ Ordered(had, Append(queue, Head(flight)), Tail(flight), sent, open, lost)
<1> DEFINE more == Append(queue, Head(flight))
           rest == Tail(flight)
<1>1. Len(had) \in Nat /\ Len(queue) \in Nat /\ Len(flight) \in Nat /\ Len(flight) > 0
  BY EmptySeq, LenProperties
<1>2. Head(flight) \in Nat /\ Head(flight) = flight[1]
  BY HeadTailProperties
<1>3. /\ more \in Seq(Nat) /\ Len(more) = Len(queue) + 1
      /\ \A i \in 1 .. Len(queue) : more[i] = queue[i]
      /\ more[Len(queue) + 1] = flight[1]
  BY <1>2, AppendProperties
<1>4. /\ rest \in Seq(Nat) /\ Len(rest) = Len(flight) - 1
      /\ \A i \in 1 .. Len(rest) : rest[i] = flight[i + 1]
  BY HeadTailProperties
<1> HIDE DEF more, rest
<1>5. /\ Len(queue) <= Cap /\ Len(flight) <= Cap /\ Len(had) <= sent
      /\ \A i \in 1 .. Len(had) : had[i] = i
      /\ Len(had) + Len(queue) + Len(flight) <= sent
      /\ lost \/ Len(had) + Len(queue) + Len(flight) = sent
      /\ \A i \in 1 .. Len(queue) : queue[i] = Len(had) + i
      /\ \A i \in 1 .. Len(flight) : flight[i] = Len(had) + Len(queue) + i
  BY DEF Ordered
<1>6. ASSUME NEW i \in 1 .. Len(more)
      PROVE  more[i] = Len(had) + i
  <2>1. CASE i \in 1 .. Len(queue)
    BY <1>3, <1>5, <2>1
  <2>2. CASE i \notin 1 .. Len(queue)
    <3>1. i = Len(queue) + 1 /\ 1 \in 1 .. Len(flight)
      BY <1>1, <1>3, <2>2
    <3>2. flight[1] = Len(had) + Len(queue) + 1
      BY <1>5, <3>1
    <3>3. more[i] = flight[1]
      BY <1>3, <3>1
    <3>4. QED
      BY <1>1, <3>1, <3>2, <3>3
  <2>3. QED
    BY <2>1, <2>2
<1>7. ASSUME NEW i \in 1 .. Len(rest)
      PROVE  rest[i] = Len(had) + Len(more) + i
  <2>1. i + 1 \in 1 .. Len(flight) /\ i \in Int
    BY <1>1, <1>4
  <2>2. rest[i] = Len(had) + Len(queue) + (i + 1)
    BY <1>4, <1>5, <2>1
  <2>3. QED
    BY <1>1, <1>3, <2>1, <2>2
<1>8. /\ Len(had) + Len(more) + Len(rest) = Len(had) + Len(queue) + Len(flight)
      /\ Len(more) <= Cap /\ Len(rest) <= Cap
  BY <1>1, <1>3, <1>4, <1>5, SocketIoAssumption
<1>9. Ordered(had, more, rest, sent, open, lost)
  BY <1>5, <1>6, <1>7, <1>8 DEF Ordered
<1>10. QED
  BY <1>3, <1>4, <1>9 DEF more, rest

(* k more bytes are sent, while nothing is lost (:95-113). *)
LEMMA OrderSends ==
  ASSUME NEW had \in Seq(Nat), NEW queue \in Seq(Nat), NEW flight \in Seq(Nat), NEW sent \in Nat,
         NEW open, NEW lost, NEW k \in Nat, Len(flight) + k <= Cap, open => ~lost,
         Ordered(had, queue, flight, sent, open, lost)
  PROVE  LET more == flight \o [m \in 1 .. k |-> sent + m]
         IN  more \in Seq(Nat) /\ Ordered(had, queue, more, sent + k, open, lost)
<1> DEFINE new == [m \in 1 .. k |-> sent + m]
           more == flight \o new
<1>1. Len(had) \in Nat /\ Len(queue) \in Nat /\ Len(flight) \in Nat
  OBVIOUS
<1>2. new \in Seq(Nat) /\ Len(new) = k /\ \A i \in 1 .. k : new[i] = sent + i
  <2>1. new \in [1 .. k -> Nat] /\ \A i \in 1 .. k : new[i] = sent + i
    OBVIOUS
  <2> HIDE DEF new
  <2>2. QED
    BY <2>1, ArrayIsSeq
<1> HIDE DEF new
<1>3. /\ more \in Seq(Nat) /\ Len(more) = Len(flight) + k
      /\ \A i \in 1 .. Len(flight) + k :
           more[i] = IF i <= Len(flight) THEN flight[i] ELSE new[i - Len(flight)]
  BY <1>2, ConcatProperties
<1> HIDE DEF more
<1>4. /\ Len(queue) <= Cap /\ Len(more) <= Cap /\ Len(had) <= sent + k
      /\ \A i \in 1 .. Len(had) : had[i] = i
  BY <1>1, <1>3 DEF Ordered
<1>5. ASSUME open
      PROVE  /\ Len(had) + Len(queue) + Len(more) = sent + k
             /\ \A i \in 1 .. Len(queue) : queue[i] = Len(had) + i
             /\ \A i \in 1 .. Len(more) : more[i] = Len(had) + Len(queue) + i
  <2>1. /\ Len(had) + Len(queue) + Len(flight) = sent
        /\ \A i \in 1 .. Len(queue) : queue[i] = Len(had) + i
        /\ \A i \in 1 .. Len(flight) : flight[i] = Len(had) + Len(queue) + i
    BY <1>5 DEF Ordered
  <2>2. ASSUME NEW i \in 1 .. Len(more)
        PROVE  more[i] = Len(had) + Len(queue) + i
    <3>1. i \in 1 .. Len(flight) + k
      BY <1>3
    <3>2. CASE i <= Len(flight)
      <4>1. i \in 1 .. Len(flight) /\ more[i] = flight[i]
        BY <1>1, <1>3, <3>1, <3>2
      <4>2. QED
        BY <2>1, <4>1
    <3>3. CASE ~(i <= Len(flight))
      <4>1. i - Len(flight) \in 1 .. k
        BY <1>1, <3>1, <3>3
      <4>2. more[i] = sent + (i - Len(flight))
        BY <1>2, <1>3, <3>1, <3>3, <4>1
      <4>3. Len(had) + Len(queue) + Len(flight) = sent /\ i \in Int
        BY <2>1, <3>1
      <4>4. sent + (i - Len(flight)) = Len(had) + Len(queue) + i
        BY <1>1, <4>3
      <4>5. QED
        BY <4>2, <4>4
    <3>4. QED
      BY <3>2, <3>3
  <2>3. Len(had) + Len(queue) + Len(more) = sent + k
    <3>1. Len(had) + Len(queue) + Len(flight) = sent /\ Len(more) = Len(flight) + k
      BY <1>3, <2>1
    <3>2. \A a, b, c \in Nat : a + b + (c + k) = (a + b + c) + k
      OBVIOUS
    <3>3. Len(had) + Len(queue) + (Len(flight) + k) = (Len(had) + Len(queue) + Len(flight)) + k
      BY <1>1, <3>2, Zenon
    <3>4. QED
      BY <3>1, <3>3, Zenon
  <2>4. QED
    BY <2>1, <2>2, <2>3
<1>6. open => Len(had) + Len(queue) + Len(more) <= sent + k
  BY <1>1, <1>3, <1>5
<1>7. Ordered(had, queue, more, sent + k, open, lost)
  BY <1>4, <1>5, <1>6 DEF Ordered
<1>8. QED
  BY <1>3, <1>7 DEF more, new

USE SocketIoAssumption

-----------------------------------------------------------------------------
(* There are two processes, each the other one's other. *)
LEMMA Peers ==
  ASSUME NEW p \in Peer
  PROVE  /\ Other(p) \in Peer /\ Other(p) # p /\ Other(Other(p)) = p
         /\ \A x \in Peer : x = p \/ x = Other(p)
<1>1. PICK a, b \in Peer : a # b /\ Peer = {a, b}
  OBVIOUS
<1>2. ASSUME NEW x \in Peer
      PROVE  Other(x) \in Peer /\ Other(x) # x
  <2>1. \E q \in Peer : q # x
    BY <1>1
  <2>2. QED
    BY <2>1 DEF Other
<1>3. QED
  BY <1>1, <1>2

LEMMA InitInv == Init => IInv
<1> SUFFICES ASSUME Init
             PROVE  IInv
  OBVIOUS
<1>1. <<>> \in Seq(Nat) /\ Len(<<>>) = 0
  OBVIOUS
<1>2. io \in [Peer -> IoRec]
  <2>1. ASSUME NEW x \in Peer
        PROVE  io[x] \in IoRec
    <3>1. io[x] \in [open : {TRUE}, rpwait : {FOREVER, LIMITED}, wpwait : {FOREVER, LIMITED},
                    nonblock : BOOLEAN]
      BY DEF Init
    <3>2. QED
      BY <3>1 DEF IoRec
  <2>2. QED
    BY <2>1 DEF Init
<1>3. /\ call \in [Peer -> CallRec] /\ tcp \in [Peer -> TcpRec] /\ log \in [Peer -> LogRec]
  <2>1. NoCall \in CallRec
    BY DEF NoCall, CallRec
  <2>2. [flight |-> <<>>, queue |-> <<>>, shut |-> {}, reset |-> FALSE, err |-> FALSE] \in TcpRec
    BY <1>1 DEF TcpRec
  <2>3. [sent |-> 0, base |-> 0, rcvd |-> <<>>, rans |-> 0, wans |-> 0,
         why |-> "none", raced |-> FALSE, killed |-> FALSE] \in LogRec
    BY <1>1 DEF LogRec
  <2>4. QED
    BY <2>1, <2>2, <2>3 DEF Init
<1>4. Typed
  BY <1>2, <1>3 DEF Typed, Init
<1>5. ASSUME NEW x \in Peer
      PROVE  Steps(x) /\ Resets(x) /\ Flow(x) /\ Ends(x)
  <2>1. Other(x) \in Peer
    BY Peers
  <2>2. /\ call[x].at = "none" /\ gone = {} /\ log[x].base = 0 /\ log[x].sent = 0
        /\ log[x].rcvd = <<>> /\ log[Other(x)].sent = 0 /\ log[x].why = "none"
        /\ tcp[x].queue = <<>> /\ tcp[Other(x)].flight = <<>>
        /\ tcp[x].reset = FALSE /\ tcp[x].err = FALSE /\ log[x].killed = FALSE
    BY <2>1 DEF Init, NoCall
  <2>3. Steps(x)
    BY <2>2 DEF Steps
  <2>4. Resets(x)
    BY <2>2 DEF Resets
  <2>5. Flow(x)
    BY <1>1, <2>2 DEF Flow, Ordered
  <2>6. Ends(x)
    BY <2>2 DEF Ends
  <2>7. QED
    BY <2>3, <2>4, <2>5, <2>6
<1>6. QED
  BY <1>4, <1>5 DEF IInv

-----------------------------------------------------------------------------
LEMMA FlowStays ==
  ASSUME NEW x \in Peer, Flow(x),
         log'[x].rcvd = log[x].rcvd, log'[Other(x)].sent = log[Other(x)].sent,
         tcp'[x].queue = tcp[x].queue, tcp'[Other(x)].flight = tcp[Other(x)].flight,
         io'[x].open => io[x].open, tcp[x].reset => tcp'[x].reset
  PROVE  Flow(x)'
<1>1. Ordered(log[x].rcvd, tcp[x].queue, tcp[Other(x)].flight, log[Other(x)].sent,
              io'[x].open, tcp'[x].reset)
  BY OrderStays DEF Flow
<1>2. QED
  BY <1>1 DEF Flow

(* No byte moves and no reset comes. *)
Quiet ==
  /\ tcp' \in [Peer -> TcpRec]
  /\ \A x \in Peer : /\ tcp'[x].flight = tcp[x].flight /\ tcp'[x].queue = tcp[x].queue
                     /\ tcp'[x].reset = tcp[x].reset /\ tcp[x].shut \subseteq tcp'[x].shut
                     /\ tcp'[x].err => tcp[x].err

(* A step of p that moves no byte, and closes no end: its call and its     *)
(* answers change, a direction may be shut down, a pending error may have  *)
(* been taken.                                                             *)
LEMMA QuietPreserves ==
  ASSUME IInv, NEW p \in Peer, UNCHANGED <<io, gone>>, Quiet,
         call' \in [Peer -> CallRec], log' \in [Peer -> LogRec],
         \A x \in Peer \ {p} : call'[x] = call[x] /\ log'[x] = log[x],
         log'[p].sent = log[p].sent, log'[p].rcvd = log[p].rcvd, log'[p].killed = log[p].killed,
         p \notin gone, Steps(p)',
         call'[p].at = "send" => ~tcp[p].reset \/ log'[p].raced,
         call'[p].at = "recv" => tcp[p].queue # <<>> \/ Eof(p),
         log'[p].why = "hangup" => AllRead(p)
  PROVE  IInv'
<1> USE DEF Quiet
<1>1. Typed'
  BY DEF IInv, Typed
<1>2. ASSUME NEW x \in Peer
      PROVE  Steps(x)' /\ Resets(x)' /\ Flow(x)' /\ Ends(x)'
  <2>1. Other(x) \in Peer /\ Steps(x) /\ Resets(x) /\ Flow(x) /\ Ends(x)
    BY Peers DEF IInv
  <2>2. log'[x].sent = log[x].sent /\ log'[x].rcvd = log[x].rcvd /\ log'[x].killed = log[x].killed
    OBVIOUS
  <2>3. log'[Other(x)].sent = log[Other(x)].sent
    BY <2>1
  <2>4. Steps(x)'
    BY <2>1 DEF Steps
  <2>5. Resets(x)'
    <3>1. CASE x = p
      BY <2>1, <2>2, <3>1 DEF Resets
    <3>2. CASE x # p
      BY <2>1, <2>2, <3>2 DEF Resets
    <3>3. QED
      BY <3>1, <3>2
  <2>6. Flow(x)'
    BY <2>1, <2>2, <2>3, FlowStays
  <2>7. Ended(Other(x)) => Ended(Other(x))'
    BY <2>1 DEF Ended
  <2>8. (Eof(x) => Eof(x)') /\ (AllRead(x) => AllRead(x)')
    BY <2>1, <2>2, <2>3, <2>7 DEF Eof, AllRead
  <2>9. Ends(x)'
    <3>1. CASE x = p
      BY <2>8, <3>1 DEF Ends
    <3>2. CASE x # p
      BY <2>1, <2>8, <3>2 DEF Ends
    <3>3. QED
      BY <3>1, <3>2
  <2>10. QED
    BY <2>4, <2>5, <2>6, <2>9
<1>3. QED
  BY <1>1, <1>2 DEF IInv

-----------------------------------------------------------------------------
(* What a step of p may do to the bytes and the answers: more bytes are    *)
(* sent, and a write is answered with all or none of them; bytes are       *)
(* received as many as the answer says.                                    *)
Told(p) ==
  /\ log[p].sent <= log'[p].sent
  /\ \/ log'[p].base = log[p].base /\ log'[p].wans = log[p].wans
     \/ /\ log'[p].base = log'[p].sent
        /\ log'[p].wans > 0 => log'[p].wans = log'[p].sent - log[p].base
  /\ \/ log'[p].rcvd = log[p].rcvd /\ log'[p].rans = log[p].rans
     \/ Len(log'[p].rcvd) = Len(log[p].rcvd) + (IF log'[p].rans > 0 THEN log'[p].rans ELSE 0)
  /\ call[p].at \in {"wpoll", "send"} /\ call'[p].at = "none" /\ p \notin gone' =>
       IF log'[p].wans > 0 THEN log'[p].sent - log[p].base = call[p].len
       ELSE log'[p].sent - log[p].base < call[p].len

Does(p) ==
  /\ Told(p)
  /\ \A x \in Peer \ {p} :
       /\ call'[x] = call[x]
       /\ log'[x].sent = log[x].sent /\ log'[x].base = log[x].base /\ log'[x].wans = log[x].wans
       /\ log'[x].rcvd = log[x].rcvd /\ log'[x].rans = log[x].rans

LEMMA Forgotten ==
  ASSUME NEW lg \in [Peer -> LogRec], NEW p \in Peer
  PROVE  /\ Forget(lg, p) \in [Peer -> LogRec]
         /\ \A x \in Peer \ {p} : Forget(lg, p)[x] = lg[x]
         /\ Forget(lg, p)[p].sent = lg[p].sent /\ Forget(lg, p)[p].base = lg[p].base
         /\ Forget(lg, p)[p].rcvd = lg[p].rcvd /\ Forget(lg, p)[p].killed = lg[p].killed
         /\ Forget(lg, p)[p].raced = lg[p].raced
         /\ Forget(lg, p)[p].rans = 0 /\ Forget(lg, p)[p].wans = 0 /\ Forget(lg, p)[p].why = "none"
<1> DEFINE s == [lg[p] EXCEPT !.rans = 0, !.wans = 0, !.why = "none"]
<1>1. lg[p] \in LogRec /\ 0 \in -1 .. MaxAsk
  OBVIOUS
<1>2. /\ s \in LogRec /\ s.sent = lg[p].sent /\ s.base = lg[p].base /\ s.rcvd = lg[p].rcvd
      /\ s.killed = lg[p].killed /\ s.raced = lg[p].raced
      /\ s.rans = 0 /\ s.wans = 0 /\ s.why = "none"
  BY <1>1 DEF LogRec
<1>3. Forget(lg, p) = [lg EXCEPT ![p] = s]
  BY DEF Forget
<1> HIDE DEF s
<1>4. QED
  BY <1>2, <1>3

(* The answer to a write, as the history keeps it. *)
LEMMA WriteAnswered ==
  ASSUME Typed, NEW p \in Peer, NEW answer \in -1 .. MaxAsk, WriteReturns(p, answer, log)
  PROVE  /\ UNCHANGED <<io, gone>>
         /\ call' \in [Peer -> CallRec] /\ call'[p] = NoCall
         /\ log' \in [Peer -> LogRec]
         /\ \A x \in Peer \ {p} : call'[x] = call[x] /\ log'[x] = log[x]
         /\ log'[p].sent = log[p].sent /\ log'[p].base = log[p].sent /\ log'[p].wans = answer
         /\ log'[p].killed = log[p].killed /\ log'[p].rcvd = log[p].rcvd
         /\ log'[p].rans = log[p].rans /\ log'[p].why = log[p].why
<1>1. call \in [Peer -> CallRec] /\ log \in [Peer -> LogRec]
  BY DEF Typed
<1>2. NoCall \in CallRec
  BY DEF NoCall, CallRec
<1> DEFINE s == [log[p] EXCEPT !.wans = answer, !.base = log[p].sent, !.raced = FALSE]
<1>3. /\ s \in LogRec /\ s.sent = log[p].sent /\ s.base = log[p].sent /\ s.wans = answer
      /\ s.killed = log[p].killed /\ s.rcvd = log[p].rcvd
      /\ s.rans = log[p].rans /\ s.why = log[p].why
  <2>1. log[p] \in LogRec
    BY <1>1
  <2>2. QED
    BY <2>1 DEF LogRec
<1>4. log' = [log EXCEPT ![p] = s]
  BY <1>1 DEF WriteReturns
<1> HIDE DEF s
<1>5. /\ log' \in [Peer -> LogRec] /\ log'[p] = s
      /\ \A x \in Peer \ {p} : log'[x] = log[x]
  BY <1>1, <1>3, <1>4
<1>6. /\ call' \in [Peer -> CallRec] /\ call'[p] = NoCall
      /\ \A x \in Peer \ {p} : call'[x] = call[x]
  BY <1>1, <1>2 DEF WriteReturns
<1>7. UNCHANGED <<io, gone>>
  BY DEF WriteReturns
<1>8. QED
  BY <1>3, <1>5, <1>6, <1>7

(* The calls begin: a process that is idle has all its bytes answered.     *)
LEMMA CallDoes ==
  ASSUME IInv, NEW p \in Peer, NEW n \in 1 .. MaxAsk, Read(p, n) \/ Write(p, n)
  PROVE  IInv' /\ Does(p)
<1>0. n \in 0 .. MaxAsk /\ 0 \in 0 .. MaxAsk
  OBVIOUS
<1>1. Typed /\ Steps(p) /\ Resets(p)
  BY DEF IInv
<1>2. /\ call \in [Peer -> CallRec] /\ log \in [Peer -> LogRec] /\ tcp \in [Peer -> TcpRec]
      /\ log[p] \in LogRec
  BY <1>1 DEF Typed
<1>3. /\ p \notin gone /\ call[p].at = "none" /\ UNCHANGED <<io, tcp, gone>>
      /\ log' = Forget(log, p)
  BY DEF Read, Write, Idle
<1>4. /\ call' \in [Peer -> CallRec]
      /\ \A x \in Peer \ {p} : call'[x] = call[x]
      /\ call'[p].left = n /\ call'[p].len = n /\ call'[p].n = 0
      /\ call'[p].at = "rpoll" \/ (call'[p].at = "wpoll" /\ log[p].sent + n <= MaxBytes[p])
  <2>1. CASE Read(p, n)
    <3> DEFINE c == [NoCall EXCEPT !.at = "rpoll", !.left = n, !.len = n]
    <3>1. c \in CallRec /\ c.at = "rpoll" /\ c.left = n /\ c.len = n /\ c.n = 0
      BY <1>0 DEF NoCall, CallRec
    <3>2. call' = [call EXCEPT ![p] = c]
      BY <2>1 DEF Read
    <3> HIDE DEF c
    <3>3. QED
      BY <1>2, <3>1, <3>2
  <2>2. CASE Write(p, n)
    <3> DEFINE c == [NoCall EXCEPT !.at = "wpoll", !.left = n, !.len = n]
    <3>1. c \in CallRec /\ c.at = "wpoll" /\ c.left = n /\ c.len = n /\ c.n = 0
      BY <1>0 DEF NoCall, CallRec
    <3>2. call' = [call EXCEPT ![p] = c] /\ log[p].sent + n <= MaxBytes[p]
      BY <2>2 DEF Write
    <3> HIDE DEF c
    <3>3. QED
      BY <1>2, <3>1, <3>2
  <2>3. QED
    BY <2>1, <2>2
<1>5. /\ log' \in [Peer -> LogRec]
      /\ \A x \in Peer \ {p} : log'[x] = log[x]
      /\ log'[p].sent = log[p].sent /\ log'[p].base = log[p].base
      /\ log'[p].rcvd = log[p].rcvd /\ log'[p].killed = log[p].killed
      /\ log'[p].rans = 0 /\ log'[p].wans = 0 /\ log'[p].why = "none"
  BY <1>2, <1>3, Forgotten
<1>6. log[p].sent \in Nat /\ log[p].base = log[p].sent /\ n \in Nat /\ n > 0
  BY <1>1, <1>2, <1>3 DEF Steps, LogRec
<1>7. Steps(p)'
  BY <1>1, <1>3, <1>4, <1>5, <1>6 DEF Steps
<1>8. IInv'
  <2>1. Quiet
    BY <1>2, <1>3 DEF Quiet
  <2>2. QED
    BY <1>2, <1>3, <1>4, <1>5, <1>7, <2>1, QuietPreserves
<1>9. Does(p)
  <2>1. Len(log[p].rcvd) \in Nat
    BY <1>2, LenProperties DEF LogRec
  <2>2. QED
    BY <1>3, <1>4, <1>5, <1>6, <2>1 DEF Does, Told
<1>10. QED
  BY <1>8, <1>9

-----------------------------------------------------------------------------
(* A read that brings nothing, and a write that is refused: what the step  *)
(* may have done to the connection is to take its pending error.           *)
LEMMA NothingRead ==
  ASSUME IInv, NEW p \in Peer, call[p].at \in {"rpoll", "recv"}, Quiet,
         \E a \in {-1, 0}, v \in {"timeout", "hangup", "signal"} :
           ReadReturns(p, <<>>, a, v) /\ (v = "hangup" => AllRead(p))
  PROVE  IInv' /\ Does(p)
<1>0. PICK answer \in {-1, 0}, why \in {"timeout", "hangup", "signal"} :
        ReadReturns(p, <<>>, answer, why) /\ (why = "hangup" => AllRead(p))
  OBVIOUS
<1>1. Typed /\ Steps(p) /\ p \notin gone /\ <<>> \in Seq(Nat) /\ answer \in -1 .. MaxAsk
      /\ why \in {"none", "timeout", "hangup", "signal"}
  BY DEF IInv, Steps
<1>2. log[p] \in LogRec
  BY <1>1 DEF Typed
<1>3. /\ UNCHANGED <<io, gone>>
      /\ call' \in [Peer -> CallRec] /\ call'[p] = NoCall
      /\ log' \in [Peer -> LogRec]
      /\ \A x \in Peer \ {p} : call'[x] = call[x] /\ log'[x] = log[x]
      /\ log'[p].sent = log[p].sent /\ log'[p].base = log[p].base /\ log'[p].wans = log[p].wans
      /\ log'[p].killed = log[p].killed /\ log'[p].raced = log[p].raced
      /\ log'[p].rcvd = log[p].rcvd \o <<>> /\ log'[p].rans = answer /\ log'[p].why = why
  <2> DEFINE s == [log[p] EXCEPT !.rcvd = log[p].rcvd \o <<>>, !.rans = answer, !.why = why]
  <2>1. log \in [Peer -> LogRec] /\ call \in [Peer -> CallRec] /\ NoCall \in CallRec
    BY <1>1 DEF Typed, NoCall, CallRec
  <2>2. log[p].rcvd \o <<>> \in Seq(Nat)
    BY <1>1, <1>2, ConcatProperties DEF LogRec
  <2>3. /\ s \in LogRec /\ s.sent = log[p].sent /\ s.base = log[p].base /\ s.wans = log[p].wans
        /\ s.killed = log[p].killed /\ s.raced = log[p].raced
        /\ s.rcvd = log[p].rcvd \o <<>> /\ s.rans = answer /\ s.why = why
    BY <1>1, <1>2, <2>2 DEF LogRec
  <2>4. log' = [log EXCEPT ![p] = s]
    BY <1>0, <2>1 DEF ReadReturns
  <2> HIDE DEF s
  <2>5. /\ log' \in [Peer -> LogRec] /\ log'[p] = s
        /\ \A x \in Peer \ {p} : log'[x] = log[x]
    BY <2>1, <2>3, <2>4
  <2>6. /\ UNCHANGED <<io, gone>>
        /\ call' \in [Peer -> CallRec] /\ call'[p] = NoCall
        /\ \A x \in Peer \ {p} : call'[x] = call[x]
    BY <1>0, <2>1 DEF ReadReturns
  <2>7. QED
    BY <2>3, <2>5, <2>6
<1>4. log'[p].rcvd = log[p].rcvd /\ Len(log[p].rcvd) \in Nat
  BY <1>2, <1>3, ConcatEmptySeq, LenProperties DEF LogRec
<1>5. call'[p].at = "none"
  BY <1>3 DEF NoCall
<1>6. Steps(p)'
  BY <1>1, <1>3, <1>5 DEF Steps
<1>7. IInv'
  BY <1>0, <1>1, <1>3, <1>4, <1>5, <1>6, QuietPreserves
<1>8. Does(p)
  <2>1. log[p].sent \in Nat
    BY <1>2 DEF LogRec
  <2>2. Len(log'[p].rcvd) = Len(log[p].rcvd) + (IF log'[p].rans > 0 THEN log'[p].rans ELSE 0)
    BY <1>3, <1>4
  <2>3. call[p].at \notin {"wpoll", "send"} /\ log[p].sent <= log'[p].sent
    BY <1>3, <2>1
  <2>4. Told(p)
    BY <1>3, <2>2, <2>3 DEF Told
  <2>5. QED
    BY <1>3, <2>4 DEF Does
<1>9. QED
  BY <1>7, <1>8

LEMMA WriteRefused ==
  ASSUME IInv, NEW p \in Peer, call[p].at \in {"wpoll", "send"}, Quiet,
         \E a \in {-1, 0} : WriteReturns(p, a, log)
  PROVE  IInv' /\ Does(p)
<1>0. PICK answer \in {-1, 0} : WriteReturns(p, answer, log)
  OBVIOUS
<1>1. Typed /\ Steps(p) /\ Ends(p) /\ p \notin gone /\ answer \in -1 .. MaxAsk
  BY DEF IInv, Steps
<1>2. log[p] \in LogRec /\ call[p] \in CallRec
  BY <1>1 DEF Typed
<1>3. /\ UNCHANGED <<io, gone>>
      /\ call' \in [Peer -> CallRec] /\ call'[p] = NoCall
      /\ log' \in [Peer -> LogRec]
      /\ \A x \in Peer \ {p} : call'[x] = call[x] /\ log'[x] = log[x]
      /\ log'[p].sent = log[p].sent /\ log'[p].base = log[p].sent /\ log'[p].wans = answer
      /\ log'[p].killed = log[p].killed /\ log'[p].rcvd = log[p].rcvd
      /\ log'[p].rans = log[p].rans /\ log'[p].why = log[p].why
  BY <1>0, <1>1, WriteAnswered
<1>4. call'[p].at = "none"
  BY <1>3 DEF NoCall
<1>5. /\ log[p].sent \in Nat /\ log[p].base \in Nat /\ call[p].left \in Nat /\ call[p].len \in Nat
      /\ call[p].left > 0 /\ log[p].sent + call[p].left = log[p].base + call[p].len
  BY <1>1, <1>2 DEF LogRec, CallRec, Steps
<1>6. Steps(p)'
  BY <1>1, <1>3, <1>4, <1>5 DEF Steps
<1>7. IInv'
  BY <1>1, <1>3, <1>4, <1>6, QuietPreserves DEF Ends
<1>8. log'[p].sent - log[p].base < call[p].len
  BY <1>3, <1>5
<1>9. Does(p)
  BY <1>3, <1>4, <1>5, <1>8 DEF Does, Told
<1>10. QED
  BY <1>7, <1>9

(* What is left of a call goes on at another place of the code. *)
LEMMA GoesOn ==
  ASSUME IInv, NEW p \in Peer, call[p].at # "none", UNCHANGED <<io, tcp, gone, log>>,
         \/ /\ Goto(p, "recv") /\ call[p].at = "rpoll"
            /\ io[p].open /\ (tcp[p].queue # <<>> \/ Eof(p))
         \/ Goto(p, "wpoll") /\ call[p].at \in {"wpoll", "send"}
         \/ Goto(p, "send") /\ call[p].at \in {"wpoll", "send"} /\ io[p].open /\ ~tcp[p].reset
  PROVE  IInv' /\ Does(p)
<1>0. PICK at \in {"recv", "wpoll", "send"} :
        /\ Goto(p, at)
        /\ at = "recv" => /\ call[p].at = "rpoll" /\ io[p].open
                          /\ tcp[p].queue # <<>> \/ Eof(p)
        /\ at \in {"wpoll", "send"} => call[p].at \in {"wpoll", "send"}
        /\ at = "send" => io[p].open /\ ~tcp[p].reset
  OBVIOUS
<1>1. Typed /\ Steps(p) /\ Ends(p) /\ p \notin gone
  BY DEF IInv, Steps
<1>2. log[p] \in LogRec /\ call[p] \in CallRec /\ call \in [Peer -> CallRec]
  BY <1>1 DEF Typed
<1> DEFINE c == [call[p] EXCEPT !.at = at, !.n = 0]
<1>3. c \in CallRec /\ c.at = at /\ c.n = 0 /\ c.left = call[p].left /\ c.len = call[p].len
  <2>1. 0 \in 0 .. MaxAsk
    OBVIOUS
  <2>2. QED
    BY <1>2, <2>1 DEF CallRec
<1>4. call' = [call EXCEPT ![p] = c]
  BY <1>0, <1>2 DEF Goto
<1> HIDE DEF c
<1>5. call' \in [Peer -> CallRec] /\ call'[p] = c /\ \A x \in Peer \ {p} : call'[x] = call[x]
  BY <1>2, <1>3, <1>4
<1>6. Steps(p)'
  <2>1. call[p].n \in Nat /\ call[p].left \in Nat /\ call[p].len \in Nat
    BY <1>2 DEF CallRec
  <2>2. QED
    BY <1>0, <1>1, <1>3, <1>5, <2>1 DEF Steps
<1>7. Quiet
  BY <1>1 DEF Quiet, Typed
<1>8. IInv'
  BY <1>0, <1>1, <1>2, <1>3, <1>5, <1>6, <1>7, QuietPreserves DEF Typed, Ends
<1>9. Does(p)
  BY <1>0, <1>2, <1>3, <1>5 DEF Does, Told, LogRec
<1>10. QED
  BY <1>8, <1>9

(* An end that is open, with nothing to read and nothing to come, has read *)
(* all unless there was a reset or a shutdown.                             *)
LEMMA NothingLeft ==
  ASSUME IInv, NEW p \in Peer, io[p].open, tcp[p].queue = <<>>, Eof(p)
  PROVE  AllRead(p)
<1>1. Other(p) \in Peer /\ Flow(p) /\ Typed
  BY Peers DEF IInv
<1>2. /\ log[p].rcvd \in Seq(Nat) /\ Len(log[p].rcvd) \in Nat /\ Len(<<>>) = 0
  BY <1>1, LenProperties DEF Typed, LogRec
<1>3. CASE tcp[Other(p)].flight = <<>> /\ ~tcp[p].reset
  <2>1. Len(log[p].rcvd) + 0 + 0 = log[Other(p)].sent
    BY <1>1, <1>2, <1>3 DEF Flow, Ordered
  <2>2. QED
    BY <1>2, <1>3, <2>1 DEF Eof, AllRead
<1>4. CASE ~(tcp[Other(p)].flight = <<>> /\ ~tcp[p].reset)
  BY <1>4 DEF Eof, AllRead
<1>5. QED
  BY <1>3, <1>4

-----------------------------------------------------------------------------
(* The steps of a call that move no byte. *)
LEMMA RpollDoes ==
  ASSUME IInv, NEW p \in Peer, Rpoll(p)
  PROVE  IInv' /\ Does(p)
<1>1. /\ Typed /\ Resets(p) /\ Quiet /\ UNCHANGED tcp /\ call[p].at = "rpoll"
  BY DEF IInv, Typed, Quiet, Rpoll
<1>2. PICK revents \in ReadEvents(p) :
       \/ /\ "POLLERR" \in revents \/ ("POLLHUP" \in revents /\ "POLLIN" \notin revents)
          /\ ReadReturns(p, <<>>, -1, "hangup")
       \/ /\ "POLLERR" \notin revents /\ "POLLIN" \in revents
          /\ Goto(p, "recv")
          /\ UNCHANGED <<io, gone, log>>
       \/ revents = {} /\ io[p].rpwait # FOREVER /\ ReadReturns(p, <<>>, 0, "timeout")
  BY DEF Rpoll
<1>3. CASE /\ "POLLERR" \in revents \/ ("POLLHUP" \in revents /\ "POLLIN" \notin revents)
           /\ ReadReturns(p, <<>>, -1, "hangup")
  <2>1. io[p].open
    BY <1>3 DEF ReadEvents
  <2>2. tcp[p].reset \/ (tcp[p].queue = <<>> /\ Eof(p))
    BY <1>1, <1>3, <2>1 DEF ReadEvents, Error, Hup, Resets
  <2>3. AllRead(p)
    BY <2>1, <2>2, NothingLeft DEF AllRead
  <2>4. \E a \in {-1, 0}, v \in {"timeout", "hangup", "signal"} :
          ReadReturns(p, <<>>, a, v) /\ (v = "hangup" => AllRead(p))
    BY <1>3, <2>3
  <2>5. QED
    BY <1>1, <2>4, NothingRead
<1>4. CASE /\ "POLLERR" \notin revents /\ "POLLIN" \in revents
           /\ Goto(p, "recv") /\ UNCHANGED <<io, gone, log>>
  <2>1. io[p].open /\ (tcp[p].queue # <<>> \/ Eof(p))
    BY <1>4 DEF ReadEvents, Error
  <2>2. QED
    BY <1>1, <1>4, <2>1, GoesOn
<1>5. CASE revents = {} /\ io[p].rpwait # FOREVER /\ ReadReturns(p, <<>>, 0, "timeout")
  <2>1. \E a \in {-1, 0}, v \in {"timeout", "hangup", "signal"} :
          ReadReturns(p, <<>>, a, v) /\ (v = "hangup" => AllRead(p))
    BY <1>5
  <2>2. QED
    BY <1>1, <2>1, NothingRead
<1>6. QED
  BY <1>2, <1>3, <1>4, <1>5

LEMMA WpollDoes ==
  ASSUME IInv, NEW p \in Peer, Wpoll(p)
  PROVE  IInv' /\ Does(p)
<1>1. Typed /\ Quiet /\ UNCHANGED tcp /\ call[p].at = "wpoll"
  BY DEF IInv, Typed, Quiet, Wpoll
<1>2. CASE WriteEvents(p) = {"POLLOUT"} /\ Goto(p, "send") /\ UNCHANGED <<io, gone, log>>
  <2>1. io[p].open /\ ~tcp[p].reset
    BY <1>2 DEF WriteEvents, Error, Hup
  <2>2. QED
    BY <1>1, <1>2, <2>1, GoesOn
<1>3. CASE WriteReturns(p, -1, log) \/ WriteReturns(p, 0, log)
  <2>1. \E a \in {-1, 0} : WriteReturns(p, a, log)
    BY <1>3
  <2>2. QED
    BY <1>1, <2>1, WriteRefused
<1>4. QED
  BY <1>2, <1>3 DEF Wpoll

LEMMA InterruptDoes ==
  ASSUME IInv, NEW p \in Peer, Interrupt(p)
  PROVE  IInv' /\ Does(p)
<1>1. Quiet
  BY DEF IInv, Typed, Quiet, Interrupt
<1>2. CASE call[p].at = "rpoll" /\ ReadReturns(p, <<>>, -1, "signal")
  <2>1. \E a \in {-1, 0}, v \in {"timeout", "hangup", "signal"} :
          ReadReturns(p, <<>>, a, v) /\ (v = "hangup" => AllRead(p))
    BY <1>2
  <2>2. QED
    BY <1>1, <1>2, <2>1, NothingRead
<1>3. CASE call[p].at = "wpoll" /\ WriteReturns(p, -1, log)
  <2>1. \E a \in {-1, 0} : WriteReturns(p, a, log)
    BY <1>3
  <2>2. QED
    BY <1>1, <1>3, <2>1, WriteRefused
<1>4. QED
  BY <1>2, <1>3 DEF Interrupt

(* The pending error is taken, by the call that reports it. *)
LEMMA ErrorIsQuiet ==
  ASSUME Typed, NEW p \in Peer, tcp' = [tcp EXCEPT ![p].err = FALSE]
  PROVE  Quiet
<1> DEFINE s == [tcp[p] EXCEPT !.err = FALSE]
<1>1. tcp \in [Peer -> TcpRec] /\ tcp[p] \in TcpRec
  BY DEF Typed
<1>2. /\ s \in TcpRec /\ s.flight = tcp[p].flight /\ s.queue = tcp[p].queue
      /\ s.reset = tcp[p].reset /\ s.shut = tcp[p].shut /\ s.err = FALSE
  BY <1>1 DEF TcpRec
<1>3. tcp' = [tcp EXCEPT ![p] = s]
  BY <1>1
<1> HIDE DEF s
<1>4. tcp' \in [Peer -> TcpRec] /\ tcp'[p] = s /\ \A x \in Peer \ {p} : tcp'[x] = tcp[x]
  BY <1>1, <1>2, <1>3
<1>5. QED
  BY <1>2, <1>4 DEF Quiet

LEMMA ShutdownDoes ==
  ASSUME IInv, NEW p \in Peer, NEW how \in SUBSET {"r", "w"}, Shutdown(p, how)
  PROVE  IInv' /\ Does(p)
<1>1. Typed /\ Steps(p)
  BY DEF IInv
<1>2. /\ call \in [Peer -> CallRec] /\ log \in [Peer -> LogRec] /\ tcp \in [Peer -> TcpRec]
      /\ tcp[p] \in TcpRec /\ log[p] \in LogRec
  BY <1>1 DEF Typed
<1>3. /\ p \notin gone /\ call[p].at = "none" /\ UNCHANGED <<io, call, gone>>
      /\ log' = Forget(log, p) /\ tcp' = [tcp EXCEPT ![p].shut = @ \cup how]
  BY DEF Shutdown, Idle
<1>4. Quiet
  <2> DEFINE s == [tcp[p] EXCEPT !.shut = tcp[p].shut \cup how]
  <2>1. /\ s \in TcpRec /\ s.flight = tcp[p].flight /\ s.queue = tcp[p].queue
        /\ s.reset = tcp[p].reset /\ s.shut = tcp[p].shut \cup how /\ s.err = tcp[p].err
    BY <1>2 DEF TcpRec
  <2>2. tcp' = [tcp EXCEPT ![p] = s]
    BY <1>2, <1>3
  <2> HIDE DEF s
  <2>3. tcp' \in [Peer -> TcpRec] /\ tcp'[p] = s /\ \A x \in Peer \ {p} : tcp'[x] = tcp[x]
    BY <1>2, <2>1, <2>2
  <2>4. QED
    BY <2>1, <2>3 DEF Quiet
<1>5. /\ log' \in [Peer -> LogRec]
      /\ \A x \in Peer \ {p} : log'[x] = log[x]
      /\ log'[p].sent = log[p].sent /\ log'[p].base = log[p].base
      /\ log'[p].rcvd = log[p].rcvd /\ log'[p].killed = log[p].killed
      /\ log'[p].rans = 0 /\ log'[p].wans = 0 /\ log'[p].why = "none"
  BY <1>2, <1>3, Forgotten
<1>6. log[p].sent \in Nat /\ log[p].base = log[p].sent /\ Len(log[p].rcvd) \in Nat
  BY <1>1, <1>2, <1>3, LenProperties DEF Steps, LogRec
<1>7. Steps(p)'
  BY <1>1, <1>3, <1>5 DEF Steps
<1>8. IInv'
  BY <1>2, <1>3, <1>4, <1>5, <1>7, QuietPreserves
<1>9. Does(p)
  BY <1>3, <1>5, <1>6 DEF Does, Told
<1>10. QED
  BY <1>8, <1>9

-----------------------------------------------------------------------------
(* Bytes are read. *)
LEMMA RecvDoes ==
  ASSUME IInv, NEW p \in Peer, Recv(p)
  PROVE  IInv' /\ Does(p)
<1> DEFINE q == Other(p)
           n == Len(tcp[p].queue)
           k == IF n < call[p].left THEN n ELSE call[p].left
           bytes == SubSeq(tcp[p].queue, 1, k)
           rest == SubSeq(tcp[p].queue, k + 1, n)
<1>1. Typed /\ Steps(p) /\ Resets(p) /\ Flow(p) /\ Ends(p) /\ call[p].at = "recv"
  BY DEF IInv, Recv
<1>2. /\ call \in [Peer -> CallRec] /\ log \in [Peer -> LogRec] /\ tcp \in [Peer -> TcpRec]
      /\ tcp[p] \in TcpRec /\ log[p] \in LogRec /\ call[p] \in CallRec
  BY <1>1 DEF Typed
<1>3. q \in Peer /\ q # p /\ Other(q) = p /\ \A x \in Peer : x = p \/ x = q
  BY Peers
<1>4. io[p].open /\ p \notin gone /\ log[p].base = log[p].sent
  BY <1>1 DEF Steps
<1>5. CASE tcp[p].queue = <<>>
  <2>1. AllRead(p)
    BY <1>1, <1>4, <1>5, NothingLeft DEF Ends
  <2>2. \/ ReadReturns(p, <<>>, -1, "hangup") /\ tcp' = [tcp EXCEPT ![p].err = FALSE]
        \/ ReadReturns(p, <<>>, 0, "hangup") /\ UNCHANGED tcp
    BY <1>5 DEF Recv
  <2>3. Quiet
    <3>1. UNCHANGED tcp => Quiet
      BY <1>2 DEF Quiet
    <3>2. QED
      BY <1>1, <2>2, <3>1, ErrorIsQuiet
  <2>4. \E a \in {-1, 0}, v \in {"timeout", "hangup", "signal"} :
          ReadReturns(p, <<>>, a, v) /\ (v = "hangup" => AllRead(p))
    BY <2>1, <2>2
  <2>5. QED
    BY <1>1, <2>3, <2>4, NothingRead
<1>6. CASE tcp[p].queue # <<>>
  <2>1. /\ tcp[p].queue \in Seq(Nat) /\ log[p].rcvd \in Seq(Nat) /\ tcp[q].flight \in Seq(Nat)
        /\ log[q].sent \in Nat /\ n \in Nat /\ call[p].left \in 0 .. MaxAsk
    BY <1>2, <1>3, LenProperties DEF TcpRec, LogRec, CallRec
  <2>2. k \in 0 .. n /\ k <= MaxAsk
    BY <2>1
  <2>3. Ordered(log[p].rcvd, tcp[p].queue, tcp[q].flight, log[q].sent, io[p].open, tcp[p].reset)
    BY <1>1 DEF Flow
  <2> HIDE DEF k, q
  <2>4. /\ bytes \in Seq(Nat) /\ Len(bytes) = k /\ rest \in Seq(Nat)
        /\ log[p].rcvd \o bytes \in Seq(Nat)
        /\ Ordered(log[p].rcvd \o bytes, rest, tcp[q].flight, log[q].sent, io[p].open, tcp[p].reset)
    <3> DEFINE had == log[p].rcvd
               queue == tcp[p].queue
               flight == tcp[q].flight
               sent == log[q].sent
               open == io[p].open
               lost == tcp[p].reset
    <3>1. /\ had \in Seq(Nat) /\ queue \in Seq(Nat) /\ flight \in Seq(Nat) /\ sent \in Nat
          /\ k \in 0 .. Len(queue) /\ open /\ Ordered(had, queue, flight, sent, open, lost)
      BY <1>4, <2>1, <2>2, <2>3
    <3> HIDE DEF had, queue, flight, sent, open, lost
    <3>2. /\ SubSeq(queue, 1, k) \in Seq(Nat) /\ Len(SubSeq(queue, 1, k)) = k
          /\ had \o SubSeq(queue, 1, k) \in Seq(Nat) /\ SubSeq(queue, k + 1, Len(queue)) \in Seq(Nat)
          /\ Ordered(had \o SubSeq(queue, 1, k), SubSeq(queue, k + 1, Len(queue)), flight, sent,
                     open, lost)
      BY <3>1, OrderTakes
    <3>3. QED
      BY <3>2 DEF had, queue, flight, sent, open, lost
  <2>5. /\ call' = [call EXCEPT ![p] = NoCall]
        /\ log' = [log EXCEPT ![p].rcvd = @ \o bytes, ![p].rans = Len(bytes), ![p].why = "none"]
        /\ UNCHANGED <<io, gone>>
        /\ tcp' = [tcp EXCEPT ![p].queue = SubSeq(@, Len(bytes) + 1, Len(@))]
    BY <1>6 DEF Recv, ReadReturns, k
  <2> HIDE DEF bytes
  <2> DEFINE s == [log[p] EXCEPT !.rcvd = log[p].rcvd \o bytes, !.rans = Len(bytes), !.why = "none"]
             t == [tcp[p] EXCEPT !.queue = rest]
  <2>6. /\ s \in LogRec /\ s.sent = log[p].sent /\ s.base = log[p].base /\ s.wans = log[p].wans
        /\ s.killed = log[p].killed /\ s.raced = log[p].raced
        /\ s.rcvd = log[p].rcvd \o bytes /\ s.rans = k /\ s.why = "none"
    <3>1. Len(bytes) \in -1 .. MaxAsk /\ log[p].rcvd \o bytes \in Seq(Nat) /\ Len(bytes) = k
      BY <2>2, <2>4
    <3>2. QED
      BY <1>2, <3>1 DEF LogRec
  <2>7. /\ t \in TcpRec /\ t.flight = tcp[p].flight /\ t.queue = rest /\ t.shut = tcp[p].shut
        /\ t.reset = tcp[p].reset /\ t.err = tcp[p].err
    <3> HIDE DEF rest
    <3>1. QED
      BY <1>2, <2>4 DEF TcpRec
  <2>8. log' = [log EXCEPT ![p] = s]
    BY <1>2, <2>5
  <2>9. tcp' = [tcp EXCEPT ![p] = t]
    BY <1>2, <2>4, <2>5
  <2> HIDE DEF s, t, rest
  <2>10. /\ log' \in [Peer -> LogRec] /\ log'[p] = s /\ log'[q] = log[q]
         /\ tcp' \in [Peer -> TcpRec] /\ tcp'[p] = t /\ tcp'[q] = tcp[q]
    BY <1>2, <1>3, <2>6, <2>7, <2>8, <2>9
  <2>11. call' \in [Peer -> CallRec] /\ call'[p].at = "none" /\ call'[q] = call[q]
    <3>1. NoCall \in CallRec /\ NoCall.at = "none"
      BY DEF NoCall, CallRec
    <3>2. QED
      BY <1>2, <1>3, <2>5, <3>1
  <2>12. Typed'
    BY <1>1, <2>5, <2>10, <2>11 DEF Typed
  <2>13. Steps(p)' /\ Resets(p)' /\ Flow(p)' /\ Ends(p)'
    <3>1. Steps(p)'
      BY <1>1, <1>4, <2>5, <2>6, <2>10, <2>11 DEF Steps
    <3>2. Resets(p)'
      BY <1>1, <1>4, <2>5, <2>6, <2>7, <2>10, <2>11 DEF Resets
    <3>3. Flow(p)'
      <4>1. Ordered(log'[p].rcvd, tcp'[p].queue, tcp'[q].flight, log'[q].sent, io'[p].open, tcp'[p].reset)
        BY <2>4, <2>5, <2>6, <2>7, <2>10
      <4>2. QED
        BY <4>1 DEF Flow, q
    <3>4. Ends(p)'
      BY <2>6, <2>10, <2>11 DEF Ends
    <3>5. QED
      BY <3>1, <3>2, <3>3, <3>4
  <2>14. Steps(q)' /\ Resets(q)' /\ Flow(q)' /\ Ends(q)'
    <3>1. Steps(q) /\ Resets(q) /\ Flow(q) /\ Ends(q)
      BY <1>3 DEF IInv
    <3>2. Steps(q)' /\ Resets(q)'
      BY <2>5, <2>10, <2>11, <3>1 DEF Steps, Resets
    <3>3. Flow(q)'
      BY <1>3, <2>5, <2>6, <2>7, <2>10, <3>1, FlowStays
    <3>4. Ends(q)'
      BY <1>3, <2>5, <2>6, <2>7, <2>10, <2>11, <3>1 DEF Ends, Eof, Ended, AllRead
    <3>5. QED
      BY <3>2, <3>3, <3>4
  <2>15. IInv'
    BY <1>3, <2>12, <2>13, <2>14 DEF IInv
  <2>16. Does(p)
    <3>1. log[p].sent \in Nat /\ call[p].at \notin {"wpoll", "send"}
      BY <1>1, <1>2 DEF LogRec
    <3>2. Len(log'[p].rcvd) = Len(log[p].rcvd) + (IF log'[p].rans > 0 THEN log'[p].rans ELSE 0)
      <4>1. Len(log[p].rcvd \o bytes) = Len(log[p].rcvd) + Len(bytes) /\ Len(log[p].rcvd) \in Nat
        BY <2>1, <2>4, ConcatProperties, LenProperties
      <4>2. k = IF k > 0 THEN k ELSE 0
        BY <2>2
      <4>3. QED
        BY <2>4, <2>6, <2>10, <4>1, <4>2
    <3>3. Told(p)
      BY <2>6, <2>10, <3>1, <3>2 DEF Told
    <3>4. QED
      BY <1>3, <2>10, <2>11, <3>3 DEF Does
  <2>17. QED
    BY <2>15, <2>16
<1>7. QED
  BY <1>5, <1>6

-----------------------------------------------------------------------------
(* Bytes are sent: the rest of the write, or a part of it. *)
LEMMA SendBytesDoes ==
  ASSUME IInv, NEW p \in Peer, call[p].at = "send", ~tcp[p].reset, "w" \notin tcp[p].shut,
         NEW k \in Nat, k > 0, k <= Space(p), k <= call[p].left, SendBytes(p, k)
  PROVE  IInv' /\ Does(p)
<1> DEFINE q == Other(p)
           more == tcp[p].flight \o [m \in 1 .. k |-> log[p].sent + m]
           sent == log[p].sent + k
           all == k = call[p].left
<1>1. Typed /\ Steps(p) /\ Resets(p) /\ Flow(p) /\ Ends(p)
  BY DEF IInv
<1>2. /\ call \in [Peer -> CallRec] /\ log \in [Peer -> LogRec] /\ tcp \in [Peer -> TcpRec]
      /\ tcp[p] \in TcpRec /\ log[p] \in LogRec /\ call[p] \in CallRec
  BY <1>1 DEF Typed
<1>3. q \in Peer /\ q # p /\ Other(q) = p /\ \A x \in Peer : x = p \/ x = q
  BY Peers
<1>4. /\ Steps(q) /\ Resets(q) /\ Flow(q) /\ Ends(q)
      /\ log[q] \in LogRec /\ tcp[q] \in TcpRec
  BY <1>2, <1>3 DEF IInv
<1>5. io[p].open /\ p \notin gone /\ ~tcp[q].reset
  BY <1>1, <1>3, <1>4 DEF Steps, Resets
<1>6. /\ log[p].sent \in Nat /\ log[p].base \in Nat /\ call[p].left \in Nat
      /\ call[p].len \in 0 .. MaxAsk /\ call[p].n \in Nat /\ MaxBytes[p] \in Nat
      /\ call[p].n + call[p].left <= call[p].len
      /\ log[p].sent + call[p].left = log[p].base + call[p].len
      /\ log[p].base + call[p].len <= MaxBytes[p] /\ log[p].base <= log[p].sent
      /\ log[p].wans = 0
  <2>1. MaxBytes[p] \in Nat
    OBVIOUS
  <2>2. /\ log[p].sent \in Nat /\ log[p].base \in Nat /\ call[p].left \in Nat
        /\ call[p].len \in 0 .. MaxAsk /\ call[p].n \in Nat
    <3>1. log[p].sent \in Nat /\ log[p].base \in Nat
      BY <1>2 DEF LogRec
    <3>2. call[p].left \in 0 .. MaxAsk /\ call[p].len \in 0 .. MaxAsk /\ call[p].n \in 0 .. MaxAsk
      BY <1>2 DEF CallRec
    <3>3. QED
      BY <3>1, <3>2
  <2>3. QED
    BY <1>1, <2>1, <2>2 DEF Steps
<1>7. /\ log[q].rcvd \in Seq(Nat) /\ tcp[q].queue \in Seq(Nat) /\ tcp[p].flight \in Seq(Nat)
      /\ Len(tcp[p].flight) \in Nat
  BY <1>2, <1>4, LenProperties DEF TcpRec, LogRec
<1> HIDE DEF q
<1>8. /\ more \in Seq(Nat)
      /\ Ordered(log[q].rcvd, tcp[q].queue, more, sent, io[q].open, tcp[q].reset)
  <2> DEFINE had == log[q].rcvd
             queue == tcp[q].queue
             flight == tcp[p].flight
             snt == log[p].sent
             open == io[q].open
             lost == tcp[q].reset
  <2>1. /\ had \in Seq(Nat) /\ queue \in Seq(Nat) /\ flight \in Seq(Nat) /\ snt \in Nat
        /\ (open => ~lost) /\ Ordered(had, queue, flight, snt, open, lost)
    BY <1>3, <1>4, <1>5, <1>6, <1>7 DEF Flow
  <2>2. Len(flight) + k <= Cap
    BY <1>7 DEF Space
  <2> HIDE DEF had, queue, flight, snt, open, lost
  <2>3. /\ flight \o [m \in 1 .. k |-> snt + m] \in Seq(Nat)
        /\ Ordered(had, queue, flight \o [m \in 1 .. k |-> snt + m], snt + k, open, lost)
    BY <2>1, <2>2, OrderSends
  <2>4. QED
    BY <2>3 DEF had, queue, flight, snt, open, lost
<1>9. /\ tcp' = [tcp EXCEPT ![p].flight = more] /\ UNCHANGED <<io, gone>>
  BY <1>2 DEF SendBytes, WriteReturns
<1> DEFINE t == [tcp[p] EXCEPT !.flight = more]
<1>10. /\ t \in TcpRec /\ t.flight = more /\ t.queue = tcp[p].queue /\ t.shut = tcp[p].shut
       /\ t.reset = tcp[p].reset /\ t.err = tcp[p].err
  <2> HIDE DEF more
  <2>1. QED
    BY <1>2, <1>8 DEF TcpRec
<1>11. tcp' = [tcp EXCEPT ![p] = t]
  <2> HIDE DEF more
  <2>1. QED
    BY <1>2, <1>9
<1> HIDE DEF t, more
<1>12. tcp' \in [Peer -> TcpRec] /\ tcp'[p] = t /\ tcp'[q] = tcp[q]
  BY <1>2, <1>3, <1>10, <1>11
<1> DEFINE lg == [log EXCEPT ![p].sent = @ + k]
<1>13. /\ lg \in [Peer -> LogRec] /\ lg[q] = log[q] /\ lg[p] \in LogRec
       /\ lg[p].sent = sent /\ lg[p].base = log[p].base /\ lg[p].wans = log[p].wans
       /\ lg[p].killed = log[p].killed /\ lg[p].raced = log[p].raced
       /\ lg[p].rcvd = log[p].rcvd /\ lg[p].rans = log[p].rans /\ lg[p].why = log[p].why
  <2> DEFINE s == [log[p] EXCEPT !.sent = sent]
  <2>1. /\ s \in LogRec /\ s.sent = sent /\ s.base = log[p].base /\ s.wans = log[p].wans
        /\ s.killed = log[p].killed /\ s.raced = log[p].raced
        /\ s.rcvd = log[p].rcvd /\ s.rans = log[p].rans /\ s.why = log[p].why
    <3>1. sent \in Nat
      BY <1>6
    <3> HIDE DEF sent
    <3>2. QED
      BY <1>2, <3>1 DEF LogRec
  <2>2. lg = [log EXCEPT ![p] = s]
    BY <1>2
  <2> HIDE DEF s, lg
  <2>3. QED
    BY <1>2, <1>3, <2>1, <2>2
<1>14. \/ all /\ WriteReturns(p, call[p].len, lg)
       \/ /\ ~all /\ log' = lg
          /\ call' = [call EXCEPT ![p].left = @ - k, ![p].n = IF io[p].nonblock THEN 0 ELSE @ + k,
                                  ![p].at = IF io[p].nonblock THEN "wpoll" ELSE "send"]
  BY DEF SendBytes
<1> HIDE DEF lg
<1>15. /\ log' \in [Peer -> LogRec] /\ log'[q] = log[q]
       /\ log'[p].sent = sent /\ log'[p].killed = log[p].killed
       /\ log'[p].rcvd = log[p].rcvd /\ log'[p].rans = log[p].rans /\ log'[p].why = log[p].why
       /\ IF all THEN log'[p].wans = call[p].len /\ log'[p].base = sent
          ELSE log'[p].base = log[p].base /\ log'[p].wans = log[p].wans
  <2>1. CASE all
    <3> DEFINE s == [lg[p] EXCEPT !.wans = call[p].len, !.base = lg[p].sent, !.raced = FALSE]
    <3>1. /\ s \in LogRec /\ s.sent = sent /\ s.base = sent /\ s.wans = call[p].len
          /\ s.killed = log[p].killed /\ s.rcvd = log[p].rcvd /\ s.rans = log[p].rans
          /\ s.why = log[p].why
      <4>1. call[p].len \in -1 .. MaxAsk /\ lg[p].sent \in Nat /\ sent \in Nat
        BY <1>6, <1>13
      <4> HIDE DEF sent
      <4>2. QED
        BY <1>13, <4>1 DEF LogRec
    <3>2. log' = [lg EXCEPT ![p] = s]
      BY <1>13, <1>14, <2>1 DEF WriteReturns
    <3> HIDE DEF s, sent
    <3>3. QED
      BY <1>3, <1>13, <2>1, <3>1, <3>2
  <2>2. CASE ~all
    BY <1>13, <1>14, <2>2
  <2>3. QED
    BY <2>1, <2>2
<1>16. /\ call' \in [Peer -> CallRec] /\ call'[q] = call[q]
       /\ IF all THEN call'[p].at = "none"
          ELSE /\ call'[p].at \in {"wpoll", "send"} /\ call'[p].len = call[p].len
               /\ call'[p].left = call[p].left - k /\ call'[p].n \in 0 .. call[p].n + k
  <2>1. CASE all
    <3>1. NoCall \in CallRec /\ NoCall.at = "none" /\ call' = [call EXCEPT ![p] = NoCall]
      BY <1>14, <2>1 DEF WriteReturns, NoCall, CallRec
    <3>2. QED
      BY <1>2, <1>3, <2>1, <3>1
  <2>2. CASE ~all
    <3> DEFINE n == IF io[p].nonblock THEN 0 ELSE call[p].n + k
               at == IF io[p].nonblock THEN "wpoll" ELSE "send"
               c == [call[p] EXCEPT !.left = call[p].left - k, !.n = n, !.at = at]
    <3>1. /\ call[p].left - k \in 0 .. MaxAsk /\ n \in 0 .. MaxAsk /\ n \in 0 .. call[p].n + k
          /\ at \in {"wpoll", "send"}
      BY <1>6
    <3> HIDE DEF n, at
    <3>2. /\ c \in CallRec /\ c.at = at /\ c.len = call[p].len
          /\ c.left = call[p].left - k /\ c.n = n
      BY <1>2, <3>1 DEF CallRec
    <3>3. call' = [call EXCEPT ![p] = c]
      BY <1>2, <1>14, <2>2 DEF n, at
    <3> HIDE DEF c
    <3>4. QED
      BY <1>2, <1>3, <2>2, <3>1, <3>2, <3>3
  <2>3. QED
    BY <2>1, <2>2
<1>17. Typed'
  BY <1>1, <1>9, <1>12, <1>15, <1>16 DEF Typed
<1>18. Steps(p)' /\ Resets(p)' /\ Flow(p)' /\ Ends(p)'
  <2>1. Steps(p)'
    <3>1. p \notin gone' /\ io'[p].open /\ sent \in Nat
      BY <1>5, <1>6, <1>9
    <3>2. CASE all
      <4>1. log'[p].base = sent /\ log'[p].sent = sent /\ call'[p].at = "none" /\ sent <= MaxBytes[p]
        BY <1>6, <1>15, <1>16, <3>2
      <4> HIDE DEF sent
      <4>2. QED
        BY <1>9, <3>1, <4>1 DEF Steps
    <3>3. CASE ~all
      <4>1. /\ call'[p].at \in {"wpoll", "send"} /\ log'[p].base = log[p].base /\ log'[p].wans = 0
            /\ log'[p].sent = sent /\ call'[p].len = call[p].len
            /\ call'[p].left = call[p].left - k /\ call'[p].n \in 0 .. call[p].n + k
        BY <1>6, <1>15, <1>16, <3>3
      <4>2. /\ call'[p].left > 0 /\ call'[p].n + call'[p].left <= call'[p].len
            /\ log'[p].sent + call'[p].left = log'[p].base + call'[p].len
            /\ log'[p].base + call'[p].len <= MaxBytes[p]
            /\ log'[p].base <= log'[p].sent /\ log'[p].sent <= MaxBytes[p]
        BY <1>6, <3>3, <4>1
      <4>3. QED
        BY <3>1, <4>1, <4>2 DEF Steps
    <3>4. QED
      BY <3>2, <3>3
  <2>2. Resets(p)'
    BY <1>1, <1>5, <1>9, <1>10, <1>12, <1>15 DEF Resets
  <2>3. Flow(p)'
    BY <1>1, <1>9, <1>10, <1>12, <1>15, FlowStays DEF q
  <2>4. Ends(p)'
    <3>1. call'[p].at # "recv"
      BY <1>16
    <3>2. AllRead(p) => AllRead(p)'
      BY <1>9, <1>10, <1>12, <1>15 DEF AllRead, Ended, q
    <3>3. QED
      BY <1>1, <1>15, <3>1, <3>2 DEF Ends
  <2>5. QED
    BY <2>1, <2>2, <2>3, <2>4
<1>19. Steps(q)' /\ Resets(q)' /\ Flow(q)' /\ Ends(q)'
  <2>1. Steps(q)' /\ Resets(q)'
    BY <1>4, <1>9, <1>12, <1>15, <1>16 DEF Steps, Resets
  <2>2. Flow(q)'
    BY <1>3, <1>8, <1>9, <1>10, <1>12, <1>15 DEF Flow
  <2>3. ~Ended(p)
    BY <1>5 DEF Ended
  <2>4. (Eof(q) => Eof(q)') /\ (AllRead(q) => AllRead(q)')
    BY <1>3, <1>12, <2>3 DEF Eof, AllRead
  <2>5. Ends(q)'
    BY <1>4, <1>12, <1>15, <1>16, <2>4 DEF Ends
  <2>6. QED
    BY <2>1, <2>2, <2>5
<1>20. IInv'
  BY <1>3, <1>17, <1>18, <1>19 DEF IInv
<1>21. Told(p)
  <2>1. log[p].sent <= sent /\ (all => call[p].len = sent - log[p].base /\ call[p].len > 0)
    <3>1. call[p].len \in Nat
      BY <1>6
    <3>2. ASSUME all
          PROVE  call[p].len = sent - log[p].base /\ call[p].len > 0
      <4>1. log[p].sent + k = log[p].base + call[p].len /\ call[p].n + k <= call[p].len
        BY <1>6, <3>2
      <4>2. QED
        BY <1>6, <3>1, <4>1
    <3>3. QED
      BY <1>6, <3>2
  <2>2. CASE all
    <3>1. /\ log'[p].base = sent /\ log'[p].sent = sent /\ log'[p].wans = call[p].len
          /\ log'[p].rcvd = log[p].rcvd /\ log'[p].rans = log[p].rans
      BY <1>15, <2>2
    <3> HIDE DEF sent
    <3>2. QED
      BY <2>1, <2>2, <3>1 DEF Told
  <2>3. CASE ~all
    <3>1. /\ log'[p].base = log[p].base /\ log'[p].wans = log[p].wans /\ log'[p].sent = sent
          /\ log'[p].rcvd = log[p].rcvd /\ log'[p].rans = log[p].rans /\ call'[p].at # "none"
      BY <1>15, <1>16, <2>3
    <3> HIDE DEF sent
    <3>2. QED
      BY <2>1, <3>1 DEF Told
  <2>4. QED
    BY <2>2, <2>3
<1>22. Does(p)
  BY <1>3, <1>15, <1>16, <1>21 DEF Does
<1>23. QED
  BY <1>20, <1>22

-----------------------------------------------------------------------------
(* The network: a byte arrives, or meets a closed end. *)
LEMMA DeliverDoes ==
  ASSUME IInv, NEW p \in Peer, Deliver(p)
  PROVE  IInv' /\ Does(p)
<1> DEFINE q == Other(p)
<1>1. Typed /\ Steps(p) /\ Resets(p) /\ Flow(p) /\ Ends(p)
  BY DEF IInv
<1>2. /\ log \in [Peer -> LogRec] /\ tcp \in [Peer -> TcpRec]
      /\ tcp[p] \in TcpRec /\ log[p] \in LogRec
  BY <1>1 DEF Typed
<1>3. q \in Peer /\ q # p /\ Other(q) = p /\ \A x \in Peer : x = p \/ x = q
  BY Peers
<1>4. /\ Steps(q) /\ Resets(q) /\ Flow(q) /\ Ends(q)
      /\ log[q] \in LogRec /\ tcp[q] \in TcpRec
  BY <1>2, <1>3 DEF IInv
<1>5. UNCHANGED <<io, call, gone>> /\ tcp[p].flight # <<>>
  BY DEF Deliver
<1>6. /\ log[q].rcvd \in Seq(Nat) /\ tcp[q].queue \in Seq(Nat) /\ tcp[p].flight \in Seq(Nat)
      /\ log[p].sent \in Nat /\ Len(log[p].rcvd) \in Nat
  BY <1>2, <1>4, LenProperties DEF TcpRec, LogRec
<1>7. CASE io[q].open
  <2> DEFINE queue == Append(tcp[q].queue, Head(tcp[p].flight))
             flight == Tail(tcp[p].flight)
  <2>1. /\ Len(tcp[q].queue) < Cap /\ UNCHANGED log
        /\ tcp' = [tcp EXCEPT ![p].flight = Tail(@), ![q].queue = Append(@, Head(tcp[p].flight))]
    BY <1>7 DEF Deliver
  <2> HIDE DEF q
  <2>2. /\ queue \in Seq(Nat) /\ flight \in Seq(Nat)
        /\ Ordered(log[q].rcvd, queue, flight, log[p].sent, io[q].open, tcp[q].reset)
    <3> DEFINE had == log[q].rcvd
               que == tcp[q].queue
               fly == tcp[p].flight
               sent == log[p].sent
               open == io[q].open
               lost == tcp[q].reset
    <3>1. /\ had \in Seq(Nat) /\ que \in Seq(Nat) /\ fly \in Seq(Nat) /\ sent \in Nat
          /\ fly # <<>> /\ Len(que) < Cap /\ open /\ Ordered(had, que, fly, sent, open, lost)
      BY <1>3, <1>4, <1>5, <1>6, <1>7, <2>1 DEF Flow
    <3> HIDE DEF had, que, fly, sent, open, lost
    <3>2. /\ Append(que, Head(fly)) \in Seq(Nat) /\ Tail(fly) \in Seq(Nat)
          /\ Ordered(had, Append(que, Head(fly)), Tail(fly), sent, open, lost)
      BY <3>1, OrderArrives
    <3>3. QED
      BY <3>2 DEF had, que, fly, sent, open, lost
  <2>3. queue # <<>>
    <3>1. Head(tcp[p].flight) \in Nat
      BY <1>5, <1>6, HeadTailProperties
    <3>2. queue[Len(tcp[q].queue) + 1] = Head(tcp[p].flight) /\ Len(queue) = Len(tcp[q].queue) + 1
      BY <1>6, <3>1, AppendProperties
    <3> HIDE DEF queue
    <3>3. Len(tcp[q].queue) \in Nat
      BY <1>6, LenProperties
    <3>4. QED
      BY <3>2, <3>3
  <2> DEFINE t == [tcp[p] EXCEPT !.flight = flight]
             u == [tcp[q] EXCEPT !.queue = queue]
  <2>4. tcp' = [tcp EXCEPT ![p] = t, ![q] = u]
    BY <1>2, <1>3, <2>1
  <2> HIDE DEF queue, flight
  <2>5. /\ t \in TcpRec /\ t.flight = flight /\ t.queue = tcp[p].queue /\ t.shut = tcp[p].shut
        /\ t.reset = tcp[p].reset /\ t.err = tcp[p].err
        /\ u \in TcpRec /\ u.flight = tcp[q].flight /\ u.queue = queue /\ u.shut = tcp[q].shut
        /\ u.reset = tcp[q].reset /\ u.err = tcp[q].err
    BY <1>2, <1>4, <2>2 DEF TcpRec
  <2> HIDE DEF t, u
  <2>6. tcp' \in [Peer -> TcpRec] /\ tcp'[p] = t /\ tcp'[q] = u
    BY <1>2, <1>3, <2>4, <2>5
  <2>7. Typed'
    BY <1>1, <1>5, <2>1, <2>6 DEF Typed
  <2>8. Steps(p)' /\ Resets(p)' /\ Flow(p)' /\ Ends(p)'
    <3>1. Steps(p)' /\ Resets(p)'
      BY <1>1, <1>5, <2>1, <2>5, <2>6 DEF Steps, Resets
    <3>2. Flow(p)'
      BY <1>1, <1>5, <2>1, <2>5, <2>6, FlowStays DEF q
    <3>3. (Eof(p) => Eof(p)') /\ (AllRead(p) => AllRead(p)')
      BY <1>3, <1>5, <2>1, <2>5, <2>6 DEF Eof, AllRead, Ended, q
    <3>4. Ends(p)'
      BY <1>1, <1>5, <2>1, <2>5, <2>6, <3>3 DEF Ends
    <3>5. QED
      BY <3>1, <3>2, <3>4
  <2>9. Steps(q)' /\ Resets(q)' /\ Flow(q)' /\ Ends(q)'
    <3>1. Steps(q)' /\ Resets(q)'
      BY <1>4, <1>5, <2>1, <2>5, <2>6 DEF Steps, Resets
    <3>2. Flow(q)'
      BY <1>3, <1>5, <2>1, <2>2, <2>5, <2>6 DEF Flow
    <3>3. AllRead(q) => AllRead(q)'
      BY <1>3, <1>5, <2>1, <2>5, <2>6 DEF AllRead, Ended
    <3>4. Ends(q)'
      BY <1>4, <1>5, <2>1, <2>3, <2>5, <2>6, <3>3 DEF Ends
    <3>5. QED
      BY <3>1, <3>2, <3>4
  <2>10. IInv'
    BY <1>3, <2>7, <2>8, <2>9 DEF IInv
  <2>11. Does(p)
    BY <1>5, <1>6, <2>1 DEF Does, Told
  <2>12. QED
    BY <2>10, <2>11
<1>8. CASE ~io[q].open
  <2>1. /\ tcp' = [tcp EXCEPT ![p].reset = TRUE, ![p].err = TRUE, ![p].flight = <<>>]
        /\ log' = NoteRace(p)
    BY <1>8 DEF Deliver, Reset
  <2> HIDE DEF q
  <2> DEFINE t == [tcp[p] EXCEPT !.reset = TRUE, !.err = TRUE, !.flight = <<>>]
             s == [log[p] EXCEPT !.raced = TRUE]
  <2>2. /\ t \in TcpRec /\ t.flight = <<>> /\ t.queue = tcp[p].queue /\ t.shut = tcp[p].shut
        /\ t.reset = TRUE /\ t.err = TRUE
    <3>1. <<>> \in Seq(Nat)
      OBVIOUS
    <3>2. QED
      BY <1>2, <3>1 DEF TcpRec
  <2>3. /\ s \in LogRec /\ s.sent = log[p].sent /\ s.base = log[p].base /\ s.wans = log[p].wans
        /\ s.rcvd = log[p].rcvd /\ s.rans = log[p].rans /\ s.why = log[p].why
        /\ s.killed = log[p].killed /\ s.raced = TRUE
    BY <1>2 DEF LogRec
  <2>4. tcp' = [tcp EXCEPT ![p] = t]
    BY <1>2, <2>1
  <2>5. log' = IF call[p].at = "send" THEN [log EXCEPT ![p] = s] ELSE log
    BY <1>2, <2>1 DEF NoteRace
  <2> HIDE DEF t, s
  <2>6. tcp' \in [Peer -> TcpRec] /\ tcp'[p] = t /\ tcp'[q] = tcp[q]
    BY <1>2, <1>3, <2>2, <2>4
  <2>7. /\ log' \in [Peer -> LogRec] /\ log'[q] = log[q]
        /\ log'[p].sent = log[p].sent /\ log'[p].base = log[p].base /\ log'[p].wans = log[p].wans
        /\ log'[p].rcvd = log[p].rcvd /\ log'[p].rans = log[p].rans /\ log'[p].why = log[p].why
        /\ log'[p].killed = log[p].killed
        /\ log[p].raced \/ call[p].at = "send" => log'[p].raced
    <3>1. CASE call[p].at = "send"
      BY <1>2, <1>3, <2>3, <2>5, <3>1
    <3>2. CASE call[p].at # "send"
      BY <1>2, <2>5, <3>2
    <3>3. QED
      BY <3>1, <3>2
  <2>8. Typed'
    BY <1>1, <1>5, <2>6, <2>7 DEF Typed
  <2>9. Steps(p)' /\ Resets(p)' /\ Flow(p)' /\ Ends(p)'
    <3>1. Steps(p)' /\ Resets(p)'
      BY <1>1, <1>5, <1>8, <2>2, <2>6, <2>7 DEF Steps, Resets, q
    <3>2. Flow(p)'
      BY <1>1, <1>5, <2>2, <2>6, <2>7, FlowStays DEF q
    <3>3. Ends(p)'
      BY <2>2, <2>6 DEF Ends, Eof, AllRead
    <3>4. QED
      BY <3>1, <3>2, <3>3
  <2>10. Steps(q)' /\ Resets(q)' /\ Flow(q)' /\ Ends(q)'
    <3>1. Steps(q)' /\ Resets(q)'
      BY <1>3, <1>4, <1>5, <1>8, <2>6, <2>7 DEF Steps, Resets
    <3>2. Flow(q)'
      <4>1. ~io'[q].open /\ Len(tcp'[q].queue) <= Cap /\ Len(tcp'[p].flight) <= Cap
        <5>1. Len(<<>>) <= Cap
          OBVIOUS
        <5>2. Len(tcp[q].queue) <= Cap
          BY <1>4 DEF Flow, Ordered
        <5>3. QED
          BY <1>5, <1>8, <2>2, <2>6, <5>1, <5>2
      <4>2. Ordered(log[q].rcvd, tcp'[q].queue, tcp'[p].flight, log[p].sent, io'[q].open, tcp'[q].reset)
        BY <1>3, <1>4, <4>1, OrderCloses DEF Flow
      <4>3. QED
        BY <1>3, <2>7, <4>2 DEF Flow
    <3>3. AllRead(q) => AllRead(q)'
      BY <1>3, <1>5, <2>2, <2>6, <2>7 DEF AllRead, Ended
    <3>4. Ends(q)'
      BY <1>4, <1>5, <1>8, <2>6, <2>7, <3>3 DEF Ends, Steps
    <3>5. QED
      BY <3>1, <3>2, <3>4
  <2>11. IInv'
    BY <1>3, <2>8, <2>9, <2>10 DEF IInv
  <2>12. Does(p)
    BY <1>3, <1>5, <1>6, <2>7 DEF Does, Told
  <2>13. QED
    BY <2>11, <2>12
<1>9. QED
  BY <1>7, <1>8

-----------------------------------------------------------------------------
(* An end closes: what that does to the connection, and to the history. *)
LEMMA HangupIs ==
  ASSUME Typed, NEW p \in Peer, Hangup(p) \/ UNCHANGED tcp
  PROVE  /\ tcp' \in [Peer -> TcpRec]
         /\ \A x \in Peer : tcp'[x].shut = tcp[x].shut
         /\ tcp'[p].reset = tcp[p].reset /\ tcp'[p].err = tcp[p].err
         /\ tcp'[p].queue = tcp[p].queue \/ tcp'[p].queue = <<>>
         /\ \/ tcp'[Other(p)] = tcp[Other(p)] /\ tcp'[p].flight = tcp[p].flight
            \/ /\ tcp[p].queue # <<>> /\ io[Other(p)].open
               /\ tcp'[Other(p)].queue = tcp[Other(p)].queue /\ tcp'[Other(p)].reset
               /\ tcp'[Other(p)].flight = <<>> /\ tcp'[p].flight = <<>>
<1> DEFINE q == Other(p)
<1>1. q \in Peer /\ q # p /\ \A x \in Peer : x = p \/ x = q
  BY Peers
<1>2. /\ tcp \in [Peer -> TcpRec] /\ tcp[p] \in TcpRec /\ tcp[q] \in TcpRec /\ <<>> \in Seq(Nat)
  BY <1>1 DEF Typed
<1>3. CASE UNCHANGED tcp
  BY <1>2, <1>3
<1> DEFINE t == [tcp[p] EXCEPT !.queue = <<>>]
           u == [tcp[q] EXCEPT !.reset = TRUE, !.err = TRUE, !.flight = <<>>]
           v == [tcp[p] EXCEPT !.queue = <<>>, !.flight = <<>>]
<1>4. /\ t \in TcpRec /\ t.flight = tcp[p].flight /\ t.queue = <<>> /\ t.shut = tcp[p].shut
      /\ t.reset = tcp[p].reset /\ t.err = tcp[p].err
  BY <1>2 DEF TcpRec
<1>5. /\ u \in TcpRec /\ u.flight = <<>> /\ u.queue = tcp[q].queue /\ u.shut = tcp[q].shut
      /\ u.reset = TRUE
  BY <1>2 DEF TcpRec
<1>6. /\ v \in TcpRec /\ v.flight = <<>> /\ v.queue = <<>> /\ v.shut = tcp[p].shut
      /\ v.reset = tcp[p].reset /\ v.err = tcp[p].err
  BY <1>2 DEF TcpRec
<1>7. CASE tcp' = [tcp EXCEPT ![p].queue = <<>>]
  <2>1. tcp' = [tcp EXCEPT ![p] = t]
    BY <1>2, <1>7
  <2> HIDE DEF t, q
  <2>2. tcp' \in [Peer -> TcpRec] /\ tcp'[p] = t /\ tcp'[q] = tcp[q]
    BY <1>1, <1>2, <1>4, <2>1
  <2>3. \A x \in Peer : tcp'[x].shut = tcp[x].shut
    BY <1>1, <1>4, <2>2
  <2>4. QED
    BY <1>4, <2>2, <2>3 DEF q
<1>8. CASE /\ tcp[p].queue # <<>> /\ io[q].open
           /\ tcp' = [Reset([tcp EXCEPT ![p].queue = <<>>], q) EXCEPT ![p].flight = <<>>]
  <2> HIDE DEF q
  <2>1. tcp' = [tcp EXCEPT ![p] = v, ![q] = u]
    BY <1>1, <1>2, <1>8 DEF Reset
  <2> HIDE DEF u, v
  <2>2. tcp' \in [Peer -> TcpRec] /\ tcp'[p] = v /\ tcp'[q] = u
    BY <1>1, <1>2, <1>5, <1>6, <2>1
  <2>3. \A x \in Peer : tcp'[x].shut = tcp[x].shut
    BY <1>1, <1>5, <1>6, <2>2
  <2>4. QED
    BY <1>5, <1>6, <1>8, <2>2, <2>3 DEF q
<1>9. QED
  BY <1>3, <1>7, <1>8 DEF Hangup

Warned(p) == IF tcp[p].queue # <<>> /\ io[Other(p)].open THEN NoteRace(Other(p)) ELSE log

LEMMA WarnedIs ==
  ASSUME Typed, NEW p \in Peer
  PROVE  /\ Warned(p) \in [Peer -> LogRec] /\ Warned(p)[p] = log[p]
         /\ Warned(p)[Other(p)].sent = log[Other(p)].sent
         /\ Warned(p)[Other(p)].base = log[Other(p)].base
         /\ Warned(p)[Other(p)].wans = log[Other(p)].wans
         /\ Warned(p)[Other(p)].rcvd = log[Other(p)].rcvd
         /\ Warned(p)[Other(p)].rans = log[Other(p)].rans
         /\ Warned(p)[Other(p)].why = log[Other(p)].why
         /\ Warned(p)[Other(p)].killed = log[Other(p)].killed
         /\ log[Other(p)].raced \/ (/\ tcp[p].queue # <<>> /\ io[Other(p)].open
                                    /\ call[Other(p)].at = "send")
              => Warned(p)[Other(p)].raced
<1> DEFINE q == Other(p)
<1>1. q \in Peer /\ q # p
  BY Peers
<1>2. log \in [Peer -> LogRec] /\ log[q] \in LogRec
  BY <1>1 DEF Typed
<1> DEFINE s == [log[q] EXCEPT !.raced = TRUE]
<1>3. /\ s \in LogRec /\ s.sent = log[q].sent /\ s.base = log[q].base /\ s.wans = log[q].wans
      /\ s.rcvd = log[q].rcvd /\ s.rans = log[q].rans /\ s.why = log[q].why
      /\ s.killed = log[q].killed /\ s.raced = TRUE
  BY <1>2 DEF LogRec
<1> HIDE DEF q
<1>4. CASE tcp[p].queue # <<>> /\ io[q].open /\ call[q].at = "send"
  <2>1. Warned(p) = [log EXCEPT ![q] = s]
    BY <1>2, <1>4 DEF Warned, NoteRace, q
  <2> HIDE DEF s
  <2>2. Warned(p) \in [Peer -> LogRec] /\ Warned(p)[p] = log[p] /\ Warned(p)[q] = s
    BY <1>1, <1>2, <1>3, <2>1
  <2>3. QED
    BY <1>3, <2>2 DEF q
<1>5. CASE ~(tcp[p].queue # <<>> /\ io[q].open /\ call[q].at = "send")
  <2>1. Warned(p) = log
    BY <1>5 DEF Warned, NoteRace, q
  <2>2. QED
    BY <1>2, <1>5, <2>1 DEF q
<1>6. QED
  BY <1>4, <1>5

(* A process closes its end, or ends. *)
LEMMA EndDoes ==
  ASSUME IInv, NEW p \in Peer, p \notin gone, Hangup(p) \/ UNCHANGED tcp,
         io' \in [Peer -> IoRec], ~io'[p].open, io'[Other(p)] = io[Other(p)],
         call' \in [Peer -> CallRec], call'[p].at = "none", call'[Other(p)] = call[Other(p)],
         gone' = gone \cup {p} \/ (gone' = gone /\ call[p].at = "none"),
         log' \in [Peer -> LogRec], log'[Other(p)] = Warned(p)[Other(p)],
         log'[p].sent = log[p].sent, log'[p].base = log[p].base, log'[p].rcvd = log[p].rcvd,
         log'[p].raced = log[p].raced, log'[p].rans = 0, log'[p].wans = 0, log'[p].why = "none",
         log'[p].killed => p \in gone' /\ ("w" \in tcp[p].shut \/ log[p].raced)
  PROVE  IInv' /\ Does(p)
<1> DEFINE q == Other(p)
<1>1. Typed /\ Steps(p) /\ Resets(p) /\ Flow(p)
  BY DEF IInv
<1>2. q \in Peer /\ q # p /\ Other(q) = p /\ \A x \in Peer : x = p \/ x = q
  BY Peers
<1>3. Steps(q) /\ Resets(q) /\ Flow(q) /\ Ends(q)
  BY <1>2 DEF IInv
<1>4. /\ tcp \in [Peer -> TcpRec] /\ log[p] \in LogRec /\ log[q] \in LogRec
      /\ tcp[q] \in TcpRec /\ tcp[p] \in TcpRec
  BY <1>1, <1>2 DEF Typed
<1>5. /\ tcp' \in [Peer -> TcpRec]
      /\ \A x \in Peer : tcp'[x].shut = tcp[x].shut
      /\ tcp'[p].reset = tcp[p].reset /\ tcp'[p].err = tcp[p].err
      /\ tcp'[p].queue = tcp[p].queue \/ tcp'[p].queue = <<>>
      /\ \/ tcp'[q] = tcp[q] /\ tcp'[p].flight = tcp[p].flight
         \/ /\ tcp[p].queue # <<>> /\ io[q].open
            /\ tcp'[q].queue = tcp[q].queue /\ tcp'[q].reset
            /\ tcp'[q].flight = <<>> /\ tcp'[p].flight = <<>>
  BY <1>1, HangupIs
<1>6. /\ log'[q].sent = log[q].sent /\ log'[q].base = log[q].base /\ log'[q].wans = log[q].wans
      /\ log'[q].rcvd = log[q].rcvd /\ log'[q].rans = log[q].rans /\ log'[q].why = log[q].why
      /\ log'[q].killed = log[q].killed
      /\ log[q].raced \/ (tcp[p].queue # <<>> /\ io[q].open /\ call[q].at = "send") => log'[q].raced
  BY <1>1, WarnedIs
<1>7. /\ gone' \subseteq Peer /\ (q \in gone' <=> q \in gone) /\ (p \notin gone' => call[p].at = "none")
  BY <1>1, <1>2 DEF Typed
<1> HIDE DEF q
<1>8. Typed'
  BY <1>5, <1>7 DEF Typed
<1>9. Len(<<>>) <= Cap
  OBVIOUS
<1>10. Steps(p)' /\ Resets(p)' /\ Flow(p)' /\ Ends(p)'
  <2>1. Steps(p)'
    BY <1>1, <1>7 DEF Steps
  <2>2. Resets(p)'
    BY <1>1, <1>2, <1>5 DEF Resets, q
  <2>3. Flow(p)'
    <3>1. Len(tcp'[p].queue) <= Cap /\ Len(tcp'[q].flight) <= Cap
      BY <1>1, <1>5, <1>9 DEF Flow, Ordered, q
    <3>2. Ordered(log[p].rcvd, tcp'[p].queue, tcp'[q].flight, log[q].sent, io'[p].open, tcp'[p].reset)
      BY <1>1, <3>1, OrderCloses DEF Flow, q
    <3>3. QED
      BY <1>6, <3>2 DEF Flow, q
  <2>4. Ends(p)'
    BY DEF Ends
  <2>5. QED
    BY <2>1, <2>2, <2>3, <2>4
<1>11. Steps(q)'
  BY <1>3, <1>6, <1>7 DEF Steps, q
<1>12. Ended(p)'
  BY DEF Ended
<1>13. ASSUME tcp'[q] = tcp[q] /\ tcp'[p].flight = tcp[p].flight
       PROVE  Resets(q)' /\ Flow(q)' /\ Ends(q)'
  <2>1. Resets(q)'
    BY <1>2, <1>3, <1>6, <1>7, <1>13 DEF Resets, q
  <2>2. Flow(q)'
    BY <1>2, <1>3, <1>6, <1>13, FlowStays DEF q
  <2>3. (Eof(q) => Eof(q)') /\ (AllRead(q) => AllRead(q)')
    BY <1>2, <1>6, <1>12, <1>13 DEF Eof, AllRead
  <2>4. Ends(q)'
    BY <1>3, <1>6, <1>13, <2>3 DEF Ends, q
  <2>5. QED
    BY <2>1, <2>2, <2>4
<1>14. ASSUME /\ tcp[p].queue # <<>> /\ io[q].open
              /\ tcp'[q].queue = tcp[q].queue /\ tcp'[q].reset
              /\ tcp'[q].flight = <<>> /\ tcp'[p].flight = <<>>
       PROVE  Resets(q)' /\ Flow(q)' /\ Ends(q)'
  <2>1. Resets(q)'
    BY <1>2, <1>3, <1>5, <1>6, <1>7, <1>14 DEF Resets, q
  <2>2. Flow(q)'
    <3> DEFINE had == log[q].rcvd
               queue == tcp[q].queue
               flight == tcp[p].flight
               sent == log[p].sent
               open == io[q].open
               lost == tcp[q].reset
               lost2 == tcp'[q].reset
    <3>1. /\ had \in Seq(Nat) /\ queue \in Seq(Nat) /\ flight \in Seq(Nat) /\ sent \in Nat
          /\ Ordered(had, queue, flight, sent, open, lost) /\ lost2
      BY <1>2, <1>3, <1>4, <1>14 DEF LogRec, TcpRec, Flow
    <3> HIDE DEF had, queue, flight, sent, open, lost, lost2
    <3>2. Ordered(had, queue, <<>>, sent, open, lost2)
      BY <3>1, OrderLoses
    <3>3. QED
      BY <1>2, <1>6, <1>14, <3>2 DEF Flow, q, had, queue, flight, sent, open, lost2
  <2>3. Ends(q)'
    BY <1>14 DEF Ends, Eof, AllRead
  <2>4. QED
    BY <2>1, <2>2, <2>3
<1>15. IInv'
  BY <1>2, <1>5, <1>8, <1>10, <1>11, <1>13, <1>14 DEF IInv
<1>16. Told(p)
  <2>1. log[p].sent \in Nat /\ Len(log[p].rcvd) \in Nat
    BY <1>4, LenProperties DEF LogRec
  <2>2. \/ log'[p].base = log[p].base /\ log'[p].wans = log[p].wans
        \/ log'[p].base = log'[p].sent
    BY <1>1 DEF Steps
  <2>3. Len(log'[p].rcvd) = Len(log[p].rcvd) + (IF log'[p].rans > 0 THEN log'[p].rans ELSE 0)
    BY <2>1
  <2>4. ~(call[p].at \in {"wpoll", "send"} /\ p \notin gone')
    BY <1>7
  <2>5. log[p].sent <= log'[p].sent /\ ~(log'[p].wans > 0)
    BY <2>1
  <2>6. QED
    BY <2>2, <2>3, <2>4, <2>5 DEF Told
<1>17. Does(p)
  BY <1>2, <1>6, <1>16 DEF Does, q
<1>18. QED
  BY <1>15, <1>17

LEMMA EndShut ==
  ASSUME Typed, NEW p \in Peer, io' = [io EXCEPT ![p].open = FALSE]
  PROVE  io' \in [Peer -> IoRec] /\ ~io'[p].open /\ \A x \in Peer \ {p} : io'[x] = io[x]
<1> DEFINE s == [io[p] EXCEPT !.open = FALSE]
<1>1. io \in [Peer -> IoRec] /\ io[p] \in IoRec
  BY DEF Typed
<1>2. s \in IoRec /\ s.open = FALSE
  BY <1>1 DEF IoRec
<1>3. io' = [io EXCEPT ![p] = s]
  BY <1>1
<1> HIDE DEF s
<1>4. QED
  BY <1>1, <1>2, <1>3

LEMMA CloseDoes ==
  ASSUME IInv, NEW p \in Peer, Close(p)
  PROVE  IInv' /\ Does(p)
<1>1. Typed
  BY DEF IInv
<1>2. Other(p) \in Peer /\ Other(p) # p
  BY Peers
<1>3. /\ Warned(p) \in [Peer -> LogRec] /\ Warned(p)[p] = log[p]
  BY <1>1, WarnedIs
<1>4. /\ p \notin gone /\ call[p].at = "none" /\ Hangup(p) /\ UNCHANGED <<call, gone>>
      /\ io' = [io EXCEPT ![p].open = FALSE] /\ log' = Forget(Warned(p), p)
  BY DEF Close, Idle, Warned
<1>5. /\ log' \in [Peer -> LogRec] /\ log'[Other(p)] = Warned(p)[Other(p)]
      /\ log'[p].sent = log[p].sent /\ log'[p].base = log[p].base /\ log'[p].rcvd = log[p].rcvd
      /\ log'[p].killed = log[p].killed /\ log'[p].raced = log[p].raced
      /\ log'[p].rans = 0 /\ log'[p].wans = 0 /\ log'[p].why = "none"
  <2> DEFINE lg == Warned(p)
  <2>1. lg \in [Peer -> LogRec] /\ lg[p] = log[p] /\ log' = Forget(lg, p)
    BY <1>3, <1>4
  <2> HIDE DEF lg
  <2>2. /\ log' \in [Peer -> LogRec] /\ log'[Other(p)] = lg[Other(p)]
        /\ log'[p].sent = log[p].sent /\ log'[p].base = log[p].base /\ log'[p].rcvd = log[p].rcvd
        /\ log'[p].killed = log[p].killed /\ log'[p].raced = log[p].raced
        /\ log'[p].rans = 0 /\ log'[p].wans = 0 /\ log'[p].why = "none"
    BY <1>2, <2>1, Forgotten
  <2>3. QED
    BY <2>2 DEF lg
<1>6. /\ io' \in [Peer -> IoRec] /\ ~io'[p].open /\ io'[Other(p)] = io[Other(p)]
      /\ call' \in [Peer -> CallRec]
  <2>1. io' \in [Peer -> IoRec] /\ ~io'[p].open /\ \A x \in Peer \ {p} : io'[x] = io[x]
    BY <1>1, <1>4, EndShut
  <2>2. QED
    BY <1>1, <1>2, <1>4, <2>1 DEF Typed
<1>7. log[p].killed => p \in gone
  BY DEF IInv, Resets
<1>8. QED
  BY <1>4, <1>5, <1>6, <1>7, EndDoes

LEMMA ExitDoes ==
  ASSUME IInv, NEW p \in Peer, p \notin gone, NEW killed \in BOOLEAN, Exit(p, killed),
         killed => "w" \in tcp[p].shut \/ log[p].raced
  PROVE  IInv' /\ Does(p)
<1>1. Typed
  BY DEF IInv
<1>2. Other(p) \in Peer /\ Other(p) # p
  BY Peers
<1>3. /\ Warned(p) \in [Peer -> LogRec] /\ Warned(p)[p] = log[p]
  BY <1>1, WarnedIs
<1>4. /\ gone' = gone \cup {p} /\ io' = [io EXCEPT ![p].open = FALSE]
      /\ Hangup(p) \/ UNCHANGED tcp
      /\ call' = [call EXCEPT ![p] = NoCall]
      /\ log' = [Forget(Warned(p), p) EXCEPT ![p].killed = killed]
  BY DEF Exit, Warned
<1>5. /\ log' \in [Peer -> LogRec] /\ log'[Other(p)] = Warned(p)[Other(p)]
      /\ log'[p].sent = log[p].sent /\ log'[p].base = log[p].base /\ log'[p].rcvd = log[p].rcvd
      /\ log'[p].killed = killed /\ log'[p].raced = log[p].raced
      /\ log'[p].rans = 0 /\ log'[p].wans = 0 /\ log'[p].why = "none"
  <2> DEFINE lg == Warned(p)
             f == Forget(lg, p)
             s == [f[p] EXCEPT !.killed = killed]
  <2>1. lg \in [Peer -> LogRec] /\ lg[p] = log[p] /\ log' = [f EXCEPT ![p].killed = killed]
    BY <1>3, <1>4
  <2> HIDE DEF lg
  <2>2. /\ f \in [Peer -> LogRec] /\ f[Other(p)] = lg[Other(p)]
        /\ f[p].sent = log[p].sent /\ f[p].base = log[p].base /\ f[p].rcvd = log[p].rcvd
        /\ f[p].raced = log[p].raced
        /\ f[p].rans = 0 /\ f[p].wans = 0 /\ f[p].why = "none"
    BY <1>2, <2>1, Forgotten
  <2> HIDE DEF f
  <2>3. /\ s \in LogRec /\ s.sent = f[p].sent /\ s.base = f[p].base /\ s.rcvd = f[p].rcvd
        /\ s.raced = f[p].raced /\ s.rans = f[p].rans /\ s.wans = f[p].wans /\ s.why = f[p].why
        /\ s.killed = killed
    <3>1. f[p] \in LogRec
      BY <2>2
    <3>2. QED
      BY <3>1 DEF LogRec
  <2>4. log' = [f EXCEPT ![p] = s]
    BY <2>1, <2>2
  <2> HIDE DEF s
  <2>5. log' \in [Peer -> LogRec] /\ log'[p] = s /\ log'[Other(p)] = f[Other(p)]
    BY <1>2, <2>2, <2>3, <2>4
  <2>6. QED
    BY <2>2, <2>3, <2>5 DEF lg
<1>6. /\ io' \in [Peer -> IoRec] /\ ~io'[p].open /\ io'[Other(p)] = io[Other(p)]
  <2>1. io' \in [Peer -> IoRec] /\ ~io'[p].open /\ \A x \in Peer \ {p} : io'[x] = io[x]
    BY <1>1, <1>4, EndShut
  <2>2. QED
    BY <1>2, <2>1
<1>7. /\ call' \in [Peer -> CallRec] /\ call'[p].at = "none" /\ call'[Other(p)] = call[Other(p)]
  <2>1. NoCall \in CallRec /\ NoCall.at = "none"
    BY DEF NoCall, CallRec
  <2>2. QED
    BY <1>1, <1>2, <1>4, <2>1 DEF Typed
<1>8. p \in gone'
  BY <1>4
<1>9. QED
  BY <1>4, <1>5, <1>6, <1>7, <1>8, EndDoes

(* A send: bytes, a failure, or the end of the process. *)
LEMMA SendDoes ==
  ASSUME IInv, NEW p \in Peer, Send(p)
  PROVE  IInv' /\ Does(p)
<1> DEFINE broken == tcp[p].reset \/ "w" \in tcp[p].shut
           k == IF Space(p) < call[p].left THEN Space(p) ELSE call[p].left
<1>1. Typed /\ Steps(p) /\ Resets(p) /\ call[p].at = "send" /\ p \notin gone
  BY DEF IInv, Send, Steps
<1>2. CASE ~broken /\ k > 0 /\ SendBytes(p, k)
  <2>1. Len(tcp[p].flight) \in Nat /\ call[p].left \in Nat
    BY <1>1, LenProperties DEF Typed, TcpRec, CallRec
  <2>2. k \in Nat /\ k <= Space(p) /\ k <= call[p].left
    BY <1>2, <2>1 DEF Space
  <2> HIDE DEF k
  <2>3. QED
    BY <1>1, <1>2, <2>2, SendBytesDoes
<1>3. CASE Goto(p, "wpoll") /\ UNCHANGED <<io, tcp, gone, log>>
  BY <1>1, <1>3, GoesOn
<1>4. CASE WriteReturns(p, -1, log) /\ tcp' = [tcp EXCEPT ![p].err = FALSE]
  <2>1. Quiet
    BY <1>1, <1>4, ErrorIsQuiet
  <2>2. \E a \in {-1, 0} : WriteReturns(p, a, log)
    BY <1>4
  <2>3. QED
    BY <1>1, <2>1, <2>2, WriteRefused
<1>5. CASE broken /\ Exit(p, TRUE)
  <2>1. "w" \in tcp[p].shut \/ log[p].raced
    BY <1>1, <1>5 DEF Resets
  <2>2. QED
    BY <1>1, <1>5, <2>1, ExitDoes
<1>6. QED
  BY <1>2, <1>3, <1>4, <1>5 DEF Send

LEMMA NextDoes ==
  ASSUME IInv, Next
  PROVE  IInv' /\ \E p \in Peer : Does(p)
<1>1. PICK p \in Peer :
        \/ Own(p) \/ Interrupt(p) \/ Deliver(p) \/ Close(p) \/ Crash(p)
        \/ \E n \in 1 .. MaxAsk : Read(p, n) \/ Write(p, n)
        \/ \E how \in {{"r"}, {"w"}, {"r", "w"}} : Shutdown(p, how)
  BY DEF Next
<1>2. SUFFICES IInv' /\ Does(p)
  OBVIOUS
<1>3. CASE Own(p)
  BY <1>3, RpollDoes, RecvDoes, WpollDoes, SendDoes DEF Own
<1>4. CASE Interrupt(p)
  BY <1>4, InterruptDoes
<1>5. CASE Deliver(p)
  BY <1>5, DeliverDoes
<1>6. CASE Close(p)
  BY <1>6, CloseDoes
<1>7. CASE Crash(p)
  BY <1>7, ExitDoes DEF Crash
<1>8. CASE \E n \in 1 .. MaxAsk : Read(p, n) \/ Write(p, n)
  BY <1>8, CallDoes
<1>9. ASSUME NEW how \in {{"r"}, {"w"}, {"r", "w"}}, Shutdown(p, how)
      PROVE  IInv' /\ Does(p)
  <2>1. how \in SUBSET {"r", "w"}
    OBVIOUS
  <2>2. QED
    BY <1>9, <2>1, ShutdownDoes
<1>10. QED
  BY <1>1, <1>3, <1>4, <1>5, <1>6, <1>7, <1>8, <1>9

(* A step of nobody. *)
LEMMA StutterPreserves ==
  ASSUME IInv, UNCHANGED vars
  PROVE  IInv'
BY DEF IInv, vars, Typed, Steps, Resets, Flow, Ends, AllRead, Eof, Ended

LEMMA AlwaysIInv == Spec => []IInv
<1>1. IInv /\ [Next]_vars => IInv'
  BY NextDoes, StutterPreserves
<1>2. QED
  BY <1>1, InitInv, PTL DEF Spec

-----------------------------------------------------------------------------
(* A reader that is told of the end of the stream has got every byte that  *)
(* was sent, unless there was a reset or its own shutdown (:43, :71-78).   *)
THEOREM EndIsTheEnd == Spec => []EndAfterAllBytes
<1>1. ASSUME IInv
      PROVE  EndAfterAllBytes
  <2>1. Typed /\ \A x \in Peer : Steps(x) /\ Resets(x) /\ Flow(x) /\ Ends(x)
    BY <1>1 DEF IInv
  <2>2. ASSUME NEW p \in Peer
        PROVE  /\ Len(tcp[p].flight) <= Cap /\ Len(tcp[p].queue) <= Cap
               /\ tcp[p].shut \subseteq {"r", "w"}
               /\ tcp[p].err => tcp[p].reset
               /\ log[p].sent \in 0 .. MaxBytes[p] /\ log[p].base \in 0 .. log[p].sent
               /\ log[p].rans \in -1 .. MaxAsk /\ log[p].wans \in -1 .. MaxAsk
               /\ log[p].why \in {"none", "timeout", "hangup", "signal"}
    <3>1. Other(p) \in Peer /\ Other(Other(p)) = p /\ MaxBytes[p] \in Nat
      BY Peers
    <3>2. Flow(p) /\ Flow(Other(p)) /\ Steps(p) /\ Resets(p)
      BY <2>1, <3>1
    <3>3. Len(tcp[p].flight) <= Cap /\ Len(tcp[p].queue) <= Cap
      BY <3>1, <3>2 DEF Flow, Ordered
    <3>4. log[p] \in LogRec /\ tcp[p] \in TcpRec
      BY <2>1 DEF Typed
    <3>5. log[p].sent \in Nat /\ log[p].base \in Nat
      BY <3>4 DEF LogRec
    <3>6. log[p].sent \in 0 .. MaxBytes[p] /\ log[p].base \in 0 .. log[p].sent
      BY <3>1, <3>2, <3>5 DEF Steps
    <3>7. tcp[p].shut \subseteq {"r", "w"} /\ (tcp[p].err => tcp[p].reset)
      BY <3>2, <3>4 DEF TcpRec, Resets
    <3>8. /\ log[p].rans \in -1 .. MaxAsk /\ log[p].wans \in -1 .. MaxAsk
          /\ log[p].why \in {"none", "timeout", "hangup", "signal"}
      BY <3>4 DEF LogRec
    <3>9. QED
      BY <3>3, <3>6, <3>7, <3>8
  <2>3. TypeOK
    BY <2>1, <2>2 DEF TypeOK, Typed, IoRec, CallRec
  <2>4. QED
    BY <2>1, <2>3 DEF EndAfterAllBytes, Ends, AllRead
<1>2. QED
  BY <1>1, AlwaysIInv, PTL

(* SIGPIPE ends a process only if a reset came between the poll and the    *)
(* send, or if it has shut down its own direction (:64, :104).             *)
THEOREM OnlyRacesKill == Spec => []KilledByRaceOnly
<1>1. IInv => KilledByRaceOnly
  BY DEF IInv, Resets, KilledByRaceOnly
<1>2. QED
  BY <1>1, AlwaysIInv, PTL

(* A write is answered with its length when all of its bytes were sent,    *)
(* and with 0 or -1 when some were not (:95-113).                          *)
THEOREM WritesAnswerInFull == Spec => AllOrRefused
<1>1. ASSUME IInv, [Next]_vars
      PROVE  [\A p \in Peer :
                call[p].at \in {"wpoll", "send"} /\ call'[p].at = "none" /\ p \notin gone' =>
                  IF log'[p].wans > 0 THEN log'[p].sent - log[p].base = call[p].len
                  ELSE log'[p].sent - log[p].base < call[p].len]_vars
  <2>1. SUFFICES ASSUME Next, NEW x \in Peer, call[x].at \in {"wpoll", "send"},
                        call'[x].at = "none", x \notin gone'
                 PROVE  IF log'[x].wans > 0 THEN log'[x].sent - log[x].base = call[x].len
                        ELSE log'[x].sent - log[x].base < call[x].len
    BY <1>1
  <2>2. PICK p \in Peer : Does(p)
    BY <1>1, <2>1, NextDoes
  <2>3. x = p
    <3>1. call[x].at # "none"
      BY <2>1
    <3>2. QED
      BY <2>1, <2>2, <3>1 DEF Does
  <2>4. QED
    BY <2>1, <2>2, <2>3 DEF Does, Told
<1>2. QED
  BY <1>1, AlwaysIInv, PTL DEF Spec, AllOrRefused

-----------------------------------------------------------------------------
(* Both directions are byte streams. *)
LEMMA TakenIs ==
  ASSUME NEW n \in Nat
  PROVE  /\ [m \in 1 .. n |-> m] \in Seq(Nat) /\ Len([m \in 1 .. n |-> m]) = n
         /\ \A i \in 1 .. n : [m \in 1 .. n |-> m][i] = i
<1> DEFINE f == [m \in 1 .. n |-> m]
<1>1. f \in [1 .. n -> Nat] /\ \A i \in 1 .. n : f[i] = i
  OBVIOUS
<1> HIDE DEF f
<1>2. f \in Seq(Nat) /\ Len(f) = n
  BY <1>1, ArrayIsSeq
<1>3. QED
  BY <1>1, <1>2 DEF f

(* A sequence that counts is the beginning of a longer one. *)
LEMMA CountsArePrefixes ==
  ASSUME NEW s \in Seq(Nat), NEW t \in Seq(Nat), Len(s) <= Len(t),
         \A i \in 1 .. Len(s) : s[i] = i, \A i \in 1 .. Len(t) : t[i] = i
  PROVE  IsPrefix(s, t)
<1>1. Len(s) \in Nat /\ Len(t) \in Nat
  BY LenProperties
<1>2. \A i \in 1 .. Len(s) : s[i] = t[i]
  BY <1>1
<1>3. QED
  BY <1>2, PrefixIs DEF IsPrefix

(* What a step does to the bytes from v to the other process: nothing,     *)
(* more are taken from v, or more are given to the other.                  *)
Streaming(v) ==
  \/ /\ Taken(v)' = Taken(v) /\ log'[v].base = log[v].base /\ log'[v].wans = log[v].wans
     /\ log'[Other(v)].rcvd = log[Other(v)].rcvd /\ log'[Other(v)].rans = log[Other(v)].rans
  \/ /\ IsPrefix(Taken(v), Taken(v)')
     /\ log'[Other(v)].rcvd = log[Other(v)].rcvd
     /\ \/ log'[v].base = log[v].base /\ log'[v].wans = log[v].wans
        \/ /\ log'[v].base = Len(Taken(v)')
           /\ log'[v].wans > 0 => log'[v].wans = Len(Taken(v)') - log[v].base
  \/ /\ IsPrefix(log[Other(v)].rcvd, log'[Other(v)].rcvd)
     /\ IsPrefix(log'[Other(v)].rcvd, Taken(v))
     /\ Len(log'[Other(v)].rcvd)
          = Len(log[Other(v)].rcvd) + (IF log'[Other(v)].rans > 0 THEN log'[Other(v)].rans ELSE 0)
     /\ Taken(v)' = Taken(v) /\ log'[v].base = log[v].base

LEMMA StepStreams ==
  ASSUME IInv, IInv', NEW v \in Peer, NEW p \in Peer, Does(p)
  PROVE  Streaming(v)
<1> DEFINE u == Other(v)
           all == Taken(v)
           all2 == Taken(v)'
           had == log[u].rcvd
           had2 == log'[u].rcvd
<1>1. u \in Peer /\ u # v /\ Other(u) = v /\ \A x \in Peer : x = v \/ x = u
  BY Peers
<1>2. Typed /\ Typed' /\ Flow(u) /\ Flow(u)'
  BY <1>1 DEF IInv
<1>3. /\ log[v] \in LogRec /\ log[u] \in LogRec /\ log'[v] \in LogRec /\ log'[u] \in LogRec
  BY <1>1, <1>2 DEF Typed
<1>4. log[v].sent \in Nat /\ log'[v].sent \in Nat /\ had \in Seq(Nat) /\ had2 \in Seq(Nat)
  BY <1>3 DEF LogRec
<1>5. /\ all \in Seq(Nat) /\ Len(all) = log[v].sent /\ \A i \in 1 .. Len(all) : all[i] = i
      /\ all2 \in Seq(Nat) /\ Len(all2) = log'[v].sent /\ \A i \in 1 .. Len(all2) : all2[i] = i
  BY <1>4, TakenIs DEF Taken
<1>6. /\ Len(had) <= log[v].sent /\ \A i \in 1 .. Len(had) : had[i] = i
      /\ Len(had2) <= log'[v].sent /\ \A i \in 1 .. Len(had2) : had2[i] = i
  BY <1>1, <1>2 DEF Flow, Ordered
<1>7. log'[v].sent = log[v].sent => all2 = all
  BY DEF Taken
<1> HIDE DEF all, all2, had, had2, u
<1>8. CASE p = v
  <2>1. /\ had2 = had /\ log'[u].rans = log[u].rans
        /\ log[v].sent <= log'[v].sent
        /\ \/ log'[v].base = log[v].base /\ log'[v].wans = log[v].wans
           \/ /\ log'[v].base = log'[v].sent
              /\ log'[v].wans > 0 => log'[v].wans = log'[v].sent - log[v].base
    BY <1>1, <1>8 DEF Does, Told, had, had2
  <2>2. IsPrefix(all, all2)
    BY <1>5, <2>1, CountsArePrefixes
  <2>3. QED
    BY <1>5, <2>1, <2>2 DEF Streaming, all, all2, had, had2, u
<1>9. CASE p = u
  <2>1. /\ log'[v].sent = log[v].sent /\ log'[v].base = log[v].base /\ log'[v].wans = log[v].wans
        /\ \/ had2 = had /\ log'[u].rans = log[u].rans
           \/ Len(had2) = Len(had) + (IF log'[u].rans > 0 THEN log'[u].rans ELSE 0)
    BY <1>1, <1>9 DEF Does, Told, had, had2
  <2>2. all2 = all
    BY <1>7, <2>1
  <2>3. CASE had2 = had /\ log'[u].rans = log[u].rans
    BY <2>1, <2>2, <2>3 DEF Streaming, all, all2, had, had2, u
  <2>4. CASE Len(had2) = Len(had) + (IF log'[u].rans > 0 THEN log'[u].rans ELSE 0)
    <3>1. Len(had) <= Len(had2)
      <4>1. log'[u].rans \in Int /\ Len(had) \in Nat
        BY <1>3, <1>4, LenProperties DEF LogRec
      <4>2. QED
        BY <2>4, <4>1
    <3>2. IsPrefix(had, had2)
      BY <1>4, <1>6, <3>1, CountsArePrefixes
    <3>3. IsPrefix(had2, all)
      BY <1>4, <1>5, <1>6, <2>1, CountsArePrefixes
    <3>4. QED
      BY <2>1, <2>2, <2>4, <3>2, <3>3 DEF Streaming, all, all2, had, had2, u
  <2>5. QED
    BY <2>1, <2>3, <2>4
<1>10. QED
  BY <1>1, <1>8, <1>9

LEMMA NobodyStreams ==
  ASSUME UNCHANGED vars, NEW v \in Peer
  PROVE  Streaming(v)
BY DEF vars, Streaming, Taken

(* In each direction the connection implements the byte stream (:26-113):  *)
(* what is received is what was sent, in order and once, though a write    *)
(* may be several sends with polls between them.                           *)
THEOREM ConnectionStreams == Spec => Streams
<1>1. First \in Peer /\ Second \in Peer /\ Other(First) = Second /\ Other(Second) = First
  <2>1. First \in Peer
    BY DEF First
  <2>2. QED
    BY <2>1, Peers DEF Second
<1>2. Init => Forth!Init /\ Back!Init
  <2>1. ASSUME Init
        PROVE  /\ log[First].sent = 0 /\ log[First].base = 0 /\ log[First].rcvd = <<>>
               /\ log[Second].sent = 0 /\ log[Second].base = 0 /\ log[Second].rcvd = <<>>
    BY <1>1, <2>1 DEF Init
  <2>2. [m \in 1 .. 0 |-> m] = <<>>
    BY TakenIs, EmptySeq
  <2>3. QED
    BY <2>1, <2>2 DEF Forth!Init, Back!Init, Taken
<1>3. ASSUME IInv, IInv', [Next]_vars
      PROVE  /\ [Forth!Next]_<<Taken(First), log[Second].rcvd, log[First].base,
                               log[First].wans, log[Second].rans>>
             /\ [Back!Next]_<<Taken(Second), log[First].rcvd, log[Second].base,
                              log[Second].wans, log[First].rans>>
  <2>1. Streaming(First) /\ Streaming(Second)
    <3>1. CASE Next
      BY <1>1, <1>3, <3>1, NextDoes, StepStreams
    <3>2. CASE UNCHANGED vars
      BY <1>1, <3>2, NobodyStreams
    <3>3. QED
      BY <1>3, <3>1, <3>2
  <2>2. [Forth!Next]_<<Taken(First), log[Second].rcvd, log[First].base,
                       log[First].wans, log[Second].rans>>
    BY <1>1, <2>1 DEF Streaming, Forth!Next, Forth!Write, Forth!Read, Forth!IsPrefix, IsPrefix
  <2>3. [Back!Next]_<<Taken(Second), log[First].rcvd, log[Second].base,
                      log[Second].wans, log[First].rans>>
    BY <1>1, <2>1 DEF Streaming, Back!Next, Back!Write, Back!Read, Back!IsPrefix, IsPrefix
  <2>4. QED
    BY <2>2, <2>3
<1>4. QED
  BY <1>2, <1>3, AlwaysIInv, PTL DEF Spec, Streams, Forth!Spec, Back!Spec

-----------------------------------------------------------------------------
(* The memory stream stays inside a buffer of any length, keeps what was   *)
(* written, and hands it on in order, whatever is read, written and        *)
(* positioned.                                                             *)
(*                                                                         *)
(* None of the three properties is inductive alone: the subtraction does   *)
(* not wrap because the cursors stay inside, and what a read hands on is   *)
(* what was written only because, as long as no cursor is set, each cursor *)
(* is where the bytes read and written so far have brought it.             *)

(* What was written lies before the write cursor, byte by byte.            *)
Stored ==
  /\ Len(put) <= w
  /\ \A i \in 1 .. Len(put) : put[i] = buf[w - Len(put) + i]

(* As long as no cursor was set, the cursors tell how much was written and *)
(* read, and what was read is what lies before the read cursor.            *)
InStep ==
  piped => /\ Len(put) = w /\ Len(got) = r /\ r <= w
           /\ \A i \in 1 .. r : got[i] = buf[i]

MemInv == MemTypeOK /\ ~overrun /\ Stored /\ InStep

USE IoMemAssumption

-----------------------------------------------------------------------------
(* The room behind a cursor inside the buffer is what it seems to be, so   *)
(* that what fits ends at the end of the buffer (:22-25, :43-45).          *)
LEMMA SmallRemainder == \A x, m \in Nat : x < m => x % m = x
OBVIOUS

LEMMA RoomIs ==
  ASSUME NEW pos \in 0 .. BufLen
  PROVE  Room(pos) = BufLen - pos
BY SmallRemainder DEF Room

LEMMA FittingIs ==
  ASSUME NEW pos \in 0 .. BufLen, NEW n \in Nat
  PROVE  Fitting(pos, n) \in Nat /\ Fitting(pos, n) <= n /\ pos + Fitting(pos, n) <= BufLen
BY RoomIs DEF Fitting

-----------------------------------------------------------------------------
LEMMA MemInitInv == MemInit => MemInv
<1> SUFFICES ASSUME MemInit
             PROVE  MemInv
  OBVIOUS
<1>1. put = <<>> /\ got = <<>> /\ Len(put) = 0 /\ Len(got) = 0 /\ r = 0 /\ w = 0
  BY DEF MemInit
<1>2. put \in Seq(Byte) /\ got \in Seq(Byte)
  BY <1>1, EmptySeq
<1>3. MemTypeOK
  <2>1. buf \in [1 .. BufLen -> Byte] /\ overrun \in BOOLEAN /\ piped \in BOOLEAN
    BY DEF MemInit
  <2>2. r \in 0 .. BufLen /\ w \in 0 .. BufLen /\ ans \in -1 .. BufLen
    BY <1>1 DEF MemInit
  <2>3. QED
    BY <1>2, <2>1, <2>2 DEF MemTypeOK
<1>4. Stored /\ InStep
  BY <1>1 DEF Stored, InStep
<1>5. QED
  BY <1>3, <1>4 DEF MemInv, MemInit

LEMMA RefusePreserves == MemInv /\ Refuse => MemInv'
BY DEF MemInv, MemTypeOK, Stored, InStep, Refuse

(* cosmic_io_mem_read *)
LEMMA FetchPreserves ==
  ASSUME MemInv, NEW k \in Nat, r + k <= BufLen, Fetch(r, k)
  PROVE  MemInv'
<1>1. CASE Room(r) = 0
  BY <1>1, RefusePreserves DEF Fetch
<1>2. CASE Room(r) # 0
  <2> DEFINE more == [i \in 1 .. k |-> At(r + i)]
  <2>1. /\ r' = r + k /\ got' = got \o more /\ ans' = k
        /\ piped' = (piped /\ r' <= w) /\ UNCHANGED <<buf, w, put, overrun>>
    BY <1>2 DEF Fetch
  <2>2. \A i \in 1 .. k : r + i \in 1 .. BufLen /\ At(r + i) = buf[r + i]
    BY DEF MemInv, MemTypeOK, At
  <2>3. more \in Seq(Byte) /\ Len(more) = k /\ \A i \in 1 .. k : more[i] = buf[r + i]
    <3>1. more \in [1 .. k -> Byte] /\ \A i \in 1 .. k : more[i] = buf[r + i]
      BY <2>2 DEF MemInv, MemTypeOK
    <3> HIDE DEF more
    <3>2. QED
      BY <3>1, ArrayIsSeq
  <2>4. got \in Seq(Byte)
    BY DEF MemInv, MemTypeOK
  <2>5. /\ got' \in Seq(Byte) /\ Len(got') = Len(got) + k
        /\ \A i \in 1 .. Len(got) : got'[i] = got[i]
        /\ \A i \in 1 .. k : got'[Len(got) + i] = more[i]
    <3> HIDE DEF more
    <3>1. /\ got \o more \in Seq(Byte) /\ Len(got \o more) = Len(got) + Len(more)
          /\ \A i \in 1 .. Len(got) + Len(more) :
               (got \o more)[i] = IF i <= Len(got) THEN got[i] ELSE more[i - Len(got)]
      BY <2>3, <2>4, ConcatProperties
    <3>2. Len(got) \in Nat
      BY <2>4, LenProperties
    <3>3. QED
      BY <2>1, <2>3, <3>1, <3>2
  <2>6. MemTypeOK'
    BY <2>1, <2>5 DEF MemInv, MemTypeOK
  <2>7. Stored'
    BY <2>1 DEF MemInv, Stored
  <2>8. InStep'
    <3>1. SUFFICES ASSUME piped' PROVE InStep'
      BY DEF InStep
    <3>2. piped /\ r' <= w /\ Len(got) = r /\ Len(put) = w
      BY <2>1, <3>1 DEF MemInv, MemTypeOK, InStep
    <3>3. ASSUME NEW i \in 1 .. r'
          PROVE  got'[i] = buf'[i]
      <4>1. CASE i \in 1 .. r
        BY <2>1, <2>5, <3>2, <4>1 DEF MemInv, InStep
      <4>2. CASE i \notin 1 .. r
        <5>1. i - r \in 1 .. k /\ i = r + (i - r)
          BY <2>1, <4>2 DEF MemInv, MemTypeOK
        <5> HIDE DEF more
        <5>2. QED
          BY <2>1, <2>3, <2>5, <3>2, <5>1
      <4>3. QED
        BY <4>1, <4>2
    <3>4. QED
      BY <2>1, <2>5, <3>2, <3>3 DEF InStep
  <2>9. QED
    BY <2>1, <2>6, <2>7, <2>8 DEF MemInv
<1>3. QED
  BY <1>1, <1>2

(* cosmic_io_mem_write *)
LEMMA CopyPreserves ==
  ASSUME MemInv, NEW s \in Seq(Byte), NEW k \in Nat, k <= Len(s), w + k <= BufLen, Copy(s, w, k, k)
  PROVE  MemInv'
<1>1. CASE Room(w) = 0
  BY <1>1, RefusePreserves DEF Copy
<1>2. CASE Room(w) # 0
  <2>1. /\ buf' = [p \in 1 .. BufLen |-> IF p \in w + 1 .. w + k THEN s[p - w] ELSE buf[p]]
        /\ w' = w + k /\ put' = put \o SubSeq(s, 1, k) /\ ans' = k
        /\ overrun' = (overrun \/ w + k > BufLen) /\ UNCHANGED <<r, got, piped>>
    BY <1>2 DEF Copy
  <2>2. buf \in [1 .. BufLen -> Byte] /\ w \in 0 .. BufLen /\ put \in Seq(Byte) /\ ~overrun
    BY DEF MemInv, MemTypeOK
  <2>3. \A p \in w + 1 .. w + k : p - w \in 1 .. Len(s) /\ s[p - w] \in Byte
    BY <2>2
  <2>4. buf' \in [1 .. BufLen -> Byte]
    BY <2>1, <2>2, <2>3
  <2>5. /\ \A p \in 1 .. w : buf'[p] = buf[p]
        /\ \A i \in 1 .. k : buf'[w + i] = s[i]
    BY <2>1, <2>2
  <2>6. /\ SubSeq(s, 1, k) \in Seq(Byte) /\ Len(SubSeq(s, 1, k)) = k
        /\ \A i \in 1 .. k : SubSeq(s, 1, k)[i] = s[i]
    OBVIOUS
  <2>7. /\ put' \in Seq(Byte) /\ Len(put') = Len(put) + k
        /\ \A i \in 1 .. Len(put) : put'[i] = put[i]
        /\ \A i \in 1 .. k : put'[Len(put) + i] = s[i]
    BY <2>1, <2>2, <2>6
  <2>8. MemTypeOK' /\ ~overrun'
    BY <2>1, <2>2, <2>4, <2>7 DEF MemInv, MemTypeOK
  <2>9. Stored'
    <3>1. Len(put) \in Nat /\ Len(put) <= w
      BY <2>2 DEF MemInv, Stored
    <3>2. Len(put') <= w' /\ w' - Len(put') = w - Len(put)
      BY <2>1, <2>2, <2>7, <3>1
    <3>3. ASSUME NEW i \in 1 .. Len(put')
          PROVE  put'[i] = buf'[w - Len(put) + i]
      <4>1. CASE i \in 1 .. Len(put)
        <5>1. put[i] = buf[w - Len(put) + i] /\ w - Len(put) + i \in 1 .. w
          BY <2>2, <3>1, <4>1 DEF MemInv, Stored
        <5>2. QED
          BY <2>5, <2>7, <4>1, <5>1
      <4>2. CASE i \notin 1 .. Len(put)
        <5>1. i - Len(put) \in 1 .. k /\ i = Len(put) + (i - Len(put))
              /\ w - Len(put) + i = w + (i - Len(put))
          BY <2>2, <2>7, <3>1, <4>2
        <5>2. put'[i] = s[i - Len(put)] /\ buf'[w + (i - Len(put))] = s[i - Len(put)]
          BY <2>5, <2>7, <5>1
        <5>3. QED
          BY <5>1, <5>2
      <4>3. QED
        BY <4>1, <4>2
    <3>4. QED
      BY <3>2, <3>3 DEF Stored
  <2>10. InStep'
    <3>1. SUFFICES ASSUME piped PROVE InStep'
      BY <2>1 DEF InStep
    <3>2. /\ Len(put) = w /\ Len(got) = r /\ r <= w /\ r \in Nat
          /\ \A i \in 1 .. r : got[i] = buf[i]
      BY <3>1 DEF MemInv, InStep, MemTypeOK
    <3>3. \A i \in 1 .. r : i \in 1 .. w
      BY <2>2, <3>2
    <3>4. \A i \in 1 .. r : got[i] = buf'[i]
      BY <2>5, <3>2, <3>3
    <3>5. Len(put') = w' /\ r <= w'
      BY <2>1, <2>2, <2>7, <3>2
    <3>6. QED
      BY <2>1, <3>2, <3>4, <3>5 DEF InStep
  <2>11. QED
    BY <2>8, <2>9, <2>10 DEF MemInv
<1>3. QED
  BY <1>1, <1>2

(* The lengths and positions of the calls are those of a size_t.           *)
LEMMA NextPreserves == MemInv /\ [MemNext]_memVars => MemInv'
<1> SUFFICES ASSUME MemInv, [MemNext]_memVars
             PROVE  MemInv'
  OBVIOUS
<1>1. ASSUME NEW n \in 0 .. Word - 1, MemRead(n)
      PROVE  MemInv'
  <2>1. r \in 0 .. BufLen /\ n \in Nat
    BY DEF MemInv, MemTypeOK
  <2>2. Fitting(r, n) \in Nat /\ r + Fitting(r, n) <= BufLen
    BY <2>1, FittingIs
  <2>3. QED
    BY <1>1, <2>2, FetchPreserves DEF MemRead
<1>2. ASSUME NEW n \in 0 .. Word - 1, Rsetpos(n)
      PROVE  MemInv'
  <2>1. CASE n > BufLen
    BY <1>2, <2>1, RefusePreserves DEF Rsetpos
  <2>2. CASE ~(n > BufLen)
    <3>1. /\ r' = n /\ got' = <<>> /\ ans' = n /\ ~piped' /\ piped' \in BOOLEAN
          /\ UNCHANGED <<buf, w, put, overrun>>
      BY <1>2, <2>2 DEF Rsetpos
    <3>2. n \in 0 .. BufLen /\ n \in -1 .. BufLen
      BY <2>2
    <3>3. <<>> \in Seq(Byte)
      BY EmptySeq
    <3>4. QED
      BY <3>1, <3>2, <3>3 DEF MemInv, MemTypeOK, Stored, InStep
  <2>3. QED
    BY <2>1, <2>2
<1>3. ASSUME NEW n \in 0 .. Word - 1, Wsetpos(n)
      PROVE  MemInv'
  <2>1. CASE n > BufLen
    BY <1>3, <2>1, RefusePreserves DEF Wsetpos
  <2>2. CASE ~(n > BufLen)
    <3>1. /\ w' = n /\ put' = <<>> /\ ans' = n /\ ~piped' /\ piped' \in BOOLEAN
          /\ UNCHANGED <<buf, r, got, overrun>>
      BY <1>3, <2>2 DEF Wsetpos, WriteFrom
    <3>2. n \in 0 .. BufLen /\ n \in -1 .. BufLen
      BY <2>2
    <3>3. <<>> \in Seq(Byte) /\ Len(<<>>) = 0
      BY EmptySeq
    <3>4. Stored'
      BY <3>1, <3>2, <3>3 DEF Stored
    <3>5. MemTypeOK' /\ ~overrun' /\ InStep'
      BY <3>1, <3>2, <3>3 DEF MemInv, MemTypeOK, InStep
    <3>6. QED
      BY <3>4, <3>5 DEF MemInv
  <2>3. QED
    BY <2>1, <2>2
<1>4. ASSUME NEW n \in 0 .. Word - 1, NEW s \in [1 .. n -> Byte], MemWrite(s)
      PROVE  MemInv'
  <2>1. w \in 0 .. BufLen /\ n \in Nat /\ s \in Seq(Byte) /\ Len(s) = n
    BY ArrayIsSeq DEF MemInv, MemTypeOK
  <2>2. Fitting(w, n) \in Nat /\ Fitting(w, n) <= n /\ w + Fitting(w, n) <= BufLen
    BY <2>1, FittingIs
  <2>3. QED
    BY <1>4, <2>1, <2>2, CopyPreserves DEF MemWrite
<1>5. CASE UNCHANGED memVars
  BY <1>5 DEF memVars, MemInv, MemTypeOK, Stored, InStep
<1>6. QED
  BY <1>1, <1>2, <1>3, <1>4, <1>5 DEF MemNext

(* IInv holds in every state.                                              *)
LEMMA AlwaysMemInv == MemSpec => []MemInv
<1>1. QED
  BY MemInitInv, NextPreserves, PTL DEF MemSpec

-----------------------------------------------------------------------------
(* Types, and cursors inside the buffer, for a buffer of any length that a *)
(* size_t can hold.                                                        *)
THEOREM AlwaysTyped == MemSpec => []MemTypeOK
<1>1. MemInv => MemTypeOK
  BY DEF MemInv
<1>2. QED
  BY <1>1, AlwaysMemInv, PTL

(* No call reads or writes a byte behind the buffer (:22, :43).            *)
THEOREM StaysInsideBuffer == MemSpec => []InsideBuffer
<1>1. MemInv => InsideBuffer
  BY DEF MemInv, MemTypeOK, InsideBuffer
<1>2. QED
  BY <1>1, AlwaysMemInv, PTL

(* What was written since the write cursor was set lies before it (:48).   *)
THEOREM WrittenLasts == MemSpec => []Lasts
<1>1. ASSUME MemInv
      PROVE  Lasts
  <2>1. /\ put \in Seq(Byte) /\ w \in 0 .. BufLen /\ Len(put) \in Nat /\ Len(put) <= w
        /\ \A i \in 1 .. Len(put) : put[i] = buf[w - Len(put) + i]
    BY <1>1 DEF MemInv, MemTypeOK, Stored
  <2>2. SubSeq(buf, w - Len(put) + 1, w) = [i \in 1 .. Len(put) |-> buf[w - Len(put) + i]]
    BY <2>1
  <2>3. put = [i \in 1 .. Len(put) |-> put[i]]
    BY <2>1
  <2>4. QED
    BY <2>1, <2>2, <2>3 DEF Lasts
<1>2. QED
  BY <1>1, AlwaysMemInv, PTL

-----------------------------------------------------------------------------
(* What was read is the beginning of what was written, by way of the       *)
(* buffer, as long as no cursor is set and reads keep behind writes.       *)
LEMMA ReadIsWritten == MemInv /\ piped => IsPrefix(got, put)
<1> SUFFICES ASSUME MemInv, piped
             PROVE  IsPrefix(got, put)
  OBVIOUS
<1>1. /\ got \in Seq(Byte) /\ put \in Seq(Byte) /\ r \in Nat /\ w \in Nat
      /\ Len(put) = w /\ Len(got) = r /\ r <= w
      /\ \A i \in 1 .. r : got[i] = buf[i]
  BY DEF MemInv, MemTypeOK, InStep
<1>2. \A i \in 1 .. r : put[i] = buf[w - Len(put) + i]
  BY <1>1 DEF MemInv, Stored
<1>3. \A i \in 1 .. r : w - Len(put) + i = i
  BY <1>1
<1>4. \A i \in 1 .. r : got[i] = put[i]
  BY <1>1, <1>2, <1>3
<1>5. QED
  BY <1>1, <1>4, PrefixIs DEF IsPrefix

LEMMA RefuseIsPipe ==
  ASSUME MemInv, piped, Refuse
  PROVE  Pipe!Next
<1>1. UNCHANGED <<got, put>> /\ ans' = -1
  BY DEF Refuse
<1>2. got \in Seq(Byte) /\ Len(got) \in Nat
  BY LenProperties DEF MemInv, MemTypeOK
<1>3. IsPrefix(got, got)
  BY <1>2, PrefixIs DEF IsPrefix
<1>4. IsPrefix(got, put)
  BY ReadIsWritten
<1>5. QED
  BY <1>1, <1>2, <1>3, <1>4 DEF Pipe!Next, Pipe!Read, Pipe!IsPrefix, IsPrefix

LEMMA ReadIsPipe ==
  ASSUME MemInv, MemInv', piped', NEW k \in Nat, r + k <= BufLen, Fetch(r, k), IsPrefix(got', put')
  PROVE  Pipe!Next
<1>1. CASE Room(r) = 0
  BY <1>1, RefuseIsPipe DEF Fetch, Refuse
<1>2. CASE Room(r) # 0
  <2>1. /\ r' = r + k /\ ans' = k /\ put' = put /\ piped
        /\ got' = got \o [i \in 1 .. k |-> At(r + i)]
    BY <1>2 DEF Fetch
  <2>2. /\ got \in Seq(Byte) /\ got' \in Seq(Byte) /\ r \in Nat /\ Len(got) = r /\ Len(got') = r'
        /\ \A i \in 1 .. r : got[i] = buf[i]
        /\ \A i \in 1 .. r' : got'[i] = buf'[i]
    BY <2>1 DEF MemInv, MemTypeOK, InStep
  <2>3. buf' = buf /\ \A i \in 1 .. r : i \in 1 .. r'
    BY <1>2, <2>1, <2>2 DEF Fetch
  <2>4. IsPrefix(got, got')
    <3>1. \A i \in 1 .. Len(got) : got[i] = got'[i]
      BY <2>2, <2>3
    <3>2. Len(got) <= Len(got')
      BY <2>1, <2>2
    <3>3. QED
      BY <2>2, <3>1, <3>2, PrefixIs DEF IsPrefix
  <2>5. Len(got') = Len(got) + (IF ans' > 0 THEN ans' ELSE 0)
    BY <2>1, <2>2
  <2>6. QED
    BY <2>1, <2>4, <2>5 DEF Pipe!Next, Pipe!Read, Pipe!IsPrefix, IsPrefix
<1>3. QED
  BY <1>1, <1>2

LEMMA WriteIsPipe ==
  ASSUME MemInv, MemInv', piped', NEW s \in Seq(Byte), NEW k \in Nat, k <= Len(s), Copy(s, w, k, k)
  PROVE  Pipe!Next
<1>1. CASE Room(w) = 0
  BY <1>1, RefuseIsPipe DEF Copy, Refuse
<1>2. CASE Room(w) # 0
  <2>1. put' = put \o SubSeq(s, 1, k) /\ ans' = k /\ got' = got
    BY <1>2 DEF Copy
  <2>2. SubSeq(s, 1, k) \in Seq(Byte) /\ Len(SubSeq(s, 1, k)) = k
    OBVIOUS
  <2>3. put \in Seq(Byte) /\ Len(put) \in Nat
    BY LenProperties DEF MemInv, MemTypeOK
  <2>4. /\ put' \in Seq(Byte) /\ Len(put') = Len(put) + k
        /\ \A i \in 1 .. Len(put) : put'[i] = put[i]
    BY <2>1, <2>2, <2>3, ConcatProperties
  <2>5. IsPrefix(put, put')
    BY <2>3, <2>4, PrefixIs DEF IsPrefix
  <2>6. QED
    BY <2>1, <2>3, <2>4, <2>5 DEF Pipe!Next, Pipe!Write, Pipe!IsPrefix, IsPrefix
<1>3. QED
  BY <1>1, <1>2

(* As long as no cursor is set and no read overtakes the writes, the       *)
(* memory stream keeps the promise of cosmic_io_read and cosmic_io_write.  *)
THEOREM MemoryActsAsPipe == MemSpec => ActsAsPipe
<1>1. (MemInv /\ piped => IsPrefix(got, put))'
  BY ReadIsWritten, PTL
<1>2. ASSUME MemInv, MemInv', MemNext, piped', IsPrefix(got', put')
      PROVE  Pipe!Next
  <2>1. ASSUME NEW n \in 0 .. Word - 1, MemRead(n)
        PROVE  Pipe!Next
    <3>1. r \in 0 .. BufLen /\ n \in Nat
      BY <1>2 DEF MemInv, MemTypeOK
    <3>2. Fitting(r, n) \in Nat /\ r + Fitting(r, n) <= BufLen
      BY <3>1, FittingIs
    <3>3. QED
      BY <1>2, <2>1, <3>2, ReadIsPipe DEF MemRead
  <2>2. ASSUME NEW n \in 0 .. Word - 1, Rsetpos(n)
        PROVE  Pipe!Next
    BY <1>2, <2>2, RefuseIsPipe DEF Rsetpos, Refuse
  <2>3. ASSUME NEW n \in 0 .. Word - 1, Wsetpos(n)
        PROVE  Pipe!Next
    BY <1>2, <2>3, RefuseIsPipe DEF Wsetpos, WriteFrom, Refuse
  <2>4. ASSUME NEW n \in 0 .. Word - 1, NEW s \in [1 .. n -> Byte], MemWrite(s)
        PROVE  Pipe!Next
    <3>1. w \in 0 .. BufLen /\ n \in Nat /\ s \in Seq(Byte) /\ Len(s) = n
      BY <1>2, ArrayIsSeq DEF MemInv, MemTypeOK
    <3>2. Fitting(w, n) \in Nat /\ Fitting(w, n) <= n
      BY <3>1, FittingIs
    <3>3. QED
      BY <1>2, <2>4, <3>1, <3>2, WriteIsPipe DEF MemWrite
  <2>5. QED
    BY <1>2, <2>1, <2>2, <2>3, <2>4 DEF MemNext
<1>3. ASSUME MemInv, MemInv', [MemNext]_memVars, (MemInv /\ piped => IsPrefix(got, put))'
      PROVE  [piped' => Pipe!Next]_memVars
  BY <1>2, <1>3
<1>4. QED
  BY <1>1, <1>3, AlwaysMemInv, PTL DEF MemSpec, ActsAsPipe
=============================================================================
