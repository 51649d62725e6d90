------------------------------ MODULE SocketIo ------------------------------
(***************************************************************************)
(* Reads and writes over a connected socket, src/cosmic_socket.c:26-135:   *)
(* two processes, each with a handle to its end of one TCP connection.  A  *)
(* read is a poll and a recv, a write a loop of polls and sends, and the   *)
(* other process, the network and the timers act in between.               *)
(*                                                                         *)
(* The kernel is external to the repository: the actions and operators on  *)
(* tcp say what poll, recv, send, shutdown and close do on Linux as far as *)
(* the code can tell.  The bytes that a process sends are numbered, so     *)
(* that the n-th byte is the number n.                                     *)
(***************************************************************************)
EXTENDS Integers, Sequences, SequencesExt

CONSTANTS
  Peer,       (* the two processes                                          *)
  FOREVER,    (* -1 as rpwait or wpwait; LIMITED is any other wait          *)
  LIMITED,
  Cap,        (* the room of the buffers of the kernel, in bytes            *)
  Settings,   (* the waits and modes that the handles are given             *)
  MaxBytes,   (* bound: bytes that each process sends                       *)
  MaxAsk      (* bound: the length of a read or write                       *)

ASSUME SocketIoAssumption ==
  /\ \E p, q \in Peer : p # q /\ Peer = {p, q}
  /\ FOREVER # LIMITED
  /\ Settings \in [Peer -> SUBSET [open : {TRUE}, rpwait : {FOREVER, LIMITED},
                                   wpwait : {FOREVER, LIMITED}, nonblock : BOOLEAN]]
  /\ Cap \in Nat \ {0} /\ MaxAsk \in Nat \ {0}
  /\ MaxBytes \in [Peer -> Nat]

VARIABLES
  io,      (* the handles: fd (open or not), rpwait, wpwait, and O_NONBLOCK *)
  call,    (* the call that a process is in: where it is, the bytes it      *)
           (* still wants, the bytes asked for and those of this send       *)
  tcp,     (* the ends of the connection: flight, bytes sent and not yet    *)
           (* arrived; queue, bytes arrived and not yet read; shut, the     *)
           (* directions shut down; reset, a reset has come; err, it has    *)
           (* not been reported yet                                         *)
  gone,    (* the processes that have ended                                 *)
  log      (* history of a process: bytes sent and those at the last        *)
           (* answer, bytes received, answers to reads and writes, why the  *)
           (* last read brought nothing, a reset came between poll and send,*)
           (* ended by SIGPIPE                                              *)

vars == <<io, call, tcp, gone, log>>

Other(p) == CHOOSE q \in Peer : q # p

NoCall == [at |-> "none", left |-> 0, len |-> 0, n |-> 0]

Init ==
  /\ io \in [Peer -> UNION {Settings[p] : p \in Peer}]
  /\ \A p \in Peer : io[p] \in Settings[p]
  /\ call = [p \in Peer |-> NoCall]
  /\ tcp = [p \in Peer |-> [flight |-> <<>>, queue |-> <<>>, shut |-> {},
                            reset |-> FALSE, err |-> FALSE]]
  /\ gone = {}
  /\ log = [p \in Peer |-> [sent |-> 0, base |-> 0, rcvd |-> <<>>, rans |-> 0, wans |-> 0,
                            why |-> "none", raced |-> FALSE, killed |-> FALSE]]

-----------------------------------------------------------------------------
(* The kernel. *)

Ended(p) == ~io[p].open \/ "w" \in tcp[p].shut

(* Nothing more will arrive at p. *)
Eof(p) ==
  \/ "r" \in tcp[p].shut \/ tcp[p].reset
  \/ Ended(Other(p)) /\ tcp[Other(p)].flight = <<>>

Hup(p) == tcp[p].reset \/ (Eof(p) /\ "w" \in tcp[p].shut)

Space(p) == Cap - Len(tcp[p].flight)

Error(p) == (IF tcp[p].err THEN {"POLLERR"} ELSE {}) \cup (IF Hup(p) THEN {"POLLHUP"} ELSE {})

(* What poll reports, of which it may leave out the end of the stream when *)
(* it reports the hang-up.  A descriptor of -1 is passed over by poll.     *)
ReadEvents(p) ==
  IF ~io[p].open THEN {{}}
  ELSE LET in == tcp[p].queue # <<>> \/ Eof(p)
       IN  {Error(p) \cup (IF in THEN {"POLLIN"} ELSE {})}
           \cup IF Hup(p) /\ tcp[p].queue = <<>> THEN {Error(p)} ELSE {}

WriteEvents(p) ==
  IF ~io[p].open THEN {}
  ELSE Error(p) \cup IF Space(p) > 0 \/ "w" \in tcp[p].shut THEN {"POLLOUT"} ELSE {}

(* A byte arrives, or meets a closed end, which answers with a reset. *)
Reset(t, p) == [t EXCEPT ![p].reset = TRUE, ![p].err = TRUE, ![p].flight = <<>>]

NoteRace(p) == IF call[p].at = "send" THEN [log EXCEPT ![p].raced = TRUE] ELSE log

Deliver(p) ==
  LET q == Other(p)
  IN  /\ tcp[p].flight # <<>>
      /\ IF io[q].open
         THEN /\ Len(tcp[q].queue) < Cap
              /\ tcp' = [tcp EXCEPT ![p].flight = Tail(@), ![q].queue = Append(@, Head(tcp[p].flight))]
              /\ UNCHANGED log
         ELSE tcp' = Reset(tcp, p) /\ log' = NoteRace(p)
      /\ UNCHANGED <<io, call, gone>>

(* The end of p is closed.  Bytes that it has not read are answered with a *)
(* reset, and what it had sent may be lost with them.                      *)
Hangup(p) ==
  LET q == Other(p)
      t == [tcp EXCEPT ![p].queue = <<>>]
  IN  IF tcp[p].queue # <<>> /\ io[q].open
      THEN tcp' = [Reset(t, q) EXCEPT ![p].flight = <<>>]
      ELSE tcp' = t

-----------------------------------------------------------------------------
(* Calls, answers. *)

Idle(p) == p \notin gone /\ call[p].at = "none"

(* With its next call a process leaves the last answers behind. *)
Forget(lg, p) == [lg EXCEPT ![p].rans = 0, ![p].wans = 0, ![p].why = "none"]

Read(p, n) ==
  /\ Idle(p)
  /\ call' = [call EXCEPT ![p] = [NoCall EXCEPT !.at = "rpoll", !.left = n, !.len = n]]
  /\ log' = Forget(log, p)
  /\ UNCHANGED <<io, tcp, gone>>

Write(p, n) ==
  /\ Idle(p)
  /\ log[p].sent + n <= MaxBytes[p]
  /\ call' = [call EXCEPT ![p] = [NoCall EXCEPT !.at = "wpoll", !.left = n, !.len = n]]
  /\ log' = Forget(log, p)
  /\ UNCHANGED <<io, tcp, gone>>

ReadReturns(p, bytes, answer, why) ==
  /\ call' = [call EXCEPT ![p] = NoCall]
  /\ log' = [log EXCEPT ![p].rcvd = @ \o bytes, ![p].rans = answer, ![p].why = why]
  /\ UNCHANGED <<io, gone>>

WriteReturns(p, answer, lg) ==
  /\ call' = [call EXCEPT ![p] = NoCall]
  /\ log' = [lg EXCEPT ![p].wans = answer, ![p].base = lg[p].sent, ![p].raced = FALSE]
  /\ UNCHANGED <<io, gone>>

Goto(p, at) == call' = [call EXCEPT ![p].at = at, ![p].n = 0]

(* Mutant: a hang-up ends the read though bytes are there. *)
RpollHup(p) ==
  /\ call[p].at = "rpoll"
  /\ \E revents \in ReadEvents(p) :
       \/ /\ revents \cap {"POLLERR", "POLLHUP"} # {}
          /\ ReadReturns(p, <<>>, -1, "hangup")
       \/ revents = {"POLLIN"} /\ Goto(p, "recv") /\ UNCHANGED <<io, gone, log>>
       \/ revents = {} /\ io[p].rpwait # FOREVER /\ ReadReturns(p, <<>>, 0, "timeout")
  /\ UNCHANGED tcp

(* Mutant: a wait that is over is waited for again. *)
RpollAgain(p) ==
  /\ call[p].at = "rpoll"
  /\ \E revents \in ReadEvents(p) :
       \/ revents # {} /\ Goto(p, "recv")
       \/ revents = {} /\ UNCHANGED call
  /\ UNCHANGED <<io, gone, log, tcp>>

(* cosmic_socket_rpoll: poll reports something, or the wait is over. *)
Rpoll(p) ==
  /\ call[p].at = "rpoll"
  /\ \E revents \in ReadEvents(p) :
       \/ /\ "POLLERR" \in revents \/ ("POLLHUP" \in revents /\ "POLLIN" \notin revents)
          /\ ReadReturns(p, <<>>, -1, "hangup")
       \/ /\ "POLLERR" \notin revents /\ "POLLIN" \in revents
          /\ Goto(p, "recv")
          /\ UNCHANGED <<io, gone, log>>
       \/ revents = {} /\ io[p].rpwait # FOREVER /\ ReadReturns(p, <<>>, 0, "timeout")
  /\ UNCHANGED tcp

(* recv: bytes, the pending error, or the end of the stream. *)
Recv(p) ==
  LET n == Len(tcp[p].queue)
      bytes == SubSeq(tcp[p].queue, 1, IF n < call[p].left THEN n ELSE call[p].left)
  IN  /\ call[p].at = "recv"
      /\ \/ /\ tcp[p].queue # <<>>
            /\ ReadReturns(p, bytes, Len(bytes), "none")
            /\ tcp' = [tcp EXCEPT ![p].queue = SubSeq(@, Len(bytes) + 1, Len(@))]
         \/ /\ tcp[p].queue = <<>> /\ tcp[p].err
            /\ ReadReturns(p, <<>>, -1, "hangup")
            /\ tcp' = [tcp EXCEPT ![p].err = FALSE]
         \/ /\ tcp[p].queue = <<>> /\ ~tcp[p].err
            /\ ReadReturns(p, <<>>, 0, "hangup")
            /\ UNCHANGED tcp

(* Mutant: an error that poll reports is left to send. *)
WpollNoError(p) ==
  /\ call[p].at = "wpoll"
  /\ \/ /\ WriteEvents(p) # {}
        /\ Goto(p, "send")
        /\ UNCHANGED <<io, gone, log>>
     \/ WriteEvents(p) = {} /\ io[p].wpwait # FOREVER /\ WriteReturns(p, 0, log)
  /\ UNCHANGED tcp

Wpoll(p) ==
  /\ call[p].at = "wpoll"
  /\ \/ WriteEvents(p) \cap {"POLLERR", "POLLHUP"} # {} /\ WriteReturns(p, -1, log)
     \/ WriteEvents(p) = {"POLLOUT"} /\ Goto(p, "send") /\ UNCHANGED <<io, gone, log>>
     \/ WriteEvents(p) = {} /\ io[p].wpwait # FOREVER /\ WriteReturns(p, 0, log)
  /\ UNCHANGED tcp

(* A signal ends the wait of poll: it answers -1. *)
Interrupt(p) ==
  /\ \/ call[p].at = "rpoll" /\ ReadReturns(p, <<>>, -1, "signal")
     \/ call[p].at = "wpoll" /\ WriteReturns(p, -1, log)
  /\ UNCHANGED tcp

(* A process ends, by itself or by SIGPIPE: the kernel closes its end. *)
Exit(p, killed) ==
  /\ gone' = gone \cup {p}
  /\ io' = [io EXCEPT ![p].open = FALSE]
  /\ IF io[p].open THEN Hangup(p) ELSE UNCHANGED tcp
  /\ call' = [call EXCEPT ![p] = NoCall]
  /\ log' = [Forget(IF tcp[p].queue # <<>> /\ io[Other(p)].open THEN NoteRace(Other(p)) ELSE log, p)
               EXCEPT ![p].killed = killed]

(* Mutant: a send that takes a part counts as one that takes all. *)
SendPart(p, k) ==
  LET lg == [log EXCEPT ![p].sent = @ + k]
  IN  /\ tcp' = [tcp EXCEPT ![p].flight = @ \o [m \in 1 .. k |-> log[p].sent + m]]
      /\ WriteReturns(p, call[p].len, lg)

(* k bytes are taken; send returns when all are, or when it may not wait,  *)
(* and the loop goes on until nbytes = len.                                *)
SendBytes(p, k) ==
  LET lg == [log EXCEPT ![p].sent = @ + k]
  IN  /\ tcp' = [tcp EXCEPT ![p].flight = @ \o [m \in 1 .. k |-> log[p].sent + m]]
      /\ IF k = call[p].left THEN WriteReturns(p, call[p].len, lg)
         ELSE /\ call' = [call EXCEPT ![p].left = @ - k,
                            ![p].n = IF io[p].nonblock THEN 0 ELSE @ + k,
                            ![p].at = IF io[p].nonblock THEN "wpoll" ELSE "send"]
              /\ log' = lg
              /\ UNCHANGED <<io, gone>>

(* send fails: with the pending error; with EPIPE, and SIGPIPE ends the    *)
(* process, as no flag forbids it (:104); or, if bytes of this send were   *)
(* taken, not yet.                                                         *)
Send(p) ==
  /\ call[p].at = "send"
  /\ LET broken == tcp[p].reset \/ "w" \in tcp[p].shut
         k == IF Space(p) < call[p].left THEN Space(p) ELSE call[p].left
     IN  \/ ~broken /\ k > 0 /\ SendBytes(p, k)
         \/ broken /\ call[p].n > 0 /\ Goto(p, "wpoll") /\ UNCHANGED <<io, tcp, gone, log>>
         \/ /\ broken /\ call[p].n = 0 /\ tcp[p].err
            /\ WriteReturns(p, -1, log)
            /\ tcp' = [tcp EXCEPT ![p].err = FALSE]
         \/ broken /\ call[p].n = 0 /\ Exit(p, TRUE)

(* cosmic_socket_shutdown *)
Shutdown(p, how) ==
  /\ Idle(p)
  /\ io[p].open /\ ~tcp[p].reset
  /\ tcp' = [tcp EXCEPT ![p].shut = @ \cup how]
  /\ log' = Forget(log, p)
  /\ UNCHANGED <<io, call, gone>>

(* cosmic_socket_io_close; a handle that is closed answers -1. *)
Close(p) ==
  /\ Idle(p)
  /\ io[p].open
  /\ io' = [io EXCEPT ![p].open = FALSE]
  /\ Hangup(p)
  /\ log' = Forget(IF tcp[p].queue # <<>> /\ io[Other(p)].open THEN NoteRace(Other(p)) ELSE log, p)
  /\ UNCHANGED <<call, gone>>

Crash(p) == p \notin gone /\ Exit(p, FALSE)

Own(p) == Rpoll(p) \/ Recv(p) \/ Wpoll(p) \/ Send(p)

Next ==
  \E p \in Peer :
    \/ Own(p) \/ Interrupt(p) \/ Deliver(p) \/ Close(p) \/ Crash(p)
    \/ \E n \in 1 .. MaxAsk : Read(p, n) \/ Write(p, n)
    \/ \E how \in {{"r"}, {"w"}, {"r", "w"}} : Shutdown(p, how)

(* A process in a call goes on, its timers run down, and the network       *)
(* delivers; nobody has to call anything.                                  *)
Spec == Init /\ [][Next]_vars /\ \A p \in Peer : WF_vars(Own(p)) /\ WF_vars(Deliver(p))
-----------------------------------------------------------------------------
(* Every variable has its type.                                            *)
TypeOK ==
  /\ io \in [Peer -> [open : BOOLEAN, rpwait : {FOREVER, LIMITED},
                      wpwait : {FOREVER, LIMITED}, nonblock : BOOLEAN]]
  /\ call \in [Peer -> [at : {"none", "rpoll", "recv", "wpoll", "send"}, left : 0 .. MaxAsk,
                        len : 0 .. MaxAsk, n : 0 .. MaxAsk]]
  /\ \A p \in Peer :
       /\ Len(tcp[p].flight) <= Cap /\ Len(tcp[p].queue) <= Cap
       /\ tcp[p].shut \subseteq {"r", "w"}
       /\ tcp[p].err => tcp[p].reset
       /\ log[p].sent \in 0 .. MaxBytes[p] /\ log[p].base \in 0 .. log[p].sent
       /\ log[p].rans \in -1 .. MaxAsk /\ log[p].wans \in -1 .. MaxAsk
       /\ log[p].why \in {"none", "timeout", "hangup", "signal"}
  /\ gone \subseteq Peer

Taken(p) == [m \in 1 .. log[p].sent |-> m]
First == CHOOSE p \in Peer : TRUE
Second == Other(First)

Forth == INSTANCE StreamSpec WITH
           put <- Taken(First), got <- log[Second].rcvd, base <- log[First].base,
           wans <- log[First].wans, rans <- log[Second].rans
Back == INSTANCE StreamSpec WITH
          put <- Taken(Second), got <- log[First].rcvd, base <- log[Second].base,
          wans <- log[Second].wans, rans <- log[First].rans

(* In each direction the connection is a byte stream: the reads of one     *)
(* process return the bytes taken from the writes of the other, in order   *)
(* and once, and a positive answer is their number, though a write may be  *)
(* several sends with polls between them (:95-113).                        *)
Streams == Forth!Spec /\ Back!Spec

(* A write whose answer is 0 or -1 has not sent all of its bytes, so a     *)
(* caller that sends the whole text again never sends a text twice that    *)
(* was complete; a positive answer is the whole length and never a part    *)
(* (:97, :107).                                                            *)
AllOrRefused ==
  [][\A p \in Peer :
       call[p].at \in {"wpoll", "send"} /\ call'[p].at = "none" /\ p \notin gone' =>
         IF log'[p].wans > 0 THEN log'[p].sent - log[p].base = call[p].len
         ELSE log'[p].sent - log[p].base < call[p].len]_vars

(* A reader that is told of the end of the stream, by -1 or by 0, has      *)
(* got every byte that was sent: those that came before the hang-up are    *)
(* still read (:43).  Only a reset, or its own shutdown, ends it earlier.  *)
(* (And every variable has its type.)                                      *)
EndAfterAllBytes ==
  /\ TypeOK
  /\ \A p \in Peer :
       log[p].why = "hangup" =>
         \/ Len(log[p].rcvd) = log[Other(p)].sent
         \/ tcp[p].reset \/ "r" \in tcp[p].shut

(* A process that writes is ended by SIGPIPE only if it has shut down its  *)
(* own direction, or if a reset came between the poll and the send: a      *)
(* connection known to be broken is never written to (:64).                *)
KilledByRaceOnly ==
  \A p \in Peer : log[p].killed => "w" \in tcp[p].shut \/ log[p].raced

(* A call that has to come back whatever the other process does: a read    *)
(* with a wait that is not -1, on a closed handle too; a write with such a *)
(* wait, if the socket is not blocking, as send in a blocking one waits    *)
(* for room without regard to wpwait (:104); and any call on an open       *)
(* handle, once the other process has closed its end or has ended.         *)
Bounded(p) ==
  \/ call[p].at = "rpoll" /\ io[p].rpwait # FOREVER
  \/ call[p].at = "wpoll" /\ io[p].wpwait # FOREVER /\ io[p].nonblock
  \/ call[p].at # "none" /\ io[p].open /\ ~io[Other(p)].open

(* Every such call does (:26-69, :95-113).                                 *)
CallsReturn == \A p \in Peer : Bounded(p) ~> call[p].at = "none"
=============================================================================
