---------------------------- MODULE SocketProofs ----------------------------
(***************************************************************************)
(* However many handles and descriptors there are, and whatever names      *)
(* stand for: no handle closes the descriptor of another, no descriptor    *)
(* is left behind, the waits are kept, and a connect that fails has tried  *)
(* every address it could.                                                 *)
(*                                                                         *)
(* Owned speaks of socket handles only and is not inductive: a file stream *)
(* must be alone with its descriptor too until it is closed, or closing    *)
(* it would take another's.  What a connect answers follows from what is   *)
(* true while it is under way: the addresses are those that refused and    *)
(* those that are left.                                                    *)
(***************************************************************************)
EXTENDS Socket, FiniteSetTheorems, SequenceTheorems, TLAPS

HandleRec == [kind : {"socket", "file"}, fd : Fd \cup {NOFD}, rpwait : Int, wpwait : Int]
SockState == {"new", "listening", "connecting", "established", "failed",
              "spoiled", "connected", "file"}
SockRec == [st : SockState, addr : Addr \cup {NONE}, peer : Addr \cup {NONE},
            nonblock : BOOLEAN, pending : BOOLEAN]

Errno == {"none", "EINPROGRESS", "EALREADY", "ECONNREFUSED", "other"}

(* TypeOK, with what the functions and records are made of. *)
Typed ==
  /\ DOMAIN io \subseteq Handle /\ io \in [DOMAIN io -> HandleRec]
  /\ waits \in [DOMAIN io -> [r : Int, w : Int]]
  /\ DOMAIN sock \subseteq Fd /\ sock \in [DOMAIN sock -> SockRec]
  /\ busy \in [h : Handle \cup {NONE}, left : Seq(Addr), waiting : BOOLEAN]
  /\ ~Idle => busy.h \in Sockets /\ busy.left # <<>>
  /\ ret \in [h : Handle \cup {NONE}, ans : {0, -1}, errno : Errno]
  /\ host \in [asked : Seq(Addr), refused : SUBSET (Addr \cup {NONE}), fresh : BOOLEAN]
  /\ spent \subseteq Files

Live == DOMAIN io \ spent

(* A handle that may still close its descriptor is alone with it, and its  *)
(* descriptor is open and of its kind; a file stream always has one.       *)
Alone ==
  /\ stolen = {}
  /\ \A h \in Files : io[h].fd # NOFD
  /\ \A h \in Live :
       io[h].fd # NOFD =>
         /\ io[h].fd \in DOMAIN sock
         /\ sock[io[h].fd].st = "file" <=> io[h].kind = "file"
  /\ \A g, h \in Live : io[g].fd = io[h].fd /\ io[h].fd # NOFD => g = h

(* The connect of a socket that was new: the system has spoilt the         *)
(* descriptor; or it does not block, and has gone on to another address if *)
(* an attempt is under way; or each address has refused, or is left, the   *)
(* first of those being the one it waits for.                              *)
Attempt ==
  LET s == Desc(busy.h)
  IN  \/ s.st = "spoiled" /\ ~busy.waiting
      \/ s.nonblock /\ ~busy.waiting /\ (s.st = "connecting" => Len(busy.left) < Len(host.asked))
      \/ /\ ~s.nonblock
         /\ Range(host.asked) \subseteq host.refused \cup Range(busy.left)
         /\ IF busy.waiting
            THEN s.st \in {"connecting", "established", "failed"} /\ s.peer = Head(busy.left)
            ELSE s.st = "new"

Pursued ==
  ~Idle => /\ ret = NoRet
           /\ Len(busy.left) <= Len(host.asked)
           /\ host.fresh => Attempt

IInv == Typed /\ Alone /\ NoLeak /\ WaitsKept /\ Pursued /\ AllTried

USE SocketAssumption

-----------------------------------------------------------------------------
(* A set of naturals that has an element has a least one: the library says *)
(* so of a predicate that is an operator, which the provers cannot use.    *)
LEMMA LeastNatural ==
  ASSUME NEW T \in SUBSET Nat, T # {}
  PROVE  \E x \in T : \A y \in T : x <= y
<1> DEFINE R == StrictSubsetOrdering(Nat)
           D == {0 .. x : x \in T}
<1>1. \A x \in Nat : 0 .. x \in FiniteSubsetsOf(Nat)
  BY FS_Interval DEF FiniteSubsetsOf
<1>2. PICK x \in T : \A y \in T : ~ (<<0 .. y, 0 .. x>> \in R)
  <2>1. D # {} /\ D \subseteq FiniteSubsetsOf(Nat)
    BY <1>1
  <2>2. \E X \in D : \A Y \in D : ~ (<<Y, X>> \in R)
    <3> HIDE DEF R, D
    <3> QED
      BY <2>1, FS_StrictSubsetOrderingWellFounded, WFMin DEF R
  <2>3. QED
    BY <2>2
<1>3. ASSUME NEW y \in T, y < x
      PROVE  FALSE
  <2>1. 0 .. y \subseteq 0 .. x /\ x \in 0 .. x /\ x \notin 0 .. y
    BY <1>3
  <2>2. <<0 .. y, 0 .. x>> \in R
    BY <2>1 DEF StrictSubsetOrdering
  <2>3. QED
    BY <2>2, <1>2
<1>4. QED
  BY <1>3

-----------------------------------------------------------------------------
(* Facts about the operators. *)

(* A descriptor of a handle is a number or NOFD, which is none.            *)
LEMMA NoFd == NOFD \notin Fd /\ NOFD \in Int /\ \A d \in Fd : d \in Nat /\ ~(d < 0)
BY DEF NOFD

(* The kernel's entry for a descriptor is replaced or made, and no other   *)
(* changes.                                                                *)
LEMMA OpenedIs ==
  ASSUME Typed, NEW d \in Fd, NEW s \in SockRec
  PROVE  /\ Opened(d, s) \in [DOMAIN sock \cup {d} -> SockRec]
         /\ DOMAIN Opened(d, s) = DOMAIN sock \cup {d}
         /\ Opened(d, s)[d] = s
         /\ \A f \in DOMAIN sock \ {d} : Opened(d, s)[f] = sock[f]
BY DEF Typed, Opened

LEMMA PlainTyped == Plain \in SockRec /\ Plain.st = "new"
BY DEF Plain, SockRec, SockState

(* What a handle has open is an entry of the kernel's, unless it is none.  *)
LEMMA DescTyped ==
  ASSUME Typed, NEW h \in DOMAIN io, State(h) # "none"
  PROVE  io[h].fd \in DOMAIN sock /\ Desc(h) = sock[io[h].fd] /\ Desc(h) \in SockRec
<1>1. io[h].fd \in DOMAIN sock
  BY DEF State, Desc, Plain
<1>2. QED
  BY <1>1 DEF Desc, Typed

(* Handles keep their descriptors and descriptors their kind: then nothing *)
(* about who holds what changes.                                           *)
LEMMA SamePreserves ==
  ASSUME Typed, Alone, NoLeak,
         DOMAIN io' = DOMAIN io,
         \A h \in DOMAIN io : io'[h].fd = io[h].fd /\ io'[h].kind = io[h].kind,
         DOMAIN sock' = DOMAIN sock,
         \A d \in DOMAIN sock : sock'[d].st = "file" <=> sock[d].st = "file",
         UNCHANGED <<stolen, spent>>
  PROVE  Alone' /\ NoLeak' /\ Files' = Files /\ Sockets' = Sockets
<1>1. Files' = Files /\ Sockets' = Sockets /\ Live' = Live
  BY DEF Files, Sockets, Live
<1>2. Alone'
  BY <1>1 DEF Alone, Live, Files
<1>3. NoLeak'
  BY DEF NoLeak
<1>4. QED
  BY <1>1, <1>2, <1>3

(* A call that does not connect leaves no answer to account for.           *)
LEMMA CallPreserves ==
  ASSUME Typed, Call
  PROVE  /\ Pursued' /\ AllTried'
         /\ Idle' /\ busy' \in [h : Handle \cup {NONE}, left : Seq(Addr), waiting : BOOLEAN]
         /\ ret' \in [h : Handle \cup {NONE}, ans : {0, -1}, errno : Errno]
         /\ host' \in [asked : Seq(Addr), refused : SUBSET (Addr \cup {NONE}), fresh : BOOLEAN]
<1>1. Idle' /\ ret' = NoRet /\ host' = NoHost /\ busy' = busy
  BY DEF Call, Idle
<1>2. ret' = [h |-> NONE, ans |-> 0, errno |-> "none"]
  BY <1>1 DEF NoRet, Ret
<1>3. <<>> \in Seq(Addr)
  OBVIOUS
<1>4. host' \in [asked : Seq(Addr), refused : SUBSET (Addr \cup {NONE}), fresh : BOOLEAN]
  BY <1>1, <1>3 DEF NoHost
<1>5. Pursued'
  BY <1>1 DEF Pursued
<1>6. AllTried'
  BY <1>2 DEF AllTried
<1>7. QED
  BY <1>1, <1>2, <1>4, <1>5, <1>6 DEF Typed, Errno

(* A new handle, with a descriptor that nobody held, or none.              *)
LEMMA AddPreserves ==
  ASSUME Typed, Alone, NoLeak, NEW h \in Handle \ DOMAIN io, NEW d \in Free \cup {NOFD},
         DOMAIN io' = DOMAIN io \cup {h},
         io'[h].fd = d, io'[h].kind \in {"socket", "file"}, io'[h].kind = "file" => d # NOFD,
         \A g \in DOMAIN io : io'[g].fd = io[g].fd /\ io'[g].kind = io[g].kind,
         d = NOFD => DOMAIN sock' = DOMAIN sock,
         d # NOFD => /\ DOMAIN sock' = DOMAIN sock \cup {d}
                     /\ sock'[d].st = "file" <=> io'[h].kind = "file",
         \A f \in DOMAIN sock : sock'[f].st = "file" <=> sock[f].st = "file",
         UNCHANGED <<stolen, spent>>
  PROVE  Alone' /\ NoLeak' /\ spent' \subseteq Files'
<1>1. /\ Live' = Live \cup {h} /\ h \notin Live /\ spent \subseteq DOMAIN io
      /\ \A g \in DOMAIN io : g \in Files' <=> g \in Files
  BY DEF Live, Typed, Files, Sockets
<1>2. d # NOFD => \A g \in Live : io[g].fd # d
  BY DEF Alone, Free
<1>3. \A g \in Files' : io'[g].fd # NOFD
  <2>1. \A g \in Files' : g = h \/ g \in Files
    BY <1>1 DEF Files
  <2>2. h \in Files' => io'[h].kind = "file"
    BY DEF Files, Sockets
  <2>3. QED
    BY <2>1, <2>2 DEF Alone, Files
<1>4. ASSUME NEW g \in Live', io'[g].fd # NOFD
      PROVE  /\ io'[g].fd \in DOMAIN sock'
             /\ sock'[io'[g].fd].st = "file" <=> io'[g].kind = "file"
  <2>1. CASE g = h
    BY <1>4, <2>1
  <2>2. CASE g # h
    <3>1. g \in Live /\ g \in DOMAIN io
      BY <1>1, <2>2 DEF Live
    <3>2. io'[g].fd \in DOMAIN sock /\ (sock[io[g].fd].st = "file" <=> io[g].kind = "file")
      BY <1>4, <3>1 DEF Alone
    <3>3. io'[g].fd \in DOMAIN sock'
      BY <3>2
    <3>4. QED
      BY <3>1, <3>2, <3>3
  <2>3. QED
    BY <2>1, <2>2
<1>5. \A g, k \in Live' : io'[g].fd = io'[k].fd /\ io'[k].fd # NOFD => g = k
  BY <1>1, <1>2 DEF Alone, Live
<1>6. Alone'
  BY <1>3, <1>4, <1>5 DEF Alone
<1>7. NoLeak'
  <2>1. \A f \in DOMAIN sock : \E g \in DOMAIN io' \ spent' : io'[g].fd = f
    BY DEF NoLeak
  <2>2. h \in DOMAIN io' \ spent'
    BY <1>1
  <2>3. QED
    BY <2>1, <2>2 DEF NoLeak
<1>8. QED
  BY <1>1, <1>6, <1>7 DEF Typed, Files

(* The system call close takes the descriptor of its own handle only, and  *)
(* that handle no longer counts: its number is gone, or it is spent, or it *)
(* is freed (:116-135).                                                    *)
LEMMA ClosesKeeps ==
  ASSUME Typed, Alone, NoLeak, NEW h \in Live, io[h].fd # NOFD, Closes(h),
         DOMAIN io' \subseteq DOMAIN io, DOMAIN io \ {h} \subseteq DOMAIN io',
         \A g \in DOMAIN io \ {h} : io'[g].fd = io[g].fd /\ io'[g].kind = io[g].kind,
         h \in DOMAIN io' => /\ io'[h].kind = io[h].kind
                             /\ \/ h \in spent' /\ io'[h].fd = io[h].fd
                                \/ h \in Sockets /\ io'[h].fd = NOFD,
         h \in spent' => h \in DOMAIN io' /\ h \in Files,
         spent' \ {h} = spent \ {h}
  PROVE  Alone' /\ NoLeak' /\ spent' \subseteq Files'
<1> DEFINE d == io[h].fd
<1>1. \A g \in Live : g # h => io[g].fd # d
  BY DEF Alone
<1>2. stolen' = {}
  BY <1>1 DEF Closes, Alone, Live
<1>3. DOMAIN sock' = DOMAIN sock \ {d} /\ \A f \in DOMAIN sock' : sock'[f] = sock[f]
  BY DEF Closes, Without
<1>4. \A g \in Live' : g \in Live /\ (g = h => io'[g].fd = NOFD)
  BY DEF Live
<1>5. \A g \in DOMAIN io' : g \in DOMAIN io /\ io'[g].kind = io[g].kind
  OBVIOUS
<1>6. \A g \in DOMAIN io' : g \in Files' <=> g \in Files
  BY <1>5 DEF Files, Sockets
<1>7. \A g \in Files' : io'[g].fd # NOFD
  <2>1. ASSUME NEW g \in Files' PROVE io'[g].fd = io[g].fd /\ g \in Files
    <3>1. g \in DOMAIN io' /\ g \in Files
      BY <1>6 DEF Files
    <3>2. g = h => h \notin Sockets
      BY <3>1 DEF Files
    <3>3. QED
      BY <1>5, <3>1, <3>2
  <2>2. QED
    BY <2>1 DEF Alone
<1>8. ASSUME NEW g \in Live', io'[g].fd # NOFD
      PROVE  /\ io'[g].fd \in DOMAIN sock'
             /\ sock'[io'[g].fd].st = "file" <=> io'[g].kind = "file"
  <2>1. g \in Live /\ g # h /\ g \in DOMAIN io'
    BY <1>4, <1>8 DEF Live
  <2>2. io'[g].fd = io[g].fd /\ io'[g].kind = io[g].kind
    BY <1>5, <2>1
  <2>3. io[g].fd \in DOMAIN sock /\ io[g].fd # d
    BY <1>1, <1>8, <2>1, <2>2 DEF Alone
  <2>4. sock[io[g].fd].st = "file" <=> io[g].kind = "file"
    BY <1>8, <2>1, <2>2 DEF Alone
  <2>5. QED
    BY <1>3, <2>2, <2>3, <2>4
<1>9. ASSUME NEW g \in Live', NEW k \in Live', io'[g].fd = io'[k].fd, io'[k].fd # NOFD
      PROVE  g = k
  <2>1. g \in Live /\ k \in Live /\ g # h /\ k # h /\ g \in DOMAIN io' /\ k \in DOMAIN io'
    BY <1>4, <1>9 DEF Live
  <2>2. QED
    BY <1>5, <1>9, <2>1 DEF Alone
<1>10. Alone'
  BY <1>2, <1>7, <1>8, <1>9 DEF Alone
<1>11. ASSUME NEW f \in DOMAIN sock'
       PROVE  \E g \in DOMAIN io' \ spent' : io'[g].fd = f
  <2>1. f \in DOMAIN sock /\ f # d
    BY <1>3
  <2>2. PICK g \in DOMAIN io \ spent : io[g].fd = f
    BY <2>1 DEF NoLeak
  <2>3. g # h /\ g \in DOMAIN io' \ spent'
    BY <2>1, <2>2
  <2>4. QED
    BY <2>2, <2>3
<1>12. NoLeak'
  BY <1>11 DEF NoLeak
<1>13. spent' \subseteq Files'
  BY <1>6 DEF Typed, Files
<1>14. QED
  BY <1>10, <1>12, <1>13

(* A handle that holds no descriptor is dropped.                           *)
LEMMA DropPreserves ==
  ASSUME Typed, Alone, NoLeak, NEW h \in DOMAIN io, h \in spent \/ io[h].fd = NOFD,
         Forget(h), UNCHANGED <<sock, stolen>>
  PROVE  Alone' /\ NoLeak' /\ spent' \subseteq Files'
<1>1. /\ DOMAIN io' = DOMAIN io \ {h} /\ \A g \in DOMAIN io' : io'[g] = io[g]
      /\ spent' = spent \ {h}
  BY DEF Forget, Without
<1>2. \A g \in Live' : g \in Live /\ g \in DOMAIN io'
  BY <1>1 DEF Live
<1>3. \A g \in DOMAIN io' : g \in Files' <=> g \in Files
  BY <1>1 DEF Files, Sockets
<1>4. \A g \in Files' : io'[g].fd # NOFD
  BY <1>1, <1>3 DEF Alone, Files
<1>5. Alone'
  BY <1>1, <1>2, <1>4 DEF Alone
<1>6. ASSUME NEW f \in DOMAIN sock
      PROVE  \E g \in DOMAIN io' \ spent' : io'[g].fd = f
  <2>1. PICK g \in DOMAIN io \ spent : io[g].fd = f
    BY DEF NoLeak
  <2>2. f # NOFD
    BY NoFd DEF Typed
  <2>3. QED
    BY <1>1, <2>1, <2>2
<1>7. NoLeak'
  BY <1>6 DEF NoLeak
<1>8. QED
  BY <1>1, <1>3, <1>5, <1>7 DEF Typed, Files

-----------------------------------------------------------------------------
LEMMA InitInv == Init => IInv
<1> SUFFICES ASSUME Init
             PROVE  IInv
  OBVIOUS
<1>1. /\ DOMAIN io = {} /\ DOMAIN sock = {} /\ DOMAIN waits = {} /\ Sockets = {} /\ Files = {}
      /\ busy = NotBusy /\ Idle /\ ret = NoRet /\ host = NoHost /\ stolen = {} /\ spent = {}
  BY DEF Init, Sockets, Files, Idle
<1>2. /\ io \in [DOMAIN io -> HandleRec] /\ waits \in [DOMAIN io -> [r : Int, w : Int]]
      /\ sock \in [DOMAIN sock -> SockRec]
  BY <1>1 DEF Init
<1>3. <<>> \in Seq(Addr)
  OBVIOUS
<1>4. Typed
  <2>1. busy \in [h : Handle \cup {NONE}, left : Seq(Addr), waiting : BOOLEAN]
    BY <1>1, <1>3 DEF NotBusy
  <2>2. ret \in [h : Handle \cup {NONE}, ans : {0, -1}, errno : Errno]
    BY <1>1 DEF NoRet, Ret, Errno
  <2>3. host \in [asked : Seq(Addr), refused : SUBSET (Addr \cup {NONE}), fresh : BOOLEAN]
    BY <1>1, <1>3 DEF NoHost
  <2>4. QED
    BY <1>1, <1>2, <2>1, <2>2, <2>3 DEF Typed
<1>5. Alone /\ NoLeak /\ WaitsKept /\ Pursued
  BY <1>1 DEF Alone, Live, NoLeak, WaitsKept, Pursued
<1>6. AllTried
  BY <1>1 DEF AllTried, NoRet, Ret
<1>7. QED
  BY <1>4, <1>5, <1>6 DEF IInv

(* What a call that does not connect has to keep.                          *)
LEMMA CallKeeps ==
  ASSUME IInv, Call,
         DOMAIN io' \subseteq Handle, io' \in [DOMAIN io' -> HandleRec],
         waits' \in [DOMAIN io' -> [r : Int, w : Int]],
         DOMAIN sock' \subseteq Fd, sock' \in [DOMAIN sock' -> SockRec],
         Alone', NoLeak', WaitsKept', spent' \subseteq Files'
  PROVE  IInv'
<1>1. Typed'
  BY CallPreserves DEF IInv, Typed
<1>2. QED
  BY <1>1, CallPreserves DEF IInv

LEMMA SettingKeeps ==
  ASSUME IInv, Call,
         io' \in [DOMAIN io -> HandleRec],
         \A h \in DOMAIN io : io'[h].fd = io[h].fd /\ io'[h].kind = io[h].kind,
         waits' \in [DOMAIN io -> [r : Int, w : Int]],
         sock' \in [DOMAIN sock -> SockRec],
         \A d \in DOMAIN sock : sock'[d].st = "file" <=> sock[d].st = "file",
         WaitsKept', UNCHANGED <<stolen, spent>>
  PROVE  IInv'
<1>1. DOMAIN io' = DOMAIN io /\ DOMAIN sock' = DOMAIN sock
  OBVIOUS
<1>2. Alone' /\ NoLeak' /\ Files' = Files
  BY <1>1, SamePreserves DEF IInv
<1>3. QED
  BY <1>1, <1>2, CallKeeps DEF IInv, Typed

-----------------------------------------------------------------------------
(* Handles come and go. *)

(* The waits of a new handle are those it was made with, and those of the  *)
(* others are kept.                                                        *)
LEMMA CreateWaits ==
  ASSUME WaitsKept, NEW h,
         DOMAIN io' = DOMAIN io \cup {h},
         io'[h].rpwait = waits'[h].r, io'[h].wpwait = waits'[h].w,
         \A g \in DOMAIN io : /\ io'[g].kind = io[g].kind /\ io'[g].rpwait = io[g].rpwait
                              /\ io'[g].wpwait \in {io[g].wpwait, -1}
                              /\ waits'[g] = waits[g]
  PROVE  WaitsKept'
<1>1. ASSUME NEW g \in Sockets', g # h
      PROVE  io'[g].rpwait = waits'[g].r /\ io'[g].wpwait \in {waits'[g].w, -1}
  <2>1. g \in DOMAIN io /\ g \in Sockets
    BY <1>1 DEF Sockets
  <2>2. io[g].rpwait = waits[g].r /\ io[g].wpwait \in {waits[g].w, -1}
    BY <2>1 DEF WaitsKept
  <2>3. QED
    BY <2>1, <2>2
<1>2. QED
  BY <1>1 DEF WaitsKept

(* cosmic_socket_new *)
LEMMA NewPreserves ==
  ASSUME IInv, NEW h \in Handle, New(h)
  PROVE  IInv'
<1> DEFINE new(d) == [kind |-> "socket", fd |-> d, rpwait |-> -1, wpwait |-> -1]
           wait == [r |-> -1, w |-> -1]
<1>1. PICK d \in Free \cup {NOFD} : /\ Create(h, "socket", d, -1, -1, io)
                                    /\ sock' = IF d = NOFD THEN sock ELSE Opened(d, Plain)
  BY DEF New
<1>2. Typed /\ Alone /\ NoLeak /\ WaitsKept /\ io \in [DOMAIN io -> HandleRec] /\ d \in Fd \cup {NOFD}
  BY DEF IInv, Typed, Free
<1>3. new(d) \in HandleRec /\ wait \in [r : Int, w : Int] /\ new(d).kind = "socket" /\ new(d).fd = d
      /\ new(d).rpwait = wait.r /\ new(d).wpwait = wait.w
  BY <1>2 DEF HandleRec
<1>4. /\ h \in Handle \ DOMAIN io
      /\ io' = [g \in DOMAIN io \cup {h} |-> IF g = h THEN new(d) ELSE io[g]]
      /\ waits' = [g \in DOMAIN io \cup {h} |-> IF g = h THEN wait ELSE waits[g]]
  BY <1>1 DEF Create
<1> HIDE DEF new, wait
<1>5. /\ DOMAIN io' = DOMAIN io \cup {h} /\ DOMAIN io' \subseteq Handle
      /\ io' \in [DOMAIN io' -> HandleRec] /\ waits' \in [DOMAIN io' -> [r : Int, w : Int]]
      /\ io'[h] = new(d) /\ waits'[h] = wait
      /\ \A g \in DOMAIN io : g # h /\ io'[g] = io[g] /\ waits'[g] = waits[g]
  BY <1>2, <1>3, <1>4 DEF Typed
<1>6. ASSUME d # NOFD
      PROVE  /\ DOMAIN sock' = DOMAIN sock \cup {d} /\ sock' \in [DOMAIN sock' -> SockRec]
             /\ sock'[d].st = "new" /\ \A f \in DOMAIN sock : sock'[f] = sock[f]
  <2>1. d \in Fd /\ d \notin DOMAIN sock /\ sock' = Opened(d, Plain)
    BY <1>1, <1>2, <1>6 DEF Free
  <2>2. /\ Opened(d, Plain) \in [DOMAIN sock \cup {d} -> SockRec]
        /\ DOMAIN Opened(d, Plain) = DOMAIN sock \cup {d}
        /\ Opened(d, Plain)[d] = Plain
        /\ \A f \in DOMAIN sock \ {d} : Opened(d, Plain)[f] = sock[f]
    BY <1>2, <2>1, OpenedIs, PlainTyped
  <2>3. QED
    BY <2>1, <2>2, PlainTyped
<1>7. d = NOFD => sock' = sock
  BY <1>1
<1>8. DOMAIN sock' \subseteq Fd /\ sock' \in [DOMAIN sock' -> SockRec]
  BY <1>2, <1>6, <1>7 DEF Typed
<1>9. UNCHANGED <<stolen, spent>> /\ Call
  BY DEF New
<1>10. Alone' /\ NoLeak' /\ spent' \subseteq Files'
  BY <1>2, <1>3, <1>4, <1>5, <1>6, <1>7, <1>9, AddPreserves
<1>11. WaitsKept'
  BY <1>2, <1>3, <1>5, CreateWaits
<1>12. QED
  BY <1>5, <1>8, <1>9, <1>10, <1>11, CallKeeps

(* cosmic_io_fs_new *)
LEMMA FsNewPreserves ==
  ASSUME IInv, NEW h \in Handle, FsNew(h)
  PROVE  IInv'
<1> DEFINE file == [Plain EXCEPT !.st = "file"]
           new(d) == [kind |-> "file", fd |-> d, rpwait |-> -1, wpwait |-> -1]
           wait == [r |-> -1, w |-> -1]
<1>1. PICK d \in Free : Create(h, "file", d, -1, -1, io) /\ sock' = Opened(d, file)
  BY DEF FsNew
<1>2. /\ Typed /\ Alone /\ NoLeak /\ WaitsKept /\ io \in [DOMAIN io -> HandleRec]
      /\ d \in Fd /\ d # NOFD /\ d \notin DOMAIN sock
  BY NoFd DEF IInv, Typed, Free
<1>3. new(d) \in HandleRec /\ wait \in [r : Int, w : Int] /\ new(d).kind = "file" /\ new(d).fd = d
      /\ new(d).rpwait = wait.r /\ new(d).wpwait = wait.w
  BY <1>2 DEF HandleRec
<1>4. /\ h \in Handle \ DOMAIN io
      /\ io' = [g \in DOMAIN io \cup {h} |-> IF g = h THEN new(d) ELSE io[g]]
      /\ waits' = [g \in DOMAIN io \cup {h} |-> IF g = h THEN wait ELSE waits[g]]
  BY <1>1 DEF Create
<1>5. file \in SockRec /\ file.st = "file"
  BY PlainTyped DEF SockRec, SockState
<1> HIDE DEF new, wait, file
<1>6. /\ DOMAIN io' = DOMAIN io \cup {h} /\ DOMAIN io' \subseteq Handle
      /\ io' \in [DOMAIN io' -> HandleRec] /\ waits' \in [DOMAIN io' -> [r : Int, w : Int]]
      /\ io'[h] = new(d) /\ waits'[h] = wait
      /\ \A g \in DOMAIN io : g # h /\ io'[g] = io[g] /\ waits'[g] = waits[g]
  BY <1>2, <1>3, <1>4 DEF Typed
<1>7. /\ DOMAIN sock' = DOMAIN sock \cup {d} /\ sock' \in [DOMAIN sock' -> SockRec]
      /\ sock'[d].st = "file" /\ \A f \in DOMAIN sock : sock'[f] = sock[f]
  <2>1. /\ Opened(d, file) \in [DOMAIN sock \cup {d} -> SockRec]
        /\ DOMAIN Opened(d, file) = DOMAIN sock \cup {d}
        /\ Opened(d, file)[d] = file
        /\ \A f \in DOMAIN sock \ {d} : Opened(d, file)[f] = sock[f]
    BY <1>2, <1>5, OpenedIs
  <2>2. QED
    BY <1>1, <1>2, <1>5, <2>1
<1>8. DOMAIN sock' \subseteq Fd
  BY <1>2, <1>7 DEF Typed
<1>9. UNCHANGED <<stolen, spent>> /\ Call
  BY DEF FsNew
<1>10. Alone' /\ NoLeak' /\ spent' \subseteq Files'
  <2>1. d \in Free \cup {NOFD}
    BY <1>1
  <2>2. QED
    BY <1>2, <1>3, <1>4, <1>6, <1>7, <1>9, <2>1, AddPreserves
<1>11. WaitsKept'
  BY <1>2, <1>3, <1>6, CreateWaits
<1>12. QED
  BY <1>6, <1>7, <1>8, <1>9, <1>10, <1>11, CallKeeps

(* cosmic_socket_io_close *)
LEMMA ClosePreserves ==
  ASSUME IInv, NEW h \in Handle, Close(h)
  PROVE  IInv'
<1>1. /\ Call /\ h \in Sockets /\ h \in DOMAIN io /\ UNCHANGED <<waits, spent>>
      /\ Typed /\ Alone /\ NoLeak /\ WaitsKept
  BY DEF Close, IInv, Sockets
<1>2. io[h].fd \in Fd \cup {NOFD} /\ io[h] \in HandleRec
  BY <1>1 DEF Typed, HandleRec
<1>3. CASE io[h].fd < 0
  <2>1. UNCHANGED <<io, sock, stolen>>
    BY <1>3 DEF Close
  <2>2. WaitsKept'
    BY <1>1, <2>1 DEF WaitsKept, Sockets
  <2>3. QED
    BY <1>1, <2>1, <2>2, SettingKeeps DEF Typed
<1>4. CASE ~(io[h].fd < 0)
  <2>1. io[h].fd # NOFD
    BY <1>4 DEF NOFD
  <2>2. Closes(h) /\ io' = [io EXCEPT ![h].fd = NOFD]
    BY <1>4 DEF Close
  <2>3. /\ DOMAIN io' = DOMAIN io /\ io' \in [DOMAIN io -> HandleRec]
        /\ io'[h] = [io[h] EXCEPT !.fd = NOFD] /\ \A g \in DOMAIN io \ {h} : io'[g] = io[g]
    BY <1>1, <1>2, <2>2 DEF Typed, HandleRec
  <2>4. /\ io'[h].fd = NOFD /\ io'[h].kind = io[h].kind
        /\ io'[h].rpwait = io[h].rpwait /\ io'[h].wpwait = io[h].wpwait
    BY <1>2, <2>3 DEF HandleRec
  <2>5. h \in Live /\ h \notin spent
    BY <1>1 DEF Live, Typed, Files
  <2>6. Alone' /\ NoLeak' /\ spent' \subseteq Files'
    BY <1>1, <2>1, <2>2, <2>3, <2>4, <2>5, ClosesKeeps
  <2>7. DOMAIN sock' \subseteq Fd /\ sock' \in [DOMAIN sock' -> SockRec]
    BY <1>1, <2>2 DEF Closes, Without, Typed
  <2>8. WaitsKept'
    <3>1. Sockets' = Sockets
      BY <2>3, <2>4 DEF Sockets
    <3>2. QED
      BY <1>1, <2>3, <2>4, <3>1 DEF WaitsKept, Sockets
  <2>9. QED
    BY <1>1, <2>3, <2>6, <2>7, <2>8, CallKeeps DEF Typed
<1>5. QED
  BY <1>3, <1>4

(* The handles and the waits that are left when one is freed.              *)
LEMMA ForgetIs ==
  ASSUME Typed, WaitsKept, NEW h \in DOMAIN io, Forget(h)
  PROVE  /\ DOMAIN io' = DOMAIN io \ {h} /\ DOMAIN io' \subseteq Handle
         /\ io' \in [DOMAIN io' -> HandleRec] /\ waits' \in [DOMAIN io' -> [r : Int, w : Int]]
         /\ \A g \in DOMAIN io \ {h} : io'[g] = io[g] /\ waits'[g] = waits[g]
         /\ spent' = spent \ {h}
         /\ WaitsKept'
<1>1. /\ DOMAIN io' = DOMAIN io \ {h} /\ DOMAIN io' \subseteq Handle
      /\ io' \in [DOMAIN io' -> HandleRec] /\ waits' \in [DOMAIN io' -> [r : Int, w : Int]]
      /\ \A g \in DOMAIN io \ {h} : io'[g] = io[g] /\ waits'[g] = waits[g]
      /\ spent' = spent \ {h}
  BY DEF Forget, Without, Typed
<1>2. Sockets' = Sockets \ {h}
  BY <1>1 DEF Sockets
<1>3. WaitsKept'
  BY <1>1, <1>2 DEF WaitsKept, Sockets
<1>4. QED
  BY <1>1, <1>3

(* cosmic_socket_free *)
LEMMA FreeSocketPreserves ==
  ASSUME IInv, NEW h \in Handle, FreeSocket(h)
  PROVE  IInv'
<1>1. /\ Call /\ h \in Sockets /\ h \in DOMAIN io /\ Forget(h)
      /\ Typed /\ Alone /\ NoLeak /\ WaitsKept
  BY DEF FreeSocket, IInv, Sockets
<1>2. io[h].fd \in Fd \cup {NOFD}
  BY <1>1 DEF Typed, HandleRec
<1>3. /\ DOMAIN io' = DOMAIN io \ {h} /\ DOMAIN io' \subseteq Handle
      /\ io' \in [DOMAIN io' -> HandleRec] /\ waits' \in [DOMAIN io' -> [r : Int, w : Int]]
      /\ \A g \in DOMAIN io \ {h} : io'[g] = io[g] /\ waits'[g] = waits[g]
      /\ spent' = spent \ {h}
      /\ WaitsKept'
  BY <1>1, ForgetIs
<1>4. CASE io[h].fd < 0
  <2>1. UNCHANGED <<sock, stolen>> /\ io[h].fd = NOFD
    BY <1>2, <1>4, NoFd DEF FreeSocket
  <2>2. Alone' /\ NoLeak' /\ spent' \subseteq Files'
    BY <1>1, <2>1, DropPreserves
  <2>3. DOMAIN sock' \subseteq Fd /\ sock' \in [DOMAIN sock' -> SockRec]
    BY <1>1, <2>1 DEF Typed
  <2>4. QED
    BY <1>1, <1>3, <2>2, <2>3, CallKeeps
<1>5. CASE ~(io[h].fd < 0)
  <2>1. Closes(h) /\ io[h].fd # NOFD
    BY <1>5 DEF FreeSocket, NOFD
  <2>2. h \in Live /\ h \notin spent'
    BY <1>1, <1>3 DEF Live, Typed, Files
  <2>3. Alone' /\ NoLeak' /\ spent' \subseteq Files'
    BY <1>1, <1>3, <2>1, <2>2, ClosesKeeps
  <2>4. DOMAIN sock' \subseteq Fd /\ sock' \in [DOMAIN sock' -> SockRec]
    BY <1>1, <2>1 DEF Closes, Without, Typed
  <2>5. QED
    BY <1>1, <1>3, <2>3, <2>4, CallKeeps
<1>6. QED
  BY <1>4, <1>5

(* cosmic_io_fs_close *)
LEMMA FsClosePreserves ==
  ASSUME IInv, NEW h \in Handle, FsClose(h)
  PROVE  IInv'
<1>1. /\ Call /\ h \in Files /\ h \notin spent /\ Closes(h) /\ UNCHANGED <<io, waits>>
      /\ spent' = spent \cup {h}
      /\ Typed /\ Alone /\ NoLeak /\ WaitsKept
  BY DEF FsClose, IInv
<1>2. h \in Live /\ h \in DOMAIN io /\ io[h].fd # NOFD
  BY <1>1 DEF Live, Files, Alone
<1>3. Alone' /\ NoLeak' /\ spent' \subseteq Files'
  BY <1>1, <1>2, ClosesKeeps
<1>4. DOMAIN sock' \subseteq Fd /\ sock' \in [DOMAIN sock' -> SockRec]
  BY <1>1 DEF Closes, Without, Typed
<1>5. WaitsKept'
  BY <1>1 DEF WaitsKept, Sockets
<1>6. QED
  BY <1>1, <1>3, <1>4, <1>5, CallKeeps DEF Typed

(* cosmic_io_fs_free *)
LEMMA FsFreePreserves ==
  ASSUME IInv, NEW h \in Handle, FsFree(h)
  PROVE  IInv'
<1>1. /\ Call /\ h \in spent /\ Forget(h) /\ UNCHANGED <<sock, stolen>>
      /\ Typed /\ Alone /\ NoLeak /\ WaitsKept
  BY DEF FsFree, IInv
<1>2. h \in DOMAIN io
  BY <1>1 DEF Typed, Files
<1>3. Alone' /\ NoLeak' /\ spent' \subseteq Files'
  BY <1>1, <1>2, DropPreserves
<1>4. DOMAIN sock' \subseteq Fd /\ sock' \in [DOMAIN sock' -> SockRec]
  BY <1>1 DEF Typed
<1>5. QED
  BY <1>1, <1>2, <1>3, <1>4, ForgetIs, CallKeeps

-----------------------------------------------------------------------------
(* Settings and the passive side. *)

LEMMA SetRpwaitPreserves ==
  ASSUME IInv, NEW h \in Handle, NEW t \in Wait[h], SetRpwait(h, t)
  PROVE  IInv'
<1>1. /\ Call /\ h \in Sockets /\ h \in DOMAIN io /\ t \in Int
      /\ io' = [io EXCEPT ![h].rpwait = t] /\ waits' = [waits EXCEPT ![h].r = t]
      /\ UNCHANGED <<sock, stolen, spent>> /\ Typed /\ WaitsKept
  BY DEF SetRpwait, IInv, Sockets
<1>2. io[h] \in HandleRec /\ waits[h] \in [r : Int, w : Int]
  BY <1>1 DEF Typed
<1>3. /\ io'[h] = [io[h] EXCEPT !.rpwait = t] /\ waits'[h] = [waits[h] EXCEPT !.r = t]
      /\ \A g \in DOMAIN io \ {h} : io'[g] = io[g] /\ waits'[g] = waits[g]
      /\ DOMAIN io' = DOMAIN io
  BY <1>1 DEF Typed
<1>4. /\ io'[h].kind = io[h].kind /\ io'[h].fd = io[h].fd /\ io'[h].rpwait = t
      /\ io'[h].wpwait = io[h].wpwait /\ waits'[h].r = t /\ waits'[h].w = waits[h].w
      /\ io'[h] \in HandleRec /\ waits'[h] \in [r : Int, w : Int]
  BY <1>1, <1>2, <1>3 DEF HandleRec
<1>5. io' \in [DOMAIN io -> HandleRec] /\ waits' \in [DOMAIN io -> [r : Int, w : Int]]
  BY <1>1, <1>3, <1>4 DEF Typed
<1>6. WaitsKept'
  <2>1. Sockets' = Sockets
    BY <1>3, <1>4 DEF Sockets
  <2>2. QED
    BY <1>1, <1>3, <1>4, <2>1 DEF WaitsKept, Sockets
<1>7. QED
  BY <1>1, <1>3, <1>4, <1>5, <1>6, SettingKeeps DEF Typed

LEMMA SetWpwaitPreserves ==
  ASSUME IInv, NEW h \in Handle, NEW t \in Wait[h], SetWpwait(h, t)
  PROVE  IInv'
<1>1. /\ Call /\ h \in Sockets /\ h \in DOMAIN io /\ t \in Int
      /\ io' = [io EXCEPT ![h].wpwait = t] /\ waits' = [waits EXCEPT ![h].w = t]
      /\ UNCHANGED <<sock, stolen, spent>> /\ Typed /\ WaitsKept
  BY DEF SetWpwait, IInv, Sockets
<1>2. io[h] \in HandleRec /\ waits[h] \in [r : Int, w : Int]
  BY <1>1 DEF Typed
<1>3. /\ io'[h] = [io[h] EXCEPT !.wpwait = t] /\ waits'[h] = [waits[h] EXCEPT !.w = t]
      /\ \A g \in DOMAIN io \ {h} : io'[g] = io[g] /\ waits'[g] = waits[g]
      /\ DOMAIN io' = DOMAIN io
  BY <1>1 DEF Typed
<1>4. /\ io'[h].kind = io[h].kind /\ io'[h].fd = io[h].fd /\ io'[h].wpwait = t
      /\ io'[h].rpwait = io[h].rpwait /\ waits'[h].w = t /\ waits'[h].r = waits[h].r
      /\ io'[h] \in HandleRec /\ waits'[h] \in [r : Int, w : Int]
  BY <1>1, <1>2, <1>3 DEF HandleRec
<1>5. io' \in [DOMAIN io -> HandleRec] /\ waits' \in [DOMAIN io -> [r : Int, w : Int]]
  BY <1>1, <1>3, <1>4 DEF Typed
<1>6. WaitsKept'
  <2>1. Sockets' = Sockets
    BY <1>3, <1>4 DEF Sockets
  <2>2. QED
    BY <1>1, <1>3, <1>4, <2>1 DEF WaitsKept, Sockets
<1>7. QED
  BY <1>1, <1>3, <1>4, <1>5, <1>6, SettingKeeps DEF Typed

(* An entry of the kernel's is replaced by another of its kind.            *)
LEMMA PutIs ==
  ASSUME Typed, NEW d \in DOMAIN sock, NEW s \in SockRec, s.st = "file" <=> sock[d].st = "file",
         sock' = Opened(d, s)
  PROVE  /\ DOMAIN sock' = DOMAIN sock /\ sock' \in [DOMAIN sock -> SockRec] /\ sock'[d] = s
         /\ \A f \in DOMAIN sock : sock'[f].st = "file" <=> sock[f].st = "file"
<1>1. d \in Fd
  BY DEF Typed
<1>2. /\ Opened(d, s) \in [DOMAIN sock \cup {d} -> SockRec]
      /\ DOMAIN Opened(d, s) = DOMAIN sock \cup {d}
      /\ Opened(d, s)[d] = s
      /\ \A f \in DOMAIN sock \ {d} : Opened(d, s)[f] = sock[f]
  BY <1>1, OpenedIs
<1>3. QED
  BY <1>2

LEMMA AlterPreserves ==
  ASSUME IInv, NEW h \in Sockets, Call, UNCHANGED <<io, waits, stolen, spent>>,
         \/ sock' = sock
         \/ /\ State(h) # "none"
            /\ \E s \in SockRec : (s.st = "file" <=> State(h) = "file") /\ sock' = Opened(io[h].fd, s)
  PROVE  IInv'
<1>1. Typed /\ WaitsKept /\ h \in DOMAIN io
  BY DEF IInv, Sockets
<1>2. WaitsKept'
  BY <1>1 DEF WaitsKept, Sockets
<1>3. /\ sock' \in [DOMAIN sock -> SockRec]
      /\ \A f \in DOMAIN sock : sock'[f].st = "file" <=> sock[f].st = "file"
  <2>1. CASE sock' = sock
    BY <1>1, <2>1 DEF Typed
  <2>2. CASE sock' # sock
    <3>1. PICK s \in SockRec : (s.st = "file" <=> State(h) = "file") /\ sock' = Opened(io[h].fd, s)
      BY <2>2
    <3>2. io[h].fd \in DOMAIN sock /\ Desc(h) = sock[io[h].fd]
      BY <1>1, <2>2, DescTyped
    <3>3. State(h) = sock[io[h].fd].st
      BY <3>2 DEF State
    <3>4. QED
      BY <1>1, <3>1, <3>2, <3>3, PutIs
  <2>3. QED
    BY <2>1, <2>2
<1>4. QED
  BY <1>1, <1>2, <1>3, SettingKeeps DEF Typed

(* cosmic_socket_set_nonblock *)
LEMMA SetNonblockPreserves ==
  ASSUME IInv, NEW h \in Handle, NEW on \in BOOLEAN, SetNonblock(h, on)
  PROVE  IInv'
<1> DEFINE s == [Desc(h) EXCEPT !.nonblock = on]
<1>1. /\ Call /\ h \in Sockets /\ UNCHANGED <<io, waits, stolen, spent>>
      /\ sock' = IF State(h) # "none" THEN Opened(io[h].fd, s) ELSE sock
  BY DEF SetNonblock, Alter
<1>2. ASSUME State(h) # "none"
      PROVE  s \in SockRec /\ s.st = State(h)
  <2>1. Desc(h) \in SockRec
    BY <1>1, <1>2, DescTyped DEF IInv, Sockets
  <2>2. QED
    BY <2>1 DEF SockRec, State
<1> HIDE DEF s
<1>3. QED
  BY <1>1, <1>2, AlterPreserves

(* cosmic_socket_bind_to_host: the address that the socket is bound to is  *)
(* one of the host's.                                                      *)
LEMMA BindPreserves ==
  ASSUME IInv, NEW h \in Handle, NEW xs \in Hosts, Bind(h, xs)
  PROVE  IInv'
<1> DEFINE open == {k \in DOMAIN xs : ~InUse(xs[k])}
           first == CHOOSE k \in open : \A l \in open : k <= l
           s == [Desc(h) EXCEPT !.addr = xs[first]]
           ok == State(h) = "new" /\ Desc(h).addr = NONE /\ open # {}
<1>1. /\ Call /\ h \in Sockets /\ UNCHANGED <<io, waits, stolen, spent>>
      /\ sock' = IF ok THEN Opened(io[h].fd, s) ELSE sock
  BY DEF Bind, Alter
<1>2. ASSUME ok
      PROVE  s \in SockRec /\ s.st = State(h) /\ State(h) # "none"
  <2>1. Desc(h) \in SockRec
    BY <1>1, <1>2, DescTyped DEF IInv, Sockets
  <2>2. xs \in Seq(Addr) /\ open \subseteq Nat
    OBVIOUS
  <2>3. \E k \in open : \A l \in open : k <= l
    <3> HIDE DEF open
    <3> QED
      BY <1>2, <2>2, LeastNatural
  <2>4. first \in DOMAIN xs
    BY <2>3
  <2>5. xs[first] \in Addr
    <3> HIDE DEF first
    <3> QED
      BY <2>2, <2>4
  <2> HIDE DEF first
  <2>6. QED
    BY <1>2, <2>1, <2>5 DEF SockRec, State
<1> HIDE DEF s, ok
<1>3. QED
  BY <1>1, <1>2, AlterPreserves

(* cosmic_socket_listen *)
LEMMA ListenPreserves ==
  ASSUME IInv, NEW h \in Handle, Listen(h)
  PROVE  IInv'
<1> DEFINE s == [Desc(h) EXCEPT !.st = "listening"]
<1>1. /\ Call /\ h \in Sockets /\ UNCHANGED <<io, waits, stolen, spent>>
      /\ sock' = IF State(h) \in {"new", "listening"} THEN Opened(io[h].fd, s) ELSE sock
  BY DEF Listen, Alter
<1>2. ASSUME State(h) \in {"new", "listening"}
      PROVE  s \in SockRec /\ s.st = "listening" /\ State(h) # "none" /\ State(h) # "file"
  <2>1. Desc(h) \in SockRec
    BY <1>1, <1>2, DescTyped DEF IInv, Sockets
  <2>2. QED
    BY <1>2, <2>1 DEF SockRec, SockState
<1> HIDE DEF s
<1>3. QED
  BY <1>1, <1>2, AlterPreserves

(* cosmic_socket_accept: the connection is a descriptor of its own, held   *)
(* by the new handle alone; the write wait of the old handle goes back to  *)
(* -1 and its other fields are kept (:247-262).                            *)
LEMMA AcceptPreserves ==
  ASSUME IInv, NEW h \in Handle, NEW cl \in Handle, Accept(h, cl)
  PROVE  IInv'
<1> DEFINE kept == Accepted(h, cl)
           new(d) == [kind |-> "socket", fd |-> d, rpwait |-> -1, wpwait |-> 0]
           wait == [r |-> -1, w |-> 0]
           peer == [Plain EXCEPT !.st = "connected"]
<1>1. /\ Call /\ h \in Sockets /\ h \in DOMAIN io /\ UNCHANGED <<stolen, spent>>
      /\ Typed /\ Alone /\ NoLeak /\ WaitsKept
  BY DEF Accept, IInv, Sockets
<1>2. CASE /\ State(h) = "listening"
           /\ \E d \in Free :
                /\ Create(cl, "socket", d, -1, 0, kept)
                /\ sock' = [Opened(d, peer) EXCEPT ![io[h].fd].pending = FALSE]
  <2>1. PICK d \in Free : /\ Create(cl, "socket", d, -1, 0, kept)
                          /\ sock' = [Opened(d, peer) EXCEPT ![io[h].fd].pending = FALSE]
    BY <1>2
  <2>2. d \in Fd /\ d # NOFD /\ d \notin DOMAIN sock
    BY NoFd DEF Free
  <2>3. io[h].fd \in DOMAIN sock /\ sock[io[h].fd].st = "listening"
    BY <1>1, <1>2, DescTyped DEF State
  <2>4. /\ kept \in [DOMAIN io -> HandleRec]
        /\ \A g \in DOMAIN io :
             /\ kept[g].kind = io[g].kind /\ kept[g].fd = io[g].fd /\ kept[g].rpwait = io[g].rpwait
             /\ kept[g].wpwait \in {io[g].wpwait, -1}
    <3>1. kept = [io EXCEPT ![h] = [io[h] EXCEPT !.wpwait = -1]]
      BY DEF Accepted
    <3>2. io[h] \in HandleRec
      BY <1>1 DEF Typed
    <3>3. /\ [io[h] EXCEPT !.wpwait = -1] \in HandleRec
          /\ [io[h] EXCEPT !.wpwait = -1].kind = io[h].kind
          /\ [io[h] EXCEPT !.wpwait = -1].fd = io[h].fd
          /\ [io[h] EXCEPT !.wpwait = -1].rpwait = io[h].rpwait
          /\ [io[h] EXCEPT !.wpwait = -1].wpwait = -1
      BY <3>2 DEF HandleRec
    <3>4. QED
      BY <1>1, <3>1, <3>3 DEF Typed
  <2>5. /\ new(d) \in HandleRec /\ wait \in [r : Int, w : Int] /\ new(d).kind = "socket"
        /\ new(d).fd = d /\ new(d).rpwait = wait.r /\ new(d).wpwait = wait.w
    BY <2>2 DEF HandleRec
  <2>6. /\ cl \notin DOMAIN io
        /\ io' = [g \in DOMAIN io \cup {cl} |-> IF g = cl THEN new(d) ELSE kept[g]]
        /\ waits' = [g \in DOMAIN io \cup {cl} |-> IF g = cl THEN wait ELSE waits[g]]
    <3>1. DOMAIN kept = DOMAIN io
      BY <2>4
    <3> HIDE DEF kept
    <3>2. QED
      BY <2>1, <3>1 DEF Create
  <2>7. peer \in SockRec /\ peer.st = "connected"
    BY PlainTyped DEF SockRec, SockState
  <2> HIDE DEF kept, new, wait, peer
  <2>8. /\ DOMAIN io' = DOMAIN io \cup {cl} /\ DOMAIN io' \subseteq Handle
        /\ io' \in [DOMAIN io' -> HandleRec] /\ waits' \in [DOMAIN io' -> [r : Int, w : Int]]
        /\ io'[cl] = new(d) /\ waits'[cl] = wait
        /\ \A g \in DOMAIN io : g # cl /\ io'[g] = kept[g] /\ waits'[g] = waits[g]
    BY <1>1, <2>4, <2>5, <2>6 DEF Typed
  <2>9. /\ DOMAIN sock' = DOMAIN sock \cup {d} /\ sock' \in [DOMAIN sock' -> SockRec]
        /\ sock'[d].st = "connected"
        /\ \A f \in DOMAIN sock : sock'[f].st = sock[f].st
    <3>1. /\ Opened(d, peer) \in [DOMAIN sock \cup {d} -> SockRec]
          /\ DOMAIN Opened(d, peer) = DOMAIN sock \cup {d}
          /\ Opened(d, peer)[d] = peer
          /\ \A f \in DOMAIN sock \ {d} : Opened(d, peer)[f] = sock[f]
      BY <1>1, <2>2, <2>7, OpenedIs
    <3> DEFINE open == Opened(d, peer)
               e == io[h].fd
    <3>2. sock' = [open EXCEPT ![e] = [open[e] EXCEPT !.pending = FALSE]]
      BY <2>1
    <3>3. e # d /\ e \in DOMAIN sock /\ open[e] = sock[e] /\ open[e] \in SockRec
      BY <2>2, <2>3, <3>1
    <3>4. [open[e] EXCEPT !.pending = FALSE] \in SockRec /\ [open[e] EXCEPT !.pending = FALSE].st = sock[e].st
      BY <3>3 DEF SockRec
    <3> HIDE DEF open, e
    <3>5. /\ sock' \in [DOMAIN sock \cup {d} -> SockRec]
          /\ \A f \in DOMAIN sock \cup {d} : f # e => sock'[f] = open[f]
          /\ sock'[e].st = sock[e].st
      BY <3>1, <3>2, <3>3, <3>4 DEF open
    <3>6. sock'[d] = peer /\ \A f \in DOMAIN sock : sock'[f].st = sock[f].st
      BY <2>2, <3>1, <3>3, <3>5 DEF open
    <3>7. QED
      BY <2>7, <3>5, <3>6
  <2>10. DOMAIN sock' \subseteq Fd
    BY <1>1, <2>2, <2>9 DEF Typed
  <2>11. Alone' /\ NoLeak' /\ spent' \subseteq Files'
    <3>1. d \in Free \cup {NOFD} /\ cl \in Handle \ DOMAIN io
      BY <2>1, <2>6
    <3>2. io'[cl].fd = d /\ io'[cl].kind = "socket"
      BY <2>5, <2>8
    <3>3. \A g \in DOMAIN io : io'[g].fd = io[g].fd /\ io'[g].kind = io[g].kind
      BY <2>4, <2>8
    <3>4. \A f \in DOMAIN sock : sock'[f].st = "file" <=> sock[f].st = "file"
      BY <2>9
    <3>5. QED
      BY <1>1, <2>2, <2>8, <2>9, <3>1, <3>2, <3>3, <3>4, AddPreserves
  <2>12. WaitsKept'
    <3>1. io'[cl].rpwait = waits'[cl].r /\ io'[cl].wpwait = waits'[cl].w
      BY <2>5, <2>8
    <3>2. \A g \in DOMAIN io : /\ io'[g].kind = io[g].kind /\ io'[g].rpwait = io[g].rpwait
                               /\ io'[g].wpwait \in {io[g].wpwait, -1}
                               /\ waits'[g] = waits[g]
      BY <2>4, <2>8
    <3>3. QED
      BY <1>1, <2>8, <3>1, <3>2, CreateWaits
  <2>13. QED
    BY <1>1, <2>8, <2>9, <2>10, <2>11, <2>12, CallKeeps
<1>3. CASE UNCHANGED <<io, sock, waits>>
  BY <1>1, <1>3, AlterPreserves
<1>4. QED
  BY <1>2, <1>3 DEF Accept

-----------------------------------------------------------------------------
(* The active side. *)

(* What a step of a connect, or of the network, has to keep.               *)
LEMMA StepKeeps ==
  ASSUME IInv, UNCHANGED <<io, waits, stolen, spent>>,
         sock' \in [DOMAIN sock -> SockRec],
         \A d \in DOMAIN sock : sock'[d].st = "file" <=> sock[d].st = "file",
         busy' \in [h : Handle \cup {NONE}, left : Seq(Addr), waiting : BOOLEAN],
         Idle' \/ (busy'.h \in Sockets /\ busy'.left # <<>>),
         ret' \in [h : Handle \cup {NONE}, ans : {0, -1}, errno : Errno],
         host' \in [asked : Seq(Addr), refused : SUBSET (Addr \cup {NONE}), fresh : BOOLEAN],
         Pursued', AllTried'
  PROVE  IInv'
<1>1. DOMAIN sock' = DOMAIN sock /\ Typed /\ WaitsKept
  BY DEF IInv
<1>2. Alone' /\ NoLeak' /\ Files' = Files /\ Sockets' = Sockets
  BY <1>1, SamePreserves DEF IInv
<1>3. Typed'
  BY <1>1, <1>2 DEF Typed
<1>4. WaitsKept'
  BY <1>1, <1>2 DEF WaitsKept
<1>5. QED
  BY <1>2, <1>3, <1>4 DEF IInv

(* cosmic_socket_connect_to_host begins: every address is left.            *)
LEMMA ConnectPreserves ==
  ASSUME IInv, NEW h \in Handle, NEW xs \in Hosts, Connect(h, xs)
  PROVE  IInv'
<1>1. /\ Idle /\ h \in Sockets /\ UNCHANGED <<io, sock, waits, stolen, spent>>
      /\ host' = [asked |-> xs, refused |-> {}, fresh |-> State(h) = "new"]
      /\ xs \in Seq(Addr) /\ Typed
  BY DEF Connect, IInv
<1>2. host' \in [asked : Seq(Addr), refused : SUBSET (Addr \cup {NONE}), fresh : BOOLEAN]
  BY <1>1
<1>3. host'.asked = xs /\ host'.refused = {} /\ host'.fresh = (State(h) = "new")
  BY <1>1
<1>4. CASE xs = <<>> /\ ret' = Ret(h, -1, "other") /\ UNCHANGED busy
  <2>1. ret' \in [h : Handle \cup {NONE}, ans : {0, -1}, errno : Errno]
    BY <1>4 DEF Ret, Errno
  <2>2. Idle' /\ Pursued'
    BY <1>1, <1>4 DEF Idle, Pursued
  <2>3. Range(host'.asked) \subseteq host'.refused
    BY <1>3, <1>4 DEF Range
  <2>4. AllTried'
    BY <2>3 DEF AllTried
  <2>5. QED
    BY <1>1, <1>2, <1>4, <2>1, <2>2, <2>4, StepKeeps DEF Typed
<1>5. CASE xs # <<>> /\ busy' = [h |-> h, left |-> xs, waiting |-> FALSE] /\ ret' = NoRet
  <2>1. /\ busy' \in [h : Handle \cup {NONE}, left : Seq(Addr), waiting : BOOLEAN]
        /\ busy'.h = h /\ busy'.left = xs /\ busy'.waiting = FALSE
    BY <1>1, <1>5
  <2>2. ret' \in [h : Handle \cup {NONE}, ans : {0, -1}, errno : Errno] /\ ret'.ans = 0
    BY <1>5 DEF NoRet, Ret, Errno
  <2>3. AllTried'
    BY <2>2 DEF AllTried
  <2>4. ASSUME host'.fresh
        PROVE  Attempt'
    <3>1. Desc(h)' = Desc(h) /\ Desc(h).st = "new"
      BY <1>1, <1>3, <2>4 DEF Desc, State
    <3>2. Desc(busy.h)' = Desc(h)'
      BY <2>1 DEF Desc
    <3>3. CASE Desc(h).nonblock
      BY <2>1, <3>1, <3>2, <3>3 DEF Attempt
    <3>4. CASE ~Desc(h).nonblock
      BY <1>3, <2>1, <3>1, <3>2, <3>4 DEF Attempt
    <3>5. QED
      BY <3>3, <3>4
  <2>5. Len(busy'.left) <= Len(host'.asked)
    BY <1>1, <1>3, <2>1
  <2>6. Pursued'
    BY <1>5, <2>4, <2>5 DEF Pursued
  <2>7. QED
    BY <1>1, <1>2, <1>5, <2>1, <2>2, <2>3, <2>6, StepKeeps DEF Typed
<1>6. QED
  BY <1>4, <1>5 DEF Connect

(* The addresses that are left are the first and those after it.           *)
LEMMA TailIs ==
  ASSUME NEW xs \in Seq(Addr), xs # <<>>, Len(xs) # 1
  PROVE  /\ Tail(xs) \in Seq(Addr) /\ Tail(xs) # <<>> /\ Len(Tail(xs)) < Len(xs)
         /\ Range(xs) = {Head(xs)} \cup Range(Tail(xs))
<1>1. Len(xs) \in Nat /\ Len(xs) # 0
  BY EmptySeq, LenProperties
<1>2. Tail(xs) \in Seq(Addr) /\ Len(Tail(xs)) = Len(xs) - 1
  BY HeadTailProperties
<1>3. \A i \in 1 .. Len(xs) - 1 : Tail(xs)[i] = xs[i + 1]
  BY <1>2, HeadTailProperties
<1>4. DOMAIN xs = 1 .. Len(xs) /\ DOMAIN Tail(xs) = 1 .. Len(xs) - 1
  BY <1>2, LenProperties
<1>5. Head(xs) = xs[1]
  BY HeadTailProperties
<1> HIDE DEF Range
<1>6. ASSUME NEW y \in Range(xs)
      PROVE  y \in {Head(xs)} \cup Range(Tail(xs))
  <2>1. PICK i \in 1 .. Len(xs) : xs[i] = y
    BY <1>4, <1>6 DEF Range
  <2>2. CASE i = 1
    BY <1>5, <2>1, <2>2
  <2>3. CASE i # 1
    <3>1. i - 1 \in 1 .. Len(xs) - 1 /\ (i - 1) + 1 = i
      BY <1>1, <2>3
    <3>2. Tail(xs)[i - 1] = y
      BY <1>3, <2>1, <3>1
    <3>3. QED
      BY <1>4, <3>1, <3>2 DEF Range
  <2>4. QED
    BY <2>2, <2>3
<1>7. ASSUME NEW y \in Range(Tail(xs))
      PROVE  y \in Range(xs)
  <2>1. PICK i \in 1 .. Len(xs) - 1 : Tail(xs)[i] = y
    BY <1>4 DEF Range
  <2>2. i + 1 \in 1 .. Len(xs)
    BY <1>1
  <2>3. QED
    BY <1>3, <1>4, <2>1, <2>2 DEF Range
<1>8. Head(xs) \in Range(xs)
  <2>1. 1 \in 1 .. Len(xs)
    BY <1>1
  <2>2. QED
    BY <1>4, <1>5, <2>1 DEF Range
<1>9. Tail(xs) # <<>>
  <2>1. Len(Tail(xs)) # 0
    BY <1>1, <1>2
  <2>2. QED
    BY <2>1, EmptySeq
<1>10. Len(Tail(xs)) < Len(xs)
  BY <1>1, <1>2
<1>11. QED
  BY <1>2, <1>6, <1>7, <1>8, <1>9, <1>10

(* After a failure the first address is done with: it was the last, or the *)
(* others are left (:188).                                                 *)
LEMMA FailedIs ==
  ASSUME Typed, ~Idle, NEW e \in Errno, Failed(e)
  PROVE  \/ /\ Len(busy.left) = 1 /\ Range(busy.left) = {Head(busy.left)}
            /\ busy' = NotBusy /\ ret' = Ret(busy.h, -1, e)
         \/ /\ Tail(busy.left) \in Seq(Addr) /\ Tail(busy.left) # <<>>
            /\ Len(Tail(busy.left)) < Len(busy.left)
            /\ Range(busy.left) = {Head(busy.left)} \cup Range(Tail(busy.left))
            /\ busy' = [h |-> busy.h, left |-> Tail(busy.left), waiting |-> FALSE] /\ ret' = ret
<1>1. busy.left \in Seq(Addr) /\ busy.left # <<>>
  BY DEF Typed
<1>2. CASE Len(busy.left) = 1
  <2>1. Range(busy.left) = {Head(busy.left)}
    BY <1>1, <1>2 DEF Range
  <2>2. busy' = NotBusy /\ ret' = Ret(busy.h, -1, e)
    BY <1>2 DEF Failed, Returns
  <2>3. QED
    BY <1>2, <2>1, <2>2
<1>3. CASE Len(busy.left) # 1
  <2>1. busy' = [busy EXCEPT !.left = Tail(busy.left), !.waiting = FALSE] /\ ret' = ret
    BY <1>3 DEF Failed
  <2>2. busy' = [h |-> busy.h, left |-> Tail(busy.left), waiting |-> FALSE]
    BY <2>1 DEF Typed
  <2>3. QED
    BY <1>1, <1>3, <2>1, <2>2, TailIs
<1>4. QED
  BY <1>2, <1>3

(* A failed attempt, at an address that has refused where R says so: what  *)
(* the descriptor has become keeps the account of the addresses.           *)
LEMMA FailurePreserves ==
  ASSUME IInv, ~Idle, UNCHANGED <<io, waits, stolen, spent>>,
         sock' \in [DOMAIN sock -> SockRec],
         \A d \in DOMAIN sock : sock'[d].st = "file" <=> sock[d].st = "file",
         NEW e \in Errno, Failed(e),
         NEW R \in SUBSET (Addr \cup {NONE}), host' = [host EXCEPT !.refused = @ \cup R],
         NEW h \in Sockets, busy.h = h,
         host.fresh => \/ State(h)' = "spoiled"
                       \/ /\ Desc(h)'.nonblock
                          /\ State(h)' = "connecting" =>
                               e = "EINPROGRESS" \/ (e = "EALREADY" /\ Len(busy.left) < Len(host.asked))
                       \/ /\ ~Desc(h)'.nonblock /\ State(h)' = "new" /\ Head(busy.left) \in R
                          /\ Range(host.asked) \subseteq host.refused \cup Range(busy.left)
  PROVE  IInv'
<1>1. /\ Typed /\ ret = NoRet /\ busy.left \in Seq(Addr) /\ busy.left # <<>>
      /\ Len(busy.left) <= Len(host.asked) /\ h \in Handle
  BY DEF IInv, Pursued, Typed, Sockets
<1>2. /\ host' \in [asked : Seq(Addr), refused : SUBSET (Addr \cup {NONE}), fresh : BOOLEAN]
      /\ host'.asked = host.asked /\ host'.fresh = host.fresh /\ host'.refused = host.refused \cup R
  BY <1>1 DEF Typed
<1>3. Len(busy.left) \in Nat /\ Len(host.asked) \in Nat
  BY <1>1 DEF Typed
<1>4. CASE /\ Len(busy.left) = 1 /\ Range(busy.left) = {Head(busy.left)}
           /\ busy' = NotBusy /\ ret' = Ret(h, -1, e)
  <2>1. Idle' /\ Pursued' /\ ret'.h = h /\ ret'.errno = e
    BY <1>4 DEF Idle, Pursued, Ret
  <2>2. ret' \in [h : Handle \cup {NONE}, ans : {0, -1}, errno : Errno]
    BY <1>1, <1>4 DEF Ret
  <2>3. busy' \in [h : Handle \cup {NONE}, left : Seq(Addr), waiting : BOOLEAN]
    BY <1>4 DEF NotBusy
  <2>4. Desc(ret.h)' = Desc(h)' /\ State(ret.h)' = State(h)'
    BY <2>1 DEF Desc, State
  <2>5. ASSUME host.fresh
        PROVE  \/ Range(host'.asked) \subseteq host'.refused
               \/ State(ret.h)' = "spoiled"
               \/ Desc(ret.h)'.nonblock /\ (State(ret.h)' = "connecting" => ProgressReported')
    <3>1. CASE State(h)' = "spoiled"
      BY <2>4, <3>1
    <3>2. CASE /\ Desc(h)'.nonblock
               /\ State(h)' = "connecting" =>
                    e = "EINPROGRESS" \/ (e = "EALREADY" /\ Len(busy.left) < Len(host.asked))
      <4>1. Len(busy.left) < Len(host.asked) => Len(host'.asked) > 1
        BY <1>2, <1>3, <1>4
      <4>2. State(h)' = "connecting" => ProgressReported'
        BY <2>1, <3>2, <4>1 DEF ProgressReported
      <4>3. QED
        BY <2>4, <3>2, <4>2
    <3>3. CASE /\ Head(busy.left) \in R
               /\ Range(host.asked) \subseteq host.refused \cup Range(busy.left)
      BY <1>2, <1>4, <3>3
    <3>4. QED
      BY <2>5, <3>1, <3>2, <3>3
  <2>6. AllTried'
    BY <1>2, <2>5 DEF AllTried
  <2>7. QED
    BY <1>2, <2>1, <2>2, <2>3, <2>6, StepKeeps
<1>5. CASE /\ Tail(busy.left) \in Seq(Addr) /\ Tail(busy.left) # <<>>
           /\ Len(Tail(busy.left)) < Len(busy.left)
           /\ Range(busy.left) = {Head(busy.left)} \cup Range(Tail(busy.left))
           /\ busy' = [h |-> h, left |-> Tail(busy.left), waiting |-> FALSE] /\ ret' = ret
  <2>1. /\ busy'.h = h /\ busy'.left = Tail(busy.left) /\ busy'.waiting = FALSE
        /\ busy' \in [h : Handle \cup {NONE}, left : Seq(Addr), waiting : BOOLEAN]
    BY <1>1, <1>5
  <2>2. Len(Tail(busy.left)) \in Nat
    BY <1>5
  <2>3. Len(busy'.left) < Len(host'.asked)
    BY <1>1, <1>2, <1>3, <1>5, <2>1, <2>2
  <2>4. Desc(busy.h)' = Desc(h)' /\ State(h)' = Desc(h)'.st
    BY <2>1 DEF Desc, State
  <2>5. ASSUME host.fresh
        PROVE  Attempt'
    <3>1. CASE State(h)' = "spoiled"
      BY <2>1, <2>4, <3>1 DEF Attempt
    <3>2. CASE Desc(h)'.nonblock
      BY <2>1, <2>3, <2>4, <3>2 DEF Attempt
    <3>3. CASE /\ ~Desc(h)'.nonblock /\ State(h)' = "new" /\ Head(busy.left) \in R
               /\ Range(host.asked) \subseteq host.refused \cup Range(busy.left)
      <4>1. Range(host'.asked) \subseteq host'.refused \cup Range(busy'.left)
        BY <1>2, <1>5, <2>1, <3>3
      <4>2. QED
        BY <2>1, <2>4, <3>3, <4>1 DEF Attempt
    <3>4. QED
      BY <2>5, <3>1, <3>2, <3>3
  <2>6. ret' = NoRet /\ ret' \in [h : Handle \cup {NONE}, ans : {0, -1}, errno : Errno] /\ ret'.ans = 0
    BY <1>1, <1>5 DEF NoRet, Ret, Errno
  <2>7. Pursued'
    <3>1. Len(busy'.left) <= Len(host'.asked)
      BY <1>2, <1>3, <2>1, <2>2, <2>3
    <3>2. QED
      BY <1>2, <2>5, <2>6, <3>1 DEF Pursued
  <2>8. AllTried'
    BY <2>6 DEF AllTried
  <2>9. QED
    BY <1>2, <1>5, <2>1, <2>6, <2>7, <2>8, StepKeeps
<1>6. QED
  BY <1>1, <1>4, <1>5, FailedIs

(* An attempt is over well.                                                *)
LEMMA ConnectedPreserves ==
  ASSUME IInv, ~Idle, UNCHANGED <<io, waits, stolen, spent>>,
         State(busy.h) # "none", State(busy.h) # "file", Connected(Desc(busy.h))
  PROVE  IInv'
<1> DEFINE s == [Desc(busy.h) EXCEPT !.st = "connected", !.peer = NONE]
<1>1. Typed /\ busy.h \in Sockets /\ busy.h \in DOMAIN io /\ busy.h \in Handle
  BY DEF IInv, Typed, Sockets
<1>2. /\ io[busy.h].fd \in DOMAIN sock /\ Desc(busy.h) = sock[io[busy.h].fd]
      /\ Desc(busy.h) \in SockRec
  BY <1>1, DescTyped
<1>3. s \in SockRec /\ s.st = "connected"
  BY <1>2 DEF SockRec, SockState
<1>4. /\ sock' = Opened(io[busy.h].fd, s) /\ busy' = NotBusy
      /\ ret' = Ret(busy.h, 0, "none") /\ host' = host
  BY DEF Connected, Put, Returns
<1> HIDE DEF s
<1>5. /\ DOMAIN sock' = DOMAIN sock /\ sock' \in [DOMAIN sock -> SockRec]
      /\ \A f \in DOMAIN sock : sock'[f].st = "file" <=> sock[f].st = "file"
  BY <1>1, <1>2, <1>3, <1>4, PutIs DEF State
<1>6. /\ ret' \in [h : Handle \cup {NONE}, ans : {0, -1}, errno : Errno] /\ ret'.ans = 0
  BY <1>1, <1>4 DEF Ret, Errno
<1>7. Idle' /\ busy' \in [h : Handle \cup {NONE}, left : Seq(Addr), waiting : BOOLEAN]
  BY <1>4 DEF NotBusy, Idle
<1>8. Pursued' /\ AllTried'
  BY <1>6, <1>7 DEF Pursued, AllTried
<1>9. QED
  BY <1>1, <1>4, <1>5, <1>6, <1>7, <1>8, StepKeeps DEF Typed

(* An address refuses.  It is the first of those left, unless the attempt  *)
(* is an older one, of a socket that does not block or was not new.        *)
LEMMA RefusePreserves ==
  ASSUME IInv, ~Idle, UNCHANGED <<io, waits, stolen, spent>>,
         State(busy.h) \in {"new", "failed"},
         NEW x \in Addr \cup {NONE}, Refuse(Desc(busy.h), x),
         host.fresh => \/ Desc(busy.h).nonblock
                       \/ /\ x = Head(busy.left)
                          /\ Range(host.asked) \subseteq host.refused \cup Range(busy.left)
  PROVE  IInv'
<1>1. Typed /\ busy.h \in Sockets /\ busy.h \in DOMAIN io
  BY DEF IInv, Typed, Sockets
<1>2. PICK h \in Sockets : h = busy.h
  BY <1>1
<1>3. /\ io[h].fd \in DOMAIN sock /\ Desc(h) = sock[io[h].fd]
      /\ Desc(h) \in SockRec /\ sock[io[h].fd].st # "file"
  BY <1>1, <1>2, DescTyped DEF State
<1>4. PICK st \in {"new", "spoiled"} : Put([Desc(busy.h) EXCEPT !.st = st, !.peer = NONE])
  BY DEF Refuse
<1> DEFINE s == [Desc(h) EXCEPT !.st = st, !.peer = NONE]
<1>5. s \in SockRec /\ s.st = st /\ s.nonblock = Desc(h).nonblock
  BY <1>3 DEF SockRec, SockState
<1>6. sock' = Opened(io[h].fd, s)
  BY <1>2, <1>4 DEF Put
<1> HIDE DEF s
<1>7. /\ DOMAIN sock' = DOMAIN sock /\ sock' \in [DOMAIN sock -> SockRec] /\ sock'[io[h].fd] = s
      /\ \A f \in DOMAIN sock : sock'[f].st = "file" <=> sock[f].st = "file"
  BY <1>1, <1>3, <1>5, <1>6, PutIs
<1>8. Desc(h)' = s /\ State(h)' = st /\ Desc(h)'.nonblock = Desc(h).nonblock
  BY <1>3, <1>5, <1>7 DEF Desc, State
<1>9. /\ host' = [host EXCEPT !.refused = @ \cup {x}]
      /\ Failed("ECONNREFUSED") /\ "ECONNREFUSED" \in Errno /\ {x} \in SUBSET (Addr \cup {NONE})
  BY DEF Refuse, Errno
<1>10. host.fresh => \/ State(h)' = "spoiled"
                     \/ Desc(h)'.nonblock /\ State(h)' # "connecting"
                     \/ /\ ~Desc(h)'.nonblock /\ State(h)' = "new" /\ Head(busy.left) \in {x}
                        /\ Range(host.asked) \subseteq host.refused \cup Range(busy.left)
  <2>1. Desc(h)'.nonblock \in BOOLEAN
    BY <1>3, <1>8 DEF SockRec
  <2>2. QED
    BY <1>2, <1>8, <2>1
<1>11. QED
  BY <1>2, <1>7, <1>9, <1>10, FailurePreserves

(* An attempt is under way.  A socket that does not block fails with the   *)
(* number given, and one that blocks waits, for the address that it has    *)
(* just tried.                                                             *)
LEMMA AwaitPreserves ==
  ASSUME IInv, ~Idle, ~busy.waiting, UNCHANGED <<io, waits, stolen, spent>>,
         sock' \in [DOMAIN sock -> SockRec],
         \A d \in DOMAIN sock : sock'[d].st = "file" <=> sock[d].st = "file",
         NEW e \in {"EINPROGRESS", "EALREADY"}, Await(Desc(busy.h), e),
         Desc(busy.h).nonblock \in BOOLEAN,
         NEW h \in Sockets, h = busy.h,
         Desc(h)'.nonblock = Desc(busy.h).nonblock, State(h)' = "connecting",
         host.fresh => \/ /\ Desc(busy.h).nonblock
                          /\ e = "EALREADY" => Len(busy.left) < Len(host.asked)
                       \/ /\ ~Desc(busy.h).nonblock /\ Desc(h)'.peer = Head(busy.left)
                          /\ Range(host.asked) \subseteq host.refused \cup Range(busy.left)
  PROVE  IInv'
<1>1. /\ Typed /\ ret = NoRet /\ busy.left \in Seq(Addr) /\ busy.left # <<>> /\ h \in Handle
      /\ Len(busy.left) <= Len(host.asked) /\ host' = host
  BY DEF IInv, Pursued, Typed, Sockets, Await
<1>2. CASE Desc(busy.h).nonblock
  <2>1. Failed(e) /\ e \in Errno /\ {} \in SUBSET (Addr \cup {NONE})
    BY <1>2 DEF Await, Errno
  <2>2. host' = [host EXCEPT !.refused = @ \cup {}]
    BY <1>1 DEF Typed
  <2>3. host.fresh =>
          /\ Desc(h)'.nonblock
          /\ State(h)' = "connecting" =>
               e = "EINPROGRESS" \/ (e = "EALREADY" /\ Len(busy.left) < Len(host.asked))
    BY <1>2
  <2>4. QED
    BY <2>1, <2>2, <2>3, FailurePreserves
<1>3. CASE ~Desc(busy.h).nonblock
  <2>1. busy' = [busy EXCEPT !.waiting = TRUE] /\ ret' = ret
    BY <1>3 DEF Await
  <2>2. /\ busy' \in [h : Handle \cup {NONE}, left : Seq(Addr), waiting : BOOLEAN]
        /\ busy'.h = h /\ busy'.left = busy.left /\ busy'.waiting = TRUE
    BY <1>1, <2>1 DEF Typed
  <2>3. Desc(busy.h)' = Desc(h)' /\ State(h)' = Desc(h)'.st
    BY <2>2 DEF Desc, State
  <2>4. host.fresh => Attempt'
    BY <1>1, <1>3, <2>2, <2>3 DEF Attempt
  <2>5. Pursued'
    BY <1>1, <2>1, <2>2, <2>4 DEF Pursued
  <2>6. AllTried'
    BY <1>1, <2>1 DEF AllTried, NoRet, Ret
  <2>7. QED
    BY <1>1, <2>1, <2>2, <2>5, <2>6, StepKeeps DEF Typed
<1>4. QED
  BY <1>2, <1>3

(* One round of the loop over the addresses (:182-193).                    *)
LEMMA ConnectNextPreserves ==
  ASSUME IInv, ConnectNext
  PROVE  IInv'
<1> DEFINE s == Desc(busy.h)
           x == Head(busy.left)
<1>1. /\ Typed /\ busy.h \in Sockets /\ busy.h \in DOMAIN io /\ ~Idle /\ ~busy.waiting
      /\ UNCHANGED <<io, waits, stolen, spent>> /\ busy.left \in Seq(Addr) /\ busy.left # <<>>
      /\ host.fresh => Attempt
  BY DEF ConnectNext, IInv, Typed, Sockets, Pursued
<1>2. PICK h \in Sockets : h = busy.h
  BY <1>1
<1>3. s.st # "none" => /\ io[h].fd \in DOMAIN sock /\ s = sock[io[h].fd] /\ s \in SockRec
                       /\ s.nonblock \in BOOLEAN /\ s.peer \in Addr \cup {NONE}
  <2>1. s.st # "none" => io[h].fd \in DOMAIN sock /\ s = sock[io[h].fd] /\ s \in SockRec
    BY <1>1, <1>2, DescTyped DEF State
  <2>2. QED
    BY <2>1 DEF SockRec
<1>4. x \in Addr
  BY <1>1
<1>5. ASSUME host.fresh
      PROVE  \/ s.st = "spoiled"
             \/ s.nonblock /\ (s.st = "connecting" => Len(busy.left) < Len(host.asked))
             \/ /\ ~s.nonblock /\ s.st = "new"
                /\ Range(host.asked) \subseteq host.refused \cup Range(busy.left)
  BY <1>1, <1>5 DEF Attempt
<1>6. State(busy.h) = s.st
  BY DEF State
<1>7. CASE s.st = "new" /\ Put([s EXCEPT !.st = "connecting", !.peer = x]) /\ Await(s, "EINPROGRESS")
  <2> DEFINE t == [s EXCEPT !.st = "connecting", !.peer = x]
  <2>1. io[h].fd \in DOMAIN sock /\ s = sock[io[h].fd] /\ s \in SockRec /\ s.nonblock \in BOOLEAN
    BY <1>3, <1>7
  <2>2. t \in SockRec /\ t.st = "connecting" /\ t.peer = x /\ t.nonblock = s.nonblock
    BY <1>4, <2>1 DEF SockRec, SockState
  <2>3. sock' = Opened(io[h].fd, t)
    BY <1>2, <1>7 DEF Put
  <2> HIDE DEF t
  <2>4. sock[io[h].fd].st # "file"
    BY <1>7, <2>1
  <2> HIDE DEF s
  <2>5. /\ DOMAIN sock' = DOMAIN sock /\ sock' \in [DOMAIN sock -> SockRec] /\ sock'[io[h].fd] = t
        /\ \A f \in DOMAIN sock : sock'[f].st = "file" <=> sock[f].st = "file"
    BY <1>1, <2>1, <2>2, <2>3, <2>4, PutIs
  <2>6. Desc(h)' = t /\ State(h)' = "connecting"
    BY <1>1, <2>1, <2>2, <2>5 DEF Desc, State
  <2>7. host.fresh => \/ s.nonblock
                      \/ /\ ~s.nonblock /\ Desc(h)'.peer = x
                         /\ Range(host.asked) \subseteq host.refused \cup Range(busy.left)
    BY <1>5, <1>7, <2>2, <2>6
  <2>8. QED
    BY <1>1, <1>2, <1>7, <2>1, <2>2, <2>5, <2>6, <2>7, AwaitPreserves DEF s
<1>8. CASE s.st = "new" /\ Refuse(s, x)
  <2>1. host.fresh => \/ s.nonblock
                      \/ Range(host.asked) \subseteq host.refused \cup Range(busy.left)
    BY <1>5, <1>8
  <2>2. QED
    BY <1>1, <1>4, <1>6, <1>8, <2>1, RefusePreserves
<1>9. CASE s.st = "connecting" /\ Await(s, "EALREADY") /\ UNCHANGED sock
  <2>1. Desc(h)' = s /\ State(h)' = "connecting"
    BY <1>1, <1>2, <1>9 DEF Desc, State
  <2>2. sock' \in [DOMAIN sock -> SockRec] /\ s.nonblock \in BOOLEAN
    BY <1>1, <1>3, <1>9 DEF Typed
  <2>3. host.fresh => s.nonblock /\ Len(busy.left) < Len(host.asked)
    BY <1>5, <1>9
  <2>4. QED
    BY <1>1, <1>2, <1>9, <2>1, <2>2, <2>3, AwaitPreserves
<1>10. CASE s.st = "established" /\ Connected(s)
  BY <1>1, <1>6, <1>10, ConnectedPreserves
<1>11. CASE s.st = "failed" /\ Refuse(s, s.peer)
  <2>1. host.fresh => s.nonblock
    BY <1>5, <1>11
  <2>2. s.peer \in Addr \cup {NONE}
    BY <1>3, <1>11
  <2>3. QED
    BY <1>1, <1>6, <1>11, <2>1, <2>2, RefusePreserves
<1>12. CASE /\ s.st \in {"none", "spoiled", "listening", "connected", "file"}
            /\ Failed("other") /\ UNCHANGED <<sock, host>>
  <2>1. Desc(h)' = s /\ State(h)' = s.st
    BY <1>1, <1>2, <1>12 DEF Desc, State
  <2>2. sock' \in [DOMAIN sock -> SockRec]
    BY <1>1, <1>12 DEF Typed
  <2>3. host.fresh => \/ State(h)' = "spoiled"
                      \/ Desc(h)'.nonblock /\ State(h)' # "connecting"
    BY <1>5, <1>12, <2>1
  <2>4. host' = [host EXCEPT !.refused = @ \cup {}] /\ {} \in SUBSET (Addr \cup {NONE}) /\ "other" \in Errno
    BY <1>1, <1>12 DEF Typed, Errno
  <2>5. QED
    BY <1>1, <1>2, <1>12, <2>2, <2>3, <2>4, FailurePreserves
<1>13. QED
  BY <1>7, <1>8, <1>9, <1>10, <1>11, <1>12 DEF ConnectNext

(* The kernel answers a connect that waits.                                *)
LEMMA ConnectDonePreserves ==
  ASSUME IInv, ConnectDone
  PROVE  IInv'
<1> DEFINE s == Desc(busy.h)
<1>1. /\ Typed /\ busy.h \in Sockets /\ busy.h \in DOMAIN io /\ ~Idle /\ busy.waiting
      /\ UNCHANGED <<io, waits, stolen, spent>>
      /\ host.fresh => Attempt
  BY DEF ConnectDone, IInv, Typed, Sockets, Pursued
<1>2. State(busy.h) = s.st
  BY DEF State
<1>3. CASE s.st = "established" /\ Connected(s)
  BY <1>1, <1>2, <1>3, ConnectedPreserves
<1>4. CASE s.st = "failed" /\ Refuse(s, s.peer)
  <2>1. host.fresh => /\ s.peer = Head(busy.left)
                      /\ Range(host.asked) \subseteq host.refused \cup Range(busy.left)
    BY <1>1, <1>4 DEF Attempt
  <2>2. s \in SockRec
    BY <1>1, <1>2, <1>4, DescTyped
  <2>3. s.peer \in Addr \cup {NONE}
    BY <2>2 DEF SockRec
  <2>4. QED
    BY <1>1, <1>2, <1>4, <2>1, <2>3, RefusePreserves
<1>5. QED
  BY <1>3, <1>4 DEF ConnectDone

-----------------------------------------------------------------------------
(* The network moves an attempt on, or brings a connection to accept.      *)
LEMMA NetworkPreserves ==
  ASSUME IInv, Network
  PROVE  IInv'
<1>1. UNCHANGED <<io, busy, ret, waits, host, stolen, spent>> /\ Typed /\ Pursued /\ AllTried
  BY DEF Network, IInv
<1>2. PICK d \in DOMAIN sock :
        \/ /\ sock[d].st = "connecting"
           /\ \E st \in {"established", "failed"} : sock' = [sock EXCEPT ![d].st = st]
        \/ sock[d].st = "listening" /\ sock' = [sock EXCEPT ![d].pending = TRUE]
  BY DEF Network
<1>3. sock[d] \in SockRec
  BY <1>1 DEF Typed
<1>4. /\ sock' \in [DOMAIN sock -> SockRec]
      /\ \A f \in DOMAIN sock :
           /\ sock'[f].nonblock = sock[f].nonblock /\ sock'[f].peer = sock[f].peer
           /\ \/ sock'[f].st = sock[f].st
              \/ sock[f].st = "connecting" /\ sock'[f].st \in {"established", "failed"}
  <2>1. CASE /\ sock[d].st = "connecting"
             /\ \E st \in {"established", "failed"} : sock' = [sock EXCEPT ![d].st = st]
    <3>1. PICK st \in {"established", "failed"} : sock' = [sock EXCEPT ![d].st = st]
      BY <2>1
    <3> DEFINE s == [sock[d] EXCEPT !.st = st]
    <3>2. s \in SockRec /\ s.st = st /\ s.nonblock = sock[d].nonblock /\ s.peer = sock[d].peer
      BY <1>3 DEF SockRec, SockState
    <3>3. sock' = [sock EXCEPT ![d] = s]
      BY <3>1
    <3> HIDE DEF s
    <3>4. QED
      BY <1>1, <2>1, <3>2, <3>3 DEF Typed
  <2>2. CASE sock' = [sock EXCEPT ![d].pending = TRUE]
    <3> DEFINE s == [sock[d] EXCEPT !.pending = TRUE]
    <3>1. s \in SockRec /\ s.st = sock[d].st /\ s.nonblock = sock[d].nonblock /\ s.peer = sock[d].peer
      BY <1>3 DEF SockRec
    <3>2. sock' = [sock EXCEPT ![d] = s]
      BY <2>2
    <3> HIDE DEF s
    <3>3. QED
      BY <1>1, <3>1, <3>2 DEF Typed
  <2>3. QED
    BY <1>2, <2>1, <2>2
<1>5. ASSUME NEW h
      PROVE  /\ Desc(h)'.nonblock = Desc(h).nonblock /\ Desc(h)'.peer = Desc(h).peer
             /\ \/ Desc(h)'.st = Desc(h).st
                \/ Desc(h).st = "connecting" /\ Desc(h)'.st \in {"established", "failed"}
  <2>1. CASE io[h].fd \in DOMAIN sock
    <3>1. Desc(h) = sock[io[h].fd] /\ Desc(h)' = sock'[io[h].fd]
      BY <1>1, <1>4, <2>1 DEF Desc
    <3>2. QED
      BY <1>4, <2>1, <3>1
  <2>2. CASE io[h].fd \notin DOMAIN sock
    <3>1. Desc(h)' = Desc(h)
      BY <1>1, <1>4, <2>2 DEF Desc
    <3>2. QED
      BY <3>1
  <2>3. QED
    BY <2>1, <2>2
<1>6. Pursued'
  <2>1. /\ Desc(busy.h)'.nonblock = Desc(busy.h).nonblock /\ Desc(busy.h)'.peer = Desc(busy.h).peer
        /\ \/ Desc(busy.h)'.st = Desc(busy.h).st
           \/ Desc(busy.h).st = "connecting" /\ Desc(busy.h)'.st \in {"established", "failed"}
    <3>1. PICK h : h = busy.h
      OBVIOUS
    <3>2. Desc(busy.h)' = Desc(h)' /\ Desc(busy.h) = Desc(h)
      BY <1>1, <3>1 DEF Desc
    <3>3. QED
      BY <1>5, <3>2
  <2>2. Attempt => Attempt'
    BY <1>1, <2>1 DEF Attempt
  <2>3. QED
    BY <1>1, <2>2 DEF Pursued, Idle
<1>7. AllTried'
  <2>1. /\ Desc(ret.h)'.nonblock = Desc(ret.h).nonblock
        /\ \/ State(ret.h)' = State(ret.h)
           \/ State(ret.h) = "connecting" /\ State(ret.h)' \in {"established", "failed"}
    <3>1. PICK h : h = ret.h
      OBVIOUS
    <3>2. Desc(ret.h)' = Desc(h)' /\ Desc(ret.h) = Desc(h)
      BY <1>1, <3>1 DEF Desc
    <3>3. State(ret.h)' = Desc(ret.h)'.st /\ State(ret.h) = Desc(ret.h).st
      BY DEF State
    <3>4. QED
      BY <1>5, <3>2, <3>3
  <2>2. QED
    BY <1>1, <2>1 DEF AllTried, ProgressReported
<1>8. \A f \in DOMAIN sock : sock'[f].st = "file" <=> sock[f].st = "file"
  BY <1>4
<1>9. Idle' \/ (busy'.h \in Sockets /\ busy'.left # <<>>)
  BY <1>1 DEF Typed, Idle
<1>10. QED
  BY <1>1, <1>4, <1>6, <1>7, <1>8, <1>9, StepKeeps DEF Typed

-----------------------------------------------------------------------------
LEMMA NextPreserves == IInv /\ [Next]_vars => IInv'
<1> SUFFICES ASSUME IInv, [Next]_vars
             PROVE  IInv'
  OBVIOUS
<1>1. CASE UNCHANGED vars
  BY <1>1 DEF vars, IInv, Typed, Alone, Live, NoLeak, WaitsKept, Pursued, Attempt, AllTried,
              ProgressReported, Idle, Sockets, Files, State, Desc
<1>2. CASE ConnectNext \/ ConnectDone \/ Network
  BY <1>2, ConnectNextPreserves, ConnectDonePreserves, NetworkPreserves
<1>3. ASSUME NEW h \in Handle,
             New(h) \/ Close(h) \/ FreeSocket(h) \/ FsNew(h) \/ FsClose(h) \/ FsFree(h) \/ Listen(h)
      PROVE  IInv'
  BY <1>3, NewPreserves, ClosePreserves, FreeSocketPreserves, FsNewPreserves, FsClosePreserves,
     FsFreePreserves, ListenPreserves
<1>4. ASSUME NEW h \in Handle, NEW t \in Wait[h], SetRpwait(h, t) \/ SetWpwait(h, t)
      PROVE  IInv'
  BY <1>4, SetRpwaitPreserves, SetWpwaitPreserves
<1>5. ASSUME NEW h \in Handle, NEW on \in BOOLEAN, SetNonblock(h, on)
      PROVE  IInv'
  BY <1>5, SetNonblockPreserves
<1>6. ASSUME NEW h \in Handle, NEW xs \in Hosts, Bind(h, xs) \/ Connect(h, xs)
      PROVE  IInv'
  BY <1>6, BindPreserves, ConnectPreserves
<1>7. ASSUME NEW h \in Handle, NEW cl \in Handle, Accept(h, cl)
      PROVE  IInv'
  BY <1>7, AcceptPreserves
<1>8. QED
  BY <1>1, <1>2, <1>3, <1>4, <1>5, <1>6, <1>7 DEF Next

LEMMA AlwaysIInv == Spec => []IInv
BY InitInv, NextPreserves, PTL DEF Spec

-----------------------------------------------------------------------------
(* Every variable has its type, and no handle ever loses its descriptor to *)
(* another, however descriptors are closed and given out again (:116-135). *)
THEOREM OwnedAlways == Spec => []Owned
<1>1. IInv => Owned
  <2> SUFFICES ASSUME IInv
               PROVE  Owned
    OBVIOUS
  <2>1. Typed /\ Alone
    BY DEF IInv
  <2>2. TypeOK
    <3>1. DOMAIN io \subseteq Handle /\ DOMAIN waits = DOMAIN io /\ DOMAIN sock \subseteq Fd
      BY <2>1 DEF Typed
    <3>2. \A h \in DOMAIN io :
            /\ io[h].kind \in {"socket", "file"} /\ io[h].fd \in Fd \cup {NOFD}
            /\ io[h].rpwait \in Int /\ io[h].wpwait \in Int
      <4>1. \A h \in DOMAIN io : io[h] \in HandleRec
        BY <2>1 DEF Typed
      <4>2. QED
        BY <4>1 DEF HandleRec
    <3>3. ASSUME NEW d \in DOMAIN sock
          PROVE  /\ sock[d].st \in {"new", "listening", "connecting", "established", "failed",
                                    "spoiled", "connected", "file"}
                 /\ sock[d].addr \in Addr \cup {NONE} /\ sock[d].peer \in Addr \cup {NONE}
                 /\ sock[d].nonblock \in BOOLEAN /\ sock[d].pending \in BOOLEAN
      <4>1. sock[d] \in SockRec
        BY <2>1 DEF Typed
      <4>2. QED
        BY <4>1 DEF SockRec, SockState
    <3>4. /\ ~Idle => busy.h \in Sockets /\ busy.left # <<>>
          /\ ret.ans \in {0, -1} /\ spent \subseteq Files
      BY <2>1 DEF Typed
    <3>5. QED
      BY <3>1, <3>2, <3>3, <3>4 DEF TypeOK
  <2>3. ASSUME NEW h \in Sockets, io[h].fd # NOFD
        PROVE  /\ State(h) \notin {"none", "file"}
               /\ \A g \in DOMAIN io \ {h} : io[g].fd = io[h].fd => g \in spent
    <3>1. h \in Live /\ io[h].kind = "socket"
      BY <2>1 DEF Typed, Live, Files, Sockets
    <3>2. io[h].fd \in DOMAIN sock /\ sock[io[h].fd].st # "file"
      BY <2>1, <2>3, <3>1 DEF Alone
    <3>3. State(h) = sock[io[h].fd].st /\ sock[io[h].fd].st \in SockState
      BY <2>1, <3>2 DEF State, Desc, Typed, SockRec
    <3>4. \A g \in DOMAIN io \ {h} : io[g].fd = io[h].fd => g \in spent
      BY <2>1, <2>3, <3>1 DEF Alone, Live
    <3>5. QED
      BY <3>2, <3>3, <3>4 DEF SockState
  <2>4. QED
    BY <2>1, <2>2, <2>3 DEF Owned, Alone
<1>2. QED
  BY <1>1, AlwaysIInv, PTL

(* No descriptor is left behind, whatever fails and whichever handle is    *)
(* freed (:149-152).                                                       *)
THEOREM NoLeakAlways == Spec => []NoLeak
<1>1. IInv => NoLeak
  BY DEF IInv
<1>2. QED
  BY <1>1, AlwaysIInv, PTL

(* The waits of a handle are those it was last given, but for a write wait *)
(* that an accept on it has put back to -1 (:257).                         *)
THEOREM WaitsKeptAlways == Spec => []WaitsKept
<1>1. IInv => WaitsKept
  BY DEF IInv
<1>2. QED
  BY <1>1, AlwaysIInv, PTL

(* A connect to a host that fails on a new socket has found every address  *)
(* closed, or could not try again, or reports the attempt under way,       *)
(* whatever addresses the name has (:184-190).                             *)
THEOREM AllTriedAlways == Spec => []AllTried
<1>1. IInv => AllTried
  BY DEF IInv
<1>2. QED
  BY <1>1, AlwaysIInv, PTL
=============================================================================
