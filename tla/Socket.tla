------------------------------- MODULE Socket -------------------------------
(***************************************************************************)
(* The handles of src/cosmic_socket.c and src/cosmic_io_fs.c: objects that *)
(* hold a descriptor of the process.  A descriptor that is closed is given *)
(* out again by the kernel, while handles may still remember it.  Calls    *)
(* that connect may wait for the network; all others are one step.         *)
(*                                                                         *)
(* The kernel is external: the operators on sock say what the system calls *)
(* do with a descriptor, as far as the code can tell.  No signal           *)
(* interrupts a connect.                                                   *)
(***************************************************************************)
EXTENDS Integers, SequencesExt

CONSTANTS
  Handle,   (* addresses of cosmic_io_t                                     *)
  Fd,       (* descriptors, from 0                                          *)
  Addr,     (* addresses to bind to and to connect to                       *)
  Wait,     (* waits that the caller sets on each handle                    *)
  Hosts,    (* names: the addresses that getaddrinfo finds for each         *)
  NONE      (* no handle, no address                                        *)

ASSUME SocketAssumption ==
  /\ Fd \subseteq Nat /\ \A h \in Handle : Wait[h] \subseteq Int
  /\ Hosts \subseteq Seq(Addr)
  /\ NONE \notin Handle /\ NONE \notin Addr

VARIABLES
  io,       (* the handles: kind, fd, rpwait, wpwait                        *)
  sock,     (* open descriptors: state, own address, peer of the attempt    *)
            (* under way, O_NONBLOCK, a connection waits to be accepted     *)
  busy,     (* the connect under way: handle, addresses left, and whether   *)
            (* it waits in the kernel; the process has one thread           *)
  ret,      (* what the last call has answered, if it was a connect         *)
  waits,    (* history: the waits each handle was last given                *)
  host,     (* history: the addresses it was asked for, those that refused, *)
            (* and whether its socket was new                               *)
  stolen,   (* history: handles whose descriptor another one has closed     *)
  spent     (* history: file streams that have been closed                  *)

vars == <<io, sock, busy, ret, waits, host, stolen, spent>>

NOFD == -1
NotBusy == [h |-> NONE, left |-> <<>>, waiting |-> FALSE]
NoHost == [asked |-> <<>>, refused |-> {}, fresh |-> FALSE]
Ret(h, ans, errno) == [h |-> h, ans |-> ans, errno |-> errno]
NoRet == Ret(NONE, 0, "none")

Free == Fd \ DOMAIN sock
Opened(d, s) == [f \in DOMAIN sock \cup {d} |-> IF f = d THEN s ELSE sock[f]]
Plain == [st |-> "new", addr |-> NONE, peer |-> NONE, nonblock |-> FALSE, pending |-> FALSE]
Desc(h) == IF io[h].fd \in DOMAIN sock THEN sock[io[h].fd] ELSE [Plain EXCEPT !.st = "none"]
State(h) == Desc(h).st

Init ==
  /\ io = [h \in {} |-> 0]
  /\ sock = [d \in {} |-> 0]
  /\ busy = NotBusy
  /\ ret = NoRet
  /\ waits = [h \in {} |-> 0]
  /\ host = NoHost
  /\ stolen = {}
  /\ spent = {}

-----------------------------------------------------------------------------
(* Handles come and go. *)

Idle == busy = NotBusy

(* The calls that do not connect. *)
Call == Idle /\ ret' = NoRet /\ host' = NoHost /\ UNCHANGED busy
Sockets == {h \in DOMAIN io : io[h].kind = "socket"}
Files == DOMAIN io \ Sockets

Create(h, kind, d, rpwait, wpwait, kept) ==
  /\ h \notin DOMAIN kept
  /\ io' = [g \in DOMAIN kept \cup {h} |->
              IF g = h THEN [kind |-> kind, fd |-> d, rpwait |-> rpwait, wpwait |-> wpwait]
              ELSE kept[g]]
  /\ waits' = [g \in DOMAIN kept \cup {h} |-> IF g = h THEN [r |-> rpwait, w |-> wpwait] ELSE waits[g]]

Without(f, h) == [g \in DOMAIN f \ {h} |-> f[g]]

(* cosmic_socket_new; where no descriptor can be had, fd is -1. *)
New(h) ==
  /\ Call
  /\ \E d \in Free \cup {NOFD} :
       /\ Create(h, "socket", d, -1, -1, io)
       /\ sock' = IF d = NOFD THEN sock ELSE Opened(d, Plain)
  /\ UNCHANGED <<stolen, spent>>

(* cosmic_io_fs_new, of a descriptor that the caller has opened. *)
FsNew(h) ==
  /\ Call
  /\ \E d \in Free :
       /\ Create(h, "file", d, -1, -1, io)
       /\ sock' = Opened(d, [Plain EXCEPT !.st = "file"])
  /\ UNCHANGED <<stolen, spent>>

(* The system call close for h: whoever holds the descriptor loses it. *)
Closes(h) ==
  LET d == io[h].fd
  IN  /\ sock' = Without(sock, d)
      /\ stolen' = stolen \cup {g \in DOMAIN io \ ({h} \cup spent) : io[g].fd = d /\ d \in DOMAIN sock}

(* Mutant: the handle keeps its descriptor, as a file stream does. *)
CloseKeep(h) == Call /\ h \in Sockets /\ Closes(h) /\ UNCHANGED <<io, waits, spent>>

(* cosmic_socket_io_close *)
Close(h) ==
  /\ Call /\ h \in Sockets
  /\ IF io[h].fd < 0 THEN UNCHANGED <<io, sock, stolen>>
     ELSE Closes(h) /\ io' = [io EXCEPT ![h].fd = NOFD]
  /\ UNCHANGED <<waits, spent>>

Forget(h) ==
  /\ io' = Without(io, h)
  /\ waits' = Without(waits, h)
  /\ spent' = spent \ {h}

(* Mutant: the descriptor is left open. *)
FreeOnly(h) == Call /\ h \in Sockets /\ Forget(h) /\ UNCHANGED <<sock, stolen>>

(* cosmic_socket_free closes first. *)
FreeSocket(h) ==
  /\ Call /\ h \in Sockets
  /\ IF io[h].fd < 0 THEN UNCHANGED <<sock, stolen>> ELSE Closes(h)
  /\ Forget(h)

(* cosmic_io_fs_close leaves the number of the descriptor in the handle,   *)
(* which may soon be that of another one: the caller closes once.          *)
FsClose(h) ==
  /\ Call /\ h \in Files \ spent
  /\ Closes(h)
  /\ spent' = spent \cup {h}
  /\ UNCHANGED <<io, waits>>

(* cosmic_io_fs_free frees the handle only, so the caller has closed it. *)
FsFree(h) ==
  /\ Call /\ h \in spent
  /\ Forget(h)
  /\ UNCHANGED <<sock, stolen>>

-----------------------------------------------------------------------------
(* Settings. *)

SetRpwait(h, t) ==
  /\ Call /\ h \in Sockets
  /\ io' = [io EXCEPT ![h].rpwait = t]
  /\ waits' = [waits EXCEPT ![h].r = t]
  /\ UNCHANGED <<sock, stolen, spent>>

SetWpwait(h, t) ==
  /\ Call /\ h \in Sockets
  /\ io' = [io EXCEPT ![h].wpwait = t]
  /\ waits' = [waits EXCEPT ![h].w = t]
  /\ UNCHANGED <<sock, stolen, spent>>

(* A system call on the descriptor of h, that changes it or fails. *)
Alter(h, ok, s) ==
  /\ Call /\ h \in Sockets
  /\ sock' = IF ok THEN Opened(io[h].fd, s) ELSE sock
  /\ UNCHANGED <<io, waits, stolen, spent>>

SetNonblock(h, on) == Alter(h, State(h) # "none", [Desc(h) EXCEPT !.nonblock = on])

-----------------------------------------------------------------------------
(* The passive side. *)

InUse(x) == \E d \in DOMAIN sock : sock[d].addr = x

(* cosmic_socket_bind_to_host tries the addresses in turn, which takes no  *)
(* time and leaves no trace where it fails; cosmic_socket_bind has one.    *)
Bind(h, xs) ==
  LET open == {k \in DOMAIN xs : ~InUse(xs[k])}
      first == CHOOSE k \in open : \A l \in open : k <= l
  IN  Alter(h, State(h) = "new" /\ Desc(h).addr = NONE /\ open # {}, [Desc(h) EXCEPT !.addr = xs[first]])

Listen(h) == Alter(h, State(h) \in {"new", "listening"}, [Desc(h) EXCEPT !.st = "listening"])

(* Mutant: the read wait goes to the wrong handle. *)
AcceptedInto(h, cl) == [io EXCEPT ![h].rpwait = -1]

(* io->rpwait = s->wpwait = -1 sets a wait of each of the two handles. *)
Accepted(h, cl) == [io EXCEPT ![h].wpwait = -1]

(* cosmic_socket_accept: the new handle cl, or a null pointer.  calloc     *)
(* has made its wpwait 0.  Without a connection to accept, a blocking      *)
(* socket waits for one.                                                   *)
Accept(h, cl) ==
  /\ Call /\ h \in Sockets
  /\ \/ /\ State(h) = "listening" /\ Desc(h).pending
        /\ \E d \in Free :
             /\ Create(cl, "socket", d, -1, 0, Accepted(h, cl))
             /\ sock' = [Opened(d, [Plain EXCEPT !.st = "connected"]) EXCEPT ![io[h].fd].pending = FALSE]
     \/ /\ State(h) # "listening" \/ Desc(h).nonblock \/ Free = {}
        /\ UNCHANGED <<io, sock, waits>>
  /\ UNCHANGED <<stolen, spent>>

-----------------------------------------------------------------------------
(* The active side. *)

(* cosmic_socket_connect_to_host begins, with the addresses that           *)
(* getaddrinfo has found for the name; cosmic_socket_connect has one.      *)
Connect(h, xs) ==
  /\ Idle /\ h \in Sockets
  /\ \/ xs = <<>> /\ ret' = Ret(h, -1, "other") /\ UNCHANGED busy
     \/ xs # <<>> /\ busy' = [h |-> h, left |-> xs, waiting |-> FALSE] /\ ret' = NoRet
  /\ host' = [asked |-> xs, refused |-> {}, fresh |-> State(h) = "new"]
  /\ UNCHANGED <<io, sock, waits, stolen, spent>>

Returns(ans, errno) ==
  /\ busy' = NotBusy
  /\ ret' = Ret(busy.h, ans, errno)

(* Mutants: the first failure is the answer; the list is not advanced.     *)
FailedAtOnce(errno) == Returns(-1, errno)
FailedSame(errno) ==
  IF Len(busy.left) = 1 THEN Returns(-1, errno)
  ELSE busy' = [busy EXCEPT !.waiting = FALSE] /\ UNCHANGED ret

(* connect has failed: the next address, or the answer of the last one. *)
Failed(errno) ==
  IF Len(busy.left) = 1 THEN Returns(-1, errno)
  ELSE busy' = [busy EXCEPT !.left = Tail(@), !.waiting = FALSE] /\ UNCHANGED ret

Put(s) == sock' = Opened(io[busy.h].fd, s)

(* After a failure a descriptor may be good for another attempt or not. *)
Refuse(s, x) ==
  /\ \E st \in {"new", "spoiled"} : Put([s EXCEPT !.st = st, !.peer = NONE])
  /\ host' = [host EXCEPT !.refused = @ \cup {x}]
  /\ Failed("ECONNREFUSED")

Connected(s) ==
  Put([s EXCEPT !.st = "connected", !.peer = NONE]) /\ Returns(0, "none") /\ UNCHANGED host

(* An attempt is under way: wait for it, or do not. *)
Await(s, errno) ==
  /\ IF s.nonblock THEN Failed(errno)
     ELSE busy' = [busy EXCEPT !.waiting = TRUE] /\ UNCHANGED ret
  /\ UNCHANGED host

(* The system call connect, for the first of the addresses left. *)
ConnectNext ==
  LET s == Desc(busy.h)
      x == Head(busy.left)
  IN  /\ ~Idle /\ ~busy.waiting
      /\ \/ s.st = "new" /\ Put([s EXCEPT !.st = "connecting", !.peer = x]) /\ Await(s, "EINPROGRESS")
         \/ s.st = "new" /\ Refuse(s, x)
         \/ s.st = "connecting" /\ Await(s, "EALREADY") /\ UNCHANGED sock
         \/ s.st = "established" /\ Connected(s)
         \/ s.st = "failed" /\ Refuse(s, s.peer)
         \/ /\ s.st \in {"none", "spoiled", "listening", "connected", "file"}
            /\ Failed("other") /\ UNCHANGED <<sock, host>>
      /\ UNCHANGED <<io, waits, stolen, spent>>

(* A connect that waits is answered. *)
ConnectDone ==
  LET s == Desc(busy.h)
  IN  /\ ~Idle /\ busy.waiting
      /\ \/ s.st = "established" /\ Connected(s)
         \/ s.st = "failed" /\ Refuse(s, s.peer)
      /\ UNCHANGED <<io, waits, stolen, spent>>

(* The network: an attempt succeeds or fails, or a connection comes in. *)
Network ==
  /\ \E d \in DOMAIN sock :
       \/ /\ sock[d].st = "connecting"
          /\ \E st \in {"established", "failed"} : sock' = [sock EXCEPT ![d].st = st]
       \/ /\ sock[d].st = "listening" /\ ~sock[d].pending
          /\ sock' = [sock EXCEPT ![d].pending = TRUE]
  /\ UNCHANGED <<io, busy, ret, waits, host, stolen, spent>>


Next ==
  \/ ConnectNext \/ ConnectDone \/ Network
  \/ \E h \in Handle :
       \/ New(h) \/ Close(h) \/ FreeSocket(h) \/ FsNew(h) \/ FsClose(h) \/ FsFree(h) \/ Listen(h)
       \/ \E t \in Wait[h] : SetRpwait(h, t) \/ SetWpwait(h, t)
       \/ \E on \in BOOLEAN : SetNonblock(h, on)
       \/ \E xs \in Hosts : Bind(h, xs) \/ Connect(h, xs)
       \/ \E cl \in Handle : Accept(h, cl)

(* The kernel answers a connect that waits, and the loop goes on. *)
Spec == Init /\ [][Next]_vars /\ WF_vars(ConnectNext) /\ WF_vars(ConnectDone) /\ WF_vars(Network)
-----------------------------------------------------------------------------
(* Every variable has its type.                                            *)
TypeOK ==
  /\ DOMAIN io \subseteq Handle /\ DOMAIN waits = DOMAIN io
  /\ \A h \in DOMAIN io :
       /\ io[h].kind \in {"socket", "file"} /\ io[h].fd \in Fd \cup {NOFD}
       /\ io[h].rpwait \in Int /\ io[h].wpwait \in Int
  /\ DOMAIN sock \subseteq Fd
  /\ \A d \in DOMAIN sock :
       /\ sock[d].st \in {"new", "listening", "connecting", "established", "failed",
                          "spoiled", "connected", "file"}
       /\ sock[d].addr \in Addr \cup {NONE} /\ sock[d].peer \in Addr \cup {NONE}
       /\ sock[d].nonblock \in BOOLEAN /\ sock[d].pending \in BOOLEAN
  /\ ~Idle => busy.h \in Sockets /\ busy.left # <<>>
  /\ ret.ans \in {0, -1}
  /\ spent \subseteq Files

(* Every variable has its type, and however descriptors are closed and     *)
(* given out again: a socket handle that holds one is alone with it, but   *)
(* for file streams already closed, and no handle has lost its descriptor  *)
(* to another (:116-135).                                                  *)
Owned ==
  /\ TypeOK
  /\ stolen = {}
  /\ \A h \in Sockets :
       io[h].fd # NOFD =>
         /\ State(h) \notin {"none", "file"}
         /\ \A g \in DOMAIN io \ {h} : io[g].fd = io[h].fd => g \in spent

(* No descriptor is left behind: each is held by a handle, through failed  *)
(* connects, accepts, closes and frees (:149-152).                         *)
NoLeak == \A d \in DOMAIN sock : \E h \in DOMAIN io \ spent : io[h].fd = d

(* A read wait is what the handle was last given, and so is a write wait   *)
(* but for one that an accept on the handle has put back to -1 (:257).     *)
WaitsKept ==
  \A h \in Sockets :
    io[h].rpwait = waits[h].r /\ io[h].wpwait \in {waits[h].w, -1}

(* An attempt that is under way is reported as such, unless the host has   *)
(* several addresses: then the connect to the next one, on the same        *)
(* descriptor, puts EALREADY in its place.                                 *)
ProgressReported ==
  \/ ret.errno = "EINPROGRESS"
  \/ ret.errno = "EALREADY" /\ Len(host.asked) > 1

(* A connect to a host that is answered by -1, on a socket that was new,   *)
(* has found every address of the host closed, unless the system has not   *)
(* let the descriptor try twice; or the socket is nonblocking, and if its  *)
(* attempt is still under way, errno says so, for which the caller looks   *)
(* before it polls (:184-190, tests/test_socket.c:16).                     *)
AllTried ==
  ret.ans = -1 /\ host.fresh =>
    \/ Range(host.asked) \subseteq host.refused
    \/ State(ret.h) = "spoiled"
    \/ Desc(ret.h).nonblock /\ (State(ret.h) = "connecting" => ProgressReported)

(* A connect returns, whatever the addresses answer: the loop over them    *)
(* comes to its end (:182-193).                                            *)
ConnectReturns == ~Idle ~> Idle
=============================================================================
