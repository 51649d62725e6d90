----------------------------- MODULE MCSocketIo -----------------------------
(***************************************************************************)
(* One process sends two bytes, in one write or two, through buffers of    *)
(* one byte: a write of two needs two sends and can be left half done, and *)
(* there are bytes on their way and bytes waiting at each end when it is   *)
(* closed, shut down or lost.  The other sends one.                        *)
(***************************************************************************)
EXTENDS SocketIo

CONSTANTS a, b

MCPeer == {a, b}
Handle(rpwait, wpwait, nonblock) ==
  [open |-> TRUE, rpwait |-> rpwait, wpwait |-> wpwait, nonblock |-> nonblock]

(* Waits that may end, waits that may not, and sends that may wait. *)
MCSettings ==
  [p \in MCPeer |->
     IF p = a THEN {Handle(LIMITED, LIMITED, TRUE), Handle(FOREVER, FOREVER, FALSE)}
     ELSE {Handle(FOREVER, LIMITED, TRUE)}]
MCMaxBytes == [p \in MCPeer |-> IF p = a THEN 2 ELSE 1]
=============================================================================
