------------------------------ MODULE MCSocket ------------------------------
(***************************************************************************)
(* Two handles and two descriptors, so that both are given out again; one  *)
(* handle whose waits are set to 5, which is neither -1 nor 0, and one     *)
(* that keeps those it is made with; hosts that are unknown, have one      *)
(* address, or a second one to try.                                        *)
(***************************************************************************)
EXTENDS Socket

CONSTANTS h1, h2, a, b

MCHandle == {h1, h2}
MCAddr == {a, b}
MCFd == {0, 1}
MCWait == [h \in MCHandle |-> IF h = h1 THEN {5} ELSE {}]
MCHosts == {<<>>, <<a>>, <<a, b>>}
=============================================================================
