----------------------------- MODULE MCRO6Coord -----------------------------
(***************************************************************************)
(* One transaction of three pieces on two servers for RO6Coord: p1 and p2 *)
(* are sent by do_one, p3 takes p1's output and is sent from p1's start   *)
(* callback; p1 and p3 go to the same server, so proxies_ has two entries *)
(* while n_pieces_ is three.                                              *)
(***************************************************************************)
EXTENDS RO6Coord

CONSTANTS p1, p2, p3, s1, s2, t1, t2

MCPieces == {p1, p2, p3}
MCNeeds  == (p1 :> {}) @@ (p2 :> {}) @@ (p3 :> {p1})
MCServer == (p1 :> s1) @@ (p2 :> s2) @@ (p3 :> s1)

=============================================================================
