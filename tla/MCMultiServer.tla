---------------------------- MODULE MCMultiServer ----------------------------
(***************************************************************************)
(* An instance of MultiServer for TLC: two clients, one with a network     *)
(* that covers an address of the pool and one with a longer network in it  *)
(* and a static address.                                                   *)
(***************************************************************************)
EXTENDS MultiServer, TLC

CONSTANTS a, b,             \* names
          net16, net24,     \* networks
          loc, h1, h2, st   \* hosts: the server, the pool, a static address

MCBits == [n \in Nets |-> IF n = net16 THEN 16 ELSE 24]
MCCovers == [n \in Nets |-> {h2}]
MCPoolAddr == [h \in Handle |-> IF h = 1 THEN h1 ELSE h2]
MCStaticAddr == [c \in CN |-> IF c = b THEN st ELSE NULL]
MCFixedFile == [h \in Handle |-> IF h = 1 THEN a ELSE NoName]
MCSymmetry == Permutations(Inst) \cup Permutations(Real)
MCIRoutes == [c \in CN |-> IF c = a THEN <<net16>> ELSE <<net24>>]
=============================================================================
