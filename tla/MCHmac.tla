-------------------------------- MODULE MCHmac --------------------------------
(***************************************************************************)
(* Instance of Hmac for TLC: keys shorter than the buffer, as long, and    *)
(* one byte longer; texts of no, part of one, and several buffers.         *)
(***************************************************************************)
EXTENDS Hmac

MCKeyFiles == {[i \in 1 .. n |-> i] : n \in 0 .. KSize + 1}
MCTexts == {[i \in 1 .. n |-> i] : n \in 0 .. 2 * HmacTextSize + 1}
=============================================================================
