---------------------------- MODULE PacketIdSend ----------------------------
(***************************************************************************)
(* The packet ids of the sender (packet_id_alloc_outgoing, packet_id.h, as *)
(* called by openvpn_encrypt, crypto.c) and the receiver of PacketId, over *)
(* a network that keeps the order: a stream (TCP) that loses nothing, or   *)
(* datagrams (UDP), some of which are lost.                                *)
(*                                                                         *)
(* The long form of a packet id has a time stamp; the short form, that of  *)
(* TLS mode with CBC, is the number alone, and its stamp is read as 0.     *)
(* The wrap of the number is at MaxId + 1.                                 *)
(***************************************************************************)
EXTENDS PacketId, Sequences

CONSTANT LongForm   \* CO_PACKET_ID_LONG_FORM, TRUE or FALSE

VARIABLES
    send,           \* struct packet_id_send
    clock,          \* the clock of the sender
    aborted,        \* an ASSERT of the sender failed
    log,            \* the packet ids that were sent, in order
    got             \* how many of them have arrived or are lost

sendVars == <<send, clock, aborted, log, got>>

-----------------------------------------------------------------------------
(* The sender.                                                             *)

\* The new value of the struct, which is also the packet id.
packet_id_alloc_outgoing(p) ==
    IF p.id < MaxId
    THEN [time |-> IF p.time = 0 THEN clock ELSE p.time, id |-> p.id + 1]
    ELSE [time |-> clock, id |-> 1]

\* packet_id_write, and what packet_id_read makes of it.
OnWire(p) == [time |-> IF LongForm THEN p.time ELSE 0, id |-> p.id]

\* A packet is sent.  MaxId of them take more than a second.
Encrypt ==
    /\ ~aborted
    /\ send.id = MaxId => clock > send.time
    /\ send.id < MaxId \/ LongForm
    /\ send' = packet_id_alloc_outgoing(send)
    /\ log' = Append(log, OnWire(send'))
    /\ UNCHANGED <<clock, aborted, got, vars>>

\* The number wraps, and there is no stamp to tell.
WrapAssertion ==
    /\ ~aborted
    /\ send.id = MaxId /\ ~LongForm
    /\ aborted' = TRUE
    /\ UNCHANGED <<send, clock, log, got, vars>>

ClockTick ==
    /\ clock' \in clock + 1 .. MaxStamp
    /\ UNCHANGED <<send, aborted, log, got, vars>>

-----------------------------------------------------------------------------
(* The network and the receiver.                                           *)

Arrive ==
    /\ got < Len(log)
    /\ Accept(log[got + 1]) \/ Reject(log[got + 1])
    /\ got' = got + 1
    /\ UNCHANGED <<send, clock, aborted, log>>

\* A datagram is lost; --replay-window 0 is for streams.
Lose ==
    /\ SeqBacktrack # 0
    /\ got < Len(log)
    /\ got' = got + 1
    /\ UNCHANGED <<send, clock, aborted, log, vars>>

SendInit ==
    /\ Init
    /\ send = [time |-> 0, id |-> 0]
    /\ clock \in 1 .. MaxStamp
    /\ aborted = FALSE
    /\ log = << >>
    /\ got = 0

SendNext ==
    \/ Encrypt \/ WrapAssertion \/ ClockTick
    \/ Arrive \/ Lose
    \/ Tick /\ UNCHANGED sendVars

SendSpec == SendInit /\ [][SendNext]_<<vars, sendVars>>

-----------------------------------------------------------------------------
(* Properties.                                                             *)

\* No packet id is used twice under one key (packet_id_alloc_outgoing), when
\* the number has wrapped either.
SentOnce == \A i, j \in 1 .. Len(log) : log[i] = log[j] => i = j

\* Replay protection does not take the sender's own packets for replays
\* (packet_id_test): what arrives in order is accepted, across the wrap of
\* the number and, with a window, across any losses.
InOrderIsAccepted ==
    got < Len(log) => packet_id_test(packet_id_reap_test(rec), log[got + 1])
=============================================================================
