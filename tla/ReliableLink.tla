---------------------------- MODULE ReliableLink ----------------------------
(***************************************************************************)
(* Two OpenVPN peers bringing up one key state over an unreliable network: *)
(* the initial hard reset exchange and then the TLS records that the       *)
(* reliability layer carries.                                              *)
(*                                                                         *)
(* A peer is a single-threaded event loop.  It reads a packet (the control *)
(* channel part of tls_pre_decrypt) or runs tls_process, whose do/while    *)
(* loop is modelled one pass at a time: busy[p] holds while the loop has   *)
(* not ended, and no packet is read meanwhile.  The TLS object is a source *)
(* and a sink of records; the key exchange carried by those records, the   *)
(* handshake window and renegotiation are outside this module.             *)
(***************************************************************************)
EXTENDS Reliable

CONSTANTS
    Client, Server, \* the two peers
    Records,        \* Records[p]: TLS records the TLS object of p produces
    KnowsRemote,    \* peers whose remote address is configured (--remote)
    XmitHold,       \* peers that set opt.xmit_hold (a TCP server)
    MaxNet          \* MaxNet[p]: bound, packets in flight towards p

Peers == {Client, Server}
Other(p) == IF p = Client THEN Server ELSE Client

ASSUME LinkAssumption ==
    /\ Client # Server
    /\ Records \in [Peers -> Nat]
    /\ \A p \in Peers : Records[p] + RecSize + 1 < PidHalf  \* no id wraps
    /\ KnowsRemote \subseteq Peers
    /\ XmitHold \subseteq Peers
    /\ MaxNet \in [Peers -> Nat \ {0}]

VARIABLES
    ks,             \* ks[p]: the key_state of p and what its TLS object saw
    busy,           \* busy[p]: p is inside the loop of tls_process
    net             \* net[p]: the packets in flight towards p

vars == <<ks, busy, net>>

(***************************************************************************)
(* A control packet on the wire: opcode, acknowledgement record, packet id *)
(* and payload.  Body 0 is the empty payload of a hard reset, body i > 0   *)
(* the i-th TLS record of the sender.                                      *)
(***************************************************************************)
HardReset == "P_CONTROL_HARD_RESET_V2"
Control == "P_CONTROL_V1"
Ack == "P_ACK_V1"

Packet(op, acks, pid, body) ==
    [op |-> op, acks |-> acks, packet_id |-> pid, body |-> body]

Opcode(e) == IF e.body = 0 THEN HardReset ELSE Control

key_state_init(p) ==
    [state |-> "S_INITIAL",
     addr  |-> p \in KnowsRemote,       \* ks->remote_addr is defined
     sid   |-> FALSE,                   \* ks->session_id_remote is defined
     send  |-> reliable_init(SendSize, p \in XmitHold),
     rec   |-> reliable_init(RecSize, FALSE),
     ack   |-> << >>,                   \* ks->rec_ack
     out   |-> 0,                       \* records read from the TLS object
     in    |-> << >>]                   \* records written to the TLS object

Init ==
    /\ ks = [p \in Peers |-> key_state_init(p)]
    /\ busy = [p \in Peers |-> FALSE]
    /\ net = [p \in Peers |-> {}]

(***************************************************************************)
(* The network.  A packet in flight may be delivered any number of times,  *)
(* in any order, or be lost; one sent into a full network is lost.         *)
(***************************************************************************)
Transmit(p, m) ==
    \/ /\ Cardinality(net[p]) < MaxNet[p]
       /\ net' = [net EXCEPT ![p] = @ \cup {m}]
    \/ /\ Cardinality(net[p]) >= MaxNet[p]
       /\ UNCHANGED net

Lose(p, m) ==
    /\ m \in net[p]
    /\ net' = [net EXCEPT ![p] = @ \ {m}]
    /\ UNCHANGED <<ks, busy>>

(***************************************************************************)
(* tls_pre_decrypt on a control packet m of this key state.                *)
(***************************************************************************)

\* The first packet of the remote session fixes its id and address and
\* makes everything unacknowledged due at once (the burst).
OpenSession(k) ==
    IF k.sid THEN k
    ELSE [k EXCEPT !.sid = TRUE, !.addr = TRUE,
                   !.send = reliable_schedule_now(@)]

\* Mutant: an acknowledgement stands for all the ids before it, too.
PurgeAcked_Cumulative(k, m) ==
    [k EXCEPT !.send =
        reliable_send_purge(@, UNION {0 .. id : id \in m.acks})]

PurgeAcked(k, m) == [k EXCEPT !.send = reliable_send_purge(@, m.acks)]

\* Mutant: a packet that cannot be stored is acknowledged, too.
StoreIncoming_AcksAll(k, m) ==
    IF m.op = Ack THEN k
    ELSE [k EXCEPT
            !.rec = IF /\ reliable_can_get(@)
                       /\ reliable_wont_break_sequentiality(@, m.packet_id)
                       /\ reliable_not_replay(@, m.packet_id)
                    THEN reliable_mark_active_incoming(@, reliable_get_buf(@),
                                                       m.packet_id, m.body)
                    ELSE @,
            !.ack = reliable_ack_acknowledge_packet_id(@, m.packet_id)]

\* Mutant: a replay is not acknowledged again.
StoreIncoming_AcksNew(k, m) ==
    IF /\ m.op # Ack
       /\ reliable_can_get(k.rec)
       /\ reliable_wont_break_sequentiality(k.rec, m.packet_id)
       /\ reliable_not_replay(k.rec, m.packet_id)
    THEN [k EXCEPT
            !.rec = reliable_mark_active_incoming(@, reliable_get_buf(@),
                                                  m.packet_id, m.body),
            !.ack = reliable_ack_acknowledge_packet_id(@, m.packet_id)]
    ELSE k

\* A packet that fits the receive window is acknowledged even if it is a
\* replay, and stored if it is not.
StoreIncoming(k, m) ==
    IF /\ m.op # Ack
       /\ reliable_can_get(k.rec)
       /\ reliable_wont_break_sequentiality(k.rec, m.packet_id)
    THEN [k EXCEPT
            !.rec = IF reliable_not_replay(@, m.packet_id)
                    THEN reliable_mark_active_incoming(@, reliable_get_buf(@),
                                                       m.packet_id, m.body)
                    ELSE @,
            !.ack = reliable_ack_acknowledge_packet_id(@, m.packet_id)]
    ELSE k

\* Only a hard reset can open a session; anything else is unroutable before.
Routable(k, m) == k.sid \/ m.op = HardReset

tls_pre_decrypt(k, m) ==
    IF Routable(k, m)
    THEN StoreIncoming(PurgeAcked(OpenSession(k), m), m)
    ELSE k

Receive(p, m) ==
    /\ m \in net[p]
    /\ ~ busy[p]
    /\ ks' = [ks EXCEPT ![p] = tls_pre_decrypt(@, m)]
    /\ UNCHANGED busy

Deliver(p, m) ==
    /\ Receive(p, m)
    /\ net' = [net EXCEPT ![p] = @ \ {m}]

\* A copy of the packet stays in flight.
DeliverCopy(p, m) ==
    /\ Receive(p, m)
    /\ UNCHANGED net

(***************************************************************************)
(* One pass of the loop of tls_process.                                    *)
(***************************************************************************)
\* Mutant: what was sent need not be acknowledged.
FullSync_AcksOnly(k) == reliable_ack_empty(k.ack)

FullSync(k) == reliable_empty(k.send) /\ reliable_ack_empty(k.ack)

InitialHandshake(k) ==
    IF k.state = "S_INITIAL" /\ OutputSequenced(k.send)
    THEN [k EXCEPT !.send = reliable_mark_active_outgoing(@, reliable_get_buf(@), 0),
                   !.state = "S_PRE_START"]
    ELSE k

InitialHandshakeAcked(k) ==
    IF k.state = "S_PRE_START" /\ FullSync(k)
    THEN [k EXCEPT !.state = "S_START"]
    ELSE k

\* Mutant: the payload of the hard reset goes to the TLS object.
IncomingCiphertext_WritesAll(k) ==
    IF Sequenced(k.rec) = {} THEN k
    ELSE LET i == reliable_get_buf_sequenced(k.rec)
         IN  [k EXCEPT
                !.rec = reliable_mark_deleted(@, i),
                !.in = Append(@, k.rec.array[i].body)]

\* "Write incoming ciphertext to TLS object": an empty buffer is only deleted.
IncomingCiphertext(k) ==
    IF Sequenced(k.rec) = {} THEN k
    ELSE LET i == reliable_get_buf_sequenced(k.rec)
             body == k.rec.array[i].body
         IN  [k EXCEPT
                !.rec = reliable_mark_deleted(@, i),
                !.in = IF body = 0 THEN @ ELSE Append(@, body)]

OutgoingCiphertext(p, k) ==
    IF k.state = "S_START" /\ OutputSequenced(k.send) /\ k.out < Records[p]
    THEN [k EXCEPT !.send = reliable_mark_active_outgoing(
                                @, reliable_get_buf(@), k.out + 1),
                   !.out = @ + 1]
    ELSE k

\* What a pass does before and after it tries to send.
PassHead(k) == InitialHandshakeAcked(InitialHandshake(k))
PassTail(p, k) == OutgoingCiphertext(p, IncomingCiphertext(k))

\* Mutant: tls_process runs without an address, too.
Runs_Always(p) == p \in Peers

\* tls_multi_process calls tls_process once the remote address is known.
Runs(p) == ks[p].addr

\* "Reliable -> TCP/UDP": the packet takes some of the pending acks along,
\* and the loop is left.
ReliableToLink(p) ==
    LET k == PassHead(ks[p]) IN
    /\ Runs(p)
    /\ reliable_can_send(k.send)
    /\ \E i \in DOMAIN k.send.array :
        /\ IsBest(k.send, i)
        /\ ks' = [ks EXCEPT ![p] =
                    [k EXCEPT !.send = reliable_send(@, i),
                              !.ack = AckKept(@, SendAckMax)]]
        /\ LET e == k.send.array[i] IN
           Transmit(Other(p),
                    Packet(Opcode(e), AckIds(AckWritten(k.ack, SendAckMax)),
                           e.packet_id, e.body))
    /\ busy' = [busy EXCEPT ![p] = FALSE]

\* A pass that sends nothing but changes something is followed by another.
Pass(p) ==
    LET k == PassHead(ks[p]) IN
    /\ Runs(p)
    /\ ~ reliable_can_send(k.send)
    /\ PassTail(p, k) # ks[p]
    /\ ks' = [ks EXCEPT ![p] = PassTail(p, k)]
    /\ busy' = [busy EXCEPT ![p] = TRUE]
    /\ UNCHANGED net

NothingToDo(p) ==
    LET k == PassHead(ks[p]) IN
    /\ Runs(p)
    /\ ~ reliable_can_send(k.send)
    /\ PassTail(p, k) = ks[p]

\* "Dedicated ACK -> TCP/UDP", after a loop that sent nothing.
DedicatedAck(p) ==
    /\ NothingToDo(p)
    /\ ~ reliable_ack_empty(ks[p].ack)
    /\ ks' = [ks EXCEPT ![p].ack = AckKept(@, AckSize)]
    /\ Transmit(Other(p), Packet(Ack, AckIds(AckWritten(ks[p].ack, AckSize)), 0, 0))
    /\ busy' = [busy EXCEPT ![p] = FALSE]

LoopEnd(p) ==
    /\ NothingToDo(p)
    /\ reliable_ack_empty(ks[p].ack)
    /\ busy[p]
    /\ busy' = [busy EXCEPT ![p] = FALSE]
    /\ UNCHANGED <<ks, net>>

\* Time reaches the next_try of an unacknowledged packet.
Timeout(p) ==
    /\ \E i \in Active(ks[p].send) :
        /\ ~ ks[p].send.array[i].due
        /\ ks' = [ks EXCEPT ![p].send.array[i].due = TRUE]
    /\ UNCHANGED <<busy, net>>

tls_process(p) == ReliableToLink(p) \/ Pass(p) \/ DedicatedAck(p) \/ LoopEnd(p)

\* With everything delivered and acknowledged the event loops just wait.
AllDelivered ==
    \A p \in Peers :
        /\ Len(ks[p].in) = Records[Other(p)]
        /\ FullSync(ks[p])

Idle == AllDelivered /\ UNCHANGED vars

Next ==
    \/ Idle
    \/ \E p \in Peers : tls_process(p) \/ Timeout(p)
    \/ \E p \in Peers : \E m \in net[p] :
        Deliver(p, m) \/ DeliverCopy(p, m) \/ Lose(p, m)

Spec == Init /\ [][Next]_vars

(***************************************************************************)
(* Fairness.  The event loop calls tls_process whenever it has something   *)
(* to do, wakes up for every next_try (reliable_send_timeout), and the     *)
(* network does not lose every copy of a packet that is sent again and     *)
(* again.                                                                  *)
(***************************************************************************)
DeliverId(p, id) ==
    \E m \in net[p] : m.op # Ack /\ m.packet_id = id /\ Deliver(p, m)

DeliverAck(p, id) ==
    \E m \in net[p] : Routable(ks[p], m) /\ id \in m.acks /\ Deliver(p, m)

Fairness ==
    /\ \A p \in Peers :
        /\ WF_vars(tls_process(p)) /\ WF_vars(Timeout(p))
        /\ SF_vars(Pass(p)) /\ SF_vars(DedicatedAck(p))
    /\ \A p \in Peers : \A id \in 0 .. Records[Other(p)] :
        SF_vars(DeliverId(p, id))
    /\ \A p \in Peers : \A id \in 0 .. Records[p] :
        SF_vars(DeliverAck(p, id))

FairSpec == Spec /\ Fairness

(***************************************************************************)
(* Properties.                                                             *)
(***************************************************************************)
Entry(p) ==
    [active : BOOLEAN, packet_id : PacketIdType,
     body : 0 .. Records[p], due : BOOLEAN]

Rel(p, size) ==
    [packet_id : PacketIdType, hold : BOOLEAN, array : [1 .. size -> Entry(p)]]

KeyState(p) ==
    [state : {"S_INITIAL", "S_PRE_START", "S_START"},
     addr : BOOLEAN, sid : BOOLEAN,
     send : Rel(p, SendSize), rec : Rel(Other(p), RecSize),
     ack : Seq(PacketIdType),
     out : 0 .. Records[p], in : Seq(1 .. Records[Other(p)])]

PacketTo(p) ==
    [op : {HardReset, Control, Ack}, acks : SUBSET PacketIdType,
     packet_id : PacketIdType, body : 0 .. Records[Other(p)]]

\* The types of the fields of struct key_state, reliable, reliable_entry and
\* reliable_ack, and the shape of a control packet.
TypeOK ==
    /\ DOMAIN ks = Peers
    /\ \A p \in Peers : ks[p] \in KeyState(p)
    /\ busy \in [Peers -> BOOLEAN]
    /\ DOMAIN net = Peers
    /\ \A p \in Peers : net[p] \subseteq PacketTo(p)

\* The ids that peer p has stored, whether or not they were delivered yet.
Received(k, id) == id < k.rec.packet_id \/ id \in Ids(k.rec)

\* reliable_send_purge drops a packet from the send buffer only once the
\* peer has stored it: whatever was sent is still in the send buffer or in
\* the peer's hands, through every loss, duplication and reordering.
NothingForgotten ==
    \A p \in Peers : \A id \in 0 .. ks[p].send.packet_id - 1 :
        id \in Ids(ks[p].send) \/ Received(ks[Other(p)], id)

\* An acknowledgement that is pending (rec_ack) or on the wire is for a
\* packet that its sender holds.
AcksAreTrue ==
    \A p \in Peers :
        /\ \A id \in AckIds(ks[p].ack) : Received(ks[p], id)
        /\ \A m \in net[Other(p)] : \A id \in m.acks : Received(ks[p], id)

\* reliable_wont_break_sequentiality "won't deadlock the receive buffer":
\* when every receive buffer is taken, the next record to deliver is there.
ReceiveBufferNotClogged ==
    \A p \in Peers :
        ~ reliable_can_get(ks[p].rec) => Sequenced(ks[p].rec) # {}

\* No id sits in two entries of a receive or a send buffer, so that the
\* searches of the array by packet id have one answer.
IdsUnique ==
    \A p \in Peers :
        \A rel \in {ks[p].send, ks[p].rec} : \A i, j \in Active(rel) :
            rel.array[i].packet_id = rel.array[j].packet_id => i = j

\* The ASSERTs of the write path: a packet is written only to a defined
\* address (write_control_auth) and acks only with a defined session id
\* (reliable_ack_write).
WriteAssertions ==
    \A p \in Peers :
        /\ ks[p].ack # << >> => ks[p].sid
        /\ ks[p].state # "S_INITIAL" => ks[p].addr

\* FULL_SYNC gates S_START: a peer that lets TLS records out knows the remote
\* session, and the other end has its hard reset and knows its session too.
StartAgreement ==
    \A p \in Peers :
        ks[p].state = "S_START" =>
            /\ ks[p].sid /\ ks[Other(p)].sid
            /\ Received(ks[Other(p)], 0)

\* The reliability layer implements the abstract channel: records are
\* written to the TLS object exactly once and in order.
Chan == INSTANCE Channel WITH
            out <- [p \in Peers |-> ks[p].out],
            in <- [p \in Peers |-> ks[p].in]
ImplementsChannel == Chan!Spec

\* Everything both TLS objects produce is eventually delivered, and both
\* send buffers and ack records drain (FULL_SYNC on both sides).
EventuallyDelivered == <>[]AllDelivered
=============================================================================
