------------------------------ MODULE Reliable ------------------------------
(***************************************************************************)
(* The reliability layer of the OpenVPN control channel (reliable.c,       *)
(* reliable.h) as operators on its two structs.                            *)
(*                                                                         *)
(* A struct reliable is [packet_id, hold, array]: the next packet id to    *)
(* send or to deliver, the transmit hold, and the array of entries.  An    *)
(* entry is [active, packet_id, body, due]: "body" stands for the buffer   *)
(* and the opcode, and "due" for now >= next_try.  The fields of an entry  *)
(* that is not active are never read, so such an entry is NoEntry.         *)
(*                                                                         *)
(* A struct reliable_ack is the sequence of the packet ids it holds.       *)
(***************************************************************************)
EXTENDS Integers, Sequences, FiniteSets

CONSTANTS
    PidHalf,        \* half the range of packet_id_type (2^31 in the code)
    SendSize,       \* TLS_RELIABLE_N_SEND_BUFFERS
    RecSize,        \* TLS_RELIABLE_N_REC_BUFFERS
    AckSize,        \* RELIABLE_ACK_SIZE
    SendAckMax      \* CONTROL_SEND_ACK_MAX

ASSUME ReliableAssumption ==
    /\ PidHalf \in Nat \ {0}
    /\ SendSize \in Nat \ {0}
    /\ RecSize \in Nat \ {0}
    /\ AckSize \in Nat \ {0}
    /\ SendAckMax \in 1 .. AckSize
    /\ SendSize <= RecSize
    /\ RecSize < PidHalf

(***************************************************************************)
(* packet_id_type is unsigned: its additions and subtractions wrap.        *)
(***************************************************************************)
PidMod == 2 * PidHalf
PacketIdType == 0 .. PidMod - 1
PidAdd(a, b) == IF a + b >= PidMod THEN a + b - PidMod ELSE a + b
PidSub(a, b) == IF a >= b THEN a - b ELSE a - b + PidMod

(***************************************************************************)
(* The comparisons of ids.                                                 *)
(***************************************************************************)
reliable_pid_in_range1(test, base, extent) ==
    IF test >= base
    THEN test - base < extent
    ELSE PidSub(PidAdd(test, PidHalf), PidAdd(base, PidHalf)) < extent

reliable_pid_in_range2(test, base, extent) ==
    IF PidAdd(base, extent) >= base
    THEN test < PidAdd(base, extent)
    ELSE PidAdd(test, PidHalf) < PidAdd(PidAdd(base, PidHalf), extent)

reliable_pid_min(p1, p2) == ~ reliable_pid_in_range1(p1, p2, PidHalf)

(***************************************************************************)
(* struct reliable_ack                                                     *)
(***************************************************************************)
AckIds(ack) == {ack[i] : i \in 1 .. Len(ack)}

reliable_ack_empty(ack) == ack = << >>

\* The id is added unless it is present or the record is full.
reliable_ack_acknowledge_packet_id(ack, pid) ==
    IF pid \notin AckIds(ack) /\ Len(ack) < AckSize
    THEN Append(ack, pid)
    ELSE ack

\* reliable_ack_write takes the first n ids, at most max, and keeps the rest.
AckWritten(ack, max) ==
    SubSeq(ack, 1, IF Len(ack) > max THEN max ELSE Len(ack))
AckKept(ack, max) ==
    SubSeq(ack, (IF Len(ack) > max THEN max ELSE Len(ack)) + 1, Len(ack))

(***************************************************************************)
(* struct reliable                                                         *)
(***************************************************************************)
NoEntry == [active |-> FALSE, packet_id |-> 0, body |-> 0, due |-> FALSE]

reliable_init(size, hold) ==
    [packet_id |-> 0, hold |-> hold, array |-> [i \in 1 .. size |-> NoEntry]]

\* The slots of the active entries, and the ids in them.
Active(rel) == {i \in DOMAIN rel.array : rel.array[i].active}
Ids(rel) == {rel.array[i].packet_id : i \in Active(rel)}

reliable_empty(rel) == Active(rel) = {}

reliable_send_purge(rel, pids) ==
    [rel EXCEPT !.array = [i \in DOMAIN @ |->
        IF @[i].active /\ @[i].packet_id \in pids THEN NoEntry ELSE @[i]]]

reliable_can_get(rel) == Active(rel) # DOMAIN rel.array

\* Mutant: the search among the active entries is dropped.
reliable_not_replay_BehindOnly(rel, id) == ~ reliable_pid_min(id, rel.packet_id)

reliable_not_replay(rel, id) ==
    /\ ~ reliable_pid_min(id, rel.packet_id)
    /\ id \notin Ids(rel)

reliable_wont_break_sequentiality(rel, id) ==
    reliable_pid_in_range2(id, rel.packet_id, RecSize)

\* A free slot.  Which of them is taken is never observed.
reliable_get_buf(rel) == CHOOSE i \in DOMAIN rel.array : i \notin Active(rel)

\* reliable_get_buf_output_sequenced returns a buffer: one is free, and the
\* lowest active id, so every active id, is within the window below the next
\* one to be sent.
OutputSequenced(rel) ==
    /\ reliable_can_get(rel)
    /\ \A id \in Ids(rel) : reliable_pid_in_range1(rel.packet_id, id, SendSize)

\* Mutant: any active entry will do.
Sequenced_AnyActive(rel) == Active(rel)

\* The slots reliable_get_buf_sequenced looks for.
Sequenced(rel) == {i \in Active(rel) : rel.array[i].packet_id = rel.packet_id}
reliable_get_buf_sequenced(rel) == CHOOSE i \in Sequenced(rel) : TRUE

Due(rel) == {i \in Active(rel) : rel.array[i].due}

reliable_can_send(rel) == Due(rel) # {} /\ ~ rel.hold

\* reliable_send returns the due entry of lowest id ...
IsBest(rel, i) ==
    /\ i \in Due(rel)
    /\ \A j \in Due(rel) :
        ~ reliable_pid_min(rel.array[j].packet_id, rel.array[i].packet_id)

\* ... and moves its next_try into the future.
reliable_send(rel, i) == [rel EXCEPT !.array[i].due = FALSE]

\* Mutant: what becomes due stays behind the hold.
reliable_schedule_now_KeepsHold(rel) ==
    [rel EXCEPT
        !.array = [i \in DOMAIN @ |->
            IF @[i].active THEN [@[i] EXCEPT !.due = TRUE] ELSE @[i]]]

reliable_schedule_now(rel) ==
    [rel EXCEPT
        !.hold = FALSE,
        !.array = [i \in DOMAIN @ |->
            IF @[i].active THEN [@[i] EXCEPT !.due = TRUE] ELSE @[i]]]

\* next_try is 0 in a newly activated entry: it is due at once.
reliable_mark_active_incoming(rel, i, pid, body) ==
    [rel EXCEPT !.array[i] =
        [active |-> TRUE, packet_id |-> pid, body |-> body, due |-> TRUE]]

reliable_mark_active_outgoing(rel, i, body) ==
    [rel EXCEPT
        !.array[i] = [active |-> TRUE, packet_id |-> rel.packet_id,
                      body |-> body, due |-> TRUE],
        !.packet_id = PidAdd(@, 1)]

reliable_mark_deleted(rel, i) ==
    [rel EXCEPT
        !.array[i] = NoEntry,
        !.packet_id = PidAdd(rel.array[i].packet_id, 1)]
=============================================================================
