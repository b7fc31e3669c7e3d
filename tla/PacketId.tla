------------------------------ MODULE PacketId ------------------------------
(***************************************************************************)
(* The replay protection of the OpenVPN data channel (packet_id.c,         *)
(* packet_id.h, circ_list.h, and its use in openvpn_decrypt, crypto.c).    *)
(*                                                                         *)
(* The receiving side keeps the highest time stamp and sequence number it  *)
(* has accepted and, in backtrack mode (UDP), a list with one item for     *)
(* each of the last SeqBacktrack sequence numbers: 0 if the number was not *)
(* seen, 1 if it may not be accepted any more, else its time of arrival.   *)
(* Item 0 belongs to the highest number, item k to the one k below it.     *)
(* The circular list is the function from its indices; an item beyond the  *)
(* current size is 0.                                                      *)
(***************************************************************************)
EXTENDS Integers

CONSTANTS
    MaxId,          \* the largest sequence number (2^32 - 1 in the code)
    MaxStamp,       \* the largest time stamp in a packet
    MaxTime,        \* bound: the largest value of the clock
    StartTime,      \* the clock when the peer starts
    SeqBacktrack,   \* --replay-window n; 0 is the mode used with TCP
    TimeBacktrack,  \* --replay-window t; 0 is no time limit
    ReapInterval    \* SEQ_REAP_INTERVAL

SEQ_UNSEEN == 0
SEQ_EXPIRED == 1

ASSUME PacketIdAssumption ==
    /\ MaxId \in Nat \ {0}
    /\ MaxStamp \in Nat
    /\ MaxTime \in Nat
    /\ StartTime \in Nat /\ StartTime > SEQ_EXPIRED
    /\ SeqBacktrack \in Nat
    /\ TimeBacktrack \in Nat
    /\ ReapInterval \in Nat \ {0}

VARIABLES
    rec,            \* struct packet_id_rec
    now,            \* the clock
    accepted        \* history: [time, id, at] of every packet let through

vars == <<rec, now, accepted>>

\* The packet ids that may come off the wire: the header carries any value.
PacketIdNet == [time : 0 .. MaxStamp, id : 0 .. MaxId]

Index == 0 .. SeqBacktrack - 1
NoItems == [k \in Index |-> SEQ_UNSEEN]

packet_id_init ==
    [time |-> 0, id |-> 0, last_reap |-> 0, size |-> 0, item |-> NoItems]

Init ==
    /\ rec = packet_id_init
    /\ now = StartTime
    /\ accepted = {}

(***************************************************************************)
(* packet_id_reap                                                          *)
(***************************************************************************)

\* Mutant: an item expires by its own time alone.
Expires_Alone(p, k) ==
    /\ k < p.size
    /\ p.item[k] > SEQ_EXPIRED
    /\ p.item[k] + TimeBacktrack < now

\* From the first item that is too old on, up to the first one that has
\* expired already, nothing may be accepted any more.
Expires(p, k) ==
    /\ k < p.size
    /\ \A j \in 0 .. k : p.item[j] # SEQ_EXPIRED
    /\ \E j \in 0 .. k :
        p.item[j] # SEQ_UNSEEN /\ p.item[j] + TimeBacktrack < now

packet_id_reap(p) ==
    [p EXCEPT
        !.item = IF SeqBacktrack = 0 \/ TimeBacktrack = 0 THEN @
                 ELSE [k \in Index |->
                        IF Expires(p, k) THEN SEQ_EXPIRED ELSE @[k]],
        !.last_reap = now]

\* Mutant: an interval that is just over does not count.
packet_id_reap_test_Late(p) ==
    IF p.last_reap + ReapInterval < now THEN packet_id_reap(p) ELSE p

packet_id_reap_test(p) ==
    IF p.last_reap + ReapInterval <= now THEN packet_id_reap(p) ELSE p

(***************************************************************************)
(* packet_id_test                                                          *)
(***************************************************************************)
InWindow(p, pin) ==
    /\ pin.id <= p.id
    /\ p.id - pin.id < p.size
    /\ p.item[p.id - pin.id] = SEQ_UNSEEN

TestBacktrack(p, pin) ==
    \/ pin.time > p.time
    \/ pin.time = p.time /\ (pin.id > p.id \/ InWindow(p, pin))

TestSequential(p, pin) ==
    \/ pin.time > p.time /\ pin.id = 1
    \/ pin.time = p.time /\ (p.id = 0 \/ pin.id = p.id + 1)

packet_id_test(p, pin) ==
    /\ pin.id # 0
    /\ IF SeqBacktrack # 0 THEN TestBacktrack(p, pin)
                           ELSE TestSequential(p, pin)

(***************************************************************************)
(* packet_id_add                                                           *)
(***************************************************************************)

\* A later time stamp, or a jump past the whole window, starts a new list.
StartsNewList(p, pin) ==
    \/ p.size = 0
    \/ pin.time > p.time
    \/ pin.id >= SeqBacktrack /\ pin.id - SeqBacktrack > p.id

\* Mutant: the list starts with the new number instead of the whole window.
NewList_FromPin(p, pin) ==
    [p EXCEPT
        !.time = pin.time,
        !.id = IF pin.id > 1 THEN pin.id - 1 ELSE 0,
        !.size = 0,
        !.item = NoItems]

NewList(p, pin) ==
    [p EXCEPT
        !.time = pin.time,
        !.id = IF pin.id > SeqBacktrack THEN pin.id - SeqBacktrack ELSE 0,
        !.size = 0,
        !.item = NoItems]

\* Mutant: a full list grows.
PushUnseen_NoLimit(p, pin) ==
    LET d == IF p.id < pin.id THEN pin.id - p.id ELSE 0
    IN  [p EXCEPT
            !.id = p.id + d,
            !.size = @ + d,
            !.item = [k \in Index |-> IF k < d THEN SEQ_UNSEEN ELSE @[k - d]]]

\* Mutant: one push, however far the number is ahead.
PushUnseen_Once(p, pin) ==
    LET d == IF p.id < pin.id THEN 1 ELSE 0
        size == IF p.size + d > SeqBacktrack THEN SeqBacktrack ELSE p.size + d
    IN  [p EXCEPT
            !.id = IF p.id < pin.id THEN pin.id ELSE @,
            !.size = size,
            !.item = [k \in Index |->
                        IF k < d \/ k >= size THEN SEQ_UNSEEN
                                              ELSE p.item[k - d]]]

\* The loop that pushes an unseen item for each number up to pin.id.
PushUnseen(p, pin) ==
    LET d == IF p.id < pin.id THEN pin.id - p.id ELSE 0
        size == IF p.size + d > SeqBacktrack THEN SeqBacktrack ELSE p.size + d
    IN  [p EXCEPT
            !.id = p.id + d,
            !.size = size,
            !.item = [k \in Index |->
                        IF k < d \/ k >= size THEN SEQ_UNSEEN
                                              ELSE p.item[k - d]]]

\* Mutant: the last item of the list is left out.
MarkArrived_Inner(p, pin) ==
    IF p.id - pin.id < p.size - 1 /\ now > SEQ_EXPIRED
    THEN [p EXCEPT !.item[p.id - pin.id] = now]
    ELSE p

MarkArrived(p, pin) ==
    IF p.id - pin.id < p.size /\ now > SEQ_EXPIRED
    THEN [p EXCEPT !.item[p.id - pin.id] = now]
    ELSE p

packet_id_add(p, pin) ==
    IF SeqBacktrack = 0
    THEN [p EXCEPT !.time = pin.time, !.id = pin.id]
    ELSE MarkArrived(
            PushUnseen(IF StartsNewList(p, pin) THEN NewList(p, pin) ELSE p,
                       pin),
            pin)

(***************************************************************************)
(* The check in openvpn_decrypt of the packet id of an authentic packet.   *)
(***************************************************************************)
Accept(pin) ==
    LET p == packet_id_reap_test(rec) IN
    /\ packet_id_test(p, pin)
    /\ rec' = packet_id_add(p, pin)
    /\ accepted' = accepted \cup {[time |-> pin.time, id |-> pin.id, at |-> now]}
    /\ UNCHANGED now

Reject(pin) ==
    LET p == packet_id_reap_test(rec) IN
    /\ ~ packet_id_test(p, pin)
    /\ rec' = p
    /\ UNCHANGED <<now, accepted>>

Tick ==
    /\ now < MaxTime
    /\ now' = now + 1
    /\ UNCHANGED <<rec, accepted>>

Next ==
    \/ \E pin \in PacketIdNet : Accept(pin) \/ Reject(pin)
    \/ Tick

Spec == Init /\ [][Next]_vars

(***************************************************************************)
(* Properties.                                                             *)
(***************************************************************************)

\* The values of a struct packet_id_rec.
Rec == [time : 0 .. MaxStamp, id : 0 .. MaxId, last_reap : Nat,
        size : 0 .. SeqBacktrack, item : [Index -> Nat]]

\* The types of the fields of struct packet_id_rec, of the list items and of
\* the history.
TypeOK ==
    /\ rec \in Rec
    /\ now \in Nat /\ now >= StartTime
    /\ accepted \subseteq [time : 0 .. MaxStamp, id : 1 .. MaxId, at : Nat]

\* "to check that no packet-id (i.e. sequence number + optional timestamp) is
\* accepted more than once" (struct packet_id_rec): whatever order packets
\* and copies arrive in, an accepted one is from then on refused.
AcceptedOnce ==
    \A a \in accepted : ~ packet_id_test(packet_id_reap_test(rec), a)

\* An item of the list is the arrival time of exactly the packet whose
\* number it belongs to: the window is never shifted against the numbers, so
\* a packet that was not seen is not refused as a replay.
MarksAreTrue ==
    \A k \in 0 .. rec.size - 1 :
        rec.item[k] > SEQ_EXPIRED =>
            [time |-> rec.time, id |-> rec.id - k, at |-> rec.item[k]] \in accepted

\* The break in packet_id_reap: behind an expired item all have expired.
ExpiredSuffix ==
    \A j, k \in 0 .. rec.size - 1 :
        j < k /\ rec.item[j] = SEQ_EXPIRED => rec.item[k] = SEQ_EXPIRED

\* Once a packet was accepted the window reaches SeqBacktrack numbers back,
\* or to number 1: a jump or a new time stamp never leaves it shorter.
WindowFull ==
    accepted # {} /\ SeqBacktrack # 0 =>
        rec.size = IF rec.id < SeqBacktrack THEN rec.id ELSE SeqBacktrack

\* "sequence numbers which can no longer be accepted because they would
\* violate time_backtrack": a late packet is let through only while every
\* later one arrived less than TimeBacktrack + ReapInterval ago.
BacktrackBounded ==
    TimeBacktrack # 0 /\ SeqBacktrack # 0 =>
        \A a \in accepted : \A pin \in [time : {a.time}, id : 0 .. a.id - 1] :
            packet_id_test(packet_id_reap_test(rec), pin)
                => a.at + TimeBacktrack + ReapInterval > now

\* "If a packet arrives out of order, it will only be accepted if it arrives
\* no later than t seconds after any packet containing a higher sequence
\* number" (openvpn.8, constraint (c) of --replay-window).
LateWithinWindow ==
    TimeBacktrack # 0 /\ SeqBacktrack # 0 =>
        \A a \in accepted : \A pin \in [time : {a.time}, id : 0 .. a.id - 1] :
            packet_id_test(packet_id_reap_test(rec), pin)
                => now <= a.at + TimeBacktrack

\* In sequential mode the numbers accepted under one time stamp have no gap.
NoGap ==
    SeqBacktrack = 0 =>
        \A a, b \in accepted : \A id \in a.id .. b.id :
            a.time = b.time =>
                \E c \in accepted : c.time = a.time /\ c.id = id
=============================================================================
