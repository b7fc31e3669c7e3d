------------------------- MODULE ReliableLinkProofs -------------------------
(***************************************************************************)
(* Proofs about Reliable and ReliableLink, for every width of the packet   *)
(* id, every size of the windows and of the acknowledgement record, every  *)
(* number of records, and a network that holds any number of packets: the  *)
(* comparisons of the ids, the safety of the channel, and that it          *)
(* implements Channel.                                                     *)
(***************************************************************************)
EXTENDS ReliableLink, SequenceTheorems, FiniteSetTheorems, TLAPS

-----------------------------------------------------------------------------
(***************************************************************************)
(* The comparisons of control channel packet ids (reliable.c:41-93), for   *)
(* every width of packet_id_type, and the checks of tls_pre_decrypt that   *)
(* are made of them.                                                       *)
(*                                                                         *)
(* The ids lie on a circle of PidMod numbers.  PidSub(a, b) is the number  *)
(* of steps from b forward to a: the order of the ids is a matter of this  *)
(* distance, as long as the ids compared lie on one half of the circle.    *)
(***************************************************************************)

\* Addition and subtraction stay within the type and undo each other.
LEMMA PidArith ==
    ASSUME NEW a \in PacketIdType, NEW n \in PacketIdType
    PROVE  /\ PidMod \in Nat /\ PidHalf \in Nat /\ PidHalf \in PacketIdType
           /\ PidAdd(a, n) \in PacketIdType
           /\ PidSub(a, n) \in PacketIdType
           /\ PidSub(PidAdd(a, n), a) = n
           /\ PidAdd(n, PidSub(a, n)) = a
BY ReliableAssumption DEF PidAdd, PidSub, PidMod, PacketIdType

\* The distance between two ids of a run that starts anywhere.
LEMMA PidShift ==
    ASSUME NEW a \in PacketIdType, NEW m \in PacketIdType, NEW n \in PacketIdType
    PROVE  PidSub(PidAdd(a, m), PidAdd(a, n)) = PidSub(m, n)
BY ReliableAssumption DEF PidAdd, PidSub, PidMod, PacketIdType

\* "verify that test - base < extent while allowing for base or test
\* wraparound" (reliable.c:41-61): the function does what its comment says,
\* whatever wraps.
THEOREM RangeOneIsCircular ==
    ASSUME NEW test \in PacketIdType, NEW base \in PacketIdType, NEW extent \in Nat
    PROVE  reliable_pid_in_range1(test, base, extent) <=> PidSub(test, base) < extent
<1>1. PidSub(PidAdd(test, PidHalf), PidAdd(base, PidHalf)) = PidSub(test, base)
  BY ReliableAssumption DEF PidAdd, PidSub, PidMod, PacketIdType
<1> QED  BY <1>1 DEF reliable_pid_in_range1, PidSub

\* "verify that p1 < p2 while allowing for p1 or p2 wraparound"
\* (reliable.c:85-93): on any run of ids no longer than half the circle, also
\* one that goes through the wrap, the function is the order of the run.  The
\* choice of the packet to send and the replay check rest on this.
THEOREM MinIsCircular ==
    ASSUME NEW base \in PacketIdType,
           NEW m \in 0 .. PidHalf, NEW n \in 0 .. PidHalf, m - n < PidHalf, n - m < PidHalf
    PROVE  reliable_pid_min(PidAdd(base, m), PidAdd(base, n)) <=> m < n
<1>1. /\ m \in PacketIdType /\ n \in PacketIdType /\ PidHalf \in Nat
  BY ReliableAssumption DEF PidMod, PacketIdType
<1>2. /\ PidAdd(base, m) \in PacketIdType /\ PidAdd(base, n) \in PacketIdType
      /\ PidSub(PidAdd(base, m), PidAdd(base, n)) = PidSub(m, n)
  BY <1>1, PidArith, PidShift
<1>3. reliable_pid_min(PidAdd(base, m), PidAdd(base, n)) <=> ~ (PidSub(m, n) < PidHalf)
  BY <1>1, <1>2, RangeOneIsCircular DEF reliable_pid_min
<1> QED  BY <1>1, <1>3, ReliableAssumption DEF PidSub, PidMod

\* The end of a window that has not reached the last id is the plain sum
\* (reliable.c:63-83).
LEMMA RangeTwoIsPlain ==
    ASSUME NEW test, NEW base \in Nat, NEW extent \in Nat, base + extent < PidMod
    PROVE  reliable_pid_in_range2(test, base, extent) <=> test < base + extent
<1>1. base + extent >= base /\ PidAdd(base, extent) = base + extent
  BY ReliableAssumption DEF PidAdd, PidMod
<1> QED  BY <1>1 DEF reliable_pid_in_range2

\* The two checks tls_pre_decrypt makes before it stores a packet
\* (ssl.c:4995-4997) let through exactly the ids of the receive window that
\* are not held already, as long as the next id to deliver and its window are
\* in the first half of the type.  (Beyond it reliable_pid_in_range2 compares
\* the plain numbers, against its comment, and lets ids through that are far
\* ahead.)
THEOREM RangeTwoInFirstLap ==
    ASSUME NEW rel, NEW id \in PacketIdType,
           rel.packet_id \in Nat, rel.packet_id + RecSize <= PidHalf
    PROVE  (reliable_not_replay(rel, id) /\ reliable_wont_break_sequentiality(rel, id))
              <=> id \in rel.packet_id .. rel.packet_id + RecSize - 1 /\ id \notin Ids(rel)
<1> DEFINE base == rel.packet_id
<1>1. /\ base \in PacketIdType /\ RecSize \in Nat \ {0} /\ PidHalf \in Nat
      /\ base + RecSize < PidMod
  BY ReliableAssumption DEF PidMod, PacketIdType
<1>2. reliable_not_replay(rel, id) <=> PidSub(id, base) < PidHalf /\ id \notin Ids(rel)
  <2>1. \A e \in Nat : reliable_pid_in_range1(id, base, e) <=> PidSub(id, base) < e
    BY <1>1, RangeOneIsCircular
  <2>2. reliable_pid_min(id, base) <=> ~ (PidSub(id, base) < PidHalf)
    BY <1>1, <2>1 DEF reliable_pid_min
  <2> QED  BY <2>2 DEF reliable_not_replay
<1>3. reliable_wont_break_sequentiality(rel, id) <=> id < base + RecSize
  BY <1>1, RangeTwoIsPlain DEF reliable_wont_break_sequentiality, PacketIdType
<1>4. /\ base \in Nat /\ base + RecSize <= PidHalf
  OBVIOUS
<1>5. base = rel.packet_id
  OBVIOUS
<1> HIDE DEF base
<1>6. PidSub(id, base) < PidHalf <=> id >= base /\ id < base + PidHalf
  BY <1>1, <1>4 DEF PidSub, PidMod, PacketIdType
<1>7. PidSub(id, base) < PidHalf /\ id < base + RecSize
        <=> id \in base .. base + RecSize - 1
  BY <1>1, <1>4, <1>6 DEF PacketIdType
<1> QED  BY <1>2, <1>3, <1>5, <1>7

\* reliable_get_buf_output_sequenced (reliable.c:441-475) keeps the ids in
\* flight within SendSize of each other, through the wrap too: if the id lies
\* ahead of all active ones, by at most SendSize, then after the activation of
\* the new entry the next id does as well.
THEOREM SendWindowKept ==
    ASSUME NEW rel, OutputSequenced(rel),
           rel.packet_id \in PacketIdType, Ids(rel) \subseteq PacketIdType
    PROVE  \A id \in Ids(rel) \cup {rel.packet_id} :
                PidSub(PidAdd(rel.packet_id, 1), id) \in 1 .. SendSize
<1>1. SendSize \in Nat \ {0} /\ PidHalf \in Nat \ {0} /\ SendSize < PidHalf
  BY ReliableAssumption
<1>2. \A id \in Ids(rel) : PidSub(rel.packet_id, id) < SendSize
  BY <1>1, RangeOneIsCircular DEF OutputSequenced
<1>3. ASSUME NEW id \in PacketIdType, NEW next \in PacketIdType,
             PidSub(next, id) < SendSize
      PROVE  PidSub(PidAdd(next, 1), id) \in 1 .. SendSize
  BY <1>1, <1>3 DEF PidSub, PidAdd, PidMod, PacketIdType
<1>4. PidSub(rel.packet_id, rel.packet_id) < SendSize
  BY <1>1 DEF PidSub, PacketIdType, PidMod
<1> QED  BY <1>2, <1>3, <1>4

\* reliable_ack_write (reliable.c:187-225) neither loses nor repeats an
\* acknowledgement: what it writes and what it keeps make up the record.
THEOREM AckWriteSplits ==
    ASSUME NEW ack \in Seq(PacketIdType), NEW max \in Nat
    PROVE  /\ Len(AckWritten(ack, max)) <= max
           /\ AckWritten(ack, max) \o AckKept(ack, max) = ack
<1> DEFINE n == IF Len(ack) > max THEN max ELSE Len(ack)
           w == SubSeq(ack, 1, n)
           k == SubSeq(ack, n + 1, Len(ack))
<1>1. n \in 0 .. Len(ack) /\ n <= max
  OBVIOUS
<1> HIDE DEF n
<1>2. /\ w \in Seq(PacketIdType) /\ Len(w) = n
      /\ k \in Seq(PacketIdType) /\ Len(k) = Len(ack) - n
      /\ \A i \in 1 .. n : w[i] = ack[i]
      /\ \A i \in 1 .. Len(ack) - n : k[i] = ack[n + i]
  BY <1>1
<1>3. w \o k = ack
  <2> HIDE DEF w, k
  <2>1. /\ w \o k \in Seq(PacketIdType) /\ Len(w \o k) = Len(w) + Len(k)
        /\ \A i \in 1 .. Len(w) + Len(k) :
                (w \o k)[i] = IF i <= Len(w) THEN w[i] ELSE k[i - Len(w)]
    BY <1>2, ConcatProperties, Zenon
  <2>2. Len(w \o k) = Len(ack)
    BY <1>1, <1>2, <2>1
  <2>3. \A i \in 1 .. Len(ack) : (w \o k)[i] = ack[i]
    BY <1>1, <1>2, <2>1
  <2> QED  BY <2>1, <2>2, <2>3, SeqEqual
<1> QED  BY <1>1, <1>2, <1>3 DEF AckWritten, AckKept, n

-----------------------------------------------------------------------------
(***************************************************************************)
(* What the operations of the reliability layer do to a struct reliable.   *)
(***************************************************************************)

\* In a buffer of this protocol an entry's id is the number of its record
\* (0 for the hard reset), and no id occurs twice.
Sound(rel) ==
    /\ \A i \in Active(rel) : rel.array[i].packet_id = rel.array[i].body
    /\ \A i, j \in Active(rel) :
            rel.array[i].packet_id = rel.array[j].packet_id => i = j

\* The buffer with one entry and its id replaced.
Updated(rel, i, e, pid) ==
    [packet_id |-> pid, hold |-> rel.hold, array |-> [rel.array EXCEPT ![i] = e]]

LEMMA UpdatedType ==
    ASSUME NEW p \in Peers, NEW size \in Nat, NEW rel \in Rel(p, size),
           NEW i \in 1 .. size, NEW e \in Entry(p), NEW pid \in PacketIdType
    PROVE  LET r == Updated(rel, i, e, pid) IN
           /\ r \in Rel(p, size)
           /\ r.packet_id = pid /\ r.hold = rel.hold
           /\ DOMAIN r.array = 1 .. size /\ DOMAIN rel.array = 1 .. size
           /\ \A j \in 1 .. size : r.array[j] = IF j = i THEN e ELSE rel.array[j]
BY DEF Updated, Rel

LEMMA NoEntryType == ASSUME NEW p \in Peers PROVE NoEntry \in Entry(p)
BY LinkAssumption, ReliableAssumption
   DEF NoEntry, Entry, PacketIdType, PidMod

LEMMA UpdatedEntry ==
    ASSUME NEW p \in Peers, NEW size \in Nat, NEW rel \in Rel(p, size), NEW i, NEW e
    PROVE  [rel EXCEPT !.array[i] = e] = Updated(rel, i, e, rel.packet_id)
<1>1. [rel EXCEPT !.array[i] = e] = [rel EXCEPT !.array = [rel.array EXCEPT ![i] = e]]
  BY Zenon
<1>2. rel = [packet_id |-> rel.packet_id, hold |-> rel.hold, array |-> rel.array]
  BY DEF Rel
<1>3. [rel EXCEPT !.array = [rel.array EXCEPT ![i] = e]]
        = Updated(rel, i, e, rel.packet_id)
  BY <1>2 DEF Updated, Rel
<1> QED  BY <1>1, <1>3

\* A free slot is filled with an id that is not in the buffer.
LEMMA FillEffect ==
    ASSUME NEW p \in Peers, NEW size \in Nat, NEW rel \in Rel(p, size),
           NEW i \in 1 .. size, i \notin Active(rel), NEW e \in Entry(p),
           NEW pid \in PacketIdType, e.active, e.packet_id = e.body,
           e.packet_id \notin Ids(rel), Sound(rel)
    PROVE  LET r == Updated(rel, i, e, pid) IN
           Sound(r) /\ Ids(r) = Ids(rel) \cup {e.packet_id}
<1> DEFINE r == Updated(rel, i, e, pid)
<1>1. /\ DOMAIN r.array = 1 .. size /\ DOMAIN rel.array = 1 .. size
      /\ \A j \in 1 .. size : r.array[j] = IF j = i THEN e ELSE rel.array[j]
  BY UpdatedType
<1> HIDE DEF r
<1>2. Active(r) = Active(rel) \cup {i}
  BY <1>1 DEF Active
<1>3. \A j \in Active(rel) : r.array[j] = rel.array[j]
  BY <1>1 DEF Active
<1>4. r.array[i] = e
  BY <1>1
<1>5. Ids(r) = Ids(rel) \cup {e.packet_id}
  BY <1>2, <1>3, <1>4 DEF Ids
<1>6. Sound(r)
  BY <1>2, <1>3, <1>4 DEF Ids, Sound
<1> QED  BY <1>5, <1>6 DEF r

\* An entry is cleared: only its id leaves.
LEMMA ClearEffect ==
    ASSUME NEW p \in Peers, NEW size \in Nat, NEW rel \in Rel(p, size),
           NEW i \in Active(rel), NEW pid \in PacketIdType, Sound(rel)
    PROVE  LET r == Updated(rel, i, NoEntry, pid) IN
           Sound(r) /\ Ids(r) = Ids(rel) \ {rel.array[i].packet_id}
<1> DEFINE r == Updated(rel, i, NoEntry, pid)
<1>0. i \in 1 .. size
  BY DEF Active, Rel
<1>1. /\ DOMAIN r.array = 1 .. size /\ DOMAIN rel.array = 1 .. size
      /\ \A j \in 1 .. size : r.array[j] = IF j = i THEN NoEntry ELSE rel.array[j]
  BY <1>0, UpdatedType, NoEntryType
<1> HIDE DEF r
<1>2. Active(r) = Active(rel) \ {i}
  BY <1>0, <1>1 DEF Active, NoEntry
<1>3. \A j \in Active(r) : r.array[j] = rel.array[j]
  BY <1>1, <1>2 DEF Active
<1>4. Ids(r) = Ids(rel) \ {rel.array[i].packet_id}
  BY <1>2, <1>3 DEF Ids, Sound
<1>5. Sound(r)
  BY <1>2, <1>3 DEF Sound
<1> QED  BY <1>4, <1>5 DEF r

\* Buffers that differ only in what is due hold the same.
SameEntries(r, rel) ==
    /\ DOMAIN r.array = DOMAIN rel.array
    /\ \A i \in DOMAIN rel.array :
        /\ r.array[i].active = rel.array[i].active
        /\ rel.array[i].active =>
            /\ r.array[i].packet_id = rel.array[i].packet_id
            /\ r.array[i].body = rel.array[i].body

LEMMA SameEntriesEffect ==
    ASSUME NEW r, NEW rel, SameEntries(r, rel)
    PROVE  Active(r) = Active(rel) /\ Ids(r) = Ids(rel) /\ (Sound(rel) => Sound(r))
<1>1. Active(r) = Active(rel)
  BY DEF SameEntries, Active
<1>2. \A i \in Active(rel) : /\ r.array[i].packet_id = rel.array[i].packet_id
                             /\ r.array[i].body = rel.array[i].body
  BY DEF SameEntries, Active
<1>3. Ids(r) = Ids(rel)
  BY <1>1, <1>2 DEF Ids
<1>4. Sound(rel) => Sound(r)
  BY <1>1, <1>2 DEF Sound
<1> QED  BY <1>1, <1>3, <1>4

LEMMA PurgeEffect ==
    ASSUME NEW p \in Peers, NEW size \in Nat, NEW rel \in Rel(p, size), NEW pids,
           Sound(rel)
    PROVE  LET r == reliable_send_purge(rel, pids) IN
           /\ r \in Rel(p, size) /\ Sound(r)
           /\ r.packet_id = rel.packet_id
           /\ Ids(r) = Ids(rel) \ pids
<1> DEFINE r == reliable_send_purge(rel, pids)
           a == [i \in 1 .. size |->
                    IF rel.array[i].active /\ rel.array[i].packet_id \in pids
                    THEN NoEntry ELSE rel.array[i]]
<1>1. /\ rel.array \in [1 .. size -> Entry(p)] /\ DOMAIN rel.array = 1 .. size
      /\ a \in [1 .. size -> Entry(p)]
  BY NoEntryType DEF Rel
<1>2. r = [rel EXCEPT !.array = a]
  BY <1>1 DEF reliable_send_purge
<1> HIDE DEF a, r
<1>3. /\ r \in Rel(p, size) /\ r.packet_id = rel.packet_id /\ r.array = a
  BY <1>1, <1>2 DEF Rel
<1>4. Active(r) = {i \in Active(rel) : rel.array[i].packet_id \notin pids}
  BY <1>1, <1>3 DEF Active, a, NoEntry
<1>5. \A i \in Active(r) : r.array[i] = rel.array[i]
  BY <1>1, <1>3, <1>4 DEF Active, a
<1>6. Ids(r) = Ids(rel) \ pids
  BY <1>4, <1>5 DEF Ids
<1>7. Sound(r)
  BY <1>4, <1>5 DEF Sound
<1> QED  BY <1>3, <1>6, <1>7 DEF r

LEMMA ScheduleEffect ==
    ASSUME NEW p \in Peers, NEW size \in Nat, NEW rel \in Rel(p, size)
    PROVE  LET r == reliable_schedule_now(rel) IN
           /\ r \in Rel(p, size) /\ SameEntries(r, rel)
           /\ r.packet_id = rel.packet_id
<1> DEFINE r == reliable_schedule_now(rel)
           a == [i \in 1 .. size |->
                    IF rel.array[i].active THEN [rel.array[i] EXCEPT !.due = TRUE]
                                           ELSE rel.array[i]]
<1>1. rel.array \in [1 .. size -> Entry(p)] /\ DOMAIN rel.array = 1 .. size
  BY DEF Rel
<1>2. a \in [1 .. size -> Entry(p)]
  BY <1>1 DEF Entry
<1>3. r = [rel EXCEPT !.hold = FALSE, !.array = a]
  BY <1>1 DEF reliable_schedule_now
<1>4. \A i \in 1 .. size :
        /\ a[i].active = rel.array[i].active
        /\ a[i].packet_id = rel.array[i].packet_id
        /\ a[i].body = rel.array[i].body
  BY <1>1 DEF Entry
<1> HIDE DEF a, r
<1>5. r = [packet_id |-> rel.packet_id, hold |-> FALSE, array |-> a]
  BY <1>3 DEF Rel
<1>6. /\ r \in Rel(p, size) /\ r.packet_id = rel.packet_id /\ r.array = a
  BY <1>2, <1>5 DEF Rel
<1>7. SameEntries(r, rel)
  BY <1>1, <1>2, <1>4, <1>6 DEF SameEntries
<1> QED  BY <1>6, <1>7 DEF r

\* Only the due time of one entry changes: reliable_send and Timeout.
LEMMA DueEffect ==
    ASSUME NEW p \in Peers, NEW size \in Nat, NEW rel \in Rel(p, size),
           NEW i \in 1 .. size, NEW r,
           \/ r = [rel EXCEPT !.array[i].due = TRUE]
           \/ r = [rel EXCEPT !.array[i].due = FALSE]
    PROVE  /\ r \in Rel(p, size) /\ SameEntries(r, rel)
           /\ r.packet_id = rel.packet_id
<1>1. PICK due \in BOOLEAN : r = [rel EXCEPT !.array[i].due = due]
  <2>1. TRUE \in BOOLEAN /\ FALSE \in BOOLEAN
    OBVIOUS
  <2> QED  BY <2>1, Zenon
<1> DEFINE e == [rel.array[i] EXCEPT !.due = due]
<1>2. rel.array[i] \in Entry(p) /\ rel.packet_id \in PacketIdType
  BY DEF Rel
<1>3. /\ e \in Entry(p) /\ e.active = rel.array[i].active
      /\ e.packet_id = rel.array[i].packet_id /\ e.body = rel.array[i].body
  BY <1>2 DEF Entry
<1>4. r = Updated(rel, i, e, rel.packet_id)
  <2>1. [rel EXCEPT !.array[i].due = due] = [rel EXCEPT !.array[i] = e]
    BY Zenon
  <2> QED  BY <1>1, <2>1, UpdatedEntry
<1> HIDE DEF e
<1>5. /\ r \in Rel(p, size) /\ r.packet_id = rel.packet_id
      /\ DOMAIN r.array = 1 .. size /\ DOMAIN rel.array = 1 .. size
      /\ \A j \in 1 .. size : r.array[j] = IF j = i THEN e ELSE rel.array[j]
  BY <1>2, <1>3, <1>4, UpdatedType
<1>6. SameEntries(r, rel)
  BY <1>3, <1>5 DEF SameEntries
<1> QED  BY <1>5, <1>6

-----------------------------------------------------------------------------
(***************************************************************************)
(* The invariant that relates a peer's key state k to that of the other    *)
(* peer, o.                                                                *)
(***************************************************************************)

\* What holds of the key state of p by itself.  Its record counter is in step
\* with the ids it has used, its buffers hold nothing beyond their ranges, it
\* acknowledges only what it received, and before it knows the remote session
\* nothing was received and nothing dropped.
Local(k, p) ==
    /\ k \in KeyState(p)
    /\ Sound(k.send) /\ Sound(k.rec)
    /\ k.send.packet_id = IF k.state = "S_INITIAL" THEN 0 ELSE k.out + 1
    /\ k.state # "S_START" => k.out = 0
    /\ k.state # "S_INITIAL" => k.addr
    /\ \A id \in Ids(k.send) : id < k.send.packet_id
    /\ \A id \in Ids(k.rec) :
            id >= k.rec.packet_id /\ id < k.rec.packet_id + RecSize
    /\ Len(k.in) = IF k.rec.packet_id = 0 THEN 0 ELSE k.rec.packet_id - 1
    /\ \A id \in AckIds(k.ack) : Received(k, id)
    /\ ~ k.sid =>
        /\ \A id \in 0 .. k.send.packet_id - 1 : id \in Ids(k.send)
        /\ k.rec.packet_id = 0 /\ Ids(k.rec) = {} /\ k.ack = << >>

\* What holds of the direction from k to o: o received only what was sent,
\* nothing is forgotten, and a started k has an o that knows it.
Towards(k, o) ==
    /\ o.rec.packet_id <= k.send.packet_id
    /\ \A id \in Ids(o.rec) : id < k.send.packet_id
    /\ \A id \in 0 .. k.send.packet_id - 1 : id \in Ids(k.send) \/ Received(o, id)
    /\ k.state = "S_START" => k.sid /\ o.sid /\ Received(o, 0)

Pair(k, o, p) ==
    /\ Local(k, p) /\ Local(o, Other(p))
    /\ Towards(k, o) /\ Towards(o, k)

\* A packet on the wire to q, sent by the peer with key state k.
Fits(m, k, q) ==
    /\ m \in PacketTo(q)
    /\ \A id \in m.acks : Received(k, id)
    /\ m.op # Ack => m.packet_id = m.body /\ m.packet_id < k.send.packet_id

IInv ==
    /\ DOMAIN ks = Peers
    /\ busy \in [Peers -> BOOLEAN]
    /\ DOMAIN net = Peers
    /\ \A p \in Peers : Pair(ks[p], ks[Other(p)], p)
    /\ \A p \in Peers : \A m \in net[p] : Fits(m, ks[Other(p)], p)

\* A key state never takes back what it received or sent.
Grows(k, k2) ==
    /\ \A id \in PacketIdType : Received(k, id) => Received(k2, id)
    /\ k.send.packet_id <= k2.send.packet_id

\* No id of this module comes near the wrap.
LEMMA Sizes ==
    ASSUME NEW p \in Peers
    PROVE  /\ Other(p) \in Peers /\ Other(Other(p)) = p /\ Other(p) # p
           /\ Records[p] \in Nat /\ SendSize \in Nat /\ RecSize \in Nat \ {0}
           /\ PidHalf \in Nat /\ PidMod \in Nat
           /\ Records[p] + 1 + RecSize < PidHalf
           /\ 0 .. Records[p] + 1 + RecSize \subseteq PacketIdType
           /\ \A id \in 0 .. Records[p] + 1 : PidAdd(id, 1) = id + 1
BY LinkAssumption, ReliableAssumption
   DEF Other, Peers, PacketIdType, PidMod, PidAdd

LEMMA FitsGrows ==
    ASSUME NEW q \in Peers, NEW m, NEW k \in KeyState(Other(q)),
           NEW k2 \in KeyState(Other(q)), Fits(m, k, q), Grows(k, k2)
    PROVE  Fits(m, k2, q)
<1>1. m.acks \subseteq PacketIdType /\ m.packet_id \in Int
  BY DEF Fits, PacketTo, PacketIdType
<1>2. k.send.packet_id \in Int /\ k2.send.packet_id \in Int
  BY DEF KeyState, Rel, PacketIdType
<1> QED  BY <1>1, <1>2 DEF Fits, Grows

-----------------------------------------------------------------------------
(***************************************************************************)
(* What each part of a step does to the pair.                              *)
(***************************************************************************)

\* Nothing but due times, the address and the end of the acknowledgement
\* record change.
LEMMA SameBuffers ==
    ASSUME NEW p \in Peers, NEW k, NEW o, Pair(k, o, p), NEW k2 \in KeyState(p),
           k2.state = k.state, k2.out = k.out, k2.in = k.in, k2.rec = k.rec,
           k.addr => k2.addr, k.sid => k2.sid,
           SameEntries(k2.send, k.send), k2.send.packet_id = k.send.packet_id,
           AckIds(k2.ack) \subseteq AckIds(k.ack), k.ack = << >> => k2.ack = << >>
    PROVE  Pair(k2, o, p) /\ Grows(k, k2)
<1>1. Ids(k2.send) = Ids(k.send) /\ Sound(k2.send)
  BY SameEntriesEffect DEF Pair, Local
<1>2. \A id : Received(k2, id) <=> Received(k, id)
  BY DEF Received
<1>3. Local(k2, p)
  BY <1>1, <1>2 DEF Pair, Local
<1>4. Towards(k2, o) /\ Towards(o, k2)
  BY <1>1, <1>2 DEF Pair, Towards
<1>5. k.send.packet_id <= k.send.packet_id
  BY DEF Pair, Local, KeyState, Rel, PacketIdType
<1> QED  BY <1>2, <1>3, <1>4, <1>5 DEF Pair, Grows

LEMMA OpenSessionEffect ==
    ASSUME NEW p \in Peers, NEW k, NEW o, Pair(k, o, p)
    PROVE  LET k2 == OpenSession(k) IN
           /\ Pair(k2, o, p) /\ Grows(k, k2)
           /\ k2.sid /\ k2.out = k.out /\ k2.in = k.in
<1>1. k \in KeyState(p)
  BY DEF Pair, Local
<1>2. k.send.packet_id <= k.send.packet_id
  BY <1>1 DEF KeyState, Rel, PacketIdType
<1>3. CASE k.sid
  BY <1>2, <1>3 DEF OpenSession, Grows
<1>4. CASE ~ k.sid
  <2> DEFINE s == reliable_schedule_now(k.send)
             k2 == [k EXCEPT !.sid = TRUE, !.addr = TRUE, !.send = s]
  <2>1. OpenSession(k) = k2
    BY <1>4 DEF OpenSession
  <2>2. k.send \in Rel(p, SendSize) /\ SendSize \in Nat
    BY <1>1, Sizes DEF KeyState
  <2>3. /\ s \in Rel(p, SendSize) /\ SameEntries(s, k.send)
        /\ s.packet_id = k.send.packet_id
    BY <2>2, ScheduleEffect
  <2> HIDE DEF s
  <2>4. /\ k2 \in KeyState(p) /\ k2.state = k.state /\ k2.out = k.out
        /\ k2.in = k.in /\ k2.rec = k.rec /\ k2.addr /\ k2.sid /\ k2.send = s
        /\ k2.ack = k.ack
    BY <1>1, <2>3 DEF KeyState
  <2> HIDE DEF k2
  <2>5. Pair(k2, o, p) /\ Grows(k, k2)
    BY <2>3, <2>4, SameBuffers
  <2> QED  BY <2>1, <2>4, <2>5
<1> QED  BY <1>3, <1>4

\* What the peer acknowledged, it has received: nothing is forgotten.
LEMMA PurgeAckedEffect ==
    ASSUME NEW p \in Peers, NEW k, NEW o, NEW m, Pair(k, o, p), k.sid,
           \A id \in m.acks : Received(o, id)
    PROVE  LET k2 == PurgeAcked(k, m) IN
           /\ Pair(k2, o, p) /\ Grows(k, k2)
           /\ k2.sid /\ k2.out = k.out /\ k2.in = k.in
<1> DEFINE s == reliable_send_purge(k.send, m.acks)
           k2 == [k EXCEPT !.send = s]
<1>1. k \in KeyState(p) /\ k.send \in Rel(p, SendSize) /\ SendSize \in Nat
      /\ Sound(k.send)
  BY Sizes DEF Pair, Local, KeyState
<1>2. /\ s \in Rel(p, SendSize) /\ Sound(s) /\ s.packet_id = k.send.packet_id
      /\ Ids(s) = Ids(k.send) \ m.acks
  BY <1>1, PurgeEffect
<1>3. PurgeAcked(k, m) = k2
  BY DEF PurgeAcked
<1> HIDE DEF s
<1>4. /\ k2 \in KeyState(p) /\ k2.state = k.state /\ k2.out = k.out
      /\ k2.in = k.in /\ k2.rec = k.rec /\ k2.addr = k.addr /\ k2.sid = k.sid
      /\ k2.send = s /\ k2.ack = k.ack
  BY <1>1, <1>2 DEF KeyState
<1> HIDE DEF k2
<1>5. \A id : Received(k2, id) <=> Received(k, id)
  BY <1>4 DEF Received
<1>6. Local(k2, p)
  BY <1>2, <1>4, <1>5 DEF Pair, Local
<1>7. Towards(k2, o)
  BY <1>2, <1>4 DEF Pair, Towards
<1>8. Towards(o, k2)
  BY <1>4, <1>5 DEF Pair, Towards
<1>9. k.send.packet_id <= k.send.packet_id
  BY <1>1 DEF Rel, PacketIdType
<1> QED  BY <1>2, <1>3, <1>4, <1>5, <1>6, <1>7, <1>8, <1>9 DEF Pair, Grows

\* A packet that lies in the window and is not there yet is stored; one that
\* lies in the window is acknowledged, because it was received, now or before.
LEMMA StoreIncomingEffect ==
    ASSUME NEW p \in Peers, NEW k, NEW o, NEW m, Pair(k, o, p), k.sid, Fits(m, o, p)
    PROVE  LET k2 == StoreIncoming(k, m) IN
           /\ Pair(k2, o, p) /\ Grows(k, k2)
           /\ k2.out = k.out /\ k2.in = k.in
<1> DEFINE q == Other(p)
           id == m.packet_id
           stored == reliable_mark_active_incoming(
                        k.rec, reliable_get_buf(k.rec), id, m.body)
           rec2 == IF reliable_not_replay(k.rec, id) THEN stored ELSE k.rec
           ack2 == reliable_ack_acknowledge_packet_id(k.ack, id)
           k2 == [k EXCEPT !.rec = rec2, !.ack = ack2]
<1>1. /\ k \in KeyState(p) /\ o \in KeyState(q)
      /\ k.rec \in Rel(q, RecSize) /\ Sound(k.rec) /\ k.ack \in Seq(PacketIdType)
      /\ q \in Peers /\ RecSize \in Nat /\ id \in PacketIdType /\ m.body \in 0 .. Records[q]
      /\ k.rec.packet_id \in Nat /\ k.send.packet_id \in Nat /\ o.send.packet_id \in Nat
      /\ Ids(k.rec) \subseteq PacketIdType
  <2>1. k \in KeyState(p) /\ o \in KeyState(q) /\ Sound(k.rec)
    BY DEF Pair, Local
  <2>2. m \in PacketTo(p)
    BY DEF Fits
  <2>3. /\ k.rec \in Rel(q, RecSize) /\ k.ack \in Seq(PacketIdType)
        /\ k.send \in Rel(p, SendSize) /\ o.send \in Rel(q, SendSize)
    BY <2>1 DEF KeyState
  <2>4. Ids(k.rec) \subseteq PacketIdType
    BY <2>3 DEF Ids, Active, Rel, Entry
  <2> QED  BY <2>1, <2>2, <2>3, <2>4, Sizes DEF PacketTo, Rel, PacketIdType
<1>2. CASE ~ (/\ m.op # Ack
              /\ reliable_can_get(k.rec)
              /\ reliable_wont_break_sequentiality(k.rec, id))
  BY <1>1, <1>2 DEF StoreIncoming, Grows
<1>3. CASE /\ m.op # Ack
           /\ reliable_can_get(k.rec)
           /\ reliable_wont_break_sequentiality(k.rec, id)
  <2>1. /\ id = m.body /\ id < o.send.packet_id
        /\ k.rec.packet_id <= o.send.packet_id
        /\ o.send.packet_id <= Records[q] + 1
    <3>1. o.out \in 0 .. Records[q]
      BY <1>1 DEF KeyState
    <3>2. /\ o.send.packet_id = IF o.state = "S_INITIAL" THEN 0 ELSE o.out + 1
          /\ k.rec.packet_id <= o.send.packet_id
      BY DEF Pair, Local, Towards
    <3> QED  BY <1>1, <1>3, <3>1, <3>2, Sizes DEF Fits
  <2>2. /\ k.rec.packet_id + RecSize <= PidHalf
        /\ k.rec.packet_id + RecSize < PidMod
    <3>1. /\ Records[q] + 1 + RecSize < PidHalf /\ PidHalf \in Nat
          /\ Records[q] \in Nat /\ RecSize \in Nat /\ PidMod = 2 * PidHalf
      BY <1>1, Sizes DEF PidMod
    <3> HIDE DEF q
    <3> QED  BY <1>1, <2>1, <3>1
  <2>3. id < k.rec.packet_id + RecSize
    BY <1>1, <1>3, <2>2, RangeTwoIsPlain DEF reliable_wont_break_sequentiality
  <2>4. reliable_not_replay(k.rec, id)
            <=> id >= k.rec.packet_id /\ id \notin Ids(k.rec)
    BY <1>1, <1>3, <2>2, <2>3, RangeTwoInFirstLap DEF PacketIdType
  \* What happens to the receive buffer.
  <2>5. /\ rec2 \in Rel(q, RecSize) /\ Sound(rec2)
        /\ rec2.packet_id = k.rec.packet_id
        /\ Ids(rec2) \subseteq Ids(k.rec) \cup {id}
        /\ Ids(k.rec) \subseteq Ids(rec2)
        /\ id < k.rec.packet_id \/ id \in Ids(rec2)
        /\ id \in Ids(rec2) \ Ids(k.rec) => id >= k.rec.packet_id
    <3>1. CASE ~ reliable_not_replay(k.rec, id)
      BY <1>1, <2>4, <3>1 DEF PacketIdType
    <3>2. CASE reliable_not_replay(k.rec, id)
      <4> DEFINE i == reliable_get_buf(k.rec)
                 e == [active |-> TRUE, packet_id |-> id, body |-> m.body, due |-> TRUE]
                 r == Updated(k.rec, i, e, k.rec.packet_id)
      <4>1. i \in 1 .. RecSize /\ i \notin Active(k.rec)
        BY <1>1, <1>3 DEF reliable_get_buf, reliable_can_get, Active, Rel
      <4>2. e \in Entry(q) /\ e.active /\ e.packet_id = e.body /\ e.packet_id = id
        BY <1>1, <2>1 DEF Entry
      <4>3. stored = r
        BY <1>1, UpdatedEntry DEF reliable_mark_active_incoming
      <4> HIDE DEF i, e
      <4>4. k.rec.packet_id \in PacketIdType
        BY <1>1 DEF Rel
      <4>5. r \in Rel(q, RecSize) /\ r.packet_id = k.rec.packet_id
        BY <1>1, <4>1, <4>2, <4>4, UpdatedType
      <4>6. Sound(r) /\ Ids(r) = Ids(k.rec) \cup {id}
        <5>1. e.packet_id \notin Ids(k.rec)
          BY <2>4, <3>2, <4>2
        <5>2. /\ q \in Peers /\ RecSize \in Nat /\ k.rec \in Rel(q, RecSize)
              /\ Sound(k.rec)
          BY <1>1
        <5>3. e \in Entry(q) /\ e.active /\ e.packet_id = e.body
          BY <4>2
        <5> HIDE DEF q
        <5>4. Sound(r) /\ Ids(r) = Ids(k.rec) \cup {e.packet_id}
          BY <4>1, <4>4, <5>1, <5>2, <5>3, FillEffect
        <5> QED  BY <4>2, <5>4
      <4> HIDE DEF r, stored
      <4> QED  BY <2>4, <3>2, <4>3, <4>5, <4>6
    <3> QED  BY <3>1, <3>2
  <2>6. ack2 \in Seq(PacketIdType) /\ AckIds(ack2) \subseteq AckIds(k.ack) \cup {id}
    BY <1>1 DEF reliable_ack_acknowledge_packet_id, AckIds
  <2>7. StoreIncoming(k, m) = k2
    BY <1>3 DEF StoreIncoming
  <2> HIDE DEF rec2, ack2
  <2>8. /\ k2 \in KeyState(p) /\ k2.state = k.state /\ k2.out = k.out
        /\ k2.in = k.in /\ k2.send = k.send /\ k2.addr = k.addr /\ k2.sid = k.sid
        /\ k2.rec = rec2 /\ k2.ack = ack2
    BY <1>1, <2>5, <2>6 DEF KeyState
  <2> HIDE DEF k2, id
  <2>9. /\ \A x : Received(k, x) => Received(k2, x)
        /\ Received(k2, id)
    BY <2>5, <2>8 DEF Received
  <2>10. Local(k2, p)
    <3>1. \A x \in Ids(k2.rec) :
              x >= k2.rec.packet_id /\ x < k2.rec.packet_id + RecSize
      <4>1. \A x \in Ids(k.rec) :
                x >= k.rec.packet_id /\ x < k.rec.packet_id + RecSize
        BY DEF Pair, Local
      <4> QED  BY <2>3, <2>5, <2>8, <4>1
    <3>2. \A x \in AckIds(k2.ack) : Received(k2, x)
      BY <2>6, <2>8, <2>9 DEF Pair, Local
    <3> QED  BY <1>1, <2>5, <2>8, <3>1, <3>2 DEF Pair, Local
  <2>11. Towards(k2, o)
    BY <2>8 DEF Pair, Towards
  <2>12. Towards(o, k2)
    BY <2>1, <2>5, <2>8, <2>9 DEF Pair, Towards
  <2> QED  BY <1>1, <2>7, <2>8, <2>9, <2>10, <2>11, <2>12 DEF Pair, Grows
<1> QED  BY <1>2, <1>3

\* An entry for the next id is activated: the hard reset or the next record.
LEMMA ActivateEffect ==
    ASSUME NEW p \in Peers, NEW rel \in Rel(p, SendSize), Sound(rel),
           OutputSequenced(rel), rel.packet_id \in 0 .. Records[p],
           \A id \in Ids(rel) : id < rel.packet_id
    PROVE  LET s == reliable_mark_active_outgoing(
                        rel, reliable_get_buf(rel), rel.packet_id) IN
           /\ s \in Rel(p, SendSize) /\ Sound(s)
           /\ s.packet_id = rel.packet_id + 1
           /\ Ids(s) = Ids(rel) \cup {rel.packet_id}
<1> DEFINE id == rel.packet_id
           i == reliable_get_buf(rel)
           e == [active |-> TRUE, packet_id |-> id, body |-> id, due |-> TRUE]
           next == id + 1
           s == Updated(rel, i, e, next)
<1>1. /\ id \in PacketIdType /\ id + 1 \in PacketIdType /\ PidAdd(id, 1) = id + 1
      /\ SendSize \in Nat /\ id \in 0 .. Records[p]
  <2>1. id \in 0 .. Records[p] + 1 + RecSize /\ id + 1 \in 0 .. Records[p] + 1 + RecSize
    BY Sizes
  <2>2. id \in 0 .. Records[p] + 1
    BY Sizes
  <2> QED  BY <2>1, <2>2, Sizes
<1>2. i \in 1 .. SendSize /\ i \notin Active(rel)
  BY DEF OutputSequenced, reliable_get_buf, reliable_can_get, Active, Rel
<1>3. e \in Entry(p) /\ e.active /\ e.packet_id = e.body /\ e.packet_id = id
  BY <1>1 DEF Entry
<1>4. id \notin Ids(rel)
  BY <1>1
<1>5. reliable_mark_active_outgoing(rel, i, id) = s
  <2>1. rel = [packet_id |-> rel.packet_id, hold |-> rel.hold, array |-> rel.array]
    BY DEF Rel
  <2>2. reliable_mark_active_outgoing(rel, i, id)
            = [rel EXCEPT !.array = [rel.array EXCEPT ![i] = e], !.packet_id = id + 1]
    BY <1>1 DEF reliable_mark_active_outgoing
  <2> HIDE DEF e, i, id
  <2> QED  BY <2>1, <2>2 DEF Updated, Rel
<1>6. /\ e.packet_id \notin Ids(rel) /\ next \in PacketIdType /\ SendSize \in Nat
      /\ e \in Entry(p) /\ e.active /\ e.packet_id = e.body
  BY <1>1, <1>3, <1>4
<1> HIDE DEF e, i, id, next
<1>7. s \in Rel(p, SendSize) /\ s.packet_id = next
  <2>1. /\ i \in 1 .. SendSize /\ next \in PacketIdType /\ SendSize \in Nat
        /\ e \in Entry(p)
    BY <1>2, <1>6
  <2>2. s \in Rel(p, SendSize)
    BY <2>1, UpdatedType
  <2>3. s.packet_id = next
    BY DEF Updated
  <2> QED  BY <2>2, <2>3
<1>8. Sound(s) /\ Ids(s) = Ids(rel) \cup {e.packet_id}
  BY <1>2, <1>6, FillEffect
<1> HIDE DEF s
<1> QED  BY <1>3, <1>5, <1>7, <1>8 DEF i, id, next

\* The next id is sent: the pair stands, and the other side need not have it.
LEMMA SendNext ==
    ASSUME NEW p \in Peers, NEW k, NEW o, Pair(k, o, p), NEW k2 \in KeyState(p),
           k2.addr, k2.sid = k.sid, k2.in = k.in, k2.rec = k.rec, k2.ack = k.ack,
           Sound(k2.send), k2.send.packet_id = k.send.packet_id + 1,
           Ids(k2.send) = Ids(k.send) \cup {k.send.packet_id},
           \/ k.state = "S_INITIAL" /\ k2.state = "S_PRE_START" /\ k2.out = k.out
           \/ k.state = "S_START" /\ k2.state = "S_START" /\ k2.out = k.out + 1
    PROVE  Pair(k2, o, p) /\ Grows(k, k2)
<1>1. k \in KeyState(p) /\ k.send.packet_id \in Nat /\ k.out \in Nat
      /\ o.rec.packet_id \in Nat /\ Ids(k.send) \subseteq PacketIdType
      /\ Ids(o.rec) \subseteq PacketIdType
  <2>1. /\ k \in KeyState(p) /\ k.send \in Rel(p, SendSize)
        /\ o.rec \in Rel(Other(Other(p)), RecSize) /\ k.out \in Nat
    BY Sizes DEF Pair, Local, KeyState
  <2>2. Ids(k.send) \subseteq PacketIdType /\ Ids(o.rec) \subseteq PacketIdType
    BY <2>1 DEF Ids, Active, Rel, Entry
  <2> QED  BY <2>1, <2>2 DEF Rel, PacketIdType
<1>2. \A id : Received(k2, id) <=> Received(k, id)
  BY DEF Received
<1>3. /\ k.send.packet_id = IF k.state = "S_INITIAL" THEN 0 ELSE k.out + 1
      /\ k.state # "S_START" => k.out = 0
      /\ \A id \in Ids(k.send) : id < k.send.packet_id
  BY DEF Pair, Local
<1>4. Local(k2, p)
  <2>1. k2.send.packet_id = IF k2.state = "S_INITIAL" THEN 0 ELSE k2.out + 1
    BY <1>1, <1>3
  <2>2. \A id \in Ids(k2.send) : id < k2.send.packet_id
    BY <1>1, <1>3 DEF PacketIdType
  <2>3. ~ k.sid => \A id \in 0 .. k2.send.packet_id - 1 : id \in Ids(k2.send)
    BY <1>1 DEF Pair, Local
  <2> QED  BY <1>2, <1>3, <2>1, <2>2, <2>3 DEF Pair, Local
<1>5. Towards(k2, o)
  <2>1. /\ o.rec.packet_id <= k2.send.packet_id
        /\ \A id \in Ids(o.rec) : id < k2.send.packet_id
    BY <1>1 DEF Pair, Towards, PacketIdType
  <2>2. \A id \in 0 .. k2.send.packet_id - 1 : id \in Ids(k2.send) \/ Received(o, id)
    BY <1>1 DEF Pair, Towards
  <2> QED  BY <2>1, <2>2 DEF Pair, Towards
<1>6. Towards(o, k2)
  BY <1>2 DEF Pair, Towards
<1> QED  BY <1>1, <1>2, <1>4, <1>5, <1>6 DEF Pair, Grows

LEMMA InitialHandshakeEffect ==
    ASSUME NEW p \in Peers, NEW k, NEW o, Pair(k, o, p), k.addr
    PROVE  LET k2 == InitialHandshake(k) IN
           /\ Pair(k2, o, p) /\ Grows(k, k2)
           /\ k2.addr /\ k2.out = k.out /\ k2.in = k.in
<1>1. /\ k \in KeyState(p) /\ k.send \in Rel(p, SendSize) /\ Sound(k.send)
      /\ \A id \in Ids(k.send) : id < k.send.packet_id
      /\ k.state = "S_INITIAL" => k.send.packet_id = 0
  BY DEF Pair, Local, KeyState
<1>2. CASE ~ (k.state = "S_INITIAL" /\ OutputSequenced(k.send))
  <2>1. k.send.packet_id <= k.send.packet_id
    BY <1>1 DEF Rel, PacketIdType
  <2> QED  BY <1>2, <2>1 DEF InitialHandshake, Grows
<1>3. CASE k.state = "S_INITIAL" /\ OutputSequenced(k.send)
  <2> DEFINE s == reliable_mark_active_outgoing(k.send, reliable_get_buf(k.send), 0)
             k2 == [k EXCEPT !.send = s, !.state = "S_PRE_START"]
  <2>1. /\ s \in Rel(p, SendSize) /\ Sound(s) /\ s.packet_id = k.send.packet_id + 1
        /\ Ids(s) = Ids(k.send) \cup {k.send.packet_id}
    <3>1. k.send.packet_id = 0 /\ 0 \in 0 .. Records[p]
      BY <1>1, <1>3, Sizes
    <3> QED  BY <1>1, <1>3, <3>1, ActivateEffect
  <2>2. InitialHandshake(k) = k2
    BY <1>3 DEF InitialHandshake
  <2> HIDE DEF s
  <2>3. /\ k2 \in KeyState(p) /\ k2.state = "S_PRE_START" /\ k2.out = k.out
        /\ k2.in = k.in /\ k2.send = s /\ k2.addr = k.addr /\ k2.sid = k.sid
        /\ k2.rec = k.rec /\ k2.ack = k.ack
    BY <1>1, <2>1 DEF KeyState
  <2> HIDE DEF k2
  <2>4. Pair(k2, o, p) /\ Grows(k, k2)
    BY <1>3, <2>1, <2>3, SendNext
  <2> QED  BY <2>2, <2>3, <2>4
<1> QED  BY <1>2, <1>3

\* FULL_SYNC in S_PRE_START: the hard reset went out and left the buffer, so
\* the other side received it, and this one knows the session.
LEMMA InitialHandshakeAckedEffect ==
    ASSUME NEW p \in Peers, NEW k, NEW o, Pair(k, o, p), k.addr
    PROVE  LET k2 == InitialHandshakeAcked(k) IN
           /\ Pair(k2, o, p) /\ Grows(k, k2)
           /\ k2.addr /\ k2.out = k.out /\ k2.in = k.in
<1>1. k \in KeyState(p) /\ k.send \in Rel(p, SendSize)
  BY DEF Pair, Local, KeyState
<1>2. k.send.packet_id <= k.send.packet_id
  BY <1>1 DEF Rel, PacketIdType
<1>3. CASE ~ (k.state = "S_PRE_START" /\ FullSync(k))
  BY <1>2, <1>3 DEF InitialHandshakeAcked, Grows
<1>4. CASE k.state = "S_PRE_START" /\ FullSync(k)
  <2> DEFINE k2 == [k EXCEPT !.state = "S_START"]
  <2>1. InitialHandshakeAcked(k) = k2
    BY <1>4 DEF InitialHandshakeAcked
  <2>2. /\ k2 \in KeyState(p) /\ k2.state = "S_START" /\ k2.out = k.out
        /\ k2.in = k.in /\ k2.send = k.send /\ k2.addr = k.addr /\ k2.sid = k.sid
        /\ k2.rec = k.rec /\ k2.ack = k.ack
    BY <1>1 DEF KeyState
  <2> HIDE DEF k2
  <2>3. Ids(k.send) = {}
    BY <1>4 DEF FullSync, reliable_empty, Ids
  <2>4. k.send.packet_id = 1
    BY <1>4 DEF Pair, Local
  <2>5. k.sid
    <3>1. 0 \in 0 .. k.send.packet_id - 1 /\ 0 \notin Ids(k.send)
      BY <2>3, <2>4
    <3>2. ~ k.sid => \A id \in 0 .. k.send.packet_id - 1 : id \in Ids(k.send)
      BY DEF Pair, Local
    <3> QED  BY <3>1, <3>2
  <2>6. Received(o, 0)
    BY <2>3, <2>4 DEF Pair, Towards
  <2>7. o.sid
    BY <2>6 DEF Pair, Local, Received
  <2>8. \A id : Received(k2, id) <=> Received(k, id)
    BY <2>2 DEF Received
  <2>9. Local(k2, p)
    BY <1>4, <2>2, <2>4, <2>8 DEF Pair, Local
  <2>10. Towards(k2, o) /\ Towards(o, k2)
    BY <2>2, <2>5, <2>6, <2>7, <2>8 DEF Pair, Towards
  <2> QED  BY <1>2, <2>1, <2>2, <2>8, <2>9, <2>10 DEF Pair, Grows
<1> QED  BY <1>3, <1>4

\* The next record in sequence leaves the receive buffer for the TLS object;
\* it is the one after those the TLS object has.
LEMMA IncomingCiphertextEffect ==
    ASSUME NEW p \in Peers, NEW k, NEW o, Pair(k, o, p), k.addr
    PROVE  LET k2 == IncomingCiphertext(k) IN
           /\ Pair(k2, o, p) /\ Grows(k, k2)
           /\ k2.addr /\ k2.out = k.out
           /\ \/ k2.in = k.in
              \/ k2.in = Append(k.in, Len(k.in) + 1) /\ Len(k.in) < o.out
<1> DEFINE q == Other(p)
<1>1. /\ k \in KeyState(p) /\ o \in KeyState(q) /\ Sound(k.rec)
      /\ k.rec \in Rel(q, RecSize) /\ q \in Peers /\ RecSize \in Nat
      /\ k.rec.packet_id \in Nat /\ k.send.packet_id \in Nat
      /\ o.send.packet_id \in Nat /\ o.out \in 0 .. Records[q]
      /\ k.in \in Seq(1 .. Records[q]) /\ Ids(k.rec) \subseteq PacketIdType
      /\ Records[q] \in Nat
  <2>1. k \in KeyState(p) /\ o \in KeyState(q) /\ Sound(k.rec)
    BY DEF Pair, Local
  <2>2. /\ k.rec \in Rel(q, RecSize) /\ k.send \in Rel(p, SendSize)
        /\ o.send \in Rel(q, SendSize)
        /\ o.out \in 0 .. Records[q] /\ k.in \in Seq(1 .. Records[q])
    BY <2>1 DEF KeyState
  <2>3. Ids(k.rec) \subseteq PacketIdType
    BY <2>2 DEF Ids, Active, Rel, Entry
  <2> QED  BY <2>1, <2>2, <2>3, Sizes DEF Rel, PacketIdType
<1>2. CASE Sequenced(k.rec) = {}
  BY <1>1, <1>2 DEF IncomingCiphertext, Grows
<1>3. CASE Sequenced(k.rec) # {}
  <2> DEFINE i == reliable_get_buf_sequenced(k.rec)
             id == k.rec.packet_id
             body == k.rec.array[i].body
             rec2 == reliable_mark_deleted(k.rec, i)
             in2 == IF body = 0 THEN k.in ELSE Append(k.in, body)
             k2 == [k EXCEPT !.rec = rec2, !.in = in2]
  <2>1. i \in Active(k.rec) /\ k.rec.array[i].packet_id = id
    BY <1>3 DEF reliable_get_buf_sequenced, Sequenced
  <2>2. body = id
    BY <1>1, <2>1 DEF Sound
  <2>3. id \in Ids(k.rec)
    BY <2>1 DEF Ids
  \* It was sent, so it is a record of the other side.
  <2>4. id < o.send.packet_id /\ id <= o.out /\ id \in 0 .. Records[q]
    <3>1. id < o.send.packet_id
      BY <2>3 DEF Pair, Towards
    <3>2. o.send.packet_id = IF o.state = "S_INITIAL" THEN 0 ELSE o.out + 1
      BY DEF Pair, Local
    <3>3. id \in Nat
      BY <1>1
    <3> HIDE DEF id, q
    <3> QED  BY <1>1, <3>1, <3>2, <3>3
  <2>5. PidAdd(id, 1) = id + 1 /\ id + 1 \in PacketIdType
    <3>1. \A n \in 0 .. Records[q] + 1 : PidAdd(n, 1) = n + 1
      BY <1>1, Sizes
    <3>2. /\ 0 .. Records[q] + 1 + RecSize \subseteq PacketIdType
          /\ Records[q] \in Nat /\ RecSize \in Nat
      BY <1>1, Sizes
    <3> HIDE DEF id, q
    <3> QED  BY <2>4, <3>1, <3>2
  <2>6. /\ rec2 \in Rel(q, RecSize) /\ Sound(rec2)
        /\ rec2.packet_id = id + 1
        /\ Ids(rec2) = Ids(k.rec) \ {id}
    <3> DEFINE next == id + 1
               r == Updated(k.rec, i, NoEntry, next)
    <3>1. rec2 = r
      <4>1. /\ k.rec = [packet_id |-> k.rec.packet_id, hold |-> k.rec.hold,
                        array |-> k.rec.array]
        BY <1>1 DEF Rel
      <4>2. rec2 = [k.rec EXCEPT !.array = [k.rec.array EXCEPT ![i] = NoEntry],
                                 !.packet_id = next]
        BY <2>1, <2>5 DEF reliable_mark_deleted
      <4> HIDE DEF i, rec2, id, next
      <4> QED  BY <4>1, <4>2 DEF Updated
    <3>2. /\ i \in 1 .. RecSize /\ next \in PacketIdType /\ NoEntry \in Entry(q)
          /\ k.rec \in Rel(q, RecSize) /\ q \in Peers /\ RecSize \in Nat
          /\ Sound(k.rec)
      BY <1>1, <2>1, <2>5, NoEntryType DEF Active, Rel
    <3> HIDE DEF rec2, next, i, q
    <3>3. r \in Rel(q, RecSize)
      BY <3>2, UpdatedType
    <3>4. Sound(r) /\ Ids(r) = Ids(k.rec) \ {k.rec.array[i].packet_id}
      BY <2>1, <3>2, ClearEffect
    <3>5. r.packet_id = next
      BY DEF Updated
    <3> HIDE DEF r
    <3> QED  BY <2>1, <3>1, <3>3, <3>4, <3>5 DEF next
  <2>7. Len(k.in) = IF id = 0 THEN 0 ELSE id - 1
    BY DEF Pair, Local
  <2>8. /\ in2 \in Seq(1 .. Records[q]) /\ Len(in2) = id
        /\ \/ in2 = k.in
           \/ in2 = Append(k.in, Len(k.in) + 1) /\ Len(k.in) < o.out
    <3> HIDE DEF body, id, q
    <3>1. CASE body = 0
      BY <1>1, <2>2, <2>7, <3>1
    <3>2. CASE body # 0
      <4>1. id \in 1 .. Records[q] /\ Len(k.in) = id - 1
        BY <2>2, <2>4, <2>7, <3>2
      <4>2. in2 = Append(k.in, id)
        BY <2>2, <3>2
      <4>3. in2 \in Seq(1 .. Records[q]) /\ Len(in2) = Len(k.in) + 1
        <5>1. k.in \in Seq(1 .. Records[q])
          BY <1>1
        <5> HIDE DEF in2
        <5> QED  BY <4>1, <4>2, <5>1, AppendProperties
      <4>4. id = Len(k.in) + 1 /\ Len(k.in) < o.out /\ Len(in2) = id
        BY <1>1, <2>4, <4>1, <4>3
      <4> QED  BY <4>2, <4>3, <4>4
    <3> QED  BY <3>1, <3>2
  <2>9. IncomingCiphertext(k) = k2
    BY <1>3 DEF IncomingCiphertext
  <2> HIDE DEF rec2, in2
  <2>10. /\ k2 \in KeyState(p) /\ k2.state = k.state /\ k2.out = k.out
         /\ k2.in = in2 /\ k2.send = k.send /\ k2.addr = k.addr /\ k2.sid = k.sid
         /\ k2.rec = rec2 /\ k2.ack = k.ack
    BY <1>1, <2>6, <2>8 DEF KeyState
  <2> HIDE DEF k2, i, body, q
  <2>11. id \in Nat /\ id \in PacketIdType /\ \A x \in Ids(k.rec) : x \in Int
    BY <1>1, <2>3 DEF PacketIdType
  \* What was in the buffer is now behind it.
  <2>12. \A x \in PacketIdType : Received(k, x) => Received(k2, x)
    BY <2>6, <2>10, <2>11 DEF Received, PacketIdType
  <2>13. \A x \in Ids(k.rec) : x >= id /\ x < id + RecSize
    BY DEF Pair, Local
  <2>14. Local(k2, p)
    <3>1. k.sid
      BY <2>3 DEF Pair, Local
    <3>2. \A x \in Ids(k2.rec) :
              x >= k2.rec.packet_id /\ x < k2.rec.packet_id + RecSize
      <4> HIDE DEF id
      <4> QED  BY <1>1, <2>6, <2>10, <2>11, <2>13
    <3>3. Len(k2.in) = IF k2.rec.packet_id = 0 THEN 0 ELSE k2.rec.packet_id - 1
      <4> HIDE DEF id
      <4> QED  BY <2>6, <2>8, <2>10, <2>11
    <3>4. \A x \in AckIds(k2.ack) : Received(k2, x)
      <4>1. AckIds(k.ack) \subseteq PacketIdType
        BY <1>1 DEF KeyState, AckIds
      <4>2. \A x \in AckIds(k.ack) : Received(k, x)
        BY DEF Pair, Local
      <4> QED  BY <2>10, <2>12, <4>1, <4>2
    <3> QED  BY <2>6, <2>10, <3>1, <3>2, <3>3, <3>4 DEF Pair, Local
  <2>15. Towards(k2, o)
    BY <2>10 DEF Pair, Towards
  <2>16. Towards(o, k2)
    <3>1. /\ k2.rec.packet_id <= o.send.packet_id
          /\ \A x \in Ids(k2.rec) : x < o.send.packet_id
      <4>1. \A x \in Ids(k.rec) : x < o.send.packet_id
        BY DEF Pair, Towards
      <4> HIDE DEF id
      <4> QED  BY <1>1, <2>4, <2>6, <2>10, <2>11, <4>1
    <3>2. 0 .. o.send.packet_id - 1 \subseteq PacketIdType
      <4>1. o.send.packet_id \in PacketIdType
        BY <1>1 DEF KeyState, Rel
      <4> QED  BY <4>1, ReliableAssumption DEF PacketIdType, PidMod
    <3>3. 0 \in PacketIdType
      BY Sizes
    <3> QED  BY <2>10, <2>12, <3>1, <3>2, <3>3 DEF Pair, Towards
  <2> QED  BY <1>1, <2>8, <2>9, <2>10, <2>12, <2>14, <2>15, <2>16 DEF Pair, Grows
<1> QED  BY <1>2, <1>3

\* A record is read from the TLS object into the send buffer.
LEMMA OutgoingCiphertextEffect ==
    ASSUME NEW p \in Peers, NEW k, NEW o, Pair(k, o, p), k.addr
    PROVE  LET k2 == OutgoingCiphertext(p, k) IN
           /\ Pair(k2, o, p) /\ Grows(k, k2) /\ k2.in = k.in
           /\ k2.out = k.out \/ (k2.out = k.out + 1 /\ k.out < Records[p])
<1> DEFINE next == k.out + 1
<1>1. /\ k \in KeyState(p) /\ k.send \in Rel(p, SendSize) /\ Sound(k.send)
      /\ \A id \in Ids(k.send) : id < k.send.packet_id
      /\ k.state = "S_START" => k.send.packet_id = next
      /\ k.out \in 0 .. Records[p] /\ Records[p] \in Nat
  BY Sizes DEF Pair, Local, KeyState
<1>2. CASE ~ (k.state = "S_START" /\ OutputSequenced(k.send) /\ k.out < Records[p])
  <2>1. k.send.packet_id <= k.send.packet_id
    BY <1>1 DEF Rel, PacketIdType
  <2> QED  BY <1>2, <2>1 DEF OutgoingCiphertext, Grows
<1>3. CASE k.state = "S_START" /\ OutputSequenced(k.send) /\ k.out < Records[p]
  <2> DEFINE s == reliable_mark_active_outgoing(k.send, reliable_get_buf(k.send), next)
             k2 == [k EXCEPT !.send = s, !.out = next]
  <2>1. next \in 0 .. Records[p] /\ k.send.packet_id = next
    BY <1>1, <1>3
  <2>2. OutgoingCiphertext(p, k) = k2
    BY <1>3 DEF OutgoingCiphertext
  <2> HIDE DEF next
  <2>3. /\ s \in Rel(p, SendSize) /\ Sound(s) /\ s.packet_id = k.send.packet_id + 1
        /\ Ids(s) = Ids(k.send) \cup {k.send.packet_id}
    BY <1>1, <1>3, <2>1, ActivateEffect
  <2> HIDE DEF s
  <2>4. /\ k2 \in KeyState(p) /\ k2.state = "S_START" /\ k2.out = next
        /\ k2.in = k.in /\ k2.send = s /\ k2.addr = k.addr /\ k2.sid = k.sid
        /\ k2.rec = k.rec /\ k2.ack = k.ack
    BY <1>1, <1>3, <2>1, <2>3 DEF KeyState
  <2> HIDE DEF k2
  <2>5. k2.out = k.out + 1
    BY <2>4 DEF next
  <2>6. Pair(k2, o, p) /\ Grows(k, k2)
    BY <1>3, <2>3, <2>4, <2>5, SendNext
  <2> QED  BY <1>3, <2>2, <2>4, <2>5, <2>6
<1> QED  BY <1>2, <1>3

-----------------------------------------------------------------------------
(***************************************************************************)
(* Whole steps.                                                            *)
(***************************************************************************)

\* The records that change hands in a turn of p: at most one is read from its
\* TLS object, at most one that the other side handed out is written to it.
Turn(k, k2, o, p) ==
    /\ k2.out = k.out \/ (k2.out = k.out + 1 /\ k.out < Records[p])
    /\ k2.in = k.in \/ (k2.in = Append(k.in, Len(k.in) + 1) /\ Len(k.in) < o.out)

LEMMA GrowsTransitive ==
    ASSUME NEW p \in Peers, NEW k1 \in KeyState(p), NEW k2 \in KeyState(p),
           NEW k3 \in KeyState(p), Grows(k1, k2), Grows(k2, k3)
    PROVE  Grows(k1, k3)
<1>1. /\ k1.send.packet_id \in Int /\ k2.send.packet_id \in Int
      /\ k3.send.packet_id \in Int
  BY DEF KeyState, Rel, PacketIdType
<1> QED  BY <1>1 DEF Grows

LEMMA ReceiveEffect ==
    ASSUME NEW p \in Peers, NEW k, NEW o, NEW m, Pair(k, o, p), Fits(m, o, p)
    PROVE  LET k2 == tls_pre_decrypt(k, m) IN
           Pair(k2, o, p) /\ Grows(k, k2) /\ Turn(k, k2, o, p)
<1>1. k \in KeyState(p)
  BY DEF Pair, Local
<1>2. CASE ~ Routable(k, m)
  <2>1. k.send.packet_id <= k.send.packet_id
    BY <1>1 DEF KeyState, Rel, PacketIdType
  <2> QED  BY <1>2, <2>1 DEF tls_pre_decrypt, Grows, Turn
<1>3. CASE Routable(k, m)
  <2> DEFINE a == OpenSession(k)
             b == PurgeAcked(a, m)
             c == StoreIncoming(b, m)
  <2>1. Pair(a, o, p) /\ Grows(k, a) /\ a.sid /\ a.out = k.out /\ a.in = k.in
    BY OpenSessionEffect
  <2>2. \A id \in m.acks : Received(o, id)
    BY DEF Fits
  <2>3. tls_pre_decrypt(k, m) = c
    BY <1>3 DEF tls_pre_decrypt
  <2> HIDE DEF a
  <2>4. Pair(b, o, p) /\ Grows(a, b) /\ b.sid /\ b.out = a.out /\ b.in = a.in
    BY <2>1, <2>2, PurgeAckedEffect
  <2> HIDE DEF b
  <2>5. Pair(c, o, p) /\ Grows(b, c) /\ c.out = b.out /\ c.in = b.in
    BY <2>4, StoreIncomingEffect
  <2> HIDE DEF c
  <2>6. a \in KeyState(p) /\ b \in KeyState(p) /\ c \in KeyState(p)
    BY <2>1, <2>4, <2>5 DEF Pair, Local
  <2>7. Grows(k, c)
    BY <1>1, <2>1, <2>4, <2>5, <2>6, GrowsTransitive
  <2> QED  BY <2>1, <2>3, <2>4, <2>5, <2>7 DEF Turn
<1> QED  BY <1>2, <1>3

LEMMA PassHeadEffect ==
    ASSUME NEW p \in Peers, NEW k, NEW o, Pair(k, o, p), k.addr
    PROVE  LET k2 == PassHead(k) IN
           /\ Pair(k2, o, p) /\ Grows(k, k2)
           /\ k2.addr /\ k2.out = k.out /\ k2.in = k.in
<1> DEFINE a == InitialHandshake(k)
           b == InitialHandshakeAcked(a)
<1>1. Pair(a, o, p) /\ Grows(k, a) /\ a.addr /\ a.out = k.out /\ a.in = k.in
  BY InitialHandshakeEffect
<1>2. PassHead(k) = b
  BY DEF PassHead
<1> HIDE DEF a
<1>3. Pair(b, o, p) /\ Grows(a, b) /\ b.addr /\ b.out = a.out /\ b.in = a.in
  BY <1>1, InitialHandshakeAckedEffect
<1> HIDE DEF b
<1>4. k \in KeyState(p) /\ a \in KeyState(p) /\ b \in KeyState(p)
  BY <1>1, <1>3 DEF Pair, Local
<1>5. Grows(k, b)
  BY <1>1, <1>3, <1>4, GrowsTransitive
<1> QED  BY <1>1, <1>2, <1>3, <1>5

LEMMA PassEffect ==
    ASSUME NEW p \in Peers, NEW k, NEW o, Pair(k, o, p), k.addr
    PROVE  LET k2 == PassTail(p, PassHead(k)) IN
           Pair(k2, o, p) /\ Grows(k, k2) /\ Turn(k, k2, o, p)
<1> DEFINE a == PassHead(k)
           b == IncomingCiphertext(a)
           c == OutgoingCiphertext(p, b)
<1>1. Pair(a, o, p) /\ Grows(k, a) /\ a.addr /\ a.out = k.out /\ a.in = k.in
  BY PassHeadEffect
<1>2. PassTail(p, a) = c
  BY DEF PassTail
<1> HIDE DEF a
<1>3. /\ Pair(b, o, p) /\ Grows(a, b) /\ b.addr /\ b.out = a.out
      /\ b.in = a.in \/ (b.in = Append(a.in, Len(a.in) + 1) /\ Len(a.in) < o.out)
  BY <1>1, IncomingCiphertextEffect
<1> HIDE DEF b
<1>4. /\ Pair(c, o, p) /\ Grows(b, c) /\ c.in = b.in
      /\ c.out = b.out \/ (c.out = b.out + 1 /\ b.out < Records[p])
  BY <1>3, OutgoingCiphertextEffect
<1> HIDE DEF c
<1>5. /\ k \in KeyState(p) /\ a \in KeyState(p)
      /\ b \in KeyState(p) /\ c \in KeyState(p)
  BY <1>1, <1>3, <1>4 DEF Pair, Local
<1>6. Grows(k, c)
  BY <1>1, <1>3, <1>4, <1>5, GrowsTransitive
<1>7. Turn(k, c, o, p)
  BY <1>1, <1>3, <1>4 DEF Turn
<1> QED  BY <1>2, <1>4, <1>6, <1>7 DEF a

\* Writing acknowledgements invents none and leaves none in an empty record.
LEMMA AckWriteEffect ==
    ASSUME NEW ack \in Seq(PacketIdType), NEW max \in Nat
    PROVE  /\ AckKept(ack, max) \in Seq(PacketIdType)
           /\ AckIds(AckKept(ack, max)) \subseteq AckIds(ack)
           /\ AckIds(AckWritten(ack, max)) \subseteq AckIds(ack)
           /\ AckIds(ack) \subseteq PacketIdType
           /\ ack = << >> => AckKept(ack, max) = << >>
<1> DEFINE n == IF Len(ack) > max THEN max ELSE Len(ack)
           w == SubSeq(ack, 1, n)
           k == SubSeq(ack, n + 1, Len(ack))
<1>1. n \in 0 .. Len(ack) /\ Len(ack) \in Nat
  OBVIOUS
<1> HIDE DEF n
<1>2. /\ w \in Seq(PacketIdType) /\ Len(w) = n
      /\ k \in Seq(PacketIdType) /\ Len(k) = Len(ack) - n
      /\ \A i \in 1 .. n : w[i] = ack[i]
      /\ \A i \in 1 .. Len(ack) - n : k[i] = ack[n + i]
  BY <1>1
<1>3. AckWritten(ack, max) = w /\ AckKept(ack, max) = k
  BY DEF AckWritten, AckKept, n
<1> HIDE DEF w, k
<1>4. AckIds(w) \subseteq AckIds(ack)
  BY <1>1, <1>2 DEF AckIds
<1>5. AckIds(k) \subseteq AckIds(ack)
  <2>1. \A i \in 1 .. Len(k) : k[i] = ack[n + i] /\ n + i \in 1 .. Len(ack)
    BY <1>1, <1>2
  <2> QED  BY <2>1 DEF AckIds
<1>6. AckIds(ack) \subseteq PacketIdType
  BY DEF AckIds
<1>7. ack = << >> => k = << >>
  <2> SUFFICES ASSUME ack = << >> PROVE k = << >>
    OBVIOUS
  <2>1. Len(k) = 0
    BY <1>1, <1>2
  <2> QED  BY <1>2, <2>1
<1> QED  BY <1>2, <1>3, <1>4, <1>5, <1>6, <1>7

\* A packet with acknowledgements leaves; the entry sent is no longer due.
LEMMA SentEffect ==
    ASSUME NEW p \in Peers, NEW k, NEW o, Pair(k, o, p), NEW i \in Due(k.send)
    PROVE  LET k2 == [k EXCEPT !.send = reliable_send(@, i),
                               !.ack = AckKept(@, SendAckMax)]
               e == k.send.array[i]
               m == Packet(Opcode(e), AckIds(AckWritten(k.ack, SendAckMax)),
                           e.packet_id, e.body) IN
           /\ Pair(k2, o, p) /\ Grows(k, k2) /\ Fits(m, k2, Other(p))
           /\ k2.out = k.out /\ k2.in = k.in
<1> DEFINE s == reliable_send(k.send, i)
           a == AckKept(k.ack, SendAckMax)
           w == AckIds(AckWritten(k.ack, SendAckMax))
           k2 == [k EXCEPT !.send = s, !.ack = a]
           e == k.send.array[i]
           m == Packet(Opcode(e), w, e.packet_id, e.body)
<1>1. /\ k \in KeyState(p) /\ k.send \in Rel(p, SendSize) /\ Sound(k.send)
      /\ k.ack \in Seq(PacketIdType) /\ SendSize \in Nat /\ SendAckMax \in Nat
  BY Sizes, ReliableAssumption DEF Pair, Local, KeyState
<1>2. i \in 1 .. SendSize /\ i \in Active(k.send)
  BY <1>1 DEF Due, Active, Rel
<1>3. /\ s \in Rel(p, SendSize) /\ SameEntries(s, k.send)
      /\ s.packet_id = k.send.packet_id
  <2>1. s = [k.send EXCEPT !.array[i].due = FALSE]
    BY DEF reliable_send
  <2> HIDE DEF s
  <2> QED  BY <1>1, <1>2, <2>1, DueEffect
<1>4. /\ a \in Seq(PacketIdType) /\ AckIds(a) \subseteq AckIds(k.ack)
      /\ w \subseteq AckIds(k.ack) /\ AckIds(k.ack) \subseteq PacketIdType
      /\ k.ack = << >> => a = << >>
  BY <1>1, AckWriteEffect
<1>5. /\ e.packet_id = e.body /\ e.packet_id < k.send.packet_id
      /\ e \in Entry(p)
  <2>1. e.packet_id \in Ids(k.send)
    BY <1>2 DEF Ids
  <2> QED  BY <1>1, <1>2, <2>1 DEF Sound, Pair, Local, Rel
<1> HIDE DEF s, a, w, e
<1>6. /\ k2 \in KeyState(p) /\ k2.state = k.state /\ k2.out = k.out
      /\ k2.in = k.in /\ k2.send = s /\ k2.addr = k.addr /\ k2.sid = k.sid
      /\ k2.rec = k.rec /\ k2.ack = a
  BY <1>1, <1>3, <1>4 DEF KeyState
<1> HIDE DEF k2
<1>7. Pair(k2, o, p) /\ Grows(k, k2)
  BY <1>3, <1>4, <1>6, SameBuffers
<1>8. Fits(m, k2, Other(p))
  <2>1. m \in PacketTo(Other(p))
    BY <1>4, <1>5, Sizes DEF Packet, Opcode, PacketTo, Entry
  <2>2. m.acks = w /\ m.packet_id = e.packet_id /\ m.body = e.body
    BY DEF Packet
  <2>3. \A id \in w : Received(k2, id)
    BY <1>4, <1>7 DEF Pair, Local, Grows
  <2> HIDE DEF m
  <2> QED  BY <1>3, <1>5, <1>6, <2>1, <2>2, <2>3 DEF Fits
<1> QED  BY <1>6, <1>7, <1>8 DEF s, a, w, e, k2

LEMMA DedicatedAckEffect ==
    ASSUME NEW p \in Peers, NEW k, NEW o, Pair(k, o, p)
    PROVE  LET k2 == [k EXCEPT !.ack = AckKept(@, AckSize)]
               m == Packet(Ack, AckIds(AckWritten(k.ack, AckSize)), 0, 0) IN
           /\ Pair(k2, o, p) /\ Grows(k, k2) /\ Fits(m, k2, Other(p))
           /\ k2.out = k.out /\ k2.in = k.in
<1> DEFINE a == AckKept(k.ack, AckSize)
           w == AckIds(AckWritten(k.ack, AckSize))
           k2 == [k EXCEPT !.ack = a]
           m == Packet(Ack, w, 0, 0)
<1>1. /\ k \in KeyState(p) /\ k.ack \in Seq(PacketIdType) /\ AckSize \in Nat
      /\ 0 \in PacketIdType
  BY Sizes, ReliableAssumption DEF Pair, Local, KeyState
<1>2. /\ a \in Seq(PacketIdType) /\ AckIds(a) \subseteq AckIds(k.ack)
      /\ w \subseteq AckIds(k.ack) /\ AckIds(k.ack) \subseteq PacketIdType
      /\ k.ack = << >> => a = << >>
  BY <1>1, AckWriteEffect
<1> HIDE DEF a, w
<1>3. /\ k2 \in KeyState(p) /\ k2.state = k.state /\ k2.out = k.out
      /\ k2.in = k.in /\ k2.send = k.send /\ k2.addr = k.addr /\ k2.sid = k.sid
      /\ k2.rec = k.rec /\ k2.ack = a
  BY <1>1, <1>2 DEF KeyState
<1> HIDE DEF k2
<1>4. SameEntries(k.send, k.send)
  BY DEF SameEntries
<1>5. Pair(k2, o, p) /\ Grows(k, k2)
  BY <1>2, <1>3, <1>4, SameBuffers
<1>6. Fits(m, k2, Other(p))
  <2>1. m \in PacketTo(Other(p))
    BY <1>1, <1>2, Sizes DEF Packet, PacketTo
  <2>2. m.acks = w /\ m.op = Ack
    BY DEF Packet
  <2>3. \A id \in w : Received(k2, id)
    BY <1>2, <1>5 DEF Pair, Local, Grows
  <2> HIDE DEF m
  <2> QED  BY <2>1, <2>2, <2>3 DEF Fits
<1> QED  BY <1>3, <1>5, <1>6 DEF a, w, k2

LEMMA TimeoutEffect ==
    ASSUME NEW p \in Peers, NEW k, NEW o, Pair(k, o, p), NEW i \in Active(k.send)
    PROVE  LET k2 == [k EXCEPT !.send.array[i].due = TRUE] IN
           /\ Pair(k2, o, p) /\ Grows(k, k2)
           /\ k2.out = k.out /\ k2.in = k.in
<1> DEFINE s == [k.send EXCEPT !.array[i].due = TRUE]
           k2 == [k EXCEPT !.send = s]
<1>1. /\ k \in KeyState(p) /\ k.send \in Rel(p, SendSize) /\ SendSize \in Nat
      /\ i \in 1 .. SendSize
  BY Sizes DEF Pair, Local, KeyState, Active, Rel
<1>2. /\ s \in Rel(p, SendSize) /\ SameEntries(s, k.send)
      /\ s.packet_id = k.send.packet_id
  <2>1. s = [k.send EXCEPT !.array[i].due = TRUE]
    OBVIOUS
  <2> HIDE DEF s
  <2> QED  BY <1>1, <2>1, DueEffect
<1>3. [k EXCEPT !.send.array[i].due = TRUE] = k2
  BY Zenon
<1> HIDE DEF s
<1>4. /\ k2 \in KeyState(p) /\ k2.state = k.state /\ k2.out = k.out
      /\ k2.in = k.in /\ k2.send = s /\ k2.addr = k.addr /\ k2.sid = k.sid
      /\ k2.rec = k.rec /\ k2.ack = k.ack
  BY <1>1, <1>2 DEF KeyState
<1> HIDE DEF k2
<1>5. Pair(k2, o, p) /\ Grows(k, k2)
  BY <1>2, <1>4, SameBuffers
<1> QED  BY <1>3, <1>4, <1>5

-----------------------------------------------------------------------------
(***************************************************************************)
(* The invariance of IInv, and what a step is to the two TLS objects.      *)
(***************************************************************************)

\* One peer took a turn at its TLS object, or nobody did.
Moves ==
    \E p \in Peers :
        /\ Turn(ks[p], ks'[p], ks[Other(p)], p)
        /\ ks'[Other(p)] = ks[Other(p)]

LEMMA InitEstablishes == Init => IInv
<1> SUFFICES ASSUME Init PROVE IInv
  OBVIOUS
<1>1. /\ DOMAIN ks = Peers /\ DOMAIN net = Peers /\ busy \in [Peers -> BOOLEAN]
      /\ \A p \in Peers : ks[p] = key_state_init(p) /\ net[p] = {}
  BY DEF Init
<1>2. ASSUME NEW p \in Peers, NEW size \in Nat, NEW hold \in BOOLEAN
      PROVE  LET r == reliable_init(size, hold) IN
             /\ r \in Rel(p, size) /\ r.packet_id = 0
             /\ Active(r) = {} /\ Ids(r) = {} /\ Sound(r)
  <2> DEFINE r == reliable_init(size, hold)
  <2>1. 0 \in PacketIdType /\ NoEntry \in Entry(p)
    BY Sizes, NoEntryType
  <2>2. r \in Rel(p, size) /\ r.packet_id = 0
    BY <2>1 DEF reliable_init, Rel
  <2>3. Active(r) = {}
    BY DEF reliable_init, Active, NoEntry
  <2> QED  BY <2>2, <2>3 DEF Ids, Sound
<1>3. ASSUME NEW p \in Peers PROVE Local(key_state_init(p), p)
  <2> DEFINE k == key_state_init(p)
             addr == p \in KnowsRemote
             hold == p \in XmitHold
             s == reliable_init(SendSize, hold)
             r == reliable_init(RecSize, FALSE)
  <2>1. /\ SendSize \in Nat /\ RecSize \in Nat /\ Other(p) \in Peers
        /\ Records[p] \in Nat /\ Records[Other(p)] \in Nat
    BY Sizes
  <2>2. addr \in BOOLEAN /\ hold \in BOOLEAN /\ FALSE \in BOOLEAN
    OBVIOUS
  <2>3. k = [state |-> "S_INITIAL", addr |-> addr, sid |-> FALSE, send |-> s,
             rec |-> r, ack |-> << >>, out |-> 0, in |-> << >>]
    BY DEF key_state_init
  <2> HIDE DEF addr, hold, k
  <2>4. /\ s \in Rel(p, SendSize) /\ s.packet_id = 0 /\ Ids(s) = {} /\ Sound(s)
    BY <1>2, <2>1, <2>2
  <2>5. /\ r \in Rel(Other(p), RecSize) /\ r.packet_id = 0 /\ Ids(r) = {} /\ Sound(r)
    BY <1>2, <2>1, <2>2
  <2> HIDE DEF s, r
  <2>6. k \in KeyState(p)
    BY <2>1, <2>2, <2>3, <2>4, <2>5 DEF KeyState
  <2>7. AckIds(k.ack) = {} /\ Len(k.in) = 0
    BY <2>3 DEF AckIds
  <2>8. 0 .. k.send.packet_id - 1 = {}
    BY <2>3, <2>4
  <2> QED  BY <2>3, <2>4, <2>5, <2>6, <2>7, <2>8 DEF Local, k
<1>4. ASSUME NEW p \in Peers, NEW q \in Peers
      PROVE  Towards(key_state_init(p), key_state_init(q))
  <2> DEFINE k == key_state_init(p)
             o == key_state_init(q)
  <2>1. k.state = "S_INITIAL" /\ k.send.packet_id = 0 /\ o.rec.packet_id = 0
    BY DEF key_state_init, reliable_init
  <2>2. Ids(o.rec) = {}
    BY DEF key_state_init, reliable_init, Ids, Active, NoEntry
  <2> HIDE DEF k, o
  <2>3. 0 .. k.send.packet_id - 1 = {}
    BY <2>1
  <2>4. Towards(k, o)
    BY <2>1, <2>2, <2>3 DEF Towards
  <2> QED  BY <2>4 DEF k, o
<1>5. ASSUME NEW p \in Peers PROVE Pair(ks[p], ks[Other(p)], p)
  BY <1>1, <1>3, <1>4, Sizes DEF Pair
<1> QED  BY <1>1, <1>5 DEF IInv

\* A peer moves to a state that keeps the pair and takes nothing back, and
\* what it sends fits that state.
LEMMA Replace ==
    ASSUME IInv, NEW p \in Peers, NEW k2,
           Pair(k2, ks[Other(p)], p), Grows(ks[p], k2),
           Turn(ks[p], k2, ks[Other(p)], p),
           ks' = [ks EXCEPT ![p] = k2],
           busy' \in [Peers -> BOOLEAN], DOMAIN net' = Peers,
           \A q \in Peers : \A m \in net'[q] :
                m \in net[q] \/ (q = Other(p) /\ Fits(m, k2, q))
    PROVE  IInv' /\ Moves
<1> DEFINE q == Other(p)
<1>1. /\ q \in Peers /\ Other(q) = p /\ q # p
      /\ \A x \in Peers : x = p \/ x = q
  BY Sizes DEF Peers, Other
<1>2. DOMAIN ks' = Peers /\ ks'[p] = k2 /\ ks'[q] = ks[q]
  BY <1>1 DEF IInv
<1>3. Pair(ks'[p], ks'[q], p) /\ Pair(ks'[q], ks'[p], q)
  BY <1>1, <1>2 DEF Pair
<1>4. ASSUME NEW x \in Peers, NEW m \in net'[x]
      PROVE  Fits(m, ks'[Other(x)], x)
  <2>1. CASE x = p
    BY <1>1, <1>2, <2>1 DEF IInv
  <2>2. CASE x = q
    <3>1. CASE m \in net[q]
      <4>1. Fits(m, ks[p], q)
        BY <1>1, <3>1 DEF IInv
      <4>2. ks[p] \in KeyState(Other(q)) /\ k2 \in KeyState(Other(q))
        BY <1>1 DEF IInv, Pair, Local
      <4>3. Fits(m, k2, q)
        BY <1>1, <4>1, <4>2, FitsGrows
      <4> QED  BY <1>1, <1>2, <2>2, <4>3
    <3>2. CASE m \notin net[q]
      BY <1>1, <1>2, <2>2, <3>2
    <3> QED  BY <3>1, <3>2
  <2> QED  BY <1>1, <2>1, <2>2
<1>5. IInv'
  <2>1. \A x \in Peers : Pair(ks'[x], ks'[Other(x)], x)
    BY <1>1, <1>3
  <2> QED  BY <1>2, <1>4, <2>1 DEF IInv
<1>6. Moves
  BY <1>2 DEF Moves
<1> QED  BY <1>5, <1>6

\* A step that leaves the peers alone puts no packet into the network.
LEMMA NetOnly ==
    ASSUME IInv, UNCHANGED ks, busy' \in [Peers -> BOOLEAN], DOMAIN net' = Peers,
           \A q \in Peers : net'[q] \subseteq net[q]
    PROVE  IInv' /\ Moves
<1>1. IInv'
  BY DEF IInv
<1>2. Client \in Peers
  BY DEF Peers
<1>3. Moves
  BY <1>2 DEF Moves, Turn
<1> QED  BY <1>1, <1>3

\* A packet that is sent is lost in a full network, or added to it.
LEMMA TransmitEffect ==
    ASSUME NEW q \in Peers, NEW m, DOMAIN net = Peers, Transmit(q, m)
    PROVE  /\ DOMAIN net' = Peers
           /\ \A x \in Peers : \A n \in net'[x] : n \in net[x] \/ (x = q /\ n = m)
BY DEF Transmit

LEMMA NextPreserves == IInv /\ [Next]_vars => IInv' /\ Moves
<1> SUFFICES ASSUME IInv, [Next]_vars PROVE IInv' /\ Moves
  OBVIOUS
<1>1. /\ DOMAIN ks = Peers /\ DOMAIN net = Peers /\ busy \in [Peers -> BOOLEAN]
      /\ \A p \in Peers : /\ Pair(ks[p], ks[Other(p)], p)
                          /\ Other(p) \in Peers /\ Other(p) # p
                          /\ \A m \in net[p] : Fits(m, ks[Other(p)], p)
  BY Sizes DEF IInv
<1>2. CASE UNCHANGED vars
  BY <1>1, <1>2, NetOnly DEF vars
<1>3. ASSUME NEW p \in Peers, NEW m \in net[p], Lose(p, m)
      PROVE  IInv' /\ Moves
  BY <1>1, <1>3, NetOnly DEF Lose
<1>4. ASSUME NEW p \in Peers, NEW m \in net[p], Deliver(p, m) \/ DeliverCopy(p, m)
      PROVE  IInv' /\ Moves
  <2> DEFINE k2 == tls_pre_decrypt(ks[p], m)
  <2>1. /\ Pair(k2, ks[Other(p)], p) /\ Grows(ks[p], k2)
        /\ Turn(ks[p], k2, ks[Other(p)], p)
    BY <1>1, ReceiveEffect
  <2>2. ks' = [ks EXCEPT ![p] = k2] /\ busy' = busy
    BY <1>4 DEF Deliver, DeliverCopy, Receive
  <2>3. DOMAIN net' = Peers /\ \A q \in Peers : net'[q] \subseteq net[q]
    BY <1>1, <1>4 DEF Deliver, DeliverCopy
  <2> HIDE DEF k2
  <2> QED  BY <1>1, <2>1, <2>2, <2>3, Replace
<1>5. ASSUME NEW p \in Peers, ReliableToLink(p)
      PROVE  IInv' /\ Moves
  <2> DEFINE k == PassHead(ks[p])
             o == ks[Other(p)]
  <2>1. /\ Pair(k, o, p) /\ Grows(ks[p], k) /\ k.out = ks[p].out /\ k.in = ks[p].in
    BY <1>1, <1>5, PassHeadEffect DEF ReliableToLink, Runs
  <2>2. PICK i \in DOMAIN k.send.array :
            /\ IsBest(k.send, i)
            /\ ks' = [ks EXCEPT ![p] =
                        [k EXCEPT !.send = reliable_send(@, i),
                                  !.ack = AckKept(@, SendAckMax)]]
            /\ LET e == k.send.array[i] IN
               Transmit(Other(p),
                        Packet(Opcode(e), AckIds(AckWritten(k.ack, SendAckMax)),
                               e.packet_id, e.body))
    BY <1>5 DEF ReliableToLink
  <2> DEFINE k2 == [k EXCEPT !.send = reliable_send(@, i),
                             !.ack = AckKept(@, SendAckMax)]
             e == k.send.array[i]
             m == Packet(Opcode(e), AckIds(AckWritten(k.ack, SendAckMax)),
                         e.packet_id, e.body)
  <2>3. busy' \in [Peers -> BOOLEAN]
    BY <1>1, <1>5 DEF ReliableToLink
  <2> HIDE DEF k
  <2>4. i \in Due(k.send)
    BY <2>2 DEF IsBest
  <2>5. /\ Pair(k2, o, p) /\ Grows(k, k2) /\ Fits(m, k2, Other(p))
        /\ k2.out = k.out /\ k2.in = k.in
    BY <2>1, <2>4, SentEffect
  <2>6. ks' = [ks EXCEPT ![p] = k2] /\ Transmit(Other(p), m)
    BY <2>2
  <2> HIDE DEF k2, m
  <2>7. Grows(ks[p], k2) /\ Turn(ks[p], k2, o, p)
    <3>1. ks[p] \in KeyState(p) /\ k \in KeyState(p) /\ k2 \in KeyState(p)
      BY <1>1, <2>1, <2>5 DEF Pair, Local
    <3> QED  BY <2>1, <2>5, <3>1, GrowsTransitive DEF Turn
  <2>8. /\ DOMAIN net' = Peers
        /\ \A q \in Peers : \A n \in net'[q] :
                n \in net[q] \/ (q = Other(p) /\ Fits(n, k2, q))
    BY <1>1, <2>5, <2>6, TransmitEffect
  <2> QED  BY <2>3, <2>5, <2>6, <2>7, <2>8, Replace
<1>6. ASSUME NEW p \in Peers, Pass(p)
      PROVE  IInv' /\ Moves
  <2> DEFINE k2 == PassTail(p, PassHead(ks[p]))
  <2>1. /\ Pair(k2, ks[Other(p)], p) /\ Grows(ks[p], k2)
        /\ Turn(ks[p], k2, ks[Other(p)], p)
    BY <1>1, <1>6, PassEffect DEF Pass, Runs
  <2>2. /\ ks' = [ks EXCEPT ![p] = k2] /\ net' = net
        /\ busy' \in [Peers -> BOOLEAN]
    BY <1>1, <1>6 DEF Pass
  <2> HIDE DEF k2
  <2> QED  BY <1>1, <2>1, <2>2, Replace
<1>7. ASSUME NEW p \in Peers, DedicatedAck(p)
      PROVE  IInv' /\ Moves
  <2> DEFINE k2 == [ks[p] EXCEPT !.ack = AckKept(@, AckSize)]
             m == Packet(Ack, AckIds(AckWritten(ks[p].ack, AckSize)), 0, 0)
  <2>1. /\ Pair(k2, ks[Other(p)], p) /\ Grows(ks[p], k2) /\ Fits(m, k2, Other(p))
        /\ k2.out = ks[p].out /\ k2.in = ks[p].in
    BY <1>1, DedicatedAckEffect
  <2>2. /\ ks' = [ks EXCEPT ![p] = k2] /\ Transmit(Other(p), m)
        /\ busy' \in [Peers -> BOOLEAN]
    BY <1>1, <1>7 DEF DedicatedAck
  <2> HIDE DEF k2, m
  <2>3. Turn(ks[p], k2, ks[Other(p)], p)
    BY <2>1 DEF Turn
  <2>4. /\ DOMAIN net' = Peers
        /\ \A q \in Peers : \A n \in net'[q] :
                n \in net[q] \/ (q = Other(p) /\ Fits(n, k2, q))
    BY <1>1, <2>1, <2>2, TransmitEffect
  <2> QED  BY <2>1, <2>2, <2>3, <2>4, Replace
<1>8. ASSUME NEW p \in Peers, LoopEnd(p)
      PROVE  IInv' /\ Moves
  <2>1. /\ UNCHANGED ks /\ busy' \in [Peers -> BOOLEAN] /\ net' = net
    BY <1>1, <1>8 DEF LoopEnd
  <2> QED  BY <1>1, <2>1, NetOnly
<1>9. ASSUME NEW p \in Peers, Timeout(p)
      PROVE  IInv' /\ Moves
  <2>1. PICK i \in Active(ks[p].send) :
            ks' = [ks EXCEPT ![p].send.array[i].due = TRUE]
    BY <1>9 DEF Timeout
  <2> DEFINE k2 == [ks[p] EXCEPT !.send.array[i].due = TRUE]
  <2>2. /\ Pair(k2, ks[Other(p)], p) /\ Grows(ks[p], k2)
        /\ k2.out = ks[p].out /\ k2.in = ks[p].in
    BY <1>1, TimeoutEffect
  <2>3. ks' = [ks EXCEPT ![p] = k2]
    BY <2>1, Zenon
  <2>4. net' = net /\ busy' = busy
    BY <1>9 DEF Timeout
  <2> HIDE DEF k2
  <2>5. Turn(ks[p], k2, ks[Other(p)], p)
    BY <2>2 DEF Turn
  <2> QED  BY <1>1, <2>2, <2>3, <2>4, <2>5, Replace
<1> QED  BY <1>2, <1>3, <1>4, <1>5, <1>6, <1>7, <1>8, <1>9
         DEF Next, Idle, tls_process

\* IInv is an invariant of every execution.
THEOREM Invariance == Spec => []IInv
BY InitEstablishes, NextPreserves, PTL DEF Spec

-----------------------------------------------------------------------------
(***************************************************************************)
(* The results.                                                            *)
(***************************************************************************)

\* No buffer, record or packet leaves its type: no id wraps, no more records
\* are held than there are.
THEOREM TypeCorrect == Spec => []TypeOK
<1>1. IInv => TypeOK
  BY DEF IInv, Pair, Local, Fits, TypeOK
<1> QED  BY <1>1, Invariance, PTL

\* An acknowledged packet is in the peer's hands: what left the send buffer
\* was received, through every loss, copy and order of arrival.
THEOREM NothingIsForgotten == Spec => []NothingForgotten
<1>1. IInv => NothingForgotten
  BY DEF IInv, Pair, Towards, NothingForgotten
<1> QED  BY <1>1, Invariance, PTL

\* Every acknowledgement, pending or on the wire, is for a packet received.
THEOREM AcksStayTrue == Spec => []AcksAreTrue
<1>1. IInv => AcksAreTrue
  <2> SUFFICES ASSUME IInv, NEW p \in Peers
               PROVE  /\ \A id \in AckIds(ks[p].ack) : Received(ks[p], id)
                      /\ \A m \in net[Other(p)] : \A id \in m.acks : Received(ks[p], id)
    BY DEF AcksAreTrue
  <2>1. Other(p) \in Peers /\ Other(Other(p)) = p
    BY Sizes
  <2> QED  BY <2>1 DEF IInv, Pair, Local, Fits
<1> QED  BY <1>1, Invariance, PTL

\* No id sits in two entries of a buffer.
THEOREM IdsStayUnique == Spec => []IdsUnique
<1>1. IInv => IdsUnique
  <2> SUFFICES ASSUME IInv, NEW p \in Peers, NEW rel \in {ks[p].send, ks[p].rec}
               PROVE  \A i, j \in Active(rel) :
                        rel.array[i].packet_id = rel.array[j].packet_id => i = j
    BY DEF IdsUnique
  <2>1. Sound(ks[p].send) /\ Sound(ks[p].rec)
    BY DEF IInv, Pair, Local
  <2>2. Sound(rel)
    BY <2>1
  <2> QED  BY <2>2 DEF Sound
<1> QED  BY <1>1, Invariance, PTL

\* The ASSERTs of write_control_auth and reliable_ack_write never fail.
THEOREM AssertionsHold == Spec => []WriteAssertions
<1>1. IInv => WriteAssertions
  BY DEF IInv, Pair, Local, WriteAssertions
<1> QED  BY <1>1, Invariance, PTL

\* reliable_wont_break_sequentiality keeps the receive buffer from deadlock:
\* as many different ids as the buffer has slots, all within a window of that
\* many ids, include the first of the window, the next one to deliver.
THEOREM ReceiveBufferStaysOpen == Spec => []ReceiveBufferNotClogged
<1>1. IInv => ReceiveBufferNotClogged
  <2> SUFFICES ASSUME IInv, NEW p \in Peers, Active(ks[p].rec) = DOMAIN ks[p].rec.array
               PROVE  Sequenced(ks[p].rec) # {}
    BY DEF ReceiveBufferNotClogged, reliable_can_get
  <2> DEFINE rel == ks[p].rec
             base == rel.packet_id
             window == base + 1 .. base + RecSize - 1
             f == [i \in 1 .. RecSize |-> rel.array[i].packet_id]
  <2>1. Local(ks[p], p)
    BY DEF IInv, Pair
  <2>2. /\ rel \in Rel(Other(p), RecSize) /\ Sound(rel)
        /\ \A id \in Ids(rel) : id >= base /\ id < base + RecSize
    BY <2>1 DEF Local, KeyState
  <2>3. /\ RecSize \in Nat \ {0} /\ base \in Nat
        /\ Active(rel) = 1 .. RecSize
    BY <2>2, Sizes DEF Rel, PacketIdType
  <2>4. \A i \in 1 .. RecSize :
            rel.array[i].packet_id \in Nat /\ rel.array[i].packet_id \in Ids(rel)
    BY <2>2, <2>3 DEF Ids, Rel, Entry, PacketIdType
  <2> SUFFICES ASSUME Sequenced(rel) = {} PROVE FALSE
    OBVIOUS
  <2>5. \A i \in 1 .. RecSize : rel.array[i].packet_id # base
    BY <2>3 DEF Sequenced
  <2>6. f \in [1 .. RecSize -> window]
    <3> HIDE DEF rel, base
    <3> QED  BY <2>2, <2>3, <2>4, <2>5
  <2>7. IsFiniteSet(1 .. RecSize) /\ Cardinality(1 .. RecSize) = RecSize
    <3>1. 1 \in Int /\ RecSize \in Int /\ RecSize - 1 + 1 = RecSize /\ ~ 1 > RecSize
      BY <2>3
    <3>2. /\ IsFiniteSet(1 .. RecSize)
          /\ Cardinality(1 .. RecSize) = IF 1 > RecSize THEN 0 ELSE RecSize - 1 + 1
      BY <3>1, FS_Interval
    <3> QED  BY <3>1, <3>2
  <2>8. IsFiniteSet(window) /\ Cardinality(window) = RecSize - 1
    <3> HIDE DEF base
    <3>1. base + 1 \in Int /\ base + RecSize - 1 \in Int
      BY <2>3
    <3> QED  BY <2>3, <3>1, FS_Interval
  <2>9. \E i, j \in 1 .. RecSize : i # j /\ f[i] = f[j]
    <3> HIDE DEF f, window
    <3> QED  BY <2>3, <2>6, <2>7, <2>8, FS_PigeonHole
  <2> QED  BY <2>2, <2>3, <2>9 DEF Sound
<1> QED  BY <1>1, Invariance, PTL

\* A peer that starts TLS knows the other's session, and is known to it.
THEOREM StartsAgree == Spec => []StartAgreement
<1>1. IInv => StartAgreement
  BY DEF IInv, Pair, Towards, StartAgreement
<1> QED  BY <1>1, Invariance, PTL

\* The reliability layer implements Channel: exactly once and in order,
\* whatever the windows and the network.
THEOREM Refinement == Spec => ImplementsChannel
<1>1. Init => Chan!Init
  <2> SUFFICES ASSUME Init PROVE Chan!Init
    OBVIOUS
  <2>1. \A p \in Peers : ks[p].out = 0 /\ ks[p].in = << >>
    BY DEF Init, key_state_init
  <2> QED  BY <2>1 DEF Chan!Init, Chan!Peers, Peers
<1>2. Moves => [Chan!Next]_Chan!vars
  <2> DEFINE out == [x \in Peers |-> ks[x].out]
             in == [x \in Peers |-> ks[x].in]
  <2> SUFFICES ASSUME Moves PROVE [Chan!Next]_Chan!vars
    OBVIOUS
  <2>1. PICK p \in Peers : /\ Turn(ks[p], ks'[p], ks[Other(p)], p)
                           /\ ks'[Other(p)] = ks[Other(p)]
    BY DEF Moves
  <2> DEFINE q == Other(p)
  <2>2. q \in Peers /\ q # p /\ \A x \in Peers : x = p \/ x = q
    BY Sizes DEF Peers, Other
  <2>3. /\ Chan!Peers = Peers /\ Chan!Other(p) = q
    BY DEF Chan!Peers, Chan!Other, Peers, Other
  <2>4. /\ ks'[p].out = ks[p].out => out' = out
        /\ ks'[p].in = ks[p].in => in' = in
    BY <2>1, <2>2
  <2>5. ks'[p].out = ks[p].out + 1 /\ ks[p].out < Records[p] => Chan!HandOut(p)
    BY <2>1, <2>2 DEF Chan!HandOut
  <2>6. ks'[p].in = Append(ks[p].in, Len(ks[p].in) + 1) /\ Len(ks[p].in) < ks[q].out
            => Chan!Take(p)
    BY <2>1, <2>2, <2>3 DEF Chan!Take
  <2>7. \/ out' = out /\ in' = in
        \/ Chan!HandOut(p) /\ in' = in
        \/ Chan!Take(p) /\ out' = out
        \/ Chan!HandOut(p) /\ Chan!Take(p)
    BY <2>1, <2>4, <2>5, <2>6 DEF Turn
  <2> QED  BY <2>3, <2>7 DEF Chan!Next, Chan!Turn, Chan!vars
<1>3. IInv /\ [Next]_vars => [Chan!Next]_Chan!vars
  BY <1>2, NextPreserves
<1> QED  BY <1>1, <1>3, Invariance, PTL DEF Spec, ImplementsChannel, Chan!Spec
=============================================================================
