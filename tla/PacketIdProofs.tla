--------------------------- MODULE PacketIdProofs ---------------------------
(***************************************************************************)
(* Proofs about PacketId and the two specifications that use it, for every *)
(* window size, time limit, clock and range of sequence numbers:           *)
(*   - the receiver alone, against any order of arrivals (PacketId);       *)
(*   - the receiver across restarts (PacketIdPersist);                     *)
(*   - a sender and the receiver (PacketIdSend).                           *)
(***************************************************************************)
EXTENDS PacketIdPersist, PacketIdSend, TLAPS

(***************************************************************************)
(* The inductive invariant: what relates a receiver p to the set acc of    *)
(* the packets accepted.  AcceptedOnce alone is not inductive: it says     *)
(* nothing of the items behind the number of a refused packet.             *)
(***************************************************************************)

\* The accepted packets are not beyond the highest one of the receiver.
Ordered(p, acc) ==
    \A a \in acc :
        \/ a.time < p.time
        \/ a.time = p.time /\ a.id <= p.id

\* The item of an accepted packet that is still in the window is not unseen.
Marked(p, acc) ==
    \A a \in acc :
        a.time = p.time /\ p.id - a.id < p.size =>
            p.item[p.id - a.id] # SEQ_UNSEEN

\* The list has no items just when nothing was accepted.
EmptyIsFresh(p, acc) == p.size = 0 <=> acc = {}

\* The window is as wide as the configuration and the numbers allow.
Full(p, acc) ==
    acc # {} => p.size = IF p.id < SeqBacktrack THEN p.id ELSE SeqBacktrack

\* An arrival time in the list is that of the packet it belongs to.
Truthful(p, acc) ==
    \A k \in 0 .. p.size - 1 :
        p.item[k] > SEQ_EXPIRED =>
            [time |-> p.time, id |-> p.id - k, at |-> p.item[k]] \in acc

\* Behind an expired item all have expired.
Suffix(p) ==
    \A j, k \in 0 .. p.size - 1 :
        j < k /\ p.item[j] = SEQ_EXPIRED => p.item[k] = SEQ_EXPIRED

WindowInv(p, acc) ==
    /\ Marked(p, acc)
    /\ EmptyIsFresh(p, acc)
    /\ Full(p, acc)
    /\ Truthful(p, acc)
    /\ Suffix(p)

RecInv(p, acc) ==
    /\ Ordered(p, acc)
    /\ SeqBacktrack = 0 => p.size = 0
    /\ SeqBacktrack # 0 => WindowInv(p, acc)

IInv == TypeOK /\ RecInv(rec, accepted)

AcceptedSet == [time : 0 .. MaxStamp, id : 1 .. MaxId, at : Nat]

-----------------------------------------------------------------------------
(***************************************************************************)
(* What the operators do to a receiver.                                    *)
(***************************************************************************)

\* Reaping touches no number or size; an item stays, or expires, and it
\* expires only if it was seen or a seen one before it was too old.
LEMMA ReapEffect ==
    ASSUME NEW p \in Rec, now \in Nat
    PROVE  LET q == packet_id_reap_test(p) IN
           /\ q \in Rec
           /\ q.time = p.time /\ q.id = p.id /\ q.size = p.size
           /\ \/ q.item = p.item
              \/ q.item = [k \in Index |->
                    IF Expires(p, k) THEN SEQ_EXPIRED ELSE p.item[k]]
<1> DEFINE item == IF SeqBacktrack = 0 \/ TimeBacktrack = 0 THEN p.item
                   ELSE [k \in Index |->
                            IF Expires(p, k) THEN SEQ_EXPIRED ELSE p.item[k]]
<1>1. item \in [Index -> Nat]
  BY DEF Rec, SEQ_EXPIRED
<1>2. packet_id_reap(p) = [p EXCEPT !.item = item, !.last_reap = now]
  BY DEF packet_id_reap
<1>3. \/ item = p.item
      \/ item = [k \in Index |->
                    IF Expires(p, k) THEN SEQ_EXPIRED ELSE p.item[k]]
  OBVIOUS
<1> HIDE DEF item
<1>4. /\ packet_id_reap(p) \in Rec
      /\ packet_id_reap(p).time = p.time
      /\ packet_id_reap(p).id = p.id
      /\ packet_id_reap(p).size = p.size
      /\ packet_id_reap(p).item = item
  BY <1>1, <1>2 DEF Rec
<1> QED  BY <1>3, <1>4 DEF packet_id_reap_test

\* A new list is opened below the packet that opens it.
LEMMA NewListEffect ==
    ASSUME NEW p \in Rec, NEW pin \in PacketIdNet, SeqBacktrack # 0
    PROVE  LET q == NewList(p, pin) IN
           /\ q \in Rec
           /\ q.time = pin.time /\ q.size = 0
           /\ q.id = IF pin.id > SeqBacktrack THEN pin.id - SeqBacktrack ELSE 0
<1> DEFINE id == IF pin.id > SeqBacktrack THEN pin.id - SeqBacktrack ELSE 0
<1>1. NoItems \in [Index -> Nat]
  BY DEF NoItems, SEQ_UNSEEN
<1>2. id \in 0 .. MaxId /\ 0 \in 0 .. SeqBacktrack /\ pin.time \in 0 .. MaxStamp
  BY PacketIdAssumption DEF PacketIdNet
<1>3. NewList(p, pin) =
        [p EXCEPT !.time = pin.time, !.id = id, !.size = 0, !.item = NoItems]
  BY DEF NewList
<1> HIDE DEF id
<1>4. LET q == NewList(p, pin) IN
      q \in Rec /\ q.time = pin.time /\ q.size = 0 /\ q.id = id
  BY <1>1, <1>2, <1>3 DEF Rec
<1> QED  BY <1>4 DEF id

\* Pushing moves the window up to the packet, each item with its number.
LEMMA PushEffect ==
    ASSUME NEW p \in Rec, NEW pin \in PacketIdNet, SeqBacktrack # 0
    PROVE  LET q == PushUnseen(p, pin)
               d == IF p.id < pin.id THEN pin.id - p.id ELSE 0
           IN  /\ q \in Rec
               /\ q.time = p.time /\ q.id = p.id + d
               /\ q.size = IF p.size + d > SeqBacktrack THEN SeqBacktrack
                                                        ELSE p.size + d
               /\ \A k \in 0 .. q.size - 1 :
                    q.item[k] = IF k < d THEN SEQ_UNSEEN ELSE p.item[k - d]
<1> DEFINE d == IF p.id < pin.id THEN pin.id - p.id ELSE 0
           size == IF p.size + d > SeqBacktrack THEN SeqBacktrack ELSE p.size + d
           item == [k \in Index |-> IF k < d \/ k >= size THEN SEQ_UNSEEN
                                                          ELSE p.item[k - d]]
<1>1. /\ d \in Nat /\ p.id + d \in 0 .. MaxId /\ size \in 0 .. SeqBacktrack
  BY PacketIdAssumption DEF Rec, PacketIdNet
<1>2. item \in [Index -> Nat]
  <2>1. ASSUME NEW k \in Index, ~ (k < d \/ k >= size)
        PROVE  k - d \in Index
    BY <1>1, <2>1, PacketIdAssumption DEF Index
  <2> QED  BY <2>1 DEF Rec, SEQ_UNSEEN
<1>3. PushUnseen(p, pin) = [p EXCEPT !.id = p.id + d, !.size = size, !.item = item]
  BY DEF PushUnseen
<1>4. \A k \in 0 .. size - 1 :
        item[k] = IF k < d THEN SEQ_UNSEEN ELSE p.item[k - d]
  <2>1. \A k \in 0 .. size - 1 : k \in Index /\ ~ (k >= size)
    BY <1>1, PacketIdAssumption DEF Index
  <2> QED  BY <2>1
<1> HIDE DEF item, size
<1>5. LET q == PushUnseen(p, pin) IN
      /\ q \in Rec /\ q.time = p.time /\ q.id = p.id + d
      /\ q.size = size /\ q.item = item
  BY <1>1, <1>2, <1>3 DEF Rec
<1> QED  BY <1>4, <1>5 DEF size

\* Marking sets one item to the clock and nothing else.
LEMMA MarkEffect ==
    ASSUME NEW p \in Rec, NEW pin \in PacketIdNet, SeqBacktrack # 0,
           pin.id <= p.id, now \in Nat, now > SEQ_EXPIRED
    PROVE  LET q == MarkArrived(p, pin) IN
           /\ q \in Rec
           /\ q.time = p.time /\ q.id = p.id /\ q.size = p.size
           /\ \A k \in 0 .. p.size - 1 :
                q.item[k] = IF k = p.id - pin.id THEN now ELSE p.item[k]
<1>1. p.id - pin.id \in Nat
  BY DEF Rec, PacketIdNet
<1>2. CASE p.id - pin.id < p.size
  <2>1. p.id - pin.id \in Index
    BY <1>1, <1>2, PacketIdAssumption DEF Rec, Index
  <2>2. MarkArrived(p, pin) = [p EXCEPT !.item[p.id - pin.id] = now]
    BY <1>2 DEF MarkArrived
  <2>3. \A k \in 0 .. p.size - 1 : k \in Index
    BY PacketIdAssumption DEF Rec, Index
  <2> QED  BY <2>1, <2>2, <2>3 DEF Rec
<1>3. CASE ~ (p.id - pin.id < p.size)
  <2>1. MarkArrived(p, pin) = p
    BY <1>3 DEF MarkArrived
  <2> QED  BY <1>1, <1>3, <2>1 DEF Rec
<1> QED  BY <1>2, <1>3

\* Accepting a packet that starts a new list leaves only that packet in it.
LEMMA AddNewListEffect ==
    ASSUME NEW p \in Rec, NEW pin \in PacketIdNet, SeqBacktrack # 0,
           now \in Nat, now > SEQ_EXPIRED, packet_id_test(p, pin),
           StartsNewList(p, pin)
    PROVE  LET q == packet_id_add(p, pin) IN
           /\ q \in Rec
           /\ q.time = pin.time /\ q.id = pin.id
           /\ q.size = IF pin.id < SeqBacktrack THEN pin.id ELSE SeqBacktrack
           /\ \A k \in 0 .. q.size - 1 :
                q.item[k] = IF k = 0 THEN now ELSE SEQ_UNSEEN
<1> DEFINE n == NewList(p, pin)
           u == PushUnseen(n, pin)
           q == MarkArrived(u, pin)
<1>1. packet_id_add(p, pin) = q
  BY DEF packet_id_add
<1>2. pin.id \in Nat \ {0} /\ pin.id <= MaxId
  BY DEF packet_id_test, PacketIdNet
<1>3. /\ n \in Rec /\ n.time = pin.time /\ n.size = 0
      /\ n.id = IF pin.id > SeqBacktrack THEN pin.id - SeqBacktrack ELSE 0
  BY NewListEffect
<1>4. /\ u \in Rec /\ u.time = pin.time /\ u.id = pin.id
      /\ u.size = IF pin.id < SeqBacktrack THEN pin.id ELSE SeqBacktrack
      /\ \A k \in 0 .. u.size - 1 : u.item[k] = SEQ_UNSEEN
  <2> DEFINE d == IF n.id < pin.id THEN pin.id - n.id ELSE 0
  <2> HIDE DEF n
  <2>1. /\ u \in Rec /\ u.time = n.time /\ u.id = n.id + d
        /\ u.size = IF n.size + d > SeqBacktrack THEN SeqBacktrack ELSE n.size + d
        /\ \A k \in 0 .. u.size - 1 :
             u.item[k] = IF k < d THEN SEQ_UNSEEN ELSE n.item[k - d]
    BY <1>3, PushEffect
  <2>2. d = (IF pin.id < SeqBacktrack THEN pin.id ELSE SeqBacktrack)
        /\ n.id + d = pin.id
    BY <1>2, <1>3, PacketIdAssumption
  <2> HIDE DEF d, u
  <2>3. u.size = IF pin.id < SeqBacktrack THEN pin.id ELSE SeqBacktrack
    BY <1>2, <1>3, <2>1, <2>2, PacketIdAssumption
  <2>4. \A k \in 0 .. u.size - 1 : k < d
    BY <2>2, <2>3, <1>2, PacketIdAssumption
  <2> QED  BY <1>3, <2>1, <2>2, <2>3, <2>4
<1> HIDE DEF u
<1>5. /\ q \in Rec /\ q.time = u.time /\ q.id = u.id /\ q.size = u.size
      /\ \A k \in 0 .. u.size - 1 :
            q.item[k] = IF k = u.id - pin.id THEN now ELSE u.item[k]
  BY <1>2, <1>4, MarkEffect
<1> HIDE DEF q
<1> QED  BY <1>1, <1>2, <1>4, <1>5

\* Accepting a packet on the current list moves each item with its number.
LEMMA AddSameListEffect ==
    ASSUME NEW p \in Rec, NEW pin \in PacketIdNet, SeqBacktrack # 0,
           now \in Nat, now > SEQ_EXPIRED, packet_id_test(p, pin),
           ~ StartsNewList(p, pin)
    PROVE  LET q == packet_id_add(p, pin)
               d == IF p.id < pin.id THEN pin.id - p.id ELSE 0
           IN  /\ q \in Rec
               /\ pin.time = p.time /\ q.time = p.time /\ q.id = p.id + d
               /\ q.size = IF p.size + d > SeqBacktrack THEN SeqBacktrack
                                                        ELSE p.size + d
               /\ q.size # 0
               /\ \A k \in 0 .. q.size - 1 :
                    q.item[k] = IF k = q.id - pin.id THEN now
                                ELSE IF k < d THEN SEQ_UNSEEN
                                ELSE p.item[k - d]
<1> DEFINE d == IF p.id < pin.id THEN pin.id - p.id ELSE 0
           u == PushUnseen(p, pin)
           q == MarkArrived(u, pin)
<1>1. packet_id_add(p, pin) = q
  BY DEF packet_id_add
<1>2. pin.time = p.time /\ p.size # 0
  BY DEF packet_id_test, TestBacktrack, StartsNewList, PacketIdNet, Rec
<1>3. /\ u \in Rec /\ u.time = p.time /\ u.id = p.id + d
      /\ u.size = IF p.size + d > SeqBacktrack THEN SeqBacktrack ELSE p.size + d
      /\ \A k \in 0 .. u.size - 1 :
            u.item[k] = IF k < d THEN SEQ_UNSEEN ELSE p.item[k - d]
  BY PushEffect
<1>4. d \in Nat /\ pin.id <= p.id + d /\ p.size \in Nat
  BY DEF Rec, PacketIdNet
<1> HIDE DEF u, d
<1>5. /\ q \in Rec /\ q.time = u.time /\ q.id = u.id /\ q.size = u.size
      /\ \A k \in 0 .. u.size - 1 :
            q.item[k] = IF k = u.id - pin.id THEN now ELSE u.item[k]
  BY <1>3, <1>4, MarkEffect
<1> HIDE DEF q
<1>6. q.size # 0
  BY <1>2, <1>3, <1>4, <1>5, PacketIdAssumption
<1> QED  BY <1>1, <1>2, <1>3, <1>5, <1>6 DEF d

-----------------------------------------------------------------------------
(***************************************************************************)
(* The two halves of a received packet preserve the invariant.             *)
(***************************************************************************)

LEMMA ReapPreserves ==
    ASSUME NEW p \in Rec, NEW acc \in SUBSET AcceptedSet, now \in Nat,
           RecInv(p, acc)
    PROVE  RecInv(packet_id_reap_test(p), acc)
<1> DEFINE q == packet_id_reap_test(p)
<1>1. /\ q \in Rec
      /\ q.time = p.time /\ q.id = p.id /\ q.size = p.size
      /\ \/ q.item = p.item
         \/ q.item = [k \in Index |->
                    IF Expires(p, k) THEN SEQ_EXPIRED ELSE p.item[k]]
  BY ReapEffect
<1> SUFFICES RecInv(q, acc)
  OBVIOUS
<1> HIDE DEF q
<1>2. Ordered(q, acc)
  BY <1>1 DEF RecInv, Ordered
<1>3. CASE SeqBacktrack = 0
  BY <1>1, <1>2, <1>3 DEF RecInv
<1>4. CASE SeqBacktrack # 0 /\ q.item = p.item
  BY <1>1, <1>2, <1>4
     DEF RecInv, WindowInv, Marked, EmptyIsFresh, Full, Truthful, Suffix
<1>5. CASE SeqBacktrack # 0 /\
           q.item = [k \in Index |->
                    IF Expires(p, k) THEN SEQ_EXPIRED ELSE p.item[k]]
  <2>1. WindowInv(p, acc)
    BY <1>5 DEF RecInv
  <2>2. \A k \in 0 .. p.size - 1 :
          /\ k \in Index
          /\ p.item[k] \in Nat
          /\ q.item[k] = IF Expires(p, k) THEN SEQ_EXPIRED ELSE p.item[k]
    BY <1>5, PacketIdAssumption DEF Rec, Index
  <2>3. Marked(q, acc)
    <3>1. SUFFICES ASSUME NEW a \in acc, a.time = q.time, q.id - a.id < q.size
                   PROVE  q.item[q.id - a.id] # SEQ_UNSEEN
      BY DEF Marked
    <3>2. p.id - a.id \in 0 .. p.size - 1
      BY <1>1, <3>1, PacketIdAssumption DEF RecInv, Ordered, Rec, AcceptedSet
    <3> QED  BY <1>1, <2>1, <2>2, <3>1, <3>2
             DEF WindowInv, Marked, SEQ_UNSEEN, SEQ_EXPIRED
  <2>4. Truthful(q, acc)
    BY <1>1, <2>1, <2>2 DEF WindowInv, Truthful, SEQ_EXPIRED
  <2>5. Suffix(q)
    <3>1. SUFFICES ASSUME NEW j \in 0 .. p.size - 1, NEW k \in 0 .. p.size - 1,
                          j < k, q.item[j] = SEQ_EXPIRED
                   PROVE  q.item[k] = SEQ_EXPIRED
      BY <1>1 DEF Suffix
    <3>2. \A m \in 0 .. k : m < k /\ p.item[m] = SEQ_EXPIRED
                                => p.item[k] = SEQ_EXPIRED
      BY <2>1, <3>1, PacketIdAssumption DEF WindowInv, Suffix, Rec
    <3>3. CASE \E m \in 0 .. k : p.item[m] = SEQ_EXPIRED
      BY <2>2, <3>1, <3>2, <3>3 DEF Rec
    <3>4. CASE \A m \in 0 .. k : p.item[m] # SEQ_EXPIRED
      <4>1. Expires(p, j)
        BY <2>2, <3>1, <3>4 DEF Rec
      <4>2. Expires(p, k)
        BY <3>1, <3>4, <4>1 DEF Expires, Rec
      <4> QED  BY <2>2, <3>1, <4>2
    <3> QED  BY <3>3, <3>4
  <2> QED  BY <1>1, <1>2, <1>5, <2>1, <2>3, <2>4, <2>5
           DEF RecInv, WindowInv, EmptyIsFresh, Full
<1> QED  BY <1>1, <1>3, <1>4, <1>5

Accepting(pin) == [time |-> pin.time, id |-> pin.id, at |-> now]

\* The add of a packet that starts a new list.
LEMMA NewListPreserves ==
    ASSUME NEW p \in Rec, NEW acc \in SUBSET AcceptedSet,
           NEW pin \in PacketIdNet, SeqBacktrack # 0,
           now \in Nat, now > SEQ_EXPIRED,
           RecInv(p, acc), packet_id_test(p, pin), StartsNewList(p, pin)
    PROVE  RecInv(packet_id_add(p, pin), acc \cup {Accepting(pin)})
<1> DEFINE q == packet_id_add(p, pin)
           new == acc \cup {Accepting(pin)}
<1>1. /\ q \in Rec
      /\ q.time = pin.time /\ q.id = pin.id
      /\ q.size = IF pin.id < SeqBacktrack THEN pin.id ELSE SeqBacktrack
      /\ \A k \in 0 .. q.size - 1 :
            q.item[k] = IF k = 0 THEN now ELSE SEQ_UNSEEN
  BY AddNewListEffect
<1>2. /\ pin.id \in Nat \ {0}
      /\ pin.time > p.time \/ pin.time = p.time
  BY DEF packet_id_test, TestBacktrack, PacketIdNet
<1>3. WindowInv(p, acc) /\ Ordered(p, acc)
  BY DEF RecInv
<1> SUFFICES RecInv(q, new)
  OBVIOUS
<1> HIDE DEF q
\* Nothing accepted before is in the new window.
<1>4. \A a \in acc :
        \/ a.time < q.time
        \/ a.time = q.time /\ a.id <= q.id /\ ~ (q.id - a.id < q.size)
  <2> SUFFICES ASSUME NEW a \in acc
               PROVE  \/ a.time < q.time
                      \/ a.time = q.time /\ a.id <= q.id /\ ~ (q.id - a.id < q.size)
    OBVIOUS
  <2>1. /\ a.time \in Nat /\ a.id \in Nat /\ p.id \in Nat /\ p.time \in Nat
        /\ pin.time \in Nat
    BY DEF AcceptedSet, Rec, PacketIdNet
  <2>2. p.size # 0
    BY <1>3 DEF WindowInv, EmptyIsFresh
  <2>3. a.time < p.time \/ (a.time = p.time /\ a.id <= p.id)
    BY <1>3 DEF Ordered
  <2>4. CASE pin.time > p.time
    BY <1>1, <2>1, <2>3, <2>4
  <2>5. CASE pin.id >= SeqBacktrack /\ pin.id - SeqBacktrack > p.id
    BY <1>1, <1>2, <2>1, <2>3, <2>5, PacketIdAssumption
  <2> QED  BY <2>2, <2>4, <2>5 DEF StartsNewList
<1>5. Ordered(q, new)
  BY <1>1, <1>4 DEF Ordered, Accepting, PacketIdNet
<1>6. q.size \in Nat \ {0} /\ q.id = pin.id
  BY <1>1, <1>2, PacketIdAssumption
<1>7. Marked(q, new)
  <2> SUFFICES ASSUME NEW a \in new, a.time = q.time, q.id - a.id < q.size
               PROVE  q.item[q.id - a.id] # SEQ_UNSEEN
    BY DEF Marked
  <2>1. a = Accepting(pin)
    BY <1>4 DEF Rec, AcceptedSet
  <2>2. q.id - a.id = 0 /\ 0 \in 0 .. q.size - 1
    BY <1>2, <1>6, <2>1 DEF Accepting
  <2> QED  BY <1>1, <2>2 DEF SEQ_UNSEEN, SEQ_EXPIRED
<1>8. EmptyIsFresh(q, new) /\ Full(q, new)
  BY <1>1, <1>6 DEF EmptyIsFresh, Full
<1>9. Truthful(q, new)
  <2> SUFFICES ASSUME NEW k \in 0 .. q.size - 1, q.item[k] > SEQ_EXPIRED
               PROVE  [time |-> q.time, id |-> q.id - k, at |-> q.item[k]] \in new
    BY DEF Truthful
  <2>1. k = 0 /\ q.item[k] = now
    BY <1>1 DEF SEQ_UNSEEN, SEQ_EXPIRED
  <2>2. q.id - k = pin.id
    BY <1>2, <1>6, <2>1
  <2> QED  BY <1>1, <2>1, <2>2 DEF Accepting
<1>10. Suffix(q)
  BY <1>1 DEF Suffix, SEQ_UNSEEN, SEQ_EXPIRED
<1> QED  BY <1>5, <1>7, <1>8, <1>9, <1>10 DEF RecInv, WindowInv

\* The add of a packet to the current list.
LEMMA SameListPreserves ==
    ASSUME NEW p \in Rec, NEW acc \in SUBSET AcceptedSet,
           NEW pin \in PacketIdNet, SeqBacktrack # 0,
           now \in Nat, now > SEQ_EXPIRED,
           RecInv(p, acc), packet_id_test(p, pin), ~ StartsNewList(p, pin)
    PROVE  RecInv(packet_id_add(p, pin), acc \cup {Accepting(pin)})
<1> DEFINE q == packet_id_add(p, pin)
           new == acc \cup {Accepting(pin)}
           d == IF p.id < pin.id THEN pin.id - p.id ELSE 0
<1>1. /\ q \in Rec
      /\ pin.time = p.time /\ q.time = p.time /\ q.id = p.id + d
      /\ q.size = IF p.size + d > SeqBacktrack THEN SeqBacktrack ELSE p.size + d
      /\ q.size # 0
      /\ \A k \in 0 .. q.size - 1 :
            q.item[k] = IF k = q.id - pin.id THEN now
                        ELSE IF k < d THEN SEQ_UNSEEN
                        ELSE p.item[k - d]
  BY AddSameListEffect
<1>2. /\ d \in Nat /\ pin.id \in Nat \ {0} /\ pin.id <= p.id + d
      /\ p.id \in Nat /\ p.size \in Nat /\ p.time \in Nat
      /\ d # 0 => p.id + d = pin.id
  BY DEF packet_id_test, Rec, PacketIdNet
<1>3. WindowInv(p, acc) /\ Ordered(p, acc)
  BY DEF RecInv
<1>4. d # 0 \/ p.item[p.id - pin.id] = SEQ_UNSEEN
  BY <1>1 DEF packet_id_test, TestBacktrack, InWindow, PacketIdNet, Rec
<1> SUFFICES RecInv(q, new)
  OBVIOUS
<1> HIDE DEF q, d
\* The window did not grow beyond what the old one covered plus d.
<1>5. \A k \in 0 .. q.size - 1 : k >= d => k - d \in 0 .. p.size - 1
  BY <1>1, <1>2, PacketIdAssumption DEF Rec
<1>6. Ordered(q, new)
  <2> SUFFICES ASSUME NEW a \in new
               PROVE  a.time < q.time \/ (a.time = q.time /\ a.id <= q.id)
    BY DEF Ordered
  <2>1. CASE a \in acc
    BY <1>1, <1>2, <1>3, <2>1 DEF Ordered, AcceptedSet
  <2>2. CASE a = Accepting(pin)
    BY <1>1, <1>2, <2>2 DEF Accepting
  <2> QED  BY <2>1, <2>2
<1>7. Marked(q, new)
  <2> SUFFICES ASSUME NEW a \in new, a.time = q.time, q.id - a.id < q.size
               PROVE  q.item[q.id - a.id] # SEQ_UNSEEN
    BY DEF Marked
  <2>1. a.id \in Nat /\ a.id <= q.id /\ q.id \in Nat /\ q.size \in Nat
    <3>1. a.id \in Nat
      BY <1>2 DEF AcceptedSet, Accepting
    <3> QED  BY <1>1, <1>2, <1>6, <3>1 DEF Ordered, Rec
  <2>2. q.id - a.id \in 0 .. q.size - 1
    BY <2>1
  <2>3. CASE a.id = pin.id
    BY <1>1, <2>2, <2>3 DEF SEQ_UNSEEN, SEQ_EXPIRED
  <2>4. CASE a.id # pin.id
    <3>1. a \in acc
      BY <2>4 DEF Accepting
    <3>2. a.id <= p.id
      BY <1>1, <1>3, <3>1 DEF Ordered, AcceptedSet, Rec
    <3>3. /\ q.id - a.id >= d /\ (q.id - a.id) - d = p.id - a.id
          /\ q.id - a.id # q.id - pin.id
      BY <1>1, <1>2, <2>1, <2>4, <3>2
    <3>4. p.id - a.id < p.size
      BY <1>5, <2>2, <3>3, <1>2, <2>1
    <3>5. p.item[p.id - a.id] # SEQ_UNSEEN
      BY <1>1, <1>3, <3>1, <3>4 DEF WindowInv, Marked
    <3>6. q.item[q.id - a.id] = p.item[(q.id - a.id) - d]
      BY <1>1, <1>2, <2>1, <2>2, <3>3
    <3> QED  BY <3>3, <3>5, <3>6
  <2> QED  BY <2>3, <2>4
<1>8. EmptyIsFresh(q, new) /\ Full(q, new)
  <2>1. acc # {}
    BY <1>3 DEF WindowInv, EmptyIsFresh, StartsNewList
  <2> QED  BY <1>1, <1>2, <1>3, <2>1, PacketIdAssumption
           DEF WindowInv, EmptyIsFresh, Full
<1>9. Truthful(q, new)
  <2> SUFFICES ASSUME NEW k \in 0 .. q.size - 1, q.item[k] > SEQ_EXPIRED
               PROVE  [time |-> q.time, id |-> q.id - k, at |-> q.item[k]] \in new
    BY DEF Truthful
  <2>1. CASE k = q.id - pin.id
    <3>1. q.id - k = pin.id /\ q.item[k] = now
      BY <1>1, <1>2, <2>1
    <3> QED  BY <1>1, <3>1 DEF Accepting
  <2>2. CASE k # q.id - pin.id
    <3>1. k >= d /\ q.item[k] = p.item[k - d]
      BY <1>1, <1>2, <2>2 DEF SEQ_UNSEEN, SEQ_EXPIRED
    <3>2. [time |-> p.time, id |-> p.id - (k - d), at |-> p.item[k - d]] \in acc
      BY <1>3, <1>5, <3>1 DEF WindowInv, Truthful
    <3>3. p.id - (k - d) = q.id - k
      BY <1>1, <1>2
    <3> QED  BY <1>1, <3>1, <3>2, <3>3
  <2> QED  BY <2>1, <2>2
<1>10. Suffix(q)
  <2> SUFFICES ASSUME NEW j \in 0 .. q.size - 1, NEW k \in 0 .. q.size - 1,
                      j < k, q.item[j] = SEQ_EXPIRED
               PROVE  q.item[k] = SEQ_EXPIRED
    BY DEF Suffix
  <2>1. j # q.id - pin.id /\ j >= d /\ p.item[j - d] = SEQ_EXPIRED
    BY <1>1, <1>2 DEF SEQ_UNSEEN, SEQ_EXPIRED
  <2>2. p.item[k - d] = SEQ_EXPIRED
    BY <1>2, <1>3, <1>5, <2>1 DEF WindowInv, Suffix
  <2>3. k # q.id - pin.id
    <3>1. CASE d # 0
      BY <1>1, <1>2, <3>1
    <3>2. CASE d = 0
      BY <1>1, <1>2, <1>4, <2>2, <3>2 DEF SEQ_UNSEEN, SEQ_EXPIRED
    <3> QED  BY <3>1, <3>2
  <2> QED  BY <1>1, <1>2, <2>1, <2>2, <2>3
<1> QED  BY <1>6, <1>7, <1>8, <1>9, <1>10 DEF RecInv, WindowInv

\* The add of a packet in sequential mode.
LEMMA SequentialPreserves ==
    ASSUME NEW p \in Rec, NEW acc \in SUBSET AcceptedSet,
           NEW pin \in PacketIdNet, SeqBacktrack = 0,
           RecInv(p, acc), packet_id_test(p, pin)
    PROVE  /\ packet_id_add(p, pin) \in Rec
           /\ RecInv(packet_id_add(p, pin), acc \cup {Accepting(pin)})
<1>1. packet_id_add(p, pin) = [p EXCEPT !.time = pin.time, !.id = pin.id]
  BY DEF packet_id_add
<1>2. p.size = 0 /\ Ordered(p, acc)
  BY DEF RecInv
<1>3. \/ pin.time > p.time
      \/ pin.time = p.time /\ pin.id >= p.id
  BY DEF packet_id_test, TestSequential, PacketIdNet, Rec
<1>4. LET q == packet_id_add(p, pin) IN
      q \in Rec /\ q.time = pin.time /\ q.id = pin.id /\ q.size = 0
  BY <1>1, <1>2 DEF Rec, PacketIdNet
<1>5. Ordered(packet_id_add(p, pin), acc \cup {Accepting(pin)})
  BY <1>2, <1>3, <1>4 DEF Ordered, Accepting, AcceptedSet, Rec, PacketIdNet
<1> QED  BY <1>4, <1>5 DEF RecInv

LEMMA AddPreserves ==
    ASSUME NEW p \in Rec, NEW acc \in SUBSET AcceptedSet,
           NEW pin \in PacketIdNet, now \in Nat, now > SEQ_EXPIRED,
           RecInv(p, acc), packet_id_test(p, pin)
    PROVE  /\ packet_id_add(p, pin) \in Rec
           /\ RecInv(packet_id_add(p, pin), acc \cup {Accepting(pin)})
<1>1. CASE SeqBacktrack = 0
  BY <1>1, SequentialPreserves
<1>2. CASE SeqBacktrack # 0 /\ StartsNewList(p, pin)
  BY <1>2, AddNewListEffect, NewListPreserves
<1>3. CASE SeqBacktrack # 0 /\ ~ StartsNewList(p, pin)
  BY <1>3, AddSameListEffect, SameListPreserves
<1> QED  BY <1>1, <1>2, <1>3

-----------------------------------------------------------------------------
(***************************************************************************)
(* The inductive invariant.                                                *)
(***************************************************************************)

LEMMA InitEstablishes == Init => IInv
<1> SUFFICES ASSUME Init PROVE IInv
  OBVIOUS
<1>1. rec \in Rec /\ rec.size = 0 /\ rec.id = 0
  BY PacketIdAssumption
     DEF Init, packet_id_init, Rec, NoItems, Index, SEQ_UNSEEN
<1>2. TypeOK
  BY <1>1, PacketIdAssumption DEF Init, TypeOK
<1>3. RecInv(rec, accepted)
  <2>1. accepted = {} /\ 0 .. rec.size - 1 = {}
    BY <1>1 DEF Init
  <2>2. Truthful(rec, accepted) /\ Suffix(rec)
    BY <2>1 DEF Truthful, Suffix
  <2> QED  BY <1>1, <2>1, <2>2
           DEF RecInv, Ordered, WindowInv, Marked, EmptyIsFresh, Full
<1> QED  BY <1>2, <1>3 DEF IInv

LEMMA NextPreserves == IInv /\ [Next]_vars => IInv'
<1> SUFFICES ASSUME IInv, [Next]_vars PROVE IInv'
  OBVIOUS
<1> USE DEF IInv
<1> DEFINE p == packet_id_reap_test(rec)
<1>1. /\ rec \in Rec /\ accepted \in SUBSET AcceptedSet
      /\ now \in Nat /\ now >= StartTime /\ now > SEQ_EXPIRED
  BY PacketIdAssumption DEF TypeOK, AcceptedSet, SEQ_EXPIRED
<1>2. p \in Rec /\ RecInv(p, accepted)
  BY <1>1, ReapEffect, ReapPreserves
<1> HIDE DEF p
<1>3. ASSUME NEW pin \in PacketIdNet, Accept(pin)
      PROVE  IInv'
  <2>1. /\ packet_id_test(p, pin)
        /\ rec' = packet_id_add(p, pin)
        /\ accepted' = accepted \cup {Accepting(pin)}
        /\ now' = now
    BY <1>3 DEF Accept, Accepting, p
  <2>2. rec' \in Rec /\ RecInv(rec', accepted')
    BY <1>1, <1>2, <2>1, AddPreserves
  <2>3. Accepting(pin) \in AcceptedSet
    BY <1>1, <2>1 DEF Accepting, AcceptedSet, PacketIdNet, packet_id_test
  <2> QED  BY <1>1, <2>1, <2>2, <2>3 DEF TypeOK, AcceptedSet, RecInv, Ordered,
              WindowInv, Marked, EmptyIsFresh, Full, Truthful, Suffix
<1>4. ASSUME NEW pin \in PacketIdNet, Reject(pin)
      PROVE  IInv'
  <2>1. rec' = p /\ accepted' = accepted /\ now' = now
    BY <1>4 DEF Reject, p
  <2> QED  BY <1>1, <1>2, <2>1 DEF TypeOK, AcceptedSet, RecInv, Ordered,
              WindowInv, Marked, EmptyIsFresh, Full, Truthful, Suffix
<1>5. CASE Tick
  <2>1. rec' = rec /\ accepted' = accepted /\ now' \in Nat /\ now' >= StartTime
    BY <1>1, <1>5, PacketIdAssumption DEF Tick
  <2> QED  BY <2>1 DEF TypeOK, RecInv, Ordered,
              WindowInv, Marked, EmptyIsFresh, Full, Truthful, Suffix
<1>6. CASE UNCHANGED vars
  BY <1>6 DEF vars, TypeOK, RecInv, Ordered,
              WindowInv, Marked, EmptyIsFresh, Full, Truthful, Suffix
<1> QED  BY <1>3, <1>4, <1>5, <1>6 DEF Next

THEOREM Invariance == Spec => []IInv
  BY InitEstablishes, NextPreserves, PTL DEF Spec

-----------------------------------------------------------------------------
(***************************************************************************)
(* The mode without a window.  NoGap needs to know where the numbers of    *)
(* the highest time stamp end: at the number the receiver holds.           *)
(***************************************************************************)
LastAccepted ==
    IF accepted = {}
    THEN rec.id = 0
    ELSE \E c \in accepted : c.time = rec.time /\ c.id = rec.id

SeqInv == SeqBacktrack = 0 => LastAccepted /\ NoGap

LEMMA SequentialInvariance == Spec => []SeqInv
<1>1. Init => SeqInv
  BY DEF Init, SeqInv, LastAccepted, NoGap, packet_id_init
<1>2. IInv /\ SeqInv /\ [Next]_vars => SeqInv'
  <2> SUFFICES ASSUME IInv, SeqInv, [Next]_vars, SeqBacktrack = 0
               PROVE  LastAccepted' /\ NoGap'
    BY DEF SeqInv
  <2> DEFINE p == packet_id_reap_test(rec)
  <2>1. /\ rec \in Rec /\ accepted \subseteq AcceptedSet /\ now \in Nat
        /\ Ordered(rec, accepted) /\ LastAccepted /\ NoGap
    BY DEF IInv, TypeOK, RecInv, SeqInv, AcceptedSet
  <2>2. p \in Rec /\ p.time = rec.time /\ p.id = rec.id
    BY <2>1, ReapEffect
  <2> HIDE DEF p
  <2>3. ASSUME rec'.time = rec.time, rec'.id = rec.id, accepted' = accepted
        PROVE  LastAccepted' /\ NoGap'
    BY <2>1, <2>3 DEF LastAccepted, NoGap
  <2>4. ASSUME NEW pin \in PacketIdNet, Accept(pin)
        PROVE  LastAccepted' /\ NoGap'
    <3> DEFINE n == Accepting(pin)
    <3>1. /\ packet_id_test(p, pin)
          /\ rec' = [p EXCEPT !.time = pin.time, !.id = pin.id]
          /\ accepted' = accepted \cup {n}
      BY <2>4 DEF Accept, Accepting, packet_id_add, p
    <3>2. n.time = pin.time /\ n.id = pin.id
      BY DEF Accepting
    <3> HIDE DEF n
    <3>3. rec'.time = n.time /\ rec'.id = n.id
      BY <2>2, <3>1, <3>2 DEF Rec
    <3>4. LastAccepted'
      BY <3>1, <3>3 DEF LastAccepted
    <3>5. /\ n.id \in Nat /\ n.time \in Nat /\ rec.id \in Nat /\ rec.time \in Nat
          /\ \A a \in accepted : a.id \in Nat \ {0} /\ a.time \in Nat
      BY <2>1, <3>2 DEF Rec, PacketIdNet, AcceptedSet
    <3>6. \/ n.time > rec.time
          \/ n.time = rec.time /\ (rec.id = 0 \/ n.id = rec.id + 1)
      BY <2>2, <3>1, <3>2 DEF packet_id_test, TestSequential
    \* Nothing of the packet's stamp was accepted, or all up to the number
    \* before.
    <3>7. \A a \in accepted : a.time = n.time =>
            /\ a.id < n.id
            /\ \A id \in a.id .. n.id - 1 :
                    \E c \in accepted : c.time = n.time /\ c.id = id
      <4> SUFFICES ASSUME NEW a \in accepted, a.time = n.time
                   PROVE  /\ a.id < n.id
                          /\ \A id \in a.id .. n.id - 1 :
                                \E c \in accepted : c.time = n.time /\ c.id = id
        OBVIOUS
      <4>1. n.time = rec.time /\ a.id <= rec.id
        BY <2>1, <3>5, <3>6 DEF Ordered
      <4>2. n.id = rec.id + 1
        BY <3>5, <3>6, <4>1
      <4>3. PICK c \in accepted : c.time = rec.time /\ c.id = rec.id
        BY <2>1 DEF LastAccepted
      <4>4. \A id \in a.id .. c.id :
                \E e \in accepted : e.time = a.time /\ e.id = id
        BY <2>1, <4>1, <4>3 DEF NoGap
      <4> QED  BY <3>5, <4>1, <4>2, <4>3, <4>4
    <3>8. NoGap'
      <4> SUFFICES ASSUME NEW a \in accepted \cup {n}, NEW b \in accepted \cup {n},
                          NEW id \in a.id .. b.id, a.time = b.time
                   PROVE  \E c \in accepted \cup {n} : c.time = a.time /\ c.id = id
        BY <3>1 DEF NoGap
      <4>1. CASE a \in accepted /\ b \in accepted
        BY <2>1, <4>1 DEF NoGap
      <4>2. CASE a \in accepted /\ b = n
        BY <3>5, <3>7, <4>2
      <4>3. CASE a = n /\ b \in accepted
        BY <3>5, <3>7, <4>3
      <4>4. CASE a = n /\ b = n
        BY <3>5, <4>4
      <4> QED  BY <4>1, <4>2, <4>3, <4>4
    <3> QED  BY <3>4, <3>8
  <2>5. ASSUME NEW pin \in PacketIdNet, Reject(pin)
        PROVE  LastAccepted' /\ NoGap'
    BY <2>2, <2>3, <2>5 DEF Reject, p
  <2>6. CASE Tick
    BY <2>3, <2>6 DEF Tick
  <2>7. CASE UNCHANGED vars
    BY <2>3, <2>7 DEF vars
  <2> QED  BY <2>4, <2>5, <2>6, <2>7 DEF Next
<1> QED  BY <1>1, <1>2, Invariance, PTL DEF Spec

-----------------------------------------------------------------------------
(***************************************************************************)
(* The time limit.  BacktrackBounded needs to know how old the items in    *)
(* front of an unseen one may be: they were not too old at the last reap   *)
(* pass, which is never further back than the reap interval.               *)
(***************************************************************************)

\* A receiver that fits the history refuses what was accepted.
LEMMA AcceptedIsRefused ==
    ASSUME NEW p \in Rec, NEW acc \in SUBSET AcceptedSet, RecInv(p, acc),
           NEW a \in acc
    PROVE  ~ packet_id_test(p, a)
<1>1. /\ a.time \in Nat /\ a.id \in Nat \ {0}
      /\ p.time \in Nat /\ p.id \in Nat /\ p.size \in Nat
  BY DEF Rec, AcceptedSet
<1>2. a.time < p.time \/ (a.time = p.time /\ a.id <= p.id)
  BY DEF RecInv, Ordered
<1>3. CASE SeqBacktrack = 0
  BY <1>1, <1>2, <1>3 DEF packet_id_test, TestSequential
<1>4. CASE SeqBacktrack # 0
  <2>1. ~ (a.time = p.time /\ InWindow(p, a))
    BY <1>4 DEF RecInv, WindowInv, Marked, InWindow
  <2> QED  BY <1>1, <1>2, <1>4, <2>1 DEF packet_id_test, TestBacktrack
<1> QED  BY <1>3, <1>4

Recent(p) ==
    \A j, k \in 0 .. p.size - 1 :
        j < k /\ p.item[k] = SEQ_UNSEEN /\ p.item[j] > SEQ_EXPIRED =>
            p.item[j] + TimeBacktrack >= p.last_reap

\* What was accepted twice would have two arrival times.
OneArrival == \A a, b \in accepted : a.time = b.time /\ a.id = b.id => a = b

LimitInv ==
    /\ OneArrival
    /\ rec.last_reap <= now
    /\ SeqBacktrack # 0 /\ TimeBacktrack # 0 => Recent(rec)

\* After the reap pass that comes first, the items are recent, and the last
\* pass is not long ago.
LEMMA ReapKeepsRecent ==
    ASSUME IInv, LimitInv
    PROVE  LET p == packet_id_reap_test(rec) IN
           /\ p.last_reap <= now /\ now < p.last_reap + ReapInterval
           /\ SeqBacktrack # 0 /\ TimeBacktrack # 0 => Recent(p)
<1> DEFINE p == packet_id_reap_test(rec)
<1>1. rec \in Rec /\ now \in Nat /\ ReapInterval \in Nat \ {0}
      /\ rec.last_reap \in Nat /\ rec.last_reap <= now
  BY PacketIdAssumption DEF IInv, TypeOK, LimitInv, Rec
<1>2. CASE rec.last_reap + ReapInterval > now
  BY <1>1, <1>2 DEF packet_id_reap_test, LimitInv
<1>3. CASE rec.last_reap + ReapInterval <= now
  <2>1. p = packet_id_reap(rec)
    BY <1>3 DEF packet_id_reap_test
  <2>2. p.last_reap = now
    BY <1>1, <2>1 DEF packet_id_reap, Rec
  <2>3. ASSUME SeqBacktrack # 0, TimeBacktrack # 0 PROVE Recent(p)
    <3>1. /\ p.size = rec.size
          /\ p.item = [k \in Index |->
                        IF Expires(rec, k) THEN SEQ_EXPIRED ELSE rec.item[k]]
      BY <1>1, <2>1, <2>3 DEF packet_id_reap, Rec
    <3> SUFFICES ASSUME NEW j \in 0 .. p.size - 1, NEW k \in 0 .. p.size - 1,
                        j < k, p.item[k] = SEQ_UNSEEN, p.item[j] > SEQ_EXPIRED
                 PROVE  p.item[j] + TimeBacktrack >= now
      BY <2>2 DEF Recent
    <3>2. /\ rec.size \in Nat /\ j \in Nat /\ k \in Nat /\ k < rec.size
          /\ j \in Index /\ k \in Index
      BY <1>1, <3>1, PacketIdAssumption DEF Rec, Index
    <3>3. ~ Expires(rec, k) /\ rec.item[k] = SEQ_UNSEEN
      BY <3>1, <3>2 DEF SEQ_UNSEEN, SEQ_EXPIRED
    <3>4. p.item[j] = rec.item[j] /\ rec.item[j] \in Nat
      BY <1>1, <3>1, <3>2 DEF SEQ_EXPIRED, Rec
    <3>5. \A i \in 0 .. k : rec.item[i] # SEQ_EXPIRED
      <4> SUFFICES ASSUME NEW i \in 0 .. k, rec.item[i] = SEQ_EXPIRED
                   PROVE  FALSE
        OBVIOUS
      <4>1. i < k
        BY <3>2, <3>3 DEF SEQ_UNSEEN, SEQ_EXPIRED
      <4>2. Suffix(rec)
        BY <2>3 DEF IInv, RecInv, WindowInv
      <4>3. rec.item[k] = SEQ_EXPIRED
        BY <3>2, <4>1, <4>2 DEF Suffix
      <4> QED  BY <3>3, <4>3 DEF SEQ_UNSEEN, SEQ_EXPIRED
    <3>6. ~ (rec.item[j] # SEQ_UNSEEN /\ rec.item[j] + TimeBacktrack < now)
      BY <3>2, <3>3, <3>5 DEF Expires
    <3> QED  BY <1>1, <3>4, <3>6, PacketIdAssumption DEF SEQ_UNSEEN, SEQ_EXPIRED
  <2> QED  BY <1>1, <2>2, <2>3
<1> QED  BY <1>1, <1>2, <1>3

\* An accepted packet does not touch the time of the last reap pass, and its
\* arrival is recent.
LEMMA AddKeepsRecent ==
    ASSUME NEW p \in Rec, NEW pin \in PacketIdNet, SeqBacktrack # 0,
           now \in Nat, now > SEQ_EXPIRED, packet_id_test(p, pin),
           p.last_reap <= now, Recent(p)
    PROVE  Recent(packet_id_add(p, pin))
<1> DEFINE q == packet_id_add(p, pin)
<1>1. q.last_reap = p.last_reap
  BY DEF packet_id_add, MarkArrived, PushUnseen, NewList, Rec
<1>2. CASE StartsNewList(p, pin)
  <2>1. \A k \in 0 .. q.size - 1 :
            q.item[k] = IF k = 0 THEN now ELSE SEQ_UNSEEN
    BY <1>2, AddNewListEffect
  <2> QED  BY <1>1, <2>1, PacketIdAssumption
           DEF Recent, Rec, SEQ_UNSEEN, SEQ_EXPIRED
<1>3. CASE ~ StartsNewList(p, pin)
  <2> DEFINE d == IF p.id < pin.id THEN pin.id - p.id ELSE 0
  <2>1. /\ q \in Rec
        /\ q.size = IF p.size + d > SeqBacktrack THEN SeqBacktrack ELSE p.size + d
        /\ \A k \in 0 .. q.size - 1 :
             q.item[k] = IF k = q.id - pin.id THEN now
                         ELSE IF k < d THEN SEQ_UNSEEN
                         ELSE p.item[k - d]
    BY <1>3, AddSameListEffect
  <2>2. d \in Nat /\ p.size \in Nat /\ p.last_reap \in Nat
        /\ q.size \in Nat /\ q.size <= p.size + d
    BY <2>1, PacketIdAssumption DEF Rec, PacketIdNet
  <2> HIDE DEF d, q
  <2> SUFFICES ASSUME NEW j \in 0 .. q.size - 1, NEW k \in 0 .. q.size - 1,
                      j < k, q.item[k] = SEQ_UNSEEN, q.item[j] > SEQ_EXPIRED
               PROVE  q.item[j] + TimeBacktrack >= p.last_reap
    BY <1>1 DEF Recent, q
  <2>3. CASE j = q.id - pin.id
    <3>1. q.item[j] = now
      BY <2>1, <2>3
    <3> QED  BY <2>2, <3>1, PacketIdAssumption
  <2>4. CASE j # q.id - pin.id
    <3>1. ~ (j < d) /\ q.item[j] = p.item[j - d]
      BY <2>1, <2>4 DEF SEQ_UNSEEN, SEQ_EXPIRED
    <3>2. k # q.id - pin.id
      BY <2>1 DEF SEQ_UNSEEN, SEQ_EXPIRED
    <3>3. ~ (k < d) /\ q.item[k] = p.item[k - d]
      BY <2>1, <2>2, <3>1, <3>2
    <3>4. j - d \in 0 .. p.size - 1 /\ k - d \in 0 .. p.size - 1 /\ j - d < k - d
      BY <2>2, <3>1, <3>3
    <3> QED  BY <3>1, <3>3, <3>4 DEF Recent
  <2> QED  BY <2>3, <2>4
<1> QED  BY <1>2, <1>3

LEMMA LimitInvariance == Spec => []LimitInv
<1>1. Init => LimitInv
  <2> SUFFICES ASSUME Init PROVE LimitInv
    OBVIOUS
  <2>1. rec.last_reap = 0 /\ rec.size = 0 /\ accepted = {} /\ now = StartTime
    BY DEF Init, packet_id_init
  <2>2. 0 .. rec.size - 1 = {}
    BY <2>1
  <2>3. Recent(rec)
    BY <2>2 DEF Recent
  <2> QED  BY <2>1, <2>3, PacketIdAssumption DEF LimitInv, OneArrival
<1>2. IInv /\ LimitInv /\ [Next]_vars => LimitInv'
  <2> SUFFICES ASSUME IInv, LimitInv, [Next]_vars PROVE LimitInv'
    OBVIOUS
  <2> DEFINE p == packet_id_reap_test(rec)
  <2>1. /\ rec \in Rec /\ accepted \in SUBSET AcceptedSet
        /\ now \in Nat /\ now > SEQ_EXPIRED /\ rec.last_reap \in Nat
    BY PacketIdAssumption DEF IInv, TypeOK, AcceptedSet, SEQ_EXPIRED, Rec
  <2>2. p \in Rec /\ RecInv(p, accepted)
    BY <2>1, ReapEffect, ReapPreserves DEF IInv
  <2>3. /\ p.last_reap <= now
        /\ SeqBacktrack # 0 /\ TimeBacktrack # 0 => Recent(p)
    BY ReapKeepsRecent
  <2> HIDE DEF p
  <2>4. ASSUME NEW pin \in PacketIdNet, Accept(pin)
        PROVE  LimitInv'
    <3> DEFINE n == Accepting(pin)
    <3>1. /\ packet_id_test(p, pin) /\ rec' = packet_id_add(p, pin)
          /\ accepted' = accepted \cup {n} /\ now' = now
      BY <2>4 DEF Accept, Accepting, p
    <3>2. OneArrival'
      <4>1. n.time = pin.time /\ n.id = pin.id
        BY DEF Accepting
      <4>2. \A a \in accepted : ~ (a.time = n.time /\ a.id = n.id)
        <5> SUFFICES ASSUME NEW a \in accepted, a.time = pin.time, a.id = pin.id
                     PROVE  FALSE
          BY <4>1
        <5>1. ~ packet_id_test(p, a)
          BY <2>1, <2>2, AcceptedIsRefused
        <5>2. packet_id_test(p, a) <=> packet_id_test(p, pin)
          BY DEF packet_id_test, TestBacktrack, TestSequential, InWindow
        <5> QED  BY <3>1, <5>1, <5>2
      <4> HIDE DEF n
      <4> QED  BY <3>1, <4>2 DEF LimitInv, OneArrival
    <3>3. rec'.last_reap = p.last_reap
      BY <2>2, <3>1
         DEF packet_id_add, MarkArrived, PushUnseen, NewList, Rec
    <3>4. SeqBacktrack # 0 /\ TimeBacktrack # 0 => Recent(rec')
      BY <2>1, <2>2, <2>3, <3>1, AddKeepsRecent
    <3> QED  BY <2>3, <3>1, <3>2, <3>3, <3>4 DEF LimitInv, Recent
  <2>5. ASSUME NEW pin \in PacketIdNet, Reject(pin)
        PROVE  LimitInv'
    <3>1. rec' = p /\ accepted' = accepted /\ now' = now
      BY <2>5 DEF Reject, p
    <3> QED  BY <2>3, <3>1 DEF LimitInv, Recent, OneArrival
  <2>6. CASE Tick
    <3>1. rec' = rec /\ accepted' = accepted /\ now' = now + 1
      BY <2>6 DEF Tick
    <3>2. rec.last_reap <= now + 1
      BY <2>1 DEF LimitInv
    <3> QED  BY <3>1, <3>2 DEF LimitInv, Recent, OneArrival
  <2>7. CASE UNCHANGED vars
    BY <2>7 DEF vars, LimitInv, Recent, OneArrival
  <2> QED  BY <2>4, <2>5, <2>6, <2>7 DEF Next
<1> QED  BY <1>1, <1>2, Invariance, PTL DEF Spec

-----------------------------------------------------------------------------
(***************************************************************************)
(* The results.                                                            *)
(***************************************************************************)

\* struct packet_id_rec and its list keep their types: no index, size or
\* number leaves its range.
THEOREM TypeCorrect == Spec => []TypeOK
<1>1. IInv => TypeOK
  BY DEF IInv
<1> QED  BY <1>1, Invariance, PTL

\* No packet id is accepted more than once, in either mode, for every window
\* size, time limit and order of arrival.
THEOREM NoReplay == Spec => []AcceptedOnce
<1>1. IInv => AcceptedOnce
  <2> SUFFICES ASSUME IInv, NEW a \in accepted
               PROVE  ~ packet_id_test(packet_id_reap_test(rec), a)
    BY DEF AcceptedOnce
  <2>1. /\ packet_id_reap_test(rec) \in Rec
        /\ RecInv(packet_id_reap_test(rec), accepted)
        /\ accepted \in SUBSET AcceptedSet
    BY ReapEffect, ReapPreserves, PacketIdAssumption
       DEF IInv, TypeOK, AcceptedSet, SEQ_EXPIRED
  <2> QED  BY <2>1, AcceptedIsRefused
<1> QED  BY <1>1, Invariance, PTL

\* The items of the list stay aligned with the numbers they stand for.
THEOREM WindowAligned == Spec => []MarksAreTrue
<1>1. IInv => MarksAreTrue
  <2>1. CASE SeqBacktrack = 0
    <3>1. ASSUME IInv PROVE 0 .. rec.size - 1 = {}
      BY <2>1, <3>1 DEF IInv, RecInv
    <3> QED  BY <3>1 DEF MarksAreTrue
  <2>2. CASE SeqBacktrack # 0
    BY <2>2 DEF IInv, RecInv, WindowInv, Truthful, MarksAreTrue
  <2> QED  BY <2>1, <2>2
<1> QED  BY <1>1, Invariance, PTL

\* The break in the loop of packet_id_reap skips no item that has to expire.
THEOREM ReapBreakSound == Spec => []ExpiredSuffix
<1>1. IInv => ExpiredSuffix
  <2>1. CASE SeqBacktrack = 0
    <3>1. ASSUME IInv PROVE 0 .. rec.size - 1 = {}
      BY <2>1, <3>1 DEF IInv, RecInv
    <3> QED  BY <3>1 DEF ExpiredSuffix
  <2>2. CASE SeqBacktrack # 0
    BY <2>2 DEF IInv, RecInv, WindowInv, Suffix, ExpiredSuffix
  <2> QED  BY <2>1, <2>2
<1> QED  BY <1>1, Invariance, PTL

\* The window never gets shorter than configured.
THEOREM WindowKeepsWidth == Spec => []WindowFull
<1>1. IInv => WindowFull
  BY DEF IInv, RecInv, WindowInv, Full, WindowFull
<1> QED  BY <1>1, Invariance, PTL

\* Without a window (TCP) the numbers accepted under a time stamp increase
\* without gaps.
THEOREM SequentialHasNoGap == Spec => []NoGap
<1>1. SeqInv => NoGap
  BY DEF SeqInv, NoGap
<1> QED  BY <1>1, SequentialInvariance, PTL

\* A packet that arrives late is let through only for the time limit and one
\* reap interval after any later one (BacktrackBounded).
THEOREM LatenessIsBounded == Spec => []BacktrackBounded
<1>1. IInv /\ LimitInv => BacktrackBounded
  <2> DEFINE p == packet_id_reap_test(rec)
  <2> SUFFICES ASSUME IInv, LimitInv, TimeBacktrack # 0, SeqBacktrack # 0,
                      NEW a \in accepted,
                      NEW pin \in [time : {a.time}, id : 0 .. a.id - 1],
                      packet_id_test(p, pin)
               PROVE  a.at + TimeBacktrack + ReapInterval > now
    BY DEF BacktrackBounded
  <2>1. /\ rec \in Rec /\ accepted \in SUBSET AcceptedSet
        /\ now \in Nat /\ now > SEQ_EXPIRED
    BY PacketIdAssumption DEF IInv, TypeOK, AcceptedSet, SEQ_EXPIRED
  <2>2. p \in Rec /\ RecInv(p, accepted)
    BY <2>1, ReapEffect, ReapPreserves DEF IInv
  <2>3. now < p.last_reap + ReapInterval /\ Recent(p)
    BY ReapKeepsRecent
  <2> HIDE DEF p
  <2>4. /\ a.time \in Nat /\ a.id \in Nat \ {0} /\ a.at \in Nat
        /\ pin.time = a.time /\ pin.id \in Nat \ {0} /\ pin.id < a.id
        /\ p.time \in Nat /\ p.id \in Nat /\ p.size \in Nat /\ p.last_reap \in Nat
    BY <2>1, <2>2 DEF Rec, AcceptedSet, packet_id_test
  <2>5. a.time < p.time \/ (a.time = p.time /\ a.id <= p.id)
    BY <2>2 DEF RecInv, Ordered
  <2>6. a.time = p.time /\ a.id <= p.id /\ InWindow(p, pin)
    BY <2>4, <2>5 DEF packet_id_test, TestBacktrack
  <2> DEFINE j == p.id - a.id
             k == p.id - pin.id
  <2>7. /\ j \in 0 .. p.size - 1 /\ k \in 0 .. p.size - 1 /\ j < k
        /\ p.item[k] = SEQ_UNSEEN
    BY <2>4, <2>6 DEF InWindow
  <2>8. p.item[j] \in Nat
    <3>1. p.size <= SeqBacktrack /\ p.item \in [Index -> Nat]
      BY <2>2, PacketIdAssumption DEF Rec
    <3>2. j \in Index
      BY <2>4, <2>7, <3>1, PacketIdAssumption DEF Index
    <3> QED  BY <3>1, <3>2
  <2>9. p.item[j] # SEQ_UNSEEN
    <3>1. Marked(p, accepted)
      BY <2>2 DEF RecInv, WindowInv
    <3>2. a.time = p.time /\ p.id - a.id < p.size
      BY <2>4, <2>6, <2>7
    <3> QED  BY <3>1, <3>2 DEF Marked
  <2>10. p.item[j] # SEQ_EXPIRED
    BY <2>2, <2>7 DEF RecInv, WindowInv, Suffix, SEQ_UNSEEN, SEQ_EXPIRED
  <2>11. p.item[j] > SEQ_EXPIRED
    BY <2>8, <2>9, <2>10 DEF SEQ_UNSEEN, SEQ_EXPIRED
  <2>12. [time |-> p.time, id |-> p.id - j, at |-> p.item[j]] \in accepted
    BY <2>2, <2>7, <2>11 DEF RecInv, WindowInv, Truthful
  <2>13. a.at = p.item[j]
    BY <2>4, <2>6, <2>12 DEF LimitInv, OneArrival
  <2>14. p.item[j] + TimeBacktrack >= p.last_reap
    BY <2>3, <2>7, <2>11 DEF Recent
  <2> QED  BY <2>1, <2>3, <2>4, <2>13, <2>14, PacketIdAssumption
<1> QED  BY <1>1, Invariance, LimitInvariance, PTL

-----------------------------------------------------------------------------
(***************************************************************************)
(* PacketIdPersist: the receiver across restarts.                          *)
(***************************************************************************)

PacketIdImage == [time : 0 .. MaxStamp, id : 0 .. MaxId]

PersistTypeOK ==
    /\ TypeOK
    /\ file \in PacketIdImage
    /\ persist \in [time : 0 .. MaxStamp, id : 0 .. MaxId, written : PacketIdImage]

\* A packet id with a time of 0 is that of a structure nothing was put into.
EmptyAtZero(p) == p.time = 0 => p.id = 0

\* The receiver and the structure in memory hold the same packet id, the file
\* an earlier one; and as long as the file could be written, nothing later was
\* accepted.
PersistInv ==
    /\ PersistTypeOK
    /\ rec.time = persist.time /\ rec.id = persist.id
    /\ EmptyAtZero(persist) /\ EmptyAtZero(file)
    /\ NotAfter(file, persist)
    /\ persist.written = file
    /\ clean => Ordered(rec, accepted)

-----------------------------------------------------------------------------
(***************************************************************************)
(* What the operations do to the highest packet id.                        *)
(***************************************************************************)

\* An accepted packet never moves the receiver back, and leaves it at or
\* beyond its own number.
LEMMA AddAdvances ==
    ASSUME NEW p \in Rec, NEW pin \in PacketIdNet,
           now \in Nat, now > SEQ_EXPIRED, packet_id_test(p, pin)
    PROVE  LET q == packet_id_add(p, pin) IN
           /\ q \in Rec
           /\ NotAfter(p, q)
           /\ q.time = pin.time /\ pin.id <= q.id
<1> DEFINE q == packet_id_add(p, pin)
<1>1. CASE SeqBacktrack = 0
  <2>1. q = [p EXCEPT !.time = pin.time, !.id = pin.id]
    BY <1>1 DEF packet_id_add
  <2>2. q \in Rec /\ q.time = pin.time /\ q.id = pin.id
    BY <2>1 DEF Rec, PacketIdNet
  <2>3. pin.id # 0 /\ TestSequential(p, pin)
    BY <1>1 DEF packet_id_test
  <2> QED  BY <2>2, <2>3 DEF TestSequential, NotAfter, Rec, PacketIdNet
<1>2. CASE SeqBacktrack # 0 /\ StartsNewList(p, pin)
  <2>1. q \in Rec /\ q.time = pin.time /\ q.id = pin.id
    BY <1>2, AddNewListEffect
  <2>2. TestBacktrack(p, pin)
    BY <1>2 DEF packet_id_test
  <2>3. pin.time > p.time \/ (pin.time = p.time /\ p.id <= pin.id)
    <3>1. CASE p.size = 0
      BY <2>2, <3>1 DEF TestBacktrack, InWindow, Rec, PacketIdNet
    <3>2. CASE pin.time > p.time
      BY <3>2
    <3>3. CASE pin.id >= SeqBacktrack /\ pin.id - SeqBacktrack > p.id
      BY <2>2, <3>3, PacketIdAssumption DEF TestBacktrack, Rec, PacketIdNet
    <3> QED  BY <1>2, <3>1, <3>2, <3>3 DEF StartsNewList
  <2> QED  BY <2>1, <2>3 DEF NotAfter, Rec, PacketIdNet
<1>3. CASE SeqBacktrack # 0 /\ ~ StartsNewList(p, pin)
  <2>1. /\ q \in Rec /\ pin.time = p.time /\ q.time = p.time
        /\ q.id = p.id + (IF p.id < pin.id THEN pin.id - p.id ELSE 0)
    BY <1>3, AddSameListEffect
  <2> QED  BY <2>1 DEF NotAfter, Rec, PacketIdNet
<1> QED  BY <1>1, <1>2, <1>3

\* A session that starts has the packet id it was given, and no list.
LEMMA LoadedEffect ==
    ASSUME NEW p, p.time \in 0 .. MaxStamp, p.id \in 0 .. MaxId, EmptyAtZero(p)
    PROVE  LET r == Loaded(p) IN
           r \in Rec /\ r.time = p.time /\ r.id = p.id /\ r.size = 0
<1>1. NoItems \in [Index -> Nat]
  BY DEF NoItems, SEQ_UNSEEN
<1>2. packet_id_init \in Rec
  BY <1>1, PacketIdAssumption DEF packet_id_init, Rec
<1> QED  BY <1>1, <1>2, PacketIdAssumption
         DEF Loaded, packet_id_init, Rec, EmptyAtZero

\* Whoever is not behind the structure has the accepted packets below it.
LEMMA OrderedGrows ==
    ASSUME NEW p \in Rec, NEW q \in Rec, NEW acc \in SUBSET AcceptedSet,
           Ordered(p, acc), NotAfter(p, q)
    PROVE  Ordered(q, acc)
  BY DEF Ordered, NotAfter, Rec, AcceptedSet

-----------------------------------------------------------------------------
(***************************************************************************)
(* The inductive invariant.                                                *)
(***************************************************************************)

LEMMA PersistInitEstablishes == PersistInit => PersistInv
<1> SUFFICES ASSUME PersistInit PROVE PersistInv
  OBVIOUS
<1>1. NoItems \in [Index -> Nat]
  BY DEF NoItems, SEQ_UNSEEN
<1>2. rec \in Rec /\ rec.time = 0 /\ rec.id = 0
  BY <1>1, PacketIdAssumption DEF PersistInit, packet_id_init, Rec
<1>3. Nothing \in PacketIdImage /\ Nothing.time = 0 /\ Nothing.id = 0
  BY PacketIdAssumption DEF Nothing, PacketIdImage
<1>4. PersistTypeOK
  BY <1>2, <1>3, PacketIdAssumption
     DEF PersistInit, PersistTypeOK, TypeOK, PacketIdImage
<1>5. accepted = {} /\ file = Nothing /\ persist.time = 0 /\ persist.id = 0
      /\ persist.written = file
  BY <1>3 DEF PersistInit
<1> QED  BY <1>2, <1>3, <1>4, <1>5
         DEF PersistInv, EmptyAtZero, NotAfter, Ordered

\* A packet: an accepted one moves the receiver and the structure together.
LEMMA ReceivePreserves == PersistInv /\ Receive => PersistInv'
<1> SUFFICES ASSUME PersistInv, Receive PROVE PersistInv'
  OBVIOUS
<1> DEFINE p == packet_id_reap_test(rec)
<1>1. /\ rec \in Rec /\ accepted \in SUBSET AcceptedSet
      /\ now \in Nat /\ now >= StartTime /\ now > SEQ_EXPIRED
      /\ file \in PacketIdImage
  BY PacketIdAssumption
     DEF PersistInv, PersistTypeOK, TypeOK, AcceptedSet, SEQ_EXPIRED
<1>2. p \in Rec /\ p.time = rec.time /\ p.id = rec.id
  BY <1>1, ReapEffect
<1>3. PICK pin \in [time : 1 .. MaxStamp, id : 0 .. MaxId] :
        \/ Accept(pin) /\ persist' = SavedObj(persist, rec')
        \/ Reject(pin) /\ UNCHANGED persist
  BY DEF Receive
<1>4. file' = file /\ clean' = clean /\ pin \in PacketIdNet /\ pin.time # 0
  BY PacketIdAssumption DEF Receive, PacketIdNet
<1> HIDE DEF p
<1>5. CASE Accept(pin) /\ persist' = SavedObj(persist, rec')
  <2>1. /\ packet_id_test(p, pin) /\ rec' = packet_id_add(p, pin)
        /\ accepted' = accepted \cup {Accepting(pin)} /\ now' = now
    BY <1>5 DEF Accept, Accepting, p
  <2>2. /\ rec' \in Rec /\ NotAfter(p, rec')
        /\ rec'.time = pin.time /\ pin.id <= rec'.id
    BY <1>1, <1>2, <1>4, <2>1, AddAdvances
  <2>3. Accepting(pin) \in AcceptedSet
    BY <1>1, <1>4, <2>1 DEF Accepting, AcceptedSet, PacketIdNet, packet_id_test
  <2>4. persist' = [persist EXCEPT !.time = rec'.time, !.id = rec'.id]
    BY <1>4, <1>5, <2>2 DEF SavedObj
  <2>5. /\ persist' \in [time : 0 .. MaxStamp, id : 0 .. MaxId, written : PacketIdImage]
        /\ persist'.time = rec'.time /\ persist'.id = rec'.id
        /\ persist'.written = persist.written
    BY <2>2, <2>4 DEF PersistInv, PersistTypeOK, Rec
  <2>6. PersistTypeOK'
    BY <1>1, <1>4, <2>1, <2>2, <2>3, <2>5 DEF PersistTypeOK, TypeOK, AcceptedSet
  <2>7. NotAfter(file', persist')
    BY <1>1, <1>2, <1>4, <2>2, <2>5
       DEF PersistInv, PersistTypeOK, NotAfter, Rec, PacketIdImage
  <2>8. clean' => Ordered(rec', accepted')
    <3>1. SUFFICES ASSUME clean PROVE Ordered(rec', accepted')
      BY <1>4
    <3>2. Ordered(p, accepted)
      BY <1>2, <3>1 DEF PersistInv, Ordered
    <3>3. Ordered(rec', accepted)
      BY <1>1, <1>2, <2>2, <3>2, OrderedGrows
    <3>4. Accepting(pin).time = rec'.time /\ Accepting(pin).id <= rec'.id
      BY <2>2 DEF Accepting
    <3> QED  BY <2>1, <3>3, <3>4 DEF Ordered
  <2> QED  BY <1>4, <2>2, <2>5, <2>6, <2>7, <2>8
           DEF PersistInv, EmptyAtZero
<1>6. CASE Reject(pin) /\ UNCHANGED persist
  <2>1. rec' = p /\ accepted' = accepted /\ now' = now /\ persist' = persist
    BY <1>6 DEF Reject, p
  <2> QED  BY <1>1, <1>2, <1>4, <2>1
           DEF PersistInv, PersistTypeOK, TypeOK, EmptyAtZero, NotAfter, Ordered
<1> QED  BY <1>3, <1>5, <1>6

LEMMA PersistNextPreserves == PersistInv /\ [PersistNext]_persistVars => PersistInv'
<1> SUFFICES ASSUME PersistInv, [PersistNext]_persistVars PROVE PersistInv'
  OBVIOUS
<1>1. /\ rec \in Rec /\ now \in Nat /\ accepted \in SUBSET AcceptedSet
      /\ file \in PacketIdImage
      /\ persist \in [time : 0 .. MaxStamp, id : 0 .. MaxId, written : PacketIdImage]
  BY DEF PersistInv, PersistTypeOK, TypeOK, AcceptedSet
<1>2. /\ Written \in PacketIdImage /\ Written.time = persist.time
      /\ Written.id = persist.id
  BY <1>1 DEF Written, PacketIdImage
<1>3. /\ [persist EXCEPT !.written = Written] \in
            [time : 0 .. MaxStamp, id : 0 .. MaxId, written : PacketIdImage]
      /\ [persist EXCEPT !.written = Written].time = persist.time
      /\ [persist EXCEPT !.written = Written].id = persist.id
      /\ [persist EXCEPT !.written = Written].written = Written
  BY <1>1, <1>2
<1>4. NotAfter(Written, persist)
  BY <1>1, <1>2 DEF NotAfter
<1>5. CASE Receive
  BY <1>5, ReceivePreserves
<1>6. CASE Tick /\ UNCHANGED <<persist, file, clean>>
  <2>1. /\ rec' = rec /\ accepted' = accepted /\ now' = now + 1
        /\ persist' = persist /\ file' = file /\ clean' = clean
    BY <1>6 DEF Tick
  <2>2. now' \in Nat /\ now' >= StartTime
    BY <1>1, <2>1, PacketIdAssumption DEF PersistInv, PersistTypeOK, TypeOK
  <2> QED  BY <1>1, <2>1, <2>2
           DEF PersistInv, PersistTypeOK, TypeOK, EmptyAtZero, NotAfter, Ordered
<1>7. CASE Flush
  BY <1>1, <1>2, <1>3, <1>4, <1>7
     DEF Flush, PersistInv, PersistTypeOK, TypeOK, EmptyAtZero, NotAfter, Ordered
<1>8. CASE SoftRestart
  <2>1. rec' \in Rec /\ rec'.time = persist.time /\ rec'.id = persist.id
    BY <1>1, <1>8, LoadedEffect DEF SoftRestart, PersistInv
  <2>2. CASE Unsaved /\ file' = Written
              /\ persist' = [persist EXCEPT !.written = Written]
    BY <1>1, <1>2, <1>3, <1>4, <1>8, <2>1, <2>2
       DEF SoftRestart, PersistInv, PersistTypeOK, TypeOK, EmptyAtZero, NotAfter, Ordered
  <2>3. CASE file' = file /\ persist' = persist
    BY <1>1, <1>8, <2>1, <2>3
       DEF SoftRestart, PersistInv, PersistTypeOK, TypeOK, EmptyAtZero, NotAfter, Ordered
  <2> QED  BY <1>8, <2>2, <2>3 DEF SoftRestart
<1>9. CASE HardRestart
  <2> DEFINE f == IF Unsaved THEN Written ELSE file
  <2>1. /\ file' = f /\ persist' = [time |-> f.time, id |-> f.id, written |-> f]
        /\ rec' = Loaded(f) /\ now' = now /\ accepted' = accepted /\ clean' = clean
    BY <1>9 DEF HardRestart
  <2>2. f \in PacketIdImage /\ f.time = persist.time /\ f.id = persist.id
    BY <1>1, <1>2 DEF PersistInv, Unsaved, Written, NotAfter, EmptyAtZero, PacketIdImage
  <2> HIDE DEF f
  <2>3. EmptyAtZero(f)
    BY <2>2 DEF PersistInv, EmptyAtZero
  <2>4. rec' \in Rec /\ rec'.time = f.time /\ rec'.id = f.id
    BY <2>1, <2>2, <2>3, LoadedEffect DEF PacketIdImage
  <2>5. /\ persist' \in [time : 0 .. MaxStamp, id : 0 .. MaxId, written : PacketIdImage]
        /\ persist'.time = f.time /\ persist'.id = f.id /\ persist'.written = file'
    BY <2>1, <2>2 DEF PacketIdImage
  <2> QED  BY <1>1, <2>1, <2>2, <2>3, <2>4, <2>5
           DEF PersistInv, PersistTypeOK, TypeOK, EmptyAtZero, NotAfter, Ordered, PacketIdImage
<1>10. CASE CrashRestart
  <2>1. /\ file' = file /\ now' = now /\ accepted' = accepted /\ clean' = FALSE
        /\ persist' = [time |-> file.time, id |-> file.id, written |-> file]
        /\ rec' = Loaded(file)
    BY <1>10 DEF CrashRestart, packet_id_persist_load
  <2>2. rec' \in Rec /\ rec'.time = file.time /\ rec'.id = file.id
    BY <1>1, <2>1, LoadedEffect DEF PersistInv, PacketIdImage
  <2>3. /\ persist' \in [time : 0 .. MaxStamp, id : 0 .. MaxId, written : PacketIdImage]
        /\ persist'.time = file.time /\ persist'.id = file.id /\ persist'.written = file'
    BY <1>1, <2>1 DEF PacketIdImage
  <2> QED  BY <1>1, <2>1, <2>2, <2>3
           DEF PersistInv, PersistTypeOK, TypeOK, EmptyAtZero, NotAfter, PacketIdImage
<1>11. CASE UNCHANGED persistVars
  BY <1>11 DEF persistVars, PersistInv, PersistTypeOK, TypeOK, EmptyAtZero,
               NotAfter, Ordered
<1> QED  BY <1>5, <1>6, <1>7, <1>8, <1>9, <1>10, <1>11 DEF PersistNext

THEOREM PersistInvariance == PersistSpec => []PersistInv
  BY PersistInitEstablishes, PersistNextPreserves, PTL DEF PersistSpec

-----------------------------------------------------------------------------
(***************************************************************************)
(* The properties.                                                         *)
(***************************************************************************)

\* The file is behind the structure in memory, which is what the receiver
\* has, through every packet, flush, restart and crash (CopiesOrdered).
THEOREM CopiesStayOrdered == PersistSpec => []CopiesOrdered
<1>1. PersistInv => CopiesOrdered
  BY DEF PersistInv, PersistTypeOK, TypeOK, CopiesOrdered, NotAfter, Rec
<1> QED  BY <1>1, PersistInvariance, PTL

\* A write is skipped only if the file holds the packet id (WrittenIsFile).
THEOREM WrittenStaysFile == PersistSpec => []WrittenIsFile
<1>1. PersistInv => WrittenIsFile
  BY DEF PersistInv, WrittenIsFile
<1> QED  BY <1>1, PersistInvariance, PTL

\* After a restart, and before it accepts anything, a session refuses all that
\* was accepted, unless a crash or a failed write kept it from the file
\* (FreshSessionRefuses).
THEOREM FreshSessionsRefuse == PersistSpec => []FreshSessionRefuses
<1>1. PersistInv => FreshSessionRefuses
  <2> SUFFICES ASSUME PersistInv, clean, rec.size = 0, NEW a \in accepted
               PROVE  ~ packet_id_test(rec, a)
    BY DEF FreshSessionRefuses
  <2>1. rec \in Rec /\ a \in AcceptedSet
    BY DEF PersistInv, PersistTypeOK, TypeOK, AcceptedSet
  <2>2. a.time < rec.time \/ (a.time = rec.time /\ a.id <= rec.id)
    BY DEF PersistInv, Ordered
  <2>3. ~ TestBacktrack(rec, a)
    BY <2>1, <2>2 DEF TestBacktrack, InWindow, Rec, AcceptedSet
  <2>4. ~ TestSequential(rec, a)
    BY <2>1, <2>2 DEF TestSequential, Rec, AcceptedSet
  <2> QED  BY <2>3, <2>4 DEF packet_id_test
<1> QED  BY <1>1, PersistInvariance, PTL

\* The file never goes back to an older packet id (FileAdvances).
THEOREM FileNeverGoesBack == PersistSpec => FileAdvances
<1>1. PersistInv /\ [PersistNext]_persistVars => [NotAfter(file, file')]_persistVars
  <2> SUFFICES ASSUME PersistInv, [PersistNext]_persistVars
               PROVE  NotAfter(file, file')
    OBVIOUS
  <2>1. /\ file \in PacketIdImage /\ NotAfter(file, persist)
        /\ Written.time = persist.time /\ Written.id = persist.id
    BY DEF PersistInv, PersistTypeOK, Written
  <2>2. NotAfter(file, file) /\ NotAfter(file, Written)
    BY <2>1 DEF NotAfter, PacketIdImage
  <2>3. file' = file \/ file' = Written
    BY DEF PersistNext, persistVars, Receive, Flush, SoftRestart, HardRestart,
           CrashRestart
  <2> QED  BY <2>2, <2>3
<1> QED  BY <1>1, PersistInvariance, PTL DEF PersistSpec, FileAdvances

-----------------------------------------------------------------------------
(***************************************************************************)
(* PacketIdSend: no packet id is sent twice, and the receiver accepts what *)
(* arrives in order.                                                       *)
(***************************************************************************)

Numbered == [time : 0 .. MaxStamp, id : 1 .. MaxId]

\* A packet id was given out before another one.
Earlier(a, b) == a.time < b.time \/ (a.time = b.time /\ a.id < b.id)

\* A packet id was given out right before another one.
Precedes(a, b) ==
    \/ a.time = b.time /\ b.id = a.id + 1
    \/ a.time < b.time /\ b.id = 1

\* The sender: its struct, and what it has sent, in order.
SenderInv ==
    /\ clock \in 1 .. MaxStamp
    /\ log \in Seq(Numbered)
    /\ \A j \in 1 .. Len(log) : \A i \in 1 .. j - 1 : Earlier(log[i], log[j])
    /\ \A i \in 1 .. Len(log) - 1 : Precedes(log[i], log[i + 1])
    /\ log = << >> => send = [time |-> 0, id |-> 0]
    /\ log # << >> => /\ send \in [time : 1 .. clock, id : 1 .. MaxId]
                      /\ log[Len(log)] = OnWire(send)
                      /\ log[1].id = 1

\* The receiver: the last packet that it accepted, and without losses that is
\* the last one that arrived.
ReceiverInv ==
    /\ rec \in Rec
    /\ now \in Nat /\ now > SEQ_EXPIRED
    /\ got \in 0 .. Len(log)
    /\ got = 0 => rec.time = 0 /\ rec.id = 0
    /\ \/ rec.time = 0 /\ rec.id = 0
       \/ \E i \in 1 .. got : rec.time = log[i].time /\ rec.id = log[i].id
    /\ SeqBacktrack = 0 /\ got # 0 =>
         rec.time = log[got].time /\ rec.id = log[got].id

SendIInv == SenderInv /\ ReceiverInv

-----------------------------------------------------------------------------
(* The sender.                                                             *)

\* What packet_id_alloc_outgoing gives out follows what it gave out before.
LEMMA AllocEffect ==
    ASSUME clock \in 1 .. MaxStamp,
           NEW s \in [time : 1 .. clock, id : 1 .. MaxId],
           s.id = MaxId => clock > s.time,
           s.id < MaxId \/ LongForm
    PROVE  LET t == packet_id_alloc_outgoing(s)
           IN  /\ t \in [time : 1 .. clock, id : 1 .. MaxId]
               /\ OnWire(s) \in Numbered /\ OnWire(t) \in Numbered
               /\ Precedes(OnWire(s), OnWire(t))
  <1>1. /\ MaxId \in Nat \ {0} /\ MaxStamp \in Nat /\ clock \in Nat /\ clock >= 1
        /\ s.time \in 1 .. clock /\ s.id \in 1 .. MaxId /\ s.time # 0
    BY PacketIdAssumption
  <1>2. CASE s.id < MaxId
    <2>1. packet_id_alloc_outgoing(s) = [time |-> s.time, id |-> s.id + 1]
      BY <1>1, <1>2 DEF packet_id_alloc_outgoing
    <2> QED
      BY <1>1, <1>2, <2>1 DEF OnWire, Numbered, Precedes
  <1>3. CASE ~(s.id < MaxId)
    <2>1. /\ packet_id_alloc_outgoing(s) = [time |-> clock, id |-> 1]
          /\ clock > s.time /\ LongForm
      BY <1>1, <1>3 DEF packet_id_alloc_outgoing
    <2> QED
      BY <1>1, <1>3, <2>1 DEF OnWire, Numbered, Precedes
  <1> QED
    BY <1>2, <1>3

\* The first packet id of all.
LEMMA FirstEffect ==
    ASSUME clock \in 1 .. MaxStamp, send = [time |-> 0, id |-> 0]
    PROVE  LET t == packet_id_alloc_outgoing(send)
           IN  /\ t \in [time : 1 .. clock, id : 1 .. MaxId]
               /\ OnWire(t) \in Numbered /\ t.id = 1 /\ OnWire(t).id = 1
  <1>1. packet_id_alloc_outgoing(send) = [time |-> clock, id |-> 1]
    BY PacketIdAssumption DEF packet_id_alloc_outgoing
  <1> QED
    BY <1>1, PacketIdAssumption DEF OnWire, Numbered

\* The order of packet ids is transitive.
LEMMA EarlierThenNext ==
    ASSUME NEW a \in Numbered, NEW b \in Numbered, NEW c \in Numbered,
           a = b \/ Earlier(a, b), Precedes(b, c)
    PROVE  Earlier(a, c)
  <1>1. \A x \in Numbered : x.time \in Nat /\ x.id \in Nat /\ x.id >= 1
    BY PacketIdAssumption DEF Numbered
  <1> QED
    BY <1>1 DEF Earlier, Precedes

\* A packet id is sent after all the others.
LEMMA EncryptKeeps ==
    ASSUME SenderInv, Encrypt
    PROVE  SenderInv' /\ \A i \in 1 .. Len(log) : log'[i] = log[i]
  <1> DEFINE w == OnWire(send')
  <1>1. /\ send' = packet_id_alloc_outgoing(send) /\ clock' = clock
        /\ log' = Append(log, w)
        /\ send.id = MaxId => clock > send.time
        /\ send.id < MaxId \/ LongForm
    BY DEF Encrypt
  <1>2. clock \in 1 .. MaxStamp /\ log \in Seq(Numbered) /\ Len(log) \in Nat
    BY DEF SenderInv
  <1>3. /\ w \in Numbered /\ send' \in [time : 1 .. clock, id : 1 .. MaxId]
        /\ log = << >> => w.id = 1
        /\ log # << >> => Precedes(log[Len(log)], w)
    <2>1. CASE log = << >>
      <3>1. send = [time |-> 0, id |-> 0]
        BY <2>1 DEF SenderInv
      <3> QED
        BY <1>1, <1>2, <2>1, <3>1, FirstEffect
    <2>2. CASE log # << >>
      <3>1. /\ send \in [time : 1 .. clock, id : 1 .. MaxId]
            /\ log[Len(log)] = OnWire(send)
        BY <2>2 DEF SenderInv
      <3> QED
        BY <1>1, <1>2, <2>2, <3>1, AllocEffect
    <2> QED
      BY <2>1, <2>2
  <1> HIDE DEF w
  <1>4. /\ log' \in Seq(Numbered) /\ Len(log') = Len(log) + 1
        /\ \A i \in 1 .. Len(log) : log'[i] = log[i] /\ log[i] \in Numbered
        /\ log'[Len(log) + 1] = w
    BY <1>1, <1>2, <1>3
  <1>5. log # << >> => Len(log) >= 1
    BY <1>2
  <1>6. \A i \in 1 .. Len(log) : Earlier(log[i], w)
    <2> TAKE i \in 1 .. Len(log)
    <2>1. log # << >> /\ Len(log) \in 1 .. Len(log)
      BY <1>2
    <2>2. log[i] = log[Len(log)] \/ Earlier(log[i], log[Len(log)])
      BY <1>2, <2>1 DEF SenderInv
    <2> QED
      BY <1>3, <1>4, <2>1, <2>2, EarlierThenNext
  <1>7. \A j \in 1 .. Len(log') : \A i \in 1 .. j - 1 : Earlier(log'[i], log'[j])
    <2> SUFFICES ASSUME NEW j \in 1 .. Len(log'), NEW i \in 1 .. j - 1
                 PROVE  Earlier(log'[i], log'[j])
      OBVIOUS
    <2>1. CASE j <= Len(log)
      BY <1>2, <1>4, <2>1 DEF SenderInv
    <2>2. CASE j = Len(log) + 1
      BY <1>2, <1>4, <1>6, <2>2
    <2> QED
      BY <1>2, <1>4, <2>1, <2>2
  <1>8. \A i \in 1 .. Len(log') - 1 : Precedes(log'[i], log'[i + 1])
    <2> TAKE i \in 1 .. Len(log') - 1
    <2>1. CASE i < Len(log)
      BY <1>2, <1>4, <2>1 DEF SenderInv
    <2>2. CASE i = Len(log)
      <3>1. log # << >> /\ i \in 1 .. Len(log)
        BY <1>2, <1>4, <2>2
      <3>2. log'[i] = log[Len(log)] /\ log'[i + 1] = w
        BY <1>4, <2>2, <3>1
      <3> QED
        BY <1>3, <3>1, <3>2
    <2>3. i < Len(log) \/ i = Len(log)
      BY <1>2, <1>4
    <2> QED
      BY <2>1, <2>2, <2>3
  <1>9. log' # << >> /\ log'[Len(log')] = w /\ log'[1].id = 1
    <2>1. CASE log = << >>
      <3>1. Len(log) = 0 /\ w.id = 1
        BY <1>3, <2>1
      <3>2. Len(log') = 1 /\ log'[1] = w
        BY <1>4, <3>1
      <3>3. log' # << >>
        BY <3>2
      <3>4. log'[Len(log')] = w
        BY <3>2
      <3>5. log'[1].id = 1
        BY <3>1, <3>2
      <3> QED
        BY <3>3, <3>4, <3>5
    <2>2. CASE log # << >>
      BY <1>2, <1>4, <1>5, <2>2 DEF SenderInv
    <2> QED
      BY <1>2, <1>4, <2>1, <2>2
  <1>10. clock' \in 1 .. MaxStamp /\ send' \in [time : 1 .. clock', id : 1 .. MaxId]
    BY <1>1, <1>2, <1>3
  <1> QED
    BY <1>4, <1>7, <1>8, <1>9, <1>10 DEF SenderInv, w, OnWire

-----------------------------------------------------------------------------
(* The receiver.                                                           *)

\* The next packet is later than what the receiver has, so it is accepted.
LEMMA NextAccepted ==
    ASSUME SendIInv, got < Len(log)
    PROVE  LET p == packet_id_reap_test(rec)
               pin == log[got + 1]
           IN  /\ p \in Rec /\ pin \in PacketIdNet /\ pin.id # 0
               /\ p.time < pin.time \/ (p.time = pin.time /\ p.id < pin.id)
               /\ packet_id_test(p, pin)
  <1> DEFINE p == packet_id_reap_test(rec)
             pin == log[got + 1]
  <1>1. p \in Rec /\ p.time = rec.time /\ p.id = rec.id
    BY ReapEffect DEF SendIInv, ReceiverInv
  <1>2. /\ got \in Nat /\ got + 1 \in 1 .. Len(log) /\ Len(log) \in Nat
        /\ log \in Seq(Numbered) /\ pin \in Numbered
    <2>1. log \in Seq(Numbered) /\ Len(log) \in Nat /\ got \in 0 .. Len(log)
      BY DEF SendIInv, SenderInv, ReceiverInv
    <2>2. got \in Nat /\ got + 1 \in 1 .. Len(log)
      BY <2>1
    <2>3. pin \in Numbered
      BY <2>1, <2>2
    <2> QED
      BY <2>1, <2>2, <2>3
  <1>3. /\ pin \in PacketIdNet /\ pin.time \in Nat /\ pin.id \in Nat /\ pin.id >= 1
        /\ p.time \in Nat /\ p.id \in Nat
    <2> HIDE DEF p, pin
    <2>1. \A x \in Numbered : /\ x \in PacketIdNet /\ x.time \in Nat
                             /\ x.id \in Nat /\ x.id >= 1
      BY PacketIdAssumption DEF Numbered, PacketIdNet
    <2>2. p.time \in Nat /\ p.id \in Nat
      BY <1>1, PacketIdAssumption DEF Rec
    <2> QED
      BY <1>2, <2>1, <2>2
  <1>4. \A i \in 1 .. got : Earlier(log[i], pin)
    BY <1>2 DEF SendIInv, SenderInv
  <1>5. p.time < pin.time \/ (p.time = pin.time /\ p.id < pin.id)
    BY <1>1, <1>3, <1>4 DEF SendIInv, ReceiverInv, Earlier
  <1>6. ASSUME SeqBacktrack = 0 PROVE TestSequential(p, pin)
    <2>1. CASE got = 0
      <3>1. rec.time = 0 /\ rec.id = 0
        BY <2>1 DEF SendIInv, ReceiverInv
      <3>2. pin.id = 1
        BY <1>2, <2>1 DEF SendIInv, SenderInv
      <3> QED
        BY <1>1, <1>3, <3>1, <3>2 DEF TestSequential
    <2>2. CASE got # 0
      <3>1. rec.time = log[got].time /\ rec.id = log[got].id
        BY <1>6, <2>2 DEF SendIInv, ReceiverInv
      <3>2. Precedes(log[got], pin)
        BY <1>2, <2>2 DEF SendIInv, SenderInv
      <3> HIDE DEF p, pin
      <3> QED
        BY <1>1, <1>3, <3>1, <3>2 DEF TestSequential, Precedes
    <2> QED
      BY <2>1, <2>2
  <1> HIDE DEF p, pin
  <1>7. packet_id_test(p, pin)
    BY <1>3, <1>5, <1>6 DEF packet_id_test, TestBacktrack
  <1> QED
    BY <1>1, <1>3, <1>5, <1>7 DEF p, pin

\* A later packet becomes the highest one.
LEMMA LaterIsHighest ==
    ASSUME NEW p \in Rec, NEW pin \in PacketIdNet, packet_id_test(p, pin),
           now \in Nat, now > SEQ_EXPIRED,
           p.time < pin.time \/ (p.time = pin.time /\ p.id < pin.id)
    PROVE  LET q == packet_id_add(p, pin)
           IN  q \in Rec /\ q.time = pin.time /\ q.id = pin.id
  <1>1. CASE SeqBacktrack = 0
    BY <1>1 DEF packet_id_add, Rec, PacketIdNet
  <1>2. CASE SeqBacktrack # 0 /\ StartsNewList(p, pin)
    BY <1>2, AddNewListEffect
  <1>3. CASE SeqBacktrack # 0 /\ ~StartsNewList(p, pin)
    <2> DEFINE q == packet_id_add(p, pin)
    <2>1. /\ q \in Rec /\ pin.time = p.time /\ q.time = p.time
          /\ q.id = p.id + (IF p.id < pin.id THEN pin.id - p.id ELSE 0)
      BY <1>3, AddSameListEffect
    <2> HIDE DEF q
    <2>2. p.id \in Nat /\ pin.id \in Nat /\ p.time \in Nat
      BY DEF Rec, PacketIdNet
    <2>3. q.id = pin.id
      BY <2>1, <2>2
    <2> QED
      BY <2>1, <2>3 DEF q
  <1> QED
    BY <1>1, <1>2, <1>3

\* A packet arrives.
LEMMA ArriveKeeps ==
    ASSUME SendIInv, Arrive
    PROVE  ReceiverInv'
  <1> DEFINE p == packet_id_reap_test(rec)
             pin == log[got + 1]
  <1>1. got < Len(log) /\ got' = got + 1 /\ log' = log
    BY DEF Arrive
  <1>2. /\ p \in Rec /\ pin \in PacketIdNet
        /\ p.time < pin.time \/ (p.time = pin.time /\ p.id < pin.id)
        /\ packet_id_test(p, pin)
    BY <1>1, NextAccepted
  <1>3. rec' = packet_id_add(p, pin) /\ now' = now
    BY <1>2 DEF Arrive, Accept, Reject
  <1> HIDE DEF p, pin
  <1>4. now \in Nat /\ now > SEQ_EXPIRED /\ got \in 0 .. Len(log) /\ Len(log) \in Nat
    BY DEF SendIInv, SenderInv, ReceiverInv
  <1>5. rec' \in Rec /\ rec'.time = pin.time /\ rec'.id = pin.id
    BY <1>2, <1>3, <1>4, LaterIsHighest
  <1>6. /\ got' \in 0 .. Len(log') /\ got' # 0 /\ got' \in 1 .. got'
        /\ rec'.time = log'[got'].time /\ rec'.id = log'[got'].id
    BY <1>1, <1>4, <1>5 DEF pin
  <1> QED
    BY <1>3, <1>4, <1>5, <1>6 DEF ReceiverInv

\* A datagram is lost.
LEMMA LoseKeeps ==
    ASSUME SendIInv, Lose
    PROVE  ReceiverInv'
  <1>1. /\ SeqBacktrack # 0 /\ got < Len(log) /\ got' = got + 1
        /\ log' = log /\ rec' = rec /\ now' = now
    BY DEF Lose, vars
  <1>2. got \in 0 .. Len(log) /\ Len(log) \in Nat
    BY DEF SendIInv, SenderInv, ReceiverInv
  <1>3. got' \in 0 .. Len(log') /\ got' # 0 /\ 1 .. got \subseteq 1 .. got'
    BY <1>1, <1>2
  <1> QED
    BY <1>1, <1>3 DEF SendIInv, ReceiverInv

\* The inductive invariant is one.
LEMMA SendInvariance == SendSpec => []SendIInv
  <1>1. SendInit => SendIInv
    <2> SUFFICES ASSUME SendInit PROVE SendIInv
      OBVIOUS
    <2>1. /\ log = << >> /\ got = 0 /\ Len(log) = 0
          /\ send = [time |-> 0, id |-> 0] /\ clock \in 1 .. MaxStamp
      BY DEF SendInit
    <2>2. rec \in Rec /\ rec.time = 0 /\ rec.id = 0
      BY PacketIdAssumption
         DEF SendInit, Init, packet_id_init, Rec, NoItems, Index, SEQ_UNSEEN
    <2>3. now \in Nat /\ now > SEQ_EXPIRED
      BY PacketIdAssumption DEF SendInit, Init
    <2>4. SenderInv
      <3>1. log \in Seq(Numbered)
        BY <2>1
      <3> QED
        BY <2>1, <3>1 DEF SenderInv
    <2> QED
      BY <2>1, <2>2, <2>3, <2>4 DEF SendIInv, ReceiverInv
  <1>2. SendIInv /\ [SendNext]_<<vars, sendVars>> => SendIInv'
    <2> SUFFICES ASSUME SendIInv, [SendNext]_<<vars, sendVars>> PROVE SendIInv'
      OBVIOUS
    <2>1. CASE Encrypt
      <3>1. SenderInv' /\ \A i \in 1 .. Len(log) : log'[i] = log[i]
        BY <2>1, EncryptKeeps DEF SendIInv
      <3>2. /\ rec' = rec /\ now' = now /\ got' = got
            /\ got \in 0 .. Len(log) /\ Len(log) \in Nat /\ Len(log') = Len(log) + 1
        BY <2>1 DEF Encrypt, vars, SendIInv, SenderInv, ReceiverInv
      <3>3. got' \in 0 .. Len(log') /\ \A i \in 1 .. got : log'[i] = log[i]
        BY <3>1, <3>2
      <3>4. got # 0 => log'[got] = log[got]
        BY <3>2, <3>3
      <3> QED
        BY <3>1, <3>2, <3>3, <3>4 DEF SendIInv, ReceiverInv
    <2>2. CASE WrapAssertion
      BY <2>2 DEF WrapAssertion, vars, SendIInv, SenderInv, ReceiverInv, OnWire
    <2>3. CASE ClockTick
      <3>1. /\ clock' \in clock + 1 .. MaxStamp /\ clock \in 1 .. MaxStamp
            /\ send' = send /\ log' = log /\ got' = got /\ rec' = rec /\ now' = now
        BY <2>3 DEF ClockTick, vars, SendIInv, SenderInv
      <3>2. clock' \in 1 .. MaxStamp /\ 1 .. clock \subseteq 1 .. clock'
        BY <3>1, PacketIdAssumption
      <3>3. \A s \in [time : 1 .. clock, id : 1 .. MaxId] :
               s \in [time : 1 .. clock', id : 1 .. MaxId]
        BY <3>2
      <3>4. SenderInv'
        BY <3>1, <3>2, <3>3 DEF SendIInv, SenderInv, OnWire
      <3> QED
        BY <3>1, <3>4 DEF SendIInv, ReceiverInv
    <2>4. CASE Arrive
      <3>1. SenderInv'
        BY <2>4 DEF Arrive, SendIInv, SenderInv, OnWire
      <3> QED
        BY <2>4, <3>1, ArriveKeeps DEF SendIInv
    <2>5. CASE Lose
      <3>1. SenderInv'
        BY <2>5 DEF Lose, SendIInv, SenderInv, OnWire
      <3> QED
        BY <2>5, <3>1, LoseKeeps DEF SendIInv
    <2>6. CASE Tick /\ UNCHANGED sendVars
      <3>1. /\ rec' = rec /\ now' = now + 1 /\ now' > SEQ_EXPIRED /\ now' \in Nat
            /\ send' = send /\ clock' = clock /\ log' = log /\ got' = got
        BY <2>6 DEF Tick, sendVars, SendIInv, ReceiverInv, SEQ_EXPIRED
      <3> QED
        BY <3>1 DEF SendIInv, SenderInv, ReceiverInv, OnWire
    <2>7. CASE UNCHANGED <<vars, sendVars>>
      BY <2>7 DEF vars, sendVars, SendIInv, SenderInv, ReceiverInv, OnWire
    <2> QED
      BY <2>1, <2>2, <2>3, <2>4, <2>5, <2>6, <2>7 DEF SendNext
  <1> QED
    BY <1>1, <1>2, PTL DEF SendSpec

-----------------------------------------------------------------------------
(* Theorems.                                                               *)

\* packet_id_alloc_outgoing gives out no packet id twice, in the short form
\* because the ASSERT ends the process, and in the long form because the time
\* has moved on.
THEOREM NoIdTwice == SendSpec => []SentOnce
  <1>1. SendIInv => SentOnce
    <2> SUFFICES ASSUME SendIInv, NEW i \in 1 .. Len(log), NEW j \in 1 .. Len(log),
                        i < j, log[i] = log[j]
                 PROVE  FALSE
      <3>1. Len(log) \in Nat
        BY DEF SendIInv, SenderInv
      <3> QED
        BY <3>1 DEF SentOnce
    <2>1. Earlier(log[i], log[j]) /\ log[j] \in Numbered
      BY DEF SendIInv, SenderInv
    <2> QED
      BY <2>1, PacketIdAssumption DEF Earlier, Numbered
  <1> QED
    BY <1>1, SendInvariance, PTL

\* packet_id_test takes no packet that arrives in order for a replay: on a
\* stream none at all, and with a window none whatever was lost before.
THEOREM InOrderAccepted == SendSpec => []InOrderIsAccepted
  <1>1. SendIInv => InOrderIsAccepted
    BY NextAccepted DEF InOrderIsAccepted
  <1> QED
    BY <1>1, SendInvariance, PTL
=============================================================================
