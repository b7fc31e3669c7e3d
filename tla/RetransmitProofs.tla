-------------------------- MODULE RetransmitProofs --------------------------
(***************************************************************************)
(* Theorems about Retransmit: the retries of a send buffer are apart, the  *)
(* doubled timeout is bounded by the age of the packet, the event loop     *)
(* wakes up in time, and the operations are those of Reliable, in which an *)
(* entry only says whether it is due.                                      *)
(***************************************************************************)
EXTENDS Retransmit, FiniteSetTheorems, WellFoundedInduction, TLAPS

-----------------------------------------------------------------------------
(* Least elements.                                                         *)

\* A set of naturals that is not empty has a least element.
LEMMA LeastExists ==
    ASSUME NEW S \in SUBSET Nat, S # {}
    PROVE  \E x \in S : \A y \in S : x <= y
  <1> DEFINE R == OpToRel(<, Nat)
  <1>1. IsWellFoundedOn(R, Nat)
    BY NatLessThanWellFounded
  <1> HIDE DEF R
  <1>2. \E x \in S : \A y \in S : <<y, x>> \notin R
    BY <1>1, WFMin
  <1>3. \A x, y \in S : y < x => <<y, x>> \in R
    BY DEF R, OpToRel
  <1>4. PICK x \in S : \A y \in S : <<y, x>> \notin R
    BY <1>2
  <1>5. ASSUME NEW y \in S PROVE x <= y
    <2>1. ~(y < x)
      BY <1>3, <1>4
    <2>2. x \in Nat /\ y \in Nat
      OBVIOUS
    <2> QED
      BY <2>1, <2>2
  <1> QED
    BY <1>5

\* The same for sets of integers that are bounded below.
LEMMA LeastInteger ==
    ASSUME NEW b \in Int, NEW S \in SUBSET Int, S # {}, \A x \in S : b <= x
    PROVE  \E x \in S : \A y \in S : x <= y
  <1> DEFINE T == {x - b : x \in S}
  <1>1. T \in SUBSET Nat /\ T # {}
    <2>1. \A x \in S : x - b \in Nat
      OBVIOUS
    <2>2. \E x \in S : x - b \in T
      OBVIOUS
    <2> QED
      BY <2>1, <2>2
  <1>2. PICK z \in T : \A u \in T : z <= u
    BY <1>1, LeastExists
  <1>3. PICK x \in S : z = x - b
    OBVIOUS
  <1>4. ASSUME NEW y \in S PROVE x <= y
    <2>1. y - b \in T
      OBVIOUS
    <2>2. x - b <= y - b
      BY <1>2, <1>3, <2>1
    <2> QED
      BY <2>2
  <1> QED
    BY <1>4

-----------------------------------------------------------------------------
(* The state.                                                              *)

TimedEntry ==
    [active : {TRUE}, packet_id : PacketIdType, body : Nat, next_try : Nat,
     timeout : Nat]

TimedReliable ==
    [packet_id : PacketIdType, hold : BOOLEAN, initial_timeout : Nat \ {0},
     array : [1 .. SendSize -> {NoEntry} \cup TimedEntry]]

\* The backoff of an entry: after its first retry was planned, the age it
\* will have then makes up for its timeout.
Aged(i) ==
    /\ since[i] <= now
    /\ rel.array[i].timeout >= rel.initial_timeout
    /\ rel.array[i].timeout <= 2 * (now - since[i] + rel.initial_timeout)
    /\ \/ rel.array[i].timeout = rel.initial_timeout
       \/ since[i] + rel.array[i].timeout
            <= rel.array[i].next_try + rel.initial_timeout

\* The inductive invariant.
IInv ==
    /\ rel \in TimedReliable
    /\ now \in Nat
    /\ since \in [1 .. SendSize -> Nat]
    /\ \A i \in Active(rel) : Aged(i)
    /\ RetriesApart

\* The active entries are those with times.
LEMMA ActiveTimed ==
    ASSUME NEW r \in TimedReliable
    PROVE  /\ Active(r) \subseteq 1 .. SendSize
           /\ DOMAIN r.array = 1 .. SendSize
           /\ \A i \in Active(r) :
                /\ r.array[i] \in TimedEntry
                /\ r.array[i].active = TRUE
                /\ r.array[i].next_try \in Nat
                /\ r.array[i].timeout \in Nat
           /\ \A i \in (1 .. SendSize) \ Active(r) : r.array[i] = NoEntry
           /\ Tries(r) \subseteq Nat
  <1>1. ~NoEntry.active
    BY DEF NoEntry
  <1>2. \A e \in TimedEntry :
           e.active = TRUE /\ e.active /\ e.next_try \in Nat /\ e.timeout \in Nat
    BY DEF TimedEntry
  <1>3. DOMAIN r.array = 1 .. SendSize
        /\ \A i \in 1 .. SendSize : r.array[i] \in {NoEntry} \cup TimedEntry
    BY DEF TimedReliable
  <1>4. \A i \in Active(r) : r.array[i] \in TimedEntry
    BY <1>1, <1>3 DEF Active
  <1> QED
    BY <1>2, <1>3, <1>4 DEF Active, Tries

-----------------------------------------------------------------------------
(* reliable_unique_retry                                                   *)

\* The loop of reliable_unique_retry ends after SendSize rounds at most, at
\* the first time that no other packet has.
THEOREM UniqueRetry ==
    ASSUME NEW r \in TimedReliable, NEW retry \in Nat
    PROVE  LET t == reliable_unique_retry(r, retry)
           IN  /\ t \in retry .. retry + SendSize
               /\ t \notin Tries(r)
               /\ \A u \in retry .. t - 1 : u \in Tries(r)
  <1> DEFINE range == retry .. retry + SendSize
             unused == range \ Tries(r)
  <1>0. SendSize \in Nat
    BY ReliableAssumption
  <1>1. unused # {}
    <2> SUFFICES ASSUME \A t \in range : t \in Tries(r) PROVE FALSE
      OBVIOUS
    <2> DEFINE slot == [t \in range |-> CHOOSE i \in Active(r) : r.array[i].next_try = t]
    <2>1. \A t \in range : slot[t] \in Active(r) /\ r.array[slot[t]].next_try = t
      BY DEF Tries
    <2>2. slot \in [range -> 1 .. SendSize]
      BY <2>1, ActiveTimed
    <2>3. IsFiniteSet(range) /\ Cardinality(range) = SendSize + 1
      BY <1>0, FS_Interval
    <2>4. IsFiniteSet(1 .. SendSize) /\ Cardinality(1 .. SendSize) = SendSize
      BY <1>0, FS_Interval
    <2> HIDE DEF slot, range
    <2>5. \E t, u \in range : t # u /\ slot[t] = slot[u]
      BY <1>0, <2>2, <2>3, <2>4, FS_PigeonHole
    <2> QED
      BY <2>1, <2>5
  <1>2. unused \in SUBSET Nat
    BY <1>0
  <1>3. \E t \in unused : \A u \in unused : t <= u
    BY <1>1, <1>2, LeastExists
  <1> DEFINE t == reliable_unique_retry(r, retry)
  <1>4. t \in unused /\ \A u \in unused : t <= u
    BY <1>3 DEF reliable_unique_retry
  <1>5. ASSUME NEW u \in retry .. t - 1 PROVE u \in Tries(r)
    <2> HIDE DEF t
    <2>1. u \in range /\ ~(t <= u)
      BY <1>0, <1>4
    <2> QED
      BY <1>4, <2>1
  <1> QED
    BY <1>4, <1>5

-----------------------------------------------------------------------------
(* reliable_send_timeout                                                   *)

\* What the event loop sleeps for is over exactly when the first retry is due.
LEMMA WakeExact ==
    ASSUME NEW r \in TimedReliable, NEW t \in Nat
    PROVE  LET wait == reliable_send_timeout(r, t)
           IN  /\ wait \in Nat
               /\ \A u \in t .. t + wait - 1 : Due(Untimed(r, u)) = {}
               /\ wait < BIG_TIMEOUT => Due(Untimed(r, t + wait)) # {}
  <1> DEFINE waits == {BIG_TIMEOUT} \cup {u - t : u \in Tries(r)}
             least == CHOOSE w \in waits : \A v \in waits : w <= v
             wait == reliable_send_timeout(r, t)
  <1>1. BIG_TIMEOUT \in Nat
    BY DEF BIG_TIMEOUT
  <1>2. Tries(r) \subseteq Nat
    BY ActiveTimed
  <1>3. waits \in SUBSET Int /\ waits # {} /\ \A w \in waits : 0 - t <= w
    BY <1>1, <1>2
  <1>4. \E w \in waits : \A v \in waits : w <= v
    <2> HIDE DEF waits
    <2>1. 0 - t \in Int
      OBVIOUS
    <2> QED
      BY <1>3, <2>1, LeastInteger
  <1>5. least \in waits /\ \A v \in waits : least <= v
    BY <1>4
  <1>6. wait = IF least < 0 THEN 0 ELSE least
    BY DEF reliable_send_timeout
  <1> HIDE DEF least, wait
  <1>7. ASSUME NEW u \in Nat
        PROVE  Due(Untimed(r, u)) = {i \in Active(r) : u >= r.array[i].next_try}
    <2>1. \A i \in Active(r) : r.array[i].active = TRUE
      BY ActiveTimed DEF TimedEntry
    <2> QED
      BY <2>1 DEF Due, Active, Untimed, UntimedEntry, NoEntry
  <1>8. ASSUME NEW i \in Active(r)
        PROVE  /\ r.array[i].next_try \in Nat
               /\ least <= r.array[i].next_try - t
    BY <1>2, <1>5 DEF Tries
  <1>9. wait \in Nat
    BY <1>3, <1>5, <1>6
  <1>10. ASSUME NEW u \in t .. t + wait - 1 PROVE Due(Untimed(r, u)) = {}
    <2>1. u \in Nat /\ u < t + least
      BY <1>3, <1>5, <1>6
    <2>2. least \in Int
      BY <1>3, <1>5
    <2> QED
      BY <1>7, <1>8, <2>1, <2>2
  <1>11. wait < BIG_TIMEOUT => Due(Untimed(r, t + wait)) # {}
    <2> SUFFICES ASSUME wait < BIG_TIMEOUT PROVE Due(Untimed(r, t + wait)) # {}
      OBVIOUS
    <2>1. least # BIG_TIMEOUT
      BY <1>1, <1>6 DEF BIG_TIMEOUT
    <2>2. PICK i \in Active(r) : least = r.array[i].next_try - t
      BY <1>5, <2>1 DEF Tries
    <2>3. t + wait >= r.array[i].next_try /\ t + wait \in Nat
      BY <1>6, <1>8, <1>9, <2>2
    <2> QED
      BY <1>7, <2>3
  <1> QED
    BY <1>9, <1>10, <1>11 DEF wait

-----------------------------------------------------------------------------
(* The invariant.                                                          *)

\* A packet is put into the buffer: it is due at once.
LEMMA ActivateKeeps ==
    ASSUME IInv, NEW i \in 1 .. SendSize, Activate(i)
    PROVE  IInv'
  <1>1. PICK body \in Nat : rel' = TimedMarkActive(rel, i, body)
    BY DEF Activate
  <1> DEFINE e == [active |-> TRUE, packet_id |-> rel.packet_id, body |-> body,
                   next_try |-> 0, timeout |-> rel.initial_timeout]
  <1>2. /\ rel'.array = [rel.array EXCEPT ![i] = e]
        /\ rel'.packet_id = PidAdd(rel.packet_id, 1)
        /\ rel'.hold = rel.hold /\ rel'.initial_timeout = rel.initial_timeout
        /\ rel' = [rel EXCEPT !.array = rel'.array, !.packet_id = rel'.packet_id]
    BY <1>1 DEF TimedMarkActive, IInv, TimedReliable
  <1>3. PidAdd(rel.packet_id, 1) \in PacketIdType
    BY ReliableAssumption DEF IInv, TimedReliable, PidAdd, PacketIdType, PidMod
  <1>4. e \in TimedEntry
    BY DEF IInv, TimedReliable, TimedEntry
  <1>5. rel' \in TimedReliable
    BY <1>2, <1>3, <1>4 DEF IInv, TimedReliable
  <1>6. /\ since' = [since EXCEPT ![i] = now] /\ now' = now
        /\ since' \in [1 .. SendSize -> Nat]
    BY DEF Activate, IInv
  <1>7. Active(rel') = Active(rel) \cup {i}
    <2>1. /\ DOMAIN rel'.array = DOMAIN rel.array /\ i \in DOMAIN rel'.array
          /\ \A j \in DOMAIN rel.array : j # i => rel'.array[j] = rel.array[j]
          /\ rel'.array[i] = e
      BY <1>2 DEF IInv, TimedReliable
    <2>2. e.active
      OBVIOUS
    <2> HIDE DEF e
    <2> QED
      BY <2>1, <2>2 DEF Active
  <1>8. \A j \in Active(rel) \ {i} : rel'.array[j] = rel.array[j] /\ since'[j] = since[j]
    BY <1>2, <1>6, ActiveTimed DEF IInv
  <1>9. rel'.array[i] = e /\ since'[i] = now
    BY <1>2, <1>6 DEF IInv, TimedReliable
  <1>10. \A j \in Active(rel') : Aged(j)'
    <2>1. ASSUME NEW j \in Active(rel) \ {i} PROVE Aged(j)'
      BY <2>1, <1>2, <1>6, <1>8 DEF Aged, IInv
    <2>2. Aged(i)'
      BY <1>2, <1>6, <1>9 DEF Aged, IInv, TimedReliable
    <2> QED
      BY <1>7, <2>1, <2>2
  <1>11. RetriesApart'
    <2>1. ~(rel'.array[i].next_try > now')
      BY <1>6, <1>9 DEF IInv
    <2> QED
      BY <1>6, <1>7, <1>8, <2>1 DEF RetriesApart, IInv
  <1> QED
    BY <1>5, <1>6, <1>10, <1>11 DEF IInv

\* An entry is sent: its next retry is at a second of its own, and its age
\* then makes up for the doubled timeout.
LEMMA SendKeeps ==
    ASSUME IInv, NEW i \in 1 .. SendSize, Send(i)
    PROVE  IInv'
  <1>1. i \in Active(rel) /\ rel.array[i].next_try <= now
    <2>1. i \in Due(Untimed(rel, now))
      BY DEF Send, IsBest
    <2>2. i \in Active(rel) /\ now >= rel.array[i].next_try
      BY <2>1, ActiveTimed DEF IInv, Due, Active, Untimed, UntimedEntry, NoEntry
    <2> QED
      BY <2>2, ActiveTimed DEF IInv, TimedEntry
  <1> DEFINE old == rel.array[i]
             t == reliable_unique_retry(rel, now + old.timeout)
             e == [old EXCEPT !.next_try = t, !.timeout = 2 * old.timeout]
  <1>2. old \in TimedEntry /\ old.timeout \in Nat
    BY <1>1, ActiveTimed DEF IInv, TimedEntry
  <1>3. t \in Nat /\ t >= now + old.timeout /\ t \notin Tries(rel)
    <2>1. now + old.timeout \in Nat /\ SendSize \in Nat
      BY <1>2, ReliableAssumption DEF IInv
    <2>2. t \in (now + old.timeout) .. (now + old.timeout + SendSize) /\ t \notin Tries(rel)
      BY <2>1, UniqueRetry DEF IInv
    <2> HIDE DEF t
    <2> QED
      BY <2>1, <2>2
  <1> HIDE DEF t
  <1>4. e \in TimedEntry /\ e.next_try = t /\ e.timeout = 2 * old.timeout
    <2> HIDE DEF old
    <2>1. 2 * old.timeout \in Nat
      BY <1>2
    <2> QED
      BY <1>2, <1>3, <2>1 DEF TimedEntry
  <1>5. /\ rel' = [rel EXCEPT !.array[i] = e]
        /\ now' = now /\ since' = since
    <2>1. rel' = [rel EXCEPT !.array[i].next_try = t, !.array[i].timeout = 2 * @]
      BY DEF Send, TimedSend, t
    <2>2. rel.array \in [1 .. SendSize -> {NoEntry} \cup TimedEntry]
      BY DEF IInv, TimedReliable
    <2>3. TimedSend(rel, i, now) = [rel EXCEPT !.array = [rel.array EXCEPT ![i] = e]]
      <3>1. TimedSend(rel, i, now)
              = [rel EXCEPT !.array = [rel.array EXCEPT
                                         ![i].next_try = t, ![i].timeout = 2 * @]]
        BY DEF TimedSend, IInv, TimedReliable, t
      <3>2. [rel.array EXCEPT ![i].next_try = t, ![i].timeout = 2 * @]
              = [rel.array EXCEPT ![i] = e]
        BY <1>2, <2>2 DEF TimedEntry
      <3> QED
        BY <3>1, <3>2
    <2> QED
      BY <2>1, <2>3 DEF Send
  <1> HIDE DEF e
  <1>6. /\ rel'.array = [rel.array EXCEPT ![i] = e]
        /\ rel'.initial_timeout = rel.initial_timeout
        /\ rel' \in TimedReliable
    BY <1>4, <1>5 DEF IInv, TimedReliable
  <1>7. Active(rel') = Active(rel)
    BY <1>1, <1>4, <1>6 DEF Active, IInv, TimedReliable, TimedEntry
  <1>8. /\ \A j \in Active(rel) \ {i} : rel'.array[j] = rel.array[j]
        /\ rel'.array[i] = e
    BY <1>6, ActiveTimed DEF IInv, TimedReliable
  <1>9. \A j \in Active(rel') : Aged(j)'
    <2>1. ASSUME NEW j \in Active(rel) \ {i} PROVE Aged(j)'
      BY <2>1, <1>5, <1>6, <1>8 DEF Aged, IInv
    <2>2. Aged(i)'
      <3>1. Aged(i)
        BY <1>1 DEF IInv
      <3>2. /\ rel.initial_timeout \in Nat \ {0} /\ since[i] \in Nat /\ now \in Nat
            /\ old.next_try \in Nat
        BY <1>2 DEF IInv, TimedReliable, TimedEntry
      <3>3. old.timeout <= now - since[i] + rel.initial_timeout
        BY <1>1, <1>2, <3>1, <3>2 DEF Aged
      <3>4. since[i] + 2 * old.timeout <= t + rel.initial_timeout
        BY <1>2, <1>3, <3>2, <3>3
      <3> QED
        BY <1>2, <1>3, <1>4, <1>5, <1>6, <1>8, <3>1, <3>2, <3>3, <3>4 DEF Aged
    <2> QED
      BY <1>7, <2>1, <2>2
  <1>10. RetriesApart'
    <2>1. \A j \in Active(rel) \ {i} : rel'.array[j].next_try # t
      BY <1>3, <1>8 DEF Tries
    <2>2. rel'.array[i].next_try = t
      BY <1>4, <1>8
    <2> QED
      BY <1>5, <1>7, <1>8, <2>1, <2>2 DEF RetriesApart, IInv
  <1> QED
    BY <1>5, <1>6, <1>9, <1>10 DEF IInv

\* Acknowledged entries leave the buffer.
LEMMA PurgeKeeps ==
    ASSUME IInv, NEW pids, Purge(pids)
    PROVE  IInv'
  <1>1. /\ rel' = reliable_send_purge(rel, pids)
        /\ now' = now /\ since' = since
    BY DEF Purge
  <1>2. /\ rel'.array = [i \in DOMAIN rel.array |->
              IF rel.array[i].active /\ rel.array[i].packet_id \in pids
              THEN NoEntry ELSE rel.array[i]]
        /\ rel' = [rel EXCEPT !.array = rel'.array]
        /\ rel'.initial_timeout = rel.initial_timeout
    BY <1>1 DEF reliable_send_purge, IInv, TimedReliable
  <1>3. rel' \in TimedReliable
    <2>1. rel.array \in [1 .. SendSize -> {NoEntry} \cup TimedEntry]
      BY DEF IInv, TimedReliable
    <2>2. rel'.array \in [1 .. SendSize -> {NoEntry} \cup TimedEntry]
      BY <1>2, <2>1
    <2> QED
      BY <1>2, <2>2 DEF IInv, TimedReliable
  <1>4. /\ Active(rel') \subseteq Active(rel)
        /\ \A i \in Active(rel') : rel'.array[i] = rel.array[i]
    BY <1>2 DEF Active, NoEntry
  <1>5. \A i \in Active(rel') : Aged(i)'
    BY <1>1, <1>2, <1>4 DEF Aged, IInv
  <1>6. RetriesApart'
    BY <1>1, <1>4 DEF RetriesApart, IInv
  <1> QED
    BY <1>1, <1>3, <1>5, <1>6 DEF IInv

\* Everything is due now, with the timeout it began with.
LEMMA ScheduleKeeps ==
    ASSUME IInv, Schedule
    PROVE  IInv'
  <1> DEFINE e(i) == [rel.array[i] EXCEPT !.next_try = now,
                                          !.timeout = rel.initial_timeout]
  <1>1. /\ rel'.array = [i \in DOMAIN rel.array |->
              IF rel.array[i].active THEN e(i) ELSE rel.array[i]]
        /\ rel' = [rel EXCEPT !.hold = FALSE, !.array = rel'.array]
        /\ rel'.initial_timeout = rel.initial_timeout
        /\ now' = now
        /\ since' = [i \in 1 .. SendSize |-> now]
    BY DEF Schedule, TimedScheduleNow, IInv, TimedReliable
  <1>2. rel.initial_timeout \in Nat /\ now \in Nat
    BY DEF IInv, TimedReliable
  <1>3. \A i \in Active(rel) :
            /\ e(i) \in TimedEntry
            /\ e(i).next_try = now /\ e(i).timeout = rel.initial_timeout
    <2> TAKE i \in Active(rel)
    <2> DEFINE old == rel.array[i]
    <2>1. old \in TimedEntry
      BY ActiveTimed DEF IInv
    <2> HIDE DEF old
    <2>2. LET f == [old EXCEPT !.next_try = now, !.timeout = rel.initial_timeout]
          IN  f \in TimedEntry /\ f.next_try = now /\ f.timeout = rel.initial_timeout
      BY <1>2, <2>1 DEF TimedEntry
    <2> QED
      BY <2>2 DEF old
  <1> HIDE DEF e
  <1>4. rel' \in TimedReliable
    <2>1. rel.array \in [1 .. SendSize -> {NoEntry} \cup TimedEntry]
      BY DEF IInv, TimedReliable
    <2>2. /\ rel'.array = [i \in 1 .. SendSize |->
                  IF rel.array[i].active THEN e(i) ELSE rel.array[i]]
          /\ \A i \in 1 .. SendSize : rel.array[i].active => e(i) \in TimedEntry
      BY <1>1, <1>3, <2>1 DEF Active
    <2>3. rel'.array \in [1 .. SendSize -> {NoEntry} \cup TimedEntry]
      BY <2>1, <2>2
    <2> QED
      BY <1>1, <2>3 DEF IInv, TimedReliable
  <1>5. Active(rel') \subseteq Active(rel) /\ Active(rel) \subseteq 1 .. SendSize
    <2>1. Active(rel) \subseteq 1 .. SendSize
      BY ActiveTimed DEF IInv
    <2> QED
      BY <1>1, <2>1 DEF Active
  <1>6. \A i \in Active(rel') :
            /\ rel'.array[i].next_try = now
            /\ rel'.array[i].timeout = rel.initial_timeout
    BY <1>1, <1>3, <1>5 DEF Active
  <1>7. \A i \in Active(rel') : Aged(i)'
    <2>1. ASSUME NEW i \in Active(rel') PROVE Aged(i)'
      <3>1. /\ since'[i] = now
            /\ rel'.array[i].timeout = rel'.initial_timeout
            /\ rel'.initial_timeout \in Nat /\ now' = now
        BY <1>1, <1>2, <1>5, <1>6
      <3> QED
        BY <1>2, <3>1 DEF Aged
    <2> QED
      BY <2>1
  <1>8. RetriesApart'
    <2>1. now' = now /\ ~(now > now)
      BY <1>1, <1>2
    <2>2. \A i \in Active(rel') : ~(rel'.array[i].next_try > now')
      BY <1>6, <2>1
    <2> QED
      BY <2>2 DEF RetriesApart
  <1> QED
    BY <1>1, <1>2, <1>4, <1>7, <1>8 DEF IInv

\* Time passes: what waited for a retry still waits, or is due.
LEMMA TickKeeps ==
    ASSUME IInv, Tick
    PROVE  IInv'
  <1>1. /\ rel' = rel /\ since' = since /\ now' \in Nat /\ now < now' /\ now \in Nat
        /\ rel.initial_timeout \in Nat
    BY DEF Tick, IInv, TimedReliable
  <1>2. \A i \in Active(rel) :
            /\ since[i] \in Nat
            /\ rel.array[i].next_try \in Nat /\ rel.array[i].timeout \in Nat
    BY ActiveTimed DEF IInv
  <1>3. \A i \in Active(rel') : Aged(i)'
    <2>1. ASSUME NEW i \in Active(rel) PROVE Aged(i)'
      <3>1. Aged(i)
        BY DEF IInv
      <3> QED
        BY <1>1, <1>2, <3>1 DEF Aged
    <2> QED
      BY <1>1, <2>1
  <1>4. RetriesApart'
    BY <1>1, <1>2 DEF RetriesApart, IInv
  <1> QED
    BY <1>1, <1>3, <1>4 DEF IInv

\* The inductive invariant is one.
LEMMA Invariance == Spec => []IInv
  <1>1. Init => IInv
    <2> SUFFICES ASSUME Init PROVE IInv
      OBVIOUS
    <2>1. PICK timeout \in Nat \ {0}, hold \in BOOLEAN :
            rel = [packet_id |-> 0, hold |-> hold, initial_timeout |-> timeout,
                   array |-> [i \in 1 .. SendSize |-> NoEntry]]
      BY DEF Init
    <2>2. 0 \in PacketIdType
      BY ReliableAssumption DEF PacketIdType, PidMod
    <2>3. rel \in TimedReliable
      BY <2>1, <2>2 DEF TimedReliable
    <2>4. Active(rel) = {}
      BY <2>1 DEF Active, NoEntry
    <2> QED
      BY <2>3, <2>4 DEF Init, IInv, RetriesApart
  <1>2. IInv /\ [Next]_vars => IInv'
    <2> SUFFICES ASSUME IInv, [Next]_vars PROVE IInv'
      OBVIOUS
    <2>1. CASE Next
      BY <2>1, ActivateKeeps, SendKeeps, PurgeKeeps, ScheduleKeeps, TickKeeps DEF Next
    <2>2. CASE UNCHANGED vars
      BY <2>2 DEF vars, IInv, Aged, RetriesApart
    <2> QED
      BY <2>1, <2>2
  <1> QED
    BY <1>1, <1>2, PTL DEF Spec

-----------------------------------------------------------------------------
(* Theorems.                                                               *)

\* No two packets wait for the same second, whenever they were sent, sent
\* again and acknowledged (reliable_unique_retry).
THEOREM RetriesStayApart == Spec => []RetriesApart
  <1>1. IInv => RetriesApart
    BY DEF IInv
  <1> QED
    BY <1>1, Invariance, PTL

\* The doubled timeout (reliable_send) is bounded by the age of its packet: as
\* the handshake window bounds the age, it does not overflow.
THEOREM BackoffBounded == Spec => []TimeoutBounded
  <1>1. IInv => TimeoutBounded
    BY DEF IInv, Aged, TimeoutBounded
  <1> QED
    BY <1>1, Invariance, PTL

\* reliable_send_timeout lets the event loop sleep exactly until a retry is due.
THEOREM WakeUps == Spec => []WakesInTime
  <1>1. IInv => WakesInTime
    BY WakeExact DEF IInv, WakesInTime
  <1> QED
    BY <1>1, Invariance, PTL

-----------------------------------------------------------------------------
(* The struct without times.                                               *)

DueEntry == [active : {TRUE}, packet_id : PacketIdType, body : Nat, due : BOOLEAN]

Struct ==
    [packet_id : PacketIdType, hold : BOOLEAN,
     array : [1 .. SendSize -> {NoEntry} \cup DueEntry]]

\* What an entry with times becomes.
LEMMA EntryEffect ==
    ASSUME NEW e \in TimedEntry, NEW t \in Nat
    PROVE  LET d == UntimedEntry(e, t)
           IN  /\ d \in DueEntry
               /\ d.packet_id = e.packet_id /\ d.body = e.body
               /\ d.due <=> t >= e.next_try
  <1> DEFINE due == t >= e.next_try
  <1>1. UntimedEntry(e, t) = [active |-> TRUE, packet_id |-> e.packet_id,
                              body |-> e.body, due |-> due]
    BY DEF TimedEntry, UntimedEntry
  <1>2. due \in BOOLEAN
    OBVIOUS
  <1>3. e.packet_id \in PacketIdType /\ e.body \in Nat
    BY DEF TimedEntry
  <1> HIDE DEF due
  <1>4. LET d == UntimedEntry(e, t)
        IN  d \in DueEntry /\ d.packet_id = e.packet_id /\ d.body = e.body /\ d.due = due
    BY <1>1, <1>2, <1>3 DEF DueEntry
  <1> QED
    BY <1>4 DEF due

\* An entry is made due, or not due.
LEMMA SetDue ==
    ASSUME NEW d \in DueEntry, NEW b \in BOOLEAN
    PROVE  LET c == [d EXCEPT !.due = b]
           IN  /\ c \in DueEntry
               /\ c.packet_id = d.packet_id /\ c.body = d.body
               /\ c.due = b
    BY DEF DueEntry

\* Two entries with the same fields.
LEMMA SameEntry ==
    ASSUME NEW c \in DueEntry, NEW d \in DueEntry,
           c.packet_id = d.packet_id, c.body = d.body, c.due <=> d.due
    PROVE  c = d
  <1>1. c.due = d.due
    BY DEF DueEntry
  <1>2. ASSUME NEW e \in DueEntry
        PROVE  e = [active |-> TRUE, packet_id |-> e.packet_id, body |-> e.body,
                    due |-> e.due]
    BY DEF DueEntry
  <1>3. c = [active |-> TRUE, packet_id |-> c.packet_id, body |-> c.body, due |-> c.due]
    BY <1>2
  <1>4. d = [active |-> TRUE, packet_id |-> c.packet_id, body |-> c.body, due |-> c.due]
    <2>1. d = [active |-> TRUE, packet_id |-> d.packet_id, body |-> d.body, due |-> d.due]
      BY <1>2
    <2> QED
      BY <1>1, <2>1, Zenon
  <1> QED
    BY <1>3, <1>4, Zenon

\* Two structs with the same fields and entries.
LEMMA SameStruct ==
    ASSUME NEW a \in Struct, NEW b \in Struct,
           a.packet_id = b.packet_id, a.hold = b.hold,
           \A i \in 1 .. SendSize : a.array[i] = b.array[i]
    PROVE  a = b
  <1>1. ASSUME NEW c \in Struct
        PROVE  /\ c = [packet_id |-> c.packet_id, hold |-> c.hold, array |-> c.array]
               /\ c.array = [i \in 1 .. SendSize |-> c.array[i]]
    BY DEF Struct
  <1>2. a.array = b.array
    BY <1>1
  <1> QED
    BY <1>1, <1>2

\* What a struct with times becomes.
LEMMA StructEffect ==
    ASSUME NEW r \in TimedReliable, NEW t \in Nat
    PROVE  LET u == Untimed(r, t)
           IN  /\ u \in Struct
               /\ u.packet_id = r.packet_id /\ u.hold = r.hold
               /\ Active(u) = Active(r) /\ Ids(u) = Ids(r)
               /\ \A i \in Active(r) :
                    /\ u.array[i] = UntimedEntry(r.array[i], t)
                    /\ u.array[i] \in DueEntry
               /\ \A i \in (1 .. SendSize) \ Active(r) : u.array[i] = NoEntry
  <1> DEFINE u == Untimed(r, t)
  <1>1. /\ u.packet_id = r.packet_id /\ u.hold = r.hold
        /\ u.array = [i \in 1 .. SendSize |-> UntimedEntry(r.array[i], t)]
        /\ u = [packet_id |-> r.packet_id, hold |-> r.hold, array |-> u.array]
    BY ActiveTimed DEF Untimed
  <1> HIDE DEF u
  <1>2. \A i \in Active(r) : UntimedEntry(r.array[i], t) \in DueEntry
                             /\ UntimedEntry(r.array[i], t).packet_id = r.array[i].packet_id
    <2> TAKE i \in Active(r)
    <2>1. r.array[i] \in TimedEntry
      BY ActiveTimed
    <2> QED
      BY <2>1, EntryEffect
  <1>3. UntimedEntry(NoEntry, t) = NoEntry
    BY DEF UntimedEntry, NoEntry
  <1>4. \A i \in (1 .. SendSize) \ Active(r) : u.array[i] = NoEntry
    <2> TAKE i \in (1 .. SendSize) \ Active(r)
    <2>1. r.array[i] = NoEntry
      BY ActiveTimed
    <2> QED
      BY <1>1, <1>3, <2>1
  <1>5. \A i \in Active(r) : u.array[i] = UntimedEntry(r.array[i], t)
    BY <1>1, ActiveTimed
  <1>6. u.array \in [1 .. SendSize -> {NoEntry} \cup DueEntry]
    <2>1. \A i \in 1 .. SendSize : u.array[i] \in {NoEntry} \cup DueEntry
      BY <1>2, <1>4, <1>5
    <2> QED
      BY <1>1, <2>1
  <1>7. u \in Struct
    BY <1>1, <1>6 DEF Struct, TimedReliable
  <1>8. Active(u) = Active(r)
    <2>1. \A d \in DueEntry : d.active = TRUE
      BY DEF DueEntry
    <2>2. \A i \in Active(r) : u.array[i].active = TRUE
      BY <1>2, <1>5, <2>1
    <2>3. \A i \in (1 .. SendSize) \ Active(r) : u.array[i].active = FALSE
      BY <1>4 DEF NoEntry
    <2>4. DOMAIN u.array = 1 .. SendSize /\ Active(r) \subseteq 1 .. SendSize
      BY <1>1, ActiveTimed
    <2>5. Active(u) = {i \in 1 .. SendSize : u.array[i].active}
      BY <2>4 DEF Active
    <2> QED
      BY <2>2, <2>3, <2>4, <2>5
  <1>9. Ids(u) = Ids(r)
    BY <1>2, <1>5, <1>8 DEF Ids
  <1> QED
    BY <1>1, <1>2, <1>4, <1>5, <1>7, <1>8, <1>9 DEF u

-----------------------------------------------------------------------------
(* The operations.                                                         *)

\* A packet that is put into the buffer is due at once.
LEMMA MarkActiveMaps ==
    ASSUME NEW r \in TimedReliable, NEW t \in Nat, NEW i \in 1 .. SendSize,
           NEW body \in Nat, TimedMarkActive(r, i, body) \in TimedReliable
    PROVE  Untimed(TimedMarkActive(r, i, body), t)
             = reliable_mark_active_outgoing(Untimed(r, t), i, body)
  <1> DEFINE e == [active |-> TRUE, packet_id |-> r.packet_id, body |-> body,
                   next_try |-> 0, timeout |-> r.initial_timeout]
             d == [active |-> TRUE, packet_id |-> r.packet_id, body |-> body,
                   due |-> TRUE]
             s == TimedMarkActive(r, i, body)
             a == Untimed(s, t)
             old == Untimed(r, t)
             b == reliable_mark_active_outgoing(old, i, body)
  <1>1. /\ old \in Struct /\ old.packet_id = r.packet_id /\ old.hold = r.hold
        /\ a \in Struct /\ a.packet_id = s.packet_id /\ a.hold = s.hold
    BY StructEffect
  <1>2. /\ s.packet_id = PidAdd(r.packet_id, 1) /\ s.hold = r.hold
        /\ s.array = [r.array EXCEPT ![i] = e]
    BY DEF TimedMarkActive, TimedReliable
  <1>3. UntimedEntry(e, t) = d
    <2>1. (t >= 0) = TRUE
      OBVIOUS
    <2> QED
      BY <2>1 DEF UntimedEntry
  <1>4. d \in DueEntry
    BY DEF DueEntry, TimedReliable
  <1> HIDE DEF old, a, d, e, s
  <1>5. s.packet_id \in PacketIdType
    BY DEF TimedReliable, s
  <1>6. /\ b.packet_id = PidAdd(r.packet_id, 1) /\ b.hold = r.hold
        /\ b.array = [old.array EXCEPT ![i] = d]
        /\ b = [old EXCEPT !.array = b.array, !.packet_id = b.packet_id]
    BY <1>1 DEF reliable_mark_active_outgoing, Struct, d
  <1>7. b \in Struct
    BY <1>1, <1>2, <1>4, <1>5, <1>6 DEF Struct
  <1>8. ASSUME NEW j \in 1 .. SendSize
        PROVE  a.array[j] = b.array[j]
    <2>1. old.array[j] = UntimedEntry(r.array[j], t) /\ a.array[j] = UntimedEntry(s.array[j], t)
      BY ActiveTimed DEF old, a, Untimed, s
    <2>2. /\ s.array[j] = IF j = i THEN e ELSE r.array[j]
          /\ b.array[j] = IF j = i THEN d ELSE old.array[j]
      BY <1>1, <1>2, <1>6 DEF Struct, TimedReliable
    <2> QED
      BY <1>3, <2>1, <2>2
  <1> HIDE DEF b
  <1> QED
    BY <1>1, <1>2, <1>6, <1>7, <1>8, SameStruct DEF a, b, old, s

\* An entry that is sent is not due: its next retry lies ahead.
LEMMA SendMaps ==
    ASSUME NEW r \in TimedReliable, NEW t \in Nat, NEW i \in Active(r),
           r.array[i].timeout > 0, TimedSend(r, i, t) \in TimedReliable
    PROVE  Untimed(TimedSend(r, i, t), t) = reliable_send(Untimed(r, t), i)
  <1> DEFINE e == r.array[i]
             u == reliable_unique_retry(r, t + e.timeout)
             f == [e EXCEPT !.next_try = u, !.timeout = 2 * e.timeout]
             s == TimedSend(r, i, t)
             a == Untimed(s, t)
             old == Untimed(r, t)
             b == reliable_send(old, i)
  <1>1. /\ i \in 1 .. SendSize /\ e \in TimedEntry /\ e.timeout \in Nat
        /\ r.array \in [1 .. SendSize -> {NoEntry} \cup TimedEntry]
    BY ActiveTimed DEF TimedReliable
  <1>2. u \in Nat /\ u > t
    <2>1. t + e.timeout \in Nat /\ t + e.timeout > t /\ SendSize \in Nat
      BY <1>1, ReliableAssumption
    <2>2. u \in (t + e.timeout) .. (t + e.timeout + SendSize)
      BY <2>1, UniqueRetry
    <2> HIDE DEF u, e
    <2> QED
      BY <2>1, <2>2
  <1>3. /\ s.packet_id = r.packet_id /\ s.hold = r.hold
        /\ s.array = [r.array EXCEPT ![i] = f]
    <2>1. /\ s.packet_id = r.packet_id /\ s.hold = r.hold
          /\ s.array = [r.array EXCEPT ![i].next_try = u, ![i].timeout = 2 * @]
      BY DEF TimedSend, TimedReliable
    <2> HIDE DEF u, s
    <2>2. [r.array EXCEPT ![i].next_try = u, ![i].timeout = 2 * @]
            = [r.array EXCEPT ![i] = f]
      BY <1>1 DEF TimedEntry
    <2> QED
      BY <2>1, <2>2
  <1>4. /\ f \in TimedEntry /\ f.next_try = u
        /\ f.packet_id = e.packet_id /\ f.body = e.body
    <2> HIDE DEF e, u
    <2>1. 2 * e.timeout \in Nat
      BY <1>1
    <2> QED
      BY <1>1, <1>2, <2>1 DEF TimedEntry
  <1>5. /\ old \in Struct /\ old.packet_id = r.packet_id /\ old.hold = r.hold
        /\ a \in Struct /\ a.packet_id = s.packet_id /\ a.hold = s.hold
    BY StructEffect
  <1>6. old.array[i] = UntimedEntry(e, t) /\ old.array[i] \in DueEntry
    BY StructEffect
  <1> DEFINE c == [old.array[i] EXCEPT !.due = FALSE]
  <1>7. UntimedEntry(f, t) = c
    <2> HIDE DEF e, f, u, old
    <2>1. /\ c \in DueEntry /\ c.due = FALSE
          /\ c.packet_id = old.array[i].packet_id /\ c.body = old.array[i].body
      BY <1>6, SetDue
    <2>2. /\ UntimedEntry(f, t) \in DueEntry
          /\ UntimedEntry(f, t).packet_id = f.packet_id
          /\ UntimedEntry(f, t).body = f.body
          /\ UntimedEntry(f, t).due <=> t >= f.next_try
      BY <1>4, EntryEffect
    <2>3. ~(t >= f.next_try)
      BY <1>2, <1>4
    <2>4. /\ UntimedEntry(e, t).packet_id = e.packet_id
          /\ UntimedEntry(e, t).body = e.body
      BY <1>1, EntryEffect
    <2> HIDE DEF c
    <2> QED
      BY <1>4, <1>6, <2>1, <2>2, <2>3, <2>4, SameEntry
  <1> HIDE DEF e, f, u, s, a, old
  <1>8. /\ b.packet_id = r.packet_id /\ b.hold = r.hold
        /\ b.array = [old.array EXCEPT ![i] = c]
        /\ b = [old EXCEPT !.array = b.array]
    BY <1>1, <1>5 DEF reliable_send, Struct
  <1>9. c \in DueEntry
    BY <1>6, SetDue
  <1> HIDE DEF c
  <1>10. b \in Struct
    BY <1>5, <1>8, <1>9 DEF Struct
  <1>11. ASSUME NEW j \in 1 .. SendSize
         PROVE  a.array[j] = b.array[j]
    <2>1. old.array[j] = UntimedEntry(r.array[j], t) /\ a.array[j] = UntimedEntry(s.array[j], t)
      BY ActiveTimed DEF old, a, Untimed, s
    <2>2. /\ s.array[j] = IF j = i THEN f ELSE r.array[j]
          /\ b.array[j] = IF j = i THEN c ELSE old.array[j]
      BY <1>1, <1>3, <1>5, <1>8 DEF Struct
    <2> QED
      BY <1>7, <2>1, <2>2
  <1> HIDE DEF b
  <1>12. a = b
    BY <1>3, <1>5, <1>8, <1>10, <1>11, SameStruct
  <1> QED
    BY <1>12 DEF a, b, old, s

\* What is acknowledged leaves both buffers.
LEMMA PurgeMaps ==
    ASSUME NEW r \in TimedReliable, NEW t \in Nat, NEW pids,
           reliable_send_purge(r, pids) \in TimedReliable
    PROVE  Untimed(reliable_send_purge(r, pids), t)
             = reliable_send_purge(Untimed(r, t), pids)
  <1> DEFINE s == reliable_send_purge(r, pids)
             a == Untimed(s, t)
             old == Untimed(r, t)
             b == reliable_send_purge(old, pids)
  <1>1. /\ old \in Struct /\ old.packet_id = r.packet_id /\ old.hold = r.hold
        /\ a \in Struct /\ a.packet_id = s.packet_id /\ a.hold = s.hold
        /\ \A i \in Active(r) : old.array[i] \in DueEntry
    BY StructEffect
  <1>2. /\ s.packet_id = r.packet_id /\ s.hold = r.hold
        /\ \A j \in 1 .. SendSize : s.array[j] =
              IF r.array[j].active /\ r.array[j].packet_id \in pids
              THEN NoEntry ELSE r.array[j]
    BY DEF reliable_send_purge, TimedReliable
  <1>3. UntimedEntry(NoEntry, t) = NoEntry
    BY DEF UntimedEntry, NoEntry
  <1>4. ASSUME NEW j \in 1 .. SendSize
        PROVE  /\ old.array[j] = UntimedEntry(r.array[j], t)
               /\ a.array[j] = UntimedEntry(s.array[j], t)
    BY ActiveTimed DEF Untimed
  <1> HIDE DEF old, a, s
  <1>5. /\ b.packet_id = r.packet_id /\ b.hold = r.hold
        /\ b.array = [j \in 1 .. SendSize |->
              IF old.array[j].active /\ old.array[j].packet_id \in pids
              THEN NoEntry ELSE old.array[j]]
        /\ b = [old EXCEPT !.array = b.array]
    BY <1>1 DEF reliable_send_purge, Struct
  <1> HIDE DEF b
  <1>6. b \in Struct
    <2>1. old.array \in [1 .. SendSize -> {NoEntry} \cup DueEntry]
      BY <1>1 DEF Struct
    <2>2. b.array \in [1 .. SendSize -> {NoEntry} \cup DueEntry]
      BY <1>5, <2>1
    <2> QED
      BY <1>1, <1>5, <2>2 DEF Struct
  <1>7. ASSUME NEW j \in 1 .. SendSize
        PROVE  /\ old.array[j].active <=> r.array[j].active
               /\ r.array[j].active => old.array[j].packet_id = r.array[j].packet_id
    <2>1. CASE r.array[j].active
      <3>1. j \in Active(r)
        BY <2>1, ActiveTimed DEF Active
      <3>2. r.array[j] \in TimedEntry
        BY <3>1, ActiveTimed
      <3>3. old.array[j] \in DueEntry /\ old.array[j].packet_id = r.array[j].packet_id
        BY <1>4, <3>2, EntryEffect
      <3>4. \A d \in DueEntry : d.active = TRUE
        BY DEF DueEntry
      <3>5. old.array[j].active = TRUE
        BY <3>3, <3>4, Zenon
      <3>6. old.array[j].active <=> r.array[j].active
        BY <2>1, <3>5, Zenon
      <3> QED
        BY <3>3, <3>6, Zenon
    <2>2. CASE ~r.array[j].active
      <3>1. old.array[j] = NoEntry
        BY <1>4, <2>2 DEF UntimedEntry
      <3>2. ~NoEntry.active
        BY DEF NoEntry
      <3> QED
        BY <2>2, <3>1, <3>2, Zenon
    <2> QED
      BY <2>1, <2>2
  <1>8. ASSUME NEW j \in 1 .. SendSize
        PROVE  a.array[j] = b.array[j]
    <2>1. b.array[j] = IF r.array[j].active /\ r.array[j].packet_id \in pids
                       THEN NoEntry ELSE old.array[j]
      BY <1>5, <1>7
    <2>2. CASE r.array[j].active /\ r.array[j].packet_id \in pids
      <3>1. s.array[j] = NoEntry /\ b.array[j] = NoEntry
        BY <1>2, <2>1, <2>2
      <3> QED
        BY <1>3, <1>4, <3>1, Zenon
    <2>3. CASE ~(r.array[j].active /\ r.array[j].packet_id \in pids)
      <3>1. s.array[j] = r.array[j]
        BY <1>2, <2>3
      <3>2. b.array[j] = old.array[j]
        BY <2>1, <2>3
      <3> QED
        BY <1>4, <3>1, <3>2
    <2> QED
      BY <2>2, <2>3
  <1>9. /\ a \in Struct /\ a.packet_id = b.packet_id /\ a.hold = b.hold
        /\ \A j \in 1 .. SendSize : a.array[j] = b.array[j]
    BY <1>1, <1>2, <1>5, <1>8
  <1>10. a = b
    BY <1>6, <1>9, SameStruct
  <1> QED
    BY <1>10 DEF a, b, old, s

\* Some entries of a struct are made due.
MakeDue(u, S) ==
    [u EXCEPT !.array = [i \in DOMAIN @ |->
                            IF i \in S THEN [@[i] EXCEPT !.due = TRUE] ELSE @[i]]]

\* An entry of a struct that is active says so.
LEMMA DueIsActive ==
    ASSUME NEW u \in Struct, NEW j \in Active(u)
    PROVE  j \in 1 .. SendSize /\ u.array[j].active = TRUE
  <1>1. j \in 1 .. SendSize /\ u.array[j] \in {NoEntry} \cup DueEntry /\ u.array[j].active
    BY DEF Active, Struct
  <1>2. NoEntry.active = FALSE /\ \A d \in DueEntry : d.active = TRUE
    BY DEF NoEntry, DueEntry
  <1> QED
    BY <1>1, <1>2

\* It stays a struct, with the other entries as they were.
LEMMA MakeDueEffect ==
    ASSUME NEW u \in Struct, NEW S \in SUBSET Active(u)
    PROVE  LET b == MakeDue(u, S)
           IN  /\ b \in Struct /\ b.packet_id = u.packet_id /\ b.hold = u.hold
               /\ \A j \in S :
                    /\ b.array[j] \in DueEntry /\ b.array[j].due = TRUE
                    /\ b.array[j].packet_id = u.array[j].packet_id
                    /\ b.array[j].body = u.array[j].body
               /\ \A j \in (1 .. SendSize) \ S : b.array[j] = u.array[j]
  <1> DEFINE b == MakeDue(u, S)
             c(j) == [u.array[j] EXCEPT !.due = TRUE]
  <1>1. /\ b.packet_id = u.packet_id /\ b.hold = u.hold
        /\ b.array = [j \in 1 .. SendSize |-> IF j \in S THEN c(j) ELSE u.array[j]]
        /\ b = [u EXCEPT !.array = b.array]
    BY DEF MakeDue, Struct
  <1>2. ASSUME NEW j \in S
        PROVE  /\ j \in 1 .. SendSize
               /\ c(j) \in DueEntry /\ c(j).due = TRUE
               /\ c(j).packet_id = u.array[j].packet_id
               /\ c(j).body = u.array[j].body
    <2>1. /\ j \in 1 .. SendSize /\ u.array[j] \in {NoEntry} \cup DueEntry
          /\ u.array[j].active = TRUE
      BY DueIsActive DEF Active, Struct
    <2>2. u.array[j] # NoEntry
      BY <2>1 DEF NoEntry
    <2>3. u.array[j] \in DueEntry
      BY <2>1, <2>2
    <2> QED
      BY <2>1, <2>3, SetDue
  <1> HIDE DEF b, c
  <1>3. u.array \in [1 .. SendSize -> {NoEntry} \cup DueEntry]
    BY DEF Struct
  <1>4. b.array \in [1 .. SendSize -> {NoEntry} \cup DueEntry]
    <2>1. ASSUME NEW j \in 1 .. SendSize
          PROVE  (IF j \in S THEN c(j) ELSE u.array[j]) \in {NoEntry} \cup DueEntry
      <3>1. CASE j \in S
        BY <1>2, <3>1
      <3>2. CASE j \notin S
        BY <1>3, <3>2
      <3> QED
        BY <3>1, <3>2
    <2> QED
      BY <1>1, <2>1
  <1>5. b \in Struct
    BY <1>1, <1>4 DEF Struct
  <1> QED
    BY <1>1, <1>2, <1>5 DEF b

\* The struct at another time is the struct with the entries that are due
\* then made due, if those that are due now are among them.
LEMMA TimeMaps ==
    ASSUME NEW r \in TimedReliable, NEW s \in TimedReliable,
           NEW t \in Nat, NEW u \in Nat,
           NEW S \in SUBSET Active(r), Active(s) = Active(r),
           s.packet_id = r.packet_id, s.hold = r.hold,
           \A i \in Active(r) : /\ s.array[i].packet_id = r.array[i].packet_id
                                /\ s.array[i].body = r.array[i].body,
           \A i \in S : u >= s.array[i].next_try,
           \A i \in Active(r) \ S : (u >= s.array[i].next_try)
                                        <=> (t >= r.array[i].next_try)
    PROVE  Untimed(s, u) = MakeDue(Untimed(r, t), S)
  <1> DEFINE old == Untimed(r, t)
             a == Untimed(s, u)
             b == MakeDue(old, S)
  <1>1. /\ old \in Struct /\ old.packet_id = r.packet_id /\ old.hold = r.hold
        /\ Active(old) = Active(r)
        /\ \A i \in Active(r) : old.array[i] = UntimedEntry(r.array[i], t)
        /\ \A i \in (1 .. SendSize) \ Active(r) : old.array[i] = NoEntry
    BY StructEffect
  <1>2. /\ a \in Struct /\ a.packet_id = s.packet_id /\ a.hold = s.hold
        /\ \A i \in Active(r) : a.array[i] = UntimedEntry(s.array[i], u)
        /\ \A i \in (1 .. SendSize) \ Active(r) : a.array[i] = NoEntry
    BY StructEffect
  <1> HIDE DEF old, a
  <1>3. /\ b \in Struct /\ b.packet_id = old.packet_id /\ b.hold = old.hold
        /\ \A j \in S :
             /\ b.array[j] \in DueEntry /\ b.array[j].due = TRUE
             /\ b.array[j].packet_id = old.array[j].packet_id
             /\ b.array[j].body = old.array[j].body
        /\ \A j \in (1 .. SendSize) \ S : b.array[j] = old.array[j]
    BY <1>1, MakeDueEffect
  <1> HIDE DEF b
  <1>4. ASSUME NEW i \in Active(r)
        PROVE  /\ i \in 1 .. SendSize
               /\ a.array[i] \in DueEntry /\ old.array[i] \in DueEntry
               /\ a.array[i].packet_id = old.array[i].packet_id
               /\ a.array[i].body = old.array[i].body
               /\ a.array[i].due <=> u >= s.array[i].next_try
               /\ old.array[i].due <=> t >= r.array[i].next_try
    <2>1. r.array[i] \in TimedEntry /\ s.array[i] \in TimedEntry /\ i \in 1 .. SendSize
      BY ActiveTimed
    <2>2. /\ a.array[i] \in DueEntry
          /\ a.array[i].packet_id = s.array[i].packet_id
          /\ a.array[i].body = s.array[i].body
          /\ a.array[i].due <=> u >= s.array[i].next_try
      BY <1>2, <2>1, EntryEffect
    <2>3. /\ old.array[i] \in DueEntry
          /\ old.array[i].packet_id = r.array[i].packet_id
          /\ old.array[i].body = r.array[i].body
          /\ old.array[i].due <=> t >= r.array[i].next_try
      BY <1>1, <2>1, EntryEffect
    <2> QED
      BY <2>1, <2>2, <2>3
  <1>5. ASSUME NEW i \in S PROVE a.array[i] = b.array[i]
    <2>1. i \in Active(r) /\ (a.array[i].due <=> b.array[i].due)
      BY <1>3, <1>4
    <2> QED
      BY <1>3, <1>4, <2>1, SameEntry
  <1>6. ASSUME NEW i \in Active(r) \ S PROVE a.array[i] = b.array[i]
    <2>1. b.array[i] = old.array[i]
      BY <1>3, <1>4
    <2>2. a.array[i] = old.array[i]
      BY <1>4, SameEntry
    <2> QED
      BY <2>1, <2>2
  <1>7. \A i \in 1 .. SendSize : a.array[i] = b.array[i]
    BY <1>1, <1>2, <1>3, <1>5, <1>6
  <1>8. a = b
    BY <1>1, <1>2, <1>3, <1>7, SameStruct
  <1> QED
    BY <1>8 DEF a, b, old

\* Scheduled entries are due, and there is no hold any more.
LEMMA ScheduleMaps ==
    ASSUME NEW r \in TimedReliable, NEW t \in Nat,
           TimedScheduleNow(r, t) \in TimedReliable
    PROVE  Untimed(TimedScheduleNow(r, t), t) = reliable_schedule_now(Untimed(r, t))
  <1> DEFINE s == TimedScheduleNow(r, t)
             q == [r EXCEPT !.hold = FALSE]
             old == Untimed(r, t)
             e(i) == [r.array[i] EXCEPT !.next_try = t, !.timeout = r.initial_timeout]
  <1>1. /\ s.packet_id = r.packet_id /\ s.hold = FALSE
        /\ s.array = [i \in 1 .. SendSize |-> IF r.array[i].active THEN e(i) ELSE r.array[i]]
    BY DEF TimedScheduleNow, TimedReliable
  <1>0. s \in TimedReliable
    OBVIOUS
  <1>2. /\ q \in TimedReliable /\ q.packet_id = r.packet_id /\ q.hold = FALSE
        /\ q.array = r.array
    BY DEF TimedReliable
  <1>3. ASSUME NEW i \in Active(r)
        PROVE  /\ s.array[i].active = TRUE /\ s.array[i].next_try = t
               /\ s.array[i].packet_id = r.array[i].packet_id
               /\ s.array[i].body = r.array[i].body
    <2>1. r.array[i] \in TimedEntry /\ r.array[i].active = TRUE /\ i \in 1 .. SendSize
      BY ActiveTimed
    <2>2. /\ e(i).active = TRUE /\ e(i).next_try = t
          /\ e(i).packet_id = r.array[i].packet_id /\ e(i).body = r.array[i].body
      BY <2>1 DEF TimedEntry
    <2> HIDE DEF e, s
    <2>3. s.array[i] = e(i)
      BY <1>1, <2>1
    <2> QED
      BY <2>2, <2>3
  <1> HIDE DEF e
  <1>4. Active(q) = Active(r)
    BY <1>2 DEF Active
  <1> HIDE DEF s, q
  <1>5. Active(s) = Active(r)
    <2>1. \A i \in (1 .. SendSize) \ Active(r) : s.array[i] = NoEntry /\ ~NoEntry.active
      <3> TAKE i \in (1 .. SendSize) \ Active(r)
      <3>1. r.array[i] = NoEntry /\ ~NoEntry.active
        BY ActiveTimed DEF NoEntry
      <3> QED
        BY <1>1, <3>1
    <2>2. DOMAIN s.array = 1 .. SendSize /\ Active(r) \subseteq 1 .. SendSize
      BY <1>1, ActiveTimed
    <2> QED
      BY <1>3, <2>1, <2>2 DEF Active
  <1>6. Untimed(s, t) = MakeDue(Untimed(q, t), Active(q))
    <2>2. \A i \in Active(q) : /\ s.array[i].packet_id = q.array[i].packet_id
                               /\ s.array[i].body = q.array[i].body
                               /\ t >= s.array[i].next_try
      <3> TAKE i \in Active(q)
      <3>1. i \in Active(r)
        BY <1>4
      <3>2. q.array[i] = r.array[i]
        BY <1>2
      <3>3. t >= t
        OBVIOUS
      <3> QED
        BY <1>3, <3>1, <3>2, <3>3, Zenon
    <2>3. Active(s) = Active(q) /\ s.packet_id = q.packet_id /\ s.hold = q.hold
      BY <1>1, <1>2, <1>4, <1>5
    <2>4. /\ Active(q) \in SUBSET Active(q)
          /\ \A i \in Active(q) \ Active(q) : (t >= s.array[i].next_try)
                                               <=> (t >= q.array[i].next_try)
      OBVIOUS
    <2> QED
      BY <1>0, <1>2, <2>2, <2>3, <2>4, TimeMaps, Zenon
  <1>7. old \in Struct /\ Active(old) = Active(r) /\ Untimed(q, t) \in Struct
    BY <1>2, StructEffect
  <1>8. Untimed(q, t) = [old EXCEPT !.hold = FALSE]
    <2> DEFINE new == [old EXCEPT !.hold = FALSE]
    <2>1. /\ Untimed(q, t).packet_id = old.packet_id /\ Untimed(q, t).hold = FALSE
          /\ Untimed(q, t).array = old.array
      BY <1>2 DEF Untimed
    <2> HIDE DEF old
    <2>2. /\ new \in Struct /\ new.packet_id = old.packet_id /\ new.hold = FALSE
          /\ new.array = old.array
      BY <1>7 DEF Struct
    <2> HIDE DEF new
    <2>3. /\ Untimed(q, t).packet_id = new.packet_id /\ Untimed(q, t).hold = new.hold
          /\ \A i \in 1 .. SendSize : Untimed(q, t).array[i] = new.array[i]
      BY <2>1, <2>2
    <2>4. Untimed(q, t) = new
      BY <1>7, <2>2, <2>3, SameStruct
    <2> QED
      BY <2>4 DEF new
  <1> HIDE DEF old
  <1>9. MakeDue([old EXCEPT !.hold = FALSE], Active(old)) = reliable_schedule_now(old)
    BY <1>7 DEF MakeDue, reliable_schedule_now, Struct, Active
  <1> QED
    BY <1>4, <1>6, <1>7, <1>8, <1>9 DEF s, old

\* What a step does to the struct without times: an operation of Reliable, or
\* some entries become due.
ReliableStep ==
    LET old == Untimed(rel, now)
        new == Untimed(rel', now')
    IN  \/ \E i \in 1 .. SendSize, body \in Nat :
             /\ OutputSequenced(old) /\ i \notin Active(old)
             /\ new = reliable_mark_active_outgoing(old, i, body)
        \/ \E i \in 1 .. SendSize :
             /\ reliable_can_send(old) /\ IsBest(old, i)
             /\ new = reliable_send(old, i)
        \/ \E pids \in SUBSET PacketIdType : new = reliable_send_purge(old, pids)
        \/ new = reliable_schedule_now(old)
        \/ \E S \in SUBSET Active(old) : new = MakeDue(old, S)

\* The retries with their times implement those of Reliable, where an entry
\* that was sent or waits just becomes due some time.
THEOREM DueIsSound == Spec => [][ReliableStep]_vars
  <1>1. ASSUME IInv, IInv', Next PROVE ReliableStep
    <2> DEFINE old == Untimed(rel, now)
               new == Untimed(rel', now')
    <2>1. rel \in TimedReliable /\ rel' \in TimedReliable /\ now \in Nat /\ now' \in Nat
      BY <1>1 DEF IInv
    <2>2. /\ old \in Struct /\ old.packet_id = rel.packet_id
          /\ Active(old) = Active(rel) /\ Ids(old) = Ids(rel)
      BY <2>1, StructEffect
    <2>3. ASSUME NEW i \in 1 .. SendSize, Activate(i) PROVE ReliableStep
      <3>1. PICK body \in Nat : rel' = TimedMarkActive(rel, i, body)
        BY <2>3 DEF Activate
      <3>2. now' = now /\ OutputSequenced(rel) /\ i \notin Active(rel)
        BY <2>3 DEF Activate
      <3>3. new = reliable_mark_active_outgoing(old, i, body)
        BY <2>1, <3>1, <3>2, MarkActiveMaps
      <3>4. OutputSequenced(old)
        <4>1. DOMAIN old.array = 1 .. SendSize /\ DOMAIN rel.array = 1 .. SendSize
          BY <2>1, <2>2 DEF Struct, TimedReliable
        <4> HIDE DEF old
        <4> QED
          BY <2>2, <3>2, <4>1 DEF OutputSequenced, reliable_can_get
      <3> QED
        BY <2>2, <3>2, <3>3, <3>4 DEF ReliableStep
    <2>4. ASSUME NEW i \in 1 .. SendSize, Send(i) PROVE ReliableStep
      <3>1. /\ reliable_can_send(old) /\ IsBest(old, i)
            /\ rel' = TimedSend(rel, i, now) /\ now' = now
        BY <2>4 DEF Send
      <3>2. i \in Active(rel)
        BY <2>2, <3>1 DEF IsBest, Due
      <3>3. rel.array[i].timeout > 0
        <4>1. /\ rel.array[i].timeout >= rel.initial_timeout
              /\ rel.initial_timeout \in Nat \ {0} /\ rel.array[i].timeout \in Nat
          BY <1>1, <2>1, <3>2, ActiveTimed DEF IInv, Aged, TimedReliable
        <4> QED
          BY <4>1
      <3>4. new = reliable_send(old, i)
        BY <2>1, <3>1, <3>2, <3>3, SendMaps
      <3> QED
        BY <3>1, <3>4 DEF ReliableStep
    <2>5. ASSUME NEW pids \in SUBSET PacketIdType, Purge(pids) PROVE ReliableStep
      <3>1. rel' = reliable_send_purge(rel, pids) /\ now' = now
        BY <2>5 DEF Purge
      <3>2. new = reliable_send_purge(old, pids)
        BY <2>1, <3>1, PurgeMaps
      <3> QED
        BY <3>2 DEF ReliableStep
    <2>6. CASE Schedule
      <3>1. rel' = TimedScheduleNow(rel, now) /\ now' = now
        BY <2>6 DEF Schedule
      <3>2. new = reliable_schedule_now(old)
        BY <2>1, <3>1, ScheduleMaps
      <3> QED
        BY <3>2 DEF ReliableStep
    <2>7. CASE Tick
      <3> DEFINE S == {i \in Active(rel) : now' >= rel.array[i].next_try}
      <3>1. rel' = rel /\ now' > now
        BY <2>7 DEF Tick
      <3>2. \A i \in Active(rel) \ S : /\ ~(now' >= rel.array[i].next_try)
                                       /\ ~(now >= rel.array[i].next_try)
        <4> TAKE i \in Active(rel) \ S
        <4>1. rel.array[i].next_try \in Nat
          BY <2>1, ActiveTimed
        <4> QED
          BY <2>1, <3>1, <4>1
      <3>3. S \in SUBSET Active(rel) /\ \A i \in S : now' >= rel.array[i].next_try
        OBVIOUS
      <3> HIDE DEF S
      <3>4. Untimed(rel, now') = MakeDue(old, S)
        BY <2>1, <3>2, <3>3, TimeMaps
      <3> QED
        BY <2>2, <3>1, <3>3, <3>4 DEF ReliableStep
    <2> QED
      BY <1>1, <2>3, <2>4, <2>5, <2>6, <2>7 DEF Next
  <1>2. IInv /\ IInv' /\ [Next]_vars => [ReliableStep]_vars
    BY <1>1
  <1> QED
    BY <1>2, Invariance, PTL DEF Spec
=============================================================================
