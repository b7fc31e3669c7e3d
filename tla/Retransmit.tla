----------------------------- MODULE Retransmit -----------------------------
(***************************************************************************)
(* The times of the reliability layer (reliable.c): the retries of a send  *)
(* buffer with exponential backoff, against a clock.                       *)
(*                                                                         *)
(* The buffer is the one of Reliable with next_try and timeout in an entry *)
(* instead of "due", and initial_timeout in the struct.  What does not     *)
(* look at the times is taken from Reliable.                               *)
(***************************************************************************)
EXTENDS Reliable

VARIABLES
    rel,    \* struct reliable, of the packets to be sent
    now,    \* the clock, in seconds
    since   \* history: when an entry was activated or scheduled again

vars == <<rel, now, since>>

BIG_TIMEOUT == 60 * 60 * 24 * 7

\* An entry and the struct as Reliable has them, at a time.
UntimedEntry(e, t) ==
    IF e.active
    THEN [active |-> TRUE, packet_id |-> e.packet_id, body |-> e.body,
          due |-> t >= e.next_try]
    ELSE NoEntry

Untimed(r, t) ==
    [packet_id |-> r.packet_id, hold |-> r.hold,
     array |-> [i \in DOMAIN r.array |-> UntimedEntry(r.array[i], t)]]

Tries(r) == {r.array[i].next_try : i \in Active(r)}

\* The first second from a time on at which no other retry is planned: among
\* SendSize + 1 of them there is one.
reliable_unique_retry(r, retry) ==
    LET unused == (retry .. retry + SendSize) \ Tries(r)
    IN  CHOOSE t \in unused : \A u \in unused : t <= u

\* reliable_send, of the entry that is best: the next retry is planned, and
\* the timeout doubled.
TimedSend(r, i, t) ==
    [r EXCEPT !.array[i].next_try = reliable_unique_retry(r, t + r.array[i].timeout),
              !.array[i].timeout = 2 * @]

TimedScheduleNow(r, t) ==
    [r EXCEPT
        !.hold = FALSE,
        !.array = [i \in DOMAIN @ |->
            IF @[i].active
            THEN [@[i] EXCEPT !.next_try = t, !.timeout = r.initial_timeout]
            ELSE @[i]]]

TimedMarkActive(r, i, body) ==
    [r EXCEPT
        !.array[i] = [active |-> TRUE, packet_id |-> r.packet_id, body |-> body,
                      next_try |-> 0, timeout |-> r.initial_timeout],
        !.packet_id = PidAdd(@, 1)]

\* The seconds to wait: none if an entry is due.
reliable_send_timeout(r, t) ==
    LET waits == {BIG_TIMEOUT} \cup {u - t : u \in Tries(r)}
        least == CHOOSE w \in waits : \A v \in waits : w <= v
    IN  IF least < 0 THEN 0 ELSE least

-----------------------------------------------------------------------------
(* One send buffer and its clock.                                          *)

\* reliable_init and reliable_set_timeout, of a positive --tls-timeout.
Init ==
    /\ \E timeout \in Nat \ {0}, hold \in BOOLEAN :
         rel = [packet_id |-> 0, hold |-> hold, initial_timeout |-> timeout,
                array |-> [i \in 1 .. SendSize |-> NoEntry]]
    /\ now \in Nat
    /\ since = [i \in 1 .. SendSize |-> 0]

\* A packet is put into a free place of the buffer.
Activate(i) ==
    /\ OutputSequenced(rel)
    /\ i \notin Active(rel)
    /\ \E body \in Nat : rel' = TimedMarkActive(rel, i, body)
    /\ since' = [since EXCEPT ![i] = now]
    /\ UNCHANGED now

\* The best of the entries that are due is sent.
Send(i) ==
    /\ reliable_can_send(Untimed(rel, now))
    /\ IsBest(Untimed(rel, now), i)
    /\ rel' = TimedSend(rel, i, now)
    /\ UNCHANGED <<now, since>>

\* Acknowledgements arrive.
Purge(pids) ==
    /\ rel' = reliable_send_purge(rel, pids)
    /\ UNCHANGED <<now, since>>

\* The peer was heard of: everything is sent again at once.
Schedule ==
    /\ rel' = TimedScheduleNow(rel, now)
    /\ since' = [i \in DOMAIN since |-> now]
    /\ UNCHANGED now

\* update_now never moves the clock back.
Tick ==
    /\ now' \in Nat /\ now' > now
    /\ UNCHANGED <<rel, since>>

Next ==
    \/ \E i \in 1 .. SendSize : Activate(i) \/ Send(i)
    \/ \E pids \in SUBSET PacketIdType : Purge(pids)
    \/ Schedule
    \/ Tick

Spec == Init /\ [][Next]_vars

-----------------------------------------------------------------------------
(* Properties.                                                             *)

\* Retries are spread out (reliable_unique_retry): two packets that wait for
\* a retry do not wait for the same second.
RetriesApart ==
    \A i, j \in Active(rel) :
        /\ rel.array[i].next_try > now
        /\ rel.array[i].next_try = rel.array[j].next_try
        => i = j

\* The doubled timeout (reliable_send) keeps to the age of the packet, which
\* the handshake window bounds, so that it does not overflow.
TimeoutBounded ==
    \A i \in Active(rel) :
        /\ rel.array[i].timeout >= rel.initial_timeout
        /\ rel.array[i].timeout <= 2 * (now - since[i] + rel.initial_timeout)

\* The event loop that sleeps for reliable_send_timeout misses no retry, and
\* does not wake up for nothing.
WakesInTime ==
    LET wait == reliable_send_timeout(rel, now)
    IN  /\ \A t \in now .. now + wait - 1 : Due(Untimed(rel, t)) = {}
        /\ wait < BIG_TIMEOUT => Due(Untimed(rel, now + wait)) # {}
=============================================================================
