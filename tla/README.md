# A formal model of Seguridad-en-Redes

The repository is the work of a network security course. It holds two programs
of its own, `src/practica3/sign.c` (RSA/SHA-512 signatures) and
`src/practica2/hmacsha1.c` (HMAC-SHA1), laboratory set-ups (mininet topologies,
IPsec and OpenVPN configurations, captures, reports), and the sources of the
program that the VPN laboratory runs, OpenVPN 2.2.1
(`src/vpn/openvpn-2.2.1/`). This directory models the two programs and four
parts of OpenVPN: the reliability layer of its control channel, the sessions
and keys that two peers negotiate over it, the replay protection of its data
channel, and the server that keeps many clients, with its address pool.

The modules are checked with TLC on small instances, and six parts are also
proved correct with TLAPS: the control channel, whose safety and whose
refinement of an exactly-once channel hold for all sizes of buffers, any number
of records and networks of any capacity; the times of its retransmissions (which
are proved only, see `Retransmit`); the replay protection of the receiver and its
persistence, for every size of the window and every range of the numbers; the
packet ids of a sender with that receiver (proved only, see `PacketId`); of the
sessions of two peers, that their states are right and that a control packet
never belongs to two sessions; and the server, all of whose safety properties
hold for any numbers of clients, addresses, networks and routes.

## Inventory

| Component | State | Operations | Interacts with | Hard behaviour |
|---|---|---|---|---|
| `sign.c` | buffers of `main`: digest, block, signature | sign, verify | file system, OpenSSL | short reads, failures halfway, discarded results |
| `hmacsha1.c` | key buffer, counters, digest | `readkey`, `hmacsha1` | file system, OpenSSL | short reads, a key at the limit of its buffer |
| `reliable.c` | send and receive `struct reliable`, `struct reliable_ack` | activate, send, purge, store, deliver, acknowledge | called from `tls_process` and `tls_pre_decrypt` | loss, duplication, reordering, timeouts, windows at their limit, id wrap |
| `ssl.c`, one key state | `struct key_state`: state, session id, address | hard reset exchange, TLS records, key exchange, timeouts | the peer; the TLS object; `reliable.c` | both peers start at any time; FULL_SYNC; the loop that is left after one packet |
| `ssl.c`, sessions | `tls_multi`, `tls_session`: active, untrusted, lame duck | soft reset, promotion, expiry, error reset | the key states; the data channel | simultaneous renegotiation, a timeout that races the last acknowledgement |
| `packet_id.c`, receiver | `struct packet_id_rec`: highest id, list of the window | reap, test, add | `openvpn_decrypt` | reordering, copies, window jumps, lazy expiry |
| `packet_id.c`, sender | `struct packet_id_send` | `packet_id_alloc_outgoing` | `openvpn_encrypt` | wrap of the number |
| `packet_id.c`, persistence | `struct packet_id_persist`, a file | load, save, flush | the receiver; restarts by signal or of the process | crash between flushes, failed writes |
| `pool.c` | entries: in use, fixed, last release, name; a file | acquire, release, read, write | `multi.c`; restarts of the server | exhaustion, reuse, two leases of one name |
| `multi.c`, `mroute.c` | instances and their references, tables of routes, iroutes, cached host routes with a generation | create, close, establish, learn, look up, reap, kill | the pool; the queue; the TLS layer of each instance | closed instances that routes still refer to, stale caches, a client that comes twice |
| `mbuf.c` | queue of packets from one client to others | add, extract, dereference | `multi.c` | full queue, packets to instances that were closed |
| `mudp.c` | the pending instance | one pass of the event loop | the socket, the tun device, the management interface | what was ready is served after the state changed |
| `ping.c` | two event timers | ping, ping-restart | event loop | timeout against late traffic |
| laboratory topologies | routing tables of five routers | none after start-up | mininet | loops of default routes |

What makes them correct:

* *reliability layer*: records are delivered exactly once and in order; nothing
  is dropped from a send buffer before the peer stored it; an acknowledgement
  is never untrue; the receive buffer always has a place for the next record;
  everything is delivered eventually; the two sides agree on being started.
* *replay protection*: nothing is accepted twice; the window stays aligned with
  the numbers and keeps its width; late packets are refused; in TCP mode there
  are no gaps; restarts do not reopen what was accepted.
* *sessions and keys*: what one peer encrypts the other one can decrypt while
  either renegotiates; a failure leaves the key that works; control packets
  reach the session they belong to.
* *server*: an instance is freed exactly when nothing refers to it; what is
  pending exists and has output; an address is leased to one client; routes,
  the cache and the lengths of networks agree with the instances that live.
* *signature program*: the comparison succeeds exactly for a right signature,
  and the status tells it; the HMAC program prints the HMAC or nothing.

## Modules

| Module | Models | Used by |
|---|---|---|
| `Reliable` | the operations of `reliable.c` as operators on `struct reliable` and `struct reliable_ack` | `ReliableLink`, `Retransmit`, `ReliableLinkProofs` |
| `Channel` | abstract: an exactly-once, in-order channel in each direction | refined by `ReliableLink` |
| `ReliableLink` | two peers (`tls_process`, control part of `tls_pre_decrypt`) and the network between them | `MCReliableLink`, `ReliableLinkProofs` |
| `ReliableLinkProofs` | the theorems about the comparisons of ids and the acknowledgement record, and about `ReliableLink` | |
| `Retransmit` | `next_try`, `timeout` and the clock of a send buffer; the operations of `reliable.c` on them | `RetransmitProofs` |
| `RetransmitProofs` | the theorems about `Retransmit` | |
| `PacketId` | `packet_id_reap`, `packet_id_test`, `packet_id_add` as called by `openvpn_decrypt` | `PacketIdPersist`, `PacketIdSend`, `PacketIdProofs` |
| `PacketIdSend` | `packet_id_alloc_outgoing` as called by `openvpn_encrypt`, with `PacketId` as the receiver | `PacketIdProofs` |
| `PacketIdPersist` | `--replay-persist`: structure, file, flush, restarts, crashes | `PacketIdProofs` |
| `PacketIdProofs` | the theorems about `PacketId`, `PacketIdSend` and `PacketIdPersist` | |
| `TlsMulti` | two peers with their `tls_multi`: sessions, keys, renegotiation, timeouts | `TlsMultiProofs` |
| `TlsMultiProofs` | the theorems about `TlsMulti` | |
| `Pool` | the operations of `pool.c` as operators on a function of entries, and its file | `MultiServer` |
| `MultiServer` | `multi.c`, `mroute.c`, `mbuf.c` and the loop of `mudp.c` for one server | `MCMultiServer`, `MultiServerProofs` |
| `MultiServerLemmas` | the inductive invariant of `MultiServer`, and what each function of the code does to it | `MultiServerProofs` |
| `MultiServerProofs` | the theorems about `MultiServer` and `Pool` | |
| `FoldProofs` | lemmas: induction along a fold over a sequence, for any operator | `MultiServerLemmas` |
| `Sign`, `Hmac` | `sign.c` and `hmacsha1.c` | `MCSign`, `MCHmac`, `LabProofs` |
| `LabProofs` | the theorems about `Sign` and `Hmac` | |

Definitions named `X_Something` under a comment *Mutant* are altered forms of
the definition `X` that follows: each one has a plausible mistake that a
property must detect. No specification uses them.

### Reliable, ReliableLink, Channel

`ks[p]` is the part of `struct key_state` of peer `p` that the control channel
uses: `state`, `addr` (is `remote_addr` defined), `sid` (is
`session_id_remote` defined), `send`, `rec`, `ack` (`rec_ack`), and at its TLS
object `out` (records read from it) and `in` (records written to it). An entry
that is not active is `NoEntry`, because the code never reads its fields.
`due` stands for `now >= next_try`: sending an entry clears it, a `Timeout`
sets it at some later time. So every schedule of retransmissions is covered,
the exponential one of the code among them.

A peer is one thread. `Receive` is one call of `tls_pre_decrypt`: opening of
the session with the burst, purge of the acknowledged entries, storing and
acknowledging, in this order. One iteration of the do/while loop of
`tls_process` is one action: `Pass` if it changes something and sends nothing,
`ReliableToLink` if it sends a packet (the code leaves the loop with `break`),
`DedicatedAck` or `LoopEnd` when there is nothing more to do. `busy[p]` keeps a
peer from reading a packet inside of the loop. `net[p]` is a set of packets:
`Deliver` removes the packet, `DeliverCopy` leaves a copy, `Lose` drops it, and
packets are taken in any order.

Left out: the TLS handshake and key exchange inside the records (the records
are numbered 1 to `Records[p]`), `must_negotiate`, further key states and
sessions, authentication of control packets (`tls-auth`), and packets of other
sessions. A packet id of this module never wraps (`LinkAssumption`); the wrap
is the subject of the first theorems of `ReliableLinkProofs`.

### Retransmit

An entry has `next_try` and `timeout` as in the code, and the struct its
`initial_timeout`; `now` is the clock, which `update_now` (otime.c) never moves
back. `Untimed(rel, now)` is the same buffer as `Reliable` has it. Operations
that do not look at the times are those of `Reliable`; `reliable_send`,
`reliable_schedule_now` and `reliable_mark_active_outgoing` have timed forms,
and `reliable_send_timeout` is here alone. `reliable_unique_retry` is the first
unused second of `SendSize + 1` candidates, which is where its loop stops; that
there is one is `UniqueRetry`. The history variable `since` has the time at
which an entry was activated or scheduled again. `--tls-timeout` is taken to be
positive. No run checks this module: it has no bound on the times, and what is
said of it is proved.

### TlsMulti

`multi[p]` is `struct tls_multi`: the sessions `active`, `untrusted` and `lame`
(TM_ACTIVE, TM_UNTRUSTED, TM_LAME_DUCK), each one with its session id `sid` and
its two keys `primary` and `lame` (KS_PRIMARY, KS_LAME_DUCK). A session id that
nobody has seen yet is drawn when it is first sent, instead of in
`tls_session_init`: the same behaviours with fewer states. `known` says that
the peer has the address of the other one (`--remote`, or a session that was
S_ACTIVE), without which `tls_multi_process` leaves the active session alone.

A key state sends two packets besides acknowledgements: its reset (hard for the
first key of a session, soft for others) and its key, which stands for all the
TLS records of the exchange; `ReliableLink` shows how a sequence of packets is
carried. `acked` and `got` are what `send_reliable` and `rec_reliable` amount to
then. `net` keeps every packet for ever: a packet is delivered at any time, any
number of times, in any order, or never. `key` records for whom a key packet
was made; a key of another session makes the TLS object fail (`Readable`), which
is the error path of `tls_process`.

An action is a packet (`Receive`: the whole control part of `tls_pre_decrypt`)
or the passage of a time (`Renegotiate`, `NegotiationFails`, `Settle`,
`Expire`), each one followed by `Quiet`: the calls of `tls_multi_process` until
they change nothing. The event loop does not read the next packet before what
`tls_process` produced was sent and `tls_process` is idle (`interval_action`
keeps calling it), so nothing falls between. The data channel has no actions:
`tls_pre_encrypt` and `DecryptKey` are the choices that the code would make for
a data packet in a state, and `TunnelKeptUp` compares those of the two peers.
Because an action changes one peer only, this includes a data packet that one
action of either peer overtakes. Packets in flight for longer are left out: what
protects them is that an old key outlives the switch to the new one by most of
an hour, and times have an order in the model but no length.

Assumptions. The two times of a key, `must_negotiate` and
`auth_deferred_expire`, are the handshake window (60 s) for the default of
`--reneg-sec`; the flag `settled` is both. Renegotiations and the life of a
retired key (3600 s each) take longer than the handshake window of either peer
(`OverForBoth`). Peers have fixed addresses. Left out: the wrap of the key id
from 7 to 1, `--single-session`, failed and deferred authentication, key method
1, restarts, exit on errors, and the buffer of payload packets.

### Pool, MultiServer

A pool has its `list` of entries, and in `released` the handles in the order of
their last release, because the code only compares the times; entries released
within one second, which tie in the code, are taken one after the other. `m` is `struct multi_context`,
and `Inst` are the places for `struct multi_instance`: an instance is live,
closed but still referred to (halt), or free. Names of definitions are those of
the code: `multi_create_instance`, `multi_close_instance`,
`multi_connection_established`, `multi_learn_addr` and so on, each one the whole
function. `status` is what the event loop still has to do in this pass. The actions are what one pass of `multi_process_io_udp` can do: read a
control packet (`SocketReadControl`) or a data packet (`SocketReadData`) from the
socket, read the tun device, write to either one, serve a timer, obey a
management command (`Kill`), run the reaper (`Reap`) or age cached routes
(`Age`). `p2mp_iow_flags` and `Takes` decide which of them can come next, so
that the server reads nothing while an instance is pending. `Restart` closes all
and reads the file of the pool again. The TLS layer of an instance is an input:
it may be verified under the name of its client, be refused, or lose its name
again when a renegotiation fails. Which leftovers of output an instance has is
chosen when it is served.

The model has `--client-to-client` on. `--duplicate-cn` is the constant
`DuplicateCN`: off in the run, either way in the proofs. Left out: TCP
(`mtcp.c`), tap, packet filters, scripts (a failed client-connect script is
modelled, but not together with a static address; a refused learn-address is
not), the limits on new connections, the
status file, and the periodic write of the file of the pool.

### PacketId, PacketIdPersist, PacketIdSend

`rec` is `struct packet_id_rec`; the circular list is the function `item`, whose
index 0 belongs to the highest number. `Accept` and `Reject` are the two
outcomes of the check in `openvpn_decrypt`, each one with the reap pass that
comes first. `Tick` is the clock. `accepted` is a history variable with the
arrival time of everything let through. The packets that arrive are any packet
ids at all, which includes every order, loss and repetition.

`PacketIdPersist` adds `persist` (`struct packet_id_persist`) and `file`. The
actions are the receipt of a packet with `packet_id_persist_save_obj`, the
flush of every 60 seconds, a restart of the session in the same process
(SIGUSR1), a new process after a proper end, and a new process after a crash.
A write may fail; the history variable `clean` holds until the first crash or
failed write, because what is true of the file without them (`FreshSessionRefuses`)
is not promised with them.

`PacketIdSend` puts a sender in front of `PacketId`: `send` is `struct
packet_id_send`, `clock` the clock of the sender, `log` the packet ids sent so
far, of which `got` have arrived or are lost. The network keeps the order; it
loses packets only where there is a window, because `--replay-window 0` is for
streams. In the long form (`LongForm`) a packet id carries a time stamp and the
number goes on at 1 after `MaxId`, under the current time; in the short form
the `ASSERT` of `packet_id_alloc_outgoing` ends the process there. `Encrypt`
assumes that a second passes before `MaxId` packets are sent, 2^32 - 1 in the
code. The module has no run: `log` has no bound, and both of its properties are
proved.

### Sign, Hmac

One action per read or step of the program, with every number of bytes that
`read` and `BIO_read` may return. Digests and RSA are ideal: a digest is the
stream it was fed with; a ciphertext is its key and its block. `C_BLOCK` is not
initialised by `main`, and counts as noise, which decrypts to a wrong padding,
until a whole signature was read or computed. In `Sign` the file is edited and
the signature file is cut off between two processes, and what cannot be written
to standard output is lost without a message.

## Runs

| Run | Bounds | Shows |
|---|---|---|
| `link` | windows 2 (send) and 3 (receive), 2 records from the client and 1 from the server, both start by themselves, 1 packet in flight each way | types, `NothingForgotten`, `AcksAreTrue`, `IdsUnique`, `StartAgreement`, refinement of `Channel` |
| `link_window` | windows 2/2, acknowledgement record of 1, 4 records from the client, a server that learns the address from it | the same questions where ids go round the arrays twice, the receive buffer fills and acknowledgements are dropped for lack of space; also `ReceiveBufferNotClogged`, `WriteAssertions` |
| `link_live` | windows 1/1, 1 record, 2 packets in flight to the client, a TCP server: it knows its client and holds back what it sends until the client is heard (`xmit_hold`, init.c:2018-2019) | `EventuallyDelivered` under `Fairness` |
| `packet_id` | 5 numbers, 2 stamps, window 2, time limit 1, reap interval 2, clock 2..5 | all invariants of the receiver, among them `BacktrackBounded` |
| `packet_id_late` | 4 numbers, 1 stamp, the same window | *violation*: the manual's bound on late packets |
| `persist` | 3 numbers, 2 stamps, window 2, clock 2..3, crashes and failed writes | the order of the three copies of the highest id |
| `persist_replay` | 4 numbers, the same window | *violation*: replays of the prior session are not all rejected |
| `sign` | blocks of 2, contents up to 3, 2 paths, 3 keys, one of them too short | the verdict is right |
| `sign_status` | the same | *violation*: the status does not tell the verdict |
| `hmac` | buffer of 3, keys up to 4 (one byte more than fits), texts up to 5 | the printed value |
| `tls` | 2 session ids of each peer, key ids 0 to 2 | `TunnelKeptUp`: the peers decrypt what the other encrypts, as long as no negotiation fails; `FailureKeepsKey`: one that fails leaves a peer a key to encrypt with, the same or the one it is kept for; `OneSessionPerId`: packets find their session |
| `server` | 2 instances, 2 clients, 2 source addresses, a pool of 2, a queue of 1, 3 host addresses in the tunnel and 2 networks of different length that cover the same host | the references (`RefcountExact`, `NoDangling`), the pending instance, the leases (`LeasesExact`, `FixedForOne`, `SameAddress`), the routes (`CacheCoherent`, `LengthsInUse`, `AddressRoutes`), the queue |

Why the bounds are enough. The windows of the code are 4 and 8, and the
acknowledgement record has 8 places; the code depends on them only through
"full", "free", "within the window" and the comparison of send and receive
window, all of which happen with 2 and 3 or with 2 and 2. With four records and
a window of two every slot is used again. A network with one place in each
direction still reorders: a packet is lost because the place is taken, its
successor arrives first, and the retransmission comes behind; and `DeliverCopy`
keeps an old packet in that place for as long as TLC likes, so that it arrives
again after everything else has moved on. For the replay window, a window of two
has a first and a last item, and five numbers let a jump stay inside it, leave
it by one, or miss it altogether; the proofs cover all other sizes.

In `link_live` the network has room for two packets towards the client. With
room for one, a copy of an acknowledgement that the client cannot route yet
could fill it for ever: an artefact of the bound.

Deadlock is not checked in `hmac`, a program that ends, in `tls`, where the
session ids of the instance run out, and in `server`, which stops where an
`ASSERT` of the code ends the process.

With two session ids, each peer can lose its session, or have one untrusted
session beside its active one: a session that replaces another, a retired
session whose key is still used, and packets of a retired session that arrive
late all occur, in the combinations in which one peer has noticed and the other
has not. With key ids 0 to 2 a key is retired twice, and copies of an
older soft reset are still under way. With two instances, both clients are
connected, one client comes again while its earlier instance lives, or an
instance is closed and kept by its routes while another one is live; a third
instance would be refused by the limit of clients. Two addresses are as many
as the clients need, so one that leaks is missed at once.

### Fairness

`tls_process` and `Timeout` are weakly fair: the event loop computes its next
wake-up from `reliable_send_timeout` (at most `next_try`) and calls
`tls_process` then. `Pass` and `DedicatedAck` are strongly fair, because the
initial timeout is two seconds and a call of `tls_process` runs its loop to the
end without waiting: retransmissions cannot starve the rest of the loop or the
acknowledgements for ever. `DeliverId` and `DeliverAck` are strongly fair: the
network may lose, copy and delay any number of packets, but not each one of the
infinitely many that carry the same id or the same acknowledgement. Nothing is
assumed about `Lose` and `DeliverCopy`.

### Findings

Three runs are expected to end in a violation; each one checks a sentence of the
documentation against the code.

* A packet that is more than `t` seconds late is accepted until the next reap
  pass (`packet_id_late`, openvpn.8:3644-3647). `BacktrackBounded` is the bound
  that holds: `t` plus the reap interval.
* After a restart with `--replay-persist` in backtrack mode, the first new
  packet starts a list of unseen items that reaches below the restored number,
  so that numbers the prior session accepted are accepted again
  (`persist_replay`, openvpn.8:3711-3715).
* `sign.c` ends with status 0 whatever the comparison says (`sign_status`).

Observations that no run is made for:

* `reliable_pid_in_range2` (reliable.c:63-83) does not do what its comment says
  when only one of its arguments has wrapped: an id just past the wrap passes
  the plain comparison with a window that has not got there. It takes more than
  2^31 control packets in one key state; `RangeTwoInFirstLap` is what holds before.
* `sign.c` hashes the path as it was given (sign.c:64-65), where the assignment
  speaks of the name of the file: a file signed as `./f` does not verify as `f`.
* A copy of a soft reset that arrives after the new key is enabled is taken for
  the next request (ssl.c:4886): `key_state_soft_reset` runs before the key id
  is compared (ssl.c:4961), starts a renegotiation that the peer did not ask
  for, and frees the lame duck key, which the peer may still encrypt with. The
  tunnel is interrupted until that negotiation is through, or its handshake
  window over. `calm` in `TlsMulti` excludes it from `TunnelKeptUp`.
* For the handshake window after a new key, `tls_pre_encrypt` prefers an older
  one, the key of a retired session among them, which a peer that lost its own
  side of that session cannot decrypt.
* A further hard reset overwrites the session id of the untrusted session
  without a reset of its key state (ssl.c:4935-4940); its negotiation then ends
  in an error or a timeout.
* In one pass of the server, a management command can close the pending instance
  before the tun device that was reported ready is written to:
  `multi_process_outgoing_tun` then fails its `ASSERT (mi)` (multi.h:409) and the
  server ends (`aborted` of `MultiServer`).
* An instance whose renegotiation failed has no common name, so
  `multi_delete_dup` does not see it, and two instances of one client live side
  by side, where the manual (openvpn.8:2864-2868) and the comment of the function
  (multi.c:1114) have the new one replace the old one.
* The timer of another instance overwrites the pending instance
  (multi.c:2284), whose output stays where it is until something else wakes it.
* A hard release of an entry with a fixed address clears its name; the address
  is not available by name until a restart reads the file.
* An address or network that a later client takes over does not come back to
  the earlier one when the later one leaves.

## Proofs

`PacketIdProofs` proves about `PacketId`, from `PacketIdAssumption` alone (all sizes are natural
numbers, the reap interval is positive, at least one sequence number exists, and the clock starts after the two
values 0 and 1 that the list reserves), for both modes, every order of arrival,
every clock, and every window, time limit, reap interval and range of numbers:

| Theorem | Says |
|---|---|
| `TypeCorrect` | the fields keep their types |
| `NoReplay` | `AcceptedOnce`: what was accepted is refused for ever |
| `WindowAligned` | `MarksAreTrue`: every item stands for the number it belongs to |
| `ReapBreakSound` | `ExpiredSuffix`: the break in `packet_id_reap` skips nothing |
| `WindowKeepsWidth` | `WindowFull`: no jump leaves the window narrow |
| `SequentialHasNoGap` | `NoGap`: without a window the accepted numbers are consecutive |
| `LatenessIsBounded` | `BacktrackBounded`: a late packet passes only within the time limit and one reap interval after any later one |

`AcceptedOnce` is not inductive: it says what `packet_id_test` answers now, and
nothing of the items that a push will move or of numbers that a jump leaves
behind. The strengthening is `IInv`: the types, and `RecInv`, which relates the
receiver to the history. `Ordered` says that nothing beyond the highest number
was accepted, `Marked` that an accepted number in the window has an item that is
not unseen, `EmptyIsFresh` that there is a list as soon as something was
accepted, `Full` how long it is (without it a number that was accepted could lie
between the end of a short list and the window it will grow to), `Truthful` that
arrival times are in the history, and `Suffix` the shape that the reap pass
leaves. The lemmas (`ReapEffect`, `NewListEffect`, `PushEffect` and so on) say
what each operator does to a record, `ReapPreserves` and `AddPreserves` that
`RecInv` survives it, and `Invariance` puts the actions together. `NoGap` needs
`LastAccepted` besides: the highest number of the receiver was itself accepted.
`LatenessIsBounded` needs an invariant about the last reap pass (`LimitInv`):
whatever lies in front of an item that is still unseen was not too old then,
because the pass would have marked the item expired. It also needs that a packet
has one arrival time, which is `AcceptedOnce` again, and a positive reap interval
(SEQ_REAP_INTERVAL is 5).

About `PacketIdSend` it proves, from `PacketIdAssumption`, for both forms:

| Theorem | Says |
|---|---|
| `NoIdTwice` | `SentOnce`: no packet id is sent twice under a key |
| `InOrderAccepted` | `InOrderIsAccepted`: what arrives in order is accepted, without a window when nothing is lost, with one whatever is lost |

The invariant says of the sender that `log` is strictly ordered, that each
packet id is the next one after its predecessor, and that the last one is
`send`; of the receiver, that its highest packet id is one that arrived, and
without a window the last one that did.

And about `PacketIdPersist`, from `PacketIdAssumption`:

| Theorem | Says |
|---|---|
| `CopiesStayOrdered` | `CopiesOrdered`: the file is never ahead of the structure, nor the structure of the receiver |
| `WrittenStaysFile` | `WrittenIsFile`: the test that skips a write skips none that is needed |
| `FreshSessionsRefuse` | `FreshSessionRefuses`: before its first packet, a session refuses what its predecessors accepted |
| `FileNeverGoesBack` | `FileAdvances`: no step moves the file to an older packet id |

`PersistInv` strengthens them: the receiver and the structure hold the same
packet id once there is one, the file an earlier or equal one, the part of the
structure that says what was written is what the file holds, and as long as
`clean` holds nothing was accepted beyond the id of the structure. A crash or a
failed write only loses the last of these.

`TlsMultiProofs` proves, from `TlsAssumption`, for any number of session ids and
key ids:

| Theorem | Says |
|---|---|
| `TypeCorrect` | states, ids, keys and packets keep their types |
| `OneSessionForPacket` | `OneSessionPerId`: at most one session of a peer has the id of a given session of the other one |
| `NothingLeftToDo` | `tls_multi_process` changes nothing while a peer waits for a packet or a timer |
| `KeySurvivesFailure` | `FailureKeepsKey`: a failed negotiation leaves a peer that had a key one to encrypt with |
| `TunnelStaysUp` | `TunnelKeptUp`: what one peer encrypts the other decrypts, as long as `calm` holds |

The invariant says of each peer that its `tls_multi` is `Stable`: its sessions
have their types and distinct sessions of the peer, its untrusted session has
key id 0 and no key that can be used, and its numbers are within the bounds.
Inside of `Quiet` only the weaker `Mid` holds: the untrusted session may be ready
to be promoted, and a soft reset may have made a key one past the bound, after
which the action does not happen. So there is a lemma for
each function of the code on `Mid` (`ProcessEffect`, `AfterErrorEffect`,
`PromoteEffect`, `RouteEffect` and so on), and `QuietEffect` leads from `Mid`
back to `Stable`.

`NothingLeftToDo` justifies `Quiet`, which calls `tls_multi_process` four times
where the event loop calls it until nothing changes. Its invariant `Rest` says
that neither session of a peer has a next state (`Done`), that what its turns
assign was assigned (`Tidy`), and that an untrusted session with a key was
promoted (`Ready`); the proof counts the `Turns` that a session still has. A
session whose hard reset was acknowledged has the most, four, if everything else
has arrived as well; an error on the way resets it and leaves it one.

`FailureKeepsKey` needs it: a failed negotiation is the only change of the step
only if the other sessions had nothing left to do. The property allows one
change. A session that fails becomes the retired session if its lame duck key
can still be used, and the session that was retired before is freed; if the
peer was encrypting with a key of that one, it goes on with the lame duck for
whose sake the failed session was kept. That a failure always leaves the key in
use alone is false: with three session ids, a late copy of a soft reset leads a
peer to it that still encrypts with a key of its retired session.

`TunnelKeptUp` compares two peers, and its strengthening `TunnelInv` relates
them while `calm` holds. Each peer then has one session (`Solo`), the first it
drew; `Side` says how far its key has come: what was acknowledged and received
fits the state, and a key before it, if there is one, was negotiated on both
sides (`Retired`). `Follows` relates the sessions of the two peers: their key
ids are equal, or one is ahead by one, and then it has sent no more than its
soft reset while the other's key is active and over its window; with equal ids,
what one has had acknowledged the other has received. `Behind` says of every
packet that was ever sent that it says no more than the session it came from
does now, so that a copy which arrives late cannot be ahead of it. `Follows` in
both directions is what makes a renegotiation that both start at once harmless:
each soft reset then meets a key with its own id. Without `Behind` the
acknowledgement of an older key would be taken for one of the new key; without
`Retired` a peer could fall back to a key that the other never finished. That
a renegotiation begins, and an old key dies, only when the handshake window of
that key is over at both ends (`OverForBoth`) is part of the model: 3600 seconds
against 60.

`RetransmitProofs` proves, from `ReliableAssumption`, with a clock and times of
any size:

| Theorem | Says |
|---|---|
| `UniqueRetry` | the loop of `reliable_unique_retry` ends after `SendSize` rounds at most, at the first second no other entry has |
| `RetriesStayApart` | `RetriesApart`: no two entries wait for the same second |
| `BackoffBounded` | `TimeoutBounded`: the doubled timeout is at most twice the age of its packet and the initial timeout together, so the handshake window bounds it |
| `WakeUps` | `WakesInTime`: a loop that sleeps for `reliable_send_timeout` wakes up exactly when an entry is due |
| `DueIsSound` | every step is an operation of `Reliable` on the untimed buffer, or makes some entries due |

The invariant adds to the types, for each entry, that its timeout is still the
initial one or no more than its age will be at the next retry (`Aged`); an entry
is sent again only at that time, so doubling keeps it below twice the age.
`DueIsSound` is why `ReliableLink` may have `due` instead of times: its `Timeout`
makes any entries due at any time, so it allows every schedule of the code.

`ReliableLinkProofs` proves first, from `ReliableAssumption` alone: that
`reliable_pid_in_range1` is the distance on the circle of ids
(`RangeOneIsCircular`); that `reliable_pid_min` orders every run of ids up to
half the circle, through the wrap (`MinIsCircular`); that the two checks before
a packet is stored let through exactly the free ids of the receive window as
long as it lies in the first half of the type (`RangeTwoInFirstLap`); that the
ids in flight stay within the send window (`SendWindowKept`); and that writing
acknowledgements neither loses nor repeats one (`AckWriteSplits`).

It then proves, from `ReliableAssumption` (sizes of the buffers, a
send window no larger than the receive window, a receive window below half the
type) and `LinkAssumption` (two different peers; the ids in use and a window
above them stay in the first half of the type, so that no id wraps):

| Theorem | Says |
|---|---|
| `TypeCorrect` | buffers, records and packets keep their types |
| `NothingIsForgotten` | `NothingForgotten`: what left a send buffer was received |
| `AcksStayTrue` | `AcksAreTrue`, pending or on the wire |
| `IdsStayUnique` | `IdsUnique`: a search by id has one answer |
| `AssertionsHold` | `WriteAssertions` |
| `ReceiveBufferStaysOpen` | `ReceiveBufferNotClogged`: a full receive buffer holds the next record |
| `StartsAgree` | `StartAgreement` |
| `Refinement` | every step hands out a record, takes the next one, does both, or is a stutter of `Channel` |

The inductive invariant `IInv` is a relation between the two key states
(`Pair`) and between them and the packets (`Fits`). `Local` says of one peer how
its counters follow its records, that its buffers are `Sound` (no id twice, the
body belongs to the id), that the receive buffer is inside of its window, and
that before the session of the other is known nothing was received and nothing
left the send buffer. `Towards` relates a sender to its receiver: the receiver
is never ahead, and each id that was sent is held or received. `Fits` says the
same of a packet: it carries an id that was sent with the body that belongs to
it, and acknowledges only what was received. Without `Fits`, `NothingForgotten`
is lost at the first false acknowledgement; without `Local`, records could be
delivered with the wrong body. A packet that stays in the network for long must
keep fitting, so each lemma about a function of the code (`PurgeEffect`,
`StoreIncomingEffect`, `IncomingCiphertextEffect` and so on) also proves `Grows`:
what was received stays received and what was sent stays sent. The pigeonhole
principle gives `ReceiveBufferStaysOpen`: as many different ids as there are
slots, all inside of a window of that size, include the first of the window.

`MultiServerProofs` proves, from `PoolAssumption` and `MultiAssumption` (the
constants have their types: finite sets of instances, hosts and networks, a
positive capacity of the queue and quota of routes; nothing about how networks
overlap or which addresses the clients' files name), with and without
`--duplicate-cn`:

| Theorem | Says |
|---|---|
| `ServerKeepsInv` | the inductive invariant `ServerInv` |
| `ServerTypes` | `TypeOK`: among others the quota of routes and the capacity of the queue |
| `ServerRefcounts` | `RefcountExact`: an instance is freed with the last route to it, and not before |
| `ServerLinks` | `NoDangling`: nothing but routes leads to a closed instance |
| `ServerOutput` | `PendingHasOutput`: the loop waits for no instance without output |
| `ServerQueue` | `QueueAssertion`: the `ASSERT` of `mbuf_add_item` holds |
| `ServerLeases` | `LeasesExact`: an address in use has one client |
| `ServerCache` | `CacheCoherent`: a cached route that counts agrees with the network routes |
| `ServerLengths` | `LengthsInUse`: the lengths searched are those of the clients that live |
| `ServerAddresses` | `AddressRoutes`, if `AddressPlan` holds |
| `ServerFixed` | `FixedForOne`, without `--duplicate-cn` |
| `ServerSameAddress` | `SameAddress`, without `--duplicate-cn` |

Two theorems have a premise, because the code does not do more. `AddressPlan`
says that the configuration gives the addresses of the pool to clients of the
pool alone, each address to one handle: OpenVPN does not check it, and a static
address, the server's own or an iroute equal to an address of the pool takes
its route away. With `--duplicate-cn` the pool is asked without a name, so names
decide nothing. The instance of the run satisfies both premises.

The invariant is one predicate on `struct multi_context`, because its parts rest
on each other. `Counts` is `RefcountExact`; while a route is replaced the
function `multi_learn_addr` is in between, where one instance is counted once
more than its routes (`CountsWith`). `Links` is `NoDangling`, and that no
instance is in the list twice, without which a closed one would stay in it.
`Clients` says that an instance whose client has no name yet has no address, no
network and no route, and that a name, once locked, is the only one it can have
(`LeasesExact` fails without it: a second establishment would forget the first
address). `Leases` adds to `LeasesExact` that the pool knows the client of an
address by its name, which `FixedForOne` and `SameAddress` need after the
client has gone. `Routing` says that a route to a network is an iroute of its
client: a lookup has to find it as long as the client lives, which is what
`Lengths` counts, and a client that takes a network over makes the cache of the
earlier one stale. `Addressed` is the premise's part, `Fixed` what the
read-only file has fixed. `Reported` is about the pass of the event loop that
was interrupted by management commands: what was reported as readable was so
with an empty queue, and closing instances leaves it empty, so that the packet
that is read has a place.

There is a lemma for each function of the code (`LearnAddr`, `AddIroutes`,
`CloseEffect`, `SelectGood`, `EstablishedGood`, `PostGood` and so on) and one for
each action. The functions that loop (over iroutes, instances, and the entries of
the pool's file) are folds; `FoldProofs` has the induction along a fold that
their lemmas use (`FoldInvariant`), in a form that needs no predicate as a
parameter: each step leads from one set of states to the next. `SameAddress` is
an action property, about two instances: the lemmas named `...Regains` follow
the address of the earlier instance from `multi_delete_dup`, which closes it,
to `ifconfig_pool_find`, which finds its entry unused and under its name.

`LabProofs` proves about `Sign`, from `SignAssumption` (paths and contents are
sequences, `"none"` is no key, a block is longer than nothing):

| Theorem | Says |
|---|---|
| `SignTypes` | `TypeOK`: among others, no read passes the end of the text or of the signature |
| `VerdictIsAlwaysRight` | `VerdictIsRight`: the hashes compare equal exactly for the whole signature of this content and path with this key |

and about `Hmac`, from `HmacAssumption` (files hold bytes, the buffers are not
empty):

| Theorem | Says |
|---|---|
| `HmacPrinted` | `PrintsHMAC`: what is printed is the HMAC of the whole text under the bytes of the key that fit the buffer |

`SignInv` says what the digest was fed with at each place of the program
(`Digest`: the part of the file that was read, then the whole of it and the
path), what a verification knows of the signature (`Signature`: past the padding
check the signature is whole, of this key, and its block is the one decrypted),
and that a process that goes on has not failed (`Control`). A short signature
leaves `C_BLOCK` as it was, so `VerdictIsRight` rests on no signature having been
made with the content of uninitialised memory: `"none" \notin Keys`.
`HmacInv` says that the buffer holds the key file up to the byte that was read
and zeros behind it, and that the inner digest was fed with the padded key and
the text up to the offset. Both need that reading a file in pieces gives the
file (`NextRead`, `NextFed`), whatever the pieces.

Only model-checked, and out of the prover's reach: `EventuallyDelivered` of
`ReliableLink`, because TLAPS does not reason about fairness. The properties of
the three runs that end in a violation are false. Every other property that a
run checks is a theorem.

## Plan

1. *Done*: `Sign`, `Hmac`, `Reliable`, `ReliableLink` over `Channel`,
   `PacketId`, `PacketIdPersist`, `PacketIdSend`, `TlsMulti`, `Pool`,
   `MultiServer`, `Retransmit`, and the proofs of every property a run checks
   but the one about liveness: `PacketIdProofs`, `ReliableLinkProofs` (safety and
   refinement), `TlsMultiProofs`, `RetransmitProofs`, `MultiServerProofs` and
   `LabProofs`.
2. `TlsMulti`: an abstract specification (which keys the two peers share) that
   it implements, and what is left of the tunnel after a failed negotiation.
3. `Retransmit`: a run with bounds on its clock, and the handshake window
   against the backoff.
4. `PacketIdSend`: a run with a bound on its log; and `CircList`, the array of
   `circ_list.h`, which implements the function used in `PacketId`.
5. `MultiServer`: the periodic write of the file of the pool, the limits on new
   connections, TCP; `Ping` (`ping.c`) and `LabRouting` (the routes set by
   `vpn.py`).
6. Proofs: the abstract specification of item 2 once it is stated.

## What is not modelled

The other parts of OpenVPN are parsing, system calls and calls into OpenSSL
(options, tun, sockets, management, plugins, certificates, ciphers): there is
no state in them that steps of several actors share, apart from those in the
plan. The drafts below `src/practica3/pruebas` and
`src/practica2/ejemplo_sha1_y_pasar_a_hexadecimal` are earlier versions of the
two programs. In `Sign`, the search for `-v` among the arguments is left out, and a
file that `fopen` cannot open is a failure, where the code tests the pointer with
`< 0` and would go on with NULL. Captures, reports and configuration files are data.
