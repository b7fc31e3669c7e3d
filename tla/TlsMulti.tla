------------------------------ MODULE TlsMulti ------------------------------
(***************************************************************************)
(* The sessions and keys of two peers over UDP (tls_multi, tls_session and *)
(* key_state of ssl.c): the first negotiation, renegotiations that either  *)
(* peer starts, the timeout of a negotiation, new sessions beside a        *)
(* working one, and the retirement of old keys.                            *)
(*                                                                         *)
(* The packets of a key state are reduced to two, its reset and its key;   *)
(* ReliableLink models how they are carried.  A packet that was sent may   *)
(* arrive at any time, any number of times, or never.  Before a peer reads *)
(* the next packet its event loop calls tls_multi_process until nothing is *)
(* left to do and nothing to send, so an action is a packet, or a timer,   *)
(* together with all the calls that follow from it.                        *)
(***************************************************************************)
EXTENDS Integers, FiniteSets, Sequences

CONSTANTS
    Client, Server,
    MaxSid,         \* bound: the session ids a peer draws
    MaxKey,         \* bound: the key ids of a session
    None            \* a session id that is not defined

ASSUME TlsAssumption ==
    /\ Client # Server
    /\ MaxSid \in Nat \ {0} /\ MaxKey \in 0 .. 7
    /\ None \notin {Client, Server} \X Nat

VARIABLES
    multi,      \* struct tls_multi of each peer
    net,        \* the packets that were sent
    calm        \* history: no negotiation failed, or was started by a late copy

vars == <<multi, net, calm>>

Peer == {Client, Server}
Other(p) == IF p = Client THEN Server ELSE Client
Sid == Peer \X (1 .. MaxSid)

S_ERROR == -1
S_UNDEF == 0
S_INITIAL == 1
S_PRE_START == 2
S_START == 3
S_SENT_KEY == 4
S_GOT_KEY == 5
S_ACTIVE == 6       \* S_NORMAL_OP is S_ACTIVE with "settled"

RESET == 0          \* the packet ids
KEY == 1

\* A key state: "acked" and "got" are the packets that the other peer
\* acknowledged, and those it sent, in sequence; "key" is the key that was
\* got, "tls" the session the TLS object talks to; "settled" says that the
\* handshake window is over (must_negotiate, auth_deferred_expire).
key_state_init(id, remote) ==
    [state |-> S_INITIAL, key_id |-> id, remote |-> remote, tls |-> None,
     acked |-> {}, got |-> {}, key |-> <<None, None>>, settled |-> FALSE]

NoKey == [key_state_init(0, None) EXCEPT !.state = S_UNDEF]

\* A session id is drawn when it is first used: before, nobody can see it.
tls_session_init ==
    [sid |-> None, primary |-> key_state_init(0, None), lame |-> NoKey]

NoSession == [tls_session_init EXCEPT !.primary = NoKey]

\* tls_multi_init_finalize; "known" says that the address of the peer is.
tls_multi_init(p) ==
    [active |-> tls_session_init, untrusted |-> tls_session_init,
     lame |-> NoSession, drawn |-> 0, known |-> p = Client]

DecryptKeyEnabled(p, ks) ==
    ks.state >= IF p = Server THEN S_GOT_KEY - 1 ELSE S_GOT_KEY

-----------------------------------------------------------------------------
(* Moves of sessions and keys.                                             *)

\* key_state_soft_reset: the primary key becomes the lame duck, and the
\* lame duck is gone.
key_state_soft_reset(s) ==
    [s EXCEPT !.lame = s.primary,
              !.primary = key_state_init(@.key_id + 1, @.remote)]

\* Mutant: every failed session is reset.
AfterError_Reset(mu, i) == [mu EXCEPT ![i] = tls_session_init]

\* Mutant: the session that was moved away is not initialised again.
AfterError_NoReinit(mu, i) ==
    IF i = "active" /\ mu.active.lame.state >= S_ACTIVE
    THEN [mu EXCEPT !.lame = mu.active, !.active = NoSession]
    ELSE [mu EXCEPT ![i] = tls_session_init]

\* After an error of tls_process: the active session is kept for its lame
\* duck key if that one works, every other one is reset.
AfterError(mu, i) ==
    IF i = "active" /\ mu.active.lame.state >= S_ACTIVE
    THEN [mu EXCEPT !.lame = [mu.active EXCEPT !.primary.state = S_ERROR],
                    !.active = tls_session_init]
    ELSE [mu EXCEPT ![i] = tls_session_init]

\* An untrusted session that has its keys becomes the active one.
Promote(p, mu) ==
    IF DecryptKeyEnabled(p, mu.untrusted.primary)
    THEN [mu EXCEPT !.active = mu.untrusted, !.untrusted = tls_session_init]
    ELSE mu

-----------------------------------------------------------------------------
(* tls_process and tls_multi_process.                                      *)

Sent(ks) == IF ks.state \in {S_SENT_KEY, S_ACTIVE} THEN {RESET, KEY}
            ELSE {RESET}

\* Mutant: the acknowledgement of the key is not awaited.
FullSync_Reset(p, ks) == RESET \in ks.acked

\* FULL_SYNC; the client has sent its key in S_GOT_KEY, too.
FullSync(p, ks) ==
    ks.acked = IF p = Client /\ ks.state = S_GOT_KEY THEN {RESET, KEY} ELSE Sent(ks)

\* A key can be read if it was made for this session by the one it talks to.
Readable(s) == s.primary.key = <<s.primary.tls, s.sid>>

\* The next state of a key state, in the order of the loop in tls_process.
NextState(p, s) ==
    LET ks == s.primary
    IN  CASE ks.state = S_INITIAL -> S_PRE_START
          [] ks.state = S_PRE_START /\ FullSync(p, ks) -> S_START
          [] p = Client /\ ks.state = S_START -> S_SENT_KEY
          [] p = Server /\ ks.state = S_START /\ KEY \in ks.got ->
                IF Readable(s) THEN S_GOT_KEY ELSE S_ERROR
          [] p = Client /\ ks.state = S_SENT_KEY /\ KEY \in ks.got ->
                IF Readable(s) THEN S_GOT_KEY ELSE S_ERROR
          [] p = Server /\ ks.state = S_GOT_KEY -> S_SENT_KEY
          [] p = Client /\ ks.state = S_GOT_KEY /\ FullSync(p, ks) -> S_ACTIVE
          [] p = Server /\ ks.state = S_SENT_KEY /\ FullSync(p, ks) -> S_ACTIVE
          [] OTHER -> ks.state

\* Is a session processed: its peer's address has to be known.
Runs(mu, i) ==
    /\ mu[i].primary.state >= S_INITIAL
    /\ \/ mu[i].primary.remote # None
       \/ i = "active" /\ mu.known

\* One turn of the loop for a session, and what tls_multi_process does with
\* its result.
tls_process(p, mu, i) ==
    LET s == mu[i]
        state == NextState(p, s)
        ks == [s.primary EXCEPT !.state = state,
                                !.tls = IF state = S_START THEN s.primary.remote
                                        ELSE @]
        drawn == IF s.sid = None THEN mu.drawn + 1 ELSE mu.drawn
        turned == [mu EXCEPT ![i].primary = ks,
                             ![i].sid = IF @ = None THEN <<p, drawn>> ELSE @,
                             !.drawn = drawn,
                             !.known = @ \/ state = S_ACTIVE]
    IN  CASE ~Runs(mu, i) -> mu
          [] Runs(mu, i) /\ state = S_ERROR -> AfterError(mu, i)
          [] OTHER -> turned

tls_multi_process(p, mu) ==
    Promote(p, tls_process(p, tls_process(p, mu, "active"), "untrusted"))

\* The calls until nothing is left to do; after four there is nothing.
Quiet(p, mu) ==
    LET Twice(a) == LET b == tls_multi_process(p, a)
                    IN  IF b = a THEN b ELSE tls_multi_process(p, b)
    IN  Twice(Twice(mu))

\* The packets a session sends, again and again: its reset, its key, and the
\* acknowledgements of what it got.
Packets(p, s) ==
    LET ks == s.primary
        Packet(op, to) == [op |-> op, from |-> s.sid, key_id |-> ks.key_id, to |-> to]
        sent == IF p = Client /\ ks.state = S_GOT_KEY THEN {RESET, KEY} ELSE Sent(ks)
        reset == Packet(IF ks.key_id = 0 THEN "hard" ELSE "soft", None)
    IN  IF ks.state < S_PRE_START THEN {}
        ELSE {IF n = RESET THEN reset ELSE Packet("key", ks.tls) : n \in sent}
             \cup {Packet(IF n = RESET THEN "ack0" ELSE "ack1", ks.remote) : n \in ks.got}

\* The end of the actions of a peer: its calls, and the packets of them, as
\* long as the bounds allow.
Then(p, mu) ==
    LET quiet == Quiet(p, mu)
    IN  /\ quiet.drawn <= MaxSid /\ quiet.active.primary.key_id <= MaxKey
        /\ multi' = [multi EXCEPT ![p] = quiet]
        /\ net' = net \cup Packets(p, quiet.active) \cup Packets(p, quiet.untrusted)

-----------------------------------------------------------------------------
(* tls_pre_decrypt, for a control packet.                                  *)

\* Mutant: the retired session is not looked at.
Match_NoLame(mu, sid) ==
    CASE mu.active.primary.remote = sid -> "active"
      [] mu.active.primary.remote # sid /\ mu.untrusted.primary.remote = sid -> "untrusted"
      [] OTHER -> "none"

\* The session of a session id of the other peer.
Match(mu, sid) ==
    CASE mu.active.primary.remote = sid -> "active"
      [] mu.active.primary.remote # sid /\ mu.untrusted.primary.remote = sid -> "untrusted"
      [] mu.active.primary.remote # sid /\ mu.untrusted.primary.remote # sid
            /\ mu.lame.primary.remote = sid -> "lame"
      [] OTHER -> "none"

\* Where a packet belongs: a hard reset of an unknown session opens the
\* active session, or else the untrusted one, whoever that one talked to.
Route(mu, pk) ==
    LET i == Match(mu, pk.from)
    IN  CASE i \in {"active", "untrusted"} -> i
          [] i = "none" /\ pk.op = "hard" ->
                IF mu.active.primary.remote = None THEN "active" ELSE "untrusted"
          [] OTHER -> "none"

\* Is this a request to renegotiate, and not the answer to one.
SoftReset(p, s, pk) == pk.op = "soft" /\ DecryptKeyEnabled(p, s.primary)

\* The acknowledgements, and the packet if it is the next in sequence.
Stored(s, pk) ==
    LET ks == s.primary
        Ack(n) == IF pk.to = s.sid THEN [s EXCEPT !.primary.acked = @ \cup {n}] ELSE s
    IN  CASE pk.key_id # ks.key_id -> s
          [] pk.key_id = ks.key_id /\ pk.op = "ack0" -> Ack(RESET)
          [] pk.key_id = ks.key_id /\ pk.op = "ack1" -> Ack(KEY)
          [] pk.key_id = ks.key_id /\ pk.op \in {"hard", "soft"} ->
                [s EXCEPT !.primary.got = @ \cup {RESET}]
          [] pk.key_id = ks.key_id /\ pk.op = "key" /\ ks.got = {RESET} ->
                [s EXCEPT !.primary.got = {RESET, KEY},
                          !.primary.key = <<pk.from, pk.to>>]
          [] OTHER -> s

\* A packet that has a route.
tls_pre_decrypt(p, mu, pk) ==
    LET i == Route(mu, pk)
        s == mu[i]
        opened == [s EXCEPT !.primary.remote = pk.from]
    IN  IF SoftReset(p, s, pk)
        THEN [mu EXCEPT ![i] = Stored(key_state_soft_reset(s), pk)]
        ELSE [mu EXCEPT ![i] = Stored(opened, pk)]

-----------------------------------------------------------------------------
(* The data channel.                                                       *)

key_scan(mu) == <<[ks |-> mu.active.primary, sid |-> mu.active.sid],
                  [ks |-> mu.active.lame, sid |-> mu.active.sid],
                  [ks |-> mu.lame.lame, sid |-> mu.lame.sid]>>

NoChoice == [ks |-> NoKey, sid |-> None]

\* The first key of a sequence that passes a test.
FirstOf(seq, Test(_)) ==
    IF \E i \in DOMAIN seq : Test(seq[i])
    THEN seq[CHOOSE i \in DOMAIN seq :
                /\ Test(seq[i])
                /\ \A j \in 1 .. i - 1 : ~Test(seq[j])]
    ELSE NoChoice

\* tls_pre_encrypt: the first key whose handshake window is over, or else the
\* first key that is active.
tls_pre_encrypt(p, mu) ==
    LET settled == FirstOf(key_scan(mu),
                           LAMBDA k : k.ks.state >= S_ACTIVE /\ k.ks.settled)
    IN  IF settled # NoChoice THEN settled
        ELSE FirstOf(key_scan(mu), LAMBDA k : k.ks.state >= S_ACTIVE)

\* The key with which a data packet of a key id is decrypted.
DecryptKey(p, mu, id) ==
    FirstOf(key_scan(mu), LAMBDA k : DecryptKeyEnabled(p, k.ks) /\ k.ks.key_id = id)

\* Do two key states of the two peers belong together.
Mates(k, l) ==
    /\ k.ks.key_id = l.ks.key_id
    /\ k.ks.remote = l.sid /\ l.ks.remote = k.sid

-----------------------------------------------------------------------------
(* Actions.                                                                *)

\* Is the negotiation of a key over for the other peer, too: renegotiations
\* (3600 s) and the life of an old key (3600 s) are longer than the handshake
\* window (60 s).
OverForBoth(p, k) ==
    /\ k.ks.settled
    /\ \A i \in 1 .. 3 :
         LET l == key_scan(multi[Other(p)])[i]
         IN  Mates(k, l) => l.ks.settled

\* A control packet arrives, and changes something.
Receive(p) ==
    \E pk \in net :
        LET mu == multi[p]
            i == Route(mu, pk)
            after == tls_pre_decrypt(p, mu, pk)
        IN  /\ pk.from[1] = Other(p)
            /\ i # "none"
            /\ after # mu
            /\ Then(p, after)
            /\ calm' = (calm /\ ~(/\ SoftReset(p, mu[i], pk)
                                  /\ pk.key_id # mu[i].primary.key_id + 1))

\* A peer starts a renegotiation: the soft reset at the head of tls_process.
Renegotiate(p) ==
    LET s == multi[p].active
    IN  /\ s.primary.state >= S_ACTIVE
        /\ OverForBoth(p, key_scan(multi[p])[1])
        /\ Then(p, [multi[p] EXCEPT !.active = key_state_soft_reset(s)])
        /\ UNCHANGED calm

\* The handshake window of a session runs out before it is negotiated.
NegotiationFails(p) ==
    \E i \in {"active", "untrusted"} :
        /\ multi[p][i].primary.state \in S_PRE_START .. S_GOT_KEY
        /\ Then(p, AfterError(multi[p], i))
        /\ calm' = FALSE

\* The handshake window of a key that was negotiated runs out.
Settle(p) ==
    /\ \E k \in {"primary", "lame"} :
         /\ multi[p].active[k].state >= S_ACTIVE
         /\ ~multi[p].active[k].settled
         /\ multi' = [multi EXCEPT ![p].active[k].settled = TRUE]
    /\ UNCHANGED <<net, calm>>

\* The transition window of an old key runs out (lame_duck_must_die).
Expire(p) ==
    /\ \/ /\ multi[p].active.lame.state >= S_INITIAL
          /\ OverForBoth(p, key_scan(multi[p])[1])
          /\ multi' = [multi EXCEPT ![p].active.lame = NoKey]
       \/ /\ multi[p].lame.lame.state >= S_INITIAL
          /\ multi' = [multi EXCEPT ![p].lame = NoSession]
    /\ UNCHANGED <<net, calm>>

Init ==
    /\ multi = [p \in Peer |-> Quiet(p, tls_multi_init(p))]
    /\ net = Packets(Client, multi[Client].active)
    /\ calm = TRUE

Next ==
    \E p \in Peer :
        Receive(p) \/ Renegotiate(p) \/ NegotiationFails(p) \/ Settle(p) \/ Expire(p)

Spec == Init /\ [][Next]_vars

-----------------------------------------------------------------------------
(* Properties.                                                             *)

KeyState ==
    [state : S_ERROR .. S_ACTIVE, key_id : 0 .. MaxKey, remote : Sid \cup {None},
     tls : Sid \cup {None}, acked : SUBSET {RESET, KEY}, got : SUBSET {RESET, KEY},
     key : (Sid \cup {None}) \X (Sid \cup {None}), settled : BOOLEAN]

Session == [sid : Sid \cup {None}, primary : KeyState, lame : KeyState]

\* The type of the state; in particular a session that failed is never left
\* in the state of error, which the ASSERTs of tls_process forbid.
TypeOK ==
    /\ multi \in [Peer -> [active : Session, untrusted : Session, lame : Session,
                           drawn : 0 .. MaxSid, known : BOOLEAN]]
    /\ \A p \in Peer :
         /\ multi[p].active.primary.state >= S_INITIAL
         /\ multi[p].untrusted.primary.state >= S_INITIAL
    /\ calm \in BOOLEAN

\* A session id of the other peer belongs to one session at most, so that
\* tls_pre_decrypt never hands a packet to the wrong one.
OneSessionPerId ==
    \A p \in Peer : \A i, j \in {"active", "untrusted", "lame"} :
        /\ multi[p][i].primary.remote = multi[p][j].primary.remote
        /\ multi[p][i].primary.remote # None
        => i = j

\* Renegotiation is off the critical path of the tunnel (tls_pre_encrypt,
\* tls_pre_decrypt): as long as no negotiation failed, what one peer sends is
\* decrypted by the other one with the key it was encrypted with, whoever
\* renegotiates, and whatever control packets are lost or delayed.
TunnelKeptUp ==
    calm => \A p \in Peer :
        LET k == tls_pre_encrypt(p, multi[p])
            q == Other(p)
        IN  k # NoChoice => Mates(k, DecryptKey(q, multi[q], k.ks.key_id))

\* A negotiation that fails leaves a peer that encrypts a key to encrypt with
\* (tls_multi_process): the same one, or, when that one was a key of the
\* retired session, whose place the failed session takes, the key for whose
\* sake it is kept.
FailureKeepsKey ==
    [][\A p \in Peer :
        LET keys == key_scan(multi[p])
            k == tls_pre_encrypt(p, multi[p])
            l == tls_pre_encrypt(p, multi[p])'
        IN  NegotiationFails(p) /\ k # NoChoice =>
                \/ l = k
                \/ k = keys[3] /\ l = keys[2] /\ l.ks.state >= S_ACTIVE]_vars
=============================================================================
