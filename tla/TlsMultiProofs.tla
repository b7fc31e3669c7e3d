--------------------------- MODULE TlsMultiProofs ---------------------------
(***************************************************************************)
(* Theorems about TlsMulti: the types of the sessions and keys, that a     *)
(* session id of the peer belongs to one session, that nothing is left to  *)
(* do when a peer waits, what a failed negotiation does to the key a peer  *)
(* encrypts with, and that the tunnel stays up as long as none failed.     *)
(*                                                                         *)
(* An action of TlsMulti is a packet or a time, and then the calls of      *)
(* tls_multi_process until nothing is left to do.  In between a peer is    *)
(* outside of its bounds and has an untrusted session that is to be        *)
(* promoted: Mid is what holds of it there, Stable what holds between two  *)
(* actions.  Rest says that the calls have come to their end.  TunnelInv   *)
(* relates the sessions of both peers and the packets while no negotiation *)
(* failed.                                                                 *)
(***************************************************************************)
EXTENDS TlsMulti, TLAPS

AnySid == Sid \cup {None}

\* The ids that a peer has drawn, once it has drawn n of them.
OwnSid(p, n) == ({p} \X (1 .. n)) \cup {None}

\* A key state whose key id may be one past the bound.
WideKey ==
    [state : S_ERROR .. S_ACTIVE, key_id : 0 .. MaxKey + 1, remote : AnySid,
     tls : AnySid, acked : SUBSET {RESET, KEY}, got : SUBSET {RESET, KEY},
     key : AnySid \X AnySid, settled : BOOLEAN]

OpenSession(p, n) == [sid : OwnSid(p, n), primary : WideKey, lame : KeyState]
PastSession(p, n) == [sid : OwnSid(p, n), primary : KeyState, lame : KeyState]

Fields(p, mu) ==
    mu \in [active : OpenSession(p, mu.drawn), untrusted : OpenSession(p, mu.drawn),
            lame : PastSession(p, mu.drawn), drawn : Nat, known : BOOLEAN]

\* A key past the bound was made by the soft reset of this very action.
Fresh(ks) == ks.key_id > MaxKey => ks.state <= S_PRE_START /\ ks.acked = {}

\* OneSessionPerId, of one peer.
Distinct(mu) ==
    /\ mu.active.primary.remote # None =>
         mu.active.primary.remote \notin
            {mu.untrusted.primary.remote, mu.lame.primary.remote}
    /\ mu.untrusted.primary.remote # None =>
         mu.untrusted.primary.remote # mu.lame.primary.remote

Mid(p, mu) ==
    /\ Fields(p, mu)
    /\ mu.active.primary.state >= S_INITIAL /\ mu.untrusted.primary.state >= S_INITIAL
    /\ Fresh(mu.active.primary)
    /\ mu.untrusted.primary.key_id = 0
    /\ Distinct(mu)

Stable(p, mu) ==
    /\ Mid(p, mu)
    /\ ~DecryptKeyEnabled(p, mu.untrusted.primary)
    /\ mu.drawn <= MaxSid /\ mu.active.primary.key_id <= MaxKey

\* The inductive invariant.
IInv ==
    /\ multi = [p \in Peer |-> multi[p]]
    /\ \A p \in Peer : Stable(p, multi[p])
    /\ \A pk \in net : pk.from \in AnySid /\ pk.to \in AnySid
    /\ calm \in BOOLEAN

USE DEF S_ERROR, S_UNDEF, S_INITIAL, S_PRE_START, S_START, S_SENT_KEY,
        S_GOT_KEY, S_ACTIVE

-----------------------------------------------------------------------------
(* The states that are made from nothing.                                  *)

\* A key state that was initialised has the types of one.
LEMMA KeyInit ==
    ASSUME NEW k \in 0 .. MaxKey + 1, NEW r \in AnySid
    PROVE  /\ key_state_init(k, r) \in WideKey
           /\ k <= MaxKey => key_state_init(k, r) \in KeyState
    BY TlsAssumption DEF key_state_init, WideKey, KeyState, AnySid

\* The empty sessions have the types of sessions.
LEMMA SessionInit ==
    ASSUME NEW p \in Peer, NEW n \in Nat
    PROVE  /\ NoKey \in KeyState
           /\ tls_session_init \in PastSession(p, n)
           /\ tls_session_init \in OpenSession(p, n)
           /\ NoSession \in PastSession(p, n)
  <1>1. None \in AnySid /\ 0 \in 0 .. MaxKey + 1 /\ 0 <= MaxKey
    BY TlsAssumption DEF AnySid
  <1>2. key_state_init(0, None) \in WideKey /\ key_state_init(0, None) \in KeyState
    BY <1>1, KeyInit
  <1>3. NoKey \in KeyState
    BY <1>2 DEF NoKey, KeyState
  <1> QED
    BY <1>2, <1>3 DEF tls_session_init, NoSession, PastSession, OpenSession, OwnSid

\* What was drawn stays drawn.
LEMMA OwnGrows ==
    ASSUME NEW p, NEW n \in Nat, NEW m \in Nat, n <= m
    PROVE  /\ OwnSid(p, n) \subseteq OwnSid(p, m)
           /\ OpenSession(p, n) \subseteq OpenSession(p, m)
           /\ PastSession(p, n) \subseteq PastSession(p, m)
  <1>1. OwnSid(p, n) \subseteq OwnSid(p, m)
    BY DEF OwnSid
  <1> QED
    BY <1>1 DEF OpenSession, PastSession

-----------------------------------------------------------------------------
(* tls_process and tls_multi_process.                                      *)

\* The loop of tls_process leaves a state of the list; a key that is fresh
\* does not get further than S_PRE_START.
LEMMA NextStateType ==
    ASSUME NEW p \in Peer, NEW s, s.primary \in WideKey,
           s.primary.state >= S_INITIAL
    PROVE  /\ NextState(p, s) \in {S_ERROR} \cup (S_INITIAL .. S_ACTIVE)
           /\ s.primary.state <= S_PRE_START /\ s.primary.acked = {} =>
                NextState(p, s) = S_PRE_START
  <1>1. FullSync(p, s.primary) => s.primary.acked # {}
    BY DEF FullSync, Sent, WideKey
  <1>2. NextState(p, s) \in {S_ERROR} \cup (S_INITIAL .. S_ACTIVE)
    BY DEF NextState, WideKey
  <1> QED
    BY <1>1, <1>2 DEF NextState, WideKey

\* The reset or the removal of a session after an error.
LEMMA AfterErrorEffect ==
    ASSUME NEW p \in Peer, NEW mu, Mid(p, mu), NEW i \in {"active", "untrusted"},
           i = "active" => mu.active.primary.key_id <= MaxKey
    PROVE  Mid(p, AfterError(mu, i))
  <1> DEFINE nu == AfterError(mu, i)
  <1>1. tls_session_init \in OpenSession(p, mu.drawn)
    BY SessionInit DEF Mid, Fields
  <1>2. /\ tls_session_init.primary.remote = None
        /\ tls_session_init.primary.state = S_INITIAL
        /\ tls_session_init.primary.key_id = 0
    BY DEF tls_session_init, key_state_init
  <1>3. MaxKey \in Nat
    BY TlsAssumption
  <1>4. CASE i = "active" /\ mu.active.lame.state >= S_ACTIVE
    <2>1. nu = [mu EXCEPT !.lame = [mu.active EXCEPT !.primary.state = S_ERROR],
                          !.active = tls_session_init]
      BY <1>4 DEF AfterError
    <2>2. [mu.active EXCEPT !.primary.state = S_ERROR] \in PastSession(p, mu.drawn)
      BY <1>4 DEF Mid, Fields, OpenSession, PastSession, WideKey, KeyState, AnySid
    <2>3. [mu.active EXCEPT !.primary.state = S_ERROR].primary.remote
            = mu.active.primary.remote
      BY DEF Mid, Fields, OpenSession, WideKey
    <2>4. /\ nu.active = tls_session_init /\ nu.untrusted = mu.untrusted
          /\ nu.lame = [mu.active EXCEPT !.primary.state = S_ERROR]
          /\ nu.drawn = mu.drawn
      BY <2>1 DEF Mid, Fields
    <2>5. Fields(p, nu)
      BY <2>1, <2>2, <1>1 DEF Mid, Fields
    <2> QED
      BY <2>3, <2>4, <2>5, <1>2, <1>3 DEF Mid, Distinct, Fresh
  <1>5. CASE ~(i = "active" /\ mu.active.lame.state >= S_ACTIVE)
    <2>1. nu = [mu EXCEPT ![i] = tls_session_init]
      BY <1>5 DEF AfterError
    <2>2. Fields(p, nu)
      BY <2>1, <1>1 DEF Mid, Fields
    <2>3. /\ nu.active \in {mu.active, tls_session_init}
          /\ nu.untrusted \in {mu.untrusted, tls_session_init}
          /\ nu.lame = mu.lame
      BY <2>1 DEF Mid, Fields
    <2> QED
      BY <2>2, <2>3, <1>2, <1>3 DEF Mid, Distinct, Fresh
  <1> QED
    BY <1>4, <1>5

\* One turn of the loop of a session, and what is done with its result.
LEMMA ProcessEffect ==
    ASSUME NEW p \in Peer, NEW mu, Mid(p, mu), NEW i \in {"active", "untrusted"}
    PROVE  Mid(p, tls_process(p, mu, i))
  <1> DEFINE s == mu[i]
             state == NextState(p, s)
             ks == [s.primary EXCEPT !.state = state,
                                     !.tls = IF state = S_START THEN s.primary.remote
                                             ELSE @]
             drawn == IF s.sid = None THEN mu.drawn + 1 ELSE mu.drawn
             turned == [mu EXCEPT ![i].primary = ks,
                                  ![i].sid = IF @ = None THEN <<p, drawn>> ELSE @,
                                  !.drawn = drawn,
                                  !.known = @ \/ state = S_ACTIVE]
  <1>1. /\ s \in OpenSession(p, mu.drawn)
        /\ s.primary.state >= S_INITIAL
        /\ s.primary \in WideKey
        /\ Fresh(s.primary)
        /\ s.primary.key_id > MaxKey => i = "active"
    <2>1. MaxKey \in Nat
      BY TlsAssumption
    <2> QED
      BY <2>1 DEF Mid, Fields, OpenSession, Fresh
  <1>2. /\ state \in {S_ERROR} \cup (S_INITIAL .. S_ACTIVE)
        /\ s.primary.key_id > MaxKey => state = S_PRE_START
    BY <1>1, NextStateType DEF Fresh
  <1>3. CASE ~Runs(mu, i)
    BY <1>3 DEF tls_process
  <1>4. CASE Runs(mu, i) /\ state = S_ERROR
    <2>1. tls_process(p, mu, i) = AfterError(mu, i)
      BY <1>4 DEF tls_process
    <2>2. s.primary.key_id <= MaxKey
      BY <1>1, <1>2, <1>4, TlsAssumption DEF WideKey
    <2> QED
      BY <2>1, <2>2, AfterErrorEffect
  <1>5. CASE Runs(mu, i) /\ state # S_ERROR
    <2>1. tls_process(p, mu, i) = turned
      BY <1>5 DEF tls_process
    <2>2. /\ ks \in WideKey /\ ks.remote = s.primary.remote
          /\ ks.key_id = s.primary.key_id
          /\ ks.acked = s.primary.acked /\ ks.state = state
      <3> DEFINE tls == IF state = S_START THEN s.primary.remote ELSE s.primary.tls
      <3>1. state \in S_ERROR .. S_ACTIVE
        BY <1>2
      <3>2. tls \in AnySid
        BY <1>1 DEF WideKey
      <3>3. ks = [s.primary EXCEPT !.state = state, !.tls = tls]
        OBVIOUS
      <3> HIDE DEF state, tls, ks
      <3> QED
        BY <1>1, <3>1, <3>2, <3>3 DEF WideKey
    <2>3. /\ drawn \in Nat /\ mu.drawn \in Nat /\ mu.drawn <= drawn
          /\ (IF s.sid = None THEN <<p, drawn>> ELSE s.sid) \in OwnSid(p, drawn)
      BY <1>1 DEF Mid, Fields, OpenSession, OwnSid
    <2>4. Fresh(ks)
      BY <2>2, <1>1, <1>2 DEF Fresh
    <2>5. [s EXCEPT !.primary = ks, !.sid = IF @ = None THEN <<p, drawn>> ELSE @]
            \in OpenSession(p, drawn)
      BY <1>1, <2>2, <2>3 DEF OpenSession
    <2>6. /\ OpenSession(p, mu.drawn) \subseteq OpenSession(p, drawn)
          /\ PastSession(p, mu.drawn) \subseteq PastSession(p, drawn)
      BY <2>3, OwnGrows
    <2> DEFINE t == [s EXCEPT !.primary = ks,
                              !.sid = IF @ = None THEN <<p, drawn>> ELSE @]
    <2>7. turned = [mu EXCEPT ![i] = t, !.drawn = drawn,
                              !.known = @ \/ state = S_ACTIVE]
      BY DEF Mid, Fields
    <2>8. t.primary = ks
      BY <1>1 DEF OpenSession
    <2> DEFINE known == mu.known \/ state = S_ACTIVE
    <2>9. /\ turned.active = IF i = "active" THEN t ELSE mu.active
          /\ turned.untrusted = IF i = "untrusted" THEN t ELSE mu.untrusted
          /\ turned.lame = mu.lame /\ turned.drawn = drawn
      <3> HIDE DEF t, drawn, state
      <3> QED
        BY <2>7 DEF Mid, Fields
    <2>10. known \in BOOLEAN
      OBVIOUS
    <2>11. /\ t \in OpenSession(p, drawn)
           /\ mu.active \in OpenSession(p, drawn)
           /\ mu.untrusted \in OpenSession(p, drawn)
           /\ mu.lame \in PastSession(p, drawn)
      BY <2>5, <2>6 DEF Mid, Fields
    <2>12. turned = [mu EXCEPT ![i] = t, !.drawn = drawn, !.known = known]
      BY <2>7
    <2>13. Fields(p, turned)
      <3> HIDE DEF turned, t, drawn, known
      <3> QED
        BY <2>3, <2>9, <2>10, <2>11, <2>12 DEF Mid, Fields
    <2>14. /\ turned.active.primary.remote = mu.active.primary.remote
           /\ turned.untrusted.primary.remote = mu.untrusted.primary.remote
           /\ turned.untrusted.primary.key_id = mu.untrusted.primary.key_id
           /\ turned.active.primary.state >= S_INITIAL
           /\ turned.untrusted.primary.state >= S_INITIAL
           /\ Fresh(turned.active.primary)
      <3>1. ks.state >= S_INITIAL
        BY <2>2, <1>2, <1>5
      <3> HIDE DEF turned, t, ks
      <3> QED
        BY <2>2, <2>4, <2>8, <2>9, <3>1 DEF Mid
    <2> QED
      <3> HIDE DEF turned
      <3> QED
        BY <2>1, <2>9, <2>13, <2>14 DEF Mid, Distinct
  <1> QED
    BY <1>3, <1>4, <1>5

\* The untrusted session becomes the active one, and none is to be promoted.
LEMMA PromoteEffect ==
    ASSUME NEW p \in Peer, NEW mu, Mid(p, mu)
    PROVE  /\ Mid(p, Promote(p, mu))
           /\ ~DecryptKeyEnabled(p, Promote(p, mu).untrusted.primary)
  <1>1. CASE DecryptKeyEnabled(p, mu.untrusted.primary)
    <2> DEFINE nu == [mu EXCEPT !.active = mu.untrusted, !.untrusted = tls_session_init]
    <2>1. Promote(p, mu) = nu
      BY <1>1 DEF Promote
    <2>2. /\ tls_session_init \in OpenSession(p, mu.drawn)
          /\ tls_session_init.primary.remote = None
          /\ tls_session_init.primary.state = S_INITIAL
          /\ tls_session_init.primary.key_id = 0
      BY SessionInit DEF Mid, Fields, tls_session_init, key_state_init
    <2>3. MaxKey \in Nat
      BY TlsAssumption
    <2>4. Fields(p, nu)
      BY <2>2 DEF Mid, Fields
    <2>5. /\ nu.active = mu.untrusted /\ nu.untrusted = tls_session_init
          /\ nu.lame = mu.lame
      BY DEF Mid, Fields
    <2>6. ~DecryptKeyEnabled(p, nu.untrusted.primary)
      BY <2>2, <2>5 DEF DecryptKeyEnabled
    <2> QED
      BY <2>1, <2>2, <2>3, <2>4, <2>5, <2>6 DEF Mid, Distinct, Fresh
  <1>2. CASE ~DecryptKeyEnabled(p, mu.untrusted.primary)
    BY <1>2 DEF Promote
  <1> QED
    BY <1>1, <1>2

\* One call of tls_multi_process.
LEMMA MultiProcessEffect ==
    ASSUME NEW p \in Peer, NEW mu, Mid(p, mu)
    PROVE  /\ Mid(p, tls_multi_process(p, mu))
           /\ ~DecryptKeyEnabled(p, tls_multi_process(p, mu).untrusted.primary)
  <1>1. Mid(p, tls_process(p, mu, "active"))
    BY ProcessEffect
  <1>2. Mid(p, tls_process(p, tls_process(p, mu, "active"), "untrusted"))
    BY <1>1, ProcessEffect
  <1> QED
    BY <1>2, PromoteEffect DEF tls_multi_process

\* All the calls that follow a packet or a time.
LEMMA QuietEffect ==
    ASSUME NEW p \in Peer, NEW mu, Mid(p, mu)
    PROVE  /\ Mid(p, Quiet(p, mu))
           /\ ~DecryptKeyEnabled(p, Quiet(p, mu).untrusted.primary)
  <1> DEFINE Twice(a) == LET b == tls_multi_process(p, a)
                         IN  IF b = a THEN b ELSE tls_multi_process(p, b)
  <1>1. ASSUME NEW a, Mid(p, a)
        PROVE  /\ Mid(p, Twice(a))
               /\ ~DecryptKeyEnabled(p, Twice(a).untrusted.primary)
    <2>1. Mid(p, tls_multi_process(p, a))
      BY <1>1, MultiProcessEffect
    <2> QED
      BY <2>1, MultiProcessEffect
  <1>2. Quiet(p, mu) = Twice(Twice(mu))
    BY DEF Quiet
  <1> HIDE DEF Twice
  <1>3. Mid(p, Twice(mu))
    BY <1>1
  <1> QED
    BY <1>1, <1>2, <1>3

-----------------------------------------------------------------------------
(* tls_pre_decrypt.                                                        *)

\* The acknowledgements and packets that are stored leave the address, the
\* key id and the state of a key alone.
LEMMA StoredEffect ==
    ASSUME NEW p \in Peer, NEW n \in Nat, NEW s \in OpenSession(p, n), NEW pk,
           pk.from \in AnySid, pk.to \in AnySid
    PROVE  LET t == Stored(s, pk)
           IN  /\ t \in OpenSession(p, n)
               /\ t.primary.remote = s.primary.remote
               /\ t.primary.key_id = s.primary.key_id
               /\ t.primary.state = s.primary.state
               /\ pk.op = "soft" => t.primary.acked = s.primary.acked
  <1> DEFINE t == Stored(s, pk)
             Ack(k) == [s EXCEPT !.primary.acked = @ \cup {k}]
             One == [s EXCEPT !.primary.got = @ \cup {RESET}]
             Both == [s EXCEPT !.primary.got = {RESET, KEY},
                               !.primary.key = <<pk.from, pk.to>>]
             Keeps(u) == /\ u \in OpenSession(p, n)
                         /\ u.primary.remote = s.primary.remote
                         /\ u.primary.key_id = s.primary.key_id
                         /\ u.primary.state = s.primary.state
  <1>1. Keeps(s)
    OBVIOUS
  <1>2. Keeps(Ack(RESET)) /\ Keeps(Ack(KEY))
    BY DEF OpenSession, WideKey
  <1>3. Keeps(One) /\ One.primary.acked = s.primary.acked
    BY DEF OpenSession, WideKey
  <1>4. Keeps(Both)
    BY DEF OpenSession, WideKey
  <1>5. t \in {s, Ack(RESET), Ack(KEY), One, Both}
    BY DEF Stored
  <1>6. pk.op = "soft" => t \in {s, One}
    BY DEF Stored
  <1> HIDE DEF t, Ack, One, Both
  <1>7. Keeps(t) /\ (pk.op = "soft" => t.primary.acked = s.primary.acked)
    BY <1>1, <1>2, <1>3, <1>4, <1>5, <1>6
  <1> QED
    BY <1>7 DEF t

\* The retired key is one that was not fresh; the new one is.
LEMMA SoftResetEffect ==
    ASSUME NEW p \in Peer, NEW n \in Nat, NEW s \in OpenSession(p, n),
           s.primary.key_id <= MaxKey
    PROVE  LET t == key_state_soft_reset(s)
           IN  /\ t \in OpenSession(p, n)
               /\ t.primary.remote = s.primary.remote
               /\ t.primary.state = S_INITIAL
               /\ t.primary.acked = {}
  <1> DEFINE t == key_state_soft_reset(s)
             new == key_state_init(s.primary.key_id + 1, s.primary.remote)
  <1>1. s.primary \in KeyState
    BY TlsAssumption DEF OpenSession, WideKey, KeyState, AnySid
  <1>2. s.primary.key_id + 1 \in 0 .. MaxKey + 1 /\ s.primary.remote \in AnySid
    BY TlsAssumption DEF OpenSession, WideKey
  <1>3. new \in WideKey
    BY <1>2, KeyInit
  <1>4. new.remote = s.primary.remote /\ new.state = S_INITIAL /\ new.acked = {}
    BY DEF key_state_init
  <1>5. t = [s EXCEPT !.lame = s.primary, !.primary = new]
    BY DEF key_state_soft_reset
  <1> HIDE DEF t, new
  <1>6. t \in OpenSession(p, n) /\ t.primary = new
    BY <1>1, <1>3, <1>5 DEF OpenSession
  <1> QED
    BY <1>4, <1>6 DEF t

\* A session replaced by another one with the same address, or with one that
\* no session has.
LEMMA ReplaceEffect ==
    ASSUME NEW p \in Peer, NEW mu, Stable(p, mu), NEW i \in {"active", "untrusted"},
           NEW t \in OpenSession(p, mu.drawn), Fresh(t.primary),
           t.primary.state >= S_INITIAL,
           i = "untrusted" => t.primary.key_id = 0,
           \/ t.primary.remote = mu[i].primary.remote
           \/ \A j \in {"active", "untrusted", "lame"} :
                 mu[j].primary.remote # t.primary.remote
    PROVE  Mid(p, [mu EXCEPT ![i] = t])
  <1> DEFINE nu == [mu EXCEPT ![i] = t]
  <1>1. /\ nu.active = IF i = "active" THEN t ELSE mu.active
        /\ nu.untrusted = IF i = "untrusted" THEN t ELSE mu.untrusted
        /\ nu.lame = mu.lame /\ nu.drawn = mu.drawn
    BY DEF Stable, Mid, Fields
  <1>2. Fields(p, nu)
    BY <1>1 DEF Stable, Mid, Fields
  <1>3. Distinct(nu)
    <2> HIDE DEF nu
    <2>1. CASE i = "active"
      BY <2>1, <1>1 DEF Stable, Mid, Distinct
    <2>2. CASE i = "untrusted"
      BY <2>2, <1>1 DEF Stable, Mid, Distinct
    <2> QED
      BY <2>1, <2>2
  <1> HIDE DEF nu
  <1>4. Mid(p, nu)
    BY <1>1, <1>2, <1>3 DEF Stable, Mid
  <1> QED
    BY <1>4 DEF nu

\* A session is opened, or restarted, for the session id of the packet only
\* if no other session has it.
LEMMA RouteEffect ==
    ASSUME NEW mu, NEW pk, Route(mu, pk) # "none"
    PROVE  /\ Route(mu, pk) \in {"active", "untrusted"}
           /\ \/ mu[Route(mu, pk)].primary.remote = pk.from
              \/ /\ pk.op = "hard"
                 /\ \A j \in {"active", "untrusted", "lame"} :
                       mu[j].primary.remote # pk.from
  <1>1. Match(mu, pk.from) = "active" => mu.active.primary.remote = pk.from
    BY DEF Match
  <1>2. Match(mu, pk.from) = "untrusted" => mu.untrusted.primary.remote = pk.from
    BY DEF Match
  <1>3. Match(mu, pk.from) = "none" =>
           \A j \in {"active", "untrusted", "lame"} : mu[j].primary.remote # pk.from
    BY DEF Match
  <1> QED
    BY <1>1, <1>2, <1>3 DEF Route

\* A control packet that has a route.
LEMMA PreDecryptEffect ==
    ASSUME NEW p \in Peer, NEW mu, Stable(p, mu), NEW pk, pk.from \in AnySid,
           pk.to \in AnySid, Route(mu, pk) # "none"
    PROVE  Mid(p, tls_pre_decrypt(p, mu, pk))
  <1> DEFINE i == Route(mu, pk)
             s == mu[i]
             opened == [s EXCEPT !.primary.remote = pk.from]
  <1>1. /\ i \in {"active", "untrusted"}
        /\ \/ s.primary.remote = pk.from
           \/ /\ pk.op = "hard"
              /\ \A j \in {"active", "untrusted", "lame"} :
                       mu[j].primary.remote # pk.from
    BY RouteEffect
  <1> HIDE DEF i
  <1>2. /\ s \in OpenSession(p, mu.drawn) /\ s.primary.state >= S_INITIAL
        /\ s.primary.key_id <= MaxKey /\ s.primary.key_id \in Nat /\ mu.drawn \in Nat
        /\ i = "untrusted" => s.primary.key_id = 0 /\ ~DecryptKeyEnabled(p, s.primary)
    BY <1>1, TlsAssumption DEF Stable, Mid, Fields, OpenSession, WideKey
  <1>3. CASE SoftReset(p, s, pk)
    <2> DEFINE t == Stored(key_state_soft_reset(s), pk)
    <2>1. tls_pre_decrypt(p, mu, pk) = [mu EXCEPT ![i] = t]
      BY <1>3 DEF tls_pre_decrypt, i
    <2>2. i = "active" /\ pk.op = "soft"
      BY <1>1, <1>2, <1>3 DEF SoftReset
    <2>3. /\ key_state_soft_reset(s) \in OpenSession(p, mu.drawn)
          /\ key_state_soft_reset(s).primary.remote = s.primary.remote
          /\ key_state_soft_reset(s).primary.state = S_INITIAL
          /\ key_state_soft_reset(s).primary.acked = {}
      BY <1>2, SoftResetEffect
    <2>4. /\ t \in OpenSession(p, mu.drawn) /\ Fresh(t.primary)
          /\ t.primary.state >= S_INITIAL
          /\ t.primary.remote = s.primary.remote
      BY <1>2, <2>2, <2>3, StoredEffect DEF Fresh
    <2> HIDE DEF t
    <2>5. Mid(p, [mu EXCEPT ![i] = t])
      BY <2>2, <2>4, ReplaceEffect
    <2> QED
      BY <2>1, <2>5
  <1>4. CASE ~SoftReset(p, s, pk)
    <2> DEFINE t == Stored(opened, pk)
    <2>1. tls_pre_decrypt(p, mu, pk) = [mu EXCEPT ![i] = t]
      BY <1>4 DEF tls_pre_decrypt, i
    <2>2. /\ opened \in OpenSession(p, mu.drawn)
          /\ opened.primary.remote = pk.from
          /\ opened.primary.state = s.primary.state
          /\ opened.primary.key_id = s.primary.key_id
      BY <1>2 DEF OpenSession, WideKey
    <2> HIDE DEF opened
    <2>3. /\ t \in OpenSession(p, mu.drawn)
          /\ t.primary.remote = pk.from
          /\ t.primary.state = s.primary.state
          /\ t.primary.key_id = s.primary.key_id
      BY <1>2, <2>2, StoredEffect
    <2>4. Fresh(t.primary)
      BY <1>2, <2>3, TlsAssumption DEF Fresh
    <2> HIDE DEF t
    <2>5. \/ t.primary.remote = mu[i].primary.remote
          \/ \A j \in {"active", "untrusted", "lame"} :
                mu[j].primary.remote # t.primary.remote
      BY <1>1, <2>3
    <2>6. Mid(p, [mu EXCEPT ![i] = t])
      BY <1>1, <1>2, <2>3, <2>4, <2>5, ReplaceEffect
    <2> QED
      BY <2>1, <2>6
  <1> QED
    BY <1>3, <1>4

-----------------------------------------------------------------------------
(* The actions.                                                            *)

\* The packets of a session carry its ids.
LEMMA PacketsType ==
    ASSUME NEW p \in Peer, NEW n \in 0 .. MaxSid, NEW s \in OpenSession(p, n),
           NEW pk \in Packets(p, s)
    PROVE  pk.from \in AnySid /\ pk.to \in AnySid
  <1>1. s.sid \in AnySid
    BY TlsAssumption DEF OpenSession, OwnSid, AnySid, Sid
  <1>2. s.primary.tls \in AnySid /\ s.primary.remote \in AnySid /\ None \in AnySid
    BY DEF OpenSession, WideKey, AnySid
  <1> QED
    BY <1>1, <1>2 DEF Packets

\* The end of an action.
LEMMA ThenEffect ==
    ASSUME IInv, NEW p \in Peer, NEW mu, Mid(p, mu), Then(p, mu), calm' \in BOOLEAN
    PROVE  IInv'
  <1> DEFINE quiet == Quiet(p, mu)
  <1>1. /\ quiet.drawn <= MaxSid /\ quiet.active.primary.key_id <= MaxKey
        /\ multi' = [multi EXCEPT ![p] = quiet]
        /\ net' = net \cup Packets(p, quiet.active) \cup Packets(p, quiet.untrusted)
    BY DEF Then
  <1>2. Stable(p, quiet)
    BY <1>1, QuietEffect DEF Stable
  <1>3. /\ quiet.drawn \in 0 .. MaxSid
        /\ quiet.active \in OpenSession(p, quiet.drawn)
        /\ quiet.untrusted \in OpenSession(p, quiet.drawn)
    BY <1>1, <1>2, TlsAssumption DEF Stable, Mid, Fields
  <1> HIDE DEF quiet
  <1>4. \A pk \in net' : pk.from \in AnySid /\ pk.to \in AnySid
    BY <1>1, <1>3, PacketsType DEF IInv
  <1>5. /\ multi' = [q \in Peer |-> multi'[q]]
        /\ \A q \in Peer : Stable(q, multi'[q])
    BY <1>1, <1>2 DEF IInv
  <1> QED
    BY <1>4, <1>5 DEF IInv

\* A control packet arrives.
LEMMA ReceiveKeeps ==
    ASSUME IInv, NEW p \in Peer, Receive(p)
    PROVE  IInv'
  <1>1. PICK pk \in net :
           /\ Route(multi[p], pk) # "none"
           /\ Then(p, tls_pre_decrypt(p, multi[p], pk))
           /\ calm' \in BOOLEAN
    BY DEF Receive, IInv
  <1>2. Mid(p, tls_pre_decrypt(p, multi[p], pk))
    BY <1>1, PreDecryptEffect DEF IInv
  <1> QED
    BY <1>1, <1>2, ThenEffect

\* A renegotiation starts.
LEMMA RenegotiateKeeps ==
    ASSUME IInv, NEW p \in Peer, Renegotiate(p)
    PROVE  IInv'
  <1> DEFINE mu == multi[p]
             t == key_state_soft_reset(mu.active)
  <1>1. Stable(p, mu)
    BY DEF IInv
  <1>2. Then(p, [mu EXCEPT !.active = t]) /\ calm' \in BOOLEAN
    BY DEF Renegotiate, IInv
  <1>3. /\ mu.active \in OpenSession(p, mu.drawn) /\ mu.drawn \in Nat
        /\ mu.active.primary.key_id <= MaxKey
    BY <1>1 DEF Stable, Mid, Fields
  <1>4. /\ t \in OpenSession(p, mu.drawn)
        /\ t.primary.remote = mu.active.primary.remote
        /\ t.primary.state = S_INITIAL /\ t.primary.acked = {}
    BY <1>3, SoftResetEffect
  <1> HIDE DEF t, mu
  <1>5. Mid(p, [mu EXCEPT !["active"] = t])
    BY <1>1, <1>4, ReplaceEffect DEF Fresh
  <1> QED
    BY <1>2, <1>5, ThenEffect

\* A negotiation runs out of time.
LEMMA FailureKeeps ==
    ASSUME IInv, NEW p \in Peer, NegotiationFails(p)
    PROVE  IInv'
  <1>1. PICK i \in {"active", "untrusted"} : Then(p, AfterError(multi[p], i))
    BY DEF NegotiationFails
  <1>2. calm' \in BOOLEAN
    BY DEF NegotiationFails
  <1>3. Mid(p, AfterError(multi[p], i))
    BY AfterErrorEffect DEF IInv, Stable
  <1> QED
    BY <1>1, <1>2, <1>3, ThenEffect

\* The handshake window of a key runs out.
LEMMA SettleKeeps ==
    ASSUME IInv, NEW p \in Peer, Settle(p)
    PROVE  IInv'
  <1> DEFINE mu == multi[p]
  <1>1. PICK k \in {"primary", "lame"} :
           multi' = [multi EXCEPT ![p].active[k].settled = TRUE]
    BY DEF Settle
  <1> DEFINE t == [mu.active EXCEPT ![k].settled = TRUE]
             nu == [mu EXCEPT !.active = t]
  <1>2. multi' = [multi EXCEPT ![p] = nu]
    BY <1>1
  <1>3. Stable(p, mu)
    BY DEF IInv
  <1>4. mu.active \in OpenSession(p, mu.drawn)
    BY <1>3 DEF Stable, Mid, Fields
  <1>5. /\ t \in OpenSession(p, mu.drawn)
        /\ t.primary.remote = mu.active.primary.remote
        /\ t.primary.key_id = mu.active.primary.key_id
        /\ t.primary.state = mu.active.primary.state
        /\ t.primary.acked = mu.active.primary.acked
    <2>1. CASE k = "primary"
      BY <2>1, <1>4 DEF OpenSession, WideKey
    <2>2. CASE k = "lame"
      BY <2>2, <1>4 DEF OpenSession, KeyState
    <2> QED
      BY <2>1, <2>2
  <1>6. /\ nu.active = t /\ nu.untrusted = mu.untrusted /\ nu.drawn = mu.drawn
    <2> HIDE DEF t
    <2> QED
      BY <1>3 DEF Stable, Mid, Fields
  <1>7. Stable(p, nu)
    <2> HIDE DEF t
    <2>1. Fresh(t.primary) /\ t.primary.state >= S_INITIAL
      BY <1>3, <1>5 DEF Stable, Mid, Fresh
    <2> HIDE DEF mu
    <2>2. Mid(p, [mu EXCEPT !["active"] = t])
      BY <1>3, <1>5, <2>1, ReplaceEffect
    <2>3. Mid(p, nu)
      BY <2>2
    <2> QED
      BY <2>3, <1>3, <1>5, <1>6 DEF Stable
  <1> HIDE DEF nu
  <1> QED
    BY <1>2, <1>7 DEF IInv, Settle

\* An old key dies.
LEMMA ExpireKeeps ==
    ASSUME IInv, NEW p \in Peer, Expire(p)
    PROVE  IInv'
  <1> DEFINE mu == multi[p]
  <1>1. Stable(p, mu)
    BY DEF IInv
  <1>2. /\ mu.active \in OpenSession(p, mu.drawn) /\ mu.drawn \in Nat
        /\ NoKey \in KeyState /\ NoSession \in PastSession(p, mu.drawn)
    BY <1>1, SessionInit DEF Stable, Mid, Fields
  <1>3. CASE multi' = [multi EXCEPT ![p].active.lame = NoKey]
    <2> DEFINE t == [mu.active EXCEPT !.lame = NoKey]
               nu == [mu EXCEPT !.active = t]
    <2>1. multi' = [multi EXCEPT ![p] = nu]
      BY <1>3
    <2>2. t \in OpenSession(p, mu.drawn) /\ t.primary = mu.active.primary
      BY <1>2 DEF OpenSession
    <2>3. /\ nu.active = t /\ nu.untrusted = mu.untrusted /\ nu.drawn = mu.drawn
      <3> HIDE DEF t
      <3> QED
        BY <1>1 DEF Stable, Mid, Fields
    <2>4. Stable(p, nu)
      <3> HIDE DEF t
      <3>1. Mid(p, [mu EXCEPT !["active"] = t])
        BY <1>1, <2>2, ReplaceEffect DEF Stable, Mid
      <3> QED
        BY <3>1, <1>1, <2>2, <2>3 DEF Stable
    <2> HIDE DEF nu
    <2> QED
      BY <2>1, <2>4 DEF IInv, Expire
  <1>4. CASE multi' = [multi EXCEPT ![p].lame = NoSession]
    <2> DEFINE nu == [mu EXCEPT !.lame = NoSession]
    <2>1. multi' = [multi EXCEPT ![p] = nu]
      BY <1>4
    <2>2. /\ nu.active = mu.active /\ nu.untrusted = mu.untrusted
          /\ nu.drawn = mu.drawn /\ nu.lame = NoSession
      BY <1>1 DEF Stable, Mid, Fields
    <2>3. Fields(p, nu)
      BY <1>1, <1>2 DEF Stable, Mid, Fields
    <2>4. NoSession.primary.remote = None
      BY DEF NoSession, tls_session_init, NoKey, key_state_init
    <2> HIDE DEF nu
    <2>5. Stable(p, nu)
      BY <1>1, <2>2, <2>3, <2>4 DEF Stable, Mid, Distinct
    <2> QED
      BY <2>1, <2>5 DEF IInv, Expire
  <1> QED
    BY <1>3, <1>4 DEF Expire

\* Every step keeps the invariant.
LEMMA StepKeeps ==
    ASSUME IInv, [Next]_vars
    PROVE  IInv'
  <1>1. CASE Next
    BY <1>1, ReceiveKeeps, RenegotiateKeeps, FailureKeeps, SettleKeeps, ExpireKeeps
    DEF Next
  <1>2. CASE UNCHANGED vars
    BY <1>2 DEF vars, IInv
  <1> QED
    BY <1>1, <1>2

-----------------------------------------------------------------------------
(* The start.                                                              *)

\* A peer that has received nothing.
Early(mu) ==
    /\ mu.active.primary.state \in {S_INITIAL, S_PRE_START}
    /\ mu.active.primary.acked = {} /\ mu.active.primary.key_id = 0
    /\ mu.untrusted = tls_session_init
    /\ mu.drawn \in {0, 1}
    /\ mu.active.sid = None => mu.drawn = 0

\* Such a peer draws the id of its active session, and no other one.
LEMMA EarlyStays ==
    ASSUME NEW p \in Peer, NEW mu, Mid(p, mu), Early(mu)
    PROVE  Early(tls_multi_process(p, mu))
  <1> DEFINE s == mu.active
             nu == tls_process(p, mu, "active")
  <1>1. /\ s.primary \in WideKey /\ s.primary.state >= S_INITIAL
        /\ s.primary.state <= S_PRE_START /\ s.primary.acked = {}
        /\ s \in OpenSession(p, mu.drawn)
    BY DEF Mid, Fields, OpenSession, Early
  <1>2. NextState(p, mu["active"]) = S_PRE_START
    BY <1>1, NextStateType
  <1>3. /\ tls_session_init.primary.remote = None
        /\ ~DecryptKeyEnabled(p, tls_session_init.primary)
    BY DEF tls_session_init, key_state_init, DecryptKeyEnabled
  <1>4. Early(nu)
    <2>1. CASE ~Runs(mu, "active")
      BY <2>1 DEF tls_process
    <2>2. CASE Runs(mu, "active")
      <3> DEFINE state == NextState(p, mu["active"])
                 drawn == IF s.sid = None THEN mu.drawn + 1 ELSE mu.drawn
                 ks == [s.primary EXCEPT !.state = state,
                                         !.tls = IF state = S_START
                                                 THEN s.primary.remote ELSE @]
                 known == mu.known \/ state = S_ACTIVE
                 t == [s EXCEPT !.primary = ks,
                                !.sid = IF @ = None THEN <<p, drawn>> ELSE @]
      <3>1. nu = [mu EXCEPT !.active = t, !.drawn = drawn, !.known = known]
        <4> DEFINE i == "active"
        <4>1. nu = [mu EXCEPT ![i].primary = ks,
                              ![i].sid = IF @ = None THEN <<p, drawn>> ELSE @,
                              !.drawn = drawn,
                              !.known = @ \/ state = S_ACTIVE]
          BY <1>2, <2>2 DEF tls_process
        <4> QED
          BY <4>1 DEF Mid, Fields
      <3>2. /\ ks.state = S_PRE_START /\ ks.acked = {}
            /\ ks.key_id = mu.active.primary.key_id
        BY <1>1, <1>2 DEF WideKey
      <3>3. /\ t.primary = ks
            /\ t.sid = IF s.sid = None THEN <<p, drawn>> ELSE s.sid
        BY <1>1 DEF OpenSession
      <3>4. drawn \in {0, 1} /\ (t.sid = None => drawn = 0)
        <4>1. s.sid = None => mu.drawn = 0 /\ drawn = 1
          BY DEF Early
        <4>2. <<p, 1>> # None
          BY TlsAssumption DEF Peer
        <4> QED
          BY <4>1, <4>2, <3>3 DEF Early
      <3> HIDE DEF t, ks, drawn, known, state
      <3>5. /\ nu.active = t /\ nu.untrusted = mu.untrusted /\ nu.drawn = drawn
        BY <3>1 DEF Mid, Fields
      <3> HIDE DEF nu
      <3> QED
        BY <3>2, <3>3, <3>4, <3>5 DEF Early
    <2> QED
      BY <2>1, <2>2
  <1> HIDE DEF nu
  <1>5. ~Runs(nu, "untrusted")
    BY <1>3, <1>4 DEF Runs, Early
  <1>6. tls_process(p, nu, "untrusted") = nu
    BY <1>5 DEF tls_process
  <1>7. Promote(p, nu) = nu
    BY <1>3, <1>4 DEF Promote, Early
  <1> QED
    BY <1>4, <1>6, <1>7 DEF tls_multi_process, nu

\* A peer that has started is in a stable state.
LEMMA StartStable ==
    ASSUME NEW p \in Peer
    PROVE  Stable(p, Quiet(p, tls_multi_init(p)))
  <1> DEFINE mu == tls_multi_init(p)
             Twice(a) == LET b == tls_multi_process(p, a)
                         IN  IF b = a THEN b ELSE tls_multi_process(p, b)
             Good(a) == Mid(p, a) /\ Early(a)
  <1>1. Good(mu)
    <2>1. /\ tls_session_init \in OpenSession(p, 0)
          /\ NoSession \in PastSession(p, 0)
      BY SessionInit
    <2>2. /\ mu.active = tls_session_init /\ mu.untrusted = tls_session_init
          /\ mu.lame = NoSession /\ mu.drawn = 0 /\ Fields(p, mu)
      BY <2>1 DEF tls_multi_init, Fields
    <2>3. /\ tls_session_init.primary.remote = None
          /\ tls_session_init.primary.state = S_INITIAL
          /\ tls_session_init.primary.acked = {}
          /\ tls_session_init.primary.key_id = 0
          /\ tls_session_init.sid = None
      BY DEF tls_session_init, key_state_init
    <2>4. MaxKey \in Nat
      BY TlsAssumption
    <2> HIDE DEF mu
    <2> QED
      BY <2>2, <2>3, <2>4 DEF Mid, Early, Distinct, Fresh
  <1> HIDE DEF mu
  <1>2. ASSUME NEW a, Good(a) PROVE Good(tls_multi_process(p, a))
    BY <1>2, EarlyStays, MultiProcessEffect
  <1> HIDE DEF Good
  <1>3. ASSUME NEW a, Good(a) PROVE Good(Twice(a))
    <2>1. Good(tls_multi_process(p, a))
      BY <1>2, <1>3
    <2>2. Good(tls_multi_process(p, tls_multi_process(p, a)))
      BY <1>2, <2>1
    <2> QED
      BY <2>1, <2>2
  <1>4. Quiet(p, mu) = Twice(Twice(mu))
    BY DEF Quiet
  <1> HIDE DEF Twice
  <1>5. Good(Quiet(p, mu))
    BY <1>1, <1>3, <1>4
  <1>6. /\ Quiet(p, mu).drawn <= MaxSid
        /\ Quiet(p, mu).active.primary.key_id <= MaxKey
    BY <1>5, TlsAssumption DEF Good, Early
  <1>7. ~DecryptKeyEnabled(p, Quiet(p, mu).untrusted.primary)
    BY <1>1, QuietEffect DEF Good
  <1> QED
    BY <1>5, <1>6, <1>7 DEF Stable, Good, mu

\* The invariant holds at the start.
LEMMA InitKeeps == Init => IInv
  <1> SUFFICES ASSUME Init PROVE IInv
    OBVIOUS
  <1>1. Client \in Peer
    BY DEF Peer
  <1>2. \A p \in Peer : Stable(p, multi[p])
    BY StartStable DEF Init
  <1>3. multi[Client].drawn \in 0 .. MaxSid
    BY <1>1, <1>2, TlsAssumption DEF Stable, Mid, Fields
  <1>4. multi[Client].active \in OpenSession(Client, multi[Client].drawn)
    BY <1>1, <1>2 DEF Stable, Mid, Fields
  <1>5. \A pk \in net : pk.from \in AnySid /\ pk.to \in AnySid
    BY <1>1, <1>3, <1>4, PacketsType DEF Init
  <1> QED
    BY <1>2, <1>5 DEF IInv, Init

\* The inductive invariant is one.
LEMMA Invariance == Spec => []IInv
  <1>1. IInv /\ [Next]_vars => IInv'
    BY StepKeeps
  <1> QED
    BY <1>1, InitKeeps, PTL DEF Spec

-----------------------------------------------------------------------------
(* Between two actions nothing is left to do.                              *)

\* The loop of tls_process would leave the state of the session as it is.
Done(p, s) == NextState(p, s) = s.primary.state

\* The turns of the loop that a session may still take.
Turns(p, ks) ==
    CASE ks.state = S_INITIAL -> 1
      [] ks.state = S_PRE_START -> 4
      [] ks.state = S_START -> 3
      [] ks.state = S_SENT_KEY -> IF p = Client THEN 2 ELSE 1
      [] ks.state = S_GOT_KEY -> IF p = Client THEN 1 ELSE 2
      [] OTHER -> 0

Left(p, mu, i, n) == Runs(mu, i) => Done(p, mu[i]) \/ Turns(p, mu[i].primary) <= n

\* What a turn assigns is assigned.
Tidy(mu, i) ==
    /\ mu[i].primary.state = S_START => mu[i].primary.tls = mu[i].primary.remote
    /\ mu[i].primary.state = S_ACTIVE => mu.known

\* A key has no acknowledgements before its first turn, and its session has
\* an id after it.
Turned(s) ==
    /\ s.primary.state = S_INITIAL => s.primary.acked = {}
    /\ s.primary.state >= S_PRE_START => s.sid # None

Ready(p, mu) ==
    /\ Mid(p, mu)
    /\ ~DecryptKeyEnabled(p, mu.untrusted.primary)
    /\ Turned(mu.active) /\ Turned(mu.untrusted)

\* Nothing is left to do.
Rest(p, mu) ==
    /\ Ready(p, mu)
    /\ \A i \in {"active", "untrusted"} : Runs(mu, i) => Done(p, mu[i]) /\ Tidy(mu, i)

\* The loop looks at the acknowledgements and the packets.
LEMMA DoneStays ==
    ASSUME NEW p \in Peer, NEW s, NEW t, Done(p, s),
           t.primary.state = s.primary.state,
           t.primary.acked = s.primary.acked, t.primary.got = s.primary.got
    PROVE  Done(p, t)
  <1>1. FullSync(p, t.primary) <=> FullSync(p, s.primary)
    BY DEF FullSync, Sent
  <1> QED
    BY <1>1 DEF Done, NextState

\* A turn that changes the state is one of those that were left.
LEMMA TurnCounts ==
    ASSUME NEW p \in Peer, NEW s, s.primary \in WideKey,
           s.primary.state >= S_INITIAL, ~Done(p, s),
           s.primary.state = S_INITIAL => s.primary.acked = {}
    PROVE  /\ Turns(p, s.primary) \in 1 .. 4
           /\ NextState(p, s) = S_ERROR => Turns(p, s.primary) >= 2
           /\ NextState(p, s) # S_ERROR =>
                \A t : /\ t.primary.state = NextState(p, s)
                       /\ t.primary.acked = s.primary.acked
                       => Done(p, t) \/ Turns(p, t.primary) < Turns(p, s.primary)
  <1>1. s.primary.state \in S_INITIAL .. S_ACTIVE
    BY DEF WideKey
  <1>2. p = Client \/ p = Server
    BY DEF Peer
  <1>3. /\ Turns(p, s.primary) \in 1 .. 4
        /\ NextState(p, s) = S_ERROR => Turns(p, s.primary) >= 2
    BY <1>1, <1>2, TlsAssumption DEF Done, NextState, Turns
  <1>4. ASSUME NEW t, NextState(p, s) # S_ERROR,
               t.primary.state = NextState(p, s), t.primary.acked = s.primary.acked
        PROVE  Done(p, t) \/ Turns(p, t.primary) < Turns(p, s.primary)
    <2>1. CASE s.primary.state = S_INITIAL
      <3>1. t.primary.state = S_PRE_START /\ t.primary.acked = {}
        BY <1>4, <2>1 DEF NextState
      <3>2. ~FullSync(p, t.primary)
        BY <3>1 DEF FullSync, Sent
      <3> QED
        BY <3>1, <3>2 DEF Done, NextState
    <2>2. CASE s.primary.state # S_INITIAL
      <3> DEFINE a == s.primary.state
                 b == NextState(p, s)
      <3>1. \/ a = S_PRE_START /\ b = S_START
            \/ a = S_START /\ b = IF p = Client THEN S_SENT_KEY ELSE S_GOT_KEY
            \/ a = S_SENT_KEY /\ b = IF p = Client THEN S_GOT_KEY ELSE S_ACTIVE
            \/ a = S_GOT_KEY /\ b = IF p = Client THEN S_ACTIVE ELSE S_SENT_KEY
        BY <1>1, <1>2, <1>4, <2>2, TlsAssumption DEF Done, NextState
      <3>2. t.primary.state = b
        BY <1>4
      <3> HIDE DEF b
      <3> QED
        BY <3>1, <3>2 DEF Turns
    <2> QED
      BY <2>1, <2>2
  <1> QED
    BY <1>3, <1>4

\* The fields that a turn without an error changes, and those it does not.
Turn(p, mu, i, nu) ==
    LET s == mu[i]
        t == nu[i]
        state == NextState(p, s)
        drawn == IF s.sid = None THEN mu.drawn + 1 ELSE mu.drawn
    IN  /\ t.primary.state = state
        /\ t.primary.tls = IF state = S_START THEN s.primary.remote ELSE s.primary.tls
        /\ t.primary.acked = s.primary.acked /\ t.primary.got = s.primary.got
        /\ t.primary.key = s.primary.key /\ t.primary.remote = s.primary.remote
        /\ t.primary.key_id = s.primary.key_id
        /\ t.primary.settled = s.primary.settled
        /\ t.lame = s.lame
        /\ t.sid = IF s.sid = None THEN <<p, drawn>> ELSE s.sid
        /\ nu.known = (mu.known \/ state = S_ACTIVE)
        /\ nu.drawn = drawn
        /\ nu.lame = mu.lame
        /\ i # "active" => nu.active = mu.active
        /\ i # "untrusted" => nu.untrusted = mu.untrusted

\* A turn without an error, as a whole.
Turning(p, mu, i) ==
    LET s == mu[i]
        state == NextState(p, s)
        tls == IF state = S_START THEN s.primary.remote ELSE s.primary.tls
        drawn == IF s.sid = None THEN mu.drawn + 1 ELSE mu.drawn
        sid == IF s.sid = None THEN <<p, drawn>> ELSE s.sid
        t == [s EXCEPT !.primary = [s.primary EXCEPT !.state = state, !.tls = tls],
                       !.sid = sid]
    IN  [mu EXCEPT ![i] = t, !.drawn = drawn, !.known = mu.known \/ state = S_ACTIVE]

LEMMA TurnValue ==
    ASSUME NEW p \in Peer, NEW mu, Mid(p, mu), NEW i \in {"active", "untrusted"},
           Runs(mu, i), NextState(p, mu[i]) # S_ERROR
    PROVE  tls_process(p, mu, i) = Turning(p, mu, i)
  <1> DEFINE s == mu[i]
             state == NextState(p, s)
             tls == IF state = S_START THEN s.primary.remote ELSE s.primary.tls
             ks == [s.primary EXCEPT !.state = state, !.tls = tls]
             drawn == IF s.sid = None THEN mu.drawn + 1 ELSE mu.drawn
  <1>1. tls_process(p, mu, i) =
          [mu EXCEPT ![i].primary = ks,
                     ![i].sid = IF @ = None THEN <<p, drawn>> ELSE @,
                     !.drawn = drawn,
                     !.known = @ \/ state = S_ACTIVE]
    BY DEF tls_process
  <1> HIDE DEF state
  <1> QED
    BY <1>1 DEF Mid, Fields, Turning, state

LEMMA TurnFields ==
    ASSUME NEW p \in Peer, NEW mu, Mid(p, mu), NEW i \in {"active", "untrusted"},
           Runs(mu, i), NextState(p, mu[i]) # S_ERROR
    PROVE  Turn(p, mu, i, tls_process(p, mu, i))
  <1> DEFINE s == mu[i]
             state == NextState(p, s)
             tls == IF state = S_START THEN s.primary.remote ELSE s.primary.tls
             ks == [s.primary EXCEPT !.state = state, !.tls = tls]
             drawn == IF s.sid = None THEN mu.drawn + 1 ELSE mu.drawn
             sid == IF s.sid = None THEN <<p, drawn>> ELSE s.sid
             t == [s EXCEPT !.primary = ks, !.sid = sid]
             nu == [mu EXCEPT ![i] = t, !.drawn = drawn,
                              !.known = mu.known \/ state = S_ACTIVE]
  <1>1. s \in OpenSession(p, mu.drawn) /\ s.primary \in WideKey
    BY DEF Mid, Fields, OpenSession
  <1>2. tls_process(p, mu, i) = nu
    <2>1. tls_process(p, mu, i) = Turning(p, mu, i)
      BY TurnValue
    <2> QED
      BY <2>1 DEF Turning
  <1>3. /\ ks.state = state /\ ks.tls = tls
        /\ ks.acked = s.primary.acked /\ ks.got = s.primary.got
        /\ ks.key = s.primary.key /\ ks.remote = s.primary.remote
        /\ ks.key_id = s.primary.key_id /\ ks.settled = s.primary.settled
    <2> HIDE DEF state, tls
    <2> QED
      BY <1>1 DEF WideKey
  <1>4. t.primary = ks /\ t.lame = s.lame /\ t.sid = sid
    <2> HIDE DEF ks, sid
    <2> QED
      BY <1>1 DEF OpenSession
  <1>5. /\ nu[i] = t /\ nu.drawn = drawn /\ nu.known = (mu.known \/ state = S_ACTIVE)
        /\ nu.lame = mu.lame
        /\ i # "active" => nu.active = mu.active
        /\ i # "untrusted" => nu.untrusted = mu.untrusted
    <2> HIDE DEF t, drawn, state
    <2> QED
      BY DEF Mid, Fields
  <1> HIDE DEF nu, t, ks
  <1> QED
    BY <1>2, <1>3, <1>4, <1>5 DEF Turn

\* A session that was reset.
LEMMA ResetSession ==
    /\ tls_session_init.primary.remote = None
    /\ tls_session_init.primary.state = S_INITIAL
    /\ tls_session_init.primary.acked = {}
    /\ tls_session_init.lame = NoKey
    /\ NoKey.state = S_UNDEF
  BY DEF tls_session_init, key_state_init, NoKey

\* After an error the session is a new one, and the other one is left alone.
LEMMA AfterErrorFields ==
    ASSUME NEW p \in Peer, NEW mu, Mid(p, mu), NEW i \in {"active", "untrusted"}
    PROVE  LET nu == AfterError(mu, i)
           IN  /\ nu[i] = tls_session_init
               /\ i # "active" => nu.active = mu.active
               /\ i # "untrusted" => nu.untrusted = mu.untrusted
               /\ nu.known = mu.known /\ nu.drawn = mu.drawn
  BY DEF AfterError, Mid, Fields

\* A turn of a session leaves it one turn less, and the other one alone.
LEMMA TurnEffect ==
    ASSUME NEW p \in Peer, NEW mu, Mid(p, mu), NEW i \in {"active", "untrusted"},
           i = "untrusted" => ~DecryptKeyEnabled(p, mu.untrusted.primary),
           Turned(mu[i]), NEW n \in Nat, Left(p, mu, i, n + 1)
    PROVE  LET nu == tls_process(p, mu, i)
           IN  /\ Turned(nu[i]) /\ Left(p, nu, i, n)
               /\ Runs(nu, i) => Tidy(nu, i)
               /\ i = "active" => nu.untrusted = mu.untrusted
               /\ i = "untrusted" => nu.active = mu.active /\ nu.known = mu.known
               /\ i = "untrusted" /\ DecryptKeyEnabled(p, nu.untrusted.primary) =>
                    /\ nu.untrusted.primary.remote # None
                    /\ nu.untrusted.primary.state < S_ACTIVE
  <1> DEFINE nu == tls_process(p, mu, i)
             s == mu[i]
             t == nu[i]
             state == NextState(p, s)
  <1>1. /\ s.primary \in WideKey /\ s.primary.state >= S_INITIAL
        /\ s.primary.state \in S_INITIAL .. S_ACTIVE
        /\ mu.drawn \in Nat
    <2>1. s \in OpenSession(p, mu.drawn) /\ s.primary.state >= S_INITIAL /\ mu.drawn \in Nat
      BY DEF Mid, Fields
    <2> QED
      BY <2>1 DEF OpenSession, WideKey
  <1>2. CASE ~Runs(mu, i)
    <2>1. nu = mu
      BY <1>2 DEF tls_process
    <2> QED
      BY <1>2, <2>1 DEF Left
  <1>3. CASE Runs(mu, i) /\ state = S_ERROR
    <2>1. nu = AfterError(mu, i)
      BY <1>3 DEF tls_process
    <2>2. /\ t = tls_session_init
          /\ i = "active" => nu.untrusted = mu.untrusted
          /\ i = "untrusted" => nu.active = mu.active
          /\ nu.known = mu.known
      BY <2>1, AfterErrorFields
    <2>3. ~Done(p, s)
      BY <1>1, <1>3 DEF Done
    <2>4. n >= 1
      BY <1>1, <1>3, <2>3, TurnCounts DEF Left, Turned
    <2>5. Turns(p, t.primary) = 1
      BY <2>2, ResetSession DEF Turns
    <2>6. i = "untrusted" => ~DecryptKeyEnabled(p, nu.untrusted.primary)
      BY <2>2, ResetSession DEF DecryptKeyEnabled
    <2> QED
      BY <2>2, <2>4, <2>5, <2>6, ResetSession DEF Turned, Left, Tidy
  <1>4. CASE Runs(mu, i) /\ state # S_ERROR
    <2> DEFINE drawn == IF s.sid = None THEN mu.drawn + 1 ELSE mu.drawn
    <2>1. /\ t.primary.state = state
          /\ t.primary.tls = IF state = S_START THEN s.primary.remote ELSE s.primary.tls
          /\ t.primary.acked = s.primary.acked /\ t.primary.got = s.primary.got
          /\ t.primary.remote = s.primary.remote
          /\ t.sid = IF s.sid = None THEN <<p, drawn>> ELSE s.sid
          /\ nu.known = (mu.known \/ state = S_ACTIVE)
          /\ i = "active" => nu.untrusted = mu.untrusted
          /\ i = "untrusted" => nu.active = mu.active
      <3>1. Turn(p, mu, i, nu)
        BY <1>4, TurnFields
      <3> QED
        BY <3>1 DEF Turn
    <2>2. /\ state \in S_INITIAL .. S_ACTIVE
          /\ state # S_INITIAL
      <3>1. state \in {S_ERROR} \cup (S_INITIAL .. S_ACTIVE)
        BY <1>1, NextStateType
      <3>2. state # S_INITIAL
        BY <1>1 DEF NextState
      <3> QED
        BY <1>4, <3>1, <3>2
    <2>3. t.sid # None
      <3>1. <<p, drawn>> # None
        BY <1>1, TlsAssumption DEF Peer
      <3> QED
        BY <2>1, <3>1
    <2>4. Turned(t)
      BY <2>1, <2>2, <2>3 DEF Turned
    <2>5. Done(p, t) \/ Turns(p, t.primary) <= n
      <3>1. CASE Done(p, s)
        <4>1. t.primary.state = s.primary.state
          BY <2>1, <3>1 DEF Done
        <4> QED
          BY <2>1, <3>1, <4>1, DoneStays
      <3>2. CASE ~Done(p, s)
        <4>1. /\ Turns(p, s.primary) \in 1 .. 4
              /\ Done(p, t) \/ Turns(p, t.primary) < Turns(p, s.primary)
          BY <1>1, <1>4, <2>1, <3>2, TurnCounts DEF Turned
        <4>2. Turns(p, s.primary) <= n + 1
          BY <1>4, <3>2 DEF Left
        <4>3. Turns(p, t.primary) \in 0 .. 4
          BY DEF Turns
        <4> HIDE DEF t
        <4> QED
          BY <4>1, <4>2, <4>3
      <3> QED
        BY <3>1, <3>2
    <2>6. Tidy(nu, i)
      BY <2>1 DEF Tidy
    <2>7. i = "untrusted" => state < S_ACTIVE
      BY <1>1, <1>4 DEF DecryptKeyEnabled, NextState, Peer
    <2>8. i = "untrusted" => s.primary.remote # None
      BY <1>4 DEF Runs
    <2>9. i = "untrusted" /\ DecryptKeyEnabled(p, nu.untrusted.primary) =>
            nu.untrusted.primary.remote # None /\ nu.untrusted.primary.state < S_ACTIVE
      BY <2>1, <2>7, <2>8
    <2>10. i = "untrusted" => nu.known = mu.known
      BY <1>1, <2>1, <2>2, <2>7 DEF Mid, Fields
    <2> QED
      BY <2>1, <2>4, <2>5, <2>6, <2>9, <2>10 DEF Left
  <1> QED
    BY <1>2, <1>3, <1>4

\* The next session to be promoted is one that runs.
LEMMA CallEffect ==
    ASSUME NEW p \in Peer, NEW mu, Ready(p, mu), NEW n \in Nat,
           \A i \in {"active", "untrusted"} : Left(p, mu, i, n + 1)
    PROVE  LET nu == tls_multi_process(p, mu)
           IN  /\ Ready(p, nu)
               /\ \A i \in {"active", "untrusted"} :
                    Left(p, nu, i, n) /\ (Runs(nu, i) => Tidy(nu, i))
  <1> DEFINE a == tls_process(p, mu, "active")
             b == tls_process(p, a, "untrusted")
             nu == Promote(p, b)
  <1>1. Mid(p, a) /\ Mid(p, b) /\ Mid(p, nu) /\ ~DecryptKeyEnabled(p, nu.untrusted.primary)
    BY ProcessEffect, PromoteEffect DEF Ready
  <1>2. /\ Turned(a.active) /\ Left(p, a, "active", n)
        /\ Runs(a, "active") => Tidy(a, "active")
        /\ a.untrusted = mu.untrusted
    BY TurnEffect DEF Ready
  <1>3. Turned(a.untrusted) /\ Left(p, a, "untrusted", n + 1)
    BY <1>2 DEF Ready, Left, Runs
  <1>4. ~DecryptKeyEnabled(p, a.untrusted.primary)
    BY <1>2 DEF Ready
  <1>5. /\ Turned(b.untrusted) /\ Left(p, b, "untrusted", n)
        /\ Runs(b, "untrusted") => Tidy(b, "untrusted")
        /\ b.active = a.active /\ b.known = a.known
        /\ DecryptKeyEnabled(p, b.untrusted.primary) =>
             b.untrusted.primary.remote # None /\ b.untrusted.primary.state < S_ACTIVE
    <2> HIDE DEF a
    <2> QED
      BY <1>1, <1>3, <1>4, TurnEffect
  <1>6. /\ Turned(b.active) /\ Left(p, b, "active", n)
        /\ Runs(b, "active") => Tidy(b, "active")
    BY <1>2, <1>5 DEF Left, Runs, Tidy
  <1> HIDE DEF a, b
  <1>7. CASE DecryptKeyEnabled(p, b.untrusted.primary)
    <2>1. /\ nu.active = b.untrusted /\ nu.untrusted = tls_session_init
          /\ nu.known = b.known
      BY <1>1, <1>7 DEF Promote, Mid, Fields
    <2> HIDE DEF nu
    <2>2. Runs(b, "untrusted")
      BY <1>1, <1>5, <1>7 DEF Runs, Mid
    <2>3. Left(p, nu, "active", n) /\ Tidy(nu, "active")
      BY <1>5, <1>7, <2>1, <2>2 DEF Left, Tidy
    <2>4. ~Runs(nu, "untrusted")
      BY <2>1, ResetSession DEF Runs
    <2>5. Turned(nu.active) /\ Turned(nu.untrusted)
      BY <1>5, <2>1, ResetSession DEF Turned
    <2> QED
      BY <1>1, <2>3, <2>4, <2>5 DEF Ready, Left, nu, tls_multi_process, a, b
  <1>8. CASE ~DecryptKeyEnabled(p, b.untrusted.primary)
    <2>1. nu = b
      BY <1>8 DEF Promote
    <2> QED
      BY <1>1, <1>5, <1>6, <2>1 DEF Ready, tls_multi_process, a, b
  <1> QED
    BY <1>7, <1>8

\* A turn of a session that has none left does nothing.
LEMMA NoTurn ==
    ASSUME NEW p \in Peer, NEW mu, Mid(p, mu), NEW i \in {"active", "untrusted"},
           Turned(mu[i]), Runs(mu, i) => Done(p, mu[i]) /\ Tidy(mu, i)
    PROVE  tls_process(p, mu, i) = mu
  <1> DEFINE s == mu[i]
             state == NextState(p, s)
  <1>1. CASE ~Runs(mu, i)
    BY <1>1 DEF tls_process
  <1>2. CASE Runs(mu, i)
    <2>1. /\ s \in OpenSession(p, mu.drawn) /\ s.primary \in WideKey
          /\ s.primary.state >= S_INITIAL /\ Turned(s)
      BY DEF Mid, Fields, OpenSession
    <2>2. state = s.primary.state /\ Tidy(mu, i)
      BY <1>2 DEF Done
    <2>3. state # S_INITIAL
      BY DEF NextState
    <2>4. s.sid # None
      BY <2>1, <2>2, <2>3 DEF Turned, WideKey
    <2> DEFINE tls == IF state = S_START THEN s.primary.remote ELSE s.primary.tls
               ks == [s.primary EXCEPT !.state = state, !.tls = tls]
               drawn == IF s.sid = None THEN mu.drawn + 1 ELSE mu.drawn
               sid == IF s.sid = None THEN <<p, drawn>> ELSE s.sid
               t == [s EXCEPT !.primary = ks, !.sid = sid]
               known == mu.known \/ state = S_ACTIVE
    <2>5. tls_process(p, mu, i) = [mu EXCEPT ![i] = t, !.drawn = drawn, !.known = known]
      <3>1. NextState(p, mu[i]) # S_ERROR
        BY <2>1, <2>2
      <3>2. tls_process(p, mu, i) = Turning(p, mu, i)
        BY <1>2, <3>1, TurnValue
      <3> QED
        BY <3>2 DEF Turning
    <2>6. tls = s.primary.tls /\ known = mu.known
      BY <2>2 DEF Tidy, Mid, Fields
    <2>7. drawn = mu.drawn /\ sid = s.sid
      BY <2>4
    <2> HIDE DEF tls, known, drawn, sid, state
    <2>8. ks = s.primary
      BY <2>1, <2>2, <2>6 DEF WideKey
    <2> HIDE DEF ks
    <2>9. t = s
      BY <2>1, <2>7, <2>8 DEF OpenSession
    <2> HIDE DEF t
    <2> QED
      BY <2>5, <2>6, <2>7, <2>9 DEF Mid, Fields
  <1> QED
    BY <1>1, <1>2

\* When nothing is left to do, a call does nothing.
LEMMA RestIsFixed ==
    ASSUME NEW p \in Peer, NEW mu, Rest(p, mu)
    PROVE  tls_multi_process(p, mu) = mu /\ Quiet(p, mu) = mu
  <1>1. ASSUME NEW i \in {"active", "untrusted"}
        PROVE  tls_process(p, mu, i) = mu
    BY NoTurn DEF Rest, Ready
  <1>2. Promote(p, mu) = mu
    BY DEF Promote, Rest, Ready
  <1>3. tls_multi_process(p, mu) = mu
    BY <1>1, <1>2 DEF tls_multi_process
  <1> QED
    BY <1>3 DEF Quiet

\* Four calls are enough.
LEMMA QuietRests ==
    ASSUME NEW p \in Peer, NEW mu, Ready(p, mu)
    PROVE  Rest(p, Quiet(p, mu))
  <1> DEFINE Call(a) == tls_multi_process(p, a)
             Twice(a) == LET b == Call(a) IN IF b = a THEN b ELSE Call(b)
             All(a, n) == /\ Ready(p, a)
                          /\ \A i \in {"active", "untrusted"} : Left(p, a, i, n)
             Tidied(a) == \A i \in {"active", "untrusted"} : Runs(a, i) => Tidy(a, i)
  <1>1. ASSUME NEW a, NEW n \in Nat, All(a, n + 1)
        PROVE  All(Call(a), n) /\ Tidied(Call(a))
    BY <1>1, CallEffect
  <1> HIDE DEF All, Tidied, Call
  <1>2. ASSUME NEW a, NEW n \in Nat, All(a, n + 2)
        PROVE  All(Twice(a), n) /\ Tidied(Twice(a))
    <2>1. n + 2 = (n + 1) + 1 /\ n + 1 \in Nat
      OBVIOUS
    <2>2. All(Call(a), n + 1)
      BY <1>1, <1>2, <2>1
    <2>3. All(Call(Call(a)), n) /\ Tidied(Call(Call(a)))
      BY <1>1, <2>2
    <2> QED
      BY <2>3
  <1>3. All(mu, 4)
    BY DEF All, Left, Turns
  <1> HIDE DEF Twice
  <1>4. All(Twice(mu), 2)
    <2>1. 4 = 2 + 2
      OBVIOUS
    <2> QED
      BY <1>2, <1>3, <2>1
  <1>5. All(Twice(Twice(mu)), 0) /\ Tidied(Twice(Twice(mu)))
    <2>1. 2 = 0 + 2
      OBVIOUS
    <2> QED
      BY <1>2, <1>4, <2>1
  <1>6. Quiet(p, mu) = Twice(Twice(mu))
    BY DEF Quiet, Twice, Call
  <1>7. ASSUME NEW a, All(a, 0), Tidied(a)
        PROVE  Rest(p, a)
    <2>1. ASSUME NEW i \in {"active", "untrusted"}, Runs(a, i)
          PROVE  Done(p, a[i])
      <3>1. a[i].primary.state \in S_INITIAL .. S_ACTIVE
        BY <1>7 DEF All, Ready, Mid, Fields, OpenSession, WideKey
      <3>2. CASE Turns(p, a[i].primary) <= 0
        <4>1. a[i].primary.state = S_ACTIVE
          BY <3>1, <3>2 DEF Turns
        <4> QED
          BY <4>1 DEF Done, NextState
      <3> QED
        BY <1>7, <2>1, <3>2 DEF All, Left
    <2> QED
      BY <1>7, <2>1 DEF All, Tidied, Rest
  <1> HIDE DEF Twice
  <1> QED
    BY <1>5, <1>6, <1>7

-----------------------------------------------------------------------------
(* The actions leave nothing to do.                                        *)

RestInv ==
    /\ \A p \in Peer : Rest(p, multi[p])
    /\ \A pk \in net : pk.from # None

\* A packet has the id of its session.
LEMMA PacketsNamed ==
    ASSUME NEW p \in Peer, NEW s, s.primary.state \in Int, Turned(s),
           NEW pk \in Packets(p, s)
    PROVE  pk.from # None
  <1>1. s.primary.state >= S_PRE_START /\ pk.from = s.sid
    BY DEF Packets
  <1> QED
    BY <1>1 DEF Turned

\* The end of an action.
LEMMA ThenRests ==
    ASSUME IInv, RestInv, NEW p \in Peer, NEW mu, Ready(p, mu), Then(p, mu)
    PROVE  RestInv'
  <1> DEFINE quiet == Quiet(p, mu)
  <1>1. /\ multi' = [multi EXCEPT ![p] = quiet]
        /\ net' = net \cup Packets(p, quiet.active) \cup Packets(p, quiet.untrusted)
    BY DEF Then
  <1>2. Rest(p, quiet)
    BY QuietRests
  <1> HIDE DEF quiet
  <1>3. quiet.active.primary.state \in Int /\ quiet.untrusted.primary.state \in Int
    BY <1>2 DEF Rest, Ready, Mid, Fields, OpenSession, WideKey
  <1>4. \A pk \in net' : pk.from # None
    BY <1>1, <1>2, <1>3, PacketsNamed DEF RestInv, Rest, Ready
  <1>5. \A q \in Peer : Rest(q, multi'[q])
    BY <1>1, <1>2 DEF IInv, RestInv
  <1> QED
    BY <1>4, <1>5 DEF RestInv

\* A step that leaves alone what the loop looks at.
LEMMA RestKept ==
    ASSUME NEW p \in Peer, NEW mu, Rest(p, mu), NEW nu, Stable(p, nu),
           nu.known = mu.known, nu.untrusted = mu.untrusted,
           nu.active.sid = mu.active.sid,
           nu.active.primary.state = mu.active.primary.state,
           nu.active.primary.acked = mu.active.primary.acked,
           nu.active.primary.got = mu.active.primary.got,
           nu.active.primary.tls = mu.active.primary.tls,
           nu.active.primary.remote = mu.active.primary.remote
    PROVE  Rest(p, nu)
  <1>1. Ready(p, nu)
    BY DEF Rest, Ready, Stable, Turned
  <1>2. ASSUME Runs(nu, "active") PROVE Done(p, nu.active) /\ Tidy(nu, "active")
    <2>1. Runs(mu, "active")
      BY <1>2 DEF Runs
    <2>2. Done(p, mu.active) /\ Tidy(mu, "active")
      BY <2>1 DEF Rest
    <2> QED
      BY <2>2, DoneStays DEF Tidy
  <1>3. ASSUME Runs(nu, "untrusted") PROVE Done(p, nu.untrusted) /\ Tidy(nu, "untrusted")
    <2>1. Runs(mu, "untrusted")
      BY <1>3 DEF Runs
    <2> QED
      BY <2>1 DEF Rest, Tidy
  <1> QED
    BY <1>1, <1>2, <1>3 DEF Rest

\* What is stored of a packet leaves the ids and the old key alone; only an
\* acknowledgement adds one.
LEMMA StoredFields ==
    ASSUME NEW p \in Peer, NEW n \in Nat, NEW s \in OpenSession(p, n), NEW pk
    PROVE  LET t == Stored(s, pk)
           IN  /\ t.sid = s.sid /\ t.lame = s.lame
               /\ t.primary.state = s.primary.state
               /\ t.primary.acked = s.primary.acked \/ pk.op \in {"ack0", "ack1"}
  <1> DEFINE t == Stored(s, pk)
             Ack(k) == [s EXCEPT !.primary.acked = @ \cup {k}]
             One == [s EXCEPT !.primary.got = @ \cup {RESET}]
             Both == [s EXCEPT !.primary.got = {RESET, KEY},
                               !.primary.key = <<pk.from, pk.to>>]
             Keeps(u) == /\ u.sid = s.sid /\ u.lame = s.lame
                         /\ u.primary.state = s.primary.state
  <1>1. Keeps(s)
    OBVIOUS
  <1>2. Keeps(Ack(RESET)) /\ Keeps(Ack(KEY))
    BY DEF OpenSession, WideKey
  <1>3. Keeps(One) /\ One.primary.acked = s.primary.acked
    BY DEF OpenSession, WideKey
  <1>4. Keeps(Both) /\ Both.primary.acked = s.primary.acked
    BY DEF OpenSession, WideKey
  <1>5. /\ t \in {s, Ack(RESET), Ack(KEY), One, Both}
        /\ t \in {s, One, Both} \/ pk.op \in {"ack0", "ack1"}
    BY DEF Stored
  <1> HIDE DEF t, Ack, One, Both
  <1>6. /\ Keeps(t)
        /\ t.primary.acked = s.primary.acked \/ pk.op \in {"ack0", "ack1"}
    BY <1>1, <1>2, <1>3, <1>4, <1>5
  <1> QED
    BY <1>6 DEF t

\* A soft reset keeps the id of the session.
LEMMA SoftResetFields ==
    ASSUME NEW p \in Peer, NEW n \in Nat, NEW s \in OpenSession(p, n),
           s.primary.key_id <= MaxKey
    PROVE  LET t == key_state_soft_reset(s)
           IN  /\ t \in OpenSession(p, n) /\ t.sid = s.sid
               /\ t.primary.state = S_INITIAL /\ t.primary.acked = {}
  <1> DEFINE t == key_state_soft_reset(s)
  <1>1. t \in OpenSession(p, n) /\ t.primary.state = S_INITIAL /\ t.primary.acked = {}
    BY SoftResetEffect
  <1>2. t.sid = s.sid
    BY DEF key_state_soft_reset, OpenSession
  <1> QED
    BY <1>1, <1>2

\* A session replaced by one that has had its turns.
LEMMA ReplaceReady ==
    ASSUME NEW p \in Peer, NEW mu, Rest(p, mu), NEW i \in {"active", "untrusted"},
           NEW t, Turned(t), i = "untrusted" => ~DecryptKeyEnabled(p, t.primary),
           Mid(p, [mu EXCEPT ![i] = t])
    PROVE  Ready(p, [mu EXCEPT ![i] = t])
  <1> DEFINE nu == [mu EXCEPT ![i] = t]
  <1>1. /\ nu.active = IF i = "active" THEN t ELSE mu.active
        /\ nu.untrusted = IF i = "untrusted" THEN t ELSE mu.untrusted
    BY DEF Rest, Ready, Mid, Fields
  <1>2. Mid(p, nu)
    OBVIOUS
  <1> HIDE DEF nu
  <1>3. Ready(p, nu)
    BY <1>1, <1>2 DEF Rest, Ready
  <1> QED
    BY <1>3 DEF nu

\* A control packet that has a route.
LEMMA PreDecryptReady ==
    ASSUME NEW p \in Peer, NEW mu, Stable(p, mu), Rest(p, mu), NEW pk,
           pk.from \in AnySid, pk.to \in AnySid, pk.from # None,
           Route(mu, pk) # "none"
    PROVE  Ready(p, tls_pre_decrypt(p, mu, pk))
  <1> DEFINE i == Route(mu, pk)
             s == mu[i]
             opened == [s EXCEPT !.primary.remote = pk.from]
             t == IF SoftReset(p, s, pk) THEN Stored(key_state_soft_reset(s), pk)
                  ELSE Stored(opened, pk)
  <1>1. /\ i \in {"active", "untrusted"}
        /\ s.primary.remote = pk.from \/ pk.op = "hard"
    BY RouteEffect
  <1>2. Mid(p, tls_pre_decrypt(p, mu, pk))
    BY PreDecryptEffect
  <1>3. tls_pre_decrypt(p, mu, pk) = [mu EXCEPT ![i] = t]
    BY DEF tls_pre_decrypt
  <1> HIDE DEF i
  <1>4. /\ s \in OpenSession(p, mu.drawn) /\ mu.drawn \in Nat
        /\ s.primary.key_id <= MaxKey /\ Turned(s)
        /\ s.primary.state \in Int /\ s.primary.state >= S_INITIAL
        /\ i = "untrusted" => ~DecryptKeyEnabled(p, s.primary)
    BY <1>1, TlsAssumption DEF Stable, Mid, Fields, OpenSession, WideKey, Rest, Ready
  <1>5. CASE SoftReset(p, s, pk)
    <2> DEFINE u == key_state_soft_reset(s)
    <2>1. /\ u \in OpenSession(p, mu.drawn) /\ u.sid = s.sid
          /\ u.primary.state = S_INITIAL /\ u.primary.acked = {}
      BY <1>4, SoftResetFields
    <2>2. pk.op = "soft" /\ i = "active"
      BY <1>1, <1>4, <1>5 DEF SoftReset
    <2>3. t = Stored(u, pk)
      BY <1>5
    <2> HIDE DEF t, u
    <2>4. t.primary.state = S_INITIAL /\ t.primary.acked = {}
      BY <1>4, <2>1, <2>2, <2>3, StoredFields
    <2>5. Turned(t)
      BY <2>4 DEF Turned
    <2>6. Mid(p, [mu EXCEPT ![i] = t])
      BY <1>2, <1>3
    <2>7. Ready(p, [mu EXCEPT ![i] = t])
      BY <1>1, <2>2, <2>5, <2>6, ReplaceReady
    <2> QED
      BY <1>3, <2>7
  <1>6. CASE ~SoftReset(p, s, pk)
    <2>1. /\ opened \in OpenSession(p, mu.drawn) /\ opened.sid = s.sid
          /\ opened.primary.state = s.primary.state
          /\ opened.primary.acked = s.primary.acked
      BY <1>4 DEF OpenSession, WideKey
    <2>2. t = Stored(opened, pk)
      BY <1>6
    <2> HIDE DEF t, opened
    <2>3. /\ t.sid = s.sid /\ t.primary.state = s.primary.state
          /\ t.primary.acked = s.primary.acked \/ pk.op \in {"ack0", "ack1"}
      BY <1>4, <2>1, <2>2, StoredFields
    <2>4. pk.op \in {"ack0", "ack1"} => s.primary.state # S_INITIAL
      <3>1. SUFFICES ASSUME pk.op \in {"ack0", "ack1"} PROVE s.primary.state # S_INITIAL
        OBVIOUS
      <3>2. s.primary.remote # None
        BY <1>1, <3>1
      <3>3. Runs(mu, i)
        BY <1>4, <3>2 DEF Runs
      <3>4. Done(p, s)
        BY <1>1, <3>3 DEF Rest
      <3> QED
        BY <3>4 DEF Done, NextState
    <2>5. Turned(t)
      BY <1>4, <2>3, <2>4 DEF Turned
    <2>6. i = "untrusted" => ~DecryptKeyEnabled(p, t.primary)
      BY <1>4, <2>3 DEF DecryptKeyEnabled
    <2>7. Mid(p, [mu EXCEPT ![i] = t])
      BY <1>2, <1>3
    <2>8. Ready(p, [mu EXCEPT ![i] = t])
      BY <1>1, <2>5, <2>6, <2>7, ReplaceReady
    <2> QED
      BY <1>3, <2>8
  <1> QED
    BY <1>5, <1>6

\* A session that was reset after an error, or kept for its old key.
LEMMA AfterErrorReady ==
    ASSUME NEW p \in Peer, NEW mu, Stable(p, mu), Rest(p, mu),
           NEW i \in {"active", "untrusted"}
    PROVE  Ready(p, AfterError(mu, i))
  <1> DEFINE nu == AfterError(mu, i)
  <1>1. Mid(p, nu)
    BY AfterErrorEffect DEF Stable
  <1>2. /\ nu[i] = tls_session_init
        /\ i # "active" => nu.active = mu.active
        /\ i # "untrusted" => nu.untrusted = mu.untrusted
    BY AfterErrorFields DEF Rest, Ready
  <1>3. Turned(tls_session_init) /\ ~DecryptKeyEnabled(p, tls_session_init.primary)
    BY ResetSession DEF Turned, DecryptKeyEnabled
  <1> QED
    BY <1>1, <1>2, <1>3 DEF Rest, Ready

\* A soft reset, up to the calls of its action.
LEMMA SoftResetReady ==
    ASSUME NEW p \in Peer, NEW mu, Stable(p, mu), Rest(p, mu)
    PROVE  Ready(p, [mu EXCEPT !["active"] = key_state_soft_reset(mu.active)])
  <1> DEFINE u == key_state_soft_reset(mu.active)
  <1>1. /\ mu.active \in OpenSession(p, mu.drawn) /\ mu.drawn \in Nat
        /\ mu.active.primary.key_id <= MaxKey
    BY DEF Stable, Mid, Fields
  <1>2. /\ u \in OpenSession(p, mu.drawn)
        /\ u.primary.remote = mu.active.primary.remote
        /\ u.primary.state = S_INITIAL /\ u.primary.acked = {}
    BY <1>1, SoftResetEffect
  <1>3. Turned(u)
    BY <1>2 DEF Turned
  <1> HIDE DEF u
  <1>4. Mid(p, [mu EXCEPT !["active"] = u])
    BY <1>2, ReplaceEffect DEF Fresh
  <1>5. Ready(p, [mu EXCEPT !["active"] = u])
    BY <1>3, <1>4, ReplaceReady
  <1> QED
    BY <1>5 DEF u

\* Every step leaves nothing to do.
LEMMA StepRests ==
    ASSUME IInv, RestInv, [Next]_vars
    PROVE  RestInv'
  <1>1. ASSUME NEW p \in Peer, Receive(p) PROVE RestInv'
    <2>1. PICK pk \in net :
             /\ Route(multi[p], pk) # "none"
             /\ Then(p, tls_pre_decrypt(p, multi[p], pk))
      BY <1>1 DEF Receive
    <2>2. Ready(p, tls_pre_decrypt(p, multi[p], pk))
      BY <2>1, PreDecryptReady DEF IInv, RestInv
    <2> QED
      BY <2>1, <2>2, ThenRests
  <1>2. ASSUME NEW p \in Peer, Renegotiate(p) PROVE RestInv'
    <2> DEFINE mu == multi[p]
               nu == [mu EXCEPT !["active"] = key_state_soft_reset(mu.active)]
    <2>1. Ready(p, nu)
      BY SoftResetReady DEF IInv, RestInv
    <2>2. Then(p, nu)
      BY <1>2 DEF Renegotiate
    <2> HIDE DEF nu
    <2> QED
      BY <2>1, <2>2, ThenRests
  <1>3. ASSUME NEW p \in Peer, NegotiationFails(p) PROVE RestInv'
    <2>1. PICK i \in {"active", "untrusted"} : Then(p, AfterError(multi[p], i))
      BY <1>3 DEF NegotiationFails
    <2>2. Ready(p, AfterError(multi[p], i))
      BY AfterErrorReady DEF IInv, RestInv
    <2> QED
      BY <2>1, <2>2, ThenRests
  <1>4. ASSUME NEW p \in Peer, Settle(p) PROVE RestInv'
    <2> DEFINE mu == multi[p]
               nu == multi'[p]
    <2>1. PICK k \in {"primary", "lame"} :
             multi' = [multi EXCEPT ![p].active[k].settled = TRUE]
      BY <1>4 DEF Settle
    <2>2. /\ mu.active \in OpenSession(p, mu.drawn) /\ Mid(p, mu)
          /\ Rest(p, mu) /\ Stable(p, nu)
      <3>1. IInv'
        BY <1>4, SettleKeeps
      <3> QED
        BY <3>1 DEF IInv, RestInv, Stable, Mid, Fields
    <2>3. nu = [mu EXCEPT !.active = [mu.active EXCEPT ![k].settled = TRUE]]
      BY <2>1 DEF IInv
    <2> HIDE DEF nu, mu
    <2>4. /\ nu.known = mu.known /\ nu.untrusted = mu.untrusted
          /\ nu.active = [mu.active EXCEPT ![k].settled = TRUE]
      BY <2>2, <2>3 DEF Mid, Fields
    <2>5. /\ nu.active.sid = mu.active.sid
          /\ nu.active.primary.state = mu.active.primary.state
          /\ nu.active.primary.acked = mu.active.primary.acked
          /\ nu.active.primary.got = mu.active.primary.got
          /\ nu.active.primary.tls = mu.active.primary.tls
          /\ nu.active.primary.remote = mu.active.primary.remote
      <3>1. CASE k = "primary"
        BY <2>2, <2>4, <3>1 DEF OpenSession, WideKey
      <3>2. CASE k = "lame"
        BY <2>2, <2>4, <3>2 DEF OpenSession
      <3> QED
        BY <3>1, <3>2
    <2>6. Rest(p, nu)
      BY <2>2, <2>4, <2>5, RestKept
    <2>7. net' = net /\ \A q \in Peer \ {p} : multi'[q] = multi[q]
      BY <1>4, <2>1 DEF Settle, IInv
    <2> QED
      BY <2>6, <2>7 DEF RestInv, nu
  <1>5. ASSUME NEW p \in Peer, Expire(p) PROVE RestInv'
    <2> DEFINE mu == multi[p]
               nu == multi'[p]
    <2>1. /\ mu.active \in OpenSession(p, mu.drawn) /\ Mid(p, mu)
          /\ Rest(p, mu) /\ Stable(p, nu)
      <3>1. IInv'
        BY <1>5, ExpireKeeps
      <3> QED
        BY <3>1 DEF IInv, RestInv, Stable, Mid, Fields
    <2>2. \/ nu = [mu EXCEPT !.active = [mu.active EXCEPT !.lame = NoKey]]
          \/ nu = [mu EXCEPT !.lame = NoSession]
      BY <1>5 DEF Expire, IInv
    <2>3. net' = net /\ \A q \in Peer \ {p} : multi'[q] = multi[q]
      BY <1>5 DEF Expire, IInv
    <2> HIDE DEF nu, mu
    <2>4. /\ nu.known = mu.known /\ nu.untrusted = mu.untrusted
          /\ nu.active.sid = mu.active.sid
          /\ nu.active.primary = mu.active.primary
      BY <2>1, <2>2 DEF Mid, Fields, OpenSession
    <2>5. Rest(p, nu)
      BY <2>1, <2>4, RestKept
    <2> QED
      BY <2>3, <2>5 DEF RestInv, nu
  <1>6. CASE UNCHANGED vars
    BY <1>6 DEF vars, RestInv
  <1> QED
    BY <1>1, <1>2, <1>3, <1>4, <1>5, <1>6 DEF Next

\* A peer before its first calls.
LEMMA FirstReady ==
    ASSUME NEW p \in Peer
    PROVE  Ready(p, tls_multi_init(p)) /\ tls_multi_init(p).active = tls_session_init
  <1> DEFINE mu == tls_multi_init(p)
  <1>1. /\ tls_session_init \in OpenSession(p, 0)
        /\ NoSession \in PastSession(p, 0)
    BY SessionInit
  <1>2. /\ mu.active = tls_session_init /\ mu.untrusted = tls_session_init
        /\ mu.lame = NoSession /\ mu.drawn = 0 /\ Fields(p, mu)
    BY <1>1 DEF tls_multi_init, Fields
  <1>3. tls_session_init.primary.key_id = 0 /\ MaxKey \in Nat
    BY TlsAssumption DEF tls_session_init, key_state_init
  <1> HIDE DEF mu
  <1>4. Ready(p, mu)
    BY <1>2, <1>3, ResetSession DEF Ready, Mid, Distinct, Fresh, Turned, DecryptKeyEnabled
  <1> QED
    BY <1>2, <1>4 DEF mu

\* And so does the start.
LEMMA InitRests == Init => RestInv
  <1> SUFFICES ASSUME Init PROVE RestInv
    OBVIOUS
  <1>1. ASSUME NEW p \in Peer PROVE Rest(p, multi[p])
    <2>1. multi[p] = Quiet(p, tls_multi_init(p))
      BY DEF Init
    <2> QED
      BY <2>1, FirstReady, QuietRests
  <1>2. Client \in Peer
    BY DEF Peer
  <1>3. multi[Client].active.primary.state \in Int /\ Turned(multi[Client].active)
    BY <1>1, <1>2 DEF Rest, Ready, Mid, Fields, OpenSession, WideKey
  <1>4. \A pk \in net : pk.from # None
    BY <1>2, <1>3, PacketsNamed DEF Init
  <1> QED
    BY <1>1, <1>4 DEF RestInv

LEMMA RestInvariance == Spec => []RestInv
  <1>1. IInv /\ RestInv /\ [Next]_vars => RestInv'
    BY StepRests
  <1> QED
    BY <1>1, InitRests, Invariance, PTL DEF Spec

-----------------------------------------------------------------------------
(* The key that a peer encrypts with.                                      *)

Works(k) == k.ks.state >= S_ACTIVE

\* One of the keys that work is chosen, and of one key that works that one.
LEMMA EncryptChoice ==
    ASSUME NEW p, NEW mu
    PROVE  LET keys == key_scan(mu)
               k == tls_pre_encrypt(p, mu)
           IN  /\ \/ k = NoChoice /\ \A i \in 1 .. 3 : ~Works(keys[i])
                  \/ \E i \in 1 .. 3 : k = keys[i] /\ Works(keys[i])
               /\ ~Works(NoChoice)
  <1> DEFINE keys == key_scan(mu)
             S(k) == k.ks.state >= S_ACTIVE /\ k.ks.settled
             W(k) == k.ks.state >= S_ACTIVE
  <1>1. ~Works(NoChoice)
    BY ResetSession DEF Works, NoChoice
  <1>2. DOMAIN keys = 1 .. 3
    BY DEF key_scan
  <1> HIDE DEF keys
  <1>3. FirstOf(keys, S) = NoChoice \/ \E i \in 1 .. 3 : FirstOf(keys, S) = keys[i] /\ S(keys[i])
    <2>1. CASE \E i \in DOMAIN keys : S(keys[i])
      <3> DEFINE P(i) == S(keys[i]) /\ \A j \in 1 .. i - 1 : ~S(keys[j])
      <3>1. \E i \in 1 .. 3 : P(i)
        <4>1. CASE S(keys[1])
          BY <4>1
        <4>2. CASE ~S(keys[1]) /\ S(keys[2])
          BY <4>2
        <4>3. CASE ~S(keys[1]) /\ ~S(keys[2])
          BY <4>3, <1>2, <2>1
        <4> QED
          BY <4>1, <4>2, <4>3
      <3>2. (CHOOSE i \in DOMAIN keys : P(i)) \in 1 .. 3 /\ P(CHOOSE i \in DOMAIN keys : P(i))
        <4> HIDE DEF P
        <4> QED
          BY <1>2, <3>1
      <3>3. FirstOf(keys, S) = keys[CHOOSE i \in DOMAIN keys : P(i)]
        BY <2>1 DEF FirstOf
      <3> QED
        BY <3>2, <3>3
    <2>2. CASE ~\E i \in DOMAIN keys : S(keys[i])
      BY <2>2 DEF FirstOf
    <2> QED
      BY <2>1, <2>2
  <1>4. \/ FirstOf(keys, W) = NoChoice /\ \A i \in 1 .. 3 : ~W(keys[i])
        \/ \E i \in 1 .. 3 : FirstOf(keys, W) = keys[i] /\ W(keys[i])
    <2>1. CASE \E i \in DOMAIN keys : W(keys[i])
      <3> DEFINE P(i) == W(keys[i]) /\ \A j \in 1 .. i - 1 : ~W(keys[j])
      <3>1. \E i \in 1 .. 3 : P(i)
        <4>1. CASE W(keys[1])
          BY <4>1
        <4>2. CASE ~W(keys[1]) /\ W(keys[2])
          BY <4>2
        <4>3. CASE ~W(keys[1]) /\ ~W(keys[2])
          BY <4>3, <1>2, <2>1
        <4> QED
          BY <4>1, <4>2, <4>3
      <3>2. (CHOOSE i \in DOMAIN keys : P(i)) \in 1 .. 3 /\ P(CHOOSE i \in DOMAIN keys : P(i))
        <4> HIDE DEF P
        <4> QED
          BY <1>2, <3>1
      <3>3. FirstOf(keys, W) = keys[CHOOSE i \in DOMAIN keys : P(i)]
        BY <2>1 DEF FirstOf
      <3> QED
        BY <3>2, <3>3
    <2>2. CASE ~\E i \in DOMAIN keys : W(keys[i])
      BY <1>2, <2>2 DEF FirstOf
    <2> QED
      BY <2>1, <2>2
  <1>5. tls_pre_encrypt(p, mu) = IF FirstOf(keys, S) # NoChoice THEN FirstOf(keys, S)
                                 ELSE FirstOf(keys, W)
    BY DEF tls_pre_encrypt, keys
  <1> QED
    BY <1>1, <1>3, <1>4, <1>5 DEF keys, Works

\* What a negotiation that failed in the active session leaves, up to the end
\* of the action.
Restarting(p, a, lame) ==
    /\ Ready(p, a)
    /\ a.active.primary.state <= S_PRE_START /\ a.active.primary.acked = {}
    /\ a.active.lame = NoKey
    /\ a.lame = lame
    /\ Runs(a, "untrusted") => Done(p, a.untrusted) /\ Tidy(a, "untrusted")

LEMMA RestartingStays ==
    ASSUME NEW p \in Peer, NEW a, NEW lame, Restarting(p, a, lame)
    PROVE  Restarting(p, tls_multi_process(p, a), lame)
  <1> DEFINE b == tls_process(p, a, "active")
  <1>1. /\ a.active.primary \in WideKey /\ a.active.primary.state >= S_INITIAL
        /\ Mid(p, a)
    BY DEF Restarting, Ready, Mid, Fields, OpenSession
  <1>2. NextState(p, a["active"]) = S_PRE_START
    BY <1>1, NextStateType DEF Restarting
  <1>3. /\ b.active.primary.state <= S_PRE_START /\ b.active.primary.acked = {}
        /\ b.active.lame = NoKey /\ b.lame = lame
        /\ b.untrusted = a.untrusted /\ b.known = a.known
    <2>1. CASE ~Runs(a, "active")
      BY <2>1 DEF Restarting, tls_process
    <2>2. CASE Runs(a, "active")
      <3>1. Turn(p, a, "active", b)
        BY <1>1, <1>2, <2>2, TurnFields
      <3> HIDE DEF b
      <3> QED
        BY <1>1, <1>2, <3>1 DEF Turn, Restarting, Mid, Fields
    <2> QED
      BY <2>1, <2>2
  <1>4. Mid(p, b)
    BY <1>1, ProcessEffect
  <1>5. tls_process(p, b, "untrusted") = b
    <2>1. Turned(b.untrusted)
      BY <1>3 DEF Restarting, Ready
    <2>2. Runs(b, "untrusted") => Done(p, b.untrusted) /\ Tidy(b, "untrusted")
      BY <1>3 DEF Runs, Tidy, Restarting
    <2> HIDE DEF b
    <2> QED
      BY <1>4, <2>1, <2>2, NoTurn
  <1>6. ~DecryptKeyEnabled(p, b.untrusted.primary)
    BY <1>3 DEF Restarting, Ready
  <1>7. tls_multi_process(p, a) = b
    BY <1>5, <1>6 DEF tls_multi_process, Promote
  <1>8. Turned(b.active)
    <2>1. Left(p, a, "active", 4)
      BY DEF Left, Turns
    <2>2. Left(p, a, "active", 3 + 1) /\ 3 \in Nat
      BY <2>1
    <2> QED
      BY <1>1, <2>2, TurnEffect DEF Restarting, Ready
  <1> HIDE DEF b
  <1>9. Restarting(p, b, lame)
    BY <1>3, <1>4, <1>6, <1>8 DEF Restarting, Ready, Runs, Tidy
  <1> QED
    BY <1>7, <1>9

\* What a negotiation that fails does to the key a peer encrypts with.
LEMMA FailureChoice ==
    ASSUME IInv, RestInv, NEW p \in Peer, NegotiationFails(p),
           tls_pre_encrypt(p, multi[p]) # NoChoice
    PROVE  LET keys == key_scan(multi[p])
               k == tls_pre_encrypt(p, multi[p])
               l == tls_pre_encrypt(p, multi'[p])
           IN  \/ l = k
               \/ k = keys[3] /\ l = keys[2] /\ l.ks.state >= S_ACTIVE
  <1> DEFINE mu == multi[p]
             keys == key_scan(mu)
             k == tls_pre_encrypt(p, mu)
             l == tls_pre_encrypt(p, multi'[p])
  <1>1. /\ Stable(p, mu) /\ Rest(p, mu)
        /\ mu.active \in OpenSession(p, mu.drawn)
        /\ mu.active.primary.state \in Int /\ mu.active.lame.state \in Int
        /\ mu.lame.lame.state \in Int
    <2>1. Stable(p, mu) /\ Rest(p, mu)
      BY DEF IInv, RestInv
    <2> QED
      BY <2>1 DEF Stable, Mid, Fields, OpenSession, PastSession, WideKey, KeyState
  <1>2. PICK i \in {"active", "untrusted"} :
           /\ mu[i].primary.state \in S_PRE_START .. S_GOT_KEY
           /\ multi' = [multi EXCEPT ![p] = Quiet(p, AfterError(mu, i))]
    BY DEF NegotiationFails, Then
  <1>3. multi'[p] = Quiet(p, AfterError(mu, i))
    BY <1>2 DEF IInv
  <1>4. CASE i = "untrusted"
    <2> DEFINE nu == AfterError(mu, "untrusted")
    <2>1. Ready(p, nu)
      BY <1>1, AfterErrorReady
    <2>2. /\ nu.untrusted = tls_session_init /\ nu.active = mu.active
          /\ nu.known = mu.known /\ nu.lame = mu.lame
      BY <1>1 DEF AfterError, Stable, Mid, Fields
    <2> HIDE DEF nu, mu
    <2>3. ~Runs(nu, "untrusted")
      BY <2>2, ResetSession DEF Runs
    <2>4. Runs(nu, "active") => Done(p, nu.active) /\ Tidy(nu, "active")
      BY <1>1, <2>2 DEF Runs, Tidy, Rest
    <2>5. Rest(p, nu)
      BY <2>1, <2>3, <2>4 DEF Rest
    <2>6. multi'[p] = nu
      BY <1>3, <1>4, <2>5, RestIsFixed DEF nu
    <2>7. key_scan(nu) = key_scan(mu)
      BY <2>2 DEF key_scan
    <2> QED
      BY <2>6, <2>7 DEF tls_pre_encrypt, mu
  <1>5. CASE i = "active"
    <2> DEFINE nu == AfterError(mu, "active")
               q == multi'[p]
    <2>1. Ready(p, nu)
      BY <1>1, AfterErrorReady
    <2>2. /\ nu.active = tls_session_init /\ nu.untrusted = mu.untrusted
          /\ nu.known = mu.known
          /\ nu.lame = IF mu.active.lame.state >= S_ACTIVE
                       THEN [mu.active EXCEPT !.primary.state = S_ERROR] ELSE mu.lame
      BY <1>1 DEF AfterError, Stable, Mid, Fields
    <2> HIDE DEF nu
    <2>3. Restarting(p, nu, nu.lame)
      BY <1>1, <2>1, <2>2, ResetSession DEF Restarting, Runs, Tidy, Rest
    <2>4. Restarting(p, q, nu.lame)
      <3> DEFINE Twice(a) == LET b == tls_multi_process(p, a)
                             IN  IF b = a THEN b ELSE tls_multi_process(p, b)
      <3>1. ASSUME NEW a, Restarting(p, a, nu.lame) PROVE Restarting(p, Twice(a), nu.lame)
        BY <3>1, RestartingStays
      <3>2. q = Twice(Twice(nu))
        BY <1>3, <1>5 DEF Quiet, nu
      <3> HIDE DEF Twice
      <3>3. Restarting(p, Twice(nu), nu.lame)
        BY <2>3, <3>1
      <3> QED
        BY <3>1, <3>2, <3>3
    <2> DEFINE next == key_scan(q)
    <2>5. /\ ~Works(keys[1])
          /\ keys[2] = [ks |-> mu.active.lame, sid |-> mu.active.sid]
          /\ keys[3] = [ks |-> mu.lame.lame, sid |-> mu.lame.sid]
      BY <1>2, <1>5 DEF key_scan, Works
    <2>6. ~Works(next[1]) /\ ~Works(next[2])
      <3>1. q.active.primary.state <= S_PRE_START /\ q.active.lame = NoKey
            /\ q.active.primary.state \in Int
        BY <2>4 DEF Restarting, Ready, Mid, Fields, OpenSession, WideKey
      <3> HIDE DEF q
      <3> QED
        BY <3>1, ResetSession DEF key_scan, Works
    <2>7. next[3] = [ks |-> nu.lame.lame, sid |-> nu.lame.sid]
      BY <2>4 DEF key_scan, Restarting
    <2>8. \/ l = NoChoice /\ ~Works(next[3])
          \/ l = next[3] /\ Works(next[3])
      <3> HIDE DEF next
      <3>1. \/ l = NoChoice /\ \A j \in 1 .. 3 : ~Works(next[j])
            \/ \E j \in 1 .. 3 : l = next[j] /\ Works(next[j])
        BY EncryptChoice DEF next
      <3> QED
        BY <2>6, <3>1
    <2>9. (k = keys[2] /\ Works(keys[2])) \/ (k = keys[3] /\ Works(keys[3]))
      <3>1. \E j \in 1 .. 3 : k = keys[j] /\ Works(keys[j])
        BY EncryptChoice
      <3> HIDE DEF keys, k
      <3> QED
        BY <2>5, <3>1
    <2> HIDE DEF keys, next, k, l
    <2>10. CASE mu.active.lame.state >= S_ACTIVE
      <3>1. next[3] = keys[2]
        BY <1>1, <2>2, <2>5, <2>7, <2>10 DEF OpenSession
      <3>2. l = keys[2] /\ Works(keys[2])
        BY <2>5, <2>8, <2>10, <3>1 DEF Works
      <3> QED
        BY <2>9, <3>2 DEF keys, k, l, Works
    <2>11. CASE ~(mu.active.lame.state >= S_ACTIVE)
      <3>1. next[3] = keys[3] /\ ~Works(keys[2])
        BY <2>2, <2>5, <2>7, <2>11 DEF Works
      <3>2. l = k
        BY <2>8, <2>9, <3>1
      <3> QED
        BY <3>2 DEF keys, k, l
    <2> QED
      BY <2>10, <2>11
  <1> QED
    BY <1>4, <1>5

-----------------------------------------------------------------------------
(* The tunnel, as long as the history is calm: each peer has one session,  *)
(* with one key that is negotiated or two at most.                         *)

FirstSid(p) == <<p, 1>>

HasSentKey(p, ks) ==
    \/ ks.state \in {S_SENT_KEY, S_ACTIVE}
    \/ p = Client /\ ks.state = S_GOT_KEY

\* The old key of a session is one that both peers had negotiated.
Retired(s) ==
    /\ s.lame.state = S_ACTIVE /\ s.lame.settled
    /\ s.lame.key_id + 1 = s.primary.key_id
    /\ s.lame.remote = s.primary.remote

\* The session of a peer, and how far its key has come.
Side(p, s) ==
    LET ks == s.primary
    IN  /\ s.sid \in {None, FirstSid(p)} /\ ks.remote \in {None, FirstSid(Other(p))}
        /\ ks.acked # {} \/ ks.got # {} \/ ks.key_id > 0 \/ ks.state >= S_START
             => ks.remote # None
        /\ ks.key_id > 0 \/ ks.state >= S_PRE_START => s.sid # None
        /\ ks.state >= S_START => RESET \in ks.acked /\ ks.tls = ks.remote
        /\ KEY \in ks.got => RESET \in ks.got /\ ks.key = <<FirstSid(Other(p)), FirstSid(p)>>
        /\ DecryptKeyEnabled(p, ks) => KEY \in ks.got
        /\ ks.state = S_ACTIVE => ks.acked = {RESET, KEY}
        /\ ks.settled => ks.state = S_ACTIVE
        /\ s.lame = NoKey \/ Retired(s)

Solo(p, mu) ==
    /\ Side(p, mu.active)
    /\ mu.untrusted = tls_session_init /\ mu.lame = NoSession
    /\ mu.drawn = IF mu.active.sid = None THEN 0 ELSE 1

\* What a session s has of the session t of the other peer, q: their keys are
\* the same, or one is ahead of the other one's working key.
Follows(q, s, t) ==
    LET x == s.primary
        y == t.primary
    IN  /\ x.key_id <= y.key_id + 1
        /\ x.key_id = y.key_id =>
             /\ x.acked \subseteq y.got
             /\ KEY \in x.got => HasSentKey(q, y)
             /\ x.key_id > 0 /\ ~x.settled => Retired(s) /\ Retired(t)
        /\ x.key_id = y.key_id + 1 =>
             /\ x.state <= S_PRE_START /\ x.acked = {} /\ x.got = {}
             /\ Retired(s)
             /\ y.state = S_ACTIVE /\ y.settled

\* A packet of p says no more than its session.
Behind(p, s, pk) ==
    LET ks == s.primary
    IN  /\ pk.key_id \in Nat /\ pk.key_id <= ks.key_id
        /\ pk.op = "key" => pk.to = FirstSid(Other(p))
        /\ pk.key_id = ks.key_id =>
             /\ pk.op = "key" => HasSentKey(p, ks)
             /\ pk.op = "ack0" => RESET \in ks.got
             /\ pk.op = "ack1" => KEY \in ks.got

TunnelInv ==
    calm =>
        /\ \A p \in Peer :
             /\ Solo(p, multi[p])
             /\ Follows(Other(p), multi[p].active, multi[Other(p)].active)
        /\ \A pk \in net : \E p \in Peer :
             pk.from = FirstSid(p) /\ Behind(p, multi[p].active, pk)

LEMMA Others ==
    ASSUME NEW p \in Peer
    PROVE  /\ Other(p) \in Peer /\ Other(Other(p)) = p /\ Other(p) # p
           /\ FirstSid(p) # None /\ FirstSid(p) # FirstSid(Other(p)) /\ FirstSid(p)[1] = p
  BY TlsAssumption DEF Peer, Other, FirstSid

\* The keys of the peer can be read.
LEMMA NoError ==
    ASSUME NEW p \in Peer, NEW s, s.primary \in WideKey, s.primary.state >= S_INITIAL,
           Side(p, s)
    PROVE  NextState(p, s) # S_ERROR
  <1>1. s.primary.state \in S_INITIAL .. S_ACTIVE
    BY DEF WideKey
  <1>2. s.primary.state >= S_START /\ KEY \in s.primary.got => Readable(s)
    <2>1. SUFFICES ASSUME s.primary.state >= S_START, KEY \in s.primary.got
                   PROVE  Readable(s)
      OBVIOUS
    <2>2. /\ s.primary.tls = s.primary.remote /\ s.primary.remote # None
          /\ s.primary.remote \in {None, FirstSid(Other(p))}
          /\ s.sid \in {None, FirstSid(p)} /\ s.sid # None
          /\ s.primary.key = <<FirstSid(Other(p)), FirstSid(p)>>
      BY <1>1, <2>1 DEF Side
    <2> QED
      BY <2>2 DEF Readable
  <1> QED
    BY <1>1, <1>2 DEF NextState

\* A session r that a turn makes of the session s of p.
OneTurn(p, s, r) ==
    /\ r.primary.state = NextState(p, s)
    /\ r.primary.tls = IF NextState(p, s) = S_START THEN s.primary.remote ELSE s.primary.tls
    /\ r.primary.acked = s.primary.acked /\ r.primary.got = s.primary.got
    /\ r.primary.key = s.primary.key /\ r.primary.remote = s.primary.remote
    /\ r.primary.key_id = s.primary.key_id /\ r.primary.settled = s.primary.settled
    /\ r.lame = s.lame
    /\ r.sid = IF s.sid = None THEN FirstSid(p) ELSE s.sid

LEMMA SideTurn ==
    ASSUME NEW p \in Peer, NEW s, s.primary \in WideKey, s.primary.state >= S_INITIAL,
           Side(p, s), s.primary.state = S_INITIAL => s.primary.acked = {},
           NEW r, OneTurn(p, s, r)
    PROVE  /\ Side(p, r)
           /\ HasSentKey(p, s.primary) => HasSentKey(p, r.primary)
           /\ s.primary.state = S_ACTIVE => r.primary.state = S_ACTIVE
           /\ s.primary.state <= S_PRE_START /\ s.primary.acked = {} =>
                r.primary.state <= S_PRE_START
  <1> DEFINE a == s.primary.state
             b == NextState(p, s)
             ks == s.primary
  <1>1. a \in S_INITIAL .. S_ACTIVE /\ ks.acked \subseteq {RESET, KEY}
        /\ ks.key_id \in Nat
    BY TlsAssumption DEF WideKey
  <1>2. b # S_ERROR
    BY NoError
  <1>3. FullSync(p, ks) => RESET \in ks.acked
    BY DEF FullSync, Sent
  <1>4. FullSync(p, ks) /\ a = (IF p = Client THEN S_GOT_KEY ELSE S_SENT_KEY) =>
           ks.acked = {RESET, KEY}
    BY TlsAssumption DEF FullSync, Sent, Peer
  <1>5. \/ a = b
        \/ a = S_INITIAL /\ b = S_PRE_START
        \/ a = S_PRE_START /\ b = S_START /\ FullSync(p, ks)
        \/ a = S_START /\ p = Client /\ b = S_SENT_KEY
        \/ a = S_START /\ p = Server /\ b = S_GOT_KEY /\ KEY \in ks.got
        \/ a = S_SENT_KEY /\ p = Client /\ b = S_GOT_KEY /\ KEY \in ks.got
        \/ a = S_SENT_KEY /\ p = Server /\ b = S_ACTIVE /\ FullSync(p, ks)
        \/ a = S_GOT_KEY /\ p = Server /\ b = S_SENT_KEY
        \/ a = S_GOT_KEY /\ p = Client /\ b = S_ACTIVE /\ FullSync(p, ks)
    BY <1>1, <1>2 DEF NextState
  <1>6. Client # Server /\ (p = Client \/ p = Server) /\ FirstSid(p) # None
    BY TlsAssumption, Others DEF Peer
  <1> HIDE DEF b
  <1>7. r.primary.state = b /\ b \in S_INITIAL .. S_ACTIVE
    BY <1>1, <1>5 DEF OneTurn, b
  <1>8. /\ r.primary.acked = ks.acked /\ r.primary.got = ks.got
        /\ r.primary.key = ks.key /\ r.primary.remote = ks.remote
        /\ r.primary.key_id = ks.key_id /\ r.primary.settled = ks.settled
        /\ r.lame = s.lame /\ r.sid \in {None, FirstSid(p)} /\ r.sid # None
        /\ r.primary.tls = IF b = S_START THEN ks.remote ELSE ks.tls
    BY <1>6 DEF OneTurn, Side, b
  <1>9. Side(p, r)
    <2>1. b >= S_START => RESET \in ks.acked /\ r.primary.tls = ks.remote /\ ks.remote # None
      BY <1>1, <1>3, <1>5, <1>8 DEF Side
    <2>2. DecryptKeyEnabled(p, r.primary) => KEY \in ks.got
      BY <1>1, <1>5, <1>6, <1>7 DEF Side, DecryptKeyEnabled
    <2>3. b = S_ACTIVE => ks.acked = {RESET, KEY}
      BY <1>4, <1>5, <1>6 DEF Side
    <2>4. ks.settled => b = S_ACTIVE
      BY <1>5 DEF Side
    <2>5. s.lame = NoKey \/ Retired(r)
      BY <1>8 DEF Side, Retired
    <2> QED
      BY <1>7, <1>8, <2>1, <2>2, <2>3, <2>4, <2>5 DEF Side
  <1>10. HasSentKey(p, ks) => HasSentKey(p, r.primary)
    BY <1>5, <1>6, <1>7 DEF HasSentKey
  <1>11. a = S_ACTIVE => r.primary.state = S_ACTIVE
    BY <1>5, <1>7
  <1>12. a <= S_PRE_START /\ ks.acked = {} => r.primary.state <= S_PRE_START
    BY <1>1, <1>3, <1>5, <1>7
  <1> QED
    BY <1>9, <1>10, <1>11, <1>12

\* What a session that had a turn has in common with the one before.
Grown(p, s, r) ==
    /\ r.primary.key_id = s.primary.key_id /\ r.primary.remote = s.primary.remote
    /\ r.primary.acked = s.primary.acked /\ r.primary.got = s.primary.got
    /\ r.primary.settled = s.primary.settled /\ r.lame = s.lame
    /\ HasSentKey(p, s.primary) => HasSentKey(p, r.primary)
    /\ s.primary.state = S_ACTIVE => r.primary.state = S_ACTIVE
    /\ s.primary.state <= S_PRE_START /\ s.primary.acked = {} =>
         r.primary.state <= S_PRE_START

LEMMA TurnGrows ==
    ASSUME NEW p, NEW q, NEW s, NEW r, NEW t, Grown(p, s, r)
    PROVE  /\ Follows(q, s, t) => Follows(q, r, t)
           /\ Follows(p, t, s) => Follows(p, t, r)
           /\ \A pk : Behind(p, s, pk) => Behind(p, r, pk)
  <1>1. Retired(r) <=> Retired(s)
    BY DEF Grown, Retired
  <1>2. Follows(q, s, t) => Follows(q, r, t)
    BY <1>1 DEF Grown, Follows
  <1>3. Follows(p, t, s) => Follows(p, t, r)
    BY <1>1 DEF Grown, Follows
  <1>4. ASSUME NEW pk, Behind(p, s, pk) PROVE Behind(p, r, pk)
    BY <1>4 DEF Grown, Behind
  <1> QED
    BY <1>2, <1>3, <1>4

\* A peer in the middle of an action, with the session t of the other one.
Beside(p, mu, t) ==
    /\ Ready(p, mu) /\ Solo(p, mu)
    /\ Follows(Other(p), mu.active, t) /\ Follows(p, t, mu.active)

\* FirstSid call leaves the one session, and what its packets say of it.
LEMMA CallBeside ==
    ASSUME NEW p \in Peer, NEW mu, NEW t, Beside(p, mu, t)
    PROVE  /\ Beside(p, tls_multi_process(p, mu), t)
           /\ \A pk : Behind(p, mu.active, pk) =>
                Behind(p, tls_multi_process(p, mu).active, pk)
  <1> DEFINE nu == tls_process(p, mu, "active")
             s == mu.active
             r == nu.active
  <1>1. /\ Mid(p, mu) /\ s.primary \in WideKey /\ s.primary.state >= S_INITIAL
        /\ Side(p, s)
        /\ s.primary.state = S_INITIAL => s.primary.acked = {}
        /\ mu.untrusted = tls_session_init /\ mu.lame = NoSession
        /\ mu.drawn = IF s.sid = None THEN 0 ELSE 1
    BY DEF Beside, Solo, Ready, Turned, Mid, Fields, OpenSession
  <1>2. Ready(p, tls_multi_process(p, mu))
    <2>1. \A i \in {"active", "untrusted"} : Left(p, mu, i, 3 + 1)
      BY DEF Left, Turns
    <2> QED
      BY <2>1, CallEffect DEF Beside
  <1>3. /\ Side(p, r) /\ Grown(p, s, r)
        /\ nu.untrusted = tls_session_init /\ nu.lame = NoSession
        /\ nu.drawn = IF r.sid = None THEN 0 ELSE 1
    <2>1. CASE ~Runs(mu, "active")
      <3>1. nu = mu
        BY <2>1 DEF tls_process
      <3> QED
        BY <1>1, <3>1 DEF Grown
    <2>2. CASE Runs(mu, "active")
      <3>1. NextState(p, mu["active"]) # S_ERROR
        BY <1>1, NoError
      <3>2. Turn(p, mu, "active", nu)
        BY <1>1, <2>2, <3>1, TurnFields
      <3> HIDE DEF nu
      <3>3. FirstSid(p) = <<p, 1>> /\ FirstSid(p) # None
        BY Others DEF FirstSid
      <3>4. /\ OneTurn(p, s, r) /\ nu.lame = NoSession /\ nu.untrusted = tls_session_init
            /\ nu.drawn = IF r.sid = None THEN 0 ELSE 1
        BY <1>1, <3>2, <3>3 DEF Turn, OneTurn
      <3>5. /\ Side(p, r)
            /\ HasSentKey(p, s.primary) => HasSentKey(p, r.primary)
            /\ s.primary.state = S_ACTIVE => r.primary.state = S_ACTIVE
            /\ s.primary.state <= S_PRE_START /\ s.primary.acked = {} =>
                 r.primary.state <= S_PRE_START
        BY <1>1, <3>4, SideTurn
      <3>6. Grown(p, s, r)
        BY <3>4, <3>5 DEF Grown, OneTurn
      <3> QED
        BY <3>4, <3>5, <3>6
    <2> QED
      BY <2>1, <2>2
  <1> HIDE DEF nu
  <1>4. tls_multi_process(p, mu) = nu
    <2>1. ~Runs(nu, "untrusted")
      BY <1>3, ResetSession DEF Runs
    <2>2. tls_process(p, nu, "untrusted") = nu
      BY <2>1 DEF tls_process
    <2>3. ~DecryptKeyEnabled(p, nu.untrusted.primary)
      BY <1>3, ResetSession DEF DecryptKeyEnabled
    <2> QED
      BY <2>2, <2>3 DEF tls_multi_process, Promote, nu
  <1>5. Solo(p, nu)
    BY <1>3 DEF Solo
  <1>6. Follows(Other(p), r, t) /\ Follows(p, t, r)
    BY <1>3, TurnGrows DEF Beside
  <1>7. \A pk : Behind(p, s, pk) => Behind(p, r, pk)
    BY <1>3, TurnGrows
  <1> QED
    BY <1>2, <1>4, <1>5, <1>6, <1>7 DEF Beside

\* So do all the calls.
LEMMA QuietBeside ==
    ASSUME NEW p \in Peer, NEW mu, NEW t, Beside(p, mu, t)
    PROVE  /\ Beside(p, Quiet(p, mu), t)
           /\ \A pk : Behind(p, mu.active, pk) => Behind(p, Quiet(p, mu).active, pk)
  <1> DEFINE Call(a) == tls_multi_process(p, a)
             Twice(a) == LET b == Call(a) IN IF b = a THEN b ELSE Call(b)
             Goes(a, b) == Beside(p, a, t) =>
                /\ Beside(p, b, t)
                /\ \A pk : Behind(p, a.active, pk) => Behind(p, b.active, pk)
  <1>1. ASSUME NEW a PROVE Goes(a, Call(a))
    BY CallBeside
  <1> HIDE DEF Call
  <1>2. ASSUME NEW a PROVE Goes(a, Twice(a))
    <2>1. Goes(a, Call(a)) /\ Goes(Call(a), Call(Call(a)))
      BY <1>1
    <2>2. Twice(a) = Call(a) \/ Twice(a) = Call(Call(a))
      OBVIOUS
    <2> HIDE DEF Twice
    <2> QED
      BY <2>1, <2>2
  <1> HIDE DEF Twice
  <1>3. Goes(mu, Twice(mu)) /\ Goes(Twice(mu), Twice(Twice(mu)))
    <2> HIDE DEF Goes
    <2> QED
      BY <1>2
  <1>4. Quiet(p, mu) = Twice(Twice(mu))
    BY DEF Quiet, Twice, Call
  <1> QED
    BY <1>3, <1>4

\* The packets of a session say no more than the session.
LEMMA PacketsBehind ==
    ASSUME NEW p \in Peer, NEW s, s.primary \in WideKey, Side(p, s),
           NEW pk \in Packets(p, s)
    PROVE  pk.from = FirstSid(p) /\ Behind(p, s, pk)
  <1> DEFINE ks == s.primary
             Packet(op, to) == [op |-> op, from |-> s.sid, key_id |-> ks.key_id, to |-> to]
             sent == IF p = Client /\ ks.state = S_GOT_KEY THEN {RESET, KEY} ELSE Sent(ks)
             reset == Packet(IF ks.key_id = 0 THEN "hard" ELSE "soft", None)
  <1>1. /\ ks.state >= S_PRE_START
        /\ pk \in {IF n = RESET THEN reset ELSE Packet("key", ks.tls) : n \in sent}
             \cup {Packet(IF n = RESET THEN "ack0" ELSE "ack1", ks.remote) : n \in ks.got}
    <2>1. ks.state \in Int
      BY DEF WideKey
    <2>2. Packets(p, s) = IF ks.state < S_PRE_START THEN {} ELSE
            {IF n = RESET THEN reset ELSE Packet("key", ks.tls) : n \in sent}
             \cup {Packet(IF n = RESET THEN "ack0" ELSE "ack1", ks.remote) : n \in ks.got}
      BY DEF Packets
    <2> HIDE DEF Packet, sent, reset
    <2> QED
      BY <2>1, <2>2
  <1>2. /\ ks.key_id \in Nat /\ ks.state \in S_ERROR .. S_ACTIVE
        /\ ks.got \subseteq {RESET, KEY}
    BY TlsAssumption DEF WideKey
  <1>3. s.sid = FirstSid(p)
    BY <1>1 DEF Side
  <1>4. \/ pk = reset
        \/ pk = Packet("key", ks.tls) /\ KEY \in sent
        \/ pk = Packet("ack0", ks.remote) /\ RESET \in ks.got
        \/ pk = Packet("ack1", ks.remote) /\ KEY \in ks.got
    <2>1. sent \subseteq {RESET, KEY}
      BY DEF Sent
    <2> HIDE DEF sent, reset, Packet
    <2> QED
      BY <1>1, <1>2, <2>1
  <1>5. KEY \in sent => HasSentKey(p, ks)
    BY DEF Sent, HasSentKey, RESET, KEY
  <1>6. HasSentKey(p, ks) => ks.tls = FirstSid(Other(p))
    BY <1>2, Others DEF HasSentKey, Side
  <1> HIDE DEF sent
  <1>7. pk.from = FirstSid(p) /\ pk.key_id = ks.key_id
    BY <1>3, <1>4
  <1>8. CASE pk = reset
    BY <1>2, <1>7, <1>8 DEF Behind
  <1>9. CASE pk = Packet("key", ks.tls) /\ KEY \in sent
    BY <1>2, <1>5, <1>6, <1>7, <1>9 DEF Behind
  <1>10. CASE pk = Packet("ack0", ks.remote) /\ RESET \in ks.got
    BY <1>2, <1>7, <1>10 DEF Behind
  <1>11. CASE pk = Packet("ack1", ks.remote) /\ KEY \in ks.got
    BY <1>2, <1>7, <1>11 DEF Behind
  <1> QED
    BY <1>4, <1>7, <1>8, <1>9, <1>10, <1>11

\* The end of an action.
LEMMA ThenBeside ==
    ASSUME IInv, RestInv, TunnelInv, calm, NEW p \in Peer, NEW mu,
           Beside(p, mu, multi[Other(p)].active),
           \A pk \in net : pk.from = FirstSid(p) => Behind(p, mu.active, pk),
           Then(p, mu)
    PROVE  TunnelInv'
  <1> DEFINE quiet == Quiet(p, mu)
             q == Other(p)
             t == multi[q].active
  <1>1. /\ multi' = [multi EXCEPT ![p] = quiet]
        /\ net' = net \cup Packets(p, quiet.active) \cup Packets(p, quiet.untrusted)
    BY DEF Then
  <1>2. /\ Beside(p, quiet, t)
        /\ \A pk : Behind(p, mu.active, pk) => Behind(p, quiet.active, pk)
    BY QuietBeside
  <1> HIDE DEF quiet
  <1>3. /\ Ready(p, quiet) /\ Solo(p, quiet)
        /\ Follows(q, quiet.active, t) /\ Follows(p, t, quiet.active)
    BY <1>2 DEF Beside
  <1>4. q \in Peer /\ q # p /\ Other(q) = p /\ FirstSid(p) # FirstSid(q) /\ Peer = {p, q}
    BY Others DEF Peer, Other
  <1>5. multi'[p] = quiet /\ multi'[q] = multi[q]
    BY <1>1, <1>4 DEF IInv
  <1> HIDE DEF q
  <1>6. ASSUME NEW x \in Peer
        PROVE  Solo(x, multi'[x]) /\ Follows(Other(x), multi'[x].active, multi'[Other(x)].active)
    <2>1. CASE x = p
      BY <1>3, <1>5, <2>1 DEF q
    <2>2. CASE x = q
      BY <1>3, <1>4, <1>5, <2>2 DEF TunnelInv
    <2> QED
      BY <1>4, <2>1, <2>2
  <1>7. ASSUME NEW pk \in net'
        PROVE  \E x \in Peer : pk.from = FirstSid(x) /\ Behind(x, multi'[x].active, pk)
    <2>1. CASE pk \in net
      <3>1. PICK x \in Peer : pk.from = FirstSid(x) /\ Behind(x, multi[x].active, pk)
        BY <2>1 DEF TunnelInv
      <3>2. CASE x = p
        BY <1>2, <1>5, <2>1, <3>1, <3>2
      <3>3. CASE x = q
        BY <1>5, <3>1, <3>3
      <3> QED
        BY <1>4, <3>2, <3>3
    <2>2. CASE pk \in Packets(p, quiet.active)
      <3>1. quiet.active.primary \in WideKey /\ Side(p, quiet.active)
        BY <1>3 DEF Ready, Solo, Mid, Fields, OpenSession
      <3> QED
        BY <1>5, <2>2, <3>1, PacketsBehind
    <2>3. CASE pk \in Packets(p, quiet.untrusted)
      <3>1. quiet.untrusted.primary.state < S_PRE_START
        BY <1>3, ResetSession DEF Solo
      <3> QED
        BY <2>3, <3>1 DEF Packets
    <2> QED
      BY <1>1, <1>7, <2>1, <2>2, <2>3
  <1> QED
    BY <1>6, <1>7 DEF TunnelInv

\* The two sessions, in a calm state.
LEMMA Sessions ==
    ASSUME IInv, RestInv, TunnelInv, calm, NEW p \in Peer
    PROVE  LET s == multi[p].active
           IN  /\ s \in OpenSession(p, multi[p].drawn) /\ s.primary \in WideKey
               /\ s.primary.state \in S_INITIAL .. S_ACTIVE /\ s.primary.key_id \in 0 .. MaxKey
               /\ s.primary.acked \subseteq {RESET, KEY} /\ s.primary.got \subseteq {RESET, KEY}
               /\ Side(p, s)
               /\ s.primary.remote # None => s.sid = FirstSid(p) /\ Done(p, s)
               /\ s.primary.remote # None => s.primary.remote = FirstSid(Other(p))
               /\ Follows(Other(p), s, multi[Other(p)].active)
               /\ Follows(p, multi[Other(p)].active, s)
  <1> DEFINE s == multi[p].active
  <1>1. Stable(p, multi[p]) /\ Rest(p, multi[p]) /\ Solo(p, multi[p])
    BY DEF IInv, RestInv, TunnelInv
  <1>2. /\ s \in OpenSession(p, multi[p].drawn) /\ s.primary \in WideKey
        /\ s.primary.state >= S_INITIAL /\ s.primary.key_id <= MaxKey
    BY <1>1 DEF Stable, Mid, Fields, OpenSession
  <1>3. /\ s.primary.state \in S_INITIAL .. S_ACTIVE /\ s.primary.key_id \in 0 .. MaxKey
        /\ s.primary.acked \subseteq {RESET, KEY} /\ s.primary.got \subseteq {RESET, KEY}
    BY <1>2, TlsAssumption DEF WideKey
  <1>4. Side(p, s)
    BY <1>1 DEF Solo
  <1>5. ASSUME s.primary.remote # None PROVE s.sid = FirstSid(p) /\ Done(p, s)
    <2>1. Done(p, s)
      BY <1>1, <1>2, <1>5 DEF Rest, Runs
    <2>2. s.primary.state # S_INITIAL
      BY <2>1 DEF Done, NextState
    <2> QED
      BY <1>3, <1>4, <2>1, <2>2 DEF Side
  <1>6. /\ Follows(Other(p), s, multi[Other(p)].active)
        /\ Follows(p, multi[Other(p)].active, s)
    BY Others DEF TunnelInv
  <1> QED
    BY <1>2, <1>3, <1>4, <1>5, <1>6 DEF Side

\* A key that works has its mate, if the other peer is at the same key.
LEMMA MateOf ==
    ASSUME IInv, RestInv, TunnelInv, calm, NEW p \in Peer,
           multi[p].active.primary.state = S_ACTIVE,
           multi[p].active.primary.key_id = multi[Other(p)].active.primary.key_id
    PROVE  /\ Mates(key_scan(multi[p])[1], key_scan(multi[Other(p)])[1])
           /\ DecryptKeyEnabled(Other(p), multi[Other(p)].active.primary)
  <1> DEFINE q == Other(p)
             s == multi[p].active
             t == multi[q].active
  <1>1. q \in Peer /\ Other(q) = p /\ Client # Server /\ (q = Client \/ q = Server)
    BY Others, TlsAssumption DEF Peer
  <1>2. /\ s.primary.remote = FirstSid(q) /\ s.sid = FirstSid(p)
        /\ s.primary.acked = {RESET, KEY} /\ KEY \in s.primary.got
    <2>1. Side(p, s) /\ (s.primary.remote # None => s.sid = FirstSid(p))
      BY Sessions
    <2> QED
      BY <2>1 DEF Side, DecryptKeyEnabled
  <1>3. /\ Side(q, t) /\ t.primary.state \in S_INITIAL .. S_ACTIVE
        /\ t.primary.remote # None =>
             t.primary.remote = FirstSid(p) /\ t.sid = FirstSid(q) /\ Done(q, t)
        /\ t.primary \in WideKey
    BY <1>1, Sessions
  <1>4. Follows(q, s, t)
    BY Sessions
  <1>5. KEY \in t.primary.got /\ HasSentKey(q, t.primary)
    BY <1>2, <1>4 DEF Follows
  <1>6. t.primary.remote = FirstSid(p) /\ t.sid = FirstSid(q) /\ Done(q, t)
    BY <1>3, <1>5 DEF Side
  <1>7. DecryptKeyEnabled(q, t.primary)
    <2>1. NextState(q, t) # S_ERROR
      BY <1>1, <1>3, NoError
    <2>2. ~(q = Client /\ t.primary.state = S_SENT_KEY)
      BY <1>5, <1>6, <2>1 DEF Done, NextState
    <2> QED
      BY <1>1, <1>5, <2>2 DEF HasSentKey, DecryptKeyEnabled
  <1>8. Mates(key_scan(multi[p])[1], key_scan(multi[q])[1])
    BY <1>2, <1>6 DEF Mates, key_scan
  <1> QED
    BY <1>7, <1>8

\* What a key that is over for both says of the key of the other peer.
LEMMA OverMeans ==
    ASSUME IInv, RestInv, TunnelInv, calm, NEW p \in Peer,
           OverForBoth(p, key_scan(multi[p])[1])
    PROVE  LET s == multi[p].active
               t == multi[Other(p)].active
           IN  /\ s.primary.state = S_ACTIVE /\ s.primary.settled
               /\ s.primary.key_id = t.primary.key_id =>
                    t.primary.state = S_ACTIVE /\ t.primary.settled
               /\ s.primary.key_id # t.primary.key_id + 1
  <1> DEFINE q == Other(p)
             s == multi[p].active
             t == multi[q].active
             keys == key_scan(multi[q])
  <1>1. s.primary.settled
    BY DEF OverForBoth, key_scan
  <1>2. Side(p, s) /\ Follows(q, s, t)
    BY Sessions
  <1>3. s.primary.state = S_ACTIVE
    BY <1>1, <1>2 DEF Side
  <1>4. s.primary.key_id # t.primary.key_id + 1
    BY <1>2, <1>3 DEF Follows
  <1>5. ASSUME s.primary.key_id = t.primary.key_id
        PROVE  t.primary.state = S_ACTIVE /\ t.primary.settled
    <2>1. Mates(key_scan(multi[p])[1], keys[1])
      BY <1>3, <1>5, MateOf
    <2>2. keys[1].ks.settled
      BY <2>1 DEF OverForBoth
    <2>3. t.primary.settled
      BY <2>2 DEF key_scan
    <2>4. Side(q, t)
      BY Others, Sessions
    <2> QED
      BY <2>3, <2>4 DEF Side
  <1> QED
    BY <1>1, <1>3, <1>4, <1>5

\* An action that replaces the session, up to its calls.
LEMMA SessionReplaced ==
    ASSUME IInv, RestInv, TunnelInv, calm, NEW p \in Peer, NEW u,
           Ready(p, [multi[p] EXCEPT !["active"] = u]),
           Side(p, u), u.sid = multi[p].active.sid,
           Follows(Other(p), u, multi[Other(p)].active),
           Follows(p, multi[Other(p)].active, u),
           \A pk : Behind(p, multi[p].active, pk) => Behind(p, u, pk),
           Then(p, [multi[p] EXCEPT !["active"] = u])
    PROVE  TunnelInv'
  <1> DEFINE mu == multi[p]
             nu == [mu EXCEPT !["active"] = u]
  <1>1. Mid(p, mu) /\ Solo(p, mu)
    BY DEF IInv, Stable, TunnelInv
  <1>2. /\ nu.active = u /\ nu.untrusted = mu.untrusted /\ nu.lame = mu.lame
        /\ nu.drawn = mu.drawn
    BY <1>1 DEF Mid, Fields
  <1>3. Ready(p, nu) /\ Then(p, nu)
    OBVIOUS
  <1> HIDE DEF nu
  <1>4. Solo(p, nu)
    BY <1>1, <1>2 DEF Solo
  <1>5. Beside(p, nu, multi[Other(p)].active)
    BY <1>2, <1>3, <1>4 DEF Beside
  <1>6. \A pk \in net : pk.from = FirstSid(p) => Behind(p, nu.active, pk)
    <2>1. \A x \in Peer : FirstSid(x) = FirstSid(p) => x = p
      BY DEF FirstSid
    <2> QED
      BY <1>2, <2>1 DEF TunnelInv
  <1> QED
    BY <1>3, <1>5, <1>6, ThenBeside

\* The fields of a session after a soft reset.
Again(s, u) ==
    /\ u.sid = s.sid /\ u.lame = s.primary
    /\ u.primary.state = S_INITIAL /\ u.primary.key_id = s.primary.key_id + 1
    /\ u.primary.remote = s.primary.remote
    /\ u.primary.acked = {} /\ u.primary.got = {} /\ ~u.primary.settled

LEMMA SoftResetAgain ==
    ASSUME NEW p, NEW n, NEW s \in OpenSession(p, n)
    PROVE  Again(s, key_state_soft_reset(s))
  <1> DEFINE k == key_state_init(s.primary.key_id + 1, s.primary.remote)
             u == [s EXCEPT !.lame = s.primary, !.primary = k]
  <1>1. key_state_soft_reset(s) = u
    BY DEF key_state_soft_reset
  <1>2. /\ k.state = S_INITIAL /\ k.key_id = s.primary.key_id + 1
        /\ k.remote = s.primary.remote
        /\ k.acked = {} /\ k.got = {} /\ ~k.settled
    BY DEF key_state_init
  <1> HIDE DEF k
  <1>3. u.sid = s.sid /\ u.lame = s.primary /\ u.primary = k
    BY DEF OpenSession
  <1> QED
    BY <1>1, <1>2, <1>3 DEF Again

\* Such a session, when the key before it was over.
LEMMA AgainSide ==
    ASSUME NEW p \in Peer, NEW s, Side(p, s), s.primary \in WideKey,
           s.primary.state = S_ACTIVE, s.primary.settled, NEW u, Again(s, u)
    PROVE  /\ Side(p, u) /\ Retired(u)
           /\ \A pk : Behind(p, s, pk) => Behind(p, u, pk)
  <1>1. s.primary.key_id \in Nat
    BY TlsAssumption DEF WideKey
  <1>2. Retired(u)
    BY DEF Again, Retired
  <1>3. Side(p, u)
    <2>1. s.sid # None /\ s.primary.remote # None
      BY DEF Side
    <2>2. ~DecryptKeyEnabled(p, u.primary)
      BY DEF Again, DecryptKeyEnabled
    <2> QED
      BY <1>1, <1>2, <2>1, <2>2 DEF Side, Again
  <1>4. ASSUME NEW pk, Behind(p, s, pk) PROVE Behind(p, u, pk)
    BY <1>1, <1>4 DEF Behind, Again
  <1> QED
    BY <1>2, <1>3, <1>4

\* A renegotiation starts.
LEMMA RenegotiateBeside ==
    ASSUME IInv, RestInv, TunnelInv, calm, NEW p \in Peer, Renegotiate(p)
    PROVE  TunnelInv'
  <1> DEFINE q == Other(p)
             mu == multi[p]
             s == mu.active
             t == multi[q].active
             u == key_state_soft_reset(s)
  <1>1. /\ OverForBoth(p, key_scan(multi[p])[1])
        /\ Then(p, [mu EXCEPT !["active"] = u])
    BY DEF Renegotiate
  <1>2. /\ s.primary.state = S_ACTIVE /\ s.primary.settled
        /\ s.primary.key_id = t.primary.key_id =>
             t.primary.state = S_ACTIVE /\ t.primary.settled
        /\ s.primary.key_id # t.primary.key_id + 1
    BY <1>1, OverMeans
  <1>3. /\ s \in OpenSession(p, mu.drawn) /\ s.primary \in WideKey
        /\ s.primary.key_id \in Nat /\ Side(p, s)
        /\ Follows(q, s, t) /\ Follows(p, t, s)
    BY Sessions
  <1>4. t.primary.key_id \in Nat
    BY Others, Sessions
  <1>5. Again(s, u)
    BY <1>3, SoftResetAgain
  <1>6. Ready(p, [mu EXCEPT !["active"] = u])
    BY SoftResetReady DEF IInv, RestInv
  <1> HIDE DEF u
  <1>7. /\ Side(p, u) /\ Retired(u)
        /\ \A pk : Behind(p, s, pk) => Behind(p, u, pk)
    BY <1>2, <1>3, <1>5, AgainSide
  <1>8. Follows(q, u, t)
    BY <1>2, <1>3, <1>4, <1>5, <1>7 DEF Again, Follows
  <1>9. Follows(p, t, u)
    BY <1>2, <1>3, <1>4, <1>5, <1>7 DEF Again, Follows
  <1>10. u.sid = s.sid
    BY <1>5 DEF Again
  <1> QED
    BY <1>1, <1>6, <1>7, <1>8, <1>9, <1>10, SessionReplaced

\* A timer that changes the session of a peer, and nothing else.
LEMMA SessionTouched ==
    ASSUME IInv, RestInv, TunnelInv, calm, NEW p \in Peer, NEW u,
           Side(p, u), u.sid = multi[p].active.sid,
           Follows(Other(p), u, multi[Other(p)].active),
           Follows(p, multi[Other(p)].active, u),
           \A pk : Behind(p, multi[p].active, pk) => Behind(p, u, pk),
           multi' = [multi EXCEPT ![p] = [multi[p] EXCEPT !["active"] = u]],
           net' = net
    PROVE  TunnelInv'
  <1> DEFINE mu == multi[p]
             nu == [mu EXCEPT !["active"] = u]
             q == Other(p)
  <1>1. Mid(p, mu) /\ Solo(p, mu)
    BY DEF IInv, Stable, TunnelInv
  <1>2. /\ nu.active = u /\ nu.untrusted = mu.untrusted /\ nu.lame = mu.lame
        /\ nu.drawn = mu.drawn
    BY <1>1 DEF Mid, Fields
  <1>3. q \in Peer /\ q # p /\ Other(q) = p /\ FirstSid(p) # FirstSid(q) /\ Peer = {p, q}
    BY Others DEF Peer, Other
  <1>4. multi'[p] = nu /\ multi'[q] = multi[q]
    BY <1>3 DEF IInv
  <1> HIDE DEF nu, q
  <1>5. Solo(p, nu)
    BY <1>1, <1>2 DEF Solo
  <1>6. ASSUME NEW x \in Peer
        PROVE  Solo(x, multi'[x]) /\ Follows(Other(x), multi'[x].active, multi'[Other(x)].active)
    <2>1. CASE x = p
      BY <1>2, <1>4, <1>5, <2>1 DEF q
    <2>2. CASE x = q
      BY <1>2, <1>3, <1>4, <2>2 DEF TunnelInv, q
    <2> QED
      BY <1>3, <2>1, <2>2
  <1>7. ASSUME NEW pk \in net
        PROVE  \E x \in Peer : pk.from = FirstSid(x) /\ Behind(x, multi'[x].active, pk)
    <2>1. PICK x \in Peer : pk.from = FirstSid(x) /\ Behind(x, multi[x].active, pk)
      BY DEF TunnelInv
    <2>2. CASE x = p
      BY <1>2, <1>4, <2>1, <2>2
    <2>3. CASE x = q
      BY <1>4, <2>1, <2>3
    <2> QED
      BY <1>3, <2>2, <2>3
  <1> QED
    BY <1>6, <1>7 DEF TunnelInv

\* The handshake window of a key runs out: of the only one that can have it
\* open.
LEMMA SettleBeside ==
    ASSUME IInv, RestInv, TunnelInv, calm, NEW p \in Peer, Settle(p)
    PROVE  TunnelInv'
  <1> DEFINE q == Other(p)
             mu == multi[p]
             s == mu.active
             t == multi[q].active
             ks == [s.primary EXCEPT !.settled = TRUE]
             u == [s EXCEPT !.primary = ks]
  <1>1. PICK k \in {"primary", "lame"} :
           /\ s[k].state >= S_ACTIVE /\ ~s[k].settled
           /\ multi' = [multi EXCEPT ![p].active[k].settled = TRUE]
    BY DEF Settle
  <1>2. /\ s \in OpenSession(p, mu.drawn) /\ s.primary \in WideKey
        /\ s.primary.state \in S_INITIAL .. S_ACTIVE
        /\ Side(p, s) /\ Follows(q, s, t) /\ Follows(p, t, s)
    BY Sessions
  <1>3. k = "primary"
    <2>1. ~(s.lame.state >= S_ACTIVE /\ ~s.lame.settled)
      BY <1>2, ResetSession DEF Side, Retired
    <2> QED
      BY <1>1, <2>1
  <1>4. multi' = [multi EXCEPT ![p] = [mu EXCEPT !["active"] = u]]
    BY <1>1, <1>2, <1>3 DEF IInv
  <1>5. /\ ks.state = S_ACTIVE /\ ks.settled /\ ks.key_id = s.primary.key_id
        /\ ks.acked = s.primary.acked /\ ks.got = s.primary.got
        /\ ks.remote = s.primary.remote /\ ks.tls = s.primary.tls
        /\ ks.key = s.primary.key /\ s.primary.state = S_ACTIVE
    BY <1>1, <1>2, <1>3 DEF WideKey
  <1>6. u.primary = ks /\ u.sid = s.sid /\ u.lame = s.lame
    BY <1>2 DEF OpenSession
  <1> HIDE DEF u, ks
  <1>7. Retired(u) <=> Retired(s)
    BY <1>5, <1>6 DEF Retired
  <1>8. Side(p, u)
    BY <1>2, <1>5, <1>6, <1>7 DEF Side, DecryptKeyEnabled
  <1>9. Follows(q, u, t)
    BY <1>2, <1>5, <1>6, <1>7 DEF Follows
  <1>10. HasSentKey(p, s.primary) <=> HasSentKey(p, u.primary)
    BY <1>5, <1>6 DEF HasSentKey
  <1>11. Follows(p, t, u)
    BY <1>2, <1>5, <1>6, <1>7, <1>10 DEF Follows
  <1>12. \A pk : Behind(p, s, pk) => Behind(p, u, pk)
    BY <1>5, <1>6, <1>10 DEF Behind
  <1>13. net' = net
    BY DEF Settle
  <1> QED
    BY <1>4, <1>6, <1>8, <1>9, <1>11, <1>12, <1>13, SessionTouched

\* The transition window of an old key runs out.
LEMMA ExpireBeside ==
    ASSUME IInv, RestInv, TunnelInv, calm, NEW p \in Peer, Expire(p)
    PROVE  TunnelInv'
  <1> DEFINE q == Other(p)
             mu == multi[p]
             s == mu.active
             t == multi[q].active
             u == [s EXCEPT !.lame = NoKey]
  <1>1. /\ OverForBoth(p, key_scan(multi[p])[1])
        /\ multi' = [multi EXCEPT ![p].active.lame = NoKey]
        /\ net' = net
    <2>1. mu.lame.lame.state = S_UNDEF
      <3>1. mu.lame = NoSession
        BY DEF TunnelInv, Solo
      <3>2. NoSession.lame = NoKey
        BY DEF NoSession, tls_session_init
      <3> QED
        BY <3>1, <3>2, ResetSession
    <2> QED
      BY <2>1 DEF Expire
  <1>2. /\ s.primary.state = S_ACTIVE /\ s.primary.settled
        /\ s.primary.key_id = t.primary.key_id => t.primary.settled
        /\ s.primary.key_id # t.primary.key_id + 1
    BY <1>1, OverMeans
  <1>3. /\ s \in OpenSession(p, mu.drawn)
        /\ s.primary.key_id \in Nat /\ Side(p, s)
        /\ Follows(q, s, t) /\ Follows(p, t, s)
    BY Sessions
  <1>4. multi' = [multi EXCEPT ![p] = [mu EXCEPT !["active"] = u]]
    BY <1>1 DEF IInv
  <1>5. u.primary = s.primary /\ u.sid = s.sid /\ u.lame = NoKey
    BY <1>3 DEF OpenSession
  <1> HIDE DEF u
  <1>6. Side(p, u)
    BY <1>3, <1>5 DEF Side
  <1>7. Follows(q, u, t)
    BY <1>2, <1>3, <1>5 DEF Follows
  <1>8. Follows(p, t, u)
    BY <1>2, <1>3, <1>5 DEF Follows
  <1>9. \A pk : Behind(p, s, pk) => Behind(p, u, pk)
    BY <1>5 DEF Behind
  <1> QED
    BY <1>1, <1>4, <1>5, <1>6, <1>7, <1>8, <1>9, SessionTouched

\* What a packet that is stored adds to the session of a peer.
Heard(p, s, u, pk) ==
    /\ u.sid = s.sid /\ u.lame = s.lame
    /\ u.primary.state = s.primary.state /\ u.primary.key_id = s.primary.key_id
    /\ u.primary.tls = s.primary.tls /\ u.primary.settled = s.primary.settled
    /\ u.primary.remote = s.primary.remote
    /\ u.primary.acked \subseteq {RESET, KEY} /\ u.primary.got \subseteq {RESET, KEY}
    /\ s.primary.acked \subseteq u.primary.acked /\ s.primary.got \subseteq u.primary.got
    /\ u.primary.acked # s.primary.acked \/ u.primary.got # s.primary.got =>
         pk.key_id = s.primary.key_id
    /\ RESET \in u.primary.acked \ s.primary.acked => pk.op = "ack0"
    /\ KEY \in u.primary.acked \ s.primary.acked => pk.op = "ack1"
    /\ \/ u.primary.key = s.primary.key /\ (KEY \in u.primary.got => KEY \in s.primary.got)
       \/ /\ pk.op = "key" /\ u.primary.key = <<pk.from, pk.to>>
          /\ RESET \in s.primary.got

LEMMA StoredHeard ==
    ASSUME NEW p, NEW n, NEW s \in OpenSession(p, n), NEW pk
    PROVE  Heard(p, s, Stored(s, pk), pk)
  <1> DEFINE ks == s.primary
             Ack(k) == [s EXCEPT !.primary.acked = @ \cup {k}]
             Reset == [s EXCEPT !.primary.got = @ \cup {RESET}]
             Both == [s EXCEPT !.primary.got = {RESET, KEY},
                               !.primary.key = <<pk.from, pk.to>>]
             Keeps(u) == /\ u.sid = s.sid /\ u.lame = s.lame
                         /\ u.primary.state = ks.state /\ u.primary.key_id = ks.key_id
                         /\ u.primary.tls = ks.tls /\ u.primary.settled = ks.settled
                         /\ u.primary.remote = ks.remote
  <1>1. /\ ks.acked \subseteq {RESET, KEY} /\ ks.got \subseteq {RESET, KEY}
        /\ RESET # KEY
    BY DEF OpenSession, WideKey, RESET, KEY
  <1>2. ASSUME NEW k \in {RESET, KEY}
        PROVE  /\ Keeps(Ack(k)) /\ Ack(k).primary.acked = ks.acked \cup {k}
               /\ Ack(k).primary.got = ks.got /\ Ack(k).primary.key = ks.key
    BY DEF OpenSession, WideKey
  <1>3. /\ Keeps(Reset) /\ Reset.primary.acked = ks.acked
        /\ Reset.primary.got = ks.got \cup {RESET} /\ Reset.primary.key = ks.key
    BY DEF OpenSession, WideKey
  <1>4. /\ Keeps(Both) /\ Both.primary.acked = ks.acked
        /\ Both.primary.got = {RESET, KEY} /\ Both.primary.key = <<pk.from, pk.to>>
    BY DEF OpenSession, WideKey
  <1>5. \/ Stored(s, pk) = s
        \/ Stored(s, pk) = Ack(RESET) /\ pk.op = "ack0" /\ pk.key_id = ks.key_id
        \/ Stored(s, pk) = Ack(KEY) /\ pk.op = "ack1" /\ pk.key_id = ks.key_id
        \/ Stored(s, pk) = Reset /\ pk.key_id = ks.key_id
        \/ Stored(s, pk) = Both /\ pk.op = "key" /\ pk.key_id = ks.key_id /\ ks.got = {RESET}
    BY DEF Stored
  <1> HIDE DEF Ack, Reset, Both
  <1>6. CASE Stored(s, pk) = s
    BY <1>1, <1>6 DEF Heard
  <1>7. CASE Stored(s, pk) = Ack(RESET) /\ pk.op = "ack0" /\ pk.key_id = ks.key_id
    BY <1>1, <1>2, <1>7 DEF Heard
  <1>8. CASE Stored(s, pk) = Ack(KEY) /\ pk.op = "ack1" /\ pk.key_id = ks.key_id
    BY <1>1, <1>2, <1>8 DEF Heard
  <1>9. CASE Stored(s, pk) = Reset /\ pk.key_id = ks.key_id
    BY <1>1, <1>3, <1>9 DEF Heard
  <1>10. CASE Stored(s, pk) = Both /\ pk.op = "key" /\ pk.key_id = ks.key_id /\ ks.got = {RESET}
    BY <1>1, <1>4, <1>10 DEF Heard
  <1> QED
    BY <1>5, <1>6, <1>7, <1>8, <1>9, <1>10

\* A packet of the other peer's session t that is stored in the session s.
LEMMA HeardBeside ==
    ASSUME NEW p \in Peer, NEW s, NEW t, NEW u, NEW pk, Heard(p, s, u, pk),
           Side(p, s), Follows(Other(p), s, t), Follows(p, t, s),
           s.primary.key_id \in Nat, t.primary.key_id \in Nat,
           s.primary.remote # None,
           pk.from = FirstSid(Other(p)), Behind(Other(p), t, pk)
    PROVE  /\ Side(p, u)
           /\ Follows(Other(p), u, t) /\ Follows(p, t, u)
           /\ \A x : Behind(p, s, x) => Behind(p, u, x)
  <1> DEFINE q == Other(p)
  <1>1. q \in Peer /\ Other(q) = p /\ RESET # KEY
    BY Others DEF RESET, KEY
  <1>2. Retired(u) <=> Retired(s)
    BY DEF Retired, Heard
  <1>3. pk.op = "key" => pk.to = FirstSid(p)
    BY <1>1 DEF Behind
  <1>4. Side(p, u)
    <2>1. DecryptKeyEnabled(p, u.primary) => KEY \in u.primary.got
      BY DEF Heard, Side, DecryptKeyEnabled
    <2>2. u.primary.state = S_ACTIVE => u.primary.acked = {RESET, KEY}
      BY DEF Heard, Side
    <2>3. KEY \in u.primary.got => RESET \in u.primary.got /\ u.primary.key = <<FirstSid(q), FirstSid(p)>>
      BY <1>3 DEF Heard, Side
    <2> QED
      BY <1>2, <2>1, <2>2, <2>3 DEF Heard, Side
  <1>5. pk.key_id \in Nat /\ pk.key_id <= t.primary.key_id
    BY DEF Behind
  <1>6. pk.key_id = s.primary.key_id => s.primary.key_id # t.primary.key_id + 1
    BY <1>5
  <1>7. Follows(q, u, t)
    <2>1. u.primary.key_id = t.primary.key_id => u.primary.acked \subseteq t.primary.got
      <3>1. ASSUME u.primary.key_id = t.primary.key_id, NEW k \in u.primary.acked
            PROVE  k \in t.primary.got
        <4>1. CASE k \in s.primary.acked
          BY <3>1, <4>1 DEF Heard, Follows
        <4>2. CASE k \notin s.primary.acked
          <5>1. pk.key_id = t.primary.key_id
            BY <3>1, <4>2 DEF Heard
          <5>2. k = RESET \/ k = KEY
            BY <3>1 DEF Heard
          <5> QED
            BY <3>1, <4>2, <5>1, <5>2 DEF Heard, Behind
        <4> QED
          BY <4>1, <4>2
      <3> QED
        BY <3>1
    <2>2. u.primary.key_id = t.primary.key_id /\ KEY \in u.primary.got => HasSentKey(q, t.primary)
      BY DEF Heard, Follows, Behind
    <2> QED
      BY <1>2, <1>6, <2>1, <2>2 DEF Heard, Follows
  <1>8. HasSentKey(p, s.primary) <=> HasSentKey(p, u.primary)
    BY DEF Heard, HasSentKey
  <1>9. Follows(p, t, u)
    BY <1>2, <1>8 DEF Heard, Follows
  <1>10. ASSUME NEW x, Behind(p, s, x) PROVE Behind(p, u, x)
    BY <1>8, <1>10 DEF Heard, Behind
  <1> QED
    BY <1>4, <1>7, <1>9, <1>10

\* A control packet arrives.
LEMMA ReceiveBeside ==
    ASSUME IInv, RestInv, TunnelInv, calm, NEW p \in Peer, Receive(p), calm'
    PROVE  TunnelInv'
  <1> DEFINE q == Other(p)
             mu == multi[p]
             s == mu.active
             t == multi[q].active
  <1>1. PICK pk \in net :
           /\ pk.from[1] = q
           /\ Route(mu, pk) # "none"
           /\ Then(p, tls_pre_decrypt(p, mu, pk))
           /\ calm' = (calm /\ ~(/\ SoftReset(p, mu[Route(mu, pk)], pk)
                                 /\ pk.key_id # mu[Route(mu, pk)].primary.key_id + 1))
    BY DEF Receive
  <1>2. q \in Peer /\ Other(q) = p /\ FirstSid(q) # None
    BY Others
  <1>3. pk.from = FirstSid(q) /\ Behind(q, t, pk)
    <2>1. PICK x \in Peer : pk.from = FirstSid(x) /\ Behind(x, multi[x].active, pk)
      BY DEF TunnelInv
    <2>2. FirstSid(x)[1] = x
      BY Others
    <2> QED
      BY <1>1, <2>1, <2>2
  <1>4. /\ s \in OpenSession(p, mu.drawn) /\ mu.drawn \in Nat
        /\ s.primary \in WideKey /\ s.primary.key_id \in Nat
        /\ s.primary.state \in S_INITIAL .. S_ACTIVE
        /\ Side(p, s) /\ Follows(q, s, t) /\ Follows(p, t, s)
    <2>1. mu.drawn \in Nat
      BY DEF IInv, Stable, Mid, Fields
    <2> QED
      BY <2>1, Sessions
  <1>5. t.primary.key_id \in Nat
    BY <1>2, Sessions
  <1>6. Stable(p, mu) /\ Rest(p, mu) /\ Solo(p, mu)
    BY DEF IInv, RestInv, TunnelInv
  <1>7. Route(mu, pk) = "active"
    <2>1. /\ s.primary.remote \in {None, FirstSid(q)} /\ mu.untrusted.primary.remote = None
          /\ mu.lame.primary.remote = None
      <3>1. NoSession.primary = NoKey /\ NoKey.remote = None
        BY DEF NoSession, tls_session_init, NoKey, key_state_init
      <3> QED
        BY <1>4, <1>6, <3>1, ResetSession DEF Side, Solo
    <2>2. Match(mu, pk.from) = IF s.primary.remote = FirstSid(q) THEN "active" ELSE "none"
      BY <1>2, <1>3, <2>1 DEF Match
    <2> QED
      BY <1>1, <1>2, <2>1, <2>2 DEF Route
  <1>8. Ready(p, tls_pre_decrypt(p, mu, pk))
    <2>1. pk.from \in AnySid /\ pk.to \in AnySid /\ pk.from # None
      BY DEF IInv, RestInv
    <2> QED
      BY <1>1, <1>6, <2>1, PreDecryptReady
  <1>9. CASE SoftReset(p, s, pk)
    <2> DEFINE u == key_state_soft_reset(s)
               v == Stored(u, pk)
    <2>1. tls_pre_decrypt(p, mu, pk) = [mu EXCEPT !["active"] = v]
      BY <1>7, <1>9 DEF tls_pre_decrypt
    <2>2. pk.op = "soft" /\ pk.key_id = s.primary.key_id + 1
      BY <1>1, <1>7, <1>9 DEF SoftReset
    <2>3. t.primary.key_id = s.primary.key_id + 1
      BY <1>3, <1>4, <1>5, <2>2 DEF Follows, Behind
    <2>4. /\ s.primary.state = S_ACTIVE /\ s.primary.settled
          /\ t.primary.acked = {} /\ t.primary.got = {} /\ Retired(t)
      BY <1>4, <2>3 DEF Follows
    <2>5. Again(s, u)
      BY <1>4, SoftResetAgain
    <2>6. /\ Side(p, u) /\ Retired(u)
          /\ \A x : Behind(p, s, x) => Behind(p, u, x)
      BY <1>4, <2>4, <2>5, AgainSide
    <2>7. Follows(q, u, t) /\ Follows(p, t, u)
      BY <1>4, <1>5, <2>3, <2>4, <2>5, <2>6 DEF Again, Follows
    <2>8. Heard(p, u, v, pk)
      <3>1. key_state_soft_reset(s) \in OpenSession(p, mu.drawn)
        <4>1. s.primary.key_id <= MaxKey
          BY <1>6 DEF Stable
        <4> QED
          BY <1>4, <4>1, SoftResetFields
      <3> QED
        BY <3>1, StoredHeard
    <2> HIDE DEF u
    <2>9. u.primary.key_id \in Nat /\ u.primary.remote # None /\ u.sid = s.sid
      BY <1>4, <2>4, <2>5 DEF Again, Side
    <2> HIDE DEF v
    <2>10. /\ Side(p, v)
           /\ Follows(q, v, t) /\ Follows(p, t, v)
           /\ \A x : Behind(p, u, x) => Behind(p, v, x)
      BY <1>3, <1>5, <2>6, <2>7, <2>8, <2>9, HeardBeside
    <2>11. v.sid = s.sid
      BY <2>8, <2>9 DEF Heard
    <2>12. \A x : Behind(p, s, x) => Behind(p, v, x)
      BY <2>6, <2>10
    <2>13. /\ Ready(p, [mu EXCEPT !["active"] = v])
           /\ Then(p, [mu EXCEPT !["active"] = v])
      BY <1>1, <1>8, <2>1
    <2> QED
      BY <2>10, <2>11, <2>12, <2>13, SessionReplaced
  <1>10. CASE ~SoftReset(p, s, pk)
    <2> DEFINE ks == [s.primary EXCEPT !.remote = pk.from]
               u == [s EXCEPT !.primary = ks]
               v == Stored(u, pk)
    <2>1. tls_pre_decrypt(p, mu, pk) = [mu EXCEPT !["active"] = v]
      BY <1>7, <1>10 DEF tls_pre_decrypt
    <2>2. /\ ks.state = s.primary.state /\ ks.settled = s.primary.settled
          /\ ks.key_id = s.primary.key_id
          /\ ks.acked = s.primary.acked /\ ks.got = s.primary.got
          /\ ks.remote = FirstSid(q) /\ ks.tls = s.primary.tls
          /\ ks.key = s.primary.key
      BY <1>3, <1>4 DEF WideKey
    <2>3. u.primary = ks /\ u.sid = s.sid /\ u.lame = s.lame /\ u \in OpenSession(p, mu.drawn)
      <3>1. ks \in WideKey
        <4>1. pk.from \in AnySid
          BY DEF IInv
        <4> QED
          BY <1>4, <4>1 DEF WideKey
      <3> QED
        BY <1>4, <3>1 DEF OpenSession
    <2>4. Heard(p, u, v, pk)
      BY <2>3, StoredHeard
    <2> HIDE DEF u, ks, v
    <2>5. Retired(s) <=> Retired(u)
      <3>1. s.primary.remote # None => s.primary.remote = FirstSid(q)
        BY <1>4 DEF Side
      <3>2. ASSUME s.primary.remote = None PROVE s.lame = NoKey /\ ~Retired(s) /\ ~Retired(u)
        <4>1. s.primary.key_id = 0
          BY <1>4, <3>2 DEF Side
        <4>2. s.lame.key_id \in Nat
          BY <1>4, TlsAssumption DEF OpenSession, KeyState
        <4>3. ~Retired(s) /\ ~Retired(u)
          BY <2>2, <2>3, <4>1, <4>2 DEF Retired
        <4> QED
          BY <1>4, <4>3 DEF Side
      <3> QED
        BY <2>2, <2>3, <3>1, <3>2 DEF Retired
    <2>6. Side(p, u)
      <3>1. s.primary.state >= S_START => s.primary.remote = FirstSid(q)
        BY <1>4 DEF Side
      <3> QED
        BY <1>2, <1>4, <2>2, <2>3, <2>5, <3>1 DEF Side, DecryptKeyEnabled
    <2>7. Follows(q, u, t)
      BY <1>4, <2>2, <2>3, <2>5 DEF Follows
    <2>8. HasSentKey(p, s.primary) <=> HasSentKey(p, u.primary)
      BY <2>2, <2>3 DEF HasSentKey
    <2>9. Follows(p, t, u)
      BY <1>4, <2>2, <2>3, <2>5, <2>8 DEF Follows
    <2>10. \A x : Behind(p, s, x) => Behind(p, u, x)
      BY <2>2, <2>3, <2>8 DEF Behind
    <2>11. u.primary.key_id \in Nat /\ u.primary.remote # None
      BY <1>2, <1>4, <2>2, <2>3
    <2>12. /\ Side(p, v)
           /\ Follows(q, v, t) /\ Follows(p, t, v)
           /\ \A x : Behind(p, u, x) => Behind(p, v, x)
      BY <1>3, <1>5, <2>4, <2>6, <2>7, <2>9, <2>11, HeardBeside
    <2>13. v.sid = s.sid
      BY <2>3, <2>4 DEF Heard
    <2>14. \A x : Behind(p, s, x) => Behind(p, v, x)
      BY <2>10, <2>12
    <2>15. /\ Ready(p, [mu EXCEPT !["active"] = v])
           /\ Then(p, [mu EXCEPT !["active"] = v])
      BY <1>1, <1>8, <2>1
    <2> QED
      BY <2>12, <2>13, <2>14, <2>15, SessionReplaced
  <1> QED
    BY <1>9, <1>10

\* Every step of a calm history keeps the tunnel up.
LEMMA StepTunnel ==
    ASSUME IInv, RestInv, TunnelInv, [Next]_vars
    PROVE  TunnelInv'
  <1> SUFFICES ASSUME calm' PROVE TunnelInv'
    BY DEF TunnelInv
  <1>1. ASSUME NEW p \in Peer, Receive(p) PROVE TunnelInv'
    <2>1. calm
      BY <1>1 DEF Receive
    <2> QED
      BY <1>1, <2>1, ReceiveBeside
  <1>2. ASSUME NEW p \in Peer, Renegotiate(p) PROVE TunnelInv'
    <2>1. calm
      BY <1>2 DEF Renegotiate
    <2> QED
      BY <1>2, <2>1, RenegotiateBeside
  <1>3. ASSUME NEW p \in Peer, NegotiationFails(p) PROVE TunnelInv'
    BY <1>3 DEF NegotiationFails
  <1>4. ASSUME NEW p \in Peer, Settle(p) PROVE TunnelInv'
    <2>1. calm
      BY <1>4 DEF Settle
    <2> QED
      BY <1>4, <2>1, SettleBeside
  <1>5. ASSUME NEW p \in Peer, Expire(p) PROVE TunnelInv'
    <2>1. calm
      BY <1>5 DEF Expire
    <2> QED
      BY <1>5, <2>1, ExpireBeside
  <1>6. CASE UNCHANGED vars
    BY <1>6 DEF vars, TunnelInv
  <1> QED
    BY <1>1, <1>2, <1>3, <1>4, <1>5, <1>6 DEF Next

\* The first session of a peer, before it has done or heard anything.
LEMMA FirstSession ==
    ASSUME NEW p \in Peer
    PROVE  Solo(p, tls_multi_init(p))
  <1> DEFINE mu == tls_multi_init(p)
             s == tls_session_init
  <1>1. /\ s.sid = None /\ s.primary.acked = {} /\ s.primary.got = {}
        /\ ~s.primary.settled /\ ~DecryptKeyEnabled(p, s.primary) /\ s.primary.key_id = 0
    BY DEF tls_session_init, key_state_init, DecryptKeyEnabled
  <1>2. Side(p, s)
    BY <1>1, ResetSession DEF Side
  <1>3. /\ mu.active = s /\ mu.untrusted = s /\ mu.lame = NoSession /\ mu.drawn = 0
    BY DEF tls_multi_init
  <1> QED
    BY <1>1, <1>2, <1>3 DEF Solo

LEMMA InitTunnel == Init => TunnelInv
  <1> SUFFICES ASSUME Init PROVE TunnelInv
    OBVIOUS
  <1> DEFINE mu(p) == tls_multi_init(p)
             Quieted(p) == Quiet(p, tls_multi_init(p))
  <1>1. \A p \in Peer : multi[p] = Quieted(p)
    BY DEF Init
  <1>2. ASSUME NEW p \in Peer
        PROVE  Follows(p, tls_session_init, tls_session_init)
    <2>1. /\ tls_session_init.primary.key_id = 0
          /\ tls_session_init.primary.acked = {} /\ tls_session_init.primary.got = {}
      BY DEF tls_session_init, key_state_init
    <2> QED
      BY <2>1 DEF Follows
  <1>3. ASSUME NEW p \in Peer
        PROVE  Beside(p, Quieted(p), tls_session_init)
    <2>1. Beside(p, mu(p), tls_session_init)
      BY <1>2, FirstReady, FirstSession, Others DEF Beside
    <2> QED
      BY <2>1, QuietBeside
  <1>4. ASSUME NEW p \in Peer
        PROVE  Beside(p, Quieted(p), Quieted(Other(p)).active)
    <2> DEFINE q == Other(p)
    <2>1. q \in Peer /\ Other(q) = p
      BY Others
    <2>2. /\ Follows(p, Quieted(q).active, tls_session_init)
          /\ Follows(q, tls_session_init, Quieted(q).active)
      BY <1>3, <2>1 DEF Beside
    <2>3. Beside(p, mu(p), Quieted(q).active)
      BY <2>1, <2>2, FirstReady, FirstSession DEF Beside
    <2> HIDE DEF q
    <2>4. Beside(p, Quieted(p), Quieted(q).active)
      BY <2>3, QuietBeside
    <2> QED
      BY <2>4 DEF q
  <1> HIDE DEF Quieted
  <1>5. \A p \in Peer :
          /\ Solo(p, multi[p])
          /\ Follows(Other(p), multi[p].active, multi[Other(p)].active)
    BY <1>1, <1>4, Others DEF Beside
  <1>6. Client \in Peer /\ net = Packets(Client, multi[Client].active)
    BY DEF Peer, Init
  <1>7. multi[Client].active.primary \in WideKey /\ Side(Client, multi[Client].active)
    BY <1>1, <1>3, <1>6 DEF Beside, Ready, Mid, Fields, OpenSession, Solo
  <1>8. \A pk \in net : pk.from = FirstSid(Client) /\ Behind(Client, multi[Client].active, pk)
    BY <1>6, <1>7, PacketsBehind
  <1> QED
    BY <1>5, <1>6, <1>8 DEF TunnelInv

LEMMA TunnelInvariance == Spec => []TunnelInv
  <1>1. IInv /\ RestInv /\ TunnelInv /\ [Next]_vars => TunnelInv'
    BY StepTunnel
  <1> QED
    BY <1>1, InitTunnel, Invariance, RestInvariance, PTL DEF Spec

\* The key that encrypts, of two: a settled one, or else one that works, and
\* the newer one of either kind.
LEMMA EncryptOfTwo ==
    ASSUME NEW p, NEW mu, ~Works(key_scan(mu)[3])
    PROVE  LET keys == key_scan(mu)
               k == tls_pre_encrypt(p, mu)
               Over(i) == Works(keys[i]) /\ keys[i].ks.settled
           IN  /\ Over(1) => k = keys[1]
               /\ ~Over(1) /\ Over(2) => k = keys[2]
               /\ ~Over(1) /\ ~Over(2) /\ Works(keys[1]) => k = keys[1]
               /\ ~Works(keys[1]) /\ ~Works(keys[2]) => k = NoChoice
  <1> DEFINE keys == key_scan(mu)
             S(k) == k.ks.state >= S_ACTIVE /\ k.ks.settled
             W(k) == k.ks.state >= S_ACTIVE
  <1>1. ~Works(NoChoice)
    BY ResetSession DEF Works, NoChoice
  <1>2. DOMAIN keys = 1 .. 3 /\ ~W(keys[3])
    BY DEF key_scan, Works
  <1> HIDE DEF keys
  <1>3. /\ S(keys[1]) => FirstOf(keys, S) = keys[1]
        /\ ~S(keys[1]) /\ S(keys[2]) => FirstOf(keys, S) = keys[2]
        /\ ~S(keys[1]) /\ ~S(keys[2]) => FirstOf(keys, S) = NoChoice
    <2> DEFINE P(i) == S(keys[i]) /\ \A j \in 1 .. i - 1 : ~S(keys[j])
               first == CHOOSE i \in 1 .. 3 : P(i)
    <2>1. (\E i \in 1 .. 3 : S(keys[i])) => FirstOf(keys, S) = keys[first]
      BY <1>2 DEF FirstOf
    <2>2. ASSUME NEW i \in 1 .. 3, P(i) PROVE first = i
      BY <2>2
    <2>3. S(keys[1]) => P(1)
      OBVIOUS
    <2>4. ~S(keys[1]) /\ S(keys[2]) => P(2)
      OBVIOUS
    <2>5. ~S(keys[1]) /\ ~S(keys[2]) => FirstOf(keys, S) = NoChoice
      BY <1>2 DEF FirstOf
    <2>6. S(keys[1]) => first = 1
      BY <2>2, <2>3
    <2>7. ~S(keys[1]) /\ S(keys[2]) => first = 2
      BY <2>2, <2>4
    <2> HIDE DEF first
    <2> QED
      BY <2>1, <2>5, <2>6, <2>7
  <1>4. /\ W(keys[1]) => FirstOf(keys, W) = keys[1]
        /\ ~W(keys[1]) /\ ~W(keys[2]) => FirstOf(keys, W) = NoChoice
    <2> DEFINE P(i) == W(keys[i]) /\ \A j \in 1 .. i - 1 : ~W(keys[j])
               first == CHOOSE i \in 1 .. 3 : P(i)
    <2>1. (\E i \in 1 .. 3 : W(keys[i])) => FirstOf(keys, W) = keys[first]
      BY <1>2 DEF FirstOf
    <2>2. ASSUME NEW i \in 1 .. 3, P(i) PROVE first = i
      BY <2>2
    <2>3. W(keys[1]) => P(1)
      OBVIOUS
    <2>4. ~W(keys[1]) /\ ~W(keys[2]) => FirstOf(keys, W) = NoChoice
      BY <1>2 DEF FirstOf
    <2>5. W(keys[1]) => first = 1
      BY <2>2, <2>3
    <2> HIDE DEF first
    <2> QED
      BY <2>1, <2>4, <2>5
  <1>5. tls_pre_encrypt(p, mu) = IF FirstOf(keys, S) # NoChoice THEN FirstOf(keys, S)
                                 ELSE FirstOf(keys, W)
    BY DEF tls_pre_encrypt, keys
  <1> QED
    BY <1>1, <1>3, <1>4, <1>5 DEF keys, Works

\* The key that decrypts, of two.
LEMMA DecryptOfTwo ==
    ASSUME NEW p, NEW mu, NEW id
    PROVE  LET keys == key_scan(mu)
               Fits(i) == DecryptKeyEnabled(p, keys[i].ks) /\ keys[i].ks.key_id = id
           IN  /\ Fits(1) => DecryptKey(p, mu, id) = keys[1]
               /\ ~Fits(1) /\ Fits(2) => DecryptKey(p, mu, id) = keys[2]
  <1> DEFINE keys == key_scan(mu)
             F(k) == DecryptKeyEnabled(p, k.ks) /\ k.ks.key_id = id
             P(i) == F(keys[i]) /\ \A j \in 1 .. i - 1 : ~F(keys[j])
             first == CHOOSE i \in 1 .. 3 : P(i)
  <1>1. DOMAIN keys = 1 .. 3
    BY DEF key_scan
  <1> HIDE DEF keys
  <1>2. (\E i \in 1 .. 3 : F(keys[i])) => DecryptKey(p, mu, id) = keys[first]
    BY <1>1 DEF FirstOf, DecryptKey, keys
  <1>3. ASSUME NEW i \in 1 .. 3, P(i) PROVE first = i
    BY <1>3
  <1>4. F(keys[1]) => P(1)
    OBVIOUS
  <1>5. ~F(keys[1]) /\ F(keys[2]) => P(2)
    OBVIOUS
  <1>6. /\ F(keys[1]) => DecryptKey(p, mu, id) = keys[1]
        /\ ~F(keys[1]) /\ F(keys[2]) => DecryptKey(p, mu, id) = keys[2]
    <2>1. F(keys[1]) => first = 1
      BY <1>3, <1>4
    <2>2. ~F(keys[1]) /\ F(keys[2]) => first = 2
      BY <1>3, <1>5
    <2> HIDE DEF first
    <2> QED
      BY <1>2, <2>1, <2>2
  <1> QED
    BY <1>6 DEF keys

\* A key of one peer is read with its mate, when the peers are in step or one
\* is a key ahead.
LEMMA TunnelHolds ==
    ASSUME IInv, RestInv, TunnelInv, calm, NEW p \in Peer,
           tls_pre_encrypt(p, multi[p]) # NoChoice
    PROVE  LET k == tls_pre_encrypt(p, multi[p])
               q == Other(p)
           IN  Mates(k, DecryptKey(q, multi[q], k.ks.key_id))
  <1> DEFINE q == Other(p)
             s == multi[p].active
             t == multi[q].active
             k == tls_pre_encrypt(p, multi[p])
             mine == key_scan(multi[p])
             theirs == key_scan(multi[q])
             Read(id) == DecryptKey(q, multi[q], id)
             Fits(i, id) == DecryptKeyEnabled(q, theirs[i].ks) /\ theirs[i].ks.key_id = id
  <1>1. q \in Peer /\ Other(q) = p /\ FirstSid(p) # None /\ FirstSid(q) # None
    BY Others
  <1>2. /\ s.primary.state \in S_INITIAL .. S_ACTIVE /\ s.primary.key_id \in Nat
        /\ Side(p, s) /\ Follows(q, s, t) /\ Follows(p, t, s)
    BY Sessions
  <1>3. /\ t.primary.state \in S_INITIAL .. S_ACTIVE /\ t.primary.key_id \in Nat
        /\ Side(q, t) /\ (t.primary.remote # None => t.primary.remote = FirstSid(p))
    BY <1>1, Sessions
  <1>4. /\ mine[1].ks = s.primary /\ mine[1].sid = s.sid
        /\ mine[2].ks = s.lame /\ mine[2].sid = s.sid
        /\ theirs[1].ks = t.primary /\ theirs[1].sid = t.sid
        /\ theirs[2].ks = t.lame /\ theirs[2].sid = t.sid
    BY DEF key_scan
  <1>5. ~Works(mine[3])
    <2>1. multi[p].lame = NoSession /\ NoSession.lame = NoKey
      BY DEF TunnelInv, Solo, NoSession, tls_session_init
    <2> QED
      BY <2>1, ResetSession DEF Works, key_scan
  <1>6. \/ k = mine[1] /\ Works(mine[1])
        \/ k = mine[2] /\ Retired(s) /\ ~s.primary.settled
    <2>1. Works(mine[2]) => Retired(s)
      BY <1>2, <1>4, ResetSession DEF Works, Side
    <2>2. Retired(s) => Works(mine[2]) /\ mine[2].ks.settled
      BY <1>4 DEF Works, Retired
    <2>3. s.primary.settled => Works(mine[1])
      BY <1>2, <1>4 DEF Works, Side
    <2> QED
      BY <1>4, <1>5, <2>1, <2>2, <2>3, EncryptOfTwo
  <1>7. ASSUME NEW id PROVE /\ Fits(1, id) => Read(id) = theirs[1]
                            /\ ~Fits(1, id) /\ Fits(2, id) => Read(id) = theirs[2]
    BY DecryptOfTwo
  <1> HIDE DEF mine, theirs, Read, k
  <1>8. CASE k = mine[1] /\ Works(mine[1])
    <2>1. s.primary.state = S_ACTIVE /\ s.primary.remote = FirstSid(q) /\ s.sid = FirstSid(p)
      BY <1>1, <1>2, <1>4, <1>8 DEF Works, Side
    <2>2. CASE s.primary.key_id = t.primary.key_id
      <3>1. Mates(mine[1], theirs[1]) /\ DecryptKeyEnabled(q, t.primary)
        BY <2>1, <2>2, MateOf DEF mine, theirs
      <3> QED
        BY <1>4, <1>7, <1>8, <2>2, <3>1 DEF k, Read
    <2>3. CASE t.primary.key_id = s.primary.key_id + 1
      <3>1. /\ Retired(t) /\ t.lame.key_id + 1 = t.primary.key_id
            /\ t.lame.state = S_ACTIVE /\ t.lame.remote = t.primary.remote
        BY <1>2, <2>3 DEF Follows, Retired
      <3>2. t.sid = FirstSid(q) /\ t.primary.remote = FirstSid(p)
        BY <1>2, <1>3, <2>3 DEF Side
      <3>3. t.lame.key_id = s.primary.key_id
        <4>1. t.lame.key_id \in Nat
          BY <1>1, Sessions, TlsAssumption DEF OpenSession, KeyState
        <4> QED
          BY <1>2, <2>3, <3>1, <4>1
      <3>4. DecryptKeyEnabled(q, t.lame)
        BY <3>1 DEF DecryptKeyEnabled
      <3>5. Read(k.ks.key_id) = theirs[2]
        BY <1>2, <1>4, <1>7, <1>8, <2>3, <3>3, <3>4
      <3> QED
        BY <1>4, <1>8, <2>1, <3>1, <3>2, <3>3, <3>5 DEF Mates, k, Read
    <2>4. s.primary.key_id # t.primary.key_id + 1
      BY <1>2, <2>1 DEF Follows
    <2>5. s.primary.key_id <= t.primary.key_id + 1 /\ t.primary.key_id <= s.primary.key_id + 1
      BY <1>2 DEF Follows
    <2> QED
      BY <1>2, <1>3, <2>2, <2>3, <2>4, <2>5
  <1>9. CASE k = mine[2] /\ Retired(s) /\ ~s.primary.settled
    <2>1. /\ s.lame.key_id + 1 = s.primary.key_id /\ s.lame.remote = s.primary.remote
          /\ s.lame.key_id \in Nat
      <3>1. s.lame.key_id \in Nat
        BY Sessions, TlsAssumption DEF OpenSession, KeyState
      <3> QED
        BY <1>9, <3>1 DEF Retired
    <2>2. s.sid = FirstSid(p) /\ s.primary.remote = FirstSid(q)
      BY <1>2, <2>1 DEF Side
    <2>3. CASE s.primary.key_id = t.primary.key_id
      <3>1. /\ Retired(t) /\ t.lame.key_id + 1 = t.primary.key_id
            /\ t.lame.state = S_ACTIVE /\ t.lame.remote = t.primary.remote
        BY <1>2, <1>9, <2>1, <2>3 DEF Follows, Retired
      <3>2. t.sid = FirstSid(q) /\ t.primary.remote = FirstSid(p)
        BY <1>3, <2>1, <2>3 DEF Side
      <3>3. t.lame.key_id = s.lame.key_id
        <4>1. t.lame.key_id \in Nat
          BY <1>1, Sessions, TlsAssumption DEF OpenSession, KeyState
        <4> QED
          BY <2>1, <2>3, <3>1, <4>1
      <3>4. DecryptKeyEnabled(q, t.lame)
        BY <3>1 DEF DecryptKeyEnabled
      <3>5. Read(k.ks.key_id) = theirs[2]
        BY <1>4, <1>7, <1>9, <2>1, <2>3, <3>3, <3>4
      <3> QED
        BY <1>4, <1>9, <2>1, <2>2, <3>1, <3>2, <3>3, <3>5 DEF Mates, k, Read
    <2>4. CASE s.primary.key_id = t.primary.key_id + 1
      <3>1. t.primary.state = S_ACTIVE /\ t.sid = FirstSid(q) /\ t.primary.remote = FirstSid(p)
        BY <1>2, <1>3, <2>4 DEF Follows, Side
      <3>2. DecryptKeyEnabled(q, t.primary) /\ t.primary.key_id = s.lame.key_id
        BY <1>3, <2>1, <2>4, <3>1 DEF DecryptKeyEnabled
      <3>3. Read(k.ks.key_id) = theirs[1]
        BY <1>4, <1>7, <1>9, <3>2
      <3> QED
        BY <1>4, <1>9, <2>1, <2>2, <3>1, <3>2, <3>3 DEF Mates, k, Read
    <2>5. t.primary.key_id # s.primary.key_id + 1
      BY <1>2, <1>9 DEF Follows
    <2>6. s.primary.key_id <= t.primary.key_id + 1 /\ t.primary.key_id <= s.primary.key_id + 1
      BY <1>2 DEF Follows
    <2> QED
      BY <1>2, <1>3, <2>3, <2>4, <2>5, <2>6
  <1> QED
    BY <1>6, <1>8, <1>9

-----------------------------------------------------------------------------
(* Theorems.                                                               *)

\* Sessions and keys keep their types for any number of sessions and keys:
\* tls_multi_process leaves no session in the state of error, and an untrusted
\* one does not renegotiate.
THEOREM TypeCorrect == Spec => []TypeOK
  <1>1. IInv => TypeOK
    <2> SUFFICES ASSUME IInv PROVE TypeOK
      OBVIOUS
    <2> DEFINE Multi == [active : Session, untrusted : Session, lame : Session,
                         drawn : 0 .. MaxSid, known : BOOLEAN]
    <2>1. ASSUME NEW p \in Peer
          PROVE  multi[p] \in Multi
      <3> DEFINE mu == multi[p]
      <3>1. Stable(p, mu)
        BY <2>1 DEF IInv
      <3>2. mu.drawn \in 0 .. MaxSid
        BY <3>1, TlsAssumption DEF Stable, Mid, Fields
      <3>3. OwnSid(p, mu.drawn) \subseteq Sid \cup {None}
        BY <2>1, <3>2, TlsAssumption DEF OwnSid, Sid
      <3>4. PastSession(p, mu.drawn) \subseteq Session
        BY <3>3 DEF PastSession, Session
      <3>5. ASSUME NEW s \in OpenSession(p, mu.drawn), s.primary.key_id <= MaxKey
            PROVE  s \in Session
        BY <3>5, <3>3, TlsAssumption DEF OpenSession, Session, WideKey, KeyState, AnySid
      <3>6. mu.active \in Session /\ mu.untrusted \in Session
        <4>1. MaxKey \in Nat
          BY TlsAssumption
        <4>2. /\ mu.active \in OpenSession(p, mu.drawn)
              /\ mu.untrusted \in OpenSession(p, mu.drawn)
              /\ mu.active.primary.key_id <= MaxKey
              /\ mu.untrusted.primary.key_id = 0
          BY <3>1 DEF Stable, Mid, Fields
        <4> QED
          BY <4>1, <4>2, <3>5
      <3> QED
        BY <3>1, <3>2, <3>4, <3>6 DEF Stable, Mid, Fields
    <2>2. \A p \in Peer :
            /\ multi[p].active.primary.state >= S_INITIAL
            /\ multi[p].untrusted.primary.state >= S_INITIAL
      BY DEF IInv, Stable, Mid
    <2>3. multi \in [Peer -> Multi]
      <3> HIDE DEF Multi
      <3> QED
        BY <2>1 DEF IInv
    <2> QED
      BY <2>2, <2>3 DEF TypeOK, IInv
  <1> QED
    BY <1>1, Invariance, PTL

\* tls_pre_decrypt finds one session for a packet, whatever sessions the peers
\* open, lose, promote and retire, in whatever order packets arrive.
THEOREM OneSessionForPacket == Spec => []OneSessionPerId
  <1>1. IInv => OneSessionPerId
    BY DEF IInv, Stable, Mid, Distinct, OneSessionPerId
  <1> QED
    BY <1>1, Invariance, PTL

\* When a peer waits for the next packet or timer nothing is left to do in any
\* of its sessions: four calls of tls_multi_process are enough after whatever
\* packet, timeout or renegotiation, for every state of the sessions.
THEOREM NothingLeftToDo ==
    Spec => [](\A p \in Peer : tls_multi_process(p, multi[p]) = multi[p])
  <1>1. RestInv => \A p \in Peer : tls_multi_process(p, multi[p]) = multi[p]
    BY RestIsFixed DEF RestInv
  <1> QED
    BY <1>1, RestInvariance, PTL

\* A negotiation that fails, in the active session or beside it, never leaves
\* a peer that encrypts without a key; and it takes away the key in use only
\* for the one that the failed session is kept for.
THEOREM KeySurvivesFailure == Spec => FailureKeepsKey
  <1> DEFINE Kept(p) ==
        LET keys == key_scan(multi[p])
            k == tls_pre_encrypt(p, multi[p])
            l == tls_pre_encrypt(p, multi[p])'
        IN  NegotiationFails(p) /\ k # NoChoice =>
                \/ l = k
                \/ k = keys[3] /\ l = keys[2] /\ l.ks.state >= S_ACTIVE
  <1>1. ASSUME IInv, RestInv PROVE \A p \in Peer : Kept(p)
    BY <1>1, FailureChoice
  <1>2. IInv /\ RestInv => [\A p \in Peer : Kept(p)]_vars
    BY <1>1
  <1> QED
    BY <1>2, Invariance, RestInvariance, PTL DEF Spec, FailureKeepsKey

\* As long as no negotiation failed, and no late copy of a packet started one,
\* what a peer sends is read with the key it was encrypted with: whichever peer
\* starts whichever renegotiation, with whatever packets lost, copied, delayed
\* or overtaken, and whenever the timers of the keys run out.
THEOREM TunnelStaysUp == Spec => []TunnelKeptUp
  <1>1. IInv /\ RestInv /\ TunnelInv => TunnelKeptUp
    BY TunnelHolds DEF TunnelKeptUp
  <1> QED
    BY <1>1, Invariance, RestInvariance, TunnelInvariance, PTL
=============================================================================
