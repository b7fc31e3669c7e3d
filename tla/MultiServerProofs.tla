-------------------------- MODULE MultiServerProofs --------------------------
(***************************************************************************)
(* Proofs about MultiServer, for any numbers of instances, addresses,      *)
(* networks and clients, and for every size of the pool and the queue: the *)
(* end of an event, routing, the steps, and the properties.                *)
(***************************************************************************)
EXTENDS MultiServerLemmas

-----------------------------------------------------------------------------
(* The end of an event.                                                    *)

\* The name that the TLS layer leaves.
LEMMA SelectedGood ==
    ASSUME NEW s \in Context, NEW ro, Good(s, ro), NEW i \in Live(s),
           NEW cn \in Verified(s.inst[i])
    PROVE  LET t == [s EXCEPT !.inst[i].common_name = cn, !.schedule = @ \cup {i}]
           IN  t \in Context /\ Good(t, ro) /\ i \in Live(t)
  <1> DEFINE x == s.inst[i]
             y == [x EXCEPT !.common_name = cn]
             v == [s EXCEPT !.inst[i] = y]
             t == [s EXCEPT !.inst[i].common_name = cn, !.schedule = @ \cup {i}]
  <1>1. i \in Inst /\ x \in Instance /\ x # NULL /\ ~x.halt
    BY DEF Live, Context
  <1>2. s.schedule = Live(s) /\ Clients(s) /\ s.pending \in Live(s) \cup {NULL}
        /\ s.mbuf \in QueueOf(Live(s))
    BY DEF Good, Links
  <1>3. cn \in CN \cup {NULL}
    BY <1>1 DEF Verified, Instance
  <1>4. /\ y \in Instance /\ y.common_name = cn
        /\ y.real = x.real /\ y.halt = x.halt /\ y.refcount = x.refcount
        /\ y.route_count = x.route_count /\ y.vaddr_handle = x.vaddr_handle
        /\ y.addr = x.addr /\ y.locked_cn = x.locked_cn
        /\ y.did_iroutes = x.did_iroutes
        /\ y.connection_established_flag = x.connection_established_flag
    BY <1>1, <1>3 DEF Instance
  <1>5. t = v
    <2>1. s.schedule \cup {i} = s.schedule
      BY <1>2
    <2>2. t = [s EXCEPT !.inst = [s.inst EXCEPT ![i] = y], !.schedule = s.schedule \cup {i}]
      BY <1>1 DEF Context
    <2>3. v = [s EXCEPT !.inst = [s.inst EXCEPT ![i] = y]]
      BY <1>1 DEF Context
    <2> HIDE DEF y, t, v
    <2> QED
      BY <2>1, <2>2, <2>3 DEF Context
  <1> HIDE DEF y, v, t
  <1>6. /\ v \in Context /\ v.inst = [s.inst EXCEPT ![i] = y]
        /\ v.hash = s.hash /\ v.iter = s.iter /\ v.schedule = s.schedule
        /\ v.mbuf = s.mbuf /\ v.pool = s.pool
        /\ v.pending = s.pending /\ v.out = s.out
        /\ v.vhash = s.vhash /\ v.net_len_refcount = s.net_len_refcount
    BY <1>1, <1>4, ChangedInst DEF v
  <1>7. v.inst[i] = y /\ y # NULL /\ \A j \in Inst \ {i} : v.inst[j] = s.inst[j]
    BY <1>1, <1>4, <1>6, NullInst DEF Context
  <1>8. SameCore(s, v)
    BY <1>1, <1>4, <1>6, <1>7 DEF SameCore
  <1>9. \A j \in Live(s) : v.inst[j].connection_established_flag =>
                v.inst[j].common_name \in {v.inst[j].locked_cn, NULL}
    <2> SUFFICES ASSUME NEW j \in Live(s), v.inst[j].connection_established_flag
                 PROVE  v.inst[j].common_name \in {v.inst[j].locked_cn, NULL}
      OBVIOUS
    <2>1. CASE j = i
      <3>1. x.connection_established_flag
        BY <1>4, <1>7, <2>1
      <3>2. x.locked_cn \in CN /\ x.common_name \in {x.locked_cn, NULL}
        BY <1>2, <3>1 DEF Clients
      <3>3. cn \in {x.locked_cn, NULL}
        BY <3>2, MultiAssumption DEF Verified
      <3> QED
        BY <1>4, <1>7, <2>1, <3>3
    <2>2. CASE j # i
      <3>1. v.inst[j] = s.inst[j]
        BY <1>7, <2>2 DEF Live
      <3> QED
        BY <1>2, <3>1 DEF Clients
    <2> QED
      BY <2>1, <2>2
  <1>10. Good(v, ro) /\ Live(v) = Live(s)
    BY <1>2, <1>6, <1>8, <1>9, SameCoreGood
  <1> QED
    BY <1>5, <1>6, <1>10 DEF t

\* Another instance with output.
LEMMA SetPendingGood ==
    ASSUME NEW s \in Context, NEW ro, Good(s, ro), NEW i \in Live(s),
           NEW o \in SUBSET {"link", "tun"}
    PROVE  LET t == SetPending(s, i, o) IN t \in Context /\ Good(t, ro) /\ Output(t)
  <1> DEFINE p == IF o # {} THEN i ELSE NULL
             q == s.mbuf
             u == Requeue(s, q, p, o)
  <1>1. SetPending(s, i, o) = u
    BY DEF SetPending, Requeue, Context
  <1>2. q \in QueueOf(Live(s)) /\ p \in Live(s) \cup {NULL}
    BY DEF Good, Links
  <1>3. p # NULL => o # {}
    OBVIOUS
  <1> HIDE DEF p, q
  <1>4. u \in Context /\ Good(u, ro) /\ u.pending = p /\ u.out = o
    BY <1>2, Requeued
  <1> HIDE DEF u
  <1> QED
    BY <1>1, <1>3, <1>4 DEF Output

\* multi_process_post keeps the invariant, in each of the ways it can end.
LEMMA PostGood ==
    ASSUME NEW s \in Context, NEW ro, Good(s, ro), NEW i \in Live(s),
           Output(s) \/ s.pending = i,
           NEW tun \in SUBSET (SUBSET {"tun"}), NEW w \in multi_process_post(s, i, tun)
    PROVE  w \in Context /\ Good(w, ro) /\ Output(w)
  <1> DEFINE selected == Selected(s, i)
             established == Established(selected, i)
             tuns == {SetPending(u, i, o \cup link) :
                        u \in selected \cup established, o \in tun,
                        link \in SUBSET {"link"}}
  <1>1. multi_process_post(s, i, tun) = {multi_close_instance(s, i)} \cup tuns
    BY DEF multi_process_post
  <1>2. ASSUME NEW u \in selected PROVE u \in Context /\ Good(u, ro) /\ i \in Live(u)
    <2>1. PICK cn \in Verified(s.inst[i]) :
                u = [s EXCEPT !.inst[i].common_name = cn, !.schedule = @ \cup {i}]
      BY <1>2 DEF Selected
    <2> QED
      BY <2>1, SelectedGood
  <1> HIDE DEF selected
  <1>3. ASSUME NEW u \in established PROVE u \in Context /\ Good(u, ro) /\ i \in Live(u)
    <2>0. PICK v \in selected :
            /\ ~v.inst[i].connection_established_flag
            /\ v.inst[i].common_name # NULL
            /\ \E how \in Sourced(v.inst[i].common_name) :
                    u = multi_connection_established(v, i, how)
      BY <1>3 DEF Established
    <2>1. PICK how \in Sourced(v.inst[i].common_name) :
                u = multi_connection_established(v, i, how)
      BY <2>0
    <2>2. /\ v \in Context /\ Good(v, ro) /\ i \in Live(v)
          /\ ~v.inst[i].connection_established_flag /\ v.inst[i].common_name # NULL
      BY <1>2, <2>0
    <2>3. how \in {"pool", "fail", "file", "script"}
      BY DEF Sourced
    <2>4. /\ multi_connection_established(v, i, how) \in Context
          /\ Good(multi_connection_established(v, i, how), ro)
          /\ i \in Live(multi_connection_established(v, i, how))
      BY <2>2, <2>3, EstablishedGood
    <2> QED
      BY <2>1, <2>4
  <1> HIDE DEF established
  <1>4. CASE w = multi_close_instance(s, i)
    <2> DEFINE c == multi_close_instance(s, i)
    <2>1. /\ c \in Context /\ Good(c, ro) /\ Closed(s, c, Live(s) \ {i})
          /\ s.pending = i => c.pending = NULL
      BY CloseStep
    <2> HIDE DEF c
    <2>2. Output(c)
      BY <2>1 DEF Closed, Output
    <2> QED
      BY <1>4, <2>1, <2>2 DEF c
  <1>5. ASSUME NEW u \in selected \cup established, NEW o \in tun, NEW link \in SUBSET {"link"},
               w = SetPending(u, i, o \cup link)
        PROVE  w \in Context /\ Good(w, ro) /\ Output(w)
    <2> DEFINE out == o \cup link
    <2>1. u \in Context /\ Good(u, ro) /\ i \in Live(u)
      BY <1>2, <1>3
    <2>2. out \in SUBSET {"link", "tun"}
      OBVIOUS
    <2>3. w = SetPending(u, i, out)
      BY <1>5
    <2> HIDE DEF out
    <2> QED
      BY <2>1, <2>2, <2>3, SetPendingGood
  <1>6. ASSUME w \in tuns PROVE w \in Context /\ Good(w, ro) /\ Output(w)
    <2>1. PICK u \in selected \cup established, o \in tun, link \in SUBSET {"link"} :
                w = SetPending(u, i, o \cup link)
      BY ONLY <1>6 DEF tuns
    <2> QED
      BY <1>5, <2>1
  <1> HIDE DEF tuns
  <1> QED
    BY <1>1, <1>4, <1>6

-----------------------------------------------------------------------------
(* Routing.                                                                *)

\* The answers of the routing table are instances that are not closed.
LEMMA NetOwnerLive ==
    ASSUME NEW s \in Context, Counts(s), NEW a
    PROVE  /\ NetOwner(s, a) \in Live(s) \cup {NULL}
           /\ NetOwner(s, a) # NULL => RoutesTo(s, NetOwner(s, a)) # {}
  <1> DEFINE nets == NetRoutes(s, a)
             n == CHOOSE n \in nets : \A o \in nets : Bits[o] <= Bits[n]
  <1>1. nets \in SUBSET Nets /\ \A o \in nets : multi_route_defined(s, o)
    BY DEF NetRoutes
  <1>2. CASE nets = {}
    BY <1>2 DEF NetOwner
  <1>3. CASE nets # {}
    <2>1. NetOwner(s, a) = s.vhash[n].instance
      BY <1>3 DEF NetOwner
    <2> HIDE DEF nets
    <2>2. n \in nets
      BY <1>1, <1>3, Longest
    <2> HIDE DEF n
    <2>3. n \in Addr /\ s.vhash[n] # NULL /\ ~s.inst[s.vhash[n].instance].halt
      BY <1>1, <2>2 DEF multi_route_defined, Addr
    <2>4. s.vhash[n].instance \in Inst /\ s.inst[s.vhash[n].instance] # NULL
      BY <2>3 DEF Counts, CountsWith, Context, Route
    <2> QED
      BY <2>1, <2>3, <2>4 DEF Live, RoutesTo
  <1> QED
    BY <1>2, <1>3

LEMMA OwnerLive ==
    ASSUME NEW s \in Context, Counts(s), NEW a \in Addr
    PROVE  Owner(s, a) \in Live(s) \cup {NULL}
  <1>1. CASE a = Local
    BY <1>1 DEF Owner
  <1>2. CASE a # Local /\ multi_route_defined(s, a)
    BY <1>2 DEF Owner, multi_route_defined, Live, Counts, CountsWith, Context, Route
  <1>3. CASE a # Local /\ ~multi_route_defined(s, a)
    <2>1. Owner(s, a) = NetOwner(s, a)
      BY <1>3 DEF Owner
    <2> QED
      BY <2>1, NetOwnerLive
  <1> QED
    BY <1>1, <1>2, <1>3

\* The answer of a network route is cached.
LEMMA CachedGood ==
    ASSUME NEW s \in Context, NEW ro, Good(s, ro), NEW a \in Hosts
    PROVE  LET t == Cached(s, a)
           IN  t \in Context /\ Good(t, ro) /\ Live(t) = Live(s) /\ SameButRoutes(s, t)
  <1> DEFINE i == NetOwner(s, a)
             t == multi_learn_addr(s, i, a, "cached")
             e == [instance |-> i, kind |-> "cached"]
  <1>0. a \in Addr /\ a \notin Nets
    BY MultiAssumption DEF Addr
  <1>1. CASE Owner(s, a) = NULL \/ multi_route_defined(s, a)
    BY <1>1, SameButRoutesRefl DEF Cached
  <1>2. CASE Owner(s, a) # NULL /\ ~multi_route_defined(s, a)
    <2>1. Owner(s, a) = i /\ i # NULL
      BY <1>2 DEF Owner
    <2>2. Cached(s, a) = t
      BY <1>2, <2>1 DEF Cached
    <2>3. /\ Counts(s) /\ Routing(s) /\ Clients(s)
          /\ AddressPlan => Addressed(s)
      BY DEF Good
    <2>4. i \in Live(s) /\ RoutesTo(s, i) # {}
      BY <2>1, <2>3, NetOwnerLive
    <2>5. i = NetOwner(s, a)
      OBVIOUS
    <2> HIDE DEF i
    <2>6. /\ t \in Context /\ Counts(t) /\ SameButRoutes(s, t)
          /\ t.vhash = IF MayLearn(s, i, a) THEN [s.vhash EXCEPT ![a] = e] ELSE s.vhash
          /\ t.net_len_refcount = s.net_len_refcount
      BY <1>0, <2>3, <2>4, LearnAddr
    <2>7. Routing(t)
      BY <1>0, <2>3, <2>4, <2>5, LearnRouting
    <2> HIDE DEF t
    <2>8. \A j \in Inst \ {i} : RoutesTo(t, j) \subseteq RoutesTo(s, j)
      BY <1>0, <2>4, <2>6 DEF RoutesTo, Context
    <2>9. \A j \in Live(s) : ~s.inst[j].connection_established_flag => RoutesTo(t, j) = {}
      BY <2>3, <2>4, <2>8 DEF Clients, Live
    <2>10. AddressPlan => Addressed(t)
      <3> SUFFICES ASSUME AddressPlan, NEW j \in Live(t), t.inst[j].did_iroutes,
                          t.inst[j].vaddr_handle # 0
                   PROVE  t.vhash[PoolAddr[t.inst[j].vaddr_handle]]
                              = [instance |-> j, kind |-> "host"]
        BY DEF Addressed
      <3> DEFINE h == s.inst[j].vaddr_handle
                 c == PoolAddr[h]
                 f == [instance |-> j, kind |-> "host"]
      <3>1. j \in Live(s) /\ j \in Inst
        BY <2>6, SameButRoutesLive DEF Live
      <3>2. SameClient(s.inst[j], t.inst[j])
        BY <2>6, <3>1 DEF SameButRoutes
      <3>3. s.inst[j].did_iroutes /\ t.inst[j].vaddr_handle = h /\ h # 0 /\ h \in Handle
        BY <3>1, <3>2 DEF SameClient, Live, Context, Instance
      <3>4. s.vhash[c] = f /\ c \in Addr
        BY <2>3, <3>1, <3>3, MultiAssumption DEF Addressed, Addr
      <3>5. multi_route_defined(s, c)
        BY <3>1, <3>4, NullInst DEF multi_route_defined, Route, Live
      <3>6. t.vhash[c] = s.vhash[c]
        BY <1>2, <2>6, <3>4, <3>5 DEF Context
      <3> QED
        BY <3>3, <3>4, <3>6
    <2>11. Good(t, ro) /\ Live(t) = Live(s)
      BY <2>6, <2>7, <2>9, <2>10, SameButRoutesGood
    <2> QED
      BY <2>2, <2>6, <2>11
  <1> QED
    BY <1>1, <1>2

\* Packets for other clients.
LEMMA BcastGood ==
    ASSUME NEW s \in Context, NEW ro, Good(s, ro), NEW sender
    PROVE  LET t == multi_bcast(s, sender)
           IN  /\ t \in Context /\ Good(t, ro) /\ Live(t) = Live(s)
               /\ t.pending = s.pending /\ t.out = s.out
  <1>1. /\ ToSet(s.iter) = Live(s) /\ s.mbuf \in QueueOf(Live(s))
        /\ s.pending \in Live(s) \cup {NULL} /\ s.out \in SUBSET {"link", "tun"}
    BY DEF Good, Links, Context
  <1>2. PICK q \in QueueOf(Live(s)) : multi_bcast(s, sender) = [s EXCEPT !.mbuf = q]
    BY <1>1, BcastQueue
  <1>3. multi_bcast(s, sender) = Requeue(s, q, s.pending, s.out)
    BY <1>2 DEF Requeue, Context
  <1> DEFINE p == s.pending
             o == s.out
  <1>4. p \in Live(s) \cup {NULL} /\ o \in SUBSET {"link", "tun"}
    BY <1>1
  <1> HIDE DEF p, o
  <1>5. LET t == Requeue(s, q, p, o)
        IN  /\ t \in Context /\ Good(t, ro) /\ Live(t) = Live(s)
            /\ t.pending = p /\ t.out = o
    BY <1>4, Requeued
  <1> QED
    BY <1>3, <1>5 DEF p, o

LEMMA QueuedGood ==
    ASSUME NEW s \in Context, NEW ro, Good(s, ro), NEW q \in QueueOf(Live(s))
    PROVE  LET t == [s EXCEPT !.mbuf = q]
           IN  /\ t \in Context /\ Good(t, ro) /\ Live(t) = Live(s)
               /\ t.pending = s.pending /\ t.out = s.out /\ t.mbuf = q
  <1> DEFINE p == s.pending
             o == s.out
             t == [s EXCEPT !.mbuf = q]
  <1>1. t = Requeue(s, q, p, o)
    BY DEF Requeue, Context
  <1>2. p \in Live(s) \cup {NULL} /\ o \in SUBSET {"link", "tun"}
    BY DEF Good, Links, Context
  <1> HIDE DEF p, o, t
  <1>3. LET u == Requeue(s, q, p, o)
        IN  /\ u \in Context /\ Good(u, ro) /\ Live(u) = Live(s)
            /\ u.pending = p /\ u.out = o /\ u.mbuf = q
    BY <1>2, Requeued
  <1> QED
    BY <1>1, <1>3 DEF p, o, t

\* The packet of a client on its way to its destination.
LEMMA RoutedGood ==
    ASSUME NEW s \in Context, NEW ro, Good(s, ro), NEW i, NEW dest \in Hosts \cup {"mcast"}
    PROVE  LET p == Routed(s, i, dest)
           IN  /\ p[1] \in Context /\ Good(p[1], ro) /\ Live(p[1]) = Live(s)
               /\ p[1].pending = s.pending /\ p[1].out = s.out
               /\ p[2] \in SUBSET {"tun"}
  <1>1. CASE dest = "mcast"
    <2> DEFINE b == multi_bcast(s, i)
    <2>1. Routed(s, i, dest) = <<b, {"tun"}>>
      BY <1>1 DEF Routed
    <2>2. /\ b \in Context /\ Good(b, ro) /\ Live(b) = Live(s)
          /\ b.pending = s.pending /\ b.out = s.out
      BY BcastGood
    <2> HIDE DEF b
    <2> QED
      BY <2>1, <2>2
  <1>2. CASE dest # "mcast" /\ Owner(s, dest) # NULL
    <2> DEFINE to == Owner(s, dest)
               c == Cached(s, dest)
               q == mbuf_add_item(c.mbuf, to)
               b == [c EXCEPT !.mbuf = q]
    <2>1. Routed(s, i, dest) = <<b, {}>>
      BY <1>2 DEF Routed
    <2>2. dest \in Hosts /\ dest \in Addr /\ Counts(s)
      BY <1>2 DEF Addr, Good
    <2>3. to \in Live(s)
      BY <1>2, <2>2, OwnerLive
    <2> HIDE DEF to
    <2>4. c \in Context /\ Good(c, ro) /\ Live(c) = Live(s) /\ SameButRoutes(s, c)
      BY <2>2, CachedGood
    <2> HIDE DEF c
    <2>5. c.mbuf \in QueueOf(Live(c)) /\ to \in Live(c)
      BY <2>3, <2>4 DEF Good, Links
    <2>6. q \in QueueOf(Live(c))
      BY <2>5, QueueAdd
    <2> HIDE DEF q
    <2>7. /\ b \in Context /\ Good(b, ro) /\ Live(b) = Live(c)
          /\ b.pending = c.pending /\ b.out = c.out
      BY <2>4, <2>6, QueuedGood
    <2> HIDE DEF b
    <2> QED
      BY <2>1, <2>4, <2>7 DEF SameButRoutes
  <1>3. CASE dest # "mcast" /\ Owner(s, dest) = NULL
    <2>1. Routed(s, i, dest) = <<s, {"tun"}>>
      BY <1>3 DEF Routed
    <2> QED
      BY <2>1
  <1> QED
    BY <1>1, <1>2, <1>3

-----------------------------------------------------------------------------
(* The invariant is inductive.                                             *)

\* What the state of an event has to be for its instance to be served.
Kept(s, ro) == s \in Context /\ Good(s, ro) /\ Output(s)

\* multi_process_incoming_link, of a control packet.
LEMMA ControlKeeps ==
    ASSUME ServerInv, SocketReadControl
    PROVE  ServerInv'
  <1> DEFINE ro == readonly
  <1>1. Kept(m, ro) /\ status' = {} /\ readonly' = ro /\ aborted' = aborted
    BY DEF ServerInv, SocketReadControl, Takes, Kept
  <1>2. PICK r \in Real : \E p \in From(r) : m' \in multi_process_post(p[1], p[2], {{}})
    BY DEF SocketReadControl
  <1>3. PICK p \in From(r) : m' \in multi_process_post(p[1], p[2], {{}})
    BY <1>2
  <1> HIDE DEF ro
  <1>4. Kept(p[1], ro) /\ p[2] \in Live(p[1])
    <2>1. CASE m.hash[r] # NULL
      <3>1. p = <<m, m.hash[r]>>
        BY <2>1 DEF From
      <3> QED
        BY <1>1, <2>1, <3>1 DEF Kept, Good, Links
    <2>2. CASE m.hash[r] = NULL
      <3>1. PICK i \in Free : p = <<multi_create_instance(m, i, r), i>>
        BY <2>2 DEF From
      <3> DEFINE t == multi_create_instance(m, i, r)
      <3>2. i \in Inst /\ m.inst[i] = NULL
        BY DEF Free
      <3>3. /\ t \in Context /\ Good(t, ro) /\ i \in Live(t)
            /\ t.pending = m.pending /\ t.out = m.out
        BY <1>1, <2>2, <3>2, CreateGood DEF Kept
      <3> HIDE DEF t
      <3> QED
        BY <1>1, <3>1, <3>3 DEF t, Kept, Output
    <2> QED
      BY <2>1, <2>2
  <1>5. {{}} \in SUBSET (SUBSET {"tun"})
    OBVIOUS
  <1>6. Kept(m', ro)
    <2> DEFINE s == p[1]
               i == p[2]
    <2>1. s \in Context /\ Good(s, ro) /\ Output(s) /\ i \in Live(s)
      BY <1>4 DEF Kept
    <2>2. m' \in multi_process_post(s, i, {{}})
      BY <1>3
    <2> HIDE DEF s, i
    <2> QED
      BY <1>5, <2>1, <2>2, PostGood DEF Kept
  <1> QED
    BY <1>1, <1>6 DEF ServerInv, Kept, Reported, ro

\* What a packet is taken from the link or the tun device with: the queue is
\* empty, and a packet fits into it.
LEMMA ReadsEmpty ==
    ASSUME ServerInv, NEW e \in {"sr", "tr"}, Takes(e)
    PROVE  CanAdd(m.mbuf) /\ m.pending \in Live(m) \cup {NULL}
  <1>1. m.mbuf = <<>>
    BY DEF ServerInv, Reported, Takes, p2mp_iow_flags
  <1>2. MbufSize # 0
    BY MultiAssumption
  <1> QED
    BY <1>1, <1>2 DEF CanAdd, ServerInv, Good, Links

\* multi_process_incoming_link, of a packet from the tunnel.
LEMMA DataKeeps ==
    ASSUME ServerInv, SocketReadData
    PROVE  ServerInv'
  <1> DEFINE ro == readonly
  <1>1. /\ Kept(m, ro) /\ status' = {} /\ readonly' = ro
        /\ aborted' = aborted
    <2>1. Takes("sr")
      BY DEF SocketReadData
    <2>2. CanAdd(m.mbuf)
      BY <2>1, ReadsEmpty
    <2> QED
      BY <2>1, <2>2 DEF ServerInv, SocketReadData, Takes, Kept
  <1>2. PICK i \in ToSet(m.iter) : \E p \in Tunnelled(i) :
            m' \in multi_process_post(p[1], i, {p[2]})
    BY DEF SocketReadData
  <1>3. PICK p \in Tunnelled(i) : m' \in multi_process_post(p[1], i, {p[2]})
    BY <1>2
  <1> HIDE DEF ro
  <1>4. i \in Live(m)
    BY <1>1 DEF Kept, Good, Links
  <1>5. PICK src \in Hosts, dest \in Hosts \cup {"mcast"} :
            p \in {Routed(Cached(m, src), i, dest), <<Cached(m, src), {}>>}
    BY DEF Tunnelled
  <1> DEFINE c == Cached(m, src)
  <1>6. c \in Context /\ Good(c, ro) /\ Live(c) = Live(m) /\ SameButRoutes(m, c)
    BY <1>1, CachedGood DEF Kept
  <1>7. p \in {Routed(c, i, dest), <<c, {}>>}
    BY <1>5
  <1> HIDE DEF c
  <1>8. c.pending = m.pending /\ c.out = m.out
    BY <1>6 DEF SameButRoutes
  <1>9. /\ p[1] \in Context /\ Good(p[1], ro) /\ Live(p[1]) = Live(c)
        /\ p[1].pending = c.pending /\ p[1].out = c.out /\ p[2] \in SUBSET {"tun"}
    <2>1. CASE p = <<c, {}>>
      BY <1>6, <2>1
    <2>2. CASE p = Routed(c, i, dest)
      BY <1>6, <2>2, RoutedGood
    <2> QED
      BY <1>7, <2>1, <2>2
  <1>10. Kept(m', ro)
    <2> DEFINE s == p[1]
               tun == {p[2]}
    <2>1. s \in Context /\ Good(s, ro) /\ Output(s) /\ i \in Live(s)
      BY <1>1, <1>4, <1>6, <1>8, <1>9 DEF Kept, Output
    <2>2. m' \in multi_process_post(s, i, tun) /\ tun \in SUBSET (SUBSET {"tun"})
      BY <1>3, <1>9
    <2> HIDE DEF s, tun
    <2> QED
      BY <2>1, <2>2, PostGood DEF Kept
  <1> QED
    BY <1>1, <1>10 DEF ServerInv, Kept, Reported, ro

LEMMA TunOutType ==
    ASSUME NEW s, NEW i
    PROVE  TunOut(s, i) \in SUBSET (SUBSET {"tun"})
  BY DEF TunOut

\* multi_process_incoming_tun.
LEMMA TunReadKeeps ==
    ASSUME ServerInv, TunRead
    PROVE  ServerInv'
  <1> DEFINE ro == readonly
  <1>1. /\ Kept(m, ro) /\ status' = {} /\ readonly' = ro /\ aborted' = aborted
    <2>1. Takes("tr")
      BY DEF TunRead
    <2>2. CanAdd(m.mbuf)
      BY <2>1, ReadsEmpty
    <2> QED
      BY <2>1, <2>2 DEF ServerInv, TunRead, Takes, Kept
  <1>2. Kept(m', ro)
    <2> HIDE DEF ro
    <2>1. CASE m' = multi_bcast(m, NULL)
      BY <1>1, <2>1, BcastGood DEF Kept, Output
    <2>2. ASSUME NEW dest \in Hosts, Owner(m, dest) = NULL, m' = m
          PROVE  Kept(m', ro)
      BY <1>1, <2>2
    <2>3. ASSUME NEW dest \in Hosts, Owner(m, dest) # NULL,
                 m' \in multi_process_post([Cached(m, dest) EXCEPT !.pending = Owner(m, dest)],
                                           Owner(m, dest), TunOut(m, Owner(m, dest)))
          PROVE  Kept(m', ro)
      <3> DEFINE i == Owner(m, dest)
                 c == Cached(m, dest)
                 b == [c EXCEPT !.pending = i]
                 q == c.mbuf
                 o == c.out
                 tun == TunOut(m, i)
      <3>1. i \in Live(m)
        <4>1. dest \in Addr /\ Counts(m) /\ m \in Context
          BY <1>1 DEF Kept, Good, Addr
        <4> QED
          BY <2>3, <4>1, OwnerLive
      <3>2. m' \in multi_process_post(b, i, tun) /\ tun \in SUBSET (SUBSET {"tun"})
        BY <2>3, TunOutType
      <3>3. c \in Context /\ Good(c, ro) /\ Live(c) = Live(m)
        BY <1>1, CachedGood DEF Kept
      <3> HIDE DEF c, i, tun
      <3>4. q \in QueueOf(Live(c)) /\ o \in SUBSET {"link", "tun"}
        BY <3>3 DEF Good, Links, Context
      <3>5. b = Requeue(c, q, i, o)
        BY <3>3 DEF Requeue, Context
      <3> HIDE DEF b, q, o
      <3>6. b \in Context /\ Good(b, ro) /\ Live(b) = Live(c) /\ b.pending = i
        <4> DEFINE t == Requeue(c, q, i, o)
        <4>1. t \in Context /\ Good(t, ro) /\ Live(t) = Live(c) /\ t.pending = i
          BY <3>1, <3>3, <3>4, Requeued
        <4> HIDE DEF t
        <4> QED
          BY <3>5, <4>1 DEF t
      <3>7. i \in Live(b)
        BY <3>1, <3>3, <3>6
      <3> QED
        BY <3>2, <3>6, <3>7, PostGood DEF Kept
    <2> QED
      BY <2>1, <2>2, <2>3 DEF TunRead
  <1> QED
    BY <1>1, <1>2 DEF ServerInv, Kept, Reported, ro

\* multi_process_outgoing_link.
LEMMA SocketWriteKeeps ==
    ASSUME ServerInv, SocketWrite
    PROVE  ServerInv'
  <1> DEFINE ro == readonly
  <1>1. /\ Kept(m, ro) /\ status' = {} /\ readonly' = ro /\ aborted' = aborted
    BY DEF ServerInv, SocketWrite, Takes, Kept
  <1>2. Kept(m', ro)
    <2> DEFINE next == IF m.pending # NULL THEN m.pending
                       ELSE IF Queued(m.mbuf) = {} THEN NULL ELSE m.mbuf[Oldest(m.mbuf)]
               q == Rest(m.mbuf)
               taken == IF m.pending # NULL THEN m ELSE [m EXCEPT !.mbuf = q]
               tun == TunOut(m, next)
    <2>1. IF next = NULL THEN m' = taken ELSE m' \in multi_process_post(taken, next, tun)
      BY DEF SocketWrite
    <2>2. tun \in SUBSET (SUBSET {"tun"})
      BY TunOutType
    <2>3. next \in Live(m) \cup {NULL}
      <3>1. m.pending \in Live(m) \cup {NULL} /\ m.mbuf \in Seq(Live(m) \cup {NULL})
        BY <1>1 DEF Kept, Good, Links, QueueOf
      <3>2. Queued(m.mbuf) # {} => Oldest(m.mbuf) \in 1 .. Len(m.mbuf)
        BY <3>1, OldestQueued
      <3> QED
        BY <3>1, <3>2
    <2>4. taken \in Context /\ Good(taken, ro) /\ Output(taken) /\ Live(taken) = Live(m)
      <3>1. q \in QueueOf(Live(m))
        BY <1>1, QueueRest DEF Kept, Good, Links
      <3> DEFINE t == [m EXCEPT !.mbuf = q]
      <3> HIDE DEF q, ro
      <3>2. /\ t \in Context /\ Good(t, ro) /\ Live(t) = Live(m)
            /\ t.pending = m.pending /\ t.out = m.out
        BY <1>1, <3>1, QueuedGood DEF Kept
      <3>3. taken = m \/ taken = t
        OBVIOUS
      <3> HIDE DEF t, taken
      <3> QED
        BY <1>1, <3>2, <3>3 DEF Kept, Output
    <2> HIDE DEF next, taken, tun, ro
    <2>5. CASE next = NULL
      BY <2>1, <2>4, <2>5 DEF Kept
    <2>6. CASE next # NULL
      <3>1. m' \in multi_process_post(taken, next, tun) /\ next \in Live(taken)
        BY <2>1, <2>3, <2>4, <2>6
      <3> QED
        BY <2>2, <2>4, <3>1, PostGood DEF Kept
    <2> QED
      BY <2>5, <2>6
  <1> QED
    BY <1>1, <1>2 DEF ServerInv, Kept, Reported, ro

\* multi_process_outgoing_tun, which asserts that an instance has output.
LEMMA TunWriteKeeps ==
    ASSUME ServerInv, TunWrite
    PROVE  ServerInv'
  <1> DEFINE ro == readonly
  <1>1. /\ Kept(m, ro) /\ status' = {} /\ readonly' = ro
        /\ aborted' \in {aborted, "multi_process_outgoing_tun"}
    BY DEF ServerInv, TunWrite, Takes, Kept
  <1> HIDE DEF ro
  <1>2. Kept(m', ro)
    <2>1. CASE m.pending = NULL
      BY <1>1, <2>1 DEF TunWrite
    <2>2. CASE m.pending # NULL
      <3> DEFINE i == m.pending
      <3>1. i \in Live(m) /\ m' \in multi_process_post(m, i, {{}})
        BY <1>1, <2>2 DEF TunWrite, Kept, Good, Links
      <3>2. {{}} \in SUBSET (SUBSET {"tun"})
        OBVIOUS
      <3> HIDE DEF i
      <3> QED
        BY <1>1, <3>1, <3>2, PostGood DEF Kept
    <2> QED
      BY <2>1, <2>2
  <1> QED
    BY <1>1, <1>2 DEF ServerInv, Kept, Reported, ro

\* multi_process_timeout.
LEMMA TimeoutKeeps ==
    ASSUME ServerInv, Timeout
    PROVE  ServerInv'
  <1> DEFINE ro == readonly
  <1>1. Kept(m, ro) /\ status = {} /\ status' = {} /\ readonly' = ro /\ aborted' = aborted
    BY DEF ServerInv, Timeout, Kept
  <1>2. PICK i \in m.schedule : m' \in multi_process_post(m, i, TunOut(m, i))
    BY DEF Timeout
  <1> HIDE DEF ro
  <1>3. i \in Live(m)
    BY <1>1 DEF Kept, Good, Links
  <1> DEFINE tun == TunOut(m, i)
  <1>4. tun \in SUBSET (SUBSET {"tun"}) /\ m' \in multi_process_post(m, i, tun)
    BY <1>2, TunOutType
  <1> HIDE DEF tun
  <1>5. Kept(m', ro)
    BY <1>1, <1>3, <1>4, PostGood DEF Kept
  <1> QED
    BY <1>1, <1>5 DEF ServerInv, Kept, Reported, ro

\* management_io: a queue that was empty when io_wait reported stays empty.
LEMMA KillKeeps ==
    ASSUME ServerInv, Kill
    PROVE  ServerInv'
  <1> DEFINE ro == readonly
  <1>1. /\ Kept(m, ro) /\ status' \subseteq p2mp_iow_flags
        /\ readonly' = ro /\ aborted' = aborted
    BY DEF ServerInv, Kill, Kept
  <1>2. PICK S : m' = CloseAll(m, S)
    BY DEF Kill
  <1> HIDE DEF ro
  <1>3. LET t == CloseAll(m, S)
        IN  t \in Context /\ Good(t, ro) /\ Closed(m, t, Live(m) \ S)
    BY <1>1, CloseFold DEF Kept
  <1>4. Kept(m', ro) /\ (m.mbuf = <<>> => m'.mbuf = <<>>)
    BY <1>1, <1>2, <1>3 DEF Kept, Closed
  <1>5. /\ p2mp_iow_flags \subseteq {"sr", "sw", "tr", "tw"}
        /\ p2mp_iow_flags \cap {"sr", "tr"} # {} => m.mbuf = <<>>
    BY DEF p2mp_iow_flags
  <1> QED
    BY <1>1, <1>4, <1>5 DEF ServerInv, Kept, Reported, ro

\* multi_reap_range: a route that is deleted answers nothing.
LEMMA ReapGood ==
    ASSUME NEW s \in Context, NEW ro, Good(s, ro), NEW a \in Addr,
           s.vhash[a] # NULL, ~multi_route_defined(s, a)
    PROVE  LET t == multi_route_del(s, a)
           IN  /\ t \in Context /\ Good(t, ro)
               /\ t.mbuf = s.mbuf /\ t.pending = s.pending /\ t.out = s.out
  <1> DEFINE t == multi_route_del(s, a)
  <1>1. /\ CountsWith(s, {}) /\ Counts(s) /\ Links(s) /\ Clients(s) /\ Routing(s)
        /\ AddressPlan => Addressed(s)
    BY DEF Good, Counts
  <1>2. /\ t \in Context /\ Counts(t) /\ SameButRoutes(s, t)
        /\ t.vhash = [s.vhash EXCEPT ![a] = NULL]
        /\ t.net_len_refcount = s.net_len_refcount
    BY <1>1, RouteDel DEF Counts
  <1> HIDE DEF t
  <1>3. \A b \in Addr : t.vhash[b] = IF b = a THEN NULL ELSE s.vhash[b]
    BY <1>2 DEF Context
  <1>4. \A n \in Nets : multi_route_defined(t, n) <=> multi_route_defined(s, n)
    <2> TAKE n \in Nets
    <2>1. CASE n = a
      BY <1>3, <2>1 DEF multi_route_defined
    <2>2. CASE n # a
      BY <1>1, <1>2, <1>3, <2>2, DefinedSame DEF Addr
    <2> QED
      BY <2>1, <2>2
  <1>5. \A n \in Nets : multi_route_defined(s, n) => t.vhash[n] = s.vhash[n]
    BY <1>3 DEF Addr
  <1>6. Routing(t)
    <2> DEFINE A == Addr
    <2>1. A \in SUBSET Addr /\ \A b \in A : t.vhash[b] = s.vhash[b] \/ t.vhash[b] = NULL
      BY <1>3
    <2> HIDE DEF A
    <2>2. /\ \A n \in Nets \cap A : NetworkRoute(t, n)
          /\ \A b \in Hosts \cap A : CachedRoute(t, b)
      BY <1>1, <1>2, <1>4, <1>5, <2>1, RoutingKept
    <2> QED
      BY <2>2 DEF Routing, A, Addr
  <1>7. \A j \in Live(s) : ~s.inst[j].connection_established_flag => RoutesTo(t, j) = {}
    BY <1>1, <1>3 DEF Clients, RoutesTo
  <1>8. Live(t) = Live(s) /\ \A i \in Live(s) : i \in Inst /\ SameClient(s.inst[i], t.inst[i])
    BY <1>2, SameButRoutesLive DEF Live, SameButRoutes
  <1>9. AddressPlan => Addressed(t)
    <2> SUFFICES ASSUME AddressPlan, NEW i \in Live(t), t.inst[i].did_iroutes,
                        t.inst[i].vaddr_handle # 0
                 PROVE  t.vhash[PoolAddr[t.inst[i].vaddr_handle]]
                            = [instance |-> i, kind |-> "host"]
      BY DEF Addressed
    <2> DEFINE h == s.inst[i].vaddr_handle
               c == PoolAddr[h]
               f == [instance |-> i, kind |-> "host"]
    <2>1. i \in Live(s) /\ i \in Inst /\ t.inst[i].vaddr_handle = h /\ s.inst[i].did_iroutes
      BY <1>8 DEF SameClient
    <2>2. s.inst[i] \in Instance /\ s.inst[i] # NULL /\ ~s.inst[i].halt
      BY <2>1 DEF Context, Live
    <2>3. h \in Handle
      BY <2>1, <2>2 DEF Instance
    <2>4. c \in Addr
      BY <2>3, MultiAssumption DEF Addr
    <2>5. s.vhash[c] = f
      BY <1>1, <2>1 DEF Addressed
    <2> HIDE DEF h, c
    <2>6. f # NULL
      BY <2>4, <2>5, <2>1, MultiAssumption DEF Route
    <2>7. multi_route_defined(s, c)
      BY <2>2, <2>5, <2>6 DEF multi_route_defined
    <2> QED
      BY <1>3, <2>1, <2>4, <2>5, <2>7 DEF c, h
  <1>10. Good(t, ro)
    BY <1>2, <1>6, <1>7, <1>9, SameButRoutesGood
  <1> QED
    BY <1>2, <1>10 DEF t, SameButRoutes

\* A cached route that is too old: it was to a host.
LEMMA AgeGood ==
    ASSUME NEW s \in Context, NEW ro, Good(s, ro), NEW a \in Addr,
           s.vhash[a] # NULL, s.vhash[a].kind = "cached"
    PROVE  LET t == [s EXCEPT !.vhash[a].kind = "stale"]
           IN  /\ t \in Context /\ Good(t, ro)
               /\ t.mbuf = s.mbuf /\ t.pending = s.pending /\ t.out = s.out
  <1> DEFINE e == [s.vhash[a] EXCEPT !.kind = "stale"]
             t == [s EXCEPT !.vhash[a].kind = "stale"]
  <1>1. /\ Counts(s) /\ CountsWith(s, {}) /\ Links(s) /\ Clients(s) /\ Routing(s)
        /\ AddressPlan => Addressed(s)
    BY DEF Good, Counts
  <1>2. a \notin Nets /\ a \in Hosts
    BY <1>1 DEF Routing, NetworkRoute, Addr
  <1>3. s.vhash[a] \in Route
    BY DEF Context
  <1>4. e \in Route /\ e.instance = s.vhash[a].instance /\ e.kind = "stale" /\ e # NULL
    BY <1>3, MultiAssumption DEF Route
  <1>5. t = [s EXCEPT !.vhash = [s.vhash EXCEPT ![a] = e]]
    BY DEF Context
  <1> HIDE DEF e, t
  <1>6. t \in Context /\ t.vhash = [s.vhash EXCEPT ![a] = e]
    BY <1>4, <1>5 DEF Context
  <1>7. /\ t.inst = s.inst /\ t.hash = s.hash /\ t.iter = s.iter /\ t.schedule = s.schedule
        /\ t.mbuf = s.mbuf /\ t.pool = s.pool /\ t.pending = s.pending /\ t.out = s.out
        /\ t.net_len_refcount = s.net_len_refcount
    BY <1>5 DEF Context
  <1>8. \A b \in Addr : t.vhash[b] = IF b = a THEN e ELSE s.vhash[b]
    BY <1>6 DEF Context
  <1>9. SameOwners(s.vhash, t.vhash)
    BY <1>4, <1>8 DEF SameOwners
  <1>10. SameButLengths(s, t)
    BY <1>7, <1>9 DEF SameButLengths
  <1>11. SameButRoutes(s, t)
    BY <1>6, <1>10, SameButLengthsRoutes
  <1>12. Counts(t)
    <2>1. CountsWith(t, {})
      BY <1>1, <1>6, <1>10, SameButLengthsCounts
    <2> QED
      BY <2>1 DEF Counts
  <1>13. \A n \in Nets : t.vhash[n] = s.vhash[n] /\ n \in Addr
    BY <1>2, <1>8 DEF Addr
  <1>14. \A n \in Nets : multi_route_defined(t, n) <=> multi_route_defined(s, n)
    BY <1>7, <1>13 DEF multi_route_defined
  <1>15. Routing(t)
    <2> DEFINE A == Addr \ {a}
    <2>1. A \in SUBSET Addr /\ \A b \in A : t.vhash[b] = s.vhash[b] \/ t.vhash[b] = NULL
      BY <1>8
    <2>2. Nets \subseteq A /\ Hosts \ {a} \subseteq A
      BY <1>2 DEF Addr
    <2> HIDE DEF A
    <2>3. /\ \A n \in Nets \cap A : NetworkRoute(t, n)
          /\ \A b \in Hosts \cap A : CachedRoute(t, b)
      BY <1>1, <1>6, <1>7, <1>11, <1>12, <1>13, <1>14, <2>1, RoutingKept
    <2>4. CachedRoute(t, a)
      BY <1>4, <1>8 DEF CachedRoute
    <2> QED
      BY <2>2, <2>3, <2>4 DEF Routing
  <1>16. Live(t) = Live(s) /\ \A j : RoutesTo(t, j) = RoutesTo(s, j)
    BY <1>7, <1>9 DEF Live, RoutesTo, SameOwners
  <1>17. \A j \in Live(s) : ~s.inst[j].connection_established_flag => RoutesTo(t, j) = {}
    BY <1>1, <1>16 DEF Clients
  <1>18. AddressPlan => Addressed(t)
    <2> SUFFICES ASSUME AddressPlan, NEW i \in Live(s), s.inst[i].did_iroutes,
                        s.inst[i].vaddr_handle # 0
                 PROVE  t.vhash[PoolAddr[s.inst[i].vaddr_handle]]
                            = [instance |-> i, kind |-> "host"]
      BY <1>7, <1>16 DEF Addressed
    <2> DEFINE h == s.inst[i].vaddr_handle
               c == PoolAddr[h]
    <2>1. s.inst[i] \in Instance
      BY DEF Context, Live
    <2>2. h \in Handle
      BY <2>1 DEF Instance
    <2>3. c \in Addr
      BY <2>2, MultiAssumption DEF Addr
    <2>4. s.vhash[c] = [instance |-> i, kind |-> "host"]
      BY <1>1 DEF Addressed
    <2> HIDE DEF h, c
    <2> QED
      BY <1>8, <2>3, <2>4 DEF c, h
  <1>19. Good(t, ro)
    BY <1>6, <1>7, <1>11, <1>12, <1>15, <1>17, <1>18, SameButRoutesGood
  <1> QED
    BY <1>6, <1>7, <1>19 DEF t

\* multi_reap_range.
LEMMA ReapKeeps ==
    ASSUME ServerInv, Reap
    PROVE  ServerInv'
  <1> DEFINE ro == readonly
  <1>1. /\ Kept(m, ro) /\ status' = status /\ readonly' = ro /\ aborted' = aborted
        /\ status = {}
    BY DEF ServerInv, Reap, Kept
  <1>2. PICK a \in Addr : /\ m.vhash[a] # NULL /\ ~multi_route_defined(m, a)
                          /\ m' = multi_route_del(m, a)
    BY DEF Reap
  <1> HIDE DEF ro
  <1>3. LET t == multi_route_del(m, a)
        IN  /\ t \in Context /\ Good(t, ro)
            /\ t.mbuf = m.mbuf /\ t.pending = m.pending /\ t.out = m.out
    BY <1>1, <1>2, ReapGood DEF Kept
  <1>4. Kept(m', ro)
    BY <1>1, <1>2, <1>3 DEF Kept, Output
  <1> QED
    BY <1>1, <1>4 DEF ServerInv, Kept, Reported, ro

\* The time of a cached route.
LEMMA AgeKeeps ==
    ASSUME ServerInv, Age
    PROVE  ServerInv'
  <1> DEFINE ro == readonly
  <1>1. /\ Kept(m, ro) /\ status' = status /\ readonly' = ro /\ aborted' = aborted
        /\ status = {}
    BY DEF ServerInv, Age, Kept
  <1>2. PICK a \in Addr : /\ m.vhash[a] # NULL /\ m.vhash[a].kind = "cached"
                          /\ m' = [m EXCEPT !.vhash[a].kind = "stale"]
    BY DEF Age
  <1> HIDE DEF ro
  <1>3. LET t == [m EXCEPT !.vhash[a].kind = "stale"]
        IN  /\ t \in Context /\ Good(t, ro)
            /\ t.mbuf = m.mbuf /\ t.pending = m.pending /\ t.out = m.out
    BY <1>1, <1>2, AgeGood DEF Kept
  <1>4. Kept(m', ro)
    BY <1>1, <1>2, <1>3 DEF Kept, Output
  <1> QED
    BY <1>1, <1>4 DEF ServerInv, Kept, Reported, ro

\* multi_init with the pool of a file: entries that the file fixes are fixed.
LEMMA StartGood ==
    ASSUME NEW ro \in BOOLEAN, NEW file \in [Handle -> CN \cup {NoName}],
           ro => file = FixedFile
    PROVE  LET t == multi_init(ifconfig_pool_read(file, ro))
           IN  Kept(t, ro) /\ t.mbuf = <<>>
  <1> DEFINE p == ifconfig_pool_read(file, ro)
  <1>1. /\ p \in PoolType
        /\ \A h \in Handle : /\ ~p.list[h].in_use /\ p.list[h].common_name = file[h]
                             /\ p.list[h].fixed <=> ro /\ file[h] # NoName
    BY PoolRead
  <1> HIDE DEF p
  <1>2. Fixed(multi_init(p), ro)
    BY <1>1 DEF Fixed, multi_init
  <1> DEFINE t == multi_init(p)
  <1>3. t \in Context /\ Good(t, ro) /\ Output(t) /\ t.mbuf = <<>>
    BY <1>1, <1>2, InitGood
  <1> QED
    BY <1>3 DEF Kept, p

\* The end of the server and a new start.
LEMMA RestartKeeps ==
    ASSUME ServerInv, Restart
    PROVE  ServerInv'
  <1> DEFINE ro == readonly
             file == IF ro THEN FixedFile ELSE ifconfig_pool_write(m.pool)
             t == multi_init(ifconfig_pool_read(file, ro))
  <1>1. /\ ro \in BOOLEAN /\ m' = t /\ status' = status /\ readonly' = ro
        /\ aborted' = aborted /\ m \in Context
        /\ status \subseteq {"sr", "sw", "tr", "tw"}
        /\ aborted \in {"no", "multi_process_outgoing_tun"}
    BY DEF ServerInv, Restart
  <1>2. ifconfig_pool_write(m.pool) \in [Handle -> CN \cup {NoName}]
    BY <1>1 DEF ifconfig_pool_write, Context, PoolType, Entry
  <1>3. file \in [Handle -> CN \cup {NoName}] /\ (ro => file = FixedFile)
    BY <1>2, MultiAssumption
  <1> HIDE DEF file, ro
  <1>4. Kept(t, ro) /\ t.mbuf = <<>>
    BY <1>1, <1>3, StartGood
  <1> HIDE DEF t
  <1> QED
    BY <1>1, <1>4 DEF ServerInv, Kept, Reported, ro

LEMMA InitKeeps ==
    ASSUME Init
    PROVE  ServerInv
  <1> DEFINE ro == readonly
             file == IF ro THEN FixedFile ELSE NoFile
             t == multi_init(ifconfig_pool_read(file, ro))
  <1>1. ro \in BOOLEAN /\ m = t /\ status = {} /\ aborted = "no"
    BY DEF Init
  <1>2. NoFile \in [Handle -> CN \cup {NoName}]
    BY DEF NoFile
  <1>3. file \in [Handle -> CN \cup {NoName}] /\ (ro => file = FixedFile)
    BY <1>2, MultiAssumption
  <1> HIDE DEF file, ro
  <1>4. Kept(t, ro) /\ t.mbuf = <<>>
    BY <1>1, <1>3, StartGood
  <1> HIDE DEF t
  <1> QED
    BY <1>1, <1>4 DEF ServerInv, Kept, Reported, ro

\* Whatever the clients, the tun device, the timers and the management do, the
\* server keeps its instances, its routes, its queue and its pool as ServerInv
\* says: one invariant, because each part rests on the others (a reference
\* count on the routes, an address on the instances that are not closed).
THEOREM ServerKeepsInv == Spec => []ServerInv
  <1>1. Init => ServerInv
    BY InitKeeps
  <1>2. ServerInv /\ [Next]_vars => ServerInv'
    <2> SUFFICES ASSUME ServerInv, [Next]_vars PROVE ServerInv'
      OBVIOUS
    <2>1. CASE UNCHANGED vars
      BY <2>1 DEF vars, ServerInv, Reported
    <2>2. CASE SocketReadControl
      BY <2>2, ControlKeeps
    <2>3. CASE SocketReadData
      BY <2>3, DataKeeps
    <2>4. CASE TunRead
      BY <2>4, TunReadKeeps
    <2>5. CASE SocketWrite
      BY <2>5, SocketWriteKeeps
    <2>6. CASE TunWrite
      BY <2>6, TunWriteKeeps
    <2>7. CASE Timeout
      BY <2>7, TimeoutKeeps
    <2>8. CASE Kill
      BY <2>8, KillKeeps
    <2>9. CASE Reap
      BY <2>9, ReapKeeps
    <2>10. CASE Age
      BY <2>10, AgeKeeps
    <2>11. CASE Restart
      BY <2>11, RestartKeeps
    <2> QED
      BY <2>1, <2>2, <2>3, <2>4, <2>5, <2>6, <2>7, <2>8, <2>9, <2>10, <2>11 DEF Next
  <1> QED
    BY <1>1, <1>2, PTL DEF Spec

-----------------------------------------------------------------------------
(* What the runs check, for every value of the constants.                  *)

LEMMA LiveIsLive ==
    LiveInst = Live(m) /\ \A i : RoutesOf(i) = RoutesTo(m, i)
  BY DEF LiveInst, Allocated, Live, RoutesOf, RoutesTo

\* The state keeps its type: no client has more routes than
\* max_routes_per_client, the queue keeps to its capacity, and no count of the
\* lengths of networks falls below zero (multi_learn_addr, mbuf_add_item,
\* mroute_helper_del_iroute).
THEOREM ServerTypes == Spec => []TypeOK
  <1>1. ServerInv => TypeOK
    <2> SUFFICES ASSUME ServerInv PROVE TypeOK
      OBVIOUS
    <2>1. m \in Context /\ Links(m) /\ Lengths(m) /\ Clients(m)
      BY DEF ServerInv, Good
    <2>2. /\ m.inst \in [Inst -> Instance \cup {NULL}]
          /\ m.hash \in [Real -> Inst \cup {NULL}]
          /\ m.vhash \in [Addr -> Route \cup {NULL}]
          /\ m.pending \in Inst \cup {NULL} /\ m.out \subseteq {"link", "tun"}
          /\ m.schedule \subseteq Inst
      BY <2>1 DEF Context
    <2>3. /\ m.pool.list \in [Handle -> [in_use : BOOLEAN, fixed : BOOLEAN,
                                         common_name : CN \cup {NoName}]]
          /\ m.pool.released \in Seq(Handle)
      BY <2>1 DEF Context, PoolType, Entry
    <2>4. ToSet(m.pool.released) \subseteq Handle
      <3> DEFINE q == m.pool.released
      <3> HIDE DEF q
      <3>1. ASSUME q \in Seq(Handle) PROVE ToSet(q) \subseteq Handle
        BY <3>1 DEF ToSet
      <3> QED
        BY <2>3, <3>1 DEF q
    <2>5. /\ Len(m.mbuf) <= MbufSize /\ ToSet(m.mbuf) \subseteq Inst \cup {NULL}
          /\ ToSet(m.iter) \subseteq Inst
      BY <2>1 DEF Links, QueueOf, ToSet, Live
    <2>6. m.net_len_refcount \in [Bit -> Nat]
      <3>1. \A b \in Bit : m.net_len_refcount[b] \in Nat
        <4> TAKE b \in Bit
        <4>1. IsFiniteSet(AllOfLength(m, b))
          BY <2>1, AllOfLengthFinite
        <4> QED
          BY <2>1, <4>1, FS_CardinalityType DEF Lengths
      <3> QED
        BY <2>1, <3>1 DEF Context
    <2> QED
      BY <2>2, <2>3, <2>4, <2>5, <2>6 DEF TypeOK, ServerInv
  <1> QED
    BY <1>1, ServerKeepsInv, PTL

\* The memory of an instance is freed with its last reference, neither while a
\* route still leads to it nor never (multi_instance_dec_refcount).
THEOREM ServerRefcounts == Spec => []RefcountExact
  <1>1. ServerInv => RefcountExact
    <2> SUFFICES ASSUME ServerInv PROVE RefcountExact
      OBVIOUS
    <2>1. m \in Context /\ CountsWith(m, {})
      BY DEF ServerInv, Good, Counts
    <2>2. \A a \in Addr : m.vhash[a] # NULL => m.vhash[a].instance \in Inst
      BY <2>1 DEF Context, Route
    <2>3. \A i \in Inst : m.inst[i] # NULL => m.inst[i].route_count \in Nat
      BY <2>1 DEF Context, Instance
    <2>4. \A i \in Inst : m.inst[i] # NULL =>
            m.inst[i].route_count = Cardinality(RoutesTo(m, i)) + 0
      BY <2>1 DEF CountsWith
    <2>5. \A i \in Inst : Cardinality(RoutesTo(m, i)) + 0 = Cardinality(RoutesTo(m, i))
      BY RoutesFinite
    <2> QED
      BY <2>1, <2>2, <2>4, <2>5, LiveIsLive DEF RefcountExact, CountsWith, Allocated
  <1> QED
    BY <1>1, ServerKeepsInv, PTL

\* Nothing but routes leads to a closed instance, and every other one is found
\* by its address and has a timer, whichever way instances were closed
\* (multi_close_instance).
THEOREM ServerLinks == Spec => []NoDangling
  <1>1. ServerInv => NoDangling
    <2> SUFFICES ASSUME ServerInv PROVE NoDangling
      OBVIOUS
    <2>1. Links(m)
      BY DEF ServerInv, Good
    <2>2. ToSet(m.mbuf) \subseteq Live(m) \cup {NULL}
      BY <2>1 DEF Links, QueueOf, ToSet
    <2> QED
      BY <2>1, <2>2, LiveIsLive DEF NoDangling, Links
  <1> QED
    BY <1>1, ServerKeepsInv, PTL

\* The loop does not wait for an instance that has nothing to send
\* (multi_set_pending, p2mp_iow_flags).
THEOREM ServerOutput == Spec => []PendingHasOutput
  <1>1. ServerInv => PendingHasOutput
    BY DEF ServerInv, Output, PendingHasOutput
  <1> QED
    BY <1>1, ServerKeepsInv, PTL

\* The queue of packets is never full of packets to closed instances, so that
\* the ASSERT of mbuf_add_item holds.
THEOREM ServerQueue == Spec => []QueueAssertion
  <1>1. ServerInv => QueueAssertion
    BY DEF ServerInv, QueueAssertion
  <1> QED
    BY <1>1, ServerKeepsInv, PTL

\* An address of the pool is in use exactly while one client has it, through
\* any order of connections, duplicates, static addresses and restarts
\* (multi_select_virtual_addr, ifconfig_pool_release).
THEOREM ServerLeases == Spec => []LeasesExact
  <1>1. ServerInv => LeasesExact
    <2> SUFFICES ASSUME ServerInv, NEW h \in Handle
                 PROVE  Cardinality({i \in LiveInst : m.inst[i].vaddr_handle = h}) =
                            IF m.pool.list[h].in_use THEN 1 ELSE 0
      BY DEF LeasesExact
    <2> DEFINE S == {i \in Live(m) : m.inst[i].vaddr_handle = h}
    <2>1. Leases(m) /\ h # 0
      BY HandleType DEF ServerInv, Good
    <2>2. CASE m.pool.list[h].in_use
      <3>1. PICK i \in Live(m) : m.inst[i].vaddr_handle = h
        BY <2>1, <2>2 DEF Leases
      <3>2. S = {i}
        BY <2>1, <3>1 DEF Leases
      <3>3. Cardinality({i}) = 1
        BY FS_Singleton
      <3> QED
        BY <2>2, <3>2, <3>3, LiveIsLive
    <2>3. CASE ~m.pool.list[h].in_use
      <3>1. S = {}
        BY <2>1, <2>3 DEF Leases
      <3> QED
        BY <2>3, <3>1, FS_EmptySet, LiveIsLive
    <2> QED
      BY <2>2, <2>3
  <1> QED
    BY <1>1, ServerKeepsInv, PTL

\* What a cached route still answers is what the network routes answer now
\* (++cache_generation of mroute_helper_add_iroute and _del_iroute).
THEOREM ServerCache == Spec => []CacheCoherent
  <1>1. ServerInv => CacheCoherent
    <2> SUFFICES ASSUME ServerInv, NEW a \in Hosts,
                        m.vhash[a] # NULL, m.vhash[a].kind = "cached"
                 PROVE  RouteOwner(m, a) \in {NULL, NetOwner(m, a)}
      BY DEF CacheCoherent
    <2>1. m \in Context /\ Counts(m) /\ CachedRoute(m, a) /\ a \in Addr
      BY DEF ServerInv, Good, Routing, Addr
    <2>2. m.vhash[a].instance \in Inst /\ m.inst[m.vhash[a].instance] # NULL
      BY <2>1 DEF Context, Route, Counts, CountsWith
    <2> QED
      BY <2>1, <2>2 DEF RouteOwner, multi_route_defined, CachedRoute, Live
  <1> QED
    BY <1>1, ServerKeepsInv, PTL

\* The lengths that are searched are those of the networks of the clients that
\* are not closed: a route is never passed over, and no length stays for
\* nothing (mroute_helper_add_iroute, multi_del_iroutes).
THEOREM ServerLengths == Spec => []LengthsInUse
  <1>1. ServerInv => LengthsInUse
    <2>1. ASSUME ServerInv PROVE Lengths(m)
      BY <2>1 DEF ServerInv, Good
    <2> QED
      BY <2>1, LiveIsLive DEF Lengths, LengthsInUse, AllOfLength
  <1> QED
    BY <1>1, ServerKeepsInv, PTL

\* What is sent to an address of the pool goes to the client that has it, if
\* the configuration gives the addresses of the pool to nobody else
\* (multi_learn_addr, after the other instances of the client were closed).
THEOREM ServerAddresses == AddressPlan => (Spec => []AddressRoutes)
  <1> SUFFICES ASSUME AddressPlan PROVE Spec => []AddressRoutes
    OBVIOUS
  <1>1. ServerInv => AddressRoutes
    <2> SUFFICES ASSUME ServerInv, NEW i \in LiveInst, m.inst[i].did_iroutes,
                        m.inst[i].vaddr_handle # 0
                 PROVE  Owner(m, PoolAddr[m.inst[i].vaddr_handle]) = i
      BY DEF AddressRoutes
    <2> DEFINE h == m.inst[i].vaddr_handle
               c == PoolAddr[h]
               e == [instance |-> i, kind |-> "host"]
    <2>1. i \in Live(m) /\ m \in Context /\ Addressed(m)
      BY LiveIsLive DEF ServerInv, Good
    <2>2. i \in Inst /\ m.inst[i] \in Instance /\ ~m.inst[i].halt
      BY <2>1 DEF Live, Context
    <2>3. h \in Handle
      BY <2>2 DEF Instance
    <2>4. c \in Addr /\ c # Local
      BY <2>3, MultiAssumption DEF AddressPlan, Addr
    <2>5. m.vhash[c] = e
      BY <2>1 DEF Addressed
    <2>6. e # NULL
      BY <2>2, MultiAssumption DEF Route
    <2> HIDE DEF h, c
    <2>7. multi_route_defined(m, c)
      BY <2>2, <2>5, <2>6 DEF multi_route_defined
    <2> QED
      BY <2>4, <2>5, <2>7 DEF Owner, c, h
  <1> QED
    BY <1>1, ServerKeepsInv, PTL

\* An address that the read-only file gives to a client by name goes to no
\* other, unless --duplicate-cn makes names mean nothing (ifconfig_pool_find).
THEOREM ServerFixed == ~DuplicateCN => (Spec => []FixedForOne)
  <1> SUFFICES ASSUME ~DuplicateCN PROVE Spec => []FixedForOne
    OBVIOUS
  <1>1. ServerInv => FixedForOne
    <2> SUFFICES ASSUME ServerInv, NEW i \in LiveInst, readonly,
                        m.inst[i].vaddr_handle # 0,
                        FixedFile[m.inst[i].vaddr_handle] # NoName
                 PROVE  m.inst[i].locked_cn = FixedFile[m.inst[i].vaddr_handle]
      BY DEF FixedForOne
    <2> DEFINE h == m.inst[i].vaddr_handle
    <2>1. /\ i \in Live(m) /\ m \in Context /\ Clients(m) /\ Leases(m)
          /\ Fixed(m, readonly)
      BY LiveIsLive DEF ServerInv, Good
    <2>2. h \in Handle
      BY <2>1 DEF Live, Context, Instance
    <2>3. m.pool.list[h].common_name \in {FixedFile[h], NoName}
      BY <2>1, <2>2 DEF Fixed
    <2>4. m.pool.list[h].common_name = m.inst[i].locked_cn
      BY <2>1 DEF Leases
    <2>5. m.inst[i].locked_cn \in CN
      BY <2>1 DEF Clients
    <2> QED
      BY <2>3, <2>4, <2>5, MultiAssumption
  <1> QED
    BY <1>1, ServerKeepsInv, PTL

-----------------------------------------------------------------------------
(* A client that connects again: the way of its address.                   *)

\* Of the instances but i, those that are left have the addresses they had.
SameLeases(s, t, i) ==
    \A j \in Live(t) \ {i} :
        j \in Live(s) /\ t.inst[j].vaddr_handle = s.inst[j].vaddr_handle

\* The name is locked.
LEMMA LockLease ==
    ASSUME NEW s \in Context, NEW i \in Live(s)
    PROVE  LET t == [s EXCEPT !.inst[i].locked_cn = s.inst[i].common_name,
                              !.inst[i].connection_established_flag = TRUE]
           IN  /\ t.pool = s.pool /\ \A j \in Inst \ {i} : t.inst[j] = s.inst[j]
               /\ t.inst[i].locked_cn = s.inst[i].common_name
               /\ t.inst[i].common_name = s.inst[i].common_name
               /\ t.inst[i].vaddr_handle = s.inst[i].vaddr_handle
  <1> DEFINE x == s.inst[i]
             y == [x EXCEPT !.locked_cn = x.common_name,
                            !.connection_established_flag = TRUE]
             t == [s EXCEPT !.inst[i] = y]
             c == [s EXCEPT !.inst[i].locked_cn = s.inst[i].common_name,
                            !.inst[i].connection_established_flag = TRUE]
  <1>1. i \in Inst /\ x \in Instance
    BY DEF Live, Context
  <1>2. /\ y \in Instance /\ y.locked_cn = x.common_name
        /\ y.vaddr_handle = x.vaddr_handle /\ y.common_name = x.common_name
    BY <1>1 DEF Instance
  <1>3. c = t
    BY <1>1 DEF Context
  <1> HIDE DEF y, t, c
  <1>4. t \in Context /\ t.inst = [s.inst EXCEPT ![i] = y] /\ t.pool = s.pool
    BY <1>1, <1>2, ChangedInst DEF t
  <1>5. t.inst[i] = y /\ \A j \in Inst \ {i} : t.inst[j] = s.inst[j]
    BY <1>1, <1>4 DEF Context
  <1>6. /\ c.pool = s.pool /\ \A j \in Inst \ {i} : c.inst[j] = s.inst[j]
        /\ c.inst[i].locked_cn = s.inst[i].common_name
        /\ c.inst[i].common_name = s.inst[i].common_name
        /\ c.inst[i].vaddr_handle = s.inst[i].vaddr_handle
    BY <1>2, <1>3, <1>4, <1>5
  <1> QED
    BY <1>6 DEF c

\* The address is selected: that of the file is none of the pool.
LEMMA SelectLease ==
    ASSUME NEW s \in Context, NEW i \in Live(s), NEW static \in BOOLEAN, ~DuplicateCN
    PROVE  LET t == multi_select_virtual_addr(s, i, static)
           IN  /\ \A j \in Inst \ {i} : t.inst[j] = s.inst[j]
               /\ t.inst[i].locked_cn = s.inst[i].locked_cn
               /\ static => t.inst[i].vaddr_handle = 0
               /\ t.inst[i].vaddr_handle
                    \in {0, s.inst[i].vaddr_handle}
                        \cup ifconfig_pool_find(s.pool, s.inst[i].locked_cn)
  <1> DEFINE x == s.inst[i]
             cn == x.locked_cn
             found == ifconfig_pool_find(s.pool, cn)
             t == multi_select_virtual_addr(s, i, static)
  <1>1. i \in Inst /\ x \in Instance
    BY DEF Live, Context
  <1>2. ASSUME NEW h, NEW a, NEW p,
               t = [s EXCEPT !.inst[i].vaddr_handle = h, !.inst[i].addr = a, !.pool = p]
        PROVE  /\ \A j \in Inst \ {i} : t.inst[j] = s.inst[j]
               /\ t.inst[i].locked_cn = s.inst[i].locked_cn
               /\ t.inst[i].vaddr_handle = h
    <2> DEFINE y == [x EXCEPT !.vaddr_handle = h, !.addr = a]
    <2>1. y.locked_cn = x.locked_cn /\ y.vaddr_handle = h
      BY <1>1 DEF Instance
    <2>2. t = [s EXCEPT !.inst = [s.inst EXCEPT ![i] = y], !.pool = p]
      <3> HIDE DEF t
      <3> QED
        BY <1>1, <1>2 DEF Context
    <2> HIDE DEF y, t
    <2>3. t.inst[i] = y /\ \A j \in Inst \ {i} : t.inst[j] = s.inst[j]
      BY <1>1, <2>2 DEF Context
    <2> QED
      BY <2>1, <2>3
  <1>3. CASE static
    <2> DEFINE p == ifconfig_pool_release(s.pool, x.vaddr_handle, TRUE)
    <2>1. t = [s EXCEPT !.inst[i].vaddr_handle = 0, !.inst[i].addr = StaticAddr[cn],
                        !.pool = p]
      BY <1>3, <1>1 DEF multi_select_virtual_addr, Context
    <2> HIDE DEF t, p
    <2>2. /\ \A j \in Inst \ {i} : t.inst[j] = s.inst[j]
          /\ t.inst[i].locked_cn = s.inst[i].locked_cn
          /\ t.inst[i].vaddr_handle = 0
      BY <1>2, <2>1
    <2> QED
      BY <1>3, <2>2 DEF t
  <1>4. CASE ~static /\ x.vaddr_handle = 0 /\ found # {}
    <2> DEFINE h == CHOOSE h \in found : TRUE
               a == PoolAddr[h]
               p == Acquired(s.pool, h, cn)
    <2>1. h \in found
      BY <1>4
    <2>2. t = [s EXCEPT !.inst[i].vaddr_handle = h, !.inst[i].addr = a, !.pool = p]
      BY <1>1, <1>4 DEF multi_select_virtual_addr, Context
    <2> HIDE DEF t, p, a, h
    <2>3. /\ \A j \in Inst \ {i} : t.inst[j] = s.inst[j]
          /\ t.inst[i].locked_cn = s.inst[i].locked_cn
          /\ t.inst[i].vaddr_handle = h
      BY <1>2, <2>2
    <2> QED
      BY <1>4, <2>1, <2>3 DEF t
  <1>5. CASE ~static /\ ~(x.vaddr_handle = 0 /\ found # {})
    <2>1. t = s
      BY <1>5 DEF multi_select_virtual_addr
    <2> QED
      BY <1>5, <2>1
  <1> QED
    BY <1>3, <1>4, <1>5

\* The routes of the client change no address of the pool.
LEMMA IroutesLease ==
    ASSUME NEW s \in Context, NEW ro, Good(s, ro), NEW i \in Live(s),
           s.inst[i].connection_established_flag, ~s.inst[i].did_iroutes
    PROVE  LET t == multi_add_iroutes(s, i)
           IN  /\ SameLeases(s, t, i)
               /\ t.inst[i].locked_cn = s.inst[i].locked_cn
               /\ t.inst[i].vaddr_handle = s.inst[i].vaddr_handle
  <1> DEFINE x == s.inst[i]
             cn == x.locked_cn
             seq == IRoutes[cn]
             t == multi_add_iroutes(s, i)
             u == [s EXCEPT !.inst[i].did_iroutes = TRUE]
             y == [x EXCEPT !.did_iroutes = TRUE]
  <1>1. Counts(s) /\ Routing(s) /\ Clients(s)
    BY DEF Good
  <1>2. i \in Inst /\ x \in Instance /\ x # NULL /\ ~x.halt /\ cn \in CN
    BY <1>1 DEF Live, Context, Clients
  <1>3. /\ y \in Instance /\ y.halt = x.halt /\ y.vaddr_handle = x.vaddr_handle
        /\ y.locked_cn = x.locked_cn
    BY <1>2 DEF Instance
  <1>4. /\ t \in Context /\ u \in Context
        /\ u.inst = [s.inst EXCEPT ![i] = y]
        /\ WithIroutes(u, t, i, seq, Len(seq))
    BY <1>1, <1>2, AddIroutes
  <1> HIDE DEF t, u, y
  <1>5. u.inst[i] = y /\ \A j \in Inst \ {i} : u.inst[j] = s.inst[j]
    BY <1>2, <1>4 DEF Context
  <1>6. y # NULL
    BY <1>3, NullInst
  <1>7. Live(u) = Live(s) /\ Live(s) \subseteq Inst
    BY <1>2, <1>3, <1>5, <1>6 DEF Live
  <1>8. SameButRoutes(u, t)
    BY <1>4 DEF WithIroutes
  <1>9. Live(t) = Live(s) /\ \A j \in Live(s) : SameClient(u.inst[j], t.inst[j])
    BY <1>4, <1>7, <1>8, SameButRoutesLive DEF SameButRoutes
  <1>10. SameLeases(s, t, i)
    BY <1>5, <1>7, <1>9 DEF SameLeases, SameClient
  <1>11. t.inst[i].locked_cn = x.locked_cn /\ t.inst[i].vaddr_handle = x.vaddr_handle
    BY <1>3, <1>5, <1>9 DEF SameClient
  <1> QED
    BY <1>10, <1>11 DEF t

\* What an instance gets that connects.
Gets(s, t, i) ==
    /\ SameLeases(s, t, i)
    /\ t.inst[i].locked_cn = s.inst[i].common_name
    /\ t.inst[i].vaddr_handle # 0 =>
        \A j \in Live(s) \ {i} :
            s.inst[j].vaddr_handle # 0 /\ s.inst[j].common_name = s.inst[i].common_name
            => s.pool.list[t.inst[i].vaddr_handle].common_name = s.inst[i].common_name

\* A client that connects while another instance of it has an address gets one
\* that the pool knows as its own, or none of the pool: the other instance is
\* closed before the pool is asked.
LEMMA ConnectLease ==
    ASSUME NEW s \in Context, NEW ro, Good(s, ro), ~DuplicateCN, NEW i \in Live(s),
           ~s.inst[i].connection_established_flag, s.inst[i].common_name # NULL,
           NEW how \in {"pool", "fail", "file", "script"}
    PROVE  Gets(s, multi_connection_established(s, i, how), i)
  <1> DEFINE cn == s.inst[i].common_name
             locked == [s EXCEPT !.inst[i].locked_cn = s.inst[i].common_name,
                                 !.inst[i].connection_established_flag = TRUE]
             S == Named(locked, locked.inst[i].common_name) \ {i}
             alone == multi_delete_dup(locked, i)
             file == how = "file"
             static == TRUE
             first == multi_select_virtual_addr(alone, i, file)
             second == multi_select_virtual_addr(first, i, static)
             final == IF how = "script" THEN second ELSE first
             learned == multi_learn_addr(final, i, final.inst[i].addr, "host")
             routed == IF final.inst[i].addr = NULL THEN final ELSE learned
             whole == multi_add_iroutes(routed, i)
             t == multi_connection_established(s, i, how)
  <1>1. t = IF how = "fail" THEN first ELSE whole
    BY DEF multi_connection_established
  <1>2. file \in BOOLEAN /\ static \in BOOLEAN /\ static
    OBVIOUS
  <1>3. file <=> how = "file"
    OBVIOUS
  <1> HIDE DEF t, file, static
  <1>4. locked \in Context /\ Good(locked, ro) /\ i \in Live(locked) /\ Fresh(locked, i)
    BY LockGood
  <1>5. /\ locked.pool = s.pool /\ \A j \in Inst \ {i} : locked.inst[j] = s.inst[j]
        /\ locked.inst[i].locked_cn = cn /\ locked.inst[i].common_name = cn
        /\ locked.inst[i].vaddr_handle = s.inst[i].vaddr_handle
    BY LockLease
  <1>6. s.inst[i].vaddr_handle = 0 /\ Clients(s) /\ Leases(s)
    BY DEF Good, Clients
  <1>7. cn \in CN
    BY DEF Live, Context, Instance
  <1> HIDE DEF locked
  <1>8. alone \in Context /\ Good(alone, ro) /\ i \in Live(alone) /\ Fresh(alone, i)
    BY <1>4, DuplicatesGood
  <1>9. Closed(locked, alone, Live(locked) \ S)
    <2> DEFINE a == CloseAll(locked, S)
    <2>1. alone = a
      BY DEF multi_delete_dup
    <2> HIDE DEF S, a, alone
    <2>2. Closed(locked, a, Live(locked) \ S)
      BY <1>4, CloseFold DEF a
    <2> QED
      BY <2>1, <2>2
  <1>10. S = {j \in Live(locked) : locked.inst[j].common_name = cn} \ {i}
    BY <1>4, <1>5 DEF Named, Good, Links
  <1> HIDE DEF alone, S
  <1>11. /\ Live(alone) = Live(locked) \ S
         /\ \A j \in Live(alone) : alone.inst[j] = locked.inst[j]
         /\ \A g \in Handle : alone.pool.list[g].common_name = s.pool.list[g].common_name
    BY <1>5, <1>9 DEF Closed
  <1>12. Live(locked) \ {i} = Live(s) \ {i}
    BY <1>5 DEF Live
  <1>13. /\ SameLeases(s, alone, i) /\ alone.inst[i].vaddr_handle = 0
         /\ alone.inst[i].locked_cn = cn
    <2>1. ASSUME NEW j \in Live(alone) \ {i}
          PROVE  j \in Live(s) /\ alone.inst[j].vaddr_handle = s.inst[j].vaddr_handle
      BY <1>5, <1>11, <1>12 DEF Live
    <2> QED
      BY <1>5, <1>6, <1>8, <1>11, <2>1 DEF SameLeases
  <1>14. first \in Context /\ Good(first, ro) /\ i \in Live(first) /\ Fresh(first, i)
    BY <1>2, <1>8, SelectGood
  <1>15. /\ \A j \in Inst \ {i} : first.inst[j] = alone.inst[j]
         /\ first.inst[i].locked_cn = alone.inst[i].locked_cn
         /\ file => first.inst[i].vaddr_handle = 0
         /\ first.inst[i].vaddr_handle
                \in {0, alone.inst[i].vaddr_handle}
                    \cup ifconfig_pool_find(alone.pool, alone.inst[i].locked_cn)
    BY <1>2, <1>8, SelectLease
  <1> HIDE DEF first
  <1>16. second \in Context /\ Good(second, ro) /\ i \in Live(second) /\ Fresh(second, i)
    BY <1>2, <1>14, SelectGood
  <1>17. /\ \A j \in Inst \ {i} : second.inst[j] = first.inst[j]
         /\ second.inst[i].locked_cn = first.inst[i].locked_cn
         /\ static => second.inst[i].vaddr_handle = 0
    BY <1>2, <1>14, SelectLease
  <1> HIDE DEF second
  <1>18. /\ final \in Context /\ Good(final, ro) /\ i \in Live(final) /\ Fresh(final, i)
         /\ \A j \in Inst \ {i} : final.inst[j] = alone.inst[j]
         /\ final.inst[i].locked_cn = cn
         /\ final.inst[i].vaddr_handle \in {0} \cup ifconfig_pool_find(alone.pool, cn)
    BY <1>2, <1>13, <1>14, <1>15, <1>16, <1>17
  <1>19. /\ first.inst[i].locked_cn = cn
         /\ first.inst[i].vaddr_handle \in {0} \cup ifconfig_pool_find(alone.pool, cn)
    BY <1>13, <1>15
  <1> HIDE DEF final
  <1>20. SameLeases(s, first, i) /\ SameLeases(s, final, i)
    BY <1>13, <1>15, <1>18 DEF SameLeases, Live
  <1>21. /\ routed \in Context /\ Good(routed, ro) /\ i \in Live(routed)
         /\ routed.inst[i].connection_established_flag /\ ~routed.inst[i].did_iroutes
         /\ SameLeases(s, routed, i) /\ routed.inst[i].locked_cn = cn
         /\ routed.inst[i].vaddr_handle = final.inst[i].vaddr_handle
    <2>1. CASE final.inst[i].addr = NULL
      <3>1. routed = final
        BY <2>1
      <3> HIDE DEF routed
      <3> QED
        BY <1>18, <1>20, <3>1 DEF Fresh
    <2>2. CASE final.inst[i].addr # NULL
      <3>1. /\ learned \in Context /\ Good(learned, ro) /\ Live(learned) = Live(final)
            /\ SameClient(final.inst[i], learned.inst[i])
        BY <1>18, <2>2, AddressLearned
      <3>2. \A j \in Live(final) : SameClient(final.inst[j], learned.inst[j])
        <4> DEFINE a == final.inst[i].addr
        <4>1. a \in Addr /\ Counts(final)
          BY <1>18, <2>2 DEF Addr, Context, Live, Instance, Good
        <4> HIDE DEF a
        <4>2. LET u == multi_learn_addr(final, i, a, "host")
              IN  u \in Context /\ SameButRoutes(final, u)
          BY <1>18, <4>1, LearnAddr
        <4> QED
          BY <4>2 DEF a, SameButRoutes, Live
      <3>3. routed = learned
        BY <2>2
      <3> HIDE DEF routed, learned
      <3> QED
        BY <1>18, <1>20, <3>1, <3>2, <3>3 DEF SameClient, Fresh, SameLeases
    <2> QED
      BY <2>1, <2>2
  <1> HIDE DEF routed
  <1>22. /\ SameLeases(routed, whole, i) /\ whole.inst[i].locked_cn = routed.inst[i].locked_cn
         /\ whole.inst[i].vaddr_handle = routed.inst[i].vaddr_handle
    BY <1>21, IroutesLease
  <1> HIDE DEF whole
  <1>23. SameLeases(s, whole, i)
    BY <1>21, <1>22 DEF SameLeases
  <1>24. /\ SameLeases(s, t, i) /\ t.inst[i].locked_cn = cn
         /\ t.inst[i].vaddr_handle \in {0} \cup ifconfig_pool_find(alone.pool, cn)
    BY <1>1, <1>18, <1>19, <1>20, <1>21, <1>22, <1>23
  <1>25. ASSUME t.inst[i].vaddr_handle # 0, NEW j \in Live(s) \ {i},
                s.inst[j].vaddr_handle # 0, s.inst[j].common_name = cn
         PROVE  s.pool.list[t.inst[i].vaddr_handle].common_name = cn
    <2> DEFINE h == t.inst[i].vaddr_handle
               g == s.inst[j].vaddr_handle
    <2>1. h \in ifconfig_pool_find(alone.pool, cn)
      BY <1>24, <1>25
    <2>2. g \in Handle
      BY <1>25 DEF Live, Context, Instance
    <2>3. s.pool.list[g].common_name = cn
      <3>1. s.pool.list[g].common_name = s.inst[j].locked_cn
        BY <1>6, <1>25 DEF Leases
      <3>2. s.inst[j].common_name \in {s.inst[j].locked_cn, NULL}
        BY <1>6, <1>25 DEF Clients
      <3> QED
        BY <1>7, <1>25, <3>1, <3>2, MultiAssumption
    <2>4. ~alone.pool.list[g].in_use
      <3> SUFFICES ASSUME alone.pool.list[g].in_use PROVE FALSE
        OBVIOUS
      <3>1. PICK k \in Live(alone) : alone.inst[k].vaddr_handle = g
        BY <1>8, <2>2 DEF Good, Leases
      <3>2. k # i
        BY <1>13, <1>25, <3>1
      <3>3. k \in Live(s) /\ s.inst[k].vaddr_handle = g
        BY <1>13, <3>1, <3>2 DEF SameLeases
      <3>4. k = j
        BY <1>6, <1>25, <3>3 DEF Leases
      <3>5. j \in S
        BY <1>5, <1>10, <1>12, <1>25 DEF Live
      <3> QED
        BY <1>11, <3>1, <3>4, <3>5
    <2> HIDE DEF h, g
    <2>5. cn # NoName
      BY <1>7, MultiAssumption
    <2>6. alone.pool.list[g].common_name = cn
      BY <1>11, <2>2, <2>3
    <2> DEFINE p == alone.pool
    <2>7. h \in ifconfig_pool_find(p, cn) /\ ~p.list[g].in_use /\ p.list[g].common_name = cn
      BY <2>1, <2>4, <2>6
    <2> HIDE DEF p, cn
    <2>8. h \in Handle /\ p.list[h].common_name = cn
      BY <2>2, <2>5, <2>7, PoolFind
    <2>9. s.pool.list[h].common_name = cn
      BY <1>11, <2>8 DEF p
    <2> QED
      BY <2>9 DEF h
  <1> QED
    BY <1>24, <1>25 DEF t, Gets

\* SameAddress, of a step from s to w.
Regains(s, w) ==
    \A i \in Live(s), j \in Live(w) :
        /\ j # i /\ s.inst[i].vaddr_handle # 0
        /\ s.inst[i].common_name = w.inst[j].locked_cn
        /\ ~(j \in Live(s) /\ s.inst[j].connection_established_flag)
        /\ w.inst[j].vaddr_handle # 0
        => s.pool.list[w.inst[j].vaddr_handle].common_name = s.inst[i].common_name

\* From s to t the pool stays, and so do the clients; who is new has no name.
Follows(s, t) ==
    /\ t.pool = s.pool
    /\ \A i \in Live(s) :
        /\ i \in Live(t) /\ t.inst[i].vaddr_handle = s.inst[i].vaddr_handle
        /\ t.inst[i].common_name = s.inst[i].common_name
        /\ t.inst[i].connection_established_flag = s.inst[i].connection_established_flag
    /\ \A j \in Live(t) \ Live(s) : ~t.inst[j].connection_established_flag

LEMMA FollowsTrans ==
    ASSUME NEW s, NEW t, NEW u, Follows(s, t), Follows(t, u)
    PROVE  Follows(s, u)
  BY DEF Follows

LEMMA FollowsRoutes ==
    ASSUME NEW s \in Context, NEW t \in Context, SameButRoutes(s, t)
    PROVE  Follows(s, t)
  <1>1. Live(t) = Live(s)
    BY SameButRoutesLive
  <1>2. \A i \in Live(s) : SameClient(s.inst[i], t.inst[i])
    BY DEF SameButRoutes, Live
  <1> QED
    BY <1>1, <1>2 DEF Follows, SameButRoutes, SameClient

LEMMA FollowsSame ==
    ASSUME NEW s, NEW t, t.inst = s.inst, t.pool = s.pool
    PROVE  Follows(s, t)
  BY DEF Follows, Live

LEMMA RegainsAfter ==
    ASSUME NEW s, NEW t, NEW w, Follows(s, t), Regains(t, w)
    PROVE  Regains(s, w)
  <1> SUFFICES ASSUME NEW i \in Live(s), NEW j \in Live(w), j # i,
                      s.inst[i].vaddr_handle # 0,
                      s.inst[i].common_name = w.inst[j].locked_cn,
                      ~(j \in Live(s) /\ s.inst[j].connection_established_flag),
                      w.inst[j].vaddr_handle # 0
               PROVE  s.pool.list[w.inst[j].vaddr_handle].common_name
                        = s.inst[i].common_name
    BY DEF Regains
  <1>1. /\ i \in Live(t) /\ t.inst[i].vaddr_handle # 0
        /\ t.inst[i].common_name = s.inst[i].common_name
        /\ t.pool = s.pool
    BY DEF Follows
  <1>2. ~(j \in Live(t) /\ t.inst[j].connection_established_flag)
    BY DEF Follows
  <1> QED
    BY <1>1, <1>2 DEF Regains

\* Who has no name has no address.
LEMMA RegainsSelf ==
    ASSUME NEW s, Clients(s)
    PROVE  Regains(s, s)
  BY DEF Regains, Clients

LEMMA RegainsLeft ==
    ASSUME NEW s, NEW w, Clients(s),
           \A j \in Live(w) : j \in Live(s) /\ w.inst[j] = s.inst[j]
    PROVE  Regains(s, w)
  BY DEF Regains, Clients

\* The TLS layer leaves another name, and nothing else.
LEMMA SelectedLease ==
    ASSUME NEW s \in Context, NEW i \in Live(s), NEW t \in Selected(s, i)
    PROVE  /\ t.pool = s.pool /\ \A j \in Inst \ {i} : t.inst[j] = s.inst[j]
           /\ t.inst[i].vaddr_handle = s.inst[i].vaddr_handle
           /\ t.inst[i].connection_established_flag
                = s.inst[i].connection_established_flag
           /\ i \in Live(t)
  <1>1. PICK cn \in Verified(s.inst[i]) :
            t = [s EXCEPT !.inst[i].common_name = cn, !.schedule = @ \cup {i}]
    BY DEF Selected
  <1> DEFINE x == s.inst[i]
             y == [x EXCEPT !.common_name = cn]
  <1>2. i \in Inst /\ x \in Instance /\ ~x.halt
    BY DEF Live, Context
  <1>3. cn \in CN \cup {NULL}
    BY <1>2 DEF Verified, Instance
  <1>4. /\ y \in Instance /\ y.vaddr_handle = x.vaddr_handle /\ y.halt = x.halt
        /\ y.connection_established_flag = x.connection_established_flag
    BY <1>2, <1>3 DEF Instance
  <1>5. t.inst = [s.inst EXCEPT ![i] = y] /\ t.pool = s.pool
    BY <1>1, <1>2 DEF Context
  <1> HIDE DEF y
  <1>6. t.inst[i] = y /\ \A j \in Inst \ {i} : t.inst[j] = s.inst[j]
    BY <1>2, <1>5 DEF Context
  <1>7. y # NULL
    BY <1>4, NullInst
  <1> QED
    BY <1>2, <1>4, <1>5, <1>6, <1>7 DEF Live

\* multi_process_post, in each of the ways it can end.
LEMMA PostRegains ==
    ASSUME NEW s \in Context, NEW ro, Good(s, ro), ~DuplicateCN, NEW i \in Live(s),
           NEW tun \in SUBSET (SUBSET {"tun"}), NEW w \in multi_process_post(s, i, tun)
    PROVE  Regains(s, w)
  <1> DEFINE selected == Selected(s, i)
             established == Established(selected, i)
             tuns == {SetPending(u, i, o \cup link) :
                        u \in selected \cup established, o \in tun,
                        link \in SUBSET {"link"}}
  <1>1. multi_process_post(s, i, tun) = {multi_close_instance(s, i)} \cup tuns
    BY DEF multi_process_post
  <1>2. Clients(s) /\ Live(s) \subseteq Inst
    BY DEF Good, Live
  <1>3. ASSUME NEW v \in selected
        PROVE  /\ v \in Context /\ Good(v, ro) /\ i \in Live(v)
               /\ v.pool = s.pool /\ \A j \in Inst \ {i} : v.inst[j] = s.inst[j]
               /\ v.inst[i].vaddr_handle = s.inst[i].vaddr_handle
               /\ v.inst[i].connection_established_flag
                    = s.inst[i].connection_established_flag
    <2>1. PICK cn \in Verified(s.inst[i]) :
                v = [s EXCEPT !.inst[i].common_name = cn, !.schedule = @ \cup {i}]
      BY <1>3 DEF Selected
    <2>2. v \in Context /\ Good(v, ro) /\ i \in Live(v)
      BY <2>1, SelectedGood
    <2> QED
      BY <1>3, <2>2, SelectedLease
  <1> HIDE DEF selected
  <1>4. ASSUME NEW v \in selected PROVE Regains(s, v)
    <2> SUFFICES ASSUME NEW j \in Live(v),
                        ~(j \in Live(s) /\ s.inst[j].connection_established_flag),
                        v.inst[j].vaddr_handle # 0
                 PROVE  FALSE
      BY DEF Regains
    <2>1. j \in Live(s) /\ v.inst[j].vaddr_handle = s.inst[j].vaddr_handle
      BY <1>3 DEF Live
    <2> QED
      BY <1>2, <2>1 DEF Clients
  <1>5. ASSUME NEW u \in established PROVE Regains(s, u)
    <2>1. PICK v \in selected :
            /\ ~v.inst[i].connection_established_flag
            /\ v.inst[i].common_name # NULL
            /\ \E how \in Sourced(v.inst[i].common_name) :
                    u = multi_connection_established(v, i, how)
      BY <1>5 DEF Established
    <2>2. PICK how \in Sourced(v.inst[i].common_name) :
                u = multi_connection_established(v, i, how)
      BY <2>1
    <2>3. how \in {"pool", "fail", "file", "script"}
      BY DEF Sourced
    <2>4. /\ v \in Context /\ Good(v, ro) /\ i \in Live(v)
          /\ v.pool = s.pool /\ \A j \in Inst \ {i} : v.inst[j] = s.inst[j]
      BY <1>3
    <2> DEFINE t == multi_connection_established(v, i, how)
    <2>5. Gets(v, t, i)
      BY <2>1, <2>3, <2>4, ConnectLease
    <2> HIDE DEF t
    <2>6. SUFFICES ASSUME NEW k \in Live(s), NEW j \in Live(t), j # k,
                        s.inst[k].vaddr_handle # 0,
                        s.inst[k].common_name = t.inst[j].locked_cn,
                        ~(j \in Live(s) /\ s.inst[j].connection_established_flag),
                        t.inst[j].vaddr_handle # 0
                 PROVE  s.pool.list[t.inst[j].vaddr_handle].common_name
                            = s.inst[k].common_name
      BY <2>2 DEF Regains, t
    <2>7. CASE j # i
      <3>1. j \in Live(v) /\ t.inst[j].vaddr_handle = v.inst[j].vaddr_handle
        BY <2>5, <2>7 DEF SameLeases, Gets
      <3>2. j \in Live(s) /\ v.inst[j].vaddr_handle = s.inst[j].vaddr_handle
        BY <2>4, <2>7, <3>1 DEF Live
      <3> QED
        BY <1>2, <2>6, <3>1, <3>2 DEF Clients
    <2>8. CASE j = i
      <3>1. k \in Live(v) \ {i} /\ v.inst[k] = s.inst[k]
        BY <1>2, <2>4, <2>6, <2>8 DEF Live
      <3> QED
        BY <2>4, <2>5, <2>6, <2>8, <3>1 DEF Gets
    <2> QED
      BY <2>7, <2>8
  <1> HIDE DEF established
  <1>6. CASE w = multi_close_instance(s, i)
    <2> DEFINE c == multi_close_instance(s, i)
    <2>1. Closed(s, c, Live(s) \ {i})
      BY CloseStep
    <2> HIDE DEF c
    <2>2. Regains(s, c)
      BY <1>2, <2>1, RegainsLeft DEF Closed
    <2> QED
      BY <1>6, <2>2 DEF c
  <1>7. ASSUME NEW u \in selected \cup established, NEW o, w = SetPending(u, i, o)
        PROVE  Regains(s, w)
    <2>1. Regains(s, u)
      BY <1>4, <1>5
    <2>2. w.inst = u.inst
      BY <1>7 DEF SetPending
    <2> QED
      BY <2>1, <2>2 DEF Regains, Live
  <1>8. ASSUME w \in tuns PROVE Regains(s, w)
    <2>1. PICK u \in selected \cup established, o \in tun, link \in SUBSET {"link"} :
                w = SetPending(u, i, o \cup link)
      BY ONLY <1>8 DEF tuns
    <2> QED
      BY <1>7, <2>1
  <1> HIDE DEF tuns
  <1> QED
    BY <1>1, <1>6, <1>8

\* A packet on its way changes no client and no entry of the pool.
LEMMA BcastFollows ==
    ASSUME NEW s \in Context, NEW sender
    PROVE  Follows(s, multi_bcast(s, sender))
  <1> DEFINE t == multi_bcast(s, sender)
  <1>1. t.inst = s.inst /\ t.pool = s.pool
    BY DEF multi_bcast, Context
  <1> HIDE DEF t
  <1> QED
    BY <1>1, FollowsSame DEF t

LEMMA CachedFollows ==
    ASSUME NEW s \in Context, NEW ro, Good(s, ro), NEW a \in Hosts
    PROVE  Follows(s, Cached(s, a))
  <1> DEFINE t == Cached(s, a)
  <1>1. t \in Context /\ SameButRoutes(s, t)
    BY CachedGood
  <1> HIDE DEF t
  <1> QED
    BY <1>1, FollowsRoutes DEF t

LEMMA RoutedFollows ==
    ASSUME NEW s \in Context, NEW ro, Good(s, ro), NEW i, NEW dest \in Hosts \cup {"mcast"}
    PROVE  Follows(s, Routed(s, i, dest)[1])
  <1>1. CASE dest = "mcast"
    BY <1>1, BcastFollows DEF Routed
  <1>2. CASE dest # "mcast" /\ Owner(s, dest) # NULL
    <2> DEFINE c == Cached(s, dest)
               b == [c EXCEPT !.mbuf = mbuf_add_item(@, Owner(s, dest))]
    <2>1. Routed(s, i, dest)[1] = b
      BY <1>2 DEF Routed
    <2>2. Follows(s, c) /\ c \in Context
      BY <1>2, CachedFollows, CachedGood
    <2> HIDE DEF c
    <2>3. b.inst = c.inst /\ b.pool = c.pool
      BY <2>2 DEF Context
    <2> HIDE DEF b
    <2>4. Follows(c, b)
      BY <2>3, FollowsSame
    <2> QED
      BY <2>1, <2>2, <2>4, FollowsTrans
  <1>3. CASE dest # "mcast" /\ Owner(s, dest) = NULL
    BY <1>3, FollowsSame DEF Routed
  <1> QED
    BY <1>1, <1>2, <1>3

LEMMA CreateFollows ==
    ASSUME NEW s \in Context, NEW i \in Inst, s.inst[i] = NULL, NEW r \in Real
    PROVE  Follows(s, multi_create_instance(s, i, r))
  <1> DEFINE x == [real |-> r, halt |-> FALSE, refcount |-> 1,
                   route_count |-> 0, vaddr_handle |-> 0, addr |-> NULL,
                   common_name |-> NULL, locked_cn |-> NULL,
                   connection_established_flag |-> FALSE, did_iroutes |-> FALSE]
             t == multi_create_instance(s, i, r)
  <1>1. t.inst = [s.inst EXCEPT ![i] = x] /\ t.pool = s.pool
    BY DEF multi_create_instance, Context
  <1>2. ~x.connection_established_flag
    OBVIOUS
  <1> HIDE DEF t, x
  <1>3. t.inst[i] = x /\ \A j \in Inst \ {i} : t.inst[j] = s.inst[j]
    BY <1>1 DEF Context
  <1>4. i \notin Live(s) /\ Live(t) \ Live(s) \subseteq {i} /\ Live(s) \subseteq Live(t) \cap Inst
    BY <1>3 DEF Live
  <1> QED
    BY <1>1, <1>2, <1>3, <1>4 DEF Follows, t

\* The steps that serve an instance, from a state that follows.
LEMMA ServedRegains ==
    ASSUME NEW s, NEW t \in Context, NEW ro, Good(t, ro), ~DuplicateCN, Follows(s, t),
           NEW i \in Live(t), NEW tun \in SUBSET (SUBSET {"tun"}),
           NEW w \in multi_process_post(t, i, tun)
    PROVE  Regains(s, w)
  <1>1. Regains(t, w)
    BY PostRegains
  <1> QED
    BY <1>1, RegainsAfter

LEMMA KeptRegains ==
    ASSUME NEW s, NEW w, NEW ro, Good(w, ro), Follows(s, w)
    PROVE  Regains(s, w)
  <1>1. Regains(w, w)
    BY RegainsSelf DEF Good
  <1> QED
    BY <1>1, RegainsAfter

\* Each action, in the order of Next.
LEMMA ControlRegains ==
    ASSUME ServerInv, ~DuplicateCN, SocketReadControl
    PROVE  Regains(m, m')
  <1> DEFINE ro == readonly
  <1>1. m \in Context /\ Good(m, ro)
    BY DEF ServerInv
  <1>2. PICK r \in Real : \E p \in From(r) : m' \in multi_process_post(p[1], p[2], {{}})
    BY DEF SocketReadControl
  <1>3. PICK p \in From(r) : m' \in multi_process_post(p[1], p[2], {{}})
    BY <1>2
  <1> HIDE DEF ro
  <1> DEFINE s == p[1]
             i == p[2]
             tun == {{}}
  <1>4. s \in Context /\ Good(s, ro) /\ i \in Live(s) /\ Follows(m, s)
    <2>1. CASE m.hash[r] # NULL
      <3>1. p = <<m, m.hash[r]>>
        BY <2>1 DEF From
      <3> QED
        BY <1>1, <2>1, <3>1, FollowsSame DEF Good, Links
    <2>2. CASE m.hash[r] = NULL
      <3>1. PICK k \in Free : p = <<multi_create_instance(m, k, r), k>>
        BY <2>2 DEF From
      <3> DEFINE t == multi_create_instance(m, k, r)
      <3>2. k \in Inst /\ m.inst[k] = NULL
        BY DEF Free
      <3>3. t \in Context /\ Good(t, ro) /\ k \in Live(t)
        BY <1>1, <2>2, <3>2, CreateGood
      <3>4. Follows(m, t)
        BY <1>1, <3>2, CreateFollows
      <3> HIDE DEF t
      <3> QED
        BY <3>1, <3>3, <3>4 DEF t
    <2> QED
      BY <2>1, <2>2
  <1>5. m' \in multi_process_post(s, i, tun) /\ tun \in SUBSET (SUBSET {"tun"})
    BY <1>3
  <1> HIDE DEF s, i, tun
  <1> QED
    BY <1>4, <1>5, ServedRegains

LEMMA DataRegains ==
    ASSUME ServerInv, ~DuplicateCN, SocketReadData
    PROVE  Regains(m, m')
  <1> DEFINE ro == readonly
  <1>1. m \in Context /\ Good(m, ro)
    BY DEF ServerInv
  <1>2. PICK i \in ToSet(m.iter) : \E p \in Tunnelled(i) :
            m' \in multi_process_post(p[1], i, {p[2]})
    BY DEF SocketReadData
  <1>3. PICK p \in Tunnelled(i) : m' \in multi_process_post(p[1], i, {p[2]})
    BY <1>2
  <1> HIDE DEF ro
  <1>4. i \in Live(m)
    BY <1>1 DEF Good, Links
  <1>5. PICK src \in Hosts, dest \in Hosts \cup {"mcast"} :
            p \in {Routed(Cached(m, src), i, dest), <<Cached(m, src), {}>>}
    BY DEF Tunnelled
  <1> DEFINE c == Cached(m, src)
             s == p[1]
             tun == {p[2]}
  <1>6. c \in Context /\ Good(c, ro) /\ Live(c) = Live(m) /\ Follows(m, c)
    BY <1>1, CachedGood, CachedFollows
  <1>7. p \in {Routed(c, i, dest), <<c, {}>>}
    BY <1>5
  <1> HIDE DEF c
  <1>8. /\ s \in Context /\ Good(s, ro) /\ Live(s) = Live(c) /\ Follows(c, s)
        /\ tun \in SUBSET (SUBSET {"tun"})
    <2>1. CASE p = <<c, {}>>
      BY <1>6, <2>1, FollowsSame
    <2>2. CASE p = Routed(c, i, dest)
      BY <1>6, <2>2, RoutedGood, RoutedFollows
    <2> QED
      BY <1>7, <2>1, <2>2
  <1>9. m' \in multi_process_post(s, i, tun)
    BY <1>3
  <1> HIDE DEF s, tun
  <1>10. Follows(m, s) /\ i \in Live(s)
    BY <1>4, <1>6, <1>8, FollowsTrans
  <1> QED
    BY <1>8, <1>9, <1>10, ServedRegains

LEMMA TunReadRegains ==
    ASSUME ServerInv, ~DuplicateCN, TunRead
    PROVE  Regains(m, m')
  <1> DEFINE ro == readonly
  <1>1. m \in Context /\ Good(m, ro)
    BY DEF ServerInv
  <1> HIDE DEF ro
  <1>2. CASE m' = multi_bcast(m, NULL)
    BY <1>1, <1>2, BcastGood, BcastFollows, KeptRegains
  <1>3. CASE m' = m
    BY <1>1, <1>3, FollowsSame, KeptRegains
  <1>4. ASSUME NEW dest \in Hosts, Owner(m, dest) # NULL,
               m' \in multi_process_post([Cached(m, dest) EXCEPT !.pending = Owner(m, dest)],
                                         Owner(m, dest), TunOut(m, Owner(m, dest)))
        PROVE  Regains(m, m')
    <2> DEFINE i == Owner(m, dest)
               c == Cached(m, dest)
               b == [c EXCEPT !.pending = i]
               q == c.mbuf
               o == c.out
               tun == TunOut(m, i)
    <2>1. i \in Live(m)
      <3>1. dest \in Addr /\ Counts(m)
        BY <1>1 DEF Good, Addr
      <3> QED
        BY <1>1, <1>4, <3>1, OwnerLive
    <2>2. m' \in multi_process_post(b, i, tun) /\ tun \in SUBSET (SUBSET {"tun"})
      BY <1>4, TunOutType
    <2>3. c \in Context /\ Good(c, ro) /\ Live(c) = Live(m) /\ Follows(m, c)
      BY <1>1, CachedGood, CachedFollows
    <2> HIDE DEF c, i, tun
    <2>4. q \in QueueOf(Live(c)) /\ o \in SUBSET {"link", "tun"}
      BY <2>3 DEF Good, Links, Context
    <2>5. b = Requeue(c, q, i, o) /\ b.inst = c.inst /\ b.pool = c.pool
      BY <2>3 DEF Requeue, Context
    <2> HIDE DEF b, q, o
    <2>6. b \in Context /\ Good(b, ro) /\ Live(b) = Live(c)
      <3> DEFINE t == Requeue(c, q, i, o)
      <3>1. t \in Context /\ Good(t, ro) /\ Live(t) = Live(c)
        BY <2>1, <2>3, <2>4, Requeued
      <3> HIDE DEF t
      <3> QED
        BY <2>5, <3>1 DEF t
    <2>7. Follows(m, b)
      BY <2>3, <2>5, FollowsSame, FollowsTrans
    <2> QED
      BY <2>1, <2>2, <2>3, <2>6, <2>7, ServedRegains
  <1> QED
    BY <1>2, <1>3, <1>4 DEF TunRead

LEMMA SocketWriteRegains ==
    ASSUME ServerInv, ~DuplicateCN, SocketWrite
    PROVE  Regains(m, m')
  <1> DEFINE ro == readonly
             next == IF m.pending # NULL THEN m.pending
                     ELSE IF Queued(m.mbuf) = {} THEN NULL ELSE m.mbuf[Oldest(m.mbuf)]
             q == Rest(m.mbuf)
             taken == IF m.pending # NULL THEN m ELSE [m EXCEPT !.mbuf = q]
             tun == TunOut(m, next)
  <1>1. m \in Context /\ Good(m, ro)
    BY DEF ServerInv
  <1>2. IF next = NULL THEN m' = taken ELSE m' \in multi_process_post(taken, next, tun)
    BY DEF SocketWrite
  <1>3. tun \in SUBSET (SUBSET {"tun"})
    BY TunOutType
  <1> HIDE DEF ro
  <1>4. next \in Live(m) \cup {NULL}
    <2>1. m.pending \in Live(m) \cup {NULL} /\ m.mbuf \in Seq(Live(m) \cup {NULL})
      BY <1>1 DEF Good, Links, QueueOf
    <2>2. Queued(m.mbuf) # {} => Oldest(m.mbuf) \in 1 .. Len(m.mbuf)
      BY <2>1, OldestQueued
    <2> QED
      BY <2>1, <2>2
  <1>5. taken.inst = m.inst /\ taken.pool = m.pool
    BY <1>1 DEF Context
  <1>6. taken \in Context /\ Good(taken, ro) /\ Live(taken) = Live(m)
    <2>1. q \in QueueOf(Live(m))
      BY <1>1, QueueRest DEF Good, Links
    <2> DEFINE t == [m EXCEPT !.mbuf = q]
    <2> HIDE DEF q
    <2>2. t \in Context /\ Good(t, ro) /\ Live(t) = Live(m)
      BY <1>1, <2>1, QueuedGood
    <2>3. taken = m \/ taken = t
      OBVIOUS
    <2> HIDE DEF t, taken
    <2> QED
      BY <1>1, <2>2, <2>3
  <1> HIDE DEF next, taken, tun
  <1>7. Follows(m, taken)
    BY <1>5, FollowsSame
  <1>8. CASE next = NULL
    BY <1>2, <1>6, <1>7, <1>8, KeptRegains
  <1>9. CASE next # NULL
    <2>1. m' \in multi_process_post(taken, next, tun) /\ next \in Live(taken)
      BY <1>2, <1>4, <1>6, <1>9
    <2> QED
      BY <1>3, <1>6, <1>7, <2>1, ServedRegains
  <1> QED
    BY <1>8, <1>9

LEMMA OtherRegains ==
    ASSUME ServerInv, ~DuplicateCN,
           TunWrite \/ Timeout \/ Kill \/ Reap \/ Age \/ Restart \/ UNCHANGED vars
    PROVE  Regains(m, m')
  <1> DEFINE ro == readonly
  <1>1. m \in Context /\ Good(m, ro) /\ Clients(m) /\ Links(m) /\ Follows(m, m)
    BY FollowsSame DEF ServerInv, Good
  <1>2. {{}} \in SUBSET (SUBSET {"tun"})
    OBVIOUS
  <1> HIDE DEF ro
  <1>3. CASE m' = m
    BY <1>1, <1>3, RegainsSelf
  <1>4. ASSUME NEW i \in Live(m), NEW tun \in SUBSET (SUBSET {"tun"}),
               m' \in multi_process_post(m, i, tun)
        PROVE  Regains(m, m')
    BY <1>1, <1>4, ServedRegains
  <1>5. CASE TunWrite
    <2>1. CASE m.pending = NULL
      BY <1>3, <1>5, <2>1 DEF TunWrite
    <2>2. CASE m.pending # NULL
      <3> DEFINE i == m.pending
      <3>1. i \in Live(m) /\ m' \in multi_process_post(m, i, {{}})
        BY <1>1, <1>5, <2>2 DEF TunWrite, Links
      <3> HIDE DEF i
      <3> QED
        BY <1>2, <1>4, <3>1
    <2> QED
      BY <2>1, <2>2
  <1>6. CASE Timeout
    <2>1. PICK i \in Live(m) : m' \in multi_process_post(m, i, TunOut(m, i))
      BY <1>1, <1>6 DEF Timeout, Links
    <2> QED
      BY <1>4, <2>1, TunOutType
  <1>7. CASE Kill
    <2>1. PICK S : m' = CloseAll(m, S)
      BY <1>7 DEF Kill
    <2>2. LET t == CloseAll(m, S) IN Closed(m, t, Live(m) \ S)
      BY <1>1, CloseFold
    <2> QED
      BY <1>1, <2>1, <2>2, RegainsLeft DEF Closed
  <1>8. CASE Reap
    <2>1. PICK a \in Addr : /\ m.vhash[a] # NULL /\ ~multi_route_defined(m, a)
                            /\ m' = multi_route_del(m, a)
      BY <1>8 DEF Reap
    <2> DEFINE t == multi_route_del(m, a)
    <2>2. CountsWith(m, {})
      BY <1>1 DEF Good, Counts
    <2>3. t \in Context /\ Good(t, ro)
      BY <1>1, <2>1, ReapGood
    <2>4. SameButRoutes(m, t)
      BY <1>1, <2>1, <2>2, RouteDel
    <2> HIDE DEF t
    <2>5. Regains(m, t)
      BY <1>1, <2>3, <2>4, FollowsRoutes, KeptRegains
    <2> QED
      BY <2>1, <2>5 DEF t
  <1>9. CASE Age
    <2>1. PICK a \in Addr : /\ m.vhash[a] # NULL /\ m.vhash[a].kind = "cached"
                            /\ m' = [m EXCEPT !.vhash[a].kind = "stale"]
      BY <1>9 DEF Age
    <2> DEFINE t == [m EXCEPT !.vhash[a].kind = "stale"]
    <2>2. t \in Context /\ Good(t, ro) /\ t.inst = m.inst /\ t.pool = m.pool
      BY <1>1, <2>1, AgeGood DEF Context
    <2> HIDE DEF t
    <2>3. Regains(m, t)
      BY <2>2, FollowsSame, KeptRegains
    <2> QED
      BY <2>1, <2>3 DEF t
  <1>10. CASE Restart
    BY <1>10 DEF Restart, multi_init, Regains, Live
  <1>11. CASE UNCHANGED vars
    BY <1>3, <1>11 DEF vars
  <1> QED
    BY <1>5, <1>6, <1>7, <1>8, <1>9, <1>10, <1>11

\* A client that connects again while its earlier instance holds an address of
\* the pool gets one that the pool knows as its own (multi_delete_dup before
\* multi_select_virtual_addr in multi_connection_established), unless
\* --duplicate-cn lets both stay.
THEOREM ServerSameAddress == ~DuplicateCN => (Spec => SameAddress)
  <1> SUFFICES ASSUME ~DuplicateCN PROVE Spec => SameAddress
    OBVIOUS
  <1>1. ServerInv /\ [Next]_vars =>
            [\A i, j \in Inst : Reconnects(i, j) =>
                m.pool.list[m'.inst[j].vaddr_handle].common_name
                    = m.inst[i].common_name]_vars
    <2> SUFFICES ASSUME ServerInv, [Next]_vars, NEW i \in Inst, NEW j \in Inst,
                        Reconnects(i, j)
                 PROVE  m.pool.list[m'.inst[j].vaddr_handle].common_name
                            = m.inst[i].common_name
      OBVIOUS
    <2>1. Regains(m, m')
      BY ControlRegains, DataRegains, TunReadRegains, SocketWriteRegains, OtherRegains
         DEF Next
    <2>2. LiveInst = Live(m) /\ LiveInst' = Live(m')
      BY DEF LiveInst, Allocated, Live
    <2>3. ~(j \in Live(m) /\ m.inst[j].connection_established_flag)
      BY DEF Reconnects, Live
    <2> QED
      BY <2>1, <2>2, <2>3 DEF Reconnects, Regains
  <1> QED
    BY <1>1, ServerKeepsInv, PTL DEF Spec, SameAddress
=============================================================================
