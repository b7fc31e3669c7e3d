-------------------------- MODULE MultiServerLemmas --------------------------
(***************************************************************************)
(* The inductive invariant of MultiServer, and what the operations on the  *)
(* context of the server do to its parts: the references and routes, the   *)
(* queue of packets, the pool, closing an instance, a new start, and a     *)
(* client that connects.                                                   *)
(***************************************************************************)
EXTENDS MultiServer, FiniteSetTheorems, SequenceTheorems, TLAPS

-----------------------------------------------------------------------------
(* The inductive invariant, of the record s that is struct multi_context.  *)

Entry == [in_use : BOOLEAN, fixed : BOOLEAN, common_name : CN \cup {NoName}]
PoolType == [list : [Handle -> Entry], released : Seq(Handle)]

Context ==
    [inst : [Inst -> Instance \cup {NULL}], hash : [Real -> Inst \cup {NULL}],
     iter : Seq(Inst), vhash : [Addr -> Route \cup {NULL}],
     net_len_refcount : [Bit -> Int], schedule : SUBSET Inst,
     mbuf : Seq(Inst \cup {NULL}), pool : PoolType,
     pending : Inst \cup {NULL}, out : SUBSET {"link", "tun"}]

Live(s) == {i \in Inst : s.inst[i] # NULL /\ ~s.inst[i].halt}
RoutesTo(s, i) == {a \in Addr : s.vhash[a] # NULL /\ s.vhash[a].instance = i}

\* The counts are exact, when one more route is counted of the instances of X.
CountsWith(s, X) ==
    /\ \A a \in Addr : s.vhash[a] # NULL => s.inst[s.vhash[a].instance] # NULL
    /\ \A i \in Inst : s.inst[i] # NULL =>
        /\ s.inst[i].route_count = Cardinality(RoutesTo(s, i))
                                   + IF i \in X THEN 1 ELSE 0
        /\ s.inst[i].refcount = s.inst[i].route_count
                                + IF s.inst[i].halt THEN 0 ELSE 1
        /\ s.inst[i].refcount > 0

\* RefcountExact.
Counts(s) == CountsWith(s, {})

\* A queue of packets to instances of E keeps to its capacity.
QueueOf(E) == {q \in Seq(E \cup {NULL}) : Len(q) <= MbufSize}

\* NoDangling; an instance is in the list once.
Links(s) ==
    /\ s.pending \in Live(s) \cup {NULL}
    /\ s.mbuf \in QueueOf(Live(s))
    /\ ToSet(s.iter) = Live(s)
    /\ \A k, l \in DOMAIN s.iter : s.iter[k] = s.iter[l] => k = l
    /\ s.schedule = Live(s)
    /\ \A i \in Live(s) : s.hash[s.inst[i].real] = i
    /\ \A r \in Real : s.hash[r] # NULL => s.hash[r] \in Live(s) /\ s.inst[s.hash[r]].real = r

\* PendingHasOutput.
Output(s) == s.pending # NULL => s.out # {}

\* Before the connection is established, a client has nothing.
Clients(s) ==
    \A i \in Live(s) :
        IF s.inst[i].connection_established_flag
        THEN /\ s.inst[i].locked_cn \in CN
             /\ s.inst[i].common_name \in {s.inst[i].locked_cn, NULL}
        ELSE /\ s.inst[i].locked_cn = NULL /\ s.inst[i].addr = NULL
             /\ s.inst[i].vaddr_handle = 0 /\ ~s.inst[i].did_iroutes
             /\ RoutesTo(s, i) = {}

\* LeasesExact; the pool knows the client that has an address.
Leases(s) ==
    /\ \A h \in Handle :
        s.pool.list[h].in_use <=> \E i \in Live(s) : s.inst[i].vaddr_handle = h
    /\ \A i, j \in Live(s) :
        s.inst[i].vaddr_handle = s.inst[j].vaddr_handle /\ s.inst[i].vaddr_handle # 0
            => i = j
    /\ ~DuplicateCN => \A i \in Live(s) : s.inst[i].vaddr_handle # 0 =>
        s.pool.list[s.inst[i].vaddr_handle].common_name = s.inst[i].locked_cn

\* A route to a network is an iroute of the client that it leads to.
NetworkRoute(s, n) ==
    s.vhash[n] # NULL =>
        /\ s.vhash[n].kind = "host"
        /\ s.vhash[n].instance \in Live(s) =>
             /\ s.inst[s.vhash[n].instance].did_iroutes
             /\ n \in ToSet(IRoutes[s.inst[s.vhash[n].instance].locked_cn])

\* CacheCoherent, for one address.
CachedRoute(s, a) ==
    s.vhash[a] # NULL /\ s.vhash[a].kind = "cached" /\ s.vhash[a].instance \in Live(s) =>
        s.vhash[a].instance = NetOwner(s, a)

Routing(s) ==
    /\ \A n \in Nets : NetworkRoute(s, n)
    /\ \A a \in Hosts : CachedRoute(s, a)

\* The iroutes of a length of all clients, and LengthsInUse.
AllOfLength(s, b) ==
    UNION {{i} \X OfLength(s.inst[i].locked_cn, b) :
                i \in {j \in Live(s) : s.inst[j].did_iroutes}}

Lengths(s) == \A b \in Bit : s.net_len_refcount[b] = Cardinality(AllOfLength(s, b))

\* Addresses of the pool are for clients of the pool alone.
AddressPlan ==
    /\ \A h \in Handle : PoolAddr[h] # Local
    /\ \A g, h \in Handle : PoolAddr[g] = PoolAddr[h] => g = h
    /\ \A c \in CN, h \in Handle :
        StaticAddr[c] # PoolAddr[h] /\ PoolAddr[h] \notin ToSet(IRoutes[c])

\* The address of a client of the pool has its route.
Addressed(s) ==
    \A i \in Live(s) : s.inst[i].did_iroutes /\ s.inst[i].vaddr_handle # 0 =>
        s.vhash[PoolAddr[s.inst[i].vaddr_handle]] = [instance |-> i, kind |-> "host"]

\* Entries that the file fixes keep to their clients.
Fixed(s, ro) ==
    ro => \A h \in Handle : FixedFile[h] # NoName =>
        /\ s.pool.list[h].fixed
        /\ s.pool.list[h].common_name \in {FixedFile[h], NoName}

\* What io_wait reported before the management commands were served.
Reported == status \cap {"sr", "tr"} # {} => m.mbuf = <<>>

\* The two premises are about the addresses that the server is configured
\* with, and --duplicate-cn.
Good(s, ro) ==
    /\ Counts(s) /\ Links(s) /\ Clients(s) /\ Leases(s) /\ Routing(s) /\ Lengths(s)
    /\ AddressPlan => Addressed(s)
    /\ ~DuplicateCN => Fixed(s, ro)

ServerInv ==
    /\ m \in Context /\ Good(m, readonly) /\ Output(m) /\ Reported
    /\ status \subseteq {"sr", "sw", "tr", "tw"} /\ readonly \in BOOLEAN
    /\ aborted \in {"no", "multi_process_outgoing_tun"}

-----------------------------------------------------------------------------
(* What the operators on routes leave alone.                               *)

\* Everything of an instance but its counts.
SameClient(x, y) ==
    /\ y.real = x.real /\ y.halt = x.halt /\ y.vaddr_handle = x.vaddr_handle
    /\ y.addr = x.addr /\ y.common_name = x.common_name
    /\ y.locked_cn = x.locked_cn /\ y.did_iroutes = x.did_iroutes
    /\ y.connection_established_flag = x.connection_established_flag

\* Everything but the routes, their counts and the lengths; a closed instance
\* may be freed.
SameButRoutes(s, t) ==
    /\ t.hash = s.hash /\ t.iter = s.iter /\ t.schedule = s.schedule
    /\ t.mbuf = s.mbuf /\ t.pool = s.pool
    /\ t.pending = s.pending /\ t.out = s.out
    /\ \A i \in Inst :
        /\ t.inst[i] # NULL => s.inst[i] # NULL /\ t.inst[i].halt = s.inst[i].halt
        /\ i \in Live(s) => t.inst[i] # NULL /\ SameClient(s.inst[i], t.inst[i])

LEMMA SameButRoutesRefl ==
    ASSUME NEW s \in Context
    PROVE  SameButRoutes(s, s)
  BY DEF SameButRoutes, SameClient, Live

LEMMA SameButRoutesLive ==
    ASSUME NEW s \in Context, NEW t \in Context, SameButRoutes(s, t)
    PROVE  Live(t) = Live(s)
  BY DEF SameButRoutes, SameClient, Live

LEMMA SameButRoutesTrans ==
    ASSUME NEW s \in Context, NEW t \in Context, NEW u \in Context,
           SameButRoutes(s, t), SameButRoutes(t, u)
    PROVE  SameButRoutes(s, u)
  <1>1. Live(t) = Live(s)
    BY SameButRoutesLive
  <1> QED
    BY <1>1 DEF SameButRoutes, SameClient

LEMMA SameButRoutesLinks ==
    ASSUME NEW s \in Context, NEW t \in Context, SameButRoutes(s, t), Links(s)
    PROVE  Links(t)
  <1>1. Live(t) = Live(s)
    BY SameButRoutesLive
  <1>2. \A i \in Live(s) : i \in Inst /\ SameClient(s.inst[i], t.inst[i])
    BY DEF Live, SameButRoutes
  <1> QED
    BY <1>1, <1>2 DEF SameButRoutes, SameClient, Links

LEMMA SameButRoutesLeases ==
    ASSUME NEW s \in Context, NEW t \in Context, SameButRoutes(s, t), Leases(s)
    PROVE  Leases(t)
  <1>1. Live(t) = Live(s)
    BY SameButRoutesLive
  <1>2. \A i \in Live(s) : i \in Inst /\ SameClient(s.inst[i], t.inst[i])
    BY DEF Live, SameButRoutes
  <1> QED
    BY <1>1, <1>2 DEF SameButRoutes, SameClient, Leases

-----------------------------------------------------------------------------
(* References and routes.                                                  *)

LEMMA RoutesFinite ==
    ASSUME NEW s, NEW i
    PROVE  IsFiniteSet(RoutesTo(s, i)) /\ Cardinality(RoutesTo(s, i)) \in Nat
  <1>1. IsFiniteSet(Addr)
    BY MultiAssumption, FS_Union DEF Addr
  <1>2. RoutesTo(s, i) \subseteq Addr
    BY DEF RoutesTo
  <1> QED
    BY <1>1, <1>2, FS_Subset, FS_CardinalityType

LEMMA NullInst ==
    /\ NULL \notin Inst /\ NULL \notin Instance /\ NULL \notin Route
    /\ MaxRoutes \in Nat /\ MaxRoutes > 0 /\ MbufSize \in Nat /\ MbufSize > 0
  BY MultiAssumption

\* A changed instance.
LEMMA ChangedInst ==
    ASSUME NEW s \in Context, NEW i \in Inst, NEW x \in Instance \cup {NULL}
    PROVE  LET t == [s EXCEPT !.inst[i] = x]
           IN  /\ t \in Context
               /\ t.inst = [s.inst EXCEPT ![i] = x]
               /\ t.hash = s.hash /\ t.iter = s.iter /\ t.schedule = s.schedule
               /\ t.mbuf = s.mbuf /\ t.pool = s.pool
               /\ t.pending = s.pending /\ t.out = s.out
               /\ t.vhash = s.vhash /\ t.net_len_refcount = s.net_len_refcount
  BY DEF Context

\* Deleting a route leaves the counts exact, whichever reference is held.
LEMMA RouteDel ==
    ASSUME NEW s \in Context, NEW X, CountsWith(s, X), NEW a \in Addr, s.vhash[a] # NULL
    PROVE  LET t == multi_route_del(s, a)
           IN  /\ t \in Context /\ CountsWith(t, X)
               /\ SameButRoutes(s, t)
               /\ t.vhash = [s.vhash EXCEPT ![a] = NULL]
               /\ t.net_len_refcount = s.net_len_refcount
  <1> DEFINE i == s.vhash[a].instance
             x == s.inst[i]
             u == [s EXCEPT !.inst[i].route_count = @ - 1, !.vhash[a] = NULL]
             t == multi_route_del(s, a)
  <1>1. s.vhash[a] \in Route /\ i \in Inst
    BY DEF Context, Route
  <1>2. x \in Instance
    BY <1>1 DEF Context, CountsWith
  <1>3. a \in RoutesTo(s, i) /\ Cardinality(RoutesTo(s, i)) > 0
    <2>1. a \in RoutesTo(s, i)
      BY DEF RoutesTo
    <2> QED
      BY <2>1, RoutesFinite, FS_EmptySet
  <1>4. /\ x.route_count > 0 /\ x.refcount > 0
        /\ x.route_count - 1 \in 0 .. MaxRoutes
        /\ x.refcount = 1 => i \notin X /\ x.halt /\ x.route_count = 1
    <2>1. s.inst[i] # NULL
      BY <1>1, <1>2, NullInst
    <2>2. /\ x.route_count = Cardinality(RoutesTo(s, i)) + (IF i \in X THEN 1 ELSE 0)
          /\ x.refcount = x.route_count + (IF x.halt THEN 0 ELSE 1)
      BY <1>1, <2>1 DEF CountsWith
    <2>3. /\ Cardinality(RoutesTo(s, i)) \in Nat /\ MaxRoutes \in Nat
          /\ x.route_count \in 0 .. MaxRoutes
      BY <1>1, <1>2, RoutesFinite, NullInst DEF Instance
    <2> HIDE DEF x, i
    <2> QED
      BY <1>3, <2>2, <2>3
  <1> DEFINE x1 == [x EXCEPT !.route_count = x.route_count - 1]
             y == [x1 EXCEPT !.refcount = x1.refcount - 1]
             z == IF x.refcount = 1 THEN NULL ELSE y
  <1>5. /\ x1 \in Instance /\ x1.refcount = x.refcount
        /\ y \in Instance /\ SameClient(x, y)
        /\ y.refcount = x.refcount - 1 /\ y.route_count = x.route_count - 1
    <2> HIDE DEF x
    <2>1. x1 \in Instance /\ x1.refcount = x.refcount /\ SameClient(x, x1)
          /\ x1.route_count = x.route_count - 1
      BY <1>2, <1>4 DEF Instance, SameClient
    <2>2. x1.refcount - 1 \in Nat
      BY <1>2, <1>4, <2>1 DEF Instance
    <2> HIDE DEF x1
    <2>3. y \in Instance /\ SameClient(x1, y)
          /\ y.refcount = x1.refcount - 1 /\ y.route_count = x1.route_count
      BY <2>1, <2>2 DEF Instance, SameClient
    <2> QED
      BY <2>1, <2>3 DEF SameClient
  <1> HIDE DEF i, x, x1, y, z
  <1>6. /\ u = [s EXCEPT !.inst[i] = x1, !.vhash[a] = NULL]
        /\ t = IF u.inst[i].refcount = 1 THEN [u EXCEPT !.inst[i] = NULL]
               ELSE [u EXCEPT !.inst[i] = [u.inst[i] EXCEPT !.refcount = u.inst[i].refcount - 1]]
    BY DEF multi_route_del, multi_instance_dec_refcount, i, x1, x
  <1> HIDE DEF u, t
  <1>61. /\ u \in Context /\ u.inst = [s.inst EXCEPT ![i] = x1] /\ u.inst[i] = x1
         /\ u.vhash = [s.vhash EXCEPT ![a] = NULL]
         /\ u.hash = s.hash /\ u.iter = s.iter /\ u.schedule = s.schedule
         /\ u.mbuf = s.mbuf /\ u.pool = s.pool
         /\ u.pending = s.pending /\ u.out = s.out
         /\ u.net_len_refcount = s.net_len_refcount
    BY <1>1, <1>5, <1>6 DEF Context
  <1>62. t = [u EXCEPT !.inst[i] = z]
    <2>1. CASE x.refcount = 1
      BY <1>5, <1>6, <1>61, <2>1 DEF z
    <2>2. CASE x.refcount # 1
      <3>1. t = [u EXCEPT !.inst[i] = [u.inst[i] EXCEPT !.refcount = u.inst[i].refcount - 1]]
        BY <1>5, <1>6, <1>61, <2>2
      <3>2. [u.inst[i] EXCEPT !.refcount = u.inst[i].refcount - 1] = y
        BY <1>61 DEF y
      <3>3. z = y
        BY <2>2 DEF z
      <3> QED
        BY <3>1, <3>2, <3>3
    <2> QED
      BY <2>1, <2>2
  <1>7. /\ t \in Context
        /\ t.inst = [s.inst EXCEPT ![i] = z]
        /\ t.vhash = [s.vhash EXCEPT ![a] = NULL]
        /\ t.hash = s.hash /\ t.iter = s.iter /\ t.schedule = s.schedule
        /\ t.mbuf = s.mbuf /\ t.pool = s.pool
        /\ t.pending = s.pending /\ t.out = s.out
        /\ t.net_len_refcount = s.net_len_refcount
    <2>1. z \in Instance \cup {NULL}
      BY <1>5 DEF z
    <2>2. t.inst = [u.inst EXCEPT ![i] = z]
      BY <1>1, <1>61, <1>62, <2>1, ChangedInst
    <2>3. [u.inst EXCEPT ![i] = z] = [s.inst EXCEPT ![i] = z]
      BY <1>1, <1>61 DEF Context
    <2> QED
      BY <1>1, <1>61, <1>62, <2>1, <2>2, <2>3, ChangedInst
  <1>8. SameButRoutes(s, t)
    <2>1. ASSUME NEW j \in Inst
          PROVE  /\ t.inst[j] # NULL => s.inst[j] # NULL /\ t.inst[j].halt = s.inst[j].halt
                 /\ j \in Live(s) => t.inst[j] # NULL /\ SameClient(s.inst[j], t.inst[j])
      <3>1. CASE j = i
        <4>1. t.inst[j] = z /\ s.inst[j] = x /\ x # NULL
          BY <1>1, <1>2, <1>7, <3>1, NullInst DEF Context, x
        <4> QED
          BY <1>4, <1>5, <4>1, NullInst DEF z, Live, SameClient
      <3>2. CASE j # i
        BY <1>7, <3>2 DEF Context, Live, SameClient
      <3> QED
        BY <3>1, <3>2
    <2> QED
      BY <1>7, <2>1 DEF SameButRoutes
  <1>9. CountsWith(t, X)
    <2>1. RoutesTo(t, i) = RoutesTo(s, i) \ {a}
      BY <1>7 DEF RoutesTo, Context
    <2>2. \A j \in Inst \ {i} : RoutesTo(t, j) = RoutesTo(s, j)
      BY <1>7 DEF RoutesTo, Context, i
    <2>3. Cardinality(RoutesTo(t, i)) = Cardinality(RoutesTo(s, i)) - 1
      BY <1>3, <2>1, RoutesFinite, FS_RemoveElement
    <2>4. ASSUME NEW b \in Addr, t.vhash[b] # NULL PROVE t.inst[t.vhash[b].instance] # NULL
      <3>1. b # a /\ t.vhash[b] = s.vhash[b] /\ s.vhash[b] # NULL
        BY <1>7, <2>4 DEF Context
      <3>2. s.vhash[b].instance \in Inst /\ s.inst[s.vhash[b].instance] # NULL
        BY <3>1 DEF Context, Route, CountsWith
      <3>3. CASE s.vhash[b].instance = i
        <4>1. b \in RoutesTo(t, i)
          BY <3>1, <3>3 DEF RoutesTo
        <4>2. Cardinality(RoutesTo(t, i)) > 0
          BY <4>1, RoutesFinite, FS_EmptySet
        <4>3. x.route_count = Cardinality(RoutesTo(s, i)) + IF i \in X THEN 1 ELSE 0
          BY <1>1, <1>2, NullInst DEF CountsWith, x
        <4>4. x.refcount # 1
          BY <1>4, <2>3, <4>2, <4>3, RoutesFinite
        <4> QED
          BY <1>1, <1>5, <1>7, <3>1, <3>3, <4>4, NullInst DEF z, Context
      <3>4. CASE s.vhash[b].instance # i
        BY <1>1, <1>7, <3>1, <3>2, <3>4 DEF Context
      <3> QED
        BY <3>3, <3>4
    <2>5. ASSUME NEW j \in Inst, t.inst[j] # NULL
          PROVE  /\ t.inst[j].route_count = Cardinality(RoutesTo(t, j))
                                             + IF j \in X THEN 1 ELSE 0
                 /\ t.inst[j].refcount = t.inst[j].route_count
                                          + IF t.inst[j].halt THEN 0 ELSE 1
                 /\ t.inst[j].refcount > 0
      <3>1. CASE j = i
        <4>1. t.inst[j] = y /\ x.refcount # 1 /\ s.inst[i] = x /\ x # NULL
          BY <1>1, <1>2, <1>7, <2>5, <3>1, NullInst DEF Context, z, x
        <4>2. /\ x.route_count = Cardinality(RoutesTo(s, i)) + IF i \in X THEN 1 ELSE 0
              /\ x.refcount = x.route_count + IF x.halt THEN 0 ELSE 1
          BY <1>1, <4>1 DEF CountsWith
        <4>3. /\ x.refcount \in Nat /\ x.refcount - 1 > 0
              /\ x.route_count \in Int /\ Cardinality(RoutesTo(s, i)) \in Int
          BY <1>2, <1>4, <4>1, RoutesFinite, NullInst DEF Instance
        <4>4. y.halt = x.halt
          BY <1>5 DEF SameClient
        <4> QED
          BY <1>5, <2>3, <3>1, <4>1, <4>2, <4>3, <4>4
      <3>2. CASE j # i
        BY <1>1, <1>7, <2>2, <2>5, <3>2 DEF Context, CountsWith
      <3> QED
        BY <3>1, <3>2
    <2> QED
      BY <2>4, <2>5 DEF CountsWith
  <1> QED
    BY <1>7, <1>8, <1>9 DEF t

\* A route that is learned: the counts stay exact.
LEMMA LearnAddr ==
    ASSUME NEW s \in Context, Counts(s), NEW i \in Live(s), NEW a \in Addr,
           NEW kind \in {"host", "cached"}
    PROVE  LET t == multi_learn_addr(s, i, a, kind)
           IN  /\ t \in Context /\ Counts(t)
               /\ SameButRoutes(s, t)
               /\ t.vhash = IF MayLearn(s, i, a)
                            THEN [s.vhash EXCEPT ![a] = [instance |-> i, kind |-> kind]]
                            ELSE s.vhash
               /\ t.net_len_refcount = s.net_len_refcount
  <1> DEFINE t == multi_learn_addr(s, i, a, kind)
             x == s.inst[i]
             held == [s EXCEPT !.inst[i].refcount = @ + 1,
                               !.inst[i].route_count = @ + 1]
             freed == IF s.vhash[a] = NULL THEN held ELSE multi_route_del(held, a)
             new == [instance |-> i, kind |-> kind]
             y == [x EXCEPT !.refcount = x.refcount + 1,
                            !.route_count = x.route_count + 1]
  <1>1. CASE ~MayLearn(s, i, a)
    <2>1. t = s
      BY <1>1 DEF multi_learn_addr
    <2> QED
      BY <1>1, <2>1, SameButRoutesRefl
  <1>2. CASE MayLearn(s, i, a)
    <2>1. i \in Inst /\ x \in Instance /\ ~x.halt /\ new \in Route
      BY DEF Live, Context, Route
    <2>2. x.refcount + 1 \in Nat /\ x.route_count + 1 \in 0 .. MaxRoutes
      BY <1>2, <2>1, NullInst DEF MayLearn, Instance
    <2> HIDE DEF x
    <2>3. /\ y \in Instance /\ SameClient(x, y)
          /\ y.refcount = x.refcount + 1 /\ y.route_count = x.route_count + 1
      BY <2>1, <2>2 DEF Instance, SameClient
    <2>4. held = [s EXCEPT !.inst[i] = y]
      BY <2>1 DEF x, Context, Instance
    <2> HIDE DEF y, held
    <2>5. /\ held \in Context
          /\ held.inst = [s.inst EXCEPT ![i] = y]
          /\ held.hash = s.hash /\ held.iter = s.iter /\ held.schedule = s.schedule
          /\ held.mbuf = s.mbuf /\ held.pool = s.pool
          /\ held.pending = s.pending /\ held.out = s.out
          /\ held.vhash = s.vhash /\ held.net_len_refcount = s.net_len_refcount
      BY <2>1, <2>3, <2>4, ChangedInst
    <2>6. SameButRoutes(s, held)
      <3>1. ASSUME NEW j \in Inst
            PROVE  /\ held.inst[j] # NULL => s.inst[j] # NULL /\ held.inst[j].halt = s.inst[j].halt
                   /\ j \in Live(s) => held.inst[j] # NULL /\ SameClient(s.inst[j], held.inst[j])
        <4>1. CASE j = i
          BY <2>1, <2>3, <2>5, <4>1, NullInst DEF SameClient, Context, x
        <4>2. CASE j # i
          BY <2>5, <4>2 DEF SameClient, Context, Live
        <4> QED
          BY <4>1, <4>2
      <3> QED
        BY <2>5, <3>1 DEF SameButRoutes
    <2>7. CountsWith(held, {i})
      <3>1. \A j \in Inst : RoutesTo(held, j) = RoutesTo(s, j)
        BY <2>5 DEF RoutesTo
      <3>2. ASSUME NEW b \in Addr, held.vhash[b] # NULL
            PROVE  held.inst[held.vhash[b].instance] # NULL
        BY <2>1, <2>3, <2>5, <3>2, NullInst DEF Counts, CountsWith, Context, Route
      <3>3. ASSUME NEW j \in Inst, held.inst[j] # NULL
            PROVE  /\ held.inst[j].route_count = Cardinality(RoutesTo(held, j))
                                                 + IF j \in {i} THEN 1 ELSE 0
                   /\ held.inst[j].refcount = held.inst[j].route_count
                                              + IF held.inst[j].halt THEN 0 ELSE 1
                   /\ held.inst[j].refcount > 0
        <4>1. CASE j = i
          <5>1. held.inst[i] = y /\ s.inst[i] = x /\ x # NULL
            BY <2>1, <2>5, NullInst DEF Context, x
          <5>2. /\ x.route_count = Cardinality(RoutesTo(s, i))
                /\ x.refcount = x.route_count + 1
            BY <2>1, <5>1, RoutesFinite DEF Counts, CountsWith
          <5>3. x.refcount \in Nat /\ ~y.halt
            BY <2>1, <2>3 DEF Instance, SameClient
          <5> QED
            BY <2>3, <3>1, <4>1, <5>1, <5>2, <5>3, RoutesFinite
        <4>2. CASE j # i
          BY <2>1, <2>5, <3>1, <3>3, <4>2 DEF Context, Counts, CountsWith
        <4> QED
          BY <4>1, <4>2
      <3> QED
        BY <3>2, <3>3 DEF CountsWith
    <2>8. /\ freed \in Context /\ CountsWith(freed, {i})
          /\ SameButRoutes(held, freed)
          /\ freed.vhash = [s.vhash EXCEPT ![a] = NULL]
          /\ freed.net_len_refcount = s.net_len_refcount
      <3>1. CASE s.vhash[a] = NULL
        BY <2>5, <2>7, <3>1, SameButRoutesRefl DEF Context
      <3>2. CASE s.vhash[a] # NULL
        BY <2>5, <2>7, <3>2, RouteDel
      <3> QED
        BY <3>1, <3>2
    <2>9. SameButRoutes(s, freed)
      BY <2>5, <2>6, <2>8, SameButRoutesTrans
    <2> HIDE DEF freed, new
    <2>10. t = [freed EXCEPT !.vhash[a] = new]
      BY <1>2 DEF multi_learn_addr, freed, held, new
    <2> HIDE DEF t
    <2>11. /\ t \in Context
           /\ t.vhash = [s.vhash EXCEPT ![a] = new]
           /\ t.inst = freed.inst /\ t.hash = freed.hash /\ t.iter = freed.iter
           /\ t.schedule = freed.schedule /\ t.mbuf = freed.mbuf /\ t.pool = freed.pool
           /\ t.pending = freed.pending /\ t.out = freed.out
           /\ t.net_len_refcount = freed.net_len_refcount
      BY <2>1, <2>8, <2>10 DEF Context
    <2>12. SameButRoutes(s, t)
      BY <2>9, <2>11 DEF SameButRoutes
    <2>13. Counts(t)
      <3>1. RoutesTo(t, i) = RoutesTo(freed, i) \cup {a} /\ a \notin RoutesTo(freed, i)
        BY <2>1, <2>8, <2>11, NullInst DEF RoutesTo, Context, new
      <3>2. \A j \in Inst \ {i} : RoutesTo(t, j) = RoutesTo(freed, j)
        BY <2>8, <2>11 DEF RoutesTo, Context, new
      <3>3. Cardinality(RoutesTo(t, i)) = Cardinality(RoutesTo(freed, i)) + 1
        BY <3>1, RoutesFinite, FS_AddElement
      <3>4. t.inst[i] # NULL
        BY <2>1, <2>12 DEF SameButRoutes
      <3>5. ASSUME NEW b \in Addr, t.vhash[b] # NULL
            PROVE  t.inst[t.vhash[b].instance] # NULL
        <4>1. CASE b = a
          BY <2>11, <3>4, <4>1 DEF Context, new
        <4>2. CASE b # a
          BY <2>8, <2>11, <3>5, <4>2 DEF Context, CountsWith
        <4> QED
          BY <4>1, <4>2
      <3>6. ASSUME NEW j \in Inst, t.inst[j] # NULL
            PROVE  /\ t.inst[j].route_count = Cardinality(RoutesTo(t, j))
                                              + IF j \in {} THEN 1 ELSE 0
                   /\ t.inst[j].refcount = t.inst[j].route_count
                                           + IF t.inst[j].halt THEN 0 ELSE 1
                   /\ t.inst[j].refcount > 0
        BY <2>8, <2>11, <3>2, <3>3, <3>6, RoutesFinite DEF CountsWith
      <3> QED
        BY <3>5, <3>6 DEF Counts, CountsWith
    <2> QED
      BY <1>2, <2>8, <2>11, <2>12, <2>13 DEF t, new
  <1> QED
    BY <1>1, <1>2

-----------------------------------------------------------------------------
(* The networks of a client.                                               *)

\* Routes keep their owners; those to the answers of the network routes may
\* have become stale.
SameOwners(v, w) ==
    \A a \in Addr :
        /\ w[a] = NULL <=> v[a] = NULL
        /\ v[a] # NULL => /\ w[a].instance = v[a].instance
                          /\ w[a].kind \in {v[a].kind, "stale"}
                          /\ v[a].kind = "host" => w[a] = v[a]

NoneCached(v) == \A a \in Addr : v[a] # NULL => v[a].kind # "cached"

\* Everything but the lengths and the kinds of routes.
SameButLengths(s, t) ==
    /\ t.inst = s.inst /\ t.hash = s.hash /\ t.iter = s.iter
    /\ t.schedule = s.schedule /\ t.mbuf = s.mbuf /\ t.pool = s.pool
    /\ t.pending = s.pending /\ t.out = s.out
    /\ SameOwners(s.vhash, t.vhash)

\* What the network n adds to the count of length b.
Change(n, b, d) == IF n \in Nets /\ Bits[n] = b THEN d ELSE 0

LEMMA HelperIroute ==
    ASSUME NEW s \in Context, NEW n \in Addr, NEW d \in Int
    PROVE  LET t == mroute_helper_iroute(s, n, d)
           IN  /\ t \in Context /\ SameButLengths(s, t)
               /\ n \in Nets => NoneCached(t.vhash)
               /\ n \notin Nets => t = s
               /\ \A b \in Bit : t.net_len_refcount[b] =
                    s.net_len_refcount[b] + Change(n, b, d)
  <1> DEFINE t == mroute_helper_iroute(s, n, d)
             u == [s EXCEPT !.net_len_refcount[Bits[n]] = @ + d]
             v == [a \in Addr |-> IF s.vhash[a] # NULL /\ s.vhash[a].kind = "cached"
                                  THEN [s.vhash[a] EXCEPT !.kind = "stale"]
                                  ELSE s.vhash[a]]
  <1>1. CASE n \notin Nets
    <2>1. t = s
      BY <1>1 DEF mroute_helper_iroute
    <2>2. SameButLengths(s, s)
      BY DEF SameButLengths, SameOwners
    <2>3. \A b \in Bit : s.net_len_refcount[b] \in Int
      BY DEF Context
    <2> QED
      BY <1>1, <2>1, <2>2, <2>3 DEF Change
  <1>2. CASE n \in Nets
    <2>1. Bits[n] \in Bit
      BY <1>2 DEF Bit
    <2>2. /\ u \in Context
          /\ u.net_len_refcount = [s.net_len_refcount EXCEPT ![Bits[n]] = @ + d]
          /\ u.inst = s.inst /\ u.hash = s.hash /\ u.iter = s.iter
          /\ u.schedule = s.schedule /\ u.mbuf = s.mbuf /\ u.pool = s.pool
          /\ u.pending = s.pending /\ u.out = s.out /\ u.vhash = s.vhash
      <3> DEFINE w == [s.net_len_refcount EXCEPT ![Bits[n]] = s.net_len_refcount[Bits[n]] + d]
      <3>1. w \in [Bit -> Int]
        <4>1. s.net_len_refcount \in [Bit -> Int]
          BY DEF Context
        <4> QED
          BY <2>1, <4>1
      <3>2. u = [s EXCEPT !.net_len_refcount = w]
        OBVIOUS
      <3> HIDE DEF w, u
      <3>3. /\ u \in Context /\ u.net_len_refcount = w
            /\ u.inst = s.inst /\ u.hash = s.hash /\ u.iter = s.iter
            /\ u.schedule = s.schedule /\ u.mbuf = s.mbuf /\ u.pool = s.pool
            /\ u.pending = s.pending /\ u.out = s.out /\ u.vhash = s.vhash
        BY <3>1, <3>2 DEF Context
      <3> QED
        BY <3>3 DEF w
    <2>3. /\ v \in [Addr -> Route \cup {NULL}]
          /\ SameOwners(s.vhash, v) /\ NoneCached(v)
      <3> SUFFICES ASSUME NEW a \in Addr
                   PROVE  /\ v[a] \in Route \cup {NULL}
                          /\ v[a] = NULL <=> s.vhash[a] = NULL
                          /\ s.vhash[a] # NULL => /\ v[a].instance = s.vhash[a].instance
                                                  /\ v[a].kind \in {s.vhash[a].kind, "stale"}
                                                  /\ s.vhash[a].kind = "host" => v[a] = s.vhash[a]
                                                  /\ v[a].kind # "cached"
        BY DEF SameOwners, NoneCached
      <3>1. s.vhash[a] \in Route \cup {NULL}
        BY DEF Context
      <3> QED
        BY <3>1, NullInst DEF Route
    <2> HIDE DEF u
    <2>4. t = [u EXCEPT !.vhash = v]
      <3>1. t = [u EXCEPT !.vhash = [a \in Addr |->
                    IF u.vhash[a] # NULL /\ u.vhash[a].kind = "cached"
                    THEN [u.vhash[a] EXCEPT !.kind = "stale"] ELSE u.vhash[a]]]
        BY <1>2 DEF mroute_helper_iroute, NewGeneration, u
      <3> QED
        BY <2>2, <3>1
    <2> HIDE DEF v, t
    <2>5. /\ t \in Context /\ t.vhash = v
          /\ t.net_len_refcount = u.net_len_refcount
          /\ t.inst = s.inst /\ t.hash = s.hash /\ t.iter = s.iter
          /\ t.schedule = s.schedule /\ t.mbuf = s.mbuf /\ t.pool = s.pool
          /\ t.pending = s.pending /\ t.out = s.out
      BY <2>2, <2>3, <2>4 DEF Context
    <2>6. SameButLengths(s, t)
      BY <2>3, <2>5 DEF SameButLengths
    <2>7. \A b \in Bit : t.net_len_refcount[b] =
                    s.net_len_refcount[b] + Change(n, b, d)
      BY <1>2, <2>1, <2>2, <2>5 DEF Context, Change
    <2> QED
      BY <1>2, <2>3, <2>5, <2>6, <2>7 DEF t
  <1> QED
    BY <1>1, <1>2

LEMMA SameOwnersRoutes ==
    ASSUME NEW s, NEW t, SameOwners(s.vhash, t.vhash), NEW i
    PROVE  RoutesTo(t, i) = RoutesTo(s, i)
  BY DEF SameOwners, RoutesTo

LEMMA SameButLengthsCounts ==
    ASSUME NEW s \in Context, NEW t \in Context, SameButLengths(s, t),
           NEW X, CountsWith(s, X)
    PROVE  CountsWith(t, X)
  <1>1. \A i : RoutesTo(t, i) = RoutesTo(s, i)
    BY SameOwnersRoutes DEF SameButLengths
  <1>2. \A a \in Addr : t.vhash[a] # NULL =>
            s.vhash[a] # NULL /\ t.vhash[a].instance = s.vhash[a].instance
    BY DEF SameButLengths, SameOwners
  <1> QED
    BY <1>1, <1>2 DEF SameButLengths, CountsWith

LEMMA SameButLengthsRoutes ==
    ASSUME NEW s \in Context, NEW t \in Context, SameButLengths(s, t)
    PROVE  SameButRoutes(s, t)
  BY DEF SameButLengths, SameButRoutes, SameClient, Live

LEMMA SameOwnersTrans ==
    ASSUME NEW u, NEW v, NEW w, SameOwners(u, v), SameOwners(v, w)
    PROVE  SameOwners(u, w)
  BY DEF SameOwners

\* The networks of a length among the first k of a sequence.
Upto(seq, k, b) == {l \in 1 .. k : seq[l] \in Nets /\ Bits[seq[l]] = b}

LEMMA UptoCounts ==
    ASSUME NEW seq, NEW b
    PROVE  /\ Upto(seq, 0, b) = {} /\ Cardinality(Upto(seq, 0, b)) = 0
           /\ \A k \in Nat : Cardinality(Upto(seq, k, b)) \in Nat
           /\ \A k \in Nat \ {0} : Cardinality(Upto(seq, k, b)) =
                Cardinality(Upto(seq, k - 1, b))
                + IF seq[k] \in Nets /\ Bits[seq[k]] = b THEN 1 ELSE 0
  <1>1. \A k \in Nat : IsFiniteSet(Upto(seq, k, b)) /\ Cardinality(Upto(seq, k, b)) \in Nat
    <2> SUFFICES ASSUME NEW k \in Nat
                 PROVE IsFiniteSet(Upto(seq, k, b)) /\ Cardinality(Upto(seq, k, b)) \in Nat
      OBVIOUS
    <2>1. IsFiniteSet(1 .. k) /\ Upto(seq, k, b) \subseteq 1 .. k
      BY FS_Interval DEF Upto
    <2> QED
      BY <2>1, FS_Subset, FS_CardinalityType
  <1>2. Upto(seq, 0, b) = {}
    BY DEF Upto
  <1>3. ASSUME NEW k \in Nat \ {0}
        PROVE  Cardinality(Upto(seq, k, b)) = Cardinality(Upto(seq, k - 1, b))
                + IF seq[k] \in Nets /\ Bits[seq[k]] = b THEN 1 ELSE 0
    <2>1. k - 1 \in Nat /\ k \notin Upto(seq, k - 1, b)
      BY DEF Upto
    <2>2. CASE seq[k] \in Nets /\ Bits[seq[k]] = b
      <3>1. Upto(seq, k, b) = Upto(seq, k - 1, b) \cup {k}
        BY <2>2 DEF Upto
      <3> QED
        BY <1>1, <2>1, <2>2, <3>1, FS_AddElement
    <2>3. CASE ~(seq[k] \in Nets /\ Bits[seq[k]] = b)
      <3>1. \A l \in 1 .. k : l \in 1 .. k - 1 \/ l = k
        OBVIOUS
      <3>2. Upto(seq, k, b) = Upto(seq, k - 1, b)
        BY <2>3, <3>1 DEF Upto
      <3> QED
        BY <1>1, <2>1, <2>3, <3>2
    <2> QED
      BY <2>2, <2>3
  <1> QED
    BY <1>1, <1>2, <1>3, FS_EmptySet

LEMMA IRoutesType ==
    ASSUME NEW cn \in CN
    PROVE  /\ IRoutes[cn] \in Seq(Addr)
           /\ \A k \in 1 .. Len(IRoutes[cn]) : IRoutes[cn][k] \in Addr
           /\ \A b : Upto(IRoutes[cn], Len(IRoutes[cn]), b) = OfLength(cn, b)
  <1>1. IRoutes[cn] \in Seq(Addr)
    BY MultiAssumption DEF Addr
  <1> QED
    BY <1>1 DEF Upto, OfLength

\* The operations that the server folds.
HelperOp(d, t, n) == mroute_helper_iroute(t, n, d)
AddOp(i, t, n) == multi_learn_addr(mroute_helper_iroute(t, n, 1), i, n, "host")

Helpers == INSTANCE FoldProofs WITH Op <- HelperOp
Adds == INSTANCE FoldProofs WITH Op <- AddOp

LEMMA DelFold ==
    ASSUME NEW u \in Context, NEW cn \in CN
    PROVE  LET t == Helpers!Fold(-1, u, IRoutes[cn])
           IN  /\ t \in Context /\ SameButLengths(u, t)
               /\ \A b \in Bit : t.net_len_refcount[b] =
                    u.net_len_refcount[b] - Cardinality(OfLength(cn, b))
               /\ IF \E l \in 1 .. Len(IRoutes[cn]) : IRoutes[cn][l] \in Nets
                  THEN NoneCached(t.vhash) ELSE t.vhash = u.vhash
  <1> DEFINE seq == IRoutes[cn]
             N == Len(seq)
             D(k) == {t \in Context :
                /\ SameButLengths(u, t)
                /\ \A b \in Bit : t.net_len_refcount[b] =
                    u.net_len_refcount[b] - Cardinality(Upto(seq, k, b))
                /\ IF \E l \in 1 .. k : seq[l] \in Nets
                   THEN NoneCached(t.vhash) ELSE t.vhash = u.vhash}
             S == [k \in 0 .. N |-> D(k)]
  <1>1. seq \in Seq(Addr) /\ N \in Nat /\ \A k \in 1 .. N : seq[k] \in Addr
    BY IRoutesType
  <1>2. u \in S[0]
    <2>1. SameButLengths(u, u)
      BY DEF SameButLengths, SameOwners
    <2>2. \A b \in Bit : u.net_len_refcount[b] = u.net_len_refcount[b] - Cardinality(Upto(seq, 0, b))
      <3>1. \A b \in Bit : u.net_len_refcount[b] \in Int
        BY DEF Context
      <3> QED
        BY <3>1, UptoCounts
    <2>3. 1 .. 0 = {}
      OBVIOUS
    <2> QED
      BY <1>1, <2>1, <2>2, <2>3
  <1>3. ASSUME NEW k \in 1 .. N, NEW s \in S[k - 1]
        PROVE  HelperOp(-1, s, seq[k]) \in S[k]
    <2> DEFINE t == mroute_helper_iroute(s, seq[k], -1)
    <2>1. k - 1 \in 0 .. N /\ k \in Nat \ {0} /\ seq[k] \in Addr
      BY <1>1
    <2>2. s \in D(k - 1)
      BY <2>1
    <2>3. /\ t \in Context /\ SameButLengths(s, t)
          /\ seq[k] \in Nets => NoneCached(t.vhash)
          /\ seq[k] \notin Nets => t = s
          /\ \A b \in Bit : t.net_len_refcount[b] =
                s.net_len_refcount[b] + Change(seq[k], b, -1)
      <3> HIDE DEF seq, N, S
      <3>1. s \in Context /\ -1 \in Int
        BY <2>2
      <3> HIDE DEF D
      <3> QED
        BY <2>1, <3>1, HelperIroute
    <2> HIDE DEF t
    <2>4. SameButLengths(u, t)
      BY <2>2, <2>3, SameOwnersTrans DEF SameButLengths
    <2>5. ASSUME NEW b \in Bit
          PROVE  t.net_len_refcount[b] = u.net_len_refcount[b] - Cardinality(Upto(seq, k, b))
      <3>1. u.net_len_refcount[b] \in Int
        BY DEF Context
      <3>2. /\ Cardinality(Upto(seq, k - 1, b)) \in Nat
            /\ Cardinality(Upto(seq, k, b)) = Cardinality(Upto(seq, k - 1, b))
                + IF seq[k] \in Nets /\ Bits[seq[k]] = b THEN 1 ELSE 0
        <4> HIDE DEF seq, N, S, D
        <4>1. \A j \in Nat \ {0} : Cardinality(Upto(seq, j, b)) =
                Cardinality(Upto(seq, j - 1, b))
                + IF seq[j] \in Nets /\ Bits[seq[j]] = b THEN 1 ELSE 0
          BY UptoCounts
        <4>2. \A j \in Nat : Cardinality(Upto(seq, j, b)) \in Nat
          BY UptoCounts
        <4>3. k - 1 \in Nat
          BY <1>1
        <4> QED
          BY <2>1, <4>1, <4>2, <4>3
      <3>3. s.net_len_refcount[b] = u.net_len_refcount[b] - Cardinality(Upto(seq, k - 1, b))
        BY <2>2
      <3>4. t.net_len_refcount[b] = s.net_len_refcount[b] + Change(seq[k], b, -1)
        BY <2>3
      <3> QED
        BY <3>1, <3>2, <3>3, <3>4 DEF Change
    <2>6. IF \E l \in 1 .. k : seq[l] \in Nets THEN NoneCached(t.vhash) ELSE t.vhash = u.vhash
      <3>1. CASE seq[k] \in Nets
        BY <2>1, <2>3, <3>1
      <3>2. CASE seq[k] \notin Nets
        <4>1. (\E l \in 1 .. k : seq[l] \in Nets) <=> (\E l \in 1 .. k - 1 : seq[l] \in Nets)
          <5>1. \A l \in 1 .. k : l = k \/ l \in 1 .. k - 1
            BY <1>1
          <5>2. \A l \in 1 .. k - 1 : l \in 1 .. k
            BY <1>1
          <5> QED
            BY <3>2, <5>1, <5>2
        <4> QED
          BY <2>2, <2>3, <3>2, <4>1
      <3> QED
        BY <3>1, <3>2
    <2>7. t \in S[k]
      BY <1>1, <2>3, <2>4, <2>5, <2>6
    <2> QED
      BY <2>7 DEF HelperOp, t
  <1>4. Helpers!Fold(-1, u, seq) \in S[N]
    <2> HIDE DEF seq, N, S
    <2>1. \A k \in 1 .. Len(seq) : \A s \in S[k - 1] : HelperOp(-1, s, seq[k]) \in S[k]
      BY <1>3 DEF N
    <2> QED
      BY <1>1, <1>2, <2>1, Helpers!FoldInvariant DEF N
  <1>5. Helpers!Fold(-1, u, seq) \in D(N)
    BY <1>1, <1>4
  <1> QED
    BY <1>5, IRoutesType

\* The client x has networks among its iroutes; how many of a length.
HasNets(x) ==
    x.did_iroutes /\ \E l \in 1 .. Len(IRoutes[x.locked_cn]) : IRoutes[x.locked_cn][l] \in Nets
NetsOf(x, b) == IF x.did_iroutes THEN Cardinality(OfLength(x.locked_cn, b)) ELSE 0

LEMMA DelIroutes ==
    ASSUME NEW s \in Context, NEW i \in Inst, s.inst[i] \in Instance,
           s.inst[i].did_iroutes => s.inst[i].locked_cn \in CN
    PROVE  LET t == multi_del_iroutes(s, i)
           IN  /\ t \in Context
               /\ t.inst = [s.inst EXCEPT ![i] = [s.inst[i] EXCEPT !.did_iroutes = FALSE]]
               /\ t.hash = s.hash /\ t.iter = s.iter /\ t.schedule = s.schedule
               /\ t.mbuf = s.mbuf /\ t.pool = s.pool
               /\ t.pending = s.pending /\ t.out = s.out
               /\ SameOwners(s.vhash, t.vhash)
               /\ \A b \in Bit : t.net_len_refcount[b] =
                    s.net_len_refcount[b] - NetsOf(s.inst[i], b)
               /\ IF HasNets(s.inst[i]) THEN NoneCached(t.vhash) ELSE t.vhash = s.vhash
  <1> DEFINE t == multi_del_iroutes(s, i)
             x == s.inst[i]
             y == [x EXCEPT !.did_iroutes = FALSE]
             u == [s EXCEPT !.inst[i] = y]
             cn == x.locked_cn
  <1>1. y \in Instance
    BY DEF Instance
  <1>2. CASE x.did_iroutes
    <2>1. t = Helpers!Fold(-1, u, IRoutes[cn])
      BY <1>2 DEF multi_del_iroutes, HelperOp, FoldLeft, MapThenFoldSet,
             Helpers!Fold, Helpers!FoldLeft, Helpers!MapThenFoldSet, Max, Helpers!Max
    <2> HIDE DEF t, y
    <2>2. /\ u \in Context /\ u.inst = [s.inst EXCEPT ![i] = y]
          /\ u.hash = s.hash /\ u.iter = s.iter /\ u.schedule = s.schedule
          /\ u.mbuf = s.mbuf /\ u.pool = s.pool
          /\ u.pending = s.pending /\ u.out = s.out
          /\ u.vhash = s.vhash /\ u.net_len_refcount = s.net_len_refcount
      BY <1>1, ChangedInst
    <2> HIDE DEF u, cn
    <2>3. cn \in CN
      BY <1>2 DEF cn
    <2>4. /\ t \in Context /\ SameButLengths(u, t)
          /\ \A b \in Bit : t.net_len_refcount[b] =
               u.net_len_refcount[b] - Cardinality(OfLength(cn, b))
          /\ IF \E l \in 1 .. Len(IRoutes[cn]) : IRoutes[cn][l] \in Nets
             THEN NoneCached(t.vhash) ELSE t.vhash = u.vhash
      BY <2>1, <2>2, <2>3, DelFold
    <2> QED
      BY <1>2, <2>2, <2>4 DEF SameButLengths, HasNets, NetsOf, t, y, cn
  <1>3. CASE ~x.did_iroutes
    <2>1. t = s
      BY <1>3 DEF multi_del_iroutes
    <2>2. y = x
      BY <1>3 DEF Instance
    <2>3. [s.inst EXCEPT ![i] = y] = s.inst
      BY <2>2 DEF Context
    <2>4. SameOwners(s.vhash, s.vhash) /\ \A b \in Bit : s.net_len_refcount[b] \in Int
      BY DEF SameOwners, Context
    <2> QED
      BY <1>3, <2>1, <2>3, <2>4 DEF HasNets, NetsOf
  <1> QED
    BY <1>2, <1>3

-----------------------------------------------------------------------------
(* The answers of the network routes.                                      *)

\* A network among several is the longest.
LEMMA Longest ==
    ASSUME NEW nets \in SUBSET Nets, nets # {}
    PROVE  \E n \in nets : \A o \in nets : Bits[o] <= Bits[n]
  <1> DEFINE T == {k \in Nat : \A f \in [1 .. k -> Nat] :
                        k > 0 => \E x \in 1 .. k : \A y \in 1 .. k : f[y] <= f[x]}
  <1>1. 0 \in T
    OBVIOUS
  <1>2. ASSUME NEW k \in Nat, k \in T PROVE k + 1 \in T
    <2> SUFFICES ASSUME NEW f \in [1 .. k + 1 -> Nat]
                 PROVE  \E x \in 1 .. k + 1 : \A y \in 1 .. k + 1 : f[y] <= f[x]
      <3>1. k + 1 \in Nat
        OBVIOUS
      <3> QED
        BY <3>1
    <2>1. CASE k = 0
      <3>1. 1 \in 1 .. k + 1 /\ f[1] <= f[1] /\ \A y \in 1 .. k + 1 : y = 1
        BY <2>1
      <3> QED
        BY <3>1
    <2>2. CASE k > 0
      <3> DEFINE g == [y \in 1 .. k |-> f[y]]
      <3>1. g \in [1 .. k -> Nat] /\ \A y \in 1 .. k : g[y] = f[y]
        OBVIOUS
      <3> HIDE DEF g
      <3>2. PICK x \in 1 .. k : \A y \in 1 .. k : g[y] <= g[x]
        BY <1>2, <2>2, <3>1
      <3>3. \A y \in 1 .. k + 1 : y = k + 1 \/ y \in 1 .. k
        OBVIOUS
      <3>4. x \in 1 .. k + 1 /\ k + 1 \in 1 .. k + 1
        OBVIOUS
      <3>5. f[x] \in Nat /\ f[k + 1] \in Nat
        BY <3>4
      <3>6. \A y \in 1 .. k : f[y] <= f[x] /\ f[y] \in Nat
        BY <3>1, <3>2
      <3>7. CASE f[k + 1] <= f[x]
        BY <3>3, <3>4, <3>6, <3>7
      <3>8. CASE f[x] < f[k + 1]
        <4>1. \A y \in 1 .. k + 1 : f[y] <= f[k + 1]
          BY <3>3, <3>4, <3>5, <3>6, <3>8
        <4> QED
          BY <3>4, <4>1
      <3> QED
        BY <3>5, <3>7, <3>8
    <2> QED
      BY <2>1, <2>2
  <1>3. T = Nat
    <2> HIDE DEF T
    <2>1. \A k \in Nat : k \in T
      BY <1>1, <1>2, Helpers!SetInduction
    <2> QED
      BY <2>1 DEF T
  <1>4. IsFiniteSet(nets) /\ Cardinality(nets) \in Nat \ {0}
    BY MultiAssumption, FS_Subset, FS_EmptySet, FS_CardinalityType
  <1> DEFINE N == Cardinality(nets)
  <1>5. PICK g : g \in Bijection(1 .. N, nets)
    BY <1>4, FS_CardinalityType DEF ExistsBijection
  <1>6. g \in [1 .. N -> nets] /\ \A n \in nets : \E j \in 1 .. N : g[j] = n
    BY <1>5 DEF Bijection, Injection, Surjection
  <1> DEFINE f == [j \in 1 .. N |-> Bits[g[j]]]
  <1>7. f \in [1 .. N -> Nat] /\ N \in Nat /\ N > 0
    BY <1>4, <1>6, MultiAssumption
  <1> HIDE DEF N
  <1>8. \E x \in 1 .. N : \A y \in 1 .. N : f[y] <= f[x]
    <2> HIDE DEF f
    <2> QED
      BY <1>3, <1>7
  <1> QED
    BY <1>6, <1>8

\* They depend on the networks alone.
LEMMA NetOwnerSame ==
    ASSUME NEW s \in Context, NEW t \in Context,
           t.net_len_refcount = s.net_len_refcount,
           \A n \in Nets : multi_route_defined(t, n) <=> multi_route_defined(s, n),
           \A n \in Nets : multi_route_defined(s, n) => t.vhash[n] = s.vhash[n]
    PROVE  \A a : NetOwner(t, a) = NetOwner(s, a)
  <1> SUFFICES ASSUME NEW a PROVE NetOwner(t, a) = NetOwner(s, a)
    OBVIOUS
  <1>1. NetRoutes(t, a) = NetRoutes(s, a)
    BY DEF NetRoutes
  <1> DEFINE nets == NetRoutes(s, a)
             n == CHOOSE n \in nets : \A o \in nets : Bits[o] <= Bits[n]
  <1>2. CASE nets # {}
    <2>1. \E k \in nets : \A o \in nets : Bits[o] <= Bits[k]
      BY <1>2, Longest DEF NetRoutes
    <2>2. n \in Nets /\ multi_route_defined(s, n)
      BY <2>1 DEF NetRoutes
    <2> QED
      BY <1>1, <1>2, <2>2 DEF NetOwner
  <1>3. CASE nets = {}
    BY <1>1, <1>3 DEF NetOwner
  <1> QED
    BY <1>2, <1>3

LEMMA DefinedSame ==
    ASSUME NEW s \in Context, NEW t \in Context, SameButRoutes(s, t), Counts(s), Counts(t),
           NEW a \in Addr, t.vhash[a] = s.vhash[a]
    PROVE  multi_route_defined(t, a) <=> multi_route_defined(s, a)
  <1>1. CASE s.vhash[a] = NULL
    BY <1>1 DEF multi_route_defined
  <1>2. CASE s.vhash[a] # NULL
    <2> DEFINE i == s.vhash[a].instance
    <2>1. i \in Inst
      BY <1>2 DEF Context, Route
    <2>2. t.inst[i] # NULL
      BY <1>2 DEF Counts, CountsWith
    <2>3. t.inst[i].halt = s.inst[i].halt
      BY <2>1, <2>2 DEF SameButRoutes
    <2> QED
      BY <2>3 DEF multi_route_defined
  <1> QED
    BY <1>1, <1>2

\* Routes that keep what Routing says of them.
LEMMA RoutingKept ==
    ASSUME NEW s \in Context, NEW t \in Context, SameButRoutes(s, t),
           Counts(s), Counts(t), Routing(s),
           NEW A \in SUBSET Addr,
           \A a \in A : t.vhash[a] = s.vhash[a] \/ t.vhash[a] = NULL,
           t.net_len_refcount = s.net_len_refcount,
           \A n \in Nets : multi_route_defined(t, n) <=> multi_route_defined(s, n),
           \A n \in Nets : multi_route_defined(s, n) => t.vhash[n] = s.vhash[n]
    PROVE  /\ \A a : NetOwner(t, a) = NetOwner(s, a)
           /\ \A n \in Nets \cap A : NetworkRoute(t, n)
           /\ \A a \in Hosts \cap A : CachedRoute(t, a)
  <1>1. \A a : NetOwner(t, a) = NetOwner(s, a)
    BY NetOwnerSame
  <1>2. Live(t) = Live(s) /\ \A i \in Live(s) : i \in Inst /\ SameClient(s.inst[i], t.inst[i])
    BY SameButRoutesLive DEF Live, SameButRoutes
  <1> QED
    BY <1>1, <1>2 DEF Routing, NetworkRoute, CachedRoute, SameClient

\* A route that is learned: a network only with the current generation, and
\* the answer of the network routes only as what it is.
LEMMA LearnRouting ==
    ASSUME NEW s \in Context, Counts(s), Routing(s), NEW i \in Live(s), NEW a \in Addr,
           NEW kind \in {"host", "cached"},
           a \in Nets => /\ kind = "host" /\ NoneCached(s.vhash)
                         /\ s.inst[i].did_iroutes
                         /\ a \in ToSet(IRoutes[s.inst[i].locked_cn]),
           a \in Hosts /\ kind = "cached" => i = NetOwner(s, a)
    PROVE  Routing(multi_learn_addr(s, i, a, kind))
  <1> DEFINE t == multi_learn_addr(s, i, a, kind)
             new == [instance |-> i, kind |-> kind]
  <1>1. /\ t \in Context /\ Counts(t) /\ SameButRoutes(s, t)
        /\ t.vhash = IF MayLearn(s, i, a) THEN [s.vhash EXCEPT ![a] = new] ELSE s.vhash
        /\ t.net_len_refcount = s.net_len_refcount
    BY LearnAddr
  <1> HIDE DEF t
  <1>2. CASE ~MayLearn(s, i, a)
    <2>1. t.vhash = s.vhash
      BY <1>1, <1>2
    <2>2. \A n \in Nets : multi_route_defined(t, n) <=> multi_route_defined(s, n)
      BY <1>1, <2>1, DefinedSame DEF Addr
    <2>3. Addr \in SUBSET Addr
      OBVIOUS
    <2>4. Routing(t)
      <3>1. \A n \in Nets : n \in Nets \cap Addr
        BY DEF Addr
      <3>2. \A b \in Hosts : b \in Hosts \cap Addr
        BY DEF Addr
      <3>3. /\ \A n \in Nets \cap Addr : NetworkRoute(t, n)
            /\ \A b \in Hosts \cap Addr : CachedRoute(t, b)
        BY <1>1, <2>1, <2>2, <2>3, RoutingKept
      <3> QED
        BY <3>1, <3>2, <3>3 DEF Routing
    <2> QED
      BY <2>4 DEF t
  <1>3. CASE MayLearn(s, i, a)
    <2>1. t.vhash = [s.vhash EXCEPT ![a] = new]
      BY <1>1, <1>3
    <2>2. /\ Live(t) = Live(s) /\ t.vhash[a] = new /\ i \in Inst
          /\ SameClient(s.inst[i], t.inst[i])
          /\ \A b \in Addr \ {a} : t.vhash[b] = s.vhash[b]
      BY <1>1, <2>1, SameButRoutesLive DEF Context, SameButRoutes, Live
    <2>3. CASE a \in Hosts
      <3>1. \A n \in Nets : n \in Addr \ {a}
        BY <2>3, MultiAssumption DEF Addr
      <3>2. \A n \in Nets : multi_route_defined(t, n) <=> multi_route_defined(s, n)
        BY <1>1, <2>2, <3>1, DefinedSame
      <3>3. /\ \A n \in Nets : NetworkRoute(t, n)
            /\ \A b \in Hosts \ {a} : CachedRoute(t, b)
            /\ NetOwner(t, a) = NetOwner(s, a)
        <4>1. Addr \ {a} \in SUBSET Addr
          OBVIOUS
        <4>2. \A b \in Addr \ {a} : t.vhash[b] = s.vhash[b] \/ t.vhash[b] = NULL
          BY <2>2
        <4>3. \A b \in Hosts \ {a} : b \in Hosts \cap (Addr \ {a})
          BY DEF Addr
        <4>4. \A n \in Nets : t.vhash[n] = s.vhash[n] /\ n \in Nets \cap (Addr \ {a})
          BY <2>2, <3>1
        <4>5. /\ \A b : NetOwner(t, b) = NetOwner(s, b)
              /\ \A n \in Nets \cap (Addr \ {a}) : NetworkRoute(t, n)
              /\ \A b \in Hosts \cap (Addr \ {a}) : CachedRoute(t, b)
          BY <1>1, <3>2, <4>1, <4>2, <4>4, RoutingKept
        <4> QED
          BY <4>3, <4>4, <4>5
      <3>4. CachedRoute(t, a)
        BY <2>2, <2>3, <3>3 DEF CachedRoute
      <3> QED
        BY <3>3, <3>4 DEF Routing, t
    <2>4. CASE a \in Nets
      <3>1. \A b \in Addr : t.vhash[b] # NULL => t.vhash[b].kind # "cached"
        BY <2>2, <2>4 DEF NoneCached
      <3>2. ASSUME NEW n \in Nets, t.vhash[n] # NULL
            PROVE  NetworkRoute(t, n)
        <4>1. CASE n = a
          BY <2>2, <2>4, <4>1 DEF SameClient, NetworkRoute
        <4>2. CASE n # a
          <5>1. t.vhash[n] = s.vhash[n]
            BY <2>2, <4>2 DEF Addr
          <5>2. \A j \in Live(s) : SameClient(s.inst[j], t.inst[j])
            BY <1>1 DEF SameButRoutes, Live
          <5> QED
            BY <2>2, <3>2, <5>1, <5>2 DEF Routing, NetworkRoute, SameClient
        <4> QED
          BY <4>1, <4>2
      <3> QED
        BY <3>1, <3>2 DEF Routing, NetworkRoute, CachedRoute, Addr, t
    <2> QED
      BY <2>3, <2>4 DEF Addr
  <1> QED
    BY <1>2, <1>3

\* Another generation: no route is cached, and those to networks stay.
LEMMA RenewedRouting ==
    ASSUME NEW s \in Context, NEW t \in Context, Routing(s), NoneCached(t.vhash),
           SameOwners(s.vhash, t.vhash), NEW L \in SUBSET Live(s), Live(t) = L,
           \A i \in L : SameClient(s.inst[i], t.inst[i])
    PROVE  Routing(t)
  <1>1. \A n \in Nets : n \in Addr
    BY DEF Addr
  <1>2. \A n \in Nets : NetworkRoute(t, n)
    <2> SUFFICES ASSUME NEW n \in Nets, t.vhash[n] # NULL PROVE NetworkRoute(t, n)
      BY DEF NetworkRoute
    <2>1. s.vhash[n] # NULL /\ NetworkRoute(s, n)
      BY <1>1 DEF SameOwners, Routing
    <2>2. t.vhash[n] = s.vhash[n]
      BY <1>1, <2>1 DEF SameOwners, NetworkRoute
    <2> QED
      BY <2>1, <2>2 DEF NetworkRoute, SameClient
  <1>3. \A a \in Hosts : CachedRoute(t, a)
    BY DEF CachedRoute, NoneCached, Addr
  <1> QED
    BY <1>2, <1>3 DEF Routing

\* What the iroutes of the client of i change of the record u.
WithIroutes(u, t, i, seq, k) ==
    /\ Counts(t) /\ Routing(t) /\ SameButRoutes(u, t)
    /\ \A b \in Bit : t.net_len_refcount[b] =
            u.net_len_refcount[b] + Cardinality(Upto(seq, k, b))
    /\ \A j \in Inst \ {i} : RoutesTo(t, j) \subseteq RoutesTo(u, j)
    /\ \A a \in Addr \ ToSet(seq) : u.vhash[a] # NULL /\ u.vhash[a].kind = "host"
            => t.vhash[a] = u.vhash[a]

LEMMA AddStep ==
    ASSUME NEW u \in Context, NEW i \in Live(u), NEW cn \in CN,
           u.inst[i].did_iroutes, u.inst[i].locked_cn = cn,
           NEW k \in 1 .. Len(IRoutes[cn]),
           NEW s \in Context, WithIroutes(u, s, i, IRoutes[cn], k - 1)
    PROVE  LET t == AddOp(i, s, IRoutes[cn][k])
           IN  t \in Context /\ WithIroutes(u, t, i, IRoutes[cn], k)
  <1> DEFINE seq == IRoutes[cn]
             n == seq[k]
             w == mroute_helper_iroute(s, n, 1)
             t == multi_learn_addr(w, i, n, "host")
  <1>1. /\ n \in Addr /\ n \in ToSet(seq) /\ k \in Nat \ {0} /\ k - 1 \in Nat
    BY IRoutesType DEF ToSet
  <1> HIDE DEF seq, n
  <1>2. Counts(s) /\ Routing(s) /\ SameButRoutes(u, s)
    BY DEF WithIroutes
  <1>3. Live(s) = Live(u) /\ i \in Inst /\ SameClient(u.inst[i], s.inst[i])
    BY <1>2, SameButRoutesLive DEF Live, SameButRoutes
  <1>4. /\ w \in Context /\ SameButLengths(s, w)
        /\ n \in Nets => NoneCached(w.vhash)
        /\ n \notin Nets => w = s
        /\ \A b \in Bit : w.net_len_refcount[b] = s.net_len_refcount[b] + Change(n, b, 1)
    BY <1>1, HelperIroute
  <1> HIDE DEF w
  <1>5. Counts(w) /\ SameButRoutes(s, w) /\ Live(w) = Live(s)
    BY <1>2, <1>4, SameButLengthsCounts, SameButLengthsRoutes, SameButRoutesLive DEF Counts
  <1>6. w.inst = s.inst /\ i \in Live(w) /\ w.inst[i].did_iroutes /\ w.inst[i].locked_cn = cn
    BY <1>3, <1>4, <1>5 DEF SameButLengths, SameClient
  <1>7. Routing(w)
    <2>1. CASE n \in Nets
      <3>1. \A j \in Live(s) : SameClient(s.inst[j], w.inst[j])
        BY <1>6 DEF SameClient
      <3> QED
        BY <1>2, <1>4, <1>5, <2>1, <3>1, RenewedRouting DEF SameButLengths
    <2>2. CASE n \notin Nets
      BY <1>2, <1>4, <2>2
    <2> QED
      BY <2>1, <2>2
  <1>8. /\ t \in Context /\ Counts(t) /\ SameButRoutes(w, t)
        /\ t.vhash = IF MayLearn(w, i, n)
                     THEN [w.vhash EXCEPT ![n] = [instance |-> i, kind |-> "host"]]
                     ELSE w.vhash
        /\ t.net_len_refcount = w.net_len_refcount
    BY <1>1, <1>4, <1>5, <1>6, LearnAddr
  <1>9. Routing(t)
    <2>1. n \in Nets => /\ NoneCached(w.vhash) /\ w.inst[i].did_iroutes
                        /\ n \in ToSet(IRoutes[w.inst[i].locked_cn])
      BY <1>1, <1>4, <1>6 DEF seq
    <2> QED
      BY <1>1, <1>4, <1>5, <1>6, <1>7, <2>1, LearnRouting
  <1> HIDE DEF t
  <1>10. SameButRoutes(u, t)
    BY <1>2, <1>4, <1>5, <1>8, SameButRoutesTrans
  <1>11. ASSUME NEW b \in Bit
         PROVE  t.net_len_refcount[b] = u.net_len_refcount[b] + Cardinality(Upto(seq, k, b))
    <2>1. u.net_len_refcount[b] \in Int
      BY DEF Context
    <2>2. s.net_len_refcount[b] = u.net_len_refcount[b] + Cardinality(Upto(seq, k - 1, b))
      BY DEF WithIroutes, seq
    <2>3. /\ Cardinality(Upto(seq, k - 1, b)) \in Nat
          /\ Cardinality(Upto(seq, k, b)) =
                Cardinality(Upto(seq, k - 1, b)) + Change(n, b, 1)
      BY <1>1, UptoCounts DEF Change, n
    <2>4. Change(n, b, 1) \in Int
      BY DEF Change
    <2> QED
      BY <1>4, <1>8, <2>1, <2>2, <2>3, <2>4
  <1>12. ASSUME NEW j \in Inst \ {i} PROVE RoutesTo(t, j) \subseteq RoutesTo(u, j)
    <2>1. RoutesTo(w, j) = RoutesTo(s, j)
      BY <1>4, SameOwnersRoutes DEF SameButLengths
    <2>2. RoutesTo(t, j) \subseteq RoutesTo(w, j)
      BY <1>1, <1>4, <1>8 DEF RoutesTo, Context
    <2> QED
      BY <2>1, <2>2 DEF WithIroutes
  <1>13. ASSUME NEW a \in Addr \ ToSet(seq), u.vhash[a] # NULL, u.vhash[a].kind = "host"
         PROVE  t.vhash[a] = u.vhash[a]
    <2>1. s.vhash[a] = u.vhash[a]
      BY <1>13 DEF WithIroutes, seq
    <2>2. w.vhash[a] = s.vhash[a]
      BY <1>4, <1>13, <2>1 DEF SameButLengths, SameOwners
    <2>3. t.vhash[a] = w.vhash[a]
      BY <1>1, <1>4, <1>8 DEF Context
    <2> QED
      BY <2>1, <2>2, <2>3
  <1> QED
    BY <1>8, <1>9, <1>10, <1>11, <1>12, <1>13 DEF WithIroutes, AddOp, t, w, n, seq

LEMMA AddFold ==
    ASSUME NEW u \in Context, NEW i \in Live(u), NEW cn \in CN, Counts(u), Routing(u),
           u.inst[i].did_iroutes, u.inst[i].locked_cn = cn
    PROVE  LET t == Adds!Fold(i, u, IRoutes[cn])
           IN  t \in Context /\ WithIroutes(u, t, i, IRoutes[cn], Len(IRoutes[cn]))
  <1> DEFINE seq == IRoutes[cn]
             N == Len(seq)
             D(k) == {t \in Context : WithIroutes(u, t, i, seq, k)}
             S == [k \in 0 .. N |-> D(k)]
  <1>1. seq \in Seq(Addr) /\ N \in Nat
    BY IRoutesType
  <1>2. u \in S[0]
    <2>1. \A b \in Bit : u.net_len_refcount[b] = u.net_len_refcount[b] + Cardinality(Upto(seq, 0, b))
      <3>1. \A b \in Bit : u.net_len_refcount[b] \in Int
        BY DEF Context
      <3> QED
        BY <3>1, UptoCounts
    <2>2. WithIroutes(u, u, i, seq, 0)
      BY <2>1, SameButRoutesRefl DEF WithIroutes
    <2> QED
      BY <1>1, <2>2
  <1>3. ASSUME NEW k \in 1 .. N, NEW s \in S[k - 1]
        PROVE  AddOp(i, s, seq[k]) \in S[k]
    <2>1. k - 1 \in 0 .. N /\ k \in 0 .. N
      BY <1>1
    <2>2. s \in Context /\ WithIroutes(u, s, i, seq, k - 1)
      BY <2>1
    <2>3. AddOp(i, s, seq[k]) \in Context /\ WithIroutes(u, AddOp(i, s, seq[k]), i, seq, k)
      BY <2>2, AddStep
    <2> QED
      BY <2>1, <2>3
  <1>4. Adds!Fold(i, u, seq) \in S[N]
    <2> HIDE DEF seq, N, S
    <2>1. \A k \in 1 .. Len(seq) : \A s \in S[k - 1] : AddOp(i, s, seq[k]) \in S[k]
      BY <1>3 DEF N
    <2> QED
      BY <1>1, <1>2, <2>1, Adds!FoldInvariant DEF N
  <1> QED
    BY <1>1, <1>4

\* The iroutes of a client that has none yet.
LEMMA AddIroutes ==
    ASSUME NEW s \in Context, NEW i \in Live(s), Counts(s), Routing(s),
           ~s.inst[i].did_iroutes, s.inst[i].locked_cn \in CN
    PROVE  LET t == multi_add_iroutes(s, i)
               u == [s EXCEPT !.inst[i].did_iroutes = TRUE]
               seq == IRoutes[s.inst[i].locked_cn]
           IN  /\ t \in Context /\ u \in Context
               /\ u.inst = [s.inst EXCEPT ![i] = [s.inst[i] EXCEPT !.did_iroutes = TRUE]]
               /\ u.hash = s.hash /\ u.iter = s.iter /\ u.schedule = s.schedule
               /\ u.mbuf = s.mbuf /\ u.pool = s.pool
               /\ u.pending = s.pending /\ u.out = s.out
               /\ u.vhash = s.vhash /\ u.net_len_refcount = s.net_len_refcount
               /\ WithIroutes(u, t, i, seq, Len(seq))
  <1> DEFINE t == multi_add_iroutes(s, i)
             x == s.inst[i]
             y == [x EXCEPT !.did_iroutes = TRUE]
             u == [s EXCEPT !.inst[i] = y]
             cn == x.locked_cn
  <1>1. i \in Inst /\ x \in Instance /\ x # NULL /\ ~x.halt
    BY DEF Live, Context
  <1>2. y \in Instance /\ y.did_iroutes /\ y.locked_cn = cn /\ ~y.halt
        /\ y.refcount = x.refcount /\ y.route_count = x.route_count /\ y.halt = x.halt
    BY <1>1 DEF Instance
  <1>3. t = Adds!Fold(i, u, IRoutes[cn])
    BY DEF multi_add_iroutes, AddOp, FoldLeft, MapThenFoldSet, Max,
           Adds!Fold, Adds!FoldLeft, Adds!MapThenFoldSet, Adds!Max
  <1> HIDE DEF t, y
  <1>4. /\ u \in Context /\ u.inst = [s.inst EXCEPT ![i] = y]
        /\ u.hash = s.hash /\ u.iter = s.iter /\ u.schedule = s.schedule
        /\ u.mbuf = s.mbuf /\ u.pool = s.pool
        /\ u.pending = s.pending /\ u.out = s.out
        /\ u.vhash = s.vhash /\ u.net_len_refcount = s.net_len_refcount
    BY <1>1, <1>2, ChangedInst
  <1> HIDE DEF u
  <1>5. u.inst[i] = y /\ i \in Live(u) /\ \A j \in Inst \ {i} : u.inst[j] = s.inst[j]
    BY <1>1, <1>2, <1>4, NullInst DEF Context, Live
  <1>6. Counts(u)
    <2>1. \A j \in Inst : RoutesTo(u, j) = RoutesTo(s, j)
      BY <1>4 DEF RoutesTo
    <2>2. \A j \in Inst : u.inst[j] # NULL => /\ s.inst[j] # NULL
                                              /\ u.inst[j].refcount = s.inst[j].refcount
                                              /\ u.inst[j].route_count = s.inst[j].route_count
                                              /\ u.inst[j].halt = s.inst[j].halt
      BY <1>1, <1>2, <1>5
    <2>3. \A j \in Inst : s.inst[j] # NULL => u.inst[j] # NULL
      BY <1>1, <1>2, <1>5, NullInst
    <2>4. \A a \in Addr : s.vhash[a] # NULL => s.vhash[a].instance \in Inst
      BY DEF Context, Route
    <2> QED
      BY <1>4, <2>1, <2>2, <2>3, <2>4 DEF Counts, CountsWith
  <1>7. Routing(u)
    <2>1. Live(u) = Live(s)
      BY <1>1, <1>2, <1>5, NullInst DEF Live
    <2>2. \A n \in Nets : multi_route_defined(u, n) <=> multi_route_defined(s, n)
      <3>1. \A n \in Nets : s.vhash[n] # NULL =>
                u.inst[s.vhash[n].instance].halt = s.inst[s.vhash[n].instance].halt
        BY <1>1, <1>2, <1>5 DEF Context, Route, Addr
      <3> QED
        BY <1>4, <3>1 DEF multi_route_defined
    <2>3. \A a : NetOwner(u, a) = NetOwner(s, a)
      BY <1>4, <2>2, NetOwnerSame
    <2>4. ASSUME NEW n \in Nets PROVE NetworkRoute(u, n)
      BY <1>1, <1>2, <1>4, <1>5, <2>1 DEF Routing, NetworkRoute, Live
    <2> QED
      BY <1>4, <2>1, <2>3, <2>4 DEF Routing, CachedRoute
  <1>8. t \in Context /\ WithIroutes(u, t, i, IRoutes[cn], Len(IRoutes[cn]))
    <2>1. cn \in CN
      OBVIOUS
    <2> HIDE DEF cn
    <2> QED
      BY <1>2, <1>3, <1>5, <1>4, <1>6, <1>7, <2>1, AddFold
  <1> QED
    BY <1>4, <1>8 DEF t, u, y

-----------------------------------------------------------------------------
(* Sequences.                                                              *)

LEMMA Least ==
    ASSUME NEW S \in SUBSET Nat, S # {}
    PROVE  \E x \in S : \A y \in S : x <= y
  <1> DEFINE T == {k \in Nat : \A u \in SUBSET Nat :
                        (\E x \in u : x <= k) => \E x \in u : \A y \in u : x <= y}
  <1>1. 0 \in T
    OBVIOUS
  <1>2. ASSUME NEW k \in Nat, k \in T PROVE k + 1 \in T
    <2> SUFFICES ASSUME NEW u \in SUBSET Nat, \E x \in u : x <= k + 1
                 PROVE  \E x \in u : \A y \in u : x <= y
      OBVIOUS
    <2>1. CASE \E x \in u : x <= k
      BY <1>2, <2>1
    <2>2. CASE ~ \E x \in u : x <= k
      <3>1. PICK x \in u : x <= k + 1
        OBVIOUS
      <3>2. \A y \in u : x <= y
        BY <2>2, <3>1
      <3> QED
        BY <3>2
    <2> QED
      BY <2>1, <2>2
  <1>3. PICK n \in S : TRUE
    OBVIOUS
  <1>4. n \in T
    <2> HIDE DEF T
    <2> QED
      BY <1>1, <1>2, Helpers!SetInduction
  <1> QED
    BY <1>3, <1>4

\* Without the first e.
LEMMA RemoveFirstProperties ==
    ASSUME NEW E, NEW q \in Seq(E), NEW e
    PROVE  LET r == RemoveFirst(q, e)
           IN  /\ r \in Seq(E)
               /\ ToSet(q) \ {e} \subseteq ToSet(r) /\ ToSet(r) \subseteq ToSet(q)
               /\ (\A k, l \in DOMAIN q : q[k] = q[l] => k = l)
                    => /\ \A k, l \in DOMAIN r : r[k] = r[l] => k = l
                       /\ ToSet(r) = ToSet(q) \ {e}
  <1> DEFINE r == RemoveFirst(q, e)
             I == {k \in 1 .. Len(q) : q[k] = e}
  <1>0. Len(q) \in Nat /\ DOMAIN q = 1 .. Len(q)
    OBVIOUS
  <1>1. CASE I = {}
    <2>1. r = q /\ e \notin ToSet(q)
      BY <1>0, <1>1 DEF RemoveFirst, ToSet
    <2> QED
      BY <2>1
  <1>2. CASE I # {}
    <2> DEFINE j == Min(I)
    <2>1. j \in I
      <3>1. I \in SUBSET Nat
        BY <1>0
      <3>2. \E x \in I : \A y \in I : x <= y
        <4> HIDE DEF I
        <4> QED
          BY <1>2, <3>1, Least
      <3> QED
        BY <3>2 DEF Min
    <2>2. j \in 1 .. Len(q) /\ q[j] = e
      BY <2>1
    <2>3. r = SubSeq(q, 1, j - 1) \o SubSeq(q, j + 1, Len(q))
      BY <1>2 DEF RemoveFirst, RemoveAt, SelectInSeq
    <2> HIDE DEF j, r
    <2> DEFINE a == SubSeq(q, 1, j - 1)
               b == SubSeq(q, j + 1, Len(q))
    <2>4. /\ a \in Seq(E) /\ Len(a) = j - 1 /\ \A k \in 1 .. j - 1 : a[k] = q[k]
      BY <1>0, <2>2
    <2>5. /\ b \in Seq(E) /\ Len(b) = Len(q) - j
          /\ \A k \in 1 .. Len(q) - j : b[k] = q[j + k]
      BY <1>0, <2>2
    <2> HIDE DEF a, b
    <2>6. r \in Seq(E) /\ Len(r) = Len(q) - 1
      <3>1. r = a \o b
        BY <2>3 DEF a, b
      <3>2. r \in Seq(E) /\ Len(r) = Len(a) + Len(b)
        BY <2>4, <2>5, <3>1, ConcatProperties
      <3> QED
        BY <1>0, <2>2, <2>4, <2>5, <3>2
    <2>7. \A k \in 1 .. Len(q) - 1 : r[k] = q[IF k < j THEN k ELSE k + 1]
      <3> SUFFICES ASSUME NEW k \in 1 .. Len(q) - 1
                   PROVE  r[k] = q[IF k < j THEN k ELSE k + 1]
        OBVIOUS
      <3>1. k \in 1 .. Len(a) + Len(b)
        BY <1>0, <2>2, <2>4, <2>5
      <3>2. r[k] = IF k <= Len(a) THEN a[k] ELSE b[k - Len(a)]
        BY <2>3, <2>4, <2>5, <3>1, ConcatProperties DEF a, b
      <3>3. CASE k < j
        BY <1>0, <2>2, <2>4, <3>2, <3>3
      <3>4. CASE ~(k < j)
        <4>1. k - Len(a) \in 1 .. Len(q) - j /\ j + (k - Len(a)) = k + 1 /\ ~(k <= Len(a))
          BY <1>0, <2>2, <2>4, <3>4
        <4> QED
          BY <2>5, <3>2, <3>4, <4>1
      <3> QED
        BY <3>3, <3>4
    <2>8. DOMAIN r = 1 .. Len(q) - 1
      BY <2>6
    <2>9. ToSet(r) \subseteq ToSet(q)
      BY <1>0, <2>2, <2>7, <2>8 DEF ToSet
    <2>10. \A k \in 1 .. Len(q) : k # j => q[k] \in ToSet(r)
      <3> SUFFICES ASSUME NEW k \in 1 .. Len(q), k # j PROVE q[k] \in ToSet(r)
        OBVIOUS
      <3>1. CASE k < j
        <4>1. k \in 1 .. Len(q) - 1 /\ r[k] = q[k]
          BY <1>0, <2>2, <2>7, <3>1
        <4> QED
          BY <2>8, <4>1 DEF ToSet
      <3>2. CASE k > j
        <4>1. k - 1 \in 1 .. Len(q) - 1 /\ ~(k - 1 < j) /\ (k - 1) + 1 = k
          BY <1>0, <2>2, <3>2
        <4>2. r[k - 1] = q[k]
          BY <2>7, <4>1
        <4> QED
          BY <2>8, <4>1, <4>2 DEF ToSet
      <3> QED
        BY <2>2, <3>1, <3>2
    <2>11. ToSet(q) \ {e} \subseteq ToSet(r)
      BY <1>0, <2>2, <2>10 DEF ToSet
    <2>12. ASSUME \A k, l \in DOMAIN q : q[k] = q[l] => k = l
           PROVE  /\ \A k, l \in DOMAIN r : r[k] = r[l] => k = l
                  /\ ToSet(r) = ToSet(q) \ {e}
      <3>1. ASSUME NEW k \in DOMAIN r, NEW l \in DOMAIN r, r[k] = r[l] PROVE k = l
        <4> DEFINE f(x) == IF x < j THEN x ELSE x + 1
        <4>1. k \in 1 .. Len(q) - 1 /\ l \in 1 .. Len(q) - 1
          BY <2>8
        <4>2. f(k) \in DOMAIN q /\ f(l) \in DOMAIN q /\ q[f(k)] = q[f(l)]
          BY <1>0, <2>2, <2>7, <3>1, <4>1
        <4>3. f(k) = f(l)
          BY <2>12, <4>2
        <4> QED
          BY <1>0, <2>2, <4>1, <4>3
      <3>2. ASSUME e \in ToSet(r) PROVE FALSE
        <4>1. PICK k \in 1 .. Len(q) - 1 : r[k] = e
          BY <2>8, <3>2 DEF ToSet
        <4> DEFINE x == IF k < j THEN k ELSE k + 1
        <4>2. x \in DOMAIN q /\ q[x] = e /\ x # j
          BY <1>0, <2>2, <2>7, <4>1
        <4> QED
          BY <1>0, <2>2, <2>12, <4>2
      <3> QED
        BY <2>9, <2>11, <3>1, <3>2
    <2> QED
      BY <2>6, <2>9, <2>11, <2>12 DEF r
  <1> QED
    BY <1>1, <1>2

-----------------------------------------------------------------------------
(* The queue of packets.                                                   *)

LEMMA OldestQueued ==
    ASSUME NEW E, NEW q \in Seq(E), Queued(q) # {}
    PROVE  Oldest(q) \in 1 .. Len(q) /\ q[Oldest(q)] # NULL
  <1>1. Queued(q) \in SUBSET Nat /\ Queued(q) \subseteq 1 .. Len(q)
    BY DEF Queued
  <1>2. \E k \in Queued(q) : \A l \in Queued(q) : k <= l
    BY <1>1, Least
  <1>3. Oldest(q) \in Queued(q)
    BY <1>2 DEF Oldest
  <1> QED
    BY <1>1, <1>3 DEF Queued

LEMMA RestShorter ==
    ASSUME NEW E, NEW q \in Seq(E)
    PROVE  /\ Rest(q) \in Seq(E) /\ Len(Rest(q)) <= Len(q)
           /\ Len(q) > 0 => Len(Rest(q)) < Len(q)
  <1>1. CASE Queued(q) = {}
    BY <1>1 DEF Rest
  <1>2. CASE Queued(q) # {}
    <2>1. Oldest(q) \in 1 .. Len(q)
      BY <1>2, OldestQueued
    <2> DEFINE o == Oldest(q)
    <2> HIDE DEF o
    <2>2. Rest(q) = SubSeq(q, o + 1, Len(q)) /\ o \in 1 .. Len(q)
      BY <1>2, <2>1 DEF Rest, o
    <2>3. SubSeq(q, o + 1, Len(q)) \in Seq(E) /\ Len(SubSeq(q, o + 1, Len(q))) = Len(q) - o
      BY <2>2
    <2> QED
      BY <2>2, <2>3
  <1> QED
    BY <1>1, <1>2

LEMMA QueueAdd ==
    ASSUME NEW E, NEW q \in QueueOf(E), NEW i \in E
    PROVE  mbuf_add_item(q, i) \in QueueOf(E)
  <1>1. q \in Seq(E \cup {NULL}) /\ Len(q) <= MbufSize /\ Len(q) \in Nat
    BY DEF QueueOf
  <1>2. CASE Len(q) = MbufSize
    <2>1. Rest(q) \in Seq(E \cup {NULL}) /\ Len(Rest(q)) < Len(q)
      BY <1>1, <1>2, RestShorter, NullInst
    <2> QED
      BY <1>1, <1>2, <2>1, NullInst DEF mbuf_add_item, QueueOf
  <1>3. CASE Len(q) # MbufSize
    BY <1>1, <1>3, NullInst DEF mbuf_add_item, QueueOf
  <1> QED
    BY <1>2, <1>3

LEMMA QueueRest ==
    ASSUME NEW E, NEW q \in QueueOf(E)
    PROVE  Rest(q) \in QueueOf(E)
  <1>1. q \in Seq(E \cup {NULL}) /\ Len(q) <= MbufSize /\ Len(q) \in Nat
    BY DEF QueueOf
  <1>2. Rest(q) \in Seq(E \cup {NULL}) /\ Len(Rest(q)) <= Len(q)
    BY <1>1, RestShorter
  <1> QED
    BY <1>1, <1>2, NullInst DEF QueueOf

LEMMA QueueDereference ==
    ASSUME NEW E, NEW q \in QueueOf(E), NEW i
    PROVE  /\ mbuf_dereference_instance(q, i) \in QueueOf(E \ {i})
           /\ q = <<>> => mbuf_dereference_instance(q, i) = <<>>
  <1> DEFINE r == mbuf_dereference_instance(q, i)
  <1>1. q \in Seq(E \cup {NULL}) /\ Len(q) <= MbufSize /\ DOMAIN q = 1 .. Len(q)
    BY DEF QueueOf
  <1>2. r \in [1 .. Len(q) -> (E \ {i}) \cup {NULL}]
    BY <1>1 DEF mbuf_dereference_instance
  <1>3. r \in Seq((E \ {i}) \cup {NULL}) /\ Len(r) = Len(q)
    <2> HIDE DEF r
    <2> QED
      BY <1>1, <1>2
  <1> QED
    BY <1>1, <1>3 DEF QueueOf

BcastOp(sender, q, i) == IF i = sender THEN q ELSE mbuf_add_item(q, i)
Bcasts == INSTANCE FoldProofs WITH Op <- BcastOp

LEMMA BcastFold ==
    ASSUME NEW E, NEW seq \in Seq(E), NEW q \in QueueOf(E), NEW sender
    PROVE  Bcasts!Fold(sender, q, seq) \in QueueOf(E)
  <1> DEFINE S == [k \in 0 .. Len(seq) |-> QueueOf(E)]
  <1>1. Len(seq) \in Nat /\ \A k \in 1 .. Len(seq) : seq[k] \in E
    OBVIOUS
  <1>2. ASSUME NEW k \in 1 .. Len(seq), NEW r \in S[k - 1]
        PROVE  BcastOp(sender, r, seq[k]) \in S[k]
    <2>1. k - 1 \in 0 .. Len(seq) /\ k \in 0 .. Len(seq) /\ seq[k] \in E
      BY <1>1
    <2>2. r \in QueueOf(E)
      BY <2>1
    <2>3. BcastOp(sender, r, seq[k]) \in QueueOf(E)
      BY <2>1, <2>2, QueueAdd DEF BcastOp
    <2> QED
      BY <2>1, <2>3
  <1>3. q \in S[0] /\ S[Len(seq)] = QueueOf(E)
    BY <1>1
  <1> HIDE DEF S
  <1>4. \A k \in 1 .. Len(seq) : \A r \in S[k - 1] : BcastOp(sender, r, seq[k]) \in S[k]
    BY <1>2
  <1>5. Bcasts!Fold(sender, q, seq) \in S[Len(seq)]
    BY <1>3, <1>4, Bcasts!FoldInvariant
  <1> QED
    BY <1>3, <1>5

LEMMA BcastQueue ==
    ASSUME NEW s \in Context, s.mbuf \in QueueOf(ToSet(s.iter)), NEW sender
    PROVE  \E q \in QueueOf(ToSet(s.iter)) : multi_bcast(s, sender) = [s EXCEPT !.mbuf = q]
  <1> DEFINE q == Bcasts!Fold(sender, s.mbuf, s.iter)
  <1>1. multi_bcast(s, sender) = [s EXCEPT !.mbuf = q]
    BY DEF multi_bcast, BcastOp, FoldLeft, MapThenFoldSet, Max,
           Bcasts!Fold, Bcasts!FoldLeft, Bcasts!MapThenFoldSet, Bcasts!Max
  <1>2. s.iter \in Seq(ToSet(s.iter))
    <2>1. s.iter \in Seq(Inst)
      BY DEF Context
    <2> QED
      BY <2>1 DEF ToSet
  <1>3. q \in QueueOf(ToSet(s.iter))
    <2> HIDE DEF q
    <2> QED
      BY <1>2, BcastFold DEF q
  <1> QED
    BY <1>1, <1>3

-----------------------------------------------------------------------------
(* The pool.                                                               *)

LEMMA HandleType ==
    PoolSize \in Nat /\ Handle = 1 .. PoolSize /\ 0 \notin Handle
  BY PoolAssumption DEF Handle

LEMMA PoolFree ==
    ASSUME NEW p \in PoolType, NEW h \in Handle, NEW hard \in BOOLEAN
    PROVE  LET t == ifconfig_pool_entry_free(p, h, hard)
           IN  /\ t \in PoolType
               /\ \A g \in Handle :
                    /\ t.list[g].in_use <=> p.list[g].in_use /\ g # h
                    /\ t.list[g].fixed = p.list[g].fixed
                    /\ t.list[g].common_name = IF g = h /\ hard THEN NoName
                                               ELSE p.list[g].common_name
  <1> DEFINE t == ifconfig_pool_entry_free(p, h, hard)
             rest == RemoveFirst(p.released, h)
             e == IF hard THEN [p.list[h] EXCEPT !.in_use = FALSE, !.common_name = NoName]
                  ELSE [p.list[h] EXCEPT !.in_use = FALSE]
             rel == IF hard THEN rest ELSE Append(rest, h)
  <1>1. p.list \in [Handle -> Entry] /\ p.released \in Seq(Handle) /\ p.list[h] \in Entry
    BY DEF PoolType
  <1>2. /\ e \in Entry /\ ~e.in_use /\ e.fixed = p.list[h].fixed
        /\ e.common_name = IF hard THEN NoName ELSE p.list[h].common_name
    BY <1>1 DEF Entry
  <1>3. rest \in Seq(Handle)
    BY <1>1, RemoveFirstProperties
  <1> HIDE DEF rest
  <1>4. rel \in Seq(Handle)
    BY <1>3, AppendProperties
  <1>5. t = [list |-> [p.list EXCEPT ![h] = e], released |-> rel]
    BY <1>1 DEF ifconfig_pool_entry_free, rest, Entry
  <1> HIDE DEF t, e, rel
  <1>6. [p.list EXCEPT ![h] = e] \in [Handle -> Entry]
    BY <1>1, <1>2
  <1>7. t \in PoolType
    BY <1>4, <1>5, <1>6 DEF PoolType
  <1>8. t.list = [p.list EXCEPT ![h] = e]
    BY <1>5
  <1>9. ASSUME NEW g \in Handle
        PROVE  /\ t.list[g].in_use <=> p.list[g].in_use /\ g # h
               /\ t.list[g].fixed = p.list[g].fixed
               /\ t.list[g].common_name = IF g = h /\ hard THEN NoName
                                          ELSE p.list[g].common_name
    <2>1. CASE g = h
      BY <1>1, <1>2, <1>8, <2>1
    <2>2. CASE g # h
      BY <1>1, <1>8, <2>2
    <2> QED
      BY <2>1, <2>2
  <1> QED
    BY <1>7, <1>9 DEF t

LEMMA PoolRelease ==
    ASSUME NEW p \in PoolType, NEW h \in Handle \cup {0}, NEW hard \in BOOLEAN
    PROVE  LET t == ifconfig_pool_release(p, h, hard)
           IN  /\ t \in PoolType
               /\ \A g \in Handle :
                    /\ t.list[g].in_use <=> p.list[g].in_use /\ g # h
                    /\ t.list[g].fixed = p.list[g].fixed
                    /\ t.list[g].common_name = IF g = h /\ hard THEN NoName
                                               ELSE p.list[g].common_name
  <1>1. CASE h \in Handle
    <2>1. ifconfig_pool_release(p, h, hard) = ifconfig_pool_entry_free(p, h, hard)
      BY <1>1 DEF ifconfig_pool_release
    <2> QED
      BY <1>1, <2>1, PoolFree
  <1>2. CASE h \notin Handle
    BY <1>2 DEF ifconfig_pool_release
  <1> QED
    BY <1>1, <1>2

LEMMA SoftRelease ==
    ASSUME NEW p \in PoolType, NEW h \in Handle \cup {0}
    PROVE  LET t == ifconfig_pool_release(p, h, FALSE)
           IN  /\ t \in PoolType
               /\ \A g \in Handle :
                    /\ t.list[g].in_use <=> p.list[g].in_use /\ g # h
                    /\ t.list[g].fixed = p.list[g].fixed
                    /\ t.list[g].common_name = p.list[g].common_name
  <1> DEFINE hard == FALSE
             t == ifconfig_pool_release(p, h, hard)
  <1>1. hard \in BOOLEAN
    OBVIOUS
  <1> HIDE DEF hard
  <1>2. /\ t \in PoolType
        /\ \A g \in Handle :
             /\ t.list[g].in_use <=> p.list[g].in_use /\ g # h
             /\ t.list[g].fixed = p.list[g].fixed
             /\ t.list[g].common_name = IF g = h /\ hard THEN NoName
                                        ELSE p.list[g].common_name
    BY <1>1, PoolRelease
  <1> QED
    BY <1>2 DEF hard

LEMMA HardRelease ==
    ASSUME NEW p \in PoolType, NEW h \in Handle \cup {0}
    PROVE  LET t == ifconfig_pool_release(p, h, TRUE)
           IN  /\ t \in PoolType
               /\ \A g \in Handle :
                    /\ t.list[g].in_use <=> p.list[g].in_use /\ g # h
                    /\ t.list[g].fixed = p.list[g].fixed
                    /\ g = h => t.list[g].common_name = NoName
                    /\ g # h => t.list[g].common_name = p.list[g].common_name
  <1> DEFINE hard == TRUE
             t == ifconfig_pool_release(p, h, hard)
  <1>1. hard \in BOOLEAN
    OBVIOUS
  <1> HIDE DEF hard
  <1>2. /\ t \in PoolType
        /\ \A g \in Handle :
             /\ t.list[g].in_use <=> p.list[g].in_use /\ g # h
             /\ t.list[g].fixed = p.list[g].fixed
             /\ t.list[g].common_name = IF g = h /\ hard THEN NoName
                                        ELSE p.list[g].common_name
    BY <1>1, PoolRelease
  <1> QED
    BY <1>2 DEF hard

LEMMA PoolAcquired ==
    ASSUME NEW p \in PoolType, NEW h \in Handle, NEW cn \in CN \cup {NoName}
    PROVE  LET t == Acquired(p, h, cn)
           IN  /\ t \in PoolType
               /\ \A g \in Handle :
                    /\ t.list[g].in_use <=> p.list[g].in_use \/ g = h
                    /\ t.list[g].fixed = p.list[g].fixed
                    /\ t.list[g].common_name = IF g = h THEN cn
                                               ELSE p.list[g].common_name
  <1> DEFINE f == ifconfig_pool_entry_free(p, h, TRUE)
             t == Acquired(p, h, cn)
             e == [f.list[h] EXCEPT !.in_use = TRUE, !.common_name = cn]
  <1>1. /\ f \in PoolType
        /\ \A g \in Handle :
             /\ f.list[g].in_use <=> p.list[g].in_use /\ g # h
             /\ f.list[g].fixed = p.list[g].fixed
             /\ g # h => f.list[g].common_name = p.list[g].common_name
    <2> DEFINE hard == TRUE
               k == ifconfig_pool_entry_free(p, h, hard)
    <2>1. hard \in BOOLEAN
      OBVIOUS
    <2> HIDE DEF hard
    <2>2. /\ k \in PoolType
          /\ \A g \in Handle :
               /\ k.list[g].in_use <=> p.list[g].in_use /\ g # h
               /\ k.list[g].fixed = p.list[g].fixed
               /\ k.list[g].common_name = IF g = h /\ hard THEN NoName
                                          ELSE p.list[g].common_name
      BY <2>1, PoolFree
    <2> QED
      BY <2>2 DEF hard
  <1> HIDE DEF f
  <1>2. f.list \in [Handle -> Entry] /\ f.list[h] \in Entry
    BY <1>1 DEF PoolType
  <1>3. e \in Entry /\ e.in_use /\ e.common_name = cn /\ e.fixed = f.list[h].fixed
    BY <1>2 DEF Entry
  <1>4. t = [f EXCEPT !.list[h] = e]
    BY <1>1, <1>2 DEF Acquired, f, PoolType, Entry
  <1> HIDE DEF t, e
  <1>5. t \in PoolType /\ t.list = [f.list EXCEPT ![h] = e]
    BY <1>1, <1>2, <1>3, <1>4 DEF PoolType
  <1>6. ASSUME NEW g \in Handle
        PROVE  /\ t.list[g].in_use <=> p.list[g].in_use \/ g = h
               /\ t.list[g].fixed = p.list[g].fixed
               /\ t.list[g].common_name = IF g = h THEN cn ELSE p.list[g].common_name
    <2>1. CASE g = h
      BY <1>1, <1>2, <1>3, <1>5, <2>1
    <2>2. CASE g # h
      BY <1>1, <1>2, <1>5, <2>2
    <2> QED
      BY <2>1, <2>2
  <1> QED
    BY <1>5, <1>6 DEF t

\* An entry that is found is free; a fixed one is only found by its name; and
\* the entries of a name are found before all others.
LEMMA PoolFind ==
    ASSUME NEW p, NEW cn, NEW h \in ifconfig_pool_find(p, cn)
    PROVE  /\ h \in Handle /\ ~p.list[h].in_use
           /\ ~DuplicateCN /\ p.list[h].fixed => cn # NoName /\ p.list[h].common_name = cn
           /\ ~DuplicateCN /\ cn # NoName
                /\ (\E g \in Handle : ~p.list[g].in_use /\ p.list[g].common_name = cn)
              => p.list[h].common_name = cn
  <1>1. \A S : First(S) \subseteq S /\ Earliest(p, S) \subseteq S
    BY DEF First, Earliest
  <1> DEFINE previous == {g \in Unused(p) : cn # NoName /\ p.list[g].common_name = cn}
  <1>2. DuplicateCN \in BOOLEAN
    BY PoolAssumption
  <1>3. CASE DuplicateCN
    BY <1>1, <1>3 DEF ifconfig_pool_find, Unused
  <1>4. CASE ~DuplicateCN /\ previous # {}
    <2>1. h \in previous
      BY <1>1, <1>4 DEF ifconfig_pool_find
    <2> QED
      BY <1>4, <2>1 DEF Unused
  <1>5. CASE ~DuplicateCN /\ previous = {}
    <2>1. h \in {g \in Unused(p) : ~p.list[g].fixed}
      BY <1>1, <1>5 DEF ifconfig_pool_find
    <2> QED
      BY <1>5, <2>1 DEF Unused
  <1> QED
    BY <1>2, <1>3, <1>4, <1>5

ReadOp(file, q, h) == IF file[h] # NoName THEN Append(q, h) ELSE q
Reads == INSTANCE FoldProofs WITH Op <- ReadOp

LEMMA PoolRead ==
    ASSUME NEW file \in [Handle -> CN \cup {NoName}], NEW fixed \in BOOLEAN
    PROVE  LET t == ifconfig_pool_read(file, fixed)
           IN  /\ t \in PoolType
               /\ \A h \in Handle : /\ ~t.list[h].in_use /\ t.list[h].common_name = file[h]
                                    /\ t.list[h].fixed <=> fixed /\ file[h] # NoName
  <1> DEFINE t == ifconfig_pool_read(file, fixed)
             seq == [h \in Handle |-> h]
             q == Reads!Fold(file, <<>>, seq)
             S == [k \in 0 .. Len(seq) |-> Seq(Handle)]
  <1>1. seq \in Seq(Handle) /\ Len(seq) \in Nat
    BY HandleType
  <1>2. ASSUME NEW k \in 1 .. Len(seq), NEW r \in S[k - 1]
        PROVE  ReadOp(file, r, seq[k]) \in S[k]
    <2> HIDE DEF seq
    <2>1. k - 1 \in 0 .. Len(seq) /\ k \in 0 .. Len(seq) /\ seq[k] \in Handle
      BY <1>1
    <2>2. r \in Seq(Handle)
      BY <2>1
    <2>3. ReadOp(file, r, seq[k]) \in Seq(Handle)
      BY <2>1, <2>2, AppendProperties DEF ReadOp
    <2> QED
      BY <2>1, <2>3
  <1>3. q \in Seq(Handle)
    <2> HIDE DEF seq
    <2>1. <<>> \in S[0] /\ S[Len(seq)] = Seq(Handle)
      BY <1>1
    <2> HIDE DEF S
    <2>2. \A k \in 1 .. Len(seq) : \A r \in S[k - 1] : ReadOp(file, r, seq[k]) \in S[k]
      BY <1>2
    <2>3. Reads!Fold(file, <<>>, seq) \in S[Len(seq)]
      BY <1>1, <2>1, <2>2, Reads!FoldInvariant
    <2> QED
      BY <2>1, <2>3
  <1>4. t.released = q
    BY DEF ifconfig_pool_read, ReadOp, FoldLeft, MapThenFoldSet, Max,
           Reads!Fold, Reads!FoldLeft, Reads!MapThenFoldSet, Reads!Max
  <1>5. t = [list |-> t.list, released |-> t.released]
    BY DEF ifconfig_pool_read
  <1>6. t.list = [h \in Handle |->
                   [in_use |-> FALSE, common_name |-> file[h],
                    fixed |-> fixed /\ file[h] # NoName]]
    BY DEF ifconfig_pool_read
  <1>7. t.list \in [Handle -> Entry]
    BY <1>6 DEF Entry
  <1> HIDE DEF t, q
  <1>8. t \in PoolType
    BY <1>3, <1>4, <1>5, <1>7 DEF PoolType
  <1>9. ASSUME NEW h \in Handle
        PROVE  /\ ~t.list[h].in_use /\ t.list[h].common_name = file[h]
               /\ t.list[h].fixed <=> fixed /\ file[h] # NoName
    <2> DEFINE v == (fixed /\ file[h] # NoName)
    <2>1. t.list[h] = [in_use |-> FALSE, common_name |-> file[h], fixed |-> v]
      BY <1>6
    <2> HIDE DEF v
    <2>2. ~t.list[h].in_use /\ t.list[h].common_name = file[h] /\ t.list[h].fixed = v
      BY <2>1
    <2> QED
      BY <2>2 DEF v
  <1> QED
    BY <1>8, <1>9 DEF t

-----------------------------------------------------------------------------
(* Closing an instance.                                                    *)

\* What multi_close_instance makes of the record s.
Closes(s, t, i) ==
    /\ t.inst[i] = NULL <=> s.inst[i].refcount = 1
    /\ t.inst[i] # NULL => /\ t.inst[i].halt
                           /\ t.inst[i].refcount = s.inst[i].refcount - 1
                           /\ t.inst[i].route_count = s.inst[i].route_count
    /\ \A j \in Inst \ {i} : t.inst[j] = s.inst[j]
    /\ t.hash = [s.hash EXCEPT ![s.inst[i].real] = NULL]
    /\ t.iter = RemoveFirst(s.iter, i)
    /\ t.schedule = s.schedule \ {i}
    /\ t.pool = ifconfig_pool_release(s.pool, s.inst[i].vaddr_handle, FALSE)
    /\ t.mbuf = mbuf_dereference_instance(s.mbuf, i)
    /\ t.pending = IF s.pending = i THEN NULL ELSE s.pending
    /\ t.out = IF s.pending = i THEN {} ELSE s.out
    /\ SameOwners(s.vhash, t.vhash)
    /\ \A b \in Bit :
        t.net_len_refcount[b] = s.net_len_refcount[b] - NetsOf(s.inst[i], b)
    /\ IF HasNets(s.inst[i]) THEN NoneCached(t.vhash) ELSE t.vhash = s.vhash

LEMMA CloseEffect ==
    ASSUME NEW s \in Context, NEW i \in Live(s), s.inst[i].refcount > 0,
           s.inst[i].did_iroutes => s.inst[i].locked_cn \in CN,
           s.mbuf \in QueueOf(Inst)
    PROVE  LET t == multi_close_instance(s, i)
           IN  t \in Context /\ Closes(s, t, i)
  <1> DEFINE x == s.inst[i]
             y == [x EXCEPT !.halt = TRUE]
             inst == [s.inst EXCEPT ![i] = y]
             hash == [s.hash EXCEPT ![x.real] = NULL]
             iter == RemoveFirst(s.iter, i)
             schedule == s.schedule \ {i}
             pool == ifconfig_pool_release(s.pool, x.vaddr_handle, FALSE)
             mbuf == mbuf_dereference_instance(s.mbuf, i)
             pending == IF s.pending = i THEN NULL ELSE s.pending
             out == IF s.pending = i THEN {} ELSE s.out
             n == NotPending(s, i)
             c == [n EXCEPT !.inst[i].halt = TRUE, !.hash[x.real] = NULL,
                            !.iter = RemoveFirst(@, i), !.schedule = @ \ {i},
                            !.pool = ifconfig_pool_release(@, x.vaddr_handle, FALSE),
                            !.mbuf = mbuf_dereference_instance(@, i)]
             d == multi_del_iroutes(c, i)
             t == multi_close_instance(s, i)
  <1>1. i \in Inst /\ x \in Instance /\ x # NULL
    BY DEF Live, Context
  <1>2. /\ y \in Instance /\ y.halt /\ y.refcount = x.refcount
        /\ y.route_count = x.route_count /\ y.did_iroutes = x.did_iroutes
        /\ y.locked_cn = x.locked_cn
    BY <1>1 DEF Instance
  <1>3. n \in Context /\ n = [s EXCEPT !.pending = pending, !.out = out]
    BY NullInst DEF NotPending, Context
  <1>4. /\ inst \in [Inst -> Instance \cup {NULL}] /\ hash \in [Real -> Inst \cup {NULL}]
        /\ iter \in Seq(Inst) /\ schedule \in SUBSET Inst /\ pool \in PoolType
        /\ mbuf \in Seq(Inst \cup {NULL})
        /\ pending \in Inst \cup {NULL} /\ out \in SUBSET {"link", "tun"}
    <2>1. /\ s.inst \in [Inst -> Instance \cup {NULL}] /\ s.hash \in [Real -> Inst \cup {NULL}]
          /\ s.iter \in Seq(Inst) /\ s.schedule \in SUBSET Inst /\ s.pool \in PoolType
          /\ s.pending \in Inst \cup {NULL} /\ s.out \in SUBSET {"link", "tun"}
      BY DEF Context
    <2>2. iter \in Seq(Inst)
      BY <2>1, RemoveFirstProperties
    <2>3. x.vaddr_handle \in Handle \cup {0}
      BY <1>1 DEF Instance
    <2>4. pool \in PoolType
      <3> HIDE DEF x
      <3>1. s.pool \in PoolType
        BY <2>1
      <3> QED
        BY <2>3, <3>1, SoftRelease
    <2>5. mbuf \in Seq(Inst \cup {NULL})
      <3>1. mbuf \in Seq((Inst \ {i}) \cup {NULL})
        BY QueueDereference DEF QueueOf
      <3> QED
        BY <3>1
    <2> QED
      BY <1>2, <2>1, <2>2, <2>4, <2>5
  <1>5. /\ n.inst = s.inst /\ n.hash = s.hash /\ n.iter = s.iter /\ n.schedule = s.schedule
        /\ n.pool = s.pool /\ n.mbuf = s.mbuf /\ n.pending = pending /\ n.out = out
        /\ n.vhash = s.vhash /\ n.net_len_refcount = s.net_len_refcount
    BY <1>3, <1>4 DEF Context
  <1>6. c = [n EXCEPT !.inst = inst, !.hash = hash, !.iter = iter, !.schedule = schedule,
                      !.pool = pool, !.mbuf = mbuf]
    BY <1>5
  <1> HIDE DEF n, c, y, x, inst, hash, iter, schedule, pool, mbuf, pending, out
  <1>7. /\ c \in Context
        /\ c.inst = inst /\ c.hash = hash /\ c.iter = iter /\ c.schedule = schedule
        /\ c.pool = pool /\ c.mbuf = mbuf /\ c.pending = pending /\ c.out = out
        /\ c.vhash = s.vhash /\ c.net_len_refcount = s.net_len_refcount
    BY <1>3, <1>4, <1>5, <1>6 DEF Context
  <1>8. c.inst[i] = y /\ y \in Instance /\ \A j \in Inst \ {i} : c.inst[j] = s.inst[j]
    BY <1>1, <1>2, <1>7 DEF inst, Context
  <1>9. /\ d \in Context
        /\ d.inst = [c.inst EXCEPT ![i] = [y EXCEPT !.did_iroutes = FALSE]]
        /\ d.hash = c.hash /\ d.iter = c.iter /\ d.schedule = c.schedule
        /\ d.mbuf = c.mbuf /\ d.pool = c.pool
        /\ d.pending = c.pending /\ d.out = c.out
        /\ SameOwners(c.vhash, d.vhash)
        /\ \A b \in Bit : d.net_len_refcount[b] = c.net_len_refcount[b] - NetsOf(y, b)
        /\ IF HasNets(y) THEN NoneCached(d.vhash) ELSE d.vhash = c.vhash
    <2>1. y.did_iroutes => y.locked_cn \in CN
      BY <1>2 DEF x
    <2> QED
      BY <1>1, <1>7, <1>8, <2>1, DelIroutes
  <1> DEFINE z == [y EXCEPT !.did_iroutes = FALSE]
             z1 == [z EXCEPT !.refcount = z.refcount - 1]
  <1>10. /\ z \in Instance /\ z.halt /\ z.refcount = x.refcount
         /\ z.route_count = x.route_count
    BY <1>2 DEF Instance
  <1>11. d.inst[i] = z /\ \A j \in Inst \ {i} : d.inst[j] = s.inst[j]
    BY <1>1, <1>7, <1>8, <1>9 DEF Context
  <1> HIDE DEF z
  <1>12. x.refcount - 1 \in Nat
    BY <1>1 DEF x, Instance
  <1>13. /\ z1 \in Instance /\ z1.halt /\ z1.refcount = x.refcount - 1
         /\ z1.route_count = x.route_count
    BY <1>10, <1>12 DEF Instance
  <1>14. t = multi_instance_dec_refcount(d, i)
    BY DEF multi_close_instance, d, c, n, x
  <1> HIDE DEF d, z1
  <1> DEFINE w == IF x.refcount = 1 THEN NULL ELSE z1
  <1>15. t = [d EXCEPT !.inst[i] = w]
    <2>1. CASE x.refcount = 1
      BY <1>10, <1>11, <1>14, <2>1 DEF multi_instance_dec_refcount
    <2>2. CASE x.refcount # 1
      <3>1. t = [d EXCEPT !.inst[i] = [d.inst[i] EXCEPT !.refcount = d.inst[i].refcount - 1]]
        BY <1>10, <1>11, <1>14, <2>2 DEF multi_instance_dec_refcount
      <3>2. [d.inst[i] EXCEPT !.refcount = d.inst[i].refcount - 1] = z1
        BY <1>11 DEF z1
      <3> QED
        BY <2>2, <3>1, <3>2
    <2> QED
      BY <2>1, <2>2
  <1>16. w \in Instance \cup {NULL}
    BY <1>13
  <1> HIDE DEF w, t
  <1>17. /\ t \in Context /\ t.inst = [d.inst EXCEPT ![i] = w]
         /\ t.hash = hash /\ t.iter = iter /\ t.schedule = schedule
         /\ t.mbuf = mbuf /\ t.pool = pool
         /\ t.pending = pending /\ t.out = out
         /\ t.vhash = d.vhash /\ t.net_len_refcount = d.net_len_refcount
    BY <1>1, <1>7, <1>9, <1>15, <1>16, ChangedInst
  <1>18. t.inst[i] = w /\ \A j \in Inst \ {i} : t.inst[j] = s.inst[j]
    BY <1>1, <1>9, <1>11, <1>17 DEF Context
  <1>19. /\ w = NULL <=> x.refcount = 1
         /\ w # NULL => /\ w.halt /\ w.refcount = x.refcount - 1
                        /\ w.route_count = x.route_count
    BY <1>13, NullInst DEF w
  <1>20. /\ SameOwners(s.vhash, t.vhash)
         /\ \A b \in Bit : t.net_len_refcount[b] = s.net_len_refcount[b] - NetsOf(x, b)
         /\ IF HasNets(x) THEN NoneCached(t.vhash) ELSE t.vhash = s.vhash
    <2>1. HasNets(y) = HasNets(x) /\ \A b : NetsOf(y, b) = NetsOf(x, b)
      BY <1>2 DEF HasNets, NetsOf
    <2> QED
      BY <1>7, <1>9, <1>17, <2>1
  <1>21. Closes(s, t, i)
    BY <1>17, <1>18, <1>19, <1>20
       DEF Closes, x, hash, iter, schedule, pool, mbuf, pending, out
  <1> QED
    BY <1>17, <1>21 DEF t

LEMMA ClosesLive ==
    ASSUME NEW s \in Context, NEW t \in Context, NEW i \in Live(s), Closes(s, t, i)
    PROVE  /\ Live(t) = Live(s) \ {i}
           /\ \A j \in Live(t) : j \in Inst \ {i} /\ t.inst[j] = s.inst[j]
           /\ \A j : RoutesTo(t, j) = RoutesTo(s, j)
  <1>1. \A j : RoutesTo(t, j) = RoutesTo(s, j)
    BY SameOwnersRoutes DEF Closes
  <1> QED
    BY <1>1 DEF Live, Closes

LEMMA ClosesCounts ==
    ASSUME NEW s \in Context, NEW t \in Context, NEW i \in Live(s), Closes(s, t, i),
           Counts(s)
    PROVE  Counts(t)
  <1>1. i \in Inst /\ s.inst[i] \in Instance /\ s.inst[i] # NULL /\ ~s.inst[i].halt
    BY DEF Live, Context
  <1>2. /\ s.inst[i].route_count = Cardinality(RoutesTo(s, i))
        /\ s.inst[i].refcount = s.inst[i].route_count + 1
    BY <1>1, RoutesFinite DEF Counts, CountsWith
  <1>3. \A j : RoutesTo(t, j) = RoutesTo(s, j)
    BY ClosesLive
  <1>4. ASSUME NEW a \in Addr, t.vhash[a] # NULL PROVE t.inst[t.vhash[a].instance] # NULL
    <2> DEFINE j == t.vhash[a].instance
    <2>1. s.vhash[a] # NULL /\ s.vhash[a].instance = j /\ j \in Inst
      BY <1>4 DEF Closes, SameOwners, Context, Route
    <2>2. CASE j = i
      <3>1. a \in RoutesTo(s, i)
        BY <2>1, <2>2 DEF RoutesTo
      <3>2. Cardinality(RoutesTo(s, i)) # 0
        BY <3>1, RoutesFinite, FS_EmptySet
      <3> QED
        BY <1>2, <2>2, <3>2, RoutesFinite DEF Closes
    <2>3. CASE j # i
      BY <2>1, <2>3 DEF Closes, Counts, CountsWith
    <2> QED
      BY <2>2, <2>3
  <1>5. ASSUME NEW j \in Inst, t.inst[j] # NULL
        PROVE  /\ t.inst[j].route_count = Cardinality(RoutesTo(t, j))
                                          + IF j \in {} THEN 1 ELSE 0
               /\ t.inst[j].refcount = t.inst[j].route_count
                                       + IF t.inst[j].halt THEN 0 ELSE 1
               /\ t.inst[j].refcount > 0
    <2>1. CASE j = i
      <3>1. /\ t.inst[i].halt /\ t.inst[i].refcount = s.inst[i].refcount - 1
            /\ t.inst[i].route_count = s.inst[i].route_count
            /\ s.inst[i].refcount # 1
        BY <1>5, <2>1 DEF Closes
      <3> QED
        BY <1>2, <1>3, <2>1, <3>1, RoutesFinite
    <2>2. CASE j # i
      BY <1>3, <1>5, <2>2 DEF Closes, Counts, CountsWith
    <2> QED
      BY <2>1, <2>2
  <1> QED
    BY <1>4, <1>5 DEF Counts, CountsWith

LEMMA ClosesLinks ==
    ASSUME NEW s \in Context, NEW t \in Context, NEW i \in Live(s), Closes(s, t, i),
           Links(s)
    PROVE  Links(t) /\ (s.mbuf = <<>> => t.mbuf = <<>>) /\ (Output(s) => Output(t))
  <1>1. Live(t) = Live(s) \ {i} /\ \A j \in Live(t) : t.inst[j] = s.inst[j]
    BY ClosesLive
  <1>2. i \in Inst /\ Live(s) \subseteq Inst /\ s.inst[i].real \in Real /\ s.inst[i] \in Instance
    BY DEF Live, Context, Instance
  <1>3. t.pending \in Live(t) \cup {NULL}
    BY <1>1 DEF Closes, Links
  <1>4. t.mbuf \in QueueOf(Live(t)) /\ (s.mbuf = <<>> => t.mbuf = <<>>)
    <2>1. s.mbuf \in QueueOf(Live(s)) /\ t.mbuf = mbuf_dereference_instance(s.mbuf, i)
      BY DEF Closes, Links
    <2> QED
      BY <1>1, <2>1, QueueDereference
  <1>5. ToSet(t.iter) = Live(t) /\ \A k, l \in DOMAIN t.iter : t.iter[k] = t.iter[l] => k = l
    <2>1. s.iter \in Seq(Inst)
      BY DEF Context
    <2> QED
      BY <1>1, <2>1, RemoveFirstProperties DEF Closes, Links
  <1>6. ASSUME NEW j \in Live(t) PROVE t.hash[t.inst[j].real] = j
    <2>1. j \in Live(s) /\ j # i /\ s.hash[s.inst[j].real] = j /\ s.hash[s.inst[i].real] = i
      BY <1>1 DEF Links
    <2>2. s.inst[j].real \in Real
      BY <1>2, <2>1 DEF Live, Context, Instance
    <2> QED
      BY <1>1, <2>1, <2>2 DEF Closes, Context
  <1>7. ASSUME NEW r \in Real, t.hash[r] # NULL
        PROVE  t.hash[r] \in Live(t) /\ t.inst[t.hash[r]].real = r
    <2>1. r # s.inst[i].real /\ t.hash[r] = s.hash[r]
      BY <1>2, <1>7 DEF Closes, Context
    <2>2. s.hash[r] \in Live(s) /\ s.inst[s.hash[r]].real = r
      BY <1>7, <2>1 DEF Links
    <2> QED
      BY <1>1, <2>1, <2>2
  <1>8. Output(s) => Output(t)
    BY DEF Output, Closes
  <1> QED
    BY <1>1, <1>3, <1>4, <1>5, <1>6, <1>7, <1>8 DEF Links, Closes

LEMMA ClosesClients ==
    ASSUME NEW s \in Context, NEW t \in Context, NEW i \in Live(s), Closes(s, t, i),
           Clients(s)
    PROVE  Clients(t)
  BY ClosesLive DEF Clients

LEMMA ClosesPool ==
    ASSUME NEW s \in Context, NEW t \in Context, NEW i \in Live(s), Closes(s, t, i)
    PROVE  \A g \in Handle :
                /\ t.pool.list[g].in_use <=> s.pool.list[g].in_use
                                             /\ g # s.inst[i].vaddr_handle
                /\ t.pool.list[g].fixed = s.pool.list[g].fixed
                /\ t.pool.list[g].common_name = s.pool.list[g].common_name
  <1> DEFINE h == s.inst[i].vaddr_handle
  <1>1. h \in Handle \cup {0} /\ s.pool \in PoolType
    BY DEF Live, Context, Instance
  <1>2. t.pool = ifconfig_pool_release(s.pool, h, FALSE)
    BY DEF Closes
  <1> HIDE DEF h
  <1>3. /\ t.pool \in PoolType
        /\ \A g \in Handle : /\ t.pool.list[g].in_use <=> s.pool.list[g].in_use /\ g # h
                             /\ t.pool.list[g].fixed = s.pool.list[g].fixed
                             /\ t.pool.list[g].common_name = s.pool.list[g].common_name
    <2> DEFINE q == ifconfig_pool_release(s.pool, h, FALSE)
    <2>1. /\ q \in PoolType
          /\ \A g \in Handle : /\ q.list[g].in_use <=> s.pool.list[g].in_use /\ g # h
                               /\ q.list[g].fixed = s.pool.list[g].fixed
                               /\ q.list[g].common_name = s.pool.list[g].common_name
      BY <1>1, SoftRelease
    <2> QED
      BY <1>2, <2>1
  <1> QED
    BY <1>3 DEF h

LEMMA ClosesLeases ==
    ASSUME NEW s \in Context, NEW t \in Context, NEW i \in Live(s), Closes(s, t, i),
           Leases(s)
    PROVE  Leases(t)
  <1>1. Live(t) = Live(s) \ {i} /\ \A j \in Live(t) : j \in Live(s) /\ t.inst[j] = s.inst[j]
    BY ClosesLive
  <1>2. \A g \in Handle :
          /\ t.pool.list[g].in_use <=> s.pool.list[g].in_use /\ g # s.inst[i].vaddr_handle
          /\ t.pool.list[g].common_name = s.pool.list[g].common_name
    BY ClosesPool
  <1>3. \A j \in Live(s) : s.inst[j].vaddr_handle \in Handle \cup {0}
    BY DEF Live, Context, Instance
  <1>4. ASSUME NEW h \in Handle
        PROVE  t.pool.list[h].in_use <=> \E j \in Live(t) : t.inst[j].vaddr_handle = h
    <2>1. s.pool.list[h].in_use <=> \E j \in Live(s) : s.inst[j].vaddr_handle = h
      BY DEF Leases
    <2>2. CASE h = s.inst[i].vaddr_handle
      <3>1. ~ \E j \in Live(t) : t.inst[j].vaddr_handle = h
        BY <1>1, <2>2, HandleType DEF Leases
      <3> QED
        BY <1>2, <2>2, <3>1
    <2>3. CASE h # s.inst[i].vaddr_handle
      BY <1>1, <1>2, <2>1, <2>3
    <2> QED
      BY <2>2, <2>3
  <1>5. \A j, k \in Live(t) :
            t.inst[j].vaddr_handle = t.inst[k].vaddr_handle /\ t.inst[j].vaddr_handle # 0
                => j = k
    BY <1>1 DEF Leases
  <1>6. ASSUME ~DuplicateCN, NEW j \in Live(t), t.inst[j].vaddr_handle # 0
        PROVE  t.pool.list[t.inst[j].vaddr_handle].common_name = t.inst[j].locked_cn
    <2>1. j \in Live(s) /\ t.inst[j] = s.inst[j] /\ s.inst[j].vaddr_handle \in Handle
      BY <1>1, <1>3, <1>6
    <2>2. s.pool.list[s.inst[j].vaddr_handle].common_name = s.inst[j].locked_cn
      BY <1>6, <2>1 DEF Leases
    <2> QED
      BY <1>2, <2>1, <2>2
  <1> QED
    BY <1>4, <1>5, <1>6 DEF Leases

LEMMA ClosesRouting ==
    ASSUME NEW s \in Context, NEW t \in Context, NEW i \in Live(s), Closes(s, t, i),
           Routing(s), Clients(s)
    PROVE  Routing(t)
  <1>0. i \in Live(s) /\ (s.inst[i].did_iroutes => s.inst[i].locked_cn \in CN)
    BY DEF Clients
  <1>1. Live(t) = Live(s) \ {i} /\ \A j \in Live(t) : j \in Inst /\ t.inst[j] = s.inst[j]
    BY ClosesLive
  <1>2. CASE HasNets(s.inst[i])
    <2>1. NoneCached(t.vhash) /\ SameOwners(s.vhash, t.vhash)
      BY <1>2 DEF Closes
    <2>2. Live(t) \in SUBSET Live(s) /\ \A j \in Live(t) : SameClient(s.inst[j], t.inst[j])
      BY <1>1 DEF SameClient
    <2> QED
      BY <2>1, <2>2, RenewedRouting
  <1>3. CASE ~HasNets(s.inst[i])
    <2>1. t.vhash = s.vhash
      BY <1>3 DEF Closes
    <2>2. \A b \in Bit : NetsOf(s.inst[i], b) = 0
      <3>1. s.inst[i].did_iroutes => \A b \in Bit : OfLength(s.inst[i].locked_cn, b) = {}
        BY <1>0, <1>3, IRoutesType DEF HasNets, OfLength
      <3> QED
        BY <3>1, FS_EmptySet DEF NetsOf
    <2>3. t.net_len_refcount = s.net_len_refcount
      BY <2>2 DEF Closes, Context
    <2>4. ASSUME NEW n \in Nets, s.vhash[n] # NULL PROVE s.vhash[n].instance # i
      <3> SUFFICES ASSUME s.vhash[n].instance = i PROVE FALSE
        OBVIOUS
      <3>1. s.inst[i].did_iroutes /\ n \in ToSet(IRoutes[s.inst[i].locked_cn])
        BY <1>0, <2>4 DEF Routing, NetworkRoute
      <3> QED
        BY <1>0, <1>3, <3>1, IRoutesType DEF HasNets, ToSet
    <2>5. \A n \in Nets : multi_route_defined(t, n) <=> multi_route_defined(s, n)
      BY <2>1, <2>4 DEF multi_route_defined, Closes, Context, Route, Addr
    <2>6. \A a : NetOwner(t, a) = NetOwner(s, a)
      BY <2>1, <2>3, <2>5, NetOwnerSame
    <2> QED
      BY <1>1, <2>1, <2>6 DEF Routing, NetworkRoute, CachedRoute
  <1> QED
    BY <1>2, <1>3

LEMMA OfLengthFinite ==
    ASSUME NEW cn \in CN, NEW b
    PROVE  IsFiniteSet(OfLength(cn, b))
  <1> DEFINE n == Len(IRoutes[cn])
  <1>1. n \in Int /\ OfLength(cn, b) \in SUBSET (1 .. n)
    BY IRoutesType DEF OfLength
  <1> HIDE DEF n
  <1>2. IsFiniteSet(1 .. n)
    BY <1>1, FS_Interval
  <1> QED
    BY <1>1, <1>2, FS_Subset

LEMMA AllOfLengthFinite ==
    ASSUME NEW s \in Context, Clients(s), NEW b
    PROVE  IsFiniteSet(AllOfLength(s, b))
  <1> DEFINE J == {j \in Live(s) : s.inst[j].did_iroutes}
             O(j) == {j} \X OfLength(s.inst[j].locked_cn, b)
             F == {O(j) : j \in J}
             f == [j \in J |-> O(j)]
  <1>1. IsFiniteSet(J)
    BY MultiAssumption, FS_Subset DEF Live
  <1>2. f \in Surjection(J, F)
    BY DEF Surjection
  <1>3. IsFiniteSet(F)
    <2> HIDE DEF f, F, J
    <2> QED
      BY <1>1, <1>2, FS_Surjection
  <1>4. \A j \in J : IsFiniteSet(O(j))
    <2> SUFFICES ASSUME NEW j \in J PROVE IsFiniteSet(O(j))
      OBVIOUS
    <2> DEFINE cn == s.inst[j].locked_cn
    <2>1. cn \in CN
      BY DEF Clients
    <2>3. IsFiniteSet(OfLength(cn, b)) /\ IsFiniteSet({j})
      BY <2>1, OfLengthFinite, FS_Singleton
    <2> HIDE DEF cn
    <2>4. IsFiniteSet({j} \X OfLength(cn, b))
      BY <2>3, FS_Product
    <2> QED
      BY <2>4 DEF cn
  <1>5. \A x \in F : IsFiniteSet(x)
    BY <1>4
  <1>6. IsFiniteSet(UNION F)
    <2> HIDE DEF F
    <2> QED
      BY <1>3, <1>5, FS_UNION
  <1> QED
    BY <1>6 DEF AllOfLength

LEMMA OfLengthCount ==
    ASSUME NEW cn \in CN, NEW b, NEW i
    PROVE  /\ IsFiniteSet({i} \X OfLength(cn, b))
           /\ Cardinality({i} \X OfLength(cn, b)) = Cardinality(OfLength(cn, b))
           /\ Cardinality(OfLength(cn, b)) \in Nat
  <1>2. IsFiniteSet(OfLength(cn, b)) /\ IsFiniteSet({i}) /\ Cardinality({i}) = 1
    BY OfLengthFinite, FS_Singleton
  <1>3. Cardinality(OfLength(cn, b)) \in Nat
    BY <1>2, FS_CardinalityType
  <1> QED
    BY <1>2, <1>3, FS_Product

LEMMA ClosesLengths ==
    ASSUME NEW s \in Context, NEW t \in Context, NEW i \in Live(s), Closes(s, t, i),
           Lengths(s), Clients(s)
    PROVE  Lengths(t)
  <1> SUFFICES ASSUME NEW b \in Bit
               PROVE  t.net_len_refcount[b] = Cardinality(AllOfLength(t, b))
    BY DEF Lengths
  <1> DEFINE x == s.inst[i]
             mine == {i} \X OfLength(x.locked_cn, b)
  <1>1. Live(t) = Live(s) \ {i} /\ \A j \in Live(t) : t.inst[j] = s.inst[j]
    BY ClosesLive
  <1>2. /\ s.net_len_refcount[b] = Cardinality(AllOfLength(s, b))
        /\ t.net_len_refcount[b] = s.net_len_refcount[b] - NetsOf(x, b)
        /\ IsFiniteSet(AllOfLength(s, b)) /\ Cardinality(AllOfLength(s, b)) \in Nat
    BY AllOfLengthFinite, FS_CardinalityType DEF Lengths, Closes
  <1>3. CASE x.did_iroutes
    <2>1. x.locked_cn \in CN
      BY <1>3 DEF Clients
    <2>2. /\ Cardinality(mine) = Cardinality(OfLength(x.locked_cn, b))
          /\ Cardinality(mine) \in Nat
      BY <2>1, OfLengthCount
    <2>3. mine \subseteq AllOfLength(s, b) /\ AllOfLength(t, b) = AllOfLength(s, b) \ mine
      BY <1>1, <1>3 DEF AllOfLength
    <2>4. AllOfLength(s, b) \cap mine = mine
      BY <2>3
    <2> DEFINE all == AllOfLength(s, b)
    <2> HIDE DEF mine
    <2>5. Cardinality(AllOfLength(t, b)) = Cardinality(AllOfLength(s, b)) - Cardinality(mine)
      <3>1. IsFiniteSet(all)
        BY <1>2
      <3> HIDE DEF all
      <3>2. Cardinality(all \ mine) = Cardinality(all) - Cardinality(all \cap mine)
        BY <3>1, FS_Difference
      <3> QED
        BY <3>2, <2>3, <2>4 DEF all
    <2> QED
      BY <1>2, <1>3, <2>2, <2>5 DEF NetsOf
  <1>4. CASE ~x.did_iroutes
    <2>1. AllOfLength(t, b) = AllOfLength(s, b)
      <3>1. {j \in Live(t) : t.inst[j].did_iroutes} = {j \in Live(s) : s.inst[j].did_iroutes}
        BY <1>1, <1>4
      <3>2. \A j \in Live(t) : OfLength(t.inst[j].locked_cn, b) = OfLength(s.inst[j].locked_cn, b)
        BY <1>1
      <3> QED
        BY <1>1, <3>1, <3>2 DEF AllOfLength
    <2> QED
      BY <1>2, <1>4, <2>1 DEF NetsOf
  <1> QED
    BY <1>3, <1>4

LEMMA ClosesAddressed ==
    ASSUME NEW s \in Context, NEW t \in Context, NEW i \in Live(s), Closes(s, t, i),
           Addressed(s)
    PROVE  Addressed(t)
  <1> SUFFICES ASSUME NEW j \in Live(t), t.inst[j].did_iroutes, t.inst[j].vaddr_handle # 0
               PROVE  t.vhash[PoolAddr[t.inst[j].vaddr_handle]]
                            = [instance |-> j, kind |-> "host"]
    BY DEF Addressed
  <1>1. j \in Live(s) /\ t.inst[j] = s.inst[j]
    BY ClosesLive
  <1> DEFINE a == PoolAddr[s.inst[j].vaddr_handle]
  <1>2. s.vhash[a] = [instance |-> j, kind |-> "host"]
    BY <1>1 DEF Addressed
  <1>3. a \in Addr
    BY <1>1, MultiAssumption DEF Live, Context, Instance, Addr
  <1>4. s.vhash[a] # NULL /\ s.vhash[a].kind = "host"
    BY <1>1, <1>2, NullInst DEF Route, Live
  <1> QED
    BY <1>1, <1>2, <1>3, <1>4 DEF Closes, SameOwners

LEMMA ClosesFixed ==
    ASSUME NEW s \in Context, NEW t \in Context, NEW i \in Live(s), Closes(s, t, i),
           NEW ro, Fixed(s, ro)
    PROVE  Fixed(t, ro)
  BY ClosesPool DEF Fixed

\* What closing instances leaves of the record s, with those of L alive.
Closed(s, t, L) ==
    /\ Live(t) = L
    /\ \A j \in L : t.inst[j] = s.inst[j]
    /\ \A j : RoutesTo(t, j) = RoutesTo(s, j)
    /\ s.mbuf = <<>> => t.mbuf = <<>>
    /\ Output(s) => Output(t)
    /\ \A g \in Handle : /\ t.pool.list[g].fixed = s.pool.list[g].fixed
                         /\ t.pool.list[g].common_name = s.pool.list[g].common_name

\* multi_close_instance keeps the invariant.
LEMMA CloseStep ==
    ASSUME NEW s \in Context, NEW ro, Good(s, ro), NEW i \in Live(s)
    PROVE  LET t == multi_close_instance(s, i)
           IN  /\ t \in Context /\ Good(t, ro) /\ Closed(s, t, Live(s) \ {i})
               /\ s.pending = i => t.pending = NULL
  <1> DEFINE t == multi_close_instance(s, i)
  <1>1. /\ Counts(s) /\ Links(s) /\ Clients(s) /\ Leases(s) /\ Routing(s) /\ Lengths(s)
        /\ AddressPlan => Addressed(s)
        /\ ~DuplicateCN => Fixed(s, ro)
    BY DEF Good
  <1>2. s.inst[i].refcount > 0 /\ (s.inst[i].did_iroutes => s.inst[i].locked_cn \in CN)
    BY <1>1 DEF Counts, CountsWith, Clients, Live
  <1>3. s.mbuf \in QueueOf(Inst)
    BY <1>1 DEF Links, QueueOf, Live
  <1>4. t \in Context /\ Closes(s, t, i)
    BY <1>2, <1>3, CloseEffect
  <1> HIDE DEF t
  <1>5. Counts(t)
    BY <1>1, <1>4, ClosesCounts
  <1>6. Links(t) /\ (s.mbuf = <<>> => t.mbuf = <<>>) /\ (Output(s) => Output(t))
    BY <1>1, <1>4, ClosesLinks
  <1>7. Clients(t)
    BY <1>1, <1>4, ClosesClients
  <1>8. Leases(t)
    BY <1>1, <1>4, ClosesLeases
  <1>9. Routing(t)
    BY <1>1, <1>4, ClosesRouting
  <1>10. Lengths(t)
    BY <1>1, <1>4, ClosesLengths
  <1>11. AddressPlan => Addressed(t)
    BY <1>1, <1>4, ClosesAddressed
  <1>12. ~DuplicateCN => Fixed(t, ro)
    BY <1>1, <1>4, ClosesFixed
  <1>13. /\ Live(t) = Live(s) \ {i} /\ \A j \in Live(t) : t.inst[j] = s.inst[j]
         /\ \A j : RoutesTo(t, j) = RoutesTo(s, j)
    BY <1>4, ClosesLive
  <1>14. \A g \in Handle : /\ t.pool.list[g].fixed = s.pool.list[g].fixed
                           /\ t.pool.list[g].common_name = s.pool.list[g].common_name
    BY <1>4, ClosesPool
  <1>15. Good(t, ro)
    BY <1>5, <1>6, <1>7, <1>8, <1>9, <1>10, <1>11, <1>12 DEF Good
  <1>16. Closed(s, t, Live(s) \ {i})
    BY <1>6, <1>13, <1>14 DEF Closed
  <1>17. s.pending = i => t.pending = NULL
    BY <1>4 DEF Closes
  <1> QED
    BY <1>4, <1>15, <1>16, <1>17 DEF t

LEMMA ClosedRefl ==
    ASSUME NEW s
    PROVE  Closed(s, s, Live(s))
  BY DEF Closed

LEMMA ClosedTrans ==
    ASSUME NEW s, NEW t, NEW u, NEW L, NEW K, Closed(s, t, L), Closed(t, u, K),
           K \subseteq L
    PROVE  Closed(s, u, K)
  BY DEF Closed

CloseOp(S, t, i) == IF i \in S THEN multi_close_instance(t, i) ELSE t
Closings == INSTANCE FoldProofs WITH Op <- CloseOp

\* Closing the instances of a set keeps the invariant, and the others stay.
LEMMA CloseFold ==
    ASSUME NEW s \in Context, NEW ro, Good(s, ro), NEW S
    PROVE  LET t == CloseAll(s, S)
           IN  t \in Context /\ Good(t, ro) /\ Closed(s, t, Live(s) \ S)
  <1> DEFINE seq == s.iter
             N == Len(seq)
             L(k) == {j \in Live(s) : j \in S => j \notin {seq[l] : l \in 1 .. k}}
             D(k) == {t \in Context : Good(t, ro) /\ Closed(s, t, L(k))}
             T == [k \in 0 .. N |-> D(k)]
  <1>1. /\ seq \in Seq(Inst) /\ N \in Nat /\ DOMAIN seq = 1 .. N
        /\ ToSet(seq) = Live(s)
        /\ \A k, l \in 1 .. N : seq[k] = seq[l] => k = l
    BY DEF Context, Good, Links
  <1>2. s \in T[0]
    <2>1. L(0) = Live(s)
      OBVIOUS
    <2>2. Closed(s, s, L(0))
      BY <2>1, ClosedRefl
    <2> QED
      BY <1>1, <2>2
  <1>3. ASSUME NEW k \in 1 .. N, NEW u \in T[k - 1]
        PROVE  CloseOp(S, u, seq[k]) \in T[k]
    <2> DEFINE i == seq[k]
    <2>1. k - 1 \in 0 .. N /\ k \in 0 .. N
      BY <1>1
    <2>2. u \in Context /\ Good(u, ro) /\ Closed(s, u, L(k - 1))
      BY <2>1
    <2>3. i \in Live(s) /\ (1 .. k) = (1 .. k - 1) \cup {k}
      BY <1>1 DEF ToSet
    <2>4. \A l \in 1 .. k - 1 : seq[l] # i
      BY <1>1
    <2>5. L(k) = IF i \in S THEN L(k - 1) \ {i} ELSE L(k - 1)
      BY <2>3
    <2>6. i \in L(k - 1)
      BY <2>3, <2>4
    <2> HIDE DEF i, L, D
    <2>7. CASE i \in S
      <3> DEFINE v == multi_close_instance(u, i)
      <3>1. i \in Live(u) /\ Live(u) = L(k - 1)
        BY <2>2, <2>6 DEF Closed
      <3>2. v \in Context /\ Good(v, ro) /\ Closed(u, v, Live(u) \ {i})
        BY <2>2, <3>1, CloseStep
      <3> HIDE DEF v
      <3>3. Closed(u, v, L(k)) /\ L(k) \subseteq L(k - 1)
        BY <2>5, <2>7, <3>1, <3>2
      <3>4. Closed(s, v, L(k))
        BY <2>2, <3>3, ClosedTrans
      <3>5. v \in D(k)
        BY <3>2, <3>4 DEF D
      <3> QED
        BY <2>1, <2>7, <3>5 DEF CloseOp, v, i
    <2>8. CASE i \notin S
      <3>1. u \in D(k)
        BY <2>2, <2>5, <2>8 DEF D
      <3> QED
        BY <2>1, <2>8, <3>1 DEF CloseOp, i
    <2> QED
      BY <2>7, <2>8
  <1>4. Closings!Fold(S, s, seq) \in T[N]
    <2> HIDE DEF seq, N, T
    <2>1. \A k \in 1 .. Len(seq) : \A u \in T[k - 1] : CloseOp(S, u, seq[k]) \in T[k]
      BY <1>3 DEF N
    <2> QED
      BY <1>1, <1>2, <2>1, Closings!FoldInvariant DEF N
  <1>5. CloseAll(s, S) = Closings!Fold(S, s, seq)
    BY DEF CloseAll, CloseOp, FoldLeft, MapThenFoldSet, Max,
           Closings!Fold, Closings!FoldLeft, Closings!MapThenFoldSet, Closings!Max
  <1>6. L(N) = Live(s) \ S
    BY <1>1 DEF ToSet
  <1>7. T[N] = D(N)
    BY <1>1
  <1> HIDE DEF L, T, N
  <1> QED
    BY <1>4, <1>5, <1>6, <1>7

-----------------------------------------------------------------------------
(* A new start, new instances, and what the end of an event changes.       *)

\* Nothing is allocated, and no address is in use.
LEMMA InitGood ==
    ASSUME NEW p \in PoolType, \A h \in Handle : ~p.list[h].in_use, NEW ro,
           ~DuplicateCN => Fixed(multi_init(p), ro)
    PROVE  LET t == multi_init(p)
           IN  t \in Context /\ Good(t, ro) /\ Output(t) /\ t.mbuf = <<>>
  <1> DEFINE t == multi_init(p)
  <1>1. /\ t \in Context /\ Live(t) = {} /\ \A i : RoutesTo(t, i) = {}
        /\ t.pool = p /\ t.mbuf = <<>> /\ t.pending = NULL /\ t.iter = <<>>
        /\ t.schedule = {} /\ \A r \in Real : t.hash[r] = NULL
        /\ \A i \in Inst : t.inst[i] = NULL
        /\ \A a \in Addr : t.vhash[a] = NULL
        /\ \A b \in Bit : t.net_len_refcount[b] = 0
    BY DEF multi_init, Context, Live, RoutesTo
  <1> HIDE DEF t
  <1>2. Counts(t) /\ Clients(t) /\ Leases(t) /\ Routing(t) /\ Addressed(t) /\ Output(t)
    <2>1. Counts(t)
      BY <1>1 DEF Counts, CountsWith
    <2>2. Clients(t) /\ Leases(t) /\ Addressed(t)
      BY <1>1 DEF Clients, Leases, Addressed
    <2>3. Routing(t)
      <3>1. \A a \in Nets \cup Hosts : t.vhash[a] = NULL
        BY <1>1 DEF Addr
      <3> QED
        BY <3>1 DEF Routing, NetworkRoute, CachedRoute
    <2>4. Output(t)
      BY <1>1 DEF Output
    <2> QED
      BY <2>1, <2>2, <2>3, <2>4
  <1>3. Links(t)
    <2>1. <<>> \in QueueOf({})
      BY NullInst DEF QueueOf
    <2>2. ToSet(<<>>) = {}
      BY DEF ToSet
    <2>3. /\ t.pending \in Live(t) \cup {NULL} /\ t.mbuf \in QueueOf(Live(t))
          /\ ToSet(t.iter) = Live(t) /\ t.schedule = Live(t)
      BY <1>1, <2>1, <2>2
    <2>4. \A k, l \in DOMAIN t.iter : t.iter[k] = t.iter[l] => k = l
      BY <1>1
    <2> QED
      BY <1>1, <2>3, <2>4 DEF Links
  <1>4. Lengths(t)
    <2>1. \A b : AllOfLength(t, b) = {}
      BY <1>1 DEF AllOfLength
    <2> QED
      BY <1>1, <2>1, FS_EmptySet DEF Lengths
  <1> QED
    BY <1>1, <1>2, <1>3, <1>4 DEF Good, t

\* The same instances, addresses and routes, for other names, packets and
\* output.
SameCore(s, t) ==
    /\ t.hash = s.hash /\ t.iter = s.iter /\ t.schedule = s.schedule
    /\ t.pool = s.pool /\ t.vhash = s.vhash /\ t.net_len_refcount = s.net_len_refcount
    /\ \A i \in Inst :
        /\ t.inst[i] = NULL <=> s.inst[i] = NULL
        /\ s.inst[i] # NULL =>
             /\ t.inst[i].real = s.inst[i].real /\ t.inst[i].halt = s.inst[i].halt
             /\ t.inst[i].refcount = s.inst[i].refcount
             /\ t.inst[i].route_count = s.inst[i].route_count
             /\ t.inst[i].vaddr_handle = s.inst[i].vaddr_handle
             /\ t.inst[i].addr = s.inst[i].addr
             /\ t.inst[i].locked_cn = s.inst[i].locked_cn
             /\ t.inst[i].did_iroutes = s.inst[i].did_iroutes
             /\ t.inst[i].connection_established_flag
                    = s.inst[i].connection_established_flag

LEMMA SameCoreGood ==
    ASSUME NEW s \in Context, NEW t \in Context, NEW ro, Good(s, ro), SameCore(s, t),
           t.pending \in Live(s) \cup {NULL}, t.mbuf \in QueueOf(Live(s)),
           \A i \in Live(s) : t.inst[i].connection_established_flag =>
                t.inst[i].common_name \in {t.inst[i].locked_cn, NULL}
    PROVE  Good(t, ro) /\ Live(t) = Live(s)
  <1>1. /\ Counts(s) /\ Links(s) /\ Clients(s) /\ Leases(s) /\ Routing(s) /\ Lengths(s)
        /\ AddressPlan => Addressed(s)
        /\ ~DuplicateCN => Fixed(s, ro)
    BY DEF Good
  <1>2. Live(t) = Live(s) /\ \A j : RoutesTo(t, j) = RoutesTo(s, j)
    BY DEF SameCore, Live, RoutesTo
  <1>3. Counts(t)
    <2>1. \A a \in Addr : s.vhash[a] # NULL => s.vhash[a].instance \in Inst
      BY DEF Context, Route
    <2> QED
      BY <1>1, <1>2, <2>1 DEF SameCore, Counts, CountsWith
  <1>4. Links(t)
    <2>1. \A i \in Live(s) : s.inst[i] # NULL /\ t.inst[i].real = s.inst[i].real
      BY DEF SameCore, Live
    <2>2. /\ \A i \in Live(t) : t.hash[t.inst[i].real] = i
          /\ \A r \in Real : t.hash[r] # NULL =>
                t.hash[r] \in Live(t) /\ t.inst[t.hash[r]].real = r
      BY <1>1, <1>2, <2>1 DEF SameCore, Links
    <2>3. /\ ToSet(t.iter) = Live(t) /\ t.schedule = Live(t)
          /\ \A k, l \in DOMAIN t.iter : t.iter[k] = t.iter[l] => k = l
      BY <1>1, <1>2 DEF SameCore, Links
    <2> QED
      BY <1>2, <2>2, <2>3 DEF Links
  <1>5. Clients(t)
    BY <1>1, <1>2 DEF SameCore, Clients, Live
  <1>6. Leases(t)
    BY <1>1, <1>2 DEF SameCore, Leases, Live
  <1>7. Routing(t)
    <2>1. \A n \in Nets : multi_route_defined(t, n) <=> multi_route_defined(s, n)
      BY <1>1 DEF SameCore, multi_route_defined, Counts, CountsWith, Context, Route, Addr
    <2>2. t.net_len_refcount = s.net_len_refcount
          /\ \A n \in Nets : multi_route_defined(s, n) => t.vhash[n] = s.vhash[n]
      BY DEF SameCore
    <2>3. \A a : NetOwner(t, a) = NetOwner(s, a)
      BY <2>1, <2>2, NetOwnerSame
    <2>4. \A n \in Nets : NetworkRoute(t, n)
      BY <1>1, <1>2 DEF SameCore, Routing, NetworkRoute, Live
    <2>5. \A a \in Hosts : CachedRoute(t, a)
      BY <1>1, <1>2, <2>3 DEF SameCore, Routing, CachedRoute
    <2> QED
      BY <2>4, <2>5 DEF Routing
  <1>8. Lengths(t)
    <2>1. ASSUME NEW b PROVE AllOfLength(t, b) = AllOfLength(s, b)
      <3>1. {j \in Live(t) : t.inst[j].did_iroutes} = {j \in Live(s) : s.inst[j].did_iroutes}
        BY <1>2 DEF SameCore, Live
      <3>2. \A j \in Live(s) : t.inst[j].locked_cn = s.inst[j].locked_cn
        BY DEF SameCore, Live
      <3> QED
        BY <3>1, <3>2 DEF AllOfLength
    <2> QED
      BY <1>1, <2>1 DEF Lengths, SameCore
  <1>9. AddressPlan => Addressed(t)
    BY <1>1, <1>2 DEF SameCore, Addressed, Live
  <1>10. ~DuplicateCN => Fixed(t, ro)
    BY <1>1 DEF SameCore, Fixed
  <1> QED
    BY <1>2, <1>3, <1>4, <1>5, <1>6, <1>7, <1>8, <1>9, <1>10 DEF Good

\* Packets and output that change.
Requeue(s, q, p, o) == [s EXCEPT !.mbuf = q, !.pending = p, !.out = o]

LEMMA Requeued ==
    ASSUME NEW s \in Context, NEW ro, Good(s, ro), NEW q \in QueueOf(Live(s)),
           NEW p \in Live(s) \cup {NULL}, NEW o \in SUBSET {"link", "tun"}
    PROVE  LET t == Requeue(s, q, p, o)
           IN  /\ t \in Context /\ Good(t, ro) /\ Live(t) = Live(s)
               /\ t.mbuf = q /\ t.pending = p /\ t.out = o
               /\ t.inst = s.inst /\ t.vhash = s.vhash
  <1> DEFINE t == Requeue(s, q, p, o)
  <1>1. Live(s) \subseteq Inst
    BY DEF Live
  <1>2. q \in Seq(Inst \cup {NULL}) /\ p \in Inst \cup {NULL}
    BY <1>1 DEF QueueOf
  <1>3. /\ t \in Context /\ t.mbuf = q /\ t.pending = p /\ t.out = o
        /\ t.inst = s.inst /\ t.hash = s.hash /\ t.iter = s.iter /\ t.schedule = s.schedule
        /\ t.pool = s.pool /\ t.vhash = s.vhash /\ t.net_len_refcount = s.net_len_refcount
    BY <1>2 DEF Context, Requeue
  <1> HIDE DEF t
  <1>4. SameCore(s, t)
    BY <1>3 DEF SameCore
  <1>5. \A i \in Live(s) : t.inst[i].connection_established_flag =>
                t.inst[i].common_name \in {t.inst[i].locked_cn, NULL}
    BY <1>3 DEF Good, Clients
  <1>6. Good(t, ro) /\ Live(t) = Live(s)
    <2>1. s \in Context /\ t \in Context /\ Good(s, ro)
      BY <1>3
    <2>2. t.pending \in Live(s) \cup {NULL} /\ t.mbuf \in QueueOf(Live(s))
      BY <1>3
    <2> QED
      BY ONLY <2>1, <2>2, <1>4, <1>5, SameCoreGood
  <1> QED
    BY <1>3, <1>6 DEF t

\* A new instance has nothing yet.
LEMMA CreateGood ==
    ASSUME NEW s \in Context, NEW ro, Good(s, ro), NEW i \in Inst, s.inst[i] = NULL,
           NEW r \in Real, s.hash[r] = NULL
    PROVE  LET t == multi_create_instance(s, i, r)
           IN  /\ t \in Context /\ Good(t, ro) /\ i \in Live(t)
               /\ t.mbuf = s.mbuf /\ t.pending = s.pending /\ t.out = s.out
               /\ Live(t) = Live(s) \cup {i}
  <1> DEFINE x == [real |-> r, halt |-> FALSE, refcount |-> 1,
                   route_count |-> 0, vaddr_handle |-> 0, addr |-> NULL,
                   common_name |-> NULL, locked_cn |-> NULL,
                   connection_established_flag |-> FALSE,
                   did_iroutes |-> FALSE]
             t == multi_create_instance(s, i, r)
  <1>1. /\ Counts(s) /\ Links(s) /\ Clients(s) /\ Leases(s) /\ Routing(s) /\ Lengths(s)
        /\ AddressPlan => Addressed(s)
        /\ ~DuplicateCN => Fixed(s, ro)
    BY DEF Good
  <1>2. /\ x \in Instance /\ x # NULL /\ ~x.halt /\ x.refcount = 1 /\ x.route_count = 0
        /\ x.vaddr_handle = 0 /\ x.real = r /\ x.addr = NULL /\ x.locked_cn = NULL
        /\ ~x.connection_established_flag /\ ~x.did_iroutes
    <2>1. 0 \in 0 .. MaxRoutes /\ 1 \in Nat
      BY NullInst
    <2>2. x \in Instance
      BY <2>1 DEF Instance
    <2>3. x # NULL
      <3> HIDE DEF x
      <3> QED
        BY <2>2, NullInst
    <2> QED
      BY <2>2, <2>3
  <1> HIDE DEF x
  <1>3. /\ t \in Context /\ t.inst = [s.inst EXCEPT ![i] = x]
        /\ t.hash = [s.hash EXCEPT ![r] = i] /\ t.iter = <<i>> \o s.iter
        /\ t.schedule = s.schedule \cup {i} /\ t.mbuf = s.mbuf /\ t.pool = s.pool
        /\ t.pending = s.pending /\ t.out = s.out
        /\ t.vhash = s.vhash /\ t.net_len_refcount = s.net_len_refcount
    <2>1. <<i>> \o s.iter \in Seq(Inst)
      BY DEF Context
    <2>2. t = [s EXCEPT !.inst = [s.inst EXCEPT ![i] = x], !.hash = [s.hash EXCEPT ![r] = i],
                        !.iter = <<i>> \o s.iter, !.schedule = s.schedule \cup {i}]
      BY DEF multi_create_instance, x, Context
    <2>3. [s.inst EXCEPT ![i] = x] \in [Inst -> Instance \cup {NULL}]
      BY <1>2 DEF Context
    <2> HIDE DEF t
    <2> QED
      BY <2>1, <2>2, <2>3 DEF Context
  <1> HIDE DEF t
  <1>4. /\ t.inst[i] = x /\ \A j \in Inst \ {i} : t.inst[j] = s.inst[j]
    BY <1>3 DEF Context
  <1>5. /\ Live(t) = Live(s) \cup {i} /\ i \notin Live(s)
        /\ \A j \in Live(s) : t.inst[j] = s.inst[j]
    BY <1>2, <1>4 DEF Live
  <1>6. \A a \in Addr : s.vhash[a] # NULL => s.vhash[a].instance \in Inst \ {i}
    BY <1>1 DEF Counts, CountsWith, Context, Route
  <1>7. RoutesTo(t, i) = {} /\ \A j : RoutesTo(t, j) = RoutesTo(s, j)
    BY <1>3, <1>6 DEF RoutesTo
  <1>8. Counts(t)
    <2>1. \A a \in Addr : t.vhash[a] # NULL => t.inst[t.vhash[a].instance] # NULL
      BY <1>1, <1>3, <1>4, <1>6 DEF Counts, CountsWith
    <2>2. ASSUME NEW j \in Inst, t.inst[j] # NULL
          PROVE  /\ t.inst[j].route_count = Cardinality(RoutesTo(t, j))
                                            + IF j \in {} THEN 1 ELSE 0
                 /\ t.inst[j].refcount = t.inst[j].route_count
                                         + IF t.inst[j].halt THEN 0 ELSE 1
                 /\ t.inst[j].refcount > 0
      <3>1. CASE j = i
        BY <1>2, <1>4, <1>7, <3>1, FS_EmptySet
      <3>2. CASE j # i
        BY <1>1, <1>4, <1>7, <2>2, <3>2 DEF Counts, CountsWith
      <3> QED
        BY <3>1, <3>2
    <2> QED
      BY <2>1, <2>2 DEF Counts, CountsWith
  <1>9. Links(t)
    <2>1. t.pending \in Live(t) \cup {NULL} /\ t.mbuf \in QueueOf(Live(t))
      BY <1>1, <1>3, <1>5 DEF Links, QueueOf
    <2>2. /\ ToSet(t.iter) = Live(t)
          /\ \A k, l \in DOMAIN t.iter : t.iter[k] = t.iter[l] => k = l
      <3> DEFINE q == s.iter
                 n == Len(q)
      <3>1. /\ q \in Seq(Inst) /\ n \in Nat /\ DOMAIN q = 1 .. n
            /\ \A k \in 1 .. n : q[k] \in Live(s)
            /\ \A j \in Live(s) : \E k \in 1 .. n : q[k] = j
            /\ \A k, l \in 1 .. n : q[k] = q[l] => k = l
        BY <1>1 DEF Context, Links, ToSet
      <3>2. /\ DOMAIN t.iter = 1 .. n + 1 /\ t.iter[1] = i
            /\ \A k \in 1 .. n : t.iter[k + 1] = q[k]
        BY <1>3, <3>1
      <3> HIDE DEF q, n
      <3>3. \A k \in 1 .. n + 1 : k = 1 \/ (k - 1 \in 1 .. n /\ t.iter[k] = q[k - 1])
        BY <3>1, <3>2
      <3>4. \A k \in 1 .. n : k + 1 \in 1 .. n + 1
        BY <3>1
      <3>5. \A k, l \in 1 .. n + 1 : t.iter[k] = t.iter[l] => k = l
        <4> SUFFICES ASSUME NEW k \in 1 .. n + 1, NEW l \in 1 .. n + 1, t.iter[k] = t.iter[l]
                     PROVE  k = l
          OBVIOUS
        <4>1. CASE k = 1
          BY <1>5, <3>1, <3>2, <3>3, <4>1
        <4>2. CASE l = 1
          BY <1>5, <3>1, <3>2, <3>3, <4>2
        <4>3. CASE k # 1 /\ l # 1
          <5>1. /\ k - 1 \in 1 .. n /\ t.iter[k] = q[k - 1]
                /\ l - 1 \in 1 .. n /\ t.iter[l] = q[l - 1]
            BY <3>3, <4>3
          <5>2. k - 1 = l - 1
            BY <3>1, <5>1
          <5> QED
            BY <5>2, <3>1
        <4> QED
          BY <4>1, <4>2, <4>3
      <3>6. \A k \in 1 .. n + 1 : t.iter[k] \in Live(t)
        BY <1>5, <3>1, <3>2, <3>3
      <3>7. \A j \in Live(t) : \E k \in 1 .. n + 1 : t.iter[k] = j
        <4>1. 1 \in 1 .. n + 1
          BY <3>1
        <4> QED
          BY <1>5, <3>1, <3>2, <3>4, <4>1
      <3> QED
        BY <3>2, <3>5, <3>6, <3>7 DEF ToSet
    <2>3. t.schedule = Live(t)
      BY <1>1, <1>3, <1>5 DEF Links
    <2>4. ASSUME NEW j \in Live(t) PROVE t.hash[t.inst[j].real] = j
      <3>1. CASE j = i
        BY <1>2, <1>3, <1>4, <3>1 DEF Context
      <3>2. CASE j # i
        <4>1. j \in Live(s) /\ t.inst[j] = s.inst[j] /\ s.hash[s.inst[j].real] = j
          BY <1>1, <1>5, <3>2 DEF Links
        <4>2. s.inst[j].real \in Real
          BY <4>1 DEF Live, Context, Instance
        <4>3. s.inst[j].real # r
          BY <4>1, NullInst DEF Live
        <4> QED
          BY <1>3, <4>1, <4>2, <4>3 DEF Context
      <3> QED
        BY <3>1, <3>2
    <2>5. ASSUME NEW q \in Real, t.hash[q] # NULL
          PROVE  t.hash[q] \in Live(t) /\ t.inst[t.hash[q]].real = q
      <3>1. CASE q = r
        BY <1>2, <1>3, <1>4, <1>5, <3>1 DEF Context
      <3>2. CASE q # r
        <4>1. t.hash[q] = s.hash[q] /\ s.hash[q] \in Live(s) /\ s.inst[s.hash[q]].real = q
          BY <1>1, <1>3, <2>5, <3>2 DEF Context, Links
        <4> QED
          BY <1>5, <4>1
      <3> QED
        BY <3>1, <3>2
    <2> QED
      BY <2>1, <2>2, <2>3, <2>4, <2>5 DEF Links
  <1>10. Clients(t)
    <2> SUFFICES ASSUME NEW j \in Live(t)
                 PROVE  IF t.inst[j].connection_established_flag
                        THEN /\ t.inst[j].locked_cn \in CN
                             /\ t.inst[j].common_name \in {t.inst[j].locked_cn, NULL}
                        ELSE /\ t.inst[j].locked_cn = NULL /\ t.inst[j].addr = NULL
                             /\ t.inst[j].vaddr_handle = 0 /\ ~t.inst[j].did_iroutes
                             /\ RoutesTo(t, j) = {}
      BY DEF Clients
    <2>1. CASE j = i
      BY <1>2, <1>4, <1>7, <2>1
    <2>2. CASE j # i
      BY <1>1, <1>5, <1>7, <2>2 DEF Clients
    <2> QED
      BY <2>1, <2>2
  <1>11. Leases(t)
    <2>1. \A j \in Live(t) : t.inst[j].vaddr_handle # 0 =>
            j \in Live(s) /\ t.inst[j] = s.inst[j]
      BY <1>2, <1>4, <1>5
    <2>2. \A j \in Live(s) : j \in Live(t) /\ t.inst[j] = s.inst[j]
      BY <1>5
    <2>3. ASSUME NEW h \in Handle
          PROVE  t.pool.list[h].in_use <=> \E j \in Live(t) : t.inst[j].vaddr_handle = h
      BY <1>1, <1>3, <2>1, <2>2, HandleType DEF Leases
    <2>4. \A j, k \in Live(t) :
            t.inst[j].vaddr_handle = t.inst[k].vaddr_handle /\ t.inst[j].vaddr_handle # 0
                => j = k
      BY <1>1, <2>1 DEF Leases
    <2>5. ~DuplicateCN => \A j \in Live(t) : t.inst[j].vaddr_handle # 0 =>
            t.pool.list[t.inst[j].vaddr_handle].common_name = t.inst[j].locked_cn
      BY <1>1, <1>3, <2>1 DEF Leases
    <2> QED
      BY <2>3, <2>4, <2>5 DEF Leases
  <1>12. Routing(t)
    <2>1. \A n \in Nets : multi_route_defined(t, n) <=> multi_route_defined(s, n)
      BY <1>3, <1>4, <1>6 DEF multi_route_defined, Addr
    <2>2. t.net_len_refcount = s.net_len_refcount
          /\ \A n \in Nets : multi_route_defined(s, n) => t.vhash[n] = s.vhash[n]
      BY <1>3
    <2>3. \A a : NetOwner(t, a) = NetOwner(s, a)
      BY <1>3, <2>1, <2>2, NetOwnerSame
    <2>4. \A a \in Addr : s.vhash[a] # NULL /\ s.vhash[a].instance \in Live(t) =>
            s.vhash[a].instance \in Live(s)
            /\ t.inst[s.vhash[a].instance] = s.inst[s.vhash[a].instance]
      BY <1>5, <1>6
    <2>5. \A n \in Nets : NetworkRoute(t, n)
      BY <1>1, <1>3, <2>4 DEF Routing, NetworkRoute, Addr
    <2>6. \A a \in Hosts : CachedRoute(t, a)
      BY <1>1, <1>3, <2>3, <2>4 DEF Routing, CachedRoute, Addr
    <2> QED
      BY <2>5, <2>6 DEF Routing
  <1>13. Lengths(t)
    <2>1. ASSUME NEW b PROVE AllOfLength(t, b) = AllOfLength(s, b)
      <3>1. {j \in Live(t) : t.inst[j].did_iroutes} = {j \in Live(s) : s.inst[j].did_iroutes}
        BY <1>2, <1>4, <1>5
      <3> QED
        BY <1>5, <3>1 DEF AllOfLength
    <2> QED
      BY <1>1, <1>3, <2>1 DEF Lengths
  <1>14. AddressPlan => Addressed(t)
    <2>1. \A j \in Live(t) : t.inst[j].did_iroutes => j \in Live(s) /\ t.inst[j] = s.inst[j]
      BY <1>2, <1>4, <1>5
    <2> QED
      BY <1>1, <1>3, <2>1 DEF Addressed
  <1>15. ~DuplicateCN => Fixed(t, ro)
    BY <1>1, <1>3 DEF Fixed
  <1> QED
    BY <1>3, <1>5, <1>8, <1>9, <1>10, <1>11, <1>12, <1>13, <1>14, <1>15 DEF Good, t

-----------------------------------------------------------------------------
(* The establishment of a connection.                                      *)

\* Every instance but i, the routes and the packets stay.
SameOthers(s, t, i) ==
    /\ t.hash = s.hash /\ t.iter = s.iter /\ t.schedule = s.schedule
    /\ t.mbuf = s.mbuf /\ t.pending = s.pending /\ t.out = s.out
    /\ t.vhash = s.vhash /\ t.net_len_refcount = s.net_len_refcount
    /\ \A j \in Inst \ {i} : t.inst[j] = s.inst[j]
    /\ t.inst[i].real = s.inst[i].real
    /\ t.inst[i].refcount = s.inst[i].refcount
    /\ t.inst[i].route_count = s.inst[i].route_count
    /\ i \in Live(s) /\ i \in Live(t)

\* The instance has a name, but no routes, and an address of one source.
Fresh(s, i) ==
    /\ s.inst[i].connection_established_flag /\ ~s.inst[i].did_iroutes
    /\ RoutesTo(s, i) = {}
    /\ IF s.inst[i].vaddr_handle # 0
       THEN s.inst[i].addr = PoolAddr[s.inst[i].vaddr_handle]
       ELSE s.inst[i].addr = NULL \/ \E cn \in CN : s.inst[i].addr = StaticAddr[cn]

\* An instance without routes may be changed, and the pool with it.
LEMMA SameOthersGood ==
    ASSUME NEW s \in Context, NEW t \in Context, NEW ro, Good(s, ro), NEW i \in Inst,
           SameOthers(s, t, i), RoutesTo(s, i) = {}, ~s.inst[i].did_iroutes, Fresh(t, i),
           t.inst[i].locked_cn \in CN,
           t.inst[i].common_name \in {t.inst[i].locked_cn, NULL},
           Leases(t), ~DuplicateCN => Fixed(t, ro)
    PROVE  Good(t, ro) /\ Live(t) = Live(s)
  <1>1. /\ Counts(s) /\ Links(s) /\ Clients(s) /\ Routing(s) /\ Lengths(s)
        /\ AddressPlan => Addressed(s)
    BY DEF Good
  <1>2. Live(t) = Live(s) /\ i \in Live(s) /\ \A j : RoutesTo(t, j) = RoutesTo(s, j)
    BY DEF SameOthers, Live, RoutesTo
  <1>3. \A j \in Live(s) : j # i => t.inst[j] = s.inst[j]
    BY DEF SameOthers, Live
  <1>4. \A a \in Addr : s.vhash[a] # NULL => s.vhash[a].instance \in Inst \ {i}
    BY DEF RoutesTo, Context, Route
  <1>5. Counts(t)
    <2>1. \A a \in Addr : t.vhash[a] # NULL => t.inst[t.vhash[a].instance] # NULL
      BY <1>1, <1>4 DEF SameOthers, Counts, CountsWith
    <2>2. ASSUME NEW j \in Inst, t.inst[j] # NULL
          PROVE  /\ t.inst[j].route_count = Cardinality(RoutesTo(t, j))
                                            + IF j \in {} THEN 1 ELSE 0
                 /\ t.inst[j].refcount = t.inst[j].route_count
                                         + IF t.inst[j].halt THEN 0 ELSE 1
                 /\ t.inst[j].refcount > 0
      <3>1. CASE j = i
        <4>1. s.inst[i] # NULL /\ s.inst[i].halt = FALSE /\ t.inst[i].halt = FALSE
          BY <1>2 DEF Live, Context, Instance
        <4> QED
          BY <1>1, <1>2, <3>1, <4>1 DEF SameOthers, Counts, CountsWith
      <3>2. CASE j # i
        BY <1>1, <1>2, <2>2, <3>2 DEF SameOthers, Counts, CountsWith
      <3> QED
        BY <3>1, <3>2
    <2> QED
      BY <2>1, <2>2 DEF Counts, CountsWith
  <1>6. Links(t)
    <2>1. \A j \in Live(s) : t.inst[j].real = s.inst[j].real
      BY <1>3 DEF SameOthers
    <2>2. /\ t.pending \in Live(t) \cup {NULL} /\ t.mbuf \in QueueOf(Live(t))
          /\ ToSet(t.iter) = Live(t) /\ t.schedule = Live(t)
          /\ \A k, l \in DOMAIN t.iter : t.iter[k] = t.iter[l] => k = l
      BY <1>1, <1>2 DEF SameOthers, Links
    <2>3. /\ \A j \in Live(t) : t.hash[t.inst[j].real] = j
          /\ \A r \in Real : t.hash[r] # NULL =>
                t.hash[r] \in Live(t) /\ t.inst[t.hash[r]].real = r
      BY <1>1, <1>2, <2>1 DEF SameOthers, Links
    <2> QED
      BY <2>2, <2>3 DEF Links
  <1>7. Clients(t)
    <2> SUFFICES ASSUME NEW j \in Live(t)
                 PROVE  IF t.inst[j].connection_established_flag
                        THEN /\ t.inst[j].locked_cn \in CN
                             /\ t.inst[j].common_name \in {t.inst[j].locked_cn, NULL}
                        ELSE /\ t.inst[j].locked_cn = NULL /\ t.inst[j].addr = NULL
                             /\ t.inst[j].vaddr_handle = 0 /\ ~t.inst[j].did_iroutes
                             /\ RoutesTo(t, j) = {}
      BY DEF Clients
    <2>1. CASE j = i
      BY <2>1 DEF Fresh
    <2>2. CASE j # i
      BY <1>1, <1>2, <1>3, <2>2 DEF Clients
    <2> QED
      BY <2>1, <2>2
  <1>8. Routing(t)
    <2>1. t.vhash = s.vhash /\ t.net_len_refcount = s.net_len_refcount
      BY DEF SameOthers
    <2>2. \A n \in Nets : multi_route_defined(t, n) <=> multi_route_defined(s, n)
      BY <1>4, <2>1 DEF multi_route_defined, Addr, SameOthers
    <2>3. \A a : NetOwner(t, a) = NetOwner(s, a)
      BY <2>1, <2>2, NetOwnerSame
    <2>4. \A a \in Addr : s.vhash[a] # NULL =>
            t.inst[s.vhash[a].instance] = s.inst[s.vhash[a].instance]
      BY <1>4 DEF SameOthers
    <2>5. \A n \in Nets : NetworkRoute(t, n)
      BY <1>1, <1>2, <2>1, <2>4 DEF Routing, NetworkRoute, Addr
    <2>6. \A a \in Hosts : CachedRoute(t, a)
      BY <1>1, <1>2, <2>1, <2>3 DEF Routing, CachedRoute, Addr
    <2> QED
      BY <2>5, <2>6 DEF Routing
  <1>9. Lengths(t)
    <2>1. ASSUME NEW b PROVE AllOfLength(t, b) = AllOfLength(s, b)
      <3>1. {j \in Live(t) : t.inst[j].did_iroutes} = {j \in Live(s) : s.inst[j].did_iroutes}
        BY <1>2, <1>3 DEF Fresh
      <3>2. \A j \in {k \in Live(s) : s.inst[k].did_iroutes} : t.inst[j] = s.inst[j]
        BY <1>3
      <3> QED
        BY <3>1, <3>2 DEF AllOfLength
    <2> QED
      BY <1>1, <2>1 DEF Lengths, SameOthers
  <1>10. AddressPlan => Addressed(t)
    <2>1. \A j \in Live(t) : t.inst[j].did_iroutes => j \in Live(s) /\ t.inst[j] = s.inst[j]
      BY <1>2, <1>3 DEF Fresh
    <2> QED
      BY <1>1, <2>1 DEF Addressed, SameOthers
  <1>11. Leases(t) /\ (~DuplicateCN => Fixed(t, ro))
    OBVIOUS
  <1>12. Good(t, ro)
    BY ONLY <1>5, <1>6, <1>7, <1>8, <1>9, <1>10, <1>11 DEF Good
  <1> QED
    BY <1>2, <1>12

\* The name is locked.
LEMMA LockGood ==
    ASSUME NEW s \in Context, NEW ro, Good(s, ro), NEW i \in Live(s),
           ~s.inst[i].connection_established_flag, s.inst[i].common_name # NULL
    PROVE  LET t == [s EXCEPT !.inst[i].locked_cn = s.inst[i].common_name,
                              !.inst[i].connection_established_flag = TRUE]
           IN  /\ t \in Context /\ Good(t, ro) /\ i \in Live(t) /\ Fresh(t, i)
               /\ t.inst[i].common_name = s.inst[i].common_name
               /\ t.pending = s.pending /\ t.out = s.out
  <1> DEFINE x == s.inst[i]
             y == [x EXCEPT !.locked_cn = x.common_name,
                            !.connection_established_flag = TRUE]
             t == [s EXCEPT !.inst[i] = y]
             c == [s EXCEPT !.inst[i].locked_cn = s.inst[i].common_name,
                            !.inst[i].connection_established_flag = TRUE]
  <1>1. i \in Inst /\ x \in Instance /\ x # NULL /\ ~x.halt
    BY DEF Live, Context
  <1>2. /\ y \in Instance /\ y.locked_cn = x.common_name /\ y.connection_established_flag
        /\ y.real = x.real /\ y.halt = x.halt /\ y.refcount = x.refcount
        /\ y.route_count = x.route_count /\ y.vaddr_handle = x.vaddr_handle
        /\ y.addr = x.addr /\ y.common_name = x.common_name
        /\ y.did_iroutes = x.did_iroutes
    BY <1>1 DEF Instance
  <1>3. x.common_name \in CN
    BY <1>1 DEF Instance
  <1>4. /\ x.vaddr_handle = 0 /\ x.addr = NULL /\ ~x.did_iroutes /\ RoutesTo(s, i) = {}
        /\ Leases(s) /\ (~DuplicateCN => Fixed(s, ro))
    BY DEF Good, Clients
  <1>5. c = t
    BY <1>1 DEF Context
  <1> HIDE DEF y, t, c
  <1>6. /\ t \in Context /\ t.inst = [s.inst EXCEPT ![i] = y]
        /\ t.hash = s.hash /\ t.iter = s.iter /\ t.schedule = s.schedule
        /\ t.mbuf = s.mbuf /\ t.pool = s.pool
        /\ t.pending = s.pending /\ t.out = s.out
        /\ t.vhash = s.vhash /\ t.net_len_refcount = s.net_len_refcount
    BY <1>1, <1>2, ChangedInst DEF t
  <1>7. t.inst[i] = y /\ \A j \in Inst \ {i} : t.inst[j] = s.inst[j]
    BY <1>1, <1>6 DEF Context
  <1>8. y # NULL
    BY <1>2, NullInst
  <1>9. i \in Live(t) /\ Live(t) = Live(s)
    BY <1>1, <1>2, <1>7, <1>8 DEF Live
  <1>10. SameOthers(s, t, i)
    BY <1>2, <1>6, <1>7, <1>9 DEF SameOthers
  <1>11. Fresh(t, i)
    BY <1>2, <1>4, <1>6, <1>7 DEF Fresh, RoutesTo
  <1>12. Leases(t)
    <2>1. \A j \in Live(s) : t.inst[j].vaddr_handle = s.inst[j].vaddr_handle
      BY <1>2, <1>7 DEF Live
    <2>2. \A j \in Live(s) : t.inst[j].vaddr_handle # 0 => t.inst[j] = s.inst[j]
      BY <1>2, <1>4, <1>7 DEF Live
    <2> QED
      BY <1>4, <1>6, <1>9, <2>1, <2>2 DEF Leases
  <1>13. ~DuplicateCN => Fixed(t, ro)
    BY <1>4, <1>6 DEF Fixed
  <1>14. Good(t, ro)
    BY <1>1, <1>2, <1>3, <1>4, <1>6, <1>7, <1>10, <1>11, <1>12, <1>13, SameOthersGood
  <1>15. /\ c \in Context /\ Good(c, ro) /\ i \in Live(c) /\ Fresh(c, i)
         /\ c.inst[i].common_name = s.inst[i].common_name
         /\ c.pending = s.pending /\ c.out = s.out
    BY <1>2, <1>5, <1>6, <1>7, <1>9, <1>11, <1>14
  <1> QED
    BY <1>15 DEF c

\* Other instances of the client are closed.
LEMMA DuplicatesGood ==
    ASSUME NEW s \in Context, NEW ro, Good(s, ro), NEW i \in Live(s), Fresh(s, i)
    PROVE  LET t == multi_delete_dup(s, i)
           IN  t \in Context /\ Good(t, ro) /\ i \in Live(t) /\ Fresh(t, i)
  <1> DEFINE S == Named(s, s.inst[i].common_name) \ {i}
             t == CloseAll(s, S)
  <1>0. multi_delete_dup(s, i) = t
    BY DEF multi_delete_dup
  <1> HIDE DEF t
  <1>1. t \in Context /\ Good(t, ro) /\ Closed(s, t, Live(s) \ S)
    <2> HIDE DEF S
    <2> QED
      BY CloseFold DEF t
  <1>2. i \in Live(t) /\ t.inst[i] = s.inst[i] /\ RoutesTo(t, i) = RoutesTo(s, i)
    BY <1>1 DEF Closed
  <1>3. Fresh(t, i)
    BY <1>2 DEF Fresh
  <1> QED
    BY <1>0, <1>1, <1>2, <1>3

\* The address a, with the handle h of the pool or with none, is that of the
\* client of i, and p is what the pool has become.
Assigned(s, i, h, a, p) ==
    /\ h # 0 => a = PoolAddr[h] /\ \A j \in Live(s) \ {i} : s.inst[j].vaddr_handle # h
    /\ h = 0 => \E c \in CN : a = StaticAddr[c]
    /\ \A g \in Handle :
        /\ p.list[g].in_use <=>
                g = h \/ \E j \in Live(s) \ {i} : s.inst[j].vaddr_handle = g
        /\ p.list[g].fixed = s.pool.list[g].fixed
        /\ \/ g = h \/ p.list[g].common_name = s.pool.list[g].common_name
           \/ g = s.inst[i].vaddr_handle /\ p.list[g].common_name = NoName
    /\ ~DuplicateCN /\ h # 0 =>
        /\ p.list[h].common_name = s.inst[i].locked_cn
        /\ s.pool.list[h].fixed => s.pool.list[h].common_name = s.inst[i].locked_cn

LEMMA AssignedGood ==
    ASSUME NEW s \in Context, NEW ro, Good(s, ro), NEW i \in Live(s), Fresh(s, i),
           NEW h \in Handle \cup {0}, NEW a \in Hosts \cup {NULL}, NEW p \in PoolType,
           Assigned(s, i, h, a, p),
           NEW u, u = [s EXCEPT !.inst[i].vaddr_handle = h, !.inst[i].addr = a, !.pool = p]
    PROVE  u \in Context /\ Good(u, ro) /\ i \in Live(u) /\ Fresh(u, i)
  <1> DEFINE x == s.inst[i]
             cn == x.locked_cn
  <1>a. i \in Inst /\ x \in Instance /\ x # NULL /\ ~x.halt
    BY DEF Live, Context
  <1>b. /\ Leases(s) /\ (~DuplicateCN => Fixed(s, ro))
        /\ cn \in CN /\ x.common_name \in {cn, NULL} /\ x.connection_established_flag
        /\ ~x.did_iroutes /\ RoutesTo(s, i) = {}
    BY DEF Good, Clients, Fresh
  <1>c. /\ h # 0 => a = PoolAddr[h] /\ \A j \in Live(s) \ {i} : s.inst[j].vaddr_handle # h
        /\ h = 0 => \E c \in CN : a = StaticAddr[c]
        /\ \A g \in Handle :
            /\ p.list[g].in_use <=>
                    g = h \/ \E j \in Live(s) \ {i} : s.inst[j].vaddr_handle = g
            /\ p.list[g].fixed = s.pool.list[g].fixed
            /\ \/ g = h \/ p.list[g].common_name = s.pool.list[g].common_name
               \/ g = x.vaddr_handle /\ p.list[g].common_name = NoName
        /\ ~DuplicateCN /\ h # 0 => p.list[h].common_name = cn
        /\ ~DuplicateCN /\ h # 0 /\ s.pool.list[h].fixed => s.pool.list[h].common_name = cn
    BY DEF Assigned
  <1> DEFINE y == [x EXCEPT !.vaddr_handle = h, !.addr = a]
             v == [s EXCEPT !.inst[i] = y]
  <1>1. /\ y \in Instance /\ y.vaddr_handle = h /\ y.addr = a
        /\ y.real = x.real /\ y.halt = x.halt /\ y.refcount = x.refcount
        /\ y.route_count = x.route_count /\ y.locked_cn = x.locked_cn
        /\ y.common_name = x.common_name /\ y.did_iroutes = x.did_iroutes
        /\ y.connection_established_flag = x.connection_established_flag
    BY <1>a DEF Instance
  <1>2. y # NULL /\ u = [v EXCEPT !.pool = p]
    <2>1. u = [v EXCEPT !.pool = p]
      BY <1>a DEF Context
    <2> HIDE DEF y
    <2> QED
      BY <1>1, <2>1, NullInst
  <1> HIDE DEF y, x, v
  <1>3. /\ v \in Context /\ v.inst = [s.inst EXCEPT ![i] = y]
        /\ v.hash = s.hash /\ v.iter = s.iter /\ v.schedule = s.schedule
        /\ v.mbuf = s.mbuf
        /\ v.pending = s.pending /\ v.out = s.out
        /\ v.vhash = s.vhash /\ v.net_len_refcount = s.net_len_refcount
    BY <1>a, <1>1, ChangedInst DEF v
  <1>4. /\ u \in Context /\ u.pool = p /\ u.inst = v.inst
        /\ u.hash = s.hash /\ u.iter = s.iter /\ u.schedule = s.schedule
        /\ u.mbuf = s.mbuf
        /\ u.pending = s.pending /\ u.out = s.out
        /\ u.vhash = s.vhash /\ u.net_len_refcount = s.net_len_refcount
    BY <1>2, <1>3 DEF Context
  <1>5. u.inst[i] = y /\ \A j \in Inst \ {i} : u.inst[j] = s.inst[j]
    <2>1. s.inst \in [Inst -> Instance \cup {NULL}] /\ i \in Inst
      BY <1>a DEF Context
    <2>2. u.inst = [s.inst EXCEPT ![i] = y]
      BY <1>3, <1>4
    <2> QED
      BY <2>1, <2>2
  <1>6. Live(u) = Live(s)
    BY <1>a, <1>1, <1>2, <1>5 DEF Live, x
  <1>7. SameOthers(s, u, i)
    BY <1>1, <1>4, <1>5, <1>6 DEF SameOthers, x
  <1>8. Fresh(u, i)
    <2>1. RoutesTo(u, i) = {}
      BY <1>b, <1>4 DEF RoutesTo
    <2>2. u.inst[i].vaddr_handle = h /\ u.inst[i].addr = a
      BY <1>1, <1>5
    <2>3. u.inst[i].connection_established_flag /\ ~u.inst[i].did_iroutes
      BY <1>b, <1>1, <1>5
    <2>4. CASE h # 0
      BY <1>c, <2>1, <2>2, <2>3, <2>4 DEF Fresh
    <2>5. CASE h = 0
      <3>1. \E c \in CN : a = StaticAddr[c]
        BY <1>c, <2>5
      <3> QED
        BY <2>1, <2>2, <2>3, <2>5, <3>1 DEF Fresh
    <2> QED
      BY <2>4, <2>5
  <1>9. Leases(u)
    <2>1. \A j \in Live(s) \ {i} : u.inst[j] = s.inst[j]
      BY <1>5 DEF Live
    <2>2. ASSUME NEW g \in Handle
          PROVE  u.pool.list[g].in_use <=> \E j \in Live(u) : u.inst[j].vaddr_handle = g
      BY <1>c, <1>1, <1>4, <1>5, <1>6, <2>1
    <2>3. ASSUME NEW j \in Live(u), NEW k \in Live(u),
                 u.inst[j].vaddr_handle = u.inst[k].vaddr_handle,
                 u.inst[j].vaddr_handle # 0
          PROVE  j = k
      <3>1. CASE j # i /\ k # i
        BY <1>b, <1>6, <2>1, <2>3, <3>1 DEF Leases
      <3>2. CASE j = i \/ k = i
        BY <1>c, <1>1, <1>5, <1>6, <2>1, <2>3, <3>2
      <3> QED
        BY <3>1, <3>2
    <2>4. ASSUME ~DuplicateCN, NEW j \in Live(u), u.inst[j].vaddr_handle # 0
          PROVE  u.pool.list[u.inst[j].vaddr_handle].common_name = u.inst[j].locked_cn
      <3>1. CASE j = i
        BY <1>c, <1>1, <1>4, <1>5, <2>4, <3>1 DEF x
      <3>2. CASE j # i
        <4> DEFINE g == s.inst[j].vaddr_handle
        <4>1. j \in Live(s) \ {i} /\ u.inst[j] = s.inst[j] /\ g # 0 /\ g \in Handle \cup {0}
          BY <1>6, <2>1, <2>4, <3>2 DEF Live, Context, Instance
        <4>2. g # h /\ g # x.vaddr_handle
          BY <1>b, <1>c, <4>1 DEF Leases, x
        <4>3. s.pool.list[g].common_name = s.inst[j].locked_cn
          BY <1>b, <2>4, <4>1 DEF Leases
        <4>4. p.list[g].common_name = s.pool.list[g].common_name
          BY <1>c, <4>1, <4>2
        <4> QED
          BY <1>4, <4>1, <4>3, <4>4
      <3> QED
        BY <3>1, <3>2
    <2> QED
      BY <2>2, <2>3, <2>4 DEF Leases
  <1>10. ~DuplicateCN => Fixed(u, ro)
    <2> SUFFICES ASSUME ~DuplicateCN, ro, NEW g \in Handle, FixedFile[g] # NoName
                 PROVE  /\ u.pool.list[g].fixed
                        /\ u.pool.list[g].common_name \in {FixedFile[g], NoName}
      BY DEF Fixed
    <2>1. s.pool.list[g].fixed /\ s.pool.list[g].common_name \in {FixedFile[g], NoName}
      BY <1>b DEF Fixed
    <2>2. CASE g = h
      <3>1. h # 0 /\ p.list[h].common_name = cn /\ s.pool.list[h].common_name = cn
        BY <1>c, <2>1, <2>2, HandleType
      <3> QED
        BY <1>b, <1>c, <1>4, <2>1, <2>2, <3>1, MultiAssumption
    <2>3. CASE g # h
      BY <1>c, <1>4, <2>1, <2>3
    <2> QED
      BY <2>2, <2>3
  <1>11. Good(u, ro)
    <2>1. i \in Inst /\ RoutesTo(s, i) = {} /\ ~s.inst[i].did_iroutes
      BY <1>a, <1>b DEF x
    <2>2. /\ u.inst[i].locked_cn \in CN
          /\ u.inst[i].common_name \in {u.inst[i].locked_cn, NULL}
      BY <1>b, <1>1, <1>5
    <2> QED
      BY <1>4, <1>7, <1>8, <1>9, <1>10, <2>1, <2>2, SameOthersGood
  <1> QED
    BY <1>4, <1>6, <1>8, <1>11

\* An address for a client that has none of the network routes yet.
LEMMA SelectGood ==
    ASSUME NEW s \in Context, NEW ro, Good(s, ro), NEW i \in Live(s), Fresh(s, i),
           NEW static \in BOOLEAN
    PROVE  LET t == multi_select_virtual_addr(s, i, static)
           IN  t \in Context /\ Good(t, ro) /\ i \in Live(t) /\ Fresh(t, i)
  <1> DEFINE x == s.inst[i]
             cn == x.locked_cn
             name == IF DuplicateCN THEN NoName ELSE cn
             found == ifconfig_pool_find(s.pool, name)
             t == multi_select_virtual_addr(s, i, static)
  <1>1. i \in Inst /\ x \in Instance /\ x # NULL /\ ~x.halt
    BY DEF Live, Context
  <1>2. /\ Leases(s) /\ (~DuplicateCN => Fixed(s, ro))
        /\ cn \in CN /\ x.common_name \in {cn, NULL} /\ x.connection_established_flag
        /\ ~x.did_iroutes /\ RoutesTo(s, i) = {}
    BY DEF Good, Clients, Fresh
  <1>3. /\ x.vaddr_handle \in Handle \cup {0} /\ s.pool \in PoolType
        /\ StaticAddr[cn] \in Hosts \cup {NULL}
    BY <1>1, <1>2, MultiAssumption DEF Context, Instance
  <1>5. CASE static
    <2> DEFINE p == ifconfig_pool_release(s.pool, x.vaddr_handle, TRUE)
    <2>1. t = [s EXCEPT !.inst[i].vaddr_handle = 0, !.inst[i].addr = StaticAddr[cn],
                        !.pool = p]
      BY <1>5, <1>1 DEF multi_select_virtual_addr, Context
    <2>2. /\ p \in PoolType
          /\ \A g \in Handle : /\ p.list[g].in_use <=> s.pool.list[g].in_use /\ g # x.vaddr_handle
                               /\ p.list[g].fixed = s.pool.list[g].fixed
                               /\ g = x.vaddr_handle => p.list[g].common_name = NoName
                               /\ g # x.vaddr_handle =>
                                    p.list[g].common_name = s.pool.list[g].common_name
      <3> DEFINE h == x.vaddr_handle
                 q == ifconfig_pool_release(s.pool, h, TRUE)
      <3>1. h \in Handle \cup {0} /\ s.pool \in PoolType
        BY <1>3
      <3> HIDE DEF h
      <3>2. /\ q \in PoolType
            /\ \A g \in Handle : /\ q.list[g].in_use <=> s.pool.list[g].in_use /\ g # h
                                 /\ q.list[g].fixed = s.pool.list[g].fixed
                                 /\ g = h => q.list[g].common_name = NoName
                                 /\ g # h => q.list[g].common_name = s.pool.list[g].common_name
        BY <3>1, HardRelease
      <3>3. p = q
        BY DEF h
      <3> HIDE DEF q, p
      <3> QED
        BY <3>2, <3>3 DEF h
    <2> HIDE DEF p, t
    <2>3. \A g \in Handle : p.list[g].in_use <=>
            g = 0 \/ \E j \in Live(s) \ {i} : s.inst[j].vaddr_handle = g
      <3> SUFFICES ASSUME NEW g \in Handle
                   PROVE  p.list[g].in_use <=>
                            \E j \in Live(s) \ {i} : s.inst[j].vaddr_handle = g
        BY HandleType
      <3>1. s.pool.list[g].in_use <=> \E j \in Live(s) : s.inst[j].vaddr_handle = g
        BY <1>2 DEF Leases
      <3>2. g = x.vaddr_handle => \A j \in Live(s) \ {i} : s.inst[j].vaddr_handle # g
        BY <1>2, HandleType DEF Leases
      <3> QED
        BY <2>2, <3>1, <3>2
    <2> DEFINE a == StaticAddr[cn]
    <2>4. Assigned(s, i, 0, a, p)
      BY <1>2, <2>2, <2>3 DEF Assigned
    <2>5. 0 \in Handle \cup {0} /\ a \in Hosts \cup {NULL}
      BY <1>3
    <2>6. t = [s EXCEPT !.inst[i].vaddr_handle = 0, !.inst[i].addr = a, !.pool = p]
      BY <2>1
    <2> HIDE DEF a
    <2>7. t \in Context /\ Good(t, ro) /\ i \in Live(t) /\ Fresh(t, i)
      BY <2>2, <2>4, <2>5, <2>6, AssignedGood
    <2> QED
      BY <2>7 DEF t
  <1>6. CASE ~static /\ x.vaddr_handle = 0 /\ found # {}
    <2> DEFINE h == CHOOSE h \in found : TRUE
               p == Acquired(s.pool, h, name)
    <2>1. t = [s EXCEPT !.inst[i].vaddr_handle = h, !.inst[i].addr = PoolAddr[h],
                        !.pool = p]
      BY <1>6, <1>1 DEF multi_select_virtual_addr, Context
    <2>2. h \in found /\ name \in CN \cup {NoName}
      BY <1>2, <1>6
    <2> HIDE DEF h
    <2>3. /\ h \in Handle /\ ~s.pool.list[h].in_use
          /\ ~DuplicateCN /\ s.pool.list[h].fixed => s.pool.list[h].common_name = name
      <3> HIDE DEF name
      <3> QED
        BY <2>2, PoolFind
    <2> HIDE DEF name
    <2>4. /\ p \in PoolType
          /\ \A g \in Handle : /\ p.list[g].in_use <=> s.pool.list[g].in_use \/ g = h
                               /\ p.list[g].fixed = s.pool.list[g].fixed
                               /\ p.list[g].common_name =
                                    IF g = h THEN name ELSE s.pool.list[g].common_name
      BY <1>3, <2>2, <2>3, PoolAcquired
    <2> HIDE DEF p, t
    <2>5. h # 0 /\ PoolAddr[h] \in Hosts /\ (~DuplicateCN => name = cn)
      BY <2>3, HandleType, MultiAssumption DEF name
    <2>6. \A j \in Live(s) : s.inst[j].vaddr_handle # h
      BY <1>2, <2>3 DEF Leases
    <2>7. \A g \in Handle : p.list[g].in_use <=>
            g = h \/ \E j \in Live(s) \ {i} : s.inst[j].vaddr_handle = g
      <3> SUFFICES ASSUME NEW g \in Handle, g # h
                   PROVE  s.pool.list[g].in_use <=>
                            \E j \in Live(s) \ {i} : s.inst[j].vaddr_handle = g
        BY <2>3, <2>4
      <3>1. s.pool.list[g].in_use <=> \E j \in Live(s) : s.inst[j].vaddr_handle = g
        BY <1>2 DEF Leases
      <3> QED
        BY <1>6, <3>1, HandleType
    <2>8. p.list[h].common_name = name
          /\ \A g \in Handle : g = h \/ p.list[g].common_name = s.pool.list[g].common_name
      BY <2>3, <2>4
    <2>9. ~DuplicateCN => /\ p.list[h].common_name = s.inst[i].locked_cn
                          /\ s.pool.list[h].fixed =>
                                s.pool.list[h].common_name = s.inst[i].locked_cn
      BY <2>3, <2>5, <2>8
    <2> DEFINE a == PoolAddr[h]
    <2>10. Assigned(s, i, h, a, p)
      <3> HIDE DEF x, cn, found
      <3> QED
        BY <2>4, <2>5, <2>6, <2>7, <2>8, <2>9 DEF Assigned
    <2>11. t = [s EXCEPT !.inst[i].vaddr_handle = h, !.inst[i].addr = a, !.pool = p]
      BY <2>1
    <2>12. h \in Handle \cup {0} /\ a \in Hosts \cup {NULL}
      BY <2>3, <2>5
    <2> HIDE DEF a
    <2>13. t \in Context /\ Good(t, ro) /\ i \in Live(t) /\ Fresh(t, i)
      BY <2>4, <2>10, <2>11, <2>12, AssignedGood
    <2> QED
      BY <2>13 DEF t
  <1>7. CASE ~static /\ ~(x.vaddr_handle = 0 /\ found # {})
    <2>1. t = s
      BY <1>7 DEF multi_select_virtual_addr
    <2> QED
      BY <2>1
  <1> QED
    BY <1>5, <1>6, <1>7

-----------------------------------------------------------------------------
(* The routes of a client that connects.                                   *)

\* Other routes, with exact counts and owners that may have them.
LEMMA SameButRoutesGood ==
    ASSUME NEW s \in Context, NEW t \in Context, NEW ro, Good(s, ro), SameButRoutes(s, t),
           Counts(t), Routing(t), t.net_len_refcount = s.net_len_refcount,
           \A j \in Live(s) : ~s.inst[j].connection_established_flag => RoutesTo(t, j) = {},
           AddressPlan => Addressed(t)
    PROVE  Good(t, ro) /\ Live(t) = Live(s)
  <1>1. /\ Links(s) /\ Clients(s) /\ Leases(s) /\ Lengths(s)
        /\ ~DuplicateCN => Fixed(s, ro)
    BY DEF Good
  <1>2. Live(t) = Live(s)
    BY SameButRoutesLive
  <1>3. \A j \in Live(s) : SameClient(s.inst[j], t.inst[j])
    BY DEF SameButRoutes, Live
  <1>4. Links(t) /\ Leases(t)
    BY <1>1, SameButRoutesLinks, SameButRoutesLeases
  <1>5. Clients(t)
    BY <1>1, <1>2, <1>3 DEF Clients, SameClient
  <1>6. Lengths(t)
    <2>1. ASSUME NEW b PROVE AllOfLength(t, b) = AllOfLength(s, b)
      <3>1. \A j \in Live(s) : /\ t.inst[j].did_iroutes = s.inst[j].did_iroutes
                               /\ t.inst[j].locked_cn = s.inst[j].locked_cn
        BY <1>3 DEF SameClient
      <3>2. {j \in Live(t) : t.inst[j].did_iroutes} = {j \in Live(s) : s.inst[j].did_iroutes}
        BY <1>2, <3>1
      <3> QED
        BY <3>1, <3>2 DEF AllOfLength
    <2> QED
      BY <1>1, <2>1 DEF Lengths
  <1>7. ~DuplicateCN => Fixed(t, ro)
    BY <1>1 DEF Fixed, SameButRoutes
  <1>8. AddressPlan => Addressed(t)
    OBVIOUS
  <1>9. Good(t, ro)
    BY <1>4, <1>5, <1>6, <1>7, <1>8 DEF Good
  <1> QED
    BY <1>2, <1>9

\* The route to its address.
LEMMA AddressLearned ==
    ASSUME NEW s \in Context, NEW ro, Good(s, ro), NEW i \in Live(s), Fresh(s, i),
           s.inst[i].addr # NULL
    PROVE  LET t == multi_learn_addr(s, i, s.inst[i].addr, "host")
           IN  /\ t \in Context /\ Good(t, ro) /\ Live(t) = Live(s)
               /\ SameClient(s.inst[i], t.inst[i])
               /\ AddressPlan /\ t.inst[i].vaddr_handle # 0 =>
                    t.vhash[PoolAddr[t.inst[i].vaddr_handle]]
                        = [instance |-> i, kind |-> "host"]
  <1> DEFINE x == s.inst[i]
             a == x.addr
             t == multi_learn_addr(s, i, a, "host")
             e == [instance |-> i, kind |-> "host"]
  <1>1. /\ Counts(s) /\ Routing(s) /\ Clients(s) /\ Leases(s)
        /\ AddressPlan => Addressed(s)
    BY DEF Good
  <1>2. i \in Inst /\ x \in Instance /\ a \in Hosts /\ a \in Addr /\ a \notin Nets
    BY MultiAssumption DEF Live, Context, Instance, Addr
  <1>3. x.connection_established_flag /\ RoutesTo(s, i) = {} /\ x.route_count = 0
    <2>1. s.inst[i].route_count = Cardinality(RoutesTo(s, i))
      BY <1>1, <1>2, RoutesFinite DEF Counts, CountsWith, Live
    <2> QED
      BY <2>1, FS_EmptySet DEF Fresh
  <1> HIDE DEF x, a
  <1>4. /\ t \in Context /\ Counts(t) /\ SameButRoutes(s, t)
        /\ t.vhash = IF MayLearn(s, i, a) THEN [s.vhash EXCEPT ![a] = e] ELSE s.vhash
        /\ t.net_len_refcount = s.net_len_refcount
    BY <1>1, <1>2, LearnAddr
  <1>5. Routing(t)
    BY <1>1, <1>2, LearnRouting
  <1> HIDE DEF t
  <1>6. \A j \in Inst \ {i} : RoutesTo(t, j) \subseteq RoutesTo(s, j)
    BY <1>2, <1>4 DEF RoutesTo, Context
  <1>7. \A j \in Live(s) : ~s.inst[j].connection_established_flag => RoutesTo(t, j) = {}
    BY <1>1, <1>3, <1>6 DEF Clients, Live, x
  <1>8. SameClient(x, t.inst[i])
    BY <1>2, <1>4 DEF SameButRoutes, x
  <1>9. AddressPlan => Addressed(t)
    <2> SUFFICES ASSUME AddressPlan, NEW j \in Live(t), t.inst[j].did_iroutes,
                        t.inst[j].vaddr_handle # 0
                 PROVE  t.vhash[PoolAddr[t.inst[j].vaddr_handle]]
                            = [instance |-> j, kind |-> "host"]
      BY DEF Addressed
    <2> DEFINE h == s.inst[j].vaddr_handle
               c == PoolAddr[h]
    <2>1. j \in Live(s) /\ SameClient(s.inst[j], t.inst[j])
      <3>1. j \in Live(s) /\ j \in Inst
        BY <1>4, SameButRoutesLive DEF Live
      <3> QED
        BY <1>4, <3>1 DEF SameButRoutes
    <2>2. /\ s.inst[j].did_iroutes /\ t.inst[j].vaddr_handle = h /\ h # 0
          /\ h \in Handle /\ j # i
      BY <1>8, <2>1 DEF SameClient, Live, Context, Instance, Fresh, x
    <2>3. s.vhash[c] = [instance |-> j, kind |-> "host"] /\ c \in Hosts
      BY <1>1, <2>1, <2>2, MultiAssumption DEF Addressed
    <2>4. a # c
      <3>1. CASE x.vaddr_handle # 0
        <4>1. a = PoolAddr[x.vaddr_handle] /\ x.vaddr_handle \in Handle
          BY <1>2, <3>1 DEF Fresh, x, a, Instance
        <4>2. x.vaddr_handle # h
          BY <1>1, <2>1, <2>2, <3>1 DEF Leases, x
        <4> QED
          BY <2>2, <4>1, <4>2 DEF AddressPlan
      <3>2. CASE x.vaddr_handle = 0
        <4>1. \E cn \in CN : a = StaticAddr[cn]
          <5>1. a # NULL
            BY DEF a, x
          <5> QED
            BY <3>2, <5>1 DEF Fresh, x, a
        <4> QED
          BY <2>2, <4>1 DEF AddressPlan
      <3> QED
        BY <3>1, <3>2
    <2>5. t.vhash[c] = s.vhash[c]
      BY <1>2, <1>4, <2>3, <2>4 DEF Context, Addr
    <2> QED
      BY <2>2, <2>3, <2>5
  <1>10. AddressPlan /\ t.inst[i].vaddr_handle # 0 =>
            t.vhash[PoolAddr[t.inst[i].vaddr_handle]] = e
    <2> SUFFICES ASSUME AddressPlan, x.vaddr_handle # 0
                 PROVE  t.vhash[PoolAddr[x.vaddr_handle]] = e
      BY <1>8 DEF SameClient
    <2>1. a = PoolAddr[x.vaddr_handle] /\ a # Local
      BY <1>2 DEF Fresh, x, a, Instance, AddressPlan
    <2>2. RouteOwner(s, a) # i
      BY <1>2, <1>3, NullInst DEF RouteOwner, multi_route_defined, RoutesTo
    <2>3. MayLearn(s, i, a)
      BY <1>3, <2>1, <2>2, NullInst DEF MayLearn, x
    <2> QED
      BY <1>2, <1>4, <2>1, <2>3 DEF Context
  <1>11. Good(t, ro) /\ Live(t) = Live(s)
    BY <1>4, <1>5, <1>7, <1>9, SameButRoutesGood
  <1> QED
    BY <1>4, <1>8, <1>10, <1>11 DEF t, a, x

\* The lengths with the iroutes of one more client.
LEMMA MoreLengths ==
    ASSUME NEW s \in Context, Clients(s), NEW i \in Live(s), NEW cn \in CN, NEW b,
           ~s.inst[i].did_iroutes,
           NEW t, Live(t) = Live(s),
           \A j \in Live(s) : /\ t.inst[j].did_iroutes <=> s.inst[j].did_iroutes \/ j = i
                              /\ t.inst[j].locked_cn = s.inst[j].locked_cn,
           t.inst[i].locked_cn = cn
    PROVE  Cardinality(AllOfLength(t, b)) =
                Cardinality(AllOfLength(s, b)) + Cardinality(OfLength(cn, b))
  <1> DEFINE mine == {i} \X OfLength(cn, b)
             all == AllOfLength(s, b)
             both == AllOfLength(t, b)
  <1>1. both = all \cup mine /\ all \cap mine = {}
    <2>1. {j \in Live(t) : t.inst[j].did_iroutes} = {j \in Live(s) : s.inst[j].did_iroutes} \cup {i}
      OBVIOUS
    <2>2. \A j \in Live(s) : t.inst[j].locked_cn = s.inst[j].locked_cn
      OBVIOUS
    <2>3. both = all \cup mine
      BY <2>1, <2>2 DEF AllOfLength
    <2>4. all \cap mine = {}
      BY DEF AllOfLength
    <2> QED
      BY <2>3, <2>4
  <1>2. IsFiniteSet(all) /\ IsFiniteSet(mine)
    BY AllOfLengthFinite, OfLengthCount
  <1>3. Cardinality(mine) = Cardinality(OfLength(cn, b)) /\ Cardinality(mine) \in Nat
    BY OfLengthCount
  <1> HIDE DEF mine, all, both
  <1>4. Cardinality(all) \in Nat
    BY <1>2, FS_CardinalityType
  <1>5. Cardinality(both) = Cardinality(all) + Cardinality(mine) - Cardinality(all \cap mine)
    BY <1>1, <1>2, FS_Union
  <1>6. Cardinality(all \cap mine) = 0
    BY <1>1, FS_EmptySet
  <1> QED
    BY <1>3, <1>4, <1>5, <1>6 DEF all, both

\* The iroutes of a client that has its address.
LEMMA IroutesGood ==
    ASSUME NEW s \in Context, NEW ro, Good(s, ro), NEW i \in Live(s),
           s.inst[i].connection_established_flag, ~s.inst[i].did_iroutes,
           AddressPlan /\ s.inst[i].vaddr_handle # 0 =>
                s.vhash[PoolAddr[s.inst[i].vaddr_handle]] = [instance |-> i, kind |-> "host"]
    PROVE  LET t == multi_add_iroutes(s, i)
           IN  t \in Context /\ Good(t, ro) /\ i \in Live(t)
  <1> DEFINE x == s.inst[i]
             cn == x.locked_cn
             seq == IRoutes[cn]
             t == multi_add_iroutes(s, i)
             u == [s EXCEPT !.inst[i].did_iroutes = TRUE]
             y == [x EXCEPT !.did_iroutes = TRUE]
  <1>1. /\ Counts(s) /\ Links(s) /\ Clients(s) /\ Leases(s) /\ Routing(s) /\ Lengths(s)
        /\ AddressPlan => Addressed(s)
        /\ ~DuplicateCN => Fixed(s, ro)
    BY DEF Good
  <1>2. i \in Inst /\ x \in Instance /\ x # NULL /\ ~x.halt /\ cn \in CN
    BY <1>1 DEF Live, Context, Clients
  <1>3. y \in Instance /\ y.did_iroutes /\ y.real = x.real /\ y.halt = x.halt
        /\ y.vaddr_handle = x.vaddr_handle /\ y.addr = x.addr
        /\ y.common_name = x.common_name /\ y.locked_cn = x.locked_cn
        /\ y.connection_established_flag = x.connection_established_flag
    BY <1>2 DEF Instance
  <1>4. /\ t \in Context /\ u \in Context
        /\ u.inst = [s.inst EXCEPT ![i] = y]
        /\ u.hash = s.hash /\ u.iter = s.iter /\ u.schedule = s.schedule
        /\ u.mbuf = s.mbuf /\ u.pool = s.pool
        /\ u.pending = s.pending /\ u.out = s.out
        /\ u.vhash = s.vhash /\ u.net_len_refcount = s.net_len_refcount
        /\ WithIroutes(u, t, i, seq, Len(seq))
    BY <1>1, <1>2, AddIroutes
  <1> HIDE DEF t, u, y
  <1>5. u.inst[i] = y /\ \A j \in Inst \ {i} : u.inst[j] = s.inst[j]
    BY <1>2, <1>4 DEF Context
  <1>6. y # NULL
    BY <1>3, NullInst
  <1>7. Live(u) = Live(s) /\ Live(s) \subseteq Inst
    BY <1>2, <1>3, <1>5, <1>6 DEF Live
  \* u differs from s in did_iroutes of i alone.
  <1>8. \A j \in Live(s) :
            /\ u.inst[j].real = s.inst[j].real
            /\ u.inst[j].vaddr_handle = s.inst[j].vaddr_handle
            /\ u.inst[j].addr = s.inst[j].addr
            /\ u.inst[j].common_name = s.inst[j].common_name
            /\ u.inst[j].locked_cn = s.inst[j].locked_cn
            /\ u.inst[j].connection_established_flag = s.inst[j].connection_established_flag
            /\ j # i => u.inst[j].did_iroutes = s.inst[j].did_iroutes
    BY <1>3, <1>5, <1>7
  <1>9. Links(u)
    <2>1. /\ u.pending \in Live(u) \cup {NULL} /\ u.mbuf \in QueueOf(Live(u))
          /\ ToSet(u.iter) = Live(u) /\ u.schedule = Live(u)
          /\ \A k, l \in DOMAIN u.iter : u.iter[k] = u.iter[l] => k = l
      BY <1>1, <1>4, <1>7 DEF Links
    <2>2. /\ \A j \in Live(u) : u.hash[u.inst[j].real] = j
          /\ \A r \in Real : u.hash[r] # NULL =>
                u.hash[r] \in Live(u) /\ u.inst[u.hash[r]].real = r
      BY <1>1, <1>4, <1>7, <1>8 DEF Links
    <2> QED
      BY <2>1, <2>2 DEF Links
  <1>10. Leases(u)
    BY <1>1, <1>4, <1>7, <1>8 DEF Leases
  <1>11. Counts(t) /\ Routing(t) /\ SameButRoutes(u, t)
    BY <1>4 DEF WithIroutes
  <1>12. Live(t) = Live(s) /\ Links(t) /\ Leases(t)
    BY <1>4, <1>7, <1>9, <1>10, <1>11, SameButRoutesLive, SameButRoutesLinks,
       SameButRoutesLeases
  <1>13. \A j \in Live(s) : SameClient(u.inst[j], t.inst[j])
    BY <1>7, <1>11 DEF SameButRoutes
  <1>14. \A j \in Live(s) :
            /\ t.inst[j].vaddr_handle = s.inst[j].vaddr_handle
            /\ t.inst[j].addr = s.inst[j].addr
            /\ t.inst[j].common_name = s.inst[j].common_name
            /\ t.inst[j].locked_cn = s.inst[j].locked_cn
            /\ t.inst[j].connection_established_flag = s.inst[j].connection_established_flag
            /\ j # i => t.inst[j].did_iroutes = s.inst[j].did_iroutes
    BY <1>8, <1>13 DEF SameClient
  <1>15. t.inst[i].did_iroutes
    BY <1>3, <1>5, <1>13 DEF SameClient
  <1>16. Clients(t)
    <2> SUFFICES ASSUME NEW j \in Live(t)
                 PROVE  IF t.inst[j].connection_established_flag
                        THEN /\ t.inst[j].locked_cn \in CN
                             /\ t.inst[j].common_name \in {t.inst[j].locked_cn, NULL}
                        ELSE /\ t.inst[j].locked_cn = NULL /\ t.inst[j].addr = NULL
                             /\ t.inst[j].vaddr_handle = 0 /\ ~t.inst[j].did_iroutes
                             /\ RoutesTo(t, j) = {}
      BY DEF Clients
    <2>1. CASE s.inst[j].connection_established_flag
      BY <1>1, <1>12, <1>14, <2>1 DEF Clients
    <2>2. CASE ~s.inst[j].connection_established_flag
      <3>1. j # i /\ j \in Live(s) /\ j \in Inst
        BY <1>7, <1>12, <2>2
      <3>2. RoutesTo(t, j) \subseteq RoutesTo(u, j) /\ RoutesTo(u, j) = RoutesTo(s, j)
        BY <1>4, <3>1 DEF WithIroutes, RoutesTo
      <3> QED
        BY <1>1, <1>14, <2>2, <3>1, <3>2 DEF Clients
    <2> QED
      BY <2>1, <2>2
  <1>17. Lengths(t)
    <2> SUFFICES ASSUME NEW b \in Bit
                 PROVE  t.net_len_refcount[b] = Cardinality(AllOfLength(t, b))
      BY DEF Lengths
    <2>1. t.net_len_refcount[b] = s.net_len_refcount[b] + Cardinality(OfLength(cn, b))
      BY <1>2, <1>4, IRoutesType DEF WithIroutes
    <2>2. /\ \A j \in Live(s) : /\ t.inst[j].did_iroutes <=> s.inst[j].did_iroutes \/ j = i
                                /\ t.inst[j].locked_cn = s.inst[j].locked_cn
          /\ t.inst[i].locked_cn = cn
      BY <1>14, <1>15
    <2>3. Cardinality(AllOfLength(t, b)) =
                Cardinality(AllOfLength(s, b)) + Cardinality(OfLength(cn, b))
      <3> HIDE DEF cn, x
      <3> QED
        BY <1>1, <1>2, <1>12, <2>2, MoreLengths
    <2> QED
      BY <1>1, <2>1, <2>3 DEF Lengths
  <1>18. AddressPlan => Addressed(t)
    <2> SUFFICES ASSUME AddressPlan, NEW j \in Live(t), t.inst[j].did_iroutes,
                        t.inst[j].vaddr_handle # 0
                 PROVE  t.vhash[PoolAddr[t.inst[j].vaddr_handle]]
                            = [instance |-> j, kind |-> "host"]
      BY DEF Addressed
    <2> DEFINE h == s.inst[j].vaddr_handle
               c == PoolAddr[h]
               e == [instance |-> j, kind |-> "host"]
    <2>1. j \in Live(s) /\ t.inst[j].vaddr_handle = h /\ h # 0 /\ h \in Handle
      BY <1>12, <1>14 DEF Live, Context, Instance
    <2>2. s.vhash[c] = e
      BY <1>1, <1>14, <2>1 DEF Addressed
    <2>3. c \in Addr \ ToSet(seq)
      BY <1>2, <2>1, MultiAssumption DEF AddressPlan, Addr
    <2>4. e # NULL /\ e.kind = "host"
      BY <2>1, NullInst DEF Route, Live
    <2>5. t.vhash[c] = u.vhash[c]
      BY <1>4, <2>2, <2>3, <2>4 DEF WithIroutes
    <2> QED
      BY <1>4, <2>1, <2>2, <2>5
  <1>19. ~DuplicateCN => Fixed(t, ro)
    BY <1>1, <1>4, <1>11 DEF Fixed, SameButRoutes
  <1>20. Good(t, ro)
    BY ONLY <1>11, <1>12, <1>16, <1>17, <1>18, <1>19 DEF Good
  <1> QED
    BY <1>4, <1>12, <1>20 DEF t

\* The establishment of a connection keeps the invariant.
LEMMA EstablishedGood ==
    ASSUME NEW s \in Context, NEW ro, Good(s, ro), NEW i \in Live(s),
           ~s.inst[i].connection_established_flag, s.inst[i].common_name # NULL,
           NEW how \in {"pool", "fail", "file", "script"}
    PROVE  LET t == multi_connection_established(s, i, how)
           IN  t \in Context /\ Good(t, ro) /\ i \in Live(t)
  <1> DEFINE locked == [s EXCEPT !.inst[i].locked_cn = s.inst[i].common_name,
                                 !.inst[i].connection_established_flag = TRUE]
             alone == IF DuplicateCN THEN locked ELSE multi_delete_dup(locked, i)
             file == how = "file"
             static == TRUE
             first == multi_select_virtual_addr(alone, i, file)
             second == multi_select_virtual_addr(first, i, static)
             final == IF how = "script" THEN second ELSE first
             learned == multi_learn_addr(final, i, final.inst[i].addr, "host")
             routed == IF final.inst[i].addr = NULL THEN final ELSE learned
             whole == multi_add_iroutes(routed, i)
             t == multi_connection_established(s, i, how)
  <1>1. t = IF how = "fail" THEN first ELSE whole
    BY DEF multi_connection_established
  <1>2. file \in BOOLEAN /\ static \in BOOLEAN
    OBVIOUS
  <1> HIDE DEF t, file, static
  <1>3. locked \in Context /\ Good(locked, ro) /\ i \in Live(locked) /\ Fresh(locked, i)
    BY LockGood
  <1> HIDE DEF locked
  <1>4. alone \in Context /\ Good(alone, ro) /\ i \in Live(alone) /\ Fresh(alone, i)
    <2>1. CASE DuplicateCN
      BY <1>3, <2>1
    <2>2. CASE ~DuplicateCN
      <3> DEFINE dup == multi_delete_dup(locked, i)
      <3>1. dup \in Context /\ Good(dup, ro) /\ i \in Live(dup) /\ Fresh(dup, i)
        BY <1>3, DuplicatesGood
      <3>2. alone = dup
        BY <2>2
      <3> HIDE DEF dup, alone
      <3> QED
        BY <3>1, <3>2
    <2> QED
      BY <2>1, <2>2
  <1> HIDE DEF alone
  <1>5. first \in Context /\ Good(first, ro) /\ i \in Live(first) /\ Fresh(first, i)
    BY <1>2, <1>4, SelectGood
  <1> HIDE DEF first
  <1>6. second \in Context /\ Good(second, ro) /\ i \in Live(second) /\ Fresh(second, i)
    BY <1>2, <1>5, SelectGood
  <1> HIDE DEF second
  <1>7. final \in Context /\ Good(final, ro) /\ i \in Live(final) /\ Fresh(final, i)
    BY <1>5, <1>6
  <1> HIDE DEF final
  <1>8. /\ routed \in Context /\ Good(routed, ro) /\ i \in Live(routed)
        /\ routed.inst[i].connection_established_flag /\ ~routed.inst[i].did_iroutes
        /\ AddressPlan /\ routed.inst[i].vaddr_handle # 0 =>
                routed.vhash[PoolAddr[routed.inst[i].vaddr_handle]]
                    = [instance |-> i, kind |-> "host"]
    <2>1. CASE final.inst[i].addr = NULL
      <3>1. routed = final
        BY <2>1
      <3>2. i \in Inst /\ final.inst[i] \in Instance
        BY <1>7 DEF Live, Context
      <3>3. final.inst[i].vaddr_handle = 0
        <4> SUFFICES ASSUME final.inst[i].vaddr_handle # 0 PROVE FALSE
          OBVIOUS
        <4>1. final.inst[i].vaddr_handle \in Handle
          BY <3>2 DEF Instance
        <4>2. PoolAddr[final.inst[i].vaddr_handle] \in Hosts
          BY <4>1, MultiAssumption
        <4> QED
          BY <1>7, <2>1, <4>2, MultiAssumption DEF Fresh
      <3> HIDE DEF routed
      <3> QED
        BY <1>7, <3>1, <3>3 DEF Fresh
    <2>2. CASE final.inst[i].addr # NULL
      <3>1. /\ learned \in Context /\ Good(learned, ro) /\ Live(learned) = Live(final)
            /\ SameClient(final.inst[i], learned.inst[i])
            /\ AddressPlan /\ learned.inst[i].vaddr_handle # 0 =>
                    learned.vhash[PoolAddr[learned.inst[i].vaddr_handle]]
                        = [instance |-> i, kind |-> "host"]
        BY <1>7, <2>2, AddressLearned
      <3>2. routed = learned
        BY <2>2
      <3> HIDE DEF routed, learned
      <3> QED
        BY <1>7, <3>1, <3>2 DEF SameClient, Fresh
    <2> QED
      BY <2>1, <2>2
  <1> HIDE DEF routed
  <1>9. whole \in Context /\ Good(whole, ro) /\ i \in Live(whole)
    BY <1>8, IroutesGood
  <1> HIDE DEF whole
  <1>10. t \in Context /\ Good(t, ro) /\ i \in Live(t)
    BY <1>1, <1>5, <1>9
  <1> QED
    BY <1>10 DEF t
=============================================================================
