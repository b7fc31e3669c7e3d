---------------------------- MODULE MultiServer ----------------------------
(***************************************************************************)
(* The server of --mode server over UDP with a tun device (multi.c,        *)
(* mudp.c, mbuf.c, mroute.c, pool.c): one process, one event loop, one     *)
(* instance per client.  A step is one pass of the loop, or the part of it *)
(* up to the end of the management commands.                               *)
(*                                                                         *)
(* The state of struct multi_context is one record, because its functions  *)
(* call each other and change several of its fields: an operator takes the *)
(* record and returns the changed one.  "inst" is the heap of              *)
(* struct multi_instance: NULL is memory that is not allocated.  "out" is  *)
(* the output of the pending instance; what another instance may still     *)
(* hold, of an event that was not finished, is chosen when it is served.   *)
(***************************************************************************)
EXTENDS Pool, FiniteSets

CONSTANTS
    Inst,           \* the instances the heap has room for
    Real,           \* real addresses of clients
    CN,             \* common names
    Hosts, Nets,    \* virtual host addresses, and networks of --iroute
    Bits, Covers,   \* the length of a network, and the hosts in it
    Local,          \* the address of the server's own tun device
    PoolAddr,       \* the address of a handle
    StaticAddr,     \* the address of --ifconfig-push for a client
    IRoutes,        \* the --iroute networks of a client
    MaxClients, MaxRoutes, MbufSize,
    FixedFile,      \* the file of the pool, where it is only read
    NULL

\* struct multi_instance, with what the server uses of its context.
Instance ==
    [real : Real, halt : BOOLEAN, refcount : Nat, route_count : 0 .. MaxRoutes,
     vaddr_handle : Handle \cup {0}, addr : Hosts \cup {NULL},
     common_name : CN \cup {NULL}, locked_cn : CN \cup {NULL},
     connection_established_flag : BOOLEAN, did_iroutes : BOOLEAN]

\* struct multi_route
Route == [instance : Inst, kind : {"host", "cached", "stale"}]

ASSUME MultiAssumption ==
    /\ NULL \notin Inst \cup Real \cup CN \cup Hosts \cup Nets
    /\ NULL \notin Instance /\ NULL \notin Route
    /\ NoName \notin CN
    /\ IsFiniteSet(Inst) /\ IsFiniteSet(Hosts) /\ IsFiniteSet(Nets)
    /\ Hosts \cap Nets = {} /\ Local \in Hosts
    /\ Bits \in [Nets -> Nat] /\ Covers \in [Nets -> SUBSET Hosts]
    /\ PoolAddr \in [Handle -> Hosts]
    /\ StaticAddr \in [CN -> Hosts \cup {NULL}]
    /\ IRoutes \in [CN -> Seq(Hosts \cup Nets)]
    /\ FixedFile \in [Handle -> CN \cup {NoName}]
    /\ MaxClients \in Nat /\ MaxRoutes \in Nat \ {0} /\ MbufSize \in Nat \ {0}

VARIABLES
    m,          \* struct multi_context
    status,     \* event_set_status: what is left to do in this pass
    readonly,   \* persist->fixed: the file of the pool is only read
    aborted     \* the ASSERT that ended the process, or "no"

vars == <<m, status, readonly, aborted>>

Addr == Hosts \cup Nets
Bit == {Bits[n] : n \in Nets}
NoFile == [h \in Handle |-> NoName]

\* multi_init
multi_init(pool) ==
    [inst |-> [i \in Inst |-> NULL], hash |-> [r \in Real |-> NULL],
     iter |-> <<>>, vhash |-> [a \in Addr |-> NULL],
     net_len_refcount |-> [b \in Bit |-> 0], schedule |-> {}, mbuf |-> <<>>,
     pool |-> pool, pending |-> NULL, out |-> {}]

-----------------------------------------------------------------------------
(* References to instances, and routes.  A cached route is "stale" when    *)
(* its generation is not the current one or its time is up.                *)

\* Mutant: the last reference does not free the memory.
multi_instance_dec_refcount_Leak(s, i) ==
    [s EXCEPT !.inst[i].refcount = @ - 1]

\* multi_instance_dec_refcount: the last reference frees the memory.
multi_instance_dec_refcount(s, i) ==
    IF s.inst[i].refcount = 1 THEN [s EXCEPT !.inst[i] = NULL]
    ELSE [s EXCEPT !.inst[i].refcount = @ - 1]

multi_route_del(s, a) ==
    LET i == s.vhash[a].instance
    IN  multi_instance_dec_refcount(
            [s EXCEPT !.inst[i].route_count = @ - 1, !.vhash[a] = NULL], i)

multi_route_defined(s, a) ==
    /\ s.vhash[a] # NULL
    /\ ~s.inst[s.vhash[a].instance].halt
    /\ s.vhash[a].kind # "stale"

RouteOwner(s, a) ==
    IF multi_route_defined(s, a) THEN s.vhash[a].instance ELSE NULL

\* Mutant: whoever has the address already keeps it.
MayLearn_Keep(s, i, a) ==
    /\ RouteOwner(s, a) = NULL
    /\ a # Local
    /\ s.inst[i].route_count < MaxRoutes

\* The conditions of multi_learn_addr: another live owner does not hinder.
MayLearn(s, i, a) ==
    /\ RouteOwner(s, a) # i
    /\ a # Local
    /\ s.inst[i].route_count < MaxRoutes

\* multi_learn_addr: the new route is counted before the old one is deleted.
multi_learn_addr(s, i, a, kind) ==
    LET held == [s EXCEPT !.inst[i].refcount = @ + 1,
                          !.inst[i].route_count = @ + 1]
        freed == IF s.vhash[a] = NULL THEN held ELSE multi_route_del(held, a)
    IN  IF MayLearn(s, i, a)
        THEN [freed EXCEPT !.vhash[a] = [instance |-> i, kind |-> kind]]
        ELSE s

\* The network routes that cover an address, of the lengths in use.
NetRoutes(s, a) ==
    {n \in Nets : /\ a \in Covers[n]
                  /\ s.net_len_refcount[Bits[n]] > 0
                  /\ multi_route_defined(s, n)}

\* The owner of the longest network route to an address.
NetOwner(s, a) ==
    LET nets == NetRoutes(s, a)
    IN  IF nets = {} THEN NULL
        ELSE s.vhash[CHOOSE n \in nets :
                        \A o \in nets : Bits[o] <= Bits[n]].instance

\* multi_get_instance_by_virtual_addr, its answer.
Owner(s, a) ==
    CASE a = Local -> NULL
      [] a # Local /\ multi_route_defined(s, a) -> s.vhash[a].instance
      [] OTHER -> NetOwner(s, a)

\* multi_get_instance_by_virtual_addr, what it leaves in the table: the
\* answer of a network route is cached.
Cached(s, a) ==
    IF Owner(s, a) = NULL \/ multi_route_defined(s, a) THEN s
    ELSE multi_learn_addr(s, Owner(s, a), a, "cached")

\* Mutant: the cached routes stay valid.
NewGeneration_Same(s) == s

\* ++cache_generation
NewGeneration(s) ==
    [s EXCEPT !.vhash = [a \in Addr |->
        IF @[a] # NULL /\ @[a].kind = "cached"
        THEN [@[a] EXCEPT !.kind = "stale"] ELSE @[a]]]

\* mroute_helper_add_iroute and mroute_helper_del_iroute; a host route has no
\* length.
mroute_helper_iroute(s, n, d) ==
    IF n \in Nets
    THEN NewGeneration([s EXCEPT !.net_len_refcount[Bits[n]] = @ + d])
    ELSE s

multi_add_iroutes(s, i) ==
    LET Add(t, n) == multi_learn_addr(mroute_helper_iroute(t, n, 1), i, n, "host")
    IN  FoldLeft(Add, [s EXCEPT !.inst[i].did_iroutes = TRUE],
                 IRoutes[s.inst[i].locked_cn])

\* Mutant: the lengths of the networks stay in use.
multi_del_iroutes_Keep(s, i) == [s EXCEPT !.inst[i].did_iroutes = FALSE]

multi_del_iroutes(s, i) ==
    LET Del(t, n) == mroute_helper_iroute(t, n, -1)
    IN  IF s.inst[i].did_iroutes
        THEN FoldLeft(Del, [s EXCEPT !.inst[i].did_iroutes = FALSE],
                      IRoutes[s.inst[i].locked_cn])
        ELSE s

-----------------------------------------------------------------------------
(* The queue of packets from client to client and to all clients.          *)

Queued(q) == {k \in DOMAIN q : q[k] # NULL}
Oldest(q) == CHOOSE k \in Queued(q) : \A l \in Queued(q) : k <= l

\* mbuf_extract_item passes over the items of closed instances.
Rest(q) == IF Queued(q) = {} THEN <<>> ELSE SubSeq(q, Oldest(q) + 1, Len(q))

\* The ASSERT of mbuf_add_item: a full queue has a packet to drop.
CanAdd(q) == Len(q) = MbufSize => Queued(q) # {}

\* Mutant: a full queue grows.
mbuf_add_item_Full(q, i) == Append(q, i)

\* mbuf_add_item: a full queue drops its oldest packet.
mbuf_add_item(q, i) ==
    IF Len(q) = MbufSize THEN Append(Rest(q), i) ELSE Append(q, i)

\* Mutant: packets queued for the instance stay.
mbuf_dereference_instance_Stay(q, i) == q

mbuf_dereference_instance(q, i) ==
    [k \in DOMAIN q |-> IF q[k] = i THEN NULL ELSE q[k]]

\* multi_bcast: to every instance but the sender.
multi_bcast(s, sender) ==
    LET To(q, i) == IF i = sender THEN q ELSE mbuf_add_item(q, i)
    IN  [s EXCEPT !.mbuf = FoldLeft(To, @, s.iter)]

-----------------------------------------------------------------------------
(* Instances.                                                              *)

\* "prevent dangling pointers"
NotPending(s, i) ==
    IF s.pending = i THEN [s EXCEPT !.pending = NULL, !.out = {}] ELSE s

\* multi_close_instance, outside shutdown: nothing but routes refers to the
\* instance afterwards, and they are left to the reaper.
multi_close_instance(s, i) ==
    LET mi == s.inst[i]
        closed == [NotPending(s, i) EXCEPT
            !.inst[i].halt = TRUE,
            !.hash[mi.real] = NULL,
            !.iter = RemoveFirst(@, i),
            !.schedule = @ \ {i},
            !.pool = ifconfig_pool_release(@, mi.vaddr_handle, FALSE),
            !.mbuf = mbuf_dereference_instance(@, i)]
    IN  multi_instance_dec_refcount(multi_del_iroutes(closed, i), i)

\* multi_close_instance of every instance of a set, in the order of m->iter.
CloseAll(s, S) ==
    FoldLeft(LAMBDA t, i : IF i \in S THEN multi_close_instance(t, i) ELSE t,
             s, s.iter)

Named(s, cn) == {i \in ToSet(s.iter) : s.inst[i].common_name = cn}

multi_delete_dup(s, i) == CloseAll(s, Named(s, s.inst[i].common_name) \ {i})

\* multi_create_instance, and the entry into m->hash: at the head of m->iter.
multi_create_instance(s, i, r) ==
    [s EXCEPT !.inst[i] = [real |-> r, halt |-> FALSE, refcount |-> 1,
                           route_count |-> 0, vaddr_handle |-> 0, addr |-> NULL,
                           common_name |-> NULL, locked_cn |-> NULL,
                           connection_established_flag |-> FALSE,
                           did_iroutes |-> FALSE],
              !.hash[r] = i,
              !.iter = <<i>> \o @,
              !.schedule = @ \cup {i}]

\* multi_select_virtual_addr: the address of --ifconfig-push, giving back
\* that of the pool, or an address of the pool, if there is one.
multi_select_virtual_addr(s, i, static) ==
    LET mi == s.inst[i]
        cn == mi.locked_cn
        name == IF DuplicateCN THEN NoName ELSE cn
        found == ifconfig_pool_find(s.pool, name)
    IN  CASE static ->
                [s EXCEPT !.pool = ifconfig_pool_release(@, mi.vaddr_handle, TRUE),
                          !.inst[i].vaddr_handle = 0,
                          !.inst[i].addr = StaticAddr[cn]]
          [] ~static /\ mi.vaddr_handle = 0 /\ found # {} ->
                LET h == CHOOSE h \in found : TRUE
                IN  [s EXCEPT !.inst[i].vaddr_handle = h,
                              !.inst[i].addr = PoolAddr[h],
                              !.pool = Acquired(@, h, name)]
          [] OTHER -> s

\* How the options of a client turn out: an address of the pool, one of the
\* client's file, one that the script sets after the pool was asked, or a
\* script that fails.
Sourced(cn) ==
    {"pool", "fail"} \cup IF StaticAddr[cn] = NULL THEN {} ELSE {"file", "script"}

\* multi_connection_established: the name is locked, other instances of the
\* client are closed, the address is selected, and the routes are added.
multi_connection_established(s, i, how) ==
    LET locked == [s EXCEPT !.inst[i].locked_cn = s.inst[i].common_name,
                            !.inst[i].connection_established_flag = TRUE]
        alone == IF DuplicateCN THEN locked ELSE multi_delete_dup(locked, i)
        first == multi_select_virtual_addr(alone, i, how = "file")
        final == IF how = "script" THEN multi_select_virtual_addr(first, i, TRUE)
                                   ELSE first
        routed == IF final.inst[i].addr = NULL THEN final
                  ELSE multi_learn_addr(final, i, final.inst[i].addr, "host")
    IN  IF how = "fail" THEN first ELSE multi_add_iroutes(routed, i)

-----------------------------------------------------------------------------
(* The end of every event of an instance: multi_process_post with          *)
(* MPP_PRE_SELECT and MPP_CLOSE_ON_SIGNAL.                                 *)

\* What the TLS layer, external here, does in pre_select to the name of the
\* client: nothing; the certificate is verified, a locked name being restored;
\* or the session is replaced after a failed negotiation, and has no name yet.
Verified(mi) ==
    (IF mi.locked_cn = NULL THEN CN ELSE {mi.locked_cn})
    \cup {mi.common_name, NULL}

\* Mutant: the instance stays the one with output when it has none.
SetPending_Keep(s, i, out) == [s EXCEPT !.pending = i, !.out = out]

\* multi_set_pending (m, ANY_OUT (&mi->context) ? mi : NULL)
SetPending(s, i, out) ==
    [s EXCEPT !.pending = IF out # {} THEN i ELSE NULL, !.out = out]

\* The output to the tun device that an instance may hold.
TunOut(s, i) ==
    IF s.pending = i THEN {s.out \cap {"tun"}} ELSE SUBSET {"tun"}

\* What pre_select leaves of the name of the client, and of its timer.
Selected(s, i) ==
    {[s EXCEPT !.inst[i].common_name = cn, !.schedule = @ \cup {i}] :
        cn \in Verified(s.inst[i])}

\* A client that has a name for the first time is connected.
Established(S, i) ==
    UNION {{multi_connection_established(t, i, how) :
                how \in Sourced(t.inst[i].common_name)} :
           t \in {u \in S : /\ ~u.inst[i].connection_established_flag
                           /\ u.inst[i].common_name # NULL}}

\* multi_process_post: the states it can leave behind, when the event left
\* one of the outputs "tun" to the tun device.  What pre_select brings about
\* is a signal, a name, a control packet or a ping to send, and the
\* establishment of the connection.
multi_process_post(s, i, tun) ==
    LET selected == Selected(s, i)
    IN  {multi_close_instance(s, i)}
        \cup {SetPending(t, i, o \cup link) :
                t \in selected \cup Established(selected, i),
                o \in tun, link \in SUBSET {"link"}}

-----------------------------------------------------------------------------
(* The event loop: tunnel_server_udp_single_threaded.                      *)

\* Mutant: the queue does not hinder reading.
p2mp_iow_flags_Read ==
    IF m.pending # NULL
    THEN {e \in {"sw", "tw"} : \/ e = "sw" /\ "link" \in m.out
                               \/ e = "tw" /\ "tun" \in m.out}
    ELSE {"sr", "tr"} \cup IF m.mbuf # <<>> THEN {"sw"} ELSE {}

\* p2mp_iow_flags: nothing is read while output or queued packets wait.
p2mp_iow_flags ==
    CASE m.pending # NULL -> {e \in {"sw", "tw"} :
                                \/ e = "sw" /\ "link" \in m.out
                                \/ e = "tw" /\ "tun" \in m.out}
      [] m.pending = NULL /\ m.mbuf # <<>> -> {"sw"}
      [] OTHER -> {"sr", "tr"}

\* The event multi_process_io_udp takes, of those that io_wait reported: in
\* this pass, or in the one whose management commands were served.
Takes(e) ==
    /\ aborted = "no"
    /\ \/ status = {} /\ e \in p2mp_iow_flags
       \/ /\ e \in status
          /\ e = "tw" => "sw" \notin status
          /\ e = "sr" => status \cap {"sw", "tw"} = {}
          /\ e = "tr" => status = {"tr"}
    /\ status' = {}
    /\ UNCHANGED readonly

Free == {i \in Inst : m.inst[i] = NULL}

\* The instance of a real address: the known one, or a new one if the number
\* of clients and --tls-auth permit it (multi_get_create_instance_udp).
From(r) ==
    IF m.hash[r] # NULL THEN {<<m, m.hash[r]>>}
    ELSE IF Cardinality({q \in Real : m.hash[q] # NULL}) < MaxClients
    THEN {<<multi_create_instance(m, i, r), i>> : i \in Free}
    ELSE {}

\* multi_process_incoming_link, of a packet that brings no data out of the
\* tunnel: a control packet, a ping, or one that is dropped.
SocketReadControl ==
    /\ Takes("sr")
    /\ \E r \in Real : \E p \in From(r) :
         m' \in multi_process_post(p[1], p[2], {{}})
    /\ UNCHANGED aborted

\* Routing between clients, and the output that is left for the tun device:
\* the packet of i goes to all, to a client, or on to the tun device.
Routed(s, i, dest) ==
    LET to == Owner(s, dest)
    IN  CASE dest = "mcast" -> <<multi_bcast(s, i), {"tun"}>>
          [] dest # "mcast" /\ to # NULL ->
                <<[Cached(s, dest) EXCEPT !.mbuf = mbuf_add_item(@, to)], {}>>
          [] OTHER -> <<s, {"tun"}>>

\* multi_process_incoming_link, of a packet from the tunnel of a client: its
\* source has to be an address of that client.
Tunnelled(i) ==
    {IF Owner(m, src) = i THEN Routed(Cached(m, src), i, dest)
     ELSE <<Cached(m, src), {}>> :
        src \in Hosts, dest \in Hosts \cup {"mcast"}}

SocketReadData ==
    /\ Takes("sr")
    /\ \E i \in ToSet(m.iter) :
         /\ m.inst[i].connection_established_flag
         /\ \E p \in Tunnelled(i) : m' \in multi_process_post(p[1], i, {p[2]})
    /\ aborted' = IF m'.mbuf = m.mbuf \/ CanAdd(m.mbuf) THEN aborted
                  ELSE "mbuf_add_item"

\* multi_process_incoming_tun: to all, or to the client with the address.
TunRead ==
    /\ Takes("tr")
    /\ \/ m' = multi_bcast(m, NULL)
       \/ \E dest \in Hosts :
            LET i == Owner(m, dest)
            IN  IF i = NULL THEN m' = m
                ELSE m' \in multi_process_post(
                        [Cached(m, dest) EXCEPT !.pending = i], i, TunOut(m, i))
    /\ aborted' = IF m'.mbuf = m.mbuf \/ CanAdd(m.mbuf) THEN aborted
                  ELSE "mbuf_add_item"

\* multi_process_outgoing_link: the packet of the instance with output, or
\* else the next one of the queue, is sent.
SocketWrite ==
    /\ Takes("sw")
    /\ LET next == IF m.pending # NULL THEN m.pending
                   ELSE IF Queued(m.mbuf) = {} THEN NULL ELSE m.mbuf[Oldest(m.mbuf)]
           taken == IF m.pending # NULL THEN m ELSE [m EXCEPT !.mbuf = Rest(@)]
       IN  IF next = NULL THEN m' = taken
           ELSE m' \in multi_process_post(
                         taken, next, TunOut(m, next))
    /\ UNCHANGED aborted

\* multi_process_outgoing_tun, which asserts that an instance has output.
TunWrite ==
    /\ Takes("tw")
    /\ IF m.pending = NULL THEN aborted' = "multi_process_outgoing_tun" /\ m' = m
       ELSE /\ m' \in multi_process_post(
                        m, m.pending, {{}})
            /\ UNCHANGED aborted

\* multi_process_timeout, for any instance in the schedule.
Timeout ==
    /\ aborted = "no" /\ status = {}
    /\ \E i \in m.schedule : m' \in multi_process_post(m, i, TunOut(m, i))
    /\ UNCHANGED <<status, readonly, aborted>>

\* management_io, with a command to kill clients by name or by address; the
\* other events of io_wait are left for the rest of the pass.
Kill ==
    /\ aborted = "no" /\ status = {}
    /\ status' \in SUBSET p2mp_iow_flags
    /\ \E S \in {Named(m, cn) : cn \in CN} \cup {{m.hash[r]} : r \in Real} :
         S # {} /\ S # {NULL} /\ m' = CloseAll(m, S)
    /\ UNCHANGED <<readonly, aborted>>

\* multi_reap_range, for the bucket of one address.
Reap ==
    /\ aborted = "no" /\ status = {}
    /\ \E a \in Addr :
         /\ m.vhash[a] # NULL /\ ~multi_route_defined(m, a)
         /\ m' = multi_route_del(m, a)
    /\ UNCHANGED <<status, readonly, aborted>>

\* The time of a cached route that is not used is up.
Age ==
    /\ aborted = "no" /\ status = {}
    /\ \E a \in Addr :
         /\ m.vhash[a] # NULL /\ m.vhash[a].kind = "cached"
         /\ m' = [m EXCEPT !.vhash[a].kind = "stale"]
    /\ UNCHANGED <<status, readonly, aborted>>

\* The end of the server and a new start: the file of the pool is written at
\* the end, and nothing of the instances is left (multi_uninit).
Restart ==
    /\ aborted = "no" /\ status = {}
    /\ m' = multi_init(ifconfig_pool_read(
                IF readonly THEN FixedFile ELSE ifconfig_pool_write(m.pool),
                readonly))
    /\ UNCHANGED <<status, readonly, aborted>>

Init ==
    /\ readonly \in BOOLEAN
    /\ m = multi_init(ifconfig_pool_read(
                IF readonly THEN FixedFile ELSE NoFile, readonly))
    /\ status = {}
    /\ aborted = "no"

Next ==
    \/ SocketReadControl \/ SocketReadData \/ TunRead
    \/ SocketWrite \/ TunWrite \/ Timeout \/ Kill
    \/ Reap \/ Age \/ Restart

Spec == Init /\ [][Next]_vars

-----------------------------------------------------------------------------
(* Properties.                                                             *)

\* The type of the state: among other things no route is counted beyond
\* max_routes_per_client, and the queue of packets keeps to its capacity.
TypeOK ==
    /\ m.inst \in [Inst -> Instance \cup {NULL}]
    /\ m.hash \in [Real -> Inst \cup {NULL}]
    /\ m.vhash \in [Addr -> Route \cup {NULL}]
    /\ m.schedule \subseteq Inst
    /\ ToSet(m.iter) \subseteq Inst
    /\ Len(m.mbuf) <= MbufSize /\ ToSet(m.mbuf) \subseteq Inst \cup {NULL}
    /\ m.net_len_refcount \in [Bit -> Nat]
    /\ m.pool.list \in [Handle -> [in_use : BOOLEAN, fixed : BOOLEAN,
                                   common_name : CN \cup {NoName}]]
    /\ ToSet(m.pool.released) \subseteq Handle
    /\ m.pending \in Inst \cup {NULL} /\ m.out \subseteq {"link", "tun"}
    /\ status \subseteq {"sr", "sw", "tr", "tw"}
    /\ readonly \in BOOLEAN
    /\ aborted \in {"no", "mbuf_add_item", "multi_process_outgoing_tun"}

Allocated == {i \in Inst : m.inst[i] # NULL}
LiveInst == {i \in Allocated : ~m.inst[i].halt}
RoutesOf(i) == {a \in Addr : m.vhash[a] # NULL /\ m.vhash[a].instance = i}

\* The counts of an instance are exact, so that its memory is freed neither
\* while a route still points to it nor never: a closed instance lives as
\* long as the reaper has left one of its routes (multi_close_instance,
\* multi_route_del, the replacement of a route in multi_learn_addr).
RefcountExact ==
    /\ \A a \in Addr : m.vhash[a] # NULL => m.vhash[a].instance \in Allocated
    /\ \A i \in Allocated :
        /\ m.inst[i].route_count = Cardinality(RoutesOf(i))
        /\ m.inst[i].refcount = m.inst[i].route_count
                                + IF m.inst[i].halt THEN 0 ELSE 1
        /\ m.inst[i].refcount > 0

\* Nothing but routes points to a closed instance, whichever of the ways to
\* close it was taken (signal, duplicate name, management): not the pointer
\* to the instance with output, the queue of packets, or the scheduler.  And
\* every instance that is not closed is found by its address and has a timer.
NoDangling ==
    /\ m.pending \in LiveInst \cup {NULL}
    /\ ToSet(m.mbuf) \subseteq LiveInst \cup {NULL}
    /\ ToSet(m.iter) = LiveInst
    /\ m.schedule = LiveInst
    /\ \A i \in LiveInst : m.hash[m.inst[i].real] = i
    /\ \A r \in Real : m.hash[r] # NULL => m.hash[r] \in LiveInst

\* The event loop never waits for an event that cannot come: an instance
\* that is waited for has output.
PendingHasOutput ==
    status = {} /\ m.pending # NULL => m.out # {}

\* An address of the pool is in use exactly while one client that is not
\* closed has it: no two clients get it, and none is lost, through any order
\* of connections, duplicates, static addresses and restarts.
LeasesExact ==
    \A h \in Handle :
        Cardinality({i \in LiveInst : m.inst[i].vaddr_handle = h}) =
            IF m.pool.list[h].in_use THEN 1 ELSE 0

\* An address that the read-only file gives to a client by name is never
\* given to another client.
FixedForOne ==
    \A i \in LiveInst :
        LET h == m.inst[i].vaddr_handle
        IN  readonly /\ h # 0 /\ FixedFile[h] # NoName
            => m.inst[i].locked_cn = FixedFile[h]

\* A cached route that still counts gives the answer that the network routes
\* give now, whatever networks came and went since it was cached.
CacheCoherent ==
    \A a \in Hosts :
        m.vhash[a] # NULL /\ m.vhash[a].kind = "cached" =>
            RouteOwner(m, a) \in {NULL, NetOwner(m, a)}

\* The iroutes of a client that are networks of a length.
OfLength(cn, b) ==
    {k \in DOMAIN IRoutes[cn] : IRoutes[cn][k] \in Nets /\ Bits[IRoutes[cn][k]] = b}

\* The lengths that are searched are those of the networks of the clients
\* that are not closed.
LengthsInUse ==
    \A b \in Bit :
        m.net_len_refcount[b] =
            Cardinality(UNION {{i} \X OfLength(m.inst[i].locked_cn, b) :
                            i \in {j \in LiveInst : m.inst[j].did_iroutes}})

\* What is sent to the address of the pool that a client has goes to that
\* client, also when a route of another one covered the address before.
AddressRoutes ==
    \A i \in LiveInst :
        LET h == m.inst[i].vaddr_handle
        IN  m.inst[i].did_iroutes /\ h # 0 => Owner(m, PoolAddr[h]) = i

\* mbuf_add_item never meets a full queue of packets to closed instances,
\* which would end the server: nothing is read before the queue is empty.
QueueAssertion == aborted # "mbuf_add_item"

\* A client that connects again while its earlier instance still holds an
\* address of the pool gets an address that the pool knows as its own, unless
\* it gets none of the pool: the earlier instance is closed first, and the
\* pool remembers its name (multi_delete_dup, ifconfig_pool_find).
Reconnects(i, j) ==
    /\ i \in LiveInst /\ j # i /\ j \in LiveInst'
    /\ m.inst[i].vaddr_handle # 0
    /\ m.inst[i].common_name = m'.inst[j].locked_cn
    /\ ~(m.inst[j] # NULL /\ m.inst[j].connection_established_flag)
    /\ m'.inst[j].vaddr_handle # 0

SameAddress ==
    [][\A i, j \in Inst : Reconnects(i, j) =>
            m.pool.list[m'.inst[j].vaddr_handle].common_name
                = m.inst[i].common_name]_vars
=============================================================================
