-------------------------------- MODULE Pool --------------------------------
(***************************************************************************)
(* The pool of virtual addresses of a server (pool.c).  A handle is an     *)
(* index of the pool, counted from 1; 0 is the handle -1 of the code.      *)
(*                                                                         *)
(* The times of last release are only compared, so a pool keeps the        *)
(* handles in the order of their release: those outside "released" have    *)
(* the time 0.                                                             *)
(***************************************************************************)
EXTENDS Integers, Sequences, SequencesExt

CONSTANTS
    PoolSize,       \* pool->size
    DuplicateCN,    \* --duplicate-cn
    NoName          \* the common name NULL

ASSUME PoolAssumption == PoolSize \in Nat /\ DuplicateCN \in BOOLEAN

Handle == 1 .. PoolSize

\* Mutant: every release forgets the client.
ifconfig_pool_entry_free_Forget(p, h, hard) ==
    [list |-> [p.list EXCEPT ![h].in_use = FALSE, ![h].common_name = NoName],
     released |-> Append(RemoveFirst(p.released, h), h)]

\* A soft release remembers the client and the time, a hard one forgets both.
ifconfig_pool_entry_free(p, h, hard) ==
    IF hard
    THEN [list |-> [p.list EXCEPT ![h].in_use = FALSE,
                                  ![h].common_name = NoName],
          released |-> RemoveFirst(p.released, h)]
    ELSE [list |-> [p.list EXCEPT ![h].in_use = FALSE],
          released |-> Append(RemoveFirst(p.released, h), h)]

Unused(p) == {h \in Handle : ~p.list[h].in_use}

last_release(p, h) ==
    IF h \in ToSet(p.released)
    THEN CHOOSE i \in DOMAIN p.released : p.released[i] = h
    ELSE 0

\* The first entry for which no entry of the set was released earlier.
Earliest(p, S) ==
    {h \in S : \A g \in S \ {h} :
        \/ last_release(p, h) < last_release(p, g)
        \/ last_release(p, h) = last_release(p, g) /\ h < g}

First(S) == {h \in S : \A g \in S : h <= g}

\* Mutant: a fixed entry is given to whoever comes.
ifconfig_pool_find_Fixed(p, cn) ==
    LET previous == {h \in Unused(p) : cn # NoName /\ p.list[h].common_name = cn}
    IN  IF previous # {} THEN First(previous) ELSE Earliest(p, Unused(p))

\* Mutant: entries in use are not skipped.
ifconfig_pool_find_InUse(p, cn) ==
    LET previous == {h \in Handle : cn # NoName /\ p.list[h].common_name = cn}
    IN  IF previous # {} THEN First(previous)
        ELSE Earliest(p, {h \in Handle : ~p.list[h].fixed})

\* The entry of an earlier session of this client, or else the entry that was
\* released earliest and is not fixed: a set with the handle, or empty.
ifconfig_pool_find(p, cn) ==
    LET previous == {h \in Unused(p) : cn # NoName /\ p.list[h].common_name = cn}
        new == {h \in Unused(p) : ~p.list[h].fixed}
    IN  CASE DuplicateCN -> First(Unused(p))
          [] ~DuplicateCN /\ previous # {} -> First(previous)
          [] OTHER -> Earliest(p, new)

\* ifconfig_pool_acquire, of a handle that was found.
Acquired(p, h, cn) ==
    LET freed == ifconfig_pool_entry_free(p, h, TRUE)
    IN  [freed EXCEPT !.list[h].in_use = TRUE, !.list[h].common_name = cn]

ifconfig_pool_release(p, h, hard) ==
    IF h \in Handle THEN ifconfig_pool_entry_free(p, h, hard) ELSE p

\* ifconfig_pool_init
EmptyPool ==
    [list |-> [h \in Handle |->
                [in_use |-> FALSE, common_name |-> NoName, fixed |-> FALSE]],
     released |-> <<>>]

\* ifconfig_pool_read into a fresh pool: what the file names counts as
\* released now, and as fixed when the file is only read.
ifconfig_pool_read(file, fixed) ==
    [list |-> [h \in Handle |->
                [in_use |-> FALSE, common_name |-> file[h],
                 fixed |-> fixed /\ file[h] # NoName]],
     released |-> FoldLeft(LAMBDA q, h : IF file[h] # NoName THEN Append(q, h) ELSE q,
                           <<>>, [h \in Handle |-> h])]

\* ifconfig_pool_write: the names of the entries, in use or not.
ifconfig_pool_write(p) == [h \in Handle |-> p.list[h].common_name]
=============================================================================
