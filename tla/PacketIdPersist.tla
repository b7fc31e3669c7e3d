--------------------------- MODULE PacketIdPersist ---------------------------
(***************************************************************************)
(* The replay protection of a static key session with --replay-persist:    *)
(* the highest packet id received is kept in memory across a restart of    *)
(* the session (SIGUSR1) and in a file across a restart of the process.    *)
(* The clock stamps of the long form packet id are never 0.                *)
(***************************************************************************)
EXTENDS PacketId

VARIABLES
    persist,        \* struct packet_id_persist, the file being open
    file,           \* packet_id_persist_file_image in the file
    clean           \* history: no crash, and no write that failed, so far

persistVars == <<rec, now, accepted, persist, file, clean>>

Nothing == [time |-> 0, id |-> 0]

\* Mutant: what is read does not count as written.
packet_id_persist_load_Unwritten ==
    [time |-> file.time, id |-> file.id, written |-> Nothing]

\* packet_id_persist_load: what is read counts as written.
packet_id_persist_load ==
    [time |-> file.time, id |-> file.id, written |-> file]

\* Mutant: the receiver starts afresh.
Loaded_Afresh(p) == packet_id_init

\* Mutant: the time stamp is taken over, the number is not.
Loaded_TimeOnly(p) == [packet_id_init EXCEPT !.time = p.time]

\* packet_id_persist_load_obj: the receiver takes over time and number, with
\* an empty list.
Loaded(p) ==
    IF p.time # 0
    THEN [packet_id_init EXCEPT !.time = p.time, !.id = p.id]
    ELSE packet_id_init

PersistInit ==
    /\ file = Nothing
    /\ persist = [time |-> 0, id |-> 0, written |-> Nothing]
    /\ now = StartTime
    /\ accepted = {}
    /\ rec = packet_id_init
    /\ clean = TRUE

\* packet_id_persist_save_obj, after an accepted packet.
SavedObj(p, r) ==
    IF r.time # 0 THEN [p EXCEPT !.time = r.time, !.id = r.id] ELSE p

\* packet_id_persist_save
Unsaved ==
    /\ persist.time # 0
    /\ [time |-> persist.time, id |-> persist.id] # persist.written

Written == [time |-> persist.time, id |-> persist.id]

Receive ==
    /\ \E pin \in [time : 1 .. MaxStamp, id : 0 .. MaxId] :
        \/ Accept(pin) /\ persist' = SavedObj(persist, rec')
        \/ Reject(pin) /\ UNCHANGED persist
    /\ UNCHANGED <<file, clean>>

Flush ==
    /\ Unsaved
    /\ file' = Written
    /\ persist' = [persist EXCEPT !.written = Written]
    /\ UNCHANGED <<rec, now, accepted, clean>>

\* SIGUSR1: do_close_packet_id saves, and the next instance starts from the
\* structure that stays in memory, whether it could be written or not.
SoftRestart ==
    /\ \/ /\ file' = IF Unsaved THEN Written ELSE file
          /\ persist' = IF Unsaved THEN [persist EXCEPT !.written = Written]
                                   ELSE persist
          /\ UNCHANGED clean
       \/ /\ Unsaved
          /\ clean' = FALSE
          /\ UNCHANGED <<file, persist>>
    /\ rec' = Loaded(persist)
    /\ UNCHANGED <<now, accepted>>

\* The process ends properly and is started again: the structure is read
\* back from the file that do_close_packet_id has just written.
HardRestart ==
    LET f == IF Unsaved THEN Written ELSE file IN
    /\ file' = f
    /\ persist' = [time |-> f.time, id |-> f.id, written |-> f]
    /\ rec' = Loaded(f)
    /\ UNCHANGED <<now, accepted, clean>>

\* The process dies, or cannot write before it ends; whatever was not flushed
\* is lost.
CrashRestart ==
    /\ persist' = packet_id_persist_load
    /\ rec' = Loaded(file)
    /\ clean' = FALSE
    /\ UNCHANGED <<now, accepted, file>>

PersistNext ==
    \/ Receive
    \/ Tick /\ UNCHANGED <<persist, file, clean>>
    \/ Flush
    \/ SoftRestart
    \/ HardRestart
    \/ CrashRestart

PersistSpec == PersistInit /\ [][PersistNext]_persistVars

(***************************************************************************)
(* Properties.                                                             *)
(***************************************************************************)
NotAfter(a, b) ==
    \/ a.time < b.time
    \/ a.time = b.time /\ a.id <= b.id

\* The three copies of the highest packet id never overtake each other: the
\* file is behind the structure in memory, which is what the receiver has.
CopiesOrdered ==
    /\ NotAfter(file, persist)
    /\ NotAfter(persist, rec)
    /\ NotAfter(rec, persist)

\* What is recorded as written is what the file holds, so that the test that
\* skips a write (time_last_written, id_last_written) never skips a needed one.
WrittenIsFile == persist.written = file

\* As long as each session was stopped properly, the next one, before it
\* accepts its first packet, refuses everything its predecessors accepted.
FreshSessionRefuses ==
    clean /\ rec.size = 0 =>
        \A a \in accepted : ~ packet_id_test(rec, a)

\* Restarts and flushes never move the file back to an older packet id.
FileAdvances == [][NotAfter(file, file')]_persistVars

\* "if an OpenVPN session is stopped and restarted, it will reject any replays
\* of packets which were already received by the prior session" (openvpn.8):
\* AcceptedOnce of PacketId, across restarts.
RejectsPriorSession == clean => AcceptedOnce
=============================================================================
