--------------------------- MODULE MCReliableLink ---------------------------
(***************************************************************************)
(* Instances of ReliableLink for TLC.                                      *)
(***************************************************************************)
EXTENDS ReliableLink

CONSTANTS
    ClientRecords, ServerRecords    \* bounds: TLS records in each direction
CONSTANTS
    NetToClient, NetToServer        \* bounds: packets in flight

MCRecords == [p \in {Client, Server} |->
                IF p = Client THEN ClientRecords ELSE ServerRecords]
MCMaxNet == [p \in {Client, Server} |->
                IF p = Client THEN NetToClient ELSE NetToServer]
=============================================================================
