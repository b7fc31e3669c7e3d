-------------------------------- MODULE Hmac --------------------------------
(***************************************************************************)
(* The HMAC-SHA1 program of practica2 (hmacsha1.c): readkey fills the      *)
(* zeroed key buffer, hmacsha1 feeds the inner and then the outer digest,  *)
(* converthexa prints it.                                                  *)
(*                                                                         *)
(* A digest is the sequence it was computed from.  Both constants of the   *)
(* pads are XORed to every byte, which is injective: a byte b becomes      *)
(* <<"ipad", b>> or <<"opad", b>>.                                         *)
(***************************************************************************)
EXTENDS Integers, Sequences

CONSTANTS
    Texts,      \* what the text file may hold
    KeyFiles,   \* what the key file may hold
    KSize,      \* K_SIZE
    HmacTextSize \* TEXT_SIZE

ASSUME HmacAssumption ==
    /\ Texts \subseteq Seq(0 .. 255) /\ KeyFiles \subseteq Seq(0 .. 255)
    /\ KSize \in Nat \ {0}
    /\ HmacTextSize \in Nat \ {0}

VARIABLES
    textFile, keyFile,  \* the two files
    pc,                 \* what main is at: "key", "text", "done" or "failed"
    key,                \* the key buffer
    t, s,               \* the counters of readkey
    pos,                \* offset of the open text file
    c,                  \* what the inner SHA1 was fed with
    out                 \* what was printed

hmacVars == <<textFile, keyFile, pc, key, t, s, pos, c, out>>

ZeroKey == [i \in 1 .. KSize |-> 0]

Xored(pad, k) == [i \in 1 .. KSize |-> <<pad, k[i]>>]

Sha1(stream) == << <<"sha1", stream>> >>

HmacInit ==
    /\ textFile \in Texts /\ keyFile \in KeyFiles
    /\ pc = "key" /\ key = ZeroKey
    /\ t = 0 /\ s = KSize
    /\ pos = 0 /\ c = << >> /\ out = << >>

(***************************************************************************)
(* readkey                                                                 *)
(***************************************************************************)

\* The digest is initialised and fed with k_ipad once the key is read.
StartInner(k) == /\ pc' = "text"
                 /\ c' = Xored("ipad", k)

\* Mutant: every read goes to the start of the buffer.
Stored_AtStart(nr) ==
    [i \in 1 .. KSize |-> IF i <= nr THEN keyFile[t + i] ELSE key[i]]

\* The buffer after read(fd, key + t, nr).
Stored(nr) ==
    [i \in 1 .. KSize |->
        IF i > t /\ i <= t + nr THEN keyFile[i] ELSE key[i]]

ReadKey ==
    /\ pc = "key"
    /\ \E nr \in 1 .. KSize - t :
        /\ t + nr <= Len(keyFile)
        /\ key' = Stored(nr)
        /\ t' = t + nr /\ s' = s - nr
        /\ IF t' > KSize \/ s' = 0 THEN StartInner(key') ELSE UNCHANGED <<pc, c>>
    /\ UNCHANGED <<textFile, keyFile, pos, out>>

EndOfKey ==
    /\ pc = "key"
    /\ t = Len(keyFile)
    /\ StartInner(key)
    /\ UNCHANGED <<textFile, keyFile, key, t, s, pos, out>>

(***************************************************************************)
(* hmacsha1                                                                *)
(***************************************************************************)
FeedText ==
    /\ pc = "text"
    /\ \E nr \in 1 .. HmacTextSize :
        /\ pos + nr <= Len(textFile)
        /\ c' = c \o SubSeq(textFile, pos + 1, pos + nr)
        /\ pos' = pos + nr
    /\ UNCHANGED <<textFile, keyFile, pc, key, t, s, out>>

\* The outer digest is fed with k_opad and the inner digest, and printed.
hmacsha1 ==
    /\ pc = "text"
    /\ pos = Len(textFile)
    /\ out' = Sha1(Xored("opad", key) \o Sha1(c))
    /\ pc' = "done"
    /\ UNCHANGED <<textFile, keyFile, key, t, s, pos, c>>

\* err(1, ...) at an open, a read or a close.
HmacFails ==
    /\ pc \in {"key", "text"}
    /\ pc' = "failed"
    /\ UNCHANGED <<textFile, keyFile, key, t, s, pos, c, out>>

HmacNext == ReadKey \/ EndOfKey \/ FeedText \/ hmacsha1 \/ HmacFails

HmacSpec == HmacInit /\ [][HmacNext]_hmacVars

(***************************************************************************)
(* Properties.                                                             *)
(***************************************************************************)

\* HMAC as RFC 2104 defines it for keys that fit the block; of a longer key,
\* which the RFC replaces by its digest, the bytes that fit.
Padded(k) == [i \in 1 .. KSize |-> IF i <= Len(k) THEN k[i] ELSE 0]
HMAC(k, text) ==
    Sha1(Xored("opad", Padded(k)) \o Sha1(Xored("ipad", Padded(k)) \o text))

\* What is printed is the HMAC of the whole text under the key, or under its
\* first K_SIZE bytes if the file has more ("leemos de fichero la key de menos
\* de 64 bytes", readkey), however read cut key and text into pieces: no byte
\* behind the buffer gets into it. A run that fails prints nothing.
PrintsHMAC ==
    /\ pc = "done" => out = HMAC(keyFile, textFile)
    /\ pc # "done" => out = << >>
=============================================================================
