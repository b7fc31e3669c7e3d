-------------------------------- MODULE Sign --------------------------------
(***************************************************************************)
(* The signature program of practica3 (sign.c): one process after another  *)
(* signs a file or verifies its signature.  Between two processes the file *)
(* is edited or the signature file is damaged.                             *)
(*                                                                         *)
(* SHA-512 and RSA are ideal: a digest is the stream of bytes it was       *)
(* computed from, a ciphertext names the key and the block it was computed *)
(* from, and whatever else is decrypted has a wrong padding.               *)
(***************************************************************************)
EXTENDS Integers, Sequences, FiniteSets

CONSTANTS
    Paths,      \* names of one and the same file: sequences of components
    Contents,   \* what the file may hold: sequences of bytes
    Keys,       \* the key pairs; both key files of a pair can be read
    ShortKeys,  \* the pairs whose modulus has less than KEY_SIZE bits
    TextSize,   \* TEXT_SIZE, the size of the buffer for the text
    BlockSize   \* BLOCK_SIZE

ASSUME SignAssumption ==
    /\ Paths \subseteq Seq(STRING) /\ Contents \subseteq Seq(STRING)
    /\ ShortKeys \subseteq Keys /\ "none" \notin Keys
    /\ TextSize \in Nat \ {0}
    /\ BlockSize \in Nat \ {0}

VARIABLES
    file,       \* the bytes of the file
    sig,        \* signature.pem: how much of BLOCK_SIZE it has, and of what
    run         \* the local variables of the process

vars == <<file, sig, run>>

\* A block is its padding and the digest behind it (the identifier between
\* them is never looked at); memset leaves the zero block, C_BLOCK is not set.
Block(padding, hash) == [padding |-> padding, hash |-> hash]
ZeroBlock == Block("zero", << >>)
Noise == Block("noise", << >>)
Uninitialised == [key |-> "none", block |-> Noise]

Process(mode, path, key) ==
    [mode |-> mode, pc |-> IF mode = "sign" THEN "open" ELSE "signature",
     path |-> path, key |-> key,
     pos |-> 0,                     \* the offset of fd
     md |-> << >>,                  \* what the digest was fed with
     t |-> 0,                       \* the bytes leerFirmaB64 has read
     C_BLOCK |-> Uninitialised, BLOCK |-> ZeroBlock,
     cmp |-> "none",                \* result of compararHASHES, which is discarded
     status |-> 0]

Init ==
    /\ file \in Contents
    /\ sig = [len |-> 0, cipher |-> Uninitialised]
    /\ run = [Process("sign", << >>, "none") EXCEPT !.pc = "exit"]

Ended == run.pc = "exit"

(***************************************************************************)
(* Between two processes.                                                  *)
(***************************************************************************)
Edit ==
    /\ Ended
    /\ \E c \in Contents : c # file /\ file' = c
    /\ run' = [Process("sign", << >>, "none") EXCEPT !.pc = "exit"]
    /\ UNCHANGED sig

Truncate ==
    /\ Ended
    /\ \E n \in 0 .. sig.len - 1 : sig' = [sig EXCEPT !.len = n]
    /\ run' = [Process("sign", << >>, "none") EXCEPT !.pc = "exit"]
    /\ UNCHANGED file

Start ==
    /\ Ended
    /\ \E mode \in {"sign", "verify"}, path \in Paths, key \in Keys :
        run' = Process(mode, path, key)
    /\ UNCHANGED <<file, sig>>

(***************************************************************************)
(* err(1, ...): in sha512, at each read of a key, in generarFirmaDigital   *)
(* and in leerFirmaB64.  The end by a signal where fopen failed and its    *)
(* result, NULL, is used counts as one of them.                            *)
(***************************************************************************)
Fail ==
    /\ run.pc \in {"open", "text", "signature", "key", "write"}
    /\ run' = [run EXCEPT !.pc = "exit", !.status = 1]
    /\ UNCHANGED <<file, sig>>

(***************************************************************************)
(* sha512: the whole file and then its path, as it was given.              *)
(***************************************************************************)
Open ==
    /\ run.pc = "open"
    /\ run' = [run EXCEPT !.pc = "text"]
    /\ UNCHANGED <<file, sig>>

\* read returns anything from one byte to what the buffer takes.
ReadText ==
    /\ run.pc = "text"
    /\ \E nr \in 1 .. TextSize :
        /\ run.pos + nr <= Len(file)
        /\ run' = [run EXCEPT
                    !.md = @ \o SubSeq(file, run.pos + 1, run.pos + nr),
                    !.pos = @ + nr]
    /\ UNCHANGED <<file, sig>>

sha512 ==
    /\ run.pc = "text"
    /\ run.pos = Len(file)
    /\ run' = [run EXCEPT
                !.md = @ \o run.path,
                !.pc = IF run.mode = "sign" THEN "key" ELSE "compare"]
    /\ UNCHANGED <<file, sig>>

(***************************************************************************)
(* Signing.                                                                *)
(***************************************************************************)
createPadding == "EMSA"

concatenaPaddingHash(md) == Block(createPadding, md)

readPrivkey ==
    /\ run.mode = "sign" /\ run.pc = "key"
    /\ run' = [run EXCEPT !.BLOCK = concatenaPaddingHash(run.md), !.pc = "write"]
    /\ UNCHANGED <<file, sig>>

\* RSA_private_encrypt fails with a short key: C_BLOCK is written all the same.
Encrypted(p) ==
    IF p.key \in ShortKeys
    THEN p.C_BLOCK
    ELSE [key |-> p.key, block |-> p.BLOCK]

\* What BIO_flush cannot write to standard output is lost unnoticed.
generarFirmaDigital ==
    /\ run.pc = "write"
    /\ \E n \in 0 .. BlockSize : sig' = [len |-> n, cipher |-> Encrypted(run)]
    /\ run' = [run EXCEPT !.C_BLOCK = Encrypted(run), !.pc = "exit"]
    /\ UNCHANGED file

(***************************************************************************)
(* Verifying.                                                              *)
(***************************************************************************)
\* Mutant: takes what was asked for as read.
leerFirmaB64_CountsAsked ==
    /\ run.pc = "signature"
    /\ run' = [run EXCEPT
                !.t = BlockSize,
                !.C_BLOCK = IF sig.len = BlockSize THEN sig.cipher ELSE @,
                !.pc = "key"]
    /\ UNCHANGED <<file, sig>>

\* Mutant: a single BIO_read.
leerFirmaB64_OneRead ==
    /\ run.pc = "signature"
    /\ \E leido \in 0 .. sig.len :
        run' = [run EXCEPT
                    !.t = leido,
                    !.C_BLOCK = IF leido = BlockSize THEN sig.cipher ELSE @,
                    !.pc = "key"]
    /\ UNCHANGED <<file, sig>>

leerFirmaB64 ==
    /\ run.pc = "signature"
    /\ \/ \E leido \in 1 .. BlockSize - run.t :
            /\ run.t + leido <= sig.len
            /\ run' = [run EXCEPT !.t = @ + leido]
       \/ /\ run.t = sig.len
          /\ run' = [run EXCEPT
                        !.C_BLOCK = IF run.t = BlockSize THEN sig.cipher ELSE @,
                        !.pc = "key"]
    /\ UNCHANGED <<file, sig>>

\* RSA_public_decrypt fails with a short key and leaves BLOCK as it was.
desencryptarMSG(p) ==
    CASE p.key \in ShortKeys     -> p.BLOCK
      [] p.C_BLOCK.key = p.key   -> p.C_BLOCK.block
      [] OTHER                   -> Noise

comprobarPadding(block) == IF block.padding = createPadding THEN 0 ELSE -1

readPubkey ==
    /\ run.mode = "verify" /\ run.pc = "key"
    /\ LET block == desencryptarMSG(run) IN
       run' = [run EXCEPT
                !.BLOCK = block,
                !.pc = IF comprobarPadding(block) = 0 THEN "open" ELSE "exit"]
    /\ UNCHANGED <<file, sig>>

compararHASHES ==
    /\ run.pc = "compare"
    /\ run' = [run EXCEPT
                !.cmp = IF run.md = run.BLOCK.hash THEN "equal" ELSE "differ",
                !.pc = "exit"]
    /\ UNCHANGED <<file, sig>>

Next ==
    \/ Edit \/ Truncate \/ Start \/ Fail
    \/ Open \/ ReadText \/ sha512
    \/ readPrivkey \/ generarFirmaDigital
    \/ leerFirmaB64 \/ readPubkey \/ compararHASHES

Spec == Init /\ [][Next]_vars

(***************************************************************************)
(* Properties.                                                             *)
(***************************************************************************)
Blocks == {ZeroBlock, Noise}
            \cup {Block(createPadding, c \o p) : c \in Contents, p \in Paths}
Ciphers == {Uninitialised} \cup [key : Keys \ ShortKeys, block : Blocks]

\* The types of main's variables and of the signature file.
TypeOK ==
    /\ file \in Contents
    /\ sig \in [len : 0 .. BlockSize, cipher : Ciphers]
    /\ run.pc \in {"exit", "open", "text", "key", "write", "signature", "compare"}
    /\ run.C_BLOCK \in Ciphers /\ run.BLOCK \in Blocks
    /\ run.pos \in 0 .. Len(file) /\ run.t \in 0 .. sig.len
    /\ run.cmp \in {"none", "equal", "differ"} /\ run.status \in {0, 1}

\* The signature is right for what the process was given: complete, made with
\* the private key of the pair, of this content followed by this path.
Right ==
    /\ sig.len = BlockSize
    /\ run.key \in Keys \ ShortKeys
    /\ sig.cipher = [key |-> run.key, block |-> Block(createPadding, file \o run.path)]

Verified == run.mode = "verify" /\ Ended /\ run.status = 0

\* The hashes compare equal exactly for a right signature, however read and
\* BIO_read cut text and signature into pieces, whatever was edited, damaged
\* or lost since the file was signed, and when RSA failed before.
VerdictIsRight == Verified => (run.cmp = "equal" <=> Right)

\* "En caso de que la firma no sea correcta, debe imprimir un error por la
\* salida de errores y acabar con un estatus de error" (enunciado.pdf): a
\* verification that ends with status 0 found the signature right.
StatusTellsVerdict == Verified => Right
=============================================================================
