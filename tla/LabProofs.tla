------------------------------ MODULE LabProofs ------------------------------
(***************************************************************************)
(* Theorems about the programs of the practices: the verdict of Sign is    *)
(* right for every content, path and key, and what Hmac prints is the HMAC *)
(* for every text and key, however the reads cut them.                     *)
(***************************************************************************)
EXTENDS Sign, Hmac, SequenceTheorems, TLAPS

-----------------------------------------------------------------------------
(* Reading a file.                                                         *)

\* What was read of a file, with the next read behind it.
LEMMA NextRead ==
    ASSUME NEW S, NEW f \in Seq(S), NEW n \in Nat, NEW k \in Nat \ {0},
           n + k <= Len(f)
    PROVE  SubSeq(f, 1, n) \o SubSeq(f, n + 1, n + k) = SubSeq(f, 1, n + k)
  <1>1. /\ Len(f) \in Nat /\ 1 \in 1 .. Len(f) + 1
        /\ n \in 1 - 1 .. Len(f) /\ n + k \in n .. Len(f)
    BY LenProperties
  <1> QED
    BY <1>1, ConcatAdjacentSubSeq

\* The same behind what was there before.
LEMMA NextFed ==
    ASSUME NEW S, NEW x \in Seq(S), NEW f \in Seq(S), NEW n \in Nat, NEW m \in Nat,
           n < m, m <= Len(f)
    PROVE  (x \o SubSeq(f, 1, n)) \o SubSeq(f, n + 1, m) = x \o SubSeq(f, 1, m)
  <1> DEFINE k == m - n
             y == SubSeq(f, 1, n)
             z == SubSeq(f, n + 1, m)
  <1>1. y \in Seq(S)
    <2>1. \A i \in 1 .. n : f[i] \in S
      BY LenProperties, ElementOfSeq
    <2> QED
      BY <2>1, SubSeqProperties
  <1>2. z \in Seq(S)
    <2>1. \A i \in n + 1 .. m : f[i] \in S
      BY LenProperties, ElementOfSeq
    <2> QED
      BY <2>1, SubSeqProperties
  <1>3. y \o z = SubSeq(f, 1, m)
    <2>1. k \in Nat \ {0} /\ n + k = m /\ n + k <= Len(f)
      OBVIOUS
    <2> HIDE DEF k
    <2> QED
      BY <2>1, NextRead
  <1> HIDE DEF k, y, z
  <1>4. (x \o y) \o z = x \o (y \o z)
    <2>1. x \in Seq(S) /\ y \in Seq(S) /\ z \in Seq(S)
      BY <1>1, <1>2
    <2> QED
      BY <2>1, ConcatAssociative, SMTT(30)
  <1> QED
    BY <1>3, <1>4 DEF y, z

-----------------------------------------------------------------------------
(* The signature program.                                                  *)

RunType ==
    [mode : {"sign", "verify"},
     pc : {"exit", "open", "text", "key", "write", "signature", "compare"},
     path : Seq(STRING), key : Keys \cup {"none"}, pos : Nat, md : Seq(STRING),
     t : Nat, C_BLOCK : Ciphers, BLOCK : Blocks,
     cmp : {"none", "equal", "differ"}, status : {0, 1}]

\* What a process has fed its digest with.
Digest(r) ==
    /\ r.pc = "open" => r.md = << >> /\ r.pos = 0
    /\ r.pc \in {"signature", "key"} /\ r.mode = "verify" => r.md = << >> /\ r.pos = 0
    /\ r.pc = "text" => r.md = SubSeq(file, 1, r.pos)
    /\ r.pc \in {"write", "compare"} => r.md = file \o r.path
    /\ r.pc = "key" /\ r.mode = "sign" => r.md = file \o r.path

\* What a process that verifies has of the signature.
Signature(r) ==
    r.mode = "verify" =>
        /\ r.pc \in {"signature", "key"} => r.BLOCK = ZeroBlock
        /\ r.pc = "signature" => r.C_BLOCK = Uninitialised
        /\ r.pc = "key" =>
             r.C_BLOCK = IF sig.len = BlockSize THEN sig.cipher ELSE Uninitialised
        /\ r.pc \in {"open", "text", "compare"} =>
             /\ sig.len = BlockSize /\ r.key \notin ShortKeys
             /\ sig.cipher.key = r.key /\ sig.cipher.block = r.BLOCK
             /\ r.BLOCK.padding = createPadding

\* Where a process can be, and that nothing failed there.
Control(r) ==
    /\ r.mode = "sign" => r.t = 0 /\ r.pc \notin {"signature", "compare"}
    /\ r.mode = "verify" => r.pc # "write"
    /\ r.pc # "exit" =>
         r.path \in Paths /\ r.key \in Keys /\ r.status = 0 /\ r.cmp = "none"

SignInv ==
    /\ file \in Contents
    /\ sig \in [len : 0 .. BlockSize, cipher : Ciphers]
    /\ run \in RunType
    /\ run.pos <= Len(file) /\ run.t <= sig.len
    /\ Digest(run) /\ Signature(run) /\ Control(run)
    /\ VerdictIsRight

\* What the blocks and the ciphertexts are.
LEMMA BlockTypes ==
    /\ ZeroBlock \in Blocks /\ Noise \in Blocks /\ Uninitialised \in Ciphers
    /\ \A f \in Contents, p \in Paths : Block(createPadding, f \o p) \in Blocks
    /\ \A b \in Blocks : b = Block(b.padding, b.hash)
    /\ \A x \in Ciphers : x.block \in Blocks /\ x = [key |-> x.key, block |-> x.block]
    /\ \A k \in Keys \ ShortKeys, b \in Blocks : [key |-> k, block |-> b] \in Ciphers
    /\ ZeroBlock.padding # createPadding /\ Noise.padding # createPadding
    /\ Uninitialised.key = "none" /\ "none" \notin Keys
    /\ \A h : Block(createPadding, h).padding = createPadding
    /\ \A h : Block(createPadding, h).hash = h
  <1>1. \A b \in Blocks : b = Block(b.padding, b.hash)
    BY DEF Blocks, Block, ZeroBlock, Noise
  <1>2. \A x \in Ciphers : x.block \in Blocks /\ x = [key |-> x.key, block |-> x.block]
    BY DEF Ciphers, Uninitialised, Blocks
  <1>3. ZeroBlock.padding # createPadding /\ Noise.padding # createPadding
    BY DEF ZeroBlock, Noise, Block, createPadding
  <1>4. \A h : Block(createPadding, h).padding = createPadding
               /\ Block(createPadding, h).hash = h
    BY DEF Block
  <1>5. /\ ZeroBlock \in Blocks /\ Noise \in Blocks /\ Uninitialised \in Ciphers
        /\ \A f \in Contents, p \in Paths : Block(createPadding, f \o p) \in Blocks
    BY DEF Blocks, Ciphers
  <1>6. \A k \in Keys \ ShortKeys, b \in Blocks : [key |-> k, block |-> b] \in Ciphers
    BY DEF Ciphers
  <1> QED
    BY <1>1, <1>2, <1>3, <1>4, <1>5, <1>6, SignAssumption DEF Uninitialised

\* A process that just started.
Started(mode, path, k, r) ==
    /\ r \in RunType
    /\ r.mode = mode /\ r.path = path /\ r.key = k
    /\ r.pc = IF mode = "sign" THEN "open" ELSE "signature"
    /\ r.pos = 0 /\ r.md = << >> /\ r.t = 0
    /\ r.C_BLOCK = Uninitialised /\ r.BLOCK = ZeroBlock
    /\ r.cmp = "none" /\ r.status = 0

LEMMA NewProcess ==
    ASSUME NEW mode \in {"sign", "verify"}, NEW path \in Seq(STRING),
           NEW k \in Keys \cup {"none"}
    PROVE  Started(mode, path, k, Process(mode, path, k))
  <1>1. << >> \in Seq(STRING)
    OBVIOUS
  <1> QED
    BY <1>1, BlockTypes DEF Process, RunType, Started

\* Between two processes.
LEMMA Idle ==
    LET r == [Process("sign", << >>, "none") EXCEPT !.pc = "exit"]
    IN  /\ r \in RunType /\ r.pc = "exit" /\ r.mode = "sign" /\ r.pos = 0 /\ r.t = 0
        /\ Digest(r) /\ Signature(r) /\ Control(r)
  <1> DEFINE e == Process("sign", << >>, "none")
             r == [e EXCEPT !.pc = "exit"]
  <1>1. << >> \in Seq(STRING) /\ "none" \in Keys \cup {"none"}
    OBVIOUS
  <1>2. e \in RunType /\ e.mode = "sign" /\ e.pos = 0 /\ e.t = 0
    <2>1. Started("sign", << >>, "none", e)
      BY <1>1, NewProcess
    <2> HIDE DEF e
    <2> QED
      BY <2>1 DEF Started
  <1> HIDE DEF e
  <1>3. r \in RunType /\ r.pc = "exit" /\ r.mode = "sign" /\ r.pos = 0 /\ r.t = 0
    BY <1>2 DEF RunType
  <1> HIDE DEF r
  <1>4. Digest(r) /\ Signature(r) /\ Control(r)
    BY <1>3 DEF Digest, Signature, Control
  <1> QED
    BY <1>3, <1>4 DEF r, e
\* A step of a process that has no verdict yet, or that failed.
LEMMA NoVerdict ==
    ASSUME NEW r, r.mode = "sign" \/ r.pc # "exit" \/ r.status = 1, run' = r
    PROVE  VerdictIsRight'
  BY DEF VerdictIsRight, Verified, Ended

LEMMA SignStep ==
    ASSUME SignInv, [Next]_vars
    PROVE  SignInv'
  <1> DEFINE r == run
  <1>0. /\ run \in RunType /\ file \in Contents /\ file \in Seq(STRING)
        /\ sig \in [len : 0 .. BlockSize, cipher : Ciphers]
        /\ Len(file) \in Nat /\ BlockSize \in Nat \ {0}
    BY SignAssumption, LenProperties DEF SignInv
  <1>1. ASSUME Edit \/ Truncate PROVE SignInv'
    <2> DEFINE e == [Process("sign", << >>, "none") EXCEPT !.pc = "exit"]
    <2>1. run' = e /\ e \in RunType /\ e.pc = "exit" /\ e.mode = "sign" /\ e.pos = 0 /\ e.t = 0
      BY <1>1, Idle DEF Edit, Truncate
    <2> HIDE DEF e
    <2>2. Digest(run)' /\ Signature(run)' /\ Control(run)'
      BY <2>1 DEF Digest, Signature, Control
    <2>3. file' \in Contents /\ sig' \in [len : 0 .. BlockSize, cipher : Ciphers]
      <3>1. CASE Edit
        BY <1>0, <3>1 DEF Edit
      <3>2. CASE Truncate
        BY <1>0, <3>2 DEF Truncate
      <3> QED
        BY <1>1, <3>1, <3>2
    <2>4. Len(file)' >= 0 /\ sig'.len >= 0
      BY <2>3, SignAssumption, LenProperties
    <2>5. VerdictIsRight'
      BY <2>1, NoVerdict
    <2> QED
      BY <2>1, <2>2, <2>3, <2>4, <2>5 DEF SignInv
  <1>2. ASSUME Start PROVE SignInv'
    <2>1. PICK mode \in {"sign", "verify"}, path \in Paths, k \in Keys :
             run' = Process(mode, path, k)
      BY <1>2 DEF Start
    <2>2. Started(mode, path, k, run')
      BY <2>1, NewProcess, SignAssumption
    <2>3. file' = file /\ sig' = sig
      BY <1>2 DEF Start
    <2>4. Digest(run)' /\ Signature(run)' /\ Control(run)'
      BY <2>2 DEF Digest, Signature, Control, Started
    <2>5. VerdictIsRight'
      BY <2>2, NoVerdict DEF Started
    <2> QED
      BY <1>0, <2>2, <2>3, <2>4, <2>5 DEF SignInv, Started
  <1>3. ASSUME Fail PROVE SignInv'
    <2>1. /\ file' = file /\ sig' = sig /\ run' \in RunType
          /\ run'.pc = "exit" /\ run'.status = 1
          /\ run'.mode = run.mode /\ run'.t = run.t /\ run'.pos = run.pos
      BY <1>0, <1>3 DEF Fail, RunType
    <2>2. Digest(run)' /\ Signature(run)' /\ Control(run)'
      BY <2>1 DEF SignInv, Digest, Signature, Control
    <2>3. VerdictIsRight'
      BY <2>1, NoVerdict
    <2> QED
      BY <1>0, <2>1, <2>2, <2>3 DEF SignInv
  <1>4. ASSUME Open PROVE SignInv'
    <2>1. /\ file' = file /\ sig' = sig /\ run.pc = "open"
          /\ run' = [run EXCEPT !.pc = "text"]
      BY <1>4 DEF Open
    <2>2. /\ run' \in RunType /\ run'.pc = "text" /\ run'.mode = run.mode
          /\ run'.path = run.path /\ run'.key = run.key /\ run'.pos = run.pos
          /\ run'.md = run.md /\ run'.t = run.t /\ run'.C_BLOCK = run.C_BLOCK
          /\ run'.BLOCK = run.BLOCK /\ run'.cmp = run.cmp /\ run'.status = run.status
      BY <1>0, <2>1 DEF RunType
    <2>3. SubSeq(file, 1, 0) = << >>
      BY SubSeqEmpty
    <2>4. Digest(run)'
      <3>1. run.md = << >> /\ run.pos = 0
        BY <2>1 DEF SignInv, Digest
      <3> QED
        BY <2>1, <2>2, <2>3, <3>1 DEF Digest
    <2>5. Signature(run)' /\ Control(run)'
      BY <2>1, <2>2 DEF SignInv, Signature, Control
    <2>6. VerdictIsRight'
      BY <2>2, NoVerdict
    <2> QED
      BY <1>0, <2>1, <2>2, <2>4, <2>5, <2>6 DEF SignInv
  <1>5. ASSUME ReadText PROVE SignInv'
    <2>1. PICK nr \in 1 .. TextSize :
             /\ run.pos + nr <= Len(file)
             /\ run' = [run EXCEPT !.md = run.md \o SubSeq(file, run.pos + 1, run.pos + nr),
                                   !.pos = run.pos + nr]
      BY <1>5 DEF ReadText
    <2>2. /\ file' = file /\ sig' = sig /\ run.pc = "text"
          /\ nr \in Nat \ {0} /\ run.pos \in Nat
      BY <1>0, <1>5, SignAssumption DEF ReadText, RunType
    <2> DEFINE n == run.pos + nr
               m == SubSeq(file, 1, n)
    <2>3. run.md \o SubSeq(file, run.pos + 1, n) = m
      <3>1. run.md = SubSeq(file, 1, run.pos)
        BY <2>2 DEF SignInv, Digest
      <3>2. SubSeq(file, 1, run.pos) \o SubSeq(file, run.pos + 1, run.pos + nr)
              = SubSeq(file, 1, run.pos + nr)
        BY <1>0, <2>1, <2>2, NextRead
      <3> QED
        BY <3>1, <3>2
    <2>4. m \in Seq(STRING) /\ n \in Nat /\ n <= Len(file)
      <3>1. \A i \in 1 .. n : file[i] \in STRING
        BY <1>0, <2>1, <2>2, ElementOfSeq
      <3> QED
        BY <2>1, <2>2, <3>1, SubSeqProperties
    <2>5. /\ run' \in RunType /\ run'.pc = "text" /\ run'.mode = run.mode
          /\ run'.path = run.path /\ run'.key = run.key /\ run'.pos = n
          /\ run'.md = m
          /\ run'.t = run.t /\ run'.C_BLOCK = run.C_BLOCK
          /\ run'.BLOCK = run.BLOCK /\ run'.cmp = run.cmp /\ run'.status = run.status
      <3>1. run' = [run EXCEPT !.md = m, !.pos = n]
        BY <2>1, <2>3
      <3> HIDE DEF m, n
      <3> QED
        BY <1>0, <2>2, <2>4, <3>1 DEF RunType
    <2>6. Digest(run)'
      BY <2>2, <2>5 DEF Digest
    <2>7. Signature(run)' /\ Control(run)'
      BY <2>2, <2>5 DEF SignInv, Signature, Control
    <2>8. VerdictIsRight'
      BY <2>5, NoVerdict
    <2> QED
      BY <1>0, <2>1, <2>2, <2>4, <2>5, <2>6, <2>7, <2>8 DEF SignInv
  <1>6. ASSUME sha512 PROVE SignInv'
    <2>1. /\ file' = file /\ sig' = sig /\ run.pc = "text" /\ run.pos = Len(file)
          /\ run' = [run EXCEPT !.md = run.md \o run.path,
                                !.pc = IF run.mode = "sign" THEN "key" ELSE "compare"]
      BY <1>6 DEF sha512
    <2>2. run.md = file
      BY <1>0, <2>1, SubSeqFull DEF SignInv, Digest
    <2>3. file \o run.path \in Seq(STRING)
      BY <1>0, ConcatProperties DEF RunType
    <2>4. /\ run' \in RunType /\ run'.mode = run.mode
          /\ run'.pc = IF run.mode = "sign" THEN "key" ELSE "compare"
          /\ run'.path = run.path /\ run'.key = run.key /\ run'.pos = run.pos
          /\ run'.md = file \o run.path
          /\ run'.t = run.t /\ run'.C_BLOCK = run.C_BLOCK
          /\ run'.BLOCK = run.BLOCK /\ run'.cmp = run.cmp /\ run'.status = run.status
      BY <1>0, <2>1, <2>2, <2>3 DEF RunType
    <2>5. Digest(run)' /\ Signature(run)' /\ Control(run)'
      BY <1>0, <2>1, <2>4 DEF SignInv, Digest, Signature, Control, RunType
    <2>6. VerdictIsRight'
      BY <2>4, NoVerdict
    <2> QED
      BY <1>0, <2>1, <2>4, <2>5, <2>6 DEF SignInv
  <1>7. ASSUME readPrivkey PROVE SignInv'
    <2> DEFINE b == Block(createPadding, run.md)
    <2>1. /\ file' = file /\ sig' = sig /\ run.pc = "key" /\ run.mode = "sign"
          /\ run' = [run EXCEPT !.BLOCK = b, !.pc = "write"]
      BY <1>7 DEF readPrivkey, concatenaPaddingHash
    <2>2. b \in Blocks
      BY <1>0, <2>1, BlockTypes DEF SignInv, Digest, Control
    <2> HIDE DEF b
    <2>3. /\ run' \in RunType /\ run'.mode = "sign" /\ run'.pc = "write"
          /\ run'.path = run.path /\ run'.key = run.key /\ run'.pos = run.pos
          /\ run'.md = run.md /\ run'.t = run.t
          /\ run'.cmp = run.cmp /\ run'.status = run.status
      BY <1>0, <2>1, <2>2 DEF RunType
    <2>4. Digest(run)' /\ Signature(run)' /\ Control(run)'
      BY <2>1, <2>3 DEF SignInv, Digest, Signature, Control
    <2>5. VerdictIsRight'
      BY <2>3, NoVerdict
    <2> QED
      BY <1>0, <2>1, <2>3, <2>4, <2>5 DEF SignInv
  <1>8. ASSUME generarFirmaDigital PROVE SignInv'
    <2> DEFINE x == Encrypted(run)
    <2>1. PICK n \in 0 .. BlockSize : sig' = [len |-> n, cipher |-> x]
      BY <1>8 DEF generarFirmaDigital
    <2>2. /\ file' = file /\ run.pc = "write"
          /\ run' = [run EXCEPT !.C_BLOCK = x, !.pc = "exit"]
      BY <1>8 DEF generarFirmaDigital
    <2>3. x \in Ciphers
      BY <1>0, <2>2, BlockTypes DEF Encrypted, RunType, SignInv, Control
    <2> HIDE DEF x
    <2>4. run.mode = "sign" /\ run.t = 0
      BY <1>0, <2>2 DEF SignInv, Control, RunType
    <2>5. /\ run' \in RunType /\ run'.mode = "sign" /\ run'.pc = "exit"
          /\ run'.pos = run.pos /\ run'.t = 0
      BY <1>0, <2>2, <2>3, <2>4 DEF RunType
    <2>6. Digest(run)' /\ Signature(run)' /\ Control(run)'
      BY <2>5 DEF Digest, Signature, Control
    <2>7. VerdictIsRight'
      BY <2>5, NoVerdict
    <2>8. sig' \in [len : 0 .. BlockSize, cipher : Ciphers] /\ sig'.len >= 0
      BY <2>1, <2>3
    <2> QED
      BY <1>0, <2>2, <2>5, <2>6, <2>7, <2>8 DEF SignInv
  <1>9. ASSUME leerFirmaB64 PROVE SignInv'
    <2>1. /\ file' = file /\ sig' = sig /\ run.pc = "signature" /\ run.mode = "verify"
      BY <1>0, <1>9 DEF leerFirmaB64, SignInv, Control, RunType
    <2>2. ASSUME NEW leido \in 1 .. BlockSize - run.t, run.t + leido <= sig.len,
                 run' = [run EXCEPT !.t = run.t + leido]
          PROVE  SignInv'
      <3>1. /\ run' \in RunType /\ run'.mode = run.mode /\ run'.pc = run.pc
            /\ run'.path = run.path /\ run'.key = run.key /\ run'.pos = run.pos
            /\ run'.md = run.md
            /\ run'.t = run.t + leido /\ run'.C_BLOCK = run.C_BLOCK
            /\ run'.BLOCK = run.BLOCK /\ run'.cmp = run.cmp /\ run'.status = run.status
        <4>1. run.t + leido \in Nat
          BY <1>0, <2>2 DEF RunType
        <4> QED
          BY <1>0, <2>2, <4>1 DEF RunType
      <3>2. Digest(run)' /\ Signature(run)' /\ Control(run)'
        BY <2>1, <3>1 DEF SignInv, Digest, Signature, Control
      <3>3. VerdictIsRight'
        BY <2>1, <3>1, NoVerdict
      <3> QED
        BY <1>0, <2>1, <2>2, <3>1, <3>2, <3>3 DEF SignInv
    <2>3. ASSUME run.t = sig.len,
                 run' = [run EXCEPT !.C_BLOCK = IF run.t = BlockSize THEN sig.cipher
                                                ELSE run.C_BLOCK,
                                    !.pc = "key"]
          PROVE  SignInv'
      <3>1. /\ run' \in RunType /\ run'.mode = run.mode /\ run'.pc = "key"
            /\ run'.path = run.path /\ run'.key = run.key /\ run'.pos = run.pos
            /\ run'.md = run.md /\ run'.t = run.t
            /\ run'.C_BLOCK = IF run.t = BlockSize THEN sig.cipher ELSE run.C_BLOCK
            /\ run'.BLOCK = run.BLOCK /\ run'.cmp = run.cmp /\ run'.status = run.status
        BY <1>0, <2>3 DEF RunType
      <3>2. Digest(run)' /\ Signature(run)' /\ Control(run)'
        BY <2>1, <2>3, <3>1 DEF SignInv, Digest, Signature, Control
      <3>3. VerdictIsRight'
        BY <3>1, NoVerdict
      <3> QED
        BY <1>0, <2>1, <2>3, <3>1, <3>2, <3>3 DEF SignInv
    <2> QED
      BY <1>9, <2>2, <2>3 DEF leerFirmaB64
  <1>10. ASSUME readPubkey PROVE SignInv'
    <2> DEFINE b == desencryptarMSG(run)
    <2>1. /\ file' = file /\ sig' = sig /\ run.pc = "key" /\ run.mode = "verify"
          /\ run' = [run EXCEPT !.BLOCK = b,
                                !.pc = IF comprobarPadding(b) = 0 THEN "open" ELSE "exit"]
      BY <1>10 DEF readPubkey
    <2>2. /\ run.C_BLOCK = IF sig.len = BlockSize THEN sig.cipher ELSE Uninitialised
          /\ run.BLOCK = ZeroBlock /\ run.key \in Keys
          /\ run.status = 0 /\ run.cmp = "none" /\ run.path \in Paths
      BY <2>1 DEF SignInv, Signature, Control
    <2>3. b \in Blocks
      BY <1>0, <2>2, BlockTypes DEF desencryptarMSG
    <2>4. comprobarPadding(b) = 0 =>
            /\ b.padding = createPadding /\ run.key \notin ShortKeys
            /\ sig.len = BlockSize /\ sig.cipher.key = run.key /\ sig.cipher.block = b
      <3>1. comprobarPadding(b) = 0 => b.padding = createPadding
        BY DEF comprobarPadding
      <3>2. b.padding = createPadding => run.key \notin ShortKeys /\ run.C_BLOCK.key = run.key
        <4>1. \/ b \in {ZeroBlock, Noise}
              \/ run.key \notin ShortKeys /\ run.C_BLOCK.key = run.key
          <5>1. run.C_BLOCK.key \notin ShortKeys
            BY <1>0, SignAssumption DEF RunType, Ciphers, Uninitialised
          <5>2. run.key \in ShortKeys => b = ZeroBlock
            BY <2>2, <5>1 DEF desencryptarMSG
          <5>3. run.key \notin ShortKeys /\ run.C_BLOCK.key # run.key => b = Noise
            BY DEF desencryptarMSG
          <5> HIDE DEF b
          <5> QED
            BY <5>2, <5>3
        <4> HIDE DEF b
        <4> QED
          BY <4>1, BlockTypes
      <3>3. run.key \notin ShortKeys /\ run.C_BLOCK.key = run.key => b = run.C_BLOCK.block
        BY DEF desencryptarMSG
      <3>4. run.C_BLOCK.key = run.key => sig.len = BlockSize /\ run.C_BLOCK = sig.cipher
        BY <2>2, BlockTypes
      <3> HIDE DEF b
      <3> QED
        BY <3>1, <3>2, <3>3, <3>4
    <2>5. Right => comprobarPadding(b) = 0
      <3>1. ASSUME Right PROVE comprobarPadding(b) = 0
        <4>1. /\ run.C_BLOCK = sig.cipher /\ run.key \notin ShortKeys
              /\ sig.cipher.key = run.key
              /\ sig.cipher.block = Block(createPadding, file \o run.path)
          BY <2>2, <3>1 DEF Right
        <4>2. b = sig.cipher.block
          BY <4>1 DEF desencryptarMSG
        <4>3. b.padding = createPadding
          BY <4>1, <4>2, BlockTypes
        <4> QED
          BY <4>3 DEF comprobarPadding
      <3> QED
        BY <3>1
    <2> HIDE DEF b
    <2>6. /\ run' \in RunType /\ run'.mode = "verify"
          /\ run'.pc = IF comprobarPadding(b) = 0 THEN "open" ELSE "exit"
          /\ run'.path = run.path /\ run'.key = run.key /\ run'.pos = run.pos
          /\ run'.md = run.md /\ run'.t = run.t /\ run'.BLOCK = b
          /\ run'.cmp = run.cmp /\ run'.status = run.status
      BY <1>0, <2>1, <2>3 DEF RunType
    <2>7. Signature(run)' /\ Control(run)'
      BY <2>1, <2>2, <2>4, <2>6 DEF SignInv, Signature, Control
    <2>8. VerdictIsRight'
      BY <2>1, <2>2, <2>5, <2>6 DEF VerdictIsRight, Verified, Ended, Right
    <2> QED
      BY <1>0, <2>1, <2>6, <2>7, <2>8 DEF SignInv, Digest
  <1>11. ASSUME compararHASHES PROVE SignInv'
    <2>1. /\ file' = file /\ sig' = sig /\ run.pc = "compare"
          /\ run' = [run EXCEPT !.cmp = IF run.md = run.BLOCK.hash THEN "equal" ELSE "differ",
                                !.pc = "exit"]
      BY <1>11 DEF compararHASHES
    <2>2. /\ run.mode = "verify" /\ run.md = file \o run.path
          /\ run.key \in Keys \ ShortKeys /\ sig.len = BlockSize
          /\ sig.cipher.key = run.key /\ sig.cipher.block = run.BLOCK
          /\ run.BLOCK.padding = createPadding
      <3>1. run.mode = "verify"
        BY <1>0, <2>1 DEF SignInv, Control, RunType
      <3>2. run.md = file \o run.path
        BY <2>1 DEF SignInv, Digest
      <3>3. run.key \in Keys
        BY <2>1 DEF SignInv, Control
      <3>4. /\ sig.len = BlockSize /\ run.key \notin ShortKeys
            /\ sig.cipher.key = run.key /\ sig.cipher.block = run.BLOCK
            /\ run.BLOCK.padding = createPadding
        BY <2>1, <3>1 DEF SignInv, Signature
      <3> QED
        BY <3>1, <3>2, <3>3, <3>4
    <2>3. Right <=> run.md = run.BLOCK.hash
      <3>1. run.BLOCK = Block(createPadding, run.BLOCK.hash)
        BY <1>0, <2>2, BlockTypes DEF RunType
      <3>2. sig.cipher = [key |-> run.key, block |-> run.BLOCK]
        BY <1>0, <2>2, BlockTypes
      <3>3. Right <=> run.BLOCK = Block(createPadding, run.md)
        BY <2>2, <3>2 DEF Right
      <3> QED
        BY <3>1, <3>3, BlockTypes
    <2>4. /\ run' \in RunType /\ run'.mode = run.mode /\ run'.pc = "exit"
          /\ run'.path = run.path /\ run'.key = run.key /\ run'.pos = run.pos
          /\ run'.t = run.t
          /\ run'.cmp = IF run.md = run.BLOCK.hash THEN "equal" ELSE "differ"
      BY <1>0, <2>1 DEF RunType
    <2>5. VerdictIsRight'
      BY <2>1, <2>3, <2>4 DEF VerdictIsRight, Right
    <2>6. Digest(run)' /\ Signature(run)' /\ Control(run)'
      BY <2>2, <2>4 DEF Digest, Signature, Control
    <2> QED
      BY <1>0, <2>1, <2>4, <2>5, <2>6 DEF SignInv
  <1>12. CASE UNCHANGED vars
    BY <1>12 DEF vars, SignInv, Digest, Signature, Control, VerdictIsRight, Verified, Ended, Right
  <1> QED
    BY <1>1, <1>2, <1>3, <1>4, <1>5, <1>6, <1>7, <1>8, <1>9, <1>10, <1>11, <1>12 DEF Next

LEMMA SignInit == Init => SignInv
  <1> SUFFICES ASSUME Init PROVE SignInv
    OBVIOUS
  <1> DEFINE e == [Process("sign", << >>, "none") EXCEPT !.pc = "exit"]
  <1>1. /\ run = e /\ file \in Contents /\ file \in Seq(STRING)
        /\ sig = [len |-> 0, cipher |-> Uninitialised]
    BY SignAssumption DEF Init
  <1>2. /\ e \in RunType /\ e.pc = "exit" /\ e.mode = "sign" /\ e.pos = 0 /\ e.t = 0
        /\ Digest(e) /\ Signature(e) /\ Control(e)
    BY Idle
  <1> HIDE DEF e
  <1>3. Len(file) >= 0 /\ sig \in [len : 0 .. BlockSize, cipher : Ciphers] /\ sig.len = 0
    BY <1>1, BlockTypes, SignAssumption, LenProperties
  <1> QED
    BY <1>1, <1>2, <1>3 DEF SignInv, VerdictIsRight, Verified

LEMMA SignInvariance == Spec => []SignInv
  BY SignInit, SignStep, PTL DEF Spec
\* The variables of main and the signature file keep their types: what is read
\* of a text or of a signature never passes its end.
THEOREM SignTypes == Spec => []TypeOK
  <1>1. SignInv => TypeOK
    <2> SUFFICES ASSUME SignInv PROVE TypeOK
      OBVIOUS
    <2>1. /\ run \in RunType /\ sig \in [len : 0 .. BlockSize, cipher : Ciphers]
          /\ file \in Contents /\ file \in Seq(STRING)
          /\ run.pos <= Len(file) /\ run.t <= sig.len
      BY SignAssumption DEF SignInv
    <2>2. Len(file) \in Nat /\ sig.len \in Nat /\ run.pos \in Nat /\ run.t \in Nat
      BY <2>1, SignAssumption, LenProperties DEF RunType
    <2> QED
      BY <2>1, <2>2 DEF TypeOK, RunType
  <1> QED
    BY <1>1, SignInvariance, PTL

\* A verification that does not fail finds the hashes equal exactly when the
\* signature is complete, made with this key, of this content and path: for
\* all contents, paths, keys and sizes of the buffers.
THEOREM VerdictIsAlwaysRight == Spec => []VerdictIsRight
  <1>1. SignInv => VerdictIsRight
    BY DEF SignInv
  <1> QED
    BY <1>1, SignInvariance, PTL
-----------------------------------------------------------------------------
(* The HMAC program.                                                      *)

\* The key buffer after n bytes of the key file.
KeyUpTo(n) == [i \in 1 .. KSize |-> IF i <= n THEN keyFile[i] ELSE 0]

HmacInv ==
    /\ textFile \in Texts /\ keyFile \in KeyFiles
    /\ pc \in {"key", "text", "done", "failed"}
    /\ pc = "key" =>
         /\ t \in 0 .. KSize - 1 /\ t <= Len(keyFile) /\ s = KSize - t
         /\ key = KeyUpTo(t) /\ pos = 0
    /\ pc = "text" =>
         /\ key \in [1 .. KSize -> 0 .. 255]
         /\ key = Padded(keyFile)
         /\ pos \in 0 .. Len(textFile)
         /\ c = Xored("ipad", key) \o SubSeq(textFile, 1, pos)
    /\ PrintsHMAC

\* The bytes the inner digest is fed with.
Fed == ({"ipad", "opad"} \X (0 .. 255)) \cup (0 .. 255)

\* What the digest starts with once the key is read.
LEMMA InnerStarts ==
    ASSUME NEW k \in [1 .. KSize -> 0 .. 255], NEW f \in Texts
    PROVE  /\ Xored("ipad", k) \in Seq(Fed)
           /\ Xored("ipad", k) = Xored("ipad", k) \o SubSeq(f, 1, 0)
  <1> DEFINE x == Xored("ipad", k)
  <1>1. x \in [1 .. KSize -> Fed] /\ KSize \in Nat
    BY HmacAssumption DEF Xored, Fed
  <1>2. x \in Seq(Fed)
    BY <1>1, SeqDef
  <1>3. SubSeq(f, 1, 0) = << >>
    BY SubSeqEmpty
  <1> HIDE DEF x
  <1>4. x = x \o << >>
    BY <1>2, ConcatEmptySeq
  <1> QED
    BY <1>2, <1>3, <1>4 DEF x

\* The key buffer holds bytes, and is the padded key once the file is read.
LEMMA KeyRead ==
    ASSUME keyFile \in KeyFiles, NEW n \in 0 .. KSize, n <= Len(keyFile)
    PROVE  /\ KeyUpTo(n) \in [1 .. KSize -> 0 .. 255]
           /\ n = KSize \/ n = Len(keyFile) => KeyUpTo(n) = Padded(keyFile)
  <1>1. keyFile \in Seq(0 .. 255) /\ Len(keyFile) \in Nat /\ KSize \in Nat
    BY HmacAssumption, LenProperties
  <1>2. \A i \in 1 .. KSize : (IF i <= n THEN keyFile[i] ELSE 0) \in 0 .. 255
    <2>1. \A i \in 1 .. Len(keyFile) : keyFile[i] \in 0 .. 255
      BY <1>1, ElementOfSeq
    <2> QED
      BY <1>1, <2>1
  <1>3. KeyUpTo(n) \in [1 .. KSize -> 0 .. 255]
    BY <1>2 DEF KeyUpTo
  <1>4. ASSUME n = KSize \/ n = Len(keyFile)
        PROVE  \A i \in 1 .. KSize : i <= n <=> i <= Len(keyFile)
    BY <1>1, <1>4
  <1>5. n = KSize \/ n = Len(keyFile) => KeyUpTo(n) = Padded(keyFile)
    BY <1>4 DEF KeyUpTo, Padded
  <1> QED
    BY <1>3, <1>5

LEMMA HmacStarts == HmacInit => HmacInv
  <1> SUFFICES ASSUME HmacInit PROVE HmacInv
    OBVIOUS
  <1>1. /\ textFile \in Texts /\ keyFile \in KeyFiles /\ pc = "key" /\ key = ZeroKey
        /\ t = 0 /\ s = KSize /\ pos = 0 /\ out = << >>
    BY DEF HmacInit
  <1>2. Len(keyFile) \in Nat /\ KSize \in Nat \ {0}
    BY <1>1, HmacAssumption, LenProperties
  <1>3. key = KeyUpTo(0)
    BY <1>1, <1>2 DEF ZeroKey, KeyUpTo
  <1> QED
    BY <1>1, <1>2, <1>3 DEF HmacInv, PrintsHMAC

\* The digest starts with the key that was read.
LEMMA StartStep ==
    ASSUME HmacInv, pc = "key", NEW n \in 0 .. KSize, n <= Len(keyFile),
           n = KSize \/ n = Len(keyFile),
           key' = KeyUpTo(n), StartInner(key'),
           UNCHANGED <<textFile, keyFile, pos, out>>
    PROVE  HmacInv'
  <1>1. /\ textFile \in Texts /\ keyFile \in KeyFiles /\ pos = 0 /\ out = << >>
        /\ pc' = "text" /\ c' = Xored("ipad", key') /\ Len(textFile) \in Nat
    BY HmacAssumption, LenProperties DEF HmacInv, StartInner, PrintsHMAC
  <1>2. key' \in [1 .. KSize -> 0 .. 255]
    BY <1>1, KeyRead
  <1>3. key' = Padded(keyFile)
    BY <1>1, KeyRead
  <1>4. c' = Xored("ipad", key') \o SubSeq(textFile, 1, 0)
    BY <1>1, <1>2, InnerStarts
  <1>5. Padded(keyFile)' = Padded(keyFile) /\ Xored("ipad", key)' = Xored("ipad", key')
    BY DEF Padded, Xored
  <1>6. /\ textFile' \in Texts /\ keyFile' \in KeyFiles /\ pos' = 0 /\ out' = << >>
        /\ Len(textFile') \in Nat /\ textFile' = textFile
    BY <1>1
  <1>7. key' = Padded(keyFile)' /\ c' = Xored("ipad", key)' \o SubSeq(textFile', 1, pos')
    BY <1>3, <1>4, <1>5, <1>6
  <1>8. pos' \in 0 .. Len(textFile')
    BY <1>6
  <1> QED
    BY <1>1, <1>2, <1>6, <1>7, <1>8 DEF HmacInv, PrintsHMAC

LEMMA HmacStep == HmacInv /\ [HmacNext]_hmacVars => HmacInv'
  <1> SUFFICES ASSUME HmacInv, [HmacNext]_hmacVars PROVE HmacInv'
    OBVIOUS
  <1>0. /\ textFile \in Texts /\ keyFile \in KeyFiles
        /\ textFile \in Seq(0 .. 255) /\ keyFile \in Seq(0 .. 255)
        /\ Len(textFile) \in Nat /\ Len(keyFile) \in Nat
        /\ KSize \in Nat \ {0} /\ HmacTextSize \in Nat \ {0}
    BY HmacAssumption, LenProperties DEF HmacInv
  <1>1. ASSUME ReadKey PROVE HmacInv'
    <2>1. PICK nr \in 1 .. KSize - t :
            /\ t + nr <= Len(keyFile) /\ key' = Stored(nr)
            /\ t' = t + nr /\ s' = s - nr
            /\ IF t' > KSize \/ s' = 0 THEN StartInner(key') ELSE UNCHANGED <<pc, c>>
      BY <1>1 DEF ReadKey
    <2>2. /\ pc = "key" /\ UNCHANGED <<textFile, keyFile, pos, out>>
          /\ t \in 0 .. KSize - 1 /\ s = KSize - t /\ key = KeyUpTo(t) /\ pos = 0
          /\ out = << >>
      BY <1>1 DEF ReadKey, HmacInv, PrintsHMAC
    <2>3. /\ t' \in 0 .. KSize /\ t' <= Len(keyFile) /\ s' = KSize - t'
          /\ t' > KSize \/ s' = 0 <=> t' = KSize
      BY <1>0, <2>1, <2>2
    <2>4. key' = KeyUpTo(t')
      <3>1. \A i \in 1 .. KSize :
               (IF i > t /\ i <= t + nr THEN keyFile[i] ELSE key[i])
               = (IF i <= t' THEN keyFile[i] ELSE 0)
        BY <1>0, <2>1, <2>2 DEF KeyUpTo
      <3> QED
        BY <2>1, <3>1 DEF Stored, KeyUpTo
    <2>5. CASE t' = KSize
      BY <2>1, <2>2, <2>3, <2>4, <2>5, StartStep
    <2>6. CASE t' # KSize
      <3>1. pc' = "key" /\ c' = c /\ t' \in 0 .. KSize - 1
        BY <1>0, <2>1, <2>2, <2>3, <2>6
      <3>2. KeyUpTo(t)' = KeyUpTo(t')
        BY <2>2 DEF KeyUpTo
      <3> QED
        BY <1>0, <2>2, <2>3, <2>4, <3>1, <3>2 DEF HmacInv, PrintsHMAC
    <2> QED
      BY <2>5, <2>6
  <1>2. ASSUME EndOfKey PROVE HmacInv'
    <2>1. /\ pc = "key" /\ t = Len(keyFile) /\ StartInner(key)
          /\ UNCHANGED <<textFile, keyFile, key, t, s, pos, out>>
      BY <1>2 DEF EndOfKey
    <2>2. t \in 0 .. KSize /\ t <= Len(keyFile) /\ key = KeyUpTo(t)
      BY <1>0, <2>1 DEF HmacInv
    <2>3. key' = KeyUpTo(t) /\ StartInner(key')
      BY <2>1, <2>2
    <2> QED
      BY <2>1, <2>2, <2>3, StartStep
  <1>3. ASSUME FeedText PROVE HmacInv'
    <2>1. PICK nr \in 1 .. HmacTextSize :
            /\ pos + nr <= Len(textFile)
            /\ c' = c \o SubSeq(textFile, pos + 1, pos + nr)
            /\ pos' = pos + nr
      BY <1>3 DEF FeedText
    <2>2. /\ pc = "text" /\ UNCHANGED <<textFile, keyFile, pc, key, t, s, out>>
      BY <1>3 DEF FeedText
    <2>3. /\ key \in [1 .. KSize -> 0 .. 255] /\ pos \in 0 .. Len(textFile)
          /\ key = Padded(keyFile)
          /\ c = Xored("ipad", key) \o SubSeq(textFile, 1, pos)
          /\ out = << >>
      BY <2>2 DEF HmacInv, PrintsHMAC
    <2>4. c' = Xored("ipad", key) \o SubSeq(textFile, 1, pos')
      <3>1. Xored("ipad", key) \in Seq(Fed)
        BY <1>0, <2>3, InnerStarts
      <3>2. textFile \in Seq(Fed)
        <4>1. textFile \in [1 .. Len(textFile) -> 0 .. 255]
          BY <1>0, LenProperties
        <4>2. textFile \in [1 .. Len(textFile) -> Fed]
          BY <4>1 DEF Fed
        <4> QED
          BY <1>0, <4>2, SeqDef
      <3>3. pos \in Nat /\ nr \in Nat \ {0}
        BY <1>0, <2>1, <2>3
      <3> DEFINE x == Xored("ipad", key)
      <3>4. (x \o SubSeq(textFile, 1, pos)) \o SubSeq(textFile, pos + 1, pos + nr)
            = x \o SubSeq(textFile, 1, pos + nr)
        <4>1. x \in Seq(Fed) /\ pos + nr <= Len(textFile)
          BY <2>1, <3>1
        <4>2. pos + nr \in Nat /\ pos < pos + nr
          BY <3>3
        <4> HIDE DEF x
        <4> QED
          BY <3>2, <3>3, <4>1, <4>2, NextFed
      <3> QED
        BY <2>1, <2>3, <3>4
    <2>5. pos' \in 0 .. Len(textFile)
      BY <1>0, <2>1, <2>3
    <2>6. Padded(keyFile)' = Padded(keyFile) /\ Xored("ipad", key)' = Xored("ipad", key)
      BY <2>2 DEF Padded, Xored
    <2> QED
      BY <1>0, <2>2, <2>3, <2>4, <2>5, <2>6 DEF HmacInv, PrintsHMAC
  <1>4. ASSUME hmacsha1 PROVE HmacInv'
    <2>1. /\ pc = "text" /\ pos = Len(textFile) /\ pc' = "done"
          /\ out' = Sha1(Xored("opad", key) \o Sha1(c))
          /\ textFile' = textFile /\ keyFile' = keyFile
      BY <1>4 DEF hmacsha1
    <2>2. /\ key = Padded(keyFile)
          /\ c = Xored("ipad", key) \o SubSeq(textFile, 1, pos)
      BY <2>1 DEF HmacInv
    <2>3. SubSeq(textFile, 1, pos) = textFile
      BY <1>0, <2>1, SubSeqFull
    <2>4. out' = HMAC(keyFile, textFile)
      BY <2>1, <2>2, <2>3 DEF HMAC
    <2>5. HMAC(keyFile, textFile)' = HMAC(keyFile, textFile)
      BY <2>1 DEF HMAC, Padded, Xored, Sha1
    <2> QED
      BY <1>0, <2>1, <2>4, <2>5 DEF HmacInv, PrintsHMAC
  <1>5. ASSUME HmacFails PROVE HmacInv'
    <2>1. /\ pc' = "failed" /\ textFile' = textFile /\ keyFile' = keyFile
          /\ out' = out /\ out = << >>
      BY <1>5 DEF HmacFails, HmacInv, PrintsHMAC
    <2> QED
      BY <1>0, <2>1 DEF HmacInv, PrintsHMAC
  <1>6. CASE UNCHANGED hmacVars
    BY <1>6 DEF hmacVars, HmacInv, PrintsHMAC, KeyUpTo, Padded, Xored, HMAC, Sha1
  <1> QED
    BY <1>1, <1>2, <1>3, <1>4, <1>5, <1>6 DEF HmacNext

\* What the program prints is the HMAC of the whole text under the part of the
\* key that fits the buffer, for all texts and keys of bytes and all sizes of
\* the buffers, however read cuts them into pieces; a run that fails prints
\* nothing.
THEOREM HmacPrinted == HmacSpec => []PrintsHMAC
  <1>1. HmacInit => HmacInv
    BY HmacStarts
  <1>2. HmacInv /\ [HmacNext]_hmacVars => HmacInv'
    BY HmacStep
  <1>3. HmacInv => PrintsHMAC
    BY DEF HmacInv
  <1> QED
    BY <1>1, <1>2, <1>3, PTL DEF HmacSpec
=============================================================================
