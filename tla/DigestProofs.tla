---------------------------- MODULE DigestProofs ----------------------------
(***************************************************************************)
(* Proofs about Sha2Stream, for every size of a chunk, of the length field *)
(* and of a machine word, and for messages of any size; and about Bcrypt,  *)
(* for any settings and passwords.                                         *)
(*                                                                         *)
(* What was compressed and what the buffer holds are together the front of *)
(* the padded message; the turns finish() has still to go are what is      *)
(* missing in the buffer when the length does not fit into it.             *)
(*                                                                         *)
(* What bcrypt_check() makes goes, piece by piece, along with the digest   *)
(* it checks: the setting in the text of that is the one it was made with, *)
(* and what the loops append depends on where they are only.               *)
(***************************************************************************)
EXTENDS Sha2Stream, Bcrypt, SequenceTheorems, TLAPS

Symbols == {Byte(n) : n \in Nat} \cup {Mark, ZeroByte}
           \cup {LengthByte(<<h, l>>, j) : h \in Nat, l \in Nat, j \in Nat}

\* Byte g of the message of n bytes with the mark and zeros behind it.
FrontByte(n, g) == IF g <= n THEN Byte(g) ELSE IF g = n + 1 THEN Mark ELSE ZeroByte

\* The length in bits of m bytes, in words.
BitsOf(m) == <<(8 * m) \div WordBase, (8 * m) % WordBase>>

\* Compressed and buffered are the front of the message of n bytes.
Text(n) ==
  /\ \A g \in 1 .. Len(hs) : hs[g] = FrontByte(n, g)
  /\ \A j \in 1 .. Len(chunk) : chunk[j] = FrontByte(n, Len(hs) + j)

\* Whole chunks were compressed, and counted.
Counted ==
  /\ \E k \in Nat : Len(hs) = ChunkSize * k
  /\ size = BitsOf(Len(hs))

Types ==
  /\ at \in {"open", "zeros"} /\ finished \in BOOLEAN
  /\ chunk \in Seq(Symbols) /\ hs \in Seq(Symbols) /\ Len(chunk) <= ChunkSize
  /\ turns \in Nat /\ message \in Nat /\ late \in Nat

\* Before the digest.
Taking ==
  at = "open" /\ ~finished =>
    Counted /\ Text(message) /\ Len(hs) + Len(chunk) = message

\* In finish(), behind the mark.
Padding ==
  at = "zeros" =>
    /\ ~finished /\ Counted /\ Text(message) /\ total = BitsOf(message)
    /\ message + 1 <= Len(hs) + Len(chunk)
    /\ turns = 0 => /\ Len(chunk) <= ChunkSize - LengthSize
                    /\ PaddedSize(message) = Len(hs) + ChunkSize
    /\ turns > 0 => /\ Len(chunk) + turns = ChunkSize + 1
                    /\ PaddedSize(message) = Len(hs) + 2 * ChunkSize

IInv == Types /\ Taking /\ Padding /\ DigestOfMessage

-----------------------------------------------------------------------------
(* Division.                                                               *)

LEMMA DivMod ==
  ASSUME NEW x \in Nat, NEW w \in Nat \ {0}
  PROVE  /\ x \div w \in Nat /\ (x % w) \in 0 .. w - 1 /\ x = w * (x \div w) + (x % w)
OBVIOUS

LEMMA DivUnique ==
  ASSUME NEW w \in Nat \ {0}, NEW q \in Nat, NEW r \in 0 .. w - 1
  PROVE  (w * q + r) \div w = q /\ (w * q + r) % w = r
OBVIOUS

LEMMA SizesTypes ==
  /\ ChunkSize \in Nat \ {0} /\ LengthSize \in Nat \ {0} /\ WordBase \in Nat \ {0}
  /\ LengthSize < ChunkSize /\ 8 * ChunkSize < WordBase
BY Sha2Assumption

\* operator+= of u128 carries where the low word is full.
LEMMA BitsAdded ==
  ASSUME NEW m \in Nat, NEW k \in 0 .. ChunkSize
  PROVE  PlusBits(BitsOf(m), 8 * k) = BitsOf(m + k)
<1>0. PICK x \in Nat, y \in Nat, z \in Nat, w \in Nat \ {0} :
        x = 8 * m /\ y = 8 * k /\ z = 8 * (m + k) /\ w = WordBase /\ z = x + y /\ y < w
  BY SizesTypes
<1>1. PICK h \in Nat, l \in Nat : h = x \div w /\ l = x % w /\ l \in 0 .. w - 1 /\ x = w * h + l
  <2>1. /\ x \div w \in Nat /\ (x % w) \in 0 .. w - 1 /\ x = w * (x \div w) + (x % w)
    BY DivMod
  <2>2. PICK h \in Nat : h = x \div w
    BY <2>1
  <2>3. PICK l \in 0 .. w - 1 : l = x % w
    BY <2>1
  <2> QED
    BY <2>1, <2>2, <2>3
<1>2. PlusBits(BitsOf(m), y) = <<IF w - 1 - l < y THEN h + 1 ELSE h, (l + y) % w>>
  BY <1>0, <1>1 DEF PlusBits, BitsOf
<1>3. CASE l + y < w
  <2>1. l + y \in 0 .. w - 1 /\ z = w * h + (l + y)
    BY <1>0, <1>1, <1>3
  <2>2. z \div w = h /\ z % w = l + y
    BY <2>1, DivUnique
  <2>3. (l + y) % w = l + y
    BY <2>1
  <2>4. ~(w - 1 - l < y)
    BY <1>1, <1>3
  <2> QED
    BY <1>0, <1>2, <2>2, <2>3, <2>4 DEF BitsOf
<1>4. CASE ~(l + y < w)
  <2>1. PICK r \in 0 .. w - 1 : r = l + y - w
    BY <1>0, <1>1, <1>4
  <2>2. l + y = w * 1 + r /\ h + 1 \in Nat
    BY <2>1
  <2>3. z = w * (h + 1) + r
    <3>1. w * (h + 1) = w * h + w
      OBVIOUS
    <3> QED
      BY <1>0, <1>1, <2>1, <3>1
  <2>4. z \div w = h + 1 /\ z % w = r
    BY <2>2, <2>3, DivUnique
  <2>5. (l + y) % w = r
    BY <2>2, DivUnique
  <2>6. w - 1 - l < y
    BY <1>1, <1>4
  <2> QED
    BY <1>0, <1>2, <2>4, <2>5, <2>6 DEF BitsOf
<1> QED
  BY <1>3, <1>4

\* How many chunks the padding of a message takes that ends r bytes into a chunk.
LEMMA PaddedSizes ==
  ASSUME NEW k \in Nat, NEW r \in 0 .. ChunkSize
  PROVE  PaddedSize(ChunkSize * k + r) =
           IF r + LengthSize < ChunkSize THEN ChunkSize * k + ChunkSize
           ELSE ChunkSize * k + 2 * ChunkSize
<1> DEFINE x == ChunkSize * k + r + LengthSize
<1>1. CASE r + LengthSize < ChunkSize
  <2>1. x = ChunkSize * k + (r + LengthSize) /\ r + LengthSize \in 0 .. ChunkSize - 1
    BY <1>1, SizesTypes
  <2>2. x \div ChunkSize = k
    BY <2>1, SizesTypes, DivUnique
  <2>3. ChunkSize * (k + 1) = ChunkSize * k + ChunkSize
    BY SizesTypes
  <2> QED
    BY <1>1, <2>2, <2>3 DEF PaddedSize
<1>2. CASE ~(r + LengthSize < ChunkSize)
  <2>1. /\ x = ChunkSize * (k + 1) + (r + LengthSize - ChunkSize) /\ k + 1 \in Nat
        /\ r + LengthSize - ChunkSize \in 0 .. ChunkSize - 1
    <3>1. ChunkSize * (k + 1) = ChunkSize * k + ChunkSize /\ ChunkSize * k \in Nat
      BY SizesTypes
    <3> QED
      BY <1>2, <3>1, SizesTypes
  <2>2. x \div ChunkSize = k + 1
    BY <2>1, SizesTypes, DivUnique
  <2>3. ChunkSize * (k + 1 + 1) = ChunkSize * k + 2 * ChunkSize
    BY SizesTypes
  <2> QED
    BY <1>2, <2>2, <2>3 DEF PaddedSize
<1> QED
  BY <1>1, <1>2

-----------------------------------------------------------------------------
(* A byte more.                                                            *)

LEMMA SymbolsMade ==
  /\ Mark \in Symbols /\ ZeroByte \in Symbols /\ \A n \in Nat : Byte(n) \in Symbols
  /\ \A n, g \in Nat : FrontByte(n, g) \in Symbols
BY DEF Symbols, FrontByte

\* Compressing appends whole chunks, which are counted.
LEMMA Compressed ==
  ASSUME hs \in Seq(Symbols), NEW bytes \in Seq(Symbols), Len(bytes) = ChunkSize, ProcessChunk(bytes)
  PROVE  /\ hs' \in Seq(Symbols) /\ Len(hs') = Len(hs) + ChunkSize
         /\ \A g \in 1 .. Len(hs) : hs'[g] = hs[g]
         /\ \A j \in 1 .. ChunkSize : hs'[Len(hs) + j] = bytes[j]
         /\ Counted => Counted'
<1>1. hs' = hs \o bytes /\ size' = PlusBits(size, 8 * ChunkSize)
  BY DEF ProcessChunk
<1>2. /\ hs' \in Seq(Symbols) /\ Len(hs') = Len(hs) + ChunkSize
      /\ \A g \in 1 .. Len(hs) + ChunkSize : hs'[g] = IF g <= Len(hs) THEN hs[g] ELSE bytes[g - Len(hs)]
  BY <1>1, ConcatProperties
<1>3. Len(hs) \in Nat /\ ChunkSize \in Nat
  BY SizesTypes, LenProperties
<1>4. \A g \in 1 .. Len(hs) : hs'[g] = hs[g]
  BY <1>2, <1>3
<1>5. ASSUME NEW j \in 1 .. ChunkSize PROVE hs'[Len(hs) + j] = bytes[j]
  <2>1. Len(hs) + j \in 1 .. Len(hs) + ChunkSize /\ ~(Len(hs) + j <= Len(hs)) /\ Len(hs) + j - Len(hs) = j
    BY <1>3
  <2> QED
    BY <1>2, <2>1
<1>6. ASSUME Counted PROVE Counted'
  <2>1. PICK k \in Nat : Len(hs) = ChunkSize * k
    BY <1>6 DEF Counted
  <2>2. Len(hs') = ChunkSize * (k + 1) /\ k + 1 \in Nat
    BY <1>2, <1>3, <2>1
  <2>3. PICK m \in Nat : m = Len(hs)
    BY <1>3
  <2>4. PlusBits(BitsOf(m), 8 * ChunkSize) = BitsOf(m + ChunkSize)
    BY <1>3, BitsAdded
  <2>5. size' = BitsOf(Len(hs'))
    BY <1>1, <1>2, <1>6, <2>3, <2>4 DEF Counted
  <2> QED
    BY <2>2, <2>5 DEF Counted
<1> QED
  BY <1>2, <1>4, <1>5, <1>6

\* overflow() appends to what was compressed and buffered.
LEMMA OverflowAppends ==
  ASSUME Types, NEW n \in Nat, Text(n), NEW b \in Symbols,
         b = FrontByte(n, Len(hs) + Len(chunk) + 1), Overflow(b)
  PROVE  /\ hs' \in Seq(Symbols) /\ chunk' \in Seq(Symbols) /\ Len(chunk') <= ChunkSize
         /\ Text(n)' /\ (Counted => Counted')
         /\ Len(hs') \in Nat /\ Len(chunk') \in Nat \ {0}
         /\ Len(hs') + Len(chunk') = Len(hs) + Len(chunk) + 1
         /\ \/ Len(chunk) < ChunkSize /\ Len(hs') = Len(hs) /\ Len(chunk') = Len(chunk) + 1
            \/ Len(chunk) = ChunkSize /\ Len(hs') = Len(hs) + ChunkSize /\ Len(chunk') = 1
<1>1. /\ hs \in Seq(Symbols) /\ chunk \in Seq(Symbols) /\ Len(chunk) <= ChunkSize
      /\ Len(hs) \in Nat /\ Len(chunk) \in Nat /\ ChunkSize \in Nat \ {0}
  BY SizesTypes, LenProperties DEF Types
<1>2. CASE Len(chunk) < ChunkSize
  <2>1. chunk' = Append(chunk, b) /\ hs' = hs /\ size' = size
    BY <1>2 DEF Overflow
  <2>2. /\ chunk' \in Seq(Symbols) /\ Len(chunk') = Len(chunk) + 1 /\ chunk'[Len(chunk) + 1] = b
        /\ \A j \in 1 .. Len(chunk) : chunk'[j] = chunk[j]
    BY <1>1, <2>1, AppendProperties
  <2>3. ASSUME NEW j \in 1 .. Len(chunk') PROVE chunk'[j] = FrontByte(n, Len(hs) + j)
    <3>1. CASE j \in 1 .. Len(chunk)
      BY <2>2, <3>1 DEF Text
    <3>2. CASE j = Len(chunk) + 1
      <4>1. Len(hs) + j = Len(hs) + Len(chunk) + 1
        BY <1>1, <3>2
      <4> QED
        BY <2>2, <3>2, <4>1
    <3> QED
      BY <1>1, <2>2, <3>1, <3>2
  <2>4. Text(n)'
    BY <2>1, <2>3 DEF Text
  <2>5. Counted => Counted'
    BY <2>1 DEF Counted
  <2> QED
    <3>1. Len(hs') + Len(chunk') = Len(hs) + Len(chunk) + 1 /\ Len(chunk') \in Nat \ {0}
      BY <1>1, <2>1, <2>2
    <3> QED
      BY <1>1, <1>2, <2>1, <2>2, <2>4, <2>5, <3>1
<1>3. CASE Len(chunk) = ChunkSize
  <2>1. ProcessChunk(chunk) /\ chunk' = <<b>>
    BY <1>1, <1>3 DEF Overflow
  <2>2. /\ hs' \in Seq(Symbols) /\ Len(hs') = Len(hs) + ChunkSize
        /\ \A g \in 1 .. Len(hs) : hs'[g] = hs[g]
        /\ \A j \in 1 .. ChunkSize : hs'[Len(hs) + j] = chunk[j]
        /\ Counted => Counted'
    BY <1>1, <1>3, <2>1, Compressed
  <2>3. chunk' \in Seq(Symbols) /\ Len(chunk') = 1 /\ chunk'[1] = b
    BY <2>1
  <2>4. ASSUME NEW g \in 1 .. Len(hs') PROVE hs'[g] = FrontByte(n, g)
    <3>1. CASE g \in 1 .. Len(hs)
      BY <2>2, <3>1 DEF Text
    <3>2. CASE g > Len(hs)
      <4>1. PICK j \in 1 .. ChunkSize : g = Len(hs) + j
        <5>1. g - Len(hs) \in 1 .. ChunkSize /\ g = Len(hs) + (g - Len(hs))
          BY <1>1, <2>2, <3>2
        <5> QED
          BY <5>1
      <4> QED
        BY <1>3, <2>2, <4>1 DEF Text
    <3> QED
      BY <1>1, <2>2, <3>1, <3>2
  <2>5. ASSUME NEW j \in 1 .. Len(chunk') PROVE chunk'[j] = FrontByte(n, Len(hs') + j)
    <3>1. j = 1 /\ Len(hs') + j = Len(hs) + Len(chunk) + 1
      BY <1>1, <1>3, <2>2, <2>3
    <3> QED
      BY <2>3, <3>1
  <2>6. Text(n)'
    BY <2>4, <2>5 DEF Text
  <2> QED
    <3>1. Len(hs') + Len(chunk') = Len(hs) + Len(chunk) + 1 /\ Len(hs') \in Nat
      BY <1>1, <1>3, <2>2, <2>3
    <3> QED
      BY <1>1, <1>3, <2>2, <2>3, <2>6, <3>1
<1> QED
  BY <1>1, <1>2, <1>3

-----------------------------------------------------------------------------
(* The steps.                                                              *)

LEMMA PutKeeps == ASSUME IInv, ShaPut PROVE IInv'
<1>1. /\ at = "open" /\ ~finished /\ message \in Nat /\ Types
      /\ Overflow(Byte(message + 1)) /\ message' = message + 1
      /\ UNCHANGED <<at, total, turns, finished, bad, late>>
  BY DEF IInv, Types, ShaPut
<1>2. Counted /\ Text(message) /\ Len(hs) + Len(chunk) = message
  BY <1>1 DEF IInv, Taking
<1>3. Len(hs) \in Nat /\ Len(chunk) \in Nat
  BY <1>1, LenProperties DEF Types
<1>4. PICK n \in Nat : n = message + 1
  BY <1>1
<1>5. Text(n)
  <2>1. \A g \in 1 .. message : FrontByte(n, g) = FrontByte(message, g)
    BY <1>1, <1>4 DEF FrontByte
  <2>2. /\ \A g \in 1 .. Len(hs) : g \in 1 .. message
        /\ \A j \in 1 .. Len(chunk) : Len(hs) + j \in 1 .. message
    BY <1>2, <1>3
  <2> QED
    BY <1>2, <2>1, <2>2 DEF Text
<1>6. Byte(n) \in Symbols /\ Byte(n) = FrontByte(n, Len(hs) + Len(chunk) + 1) /\ Overflow(Byte(n))
  BY <1>1, <1>2, <1>4, SymbolsMade DEF FrontByte
<1>7. /\ hs' \in Seq(Symbols) /\ chunk' \in Seq(Symbols) /\ Len(chunk') <= ChunkSize
      /\ Text(n)' /\ Counted'
      /\ Len(hs') \in Nat /\ Len(chunk') \in Nat \ {0}
      /\ Len(hs') + Len(chunk') = Len(hs) + Len(chunk) + 1
      /\ \/ Len(chunk) < ChunkSize /\ Len(hs') = Len(hs) /\ Len(chunk') = Len(chunk) + 1
         \/ Len(chunk) = ChunkSize /\ Len(hs') = Len(hs) + ChunkSize /\ Len(chunk') = 1
  BY <1>1, <1>2, <1>5, <1>6, OverflowAppends
<1>8. Len(hs') + Len(chunk') = message'
  BY <1>1, <1>2, <1>7
<1>9. Types'
  BY <1>1, <1>7 DEF Types
<1>10. Taking'
  <2>1. message' = n
    BY <1>1, <1>4
  <2>2. Text(message)'
    BY <1>7, <2>1 DEF Text
  <2> QED
    BY <1>7, <1>8, <2>2 DEF Taking
<1>11. Padding' /\ DigestOfMessage'
  BY <1>1 DEF Padding, DigestOfMessage
<1> QED
  BY <1>9, <1>10, <1>11 DEF IInv

LEMMA FinishKeeps == ASSUME IInv, Finish PROVE IInv'
<1>1. /\ at = "open" /\ ~finished /\ message \in Nat /\ Types
      /\ total' = PlusBits(size, 8 * Len(chunk)) /\ Overflow(Mark) /\ at' = "zeros"
      /\ turns' = IF ChunkSize - Len(chunk) < 1 + LengthSize THEN ChunkSize - Len(chunk) ELSE 0
      /\ UNCHANGED <<finished, bad, message, late>>
  BY DEF IInv, Types, Finish
<1>2. Counted /\ Text(message) /\ Len(hs) + Len(chunk) = message
  BY <1>1 DEF IInv, Taking
<1>3. Len(hs) \in Nat /\ Len(chunk) \in 0 .. ChunkSize
  BY <1>1, LenProperties DEF Types
<1>4. PICK n \in Nat : n = message
  BY <1>1
<1>5. Mark \in Symbols /\ Mark = FrontByte(n, Len(hs) + Len(chunk) + 1) /\ Text(n)
  <2>1. Len(hs) + Len(chunk) + 1 = n + 1 /\ ~(n + 1 <= n)
    BY <1>2, <1>4
  <2> QED
    BY <1>2, <1>4, <2>1, SymbolsMade DEF FrontByte
<1>6. /\ hs' \in Seq(Symbols) /\ chunk' \in Seq(Symbols) /\ Len(chunk') <= ChunkSize
      /\ Text(n)' /\ Counted'
      /\ Len(hs') \in Nat /\ Len(chunk') \in Nat \ {0}
      /\ Len(hs') + Len(chunk') = Len(hs) + Len(chunk) + 1
      /\ \/ Len(chunk) < ChunkSize /\ Len(hs') = Len(hs) /\ Len(chunk') = Len(chunk) + 1
         \/ Len(chunk) = ChunkSize /\ Len(hs') = Len(hs) + ChunkSize /\ Len(chunk') = 1
  BY <1>1, <1>2, <1>5, OverflowAppends
<1>7. total' = BitsOf(n)
  <2>1. PICK a \in Nat, k \in 0 .. ChunkSize : a = Len(hs) /\ k = Len(chunk) /\ n = a + k
    BY <1>2, <1>3, <1>4
  <2>2. PlusBits(BitsOf(a), 8 * k) = BitsOf(a + k)
    BY <2>1, BitsAdded
  <2> QED
    BY <1>1, <1>2, <2>1, <2>2 DEF Counted
<1>8. PaddedSize(n) = IF Len(chunk) + LengthSize < ChunkSize THEN Len(hs) + ChunkSize
                      ELSE Len(hs) + 2 * ChunkSize
  <2>1. PICK k \in Nat, r \in 0 .. ChunkSize : Len(hs) = ChunkSize * k /\ r = Len(chunk)
    BY <1>2, <1>3 DEF Counted
  <2>2. n = ChunkSize * k + r
    BY <1>2, <1>4, <2>1
  <2>3. PaddedSize(n) = IF r + LengthSize < ChunkSize THEN ChunkSize * k + ChunkSize
                        ELSE ChunkSize * k + 2 * ChunkSize
    BY <2>2, PaddedSizes
  <2> QED
    BY <2>1, <2>3
<1>9. turns' \in Nat
  BY <1>1, <1>3, SizesTypes
<1>10. Types'
  BY <1>1, <1>6, <1>9 DEF Types
<1>11. Padding'
  <2>1. message' = n /\ n + 1 <= Len(hs') + Len(chunk')
    BY <1>1, <1>2, <1>4, <1>6
  <2>2. Text(message)'
    BY <1>6, <2>1 DEF Text
  <2>3. /\ turns' = 0 => /\ Len(chunk') <= ChunkSize - LengthSize
                         /\ PaddedSize(n) = Len(hs') + ChunkSize
        /\ turns' > 0 => /\ Len(chunk') + turns' = ChunkSize + 1
                         /\ PaddedSize(n) = Len(hs') + 2 * ChunkSize
    <3>1. PICK a \in Nat, c \in 0 .. ChunkSize, a1 \in Nat, c1 \in Nat, t \in Nat :
            a = Len(hs) /\ c = Len(chunk) /\ a1 = Len(hs') /\ c1 = Len(chunk') /\ t = turns'
      BY <1>3, <1>6, <1>9
    <3>2. PICK p : p = PaddedSize(n)
      OBVIOUS
    <3>3. /\ t = IF ChunkSize - c < 1 + LengthSize THEN ChunkSize - c ELSE 0
          /\ p = IF c + LengthSize < ChunkSize THEN a + ChunkSize ELSE a + 2 * ChunkSize
          /\ \/ c < ChunkSize /\ a1 = a /\ c1 = c + 1
             \/ c = ChunkSize /\ a1 = a + ChunkSize /\ c1 = 1
      BY <1>1, <1>6, <1>8, <3>1, <3>2
    <3>4. /\ t = 0 => c1 <= ChunkSize - LengthSize /\ p = a1 + ChunkSize
          /\ t > 0 => c1 + t = ChunkSize + 1 /\ p = a1 + 2 * ChunkSize
      BY <3>3, SizesTypes
    <3> QED
      BY <3>1, <3>2, <3>4
  <2> QED
    BY <1>1, <1>6, <1>7, <2>1, <2>2, <2>3 DEF Padding
<1>12. Taking' /\ DigestOfMessage'
  BY <1>1 DEF Taking, DigestOfMessage
<1> QED
  BY <1>10, <1>11, <1>12 DEF IInv

LEMMA ZeroKeeps == ASSUME IInv, FinishZero PROVE IInv'
<1>1. /\ at = "zeros" /\ turns > 0 /\ message \in Nat /\ turns \in Nat /\ Types
      /\ Overflow(ZeroByte) /\ turns' = turns - 1
      /\ UNCHANGED <<at, total, finished, bad, message, late>>
  BY DEF IInv, Types, FinishZero
<1>2. /\ ~finished /\ Counted /\ Text(message) /\ total = BitsOf(message)
      /\ message + 1 <= Len(hs) + Len(chunk)
      /\ Len(chunk) + turns = ChunkSize + 1
      /\ PaddedSize(message) = Len(hs) + 2 * ChunkSize
  BY <1>1 DEF IInv, Padding
<1>3. Len(hs) \in Nat /\ Len(chunk) \in 0 .. ChunkSize
  BY <1>1, LenProperties DEF Types
<1>4. PICK n \in Nat : n = message
  BY <1>1
<1>5. ZeroByte \in Symbols /\ ZeroByte = FrontByte(n, Len(hs) + Len(chunk) + 1) /\ Text(n)
  <2>1. ~(Len(hs) + Len(chunk) + 1 <= n) /\ Len(hs) + Len(chunk) + 1 # n + 1
    BY <1>2, <1>3, <1>4
  <2> QED
    BY <1>2, <1>4, <2>1, SymbolsMade DEF FrontByte
<1>6. /\ hs' \in Seq(Symbols) /\ chunk' \in Seq(Symbols) /\ Len(chunk') <= ChunkSize
      /\ Text(n)' /\ Counted'
      /\ Len(hs') \in Nat /\ Len(chunk') \in Nat \ {0}
      /\ Len(hs') + Len(chunk') = Len(hs) + Len(chunk) + 1
      /\ \/ Len(chunk) < ChunkSize /\ Len(hs') = Len(hs) /\ Len(chunk') = Len(chunk) + 1
         \/ Len(chunk) = ChunkSize /\ Len(hs') = Len(hs) + ChunkSize /\ Len(chunk') = 1
  BY <1>1, <1>2, <1>5, OverflowAppends
<1>7. Types'
  <2>1. turns' \in Nat
    BY <1>1
  <2> QED
    BY <1>1, <1>6, <2>1 DEF Types
<1>8. Padding'
  <2>1. message' = n /\ n + 1 <= Len(hs') + Len(chunk') /\ total' = BitsOf(n)
    BY <1>1, <1>2, <1>3, <1>4, <1>6
  <2>2. Text(message)'
    BY <1>6, <2>1 DEF Text
  <2>3. PICK p : p = PaddedSize(n) /\ p = Len(hs) + 2 * ChunkSize
    BY <1>2, <1>4
  <2>4. /\ turns' = 0 => Len(chunk') <= ChunkSize - LengthSize /\ p = Len(hs') + ChunkSize
        /\ turns' > 0 => Len(chunk') + turns' = ChunkSize + 1 /\ p = Len(hs') + 2 * ChunkSize
    <3>1. PICK a \in Nat, c \in 0 .. ChunkSize, a1 \in Nat, c1 \in Nat, t \in Nat :
            a = Len(hs) /\ c = Len(chunk) /\ a1 = Len(hs') /\ c1 = Len(chunk') /\ t = turns
      BY <1>1, <1>3, <1>6
    <3>2. /\ t > 0 /\ c + t = ChunkSize + 1 /\ p = a + 2 * ChunkSize /\ turns' = t - 1
          /\ \/ c < ChunkSize /\ a1 = a /\ c1 = c + 1
             \/ c = ChunkSize /\ a1 = a + ChunkSize /\ c1 = 1
      BY <1>1, <1>2, <1>6, <2>3, <3>1
    <3>3. /\ t - 1 = 0 => c1 <= ChunkSize - LengthSize /\ p = a1 + ChunkSize
          /\ t - 1 > 0 => c1 + (t - 1) = ChunkSize + 1 /\ p = a1 + 2 * ChunkSize
      BY <3>2, SizesTypes
    <3> QED
      BY <3>1, <3>2, <3>3
  <2> QED
    BY <1>1, <1>2, <1>6, <2>1, <2>2, <2>3, <2>4 DEF Padding
<1>9. Taking' /\ DigestOfMessage'
  BY <1>1, <1>2 DEF Taking, DigestOfMessage
<1> QED
  BY <1>7, <1>8, <1>9 DEF IInv

LEMMA PaddedFunction ==
  ASSUME NEW n
  PROVE  Padded(n) = [g \in 1 .. PaddedSize(n) |-> Padded(n)[g]]
<1> DEFINE end == PaddedSize(n) - LengthSize
           At(g) == CASE g <= n -> Byte(g)
                      [] g = n + 1 -> Mark
                      [] g > n + 1 /\ g <= end -> ZeroByte
                      [] g > end -> LengthByte(<<(8 * n) \div WordBase, (8 * n) % WordBase>>, g - end)
<1>1. Padded(n) = [g \in 1 .. PaddedSize(n) |-> At(g)]
  BY DEF Padded
<1> HIDE DEF At
<1>2. \A g \in 1 .. PaddedSize(n) : Padded(n)[g] = At(g)
  BY <1>1
<1> QED
  BY <1>1, <1>2

\* finish() ends the message with its length, where the standard wants it.
LEMMA LengthKeeps == ASSUME IInv, FinishLength PROVE IInv'
<1> DEFINE f[j \in 1 .. ChunkSize] ==
             CASE j > ChunkSize - LengthSize -> LengthByte(total, j - (ChunkSize - LengthSize))
               [] j <= Len(chunk) /\ j <= ChunkSize - LengthSize -> chunk[j]
               [] OTHER -> ZeroByte
           front == ChunkSize - LengthSize
<1>1. /\ at = "zeros" /\ turns = 0 /\ message \in Nat /\ Types
      /\ ProcessChunk(f) /\ at' = "open" /\ finished' = TRUE
      /\ UNCHANGED <<chunk, total, turns, bad, message, late>>
  BY DEF IInv, Types, FinishLength
<1>2. /\ Counted /\ Text(message) /\ total = BitsOf(message)
      /\ message + 1 <= Len(hs) + Len(chunk) /\ Len(chunk) <= front
      /\ PaddedSize(message) = Len(hs) + ChunkSize
  BY <1>1 DEF IInv, Padding
<1>3. /\ hs \in Seq(Symbols) /\ chunk \in Seq(Symbols) /\ Len(hs) \in Nat /\ Len(chunk) \in Nat
      /\ front \in Nat /\ front < ChunkSize /\ ChunkSize \in Nat
  BY <1>1, LenProperties, SizesTypes DEF Types
<1>4. PICK h \in Nat, l \in Nat : total = <<h, l>>
  <2>1. 8 * message \in Nat
    BY <1>1
  <2>2. (8 * message) \div WordBase \in Nat /\ (8 * message) % WordBase \in Nat
    BY <2>1, SizesTypes
  <2> QED
    BY <1>2, <2>2 DEF BitsOf
<1>5. /\ \A j \in 1 .. ChunkSize : j > front => f[j] = LengthByte(total, j - front)
      /\ \A j \in 1 .. ChunkSize : j <= front /\ j <= Len(chunk) => f[j] = chunk[j]
      /\ \A j \in 1 .. ChunkSize : j <= front /\ j > Len(chunk) => f[j] = ZeroByte
  BY <1>3
<1>6. DOMAIN f = 1 .. ChunkSize
  OBVIOUS
<1> HIDE DEF f
<1>7. f \in Seq(Symbols) /\ Len(f) = ChunkSize
  <2>1. ASSUME NEW j \in 1 .. ChunkSize PROVE f[j] \in Symbols
    <3>1. CASE j > front
      <4>1. j - front \in Nat
        BY <1>3, <3>1
      <4>2. LengthByte(<<h, l>>, j - front) \in Symbols
        BY <4>1 DEF Symbols
      <4> QED
        BY <1>4, <1>5, <3>1, <4>2
    <3>2. CASE j <= front /\ j <= Len(chunk)
      <4>1. j \in 1 .. Len(chunk)
        BY <1>3, <3>2
      <4>2. chunk[j] \in Symbols
        BY <1>3, <4>1, ElementOfSeq
      <4> QED
        BY <1>5, <3>2, <4>2
    <3>3. CASE j <= front /\ j > Len(chunk)
      BY <1>5, <3>3, SymbolsMade
    <3> QED
      BY <1>3, <3>1, <3>2, <3>3
  <2>2. f = [j \in 1 .. ChunkSize |-> f[j]]
    BY DEF f
  <2>3. ChunkSize \in Nat
    BY <1>3
  <2>4. f \in [1 .. ChunkSize -> Symbols]
    BY <2>1, <2>2, Zenon
  <2> QED
    BY <2>3, <2>4
<1>8. /\ hs' \in Seq(Symbols) /\ Len(hs') = Len(hs) + ChunkSize
      /\ \A g \in 1 .. Len(hs) : hs'[g] = hs[g]
      /\ \A j \in 1 .. ChunkSize : hs'[Len(hs) + j] = f[j]
  BY <1>1, <1>3, <1>7, Compressed
<1>9. PICK n \in Nat, a \in Nat, p \in Nat :
        /\ n = message /\ a = Len(hs) /\ p = PaddedSize(message) /\ p = a + ChunkSize
        /\ n + 1 <= a + Len(chunk)
  BY <1>1, <1>2, <1>3
<1>10. ASSUME NEW g \in 1 .. p PROVE hs'[g] = Padded(n)[g]
  <2> DEFINE end == p - LengthSize
  <2>1. end = a + front /\ end \in Nat
    BY <1>3, <1>9, SizesTypes
  <2>2. Padded(n)[g] = CASE g <= n -> Byte(g)
                         [] g = n + 1 -> Mark
                         [] g > n + 1 /\ g <= end -> ZeroByte
                         [] g > end -> LengthByte(BitsOf(n), g - end)
    BY <1>9 DEF Padded, BitsOf
  <2>3. n + 1 <= end
    BY <1>2, <1>3, <1>9, <2>1
  <2> HIDE DEF end
  <2>4. /\ g <= end => Padded(n)[g] = FrontByte(n, g)
        /\ g > end => Padded(n)[g] = LengthByte(BitsOf(n), g - end)
    BY <2>1, <2>2, <2>3 DEF FrontByte
  <2>5. CASE g <= a
    <3>1. hs'[g] = hs[g] /\ hs[g] = FrontByte(n, g)
      BY <1>2, <1>8, <1>9, <2>5 DEF Text
    <3>2. g <= end
      BY <1>3, <2>1, <2>5
    <3> QED
      BY <2>4, <3>1, <3>2
  <2>6. CASE g > a
    <3>1. PICK j \in 1 .. ChunkSize : g = a + j
      <4>1. g - a \in 1 .. ChunkSize /\ g = a + (g - a)
        BY <1>3, <1>9, <2>6
      <4> QED
        BY <4>1
    <3>2. hs'[g] = f[j]
      BY <1>8, <1>9, <3>1
    <3>3. CASE j > front
      <4>1. g > end /\ g - end = j - front
        BY <1>3, <2>1, <3>1, <3>3
      <4> QED
        BY <1>2, <1>5, <1>9, <2>4, <3>2, <3>3, <4>1
    <3>4. CASE j <= front /\ j <= Len(chunk)
      <4>1. j \in 1 .. Len(chunk) /\ g <= end
        BY <1>3, <2>1, <3>1, <3>4
      <4>2. chunk[j] = FrontByte(n, g)
        BY <1>2, <1>9, <3>1, <4>1 DEF Text
      <4> QED
        BY <1>5, <2>4, <3>2, <3>4, <4>1, <4>2
    <3>5. CASE j <= front /\ j > Len(chunk)
      <4>1. g <= end /\ g > n + 1
        BY <1>3, <1>9, <2>1, <3>1, <3>5
      <4>2. FrontByte(n, g) = ZeroByte
        BY <4>1 DEF FrontByte
      <4> QED
        BY <1>5, <2>4, <3>2, <3>5, <4>1, <4>2
    <3> QED
      BY <1>3, <3>3, <3>4, <3>5
  <2> QED
    BY <2>5, <2>6
<1>11. hs' = Padded(n)
  <2>1. Padded(n) = [g \in 1 .. p |-> Padded(n)[g]]
    BY <1>9, PaddedFunction
  <2>2. hs' = [g \in 1 .. p |-> hs'[g]]
    BY <1>3, <1>8, <1>9
  <2> QED
    BY <1>10, <2>1, <2>2
<1>12. Types'
  BY <1>1, <1>8 DEF Types
<1>13. DigestOfMessage'
  BY <1>1, <1>9, <1>11 DEF DigestOfMessage
<1>14. Taking' /\ Padding'
  BY <1>1 DEF Taking, Padding
<1> QED
  BY <1>12, <1>13, <1>14 DEF IInv

\* What is put behind the digest goes into the buffer only.
LEMMA LateKeeps == ASSUME IInv, ShaPutLate PROVE IInv'
<1>1. /\ at = "open" /\ finished /\ Types
      /\ UNCHANGED <<at, hs, size, total, turns, finished, message>> /\ late' = late + 1
      /\ \/ Len(chunk) < ChunkSize /\ chunk' = Append(chunk, Byte(message + late + 1))
         \/ chunk' = chunk
  BY DEF IInv, ShaPutLate
<1>2. chunk' \in Seq(Symbols) /\ Len(chunk') <= ChunkSize
  <2>1. Byte(message + late + 1) \in Symbols
    <3>1. message + late + 1 \in Nat
      BY <1>1 DEF Types
    <3> QED
      BY <3>1, SymbolsMade
  <2>2. /\ Append(chunk, Byte(message + late + 1)) \in Seq(Symbols)
        /\ Len(Append(chunk, Byte(message + late + 1))) = Len(chunk) + 1
    BY <1>1, <2>1, AppendProperties DEF Types
  <2>3. Len(chunk) \in Nat /\ ChunkSize \in Nat
    BY <1>1, SizesTypes, LenProperties DEF Types
  <2> QED
    BY <1>1, <2>2, <2>3 DEF Types
<1>3. Types'
  BY <1>1, <1>2 DEF Types
<1>4. Taking' /\ Padding' /\ DigestOfMessage'
  BY <1>1 DEF IInv, Taking, Padding, DigestOfMessage
<1> QED
  BY <1>3, <1>4 DEF IInv

\* A new buffer.
Empty ==
  /\ at = "open" /\ hs = <<>> /\ chunk = <<>> /\ size = <<0, 0>> /\ finished = FALSE
  /\ message = 0 /\ late = 0 /\ turns \in Nat

LEMMA EmptyIInv == Empty => IInv
<1> SUFFICES ASSUME Empty PROVE IInv
  OBVIOUS
<1>1. /\ at = "open" /\ hs = <<>> /\ chunk = <<>> /\ size = <<0, 0>> /\ finished = FALSE
      /\ message = 0 /\ late = 0 /\ turns \in Nat
  BY DEF Empty
<1>2. <<>> \in Seq(Symbols) /\ Len(<<>>) = 0
  OBVIOUS
<1>3. Types
  <2>1. chunk \in Seq(Symbols) /\ hs \in Seq(Symbols)
    BY <1>1, <1>2
  <2>2. Len(chunk) <= ChunkSize
    BY <1>1, <1>2, SizesTypes
  <2>3. /\ at \in {"open", "zeros"} /\ finished \in BOOLEAN
        /\ turns \in Nat /\ message \in Nat /\ late \in Nat
    BY <1>1
  <2> QED
    BY <2>1, <2>2, <2>3 DEF Types
<1>4. Counted
  <2>1. <<0, 0>> = BitsOf(0) /\ ChunkSize * 0 = 0
    BY SizesTypes DEF BitsOf
  <2> QED
    BY <1>1, <1>2, <2>1 DEF Counted
<1>5. Text(message)
  BY <1>1, <1>2 DEF Text
<1>6. Taking /\ Padding /\ DigestOfMessage
  BY <1>1, <1>2, <1>4, <1>5 DEF Taking, Padding, DigestOfMessage
<1> QED
  BY <1>3, <1>6 DEF IInv

LEMMA ResetKeeps == ASSUME IInv, ShaReset PROVE IInv'
<1>1. Empty'
  BY DEF IInv, Types, ShaReset, Empty
<1>2. Empty' => IInv'
  BY EmptyIInv, PTL
<1> QED
  BY <1>1, <1>2

LEMMA InitIInv == ShaInit => IInv
BY EmptyIInv DEF ShaInit, Empty

LEMMA NextKeeps == IInv /\ [ShaNext]_shaVars => IInv'
<1> SUFFICES ASSUME IInv, [ShaNext]_shaVars PROVE IInv'
  OBVIOUS
<1>1. CASE UNCHANGED shaVars
  <2>1. UNCHANGED <<at, chunk, hs, size, total, turns, finished, message, late>>
    BY <1>1 DEF shaVars
  <2> QED
    BY <2>1 DEF IInv, Types, Taking, Padding, Counted, Text, DigestOfMessage
<1> QED
  BY <1>1, PutKeeps, LateKeeps, FinishKeeps, ZeroKeeps, LengthKeeps, ResetKeeps DEF ShaNext

\* At every moment what was compressed and what is buffered are the message
\* the stream took since the last reset, padded as far as finish() has come.
THEOREM Invariance == ShaSpec => []IInv
BY InitIInv, NextKeeps, PTL DEF ShaSpec

\* The digest of sha2_base_streambuf is that of the message padded as FIPS
\* 180-4 says, for every size of the message: where the mark or the length do
\* not fit into the last chunk, and where the count of bits carries.
THEOREM DigestOfMessageHolds == ShaSpec => []DigestOfMessage
<1>1. IInv => DigestOfMessage
  BY DEF IInv
<1> QED
  BY <1>1, Invariance, PTL

-----------------------------------------------------------------------------
(* Types, with the bounds of the model.                                    *)

Counts ==
  /\ size \in Nat \X (0 .. WordBase - 1) /\ total \in Nat \X (0 .. WordBase - 1)
  /\ turns \in 0 .. ChunkSize /\ bad \in BOOLEAN
  /\ message \in 0 .. MaxBytes /\ late \in 0 .. MaxLate

LEMMA PlusBitsType ==
  ASSUME NEW s \in Nat \X (0 .. WordBase - 1), NEW n \in Nat
  PROVE  PlusBits(s, n) \in Nat \X (0 .. WordBase - 1)
<1>1. PICK h \in Nat, l \in 0 .. WordBase - 1 : s = <<h, l>>
  OBVIOUS
<1>2. (l + n) % WordBase \in 0 .. WordBase - 1
  <2>1. l + n \in Nat
    BY SizesTypes
  <2> QED
    BY <2>1, SizesTypes
<1>3. PlusBits(s, n) = <<IF WordBase - 1 - l < n THEN h + 1 ELSE h, (l + n) % WordBase>>
  BY <1>1 DEF PlusBits
<1>4. (IF WordBase - 1 - l < n THEN h + 1 ELSE h) \in Nat
  OBVIOUS
<1> QED
  BY <1>2, <1>3, <1>4

LEMMA WholeChunks == IInv => Len(hs) % ChunkSize = 0
<1> SUFFICES ASSUME IInv PROVE Len(hs) % ChunkSize = 0
  OBVIOUS
<1>1. PICK k \in Nat : Len(hs) = ChunkSize * k
  <2>1. CASE ~finished
    <3>1. Counted
      BY <2>1 DEF IInv, Types, Taking, Padding
    <3> QED
      BY <3>1 DEF Counted
  <2>2. CASE finished
    <3>1. hs = Padded(message) /\ message \in Nat
      BY <2>2 DEF IInv, DigestOfMessage, Types
    <3>2. PICK q \in Nat : PaddedSize(message) = ChunkSize * q
      <4>1. message + LengthSize \in Nat
        BY <3>1, SizesTypes
      <4>2. (message + LengthSize) \div ChunkSize \in Nat
        BY <4>1, SizesTypes, DivMod
      <4>3. (message + LengthSize) \div ChunkSize + 1 \in Nat
        BY <4>2
      <4> QED
        BY <4>3 DEF PaddedSize
    <3>3. hs \in Seq(Symbols) /\ DOMAIN hs = 1 .. Len(hs) /\ Len(hs) \in Nat
      BY LenProperties DEF IInv, Types
    <3>4. DOMAIN hs = 1 .. PaddedSize(message)
      BY <3>1 DEF Padded
    <3>5. ChunkSize * q \in Nat
      BY SizesTypes
    <3> QED
      BY <3>2, <3>3, <3>4, <3>5
  <2> QED
    BY <2>1, <2>2 DEF IInv, Types
<1>2. (ChunkSize * k + 0) % ChunkSize = 0
  BY SizesTypes, DivUnique
<1>3. ChunkSize * k + 0 = ChunkSize * k
  BY SizesTypes
<1> QED
  BY <1>1, <1>2, <1>3

LEMMA Zeros == <<0, 0>> \in Nat \X (0 .. WordBase - 1) /\ 0 \in 0 .. ChunkSize
               /\ 0 \in 0 .. MaxBytes /\ 0 \in 0 .. MaxLate
<1>1. MaxBytes \in Nat /\ MaxLate \in Nat
  BY Sha2Assumption
<1>2. 0 \in 0 .. WordBase - 1 /\ 0 \in 0 .. ChunkSize
  BY SizesTypes
<1> QED
  BY <1>1, <1>2

LEMMA CountsInit == ShaInit => Counts
<1> SUFFICES ASSUME ShaInit PROVE Counts
  OBVIOUS
<1>1. size = <<0, 0>> /\ total = <<0, 0>> /\ turns = 0 /\ bad = FALSE /\ message = 0 /\ late = 0
  BY DEF ShaInit
<1>2. bad \in BOOLEAN
  BY <1>1
<1> QED
  BY <1>1, <1>2, Zeros, Zenon DEF Counts

LEMMA OverflowCounts ==
  ASSUME NEW b, size \in Nat \X (0 .. WordBase - 1), Overflow(b)
  PROVE  size' \in Nat \X (0 .. WordBase - 1)
<1>1. size' = size \/ size' = PlusBits(size, 8 * ChunkSize)
  BY DEF Overflow, ProcessChunk
<1>2. 8 * ChunkSize \in Nat
  BY SizesTypes
<1>3. PlusBits(size, 8 * ChunkSize) \in Nat \X (0 .. WordBase - 1)
  BY <1>2, PlusBitsType
<1> QED
  BY <1>1, <1>3

LEMMA CountsNext == IInv /\ Counts /\ [ShaNext]_shaVars => Counts'
<1> SUFFICES ASSUME IInv, Counts, [ShaNext]_shaVars PROVE Counts'
  OBVIOUS
<1>1. CASE ShaPut
  <2>1. size' \in Nat \X (0 .. WordBase - 1)
    BY <1>1, OverflowCounts DEF Counts, ShaPut
  <2>2. message' \in 0 .. MaxBytes
    BY <1>1, Sha2Assumption DEF Counts, ShaPut
  <2> QED
    BY <1>1, <2>1, <2>2 DEF Counts, ShaPut
<1>2. CASE ShaPutLate
  <2>1. late' \in 0 .. MaxLate /\ bad' \in BOOLEAN
    <3>1. late < MaxLate /\ late' = late + 1 /\ (bad' = FALSE \/ bad' = TRUE)
      BY <1>2 DEF ShaPutLate
    <3>2. late \in 0 .. MaxLate /\ MaxLate \in Nat
      BY Sha2Assumption DEF Counts
    <3>3. late' \in 0 .. MaxLate
      BY <3>1, <3>2
    <3> QED
      BY <3>1, <3>3
  <2> QED
    BY <1>2, <2>1 DEF Counts, ShaPutLate
<1>3. CASE Finish
  <2>1. Len(chunk) \in Nat /\ Len(chunk) <= ChunkSize
    BY LenProperties DEF IInv, Types
  <2>2. size' \in Nat \X (0 .. WordBase - 1)
    BY <1>3, OverflowCounts DEF Counts, Finish
  <2>3. total' \in Nat \X (0 .. WordBase - 1)
    <3>1. total' = PlusBits(size, 8 * Len(chunk)) /\ 8 * Len(chunk) \in Nat
      BY <1>3, <2>1 DEF Finish
    <3> QED
      BY <3>1, PlusBitsType DEF Counts
  <2>4. turns' \in 0 .. ChunkSize
    <3>1. turns' = ChunkSize - Len(chunk) \/ turns' = 0
      BY <1>3 DEF Finish
    <3> QED
      BY <2>1, <3>1, SizesTypes
  <2> QED
    BY <1>3, <2>2, <2>3, <2>4 DEF Counts, Finish
<1>4. CASE FinishZero
  <2>1. size' \in Nat \X (0 .. WordBase - 1)
    BY <1>4, OverflowCounts DEF Counts, FinishZero
  <2>2. turns' \in 0 .. ChunkSize
    BY <1>4, SizesTypes DEF Counts, FinishZero
  <2> QED
    BY <1>4, <2>1, <2>2 DEF Counts, FinishZero
<1>5. CASE FinishLength
  <2>1. size' = PlusBits(size, 8 * ChunkSize) /\ 8 * ChunkSize \in Nat
    BY <1>5, SizesTypes DEF FinishLength, ProcessChunk
  <2>2. size' \in Nat \X (0 .. WordBase - 1)
    BY <2>1, PlusBitsType DEF Counts
  <2> QED
    BY <1>5, <2>2 DEF Counts, FinishLength
<1>6. CASE ShaReset
  BY <1>6, Zeros DEF Counts, ShaReset
<1>7. CASE UNCHANGED shaVars
  BY <1>7 DEF Counts, shaVars
<1> QED
  BY <1>1, <1>2, <1>3, <1>4, <1>5, <1>6, <1>7 DEF ShaNext

\* The variables keep their types: the buffer is never longer than a chunk,
\* whole chunks are compressed, and the low words of sizes stay below WordBase.
THEOREM TypeCorrect == ShaSpec => []ShaTypeOK
<1>1. IInv /\ Counts => ShaTypeOK
  BY WholeChunks DEF IInv, Types, Counts, ShaTypeOK
<1>2. ShaSpec => []Counts
  BY CountsInit, CountsNext, Invariance, PTL DEF ShaSpec
<1> QED
  BY <1>1, <1>2, Invariance, PTL

-----------------------------------------------------------------------------
(* The digests of passwords.                                               *)

Pieces == {"password", "salt", "digest_b"} \X Nat

\* The text of a setting, and what bcrypt_sha() makes of a setting it takes.
TextOf(c, r, s) == (IF c THEN <<RoundsPrefix, <<"num", r>>, Dollar>> ELSE <<>>) \o s

Kept(c, r, s) ==
  /\ c \in BOOLEAN /\ r \in MinRound .. MaxRound /\ s \in Seq(Tokens)
  /\ s # <<>> /\ Len(s) <= MaxSaltSize
  /\ ~c => r = DefaultRound /\ s[1] # RoundsPrefix

\* Where the two loops are: the phase and the counter, what they append there,
\* and where they are then.
Places == {"blocks", "bits"} \X Nat
Over == <<"bits", 0>>

Piece(x, n) ==
  IF x[1] = "blocks" THEN <<"digest_b", IF x[2] > HashSize THEN HashSize ELSE n % HashSize>>
  ELSE IF x[2] % 2 = 0 THEN <<"password", n>> ELSE <<"digest_b", HashSize>>

After(x, n) ==
  IF x[1] = "bits" THEN <<"bits", x[2] \div 2>>
  ELSE IF x[2] > HashSize THEN <<"blocks", x[2] - HashSize>> ELSE <<"bits", n>>

\* tr says where the loops were behind each of the pieces b.
Traced(b, n, l, tr) ==
  /\ b \in Seq(Pieces) /\ tr \in [Nat -> Places] /\ Len(b) >= 2
  /\ b[1] = <<"password", n>> /\ b[2] = <<"salt", l>> /\ tr[2] = <<"blocks", n>>
  /\ \A j \in 2 .. Len(b) - 1 :
       tr[j] # Over /\ b[j + 1] = Piece(tr[j], n) /\ tr[j + 1] = After(tr[j], n)

Ended(b, n, l, tr) == Traced(b, n, l, tr) /\ tr[Len(b)] = Over

\* Where bcrypt_sha() is now.
Place == IF step = "rounds" THEN Over ELSE <<step, i>>
Looping == step \in {"blocks", "bits", "rounds"}

BcryptTypes ==
  /\ step \in {"idle", "salt", "blocks", "bits", "rounds", "failed"} /\ checking \in BOOLEAN
  /\ inputSalt \in Seq(Tokens) /\ password[2] \in Nat /\ madeOf[2] \in Nat
  /\ i \in Nat /\ round \in Nat /\ answer \in {"none", "yes", "no"}
  /\ Looping => Kept(customRound, round, salt) /\ (step = "rounds" => i <= round)

\* The buffer is the one the loops make, as far as they are.
Growing ==
  Looping => \E tr : Traced(buf, password[2], Len(salt), tr) /\ tr[Len(buf)] = Place

\* A digest is one the steps end with.
DigestOf(c, r, s, b) ==
  [text |-> TextOf(c, r, s) \o <<Dollar>>,
   hash |-> [buf |-> b, salt |-> s, password |-> madeOf, round |-> r]]

Stored ==
  digest # NoDigest =>
    \E c, r, s, b, tr : Kept(c, r, s) /\ Ended(b, madeOf[2], Len(s), tr) /\ digest = DigestOf(c, r, s, b)

\* A digest is made before one is checked.
Making ==
  /\ digest = NoDigest => ~checking /\ answer = "none" /\ (step # "idle" => password = madeOf)
  /\ digest # NoDigest /\ step # "idle" => checking /\ answer = "none"
  /\ step = "failed" => ~checking

\* b goes along with the digest d that is checked.
Follows(b, x, d, n, l) ==
  \E tr : /\ Ended(d, n, l, tr) /\ Len(b) \in 2 .. Len(d)
          /\ \A j \in 1 .. Len(b) : b[j] = d[j]
          /\ tr[Len(b)] = x

\* A check finds the setting of the digest, and then makes what it was made of.
Repeating ==
  digest # NoDigest =>
    /\ step = "salt" => digest.text = inputSalt \o <<Dollar>>
    /\ Looping =>
         /\ digest.text = TextOf(customRound, round, salt) \o <<Dollar>>
         /\ digest.hash.salt = salt /\ digest.hash.round = round
         /\ password = madeOf =>
              Follows(buf, Place, digest.hash.buf, password[2], Len(salt))
    /\ answer # "none" => (answer = "yes" <=> password = madeOf)

BcryptInv == BcryptTypes /\ Growing /\ Stored /\ Making /\ Repeating

LEMMA BcryptSizes ==
  /\ HashSize \in Nat \ {0} /\ MaxSaltSize \in Nat \ {0}
  /\ MinRound \in Nat /\ DefaultRound \in Nat /\ MaxRound \in Nat
  /\ MinRound <= DefaultRound /\ DefaultRound <= MaxRound
  /\ (\A s \in Settings : s \in Seq(Tokens)) /\ (\A pw \in Passwords : pw[2] \in Nat)
BY BcryptAssumption

LEMMA LesserOfTwo ==
  ASSUME NEW a \in Nat, NEW b \in Nat
  PROVE  Min({a, b}) \in Nat /\ Min({a, b}) <= a /\ Min({a, b}) <= b
         /\ (Min({a, b}) = a \/ Min({a, b}) = b)
<1>1. \E x \in {a, b} : \A y \in {a, b} : x <= y
  <2>1. CASE a <= b
    BY <2>1
  <2>2. CASE ~(a <= b)
    BY <2>2
  <2> QED
    BY <2>1, <2>2
<1>2. Min({a, b}) \in {a, b} /\ \A y \in {a, b} : Min({a, b}) <= y
  BY <1>1, Zenon DEF Min
<1> QED
  BY <1>2

LEMMA TokensMade ==
  /\ RoundsPrefix \in Tokens /\ Dollar \in Tokens /\ RoundsPrefix # Dollar
  /\ \A r \in Nat : <<"num", r>> \in Tokens
  /\ \A k \in Nat : <<"random", k>> \in Tokens /\ <<"random", k>> # RoundsPrefix
<1>1. RoundsPrefix \in Tokens /\ Dollar \in Tokens
  BY DEF Tokens, RoundsPrefix, Dollar
<1>2. RoundsPrefix[1] = "rounds=" /\ Dollar[1] = "$" /\ "rounds=" # "$"
  BY DEF RoundsPrefix, Dollar
<1>3. ASSUME NEW r \in Nat PROVE <<"num", r>> \in Tokens
  BY DEF Tokens
<1>4. ASSUME NEW k \in Nat PROVE <<"random", k>> \in Tokens
  BY DEF Tokens
<1>5. ASSUME NEW k \in Nat PROVE <<"random", k>> # RoundsPrefix
  <2>1. <<"random", k>>[1] = "random" /\ "random" # "rounds="
    OBVIOUS
  <2> QED
    BY <1>2, <2>1, Zenon
<1> QED
  BY <1>1, <1>2, <1>3, <1>4, <1>5, Zenon

LEMMA JoinFacts ==
  ASSUME NEW S, NEW s \in Seq(S), NEW t \in Seq(S)
  PROVE  /\ s \o t \in Seq(S) /\ Len(s \o t) = Len(s) + Len(t) /\ Len(s) \in Nat /\ Len(t) \in Nat
         /\ \A n \in 1 .. Len(s) : (s \o t)[n] = s[n]
         /\ \A n \in 1 .. Len(t) : (s \o t)[Len(s) + n] = t[n]
<1>1. s \o t \in Seq(S) /\ Len(s \o t) = Len(s) + Len(t) /\ Len(s) \in Nat /\ Len(t) \in Nat
  BY ConcatProperties, LenProperties
<1>2. ASSUME NEW n \in 1 .. Len(s) PROVE (s \o t)[n] = s[n]
  <2>1. n \in 1 .. Len(s) + Len(t) /\ n <= Len(s)
    BY <1>1
  <2> QED
    BY <2>1, ConcatProperties
<1>3. ASSUME NEW n \in 1 .. Len(t) PROVE (s \o t)[Len(s) + n] = t[n]
  <2>1. Len(s) + n \in 1 .. Len(s) + Len(t) /\ ~(Len(s) + n <= Len(s)) /\ Len(s) + n - Len(s) = n
    BY <1>1
  <2> QED
    BY <2>1, ConcatProperties
<1> QED
  BY <1>1, <1>2, <1>3

\* The text in front of the last "$" is found again.
LEMMA FrontAgain ==
  ASSUME NEW S, NEW t \in Seq(S), NEW x \in S
  PROVE  Front(t \o <<x>>) = t
<1>1. PICK u, y : u = t \o y /\ y = <<x>>
  OBVIOUS
<1>2. PICK l \in Nat : l = Len(t)
  BY LenProperties
<1>3. y \in Seq(S) /\ Len(y) = 1
  BY <1>1
<1>4. u \in Seq(S) /\ Len(u) = l + 1 /\ \A n \in 1 .. l : u[n] = t[n]
  <2>1. t \o y \in Seq(S) /\ Len(t \o y) = Len(t) + Len(y)
    BY <1>3, JoinFacts
  <2>2. \A n \in 1 .. Len(t) : (t \o y)[n] = t[n]
    BY <1>3, JoinFacts
  <2> QED
    BY <1>1, <1>2, <1>3, <2>1, <2>2, Zenon
<1>5. PICK v : v = SubSeq(u, 1, l)
  OBVIOUS
<1>6. v \in Seq(S) /\ Len(v) = l /\ \A n \in 1 .. l : v[n] = u[n]
  BY <1>4, <1>5
<1>7. v = t
  BY <1>2, <1>4, <1>6, SeqEqual
<1>8. (l + 1) - 1 = l
  OBVIOUS
<1> QED
  BY <1>1, <1>4, <1>5, <1>7, <1>8, Zenon DEF Front

\* What the text of a digest begins with.
LEMMA TextFacts ==
  ASSUME NEW c, NEW r, NEW s, Kept(c, r, s)
  PROVE  /\ TextOf(c, r, s) \in Seq(Tokens) /\ Len(s) \in Nat /\ r \in Nat
         /\ c => /\ Len(TextOf(c, r, s)) = Len(s) + 3
                 /\ TextOf(c, r, s)[1] = RoundsPrefix /\ TextOf(c, r, s)[2] = <<"num", r>>
                 /\ TextOf(c, r, s)[3] = Dollar
                 /\ \A n \in 1 .. Len(s) : TextOf(c, r, s)[n + 3] = s[n]
         /\ ~c => TextOf(c, r, s) = s
<1>1. s \in Seq(Tokens) /\ Len(s) \in Nat /\ r \in Nat
  BY LenProperties, BcryptSizes DEF Kept
<1>2. CASE ~c
  <2>1. TextOf(c, r, s) = <<>> \o s
    BY <1>2, Zenon DEF TextOf
  <2>2. <<>> \o s = s
    BY <1>1, ConcatEmptySeq
  <2> QED
    BY <1>1, <1>2, <2>1, <2>2, Zenon
<1>3. CASE c
  <2>1. PICK h : h = <<RoundsPrefix, <<"num", r>>, Dollar>>
    OBVIOUS
  <2>2. h \in Seq(Tokens) /\ Len(h) = 3 /\ h[1] = RoundsPrefix /\ h[2] = <<"num", r>> /\ h[3] = Dollar
    <3>1. RoundsPrefix \in Tokens /\ <<"num", r>> \in Tokens /\ Dollar \in Tokens
      BY <1>1, TokensMade
    <3> QED
      BY <2>1, <3>1
  <2>3. TextOf(c, r, s) = h \o s
    BY <1>3, <2>1, Zenon DEF TextOf
  <2>4. PICK u : u = h \o s
    OBVIOUS
  <2>5. /\ u \in Seq(Tokens) /\ Len(u) = Len(h) + Len(s)
        /\ \A n \in 1 .. Len(h) : u[n] = h[n]
        /\ \A n \in 1 .. Len(s) : u[Len(h) + n] = s[n]
    <3>0. h \in Seq(Tokens) /\ s \in Seq(Tokens)
      BY <1>1, <2>2, Zenon
    <3>1. h \o s \in Seq(Tokens) /\ Len(h \o s) = Len(h) + Len(s)
      BY <3>0, JoinFacts
    <3>2. \A n \in 1 .. Len(h) : (h \o s)[n] = h[n]
      BY <3>0, JoinFacts
    <3>3. \A n \in 1 .. Len(s) : (h \o s)[Len(h) + n] = s[n]
      BY <3>0, JoinFacts
    <3> QED
      BY <2>4, <3>1, <3>2, <3>3, Zenon
  <2>6. 1 \in 1 .. Len(h) /\ 2 \in 1 .. Len(h) /\ 3 \in 1 .. Len(h)
    BY <2>2
  <2>7. Len(u) = Len(s) + 3 /\ u[1] = RoundsPrefix /\ u[2] = <<"num", r>> /\ u[3] = Dollar
    <3>1. 3 + Len(s) = Len(s) + 3
      BY <1>1
    <3> QED
      BY <2>2, <2>5, <2>6, <3>1, Zenon
  <2>8. \A n \in 1 .. Len(s) : u[n + 3] = s[n]
    <3>1. ASSUME NEW n \in 1 .. Len(s) PROVE u[n + 3] = s[n]
      <4>1. 3 + n = n + 3
        OBVIOUS
      <4> QED
        BY <2>2, <2>5, <4>1, Zenon
    <3> QED
      BY <3>1
  <2> QED
    BY <1>1, <1>3, <2>3, <2>4, <2>5, <2>7, <2>8, Zenon
<1> QED
  BY <1>2, <1>3 DEF Kept

-----------------------------------------------------------------------------
(* The loops over the blocks and the bits.                                 *)

LEMMA Halved == ASSUME NEW n \in Nat PROVE n \div 2 \in Nat
OBVIOUS

LEMMA Cut == ASSUME NEW n \in Nat PROVE n % HashSize \in Nat
BY BcryptSizes

LEMMA PieceTypes ==
  ASSUME NEW x \in Places, NEW n \in Nat
  PROVE  Piece(x, n) \in Pieces /\ After(x, n) \in Places
<1>1. PICK f \in {"blocks", "bits"}, k \in Nat : x = <<f, k>> /\ x[1] = f /\ x[2] = k
  BY DEF Places
<1>2. HashSize \in Nat /\ n % HashSize \in Nat /\ k \div 2 \in Nat
  BY BcryptSizes, Cut, Halved
<1>3. Piece(x, n) \in Pieces
  <2>1. <<"digest_b", HashSize>> \in Pieces /\ <<"digest_b", n % HashSize>> \in Pieces
        /\ <<"password", n>> \in Pieces
    BY <1>2 DEF Pieces
  <2>2. (IF x[2] > HashSize THEN HashSize ELSE n % HashSize) \in {HashSize, n % HashSize}
    OBVIOUS
  <2> QED
    BY <2>1, <2>2, Zenon DEF Piece
<1>4. After(x, n) \in Places
  <2>1. CASE f = "bits"
    <3>1. <<"bits", k \div 2>> \in Places
      BY <1>2 DEF Places
    <3> QED
      BY <1>1, <2>1, <3>1, Zenon DEF After
  <2>2. CASE f = "blocks" /\ k > HashSize
    <3>1. k - HashSize \in Nat /\ f # "bits"
      BY <1>2, <2>2
    <3>2. <<"blocks", k - HashSize>> \in Places
      BY <3>1 DEF Places
    <3> QED
      BY <1>1, <2>2, <3>1, <3>2, Zenon DEF After
  <2>3. CASE f = "blocks" /\ ~(k > HashSize)
    <3>1. <<"bits", n>> \in Places /\ f # "bits"
      BY <2>3 DEF Places
    <3> QED
      BY <1>1, <2>3, <3>1, Zenon DEF After
  <2> QED
    BY <2>1, <2>2, <2>3
<1> QED
  BY <1>3, <1>4

\* What the first two pieces are.
Start(n, l) == <<<<"password", n>>, <<"salt", l>>>>

LEMMA StartFacts ==
  ASSUME NEW n \in Nat, NEW l \in Nat
  PROVE  /\ Start(n, l) \in Seq(Pieces) /\ Len(Start(n, l)) = 2
         /\ Start(n, l)[1] = <<"password", n>> /\ Start(n, l)[2] = <<"salt", l>>
<1>1. <<"password", n>> \in Pieces /\ <<"salt", l>> \in Pieces
  BY DEF Pieces
<1> QED
  BY <1>1 DEF Start

LEMMA StartTrace ==
  ASSUME NEW n \in Nat, NEW l \in Nat
  PROVE  \E tr : Traced(Start(n, l), n, l, tr) /\ tr[Len(Start(n, l))] = <<"blocks", n>>
<1>1. PICK tr : tr = [j \in Nat |-> <<"blocks", n>>]
  OBVIOUS
<1>2. tr \in [Nat -> Places] /\ tr[2] = <<"blocks", n>>
  BY <1>1 DEF Places
<1>3. PICK b : b = Start(n, l)
  OBVIOUS
<1>4. /\ b \in Seq(Pieces) /\ Len(b) = 2
      /\ b[1] = <<"password", n>> /\ b[2] = <<"salt", l>>
  BY <1>3, StartFacts, Zenon
<1>5. 2 >= 2 /\ ~(\E j : j \in 2 .. 2 - 1)
  OBVIOUS
<1>6. Traced(b, n, l, tr)
  BY <1>2, <1>4, <1>5, Zenon DEF Traced
<1> QED
  BY <1>2, <1>3, <1>4, <1>6, Zenon

LEMMA MoreTrace ==
  ASSUME NEW n \in Nat, NEW l \in Nat, NEW b, NEW tr, Traced(b, n, l, tr), tr[Len(b)] # Over
  PROVE  LET b1 == Append(b, Piece(tr[Len(b)], n)) IN
         \E tr1 : Traced(b1, n, l, tr1) /\ tr1[Len(b1)] = After(tr[Len(b)], n)
<1>1. /\ b \in Seq(Pieces) /\ tr \in [Nat -> Places] /\ Len(b) >= 2
      /\ b[1] = <<"password", n>> /\ b[2] = <<"salt", l>> /\ tr[2] = <<"blocks", n>>
      /\ \A j \in 2 .. Len(b) - 1 :
           tr[j] # Over /\ b[j + 1] = Piece(tr[j], n) /\ tr[j + 1] = After(tr[j], n)
  BY DEF Traced
<1>2. PICK k \in Nat : k = Len(b) /\ k >= 2
  BY <1>1, LenProperties
<1>3. PICK x \in Places : x = tr[k] /\ x # Over
  BY <1>1, <1>2
<1>4. PICK p \in Pieces, y \in Places : p = Piece(x, n) /\ y = After(x, n)
  BY PieceTypes
<1>5. PICK b1, tr1 : b1 = Append(b, p) /\ tr1 = [tr EXCEPT ![k + 1] = y]
  OBVIOUS
<1>6. /\ b1 \in Seq(Pieces) /\ Len(b1) = k + 1 /\ b1[k + 1] = p
      /\ \A j \in 1 .. k : b1[j] = b[j]
  BY <1>1, <1>2, <1>5, AppendProperties
<1>7. /\ tr1 \in [Nat -> Places] /\ tr1[k + 1] = y
      /\ \A j \in Nat : j # k + 1 => tr1[j] = tr[j]
  BY <1>1, <1>2, <1>5
<1>8. ASSUME NEW j \in 2 .. (k + 1) - 1
      PROVE  tr1[j] # Over /\ b1[j + 1] = Piece(tr1[j], n) /\ tr1[j + 1] = After(tr1[j], n)
  <2>1. j \in Nat /\ j # k + 1 /\ j \in 1 .. k
    BY <1>2
  <2>2. CASE j = k
    <3>1. tr1[k] = x
      BY <1>3, <1>7, <2>1, <2>2, Zenon
    <3> QED
      BY <1>3, <1>4, <1>6, <1>7, <2>2, <3>1, Zenon
  <2>3. CASE j # k
    <3>1. j \in 2 .. k - 1 /\ j + 1 \in 1 .. k /\ j + 1 \in Nat /\ j + 1 # k + 1
      BY <2>1, <2>3
    <3>2. tr[j] # Over /\ b[j + 1] = Piece(tr[j], n) /\ tr[j + 1] = After(tr[j], n)
      BY <1>1, <1>2, <3>1, Zenon
    <3> QED
      BY <1>6, <1>7, <2>1, <3>1, <3>2, Zenon
  <2> QED
    BY <2>2, <2>3
<1>9. 1 \in 1 .. k /\ 2 \in 1 .. k /\ 2 \in Nat /\ 2 # k + 1 /\ k + 1 >= 2
  BY <1>2
<1>10. Traced(b1, n, l, tr1)
  BY <1>1, <1>6, <1>7, <1>8, <1>9, Zenon DEF Traced
<1> QED
  BY <1>2, <1>3, <1>4, <1>5, <1>6, <1>7, <1>10, Zenon

LEMMA StartFollows ==
  ASSUME NEW n \in Nat, NEW l \in Nat, NEW d, NEW tr, Ended(d, n, l, tr)
  PROVE  Follows(Start(n, l), <<"blocks", n>>, d, n, l)
<1>1. /\ d \in Seq(Pieces) /\ Len(d) >= 2
      /\ d[1] = <<"password", n>> /\ d[2] = <<"salt", l>> /\ tr[2] = <<"blocks", n>>
  BY DEF Ended, Traced
<1>2. PICK b : b = Start(n, l)
  OBVIOUS
<1>3. Len(b) = 2 /\ b[1] = <<"password", n>> /\ b[2] = <<"salt", l>>
  BY <1>2, StartFacts, Zenon
<1>4. 2 \in 2 .. Len(d)
  BY <1>1, LenProperties
<1>5. \A j \in 1 .. 2 : b[j] = d[j]
  <2>1. \A j \in 1 .. 2 : j = 1 \/ j = 2
    OBVIOUS
  <2> QED
    BY <1>1, <1>3, <2>1, Zenon
<1>6. Follows(b, <<"blocks", n>>, d, n, l)
  BY <1>1, <1>3, <1>4, <1>5, Zenon DEF Follows
<1> QED
  BY <1>2, <1>6, Zenon

LEMMA MoreFollows ==
  ASSUME NEW n \in Nat, NEW l \in Nat, NEW b \in Seq(Pieces), NEW d, NEW x,
         Follows(b, x, d, n, l), x # Over
  PROVE  Follows(Append(b, Piece(x, n)), After(x, n), d, n, l)
<1>1. PICK tr : /\ Ended(d, n, l, tr) /\ Len(b) \in 2 .. Len(d)
                /\ \A j \in 1 .. Len(b) : b[j] = d[j]
                /\ tr[Len(b)] = x
  BY DEF Follows
<1>2. /\ d \in Seq(Pieces) /\ tr \in [Nat -> Places] /\ tr[Len(d)] = Over
      /\ \A j \in 2 .. Len(d) - 1 :
           tr[j] # Over /\ d[j + 1] = Piece(tr[j], n) /\ tr[j + 1] = After(tr[j], n)
  BY <1>1 DEF Ended, Traced
<1>3. PICK k \in Nat, m \in Nat : k = Len(b) /\ m = Len(d)
  BY <1>2, LenProperties
<1>4. k \in 2 .. m - 1
  <2>1. k \in 2 .. m
    BY <1>1, <1>3, Zenon
  <2>2. k # m
    BY <1>1, <1>2, <1>3, Zenon
  <2> QED
    BY <2>1, <2>2
<1>5. tr[k] = x /\ d[k + 1] = Piece(x, n) /\ tr[k + 1] = After(x, n)
  BY <1>1, <1>2, <1>3, <1>4, Zenon
<1>6. x \in Places
  BY <1>2, <1>5
<1>7. PICK p \in Pieces : p = Piece(x, n)
  BY <1>6, PieceTypes
<1>8. PICK b1 : b1 = Append(b, p)
  OBVIOUS
<1>9. /\ Len(b1) = k + 1 /\ b1[k + 1] = p
      /\ \A j \in 1 .. k : b1[j] = b[j]
  BY <1>3, <1>8, AppendProperties
<1>10. ASSUME NEW j \in 1 .. k + 1 PROVE b1[j] = d[j]
  <2>1. CASE j = k + 1
    BY <1>5, <1>7, <1>9, <2>1, Zenon
  <2>2. CASE j # k + 1
    <3>1. j \in 1 .. k
      BY <2>2
    <3> QED
      BY <1>1, <1>3, <1>9, <3>1, Zenon
  <2> QED
    BY <2>1, <2>2
<1>11. k + 1 \in 2 .. m
  BY <1>4
<1>12. Follows(b1, After(x, n), d, n, l)
  BY <1>1, <1>3, <1>5, <1>9, <1>10, <1>11, Zenon DEF Follows
<1> QED
  BY <1>7, <1>8, <1>12, Zenon

LEMMA FollowsToTheEnd ==
  ASSUME NEW n, NEW l, NEW b \in Seq(Pieces), NEW d, Follows(b, Over, d, n, l)
  PROVE  b = d
<1>1. PICK tr : /\ Ended(d, n, l, tr) /\ Len(b) \in 2 .. Len(d)
                /\ \A j \in 1 .. Len(b) : b[j] = d[j]
                /\ tr[Len(b)] = Over
  BY DEF Follows
<1>2. /\ d \in Seq(Pieces)
      /\ \A j \in 2 .. Len(d) - 1 : tr[j] # Over
  BY <1>1 DEF Ended, Traced
<1>3. Len(b) = Len(d)
  <2>1. PICK k \in Nat, m \in Nat : k = Len(b) /\ m = Len(d)
    BY <1>2, LenProperties
  <2>2. k \in 2 .. m /\ k \notin 2 .. m - 1
    BY <1>1, <1>2, <2>1, Zenon
  <2>3. k = m
    BY <2>2
  <2> QED
    BY <2>1, <2>3, Zenon
<1> QED
  BY <1>1, <1>2, <1>3, SeqEqual

-----------------------------------------------------------------------------
(* The settings.                                                           *)

LEMMA TruncatedFacts ==
  ASSUME NEW S, NEW s \in Seq(S)
  PROVE  /\ Truncated(s) \in Seq(S) /\ Len(Truncated(s)) <= MaxSaltSize
         /\ Len(s) <= MaxSaltSize => Truncated(s) = s
         /\ Truncated(s) # <<>> => s # <<>> /\ Truncated(s)[1] = s[1]
<1>1. PICK l \in Nat, w \in Nat : l = Len(s) /\ w = MaxSaltSize
  BY LenProperties, BcryptSizes
<1>2. PICK m \in Nat : m = Min({l, w}) /\ m <= l /\ m <= w /\ (m = l \/ m = w)
  BY LesserOfTwo
<1>3. PICK t : t = SubSeq(s, 1, m)
  OBVIOUS
<1>4. Truncated(s) = t
  BY <1>1, <1>2, <1>3, Zenon DEF Truncated
<1>5. t \in Seq(S) /\ Len(t) = m /\ \A j \in 1 .. m : t[j] = s[j]
  <2>1. m \in 0 .. Len(s)
    BY <1>1, <1>2
  <2> QED
    BY <1>3, <2>1
<1>6. Len(t) <= MaxSaltSize
  BY <1>1, <1>2, <1>5
<1>7. ASSUME Len(s) <= MaxSaltSize PROVE t = s
  <2>1. m = l
    BY <1>1, <1>2, <1>7
  <2>2. Len(t) = Len(s) /\ \A j \in 1 .. Len(t) : t[j] = s[j]
    BY <1>1, <1>5, <2>1, Zenon
  <2> QED
    BY <1>5, <2>2, SeqEqual
<1>8. ASSUME t # <<>> PROVE s # <<>> /\ t[1] = s[1]
  <2>1. m # 0
    BY <1>5, <1>8, EmptySeq
  <2>2. 1 \in 1 .. m /\ l # 0
    BY <1>2, <2>1
  <2>3. Len(<<>>) = 0
    OBVIOUS
  <2> QED
    BY <1>1, <1>5, <2>2, <2>3, Zenon
<1> QED
  BY <1>4, <1>5, <1>6, <1>7, <1>8, Zenon

LEMMA RandomSaltFacts ==
  /\ RandomSalt \in Seq(Tokens) /\ RandomSalt # <<>> /\ Len(RandomSalt) <= MaxSaltSize
  /\ RandomSalt[1] # RoundsPrefix
<1>1. PICK w \in Nat \ {0} : w = MaxSaltSize
  BY BcryptSizes
<1>2. PICK t : t = [k \in 1 .. w |-> <<"random", k>>]
  OBVIOUS
<1>3. t = RandomSalt
  BY <1>1, <1>2, Zenon DEF RandomSalt
<1>4. \A k \in 1 .. w : k \in Nat /\ t[k] = <<"random", k>>
  BY <1>2
<1>5. t \in [1 .. w -> Tokens]
  <2>1. \A k \in 1 .. w : <<"random", k>> \in Tokens
    BY <1>4, TokensMade, Zenon
  <2> QED
    BY <1>2, <2>1, Zenon
<1>6. t \in Seq(Tokens) /\ Len(t) = w
  BY <1>5
<1>7. t # <<>> /\ Len(t) <= MaxSaltSize
  BY <1>1, <1>6
<1>8. t[1] # RoundsPrefix
  <2>1. 1 \in 1 .. w /\ 1 \in Nat
    BY <1>1
  <2> QED
    BY <1>4, <2>1, TokensMade, Zenon
<1> QED
  BY <1>3, <1>6, <1>7, <1>8, Zenon

\* The parts of ParseSalt by name.
IsCustom == inputSalt # <<>> /\ Head(inputSalt) = RoundsPrefix
DollarAt == 2 + NumberAfterPrefix
IsInvalid == IsCustom /\ (Len(inputSalt) < DollarAt \/ inputSalt[DollarAt] # Dollar)
SaltGiven == IF IsCustom THEN CustomSalt(DollarAt) ELSE Truncated(inputSalt)
NumberGiven == IF DollarAt = 3 THEN inputSalt[2][2] ELSE 0
Limited(n) == IF n < MinRound THEN MinRound ELSE IF n > MaxRound THEN MaxRound ELSE n

LEMMA ParsedFlat ==
  ASSUME ParseSalt
  PROVE  /\ step = "salt"
         /\ checking' = checking /\ inputSalt' = inputSalt /\ password' = password
         /\ digest' = digest /\ madeOf' = madeOf /\ answer' = answer
         /\ IsInvalid => /\ step' = "failed" /\ salt' = salt /\ round' = round
                         /\ customRound' = customRound /\ buf' = buf /\ i' = i
         /\ ~IsInvalid => /\ step' = "blocks" /\ customRound' = IsCustom
                          /\ round' = IF ~IsCustom THEN DefaultRound ELSE Limited(NumberGiven)
                          /\ salt' = IF SaltGiven = <<>> THEN RandomSalt ELSE SaltGiven
                          /\ buf' = Start(password[2], Len(salt')) /\ i' = password[2]
<1>1. /\ step = "salt" /\ checking' = checking /\ inputSalt' = inputSalt /\ password' = password
      /\ digest' = digest /\ madeOf' = madeOf /\ answer' = answer
  BY DEF ParseSalt
<1>2. ASSUME IsInvalid
      PROVE  /\ step' = "failed" /\ salt' = salt /\ round' = round
             /\ customRound' = customRound /\ buf' = buf /\ i' = i
  <2>1. step' = "failed" /\ UNCHANGED <<salt, round, customRound, buf, i>>
    BY <1>2, Zenon DEF ParseSalt, IsInvalid, IsCustom, DollarAt
  <2> QED
    BY <2>1
<1>3. ASSUME ~IsInvalid
      PROVE  /\ step' = "blocks" /\ customRound' = IsCustom
             /\ round' = IF ~IsCustom THEN DefaultRound ELSE Limited(NumberGiven)
             /\ salt' = IF SaltGiven = <<>> THEN RandomSalt ELSE SaltGiven
             /\ buf' = Start(password[2], Len(salt')) /\ i' = password[2]
  BY <1>3, Zenon DEF ParseSalt, IsInvalid, IsCustom, DollarAt, SaltGiven, NumberGiven, Limited, Start
<1> QED
  BY <1>1, <1>2, <1>3

LEMMA LimitedFacts ==
  ASSUME NEW n \in Nat
  PROVE  /\ Limited(n) \in MinRound .. MaxRound
         /\ n \in MinRound .. MaxRound => Limited(n) = n
BY BcryptSizes DEF Limited

\* A setting that is not refused leaves rounds and a salt within the limits.
LEMMA ParsedKept ==
  ASSUME inputSalt \in Seq(Tokens), ~IsInvalid, NEW s,
         s = IF SaltGiven = <<>> THEN RandomSalt ELSE SaltGiven
  PROVE  Kept(IsCustom, IF ~IsCustom THEN DefaultRound ELSE Limited(NumberGiven), s)
<1>1. PICK l \in Nat : l = Len(inputSalt)
  BY LenProperties
<1>2. IsCustom \in BOOLEAN
  BY DEF IsCustom
<1>3. NumberAfterPrefix \in {0, 1} /\ DollarAt \in {2, 3}
      /\ (DollarAt = 3 => l > 1)
  <2>1. (NumberAfterPrefix = 1 /\ Len(inputSalt) > 1) \/ NumberAfterPrefix = 0
    BY Zenon DEF NumberAfterPrefix
  <2> QED
    BY <1>1, <2>1 DEF DollarAt
<1>4. NumberGiven \in Nat
  <2>1. CASE DollarAt = 3
    <3>1. 2 \in 1 .. Len(inputSalt)
      BY <1>1, <1>3, <2>1
    <3>2. inputSalt[2] \in Tokens
      BY <3>1, ElementOfSeq
    <3>3. inputSalt[2][2] \in Nat
      BY <3>2 DEF Tokens
    <3> QED
      BY <2>1, <3>3, Zenon DEF NumberGiven
  <2>2. CASE DollarAt # 3
    BY <2>2 DEF NumberGiven
  <2> QED
    BY <2>1, <2>2
<1>5. PICK r : r = IF ~IsCustom THEN DefaultRound ELSE Limited(NumberGiven)
  OBVIOUS
<1>6. r \in MinRound .. MaxRound /\ (~IsCustom => r = DefaultRound)
  <2>1. Limited(NumberGiven) \in MinRound .. MaxRound
    BY <1>4, LimitedFacts
  <2>2. DefaultRound \in MinRound .. MaxRound
    BY BcryptSizes
  <2> QED
    BY <1>5, <2>1, <2>2, Zenon
<1>7. SaltGiven \in Seq(Tokens) /\ Len(SaltGiven) <= MaxSaltSize
      /\ (~IsCustom /\ SaltGiven # <<>> => SaltGiven[1] # RoundsPrefix)
  <2>1. CASE IsCustom
    <3>1. PICK u : u = SubSeq(inputSalt, DollarAt + 1, Len(inputSalt))
      OBVIOUS
    <3>2. u \in Seq(Tokens)
      <4>1. PICK a \in Nat : a = DollarAt + 1 /\ a >= 1
        BY <1>3
      <4>2. SubSeq(inputSalt, a, l) \in Seq(Tokens)
        BY <1>1, <4>1
      <4> QED
        BY <1>1, <3>1, <4>1, <4>2, Zenon
    <3>3. SaltGiven = Truncated(u)
      BY <2>1, <3>1, Zenon DEF SaltGiven, CustomSalt
    <3>4. Truncated(u) \in Seq(Tokens) /\ Len(Truncated(u)) <= MaxSaltSize
      BY <3>2, TruncatedFacts
    <3> QED
      BY <2>1, <3>3, <3>4, Zenon
  <2>2. CASE ~IsCustom
    <3>1. SaltGiven = Truncated(inputSalt)
      BY <2>2, Zenon DEF SaltGiven
    <3>2. /\ Truncated(inputSalt) \in Seq(Tokens) /\ Len(Truncated(inputSalt)) <= MaxSaltSize
          /\ Truncated(inputSalt) # <<>> => inputSalt # <<>> /\ Truncated(inputSalt)[1] = inputSalt[1]
      BY TruncatedFacts
    <3>3. inputSalt # <<>> => inputSalt[1] # RoundsPrefix
      BY <2>2 DEF IsCustom
    <3> QED
      BY <2>2, <3>1, <3>2, <3>3, Zenon
  <2> QED
    BY <2>1, <2>2
<1>8. s \in Seq(Tokens) /\ s # <<>> /\ Len(s) <= MaxSaltSize /\ (~IsCustom => s[1] # RoundsPrefix)
  <2>1. CASE SaltGiven = <<>>
    BY <2>1, RandomSaltFacts, Zenon
  <2>2. CASE SaltGiven # <<>>
    BY <1>7, <2>2, Zenon
  <2> QED
    BY <2>1, <2>2
<1> QED
  BY <1>2, <1>5, <1>6, <1>8, Zenon DEF Kept

\* The setting in the text of a digest gives the rounds and the salt of it again.
LEMMA ParsedAgain ==
  ASSUME NEW c, NEW r, NEW s, Kept(c, r, s), inputSalt = TextOf(c, r, s)
  PROVE  /\ ~IsInvalid /\ IsCustom = c /\ SaltGiven = s /\ SaltGiven # <<>>
         /\ (IF ~IsCustom THEN DefaultRound ELSE Limited(NumberGiven)) = r
<1>1. /\ c \in BOOLEAN /\ r \in MinRound .. MaxRound /\ s \in Seq(Tokens)
      /\ s # <<>> /\ Len(s) <= MaxSaltSize
      /\ ~c => r = DefaultRound /\ s[1] # RoundsPrefix
  BY DEF Kept
<1>0. /\ TextOf(c, r, s) \in Seq(Tokens) /\ Len(s) \in Nat /\ r \in Nat
      /\ c => /\ Len(TextOf(c, r, s)) = Len(s) + 3
              /\ TextOf(c, r, s)[1] = RoundsPrefix /\ TextOf(c, r, s)[2] = <<"num", r>>
              /\ TextOf(c, r, s)[3] = Dollar
              /\ \A n \in 1 .. Len(s) : TextOf(c, r, s)[n + 3] = s[n]
      /\ ~c => TextOf(c, r, s) = s
  BY TextFacts
<1>2. PICK t \in Seq(Tokens) : t = inputSalt /\ t = TextOf(c, r, s)
  BY <1>0, Zenon
<1>3. PICK l \in Nat \ {0}, n \in Nat : l = Len(s) /\ n = r
  <2>1. Len(s) \in Nat /\ r \in Nat /\ Len(s) # 0
    BY <1>0, <1>1, EmptySeq
  <2> QED
    BY <2>1
<1>4. Truncated(s) = s
  BY <1>1, TruncatedFacts
<1>5. CASE ~c
  <2>1. t = s
    BY <1>0, <1>2, <1>5, Zenon
  <2>2. inputSalt # <<>> /\ Head(inputSalt) = s[1]
    BY <1>1, <1>2, <2>1
  <2>3. ~IsCustom
    BY <1>1, <1>5, <2>2, Zenon DEF IsCustom
  <2>4. ~IsInvalid
    BY <2>3, Zenon DEF IsInvalid
  <2>5. SaltGiven = s
    BY <1>2, <1>4, <2>1, <2>3, Zenon DEF SaltGiven
  <2>6. IsCustom = c
    <3>1. IsCustom = FALSE
      BY <2>3 DEF IsCustom
    <3>2. c = FALSE
      BY <1>1, <1>5
    <3> QED
      BY <3>1, <3>2, Zenon
  <2> QED
    BY <1>1, <1>5, <2>3, <2>4, <2>5, <2>6, Zenon
<1>6. CASE c
  <2>1. /\ Len(t) = l + 3 /\ t[1] = RoundsPrefix /\ t[2] = <<"num", n>> /\ t[3] = Dollar
        /\ \A j \in 1 .. l : t[j + 3] = s[j]
    BY <1>0, <1>2, <1>3, <1>6, Zenon
  <2>2. t # <<>> /\ Head(t) = t[1] /\ Len(t) > 1 /\ ~(Len(t) < 3)
    BY <2>1
  <2>3. IsCustom
    BY <1>2, <2>1, <2>2, Zenon DEF IsCustom
  <2>4. t[2][1] = "num" /\ t[2][2] = n
    BY <2>1
  <2>5. NumberAfterPrefix = 1
    BY <1>2, <2>2, <2>4, Zenon DEF NumberAfterPrefix
  <2>6. DollarAt = 3 /\ DollarAt + 1 = 4
    BY <2>5 DEF DollarAt
  <2>7. ~IsInvalid
    BY <1>2, <2>1, <2>2, <2>6, Zenon DEF IsInvalid
  <2>8. NumberGiven = n
    BY <1>2, <2>4, <2>6, Zenon DEF NumberGiven
  <2>9. Limited(n) = n
    BY <1>1, <1>3, LimitedFacts
  <2>10. SubSeq(t, 4, Len(t)) = s
    <3>1. PICK u : u = SubSeq(t, 4, l + 3)
      OBVIOUS
    <3>2. u \in Seq(Tokens) /\ Len(u) = l /\ \A j \in 1 .. l : u[j] = t[j + 3]
      <4>1. u = [j \in 1 .. ((l + 3) - 4) + 1 |-> t[(4 + j) - 1]]
        BY <3>1
      <4>2. ((l + 3) - 4) + 1 = l /\ \A j \in 1 .. l : (4 + j) - 1 = j + 3 /\ j + 3 \in 1 .. l + 3
        OBVIOUS
      <4>3. \A j \in 1 .. l : t[j + 3] \in Tokens
        <5>1. ASSUME NEW j \in 1 .. l PROVE t[j + 3] \in Tokens
          <6>1. j + 3 \in 1 .. Len(t)
            BY <2>1, <4>2, Zenon
          <6> QED
            BY <6>1, ElementOfSeq
        <5> QED
          BY <5>1
      <4>4. u = [j \in 1 .. l |-> t[j + 3]]
        BY <4>1, <4>2
      <4>5. u \in [1 .. l -> Tokens]
        BY <4>3, <4>4, Zenon
      <4>6. u \in Seq(Tokens) /\ Len(u) = l
        BY <4>5
      <4> QED
        BY <4>4, <4>6
    <3>3. Len(u) = Len(s) /\ \A j \in 1 .. Len(u) : u[j] = s[j]
      BY <1>3, <2>1, <3>2, Zenon
    <3>4. u = s
      BY <1>1, <3>2, <3>3, SeqEqual
    <3> QED
      BY <2>1, <3>1, <3>4, Zenon
  <2>11. SaltGiven = s
    BY <1>2, <1>4, <2>3, <2>6, <2>10, Zenon DEF SaltGiven, CustomSalt
  <2>12. IsCustom = c
    BY <1>1, <1>6, <2>3 DEF IsCustom
  <2> QED
    BY <1>1, <1>3, <1>6, <2>3, <2>7, <2>8, <2>9, <2>11, <2>12, Zenon
<1> QED
  BY <1>1, <1>5, <1>6

-----------------------------------------------------------------------------
(* The steps of bcrypt_sha() and bcrypt_check().                           *)

\* The parts of BcryptInv that are about what a digest is.
LEMMA StoredSame ==
  ASSUME Stored, digest' = digest, madeOf' = madeOf
  PROVE  Stored'
BY Zenon DEF Stored, DigestOf

\* The hash and the text of a digest that was stored.
LEMMA StoredParts ==
  ASSUME Stored, digest # NoDigest
  PROVE  \E c, r, s, b, tr :
           /\ Kept(c, r, s) /\ Ended(b, madeOf[2], Len(s), tr)
           /\ digest.text = TextOf(c, r, s) \o <<Dollar>>
           /\ digest.hash.buf = b /\ digest.hash.salt = s
           /\ digest.hash.password = madeOf /\ digest.hash.round = r
<1>1. PICK c, r, s, b, tr :
        Kept(c, r, s) /\ Ended(b, madeOf[2], Len(s), tr) /\ digest = DigestOf(c, r, s, b)
  BY Zenon DEF Stored
<1>2. /\ digest.text = TextOf(c, r, s) \o <<Dollar>>
      /\ digest.hash.buf = b /\ digest.hash.salt = s
      /\ digest.hash.password = madeOf /\ digest.hash.round = r
  BY <1>1 DEF DigestOf
<1> QED
  BY <1>1, <1>2, Zenon

LEMMA BcryptInitInv == BcryptInit => BcryptInv
<1> SUFFICES ASSUME BcryptInit PROVE BcryptInv
  OBVIOUS
<1>1. /\ step = "idle" /\ checking = FALSE /\ inputSalt = <<>> /\ password \in Passwords
      /\ round = 0 /\ i = 0 /\ digest = NoDigest /\ madeOf = password /\ answer = "none"
  BY DEF BcryptInit
<1>2. ~Looping
  BY <1>1 DEF Looping
<1>3. BcryptTypes
  <2>1. inputSalt \in Seq(Tokens) /\ password[2] \in Nat /\ madeOf[2] \in Nat
    BY <1>1, BcryptSizes
  <2>2. i \in Nat /\ round \in Nat
    BY <1>1
  <2> QED
    BY <1>1, <1>2, <2>1, <2>2, Zenon DEF BcryptTypes
<1>4. Growing /\ Stored /\ Repeating
  BY <1>1, <1>2, Zenon DEF Growing, Stored, Repeating
<1>5. Making
  BY <1>1 DEF Making
<1> QED
  BY <1>3, <1>4, <1>5 DEF BcryptInv

LEMMA MakeKeeps ==
  ASSUME BcryptInv, NEW setting \in Settings, NEW pw \in Passwords, Make(setting, pw)
  PROVE  BcryptInv'
<1>1. /\ step = "idle" /\ digest = NoDigest
      /\ step' = "salt" /\ inputSalt' = setting /\ password' = pw
      /\ salt' = salt /\ round' = round /\ customRound' = customRound /\ buf' = buf /\ i' = i
      /\ checking' = FALSE /\ madeOf' = pw /\ digest' = digest /\ answer' = answer
  BY DEF Make, Enter
<1>2. ~Looping'
  BY <1>1 DEF Looping
<1>3. BcryptTypes'
  <2>1. inputSalt' \in Seq(Tokens) /\ password'[2] \in Nat /\ madeOf'[2] \in Nat
    BY <1>1, BcryptSizes
  <2> QED
    BY <1>1, <1>2, <2>1, Zenon DEF BcryptInv, BcryptTypes
<1>4. digest' = NoDigest
  BY <1>1, Zenon
<1>5. Growing' /\ Stored' /\ Repeating'
  BY <1>2, <1>4, Zenon DEF Growing, Stored, Repeating, NoDigest
<1>6. Making'
  BY <1>1, Zenon DEF BcryptInv, Making, NoDigest
<1> QED
  BY <1>3, <1>5, <1>6 DEF BcryptInv

LEMMA CheckKeeps ==
  ASSUME BcryptInv, NEW pw \in Passwords, Check(pw)
  PROVE  BcryptInv'
<1>1. /\ step = "idle" /\ digest # NoDigest /\ answer = "none"
      /\ step' = "salt" /\ inputSalt' = Front(digest.text) /\ password' = pw
      /\ salt' = salt /\ round' = round /\ customRound' = customRound /\ buf' = buf /\ i' = i
      /\ checking' = TRUE /\ madeOf' = madeOf /\ digest' = digest /\ answer' = answer
  BY DEF Check, Enter
<1>2. ~Looping'
  BY <1>1 DEF Looping
<1>3. PICK t \in Seq(Tokens) : digest.text = t \o <<Dollar>>
  <2>1. PICK c, r, s : Kept(c, r, s) /\ digest.text = TextOf(c, r, s) \o <<Dollar>>
    BY <1>1, StoredParts DEF BcryptInv
  <2>2. TextOf(c, r, s) \in Seq(Tokens)
    BY <2>1, TextFacts
  <2> QED
    BY <2>1, <2>2
<1>4. inputSalt' = t
  <2>1. Front(t \o <<Dollar>>) = t
    BY TokensMade, FrontAgain
  <2> QED
    BY <1>1, <1>3, <2>1, Zenon
<1>5. BcryptTypes'
  <2>1. inputSalt' \in Seq(Tokens) /\ password'[2] \in Nat
    BY <1>1, <1>4, BcryptSizes
  <2> QED
    BY <1>1, <1>2, <2>1, Zenon DEF BcryptInv, BcryptTypes
<1>6. Growing'
  BY <1>2, Zenon DEF Growing
<1>7. Stored'
  BY <1>1, StoredSame DEF BcryptInv
<1>8. Making'
  BY <1>1 DEF Making
<1>9. Repeating'
  BY <1>1, <1>2, <1>3, <1>4, Zenon DEF Repeating
<1> QED
  BY <1>5, <1>6, <1>7, <1>8, <1>9 DEF BcryptInv

LEMMA ParseKeeps == ASSUME BcryptInv, ParseSalt PROVE BcryptInv'
<1>1. /\ step = "salt"
      /\ checking' = checking /\ inputSalt' = inputSalt /\ password' = password
      /\ digest' = digest /\ madeOf' = madeOf /\ answer' = answer
  BY ParsedFlat
<1>2. BcryptTypes /\ Stored /\ Making /\ Repeating /\ inputSalt \in Seq(Tokens) /\ password[2] \in Nat
  BY DEF BcryptInv, BcryptTypes
<1>3. Stored'
  BY <1>1, <1>2, StoredSame
<1>4. digest # NoDigest =>
        \E c, r, s, b, tr :
          /\ Kept(c, r, s) /\ Ended(b, madeOf[2], Len(s), tr) /\ inputSalt = TextOf(c, r, s)
          /\ digest.text = TextOf(c, r, s) \o <<Dollar>>
          /\ digest.hash.buf = b /\ digest.hash.salt = s /\ digest.hash.round = r
  <2> SUFFICES ASSUME digest # NoDigest
               PROVE  \E c, r, s, b, tr :
                        /\ Kept(c, r, s) /\ Ended(b, madeOf[2], Len(s), tr) /\ inputSalt = TextOf(c, r, s)
                        /\ digest.text = TextOf(c, r, s) \o <<Dollar>>
                        /\ digest.hash.buf = b /\ digest.hash.salt = s /\ digest.hash.round = r
    OBVIOUS
  <2>1. PICK c, r, s, b, tr :
          /\ Kept(c, r, s) /\ Ended(b, madeOf[2], Len(s), tr)
          /\ digest.text = TextOf(c, r, s) \o <<Dollar>>
          /\ digest.hash.buf = b /\ digest.hash.salt = s
          /\ digest.hash.password = madeOf /\ digest.hash.round = r
    BY <1>2, StoredParts
  <2>2. digest.text = inputSalt \o <<Dollar>>
    BY <1>1, <1>2, Zenon DEF Repeating
  <2>3. PICK t \in Seq(Tokens) : t = TextOf(c, r, s)
    BY <2>1, TextFacts
  <2>4. Front(inputSalt \o <<Dollar>>) = inputSalt /\ Front(t \o <<Dollar>>) = t
    BY <1>2, TokensMade, FrontAgain
  <2>5. inputSalt = TextOf(c, r, s)
    BY <2>1, <2>2, <2>3, <2>4, Zenon
  <2> QED
    BY <2>1, <2>5, Zenon
<1>5. CASE IsInvalid
  <2>1. /\ step' = "failed" /\ salt' = salt /\ round' = round
        /\ customRound' = customRound /\ buf' = buf /\ i' = i
    BY <1>5, ParsedFlat
  <2>2. ~Looping'
    BY <2>1 DEF Looping
  <2>3. digest = NoDigest
    <3>1. ASSUME digest # NoDigest PROVE FALSE
      <4>1. PICK c, r, s : Kept(c, r, s) /\ inputSalt = TextOf(c, r, s)
        BY <1>4, <3>1, Zenon
      <4>2. ~IsInvalid
        BY <4>1, ParsedAgain
      <4> QED
        BY <1>5, <4>2
    <3> QED
      BY <3>1
  <2>4. BcryptTypes'
    BY <1>1, <1>2, <2>1, <2>2, Zenon DEF BcryptTypes
  <2>5. Growing' /\ Repeating'
    BY <1>1, <2>2, <2>3, Zenon DEF Growing, Repeating, NoDigest
  <2>6. Making'
    BY <1>1, <1>2, <2>1, <2>3, Zenon DEF Making, NoDigest
  <2> QED
    BY <1>3, <2>4, <2>5, <2>6 DEF BcryptInv
<1>6. CASE ~IsInvalid
  <2>1. PICK c1, r1, s1, n :
          /\ c1 = IsCustom /\ r1 = (IF ~IsCustom THEN DefaultRound ELSE Limited(NumberGiven))
          /\ s1 = (IF SaltGiven = <<>> THEN RandomSalt ELSE SaltGiven) /\ n = password[2]
    OBVIOUS
  <2>2. /\ step' = "blocks" /\ customRound' = c1 /\ round' = r1 /\ salt' = s1
        /\ buf' = Start(n, Len(s1)) /\ i' = n
    BY <1>6, <2>1, ParsedFlat, Zenon
  <2>3. Kept(c1, r1, s1)
    BY <1>2, <1>6, <2>1, ParsedKept, Zenon
  <2>4. Len(s1) \in Nat /\ r1 \in Nat /\ n \in Nat
    BY <1>2, <2>1, <2>3, TextFacts
  <2>5. BcryptTypes'
    <3>1. step' # "rounds" /\ step' \in {"idle", "salt", "blocks", "bits", "rounds", "failed"}
      BY <2>2
    <3> QED
      BY <1>1, <1>2, <2>2, <2>3, <2>4, <3>1, Zenon DEF BcryptTypes
  <2>6. Place' = <<"blocks", n>> /\ password'[2] = n /\ step' # "salt" /\ step' # "failed"
    BY <1>1, <2>1, <2>2 DEF Place
  <2>7. Growing'
    <3>1. \E tr : Traced(Start(n, Len(s1)), n, Len(s1), tr)
                  /\ tr[Len(Start(n, Len(s1)))] = <<"blocks", n>>
      BY <2>4, StartTrace
    <3> QED
      BY <2>2, <2>6, <3>1, Zenon DEF Growing
  <2>8. Making'
    BY <1>1, <1>2, <2>6, Zenon DEF Making, NoDigest
  <2>9. Repeating'
    <3> SUFFICES ASSUME digest # NoDigest PROVE Repeating'
      BY <1>1, Zenon DEF Repeating, NoDigest
    <3>1. PICK c, r, s, b, tr :
            /\ Kept(c, r, s) /\ Ended(b, madeOf[2], Len(s), tr) /\ inputSalt = TextOf(c, r, s)
            /\ digest.text = TextOf(c, r, s) \o <<Dollar>>
            /\ digest.hash.buf = b /\ digest.hash.salt = s /\ digest.hash.round = r
      BY <1>4, Zenon
    <3>2. c1 = c /\ r1 = r /\ s1 = s
      <4>1. /\ IsCustom = c /\ SaltGiven = s /\ SaltGiven # <<>>
            /\ (IF ~IsCustom THEN DefaultRound ELSE Limited(NumberGiven)) = r
        BY <3>1, ParsedAgain
      <4> QED
        BY <2>1, <4>1, Zenon
    <3>3. password = madeOf => Follows(Start(n, Len(s1)), <<"blocks", n>>, b, n, Len(s1))
      <4>1. ASSUME password = madeOf PROVE Follows(Start(n, Len(s1)), <<"blocks", n>>, b, n, Len(s1))
        <5>1. Ended(b, n, Len(s1), tr)
          BY <2>1, <3>1, <3>2, <4>1, Zenon
        <5> QED
          BY <2>4, <5>1, StartFollows
      <4> QED
        BY <4>1
    <3>4. answer = "none"
      BY <1>1, <1>2 DEF Making
    <3> QED
      BY <1>1, <2>2, <2>6, <3>1, <3>2, <3>3, <3>4, Zenon DEF Repeating
  <2> QED
    BY <1>3, <2>5, <2>7, <2>8, <2>9 DEF BcryptInv
<1> QED
  BY <1>5, <1>6

\* A turn of a loop: what grew is followed.
LEMMA LoopKeeps ==
  ASSUME BcryptInv, Looping, Looping', i' \in Nat, step' = "rounds" => i' <= round,
         UNCHANGED <<checking, inputSalt, password, salt, round, customRound, digest, madeOf, answer>>,
         Growing',
         \A d : Follows(buf, Place, d, password[2], Len(salt))
                  => Follows(buf', Place', d, password[2], Len(salt))
  PROVE  BcryptInv'
<1>1. /\ checking' = checking /\ inputSalt' = inputSalt /\ password' = password /\ salt' = salt
      /\ round' = round /\ customRound' = customRound /\ digest' = digest
      /\ madeOf' = madeOf /\ answer' = answer
  OBVIOUS
<1>2. BcryptTypes /\ Stored /\ Making /\ Repeating
  BY DEF BcryptInv
<1>3. step' \in {"idle", "salt", "blocks", "bits", "rounds", "failed"}
      /\ step' # "salt" /\ step' # "failed" /\ step # "idle"
  BY DEF Looping
<1>4. BcryptTypes'
  BY <1>1, <1>2, <1>3, Zenon DEF BcryptTypes
<1>5. Stored'
  BY <1>1, <1>2, StoredSame
<1>6. Making'
  <2>1. NoDigest' = NoDigest
    BY DEF NoDigest
  <2>2. (digest = NoDigest)' <=> digest = NoDigest
    BY <1>1, <2>1, Zenon
  <2> QED
    BY <1>1, <1>2, <1>3, <2>2 DEF Making
<1>7. Repeating'
  <2> SUFFICES ASSUME digest # NoDigest PROVE Repeating'
    BY <1>1, Zenon DEF Repeating, NoDigest
  <2>1. /\ digest.text = TextOf(customRound, round, salt) \o <<Dollar>>
        /\ digest.hash.salt = salt /\ digest.hash.round = round
        /\ password = madeOf => Follows(buf, Place, digest.hash.buf, password[2], Len(salt))
        /\ answer # "none" => (answer = "yes" <=> password = madeOf)
    BY <1>2, Zenon DEF Repeating
  <2>2. password = madeOf => Follows(buf', Place', digest.hash.buf, password[2], Len(salt))
    BY <2>1
  <2> QED
    BY <1>1, <1>3, <2>1, <2>2, Zenon DEF Repeating
<1> QED
  BY <1>4, <1>5, <1>6, <1>7 DEF BcryptInv

LEMMA BufTypes ==
  ASSUME BcryptInv, Looping
  PROVE  buf \in Seq(Pieces) /\ password[2] \in Nat /\ Len(salt) \in Nat /\ i \in Nat
<1>1. Kept(customRound, round, salt) /\ password[2] \in Nat /\ i \in Nat
  BY DEF BcryptInv, BcryptTypes
<1>2. buf \in Seq(Pieces)
  BY DEF BcryptInv, Growing, Traced
<1> QED
  BY <1>1, <1>2, TextFacts

\* A turn that appends a piece.
LEMMA AppendKeeps ==
  ASSUME BcryptInv, Looping, Place # Over, step' \in {"blocks", "bits"}, i' \in Nat,
         UNCHANGED <<checking, inputSalt, password, salt, round, customRound, digest, madeOf, answer>>,
         buf' = Append(buf, Piece(Place, password[2])), Place' = After(Place, password[2])
  PROVE  BcryptInv'
<1>1. password' = password /\ salt' = salt
  OBVIOUS
<1>2. PICK n \in Nat, l \in Nat : n = password[2] /\ l = Len(salt) /\ buf \in Seq(Pieces)
  BY BufTypes
<1>3. Growing'
  <2>1. PICK tr : Traced(buf, n, l, tr) /\ tr[Len(buf)] = Place
    BY <1>2, Zenon DEF BcryptInv, Growing
  <2>2. tr[Len(buf)] # Over
    BY <2>1
  <2>3. PICK b, t : b = buf /\ t = tr /\ Traced(b, n, l, t) /\ t[Len(b)] # Over /\ t[Len(b)] = Place
    BY <2>1, <2>2
  <2>4. \E tr1 : /\ Traced(Append(b, Piece(t[Len(b)], n)), n, l, tr1)
                 /\ tr1[Len(Append(b, Piece(t[Len(b)], n)))] = After(t[Len(b)], n)
    BY <2>3, MoreTrace
  <2>5. \E tr1 : Traced(buf', n, l, tr1) /\ tr1[Len(buf')] = Place'
    BY <1>2, <2>3, <2>4, Zenon
  <2> QED
    BY <1>1, <1>2, <2>5, Zenon DEF Growing
<1>4. ASSUME NEW d, Follows(buf, Place, d, password[2], Len(salt))
      PROVE  Follows(buf', Place', d, password[2], Len(salt))
  <2>0. PICK x : x = Place
    OBVIOUS
  <2>1. PICK b \in Seq(Pieces) : b = buf /\ x = Place /\ Follows(b, x, d, n, l) /\ x # Over
    BY <1>2, <1>4, <2>0, Zenon
  <2>2. Follows(Append(b, Piece(x, n)), After(x, n), d, n, l)
    BY <2>1, MoreFollows
  <2> QED
    BY <1>2, <2>1, <2>2, Zenon
<1>5. Looping' /\ step' # "rounds"
  BY DEF Looping
<1> QED
  BY <1>3, <1>4, <1>5, LoopKeeps

\* A turn that appends nothing.
LEMMA SameKeeps ==
  ASSUME BcryptInv, Looping, Looping', i' \in Nat, step' = "rounds" => i' <= round,
         UNCHANGED <<checking, inputSalt, password, salt, round, customRound, digest, madeOf, answer>>,
         buf' = buf, Place' = Place
  PROVE  BcryptInv'
<1>1. password' = password /\ salt' = salt
  OBVIOUS
<1>2. Growing'
  BY <1>1, Zenon DEF BcryptInv, Growing
<1>3. \A d : Follows(buf, Place, d, password[2], Len(salt))
               => Follows(buf', Place', d, password[2], Len(salt))
  BY Zenon
<1> QED
  BY <1>2, <1>3, LoopKeeps

LEMMA BlocksKeeps == ASSUME BcryptInv, DigestBlocks PROVE BcryptInv'
<1>1. /\ step = "blocks"
      /\ UNCHANGED <<checking, inputSalt, password, salt, round, customRound, digest, madeOf, answer>>
      /\ i > HashSize => buf' = Append(buf, <<"digest_b", HashSize>>) /\ i' = i - HashSize /\ step' = step
      /\ ~(i > HashSize) => /\ buf' = Append(buf, <<"digest_b", password[2] % HashSize>>)
                            /\ i' = password[2] /\ step' = "bits"
  BY DEF DigestBlocks
<1>2. Looping
  BY <1>1 DEF Looping
<1>3. password[2] \in Nat /\ i \in Nat /\ HashSize \in Nat
  BY <1>2, BufTypes, BcryptSizes
<1>4. Place = <<"blocks", i>> /\ Place # Over
  <2>1. step # "rounds" /\ "blocks" # "bits"
    BY <1>1
  <2>2. Place = <<"blocks", i>>
    BY <1>1, <2>1, Zenon DEF Place
  <2>3. <<"blocks", i>>[1] = "blocks" /\ Over[1] = "bits"
    BY DEF Over
  <2> QED
    BY <2>1, <2>2, <2>3, Zenon
<1>5. CASE i > HashSize
  <2>1. /\ i' = i - HashSize /\ i' \in Nat /\ step' = "blocks" /\ step' # "rounds"
        /\ buf' = Append(buf, <<"digest_b", HashSize>>)
    BY <1>1, <1>3, <1>5
  <2>2. Piece(Place, password[2]) = <<"digest_b", HashSize>>
    BY <1>4, <1>5 DEF Piece
  <2>3. After(Place, password[2]) = <<"blocks", i - HashSize>>
    BY <1>4, <1>5 DEF After
  <2>4. Place' = <<"blocks", i - HashSize>>
    BY <2>1, Zenon DEF Place
  <2>5. step' \in {"blocks", "bits"}
    BY <2>1
  <2> QED
    BY <1>1, <1>2, <1>4, <2>1, <2>2, <2>3, <2>4, <2>5, AppendKeeps
<1>6. CASE ~(i > HashSize)
  <2>1. /\ i' = password[2] /\ i' \in Nat /\ step' = "bits" /\ step' # "rounds"
        /\ buf' = Append(buf, <<"digest_b", password[2] % HashSize>>)
    BY <1>1, <1>3, <1>6
  <2>2. Piece(Place, password[2]) = <<"digest_b", password[2] % HashSize>>
    BY <1>4, <1>6 DEF Piece
  <2>3. After(Place, password[2]) = <<"bits", password[2]>>
    BY <1>4, <1>6 DEF After
  <2>4. Place' = <<"bits", password[2]>>
    BY <2>1, Zenon DEF Place
  <2>5. step' \in {"blocks", "bits"}
    BY <2>1
  <2> QED
    BY <1>1, <1>2, <1>4, <2>1, <2>2, <2>3, <2>4, <2>5, AppendKeeps
<1> QED
  BY <1>5, <1>6

LEMMA BitsKeeps == ASSUME BcryptInv, DigestBits PROVE BcryptInv'
<1>1. /\ step = "bits"
      /\ UNCHANGED <<checking, inputSalt, password, salt, round, customRound, digest, madeOf, answer>>
      /\ i > 0 => /\ buf' = Append(buf, IF i % 2 = 0 THEN <<"password", password[2]>> ELSE <<"digest_b", HashSize>>)
                  /\ i' = i \div 2 /\ step' = step
      /\ ~(i > 0) => step' = "rounds" /\ buf' = buf /\ i' = 0
  BY DEF DigestBits
<1>2. Looping
  BY <1>1 DEF Looping
<1>3. password[2] \in Nat /\ i \in Nat /\ i \div 2 \in Nat
  BY <1>2, BufTypes, Halved
<1>4. Place = <<"bits", i>>
  <2>1. step # "rounds"
    BY <1>1
  <2> QED
    BY <1>1, <2>1, Zenon DEF Place
<1>5. CASE i > 0
  <2>1. Place # Over
    BY <1>4, <1>5 DEF Over
  <2>2. i' = i \div 2 /\ i' \in Nat /\ step' = "bits" /\ step' # "rounds"
    BY <1>1, <1>3, <1>5
  <2>3. Place[1] = "bits" /\ Place[2] = i /\ Place[1] # "blocks"
    BY <1>4
  <2>4. buf' = Append(buf, Piece(Place, password[2]))
    BY <1>1, <1>5, <2>3, Zenon DEF Piece
  <2>5. Place' = After(Place, password[2])
    BY <2>2, <2>3, Zenon DEF Place, After
  <2>6. step' \in {"blocks", "bits"}
    BY <2>2
  <2> QED
    BY <1>1, <1>2, <2>1, <2>2, <2>4, <2>5, <2>6, AppendKeeps
<1>6. CASE ~(i > 0)
  <2>1. step' = "rounds" /\ buf' = buf /\ i' = 0
    BY <1>1, <1>6
  <2>2. Place' = Place
    <3>1. i = 0
      BY <1>3, <1>6
    <3> QED
      BY <1>4, <2>1, <3>1, Zenon DEF Place, Over
  <2>3. i' \in Nat /\ i' <= round
    BY <2>1 DEF BcryptInv, BcryptTypes
  <2>4. Looping'
    BY <2>1 DEF Looping
  <2> QED
    BY <1>1, <1>2, <2>1, <2>2, <2>3, <2>4, SameKeeps
<1> QED
  BY <1>5, <1>6

LEMMA RoundKeeps == ASSUME BcryptInv, MainRound PROVE BcryptInv'
<1>1. /\ step = "rounds" /\ i < round /\ i' = i + 1 /\ step' = step /\ buf' = buf
      /\ UNCHANGED <<checking, inputSalt, password, salt, round, customRound, digest, madeOf, answer>>
  BY DEF MainRound
<1>2. Looping /\ Looping'
  BY <1>1 DEF Looping
<1>3. Place' = Place
  BY <1>1, Zenon DEF Place
<1>4. i' \in Nat /\ i' <= round
  BY <1>1 DEF BcryptInv, BcryptTypes
<1> QED
  BY <1>1, <1>2, <1>3, <1>4, SameKeeps

LEMMA FinishedKeeps == ASSUME BcryptInv, Finished PROVE BcryptInv'
<1>1. /\ step = "rounds" /\ i = round /\ step' = "idle"
      /\ checking => digest' = digest /\ answer' = IF Result = digest THEN "yes" ELSE "no"
      /\ ~checking => digest' = Result /\ answer' = answer
      /\ checking' = checking /\ inputSalt' = inputSalt /\ password' = password /\ salt' = salt
      /\ round' = round /\ customRound' = customRound /\ buf' = buf /\ i' = i /\ madeOf' = madeOf
  BY DEF Finished
<1>2. BcryptTypes /\ Growing /\ Stored /\ Making /\ Repeating
  BY DEF BcryptInv
<1>3. Looping /\ ~Looping' /\ Place = Over
  BY <1>1 DEF Looping, Place
<1>4. Kept(customRound, round, salt) /\ buf \in Seq(Pieces) /\ password[2] \in Nat
  BY <1>2, <1>3, BufTypes DEF BcryptTypes
<1>5. answer' \in {"none", "yes", "no"}
  BY <1>1, <1>2 DEF BcryptTypes
<1>6. BcryptTypes'
  <2>1. step' \in {"idle", "salt", "blocks", "bits", "rounds", "failed"}
    BY <1>1
  <2> QED
    BY <1>1, <1>2, <1>3, <1>5, <2>1, Zenon DEF BcryptTypes
<1>7. Growing'
  BY <1>3, Zenon DEF Growing
<1>8. /\ Result.text = TextOf(customRound, round, salt) \o <<Dollar>>
      /\ Result = [text |-> TextOf(customRound, round, salt) \o <<Dollar>>,
                   hash |-> [buf |-> buf, salt |-> salt, password |-> password, round |-> round]]
  BY <1>1 DEF Result, TextOf
<1>9. step' # "salt" /\ step' # "failed"
  BY <1>1
<1>10. CASE ~checking
  <2>1. digest = NoDigest
    BY <1>1, <1>2, <1>10 DEF Making
  <2>2. password = madeOf /\ answer = "none" /\ digest' = Result /\ answer' = "none"
    BY <1>1, <1>2, <1>10, <2>1 DEF Making
  <2>3. PICK tr : Ended(buf, password[2], Len(salt), tr)
    BY <1>2, <1>3, Zenon DEF Growing, Ended
  <2>4. digest' = DigestOf(customRound, round, salt, buf)'
    BY <1>1, <1>8, <2>2, Zenon DEF DigestOf
  <2>5. Stored'
    <3>1. /\ Kept(customRound', round', salt') /\ Ended(buf', madeOf'[2], Len(salt'), tr)
          /\ digest' = DigestOf(customRound, round, salt, buf)'
      BY <1>1, <1>4, <2>2, <2>3, <2>4, Zenon
    <3> QED
      BY <3>1, Zenon DEF Stored, DigestOf
  <2>6. Making'
    BY <1>1, <1>10, <2>2, Zenon DEF Making
  <2>7. Repeating'
    BY <1>3, <1>9, <2>2, Zenon DEF Repeating
  <2> QED
    BY <1>6, <1>7, <2>5, <2>6, <2>7 DEF BcryptInv
<1>11. CASE checking
  <2>1. digest # NoDigest
    BY <1>2, <1>11, Zenon DEF Making
  <2>2. digest' = digest /\ answer' = (IF Result = digest THEN "yes" ELSE "no")
    BY <1>1, <1>11
  <2>3. PICK c, r, s, b, tr :
          Kept(c, r, s) /\ Ended(b, madeOf[2], Len(s), tr) /\ digest = DigestOf(c, r, s, b)
    BY <1>2, <2>1, Zenon DEF Stored
  <2>4. /\ digest.hash = [buf |-> b, salt |-> s, password |-> madeOf, round |-> r]
        /\ digest = [text |-> digest.text, hash |-> digest.hash]
        /\ digest.hash.buf = b /\ digest.hash.salt = s /\ digest.hash.password = madeOf
        /\ digest.hash.round = r
    BY <2>3 DEF DigestOf
  <2>5. /\ digest.text = TextOf(customRound, round, salt) \o <<Dollar>>
        /\ digest.hash.salt = salt /\ digest.hash.round = round
        /\ password = madeOf => Follows(buf, Over, digest.hash.buf, password[2], Len(salt))
    BY <1>1, <1>2, <1>3, <2>1, Zenon DEF Repeating
  <2>6. ASSUME password = madeOf PROVE Result = digest
    <3>1. buf = b
      <4>1. Follows(buf, Over, b, password[2], Len(salt))
        BY <2>4, <2>5, <2>6, Zenon
      <4> QED
        BY <1>4, <4>1, FollowsToTheEnd
    <3>2. s = salt /\ r = round
      BY <2>4, <2>5, Zenon
    <3> QED
      BY <1>8, <2>4, <2>5, <2>6, <3>1, <3>2, Zenon
  <2>7. ASSUME Result = digest PROVE password = madeOf
    <3>1. Result.hash.password = password
      BY <1>8
    <3> QED
      BY <2>4, <2>7, <3>1, Zenon
  <2>8. answer' # "none" /\ (answer' = "yes" <=> password' = madeOf')
    BY <1>1, <2>2, <2>6, <2>7
  <2>9. Stored'
    BY <1>1, <1>2, <2>2, StoredSame
  <2>10. Making'
    BY <1>1, <1>9, <1>11, <2>1, <2>2, Zenon DEF Making, NoDigest
  <2>11. Repeating'
    BY <1>3, <1>9, <2>8, Zenon DEF Repeating
  <2> QED
    BY <1>6, <1>7, <2>9, <2>10, <2>11 DEF BcryptInv
<1> QED
  BY <1>10, <1>11

LEMMA BcryptStutters == ASSUME BcryptInv, UNCHANGED bcryptVars PROVE BcryptInv'
<1>1. /\ step' = step /\ checking' = checking /\ inputSalt' = inputSalt /\ password' = password
      /\ salt' = salt /\ round' = round /\ customRound' = customRound /\ buf' = buf /\ i' = i
      /\ digest' = digest /\ madeOf' = madeOf /\ answer' = answer
  BY DEF bcryptVars
<1>2. Looping' = Looping /\ Place' = Place
  BY <1>1 DEF Looping, Place
<1>3. BcryptTypes'
  BY <1>1, <1>2, Zenon DEF BcryptInv, BcryptTypes
<1>4. Growing'
  BY <1>1, <1>2, Zenon DEF BcryptInv, Growing
<1>5. Stored'
  BY <1>1, StoredSame DEF BcryptInv
<1>6. Making'
  BY <1>1, Zenon DEF BcryptInv, Making, NoDigest
<1>7. Repeating'
  BY <1>1, <1>2, Zenon DEF BcryptInv, Repeating, NoDigest
<1> QED
  BY <1>3, <1>4, <1>5, <1>6, <1>7 DEF BcryptInv

-----------------------------------------------------------------------------
(* The theorems of the digests of passwords.                               *)

\* Making a digest and checking it keep what the buffer, the digest and the
\* setting found in it are.
THEOREM BcryptInvariance == BcryptSpec => []BcryptInv
<1>1. BcryptInit => BcryptInv
  BY BcryptInitInv
<1>2. BcryptInv /\ [BcryptNext]_bcryptVars => BcryptInv'
  <2> SUFFICES ASSUME BcryptInv, [BcryptNext]_bcryptVars PROVE BcryptInv'
    OBVIOUS
  <2>1. ASSUME NEW setting \in Settings, NEW pw \in Passwords, Make(setting, pw) PROVE BcryptInv'
    BY <2>1, MakeKeeps
  <2>2. ASSUME NEW pw \in Passwords, Check(pw) PROVE BcryptInv'
    BY <2>2, CheckKeeps
  <2>3. CASE ParseSalt
    BY <2>3, ParseKeeps
  <2>4. CASE DigestBlocks
    BY <2>4, BlocksKeeps
  <2>5. CASE DigestBits
    BY <2>5, BitsKeeps
  <2>6. CASE MainRound
    BY <2>6, RoundKeeps
  <2>7. CASE Finished
    BY <2>7, FinishedKeeps
  <2>8. CASE UNCHANGED bcryptVars
    BY <2>8, BcryptStutters
  <2> QED
    BY <2>1, <2>2, <2>3, <2>4, <2>5, <2>6, <2>7, <2>8, Zenon DEF BcryptNext
<1> QED
  BY <1>1, <1>2, PTL DEF BcryptSpec

\* bcrypt_check() accepts the password a digest was made of and no other, for
\* any salt, number of rounds and size of a password, and never refuses the
\* setting in it; a digest has rounds and a salt within the limits.
THEOREM BcryptRightHolds == BcryptSpec => []BcryptRight
<1>1. BcryptInv => BcryptRight
  <2> SUFFICES ASSUME BcryptInv PROVE BcryptRight
    OBVIOUS
  <2>1. Stored /\ Making /\ Repeating
    BY DEF BcryptInv
  <2>2. ChecksOwn
    <3>1. checking => step # "failed"
      BY <2>1 DEF Making
    <3>2. answer # "none" => (answer = "yes" <=> password = madeOf)
      BY <2>1, Zenon DEF Making, Repeating
    <3> QED
      BY <3>1, <3>2, Zenon DEF ChecksOwn
  <2>3. WithinLimits
    <3> SUFFICES ASSUME digest # NoDigest
                 PROVE  /\ digest.hash.round \in MinRound .. MaxRound
                        /\ Len(digest.hash.salt) \in 1 .. MaxSaltSize
      BY Zenon DEF WithinLimits
    <3>1. PICK c, r, s : Kept(c, r, s) /\ digest.hash.salt = s /\ digest.hash.round = r
      BY <2>1, StoredParts
    <3>2. r \in MinRound .. MaxRound
      BY <3>1 DEF Kept
    <3>3. Len(s) \in 1 .. MaxSaltSize
      <4>1. Len(s) \in Nat /\ Len(s) # 0
        BY <3>1, LenProperties, EmptySeq DEF Kept
      <4> QED
        BY <3>1, <4>1, BcryptSizes DEF Kept
    <3> QED
      BY <3>1, <3>2, <3>3, Zenon
  <2> QED
    BY <2>2, <2>3 DEF BcryptRight
<1> QED
  BY <1>1, BcryptInvariance, PTL
=============================================================================
