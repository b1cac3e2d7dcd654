---------------------------- MODULE CipherProofs ----------------------------
(***************************************************************************)
(* The cipher of yu/crypt/blowfish.hpp and the streams around it.          *)
(***************************************************************************)
EXTENDS Blowfish, CipherStream, SequenceTheorems, TLAPS

-----------------------------------------------------------------------------
(* Words and the functions on them.                                        *)

LEMMA Product == \A a, b \in Nat \ {0} : a * b \in Nat \ {0}
OBVIOUS

LEMMA Sizes ==
  /\ ByteBase \in Nat \ {0} /\ Square \in Nat \ {0} /\ Square * ByteBase \in Nat \ {0}
  /\ Square * Square \in Nat \ {0} /\ Rounds \in Nat \ {0}
<1>1. ByteBase \in Nat \ {0} /\ Rounds \in Nat \ {0}
  BY BlowfishAssumption
<1>2. Square \in Nat \ {0}
  BY <1>1, Product DEF Square
<1> QED
  BY <1>1, <1>2, Product

LEMMA XorType == \A a, b \in Word : XorWord(a, b) \in Word
BY BlowfishAssumption

\* A word met twice is gone.
LEMMA XorTwice ==
  \A a, b, c \in Word : /\ XorWord(XorWord(a, b), b) = a
                        /\ XorWord(a, XorWord(XorWord(a, b), c)) = XorWord(b, c)
<1> SUFFICES ASSUME NEW a \in Word, NEW b \in Word, NEW c \in Word
             PROVE  /\ XorWord(XorWord(a, b), b) = a
                    /\ XorWord(a, XorWord(XorWord(a, b), c)) = XorWord(b, c)
  OBVIOUS
<1>1. XorWord(XorWord(a, b), c) = XorWord(a, XorWord(b, c)) /\ XorWord(b, c) \in Word
  BY BlowfishAssumption
<1>2. XorWord(a, XorWord(a, XorWord(b, c))) = XorWord(b, c)
  BY <1>1, BlowfishAssumption
<1> QED
  BY <1>1, <1>2, BlowfishAssumption

LEMMA ModRange == \A a \in Nat, b \in Nat \ {0} : a % b \in 0 .. b - 1
OBVIOUS

LEMMA DivNat == \A a \in Nat, b \in Nat \ {0} : a \div b \in Nat
OBVIOUS

\* The sum of two words, and a word of a table.
LEMMA PlusType == \A a, b \in Word : (a + b) % (Square * Square) \in Word
<1> SUFFICES ASSUME NEW a \in Word, NEW b \in Word PROVE (a + b) % (Square * Square) \in Word
  OBVIOUS
<1>1. a \in Nat /\ b \in Nat /\ Square * Square \in Nat \ {0}
  BY Sizes DEF Word
<1>2. a + b \in Nat
  BY <1>1
<1> QED
  BY <1>1, <1>2, ModRange DEF Word

LEMMA TableType ==
  ASSUME sboxes \in Sboxes, NEW x \in Word, NEW box \in 1 .. 4, NEW unit \in Nat \ {0}
  PROVE  sboxes[box][(x \div unit) % ByteBase] \in Word
<1>1. x \in Nat
  BY Sizes DEF Word
<1>2. (x \div unit) % ByteBase \in 0 .. ByteBase - 1
  BY <1>1, Sizes, DivNat, ModRange
<1> QED
  BY <1>2 DEF Sboxes

LEMMA FType ==
  ASSUME sboxes \in Sboxes, NEW x \in Word
  PROVE  f(x) \in Word
<1> DEFINE s(box, unit) == sboxes[box][(x \div unit) % ByteBase]
           plus(a, b) == (a + b) % (Square * Square)
<1>1. s(1, Square * ByteBase) \in Word /\ s(2, Square) \in Word /\ s(3, ByteBase) \in Word /\ s(4, 1) \in Word
  <2>1. Square * ByteBase \in Nat \ {0} /\ Square \in Nat \ {0} /\ ByteBase \in Nat \ {0} /\ 1 \in Nat \ {0}
    BY Sizes
  <2> QED
    BY <2>1, TableType
<1>2. \A a, b \in Word : plus(a, b) \in Word
  BY PlusType
<1>3. f(x) = plus(XorWord(plus(s(1, Square * ByteBase), s(2, Square)), s(3, ByteBase)), s(4, 1))
  BY DEF f
<1> HIDE DEF s, plus
<1> QED
  BY <1>1, <1>2, <1>3, XorType

\* Four bytes of the key make a word.
LEMMA Shifted ==
  ASSUME NEW m \in Nat \ {0}, NEW w \in 0 .. m - 1, NEW b \in 0 .. ByteBase - 1
  PROVE  w * ByteBase + b \in 0 .. m * ByteBase - 1
<1>1. PICK k \in Nat : k = ByteBase /\ k > 0
  BY Sizes
<1>2. w * k <= (m - 1) * k /\ (m - 1) * k = m * k - k /\ m * k \in Nat /\ w * k \in Nat
  BY <1>1
<1>3. w * k + b \in 0 .. m * k - 1
  BY <1>1, <1>2
<1> QED
  BY <1>1, <1>3

LEMMA KeyWordType == key \in Keys => \A n \in Nat : KeyWord(n) \in Word
<1> SUFFICES ASSUME key \in Keys, NEW n \in Nat PROVE KeyWord(n) \in Word
  OBVIOUS
<1>1. key \in Seq(0 .. ByteBase - 1) /\ key # <<>>
  BY BlowfishAssumption
<1>2. Len(key) \in Nat \ {0}
  BY <1>1, EmptySeq
<1>3. ASSUME NEW m \in Nat PROVE KeyByte(m) \in 0 .. ByteBase - 1
  <2>1. (m % Len(key)) + 1 \in 1 .. Len(key)
    BY <1>2, ModRange
  <2> QED
    BY <1>1, <2>1, ElementOfSeq DEF KeyByte
<1>4. 4 * n \in Nat /\ 4 * n + 1 \in Nat /\ 4 * n + 2 \in Nat /\ 4 * n + 3 \in Nat
  OBVIOUS
<1>5. /\ KeyByte(4 * n) \in 0 .. ByteBase - 1 /\ KeyByte(4 * n + 1) \in 0 .. ByteBase - 1
      /\ KeyByte(4 * n + 2) \in 0 .. ByteBase - 1 /\ KeyByte(4 * n + 3) \in 0 .. ByteBase - 1
  BY <1>3, <1>4
<1>6. KeyByte(4 * n) * ByteBase + KeyByte(4 * n + 1) \in 0 .. Square - 1
  BY <1>5, Sizes, Shifted DEF Square
<1>7. (KeyByte(4 * n) * ByteBase + KeyByte(4 * n + 1)) * ByteBase + KeyByte(4 * n + 2)
      \in 0 .. Square * ByteBase - 1
  BY <1>5, <1>6, Sizes, Shifted
<1>8. KeyWord(n) \in 0 .. Square * ByteBase * ByteBase - 1
  BY <1>5, <1>7, Sizes, Shifted DEF KeyWord
<1>9. Square * ByteBase * ByteBase = Square * Square
  BY Sizes DEF Square
<1> QED
  BY <1>8, <1>9 DEF Word

-----------------------------------------------------------------------------
(* The rounds of the cipher, and the rounds back.                          *)

\* What a round makes of the block b with the subkey k.
Turned(b, k) == <<XorWord(f(XorWord(b[1], k)), b[2]), XorWord(b[1], k)>>

\* The subkey of the n-th round of the encryption.
SubkeyOf(n) == IF doing \in {"decrypt", "decrypted"} THEN subkeys[Rounds + 1 - n] ELSE subkeys[n]

\* e holds the blocks of the first n rounds of the encryption.
Trace(e, n) ==
  /\ e \in [0 .. Rounds -> Word \X Word] /\ e[0] = plain
  /\ \A m \in 0 .. n - 1 : e[m + 1] = Turned(e[m], SubkeyOf(m))

\* The block that is at hand is the one n rounds before the end of e, behind a
\* round of the decryption.
Undone(e, n) ==
  /\ xL = XorWord(e[Rounds - n][2], SubkeyOf(Rounds + 1 - n))
  /\ xR = XorWord(e[Rounds - n][1], SubkeyOf(Rounds - n))

BlowfishInv ==
  /\ BlowfishTypeOK
  /\ doing \in {"mix", "ready", "encrypted"} => turn = 0
  /\ doing = "encrypt" => \E e : Trace(e, turn) /\ e[turn] = <<xL, xR>>
  /\ doing \in {"encrypted", "decrypt"} => \E e : Trace(e, Rounds) /\ Undone(e, turn)
  /\ Inverts

\* The block a round leaves, and the last swap, are two words.
LEMMA RoundTypes ==
  ASSUME BlowfishTypeOK, NEW n \in 0 .. Rounds + 1
  PROVE  /\ subkeys[n] \in Word /\ SubkeyOf(n) \in Word
         /\ \A b \in Word \X Word : Turned(b, subkeys[n]) \in Word \X Word
<1>1. subkeys[n] \in Word /\ SubkeyOf(n) \in Word
  <2>1. Rounds + 1 - n \in 0 .. Rounds + 1
    BY Sizes
  <2> QED
    BY <2>1 DEF BlowfishTypeOK, SubkeyOf
<1>2. ASSUME NEW b \in Word \X Word PROVE Turned(b, subkeys[n]) \in Word \X Word
  <2>1. b[1] \in Word /\ b[2] \in Word
    OBVIOUS
  <2>2. XorWord(b[1], subkeys[n]) \in Word
    BY <1>1, <2>1, XorType
  <2>3. f(XorWord(b[1], subkeys[n])) \in Word
    BY <2>2, FType DEF BlowfishTypeOK
  <2> QED
    BY <2>1, <2>2, <2>3, XorType DEF Turned
<1> QED
  BY <1>1, <1>2

LEMMA LastTypes == BlowfishTypeOK /\ LastSwap => xL' \in Word /\ xR' \in Word
<1> SUFFICES ASSUME BlowfishTypeOK, LastSwap PROVE xL' \in Word /\ xR' \in Word
  OBVIOUS
<1>1. Rounds \in 0 .. Rounds + 1 /\ Rounds + 1 \in 0 .. Rounds + 1
  BY Sizes
<1>2. subkeys[Rounds] \in Word /\ subkeys[Rounds + 1] \in Word /\ xL \in Word /\ xR \in Word
  BY <1>1 DEF BlowfishTypeOK
<1> QED
  BY <1>2, XorType DEF LastSwap

\* f depends on the tables only.
LEMMA FSame == sboxes' = sboxes => \A x : f(x)' = f(x)
BY DEF f

LEMMA TraceKept ==
  ASSUME NEW e, NEW n \in 0 .. Rounds, Trace(e, n), sboxes' = sboxes, plain' = plain,
         \A m \in 0 .. Rounds : SubkeyOf(m)' = SubkeyOf(m)
  PROVE  Trace(e, n)'
<1>1. ASSUME NEW m \in 0 .. n - 1 PROVE e[m + 1] = Turned(e[m], SubkeyOf(m))'
  <2>1. m \in 0 .. Rounds
    BY Sizes
  <2>2. e[m + 1] = Turned(e[m], SubkeyOf(m))
    BY DEF Trace
  <2>3. Turned(e[m], SubkeyOf(m))' = <<XorWord(f(XorWord(e[m][1], SubkeyOf(m)))', e[m][2]), XorWord(e[m][1], SubkeyOf(m))>>
    BY <2>1 DEF Turned
  <2> QED
    BY <2>1, <2>2, <2>3, FSame DEF Turned
<1> QED
  BY <1>1 DEF Trace

LEMMA RoundKeeps == ASSUME BlowfishInv, Round PROVE BlowfishInv'
<1>1. /\ BlowfishTypeOK /\ InProcess /\ turn \in Nat /\ turn < Rounds /\ turn' = turn + 1
      /\ xL' = XorWord(f(XorWord(xL, subkeys[turn])), xR) /\ xR' = XorWord(xL, subkeys[turn])
      /\ UNCHANGED <<doing, key, subkeys, sboxes, slot, plain>>
  BY DEF BlowfishInv, Round, BlowfishTypeOK
<1>2. turn \in 0 .. Rounds /\ turn \in 0 .. Rounds + 1 /\ turn + 1 \in 0 .. Rounds /\ turn + 1 \in 0 .. Rounds + 1
  BY <1>1, Sizes
<1>3. <<xL', xR'>> = Turned(<<xL, xR>>, subkeys[turn]) /\ <<xL, xR>> \in Word \X Word
  BY <1>1 DEF Turned, BlowfishTypeOK
<1>4. <<xL', xR'>> \in Word \X Word
  BY <1>1, <1>2, <1>3, RoundTypes
<1>5. BlowfishTypeOK'
  <2>1. xL' \in Word /\ xR' \in Word
    BY <1>4
  <2> QED
    BY <1>1, <1>2, <2>1 DEF BlowfishTypeOK, Sboxes
<1>6. \A m : SubkeyOf(m)' = SubkeyOf(m)
  BY <1>1 DEF SubkeyOf
<1>7. ASSUME doing = "encrypt" PROVE \E e : Trace(e, turn)' /\ e[turn'] = <<xL', xR'>>
  <2>1. PICK e : Trace(e, turn) /\ e[turn] = <<xL, xR>>
    BY <1>7 DEF BlowfishInv
  <2>2. PICK g \in [0 .. Rounds -> Word \X Word], k \in 0 .. Rounds :
             /\ k = turn + 1 /\ g[turn + 1] = <<xL', xR'>>
             /\ \A m \in 0 .. turn : g[m] = e[m]
    <3> DEFINE h == [e EXCEPT ![turn + 1] = <<xL', xR'>>]
    <3>1. /\ h \in [0 .. Rounds -> Word \X Word] /\ h[turn + 1] = <<xL', xR'>>
          /\ \A m \in 0 .. turn : h[m] = e[m]
      BY <1>1, <1>2, <1>4, <2>1 DEF Trace
    <3> HIDE DEF h
    <3> QED
      BY <1>2, <3>1
  <2>3. ASSUME NEW m \in 0 .. turn PROVE g[m + 1] = Turned(g[m], SubkeyOf(m))
    <3>1. CASE m = turn
      <4>1. SubkeyOf(turn) = subkeys[turn]
        BY <1>7 DEF SubkeyOf
      <4>2. g[turn] = <<xL, xR>>
        BY <1>1, <2>1, <2>2
      <4> QED
        BY <1>3, <2>2, <3>1, <4>1, <4>2
    <3>2. CASE m # turn
      <4>1. m \in 0 .. turn - 1 /\ m + 1 \in 0 .. turn
        BY <1>1, <3>2
      <4> QED
        BY <2>1, <2>2, <4>1 DEF Trace
    <3> QED
      BY <3>1, <3>2
  <2>4. Trace(g, k)
    <3>1. g[0] = plain
      BY <1>1, <2>1, <2>2 DEF Trace
    <3>2. k - 1 = turn
      BY <1>1, <2>2
    <3> QED
      BY <2>2, <2>3, <3>1, <3>2 DEF Trace
  <2>5. Trace(g, k)'
    BY <1>1, <1>6, <2>4, TraceKept
  <2>6. Trace(g, turn)'
    BY <1>1, <2>2, <2>5 DEF Trace
  <2>7. g[turn'] = <<xL', xR'>>
    BY <1>1, <2>2
  <2> QED
    BY <2>6, <2>7
<1>8. ASSUME doing = "decrypt" PROVE \E e : Trace(e, Rounds)' /\ Undone(e, turn)'
  <2>1. PICK e : Trace(e, Rounds) /\ Undone(e, turn)
    BY <1>8 DEF BlowfishInv
  <2>2. PICK p \in 0 .. Rounds, q \in 0 .. Rounds - 1 : p = Rounds - turn /\ q = Rounds - (turn + 1) /\ p = q + 1
    BY <1>1, <1>2, Sizes
  <2>3. /\ e[p] = Turned(e[q], SubkeyOf(q)) /\ e[p] \in Word \X Word /\ e[q] \in Word \X Word
        /\ q \in 0 .. Rounds
    BY <2>1, <2>2, Sizes DEF Trace
  <2>4. Rounds + 1 - turn = p + 1 /\ Rounds + 1 - (turn + 1) = p /\ Rounds + 1 - (p + 1) = turn
        /\ p \in 0 .. Rounds + 1 /\ p + 1 \in 0 .. Rounds + 1 /\ q \in 0 .. Rounds + 1
    BY <1>1, <2>2, Sizes
  <2>5. xL = XorWord(e[p][2], SubkeyOf(p + 1)) /\ xR = XorWord(e[p][1], SubkeyOf(p))
    BY <2>1, <2>2, <2>4 DEF Undone
  <2>6. subkeys[turn] = SubkeyOf(p + 1)
    BY <1>8, <2>4 DEF SubkeyOf
  <2>7. /\ e[p][1] \in Word /\ e[p][2] \in Word /\ e[q][1] \in Word /\ e[q][2] \in Word
        /\ SubkeyOf(p) \in Word /\ SubkeyOf(p + 1) \in Word /\ SubkeyOf(q) \in Word
    BY <1>1, <2>3, <2>4, RoundTypes
  <2>8. XorWord(xL, subkeys[turn]) = e[p][2]
    BY <2>5, <2>6, <2>7, XorTwice
  <2>9. e[p][2] = XorWord(e[q][1], SubkeyOf(q)) /\ e[p][1] = XorWord(f(e[p][2]), e[q][2])
    BY <2>3 DEF Turned
  <2>10. f(e[p][2]) \in Word
    BY <1>1, <2>7, FType DEF BlowfishTypeOK
  <2>11. xL' = XorWord(e[q][2], SubkeyOf(p))
    <3>1. xL' = XorWord(f(e[p][2]), XorWord(XorWord(f(e[p][2]), e[q][2]), SubkeyOf(p)))
      BY <1>1, <2>5, <2>8, <2>9
    <3> QED
      BY <2>7, <2>10, <3>1, XorTwice
  <2>12. xR' = XorWord(e[q][1], SubkeyOf(q))
    BY <1>1, <2>8, <2>9
  <2>13. Undone(e, turn)'
    BY <1>1, <1>6, <2>2, <2>4, <2>11, <2>12 DEF Undone
  <2>14. Trace(e, Rounds)'
    BY <1>1, <1>6, <2>1, Sizes, TraceKept
  <2> QED
    BY <2>13, <2>14
<1>9. doing \in {"schedule", "encrypt", "decrypt"}
  BY <1>1 DEF InProcess
<1> QED
  BY <1>1, <1>5, <1>7, <1>8, <1>9 DEF BlowfishInv, Inverts

LEMMA BlockDoneKeeps == ASSUME BlowfishInv, BlockDone PROVE BlowfishInv'
<1>1. /\ BlowfishTypeOK /\ doing \in {"encrypt", "decrypt"} /\ turn = Rounds /\ turn' = 0 /\ LastSwap
      /\ doing' = IF doing = "encrypt" THEN "encrypted" ELSE "decrypted"
      /\ UNCHANGED <<key, subkeys, sboxes, slot, plain>>
  BY DEF BlowfishInv, BlockDone
<1>2. BlowfishTypeOK'
  <2>1. xL' \in Word /\ xR' \in Word /\ 0 \in 0 .. Rounds
    BY <1>1, LastTypes, Sizes
  <2> QED
    BY <1>1, <2>1 DEF BlowfishTypeOK, Sboxes
<1>3. \A m : SubkeyOf(m)' = SubkeyOf(m)
  BY <1>1 DEF SubkeyOf
<1>4. /\ xL' = XorWord(xR, subkeys[Rounds + 1]) /\ xR' = XorWord(xL, subkeys[Rounds])
  BY <1>1 DEF LastSwap
<1>5. CASE doing = "encrypt"
  <2>1. PICK e : Trace(e, Rounds) /\ e[Rounds] = <<xL, xR>>
    BY <1>1, <1>5 DEF BlowfishInv
  <2>2. Trace(e, Rounds)'
    BY <1>1, <1>3, <2>1, Sizes, TraceKept
  <2>3. Undone(e, turn)'
    <3>1. Rounds - 0 = Rounds /\ Rounds + 1 - 0 = Rounds + 1
      BY Sizes
    <3>2. SubkeyOf(Rounds + 1) = subkeys[Rounds + 1] /\ SubkeyOf(Rounds) = subkeys[Rounds]
      BY <1>5 DEF SubkeyOf
    <3>3. e[Rounds][1] = xL /\ e[Rounds][2] = xR
      BY <2>1
    <3> QED
      BY <1>1, <1>3, <1>4, <3>1, <3>2, <3>3 DEF Undone
  <2> QED
    BY <1>1, <1>2, <1>5, <2>2, <2>3 DEF BlowfishInv, Inverts
<1>6. CASE doing = "decrypt"
  <2>1. PICK e : Trace(e, Rounds) /\ Undone(e, Rounds)
    BY <1>1, <1>6 DEF BlowfishInv
  <2>2. /\ Rounds - Rounds = 0 /\ Rounds + 1 - Rounds = 1 /\ Rounds + 1 - 0 = Rounds + 1 /\ Rounds + 1 - 1 = Rounds
        /\ 0 \in 0 .. Rounds + 1 /\ 1 \in 0 .. Rounds + 1 /\ 0 \in 0 .. Rounds
    BY Sizes
  <2>3. e[0] = plain /\ plain \in Word \X Word
    BY <1>1, <2>1 DEF Trace, BlowfishTypeOK
  <2>4. xL = XorWord(plain[2], SubkeyOf(1)) /\ xR = XorWord(plain[1], SubkeyOf(0))
    BY <2>1, <2>2, <2>3 DEF Undone
  <2>5. subkeys[Rounds + 1] = SubkeyOf(0) /\ subkeys[Rounds] = SubkeyOf(1)
    BY <1>6, <2>2 DEF SubkeyOf
  <2>6. SubkeyOf(0) \in Word /\ SubkeyOf(1) \in Word /\ plain[1] \in Word /\ plain[2] \in Word
    BY <1>1, <2>2, <2>3, RoundTypes
  <2>7. xL' = plain[1] /\ xR' = plain[2]
    BY <1>4, <2>4, <2>5, <2>6, XorTwice
  <2>8. <<xL', xR'>> = plain'
    BY <1>1, <2>3, <2>7
  <2> QED
    BY <1>1, <1>2, <1>6, <2>8 DEF BlowfishInv, Inverts
<1> QED
  BY <1>1, <1>5, <1>6

\* A value put into a table leaves it a table.
LEMMA TablePut ==
  ASSUME NEW t \in Sboxes, NEW a, NEW b, NEW w \in Word
  PROVE  [t EXCEPT ![a][b] = w] \in Sboxes
<1>1. CASE a \in 1 .. 4
  <2>1. t[a] \in [0 .. ByteBase - 1 -> Word]
    BY <1>1 DEF Sboxes
  <2>2. [t[a] EXCEPT ![b] = w] \in [0 .. ByteBase - 1 -> Word]
    BY <2>1
  <2> QED
    BY <2>2 DEF Sboxes
<1>2. CASE a \notin 1 .. 4
  BY <1>2 DEF Sboxes
<1> QED
  BY <1>1, <1>2

LEMMA ScheduleKeeps == ASSUME BlowfishInv, Schedule PROVE BlowfishInv'
<1>1. /\ BlowfishTypeOK /\ doing = "schedule" /\ turn' = 0 /\ LastSwap
      /\ slot' = slot + 1 /\ doing' \in {"ready", "schedule"} /\ UNCHANGED <<key, plain>>
  BY DEF BlowfishInv, Schedule
<1>2. xL' \in Word /\ xR' \in Word
  BY <1>1, LastTypes
<1>3. subkeys' \in [0 .. Rounds + 1 -> Word] /\ sboxes' \in Sboxes
  <2>1. subkeys \in [0 .. Rounds + 1 -> Word] /\ sboxes \in Sboxes
    BY <1>1 DEF BlowfishTypeOK
  <2>2. CASE subkeys' = [subkeys EXCEPT ![2 * slot] = xL', ![2 * slot + 1] = xR'] /\ sboxes' = sboxes
    <3>1. [subkeys EXCEPT ![2 * slot] = xL'] \in [0 .. Rounds + 1 -> Word]
      BY <1>2, <2>1
    <3> QED
      BY <1>2, <2>1, <2>2, <3>1
  <2>3. ASSUME subkeys' = subkeys, NEW a, NEW b, NEW c,
               sboxes' = [sboxes EXCEPT ![a][b] = xL', ![a][c] = xR']
        PROVE  subkeys' \in [0 .. Rounds + 1 -> Word] /\ sboxes' \in Sboxes
    <3>1. [sboxes EXCEPT ![a][b] = xL'] \in Sboxes
      BY <1>2, <2>1, TablePut
    <3>2. [[sboxes EXCEPT ![a][b] = xL'] EXCEPT ![a][c] = xR'] \in Sboxes
      BY <1>2, <3>1, TablePut
    <3> QED
      BY <2>1, <2>3, <3>2
  <2> QED
    BY <2>2, <2>3 DEF Schedule
<1>4. BlowfishTypeOK'
  <2>1. 0 \in 0 .. Rounds /\ slot + 1 \in Nat
    BY <1>1, Sizes DEF BlowfishTypeOK
  <2> QED
    BY <1>1, <1>2, <1>3, <2>1 DEF BlowfishTypeOK
<1> QED
  BY <1>1, <1>4 DEF BlowfishInv, Inverts

LEMMA MixKeyKeeps == ASSUME BlowfishInv, MixKey PROVE BlowfishInv'
<1>1. /\ BlowfishTypeOK /\ doing = "mix" /\ doing' = "schedule"
      /\ subkeys' = [n \in 0 .. Rounds + 1 |-> XorWord(InitSubkey[n], KeyWord(n))]
      /\ UNCHANGED <<key, sboxes, slot, turn, xL, xR, plain>>
  BY DEF BlowfishInv, MixKey
<1>2. subkeys' \in [0 .. Rounds + 1 -> Word]
  <2>1. \A n \in 0 .. Rounds + 1 : InitSubkey[n] \in Word /\ n \in Nat
    BY BlowfishAssumption
  <2>2. \A n \in 0 .. Rounds + 1 : KeyWord(n) \in Word
    BY <1>1, <2>1, KeyWordType DEF BlowfishTypeOK
  <2>3. \A n \in 0 .. Rounds + 1 : XorWord(InitSubkey[n], KeyWord(n)) \in Word
    BY <2>1, <2>2, XorType
  <2> QED
    BY <1>1, <2>3
<1>3. BlowfishTypeOK'
  BY <1>1, <1>2 DEF BlowfishTypeOK, Sboxes
<1> QED
  BY <1>1, <1>3 DEF BlowfishInv, Inverts

LEMMA EncryptKeeps == ASSUME BlowfishInv, NEW l \in Word, NEW r \in Word, EncryptBlock(l, r) PROVE BlowfishInv'
<1>1. /\ BlowfishTypeOK /\ doing = "ready" /\ doing' = "encrypt" /\ turn = 0
      /\ xL' = l /\ xR' = r /\ plain' = <<l, r>>
      /\ UNCHANGED <<key, subkeys, sboxes, slot, turn>>
  BY DEF BlowfishInv, EncryptBlock
<1>2. BlowfishTypeOK'
  BY <1>1 DEF BlowfishTypeOK, Sboxes
<1>3. \E e : Trace(e, turn)' /\ e[turn'] = <<xL', xR'>>
  <2>1. PICK g \in [0 .. Rounds -> Word \X Word] : g[0] = <<l, r>>
    <3> DEFINE h == [n \in 0 .. Rounds |-> <<l, r>>]
    <3>1. h \in [0 .. Rounds -> Word \X Word] /\ h[0] = <<l, r>>
      BY Sizes
    <3> QED
      BY <3>1
  <2>2. 0 .. turn' - 1 = {} /\ turn' = 0
    BY <1>1
  <2>3. Trace(g, turn)'
    BY <1>1, <2>1, <2>2 DEF Trace
  <2>4. g[turn'] = <<xL', xR'>>
    BY <1>1, <2>1
  <2> QED
    BY <2>3, <2>4
<1> QED
  BY <1>1, <1>2, <1>3 DEF BlowfishInv, Inverts

LEMMA DecryptKeeps == ASSUME BlowfishInv, DecryptBlock PROVE BlowfishInv'
<1>1. /\ BlowfishTypeOK /\ doing = "encrypted" /\ doing' = "decrypt" /\ turn = 0
      /\ subkeys' = [n \in 0 .. Rounds + 1 |-> subkeys[Rounds + 1 - n]]
      /\ UNCHANGED <<key, sboxes, slot, turn, xL, xR, plain>>
  BY DEF BlowfishInv, DecryptBlock
<1>2. \A n \in 0 .. Rounds + 1 : Rounds + 1 - n \in 0 .. Rounds + 1 /\ Rounds + 1 - (Rounds + 1 - n) = n
  BY Sizes
<1>3. subkeys' \in [0 .. Rounds + 1 -> Word]
  BY <1>1, <1>2 DEF BlowfishTypeOK
<1>4. BlowfishTypeOK'
  BY <1>1, <1>3 DEF BlowfishTypeOK, Sboxes
<1>5. \A n \in 0 .. Rounds + 1 : SubkeyOf(n)' = SubkeyOf(n)
  BY <1>1, <1>2 DEF SubkeyOf
<1>6. PICK e : Trace(e, Rounds) /\ Undone(e, 0)
  BY <1>1 DEF BlowfishInv
<1>7. Trace(e, Rounds)'
  BY <1>1, <1>5, <1>6, Sizes, TraceKept
<1>8. Undone(e, turn)'
  <2>1. Rounds \in 0 .. Rounds + 1 /\ Rounds + 1 \in 0 .. Rounds + 1 /\ Rounds - 0 = Rounds /\ Rounds + 1 - 0 = Rounds + 1
    BY Sizes
  <2> QED
    BY <1>1, <1>5, <1>6, <2>1 DEF Undone
<1> QED
  BY <1>1, <1>4, <1>7, <1>8 DEF BlowfishInv, Inverts

\* The invariant of the block cipher: a block that is being decrypted is one the
\* encryption has met, mixed with the subkeys of its place.
THEOREM BlowfishInvariance == BlowfishSpec => []BlowfishInv
<1>1. BlowfishInit => BlowfishInv
  <2> SUFFICES ASSUME BlowfishInit PROVE BlowfishInv
    OBVIOUS
  <2>1. 0 \in Word /\ 0 \in 0 .. Rounds
    BY Sizes DEF Word
  <2>2. InitSubkey \in [0 .. Rounds + 1 -> Word] /\ InitSbox \in Sboxes
    BY BlowfishAssumption DEF Sboxes
  <2> QED
    BY <2>1, <2>2 DEF BlowfishInit, BlowfishInv, BlowfishTypeOK, Inverts
<1>2. BlowfishInv /\ [BlowfishNext]_blowfishVars => BlowfishInv'
  <2>1. ASSUME BlowfishInv, UNCHANGED blowfishVars PROVE BlowfishInv'
    <3>1. UNCHANGED <<doing, key, subkeys, sboxes, slot, turn, xL, xR, plain>>
      BY <2>1 DEF blowfishVars
    <3>2. BlowfishTypeOK' /\ Inverts'
      BY <2>1, <3>1 DEF BlowfishInv, BlowfishTypeOK, Sboxes, Inverts
    <3>3. \A m : SubkeyOf(m)' = SubkeyOf(m)
      BY <3>1 DEF SubkeyOf
    <3>4. ASSUME doing = "encrypt" PROVE \E e : Trace(e, turn)' /\ e[turn'] = <<xL', xR'>>
      <4>0. PICK k \in 0 .. Rounds : k = turn
        BY <2>1 DEF BlowfishInv, BlowfishTypeOK
      <4>1. PICK e : Trace(e, k) /\ e[turn] = <<xL, xR>>
        BY <2>1, <3>4, <4>0 DEF BlowfishInv
      <4>2. Trace(e, k)'
        BY <3>1, <3>3, <4>1, TraceKept
      <4>3. Trace(e, turn)' /\ e[turn'] = <<xL', xR'>>
        BY <3>1, <4>0, <4>1, <4>2 DEF Trace
      <4> QED
        BY <4>3
    <3>5. ASSUME doing \in {"encrypted", "decrypt"} PROVE \E e : Trace(e, Rounds)' /\ Undone(e, turn)'
      <4>1. PICK e : Trace(e, Rounds) /\ Undone(e, turn)
        BY <2>1, <3>5 DEF BlowfishInv
      <4>2. Trace(e, Rounds)'
        BY <3>1, <3>3, <4>1, Sizes, TraceKept
      <4>3. Undone(e, turn)'
        BY <3>1, <3>3, <4>1 DEF Undone
      <4> QED
        BY <4>2, <4>3
    <3> QED
      BY <2>1, <3>1, <3>2, <3>4, <3>5 DEF BlowfishInv
  <2> QED
    BY <2>1, MixKeyKeeps, RoundKeeps, ScheduleKeeps, DecryptKeeps, BlockDoneKeeps, EncryptKeeps DEF BlowfishNext
<1> QED
  BY <1>1, <1>2, PTL DEF BlowfishSpec

\* Decryption gives back every block, under every key, for every even number
\* of rounds and whatever the tables of constants and the key schedule put into
\* the tables: the rounds undo each other.
THEOREM InvertsHolds == BlowfishSpec => []Inverts
BY BlowfishInvariance, PTL DEF BlowfishInv

-----------------------------------------------------------------------------
(* The cipher streams.  Blocks of the message and of the ciphertext.       *)

\* The bytes of the ciphertext.
Piece == Nat \X Nat \X Seq(Int)

\* How many whole blocks the message has, and the block behind them.
Whole == len \div BlockSize
Behind == SubSeq(Plain, Whole * BlockSize + 1, len)

\* The n-th block that is encrypted.
Block(n) ==
  IF n < Whole THEN SubSeq(Plain, n * BlockSize + 1, (n + 1) * BlockSize) ELSE Pad(Behind)

\* The n-th byte of the ciphertext, and how many it has.
CipherByte(n) ==
  Encrypt((n - 1) \div BlockSize, Block((n - 1) \div BlockSize))[((n - 1) % BlockSize) + 1]
TextLen == Whole * BlockSize + Len(Pad(Behind))

Message == mode \in Modes /\ len \in Nat

LEMMA Sized ==
  /\ BlockSize \in Nat \ {0} /\ BufSize \in Nat /\ BufSize % BlockSize = 0 /\ BufSize > BlockSize
  /\ MaxLen \in Nat
BY CipherStreamAssumption

LEMMA DivMod ==
  ASSUME NEW x \in Nat, NEW w \in Nat \ {0}
  PROVE  x \div w \in Nat /\ (x % w) \in 0 .. w - 1 /\ x = (x \div w) * w + (x % w)
OBVIOUS

LEMMA DivUnique ==
  ASSUME NEW w \in Nat \ {0}, NEW q \in Nat, NEW r \in 0 .. w - 1
  PROVE  (q * w + r) \div w = q /\ (q * w + r) % w = r
OBVIOUS

\* What of k blocks the n-th byte is.
LEMMA InBlock ==
  ASSUME NEW k \in Nat, NEW n \in 1 .. k * BlockSize
  PROVE  \E b \in 0 .. k - 1, j \in 1 .. BlockSize :
           b = (n - 1) \div BlockSize /\ j = ((n - 1) % BlockSize) + 1 /\ n = b * BlockSize + j
<1>1. PICK w \in Nat \ {0} : w = BlockSize
  BY Sized
<1>2. n - 1 \in Nat
  BY <1>1
<1>3. PICK b \in Nat, r \in 0 .. w - 1 :
        b = (n - 1) \div w /\ r = (n - 1) % w /\ n - 1 = b * w + r
  BY <1>2, DivMod
<1>4. b < k
  <2>1. b * w < k * w
    BY <1>1, <1>3
  <2> QED
    BY <2>1
<1>5. b \in 0 .. k - 1 /\ r + 1 \in 1 .. w /\ n = b * w + (r + 1)
  BY <1>2, <1>3, <1>4
<1> QED
  BY <1>1, <1>3, <1>5

LEMMA BlockPlace ==
  ASSUME NEW b \in Nat, NEW j \in 1 .. BlockSize
  PROVE  /\ ((b * BlockSize + j) - 1) \div BlockSize = b /\ (((b * BlockSize + j) - 1) % BlockSize) + 1 = j
         /\ b * BlockSize + j \in Nat \ {0} /\ b * BlockSize \in Nat
<1>1. PICK w \in Nat \ {0} : w = BlockSize
  BY Sized
<1>2. j - 1 \in 0 .. w - 1 /\ (b * w + j) - 1 = b * w + (j - 1)
  BY <1>1
<1>3. (b * w + (j - 1)) \div w = b /\ (b * w + (j - 1)) % w = j - 1
  BY <1>2, DivUnique
<1>4. b * w + j \in Nat \ {0} /\ b * w \in Nat /\ j - 1 + 1 = j
  BY <1>1
<1> QED
  BY <1>1, <1>2, <1>3, <1>4

LEMMA Products ==
  ASSUME NEW k \in Nat, NEW n \in Nat
  PROVE  /\ k * BlockSize \in Nat /\ n * BlockSize \in Nat
         /\ (n + k) * BlockSize = n * BlockSize + k * BlockSize
         /\ (n + 1) * BlockSize = n * BlockSize + BlockSize
         /\ n <= k => n * BlockSize <= k * BlockSize
         /\ n * BlockSize < k * BlockSize => n < k
         /\ n < k => n * BlockSize + BlockSize <= k * BlockSize
<1>1. PICK w \in Nat \ {0} : w = BlockSize
  BY Sized
<1>2. /\ k * w \in Nat /\ n * w \in Nat /\ (n + k) * w = n * w + k * w /\ (n + 1) * w = n * w + w
  BY <1>1
<1>3. n <= k => n * w <= k * w
  OBVIOUS
<1>4. n * w < k * w => n < k
  OBVIOUS
<1>5. n < k => n * w + w <= k * w
  <2>1. n < k => (n + 1) * w <= k * w
    OBVIOUS
  <2> QED
    BY <1>2, <2>1
<1> QED
  BY <1>1, <1>2, <1>3, <1>4, <1>5

-----------------------------------------------------------------------------
(* Sequences.                                                              *)

LEMMA Between ==
  ASSUME NEW S, NEW s \in Seq(S), NEW m \in Nat, NEW n \in Nat, m <= n, n <= Len(s)
  PROVE  /\ SubSeq(s, m + 1, n) \in Seq(S) /\ Len(SubSeq(s, m + 1, n)) = n - m
         /\ \A j \in 1 .. n - m : SubSeq(s, m + 1, n)[j] = s[m + j]
<1>1. Len(s) \in Nat
  BY LenProperties
<1>2. \A j \in m + 1 .. n : s[j] \in S
  BY <1>1, ElementOfSeq
<1>3. /\ SubSeq(s, m + 1, n) \in Seq(S)
      /\ Len(SubSeq(s, m + 1, n)) = IF m + 1 <= n THEN n - (m + 1) + 1 ELSE 0
      /\ \A j \in 1 .. n - (m + 1) + 1 : SubSeq(s, m + 1, n)[j] = s[m + 1 + j - 1]
  BY <1>1, <1>2, SubSeqProperties
<1>4. Len(SubSeq(s, m + 1, n)) = n - m
  BY <1>3
<1>5. ASSUME NEW j \in 1 .. n - m PROVE SubSeq(s, m + 1, n)[j] = s[m + j]
  <2>1. j \in 1 .. n - (m + 1) + 1 /\ m + 1 + j - 1 = m + j
    OBVIOUS
  <2> QED
    BY <1>3, <2>1
<1> QED
  BY <1>3, <1>4, <1>5

LEMMA Joined ==
  ASSUME NEW S, NEW s \in Seq(S), NEW t \in Seq(S), NEW m \in Nat, NEW n \in Nat, Len(s) = m, Len(t) = n
  PROVE  /\ s \o t \in Seq(S) /\ Len(s \o t) = m + n
         /\ \A j \in 1 .. m : (s \o t)[j] = s[j]
         /\ \A j \in 1 .. n : (s \o t)[m + j] = t[j]
<1>1. /\ s \o t \in Seq(S) /\ Len(s \o t) = m + n
      /\ \A j \in 1 .. m + n : (s \o t)[j] = IF j <= m THEN s[j] ELSE t[j - m]
  BY ConcatProperties
<1>2. ASSUME NEW j \in 1 .. m PROVE (s \o t)[j] = s[j]
  <2>1. j \in 1 .. m + n /\ j <= m
    OBVIOUS
  <2> QED
    BY <1>1, <2>1
<1>3. ASSUME NEW j \in 1 .. n PROVE (s \o t)[m + j] = t[j]
  <2>1. m + j \in 1 .. m + n /\ ~(m + j <= m) /\ m + j - m = j
    OBVIOUS
  <2> QED
    BY <1>1, <2>1
<1> QED
  BY <1>1, <1>2, <1>3

\* A function on 1 .. n is a sequence.
LEMMA Made ==
  ASSUME NEW S, NEW n \in Nat, NEW s \in [1 .. n -> S]
  PROVE  s \in Seq(S) /\ Len(s) = n
<1>1. s \in Seq(S)
  OBVIOUS
<1>2. DOMAIN s = 1 .. n /\ DOMAIN s = 1 .. Len(s) /\ Len(s) \in Nat
  BY <1>1, LenProperties
<1> QED
  BY <1>1, <1>2

LEMMA PlainSeq == Message => /\ Plain \in Seq(Int) /\ Len(Plain) = len /\ len \in Nat
                             /\ \A j \in 1 .. len : Plain[j] = j
<1> SUFFICES ASSUME Message PROVE /\ Plain \in Seq(Int) /\ Len(Plain) = len /\ len \in Nat
                                  /\ \A j \in 1 .. len : Plain[j] = j
  OBVIOUS
<1>1. len \in Nat
  BY DEF Message
<1>2. Plain \in [1 .. len -> Int] /\ \A j \in 1 .. len : Plain[j] = j
  BY <1>1 DEF Plain
<1> QED
  BY <1>1, <1>2, Made

-----------------------------------------------------------------------------
(* The blocks of the message.                                              *)

LEMMA WholeFacts ==
  ASSUME Message
  PROVE  /\ Whole \in Nat /\ Whole * BlockSize \in Nat /\ len \in Nat
         /\ (len % BlockSize) \in 0 .. BlockSize - 1
         /\ len = Whole * BlockSize + (len % BlockSize) /\ Whole * BlockSize <= len
<1>1. len \in Nat /\ BlockSize \in Nat \ {0}
  BY Sized DEF Message
<1>2. Whole \in Nat /\ (len % BlockSize) \in 0 .. BlockSize - 1 /\ len = Whole * BlockSize + (len % BlockSize)
  BY <1>1, DivMod DEF Whole
<1>3. Whole * BlockSize \in Nat
  BY <1>1, <1>2
<1>4. PICK b \in Nat, r \in Nat : b = Whole * BlockSize /\ r = len % BlockSize
  BY <1>2, <1>3
<1>5. len = b + r
  BY <1>2, <1>4, Zenon
<1>6. b <= len
  BY <1>5, <1>4
<1> QED
  BY <1>1, <1>2, <1>3, <1>4, <1>6, Zenon

\* A whole block.
LEMMA WholeBlock ==
  ASSUME Message, NEW n \in Nat, n < Whole
  PROVE  /\ Block(n) \in Seq(Int) /\ Len(Block(n)) = BlockSize
         /\ n * BlockSize \in Nat /\ n * BlockSize + BlockSize <= len
         /\ \A j \in 1 .. BlockSize : Block(n)[j] = n * BlockSize + j
<1>1. /\ Plain \in Seq(Int) /\ Len(Plain) = len /\ len \in Nat /\ \A j \in 1 .. len : Plain[j] = j
  BY PlainSeq
<1>2. Whole \in Nat /\ Whole * BlockSize <= len /\ Whole * BlockSize \in Nat
  BY WholeFacts
<1>3. n * BlockSize \in Nat /\ (n + 1) * BlockSize = n * BlockSize + BlockSize
      /\ n * BlockSize + BlockSize <= Whole * BlockSize
  BY <1>2, Products
<1>4. PICK w \in Nat \ {0}, b \in Nat, e \in Nat : w = BlockSize /\ b = n * BlockSize /\ e = Whole * BlockSize
  BY <1>2, <1>3, Sized
<1>5. (n + 1) * BlockSize = b + w /\ b + w <= e /\ e <= len
  BY <1>2, <1>3, <1>4, Zenon
<1>6. b + w \in Nat /\ b <= b + w /\ b + w <= len /\ b + w - b = w
  BY <1>4, <1>5, <1>1
<1>7. Block(n) = SubSeq(Plain, b + 1, b + w)
  BY <1>4, <1>5, Zenon DEF Block
<1>8. /\ SubSeq(Plain, b + 1, b + w) \in Seq(Int) /\ Len(SubSeq(Plain, b + 1, b + w)) = b + w - b
      /\ \A j \in 1 .. b + w - b : SubSeq(Plain, b + 1, b + w)[j] = Plain[b + j]
  BY <1>1, <1>4, <1>6, Between
<1>9. ASSUME NEW j \in 1 .. w PROVE Block(n)[j] = b + j
  <2>1. b + j \in 1 .. len
    BY <1>4, <1>6, <1>1
  <2> QED
    BY <1>1, <1>6, <1>7, <1>8, <2>1
<1> QED
  BY <1>4, <1>6, <1>7, <1>8, <1>9

LEMMA BehindFacts ==
  ASSUME Message
  PROVE  /\ Behind \in Seq(Int) /\ Len(Behind) = len % BlockSize
         /\ \A j \in 1 .. len % BlockSize : Behind[j] = Whole * BlockSize + j
<1>1. /\ Plain \in Seq(Int) /\ Len(Plain) = len /\ len \in Nat /\ \A j \in 1 .. len : Plain[j] = j
  BY PlainSeq
<1>2. /\ Whole * BlockSize \in Nat /\ (len % BlockSize) \in 0 .. BlockSize - 1
      /\ len = Whole * BlockSize + (len % BlockSize) /\ Whole * BlockSize <= len
  BY WholeFacts
<1>3. PICK b \in Nat, r \in Nat : b = Whole * BlockSize /\ r = len % BlockSize
  BY <1>2, Sized
<1>4. len = b + r /\ b <= len
  BY <1>2, <1>3, Zenon
<1>5. len - b = r
  BY <1>3, <1>4
<1>6. /\ SubSeq(Plain, b + 1, len) \in Seq(Int) /\ Len(SubSeq(Plain, b + 1, len)) = len - b
      /\ \A j \in 1 .. len - b : SubSeq(Plain, b + 1, len)[j] = Plain[b + j]
  <2>1. PICK e \in Nat : e = len
    BY <1>1
  <2>2. Plain \in Seq(Int) /\ e <= Len(Plain) /\ b <= e
    BY <1>1, <1>4, <2>1
  <2>3. /\ SubSeq(Plain, b + 1, e) \in Seq(Int) /\ Len(SubSeq(Plain, b + 1, e)) = e - b
        /\ \A j \in 1 .. e - b : SubSeq(Plain, b + 1, e)[j] = Plain[b + j]
    BY <2>2, Between
  <2> QED
    BY <2>1, <2>3
<1>7. Behind = SubSeq(Plain, b + 1, len)
  BY <1>3, Zenon DEF Behind
<1>8. ASSUME NEW j \in 1 .. r PROVE Behind[j] = b + j
  <2>1. b + j \in 1 .. len
    BY <1>3, <1>4
  <2> QED
    BY <1>1, <1>5, <1>6, <1>7, <2>1
<1> QED
  BY <1>3, <1>5, <1>6, <1>7, <1>8

\* What padding() makes of less than a block.
LEMMA Padded ==
  ASSUME Message, NEW s \in Seq(Int), NEW n \in 0 .. BlockSize - 1, Len(s) = n
  PROVE  /\ Pad(s) \in Seq(Int) /\ Len(Pad(s)) = IF mode.padding = "none" THEN n ELSE BlockSize
         /\ \A j \in 1 .. n : Pad(s)[j] = s[j]
         /\ mode.padding = "zero" => \A j \in n + 1 .. BlockSize : Pad(s)[j] = 0
         /\ mode.padding = "pkcs7" => \A j \in n + 1 .. BlockSize : Pad(s)[j] = BlockSize - n
<1>1. PICK w \in Nat \ {0} : w = BlockSize
  BY Sized
<1>2. n \in Nat /\ w - n \in Nat
  BY <1>1
<1>3. CASE mode.padding = "none"
  <2>1. Pad(s) = s \o <<>>
    BY <1>3 DEF Pad
  <2>2. <<>> \in Seq(Int) /\ Len(<<>>) = 0 /\ 0 \in Nat
    OBVIOUS
  <2>3. /\ s \o <<>> \in Seq(Int) /\ Len(s \o <<>>) = n + 0 /\ \A j \in 1 .. n : (s \o <<>>)[j] = s[j]
    BY <1>2, <2>2, Joined
  <2> QED
    BY <1>2, <1>3, <2>1, <2>3
<1>4. ASSUME NEW v \in Int, Pad(s) = s \o [i \in 1 .. w - n |-> v]
      PROVE  /\ Pad(s) \in Seq(Int) /\ Len(Pad(s)) = w
             /\ \A j \in 1 .. n : Pad(s)[j] = s[j]
             /\ \A j \in n + 1 .. w : Pad(s)[j] = v
  <2>1. PICK t : t = [i \in 1 .. w - n |-> v]
    OBVIOUS
  <2>2. t \in [1 .. w - n -> Int]
    BY <2>1
  <2>3. t \in Seq(Int) /\ Len(t) = w - n
    BY <1>2, <2>2, Made
  <2>4. /\ s \o t \in Seq(Int) /\ Len(s \o t) = n + (w - n)
        /\ \A j \in 1 .. n : (s \o t)[j] = s[j]
        /\ \A j \in 1 .. w - n : (s \o t)[n + j] = t[j]
    BY <1>2, <2>3, Joined
  <2>5. ASSUME NEW j \in n + 1 .. w PROVE (s \o t)[j] = v
    <3>1. j - n \in 1 .. w - n /\ n + (j - n) = j
      BY <1>2
    <3> QED
      BY <2>1, <2>4, <3>1
  <2>6. Pad(s) = s \o t /\ n + (w - n) = w
    BY <1>2, <1>4, <2>1
  <2> QED
    BY <2>4, <2>5, <2>6
<1>5. CASE mode.padding = "zero"
  <2>1. Pad(s) = s \o [i \in 1 .. w - n |-> 0]
    BY <1>1, <1>5 DEF Pad
  <2>2. 0 \in Int
    OBVIOUS
  <2>3. /\ Pad(s) \in Seq(Int) /\ Len(Pad(s)) = w
        /\ \A j \in 1 .. n : Pad(s)[j] = s[j]
        /\ \A j \in n + 1 .. w : Pad(s)[j] = 0
    BY <1>4, <2>1, <2>2
  <2> QED
    BY <1>1, <1>5, <2>3
<1>6. CASE mode.padding = "pkcs7"
  <2>1. Pad(s) = s \o [i \in 1 .. w - n |-> w - n]
    BY <1>1, <1>6 DEF Pad
  <2>2. w - n \in Int
    BY <1>2
  <2>3. /\ Pad(s) \in Seq(Int) /\ Len(Pad(s)) = w
        /\ \A j \in 1 .. n : Pad(s)[j] = s[j]
        /\ \A j \in n + 1 .. w : Pad(s)[j] = w - n
    BY <1>4, <2>1, <2>2
  <2> QED
    BY <1>1, <1>6, <2>3
<1> QED
  BY <1>3, <1>5, <1>6 DEF Message, Modes

\* The block behind the whole ones.
LEMMA LastBlockFacts ==
  ASSUME Message
  PROVE  /\ Block(Whole) = Pad(Behind) /\ Block(Whole) \in Seq(Int)
         /\ Len(Block(Whole)) = IF mode.padding = "none" THEN len % BlockSize ELSE BlockSize
         /\ \A j \in 1 .. len % BlockSize : Block(Whole)[j] = Whole * BlockSize + j
         /\ mode.padding = "zero" => \A j \in (len % BlockSize) + 1 .. BlockSize : Block(Whole)[j] = 0
         /\ mode.padding = "pkcs7" =>
              \A j \in (len % BlockSize) + 1 .. BlockSize : Block(Whole)[j] = BlockSize - (len % BlockSize)
         /\ TextLen \in Nat /\ TextLen = Whole * BlockSize + Len(Block(Whole))
         /\ Len(Block(Whole)) \in 0 .. BlockSize
<1>1. PICK r : r = len % BlockSize
  OBVIOUS
<1>2. /\ Whole \in Nat /\ Whole * BlockSize \in Nat /\ r \in 0 .. BlockSize - 1
  BY <1>1, WholeFacts
<1>3. Behind \in Seq(Int) /\ Len(Behind) = r /\ \A j \in 1 .. r : Behind[j] = Whole * BlockSize + j
  BY <1>1, BehindFacts
<1>4. Block(Whole) = Pad(Behind)
  BY <1>2 DEF Block
<1>5. /\ Pad(Behind) \in Seq(Int) /\ Len(Pad(Behind)) = IF mode.padding = "none" THEN r ELSE BlockSize
      /\ \A j \in 1 .. r : Pad(Behind)[j] = Behind[j]
      /\ mode.padding = "zero" => \A j \in r + 1 .. BlockSize : Pad(Behind)[j] = 0
      /\ mode.padding = "pkcs7" => \A j \in r + 1 .. BlockSize : Pad(Behind)[j] = BlockSize - r
  BY <1>2, <1>3, Padded
<1>6. Len(Pad(Behind)) \in 0 .. BlockSize
  BY <1>2, <1>5, Sized
<1>7. TextLen = Whole * BlockSize + Len(Pad(Behind))
  BY Zenon DEF TextLen
<1>8. PICK b \in Nat, e \in Nat : b = Whole * BlockSize /\ e = Len(Pad(Behind))
  BY <1>2, <1>6
<1>9. b + e \in Nat /\ TextLen = b + e
  <2>1. b + e \in Nat
    BY <1>8
  <2> QED
    BY <1>7, <1>8, <2>1, Zenon
<1> QED
  BY <1>1, <1>3, <1>4, <1>5, <1>6, <1>7, <1>9, Zenon

-----------------------------------------------------------------------------
(* The cipher.                                                             *)

LEMMA EncryptFacts ==
  ASSUME NEW n \in Nat, NEW s \in Seq(Int)
  PROVE  /\ Encrypt(n, s) \in Seq(Piece) /\ Len(Encrypt(n, s)) = Len(s)
         /\ \A j \in 1 .. Len(s) :
              Encrypt(n, s)[j] = <<n, j, IF mode.cipher = "block" THEN s ELSE <<s[j]>>>>
<1>1. Len(s) \in Nat /\ DOMAIN s = 1 .. Len(s) /\ \A j \in 1 .. Len(s) : s[j] \in Int
  BY LenProperties, ElementOfSeq
<1>2. ASSUME NEW j \in 1 .. Len(s)
      PROVE  <<n, j, IF mode.cipher = "block" THEN s ELSE <<s[j]>>>> \in Piece
  <2>1. s[j] \in Int /\ j \in Nat
    BY <1>1
  <2>2. <<s[j]>> \in Seq(Int)
    BY <2>1
  <2>3. (IF mode.cipher = "block" THEN s ELSE <<s[j]>>) \in Seq(Int)
    BY <2>2
  <2> QED
    BY <2>1, <2>3, Zenon DEF Piece
<1>3. Encrypt(n, s) = [j \in 1 .. Len(s) |-> <<n, j, IF mode.cipher = "block" THEN s ELSE <<s[j]>>>>]
  BY <1>1, Zenon DEF Encrypt
<1>4. Encrypt(n, s) \in [1 .. Len(s) -> Piece]
  BY <1>2, <1>3, Zenon
<1> QED
  BY <1>1, <1>3, <1>4, Made, Zenon

\* The same call of process() gives the bytes back.
LEMMA DecryptBack ==
  ASSUME Message, NEW n \in Nat, NEW s \in Seq(Int)
  PROVE  Decrypt(n, Encrypt(n, s)) = s
<1>1. PICK t : t = Encrypt(n, s)
  OBVIOUS
<1>2. /\ t \in Seq(Piece) /\ Len(t) = Len(s)
      /\ \A j \in 1 .. Len(s) : t[j] = <<n, j, IF mode.cipher = "block" THEN s ELSE <<s[j]>>>>
  BY <1>1, EncryptFacts
<1>3. Len(s) \in Nat /\ DOMAIN s = 1 .. Len(s) /\ DOMAIN t = 1 .. Len(s)
  BY <1>2, LenProperties
<1>4. Decrypt(n, t) = [j \in 1 .. Len(s) |-> Decrypt(n, t)[j]]
  BY <1>3, Zenon DEF Decrypt
<1>5. ASSUME NEW j \in 1 .. Len(s) PROVE Decrypt(n, t)[j] = s[j]
  <2>1. PICK u : u = IF mode.cipher = "block" THEN s ELSE <<s[j]>>
    OBVIOUS
  <2>2. t[j] = <<n, j, u>>
    BY <1>2, <2>1
  <2>3. Sealed(t[j]) /\ t[j][1] = n /\ t[j][2] = j /\ t[j][3] = u
    BY <2>2 DEF Sealed
  <2>4. Decrypt(n, t)[j] =
          IF mode.cipher = "stream" THEN u[1]
          ELSE IF Len(u) = Len(t) /\ Encrypt(n, u) = t THEN u[j] ELSE Noise
    BY <1>3, <2>3, Zenon DEF Decrypt
  <2>5. CASE mode.cipher = "block"
    <3>1. u = s
      BY <2>1, <2>5
    <3> QED
      BY <1>1, <1>2, <2>4, <2>5, <3>1
  <2>6. CASE mode.cipher = "stream"
    <3>1. u = <<s[j]>>
      BY <2>1, <2>6
    <3> QED
      BY <2>4, <2>6, <3>1
  <2> QED
    BY <2>5, <2>6 DEF Message, Modes
<1>6. s = [j \in 1 .. Len(s) |-> s[j]]
  BY <1>3, LenProperties
<1> QED
  BY <1>1, <1>4, <1>5, <1>6, Zenon

LEMMA AnyBlock ==
  ASSUME Message, NEW n \in Nat, n <= Whole
  PROVE  /\ Block(n) \in Seq(Int) /\ Len(Block(n)) \in 0 .. BlockSize
         /\ n < Whole => Len(Block(n)) = BlockSize
<1>1. CASE n < Whole
  <2>1. Block(n) \in Seq(Int) /\ Len(Block(n)) = BlockSize
    BY <1>1, WholeBlock
  <2> QED
    BY <2>1, Sized
<1>2. CASE ~(n < Whole)
  <2>1. Whole \in Nat
    BY WholeFacts
  <2>2. n = Whole
    BY <1>2, <2>1
  <2> QED
    BY <1>2, <2>2, LastBlockFacts
<1> QED
  BY <1>1, <1>2

\* A byte of the ciphertext, told by its block.
LEMMA CipherAt ==
  ASSUME Message, NEW n \in Nat, n <= Whole, NEW j \in 1 .. Len(Block(n))
  PROVE  /\ CipherByte(n * BlockSize + j) = Encrypt(n, Block(n))[j]
         /\ CipherByte(n * BlockSize + j) \in Piece
<1>1. Block(n) \in Seq(Int) /\ Len(Block(n)) \in 0 .. BlockSize
  BY AnyBlock
<1>2. j \in 1 .. BlockSize
  BY <1>1, Sized
<1>3. ((n * BlockSize + j) - 1) \div BlockSize = n /\ (((n * BlockSize + j) - 1) % BlockSize) + 1 = j
  BY <1>2, BlockPlace
<1>4. CipherByte(n * BlockSize + j) = Encrypt(n, Block(n))[j]
  <2>1. PICK x : x = n * BlockSize + j
    OBVIOUS
  <2>2. (x - 1) \div BlockSize = n /\ ((x - 1) % BlockSize) + 1 = j
    BY <1>3, <2>1, Zenon
  <2>3. CipherByte(x) = Encrypt((x - 1) \div BlockSize, Block((x - 1) \div BlockSize))[((x - 1) % BlockSize) + 1]
    BY Zenon DEF CipherByte
  <2> QED
    BY <2>1, <2>2, <2>3, Zenon
<1>5. Encrypt(n, Block(n)) \in Seq(Piece) /\ Len(Encrypt(n, Block(n))) = Len(Block(n))
  BY <1>1, EncryptFacts
<1>6. Encrypt(n, Block(n))[j] \in Piece
  BY <1>5, ElementOfSeq
<1> QED
  BY <1>4, <1>6

\* A block inside a buffer that starts with block n.
LEMMA BlockOf ==
  ASSUME NEW S, NEW s \in Seq(S), NEW k \in Nat, k * BlockSize <= Len(s), NEW b \in 0 .. k - 1
  PROVE  /\ SubSeq(s, b * BlockSize + 1, (b + 1) * BlockSize) \in Seq(S)
         /\ Len(SubSeq(s, b * BlockSize + 1, (b + 1) * BlockSize)) = BlockSize
         /\ \A j \in 1 .. BlockSize :
              /\ SubSeq(s, b * BlockSize + 1, (b + 1) * BlockSize)[j] = s[b * BlockSize + j]
              /\ b * BlockSize + j \in 1 .. k * BlockSize
<1>1. b \in Nat /\ b < k
  OBVIOUS
<1>2. /\ b * BlockSize \in Nat /\ k * BlockSize \in Nat /\ b * BlockSize + BlockSize <= k * BlockSize
      /\ (b + 1) * BlockSize = b * BlockSize + BlockSize
  BY <1>1, Products
<1>3. PICK w \in Nat \ {0}, m \in Nat, e \in Nat : w = BlockSize /\ m = b * BlockSize /\ e = k * BlockSize
  BY <1>2, Sized
<1>4. m + w <= e /\ (b + 1) * BlockSize = m + w /\ e <= Len(s)
  BY <1>2, <1>3, Zenon
<1>5. Len(s) \in Nat
  BY LenProperties
<1>6. m + w \in Nat /\ m <= m + w /\ m + w <= Len(s) /\ m + w - m = w
  BY <1>3, <1>4, <1>5
<1>7. /\ SubSeq(s, m + 1, m + w) \in Seq(S) /\ Len(SubSeq(s, m + 1, m + w)) = m + w - m
      /\ \A j \in 1 .. m + w - m : SubSeq(s, m + 1, m + w)[j] = s[m + j]
  BY <1>3, <1>6, Between
<1>8. \A j \in 1 .. w : m + j \in 1 .. e
  BY <1>3, <1>4
<1> QED
  BY <1>3, <1>4, <1>6, <1>7, <1>8, Zenon

\* Sums of blocks.
LEMMA Shift ==
  ASSUME NEW n \in Nat, NEW b \in Nat, NEW j \in Nat
  PROVE  n * BlockSize + (b * BlockSize + j) = (n + b) * BlockSize + j
<1>1. n * BlockSize \in Nat /\ b * BlockSize \in Nat /\ (n + b) * BlockSize = n * BlockSize + b * BlockSize
  BY Products
<1>2. PICK x \in Nat, y \in Nat : x = n * BlockSize /\ y = b * BlockSize
  BY <1>1
<1>3. x + (y + j) = x + y + j
  BY <1>2
<1> QED
  BY <1>1, <1>2, <1>3, Zenon

\* Whole blocks of the message are encrypted to their part of the ciphertext.
LEMMA EncBlocks ==
  ASSUME Message, NEW n \in Nat, NEW k \in Nat, n + k <= Whole,
         NEW s \in Seq(Int), k * BlockSize <= Len(s),
         \A i \in 1 .. k * BlockSize : s[i] = n * BlockSize + i
  PROVE  /\ ProcessBlocks(FALSE, n, s, k) \in Seq(Piece)
         /\ Len(ProcessBlocks(FALSE, n, s, k)) = k * BlockSize
         /\ \A q \in 1 .. k * BlockSize :
              ProcessBlocks(FALSE, n, s, k)[q] = CipherByte(n * BlockSize + q)
<1>0. Whole \in Nat /\ k * BlockSize \in Nat
  BY WholeFacts, Products
<1> DEFINE P == ProcessBlocks(FALSE, n, s, k)
<1>1. ASSUME NEW q \in 1 .. k * BlockSize
      PROVE  P[q] = CipherByte(n * BlockSize + q) /\ P[q] \in Piece
  <2>1. PICK b \in 0 .. k - 1, j \in 1 .. BlockSize :
          b = (q - 1) \div BlockSize /\ j = ((q - 1) % BlockSize) + 1 /\ q = b * BlockSize + j
    BY InBlock
  <2>2. PICK c : c = SubSeq(s, b * BlockSize + 1, (b + 1) * BlockSize)
    OBVIOUS
  <2>3. /\ c \in Seq(Int) /\ Len(c) = BlockSize
        /\ \A i \in 1 .. BlockSize : c[i] = s[b * BlockSize + i] /\ b * BlockSize + i \in 1 .. k * BlockSize
    <3>1. /\ SubSeq(s, b * BlockSize + 1, (b + 1) * BlockSize) \in Seq(Int)
          /\ Len(SubSeq(s, b * BlockSize + 1, (b + 1) * BlockSize)) = BlockSize
          /\ \A i \in 1 .. BlockSize :
               /\ SubSeq(s, b * BlockSize + 1, (b + 1) * BlockSize)[i] = s[b * BlockSize + i]
               /\ b * BlockSize + i \in 1 .. k * BlockSize
      BY BlockOf
    <3> QED
      BY <2>2, <3>1, Zenon
  <2>4. b \in Nat /\ n + b \in Nat /\ n + b < Whole /\ n + b <= Whole
    BY <1>0
  <2>5. /\ Block(n + b) \in Seq(Int) /\ Len(Block(n + b)) = BlockSize
        /\ \A i \in 1 .. BlockSize : Block(n + b)[i] = (n + b) * BlockSize + i
    BY <2>4, WholeBlock
  <2>6. ASSUME NEW i \in 1 .. BlockSize PROVE c[i] = Block(n + b)[i]
    <3>1. i \in Nat
      OBVIOUS
    <3>2. c[i] = n * BlockSize + (b * BlockSize + i)
      BY <2>3
    <3> QED
      BY <2>4, <2>5, <3>1, <3>2, Shift
  <2>7. c = Block(n + b)
    BY <2>3, <2>5, <2>6, SeqEqual
  <2>8. P[q] = Encrypt(n + b, c)[j]
    BY <2>1, <2>2, Zenon DEF ProcessBlocks, Process
  <2>9. j \in 1 .. Len(Block(n + b)) /\ j \in Nat
    BY <2>5
  <2>10. /\ CipherByte((n + b) * BlockSize + j) = Encrypt(n + b, Block(n + b))[j]
         /\ CipherByte((n + b) * BlockSize + j) \in Piece
    BY <2>4, <2>9, CipherAt
  <2>11. n * BlockSize + q = (n + b) * BlockSize + j
    BY <2>1, <2>4, <2>9, Shift
  <2> QED
    BY <2>7, <2>8, <2>10, <2>11, Zenon
<1>2. P = [q \in 1 .. k * BlockSize |-> P[q]]
  BY Zenon DEF ProcessBlocks
<1>3. P \in [1 .. k * BlockSize -> Piece]
  BY <1>1, <1>2, Zenon
<1>4. P \in Seq(Piece) /\ Len(P) = k * BlockSize
  BY <1>0, <1>3, Made
<1> QED
  BY <1>1, <1>4

\* And back.
LEMMA DecBlocks ==
  ASSUME Message, NEW n \in Nat, NEW k \in Nat, n + k <= Whole,
         NEW t \in Seq(Piece), k * BlockSize <= Len(t),
         \A i \in 1 .. k * BlockSize : t[i] = CipherByte(n * BlockSize + i)
  PROVE  /\ ProcessBlocks(TRUE, n, t, k) \in Seq(Int)
         /\ Len(ProcessBlocks(TRUE, n, t, k)) = k * BlockSize
         /\ \A q \in 1 .. k * BlockSize : ProcessBlocks(TRUE, n, t, k)[q] = n * BlockSize + q
<1>0. Whole \in Nat /\ k * BlockSize \in Nat /\ n * BlockSize \in Nat
  BY WholeFacts, Products
<1> DEFINE P == ProcessBlocks(TRUE, n, t, k)
<1>1. ASSUME NEW q \in 1 .. k * BlockSize PROVE P[q] = n * BlockSize + q
  <2>1. PICK b \in 0 .. k - 1, j \in 1 .. BlockSize :
          b = (q - 1) \div BlockSize /\ j = ((q - 1) % BlockSize) + 1 /\ q = b * BlockSize + j
    BY InBlock
  <2>2. PICK c : c = SubSeq(t, b * BlockSize + 1, (b + 1) * BlockSize)
    OBVIOUS
  <2>3. /\ c \in Seq(Piece) /\ Len(c) = BlockSize
        /\ \A i \in 1 .. BlockSize : c[i] = t[b * BlockSize + i] /\ b * BlockSize + i \in 1 .. k * BlockSize
    <3>1. /\ SubSeq(t, b * BlockSize + 1, (b + 1) * BlockSize) \in Seq(Piece)
          /\ Len(SubSeq(t, b * BlockSize + 1, (b + 1) * BlockSize)) = BlockSize
          /\ \A i \in 1 .. BlockSize :
               /\ SubSeq(t, b * BlockSize + 1, (b + 1) * BlockSize)[i] = t[b * BlockSize + i]
               /\ b * BlockSize + i \in 1 .. k * BlockSize
      BY BlockOf
    <3> QED
      BY <2>2, <3>1, Zenon
  <2>4. b \in Nat /\ n + b \in Nat /\ n + b < Whole /\ n + b <= Whole
    BY <1>0
  <2>5. /\ Block(n + b) \in Seq(Int) /\ Len(Block(n + b)) = BlockSize
        /\ \A i \in 1 .. BlockSize : Block(n + b)[i] = (n + b) * BlockSize + i
    BY <2>4, WholeBlock
  <2>6. /\ Encrypt(n + b, Block(n + b)) \in Seq(Piece)
        /\ Len(Encrypt(n + b, Block(n + b))) = BlockSize
    BY <2>4, <2>5, EncryptFacts
  <2>7. ASSUME NEW i \in 1 .. BlockSize PROVE c[i] = Encrypt(n + b, Block(n + b))[i]
    <3>1. i \in Nat /\ i \in 1 .. Len(Block(n + b))
      BY <2>5
    <3>2. c[i] = CipherByte(n * BlockSize + (b * BlockSize + i))
      BY <2>3
    <3>3. n * BlockSize + (b * BlockSize + i) = (n + b) * BlockSize + i
      BY <2>4, <3>1, Shift
    <3>4. CipherByte((n + b) * BlockSize + i) = Encrypt(n + b, Block(n + b))[i]
      BY <2>4, <3>1, CipherAt
    <3> QED
      BY <3>2, <3>3, <3>4, Zenon
  <2>8. c = Encrypt(n + b, Block(n + b))
    BY <2>3, <2>6, <2>7, SeqEqual
  <2>9. P[q] = Decrypt(n + b, c)[j]
    BY <2>1, <2>2, Zenon DEF ProcessBlocks, Process
  <2>10. Decrypt(n + b, c) = Block(n + b)
    BY <2>4, <2>5, <2>8, DecryptBack
  <2>11. j \in Nat
    OBVIOUS
  <2>12. n * BlockSize + q = (n + b) * BlockSize + j
    BY <2>1, <2>4, <2>11, Shift
  <2> QED
    BY <2>5, <2>9, <2>10, <2>12
<1>2. P = [q \in 1 .. k * BlockSize |-> P[q]]
  BY Zenon DEF ProcessBlocks
<1>3. ASSUME NEW q \in 1 .. k * BlockSize PROVE P[q] \in Int
  <2>1. PICK e \in Nat, m \in Nat : e = k * BlockSize /\ m = n * BlockSize
    BY <1>0
  <2>2. q \in 1 .. e
    BY <2>1
  <2>3. m + q \in Int
    BY <2>2
  <2>4. P[q] = m + q
    BY <1>1, <2>1, Zenon
  <2> QED
    BY <2>3, <2>4, Zenon
<1>4. P \in [1 .. k * BlockSize -> Int]
  BY <1>2, <1>3, Zenon
<1>5. P \in Seq(Int) /\ Len(P) = k * BlockSize
  BY <1>0, <1>4, Made
<1> QED
  BY <1>1, <1>5

-----------------------------------------------------------------------------
(* Parts of the message and of the ciphertext.                             *)

\* t is a bytes of the ciphertext, or of the message, behind the first n.
CipherFrom(t, n, a) == t \in Seq(Piece) /\ Len(t) = a /\ \A q \in 1 .. a : t[q] = CipherByte(n + q)
PlainFrom(t, n, a) == t \in Seq(Int) /\ Len(t) = a /\ \A q \in 1 .. a : t[q] = n + q

LEMMA CipherJoin ==
  ASSUME NEW n \in Nat, NEW a \in Nat, NEW b \in Nat, NEW t, NEW u,
         CipherFrom(t, n, a), CipherFrom(u, n + a, b)
  PROVE  CipherFrom(t \o u, n, a + b)
<1>1. t \in Seq(Piece) /\ u \in Seq(Piece) /\ Len(t) = a /\ Len(u) = b
  BY DEF CipherFrom
<1>2. /\ t \o u \in Seq(Piece) /\ Len(t \o u) = a + b
      /\ \A j \in 1 .. a : (t \o u)[j] = t[j]
      /\ \A j \in 1 .. b : (t \o u)[a + j] = u[j]
  <2>1. t \o u \in Seq(Piece) /\ Len(t \o u) = a + b
    BY <1>1, Joined
  <2>2. \A j \in 1 .. a : (t \o u)[j] = t[j]
    BY <1>1, Joined
  <2>3. ASSUME NEW j \in 1 .. b PROVE (t \o u)[a + j] = u[j]
    <3>1. a + j \in 1 .. Len(t) + Len(u) /\ ~(a + j <= Len(t)) /\ a + j - Len(t) = j
      BY <1>1
    <3> QED
      BY <1>1, <3>1, ConcatProperties
  <2> QED
    BY <2>1, <2>2, <2>3
<1>3. ASSUME NEW q \in 1 .. a + b PROVE (t \o u)[q] = CipherByte(n + q)
  <2>1. CASE q <= a
    <3>1. q \in 1 .. a
      BY <2>1
    <3> QED
      BY <1>2, <3>1, Zenon DEF CipherFrom
  <2>2. CASE ~(q <= a)
    <3>1. PICK j \in 1 .. b : q = a + j
      <4>1. q - a \in 1 .. b /\ q = a + (q - a)
        BY <2>2
      <4> QED
        BY <4>1
    <3>2. n + q = n + a + j
      BY <3>1
    <3>3. (t \o u)[q] = u[j] /\ u[j] = CipherByte(n + a + j)
      BY <1>2, <3>1, Zenon DEF CipherFrom
    <3> QED
      BY <3>2, <3>3, Zenon
  <2> QED
    BY <2>1, <2>2
<1> QED
  BY <1>2, <1>3, Zenon DEF CipherFrom

LEMMA PlainJoin ==
  ASSUME NEW n \in Nat, NEW a \in Nat, NEW b \in Nat, NEW t, NEW u,
         PlainFrom(t, n, a), PlainFrom(u, n + a, b)
  PROVE  PlainFrom(t \o u, n, a + b)
<1>1. t \in Seq(Int) /\ u \in Seq(Int) /\ Len(t) = a /\ Len(u) = b
  BY DEF PlainFrom
<1>2. /\ t \o u \in Seq(Int) /\ Len(t \o u) = a + b
      /\ \A j \in 1 .. a : (t \o u)[j] = t[j]
      /\ \A j \in 1 .. b : (t \o u)[a + j] = u[j]
  <2>1. t \o u \in Seq(Int) /\ Len(t \o u) = a + b
    BY <1>1, Joined
  <2>2. \A j \in 1 .. a : (t \o u)[j] = t[j]
    BY <1>1, Joined
  <2>3. ASSUME NEW j \in 1 .. b PROVE (t \o u)[a + j] = u[j]
    <3>1. a + j \in 1 .. Len(t) + Len(u) /\ ~(a + j <= Len(t)) /\ a + j - Len(t) = j
      BY <1>1
    <3> QED
      BY <1>1, <3>1, ConcatProperties
  <2> QED
    BY <2>1, <2>2, <2>3
<1>3. ASSUME NEW q \in 1 .. a + b PROVE (t \o u)[q] = n + q
  <2>1. CASE q <= a
    <3>1. q \in 1 .. a
      BY <2>1
    <3> QED
      BY <1>2, <3>1, Zenon DEF PlainFrom
  <2>2. CASE ~(q <= a)
    <3>1. PICK j \in 1 .. b : q = a + j
      <4>1. q - a \in 1 .. b /\ q = a + (q - a)
        BY <2>2
      <4> QED
        BY <4>1
    <3>2. n + q = n + a + j
      BY <3>1
    <3>3. (t \o u)[q] = u[j] /\ u[j] = n + a + j
      BY <1>2, <3>1, Zenon DEF PlainFrom
    <3> QED
      BY <3>2, <3>3, Zenon
  <2> QED
    BY <2>1, <2>2
<1> QED
  BY <1>2, <1>3, Zenon DEF PlainFrom

LEMMA CipherCut ==
  ASSUME NEW n \in Nat, NEW a \in Nat, NEW t, CipherFrom(t, n, a),
         NEW m \in Nat, NEW e \in Nat, m <= e, e <= a
  PROVE  CipherFrom(SubSeq(t, m + 1, e), n + m, e - m)
<1>1. t \in Seq(Piece) /\ Len(t) = a
  BY DEF CipherFrom
<1>2. /\ SubSeq(t, m + 1, e) \in Seq(Piece) /\ Len(SubSeq(t, m + 1, e)) = e - m
      /\ \A j \in 1 .. e - m : SubSeq(t, m + 1, e)[j] = t[m + j]
  <2>1. e <= Len(t)
    BY <1>1
  <2>2. SubSeq(t, m + 1, e) \in Seq(Piece) /\ Len(SubSeq(t, m + 1, e)) = e - m
    BY <1>1, <2>1, Between
  <2>3. \A j \in 1 .. e - m : SubSeq(t, m + 1, e)[j] = t[m + j]
    BY <1>1, <2>1, Between
  <2> QED
    BY <2>2, <2>3
<1>3. ASSUME NEW j \in 1 .. e - m PROVE SubSeq(t, m + 1, e)[j] = CipherByte(n + m + j)
  <2>1. m + j \in 1 .. a /\ n + (m + j) = n + m + j
    OBVIOUS
  <2>2. t[m + j] = CipherByte(n + (m + j))
    BY <2>1, Zenon DEF CipherFrom
  <2> QED
    BY <1>2, <2>1, <2>2, Zenon
<1> QED
  BY <1>2, <1>3, Zenon DEF CipherFrom

LEMMA PlainCut ==
  ASSUME NEW n \in Nat, NEW a \in Nat, NEW t, PlainFrom(t, n, a),
         NEW m \in Nat, NEW e \in Nat, m <= e, e <= a
  PROVE  PlainFrom(SubSeq(t, m + 1, e), n + m, e - m)
<1>1. t \in Seq(Int) /\ Len(t) = a
  BY DEF PlainFrom
<1>2. /\ SubSeq(t, m + 1, e) \in Seq(Int) /\ Len(SubSeq(t, m + 1, e)) = e - m
      /\ \A j \in 1 .. e - m : SubSeq(t, m + 1, e)[j] = t[m + j]
  <2>1. e <= Len(t)
    BY <1>1
  <2>2. SubSeq(t, m + 1, e) \in Seq(Int) /\ Len(SubSeq(t, m + 1, e)) = e - m
    BY <1>1, <2>1, Between
  <2>3. \A j \in 1 .. e - m : SubSeq(t, m + 1, e)[j] = t[m + j]
    BY <1>1, <2>1, Between
  <2> QED
    BY <2>2, <2>3
<1>3. ASSUME NEW j \in 1 .. e - m PROVE SubSeq(t, m + 1, e)[j] = n + m + j
  <2>1. m + j \in 1 .. a /\ n + (m + j) = n + m + j
    OBVIOUS
  <2>2. t[m + j] = n + (m + j)
    BY <2>1, Zenon DEF PlainFrom
  <2> QED
    BY <1>2, <2>1, <2>2, Zenon
<1> QED
  BY <1>2, <1>3, Zenon DEF PlainFrom

\* The same part is the same sequence.
LEMMA SamePart ==
  ASSUME NEW n \in Nat, NEW a \in Nat, NEW t, NEW u
  PROVE  /\ CipherFrom(t, n, a) /\ CipherFrom(u, n, a) => t = u
         /\ PlainFrom(t, n, a) /\ PlainFrom(u, n, a) => t = u
<1>1. ASSUME CipherFrom(t, n, a), CipherFrom(u, n, a) PROVE t = u
  <2>1. t \in Seq(Piece) /\ u \in Seq(Piece) /\ Len(t) = a /\ Len(u) = a /\ \A q \in 1 .. a : t[q] = u[q]
    BY <1>1, Zenon DEF CipherFrom
  <2> QED
    BY <2>1, SeqEqual
<1>2. ASSUME PlainFrom(t, n, a), PlainFrom(u, n, a) PROVE t = u
  <2>1. t \in Seq(Int) /\ u \in Seq(Int) /\ Len(t) = a /\ Len(u) = a /\ \A q \in 1 .. a : t[q] = u[q]
    BY <1>2, Zenon DEF PlainFrom
  <2> QED
    BY <2>1, SeqEqual
<1> QED
  BY <1>1, <1>2

LEMMA PlainAll == Message => len \in Nat /\ PlainFrom(Plain, 0, len)
<1> SUFFICES ASSUME Message PROVE len \in Nat /\ PlainFrom(Plain, 0, len)
  OBVIOUS
<1>1. /\ Plain \in Seq(Int) /\ Len(Plain) = len /\ len \in Nat /\ \A j \in 1 .. len : Plain[j] = j
  BY PlainSeq
<1>2. \A q \in 1 .. len : Plain[q] = 0 + q
  BY <1>1
<1> QED
  BY <1>1, <1>2, Zenon DEF PlainFrom

\* process() on whole blocks, there and back.
LEMMA EncPart ==
  ASSUME Message, NEW n \in Nat, NEW k \in Nat, n + k <= Whole,
         NEW a \in Nat, NEW s, PlainFrom(s, n * BlockSize, a), k * BlockSize <= a
  PROVE  CipherFrom(ProcessBlocks(FALSE, n, s, k), n * BlockSize, k * BlockSize)
<1>1. s \in Seq(Int) /\ Len(s) = a /\ \A q \in 1 .. a : s[q] = n * BlockSize + q
  BY Zenon DEF PlainFrom
<1>2. k * BlockSize \in Nat
  BY Products
<1>3. \A i \in 1 .. k * BlockSize : i \in 1 .. a
  BY <1>2
<1>4. \A i \in 1 .. k * BlockSize : s[i] = n * BlockSize + i
  BY <1>1, <1>3, Zenon
<1>5. k * BlockSize <= Len(s)
  BY <1>1, Zenon
<1>6. /\ ProcessBlocks(FALSE, n, s, k) \in Seq(Piece)
      /\ Len(ProcessBlocks(FALSE, n, s, k)) = k * BlockSize
      /\ \A q \in 1 .. k * BlockSize :
           ProcessBlocks(FALSE, n, s, k)[q] = CipherByte(n * BlockSize + q)
  BY <1>1, <1>4, <1>5, EncBlocks
<1> QED
  BY <1>6, Zenon DEF CipherFrom

LEMMA DecPart ==
  ASSUME Message, NEW n \in Nat, NEW k \in Nat, n + k <= Whole,
         NEW a \in Nat, NEW t, CipherFrom(t, n * BlockSize, a), k * BlockSize <= a
  PROVE  PlainFrom(ProcessBlocks(TRUE, n, t, k), n * BlockSize, k * BlockSize)
<1>1. t \in Seq(Piece) /\ Len(t) = a /\ \A q \in 1 .. a : t[q] = CipherByte(n * BlockSize + q)
  BY Zenon DEF CipherFrom
<1>2. k * BlockSize \in Nat
  BY Products
<1>3. \A i \in 1 .. k * BlockSize : i \in 1 .. a
  BY <1>2
<1>4. \A i \in 1 .. k * BlockSize : t[i] = CipherByte(n * BlockSize + i)
  BY <1>1, <1>3, Zenon
<1>5. k * BlockSize <= Len(t)
  BY <1>1, Zenon
<1>6. /\ ProcessBlocks(TRUE, n, t, k) \in Seq(Int)
      /\ Len(ProcessBlocks(TRUE, n, t, k)) = k * BlockSize
      /\ \A q \in 1 .. k * BlockSize : ProcessBlocks(TRUE, n, t, k)[q] = n * BlockSize + q
  BY <1>1, <1>4, <1>5, DecBlocks
<1> QED
  BY <1>6, Zenon DEF PlainFrom

\* One block of the ciphertext.
LEMMA BlockPart ==
  ASSUME Message, NEW m \in Nat, m <= Whole
  PROVE  CipherFrom(Encrypt(m, Block(m)), m * BlockSize, Len(Block(m)))
<1>1. Block(m) \in Seq(Int)
  BY AnyBlock
<1>2. /\ Encrypt(m, Block(m)) \in Seq(Piece) /\ Len(Encrypt(m, Block(m))) = Len(Block(m))
  BY <1>1, EncryptFacts
<1>3. \A q \in 1 .. Len(Block(m)) : Encrypt(m, Block(m))[q] = CipherByte(m * BlockSize + q)
  BY CipherAt
<1> QED
  BY <1>2, <1>3, Zenon DEF CipherFrom

\* The n-th to the m-th block, the last one of any length.
LEMMA EncToBlock ==
  ASSUME Message, NEW n \in Nat, NEW m \in Nat, n <= m, m <= Whole,
         NEW a \in Nat, NEW s, PlainFrom(s, n * BlockSize, a), (m - n) * BlockSize <= a
  PROVE  CipherFrom(ProcessBlocks(FALSE, n, s, m - n) \o Encrypt(m, Block(m)),
                    n * BlockSize, (m * BlockSize + Len(Block(m))) - n * BlockSize)
<1>1. Whole \in Nat /\ Len(Block(m)) \in Nat
  BY WholeFacts, AnyBlock, Sized
<1>2. PICK k \in Nat : k = m - n
  OBVIOUS
<1>3. n + k = m /\ n + k <= Whole /\ k * BlockSize <= a
  BY <1>1, <1>2
<1>4. CipherFrom(ProcessBlocks(FALSE, n, s, k), n * BlockSize, k * BlockSize)
  BY <1>3, EncPart
<1>5. CipherFrom(Encrypt(m, Block(m)), m * BlockSize, Len(Block(m)))
  BY BlockPart
<1>6. PICK x \in Nat, y \in Nat, l \in Nat : x = n * BlockSize /\ y = k * BlockSize /\ l = Len(Block(m))
  BY <1>1, Products
<1>7. m * BlockSize = x + y
  BY <1>3, <1>6, Products
<1>8. CipherFrom(ProcessBlocks(FALSE, n, s, k), x, y) /\ CipherFrom(Encrypt(m, Block(m)), x + y, l)
  BY <1>4, <1>5, <1>6, <1>7, Zenon
<1>9. CipherFrom(ProcessBlocks(FALSE, n, s, k) \o Encrypt(m, Block(m)), x, y + l)
  BY <1>6, <1>8, CipherJoin
<1>10. y + l = (x + y + l) - x
  BY <1>6
<1>11. (m * BlockSize + Len(Block(m))) - n * BlockSize = (x + y + l) - x
  BY <1>6, <1>7, Zenon
<1> QED
  BY <1>2, <1>6, <1>9, <1>10, <1>11, Zenon

LEMMA TextPoint ==
  ASSUME Message PROVE TextLen \in Nat /\ CipherFrom(CipherText, 0, TextLen)
<1>1. /\ Whole \in Nat /\ Whole * BlockSize \in Nat /\ Whole * BlockSize <= len /\ len \in Nat
  BY WholeFacts
<1>2. /\ Block(Whole) = Pad(Behind) /\ TextLen \in Nat /\ TextLen = Whole * BlockSize + Len(Block(Whole))
      /\ Len(Block(Whole)) \in Nat
  BY LastBlockFacts, Sized
<1>3. PlainFrom(Plain, 0, len)
  BY PlainAll
<1>4. PICK w \in Nat : w = Whole
  BY <1>1
<1>5. 0 * BlockSize = 0 /\ 0 + w <= Whole /\ w * BlockSize <= len /\ 0 \in Nat
  BY <1>1, <1>4, Sized
<1>6. PlainFrom(Plain, 0 * BlockSize, len)
  BY <1>3, <1>5, Zenon
<1>7. PICK l : l = len
  OBVIOUS
<1>8. l \in Nat /\ PlainFrom(Plain, 0 * BlockSize, l) /\ w * BlockSize <= l
  BY <1>1, <1>5, <1>6, <1>7, Zenon
<1>9. CipherFrom(ProcessBlocks(FALSE, 0, Plain, w), 0 * BlockSize, w * BlockSize)
  BY <1>5, <1>8, EncPart
<1>10. CipherFrom(Encrypt(w, Block(w)), w * BlockSize, Len(Block(w)))
  BY <1>1, <1>4, BlockPart
<1>11. PICK x \in Nat, y \in Nat : x = w * BlockSize /\ y = Len(Block(w))
  BY <1>1, <1>2, <1>4
<1>12. 0 + x = x
  BY <1>11
<1>13. CipherFrom(ProcessBlocks(FALSE, 0, Plain, w), 0, x) /\ CipherFrom(Encrypt(w, Block(w)), 0 + x, y)
  BY <1>5, <1>9, <1>10, <1>11, <1>12, Zenon
<1>14. CipherFrom(ProcessBlocks(FALSE, 0, Plain, w) \o Encrypt(w, Block(w)), 0, x + y)
  BY <1>5, <1>11, <1>13, CipherJoin
<1>15. CipherText = ProcessBlocks(FALSE, 0, Plain, w) \o Encrypt(w, Block(w))
  BY <1>2, <1>4, Zenon DEF CipherText, Whole, Behind
<1>16. TextLen = x + y
  BY <1>2, <1>4, <1>11, Zenon
<1> QED
  BY <1>2, <1>14, <1>15, <1>16, Zenon

-----------------------------------------------------------------------------
(* The last block of the ciphertext, with padding or without.              *)

Top == (TextLen - 1) \div BlockSize

LEMMA TopFacts ==
  ASSUME Message, TextLen > 0
  PROVE  /\ Top \in Nat /\ Top <= Whole /\ Block(Top) \in Seq(Int)
         /\ Len(Block(Top)) \in 1 .. BlockSize /\ Top * BlockSize \in Nat
         /\ TextLen = Top * BlockSize + Len(Block(Top))
         /\ mode.padding # "none" => Top = Whole
<1>1. Whole \in Nat /\ Whole * BlockSize \in Nat
  BY WholeFacts
<1>2. /\ TextLen \in Nat /\ TextLen = Whole * BlockSize + Len(Block(Whole))
      /\ Len(Block(Whole)) \in 0 .. BlockSize
      /\ mode.padding # "none" => Len(Block(Whole)) = BlockSize
  BY LastBlockFacts
<1>3. PICK w \in Nat \ {0} : w = BlockSize
  BY Sized
<1>4. CASE Len(Block(Whole)) > 0
  <2>1. PICK l \in 1 .. w : l = Len(Block(Whole))
    BY <1>2, <1>3, <1>4
  <2>2. l - 1 \in 0 .. w - 1 /\ Whole * w + l - 1 = Whole * w + (l - 1)
    BY <1>1, <1>3
  <2>3. (Whole * w + (l - 1)) \div w = Whole
    BY <1>1, <1>3, <2>2, DivUnique
  <2>4. TextLen - 1 = Whole * w + l - 1
    <3>1. PICK e \in Nat : e = Whole * w
      BY <1>1, <1>3
    <3>2. TextLen = e + l
      BY <1>2, <1>3, <2>1, <3>1, Zenon
    <3>3. TextLen - 1 = e + l - 1
      BY <3>1, <3>2
    <3> QED
      BY <3>1, <3>3, Zenon
  <2>5. Top = Whole
    BY <1>3, <2>2, <2>3, <2>4, Zenon DEF Top
  <2>6. Whole <= Whole /\ Len(Block(Whole)) \in 1 .. BlockSize
    BY <1>1, <1>3, <2>1
  <2> QED
    BY <1>1, <1>2, <2>5, <2>6, LastBlockFacts, Zenon
<1>5. CASE ~(Len(Block(Whole)) > 0)
  <2>1. Len(Block(Whole)) = 0 /\ mode.padding = "none"
    BY <1>2, <1>3, <1>5
  <2>2. PICK e \in Nat : e = Whole * w
    BY <1>1, <1>3
  <2>3. TextLen = e /\ e > 0
    <3>1. TextLen = e + 0
      BY <1>2, <1>3, <2>1, <2>2, Zenon
    <3> QED
      BY <2>2, <3>1
  <2>4. Whole > 0
    BY <1>1, <2>2, <2>3
  <2>5. PICK b \in Nat : b = Whole - 1 /\ b < Whole /\ b <= Whole /\ b + 1 = Whole
    BY <1>1, <2>4
  <2>6. PICK x \in Nat : x = b * w /\ e = x + w
    <3>1. b * w \in Nat /\ (b + 1) * w = b * w + w
      BY <1>3, Products
    <3> QED
      BY <2>2, <2>5, <3>1, Zenon
  <2>7. TextLen - 1 = x + (w - 1) /\ w - 1 \in 0 .. w - 1
    BY <2>3, <2>6
  <2>8. (b * w + (w - 1)) \div w = b
    BY <2>7, DivUnique
  <2>9. Top = b
    BY <1>3, <2>6, <2>7, <2>8, Zenon DEF Top
  <2>10. Block(b) \in Seq(Int) /\ Len(Block(b)) = BlockSize
    BY <2>5, WholeBlock
  <2>11. Len(Block(b)) \in 1 .. BlockSize
    BY <1>3, <2>10
  <2>12. TextLen = b * BlockSize + Len(Block(b)) /\ b * BlockSize \in Nat
    BY <1>3, <2>3, <2>6, <2>10, Zenon
  <2> QED
    BY <2>1, <2>5, <2>9, <2>10, <2>11, <2>12, Zenon
<1> QED
  BY <1>4, <1>5

\* What unpadding() finds: the padding, all of it and nothing else.
LEMMA UnpaddingFacts ==
  ASSUME Message, TextLen > 0
  PROVE  /\ Unpadding(Block(Top)) \in 0 .. Len(Block(Top))
         /\ len = Top * BlockSize + (Len(Block(Top)) - Unpadding(Block(Top)))
         /\ \A j \in 1 .. Len(Block(Top)) - Unpadding(Block(Top)) : Block(Top)[j] = Top * BlockSize + j
<1> DEFINE s == Block(Top)
<1>1. /\ Top \in Nat /\ Top <= Whole /\ s \in Seq(Int) /\ Len(s) \in 1 .. BlockSize
      /\ Top * BlockSize \in Nat /\ TextLen = Top * BlockSize + Len(s)
      /\ mode.padding # "none" => Top = Whole
  BY TopFacts
<1>2. PICK r : r = len % BlockSize
  OBVIOUS
<1>3. /\ Whole \in Nat /\ Whole * BlockSize \in Nat /\ len \in Nat /\ r \in 0 .. BlockSize - 1
      /\ len = Whole * BlockSize + r
  BY <1>2, WholeFacts
<1>4. /\ Len(Block(Whole)) = IF mode.padding = "none" THEN r ELSE BlockSize
      /\ TextLen = Whole * BlockSize + Len(Block(Whole))
      /\ \A j \in 1 .. r : Block(Whole)[j] = Whole * BlockSize + j
      /\ mode.padding = "zero" => \A j \in r + 1 .. BlockSize : Block(Whole)[j] = 0
      /\ mode.padding = "pkcs7" => \A j \in r + 1 .. BlockSize : Block(Whole)[j] = BlockSize - r
  BY <1>2, LastBlockFacts
<1>5. PICK w \in Nat \ {0}, x \in Nat : w = BlockSize /\ x = Top * BlockSize
  BY <1>1, Sized
<1>6. s # <<>>
  BY <1>1
<1>7. CASE mode.padding = "none"
  <2>1. Unpadding(s) = 0
    BY <1>7 DEF Unpadding
  <2>2. TextLen = len
    BY <1>3, <1>4, <1>7, Zenon
  <2>3. PICK l \in Nat : l = Len(s) /\ len = x + l
    BY <1>1, <1>5, <2>2, Sized
  <2>4. l - 0 = l /\ 0 \in 0 .. l
    OBVIOUS
  <2>5. ASSUME NEW j \in 1 .. l PROVE s[j] = x + j
    <3>1. CASE Top < Whole
      <4>1. Len(s) = BlockSize /\ \A i \in 1 .. BlockSize : s[i] = Top * BlockSize + i
        BY <1>1, <3>1, WholeBlock
      <4> QED
        BY <1>5, <2>3, <4>1, Zenon
    <3>2. CASE ~(Top < Whole)
      <4>1. Top = Whole
        BY <1>1, <1>3, <3>2
      <4>2. l = r
        BY <1>4, <1>7, <2>3, <4>1, Zenon
      <4> QED
        BY <1>4, <1>5, <4>1, <4>2, Zenon
    <3> QED
      BY <3>1, <3>2
  <2> QED
    BY <1>5, <2>1, <2>3, <2>4, <2>5, Zenon
<1>8. ASSUME mode.padding # "none", Unpadding(s) = w - r
      PROVE  /\ Unpadding(s) \in 0 .. Len(s) /\ len = Top * BlockSize + (Len(s) - Unpadding(s))
             /\ \A j \in 1 .. Len(s) - Unpadding(s) : s[j] = Top * BlockSize + j
  <2>1. Top = Whole /\ Len(s) = w
    BY <1>1, <1>4, <1>5, <1>8, Zenon
  <2>2. w - r \in 0 .. w /\ w - (w - r) = r
    BY <1>3, <1>5
  <2>3. len = Top * BlockSize + (w - (w - r))
    BY <1>3, <2>1, <2>2, Zenon
  <2>4. \A j \in 1 .. w - (w - r) : s[j] = Top * BlockSize + j
    BY <1>4, <2>1, <2>2, Zenon
  <2> QED
    BY <1>8, <2>1, <2>2, <2>3, <2>4, Zenon
<1>9. CASE mode.padding = "zero"
  <2>1. Top = Whole /\ Len(s) = w /\ r \in 0 .. w - 1
    BY <1>1, <1>3, <1>4, <1>5, <1>9
  <2>2. (\A j \in 1 .. r : s[j] = x + j) /\ \A j \in r + 1 .. w : s[j] = 0
    BY <1>4, <1>5, <1>9, <2>1, Zenon
  <2>3. \A j \in 1 .. r : s[j] # 0
    BY <1>5, <2>1, <2>2
  <2> DEFINE Q(n) == (\A i \in w - n + 1 .. w : s[i] = 0) /\ (n = w \/ s[w - n] # 0)
  <2>4. Unpadding(s) = CHOOSE n \in 0 .. w : Q(n)
    BY <1>6, <1>9, <2>1 DEF Unpadding
  <2>5. w - r \in 0 .. w /\ Q(w - r)
    <3>1. w - r \in 0 .. w /\ w - (w - r) + 1 = r + 1 /\ w - (w - r) = r
      BY <2>1
    <3>2. w - r = w \/ s[r] # 0
      <4>1. r = 0 \/ r \in 1 .. r
        BY <2>1
      <4> QED
        BY <2>1, <2>3, <4>1
    <3> QED
      BY <2>2, <3>1, <3>2
  <2>6. ASSUME NEW n \in 0 .. w, Q(n) PROVE n = w - r
    <3>1. CASE n > w - r
      <4>1. r \in w - n + 1 .. w /\ r \in 1 .. r
        BY <2>1, <3>1
      <4> QED
        BY <2>3, <2>6, <4>1
    <3>2. CASE n < w - r
      <4>1. w - n \in r + 1 .. w /\ n # w
        BY <2>1, <3>2
      <4> QED
        BY <2>2, <2>6, <4>1
    <3> QED
      BY <2>1, <3>1, <3>2
  <2>7. \E n \in 0 .. w : Q(n)
    BY <2>5
  <2> HIDE DEF Q
  <2>8. (CHOOSE n \in 0 .. w : Q(n)) = w - r
    BY <2>6, <2>7
  <2> QED
    BY <1>8, <1>9, <2>4, <2>8
<1>10. CASE mode.padding = "pkcs7"
  <2>1. Top = Whole /\ Len(s) = w /\ r \in 0 .. w - 1
    BY <1>1, <1>3, <1>4, <1>5, <1>10
  <2>2. w \in r + 1 .. w
    BY <2>1
  <2>3. s[w] = w - r
    BY <1>4, <1>5, <1>10, <2>1, <2>2, Zenon
  <2>4. w - r # Noise
    BY <2>1 DEF Noise
  <2>5. Unpadding(s) = w - r
    BY <1>6, <1>10, <2>1, <2>3, <2>4 DEF Unpadding
  <2> QED
    BY <1>8, <1>10, <2>5
<1> QED
  BY <1>7, <1>9, <1>10 DEF Message, Modes

-----------------------------------------------------------------------------
(* The end of a decryption.                                                *)

LEMMA Front ==
  ASSUME NEW S, NEW s \in Seq(S), NEW n \in Nat, n <= Len(s)
  PROVE  /\ SubSeq(s, 1, n) \in Seq(S) /\ Len(SubSeq(s, 1, n)) = n
         /\ \A j \in 1 .. n : SubSeq(s, 1, n)[j] = s[j]
<1>1. 0 \in Nat /\ 0 <= n /\ 0 + 1 = 1 /\ n - 0 = n /\ \A j \in 1 .. n : 0 + j = j
  OBVIOUS
<1>2. SubSeq(s, 0 + 1, n) \in Seq(S) /\ Len(SubSeq(s, 0 + 1, n)) = n - 0
  BY <1>1, Between
<1>3. \A j \in 1 .. n - 0 : SubSeq(s, 0 + 1, n)[j] = s[0 + j]
  BY <1>1, Between
<1> QED
  BY <1>1, <1>2, <1>3, Zenon

\* Where the last block starts in the ciphertext behind n blocks.
LEMMA TopInside ==
  ASSUME Message, NEW n \in Nat, n * BlockSize < TextLen
  PROVE  /\ n <= Top /\ TextLen - n * BlockSize \in Nat \ {0}
         /\ (TextLen - n * BlockSize - 1) \div BlockSize = Top - n
         /\ TextLen - n * BlockSize = (Top - n) * BlockSize + Len(Block(Top))
         /\ Top * BlockSize = n * BlockSize + (Top - n) * BlockSize
         /\ (Top - n) * BlockSize \in Nat
<1>1. TextLen \in Nat
  BY LastBlockFacts
<1>2. PICK x \in Nat : x = n * BlockSize
  BY Products
<1>3. TextLen > 0
  BY <1>1, <1>2
<1>4. /\ Top \in Nat /\ Top <= Whole /\ Len(Block(Top)) \in 1 .. BlockSize /\ Top * BlockSize \in Nat
      /\ TextLen = Top * BlockSize + Len(Block(Top))
  BY <1>3, TopFacts
<1>5. PICK w \in Nat \ {0}, y \in Nat : w = BlockSize /\ y = Top * BlockSize
  BY <1>4, Sized
<1>6. PICK l \in 1 .. w : l = Len(Block(Top)) /\ TextLen = y + l
  BY <1>4, <1>5, Zenon
<1>7. n <= Top
  <2>1. x < y + l
    BY <1>2, <1>6, Zenon
  <2>2. (Top + 1) * BlockSize = Top * BlockSize + BlockSize
        /\ (n * BlockSize < (Top + 1) * BlockSize => n < Top + 1)
    <3>1. Top + 1 \in Nat
      BY <1>4
    <3> QED
      BY <1>4, <3>1, Products
  <2>3. x < y + w
    BY <1>2, <1>5, <1>6, <2>1
  <2>4. n * BlockSize < (Top + 1) * BlockSize
    BY <1>2, <1>5, <2>2, <2>3, Zenon
  <2>5. n < Top + 1
    BY <2>2, <2>4
  <2> QED
    BY <1>4, <2>5
<1>8. PICK k \in Nat : k = Top - n /\ n + k = Top
  BY <1>4, <1>7
<1>9. PICK z \in Nat : z = k * BlockSize /\ y = x + z
  <2>1. k * BlockSize \in Nat /\ (n + k) * BlockSize = n * BlockSize + k * BlockSize
    BY Products
  <2> QED
    BY <1>2, <1>5, <1>8, <2>1, Zenon
<1>10. TextLen - x = z + l /\ TextLen - x \in Nat \ {0} /\ TextLen - x - 1 = z + (l - 1) /\ l - 1 \in 0 .. w - 1
  <2>1. PICK e \in Nat : e = TextLen
    BY <1>1
  <2>2. e = x + z + l /\ l \in Nat \ {0}
    BY <1>6, <1>9, <2>1
  <2>3. e - x = z + l /\ e - x \in Nat \ {0}
    BY <2>2
  <2>4. e - x - 1 = z + (l - 1) /\ l - 1 \in 0 .. w - 1
    BY <2>2
  <2> QED
    BY <2>1, <2>3, <2>4, Zenon
<1>11. (k * w + (l - 1)) \div w = k
  BY <1>10, DivUnique
<1> QED
  BY <1>2, <1>5, <1>6, <1>7, <1>8, <1>9, <1>10, <1>11, Zenon

LEMMA DecToEnd ==
  ASSUME Message, NEW n \in Nat, n * BlockSize < TextLen, NEW t,
         CipherFrom(t, n * BlockSize, TextLen - n * BlockSize)
  PROVE  /\ Len(t) = TextLen - n * BlockSize
         /\ (Len(t) - 1) \div BlockSize = Top - n
         /\ PlainFrom(ProcessBlocks(TRUE, n, t, Top - n), n * BlockSize, (Top - n) * BlockSize)
         /\ SubSeq(t, (Top - n) * BlockSize + 1, Len(t)) = Encrypt(Top, Block(Top))
         /\ Len(SubSeq(t, (Top - n) * BlockSize + 1, Len(t))) = Len(Block(Top))
         /\ Decrypt(n + (Top - n), SubSeq(t, (Top - n) * BlockSize + 1, Len(t))) = Block(Top)
<1>1. /\ n <= Top /\ TextLen - n * BlockSize \in Nat \ {0}
      /\ (TextLen - n * BlockSize - 1) \div BlockSize = Top - n
      /\ TextLen - n * BlockSize = (Top - n) * BlockSize + Len(Block(Top))
      /\ Top * BlockSize = n * BlockSize + (Top - n) * BlockSize
      /\ (Top - n) * BlockSize \in Nat
  BY TopInside
<1>2. TextLen > 0
  <2>1. TextLen \in Nat /\ n * BlockSize \in Nat
    BY LastBlockFacts, Products
  <2> QED
    BY <2>1
<1>3. /\ Top \in Nat /\ Top <= Whole /\ Block(Top) \in Seq(Int) /\ Len(Block(Top)) \in 1 .. BlockSize
  BY <1>2, TopFacts
<1>4. PICK a \in Nat \ {0}, x \in Nat : a = TextLen - n * BlockSize /\ x = n * BlockSize
  BY <1>1, Products
<1>5. PICK k \in Nat, z \in Nat : k = Top - n /\ z = k * BlockSize /\ n + k = Top
  <2>1. Top - n \in Nat /\ n + (Top - n) = Top
    BY <1>1, <1>3
  <2> QED
    BY <1>1, <2>1, Zenon
<1>6. PICK l \in Nat : l = Len(Block(Top)) /\ a = z + l
  <2>1. Len(Block(Top)) \in Nat
    BY <1>3, Sized
  <2> QED
    BY <1>1, <1>4, <1>5, <2>1, Zenon
<1>7. CipherFrom(t, x, a) /\ Len(t) = a
  BY <1>4, Zenon DEF CipherFrom
<1>8. z <= a /\ a <= a /\ a - z = l /\ n + k <= Whole
  <2>1. n + k <= Whole
    BY <1>3, <1>5, Zenon
  <2>2. z <= a /\ a <= a /\ a - z = l
    BY <1>6
  <2> QED
    BY <2>1, <2>2
<1>9. PlainFrom(ProcessBlocks(TRUE, n, t, k), n * BlockSize, k * BlockSize)
  <2>1. CipherFrom(t, n * BlockSize, a) /\ k * BlockSize <= a
    BY <1>4, <1>5, <1>7, <1>8, Zenon
  <2> QED
    BY <1>8, <2>1, DecPart
<1>10. SubSeq(t, z + 1, a) = Encrypt(Top, Block(Top))
  <2>1. CipherFrom(SubSeq(t, z + 1, a), x + z, a - z)
    BY <1>7, <1>8, CipherCut
  <2>2. CipherFrom(Encrypt(Top, Block(Top)), Top * BlockSize, Len(Block(Top)))
    BY <1>3, BlockPart
  <2>3. x + z = Top * BlockSize
    BY <1>1, <1>4, <1>5, Zenon
  <2>4. PICK y \in Nat : y = x + z
    OBVIOUS
  <2>5. CipherFrom(SubSeq(t, z + 1, a), y, l) /\ CipherFrom(Encrypt(Top, Block(Top)), y, l)
    BY <1>6, <1>8, <2>1, <2>2, <2>3, <2>4, Zenon
  <2> QED
    BY <2>5, SamePart
<1>11. Len(Encrypt(Top, Block(Top))) = Len(Block(Top))
  BY <1>3, EncryptFacts
<1>12. Decrypt(Top, Encrypt(Top, Block(Top))) = Block(Top)
  BY <1>3, DecryptBack
<1> QED
  BY <1>1, <1>4, <1>5, <1>7, <1>9, <1>10, <1>11, <1>12, Zenon

\* The message is there when the padding is taken off the last block.
LEMMA Unpadded ==
  ASSUME Message, NEW n \in Nat, n * BlockSize < TextLen, NEW p,
         PlainFrom(p, n * BlockSize, (Top - n) * BlockSize)
  PROVE  /\ len - n * BlockSize = Len(p \o Block(Top)) - Unpadding(Block(Top))
         /\ n * BlockSize <= len
         /\ PlainFrom(p \o DropLast(Block(Top), Unpadding(Block(Top))), n * BlockSize, len - n * BlockSize)
         /\ PlainFrom(SubSeq(p \o Block(Top), 1, len - n * BlockSize), n * BlockSize, len - n * BlockSize)
         /\ SubSeq(p \o Block(Top), (Top - n) * BlockSize + 1, Len(p \o Block(Top))) = Block(Top)
<1>1. /\ n <= Top
      /\ TextLen - n * BlockSize = (Top - n) * BlockSize + Len(Block(Top))
      /\ Top * BlockSize = n * BlockSize + (Top - n) * BlockSize
      /\ (Top - n) * BlockSize \in Nat
  BY TopInside
<1>2. TextLen > 0
  <2>1. TextLen \in Nat /\ n * BlockSize \in Nat
    BY LastBlockFacts, Products
  <2> QED
    BY <2>1
<1>3. /\ Top \in Nat /\ Block(Top) \in Seq(Int) /\ Len(Block(Top)) \in 1 .. BlockSize
  BY <1>2, TopFacts
<1>4. /\ Unpadding(Block(Top)) \in 0 .. Len(Block(Top))
      /\ len = Top * BlockSize + (Len(Block(Top)) - Unpadding(Block(Top)))
      /\ \A j \in 1 .. Len(Block(Top)) - Unpadding(Block(Top)) : Block(Top)[j] = Top * BlockSize + j
  BY <1>2, UnpaddingFacts
<1>5. PICK s \in Seq(Int) : s = Block(Top)
  BY <1>3
<1>6. PICK x \in Nat, z \in Nat : x = n * BlockSize /\ z = (Top - n) * BlockSize
  BY <1>1, Products
<1>7. PICK l \in Nat \ {0}, u \in Nat : l = Len(s) /\ u = Unpadding(Block(Top)) /\ u <= l
  BY <1>3, <1>4, <1>5, Sized
<1>8. PICK d \in Nat : d = l - u /\ d <= l
  BY <1>7
<1>9. Top * BlockSize = x + z
  BY <1>1, <1>6, Zenon
<1>10. len = x + z + d /\ \A j \in 1 .. d : s[j] = x + z + j
  BY <1>4, <1>5, <1>7, <1>8, <1>9, Zenon
<1>11. PlainFrom(p, x, z) /\ p \in Seq(Int) /\ Len(p) = z
  BY <1>6, Zenon DEF PlainFrom
<1>12. /\ p \o s \in Seq(Int) /\ Len(p \o s) = z + l
       /\ \A j \in 1 .. z : (p \o s)[j] = p[j]
       /\ \A j \in 1 .. l : (p \o s)[z + j] = s[j]
  <2>1. p \o s \in Seq(Int) /\ Len(p \o s) = z + l
    BY <1>7, <1>11, ConcatProperties
  <2>2. \A j \in 1 .. z : (p \o s)[j] = p[j]
    BY <1>7, <1>11, Joined
  <2>3. ASSUME NEW j \in 1 .. l PROVE (p \o s)[z + j] = s[j]
    <3>1. z + j \in 1 .. Len(p) + Len(s) /\ ~(z + j <= Len(p)) /\ z + j - Len(p) = j
      BY <1>7, <1>11
    <3> QED
      BY <1>11, <3>1, ConcatProperties
  <2> QED
    BY <2>1, <2>2, <2>3
<1>13. len - x = z + d /\ (z + l) - u = z + d /\ x <= len
  <2>1. PICK e \in Nat : e = x + z + d
    OBVIOUS
  <2>2. e - x = z + d /\ x <= e
    BY <2>1
  <2>3. (z + l) - u = z + d
    BY <1>7, <1>8
  <2> QED
    BY <1>10, <2>1, <2>2, <2>3, Zenon
<1>14. PlainFrom(SubSeq(s, 1, d), x + z, d)
  <2>3. SubSeq(s, 1, d) \in Seq(Int) /\ Len(SubSeq(s, 1, d)) = d /\ \A j \in 1 .. d : SubSeq(s, 1, d)[j] = s[j]
    BY <1>7, <1>8, Front
  <2> QED
    BY <1>10, <2>3, Zenon DEF PlainFrom
<1>15. PlainFrom(p \o SubSeq(s, 1, d), x, z + d)
  BY <1>11, <1>14, PlainJoin
<1>16. DropLast(s, u) = SubSeq(s, 1, d)
  BY <1>7, <1>8, Zenon DEF DropLast
<1>17. PlainFrom(SubSeq(p \o s, 1, z + d), x, z + d)
  <2>1. z + d \in Nat /\ z + d <= Len(p \o s) /\ p \o s \in Seq(Int)
    BY <1>8, <1>12
  <2>2. PICK e, v : e = z + d /\ v = p \o s
    OBVIOUS
  <2>3. /\ SubSeq(p \o s, 1, z + d) \in Seq(Int) /\ Len(SubSeq(p \o s, 1, z + d)) = z + d
        /\ \A j \in 1 .. z + d : SubSeq(p \o s, 1, z + d)[j] = (p \o s)[j]
    <3>1. e \in Nat /\ v \in Seq(Int) /\ e <= Len(v)
      BY <2>1, <2>2, Zenon
    <3>2. SubSeq(v, 1, e) \in Seq(Int) /\ Len(SubSeq(v, 1, e)) = e /\ \A j \in 1 .. e : SubSeq(v, 1, e)[j] = v[j]
      BY <3>1, Front
    <3> QED
      BY <2>2, <3>2, Zenon
  <2>4. ASSUME NEW j \in 1 .. z + d PROVE (p \o s)[j] = x + j
    <3>1. CASE j <= z
      <4>1. j \in 1 .. z
        BY <3>1
      <4> QED
        BY <1>11, <1>12, <4>1, Zenon DEF PlainFrom
    <3>2. CASE ~(j <= z)
      <4>1. PICK i \in 1 .. d : j = z + i /\ i \in 1 .. l
        <5>1. j - z \in 1 .. d /\ j - z \in 1 .. l /\ j = z + (j - z)
          BY <1>8, <3>2
        <5> QED
          BY <5>1
      <4>2. (p \o s)[j] = x + z + i
        BY <1>10, <1>12, <4>1, Zenon
      <4>3. x + z + i = x + j
        BY <4>1
      <4> QED
        BY <4>2, <4>3
    <3> QED
      BY <3>1, <3>2
  <2> QED
    BY <2>3, <2>4, Zenon DEF PlainFrom
<1>18. SubSeq(p \o s, z + 1, z + l) = s
  <2>0. z <= z + l /\ z + l <= Len(p \o s) /\ z + l \in Nat /\ z + l - z = l
    BY <1>12
  <2>1. SubSeq(p \o s, z + 1, z + l) \in Seq(Int) /\ Len(SubSeq(p \o s, z + 1, z + l)) = z + l - z
    BY <1>12, <2>0, Between
  <2>2. \A j \in 1 .. z + l - z : SubSeq(p \o s, z + 1, z + l)[j] = (p \o s)[z + j]
    BY <1>12, <2>0, Between
  <2>3. /\ Len(SubSeq(p \o s, z + 1, z + l)) = Len(s)
        /\ \A j \in 1 .. Len(SubSeq(p \o s, z + 1, z + l)) : SubSeq(p \o s, z + 1, z + l)[j] = s[j]
    BY <1>7, <1>12, <2>0, <2>1, <2>2, Zenon
  <2> QED
    BY <2>1, <2>3, SeqEqual
<1> QED
  BY <1>5, <1>6, <1>7, <1>12, <1>13, <1>15, <1>16, <1>17, <1>18, Zenon

-----------------------------------------------------------------------------
(* The end of an encryption.                                               *)

\* Without a byte missing from it, a block needs no padding.
LEMMA NoPadding == ASSUME NEW s \in Seq(Int), mode.padding = "none" PROVE Pad(s) = s
<1>1. Pad(s) = s \o <<>>
  BY DEF Pad
<1> QED
  BY <1>1, ConcatEmptySeq

\* underflow() at the end of the message, of which block m is the last.
LEMMA EncLastAt ==
  ASSUME Message, NEW n \in Nat, NEW m \in Nat, n <= m, m <= Whole, NEW l \in 1 .. BlockSize,
         len = m * BlockSize + l, NEW s, PlainFrom(s, n * BlockSize, len - n * BlockSize),
         NEW c, PlainFrom(c, m * BlockSize, l), Pad(c) = Block(m),
         TextLen = m * BlockSize + Len(Block(m))
  PROVE  CipherFrom(LastFill(FALSE, n, s), n * BlockSize, TextLen - n * BlockSize)
<1>1. PICK k \in Nat : k = m - n /\ n + k = m
  OBVIOUS
<1>2. PICK x \in Nat, z \in Nat : x = n * BlockSize /\ z = k * BlockSize
  BY Products
<1>3. m * BlockSize = x + z
  BY <1>1, <1>2, Products
<1>4. PICK w \in Nat \ {0} : w = BlockSize
  BY Sized
<1>5. PICK a \in Nat \ {0} : a = len - n * BlockSize /\ a = z + l
  <2>1. len = x + z + l /\ l \in Nat \ {0}
    BY <1>3, <1>4
  <2>2. (x + z + l) - x = z + l /\ z + l \in Nat \ {0}
    BY <2>1
  <2> QED
    BY <1>2, <2>1, <2>2, Zenon
<1>6. PlainFrom(s, x, a) /\ Len(s) = a /\ s # <<>>
  <2>1. PlainFrom(s, x, a) /\ Len(s) = a
    BY <1>2, <1>5, Zenon DEF PlainFrom
  <2> QED
    BY <1>5, <2>1
<1>7. (a - 1) \div w = k
  <2>1. a - 1 = k * w + (l - 1) /\ l - 1 \in 0 .. w - 1
    <3>1. a - 1 = z + (l - 1) /\ l - 1 \in 0 .. w - 1
      BY <1>4, <1>5
    <3> QED
      BY <1>2, <1>4, <3>1, Zenon
  <2>2. (k * w + (l - 1)) \div w = k
    BY <2>1, DivUnique
  <2> QED
    BY <2>1, <2>2, Zenon
<1>8. LastBlock(s) = c /\ Len(c) = l
  <2>1. LastBlock(s) = SubSeq(s, z + 1, a)
    BY <1>2, <1>4, <1>6, <1>7, Zenon DEF LastBlock
  <2>2. z <= a /\ a <= a /\ a - z = l
    BY <1>4, <1>5
  <2>3. PlainFrom(SubSeq(s, z + 1, a), x + z, l)
    BY <1>6, <2>2, PlainCut
  <2>4. PICK y \in Nat : y = x + z
    OBVIOUS
  <2>5. PlainFrom(SubSeq(s, z + 1, a), y, l) /\ PlainFrom(c, y, l) /\ l \in Nat
    <3>1. l \in Nat
      BY <1>4
    <3> QED
      BY <1>3, <2>3, <2>4, <3>1, Zenon
  <2>6. SubSeq(s, z + 1, a) = c
    BY <2>5, SamePart
  <2>7. Len(c) = l
    BY Zenon DEF PlainFrom
  <2> QED
    BY <2>1, <2>6, <2>7
<1>9. (a - l) \div w = k
  <2>1. a - l = k * w + 0 /\ 0 \in 0 .. w - 1
    <3>1. a - l = z + 0 /\ 0 \in 0 .. w - 1
      BY <1>4, <1>5
    <3> QED
      BY <1>2, <1>4, <3>1, Zenon
  <2>2. (k * w + 0) \div w = k
    BY <2>1, DivUnique
  <2> QED
    BY <2>1, <2>2, Zenon
<1>10. LastFill(FALSE, n, s) = ProcessBlocks(FALSE, n, s, k) \o Encrypt(n + k, Pad(c))
  <2>1. (Len(s) - Len(LastBlock(s))) \div BlockSize = k
    BY <1>4, <1>6, <1>8, <1>9, Zenon
  <2> QED
    BY <1>8, <2>1, Zenon DEF LastFill, Process
<1>11. CipherFrom(ProcessBlocks(FALSE, n, s, m - n) \o Encrypt(m, Block(m)),
                  n * BlockSize, (m * BlockSize + Len(Block(m))) - n * BlockSize)
  <2>1. PlainFrom(s, n * BlockSize, a) /\ (m - n) * BlockSize <= a
    <3>1. z <= a
      BY <1>4, <1>5
    <3> QED
      BY <1>1, <1>2, <1>6, <3>1, Zenon
  <2> QED
    BY <2>1, EncToBlock
<1> QED
  BY <1>1, <1>10, <1>11, Zenon

\* Where the last block of the message ends, the ciphertext does not begin.
LEMMA EncLast ==
  ASSUME Message, NEW n \in Nat, n * BlockSize = 0 \/ n * BlockSize < len,
         IF mode.padding = "none" THEN len > 0 ELSE len = 0 \/ len % BlockSize # 0,
         NEW s, PlainFrom(s, n * BlockSize, len - n * BlockSize)
  PROVE  /\ CipherFrom(LastFill(FALSE, n, s), n * BlockSize, TextLen - n * BlockSize)
         /\ n * BlockSize < TextLen
<1>1. PICK r : r = len % BlockSize
  OBVIOUS
<1>2. /\ Whole \in Nat /\ Whole * BlockSize \in Nat /\ len \in Nat /\ r \in 0 .. BlockSize - 1
      /\ len = Whole * BlockSize + r
  BY <1>1, WholeFacts
<1>3. /\ Block(Whole) = Pad(Behind) /\ Len(Block(Whole)) = IF mode.padding = "none" THEN r ELSE BlockSize
      /\ TextLen \in Nat /\ TextLen = Whole * BlockSize + Len(Block(Whole))
      /\ Len(Block(Whole)) \in 0 .. BlockSize
  BY <1>1, LastBlockFacts
<1>4. PlainFrom(Behind, Whole * BlockSize, r)
  <2>1. Behind \in Seq(Int) /\ Len(Behind) = r /\ \A j \in 1 .. r : Behind[j] = Whole * BlockSize + j
    BY <1>1, BehindFacts
  <2> QED
    BY <2>1, Zenon DEF PlainFrom
<1>5. PICK w \in Nat \ {0}, x \in Nat, y \in Nat : w = BlockSize /\ x = n * BlockSize /\ y = Whole * BlockSize
  BY <1>2, Sized, Products
<1>6. PICK l \in Nat : l = Len(Block(Whole)) /\ TextLen = y + l /\ (l = r \/ l = w)
  <2>1. Len(Block(Whole)) \in Nat
    BY <1>3, Sized
  <2> QED
    BY <1>3, <1>5, <2>1, Zenon
<1>7. len = y + r /\ r \in 0 .. w - 1
  BY <1>2, <1>5, Zenon
<1>8. CASE r # 0
  <2>1. n <= Whole
    <3>1. x < y + w
      BY <1>2, <1>5, <1>7, <1>8
    <3>2. (Whole + 1) * BlockSize = Whole * BlockSize + BlockSize
          /\ (n * BlockSize < (Whole + 1) * BlockSize => n < Whole + 1)
      <4>1. Whole + 1 \in Nat
        BY <1>2
      <4> QED
        BY <1>2, <4>1, Products
    <3>3. n * BlockSize < (Whole + 1) * BlockSize
      BY <1>5, <3>1, <3>2, Zenon
    <3>4. n < Whole + 1
      BY <3>2, <3>3
    <3> QED
      BY <1>2, <3>4
  <2>2. r \in 1 .. w /\ Whole <= Whole
    BY <1>2, <1>7, <1>8
  <2>3. CipherFrom(LastFill(FALSE, n, s), n * BlockSize, TextLen - n * BlockSize)
    <3>1. r \in 1 .. BlockSize
      BY <1>5, <2>2, Zenon
    <3>2. PICK m \in Nat : m = Whole
      BY <1>2
    <3>3. n <= m /\ m <= Whole /\ len = m * BlockSize + r
      BY <1>2, <2>1, <2>2, <3>2, Zenon
    <3>4. PICK c : c = Behind
      OBVIOUS
    <3>5. PlainFrom(c, m * BlockSize, r) /\ Pad(c) = Block(m) /\ TextLen = m * BlockSize + Len(Block(m))
      BY <1>3, <1>4, <3>2, <3>4, Zenon
    <3> QED
      BY <3>1, <3>3, <3>5, EncLastAt
  <2>4. x < TextLen
    <3>1. x = 0 \/ x < y + r
      BY <1>5, <1>7, Zenon
    <3>2. x < y + l
      BY <1>6, <1>7, <1>8, <3>1
    <3> QED
      BY <1>6, <3>2, Zenon
  <2> QED
    BY <1>5, <2>3, <2>4, Zenon
<1>9. CASE r = 0 /\ mode.padding # "none"
  <2>1. len = 0
    BY <1>1, <1>9
  <2>2. x = 0 /\ y = 0 /\ TextLen = w
    BY <1>3, <1>5, <1>6, <1>7, <1>9, <2>1
  <2>3. n = 0 /\ Whole = 0
    <3>1. n * w = 0 /\ Whole * w = 0
      BY <1>5, <2>2, Zenon
    <3> QED
      BY <1>2, <3>1
  <2>4. PlainFrom(s, 0, 0)
    <3>1. len - n * BlockSize = 0
      <4>1. len - x = 0
        BY <2>1, <2>2
      <4> QED
        BY <1>5, <4>1, Zenon
    <3> QED
      BY <1>5, <2>2, <3>1, Zenon
  <2>5. s = <<>> /\ Behind = <<>>
    <3>1. Behind \in Seq(Int) /\ Len(Behind) = 0 /\ s \in Seq(Int) /\ Len(s) = 0
      BY <1>4, <1>9, <2>4 DEF PlainFrom
    <3> QED
      BY <3>1, EmptySeq
  <2>6. LastBlock(s) = <<>> /\ Len(s) - Len(LastBlock(s)) = 0
    BY <2>5 DEF LastBlock
  <2>7. (Len(s) - Len(LastBlock(s))) \div BlockSize = 0
    BY <1>5, <2>6
  <2>8. LastFill(FALSE, n, s) = ProcessBlocks(FALSE, n, s, 0) \o Encrypt(n + 0, Pad(Behind))
    BY <2>5, <2>6, <2>7, Zenon DEF LastFill, Process
  <2>9. PICK m \in Nat : m = Whole /\ m - n = 0 /\ n + 0 = m /\ n <= m
    BY <1>2, <2>3
  <2>10. m <= Whole /\ PlainFrom(s, n * BlockSize, 0) /\ (m - n) * BlockSize <= 0
    <3>1. 0 * w <= 0 /\ m <= Whole
      BY <1>2, <2>9
    <3> QED
      BY <1>5, <2>2, <2>4, <2>9, <3>1, Zenon
  <2>11. CipherFrom(ProcessBlocks(FALSE, n, s, m - n) \o Encrypt(m, Block(m)),
                    n * BlockSize, (m * BlockSize + Len(Block(m))) - n * BlockSize)
    <3>1. PICK a \in Nat : a = 0
      OBVIOUS
    <3>2. PlainFrom(s, n * BlockSize, a) /\ (m - n) * BlockSize <= a
      BY <2>10, <3>1, Zenon
    <3> QED
      BY <2>9, <2>10, <3>2, EncToBlock
  <2>13. m * BlockSize + Len(Block(m)) = TextLen /\ Pad(Behind) = Block(m)
    BY <1>3, <2>9, Zenon
  <2>14. LastFill(FALSE, n, s) = ProcessBlocks(FALSE, n, s, m - n) \o Encrypt(m, Block(m))
    BY <2>8, <2>9, <2>13, Zenon
  <2>12. x < TextLen
    BY <1>5, <2>2
  <2> QED
    BY <1>5, <2>11, <2>12, <2>13, <2>14, Zenon
<1>10. CASE r = 0 /\ mode.padding = "none"
  <2>1. len = y /\ y > 0 /\ TextLen = y /\ x < y
    BY <1>3, <1>5, <1>6, <1>7, <1>10
  <2>2. n < Whole
    BY <1>2, <1>5, <2>1, Products
  <2>3. PICK m \in Nat : m = Whole - 1 /\ n <= m /\ m < Whole /\ m <= Whole /\ m + 1 = Whole
    BY <1>2, <2>2
  <2>4. (m + 1) * BlockSize = m * BlockSize + BlockSize
    BY Products
  <2>5. /\ Block(m) \in Seq(Int) /\ Len(Block(m)) = BlockSize
        /\ \A j \in 1 .. BlockSize : Block(m)[j] = m * BlockSize + j
    BY <2>3, WholeBlock
  <2>6. PICK c : c = Block(m)
    OBVIOUS
  <2>7. PlainFrom(c, m * BlockSize, BlockSize) /\ Pad(c) = Block(m)
    BY <1>10, <2>5, <2>6, NoPadding DEF PlainFrom
  <2>8. len = m * BlockSize + BlockSize /\ TextLen = m * BlockSize + Len(Block(m))
    BY <1>5, <2>1, <2>3, <2>4, <2>5, Zenon
  <2>9. PICK q \in 1 .. BlockSize : q = BlockSize
    BY Sized
  <2>10. PlainFrom(c, m * BlockSize, q) /\ len = m * BlockSize + q
    BY <2>7, <2>8, <2>9, Zenon
  <2>11. CipherFrom(LastFill(FALSE, n, s), n * BlockSize, TextLen - n * BlockSize)
    BY <2>3, <2>7, <2>8, <2>10, EncLastAt
  <2> QED
    BY <1>5, <2>1, <2>11, Zenon
<1> QED
  BY <1>8, <1>9, <1>10

\* A buffer that ends with the block last holds, without the padding, the
\* message from block n on.
HoldsRest(n, buffer, last) ==
  /\ n * BlockSize <= len /\ len - n * BlockSize = Len(buffer) - Unpadding(last)
  /\ PlainFrom(SubSeq(buffer, 1, len - n * BlockSize), n * BlockSize, len - n * BlockSize)

\* underflow() at the end of the ciphertext.
LEMMA DecLast ==
  ASSUME Message, NEW n \in Nat, n * BlockSize < TextLen, NEW t,
         CipherFrom(t, n * BlockSize, TextLen - n * BlockSize),
         NEW buffer, buffer = LastFill(TRUE, n, t),
         NEW last, last = SubSeq(buffer, Len(t) - Len(LastBlock(t)) + 1, Len(buffer))
  PROVE  HoldsRest(n, buffer, last)
<1>1. PICK k : k = Top - n
  OBVIOUS
<1>2. /\ Len(t) = TextLen - n * BlockSize /\ (Len(t) - 1) \div BlockSize = k
      /\ PlainFrom(ProcessBlocks(TRUE, n, t, k), n * BlockSize, k * BlockSize)
      /\ SubSeq(t, k * BlockSize + 1, Len(t)) = Encrypt(Top, Block(Top))
      /\ Len(SubSeq(t, k * BlockSize + 1, Len(t))) = Len(Block(Top))
      /\ Decrypt(n + k, SubSeq(t, k * BlockSize + 1, Len(t))) = Block(Top)
  BY <1>1, DecToEnd
<1>3. /\ n <= Top /\ TextLen - n * BlockSize \in Nat \ {0}
      /\ TextLen - n * BlockSize = k * BlockSize + Len(Block(Top))
      /\ k * BlockSize \in Nat
  BY <1>1, TopInside
<1>4. TextLen > 0
  <2>1. TextLen \in Nat /\ n * BlockSize \in Nat
    BY LastBlockFacts, Products
  <2> QED
    BY <2>1
<1>5. Top \in Nat /\ Len(Block(Top)) \in 1 .. BlockSize
  BY <1>4, TopFacts
<1>6. k \in Nat
  BY <1>1, <1>3, <1>5
<1>7. t # <<>>
  BY <1>2, <1>3
<1>8. LastBlock(t) = SubSeq(t, k * BlockSize + 1, Len(t))
  BY <1>2, <1>7, Zenon DEF LastBlock
<1>9. PICK w \in Nat \ {0}, z \in Nat, l \in Nat :
        w = BlockSize /\ z = k * BlockSize /\ l = Len(Block(Top)) /\ Len(t) = z + l
  <2>1. Len(Block(Top)) \in Nat
    BY <1>5, Sized
  <2> QED
    BY <1>2, <1>3, <2>1, Sized, Zenon
<1>10. Len(t) - Len(LastBlock(t)) = z
  <2>1. (z + l) - l = z
    BY <1>9
  <2> QED
    BY <1>2, <1>8, <1>9, <2>1, Zenon
<1>11. (Len(t) - Len(LastBlock(t))) \div BlockSize = k
  <2>1. (k * w + 0) \div w = k
    <3>1. 0 \in 0 .. w - 1
      OBVIOUS
    <3> QED
      BY <1>6, <3>1, DivUnique
  <2>2. z + 0 = z
    BY <1>9
  <2> QED
    BY <1>9, <1>10, <2>1, <2>2, Zenon
<1>12. buffer = ProcessBlocks(TRUE, n, t, k) \o Block(Top)
  BY <1>2, <1>8, <1>11, Zenon DEF LastFill, Process
<1>13. PICK p : p = ProcessBlocks(TRUE, n, t, k)
  OBVIOUS
<1>14. PlainFrom(p, n * BlockSize, (Top - n) * BlockSize) /\ buffer = p \o Block(Top)
  BY <1>1, <1>2, <1>12, <1>13, Zenon
<1>15. /\ len - n * BlockSize = Len(p \o Block(Top)) - Unpadding(Block(Top))
       /\ n * BlockSize <= len
       /\ PlainFrom(SubSeq(p \o Block(Top), 1, len - n * BlockSize), n * BlockSize, len - n * BlockSize)
       /\ SubSeq(p \o Block(Top), (Top - n) * BlockSize + 1, Len(p \o Block(Top))) = Block(Top)
  BY <1>14, Unpadded
<1>16. last = Block(Top)
  BY <1>1, <1>9, <1>10, <1>14, <1>15, Zenon
<1> QED
  BY <1>14, <1>15, <1>16, Zenon DEF HoldsRest

LEMMA Nothing == TextLen = 0 /\ Message => len = 0 /\ mode.padding = "none"
<1> SUFFICES ASSUME TextLen = 0, Message PROVE len = 0 /\ mode.padding = "none"
  OBVIOUS
<1>1. PICK r : r = len % BlockSize
  OBVIOUS
<1>2. PICK w \in Nat \ {0}, y \in Nat : w = BlockSize /\ y = Whole * BlockSize
  BY WholeFacts, Sized
<1>3. r \in 0 .. w - 1 /\ len = y + r
  BY <1>1, <1>2, WholeFacts, Zenon
<1>4. PICK l \in Nat : l = Len(Block(Whole)) /\ l = IF mode.padding = "none" THEN r ELSE w
  <2>1. Len(Block(Whole)) = IF mode.padding = "none" THEN r ELSE w
    BY <1>1, <1>2, LastBlockFacts, Zenon
  <2>2. Len(Block(Whole)) \in Nat
    BY LastBlockFacts, Sized
  <2> QED
    BY <2>1, <2>2
<1>5. 0 = y + l
  BY <1>2, <1>4, LastBlockFacts, Zenon
<1> QED
  BY <1>2, <1>3, <1>4, <1>5

\* finish() of a decrypting ostream that holds the whole ciphertext.
LEMMA DecFinishAll ==
  ASSUME Message, NEW t, CipherFrom(t, 0, TextLen),
         NEW k, k = WholeBlocks(TRUE, Len(t)),
         NEW last, last = Decrypt(0 + k, Rest(TRUE, t))
  PROVE  PlainFrom(<<>> \o ProcessBlocks(TRUE, 0, t, k) \o DropLast(last, Unpadding(last)), 0, len)
<1>1. TextLen \in Nat /\ len \in Nat /\ Len(t) = TextLen
  BY LastBlockFacts, PlainAll, Zenon DEF CipherFrom
<1>2. PICK w \in Nat \ {0} : w = BlockSize
  BY Sized
<1>3. 0 * BlockSize = 0
  BY <1>2
<1>4. Rest(TRUE, t) = SubSeq(t, k * BlockSize + 1, Len(t))
  BY Zenon DEF Rest
<1>5. CASE TextLen > 0
  <2>1. 0 * BlockSize < TextLen /\ TextLen - 0 * BlockSize = TextLen
    <3>1. TextLen - 0 = TextLen
      BY <1>1
    <3> QED
      BY <1>3, <1>5, <3>1, Zenon
  <2>2. CipherFrom(t, 0 * BlockSize, TextLen - 0 * BlockSize)
    BY <1>3, <2>1, Zenon
  <2>3. PICK b \in Nat : b = 0
    OBVIOUS
  <2>4. b * BlockSize < TextLen /\ CipherFrom(t, b * BlockSize, TextLen - b * BlockSize)
    BY <2>1, <2>2, <2>3, Zenon
  <2>5. k = (Len(t) - 1) \div BlockSize
    <3>1. TextLen # 0
      BY <1>1, <1>5
    <3> QED
      BY <1>1, <3>1, Zenon DEF WholeBlocks
  <2>6. /\ k = Top - b
        /\ PlainFrom(ProcessBlocks(TRUE, b, t, k), b * BlockSize, k * BlockSize)
        /\ Decrypt(b + k, SubSeq(t, k * BlockSize + 1, Len(t))) = Block(Top)
    <3>1. (Len(t) - 1) \div BlockSize = Top - b
      BY <2>4, DecToEnd
    <3>2. PlainFrom(ProcessBlocks(TRUE, b, t, Top - b), b * BlockSize, (Top - b) * BlockSize)
      BY <2>4, DecToEnd
    <3>3. Decrypt(b + (Top - b), SubSeq(t, (Top - b) * BlockSize + 1, Len(t))) = Block(Top)
      BY <2>4, DecToEnd
    <3> QED
      BY <2>5, <3>1, <3>2, <3>3, Zenon
  <2>7. last = Block(Top)
    BY <1>4, <2>3, <2>6, Zenon
  <2>8. PICK p : p = ProcessBlocks(TRUE, b, t, k)
    OBVIOUS
  <2>9. PlainFrom(p, b * BlockSize, (Top - b) * BlockSize)
    BY <2>6, <2>8, Zenon
  <2>10. PlainFrom(p \o DropLast(Block(Top), Unpadding(Block(Top))), b * BlockSize, len - b * BlockSize)
    BY <2>4, <2>9, Unpadded
  <2>11. <<>> \o p = p
    <3>1. p \in Seq(Int)
      BY <2>9, Zenon DEF PlainFrom
    <3> QED
      BY <3>1, ConcatEmptySeq
  <2>12. b * BlockSize = 0 /\ len - b * BlockSize = len
    <3>1. len - 0 = len
      BY <1>1
    <3> QED
      BY <1>3, <2>3, <3>1, Zenon
  <2> QED
    BY <2>3, <2>7, <2>8, <2>10, <2>11, <2>12, Zenon
<1>6. CASE ~(TextLen > 0)
  <2>1. TextLen = 0 /\ len = 0 /\ mode.padding = "none"
    BY <1>1, <1>6, Nothing
  <2>2. t \in Seq(Piece) /\ Len(t) = 0
    BY <1>1, <2>1, Zenon DEF CipherFrom
  <2>3. t = <<>>
    BY <2>2, EmptySeq
  <2>4. k = 0
    BY <2>2, Zenon DEF WholeBlocks
  <2>5. Rest(TRUE, t) = <<>>
    <3>1. Rest(TRUE, t) = SubSeq(t, 0 + 1, 0)
      BY <1>3, <1>4, <2>2, <2>4, Zenon
    <3>2. SubSeq(t, 0 + 1, 0) \in Seq(Piece) /\ Len(SubSeq(t, 0 + 1, 0)) = 0 - 0
      <4>1. 0 \in Nat /\ 0 <= 0 /\ 0 <= Len(t)
        BY <2>2
      <4> QED
        BY <2>2, <4>1, Between
    <3>3. 0 - 0 = 0
      OBVIOUS
    <3> QED
      BY <3>1, <3>2, <3>3, EmptySeq
  <2>6. last = <<>>
    <3>1. PICK e \in [1 .. 0 -> Int] : e = last
      <4>1. DOMAIN <<>> = 1 .. 0
        OBVIOUS
      <4>2. last = [j \in 1 .. 0 |-> last[j]]
        BY <2>5, <4>1, Zenon DEF Decrypt
      <4>3. \A j \in 1 .. 0 : last[j] \in Int
        OBVIOUS
      <4>4. last \in [1 .. 0 -> Int]
        BY <4>2, <4>3, Zenon
      <4> QED
        BY <4>4
    <3>2. 0 \in Nat
      OBVIOUS
    <3>3. e \in Seq(Int) /\ Len(e) = 0
      BY <3>2, Made
    <3> QED
      BY <3>1, <3>3, EmptySeq
  <2>7. ProcessBlocks(TRUE, 0, t, k) \in Seq(Int) /\ Len(ProcessBlocks(TRUE, 0, t, k)) = 0
    <3>1. PICK p : p = ProcessBlocks(TRUE, 0, t, k)
      OBVIOUS
    <3>2. p = [j \in 1 .. 0 |-> p[j]]
      BY <1>3, <2>4, <3>1, Zenon DEF ProcessBlocks
    <3>3. \A j \in 1 .. 0 : p[j] \in Int
      OBVIOUS
    <3>4. p \in [1 .. 0 -> Int] /\ 0 \in Nat
      BY <3>2, <3>3, Zenon
    <3>5. p \in Seq(Int) /\ Len(p) = 0
      BY <3>4, Made
    <3> QED
      BY <3>1, <3>5
  <2>8. ProcessBlocks(TRUE, 0, t, k) = <<>>
    BY <2>7, EmptySeq
  <2>9. Unpadding(last) = 0
    BY <2>1 DEF Unpadding
  <2>10. DropLast(last, Unpadding(last)) = <<>>
    <3>1. DropLast(<<>>, 0) = SubSeq(<<>>, 1, 0)
      BY DEF DropLast
    <3>2. <<>> \in Seq(Int) /\ 0 \in Nat /\ 0 <= Len(<<>>)
      OBVIOUS
    <3>3. SubSeq(<<>>, 1, 0) \in Seq(Int) /\ Len(SubSeq(<<>>, 1, 0)) = 0
      BY <3>2, Front
    <3> QED
      BY <2>6, <2>9, <3>1, <3>3, EmptySeq
  <2>11. <<>> \o <<>> \o <<>> = <<>>
    <3>1. <<>> \in Seq(Int)
      OBVIOUS
    <3>2. <<>> \o <<>> = <<>>
      BY <3>1, ConcatEmptySeq
    <3> QED
      BY <3>2
  <2>12. PlainFrom(<<>>, 0, 0)
    BY DEF PlainFrom
  <2> QED
    BY <2>1, <2>8, <2>10, <2>11, <2>12, Zenon
<1> QED
  BY <1>5, <1>6

-----------------------------------------------------------------------------
(* What holds at every moment.                                             *)

\* The encrypting stream, where the code gets the ciphertext right.
EncState ==
  /\ CipherFrom(text, 0, Len(text))
  /\ eend => Len(text) = TextLen
  /\ ~eend /\ mode.encoder = "ostream" =>
       PlainFrom(ebuf, 0, taken) /\ ecalls = 0 /\ text = <<>>
  /\ ~eend /\ mode.encoder = "istream" =>
       /\ ecalls \in Nat /\ taken = ecalls * BlockSize /\ Len(text) = taken
       /\ taken = 0 \/ taken < len

\* The decrypting stream of such a ciphertext.
DecState ==
  /\ dtaken \in Nat /\ dtaken <= Len(text)
  /\ dend => eend /\ dtaken = Len(text)
  /\ ~dend /\ mode.decoder = "ostream" /\ Len(text) <= BufSize =>
       CipherFrom(dbuf, 0, dtaken) /\ dcalls = 0 /\ result = <<>>
  /\ ~dend /\ mode.decoder = "istream" =>
       /\ dcalls \in Nat /\ dtaken = dcalls * BlockSize /\ PlainFrom(result, 0, dtaken)
       /\ dtaken = 0 \/ dtaken < Len(text)
       /\ \E e \in Nat : dtaken = e * Fill
  /\ dend /\ DecryptsRight => PlainFrom(result, 0, len)

StreamInv ==
  /\ Message /\ taken \in 0 .. len /\ eend \in BOOLEAN /\ dend \in BOOLEAN
  /\ EncryptsRight => EncState /\ DecState

\* The streams of a message agree on it, and on the cipher.
LEMMA Kept ==
  ASSUME mode' = mode, len' = len
  PROVE  /\ Message' = Message /\ TextLen' = TextLen /\ EncryptsRight' = EncryptsRight
         /\ \A q : CipherByte(q)' = CipherByte(q)
<1>1. Plain' = Plain /\ Whole' = Whole
  BY DEF Plain, Whole
<1>2. Behind' = Behind
  BY <1>1 DEF Behind
<1>3. \A s : Pad(s)' = Pad(s)
  BY Zenon DEF Pad
<1>4. Pad(Behind)' = Pad(Behind)
  BY <1>2, Zenon DEF Pad
<1>5. ASSUME NEW n PROVE Block(n)' = Block(n)
  BY <1>1, <1>4, Zenon DEF Block
<1>6. ASSUME NEW n, NEW s PROVE Encrypt(n, s)' = Encrypt(n, s)
  BY Zenon DEF Encrypt
<1>7. ASSUME NEW q PROVE CipherByte(q)' = CipherByte(q)
  <2>1. PICK b, d, c : b = (q - 1) \div BlockSize /\ d = ((q - 1) % BlockSize) + 1 /\ c = Block(b)
    OBVIOUS
  <2>2. CipherByte(q) = Encrypt(b, c)[d]
    BY <2>1, Zenon DEF CipherByte
  <2>3. Block(b)' = c
    BY <1>5, <2>1, Zenon
  <2>4. CipherByte(q)' = Encrypt(b, c)'[d]
    BY <2>1, <2>3, Zenon DEF CipherByte, Encrypt
  <2>5. Encrypt(b, c)' = Encrypt(b, c)
    BY <1>6
  <2> QED
    BY <2>2, <2>4, <2>5, Zenon
<1>8. TextLen' = TextLen
  BY <1>1, <1>4, Zenon DEF TextLen
<1>9. Message' = Message /\ EncryptsRight' = EncryptsRight
  BY Zenon DEF Message, EncryptsRight
<1> QED
  BY <1>7, <1>8, <1>9

-----------------------------------------------------------------------------
(* The steps of the encrypting stream.                                     *)

\* text is still, or becomes, a front of the ciphertext.
LEMMA TextSet ==
  ASSUME mode' = mode, len' = len, NEW t, NEW n \in Nat, text' = t, CipherFrom(t, 0, n)
  PROVE  CipherFrom(text, 0, Len(text))' /\ Len(text') = n
<1>1. t \in Seq(Piece) /\ Len(t) = n /\ \A q \in 1 .. n : t[q] = CipherByte(0 + q)
  BY Zenon DEF CipherFrom
<1>2. \A q : CipherByte(0 + q)' = CipherByte(0 + q)
  BY Kept
<1>3. text' \in Seq(Piece) /\ Len(text') = n /\ \A q \in 1 .. n : text'[q] = CipherByte(0 + q)'
  BY <1>1, <1>2, Zenon
<1> QED
  BY <1>3, Zenon DEF CipherFrom

LEMMA TextFits ==
  ASSUME Message, taken \in 0 .. len, eend \in BOOLEAN, EncState
  PROVE  Len(text) \in Nat /\ Len(text) <= TextLen /\ text \in Seq(Piece)
<1>1. text \in Seq(Piece)
  BY Zenon DEF EncState, CipherFrom
<1>2. Len(text) \in Nat
  BY <1>1, LenProperties
<1>3. TextLen \in Nat
  BY LastBlockFacts
<1>4. len <= TextLen
  <2>1. PICK r : r = len % BlockSize
    OBVIOUS
  <2>2. PICK w \in Nat \ {0}, y \in Nat : w = BlockSize /\ y = Whole * BlockSize
    BY WholeFacts, Sized
  <2>3. r \in 0 .. w - 1 /\ len = y + r
    BY <2>1, <2>2, WholeFacts, Zenon
  <2>4. PICK l \in Nat : l = Len(Block(Whole)) /\ l = IF mode.padding = "none" THEN r ELSE w
    <3>1. Len(Block(Whole)) = IF mode.padding = "none" THEN r ELSE w
      BY <2>1, <2>2, LastBlockFacts, Zenon
    <3>2. Len(Block(Whole)) \in Nat
      BY LastBlockFacts, Sized
    <3> QED
      BY <3>1, <3>2
  <2>5. TextLen = y + l
    BY <2>2, <2>4, LastBlockFacts, Zenon
  <2>6. r <= l
    BY <2>3, <2>4
  <2> QED
    BY <2>3, <2>4, <2>5, <2>6
<1>5. CASE eend
  BY <1>3, <1>5, <1>1, <1>2 DEF EncState
<1>6. CASE ~eend /\ mode.encoder = "ostream"
  BY <1>1, <1>2, <1>3, <1>6 DEF EncState
<1>7. CASE ~eend /\ mode.encoder = "istream"
  <2>1. Len(text) = taken /\ taken <= len /\ len \in Nat
    BY <1>7 DEF EncState, Message
  <2> QED
    BY <1>1, <1>2, <1>3, <1>4, <2>1
<1> QED
  BY <1>5, <1>6, <1>7 DEF Message, Modes

\* The decrypting stream does not mind that the ciphertext grows.
LEMMA DecWaits ==
  ASSUME Message, EncState, DecState, eend \in BOOLEAN, dend \in BOOLEAN,
         mode' = mode, len' = len, UNCHANGED decrypter,
         Len(text') \in Nat, Len(text) \in Nat, Len(text) <= Len(text'),
         eend => eend' /\ text' = text
  PROVE  DecState'
<1> USE DEF decrypter
<1>1. dtaken' = dtaken /\ dbuf' = dbuf /\ dcalls' = dcalls /\ dend' = dend /\ result' = result
  OBVIOUS
<1>2. dtaken' \in Nat /\ dtaken' <= Len(text')
  BY <1>1 DEF DecState
<1>3. dend' => eend' /\ dtaken' = Len(text')
  BY <1>1 DEF DecState
<1>4. ASSUME ~dend', mode'.decoder = "ostream", Len(text') <= BufSize
      PROVE  CipherFrom(dbuf, 0, dtaken)' /\ dcalls' = 0 /\ result' = <<>>
  <2>1. Len(text) <= BufSize
    BY <1>4, Sized
  <2>2. CipherFrom(dbuf, 0, dtaken) /\ dcalls = 0 /\ result = <<>>
    <3>1. ~dend /\ mode.decoder = "ostream"
      BY <1>1, <1>4
    <3> QED
      BY <2>1, <3>1, Zenon DEF DecState
  <2>3. \A q : CipherByte(0 + q)' = CipherByte(0 + q)
    BY Kept
  <2>4. CipherFrom(dbuf, 0, dtaken)'
    BY <1>1, <2>2, <2>3, Zenon DEF CipherFrom
  <2> QED
    BY <1>1, <2>2, <2>4
<1>5. ASSUME ~dend', mode'.decoder = "istream"
      PROVE  /\ dcalls' \in Nat /\ dtaken' = dcalls' * BlockSize /\ PlainFrom(result, 0, dtaken)'
             /\ dtaken' = 0 \/ dtaken' < Len(text')
             /\ \E e \in Nat : dtaken' = e * Fill
  <2>1. /\ dcalls \in Nat /\ dtaken = dcalls * BlockSize /\ PlainFrom(result, 0, dtaken)
        /\ dtaken = 0 \/ dtaken < Len(text)
        /\ \E e \in Nat : dtaken = e * Fill
    <3>1. ~dend /\ mode.decoder = "istream"
      BY <1>1, <1>5
    <3> QED
      BY <3>1, Zenon DEF DecState
  <2>2. dtaken = 0 \/ dtaken < Len(text')
    <3>1. dtaken \in Nat
      BY DEF DecState
    <3> QED
      BY <2>1, <3>1
  <2>3. PlainFrom(result, 0, dtaken)'
    BY <1>1, <2>1, Zenon DEF PlainFrom
  <2> QED
    BY <1>1, <2>1, <2>2, <2>3, Zenon
<1>6. ASSUME dend', DecryptsRight' PROVE PlainFrom(result, 0, len)'
  <2>1. text' = text
    BY <1>1, <1>6 DEF DecState
  <2>2. DecryptsRight
    BY <1>6, <2>1, Zenon DEF DecryptsRight
  <2>3. PlainFrom(result, 0, len)
    <3>1. dend
      BY <1>1, <1>6
    <3> QED
      BY <2>2, <3>1, Zenon DEF DecState
  <2> QED
    BY <1>1, <2>3, Zenon DEF PlainFrom
<1>7. Fill' = Fill
  BY DEF Fill
<1> QED
  BY <1>2, <1>3, <1>4, <1>5, <1>6, <1>7, Zenon DEF DecState

LEMMA FillFacts ==
  \E b \in Nat \ {0} : Fill = b * BlockSize /\ Fill \div BlockSize = b /\ Fill \in Nat \ {0}
<1>1. PICK w \in Nat \ {0} : w = BlockSize /\ BufSize \in Nat /\ BufSize > w
  BY Sized
<1>2. BufSize - 1 \in Nat /\ BufSize - 1 >= w
  BY <1>1
<1>3. PICK b \in Nat, r \in 0 .. w - 1 : b = (BufSize - 1) \div w /\ BufSize - 1 = b * w + r
  BY <1>2, DivMod
<1>4. b # 0
  <2>1. SUFFICES ASSUME b = 0 PROVE FALSE
    OBVIOUS
  <2>2. BufSize - 1 = r
    BY <1>3, <2>1
  <2> QED
    BY <1>2, <2>2
<1>5. Fill = b * w
  BY <1>1, <1>3, Zenon DEF Fill
<1>6. b * w \in Nat \ {0}
  BY <1>4
<1>7. (b * w) \div w = b
  <2>1. 0 \in 0 .. w - 1
    OBVIOUS
  <2>2. (b * w + 0) \div w = b
    BY <2>1, DivUnique
  <2>3. b * w + 0 = b * w
    BY <1>6
  <2> QED
    BY <2>2, <2>3
<1> QED
  BY <1>1, <1>4, <1>5, <1>6, <1>7

\* A byte more at the end.
LEMMA OneMore ==
  ASSUME NEW n \in Nat, NEW s, NEW v
  PROVE  /\ PlainFrom(s, 0, n) => PlainFrom(Append(s, n + 1), 0, n + 1)
         /\ CipherFrom(s, 0, n) /\ v = CipherByte(n + 1) /\ v \in Piece =>
              CipherFrom(Append(s, v), 0, n + 1)
<1>1. \A q \in 1 .. n + 1 : q \in 1 .. n \/ q = n + 1
  OBVIOUS
<1>2. 0 + (n + 1) = n + 1 /\ n + 1 \in Int
  OBVIOUS
<1>3. ASSUME PlainFrom(s, 0, n) PROVE PlainFrom(Append(s, n + 1), 0, n + 1)
  <2>1. s \in Seq(Int) /\ Len(s) = n /\ \A q \in 1 .. n : s[q] = 0 + q
    BY <1>3, Zenon DEF PlainFrom
  <2>2. /\ Append(s, n + 1) \in Seq(Int) /\ Len(Append(s, n + 1)) = n + 1
        /\ \A q \in 1 .. n : Append(s, n + 1)[q] = s[q]
        /\ Append(s, n + 1)[n + 1] = n + 1
    BY <1>2, <2>1, AppendProperties
  <2>3. \A q \in 1 .. n + 1 : Append(s, n + 1)[q] = 0 + q
    BY <1>1, <1>2, <2>1, <2>2, Zenon
  <2> QED
    BY <2>2, <2>3, Zenon DEF PlainFrom
<1>4. ASSUME CipherFrom(s, 0, n), v = CipherByte(n + 1), v \in Piece
      PROVE  CipherFrom(Append(s, v), 0, n + 1)
  <2>1. s \in Seq(Piece) /\ Len(s) = n /\ \A q \in 1 .. n : s[q] = CipherByte(0 + q)
    BY <1>4, Zenon DEF CipherFrom
  <2>2. /\ Append(s, v) \in Seq(Piece) /\ Len(Append(s, v)) = n + 1
        /\ \A q \in 1 .. n : Append(s, v)[q] = s[q]
        /\ Append(s, v)[n + 1] = v
    BY <1>4, <2>1, AppendProperties
  <2>3. \A q \in 1 .. n + 1 : Append(s, v)[q] = CipherByte(0 + q)
    BY <1>1, <1>2, <1>4, <2>1, <2>2, Zenon
  <2> QED
    BY <2>2, <2>3, Zenon DEF CipherFrom
<1> QED
  BY <1>3, <1>4

LEMMA EncPutKeeps == ASSUME StreamInv, EncPut PROVE StreamInv'
<1>1. /\ mode.encoder = "ostream" /\ taken < len /\ ~eend /\ taken' = taken + 1
      /\ mode' = mode /\ len' = len /\ eend' = eend /\ UNCHANGED decrypter
  BY DEF EncPut
<1>2. Message /\ taken \in 0 .. len /\ eend \in BOOLEAN /\ dend \in BOOLEAN /\ len \in Nat
  BY DEF StreamInv, Message
<1>3. Message' /\ EncryptsRight' = EncryptsRight
  BY <1>1, <1>2, Kept
<1>4. ASSUME EncryptsRight PROVE EncState' /\ DecState'
  <2>1. EncState /\ DecState
    BY <1>4 DEF StreamInv
  <2>2. PlainFrom(ebuf, 0, taken) /\ ecalls = 0 /\ text = <<>>
    BY <1>1, <2>1, Zenon DEF EncState
  <2>3. Len(ebuf) < BufSize
    <3>1. len <= BufSize
      BY <1>1, <1>4 DEF EncryptsRight
    <3>2. Len(ebuf) = taken
      BY <2>2, Zenon DEF PlainFrom
    <3> QED
      BY <1>1, <1>2, <3>1, <3>2, Sized
  <2>4. ebuf' = Append(ebuf, taken + 1) /\ ecalls' = ecalls /\ text' = text
    BY <2>3 DEF EncPut
  <2>5. PlainFrom(Append(ebuf, taken + 1), 0, taken + 1)
    BY <1>2, <2>2, OneMore
  <2>6. PlainFrom(ebuf, 0, taken)'
    BY <1>1, <2>4, <2>5, Zenon DEF PlainFrom
  <2>7. CipherFrom(text, 0, Len(text))'
    <3>1. CipherFrom(text, 0, Len(text)) /\ Len(text) \in Nat
      BY <2>1, <2>2 DEF EncState
    <3>2. PICK n \in Nat : n = Len(text)
      BY <3>1
    <3>0. PICK t : t = text
      OBVIOUS
    <3>3. text' = t /\ CipherFrom(t, 0, n)
      BY <2>4, <3>0, <3>1, <3>2, Zenon
    <3> QED
      BY <1>1, <3>3, TextSet
  <2>8. EncState'
    BY <1>1, <2>2, <2>4, <2>6, <2>7 DEF EncState
  <2>9. DecState'
    <3>1. Len(text) \in Nat /\ Len(text') \in Nat /\ Len(text) <= Len(text')
      BY <2>2, <2>4
    <3> QED
      BY <1>1, <1>2, <2>1, <2>4, <3>1, DecWaits
  <2> QED
    BY <2>8, <2>9
<1>5. taken' \in 0 .. len' /\ eend' \in BOOLEAN /\ dend' \in BOOLEAN
  BY <1>1, <1>2 DEF decrypter
<1> QED
  BY <1>3, <1>4, <1>5 DEF StreamInv

LEMMA EncFinishKeeps == ASSUME StreamInv, EncFinish PROVE StreamInv'
<1>1. /\ mode.encoder = "ostream" /\ taken = len /\ ~eend /\ eend' = TRUE /\ taken' = taken
      /\ mode' = mode /\ len' = len /\ UNCHANGED decrypter
  BY DEF EncFinish
<1>2. Message /\ taken \in 0 .. len /\ eend \in BOOLEAN /\ dend \in BOOLEAN /\ len \in Nat
  BY DEF StreamInv, Message
<1>3. Message' /\ EncryptsRight' = EncryptsRight /\ TextLen' = TextLen
  BY <1>1, <1>2, Kept
<1>4. ASSUME EncryptsRight PROVE EncState' /\ DecState'
  <2>1. EncState /\ DecState
    BY <1>4 DEF StreamInv
  <2>2. PlainFrom(ebuf, 0, len) /\ ecalls = 0 /\ text = <<>>
    BY <1>1, <2>1, Zenon DEF EncState
  <2>3. ebuf = Plain /\ Len(ebuf) = len
    <3>0. PICK n \in Nat : n = len
      BY <1>2
    <3>1. PICK e, p : e = ebuf /\ p = Plain
      OBVIOUS
    <3>2. PlainFrom(e, 0, n) /\ PlainFrom(p, 0, n)
      BY <1>2, <2>2, <3>0, <3>1, PlainAll, Zenon
    <3>3. e = p
      <4>1. 0 \in Nat
        OBVIOUS
      <4> QED
        BY <3>2, <4>1, SamePart
    <3>4. Len(ebuf) = len
      BY <2>2, Zenon DEF PlainFrom
    <3> QED
      BY <3>1, <3>3, <3>4
  <2>4. text' = CipherText
    <3>1. PICK k, last : k = len \div BlockSize /\ last = Pad(SubSeq(Plain, k * BlockSize + 1, len))
      OBVIOUS
    <3>2. WholeBlocks(FALSE, Len(ebuf)) = k
      BY <2>3, <3>1 DEF WholeBlocks
    <3>3. Rest(FALSE, ebuf) = SubSeq(Plain, k * BlockSize + 1, len)
      BY <2>3, <3>2, Zenon DEF Rest
    <3>4. Pad(Rest(FALSE, ebuf)) = last
      BY <3>1, <3>3, Zenon
    <3>5. text' = text \o ProcessBlocks(FALSE, ecalls, ebuf, WholeBlocks(FALSE, Len(ebuf)))
                       \o Encrypt(ecalls + WholeBlocks(FALSE, Len(ebuf)), Pad(Rest(FALSE, ebuf)))
      BY Zenon DEF EncFinish
    <3>6. k \in Nat /\ 0 + k = k
      <4>1. k \in Nat
        BY <1>2, <3>1, WholeFacts, Zenon DEF Whole
      <4> QED
        BY <4>1
    <3>7. text' = <<>> \o ProcessBlocks(FALSE, 0, Plain, k) \o Encrypt(k, last)
      BY <2>2, <2>3, <3>2, <3>4, <3>5, <3>6, Zenon
    <3>8. <<>> \o ProcessBlocks(FALSE, 0, Plain, k) = ProcessBlocks(FALSE, 0, Plain, k)
      <4>1. PICK n \in Nat : n = len
        BY <1>2
      <4>2. 0 * BlockSize = 0 /\ 0 + k <= Whole /\ 0 \in Nat
        BY <3>1, <3>6, Sized DEF Whole
      <4>3. k * BlockSize <= n
        BY <1>2, <3>1, <4>1, WholeFacts, Zenon DEF Whole
      <4>4. PlainFrom(Plain, 0 * BlockSize, n)
        BY <1>2, <4>1, <4>2, PlainAll, Zenon
      <4>5. PICK p : p = Plain
        OBVIOUS
      <4>6. PlainFrom(p, 0 * BlockSize, n)
        BY <4>4, <4>5, Zenon
      <4>7. CipherFrom(ProcessBlocks(FALSE, 0, p, k), 0 * BlockSize, k * BlockSize)
        BY <1>2, <3>6, <4>2, <4>3, <4>6, EncPart
      <4>8. ProcessBlocks(FALSE, 0, Plain, k) \in Seq(Piece)
        BY <4>5, <4>7, Zenon DEF CipherFrom
      <4> QED
        BY <4>8, ConcatEmptySeq
    <3>9. CipherText = ProcessBlocks(FALSE, 0, Plain, k) \o Encrypt(k, last)
      BY <3>1, Zenon DEF CipherText
    <3> QED
      BY <3>7, <3>8, <3>9, Zenon
  <2>5. CipherFrom(text, 0, Len(text))' /\ Len(text') = TextLen /\ TextLen \in Nat
    <3>1. TextLen \in Nat /\ CipherFrom(CipherText, 0, TextLen)
      BY <1>2, TextPoint
    <3>2. PICK n \in Nat : n = TextLen
      BY <3>1
    <3>0. PICK t : t = CipherText
      OBVIOUS
    <3>3. text' = t /\ CipherFrom(t, 0, n)
      BY <2>4, <3>0, <3>1, <3>2, Zenon
    <3>4. CipherFrom(text, 0, Len(text))' /\ Len(text') = n
      BY <1>1, <3>3, TextSet
    <3> QED
      BY <3>1, <3>2, <3>4
  <2>6. EncState'
    BY <1>1, <1>3, <2>5 DEF EncState
  <2>7. DecState'
    <3>1. Len(text) \in Nat /\ Len(text') \in Nat /\ Len(text) <= Len(text')
      BY <2>2, <2>5
    <3> QED
      BY <1>1, <1>2, <2>1, <3>1, DecWaits
  <2> QED
    BY <2>6, <2>7
<1>5. taken' \in 0 .. len' /\ eend' \in BOOLEAN /\ dend' \in BOOLEAN
  BY <1>1, <1>2 DEF decrypter
<1> QED
  BY <1>3, <1>4, <1>5 DEF StreamInv

\* A block that starts in the ciphertext starts in the message, or behind it.
LEMMA BlockBound ==
  ASSUME Message, NEW m \in Nat, m * BlockSize < TextLen \/ m * BlockSize < len \/ m * BlockSize = 0
  PROVE  m <= Whole /\ m * BlockSize <= len
<1>1. PICK r : r = len % BlockSize
  OBVIOUS
<1>2. PICK w \in Nat \ {0}, y \in Nat, x \in Nat :
        w = BlockSize /\ y = Whole * BlockSize /\ x = m * BlockSize
  BY WholeFacts, Sized, Products
<1>3. r \in 0 .. w - 1 /\ len = y + r /\ Whole \in Nat
  BY <1>1, <1>2, WholeFacts, Zenon
<1>4. PICK l \in 0 .. w : TextLen = y + l
  <2>1. Len(Block(Whole)) \in 0 .. w /\ TextLen = y + Len(Block(Whole))
    BY <1>2, LastBlockFacts, Zenon
  <2> QED
    BY <2>1
<1>5. x < y + w
  <2>1. x < y + l \/ x < y + r \/ x = 0
    BY <1>2, <1>3, <1>4, Zenon
  <2> QED
    BY <1>2, <1>3, <1>4, <2>1
<1>6. (Whole + 1) * BlockSize = Whole * BlockSize + BlockSize
      /\ (m * BlockSize < (Whole + 1) * BlockSize => m < Whole + 1)
  <2>1. Whole + 1 \in Nat
    BY <1>3
  <2> QED
    BY <1>3, <2>1, Products
<1>7. m * BlockSize < (Whole + 1) * BlockSize
  BY <1>2, <1>5, <1>6, Zenon
<1>8. m <= Whole
  BY <1>3, <1>6, <1>7
<1>9. m * BlockSize <= Whole * BlockSize
  BY <1>3, <1>8, Products
<1>10. x <= y
  BY <1>2, <1>9, Zenon
<1>11. x <= len
  BY <1>2, <1>3, <1>10
<1> QED
  BY <1>2, <1>8, <1>11, Zenon

LEMMA EncUnderflowKeeps == ASSUME StreamInv, EncUnderflow PROVE StreamInv'
<1> DEFINE left == SubSeq(Plain, taken + 1, len)
<1>1. /\ mode.encoder = "istream" /\ ~eend
      /\ mode' = mode /\ len' = len /\ ebuf' = ebuf /\ UNCHANGED decrypter
  BY DEF EncUnderflow
<1>2. Message /\ taken \in 0 .. len /\ eend \in BOOLEAN /\ dend \in BOOLEAN /\ len \in Nat
  BY DEF StreamInv, Message
<1>3. Message' /\ EncryptsRight' = EncryptsRight /\ TextLen' = TextLen
  BY <1>1, <1>2, Kept
<1>4. PICK b \in Nat \ {0} : Fill = b * BlockSize /\ Fill \div BlockSize = b /\ Fill \in Nat \ {0}
  BY FillFacts
<1>5. PICK m \in Nat, a \in Nat : m = taken /\ a = len - taken /\ m <= len /\ m + a = len
  BY <1>2
<1>6. PlainFrom(left, m, a) /\ Len(left) = a
  <2>0. PICK p : p = Plain
    OBVIOUS
  <2>1. PICK e \in Nat : e = len
    BY <1>2
  <2>2. PlainFrom(p, 0, e) /\ m <= e /\ e <= e /\ e - m = a /\ 0 + m = m
    <3>1. PlainFrom(p, 0, e)
      BY <1>2, <2>0, <2>1, PlainAll, Zenon
    <3> QED
      BY <1>5, <2>1, <3>1
  <2>3. PlainFrom(SubSeq(p, m + 1, e), 0 + m, e - m)
    <3>1. 0 \in Nat
      OBVIOUS
    <3> QED
      BY <2>2, <3>1, PlainCut
  <2>4. PlainFrom(left, m, a)
    BY <1>5, <2>0, <2>1, <2>2, <2>3, Zenon
  <2> QED
    BY <2>4, Zenon DEF PlainFrom
<1>7. taken' \in 0 .. len' /\ eend' \in BOOLEAN /\ dend' \in BOOLEAN
  <2>1. dend' \in BOOLEAN
    BY <1>1, <1>2 DEF decrypter
  <2>2. CASE Len(left) > Fill
    <3>1. taken' = taken + Fill /\ eend' = eend
      BY <2>2 DEF EncUnderflow
    <3>2. m + Fill \in 0 .. len
      BY <1>4, <1>5, <1>6, <2>2
    <3> QED
      BY <1>1, <1>2, <1>5, <2>1, <3>1, <3>2
  <2>3. CASE ~(Len(left) > Fill)
    <3>1. taken' = len /\ eend' = TRUE
      BY <2>3 DEF EncUnderflow
    <3> QED
      BY <1>1, <1>2, <2>1, <3>1
  <2> QED
    BY <2>2, <2>3
<1>8. ASSUME EncryptsRight PROVE EncState' /\ DecState'
  <2>1. EncState /\ DecState
    BY <1>8 DEF StreamInv
  <2>2. /\ ecalls \in Nat /\ taken = ecalls * BlockSize /\ Len(text) = taken
        /\ taken = 0 \/ taken < len
        /\ CipherFrom(text, 0, Len(text))
    BY <1>1, <2>1, Zenon DEF EncState
  <2>3. PICK n \in Nat : n = ecalls /\ m = n * BlockSize
    BY <1>5, <2>2
  <2>4. PICK t, s : t = text /\ s = left
    OBVIOUS
  <2>5. CipherFrom(t, 0, m) /\ PlainFrom(s, m, a) /\ Len(t) = m
    BY <1>5, <1>6, <2>2, <2>4, Zenon
  <2>6. CASE Len(left) > Fill
    <3>1. /\ text' = t \o ProcessBlocks(FALSE, n, s, b)
          /\ taken' = m + Fill /\ ecalls' = n + b /\ eend' = eend
      BY <1>4, <1>5, <2>3, <2>4, <2>6, Zenon DEF EncUnderflow
    <3>2. Fill < a
      BY <1>4, <1>6, <2>6
    <3>3. n + b \in Nat /\ m + Fill = (n + b) * BlockSize
      BY <1>4, <2>3, Products
    <3>4. m + Fill < len /\ m + Fill \in Nat
      BY <1>4, <1>5, <3>2
    <3>5. n + b <= Whole
      BY <1>2, <3>3, <3>4, BlockBound
    <3>6. PlainFrom(s, n * BlockSize, a) /\ b * BlockSize <= a
      <4>1. Fill <= a
        BY <1>4, <3>2
      <4> QED
        BY <1>4, <2>3, <2>5, <4>1, Zenon
    <3>7. CipherFrom(ProcessBlocks(FALSE, n, s, b), n * BlockSize, b * BlockSize)
      BY <1>2, <3>5, <3>6, EncPart
    <3>8. PICK x \in Nat : x = Fill
      BY <1>4
    <3>9. 0 + m = m /\ 0 \in Nat
      OBVIOUS
    <3>10. CipherFrom(ProcessBlocks(FALSE, n, s, b), 0 + m, x)
      BY <1>4, <2>3, <3>7, <3>8, <3>9, Zenon
    <3>11. CipherFrom(t \o ProcessBlocks(FALSE, n, s, b), 0, m + x)
      BY <2>5, <3>9, <3>10, CipherJoin
    <3>12. PICK u : u = t \o ProcessBlocks(FALSE, n, s, b)
      OBVIOUS
    <3>13. PICK d \in Nat : d = m + x
      OBVIOUS
    <3>14. text' = u /\ CipherFrom(u, 0, d)
      BY <3>1, <3>11, <3>12, <3>13, Zenon
    <3>15. CipherFrom(text, 0, Len(text))' /\ Len(text') = d
      BY <1>1, <3>14, TextSet
    <3>16. EncState'
      <4>1. mode'.encoder = "istream" /\ ~eend'
        BY <1>1, <3>1
      <4>2. ecalls' \in Nat /\ taken' = ecalls' * BlockSize /\ Len(text') = taken' /\ taken' < len'
        BY <1>1, <3>1, <3>3, <3>4, <3>8, <3>13, <3>15, Zenon
      <4> QED
        BY <3>15, <4>1, <4>2 DEF EncState
    <3>17. DecState'
      <4>1. Len(text) \in Nat /\ Len(text') \in Nat /\ Len(text) <= Len(text')
        BY <1>5, <2>2, <3>8, <3>13, <3>15
      <4> QED
        BY <1>1, <1>2, <2>1, <4>1, DecWaits
    <3> QED
      BY <3>16, <3>17
  <2>7. CASE ~(Len(left) > Fill)
    <3>1. IF mode.padding = "none" THEN len > 0 ELSE len = 0 \/ len % BlockSize # 0
      BY <1>1, <1>8 DEF EncryptsRight
    <3>2. n * BlockSize = 0 \/ n * BlockSize < len
      BY <1>5, <2>2, <2>3
    <3>3. PlainFrom(s, n * BlockSize, len - n * BlockSize)
      BY <1>5, <2>3, <2>5, Zenon
    <3>4. /\ CipherFrom(LastFill(FALSE, n, s), n * BlockSize, TextLen - n * BlockSize)
          /\ n * BlockSize < TextLen
      BY <1>2, <3>1, <3>2, <3>3, EncLast
    <3>5. PICK x \in Nat \ {0} : x = TextLen - n * BlockSize /\ m + x = TextLen
      <4>1. PICK e \in Nat : e = TextLen
        BY <1>2, LastBlockFacts
      <4>2. m < e
        BY <2>3, <3>4, <4>1, Zenon
      <4>3. e - m \in Nat \ {0} /\ m + (e - m) = e
        BY <4>2
      <4> QED
        BY <2>3, <4>1, <4>3, Zenon
    <3>6. PICK u : u = LastFill(FALSE, n, s)
      OBVIOUS
    <3>7. CipherFrom(u, 0 + m, x)
      <4>1. 0 + m = m
        OBVIOUS
      <4> QED
        BY <2>3, <3>4, <3>5, <3>6, <4>1, Zenon
    <3>8. u # <<>>
      <4>1. Len(u) = x
        BY <3>7, Zenon DEF CipherFrom
      <4> QED
        BY <3>5, <4>1
    <3>9. text' = t \o u /\ eend' = TRUE
      <4>1. /\ text' = text \o (IF LastFill(FALSE, ecalls, left) = <<>> THEN <<<<0>>>>
                                ELSE LastFill(FALSE, ecalls, left))
            /\ eend' = TRUE
        BY <2>7 DEF EncUnderflow
      <4> QED
        BY <2>3, <2>4, <3>6, <3>8, <4>1, Zenon
    <3>10. CipherFrom(t \o u, 0, m + x)
      <4>1. 0 \in Nat
        OBVIOUS
      <4> QED
        BY <2>5, <3>5, <3>7, <4>1, CipherJoin
    <3>11. PICK v : v = t \o u
      OBVIOUS
    <3>12. PICK d \in Nat : d = m + x
      OBVIOUS
    <3>13. text' = v /\ CipherFrom(v, 0, d)
      BY <3>9, <3>10, <3>11, <3>12, Zenon
    <3>14. CipherFrom(text, 0, Len(text))' /\ Len(text') = d
      BY <1>1, <3>13, TextSet
    <3>15. EncState'
      BY <1>3, <3>5, <3>9, <3>12, <3>14 DEF EncState
    <3>16. DecState'
      <4>1. Len(text) \in Nat /\ Len(text') \in Nat /\ Len(text) <= Len(text')
        BY <1>5, <2>2, <3>5, <3>12, <3>14
      <4> QED
        BY <1>1, <1>2, <2>1, <4>1, DecWaits
    <3> QED
      BY <3>15, <3>16
  <2> QED
    BY <2>6, <2>7
<1> QED
  BY <1>3, <1>7, <1>8 DEF StreamInv

-----------------------------------------------------------------------------
(* The steps of the decrypting stream.                                     *)

LEMMA EncWaits ==
  ASSUME EncState, mode' = mode, len' = len, UNCHANGED encrypter
  PROVE  EncState'
<1>1. taken' = taken /\ ebuf' = ebuf /\ ecalls' = ecalls /\ eend' = eend /\ text' = text
  BY DEF encrypter
<1>2. TextLen' = TextLen /\ \A q : CipherByte(0 + q)' = CipherByte(0 + q)
  BY Kept
<1>3. CipherFrom(text, 0, Len(text))'
  <2>1. CipherFrom(text, 0, Len(text))
    BY DEF EncState
  <2> QED
    BY <1>1, <1>2, <2>1, Zenon DEF CipherFrom
<1>4. eend' => Len(text') = TextLen'
  BY <1>1, <1>2 DEF EncState
<1>5. ASSUME ~eend', mode'.encoder = "ostream"
      PROVE  PlainFrom(ebuf, 0, taken)' /\ ecalls' = 0 /\ text' = <<>>
  <2>1. ~eend /\ mode.encoder = "ostream"
    BY <1>1, <1>5
  <2>2. PlainFrom(ebuf, 0, taken) /\ ecalls = 0 /\ text = <<>>
    BY <2>1, Zenon DEF EncState
  <2> QED
    BY <1>1, <2>2, Zenon DEF PlainFrom
<1>6. ASSUME ~eend', mode'.encoder = "istream"
      PROVE  /\ ecalls' \in Nat /\ taken' = ecalls' * BlockSize /\ Len(text') = taken'
             /\ taken' = 0 \/ taken' < len'
  <2>1. ~eend /\ mode.encoder = "istream"
    BY <1>1, <1>6
  <2>2. /\ ecalls \in Nat /\ taken = ecalls * BlockSize /\ Len(text) = taken
        /\ taken = 0 \/ taken < len
    BY <2>1, Zenon DEF EncState
  <2> QED
    BY <1>1, <2>2, Zenon
<1> QED
  BY <1>3, <1>4, <1>5, <1>6, Zenon DEF EncState

LEMMA DecPutKeeps == ASSUME StreamInv, DecPut PROVE StreamInv'
<1>1. /\ mode.decoder = "ostream" /\ dtaken < Len(text) /\ dtaken' = dtaken + 1
      /\ mode' = mode /\ len' = len /\ dend' = dend /\ UNCHANGED encrypter
  BY DEF DecPut
<1>2. Message /\ taken \in 0 .. len /\ eend \in BOOLEAN /\ dend \in BOOLEAN /\ len \in Nat
  BY DEF StreamInv, Message
<1>3. Message' /\ EncryptsRight' = EncryptsRight
  BY <1>1, <1>2, Kept
<1>4. taken' = taken /\ eend' = eend /\ text' = text
  BY <1>1 DEF encrypter
<1>5. ASSUME EncryptsRight PROVE EncState' /\ DecState'
  <2>1. EncState /\ DecState
    BY <1>5 DEF StreamInv
  <2>2. EncState'
    BY <1>1, <2>1, EncWaits
  <2>3. Len(text) \in Nat /\ text \in Seq(Piece)
    BY <1>2, <2>1, TextFits
  <2>4. PICK n \in Nat : n = dtaken /\ n < Len(text) /\ dtaken' = n + 1
    BY <1>1, <2>1 DEF DecState
  <2>5. ~dend
    BY <2>1, <2>3, <2>4 DEF DecState
  <2>6. dtaken' \in Nat /\ dtaken' <= Len(text')
    BY <1>4, <2>3, <2>4
  <2>7. ASSUME Len(text') <= BufSize
        PROVE  CipherFrom(dbuf, 0, dtaken)' /\ dcalls' = 0 /\ result' = <<>>
    <3>1. CipherFrom(dbuf, 0, n) /\ dcalls = 0 /\ result = <<>>
      BY <1>1, <1>4, <2>1, <2>4, <2>5, <2>7, Zenon DEF DecState
    <3>2. Len(dbuf) = n
      BY <3>1, Zenon DEF CipherFrom
    <3>3. Len(dbuf) < BufSize
      BY <1>4, <2>3, <2>4, <2>7, <3>2, Sized
    <3>4. dbuf' = Append(dbuf, text[n + 1]) /\ dcalls' = dcalls /\ result' = result
      BY <2>4, <3>3 DEF DecPut
    <3>5. text[n + 1] = CipherByte(n + 1) /\ text[n + 1] \in Piece
      <4>1. n + 1 \in 1 .. Len(text) /\ 0 + (n + 1) = n + 1
        BY <2>3, <2>4
      <4>2. text[n + 1] = CipherByte(0 + (n + 1))
        BY <2>1, <4>1, Zenon DEF EncState, CipherFrom
      <4>3. text[n + 1] \in Piece
        BY <2>3, <4>1, ElementOfSeq
      <4> QED
        BY <4>1, <4>2, <4>3
    <3>6. PICK s, v : s = dbuf /\ v = text[n + 1]
      OBVIOUS
    <3>7. CipherFrom(Append(s, v), 0, n + 1)
      BY <3>1, <3>5, <3>6, OneMore
    <3>8. PICK u : u = Append(s, v)
      OBVIOUS
    <3>9. CipherFrom(u, 0, n + 1) /\ dbuf' = u
      BY <3>4, <3>6, <3>7, <3>8, Zenon
    <3>10. \A q : CipherByte(0 + q)' = CipherByte(0 + q)
      BY <1>1, Kept
    <3>11. CipherFrom(dbuf, 0, dtaken)'
      BY <2>4, <3>9, <3>10, Zenon DEF CipherFrom
    <3> QED
      BY <3>1, <3>4, <3>11
  <2>8. ~dend' /\ mode'.decoder # "istream"
    BY <1>1, <2>5
  <2>9. DecState'
    BY <2>6, <2>7, <2>8, Zenon DEF DecState
  <2> QED
    BY <2>2, <2>9
<1>6. taken' \in 0 .. len' /\ eend' \in BOOLEAN /\ dend' \in BOOLEAN
  BY <1>1, <1>2, <1>4
<1> QED
  BY <1>3, <1>5, <1>6 DEF StreamInv

LEMMA DecFinishKeeps == ASSUME StreamInv, DecFinish PROVE StreamInv'
<1>1. /\ mode.decoder = "ostream" /\ eend /\ dtaken = Len(text) /\ ~dend /\ dend' = TRUE
      /\ mode' = mode /\ len' = len /\ dtaken' = dtaken /\ UNCHANGED encrypter
  BY DEF DecFinish
<1>2. Message /\ taken \in 0 .. len /\ eend \in BOOLEAN /\ dend \in BOOLEAN /\ len \in Nat
  BY DEF StreamInv, Message
<1>3. Message' /\ EncryptsRight' = EncryptsRight
  BY <1>1, <1>2, Kept
<1>4. taken' = taken /\ eend' = eend /\ text' = text
  BY <1>1 DEF encrypter
<1>5. ASSUME EncryptsRight PROVE EncState' /\ DecState'
  <2>1. EncState /\ DecState
    BY <1>5 DEF StreamInv
  <2>2. EncState'
    BY <1>1, <2>1, EncWaits
  <2>3. Len(text) \in Nat /\ Len(text) = TextLen
    BY <1>1, <1>2, <2>1, TextFits DEF EncState
  <2>4. ASSUME DecryptsRight' PROVE PlainFrom(result, 0, len)'
    <3>1. Len(text) <= BufSize
      BY <1>1, <1>4, <2>4 DEF DecryptsRight
    <3>2. CipherFrom(dbuf, 0, dtaken) /\ dcalls = 0 /\ result = <<>>
      BY <1>1, <2>1, <3>1, Zenon DEF DecState
    <3>3. PICK t : t = dbuf
      OBVIOUS
    <3>4. CipherFrom(t, 0, TextLen)
      BY <1>1, <2>3, <3>2, <3>3, Zenon
    <3>5. PICK k, last : k = WholeBlocks(TRUE, Len(t)) /\ last = Decrypt(0 + k, Rest(TRUE, t))
      OBVIOUS
    <3>6. PlainFrom(<<>> \o ProcessBlocks(TRUE, 0, t, k) \o DropLast(last, Unpadding(last)), 0, len)
      BY <1>2, <3>4, <3>5, DecFinishAll
    <3>7. result' = <<>> \o ProcessBlocks(TRUE, 0, t, k) \o DropLast(last, Unpadding(last))
      BY <3>2, <3>3, <3>5, Zenon DEF DecFinish
    <3> QED
      BY <1>1, <3>6, <3>7, Zenon DEF PlainFrom
  <2>5. dtaken' \in Nat /\ dtaken' <= Len(text') /\ eend' /\ dtaken' = Len(text') /\ dend'
    BY <1>1, <1>4, <2>3
  <2>6. DecState'
    BY <2>4, <2>5, Zenon DEF DecState
  <2> QED
    BY <2>2, <2>6
<1>6. taken' \in 0 .. len' /\ eend' \in BOOLEAN /\ dend' \in BOOLEAN
  BY <1>1, <1>2, <1>4
<1> QED
  BY <1>3, <1>5, <1>6 DEF StreamInv

LEMMA BareText == Message /\ mode.padding = "none" => TextLen = len
<1> SUFFICES ASSUME Message, mode.padding = "none" PROVE TextLen = len
  OBVIOUS
<1>1. PICK r : r = len % BlockSize
  OBVIOUS
<1>2. len = Whole * BlockSize + r
  BY <1>1, WholeFacts, Zenon
<1>3. TextLen = Whole * BlockSize + Len(Block(Whole)) /\ Len(Block(Whole)) = r
  BY <1>1, LastBlockFacts
<1> QED
  BY <1>2, <1>3, Zenon

\* A whole bufferful is not the end of the ciphertext.
LEMMA DecMore ==
  ASSUME StreamInv, EncState, DecState, DecUnderflow,
         NEW a \in Nat, a = Len(text) - dtaken, a > Fill
  PROVE  DecState'
<1> DEFINE left == SubSeq(text, dtaken + 1, Len(text))
<1>1. /\ mode.decoder = "istream" /\ ~dend
      /\ mode' = mode /\ len' = len /\ UNCHANGED encrypter
  BY DEF DecUnderflow
<1>2. Message /\ taken \in 0 .. len /\ eend \in BOOLEAN /\ dend \in BOOLEAN /\ len \in Nat
  BY DEF StreamInv, Message
<1>3. eend' = eend /\ text' = text
  BY <1>1 DEF encrypter
<1>4. PICK b \in Nat \ {0} : Fill = b * BlockSize /\ Fill \div BlockSize = b /\ Fill \in Nat \ {0}
  BY FillFacts
<1>5. Len(text) \in Nat /\ Len(text) <= TextLen /\ text \in Seq(Piece)
  BY <1>2, TextFits
<1>6. /\ dcalls \in Nat /\ dtaken = dcalls * BlockSize /\ PlainFrom(result, 0, dtaken)
      /\ dtaken = 0 \/ dtaken < Len(text)
      /\ \E e \in Nat : dtaken = e * Fill
      /\ dtaken \in Nat
  BY <1>1, Zenon DEF DecState
<1>7. PICK m \in Nat, g \in Nat : m = dtaken /\ g = Len(text) /\ m + a = g /\ m <= g
  BY <1>5, <1>6
<1>8. PICK n \in Nat : n = dcalls /\ m = n * BlockSize
  BY <1>6, <1>7
<1>9. PICK t, s : t = left /\ s = result
  OBVIOUS
<1>10. CipherFrom(t, m, a) /\ Len(t) = a
  <2>1. PICK v : v = text
    OBVIOUS
  <2>2. CipherFrom(v, 0, g) /\ g <= g /\ g - m = a /\ 0 + m = m /\ 0 \in Nat
    <3>1. CipherFrom(v, 0, g)
      BY <1>7, <2>1, Zenon DEF EncState
    <3> QED
      BY <1>7, <3>1
  <2>3. CipherFrom(SubSeq(v, m + 1, g), 0 + m, g - m)
    BY <1>7, <2>2, CipherCut
  <2>4. CipherFrom(t, m, a)
    BY <1>7, <1>9, <2>1, <2>2, <2>3, Zenon
  <2> QED
    BY <2>4, Zenon DEF CipherFrom
<1>11. /\ result' = s \o ProcessBlocks(TRUE, n, t, b)
       /\ dtaken' = m + Fill /\ dcalls' = n + b /\ dend' = dend
  <2>1. Len(left) > Fill /\ ~(Len(left) <= Fill)
    <3>1. Len(left) = a
      BY <1>9, <1>10, Zenon
    <3>2. PICK x \in Nat : x = Fill
      BY <1>4
    <3>3. a > x
      BY <3>2, Zenon
    <3>4. a > x /\ ~(a <= x)
      BY <3>3
    <3> QED
      BY <3>1, <3>2, <3>4, Zenon
  <2>2. /\ result' = result \o ProcessBlocks(TRUE, dcalls, left, Fill \div BlockSize)
        /\ dtaken' = dtaken + Fill /\ dcalls' = dcalls + Fill \div BlockSize /\ dend' = dend
    BY <2>1 DEF DecUnderflow
  <2> QED
    BY <1>4, <1>7, <1>8, <1>9, <2>2, Zenon
<1>12. n + b \in Nat /\ m + Fill = (n + b) * BlockSize
  BY <1>4, <1>8, Products
<1>13. m + Fill < Len(text) /\ m + Fill \in Nat /\ Fill <= a
  BY <1>4, <1>7
<1>14. n + b <= Whole
  <2>1. m + Fill < TextLen
    <3>1. TextLen \in Nat
      BY <1>2, LastBlockFacts
    <3> QED
      BY <1>5, <1>13, <3>1
  <2>2. (n + b) * BlockSize < TextLen
    BY <1>12, <2>1, Zenon
  <2> QED
    BY <1>2, <1>12, <2>2, BlockBound
<1>15. CipherFrom(t, n * BlockSize, a) /\ b * BlockSize <= a
  BY <1>4, <1>8, <1>10, <1>13, Zenon
<1>16. PlainFrom(ProcessBlocks(TRUE, n, t, b), n * BlockSize, b * BlockSize)
  BY <1>2, <1>14, <1>15, DecPart
<1>17. PICK x \in Nat : x = Fill
  BY <1>4
<1>18. PlainFrom(s \o ProcessBlocks(TRUE, n, t, b), 0, m + x)
  <2>1. 0 + m = m /\ 0 \in Nat
    OBVIOUS
  <2>2. PlainFrom(s, 0, m) /\ PlainFrom(ProcessBlocks(TRUE, n, t, b), 0 + m, x)
    BY <1>4, <1>6, <1>7, <1>8, <1>9, <1>16, <1>17, <2>1, Zenon
  <2> QED
    BY <2>1, <2>2, PlainJoin
<1>19. PlainFrom(result, 0, dtaken)'
  BY <1>11, <1>17, <1>18, Zenon DEF PlainFrom
<1>20. \E e \in Nat : m + x = e * x
  <2>1. PICK e \in Nat : m = e * x
    BY <1>6, <1>7, <1>17
  <2>2. m + x = (e + 1) * x /\ e + 1 \in Nat
    BY <2>1
  <2> QED
    BY <2>2
<1>21. Fill' = Fill
  BY DEF Fill
<1>22. /\ dtaken' \in Nat /\ dtaken' <= Len(text') /\ dtaken' < Len(text') /\ ~dend'
       /\ mode'.decoder # "ostream" /\ dcalls' \in Nat /\ dtaken' = dcalls' * BlockSize
  <2>1. dtaken' = m + Fill /\ dcalls' = n + b /\ dcalls' \in Nat /\ dtaken' = dcalls' * BlockSize
    BY <1>11, <1>12, Zenon
  <2> QED
    BY <1>1, <1>3, <1>5, <1>11, <1>13, <2>1
<1>23. \E e \in Nat : dtaken' = e * Fill'
  BY <1>11, <1>17, <1>20, <1>21, Zenon
<1> QED
  BY <1>19, <1>22, <1>23, Zenon DEF DecState

\* The end of the ciphertext, where there is more than padding.
LEMMA DecEnds ==
  ASSUME StreamInv, EncState, DecState, DecUnderflow, DecryptsRight,
         NEW a \in Nat, a = Len(text) - dtaken, a <= Fill
  PROVE  PlainFrom(result, 0, len)'
<1> DEFINE left == SubSeq(text, dtaken + 1, Len(text))
<1>1. mode.decoder = "istream" /\ ~dend /\ len' = len
  BY DEF DecUnderflow
<1>2. Message /\ taken \in 0 .. len /\ eend \in BOOLEAN /\ dend \in BOOLEAN /\ len \in Nat
  BY DEF StreamInv, Message
<1>3. Fill \in Nat \ {0}
  BY FillFacts
<1>4. Len(text) \in Nat /\ text \in Seq(Piece)
  BY <1>2, TextFits
<1>5. /\ dcalls \in Nat /\ dtaken = dcalls * BlockSize /\ PlainFrom(result, 0, dtaken)
      /\ dtaken = 0 \/ dtaken < Len(text)
      /\ \E e \in Nat : dtaken = e * Fill
      /\ dtaken \in Nat
  BY <1>1, Zenon DEF DecState
<1>6. PICK m \in Nat, g \in Nat : m = dtaken /\ g = Len(text) /\ m + a = g /\ m <= g
  BY <1>4, <1>5
<1>7. PICK n \in Nat : n = dcalls /\ m = n * BlockSize
  BY <1>5, <1>6
<1>8. PICK t, s : t = left /\ s = result
  OBVIOUS
<1>9. CipherFrom(t, m, a) /\ Len(t) = a
  <2>1. PICK v : v = text
    OBVIOUS
  <2>2. CipherFrom(v, 0, g) /\ g <= g /\ g - m = a /\ 0 + m = m /\ 0 \in Nat
    <3>1. CipherFrom(v, 0, g)
      BY <1>6, <2>1, Zenon DEF EncState
    <3> QED
      BY <1>6, <3>1
  <2>3. CipherFrom(SubSeq(v, m + 1, g), 0 + m, g - m)
    BY <1>6, <2>2, CipherCut
  <2>4. CipherFrom(t, m, a)
    BY <1>6, <1>8, <2>1, <2>2, <2>3, Zenon
  <2> QED
    BY <2>4, Zenon DEF CipherFrom
<1>10. PICK buffer : buffer = LastFill(TRUE, n, t)
  OBVIOUS
<1>11. PICK last : last = SubSeq(buffer, Len(t) - Len(LastBlock(t)) + 1, Len(buffer))
  OBVIOUS
<1>12. eend /\ result' = s \o Shown(buffer, Len(buffer) - Unpadding(last))
  <2>1. ~(Len(left) > Fill)
    <3>1. Len(left) = a
      BY <1>8, <1>9, Zenon
    <3>2. ~(a > Fill)
      BY <1>3
    <3> QED
      BY <3>1, <3>2, Zenon
  <2>2. /\ eend
        /\ result' = result \o Shown(LastFill(TRUE, dcalls, left),
             Len(LastFill(TRUE, dcalls, left))
               - Unpadding(SubSeq(LastFill(TRUE, dcalls, left), Len(left) - Len(LastBlock(left)) + 1,
                                  Len(LastFill(TRUE, dcalls, left)))))
    BY <2>1, Zenon DEF DecUnderflow
  <2> QED
    BY <1>7, <1>8, <1>10, <1>11, <2>2, Zenon
<1>13. Len(text) = TextLen
  BY <1>12 DEF EncState
<1>14. TextLen \in Nat /\ TextLen > 0
  <2>1. TextLen \in Nat
    BY <1>2, LastBlockFacts
  <2>2. TextLen # 0
    <3>1. CASE mode.padding = "none"
      <4>1. text # <<>>
        BY <1>1, <3>1 DEF DecryptsRight
      <4> QED
        BY <1>4, <1>13, <4>1, EmptySeq
    <3>2. CASE mode.padding # "none"
      BY <1>2, <3>2, Nothing
    <3> QED
      BY <3>1, <3>2
  <2> QED
    BY <2>1, <2>2
<1>15. m < TextLen /\ n * BlockSize < TextLen
  <2>1. m < TextLen
    BY <1>5, <1>6, <1>13, <1>14
  <2> QED
    BY <1>7, <2>1, Zenon
<1>16. CipherFrom(t, n * BlockSize, TextLen - n * BlockSize)
  <2>1. TextLen - m = a
    BY <1>6, <1>13
  <2> QED
    BY <1>7, <1>9, <2>1, Zenon
<1>17. /\ n * BlockSize <= len /\ len - n * BlockSize = Len(buffer) - Unpadding(last)
       /\ PlainFrom(SubSeq(buffer, 1, len - n * BlockSize), n * BlockSize, len - n * BlockSize)
  <2>1. Message /\ n * BlockSize < TextLen
    BY <1>2, <1>15
  <2>2. HoldsRest(n, buffer, last)
    BY <1>10, <1>11, <1>16, <2>1, DecLast
  <2> QED
    BY <2>2, Zenon DEF HoldsRest
<1>18. m < len
  <2>1. m <= len
    BY <1>7, <1>17, Zenon
  <2>2. m # len
    <3>1. CASE mode.padding = "none"
      <4>1. TextLen = len
        BY <1>2, <3>1, BareText
      <4> QED
        BY <1>14, <1>15, <4>1
    <3>2. CASE mode.padding # "none"
      <4>1. len % Fill # 0
        BY <1>1, <3>2 DEF DecryptsRight
      <4>2. PICK x \in Nat \ {0}, e \in Nat : x = Fill /\ m = e * x
        BY <1>3, <1>5, <1>6
      <4>3. (e * x + 0) % x = 0
        <5>1. 0 \in 0 .. x - 1
          OBVIOUS
        <5> QED
          BY <5>1, DivUnique
      <4>4. e * x + 0 = m
        BY <4>2
      <4> QED
        BY <4>1, <4>2, <4>3, <4>4, Zenon
    <3> QED
      BY <3>1, <3>2
  <2> QED
    BY <1>2, <2>1, <2>2
<1>19. PICK d \in Nat \ {0} : d = len - m /\ m + d = len
  BY <1>2, <1>18
<1>20. Len(buffer) - Unpadding(last) = d /\ PlainFrom(SubSeq(buffer, 1, d), m, d)
  BY <1>7, <1>17, <1>19, Zenon
<1>21. Shown(buffer, d) = SubSeq(buffer, 1, d)
  BY <1>19 DEF Shown
<1>22. PlainFrom(s \o SubSeq(buffer, 1, d), 0, m + d)
  <2>1. 0 + m = m /\ 0 \in Nat
    OBVIOUS
  <2>2. PlainFrom(s, 0, m) /\ PlainFrom(SubSeq(buffer, 1, d), 0 + m, d)
    BY <1>5, <1>6, <1>8, <1>20, <2>1, Zenon
  <2> QED
    BY <2>1, <2>2, PlainJoin
<1>23. result' = s \o SubSeq(buffer, 1, d)
  BY <1>12, <1>20, <1>21, Zenon
<1> QED
  BY <1>1, <1>19, <1>22, <1>23, Zenon DEF PlainFrom

LEMMA DecUnderflowKeeps == ASSUME StreamInv, DecUnderflow PROVE StreamInv'
<1>1. /\ mode.decoder = "istream" /\ ~dend
      /\ mode' = mode /\ len' = len /\ UNCHANGED encrypter
  BY DEF DecUnderflow
<1>2. Message /\ taken \in 0 .. len /\ eend \in BOOLEAN /\ dend \in BOOLEAN /\ len \in Nat
  BY DEF StreamInv, Message
<1>3. Message' /\ EncryptsRight' = EncryptsRight
  BY <1>1, <1>2, Kept
<1>4. taken' = taken /\ eend' = eend /\ text' = text
  BY <1>1 DEF encrypter
<1>5. dend' \in BOOLEAN
  BY <1>2 DEF DecUnderflow
<1>6. ASSUME EncryptsRight PROVE EncState' /\ DecState'
  <2>1. EncState /\ DecState
    BY <1>6 DEF StreamInv
  <2>2. EncState'
    BY <1>1, <2>1, EncWaits
  <2>3. Len(text) \in Nat /\ text \in Seq(Piece) /\ Fill \in Nat \ {0}
    BY <1>2, <2>1, TextFits, FillFacts
  <2>4. dtaken \in Nat /\ dtaken <= Len(text)
    BY <2>1 DEF DecState
  <2>5. PICK a \in Nat : a = Len(text) - dtaken
    BY <2>3, <2>4
  <2>6. CASE a > Fill
    BY <2>1, <2>2, <2>5, <2>6, DecMore
  <2>7. CASE a <= Fill
    <3>1. Len(SubSeq(text, dtaken + 1, Len(text))) = a
      <4>1. PICK m \in Nat, g \in Nat : m = dtaken /\ g = Len(text)
        BY <2>3, <2>4
      <4>2. m <= g /\ g <= Len(text) /\ g - m = a
        BY <2>3, <2>4, <2>5, <4>1
      <4>3. Len(SubSeq(text, m + 1, g)) = g - m
        BY <2>3, <4>2, Between
      <4> QED
        BY <4>1, <4>2, <4>3, Zenon
    <3>2. eend /\ dtaken' = Len(text) /\ dend' = TRUE
      <4>1. ~(a > Fill)
        BY <2>3, <2>7
      <4>2. ~(Len(SubSeq(text, dtaken + 1, Len(text))) > Fill)
        BY <3>1, <4>1, Zenon
      <4> QED
        BY <4>2, Zenon DEF DecUnderflow
    <3>3. ASSUME DecryptsRight' PROVE PlainFrom(result, 0, len)'
      <4>1. DecryptsRight
        BY <1>1, <1>4, <3>3, Zenon DEF DecryptsRight, Fill
      <4> QED
        BY <2>1, <2>5, <2>7, <4>1, DecEnds
    <3>4. dtaken' \in Nat /\ dtaken' <= Len(text') /\ dtaken' = Len(text') /\ eend' /\ dend'
      BY <1>4, <2>3, <3>2
    <3>5. DecState'
      BY <3>3, <3>4, Zenon DEF DecState
    <3> QED
      BY <2>2, <3>5
  <2> QED
    BY <2>3, <2>5, <2>6, <2>7
<1>7. taken' \in 0 .. len'
  BY <1>1, <1>2, <1>4
<1> QED
  BY <1>2, <1>3, <1>4, <1>5, <1>6, <1>7 DEF StreamInv

-----------------------------------------------------------------------------
(* The streams from beginning to end.                                      *)

LEMMA NothingYet == CipherFrom(<<>>, 0, 0) /\ PlainFrom(<<>>, 0, 0)
<1>1. <<>> \in Seq(Piece) /\ <<>> \in Seq(Int) /\ Len(<<>>) = 0
  OBVIOUS
<1>2. ASSUME NEW q \in 1 .. 0 PROVE FALSE
  BY <1>2
<1> QED
  BY <1>1, <1>2, Zenon DEF CipherFrom, PlainFrom

LEMMA InitKeeps == Init => StreamInv
<1> SUFFICES ASSUME Init PROVE StreamInv
  OBVIOUS
<1>1. mode \in Modes /\ len \in Nat
  BY Sized DEF Init
<1>2. /\ taken = 0 /\ ebuf = <<>> /\ ecalls = 0 /\ eend = FALSE /\ text = <<>>
      /\ dtaken = 0 /\ dbuf = <<>> /\ dcalls = 0 /\ dend = FALSE /\ result = <<>>
  BY Zenon DEF Init
<1>3. Len(<<>>) = 0 /\ 0 \in Nat /\ 0 <= 0 /\ 0 <= BufSize /\ 0 = 0 * BlockSize /\ 0 = 0 * Fill
  BY Sized, FillFacts
<1>4. EncState
  BY <1>2, <1>3, NothingYet, Zenon DEF EncState
<1>5. DecState
  BY <1>2, <1>3, NothingYet, Zenon DEF DecState
<1>6. taken \in 0 .. len /\ eend \in BOOLEAN /\ dend \in BOOLEAN
  <2>1. 0 \in 0 .. len
    BY <1>1
  <2>2. FALSE \in BOOLEAN
    OBVIOUS
  <2> QED
    BY <1>2, <2>1, <2>2, Zenon
<1>7. Message
  BY <1>1 DEF Message
<1> QED
  BY <1>4, <1>5, <1>6, <1>7, Zenon DEF StreamInv

LEMMA StutterKeeps == ASSUME StreamInv, UNCHANGED vars PROVE StreamInv'
<1>1. /\ mode' = mode /\ len' = len /\ dend' = dend
      /\ UNCHANGED encrypter /\ UNCHANGED decrypter
  BY DEF vars, encrypter, decrypter
<1>2. Message /\ taken \in 0 .. len /\ eend \in BOOLEAN /\ dend \in BOOLEAN
  BY DEF StreamInv
<1>3. Message' /\ EncryptsRight' = EncryptsRight
  BY <1>1, <1>2, Kept
<1>4. taken' = taken /\ eend' = eend /\ text' = text
  BY <1>1 DEF encrypter
<1>5. ASSUME EncryptsRight PROVE EncState' /\ DecState'
  <2>1. EncState /\ DecState
    BY <1>5 DEF StreamInv
  <2>2. Len(text) \in Nat /\ Len(text') \in Nat /\ Len(text) <= Len(text')
    <3>1. Len(text) \in Nat
      BY <1>2, <2>1, TextFits
    <3> QED
      BY <1>4, <3>1
  <2> QED
    BY <1>1, <1>2, <1>4, <2>1, <2>2, EncWaits, DecWaits
<1>6. taken' \in 0 .. len' /\ eend' \in BOOLEAN /\ dend' \in BOOLEAN
  BY <1>1, <1>2, <1>4
<1> QED
  BY <1>3, <1>5, <1>6 DEF StreamInv

\* As long as the encrypting stream is one of those that encrypt rightly, the
\* ciphertext so far is the ciphertext of the message, and the decrypting
\* stream has decrypted whole blocks of it: for every size of block, of buffer
\* and of message.
THEOREM StreamInvariance == Spec => []StreamInv
<1>1. ASSUME StreamInv, [Next]_vars PROVE StreamInv'
  <2>1. CASE Next
    BY <1>1, <2>1, EncPutKeeps, EncFinishKeeps, EncUnderflowKeeps,
       DecPutKeeps, DecFinishKeeps, DecUnderflowKeeps DEF Next
  <2>2. CASE UNCHANGED vars
    BY <1>1, <2>2, StutterKeeps
  <2> QED
    BY <1>1, <2>1, <2>2
<1> QED
  BY <1>1, InitKeeps, PTL DEF Spec

\* The ciphertext does not depend on the class that made it, nor on how its
\* buffer divides the message, where the class encrypts rightly: an ostream
\* that is not overfull, an istream whose last block is not a full one.
THEOREM SameTextHolds == Spec => []SameText
<1>1. StreamInv => SameText
  <2> SUFFICES ASSUME StreamInv, eend, EncryptsRight PROVE text = CipherText
    BY DEF SameText
  <2>1. Message /\ EncState
    BY DEF StreamInv
  <2>2. Len(text) = TextLen /\ CipherFrom(text, 0, Len(text))
    BY <2>1, Zenon DEF EncState
  <2>3. PICK n \in Nat : n = TextLen
    BY <2>1, TextPoint
  <2>0. PICK t, u : t = text /\ u = CipherText
    OBVIOUS
  <2>4. CipherFrom(t, 0, n)
    BY <2>0, <2>2, <2>3, Zenon
  <2>5. CipherFrom(u, 0, n)
    BY <2>0, <2>1, <2>3, TextPoint, Zenon
  <2>6. t = u
    BY <2>4, <2>5, SamePart
  <2> QED
    BY <2>0, <2>6
<1> QED
  BY <1>1, StreamInvariance, PTL

\* Decryption gives the message back, for every cipher and padding and either
\* class at either end, where both are used on lengths they handle rightly
\* (EncryptsRight, DecryptsRight).
THEOREM RoundTripHolds == Spec => []RoundTrip
<1>1. StreamInv => RoundTrip
  <2> SUFFICES ASSUME StreamInv, dend, EncryptsRight, DecryptsRight PROVE result = Plain
    BY DEF RoundTrip
  <2>1. Message /\ DecState
    BY DEF StreamInv
  <2>2. PlainFrom(result, 0, len)
    BY <2>1, Zenon DEF DecState
  <2>3. PICK n \in Nat : n = len
    BY <2>1 DEF Message
  <2>0. PICK t, u : t = result /\ u = Plain
    OBVIOUS
  <2>4. PlainFrom(t, 0, n)
    BY <2>0, <2>2, <2>3, Zenon
  <2>5. PlainFrom(u, 0, n)
    BY <2>0, <2>1, <2>3, PlainAll, Zenon
  <2>6. t = u
    BY <2>4, <2>5, SamePart
  <2> QED
    BY <2>0, <2>6
<1> QED
  BY <1>1, StreamInvariance, PTL

\* Padding is never taken for a part of the message: at every moment, what
\* came out of the decryption is the beginning of the message.
THEOREM PrefixOnlyHolds == Spec => []PrefixOnly
<1>1. ASSUME StreamInv, EncryptsRight, dend => DecryptsRight, Len(text) <= BufSize
      PROVE  Len(result) <= len /\ \A q \in DOMAIN result : result[q] = q
  <2>1. Message /\ EncState /\ DecState /\ taken \in 0 .. len /\ eend \in BOOLEAN /\ dend \in BOOLEAN
    BY <1>1 DEF StreamInv
  <2>2. len \in Nat /\ mode.decoder \in {"ostream", "istream"}
    BY <2>1 DEF Message, Modes
  <2>3. \E n \in Nat : n <= len /\ PlainFrom(result, 0, n)
    <3>1. CASE dend
      <4>1. PlainFrom(result, 0, len)
        BY <1>1, <2>1, <3>1, Zenon DEF DecState
      <4>2. len <= len
        BY <2>2
      <4> QED
        BY <2>2, <4>1, <4>2
    <3>2. CASE ~dend /\ mode.decoder = "ostream"
      <4>1. result = <<>>
        BY <1>1, <2>1, <3>2, Zenon DEF DecState
      <4>2. 0 \in Nat /\ 0 <= len
        BY <2>2
      <4> QED
        BY <4>1, <4>2, NothingYet, Zenon
    <3>3. CASE ~dend /\ mode.decoder = "istream"
      <4>1. /\ dcalls \in Nat /\ dtaken = dcalls * BlockSize /\ PlainFrom(result, 0, dtaken)
            /\ dtaken = 0 \/ dtaken < Len(text)
            /\ dtaken \in Nat
        BY <2>1, <3>3, Zenon DEF DecState
      <4>2. dtaken = 0 \/ dtaken < TextLen
        <5>1. Len(text) \in Nat /\ Len(text) <= TextLen /\ TextLen \in Nat
          BY <2>1, TextFits, TextPoint
        <5> QED
          BY <4>1, <5>1
      <4>3. dcalls * BlockSize = 0 \/ dcalls * BlockSize < TextLen
        BY <4>1, <4>2, Zenon
      <4>4. dcalls * BlockSize <= len
        BY <2>1, <4>1, <4>3, BlockBound
      <4>5. dtaken <= len
        BY <4>1, <4>4, Zenon
      <4> QED
        BY <4>1, <4>5
    <3> QED
      BY <2>1, <2>2, <3>1, <3>2, <3>3
  <2>4. PICK n \in Nat : n <= len /\ PlainFrom(result, 0, n)
    BY <2>3
  <2>5. PICK s : s = result
    OBVIOUS
  <2>6. s \in Seq(Int) /\ Len(s) = n /\ \A q \in 1 .. n : s[q] = 0 + q
    BY <2>4, <2>5, Zenon DEF PlainFrom
  <2>7. Len(s) <= len /\ \A q \in DOMAIN s : s[q] = q
    BY <2>2, <2>4, <2>6
  <2> QED
    BY <2>5, <2>7
<1>2. StreamInv => PrefixOnly
  BY <1>1, Zenon DEF PrefixOnly
<1> QED
  BY <1>2, StreamInvariance, PTL
=============================================================================
