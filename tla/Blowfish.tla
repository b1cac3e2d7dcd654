------------------------------ MODULE Blowfish ------------------------------
(***************************************************************************)
(* class Blowfish of yu/crypt/blowfish.hpp: the key schedule, which runs   *)
(* the cipher on its own half-made tables, and the cipher, which the       *)
(* decrypting object runs with the same tables and reversed subkeys.  Each *)
(* of the Rounds rounds of process() is a step.                            *)
(*                                                                         *)
(* A word has four bytes, each below ByteBase (2^32 and 256 in the code);  *)
(* a block is its two words.  The tables of constants are parameters.      *)
(***************************************************************************)
EXTENDS Integers, Sequences

CONSTANTS ByteBase, Rounds,            \* 256 and 16 in the code
          InitSubkey, InitSbox,        \* kInitSubkey, and kInitSbox1 to 4
          XorWord(_, _),               \* ^ on words
          Keys                         \* the keys, as sequences of bytes

Square == ByteBase * ByteBase
Word == 0 .. Square * Square - 1
Sboxes == [1 .. 4 -> [0 .. ByteBase - 1 -> Word]]

ASSUME BlowfishAssumption ==
  /\ ByteBase \in Nat \ {0} /\ ByteBase % 2 = 0
  /\ Rounds \in Nat \ {0} /\ Rounds % 2 = 0
  /\ InitSubkey \in [0 .. Rounds + 1 -> Word] /\ InitSbox \in [1 .. 4 -> [0 .. ByteBase - 1 -> Word]]
  /\ \A a, b \in Word : XorWord(a, b) \in Word /\ XorWord(XorWord(a, b), b) = a /\ XorWord(a, XorWord(a, b)) = b
  /\ \A a, b, c \in Word : XorWord(XorWord(a, b), c) = XorWord(a, XorWord(b, c))
  /\ Keys \subseteq Seq(0 .. ByteBase - 1) \ {<<>>}

VARIABLES
  doing,     \* "mix", "schedule", "ready", "encrypt", "encrypted", "decrypt", "decrypted"
  key,       \* the key of both objects
  subkeys, sboxes,  \* the tables of the object in use
  slot,      \* how many pairs of the tables the schedule has made
  turn,      \* i of the loop in process()
  xL, xR,    \* its locals; between its calls, the block at p
  plain      \* the block that was encrypted

blowfishVars == <<doing, key, subkeys, sboxes, slot, turn, xL, xR, plain>>

BlowfishInit ==
  /\ doing = "mix" /\ key \in Keys
  /\ subkeys = InitSubkey /\ sboxes = InitSbox
  /\ slot = 0 /\ turn = 0 /\ xL = 0 /\ xR = 0 /\ plain = <<0, 0>>

KeyByte(n) == key[(n % Len(key)) + 1]
KeyWord(n) == ((KeyByte(4 * n) * ByteBase + KeyByte(4 * n + 1)) * ByteBase
               + KeyByte(4 * n + 2)) * ByteBase + KeyByte(4 * n + 3)

\* The key goes into the subkeys, again and again until all are mixed.
MixKey ==
  /\ doing = "mix" /\ doing' = "schedule"
  /\ subkeys' = [n \in 0 .. Rounds + 1 |-> XorWord(InitSubkey[n], KeyWord(n))]
  /\ UNCHANGED <<key, sboxes, slot, turn, xL, xR, plain>>

f(x) ==
  LET s(box, unit) == sboxes[box][(x \div unit) % ByteBase]
      plus(a, b) == (a + b) % (Square * Square)
  IN plus(XorWord(plus(s(1, Square * ByteBase), s(2, Square)), s(3, ByteBase)), s(4, 1))

InProcess == doing \in {"schedule", "encrypt", "decrypt"}

\* A turn of the loop in process().
Round ==
  /\ InProcess /\ turn < Rounds
  /\ LET l == XorWord(xL, subkeys[turn]) IN xL' = XorWord(f(l), xR) /\ xR' = l
  /\ turn' = turn + 1
  /\ UNCHANGED <<doing, key, subkeys, sboxes, slot, plain>>

\* Mutant of LastSwap: the last swap is not undone.
LastNoSwap == xL' = XorWord(xL, subkeys[Rounds + 1]) /\ xR' = XorWord(xR, subkeys[Rounds])

\* What process() does behind the loop: the last swap is undone.
LastSwap == xL' = XorWord(xR, subkeys[Rounds + 1]) /\ xR' = XorWord(xL, subkeys[Rounds])

\* process() returns into the constructor, which stores the block and, until
\* every table is made, encrypts it again.
Schedule ==
  LET pairs == (Rounds + 2) \div 2
      half == ByteBase \div 2
      n == slot - pairs
  IN
  /\ doing = "schedule" /\ turn = Rounds /\ turn' = 0
  /\ LastSwap
  /\ IF slot < pairs
     THEN /\ subkeys' = [subkeys EXCEPT ![2 * slot] = xL', ![2 * slot + 1] = xR']
          /\ UNCHANGED sboxes
     ELSE /\ sboxes' = [sboxes EXCEPT ![n \div half + 1][2 * (n % half)] = xL',
                                      ![n \div half + 1][2 * (n % half) + 1] = xR']
          /\ UNCHANGED subkeys
  /\ slot' = slot + 1
  /\ doing' = IF slot + 1 = pairs + 4 * half THEN "ready" ELSE "schedule"
  /\ UNCHANGED <<key, plain>>

\* The program encrypts a block, and decrypts what came out with an object it
\* made for decrypting: the same schedule, and the subkeys reversed.
EncryptBlock(l, r) ==
  /\ doing = "ready" /\ doing' = "encrypt"
  /\ xL' = l /\ xR' = r /\ plain' = <<l, r>>
  /\ UNCHANGED <<key, subkeys, sboxes, slot, turn>>

DecryptBlock ==
  /\ doing = "encrypted" /\ doing' = "decrypt"
  /\ subkeys' = [n \in 0 .. Rounds + 1 |-> subkeys[Rounds + 1 - n]]
  /\ UNCHANGED <<key, sboxes, slot, turn, xL, xR, plain>>

BlockDone ==
  /\ doing \in {"encrypt", "decrypt"} /\ turn = Rounds /\ turn' = 0
  /\ LastSwap
  /\ doing' = IF doing = "encrypt" THEN "encrypted" ELSE "decrypted"
  /\ UNCHANGED <<key, subkeys, sboxes, slot, plain>>

BlowfishNext ==
  \/ MixKey \/ Round \/ Schedule \/ DecryptBlock \/ BlockDone
  \/ \E l, r \in Word : EncryptBlock(l, r)

BlowfishSpec == BlowfishInit /\ [][BlowfishNext]_blowfishVars

-----------------------------------------------------------------------------
(* Properties.                                                             *)

BlowfishTypeOK ==
  /\ doing \in {"mix", "schedule", "ready", "encrypt", "encrypted", "decrypt", "decrypted"}
  /\ key \in Keys /\ subkeys \in [0 .. Rounds + 1 -> Word] /\ sboxes \in Sboxes
  /\ slot \in Nat /\ turn \in 0 .. Rounds /\ xL \in Word /\ xR \in Word
  /\ plain \in Word \X Word

\* Decryption gives every block back, under every key: the schedule has left
\* both objects the same tables, and the rounds undo each other in reverse.
Inverts == doing = "decrypted" => <<xL, xR>> = plain
=============================================================================
