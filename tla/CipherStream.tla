---------------------------- MODULE CipherStream ----------------------------
(***************************************************************************)
(* The cipher streams of yu/crypt/blowfish.hpp: a program encrypts a       *)
(* message through a cipher_enc_ostream or a cipher_enc_istream, another   *)
(* decrypts what comes out through a cipher_dec_ostream or _istream, each  *)
(* as far as it has been given bytes.                                      *)
(*                                                                         *)
(* The n-th byte of the message is the number n.  The cipher is kept       *)
(* abstract: the n-th call of process() on the bytes s yields bytes that   *)
(* name n, their place and what they depend on, the whole block for ECB    *)
(* and CBC and the one byte for CFB and OFB.  Only process() called on     *)
(* exactly these bytes, as the n-th call again, gives s back.              *)
(***************************************************************************)
EXTENDS Integers, Sequences

CONSTANTS BlockSize,   \* kBlockSize (8 in the code)
          BufSize,     \* size of buffer_ (1024 in the code)
          MaxLen       \* bound: length of the message

ASSUME CipherStreamAssumption ==
  /\ BlockSize \in Nat \ {0} /\ MaxLen \in Nat
  /\ BufSize \in Nat /\ BufSize % BlockSize = 0 /\ BufSize > BlockSize

VARIABLES
  mode,      \* the cipher, the padding and the stream classes in use
  len,       \* length of the message
  taken,     \* bytes of the message given to, or read by, the encrypting stream
  ebuf,      \* [pbase(), pptr()) of the encrypting cipher_ostreambuf
  ecalls,    \* calls of its process()
  eend,      \* the encrypting stream is finished
  text,      \* every byte of the ciphertext, in order
  dtaken,    \* bytes of it given to, or read by, the decrypting stream
  dbuf,      \* [pbase(), pptr()) of the decrypting cipher_ostreambuf
  dcalls,    \* calls of its process()
  dend,      \* the decrypting stream is finished
  result     \* what the decryption gave

encrypter == <<taken, ebuf, ecalls, eend, text>>
decrypter == <<dtaken, dbuf, dcalls, dend, result>>
vars == <<mode, len, taken, ebuf, ecalls, eend, text,
          dtaken, dbuf, dcalls, dend, result>>

\* The combinations the static_asserts allow, NoPadding of a block cipher too.
Modes == [cipher : {"block", "stream"}, padding : {"none", "zero", "pkcs7"},
          encoder : {"ostream", "istream"}, decoder : {"ostream", "istream"}]

Noise == -1    \* a byte decrypted from bytes that do not belong together

Plain == [i \in 1 .. len |-> i]

\* Bytes of the ciphertext are triples, but for one an empty buffer shows.
Sealed(b) == Len(b) = 3

TypeOK ==
  /\ mode \in Modes /\ len \in 0 .. MaxLen
  /\ taken \in 0 .. len /\ dtaken \in 0 .. Len(text)
  /\ Len(ebuf) <= BufSize /\ \A i \in DOMAIN ebuf : ebuf[i] \in 1 .. len
  /\ Len(dbuf) <= BufSize
  /\ ecalls \in Nat /\ dcalls \in Nat
  /\ eend \in BOOLEAN /\ dend \in BOOLEAN

Init ==
  /\ mode \in {m \in Modes : m.cipher = "stream" => m.padding = "none"}
  /\ len \in {n \in 0 .. MaxLen :
                mode.cipher = "block" /\ mode.padding = "none" => n % BlockSize = 0}
  /\ taken = 0 /\ ebuf = <<>> /\ ecalls = 0 /\ eend = FALSE /\ text = <<>>
  /\ dtaken = 0 /\ dbuf = <<>> /\ dcalls = 0 /\ dend = FALSE /\ result = <<>>

-----------------------------------------------------------------------------
(* The cipher and the paddings.                                            *)

\* The n-th call of process() on the plain bytes s, and on the bytes t.
Encrypt(n, s) ==
  [j \in DOMAIN s |-> <<n, j, IF mode.cipher = "block" THEN s ELSE <<s[j]>>>>]

Decrypt(n, t) ==
  [j \in DOMAIN t |->
     LET s == IF Sealed(t[j]) THEN t[j][3] ELSE <<>> IN
     IF mode.cipher = "stream"
     THEN IF Sealed(t[j]) /\ t[j][1] = n /\ t[j][2] = j THEN s[1] ELSE Noise
     ELSE IF Len(s) = Len(t) /\ Encrypt(n, s) = t THEN s[j] ELSE Noise]

Process(decrypt, n, s) == IF decrypt THEN Decrypt(n, s) ELSE Encrypt(n, s)

\* process() on k whole blocks from the front of s, the first as the n-th call.
ProcessBlocks(decrypt, n, s, k) ==
  [j \in 1 .. k * BlockSize |->
     LET b == (j - 1) \div BlockSize
         block == SubSeq(s, b * BlockSize + 1, (b + 1) * BlockSize)
     IN Process(decrypt, n + b, block)[((j - 1) % BlockSize) + 1]]

\* padding(base, ptr, end) of the bytes s that are left in front of end.
Pad(s) ==
  LET missing == BlockSize - Len(s) IN
  s \o CASE mode.padding = "none"  -> <<>>
         [] mode.padding = "zero"  -> [i \in 1 .. missing |-> 0]
         [] mode.padding = "pkcs7" -> [i \in 1 .. missing |-> missing]

\* Mutant of Unpadding: PKCS7 padding is taken for padding with zeros.
UnpaddingZeros(s) ==
  CHOOSE n \in 0 .. Len(s) :
    /\ \A i \in Len(s) - n + 1 .. Len(s) : s[i] = 0
    /\ n = Len(s) \/ s[Len(s) - n] # 0

\* unpadding(): how many bytes of the last block are not of the message.  The
\* last byte of PKCS7 padding is believed, whatever it is.
Unpadding(s) ==
  CASE mode.padding = "none" \/ s = <<>> -> 0
    [] mode.padding = "zero"  -> CHOOSE n \in 0 .. Len(s) :
                                   /\ \A i \in Len(s) - n + 1 .. Len(s) : s[i] = 0
                                   /\ n = Len(s) \/ s[Len(s) - n] # 0
    [] mode.padding = "pkcs7" -> IF s[Len(s)] = Noise THEN 0 ELSE s[Len(s)]

\* The assertions on the last block s: of process(), and of unpadding().
Asserted(s) ==
  mode.cipher = "block" => Len(s) = BlockSize \/ (s = <<>> /\ mode.padding = "none")

\* What is left of s without its last n bytes; nothing for a negative size.
DropLast(s, n) == SubSeq(s, 1, Len(s) - n)

-----------------------------------------------------------------------------
(* cipher_ostreambuf.                                                      *)

\* The blocks overflow() processes of n bytes: decrypting keeps the last one.
WholeBlocks(decrypt, n) ==
  IF ~decrypt THEN n \div BlockSize ELSE IF n = 0 THEN 0 ELSE (n - 1) \div BlockSize

\* What overflow() leaves in the buffer s.
Rest(decrypt, s) == SubSeq(s, WholeBlocks(decrypt, Len(s)) * BlockSize + 1, Len(s))

\* One byte for a cipher_enc_ostream.  A full buffer makes room, but
\* overflow(ch) does not store ch: the byte is gone.
EncPut ==
  /\ mode.encoder = "ostream" /\ taken < len /\ ~eend
  /\ taken' = taken + 1
  /\ IF Len(ebuf) < BufSize
     THEN ebuf' = Append(ebuf, taken + 1) /\ UNCHANGED <<ecalls, text>>
     ELSE LET k == WholeBlocks(FALSE, Len(ebuf)) IN
          /\ text' = text \o ProcessBlocks(FALSE, ecalls, ebuf, k)
          /\ ecalls' = ecalls + k
          /\ ebuf' = Rest(FALSE, ebuf)
  /\ UNCHANGED <<mode, len, eend, decrypter>>

\* Mutant of EncFinish: padding only where a block is begun.
EncFinishPartial ==
  /\ mode.encoder = "ostream" /\ taken = len /\ ~eend
  /\ LET k == WholeBlocks(FALSE, Len(ebuf))
         rest == Rest(FALSE, ebuf) IN
       text' = text \o ProcessBlocks(FALSE, ecalls, ebuf, k)
                    \o Encrypt(ecalls + k, IF rest = <<>> THEN <<>> ELSE Pad(rest))
  /\ eend' = TRUE
  /\ UNCHANGED <<mode, len, taken, ebuf, ecalls, decrypter>>

\* finish(), or the destructor: the whole blocks, then the rest with padding.
EncFinish ==
  /\ mode.encoder = "ostream" /\ taken = len /\ ~eend
  /\ LET k == WholeBlocks(FALSE, Len(ebuf))
         last == Pad(Rest(FALSE, ebuf)) IN
       /\ Asserted(last)
       /\ text' = text \o ProcessBlocks(FALSE, ecalls, ebuf, k) \o Encrypt(ecalls + k, last)
       /\ ecalls' = ecalls + k + 1
  /\ ebuf' = <<>>
  /\ eend' = TRUE
  /\ UNCHANGED <<mode, len, taken, decrypter>>

\* One byte for a cipher_dec_ostream, lost like above when the buffer is full.
DecPut ==
  /\ mode.decoder = "ostream" /\ dtaken < Len(text)
  /\ dtaken' = dtaken + 1
  /\ IF Len(dbuf) < BufSize
     THEN dbuf' = Append(dbuf, text[dtaken + 1]) /\ UNCHANGED <<dcalls, result>>
     ELSE LET k == WholeBlocks(TRUE, Len(dbuf)) IN
          /\ result' = result \o ProcessBlocks(TRUE, dcalls, dbuf, k)
          /\ dcalls' = dcalls + k
          /\ dbuf' = Rest(TRUE, dbuf)
  /\ UNCHANGED <<mode, len, dend, encrypter>>

DecFinish ==
  /\ mode.decoder = "ostream" /\ eend /\ dtaken = Len(text) /\ ~dend
  /\ LET k == WholeBlocks(TRUE, Len(dbuf))
         last == Decrypt(dcalls + k, Rest(TRUE, dbuf)) IN
       /\ Asserted(last)
       /\ result' = result \o ProcessBlocks(TRUE, dcalls, dbuf, k)
                           \o DropLast(last, Unpadding(last))
       /\ dcalls' = dcalls + k + 1
  /\ dbuf' = <<>>
  /\ dend' = TRUE
  /\ UNCHANGED <<mode, len, dtaken, encrypter>>

-----------------------------------------------------------------------------
(* cipher_istreambuf.                                                      *)

\* The bytes one underflow() reads at most: p + kBlockSize < the end.
Fill == ((BufSize - 1) \div BlockSize) * BlockSize

\* The bytes of the last block, when underflow() meets the end of s.
LastBlock(s) ==
  IF s = <<>> THEN <<>>
  ELSE SubSeq(s, ((Len(s) - 1) \div BlockSize) * BlockSize + 1, Len(s))

\* The buffer after an underflow() that met the end of file behind the bytes s.
LastFill(decrypt, n, s) ==
  LET k == (Len(s) - Len(LastBlock(s))) \div BlockSize
      last == Process(decrypt, n + k, IF decrypt THEN LastBlock(s) ELSE Pad(LastBlock(s)))
  IN ProcessBlocks(decrypt, n, s, k) \o last

\* underflow() returns *gptr() even when it has put nothing into the buffer.
Shown(buffer, size) ==
  IF size > 0 THEN SubSeq(buffer, 1, size)
  ELSE IF buffer # <<>> THEN <<buffer[1]>> ELSE <<0>>

\* A cipher_enc_istream over the message.
EncUnderflow ==
  LET left == SubSeq(Plain, taken + 1, len) IN
  /\ mode.encoder = "istream" /\ ~eend
  /\ IF Len(left) > Fill
     THEN /\ text' = text \o ProcessBlocks(FALSE, ecalls, left, Fill \div BlockSize)
          /\ taken' = taken + Fill
          /\ ecalls' = ecalls + Fill \div BlockSize
          /\ UNCHANGED eend
     ELSE LET buffer == LastFill(FALSE, ecalls, left) IN
          /\ text' = text \o (IF buffer = <<>> THEN <<<<0>>>> ELSE buffer)
          /\ taken' = len /\ eend' = TRUE
          /\ UNCHANGED ecalls
  /\ UNCHANGED <<mode, len, ebuf, decrypter>>

\* Mutant of DecUnderflow: it does not look for one byte more.
DecUnderflowEager ==
  LET left == SubSeq(text, dtaken + 1, Len(text)) IN
  /\ mode.decoder = "istream" /\ ~dend /\ Len(left) >= Fill
  /\ result' = result \o ProcessBlocks(TRUE, dcalls, left, Fill \div BlockSize)
  /\ dtaken' = dtaken + Fill
  /\ dcalls' = dcalls + Fill \div BlockSize
  /\ UNCHANGED <<mode, len, dend, dbuf, encrypter>>

\* A cipher_dec_istream over the ciphertext: it waits for a whole bufferful and
\* one byte more, or for the end.
DecUnderflow ==
  LET left == SubSeq(text, dtaken + 1, Len(text)) IN
  /\ mode.decoder = "istream" /\ ~dend
  /\ \/ /\ Len(left) > Fill
        /\ result' = result \o ProcessBlocks(TRUE, dcalls, left, Fill \div BlockSize)
        /\ dtaken' = dtaken + Fill
        /\ dcalls' = dcalls + Fill \div BlockSize
        /\ UNCHANGED dend
     \/ /\ Len(left) <= Fill /\ eend /\ Asserted(LastBlock(left))
        /\ LET buffer == LastFill(TRUE, dcalls, left)
               last == SubSeq(buffer, Len(left) - Len(LastBlock(left)) + 1, Len(buffer)) IN
             result' = result \o Shown(buffer, Len(buffer) - Unpadding(last))
        /\ dtaken' = Len(text) /\ dend' = TRUE
        /\ UNCHANGED dcalls
  /\ UNCHANGED <<mode, len, dbuf, encrypter>>

-----------------------------------------------------------------------------
Next == EncPut \/ EncFinish \/ EncUnderflow \/ DecPut \/ DecFinish \/ DecUnderflow

Spec == Init /\ [][Next]_vars

-----------------------------------------------------------------------------
(* Properties.                                                             *)

\* The ciphertext of the message: whole blocks, and one with padding, which is
\* there even when the message ends with a block (for no padding, if it does
\* not).
CipherText ==
  LET k == len \div BlockSize
      rest == SubSeq(Plain, k * BlockSize + 1, len)
  IN ProcessBlocks(FALSE, 0, Plain, k) \o Encrypt(k, Pad(rest))

\* What the code gets right: an encrypting ostream of a message that fits its
\* buffer, an encrypting istream of one that needs padding or may do without.
EncryptsRight ==
  IF mode.encoder = "ostream" THEN len <= BufSize
  ELSE IF mode.padding = "none" THEN len > 0 ELSE len = 0 \/ len % BlockSize # 0

\* A decrypting ostream of a ciphertext that fits its buffer, a decrypting
\* istream whose last bufferful holds more than padding.
DecryptsRight ==
  IF mode.decoder = "ostream" THEN Len(text) <= BufSize
  ELSE IF mode.padding = "none" THEN text # <<>> ELSE len % Fill # 0

\* The ciphertext does not depend on the class that made it, nor on how its
\* buffer divides the message.
SameText == eend /\ EncryptsRight => text = CipherText

\* Decryption gives the message back, for every cipher and padding and either
\* class at either end.
RoundTrip == dend /\ EncryptsRight /\ DecryptsRight => result = Plain

\* Padding is never taken for a part of the message, not for a moment: what
\* came out of the decryption so far is the beginning of the message.
PrefixOnly ==
  EncryptsRight /\ (dend => DecryptsRight) /\ Len(text) <= BufSize =>
    Len(result) <= len /\ \A i \in DOMAIN result : result[i] = i

\* A cipher_enc_ostream encrypts the whole message, of any length.
OstreamEncryptsAll == eend /\ mode.encoder = "ostream" => text = CipherText

\* A cipher_enc_istream gives the ciphertext a cipher_enc_ostream gives.
IstreamEncryptsAlike ==
  eend /\ mode.encoder = "istream" /\ mode.padding = "pkcs7" => text = CipherText
=============================================================================
