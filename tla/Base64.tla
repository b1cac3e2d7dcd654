------------------------------- MODULE Base64 -------------------------------
(***************************************************************************)
(* Encoder::encode() and Decoder::decode() of yu/base64.hpp, a turn of     *)
(* their loops a step.  A message is encoded and what comes out decoded,   *)
(* or a text is decoded.                                                   *)
(*                                                                         *)
(* Bytes are 0 .. 255.  A character of the text is the number it has in    *)
(* the alphabet (0 .. 63), or one of the four below.  The checksum, which  *)
(* is one of the same bytes at both ends, is left out.                     *)
(***************************************************************************)
EXTENDS Integers, Sequences, SequencesExt

PadChar == 64
NewLine == 65      \* the Encoder's newline, and what the Decoder skips
InvalidChar == 66

CONSTANTS Messages,    \* [bytes, wrap, pad]: wrap_width_ (0: none), whether there is a pad_
          Codes        \* texts to decode: [code, pad]

ASSUME Base64Assumption ==
  /\ \A m \in Messages : m.bytes \in Seq(0 .. 255) /\ m.wrap \in Nat /\ m.pad \in BOOLEAN
  /\ \A c \in Codes : c.code \in Seq(0 .. InvalidChar) /\ c.pad \in BOOLEAN

VARIABLES
  coding,    \* "encode", "decode", "pads" (behind the first pad), "done", "invalid"
  source,    \* the member of Messages or Codes
  code,      \* the text
  carry,     \* buf of the loop at hand
  count,     \* read_count of the loop at hand
  place,     \* the position of the istream
  decoded    \* what decode() put out

base64Vars == <<coding, source, code, carry, count, place, decoded>>

FromMessage == "bytes" \in DOMAIN source

Base64Init ==
  /\ source \in Messages \cup Codes
  /\ IF FromMessage THEN coding = "encode" /\ code = <<>> ELSE coding = "decode" /\ code = source.code
  /\ carry = 0 /\ count = 0 /\ place = 1 /\ decoded = <<>>

\* Mutant of Output: the line is ended before the character that fills it.
OutputEarly(out, ch) ==
  LET written == Len(SelectSeq(out, LAMBDA c : c # NewLine)) + 1 IN
  out \o (IF source.wrap > 0 /\ written % source.wrap = 0 THEN <<NewLine, ch>> ELSE <<ch>>)

\* output(): the line is ended when it is full, at the end of the text too.
Output(out, ch) ==
  LET written == Len(SelectSeq(out, LAMBDA c : c # NewLine)) + 1 IN
  out \o (IF source.wrap > 0 /\ written % source.wrap = 0 THEN <<ch, NewLine>> ELSE <<ch>>)
Outputs(chars) == FoldLeft(Output, code, chars)

EncodeByte ==
  /\ coding = "encode" /\ count < Len(source.bytes)
  /\ LET ch == source.bytes[count + 1] IN
     \/ /\ count % 3 = 0
        /\ code' = Outputs(<<ch \div 4>>) /\ carry' = (ch % 4) * 16
     \/ /\ count % 3 = 1
        /\ code' = Outputs(<<carry + ch \div 16>>) /\ carry' = (ch % 16) * 4
     \/ /\ count % 3 = 2
        /\ code' = Outputs(<<carry + ch \div 64, ch % 64>>) /\ carry' = carry
  /\ count' = count + 1
  /\ UNCHANGED <<coding, source, place, decoded>>

\* The last group, and the pads that make it one of four.
EncodeEnd ==
  /\ coding = "encode" /\ count = Len(source.bytes)
  /\ code' = IF count % 3 = 0 THEN code
             ELSE Outputs(<<carry>> \o [n \in 1 .. IF source.pad THEN 3 - (count % 3) ELSE 0 |-> PadChar])
  /\ coding' = "decode" /\ carry' = 0 /\ count' = 0
  /\ UNCHANGED <<source, place, decoded>>

More == place <= Len(code)

\* A turn of the loop of decode(); buf is not read before it is written.
DecodeChar ==
  /\ coding = "decode" /\ More
  /\ LET ch == code[place] IN
     \/ /\ ch = InvalidChar /\ coding' = "invalid" /\ UNCHANGED <<carry, count, decoded>>
     \/ /\ ch = NewLine /\ UNCHANGED <<coding, carry, count, decoded>>
     \/ /\ ch = PadChar /\ coding' = "pads" /\ count' = count + 1 /\ UNCHANGED <<carry, decoded>>
     \/ /\ ch < PadChar /\ coding' = coding /\ count' = count + 1
        /\ \/ count % 4 = 0 /\ carry' = ch * 4 /\ decoded' = decoded
           \/ count % 4 = 1 /\ carry' = (ch % 16) * 16 /\ decoded' = Append(decoded, carry + ch \div 16)
           \/ count % 4 = 2 /\ carry' = (ch % 4) * 64 /\ decoded' = Append(decoded, carry + ch \div 4)
           \/ count % 4 = 3 /\ carry' = 0 /\ decoded' = Append(decoded, carry + ch)
  /\ place' = place + 1
  /\ UNCHANGED <<source, code>>

\* Behind a pad: pads and what is skipped, nothing else.
DecodePad ==
  /\ coding = "pads" /\ More
  /\ count' = IF code[place] = PadChar THEN count + 1 ELSE count
  /\ coding' = IF code[place] \in {PadChar, NewLine} THEN coding ELSE "invalid"
  /\ place' = place + 1
  /\ UNCHANGED <<source, code, carry, decoded>>

DecodeEnd ==
  /\ coding \in {"decode", "pads"} /\ ~More
  /\ coding' = IF source.pad /\ count % 4 # 0 THEN "invalid" ELSE "done"
  /\ UNCHANGED <<source, code, carry, count, place, decoded>>

Base64Next == EncodeByte \/ EncodeEnd \/ DecodeChar \/ DecodePad \/ DecodeEnd

Base64Spec == Base64Init /\ [][Base64Next]_base64Vars

-----------------------------------------------------------------------------
(* Properties.                                                             *)

Ended == coding \in {"done", "invalid"}

\* What was encoded is decoded to the same bytes, with pads or without, and its
\* lines are full ones of wrap_width_ characters, each ended, and a rest.
LineLength == source.wrap + 1
MessageBack ==
  Ended /\ FromMessage =>
    /\ coding = "done" /\ decoded = source.bytes
    /\ source.pad => Len(SelectSeq(code, LAMBDA c : c # NewLine)) % 4 = 0
    /\ \A n \in DOMAIN code :
         code[n] = NewLine <=> source.wrap > 0 /\ n % LineLength = 0

\* A text is a string of six bits for each character of the alphabet; its bytes
\* are the whole groups of eight.  The text is refused when something else than
\* pads and white space stands behind a pad, when a character is no character
\* of it, and, where there are pads, when characters and pads make no fours.
Alphabet(c) == SelectSeq(c, LAMBDA x : x < PadChar)
Bit(digits, n) == (digits[n \div 6 + 1] \div 2 ^ (5 - (n % 6))) % 2
BytesOf(digits) ==
  [k \in 1 .. (6 * Len(digits)) \div 8 |->
     LET b(n) == Bit(digits, 8 * (k - 1) + n) * 2 ^ (7 - n)
     IN b(0) + b(1) + b(2) + b(3) + b(4) + b(5) + b(6) + b(7)]
Legal(c, pad) ==
  /\ \A n \in DOMAIN c : c[n] # InvalidChar
  /\ \A m, n \in DOMAIN c : c[m] = PadChar /\ n > m => c[n] >= PadChar
  /\ pad => Len(SelectSeq(c, LAMBDA x : x # NewLine)) % 4 = 0
TextMeans ==
  Ended => /\ coding = "done" <=> Legal(code, source.pad)
           /\ coding = "done" => decoded = BytesOf(Alphabet(code))

\* What the encoding promises.
Base64Right == MessageBack /\ TextMeans
=============================================================================
