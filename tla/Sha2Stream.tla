----------------------------- MODULE Sha2Stream -----------------------------
(***************************************************************************)
(* The digest streams of yu/digest/sha2.hpp: sha2_base_streambuf cuts what *)
(* is written into chunks and, for the digest, ends the message with the   *)
(* padding of the standard.  The turns of the loop in finish() are steps.  *)
(*                                                                         *)
(* The compression function is kept abstract: hs is every byte process()   *)
(* was given since the last reset, so two digests are equal here only when *)
(* the same chunks were compressed in the same order.  The n-th byte of a  *)
(* message is <<"byte", n>>.                                               *)
(***************************************************************************)
EXTENDS Integers, Sequences

CONSTANTS ChunkSize,    \* kChunkSize (64 or 128 in the code)
          LengthSize,   \* sizeof(message_length_type) (8 or 16)
          WordBase,     \* 2^64: the values of one word of message_size_
          MaxBytes,     \* bound: bytes of a message
          MaxLate       \* bound: bytes put behind a digest

ASSUME Sha2Assumption ==
  /\ LengthSize \in Nat \ {0} /\ ChunkSize \in Nat /\ ChunkSize > LengthSize
  /\ WordBase \in Nat /\ WordBase > 8 * ChunkSize
  /\ MaxBytes \in Nat /\ MaxLate \in Nat

VARIABLES
  at,         \* "open", or "zeros" in finish()
  chunk,      \* the bytes in [pbase(), pptr())
  hs,         \* the bytes compressed since the last reset
  size,       \* message_size_, as the words <<hi, lo>> of a u128
  total,      \* message_size, the local of finish()
  turns,      \* turns of the loop of finish() still to go
  finished,   \* finished_
  bad,        \* badbit of the ostream
  message,    \* how many bytes the stream took between a reset and a digest
  late        \* how many bytes it took behind a digest

shaVars == <<at, chunk, hs, size, total, turns, finished, bad, message, late>>

Byte(n) == <<"byte", n>>
Mark == <<"pad", 128>>
ZeroByte == <<"pad", 0>>
LengthByte(words, j) == <<"length", words[1], words[2], j>>

\* operator+= of u128: the low word carries into the high one.
PlusBits(words, n) ==
  <<IF WordBase - 1 - words[2] < n THEN words[1] + 1 ELSE words[1],
    (words[2] + n) % WordBase>>

ShaInit ==
  /\ at = "open" /\ chunk = <<>> /\ hs = <<>> /\ size = <<0, 0>>
  /\ total = <<0, 0>> /\ turns = 0 /\ finished = FALSE /\ bad = FALSE
  /\ message = 0 /\ late = 0

\* Mutant of ProcessChunk: a chunk counts with its bytes.
ProcessChunkBytes(bytes) ==
  /\ hs' = hs \o bytes
  /\ size' = PlusBits(size, ChunkSize)

\* process() on a full buffer.
ProcessChunk(bytes) ==
  /\ hs' = hs \o bytes
  /\ size' = PlusBits(size, 8 * ChunkSize)

\* overflow(ch) of a stream that is not finished.
Overflow(b) ==
  IF Len(chunk) < ChunkSize
  THEN chunk' = Append(chunk, b) /\ UNCHANGED <<hs, size>>
  ELSE ProcessChunk(chunk) /\ chunk' = <<b>>

\* A byte of the message.
ShaPut ==
  /\ at = "open" /\ ~bad /\ ~finished /\ message < MaxBytes
  /\ Overflow(Byte(message + 1))
  /\ message' = message + 1
  /\ UNCHANGED <<at, total, turns, finished, bad, late>>

\* A byte behind the digest: it goes into the buffer, where nothing reads it,
\* and once the buffer is full overflow() fails.
ShaPutLate ==
  /\ at = "open" /\ ~bad /\ finished /\ late < MaxLate
  /\ late' = late + 1
  /\ IF Len(chunk) < ChunkSize
     THEN chunk' = Append(chunk, Byte(message + late + 1)) /\ bad' = FALSE
     ELSE chunk' = chunk /\ bad' = TRUE
  /\ UNCHANGED <<at, hs, size, total, turns, finished, message>>

\* hash_bin() or another of them calls finish(): the mark, and whether the
\* length still fits behind it.
Finish ==
  LET free == ChunkSize - Len(chunk) IN
  /\ at = "open" /\ ~finished
  /\ total' = PlusBits(size, 8 * Len(chunk))
  /\ Overflow(Mark)
  /\ turns' = IF free < 1 + LengthSize THEN free ELSE 0
  /\ at' = "zeros"
  /\ UNCHANGED <<finished, bad, message, late>>

\* A turn of the loop that gets the current chunk processed.
FinishZero ==
  /\ at = "zeros" /\ turns > 0
  /\ Overflow(ZeroByte)
  /\ turns' = turns - 1
  /\ UNCHANGED <<at, total, finished, bad, message, late>>

\* memset() behind what is there, the length at the end, and the last process().
FinishLength ==
  /\ at = "zeros" /\ turns = 0
  /\ ProcessChunk([j \in 1 .. ChunkSize |->
                     CASE j > ChunkSize - LengthSize -> LengthByte(total, j - (ChunkSize - LengthSize))
                       [] j <= Len(chunk) /\ j <= ChunkSize - LengthSize -> chunk[j]
                       [] OTHER -> ZeroByte])
  /\ at' = "open" /\ finished' = TRUE
  /\ UNCHANGED <<chunk, total, turns, bad, message, late>>

\* reset() makes the buffer new; the badbit of the ostream stays.
ShaReset ==
  /\ at = "open" /\ at' = at
  /\ hs' = <<>> /\ chunk' = <<>> /\ size' = <<0, 0>> /\ finished' = FALSE
  /\ message' = 0 /\ late' = 0
  /\ UNCHANGED <<total, turns, bad>>

ShaNext == ShaPut \/ ShaPutLate \/ Finish \/ FinishZero \/ FinishLength \/ ShaReset

ShaSpec == ShaInit /\ [][ShaNext]_shaVars

-----------------------------------------------------------------------------
(* Properties.                                                             *)

ShaTypeOK ==
  /\ at \in {"open", "zeros"} /\ turns \in 0 .. ChunkSize
  /\ Len(chunk) <= ChunkSize /\ Len(hs) % ChunkSize = 0
  /\ size \in Nat \X (0 .. WordBase - 1) /\ total \in Nat \X (0 .. WordBase - 1)
  /\ finished \in BOOLEAN /\ bad \in BOOLEAN
  /\ message \in 0 .. MaxBytes /\ late \in 0 .. MaxLate

\* FIPS 180-4, 5.1: the message of n bytes, the mark, zeros, and the length in
\* bits at the end of the first chunk that has room for it.
PaddedSize(n) == ChunkSize * ((n + LengthSize) \div ChunkSize + 1)
Padded(n) ==
  LET front == PaddedSize(n) - LengthSize IN
  [i \in 1 .. PaddedSize(n) |->
     CASE i <= n -> Byte(i)
       [] i = n + 1 -> Mark
       [] i > n + 1 /\ i <= front -> ZeroByte
       [] i > front -> LengthByte(<<(8 * n) \div WordBase, (8 * n) % WordBase>>, i - front)]

\* The digest is that of the bytes the stream took between the last reset() and
\* the first digest, padded as the standard says: wherever the message ends in
\* its chunk, however often the digest is asked for, whatever was written
\* behind it, and across the carry of the length.
DigestOfMessage == finished => hs = Padded(message)
=============================================================================
