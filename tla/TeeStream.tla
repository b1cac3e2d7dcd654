----------------------------- MODULE TeeStream ------------------------------
(***************************************************************************)
(* yu/stream/teestream.hpp and repeatstream.hpp: a program reads a source, *)
(* which ends or is a repeatstream, through an iteestream that copies what *)
(* it reads to an oteestream over several sinks.                           *)
(*                                                                         *)
(* A sink is any streambuf: it takes what it has room for, may get more    *)
(* room later, and may fail to flush.  The streams of the standard library *)
(* are external: an ostream whose buffer failed is bad() and writes no     *)
(* more, an istream that met the end reads no more.                        *)
(***************************************************************************)
EXTENDS Integers, Sequences, FiniteSets, SequencesExt, FiniteSetsExt

CONSTANTS Sinks,
          Chars,      \* the characters of the sources
          Patterns,   \* of the repeatstreams, which throw for an empty one
          Endings,    \* what the other sources hold
          TeeBuf,     \* buffer_.size() (1024 in the code)
          MaxGets,    \* bound: characters the program reads
          MaxTold,    \* bound: characters given to the oteestream
          MaxRoom     \* bound: room a sink gets at a time

ASSUME TeeAssumption ==
  /\ IsFiniteSet(Sinks) /\ TeeBuf \in Nat \ {0}
  /\ Patterns \subseteq Seq(Chars) \ {<<>>} /\ Endings \subseteq Seq(Chars) /\ "own" \notin Chars
  /\ MaxGets \in Nat /\ MaxTold \in Nat /\ MaxRoom \in Nat

VARIABLES
  origin,    \* the source: [repeats, text]
  cycle,     \* buffer_ of the repeatstream
  offset,    \* the position of the source
  teeBuf,    \* what underflow() read and the program has not got
  teeGot,    \* what the program got
  room,      \* what each sink takes before it fails
  sinks,     \* what each sink took
  told,      \* what the oteestream was given while it was good()
  copied,    \* how much of it was copied by the iteestream
  outBad,    \* badbit of the oteestream
  inEnd      \* the source met its end

teeVars == <<origin, cycle, offset, teeBuf, teeGot, room, sinks, told, copied, outBad, inEnd>>

\* The buffer of a repeatstream holds whole patterns.
CycleOf(pattern) ==
  [n \in 1 .. IF Len(pattern) > TeeBuf THEN Len(pattern) ELSE (TeeBuf \div Len(pattern)) * Len(pattern)
     |-> pattern[((n - 1) % Len(pattern)) + 1]]

TeeInit ==
  /\ origin \in [repeats : {TRUE}, text : Patterns] \cup [repeats : {FALSE}, text : Endings]
  /\ cycle = IF origin.repeats THEN CycleOf(origin.text) ELSE <<>>
  /\ offset = 0 /\ teeBuf = <<>> /\ teeGot = <<>>
  /\ room \in [Sinks -> 0 .. MaxRoom] /\ sinks = [k \in Sinks |-> <<>>]
  /\ told = <<>> /\ copied = 0 /\ outBad = FALSE /\ inEnd = FALSE

\* Mutant of Tell: a sink that took less than it was given is not reported.
TellUnchecked(chars) ==
  LET took(k) == Min({room[k], Len(chars)}) IN
  IF outBad THEN UNCHANGED <<room, sinks, told, outBad>>
  ELSE /\ sinks' = [k \in Sinks |-> sinks[k] \o SubSeq(chars, 1, took(k))]
       /\ room' = [k \in Sinks |-> room[k] - took(k)]
       /\ told' = told \o chars /\ outBad' = FALSE

\* xsputn() and overflow() of the oteestreambuf: every sink is given all of it,
\* also behind one that took less.
Tell(chars) ==
  LET took(k) == Min({room[k], Len(chars)}) IN
  IF outBad THEN UNCHANGED <<room, sinks, told, outBad>>
  ELSE /\ sinks' = [k \in Sinks |-> sinks[k] \o SubSeq(chars, 1, took(k))]
       /\ room' = [k \in Sinks |-> room[k] - took(k)]
       /\ told' = told \o chars
       /\ outBad' = (\E k \in Sinks : took(k) < Len(chars))

\* The n-th character of the source, from 0; the repeatstream starts its buffer
\* over at its end.
SourceAt(n) == IF origin.repeats THEN cycle[(n % Len(cycle)) + 1] ELSE origin.text[n + 1]

\* underflow() of the iteestreambuf.
TeeUnderflow ==
  LET size == IF inEnd THEN 0
              ELSE IF origin.repeats THEN TeeBuf ELSE Min({TeeBuf, Len(origin.text) - offset})
      chars == [n \in 1 .. size |-> SourceAt(offset + n - 1)]
  IN
  /\ teeBuf = <<>> /\ Len(teeGot) < MaxGets
  /\ inEnd' = (size < TeeBuf)
  /\ offset' = offset + size /\ teeBuf' = chars
  /\ IF size = 0 THEN UNCHANGED <<room, sinks, told, outBad>> ELSE Tell(chars)
  /\ copied' = copied + (Len(told') - Len(told))
  /\ UNCHANGED <<origin, cycle, teeGot>>

\* get() of the program.
TeeGet ==
  /\ teeBuf # <<>> /\ Len(teeGot) < MaxGets
  /\ teeGot' = Append(teeGot, Head(teeBuf)) /\ teeBuf' = Tail(teeBuf)
  /\ UNCHANGED <<origin, cycle, offset, room, sinks, told, copied, outBad, inEnd>>

\* The program writes to the oteestream itself: put(), and flush().
TeePut(ch) ==
  /\ Len(told) < MaxTold
  /\ Tell(<<ch>>)
  /\ UNCHANGED <<origin, cycle, offset, teeBuf, teeGot, copied, inEnd>>

TeeSync(failing) ==
  /\ outBad' = (outBad \/ failing # {})
  /\ UNCHANGED <<origin, cycle, offset, teeBuf, teeGot, room, sinks, told, copied, inEnd>>

\* A sink has room again.
MakeRoom(k) ==
  /\ room[k] < MaxRoom /\ room' = [room EXCEPT ![k] = @ + 1]
  /\ UNCHANGED <<origin, cycle, offset, teeBuf, teeGot, sinks, told, copied, outBad, inEnd>>

TeeNext ==
  \/ TeeUnderflow \/ TeeGet \/ TeePut("own")
  \/ \E failing \in SUBSET Sinks : TeeSync(failing)
  \/ \E k \in Sinks : MakeRoom(k)

TeeSpec == TeeInit /\ [][TeeNext]_teeVars

-----------------------------------------------------------------------------
(* Properties.                                                             *)

\* What the source is, character by character.
Original(n) == IF origin.repeats THEN origin.text[((n - 1) % Len(origin.text)) + 1] ELSE origin.text[n]

\* Where the first n characters the oteestream was given are of the source.
Copies(n) == {m \in 1 .. n : told[m] # "own"}

\* The program reads the source, across the ends of all buffers, and nothing it
\* reads is missing in the copy as long as the copy is good().  No sink ever has
\* a gap: it holds the first characters of what it should, all of them unless
\* the stream is bad(), even if it has room again after another one was full.
TeeRight ==
  /\ \A n \in DOMAIN teeGot : teeGot[n] = Original(n)
  /\ \A n \in Copies(Len(told)) : told[n] = Original(Cardinality(Copies(n)))
  /\ Cardinality(Copies(Len(told))) = copied
  /\ ~outBad => copied >= Len(teeGot) + Len(teeBuf)
  /\ \A k \in Sinks : IsPrefix(sinks[k], told) /\ (~outBad => sinks[k] = told)
=============================================================================
