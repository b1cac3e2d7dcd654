--------------------------- MODULE StreamsProofs ----------------------------
(***************************************************************************)
(* Proofs about FdStream, for every size of the buffers, any number of     *)
(* bytes and of errors, and about TeeStream, for any sources, sinks and    *)
(* size of the buffer.                                                     *)
(*                                                                         *)
(* The invariant of FdStream says where the stream is in the sequence of   *)
(* its bytes.  Done is the byte up to which the current pass over the      *)
(* buffer has come: those behind it are repeated after an error, and so    *)
(* can have been sent once less often than those before it.                *)
(*                                                                         *)
(* The invariant of TeeStream adds what the buffers hold: all that was     *)
(* read of the source is with the program or in the buffer, and as many    *)
(* characters were copied as were read, until a sink fails.                *)
(***************************************************************************)
EXTENDS FdStream, TeeStream, FiniteSetTheorems, SequenceTheorems, TLAPS

\* The bytes before the buffer, and those write_all() is done with.
Base == accepted - Len(pbuf)
Done == Base + total_sent

\* The buffer holds the last bytes the program wrote.
Queued ==
  /\ Len(pbuf) <= accepted
  /\ \A i \in DOMAIN pbuf : pbuf[i] = Base + i
  /\ pc # "write_all" => total_sent = 0
  /\ pc = "write_all" /\ caller = "overflow" => accepted < NOut

\* The wire ends in the buffer or right in front of it, and where write_all() is
\* once it has sent something.  Without an error it holds every byte once.
AtWire ==
  /\ Base <= LastWritten /\ LastWritten <= accepted
  /\ \A i \in DOMAIN wire : wire[i] <= accepted
  /\ total_sent > 0 \/ (errs = 0 /\ peer # "reset") => LastWritten = Done
  /\ errs = 0 => Numbered(wire)
  /\ pc = "destroyed" /\ errs = 0 /\ peer # "reset" => pbuf = <<>>

\* How often the byte b was sent.
Sendings(b) == {i \in DOMAIN wire : wire[i] = b}
Repeats ==
  \A b \in 1 .. NOut :
    /\ IsFiniteSet(Sendings(b)) /\ Cardinality(Sendings(b)) <= errs + 1
    /\ b > Done /\ peer # "reset" => Cardinality(Sendings(b)) <= errs

\* A highest byte was sent, if any was.
Top(h) == (h = 0 \/ \E i \in DOMAIN wire : wire[i] = h) /\ \A i \in DOMAIN wire : wire[i] <= h
HasTop == \E h \in 0 .. accepted : Top(h)

\* What the program has read, the buffer and the kernel hold the peer's bytes.
Reading ==
  /\ Len(received) + Len(gbuf) + Len(inbox) = peerSent
  /\ \A i \in DOMAIN received : received[i] = i
  /\ \A i \in DOMAIN gbuf : gbuf[i] = Len(received) + i
  /\ \A i \in DOMAIN inbox : inbox[i] = Len(received) + Len(gbuf) + i
  /\ pc = "underflow" => gbuf = <<>> /\ iostate = {}
  /\ "eofbit" \in iostate /\ errs = 0 /\ peer # "reset"
       => gbuf = <<>> /\ inbox = <<>> /\ peer = "shutdown"

IInv == TypeOK /\ Queued /\ AtWire /\ NoGap /\ Repeats /\ HasTop /\ Reading


-----------------------------------------------------------------------------
(* What the steps do to the sequences, element by element.                 *)

\* One ::write: the n bytes of the buffer behind Done.
LEMMA WriteBytes ==
  ASSUME TypeOK, Queued, NEW n \in 1 .. WriteBuf, Write(n)
  PROVE  /\ wire' \in Seq(1 .. NOut) /\ Len(wire') = Len(wire) + n
         /\ \A i \in 1 .. Len(wire) : wire'[i] = wire[i]
         /\ \A k \in 1 .. n : wire'[Len(wire) + k] = Done + k
         /\ Done' = Done + n /\ Base' = Base /\ Done + n <= accepted
<1> DEFINE s == SubSeq(pbuf, total_sent + 1, total_sent + n)
<1>1. /\ n \in Nat \ {0} /\ total_sent \in Nat /\ accepted \in Nat /\ Len(pbuf) \in Nat
      /\ pbuf \in Seq(1 .. NOut) /\ wire \in Seq(1 .. NOut)
      /\ Len(wire) \in Nat /\ DOMAIN pbuf = 1 .. Len(pbuf)
  BY FdStreamAssumption, LenProperties DEF TypeOK
<1>2. /\ total_sent + n <= Len(pbuf) /\ wire' = wire \o s /\ total_sent' = total_sent + n
      /\ pbuf' = pbuf /\ accepted' = accepted
  BY DEF Write, history
<1>3. /\ s \in Seq(1 .. NOut) /\ Len(s) = n
      /\ \A k \in 1 .. n : s[k] = pbuf[total_sent + k]
  <2>1. \A i \in total_sent + 1 .. total_sent + n : pbuf[i] \in 1 .. NOut
    <3> SUFFICES ASSUME NEW i \in total_sent + 1 .. total_sent + n PROVE pbuf[i] \in 1 .. NOut
      OBVIOUS
    <3>1. i \in 1 .. Len(pbuf)
      BY <1>1, <1>2
    <3> QED
      BY <1>1, <3>1, ElementOfSeq
  <2>2. /\ s \in Seq(1 .. NOut) /\ Len(s) = (total_sent + n) - (total_sent + 1) + 1
        /\ \A i \in 1 .. (total_sent + n) - (total_sent + 1) + 1 :
             s[i] = pbuf[(total_sent + 1) + i - 1]
    BY <1>1, <2>1, SubSeqProperties
  <2> QED
    BY <1>1, <2>2
<1>4. \A k \in 1 .. n : s[k] = Done + k
  <2> SUFFICES ASSUME NEW k \in 1 .. n PROVE s[k] = Done + k
    OBVIOUS
  <2>1. pbuf[total_sent + k] = Base + (total_sent + k)
    <3>1. total_sent + k \in DOMAIN pbuf
      BY <1>1, <1>2
    <3> QED
      BY <3>1 DEF Queued
  <2>2. s[k] = pbuf[total_sent + k]
    BY <1>1, <1>3
  <2>3. Base \in Int /\ total_sent \in Int /\ Done = Base + total_sent
    BY <1>1 DEF Base, Done
  <2> QED
    BY <2>1, <2>2, <2>3
<1> HIDE DEF s
<1>5. /\ wire' \in Seq(1 .. NOut) /\ Len(wire') = Len(wire) + n
      /\ \A i \in 1 .. Len(wire) : wire'[i] = wire[i]
      /\ \A k \in 1 .. n : wire'[Len(wire) + k] = s[k]
  <2>1. s \in Seq(1 .. NOut) /\ Len(s) = n
    BY <1>3
  <2>2. /\ wire' \in Seq(1 .. NOut) /\ Len(wire') = Len(wire) + Len(s)
        /\ \A i \in 1 .. Len(wire) + Len(s) :
             wire'[i] = IF i <= Len(wire) THEN wire[i] ELSE s[i - Len(wire)]
    <3>1. wire \in Seq(1 .. NOut) /\ s \in Seq(1 .. NOut)
      BY <1>1, <2>1
    <3>2. /\ wire \o s \in Seq(1 .. NOut) /\ Len(wire \o s) = Len(wire) + Len(s)
          /\ \A i \in 1 .. Len(wire) + Len(s) :
               (wire \o s)[i] = IF i <= Len(wire) THEN wire[i] ELSE s[i - Len(wire)]
      <4> HIDE <1>1, <1>2, <1>3, <1>4
      <4> QED
        BY <3>1, ConcatProperties
    <3>3. wire' = wire \o s
      BY <1>2
    <3> QED
      BY <3>2, <3>3
  <2>3. \A i \in 1 .. Len(wire) : i \in 1 .. Len(wire) + Len(s) /\ i <= Len(wire)
    BY <1>1, <2>1
  <2>4. \A k \in 1 .. n : /\ Len(wire) + k \in 1 .. Len(wire) + Len(s)
                          /\ ~(Len(wire) + k <= Len(wire)) /\ (Len(wire) + k) - Len(wire) = k
    BY <1>1, <2>1
  <2> QED
    BY <2>1, <2>2, <2>3, <2>4
<1>6. Done' = Done + n /\ Base' = Base /\ Done + n <= accepted
  BY <1>1, <1>2 DEF Base, Done
<1> QED
  BY <1>4, <1>5, <1>6

\* put() into the buffer.
LEMMA PutBytes ==
  ASSUME TypeOK, pbuf' = Append(pbuf, accepted + 1), accepted < NOut
  PROVE  /\ pbuf' \in Seq(1 .. NOut) /\ Len(pbuf') = Len(pbuf) + 1
         /\ \A i \in 1 .. Len(pbuf) : pbuf'[i] = pbuf[i]
         /\ pbuf'[Len(pbuf) + 1] = accepted + 1
<1>1. pbuf \in Seq(1 .. NOut) /\ accepted + 1 \in 1 .. NOut
  BY FdStreamAssumption DEF TypeOK
<1> QED
  BY <1>1, AppendProperties

\* What write_all() leaves in the buffer.
LEMMA LeftBytes ==
  ASSUME TypeOK, Queued, WriteAllDone
  PROVE  /\ pbuf' \in Seq(1 .. NOut) /\ accepted' \in Nat
         /\ \/ caller = "overflow" /\ Len(pbuf') = 1 /\ pbuf'[1] = accepted + 1
               /\ accepted' = accepted + 1 /\ accepted < NOut
            \/ caller # "overflow" /\ pbuf' = <<>> /\ Len(pbuf') = 0 /\ accepted' = accepted
<1>1. accepted \in Nat /\ (caller = "overflow" => accepted < NOut)
  BY FdStreamAssumption DEF TypeOK, Queued, WriteAllDone
<1>2. CASE caller = "overflow"
  <2>1. pbuf' = <<accepted + 1>> /\ accepted' = accepted + 1
    BY <1>2 DEF WriteAllDone
  <2>2. accepted + 1 \in 1 .. NOut
    BY <1>1, <1>2, FdStreamAssumption
  <2> QED
    BY <1>1, <1>2, <2>1, <2>2
<1>3. CASE caller # "overflow"
  BY <1>1, <1>3, EmptySeq DEF WriteAllDone
<1> QED
  BY <1>2, <1>3

\* A pass over the buffer is complete: the next one starts behind it.
LEMMA DonePass ==
  ASSUME TypeOK, Queued, WriteAllDone
  PROVE  /\ Done = accepted /\ Base' = accepted /\ Done' = accepted
         /\ accepted' \in Nat /\ accepted' >= accepted
<1>1. /\ total_sent' = 0 /\ total_sent = Len(pbuf) /\ accepted \in Nat
      /\ Len(pbuf) \in Nat
  BY LenProperties, FdStreamAssumption DEF WriteAllDone, Return, TypeOK
<1>2. \/ Len(pbuf') = 1 /\ accepted' = accepted + 1
      \/ Len(pbuf') = 0 /\ accepted' = accepted
  BY LeftBytes
<1>3. Done = accepted
  BY <1>1 DEF Done, Base
<1>4. Base' = accepted
  <2>1. Base' = accepted' - Len(pbuf')
    BY DEF Base
  <2>2. CASE Len(pbuf') = 1 /\ accepted' = accepted + 1
    BY <1>1, <2>1, <2>2
  <2>3. CASE Len(pbuf') = 0 /\ accepted' = accepted
    BY <1>1, <2>1, <2>3
  <2> QED
    BY <1>2, <2>2, <2>3
<1>5. Done' = accepted
  BY <1>1, <1>4 DEF Done
<1> QED
  BY <1>1, <1>2, <1>3, <1>4, <1>5

\* get() takes the first byte of the buffer.
LEMMA GetBytes ==
  ASSUME TypeOK, gbuf # <<>>, received' = Append(received, Head(gbuf)), gbuf' = Tail(gbuf)
  PROVE  /\ gbuf' \in Seq(1 .. NIn) /\ received' \in Seq(1 .. NIn)
         /\ Len(gbuf) > 0 /\ Len(gbuf') = Len(gbuf) - 1 /\ Len(received') = Len(received) + 1
         /\ \A i \in 1 .. Len(gbuf') : gbuf'[i] = gbuf[i + 1]
         /\ \A i \in 1 .. Len(received) : received'[i] = received[i]
         /\ received'[Len(received) + 1] = gbuf[1]
<1>1. gbuf \in Seq(1 .. NIn) /\ received \in Seq(1 .. NIn)
  BY DEF TypeOK
<1>2. Head(gbuf) \in 1 .. NIn /\ Head(gbuf) = gbuf[1] /\ Len(gbuf) > 0
  <2>1. Len(gbuf) \in Nat \ {0}
    BY <1>1, EmptySeq
  <2>2. Head(gbuf) = gbuf[1]
    BY <1>1, <2>1
  <2>3. Head(gbuf) \in 1 .. NIn
    BY <1>1, HeadTailProperties
  <2> QED
    BY <2>1, <2>2, <2>3
<1>3. Tail(gbuf) \in Seq(1 .. NIn) /\ Len(Tail(gbuf)) = Len(gbuf) - 1
      /\ \A i \in 1 .. Len(Tail(gbuf)) : Tail(gbuf)[i] = gbuf[i + 1]
  BY <1>1, HeadTailProperties
<1> QED
  BY <1>1, <1>2, <1>3, AppendProperties

\* ::read moves bytes from the kernel to the buffer, and get() takes the first.
LEMMA ReadBytes ==
  ASSUME TypeOK, NEW n \in 1 .. ReadBuf, Read(n)
  PROVE  /\ gbuf' \in Seq(1 .. NIn) /\ received' \in Seq(1 .. NIn) /\ inbox' \in Seq(1 .. NIn)
         /\ n <= Len(inbox) /\ Len(received') = Len(received) + 1
         /\ Len(gbuf') = n - 1 /\ Len(inbox') = Len(inbox) - n
         /\ \A i \in 1 .. Len(received) : received'[i] = received[i]
         /\ received'[Len(received) + 1] = inbox[1]
         /\ \A i \in 1 .. n - 1 : gbuf'[i] = inbox[i + 1]
         /\ \A i \in 1 .. Len(inbox) - n : inbox'[i] = inbox[n + i]
<1>1. /\ inbox \in Seq(1 .. NIn) /\ received \in Seq(1 .. NIn) /\ n \in Nat \ {0}
      /\ n <= Len(inbox) /\ Len(inbox) \in Nat /\ DOMAIN inbox = 1 .. Len(inbox)
      /\ \A i \in 1 .. Len(inbox) : inbox[i] \in 1 .. NIn
  <2>1. inbox \in Seq(1 .. NIn) /\ received \in Seq(1 .. NIn) /\ n \in Nat \ {0} /\ n <= Len(inbox)
    BY FdStreamAssumption DEF TypeOK, Read
  <2> QED
    BY <2>1, LenProperties, ElementOfSeq
<1>2. /\ received' = Append(received, inbox[1]) /\ gbuf' = SubSeq(inbox, 2, n)
      /\ inbox' = SubSeq(inbox, n + 1, Len(inbox))
  BY <1>1 DEF Read
<1>3. /\ gbuf' \in Seq(1 .. NIn) /\ Len(gbuf') = IF 2 <= n THEN n - 2 + 1 ELSE 0
      /\ \A i \in 1 .. n - 2 + 1 : gbuf'[i] = inbox[2 + i - 1]
  BY <1>1, <1>2, SubSeqProperties
<1>4. /\ inbox' \in Seq(1 .. NIn)
      /\ Len(inbox') = IF n + 1 <= Len(inbox) THEN Len(inbox) - (n + 1) + 1 ELSE 0
      /\ \A i \in 1 .. Len(inbox) - (n + 1) + 1 : inbox'[i] = inbox[(n + 1) + i - 1]
  BY <1>1, <1>2, SubSeqProperties
<1>5. /\ received' \in Seq(1 .. NIn) /\ Len(received') = Len(received) + 1
      /\ \A i \in 1 .. Len(received) : received'[i] = received[i]
      /\ received'[Len(received) + 1] = inbox[1]
  BY <1>1, <1>2, AppendProperties
<1>6. Len(gbuf') = n - 1 /\ \A i \in 1 .. n - 1 : gbuf'[i] = inbox[i + 1]
  BY <1>1, <1>3
<1>7. /\ Len(inbox') = Len(inbox) - n
      /\ \A i \in 1 .. Len(inbox) - n : inbox'[i] = inbox[n + i]
  <2>1. Len(inbox') = Len(inbox) - n
    <3>1. n \in Nat /\ Len(inbox) \in Nat /\ n <= Len(inbox)
      BY <1>1
    <3>2. Len(inbox') = IF n + 1 <= Len(inbox) THEN Len(inbox) - (n + 1) + 1 ELSE 0
      BY <1>4
    <3> QED
      BY <3>1, <3>2
  <2>2. ASSUME NEW i \in 1 .. Len(inbox) - n PROVE inbox'[i] = inbox[n + i]
    <3>1. i \in 1 .. Len(inbox) - (n + 1) + 1 /\ (n + 1) + i - 1 = n + i
      BY <1>1
    <3> QED
      BY <1>4, <3>1
  <2> QED
    BY <2>1, <2>2
<1> QED
  BY <1>1, <1>3, <1>4, <1>5, <1>6, <1>7

\* The peer sends its next byte.
LEMMA PeerBytes ==
  ASSUME TypeOK, PeerSend
  PROVE  /\ inbox' \in Seq(1 .. NIn) /\ Len(inbox') = Len(inbox) + 1
         /\ \A i \in 1 .. Len(inbox) : inbox'[i] = inbox[i]
         /\ inbox'[Len(inbox) + 1] = peerSent + 1
<1>1. inbox \in Seq(1 .. NIn) /\ peerSent + 1 \in 1 .. NIn
      /\ inbox' = Append(inbox, peerSent + 1)
  BY FdStreamAssumption DEF TypeOK, PeerSend
<1> QED
  BY <1>1, AppendProperties

-----------------------------------------------------------------------------
(* The parts of the invariant, step by step.                               *)

LEMMA TypeStep == TypeOK /\ Queued /\ [Next]_vars => TypeOK'
<1> SUFFICES ASSUME TypeOK, Queued, [Next]_vars PROVE TypeOK'
  OBVIOUS
<1> USE FdStreamAssumption
<1>1. CASE Put
  <2>1. CASE Len(pbuf) < WriteBuf /\ pbuf' = Append(pbuf, accepted + 1)
    <3>1. pbuf' \in Seq(1 .. NOut) /\ Len(pbuf') = Len(pbuf) + 1
      BY <1>1, <2>1, PutBytes DEF Put
    <3>2. UNCHANGED <<pc, caller, total_sent, gbuf, iostate, wire, inbox, peer, peerSent, errs, received>>
          /\ accepted' = accepted + 1 /\ accepted < NOut
      BY <1>1, <2>1 DEF Put, CallWriteAll, network, history
    <3>3. total_sent \in 0 .. Len(pbuf')
      BY <3>1 DEF TypeOK
    <3>4. accepted' \in 0 .. NOut /\ Len(pbuf') <= WriteBuf
      BY <2>1, <3>1, <3>2 DEF TypeOK
    <3> QED
      BY <3>1, <3>2, <3>3, <3>4 DEF TypeOK
  <2>2. CASE CallWriteAll("overflow")
    BY <2>2 DEF CallWriteAll, TypeOK, network, history
  <2> QED
    BY <1>1, <2>1, <2>2 DEF Put
<1>2. CASE Sync \/ Destroy
  <2>1. CASE Sync
    BY <2>1 DEF Sync, CallWriteAll, TypeOK, network, history
  <2>2. CASE Destroy
    BY <2>2 DEF Destroy, CallWriteAll, TypeOK, network, history
  <2> QED
    BY <1>2, <2>1, <2>2
<1>3. CASE WriteFail
  <2>1. errs' \in 0 .. MaxErr
    BY <1>3, FdStreamAssumption DEF WriteFail, TypeOK
  <2>2. pc' \in {"idle", "destroyed"} /\ iostate' \in SUBSET Flags /\ total_sent' = 0
    BY <1>3 DEF WriteFail, Return, TypeOK, Flags
  <2>3. UNCHANGED <<caller, pbuf, gbuf, wire, inbox, peer, peerSent, accepted, received>>
    BY <1>3 DEF WriteFail, history
  <2>4. 0 \in 0 .. Len(pbuf)
    BY LenProperties DEF TypeOK
  <2> QED
    BY <2>1, <2>2, <2>3, <2>4 DEF TypeOK
<1>4. CASE WriteAllDone
  <2>1. pbuf' \in Seq(1 .. NOut) /\ Len(pbuf') \in 0 .. 1 /\ accepted' \in 0 .. NOut
    BY <1>4, LeftBytes DEF TypeOK
  <2>2. /\ UNCHANGED <<caller, gbuf, iostate, wire, inbox, peer, peerSent, errs, received>>
        /\ total_sent' = 0 /\ pc' \in {"idle", "destroyed"}
    BY <1>4 DEF WriteAllDone, Return, network
  <2>3. total_sent' \in 0 .. Len(pbuf') /\ Len(pbuf') <= WriteBuf
    <3>1. Len(pbuf') = 0 \/ Len(pbuf') = 1
      BY <1>4, LeftBytes
    <3>2. WriteBuf \in Nat /\ WriteBuf >= 1
      OBVIOUS
    <3>3. total_sent' = 0
      BY <2>2
    <3> QED
      BY <3>1, <3>2, <3>3
  <2> QED
    BY <2>1, <2>2, <2>3 DEF TypeOK
<1>5. ASSUME NEW n \in 1 .. WriteBuf, Write(n) PROVE TypeOK'
  <2>1. wire' \in Seq(1 .. NOut)
    BY <1>5, WriteBytes
  <2>2. /\ total_sent' = total_sent + n /\ total_sent + n <= Len(pbuf)
        /\ UNCHANGED <<pc, caller, pbuf, gbuf, iostate, inbox, peer, peerSent, errs, accepted, received>>
    <3> USE <1>5 DEF Write
    <3>1. total_sent' = total_sent + n /\ total_sent + n <= Len(pbuf)
      OBVIOUS
    <3>2. UNCHANGED <<pc, caller, pbuf, gbuf, iostate, inbox, peer, peerSent, errs, accepted, received>>
      BY DEF history
    <3> QED
      BY <3>1, <3>2
  <2>3. total_sent' \in 0 .. Len(pbuf)
    <3>1. total_sent \in 0 .. Len(pbuf) /\ Len(pbuf) \in Nat /\ n \in Nat
      BY <1>5, FdStreamAssumption, LenProperties DEF TypeOK
    <3> QED
      BY <2>2, <3>1
  <2> QED
    BY <2>1, <2>2, <2>3 DEF TypeOK
<1>6. CASE Get
  <2>1. CASE gbuf # <<>>
    <3>1. gbuf' \in Seq(1 .. NIn) /\ received' \in Seq(1 .. NIn) /\ Len(gbuf') <= ReadBuf
      <4>1. received' = Append(received, Head(gbuf)) /\ gbuf' = Tail(gbuf)
        BY <1>6, <2>1 DEF Get
      <4>2. /\ gbuf' \in Seq(1 .. NIn) /\ received' \in Seq(1 .. NIn)
            /\ Len(gbuf) > 0 /\ Len(gbuf') = Len(gbuf) - 1
        BY <2>1, <4>1, GetBytes
      <4>3. Len(gbuf) \in Nat /\ Len(gbuf) <= ReadBuf /\ ReadBuf \in Nat
        BY FdStreamAssumption, LenProperties DEF TypeOK
      <4> QED
        BY <4>2, <4>3
    <3> QED
      BY <1>6, <2>1, <3>1 DEF Get, TypeOK, network
  <2>2. CASE gbuf = <<>>
    BY <1>6, <2>2 DEF Get, TypeOK, network, history
  <2> QED
    BY <2>1, <2>2
<1>7. ASSUME NEW n \in 1 .. ReadBuf, Read(n) PROVE TypeOK'
  <2>1. /\ gbuf' \in Seq(1 .. NIn) /\ Len(gbuf') <= ReadBuf
        /\ received' \in Seq(1 .. NIn) /\ inbox' \in Seq(1 .. NIn)
    BY <1>7, ReadBytes
  <2> QED
    BY <1>7, <2>1 DEF Read, TypeOK
<1>8. CASE ReadEnd
  BY <1>8 DEF ReadEnd, TypeOK, history, Flags
<1>9. CASE Peer
  <2>1. CASE PeerSend
    <3>1. inbox' \in Seq(1 .. NIn)
      BY <2>1, PeerBytes
    <3> QED
      BY <2>1, <3>1 DEF PeerSend, TypeOK, stream, history
  <2>2. CASE PeerShutdown \/ PeerReset
    BY <2>2 DEF PeerShutdown, PeerReset, TypeOK, stream, history
  <2> QED
    BY <1>9, <2>1, <2>2 DEF Peer
<1>10. CASE UNCHANGED vars
  BY <1>10 DEF vars, TypeOK
<1> QED
  BY <1>1, <1>2, <1>3, <1>4, <1>5, <1>6, <1>7, <1>8, <1>9, <1>10 DEF Next, WriteAll, Underflow

\* Reading, and what the peer does, leaves the output side alone.
LEMMA OutputQuiet ==
  ASSUME TypeOK, Get \/ Underflow \/ Peer \/ UNCHANGED vars
  PROVE  /\ UNCHANGED <<pbuf, total_sent, accepted, wire, caller>>
         /\ pc' # pc => pc # "write_all" /\ pc' \in {"idle", "underflow"}
         /\ (peer' # "reset" => peer # "reset") /\ errs' >= errs /\ (errs' = 0 => errs = 0)
<1>1. errs \in Nat
  BY FdStreamAssumption DEF TypeOK
<1>2. CASE Get \/ Underflow
  BY <1>1, <1>2 DEF Get, Underflow, Read, ReadEnd, network, history
<1>3. CASE Peer \/ UNCHANGED vars
  BY <1>1, <1>3 DEF Peer, PeerSend, PeerShutdown, PeerReset, stream, history, vars
<1> QED
  BY <1>2, <1>3

LEMMA QueuedStep == TypeOK /\ Queued /\ [Next]_vars => Queued'
<1> SUFFICES ASSUME TypeOK, Queued, [Next]_vars PROVE Queued'
  OBVIOUS
<1>0. /\ accepted \in Nat /\ Len(pbuf) \in Nat /\ DOMAIN pbuf = 1 .. Len(pbuf)
      /\ Len(pbuf) <= accepted
      /\ \A i \in 1 .. Len(pbuf) : pbuf[i] = accepted - Len(pbuf) + i
  <2>1. accepted \in Nat /\ pbuf \in Seq(1 .. NOut)
    BY FdStreamAssumption DEF TypeOK
  <2>2. Len(pbuf) \in Nat /\ DOMAIN pbuf = 1 .. Len(pbuf)
    BY <2>1, LenProperties
  <2>3. Len(pbuf) <= accepted /\ \A i \in DOMAIN pbuf : pbuf[i] = accepted - Len(pbuf) + i
    BY DEF Queued, Base
  <2> QED
    BY <2>1, <2>2, <2>3
<1>1. CASE Put
  <2>1. CASE Len(pbuf) < WriteBuf /\ pbuf' = Append(pbuf, accepted + 1)
    <3>1. /\ pc' = pc /\ pc = "idle" /\ total_sent' = total_sent /\ accepted' = accepted + 1
          /\ accepted < NOut /\ total_sent = 0
      BY <1>1, <2>1 DEF Put, CallWriteAll, Queued
    <3>2. /\ pbuf' \in Seq(1 .. NOut) /\ Len(pbuf') = Len(pbuf) + 1
          /\ \A i \in 1 .. Len(pbuf) : pbuf'[i] = pbuf[i]
          /\ pbuf'[Len(pbuf) + 1] = accepted + 1
      BY <2>1, <3>1, PutBytes
    <3>3. DOMAIN pbuf' = 1 .. Len(pbuf) + 1
      BY <3>2, LenProperties
    <3>4. \A i \in DOMAIN pbuf' : pbuf'[i] = accepted' - Len(pbuf') + i
      BY <1>0, <3>1, <3>2, <3>3
    <3> QED
      BY <1>0, <3>1, <3>2, <3>4 DEF Queued, Base
  <2>2. CASE CallWriteAll("overflow")
    BY <1>1, <2>2 DEF Put, CallWriteAll, Queued, Base, history
  <2> QED
    BY <1>1, <2>1, <2>2 DEF Put
<1>2. CASE Sync \/ Destroy
  BY <1>2 DEF Sync, Destroy, CallWriteAll, Queued, Base, history
<1>3. CASE WriteFail
  BY <1>3 DEF WriteFail, Return, Queued, Base, history
<1>4. CASE WriteAllDone
  <2>1. total_sent' = 0 /\ pc' # "write_all"
    BY <1>4 DEF WriteAllDone, Return
  <2>2. pbuf' \in Seq(1 .. NOut)
    BY <1>4, LeftBytes
  <2>3. CASE caller = "overflow"
    <3>1. Len(pbuf') = 1 /\ pbuf'[1] = accepted + 1 /\ accepted' = accepted + 1
      BY <1>4, <2>3, LeftBytes
    <3>2. DOMAIN pbuf' = 1 .. 1
      BY <2>2, <3>1, LenProperties
    <3> QED
      BY <1>0, <2>1, <3>1, <3>2 DEF Queued, Base
  <2>4. CASE caller # "overflow"
    <3>1. Len(pbuf') = 0 /\ accepted' = accepted
      BY <1>4, <2>4, LeftBytes
    <3>2. DOMAIN pbuf' = 1 .. 0
      BY <2>2, <3>1, LenProperties
    <3> QED
      BY <1>0, <2>1, <3>1, <3>2 DEF Queued, Base
  <2> QED
    BY <2>3, <2>4
<1>5. ASSUME NEW n \in 1 .. WriteBuf, Write(n) PROVE Queued'
  BY <1>5 DEF Write, Queued, Base, history
<1>6. CASE Get \/ Underflow \/ Peer \/ UNCHANGED vars
  BY <1>6, OutputQuiet DEF Queued, Base
<1> QED
  BY <1>1, <1>2, <1>3, <1>4, <1>5, <1>6 DEF Next, WriteAll

\* What is last on the wire.
LEMMA LastLemma ==
  ASSUME TypeOK
  PROVE  /\ LastWritten \in Nat /\ Len(wire) \in Nat /\ DOMAIN wire = 1 .. Len(wire)
         /\ \A i \in 1 .. Len(wire) : wire[i] \in 1 .. NOut
         /\ Len(wire) > 0 => wire # <<>> /\ LastWritten = wire[Len(wire)]
         /\ Len(wire) = 0 => wire = <<>> /\ LastWritten = 0
<1>1. wire \in Seq(1 .. NOut)
  BY DEF TypeOK
<1>2. Len(wire) \in Nat /\ DOMAIN wire = 1 .. Len(wire)
      /\ \A i \in 1 .. Len(wire) : wire[i] \in 1 .. NOut
  BY <1>1, LenProperties, ElementOfSeq
<1>3. Len(wire) > 0 => wire # <<>> /\ LastWritten = wire[Len(wire)]
  BY <1>1, <1>2 DEF LastWritten
<1>4. Len(wire) = 0 => wire = <<>> /\ LastWritten = 0
  BY <1>1, <1>2 DEF LastWritten
<1> QED
  BY <1>2, <1>3, <1>4, FdStreamAssumption

\* After one ::write the wire ends where write_all() is.
LEMMA LastWrite ==
  ASSUME TypeOK, Queued, NEW n \in 1 .. WriteBuf, Write(n)
  PROVE  LastWritten' = Done + n /\ Done \in Nat /\ Base \in Nat /\ n \in Nat \ {0}
<1>1. /\ Len(wire') = Len(wire) + n /\ \A k \in 1 .. n : wire'[Len(wire) + k] = Done + k
      /\ Len(wire) \in Nat /\ n \in Nat \ {0}
  BY WriteBytes, LastLemma, FdStreamAssumption
<1>2. Len(wire') > 0 /\ wire' \in Seq(1 .. NOut)
  BY <1>1, WriteBytes
<1>3. wire' # <<>>
  BY <1>2
<1>4. LastWritten' = wire'[Len(wire')]
  BY <1>3 DEF LastWritten
<1>5. Base \in Nat /\ total_sent \in Nat /\ Done \in Nat
  BY FdStreamAssumption DEF TypeOK, Queued, Base, Done
<1>6. wire'[Len(wire) + n] = Done + n
  BY <1>1
<1> QED
  BY <1>1, <1>4, <1>5, <1>6

\* The bytes of one ::write, one by one, and where they stand.
LEMMA NewBytes ==
  ASSUME TypeOK, Queued, NEW n \in 1 .. WriteBuf, Write(n), NEW i \in DOMAIN wire'
  PROVE  \/ i \in 1 .. Len(wire) /\ i \in DOMAIN wire /\ wire'[i] = wire[i]
         \/ \E k \in 1 .. n : i = Len(wire) + k /\ wire'[i] = Done + k
<1>1. /\ wire' \in Seq(1 .. NOut) /\ Len(wire') = Len(wire) + n
      /\ \A j \in 1 .. Len(wire) : wire'[j] = wire[j]
      /\ \A k \in 1 .. n : wire'[Len(wire) + k] = Done + k
  BY WriteBytes
<1>2. Len(wire) \in Nat /\ DOMAIN wire = 1 .. Len(wire) /\ n \in Nat
  BY LastLemma, FdStreamAssumption
<1>3. DOMAIN wire' = 1 .. Len(wire) + n
  BY <1>1, LenProperties
<1>4. CASE i <= Len(wire)
  BY <1>1, <1>2, <1>3, <1>4
<1>5. CASE i > Len(wire)
  <2>1. i - Len(wire) \in 1 .. n /\ i = Len(wire) + (i - Len(wire))
    BY <1>2, <1>3, <1>5
  <2> QED
    BY <1>1, <2>1
<1> QED
  BY <1>2, <1>3, <1>4, <1>5

LEMMA AtWireStep == TypeOK /\ Queued /\ AtWire /\ [Next]_vars => AtWire'
<1> SUFFICES ASSUME TypeOK, Queued, AtWire, [Next]_vars PROVE AtWire'
  OBVIOUS
<1>0. /\ accepted \in Nat /\ Len(pbuf) \in Nat /\ total_sent \in Nat /\ errs \in Nat
      /\ Len(pbuf) <= accepted /\ total_sent <= Len(pbuf)
      /\ LastWritten \in Nat /\ (pc # "write_all" => total_sent = 0)
      /\ pbuf \in Seq(1 .. NOut)
      /\ \A i \in DOMAIN wire : wire[i] \in Nat
  <2>1. accepted \in Nat /\ total_sent \in 0 .. Len(pbuf) /\ errs \in Nat /\ pbuf \in Seq(1 .. NOut)
    BY FdStreamAssumption DEF TypeOK
  <2>2. Len(pbuf) \in Nat
    BY <2>1, LenProperties
  <2>3. Len(pbuf) <= accepted /\ (pc # "write_all" => total_sent = 0)
    BY DEF Queued
  <2>4. LastWritten \in Nat /\ \A i \in DOMAIN wire : wire[i] \in Nat
    BY LastLemma
  <2> QED
    BY <2>1, <2>2, <2>3, <2>4
<1>1. CASE Put
  <2>1. UNCHANGED <<wire, errs, peer, total_sent>> /\ pc # "destroyed" /\ pc' # "destroyed"
    BY <1>0, <1>1 DEF Put, CallWriteAll, network
  <2>2. Base' = Base /\ accepted' >= accepted
    <3>1. CASE Len(pbuf) < WriteBuf /\ pbuf' = Append(pbuf, accepted + 1)
      <4>1. accepted' = accepted + 1 /\ accepted < NOut
        BY <1>1, <3>1 DEF Put, CallWriteAll, history
      <4>2. Len(pbuf') = Len(pbuf) + 1
        BY <3>1, <4>1, PutBytes
      <4> QED
        BY <1>0, <4>1, <4>2 DEF Base
    <3>2. CASE CallWriteAll("overflow")
      BY <1>0, <3>2 DEF CallWriteAll, history, Base
    <3> QED
      BY <1>1, <3>1, <3>2 DEF Put
  <2>3. LastWritten' = LastWritten /\ Done' = Done /\ accepted' \in Nat
    BY <1>0, <1>1, <2>1, <2>2 DEF LastWritten, Done, Put, CallWriteAll, history
  <2>4. \A i \in DOMAIN wire : wire[i] <= accepted'
    BY <1>0, <2>2, <2>3 DEF AtWire
  <2> QED
    BY <1>0, <2>1, <2>2, <2>3, <2>4 DEF AtWire, Numbered
<1>2. CASE Sync \/ Destroy
  <2>1. /\ UNCHANGED <<wire, errs, peer, pbuf, accepted>> /\ total_sent' = total_sent
        /\ pc' # "destroyed"
    BY <1>0, <1>2 DEF Sync, Destroy, CallWriteAll, network, history
  <2> QED
    BY <2>1 DEF AtWire, Numbered, Base, Done, LastWritten
<1>3. CASE WriteFail
  <2>1. /\ UNCHANGED <<wire, peer, pbuf, accepted>> /\ total_sent' = 0
        /\ errs' = 0 => errs = 0 /\ peer = "reset"
    BY <1>0, <1>3 DEF WriteFail, Return, history
  <2> QED
    BY <1>0, <2>1 DEF AtWire, Numbered, Base, LastWritten
<1>4. CASE WriteAllDone
  <2>1. UNCHANGED <<wire, errs, peer>> /\ total_sent' = 0 /\ total_sent = Len(pbuf)
    BY <1>4 DEF WriteAllDone, Return, network
  <2>2. Done = accepted
    BY <1>0, <2>1 DEF Done, Base
  <2>3. Base' = accepted /\ Done' = accepted /\ accepted' \in Nat /\ accepted' >= accepted
    BY <1>4, DonePass
  <2>4. pc' = "destroyed" => pbuf' = <<>>
    BY <1>4 DEF WriteAllDone, Return
  <2>5. LastWritten = accepted
    <3>1. CASE total_sent > 0
      BY <2>2, <3>1 DEF AtWire
    <3>2. CASE total_sent = 0
      BY <1>0, <2>1, <3>2 DEF AtWire, Base
    <3> QED
      BY <1>0, <3>1, <3>2
  <2>6. LastWritten' = LastWritten
    BY <2>1 DEF LastWritten
  <2>7. \A i \in DOMAIN wire : wire[i] <= accepted'
    BY <1>0, <2>3 DEF AtWire
  <2>8. errs = 0 => Numbered(wire)
    BY DEF AtWire
  <2> QED
    BY <1>0, <2>1, <2>3, <2>4, <2>5, <2>6, <2>7, <2>8 DEF AtWire, Numbered
<1>5. ASSUME NEW n \in 1 .. WriteBuf, Write(n) PROVE AtWire'
  <2>1. /\ LastWritten' = Done + n /\ Done' = Done + n /\ Base' = Base /\ Done + n <= accepted
        /\ n \in Nat \ {0} /\ Done \in Nat /\ Base \in Nat
    BY <1>5, LastWrite, WriteBytes
  <2>2. UNCHANGED <<errs, peer, pbuf, accepted, pc>> /\ pc = "write_all" /\ peer # "reset"
    BY <1>5 DEF Write, history
  <2>3. \A i \in DOMAIN wire' : wire'[i] <= accepted'
    <3> SUFFICES ASSUME NEW i \in DOMAIN wire' PROVE wire'[i] <= accepted
      BY <2>2
    <3>1. CASE i \in DOMAIN wire /\ wire'[i] = wire[i]
      BY <3>1 DEF AtWire
    <3>2. CASE \E k \in 1 .. n : wire'[i] = Done + k
      BY <1>0, <2>1, <3>2
    <3> QED
      BY <1>5, <3>1, <3>2, NewBytes
  <2>4. errs = 0 => Numbered(wire')
    <3> SUFFICES ASSUME errs = 0, NEW i \in DOMAIN wire' PROVE wire'[i] = i
      BY DEF Numbered
    <3>1. Numbered(wire) /\ LastWritten = Done
      BY <2>2 DEF AtWire
    <3>2. Len(wire) = Done
      <4>1. CASE Len(wire) > 0
        BY <3>1, <4>1, LastLemma DEF Numbered
      <4>2. CASE Len(wire) = 0
        BY <3>1, <4>2, LastLemma
      <4> QED
        BY <4>1, <4>2, LastLemma
    <3> QED
      BY <1>5, <3>1, <3>2, NewBytes DEF Numbered
  <2>5. LastWritten' \in Nat /\ Base' <= LastWritten' /\ LastWritten' <= accepted' /\ LastWritten' = Done'
    <3>1. Base <= Done
      BY <1>0, <2>1 DEF Done
    <3> QED
      BY <1>0, <2>1, <2>2, <3>1
  <2> QED
    BY <2>2, <2>3, <2>4, <2>5 DEF AtWire
<1>6. CASE Get \/ Underflow \/ Peer \/ UNCHANGED vars
  <2>1. /\ UNCHANGED <<pbuf, total_sent, accepted, wire>>
        /\ pc' = "destroyed" => pc = "destroyed"
        /\ peer' # "reset" => peer # "reset"
        /\ errs' = 0 => errs = 0
    BY <1>6, OutputQuiet
  <2> QED
    BY <2>1 DEF AtWire, Numbered, Base, Done, LastWritten
<1> QED
  BY <1>1, <1>2, <1>3, <1>4, <1>5, <1>6 DEF Next, WriteAll

\* The wire changes in a ::write only.
LEMMA WireStep ==
  ASSUME [Next]_vars, \A n \in 1 .. WriteBuf : ~Write(n)
  PROVE  UNCHANGED wire
BY DEF Next, Put, Sync, Destroy, CallWriteAll, WriteAll, WriteFail, WriteAllDone, Get, Underflow,
       Read, ReadEnd, Peer, PeerSend, PeerShutdown, PeerReset, network, vars

LEMMA NoGapStep == TypeOK /\ Queued /\ AtWire /\ NoGap /\ [Next]_vars => NoGap'
<1> SUFFICES ASSUME TypeOK, Queued, AtWire, NoGap, [Next]_vars PROVE NoGap'
  OBVIOUS
<1>1. ASSUME NEW n \in 1 .. WriteBuf, Write(n) PROVE NoGap'
  <2>1. /\ wire' \in Seq(1 .. NOut) /\ Len(wire') = Len(wire) + n
        /\ \A i \in 1 .. Len(wire) : wire'[i] = wire[i]
        /\ \A k \in 1 .. n : wire'[Len(wire) + k] = Done + k
    BY <1>1, WriteBytes
  <2>2. Len(wire) \in Nat /\ n \in Nat \ {0} /\ Done \in Nat /\ LastWritten \in Nat
    BY <1>1, LastLemma, LastWrite
  <2>3. Done <= LastWritten
    BY <2>2, FdStreamAssumption DEF AtWire, Done, Base, TypeOK, Queued
  <2>4. wire'[1] = 1
    <3>1. CASE Len(wire) = 0
      BY <2>1, <2>2, <2>3, <3>1, LastLemma
    <3>2. CASE Len(wire) > 0
      BY <2>1, <2>2, <3>2, LastLemma DEF NoGap
    <3> QED
      BY <2>2, <3>1, <3>2
  <2>5. ASSUME NEW i \in 1 .. Len(wire') - 1 PROVE wire'[i + 1] <= wire'[i] + 1
    <3>1. CASE i < Len(wire)
      <4>1. i \in 1 .. Len(wire) - 1 /\ i \in 1 .. Len(wire) /\ i + 1 \in 1 .. Len(wire)
        BY <2>2, <3>1
      <4> QED
        BY <2>1, <4>1 DEF NoGap
    <3>2. CASE i = Len(wire)
      <4>1. wire'[i] = LastWritten
        BY <2>1, <2>2, <3>2, LastLemma
      <4>2. wire'[i + 1] = Done + 1
        BY <2>1, <2>2, <3>2
      <4> QED
        BY <2>2, <2>3, <4>1, <4>2
    <3>3. CASE i > Len(wire)
      <4>1. i - Len(wire) \in 1 .. n /\ i - Len(wire) + 1 \in 1 .. n
        BY <2>1, <2>2, <3>3
      <4>2. /\ Len(wire) + (i - Len(wire)) = i
            /\ Len(wire) + (i - Len(wire) + 1) = i + 1
        BY <2>2
      <4>3. wire'[i] = Done + (i - Len(wire)) /\ wire'[i + 1] = Done + (i - Len(wire) + 1)
        BY <2>1, <4>1, <4>2
      <4> QED
        BY <2>2, <4>1, <4>3
    <3> QED
      BY <2>2, <3>1, <3>2, <3>3
  <2> QED
    BY <2>4, <2>5 DEF NoGap
<1>2. CASE UNCHANGED wire
  BY <1>2 DEF NoGap
<1> QED
  BY <1>1, <1>2, WireStep

\* One ::write sends a byte at most once, and only those behind Done.
LEMMA SendingOnce ==
  ASSUME TypeOK, Queued, NEW n \in 1 .. WriteBuf, Write(n), NEW b \in 1 .. NOut
  PROVE  \/ Sendings(b)' = Sendings(b) /\ ~(b > Done /\ b <= Done + n)
         \/ /\ b > Done /\ b <= Done + n
            /\ \E i \in Nat : Sendings(b)' = Sendings(b) \cup {i}
<1>1. /\ wire' \in Seq(1 .. NOut) /\ Len(wire') = Len(wire) + n
      /\ \A i \in 1 .. Len(wire) : wire'[i] = wire[i]
      /\ \A k \in 1 .. n : wire'[Len(wire) + k] = Done + k
  BY WriteBytes
<1>2. Len(wire) \in Nat /\ DOMAIN wire = 1 .. Len(wire) /\ n \in Nat \ {0} /\ Done \in Nat
  BY LastLemma, LastWrite
<1>3. DOMAIN wire' = 1 .. Len(wire) + n
  BY <1>1, LenProperties
<1>4. Sendings(b) \subseteq Sendings(b)'
  BY <1>1, <1>2, <1>3 DEF Sendings
<1>5. \A i \in Sendings(b)' : i \in Sendings(b) \/ (b > Done /\ b <= Done + n /\ i = Len(wire) + (b - Done))
  <2> SUFFICES ASSUME NEW i \in Sendings(b)', i \notin Sendings(b)
               PROVE  b > Done /\ b <= Done + n /\ i = Len(wire) + (b - Done)
    OBVIOUS
  <2>1. i \in DOMAIN wire' /\ wire'[i] = b
    BY DEF Sendings
  <2>2. PICK k \in 1 .. n : i = Len(wire) + k /\ wire'[i] = Done + k
    BY <2>1, NewBytes DEF Sendings
  <2> QED
    BY <1>2, <2>1, <2>2
<1>6. CASE b > Done /\ b <= Done + n
  <2> DEFINE i == Len(wire) + (b - Done)
  <2>1. b - Done \in 1 .. n /\ i \in Nat /\ Done + (b - Done) = b
    BY <1>2, <1>6
  <2>2. wire'[i] = b
    BY <1>1, <2>1
  <2>4. i \in 1 .. Len(wire) + n
    BY <1>2, <2>1
  <2>3. Sendings(b)' = Sendings(b) \cup {i}
    BY <1>3, <1>4, <1>5, <2>2, <2>4 DEF Sendings
  <2> QED
    BY <1>6, <2>1, <2>3
<1> QED
  BY <1>4, <1>5, <1>6

LEMMA RepeatsStep == TypeOK /\ Queued /\ Repeats /\ [Next]_vars => Repeats'
<1> SUFFICES ASSUME TypeOK, Queued, Repeats, [Next]_vars,
                    NEW b \in 1 .. NOut
             PROVE  (/\ IsFiniteSet(Sendings(b)) /\ Cardinality(Sendings(b)) <= errs + 1
                     /\ b > Done /\ peer # "reset" => Cardinality(Sendings(b)) <= errs)'
  BY DEF Repeats
<1>0. /\ errs \in Nat /\ accepted \in Nat /\ Len(pbuf) \in Nat /\ total_sent \in Nat
      /\ Len(pbuf) <= accepted /\ total_sent <= Len(pbuf) /\ b \in Nat
      /\ pbuf \in Seq(1 .. NOut)
  BY LenProperties, FdStreamAssumption DEF TypeOK, Queued
<1>1. /\ IsFiniteSet(Sendings(b)) /\ Cardinality(Sendings(b)) \in Nat
      /\ Cardinality(Sendings(b)) <= errs + 1
      /\ b > Done /\ peer # "reset" => Cardinality(Sendings(b)) <= errs
  BY FS_CardinalityType DEF Repeats
<1>2. ASSUME NEW n \in 1 .. WriteBuf, Write(n)
      PROVE  (/\ IsFiniteSet(Sendings(b)) /\ Cardinality(Sendings(b)) <= errs + 1
              /\ b > Done /\ peer # "reset" => Cardinality(Sendings(b)) <= errs)'
  <2>1. errs' = errs /\ peer # "reset" /\ peer' = peer
    BY <1>2 DEF Write
  <2>2. Done' = Done + n /\ Done \in Nat /\ n \in Nat
    BY <1>2, WriteBytes, LastWrite
  <2>3. CASE Sendings(b)' = Sendings(b) /\ ~(b > Done /\ b <= Done + n)
    BY <1>0, <1>1, <2>1, <2>2, <2>3
  <2>4. CASE b > Done /\ b <= Done + n /\ \E i \in Nat : Sendings(b)' = Sendings(b) \cup {i}
    <3>1. PICK i \in Nat : Sendings(b)' = Sendings(b) \cup {i}
      BY <2>4
    <3>2. /\ IsFiniteSet(Sendings(b)')
          /\ \/ Cardinality(Sendings(b)') = Cardinality(Sendings(b))
             \/ Cardinality(Sendings(b)') = Cardinality(Sendings(b)) + 1
      BY <1>1, <3>1, FS_AddElement
    <3> QED
      BY <1>0, <1>1, <2>1, <2>2, <2>4, <3>2
  <2> QED
    BY <1>2, <2>3, <2>4, SendingOnce
<1>3. CASE \A n \in 1 .. WriteBuf : ~Write(n)
  <2>1. Sendings(b)' = Sendings(b)
    BY <1>3, WireStep DEF Sendings
  <2>2. \/ errs' \in Nat /\ errs' > errs
        \/ errs' = errs /\ (peer' # "reset" => peer # "reset" /\ Done' = Done)
    <3>1. CASE Put
      <4>1. errs' = errs /\ peer' = peer /\ total_sent' = total_sent
        BY <1>0, <3>1 DEF Put, CallWriteAll, network, Queued
      <4>2. Base' = Base
        <5>1. CASE Len(pbuf) < WriteBuf /\ pbuf' = Append(pbuf, accepted + 1)
          <6>1. accepted' = accepted + 1 /\ accepted < NOut
            BY <3>1, <5>1 DEF Put, CallWriteAll, history
          <6>2. Len(pbuf') = Len(pbuf) + 1
            BY <5>1, <6>1, PutBytes
          <6> QED
            BY <1>0, <6>1, <6>2 DEF Base
        <5>2. CASE CallWriteAll("overflow")
          BY <5>2 DEF CallWriteAll, history, Base
        <5> QED
          BY <3>1, <5>1, <5>2 DEF Put
      <4> QED
        BY <4>1, <4>2 DEF Done
    <3>2. CASE Sync \/ Destroy
      BY <3>2 DEF Sync, Destroy, CallWriteAll, network, history, Done, Base, Queued
    <3>3. CASE WriteFail
      BY <1>0, <3>3 DEF WriteFail
    <3>4. CASE WriteAllDone
      <4>1. UNCHANGED <<errs, peer>> /\ total_sent' = 0 /\ total_sent = Len(pbuf)
        BY <3>4 DEF WriteAllDone, Return, network
      <4>2. Done = accepted /\ Done' = accepted
        BY <3>4, DonePass
      <4> QED
        BY <4>1, <4>2
    <3>5. CASE Get \/ Underflow \/ Peer \/ UNCHANGED vars
      <4>1. /\ UNCHANGED <<pbuf, total_sent, accepted>>
            /\ (peer' # "reset" => peer # "reset") /\ errs' >= errs
        BY <3>5, OutputQuiet
      <4>2. errs' \in Nat
        BY <1>0, <3>5 DEF Get, Underflow, Read, ReadEnd, Peer, PeerSend, PeerShutdown, PeerReset,
                         network, vars
      <4> QED
        BY <1>0, <4>1, <4>2 DEF Done, Base
    <3> QED
      BY <1>3, <3>1, <3>2, <3>3, <3>4, <3>5 DEF Next, WriteAll
  <2>3. CASE errs' \in Nat /\ errs' > errs
    BY <1>0, <1>1, <2>1, <2>3
  <2>4. CASE errs' = errs /\ (peer' # "reset" => peer # "reset" /\ Done' = Done)
    BY <1>1, <2>1, <2>4
  <2> QED
    BY <2>2, <2>3, <2>4
<1> QED
  BY <1>2, <1>3

\* put() and overflow() only add to what the program has written.
LEMMA AcceptedGrows == TypeOK /\ Queued /\ [Next]_vars => accepted' \in Nat /\ accepted' >= accepted
<1> SUFFICES ASSUME TypeOK, Queued, [Next]_vars PROVE accepted' \in Nat /\ accepted' >= accepted
  OBVIOUS
<1>1. accepted \in Nat
  BY FdStreamAssumption DEF TypeOK
<1>2. CASE Put
  <2>1. accepted' = accepted + 1 \/ accepted' = accepted
    BY <1>2 DEF Put, CallWriteAll, history
  <2> QED
    BY <1>1, <2>1
<1>5. CASE Sync \/ Destroy \/ WriteFail \/ \E n \in 1 .. WriteBuf : Write(n)
  <2>1. accepted' = accepted
    BY <1>5 DEF Sync, Destroy, CallWriteAll, WriteFail, Write, history
  <2> QED
    BY <1>1, <2>1
<1>3. CASE WriteAllDone
  BY <1>3, DonePass
<1>4. CASE Get \/ Underflow \/ Peer \/ UNCHANGED vars
  BY <1>1, <1>4, OutputQuiet
<1> QED
  BY <1>2, <1>3, <1>4, <1>5 DEF Next, WriteAll

LEMMA HasTopStep == TypeOK /\ Queued /\ HasTop /\ [Next]_vars => HasTop'
<1> SUFFICES ASSUME TypeOK, Queued, HasTop, [Next]_vars PROVE HasTop'
  OBVIOUS
<1>0. accepted \in Nat
  BY FdStreamAssumption DEF TypeOK
<1>1. PICK h \in 0 .. accepted : Top(h)
  BY DEF HasTop
<1>2. ASSUME NEW n \in 1 .. WriteBuf, Write(n) PROVE HasTop'
  <2>1. /\ wire' \in Seq(1 .. NOut) /\ Len(wire') = Len(wire) + n
        /\ \A i \in 1 .. Len(wire) : wire'[i] = wire[i]
        /\ wire'[Len(wire) + n] = Done + n /\ Done + n <= accepted
    BY <1>2, WriteBytes
  <2>2. /\ Len(wire) \in Nat /\ DOMAIN wire = 1 .. Len(wire) /\ n \in Nat \ {0} /\ Done \in Nat
        /\ DOMAIN wire' = 1 .. Len(wire) + n /\ accepted' = accepted
    BY <1>2, <2>1, LastLemma, LastWrite, LenProperties DEF Write, history
  <2>3. ASSUME NEW i \in DOMAIN wire' PROVE wire'[i] <= h \/ wire'[i] <= Done + n
    BY <1>1, <1>2, <2>2, NewBytes DEF Top
  <2>4. ASSUME NEW i \in DOMAIN wire' PROVE wire'[i] \in Nat
    BY <2>1, <2>2, ElementOfSeq, FdStreamAssumption
  <2>5. CASE h >= Done + n
    <3>1. Top(h)'
      <4>1. \A i \in DOMAIN wire' : wire'[i] <= h
        BY <1>1, <2>2, <2>3, <2>4, <2>5
      <4>2. h = 0 \/ \E i \in DOMAIN wire' : wire'[i] = h
        BY <1>1, <2>1, <2>2 DEF Top
      <4> QED
        BY <4>1, <4>2 DEF Top
    <3> QED
      BY <2>2, <3>1 DEF HasTop
  <2>6. CASE h < Done + n
    <3>1. PICK m \in Nat : m = Done + n
      BY <2>2
    <3>2. \A i \in DOMAIN wire' : wire'[i] <= m
      BY <1>1, <2>2, <2>3, <2>4, <2>6, <3>1
    <3>3. Len(wire) + n \in DOMAIN wire' /\ wire'[Len(wire) + n] = m
      BY <2>1, <2>2, <3>1
    <3>4. Top(m)'
      BY <3>2, <3>3 DEF Top
    <3>5. m \in 0 .. accepted'
      BY <1>0, <2>1, <2>2, <3>1
    <3> QED
      BY <3>4, <3>5 DEF HasTop
  <2> QED
    BY <1>0, <1>1, <2>2, <2>5, <2>6
<1>3. CASE UNCHANGED wire
  <2>1. Top(h)'
    BY <1>1, <1>3 DEF Top
  <2>2. h \in 0 .. accepted'
    BY <1>0, <1>1, AcceptedGrows
  <2> QED
    BY <2>1, <2>2 DEF HasTop
<1> QED
  BY <1>2, <1>3, WireStep

\* The input side.
LEMMA ReadingStep == TypeOK /\ Reading /\ [Next]_vars => Reading'
<1> SUFFICES ASSUME TypeOK, Reading, [Next]_vars PROVE Reading'
  OBVIOUS
<1>0. /\ received \in Seq(1 .. NIn) /\ gbuf \in Seq(1 .. NIn) /\ inbox \in Seq(1 .. NIn)
      /\ errs \in Nat /\ peerSent \in Nat
  BY FdStreamAssumption DEF TypeOK
<1>00. /\ Len(received) \in Nat /\ DOMAIN received = 1 .. Len(received)
      /\ Len(gbuf) \in Nat /\ DOMAIN gbuf = 1 .. Len(gbuf)
      /\ Len(inbox) \in Nat /\ DOMAIN inbox = 1 .. Len(inbox)
  BY <1>0, LenProperties
<1>1. CASE Put \/ Sync \/ Destroy \/ WriteFail \/ WriteAllDone \/ \E n \in 1 .. WriteBuf : Write(n)
  <2>1. /\ UNCHANGED <<received, gbuf, inbox, peerSent, peer>> /\ pc' # "underflow"
        /\ ("eofbit" \in iostate' => "eofbit" \in iostate) /\ (errs' = 0 => errs = 0)
    BY <1>0, <1>1 DEF Put, Sync, Destroy, CallWriteAll, WriteFail, WriteAllDone, Return, Write,
                      network, history
  <2> QED
    BY <2>1 DEF Reading
<1>2. CASE Get
  <2>1. CASE gbuf # <<>>
    <3>1. /\ gbuf' \in Seq(1 .. NIn) /\ received' \in Seq(1 .. NIn)
          /\ Len(gbuf) > 0 /\ Len(gbuf') = Len(gbuf) - 1 /\ Len(received') = Len(received) + 1
          /\ \A i \in 1 .. Len(gbuf') : gbuf'[i] = gbuf[i + 1]
          /\ \A i \in 1 .. Len(received) : received'[i] = received[i]
          /\ received'[Len(received) + 1] = gbuf[1]
      BY <1>2, <2>1, GetBytes DEF Get
    <3>2. /\ UNCHANGED <<inbox, peerSent, peer, iostate>> /\ pc' = "idle" /\ iostate = {}
      BY <1>2, <2>1 DEF Get, good, network
    <3>3. DOMAIN gbuf' = 1 .. Len(gbuf) - 1 /\ DOMAIN received' = 1 .. Len(received) + 1
      BY <3>1, LenProperties
    <3>4. gbuf[1] = Len(received) + 1
      BY <1>00, <3>1 DEF Reading
    <3>5. \A i \in DOMAIN received' : received'[i] = i
      BY <1>00, <3>1, <3>3, <3>4 DEF Reading
    <3>6. \A i \in DOMAIN gbuf' : gbuf'[i] = Len(received') + i
      <4> SUFFICES ASSUME NEW i \in 1 .. Len(gbuf) - 1 PROVE gbuf'[i] = Len(received) + 1 + i
        BY <3>1, <3>3
      <4>1. i \in 1 .. Len(gbuf') /\ i + 1 \in 1 .. Len(gbuf)
        BY <1>00, <3>1
      <4>2. gbuf'[i] = gbuf[i + 1]
        BY <3>1, <4>1
      <4>3. gbuf[i + 1] = Len(received) + (i + 1)
        BY <1>00, <4>1 DEF Reading
      <4> QED
        BY <1>00, <4>2, <4>3
    <3>7. Len(received') + Len(gbuf') = Len(received) + Len(gbuf)
      BY <1>00, <3>1
    <3> QED
      BY <3>2, <3>5, <3>6, <3>7 DEF Reading
  <2>2. CASE gbuf = <<>>
    BY <1>2, <2>2 DEF Get, good, network, history, Reading
  <2> QED
    BY <2>1, <2>2
<1>3. ASSUME NEW n \in 1 .. ReadBuf, Read(n) PROVE Reading'
  <2>1. /\ gbuf' \in Seq(1 .. NIn) /\ received' \in Seq(1 .. NIn) /\ inbox' \in Seq(1 .. NIn)
        /\ n <= Len(inbox) /\ Len(received') = Len(received) + 1
        /\ Len(gbuf') = n - 1 /\ Len(inbox') = Len(inbox) - n
        /\ \A i \in 1 .. Len(received) : received'[i] = received[i]
        /\ received'[Len(received) + 1] = inbox[1]
        /\ \A i \in 1 .. n - 1 : gbuf'[i] = inbox[i + 1]
        /\ \A i \in 1 .. Len(inbox) - n : inbox'[i] = inbox[n + i]
    BY <1>3, ReadBytes
  <2>2. /\ UNCHANGED <<peerSent, peer, iostate>> /\ pc' = "idle" /\ iostate = {}
        /\ gbuf = <<>> /\ Len(gbuf) = 0
    BY <1>3, EmptySeq DEF Read, Reading
  <2>3. /\ DOMAIN gbuf' = 1 .. n - 1 /\ DOMAIN received' = 1 .. Len(received) + 1
        /\ DOMAIN inbox' = 1 .. Len(inbox) - n /\ n \in Nat \ {0}
    BY <2>1, LenProperties, FdStreamAssumption
  <2>4. \A i \in 1 .. Len(inbox) : inbox[i] = Len(received) + i
    BY <1>00, <2>2 DEF Reading
  <2>5. \A i \in DOMAIN received' : received'[i] = i
    <3> SUFFICES ASSUME NEW i \in 1 .. Len(received) + 1 PROVE received'[i] = i
      BY <2>3
    <3>1. CASE i \in 1 .. Len(received)
      BY <1>00, <2>1, <3>1 DEF Reading
    <3>2. CASE i = Len(received) + 1
      <4>1. 1 \in 1 .. Len(inbox)
        BY <1>00, <2>1, <2>3
      <4> QED
        BY <1>00, <2>1, <2>4, <3>2, <4>1
    <3> QED
      BY <1>00, <3>1, <3>2
  <2>6. \A i \in DOMAIN gbuf' : gbuf'[i] = Len(received') + i
    <3> SUFFICES ASSUME NEW i \in 1 .. n - 1 PROVE gbuf'[i] = Len(received) + 1 + i
      BY <2>1, <2>3
    <3>1. i + 1 \in 1 .. Len(inbox)
      BY <1>00, <2>1, <2>3
    <3> QED
      BY <1>00, <2>1, <2>4, <3>1
  <2>7. \A i \in DOMAIN inbox' : inbox'[i] = Len(received') + Len(gbuf') + i
    <3> SUFFICES ASSUME NEW i \in 1 .. Len(inbox) - n
                 PROVE  inbox'[i] = (Len(received) + 1) + (n - 1) + i
      BY <2>1, <2>3
    <3>1. n + i \in 1 .. Len(inbox) /\ inbox'[i] = inbox[n + i]
      BY <1>00, <2>1, <2>3
    <3> QED
      BY <1>00, <2>3, <2>4, <3>1
  <2>8. Len(received') + Len(gbuf') + Len(inbox') = peerSent'
    <3>1. Len(received) + Len(gbuf) + Len(inbox) = peerSent
      BY DEF Reading
    <3> QED
      BY <1>00, <2>1, <2>2, <2>3, <3>1
  <2> QED
    BY <2>2, <2>5, <2>6, <2>7, <2>8 DEF Reading
<1>4. CASE ReadEnd
  <2>1. /\ UNCHANGED <<received, gbuf, inbox, peerSent, peer>> /\ pc' # "underflow"
        /\ errs' = 0 /\ peer # "reset" => inbox = <<>> /\ peer = "shutdown"
        /\ gbuf = <<>>
    BY <1>0, <1>4 DEF ReadEnd, history, Reading
  <2> QED
    BY <2>1 DEF Reading
<1>5. CASE PeerSend
  <2>1. /\ inbox' \in Seq(1 .. NIn) /\ Len(inbox') = Len(inbox) + 1
        /\ \A i \in 1 .. Len(inbox) : inbox'[i] = inbox[i]
        /\ inbox'[Len(inbox) + 1] = peerSent + 1
    BY <1>5, PeerBytes
  <2>2. /\ UNCHANGED <<pc, received, gbuf, peer, errs, iostate>> /\ peerSent' = peerSent + 1
        /\ peer = "open"
    BY <1>5 DEF PeerSend, stream, history
  <2>3. DOMAIN inbox' = 1 .. Len(inbox) + 1
    BY <2>1, LenProperties
  <2>4. Len(received) + Len(gbuf) + Len(inbox) = peerSent
    BY DEF Reading
  <2>5. \A i \in DOMAIN inbox' : inbox'[i] = Len(received) + Len(gbuf) + i
    <3> SUFFICES ASSUME NEW i \in 1 .. Len(inbox) + 1
                 PROVE  inbox'[i] = Len(received) + Len(gbuf) + i
      BY <2>3
    <3>1. CASE i \in 1 .. Len(inbox)
      BY <1>00, <2>1, <3>1 DEF Reading
    <3>2. CASE i = Len(inbox) + 1
      BY <1>00, <2>1, <2>4, <3>2
    <3> QED
      BY <1>00, <3>1, <3>2
  <2>6. Len(received) + Len(gbuf) + Len(inbox') = peerSent'
    BY <1>00, <2>1, <2>2, <2>4
  <2> QED
    BY <2>2, <2>5, <2>6 DEF Reading
<1>6. CASE PeerShutdown \/ PeerReset
  BY <1>6 DEF PeerShutdown, PeerReset, stream, history, Reading
<1>7. CASE UNCHANGED vars
  BY <1>7 DEF vars, Reading
<1> QED
  BY <1>1, <1>2, <1>3, <1>4, <1>5, <1>6, <1>7 DEF Next, WriteAll, Underflow, Peer

-----------------------------------------------------------------------------
(* The invariant, and what follows from it.                                *)

LEMMA Invariance == Spec => []IInv
<1> USE FdStreamAssumption
<1>1. Init => IInv
  <2> SUFFICES ASSUME Init PROVE IInv
    OBVIOUS
  <2>1. TypeOK
    BY DEF Init, TypeOK
  <2>2. Queued
    BY DEF Init, Queued, Base
  <2>3. AtWire
    <3>1. Base = 0 /\ Done = 0 /\ LastWritten = 0
      <4>1. Len(pbuf) = 0 /\ accepted = 0 /\ total_sent = 0
        BY EmptySeq DEF Init
      <4>2. Base = 0
        BY <4>1 DEF Base
      <4>3. LastWritten = 0
        BY DEF Init, LastWritten
      <4> QED
        BY <4>1, <4>2, <4>3 DEF Done
    <3> QED
      BY <3>1 DEF Init, AtWire, Numbered
  <2>4. NoGap
    BY DEF Init, NoGap
  <2>5. Repeats
    <3>1. \A b : Sendings(b) = {}
      BY DEF Init, Sendings
    <3> QED
      BY <3>1, FS_EmptySet DEF Init, Repeats
  <2>6. HasTop
    <3>1. Top(0)
      BY DEF Init, Top
    <3> QED
      BY <3>1 DEF Init, HasTop
  <2>7. Reading
    BY DEF Init, Reading
  <2> QED
    BY <2>1, <2>2, <2>3, <2>4, <2>5, <2>6, <2>7 DEF IInv
<1>2. IInv /\ [Next]_vars => IInv'
  BY TypeStep, QueuedStep, AtWireStep, NoGapStep, RepeatsStep, HasTopStep, ReadingStep DEF IInv
<1> QED
  BY <1>1, <1>2, PTL DEF Spec

\* The buffers stay within their size.
THEOREM TypeCorrect == Spec => []TypeOK
<1>1. IInv => TypeOK
  BY DEF IInv
<1> QED
  BY <1>1, Invariance, PTL

\* Whatever ::write does, write_all() never skips a byte, and sends none more
\* often than once and once for every error.
THEOREM OutAtLeastOnceHolds == Spec => []OutAtLeastOnce
<1>1. IInv => OutAtLeastOnce
  BY DEF IInv, OutAtLeastOnce, RepeatedOncePerError, Repeats, Sendings
<1> QED
  BY <1>1, Invariance, PTL

\* A byte that put() took is with the kernel or still in the buffer, and a
\* stream destroyed on a connection that never failed has sent every one.
THEOREM NothingLostHolds == Spec => []NothingLost
<1>1. IInv => NothingLost
  <2> SUFFICES ASSUME IInv PROVE NothingLost
    OBVIOUS
  <2>1. /\ accepted \in Nat /\ Len(pbuf) \in Nat /\ LastWritten \in Nat
        /\ Base <= LastWritten
    BY LastLemma, LenProperties, FdStreamAssumption DEF IInv, TypeOK, AtWire
  <2>2. accepted <= LastWritten + Len(pbuf)
    BY <2>1 DEF Base
  <2>3. ASSUME pc = "destroyed", errs = 0, peer # "reset" PROVE LastWritten = accepted
    <3>1. LastWritten = Done /\ pbuf = <<>> /\ total_sent = 0
      BY <2>3 DEF IInv, AtWire, Queued
    <3> QED
      BY <2>1, <3>1 DEF Done, Base
  <2> QED
    BY <2>2, <2>3 DEF NothingLost
<1> QED
  BY <1>1, Invariance, PTL

\* get() returns the peer's bytes in order across the ends of all buffers, and
\* end of file only behind the last one, unless the connection failed.
THEOREM InputCompleteHolds == Spec => []InputComplete
<1>1. IInv => InputComplete
  <2> SUFFICES ASSUME TypeOK, Reading PROVE InputComplete
    BY DEF IInv
  <2>0. received \in Seq(1 .. NIn) /\ gbuf \in Seq(1 .. NIn) /\ inbox \in Seq(1 .. NIn)
    BY DEF TypeOK
  <2>1. /\ Len(received) \in Nat /\ DOMAIN received = 1 .. Len(received)
        /\ Len(gbuf) \in Nat /\ DOMAIN gbuf = 1 .. Len(gbuf)
        /\ Len(inbox) \in Nat /\ DOMAIN inbox = 1 .. Len(inbox)
    BY <2>0, LenProperties
  <2> DEFINE head == received \o gbuf
  <2>2. /\ head \in Seq(1 .. NIn) /\ Len(head) = Len(received) + Len(gbuf)
        /\ \A i \in 1 .. Len(received) + Len(gbuf) :
             head[i] = IF i <= Len(received) THEN received[i] ELSE gbuf[i - Len(received)]
    BY <2>0, ConcatProperties
  <2>3. \A i \in 1 .. Len(head) : head[i] = i
    <3> SUFFICES ASSUME NEW i \in 1 .. Len(received) + Len(gbuf) PROVE head[i] = i
      BY <2>2
    <3>1. CASE i <= Len(received)
      <4>1. i \in DOMAIN received /\ head[i] = received[i]
        BY <2>1, <2>2, <3>1
      <4> QED
        BY <4>1 DEF Reading
    <3>2. CASE i > Len(received)
      <4>1. i - Len(received) \in DOMAIN gbuf /\ head[i] = gbuf[i - Len(received)]
        BY <2>1, <2>2, <3>2
      <4>2. gbuf[i - Len(received)] = Len(received) + (i - Len(received))
        BY <4>1 DEF Reading
      <4> QED
        BY <2>1, <4>1, <4>2
    <3> QED
      BY <2>1, <3>1, <3>2
  <2> HIDE DEF head
  <2> DEFINE all == head \o inbox
  <2>4. /\ all \in Seq(1 .. NIn) /\ Len(all) = Len(head) + Len(inbox)
        /\ \A i \in 1 .. Len(head) + Len(inbox) :
             all[i] = IF i <= Len(head) THEN head[i] ELSE inbox[i - Len(head)]
    <3>1. head \in Seq(1 .. NIn) /\ inbox \in Seq(1 .. NIn)
      BY <2>0, <2>2
    <3> QED
      BY <3>1, ConcatProperties
  <2>5. Numbered(all)
    <3> SUFFICES ASSUME NEW i \in 1 .. Len(head) + Len(inbox) PROVE all[i] = i
      BY <2>4, LenProperties DEF Numbered
    <3>0. Len(head) \in Nat /\ i \in Nat
      BY <2>1, <2>2
    <3>1. CASE i <= Len(head)
      BY <2>1, <2>3, <2>4, <3>0, <3>1
    <3>2. CASE i > Len(head)
      <4>1. i - Len(head) \in DOMAIN inbox /\ all[i] = inbox[i - Len(head)]
        BY <2>1, <2>4, <3>0, <3>2
      <4>2. inbox[i - Len(head)] = Len(head) + (i - Len(head))
        BY <2>2, <4>1 DEF Reading
      <4> QED
        BY <3>0, <4>1, <4>2
    <3> QED
      BY <3>0, <3>1, <3>2
  <2>6. EofAfterEverything
    <3> SUFFICES ASSUME "eofbit" \in iostate, errs = 0, peer # "reset"
                 PROVE  Len(received) = peerSent
      BY DEF EofAfterEverything
    <3>1. gbuf = <<>> /\ inbox = <<>> /\ Len(received) + Len(gbuf) + Len(inbox) = peerSent
      BY DEF Reading
    <3> QED
      BY <2>1, <3>1
  <2> QED
    BY <2>5, <2>6 DEF InputComplete, ReadInOrder, head, all
<1> QED
  BY <1>1, Invariance, PTL

-----------------------------------------------------------------------------
(* The output side implements the byte channel.                            *)

\* The first k bytes.
First(k) == [i \in 1 .. k |-> i]

LEMMA FirstSeq ==
  ASSUME NEW k \in Nat
  PROVE  /\ First(k) \in Seq(Nat) /\ Len(First(k)) = k
         /\ First(k + 1) = Append(First(k), k + 1)
         /\ \A n \in 0 .. k : First(n) = SubSeq(First(k), 1, n)
         /\ \A n \in Nat : First(n) = First(k) => n = k
<1>1. \A n \in Nat : First(n) \in Seq(Nat) /\ Len(First(n)) = n /\ DOMAIN First(n) = 1 .. n
                     /\ \A i \in 1 .. n : First(n)[i] = i
  BY DEF First
<1>2. First(k + 1) = Append(First(k), k + 1)
  <2>1. /\ Append(First(k), k + 1) \in Seq(Nat) /\ Len(Append(First(k), k + 1)) = k + 1
        /\ \A i \in 1 .. k : Append(First(k), k + 1)[i] = First(k)[i]
        /\ Append(First(k), k + 1)[k + 1] = k + 1
    <3>1. First(k) \in Seq(Nat) /\ Len(First(k)) = k /\ k + 1 \in Nat
      BY <1>1
    <3> QED
      BY <3>1, AppendProperties
  <2>2. \A i \in 1 .. k + 1 : Append(First(k), k + 1)[i] = First(k + 1)[i]
    <3>1. \A i \in 1 .. k + 1 : First(k + 1)[i] = i /\ (i \in 1 .. k \/ i = k + 1)
      BY <1>1
    <3>2. \A i \in 1 .. k : First(k)[i] = i
      BY <1>1
    <3> QED
      BY <2>1, <3>1, <3>2
  <2>3. First(k + 1) \in Seq(Nat) /\ Len(First(k + 1)) = k + 1
    BY <1>1
  <2> QED
    BY <2>1, <2>2, <2>3, SeqEqual
<1>3. ASSUME NEW n \in 0 .. k PROVE First(n) = SubSeq(First(k), 1, n)
  <2>1. /\ SubSeq(First(k), 1, n) \in Seq(Nat) /\ Len(SubSeq(First(k), 1, n)) = n
        /\ \A i \in 1 .. n : SubSeq(First(k), 1, n)[i] = i
    <3>1. \A i \in 1 .. n : First(k)[i] \in Nat
      <4>1. \A i \in 1 .. n : i \in 1 .. k /\ i \in Nat
        OBVIOUS
      <4>2. \A i \in 1 .. k : First(k)[i] = i
        BY <1>1
      <4> QED
        BY <4>1, <4>2
    <3>2. /\ SubSeq(First(k), 1, n) \in Seq(Nat)
          /\ Len(SubSeq(First(k), 1, n)) = IF 1 <= n THEN n - 1 + 1 ELSE 0
          /\ \A i \in 1 .. n - 1 + 1 : SubSeq(First(k), 1, n)[i] = First(k)[1 + i - 1]
      BY <3>1, SubSeqProperties
    <3> QED
      BY <1>1, <3>2
  <2>2. First(n) \in Seq(Nat) /\ Len(First(n)) = n /\ \A i \in 1 .. n : First(n)[i] = i
    BY <1>1
  <2> QED
    BY <2>1, <2>2, SeqEqual
<1>4. \A n \in Nat : First(n) = First(k) => n = k
  BY <1>1
<1> QED
  BY <1>1, <1>2, <1>3, <1>4

\* The channel's state: what was written, and what was delivered of it.
Delivered == IF errs = 0 THEN wire ELSE First(Highest)
Closed == pc = "destroyed" \/ (pc = "write_all" /\ caller = "dtor")
Broken == peer = "reset" \/ errs > 0

\* What was delivered are the first bytes, up to the highest that was sent.
LEMMA DeliveredFirst ==
  IInv => /\ Highest \in 0 .. accepted /\ Top(Highest) /\ Delivered = First(Highest)
          /\ \A h \in Nat : Top(h) => h = Highest
          /\ ~Broken => Highest = Done
<1> SUFFICES ASSUME IInv
             PROVE  /\ Highest \in 0 .. accepted /\ Top(Highest) /\ Delivered = First(Highest)
                    /\ \A h \in Nat : Top(h) => h = Highest
                    /\ ~Broken => Highest = Done
  OBVIOUS
<1>0. /\ accepted \in Nat /\ Len(wire) \in Nat /\ DOMAIN wire = 1 .. Len(wire)
      /\ wire \in Seq(1 .. NOut) /\ errs \in Nat
      /\ \A i \in DOMAIN wire : wire[i] \in 1 .. NOut
  <2>1. TypeOK /\ accepted \in Nat /\ wire \in Seq(1 .. NOut) /\ errs \in Nat
    BY FdStreamAssumption DEF IInv, TypeOK
  <2> QED
    BY <2>1, LastLemma
<1>1. ASSUME NEW h \in Nat, Top(h) PROVE h = Highest
  <2> DEFINE sent == {0} \cup {wire[i] : i \in DOMAIN wire}
  <2>1. h \in sent /\ \A m \in sent : m <= h
    BY <1>1 DEF Top
  <2>2. \A n \in sent : n \in Nat /\ ((\A m \in sent : m <= n) => n = h)
    <3> SUFFICES ASSUME NEW n \in sent PROVE n \in Nat /\ ((\A m \in sent : m <= n) => n = h)
      OBVIOUS
    <3>1. n \in Nat
      BY <1>0
    <3> QED
      BY <2>1, <3>1
  <2>3. (CHOOSE n \in sent : \A m \in sent : m <= n) = h
    BY <2>1, <2>2
  <2> QED
    BY <2>3 DEF Highest
<1>2. PICK h \in 0 .. accepted : Top(h)
  BY DEF IInv, HasTop
<1>3. Highest = h
  BY <1>0, <1>1, <1>2
<1>4. errs = 0 => Highest = Len(wire) /\ Highest = LastWritten
  <2> SUFFICES ASSUME errs = 0 PROVE h = Len(wire) /\ h = LastWritten
    BY <1>3
  <2>1. Numbered(wire)
    BY DEF IInv, AtWire
  <2>2. CASE Len(wire) > 0
    <3>1. LastWritten = Len(wire)
      BY <1>0, <2>1, <2>2, LastLemma DEF IInv, Numbered
    <3>2. Top(Len(wire))
      BY <1>0, <2>1, <2>2 DEF Top, Numbered
    <3> QED
      BY <1>0, <1>1, <1>3, <3>1, <3>2
  <2>3. CASE Len(wire) = 0
    <3>1. LastWritten = 0 /\ Top(0)
      BY <1>0, <2>3, LastLemma DEF IInv, Top
    <3> QED
      BY <1>1, <1>3, <2>3, <3>1
  <2>4. Len(wire) \in Nat
    BY <1>0
  <2> QED
    BY <2>2, <2>3, <2>4
<1>5. Delivered = First(Highest)
  <2>1. CASE errs = 0
    <3>1. Numbered(wire) /\ Highest = Len(wire)
      BY <1>4, <2>1 DEF IInv, AtWire
    <3>2. /\ First(Highest) \in Seq(Nat) /\ Len(First(Highest)) = Len(wire)
          /\ \A i \in 1 .. Len(wire) : First(Highest)[i] = i
      BY <1>0, <3>1, FirstSeq DEF First
    <3>3. wire \in Seq(Nat) /\ \A i \in 1 .. Len(wire) : wire[i] = i
      BY <1>0, <3>1 DEF Numbered
    <3>4. wire = First(Highest)
      BY <3>2, <3>3, SeqEqual
    <3> QED
      BY <2>1, <3>4 DEF Delivered
  <2>2. CASE errs # 0
    BY <2>2 DEF Delivered
  <2> QED
    BY <2>1, <2>2
<1>6. ~Broken => Highest = Done
  BY <1>0, <1>4 DEF Broken, IInv, AtWire
<1> QED
  BY <1>1, <1>2, <1>3, <1>5, <1>6

Ended == pc = "destroyed"

\* The steps of the channel, in terms of how many bytes were written and what
\* is the highest of those delivered.
Same == <<accepted, Highest, Closed, Broken, Ended>>
SendStep == /\ ~Closed /\ accepted < NOut /\ accepted' = accepted + 1
            /\ UNCHANGED <<Highest, Closed, Broken, Ended>>
DeliverStep == /\ ~Ended /\ Highest' > Highest
               /\ UNCHANGED <<accepted, Closed, Broken, Ended>>
CloseStep == ~Closed /\ Closed' /\ UNCHANGED <<accepted, Highest, Broken, Ended>>
BreakStep == /\ ~Broken /\ Broken' /\ (Ended => Ended')
             /\ UNCHANGED <<accepted, Highest, Closed>>
EndStep == /\ ~Ended /\ (Broken \/ (Closed /\ Highest = accepted)) /\ Ended'
           /\ UNCHANGED <<accepted, Highest, Closed, Broken>>
ChannelStep == SendStep \/ DeliverStep \/ CloseStep \/ BreakStep \/ EndStep \/ UNCHANGED Same

LEMMA StepImplements == IInv /\ IInv' /\ [Next]_vars => ChannelStep
<1>1. (IInv => Highest \in 0 .. accepted /\ Top(Highest))'
  <2>1. IInv => Highest \in 0 .. accepted /\ Top(Highest)
    BY DeliveredFirst
  <2> QED
    BY <2>1, PTL
<1> SUFFICES ASSUME IInv, IInv', [Next]_vars PROVE ChannelStep
  OBVIOUS
<1> USE DEF Closed, Broken, Ended, ChannelStep, Same
<1>2. /\ accepted \in Nat /\ errs \in Nat /\ Highest \in 0 .. accepted /\ Top(Highest)
      /\ Highest' \in 0 .. accepted' /\ Top(Highest)' /\ (~Broken => Highest = Done)
      /\ TypeOK /\ Queued
  <2>1. Highest \in 0 .. accepted /\ Top(Highest) /\ (~Broken => Highest = Done)
    BY DeliveredFirst
  <2>2. Highest' \in 0 .. accepted' /\ Top(Highest)'
    BY <1>1
  <2>3. TypeOK /\ Queued
    BY DEF IInv
  <2>4. accepted \in Nat /\ errs \in Nat
    BY <2>3, FdStreamAssumption DEF TypeOK
  <2> QED
    BY <2>1, <2>2, <2>3, <2>4
<1>3. ASSUME UNCHANGED wire PROVE Highest' = Highest
  BY <1>3 DEF Highest
<1>4. CASE Put
  <2>1. UNCHANGED wire
    BY <1>4 DEF Put, CallWriteAll, network
  <2>2. CASE accepted' = accepted + 1
    BY <1>2, <1>3, <1>4, <2>1, <2>2 DEF Put, CallWriteAll, network, history, SendStep
  <2>3. CASE accepted' # accepted + 1
    BY <1>3, <1>4, <2>1, <2>3 DEF Put, CallWriteAll, network, history
  <2> QED
    BY <2>2, <2>3
<1>5. CASE Sync
  BY <1>3, <1>5 DEF Sync, CallWriteAll, network, history
<1>6. CASE Destroy
  BY <1>3, <1>6 DEF Destroy, CallWriteAll, network, history, CloseStep
<1>7. CASE WriteFail
  BY <1>2, <1>3, <1>7 DEF WriteFail, Return, history, BreakStep, EndStep
<1>8. CASE WriteAllDone
  <2>1. UNCHANGED <<wire, peer, errs, caller>> /\ pc = "write_all" /\ Done = accepted
    BY <1>2, <1>8, DonePass DEF WriteAllDone, Return, network
  <2>2. Highest' = Highest
    BY <1>3, <2>1
  <2>3. CASE caller = "overflow"
    BY <1>2, <1>8, <2>1, <2>2, <2>3 DEF WriteAllDone, Return, SendStep, Queued
  <2>4. CASE caller = "sync"
    BY <1>8, <2>1, <2>2, <2>4 DEF WriteAllDone, Return
  <2>5. CASE caller = "dtor"
    BY <1>2, <1>8, <2>1, <2>2, <2>5 DEF WriteAllDone, Return, EndStep
  <2> QED
    BY <1>2, <2>3, <2>4, <2>5 DEF TypeOK
<1>9. ASSUME NEW n \in 1 .. WriteBuf, Write(n) PROVE ChannelStep
  <2>1. UNCHANGED <<pc, caller, peer, errs, accepted>> /\ pc = "write_all"
    BY <1>9 DEF Write, history
  <2>2. /\ Len(wire) \in Nat /\ DOMAIN wire = 1 .. Len(wire) /\ n \in Nat
        /\ \A i \in 1 .. Len(wire) : wire'[i] = wire[i]
        /\ wire' \in Seq(1 .. NOut) /\ Len(wire') = Len(wire) + n
    BY <1>2, <1>9, LastLemma, WriteBytes, FdStreamAssumption
  <2>3. DOMAIN wire' = 1 .. Len(wire) + n
    BY <2>2, LenProperties
  <2>4. Highest' >= Highest
    <3>1. CASE Highest = 0
      BY <1>2, <2>1, <3>1
    <3>2. CASE \E i \in DOMAIN wire : wire[i] = Highest
      <4>1. PICK i \in DOMAIN wire : wire[i] = Highest
        BY <3>2
      <4>2. i \in DOMAIN wire' /\ wire'[i] = Highest
        BY <2>2, <2>3, <4>1
      <4>3. \A j \in DOMAIN wire' : wire'[j] <= Highest'
        BY <1>2 DEF Top
      <4> QED
        BY <1>2, <2>1, <4>2, <4>3
    <3> QED
      BY <1>2, <3>1, <3>2 DEF Top
  <2> QED
    BY <1>2, <2>1, <2>4 DEF DeliverStep
<1>10. CASE Get
  BY <1>3, <1>10 DEF Get, network, history
<1>11. CASE Underflow
  BY <1>2, <1>3, <1>11 DEF Underflow, Read, ReadEnd, network, history, BreakStep
<1>12. CASE Peer
  BY <1>2, <1>3, <1>12 DEF Peer, PeerSend, PeerShutdown, PeerReset, stream, history, BreakStep
<1>13. CASE UNCHANGED vars
  BY <1>3, <1>13 DEF vars
<1> QED
  BY <1>4, <1>5, <1>6, <1>7, <1>8, <1>9, <1>10, <1>11, <1>12, <1>13 DEF Next, WriteAll

\* The channel's own formulas, with the state of the stream in their place.
LEMMA ChannelImplements == IInv /\ IInv' /\ ChannelStep => [Channel!Next]_(Channel!vars)
<1>1. (IInv => Highest \in 0 .. accepted /\ Delivered = First(Highest))'
  <2>1. IInv => Highest \in 0 .. accepted /\ Delivered = First(Highest)
    BY DeliveredFirst
  <2> QED
    BY <2>1, PTL
<1> SUFFICES ASSUME IInv, IInv', ChannelStep PROVE [Channel!Next]_(Channel!vars)
  OBVIOUS
<1> DEFINE snt == [i \in 1 .. accepted |-> i]
           rcv == IF errs = 0 THEN wire ELSE [i \in 1 .. Highest |-> i]
<1>2. accepted \in Nat /\ Highest \in 0 .. accepted /\ accepted' \in Nat /\ Highest' \in 0 .. accepted'
  <2>1. Highest \in 0 .. accepted
    BY DeliveredFirst
  <2>2. accepted \in Nat /\ accepted' \in Nat
    BY FdStreamAssumption DEF IInv, TypeOK
  <2>3. Highest' \in 0 .. accepted'
    BY <1>1
  <2> QED
    BY <2>1, <2>2, <2>3
<1>3. snt = First(accepted) /\ snt' = First(accepted')
  BY DEF First
<1>4. rcv = First(Highest) /\ rcv' = First(Highest')
  <2>1. Delivered = rcv /\ Delivered' = rcv'
    BY DEF Delivered, First
  <2>2. Delivered = First(Highest)
    BY DeliveredFirst
  <2>3. Delivered' = First(Highest')
    BY <1>1 DEF First
  <2> QED
    BY <2>1, <2>2, <2>3
<1>5. Len(snt) = accepted /\ Len(rcv) = Highest
  BY <1>2, <1>3, <1>4, FirstSeq
<1>6. CASE SendStep
  <2>1. snt' = Append(snt, accepted + 1) /\ rcv' = rcv /\ accepted + 1 \in 1 .. NOut
    <3>1. accepted' = accepted + 1 /\ Highest' = Highest /\ accepted < NOut
      BY <1>6 DEF SendStep
    <3>2. First(accepted + 1) = Append(First(accepted), accepted + 1)
      BY <1>2, FirstSeq
    <3>3. accepted + 1 \in 1 .. NOut
      BY <1>2, <3>1, FdStreamAssumption
    <3>4. snt' = First(accepted + 1)
      BY <1>3, <3>1
    <3>5. rcv' = rcv
      BY <1>4, <3>1
    <3> QED
      BY <1>3, <3>2, <3>3, <3>4, <3>5
  <2> QED
    BY <1>6, <2>1 DEF SendStep, Closed, Broken, Ended, Channel!Next, Channel!Send
<1>7. CASE DeliverStep
  <2>1. snt' = snt
    BY <1>3, <1>7 DEF DeliverStep
  <2>2. Highest' \in Len(rcv) + 1 .. Len(snt)
    BY <1>2, <1>5, <1>7 DEF DeliverStep
  <2>3. rcv' = SubSeq(snt, 1, Highest')
    BY <1>2, <1>3, <1>4, <1>7, FirstSeq DEF DeliverStep
  <2> QED
    BY <1>7, <2>1, <2>2, <2>3 DEF DeliverStep, Closed, Broken, Ended, Channel!Next, Channel!Deliver
<1>8. CASE CloseStep
  <2>1. snt' = snt /\ rcv' = rcv
    BY <1>3, <1>4, <1>8 DEF CloseStep
  <2> QED
    BY <1>8, <2>1 DEF CloseStep, Closed, Broken, Ended, Channel!Next, Channel!Close
<1>9. CASE BreakStep
  <2>1. snt' = snt /\ rcv' = rcv
    BY <1>3, <1>4, <1>9 DEF BreakStep
  <2> QED
    BY <1>9, <2>1 DEF BreakStep, Closed, Broken, Ended, Channel!Next, Channel!Break
<1>10. CASE EndStep
  <2>1. snt' = snt /\ rcv' = rcv
    BY <1>3, <1>4, <1>10 DEF EndStep
  <2>2. Highest = accepted => rcv = snt
    BY <1>3, <1>4
  <2> QED
    BY <1>10, <2>1, <2>2 DEF EndStep, Closed, Broken, Ended, Channel!Next, Channel!End
<1>11. CASE UNCHANGED Same
  <2>1. snt' = snt /\ rcv' = rcv
    BY <1>3, <1>4, <1>11 DEF Same
  <2> QED
    BY <1>11, <2>1 DEF Same, Closed, Broken, Ended, Channel!vars
<1> QED
  BY <1>6, <1>7, <1>8, <1>9, <1>10, <1>11 DEF ChannelStep

\* To its peer an fdstream is a reliable, ordered channel that may break: an
\* error of ::write breaks it, and a destroyed stream that never failed has
\* delivered everything.
THEOREM ImplementsChannelHolds == Spec => ImplementsChannel
<1>1. Init => Channel!Init
  <2> SUFFICES ASSUME Init PROVE Channel!Init
    OBVIOUS
  <2>1. [i \in 1 .. accepted |-> i] = <<>>
    BY DEF Init
  <2> QED
    BY <2>1 DEF Init, Channel!Init
<1>2. IInv /\ IInv' /\ [Next]_vars => [Channel!Next]_(Channel!vars)
  BY StepImplements, ChannelImplements
<1> QED
  BY <1>1, <1>2, Invariance, PTL DEF Spec, ImplementsChannel, Channel!Spec

-----------------------------------------------------------------------------
(* The tees.                                                               *)

Marked == Chars \cup {"own"}

TeeTypes ==
  /\ origin.repeats \in BOOLEAN /\ origin.text \in Seq(Chars)
  /\ origin.repeats => origin.text # <<>> /\ cycle = CycleOf(origin.text)
  /\ offset \in Nat /\ copied \in Nat /\ outBad \in BOOLEAN /\ inEnd \in BOOLEAN
  /\ teeBuf \in Seq(Chars) /\ teeGot \in Seq(Chars) /\ told \in Seq(Marked)
  /\ room \in [Sinks -> Nat] /\ sinks \in [Sinks -> Seq(Marked)]

\* What was read of the source is with the program, or in the buffer behind it.
ReadSoFar ==
  /\ Len(teeGot) + Len(teeBuf) = offset
  /\ ~origin.repeats => offset <= Len(origin.text)
  /\ \A n \in 1 .. Len(teeGot) : teeGot[n] = Original(n)
  /\ \A n \in 1 .. Len(teeBuf) : teeBuf[n] = Original(Len(teeGot) + n)

\* The copies are of the source, in order, and none is missing yet unless the
\* stream is bad().
CopiedSoFar ==
  /\ \A n \in Copies(Len(told)) : told[n] = Original(Cardinality(Copies(n)))
  /\ Cardinality(Copies(Len(told))) = copied
  /\ ~outBad => copied = offset

SinksHold == \A k \in Sinks : IsPrefix(sinks[k], told) /\ (~outBad => sinks[k] = told)

TeeInv == TeeTypes /\ ReadSoFar /\ CopiedSoFar /\ SinksHold

LEMMA TeeSizes ==
  /\ TeeBuf \in Nat \ {0} /\ "own" \notin Chars /\ MaxRoom \in Nat
  /\ \A text \in Patterns : text \in Seq(Chars) /\ text # <<>>
  /\ \A text \in Endings : text \in Seq(Chars)
BY TeeAssumption

LEMMA Split ==
  ASSUME NEW x \in Nat, NEW w \in Nat \ {0}
  PROVE  x \div w \in Nat /\ (x % w) \in 0 .. w - 1 /\ x = (x \div w) * w + (x % w)
OBVIOUS

LEMMA Unsplit ==
  ASSUME NEW w \in Nat \ {0}, NEW q \in Nat, NEW r \in 0 .. w - 1
  PROVE  (q * w + r) % w = r
OBVIOUS

\* A buffer of whole patterns starts over where the pattern does.
LEMMA Around ==
  ASSUME NEW w \in Nat \ {0}, NEW q \in Nat \ {0}, NEW n \in Nat
  PROVE  q * w \in Nat \ {0} /\ (n % (q * w)) % w = n % w
<1>1. PICK x \in Nat \ {0} : x = q * w
  OBVIOUS
<1>2. PICK d \in Nat, r \in 0 .. x - 1 : d = n \div x /\ r = n % x /\ n = d * x + r
  BY Split
<1>3. PICK e \in Nat, s \in 0 .. w - 1 : e = r \div w /\ s = r % w /\ r = e * w + s
  <2>1. r \in Nat
    BY <1>2
  <2> QED
    BY <2>1, Split
<1>4. PICK y \in Nat : y = d * q
  OBVIOUS
<1>5. d * x = y * w
  BY <1>1, <1>4
<1>6. n = (y + e) * w + s /\ y + e \in Nat
  <2>1. (y + e) * w = y * w + e * w
    OBVIOUS
  <2> QED
    BY <1>2, <1>3, <1>5, <2>1
<1>7. n % w = s
  <2>1. PICK z \in Nat : z = y + e
    BY <1>6
  <2>2. (z * w + s) % w = s
    BY Unsplit
  <2> QED
    BY <1>6, <2>1, <2>2, Zenon
<1> QED
  BY <1>1, <1>2, <1>3, <1>7, Zenon

\* The repeatstream and the other sources give their characters in order.
LEMMA SourceRight ==
  ASSUME TeeTypes, NEW n \in Nat, origin.repeats \/ n < Len(origin.text)
  PROVE  SourceAt(n) = Original(n + 1) /\ SourceAt(n) \in Chars
<1>1. PICK t \in Seq(Chars) : t = origin.text
  BY DEF TeeTypes
<1>2. CASE ~origin.repeats
  <2>1. SourceAt(n) = t[n + 1] /\ Original(n + 1) = t[n + 1]
    BY <1>1, <1>2 DEF SourceAt, Original
  <2>2. n + 1 \in 1 .. Len(t)
    BY <1>1, <1>2, LenProperties
  <2> QED
    BY <2>1, <2>2, ElementOfSeq
<1>3. CASE origin.repeats
  <2>1. PICK w \in Nat \ {0} : w = Len(t)
    <3>1. t # <<>> /\ Len(t) \in Nat
      BY <1>1, <1>3, LenProperties DEF TeeTypes
    <3> QED
      BY <3>1, EmptySeq
  <2>2. PICK q \in Nat \ {0} :
          q * w = IF w > TeeBuf THEN w ELSE (TeeBuf \div w) * w
    <3>1. CASE w > TeeBuf
      <4>1. 1 * w = w
        OBVIOUS
      <4> QED
        BY <3>1, <4>1
    <3>2. CASE ~(w > TeeBuf)
      <4>1. PICK e \in Nat, s \in 0 .. w - 1 : e = TeeBuf \div w /\ TeeBuf = e * w + s
        <5>1. TeeBuf \in Nat
          BY TeeSizes
        <5> QED
          BY <5>1, Split
      <4>2. e # 0
        BY <3>2, <4>1, TeeSizes
      <4> QED
        BY <3>2, <4>1, <4>2, Zenon
    <3> QED
      BY <3>1, <3>2
  <2>3. PICK x \in Nat \ {0} : x = q * w
    BY Around
  <2>4. cycle = [j \in 1 .. x |-> t[((j - 1) % w) + 1]]
    <3>1. cycle = CycleOf(t)
      BY <1>1, <1>3, Zenon DEF TeeTypes
    <3> QED
      BY <2>1, <2>2, <2>3, <3>1, Zenon DEF CycleOf
  <2>5. Len(cycle) = x
    BY <2>4
  <2>6. PICK j \in 1 .. x : j = (n % x) + 1 /\ j - 1 = n % x
    <3>1. (n % x) \in 0 .. x - 1
      BY Split
    <3> QED
      BY <3>1
  <2>7. SourceAt(n) = t[((j - 1) % w) + 1]
    <3>1. SourceAt(n) = cycle[j]
      BY <1>3, <2>5, <2>6, Zenon DEF SourceAt
    <3>2. cycle[j] = t[((j - 1) % w) + 1]
      BY <2>4
    <3> QED
      BY <3>1, <3>2
  <2>8. (j - 1) % w = n % w
    <3>1. (n % x) % w = n % w
      BY <2>3, Around
    <3> QED
      BY <2>6, <3>1, Zenon
  <2>9. Original(n + 1) = t[(n % w) + 1]
    <3>1. (n + 1) - 1 = n
      OBVIOUS
    <3> QED
      BY <1>1, <1>3, <2>1, <3>1, Zenon DEF Original
  <2>10. t[(n % w) + 1] \in Chars
    <3>1. (n % w) + 1 \in 1 .. w
      <4>1. (n % w) \in 0 .. w - 1
        BY Split
      <4> QED
        BY <4>1
    <3> QED
      BY <2>1, <3>1, ElementOfSeq
  <2> QED
    BY <2>7, <2>8, <2>9, <2>10, Zenon
<1> QED
  BY <1>2, <1>3 DEF TeeTypes

LEMMA LeastOfTwo ==
  ASSUME NEW a \in Nat, NEW b \in Nat
  PROVE  Min({a, b}) \in Nat /\ Min({a, b}) <= a /\ Min({a, b}) <= b
         /\ (Min({a, b}) = a \/ Min({a, b}) = b)
<1>1. \E x \in {a, b} : \A y \in {a, b} : x <= y
  <2>1. CASE a <= b
    BY <2>1
  <2>2. CASE ~(a <= b)
    BY <2>2
  <2> QED
    BY <2>1, <2>2
<1>2. Min({a, b}) \in {a, b} /\ \A y \in {a, b} : Min({a, b}) <= y
  BY <1>1, Zenon DEF Min
<1> QED
  BY <1>2

\* The characters behind what a stream was given.
LEMMA Behind ==
  ASSUME NEW S, NEW s \in Seq(S), NEW t \in Seq(S)
  PROVE  /\ s \o t \in Seq(S) /\ Len(s \o t) = Len(s) + Len(t) /\ Len(s) \in Nat /\ Len(t) \in Nat
         /\ \A n \in 1 .. Len(s) : (s \o t)[n] = s[n]
         /\ \A n \in 1 .. Len(t) : (s \o t)[Len(s) + n] = t[n]
<1>1. s \o t \in Seq(S) /\ Len(s \o t) = Len(s) + Len(t) /\ Len(s) \in Nat /\ Len(t) \in Nat
  BY ConcatProperties, LenProperties
<1>2. ASSUME NEW n \in 1 .. Len(s) PROVE (s \o t)[n] = s[n]
  <2>1. n \in 1 .. Len(s) + Len(t) /\ n <= Len(s)
    BY <1>1
  <2> QED
    BY <2>1, ConcatProperties
<1>3. ASSUME NEW n \in 1 .. Len(t) PROVE (s \o t)[Len(s) + n] = t[n]
  <2>1. Len(s) + n \in 1 .. Len(s) + Len(t) /\ ~(Len(s) + n <= Len(s)) /\ Len(s) + n - Len(s) = n
    BY <1>1
  <2> QED
    BY <2>1, ConcatProperties
<1> QED
  BY <1>1, <1>2, <1>3

\* A sink that took the front of what the others took is behind them, and not if
\* it took all of it.
LEMMA TookFront ==
  ASSUME NEW S, NEW s \in Seq(S), NEW t \in Seq(S), NEW n \in 0 .. Len(t)
  PROVE  /\ s \o SubSeq(t, 1, n) \in Seq(S) /\ IsPrefix(s \o SubSeq(t, 1, n), s \o t)
         /\ n = Len(t) => s \o SubSeq(t, 1, n) = s \o t
<1>0. Len(s) \in Nat /\ Len(t) \in Nat
  BY LenProperties
<1>1. PICK u : u = SubSeq(t, 1, n)
  OBVIOUS
<1>2. u \in Seq(S) /\ Len(u) = n /\ \A m \in 1 .. n : u[m] = t[m]
  BY <1>0, <1>1
<1>3. /\ s \o u \in Seq(S) /\ Len(s \o u) = Len(s) + n
      /\ \A m \in 1 .. Len(s) : (s \o u)[m] = s[m]
      /\ \A m \in 1 .. n : (s \o u)[Len(s) + m] = u[m]
  <2>1. s \o u \in Seq(S) /\ Len(s \o u) = Len(s) + Len(u)
    BY <1>2, Behind
  <2>2. \A m \in 1 .. Len(s) : (s \o u)[m] = s[m]
    BY <1>2, Behind
  <2>3. \A m \in 1 .. Len(u) : (s \o u)[Len(s) + m] = u[m]
    BY <1>2, Behind
  <2> QED
    BY <1>2, <2>1, <2>2, <2>3, Zenon
<1>4. /\ s \o t \in Seq(S) /\ Len(s \o t) = Len(s) + Len(t)
      /\ \A m \in 1 .. Len(s) : (s \o t)[m] = s[m]
      /\ \A m \in 1 .. Len(t) : (s \o t)[Len(s) + m] = t[m]
  <2>1. s \o t \in Seq(S) /\ Len(s \o t) = Len(s) + Len(t)
    BY Behind
  <2>2. \A m \in 1 .. Len(s) : (s \o t)[m] = s[m]
    BY Behind
  <2>3. \A m \in 1 .. Len(t) : (s \o t)[Len(s) + m] = t[m]
    BY Behind
  <2> QED
    BY <2>1, <2>2, <2>3
<1>5. ASSUME NEW m \in 1 .. Len(s) + n PROVE (s \o u)[m] = (s \o t)[m]
  <2>1. CASE m <= Len(s)
    <3>1. m \in 1 .. Len(s)
      BY <1>0, <2>1
    <3> QED
      BY <1>3, <1>4, <3>1, Zenon
  <2>2. CASE ~(m <= Len(s))
    <3>1. PICK j \in 1 .. n : m = Len(s) + j
      <4>1. m - Len(s) \in 1 .. n /\ m = Len(s) + (m - Len(s))
        BY <1>0, <2>2
      <4> QED
        BY <4>1
    <3>2. j \in 1 .. Len(t)
      BY <1>0
    <3> QED
      BY <1>2, <1>3, <1>4, <3>1, <3>2, Zenon
  <2> QED
    BY <2>1, <2>2
<1>6. PICK a, b : a = s \o u /\ b = s \o t
  OBVIOUS
<1>7. a \in Seq(S) /\ b \in Seq(S) /\ Len(a) <= Len(b) /\ \A m \in 1 .. Len(a) : a[m] = b[m]
  <2>1. Len(s) + n <= Len(s) + Len(t)
    BY <1>0
  <2> QED
    BY <1>3, <1>4, <1>5, <1>6, <2>1, Zenon
<1>8. IsPrefix(a, b)
  BY <1>7 DEF IsPrefix
<1>9. ASSUME n = Len(t) PROVE a = b
  <2>1. Len(a) = Len(b)
    BY <1>3, <1>4, <1>6, <1>9, Zenon
  <2> QED
    BY <1>7, <2>1, SeqEqual
<1> QED
  BY <1>1, <1>3, <1>6, <1>8, <1>9, Zenon

\* write() and put(): every sink holds the front of what the stream was given.
LEMMA TellFacts ==
  ASSUME TeeTypes, SinksHold, NEW chars \in Seq(Marked), Tell(chars)
  PROVE  /\ room' \in [Sinks -> Nat] /\ sinks' \in [Sinks -> Seq(Marked)]
         /\ told' \in Seq(Marked) /\ outBad' \in BOOLEAN /\ SinksHold'
         /\ outBad => outBad' /\ told' = told
         /\ ~outBad => told' = told \o chars
<1>1. /\ room \in [Sinks -> Nat] /\ sinks \in [Sinks -> Seq(Marked)]
      /\ told \in Seq(Marked) /\ outBad \in BOOLEAN
  BY DEF TeeTypes
<1>2. CASE outBad
  <2>1. room' = room /\ sinks' = sinks /\ told' = told /\ outBad' = outBad
    BY <1>2 DEF Tell
  <2>2. SinksHold'
    BY <2>1, Zenon DEF SinksHold, IsPrefix
  <2> QED
    BY <1>1, <1>2, <2>1, <2>2, Zenon
<1>3. CASE ~outBad
  <2> DEFINE took(k) == Min({room[k], Len(chars)})
  <2>1. ASSUME NEW k \in Sinks
        PROVE  /\ took(k) \in 0 .. Len(chars) /\ room[k] - took(k) \in Nat
               /\ took(k) < Len(chars) \/ took(k) = Len(chars)
    <3>1. PICK a \in Nat, b \in Nat : a = room[k] /\ b = Len(chars)
      BY <1>1, LenProperties
    <3>2. PICK m \in Nat : m = Min({a, b}) /\ m <= a /\ m <= b
      BY LeastOfTwo
    <3>3. took(k) = m
      BY <3>1, <3>2, Zenon
    <3>4. m \in 0 .. b /\ a - m \in Nat /\ (m < b \/ m = b)
      BY <3>2
    <3> QED
      BY <3>1, <3>3, <3>4, Zenon
  <2> HIDE DEF took
  <2>2. /\ sinks' = [k \in Sinks |-> sinks[k] \o SubSeq(chars, 1, took(k))]
        /\ room' = [k \in Sinks |-> room[k] - took(k)]
        /\ told' = told \o chars
        /\ outBad' = (\E k \in Sinks : took(k) < Len(chars))
    BY <1>3, Zenon DEF Tell, took
  <2>3. ASSUME NEW k \in Sinks
        PROVE  /\ sinks[k] \o SubSeq(chars, 1, took(k)) \in Seq(Marked)
               /\ IsPrefix(sinks[k] \o SubSeq(chars, 1, took(k)), told \o chars)
               /\ took(k) = Len(chars) => sinks[k] \o SubSeq(chars, 1, took(k)) = told \o chars
    <3>1. sinks[k] = told
      BY <1>3, Zenon DEF SinksHold
    <3>2. PICK n \in 0 .. Len(chars) : n = took(k)
      BY <2>1
    <3>3. PICK s \in Seq(Marked) : s = told
      BY <1>1
    <3>4. /\ s \o SubSeq(chars, 1, n) \in Seq(Marked) /\ IsPrefix(s \o SubSeq(chars, 1, n), s \o chars)
          /\ n = Len(chars) => s \o SubSeq(chars, 1, n) = s \o chars
      BY TookFront
    <3> QED
      BY <3>1, <3>2, <3>3, <3>4, Zenon
  <2>4. room' \in [Sinks -> Nat]
    BY <2>1, <2>2
  <2>5. sinks' \in [Sinks -> Seq(Marked)]
    BY <2>2, <2>3
  <2>6. told' \in Seq(Marked)
    BY <1>1, <2>2, ConcatProperties
  <2>7. outBad' \in BOOLEAN
    BY <2>2
  <2>8. SinksHold'
    <3>1. ASSUME NEW k \in Sinks PROVE IsPrefix(sinks[k], told)'
      <4>1. sinks'[k] = sinks[k] \o SubSeq(chars, 1, took(k))
        BY <2>2
      <4>2. PICK a, b : a = sinks'[k] /\ b = told'
        OBVIOUS
      <4>3. IsPrefix(a, b)
        BY <2>2, <2>3, <4>1, <4>2, Zenon
      <4> QED
        BY <4>2, <4>3, Zenon DEF IsPrefix
    <3>2. ASSUME NEW k \in Sinks, ~outBad' PROVE sinks'[k] = told'
      <4>1. sinks'[k] = sinks[k] \o SubSeq(chars, 1, took(k))
        BY <2>2
      <4>2. took(k) = Len(chars)
        BY <2>1, <2>2, <3>2, Zenon
      <4> QED
        BY <2>2, <2>3, <4>1, <4>2, Zenon
    <3> QED
      BY <3>1, <3>2, Zenon DEF SinksHold
  <2> QED
    BY <1>3, <2>2, <2>4, <2>5, <2>6, <2>7, <2>8, Zenon
<1> QED
  BY <1>1, <1>2, <1>3

-----------------------------------------------------------------------------
(* Counting the copies.                                                    *)

\* Copies() of any sequence.
Marks(t, n) == {m \in 1 .. n : t[m] # "own"}

LEMMA MarksFinite ==
  ASSUME NEW t, NEW n \in Nat
  PROVE  IsFiniteSet(Marks(t, n)) /\ Cardinality(Marks(t, n)) \in Nat
<1>1. IsFiniteSet(1 .. n)
  BY FS_Interval
<1>2. Marks(t, n) \subseteq 1 .. n
  BY DEF Marks
<1>3. IsFiniteSet(Marks(t, n))
  BY <1>1, <1>2, FS_Subset
<1> QED
  BY <1>3, FS_CardinalityType

\* Behind what the stream was given come characters of the source: each is a
\* copy more.
LEMMA MarksGrow ==
  ASSUME NEW t \in Seq(Marked), NEW s \in Seq(Chars)
  PROVE  /\ \A n \in 0 .. Len(t) : Marks(t \o s, n) = Marks(t, n)
         /\ \A n \in 0 .. Len(s) :
              Cardinality(Marks(t \o s, Len(t) + n)) = Cardinality(Marks(t, Len(t))) + n
<1>1. t \in Seq(Marked) /\ s \in Seq(Marked)
  <2>1. Chars \subseteq Marked
    BY DEF Marked
  <2> QED
    BY <2>1
<1>2. PICK u : u = t \o s
  OBVIOUS
<1>3. PICK l \in Nat, k \in Nat : l = Len(t) /\ k = Len(s)
  BY LenProperties
<1>4. /\ \A m \in 1 .. l : u[m] = t[m]
      /\ \A m \in 1 .. k : u[l + m] = s[m]
  <2>1. \A m \in 1 .. Len(t) : (t \o s)[m] = t[m]
    BY <1>1, Behind
  <2>2. \A m \in 1 .. Len(s) : (t \o s)[Len(t) + m] = s[m]
    BY <1>1, Behind
  <2> QED
    BY <1>2, <1>3, <2>1, <2>2, Zenon
<1>5. ASSUME NEW n \in 0 .. l PROVE Marks(u, n) = Marks(t, n)
  <2>1. \A m \in 1 .. n : m \in 1 .. l
    BY <1>3
  <2> QED
    BY <1>4, <2>1, Zenon DEF Marks
<1>6. ASSUME NEW n \in 0 .. k
      PROVE  Cardinality(Marks(u, l + n)) = Cardinality(Marks(t, l)) + n
  <2>1. \A m \in 1 .. k : s[m] # "own"
    <3>1. ASSUME NEW m \in 1 .. k PROVE s[m] # "own"
      <4>1. s[m] \in Chars
        BY <1>3, ElementOfSeq
      <4> QED
        BY <4>1, TeeSizes
    <3> QED
      BY <3>1
  <2>2. Marks(u, l + n) = Marks(t, l) \cup (l + 1 .. l + n)
    <3>1. ASSUME NEW m \in Marks(u, l + n) PROVE m \in Marks(t, l) \cup (l + 1 .. l + n)
      <4>1. m \in 1 .. l + n /\ u[m] # "own"
        BY DEF Marks
      <4>2. m \in 1 .. l \/ m \in l + 1 .. l + n
        BY <1>3, <4>1
      <4>3. m \in 1 .. l => m \in Marks(t, l)
        BY <1>4, <4>1 DEF Marks
      <4> QED
        BY <4>2, <4>3
    <3>2. ASSUME NEW m \in Marks(t, l) PROVE m \in Marks(u, l + n)
      <4>1. m \in 1 .. l /\ t[m] # "own"
        BY DEF Marks
      <4>2. m \in 1 .. l + n
        BY <1>3, <4>1
      <4> QED
        BY <1>4, <4>1, <4>2 DEF Marks
    <3>3. ASSUME NEW m \in l + 1 .. l + n PROVE m \in Marks(u, l + n)
      <4>1. m \in 1 .. l + n /\ m - l \in 1 .. k /\ l + (m - l) = m
        BY <1>3
      <4>2. u[m] # "own"
        BY <1>4, <2>1, <4>1
      <4> QED
        BY <4>1, <4>2 DEF Marks
    <3> QED
      BY <3>1, <3>2, <3>3
  <2>3. Marks(t, l) \cap (l + 1 .. l + n) = {}
    BY <1>3 DEF Marks
  <2>4. IsFiniteSet(l + 1 .. l + n) /\ Cardinality(l + 1 .. l + n) = n
    <3>1. l + 1 \in Int /\ l + n \in Int /\ (IF l + 1 > l + n THEN 0 ELSE ((l + n) - (l + 1)) + 1) = n
      BY <1>3
    <3> QED
      BY <3>1, FS_Interval
  <2>5. IsFiniteSet(Marks(t, l)) /\ Cardinality(Marks(t, l)) \in Nat
    BY <1>3, MarksFinite
  <2>6. PICK a, b : a = Marks(t, l) /\ b = l + 1 .. l + n
    OBVIOUS
  <2>7. /\ IsFiniteSet(a) /\ IsFiniteSet(b) /\ Cardinality(a) \in Nat
        /\ Cardinality(b) = n /\ a \cap b = {} /\ Marks(u, l + n) = a \cup b
    BY <2>2, <2>3, <2>4, <2>5, <2>6, Zenon
  <2>8. Cardinality(a \cup b) = Cardinality(a) + Cardinality(b) - Cardinality(a \cap b)
    BY <2>7, FS_Union
  <2>9. Cardinality(a \cap b) = 0 /\ n \in Nat
    <3>1. n \in Nat
      BY <1>3
    <3>2. Cardinality(a \cap b) = 0
      BY <2>7, FS_EmptySet, Zenon
    <3> QED
      BY <3>1, <3>2
  <2>10. Cardinality(a \cup b) = Cardinality(a) + n
    BY <2>7, <2>8, <2>9
  <2> QED
    BY <2>6, <2>7, <2>10, Zenon
<1>7. \A n \in 0 .. Len(t) : Marks(t \o s, n) = Marks(t, n)
  BY <1>2, <1>3, <1>5, Zenon
<1>8. \A n \in 0 .. Len(s) :
        Cardinality(Marks(t \o s, Len(t) + n)) = Cardinality(Marks(t, Len(t))) + n
  BY <1>2, <1>3, <1>6, Zenon
<1> QED
  BY <1>7, <1>8

\* A character of the program's own is no copy.
LEMMA OwnIsNoCopy ==
  ASSUME NEW t \in Seq(Marked)
  PROVE  /\ <<"own">> \in Seq(Marked) /\ Len(t \o <<"own">>) = Len(t) + 1
         /\ \A n \in 0 .. Len(t) : Marks(t \o <<"own">>, n) = Marks(t, n)
         /\ Marks(t \o <<"own">>, Len(t) + 1) = Marks(t, Len(t))
<1>1. PICK u, s : u = t \o s /\ s = <<"own">>
  OBVIOUS
<1>2. PICK l \in Nat : l = Len(t)
  BY LenProperties
<1>3. s \in Seq(Marked) /\ Len(s) = 1 /\ s[1] = "own"
  BY <1>1 DEF Marked
<1>4. Len(u) = l + 1 /\ (\A m \in 1 .. l : u[m] = t[m]) /\ u[l + 1] = "own"
  <2>0. s \in Seq(Marked)
    BY <1>3
  <2>1. Len(t \o s) = Len(t) + Len(s)
    BY <2>0, Behind
  <2>2. \A m \in 1 .. Len(t) : (t \o s)[m] = t[m]
    BY <2>0, Behind
  <2>3. \A m \in 1 .. Len(s) : (t \o s)[Len(t) + m] = s[m]
    BY <2>0, Behind
  <2>4. 1 \in 1 .. Len(s)
    BY <1>3
  <2> QED
    BY <1>1, <1>2, <1>3, <2>1, <2>2, <2>3, <2>4, Zenon
<1>5. ASSUME NEW n \in 0 .. l PROVE Marks(u, n) = Marks(t, n)
  <2>1. \A m \in 1 .. n : m \in 1 .. l
    BY <1>2
  <2> QED
    BY <1>4, <2>1, Zenon DEF Marks
<1>6. Marks(u, l + 1) = Marks(t, l)
  <2>1. \A m : m \in 1 .. l + 1 <=> m \in 1 .. l \/ m = l + 1
    BY <1>2
  <2> QED
    BY <1>4, <2>1, Zenon DEF Marks
<1> QED
  BY <1>1, <1>2, <1>3, <1>4, <1>5, <1>6, Zenon

-----------------------------------------------------------------------------
(* The steps of the tees.                                                  *)

LEMMA OriginalSame == ASSUME origin' = origin, NEW n PROVE Original(n)' = Original(n)
BY Zenon DEF Original

LEMMA TeeInitInv == TeeInit => TeeInv
<1> SUFFICES ASSUME TeeInit PROVE TeeInv
  OBVIOUS
<1>1. /\ offset = 0 /\ teeBuf = <<>> /\ teeGot = <<>>
      /\ told = <<>> /\ copied = 0 /\ outBad = FALSE /\ inEnd = FALSE
      /\ room \in [Sinks -> 0 .. MaxRoom] /\ sinks = [k \in Sinks |-> <<>>]
  BY DEF TeeInit
<1>2. /\ origin.repeats \in BOOLEAN /\ origin.text \in Seq(Chars)
      /\ origin.repeats => origin.text # <<>> /\ cycle = CycleOf(origin.text)
  <2>1. CASE origin \in [repeats : {TRUE}, text : Patterns]
    <3>1. origin.repeats = TRUE /\ origin.text \in Patterns
      BY <2>1
    <3>2. cycle = CycleOf(origin.text)
      BY <3>1, Zenon DEF TeeInit
    <3> QED
      BY <3>1, <3>2, TeeSizes, Zenon
  <2>2. CASE origin \in [repeats : {FALSE}, text : Endings]
    <3>1. origin.repeats = FALSE /\ origin.text \in Endings
      BY <2>2
    <3> QED
      BY <3>1, TeeSizes, Zenon
  <2> QED
    BY <2>1, <2>2 DEF TeeInit
<1>3. TeeTypes
  <2>1. offset \in Nat /\ copied \in Nat /\ teeBuf \in Seq(Chars) /\ teeGot \in Seq(Chars) /\ told \in Seq(Marked)
    BY <1>1
  <2>2. room \in [Sinks -> Nat] /\ sinks \in [Sinks -> Seq(Marked)]
    BY <1>1, TeeSizes
  <2>3. outBad \in BOOLEAN /\ inEnd \in BOOLEAN
    BY <1>1, Zenon
  <2> QED
    BY <1>2, <2>1, <2>2, <2>3, Zenon DEF TeeTypes
<1>4. ReadSoFar
  <2>1. Len(teeGot) = 0 /\ Len(teeBuf) = 0 /\ Len(origin.text) \in Nat
    BY <1>1, <1>2, LenProperties
  <2> QED
    BY <1>1, <2>1 DEF ReadSoFar
<1>5. CopiedSoFar
  <2>1. Copies(0) = {} /\ Len(told) = 0
    BY <1>1 DEF Copies
  <2>2. Cardinality({}) = 0
    BY FS_EmptySet
  <2>3. copied = 0 /\ offset = 0
    BY <1>1
  <2> QED
    BY <2>1, <2>2, <2>3, Zenon DEF CopiedSoFar
<1>6. SinksHold
  <2>1. ASSUME NEW k \in Sinks PROVE sinks[k] = told
    BY <1>1
  <2>2. IsPrefix(<<>>, <<>>)
    BY DEF IsPrefix
  <2> QED
    BY <1>1, <2>1, <2>2, Zenon DEF SinksHold
<1> QED
  BY <1>3, <1>4, <1>5, <1>6 DEF TeeInv

LEMMA CopiesKept ==
  ASSUME CopiedSoFar, origin' = origin, told' = told, copied' = copied, ~outBad' => copied' = offset'
  PROVE  CopiedSoFar'
<1>1. \A n : Original(n)' = Original(n)
  BY OriginalSame
<1>2. \A n : Copies(n)' = Copies(n)
  BY Zenon DEF Copies
<1>3. Cardinality(Copies(Len(told)))' = copied'
  BY <1>2, Zenon DEF CopiedSoFar
<1>4. ASSUME NEW n \in Copies(Len(told))' PROVE (told[n] = Original(Cardinality(Copies(n))))'
  <2>1. n \in Copies(Len(told))
    BY <1>2, Zenon
  <2>2. told[n] = Original(Cardinality(Copies(n)))
    BY <2>1, Zenon DEF CopiedSoFar
  <2>3. PICK x : x = Cardinality(Copies(n))
    OBVIOUS
  <2>4. Cardinality(Copies(n))' = x
    BY <1>2, <2>3, Zenon
  <2> QED
    BY <1>1, <2>2, <2>3, <2>4, Zenon DEF Original
<1> QED
  BY <1>3, <1>4, Zenon DEF CopiedSoFar

\* Nothing is read and nothing is told.
LEMMA QuietKeeps ==
  ASSUME TeeInv, UNCHANGED <<origin, cycle, offset, teeBuf, teeGot, sinks, told, copied, inEnd>>,
         room' \in [Sinks -> Nat], outBad' \in BOOLEAN, outBad => outBad'
  PROVE  TeeInv'
<1>1. /\ origin' = origin /\ cycle' = cycle /\ offset' = offset /\ teeBuf' = teeBuf /\ teeGot' = teeGot
      /\ sinks' = sinks /\ told' = told /\ copied' = copied /\ inEnd' = inEnd
  OBVIOUS
<1>2. TeeTypes'
  <2>1. TeeTypes /\ CycleOf(origin.text)' = CycleOf(origin.text)
    BY <1>1 DEF TeeInv, CycleOf
  <2> QED
    BY <1>1, <2>1, Zenon DEF TeeTypes
<1>3. \A n : Original(n)' = Original(n)
  BY <1>1, OriginalSame
<1>4. ReadSoFar'
  BY <1>1, <1>3, Zenon DEF TeeInv, ReadSoFar
<1>6. CopiedSoFar'
  <2>1. CopiedSoFar
    BY DEF TeeInv
  <2>2. ~outBad' => copied' = offset'
    BY <1>1, <2>1, Zenon DEF CopiedSoFar
  <2> QED
    BY <1>1, <2>1, <2>2, CopiesKept
<1>7. SinksHold'
  BY <1>1, Zenon DEF TeeInv, SinksHold, IsPrefix
<1> QED
  BY <1>2, <1>4, <1>6, <1>7 DEF TeeInv

LEMMA SyncKeeps == ASSUME TeeInv, NEW failing, TeeSync(failing) PROVE TeeInv'
<1>1. /\ UNCHANGED <<origin, cycle, offset, teeBuf, teeGot, sinks, told, copied, inEnd>> /\ room' = room
      /\ outBad' = (outBad \/ failing # {})
  BY DEF TeeSync
<1>2. room' \in [Sinks -> Nat]
  BY <1>1 DEF TeeInv, TeeTypes
<1>3. outBad' \in BOOLEAN /\ (outBad => outBad')
  BY <1>1
<1> QED
  BY <1>1, <1>2, <1>3, QuietKeeps

LEMMA RoomKeeps == ASSUME TeeInv, NEW k \in Sinks, MakeRoom(k) PROVE TeeInv'
<1>1. /\ UNCHANGED <<origin, cycle, offset, teeBuf, teeGot, sinks, told, copied, inEnd>>
      /\ outBad' = outBad /\ room' = [room EXCEPT ![k] = @ + 1]
  BY DEF MakeRoom
<1>2. room' \in [Sinks -> Nat]
  BY <1>1 DEF TeeInv, TeeTypes
<1>3. outBad' \in BOOLEAN /\ (outBad => outBad')
  BY <1>1, Zenon DEF TeeInv, TeeTypes
<1> QED
  BY <1>1, <1>2, <1>3, QuietKeeps

\* What the stream is given behind t is copied in order, if it is of the source,
\* and not at all if it is the program's own.
LEMMA CopiesMore ==
  ASSUME TeeTypes, CopiedSoFar, ~outBad, origin' = origin, NEW chars \in Seq(Marked),
         told' = told \o chars, NEW l \in Nat, l = Len(chars), NEW c \in Nat,
         NEW b \in BOOLEAN,
         IF b THEN /\ chars \in Seq(Chars) /\ c = l
                   /\ \A m \in 1 .. l : chars[m] = Original(offset + m)
              ELSE chars = <<"own">> /\ c = 0,
         copied' = copied + c, offset' = offset + c
  PROVE  CopiedSoFar'
<1>0. ASSUME ~b PROVE chars = <<"own">> /\ c = 0 /\ l = 1
  <2>1. chars = <<"own">> /\ c = 0
    BY <1>0, Zenon
  <2>2. l = 1
    BY <2>1
  <2> QED
    BY <2>1, <2>2
<1>1. PICK t \in Seq(Marked), k \in Nat, p \in Nat : t = told /\ k = Len(t) /\ p = offset
  BY LenProperties DEF TeeTypes
<1>2. PICK u : u = t \o chars
  OBVIOUS
<1>3. told' = u /\ Len(u) = k + l
  <2>1. Len(t \o chars) = Len(t) + Len(chars)
    BY Behind
  <2> QED
    BY <1>1, <1>2, <2>1, Zenon
<1>4. copied = p /\ Cardinality(Marks(t, k)) = p
  BY <1>1, Zenon DEF CopiedSoFar, Copies, Marks
<1>5. \A n : Copies(n)' = Marks(u, n) /\ Copies(n) = Marks(t, n)
  BY <1>1, <1>3, Zenon DEF Copies, Marks
<1>6. ASSUME NEW n \in 1 .. k, u[n] # "own"
      PROVE  u[n] = Original(Cardinality(Marks(u, n)))
  <2>1. u[n] = t[n]
    <3>1. \A m \in 1 .. Len(t) : (t \o chars)[m] = t[m]
      BY Behind
    <3> QED
      BY <1>1, <1>2, <3>1, Zenon
  <2>2. n \in Copies(Len(told))
    BY <1>1, <1>6, <2>1, Zenon DEF Copies
  <2>3. t[n] = Original(Cardinality(Marks(t, n)))
    BY <1>1, <1>5, <2>2, Zenon DEF CopiedSoFar
  <2>4. n \in 0 .. k
    BY <1>1
  <2>5. Marks(u, n) = Marks(t, n)
    <3>1. CASE b
      BY <1>1, <1>2, <2>4, <3>1, MarksGrow, Zenon
    <3>2. CASE ~b
      BY <1>1, <1>2, <2>4, <3>2, OwnIsNoCopy, Zenon
    <3> QED
      BY <3>1, <3>2
  <2> QED
    BY <2>1, <2>3, <2>5, Zenon
<1>7. Cardinality(Marks(u, k + l)) = p + c
  <2>1. CASE b
    <3>1. l \in 0 .. l
      OBVIOUS
    <3>2. Cardinality(Marks(t \o chars, Len(t) + l)) = Cardinality(Marks(t, Len(t))) + l
      BY <2>1, <3>1, MarksGrow, Zenon
    <3> QED
      BY <1>1, <1>2, <1>4, <2>1, <3>2, Zenon
  <2>2. CASE ~b
    <3>1. l = 1 /\ p + 0 = p
      <4>1. p + 0 = p
        OBVIOUS
      <4> QED
        BY <1>0, <2>2, <4>1, Zenon
    <3>2. Marks(t \o <<"own">>, Len(t) + 1) = Marks(t, Len(t))
      BY OwnIsNoCopy
    <3> QED
      BY <1>1, <1>2, <1>4, <2>2, <3>1, <3>2, Zenon
  <2> QED
    BY <2>1, <2>2
<1>8. ASSUME NEW m \in 1 .. l, u[k + m] # "own"
      PROVE  u[k + m] = Original(Cardinality(Marks(u, k + m)))
  <2>1. u[k + m] = chars[m]
    <3>1. \A j \in 1 .. Len(chars) : (t \o chars)[Len(t) + j] = chars[j]
      BY Behind
    <3> QED
      BY <1>1, <1>2, <3>1, Zenon
  <2>2. b
    <3>1. ASSUME ~b PROVE chars[m] = "own"
      <4>1. chars = <<"own">> /\ l = 1
        BY <1>0, <3>1
      <4>2. m = 1
        BY <4>1
      <4> QED
        BY <4>1, <4>2
    <3> QED
      BY <1>8, <2>1, <3>1, Zenon
  <2>3. Cardinality(Marks(u, k + m)) = p + m
    <3>1. m \in 0 .. l
      OBVIOUS
    <3>2. Cardinality(Marks(t \o chars, Len(t) + m)) = Cardinality(Marks(t, Len(t))) + m
      BY <2>2, <3>1, MarksGrow, Zenon
    <3> QED
      BY <1>1, <1>2, <1>4, <3>2, Zenon
  <2> QED
    BY <1>1, <2>1, <2>2, <2>3, Zenon
<1>9. ASSUME NEW n \in Marks(u, k + l) PROVE u[n] = Original(Cardinality(Marks(u, n)))
  <2>1. n \in 1 .. k + l /\ u[n] # "own"
    BY DEF Marks
  <2>2. CASE n <= k
    <3>1. n \in 1 .. k
      BY <2>1, <2>2
    <3> QED
      BY <1>6, <2>1, <3>1
  <2>3. CASE ~(n <= k)
    <3>1. PICK m \in 1 .. l : n = k + m
      <4>1. n - k \in 1 .. l /\ n = k + (n - k)
        BY <1>1, <2>1, <2>3
      <4> QED
        BY <4>1
    <3> QED
      BY <1>8, <2>1, <3>1, Zenon
  <2> QED
    BY <2>1, <2>2, <2>3
<1>10. \A n : Original(n)' = Original(n)
  BY OriginalSame
<1>11. Cardinality(Copies(Len(told)))' = copied'
  BY <1>3, <1>4, <1>5, <1>7, Zenon
<1>12. ASSUME NEW n \in Copies(Len(told))' PROVE (told[n] = Original(Cardinality(Copies(n))))'
  <2>1. n \in Marks(u, k + l)
    BY <1>3, <1>5, Zenon
  <2>2. PICK x : x = Cardinality(Marks(u, n))
    OBVIOUS
  <2>3. u[n] = Original(x)
    BY <1>9, <2>1, <2>2, Zenon
  <2>4. Cardinality(Copies(n))' = x
    BY <1>5, <2>2, Zenon
  <2> QED
    BY <1>3, <1>10, <2>3, <2>4, Zenon DEF Original
<1>13. copied' = offset'
  BY <1>1, <1>4
<1> QED
  BY <1>11, <1>12, <1>13, Zenon DEF CopiedSoFar

LEMMA PutKeeps == ASSUME TeeInv, TeePut("own") PROVE TeeInv'
<1>1. /\ Tell(<<"own">>)
      /\ origin' = origin /\ cycle' = cycle /\ offset' = offset /\ teeBuf' = teeBuf
      /\ teeGot' = teeGot /\ copied' = copied /\ inEnd' = inEnd
  BY DEF TeePut
<1>2. PICK s \in Seq(Marked) : s = <<"own">> /\ Tell(s)
  <2>1. <<"own">> \in Seq(Marked)
    BY DEF Marked
  <2> QED
    BY <1>1, <2>1, Zenon
<1>3. TeeTypes /\ CopiedSoFar /\ ReadSoFar /\ SinksHold
  BY DEF TeeInv
<1>4. /\ room' \in [Sinks -> Nat] /\ sinks' \in [Sinks -> Seq(Marked)]
      /\ told' \in Seq(Marked) /\ outBad' \in BOOLEAN /\ SinksHold'
      /\ outBad => outBad' /\ told' = told
      /\ ~outBad => told' = told \o s
  BY <1>2, <1>3, TellFacts
<1>5. TeeTypes'
  <2>1. CycleOf(origin.text)' = CycleOf(origin.text)
    BY <1>1 DEF CycleOf
  <2> QED
    BY <1>1, <1>3, <1>4, <2>1, Zenon DEF TeeTypes
<1>6. ReadSoFar'
  <2>1. \A n : Original(n)' = Original(n)
    BY <1>1, OriginalSame
  <2> QED
    BY <1>1, <1>3, <2>1, Zenon DEF ReadSoFar
<1>7. CopiedSoFar'
  <2>1. CASE outBad
    BY <1>1, <1>3, <1>4, <2>1, CopiesKept
  <2>2. CASE ~outBad
    <3>1. 1 \in Nat /\ 0 \in Nat /\ 1 = Len(s) /\ FALSE \in BOOLEAN
      BY <1>2
    <3>2. copied' = copied + 0 /\ offset' = offset + 0
      BY <1>1, <1>3 DEF TeeTypes
    <3>3. told' = told \o s /\ (IF FALSE THEN /\ s \in Seq(Chars) /\ 0 = 1
                                             /\ \A m \in 1 .. 1 : s[m] = Original(offset + m)
                                        ELSE s = <<"own">> /\ 0 = 0)
      BY <1>2, <1>4, <2>2
    <3> QED
      BY <1>1, <1>3, <2>2, <3>1, <3>2, <3>3, CopiesMore
  <2> QED
    BY <2>1, <2>2
<1> QED
  BY <1>4, <1>5, <1>6, <1>7 DEF TeeInv

LEMMA GetKeeps == ASSUME TeeInv, TeeGet PROVE TeeInv'
<1>1. /\ origin' = origin /\ cycle' = cycle /\ offset' = offset
      /\ room' = room /\ sinks' = sinks /\ told' = told /\ copied' = copied
      /\ outBad' = outBad /\ inEnd' = inEnd
      /\ teeBuf # <<>> /\ teeGot' = Append(teeGot, Head(teeBuf)) /\ teeBuf' = Tail(teeBuf)
  BY DEF TeeGet
<1>2. TeeTypes /\ CopiedSoFar /\ ReadSoFar /\ SinksHold
  BY DEF TeeInv
<1>3. PICK got \in Seq(Chars), buf \in Seq(Chars), g \in Nat, h \in Nat \ {0} :
        got = teeGot /\ buf = teeBuf /\ g = Len(got) /\ h = Len(buf)
  <2>1. teeGot \in Seq(Chars) /\ teeBuf \in Seq(Chars)
    BY <1>2, Zenon DEF TeeTypes
  <2>2. Len(teeGot) \in Nat /\ Len(teeBuf) \in Nat /\ Len(teeBuf) # 0
    BY <1>1, <2>1, LenProperties, EmptySeq
  <2> QED
    BY <2>1, <2>2
<1>4. PICK got1, buf1 : got1 = Append(got, Head(buf)) /\ buf1 = Tail(buf)
  OBVIOUS
<1>5. /\ got1 \in Seq(Chars) /\ Len(got1) = g + 1 /\ got1[g + 1] = buf[1]
      /\ \A n \in 1 .. g : got1[n] = got[n]
  <2>1. Head(buf) = buf[1] /\ buf[1] \in Chars
    <3>1. 1 \in 1 .. Len(buf)
      BY <1>3
    <3> QED
      BY <3>1, ElementOfSeq
  <2> QED
    BY <1>3, <1>4, <2>1, AppendProperties
<1>6. /\ buf1 \in Seq(Chars) /\ Len(buf1) = h - 1
      /\ \A n \in 1 .. h - 1 : buf1[n] = buf[n + 1]
  <2>1. buf # <<>>
    BY <1>1, <1>3, Zenon
  <2> QED
    BY <1>3, <1>4, <2>1, HeadTailProperties
<1>7. TeeTypes'
  <2>1. CycleOf(origin.text)' = CycleOf(origin.text)
    BY <1>1 DEF CycleOf
  <2>2. teeGot' \in Seq(Chars) /\ teeBuf' \in Seq(Chars)
    BY <1>1, <1>3, <1>4, <1>5, <1>6, Zenon
  <2> QED
    BY <1>1, <1>2, <2>1, <2>2, Zenon DEF TeeTypes
<1>8. \A n : Original(n)' = Original(n)
  BY <1>1, OriginalSame
<1>9. /\ g + h = offset
      /\ \A n \in 1 .. g : got[n] = Original(n)
      /\ \A n \in 1 .. h : buf[n] = Original(g + n)
  BY <1>2, <1>3, Zenon DEF ReadSoFar
<1>10. ASSUME NEW n \in 1 .. g + 1 PROVE got1[n] = Original(n)
  <2>1. CASE n = g + 1
    <3>1. 1 \in 1 .. h
      OBVIOUS
    <3> QED
      BY <1>5, <1>9, <2>1, <3>1, Zenon
  <2>2. CASE n # g + 1
    <3>1. n \in 1 .. g
      BY <2>2
    <3> QED
      BY <1>5, <1>9, <3>1, Zenon
  <2> QED
    BY <2>1, <2>2
<1>11. ASSUME NEW n \in 1 .. h - 1 PROVE buf1[n] = Original((g + 1) + n)
  <2>1. n + 1 \in 1 .. h /\ g + (n + 1) = (g + 1) + n
    OBVIOUS
  <2> QED
    BY <1>6, <1>9, <2>1, Zenon
<1>12. ReadSoFar'
  <2>1. (g + 1) + (h - 1) = g + h
    OBVIOUS
  <2>2. teeGot' = got1 /\ teeBuf' = buf1
    BY <1>1, <1>3, <1>4, Zenon
  <2>3. Len(teeGot)' = g + 1 /\ Len(teeBuf)' = h - 1
    BY <1>5, <1>6, <2>2, Zenon
  <2>4. Len(teeGot)' + Len(teeBuf)' = offset'
    BY <1>1, <1>9, <2>1, <2>3, Zenon
  <2>5. ~origin'.repeats => offset' <= Len(origin'.text)
    BY <1>1, <1>2, Zenon DEF ReadSoFar
  <2>6. \A n \in 1 .. Len(teeGot)' : teeGot'[n] = Original(n)'
    BY <1>8, <1>10, <2>2, <2>3, Zenon
  <2>7. \A n \in 1 .. Len(teeBuf)' : teeBuf'[n] = Original(Len(teeGot) + n)'
    <3>1. ASSUME NEW n \in 1 .. Len(teeBuf)' PROVE teeBuf'[n] = Original(Len(teeGot) + n)'
      <4>1. n \in 1 .. h - 1
        BY <2>3, Zenon
      <4>2. teeBuf'[n] = Original((g + 1) + n)
        BY <1>11, <2>2, <4>1, Zenon
      <4>3. (Len(teeGot) + n)' = (g + 1) + n
        BY <2>3, Zenon
      <4> QED
        BY <1>1, <4>2, <4>3, Zenon DEF Original
    <3> QED
      BY <3>1
  <2> QED
    BY <2>4, <2>5, <2>6, <2>7, Zenon DEF ReadSoFar
<1>13. CopiedSoFar'
  <2>1. ~outBad' => copied' = offset'
    BY <1>1, <1>2, Zenon DEF CopiedSoFar
  <2> QED
    BY <1>1, <1>2, <2>1, CopiesKept
<1>14. SinksHold'
  BY <1>1, <1>2, Zenon DEF SinksHold, IsPrefix
<1> QED
  BY <1>7, <1>12, <1>13, <1>14 DEF TeeInv

LEMMA SeqOfFcn ==
  ASSUME NEW S, NEW n \in Nat, NEW f \in [1 .. n -> S]
  PROVE  f \in Seq(S) /\ Len(f) = n
OBVIOUS

\* How much underflow() reads, and what.
LEMMA SizeRead ==
  ASSUME TeeTypes, ReadSoFar
  PROVE  LET size == IF inEnd THEN 0
                     ELSE IF origin.repeats THEN TeeBuf ELSE Min({TeeBuf, Len(origin.text) - offset})
         IN  size \in Nat /\ (~origin.repeats => offset + size <= Len(origin.text))
<1>1. PICK p \in Nat, w \in Nat, l \in Nat :
        p = offset /\ w = TeeBuf /\ l = Len(origin.text) /\ (~origin.repeats => p <= l)
  BY TeeSizes, LenProperties DEF TeeTypes, ReadSoFar
<1>2. ASSUME ~origin.repeats
      PROVE  Min({TeeBuf, Len(origin.text) - offset}) \in Nat
             /\ offset + Min({TeeBuf, Len(origin.text) - offset}) <= Len(origin.text)
  <2>1. PICK r \in Nat : r = l - p
    BY <1>1, <1>2
  <2>2. PICK m \in Nat : m = Min({w, r}) /\ m <= r
    BY LeastOfTwo
  <2>3. p + m <= l
    BY <1>1, <1>2, <2>1, <2>2
  <2> QED
    BY <1>1, <2>1, <2>2, <2>3, Zenon
<1>3. ~origin.repeats => offset + 0 <= Len(origin.text)
  BY <1>1
<1>4. 0 \in Nat /\ TeeBuf \in Nat
  BY TeeSizes
<1> QED
  BY <1>2, <1>3, <1>4, Zenon

LEMMA UnderflowKeeps == ASSUME TeeInv, TeeUnderflow PROVE TeeInv'
<1> DEFINE size == IF inEnd THEN 0
                   ELSE IF origin.repeats THEN TeeBuf ELSE Min({TeeBuf, Len(origin.text) - offset})
           chars == [n \in 1 .. size |-> SourceAt(offset + n - 1)]
<1>1. /\ teeBuf = <<>> /\ inEnd' = (size < TeeBuf)
      /\ offset' = offset + size /\ teeBuf' = chars
      /\ size = 0 => /\ room' = room /\ sinks' = sinks /\ told' = told /\ outBad' = outBad
      /\ size # 0 => Tell(chars)
      /\ copied' = copied + (Len(told') - Len(told))
      /\ origin' = origin /\ cycle' = cycle /\ teeGot' = teeGot
  <2>1. IF size = 0 THEN UNCHANGED <<room, sinks, told, outBad>> ELSE Tell(chars)
    BY Zenon DEF TeeUnderflow
  <2>2. size = 0 => UNCHANGED <<room, sinks, told, outBad>>
    BY <2>1, Zenon
  <2>3. size # 0 => Tell(chars)
    BY <2>1, Zenon
  <2>4. UNCHANGED <<room, sinks, told, outBad>>
          <=> room' = room /\ sinks' = sinks /\ told' = told /\ outBad' = outBad
    OBVIOUS
  <2>5. /\ teeBuf = <<>> /\ inEnd' = (size < TeeBuf)
        /\ offset' = offset + size /\ teeBuf' = chars
        /\ copied' = copied + (Len(told') - Len(told))
    BY Zenon DEF TeeUnderflow
  <2>6. origin' = origin /\ cycle' = cycle /\ teeGot' = teeGot
    BY DEF TeeUnderflow
  <2> QED
    BY <2>2, <2>3, <2>4, <2>5, <2>6, Zenon
<1>2. TeeTypes /\ CopiedSoFar /\ ReadSoFar /\ SinksHold
  BY DEF TeeInv
<1>3. PICK l \in Nat : l = size /\ (~origin.repeats => offset + l <= Len(origin.text))
  BY <1>2, SizeRead
<1>4. PICK p \in Nat, g \in Nat, c \in Nat : p = offset /\ g = Len(teeGot) /\ c = copied
  BY <1>2, LenProperties DEF TeeTypes
<1>5. PICK s : s = chars
  OBVIOUS
<1>6. \A n \in 1 .. l : s[n] = SourceAt(p + n - 1)
  <2>1. s = [n \in 1 .. l |-> SourceAt(p + n - 1)]
    BY <1>3, <1>4, <1>5, Zenon
  <2> QED
    BY <2>1
<1>7. \A n \in 1 .. l : SourceAt(p + n - 1) = Original(p + n) /\ SourceAt(p + n - 1) \in Chars
  <2>1. ASSUME NEW n \in 1 .. l
        PROVE  SourceAt(p + n - 1) = Original(p + n) /\ SourceAt(p + n - 1) \in Chars
    <3>1. PICK m \in Nat : m = p + n - 1 /\ m + 1 = p + n
      OBVIOUS
    <3>2. origin.repeats \/ m < Len(origin.text)
      <4>1. ASSUME ~origin.repeats PROVE m < Len(origin.text)
        <5>1. PICK e \in Nat : e = Len(origin.text) /\ p + l <= e
          BY <1>2, <1>3, <1>4, <4>1, LenProperties DEF TeeTypes
        <5> QED
          BY <3>1, <5>1
      <4> QED
        BY <4>1
    <3>3. SourceAt(m) = Original(m + 1) /\ SourceAt(m) \in Chars
      BY <1>2, <3>2, SourceRight
    <3> QED
      BY <3>1, <3>3, Zenon
  <2> QED
    BY <2>1
<1>8. s \in Seq(Chars) /\ Len(s) = l
  <2>1. s = [n \in 1 .. l |-> SourceAt(p + n - 1)]
    BY <1>3, <1>4, <1>5, Zenon
  <2>2. s \in [1 .. l -> Chars]
    BY <1>7, <2>1, Zenon
  <2> QED
    BY <2>2, SeqOfFcn
<1>9. s \in Seq(Marked)
  <2>1. Chars \subseteq Marked
    BY DEF Marked
  <2> QED
    BY <1>8, <2>1
<1>10. offset' = p + l /\ teeBuf' = s /\ (l = 0 => UNCHANGED <<room, sinks, told, outBad>>)
       /\ (l # 0 => Tell(s))
  <2>1. offset' = p + l /\ teeBuf' = s /\ (l # 0 => Tell(s))
    BY <1>1, <1>3, <1>4, <1>5, Zenon
  <2>2. l = 0 => room' = room /\ sinks' = sinks /\ told' = told /\ outBad' = outBad
    BY <1>1, <1>3, Zenon
  <2> QED
    BY <2>1, <2>2
<1>11. inEnd' \in BOOLEAN
  BY <1>1
<1> HIDE DEF size, chars
<1>12. /\ room' \in [Sinks -> Nat] /\ sinks' \in [Sinks -> Seq(Marked)]
       /\ told' \in Seq(Marked) /\ outBad' \in BOOLEAN /\ SinksHold'
       /\ outBad => outBad' /\ told' = told
       /\ ~outBad => told' = told \o s
  <2>1. CASE l = 0
    <3>1. room' = room /\ sinks' = sinks /\ told' = told /\ outBad' = outBad
      BY <1>10, <2>1
    <3>2. SinksHold'
      BY <1>2, <3>1, Zenon DEF SinksHold, IsPrefix
    <3>3. told \o s = told
      <4>1. s = <<>> /\ told \in Seq(Marked)
        BY <1>2, <1>8, <2>1, EmptySeq, Zenon DEF TeeTypes
      <4> QED
        BY <4>1, ConcatEmptySeq
    <3> QED
      BY <1>2, <3>1, <3>2, <3>3, Zenon DEF TeeTypes
  <2>2. CASE l # 0
    <3>1. Tell(s)
      BY <1>10, <2>2
    <3> QED
      BY <1>2, <1>9, <3>1, TellFacts
  <2> QED
    BY <2>1, <2>2
<1>13. copied' = c + (IF outBad THEN 0 ELSE l)
  <2>1. PICK k \in Nat : k = Len(told)
    BY <1>2, LenProperties DEF TeeTypes
  <2>2. CASE outBad
    <3>1. c + (k - k) = c + 0
      OBVIOUS
    <3> QED
      BY <1>1, <1>4, <1>12, <2>1, <2>2, <3>1, Zenon
  <2>3. CASE ~outBad
    <3>1. Len(told') = k + l
      <4>1. told \in Seq(Marked)
        BY <1>2 DEF TeeTypes
      <4>2. PICK t \in Seq(Marked) : t = told
        BY <4>1
      <4>3. Len(t \o s) = Len(t) + Len(s)
        BY <1>9, Behind
      <4> QED
        BY <1>8, <1>12, <2>1, <2>3, <4>2, <4>3, Zenon
    <3>2. c + ((k + l) - k) = c + l
      OBVIOUS
    <3> QED
      BY <1>1, <1>4, <2>1, <2>3, <3>1, <3>2, Zenon
  <2> QED
    BY <2>2, <2>3
<1>14. TeeTypes'
  <2>1. CycleOf(origin.text)' = CycleOf(origin.text)
    BY <1>1 DEF CycleOf
  <2>2. offset' \in Nat
    BY <1>10
  <2>3. copied' \in Nat
    BY <1>13
  <2>4. teeBuf' \in Seq(Chars)
    BY <1>8, <1>10, Zenon
  <2> QED
    BY <1>1, <1>2, <1>11, <1>12, <2>1, <2>2, <2>3, <2>4, Zenon DEF TeeTypes
<1>15. \A n : Original(n)' = Original(n)
  BY <1>1, OriginalSame
<1>16. g = p
  <2>1. Len(teeBuf) = 0
    BY <1>1
  <2>2. Len(teeGot) + Len(teeBuf) = offset
    BY <1>2 DEF ReadSoFar
  <2> QED
    BY <1>4, <2>1, <2>2
<1>17. ReadSoFar'
  <2>1. Len(teeGot)' = g /\ Len(teeBuf)' = l
    BY <1>1, <1>4, <1>8, <1>10, Zenon
  <2>2. Len(teeGot)' + Len(teeBuf)' = offset'
    BY <1>10, <1>16, <2>1, Zenon
  <2>3. ~origin'.repeats => offset' <= Len(origin'.text)
    BY <1>1, <1>3, <1>4, <1>10, Zenon
  <2>4. \A n \in 1 .. Len(teeGot)' : teeGot'[n] = Original(n)'
    BY <1>1, <1>2, <1>15, Zenon DEF ReadSoFar
  <2>5. \A n \in 1 .. Len(teeBuf)' : teeBuf'[n] = Original(Len(teeGot) + n)'
    <3>1. ASSUME NEW n \in 1 .. Len(teeBuf)' PROVE teeBuf'[n] = Original(Len(teeGot) + n)'
      <4>1. n \in 1 .. l
        BY <2>1, Zenon
      <4>2. teeBuf'[n] = Original(p + n)
        BY <1>6, <1>7, <1>10, <4>1, Zenon
      <4>3. (Len(teeGot) + n)' = p + n
        BY <1>16, <2>1, Zenon
      <4> QED
        BY <1>1, <4>2, <4>3, Zenon DEF Original
    <3> QED
      BY <3>1
  <2> QED
    BY <2>2, <2>3, <2>4, <2>5, Zenon DEF ReadSoFar
<1>18. CopiedSoFar'
  <2>1. CASE outBad
    <3>1. copied' = copied
      BY <1>4, <1>13, <2>1
    <3> QED
      BY <1>1, <1>2, <1>12, <2>1, <3>1, CopiesKept
  <2>2. CASE ~outBad
    <3>1. l = Len(s) /\ TRUE \in BOOLEAN
      BY <1>8
    <3>2. copied' = copied + l /\ offset' = offset + l /\ told' = told \o s
      BY <1>4, <1>10, <1>12, <1>13, <2>2, Zenon
    <3>3. \A m \in 1 .. l : s[m] = Original(offset + m)
      BY <1>4, <1>6, <1>7, Zenon
    <3>4. IF TRUE THEN /\ s \in Seq(Chars) /\ l = l
                       /\ \A m \in 1 .. l : s[m] = Original(offset + m)
                  ELSE s = <<"own">> /\ l = 0
      BY <1>8, <3>3, Zenon
    <3> QED
      BY <1>1, <1>2, <1>9, <2>2, <3>1, <3>2, <3>4, CopiesMore
  <2> QED
    BY <2>1, <2>2
<1> QED
  BY <1>12, <1>14, <1>17, <1>18 DEF TeeInv

-----------------------------------------------------------------------------
(* The theorems of the tees.                                               *)

\* Every step of the two streams, of the sinks and of the program keeps what
\* was read, copied and taken.
THEOREM TeeInvariance == TeeSpec => []TeeInv
<1>1. TeeInit => TeeInv
  BY TeeInitInv
<1>2. TeeInv /\ [TeeNext]_teeVars => TeeInv'
  <2> SUFFICES ASSUME TeeInv, [TeeNext]_teeVars PROVE TeeInv'
    OBVIOUS
  <2>1. CASE TeeUnderflow
    BY <2>1, UnderflowKeeps
  <2>2. CASE TeeGet
    BY <2>2, GetKeeps
  <2>3. CASE TeePut("own")
    BY <2>3, PutKeeps
  <2>4. ASSUME NEW failing \in SUBSET Sinks, TeeSync(failing) PROVE TeeInv'
    BY <2>4, SyncKeeps
  <2>5. ASSUME NEW k \in Sinks, MakeRoom(k) PROVE TeeInv'
    BY <2>5, RoomKeeps
  <2>6. CASE UNCHANGED teeVars
    <3>1. /\ UNCHANGED <<origin, cycle, offset, teeBuf, teeGot, sinks, told, copied, inEnd>>
          /\ room' = room /\ outBad' = outBad
      BY <2>6 DEF teeVars
    <3>2. room' \in [Sinks -> Nat] /\ outBad' \in BOOLEAN /\ (outBad => outBad')
      BY <3>1, Zenon DEF TeeInv, TeeTypes
    <3> QED
      BY <3>1, <3>2, QuietKeeps
  <2> QED
    BY <2>1, <2>2, <2>3, <2>4, <2>5, <2>6, Zenon DEF TeeNext
<1> QED
  BY <1>1, <1>2, PTL DEF TeeSpec

\* The program reads the source, nothing it reads is missing in a good copy,
\* and no sink ever has a gap: for any number of sinks, whatever room each has
\* and gets, any size of the buffer and any source.
THEOREM TeeRightHolds == TeeSpec => []TeeRight
<1>1. TeeInv => TeeRight
  <2> SUFFICES ASSUME TeeInv PROVE TeeRight
    OBVIOUS
  <2>1. TeeTypes /\ CopiedSoFar /\ ReadSoFar /\ SinksHold
    BY DEF TeeInv
  <2>2. DOMAIN teeGot = 1 .. Len(teeGot)
    BY <2>1, LenProperties DEF TeeTypes
  <2>3. \A n \in DOMAIN teeGot : teeGot[n] = Original(n)
    BY <2>1, <2>2, Zenon DEF ReadSoFar
  <2>4. ~outBad => copied >= Len(teeGot) + Len(teeBuf)
    BY <2>1 DEF TeeTypes, ReadSoFar, CopiedSoFar
  <2> QED
    BY <2>1, <2>3, <2>4, Zenon DEF TeeRight, CopiedSoFar, SinksHold
<1> QED
  BY <1>1, TeeInvariance, PTL
=============================================================================
