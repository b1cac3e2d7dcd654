------------------------------ MODULE FdStream ------------------------------
(***************************************************************************)
(* yu::stream::fdstream: an iostream over one file descriptor.             *)
(*                                                                         *)
(* The program and the kernel take turns: every ::write and ::read is a    *)
(* step of its own, in which the kernel takes or gives any part of what it *)
(* is asked for, fails, or (a stutter here) is interrupted and retried by  *)
(* NO_INTR.  Bytes are told apart by their position: the n-th byte the     *)
(* program writes is the number n, and so is the n-th byte the peer sends, *)
(* so what is lost, repeated or reordered shows in the numbers.            *)
(***************************************************************************)
EXTENDS Naturals, Sequences, FiniteSets

CONSTANTS WriteBuf,   \* size of write_buffer_ (1024 in the code)
          ReadBuf,    \* size of read_buffer_  (1024 in the code)
          NOut,       \* bound: bytes the program writes
          NIn,        \* bound: bytes the peer sends
          MaxErr      \* bound: errors of ::write or ::read on a live connection

ASSUME FdStreamAssumption ==
  /\ WriteBuf \in Nat \ {0} /\ ReadBuf \in Nat \ {0}
  /\ NOut \in Nat /\ NIn \in Nat /\ MaxErr \in Nat

VARIABLES
  pc,          \* where the stream is: between calls, in a loop, or destroyed
  caller,      \* the function write_all() returns to
  pbuf,        \* the bytes in [pbase(), pptr())
  total_sent,  \* the local of write_all()
  gbuf,        \* the bytes in [gptr(), egptr())
  iostate,     \* the flags of std::ios
  wire,        \* every byte the kernel took for the peer, in order
  inbox,       \* the bytes of the peer the kernel holds
  peer,        \* "open", "shutdown" (sends no more) or "reset" (is gone)
  peerSent,    \* how many bytes the peer has sent
  errs,        \* how many errors the kernel returned on a live connection
  accepted,    \* how many bytes put() took without reporting an error
  received     \* what get() has returned to the program

stream  == <<pc, caller, pbuf, total_sent, gbuf, iostate>>
network == <<wire, inbox, peer, peerSent, errs>>
history == <<accepted, received>>
vars == <<pc, caller, pbuf, total_sent, gbuf, iostate,
          wire, inbox, peer, peerSent, errs, accepted, received>>

Flags == {"eofbit", "failbit", "badbit"}

good == iostate = {}

TypeOK ==
  /\ pc \in {"idle", "write_all", "underflow", "destroyed"}
  /\ caller \in {"overflow", "sync", "dtor"}
  /\ pbuf \in Seq(1 .. NOut) /\ Len(pbuf) <= WriteBuf
  /\ total_sent \in 0 .. Len(pbuf)
  /\ gbuf \in Seq(1 .. NIn) /\ Len(gbuf) <= ReadBuf
  /\ iostate \in SUBSET Flags
  /\ wire \in Seq(1 .. NOut)
  /\ inbox \in Seq(1 .. NIn)
  /\ peer \in {"open", "shutdown", "reset"}
  /\ peerSent \in 0 .. NIn
  /\ errs \in 0 .. MaxErr
  /\ accepted \in 0 .. NOut
  /\ received \in Seq(1 .. NIn)

Init ==
  /\ pc = "idle" /\ caller = "sync"
  /\ pbuf = <<>> /\ total_sent = 0 /\ gbuf = <<>> /\ iostate = {}
  /\ wire = <<>> /\ inbox = <<>> /\ peer = "open" /\ peerSent = 0 /\ errs = 0
  /\ accepted = 0 /\ received = <<>>

-----------------------------------------------------------------------------
(* Writing.                                                                *)

CallWriteAll(f) ==
  /\ pc' = "write_all" /\ caller' = f /\ total_sent' = 0
  /\ UNCHANGED <<pbuf, gbuf, iostate, network, history>>

\* ostream::put(): into the buffer while there is room, else overflow(ch).
Put ==
  /\ pc = "idle" /\ good /\ accepted < NOut
  /\ \/ /\ Len(pbuf) < WriteBuf
        /\ pbuf' = Append(pbuf, accepted + 1)
        /\ accepted' = accepted + 1
        /\ UNCHANGED <<pc, caller, total_sent, gbuf, iostate, network, received>>
     \/ Len(pbuf) = WriteBuf /\ CallWriteAll("overflow")

\* ostream::flush().  Whether it still calls sync() once the stream is not
\* good() depends on the standard library, so it may be called in any state.
Sync == pc = "idle" /\ CallWriteAll("sync")

\* Mutant of Destroy: the destructor does not flush.
DestroyUnflushed ==
  /\ pc = "idle" /\ pc' = "destroyed"
  /\ UNCHANGED <<caller, pbuf, total_sent, gbuf, iostate, network, history>>

Destroy == pc = "idle" /\ CallWriteAll("dtor")

\* Mutant of Write: a short write is taken for a whole one.
WriteShortIsAll(n) ==
  /\ pc = "write_all" /\ peer # "reset"
  /\ total_sent + n <= Len(pbuf)
  /\ wire' = wire \o SubSeq(pbuf, total_sent + 1, total_sent + n)
  /\ total_sent' = Len(pbuf)
  /\ UNCHANGED <<pc, caller, pbuf, gbuf, iostate, inbox, peer, peerSent, errs, history>>

\* One ::write of write_all(): the kernel takes n >= 1 of the bytes left.
Write(n) ==
  /\ pc = "write_all" /\ peer # "reset"
  /\ total_sent + n <= Len(pbuf)
  /\ wire' = wire \o SubSeq(pbuf, total_sent + 1, total_sent + n)
  /\ total_sent' = total_sent + n
  /\ UNCHANGED <<pc, caller, pbuf, gbuf, iostate, inbox, peer, peerSent, errs, history>>

\* What is left of the buffer, and the flags, when write_all() returned ok.
Return(ok) ==
  /\ pc' = IF caller = "dtor" THEN "destroyed" ELSE "idle"
  /\ iostate' = IF ok \/ caller = "dtor" THEN iostate ELSE iostate \cup {"badbit"}
  /\ total_sent' = 0

\* ::write fails: write_all() gives up and leaves pptr() where it was.
WriteFail ==
  /\ pc = "write_all" /\ total_sent < Len(pbuf)
  /\ \/ peer = "reset" /\ errs' = errs
     \/ peer # "reset" /\ errs < MaxErr /\ errs' = errs + 1
  /\ Return(FALSE)
  /\ UNCHANGED <<caller, pbuf, gbuf, wire, inbox, peer, peerSent, history>>

\* Mutants of WriteAllDone: overflow(ch) forgets its character; the loop goes on
\* until more than everything is sent.
WriteAllDoneNoChar ==
  /\ pc = "write_all" /\ total_sent = Len(pbuf)
  /\ pbuf' = <<>>
  /\ accepted' = IF caller = "overflow" THEN accepted + 1 ELSE accepted
  /\ Return(TRUE)
  /\ UNCHANGED <<caller, gbuf, network, received>>

WriteAllDoneNever == pc = "write_all" /\ total_sent = Len(pbuf) /\ UNCHANGED vars

\* write_all() sent the whole buffer; overflow(ch) now stores its character.
WriteAllDone ==
  /\ pc = "write_all" /\ total_sent = Len(pbuf)
  /\ IF caller = "overflow"
     THEN pbuf' = <<accepted + 1>> /\ accepted' = accepted + 1
     ELSE pbuf' = <<>> /\ accepted' = accepted
  /\ Return(TRUE)
  /\ UNCHANGED <<caller, gbuf, network, received>>

-----------------------------------------------------------------------------
(* Reading.                                                                *)

\* istream::get(): from the buffer, else underflow() enters ::read.
Get ==
  /\ pc = "idle" /\ good
  /\ \/ /\ gbuf # <<>>
        /\ received' = Append(received, Head(gbuf))
        /\ gbuf' = Tail(gbuf)
        /\ UNCHANGED <<pc, caller, pbuf, total_sent, iostate, network, accepted>>
     \/ /\ gbuf = <<>>
        /\ pc' = "underflow"
        /\ UNCHANGED <<caller, pbuf, total_sent, gbuf, iostate, network, history>>

\* Mutant of Read: a read of less than the buffer is taken for the end of file.
ReadShortIsEnd(n) ==
  /\ pc = "underflow" /\ n <= Len(inbox) /\ n < ReadBuf
  /\ iostate' = iostate \cup {"eofbit", "failbit"}
  /\ pc' = "idle"
  /\ UNCHANGED <<caller, pbuf, total_sent, gbuf, network, history>>

\* ::read returned n bytes, and get() takes the first of them.
Read(n) ==
  /\ pc = "underflow" /\ n <= Len(inbox) /\ n <= ReadBuf
  /\ received' = Append(received, Head(inbox))
  /\ gbuf' = SubSeq(inbox, 2, n)
  /\ inbox' = SubSeq(inbox, n + 1, Len(inbox))
  /\ pc' = "idle"
  /\ UNCHANGED <<caller, pbuf, total_sent, iostate, wire, peer, peerSent, errs, accepted>>

\* ::read returned 0 or -1: underflow() answers eof to both.
ReadEnd ==
  /\ pc = "underflow"
  /\ \/ peer = "shutdown" /\ inbox = <<>> /\ errs' = errs
     \/ peer = "reset" /\ errs' = errs
     \/ peer # "reset" /\ errs < MaxErr /\ errs' = errs + 1
  /\ iostate' = iostate \cup {"eofbit", "failbit"}
  /\ pc' = "idle"
  /\ UNCHANGED <<caller, pbuf, total_sent, gbuf, wire, inbox, peer, peerSent, history>>

-----------------------------------------------------------------------------
(* The peer and the network.                                               *)

PeerSend ==
  /\ peer = "open" /\ peerSent < NIn
  /\ inbox' = Append(inbox, peerSent + 1)
  /\ peerSent' = peerSent + 1
  /\ UNCHANGED <<stream, wire, peer, errs, history>>

PeerShutdown ==
  /\ peer = "open" /\ peer' = "shutdown"
  /\ UNCHANGED <<stream, wire, inbox, peerSent, errs, history>>

\* The connection is reset (or the descriptor closed under the stream).
PeerReset ==
  /\ peer # "reset" /\ peer' = "reset"
  /\ UNCHANGED <<stream, wire, inbox, peerSent, errs, history>>

-----------------------------------------------------------------------------
\* The steps of a write_all() or underflow() already entered.
WriteAll == WriteFail \/ WriteAllDone \/ \E n \in 1 .. WriteBuf : Write(n)
Underflow == ReadEnd \/ \E n \in 1 .. ReadBuf : Read(n)
Peer == PeerSend \/ PeerShutdown \/ PeerReset

Next == Put \/ Sync \/ Destroy \/ WriteAll \/ Get \/ Underflow \/ Peer

Spec == Init /\ [][Next]_vars

\* A thread inside write_all() keeps running, and the kernel takes at least
\* one byte or fails.  Nothing is assumed of the program or of the peer.
FairSpec == Spec /\ WF_vars(WriteAll)

-----------------------------------------------------------------------------
(* Properties.                                                             *)

Numbered(s) == \A i \in DOMAIN s : s[i] = i

\* Even when ::write fails and a later flush or the destructor starts over,
\* no byte is ever skipped: the wire goes on with the next byte or goes back.
NoGap ==
  /\ wire # <<>> => wire[1] = 1
  /\ \A i \in 1 .. Len(wire) - 1 : wire[i + 1] <= wire[i] + 1

\* A failing ::write can repeat a byte at most once per failure.
RepeatedOncePerError ==
  \A b \in 1 .. NOut : Cardinality({i \in DOMAIN wire : wire[i] = b}) <= errs + 1

\* What write_all() promises when it can fail: at least once, and in order.
OutAtLeastOnce == NoGap /\ RepeatedOncePerError

\* Every byte put() accepted is with the kernel or still in the buffer, and a
\* stream destroyed on a connection that never failed has sent everything.
LastWritten == IF wire = <<>> THEN 0 ELSE wire[Len(wire)]
NothingLost ==
  /\ accepted <= LastWritten + Len(pbuf)
  /\ pc = "destroyed" /\ errs = 0 /\ peer # "reset" => LastWritten = accepted

\* get() returns the peer's bytes in order, none lost between two reads.
ReadInOrder == Numbered(received \o gbuf \o inbox)

\* On a connection that neither failed nor was reset, the end of file the
\* program sees comes after everything the peer sent.
EofAfterEverything ==
  "eofbit" \in iostate /\ errs = 0 /\ peer # "reset" => Len(received) = peerSent

\* What underflow() promises.
InputComplete == ReadInOrder /\ EofAfterEverything

\* write_all() returns: partial writes make progress.
WriteAllReturns == pc = "write_all" ~> pc # "write_all"

\* The output side implements the byte channel.  An error of ::write breaks it:
\* from then on what counts as delivered are the bytes sent at least once.
Highest == LET sent == {0} \cup {wire[i] : i \in DOMAIN wire} IN
           CHOOSE n \in sent : \A m \in sent : m <= n
Channel == INSTANCE ByteChannel WITH
  Bytes  <- 1 .. NOut,
  sent   <- [i \in 1 .. accepted |-> i],
  rcvd   <- IF errs = 0 THEN wire ELSE [i \in 1 .. Highest |-> i],
  closed <- pc = "destroyed" \/ (pc = "write_all" /\ caller = "dtor"),
  broken <- peer = "reset" \/ errs > 0,
  ended  <- pc = "destroyed"
ImplementsChannel == Channel!Spec
=============================================================================
