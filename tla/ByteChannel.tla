---------------------------- MODULE ByteChannel ----------------------------
(***************************************************************************)
(* What every stream of libyu promises to the program behind it: a         *)
(* reliable, ordered channel of bytes that may break.  The writer appends  *)
(* to sent, the channel delivers ever longer prefixes of it, the writer    *)
(* closes once, and the reader is told the end: of everything that was     *)
(* sent, or of a channel that broke on the way.                            *)
(*                                                                         *)
(* FdStream (the output side of fdstreambuf) and ChunkedTransfer (the      *)
(* chunked coding between two peers) implement this specification.         *)
(***************************************************************************)
EXTENDS Naturals, Sequences

CONSTANT Bytes     \* the values a byte can take

VARIABLES sent,    \* what the writer has handed over
          rcvd,    \* what came out at the other end
          closed,  \* the writer has closed its end
          broken,  \* the channel lost the connection
          ended    \* the reader has been told that nothing follows

vars == <<sent, rcvd, closed, broken, ended>>

Init == /\ sent = <<>> /\ rcvd = <<>>
        /\ closed = FALSE /\ broken = FALSE /\ ended = FALSE

\* The writer hands over one byte, or several at once.
Send == /\ ~closed
        /\ \E b \in Bytes : sent' = Append(sent, b)
        /\ UNCHANGED <<rcvd, closed, broken, ended>>

\* Some more of what was sent comes out, in order and with nothing skipped.
Deliver == /\ ~ended
           /\ \E n \in Len(rcvd) + 1 .. Len(sent) : rcvd' = SubSeq(sent, 1, n)
           /\ UNCHANGED <<sent, closed, broken, ended>>

Close == ~closed /\ closed' = TRUE /\ UNCHANGED <<sent, rcvd, broken, ended>>

\* The channel breaks, which may be how the end is told.
Break == /\ ~broken /\ broken' = TRUE
         /\ ended' \in {ended, TRUE}
         /\ UNCHANGED <<sent, rcvd, closed>>

\* The end is announced after the last byte, or because the channel broke.
End == /\ ~ended
       /\ broken \/ (closed /\ rcvd = sent)
       /\ ended' = TRUE
       /\ UNCHANGED <<sent, rcvd, closed, broken>>

Next == Send \/ Deliver \/ Close \/ Break \/ End

Spec == Init /\ [][Next]_vars
=============================================================================
