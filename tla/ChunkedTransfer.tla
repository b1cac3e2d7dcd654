--------------------------- MODULE ChunkedTransfer ---------------------------
(***************************************************************************)
(* The chunked coding of yu/http/common.hpp: a chunked_ostream at one end  *)
(* of a connection, a chunked_istream at the other, and two programs that  *)
(* put, flush, finish, destroy and get in any order they like.             *)
(*                                                                         *)
(* What travels is a sequence of tokens: a chunk-size line <<"size", n>>,  *)
(* a byte of chunk data <<"data", b>>, a line end <<"crlf", 0>>, and       *)
(* <<"next", 0>>, the first byte of whatever the writer sends behind the   *)
(* message on the same connection.  The n-th byte of the body is the       *)
(* number n.  The connection may be cut at any byte: the reader then sees  *)
(* end of file behind a prefix of what was under way.                      *)
(***************************************************************************)
EXTENDS Naturals, Sequences

CONSTANTS WBuf,   \* size of chunked_ostreambuf's buffer_ (1024 in the code)
          RBuf,   \* size of chunked_istreambuf's buffer_ (1024 in the code)
          NBytes  \* bound: bytes of the body

ASSUME ChunkedAssumption ==
  WBuf \in Nat \ {0} /\ RBuf \in Nat \ {0} /\ NBytes \in Nat

VARIABLES
  accepted,   \* bytes the chunked_ostream took
  wbuf,       \* the bytes in [pbase(), pptr()) of the chunked_ostreambuf
  wstate,     \* "good", or "bad" once an insertion failed
  finished,   \* finished_
  alive,      \* the chunked_ostream has not been destroyed
  obuf,       \* tokens out_ has buffered but not flushed
  outGood,    \* out_.good()
  link,       \* tokens under way to the reader
  cut,        \* the connection is gone
  rpc,        \* where underflow() waits for in_, "idle" outside of it
  unread,     \* unread_size_
  eof,        \* eof_
  rbuf,       \* the bytes in [gptr(), egptr()) of the chunked_istreambuf
  fetched,    \* bytes in_.read() put into buffer_ before setg() shows them
  rend,       \* "no", "eof" or "bad": what the reading program was told
  received    \* what it read

writer  == <<accepted, wbuf, wstate, finished, alive, obuf, outGood>>
network == <<link, cut>>
reader  == <<rpc, unread, eof, rbuf, fetched, rend, received>>
vars == <<accepted, wbuf, wstate, finished, alive, obuf, outGood, link, cut,
          rpc, unread, eof, rbuf, fetched, rend, received>>

SizeLine(n) == <<"size", n>>
CrLf == <<"crlf", 0>>
NextMessage == <<"next", 0>>
Data(s) == [i \in DOMAIN s |-> <<"data", s[i]>>]
Payload(toks) == [i \in DOMAIN toks |-> toks[i][2]]

Token == ({"size", "data"} \X (0 .. NBytes)) \cup {CrLf, NextMessage}

TypeOK ==
  /\ accepted \in 0 .. NBytes
  /\ wbuf \in Seq(1 .. NBytes) /\ Len(wbuf) <= WBuf
  /\ wstate \in {"good", "bad"}
  /\ finished \in BOOLEAN /\ alive \in BOOLEAN /\ outGood \in BOOLEAN
  /\ obuf \in Seq(Token) /\ link \in Seq(Token)
  /\ cut \in BOOLEAN
  /\ rpc \in {"idle", "size", "trailer", "data", "crlf"}
  /\ unread \in 0 .. NBytes
  /\ eof \in BOOLEAN
  /\ rbuf \in Seq(1 .. NBytes) /\ fetched \in Seq(1 .. NBytes)
  /\ Len(rbuf) <= RBuf /\ Len(fetched) <= RBuf
  /\ rend \in {"no", "eof", "bad"}
  /\ received \in Seq(1 .. NBytes)

Init ==
  /\ accepted = 0 /\ wbuf = <<>> /\ wstate = "good"
  /\ finished = FALSE /\ alive = TRUE /\ obuf = <<>> /\ outGood = TRUE
  /\ link = <<>> /\ cut = FALSE
  /\ rpc = "idle" /\ unread = 0 /\ eof = FALSE /\ rbuf = <<>> /\ fetched = <<>>
  /\ rend = "no" /\ received = <<>>

-----------------------------------------------------------------------------
(* The writer.                                                             *)

\* out_ << toks; out_.flush().  Once the connection is cut a flush may go
\* unnoticed or fail; a stream that failed drops what is inserted.
Emit(toks) ==
  IF ~outGood THEN UNCHANGED <<obuf, link, outGood>>
  ELSE \/ /\ link' = IF cut THEN link ELSE link \o obuf \o toks
          /\ obuf' = <<>>
          /\ UNCHANGED outGood
       \/ /\ cut
          /\ outGood' = FALSE
          /\ obuf' = obuf \o toks
          /\ UNCHANGED link

Chunk(s) == <<SizeLine(Len(s))>> \o Data(s) \o <<CrLf>>
LastChunk == <<SizeLine(0), CrLf>>

\* send_all(): no chunk for an empty buffer; the buffer is kept on failure.
SendAll == IF wbuf = <<>> THEN UNCHANGED <<obuf, link, outGood>> ELSE Emit(Chunk(wbuf))
SendAllOk == wbuf = <<>> \/ outGood'

\* ostream::put(): into the buffer, or overflow(ch) when it is full.  The guard
\* on finished is the program's part: put() behind finish() is not checked for,
\* and would send a chunk behind the last-chunk.
Put ==
  /\ alive /\ ~finished /\ wstate = "good" /\ accepted < NBytes
  /\ IF Len(wbuf) < WBuf
     THEN /\ wbuf' = Append(wbuf, accepted + 1)
          /\ accepted' = accepted + 1
          /\ UNCHANGED <<wstate, obuf, outGood, link>>
     ELSE /\ SendAll
          /\ IF SendAllOk
             THEN /\ wbuf' = <<accepted + 1>>
                  /\ accepted' = accepted + 1
                  /\ UNCHANGED wstate
             ELSE wstate' = "bad" /\ UNCHANGED <<wbuf, accepted>>
  /\ UNCHANGED <<finished, alive, cut, reader>>

\* ostream::flush()
Sync ==
  /\ alive
  /\ SendAll
  /\ IF SendAllOk THEN wbuf' = <<>> /\ UNCHANGED wstate
                  ELSE wstate' = "bad" /\ UNCHANGED wbuf
  /\ UNCHANGED <<accepted, finished, alive, cut, reader>>

\* Mutant of FinishBody: no last-chunk.
FinishNoLastChunk ==
  IF finished \/ ~outGood THEN UNCHANGED <<wbuf, finished, obuf, outGood, link>>
  ELSE /\ SendAll
       /\ finished' = outGood'
       /\ wbuf' = IF outGood' THEN <<>> ELSE wbuf

\* finish(): the rest of the buffer and then the last-chunk, once.  When the
\* connection goes away between the two, the buffer may be empty already.
FinishBody ==
  IF finished \/ ~outGood THEN UNCHANGED <<wbuf, finished, obuf, outGood, link>>
  ELSE /\ Emit((IF wbuf = <<>> THEN <<>> ELSE Chunk(wbuf)) \o LastChunk)
       /\ finished' = outGood'
       /\ wbuf' \in IF outGood' THEN {<<>>} ELSE {wbuf, <<>>}

Finish ==
  /\ alive
  /\ FinishBody
  /\ UNCHANGED <<accepted, wstate, alive, cut, reader>>

Destroy ==
  /\ alive /\ alive' = FALSE
  /\ FinishBody
  /\ UNCHANGED <<accepted, wstate, cut, reader>>

\* The writing program goes on with the next message on the connection.
SendNext ==
  /\ ~alive /\ outGood /\ ~cut
  /\ \A i \in DOMAIN link : link[i] # NextMessage
  /\ Emit(<<NextMessage>>)
  /\ UNCHANGED <<accepted, wbuf, wstate, finished, alive, cut, reader>>

-----------------------------------------------------------------------------
(* The connection.                                                         *)

\* Some suffix of the tokens under way is lost.  A chunk-size line can break
\* in two, leaving all but its last hexadecimal digit (none, for a size < 16).
Cut ==
  /\ ~cut /\ cut' = TRUE
  /\ \E n \in 0 .. Len(link) :
       \/ link' = SubSeq(link, 1, n)
       \/ /\ n > 0 /\ link[n][1] = "size"
          /\ link' = [SubSeq(link, 1, n) EXCEPT ![n] = SizeLine(@[2] \div 16)]
  /\ UNCHANGED <<writer, reader>>

-----------------------------------------------------------------------------
(* The reader: istream::get() and the steps of underflow().                *)

AtEnd == cut /\ link = <<>>

\* setg() shows the bytes s, and get() takes the first of them.
Show(s) ==
  IF s = <<>> THEN rend' = "eof" /\ UNCHANGED <<rbuf, received>>
  ELSE rbuf' = Tail(s) /\ received' = Append(received, Head(s)) /\ UNCHANGED rend

Get ==
  /\ rpc = "idle" /\ rend = "no"
  /\ IF rbuf # <<>>
     THEN Show(rbuf) /\ UNCHANGED rpc
     ELSE /\ rpc' = IF unread = 0 THEN "size" ELSE "data"
          /\ UNCHANGED <<rbuf, received, rend>>
  /\ UNCHANGED <<writer, network, unread, eof, fetched>>

\* getline() of a chunk-size line.  Nothing to parse counts as the last chunk.
ReadSize ==
  /\ rpc = "size"
  /\ \/ link # <<>> /\ link' = Tail(link) /\ unread' = Head(link)[2]
     \/ AtEnd /\ unread' = 0 /\ UNCHANGED link
  /\ IF unread' = 0
     THEN rpc' = "trailer" /\ eof' = TRUE
     ELSE rpc' = "data" /\ UNCHANGED eof
  /\ UNCHANGED <<writer, cut, rbuf, fetched, rend, received>>

\* Mutant of ReadTrailer: the empty line is left on the connection.
ReadNoTrailer ==
  /\ rpc = "trailer" /\ rpc' = "idle" /\ rend' = "eof"
  /\ UNCHANGED <<writer, network, unread, eof, rbuf, fetched, received>>

\* The trailer: up to an empty line or the end of file.
ReadTrailer ==
  /\ rpc = "trailer"
  /\ \/ link # <<>> /\ link' = Tail(link)
     \/ AtEnd /\ UNCHANGED link
  /\ rpc' = "idle"
  /\ rend' = "eof"
  /\ UNCHANGED <<writer, cut, unread, eof, rbuf, fetched, received>>

\* in_.read(): waits for all it asked for, gets less only at end of file.
Available == IF \A i \in DOMAIN link : link[i][1] = "data" THEN Len(link)
             ELSE (CHOOSE i \in DOMAIN link :
                     /\ link[i][1] # "data"
                     /\ \A j \in 1 .. i - 1 : link[j][1] = "data") - 1
\* Mutant of ReadData: gcount() is not asked how much of it there was.
ReadDataUncounted ==
  LET want == IF unread <= RBuf THEN unread ELSE RBuf
      got  == IF Available < want THEN Available ELSE want
      s    == Payload(SubSeq(link, 1, got)) \o [i \in 1 .. want - got |-> 0] IN
  /\ rpc = "data"
  /\ got = want \/ cut
  /\ link' = SubSeq(link, got + 1, Len(link))
  /\ unread' = unread - want
  /\ IF unread' = 0
     THEN rpc' = "crlf" /\ fetched' = s /\ UNCHANGED <<rbuf, rend, received>>
     ELSE rpc' = "idle" /\ Show(s) /\ UNCHANGED fetched
  /\ UNCHANGED <<writer, cut, eof>>

ReadData ==
  LET want == IF unread <= RBuf THEN unread ELSE RBuf
      got  == IF Available < want THEN Available ELSE want
      s    == Payload(SubSeq(link, 1, got)) IN
  /\ rpc = "data"
  /\ got = want \/ cut
  /\ link' = SubSeq(link, got + 1, Len(link))
  /\ unread' = unread - got
  /\ IF unread' = 0
     THEN rpc' = "crlf" /\ fetched' = s /\ UNCHANGED <<rbuf, rend, received>>
     ELSE rpc' = "idle" /\ Show(s) /\ UNCHANGED fetched
  /\ UNCHANGED <<writer, cut, eof>>

\* Mutant of ReadCrLf: what was read is not shown.
ReadCrLfOnly ==
  /\ rpc = "crlf" /\ link # <<>> /\ Head(link) = CrLf
  /\ link' = Tail(link)
  /\ rpc' = "idle" /\ fetched' = <<>>
  /\ UNCHANGED <<writer, cut, unread, eof, rbuf, rend, received>>

\* The line end behind a chunk; without it underflow() throws before setg(),
\* and istream turns the exception into badbit.
ReadCrLf ==
  /\ rpc = "crlf"
  /\ \/ /\ link # <<>> /\ Head(link) = CrLf
        /\ link' = Tail(link)
        /\ Show(fetched)
     \/ /\ AtEnd \/ (link # <<>> /\ Head(link) # CrLf)
        /\ rend' = "bad"
        /\ UNCHANGED <<link, rbuf, received>>
  /\ rpc' = "idle"
  /\ fetched' = <<>>
  /\ UNCHANGED <<writer, cut, unread, eof>>

-----------------------------------------------------------------------------
Write == Put \/ Sync \/ Finish \/ Destroy \/ SendNext
Read == Get \/ ReadSize \/ ReadTrailer \/ ReadData \/ ReadCrLf

Next == Write \/ Cut \/ Read

Spec == Init /\ [][Next]_vars

\* The reading program reads on until it is told the end.
FairSpec == Spec /\ WF_vars(Read)

-----------------------------------------------------------------------------
(* Properties.                                                             *)

\* The reader never sees a byte that is not the next byte of the body: not a
\* chunk-size line, not a line end, not a byte twice, wherever the connection
\* is cut and however the chunks and the two buffers divide the body.
BodyOnly ==
  /\ Len(received) <= accepted
  /\ \A i \in DOMAIN (received \o rbuf) : (received \o rbuf)[i] = i

\* The reader takes the message and not one byte more: what follows it on the
\* connection is still there for the next message.  Nor is it told of an error
\* while the connection holds.
StopsAtTheEnd ==
  /\ ~cut => rend # "bad"
  /\ ~cut /\ rend = "eof" => link \in {<<>>, <<NextMessage>>}
  /\ rpc \in {"size", "trailer"} /\ link # <<>> => Head(link) # NextMessage

\* Every message that was finished or destroyed is read to its end.
MessageEnds == ~alive ~> rend # "no"

\* The two coders and the connection implement the byte channel.
Channel == INSTANCE ByteChannel WITH
  Bytes  <- 1 .. NBytes,
  sent   <- [i \in 1 .. accepted |-> i],
  rcvd   <- received,
  closed <- finished \/ ~alive,
  broken <- cut,
  ended  <- rend # "no"
ImplementsChannel == Channel!Spec
=============================================================================
