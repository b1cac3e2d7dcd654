---------------------------- MODULE HttpExchange ----------------------------
(***************************************************************************)
(* yu::http::ClientStream and yu::http::ServerStream at the two ends of    *)
(* one connection: requests and responses one after the other, their heads *)
(* and their bodies, over two byte queues of the kernel that can be full.  *)
(*                                                                         *)
(* What travels is a sequence of tokens: <<"head", n, f, m>>, the first    *)
(* line and the header of message n with the framing f and length m they   *)
(* announce; <<"data", n, i, 0>>, the i-th piece of its body; and          *)
(* <<"last", n, 0, 0>>, the last-chunk.  The bytes of a chunk are the      *)
(* subject of ChunkedTransfer, those of a write of FdStream.               *)
(***************************************************************************)
EXTENDS Naturals, Sequences

CONSTANTS MaxExchanges,  \* bound: requests on the connection
          MaxPieces,     \* bound: pieces of a body
          Cap            \* tokens the kernel holds for each direction

ASSUME HttpExchangeAssumption ==
  MaxExchanges \in Nat /\ MaxPieces \in Nat /\ Cap \in Nat \ {0}

Ends == {"client", "server"}
Other(e) == CHOOSE o \in Ends : o # e

VARIABLES
  foreign,    \* the client is not a ClientStream: it may send Content-Length
  pc,         \* what the program at each end is doing
  then,       \* what it does after a flush
  asked,      \* number of the last request
  serving,    \* number in the request the server parsed last
  header,     \* each end's own Header: the values added to Transfer-Encoding
  buf,        \* tokens in each fdstream's write buffer
  link,       \* tokens from each end that the kernel holds
  put,        \* pieces of the body under way that each end has written
  todo,       \* pieces it has still to write
  frame,      \* the framing of the message each end reads, and its length
  got,        \* pieces of it read so far
  whole,      \* it has been read to its end
  skipped     \* the server went on before it had read a request to its end

vars == <<foreign, pc, then, asked, serving, header, buf, link, put, todo,
          frame, got, whole, skipped>>

Framings == {"null", "sized", "chunked", "unknown"}

TypeOK ==
  /\ foreign \in BOOLEAN /\ skipped \in BOOLEAN
  /\ pc \in [Ends -> {"idle", "write", "flush", "await", "read", "closed"}]
  /\ then \in [Ends -> {"write", "await"}]
  /\ asked \in 0 .. MaxExchanges /\ serving \in 0 .. asked
  /\ header \in [Ends -> 0 .. MaxExchanges]
  /\ \A e \in Ends : Len(link[e]) <= Cap /\ Len(buf[e]) <= 2
  /\ put \in [Ends -> 0 .. MaxPieces] /\ todo \in [Ends -> 0 .. MaxPieces]
  /\ got \in [Ends -> 0 .. MaxPieces]
  /\ frame \in [Ends -> Framings \X (0 .. MaxPieces)]
  /\ whole \in [Ends -> BOOLEAN]

Init ==
  /\ foreign \in BOOLEAN /\ skipped = FALSE
  /\ pc = [e \in Ends |-> IF e = "client" THEN "idle" ELSE "await"]
  /\ then = [e \in Ends |-> "await"]
  /\ asked = 0 /\ serving = 0
  /\ header = [e \in Ends |-> 0]
  /\ buf = [e \in Ends |-> <<>>] /\ link = [e \in Ends |-> <<>>]
  /\ put = [e \in Ends |-> 0] /\ todo = [e \in Ends |-> 0]
  /\ frame = [e \in Ends |-> <<"null", 0>>]
  /\ got = [e \in Ends |-> 0] /\ whole = [e \in Ends |-> TRUE]

-----------------------------------------------------------------------------
(* Writing a message.                                                      *)

\* The framing of a header "chunked" was added to n times: Header::add() joins
\* the values with a comma, and only the value "chunked" itself is understood.
Announced(n) == IF n = 1 THEN "chunked" ELSE "unknown"

\* Message n of the end e: its head goes into the buffer, b pieces follow.
PutHead(e, n, framing, b) ==
  /\ buf' = [buf EXCEPT ![e] = Append(@, <<"head", n, framing, b>>)]
  /\ todo' = [todo EXCEPT ![e] = b]
  /\ put' = [put EXCEPT ![e] = 0]
  /\ pc' = [pc EXCEPT ![e] = "write"]

\* ClientStream::request(); or another client, with a Content-Length or, for a
\* request without a body, with nothing.
Request ==
  /\ pc["client"] = "idle" /\ asked < MaxExchanges
  /\ asked' = asked + 1
  /\ \E b \in 0 .. MaxPieces :
       \/ /\ ~foreign
          /\ header' = [header EXCEPT !["client"] = @ + 1]
          /\ PutHead("client", asked', Announced(header'["client"]), b)
       \/ /\ foreign
          /\ \E f \in {"null", "sized"} :
               (f = "null" => b = 0) /\ PutHead("client", asked', f, b)
          /\ UNCHANGED header
  /\ UNCHANGED <<foreign, then, serving, link, frame, got, whole, skipped>>

\* set_status() and send_header(), as soon as the program likes.
Respond ==
  /\ pc["server"] = "read"
  /\ header' = [header EXCEPT !["server"] = @ + 1]
  /\ \E b \in 0 .. MaxPieces :
       PutHead("server", serving, Announced(header'["server"]), b)
  /\ skipped' = (skipped \/ ~whole["server"])
  /\ UNCHANGED <<foreign, then, asked, serving, link, frame, got, whole>>

FlushThen(e, toks, l) ==
  /\ buf' = [buf EXCEPT ![e] = @ \o toks]
  /\ pc' = [pc EXCEPT ![e] = "flush"]
  /\ then' = [then EXCEPT ![e] = l]

Message(e) == IF e = "client" THEN asked ELSE serving

\* A piece of the body: send_all() ends in a flush.
WritePiece(e) ==
  /\ pc[e] = "write" /\ todo[e] > 0
  /\ put' = [put EXCEPT ![e] = @ + 1]
  /\ todo' = [todo EXCEPT ![e] = @ - 1]
  /\ FlushThen(e, <<<<"data", Message(e), put'[e], 0>>>>, "write")
  /\ UNCHANGED <<foreign, asked, serving, header, link, frame, got, whole, skipped>>

\* Mutant of EndMessage: the last-chunk is left in the buffer.
EndMessageUnflushed(e) ==
  /\ pc[e] = "write" /\ todo[e] = 0
  /\ buf' = [buf EXCEPT ![e] = Append(@, <<"last", Message(e), 0, 0>>)]
  /\ pc' = [pc EXCEPT ![e] = "await"]
  /\ UNCHANGED <<foreign, then, asked, serving, header, link, put, todo, frame, got, whole, skipped>>

\* The body stream is destroyed: finish() writes the last-chunk and flushes.
EndMessage(e) ==
  /\ pc[e] = "write" /\ todo[e] = 0
  /\ FlushThen(e, IF e = "client" /\ foreign THEN <<>>
                  ELSE <<<<"last", Message(e), 0, 0>>>>, "await")
  /\ UNCHANGED <<foreign, asked, serving, header, link, put, todo, frame, got, whole, skipped>>

\* One token of a flush: ::write waits for room.
Transfer(e) ==
  /\ pc[e] = "flush"
  /\ IF buf[e] = <<>>
     THEN pc' = [pc EXCEPT ![e] = then[e]] /\ UNCHANGED <<buf, link>>
     ELSE /\ Len(link[e]) < Cap
          /\ link' = [link EXCEPT ![e] = Append(@, Head(buf[e]))]
          /\ buf' = [buf EXCEPT ![e] = Tail(@)]
          /\ UNCHANGED pc
  /\ UNCHANGED <<foreign, then, asked, serving, header, put, todo, frame, got, whole, skipped>>

-----------------------------------------------------------------------------
(* Reading a message.                                                      *)

Take(e) == link' = [link EXCEPT ![Other(e)] = Tail(@)]
Close(e) == pc' = [pc EXCEPT ![e] = "closed"]

Kept == <<foreign, then, asked, header, buf, put, todo, skipped>>

\* Mutant of Parse: a Transfer-Encoding that is not understood is no body.
ParseLenient(e) ==
  /\ pc[e] = "await" /\ link[Other(e)] # <<>>
  /\ LET t == Head(link[Other(e)]) IN
       /\ t[1] = "head"
       /\ frame' = [frame EXCEPT ![e] = <<IF t[3] = "unknown" THEN "null" ELSE t[3], t[4]>>]
       /\ serving' = IF e = "server" THEN t[2] ELSE serving
  /\ pc' = [pc EXCEPT ![e] = "read"] /\ Take(e)
  /\ got' = [got EXCEPT ![e] = 0] /\ whole' = [whole EXCEPT ![e] = FALSE]
  /\ UNCHANGED Kept

\* parse_request() and parse_respose() read a first line and a header.  They
\* throw at the end of the connection, at a line that is not a first line and
\* for a Transfer-Encoding other than "chunked"; the program then gives up.
Parse(e) ==
  /\ pc[e] = "await"
  /\ \/ /\ link[Other(e)] # <<>> /\ Take(e)
        /\ LET t == Head(link[Other(e)]) IN
             IF t[1] = "head" /\ t[3] # "unknown"
             THEN /\ pc' = [pc EXCEPT ![e] = "read"]
                  /\ frame' = [frame EXCEPT ![e] = <<t[3], t[4]>>]
                  /\ got' = [got EXCEPT ![e] = 0]
                  /\ whole' = [whole EXCEPT ![e] = FALSE]
                  /\ serving' = IF e = "server" THEN t[2] ELSE serving
             ELSE Close(e) /\ UNCHANGED <<frame, got, whole, serving>>
     \/ /\ link[Other(e)] = <<>> /\ pc[Other(e)] = "closed"
        /\ Close(e)
        /\ UNCHANGED <<link, frame, got, whole, serving>>
  /\ UNCHANGED Kept

\* The end of the body: the client goes on to the next request.
End(e) ==
  /\ whole' = [whole EXCEPT ![e] = TRUE]
  /\ pc' = IF e = "client" THEN [pc EXCEPT ![e] = "idle"] ELSE pc

\* nullstream is empty.
ReadNull(e) ==
  /\ pc[e] = "read" /\ ~whole[e] /\ frame[e][1] = "null"
  /\ End(e)
  /\ UNCHANGED <<link, frame, got, serving, Kept>>

AtEnd(e) == link[Other(e)] = <<>> /\ pc[Other(e)] = "closed"

ReadPiece(e) ==
  /\ link[Other(e)] # <<>> /\ Take(e)
  /\ got' = [got EXCEPT ![e] = @ + 1]
  /\ UNCHANGED <<pc, whole>>

\* Mutant of ReadSized: one byte of the body is left.
ReadSizedLess(e) ==
  /\ pc[e] = "read" /\ ~whole[e] /\ frame[e][1] = "sized"
  /\ IF got[e] + 1 >= frame[e][2] \/ AtEnd(e)
     THEN End(e) /\ UNCHANGED <<link, got>>
     ELSE ReadPiece(e)
  /\ UNCHANGED <<frame, serving, Kept>>

\* sized_istream reads so many bytes, whatever they are, or to the end of file.
ReadSized(e) ==
  /\ pc[e] = "read" /\ ~whole[e] /\ frame[e][1] = "sized"
  /\ IF got[e] = frame[e][2] \/ AtEnd(e)
     THEN End(e) /\ UNCHANGED <<link, got>>
     ELSE ReadPiece(e)
  /\ UNCHANGED <<frame, serving, Kept>>

\* Mutant of ReadChunked: the end of a chunk is taken for the end of the body.
ReadChunkedOne(e) ==
  /\ pc[e] = "read" /\ ~whole[e] /\ frame[e][1] = "chunked"
  /\ link[Other(e)] # <<>> /\ Take(e)
  /\ got' = [got EXCEPT ![e] = @ + 1]
  /\ End(e)
  /\ UNCHANGED <<frame, serving, Kept>>

\* chunked_istream reads chunks up to the last-chunk, or to the end of file.
ReadChunked(e) ==
  /\ pc[e] = "read" /\ ~whole[e] /\ frame[e][1] = "chunked"
  /\ IF AtEnd(e) THEN End(e) /\ UNCHANGED <<link, got>>
     ELSE IF link[Other(e)] # <<>> /\ Head(link[Other(e)])[1] = "last"
     THEN Take(e) /\ End(e) /\ UNCHANGED got
     ELSE ReadPiece(e)
  /\ UNCHANGED <<frame, serving, Kept>>

\* A client that wants no more closes the connection.
Leave == pc["client"] = "idle" /\ Close("client")
         /\ UNCHANGED <<link, frame, got, whole, serving, Kept>>

\* A flush into a connection the other program has closed fails.
FlushFails(e) ==
  /\ pc[e] = "flush" /\ pc[Other(e)] = "closed" /\ Close(e)
  /\ UNCHANGED <<link, frame, got, whole, serving, Kept>>

-----------------------------------------------------------------------------
Writes(e) == WritePiece(e) \/ EndMessage(e) \/ Transfer(e) \/ FlushFails(e)
Reads(e) == Parse(e) \/ ReadNull(e) \/ ReadSized(e) \/ ReadChunked(e)

Next == Request \/ Respond \/ Leave \/ \E e \in Ends : Writes(e) \/ Reads(e)

Spec == Init /\ [][Next]_vars

\* The server program reads, and answers, without being asked twice; a client
\* that has begun a request finishes it.
FairSpec == /\ Spec /\ WF_vars(Respond)
            /\ \A e \in Ends : WF_vars(Writes(e)) /\ WF_vars(Reads(e))

-----------------------------------------------------------------------------
(* Properties.                                                             *)

\* Where the next message is looked for, it begins: no part of a body is ever
\* parsed as a first line, as long as the server reads requests to their end.
Framed ==
  ~skipped => \A e \in Ends : pc[e] = "await" /\ link[Other(e)] # <<>> =>
                Head(link[Other(e)])[1] = "head"

\* A body that was read to its end is the body that was written.
WholeBody ==
  /\ whole["client"] /\ pc["client"] = "idle" /\ asked > 0 =>
       got["client"] = put["server"] /\ todo["server"] = 0
  /\ whole["server"] /\ serving = asked /\ asked > 0 /\ ~skipped
       /\ pc["client"] # "closed" =>
       got["server"] = put["client"] /\ todo["client"] = 0

\* Both programs wait for the other to read only when the server answers a
\* request that it has not read to its end.
NoStandstill ==
  (\A e \in Ends : pc[e] = "flush" /\ buf[e] # <<>> /\ Len(link[e]) = Cap)
  => skipped

\* A client that waits for its answer gets one, or the end of the connection.
Answered == pc["client"] = "await" ~> pc["client"] # "await"
=============================================================================
