------------------------------ MODULE Programs ------------------------------
(***************************************************************************)
(* The two server programs, app/echo_server.cpp and                        *)
(* app/simple_http_server.cpp: one process that accepts a connection,      *)
(* serves it over an fdstream and closes it before it accepts the next.    *)
(*                                                                         *)
(* The kernel holds at most Queue tokens in each direction of a            *)
(* connection.  The echo's tokens are <<client, n>>, its n-th byte; those  *)
(* of a request are its line (1), its fields (2), its body (3), if         *)
(* request() reads one, and what it does not read: the last chunk that     *)
(* ClientStream sends behind every header, a body nobody asked for, what   *)
(* stands behind an error.                                                 *)
(***************************************************************************)
EXTENDS Naturals, Sequences, FiniteSets, SequencesExt, FiniteSetsExt

CONSTANTS Clients, Requests,
          Buf,        \* size of the buffers of fdstream (1024 in the code)
          Queue,      \* capacity of a queue of the kernel
          EchoBytes,  \* bound: bytes a client of the echo sends
          Behind,     \* bound: tokens of a request behind what is read of it
          ResetCount     \* the count a "reset" request carries

ASSUME ProgramsAssumption ==
  /\ Buf \in Nat \ {0} /\ Queue \in Nat \ {0} /\ EchoBytes \in Nat
  /\ Behind \in Nat /\ ResetCount \in Nat
  /\ Clients # {} /\ Requests \subseteq {"greet", "reset", "badBody", "unknown", "malformed", "coded"}

VARIABLES
  program,   \* "echo" or "http"
  ask,       \* what each client asks of the http program
  at,        \* where main() or request() is
  conn,      \* the client of the connection accepted last
  in, out,   \* the buffers of its fdstream
  hold,      \* the byte overflow() was called with
  counter,   \* counter_ of the App
  log,       \* the clients whose request changed the counter, in order
  backlog,   \* connections not accepted yet
  up, down,  \* what the kernel holds for the server and for each client
             \* (of a closed connection, what the server never took)
  sent,      \* how many tokens each client has sent
  side,      \* each client: "new", "open", "shut" (sends no more), "gone"
  closed,    \* the clients whose connection the server closed
  got        \* what each client has received

server  == <<at, conn, in, out, hold, counter, log, backlog, closed>>
clients == <<sent, side, got>>
progVars == <<program, ask, server, up, down, clients>>

\* What the server reads of a client, and the most a client sends.  A bad body
\* is read to its first bad character, a good one to its end: ws() behind the
\* last brace meets the last chunk.
Reads(c) ==
  IF program = "echo" THEN EchoBytes
  ELSE CASE ask[c] = "malformed" -> 1
         [] ask[c] \in {"reset", "badBody"} -> 3
         [] OTHER -> 2
Size(c) == IF program = "echo" THEN EchoBytes ELSE Reads(c) + Behind

ProgInit ==
  /\ program \in {"echo", "http"}
  /\ ask \in IF program = "echo" THEN [Clients -> {"bytes"}] ELSE [Clients -> Requests]
  /\ at = "accept" /\ conn = CHOOSE c \in Clients : TRUE
  /\ in = <<>> /\ out = <<>> /\ hold = <<>> /\ counter = 0 /\ log = <<>>
  /\ backlog = <<>> /\ closed = {}
  /\ up = [c \in Clients |-> <<>>] /\ down = up /\ got = up
  /\ sent = [c \in Clients |-> 0] /\ side = [c \in Clients |-> "new"]

-----------------------------------------------------------------------------
(* The server.                                                             *)

\* Mutant of Accept: the fdstream outlives its connection.
AcceptSameStream ==
  /\ at = "accept" /\ backlog # <<>>
  /\ conn' = Head(backlog) /\ backlog' = Tail(backlog)
  /\ at' = IF program = "echo" THEN "echo" ELSE "line"
  /\ UNCHANGED <<program, ask, in, out, hold, counter, log, closed, up, down, clients>>

Accept ==
  /\ at = "accept" /\ backlog # <<>>
  /\ conn' = Head(backlog) /\ backlog' = Tail(backlog)
  /\ at' = IF program = "echo" THEN "echo" ELSE "line"
  /\ in' = <<>> /\ out' = <<>> /\ hold' = <<>>
  /\ UNCHANGED <<program, ask, counter, log, closed, up, down, clients>>

\* Any error of ::accept ends the loop and the program.
AcceptFails ==
  /\ at = "accept" /\ at' = "ended"
  /\ UNCHANGED <<program, ask, conn, in, out, hold, counter, log, backlog, closed, up, down, clients>>

\* ::read in underflow(), as in FdStream.
Reading == at \in {"echo", "line", "fields", "body"} /\ in = <<>>
Fill(n) ==
  /\ Reading /\ n <= Len(up[conn])
  /\ in' = SubSeq(up[conn], 1, n)
  /\ up' = [up EXCEPT ![conn] = SubSeq(@, n + 1, Len(@))]
  /\ UNCHANGED <<program, ask, at, conn, out, hold, counter, log, backlog, closed, down, clients>>

\* One turn of the echo: get(), and put() into the buffer or to overflow().
Echo ==
  /\ at = "echo" /\ in # <<>>
  /\ in' = Tail(in)
  /\ IF Len(out) < Buf THEN at' = at /\ out' = Append(out, Head(in)) /\ hold' = hold
                       ELSE at' = "write" /\ out' = out /\ hold' = <<Head(in)>>
  /\ UNCHANGED <<program, ask, conn, counter, log, backlog, closed, up, down, clients>>

\* The response, which the chunked_ostream flushes at its end; on a stream that
\* is not good() any more nothing of it is written.
Reply(good, answer) ==
  /\ at' = IF good THEN "write" ELSE "close"
  /\ out' = IF good THEN Append(out, answer) ELSE out

Greet(good) ==
  /\ counter' = counter + 1 /\ log' = Append(log, conn)
  /\ Reply(good, <<"greeting", counter + 1>>)

\* What request() does behind the header.  A header that ends with the input
\* counts as whole, without the fields that would announce a body.
Route(whole) ==
  \/ ask[conn] = "greet" /\ Greet(whole)
  \/ /\ ask[conn] \in {"reset", "badBody"} /\ UNCHANGED <<counter, log>>
     /\ IF whole THEN at' = "body" /\ out' = out ELSE Reply(FALSE, <<"400", 0>>)
  \/ /\ ask[conn] = "unknown" /\ UNCHANGED <<counter, log>>
     /\ Reply(whole, <<"404", 0>>)
  \/ \* "Not impl" is caught by nobody.
     /\ ask[conn] = "coded" /\ UNCHANGED <<counter, log>>
     /\ IF whole THEN at' = "ended" /\ out' = out ELSE Reply(FALSE, <<"404", 0>>)

ReadLine ==
  /\ at = "line" /\ in # <<>> /\ in' = Tail(in)
  /\ IF ask[conn] = "malformed" THEN Reply(TRUE, <<"400", 0>>) ELSE at' = "fields" /\ out' = out
  /\ UNCHANGED <<program, ask, conn, hold, counter, log, backlog, closed, up, down, clients>>

ReadFields ==
  /\ at = "fields" /\ in # <<>> /\ in' = Tail(in)
  /\ Route(TRUE)
  /\ UNCHANGED <<program, ask, conn, hold, backlog, closed, up, down, clients>>

ReadBody ==
  /\ at = "body" /\ in # <<>> /\ in' = Tail(in)
  /\ IF ask[conn] = "reset"
     THEN counter' = ResetCount /\ log' = Append(log, conn) /\ Reply(TRUE, <<"200", 0>>)
     ELSE UNCHANGED <<counter, log>> /\ Reply(TRUE, <<"400", 0>>)
  /\ UNCHANGED <<program, ask, conn, hold, backlog, closed, up, down, clients>>

\* What is cut off may look whole: a request line inside its version, a body
\* behind its last brace.
CutOff ==
  \/ Reply(FALSE, <<"400", 0>>) /\ UNCHANGED <<counter, log>>
  \/ at \in {"line", "fields"} /\ Route(FALSE)
  \/ /\ at = "body" /\ ask[conn] = "reset"
     /\ counter' = ResetCount /\ log' = Append(log, conn) /\ Reply(FALSE, <<"200", 0>>)

\* End of file, or an error of ::read: the end of the echo, and of a request
\* wherever it is.
InputEnds ==
  /\ Reading
  /\ side[conn] = "gone" \/ (side[conn] = "shut" /\ up[conn] = <<>>)
  /\ \/ at = "echo" /\ at' = "close" /\ UNCHANGED <<out, counter, log>>
     \/ at # "echo" /\ CutOff
  /\ UNCHANGED <<program, ask, conn, in, hold, backlog, closed, up, down, clients>>

\* ::write takes a token when the kernel has room, and waits when it has not.
WriteToken ==
  /\ at \in {"write", "close"} /\ out # <<>>
  /\ side[conn] # "gone" /\ Len(down[conn]) < Queue
  /\ down' = [down EXCEPT ![conn] = Append(@, Head(out))]
  /\ out' = Tail(out)
  /\ UNCHANGED <<program, ask, at, conn, in, hold, counter, log, backlog, closed, up, clients>>

Written ==
  /\ at = "write" /\ out = <<>>
  /\ at' = IF program = "echo" THEN "echo" ELSE "close"
  /\ out' = hold /\ hold' = <<>>
  /\ UNCHANGED <<program, ask, conn, in, counter, log, backlog, closed, up, down, clients>>

\* Close() of the FDCloser.  Input that was not read resets the connection,
\* which can take with it what the client has not received.
CloseFd ==
  /\ closed' = closed \cup {conn} /\ at' = "accept"
  /\ \/ down' = down
     \/ up[conn] # <<>> /\ down' = [down EXCEPT ![conn] = <<>>]
  /\ UNCHANGED <<program, ask, conn, in, out, hold, counter, log, backlog, up, clients>>

\* ::write to a client that is gone fails, and the bytes stay in the buffer;
\* or SIGPIPE, which nobody handles, ends the process.
WriteFails ==
  /\ at \in {"write", "close"} /\ out # <<>> /\ side[conn] = "gone"
  /\ \/ /\ at = "write" /\ at' = "close"
        /\ UNCHANGED <<conn, in, out, hold, counter, log, backlog, closed, up, down>>
     \/ at = "close" /\ CloseFd
     \/ /\ at' = "ended"
        /\ UNCHANGED <<conn, in, out, hold, counter, log, backlog, closed, up, down>>
  /\ UNCHANGED <<program, ask, clients>>

\* Mutant of Close: the FDCloser is destroyed before the fdstream.
CloseUnflushed == at = "close" /\ CloseFd

\* The fdstream is destroyed, and flushed, before the FDCloser closes.
Close == at = "close" /\ out = <<>> /\ CloseFd

-----------------------------------------------------------------------------
(* The clients, and the kernel.                                            *)

Connect(c) ==
  /\ side[c] = "new" /\ side' = [side EXCEPT ![c] = "open"]
  /\ backlog' = Append(backlog, c)
  /\ UNCHANGED <<program, ask, at, conn, in, out, hold, counter, log, closed, up, down, sent, got>>

Send(c) ==
  /\ side[c] = "open" /\ sent[c] < Size(c) /\ Len(up[c]) < Queue
  /\ sent' = [sent EXCEPT ![c] = @ + 1]
  /\ up' = [up EXCEPT ![c] = Append(@, <<c, sent[c] + 1>>)]
  /\ \/ down' = down
     \/ \* What comes too late resets the connection as well.
        c \in closed /\ down' = [down EXCEPT ![c] = <<>>]
  /\ UNCHANGED <<program, ask, server, side, got>>

Shut(c) ==
  /\ side[c] = "open" /\ side' = [side EXCEPT ![c] = "shut"]
  /\ UNCHANGED <<program, ask, server, up, down, sent, got>>

Receive(c) ==
  /\ side[c] # "gone" /\ down[c] # <<>>
  /\ got' = [got EXCEPT ![c] = Append(@, Head(down[c]))]
  /\ down' = [down EXCEPT ![c] = Tail(@)]
  /\ UNCHANGED <<program, ask, server, up, sent, side>>

\* A client resets its connection; what it sent may be lost with it.
Leave(c) ==
  /\ side[c] \in {"open", "shut"} /\ side' = [side EXCEPT ![c] = "gone"]
  /\ down' = [down EXCEPT ![c] = <<>>]
  /\ UNCHANGED <<program, ask, server, up, sent, got>>

Serve == Accept \/ Echo \/ ReadLine \/ ReadFields \/ ReadBody \/ InputEnds \/ WriteToken
         \/ Written \/ WriteFails \/ Close \/ \E n \in 1 .. Buf : Fill(n)
Client(c) == Connect(c) \/ Send(c) \/ Shut(c) \/ Receive(c) \/ Leave(c)

ProgNext == Serve \/ AcceptFails \/ \E c \in Clients : Client(c)

ProgSpec == ProgInit /\ [][ProgNext]_progVars

\* The process is scheduled; nothing is assumed of the clients.
ProgFairSpec == ProgSpec /\ WF_progVars(Serve)

-----------------------------------------------------------------------------
(* Properties.                                                             *)

ProgTypeOK ==
  /\ at \in {"accept", "echo", "line", "fields", "body", "write", "close", "ended"}
  /\ conn \in Clients /\ Len(in) <= Buf /\ Len(out) <= Buf + 1 /\ Len(hold) <= 1
  /\ counter \in Nat /\ log \in Seq(Clients) /\ backlog \in Seq(Clients)
  /\ closed \subseteq Clients
  /\ \A c \in Clients : Len(up[c]) <= Queue /\ Len(down[c]) <= Queue /\ sent[c] <= Size(c)

Bytes(c, n) == [i \in 1 .. n |-> <<c, i>>]

\* The count after the first n requests of the log.
CountAfter(n) ==
  LET reset == {i \in 1 .. n : ask[log[i]] = "reset"} IN
  IF reset = {} THEN n ELSE ResetCount + n - Max(reset)

Answers(c) ==
  CASE ask[c] = "greet" -> {<<"greeting", CountAfter(i)>> : i \in {j \in DOMAIN log : log[j] = c}}
    [] ask[c] = "reset" -> {<<"200", 0>> : i \in {j \in DOMAIN log : log[j] = c}}
    [] ask[c] = "unknown" -> {<<"404", 0>>}
    [] ask[c] \in {"malformed", "badBody"} -> {<<"400", 0>>}
    [] OTHER -> {}

\* A client receives nothing but its own bytes in order, or one answer, which
\* is that of its own request: clients before it that broke off, left while
\* they were answered or were never answered leave no trace but in the count.
OwnAnswer ==
  \A c \in Clients :
    IF program = "echo" THEN IsPrefix(got[c] \o down[c], Bytes(c, EchoBytes))
    ELSE got[c] \o down[c] \in {<<>>} \cup {<<a>> : a \in Answers(c)}

\* Clients that go on: they connect, send at least what is read of them, say
\* that it was all and receive what comes.
Polite(c) ==
  /\ WF_progVars(Connect(c)) /\ WF_progVars(Receive(c))
  /\ WF_progVars(sent[c] < Reads(c) /\ Send(c)) /\ WF_progVars(sent[c] >= Reads(c) /\ Shut(c))
Calm == at # "ended" /\ \A c \in Clients : side[c] # "gone"

\* The server took all that the client has sent, and that was what it reads.
AllTaken(c) == sent[c] >= Reads(c) /\ up[c] = <<>>

Served(c) ==
  /\ c \in closed
  /\ IF program = "echo" THEN got[c] = Bytes(c, sent[c])
     ELSE AllTaken(c) => \E a \in Answers(c) : got[c] = <<a>>

\* One connection after the other, with buffers flushed only when they are full
\* or at the end, still comes to everyone, as long as every client sends without
\* waiting for an answer and receives while it sends, and none resets: the echo
\* returns every byte, and a request is answered unless something of it is still
\* with the kernel when the server closes, or comes later.
EveryoneServed ==
  []Calm /\ (\A c \in Clients : Polite(c)) => \A c \in Clients : <>Served(c)
=============================================================================
