---------------------------- MODULE SimpleServer ----------------------------
(***************************************************************************)
(* yu::http::SimpleServer: the accept loop of run() and one detached       *)
(* thread per connection, each in process().                               *)
(*                                                                         *)
(* The threads share the descriptor table of the process: a thread writes  *)
(* to and closes a descriptor NUMBER, and the kernel hands the number to   *)
(* the next connection as soon as it is closed.  Inside a thread the model *)
(* follows process() through ServerStream, the chain of widgets, the       *)
(* chunked response stream and the two catch blocks, down to the           *)
(* destructors that flush the stream and close the descriptor.             *)
(*                                                                         *)
(* A response is a sequence of tokens <<owner, kind, value>>: the status   *)
(* line with the header fields, the chunks of the body (one per block of   *)
(* 1024 bytes, the size of chunked_ostreambuf's buffer) and the last-chunk.*)
(* What happens inside one flush is the subject of FdStream.               *)
(***************************************************************************)
EXTENDS Naturals, Sequences, FiniteSets

CONSTANTS
  Conns,      \* the connections clients make
  Fds,        \* descriptor numbers left to the process for connections
  NoConn,     \* a descriptor number that is free
  Requests,   \* the requests a client may send
  Chain,      \* the widgets, in the order operator| chained them
  CatchAll,   \* catch_all_status_
  Failures    \* whether accept and thread creation may fail

ASSUME SimpleServerAssumption ==
  /\ NoConn \notin Conns
  /\ Fds # {}
  /\ Len(Chain) \in Nat \ {0} /\ DOMAIN Chain = 1 .. Len(Chain)
  /\ \A i \in DOMAIN Chain : Chain[i].kind = "simple" =>
       \A p \in DOMAIN Chain[i].contents : Chain[i].contents[p] \in Nat
  /\ CatchAll \in Nat \ {200, 500}
  /\ Failures \in BOOLEAN

VARIABLES
  listener,   \* "accepting", "spawning" or "stopped": where run() is
  lfd,        \* client_fd, the local of run()
  fdt,        \* the kernel's table: the connection behind each descriptor
  client,     \* "away", "connected", "sent" or "reset"
  req,        \* the request each client sends
  wire,       \* the tokens the kernel took for each connection
  pc,         \* where the thread of each connection is
  fd,         \* raw_client_fd of each thread
  good,       \* stream.good() of each thread's fdstream
  out,        \* the tokens in the fdstream's write buffer
  sent,       \* response_header_sent_
  status,     \* response_status_
  widget,     \* index of the widget being asked
  todo,       \* blocks still to be written to the response stream
  block,      \* blocks written to the response stream so far
  held,       \* the block in the response stream's buffer, 0 if none
  after       \* where the thread goes when the response stream is destroyed

server  == <<listener, lfd>>
clients == <<client, req>>
kernel  == <<fdt, wire>>
http    == <<sent, status, widget>>
body    == <<todo, block, held, after>>
vars == <<listener, lfd, fdt, client, req, wire, pc, fd, good, out,
          sent, status, widget, todo, block, held, after>>

Labels == {"none", "parse", "handle", "catchall", "error", "body", "finish",
           "unwind", "close", "end"}

Token == Conns \X {"header", "chunk", "last"} \X Nat

TypeOK ==
  /\ listener \in {"accepting", "spawning", "stopped"}
  /\ lfd \in Fds
  /\ fdt \in [Fds -> Conns \cup {NoConn}]
  /\ client \in [Conns -> {"away", "connected", "sent", "reset"}]
  /\ req \in [Conns -> Requests]
  /\ wire \in [Conns -> Seq(Token)]
  /\ pc \in [Conns -> Labels]
  /\ fd \in [Conns -> Fds]
  /\ good \in [Conns -> BOOLEAN]
  /\ out \in [Conns -> Seq(Token)]
  /\ sent \in [Conns -> BOOLEAN]
  /\ status \in [Conns -> Nat]
  /\ widget \in [Conns -> 1 .. Len(Chain)]
  /\ todo \in [Conns -> Nat] /\ block \in [Conns -> Nat] /\ held \in [Conns -> Nat]
  /\ after \in [Conns -> {"catchall", "error", "unwind"}]

Init ==
  /\ listener = "accepting" /\ lfd \in Fds
  /\ fdt = [k \in Fds |-> NoConn]
  /\ client = [c \in Conns |-> "away"]
  /\ req \in [Conns -> Requests]
  /\ wire = [c \in Conns |-> <<>>]
  /\ pc = [c \in Conns |-> "none"]
  /\ fd = [c \in Conns |-> lfd]
  /\ good = [c \in Conns |-> TRUE]
  /\ out = [c \in Conns |-> <<>>]
  /\ sent = [c \in Conns |-> FALSE]
  /\ status = [c \in Conns |-> 200]
  /\ widget = [c \in Conns |-> 1]
  /\ todo = [c \in Conns |-> 0] /\ block = [c \in Conns |-> 0]
  /\ held = [c \in Conns |-> 0]
  /\ after = [c \in Conns |-> "unwind"]

-----------------------------------------------------------------------------
(* The accept loop.                                                        *)

Accepted(c) == pc[c] # "none" \/ \E k \in Fds : fdt[k] = c
Pending == {c \in Conns : client[c] # "away" /\ ~Accepted(c)}
Free == {k \in Fds : fdt[k] = NoConn}

\* Mutant of Accept: one connection after the other, as without threads.
AcceptSerial ==
  /\ listener = "accepting" /\ \A c \in Conns : pc[c] \in {"none", "end"}
  /\ \E c \in Pending, k \in Free : fdt' = [fdt EXCEPT ![k] = c] /\ lfd' = k
  /\ listener' = "spawning"
  /\ UNCHANGED <<clients, wire, pc, fd, good, out, http, body>>

\* accept() returns a pending connection under a free descriptor number.
Accept ==
  /\ listener = "accepting"
  /\ \E c \in Pending, k \in Free :
       /\ fdt' = [fdt EXCEPT ![k] = c]
       /\ lfd' = k
  /\ listener' = "spawning"
  /\ UNCHANGED <<clients, wire, pc, fd, good, out, http, body>>

\* std::thread(&SimpleServer::process, this, client_fd).detach()
Spawn ==
  /\ listener = "spawning"
  /\ LET c == fdt[lfd] IN
       /\ pc' = [pc EXCEPT ![c] = "parse"]
       /\ fd' = [fd EXCEPT ![c] = lfd]
  /\ listener' = "accepting"
  /\ UNCHANGED <<lfd, clients, kernel, good, out, http, body>>

\* accept() finds no free descriptor, or a pending connection already aborted,
\* or the thread cannot be created: the exception leaves run().
RunThrows ==
  /\ \/ listener = "accepting" /\ Free = {}
     \/ listener = "accepting" /\ Failures /\ \E c \in Pending : client[c] = "reset"
     \/ listener = "spawning" /\ Failures
  /\ listener' = "stopped"
  /\ UNCHANGED <<lfd, clients, kernel, pc, fd, good, out, http, body>>

-----------------------------------------------------------------------------
(* The streams of a thread.                                                *)

Goto(c, l) == pc' = [pc EXCEPT ![c] = l]

\* The flush of an fdstream that holds toks in addition to out[c]: they go to
\* whatever connection the descriptor number names now.
Flush(c, toks) ==
  LET d == fdt[fd[c]] IN
  IF d # NoConn /\ client[d] # "reset"
  THEN /\ wire' = [wire EXCEPT ![d] = @ \o out[c] \o toks]
       /\ out' = [out EXCEPT ![c] = <<>>]
       /\ UNCHANGED good
  ELSE /\ out' = [out EXCEPT ![c] = @ \o toks]
       /\ good' = [good EXCEPT ![c] = @ /\ out'[c] = <<>>]
       /\ UNCHANGED wire

\* Output through an ostream: nothing happens once it is not good().
Write(c, toks) ==
  IF good[c] THEN Flush(c, toks) ELSE UNCHANGED <<wire, out, good>>

\* Mutant of SendHeader: set_status() forgets the status.
SendHeaderOk(c, code, blocks, next) ==
  /\ sent' = [sent EXCEPT ![c] = TRUE]
  /\ out' = IF good[c] THEN [out EXCEPT ![c] = Append(@, <<c, "header", 200>>)] ELSE out
  /\ todo' = [todo EXCEPT ![c] = blocks]
  /\ block' = [block EXCEPT ![c] = 0]
  /\ held' = [held EXCEPT ![c] = 0]
  /\ after' = [after EXCEPT ![c] = next]
  /\ Goto(c, "body")
  /\ UNCHANGED <<wire, good, status, widget>>

\* set_status(), set_header() and send_header(): the header stays in the
\* fdstream's buffer until the response stream flushes.
SendHeader(c, code, blocks, next) ==
  /\ status' = [status EXCEPT ![c] = code]
  /\ sent' = [sent EXCEPT ![c] = TRUE]
  /\ out' = IF good[c] THEN [out EXCEPT ![c] = Append(@, <<c, "header", code>>)] ELSE out
  /\ todo' = [todo EXCEPT ![c] = blocks]
  /\ block' = [block EXCEPT ![c] = 0]
  /\ held' = [held EXCEPT ![c] = 0]
  /\ after' = [after EXCEPT ![c] = next]
  /\ Goto(c, "body")
  /\ UNCHANGED <<wire, good, widget>>

-----------------------------------------------------------------------------
(* process().                                                              *)

\* Mutant of Parse: the owner of client_fd is an unnamed temporary, so that the
\* descriptor is closed before the request is read.
ParseClosed(c) ==
  /\ pc[c] = "parse" /\ client[c] = "sent" /\ req[c].kind = "ok"
  /\ fdt' = [fdt EXCEPT ![fd[c]] = NoConn]
  /\ Goto(c, "handle")
  /\ UNCHANGED <<server, clients, wire, fd, good, out, http, body>>

\* parse_request().  A request that is not HTTP, or breaks off in its first
\* line, throws.  One that breaks off in its header is taken as it is, unless
\* it ends in a line without a colon.  Where it meets end of file the stream,
\* which the response shares, is left not good().
Parse(c) ==
  /\ pc[c] = "parse"
  /\ \/ /\ client[c] \in {"sent", "reset"}
        /\ good' = [good EXCEPT ![c] = req[c].kind \notin {"cut", "cutheader"}]
        /\ \/ req[c].kind \in {"bad", "cut", "cutheader"} /\ Goto(c, "error")
           \/ req[c].kind \in {"ok", "cutheader"} /\ Goto(c, "handle")
     \/ /\ client[c] = "reset"
        /\ good' = [good EXCEPT ![c] = FALSE]
        /\ Goto(c, "error")
  /\ UNCHANGED <<server, clients, kernel, fd, out, http, body>>

\* What a widget does with a request.  A SimpleWidget answers GET and HEAD of
\* the paths it has contents for, HEAD without a body.  Any other widget is a
\* program: it may throw before or after send_header(), or send a header and
\* return false all the same.
Behaviour(w, r) ==
  IF w.kind = "simple"
  THEN IF r.method \in {"GET", "HEAD"} /\ r.path \in DOMAIN w.contents
       THEN "serve" ELSE "decline"
  ELSE IF r.path \in DOMAIN w.does THEN w.does[r.path] ELSE "decline"

Blocks(w, r) ==
  IF w.kind = "simple" /\ r.method = "GET" THEN w.contents[r.path]
  ELSE IF w.kind = "simple" THEN 0 ELSE 1

\* ChainWidget::handle() asks its widgets in turn.
Handle(c) ==
  LET w == Chain[widget[c]]
      b == Behaviour(w, req[c]) IN
  /\ pc[c] = "handle"
  /\ \/ /\ b = "decline"
        /\ IF widget[c] < Len(Chain)
           THEN widget' = [widget EXCEPT ![c] = @ + 1] /\ UNCHANGED pc
           ELSE Goto(c, "catchall") /\ UNCHANGED widget
        /\ UNCHANGED <<wire, good, out, sent, status, body>>
     \/ b = "throw" /\ Goto(c, "error") /\ UNCHANGED <<wire, good, out, http, body>>
     \/ b = "serve" /\ SendHeader(c, 200, Blocks(w, req[c]), "unwind")
     \/ b = "sendThrow" /\ SendHeader(c, 200, Blocks(w, req[c]), "error")
     \/ b = "sendDecline" /\ SendHeader(c, 200, Blocks(w, req[c]), "catchall")
  /\ UNCHANGED <<server, clients, fdt, fd>>

\* No widget handled the request; set_status() throws if one sent a header.
CatchAllStatus(c) ==
  /\ pc[c] = "catchall"
  /\ IF sent[c]
     THEN Goto(c, "error") /\ UNCHANGED <<wire, good, out, http, body>>
     ELSE SendHeader(c, CatchAll, 1, "unwind")
  /\ UNCHANGED <<server, clients, fdt, fd>>

\* Mutant of Error: set_status() does not throw behind a header.
ErrorAgain(c) ==
  /\ pc[c] = "error"
  /\ SendHeader(c, 500, 1, "unwind")
  /\ UNCHANGED <<server, clients, fdt, fd>>

\* The inner catch block; its own set_status() throws to the outer one.
Error(c) ==
  /\ pc[c] = "error"
  /\ IF sent[c]
     THEN Goto(c, "unwind") /\ UNCHANGED <<wire, good, out, http, body>>
     ELSE SendHeader(c, 500, 1, "unwind")
  /\ UNCHANGED <<server, clients, fdt, fd>>

\* One block into the response stream: a full buffer is sent as a chunk first,
\* and once that failed the rest of the body is refused.
Body(c) ==
  /\ pc[c] = "body"
  /\ \/ /\ todo[c] = 0
        /\ Goto(c, "finish")
        /\ UNCHANGED <<wire, good, out, todo, block, held>>
     \/ /\ todo[c] > 0 /\ held[c] = 0
        /\ todo' = [todo EXCEPT ![c] = @ - 1]
        /\ block' = [block EXCEPT ![c] = @ + 1]
        /\ held' = [held EXCEPT ![c] = block'[c]]
        /\ UNCHANGED <<pc, wire, good, out>>
     \/ /\ todo[c] > 0 /\ held[c] > 0
        /\ Write(c, <<<<c, "chunk", held[c]>>>>)
        /\ IF good'[c]
           THEN held' = [held EXCEPT ![c] = 0] /\ UNCHANGED todo
           ELSE todo' = [todo EXCEPT ![c] = 0] /\ UNCHANGED held
        /\ UNCHANGED <<pc, block>>
  /\ UNCHANGED <<server, clients, fdt, fd, http, after>>

\* Mutant of Finish: the last-chunk without the block in the buffer.
FinishNoBlock(c) ==
  /\ pc[c] = "finish"
  /\ Write(c, <<<<c, "last", 0>>>>)
  /\ Goto(c, after[c])
  /\ UNCHANGED <<server, clients, fdt, fd, http, body>>

\* ~chunked_ostreambuf(): the block in the buffer, then the last-chunk.  It
\* runs on a return and on an exception alike.
Finish(c) ==
  /\ pc[c] = "finish"
  /\ IF held[c] > 0
     THEN /\ Write(c, <<<<c, "chunk", held[c]>>>>)
          /\ IF good'[c]
             THEN held' = [held EXCEPT ![c] = 0] /\ UNCHANGED pc
             ELSE Goto(c, after[c]) /\ UNCHANGED held
     ELSE /\ Write(c, <<<<c, "last", 0>>>>)
          /\ UNCHANGED held
          /\ Goto(c, after[c])
  /\ UNCHANGED <<server, clients, fdt, fd, http, todo, block, after>>

\* Mutant of Unwind: the stream closes the descriptor its owner will close.
UnwindCloses(c) ==
  /\ pc[c] = "unwind"
  /\ Flush(c, <<>>)
  /\ fdt' = [fdt EXCEPT ![fd[c]] = NoConn]
  /\ Goto(c, "close")
  /\ UNCHANGED <<server, clients, fd, http, body>>

\* ~fdstream(): a last attempt to write what its buffer holds.
Unwind(c) ==
  /\ pc[c] = "unwind"
  /\ Flush(c, <<>>)
  /\ Goto(c, "close")
  /\ UNCHANGED <<server, clients, fdt, fd, http, body>>

\* Mutant of Close: release() in the place of reset().
CloseReleased(c) ==
  /\ pc[c] = "close"
  /\ Goto(c, "end")
  /\ UNCHANGED <<server, clients, kernel, fd, good, out, http, body>>

\* ~UniqueResource(): close(client_fd), the last thing the thread does.
Close(c) ==
  /\ pc[c] = "close"
  /\ fdt' = [fdt EXCEPT ![fd[c]] = NoConn]
  /\ Goto(c, "end")
  /\ UNCHANGED <<server, clients, wire, fd, good, out, http, body>>

-----------------------------------------------------------------------------
(* The clients.                                                            *)

ClientDoes(c, from, to) ==
  /\ client[c] \in from
  /\ client' = [client EXCEPT ![c] = to]
  /\ UNCHANGED <<server, req, kernel, pc, fd, good, out, http, body>>

Connect(c) == listener # "stopped" /\ ClientDoes(c, {"away"}, "connected")
Send(c) == ClientDoes(c, {"connected"}, "sent")
Reset(c) == ClientDoes(c, {"connected", "sent"}, "reset")

-----------------------------------------------------------------------------
Run == Accept \/ Spawn
Process(c) == \/ Parse(c) \/ Handle(c) \/ CatchAllStatus(c) \/ Error(c)
              \/ Body(c) \/ Finish(c) \/ Unwind(c) \/ Close(c)
Client(c) == Connect(c) \/ Send(c) \/ Reset(c)

Next == Run \/ RunThrows \/ \E c \in Conns : Process(c) \/ Client(c)

Spec == Init /\ [][Next]_vars

\* The scheduler runs every thread; clients owe nobody anything.
FairSpec == Spec /\ WF_vars(Run) /\ \A c \in Conns : WF_vars(Process(c))

-----------------------------------------------------------------------------
(* Properties.                                                             *)

Alive(c) == pc[c] \notin {"none", "end"}

\* A connection is only ever sent the answer to its own request, however the
\* kernel reuses the number of a descriptor another thread has closed.
NoCrossTalk == \A c \in Conns : \A i \in DOMAIN wire[c] : wire[c][i][1] = c

\* As long as a thread lives, its descriptor number names its connection, so
\* two threads never hold the same number, and close() hits the right one.
OwnDescriptor ==
  /\ \A c \in Conns : Alive(c) => fdt[fd[c]] = c
  /\ listener = "spawning" => \A c \in Conns : Alive(c) => fd[c] # lfd

\* No descriptor is left open without a thread to close it, unless run() threw
\* between accept() and the start of the thread.
NoLeak ==
  \A k \in Fds : fdt[k] # NoConn =>
    \/ Alive(fdt[k]) /\ fd[fdt[k]] = k
    \/ k = lfd /\ listener \in {"spawning", "stopped"}

\* One response per connection: a header, the blocks of the body in order, the
\* last-chunk, and nothing behind it, on every path through both catch blocks.
WellFormed(s) ==
  \A i \in DOMAIN s :
    /\ s[i][2] = "header" <=> i = 1
    /\ s[i][2] = "chunk" => s[i][3] = i - 1
    /\ s[i][2] = "last" => i = Len(s)
OneResponse == \A c \in Conns : WellFormed(wire[c])

\* The status a request deserves: that of the first widget of the chain that
\* does not decline it, of the catch-all if there is none, 500 if the request
\* cannot be parsed or the widget throws before it sent a header.  A request
\* that broke off gets no answer at all, the 500 included.
Deserved(r) ==
  LET takers == {i \in DOMAIN Chain : Behaviour(Chain[i], r) # "decline"} IN
  IF r.kind = "bad" THEN 500
  ELSE IF takers = {} THEN CatchAll
  ELSE LET i == CHOOSE j \in takers : \A k \in takers : j <= k IN
       IF Behaviour(Chain[i], r) = "throw" THEN 500 ELSE 200
RightStatus ==
  \A c \in Conns : wire[c] # <<>> =>
    /\ req[c].kind \in {"ok", "bad"}
    /\ wire[c][1] = <<c, "header", Deserved(req[c])>>

\* A client that sent a whole request and stays gets a whole response: the
\* thread ends only after the last-chunk.  (A widget that throws after
\* send_header() cuts the body short and still ends it with a last-chunk.)
Page(r) == LET i == CHOOSE j \in DOMAIN Chain :
                      /\ Behaviour(Chain[j], r) # "decline"
                      /\ \A k \in 1 .. j - 1 : Behaviour(Chain[k], r) = "decline"
           IN Blocks(Chain[i], r)
Answered ==
  \A c \in Conns :
    /\ pc[c] = "end" /\ client[c] = "sent" /\ req[c].kind \in {"ok", "bad"}
    => /\ wire[c] # <<>> /\ wire[c][Len(wire[c])][2] = "last"
       /\ LET code == wire[c][1][3] IN
          Len(wire[c]) = 2 + (IF code = 200 THEN Page(req[c]) ELSE 1)

\* A client that has sent its request is done with, even when every other
\* client keeps its connection open and sends nothing.
Served == \A c \in Conns : client[c] = "sent" ~> pc[c] = "end"
=============================================================================
