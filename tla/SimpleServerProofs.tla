------------------------- MODULE SimpleServerProofs -------------------------
(***************************************************************************)
(* Threads never meet through a descriptor: for any number of connections, *)
(* descriptors, widgets and requests, a thread writes to and closes its    *)
(* own connection only.                                                    *)
(***************************************************************************)
EXTENDS SimpleServer, SequenceTheorems, TLAPS

\* Tokens and sequences of tokens that belong to the connection c.
OwnToken(c) == {c} \X {"header", "chunk", "last"} \X Nat
OwnSeq(c) == Seq(OwnToken(c))

\* The part of the types the argument needs.  Everything in the stream of a
\* thread belongs to its connection.
Typed ==
  /\ lfd \in Fds
  /\ fdt \in [Fds -> Conns \cup {NoConn}]
  /\ pc \in [Conns -> Labels]
  /\ fd \in [Conns -> Fds]
  /\ block \in [Conns -> Nat] /\ held \in [Conns -> Nat]
  /\ after \in [Conns -> {"catchall", "error", "unwind"}]
  /\ DOMAIN out = Conns /\ DOMAIN wire = Conns
  /\ \A c \in Conns : out[c] \in OwnSeq(c)

\* What is on the way to a client belongs to it.
WireOwn == \A c \in Conns : wire[c] \in OwnSeq(c)

\* The connection run() has accepted has no thread yet: a second one would
\* close the descriptor of the first.
Fresh == listener = "spawning" => fdt[lfd] \in Conns /\ pc[fdt[lfd]] = "none"

\* A living thread's number names its connection.
Holds == \A c \in Conns : Alive(c) => fdt[fd[c]] = c

IInv == Typed /\ WireOwn /\ Fresh /\ Holds

-----------------------------------------------------------------------------
\* What a living thread writes goes to its own connection, or stays with it.
LEMMA FlushOwn ==
  ASSUME IInv, NEW c \in Conns, Alive(c), NEW toks \in OwnSeq(c), Flush(c, toks)
  PROVE  /\ DOMAIN out' = Conns /\ DOMAIN wire' = Conns
         /\ \A d \in Conns : out'[d] \in OwnSeq(d) /\ wire'[d] \in OwnSeq(d)
<1>1. fdt[fd[c]] = c /\ c # NoConn
  BY SimpleServerAssumption DEF IInv, Holds
<1>2. out[c] \in OwnSeq(c) /\ wire[c] \in OwnSeq(c)
  BY DEF IInv, Typed, WireOwn
<1>3. out[c] \o toks \in OwnSeq(c)
  BY <1>2 DEF OwnSeq
<1>4. wire[c] \o out[c] \o toks \in OwnSeq(c)
  BY <1>2 DEF OwnSeq
<1>5. <<>> \in OwnSeq(c)
  BY DEF OwnSeq
<1>6. CASE client[c] # "reset"
  <2>1. /\ wire' = [wire EXCEPT ![c] = wire[c] \o out[c] \o toks]
        /\ out' = [out EXCEPT ![c] = <<>>]
    BY <1>1, <1>6 DEF Flush
  <2> QED
    BY <2>1, <1>4, <1>5 DEF IInv, Typed, WireOwn
<1>7. CASE client[c] = "reset"
  <2>1. wire' = wire /\ out' = [out EXCEPT ![c] = out[c] \o toks]
    BY <1>1, <1>7 DEF Flush
  <2> QED
    BY <2>1, <1>3 DEF IInv, Typed, WireOwn
<1> QED
  BY <1>6, <1>7

\* The same for output through an ostream.
LEMMA WriteOwn ==
  ASSUME IInv, NEW c \in Conns, Alive(c), NEW toks \in OwnSeq(c), Write(c, toks)
  PROVE  /\ DOMAIN out' = Conns /\ DOMAIN wire' = Conns
         /\ \A d \in Conns : out'[d] \in OwnSeq(d) /\ wire'[d] \in OwnSeq(d)
<1>1. CASE good[c]
  BY <1>1, FlushOwn DEF Write
<1>2. CASE ~good[c]
  BY <1>2 DEF Write, IInv, Typed, WireOwn
<1> QED
  BY <1>1, <1>2

\* A step of the thread of c that leaves the descriptors alone: the thread goes
\* on living, or stays where it was.
LEMMA ThreadStep ==
  ASSUME IInv, NEW c \in Conns, Alive(c), NEW l \in Labels \ {"none", "end"},
         pc' = [pc EXCEPT ![c] = l], UNCHANGED <<listener, lfd, fdt, fd>>
  PROVE  pc' \in [Conns -> Labels] /\ Fresh' /\ Holds'
BY DEF IInv, Typed, Fresh, Holds, Alive, Labels

\* send_header() puts a header of the own connection into the stream.
LEMMA SendHeaderOwn ==
  ASSUME IInv, NEW c \in Conns, Alive(c), NEW code \in Nat, NEW blocks,
         NEW next \in {"catchall", "error", "unwind"},
         SendHeader(c, code, blocks, next), UNCHANGED <<listener, lfd, fdt, fd>>
  PROVE  IInv'
<1>1. out[c] \in OwnSeq(c) /\ Append(out[c], <<c, "header", code>>) \in OwnSeq(c)
  BY DEF IInv, Typed, OwnSeq, OwnToken
<1>2. DOMAIN out' = Conns /\ \A d \in Conns : out'[d] \in OwnSeq(d)
  <2>1. out' = [out EXCEPT ![c] = Append(out[c], <<c, "header", code>>)] \/ out' = out
    BY DEF SendHeader
  <2> QED
    BY <2>1, <1>1 DEF IInv, Typed
<1>3. pc' = [pc EXCEPT ![c] = "body"] /\ "body" \in Labels \ {"none", "end"}
  BY DEF SendHeader, Goto, Labels
<1>4. pc' \in [Conns -> Labels] /\ Fresh' /\ Holds'
  BY <1>3, ThreadStep
<1>5. /\ block' \in [Conns -> Nat] /\ held' \in [Conns -> Nat]
      /\ after' \in [Conns -> {"catchall", "error", "unwind"}]
      /\ wire' = wire
  BY DEF SendHeader, IInv, Typed
<1> QED
  BY <1>2, <1>4, <1>5 DEF IInv, Typed, WireOwn

\* A step that goes to the label l and writes through a stream at most.
LEMMA ThreadKeeps ==
  ASSUME IInv, NEW c \in Conns, Alive(c), NEW l \in Labels \ {"none", "end"},
         pc' = [pc EXCEPT ![c] = l], UNCHANGED <<listener, lfd, fdt, fd, after>>,
         block' \in [Conns -> Nat], held' \in [Conns -> Nat],
         DOMAIN out' = Conns, DOMAIN wire' = Conns,
         \A d \in Conns : out'[d] \in OwnSeq(d) /\ wire'[d] \in OwnSeq(d)
  PROVE  IInv'
<1>1. pc' \in [Conns -> Labels] /\ Fresh' /\ Holds'
  BY ThreadStep
<1> QED
  BY <1>1 DEF IInv, Typed, WireOwn

\* The streams of every connection, where a step leaves them alone.
LEMMA StreamsOwn ==
  ASSUME IInv, UNCHANGED <<out, wire>>
  PROVE  /\ DOMAIN out' = Conns /\ DOMAIN wire' = Conns
         /\ \A d \in Conns : out'[d] \in OwnSeq(d) /\ wire'[d] \in OwnSeq(d)
BY DEF IInv, Typed, WireOwn

-----------------------------------------------------------------------------
\* The accept loop.
LEMMA RunStep == IInv /\ (Run \/ RunThrows) => IInv'
<1> SUFFICES ASSUME IInv, Run \/ RunThrows PROVE IInv'
  OBVIOUS
<1> USE DEF IInv, Typed, WireOwn
<1>1. CASE Accept
  <2>1. PICK c \in Pending, k \in Free :
          fdt' = [fdt EXCEPT ![k] = c] /\ lfd' = k
    BY <1>1 DEF Accept
  <2>2. c \in Conns /\ k \in Fds /\ fdt[k] = NoConn /\ pc[c] = "none"
    BY <2>1 DEF Pending, Accepted, Free
  <2>3. \A d \in Conns : Alive(d) => fd[d] # k
    BY <2>2, SimpleServerAssumption DEF Holds
  <2>4. Fresh'
    BY <1>1, <2>1, <2>2 DEF Accept, Fresh
  <2>5. Holds'
    BY <1>1, <2>1, <2>2, <2>3 DEF Accept, Holds, Alive
  <2> QED
    BY <1>1, <2>1, <2>2, <2>4, <2>5 DEF Accept, body
<1>2. CASE Spawn
  <2>1. /\ fdt[lfd] \in Conns
        /\ pc' = [pc EXCEPT ![fdt[lfd]] = "parse"]
        /\ fd' = [fd EXCEPT ![fdt[lfd]] = lfd]
        /\ listener' = "accepting"
        /\ UNCHANGED <<lfd, fdt, wire, out, block, held, after>>
    BY <1>2 DEF Spawn, Fresh, kernel, body
  <2>2. Holds' /\ Fresh'
    BY <2>1 DEF Holds, Fresh, Alive
  <2> QED
    BY <2>1, <2>2 DEF Labels
<1>3. CASE RunThrows
  <2>1. listener' = "stopped" /\ UNCHANGED <<lfd, fdt, wire, pc, fd, out, block, held, after>>
    BY <1>3 DEF RunThrows, kernel, body
  <2> QED
    BY <2>1 DEF Holds, Fresh, Alive
<1> QED
  BY <1>1, <1>2, <1>3 DEF Run

\* Every step of process().
LEMMA ProcessStep == ASSUME IInv, NEW c \in Conns, Process(c) PROVE IInv'
<1> USE DEF server, clients, kernel, http, body
<1>0. /\ block \in [Conns -> Nat] /\ held \in [Conns -> Nat]
      /\ pc \in [Conns -> Labels]
      /\ after[c] \in {"catchall", "error", "unwind"}
  BY DEF IInv, Typed
<1>1. CASE Parse(c)
  <2>1. PICK l \in {"error", "handle"} : pc' = [pc EXCEPT ![c] = l]
    BY <1>1 DEF Parse, Goto
  <2>2. Alive(c) /\ l \in Labels \ {"none", "end"}
    BY <1>1, <2>1 DEF Parse, Alive, Labels
  <2>3. UNCHANGED <<listener, lfd, fdt, fd, after, block, held, out, wire>>
    BY <1>1 DEF Parse
  <2> QED
    BY <1>0, <2>1, <2>2, <2>3, StreamsOwn, ThreadKeeps
<1>2. CASE Handle(c)
  <2>1. Alive(c) /\ UNCHANGED <<listener, lfd, fdt, fd>>
    BY <1>2 DEF Handle, Alive
  <2>2. CASE \E blocks : \E next \in {"catchall", "error", "unwind"} :
               SendHeader(c, 200, blocks, next)
    BY <2>1, <2>2, SendHeaderOwn
  <2>3. CASE /\ \E l \in {"handle", "catchall", "error"} : pc' = [pc EXCEPT ![c] = l]
             /\ UNCHANGED <<after, block, held, out, wire>>
    <3>1. PICK l \in {"handle", "catchall", "error"} : pc' = [pc EXCEPT ![c] = l]
      BY <2>3
    <3>2. l \in Labels \ {"none", "end"}
      BY DEF Labels
    <3> QED
      BY <1>0, <2>1, <2>3, <3>1, <3>2, StreamsOwn, ThreadKeeps
  <2>4. pc[c] = "handle" /\ pc = [pc EXCEPT ![c] = "handle"]
    BY <1>0, <1>2 DEF Handle
  <2> QED
    BY <1>2, <2>2, <2>3, <2>4 DEF Handle, Goto
<1>3. CASE CatchAllStatus(c) \/ Error(c)
  <2>1. Alive(c) /\ UNCHANGED <<listener, lfd, fdt, fd>>
    BY <1>3 DEF CatchAllStatus, Error, Alive
  <2>2. CASE \E code \in Nat : SendHeader(c, code, 1, "unwind")
    BY <2>1, <2>2, SendHeaderOwn
  <2>3. CASE /\ \E l \in {"error", "unwind"} : pc' = [pc EXCEPT ![c] = l]
             /\ UNCHANGED <<after, block, held, out, wire>>
    <3>1. PICK l \in {"error", "unwind"} : pc' = [pc EXCEPT ![c] = l]
      BY <2>3
    <3>2. l \in Labels \ {"none", "end"}
      BY DEF Labels
    <3> QED
      BY <1>0, <2>1, <2>3, <3>1, <3>2, StreamsOwn, ThreadKeeps
  <2>4. CatchAll \in Nat /\ 500 \in Nat
    BY SimpleServerAssumption
  <2> QED
    BY <1>3, <2>2, <2>3, <2>4 DEF CatchAllStatus, Error, Goto
<1>4. CASE Body(c)
  <2>1. Alive(c) /\ UNCHANGED <<listener, lfd, fdt, fd, after>>
    BY <1>4 DEF Body, Alive
  <2>2. block' \in [Conns -> Nat] /\ held' \in [Conns -> Nat]
    BY <1>0, <1>4 DEF Body
  <2>3. PICK l \in {"body", "finish"} : pc' = [pc EXCEPT ![c] = l]
    <3>1. pc[c] = "body" /\ pc = [pc EXCEPT ![c] = "body"]
      BY <1>0, <1>4 DEF Body
    <3> QED
      BY <1>4, <3>1 DEF Body, Goto
  <2>4. Write(c, <<<<c, "chunk", held[c]>>>>) \/ UNCHANGED <<out, wire>>
    BY <1>4 DEF Body
  <2>5. <<<<c, "chunk", held[c]>>>> \in OwnSeq(c)
    BY <1>0 DEF OwnSeq, OwnToken
  <2>6. /\ DOMAIN out' = Conns /\ DOMAIN wire' = Conns
        /\ \A d \in Conns : out'[d] \in OwnSeq(d) /\ wire'[d] \in OwnSeq(d)
    BY <2>1, <2>4, <2>5, WriteOwn, StreamsOwn
  <2>7. l \in Labels \ {"none", "end"}
    BY DEF Labels
  <2> QED
    BY <2>1, <2>2, <2>3, <2>6, <2>7, ThreadKeeps
<1>5. CASE Finish(c)
  <2>1. Alive(c) /\ UNCHANGED <<listener, lfd, fdt, fd, after>>
    BY <1>5 DEF Finish, Alive
  <2>2. block' \in [Conns -> Nat] /\ held' \in [Conns -> Nat]
    BY <1>0, <1>5 DEF Finish
  <2>3. PICK l \in {"finish", "catchall", "error", "unwind"} : pc' = [pc EXCEPT ![c] = l]
    <3>1. pc[c] = "finish" /\ pc = [pc EXCEPT ![c] = "finish"]
      BY <1>0, <1>5 DEF Finish
    <3> QED
      BY <1>0, <1>5, <3>1 DEF Finish, Goto
  <2>4. Write(c, <<<<c, "chunk", held[c]>>>>) \/ Write(c, <<<<c, "last", 0>>>>)
    BY <1>5 DEF Finish
  <2>5. <<<<c, "chunk", held[c]>>>> \in OwnSeq(c) /\ <<<<c, "last", 0>>>> \in OwnSeq(c)
    BY <1>0 DEF OwnSeq, OwnToken
  <2>6. /\ DOMAIN out' = Conns /\ DOMAIN wire' = Conns
        /\ \A d \in Conns : out'[d] \in OwnSeq(d) /\ wire'[d] \in OwnSeq(d)
    BY <2>1, <2>4, <2>5, WriteOwn
  <2>7. l \in Labels \ {"none", "end"}
    BY DEF Labels
  <2> QED
    BY <2>1, <2>2, <2>3, <2>6, <2>7, ThreadKeeps
<1>6. CASE Unwind(c)
  <2>1. Alive(c) /\ pc' = [pc EXCEPT ![c] = "close"] /\ "close" \in Labels \ {"none", "end"}
    BY <1>6 DEF Unwind, Alive, Goto, Labels
  <2>2. UNCHANGED <<listener, lfd, fdt, fd, after, block, held>> /\ Flush(c, <<>>)
    BY <1>6 DEF Unwind
  <2>3. <<>> \in OwnSeq(c)
    BY DEF OwnSeq
  <2>4. /\ DOMAIN out' = Conns /\ DOMAIN wire' = Conns
        /\ \A d \in Conns : out'[d] \in OwnSeq(d) /\ wire'[d] \in OwnSeq(d)
    BY <2>1, <2>2, <2>3, FlushOwn
  <2> QED
    BY <1>0, <2>1, <2>2, <2>4, ThreadKeeps
<1>7. CASE Close(c)
  <2>1. /\ pc' = [pc EXCEPT ![c] = "end"] /\ Alive(c)
        /\ fdt' = [fdt EXCEPT ![fd[c]] = NoConn]
        /\ UNCHANGED <<listener, lfd, fd, wire, out, block, held, after>>
    BY <1>7 DEF Close, Goto, Alive
  <2>2. fdt[fd[c]] = c /\ fd[c] \in Fds
    BY <2>1 DEF IInv, Typed, Holds
  <2>3. Fresh'
    BY <2>1, <2>2 DEF IInv, Typed, Fresh, Alive
  <2>4. Holds'
    BY <2>1, <2>2 DEF IInv, Typed, Holds, Alive
  <2> QED
    BY <2>1, <2>3, <2>4 DEF IInv, Typed, WireOwn, Labels
<1> QED
  BY <1>1, <1>2, <1>3, <1>4, <1>5, <1>6, <1>7 DEF Process

-----------------------------------------------------------------------------
\* The inductive invariant holds in every state.
LEMMA Invariance == Spec => []IInv
<1>1. Init => IInv
  <2> SUFFICES ASSUME Init PROVE IInv
    OBVIOUS
  <2>1. Typed
    BY DEF Init, Typed, Labels, OwnSeq
  <2>2. WireOwn
    BY DEF Init, WireOwn, OwnSeq
  <2>3. Fresh /\ Holds
    BY DEF Init, Fresh, Holds, Alive
  <2> QED
    BY <2>1, <2>2, <2>3 DEF IInv
<1>2. IInv /\ [Next]_vars => IInv'
  <2> SUFFICES ASSUME IInv, [Next]_vars PROVE IInv'
    OBVIOUS
  <2>1. CASE \E c \in Conns : Client(c)
    <3>1. UNCHANGED <<listener, lfd, fdt, wire, pc, fd, out, block, held, after>>
      BY <2>1 DEF Client, Connect, Send, Reset, ClientDoes, server, kernel, body
    <3> QED
      BY <3>1 DEF IInv, Typed, WireOwn, Fresh, Holds, Alive
  <2>2. CASE UNCHANGED vars
    BY <2>2 DEF vars, IInv, Typed, WireOwn, Fresh, Holds, Alive
  <2> QED
    BY <2>1, <2>2, RunStep, ProcessStep DEF Next
<1> QED
  BY <1>1, <1>2, PTL DEF Spec

\* A living thread's descriptor number names its own connection, so that no two
\* threads share a number and close() closes the right one.
THEOREM OwnDescriptorHolds == Spec => []OwnDescriptor
<1>1. IInv => OwnDescriptor
  BY DEF IInv, Holds, Fresh, OwnDescriptor, Alive
<1> QED
  BY <1>1, Invariance, PTL

\* No connection is sent anything of another connection's response.
THEOREM NoCrossTalkHolds == Spec => []NoCrossTalk
<1>1. IInv => NoCrossTalk
  <2> SUFFICES ASSUME IInv, NEW c \in Conns, NEW i \in DOMAIN wire[c]
               PROVE  wire[c][i][1] = c
    BY DEF NoCrossTalk
  <2>1. wire[c][i] \in OwnToken(c)
    BY DEF IInv, WireOwn, OwnSeq
  <2> QED
    BY <2>1 DEF OwnToken
<1> QED
  BY <1>1, Invariance, PTL

\* A free descriptor table entry, or one its thread will close: NoLeak needs
\* nothing beyond the invariant above.
LEMMA NoLeakStep == IInv /\ NoLeak /\ [Next]_vars => NoLeak'
<1> SUFFICES ASSUME IInv, NoLeak, [Next]_vars PROVE NoLeak'
  OBVIOUS
<1> USE DEF Alive
<1>0. /\ lfd \in Fds /\ fdt \in [Fds -> Conns \cup {NoConn}]
      /\ pc \in [Conns -> Labels] /\ fd \in [Conns -> Fds]
  BY DEF IInv, Typed
<1>1. CASE Accept
  BY <1>0, <1>1 DEF Accept, NoLeak
<1>2. CASE Spawn
  <2>1. /\ fdt[lfd] \in Conns /\ pc[fdt[lfd]] = "none"
        /\ pc' = [pc EXCEPT ![fdt[lfd]] = "parse"]
        /\ fd' = [fd EXCEPT ![fdt[lfd]] = lfd]
        /\ UNCHANGED fdt /\ listener = "spawning"
    BY <1>2 DEF Spawn, IInv, Fresh, kernel
  <2> SUFFICES ASSUME NEW k \in Fds, fdt[k] # NoConn
               PROVE  pc'[fdt[k]] \notin {"none", "end"} /\ fd'[fdt[k]] = k
    BY <2>1 DEF NoLeak
  <2>2. fdt[k] \in Conns
    BY <1>0
  <2>3. CASE k = lfd
    BY <1>0, <2>1, <2>3
  <2>4. CASE k # lfd
    <3>1. pc[fdt[k]] \notin {"none", "end"} /\ fd[fdt[k]] = k
      BY <2>4 DEF NoLeak
    <3> QED
      BY <1>0, <2>1, <2>2, <3>1
  <2> QED
    BY <2>3, <2>4
<1>3. CASE RunThrows
  BY <1>3 DEF RunThrows, NoLeak, kernel
<1>4. CASE \E c \in Conns : Client(c)
  BY <1>4 DEF Client, Connect, Send, Reset, ClientDoes, NoLeak, server, kernel
<1>5. CASE \E c \in Conns : Close(c)
  BY <1>0, <1>5 DEF Close, Goto, NoLeak, server, IInv, Holds
<1>6. ASSUME NEW c \in Conns, Process(c), ~Close(c) PROVE NoLeak'
  <2>1. Alive(c) /\ UNCHANGED <<listener, lfd, fdt, fd>>
    BY <1>6 DEF Process, Parse, Handle, CatchAllStatus, Error, Body, Finish, Unwind,
                server, kernel
  <2>2. /\ pc'[c] \notin {"none", "end"}
        /\ \A d \in Conns \ {c} : pc'[d] = pc[d]
    BY <1>0, <1>6 DEF Process, Parse, Handle, CatchAllStatus, Error, Body, Finish, Unwind,
                Goto, SendHeader, IInv, Typed
  <2> QED
    BY <1>0, <2>1, <2>2 DEF NoLeak
<1>7. CASE UNCHANGED vars
  BY <1>7 DEF vars, NoLeak
<1> QED
  BY <1>1, <1>2, <1>3, <1>4, <1>5, <1>6, <1>7 DEF Next, Run

\* Every open descriptor has a thread that will close it, but for the one that
\* accept() returned when run() ended before the thread was started.
THEOREM NoLeakHolds == Spec => []NoLeak
<1>1. Init => NoLeak
  BY DEF Init, NoLeak
<1> QED
  BY <1>1, NoLeakStep, Invariance, PTL DEF Spec

-----------------------------------------------------------------------------
(* One response, the right one, and all of it.                             *)

\* What the thread of c has written, whether the kernel has it or the stream.
Total(c) == wire[c] \o out[c]

\* The request of c was read to its end, or is no request; its answer has the
\* status code, and so many blocks of body.
Due(c, code) == req[c].kind \in {"ok", "bad"} /\ code = Deserved(req[c])
Size(r) == IF Deserved(r) = 200 THEN Page(r) ELSE 1

\* The widgets in front of the i-th decline the request r.
DeclinedBefore(i, r) == \A j \in 1 .. i - 1 : Behaviour(Chain[j], r) = "decline"

\* The types of what decides about the response.
Typed2 ==
  /\ client \in [Conns -> {"away", "connected", "sent", "reset"}]
  /\ good \in [Conns -> BOOLEAN] /\ sent \in [Conns -> BOOLEAN]
  /\ widget \in [Conns -> 1 .. Len(Chain)]
  /\ DOMAIN status = Conns /\ todo \in [Conns -> Nat]

\* The header is the first thing written, and sent once.
HeaderOnce(c) ==
  /\ pc[c] \in {"none", "parse", "handle"} => ~sent[c]
  /\ ~sent[c] => Total(c) = <<>>
  /\ pc[c] \in {"body", "finish", "unwind", "close", "end"} => sent[c]

\* In the middle of the body of a response that is not lost: the blocks so far
\* are written, but for the one in the buffer.
InBody(c) ==
  pc[c] \in {"body", "finish"} /\ good[c] =>
    /\ held[c] \in {0, block[c]}
    /\ Len(Total(c)) = 1 + block[c] - (IF held[c] > 0 THEN 1 ELSE 0)
    /\ \A i \in DOMAIN Total(c) : Total(c)[i][2] # "last"
    /\ block[c] + todo[c] = Size(req[c])
    /\ pc[c] = "finish" => todo[c] = 0

\* How far the choice of the status has come.
Chosen(c) ==
  /\ pc[c] \in {"none", "parse"} => widget[c] = 1
  /\ pc[c] = "handle" =>
       DeclinedBefore(widget[c], req[c]) /\ (good[c] => req[c].kind = "ok")
  /\ pc[c] = "catchall" /\ ~sent[c] /\ good[c] => Due(c, CatchAll)
  /\ pc[c] = "error" /\ ~sent[c] /\ good[c] => Due(c, 500)
  /\ Total(c) # <<>> => Due(c, Total(c)[1][3])

\* A client that stays keeps its stream good, and then gets the whole response.
Whole(c) ==
  /\ pc[c] \notin {"none", "parse"} => client[c] \in {"sent", "reset"}
  /\ pc[c] \notin {"none", "parse"} /\ client[c] = "sent" /\ req[c].kind \in {"ok", "bad"}
       => good[c]
  /\ sent[c] /\ pc[c] \notin {"body", "finish"} /\ good[c] =>
       /\ Total(c) # <<>>
       /\ Len(Total(c)) = 2 + Size(req[c])
       /\ Total(c)[Len(Total(c))][2] = "last"
  /\ pc[c] \in {"close", "end"} /\ client[c] = "sent" => out[c] = <<>>

Response(c) ==
  HeaderOnce(c) /\ WellFormed(Total(c)) /\ InBody(c) /\ Chosen(c) /\ Whole(c)

RInv == Typed2 /\ \A c \in Conns : Response(c)

\* What Response says of c does not depend on any other connection.
Same(c) == <<wire[c], out[c], pc[c], good[c], sent[c], widget[c], todo[c], block[c],
             held[c], client[c]>>

LEMMA Elsewhere ==
  ASSUME NEW c \in Conns, Response(c), UNCHANGED Same(c), UNCHANGED req
  PROVE  Response(c)'
<1>1. /\ Total(c)' = Total(c) /\ out'[c] = out[c] /\ pc'[c] = pc[c] /\ good'[c] = good[c]
      /\ sent'[c] = sent[c] /\ widget'[c] = widget[c] /\ todo'[c] = todo[c]
      /\ block'[c] = block[c] /\ held'[c] = held[c] /\ client'[c] = client[c]
      /\ req'[c] = req[c]
  BY DEF Same, Total
<1>2. HeaderOnce(c)' /\ Whole(c)'
  BY <1>1 DEF Response, HeaderOnce, Whole
<1>3. Chosen(c)'
  BY <1>1 DEF Response, Chosen, Due
<1>4. InBody(c)' /\ WellFormed(Total(c))'
  BY <1>1 DEF Response, InBody, WellFormed
<1> QED
  BY <1>2, <1>3, <1>4 DEF Response

\* The status and the body of the first widget that does not decline.
LEMMA FirstTaker ==
  ASSUME NEW r, NEW i \in 1 .. Len(Chain), r.kind = "ok",
         DeclinedBefore(i, r), Behaviour(Chain[i], r) # "decline"
  PROVE  /\ Deserved(r) = IF Behaviour(Chain[i], r) = "throw" THEN 500 ELSE 200
         /\ Page(r) = Blocks(Chain[i], r)
<1> DEFINE takers == {j \in DOMAIN Chain : Behaviour(Chain[j], r) # "decline"}
<1>1. i \in takers /\ \A k \in takers : i <= k
  BY SimpleServerAssumption DEF DeclinedBefore
<1>2. (CHOOSE j \in takers : \A k \in takers : j <= k) = i
  <2>1. \A j \in takers : (\A k \in takers : j <= k) => j = i
    BY <1>1, SimpleServerAssumption
  <2> QED
    BY <1>1, <2>1
<1>3. Deserved(r) = IF Behaviour(Chain[i], r) = "throw" THEN 500 ELSE 200
  BY <1>1, <1>2 DEF Deserved
<1>4. \A j \in DOMAIN Chain :
        /\ Behaviour(Chain[j], r) # "decline"
        /\ \A k \in 1 .. j - 1 : Behaviour(Chain[k], r) = "decline"
        => j = i
  BY SimpleServerAssumption DEF DeclinedBefore
<1>5. (CHOOSE j \in DOMAIN Chain :
        /\ Behaviour(Chain[j], r) # "decline"
        /\ \A k \in 1 .. j - 1 : Behaviour(Chain[k], r) = "decline") = i
  BY <1>4, SimpleServerAssumption DEF DeclinedBefore
<1> QED
  BY <1>3, <1>5 DEF Page

\* The catch-all answers what every widget declines.
LEMMA NoTaker ==
  ASSUME NEW r, r.kind = "ok", DeclinedBefore(Len(Chain) + 1, r)
  PROVE  Deserved(r) = CatchAll
BY SimpleServerAssumption DEF Deserved, DeclinedBefore

\* A flush moves the stream towards the kernel and adds toks to it.
LEMMA FlushTotal ==
  ASSUME IInv, Typed2, NEW c \in Conns, Alive(c), NEW toks \in OwnSeq(c), Flush(c, toks)
  PROVE  /\ Total(c)' = Total(c) \o toks
         /\ good' \in [Conns -> BOOLEAN] /\ (good'[c] => good[c])
         /\ client[c] # "reset" => good'[c] = good[c] /\ out'[c] = <<>>
         /\ \A d \in Conns \ {c} : wire'[d] = wire[d] /\ out'[d] = out[d] /\ good'[d] = good[d]
<1>1. fdt[fd[c]] = c /\ c # NoConn
  BY SimpleServerAssumption DEF IInv, Holds
<1>2. out[c] \in Seq(OwnToken(c)) /\ wire[c] \in Seq(OwnToken(c)) /\ toks \in Seq(OwnToken(c))
  BY DEF IInv, Typed, WireOwn, OwnSeq
<1> DEFINE w == wire[c]
           o == out[c]
<1>3. (w \o o) \o toks = w \o (o \o toks) /\ ((w \o o) \o toks) \o <<>> = (w \o o) \o toks
  <2>1. w \in Seq(OwnToken(c)) /\ o \in Seq(OwnToken(c)) /\ toks \in Seq(OwnToken(c))
    BY <1>2
  <2> HIDE DEF w, o
  <2> QED
    BY <2>1, ConcatAssociative, ConcatEmptySeq
<1>4. CASE client[c] # "reset"
  <2>1. /\ wire' = [wire EXCEPT ![c] = (wire[c] \o out[c]) \o toks]
        /\ out' = [out EXCEPT ![c] = <<>>] /\ good' = good
    BY <1>1, <1>4 DEF Flush
  <2> QED
    BY <1>3, <1>4, <2>1 DEF Total, IInv, Typed, Typed2
<1>5. CASE client[c] = "reset"
  <2>1. /\ wire' = wire /\ out' = [out EXCEPT ![c] = out[c] \o toks]
        /\ good' = [good EXCEPT ![c] = good[c] /\ out'[c] = <<>>]
    BY <1>1, <1>5 DEF Flush
  <2> QED
    BY <1>3, <1>5, <2>1 DEF Total, IInv, Typed, Typed2
<1> QED
  BY <1>4, <1>5

\* The same for output through the stream, which is lost when it is not good().
LEMMA WriteTotal ==
  ASSUME IInv, Typed2, NEW c \in Conns, Alive(c), NEW toks \in OwnSeq(c), Write(c, toks)
  PROVE  /\ Total(c)' = IF good[c] THEN Total(c) \o toks ELSE Total(c)
         /\ good' \in [Conns -> BOOLEAN] /\ (good'[c] => good[c])
         /\ good[c] /\ client[c] # "reset" => good'[c] /\ out'[c] = <<>>
         /\ \A d \in Conns \ {c} : wire'[d] = wire[d] /\ out'[d] = out[d] /\ good'[d] = good[d]
<1>1. CASE good[c]
  BY <1>1, FlushTotal DEF Write
<1>2. CASE ~good[c]
  BY <1>2 DEF Write, Total, Typed2
<1> QED
  BY <1>1, <1>2

\* send_header() begins the response with the status it is due.
LEMMA SendHeaderResponse ==
  ASSUME IInv, RInv, NEW c \in Conns, pc[c] \notin {"none", "parse"}, ~sent[c],
         NEW code \in Nat, NEW blocks \in Nat, NEW next, SendHeader(c, code, blocks, next),
         good[c] => Due(c, code) /\ blocks = Size(req[c]), UNCHANGED <<client, req>>
  PROVE  RInv'
<1> DEFINE h == <<c, "header", code>>
<1>0. Total(c) = <<>> /\ Response(c)
  BY DEF RInv, Response, HeaderOnce
<1>1. wire[c] = <<>> /\ out[c] = <<>>
  BY <1>0, ConcatSimplifications DEF Total, IInv, Typed, WireOwn, OwnSeq
<1>2. Total(c)' = IF good[c] THEN <<h>> ELSE <<>>
  BY <1>1 DEF Total, SendHeader, IInv, Typed
<1>3. /\ pc'[c] = "body" /\ sent'[c] = TRUE /\ todo'[c] = blocks /\ block'[c] = 0
      /\ held'[c] = 0 /\ good' = good
  BY DEF SendHeader, Goto, IInv, Typed, RInv, Typed2
<1>4. Typed2'
  BY DEF SendHeader, RInv, Typed2
<1>5. ASSUME NEW d \in Conns \ {c} PROVE UNCHANGED Same(d)
  BY DEF SendHeader, Goto, Same, IInv, Typed, RInv, Typed2
<1>6. HeaderOnce(c)' /\ Whole(c)'
  BY <1>0, <1>3, <1>4, SMT DEF HeaderOnce, Whole, Response
<1>7. CASE good[c]
  <2>1. WellFormed(Total(c))' /\ Chosen(c)'
    BY <1>2, <1>3, <1>7 DEF WellFormed, Chosen, Due
  <2>2. InBody(c)'
    BY <1>2, <1>3, <1>7 DEF InBody
  <2> QED
    BY <1>4, <1>5, <1>6, <2>1, <2>2, Elsewhere DEF RInv, Response
<1>8. CASE ~good[c]
  <2>1. WellFormed(Total(c))' /\ Chosen(c)' /\ InBody(c)'
    BY <1>2, <1>3, <1>8 DEF WellFormed, Chosen, InBody
  <2> QED
    BY <1>4, <1>5, <1>6, <2>1, Elsewhere DEF RInv, Response
<1> QED
  BY <1>7, <1>8

\* A response has a number of blocks.
LEMMA BlocksNat ==
  ASSUME NEW i \in DOMAIN Chain, NEW r,
         Behaviour(Chain[i], r) \in {"serve", "sendThrow", "sendDecline"}
  PROVE  Blocks(Chain[i], r) \in Nat
BY SimpleServerAssumption DEF Behaviour, Blocks

\* What the steps of a thread have in common.
LEMMA OwnStep ==
  ASSUME RInv, NEW c \in Conns, Typed2', Response(c)', UNCHANGED req,
         \A d \in Conns \ {c} : UNCHANGED Same(d)
  PROVE  RInv'
BY Elsewhere DEF RInv

LEMMA ParseResponse == ASSUME IInv, RInv, NEW c \in Conns, Parse(c) PROVE RInv'
<1>0. Response(c) /\ Typed2 /\ pc \in [Conns -> Labels]
  BY DEF RInv, IInv, Typed
<1>1. /\ pc[c] = "parse" /\ pc'[c] \in {"error", "handle"} /\ Total(c)' = Total(c)
      /\ UNCHANGED <<client, req, wire, out, sent, status, widget, todo, block, held>>
      /\ good' \in [Conns -> BOOLEAN]
      /\ \A d \in Conns \ {c} : pc'[d] = pc[d] /\ good'[d] = good[d]
  BY <1>0 DEF Parse, Goto, Total, clients, kernel, http, body, Typed2
<1>2. client[c] \in {"sent", "reset"}
  BY DEF Parse
<1>3. pc'[c] = "handle" /\ good'[c] => req[c].kind = "ok"
  BY <1>0, <1>1 DEF Parse, Goto, Typed2
<1>4. pc'[c] = "error" /\ good'[c] => req[c].kind = "bad"
  BY <1>0, <1>1 DEF Parse, Goto, Typed2
<1>5. client[c] = "sent" /\ req[c].kind \in {"ok", "bad"} => good'[c]
  BY <1>0, <1>1 DEF Parse, Typed2
<1>6. Total(c) = <<>> /\ ~sent[c] /\ DeclinedBefore(widget[c], req[c])
  BY <1>0, <1>1 DEF Response, HeaderOnce, Chosen, DeclinedBefore
<1>7. Due(c, 500)' \/ req[c].kind # "bad"
  BY <1>1 DEF Due, Deserved
<1>8. HeaderOnce(c)' /\ WellFormed(Total(c))' /\ InBody(c)' /\ Chosen(c)' /\ Whole(c)'
  <2>1. HeaderOnce(c)' /\ Whole(c)'
    BY <1>1, <1>2, <1>5, <1>6 DEF HeaderOnce, Whole
  <2>2. WellFormed(Total(c))' /\ InBody(c)'
    BY <1>0, <1>1 DEF WellFormed, InBody, Response
  <2>3. Chosen(c)'
    BY <1>1, <1>3, <1>4, <1>6, <1>7 DEF Chosen, Due
  <2> QED
    BY <2>1, <2>2, <2>3
<1>9. Typed2'
  BY <1>0, <1>1 DEF Typed2
<1>10. \A d \in Conns \ {c} : UNCHANGED Same(d)
  BY <1>1 DEF Same
<1> QED
  BY <1>1, <1>8, <1>9, <1>10, OwnStep DEF Response

\* A step between the widgets, which writes nothing.
LEMMA SilentStep ==
  ASSUME IInv, RInv, NEW c \in Conns, pc[c] \in {"handle", "catchall", "error"},
         NEW l \in {"handle", "catchall", "error", "unwind"}, pc' = [pc EXCEPT ![c] = l],
         UNCHANGED <<client, req, wire, out, good, sent, status, todo, block, held>>,
         widget' \in [Conns -> 1 .. Len(Chain)],
         \A d \in Conns \ {c} : widget'[d] = widget[d],
         HeaderOnce(c)', Chosen(c)'
  PROVE  RInv'
<1>1. Response(c) /\ Typed2 /\ pc \in [Conns -> Labels]
  BY DEF RInv, IInv, Typed
<1>2. WellFormed(Total(c))' /\ InBody(c)' /\ Whole(c)'
  <2>1. pc'[c] = l /\ Total(c)' = Total(c)
    BY <1>1 DEF Total
  <2>2. WellFormed(Total(c))' /\ InBody(c)'
    BY <1>1, <2>1 DEF WellFormed, InBody, Response
  <2>3. Whole(c)'
    BY <1>1, <2>1 DEF Whole, Response
  <2> QED
    BY <2>2, <2>3
<1>3. Typed2'
  BY <1>1 DEF Typed2
<1>4. \A d \in Conns \ {c} : UNCHANGED Same(d)
  BY <1>1 DEF Same
<1> QED
  BY <1>2, <1>3, <1>4, OwnStep DEF Response

LEMMA HandleResponse == ASSUME IInv, RInv, NEW c \in Conns, Handle(c) PROVE RInv'
<1> DEFINE i == widget[c]
           b == Behaviour(Chain[i], req[c])
<1>0. /\ Response(c) /\ Typed2 /\ pc \in [Conns -> Labels] /\ pc[c] = "handle"
      /\ UNCHANGED <<client, req>>
  BY DEF RInv, IInv, Typed, Handle, clients
<1>1. i \in 1 .. Len(Chain) /\ DOMAIN Chain = 1 .. Len(Chain)
  BY <1>0, SimpleServerAssumption DEF Typed2
<1>2. /\ ~sent[c] /\ Total(c) = <<>> /\ DeclinedBefore(i, req[c])
      /\ good[c] => req[c].kind = "ok"
  BY <1>0 DEF Response, HeaderOnce, Chosen
<1>3. CASE b = "decline" /\ i < Len(Chain)
  <2>1. /\ widget' = [widget EXCEPT ![c] = i + 1] /\ pc' = pc
        /\ UNCHANGED <<wire, out, good, sent, status, todo, block, held>>
    BY <1>3 DEF Handle, body
  <2>2. DeclinedBefore(i + 1, req[c])
    BY <1>1, <1>2, <1>3, SimpleServerAssumption DEF DeclinedBefore
  <2>3. widget'[c] = i + 1 /\ widget' \in [Conns -> 1 .. Len(Chain)]
    BY <1>0, <1>1, <1>3, <2>1, SimpleServerAssumption DEF Typed2
  <2>4. HeaderOnce(c)' /\ Chosen(c)'
    BY <1>0, <1>2, <2>1, <2>2, <2>3 DEF HeaderOnce, Chosen, Total
  <2>5. pc' = [pc EXCEPT ![c] = "handle"] /\ \A d \in Conns \ {c} : widget'[d] = widget[d]
    BY <1>0, <2>1 DEF Typed2
  <2> QED
    BY <1>0, <2>1, <2>3, <2>4, <2>5, SilentStep
<1>4. CASE b = "decline" /\ ~(i < Len(Chain))
  <2>1. /\ pc' = [pc EXCEPT ![c] = "catchall"]
        /\ UNCHANGED <<widget, wire, out, good, sent, status, todo, block, held>>
    BY <1>4 DEF Handle, Goto, body
  <2>2. DeclinedBefore(Len(Chain) + 1, req[c])
    BY <1>1, <1>2, <1>4, SimpleServerAssumption DEF DeclinedBefore
  <2>3. good[c] => Due(c, CatchAll)
    BY <1>2, <2>2, NoTaker DEF Due
  <2>4. HeaderOnce(c)' /\ Chosen(c)'
    BY <1>0, <1>2, <2>1, <2>3 DEF HeaderOnce, Chosen, Total, Due
  <2> QED
    BY <1>0, <2>1, <2>4, SilentStep DEF Typed2
<1>5. CASE b = "throw"
  <2>1. /\ pc' = [pc EXCEPT ![c] = "error"]
        /\ UNCHANGED <<widget, wire, out, good, sent, status, todo, block, held>>
    BY <1>5 DEF Handle, Goto, body, http
  <2>2. good[c] => Due(c, 500)
    BY <1>1, <1>2, <1>5, FirstTaker DEF Due
  <2>3. HeaderOnce(c)' /\ Chosen(c)'
    BY <1>0, <1>2, <2>1, <2>2 DEF HeaderOnce, Chosen, Total, Due
  <2> QED
    BY <1>0, <2>1, <2>3, SilentStep DEF Typed2
<1>6. CASE b \in {"serve", "sendThrow", "sendDecline"}
  <2>1. PICK next : SendHeader(c, 200, Blocks(Chain[i], req[c]), next)
    BY <1>6 DEF Handle
  <2>2. Blocks(Chain[i], req[c]) \in Nat
    BY <1>1, <1>6, BlocksNat
  <2>3. good[c] => Due(c, 200) /\ Blocks(Chain[i], req[c]) = Size(req[c])
    BY <1>1, <1>2, <1>6, FirstTaker DEF Due, Size
  <2> QED
    BY <1>0, <1>2, <2>1, <2>2, <2>3, SendHeaderResponse
<1> QED
  BY <1>3, <1>4, <1>5, <1>6 DEF Handle

LEMMA CatchResponse ==
  ASSUME IInv, RInv, NEW c \in Conns, CatchAllStatus(c) \/ Error(c) PROVE RInv'
<1>0. /\ Response(c) /\ Typed2 /\ pc \in [Conns -> Labels] /\ pc[c] \in {"catchall", "error"}
      /\ UNCHANGED <<client, req>>
  BY DEF RInv, IInv, Typed, CatchAllStatus, Error, clients
<1>1. CASE sent[c]
  <2>1. PICK l \in {"error", "unwind"} : pc' = [pc EXCEPT ![c] = l]
    BY <1>1 DEF CatchAllStatus, Error, Goto
  <2>2. UNCHANGED <<widget, wire, out, good, sent, status, todo, block, held>>
    BY <1>1 DEF CatchAllStatus, Error, body, http
  <2>3. HeaderOnce(c)' /\ Chosen(c)'
    BY <1>0, <1>1, <2>1, <2>2 DEF HeaderOnce, Chosen, Total, Response, Due
  <2> QED
    BY <1>0, <2>1, <2>2, <2>3, SilentStep DEF Typed2
<1>2. CASE ~sent[c] /\ pc[c] = "catchall"
  <2>1. SendHeader(c, CatchAll, 1, "unwind")
    BY <1>2 DEF CatchAllStatus, Error
  <2>2. CatchAll \in Nat /\ CatchAll # 200 /\ (good[c] => Due(c, CatchAll))
    BY <1>0, <1>2, SimpleServerAssumption DEF Response, Chosen
  <2>3. good[c] => 1 = Size(req[c])
    BY <2>2 DEF Due, Size
  <2> QED
    BY <1>0, <1>2, <2>1, <2>2, <2>3, SendHeaderResponse
<1>3. CASE ~sent[c] /\ pc[c] = "error"
  <2>1. SendHeader(c, 500, 1, "unwind")
    BY <1>3 DEF CatchAllStatus, Error
  <2>2. good[c] => Due(c, 500)
    BY <1>0, <1>3 DEF Response, Chosen
  <2>3. good[c] => 1 = Size(req[c])
    BY <2>2 DEF Due, Size
  <2> QED
    BY <1>0, <1>3, <2>1, <2>2, <2>3, SendHeaderResponse
<1> QED
  BY <1>0, <1>1, <1>2, <1>3

\* The sequence u is s with t behind it.
Longer(u, s, t) ==
  /\ Len(s) \in Nat /\ DOMAIN s = 1 .. Len(s)
  /\ Len(u) = Len(s) + 1 /\ DOMAIN u = 1 .. Len(s) + 1
  /\ \A i \in 1 .. Len(s) : u[i] = s[i]
  /\ u[Len(s) + 1] = t

\* What is written for c, as a sequence.
LEMMA TotalSeq == ASSUME IInv, NEW c \in Conns PROVE Total(c) \in Seq(OwnToken(c))
BY DEF Total, IInv, Typed, WireOwn, OwnSeq

\* A block or the last-chunk behind a body under way is well-formed.
LEMMA NextToken ==
  ASSUME NEW s, NEW t, NEW u, Longer(u, s, t), WellFormed(s), Len(s) > 0,
         \A i \in DOMAIN s : s[i][2] # "last",
         t[2] \in {"chunk", "last"}, t[2] = "chunk" => t[3] = Len(s)
  PROVE  /\ WellFormed(u) /\ u # <<>> /\ u[1] = s[1] /\ u[Len(u)] = t
         /\ t[2] = "chunk" => \A i \in DOMAIN u : u[i][2] # "last"
<1>1. WellFormed(u)
  BY DEF Longer, WellFormed
<1> QED
  BY <1>1 DEF Longer

LEMMA BodyResponse == ASSUME IInv, RInv, NEW c \in Conns, Body(c) PROVE RInv'
<1>0. /\ Response(c) /\ Typed2 /\ pc \in [Conns -> Labels] /\ pc[c] = "body"
      /\ block \in [Conns -> Nat] /\ held \in [Conns -> Nat]
      /\ UNCHANGED <<client, req, sent, status, widget>>
  BY DEF RInv, IInv, Typed, Body, clients, http
<1>1. sent[c] /\ todo[c] \in Nat /\ block[c] \in Nat /\ held[c] \in Nat
  BY <1>0 DEF Response, HeaderOnce, Typed2
<1>2. CASE todo[c] = 0
  <2>1. /\ pc' = [pc EXCEPT ![c] = "finish"]
        /\ UNCHANGED <<wire, out, good, todo, block, held>>
    BY <1>2 DEF Body, Goto
  <2>2. HeaderOnce(c)' /\ WellFormed(Total(c))' /\ InBody(c)' /\ Chosen(c)' /\ Whole(c)'
    <3>1. Total(c)' = Total(c) /\ pc'[c] = "finish"
      BY <1>0, <2>1 DEF Total
    <3>2. HeaderOnce(c)' /\ Whole(c)' /\ Chosen(c)'
      BY <1>0, <1>1, <2>1, <3>1 DEF Response, HeaderOnce, Whole, Chosen, Due
    <3>3. WellFormed(Total(c))' /\ InBody(c)'
      BY <1>0, <1>2, <2>1, <3>1 DEF Response, WellFormed, InBody
    <3> QED
      BY <3>2, <3>3
  <2>3. Typed2' /\ \A d \in Conns \ {c} : UNCHANGED Same(d)
    BY <1>0, <2>1 DEF Typed2, Same
  <2> QED
    BY <1>0, <2>2, <2>3, OwnStep DEF Response
<1>3. CASE todo[c] > 0 /\ held[c] = 0
  <2>1. /\ todo' = [todo EXCEPT ![c] = todo[c] - 1]
        /\ block' = [block EXCEPT ![c] = block[c] + 1]
        /\ held' = [held EXCEPT ![c] = block'[c]]
        /\ UNCHANGED <<pc, wire, out, good>>
    BY <1>1, <1>3 DEF Body
  <2>2. block'[c] = block[c] + 1 /\ held'[c] = block[c] + 1 /\ todo'[c] = todo[c] - 1
    BY <1>0, <2>1 DEF Typed2
  <2>3. HeaderOnce(c)' /\ WellFormed(Total(c))' /\ InBody(c)' /\ Chosen(c)' /\ Whole(c)'
    <3>1. Total(c)' = Total(c)
      BY <2>1 DEF Total
    <3>2. HeaderOnce(c)' /\ Whole(c)' /\ Chosen(c)'
      BY <1>0, <2>1, <3>1 DEF Response, HeaderOnce, Whole, Chosen, Due
    <3>3. WellFormed(Total(c))'
      BY <1>0, <3>1 DEF Response, WellFormed
    <3>4. InBody(c)'
      <4>1. SUFFICES ASSUME good[c] PROVE InBody(c)'
        BY <2>1 DEF InBody
      <4>2. /\ Len(Total(c)) = 1 + block[c] /\ block[c] + todo[c] = Size(req[c])
            /\ \A i \in DOMAIN Total(c) : Total(c)[i][2] # "last"
        BY <1>0, <1>1, <1>3, <4>1 DEF Response, InBody
      <4>3. /\ Len(Total(c)') = 1 + block'[c] - 1
            /\ block'[c] + todo'[c] = Size(req[c])
        <5>1. PICK n, k \in Nat : n = block[c] /\ k = todo[c]
          BY <1>1
        <5>2. Len(Total(c)) = 1 + n /\ n + k = Size(req[c])
          BY <4>2, <5>1
        <5>3. block'[c] = n + 1 /\ todo'[c] = k - 1 /\ 1 + n = 1 + (n + 1) - 1
              /\ (n + 1) + (k - 1) = n + k
          BY <2>2, <5>1
        <5> HIDE <1>1
        <5> QED
          BY <3>1, <5>2, <5>3
      <4>4. \A i \in DOMAIN (Total(c)') : (Total(c)')[i][2] # "last"
        BY <3>1, <4>2
      <4> QED
        BY <1>0, <1>1, <2>1, <2>2, <3>1, <4>2, <4>3, <4>4 DEF InBody
    <3> QED
      BY <3>2, <3>3, <3>4
  <2>4. Typed2'
    BY <1>0, <1>1, <1>3, <2>1 DEF Typed2
  <2>5. \A d \in Conns \ {c} : UNCHANGED Same(d)
    BY <1>0, <2>1 DEF Same, Typed2
  <2> QED
    BY <1>0, <2>3, <2>4, <2>5, OwnStep DEF Response
<1>4. CASE todo[c] > 0 /\ held[c] > 0
  <2> DEFINE t == <<c, "chunk", held[c]>>
  <2>1. /\ Write(c, <<t>>) /\ UNCHANGED <<pc, block>>
        /\ IF good'[c]
           THEN held' = [held EXCEPT ![c] = 0] /\ UNCHANGED todo
           ELSE todo' = [todo EXCEPT ![c] = 0] /\ UNCHANGED held
    BY <1>4 DEF Body
  <2>2. t \in OwnToken(c) /\ <<t>> \in OwnSeq(c) /\ Alive(c)
    BY <1>0, <1>1 DEF OwnToken, OwnSeq, Alive
  <2>3. /\ Total(c)' = IF good[c] THEN Total(c) \o <<t>> ELSE Total(c)
        /\ good' \in [Conns -> BOOLEAN] /\ (good'[c] => good[c])
        /\ good[c] /\ client[c] # "reset" => good'[c] /\ out'[c] = <<>>
        /\ \A d \in Conns \ {c} : wire'[d] = wire[d] /\ out'[d] = out[d] /\ good'[d] = good[d]
    BY <1>0, <2>1, <2>2, WriteTotal
  <2>6. Typed2' /\ \A d \in Conns \ {c} : UNCHANGED Same(d)
    <3>1. todo' \in [Conns -> Nat] /\ \A d \in Conns \ {c} : todo'[d] = todo[d]
      <4>1. todo' = todo \/ todo' = [todo EXCEPT ![c] = 0]
        BY <2>1
      <4>2. todo \in [Conns -> Nat]
        BY <1>0 DEF Typed2
      <4> QED
        BY <4>1, <4>2
    <3>2. \A d \in Conns \ {c} : held'[d] = held[d]
      BY <1>0, <2>1
    <3> QED
      BY <1>0, <2>1, <2>3, <3>1, <3>2 DEF Typed2, Same
  <2>7. t \in OwnToken(c) /\ t[2] = "chunk" /\ t[3] = held[c]
    BY <2>2
  <2> HIDE DEF t
  <2>4. CASE good[c]
    <3>1. /\ Len(Total(c)) = block[c] /\ held[c] = block[c]
          /\ \A i \in DOMAIN Total(c) : Total(c)[i][2] # "last"
      BY <1>0, <1>1, <1>4, <2>4 DEF Response, InBody
    <3>2. Total(c) # <<>> /\ WellFormed(Total(c)) /\ Chosen(c)
      BY <1>0, <1>1, <1>4, <3>1 DEF Response
    <3>3. /\ WellFormed(Total(c))' /\ Len(Total(c))' = Len(Total(c)) + 1
          /\ Total(c)' # <<>> /\ Total(c)'[1] = Total(c)[1]
          /\ \A i \in DOMAIN (Total(c)') : Total(c)'[i][2] # "last"
      <4> DEFINE s == Total(c)
                 u == Total(c)'
      <4>1. s \in Seq(OwnToken(c)) /\ u = s \o <<t>> /\ WellFormed(s) /\ s # <<>>
        BY <2>3, <2>4, <3>2, TotalSeq
      <4>2. (\A i \in DOMAIN s : s[i][2] # "last") /\ t[3] = Len(s) /\ Len(s) > 0
        BY <1>1, <1>4, <2>7, <3>1
      <4> HIDE DEF s, u
      <4>4. Longer(u, s, t)
        BY <2>7, <4>1 DEF Longer
      <4>5. WellFormed(s)
        BY <4>1
      <4>3. /\ WellFormed(u) /\ u # <<>> /\ u[1] = s[1]
            /\ \A i \in DOMAIN u : u[i][2] # "last"
        BY <2>7, <4>2, <4>4, <4>5, NextToken
      <4>6. Len(u) = Len(s) + 1
        BY <4>4 DEF Longer
      <4> QED
        BY <4>3, <4>6 DEF s, u
    <3>4. HeaderOnce(c)' /\ Chosen(c)'
      BY <1>0, <1>1, <2>1, <3>2, <3>3 DEF HeaderOnce, Chosen, Due
    <3>5. Whole(c)'
      BY <1>0, <2>1, <2>3, <2>4 DEF Response, Whole
    <3>6. InBody(c)'
      <4>1. ASSUME good'[c] PROVE held'[c] = 0 /\ todo' = todo /\ block' = block
        BY <1>0, <2>1, <4>1
      <4> QED
        BY <1>0, <1>1, <2>1, <2>4, <3>1, <3>3, <4>1 DEF Response, InBody
    <3> QED
      BY <1>0, <2>6, <3>3, <3>4, <3>5, <3>6, OwnStep DEF Response
  <2>5. CASE ~good[c]
    <3>1. Total(c)' = Total(c) /\ ~good'[c]
      BY <2>3, <2>5
    <3>2. HeaderOnce(c)' /\ Chosen(c)' /\ InBody(c)'
      BY <1>0, <1>1, <2>1, <3>1 DEF Response, HeaderOnce, Chosen, Due, InBody
    <3>3. Whole(c)'
      BY <1>0, <2>1, <2>5, <3>1 DEF Response, Whole
    <3>4. WellFormed(Total(c))'
      BY <1>0, <3>1 DEF Response, WellFormed
    <3> QED
      BY <1>0, <2>6, <3>2, <3>3, <3>4, OwnStep DEF Response
  <2> QED
    BY <2>4, <2>5
<1> QED
  BY <1>1, <1>2, <1>3, <1>4

LEMMA FinishResponse == ASSUME IInv, RInv, NEW c \in Conns, Finish(c) PROVE RInv'
<1>0. /\ Response(c) /\ Typed2 /\ pc \in [Conns -> Labels] /\ pc[c] = "finish"
      /\ block \in [Conns -> Nat] /\ held \in [Conns -> Nat]
      /\ after[c] \in {"catchall", "error", "unwind"}
      /\ UNCHANGED <<client, req, sent, status, widget, todo, block>>
  BY DEF RInv, IInv, Typed, Finish, clients, http
<1>1. sent[c] /\ todo[c] \in Nat /\ block[c] \in Nat /\ held[c] \in Nat /\ Alive(c)
  BY <1>0 DEF Response, HeaderOnce, Typed2, Alive
<1> DEFINE t == IF held[c] > 0 THEN <<c, "chunk", held[c]>> ELSE <<c, "last", 0>>
<1>2. /\ t \in OwnToken(c) /\ <<t>> \in OwnSeq(c)
      /\ t[2] \in {"chunk", "last"} /\ (t[2] = "chunk" <=> held[c] > 0)
      /\ t[2] = "chunk" => t[3] = held[c]
  BY <1>1 DEF OwnToken, OwnSeq
<1>3. /\ Write(c, <<t>>)
      /\ \/ pc' = pc /\ held' = [held EXCEPT ![c] = 0] /\ good'[c] /\ held[c] > 0
         \/ pc' = [pc EXCEPT ![c] = after[c]] /\ held' = held /\ (held[c] > 0 => ~good'[c])
  BY DEF Finish, Goto
<1> HIDE DEF t
<1>4. /\ Total(c)' = IF good[c] THEN Total(c) \o <<t>> ELSE Total(c)
      /\ good' \in [Conns -> BOOLEAN] /\ (good'[c] => good[c])
      /\ good[c] /\ client[c] # "reset" => good'[c] /\ out'[c] = <<>>
      /\ \A d \in Conns \ {c} : wire'[d] = wire[d] /\ out'[d] = out[d] /\ good'[d] = good[d]
  BY <1>0, <1>1, <1>2, <1>3, WriteTotal
<1>5. Typed2' /\ \A d \in Conns \ {c} : UNCHANGED Same(d)
  <2>1. \A d \in Conns \ {c} : pc'[d] = pc[d] /\ held'[d] = held[d]
    BY <1>0, <1>3
  <2> QED
    BY <1>0, <1>4, <2>1 DEF Typed2, Same
<1>6. pc'[c] \in {"finish", "catchall", "error", "unwind"}
  BY <1>0, <1>3
<1>7. CASE good[c]
  <2> DEFINE s == Total(c)
             u == Total(c)'
  <2>1. s \in Seq(OwnToken(c)) /\ u = s \o <<t>>
    BY <1>4, <1>7, TotalSeq
  <2>2. /\ Len(s) = 1 + block[c] - (IF held[c] > 0 THEN 1 ELSE 0) /\ held[c] \in {0, block[c]}
        /\ \A i \in DOMAIN s : s[i][2] # "last"
        /\ block[c] = Size(req[c]) /\ todo[c] = 0
    BY <1>0, <1>1, <1>7 DEF Response, InBody
  <2>3. Len(s) > 0 /\ (held[c] > 0 => Len(s) = held[c]) /\ (held[c] = 0 => Len(s) = 1 + block[c])
    BY <1>1, <2>2
  <2>4. WellFormed(s) /\ Chosen(c)
    BY <1>0 DEF Response
  <2>5. s # <<>> => Due(c, s[1][3])
    BY <2>4 DEF Chosen
  <2> HIDE DEF s, u
  <2>6. Longer(u, s, t)
    BY <1>2, <2>1 DEF Longer
  <2>7. /\ WellFormed(u) /\ u # <<>> /\ u[1] = s[1] /\ u[Len(u)] = t
        /\ t[2] = "chunk" => \A i \in DOMAIN u : u[i][2] # "last"
    BY <1>2, <2>2, <2>3, <2>4, <2>6, NextToken
  <2>8. Len(u) = Len(s) + 1 /\ s # <<>>
    BY <2>3, <2>6 DEF Longer
  <2>9. HeaderOnce(c)' /\ Chosen(c)'
    <3>1. req[c].kind \in {"ok", "bad"} /\ u[1][3] = Deserved(req[c])
      BY <2>5, <2>7, <2>8 DEF Due
    <3> QED
      BY <1>0, <1>1, <1>6, <3>1 DEF HeaderOnce, Chosen, Due, u
  <2>10. CASE pc' = pc
    <3>1. held[c] > 0 /\ held'[c] = 0 /\ good'[c]
      BY <1>0, <1>3, <2>10
    <3>2. InBody(c)'
      BY <1>0, <1>1, <1>2, <2>2, <2>3, <2>7, <2>8, <2>10, <3>1 DEF InBody, u
    <3>3. Whole(c)'
      BY <1>0, <1>4, <2>10, <3>1 DEF Response, Whole
    <3> QED
      BY <1>0, <1>5, <2>7, <2>9, <3>2, <3>3, OwnStep DEF Response, u
  <2>11. CASE pc' # pc
    <3>1. pc'[c] \in {"catchall", "error", "unwind"} /\ (held[c] > 0 => ~good'[c])
      BY <1>0, <1>3, <2>11
    <3>2. InBody(c)'
      BY <3>1 DEF InBody
    <3>3. good'[c] => Len(u) = 2 + Size(req[c]) /\ u[Len(u)][2] = "last"
      <4>1. good'[c] => held[c] = 0 /\ t[2] = "last"
        BY <1>1, <1>2, <3>1
      <4> QED
        BY <1>1, <2>2, <2>3, <2>7, <2>8, <4>1
    <3>4. Whole(c)'
      <4>1. client[c] = "sent" /\ req[c].kind \in {"ok", "bad"} => good'[c]
        BY <1>4, <1>7
      <4>2. client[c] \in {"sent", "reset"}
        BY <1>0 DEF Response, Whole
      <4> QED
        BY <1>0, <2>7, <3>1, <3>3, <4>1, <4>2 DEF Whole, u
    <3> QED
      BY <1>0, <1>5, <2>7, <2>9, <3>2, <3>4, OwnStep DEF Response, u
  <2> QED
    BY <2>10, <2>11
<1>8. CASE ~good[c]
  <2>1. Total(c)' = Total(c) /\ ~good'[c]
    BY <1>4, <1>8
  <2>2. pc'[c] = after[c]
    BY <1>0, <1>3, <2>1
  <2>3. HeaderOnce(c)' /\ Chosen(c)' /\ InBody(c)'
    BY <1>0, <1>1, <2>1, <2>2 DEF Response, HeaderOnce, Chosen, Due, InBody
  <2>4. Whole(c)'
    BY <1>0, <1>8, <2>1, <2>2 DEF Response, Whole
  <2>5. WellFormed(Total(c))'
    BY <1>0, <2>1 DEF Response, WellFormed
  <2> QED
    BY <1>0, <1>5, <2>3, <2>4, <2>5, OwnStep DEF Response
<1> QED
  BY <1>7, <1>8

LEMMA UnwindResponse == ASSUME IInv, RInv, NEW c \in Conns, Unwind(c) PROVE RInv'
<1>0. /\ Response(c) /\ Typed2 /\ pc \in [Conns -> Labels] /\ pc[c] = "unwind"
      /\ UNCHANGED <<client, req, sent, status, widget, todo, block, held>>
      /\ pc' = [pc EXCEPT ![c] = "close"] /\ Flush(c, <<>>)
  BY DEF RInv, IInv, Typed, Unwind, Goto, clients, http, body
<1>1. /\ Total(c)' = Total(c) \o <<>>
      /\ good' \in [Conns -> BOOLEAN] /\ (good'[c] => good[c])
      /\ client[c] # "reset" => good'[c] = good[c] /\ out'[c] = <<>>
      /\ \A d \in Conns \ {c} : wire'[d] = wire[d] /\ out'[d] = out[d] /\ good'[d] = good[d]
  <2>1. Alive(c) /\ <<>> \in OwnSeq(c)
    BY <1>0 DEF Alive, OwnSeq
  <2> QED
    BY <1>0, <2>1, FlushTotal
<1>2. Total(c)' = Total(c)
  <2> DEFINE s == Total(c)
  <2>1. s \in Seq(OwnToken(c))
    BY TotalSeq
  <2> HIDE DEF s
  <2>2. s \o <<>> = s
    BY <2>1, ConcatEmptySeq
  <2> QED
    BY <1>1, <2>2 DEF s
<1>3. pc'[c] = "close"
  BY <1>0
<1>4. HeaderOnce(c)' /\ Chosen(c)' /\ InBody(c)'
  BY <1>0, <1>2, <1>3 DEF Response, HeaderOnce, Chosen, Due, InBody
<1>5. Whole(c)'
  BY <1>0, <1>1, <1>2, <1>3 DEF Response, Whole, HeaderOnce
<1>6. WellFormed(Total(c))'
  BY <1>0, <1>2 DEF Response, WellFormed
<1>7. Typed2' /\ \A d \in Conns \ {c} : UNCHANGED Same(d)
  BY <1>0, <1>1 DEF Typed2, Same
<1> QED
  BY <1>0, <1>4, <1>5, <1>6, <1>7, OwnStep DEF Response

\* A step that writes nothing and changes neither the response nor the choice.
LEMMA QuietStep ==
  ASSUME RInv, NEW c \in Conns, pc' \in [Conns -> Labels], client' = client,
         \/ pc[c] = "close" /\ pc'[c] = "end"
         \/ pc[c] = "none" /\ pc'[c] \in {"none", "parse"},
         \A d \in Conns \ {c} : pc'[d] = pc[d],
         UNCHANGED <<req, wire, out, good, sent, status, widget, todo, block, held>>
  PROVE  RInv'
<1>0. Response(c) /\ Typed2 /\ Total(c)' = Total(c)
  BY DEF RInv, Total
<1>1. HeaderOnce(c)' /\ Chosen(c)' /\ InBody(c)'
  BY <1>0 DEF Response, HeaderOnce, Chosen, Due, InBody
<1>2. Whole(c)' /\ WellFormed(Total(c))'
  BY <1>0 DEF Response, Whole, WellFormed
<1>3. Typed2' /\ \A d \in Conns \ {c} : UNCHANGED Same(d)
  BY <1>0 DEF Typed2, Same
<1> QED
  BY <1>0, <1>1, <1>2, <1>3, OwnStep DEF Response

\* A client does something: only whether it is still there changes, and that
\* has no bearing on a thread unless it goes away.
LEMMA ClientResponse == ASSUME IInv, RInv, NEW c \in Conns, Client(c) PROVE RInv'
<1>0. Response(c) /\ Typed2
  BY DEF RInv
<1>1. PICK to \in {"connected", "sent", "reset"} : client' = [client EXCEPT ![c] = to]
  BY DEF Client, Connect, Send, Reset, ClientDoes
<1>2. UNCHANGED <<req, wire, out, pc, good, sent, status, widget, todo, block, held>>
  BY DEF Client, Connect, Send, Reset, ClientDoes, kernel, http, body
<1>3. /\ client'[c] = to
      /\ to = "connected" => client[c] = "away"
      /\ to = "sent" => client[c] = "connected"
  BY <1>0, <1>1 DEF Client, Connect, Send, Reset, ClientDoes, Typed2
<1>4. Total(c)' = Total(c)
  BY <1>2 DEF Total
<1>5. HeaderOnce(c)' /\ Chosen(c)' /\ InBody(c)' /\ WellFormed(Total(c))'
  BY <1>0, <1>2, <1>4 DEF Response, HeaderOnce, Chosen, Due, InBody, WellFormed
<1>6. Whole(c)'
  BY <1>0, <1>2, <1>3, <1>4 DEF Response, Whole
<1>7. Typed2' /\ \A d \in Conns \ {c} : UNCHANGED Same(d)
  BY <1>0, <1>1, <1>2 DEF Typed2, Same
<1> QED
  BY <1>2, <1>5, <1>6, <1>7, OwnStep DEF Response

\* What is written, and what is to be written, is right in every state.
LEMMA ResponseInvariance == Spec => []RInv
<1>1. Init => RInv
  <2> SUFFICES ASSUME Init PROVE RInv
    OBVIOUS
  <2>1. Typed2
    BY SimpleServerAssumption DEF Init, Typed2
  <2>2. ASSUME NEW c \in Conns PROVE Response(c)
    <3>1. Total(c) = <<>>
      BY DEF Init, Total
    <3> QED
      BY <3>1 DEF Init, Response, HeaderOnce, WellFormed, InBody, Chosen, Whole
  <2> QED
    BY <2>1, <2>2 DEF RInv
<1>2. IInv /\ RInv /\ [Next]_vars => RInv'
  <2> SUFFICES ASSUME IInv, RInv, [Next]_vars PROVE RInv'
    OBVIOUS
  <2>0. pc \in [Conns -> Labels]
    BY DEF IInv, Typed
  <2>1. CASE Accept \/ RunThrows \/ UNCHANGED vars
    <3>1. UNCHANGED <<client, req, wire, out, pc, good, sent, status, widget, todo, block, held>>
      BY <2>1 DEF Accept, RunThrows, vars, clients, kernel, http, body
    <3>2. Typed2' /\ \A d \in Conns : UNCHANGED Same(d)
      BY <3>1 DEF RInv, Typed2, Same
    <3> QED
      BY <3>1, <3>2, Elsewhere DEF RInv
  <2>2. CASE Spawn
    <3>1. /\ fdt[lfd] \in Conns /\ pc[fdt[lfd]] = "none"
          /\ pc' = [pc EXCEPT ![fdt[lfd]] = "parse"]
          /\ UNCHANGED <<client, req, wire, out, good, sent, status, widget, todo, block, held>>
      BY <2>2 DEF Spawn, IInv, Fresh, clients, kernel, http, body
    <3>2. pc' \in [Conns -> Labels]
      BY <2>0, <3>1 DEF Labels
    <3> QED
      BY <2>0, <3>1, <3>2, QuietStep
  <2>3. ASSUME NEW c \in Conns, Close(c) PROVE RInv'
    <3>1. /\ pc[c] = "close" /\ pc' = [pc EXCEPT ![c] = "end"]
          /\ UNCHANGED <<client, req, wire, out, good, sent, status, widget, todo, block, held>>
      BY <2>3 DEF Close, Goto, clients, http, body
    <3>2. pc' \in [Conns -> Labels]
      BY <2>0, <3>1 DEF Labels
    <3> QED
      BY <2>0, <3>1, <3>2, QuietStep
  <2>4. ASSUME NEW c \in Conns, Process(c) PROVE RInv'
    BY <2>3, <2>4, ParseResponse, HandleResponse, CatchResponse, BodyResponse, FinishResponse,
       UnwindResponse DEF Process
  <2> QED
    BY <2>1, <2>2, <2>4, ClientResponse DEF Next, Run
<1> QED
  BY <1>1, <1>2, Invariance, PTL DEF Spec

\* What the kernel has of a stream is its beginning.
LEMMA WireFirst ==
  ASSUME IInv, NEW c \in Conns
  PROVE  /\ Len(wire[c]) \in Nat /\ DOMAIN wire[c] = 1 .. Len(wire[c])
         /\ DOMAIN Total(c) = 1 .. Len(Total(c)) /\ Len(wire[c]) <= Len(Total(c))
         /\ \A i \in DOMAIN wire[c] : Total(c)[i] = wire[c][i] /\ wire[c][i] \in OwnToken(c)
         /\ wire[c] # <<>> => Len(wire[c]) > 0 /\ Total(c) # <<>>
<1> DEFINE w == wire[c]
           o == out[c]
<1>1. w \in Seq(OwnToken(c)) /\ o \in Seq(OwnToken(c)) /\ Total(c) = w \o o
  BY DEF IInv, Typed, WireOwn, OwnSeq, Total
<1> HIDE DEF w, o
<1>2. /\ Len(w) \in Nat /\ DOMAIN w = 1 .. Len(w)
      /\ DOMAIN (w \o o) = 1 .. Len(w \o o) /\ Len(w) <= Len(w \o o)
      /\ \A i \in DOMAIN w : (w \o o)[i] = w[i] /\ w[i] \in OwnToken(c)
      /\ w # <<>> => Len(w) > 0 /\ w \o o # <<>>
  BY <1>1
<1> QED
  BY <1>1, <1>2 DEF w

\* On every path through process(), its catch blocks and its destructors, a
\* connection is sent one header, the blocks of one body in order, and one
\* last-chunk with nothing behind it.
THEOREM OneResponseHolds == Spec => []OneResponse
<1>1. IInv /\ RInv => OneResponse
  <2> SUFFICES ASSUME IInv, RInv, NEW c \in Conns PROVE WellFormed(wire[c])
    BY DEF OneResponse
  <2>1. WellFormed(Total(c))
    BY DEF RInv, Response
  <2> QED
    BY <2>1, WireFirst DEF WellFormed
<1> QED
  BY <1>1, Invariance, ResponseInvariance, PTL

\* The status sent is the one the request deserves from the chain of widgets,
\* and a request that broke off is sent nothing.
THEOREM RightStatusHolds == Spec => []RightStatus
<1>1. IInv /\ RInv => RightStatus
  <2> SUFFICES ASSUME IInv, RInv, NEW c \in Conns, wire[c] # <<>>
               PROVE  /\ req[c].kind \in {"ok", "bad"}
                      /\ wire[c][1] = <<c, "header", Deserved(req[c])>>
    BY DEF RightStatus
  <2>1. /\ wire[c][1] = Total(c)[1] /\ wire[c][1] \in OwnToken(c)
        /\ Total(c) # <<>> /\ 1 \in DOMAIN Total(c)
    BY WireFirst
  <2>2. Due(c, wire[c][1][3]) /\ wire[c][1][2] = "header"
    BY <2>1 DEF RInv, Response, Chosen, WellFormed
  <2> QED
    BY <2>1, <2>2 DEF Due, OwnToken
<1> QED
  BY <1>1, Invariance, ResponseInvariance, PTL

\* When the thread of a client that stayed has ended, the whole response is with
\* the kernel: every block of the page, or of the error, and the last-chunk.
THEOREM AnsweredHolds == Spec => []Answered
<1>1. IInv /\ RInv => Answered
  <2> SUFFICES ASSUME IInv, RInv, NEW c \in Conns, pc[c] = "end", client[c] = "sent",
                      req[c].kind \in {"ok", "bad"}
               PROVE  /\ wire[c] # <<>> /\ wire[c][Len(wire[c])][2] = "last"
                      /\ LET code == wire[c][1][3] IN
                         Len(wire[c]) = 2 + (IF code = 200 THEN Page(req[c]) ELSE 1)
    BY DEF Answered
  <2>1. Response(c)
    BY DEF RInv
  <2>2. out[c] = <<>> /\ sent[c] /\ good[c]
    BY <2>1 DEF Response, Whole, HeaderOnce
  <2>3. wire[c] = Total(c)
    <3> DEFINE w == wire[c]
    <3>1. w \in Seq(OwnToken(c))
      BY DEF IInv, WireOwn, OwnSeq
    <3> HIDE DEF w
    <3>2. w \o <<>> = w
      BY <3>1, ConcatEmptySeq
    <3> QED
      BY <2>2, <3>2 DEF Total, w
  <2>4. Len(Total(c)) = 2 + Size(req[c]) /\ Total(c)[Len(Total(c))][2] = "last"
    BY <2>1, <2>2 DEF Response, Whole
  <2>5. Total(c) # <<>>
    BY <2>1, <2>2 DEF Response, Whole
  <2>6. Due(c, Total(c)[1][3])
    BY <2>1, <2>5 DEF Response, Chosen
  <2> QED
    BY <2>3, <2>4, <2>5, <2>6 DEF Due, Size
<1> QED
  BY <1>1, Invariance, ResponseInvariance, PTL
=============================================================================
