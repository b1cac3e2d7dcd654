------------------------- MODULE HttpExchangeProofs -------------------------
(***************************************************************************)
(* Proofs about HttpExchange, for every number of requests, every length   *)
(* of a body and every capacity of the kernel's queues.                    *)
(*                                                                         *)
(* The tokens under way from one end, in its buffer or with the kernel,    *)
(* are the rest of one message: from where the reader is in it to where    *)
(* the writer is.  Of responses this holds always; of requests it holds    *)
(* until the server answers one it has not read to its end.                *)
(***************************************************************************)
EXTENDS HttpExchange, Integers, SequenceTheorems, TLAPS

Token == ({"head"} \X Nat \X Framings \X Nat) \cup ({"data", "last"} \X Nat \X Nat \X Nat)

Under(e) == link[e] \o buf[e]

\* The end e is in the middle of a message, whose last token is still to come.
Writing(e) == pc[e] = "write" \/ (pc[e] = "flush" /\ then[e] = "write")

\* A foreign client writes no last-chunk.
Ending(e) == IF Writing(e) \/ (e = "client" /\ foreign) THEN 0 ELSE 1

\* The framings the message of e can announce.
Announces(e) ==
  IF e = "client" /\ foreign
  THEN IF put[e] + todo[e] = 0 THEN {"null", "sized"} ELSE {"sized"}
  ELSE {"chunked", "unknown"}

\* s is a message from the place p on: its head is at place 0, the pieces that
\* have been written follow, and the last-chunk is behind them.  m tells of the
\* message what it is.
Stretch(s, p, m) ==
  /\ Len(s) = m.put + 1 + m.ending - p
  /\ \A i \in 1 .. Len(s) :
       IF p + i - 1 = 0
       THEN /\ s[i][1] = "head" /\ s[i][2] = m.number /\ s[i][4] = m.pieces
            /\ s[i][3] \in m.framings
       ELSE s[i][1] = IF p + i - 1 <= m.put THEN "data" ELSE "last"

\* The message e is writing or has written last, as far as it has come.
Its(e) == [number |-> Message(e), put |-> put[e], pieces |-> put[e] + todo[e],
           ending |-> Ending(e), framings |-> Announces(e)]

\* Of the message of e, what is behind the place p is under way.
Rest(e, p) == Stretch(Under(e), p, Its(e))

\* The end e is in the middle of a message of d, and understands it.
Inside(e, d) ==
  /\ ~whole[e]
  /\ frame[e][1] \in Announces(d) \ {"unknown"}
  /\ frame[e][2] = put[d] + todo[d]
  /\ got[e] <= put[d]
  /\ Rest(d, got[e] + 1)

Types ==
  /\ foreign \in BOOLEAN /\ skipped \in BOOLEAN
  /\ pc \in [Ends -> {"idle", "write", "flush", "await", "read", "closed"}]
  /\ pc["server"] # "idle"
  /\ then \in [Ends -> {"write", "await"}]
  /\ asked \in Nat /\ serving \in Nat /\ header \in [Ends -> Nat]
  /\ buf \in [Ends -> Seq(Token)] /\ link \in [Ends -> Seq(Token)]
  /\ put \in [Ends -> Nat] /\ todo \in [Ends -> Nat] /\ got \in [Ends -> Nat]
  /\ frame \in [Ends -> Framings \X Nat]
  /\ whole \in [Ends -> BOOLEAN]

\* The end e, when it is not writing, has written and flushed its message,
\* unless the other end d closed the connection.
SettledAt(e, d) ==
  /\ pc[e] \in {"idle", "await", "read"} => buf[e] = <<>> /\ todo[e] = 0
  /\ pc[e] = "closed" /\ pc[d] # "closed" => buf[e] = <<>> /\ todo[e] = 0
  /\ pc[e] = "flush" /\ then[e] = "await" => todo[e] = 0

Settled == SettledAt("client", "server") /\ SettledAt("server", "client")

\* No message begins in s; message n does, once at most.
NoHead(s) == \A i \in 1 .. Len(s) : s[i][1] # "head"
OneHeadAt(s, n) ==
  \A i \in 1 .. Len(s) : s[i][1] = "head" =>
    s[i][2] = n /\ \A j \in 1 .. Len(s) : s[j][1] = "head" => j = i

\* The client asks one request at a time, and the head of one that the server
\* has parsed is not under way any more.
OneHead ==
  /\ serving <= asked /\ asked <= serving + 1
  /\ serving = asked => NoHead(Under("client"))
  /\ OneHeadAt(Under("client"), asked)

\* The server has nothing to write: it will look for the next request.
Rests == pc["server"] \in {"await", "closed"} \/ (pc["server"] = "flush" /\ then["server"] = "await")

Responses ==
  /\ pc["client"] = "idle" =>
       /\ serving = asked /\ Under("server") = <<>> /\ Rests
       /\ asked > 0 => got["client"] = put["server"] /\ todo["server"] = 0
  /\ pc["client"] \in {"write", "flush", "await"} =>
       /\ asked > 0
       /\ serving < asked => Under("server") = <<>> /\ Rests
       /\ serving = asked =>
            IF pc["server"] = "read" THEN Under("server") = <<>>
            ELSE Rest("server", 0)
  /\ pc["client"] = "read" =>
       serving = asked /\ pc["server"] # "read" /\ Inside("client", "server")

Requests ==
  ~skipped =>
    /\ pc["client"] # "closed" /\ pc["server"] # "closed" =>
         IF serving < asked THEN Rest("client", 0)
         ELSE IF pc["server"] = "read" /\ ~whole["server"] THEN Inside("server", "client")
         ELSE /\ Under("client") = <<>> /\ whole["server"]
              /\ asked > 0 => got["server"] = put["client"] /\ todo["client"] = 0
              /\ Writing("client") => foreign
    /\ pc["client"] = "closed" /\ pc["server"] # "closed" => Under("client") = <<>>
    /\ pc["client"] # "closed" /\ pc["server"] = "closed" => serving < asked

-----------------------------------------------------------------------------
(* Sequences of tokens.                                                    *)

LEMMA Others == Other("client") = "server" /\ Other("server") = "client"
BY DEF Other, Ends

\* What moves from the buffer to the kernel stays under way; what is appended
\* comes last, what is taken was first.
LEMMA Joined ==
  ASSUME NEW s \in Seq(Token), NEW t \in Seq(Token), NEW x \in Token
  PROVE  /\ s \o t \in Seq(Token) /\ s \o <<>> = s
         /\ s \o Append(t, x) = Append(s \o t, x)
         /\ t \o <<x>> = Append(t, x)
         /\ t # <<>> => Append(s, Head(t)) \o Tail(t) = s \o t
         /\ s # <<>> => /\ s \o t # <<>> /\ (s \o t)[1] = Head(s) /\ Head(s) \in Token
                        /\ Tail(s) \in Seq(Token) /\ Tail(s) \o t = Tail(s \o t)
         /\ s \o t = <<>> => s = <<>> /\ t = <<>>
<1>1. s \o t \in Seq(Token) /\ s \o <<>> = s /\ t \o <<x>> = Append(t, x)
  BY ConcatProperties, ConcatEmptySeq, AppendIsConcat
<1>2. s \o Append(t, x) = Append(s \o t, x)
  <2>1. <<x>> \in Seq(Token)
    OBVIOUS
  <2>2. Append(t, x) = t \o <<x>> /\ Append(s \o t, x) = (s \o t) \o <<x>>
    BY <1>1, AppendIsConcat
  <2> QED
    BY <2>1, <2>2, ConcatAssociative
<1>3. s \o t = <<>> => s = <<>> /\ t = <<>>
  BY ConcatEqualIffEmpty, ConcatEmptySeq, ConcatSimplifications
<1>4. ASSUME t # <<>> PROVE Append(s, Head(t)) \o Tail(t) = s \o t
  <2>1. /\ Head(t) \in Token /\ Tail(t) \in Seq(Token) /\ Len(Tail(t)) = Len(t) - 1
        /\ \A i \in 1 .. Len(Tail(t)) : Tail(t)[i] = t[i + 1]
    BY <1>4, HeadTailProperties
  <2>2. /\ Append(s, Head(t)) \in Seq(Token) /\ Len(Append(s, Head(t))) = Len(s) + 1
        /\ \A i \in 1 .. Len(s) : Append(s, Head(t))[i] = s[i]
        /\ Append(s, Head(t))[Len(s) + 1] = Head(t)
    BY <2>1, AppendProperties
  <2>3. Len(s) \in Nat /\ Len(t) \in Nat /\ Head(t) = t[1]
    BY LenProperties
  <2> DEFINE u == Append(s, Head(t))
             v == Tail(t)
  <2>4. /\ u \o v \in Seq(Token) /\ Len(u \o v) = Len(u) + Len(v)
        /\ \A i \in 1 .. Len(u) + Len(v) : (u \o v)[i] = IF i <= Len(u) THEN u[i] ELSE v[i - Len(u)]
    BY <2>1, <2>2, ConcatProperties
  <2>5. /\ s \o t \in Seq(Token) /\ Len(s \o t) = Len(s) + Len(t)
        /\ \A i \in 1 .. Len(s) + Len(t) : (s \o t)[i] = IF i <= Len(s) THEN s[i] ELSE t[i - Len(s)]
    BY ConcatProperties
  <2>6. Len(u) = Len(s) + 1 /\ Len(v) = Len(t) - 1
    BY <2>1, <2>2
  <2>7. \A i \in 1 .. Len(s) : u[i] = s[i]
    BY <2>2
  <2>8. u[Len(s) + 1] = t[1] /\ (\A i \in 1 .. Len(t) - 1 : v[i] = t[i + 1])
    BY <2>1, <2>2, <2>3
  <2> HIDE DEF u, v
  <2>9. \A i \in 1 .. Len(s) + Len(t) : (u \o v)[i] = (s \o t)[i]
    <3> SUFFICES ASSUME NEW i \in 1 .. Len(s) + Len(t) PROVE (u \o v)[i] = (s \o t)[i]
      OBVIOUS
    <3>1. CASE i <= Len(s)
      BY <3>1, <2>3, <2>4, <2>5, <2>6, <2>7
    <3>2. CASE i = Len(s) + 1
      <4>1. (u \o v)[i] = u[Len(s) + 1] /\ (s \o t)[i] = t[1]
        BY <3>2, <2>3, <2>4, <2>5, <2>6
      <4> QED
        BY <4>1, <2>8
    <3>3. CASE i > Len(s) + 1
      <4>1. (u \o v)[i] = v[i - (Len(s) + 1)] /\ (s \o t)[i] = t[i - Len(s)]
        BY <3>3, <2>3, <2>4, <2>5, <2>6
      <4>2. i - (Len(s) + 1) \in 1 .. Len(t) - 1 /\ (i - (Len(s) + 1)) + 1 = i - Len(s)
        BY <3>3, <2>3
      <4> QED
        BY <4>1, <4>2, <2>8
    <3> QED
      <4>1. i \in Int /\ Len(s) \in Int
        BY <2>3
      <4>2. i <= Len(s) \/ i = Len(s) + 1 \/ i > Len(s) + 1
        BY <4>1
      <4> QED
        BY <3>1, <3>2, <3>3, <4>2
  <2>10. u \o v = s \o t
    <3>1. Len(u \o v) = Len(s) + Len(t)
      BY <2>3, <2>4, <2>6
    <3>2. \A i \in 1 .. Len(u \o v) : (u \o v)[i] = (s \o t)[i]
      BY <3>1, <2>9
    <3>3. u \o v \in Seq(Token) /\ s \o t \in Seq(Token) /\ Len(u \o v) = Len(s \o t)
      BY <3>1, <2>4, <2>5
    <3> QED
      BY <3>2, <3>3, SeqEqual
  <2> QED
    BY <2>10 DEF u, v
<1>5. ASSUME s # <<>>
      PROVE  /\ s \o t # <<>> /\ (s \o t)[1] = Head(s) /\ Head(s) \in Token
             /\ Tail(s) \in Seq(Token) /\ Tail(s) \o t = Tail(s \o t)
  <2>1. /\ Head(s) \in Token /\ Tail(s) \in Seq(Token) /\ Len(Tail(s)) = Len(s) - 1
        /\ \A i \in 1 .. Len(Tail(s)) : Tail(s)[i] = s[i + 1]
    BY <1>5, HeadTailProperties
  <2>2. Len(s) \in Nat \ {0} /\ Len(t) \in Nat /\ Head(s) = s[1] /\ s \o t # <<>>
    BY <1>3, <1>5, EmptySeq, LenProperties
  <2>3. /\ s \o t \in Seq(Token) /\ Len(s \o t) = Len(s) + Len(t)
        /\ \A i \in 1 .. Len(s) + Len(t) : (s \o t)[i] = IF i <= Len(s) THEN s[i] ELSE t[i - Len(s)]
    BY ConcatProperties
  <2>4. (s \o t)[1] = Head(s)
    BY <2>2, <2>3
  <2> DEFINE v == Tail(s)
             w == Tail(s \o t)
  <2>5. v \in Seq(Token) /\ Len(v) = Len(s) - 1 /\ (\A i \in 1 .. Len(s) - 1 : v[i] = s[i + 1])
    BY <2>1
  <2>6. /\ w \in Seq(Token) /\ Len(w) = Len(s) + Len(t) - 1
        /\ \A i \in 1 .. Len(s) + Len(t) - 1 : w[i] = (s \o t)[i + 1]
    BY <2>2, <2>3, HeadTailProperties
  <2>7. /\ v \o t \in Seq(Token) /\ Len(v \o t) = Len(v) + Len(t)
        /\ \A i \in 1 .. Len(v) + Len(t) : (v \o t)[i] = IF i <= Len(v) THEN v[i] ELSE t[i - Len(v)]
    BY <2>5, ConcatProperties
  <2> HIDE DEF v, w
  <2>8. \A i \in 1 .. Len(s) + Len(t) - 1 : (v \o t)[i] = w[i]
    <3> SUFFICES ASSUME NEW i \in 1 .. Len(s) + Len(t) - 1 PROVE (v \o t)[i] = w[i]
      OBVIOUS
    <3>1. CASE i <= Len(s) - 1
      <4>1. (v \o t)[i] = v[i] /\ v[i] = s[i + 1]
        BY <3>1, <2>2, <2>5, <2>7
      <4>2. w[i] = (s \o t)[i + 1] /\ (s \o t)[i + 1] = s[i + 1]
        BY <3>1, <2>2, <2>3, <2>6
      <4> QED
        BY <4>1, <4>2
    <3>2. CASE i > Len(s) - 1
      <4>1. (v \o t)[i] = t[i - (Len(s) - 1)]
        BY <3>2, <2>2, <2>5, <2>7
      <4>2. w[i] = (s \o t)[i + 1] /\ (s \o t)[i + 1] = t[(i + 1) - Len(s)]
        BY <3>2, <2>2, <2>3, <2>6
      <4>3. i - (Len(s) - 1) = (i + 1) - Len(s)
        BY <2>2
      <4> QED
        BY <4>1, <4>2, <4>3
    <3> QED
      <4>1. i \in Int /\ Len(s) \in Int
        BY <2>2
      <4>2. i <= Len(s) - 1 \/ i > Len(s) - 1
        BY <4>1
      <4> QED
        BY <3>1, <3>2, <4>2
  <2>9. v \o t = w
    <3>1. Len(v \o t) = Len(s) + Len(t) - 1
      BY <2>2, <2>5, <2>7
    <3>2. \A i \in 1 .. Len(v \o t) : (v \o t)[i] = w[i]
      BY <3>1, <2>8
    <3>3. v \o t \in Seq(Token) /\ w \in Seq(Token) /\ Len(v \o t) = Len(w)
      BY <3>1, <2>6, <2>7
    <3> QED
      BY <3>2, <3>3, SeqEqual
  <2> QED
    BY <2>1, <2>2, <2>4, <2>9 DEF v, w
<1> QED
  BY <1>1, <1>2, <1>3, <1>4, <1>5

Messages == [number : Nat, put : Nat, pieces : Nat, ending : {0, 1}, framings : SUBSET Framings]

\* A message grows by a piece, or by its last-chunk, and shrinks from its front.
LEMMA StretchPiece ==
  ASSUME NEW m \in Messages, NEW p \in Nat, NEW s \in Seq(Token), NEW x \in Token,
         Stretch(s, p, m), m.ending = 0, x[1] = "data"
  PROVE  Stretch(Append(s, x), p, [m EXCEPT !.put = @ + 1])
<1>1. /\ Len(Append(s, x)) = Len(s) + 1 /\ Append(s, x)[Len(s) + 1] = x
      /\ \A i \in 1 .. Len(s) : Append(s, x)[i] = s[i]
  BY AppendProperties
<1>2. Len(s) \in Nat /\ m.put \in Nat /\ Len(s) = m.put + 1 - p
  BY LenProperties DEF Messages, Stretch
<1> DEFINE n == [m EXCEPT !.put = @ + 1]
           u == Append(s, x)
<1>3. /\ n.put = m.put + 1 /\ n.ending = 0 /\ n.number = m.number /\ n.pieces = m.pieces
      /\ n.framings = m.framings
  BY DEF Messages
<1>4. Len(u) = Len(s) + 1 /\ u[Len(s) + 1] = x /\ (\A i \in 1 .. Len(s) : u[i] = s[i])
  BY <1>1
<1> HIDE DEF n, u
<1>5. ASSUME NEW i \in 1 .. Len(u)
      PROVE  IF p + i - 1 = 0
             THEN /\ u[i][1] = "head" /\ u[i][2] = n.number /\ u[i][4] = n.pieces
                  /\ u[i][3] \in n.framings
             ELSE u[i][1] = IF p + i - 1 <= n.put THEN "data" ELSE "last"
  <2>1. CASE i <= Len(s)
    <3>1. u[i] = s[i] /\ i \in 1 .. Len(s)
      BY <2>1, <1>2, <1>4
    <3>2. p + i - 1 <= m.put /\ p + i - 1 <= n.put
      BY <2>1, <1>2, <1>3
    <3> QED
      BY <3>1, <3>2, <1>3 DEF Stretch
  <2>2. CASE i = Len(s) + 1
    <3>1. p + i - 1 = n.put /\ p + i - 1 # 0
      BY <2>2, <1>2, <1>3
    <3> QED
      BY <3>1, <2>2, <1>2, <1>3, <1>4
  <2> QED
    BY <2>1, <2>2, <1>2, <1>4
<1>6. Len(u) = n.put + 1 + n.ending - p
  BY <1>2, <1>3, <1>4
<1> QED
  BY <1>5, <1>6 DEF Stretch, n, u

LEMMA StretchEnds ==
  ASSUME NEW m \in Messages, NEW p \in Nat, NEW s \in Seq(Token), NEW x \in Token,
         Stretch(s, p, m), m.ending = 0, x[1] = "last"
  PROVE  Stretch(Append(s, x), p, [m EXCEPT !.ending = 1])
<1>1. /\ Len(Append(s, x)) = Len(s) + 1 /\ Append(s, x)[Len(s) + 1] = x
      /\ \A i \in 1 .. Len(s) : Append(s, x)[i] = s[i]
  BY AppendProperties
<1>2. Len(s) \in Nat /\ m.put \in Nat /\ Len(s) = m.put + 1 - p
  BY LenProperties DEF Messages, Stretch
<1> DEFINE n == [m EXCEPT !.ending = 1]
           u == Append(s, x)
<1>3. /\ n.put = m.put /\ n.ending = 1 /\ n.number = m.number /\ n.pieces = m.pieces
      /\ n.framings = m.framings
  BY DEF Messages
<1>4. Len(u) = Len(s) + 1 /\ u[Len(s) + 1] = x /\ (\A i \in 1 .. Len(s) : u[i] = s[i])
  BY <1>1
<1> HIDE DEF n, u
<1>5. ASSUME NEW i \in 1 .. Len(u)
      PROVE  IF p + i - 1 = 0
             THEN /\ u[i][1] = "head" /\ u[i][2] = n.number /\ u[i][4] = n.pieces
                  /\ u[i][3] \in n.framings
             ELSE u[i][1] = IF p + i - 1 <= n.put THEN "data" ELSE "last"
  <2>1. CASE i <= Len(s)
    <3>1. u[i] = s[i] /\ i \in 1 .. Len(s)
      BY <2>1, <1>2, <1>4
    <3> QED
      BY <3>1, <1>3 DEF Stretch
  <2>2. CASE i = Len(s) + 1
    <3>1. p + i - 1 = n.put + 1 /\ p + i - 1 # 0 /\ ~(p + i - 1 <= n.put)
      BY <2>2, <1>2, <1>3
    <3> QED
      BY <3>1, <2>2, <1>3, <1>4
  <2> QED
    BY <2>1, <2>2, <1>2, <1>4
<1>6. Len(u) = n.put + 1 + n.ending - p
  BY <1>2, <1>3, <1>4
<1> QED
  BY <1>5, <1>6 DEF Stretch, n, u

LEMMA StretchTail ==
  ASSUME NEW m \in Messages, NEW p \in Nat, NEW s \in Seq(Token), Stretch(s, p, m), s # <<>>
  PROVE  Stretch(Tail(s), p + 1, m)
<1>1. Len(Tail(s)) = Len(s) - 1 /\ (\A i \in 1 .. Len(s) - 1 : Tail(s)[i] = s[i + 1])
  BY HeadTailProperties
<1>2. Len(s) \in Nat /\ m.put \in Nat /\ m.ending \in Nat /\ Len(s) = m.put + 1 + m.ending - p
  BY LenProperties DEF Messages, Stretch
<1>3. ASSUME NEW i \in 1 .. Len(s) - 1
      PROVE  IF (p + 1) + i - 1 = 0
             THEN /\ s[i + 1][1] = "head" /\ s[i + 1][2] = m.number /\ s[i + 1][4] = m.pieces
                  /\ s[i + 1][3] \in m.framings
             ELSE s[i + 1][1] = IF (p + 1) + i - 1 <= m.put THEN "data" ELSE "last"
  <2>1. i + 1 \in 1 .. Len(s) /\ p + (i + 1) - 1 = (p + 1) + i - 1
    BY <1>2
  <2> DEFINE j == i + 1
  <2>2. IF p + j - 1 = 0
        THEN /\ s[j][1] = "head" /\ s[j][2] = m.number /\ s[j][4] = m.pieces
             /\ s[j][3] \in m.framings
        ELSE s[j][1] = IF p + j - 1 <= m.put THEN "data" ELSE "last"
    BY <2>1 DEF Stretch
  <2> QED
    BY <2>1, <2>2
<1>4. Len(Tail(s)) = m.put + 1 + m.ending - (p + 1)
  <2>1. PICK a \in Nat, b \in Nat, l \in Nat : a = m.put /\ b = m.ending /\ l = Len(s)
    BY <1>2
  <2>2. l = a + 1 + b - p
    BY <1>2, <2>1
  <2>3. l - 1 = a + 1 + b - (p + 1)
    BY <2>2
  <2> QED
    BY <1>1, <2>1, <2>3
<1> QED
  BY <1>1, <1>3, <1>4 DEF Stretch

LEMMA StretchOne ==
  ASSUME NEW m \in Messages, NEW x \in Token, m.put = 0, m.ending = 0,
         x[1] = "head", x[2] = m.number, x[4] = m.pieces, x[3] \in m.framings
  PROVE  Stretch(Append(<<>>, x), 0, m)
<1>1. Append(<<>>, x) = <<x>>
  OBVIOUS
<1>2. Len(<<x>>) = 1 /\ <<x>>[1] = x
  OBVIOUS
<1>3. m.put + 1 + m.ending - 0 = 1
  BY DEF Messages
<1>4. \A i \in 1 .. 1 : 0 + i - 1 = 0 /\ i = 1
  OBVIOUS
<1> QED
  BY <1>1, <1>2, <1>3, <1>4 DEF Stretch

\* What the next token tells the reader.
LEMMA StretchHead ==
  ASSUME NEW m \in Messages, NEW p \in Nat, NEW s \in Seq(Token), Stretch(s, p, m)
  PROVE  /\ s # <<>> => /\ p = 0 => /\ s[1][1] = "head" /\ s[1][2] = m.number
                                    /\ s[1][4] = m.pieces /\ s[1][3] \in m.framings
                        /\ p > 0 => s[1][1] = IF p <= m.put THEN "data" ELSE "last"
         /\ p <= m.put + m.ending => s # <<>>
         /\ p = m.put + 1 + m.ending => s = <<>>
         /\ p <= m.put + 1 + m.ending
<1>1. Len(s) \in Nat /\ m.put \in Nat /\ m.ending \in Nat /\ Len(s) = m.put + 1 + m.ending - p
  BY LenProperties DEF Messages, Stretch
<1>2. (s # <<>> => Len(s) > 0) /\ (Len(s) = 0 => s = <<>>) /\ (s = <<>> => Len(s) = 0)
  BY <1>1, EmptySeq
<1>3. s # <<>> => IF p = 0
                  THEN /\ s[1][1] = "head" /\ s[1][2] = m.number /\ s[1][4] = m.pieces
                       /\ s[1][3] \in m.framings
                  ELSE s[1][1] = IF p <= m.put THEN "data" ELSE "last"
  <2>1. p + 1 - 1 = p
    OBVIOUS
  <2>2. s # <<>> => 1 \in 1 .. Len(s)
    BY <1>1, <1>2
  <2> QED
    BY <2>1, <2>2 DEF Stretch
<1>4. /\ p <= m.put + m.ending => Len(s) # 0
      /\ p = m.put + 1 + m.ending => Len(s) = 0
      /\ p <= m.put + 1 + m.ending
  BY <1>1
<1> QED
  BY <1>2, <1>3, <1>4
-----------------------------------------------------------------------------
(* Types.                                                                  *)

LEMMA EachEnd == \A e \in Ends : Other(e) \in Ends /\ Message(e) \in {asked, serving}
BY Others DEF Ends, Message

LEMMA TokenFields ==
  ASSUME NEW x \in Token
  PROVE  /\ x[1] \in {"head", "data", "last"} /\ x[2] \in Nat /\ x[4] \in Nat
         /\ x[1] = "head" => x[3] \in Framings
BY DEF Token

LEMMA TokensMade ==
  ASSUME NEW n \in Nat, NEW k \in Nat, NEW f \in Framings
  PROVE  <<"head", n, f, k>> \in Token /\ <<"data", n, k, 0>> \in Token /\ <<"last", n, 0, 0>> \in Token
BY DEF Token

LEMMA PutHeadTypes ==
  ASSUME Types, NEW e \in Ends, NEW n \in Nat, NEW f \in Framings, NEW b \in Nat, PutHead(e, n, f, b)
  PROVE  /\ buf' \in [Ends -> Seq(Token)] /\ todo' \in [Ends -> Nat] /\ put' \in [Ends -> Nat]
         /\ pc' \in [Ends -> {"idle", "write", "flush", "await", "read", "closed"}]
         /\ pc'["server"] # "idle"
<1>1. <<"head", n, f, b>> \in Token /\ buf[e] \in Seq(Token)
  BY TokensMade DEF Types
<1>2. Append(buf[e], <<"head", n, f, b>>) \in Seq(Token)
  BY <1>1, AppendProperties
<1>3. buf' \in [Ends -> Seq(Token)]
  BY <1>2 DEF Types, PutHead
<1> QED
  BY <1>3 DEF Types, PutHead

LEMMA FlushThenTypes ==
  ASSUME Types, NEW e \in Ends, NEW toks \in Seq(Token), NEW l \in {"write", "await"},
         FlushThen(e, toks, l)
  PROVE  /\ buf' \in [Ends -> Seq(Token)] /\ then' \in [Ends -> {"write", "await"}]
         /\ pc' \in [Ends -> {"idle", "write", "flush", "await", "read", "closed"}]
         /\ pc'["server"] # "idle"
<1>1. buf[e] \o toks \in Seq(Token)
  BY ConcatProperties DEF Types
<1>2. buf' \in [Ends -> Seq(Token)]
  BY <1>1 DEF Types, FlushThen
<1> QED
  BY <1>2 DEF Types, FlushThen

LEMMA TakeTypes ==
  ASSUME Types, NEW e \in Ends, link[Other(e)] # <<>>, Take(e)
  PROVE  link' \in [Ends -> Seq(Token)] /\ Head(link[Other(e)]) \in Token
<1>1. Other(e) \in Ends /\ link[Other(e)] \in Seq(Token)
  BY EachEnd DEF Types
<1>2. Tail(link[Other(e)]) \in Seq(Token) /\ Head(link[Other(e)]) \in Token
  BY <1>1, HeadTailProperties
<1> QED
  BY <1>1, <1>2 DEF Types, Take

LEMMA RequestTypes == Types /\ Request => Types'
<1> SUFFICES ASSUME Types, Request PROVE Types'
  OBVIOUS
<1>1. PICK b \in 0 .. MaxPieces :
        \/ /\ ~foreign
           /\ header' = [header EXCEPT !["client"] = @ + 1]
           /\ PutHead("client", asked', Announced(header'["client"]), b)
        \/ /\ foreign
           /\ \E f \in {"null", "sized"} :
                (f = "null" => b = 0) /\ PutHead("client", asked', f, b)
           /\ UNCHANGED header
  BY DEF Request
<1>2. asked' \in Nat /\ b \in Nat /\ header' \in [Ends -> Nat] /\ "client" \in Ends
  <2>1. asked' \in Nat /\ "client" \in Ends
    BY DEF Request, Types, Ends
  <2>2. b \in Nat
    BY HttpExchangeAssumption
  <2>3. header' = [header EXCEPT !["client"] = @ + 1] \/ header' = header
    BY <1>1
  <2>4. header' \in [Ends -> Nat]
    <3>1. header \in [Ends -> Nat] /\ header["client"] + 1 \in Nat
      BY <2>1 DEF Types
    <3> QED
      BY <2>1, <2>3, <3>1
  <2> QED
    BY <2>1, <2>2, <2>4
<1>3. \E f \in Framings : PutHead("client", asked', f, b)
  BY <1>1 DEF Framings, Announced
<1>4. /\ buf' \in [Ends -> Seq(Token)] /\ todo' \in [Ends -> Nat] /\ put' \in [Ends -> Nat]
      /\ pc' \in [Ends -> {"idle", "write", "flush", "await", "read", "closed"}]
      /\ pc'["server"] # "idle"
  <2>1. PICK f \in Framings : PutHead("client", asked', f, b)
    BY <1>3
  <2>2. PICK n \in Nat : n = asked'
    BY <1>2
  <2> QED
    BY <1>2, <2>1, <2>2, PutHeadTypes
<1> QED
  BY <1>2, <1>4 DEF Request, Types

LEMMA RespondTypes == Types /\ Respond => Types'
<1> SUFFICES ASSUME Types, Respond PROVE Types'
  OBVIOUS
<1>1. PICK b \in 0 .. MaxPieces : PutHead("server", serving, Announced(header'["server"]), b)
  BY DEF Respond
<1>2. b \in Nat /\ header' \in [Ends -> Nat] /\ "server" \in Ends
  <2>1. b \in Nat /\ "server" \in Ends
    BY HttpExchangeAssumption DEF Ends
  <2>2. header \in [Ends -> Nat] /\ header["server"] + 1 \in Nat
    BY <2>1 DEF Types
  <2>3. header' = [header EXCEPT !["server"] = @ + 1]
    BY DEF Respond
  <2> QED
    BY <2>1, <2>2, <2>3
<1>3. PICK f \in Framings : PutHead("server", serving, f, b)
  BY <1>1 DEF Framings, Announced
<1>4. serving \in Nat
  BY DEF Types
<1>5. /\ buf' \in [Ends -> Seq(Token)] /\ todo' \in [Ends -> Nat] /\ put' \in [Ends -> Nat]
      /\ pc' \in [Ends -> {"idle", "write", "flush", "await", "read", "closed"}]
      /\ pc'["server"] # "idle"
  BY <1>2, <1>3, <1>4, PutHeadTypes
<1> QED
  BY <1>2, <1>5 DEF Respond, Types

LEMMA WritePieceTypes ==
  ASSUME Types, NEW e \in Ends, WritePiece(e)
  PROVE  Types'
<1>1. put' \in [Ends -> Nat] /\ todo' \in [Ends -> Nat]
  <2>1. /\ todo[e] > 0 /\ put' = [put EXCEPT ![e] = @ + 1]
        /\ todo' = [todo EXCEPT ![e] = @ - 1]
    BY DEF WritePiece
  <2>2. /\ put \in [Ends -> Nat] /\ todo \in [Ends -> Nat]
        /\ put[e] + 1 \in Nat /\ todo[e] - 1 \in Nat
    BY <2>1 DEF Types
  <2> QED
    BY <2>1, <2>2
<1>2. PICK k \in Nat : k = put'[e]
  BY <1>1
<1>3. Message(e) \in Nat
  BY EachEnd DEF Types
<1>4. <<<<"data", Message(e), k, 0>>>> \in Seq(Token)
  <2>1. <<"data", Message(e), k, 0>> \in Token
    BY <1>2, <1>3 DEF Token
  <2> QED
    BY <2>1
<1>5. FlushThen(e, <<<<"data", Message(e), k, 0>>>>, "write")
  BY <1>2 DEF WritePiece
<1>6. /\ buf' \in [Ends -> Seq(Token)] /\ then' \in [Ends -> {"write", "await"}]
      /\ pc' \in [Ends -> {"idle", "write", "flush", "await", "read", "closed"}]
      /\ pc'["server"] # "idle"
  <2>1. PICK toks \in Seq(Token) : FlushThen(e, toks, "write")
    BY <1>4, <1>5
  <2> QED
    BY <2>1, FlushThenTypes
<1> QED
  BY <1>1, <1>6 DEF Types, WritePiece

LEMMA EndMessageTypes ==
  ASSUME Types, NEW e \in Ends, EndMessage(e)
  PROVE  Types'
<1>1. <<"last", Message(e), 0, 0>> \in Token
  BY EachEnd DEF Types, Token
<1>2. (IF e = "client" /\ foreign THEN <<>> ELSE <<<<"last", Message(e), 0, 0>>>>) \in Seq(Token)
  BY <1>1
<1>3. PICK toks \in Seq(Token) : FlushThen(e, toks, "await")
  BY <1>2 DEF EndMessage
<1>4. /\ buf' \in [Ends -> Seq(Token)] /\ then' \in [Ends -> {"write", "await"}]
      /\ pc' \in [Ends -> {"idle", "write", "flush", "await", "read", "closed"}]
      /\ pc'["server"] # "idle"
  BY <1>3, FlushThenTypes
<1> QED
  BY <1>4 DEF Types, EndMessage

LEMMA TransferTypes ==
  ASSUME Types, NEW e \in Ends, Transfer(e)
  PROVE  Types'
<1>1. CASE buf[e] = <<>>
  <2>1. /\ pc' = [pc EXCEPT ![e] = then[e]]
        /\ UNCHANGED <<foreign, then, asked, serving, header, buf, link, put, todo, frame, got, whole,
                       skipped>>
    BY <1>1 DEF Transfer
  <2>2. then[e] \in {"write", "await"}
    BY DEF Types
  <2>3. /\ pc' \in [Ends -> {"idle", "write", "flush", "await", "read", "closed"}]
        /\ pc'["server"] # "idle"
    BY <2>1, <2>2 DEF Types, Ends
  <2> QED
    BY <2>1, <2>3 DEF Types
<1>2. CASE buf[e] # <<>>
  <2>1. Head(buf[e]) \in Token /\ Tail(buf[e]) \in Seq(Token)
    BY <1>2, HeadTailProperties DEF Types
  <2>2. Append(link[e], Head(buf[e])) \in Seq(Token)
    BY <2>1, AppendProperties DEF Types
  <2>3. buf' \in [Ends -> Seq(Token)] /\ link' \in [Ends -> Seq(Token)]
    BY <1>2, <2>1, <2>2 DEF Types, Transfer
  <2> QED
    BY <1>2, <2>3 DEF Types, Transfer
<1> QED
  BY <1>1, <1>2

LEMMA ParseTypes ==
  ASSUME Types, NEW e \in Ends, Parse(e)
  PROVE  Types'
<1>1. CASE link[Other(e)] # <<>> /\ Take(e)
  <2>1. link' \in [Ends -> Seq(Token)] /\ Head(link[Other(e)]) \in Token
    BY <1>1, TakeTypes
  <2>2. PICK t \in Token : t = Head(link[Other(e)])
    BY <2>1
  <2>3. /\ t[2] \in Nat /\ t[4] \in Nat
        /\ t[1] = "head" => <<t[3], t[4]>> \in Framings \X Nat
    BY TokenFields
  <2>4. CASE t[1] = "head" /\ t[3] # "unknown"
    <3>1. /\ pc' = [pc EXCEPT ![e] = "read"] /\ frame' = [frame EXCEPT ![e] = <<t[3], t[4]>>]
          /\ got' = [got EXCEPT ![e] = 0] /\ whole' = [whole EXCEPT ![e] = FALSE]
          /\ serving' = (IF e = "server" THEN t[2] ELSE serving)
      BY <1>1, <2>2, <2>4 DEF Parse
    <3>2. frame' \in [Ends -> Framings \X Nat]
      BY <2>3, <2>4, <3>1 DEF Types
    <3>3. serving' \in Nat
      BY <2>3, <3>1 DEF Types
    <3> QED
      BY <2>1, <3>1, <3>2, <3>3 DEF Types, Ends, Parse, Kept
  <2>5. CASE ~(t[1] = "head" /\ t[3] # "unknown")
    <3>1. Close(e) /\ UNCHANGED <<frame, got, whole, serving>>
      BY <1>1, <2>2, <2>5 DEF Parse
    <3> QED
      BY <2>1, <3>1 DEF Types, Ends, Parse, Kept, Close
  <2> QED
    BY <2>4, <2>5
<1>2. CASE link[Other(e)] = <<>>
  <2>1. Close(e) /\ UNCHANGED <<link, frame, got, whole, serving>>
    BY <1>2 DEF Parse
  <2> QED
    BY <1>2, <2>1 DEF Types, Ends, Parse, Close, Kept
<1> QED
  BY <1>1, <1>2 DEF Parse

LEMMA ReadsTypes ==
  ASSUME Types, NEW e \in Ends, ReadNull(e) \/ ReadSized(e) \/ ReadChunked(e)
  PROVE  Types'
<1>1. UNCHANGED <<frame, serving, Kept>>
  BY DEF ReadNull, ReadSized, ReadChunked
<1>2. \/ End(e) /\ UNCHANGED got
      \/ got' = [got EXCEPT ![e] = @ + 1] /\ UNCHANGED <<pc, whole>>
  BY DEF ReadNull, ReadSized, ReadChunked, ReadPiece
<1>3. pc[e] = "read"
  BY DEF ReadNull, ReadSized, ReadChunked
<1>4. link' = link \/ (link[Other(e)] # <<>> /\ Take(e))
  BY DEF ReadNull, ReadSized, ReadChunked, ReadPiece
<1>5. link' \in [Ends -> Seq(Token)]
  BY <1>4, TakeTypes DEF Types
<1>6. CASE End(e) /\ UNCHANGED got
  BY <1>1, <1>3, <1>5, <1>6 DEF Types, Kept, End
<1>7. CASE got' = [got EXCEPT ![e] = @ + 1] /\ UNCHANGED <<pc, whole>>
  BY <1>1, <1>5, <1>7 DEF Types, Kept
<1> QED
  BY <1>2, <1>6, <1>7

LEMMA ClosingTypes ==
  ASSUME Types, NEW e \in Ends, Close(e), UNCHANGED <<link, frame, got, whole, serving, Kept>>
  PROVE  Types'
BY DEF Types, Close, Kept

LEMMA TypesStep == Types /\ [Next]_vars => Types'
<1>1. ASSUME Types, Next PROVE Types'
  <2>1. CASE Request
    BY <1>1, <2>1, RequestTypes
  <2>2. CASE Respond
    BY <1>1, <2>2, RespondTypes
  <2>3. CASE Leave
    BY <1>1, <2>3, ClosingTypes DEF Leave, Ends
  <2>4. ASSUME NEW e \in Ends, Writes(e) PROVE Types'
    BY <1>1, <2>4, WritePieceTypes, EndMessageTypes, TransferTypes, ClosingTypes
       DEF Writes, FlushFails
  <2>5. ASSUME NEW e \in Ends, Reads(e) PROVE Types'
    BY <1>1, <2>5, ParseTypes, ReadsTypes DEF Reads
  <2> QED
    BY <1>1, <2>1, <2>2, <2>3, <2>4, <2>5 DEF Next
<1>2. ASSUME Types, UNCHANGED vars PROVE Types'
  BY <1>2 DEF Types, vars
<1> QED
  BY <1>1, <1>2
-----------------------------------------------------------------------------
(* Heads.                                                                  *)

LEMMA HeadsAppended ==
  ASSUME NEW s \in Seq(Token), NEW x \in Token, NEW n
  PROVE  /\ x[1] # "head" /\ NoHead(s) => NoHead(Append(s, x))
         /\ x[1] # "head" /\ OneHeadAt(s, n) => OneHeadAt(Append(s, x), n)
         /\ x[1] = "head" /\ x[2] = n /\ NoHead(s) => OneHeadAt(Append(s, x), n)
<1>1. /\ Len(Append(s, x)) = Len(s) + 1 /\ Append(s, x)[Len(s) + 1] = x
      /\ \A i \in 1 .. Len(s) : Append(s, x)[i] = s[i]
  BY AppendProperties
<1>2. Len(s) \in Nat
  BY LenProperties
<1>3. \A i \in 1 .. Len(s) + 1 : i \in 1 .. Len(s) \/ i = Len(s) + 1
  BY <1>2
<1>4. x[1] # "head" /\ NoHead(s) => NoHead(Append(s, x))
  BY <1>1, <1>3 DEF NoHead
<1>5. x[1] # "head" /\ OneHeadAt(s, n) => OneHeadAt(Append(s, x), n)
  BY <1>1, <1>3 DEF OneHeadAt
<1>6. x[1] = "head" /\ x[2] = n /\ NoHead(s) => OneHeadAt(Append(s, x), n)
  BY <1>1, <1>3 DEF NoHead, OneHeadAt
<1> QED
  BY <1>4, <1>5, <1>6

LEMMA HeadsTaken ==
  ASSUME NEW s \in Seq(Token), s # <<>>, NEW n, OneHeadAt(s, n)
  PROVE  /\ NoHead(s) => NoHead(Tail(s)) /\ s[1][1] # "head"
         /\ OneHeadAt(Tail(s), n)
         /\ s[1][1] = "head" => NoHead(Tail(s)) /\ s[1][2] = n
<1>1. Len(Tail(s)) = Len(s) - 1 /\ (\A i \in 1 .. Len(s) - 1 : Tail(s)[i] = s[i + 1])
  BY HeadTailProperties
<1>2. Len(s) \in Nat \ {0}
  BY EmptySeq
<1>3. /\ \A i \in 1 .. Len(s) - 1 : i + 1 \in 1 .. Len(s) /\ i + 1 # 1
      /\ 1 \in 1 .. Len(s) /\ (\A i, j \in 1 .. Len(s) - 1 : i + 1 = j + 1 => i = j)
  BY <1>2
<1>4. NoHead(s) => NoHead(Tail(s)) /\ s[1][1] # "head"
  BY <1>1, <1>3 DEF NoHead
<1>5. OneHeadAt(Tail(s), n)
  BY <1>1, <1>3 DEF OneHeadAt
<1>6. s[1][1] = "head" => NoHead(Tail(s)) /\ s[1][2] = n
  BY <1>1, <1>3 DEF OneHeadAt, NoHead
<1> QED
  BY <1>4, <1>5, <1>6

LEMMA NoHeadOneHead == \A s, n : (NoHead(s) => OneHeadAt(s, n)) /\ NoHead(<<>>)
BY DEF NoHead, OneHeadAt

\* What is under way from an end is a sequence of tokens, and its message is one.
LEMMA ItsTypes ==
  ASSUME Types, NEW e \in Ends
  PROVE  /\ Under(e) \in Seq(Token) /\ link[e] \in Seq(Token) /\ buf[e] \in Seq(Token)
         /\ Its(e) \in Messages /\ Its(e).number = Message(e) /\ Its(e).put = put[e]
         /\ Its(e).pieces = put[e] + todo[e] /\ Its(e).ending = Ending(e)
         /\ Its(e).framings = Announces(e)
         /\ put[e] \in Nat /\ todo[e] \in Nat /\ got[e] \in Nat /\ Ending(e) \in {0, 1}
         /\ frame[e][1] \in Framings /\ frame[e][2] \in Nat
         /\ Under(e) = <<>> => link[e] = <<>> /\ buf[e] = <<>>
<1>1. link[e] \in Seq(Token) /\ buf[e] \in Seq(Token)
  BY DEF Types
<1>2. <<"last", 0, 0, 0>> \in Token
  BY DEF Token
<1>3. Under(e) \in Seq(Token) /\ (Under(e) = <<>> => link[e] = <<>> /\ buf[e] = <<>>)
  BY <1>1, <1>2, Joined DEF Under
<1>4. put[e] \in Nat /\ todo[e] \in Nat /\ got[e] \in Nat
  BY DEF Types
<1>5. put[e] + todo[e] \in Nat /\ Ending(e) \in {0, 1}
  BY <1>4 DEF Ending
<1>6. Announces(e) \in SUBSET Framings
  BY DEF Announces, Framings
<1>7. Message(e) \in Nat
  BY EachEnd DEF Types
<1>8. Its(e) \in Messages
  BY <1>4, <1>5, <1>6, <1>7 DEF Its, Messages
<1>9. frame[e][1] \in Framings /\ frame[e][2] \in Nat
  BY DEF Types
<1> QED
  BY <1>1, <1>3, <1>4, <1>5, <1>8, <1>9 DEF Its
-----------------------------------------------------------------------------
(* What the steps do to what is under way.                                 *)

LEMMA Appended ==
  ASSUME Types, NEW e \in Ends, NEW x \in Token, link'[e] = link[e], buf'[e] = Append(buf[e], x)
  PROVE  Under(e)' = Append(Under(e), x)
<1>1. link[e] \in Seq(Token) /\ buf[e] \in Seq(Token)
  BY ItsTypes
<1>2. link[e] \o Append(buf[e], x) = Append(link[e] \o buf[e], x)
  <2>1. \A s, t \in Seq(Token) : s \o Append(t, x) = Append(s \o t, x)
    BY Joined
  <2> QED
    BY <1>1, <2>1
<1> QED
  BY <1>2 DEF Under

LEMMA Moved ==
  ASSUME Types, NEW e \in Ends, buf[e] # <<>>,
         link'[e] = Append(link[e], Head(buf[e])), buf'[e] = Tail(buf[e])
  PROVE  Under(e)' = Under(e)
<1>1. link[e] \in Seq(Token) /\ buf[e] \in Seq(Token)
  BY ItsTypes
<1>2. Head(buf[e]) \in Token
  BY <1>1, HeadTailProperties
<1>3. Append(link[e], Head(buf[e])) \o Tail(buf[e]) = link[e] \o buf[e]
  <2>1. \A s, t \in Seq(Token) : t # <<>> => Append(s, Head(t)) \o Tail(t) = s \o t
    <3> SUFFICES ASSUME NEW s \in Seq(Token), NEW t \in Seq(Token), t # <<>>
                 PROVE  Append(s, Head(t)) \o Tail(t) = s \o t
      OBVIOUS
    <3> QED
      BY <1>2, Joined
  <2> QED
    BY <1>1, <2>1
<1> QED
  BY <1>3 DEF Under

LEMMA Taken ==
  ASSUME Types, NEW e \in Ends, link[e] # <<>>, link'[e] = Tail(link[e]), buf'[e] = buf[e]
  PROVE  Under(e)' = Tail(Under(e))
<1>1. link[e] \in Seq(Token) /\ buf[e] \in Seq(Token)
  BY ItsTypes
<1>2. Head(link[e]) \in Token
  BY <1>1, HeadTailProperties
<1>3. Tail(link[e]) \o buf[e] = Tail(link[e] \o buf[e])
  <2>1. \A s, t \in Seq(Token) : s # <<>> => Tail(s) \o t = Tail(s \o t)
    BY <1>2, Joined
  <2> QED
    BY <1>1, <2>1
<1> QED
  BY <1>3 DEF Under

LEMMA Front ==
  ASSUME Types, NEW e \in Ends, link[e] # <<>>
  PROVE  Under(e) # <<>> /\ Head(link[e]) = Under(e)[1] /\ Head(link[e]) \in Token
<1>1. Head(link[e]) \in Token
  BY ItsTypes, HeadTailProperties
<1> QED
  BY <1>1, ItsTypes, Joined DEF Under

\* The end e takes no part in the step, and what it wrote stays under way.
Aside(e) == <<pc[e], then[e], put[e], todo[e], foreign, buf[e], Under(e)>>

LEMMA AsideKeeps ==
  ASSUME NEW e \in Ends, UNCHANGED Aside(e)
  PROVE  /\ Under(e)' = Under(e) /\ Announces(e)' = Announces(e) /\ Writing(e)' = Writing(e)
         /\ Ending(e)' = Ending(e)
         /\ Message(e)' = Message(e) => Its(e)' = Its(e)
<1>1. Under(e)' = Under(e) /\ put'[e] = put[e] /\ todo'[e] = todo[e] /\ foreign' = foreign
      /\ pc'[e] = pc[e] /\ then'[e] = then[e]
  BY DEF Aside
<1>2. Announces(e)' = Announces(e)
  BY <1>1 DEF Announces
<1>3. Writing(e)' = Writing(e)
  BY <1>1 DEF Writing
<1>4. Ending(e)' = Ending(e)
  BY <1>1, <1>3 DEF Ending
<1> QED
  BY <1>1, <1>2, <1>3, <1>4 DEF Its

IInv == Types /\ Settled /\ OneHead /\ Responses /\ Requests

-----------------------------------------------------------------------------
(* The client asks.                                                        *)

LEMMA RequestKeeps == ASSUME IInv, Request PROVE IInv'
<1>0. Types /\ Types' /\ "client" \in Ends /\ "server" \in Ends
  BY RequestTypes DEF IInv, Ends
<1>1. PICK b \in Nat, f \in Framings :
        /\ f \in IF foreign THEN IF b = 0 THEN {"null", "sized"} ELSE {"sized"}
                 ELSE {"chunked", "unknown"}
        /\ PutHead("client", asked + 1, f, b)
  <2>1. PICK b \in 0 .. MaxPieces :
        \/ ~foreign /\ PutHead("client", asked', Announced(header'["client"]), b)
        \/ /\ foreign
           /\ \E f \in {"null", "sized"} : (f = "null" => b = 0) /\ PutHead("client", asked', f, b)
    BY DEF Request
  <2>2. b \in Nat /\ asked' = asked + 1
    BY HttpExchangeAssumption DEF Request
  <2> QED
    BY <2>1, <2>2 DEF Announced, Framings
<1> DEFINE x == <<"head", asked + 1, f, b>>
<1>2. x \in Token /\ x[1] = "head" /\ x[2] = asked + 1 /\ x[3] = f /\ x[4] = b
  <2>1. asked + 1 \in Nat
    BY <1>0 DEF Types
  <2>2. x \in Token
    BY <2>1, TokensMade
  <2> QED
    BY <2>2
<1>3. /\ pc["client"] = "idle" /\ asked' = asked + 1 /\ asked \in Nat
      /\ UNCHANGED <<foreign, then, serving, link, frame, got, whole, skipped>>
  BY <1>0 DEF Request, Types
<1>4. /\ pc'["client"] = "write" /\ put'["client"] = 0 /\ todo'["client"] = b
      /\ buf'["client"] = Append(buf["client"], x)
  <2>1. /\ pc' = [pc EXCEPT !["client"] = "write"] /\ put' = [put EXCEPT !["client"] = 0]
        /\ todo' = [todo EXCEPT !["client"] = b]
        /\ buf' = [buf EXCEPT !["client"] = Append(@, x)]
    BY <1>1 DEF PutHead
  <2>2. DOMAIN pc = Ends /\ DOMAIN put = Ends /\ DOMAIN todo = Ends /\ DOMAIN buf = Ends
    BY <1>0 DEF Types
  <2> QED
    BY <1>0, <2>1, <2>2
<1>5. pc'["server"] = pc["server"] /\ put'["server"] = put["server"]
      /\ todo'["server"] = todo["server"] /\ buf'["server"] = buf["server"]
  BY <1>0, <1>1 DEF PutHead, Types
<1> HIDE DEF x
<1>6. Under("client")' = Append(Under("client"), x)
  BY <1>0, <1>2, <1>3, <1>4, Appended
<1>7. UNCHANGED Aside("server")
  BY <1>3, <1>5 DEF Aside, Under
<1>8. serving = asked /\ Under("server") = <<>> /\ Rests
  BY <1>3 DEF IInv, Responses
<1>9. Settled'
  BY <1>3, <1>4, <1>5 DEF IInv, Settled, SettledAt
<1>10. OneHead'
  <2>1. NoHead(Under("client")) /\ Under("client") \in Seq(Token)
    BY <1>0, <1>8, ItsTypes DEF IInv, OneHead
  <2>2. OneHeadAt(Append(Under("client"), x), asked + 1)
    BY <1>2, <2>1, HeadsAppended
  <2>3. /\ serving' <= asked' /\ asked' <= serving' + 1 /\ ~(serving' = asked')
        /\ asked' = asked + 1
    BY <1>3, <1>8
  <2> QED
    BY <1>6, <2>2, <2>3 DEF OneHead
<1>11. Responses'
  <2>1. Under("server")' = <<>> /\ Rests'
    BY <1>3, <1>5, <1>7, <1>8 DEF Aside, Rests
  <2>2. asked' > 0 /\ ~(serving' = asked') /\ pc'["client"] = "write"
    BY <1>3, <1>4, <1>8
  <2> QED
    BY <2>1, <2>2 DEF Responses
<1>12. Requests'
  <2>1. CASE skipped \/ pc["server"] = "closed"
    <3>1. skipped' \/ (pc'["server"] = "closed" /\ serving' < asked' /\ pc'["client"] # "closed")
      BY <1>3, <1>4, <1>5, <1>8, <2>1
    <3> QED
      BY <3>1 DEF Requests
  <2>2. CASE ~skipped /\ pc["server"] # "closed"
    <3>1. Under("client") = <<>>
      BY <1>3, <1>8, <2>2 DEF IInv, Requests, Rests
    <3>2. Its("client")' \in Messages /\ Its("client")'.number = asked + 1 /\ Its("client")'.put = 0
          /\ Its("client")'.pieces = b /\ Its("client")'.ending = 0 /\ f \in Its("client")'.framings
      <4>1. Its("client")' = [number |-> asked + 1, put |-> 0, pieces |-> b, ending |-> 0,
                              framings |-> Announces("client")']
        BY <1>3, <1>4 DEF Its, Message, Ending, Writing
      <4>2. f \in Announces("client")' /\ Announces("client")' \in SUBSET Framings
        BY <1>1, <1>3, <1>4 DEF Announces, Framings
      <4> QED
        BY <1>3, <4>1, <4>2 DEF Messages
    <3>3. Stretch(Append(<<>>, x), 0, Its("client")')
      BY <1>2, <3>2, StretchOne
    <3>4. Rest("client", 0)'
      BY <1>6, <3>1, <3>3 DEF Rest
    <3>5. serving' < asked'
      BY <1>3, <1>8
    <3> QED
      BY <1>4, <1>5, <2>2, <3>4, <3>5 DEF Requests
  <2> QED
    BY <2>1, <2>2
<1> QED
  BY <1>0, <1>9, <1>10, <1>11, <1>12 DEF IInv

-----------------------------------------------------------------------------
(* The server answers.                                                     *)

LEMMA RespondKeeps == ASSUME IInv, Respond PROVE IInv'
<1>0. Types /\ Types' /\ "client" \in Ends /\ "server" \in Ends
  BY RespondTypes DEF IInv, Ends
<1>1. PICK b \in Nat, f \in {"chunked", "unknown"} : PutHead("server", serving, f, b)
  <2>1. PICK b \in 0 .. MaxPieces : PutHead("server", serving, Announced(header'["server"]), b)
    BY DEF Respond
  <2>2. b \in Nat
    BY HttpExchangeAssumption
  <2> QED
    BY <2>1, <2>2 DEF Announced
<1> DEFINE x == <<"head", serving, f, b>>
<1>2. x \in Token /\ x[1] = "head" /\ x[2] = serving /\ x[3] = f /\ x[4] = b
  <2>1. serving \in Nat /\ f \in Framings
    BY <1>0 DEF Types, Framings
  <2>2. x \in Token
    BY <2>1, TokensMade
  <2> QED
    BY <2>2
<1>3. /\ pc["server"] = "read" /\ skipped' = (skipped \/ ~whole["server"])
      /\ UNCHANGED <<foreign, then, asked, serving, link, frame, got, whole>>
  BY DEF Respond
<1>4. /\ pc'["server"] = "write" /\ put'["server"] = 0 /\ todo'["server"] = b
      /\ buf'["server"] = Append(buf["server"], x)
  <2>1. /\ pc' = [pc EXCEPT !["server"] = "write"] /\ put' = [put EXCEPT !["server"] = 0]
        /\ todo' = [todo EXCEPT !["server"] = b]
        /\ buf' = [buf EXCEPT !["server"] = Append(@, x)]
    BY <1>1 DEF PutHead
  <2>2. DOMAIN pc = Ends /\ DOMAIN put = Ends /\ DOMAIN todo = Ends /\ DOMAIN buf = Ends
    BY <1>0 DEF Types
  <2> QED
    BY <1>0, <2>1, <2>2
<1>5. pc'["client"] = pc["client"] /\ put'["client"] = put["client"]
      /\ todo'["client"] = todo["client"] /\ buf'["client"] = buf["client"]
  BY <1>0, <1>1 DEF PutHead, Types
<1> HIDE DEF x
<1>6. Under("server")' = Append(Under("server"), x)
  BY <1>0, <1>2, <1>3, <1>4, Appended
<1>7. UNCHANGED Aside("client")
  BY <1>3, <1>5 DEF Aside, Under
<1>8. Under("client")' = Under("client") /\ Writing("client")' = Writing("client")
  BY <1>0, <1>7, AsideKeeps
<1>9. \/ pc["client"] = "closed"
      \/ /\ pc["client"] \in {"write", "flush", "await"} /\ asked > 0
         /\ serving = asked /\ Under("server") = <<>>
  <2>1. pc["client"] \in {"idle", "write", "flush", "await", "read", "closed"}
    BY <1>0 DEF Types
  <2>2. ~Rests
    BY <1>3 DEF Rests
  <2>3. serving < asked \/ serving = asked
    BY <1>0 DEF IInv, OneHead, Types
  <2> QED
    BY <1>3, <2>1, <2>2, <2>3 DEF IInv, Responses
<1>10. Settled'
  BY <1>3, <1>4, <1>5 DEF IInv, Settled, SettledAt
<1>11. OneHead'
  BY <1>3, <1>8 DEF IInv, OneHead
<1>12. Responses'
  <2>1. CASE pc["client"] = "closed"
    BY <1>5, <2>1 DEF Responses
  <2>2. CASE pc["client"] \in {"write", "flush", "await"} /\ asked > 0
             /\ serving = asked /\ Under("server") = <<>>
    <3>1. /\ Its("server")' \in Messages /\ Its("server")'.number = serving
          /\ Its("server")'.put = 0 /\ Its("server")'.pieces = b /\ Its("server")'.ending = 0
          /\ f \in Its("server")'.framings
      <4>1. Its("server")' = [number |-> serving, put |-> 0, pieces |-> b, ending |-> 0,
                              framings |-> {"chunked", "unknown"}]
        <5>1. put'["server"] + todo'["server"] = b /\ put'["server"] = 0
          BY <1>4
        <5>2. Message("server")' = serving /\ Announces("server")' = {"chunked", "unknown"}
          BY <1>3 DEF Message, Announces
        <5>3. Ending("server")' = 0
          BY <1>4 DEF Ending, Writing
        <5> QED
          BY <5>1, <5>2, <5>3 DEF Its
      <4>2. serving \in Nat /\ {"chunked", "unknown"} \in SUBSET Framings
        BY <1>0 DEF Types, Framings
      <4> QED
        BY <4>1, <4>2 DEF Messages
    <3>2. Stretch(Append(<<>>, x), 0, Its("server")')
      BY <1>2, <3>1, StretchOne
    <3>3. Rest("server", 0)'
      BY <1>6, <2>2, <3>2 DEF Rest
    <3>4. ~(serving' < asked')
      BY <1>0, <1>3, <2>2 DEF Types
    <3> QED
      BY <1>3, <1>4, <1>5, <2>2, <3>3, <3>4 DEF Responses
  <2> QED
    BY <1>9, <2>1, <2>2
<1>13. Requests'
  <2>1. CASE pc["client"] = "closed"
    BY <1>3, <1>4, <1>5, <1>8, <2>1 DEF IInv, Requests
  <2>2. CASE pc["client"] # "closed"
    <3>1. ~(serving < asked) /\ asked > 0
      BY <1>0, <1>9, <2>2 DEF Types
    <3>2. ~skipped' => /\ Under("client") = <<>> /\ whole["server"]
                       /\ got["server"] = put["client"] /\ todo["client"] = 0
                       /\ Writing("client") => foreign
      BY <1>3, <2>2, <3>1 DEF IInv, Requests
    <3> QED
      BY <1>3, <1>4, <1>5, <1>8, <3>1, <3>2 DEF Requests
  <2> QED
    BY <2>1, <2>2
<1> QED
  BY <1>0, <1>10, <1>11, <1>12, <1>13 DEF IInv

-----------------------------------------------------------------------------
(* Writing.                                                                *)

\* What writing does at the end e: its message grows at its end, if at all.
Grows(e) ==
  /\ pc[e] = "write" /\ pc'[e] = "flush" /\ (then'[e] = "await" => todo'[e] = 0)
  /\ \A d \in Ends : d # e => UNCHANGED Aside(d)
  /\ UNCHANGED <<foreign, asked, serving, frame, got, whole, skipped>>
  /\ put'[e] + todo'[e] = put[e] + todo[e] /\ put[e] <= put'[e]
  /\ Announces(e)' = Announces(e)
  /\ \A p \in Nat : Stretch(Under(e), p, Its(e)) => Stretch(Under(e)', p, Its(e)')
  /\ NoHead(Under(e)) => NoHead(Under(e)')
  /\ \A n \in Nat : OneHeadAt(Under(e), n) => OneHeadAt(Under(e)', n)
  /\ todo[e] = 0 /\ e = "client" /\ foreign =>
       Under(e)' = Under(e) /\ put'[e] = put[e] /\ todo'[e] = 0

LEMMA PieceWritten ==
  ASSUME Types, NEW e \in Ends, WritePiece(e)
  PROVE  Grows(e)
<1>1. /\ pc[e] = "write" /\ todo[e] > 0 /\ put' = [put EXCEPT ![e] = @ + 1]
      /\ todo' = [todo EXCEPT ![e] = @ - 1] /\ pc' = [pc EXCEPT ![e] = "flush"]
      /\ then' = [then EXCEPT ![e] = "write"]
      /\ buf' = [buf EXCEPT ![e] = @ \o <<<<"data", Message(e), put'[e], 0>>>>]
      /\ UNCHANGED <<foreign, asked, serving, link, frame, got, whole, skipped>>
  BY DEF WritePiece, FlushThen
<1>2. put[e] \in Nat /\ todo[e] \in Nat /\ Message(e) \in Nat
  BY EachEnd DEF Types
<1>3. put'[e] = put[e] + 1 /\ todo'[e] = todo[e] - 1 /\ pc'[e] = "flush" /\ then'[e] = "write"
  BY <1>1 DEF Types
<1> DEFINE x == <<"data", Message(e), put'[e], 0>>
<1>4. x \in Token /\ x[1] = "data"
  <2>1. put'[e] \in Nat
    BY <1>2, <1>3
  <2> QED
    BY <1>2, <2>1 DEF Token
<1>5. buf'[e] = buf[e] \o <<x>> /\ link'[e] = link[e]
  BY <1>1 DEF Types
<1> HIDE DEF x
<1>6. Under(e)' = Append(Under(e), x)
  <2>1. buf[e] \o <<x>> = Append(buf[e], x)
    BY <1>4, ItsTypes, Joined
  <2> QED
    BY <1>4, <1>5, <2>1, Appended
<1>7. ASSUME NEW d \in Ends
      PROVE  put'[d] + todo'[d] = put[d] + todo[d] /\ (d # e => UNCHANGED Aside(d))
  <2>1. CASE d = e
    BY <1>2, <1>3, <2>1
  <2>2. CASE d # e
    BY <1>1, <2>2 DEF Aside, Under, Types
  <2> QED
    BY <2>1, <2>2
<1>8. Announces(e)' = Announces(e)
  BY <1>1, <1>7 DEF Announces
<1>9. Its(e)' = [Its(e) EXCEPT !.put = @ + 1] /\ Its(e).ending = 0
  <2>1. Writing(e) /\ Writing(e)'
    BY <1>1, <1>3 DEF Writing
  <2>2. Ending(e) = 0 /\ Ending(e)' = 0 /\ Message(e)' = Message(e)
    BY <1>1, <2>1 DEF Ending, Message
  <2> QED
    BY <1>3, <1>7, <1>8, <2>2 DEF Its
<1>10. ASSUME NEW p \in Nat, Stretch(Under(e), p, Its(e)) PROVE Stretch(Under(e)', p, Its(e)')
  <2>1. Its(e) \in Messages /\ Under(e) \in Seq(Token)
    BY ItsTypes
  <2>2. Stretch(Append(Under(e), x), p, [Its(e) EXCEPT !.put = @ + 1])
    BY <1>4, <1>9, <1>10, <2>1, StretchPiece
  <2> QED
    BY <1>6, <1>9, <2>2
<1>11. /\ NoHead(Under(e)) => NoHead(Under(e)')
       /\ \A n \in Nat : OneHeadAt(Under(e), n) => OneHeadAt(Under(e)', n)
  <2>1. Under(e) \in Seq(Token) /\ x[1] # "head"
    BY <1>4, ItsTypes
  <2> QED
    BY <1>4, <1>6, <2>1, HeadsAppended
<1>12. then'[e] # "await" /\ ~(todo[e] = 0) /\ put[e] <= put'[e]
  BY <1>1, <1>2, <1>3
<1> QED
  BY <1>1, <1>3, <1>7, <1>8, <1>10, <1>11, <1>12 DEF Grows

LEMMA MessageEnded ==
  ASSUME Types, NEW e \in Ends, EndMessage(e)
  PROVE  Grows(e)
<1>1. /\ pc[e] = "write" /\ todo[e] = 0 /\ pc' = [pc EXCEPT ![e] = "flush"]
      /\ then' = [then EXCEPT ![e] = "await"]
      /\ buf' = [buf EXCEPT ![e] = @ \o IF e = "client" /\ foreign THEN <<>>
                                        ELSE <<<<"last", Message(e), 0, 0>>>>]
      /\ UNCHANGED <<foreign, asked, serving, link, put, todo, frame, got, whole, skipped>>
  BY DEF EndMessage, FlushThen
<1>2. /\ pc'[e] = "flush" /\ then'[e] = "await" /\ put'[e] = put[e] /\ todo'[e] = 0
      /\ link'[e] = link[e] /\ put[e] <= put'[e]
      /\ buf'[e] = buf[e] \o IF e = "client" /\ foreign THEN <<>>
                             ELSE <<<<"last", Message(e), 0, 0>>>>
  BY <1>1 DEF Types
<1>3. \A d \in Ends : d # e => UNCHANGED Aside(d)
  BY <1>1 DEF Aside, Under, Types
<1>4. Announces(e)' = Announces(e) /\ Message(e)' = Message(e)
  BY <1>1 DEF Announces, Message
<1>5. Writing(e) /\ ~Writing(e)'
  BY <1>1, <1>2 DEF Writing
<1>6. CASE e = "client" /\ foreign
  <2>1. Under(e)' = Under(e)
    BY <1>2, <1>6, ItsTypes, ConcatEmptySeq DEF Under
  <2>2. Its(e)' = Its(e)
    BY <1>1, <1>4, <1>6 DEF Its, Ending
  <2> QED
    BY <1>1, <1>2, <1>3, <1>4, <2>1, <2>2 DEF Grows
<1>7. CASE ~(e = "client" /\ foreign)
  <2> DEFINE x == <<"last", Message(e), 0, 0>>
  <2>1. x \in Token /\ x[1] = "last"
    BY EachEnd DEF Token, Types
  <2>2. buf'[e] = buf[e] \o <<x>>
    BY <1>2, <1>7
  <2> HIDE DEF x
  <2>3. Under(e)' = Append(Under(e), x)
    <3>1. buf[e] \o <<x>> = Append(buf[e], x)
      BY <2>1, ItsTypes, Joined
    <3> QED
      BY <1>2, <2>1, <2>2, <3>1, Appended
  <2>4. Its(e)' = [Its(e) EXCEPT !.ending = 1] /\ Its(e).ending = 0
    <3>1. Ending(e) = 0 /\ Ending(e)' = 1
      BY <1>1, <1>5, <1>7 DEF Ending
    <3> QED
      BY <1>1, <1>4, <3>1 DEF Its
  <2>5. Its(e) \in Messages /\ Under(e) \in Seq(Token)
    BY ItsTypes
  <2>6. ASSUME NEW p \in Nat, Stretch(Under(e), p, Its(e)) PROVE Stretch(Under(e)', p, Its(e)')
    <3>1. Stretch(Append(Under(e), x), p, [Its(e) EXCEPT !.ending = 1])
      BY <2>1, <2>4, <2>5, <2>6, StretchEnds
    <3> QED
      BY <2>3, <2>4, <3>1
  <2>7. /\ NoHead(Under(e)) => NoHead(Under(e)')
        /\ \A n \in Nat : OneHeadAt(Under(e), n) => OneHeadAt(Under(e)', n)
    <3>1. x[1] # "head"
      BY <2>1
    <3> QED
      BY <2>1, <2>3, <2>5, <3>1, HeadsAppended
  <2> QED
    BY <1>1, <1>2, <1>3, <1>4, <1>7, <2>6, <2>7 DEF Grows
<1> QED
  BY <1>6, <1>7

LEMMA InsideGrows ==
  ASSUME Types, Types', NEW e \in Ends, NEW d \in Ends, Inside(e, d), Grows(d)
  PROVE  Inside(e, d)'
<1>1. /\ ~whole[e] /\ frame[e][1] \in Announces(d) \ {"unknown"}
      /\ frame[e][2] = put[d] + todo[d] /\ got[e] <= put[d]
      /\ Stretch(Under(d), got[e] + 1, Its(d))
  BY DEF Inside, Rest
<1>2. whole' = whole /\ frame' = frame /\ got' = got /\ Announces(d)' = Announces(d)
      /\ put'[d] + todo'[d] = put[d] + todo[d] /\ put[d] <= put'[d]
  BY DEF Grows
<1>3. got[e] \in Nat /\ got[e] + 1 \in Nat /\ put[d] \in Nat
  BY ItsTypes
<1>4. Stretch(Under(d)', got[e] + 1, Its(d)')
  BY <1>1, <1>3 DEF Grows
<1>5. put'[d] \in Nat
  BY DEF Types
<1>6. got'[e] <= put'[d]
  BY <1>1, <1>2, <1>3, <1>5
<1>7. Stretch(Under(d)', got'[e] + 1, Its(d)')
  BY <1>2, <1>4
<1> QED
  BY <1>1, <1>2, <1>6, <1>7 DEF Inside, Rest

LEMMA ClientGrows == ASSUME IInv, Types', Grows("client") PROVE IInv'
<1>0. Types /\ "client" \in Ends /\ "server" \in Ends /\ "server" # "client"
  BY DEF IInv, Ends
<1>1. /\ pc["client"] = "write" /\ pc'["client"] = "flush"
      /\ then'["client"] = "await" => todo'["client"] = 0
      /\ UNCHANGED <<foreign, asked, serving, frame, got, whole, skipped>>
      /\ UNCHANGED Aside("server")
  BY <1>0 DEF Grows
<1>2. /\ pc'["server"] = pc["server"] /\ then'["server"] = then["server"]
      /\ todo'["server"] = todo["server"] /\ buf'["server"] = buf["server"]
      /\ Under("server")' = Under("server") /\ Its("server")' = Its("server")
  <2>1. Message("server")' = Message("server")
    BY <1>1 DEF Message
  <2> QED
    BY <1>0, <1>1, <2>1, AsideKeeps DEF Aside
<1>3. Settled'
  BY <1>1, <1>2 DEF IInv, Settled, SettledAt
<1>4. asked \in Nat /\ serving \in Nat
  BY <1>0 DEF Types
<1>5. OneHead'
  BY <1>1, <1>4 DEF IInv, OneHead, Grows
<1>6. Responses'
  <2>1. /\ asked > 0
        /\ serving < asked => Under("server") = <<>> /\ Rests
        /\ serving = asked =>
             IF pc["server"] = "read" THEN Under("server") = <<>>
             ELSE Stretch(Under("server"), 0, Its("server"))
    BY <1>1 DEF IInv, Responses, Rest
  <2>2. Rests' = Rests
    BY <1>2 DEF Rests
  <2>3. /\ asked' > 0
        /\ serving' < asked' => Under("server")' = <<>> /\ Rests'
        /\ serving' = asked' =>
             IF pc'["server"] = "read" THEN Under("server")' = <<>>
             ELSE Stretch(Under("server")', 0, Its("server")')
    BY <1>1, <1>2, <2>1, <2>2
  <2> QED
    BY <1>1, <2>3 DEF Responses, Rest
<1>7. Requests'
  <2> SUFFICES ASSUME ~skipped PROVE Requests'
    BY <1>1 DEF Requests
  <2>1. CASE pc["server"] = "closed"
    BY <1>1, <1>2, <2>1 DEF IInv, Requests
  <2>2. CASE pc["server"] # "closed" /\ serving < asked
    <3>1. Stretch(Under("client"), 0, Its("client"))
      BY <1>1, <2>2 DEF IInv, Requests, Rest
    <3>2. Stretch(Under("client")', 0, Its("client")')
      BY <3>1 DEF Grows
    <3> QED
      BY <1>1, <1>2, <2>2, <3>2 DEF Requests, Rest
  <2>3. CASE /\ pc["server"] # "closed" /\ ~(serving < asked)
             /\ pc["server"] = "read" /\ ~whole["server"]
    <3>1. Inside("server", "client")
      BY <1>1, <2>3 DEF IInv, Requests
    <3>2. Inside("server", "client")'
      BY <1>0, <3>1, InsideGrows
    <3> QED
      BY <1>1, <1>2, <2>3, <3>2 DEF Requests
  <2>4. CASE /\ pc["server"] # "closed" /\ ~(serving < asked)
             /\ ~(pc["server"] = "read" /\ ~whole["server"])
    <3>1. asked > 0
      BY <1>1 DEF IInv, Responses
    <3>2. /\ Under("client") = <<>> /\ whole["server"] /\ got["server"] = put["client"]
          /\ todo["client"] = 0 /\ foreign
      BY <1>1, <2>4, <3>1 DEF IInv, Requests, Writing
    <3>3. Under("client")' = <<>> /\ put'["client"] = put["client"] /\ todo'["client"] = 0
      BY <3>2 DEF Grows
    <3> QED
      BY <1>1, <1>2, <2>4, <3>2, <3>3 DEF Requests
  <2> QED
    BY <2>1, <2>2, <2>3, <2>4
<1> QED
  BY <1>3, <1>5, <1>6, <1>7 DEF IInv

LEMMA ServerGrows == ASSUME IInv, Types', Grows("server") PROVE IInv'
<1>0. Types /\ "client" \in Ends /\ "server" \in Ends /\ "server" # "client"
  BY DEF IInv, Ends
<1>1. /\ pc["server"] = "write" /\ pc'["server"] = "flush"
      /\ then'["server"] = "await" => todo'["server"] = 0
      /\ UNCHANGED <<foreign, asked, serving, frame, got, whole, skipped>>
      /\ UNCHANGED Aside("client")
  BY <1>0 DEF Grows
<1>2. /\ pc'["client"] = pc["client"] /\ put'["client"] = put["client"]
      /\ todo'["client"] = todo["client"] /\ buf'["client"] = buf["client"]
      /\ then'["client"] = then["client"]
      /\ Under("client")' = Under("client") /\ Its("client")' = Its("client")
      /\ Writing("client")' = Writing("client")
  <2>1. Message("client")' = Message("client")
    BY <1>1 DEF Message
  <2> QED
    BY <1>0, <1>1, <2>1, AsideKeeps DEF Aside
<1>3. Settled'
  BY <1>1, <1>2 DEF IInv, Settled, SettledAt
<1>4. asked \in Nat /\ serving \in Nat /\ ~Rests
  BY <1>0, <1>1 DEF Types, Rests
<1>5. OneHead'
  BY <1>1, <1>2 DEF IInv, OneHead
<1>6. Responses'
  <2>1. CASE pc["client"] = "closed"
    BY <1>2, <2>1 DEF Responses
  <2>2. CASE pc["client"] = "idle"
    BY <1>4, <2>2 DEF IInv, Responses
  <2>3. CASE pc["client"] \in {"write", "flush", "await"}
    <3>1. asked > 0 /\ serving = asked /\ Stretch(Under("server"), 0, Its("server"))
      <4>1. serving < asked \/ serving = asked
        BY <1>4 DEF IInv, OneHead
      <4> QED
        BY <1>1, <1>4, <2>3, <4>1 DEF IInv, Responses, Rest
    <3>2. Stretch(Under("server")', 0, Its("server")')
      BY <3>1 DEF Grows
    <3>3. asked' > 0 /\ serving' = asked' /\ ~(serving' < asked')
      BY <1>1, <1>4, <3>1
    <3> QED
      BY <1>1, <1>2, <2>3, <3>2, <3>3 DEF Responses, Rest
  <2>4. CASE pc["client"] = "read"
    <3>1. serving = asked /\ Inside("client", "server")
      BY <2>4 DEF IInv, Responses
    <3>2. Inside("client", "server")'
      BY <1>0, <3>1, InsideGrows
    <3> QED
      BY <1>1, <1>2, <2>4, <3>1, <3>2 DEF Responses
  <2> QED
    <3>1. pc["client"] \in {"idle", "write", "flush", "await", "read", "closed"}
      BY <1>0 DEF Types
    <3> QED
      BY <2>1, <2>2, <2>3, <2>4, <3>1
<1>7. Requests'
  <2> SUFFICES ASSUME ~skipped PROVE Requests'
    BY <1>1 DEF Requests
  <2>1. CASE pc["client"] = "closed"
    BY <1>1, <1>2, <2>1 DEF IInv, Requests
  <2>2. CASE pc["client"] # "closed" /\ serving < asked
    <3>1. Stretch(Under("client"), 0, Its("client"))
      BY <1>1, <2>2 DEF IInv, Requests, Rest
    <3> QED
      BY <1>1, <1>2, <2>2, <3>1 DEF Requests, Rest
  <2>3. CASE pc["client"] # "closed" /\ ~(serving < asked)
    BY <1>1, <1>2, <2>3 DEF IInv, Requests
  <2> QED
    BY <2>1, <2>2, <2>3
<1> QED
  BY <1>3, <1>5, <1>6, <1>7 DEF IInv

LEMMA WritingKeeps ==
  ASSUME IInv, NEW e \in Ends, WritePiece(e) \/ EndMessage(e)
  PROVE  IInv'
<1>1. Types /\ Types' /\ Grows(e)
  BY PieceWritten, MessageEnded, WritePieceTypes, EndMessageTypes DEF IInv
<1>2. e = "client" \/ e = "server"
  BY DEF Ends
<1> QED
  BY <1>1, <1>2, ClientGrows, ServerGrows

\* A flush moves what is under way, and ends when it has all moved.
LEMMA TransferMoves ==
  ASSUME Types, NEW e \in Ends, Transfer(e), NEW d \in Ends
  PROVE  /\ Under(d)' = Under(d) /\ Its(d)' = Its(d) /\ Announces(d)' = Announces(d)
         /\ Writing(d)' = Writing(d)
         /\ \/ pc'[d] = pc[d] /\ (pc[d] # "flush" => buf'[d] = buf[d])
            \/ /\ pc[d] = "flush" /\ pc'[d] = then[d] /\ buf[d] = <<>> /\ buf'[d] = <<>>
         /\ then' = then /\ todo' = todo /\ put' = put
         /\ UNCHANGED <<foreign, asked, serving, frame, got, whole, skipped>>
<1>1. /\ pc[e] = "flush"
      /\ UNCHANGED <<foreign, then, asked, serving, header, put, todo, frame, got, whole, skipped>>
  BY DEF Transfer
<1>2. then[d] \in {"write", "await"}
  BY DEF Types
<1>3. \/ pc'[d] = pc[d] /\ (pc[d] # "flush" => buf'[d] = buf[d]) /\ Under(d)' = Under(d)
      \/ /\ pc[d] = "flush" /\ pc'[d] = then[d] /\ buf[d] = <<>> /\ buf'[d] = <<>>
         /\ Under(d)' = Under(d)
  <2>1. CASE buf[e] = <<>>
    <3>1. pc' = [pc EXCEPT ![e] = then[e]] /\ UNCHANGED <<buf, link>>
      BY <2>1 DEF Transfer
    <3>2. CASE d = e
      BY <1>1, <2>1, <3>1, <3>2 DEF Types, Under
    <3>3. CASE d # e
      BY <3>1, <3>3 DEF Types, Under
    <3> QED
      BY <3>2, <3>3
  <2>2. CASE buf[e] # <<>>
    <3>1. /\ link' = [link EXCEPT ![e] = Append(@, Head(buf[e]))]
          /\ buf' = [buf EXCEPT ![e] = Tail(@)] /\ pc' = pc
      BY <2>2 DEF Transfer
    <3>2. CASE d = e
      <4>1. link'[d] = Append(link[d], Head(buf[d])) /\ buf'[d] = Tail(buf[d])
        BY <3>1, <3>2 DEF Types
      <4>2. Under(d)' = Under(d)
        BY <2>2, <3>2, <4>1, Moved
      <4> QED
        BY <1>1, <3>1, <3>2, <4>2
    <3>3. CASE d # e
      BY <3>1, <3>3 DEF Types, Under
    <3> QED
      BY <3>2, <3>3
  <2> QED
    BY <2>1, <2>2
<1>4. Writing(d)' = Writing(d)
  BY <1>1, <1>2, <1>3 DEF Writing
<1>5. Announces(d)' = Announces(d) /\ Message(d)' = Message(d) /\ Ending(d)' = Ending(d)
  BY <1>1, <1>4 DEF Announces, Message, Ending
<1>6. Its(d)' = Its(d)
  BY <1>1, <1>5 DEF Its
<1> QED
  BY <1>1, <1>3, <1>4, <1>5, <1>6

LEMMA TransferKeeps == ASSUME IInv, NEW e \in Ends, Transfer(e) PROVE IInv'
<1>0. Types /\ Types' /\ "client" \in Ends /\ "server" \in Ends
  BY TransferTypes DEF IInv, Ends
<1>1. \A d \in Ends :
         /\ Under(d)' = Under(d) /\ Its(d)' = Its(d) /\ Announces(d)' = Announces(d)
         /\ Writing(d)' = Writing(d)
         /\ \/ pc'[d] = pc[d] /\ (pc[d] # "flush" => buf'[d] = buf[d])
            \/ /\ pc[d] = "flush" /\ pc'[d] = then[d] /\ buf[d] = <<>> /\ buf'[d] = <<>>
  BY <1>0, TransferMoves
<1>2. UNCHANGED <<then, todo, put, foreign, asked, serving, frame, got, whole, skipped>>
  BY DEF Transfer
<1>3. \A d \in Ends : then[d] \in {"write", "await"}
  BY <1>0 DEF Types
<1>4. /\ \A d \in {"client", "server"} :
           \/ pc'[d] = pc[d]
           \/ pc[d] = "flush" /\ pc'[d] = then[d] /\ pc'[d] \in {"write", "await"}
      /\ Rests' = Rests
  <2>1. \A d \in {"client", "server"} :
           \/ pc'[d] = pc[d]
           \/ pc[d] = "flush" /\ pc'[d] = then[d] /\ pc'[d] \in {"write", "await"}
    BY <1>1, <1>3 DEF Ends
  <2> QED
    BY <1>2, <2>1 DEF Rests
<1>5. Settled'
  <2>1. SettledAt("client", "server")'
    BY <1>0, <1>1, <1>2, <1>3, <1>4 DEF IInv, Settled, SettledAt
  <2>2. SettledAt("server", "client")'
    BY <1>0, <1>1, <1>2, <1>3, <1>4 DEF IInv, Settled, SettledAt
  <2> QED
    BY <2>1, <2>2 DEF Settled
<1>6. OneHead'
  BY <1>0, <1>1, <1>2 DEF IInv, OneHead
<1>7. ASSUME NEW a \in Ends, NEW d \in Ends, Inside(a, d) PROVE Inside(a, d)'
  BY <1>1, <1>2, <1>7 DEF Inside, Rest
<1>8. Responses'
  <2>1. CASE pc["client"] = "closed"
    BY <1>4, <2>1 DEF Responses
  <2>2. CASE pc["client"] = "idle"
    BY <1>0, <1>1, <1>2, <1>4, <2>2 DEF IInv, Responses
  <2>3. CASE pc["client"] \in {"write", "flush", "await"}
    <3>1. /\ asked > 0
          /\ serving < asked => Under("server") = <<>> /\ Rests
          /\ serving = asked =>
               IF pc["server"] = "read" THEN Under("server") = <<>>
               ELSE Stretch(Under("server"), 0, Its("server"))
      BY <2>3 DEF IInv, Responses, Rest
    <3>2. pc'["client"] \in {"write", "flush", "await"} /\ (pc'["server"] = "read" <=> pc["server"] = "read")
      BY <1>4, <2>3
    <3>3. /\ asked' > 0
          /\ serving' < asked' => Under("server")' = <<>> /\ Rests'
          /\ serving' = asked' =>
               IF pc'["server"] = "read" THEN Under("server")' = <<>>
               ELSE Stretch(Under("server")', 0, Its("server")')
      BY <1>0, <1>1, <1>2, <1>4, <3>1, <3>2
    <3> QED
      BY <3>2, <3>3 DEF Responses, Rest
  <2>4. CASE pc["client"] = "read"
    <3>1. serving = asked /\ pc["server"] # "read" /\ Inside("client", "server")
      BY <2>4 DEF IInv, Responses
    <3>2. Inside("client", "server")' /\ pc'["server"] # "read" /\ pc'["client"] = "read"
      BY <1>0, <1>4, <1>7, <2>4, <3>1
    <3> QED
      BY <1>2, <3>1, <3>2 DEF Responses
  <2> QED
    <3>1. pc["client"] \in {"idle", "write", "flush", "await", "read", "closed"}
      BY <1>0 DEF Types
    <3> QED
      BY <2>1, <2>2, <2>3, <2>4, <3>1
<1>9. Requests'
  <2> SUFFICES ASSUME ~skipped PROVE Requests'
    BY <1>2 DEF Requests
  <2>1. \A d \in {"client", "server"} :
          (pc'[d] = "closed" <=> pc[d] = "closed") /\ (pc'[d] = "read" <=> pc[d] = "read")
    BY <1>4
  <2>2. /\ Under("client")' = Under("client") /\ Its("client")' = Its("client")
        /\ Writing("client")' = Writing("client")
    BY <1>0, <1>1
  <2>3. CASE pc["client"] = "closed" \/ pc["server"] = "closed"
    BY <1>2, <2>1, <2>2, <2>3 DEF IInv, Requests
  <2>4. CASE pc["client"] # "closed" /\ pc["server"] # "closed"
    <3>1. IF serving < asked THEN Stretch(Under("client"), 0, Its("client"))
          ELSE IF pc["server"] = "read" /\ ~whole["server"] THEN Inside("server", "client")
          ELSE /\ Under("client") = <<>> /\ whole["server"]
               /\ asked > 0 => got["server"] = put["client"] /\ todo["client"] = 0
               /\ Writing("client") => foreign
      BY <2>4 DEF IInv, Requests, Rest
    <3>2. Inside("server", "client") => Inside("server", "client")'
      BY <1>0, <1>7
    <3>3. IF serving' < asked' THEN Stretch(Under("client")', 0, Its("client")')
          ELSE IF pc'["server"] = "read" /\ ~whole'["server"] THEN Inside("server", "client")'
          ELSE /\ Under("client")' = <<>> /\ whole'["server"]
               /\ asked' > 0 => got'["server"] = put'["client"] /\ todo'["client"] = 0
               /\ Writing("client")' => foreign'
      BY <1>2, <2>1, <2>2, <3>1, <3>2
    <3> QED
      BY <2>1, <2>4, <3>3 DEF Requests, Rest
  <2> QED
    BY <2>3, <2>4
<1> QED
  BY <1>0, <1>5, <1>6, <1>8, <1>9 DEF IInv

-----------------------------------------------------------------------------
(* Closing.                                                                *)

LEMMA LeaveKeeps == ASSUME IInv, Leave PROVE IInv'
<1>0. Types /\ Types' /\ "client" \in Ends /\ "server" \in Ends
  BY ClosingTypes DEF IInv, Ends, Leave
<1>1. /\ pc["client"] = "idle"
      /\ UNCHANGED <<link, frame, got, whole, serving, foreign, then, asked, header, buf, put, todo,
                     skipped>>
  BY DEF Leave, Kept
<1>2. pc'["client"] = "closed" /\ pc'["server"] = pc["server"]
  BY <1>0 DEF Leave, Close, Types
<1>3. Under("client")' = Under("client")
  BY <1>1 DEF Under
<1>4. Settled'
  BY <1>1, <1>2 DEF IInv, Settled, SettledAt
<1>5. OneHead'
  BY <1>1, <1>3 DEF IInv, OneHead
<1>6. Responses'
  BY <1>2 DEF Responses
<1>7. Requests'
  <2>1. ~(serving < asked) /\ pc["server"] # "read"
    BY <1>0, <1>1 DEF IInv, Responses, Rests, Types
  <2>2. ~skipped /\ pc["server"] # "closed" => Under("client") = <<>>
    BY <1>1, <2>1 DEF IInv, Requests
  <2> QED
    BY <1>1, <1>2, <1>3, <2>2 DEF Requests
<1> QED
  BY <1>0, <1>4, <1>5, <1>6, <1>7 DEF IInv

LEMMA FlushFailsKeeps == ASSUME IInv, NEW e \in Ends, FlushFails(e) PROVE IInv'
<1>0. Types /\ Types'
  BY ClosingTypes DEF IInv, FlushFails
<1>1. /\ pc[Other(e)] = "closed"
      /\ UNCHANGED <<link, frame, got, whole, serving, foreign, then, asked, header, buf, put, todo,
                     skipped>>
  BY DEF FlushFails, Kept
<1>2. pc'["client"] = "closed" /\ pc'["server"] = "closed"
  BY <1>0, <1>1, Others DEF FlushFails, Close, Types, Ends
<1>3. Under("client")' = Under("client")
  BY <1>1 DEF Under
<1>4. OneHead'
  BY <1>1, <1>3 DEF IInv, OneHead
<1>5. Settled' /\ Responses' /\ Requests'
  BY <1>2 DEF Settled, SettledAt, Responses, Requests
<1> QED
  BY <1>0, <1>4, <1>5 DEF IInv

-----------------------------------------------------------------------------
(* Reading a head.                                                         *)

\* The end e finds a head of d it understands, or it closes the connection.
Understands(e, d) ==
  /\ link[d] # <<>> /\ Head(link[d])[1] = "head" /\ Head(link[d])[3] # "unknown"
  /\ Under(d)' = Tail(Under(d)) /\ pc'[e] = "read"
  /\ frame'[e][1] = Head(link[d])[3] /\ frame'[e][2] = Head(link[d])[4]
  /\ got'[e] = 0 /\ whole'[e] = FALSE
  /\ serving' = IF e = "server" THEN Head(link[d])[2] ELSE serving

GivesUp(e, d) ==
  /\ pc'[e] = "closed" /\ UNCHANGED <<frame, got, whole, serving>>
  /\ \/ link[d] = <<>> /\ pc[d] = "closed" /\ Under(d)' = Under(d)
     \/ link[d] # <<>> /\ Under(d)' = Tail(Under(d))

LEMMA ParseCases ==
  ASSUME Types, NEW e \in Ends, NEW d \in Ends, d = Other(e), d # e, Parse(e)
  PROVE  /\ pc[e] = "await" /\ pc'[d] = pc[d] /\ Under(e)' = Under(e)
         /\ UNCHANGED Kept
         /\ got'[d] = got[d] /\ whole'[d] = whole[d] /\ frame'[d] = frame[d]
         /\ Understands(e, d) \/ GivesUp(e, d)
<1>1. pc[e] = "await" /\ UNCHANGED Kept
  BY DEF Parse
<1>2. buf' = buf
  BY <1>1 DEF Kept
<1>3. CASE link[d] = <<>>
  <2>1. Close(e) /\ UNCHANGED <<link, frame, got, whole, serving>> /\ pc[d] = "closed"
    BY <1>3 DEF Parse
  <2>2. pc'[e] = "closed" /\ pc'[d] = pc[d]
    BY <2>1 DEF Close, Types
  <2>3. Under(e)' = Under(e) /\ Under(d)' = Under(d)
    BY <1>2, <2>1 DEF Under
  <2> QED
    BY <1>1, <1>3, <2>1, <2>2, <2>3 DEF GivesUp
<1>4. CASE link[d] # <<>>
  <2>1. Take(e) /\ link' = [link EXCEPT ![d] = Tail(@)]
    BY <1>4 DEF Parse, Take
  <2>2. link'[d] = Tail(link[d]) /\ link'[e] = link[e]
    BY <2>1 DEF Types
  <2>3. Under(d)' = Tail(Under(d)) /\ Under(e)' = Under(e)
    <3>1. Under(d)' = Tail(Under(d))
      BY <1>2, <1>4, <2>2, Taken
    <3> QED
      BY <1>2, <2>2, <3>1 DEF Under
  <2>4. CASE Head(link[d])[1] = "head" /\ Head(link[d])[3] # "unknown"
    <3>1. /\ pc' = [pc EXCEPT ![e] = "read"]
          /\ frame' = [frame EXCEPT ![e] = <<Head(link[d])[3], Head(link[d])[4]>>]
          /\ got' = [got EXCEPT ![e] = 0]
          /\ whole' = [whole EXCEPT ![e] = FALSE]
          /\ serving' = IF e = "server" THEN Head(link[d])[2] ELSE serving
      BY <1>4, <2>4 DEF Parse
    <3>2. /\ pc'[e] = "read" /\ pc'[d] = pc[d] /\ got'[e] = 0 /\ got'[d] = got[d]
          /\ whole'[e] = FALSE /\ whole'[d] = whole[d] /\ frame'[d] = frame[d]
          /\ frame'[e] = <<Head(link[d])[3], Head(link[d])[4]>>
      BY <3>1 DEF Types
    <3> QED
      BY <1>1, <1>4, <2>3, <2>4, <3>1, <3>2 DEF Understands
  <2>5. CASE ~(Head(link[d])[1] = "head" /\ Head(link[d])[3] # "unknown")
    <3>1. Close(e) /\ UNCHANGED <<frame, got, whole, serving>>
      BY <1>4, <2>5 DEF Parse
    <3>2. pc'[e] = "closed" /\ pc'[d] = pc[d]
      BY <3>1 DEF Close, Types
    <3> QED
      BY <1>1, <1>4, <2>3, <3>1, <3>2 DEF GivesUp
  <2> QED
    BY <2>4, <2>5
<1> QED
  BY <1>3, <1>4

LEMMA HeadsRemain ==
  ASSUME Types, OneHead, link["client"] # <<>>
  PROVE  /\ OneHeadAt(Tail(Under("client")), asked)
         /\ serving = asked => NoHead(Tail(Under("client")))
         /\ Head(link["client"])[1] = "head" =>
              /\ serving < asked /\ Head(link["client"])[2] = asked
              /\ NoHead(Tail(Under("client")))
<1>1. /\ "client" \in Ends /\ Under("client") \in Seq(Token) /\ Under("client") # <<>>
      /\ Head(link["client"]) = Under("client")[1]
  BY ItsTypes, Front DEF Ends
<1>2. /\ NoHead(Under("client")) => NoHead(Tail(Under("client"))) /\ Under("client")[1][1] # "head"
      /\ OneHeadAt(Tail(Under("client")), asked)
      /\ Under("client")[1][1] = "head" =>
           NoHead(Tail(Under("client"))) /\ Under("client")[1][2] = asked
  BY <1>1, HeadsTaken DEF OneHead
<1>3. serving < asked \/ serving = asked
  BY DEF OneHead, Types
<1> QED
  BY <1>1, <1>2, <1>3 DEF OneHead

LEMMA ServerUnderstands ==
  ASSUME IInv, Types', Parse("server"), Understands("server", "client")
  PROVE  IInv'
<1>0. Types /\ "client" \in Ends /\ "server" \in Ends /\ Other("server") = "client"
  BY Others DEF IInv, Ends
<1>1. /\ pc["server"] = "await" /\ pc'["client"] = pc["client"] /\ Under("server")' = Under("server")
      /\ UNCHANGED <<foreign, then, asked, header, buf, put, todo, skipped>>
  BY <1>0, ParseCases DEF Kept
<1>2. /\ link["client"] # <<>> /\ Head(link["client"])[1] = "head"
      /\ Head(link["client"])[3] # "unknown" /\ Under("client")' = Tail(Under("client"))
      /\ pc'["server"] = "read" /\ frame'["server"][1] = Head(link["client"])[3]
      /\ frame'["server"][2] = Head(link["client"])[4] /\ got'["server"] = 0
      /\ whole'["server"] = FALSE /\ serving' = Head(link["client"])[2]
  BY DEF Understands
<1>3. /\ OneHeadAt(Under("client")', asked) /\ NoHead(Under("client")')
      /\ serving < asked /\ serving' = asked
  BY <1>0, <1>2, HeadsRemain DEF IInv
<1>4. asked \in Nat /\ serving \in Nat /\ serving' = asked'
  BY <1>0, <1>1, <1>3 DEF Types
<1>5. Settled'
  BY <1>1, <1>2 DEF IInv, Settled, SettledAt
<1>6. OneHead'
  <2>1. serving' <= asked' /\ asked' <= serving' + 1
    BY <1>1, <1>4
  <2> QED
    BY <1>1, <1>3, <2>1 DEF OneHead
<1>7. Responses'
  <2>1. pc["client"] \in {"idle", "write", "flush", "await", "read", "closed"} /\ serving # asked
    <3>1. pc["client"] \in {"idle", "write", "flush", "await", "read", "closed"}
      BY <1>0 DEF Types
    <3>2. serving # asked
      BY <1>3, <1>4
    <3> QED
      BY <3>1, <3>2
  <2>2. CASE pc["client"] = "closed"
    BY <1>1, <2>2 DEF Responses
  <2>3. CASE pc["client"] \in {"write", "flush", "await"}
    <3>1. Under("server") = <<>> /\ asked > 0 /\ ~(serving' < asked')
      BY <1>3, <1>4, <2>3 DEF IInv, Responses
    <3> QED
      BY <1>1, <1>2, <2>3, <3>1 DEF Responses
  <2> QED
    BY <2>1, <2>2, <2>3 DEF IInv, Responses
<1>8. Requests'
  <2> SUFFICES ASSUME ~skipped PROVE Requests'
    BY <1>1 DEF Requests
  <2>1. Under("client") \in Seq(Token) /\ Under("client") # <<>>
        /\ Head(link["client"]) = Under("client")[1]
    BY <1>0, <1>2, ItsTypes, Front
  <2>2. pc["client"] # "closed"
    BY <1>1, <2>1 DEF IInv, Requests
  <2>3. Stretch(Under("client"), 0, Its("client"))
    BY <1>1, <1>3, <2>2 DEF IInv, Requests, Rest
  <2>4. Its("client") \in Messages /\ Its("client").pieces = put["client"] + todo["client"]
        /\ Its("client").framings = Announces("client") /\ put["client"] \in Nat
    BY <1>0, ItsTypes
  <2>5. Under("client")[1][4] = put["client"] + todo["client"]
        /\ Under("client")[1][3] \in Announces("client")
    BY <2>1, <2>3, <2>4, StretchHead
  <2>6. Stretch(Tail(Under("client")), 0 + 1, Its("client"))
    BY <2>1, <2>3, <2>4, StretchTail
  <2>7. Its("client")' = Its("client") /\ Announces("client")' = Announces("client")
    BY <1>1 DEF Its, Message, Announces, Ending, Writing
  <2>8. Stretch(Under("client")', got'["server"] + 1, Its("client")')
    <3>1. got'["server"] + 1 = 0 + 1
      BY <1>2
    <3> QED
      BY <1>2, <2>6, <2>7, <3>1
  <2>9. /\ frame'["server"][1] \in Announces("client")' \ {"unknown"}
        /\ frame'["server"][2] = put'["client"] + todo'["client"]
        /\ got'["server"] <= put'["client"]
    BY <1>1, <1>2, <2>1, <2>4, <2>5, <2>7
  <2>10. Inside("server", "client")'
    BY <1>2, <2>8, <2>9 DEF Inside, Rest
  <2> QED
    BY <1>1, <1>2, <1>4, <2>2, <2>10 DEF Requests
<1> QED
  BY <1>5, <1>6, <1>7, <1>8 DEF IInv

LEMMA ServerGivesUp ==
  ASSUME IInv, Types', Parse("server"), GivesUp("server", "client")
  PROVE  IInv'
<1>0. Types /\ "client" \in Ends /\ "server" \in Ends /\ Other("server") = "client"
  BY Others DEF IInv, Ends
<1>1. /\ pc["server"] = "await" /\ pc'["client"] = pc["client"] /\ Under("server")' = Under("server")
      /\ UNCHANGED <<foreign, then, asked, header, buf, put, todo, skipped>>
  BY <1>0, ParseCases DEF Kept
<1>2. /\ pc'["server"] = "closed" /\ UNCHANGED <<frame, got, whole, serving>>
      /\ \/ link["client"] = <<>> /\ pc["client"] = "closed" /\ Under("client")' = Under("client")
         \/ link["client"] # <<>> /\ Under("client")' = Tail(Under("client"))
  BY DEF GivesUp
<1>3. /\ OneHeadAt(Under("client")', asked)
      /\ serving = asked => NoHead(Under("client")')
  BY <1>0, <1>2, HeadsRemain DEF IInv, OneHead
<1>4. Settled'
  BY <1>1, <1>2 DEF IInv, Settled, SettledAt
<1>5. OneHead'
  BY <1>1, <1>2, <1>3 DEF IInv, OneHead
<1>6. Its("server")' = Its("server") /\ Announces("server")' = Announces("server") /\ Rests'
  BY <1>1, <1>2 DEF Its, Message, Announces, Ending, Writing, Rests
<1>7. Responses'
  <2>1. CASE pc["client"] = "closed"
    BY <1>1, <2>1 DEF Responses
  <2>2. CASE pc["client"] = "idle"
    BY <1>1, <1>2, <1>6, <2>2 DEF IInv, Responses
  <2>3. CASE pc["client"] \in {"write", "flush", "await"}
    <3>1. /\ asked > 0
          /\ serving < asked => Under("server") = <<>>
          /\ serving = asked => Stretch(Under("server"), 0, Its("server"))
      BY <1>1, <2>3 DEF IInv, Responses, Rest
    <3> QED
      BY <1>1, <1>2, <1>6, <2>3, <3>1 DEF Responses, Rest
  <2>4. CASE pc["client"] = "read"
    <3>1. serving = asked /\ Inside("client", "server")
      BY <2>4 DEF IInv, Responses
    <3>2. Inside("client", "server")'
      BY <1>1, <1>2, <1>6, <3>1 DEF Inside, Rest
    <3> QED
      BY <1>1, <1>2, <2>4, <3>1, <3>2 DEF Responses
  <2> QED
    <3>1. pc["client"] \in {"idle", "write", "flush", "await", "read", "closed"}
      BY <1>0 DEF Types
    <3> QED
      BY <2>1, <2>2, <2>3, <2>4, <3>1
<1>8. Requests'
  <2> SUFFICES ASSUME ~skipped, pc["client"] # "closed" PROVE Requests'
    BY <1>1, <1>2 DEF Requests
  <2>1. link["client"] # <<>>
    BY <1>2
  <2>2. Under("client") # <<>>
    BY <1>0, <2>1, Front
  <2>3. serving < asked
    BY <1>1, <2>2 DEF IInv, Requests
  <2> QED
    BY <1>1, <1>2, <2>3 DEF Requests
<1> QED
  BY <1>4, <1>5, <1>7, <1>8 DEF IInv

LEMMA ClientFinds ==
  ASSUME IInv, pc["client"] = "await", link["server"] # <<>>
  PROVE  /\ serving = asked /\ pc["server"] # "read" /\ asked > 0
         /\ Stretch(Under("server"), 0, Its("server")) /\ Under("server") # <<>>
<1>1. Types /\ "server" \in Ends
  BY DEF IInv, Ends
<1>2. Under("server") # <<>>
  BY <1>1, Front
<1>3. serving < asked \/ serving = asked
  BY <1>1 DEF IInv, OneHead, Types
<1> QED
  BY <1>2, <1>3 DEF IInv, Responses, Rest

LEMMA ClientUnderstands ==
  ASSUME IInv, Types', Parse("client"), Understands("client", "server")
  PROVE  IInv'
<1>0. Types /\ "client" \in Ends /\ "server" \in Ends /\ Other("client") = "server"
  BY Others DEF IInv, Ends
<1>1. /\ pc["client"] = "await" /\ pc'["server"] = pc["server"] /\ Under("client")' = Under("client")
      /\ got'["server"] = got["server"] /\ whole'["server"] = whole["server"]
      /\ frame'["server"] = frame["server"]
      /\ UNCHANGED <<foreign, then, asked, header, buf, put, todo, skipped>>
  BY <1>0, ParseCases DEF Kept
<1>2. /\ link["server"] # <<>> /\ Head(link["server"])[3] # "unknown"
      /\ Under("server")' = Tail(Under("server"))
      /\ pc'["client"] = "read" /\ frame'["client"][1] = Head(link["server"])[3]
      /\ frame'["client"][2] = Head(link["server"])[4] /\ got'["client"] = 0
      /\ whole'["client"] = FALSE /\ serving' = serving
  BY DEF Understands
<1>3. /\ serving = asked /\ pc["server"] # "read" /\ Under("server") # <<>>
      /\ Stretch(Under("server"), 0, Its("server"))
  BY <1>1, <1>2, ClientFinds
<1>4. Settled'
  BY <1>1, <1>2 DEF IInv, Settled, SettledAt
<1>5. OneHead'
  BY <1>1, <1>2 DEF IInv, OneHead
<1>6. Its("server")' = Its("server") /\ Announces("server")' = Announces("server")
  BY <1>1, <1>2 DEF Its, Message, Announces, Ending, Writing
<1>7. Responses'
  <2>1. Under("server") \in Seq(Token) /\ Head(link["server"]) = Under("server")[1]
    BY <1>0, <1>2, ItsTypes, Front
  <2>2. Its("server") \in Messages /\ Its("server").pieces = put["server"] + todo["server"]
        /\ Its("server").framings = Announces("server") /\ put["server"] \in Nat
    BY <1>0, ItsTypes
  <2>3. Under("server")[1][4] = put["server"] + todo["server"]
        /\ Under("server")[1][3] \in Announces("server")
    BY <1>3, <2>1, <2>2, StretchHead
  <2>4. Stretch(Tail(Under("server")), 0 + 1, Its("server"))
    BY <1>3, <2>1, <2>2, StretchTail
  <2>5. Stretch(Under("server")', got'["client"] + 1, Its("server")')
    <3>1. got'["client"] + 1 = 0 + 1
      BY <1>2
    <3> QED
      BY <1>2, <1>6, <2>4, <3>1
  <2>6. /\ frame'["client"][1] \in Announces("server")' \ {"unknown"}
        /\ frame'["client"][2] = put'["server"] + todo'["server"]
        /\ got'["client"] <= put'["server"]
    BY <1>1, <1>2, <1>6, <2>1, <2>2, <2>3
  <2>7. Inside("client", "server")'
    BY <1>2, <2>5, <2>6 DEF Inside, Rest
  <2> QED
    BY <1>1, <1>2, <1>3, <2>7 DEF Responses
<1>8. Requests'
  <2> SUFFICES ASSUME ~skipped PROVE Requests'
    BY <1>1 DEF Requests
  <2>1. Its("client")' = Its("client") /\ Announces("client")' = Announces("client")
        /\ Writing("client")' = Writing("client")
    BY <1>1, <1>2 DEF Its, Message, Announces, Ending, Writing
  <2>2. ~(serving < asked)
    BY <1>0, <1>3 DEF Types
  <2>3. CASE pc["server"] = "closed"
    BY <1>1, <2>2, <2>3 DEF IInv, Requests
  <2>4. CASE pc["server"] # "closed"
    BY <1>1, <1>2, <1>3, <2>1, <2>2, <2>4 DEF IInv, Requests
  <2> QED
    BY <2>3, <2>4
<1> QED
  BY <1>4, <1>5, <1>7, <1>8 DEF IInv

LEMMA ClientGivesUp ==
  ASSUME IInv, Types', Parse("client"), GivesUp("client", "server")
  PROVE  IInv'
<1>0. Types /\ "client" \in Ends /\ "server" \in Ends /\ Other("client") = "server"
  BY Others DEF IInv, Ends
<1>1. /\ pc["client"] = "await" /\ pc'["server"] = pc["server"] /\ Under("client")' = Under("client")
      /\ UNCHANGED <<foreign, then, asked, header, buf, put, todo, skipped>>
  BY <1>0, ParseCases DEF Kept
<1>2. /\ pc'["client"] = "closed" /\ UNCHANGED <<frame, got, whole, serving>>
      /\ (link["server"] = <<>> /\ pc["server"] = "closed") \/ link["server"] # <<>>
  BY DEF GivesUp
<1>3. Settled'
  BY <1>1, <1>2 DEF IInv, Settled, SettledAt
<1>4. OneHead'
  BY <1>1, <1>2 DEF IInv, OneHead
<1>5. Responses'
  BY <1>2 DEF Responses
<1>6. Requests'
  <2> SUFFICES ASSUME ~skipped, pc["server"] # "closed" PROVE Requests'
    BY <1>1, <1>2 DEF Requests
  <2>1. serving = asked /\ pc["server"] # "read"
    BY <1>1, <1>2, ClientFinds
  <2>2. ~(serving < asked)
    BY <1>0, <2>1 DEF Types
  <2>3. Under("client") = <<>>
    BY <1>1, <2>1, <2>2 DEF IInv, Requests
  <2> QED
    BY <1>1, <1>2, <2>3 DEF Requests
<1> QED
  BY <1>3, <1>4, <1>5, <1>6 DEF IInv

LEMMA ParseKeeps == ASSUME IInv, NEW e \in Ends, Parse(e) PROVE IInv'
<1>1. Types /\ Types' /\ "client" \in Ends /\ "server" \in Ends
  BY ParseTypes DEF IInv, Ends
<1>2. CASE e = "client"
  BY <1>1, <1>2, Others, ParseCases, ClientUnderstands, ClientGivesUp
<1>3. CASE e = "server"
  BY <1>1, <1>3, Others, ParseCases, ServerUnderstands, ServerGivesUp
<1> QED
  BY <1>2, <1>3 DEF Ends

-----------------------------------------------------------------------------
(* Reading a body.                                                         *)

\* The end e takes a piece of the body from d.
TakesPiece(e, d) ==
  /\ link[d] # <<>> /\ Under(d)' = Tail(Under(d))
  /\ got'[e] = got[e] + 1 /\ whole'[e] = whole[e] /\ pc'[e] = pc[e]
  /\ \/ frame[e][1] = "sized"
     \/ frame[e][1] = "chunked" /\ Head(link[d])[1] # "last"

\* The end e has come to the end of the body of d.
ComesToEnd(e, d) ==
  /\ whole'[e] = TRUE /\ got'[e] = got[e]
  /\ pc'[e] = IF e = "client" THEN "idle" ELSE pc[e]
  /\ \/ Under(d)' = Under(d) /\ frame[e][1] = "null"
     \/ Under(d)' = Under(d) /\ frame[e][1] = "sized" /\ got[e] = frame[e][2]
     \/ Under(d)' = Under(d) /\ link[d] = <<>> /\ pc[d] = "closed"
     \/ /\ Under(d)' = Tail(Under(d)) /\ link[d] # <<>>
        /\ frame[e][1] = "chunked" /\ Head(link[d])[1] = "last"

LEMMA ReadCases ==
  ASSUME Types, NEW e \in Ends, NEW d \in Ends, d = Other(e), d # e,
         ReadNull(e) \/ ReadSized(e) \/ ReadChunked(e)
  PROVE  /\ pc[e] = "read" /\ ~whole[e] /\ pc'[d] = pc[d] /\ Under(e)' = Under(e)
         /\ UNCHANGED Kept /\ UNCHANGED <<frame, serving>>
         /\ got'[d] = got[d] /\ whole'[d] = whole[d]
         /\ TakesPiece(e, d) \/ ComesToEnd(e, d)
<1>1. pc[e] = "read" /\ ~whole[e] /\ UNCHANGED Kept /\ UNCHANGED <<frame, serving>>
  BY DEF ReadNull, ReadSized, ReadChunked
<1>2. buf' = buf
  BY <1>1 DEF Kept
<1>3. ASSUME End(e), got' = got
      PROVE  /\ whole'[e] = TRUE /\ got'[e] = got[e] /\ got'[d] = got[d] /\ whole'[d] = whole[d]
             /\ pc'[e] = (IF e = "client" THEN "idle" ELSE pc[e]) /\ pc'[d] = pc[d]
  BY <1>3 DEF End, Types
<1>4. ASSUME link' = link PROVE Under(e)' = Under(e) /\ Under(d)' = Under(d)
  BY <1>2, <1>4 DEF Under
<1>5. ASSUME link[d] # <<>>, Take(e) PROVE Under(e)' = Under(e) /\ Under(d)' = Tail(Under(d))
  <2>1. link' = [link EXCEPT ![d] = Tail(@)]
    BY <1>5 DEF Take
  <2>2. link'[d] = Tail(link[d]) /\ link'[e] = link[e]
    BY <2>1 DEF Types
  <2>3. Under(d)' = Tail(Under(d))
    BY <1>2, <1>5, <2>2, Taken
  <2> QED
    BY <1>2, <2>2, <2>3 DEF Under
<1>6. ASSUME ReadPiece(e)
      PROVE  /\ link[d] # <<>> /\ Under(e)' = Under(e) /\ Under(d)' = Tail(Under(d))
             /\ got'[e] = got[e] + 1 /\ got'[d] = got[d] /\ whole' = whole /\ pc' = pc
  <2>1. link[d] # <<>> /\ Take(e) /\ got' = [got EXCEPT ![e] = @ + 1] /\ whole' = whole /\ pc' = pc
    BY <1>6 DEF ReadPiece
  <2>2. got'[e] = got[e] + 1 /\ got'[d] = got[d]
    BY <2>1 DEF Types
  <2> QED
    BY <1>5, <2>1, <2>2
<1>7. CASE ReadNull(e)
  <2>1. frame[e][1] = "null" /\ End(e) /\ link' = link /\ got' = got
    BY <1>7 DEF ReadNull
  <2> QED
    BY <1>1, <1>3, <1>4, <2>1 DEF ComesToEnd
<1>8. CASE ReadSized(e)
  <2>1. CASE got[e] = frame[e][2] \/ AtEnd(e)
    <3>1. frame[e][1] = "sized" /\ End(e) /\ link' = link /\ got' = got
      BY <1>8, <2>1 DEF ReadSized
    <3>2. got[e] = frame[e][2] \/ (link[d] = <<>> /\ pc[d] = "closed")
      BY <2>1 DEF AtEnd
    <3> QED
      BY <1>1, <1>3, <1>4, <3>1, <3>2 DEF ComesToEnd
  <2>2. CASE ~(got[e] = frame[e][2] \/ AtEnd(e))
    <3>1. frame[e][1] = "sized" /\ ReadPiece(e)
      BY <1>8, <2>2 DEF ReadSized
    <3> QED
      BY <1>1, <1>6, <3>1 DEF TakesPiece
  <2> QED
    BY <2>1, <2>2
<1>9. CASE ReadChunked(e)
  <2>1. CASE AtEnd(e)
    <3>1. End(e) /\ link' = link /\ got' = got /\ link[d] = <<>> /\ pc[d] = "closed"
      BY <1>9, <2>1 DEF ReadChunked, AtEnd
    <3> QED
      BY <1>1, <1>3, <1>4, <3>1 DEF ComesToEnd
  <2>2. CASE ~AtEnd(e) /\ link[d] # <<>> /\ Head(link[d])[1] = "last"
    <3>1. frame[e][1] = "chunked" /\ End(e) /\ Take(e) /\ got' = got
      BY <1>9, <2>2 DEF ReadChunked
    <3> QED
      BY <1>1, <1>3, <1>5, <2>2, <3>1 DEF ComesToEnd
  <2>3. CASE ~AtEnd(e) /\ ~(link[d] # <<>> /\ Head(link[d])[1] = "last")
    <3>1. frame[e][1] = "chunked" /\ ReadPiece(e)
      BY <1>9, <2>3 DEF ReadChunked
    <3>2. Head(link[d])[1] # "last"
      BY <1>6, <2>3, <3>1
    <3> QED
      BY <1>1, <1>6, <3>1, <3>2 DEF TakesPiece
  <2> QED
    BY <2>1, <2>2, <2>3
<1> QED
  BY <1>7, <1>8, <1>9

\* A piece is taken only where there is one.
LEMMA PieceInside ==
  ASSUME Types, NEW e \in Ends, NEW d \in Ends, Inside(e, d), TakesPiece(e, d),
         UNCHANGED Kept, UNCHANGED <<frame, serving>>, pc'[d] = pc[d]
  PROVE  Inside(e, d)'
<1>1. /\ ~whole[e] /\ frame[e][1] \in Announces(d) \ {"unknown"}
      /\ frame[e][2] = put[d] + todo[d] /\ got[e] <= put[d]
      /\ Stretch(Under(d), got[e] + 1, Its(d))
  BY DEF Inside, Rest
<1>2. /\ link[d] # <<>> /\ Under(d)' = Tail(Under(d)) /\ got'[e] = got[e] + 1 /\ whole'[e] = whole[e]
      /\ \/ frame[e][1] = "sized"
         \/ frame[e][1] = "chunked" /\ Head(link[d])[1] # "last"
  BY DEF TakesPiece
<1>3. /\ Under(d) \in Seq(Token) /\ Its(d) \in Messages /\ Its(d).put = put[d]
      /\ Its(d).ending = Ending(d) /\ put[d] \in Nat /\ got[e] \in Nat /\ got[e] + 1 \in Nat
      /\ Ending(d) \in {0, 1}
  BY ItsTypes
<1>4. Under(d) # <<>> /\ Head(link[d]) = Under(d)[1]
  BY <1>2, Front
<1>5. UNCHANGED <<foreign, then, asked, put, todo>>
  BY DEF Kept
<1>6. Its(d)' = Its(d) /\ Announces(d)' = Announces(d)
  BY <1>5 DEF Its, Message, Announces, Ending, Writing
<1>7. PICK p \in Nat : p = got[e] + 1 /\ p > 0
  BY <1>3
<1>8. Stretch(Tail(Under(d)), p + 1, Its(d)) /\ Tail(Under(d)) \in Seq(Token) /\ p + 1 \in Nat
  BY <1>1, <1>3, <1>4, <1>7, StretchTail, HeadTailProperties
<1>9. p <= put[d]
  <2>1. CASE frame[e][1] = "sized"
    <3>1. Ending(d) = 0
      BY <1>1, <2>1 DEF Ending, Announces
    <3>2. p + 1 <= Its(d).put + 1 + Its(d).ending
      BY <1>3, <1>8, StretchHead
    <3> QED
      BY <1>3, <1>7, <3>1, <3>2
  <2>2. CASE frame[e][1] = "chunked" /\ Head(link[d])[1] # "last"
    <3>1. Under(d)[1][1] = IF p <= Its(d).put THEN "data" ELSE "last"
      BY <1>1, <1>3, <1>4, <1>7, StretchHead
    <3> QED
      BY <1>3, <1>4, <2>2, <3>1
  <2> QED
    BY <1>2, <2>1, <2>2
<1>10. Stretch(Under(d)', got'[e] + 1, Its(d)')
  <2>1. got'[e] + 1 = p + 1
    BY <1>2, <1>7
  <2> QED
    BY <1>2, <1>6, <1>8, <2>1
<1>11. got'[e] <= put'[d]
  BY <1>2, <1>5, <1>7, <1>9
<1> QED
  BY <1>1, <1>2, <1>5, <1>6, <1>10, <1>11 DEF Inside, Rest

\* The end of a body is found where the body ends.
LEMMA EndInside ==
  ASSUME Types, NEW e \in Ends, NEW d \in Ends, Inside(e, d), ComesToEnd(e, d),
         ~(link[d] = <<>> /\ pc[d] = "closed")
  PROVE  /\ Under(d)' = <<>> /\ got[e] = put[d] /\ (Writing(d) => d = "client" /\ foreign)
         /\ todo[d] = 0 \/ ~Writing(d)
<1>1. /\ frame[e][1] \in Announces(d) \ {"unknown"}
      /\ frame[e][2] = put[d] + todo[d] /\ got[e] <= put[d]
      /\ Stretch(Under(d), got[e] + 1, Its(d))
  BY DEF Inside, Rest
<1>2. \/ Under(d)' = Under(d) /\ frame[e][1] = "null"
      \/ Under(d)' = Under(d) /\ frame[e][1] = "sized" /\ got[e] = frame[e][2]
      \/ /\ Under(d)' = Tail(Under(d)) /\ link[d] # <<>>
         /\ frame[e][1] = "chunked" /\ Head(link[d])[1] = "last"
  BY DEF ComesToEnd
<1>3. /\ Under(d) \in Seq(Token) /\ Its(d) \in Messages /\ Its(d).put = put[d]
      /\ Its(d).ending = Ending(d) /\ put[d] \in Nat /\ todo[d] \in Nat /\ got[e] \in Nat
      /\ got[e] + 1 \in Nat /\ Ending(d) \in {0, 1}
  BY ItsTypes
<1>4. CASE Under(d)' = Under(d) /\ frame[e][1] \in {"null", "sized"}
           /\ (frame[e][1] = "null" \/ got[e] = frame[e][2])
  <2>1. d = "client" /\ foreign /\ Ending(d) = 0
    BY <1>1, <1>4 DEF Announces, Ending
  <2>2. frame[e][1] = "null" => put[d] + todo[d] = 0
    BY <1>1, <1>4 DEF Announces
  <2>3. got[e] = put[d] /\ todo[d] = 0
    BY <1>1, <1>3, <1>4, <2>2
  <2>4. got[e] + 1 = Its(d).put + 1 + Its(d).ending
    BY <1>3, <2>1, <2>3
  <2>5. Under(d) = <<>>
    BY <1>1, <1>3, <2>4, StretchHead
  <2> QED
    BY <1>4, <2>1, <2>3, <2>5
<1>5. CASE /\ Under(d)' = Tail(Under(d)) /\ link[d] # <<>>
           /\ frame[e][1] = "chunked" /\ Head(link[d])[1] = "last"
  <2>1. Under(d) # <<>> /\ Head(link[d]) = Under(d)[1]
    BY <1>5, Front
  <2>2. PICK p \in Nat : p = got[e] + 1 /\ p > 0
    BY <1>3
  <2>3. Under(d)[1][1] = IF p <= Its(d).put THEN "data" ELSE "last"
    BY <1>1, <1>3, <2>1, <2>2, StretchHead
  <2>4. ~(p <= put[d])
    BY <1>3, <1>5, <2>1, <2>3
  <2>5. got[e] = put[d] /\ p + 1 = put[d] + 2
    BY <1>1, <1>3, <2>2, <2>4
  <2>6. Stretch(Tail(Under(d)), p + 1, Its(d)) /\ Tail(Under(d)) \in Seq(Token) /\ p + 1 \in Nat
    BY <1>1, <1>3, <2>1, <2>2, StretchTail, HeadTailProperties
  <2>7. p + 1 <= Its(d).put + 1 + Its(d).ending
    BY <1>3, <2>6, StretchHead
  <2>8. Ending(d) = 1 /\ p + 1 = Its(d).put + 1 + Its(d).ending
    BY <1>3, <2>5, <2>7
  <2>9. Tail(Under(d)) = <<>>
    BY <1>3, <2>6, <2>8, StretchHead
  <2>10. ~Writing(d)
    BY <2>8 DEF Ending
  <2> QED
    BY <1>5, <2>5, <2>9, <2>10
<1> QED
  BY <1>2, <1>4, <1>5

LEMMA ServerReads ==
  ASSUME IInv, Types', ReadNull("server") \/ ReadSized("server") \/ ReadChunked("server")
  PROVE  IInv'
<1>0. /\ Types /\ "client" \in Ends /\ "server" \in Ends /\ Other("server") = "client"
      /\ "client" # "server"
  BY Others DEF IInv, Ends
<1>1. /\ pc["server"] = "read" /\ ~whole["server"] /\ pc'["client"] = pc["client"]
      /\ Under("server")' = Under("server") /\ UNCHANGED Kept /\ UNCHANGED <<frame, serving>>
      /\ got'["client"] = got["client"] /\ whole'["client"] = whole["client"]
      /\ TakesPiece("server", "client") \/ ComesToEnd("server", "client")
  BY <1>0, ReadCases
<1>2. UNCHANGED <<foreign, then, asked, header, buf, put, todo, skipped>>
  BY <1>1 DEF Kept
<1>3. /\ pc'["server"] = "read"
      /\ Under("client")' = Under("client") \/ (link["client"] # <<>> /\ Under("client")' = Tail(Under("client")))
  BY <1>1 DEF TakesPiece, ComesToEnd
<1>4. Settled'
  BY <1>1, <1>2, <1>3 DEF IInv, Settled, SettledAt
<1>5. OneHead'
  <2>1. /\ OneHeadAt(Under("client")', asked)
        /\ serving = asked => NoHead(Under("client")')
    BY <1>0, <1>3, HeadsRemain DEF IInv, OneHead
  <2> QED
    BY <1>1, <1>2, <2>1 DEF IInv, OneHead
<1>6. \/ pc["client"] = "closed"
      \/ /\ pc["client"] \in {"write", "flush", "await"} /\ asked > 0
         /\ serving = asked /\ Under("server") = <<>>
  <2>1. pc["client"] \in {"idle", "write", "flush", "await", "read", "closed"}
    BY <1>0 DEF Types
  <2>2. ~Rests
    BY <1>1 DEF Rests
  <2>3. serving < asked \/ serving = asked
    BY <1>0 DEF IInv, OneHead, Types
  <2> QED
    BY <1>1, <2>1, <2>2, <2>3 DEF IInv, Responses
<1>7. ~(serving < asked) \/ pc["client"] = "closed"
  BY <1>0, <1>6 DEF Types
<1>8. Responses'
  BY <1>1, <1>2, <1>3, <1>6, <1>7 DEF Responses
<1>9. Requests'
  <2> SUFFICES ASSUME ~skipped PROVE Requests'
    BY <1>2 DEF Requests
  <2>1. CASE pc["client"] = "closed"
    <3>1. Under("client") = <<>>
      BY <1>1, <2>1 DEF IInv, Requests
    <3>2. link["client"] = <<>>
      BY <1>0, <3>1, ItsTypes
    <3> QED
      BY <1>1, <1>3, <2>1, <3>1, <3>2 DEF Requests
  <2>2. CASE pc["client"] # "closed"
    <3>1. Inside("server", "client") /\ serving = asked /\ asked > 0
      BY <1>1, <1>6, <1>7, <2>2 DEF IInv, Requests
    <3>2. CASE TakesPiece("server", "client")
      <4>1. Inside("server", "client")'
        BY <1>0, <1>1, <3>1, <3>2, PieceInside
      <4>2. whole'["server"] = whole["server"]
        BY <3>2 DEF TakesPiece
      <4> QED
        BY <1>1, <1>2, <1>3, <1>7, <2>2, <4>1, <4>2 DEF Requests
    <3>3. CASE ComesToEnd("server", "client")
      <4>1. /\ Under("client")' = <<>> /\ got["server"] = put["client"]
            /\ Writing("client") => foreign
            /\ todo["client"] = 0 \/ ~Writing("client")
        BY <1>0, <2>2, <3>1, <3>3, EndInside
      <4>2. ~Writing("client") => todo["client"] = 0
        <5>1. then["client"] \in {"write", "await"}
          BY <1>0 DEF Types
        <5> QED
          BY <1>6, <2>2, <5>1 DEF IInv, Settled, SettledAt, Writing
      <4>3. whole'["server"] = TRUE /\ got'["server"] = got["server"]
        BY <3>3 DEF ComesToEnd
      <4>4. Writing("client")' = Writing("client")
        BY <1>1, <1>2 DEF Writing
      <4> QED
        BY <1>1, <1>2, <1>3, <1>7, <2>2, <4>1, <4>2, <4>3, <4>4 DEF Requests
    <3> QED
      BY <1>1, <3>2, <3>3
  <2> QED
    BY <2>1, <2>2
<1> QED
  BY <1>4, <1>5, <1>8, <1>9 DEF IInv

LEMMA ClientReads ==
  ASSUME IInv, Types', ReadNull("client") \/ ReadSized("client") \/ ReadChunked("client")
  PROVE  IInv'
<1>0. /\ Types /\ "client" \in Ends /\ "server" \in Ends /\ Other("client") = "server"
      /\ "client" # "server"
  BY Others DEF IInv, Ends
<1>1. /\ pc["client"] = "read" /\ ~whole["client"] /\ pc'["server"] = pc["server"]
      /\ Under("client")' = Under("client") /\ UNCHANGED Kept /\ UNCHANGED <<frame, serving>>
      /\ got'["server"] = got["server"] /\ whole'["server"] = whole["server"]
      /\ TakesPiece("client", "server") \/ ComesToEnd("client", "server")
  BY <1>0, ReadCases
<1>2. UNCHANGED <<foreign, then, asked, header, buf, put, todo, skipped>>
  BY <1>1 DEF Kept
<1>3. pc'["client"] \in {"read", "idle"}
  BY <1>1 DEF TakesPiece, ComesToEnd
<1>4. Settled'
  BY <1>1, <1>2, <1>3 DEF IInv, Settled, SettledAt
<1>5. OneHead'
  BY <1>1, <1>2 DEF IInv, OneHead
<1>6. serving = asked /\ pc["server"] # "read" /\ Inside("client", "server")
  BY <1>1 DEF IInv, Responses
<1>7. Responses'
  <2>1. CASE TakesPiece("client", "server")
    <3>1. Inside("client", "server")'
      BY <1>0, <1>1, <1>6, <2>1, PieceInside
    <3>2. pc'["client"] = "read"
      BY <1>1, <2>1 DEF TakesPiece
    <3> QED
      BY <1>1, <1>2, <1>6, <3>1, <3>2 DEF Responses
  <2>2. CASE ComesToEnd("client", "server")
    <3>1. ~(link["server"] = <<>> /\ pc["server"] = "closed")
      <4> SUFFICES ASSUME link["server"] = <<>>, pc["server"] = "closed" PROVE FALSE
        OBVIOUS
      <4>1. buf["server"] = <<>>
        BY <1>1 DEF IInv, Settled, SettledAt
      <4>2. Under("server") = <<>>
        BY <4>1, ConcatEmptySeq DEF Under
      <4>3. Ending("server") = 1
        BY DEF Ending, Writing
      <4>4. /\ Its("server") \in Messages /\ Its("server").put = put["server"]
            /\ Its("server").ending = 1 /\ put["server"] \in Nat /\ got["client"] \in Nat
            /\ Under("server") \in Seq(Token)
        BY <1>0, <4>3, ItsTypes
      <4>5. got["client"] + 1 \in Nat /\ got["client"] + 1 <= Its("server").put + Its("server").ending
        BY <1>6, <4>4 DEF Inside
      <4>6. Stretch(Under("server"), got["client"] + 1, Its("server"))
        BY <1>6 DEF Inside, Rest
      <4> QED
        BY <4>2, <4>4, <4>5, <4>6, StretchHead
    <3>2. /\ Under("server")' = <<>> /\ got["client"] = put["server"] /\ ~Writing("server")
      BY <1>0, <1>6, <2>2, <3>1, EndInside
    <3>3. todo["server"] = 0 /\ Rests'
      <4>1. /\ then["server"] \in {"write", "await"} /\ pc["server"] # "idle"
            /\ pc["server"] \in {"idle", "write", "flush", "await", "read", "closed"}
        BY <1>0 DEF Types
      <4>2. \/ pc["server"] \in {"await", "closed"}
            \/ pc["server"] = "flush" /\ then["server"] = "await"
        BY <1>6, <3>2, <4>1 DEF Writing
      <4>3. todo["server"] = 0
        BY <1>1, <4>2 DEF IInv, Settled, SettledAt
      <4> QED
        BY <1>1, <1>2, <4>2, <4>3 DEF Rests
    <3>4. pc'["client"] = "idle" /\ got'["client"] = got["client"]
      BY <2>2 DEF ComesToEnd
    <3> QED
      BY <1>1, <1>2, <1>6, <3>2, <3>3, <3>4 DEF Responses
  <2> QED
    BY <1>1, <2>1, <2>2
<1>8. Requests'
  <2> SUFFICES ASSUME ~skipped PROVE Requests'
    BY <1>2 DEF Requests
  <2>1. /\ Announces("client")' = Announces("client") /\ Its("client")' = Its("client")
        /\ Writing("client")' = Writing("client")
    BY <1>1, <1>2, <1>3 DEF Its, Message, Announces, Ending, Writing
  <2>2. ~(serving < asked)
    BY <1>0, <1>6 DEF Types
  <2>3. CASE pc["server"] = "closed"
    BY <1>1, <2>2, <2>3 DEF IInv, Requests
  <2>4. CASE pc["server"] # "closed"
    BY <1>1, <1>2, <1>3, <1>6, <2>1, <2>2, <2>4 DEF IInv, Requests
  <2> QED
    BY <2>3, <2>4
<1> QED
  BY <1>4, <1>5, <1>7, <1>8 DEF IInv

-----------------------------------------------------------------------------
(* The inductive invariant.                                                *)

LEMMA InitIInv == Init => IInv
<1> SUFFICES ASSUME Init PROVE IInv
  OBVIOUS
<1>0. "client" \in Ends /\ "server" \in Ends
  BY DEF Ends
<1>1. /\ pc["client"] = "idle" /\ pc["server"] = "await" /\ asked = 0 /\ serving = 0
      /\ skipped = FALSE /\ whole["server"] = TRUE /\ \A e \in Ends : todo[e] = 0
      /\ \A e \in Ends : buf[e] = <<>> /\ link[e] = <<>>
  BY <1>0 DEF Init
<1>2. Types
  <2>1. pc \in [Ends -> {"idle", "write", "flush", "await", "read", "closed"}]
    BY DEF Init
  <2>2. frame \in [Ends -> Framings \X Nat]
    BY DEF Init, Framings
  <2>3. buf \in [Ends -> Seq(Token)] /\ link \in [Ends -> Seq(Token)]
    <3>1. <<>> \in Seq(Token)
      BY EmptySeq
    <3> QED
      BY <3>1 DEF Init
  <2>4. /\ then \in [Ends -> {"write", "await"}] /\ header \in [Ends -> Nat]
        /\ put \in [Ends -> Nat] /\ todo \in [Ends -> Nat] /\ got \in [Ends -> Nat]
        /\ whole \in [Ends -> BOOLEAN]
    BY DEF Init
  <2>5. foreign \in BOOLEAN /\ skipped \in BOOLEAN /\ asked \in Nat /\ serving \in Nat
    BY DEF Init
  <2> QED
    BY <1>1, <2>1, <2>2, <2>3, <2>4, <2>5 DEF Types
<1>3. Under("client") = <<>> /\ Under("server") = <<>>
  BY <1>0, <1>1, ConcatEmptySeq DEF Under
<1>4. Settled
  BY <1>0, <1>1 DEF Settled, SettledAt
<1>5. OneHead
  <2>1. serving <= asked /\ asked <= serving + 1
    BY <1>1
  <2>2. NoHead(Under("client")) /\ OneHeadAt(Under("client"), asked)
    BY <1>3, NoHeadOneHead
  <2> QED
    BY <2>1, <2>2 DEF OneHead
<1>6. Responses
  BY <1>1, <1>3 DEF Responses, Rests
<1>7. Requests
  BY <1>1, <1>3 DEF Requests, Writing
<1> QED
  BY <1>2, <1>4, <1>5, <1>6, <1>7 DEF IInv

LEMMA StutterKeeps == ASSUME IInv, UNCHANGED vars PROVE IInv'
<1>1. UNCHANGED <<foreign, pc, then, asked, serving, header, buf, link, put, todo, frame, got, whole,
                  skipped>>
  BY DEF vars
<1>2. Types'
  BY <1>1 DEF IInv, Types
<1>3. \A e \in Ends : /\ Under(e)' = Under(e) /\ Writing(e)' = Writing(e)
                      /\ Announces(e)' = Announces(e) /\ Its(e)' = Its(e)
  BY <1>1 DEF Under, Writing, Its, Message, Ending, Announces
<1>4. "client" \in Ends /\ "server" \in Ends
  BY DEF Ends
<1>5. \A e, d \in Ends : Inside(e, d)' = Inside(e, d)
  BY <1>1, <1>3 DEF Inside, Rest
<1>6. Settled' /\ OneHead'
  BY <1>1, <1>3, <1>4 DEF IInv, Settled, SettledAt, OneHead
<1>7. Responses' /\ Requests'
  <2>1. Rests' = Rests
    BY <1>1 DEF Rests
  <2>2. \A e \in Ends : Rest(e, 0)' = Rest(e, 0)
    BY <1>3 DEF Rest
  <2>3. Responses'
    BY <1>1, <1>3, <1>4, <1>5, <2>1, <2>2 DEF IInv, Responses
  <2>4. Requests'
    BY <1>1, <1>3, <1>4, <1>5, <2>2 DEF IInv, Requests
  <2> QED
    BY <2>3, <2>4
<1> QED
  BY <1>2, <1>6, <1>7 DEF IInv

LEMMA NextKeeps == IInv /\ [Next]_vars => IInv'
<1> SUFFICES ASSUME IInv, [Next]_vars PROVE IInv'
  OBVIOUS
<1>0. Types /\ Types'
  BY TypesStep DEF IInv
<1>1. CASE Request
  BY <1>1, RequestKeeps
<1>2. CASE Respond
  BY <1>2, RespondKeeps
<1>3. CASE Leave
  BY <1>3, LeaveKeeps
<1>4. ASSUME NEW e \in Ends, Writes(e) PROVE IInv'
  BY <1>4, WritingKeeps, TransferKeeps, FlushFailsKeeps DEF Writes
<1>5. ASSUME NEW e \in Ends, Reads(e) PROVE IInv'
  <2>1. CASE Parse(e)
    BY <2>1, ParseKeeps
  <2>2. CASE ReadNull(e) \/ ReadSized(e) \/ ReadChunked(e)
    <3>1. CASE e = "client"
      BY <1>0, <2>2, <3>1, ClientReads
    <3>2. CASE e = "server"
      BY <1>0, <2>2, <3>2, ServerReads
    <3> QED
      BY <3>1, <3>2 DEF Ends
  <2> QED
    BY <1>5, <2>1, <2>2 DEF Reads
<1>6. CASE UNCHANGED vars
  BY <1>6, StutterKeeps
<1> QED
  BY <1>1, <1>2, <1>3, <1>4, <1>5, <1>6 DEF Next

\* Between the two ends there is at every moment the rest of the message that
\* one of them is writing and the other reading, and nothing else.
THEOREM Invariance == Spec => []IInv
BY InitIInv, NextKeeps, PTL DEF Spec

-----------------------------------------------------------------------------
(* What follows from it.                                                   *)

\* Where parse_request() and parse_respose() look for the next message, it
\* begins: no piece of a body is parsed as a first line, as long as the server
\* reads requests to their end.
THEOREM FramedHolds == Spec => []Framed
<1>1. IInv => Framed
  <2> SUFFICES ASSUME IInv, ~skipped, NEW e \in Ends, pc[e] = "await", link[Other(e)] # <<>>
               PROVE  Head(link[Other(e)])[1] = "head"
    BY DEF Framed
  <2>0. Types /\ "client" \in Ends /\ "server" \in Ends
    BY DEF IInv, Ends
  <2>1. ASSUME NEW d \in Ends, link[d] # <<>>, Stretch(Under(d), 0, Its(d))
        PROVE  Head(link[d])[1] = "head"
    <3>1. /\ Under(d) \in Seq(Token) /\ Its(d) \in Messages /\ Under(d) # <<>>
          /\ Head(link[d]) = Under(d)[1]
      BY <2>0, <2>1, ItsTypes, Front
    <3> QED
      BY <2>1, <3>1, StretchHead
  <2>2. CASE e = "client"
    <3>1. link["server"] # <<>> /\ Other(e) = "server"
      BY <2>2, Others
    <3>2. Stretch(Under("server"), 0, Its("server"))
      BY <2>2, <3>1, ClientFinds
    <3> QED
      BY <2>0, <2>1, <3>1, <3>2
  <2>3. CASE e = "server"
    <3>1. link["client"] # <<>> /\ Other(e) = "client"
      BY <2>3, Others
    <3>2. Under("client") # <<>>
      BY <2>0, <3>1, Front
    <3>3. Stretch(Under("client"), 0, Its("client"))
      BY <2>3, <3>2 DEF IInv, Requests, Rest
    <3> QED
      BY <2>0, <2>1, <3>1, <3>3
  <2> QED
    BY <2>2, <2>3 DEF Ends
<1> QED
  BY <1>1, Invariance, PTL

\* A body that either end has read to its end is the body the other wrote: as
\* many pieces, and none still to come.
THEOREM WholeBodyHolds == Spec => []WholeBody
<1>1. IInv => WholeBody
  <2> SUFFICES ASSUME IInv PROVE WholeBody
    OBVIOUS
  <2>1. whole["client"] /\ pc["client"] = "idle" /\ asked > 0 =>
          got["client"] = put["server"] /\ todo["server"] = 0
    BY DEF IInv, Responses
  <2>2. ASSUME whole["server"], serving = asked, asked > 0, ~skipped, pc["client"] # "closed"
        PROVE  got["server"] = put["client"] /\ todo["client"] = 0
    <3>1. ~(serving < asked)
      BY <2>2 DEF IInv, Types
    <3> QED
      BY <2>2, <3>1 DEF IInv, Requests
  <2> QED
    BY <2>1, <2>2 DEF WholeBody
<1> QED
  BY <1>1, Invariance, PTL

\* Both ends stand in a write to a full connection only when the server has
\* answered a request it had not read to its end.
THEOREM NoStandstillHolds == Spec => []NoStandstill
<1>1. IInv => NoStandstill
  <2> SUFFICES ASSUME IInv, ~skipped,
                      \A e \in Ends : pc[e] = "flush" /\ buf[e] # <<>> /\ Len(link[e]) = Cap
               PROVE  FALSE
    BY DEF NoStandstill
  <2>1. Types /\ "client" \in Ends /\ "server" \in Ends
    BY DEF IInv, Ends
  <2>2. /\ pc["client"] = "flush" /\ pc["server"] = "flush"
        /\ Under("client") # <<>> /\ Under("server") # <<>>
    BY <2>1, ItsTypes
  <2>3. serving < asked \/ serving = asked
    BY <2>1 DEF IInv, OneHead, Types
  <2>4. ~(serving < asked)
    BY <2>2 DEF IInv, Responses
  <2> QED
    BY <2>2, <2>4 DEF IInv, Requests
<1> QED
  BY <1>1, Invariance, PTL
=============================================================================
