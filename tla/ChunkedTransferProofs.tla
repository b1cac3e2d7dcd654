----------------------- MODULE ChunkedTransferProofs ------------------------
(***************************************************************************)
(* Proofs about ChunkedTransfer, for every size of the buffers and of the  *)
(* body.                                                                   *)
(*                                                                         *)
(* The invariant runs an automaton of the chunked coding over the tokens   *)
(* under way.  It starts where the reader is in the message and, as long   *)
(* as the connection holds, ends where the writer is.  A chunk in which    *)
(* the reader has come to a byte determines the automaton's states up to   *)
(* the end of the chunk, however the reader takes it.                      *)
(***************************************************************************)
EXTENDS ChunkedTransfer, SequenceTheorems, TLAPS

\* A state of the automaton: what comes next, how many bytes of a chunk are to
\* come, and how many bytes of the body came before it.
St(at, left, count) == [at |-> at, left |-> left, count |-> count]
States(a) == [at : {"size", "data", "crlf", "trailer", "next", "end"}, left : Nat, count : 0 .. a]

\* The token tok takes it from s to t, when s is not inside of a chunk.
Follows(s, tok, t) ==
  \/ s.at = "size" /\ tok[1] = "size" /\ tok[2] \in Nat /\ tok[2] > 0
     /\ t = St("data", tok[2], s.count)
  \/ s.at = "size" /\ tok[1] = "size" /\ tok[2] = 0 /\ t = St("trailer", 0, s.count)
  \/ s.at = "crlf" /\ tok = CrLf /\ t = St("size", 0, s.count)
  \/ s.at = "trailer" /\ tok = CrLf /\ t = St("next", 0, s.count)
  \/ s.at = "next" /\ tok = NextMessage /\ t = St("end", 0, s.count)

\* The k-th byte of the chunk that s is in, and the state behind it.
Inside(s, k, tok, t) ==
  /\ tok = <<"data", s.count + k>>
  /\ t = St(IF k = s.left THEN "crlf" ELSE "data", s.left - k, s.count + k)

\* r is the run of the automaton over the tokens s; it passes a bytes at most.
Path(r, s, a) ==
  /\ r \in [0 .. Len(s) -> States(a)]
  /\ \A i \in 0 .. Len(s) - 1 : r[i].at # "data" => Follows(r[i], s[i + 1], r[i + 1])
  /\ \A i \in 0 .. Len(s) : r[i].at = "data" =>
       /\ r[i].left > 0
       /\ \A k \in 1 .. r[i].left :
            i + k <= Len(s) => Inside(r[i], k, s[i + k], r[i + k])

\* The tokens s take the automaton from x to y.
Takes(s, a, x, y) == \E r : Path(r, s, a) /\ r[0] = x /\ r[Len(s)] = y

\* Where the reader and the writer are in the message.
Base == Len(received) + Len(rbuf) + Len(fetched)
ReaderAt ==
  St(IF rpc # "idle" THEN rpc
     ELSE IF eof THEN "next" ELSE IF unread = 0 THEN "size" ELSE "data", unread, Base)
NextSent == \E i \in DOMAIN link : link[i] = NextMessage
WriterAt ==
  St(IF ~finished THEN "size" ELSE IF NextSent THEN "end" ELSE "next", 0, accepted - Len(wbuf))

UnderWay == \E y : Takes(link, accepted, ReaderAt, y) /\ (~cut => y = WriterAt)

\* The writer's buffer holds the last bytes of the body.
Writing ==
  /\ Len(wbuf) <= accepted
  /\ \A i \in DOMAIN wbuf : wbuf[i] = accepted - Len(wbuf) + i
  /\ finished => wbuf = <<>>
  /\ ~cut => outGood /\ obuf = <<>> /\ (~alive => finished)

\* The reader's buffers hold the bytes behind those the program has read.
Reading ==
  /\ \A i \in DOMAIN received : received[i] = i
  /\ \A i \in DOMAIN rbuf : rbuf[i] = Len(received) + i
  /\ \A i \in DOMAIN fetched : fetched[i] = Len(received) + i
  /\ rpc # "idle" => rbuf = <<>> /\ rend = "no"
  /\ rpc = "crlf" <=> fetched # <<>>
  /\ rpc \in {"size", "trailer", "crlf"} => unread = 0
  /\ rpc = "data" => unread > 0
  /\ rpc = "trailer" => eof
  /\ eof => unread = 0 /\ rpc \in {"idle", "trailer"} /\ (rpc = "idle" => rend = "eof")
  /\ rend = "bad" \/ (rend = "eof" /\ ~eof) => cut

IInv == TypeOK /\ Writing /\ Reading /\ UnderWay

-----------------------------------------------------------------------------
(* Runs of the automaton.                                                  *)

\* u is s followed by t, element by element.
Joined(u, s, t) ==
  /\ Len(s) \in Nat /\ Len(t) \in Nat /\ Len(u) = Len(s) + Len(t)
  /\ \A i \in 1 .. Len(s) : u[i] = s[i]
  /\ \A j \in 1 .. Len(t) : u[Len(s) + j] = t[j]

LEMMA ConcatJoined ==
  ASSUME NEW S, NEW s \in Seq(S), NEW t \in Seq(S)
  PROVE  Joined(s \o t, s, t) /\ s \o t \in Seq(S)
<1>1. /\ s \o t \in Seq(S) /\ Len(s \o t) = Len(s) + Len(t)
      /\ \A i \in 1 .. Len(s) + Len(t) : (s \o t)[i] = IF i <= Len(s) THEN s[i] ELSE t[i - Len(s)]
      /\ Len(s) \in Nat /\ Len(t) \in Nat
  BY ConcatProperties, LenProperties
<1>2. ASSUME NEW i \in 1 .. Len(s) PROVE (s \o t)[i] = s[i]
  BY <1>1
<1>3. ASSUME NEW j \in 1 .. Len(t) PROVE (s \o t)[Len(s) + j] = t[j]
  <2>1. Len(s) + j \in 1 .. Len(s) + Len(t) /\ ~(Len(s) + j <= Len(s)) /\ Len(s) + j - Len(s) = j
    BY <1>1
  <2> QED
    BY <1>1, <2>1
<1> QED
  BY <1>1, <1>2, <1>3 DEF Joined

\* A run that does not stop inside of a chunk goes on with another.
LEMMA PathJoin ==
  ASSUME NEW a \in Nat, NEW s, NEW t, NEW u, Joined(u, s, t),
         NEW x, NEW y, NEW z, Takes(s, a, x, y), Takes(t, a, y, z), y.at # "data"
  PROVE  Takes(u, a, x, z)
<1>1. PICK p : Path(p, s, a) /\ p[0] = x /\ p[Len(s)] = y
  BY DEF Takes
<1>2. PICK q : Path(q, t, a) /\ q[0] = y /\ q[Len(t)] = z
  BY DEF Takes
<1> DEFINE r == [i \in 0 .. Len(u) |-> IF i <= Len(s) THEN p[i] ELSE q[i - Len(s)]]
<1>3. /\ Len(s) \in Nat /\ Len(t) \in Nat /\ Len(u) = Len(s) + Len(t)
      /\ p \in [0 .. Len(s) -> States(a)] /\ q \in [0 .. Len(t) -> States(a)]
  BY <1>1, <1>2 DEF Joined, Path
<1>4. \A i \in 0 .. Len(s) : r[i] = p[i]
  BY <1>3
<1>5. ASSUME NEW j \in 0 .. Len(t) PROVE r[Len(s) + j] = q[j]
  <2>1. CASE j = 0
    BY <1>3, <1>4, <1>1, <1>2, <2>1
  <2>2. CASE j > 0
    <3>1. Len(s) + j \in 0 .. Len(u) /\ ~(Len(s) + j <= Len(s)) /\ Len(s) + j - Len(s) = j
      BY <1>3, <2>2
    <3> QED
      BY <3>1
  <2> QED
    BY <2>1, <2>2
<1>6. r \in [0 .. Len(u) -> States(a)]
  BY <1>3
<1> HIDE DEF r
<1>7. ASSUME NEW i \in 0 .. Len(u) - 1, r[i].at # "data" PROVE Follows(r[i], u[i + 1], r[i + 1])
  <2>1. CASE i < Len(s)
    <3>1. r[i] = p[i] /\ r[i + 1] = p[i + 1] /\ u[i + 1] = s[i + 1] /\ i \in 0 .. Len(s) - 1
      BY <1>3, <1>4, <2>1 DEF Joined
    <3> QED
      BY <1>7, <1>1, <3>1 DEF Path
  <2>2. CASE i >= Len(s)
    <3>1. PICK j \in 0 .. Len(t) - 1 : i = Len(s) + j
      <4>1. i - Len(s) \in 0 .. Len(t) - 1 /\ i = Len(s) + (i - Len(s))
        BY <1>3, <2>2
      <4> QED
        BY <4>1
    <3>2. j + 1 \in 1 .. Len(t) /\ j \in 0 .. Len(t) /\ j + 1 \in 0 .. Len(t) /\ i + 1 = Len(s) + (j + 1)
      BY <1>3, <3>1
    <3>3. r[i] = q[j] /\ r[i + 1] = q[j + 1] /\ u[i + 1] = t[j + 1]
      BY <1>5, <3>1, <3>2 DEF Joined
    <3> QED
      BY <1>7, <1>2, <3>1, <3>3 DEF Path
  <2> QED
    BY <1>3, <2>1, <2>2
<1>8. ASSUME NEW i \in 0 .. Len(u), r[i].at = "data"
      PROVE  /\ r[i].left > 0
             /\ \A k \in 1 .. r[i].left : i + k <= Len(u) => Inside(r[i], k, u[i + k], r[i + k])
  <2>1. CASE i <= Len(s)
    <3>0. i \in 0 .. Len(s) /\ r[i] = p[i] /\ p[i] \in States(a)
      <4>1. i \in 0 .. Len(s)
        BY <1>3, <2>1
      <4> QED
        BY <1>3, <1>4, <4>1
    <3>1. /\ r[i] = p[i] /\ p[i].left > 0 /\ p[i].left \in Nat /\ i \in 0 .. Len(s)
          /\ \A k \in 1 .. p[i].left : i + k <= Len(s) => Inside(p[i], k, s[i + k], p[i + k])
      <4>1. p[i].left \in Nat
        BY <3>0 DEF States
      <4> QED
        BY <1>8, <1>1, <3>0, <4>1 DEF Path
    <3>2. i + p[i].left <= Len(s)
      <4> SUFFICES ASSUME i + p[i].left > Len(s) PROVE FALSE
        BY <1>3, <3>1
      <4>1. i # Len(s)
        BY <1>8, <1>1, <3>1
      <4>2. PICK k \in 1 .. p[i].left : i + k = Len(s) /\ k # p[i].left
        <5>1. Len(s) - i \in 1 .. p[i].left /\ i + (Len(s) - i) = Len(s) /\ Len(s) - i # p[i].left
          BY <1>3, <3>1, <4>1
        <5> QED
          BY <5>1
      <4>3. Inside(p[i], k, s[i + k], p[i + k])
        BY <1>3, <3>1, <4>2
      <4> QED
        BY <1>1, <4>2, <4>3 DEF Inside, St
    <3>3. ASSUME NEW k \in 1 .. p[i].left PROVE Inside(r[i], k, u[i + k], r[i + k])
      <4>1. i + k \in 1 .. Len(s) /\ i + k \in 0 .. Len(s)
        BY <1>3, <3>1, <3>2
      <4>2. u[i + k] = s[i + k] /\ r[i + k] = p[i + k]
        BY <1>4, <4>1 DEF Joined
      <4> QED
        BY <3>1, <4>1, <4>2
    <3> QED
      BY <3>1, <3>3
  <2>2. CASE i > Len(s)
    <3>1. PICK j \in 0 .. Len(t) : i = Len(s) + j
      <4>1. i - Len(s) \in 0 .. Len(t) /\ i = Len(s) + (i - Len(s))
        BY <1>3, <2>2
      <4> QED
        BY <4>1
    <3>2. /\ r[i] = q[j] /\ q[j].left > 0 /\ q[j].left \in Nat
          /\ \A k \in 1 .. q[j].left : j + k <= Len(t) => Inside(q[j], k, t[j + k], q[j + k])
      BY <1>3, <1>5, <1>8, <1>2, <3>1 DEF Path, States
    <3>3. ASSUME NEW k \in 1 .. q[j].left, i + k <= Len(u) PROVE Inside(r[i], k, u[i + k], r[i + k])
      <4>1. j + k \in 1 .. Len(t) /\ j + k \in 0 .. Len(t) /\ i + k = Len(s) + (j + k)
        BY <1>3, <3>1, <3>2, <3>3
      <4>2. u[i + k] = t[j + k] /\ r[i + k] = q[j + k]
        BY <1>5, <4>1 DEF Joined
      <4> QED
        BY <3>2, <4>1, <4>2
    <3> QED
      BY <3>2, <3>3
  <2> QED
    BY <1>3, <2>1, <2>2
<1>9. Path(r, u, a)
  BY <1>6, <1>7, <1>8 DEF Path
<1> QED
  <2>1. r[0] = x /\ r[Len(u)] = z
    BY <1>3, <1>4, <1>5, <1>1, <1>2
  <2> QED
    BY <1>9, <2>1 DEF Takes

\* A run over some tokens, seen from the n-th on.
LEMMA PathDrop ==
  ASSUME NEW a \in Nat, NEW s, NEW p, Path(p, s, a), Len(s) \in Nat, NEW n \in 0 .. Len(s),
         NEW t, Len(t) = Len(s) - n, \A j \in 1 .. Len(t) : t[j] = s[n + j]
  PROVE  Takes(t, a, p[n], p[Len(s)])
<1> DEFINE r == [i \in 0 .. Len(t) |-> p[n + i]]
<1>1. /\ p \in [0 .. Len(s) -> States(a)] /\ n \in Nat /\ Len(t) \in Nat
      /\ \A i \in 0 .. Len(t) : n + i \in 0 .. Len(s)
  BY DEF Path
<1>2. r \in [0 .. Len(t) -> States(a)] /\ \A i \in 0 .. Len(t) : r[i] = p[n + i]
  BY <1>1
<1> HIDE DEF r
<1>3. ASSUME NEW i \in 0 .. Len(t) - 1, r[i].at # "data" PROVE Follows(r[i], t[i + 1], r[i + 1])
  <2>1. /\ n + i \in 0 .. Len(s) - 1 /\ i \in 0 .. Len(t) /\ i + 1 \in 0 .. Len(t)
        /\ i + 1 \in 1 .. Len(t) /\ n + (i + 1) = (n + i) + 1
    BY <1>1
  <2>2. r[i] = p[n + i] /\ r[i + 1] = p[(n + i) + 1] /\ t[i + 1] = s[(n + i) + 1]
    <3>1. r[i] = p[n + i]
      BY <1>2, <2>1
    <3>2. r[i + 1] = p[n + (i + 1)]
      BY <1>2, <2>1
    <3>3. t[i + 1] = s[n + (i + 1)]
      BY <2>1
    <3> QED
      BY <2>1, <3>1, <3>2, <3>3
  <2> QED
    BY <1>3, <2>1, <2>2 DEF Path
<1>4. ASSUME NEW i \in 0 .. Len(t), r[i].at = "data"
      PROVE  /\ r[i].left > 0
             /\ \A k \in 1 .. r[i].left : i + k <= Len(t) => Inside(r[i], k, t[i + k], r[i + k])
  <2>1. /\ r[i] = p[n + i] /\ p[n + i].left > 0 /\ n + i \in 0 .. Len(s) /\ p[n + i].left \in Nat
        /\ \A k \in 1 .. p[n + i].left :
             (n + i) + k <= Len(s) => Inside(p[n + i], k, s[(n + i) + k], p[(n + i) + k])
    BY <1>1, <1>2, <1>4 DEF Path, States
  <2>2. ASSUME NEW k \in 1 .. r[i].left, i + k <= Len(t) PROVE Inside(r[i], k, t[i + k], r[i + k])
    <3>1. /\ i + k \in 1 .. Len(t) /\ i + k \in 0 .. Len(t) /\ n + (i + k) = (n + i) + k
          /\ (n + i) + k <= Len(s)
      <4>1. k \in Nat /\ k > 0 /\ i \in Nat /\ n \in Nat /\ Len(t) \in Nat /\ Len(s) = Len(t) + n
        <5>1. r[i].left \in Nat
          BY <2>1
        <5>2. k \in Nat /\ k > 0
          BY <2>2, <5>1
        <5> QED
          BY <1>1, <5>2
      <4> QED
        BY <2>2, <4>1
    <3>2. t[i + k] = s[(n + i) + k] /\ r[i + k] = p[(n + i) + k]
      <4>1. t[i + k] = s[n + (i + k)]
        BY <3>1
      <4>2. r[i + k] = p[n + (i + k)]
        BY <1>2, <3>1
      <4> QED
        BY <3>1, <4>1, <4>2
    <3> QED
      BY <2>1, <3>1, <3>2
  <2> QED
    BY <2>1, <2>2
<1>5. Path(r, t, a)
  BY <1>2, <1>3, <1>4 DEF Path
<1>6. r[0] = p[n] /\ r[Len(t)] = p[Len(s)]
  BY <1>1, <1>2
<1> QED
  BY <1>5, <1>6 DEF Takes

\* A run over some tokens, stopped behind the n-th.
LEMMA PathTake ==
  ASSUME NEW a \in Nat, NEW s, NEW p, Path(p, s, a), Len(s) \in Nat, NEW n \in 0 .. Len(s),
         NEW t, Len(t) = n, \A j \in 1 .. n : t[j] = s[j]
  PROVE  Takes(t, a, p[0], p[n])
<1> DEFINE r == [i \in 0 .. n |-> p[i]]
<1>1. p \in [0 .. Len(s) -> States(a)] /\ n \in Nat /\ \A i \in 0 .. n : i \in 0 .. Len(s)
  BY DEF Path
<1>2. r \in [0 .. n -> States(a)] /\ \A i \in 0 .. n : r[i] = p[i]
  BY <1>1
<1> HIDE DEF r
<1>3. ASSUME NEW i \in 0 .. n - 1, r[i].at # "data" PROVE Follows(r[i], t[i + 1], r[i + 1])
  <2>1. i \in 0 .. Len(s) - 1 /\ i \in 0 .. n /\ i + 1 \in 0 .. n /\ i + 1 \in 1 .. n
    BY <1>1
  <2>2. r[i] = p[i] /\ r[i + 1] = p[i + 1] /\ t[i + 1] = s[i + 1]
    BY <1>2, <2>1
  <2> QED
    BY <1>3, <2>1, <2>2 DEF Path
<1>4. ASSUME NEW i \in 0 .. n, r[i].at = "data"
      PROVE  /\ r[i].left > 0
             /\ \A k \in 1 .. r[i].left : i + k <= n => Inside(r[i], k, t[i + k], r[i + k])
  <2>1. /\ r[i] = p[i] /\ p[i].left > 0 /\ i \in 0 .. Len(s) /\ p[i].left \in Nat
        /\ \A k \in 1 .. p[i].left : i + k <= Len(s) => Inside(p[i], k, s[i + k], p[i + k])
    BY <1>1, <1>2, <1>4 DEF Path, States
  <2>2. ASSUME NEW k \in 1 .. r[i].left, i + k <= n PROVE Inside(r[i], k, t[i + k], r[i + k])
    <3>1. i + k \in 1 .. n /\ i + k \in 0 .. n /\ i + k <= Len(s)
      BY <1>1, <2>1, <2>2
    <3>2. t[i + k] = s[i + k] /\ r[i + k] = p[i + k]
      BY <1>2, <3>1
    <3> QED
      BY <2>1, <3>1, <3>2
  <2> QED
    BY <2>1, <2>2
<1>5. Path(r, t, a) /\ r[0] = p[0] /\ r[n] = p[n]
  BY <1>1, <1>2, <1>3, <1>4 DEF Path
<1> QED
  BY <1>5 DEF Takes

\* The body may grow.
LEMMA PathWiden ==
  ASSUME NEW a \in Nat, NEW b \in Nat, a <= b, NEW s, NEW p, Path(p, s, a)
  PROVE  Path(p, s, b)
<1>1. States(a) \subseteq States(b)
  BY DEF States
<1>2. p \in [0 .. Len(s) -> States(b)]
  BY <1>1 DEF Path
<1> QED
  BY <1>2 DEF Path

\* No tokens take the automaton nowhere.
LEMMA PathEmpty ==
  ASSUME NEW a \in Nat, NEW x \in States(a), x.at = "data" => x.left > 0,
         NEW s, Len(s) = 0
  PROVE  Takes(s, a, x, x)
<1> DEFINE r == [i \in 0 .. Len(s) |-> x]
<1>1. r \in [0 .. Len(s) -> States(a)] /\ r[0] = x /\ r[Len(s)] = x
  OBVIOUS
<1>2. \A i \in 0 .. Len(s) : i = 0
  OBVIOUS
<1> HIDE DEF r
<1>3. x.left \in Nat
  BY DEF States
<1>4. ASSUME NEW i \in 0 .. Len(s), NEW k \in 1 .. r[i].left, i + k <= Len(s) PROVE FALSE
  <2>1. i = 0
    BY <1>2
  <2>2. k \in Nat /\ k > 0
    BY <1>1, <1>3, <2>1
  <2> QED
    BY <1>4, <2>1, <2>2
<1>5. \A i \in 0 .. Len(s) : r[i].at = "data" => r[i].left > 0
  BY <1>1, <1>2
<1>6. \A i \in 0 .. Len(s) - 1 : FALSE
  OBVIOUS
<1>7. Path(r, s, a)
  BY <1>1, <1>4, <1>5, <1>6 DEF Path
<1> QED
  BY <1>1, <1>7 DEF Takes

\* One token outside of a chunk is a step of its own.
LEMMA PathOne ==
  ASSUME NEW a \in Nat, NEW x \in States(a), NEW y \in States(a), x.at # "data",
         y.at = "data" => y.left > 0, NEW tok, Follows(x, tok, y)
  PROVE  Takes(<<tok>>, a, x, y)
<1> DEFINE s == <<tok>>
           r == [i \in 0 .. 1 |-> IF i = 0 THEN x ELSE y]
<1>1. Len(s) = 1 /\ s[1] = tok
  OBVIOUS
<1>2. r \in [0 .. 1 -> States(a)] /\ r[0] = x /\ r[1] = y
  OBVIOUS
<1> HIDE DEF r, s
<1>3. x.left \in Nat /\ y.left \in Nat
  BY DEF States
<1>4. ASSUME NEW i \in 0 .. Len(s) - 1 PROVE Follows(r[i], s[i + 1], r[i + 1])
  <2>1. i = 0
    BY <1>1
  <2> QED
    BY <1>1, <1>2, <2>1
<1>5. ASSUME NEW i \in 0 .. Len(s), r[i].at = "data"
      PROVE  /\ r[i].left > 0
             /\ \A k \in 1 .. r[i].left : i + k <= Len(s) => Inside(r[i], k, s[i + k], r[i + k])
  <2>1. i = 1
    BY <1>1, <1>2, <1>5
  <2>2. ASSUME NEW k \in 1 .. r[i].left, i + k <= Len(s) PROVE FALSE
    <3>1. k \in Nat /\ k > 0
      BY <1>2, <1>3, <2>1
    <3> QED
      BY <1>1, <2>1, <2>2, <3>1
  <2> QED
    BY <1>2, <1>5, <2>1, <2>2
<1>6. Path(r, s, a)
  BY <1>1, <1>2, <1>4, <1>5 DEF Path
<1>7. Takes(s, a, x, y)
  BY <1>1, <1>2, <1>6 DEF Takes
<1> QED
  BY <1>7 DEF s

\* What a chunk is, token by token.
LEMMA ChunkTokens ==
  ASSUME NEW s \in Seq(1 .. NBytes), Len(s) <= NBytes
  PROVE  /\ Chunk(s) \in Seq(Token) /\ Len(s) \in Nat /\ Len(Chunk(s)) = Len(s) + 2
         /\ Chunk(s)[1] = SizeLine(Len(s)) /\ Chunk(s)[Len(s) + 2] = CrLf
         /\ \A k \in 1 .. Len(s) : Chunk(s)[k + 1] = <<"data", s[k]>>
<1> DEFINE A == <<SizeLine(Len(s))>>
           B == Data(s)
           C == <<CrLf>>
           n == Len(s)
<1>1. n \in Nat /\ NBytes \in Nat /\ DOMAIN s = 1 .. n /\ \A i \in 1 .. n : s[i] \in 1 .. NBytes
  BY LenProperties, ElementOfSeq, ChunkedAssumption
<1>2. B \in Seq(Token) /\ Len(B) = n /\ \A k \in 1 .. n : B[k] = <<"data", s[k]>>
  <2>1. \A i \in 1 .. n : <<"data", s[i]>> \in Token
    BY <1>1 DEF Token
  <2> QED
    BY <1>1, <2>1 DEF Data
<1>3. A \in Seq(Token) /\ Len(A) = 1 /\ A[1] = SizeLine(n)
  <2>1. SizeLine(n) \in Token
    BY <1>1 DEF Token, SizeLine
  <2> QED
    BY <2>1
<1>4. C \in Seq(Token) /\ Len(C) = 1 /\ C[1] = CrLf
  BY DEF Token
<1>5. Chunk(s) = (A \o B) \o C
  BY DEF Chunk
<1> HIDE DEF A, B, C
<1>6. Joined(A \o B, A, B) /\ A \o B \in Seq(Token)
  BY <1>2, <1>3, ConcatJoined
<1>7. Joined(Chunk(s), A \o B, C) /\ Chunk(s) \in Seq(Token)
  BY <1>4, <1>5, <1>6, ConcatJoined
<1>8. Len(A \o B) = n + 1 /\ (A \o B)[1] = SizeLine(n) /\ \A k \in 1 .. n : (A \o B)[1 + k] = B[k]
  BY <1>1, <1>2, <1>3, <1>6 DEF Joined
<1>9. Len(Chunk(s)) = n + 2 /\ Chunk(s)[1] = SizeLine(n) /\ Chunk(s)[n + 2] = CrLf
  <2>1. Len(Chunk(s)) = (n + 1) + 1 /\ Chunk(s)[1] = (A \o B)[1] /\ Chunk(s)[(n + 1) + 1] = C[1]
    BY <1>1, <1>4, <1>7, <1>8 DEF Joined
  <2> QED
    BY <1>1, <1>4, <1>8, <2>1
<1>10. ASSUME NEW k \in 1 .. n PROVE Chunk(s)[k + 1] = <<"data", s[k]>>
  <2>1. k + 1 = 1 + k /\ k + 1 \in 1 .. n + 1
    BY <1>1
  <2>2. Chunk(s)[k + 1] = (A \o B)[k + 1]
    BY <1>7, <1>8, <2>1 DEF Joined
  <2> QED
    BY <1>2, <1>8, <2>1, <2>2
<1> QED
  BY <1>1, <1>7, <1>9, <1>10

\* A chunk takes the automaton from one chunk-size line to the next.
LEMMA ChunkPath ==
  ASSUME NEW a \in Nat, NEW c \in Nat, NEW s \in Seq(1 .. NBytes), Len(s) <= NBytes,
         Len(s) > 0, c + Len(s) <= a, \A i \in 1 .. Len(s) : s[i] = c + i
  PROVE  Takes(Chunk(s), a, St("size", 0, c), St("size", 0, c + Len(s)))
<1> DEFINE n == Len(s)
           u == Chunk(s)
           mid(k) == St(IF k = n THEN "crlf" ELSE "data", n - k, c + k)
           r == [i \in 0 .. n + 2 |->
                  IF i = 0 THEN St("size", 0, c)
                  ELSE IF i = n + 2 THEN St("size", 0, c + n) ELSE mid(i - 1)]
<1>1. /\ n \in Nat /\ n > 0 /\ Len(u) = n + 2 /\ u[1] = SizeLine(n) /\ u[n + 2] = CrLf
      /\ \A k \in 1 .. n : u[k + 1] = <<"data", s[k]>>
  BY ChunkTokens
<1>2. c + n <= a /\ \A i \in 1 .. n : s[i] = c + i
  OBVIOUS
<1> HIDE DEF n, u
<1>3. \A k \in 0 .. n : mid(k) \in States(a)
  BY <1>1, <1>2 DEF St, States
<1>4. St("size", 0, c) \in States(a) /\ St("size", 0, c + n) \in States(a)
  BY <1>1, <1>2 DEF St, States
<1>5. /\ r[0] = St("size", 0, c) /\ r[n + 2] = St("size", 0, c + n)
      /\ \A k \in 0 .. n : r[k + 1] = mid(k)
  BY <1>1
<1>6. r \in [0 .. n + 2 -> States(a)]
  <2>1. ASSUME NEW i \in 0 .. n + 2, i # 0, i # n + 2 PROVE mid(i - 1) \in States(a)
    <3>1. i - 1 \in 0 .. n
      BY <1>1, <2>1
    <3> QED
      BY <1>3, <3>1
  <2> QED
    BY <1>4, <2>1
<1> HIDE DEF r
<1>7. ASSUME NEW k \in 0 .. n PROVE /\ mid(k).at = (IF k = n THEN "crlf" ELSE "data")
                                     /\ mid(k).left = n - k /\ mid(k).count = c + k
  BY DEF St
<1> HIDE DEF mid
<1>8. ASSUME NEW i \in 0 .. n + 2 - 1, r[i].at # "data" PROVE Follows(r[i], u[i + 1], r[i + 1])
  <2>1. CASE i = 0
    <3>1. r[1] = mid(0) /\ mid(0) = St("data", n, c)
      <4>1. r[0 + 1] = mid(0)
        BY <1>1, <1>5
      <4> QED
        BY <1>1, <4>1 DEF mid
    <3> QED
      BY <1>1, <1>5, <2>1, <3>1 DEF Follows, SizeLine, St
  <2>2. CASE i = n + 1
    <3>1. r[i] = mid(n) /\ mid(n) = St("crlf", 0, c + n)
      <4>1. r[n + 1] = mid(n)
        BY <1>1, <1>5
      <4> QED
        BY <1>1, <2>2, <4>1 DEF mid
    <3>2. u[i + 1] = CrLf /\ r[i + 1] = St("size", 0, c + n)
      <4>1. i + 1 = n + 2
        BY <1>1, <2>2
      <4> QED
        BY <1>1, <1>5, <4>1
    <3> QED
      BY <3>1, <3>2 DEF Follows, St
  <2>3. CASE i # 0 /\ i # n + 1
    <3>1. i - 1 \in 0 .. n /\ i - 1 # n /\ (i - 1) + 1 = i
      BY <1>1, <2>3
    <3>2. r[i] = mid(i - 1)
      BY <1>5, <3>1
    <3> QED
      BY <1>7, <1>8, <3>1, <3>2
  <2> QED
    BY <2>1, <2>2, <2>3
<1>9. ASSUME NEW i \in 0 .. n + 2, r[i].at = "data"
      PROVE  /\ r[i].left > 0
             /\ \A k \in 1 .. r[i].left : i + k <= n + 2 => Inside(r[i], k, u[i + k], r[i + k])
  <2>1. i # 0 /\ i # n + 2
    BY <1>5, <1>9 DEF St
  <2>2. PICK j \in 0 .. n : i = j + 1
    <3>1. i - 1 \in 0 .. n /\ i = (i - 1) + 1
      BY <1>1, <2>1
    <3> QED
      BY <3>1
  <2>3. r[i] = mid(j)
    BY <1>5, <2>2
  <2>4. j # n /\ r[i].left = n - j /\ r[i].count = c + j
    BY <1>7, <1>9, <2>3
  <2>5. ASSUME NEW k \in 1 .. n - j PROVE Inside(r[i], k, u[i + k], r[i + k])
    <3>1. /\ j + k \in 0 .. n /\ j + k \in 1 .. n /\ i + k = (j + k) + 1 /\ c + (j + k) = (c + j) + k
          /\ n - (j + k) = (n - j) - k /\ (j + k = n <=> k = n - j)
      BY <1>1, <2>2
    <3>2. u[i + k] = <<"data", (c + j) + k>>
      <4>1. u[(j + k) + 1] = <<"data", s[j + k]>> /\ s[j + k] = c + (j + k)
        BY <1>1, <1>2, <3>1
      <4> QED
        BY <3>1, <4>1
    <3>3. r[i + k] = mid(j + k)
      BY <1>5, <3>1
    <3>4. mid(j + k) = St(IF k = n - j THEN "crlf" ELSE "data", (n - j) - k, (c + j) + k)
      BY <3>1 DEF mid
    <3> QED
      BY <2>4, <3>2, <3>3, <3>4 DEF Inside
  <2>6. n - j > 0
    BY <1>1, <2>2, <2>4
  <2> QED
    BY <2>4, <2>5, <2>6
<1>10. Path(r, u, a)
  BY <1>1, <1>6, <1>8, <1>9 DEF Path
<1> QED
  <2>1. Takes(u, a, St("size", 0, c), St("size", 0, c + n))
    BY <1>1, <1>5, <1>10 DEF Takes
  <2> QED
    BY <2>1 DEF n, u

\* The last chunk ends the message.
LEMMA LastPath ==
  ASSUME NEW a \in Nat, NEW c \in 0 .. a
  PROVE  /\ LastChunk \in Seq(Token) /\ Len(LastChunk) = 2
         /\ Takes(LastChunk, a, St("size", 0, c), St("next", 0, c))
<1> DEFINE x == St("size", 0, c)
           y == St("trailer", 0, c)
           z == St("next", 0, c)
<1>1. x \in States(a) /\ y \in States(a) /\ z \in States(a)
  BY DEF St, States
<1>2. x.at = "size" /\ x.count = c /\ y.at = "trailer" /\ y.count = c /\ z.at = "next"
  BY DEF St
<1>3. Follows(x, SizeLine(0), y) /\ Follows(y, CrLf, z)
  BY <1>2 DEF Follows, SizeLine
<1> HIDE DEF x, y, z
<1>4. Takes(<<SizeLine(0)>>, a, x, y) /\ Takes(<<CrLf>>, a, y, z)
  BY <1>1, <1>2, <1>3, PathOne
<1>5. SizeLine(0) \in Token /\ CrLf \in Token
  BY ChunkedAssumption DEF Token, SizeLine, CrLf
<1>6. /\ LastChunk \in Seq(Token) /\ Len(LastChunk) = 2 /\ LastChunk[1] = SizeLine(0)
      /\ LastChunk[2] = CrLf
  BY <1>5 DEF LastChunk
<1>7. Joined(LastChunk, <<SizeLine(0)>>, <<CrLf>>)
  <2>1. \A i \in 1 .. Len(<<SizeLine(0)>>) : LastChunk[i] = <<SizeLine(0)>>[i]
    BY <1>6
  <2>2. \A i \in 1 .. Len(<<CrLf>>) : LastChunk[Len(<<SizeLine(0)>>) + i] = <<CrLf>>[i]
    BY <1>6
  <2> QED
    BY <1>6, <2>1, <2>2 DEF Joined
<1>8. Takes(LastChunk, a, x, z)
  BY <1>2, <1>4, <1>7, PathJoin
<1> QED
  BY <1>6, <1>8 DEF x, z

\* Where the automaton meets the next message, it is behind this one.
LEMMA NoNext ==
  ASSUME NEW a \in Nat, NEW s, NEW p, Path(p, s, a), Len(s) \in Nat, DOMAIN s = 1 .. Len(s),
         NEW i \in DOMAIN s, s[i] = NextMessage
  PROVE  i = Len(s) /\ p[i].at = "end" /\ p[i - 1].at = "next"
<1>1. /\ i - 1 \in 0 .. Len(s) - 1 /\ i - 1 \in 0 .. Len(s) /\ (i - 1) + 1 = i /\ i <= Len(s)
      /\ i \in 0 .. Len(s)
  OBVIOUS
<1>2. p[i - 1] \in States(a)
  BY <1>1 DEF Path
<1>3. p[i - 1].at # "data"
  <2> SUFFICES ASSUME p[i - 1].at = "data" PROVE FALSE
    OBVIOUS
  <2>1. 1 \in 1 .. p[i - 1].left
    <3>1. p[i - 1].left > 0 /\ p[i - 1].left \in Nat
      BY <1>1, <1>2 DEF Path, States
    <3> QED
      BY <3>1
  <2>2. Inside(p[i - 1], 1, s[i], p[i])
    BY <1>1, <2>1 DEF Path
  <2> QED
    BY <2>2 DEF Inside, NextMessage
<1>4. Follows(p[i - 1], s[i], p[i])
  BY <1>1, <1>3 DEF Path
<1>5. p[i].at = "end" /\ p[i - 1].at = "next"
  BY <1>4 DEF Follows, NextMessage, CrLf, St
<1>6. i = Len(s)
  <2> SUFFICES ASSUME i < Len(s) PROVE FALSE
    BY <1>1
  <2>1. i \in 0 .. Len(s) - 1
    OBVIOUS
  <2>2. Follows(p[i], s[i + 1], p[i + 1])
    BY <1>5, <2>1 DEF Path
  <2> QED
    BY <1>5, <2>2 DEF Follows
<1> QED
  BY <1>5, <1>6

-----------------------------------------------------------------------------
(* Taking tokens off the connection, and losing them.                      *)

\* A run of states starts and ends in states.
LEMMA TakesStates ==
  ASSUME NEW a \in Nat, NEW s, Len(s) \in Nat, NEW x, NEW y, Takes(s, a, x, y)
  PROVE  /\ x \in States(a) /\ y \in States(a) /\ (x.at = "data" => x.left > 0)
         /\ (Len(s) = 0 => x = y)
<1>1. PICK p : Path(p, s, a) /\ p[0] = x /\ p[Len(s)] = y
  BY DEF Takes
<1>2. 0 \in 0 .. Len(s) /\ Len(s) \in 0 .. Len(s)
  OBVIOUS
<1> QED
  BY <1>1, <1>2 DEF Path

\* Outside of a chunk the reader takes one token.
LEMMA TakeHead ==
  ASSUME NEW a \in Nat, NEW s \in Seq(Token), s # <<>>, NEW x, NEW y, Takes(s, a, x, y),
         x.at # "data"
  PROVE  \E x1 \in States(a) : Follows(x, Head(s), x1) /\ Takes(Tail(s), a, x1, y)
<1>1. PICK p : Path(p, s, a) /\ p[0] = x /\ p[Len(s)] = y
  BY DEF Takes
<1>2. /\ Len(s) \in Nat /\ Len(s) > 0 /\ Head(s) = s[1] /\ Len(Tail(s)) = Len(s) - 1
      /\ \A i \in 1 .. Len(Tail(s)) : Tail(s)[i] = s[i + 1]
  <2>1. Len(s) \in Nat /\ Len(s) > 0
    BY EmptySeq
  <2>2. Len(Tail(s)) = Len(s) - 1 /\ \A i \in 1 .. Len(Tail(s)) : Tail(s)[i] = s[i + 1]
    BY HeadTailProperties
  <2> QED
    BY <2>1, <2>2
<1>3. p[1] \in States(a) /\ Follows(x, s[1], p[1])
  <2>1. 0 \in 0 .. Len(s) - 1 /\ 1 \in 0 .. Len(s) /\ 0 + 1 = 1
    BY <1>2
  <2> QED
    BY <1>1, <2>1 DEF Path
<1>4. Takes(Tail(s), a, p[1], y)
  <2> DEFINE t == Tail(s)
  <2>1. 1 \in 0 .. Len(s) /\ Len(t) = Len(s) - 1
    BY <1>2
  <2>2. \A j \in 1 .. Len(t) : t[j] = s[1 + j]
    <3>1. ASSUME NEW j \in 1 .. Len(t) PROVE t[j] = s[1 + j]
      <4>1. j + 1 = 1 + j
        BY <1>2
      <4> QED
        BY <1>2, <4>1
    <3> QED
      BY <3>1
  <2> HIDE DEF t
  <2>3. Takes(t, a, p[1], p[Len(s)])
    BY <1>1, <1>2, <2>1, <2>2, PathDrop
  <2> QED
    BY <1>1, <2>3 DEF t
<1> QED
  BY <1>2, <1>3, <1>4

\* What is left behind the first n tokens.
LEMMA DropTokens ==
  ASSUME NEW s \in Seq(Token), NEW n \in 0 .. Len(s)
  PROVE  /\ SubSeq(s, n + 1, Len(s)) \in Seq(Token)
         /\ Len(SubSeq(s, n + 1, Len(s))) = Len(s) - n
         /\ \A j \in 1 .. Len(s) - n : SubSeq(s, n + 1, Len(s))[j] = s[n + j]
<1> DEFINE t == SubSeq(s, n + 1, Len(s))
<1>1. Len(s) \in Nat
  BY LenProperties
<1>2. \A i \in n + 1 .. Len(s) : s[i] \in Token
  <2>1. \A i \in n + 1 .. Len(s) : i \in 1 .. Len(s)
    BY <1>1
  <2> QED
    BY <2>1, ElementOfSeq
<1>3. n + 1 \in Int /\ Len(s) \in Int
  BY <1>1
<1>4. /\ t \in Seq(Token) /\ Len(t) = (IF n + 1 <= Len(s) THEN Len(s) - (n + 1) + 1 ELSE 0)
      /\ \A i \in 1 .. Len(s) - (n + 1) + 1 : t[i] = s[n + 1 + i - 1]
  BY <1>2, <1>3, SubSeqProperties
<1>5. Len(t) = Len(s) - n /\ Len(s) - (n + 1) + 1 = Len(s) - n
  BY <1>1, <1>4
<1>6. ASSUME NEW j \in 1 .. Len(s) - n PROVE t[j] = s[n + j]
  <2>1. n + 1 + j - 1 = n + j
    BY <1>1
  <2>2. t[j] = s[n + 1 + j - 1]
    BY <1>4, <1>5
  <2> QED
    BY <2>1, <2>2
<1> QED
  BY <1>4, <1>5, <1>6

\* Inside of a chunk the reader takes bytes of the body, as many as there are.
LEMMA TakeData ==
  ASSUME NEW a \in Nat, NEW s \in Seq(Token), NEW x, NEW y, Takes(s, a, x, y), x.at = "data",
         NEW n \in Nat, n <= x.left, n <= Len(s)
  PROVE  /\ x \in States(a) /\ x.count + n <= a
         /\ \A k \in 1 .. n : s[k] = <<"data", x.count + k>>
         /\ Takes(SubSeq(s, n + 1, Len(s)), a,
                  St(IF n = x.left THEN "crlf" ELSE "data", x.left - n, x.count + n), y)
<1>1. PICK p : Path(p, s, a) /\ p[0] = x /\ p[Len(s)] = y
  BY DEF Takes
<1>2. /\ Len(s) \in Nat /\ x \in States(a) /\ x.left > 0 /\ n \in 0 .. Len(s)
      /\ p \in [0 .. Len(s) -> States(a)]
  <2>1. Len(s) \in Nat
    BY LenProperties
  <2>2. x \in States(a) /\ x.left > 0
    BY <2>1, TakesStates
  <2> QED
    BY <1>1, <2>1, <2>2 DEF Path
<1>3. x.left \in Nat /\ x.count \in Nat /\ x = St("data", x.left, x.count)
  BY <1>2 DEF States, St
<1>4. \A k \in 1 .. x.left : k <= Len(s) => Inside(x, k, s[k], p[k])
  <2>1. 0 \in 0 .. Len(s) /\ \A k \in 1 .. x.left : 0 + k = k
    BY <1>2, <1>3
  <2>2. \A k \in 1 .. x.left : 0 + k <= Len(s) => Inside(x, k, s[0 + k], p[0 + k])
    BY <1>1, <2>1 DEF Path
  <2> QED
    BY <2>1, <2>2
<1>5. ASSUME NEW k \in 1 .. n PROVE s[k] = <<"data", x.count + k>>
  <2>1. k \in 1 .. x.left /\ k <= Len(s)
    BY <1>2, <1>3
  <2> QED
    BY <1>4, <2>1 DEF Inside
<1>6. p[n] = St(IF n = x.left THEN "crlf" ELSE "data", x.left - n, x.count + n)
  <2>1. CASE n = 0
    <3>1. n # x.left /\ x.left - n = x.left /\ x.count + n = x.count
      BY <1>2, <1>3, <2>1
    <3> QED
      BY <1>1, <1>3, <2>1, <3>1
  <2>2. CASE n > 0
    <3>1. n \in 1 .. x.left /\ n <= Len(s)
      BY <1>3, <2>2
    <3> QED
      BY <1>4, <3>1 DEF Inside
  <2> QED
    BY <2>1, <2>2
<1>7. x.count + n <= a
  <2>1. p[n].count = x.count + n
    BY <1>6 DEF St
  <2>2. p[n].count \in 0 .. a
    BY <1>2 DEF States
  <2> QED
    BY <2>1, <2>2
<1>8. Takes(SubSeq(s, n + 1, Len(s)), a, p[n], y)
  <2> DEFINE t == SubSeq(s, n + 1, Len(s))
  <2>1. Len(t) = Len(s) - n /\ \A j \in 1 .. Len(t) : t[j] = s[n + j]
    BY <1>2, DropTokens
  <2> HIDE DEF t
  <2>2. Takes(t, a, p[n], p[Len(s)])
    BY <1>1, <1>2, <2>1, PathDrop
  <2> QED
    BY <1>1, <2>2 DEF t
<1> QED
  BY <1>2, <1>5, <1>6, <1>7, <1>8

\* What is lost leaves a run that ends earlier.
LEMMA LoseTail ==
  ASSUME NEW a \in Nat, NEW s \in Seq(Token), NEW x, NEW y, Takes(s, a, x, y),
         NEW n \in 0 .. Len(s)
  PROVE  /\ SubSeq(s, 1, n) \in Seq(Token) /\ Len(SubSeq(s, 1, n)) = n
         /\ \A i \in 1 .. n : SubSeq(s, 1, n)[i] = s[i]
         /\ \E w : Takes(SubSeq(s, 1, n), a, x, w)
<1>1. PICK p : Path(p, s, a) /\ p[0] = x /\ p[Len(s)] = y
  BY DEF Takes
<1>2. Len(s) \in Nat /\ n \in Nat
  BY LenProperties
<1> DEFINE t == SubSeq(s, 1, n)
<1>3. t \in Seq(Token) /\ Len(t) = n /\ \A i \in 1 .. n : t[i] = s[i]
  <2>1. \A i \in 1 .. n : s[i] \in Token
    <3>1. \A i \in 1 .. n : i \in 1 .. Len(s)
      BY <1>2
    <3> QED
      BY <3>1, ElementOfSeq
  <2>2. 1 \in Int /\ n \in Int
    BY <1>2
  <2>3. /\ t \in Seq(Token) /\ Len(t) = (IF 1 <= n THEN n - 1 + 1 ELSE 0)
        /\ \A i \in 1 .. n - 1 + 1 : t[i] = s[1 + i - 1]
    BY <2>1, <2>2, SubSeqProperties
  <2>4. Len(t) = n /\ n - 1 + 1 = n /\ \A i \in 1 .. n : 1 + i - 1 = i
    BY <1>2, <2>3
  <2> QED
    BY <2>3, <2>4
<1> HIDE DEF t
<1>4. Takes(t, a, p[0], p[n])
  BY <1>1, <1>2, <1>3, PathTake
<1> QED
  BY <1>1, <1>3, <1>4 DEF t

\* So does what is lost from the middle of a chunk-size line on.
LEMMA LoseHalf ==
  ASSUME NEW a \in Nat, NEW s \in Seq(Token), NEW x, NEW y, Takes(s, a, x, y),
         NEW n \in 1 .. Len(s), s[n][1] = "size", NEW m \in 0 .. NBytes,
         NEW t, t = [SubSeq(s, 1, n) EXCEPT ![n] = SizeLine(m)]
  PROVE  t \in Seq(Token) /\ \E w : Takes(t, a, x, w)
<1>1. PICK p : Path(p, s, a) /\ p[0] = x /\ p[Len(s)] = y
  BY DEF Takes
<1>2. /\ Len(s) \in Nat /\ n \in Nat /\ n - 1 \in 0 .. Len(s) /\ n - 1 \in 0 .. Len(s) - 1
      /\ (n - 1) + 1 = n /\ n \in 0 .. Len(s)
  BY LenProperties
<1> DEFINE b == SubSeq(s, 1, n - 1)
           f == SubSeq(s, 1, n)
           q == <<SizeLine(m)>>
<1>3. /\ f \in Seq(Token) /\ Len(f) = n /\ \A i \in 1 .. n : f[i] = s[i]
      /\ b \in Seq(Token) /\ Len(b) = n - 1 /\ \A i \in 1 .. n - 1 : b[i] = s[i]
  BY <1>2, LoseTail
<1>4. SizeLine(m) \in Token
  BY DEF SizeLine, Token
<1> HIDE DEF b, f
<1>5. t \in Seq(Token) /\ Len(t) = n /\ t[n] = SizeLine(m) /\ \A i \in 1 .. n - 1 : t[i] = b[i]
  <2>1. t = [f EXCEPT ![n] = SizeLine(m)]
    BY DEF f
  <2>2. t \in Seq(Token) /\ Len(t) = n
    BY <1>2, <1>3, <1>4, <2>1
  <2>3. DOMAIN f = 1 .. n /\ n \in 1 .. n
    BY <1>2, <1>3, LenProperties
  <2>4. t[n] = SizeLine(m) /\ \A i \in 1 .. n : i # n => t[i] = f[i]
    BY <2>1, <2>3
  <2>5. ASSUME NEW i \in 1 .. n - 1 PROVE t[i] = b[i]
    <3>1. i \in 1 .. n /\ i # n
      BY <1>2
    <3> QED
      BY <1>3, <2>4, <3>1
  <2> QED
    BY <2>2, <2>4, <2>5
<1>6. Joined(t, b, q)
  <2>1. Len(q) = 1 /\ q[1] = SizeLine(m) /\ Len(b) \in Nat
    BY <1>2, <1>3
  <2> HIDE DEF q
  <2>2. Len(t) = Len(b) + Len(q) /\ Len(b) + 1 = n
    BY <1>2, <1>3, <1>5, <2>1
  <2>3. \A i \in 1 .. Len(b) : t[i] = b[i]
    BY <1>3, <1>5
  <2>4. \A j \in 1 .. Len(q) : t[Len(b) + j] = q[j]
    BY <1>5, <2>1, <2>2
  <2> QED
    BY <2>1, <2>2, <2>3, <2>4 DEF Joined
<1>7. p[n - 1] \in States(a) /\ p[n - 1].at = "size"
  <2>1. p[n - 1] \in States(a)
    BY <1>1, <1>2 DEF Path
  <2>2. p[n - 1].at # "data"
    <3> SUFFICES ASSUME p[n - 1].at = "data" PROVE FALSE
      OBVIOUS
    <3>1. 1 \in 1 .. p[n - 1].left
      <4>1. p[n - 1].left > 0 /\ p[n - 1].left \in Nat
        BY <1>1, <1>2, <2>1 DEF Path, States
      <4> QED
        BY <4>1
    <3>2. Inside(p[n - 1], 1, s[n], p[n])
      BY <1>1, <1>2, <3>1 DEF Path
    <3> QED
      BY <3>2 DEF Inside
  <2>3. Follows(p[n - 1], s[n], p[n])
    BY <1>1, <1>2, <2>2 DEF Path
  <2> QED
    BY <2>1, <2>3 DEF Follows, CrLf, NextMessage
<1>8. Takes(b, a, x, p[n - 1])
  <2>1. Takes(b, a, p[0], p[n - 1])
    <3>1. n - 1 \in 0 .. Len(s) /\ Len(s) \in Nat /\ Len(b) = n - 1 /\ Path(p, s, a)
      BY <1>1, <1>2, <1>3
    <3>2. \A j \in 1 .. n - 1 : b[j] = s[j]
      BY <1>1, <1>2, <1>3
    <3>3. PICK k \in 0 .. Len(s) : k = n - 1
      BY <3>1
    <3> QED
      BY <3>1, <3>2, <3>3, PathTake
  <2> QED
    BY <1>1, <2>1
<1>9. \E w : Takes(q, a, p[n - 1], w)
  <2> DEFINE c == p[n - 1].count
             w == IF m > 0 THEN St("data", m, c) ELSE St("trailer", 0, c)
  <2>1. c \in 0 .. a
    BY <1>7 DEF States
  <2>2. m \in Nat /\ (m > 0 \/ m = 0)
    BY ChunkedAssumption
  <2>3. Follows(p[n - 1], SizeLine(m), w)
    BY <1>7, <2>2 DEF Follows, SizeLine
  <2>4. w \in States(a) /\ (w.at = "data" => w.left > 0)
    BY <2>1, <2>2 DEF St, States
  <2> HIDE DEF w
  <2>5. Takes(q, a, p[n - 1], w)
    BY <1>7, <2>3, <2>4, PathOne
  <2> QED
    BY <2>5
<1> HIDE DEF q
<1>10. PICK w : Takes(q, a, p[n - 1], w)
  BY <1>9
<1>11. PICK v : Takes(b, a, x, v) /\ Takes(q, a, v, w) /\ v.at # "data"
  BY <1>7, <1>8, <1>10
<1>12. Takes(t, a, x, w)
  BY <1>6, <1>11, PathJoin
<1> QED
  BY <1>5, <1>12

\* Inside of a chunk, in_.read() finds no more bytes than there are tokens.
LEMMA AvailableBytes ==
  ASSUME NEW a \in Nat, link \in Seq(Token), NEW x, NEW y, Takes(link, a, x, y), x.at = "data"
  PROVE  Available \in 0 .. Len(link)
<1>1. PICK p : Path(p, link, a) /\ p[0] = x /\ p[Len(link)] = y
  BY DEF Takes
<1>2. Len(link) \in Nat /\ DOMAIN link = 1 .. Len(link) /\ x \in States(a) /\ x.left > 0
  <2>1. Len(link) \in Nat /\ DOMAIN link = 1 .. Len(link)
    BY LenProperties
  <2> QED
    BY <2>1, TakesStates
<1>3. x.left \in Nat
  BY <1>2 DEF States
<1>4. ASSUME NEW n \in Nat, n <= x.left, n <= Len(link)
      PROVE  \A k \in 1 .. n : link[k][1] = "data"
  <2>1. \A k \in 1 .. n : link[k] = <<"data", x.count + k>>
    BY <1>4, TakeData
  <2> QED
    BY <2>1
<1>5. CASE \A i \in DOMAIN link : link[i][1] = "data"
  BY <1>2, <1>5 DEF Available
<1>6. CASE \E i \in DOMAIN link : link[i][1] # "data"
  <2> DEFINE First(i) == link[i][1] # "data" /\ \A j \in 1 .. i - 1 : link[j][1] = "data"
             d == x.left + 1
  <2>1. x.left < Len(link)
    <3> SUFFICES ASSUME Len(link) <= x.left PROVE FALSE
      BY <1>2, <1>3
    <3>1. \A k \in 1 .. Len(link) : link[k][1] = "data"
      BY <1>2, <1>4
    <3> QED
      BY <1>2, <1>6, <3>1
  <2>2. d \in DOMAIN link /\ d - 1 = x.left /\ x.left \in 0 .. Len(link) - 1 /\ x.left <= Len(link)
        /\ 0 + x.left = x.left /\ x.left \in 1 .. x.left
    BY <1>2, <1>3, <2>1
  <2>3. \A j \in 1 .. d - 1 : link[j][1] = "data"
    BY <1>3, <1>4, <2>2
  <2>4. Inside(x, x.left, link[x.left], p[x.left])
    <3>1. 0 \in 0 .. Len(link)
      BY <1>2
    <3>2. 0 + x.left <= Len(link) => Inside(x, x.left, link[0 + x.left], p[0 + x.left])
      BY <1>1, <2>2, <3>1 DEF Path
    <3> QED
      BY <2>2, <3>2
  <2>5. p[x.left].at = "crlf"
    BY <2>4 DEF Inside, St
  <2>6. Follows(p[x.left], link[d], p[d])
    BY <1>1, <2>2, <2>5 DEF Path
  <2>7. link[d][1] # "data"
    BY <2>5, <2>6 DEF Follows, CrLf
  <2>8. \E i \in DOMAIN link : First(i)
    BY <2>2, <2>3, <2>7
  <2>9. Available = (CHOOSE i \in DOMAIN link : First(i)) - 1
    BY <1>6 DEF Available
  <2> HIDE DEF First
  <2>10. (CHOOSE i \in DOMAIN link : First(i)) \in DOMAIN link
    BY <2>8
  <2> QED
    BY <1>2, <2>9, <2>10
<1> QED
  BY <1>5, <1>6

-----------------------------------------------------------------------------
(* The writer's steps.                                                     *)

\* out_ sent toks, if the connection holds.
Sent(toks) ==
  /\ obuf' \in Seq(Token) /\ link' \in Seq(Token) /\ outGood' \in BOOLEAN
  /\ cut => link' = link
  /\ ~cut => outGood' /\ obuf' = <<>> /\ link' = link \o toks

LEMMA Emitted ==
  ASSUME TypeOK, Writing, NEW toks \in Seq(Token), Emit(toks)
  PROVE  Sent(toks)
<1>1. obuf \in Seq(Token) /\ link \in Seq(Token) /\ outGood \in BOOLEAN
  BY DEF TypeOK
<1>2. obuf \o toks \in Seq(Token) /\ link \o obuf \in Seq(Token)
  BY <1>1, ConcatProperties
<1>3. (link \o obuf) \o toks \in Seq(Token) /\ <<>> \in Seq(Token) /\ link \o <<>> = link
  BY <1>1, <1>2, ConcatProperties, ConcatEmptySeq, EmptySeq
<1>4. CASE cut
  BY <1>1, <1>2, <1>3, <1>4 DEF Emit, Sent
<1>5. CASE ~cut
  <2>1. outGood /\ obuf = <<>>
    BY <1>5 DEF Writing
  <2>2. link' = (link \o obuf) \o toks /\ obuf' = <<>> /\ outGood' = outGood
    BY <1>5, <2>1 DEF Emit
  <2> QED
    BY <1>1, <1>3, <1>5, <2>1, <2>2 DEF Sent
<1> QED
  BY <1>4, <1>5

LEMMA NothingSent ==
  ASSUME TypeOK, Writing, UNCHANGED <<obuf, link, outGood>>
  PROVE  Sent(<<>>)
<1>1. obuf \in Seq(Token) /\ link \in Seq(Token) /\ outGood \in BOOLEAN
  BY DEF TypeOK
<1>2. link \o <<>> = link
  BY <1>1, ConcatEmptySeq
<1> QED
  BY <1>1, <1>2 DEF Sent, Writing

\* The bytes in the buffer are a chunk that starts where the writer is.
LEMMA BufferChunk ==
  ASSUME TypeOK, Writing, NEW a \in Nat, accepted <= a
  PROVE  /\ Len(wbuf) \in Nat /\ accepted \in Nat /\ accepted - Len(wbuf) \in 0 .. a
         /\ DOMAIN wbuf = 1 .. Len(wbuf) /\ (Len(wbuf) = 0 <=> wbuf = <<>>)
         /\ Chunk(wbuf) \in Seq(Token)
         /\ wbuf # <<>> => Takes(Chunk(wbuf), a, St("size", 0, accepted - Len(wbuf)),
                                 St("size", 0, accepted))
<1>1. /\ wbuf \in Seq(1 .. NBytes) /\ accepted \in 0 .. NBytes /\ NBytes \in Nat
      /\ Len(wbuf) <= accepted
      /\ \A i \in DOMAIN wbuf : wbuf[i] = accepted - Len(wbuf) + i
  BY ChunkedAssumption DEF TypeOK, Writing
<1>2. Len(wbuf) \in Nat /\ DOMAIN wbuf = 1 .. Len(wbuf) /\ (Len(wbuf) = 0 <=> wbuf = <<>>)
  <2>1. Len(wbuf) \in Nat /\ DOMAIN wbuf = 1 .. Len(wbuf)
    BY <1>1, LenProperties
  <2>2. wbuf # <<>> => Len(wbuf) # 0
    BY <1>1, EmptySeq
  <2>3. wbuf = <<>> => Len(wbuf) = 0
    OBVIOUS
  <2> QED
    BY <2>1, <2>2, <2>3
<1>3. accepted \in Nat /\ accepted - Len(wbuf) \in 0 .. a /\ accepted - Len(wbuf) \in Nat
      /\ Len(wbuf) <= NBytes /\ accepted - Len(wbuf) + Len(wbuf) = accepted
  BY <1>1, <1>2
<1>4. Chunk(wbuf) \in Seq(Token)
  BY <1>1, <1>3, ChunkTokens
<1>5. ASSUME wbuf # <<>>
      PROVE  Takes(Chunk(wbuf), a, St("size", 0, accepted - Len(wbuf)), St("size", 0, accepted))
  <2> DEFINE c == accepted - Len(wbuf)
  <2>1. c \in Nat /\ c + Len(wbuf) = accepted /\ Len(wbuf) > 0 /\ c + Len(wbuf) <= a
        /\ \A i \in 1 .. Len(wbuf) : wbuf[i] = c + i
    <3>1. \A i \in 1 .. Len(wbuf) : wbuf[i] = accepted - Len(wbuf) + i
      BY <1>1, <1>2
    <3>2. Len(wbuf) > 0
      BY <1>1, <1>2, <1>5
    <3>3. accepted <= a
      BY <1>1, <1>2
    <3> QED
      BY <1>3, <3>1, <3>2, <3>3
  <2> HIDE DEF c
  <2>2. Takes(Chunk(wbuf), a, St("size", 0, c), St("size", 0, c + Len(wbuf)))
    BY <1>1, <1>3, <2>1, ChunkPath
  <2> QED
    BY <2>1, <2>2 DEF c
<1> QED
  BY <1>2, <1>3, <1>4, <1>5

\* What the writer sends goes on from where it is.
LEMMA GoOn ==
  ASSUME TypeOK, UnderWay, ~cut, UNCHANGED reader, accepted' \in Nat, accepted <= accepted',
         NEW toks \in Seq(Token), Sent(toks), NEW z, Takes(toks, accepted', WriterAt, z)
  PROVE  Takes(link', accepted', ReaderAt', z)
<1>1. link \in Seq(Token) /\ accepted \in Nat
  BY ChunkedAssumption DEF TypeOK
<1>2. Takes(link, accepted, ReaderAt, WriterAt)
  BY DEF UnderWay
<1>3. Takes(link, accepted', ReaderAt, WriterAt)
  <2>1. PICK r : Path(r, link, accepted) /\ r[0] = ReaderAt /\ r[Len(link)] = WriterAt
    BY <1>2 DEF Takes
  <2>2. Path(r, link, accepted')
    BY <1>1, <2>1, PathWiden
  <2> QED
    BY <2>1, <2>2 DEF Takes
<1>4. WriterAt.at # "data"
  BY DEF WriterAt, St
<1>5. Joined(link', link, toks)
  BY <1>1, ConcatJoined DEF Sent
<1>6. ReaderAt' = ReaderAt
  BY DEF ReaderAt, Base, reader
<1>7. \A w : w = WriterAt /\ Takes(toks, accepted', w, z) => Takes(link', accepted', ReaderAt, z)
  <2> TAKE w
  <2> HAVE w = WriterAt /\ Takes(toks, accepted', w, z)
  <2>1. Takes(link, accepted', ReaderAt, w) /\ Takes(toks, accepted', w, z) /\ w.at # "data"
    BY <1>3, <1>4
  <2> QED
    BY <1>5, <2>1, PathJoin
<1> QED
  BY <1>6, <1>7

\* Once the connection is gone, nothing that is sent is under way.
LEMMA GoOnCut ==
  ASSUME TypeOK, UnderWay, cut, UNCHANGED reader, UNCHANGED cut, accepted' \in Nat,
         accepted <= accepted', link' = link
  PROVE  UnderWay'
<1>1. accepted \in Nat
  BY ChunkedAssumption DEF TypeOK
<1>2. PICK y : Takes(link, accepted, ReaderAt, y)
  BY DEF UnderWay
<1>3. Takes(link, accepted', ReaderAt, y)
  <2>1. PICK r : Path(r, link, accepted) /\ r[0] = ReaderAt /\ r[Len(link)] = y
    BY <1>2 DEF Takes
  <2>2. Path(r, link, accepted')
    BY <1>1, <2>1, PathWiden
  <2> QED
    BY <2>1, <2>2 DEF Takes
<1>4. ReaderAt' = ReaderAt
  BY DEF ReaderAt, Base, reader
<1> QED
  BY <1>3, <1>4 DEF UnderWay

\* What the reader has is no business of the writer's.
LEMMA ReadingSame ==
  ASSUME Reading, UNCHANGED reader, cut' = cut
  PROVE  Reading'
BY DEF Reading, reader

LEMMA PutKeeps == IInv /\ Put => IInv'
<1> SUFFICES ASSUME IInv, Put PROVE IInv'
  OBVIOUS
<1>0. TypeOK /\ Writing /\ Reading /\ UnderWay
  BY DEF IInv
<1>1. /\ accepted \in Nat /\ accepted < NBytes /\ NBytes \in Nat /\ WBuf \in Nat /\ WBuf > 0
      /\ wbuf \in Seq(1 .. NBytes) /\ Len(wbuf) \in Nat /\ Len(wbuf) <= WBuf
      /\ Len(wbuf) <= accepted /\ accepted + 1 \in 1 .. NBytes /\ accepted + 1 \in Nat
      /\ accepted - Len(wbuf) \in 0 .. accepted /\ DOMAIN wbuf = 1 .. Len(wbuf)
      /\ (Len(wbuf) = 0 <=> wbuf = <<>>)
  <2>1. wbuf \in Seq(1 .. NBytes) /\ Len(wbuf) <= WBuf /\ accepted \in 0 .. NBytes /\ accepted < NBytes
    BY <1>0 DEF TypeOK, Put
  <2>2. Len(wbuf) \in Nat /\ DOMAIN wbuf = 1 .. Len(wbuf) /\ (Len(wbuf) = 0 <=> wbuf = <<>>)
    <3>1. accepted \in Nat
      BY <2>1, ChunkedAssumption
    <3> QED
      BY <1>0, <3>1, BufferChunk
  <2>3. Len(wbuf) <= accepted
    BY <1>0 DEF Writing
  <2> QED
    BY <2>1, <2>2, <2>3, ChunkedAssumption
<1>2. /\ alive /\ ~finished /\ wstate = "good" /\ UNCHANGED <<finished, alive, cut, reader>>
  BY DEF Put
<1>3. Reading'
  BY <1>0, <1>2, ReadingSame
<1>4. WriterAt = St("size", 0, accepted - Len(wbuf))
  BY <1>2 DEF WriterAt
<1>5. WriterAt' = St("size", 0, accepted' - Len(wbuf'))
  BY <1>2 DEF WriterAt
<1>6. ASSUME wbuf' \in Seq(1 .. NBytes), Len(wbuf') <= WBuf, accepted' \in 0 .. NBytes,
             wstate' \in {"good", "bad"}, NEW toks, Sent(toks)
      PROVE  TypeOK'
  BY <1>0, <1>2, <1>6 DEF TypeOK, Sent, reader
<1>7. CASE Len(wbuf) < WBuf
  <2>1. /\ wbuf' = Append(wbuf, accepted + 1) /\ accepted' = accepted + 1
        /\ UNCHANGED <<wstate, obuf, outGood, link>>
    BY <1>7 DEF Put
  <2>2. /\ wbuf' \in Seq(1 .. NBytes) /\ Len(wbuf') = Len(wbuf) + 1
        /\ \A i \in 1 .. Len(wbuf) : wbuf'[i] = wbuf[i]
        /\ wbuf'[Len(wbuf) + 1] = accepted + 1
    BY <1>1, <2>1, AppendProperties
  <2>3. Sent(<<>>)
    BY <1>0, <2>1, NothingSent
  <2>4. TypeOK'
    <3>1. Len(wbuf') <= WBuf /\ accepted' \in 0 .. NBytes /\ wstate' \in {"good", "bad"}
      BY <1>1, <1>2, <1>7, <2>1, <2>2
    <3> QED
      BY <1>6, <2>2, <2>3, <3>1
  <2>5. Writing'
    <3>1. Len(wbuf') <= accepted' /\ accepted' - Len(wbuf') = accepted - Len(wbuf)
      BY <1>1, <2>1, <2>2
    <3>2. DOMAIN wbuf' = 1 .. Len(wbuf) + 1
      BY <2>2, LenProperties
    <3>3. ASSUME NEW i \in DOMAIN wbuf' PROVE wbuf'[i] = accepted - Len(wbuf) + i
      <4>1. CASE i \in 1 .. Len(wbuf)
        <5>1. wbuf'[i] = wbuf[i] /\ wbuf[i] = accepted - Len(wbuf) + i
          BY <1>0, <1>1, <2>2, <4>1 DEF Writing
        <5> QED
          BY <5>1
      <4>2. CASE i = Len(wbuf) + 1
        BY <1>1, <2>2, <4>2
      <4> QED
        BY <1>1, <3>2, <4>1, <4>2
    <3> QED
      BY <1>0, <1>2, <2>1, <3>1, <3>3 DEF Writing
  <2>6. UnderWay'
    <3>1. CASE cut
      BY <1>0, <1>1, <1>2, <2>1, <3>1, GoOnCut
    <3>2. CASE ~cut
      <4>1. WriterAt' = WriterAt
        <5>1. accepted' - Len(wbuf') = accepted - Len(wbuf)
          BY <1>1, <2>1, <2>2
        <5> QED
          BY <1>4, <1>5, <5>1
      <4>2. WriterAt \in States(accepted') /\ WriterAt.at # "data"
        BY <1>1, <1>4, <2>1 DEF St, States
      <4>3. Takes(<<>>, accepted', WriterAt, WriterAt)
        <5>1. accepted' \in Nat /\ Len(<<>>) = 0
          BY <1>1, <2>1
        <5> QED
          BY <4>2, <5>1, PathEmpty
      <4>4. <<>> \in Seq(Token) /\ accepted' \in Nat /\ accepted <= accepted'
        BY <1>1, <2>1, EmptySeq
      <4>5. Takes(link', accepted', ReaderAt', WriterAt)
        BY <1>0, <1>2, <2>3, <3>2, <4>3, <4>4, GoOn
      <4> QED
        BY <4>1, <4>5 DEF UnderWay
    <3> QED
      BY <3>1, <3>2
  <2> QED
    BY <1>3, <2>4, <2>5, <2>6 DEF IInv
<1>8. CASE ~(Len(wbuf) < WBuf) /\ SendAllOk
  <2>1. wbuf' = <<accepted + 1>> /\ accepted' = accepted + 1 /\ UNCHANGED wstate /\ SendAll
    BY <1>8 DEF Put
  <2>2. wbuf # <<>> /\ Emit(Chunk(wbuf))
    BY <1>1, <1>8, <2>1 DEF SendAll
  <2>3. /\ Chunk(wbuf) \in Seq(Token)
        /\ Takes(Chunk(wbuf), accepted', St("size", 0, accepted - Len(wbuf)), St("size", 0, accepted))
    <3>1. accepted' \in Nat /\ accepted <= accepted'
      BY <1>1, <2>1
    <3> QED
      BY <1>0, <2>2, <3>1, BufferChunk
  <2>4. Sent(Chunk(wbuf))
    BY <1>0, <2>2, <2>3, Emitted
  <2>5. wbuf' \in Seq(1 .. NBytes) /\ Len(wbuf') = 1 /\ wbuf'[1] = accepted + 1 /\ DOMAIN wbuf' = 1 .. 1
    BY <1>1, <2>1
  <2>6. TypeOK'
    <3>1. Len(wbuf') <= WBuf /\ accepted' \in 0 .. NBytes /\ wstate' \in {"good", "bad"}
      BY <1>1, <1>2, <2>1, <2>5
    <3> QED
      BY <1>6, <2>4, <2>5, <3>1
  <2>7. Writing'
    <3>1. Len(wbuf') <= accepted' /\ accepted' - Len(wbuf') + 1 = accepted + 1
      BY <1>1, <2>1, <2>5
    <3>2. \A i \in DOMAIN wbuf' : wbuf'[i] = accepted' - Len(wbuf') + i
      BY <2>5, <3>1
    <3>3. ~cut' => outGood' /\ obuf' = <<>> /\ (~alive' => finished')
      BY <1>0, <1>2, <2>4 DEF Sent, Writing
    <3> QED
      BY <1>2, <3>1, <3>2, <3>3 DEF Writing
  <2>8. UnderWay'
    <3>0. accepted' \in Nat /\ accepted <= accepted'
      BY <1>1, <2>1
    <3>1. CASE cut
      <4>1. link' = link
        BY <2>4, <3>1 DEF Sent
      <4> QED
        BY <1>0, <1>2, <3>0, <3>1, <4>1, GoOnCut
    <3>2. CASE ~cut
      <4>1. Takes(Chunk(wbuf), accepted', WriterAt, St("size", 0, accepted))
        BY <1>4, <2>3
      <4>2. Takes(link', accepted', ReaderAt', St("size", 0, accepted))
        BY <1>0, <1>2, <2>3, <2>4, <3>0, <3>2, <4>1, GoOn
      <4>3. WriterAt' = St("size", 0, accepted)
        <5>1. accepted' - Len(wbuf') = accepted
          BY <1>1, <2>1, <2>5
        <5> QED
          BY <1>5, <5>1
      <4> QED
        BY <4>2, <4>3 DEF UnderWay
    <3> QED
      BY <3>1, <3>2
  <2> QED
    BY <1>3, <2>6, <2>7, <2>8 DEF IInv
<1>9. CASE ~(Len(wbuf) < WBuf) /\ ~SendAllOk
  <2>1. wstate' = "bad" /\ UNCHANGED <<wbuf, accepted>> /\ SendAll
    BY <1>9 DEF Put
  <2>2. wbuf # <<>> /\ Emit(Chunk(wbuf)) /\ ~outGood'
    BY <1>1, <1>9, <2>1 DEF SendAll, SendAllOk
  <2>3. Sent(Chunk(wbuf))
    BY <1>0, <1>1, <2>2, Emitted, BufferChunk
  <2>4. cut /\ link' = link
    BY <2>2, <2>3 DEF Sent
  <2>5. TypeOK'
    BY <1>0, <1>6, <2>1, <2>3 DEF TypeOK
  <2>6. Writing'
    BY <1>0, <1>2, <2>1, <2>4 DEF Writing
  <2>7. UnderWay'
    BY <1>0, <1>1, <1>2, <2>1, <2>4, GoOnCut
  <2> QED
    BY <1>3, <2>5, <2>6, <2>7 DEF IInv
<1> QED
  BY <1>7, <1>8, <1>9

LEMMA SyncKeeps == IInv /\ Sync => IInv'
<1> SUFFICES ASSUME IInv, Sync PROVE IInv'
  OBVIOUS
<1>0. TypeOK /\ Writing /\ Reading /\ UnderWay
  BY DEF IInv
<1>1. /\ alive /\ SendAll /\ UNCHANGED <<accepted, finished, alive, cut, reader>>
      /\ IF SendAllOk THEN wbuf' = <<>> /\ UNCHANGED wstate
                      ELSE wstate' = "bad" /\ UNCHANGED wbuf
  BY DEF Sync
<1>2. accepted \in Nat /\ accepted' = accepted /\ accepted <= accepted
  BY <1>0, <1>1, ChunkedAssumption DEF TypeOK
<1>3. Reading'
  BY <1>0, <1>1, ReadingSame
<1>4. wbuf' \in Seq(1 .. NBytes) /\ Len(wbuf') <= WBuf /\ wstate' \in {"good", "bad"}
  <2>1. <<>> \in Seq(1 .. NBytes) /\ Len(<<>>) = 0 /\ 0 <= WBuf
    BY ChunkedAssumption, EmptySeq
  <2> QED
    BY <1>0, <1>1, <2>1 DEF TypeOK
<1>5. ASSUME NEW toks, Sent(toks) PROVE TypeOK'
  BY <1>0, <1>1, <1>4, <1>5 DEF TypeOK, Sent, reader
<1>6. ASSUME NEW toks, Sent(toks) PROVE Writing'
  <2>1. CASE wbuf' = <<>>
    <3>1. Len(wbuf') = 0 /\ DOMAIN wbuf' = {}
      BY <2>1
    <3> QED
      BY <1>0, <1>1, <1>2, <1>6, <2>1, <3>1 DEF Sent, Writing
  <2>2. CASE wbuf' = wbuf
    BY <1>0, <1>1, <1>6, <2>2 DEF Sent, Writing
  <2> QED
    BY <1>1, <2>1, <2>2
<1>7. CASE wbuf = <<>>
  <2>1. UNCHANGED <<obuf, link, outGood, wbuf>>
    BY <1>1, <1>7 DEF SendAll
  <2>2. Sent(<<>>)
    BY <1>0, <2>1, NothingSent
  <2>3. UnderWay'
    BY <1>0, <1>1, <2>1 DEF UnderWay, ReaderAt, Base, WriterAt, NextSent, reader
  <2> QED
    BY <1>3, <1>5, <1>6, <2>2, <2>3 DEF IInv
<1>8. CASE wbuf # <<>>
  <2>1. Emit(Chunk(wbuf)) /\ ~finished
    BY <1>0, <1>1, <1>8 DEF SendAll, Writing
  <2>2. /\ Chunk(wbuf) \in Seq(Token)
        /\ Takes(Chunk(wbuf), accepted, St("size", 0, accepted - Len(wbuf)), St("size", 0, accepted))
    BY <1>0, <1>2, <1>8, BufferChunk
  <2>3. Sent(Chunk(wbuf))
    BY <1>0, <2>1, <2>2, Emitted
  <2>4. UnderWay'
    <3>1. CASE cut
      <4>1. link' = link
        BY <2>3, <3>1 DEF Sent
      <4> QED
        BY <1>0, <1>1, <1>2, <3>1, <4>1, GoOnCut
    <3>2. CASE ~cut
      <4>1. WriterAt = St("size", 0, accepted - Len(wbuf))
        BY <2>1 DEF WriterAt
      <4>2. Takes(Chunk(wbuf), accepted', WriterAt, St("size", 0, accepted))
        BY <1>2, <2>2, <4>1
      <4>3. Takes(link', accepted', ReaderAt', St("size", 0, accepted))
        BY <1>0, <1>1, <1>2, <2>2, <2>3, <3>2, <4>2, GoOn
      <4>4. wbuf' = <<>>
        BY <1>1, <2>3, <3>2 DEF SendAllOk, Sent
      <4>5. WriterAt' = St("size", 0, accepted)
        <5>1. accepted' - Len(wbuf') = accepted
          <6>1. Len(wbuf') = 0
            BY <4>4
          <6> QED
            BY <1>2, <6>1
        <5> QED
          BY <1>1, <2>1, <5>1 DEF WriterAt
      <4> QED
        BY <4>3, <4>5 DEF UnderWay
    <3> QED
      BY <3>1, <3>2
  <2> QED
    BY <1>3, <1>5, <1>6, <2>3, <2>4 DEF IInv
<1> QED
  BY <1>7, <1>8

\* A run that ends behind the message has not come to the next one.
LEMMA NotYetNext ==
  ASSUME NEW a \in Nat, NEW s \in Seq(Token), NEW x, NEW y, Takes(s, a, x, y), y.at # "end"
  PROVE  ~ \E i \in DOMAIN s : s[i] = NextMessage
<1>1. PICK p : Path(p, s, a) /\ p[0] = x /\ p[Len(s)] = y
  BY DEF Takes
<1>2. Len(s) \in Nat /\ DOMAIN s = 1 .. Len(s)
  BY LenProperties
<1>3. ASSUME NEW i \in DOMAIN s, s[i] = NextMessage PROVE FALSE
  BY <1>1, <1>2, <1>3, NoNext
<1> QED
  BY <1>3

LEMMA FinishKeeps ==
  ASSUME IInv, FinishBody, UNCHANGED <<accepted, wstate, cut, reader>>, alive' \in BOOLEAN,
         alive \/ ~alive'
  PROVE  IInv'
<1>0. TypeOK /\ Writing /\ Reading /\ UnderWay
  BY DEF IInv
<1>2. accepted \in Nat /\ accepted' = accepted /\ accepted <= accepted
  BY <1>0, ChunkedAssumption DEF TypeOK
<1>3. Reading'
  BY <1>0, ReadingSame
<1>4. CASE finished \/ ~outGood
  <2>1. UNCHANGED <<wbuf, finished, obuf, outGood, link>>
    BY <1>4 DEF FinishBody
  <2>2. TypeOK'
    BY <1>0, <2>1 DEF TypeOK, reader
  <2>3. Writing'
    BY <1>0, <1>4, <2>1 DEF Writing
  <2>4. UnderWay'
    BY <1>0, <2>1 DEF UnderWay, ReaderAt, Base, WriterAt, NextSent, reader
  <2> QED
    BY <1>3, <2>2, <2>3, <2>4 DEF IInv
<1>5. CASE ~finished /\ outGood
  <2> DEFINE toks == (IF wbuf = <<>> THEN <<>> ELSE Chunk(wbuf)) \o LastChunk
             z == St("next", 0, accepted)
  <2>1. /\ Emit(toks) /\ finished' = outGood'
        /\ wbuf' \in IF outGood' THEN {<<>>} ELSE {wbuf, <<>>}
    BY <1>5 DEF FinishBody
  <2>2. toks \in Seq(Token) /\ Takes(toks, accepted, WriterAt, z)
    <3>1. LastChunk \in Seq(Token) /\ Takes(LastChunk, accepted, St("size", 0, accepted), z)
      BY <1>2, LastPath
    <3>2. WriterAt = St("size", 0, accepted - Len(wbuf))
      BY <1>5 DEF WriterAt
    <3>3. CASE wbuf = <<>>
      <4>1. toks = <<>> \o LastChunk /\ <<>> \o LastChunk = LastChunk
        BY <3>1, <3>3, ConcatEmptySeq
      <4>2. accepted - Len(wbuf) = accepted
        <5>1. Len(wbuf) = 0
          BY <3>3
        <5> QED
          BY <1>2, <5>1
      <4> QED
        BY <3>1, <3>2, <4>1, <4>2
    <3>4. CASE wbuf # <<>>
      <4>1. toks = Chunk(wbuf) \o LastChunk
        BY <3>4
      <4>2. Chunk(wbuf) \in Seq(Token) /\ Takes(Chunk(wbuf), accepted, WriterAt, St("size", 0, accepted))
        BY <1>0, <1>2, <3>2, <3>4, BufferChunk
      <4>3. Joined(toks, Chunk(wbuf), LastChunk) /\ toks \in Seq(Token)
        BY <3>1, <4>1, <4>2, ConcatJoined
      <4>4. St("size", 0, accepted).at # "data"
        BY DEF St
      <4> HIDE DEF toks, z
      <4>5. Takes(toks, accepted, WriterAt, z)
        BY <1>2, <3>1, <4>2, <4>3, <4>4, PathJoin
      <4> QED
        BY <4>3, <4>5
    <3> QED
      BY <3>3, <3>4
  <2> HIDE DEF toks
  <2>3. Sent(toks)
    BY <1>0, <2>1, <2>2, Emitted
  <2>4. wbuf' \in {wbuf, <<>>} /\ (finished' => wbuf' = <<>>) /\ (~cut => finished')
    BY <2>1, <2>3 DEF Sent
  <2>5. TypeOK'
    <3>1. <<>> \in Seq(1 .. NBytes) /\ Len(<<>>) = 0 /\ 0 <= WBuf
      BY ChunkedAssumption, EmptySeq
    <3>2. wbuf' \in Seq(1 .. NBytes) /\ Len(wbuf') <= WBuf
      BY <1>0, <2>4, <3>1 DEF TypeOK
    <3> QED
      BY <1>0, <2>1, <2>3, <3>2 DEF TypeOK, Sent, reader
  <2>6. Writing'
    <3>1. CASE wbuf' = <<>>
      <4>1. Len(wbuf') = 0 /\ DOMAIN wbuf' = {}
        BY <3>1
      <4> QED
        BY <1>2, <2>3, <2>4, <3>1, <4>1 DEF Sent, Writing
    <3>2. CASE wbuf' = wbuf
      BY <1>0, <2>3, <2>4, <3>2 DEF Sent, Writing
    <3> QED
      BY <2>4, <3>1, <3>2
  <2>7. UnderWay'
    <3>1. CASE cut
      <4>1. link' = link
        BY <2>3, <3>1 DEF Sent
      <4> QED
        BY <1>0, <1>2, <3>1, <4>1, GoOnCut
    <3>2. CASE ~cut
      <4>1. Takes(toks, accepted', WriterAt, z)
        BY <1>2, <2>2
      <4> HIDE DEF z
      <4>2. Takes(link', accepted', ReaderAt', z)
        BY <1>0, <1>2, <2>2, <2>3, <3>2, <4>1, GoOn
      <4>3. ~NextSent'
        <5>1. z.at # "end"
          BY DEF z, St
        <5>2. link' \in Seq(Token) /\ accepted' \in Nat
          BY <1>2, <2>3 DEF Sent
        <5>3. ~ \E i \in DOMAIN link' : link'[i] = NextMessage
          BY <4>2, <5>1, <5>2, NotYetNext
        <5> QED
          BY <5>3 DEF NextSent
      <4>4. WriterAt' = z
        <5>1. wbuf' = <<>> /\ finished'
          BY <2>4, <3>2
        <5>2. accepted' - Len(wbuf') = accepted
          <6>1. Len(wbuf') = 0
            BY <5>1
          <6> QED
            BY <1>2, <6>1
        <5> QED
          BY <4>3, <5>1, <5>2 DEF WriterAt, z
      <4> QED
        BY <4>2, <4>4 DEF UnderWay
    <3> QED
      BY <3>1, <3>2
  <2> QED
    BY <1>3, <2>5, <2>6, <2>7 DEF IInv
<1> QED
  BY <1>4, <1>5

LEMMA SendNextKeeps == IInv /\ SendNext => IInv'
<1> SUFFICES ASSUME IInv, SendNext PROVE IInv'
  OBVIOUS
<1>0. TypeOK /\ Writing /\ Reading /\ UnderWay
  BY DEF IInv
<1>1. /\ ~alive /\ ~cut /\ (\A i \in DOMAIN link : link[i] # NextMessage)
      /\ Emit(<<NextMessage>>)
      /\ UNCHANGED <<accepted, wbuf, wstate, finished, alive, cut, reader>>
  BY DEF SendNext
<1>2. accepted \in Nat /\ accepted' = accepted /\ accepted <= accepted /\ finished /\ wbuf = <<>>
  BY <1>0, <1>1, ChunkedAssumption DEF TypeOK, Writing
<1>3. <<NextMessage>> \in Seq(Token)
  BY DEF Token
<1>4. Sent(<<NextMessage>>)
  BY <1>0, <1>1, <1>3, Emitted
<1>5. Reading'
  BY <1>0, <1>1, ReadingSame
<1>6. TypeOK'
  BY <1>0, <1>1, <1>4 DEF TypeOK, Sent, reader
<1>7. Writing'
  BY <1>0, <1>1, <1>4 DEF Writing, Sent
<1>8. UnderWay'
  <2> DEFINE c == accepted - Len(wbuf)
             z == St("end", 0, c)
  <2>1. WriterAt = St("next", 0, c)
    BY <1>1, <1>2 DEF WriterAt, NextSent
  <2>2. c \in 0 .. accepted
    <3>1. Len(wbuf) = 0
      BY <1>2
    <3> QED
      BY <1>2, <3>1
  <2> HIDE DEF c
  <2>3. WriterAt \in States(accepted) /\ z \in States(accepted) /\ WriterAt.at # "data"
        /\ z.at = "end" /\ Follows(WriterAt, NextMessage, z)
    BY <2>1, <2>2 DEF St, States, Follows
  <2>4. Takes(<<NextMessage>>, accepted', WriterAt, z)
    <3> HIDE DEF z
    <3>1. z.at = "data" => z.left > 0
      BY <2>3
    <3>2. Takes(<<NextMessage>>, accepted, WriterAt, z)
      BY <1>2, <2>3, <3>1, PathOne
    <3> QED
      BY <1>2, <3>2
  <2>5. Takes(link', accepted', ReaderAt', z)
    <3> HIDE DEF z
    <3> QED
      BY <1>0, <1>1, <1>2, <1>3, <1>4, <2>4, GoOn
  <2>6. NextSent'
    <3>1. link \in Seq(Token) /\ link' = link \o <<NextMessage>> /\ Len(link) \in Nat
      BY <1>0, <1>1, <1>4, LenProperties DEF TypeOK, Sent
    <3>2. Joined(link', link, <<NextMessage>>) /\ link' \in Seq(Token)
      BY <1>3, <3>1, ConcatJoined
    <3>3. Len(link') = Len(link) + 1 /\ link'[Len(link) + 1] = NextMessage
      <4>1. Len(<<NextMessage>>) = 1 /\ <<NextMessage>>[1] = NextMessage /\ 1 \in 1 .. 1
        OBVIOUS
      <4> QED
        BY <3>2, <4>1 DEF Joined
    <3>4. Len(link) + 1 \in DOMAIN link'
      BY <3>1, <3>2, <3>3, LenProperties
    <3> QED
      BY <3>3, <3>4 DEF NextSent
  <2>7. WriterAt' = z
    BY <1>1, <1>2, <2>6 DEF WriterAt, c
  <2> QED
    BY <2>5, <2>7 DEF UnderWay
<1> QED
  BY <1>5, <1>6, <1>7, <1>8 DEF IInv

-----------------------------------------------------------------------------
(* The connection.                                                         *)

LEMMA CutKeeps == IInv /\ Cut => IInv'
<1> SUFFICES ASSUME IInv, Cut PROVE IInv'
  OBVIOUS
<1>0. TypeOK /\ Writing /\ Reading /\ UnderWay
  BY DEF IInv
<1>1. ~cut /\ cut' = TRUE /\ UNCHANGED <<writer, reader>>
  BY DEF Cut
<1>2. accepted \in Nat /\ link \in Seq(Token) /\ Len(link) \in Nat /\ DOMAIN link = 1 .. Len(link)
  BY <1>0, ChunkedAssumption, LenProperties DEF TypeOK
<1>3. PICK y : Takes(link, accepted, ReaderAt, y)
  BY <1>0 DEF UnderWay
<1>4. link' \in Seq(Token) /\ \E w : Takes(link', accepted, ReaderAt, w)
  <2>1. PICK n \in 0 .. Len(link) :
          \/ link' = SubSeq(link, 1, n)
          \/ /\ n > 0 /\ link[n][1] = "size"
             /\ link' = [SubSeq(link, 1, n) EXCEPT ![n] = SizeLine(@[2] \div 16)]
    BY DEF Cut
  <2>2. CASE link' = SubSeq(link, 1, n)
    BY <1>2, <1>3, <2>2, LoseTail
  <2>3. CASE /\ n > 0 /\ link[n][1] = "size"
             /\ link' = [SubSeq(link, 1, n) EXCEPT ![n] = SizeLine(@[2] \div 16)]
    <3> DEFINE m == link[n][2] \div 16
               b == SubSeq(link, 1, n)
    <3>1. n \in 1 .. Len(link) /\ n \in 1 .. n
      BY <1>2, <2>3
    <3>2. b \in Seq(Token) /\ Len(b) = n /\ b[n] = link[n]
      BY <1>2, <1>3, <3>1, LoseTail
    <3>3. link[n] \in Token
      BY <1>2, <3>1, ElementOfSeq
    <3>4. link[n][2] \in 0 .. NBytes
      BY <2>3, <3>3 DEF Token, CrLf, NextMessage
    <3>5. m \in 0 .. NBytes
      <4>1. \A k \in Nat : k \div 16 \in Nat /\ k \div 16 <= k
        OBVIOUS
      <4> QED
        BY <3>4, <4>1, ChunkedAssumption
    <3> HIDE DEF m, b
    <3>6. link' = [b EXCEPT ![n] = SizeLine(b[n][2] \div 16)]
      BY <2>3 DEF b
    <3>7. SizeLine(b[n][2] \div 16) = SizeLine(m)
      BY <3>2 DEF m
    <3>8. link' = [SubSeq(link, 1, n) EXCEPT ![n] = SizeLine(m)]
      BY <3>6, <3>7 DEF b
    <3> QED
      BY <1>2, <1>3, <2>3, <3>1, <3>5, <3>8, LoseHalf
  <2> QED
    BY <2>1, <2>2, <2>3
<1>5. TypeOK'
  BY <1>0, <1>1, <1>4 DEF TypeOK, writer, reader
<1>6. Writing'
  BY <1>0, <1>1 DEF Writing, writer
<1>7. Reading'
  BY <1>0, <1>1 DEF Reading, reader
<1>8. UnderWay'
  BY <1>1, <1>4 DEF UnderWay, ReaderAt, Base, writer, reader
<1> QED
  BY <1>5, <1>6, <1>7, <1>8 DEF IInv

-----------------------------------------------------------------------------
(* The reader's steps.                                                     *)

\* Taking n tokens of this message does not tell where the writer is.
LEMMA WriterStays ==
  ASSUME link \in Seq(Token), NEW n \in 0 .. Len(link),
         \A k \in 1 .. n : link[k] # NextMessage,
         link' = SubSeq(link, n + 1, Len(link)), UNCHANGED writer
  PROVE  link' \in Seq(Token) /\ WriterAt' = WriterAt
<1>1. Len(link) \in Nat /\ DOMAIN link = 1 .. Len(link) /\ n \in Nat
  BY LenProperties
<1>2. /\ link' \in Seq(Token) /\ Len(link') = Len(link) - n
      /\ \A j \in 1 .. Len(link) - n : link'[j] = link[n + j]
  BY <1>1, DropTokens
<1>3. DOMAIN link' = 1 .. Len(link) - n
  BY <1>2, LenProperties
<1>4. NextSent' <=> NextSent
  <2>1. ASSUME NEW i \in DOMAIN link, link[i] = NextMessage PROVE NextSent'
    <3>1. i - n \in 1 .. Len(link) - n /\ n + (i - n) = i
      <4>1. ~(i \in 1 .. n)
        BY <2>1
      <4> QED
        BY <1>1, <4>1
    <3>2. link'[i - n] = NextMessage
      BY <1>2, <2>1, <3>1
    <3> QED
      BY <1>3, <3>1, <3>2 DEF NextSent
  <2>2. ASSUME NEW i \in DOMAIN link', link'[i] = NextMessage PROVE NextSent
    <3>1. n + i \in DOMAIN link /\ i \in 1 .. Len(link) - n
      BY <1>1, <1>3
    <3>2. link[n + i] = NextMessage
      BY <1>2, <2>2, <3>1
    <3> QED
      BY <3>1, <3>2 DEF NextSent
  <2>3. NextSent => NextSent'
    BY <2>1 DEF NextSent
  <2>4. NextSent' => NextSent
    <3>1. NextSent' = \E i \in DOMAIN link' : link'[i] = NextMessage
      BY DEF NextSent
    <3> QED
      BY <2>2, <3>1
  <2> QED
    BY <2>3, <2>4
<1> QED
  BY <1>2, <1>4 DEF WriterAt, writer

\* The reader takes the token its state calls for.
LEMMA TookHead ==
  ASSUME TypeOK, UnderWay, link # <<>>, ReaderAt.at # "data",
         link' = Tail(link), UNCHANGED <<writer, cut>>
  PROVE  /\ link' \in Seq(Token) /\ Head(link) \in Token
         /\ \E x1 : Follows(ReaderAt, Head(link), x1)
         /\ \A x1 : /\ Follows(ReaderAt, Head(link), x1) /\ Head(link) # NextMessage
                    /\ ReaderAt' = x1
                    => UnderWay'
<1>1. link \in Seq(Token) /\ accepted \in Nat /\ Len(link) \in Nat /\ Len(link) > 0
  BY ChunkedAssumption, EmptySeq DEF TypeOK
<1>2. PICK y : Takes(link, accepted, ReaderAt, y) /\ (~cut => y = WriterAt)
  BY DEF UnderWay
<1>3. PICK x1 : Follows(ReaderAt, Head(link), x1) /\ Takes(Tail(link), accepted, x1, y)
  BY <1>1, <1>2, TakeHead
<1>4. \A x2 : Follows(ReaderAt, Head(link), x2) => x2 = x1
  BY <1>3 DEF Follows, St
<1>5. link' \in Seq(Token) /\ Head(link) \in Token
  BY <1>1, HeadTailProperties
<1>6. ASSUME Head(link) # NextMessage PROVE WriterAt' = WriterAt
  <2>1. 1 \in 0 .. Len(link) /\ \A k \in 1 .. 1 : link[k] # NextMessage
    BY <1>1, <1>6
  <2>2. link' = SubSeq(link, 1 + 1, Len(link))
    BY <1>1, TailIsSubSeq
  <2> QED
    BY <1>1, <2>1, <2>2, WriterStays
<1>7. ASSUME NEW x2, Follows(ReaderAt, Head(link), x2), Head(link) # NextMessage, ReaderAt' = x2
      PROVE  UnderWay'
  <2>1. Takes(link', accepted', ReaderAt', y)
    BY <1>3, <1>4, <1>7 DEF writer
  <2>2. ~cut' => y = WriterAt'
    BY <1>2, <1>6, <1>7
  <2> QED
    BY <2>1, <2>2 DEF UnderWay
<1> QED
  BY <1>3, <1>5, <1>7

\* At the end of the file the reader goes on as if it had come to the end.
LEMMA TookNothing ==
  ASSUME TypeOK, UnderWay, AtEnd, UNCHANGED <<writer, network>>,
         NEW at, NEW left, ReaderAt' = St(at, left, Base),
         at \in {"size", "crlf", "trailer", "next"}, left \in Nat
  PROVE  UnderWay'
<1>1. link \in Seq(Token) /\ accepted \in Nat /\ Len(link) \in Nat /\ Len(link) = 0 /\ cut
  BY ChunkedAssumption, LenProperties DEF TypeOK, AtEnd
<1>2. Base \in 0 .. accepted
  <2>1. PICK y : Takes(link, accepted, ReaderAt, y)
    BY DEF UnderWay
  <2>2. ReaderAt \in States(accepted)
    BY <1>1, <2>1, TakesStates
  <2> QED
    BY <2>2 DEF ReaderAt, St, States
<1>3. ReaderAt' \in States(accepted) /\ ReaderAt'.at # "data"
  BY <1>2 DEF St, States
<1>4. \A x \in States(accepted) : x.at # "data" => Takes(link, accepted, x, x)
  BY <1>1, PathEmpty
<1>5. Takes(link', accepted', ReaderAt', ReaderAt')
  BY <1>3, <1>4 DEF writer, network
<1> QED
  BY <1>1, <1>5 DEF UnderWay, network

\* setg() shows the bytes s, the next ones of the body, and get() takes one.
LEMMA Shown ==
  ASSUME received \in Seq(1 .. NBytes), rbuf \in Seq(1 .. NBytes), Len(rbuf) <= RBuf,
         \A i \in DOMAIN received : received[i] = i,
         NEW s \in Seq(1 .. NBytes), Len(s) <= RBuf,
         \A i \in DOMAIN s : s[i] = Len(received) + i,
         s = <<>> => rbuf = <<>>, Show(s)
  PROVE  /\ received' \in Seq(1 .. NBytes) /\ rbuf' \in Seq(1 .. NBytes) /\ Len(rbuf') <= RBuf
         /\ Len(received') + Len(rbuf') = Len(received) + Len(s)
         /\ \A i \in DOMAIN received' : received'[i] = i
         /\ \A i \in DOMAIN rbuf' : rbuf'[i] = Len(received') + i
         /\ rend' = IF s = <<>> THEN "eof" ELSE rend
<1>1. CASE s = <<>>
  <2>1. rend' = "eof" /\ rbuf' = rbuf /\ received' = received /\ rbuf = s
    BY <1>1 DEF Show
  <2> QED
    BY <1>1, <2>1
<1>2. CASE s # <<>>
  <2>1. rbuf' = Tail(s) /\ received' = Append(received, Head(s)) /\ rend' = rend
    BY <1>2 DEF Show
  <2>2. /\ Len(s) \in Nat /\ Len(s) > 0 /\ Len(received) \in Nat /\ RBuf \in Nat
        /\ DOMAIN s = 1 .. Len(s) /\ DOMAIN received = 1 .. Len(received)
    BY <1>2, ChunkedAssumption, EmptySeq, LenProperties
  <2>3. Head(s) = s[1] /\ s[1] = Len(received) + 1
    BY <2>2
  <2>4. /\ Head(s) \in 1 .. NBytes /\ rbuf' \in Seq(1 .. NBytes) /\ Len(rbuf') = Len(s) - 1
        /\ \A i \in 1 .. Len(rbuf') : rbuf'[i] = s[i + 1]
    BY <1>2, <2>1, HeadTailProperties
  <2>5. /\ received' \in Seq(1 .. NBytes) /\ Len(received') = Len(received) + 1
        /\ \A i \in 1 .. Len(received) : received'[i] = received[i]
        /\ received'[Len(received) + 1] = Head(s)
    BY <2>1, <2>4, AppendProperties
  <2>6. DOMAIN received' = 1 .. Len(received) + 1 /\ DOMAIN rbuf' = 1 .. Len(s) - 1
    BY <2>4, <2>5, LenProperties
  <2>7. ASSUME NEW i \in DOMAIN received' PROVE received'[i] = i
    <3>1. CASE i \in 1 .. Len(received)
      BY <2>2, <2>5, <3>1
    <3>2. CASE i = Len(received) + 1
      BY <2>3, <2>5, <3>2
    <3> QED
      BY <2>2, <2>6, <3>1, <3>2
  <2>8. ASSUME NEW i \in DOMAIN rbuf' PROVE rbuf'[i] = Len(received') + i
    <3>1. i + 1 \in 1 .. Len(s) /\ i \in 1 .. Len(rbuf') /\ i \in Nat
      BY <2>2, <2>4, <2>6
    <3>2. rbuf'[i] = s[i + 1] /\ s[i + 1] = Len(received) + (i + 1)
      BY <2>2, <2>4, <3>1
    <3>3. Len(received) + (i + 1) = Len(received') + i
      BY <2>2, <2>5, <3>1
    <3> QED
      BY <3>2, <3>3
  <2>9. Len(rbuf') <= RBuf /\ Len(received') + Len(rbuf') = Len(received) + Len(s)
    BY <2>2, <2>4, <2>5
  <2> QED
    BY <1>2, <2>1, <2>4, <2>5, <2>7, <2>8, <2>9
<1> QED
  BY <1>1, <1>2

LEMMA WritingSame ==
  ASSUME Writing, UNCHANGED writer, cut' = cut
  PROVE  Writing'
BY DEF Writing, writer

LEMMA GetKeeps == IInv /\ Get => IInv'
<1> SUFFICES ASSUME IInv, Get PROVE IInv'
  OBVIOUS
<1>0. TypeOK /\ Writing /\ Reading /\ UnderWay
  BY DEF IInv
<1>1. /\ rpc = "idle" /\ rend = "no" /\ UNCHANGED <<writer, network, unread, eof, fetched>>
  BY DEF Get
<1>2. ~eof /\ fetched = <<>>
  BY <1>0, <1>1 DEF Reading
<1>3. Writing'
  BY <1>0, <1>1, WritingSame DEF network
<1>4. ASSUME Base' = Base, rpc' = "idle" \/ rpc' = IF unread = 0 THEN "size" ELSE "data"
      PROVE  UnderWay'
  <2>1. ReaderAt' = ReaderAt
    BY <1>1, <1>2, <1>4 DEF ReaderAt
  <2> QED
    BY <1>0, <1>1, <2>1 DEF UnderWay, WriterAt, NextSent, writer, network
<1>5. CASE rbuf # <<>>
  <2>1. Show(rbuf) /\ rpc' = rpc
    BY <1>5 DEF Get
  <2>2. /\ received' \in Seq(1 .. NBytes) /\ rbuf' \in Seq(1 .. NBytes) /\ Len(rbuf') <= RBuf
        /\ Len(received') + Len(rbuf') = Len(received) + Len(rbuf)
        /\ \A i \in DOMAIN received' : received'[i] = i
        /\ \A i \in DOMAIN rbuf' : rbuf'[i] = Len(received') + i
        /\ rend' = rend
    BY <1>0, <1>5, <2>1, Shown DEF TypeOK, Reading
  <2>3. TypeOK'
    BY <1>0, <1>1, <2>1, <2>2 DEF TypeOK, writer, network
  <2>4. Reading'
    <3>1. fetched' = <<>> /\ DOMAIN fetched' = {}
      BY <1>1, <1>2
    <3> QED
      BY <1>0, <1>1, <1>2, <2>1, <2>2, <3>1 DEF Reading, network
  <2>5. UnderWay'
    BY <1>1, <1>4, <2>1, <2>2 DEF Base
  <2> QED
    BY <1>3, <2>3, <2>4, <2>5 DEF IInv
<1>6. CASE rbuf = <<>>
  <2>1. rpc' = (IF unread = 0 THEN "size" ELSE "data") /\ UNCHANGED <<rbuf, received, rend>>
    BY <1>6 DEF Get
  <2>2. TypeOK'
    BY <1>0, <1>1, <2>1 DEF TypeOK, writer, network
  <2>3. Reading'
    <3>1. unread \in Nat
      BY <1>0, ChunkedAssumption DEF TypeOK
    <3> QED
      BY <1>0, <1>1, <1>2, <1>6, <2>1, <3>1 DEF Reading, network
  <2>4. UnderWay'
    BY <1>1, <1>4, <2>1 DEF Base
  <2> QED
    BY <1>3, <2>2, <2>3, <2>4 DEF IInv
<1> QED
  BY <1>5, <1>6

LEMMA ReadSizeKeeps == IInv /\ ReadSize => IInv'
<1> SUFFICES ASSUME IInv, ReadSize PROVE IInv'
  OBVIOUS
<1>0. TypeOK /\ Writing /\ Reading /\ UnderWay
  BY DEF IInv
<1>1. /\ rpc = "size" /\ UNCHANGED <<writer, cut, rbuf, fetched, rend, received>>
      /\ IF unread' = 0 THEN rpc' = "trailer" /\ eof' = TRUE ELSE rpc' = "data" /\ UNCHANGED eof
  BY DEF ReadSize
<1>2. /\ unread = 0 /\ ~eof /\ fetched = <<>> /\ rbuf = <<>> /\ rend = "no"
      /\ ReaderAt = St("size", 0, Base) /\ Base' = Base
  BY <1>0, <1>1 DEF Reading, ReaderAt, Base
<1>3. Writing'
  BY <1>0, <1>1, WritingSame
<1>4. ReaderAt' = St(rpc', unread', Base)
  BY <1>1, <1>2 DEF ReaderAt
<1>5. ASSUME unread' \in 0 .. NBytes, link' \in Seq(Token)
      PROVE  TypeOK' /\ Reading'
  <2>1. TypeOK'
    BY <1>0, <1>1, <1>5 DEF TypeOK, writer
  <2>2. Reading'
    <3>1. unread' = 0 \/ unread' > 0
      BY <1>5, ChunkedAssumption
    <3> QED
      BY <1>0, <1>1, <1>2, <1>5, <3>1 DEF Reading
  <2> QED
    BY <2>1, <2>2
<1>6. CASE link # <<>> /\ link' = Tail(link) /\ unread' = Head(link)[2]
  <2>1. ReaderAt.at = "size" /\ ReaderAt.count = Base
    BY <1>2 DEF St
  <2>2. /\ link' \in Seq(Token) /\ Head(link) \in Token
        /\ \E x1 : Follows(ReaderAt, Head(link), x1)
        /\ \A x1 : /\ Follows(ReaderAt, Head(link), x1) /\ Head(link) # NextMessage
                   /\ ReaderAt' = x1
                   => UnderWay'
    BY <1>0, <1>1, <1>6, <2>1, TookHead
  <2>3. PICK x1 : Follows(ReaderAt, Head(link), x1)
    BY <2>2
  <2>4. Head(link)[1] = "size"
    BY <2>1, <2>3 DEF Follows
  <2>5. unread' \in 0 .. NBytes /\ Head(link) # NextMessage
    BY <1>6, <2>2, <2>4 DEF Token, CrLf, NextMessage
  <2>6. ReaderAt' = x1
    <3>1. CASE unread' = 0
      <4>1. rpc' = "trailer" /\ ~(Head(link)[2] > 0)
        BY <1>1, <1>6, <3>1
      <4>2. x1 = St("trailer", 0, Base)
        BY <2>1, <2>3, <4>1 DEF Follows
      <4> QED
        BY <1>4, <3>1, <4>1, <4>2
    <3>2. CASE unread' # 0
      BY <1>1, <1>4, <1>6, <2>1, <2>3, <3>2 DEF Follows
    <3> QED
      BY <3>1, <3>2
  <2>7. UnderWay'
    BY <2>2, <2>3, <2>5, <2>6
  <2> QED
    BY <1>3, <1>5, <2>2, <2>5, <2>7 DEF IInv
<1>7. CASE AtEnd /\ unread' = 0 /\ UNCHANGED link
  <2>1. unread' \in 0 .. NBytes /\ link' \in Seq(Token) /\ UNCHANGED <<writer, network>>
    BY <1>0, <1>1, <1>7, ChunkedAssumption DEF TypeOK, network
  <2>2. ReaderAt' = St("trailer", 0, Base)
    BY <1>1, <1>4, <1>7
  <2>3. UnderWay'
    BY <1>0, <1>7, <2>1, <2>2, TookNothing
  <2> QED
    BY <1>3, <1>5, <2>1, <2>3 DEF IInv
<1> QED
  BY <1>6, <1>7 DEF ReadSize

LEMMA ReadTrailerKeeps == IInv /\ ReadTrailer => IInv'
<1> SUFFICES ASSUME IInv, ReadTrailer PROVE IInv'
  OBVIOUS
<1>0. TypeOK /\ Writing /\ Reading /\ UnderWay
  BY DEF IInv
<1>1. /\ rpc = "trailer" /\ rpc' = "idle" /\ rend' = "eof"
      /\ UNCHANGED <<writer, cut, unread, eof, rbuf, fetched, received>>
  BY DEF ReadTrailer
<1>2. /\ unread = 0 /\ eof /\ ReaderAt = St("trailer", 0, Base)
      /\ Base' = Base /\ ReaderAt' = St("next", 0, Base)
  BY <1>0, <1>1 DEF Reading, ReaderAt, Base
<1>3. Writing'
  BY <1>0, <1>1, WritingSame
<1>4. Reading'
  BY <1>0, <1>1, <1>2 DEF Reading
<1>5. ASSUME link' \in Seq(Token) PROVE TypeOK'
  BY <1>0, <1>1, <1>5 DEF TypeOK, writer
<1>6. CASE link # <<>> /\ link' = Tail(link)
  <2>1. ReaderAt.at = "trailer" /\ ReaderAt.count = Base
    BY <1>2 DEF St
  <2>2. /\ link' \in Seq(Token) /\ Head(link) \in Token
        /\ \E x1 : Follows(ReaderAt, Head(link), x1)
        /\ \A x1 : /\ Follows(ReaderAt, Head(link), x1) /\ Head(link) # NextMessage
                   /\ ReaderAt' = x1
                   => UnderWay'
    BY <1>0, <1>1, <1>6, <2>1, TookHead
  <2>3. PICK x1 : Follows(ReaderAt, Head(link), x1)
    BY <2>2
  <2>4. Head(link) = CrLf /\ x1 = St("next", 0, Base)
    BY <2>1, <2>3 DEF Follows
  <2>5. Head(link) # NextMessage
    BY <2>4 DEF CrLf, NextMessage
  <2>6. UnderWay'
    BY <1>2, <2>2, <2>3, <2>4, <2>5
  <2> QED
    BY <1>3, <1>4, <1>5, <2>2, <2>6 DEF IInv
<1>7. CASE AtEnd /\ UNCHANGED link
  <2>1. link' \in Seq(Token) /\ UNCHANGED <<writer, network>>
    BY <1>0, <1>1, <1>7 DEF TypeOK, network
  <2>2. UnderWay'
    BY <1>0, <1>2, <1>7, <2>1, TookNothing
  <2> QED
    BY <1>3, <1>4, <1>5, <2>1, <2>2 DEF IInv
<1> QED
  BY <1>6, <1>7 DEF ReadTrailer

LEMMA ReadCrLfKeeps == IInv /\ ReadCrLf => IInv'
<1> SUFFICES ASSUME IInv, ReadCrLf PROVE IInv'
  OBVIOUS
<1>0. TypeOK /\ Writing /\ Reading /\ UnderWay
  BY DEF IInv
<1>1. /\ rpc = "crlf" /\ rpc' = "idle" /\ fetched' = <<>>
      /\ UNCHANGED <<writer, cut, unread, eof>>
  BY DEF ReadCrLf
<1>2. /\ unread = 0 /\ ~eof /\ rbuf = <<>> /\ rend = "no" /\ fetched # <<>>
      /\ ReaderAt = St("crlf", 0, Base) /\ ReaderAt' = St("size", 0, Base')
  BY <1>0, <1>1 DEF Reading, ReaderAt
<1>3. Writing'
  BY <1>0, <1>1, WritingSame
<1>4. fetched' \in Seq(1 .. NBytes) /\ Len(fetched') = 0 /\ DOMAIN fetched' = {} /\ 0 <= RBuf
  BY <1>1, EmptySeq, ChunkedAssumption
<1>5. ReaderAt.at = "crlf" /\ ReaderAt.count = Base
  BY <1>2 DEF St
<1>6. CASE link # <<>> /\ Head(link) = CrLf /\ link' = Tail(link) /\ Show(fetched)
  <2>1. /\ received' \in Seq(1 .. NBytes) /\ rbuf' \in Seq(1 .. NBytes) /\ Len(rbuf') <= RBuf
        /\ Len(received') + Len(rbuf') = Len(received) + Len(fetched)
        /\ \A i \in DOMAIN received' : received'[i] = i
        /\ \A i \in DOMAIN rbuf' : rbuf'[i] = Len(received') + i
        /\ rend' = rend
    BY <1>0, <1>2, <1>6, Shown DEF TypeOK, Reading
  <2>2. /\ link' \in Seq(Token) /\ Head(link) \in Token
        /\ \A x1 : /\ Follows(ReaderAt, Head(link), x1) /\ Head(link) # NextMessage
                   /\ ReaderAt' = x1
                   => UnderWay'
    BY <1>0, <1>1, <1>5, <1>6, TookHead
  <2>3. TypeOK'
    BY <1>0, <1>1, <1>4, <2>1, <2>2 DEF TypeOK, writer
  <2>4. Reading'
    BY <1>1, <1>2, <1>4, <2>1 DEF Reading
  <2>5. Base' = Base
    <3>1. /\ Len(received) \in Nat /\ Len(fetched) \in Nat /\ Len(rbuf) = 0
          /\ Len(received') \in Nat /\ Len(rbuf') \in Nat
      BY <1>0, <1>2, <2>1, LenProperties DEF TypeOK
    <3> QED
      BY <1>4, <2>1, <3>1 DEF Base
  <2>6. UnderWay'
    <3>1. Follows(ReaderAt, Head(link), St("size", 0, Base))
      BY <1>5, <1>6 DEF Follows
    <3>2. Head(link) # NextMessage
      BY <1>6 DEF CrLf, NextMessage
    <3> QED
      BY <1>2, <2>2, <2>5, <3>1, <3>2
  <2> QED
    BY <1>3, <2>3, <2>4, <2>6 DEF IInv
<1>7. CASE AtEnd \/ (link # <<>> /\ Head(link) # CrLf)
  <2>1. CASE link # <<>>
    <3>1. link \in Seq(Token) /\ accepted \in Nat
      BY <1>0, ChunkedAssumption DEF TypeOK
    <3>2. PICK y : Takes(link, accepted, ReaderAt, y)
      BY <1>0 DEF UnderWay
    <3>3. PICK x1 : Follows(ReaderAt, Head(link), x1)
      BY <1>5, <2>1, <3>1, <3>2, TakeHead
    <3>4. Head(link) = CrLf
      BY <1>5, <3>3 DEF Follows
    <3> QED
      BY <1>6, <1>7, <2>1, <3>4 DEF AtEnd, ReadCrLf
  <2>2. CASE link = <<>>
    <3>1. AtEnd /\ rend' = "bad" /\ UNCHANGED <<link, rbuf, received>> /\ cut
      BY <1>7, <2>2 DEF ReadCrLf, AtEnd
    <3>2. TypeOK'
      BY <1>0, <1>1, <1>4, <3>1 DEF TypeOK, writer
    <3>3. Reading'
      BY <1>0, <1>1, <1>2, <1>4, <3>1 DEF Reading
    <3>4. UnderWay'
      <4>1. link \in Seq(Token) /\ accepted \in Nat /\ Len(link) = 0
        BY <1>0, <2>2, ChunkedAssumption DEF TypeOK
      <4>2. Base' \in 0 .. accepted
        <5>1. PICK y : Takes(link, accepted, ReaderAt, y)
          BY <1>0 DEF UnderWay
        <5>2. Base \in 0 .. accepted
          <6>1. ReaderAt \in States(accepted)
            BY <4>1, <5>1, TakesStates
          <6> QED
            BY <1>5, <6>1 DEF States
        <5>3. Len(received) \in Nat /\ Len(rbuf) \in Nat /\ Len(fetched) \in Nat
          BY <1>0, LenProperties DEF TypeOK
        <5>4. Base' = Len(received) + Len(rbuf) + 0
          BY <1>4, <3>1 DEF Base
        <5> QED
          BY <4>1, <5>2, <5>3, <5>4 DEF Base
      <4>3. ReaderAt' \in States(accepted) /\ ReaderAt'.at # "data"
        BY <1>2, <4>2 DEF St, States
      <4>4. \A x \in States(accepted) : x.at # "data" => Takes(link, accepted, x, x)
        BY <4>1, PathEmpty
      <4>5. Takes(link', accepted', ReaderAt', ReaderAt')
        BY <1>1, <3>1, <4>3, <4>4 DEF writer
      <4> QED
        BY <1>1, <3>1, <4>5 DEF UnderWay
    <3> QED
      BY <1>3, <3>2, <3>3, <3>4 DEF IInv
  <2> QED
    BY <2>1, <2>2
<1> QED
  BY <1>6, <1>7 DEF ReadCrLf

\* The bytes of the body among the first n tokens.
LEMMA PayloadBytes ==
  ASSUME NEW s \in Seq(Token), NEW n \in 0 .. Len(s), NEW c \in Nat, c + n <= NBytes,
         \A k \in 1 .. n : s[k] = <<"data", c + k>>
  PROVE  /\ Payload(SubSeq(s, 1, n)) \in Seq(1 .. NBytes) /\ Len(Payload(SubSeq(s, 1, n))) = n
         /\ \A k \in 1 .. n : Payload(SubSeq(s, 1, n))[k] = c + k
<1> DEFINE t == SubSeq(s, 1, n)
<1>1. Len(s) \in Nat /\ n \in Nat /\ NBytes \in Nat
  BY LenProperties, ChunkedAssumption
<1>2. t \in Seq(Token) /\ Len(t) = n /\ \A i \in 1 .. n : t[i] = s[i]
  <2>1. \A i \in 1 .. n : s[i] \in Token
    <3>1. \A i \in 1 .. n : i \in 1 .. Len(s)
      BY <1>1
    <3> QED
      BY <3>1, ElementOfSeq
  <2>2. 1 \in Int /\ n \in Int
    BY <1>1
  <2>3. /\ t \in Seq(Token) /\ Len(t) = (IF 1 <= n THEN n - 1 + 1 ELSE 0)
        /\ \A i \in 1 .. n - 1 + 1 : t[i] = s[1 + i - 1]
    BY <2>1, <2>2, SubSeqProperties
  <2>4. Len(t) = n /\ n - 1 + 1 = n /\ \A i \in 1 .. n : 1 + i - 1 = i
    BY <1>1, <2>3
  <2> QED
    BY <2>3, <2>4
<1>3. DOMAIN t = 1 .. n
  BY <1>2, LenProperties
<1> HIDE DEF t
<1>4. Payload(t) = [i \in 1 .. n |-> c + i]
  <2>1. \A i \in 1 .. n : t[i][2] = c + i
    BY <1>2
  <2> QED
    BY <1>3, <2>1 DEF Payload
<1>5. \A i \in 1 .. n : c + i \in 1 .. NBytes
  BY <1>1
<1>6. /\ [i \in 1 .. n |-> c + i] \in Seq(1 .. NBytes) /\ Len([i \in 1 .. n |-> c + i]) = n
      /\ \A k \in 1 .. n : [i \in 1 .. n |-> c + i][k] = c + k
  BY <1>1, <1>5
<1> QED
  BY <1>4, <1>6 DEF t

LEMMA ReadDataKeeps == IInv /\ ReadData => IInv'
<1> SUFFICES ASSUME IInv, ReadData PROVE IInv'
  OBVIOUS
<1> DEFINE want == IF unread <= RBuf THEN unread ELSE RBuf
           got  == IF Available < want THEN Available ELSE want
           s    == Payload(SubSeq(link, 1, got))
<1>0. TypeOK /\ Writing /\ Reading /\ UnderWay
  BY DEF IInv
<1>1. /\ rpc = "data" /\ (got = want \/ cut)
      /\ link' = SubSeq(link, got + 1, Len(link)) /\ unread' = unread - got
      /\ IF unread' = 0
         THEN rpc' = "crlf" /\ fetched' = s /\ UNCHANGED <<rbuf, rend, received>>
         ELSE rpc' = "idle" /\ Show(s) /\ UNCHANGED fetched
      /\ UNCHANGED <<writer, cut, eof>>
  BY DEF ReadData
<1>2. /\ unread \in Nat /\ unread > 0 /\ unread <= NBytes /\ NBytes \in Nat /\ RBuf \in Nat /\ RBuf > 0
      /\ accepted \in Nat /\ accepted <= NBytes
  BY <1>0, <1>1, ChunkedAssumption DEF TypeOK, Reading
<1>3. /\ link \in Seq(Token) /\ Len(link) \in Nat /\ received \in Seq(1 .. NBytes)
      /\ Len(received) \in Nat
  BY <1>0, LenProperties DEF TypeOK
<1>4. /\ ~eof /\ fetched = <<>> /\ rbuf = <<>> /\ rend = "no" /\ Base = Len(received)
      /\ ReaderAt = St("data", unread, Base)
  <2>1. ~eof /\ fetched = <<>> /\ rbuf = <<>> /\ rend = "no"
    BY <1>0, <1>1 DEF Reading
  <2>2. Base = Len(received) + 0 + 0
    BY <2>1 DEF Base
  <2> QED
    BY <1>1, <1>3, <2>1, <2>2 DEF ReaderAt
<1>5. ReaderAt.at = "data" /\ ReaderAt.left = unread /\ ReaderAt.count = Base
  BY <1>4 DEF St
<1>6. PICK y : Takes(link, accepted, ReaderAt, y) /\ (~cut => y = WriterAt)
  BY <1>0 DEF UnderWay
<1>7. Available \in 0 .. Len(link)
  BY <1>2, <1>3, <1>5, <1>6, AvailableBytes
<1>8. /\ want \in Nat /\ want > 0 /\ want <= RBuf /\ want <= unread
      /\ got \in 0 .. Len(link) /\ got \in Nat /\ got <= want /\ got <= unread /\ got <= Len(link)
  BY <1>2, <1>3, <1>7
<1> HIDE DEF want, got
<1>9. /\ Base + got <= accepted
      /\ \A k \in 1 .. got : link[k] = <<"data", Base + k>>
      /\ Takes(SubSeq(link, got + 1, Len(link)), accepted,
               St(IF got = unread THEN "crlf" ELSE "data", unread - got, Base + got), y)
  <2>1. got <= ReaderAt.left
    BY <1>5, <1>8
  <2>2. /\ ReaderAt.count + got <= accepted
        /\ \A k \in 1 .. got : link[k] = <<"data", ReaderAt.count + k>>
        /\ Takes(SubSeq(link, got + 1, Len(link)), accepted,
                 St(IF got = ReaderAt.left THEN "crlf" ELSE "data", ReaderAt.left - got,
                    ReaderAt.count + got), y)
    BY <1>2, <1>3, <1>5, <1>6, <1>8, <2>1, TakeData
  <2> QED
    BY <1>5, <2>2
<1>10. s \in Seq(1 .. NBytes) /\ Len(s) = got /\ \A k \in 1 .. got : s[k] = Len(received) + k
  <2>1. Base \in Nat /\ Base + got <= NBytes
    BY <1>2, <1>3, <1>4, <1>8, <1>9
  <2>2. /\ s \in Seq(1 .. NBytes) /\ Len(s) = got
        /\ \A k \in 1 .. got : s[k] = Base + k
    BY <1>3, <1>8, <1>9, <2>1, PayloadBytes
  <2> QED
    BY <1>4, <2>2
<1> HIDE DEF s
<1>11. DOMAIN s = 1 .. got /\ Len(s) <= RBuf /\ (s = <<>> <=> got = 0)
  <2>1. DOMAIN s = 1 .. got
    BY <1>10, LenProperties
  <2>2. s # <<>> => Len(s) # 0
    BY <1>10, EmptySeq
  <2>3. s = <<>> => Len(s) = 0
    OBVIOUS
  <2>4. Len(s) <= RBuf
    BY <1>2, <1>8, <1>10
  <2> QED
    BY <1>10, <2>1, <2>2, <2>3, <2>4
<1>12. link' \in Seq(Token) /\ WriterAt' = WriterAt
  <2>1. \A k \in 1 .. got : link[k] # NextMessage
    BY <1>9 DEF NextMessage
  <2> QED
    BY <1>1, <1>3, <1>8, <2>1, WriterStays
<1>13. Writing'
  BY <1>0, <1>1, WritingSame
<1>14. unread' \in 0 .. NBytes /\ unread' \in Nat
  BY <1>1, <1>2, <1>8
<1>15. ASSUME ReaderAt' = St(IF got = unread THEN "crlf" ELSE "data", unread - got, Base + got)
       PROVE  UnderWay'
  <2>1. Takes(link', accepted', ReaderAt', y)
    BY <1>1, <1>9, <1>15 DEF writer
  <2>2. ~cut' => y = WriterAt'
    BY <1>1, <1>6, <1>12
  <2> QED
    BY <2>1, <2>2 DEF UnderWay
<1>16. CASE unread' = 0
  <2>1. /\ rpc' = "crlf" /\ fetched' = s /\ UNCHANGED <<rbuf, rend, received>>
        /\ got = unread /\ s # <<>>
    BY <1>1, <1>2, <1>8, <1>11, <1>16
  <2>2. TypeOK'
    BY <1>0, <1>1, <1>10, <1>11, <1>12, <1>14, <2>1 DEF TypeOK, writer
  <2>3. Reading'
    <3>1. \A i \in DOMAIN fetched' : fetched'[i] = Len(received') + i
      BY <1>10, <1>11, <2>1
    <3> QED
      BY <1>0, <1>1, <1>4, <1>16, <2>1, <3>1 DEF Reading
  <2>4. UnderWay'
    <3>1. Base' = Base + got
      <4>1. Base' = Len(received) + 0 + got
        BY <1>4, <1>10, <2>1 DEF Base
      <4> QED
        BY <1>3, <1>4, <1>8, <4>1
    <3>2. ReaderAt' = St("crlf", unread', Base')
      BY <2>1 DEF ReaderAt
    <3> QED
      BY <1>1, <1>15, <2>1, <3>1, <3>2
  <2> QED
    BY <1>13, <2>2, <2>3, <2>4 DEF IInv
<1>17. CASE unread' # 0
  <2>1. rpc' = "idle" /\ Show(s) /\ fetched' = fetched /\ got # unread
    BY <1>1, <1>2, <1>8, <1>17
  <2>2. /\ received' \in Seq(1 .. NBytes) /\ rbuf' \in Seq(1 .. NBytes) /\ Len(rbuf') <= RBuf
        /\ Len(received') + Len(rbuf') = Len(received) + Len(s)
        /\ \A i \in DOMAIN received' : received'[i] = i
        /\ \A i \in DOMAIN rbuf' : rbuf'[i] = Len(received') + i
        /\ rend' = IF s = <<>> THEN "eof" ELSE rend
    <3>1. \A i \in DOMAIN s : s[i] = Len(received) + i
      BY <1>10, <1>11
    <3>2. /\ rbuf \in Seq(1 .. NBytes) /\ Len(rbuf) <= RBuf
          /\ \A i \in DOMAIN received : received[i] = i
      BY <1>0 DEF TypeOK, Reading
    <3>3. s = <<>> => rbuf = <<>>
      BY <1>4
    <3> QED
      BY <1>3, <1>10, <1>11, <2>1, <3>1, <3>2, <3>3, Shown
  <2>3. TypeOK'
    BY <1>0, <1>1, <1>4, <1>12, <1>14, <2>1, <2>2 DEF TypeOK, writer
  <2>4. Reading'
    <3>1. fetched' = <<>> /\ DOMAIN fetched' = {}
      BY <1>4, <2>1
    <3>2. rend' = "eof" => cut'
      <4>1. got = want => s # <<>>
        BY <1>8, <1>11
      <4> QED
        BY <1>1, <1>4, <2>2, <4>1
    <3>3. rend' # "bad"
      BY <1>4, <2>2
    <3> QED
      BY <1>1, <1>4, <2>1, <2>2, <3>1, <3>2, <3>3 DEF Reading
  <2>5. UnderWay'
    <3>1. Base' = Base + got
      <4>1. Len(received') \in Nat /\ Len(rbuf') \in Nat
        BY <2>2, LenProperties
      <4>2. Base' = Len(received') + Len(rbuf') + 0
        BY <1>4, <2>1 DEF Base
      <4> QED
        BY <1>4, <1>10, <2>2, <4>1, <4>2
    <3>2. ReaderAt' = St("data", unread', Base')
      BY <1>1, <1>4, <1>17, <2>1 DEF ReaderAt
    <3> QED
      BY <1>1, <1>15, <2>1, <3>1, <3>2
  <2> QED
    BY <1>13, <2>3, <2>4, <2>5 DEF IInv
<1> QED
  BY <1>16, <1>17

-----------------------------------------------------------------------------
(* The theorems.                                                           *)

LEMMA InitIInv == Init => IInv
<1> SUFFICES ASSUME Init PROVE IInv
  OBVIOUS
<1>1. /\ accepted = 0 /\ wbuf = <<>> /\ wstate = "good"
      /\ finished = FALSE /\ alive = TRUE /\ obuf = <<>> /\ outGood = TRUE
      /\ link = <<>> /\ cut = FALSE
      /\ rpc = "idle" /\ unread = 0 /\ eof = FALSE /\ rbuf = <<>> /\ fetched = <<>>
      /\ rend = "no" /\ received = <<>>
  BY DEF Init
<1>2. /\ <<>> \in Seq(1 .. NBytes) /\ <<>> \in Seq(Token) /\ Len(<<>>) = 0 /\ DOMAIN <<>> = {}
      /\ 0 \in 0 .. NBytes /\ 0 <= WBuf /\ 0 <= RBuf
  BY EmptySeq, ChunkedAssumption
<1>3. TypeOK
  BY <1>1, <1>2 DEF TypeOK
<1>4. Writing
  BY <1>1, <1>2 DEF Writing
<1>5. Reading
  BY <1>1, <1>2 DEF Reading
<1>6. UnderWay
  <2>1. Base = 0 /\ accepted - Len(wbuf) = 0
    <3>1. Len(received) = 0 /\ Len(rbuf) = 0 /\ Len(fetched) = 0 /\ Len(wbuf) = 0 /\ accepted = 0
      BY <1>1, <1>2
    <3> QED
      BY <3>1 DEF Base
  <2>2. ReaderAt = St("size", 0, 0) /\ WriterAt = St("size", 0, 0)
    BY <1>1, <2>1 DEF ReaderAt, WriterAt
  <2>3. St("size", 0, 0) \in States(accepted) /\ St("size", 0, 0).at # "data"
    BY <1>1 DEF St, States
  <2>4. accepted \in Nat /\ Len(link) = 0
    BY <1>1, <1>2
  <2>5. Takes(link, accepted, ReaderAt, WriterAt)
    BY <2>2, <2>3, <2>4, PathEmpty
  <2> QED
    BY <2>5 DEF UnderWay
<1> QED
  BY <1>3, <1>4, <1>5, <1>6 DEF IInv

LEMMA StepIInv == IInv /\ [Next]_vars => IInv'
<1> SUFFICES ASSUME IInv, [Next]_vars PROVE IInv'
  OBVIOUS
<1>1. CASE Put
  BY <1>1, PutKeeps
<1>2. CASE Sync
  BY <1>2, SyncKeeps
<1>3. CASE Finish
  <2>1. alive' \in BOOLEAN /\ (alive \/ ~alive')
    BY <1>3 DEF Finish, IInv, TypeOK
  <2> QED
    BY <1>3, <2>1, FinishKeeps DEF Finish
<1>4. CASE Destroy
  BY <1>4, FinishKeeps DEF Destroy
<1>5. CASE SendNext
  BY <1>5, SendNextKeeps
<1>6. CASE Cut
  BY <1>6, CutKeeps
<1>7. CASE Get
  BY <1>7, GetKeeps
<1>8. CASE ReadSize
  BY <1>8, ReadSizeKeeps
<1>9. CASE ReadTrailer
  BY <1>9, ReadTrailerKeeps
<1>10. CASE ReadData
  BY <1>10, ReadDataKeeps
<1>11. CASE ReadCrLf
  BY <1>11, ReadCrLfKeeps
<1>12. CASE UNCHANGED vars
  BY <1>12 DEF vars, IInv, TypeOK, Writing, Reading, UnderWay, ReaderAt, Base, WriterAt, NextSent
<1> QED
  BY <1>1, <1>2, <1>3, <1>4, <1>5, <1>6, <1>7, <1>8, <1>9, <1>10, <1>11, <1>12 DEF Next, Write, Read

LEMMA Invariance == Spec => []IInv
BY InitIInv, StepIInv, PTL DEF Spec

\* The variables keep their types; no buffer grows beyond its size.
THEOREM TypeCorrect == Spec => []TypeOK
BY Invariance, PTL DEF IInv

\* What the reader has taken was accepted before.
LEMMA TakenAccepted ==
  ASSUME IInv
  PROVE  /\ received \in Seq(1 .. NBytes) /\ rbuf \in Seq(1 .. NBytes)
         /\ Len(received) \in Nat /\ Len(rbuf) \in Nat /\ Len(fetched) \in Nat /\ accepted \in Nat
         /\ Base \in 0 .. accepted
<1>1. /\ received \in Seq(1 .. NBytes) /\ rbuf \in Seq(1 .. NBytes) /\ accepted \in Nat
      /\ Len(received) \in Nat /\ Len(rbuf) \in Nat /\ Len(fetched) \in Nat /\ Len(link) \in Nat
  BY ChunkedAssumption, LenProperties DEF IInv, TypeOK
<1>2. PICK y : Takes(link, accepted, ReaderAt, y)
  BY DEF IInv, UnderWay
<1>3. ReaderAt \in States(accepted)
  BY <1>1, <1>2, TakesStates
<1>4. Base \in 0 .. accepted
  BY <1>3 DEF ReaderAt, St, States
<1> QED
  BY <1>1, <1>4

\* The reader sees the body, in order and with nothing left out or put in, for
\* every size of the two buffers and wherever the connection is cut.
THEOREM BodyOnlyHolds == Spec => []BodyOnly
<1>1. IInv => BodyOnly
  <2> SUFFICES ASSUME IInv PROVE BodyOnly
    OBVIOUS
  <2>1. /\ received \in Seq(1 .. NBytes) /\ rbuf \in Seq(1 .. NBytes)
        /\ Len(received) \in Nat /\ Len(rbuf) \in Nat /\ Len(fetched) \in Nat /\ accepted \in Nat
        /\ Base \in 0 .. accepted
    BY TakenAccepted
  <2>2. Len(received) <= accepted
    BY <2>1 DEF Base
  <2> DEFINE u == received \o rbuf
  <2>3. Joined(u, received, rbuf) /\ u \in Seq(1 .. NBytes)
    BY <2>1, ConcatJoined
  <2> HIDE DEF u
  <2>4. /\ DOMAIN u = 1 .. Len(received) + Len(rbuf) /\ DOMAIN received = 1 .. Len(received)
        /\ DOMAIN rbuf = 1 .. Len(rbuf)
    <3>1. DOMAIN u = 1 .. Len(u)
      BY <2>3, LenProperties
    <3>2. Len(u) = Len(received) + Len(rbuf)
      BY <2>3 DEF Joined
    <3> QED
      BY <2>1, <3>1, <3>2, LenProperties
  <2>5. ASSUME NEW i \in DOMAIN u PROVE u[i] = i
    <3>1. CASE i <= Len(received)
      <4>1. i \in 1 .. Len(received)
        BY <2>1, <2>4, <3>1
      <4>2. u[i] = received[i]
        BY <2>3, <4>1 DEF Joined
      <4> QED
        BY <2>4, <4>1, <4>2 DEF IInv, Reading
    <3>2. CASE i > Len(received)
      <4>1. PICK j \in 1 .. Len(rbuf) : i = Len(received) + j
        <5>1. i - Len(received) \in 1 .. Len(rbuf) /\ i = Len(received) + (i - Len(received))
          BY <2>1, <2>4, <3>2
        <5> QED
          BY <5>1
      <4>2. u[Len(received) + j] = rbuf[j]
        BY <2>3 DEF Joined
      <4>3. rbuf[j] = Len(received) + j
        BY <2>4 DEF IInv, Reading
      <4> QED
        BY <4>1, <4>2, <4>3
    <3> QED
      BY <2>1, <2>4, <3>1, <3>2
  <2> QED
    BY <2>2, <2>5 DEF BodyOnly, u
<1> QED
  BY <1>1, Invariance, PTL

\* Behind the message the automaton only meets the next one.
LEMMA BehindMessage ==
  ASSUME NEW a \in Nat, NEW s \in Seq(Token), NEW x, NEW y, Takes(s, a, x, y)
  PROVE  /\ x.at = "end" => s = <<>>
         /\ x.at = "next" => s \in {<<>>, <<NextMessage>>} /\ y.at # "size" /\ y.count = x.count
         /\ x.at = "trailer" => y.at # "size" /\ y.count = x.count
<1>1. \A t \in Seq(Token) : Len(t) \in Nat /\ (t # <<>> => Tail(t) \in Seq(Token))
  BY LenProperties, HeadTailProperties
<1>2. \A t \in Seq(Token) : \A v, w : Takes(t, a, v, w) /\ t = <<>> => v = w
  <2>1. \A t \in Seq(Token) : \A v, w : Takes(t, a, v, w) /\ Len(t) = 0 => v = w
    BY <1>1, TakesStates
  <2>2. \A t \in Seq(Token) : t = <<>> => Len(t) = 0
    OBVIOUS
  <2> QED
    BY <2>1, <2>2
<1>3. \A t \in Seq(Token) : \A v, w : Takes(t, a, v, w) /\ t # <<>> /\ v.at # "data" =>
        \E v1 : Follows(v, Head(t), v1) /\ Takes(Tail(t), a, v1, w)
  BY TakeHead
<1>4. \A t \in Seq(Token) : \A v, w : Takes(t, a, v, w) /\ v.at = "end" => t = <<>> /\ v = w
  BY <1>2, <1>3 DEF Follows
<1>5. ASSUME NEW t \in Seq(Token), NEW v, NEW w, Takes(t, a, v, w), v.at = "next"
      PROVE  t \in {<<>>, <<NextMessage>>} /\ w.at # "size" /\ w.count = v.count
  <2>1. CASE t = <<>>
    BY <1>2, <1>5, <2>1
  <2>2. CASE t # <<>>
    <3>1. PICK v1 : Follows(v, Head(t), v1) /\ Takes(Tail(t), a, v1, w)
      BY <1>3, <1>5, <2>2
    <3>2. Head(t) = NextMessage /\ v1 = St("end", 0, v.count)
      BY <1>5, <3>1 DEF Follows
    <3>3. v1.at = "end" /\ v1.count = v.count
      BY <3>2 DEF St
    <3>4. Tail(t) = <<>> /\ v1 = w
      BY <1>1, <1>4, <2>2, <3>1, <3>3
    <3>5. t = <<NextMessage>>
      <4>1. Len(Tail(t)) = 0
        <5>1. Len(<<>>) = 0
          OBVIOUS
        <5> QED
          BY <3>4, <5>1
      <4>2. Len(t) \in Nat /\ Len(Tail(t)) = Len(t) - 1 /\ Head(t) = t[1]
        BY <1>1, <2>2, HeadTailProperties
      <4>3. Len(t) = 1 /\ t[1] = NextMessage
        BY <3>2, <4>1, <4>2
      <4>4. <<NextMessage>> \in Seq(Token) /\ Len(<<NextMessage>>) = 1 /\ <<NextMessage>>[1] = NextMessage
        BY DEF Token
      <4>5. \A i \in 1 .. Len(t) : t[i] = <<NextMessage>>[i]
        BY <4>3, <4>4
      <4> QED
        BY <4>3, <4>4, <4>5, SeqEqual
    <3> QED
      BY <3>3, <3>4, <3>5
  <2> QED
    BY <2>1, <2>2
<1>6. ASSUME x.at = "trailer" PROVE y.at # "size" /\ y.count = x.count
  <2>1. CASE s = <<>>
    BY <1>2, <1>6, <2>1
  <2>2. CASE s # <<>>
    <3>1. PICK v1 : Follows(x, Head(s), v1) /\ Takes(Tail(s), a, v1, y)
      BY <1>3, <1>6, <2>2
    <3>2. v1 = St("next", 0, x.count)
      BY <1>6, <3>1 DEF Follows
    <3>3. v1.at = "next" /\ v1.count = x.count
      BY <3>2 DEF St
    <3>4. Tail(s) \in Seq(Token)
      BY <1>1, <2>2
    <3>5. y.at # "size" /\ y.count = v1.count
      BY <1>5, <3>1, <3>3, <3>4
    <3> QED
      BY <3>3, <3>5
  <2> QED
    BY <2>1, <2>2
<1> QED
  BY <1>4, <1>5, <1>6

\* The reader takes its message and leaves the next one, and is told of an error
\* only once the connection is cut.
THEOREM StopsAtTheEndHolds == Spec => []StopsAtTheEnd
<1>1. IInv => StopsAtTheEnd
  <2> SUFFICES ASSUME IInv PROVE StopsAtTheEnd
    OBVIOUS
  <2>1. accepted \in Nat /\ link \in Seq(Token) /\ Reading
    BY ChunkedAssumption DEF IInv, TypeOK
  <2>2. PICK y : Takes(link, accepted, ReaderAt, y)
    BY DEF IInv, UnderWay
  <2>3. ~cut => rend # "bad"
    BY <2>1 DEF Reading
  <2>4. ASSUME ~cut, rend = "eof" PROVE link \in {<<>>, <<NextMessage>>}
    <3>1. rpc = "idle" /\ eof
      BY <2>1, <2>4 DEF Reading
    <3>2. ReaderAt.at = "next"
      BY <3>1 DEF ReaderAt, St
    <3> QED
      BY <2>1, <2>2, <3>2, BehindMessage
  <2>5. ASSUME rpc \in {"size", "trailer"}, link # <<>> PROVE Head(link) # NextMessage
    <3>1. ReaderAt.at = rpc
      BY <2>5 DEF ReaderAt, St
    <3>2. PICK x1 : Follows(ReaderAt, Head(link), x1)
      BY <2>1, <2>2, <2>5, <3>1, TakeHead
    <3> QED
      BY <2>5, <3>1, <3>2 DEF Follows, CrLf, NextMessage
  <2> QED
    BY <2>3, <2>4, <2>5 DEF StopsAtTheEnd
<1> QED
  BY <1>1, Invariance, PTL

-----------------------------------------------------------------------------
(* The coders and the connection implement the byte channel.               *)

\* The first k bytes of the body.
First(k) == [i \in 1 .. k |-> i]

LEMMA FirstSeq ==
  ASSUME NEW k \in Nat
  PROVE  /\ First(k) \in Seq(Nat) /\ Len(First(k)) = k
         /\ First(k + 1) = Append(First(k), k + 1)
         /\ \A n \in 0 .. k : First(n) = SubSeq(First(k), 1, n)
<1>1. \A n \in Nat : First(n) \in Seq(Nat) /\ Len(First(n)) = n /\ \A i \in 1 .. n : First(n)[i] = i
  BY DEF First
<1>2. First(k + 1) = Append(First(k), k + 1)
  <2>1. /\ Append(First(k), k + 1) \in Seq(Nat) /\ Len(Append(First(k), k + 1)) = k + 1
        /\ \A i \in 1 .. k : Append(First(k), k + 1)[i] = First(k)[i]
        /\ Append(First(k), k + 1)[k + 1] = k + 1
    <3>1. First(k) \in Seq(Nat) /\ Len(First(k)) = k /\ k + 1 \in Nat
      BY <1>1
    <3> QED
      BY <3>1, AppendProperties
  <2>2. \A i \in 1 .. k + 1 : Append(First(k), k + 1)[i] = First(k + 1)[i]
    <3>1. \A i \in 1 .. k + 1 : First(k + 1)[i] = i /\ (i \in 1 .. k \/ i = k + 1)
      BY <1>1
    <3>2. \A i \in 1 .. k : First(k)[i] = i
      BY <1>1
    <3> QED
      BY <2>1, <3>1, <3>2
  <2>3. First(k + 1) \in Seq(Nat) /\ Len(First(k + 1)) = k + 1
    BY <1>1
  <2> QED
    BY <2>1, <2>2, <2>3, SeqEqual
<1>3. ASSUME NEW n \in 0 .. k PROVE First(n) = SubSeq(First(k), 1, n)
  <2>1. /\ SubSeq(First(k), 1, n) \in Seq(Nat) /\ Len(SubSeq(First(k), 1, n)) = n
        /\ \A i \in 1 .. n : SubSeq(First(k), 1, n)[i] = i
    <3>1. \A i \in 1 .. n : First(k)[i] \in Nat
      <4>1. \A i \in 1 .. n : i \in 1 .. k /\ i \in Nat
        OBVIOUS
      <4> QED
        BY <1>1, <4>1
    <3>2. /\ SubSeq(First(k), 1, n) \in Seq(Nat)
          /\ Len(SubSeq(First(k), 1, n)) = IF 1 <= n THEN n - 1 + 1 ELSE 0
          /\ \A i \in 1 .. n - 1 + 1 : SubSeq(First(k), 1, n)[i] = First(k)[1 + i - 1]
      BY <3>1, SubSeqProperties
    <3>3. \A i \in 1 .. n : i \in 1 .. k /\ 1 + i - 1 = i
      OBVIOUS
    <3>4. (IF 1 <= n THEN n - 1 + 1 ELSE 0) = n /\ n - 1 + 1 = n
      OBVIOUS
    <3> QED
      BY <1>1, <3>2, <3>3, <3>4
  <2>2. First(n) \in Seq(Nat) /\ Len(First(n)) = n /\ \A i \in 1 .. n : First(n)[i] = i
    BY <1>1
  <2> QED
    BY <2>1, <2>2, SeqEqual
<1> QED
  BY <1>1, <1>2, <1>3

\* The reader has read the first bytes of the body.
LEMMA ReceivedFirst == IInv => received = First(Len(received)) /\ Len(received) \in 0 .. accepted
<1> SUFFICES ASSUME IInv PROVE received = First(Len(received)) /\ Len(received) \in 0 .. accepted
  OBVIOUS
<1>1. /\ received \in Seq(1 .. NBytes) /\ Len(received) \in Nat /\ Len(rbuf) \in Nat
      /\ Len(fetched) \in Nat /\ accepted \in Nat /\ Base \in 0 .. accepted
  BY TakenAccepted
<1>2. Len(received) \in 0 .. accepted
  BY <1>1 DEF Base
<1>3. DOMAIN received = 1 .. Len(received) /\ \A i \in DOMAIN received : received[i] = i
  BY <1>1, LenProperties DEF IInv, Reading
<1>4. received = [i \in 1 .. Len(received) |-> received[i]]
  BY <1>1, <1>3
<1> QED
  BY <1>2, <1>3, <1>4 DEF First

Closed == finished \/ ~alive
Ended == rend # "no"

\* At the trailer of a message that came whole, the reader has all of it.
LEMMA WholeMessage ==
  ASSUME IInv, rpc = "trailer", ~cut
  PROVE  finished /\ Len(received) = accepted
<1>1. /\ received \in Seq(1 .. NBytes) /\ Len(received) \in Nat /\ accepted \in Nat
      /\ link \in Seq(Token) /\ rbuf = <<>> /\ fetched = <<>>
  BY TakenAccepted DEF IInv, TypeOK, Reading
<1>2. Base = Len(received)
  <2>1. Len(rbuf) = 0 /\ Len(fetched) = 0
    BY <1>1
  <2> QED
    BY <1>1, <2>1 DEF Base
<1>3. ReaderAt.at = "trailer" /\ ReaderAt.count = Len(received)
  BY <1>2 DEF ReaderAt, St
<1>4. Takes(link, accepted, ReaderAt, WriterAt)
  BY DEF IInv, UnderWay
<1>5. WriterAt.at # "size" /\ WriterAt.count = Len(received)
  BY <1>1, <1>3, <1>4, BehindMessage
<1>6. WriterAt.count = accepted - Len(wbuf) /\ (~finished => WriterAt.at = "size")
  BY DEF WriterAt, St
<1>7. finished /\ wbuf = <<>>
  BY <1>5, <1>6 DEF IInv, Writing
<1>8. Len(wbuf) = 0
  BY <1>7
<1> QED
  BY <1>1, <1>5, <1>6, <1>7, <1>8

\* The steps of the channel, in terms of how many bytes were put and read.
SendStep == /\ ~Closed /\ accepted < NBytes /\ accepted' = accepted + 1
            /\ UNCHANGED <<received, Closed, cut, Ended>>
DeliverStep == /\ ~Ended /\ Len(received') > Len(received)
               /\ UNCHANGED <<accepted, Closed, cut, Ended>>
CloseStep == ~Closed /\ Closed' /\ UNCHANGED <<accepted, received, cut, Ended>>
BreakStep == ~cut /\ cut' /\ UNCHANGED <<accepted, received, Closed, Ended>>
EndStep == /\ ~Ended /\ (cut \/ (Closed /\ Len(received) = accepted)) /\ Ended'
           /\ UNCHANGED <<accepted, received, Closed, cut>>
StutterStep == UNCHANGED <<accepted, received, Closed, cut, Ended>>
ChannelStep == SendStep \/ DeliverStep \/ CloseStep \/ BreakStep \/ EndStep \/ StutterStep

\* Showing bytes delivers one, or tells the end of a channel that broke.
LEMMA ShowImplements ==
  ASSUME IInv, NEW s, Show(s), rend = "no", s = <<>> => cut,
         UNCHANGED <<writer, cut>>
  PROVE  ChannelStep
<1>1. received \in Seq(1 .. NBytes) /\ Len(received) \in Nat
  BY TakenAccepted
<1>2. CASE s = <<>>
  BY <1>2 DEF Show, EndStep, ChannelStep, Closed, Ended, writer
<1>3. CASE s # <<>>
  <2>1. received' = Append(received, Head(s)) /\ rend' = rend
    BY <1>3 DEF Show
  <2>2. Len(received') = Len(received) + 1
    BY <1>1, <2>1
  <2>3. Len(received') > Len(received)
    BY <1>1, <2>2
  <2> QED
    BY <2>1, <2>3 DEF DeliverStep, ChannelStep, Closed, Ended, writer
<1> QED
  BY <1>2, <1>3

LEMMA StepImplements == IInv /\ [Next]_vars => ChannelStep
<1> SUFFICES ASSUME IInv, [Next]_vars PROVE ChannelStep
  OBVIOUS
<1>1. CASE Put
  <2>1. accepted' = accepted + 1 \/ UNCHANGED accepted
    BY <1>1 DEF Put
  <2> QED
    BY <1>1, <2>1 DEF Put, reader, ChannelStep, SendStep, StutterStep, Closed, Ended
<1>2. CASE Sync
  BY <1>2 DEF Sync, reader, ChannelStep, StutterStep, Closed, Ended
<1>3. CASE Finish
  <2>1. finished => finished'
    BY <1>3 DEF Finish, FinishBody
  <2>2. finished \in BOOLEAN /\ alive \in BOOLEAN
    BY DEF IInv, TypeOK
  <2>3. finished' \in BOOLEAN
    BY <1>3, StepIInv DEF IInv, TypeOK
  <2> QED
    BY <1>3, <2>1, <2>2, <2>3 DEF Finish, reader, ChannelStep, CloseStep, StutterStep, Closed, Ended
<1>4. CASE Destroy
  <2>1. finished => finished'
    BY <1>4 DEF Destroy, FinishBody
  <2>2. finished \in BOOLEAN /\ alive \in BOOLEAN
    BY DEF IInv, TypeOK
  <2> QED
    BY <1>4, <2>1, <2>2 DEF Destroy, reader, ChannelStep, CloseStep, StutterStep, Closed, Ended
<1>5. CASE SendNext
  BY <1>5 DEF SendNext, reader, ChannelStep, StutterStep, Closed, Ended
<1>6. CASE Cut
  BY <1>6 DEF Cut, writer, reader, ChannelStep, BreakStep, Closed, Ended
<1>7. CASE Get
  <2>1. CASE rbuf # <<>>
    BY <1>7, <2>1, ShowImplements DEF Get, network
  <2>2. CASE rbuf = <<>>
    BY <1>7, <2>2 DEF Get, writer, network, ChannelStep, StutterStep, Closed, Ended
  <2> QED
    BY <2>1, <2>2
<1>8. CASE ReadSize
  BY <1>8 DEF ReadSize, writer, ChannelStep, StutterStep, Closed, Ended
<1>9. CASE ReadTrailer
  <2>1. rend = "no" /\ rpc = "trailer"
    BY <1>9 DEF ReadTrailer, IInv, Reading
  <2>2. cut \/ (Closed /\ Len(received) = accepted)
    BY <2>1, WholeMessage DEF Closed
  <2> QED
    BY <1>9, <2>1, <2>2 DEF ReadTrailer, writer, ChannelStep, EndStep, Closed, Ended
<1>10. CASE ReadData
  <2> DEFINE want == IF unread <= RBuf THEN unread ELSE RBuf
             got  == IF Available < want THEN Available ELSE want
             s    == Payload(SubSeq(link, 1, got))
  <2>1. rend = "no" /\ rpc = "data"
    BY <1>10 DEF ReadData, IInv, Reading
  <2>2. /\ (got = want \/ cut) /\ UNCHANGED <<writer, cut>>
        /\ \/ unread' = 0 /\ UNCHANGED <<received, rend>>
           \/ unread' # 0 /\ Show(s)
    BY <1>10 DEF ReadData
  <2>3. CASE UNCHANGED <<received, rend>>
    BY <2>2, <2>3 DEF writer, ChannelStep, StutterStep, Closed, Ended
  <2>4. CASE unread' # 0 /\ Show(s)
    <3>1. CASE rend' = rend
      <4>1. s # <<>>
        BY <2>1, <2>4, <3>1 DEF Show
      <4> HIDE DEF s
      <4> QED
        BY <2>1, <2>2, <2>4, <4>1, ShowImplements
    <3>2. CASE rend' # rend
      <4>1. s = <<>>
        BY <2>4, <3>2 DEF Show
      <4>2. cut'
        <5>1. IInv' /\ rend' = "eof" /\ eof' = eof
          BY <1>10, <2>4, <4>1, StepIInv DEF ReadData, Show, Next, Read
        <5>2. ~eof
          BY <2>1 DEF IInv, Reading
        <5> QED
          BY <5>1, <5>2 DEF IInv, Reading
      <4> HIDE DEF s
      <4> QED
        BY <2>1, <2>2, <2>4, <4>2, ShowImplements
    <3> QED
      BY <3>1, <3>2
  <2> QED
    BY <2>2, <2>3, <2>4
<1>11. CASE ReadCrLf
  <2>1. rend = "no" /\ fetched # <<>> /\ UNCHANGED <<writer, cut>>
    BY <1>11 DEF ReadCrLf, IInv, Reading
  <2>2. CASE Show(fetched)
    BY <2>1, <2>2, ShowImplements
  <2>3. CASE rend' = "bad" /\ UNCHANGED received
    <3>1. cut'
      BY <1>11, <2>3, StepIInv DEF IInv, Reading, Next, Read
    <3> QED
      BY <2>1, <2>3, <3>1 DEF writer, ChannelStep, EndStep, Closed, Ended
  <2> QED
    BY <1>11, <2>2, <2>3 DEF ReadCrLf
<1>12. CASE UNCHANGED vars
  BY <1>12 DEF vars, ChannelStep, StutterStep, Closed, Ended
<1> QED
  BY <1>1, <1>2, <1>3, <1>4, <1>5, <1>6, <1>7, <1>8, <1>9, <1>10, <1>11, <1>12 DEF Next, Write, Read

\* The channel's own formulas, with the state of the coders in their place.
LEMMA ChannelImplements == IInv /\ IInv' /\ ChannelStep => [Channel!Next]_(Channel!vars)
<1>1. (IInv => received = First(Len(received)) /\ Len(received) \in 0 .. accepted)'
  <2>1. IInv => received = First(Len(received)) /\ Len(received) \in 0 .. accepted
    BY ReceivedFirst
  <2> QED
    BY <2>1, PTL
<1> SUFFICES ASSUME IInv, IInv', ChannelStep PROVE [Channel!Next]_(Channel!vars)
  OBVIOUS
<1> DEFINE snt == [i \in 1 .. accepted |-> i]
<1>2. /\ accepted \in Nat /\ accepted' \in Nat
      /\ received = First(Len(received)) /\ Len(received) \in 0 .. accepted
      /\ received' = First(Len(received')) /\ Len(received') \in 0 .. accepted'
  <2>1. received = First(Len(received)) /\ Len(received) \in 0 .. accepted
    BY ReceivedFirst
  <2>2. accepted \in Nat /\ accepted' \in Nat
    BY ChunkedAssumption DEF IInv, TypeOK
  <2>3. received' = First(Len(received')) /\ Len(received') \in 0 .. accepted'
    BY <1>1 DEF First
  <2> QED
    BY <2>1, <2>2, <2>3
<1>3. snt = First(accepted) /\ snt' = First(accepted')
  BY DEF First
<1>4. Len(snt) = accepted
  BY <1>2, <1>3, FirstSeq
<1>5. CASE SendStep
  <2>1. snt' = Append(snt, accepted + 1) /\ accepted + 1 \in 1 .. NBytes
    <3>1. accepted' = accepted + 1 /\ accepted < NBytes
      BY <1>5 DEF SendStep
    <3>2. First(accepted + 1) = Append(First(accepted), accepted + 1)
      BY <1>2, FirstSeq
    <3>3. accepted + 1 \in 1 .. NBytes
      BY <1>2, <3>1, ChunkedAssumption
    <3>4. snt' = First(accepted + 1)
      BY <1>3, <3>1
    <3> QED
      BY <1>3, <3>2, <3>3, <3>4
  <2> QED
    BY <1>5, <2>1 DEF SendStep, Closed, Ended, Channel!Next, Channel!Send
<1>6. CASE DeliverStep
  <2>1. snt' = snt /\ Len(received') > Len(received) /\ accepted' = accepted
    BY <1>3, <1>6 DEF DeliverStep
  <2>2. Len(received') \in Len(received) + 1 .. Len(snt)
    BY <1>2, <1>4, <2>1
  <2>3. received' = SubSeq(snt, 1, Len(received'))
    <3>1. Len(received') \in 0 .. accepted
      BY <1>2, <2>1
    <3>2. First(Len(received')) = SubSeq(First(accepted), 1, Len(received'))
      BY <1>2, <3>1, FirstSeq
    <3>3. received' = First(Len(received'))
      BY <1>2
    <3> QED
      BY <1>3, <3>2, <3>3
  <2> QED
    BY <1>6, <2>1, <2>2, <2>3 DEF DeliverStep, Closed, Ended, Channel!Next, Channel!Deliver
<1>7. CASE CloseStep
  <2>1. snt' = snt
    BY <1>3, <1>7 DEF CloseStep
  <2> QED
    BY <1>7, <2>1 DEF CloseStep, Closed, Ended, Channel!Next, Channel!Close
<1>8. CASE BreakStep
  <2>1. snt' = snt /\ cut' = TRUE
    BY <1>3, <1>8 DEF BreakStep, IInv, TypeOK
  <2> QED
    BY <1>8, <2>1 DEF BreakStep, Closed, Ended, Channel!Next, Channel!Break
<1>9. CASE EndStep
  <2>1. snt' = snt
    BY <1>3, <1>9 DEF EndStep
  <2>2. Len(received) = accepted => received = snt
    BY <1>2, <1>3
  <2> QED
    BY <1>9, <2>1, <2>2 DEF EndStep, Closed, Ended, Channel!Next, Channel!End
<1>10. CASE StutterStep
  <2>1. snt' = snt
    BY <1>3, <1>10 DEF StutterStep
  <2> QED
    BY <1>10, <2>1 DEF StutterStep, Closed, Ended, Channel!vars
<1> QED
  BY <1>5, <1>6, <1>7, <1>8, <1>9, <1>10 DEF ChannelStep

\* From the program that writes the body to the one that reads it, the chunked
\* coding is a reliable, ordered channel that may break: the reader is told the
\* end of a body that was finished and read to its last byte, or of a
\* connection that was cut.
THEOREM ImplementsChannelHolds == Spec => ImplementsChannel
<1>1. Init => Channel!Init
  <2> SUFFICES ASSUME Init PROVE Channel!Init
    OBVIOUS
  <2>1. [i \in 1 .. accepted |-> i] = <<>>
    BY DEF Init
  <2> QED
    BY <2>1 DEF Init, Channel!Init
<1>2. IInv /\ IInv' /\ [Next]_vars => [Channel!Next]_(Channel!vars)
  BY StepImplements, ChannelImplements
<1> QED
  BY <1>1, <1>2, Invariance, PTL DEF Spec, ImplementsChannel, Channel!Spec
=============================================================================
