--------------------------- MODULE ProgramsProofs ---------------------------
(***************************************************************************)
(* The programs give every client the answers to its own requests, of any  *)
(* length, for any number of clients; and the handles that hold their      *)
(* descriptors, UniqueResource, have one owner at most, for any number of  *)
(* objects and resources.                                                  *)
(***************************************************************************)
EXTENDS Programs, UniqueResource, SequenceTheorems, TLAPS

-----------------------------------------------------------------------------
(* The handles.                                                            *)

\* The values the variables take.
THEOREM TypeCorrect == ResourceSpec => []ResourceTypeOK
<1>1. ResourceInit => ResourceTypeOK
  BY DEF ResourceInit, ResourceTypeOK
<1>2. ResourceTypeOK /\ [ResourceNext]_resourceVars => ResourceTypeOK'
  <2> SUFFICES ASSUME ResourceTypeOK, [ResourceNext]_resourceVars PROVE ResourceTypeOK'
    OBVIOUS
  <2> USE DEF ResourceTypeOK
  <2>0. ASSUME NEW o \in Objects PROVE CallsAfterReset(o) \in [Resources -> Nat]
    BY DEF CallsAfterReset
  <2>1. ASSUME NEW o \in Objects, NEW r \in Resources, Construct(o, r)
        PROVE ResourceTypeOK'
    BY <2>1 DEF Construct
  <2>2. ASSUME NEW o \in Objects, Destroy(o) PROVE ResourceTypeOK'
    BY <2>0, <2>2 DEF Destroy
  <2>3. ASSUME NEW o \in Objects, NEW other \in Objects, MoveConstruct(o, other)
        PROVE ResourceTypeOK'
    BY <2>3 DEF MoveConstruct
  <2>4. ASSUME NEW o \in Objects, NEW other \in Objects, MoveAssign(o, other)
        PROVE ResourceTypeOK'
    BY <2>0, <2>4 DEF MoveAssign
  <2>5. ASSUME NEW o \in Objects, Reset(o) PROVE ResourceTypeOK'
    BY <2>0, <2>5 DEF Reset
  <2>6. ASSUME NEW o \in Objects, NEW r \in Resources, ResetTo(o, r)
        PROVE ResourceTypeOK'
    BY <2>0, <2>6 DEF ResetTo
  <2>7. ASSUME NEW o \in Objects, Release(o) PROVE ResourceTypeOK'
    BY <2>7 DEF Release
  <2>8. CASE UNCHANGED resourceVars
    BY <2>8 DEF resourceVars
  <2> QED
    BY <2>1, <2>2, <2>3, <2>4, <2>5, <2>6, <2>7, <2>8 DEF ResourceNext
<1> QED
  BY <1>1, <1>2, PTL DEF ResourceSpec

\* Every operation of the class preserves Ownership, which is inductive as it
\* stands: the deleter is only called on a resource some object owns, and such a
\* resource has not been deleted and has no second owner to delete it again.
LEMMA OwnershipStep ==
  ResourceTypeOK /\ Ownership /\ [ResourceNext]_resourceVars => Ownership'
<1> SUFFICES ASSUME ResourceTypeOK, Ownership, [ResourceNext]_resourceVars PROVE Ownership'
  OBVIOUS
<1> USE DEF ResourceTypeOK, Ownership, UniqueOwner, DeletedOnce, NoLeak, Owns
<1>1. ASSUME NEW o \in Objects, NEW r \in Resources, Construct(o, r) PROVE Ownership'
  BY <1>1 DEF Construct
<1>2. ASSUME NEW o \in Objects, Destroy(o) PROVE Ownership'
  BY <1>2 DEF Destroy, CallsAfterReset
<1>3. ASSUME NEW o \in Objects, NEW other \in Objects, MoveConstruct(o, other)
      PROVE Ownership'
  BY <1>3 DEF MoveConstruct
<1>4. ASSUME NEW o \in Objects, NEW other \in Objects, MoveAssign(o, other)
      PROVE Ownership'
  BY <1>4 DEF MoveAssign, CallsAfterReset
<1>5. ASSUME NEW o \in Objects, Reset(o) PROVE Ownership'
  BY <1>5 DEF Reset, CallsAfterReset
<1>6. ASSUME NEW o \in Objects, NEW r \in Resources, ResetTo(o, r) PROVE Ownership'
  BY <1>6 DEF ResetTo, CallsAfterReset
<1>7. ASSUME NEW o \in Objects, Release(o) PROVE Ownership'
  BY <1>7 DEF Release
<1>8. CASE UNCHANGED resourceVars
  BY <1>8 DEF resourceVars
<1> QED
  BY <1>1, <1>2, <1>3, <1>4, <1>5, <1>6, <1>7, <1>8 DEF ResourceNext

\* A resource has one owner at most, is deleted once at most, and is not leaked
\* but by a reset(T) whose deleter call throws.
THEOREM OwnershipHolds == ResourceSpec => []Ownership
<1>1. ResourceInit => Ownership
  BY DEF ResourceInit, Ownership, UniqueOwner, DeletedOnce, NoLeak, Owns
<1>2. ResourceTypeOK /\ Ownership /\ [ResourceNext]_resourceVars => Ownership'
  BY OwnershipStep
<1> QED
  BY <1>1, <1>2, TypeCorrect, PTL DEF ResourceSpec

-----------------------------------------------------------------------------
(* The programs: echo_server and simple_http_server.                       *)

Token == (Clients \cup {"greeting", "400", "404", "200"}) \X Nat

\* The client is the one being served.
Active(c) == c = conn /\ at \notin {"accept", "ended"}
Waiting(c) == \E n \in 1 .. Len(backlog) : backlog[n] = c

\* How many tokens c has been sent.
Back(c) == Len(got[c]) + Len(down[c])

\* s is what c sends behind its first k tokens.
Run(c, s, k) == \A n \in 1 .. Len(s) : s[n] = <<c, k + n>>

PTypes ==
  /\ program \in {"echo", "http"}
  /\ ask \in [Clients -> Requests \cup {"bytes"}]
  /\ program = "http" => ask \in [Clients -> Requests]
  /\ at \in {"accept", "echo", "line", "fields", "body", "write", "close", "ended"}
  /\ conn \in Clients
  /\ in \in Seq(Token) /\ out \in Seq(Token) /\ hold \in Seq(Token)
  /\ Len(in) <= Buf /\ Len(out) <= Buf /\ Len(hold) <= 1
  /\ counter \in Nat /\ log \in Seq(Clients) /\ backlog \in Seq(Clients) /\ closed \subseteq Clients
  /\ up \in [Clients -> Seq(Token)] /\ down \in [Clients -> Seq(Token)] /\ got \in [Clients -> Seq(Token)]
  /\ sent \in [Clients -> Nat] /\ side \in [Clients -> {"new", "open", "shut", "gone"}]
  /\ \A c \in Clients : Len(up[c]) <= Queue /\ Len(down[c]) <= Queue /\ sent[c] <= Size(c)

\* A client that was not accepted yet: what it sent waits in the kernel.
Fresh ==
  /\ \A c \in Clients : side[c] = "new" \/ Waiting(c) =>
       /\ ~Active(c) /\ got[c] = <<>> /\ down[c] = <<>>
       /\ Run(c, up[c], 0) /\ Len(up[c]) = sent[c]
  /\ \A m, n \in 1 .. Len(backlog) : backlog[m] = backlog[n] => m = n
  /\ \A n \in 1 .. Len(backlog) : side[backlog[n]] # "new"

\* The n tokens c has sent: the first a are on their way back to it or there,
\* behind them come those of o, h, i and u.
Linked(c, a, o, h, i, u, n) ==
  \E b, d, e \in Nat :
    /\ Run(c, o, a) /\ b = a + Len(o)
    /\ Run(c, h, b) /\ d = b + Len(h)
    /\ Run(c, i, d) /\ e = d + Len(i)
    /\ Run(c, u, e) /\ n = e + Len(u)

\* The bytes of the client being served, from the client to its answers.
Chain ==
  /\ Linked(conn, Back(conn), out, hold, in, up[conn], sent[conn])
  /\ at # "write" => hold = <<>>

EchoInv ==
  program = "echo" =>
    /\ at \notin {"line", "fields", "body"}
    /\ \A c \in Clients : Run(c, got[c], 0) /\ Run(c, down[c], Len(got[c]))
                          /\ Back(c) <= sent[c]
    /\ Active(conn) /\ side[conn] # "gone" => Chain

\* The resets in the log, and that there is a last one.
Resets == {n \in 1 .. Len(log) : ask[log[n]] = "reset"}
LatestReset == Resets = {} \/ \E n \in Resets : \A m \in Resets : n >= m

\* Everything in s answers the request of c.
AllAnswer(c, s) == \A n \in 1 .. Len(s) : s[n] \in Answers(c)

HttpInv ==
  program = "http" =>
    /\ at # "echo"
    /\ counter = CountAfter(Len(log)) /\ LatestReset
    /\ \A c \in Clients : AllAnswer(c, got[c]) /\ AllAnswer(c, down[c]) /\ Back(c) <= 1
    /\ Active(conn) => /\ hold = <<>> /\ AllAnswer(conn, out)
                       /\ Len(out) + Back(conn) <= 1
    /\ at \in {"line", "fields", "body"} => out = <<>> /\ got[conn] = <<>> /\ down[conn] = <<>>
    /\ at = "body" => ask[conn] \in {"reset", "badBody"}

\* A client whose connection was closed is not served again.
Done == \A c \in closed : ~Active(c) /\ ~Waiting(c) /\ side[c] # "new"

PInv == PTypes /\ Fresh /\ EchoInv /\ HttpInv

LEMMA ProgTypes ==
  /\ Buf \in Nat \ {0} /\ Queue \in Nat \ {0} /\ EchoBytes \in Nat /\ ResetCount \in Nat
  /\ Behind \in Nat
  /\ Requests \subseteq {"greet", "reset", "badBody", "unknown", "malformed", "coded"}
BY ProgramsAssumption

LEMMA SizeType == \A c \in Clients : Size(c) \in Nat
<1> SUFFICES ASSUME NEW c \in Clients PROVE Size(c) \in Nat
  OBVIOUS
<1>1. EchoBytes \in Nat /\ Behind \in Nat
  BY ProgTypes
<1>2. Reads(c) \in Nat
  BY <1>1 DEF Reads
<1> QED
  BY <1>1, <1>2 DEF Size

\* What the operations on a sequence of tokens do.
LEMMA TokenTail ==
  ASSUME NEW s \in Seq(Token), s # <<>>
  PROVE  /\ Tail(s) \in Seq(Token) /\ Len(s) \in Nat \ {0} /\ Len(Tail(s)) = Len(s) - 1
         /\ Head(s) \in Token /\ Head(s) = s[1]
         /\ \A n \in 1 .. Len(Tail(s)) : Tail(s)[n] = s[n + 1]
<1>1. Len(s) \in Nat \ {0}
  BY EmptySeq, LenProperties
<1> QED
  BY <1>1, HeadTailProperties

LEMMA TokenAppend ==
  ASSUME NEW s \in Seq(Token), NEW e \in Token
  PROVE  /\ Append(s, e) \in Seq(Token) /\ Len(s) \in Nat /\ Len(Append(s, e)) = Len(s) + 1
         /\ \A n \in 1 .. Len(s) : Append(s, e)[n] = s[n]
         /\ Append(s, e)[Len(s) + 1] = e
<1>1. Len(s) \in Nat
  BY LenProperties
<1> QED
  BY <1>1, AppendProperties

LEMMA TokenFront ==
  ASSUME NEW s \in Seq(Token), NEW k \in 0 .. Len(s)
  PROVE  /\ SubSeq(s, 1, k) \in Seq(Token) /\ Len(SubSeq(s, 1, k)) = k
         /\ \A n \in 1 .. k : SubSeq(s, 1, k)[n] = s[n]
<1>1. Len(s) \in Nat
  BY LenProperties
<1>2. \A n \in 1 .. k : s[n] \in Token
  BY <1>1, ElementOfSeq
<1> QED
  BY <1>1, <1>2, SubSeqProperties

LEMMA TokenBack ==
  ASSUME NEW s \in Seq(Token), NEW k \in 0 .. Len(s)
  PROVE  /\ SubSeq(s, k + 1, Len(s)) \in Seq(Token) /\ Len(SubSeq(s, k + 1, Len(s))) = Len(s) - k
         /\ \A n \in 1 .. Len(s) - k : SubSeq(s, k + 1, Len(s))[n] = s[k + n]
<1>1. Len(s) \in Nat
  BY LenProperties
<1>2. \A n \in k + 1 .. Len(s) : s[n] \in Token
  BY <1>1, ElementOfSeq
<1>3. /\ SubSeq(s, k + 1, Len(s)) \in Seq(Token)
      /\ Len(SubSeq(s, k + 1, Len(s))) = IF k + 1 <= Len(s) THEN Len(s) - (k + 1) + 1 ELSE 0
      /\ \A n \in 1 .. Len(s) - (k + 1) + 1 : SubSeq(s, k + 1, Len(s))[n] = s[k + 1 + n - 1]
  BY <1>1, <1>2, SubSeqProperties
<1>4. Len(SubSeq(s, k + 1, Len(s))) = Len(s) - k
  BY <1>1, <1>3
<1>5. ASSUME NEW n \in 1 .. Len(s) - k PROVE SubSeq(s, k + 1, Len(s))[n] = s[k + n]
  <2>1. n \in 1 .. Len(s) - (k + 1) + 1 /\ k + 1 + n - 1 = k + n
    BY <1>1
  <2> QED
    BY <1>3, <2>1
<1> QED
  BY <1>3, <1>4, <1>5

LEMMA RunAppend ==
  ASSUME NEW c \in Clients, NEW s \in Seq(Token), NEW k \in Nat, Run(c, s, k)
  PROVE  Run(c, Append(s, <<c, k + Len(s) + 1>>), k)
<1>1. <<c, k + Len(s) + 1>> \in Token
  BY LenProperties DEF Token
<1> QED
  BY <1>1, TokenAppend DEF Run

LEMMA RunTail ==
  ASSUME NEW c \in Clients, NEW s \in Seq(Token), NEW k \in Nat, Run(c, s, k), s # <<>>
  PROVE  Head(s) = <<c, k + 1>> /\ Run(c, Tail(s), k + 1)
<1>1. Head(s) = <<c, k + 1>>
  BY TokenTail DEF Run
<1>2. ASSUME NEW n \in 1 .. Len(Tail(s)) PROVE Tail(s)[n] = <<c, k + 1 + n>>
  <2>1. n + 1 \in 1 .. Len(s) /\ Tail(s)[n] = s[n + 1] /\ k + (n + 1) = k + 1 + n
    BY TokenTail
  <2> QED
    BY <2>1 DEF Run
<1> QED
  BY <1>1, <1>2 DEF Run

LEMMA RunSplit ==
  ASSUME NEW c \in Clients, NEW s \in Seq(Token), NEW k \in Nat, NEW j \in 0 .. Len(s), Run(c, s, k)
  PROVE  Run(c, SubSeq(s, 1, j), k) /\ Run(c, SubSeq(s, j + 1, Len(s)), k + j)
<1>1. Len(s) \in Nat
  BY LenProperties
<1>2. Run(c, SubSeq(s, 1, j), k)
  BY <1>1, TokenFront DEF Run
<1>3. ASSUME NEW n \in 1 .. Len(s) - j PROVE SubSeq(s, j + 1, Len(s))[n] = <<c, k + j + n>>
  <2>1. j + n \in 1 .. Len(s) /\ k + (j + n) = k + j + n
    BY <1>1
  <2> QED
    BY <2>1, TokenBack DEF Run
<1> QED
  BY <1>1, <1>2, <1>3, TokenBack DEF Run

LEMMA RunEmpty == \A c, k : Run(c, <<>>, k)
BY DEF Run

\* The log only grows, so an answer that was right stays right.
LEMMA CountKept ==
  ASSUME PTypes, log' = Append(log, conn), ask' = ask
  PROVE  /\ \A n \in 0 .. Len(log) : CountAfter(n)' = CountAfter(n)
         /\ \A c \in Clients : Answers(c) \subseteq Answers(c)'
         /\ Len(log') = Len(log) + 1 /\ Len(log) \in Nat /\ log'[Len(log) + 1] = conn
<1>1. /\ log \in Seq(Clients) /\ conn \in Clients /\ Len(log) \in Nat /\ Len(log') = Len(log) + 1
      /\ log'[Len(log) + 1] = conn /\ \A n \in 1 .. Len(log) : log'[n] = log[n]
  BY LenProperties, AppendProperties DEF PTypes
<1>2. ASSUME NEW n \in 0 .. Len(log) PROVE CountAfter(n)' = CountAfter(n)
  <2>1. {m \in 1 .. n : ask'[log'[m]] = "reset"} = {m \in 1 .. n : ask[log[m]] = "reset"}
    BY <1>1
  <2> QED
    BY <2>1 DEF CountAfter
<1>3. DOMAIN log = 1 .. Len(log) /\ DOMAIN log' = 1 .. Len(log) + 1
  <2>1. log' \in Seq(Clients)
    BY <1>1, AppendProperties
  <2> QED
    BY <1>1, <2>1, LenProperties
<1>4. ASSUME NEW c \in Clients PROVE Answers(c) \subseteq Answers(c)'
  <2>1. {m \in DOMAIN log : log[m] = c} \subseteq {m \in DOMAIN log' : log'[m] = c}
    BY <1>1, <1>3
  <2>2. \A m \in DOMAIN log : CountAfter(m)' = CountAfter(m)
    BY <1>2, <1>3
  <2>3. {<<"greeting", CountAfter(m)>> : m \in {j \in DOMAIN log : log[j] = c}}
        \subseteq {<<"greeting", CountAfter(m)>> : m \in {j \in DOMAIN log : log[j] = c}}'
    BY <2>1, <2>2
  <2>4. {<<"200", 0>> : m \in {j \in DOMAIN log : log[j] = c}}
        \subseteq {<<"200", 0>> : m \in {j \in DOMAIN log' : log'[j] = c}}
    BY <2>1
  <2> QED
    BY <2>3, <2>4 DEF Answers
<1> QED
  BY <1>1, <1>2, <1>4

LEMMA AnswersSame ==
  ASSUME log' = log, ask' = ask
  PROVE  /\ \A c : Answers(c)' = Answers(c)
         /\ \A n : CountAfter(n)' = CountAfter(n)
         /\ LatestReset' = LatestReset
<1>1. \A n : CountAfter(n)' = CountAfter(n)
  BY DEF CountAfter
<1> QED
  BY <1>1 DEF Answers, Resets, LatestReset

-----------------------------------------------------------------------------
(* How a step moves a token on its way through the echo.                   *)

LEMMA LinkBound ==
  ASSUME NEW c, NEW a \in Nat, NEW o \in Seq(Token), NEW h \in Seq(Token), NEW i \in Seq(Token),
         NEW u \in Seq(Token), NEW n, Linked(c, a, o, h, i, u, n)
  PROVE  n \in Nat /\ a + Len(o) <= n
<1>1. Len(o) \in Nat /\ Len(h) \in Nat /\ Len(i) \in Nat /\ Len(u) \in Nat
  BY LenProperties
<1> QED
  BY <1>1 DEF Linked

LEMMA LinkStart ==
  ASSUME NEW c \in Clients, NEW u \in Seq(Token), Run(c, u, 0)
  PROVE  Linked(c, 0, <<>>, <<>>, <<>>, u, Len(u))
<1>1. Len(<<>>) = 0 /\ Len(u) \in Nat /\ 0 \in Nat /\ \A k : Run(c, <<>>, k)
  BY LenProperties, RunEmpty
<1> QED
  BY <1>1 DEF Linked

LEMMA LinkFill ==
  ASSUME NEW c \in Clients, NEW a \in Nat, NEW o, NEW h, NEW u \in Seq(Token), NEW n,
         NEW k \in 0 .. Len(u), Linked(c, a, o, h, <<>>, u, n)
  PROVE  Linked(c, a, o, h, SubSeq(u, 1, k), SubSeq(u, k + 1, Len(u)), n)
<1>1. PICK b, d, e \in Nat : /\ Run(c, o, a) /\ b = a + Len(o) /\ Run(c, h, b) /\ d = b + Len(h)
                             /\ e = d /\ Run(c, u, d) /\ n = d + Len(u)
  BY DEF Linked
<1>2. /\ Run(c, SubSeq(u, 1, k), d) /\ Run(c, SubSeq(u, k + 1, Len(u)), d + k)
      /\ Len(SubSeq(u, 1, k)) = k /\ Len(SubSeq(u, k + 1, Len(u))) = Len(u) - k
  BY <1>1, RunSplit, TokenFront, TokenBack
<1>3. d + k \in Nat /\ n = (d + k) + (Len(u) - k)
  BY <1>1, LenProperties
<1> QED
  BY <1>1, <1>2, <1>3 DEF Linked

LEMMA LinkPut ==
  ASSUME NEW c \in Clients, NEW a \in Nat, NEW o \in Seq(Token), NEW i \in Seq(Token), NEW u, NEW n,
         i # <<>>, Linked(c, a, o, <<>>, i, u, n)
  PROVE  Linked(c, a, Append(o, Head(i)), <<>>, Tail(i), u, n)
<1>0. PICK b, d, e \in Nat : /\ Run(c, o, a) /\ b = a + Len(o) /\ d = b + Len(<<>>)
                             /\ Run(c, i, d) /\ e = d + Len(i) /\ Run(c, u, e) /\ n = e + Len(u)
  BY DEF Linked
<1>1. /\ Run(c, o, a) /\ b = a + Len(o) /\ d = b
      /\ Run(c, i, b) /\ e = b + Len(i) /\ Run(c, u, e) /\ n = e + Len(u)
  BY <1>0
<1>2. Head(i) = <<c, b + 1>> /\ Run(c, Tail(i), b + 1)
  BY <1>1, RunTail
<1>3. Run(c, Append(o, Head(i)), a)
  BY <1>1, <1>2, RunAppend
<1>4. /\ Len(Append(o, Head(i))) = Len(o) + 1 /\ Len(Tail(i)) = Len(i) - 1
      /\ Len(o) \in Nat /\ Len(i) \in Nat
  BY TokenAppend, TokenTail
<1>5. /\ b + 1 \in Nat /\ b + 1 = a + Len(Append(o, Head(i))) /\ Len(<<>>) = 0
      /\ e = (b + 1) + Len(Tail(i))
  BY <1>1, <1>4
<1>6. \E x, y, z \in Nat :
        /\ Run(c, Append(o, Head(i)), a) /\ x = a + Len(Append(o, Head(i)))
        /\ Run(c, <<>>, x) /\ y = x + Len(<<>>)
        /\ Run(c, Tail(i), y) /\ z = y + Len(Tail(i))
        /\ Run(c, u, z) /\ n = z + Len(u)
  BY <1>1, <1>2, <1>3, <1>5, RunEmpty
<1> QED
  BY <1>6 DEF Linked

LEMMA LinkHold ==
  ASSUME NEW c \in Clients, NEW a \in Nat, NEW o \in Seq(Token), NEW i \in Seq(Token), NEW u, NEW n,
         i # <<>>, Linked(c, a, o, <<>>, i, u, n)
  PROVE  Linked(c, a, o, <<Head(i)>>, Tail(i), u, n)
<1>0. PICK b, d, e \in Nat : /\ Run(c, o, a) /\ b = a + Len(o) /\ d = b + Len(<<>>)
                             /\ Run(c, i, d) /\ e = d + Len(i) /\ Run(c, u, e) /\ n = e + Len(u)
  BY DEF Linked
<1>1. /\ Run(c, o, a) /\ b = a + Len(o) /\ d = b
      /\ Run(c, i, b) /\ e = b + Len(i) /\ Run(c, u, e) /\ n = e + Len(u)
  BY <1>0
<1>2. Head(i) = <<c, b + 1>> /\ Run(c, Tail(i), b + 1)
  BY <1>1, RunTail
<1>3. Run(c, <<Head(i)>>, b) /\ Len(<<Head(i)>>) = 1
  BY <1>2 DEF Run
<1>4. Len(Tail(i)) = Len(i) - 1 /\ Len(i) \in Nat
  BY TokenTail
<1>5. b + 1 \in Nat /\ e = (b + 1) + Len(Tail(i))
  BY <1>1, <1>4
<1> QED
  BY <1>1, <1>2, <1>3, <1>5 DEF Linked

LEMMA LinkWrite ==
  ASSUME NEW c \in Clients, NEW a \in Nat, NEW o \in Seq(Token), NEW h, NEW i, NEW u, NEW n,
         o # <<>>, Linked(c, a, o, h, i, u, n)
  PROVE  Head(o) = <<c, a + 1>> /\ Linked(c, a + 1, Tail(o), h, i, u, n)
<1>1. PICK b, d, e \in Nat : /\ Run(c, o, a) /\ b = a + Len(o) /\ Run(c, h, b) /\ d = b + Len(h)
                             /\ Run(c, i, d) /\ e = d + Len(i) /\ Run(c, u, e) /\ n = e + Len(u)
  BY DEF Linked
<1>2. Head(o) = <<c, a + 1>> /\ Run(c, Tail(o), a + 1)
  BY <1>1, RunTail
<1>3. Len(Tail(o)) = Len(o) - 1 /\ Len(o) \in Nat
  BY TokenTail
<1>4. b = a + 1 + Len(Tail(o))
  BY <1>1, <1>3
<1> QED
  BY <1>1, <1>2, <1>4 DEF Linked

LEMMA LinkWritten ==
  ASSUME NEW c \in Clients, NEW a \in Nat, NEW h \in Seq(Token), NEW i, NEW u, NEW n,
         Linked(c, a, <<>>, h, i, u, n)
  PROVE  Linked(c, a, h, <<>>, i, u, n)
<1>1. PICK b, d, e \in Nat : /\ b = a + Len(<<>>) /\ Run(c, h, b) /\ d = b + Len(h)
                             /\ Run(c, i, d) /\ e = d + Len(i) /\ Run(c, u, e) /\ n = e + Len(u)
  BY DEF Linked
<1>2. b = a /\ d = d + Len(<<>>) /\ Run(c, <<>>, d)
  BY <1>1, RunEmpty
<1> QED
  BY <1>1, <1>2 DEF Linked

LEMMA LinkSend ==
  ASSUME NEW c \in Clients, NEW a \in Nat, NEW o, NEW h, NEW i, NEW u \in Seq(Token), NEW n,
         Linked(c, a, o, h, i, u, n)
  PROVE  Linked(c, a, o, h, i, Append(u, <<c, n + 1>>), n + 1)
<1>1. PICK b, d, e \in Nat : /\ Run(c, o, a) /\ b = a + Len(o) /\ Run(c, h, b) /\ d = b + Len(h)
                             /\ Run(c, i, d) /\ e = d + Len(i) /\ Run(c, u, e) /\ n = e + Len(u)
  BY DEF Linked
<1>2. Run(c, Append(u, <<c, n + 1>>), e)
  BY <1>1, RunAppend
<1>3. <<c, n + 1>> \in Token /\ Len(u) \in Nat
  BY <1>1, LenProperties DEF Token
<1>4. Len(Append(u, <<c, n + 1>>)) = Len(u) + 1
  BY <1>3, TokenAppend
<1>5. n + 1 = e + Len(Append(u, <<c, n + 1>>))
  BY <1>1, <1>3, <1>4
<1> QED
  BY <1>1, <1>2, <1>5 DEF Linked

LEMMA BackNat == PTypes => conn \in Clients /\ \A c \in Clients : Back(c) \in Nat
BY DEF PTypes, Back

LEMMA BackSame == got' = got /\ down' = down => \A c : Back(c)' = Back(c)
BY DEF Back

\* A step for the client being served leaves the ones that wait alone.
LEMMA FreshKept ==
  ASSUME PTypes, Fresh, at \notin {"accept", "ended"}, UNCHANGED <<conn, backlog, side, sent, got>>,
         \A c \in Clients : c # conn => up'[c] = up[c] /\ down'[c] = down[c]
  PROVE  Fresh'
<1>1. Active(conn) /\ conn \in Clients
  BY DEF Active, PTypes
<1>2. ASSUME NEW c \in Clients, side[c] = "new" \/ Waiting(c)
      PROVE  /\ ~Active(c)' /\ got'[c] = <<>> /\ down'[c] = <<>>
             /\ Run(c, up'[c], 0) /\ Len(up'[c]) = sent'[c]
  <2>1. c # conn
    BY <1>1, <1>2 DEF Fresh
  <2> QED
    BY <1>2, <2>1 DEF Fresh, Active
<1>3. \A c \in Clients : (side[c] = "new" \/ Waiting(c))' <=> (side[c] = "new" \/ Waiting(c))
  BY DEF Waiting
<1>4. \A c \in Clients : (side[c] = "new" \/ Waiting(c))' =>
        ~Active(c)' /\ got'[c] = <<>> /\ down'[c] = <<>> /\ Run(c, up'[c], 0) /\ Len(up'[c]) = sent'[c]
  BY <1>2, <1>3
<1>5. /\ \A m, n \in 1 .. Len(backlog') : backlog'[m] = backlog'[n] => m = n
      /\ \A n \in 1 .. Len(backlog') : side'[backlog'[n]] # "new"
  BY DEF Fresh
<1>6. \A c \in Clients : Run(c, up[c], 0)' <=> Run(c, up'[c], 0)
  BY DEF Run
<1> QED
  BY <1>4, <1>5, <1>6 DEF Fresh

\* What the clients hold keeps its right form if no program runs into it.
LEMMA GotKept ==
  ASSUME PTypes, EchoInv, HttpInv, program' = program, ask' = ask, got' = got, down' = down, sent' = sent,
         \A c \in Clients : Answers(c) \subseteq Answers(c)'
  PROVE  /\ program = "echo" => \A c \in Clients :
              (Run(c, got[c], 0) /\ Run(c, down[c], Len(got[c])) /\ Back(c) <= sent[c])'
         /\ program = "http" => \A c \in Clients :
              (AllAnswer(c, got[c]) /\ AllAnswer(c, down[c]) /\ Back(c) <= 1)'
<1>1. program = "echo" => \A c \in Clients :
              (Run(c, got[c], 0) /\ Run(c, down[c], Len(got[c])) /\ Back(c) <= sent[c])'
  BY DEF EchoInv, Run, Back
<1>2. program = "http" => \A c \in Clients :
              (AllAnswer(c, got[c]) /\ AllAnswer(c, down[c]) /\ Back(c) <= 1)'
  BY DEF HttpInv, AllAnswer, Back
<1> QED
  BY <1>1, <1>2

LEMMA LenTypes ==
  ASSUME PTypes
  PROVE  /\ Len(in) \in Nat /\ Len(out) \in Nat /\ Len(hold) \in Nat
         /\ \A c \in Clients : /\ Len(up[c]) \in Nat /\ Len(down[c]) \in Nat /\ Len(got[c]) \in Nat
                               /\ up[c] \in Seq(Token) /\ down[c] \in Seq(Token) /\ got[c] \in Seq(Token)
                               /\ sent[c] \in Nat
         /\ Len(backlog) \in Nat /\ Len(log) \in Nat
BY LenProperties DEF PTypes

-----------------------------------------------------------------------------
(* The steps of the server.                                                *)

LEMMA FillKeeps == ASSUME PInv, NEW k \in 1 .. Buf, Fill(k) PROVE PInv'
<1>1. /\ PTypes /\ Fresh /\ EchoInv /\ HttpInv /\ at \in {"echo", "line", "fields", "body"} /\ in = <<>>
      /\ k \in 0 .. Len(up[conn]) /\ conn \in Clients /\ up[conn] \in Seq(Token)
      /\ in' = SubSeq(up[conn], 1, k)
      /\ up' = [up EXCEPT ![conn] = SubSeq(up[conn], k + 1, Len(up[conn]))]
      /\ UNCHANGED <<program, ask, at, conn, out, hold, counter, log, backlog, closed, down, sent, side, got>>
  <2>1. k <= Len(up[conn]) /\ conn \in Clients
    BY DEF PInv, PTypes, Fill
  <2>2. Len(up[conn]) \in Nat /\ k \in Nat
    BY <2>1, LenTypes, ProgTypes DEF PInv
  <2> QED
    BY <2>1, <2>2, LenTypes DEF PInv, Fill, Reading, clients
<1>2. /\ in' \in Seq(Token) /\ Len(in') = k
      /\ up'[conn] \in Seq(Token) /\ Len(up'[conn]) = Len(up[conn]) - k
      /\ \A c \in Clients : c # conn => up'[c] = up[c]
  BY <1>1, TokenFront, TokenBack DEF PTypes
<1>3. PTypes'
  <2>1. up' \in [Clients -> Seq(Token)]
    BY <1>1, <1>2 DEF PTypes
  <2>2. \A c \in Clients : Len(up'[c]) <= Queue
    <3>1. Len(up[conn]) <= Queue /\ Len(up[conn]) \in Nat /\ k \in Nat /\ Queue \in Nat
      BY <1>1, LenTypes, ProgTypes DEF PTypes
    <3> QED
      BY <1>1, <1>2, <3>1 DEF PTypes
  <2>3. Len(in') <= Buf
    BY <1>2, ProgTypes
  <2>4. \A c \in Clients : Size(c)' = Size(c)
    BY <1>1 DEF Size, Reads
  <2> QED
    BY <1>1, <1>2, <2>1, <2>2, <2>3, <2>4 DEF PTypes
<1>4. Fresh'
  BY <1>1, <1>2, FreshKept
<1>5. \A c \in Clients : Answers(c) \subseteq Answers(c)'
  BY <1>1, AnswersSame
<1>6. EchoInv'
  <2> SUFFICES ASSUME program = "echo" PROVE EchoInv'
    BY <1>1 DEF EchoInv
  <2>1. (Active(conn) /\ side[conn] # "gone" => Chain)'
    <3> SUFFICES ASSUME side[conn] # "gone" PROVE Chain'
      BY <1>1
    <3>1. Chain
      BY <1>1 DEF EchoInv, Active
    <3>2. Linked(conn, Back(conn), out, hold, in', up'[conn], sent[conn])
      BY <1>1, <1>2, <3>1, LinkFill, BackNat DEF Chain, PTypes
    <3>3. Chain'
      BY <1>1, <3>1, <3>2 DEF Chain, Back
    <3> QED
      BY <3>3
  <2>2. \A c \in Clients :
            (Run(c, got[c], 0) /\ Run(c, down[c], Len(got[c])) /\ Back(c) <= sent[c])'
    BY <1>1, <1>5, GotKept
  <2> QED
    BY <1>1, <2>1, <2>2 DEF EchoInv, Back
<1>7. HttpInv'
  BY <1>1, AnswersSame DEF HttpInv, AllAnswer, Active, Back
<1> QED
  BY <1>3, <1>4, <1>6, <1>7 DEF PInv

\* A step that moves nothing between the stream and the kernel keeps the
\* invariant if it leaves the stream itself in order.
LEMMA StreamStep ==
  ASSUME PInv, at \notin {"accept", "ended"},
         UNCHANGED <<program, ask, conn, backlog, closed, up, down, sent, side, got>>,
         at' \in {"echo", "line", "fields", "body", "write", "close", "ended"},
         in' \in Seq(Token), out' \in Seq(Token), hold' \in Seq(Token),
         Len(in') <= Buf, Len(out') <= Buf, Len(hold') <= 1,
         counter' \in Nat, log' \in Seq(Clients),
         \A c \in Clients : Answers(c) \subseteq Answers(c)',
         program = "echo" => /\ at' \notin {"line", "fields", "body"}
                             /\ side[conn] # "gone" /\ at' # "ended" => Chain',
         program = "http" =>
           /\ at' # "echo" /\ counter' = CountAfter(Len(log))' /\ LatestReset'
           /\ hold' = <<>> /\ AllAnswer(conn, out)' /\ Len(out') + Back(conn) <= 1
           /\ at' \in {"line", "fields", "body"} => out' = <<>> /\ got[conn] = <<>> /\ down[conn] = <<>>
           /\ at' = "body" => ask[conn] \in {"reset", "badBody"}
  PROVE  PInv'
<1>1. PTypes /\ Fresh /\ EchoInv /\ HttpInv /\ \A c \in Clients : Size(c)' = Size(c)
  BY DEF PInv, Size, Reads
<1>2. PTypes'
  BY <1>1 DEF PTypes
<1>3. Fresh'
  BY <1>1, FreshKept
<1>4. EchoInv'
  <2>1. program = "echo" => \A c \in Clients :
              (Run(c, got[c], 0) /\ Run(c, down[c], Len(got[c])) /\ Back(c) <= sent[c])'
    BY <1>1, GotKept
  <2> QED
    BY <2>1 DEF EchoInv, Active, Back
<1>5. HttpInv'
  <2>1. program = "http" => \A c \in Clients :
              (AllAnswer(c, got[c]) /\ AllAnswer(c, down[c]) /\ Back(c) <= 1)'
    BY <1>1, GotKept
  <2> QED
    BY <2>1 DEF HttpInv, Active, Back
<1> QED
  BY <1>2, <1>3, <1>4, <1>5 DEF PInv

LEMMA EchoKeeps == ASSUME PInv, Echo PROVE PInv'
<1>1. /\ PTypes /\ EchoInv /\ HttpInv /\ at = "echo" /\ in # <<>> /\ in' = Tail(in)
      /\ UNCHANGED <<program, ask, conn, counter, log, backlog, closed, up, down, sent, side, got>>
      /\ \/ Len(out) < Buf /\ at' = at /\ out' = Append(out, Head(in)) /\ hold' = hold
         \/ at' = "write" /\ out' = out /\ hold' = <<Head(in)>>
  BY DEF PInv, Echo, clients
<1>2. program = "echo"
  BY <1>1 DEF HttpInv, PTypes
<1>3. in \in Seq(Token) /\ out \in Seq(Token) /\ hold \in Seq(Token) /\ Len(out) <= Buf /\ Len(in) <= Buf
      /\ conn \in Clients
  BY <1>1 DEF PTypes
<1>4. /\ Tail(in) \in Seq(Token) /\ Head(in) \in Token /\ Len(in) \in Nat /\ Len(Tail(in)) = Len(in) - 1
      /\ Append(out, Head(in)) \in Seq(Token) /\ Len(Append(out, Head(in))) = Len(out) + 1 /\ Len(out) \in Nat
  BY <1>1, <1>3, TokenTail, TokenAppend
<1>5. <<Head(in)>> \in Seq(Token) /\ Len(<<Head(in)>>) = 1
  BY <1>4
<1>6. in' \in Seq(Token) /\ out' \in Seq(Token) /\ hold' \in Seq(Token)
      /\ Len(in') <= Buf /\ Len(out') <= Buf /\ Len(hold') <= 1
  <2>1. in' \in Seq(Token) /\ Len(in') <= Buf
    BY <1>1, <1>3, <1>4, ProgTypes
  <2>2. out' \in Seq(Token) /\ Len(out') <= Buf
    <3>1. CASE Len(out) < Buf /\ out' = Append(out, Head(in))
      BY <1>4, <3>1, ProgTypes
    <3> QED
      BY <1>1, <1>3, <3>1
  <2>3. hold' \in Seq(Token) /\ Len(hold') <= 1
    <3>1. hold \in Seq(Token) /\ Len(hold) <= 1 /\ Len(<<Head(in)>>) <= 1
      BY <1>1, <1>5 DEF PTypes
    <3> QED
      BY <1>1, <1>5, <3>1, Zenon
  <2> QED
    BY <2>1, <2>2, <2>3
<1>7. ASSUME side[conn] # "gone" PROVE Chain'
  <2>1. Chain /\ hold = <<>>
    BY <1>1, <1>2, <1>7 DEF EchoInv, Active, Chain
  <2>2. Back(conn) \in Nat
    BY <1>1, BackNat
  <2>3. Linked(conn, Back(conn), out, <<>>, in, up[conn], sent[conn])
    BY <2>1 DEF Chain
  <2>4. Linked(conn, Back(conn), Append(out, Head(in)), <<>>, Tail(in), up[conn], sent[conn])
    BY <1>1, <1>3, <2>2, <2>3, LinkPut
  <2>5. Linked(conn, Back(conn), out, <<Head(in)>>, Tail(in), up[conn], sent[conn])
    BY <1>1, <1>3, <2>2, <2>3, LinkHold
  <2>6. Linked(conn, Back(conn), out', hold', in', up[conn], sent[conn])
    BY <1>1, <2>1, <2>4, <2>5
  <2> QED
    BY <1>1, <2>1, <2>6 DEF Chain, Back
<1>8. \A c \in Clients : Answers(c) \subseteq Answers(c)'
  BY <1>1, AnswersSame
<1>9. at' \in {"echo", "write"} /\ counter' \in Nat /\ log' \in Seq(Clients)
  BY <1>1 DEF PTypes
<1>10. program # "http" /\ at \notin {"accept", "ended"}
  BY <1>1, <1>2
<1> QED
  BY <1>1, <1>2, <1>6, <1>7, <1>8, <1>9, <1>10, StreamStep

LEMMA WrittenKeeps == ASSUME PInv, Written PROVE PInv'
<1>1. /\ PTypes /\ EchoInv /\ HttpInv /\ at = "write" /\ out = <<>>
      /\ at' = IF program = "echo" THEN "echo" ELSE "close"
      /\ out' = hold /\ hold' = <<>>
      /\ UNCHANGED <<program, ask, conn, in, counter, log, backlog, closed, up, down, sent, side, got>>
  BY DEF PInv, Written, clients
<1>2. /\ in' \in Seq(Token) /\ out' \in Seq(Token) /\ hold' \in Seq(Token) /\ <<>> \in Seq(Token)
      /\ Len(in') <= Buf /\ Len(out') <= Buf /\ Len(hold') <= 1 /\ Len(<<>>) = 0 /\ conn \in Clients
      /\ hold \in Seq(Token) /\ counter' \in Nat /\ log' \in Seq(Clients)
  BY <1>1, LenTypes, ProgTypes DEF PTypes
<1>3. ASSUME program = "echo", side[conn] # "gone" PROVE Chain'
  <2>1. Chain
    BY <1>1, <1>3 DEF EchoInv, Active
  <2>2. Back(conn) \in Nat
    BY <1>1, BackNat
  <2>3. Linked(conn, Back(conn), <<>>, hold, in, up[conn], sent[conn])
    BY <1>1, <2>1 DEF Chain
  <2>4. Linked(conn, Back(conn), hold, <<>>, in, up[conn], sent[conn])
    BY <1>2, <2>2, <2>3, LinkWritten
  <2> QED
    BY <1>1, <2>4 DEF Chain, Back
<1>4. ASSUME program = "http"
      PROVE  /\ counter' = CountAfter(Len(log))' /\ LatestReset' /\ hold' = <<>> /\ AllAnswer(conn, out)'
             /\ Len(out') + Back(conn) <= 1
  <2>1. /\ hold = <<>> /\ counter = CountAfter(Len(log)) /\ LatestReset
        /\ Len(out) + Back(conn) <= 1
    BY <1>1, <1>4 DEF HttpInv, Active
  <2>2. AllAnswer(conn, out)'
    BY <1>1, <1>2, <2>1 DEF AllAnswer
  <2> QED
    BY <1>1, <2>1, <2>2, AnswersSame
<1>5. \A c \in Clients : Answers(c) \subseteq Answers(c)'
  BY <1>1, AnswersSame
<1>6. at' \in {"echo", "close"} /\ (program = "http" => at' = "close") /\ at \notin {"accept", "ended"}
  BY <1>1
<1> QED
  BY <1>1, <1>2, <1>3, <1>4, <1>5, <1>6, StreamStep

\* The steps of a request that write no answer, or one.
LEMMA ReplyRight ==
  ASSUME PInv, program = "http", at \in {"line", "fields", "body"}, NEW good \in BOOLEAN, NEW answer \in Token,
         Reply(good, answer), good => answer \in Answers(conn)', got' = got, down' = down, conn' = conn
  PROVE  /\ at' \in {"write", "close"} /\ out' \in Seq(Token) /\ Len(out') <= Buf
         /\ AllAnswer(conn, out)' /\ Len(out') + Back(conn) <= 1
<1>1. out = <<>> /\ got[conn] = <<>> /\ down[conn] = <<>>
  BY DEF PInv, HttpInv
<1>2. out' = IF good THEN <<answer>> ELSE <<>>
  BY <1>1 DEF Reply
<1>3. /\ <<answer>> \in Seq(Token) /\ <<>> \in Seq(Token) /\ Len(<<answer>>) = 1 /\ Len(<<>>) = 0
      /\ <<answer>>[1] = answer
  OBVIOUS
<1>4. out' \in Seq(Token) /\ Len(out') \in {0, 1} /\ (Len(out') = 1 => good /\ out'[1] = answer)
  BY <1>2, <1>3
<1>5. AllAnswer(conn, out)'
  BY <1>4 DEF AllAnswer
<1>6. at' \in {"write", "close"}
  BY DEF Reply
<1>7. Len(out') + Back(conn) <= 1
  <2>1. Back(conn) = 0
    BY <1>1 DEF Back
  <2> QED
    BY <1>4, <2>1
<1>8. Len(out') <= Buf
  <2>1. Buf \in Nat \ {0} /\ Len(out') \in {0, 1}
    BY <1>4, ProgTypes
  <2>2. \A k \in {0, 1} : k <= Buf
    BY <2>1
  <2> QED
    BY <2>1, <2>2, Zenon
<1> QED
  BY <1>4, <1>5, <1>6, <1>7, <1>8

\* An answer that is right: what the request asks for, or the greeting with the
\* count it has made.
LEMMA StatusRight ==
  ASSUME PTypes
  PROVE  /\ ask[conn] = "unknown" => <<"404", 0>> \in Answers(conn)
         /\ ask[conn] \in {"malformed", "badBody"} => <<"400", 0>> \in Answers(conn)
         /\ <<"404", 0>> \in Token /\ <<"400", 0>> \in Token /\ <<"200", 0>> \in Token
         /\ \A n \in Nat : <<"greeting", n>> \in Token
<1>1. ask[conn] = "unknown" => <<"404", 0>> \in Answers(conn)
  BY Zenon DEF Answers
<1>2. ASSUME ask[conn] \in {"malformed", "badBody"} PROVE <<"400", 0>> \in Answers(conn)
  <2>1. Answers(conn) = {<<"400", 0>>}
    BY <1>2 DEF Answers
  <2> QED
    BY <2>1
<1> QED
  BY <1>1, <1>2 DEF Token

\* The step of a request that only reads: in, and what Reply() or Route() does.
LEMMA RequestStep ==
  ASSUME PInv, program = "http", at \in {"line", "fields", "body"},
         in' \in Seq(Token), Len(in') <= Buf,
         UNCHANGED <<program, ask, conn, hold, backlog, closed, up, down, sent, side, got>>,
         counter' \in Nat, log' \in Seq(Clients), counter' = CountAfter(Len(log))', LatestReset',
         \A c \in Clients : Answers(c) \subseteq Answers(c)',
         \/ \E good \in BOOLEAN, answer \in Token : Reply(good, answer) /\ (good => answer \in Answers(conn)')
         \/ at' \in {"fields", "body", "ended"} /\ out' = out /\ (at' = "body" => ask[conn] \in {"reset", "badBody"})
  PROVE  PInv'
<1>1. PTypes /\ hold = <<>> /\ out = <<>> /\ got[conn] = <<>> /\ down[conn] = <<>>
  BY DEF PInv, HttpInv, Active, PTypes
<1>2. hold' \in Seq(Token) /\ Len(hold') <= 1
  BY <1>1 DEF PTypes
<1>3. /\ at' \in {"fields", "body", "write", "close", "ended"} /\ out' \in Seq(Token) /\ Len(out') <= Buf
      /\ AllAnswer(conn, out)' /\ Len(out') + Back(conn) <= 1
      /\ at' \in {"line", "fields", "body"} => out' = <<>>
      /\ at' = "body" => ask[conn] \in {"reset", "badBody"}
  <2>1. CASE \E good \in BOOLEAN, answer \in Token : Reply(good, answer) /\ (good => answer \in Answers(conn)')
    <3>1. PICK good \in BOOLEAN, answer \in Token : Reply(good, answer) /\ (good => answer \in Answers(conn)')
      BY <2>1
    <3>2. /\ at' \in {"write", "close"} /\ out' \in Seq(Token) /\ Len(out') <= Buf
          /\ AllAnswer(conn, out)' /\ Len(out') + Back(conn) <= 1
      BY <3>1, ReplyRight
    <3> QED
      BY <3>2
  <2>2. CASE at' \in {"fields", "body", "ended"} /\ out' = out
             /\ (at' = "body" => ask[conn] \in {"reset", "badBody"})
    <3>1. out' = <<>> /\ Back(conn) = 0 /\ Len(<<>>) = 0
      BY <1>1, <2>2 DEF Back
    <3>2. out' \in Seq(Token) /\ Len(out') <= Buf /\ Len(out') + Back(conn) <= 1 /\ AllAnswer(conn, out)'
      BY <3>1, ProgTypes DEF AllAnswer
    <3> QED
      BY <2>2, <3>1, <3>2
  <2> QED
    BY <2>1, <2>2
<1>4. /\ at \notin {"accept", "ended"} /\ program # "echo" /\ hold' = <<>> /\ at' # "echo"
      /\ at' \in {"echo", "line", "fields", "body", "write", "close", "ended"}
  BY <1>1, <1>3
<1> QED
  BY <1>1, <1>2, <1>3, <1>4, StreamStep

LEMMA ReadTypes ==
  ASSUME PTypes, in # <<>>, in' = Tail(in)
  PROVE  in' \in Seq(Token) /\ Len(in') <= Buf
<1>1. in \in Seq(Token) /\ Len(in) <= Buf /\ Buf \in Nat
  BY ProgTypes DEF PTypes
<1>2. Tail(in) \in Seq(Token) /\ Len(in) \in Nat \ {0} /\ Len(Tail(in)) = Len(in) - 1
  BY <1>1, TokenTail
<1> QED
  BY <1>1, <1>2

\* A greeting or a reset counts.
LEMMA Counted ==
  ASSUME PInv, program = "http", ask' = ask, log' = Append(log, conn),
         \/ ask[conn] = "greet" /\ counter' = counter + 1
         \/ ask[conn] = "reset" /\ counter' = ResetCount
  PROVE  /\ counter' \in Nat /\ log' \in Seq(Clients) /\ counter' = CountAfter(Len(log))' /\ LatestReset'
         /\ \A c \in Clients : Answers(c) \subseteq Answers(c)'
         /\ ask[conn] = "greet" /\ conn' = conn => <<"greeting", counter'>> \in Answers(conn)'
         /\ ask[conn] = "reset" /\ conn' = conn => <<"200", 0>> \in Answers(conn)'
<1>1. PTypes /\ counter = CountAfter(Len(log)) /\ LatestReset /\ counter \in Nat
  BY DEF PInv, HttpInv, PTypes
<1>2. /\ \A n \in 0 .. Len(log) : CountAfter(n)' = CountAfter(n)
      /\ \A c \in Clients : Answers(c) \subseteq Answers(c)'
      /\ Len(log') = Len(log) + 1 /\ Len(log) \in Nat /\ log'[Len(log) + 1] = conn
  BY <1>1, CountKept
<1>3. log' \in Seq(Clients) /\ conn \in Clients /\ \A n \in 1 .. Len(log) : log'[n] = log[n]
  BY <1>1, <1>2, AppendProperties DEF PTypes
<1>4. DOMAIN log' = 1 .. Len(log) + 1
  BY <1>2, <1>3, LenProperties
<1>5. counter' \in Nat
  BY <1>1, ProgTypes
<1>6. counter' = CountAfter(Len(log))' /\ LatestReset'
  <2> DEFINE old == {n \in 1 .. Len(log) : ask[log[n]] = "reset"}
             new == {n \in 1 .. Len(log') : ask[log'[n]] = "reset"}
  <2>0. old = Resets /\ new = Resets' /\ (old = {} \/ \E x \in old : \A y \in old : x >= y)
    BY <1>1 DEF Resets, LatestReset
  <2>1. CountAfter(Len(log)) = IF old = {} THEN Len(log) ELSE ResetCount + Len(log) - Max(old)
    BY DEF CountAfter
  <2>2. CountAfter(Len(log))' = IF new = {} THEN Len(log') ELSE ResetCount + Len(log') - Max(new)
    BY DEF CountAfter
  <2>3. CASE ask[conn] = "greet" /\ counter' = counter + 1
    <3>1. ASSUME NEW n \in 1 .. Len(log') PROVE n \in new <=> n \in old
      <4>1. CASE n = Len(log) + 1
        BY <1>2, <2>3, <4>1
      <4>2. CASE n # Len(log) + 1
        <5>1. n \in 1 .. Len(log)
          BY <1>2, <4>2
        <5> QED
          BY <1>3, <5>1
      <4> QED
        BY <4>1, <4>2
    <3>2. new = old
      <4>1. old \subseteq 1 .. Len(log')
        BY <1>2
      <4> QED
        BY <3>1, <4>1
    <3> HIDE DEF old, new
    <3>3. LatestReset'
      BY <2>0, <3>2 DEF LatestReset
    <3>4. CASE old = {}
      <4>1. CountAfter(Len(log)) = Len(log) /\ CountAfter(Len(log))' = Len(log')
        BY <2>1, <2>2, <3>2, <3>4
      <4> QED
        BY <1>1, <1>2, <2>3, <3>3, <4>1
    <3>5. CASE old # {}
      <4>1. Max(old) \in old
        BY <2>0, <3>5 DEF Max
      <4>2. old \subseteq 1 .. Len(log)
        BY DEF old
      <4>3. PICK m \in 1 .. Len(log) : m = Max(old)
        BY <4>1, <4>2
      <4>4. CountAfter(Len(log)) = ResetCount + Len(log) - m
            /\ CountAfter(Len(log))' = ResetCount + Len(log') - m
        BY <2>1, <2>2, <3>2, <3>5, <4>3
      <4>5. PICK x \in Nat, r \in Nat : x = Len(log) /\ r = ResetCount
        BY <1>2, ProgTypes
      <4>6. counter + 1 = r + (x + 1) - m
        BY <1>1, <4>4, <4>5
      <4> QED
        BY <1>2, <2>3, <3>3, <4>4, <4>5, <4>6
    <3> QED
      BY <3>4, <3>5
  <2>4. CASE ask[conn] = "reset" /\ counter' = ResetCount
    <3>1. Len(log') \in new /\ new \subseteq 1 .. Len(log')
      BY <1>2, <2>4
    <3> HIDE DEF new
    <3>2. Max(new) = Len(log')
      <4>1. \A x \in new : x \in Int /\ x <= Len(log')
        BY <1>2, <3>1
      <4>2. \E x \in new : \A y \in new : x >= y
        BY <1>2, <3>1, <4>1
      <4>3. Max(new) \in new /\ \A y \in new : Max(new) >= y
        BY <4>2 DEF Max
      <4>4. Max(new) <= Len(log') /\ Max(new) >= Len(log') /\ Max(new) \in Int /\ Len(log') \in Int
        BY <1>2, <3>1, <4>1, <4>3
      <4> QED
        BY <4>4
    <3>3. LatestReset'
      BY <1>2, <2>0, <3>1 DEF LatestReset
    <3> QED
      BY <1>2, <2>2, <2>4, <3>1, <3>2, <3>3, ProgTypes
  <2> QED
    BY <2>3, <2>4
<1>7. ASSUME ask[conn] = "greet", conn' = conn PROVE <<"greeting", counter'>> \in Answers(conn)'
  <2>1. Len(log') \in DOMAIN log' /\ log'[Len(log')] = conn
    BY <1>2, <1>4
  <2>2. Answers(conn)' = {<<"greeting", CountAfter(i)'>> : i \in {j \in DOMAIN log' : log'[j] = conn}}
    BY <1>7 DEF Answers
  <2> QED
    BY <1>6, <2>1, <2>2
<1>8. ASSUME ask[conn] = "reset", conn' = conn PROVE <<"200", 0>> \in Answers(conn)'
  <2>1. Len(log') \in DOMAIN log' /\ log'[Len(log')] = conn
    BY <1>2, <1>4
  <2>2. Answers(conn)' = {<<"200", 0>> : i \in {j \in DOMAIN log' : log'[j] = conn}}
    BY <1>8 DEF Answers
  <2> QED
    BY <2>1, <2>2
<1> QED
  BY <1>2, <1>3, <1>5, <1>6, <1>7, <1>8

LEMMA ReadLineKeeps == ASSUME PInv, ReadLine PROVE PInv'
<1>1. /\ PTypes /\ EchoInv /\ HttpInv /\ at = "line" /\ in # <<>> /\ in' = Tail(in)
      /\ UNCHANGED <<program, ask, conn, hold, counter, log, backlog, closed, up, down, sent, side, got>>
      /\ \/ ask[conn] = "malformed" /\ Reply(TRUE, <<"400", 0>>)
         \/ at' = "fields" /\ out' = out
  BY DEF PInv, ReadLine, clients
<1>2. program = "http" /\ at \in {"line", "fields", "body"}
  BY <1>1 DEF EchoInv, PTypes
<1>3. in' \in Seq(Token) /\ Len(in') <= Buf
  BY <1>1, ReadTypes
<1>4. /\ counter' \in Nat /\ log' \in Seq(Clients) /\ counter' = CountAfter(Len(log))' /\ LatestReset'
      /\ \A c \in Clients : Answers(c) \subseteq Answers(c)'
      /\ Answers(conn)' = Answers(conn)
  BY <1>1, <1>2, AnswersSame DEF PTypes, HttpInv
<1>5. CASE ask[conn] = "malformed" /\ Reply(TRUE, <<"400", 0>>)
  <2>1. <<"400", 0>> \in Token /\ <<"400", 0>> \in Answers(conn)'
    BY <1>1, <1>4, <1>5, StatusRight
  <2>2. \E good \in BOOLEAN, answer \in Token : Reply(good, answer) /\ (good => answer \in Answers(conn)')
    BY <1>5, <2>1
  <2> QED
    BY <1>1, <1>2, <1>3, <1>4, <2>2, RequestStep
<1>6. CASE at' = "fields" /\ out' = out
  BY <1>1, <1>2, <1>3, <1>4, <1>6, RequestStep
<1> QED
  BY <1>1, <1>5, <1>6

\* What request() does behind the header keeps the invariant, whole or not.
LEMMA RouteKeeps ==
  ASSUME PInv, program = "http", at \in {"line", "fields", "body"}, NEW whole \in BOOLEAN, Route(whole),
         in' \in Seq(Token), Len(in') <= Buf,
         UNCHANGED <<program, ask, conn, hold, backlog, closed, up, down, sent, side, got>>
  PROVE  PInv'
<1>1. PTypes /\ HttpInv
  BY DEF PInv
<1>2. CASE UNCHANGED <<counter, log>>
  <2>1. /\ counter' \in Nat /\ log' \in Seq(Clients) /\ counter' = CountAfter(Len(log))' /\ LatestReset'
        /\ \A c \in Clients : Answers(c) \subseteq Answers(c)'
        /\ Answers(conn)' = Answers(conn)
    BY <1>1, <1>2, AnswersSame DEF PTypes, HttpInv
  <2>2. /\ <<"404", 0>> \in Token /\ <<"400", 0>> \in Token
        /\ ask[conn] = "unknown" => <<"404", 0>> \in Answers(conn)'
    BY <1>1, <2>1, StatusRight
  <2>3. CASE ask[conn] = "unknown" /\ Reply(whole, <<"404", 0>>)
    <3>1. \E good \in BOOLEAN, answer \in Token : Reply(good, answer) /\ (good => answer \in Answers(conn)')
      BY <2>2, <2>3
    <3> QED
      BY <2>1, <3>1, RequestStep
  <2>4. CASE ~whole /\ \E answer \in Token : Reply(FALSE, answer)
    <3>1. \E good \in BOOLEAN, answer \in Token : Reply(good, answer) /\ (good => answer \in Answers(conn)')
      BY <2>4
    <3> QED
      BY <2>1, <3>1, RequestStep
  <2>5. CASE ask[conn] \in {"reset", "badBody"} /\ at' = "body" /\ out' = out
    BY <2>1, <2>5, RequestStep
  <2>6. CASE at' = "ended" /\ out' = out
    BY <2>1, <2>6, RequestStep
  <2>7. ask[conn] # "greet" \/ (ask[conn] = "greet" /\ log' = Append(log, conn))
    BY DEF Route, Greet
  <2>8. Len(Append(log, conn)) # Len(log)
    BY <1>1, AppendProperties, LenProperties DEF PTypes
  <2>9. ask[conn] # "greet"
    BY <1>2, <2>7, <2>8
  <2> QED
    BY <2>2, <2>3, <2>4, <2>5, <2>6, <2>9 DEF Route
<1>3. CASE ask[conn] = "greet" /\ Greet(whole)
  <2>1. log' = Append(log, conn) /\ counter' = counter + 1 /\ Reply(whole, <<"greeting", counter + 1>>)
    BY <1>3 DEF Greet
  <2>2. /\ counter' \in Nat /\ log' \in Seq(Clients) /\ counter' = CountAfter(Len(log))' /\ LatestReset'
        /\ \A c \in Clients : Answers(c) \subseteq Answers(c)'
        /\ <<"greeting", counter'>> \in Answers(conn)'
    BY <1>3, <2>1, Counted
  <2>3. <<"greeting", counter + 1>> \in Token /\ <<"greeting", counter + 1>> \in Answers(conn)'
    BY <1>1, <2>1, <2>2, StatusRight
  <2>4. \E good \in BOOLEAN, answer \in Token : Reply(good, answer) /\ (good => answer \in Answers(conn)')
    BY <2>1, <2>3
  <2> QED
    BY <2>2, <2>4, RequestStep
<1> QED
  BY <1>2, <1>3 DEF Route

LEMMA ReadFieldsKeeps == ASSUME PInv, ReadFields PROVE PInv'
<1>1. /\ PTypes /\ EchoInv /\ at = "fields" /\ in # <<>> /\ in' = Tail(in) /\ Route(TRUE)
      /\ UNCHANGED <<program, ask, conn, hold, backlog, closed, up, down, sent, side, got>>
  BY DEF PInv, ReadFields, clients
<1>2. program = "http" /\ at \in {"line", "fields", "body"}
  BY <1>1 DEF EchoInv, PTypes
<1>3. in' \in Seq(Token) /\ Len(in') <= Buf
  BY <1>1, ReadTypes
<1> QED
  BY <1>1, <1>2, <1>3, RouteKeeps

LEMMA ReadBodyKeeps == ASSUME PInv, ReadBody PROVE PInv'
<1>1. /\ PTypes /\ EchoInv /\ HttpInv /\ at = "body" /\ in # <<>> /\ in' = Tail(in)
      /\ UNCHANGED <<program, ask, conn, hold, backlog, closed, up, down, sent, side, got>>
      /\ \/ ask[conn] = "reset" /\ counter' = ResetCount /\ log' = Append(log, conn) /\ Reply(TRUE, <<"200", 0>>)
         \/ ask[conn] # "reset" /\ UNCHANGED <<counter, log>> /\ Reply(TRUE, <<"400", 0>>)
  BY DEF PInv, ReadBody, clients
<1>2. program = "http" /\ at \in {"line", "fields", "body"} /\ ask[conn] \in {"reset", "badBody"}
  BY <1>1 DEF EchoInv, HttpInv, PTypes
<1>3. in' \in Seq(Token) /\ Len(in') <= Buf
  BY <1>1, ReadTypes
<1>4. CASE ask[conn] = "reset" /\ counter' = ResetCount /\ log' = Append(log, conn) /\ Reply(TRUE, <<"200", 0>>)
  <2>1. /\ counter' \in Nat /\ log' \in Seq(Clients) /\ counter' = CountAfter(Len(log))' /\ LatestReset'
        /\ \A c \in Clients : Answers(c) \subseteq Answers(c)'
        /\ <<"200", 0>> \in Answers(conn)'
    BY <1>1, <1>2, <1>4, Counted
  <2>2. <<"200", 0>> \in Token
    BY <1>1, StatusRight
  <2>3. \E good \in BOOLEAN, answer \in Token : Reply(good, answer) /\ (good => answer \in Answers(conn)')
    BY <1>4, <2>1, <2>2
  <2> QED
    BY <1>1, <1>2, <1>3, <2>1, <2>3, RequestStep
<1>5. CASE ask[conn] # "reset" /\ UNCHANGED <<counter, log>> /\ Reply(TRUE, <<"400", 0>>)
  <2>1. /\ counter' \in Nat /\ log' \in Seq(Clients) /\ counter' = CountAfter(Len(log))' /\ LatestReset'
        /\ \A c \in Clients : Answers(c) \subseteq Answers(c)'
        /\ Answers(conn)' = Answers(conn)
    BY <1>1, <1>2, <1>5, AnswersSame DEF PTypes, HttpInv
  <2>2. <<"400", 0>> \in Token /\ <<"400", 0>> \in Answers(conn)'
    BY <1>1, <1>2, <1>5, <2>1, StatusRight
  <2>3. \E good \in BOOLEAN, answer \in Token : Reply(good, answer) /\ (good => answer \in Answers(conn)')
    BY <1>5, <2>2
  <2> QED
    BY <1>1, <1>2, <1>3, <2>1, <2>3, RequestStep
<1> QED
  BY <1>1, <1>4, <1>5

LEMMA InputEndsKeeps == ASSUME PInv, InputEnds PROVE PInv'
<1>1. /\ PTypes /\ EchoInv /\ HttpInv /\ in = <<>>
      /\ UNCHANGED <<program, ask, conn, in, hold, backlog, closed, up, down, sent, side, got>>
  BY DEF PInv, InputEnds, Reading, clients
<1>2. in' \in Seq(Token) /\ Len(in') <= Buf
  BY <1>1 DEF PTypes
<1>3. CASE at = "echo" /\ at' = "close" /\ UNCHANGED <<out, counter, log>>
  <2>1. program = "echo"
    BY <1>1, <1>3 DEF HttpInv, PTypes
  <2>2. /\ out' \in Seq(Token) /\ Len(out') <= Buf /\ hold' \in Seq(Token) /\ Len(hold') <= 1
        /\ counter' \in Nat /\ log' \in Seq(Clients)
    BY <1>1, <1>3 DEF PTypes
  <2>3. side[conn] # "gone" => Chain'
    BY <1>1, <1>3, <2>1 DEF EchoInv, Active, Chain, Back
  <2>4. \A c \in Clients : Answers(c) \subseteq Answers(c)'
    BY <1>1, <1>3, AnswersSame
  <2>5. program # "http" /\ at \notin {"accept", "ended"} /\ at' = "close"
    BY <1>3, <2>1
  <2> QED
    BY <1>1, <1>2, <2>2, <2>3, <2>4, <2>5, StreamStep
<1>4. CASE at # "echo" /\ CutOff
  <2>1. program = "http" /\ at \in {"line", "fields", "body"} /\ conn \in Clients
    BY <1>1, <1>4 DEF EchoInv, PTypes, InputEnds, Reading
  <2>2. CASE Reply(FALSE, <<"400", 0>>) /\ UNCHANGED <<counter, log>>
    <3>1. /\ counter' \in Nat /\ log' \in Seq(Clients) /\ counter' = CountAfter(Len(log))' /\ LatestReset'
          /\ \A c \in Clients : Answers(c) \subseteq Answers(c)'
      BY <1>1, <2>1, <2>2, AnswersSame DEF PTypes, HttpInv
    <3>2. \E good \in BOOLEAN, answer \in Token : Reply(good, answer) /\ (good => answer \in Answers(conn)')
      BY <1>1, <2>2, StatusRight
    <3> QED
      BY <1>1, <1>2, <2>1, <3>1, <3>2, RequestStep
  <2>3. CASE Route(FALSE)
    BY <1>1, <1>2, <2>1, <2>3, RouteKeeps
  <2>4. CASE ask[conn] = "reset" /\ counter' = ResetCount /\ log' = Append(log, conn)
             /\ Reply(FALSE, <<"200", 0>>)
    <3>1. /\ counter' \in Nat /\ log' \in Seq(Clients) /\ counter' = CountAfter(Len(log))' /\ LatestReset'
          /\ \A c \in Clients : Answers(c) \subseteq Answers(c)'
      BY <1>1, <2>1, <2>4, Counted
    <3>2. \E good \in BOOLEAN, answer \in Token : Reply(good, answer) /\ (good => answer \in Answers(conn)')
      BY <1>1, <2>4, StatusRight
    <3> QED
      BY <1>1, <1>2, <2>1, <3>1, <3>2, RequestStep
  <2> QED
    BY <1>4, <2>2, <2>3, <2>4 DEF CutOff
<1> QED
  BY <1>3, <1>4 DEF InputEnds

LEMMA WriteTokenKeeps == ASSUME PInv, WriteToken PROVE PInv'
<1>1. /\ PTypes /\ Fresh /\ EchoInv /\ HttpInv /\ at \in {"write", "close"} /\ out # <<>>
      /\ side[conn] # "gone" /\ Len(down[conn]) < Queue
      /\ down' = [down EXCEPT ![conn] = Append(down[conn], Head(out))] /\ out' = Tail(out)
      /\ UNCHANGED <<program, ask, at, conn, in, hold, counter, log, backlog, closed, up, sent, side, got>>
  BY DEF PInv, WriteToken, clients
<1>2. /\ conn \in Clients /\ out \in Seq(Token) /\ down[conn] \in Seq(Token) /\ got[conn] \in Seq(Token)
      /\ Len(out) \in Nat /\ Len(down[conn]) \in Nat /\ Len(got[conn]) \in Nat /\ sent[conn] \in Nat
      /\ Len(out) <= Buf /\ Queue \in Nat /\ Buf \in Nat
  BY <1>1, LenTypes, ProgTypes DEF PTypes
<1>3. /\ Tail(out) \in Seq(Token) /\ Len(out) \in Nat \ {0} /\ Len(Tail(out)) = Len(out) - 1
      /\ Head(out) \in Token /\ Head(out) = out[1] /\ \A n \in 1 .. Len(Tail(out)) : Tail(out)[n] = out[n + 1]
  BY <1>1, <1>2, TokenTail
<1>4. /\ Append(down[conn], Head(out)) \in Seq(Token) /\ Len(Append(down[conn], Head(out))) = Len(down[conn]) + 1
      /\ \A n \in 1 .. Len(down[conn]) : Append(down[conn], Head(out))[n] = down[conn][n]
      /\ Append(down[conn], Head(out))[Len(down[conn]) + 1] = Head(out)
  BY <1>2, <1>3, TokenAppend
<1>5. down'[conn] = Append(down[conn], Head(out)) /\ \A c \in Clients : c # conn => down'[c] = down[c]
  BY <1>1 DEF PTypes
<1>6. PTypes'
  <2>1. down' \in [Clients -> Seq(Token)]
    BY <1>1, <1>4 DEF PTypes
  <2>2. \A c \in Clients : Len(down'[c]) <= Queue
    BY <1>1, <1>2, <1>4, <1>5 DEF PTypes
  <2>3. out' \in Seq(Token) /\ Len(out') <= Buf
    BY <1>1, <1>2, <1>3
  <2>4. \A c \in Clients : Size(c)' = Size(c)
    BY <1>1 DEF Size, Reads
  <2> QED
    BY <1>1, <2>1, <2>2, <2>3, <2>4 DEF PTypes
<1>7. Fresh'
  BY <1>1, <1>5, FreshKept
<1>8. /\ Back(conn) \in Nat /\ Back(conn)' = Back(conn) + 1
      /\ \A c \in Clients : c # conn => Back(c)' = Back(c)
  <2>1. \A c \in Clients : Back(c)' = Len(got[c]) + Len(down'[c])
    BY <1>1 DEF Back
  <2>2. Back(conn) = Len(got[conn]) + Len(down[conn]) /\ Back(conn)' = Len(got[conn]) + (Len(down[conn]) + 1)
    BY <1>1, <1>2, <1>4, <1>5, <2>1 DEF Back
  <2>3. \A c \in Clients : c # conn => Back(c)' = Back(c)
    BY <1>5, <2>1 DEF Back
  <2>4. PICK g \in Nat, d \in Nat : g = Len(got[conn]) /\ d = Len(down[conn])
    BY <1>2
  <2>5. Back(conn) = g + d /\ Back(conn)' = g + (d + 1)
    BY <2>2, <2>4, Zenon
  <2>6. Back(conn) \in Nat /\ Back(conn)' = Back(conn) + 1
    BY <2>5
  <2> QED
    BY <2>3, <2>6
<1>9. EchoInv'
  <2> SUFFICES ASSUME program = "echo" PROVE EchoInv'
    BY <1>1 DEF EchoInv
  <2>1. Chain /\ at \notin {"line", "fields", "body"}
    BY <1>1 DEF EchoInv, Active
  <2>2. /\ Head(out) = <<conn, Back(conn) + 1>>
        /\ Linked(conn, Back(conn) + 1, Tail(out), hold, in, up[conn], sent[conn])
    BY <1>1, <1>2, <1>8, <2>1, LinkWrite DEF Chain
  <2>3. Chain'
    BY <1>1, <1>8, <2>1, <2>2 DEF Chain
  <2>4. Back(conn) + Len(out) <= sent[conn]
    <3>1. in \in Seq(Token) /\ hold \in Seq(Token) /\ up[conn] \in Seq(Token)
      BY <1>1 DEF PTypes
    <3> QED
      BY <1>2, <1>8, <2>1, <3>1, LinkBound DEF Chain
  <2>5. Run(conn, Append(down[conn], Head(out)), Len(got[conn]))
    <3>1. Run(conn, down[conn], Len(got[conn])) /\ Head(out) = <<conn, Len(got[conn]) + Len(down[conn]) + 1>>
      BY <1>1, <1>2, <2>2 DEF EchoInv, Back
    <3> QED
      BY <1>2, <3>1, RunAppend
  <2>6. ASSUME NEW c \in Clients
        PROVE  Run(c, got'[c], 0) /\ Run(c, down'[c], Len(got'[c])) /\ Back(c)' <= sent'[c]
    <3>1. Run(c, got[c], 0) /\ Run(c, down[c], Len(got[c])) /\ Back(c) <= sent[c]
      BY <1>1 DEF EchoInv
    <3>2. CASE c = conn
      <4>1. Back(c)' <= sent'[c]
        BY <1>1, <1>2, <1>3, <1>8, <2>4, <3>2
      <4> QED
        BY <1>1, <1>5, <2>5, <3>1, <3>2, <4>1
    <3>3. CASE c # conn
      BY <1>1, <1>5, <1>8, <3>1, <3>3
    <3> QED
      BY <3>2, <3>3
  <2>7. \A c \in Clients : (Run(c, got[c], 0) /\ Run(c, down[c], Len(got[c])) /\ Back(c) <= sent[c])'
    BY <2>6 DEF Run
  <2> QED
    BY <1>1, <2>1, <2>3, <2>7 DEF EchoInv
<1>10. HttpInv'
  <2> SUFFICES ASSUME program = "http" PROVE HttpInv'
    BY <1>1 DEF HttpInv
  <2>1. /\ hold = <<>> /\ AllAnswer(conn, out) /\ Len(out) + Back(conn) <= 1
        /\ counter = CountAfter(Len(log)) /\ LatestReset
    BY <1>1 DEF HttpInv, Active
  <2>2. /\ \A c \in Clients : Answers(c)' = Answers(c)
        /\ counter' = CountAfter(Len(log))' /\ LatestReset'
    BY <1>1, <2>1, AnswersSame
  <2>3. ASSUME NEW c \in Clients PROVE (AllAnswer(c, got[c]) /\ AllAnswer(c, down[c]) /\ Back(c) <= 1)'
    <3>1. AllAnswer(c, got[c]) /\ AllAnswer(c, down[c]) /\ Back(c) <= 1
      BY <1>1 DEF HttpInv
    <3>2. CASE c = conn
      <4>1. Head(out) \in Answers(conn) /\ Back(conn)' <= 1
        BY <1>3, <1>8, <2>1 DEF AllAnswer
      <4>3. \A n \in 1 .. Len(down[conn]) + 1 : Append(down[conn], Head(out))[n] \in Answers(conn)
        BY <1>2, <1>4, <3>1, <3>2, <4>1 DEF AllAnswer
      <4> QED
        BY <1>1, <1>4, <1>5, <2>2, <3>1, <3>2, <4>1, <4>3 DEF AllAnswer
    <3>3. CASE c # conn
      BY <1>1, <1>5, <1>8, <2>2, <3>1, <3>3 DEF AllAnswer
    <3> QED
      BY <3>2, <3>3
  <2>4. AllAnswer(conn, out)' /\ Len(out') + Back(conn)' <= 1
    <3>1. Len(out') + Back(conn)' <= 1
      BY <1>1, <1>3, <1>8, <2>1
    <3>2. \A n \in 1 .. Len(Tail(out)) : Tail(out)[n] \in Answers(conn)
      BY <1>2, <1>3, <2>1 DEF AllAnswer
    <3>3. AllAnswer(conn, out)'
      BY <1>1, <1>2, <2>2, <3>2 DEF AllAnswer
    <3> QED
      BY <3>1, <3>3
  <2> QED
    BY <1>1, <2>1, <2>2, <2>3, <2>4 DEF HttpInv
<1> QED
  BY <1>6, <1>7, <1>9, <1>10 DEF PInv

\* What a client has been sent but not received can be lost.
LEMMA DownLost ==
  ASSUME PTypes, EchoInv, HttpInv, UNCHANGED <<program, ask, log, got>>,
         \A c \in Clients : sent'[c] \in Nat /\ sent[c] <= sent'[c],
         down' \in [Clients -> Seq(Token)],
         \A c \in Clients : down'[c] = down[c] \/ down'[c] = <<>>
  PROVE  /\ program = "echo" => \A c \in Clients :
              (Run(c, got[c], 0) /\ Run(c, down[c], Len(got[c])) /\ Back(c) <= sent[c])'
         /\ program = "http" => \A c \in Clients :
              (AllAnswer(c, got[c]) /\ AllAnswer(c, down[c]) /\ Back(c) <= 1)'
         /\ \A c \in Clients : Back(c)' \in Nat /\ Back(c)' <= Back(c) /\ Len(down'[c]) <= Queue
<1>1. ASSUME NEW c \in Clients
      PROVE  Back(c)' \in Nat /\ Back(c)' <= Back(c) /\ Len(down'[c]) <= Queue
  <2>1. PICK g \in Nat, d \in Nat, e \in Nat : g = Len(got[c]) /\ d = Len(down[c]) /\ e = Len(down'[c])
    BY LenTypes, LenProperties
  <2>2. Back(c) = g + d /\ Back(c)' = g + e
    BY <2>1 DEF Back
  <2>3. e = d \/ e = 0
    BY <2>1
  <2>4. d <= Queue /\ Queue \in Nat
    BY <2>1, ProgTypes DEF PTypes
  <2> QED
    BY <2>1, <2>2, <2>3, <2>4
<1>2. ASSUME program = "echo", NEW c \in Clients
      PROVE  (Run(c, got[c], 0) /\ Run(c, down[c], Len(got[c])) /\ Back(c) <= sent[c])'
  <2>1. Run(c, got[c], 0) /\ Run(c, down[c], Len(got[c])) /\ Back(c) <= sent[c]
    BY <1>2 DEF EchoInv
  <2>2. Back(c) \in Nat /\ sent[c] \in Nat /\ sent'[c] \in Nat /\ sent[c] <= sent'[c]
    BY BackNat, LenTypes
  <2>3. Back(c)' <= sent'[c]
    BY <1>1, <2>1, <2>2
  <2>4. Run(c, down'[c], Len(got[c]))
    BY <2>1, RunEmpty
  <2> QED
    BY <2>1, <2>3, <2>4 DEF Run
<1>3. ASSUME program = "http", NEW c \in Clients
      PROVE  (AllAnswer(c, got[c]) /\ AllAnswer(c, down[c]) /\ Back(c) <= 1)'
  <2>1. AllAnswer(c, got[c]) /\ AllAnswer(c, down[c]) /\ Back(c) <= 1 /\ Answers(c)' = Answers(c)
    BY <1>3, AnswersSame DEF HttpInv
  <2>2. Back(c)' <= 1
    BY <1>1, <2>1, BackNat
  <2> QED
    BY <2>1, <2>2 DEF AllAnswer
<1> QED
  BY <1>1, <1>2, <1>3

LEMMA CloseFdKeeps == ASSUME PInv, at \notin {"accept", "ended"}, CloseFd PROVE PInv'
<1>1. /\ PTypes /\ Fresh /\ EchoInv /\ HttpInv /\ conn \in Clients
      /\ closed' = closed \cup {conn} /\ at' = "accept"
      /\ down' = down \/ down' = [down EXCEPT ![conn] = <<>>]
      /\ UNCHANGED <<program, ask, conn, in, out, hold, counter, log, backlog, up, sent, side, got>>
  BY DEF PInv, PTypes, CloseFd, clients
<1>2. /\ down' \in [Clients -> Seq(Token)] /\ \A c \in Clients : c # conn => down'[c] = down[c]
      /\ \A c \in Clients : down'[c] = down[c] \/ down'[c] = <<>>
  <2>1. down \in [Clients -> Seq(Token)] /\ <<>> \in Seq(Token)
    BY <1>1 DEF PTypes
  <2>2. CASE down' = down
    BY <2>1, <2>2
  <2>3. CASE down' = [down EXCEPT ![conn] = <<>>]
    BY <1>1, <2>1, <2>3
  <2> QED
    BY <1>1, <2>2, <2>3
<1>3. /\ program = "echo" => \A c \in Clients :
           (Run(c, got[c], 0) /\ Run(c, down[c], Len(got[c])) /\ Back(c) <= sent[c])'
      /\ program = "http" => \A c \in Clients :
           (AllAnswer(c, got[c]) /\ AllAnswer(c, down[c]) /\ Back(c) <= 1)'
      /\ \A c \in Clients : Len(down'[c]) <= Queue
  <2>1. \A c \in Clients : sent'[c] \in Nat /\ sent[c] <= sent'[c]
    BY <1>1, LenTypes
  <2> QED
    BY <1>1, <1>2, <2>1, DownLost
<1>4. PTypes'
  <2>1. \A c \in Clients : Size(c)' = Size(c)
    BY <1>1 DEF Size, Reads
  <2> QED
    BY <1>1, <1>2, <1>3, <2>1 DEF PTypes
<1>5. Fresh'
  BY <1>1, <1>2, FreshKept
<1>6. EchoInv'
  BY <1>1, <1>3 DEF EchoInv, Active
<1>7. HttpInv'
  BY <1>1, <1>3, AnswersSame DEF HttpInv, Active
<1> QED
  BY <1>4, <1>5, <1>6, <1>7 DEF PInv

LEMMA CloseKeeps == ASSUME PInv, Close PROVE PInv'
BY CloseFdKeeps DEF Close

LEMMA WriteFailsKeeps == ASSUME PInv, WriteFails PROVE PInv'
<1>1. /\ PTypes /\ EchoInv /\ HttpInv /\ at \in {"write", "close"} /\ side[conn] = "gone"
      /\ UNCHANGED <<program, ask, sent, side, got>>
  BY DEF PInv, WriteFails, clients
<1>2. CASE at = "close" /\ CloseFd
  BY <1>2, CloseFdKeeps
<1>3. CASE at' \in {"close", "ended"} /\ UNCHANGED <<conn, in, out, hold, counter, log, backlog, closed, up, down>>
  <2>1. /\ in' \in Seq(Token) /\ out' \in Seq(Token) /\ hold' \in Seq(Token)
        /\ Len(in') <= Buf /\ Len(out') <= Buf /\ Len(hold') <= 1
        /\ counter' \in Nat /\ log' \in Seq(Clients)
    BY <1>1, <1>3 DEF PTypes
  <2>2. \A c \in Clients : Answers(c) \subseteq Answers(c)'
    BY <1>1, <1>3, AnswersSame
  <2>3. program = "http" => /\ counter' = CountAfter(Len(log))' /\ LatestReset'
                            /\ hold' = <<>> /\ AllAnswer(conn, out)' /\ Len(out') + Back(conn) <= 1
    BY <1>1, <1>3, AnswersSame DEF HttpInv, Active, AllAnswer
  <2>4. /\ at \notin {"accept", "ended"} /\ at' # "echo" /\ at' \notin {"line", "fields", "body"}
        /\ at' \in {"echo", "line", "fields", "body", "write", "close", "ended"}
    BY <1>1, <1>3
  <2> QED
    BY <1>1, <1>3, <2>1, <2>2, <2>3, <2>4, StreamStep
<1> QED
  BY <1>2, <1>3 DEF WriteFails

LEMMA AcceptFailsKeeps == ASSUME PInv, AcceptFails PROVE PInv'
<1>1. /\ PTypes /\ Fresh /\ EchoInv /\ HttpInv /\ at = "accept" /\ at' = "ended"
      /\ UNCHANGED <<program, ask, conn, in, out, hold, counter, log, backlog, closed, up, down, sent, side, got>>
  BY DEF PInv, AcceptFails, clients
<1>2. PTypes'
  <2>1. \A c \in Clients : Size(c)' = Size(c)
    BY <1>1 DEF Size, Reads
  <2> QED
    BY <1>1, <2>1 DEF PTypes
<1>3. Fresh'
  BY <1>1 DEF Fresh, Active, Waiting, Run
<1>4. \A c \in Clients : Answers(c) \subseteq Answers(c)'
  BY <1>1, AnswersSame
<1>5. /\ program = "echo" => \A c \in Clients :
           (Run(c, got[c], 0) /\ Run(c, down[c], Len(got[c])) /\ Back(c) <= sent[c])'
      /\ program = "http" => \A c \in Clients :
           (AllAnswer(c, got[c]) /\ AllAnswer(c, down[c]) /\ Back(c) <= 1)'
  BY <1>1, <1>4, GotKept
<1>6. EchoInv'
  BY <1>1, <1>5 DEF EchoInv, Active
<1>7. HttpInv'
  BY <1>1, <1>5, AnswersSame DEF HttpInv, Active
<1> QED
  BY <1>2, <1>3, <1>6, <1>7 DEF PInv

\* The client at the front of the backlog is the one being served now.
LEMMA AcceptKeeps == ASSUME PInv, Accept PROVE PInv'
<1>1. /\ PTypes /\ Fresh /\ EchoInv /\ HttpInv /\ at = "accept" /\ backlog # <<>>
      /\ conn' = Head(backlog) /\ backlog' = Tail(backlog)
      /\ at' = IF program = "echo" THEN "echo" ELSE "line"
      /\ in' = <<>> /\ out' = <<>> /\ hold' = <<>>
      /\ UNCHANGED <<program, ask, counter, log, closed, up, down, sent, side, got>>
  BY DEF PInv, Accept, clients
<1>2. /\ backlog \in Seq(Clients) /\ Len(backlog) \in Nat \ {0} /\ Tail(backlog) \in Seq(Clients)
      /\ Len(Tail(backlog)) = Len(backlog) - 1 /\ Head(backlog) = backlog[1] /\ Head(backlog) \in Clients
      /\ \A n \in 1 .. Len(Tail(backlog)) : Tail(backlog)[n] = backlog[n + 1]
  <2>1. backlog \in Seq(Clients)
    BY <1>1 DEF PTypes
  <2> QED
    BY <1>1, <2>1, EmptySeq, LenProperties, HeadTailProperties
<1>3. conn' \in Clients /\ conn' = backlog[1] /\ Waiting(conn')
  BY <1>1, <1>2 DEF Waiting
<1>4. /\ got[conn'] = <<>> /\ down[conn'] = <<>> /\ Run(conn', up[conn'], 0) /\ Len(up[conn']) = sent[conn']
      /\ side[conn'] # "new"
  BY <1>1, <1>2, <1>3 DEF Fresh
<1>5. PTypes'
  <2>1. \A c \in Clients : Size(c)' = Size(c)
    BY <1>1 DEF Size, Reads
  <2>2. <<>> \in Seq(Token) /\ Len(<<>>) = 0 /\ Buf \in Nat
    BY ProgTypes
  <2>3. /\ in' \in Seq(Token) /\ out' \in Seq(Token) /\ hold' \in Seq(Token)
        /\ Len(in') <= Buf /\ Len(out') <= Buf /\ Len(hold') <= 1
    BY <1>1, <2>2
  <2>4. at' \in {"echo", "line"} /\ conn' \in Clients /\ backlog' \in Seq(Clients)
    BY <1>1, <1>2, <1>3
  <2> QED
    BY <1>1, <2>1, <2>3, <2>4 DEF PTypes
<1>6. Fresh'
  <2>1. ASSUME NEW c \in Clients, (side[c] = "new" \/ Waiting(c))'
        PROVE  (side[c] = "new" \/ Waiting(c)) /\ c # conn'
    <3>1. CASE side'[c] = "new"
      BY <1>1, <1>4, <3>1
    <3>2. CASE Waiting(c)'
      <4>1. PICK n \in 1 .. Len(Tail(backlog)) : Tail(backlog)[n] = c
        BY <1>1, <3>2 DEF Waiting
      <4>2. n + 1 \in 1 .. Len(backlog) /\ backlog[n + 1] = c /\ n + 1 # 1 /\ 1 \in 1 .. Len(backlog)
        BY <1>2, <4>1
      <4> QED
        BY <1>1, <1>3, <4>2 DEF Waiting, Fresh
    <3> QED
      BY <2>1, <3>1, <3>2
  <2>2. ASSUME NEW c \in Clients, (side[c] = "new" \/ Waiting(c))'
        PROVE  (~Active(c) /\ got[c] = <<>> /\ down[c] = <<>> /\ Run(c, up[c], 0) /\ Len(up[c]) = sent[c])'
    <3>1. got[c] = <<>> /\ down[c] = <<>> /\ Run(c, up[c], 0) /\ Len(up[c]) = sent[c] /\ c # conn'
      BY <1>1, <2>1, <2>2 DEF Fresh
    <3> QED
      BY <1>1, <3>1 DEF Active, Run
  <2>3. ASSUME NEW m \in 1 .. Len(backlog'), NEW n \in 1 .. Len(backlog')
        PROVE  /\ backlog'[m] = backlog'[n] => m = n
               /\ side'[backlog'[n]] # "new"
    <3>1. /\ m + 1 \in 1 .. Len(backlog) /\ n + 1 \in 1 .. Len(backlog)
          /\ backlog'[m] = backlog[m + 1] /\ backlog'[n] = backlog[n + 1] /\ m \in Nat /\ n \in Nat
      BY <1>1, <1>2
    <3>2. backlog[m + 1] = backlog[n + 1] => m + 1 = n + 1
      BY <1>1, <3>1 DEF Fresh
    <3>3. side[backlog[n + 1]] # "new"
      BY <1>1, <3>1 DEF Fresh
    <3> QED
      BY <1>1, <3>1, <3>2, <3>3
  <2> QED
    BY <2>2, <2>3 DEF Fresh
<1>7. \A c \in Clients : Answers(c) \subseteq Answers(c)'
  BY <1>1, AnswersSame
<1>8. /\ program = "echo" => \A c \in Clients :
           (Run(c, got[c], 0) /\ Run(c, down[c], Len(got[c])) /\ Back(c) <= sent[c])'
      /\ program = "http" => \A c \in Clients :
           (AllAnswer(c, got[c]) /\ AllAnswer(c, down[c]) /\ Back(c) <= 1)'
  BY <1>1, <1>7, GotKept
<1>9. Back(conn)' = 0
  BY <1>1, <1>4 DEF Back
<1>10. Chain'
  <2>1. Linked(conn', 0, <<>>, <<>>, <<>>, up[conn'], Len(up[conn']))
    <3>1. up[conn'] \in Seq(Token)
      BY <1>1, <1>3 DEF PTypes
    <3> QED
      BY <1>3, <1>4, <3>1, LinkStart
  <2>2. Linked(conn', Back(conn)', out', hold', in', up'[conn'], sent'[conn'])
    BY <1>1, <1>4, <1>9, <2>1
  <2> QED
    BY <1>1, <2>2 DEF Chain
<1>11. EchoInv'
  BY <1>1, <1>8, <1>10 DEF EchoInv
<1>12. HttpInv'
  <2> SUFFICES ASSUME program = "http" PROVE HttpInv'
    BY <1>1 DEF HttpInv
  <2>1. at' = "line" /\ Len(out') + Back(conn)' <= 1 /\ AllAnswer(conn, out)'
    BY <1>1, <1>9 DEF AllAnswer
  <2>2. counter' = CountAfter(Len(log))' /\ LatestReset'
    BY <1>1, AnswersSame DEF HttpInv
  <2> QED
    BY <1>1, <1>4, <1>8, <2>1, <2>2 DEF HttpInv
<1> QED
  BY <1>5, <1>6, <1>11, <1>12 DEF PInv

-----------------------------------------------------------------------------
(* The steps of a client.                                                  *)

LEMMA ConnectKeeps == ASSUME PInv, NEW c \in Clients, Connect(c) PROVE PInv'
<1>1. /\ PTypes /\ Fresh /\ EchoInv /\ HttpInv /\ side[c] = "new" /\ side' = [side EXCEPT ![c] = "open"]
      /\ backlog' = Append(backlog, c)
      /\ UNCHANGED <<program, ask, at, conn, in, out, hold, counter, log, closed, up, down, sent, got>>
  BY DEF PInv, Connect
<1>2. /\ backlog \in Seq(Clients) /\ Len(backlog) \in Nat /\ backlog' \in Seq(Clients)
      /\ Len(backlog') = Len(backlog) + 1 /\ backlog'[Len(backlog) + 1] = c
      /\ \A n \in 1 .. Len(backlog) : backlog'[n] = backlog[n]
      /\ side'[c] = "open" /\ \A d \in Clients : d # c => side'[d] = side[d]
      /\ side' \in [Clients -> {"new", "open", "shut", "gone"}]
  BY <1>1, LenProperties, AppendProperties DEF PTypes
<1>3. PTypes'
  <2>1. \A d \in Clients : Size(d)' = Size(d)
    BY <1>1 DEF Size, Reads
  <2>2. \A d \in Clients : (Len(up[d]) <= Queue /\ Len(down[d]) <= Queue /\ sent[d] <= Size(d))'
    BY <1>1, <2>1 DEF PTypes
  <2> QED
    BY <1>1, <1>2, <2>2 DEF PTypes
<1>4. Fresh'
  <2>1. ASSUME NEW d \in Clients, (side[d] = "new" \/ Waiting(d))' PROVE side[d] = "new" \/ Waiting(d)
    <3>1. CASE side'[d] = "new"
      BY <1>2, <3>1
    <3>2. CASE Waiting(d)'
      <4>1. PICK n \in 1 .. Len(backlog') : backlog'[n] = d
        BY <3>2 DEF Waiting
      <4>2. n \in 1 .. Len(backlog) \/ n = Len(backlog) + 1
        BY <1>2
      <4> QED
        BY <1>1, <1>2, <4>1, <4>2 DEF Waiting
    <3> QED
      BY <2>1, <3>1, <3>2
  <2>2. ASSUME NEW d \in Clients, (side[d] = "new" \/ Waiting(d))'
        PROVE  (~Active(d) /\ got[d] = <<>> /\ down[d] = <<>> /\ Run(d, up[d], 0) /\ Len(up[d]) = sent[d])'
    BY <1>1, <2>1, <2>2 DEF Fresh, Active, Run
  <2>3. ASSUME NEW n \in 1 .. Len(backlog') PROVE side'[backlog'[n]] # "new"
    <3>1. n \in 1 .. Len(backlog) \/ n = Len(backlog) + 1
      BY <1>2
    <3>2. \A m \in 1 .. Len(backlog) : side[backlog[m]] # "new" /\ backlog[m] \in Clients
      BY <1>1, <1>2, ElementOfSeq DEF Fresh
    <3> QED
      BY <1>1, <1>2, <3>1, <3>2
  <2>4. ASSUME NEW m \in 1 .. Len(backlog'), NEW n \in 1 .. Len(backlog'), backlog'[m] = backlog'[n]
        PROVE  m = n
    <3>1. /\ m \in 1 .. Len(backlog) \/ m = Len(backlog) + 1
          /\ n \in 1 .. Len(backlog) \/ n = Len(backlog) + 1
      BY <1>2
    <3>2. \A k \in 1 .. Len(backlog) : backlog[k] # c
      BY <1>1 DEF Fresh
    <3>3. m \in 1 .. Len(backlog) /\ n \in 1 .. Len(backlog) => m = n
      BY <1>1, <1>2, <2>4 DEF Fresh
    <3> QED
      BY <1>2, <2>4, <3>1, <3>2, <3>3
  <2> QED
    BY <2>2, <2>3, <2>4 DEF Fresh
<1>5. \A d \in Clients : Answers(d) \subseteq Answers(d)'
  BY <1>1, AnswersSame
<1>6. /\ program = "echo" => \A d \in Clients :
           (Run(d, got[d], 0) /\ Run(d, down[d], Len(got[d])) /\ Back(d) <= sent[d])'
      /\ program = "http" => \A d \in Clients :
           (AllAnswer(d, got[d]) /\ AllAnswer(d, down[d]) /\ Back(d) <= 1)'
  BY <1>1, <1>5, GotKept
<1>7. EchoInv'
  <2>1. side'[conn] # "gone" => side[conn] # "gone"
    BY <1>1, <1>2 DEF PTypes
  <2> QED
    BY <1>1, <1>6, <2>1 DEF EchoInv, Active, Chain, Back
<1>8. HttpInv'
  BY <1>1, <1>6, AnswersSame DEF HttpInv, Active, AllAnswer, Back
<1> QED
  BY <1>3, <1>4, <1>7, <1>8 DEF PInv

LEMMA ShutKeeps == ASSUME PInv, NEW c \in Clients, Shut(c) PROVE PInv'
<1>1. /\ PTypes /\ Fresh /\ EchoInv /\ HttpInv /\ side[c] = "open" /\ side' = [side EXCEPT ![c] = "shut"]
      /\ UNCHANGED <<program, ask, at, conn, in, out, hold, counter, log, backlog, closed, up, down, sent, got>>
  BY DEF PInv, Shut, server
<1>2. /\ side' \in [Clients -> {"new", "open", "shut", "gone"}]
      /\ side'[c] = "shut" /\ \A d \in Clients : d # c => side'[d] = side[d]
  BY <1>1 DEF PTypes
<1>3. PTypes'
  <2>1. \A d \in Clients : Size(d)' = Size(d)
    BY <1>1 DEF Size, Reads
  <2>2. \A d \in Clients : (Len(up[d]) <= Queue /\ Len(down[d]) <= Queue /\ sent[d] <= Size(d))'
    BY <1>1, <2>1 DEF PTypes
  <2> QED
    BY <1>1, <1>2, <2>2 DEF PTypes
<1>4. \A d \in Clients : (side'[d] = "new" <=> side[d] = "new") /\ (side'[d] = "gone" <=> side[d] = "gone")
  BY <1>1, <1>2
<1>5. Fresh'
  <2>1. \A n \in 1 .. Len(backlog) : backlog[n] \in Clients
    BY <1>1, ElementOfSeq DEF PTypes
  <2> QED
    BY <1>1, <1>4, <2>1 DEF Fresh, Active, Waiting, Run
<1>6. \A d \in Clients : Answers(d) \subseteq Answers(d)'
  BY <1>1, AnswersSame
<1>7. /\ program = "echo" => \A d \in Clients :
           (Run(d, got[d], 0) /\ Run(d, down[d], Len(got[d])) /\ Back(d) <= sent[d])'
      /\ program = "http" => \A d \in Clients :
           (AllAnswer(d, got[d]) /\ AllAnswer(d, down[d]) /\ Back(d) <= 1)'
  BY <1>1, <1>6, GotKept
<1>8. EchoInv'
  <2>1. conn \in Clients
    BY <1>1 DEF PTypes
  <2> QED
    BY <1>1, <1>4, <1>7, <2>1 DEF EchoInv, Active, Chain, Back
<1>9. HttpInv'
  BY <1>1, <1>7, AnswersSame DEF HttpInv, Active, AllAnswer, Back
<1> QED
  BY <1>3, <1>5, <1>8, <1>9 DEF PInv

\* What c sends is its next token: behind all it has sent before, wherever that
\* is by now.
LEMMA SendKeeps == ASSUME PInv, Done, NEW c \in Clients, Send(c) PROVE PInv'
<1>1. /\ PTypes /\ Fresh /\ EchoInv /\ HttpInv /\ side[c] = "open" /\ sent[c] < Size(c) /\ Len(up[c]) < Queue
      /\ sent' = [sent EXCEPT ![c] = sent[c] + 1]
      /\ up' = [up EXCEPT ![c] = Append(up[c], <<c, sent[c] + 1>>)]
      /\ UNCHANGED <<program, ask, at, conn, in, out, hold, counter, log, backlog, closed, side, got>>
      /\ down' = down \/ (c \in closed /\ down' = [down EXCEPT ![c] = <<>>])
  BY DEF PInv, Send, server
<1>2. /\ up[c] \in Seq(Token) /\ sent[c] \in Nat /\ Len(up[c]) \in Nat /\ Size(c) \in Nat /\ Queue \in Nat
      /\ <<c, sent[c] + 1>> \in Token
  <2>1. up[c] \in Seq(Token) /\ sent[c] \in Nat /\ Len(up[c]) \in Nat
    BY <1>1, LenTypes
  <2>2. Size(c) \in Nat /\ Queue \in Nat
    BY <1>1, SizeType, ProgTypes
  <2>3. <<c, sent[c] + 1>> \in Token
    BY <2>1 DEF Token
  <2> QED
    BY <2>1, <2>2, <2>3
<1>3. /\ Append(up[c], <<c, sent[c] + 1>>) \in Seq(Token)
      /\ Len(Append(up[c], <<c, sent[c] + 1>>)) = Len(up[c]) + 1
  BY <1>2, TokenAppend
<1>4. /\ up'[c] = Append(up[c], <<c, sent[c] + 1>>) /\ sent'[c] = sent[c] + 1
      /\ \A d \in Clients : d # c => up'[d] = up[d] /\ sent'[d] = sent[d]
  BY <1>1 DEF PTypes
<1>10. /\ down' \in [Clients -> Seq(Token)]
       /\ \A d \in Clients : down'[d] = down[d] \/ (d = c /\ c \in closed /\ down'[d] = <<>>)
  <2>1. down \in [Clients -> Seq(Token)] /\ <<>> \in Seq(Token)
    BY <1>1 DEF PTypes
  <2> QED
    BY <1>1, <2>1
<1>11. \A d \in Clients : sent'[d] \in Nat /\ sent[d] <= sent'[d]
  BY <1>4, LenTypes, <1>1
<1>12. /\ program = "echo" => \A d \in Clients :
            (Run(d, got[d], 0) /\ Run(d, down[d], Len(got[d])) /\ Back(d) <= sent[d])'
       /\ program = "http" => \A d \in Clients :
            (AllAnswer(d, got[d]) /\ AllAnswer(d, down[d]) /\ Back(d) <= 1)'
       /\ \A d \in Clients : Len(down'[d]) <= Queue
  BY <1>1, <1>10, <1>11, DownLost
<1>5. PTypes'
  <2>1. up' \in [Clients -> Seq(Token)]
    BY <1>1, <1>3 DEF PTypes
  <2>4. sent' \in [Clients -> Nat]
    <3>1. sent \in [Clients -> Nat]
      BY <1>1 DEF PTypes
    <3>2. sent[c] + 1 \in Nat
      BY <1>2
    <3> QED
      BY <1>1, <3>1, <3>2
  <2>2. ASSUME NEW d \in Clients PROVE Len(up'[d]) <= Queue /\ sent'[d] <= Size(d)
    <3>1. Len(up[d]) <= Queue /\ sent[d] <= Size(d)
      BY <1>1 DEF PTypes
    <3> QED
      BY <1>1, <1>2, <1>3, <1>4, <3>1
  <2>3. \A d \in Clients : Size(d)' = Size(d)
    BY <1>1 DEF Size, Reads
  <2> QED
    <3>1. \A d \in Clients : Len(up'[d]) <= Queue /\ Len(down'[d]) <= Queue /\ sent'[d] <= Size(d)'
      BY <1>12, <2>2, <2>3
    <3>2. UNCHANGED <<program, ask, at, conn, in, out, hold, counter, log, backlog, closed, side, got>>
      BY <1>1
    <3> QED
      BY <1>1, <1>10, <2>1, <2>4, <3>1, <3>2 DEF PTypes
<1>6. Fresh'
  <2>1. ASSUME NEW d \in Clients, (side[d] = "new" \/ Waiting(d))'
        PROVE  (~Active(d) /\ got[d] = <<>> /\ down[d] = <<>> /\ Run(d, up[d], 0) /\ Len(up[d]) = sent[d])'
    <3>1. ~Active(d) /\ got[d] = <<>> /\ down[d] = <<>> /\ Run(d, up[d], 0) /\ Len(up[d]) = sent[d]
      <4>1. side[d] = "new" \/ Waiting(d)
        BY <1>1, <2>1 DEF Waiting
      <4> QED
        BY <1>1, <4>1 DEF Fresh
    <3>3. down'[d] = down[d]
      BY <1>1, <1>10, <2>1 DEF Done, Waiting
    <3>2. Run(d, up'[d], 0) /\ Len(up'[d]) = sent'[d]
      <4>1. CASE d = c
        <5>1. 0 + Len(up[c]) + 1 = sent[c] + 1
          BY <1>2, <3>1, <4>1
        <5>2. Run(c, Append(up[c], <<c, 0 + Len(up[c]) + 1>>), 0)
          BY <1>2, <3>1, <4>1, RunAppend
        <5> QED
          BY <1>3, <1>4, <3>1, <4>1, <5>1, <5>2
      <4> QED
        BY <1>4, <3>1, <4>1
    <3> QED
      BY <1>1, <3>1, <3>2, <3>3 DEF Active, Run
  <2>2. /\ \A m, n \in 1 .. Len(backlog') : backlog'[m] = backlog'[n] => m = n
        /\ \A n \in 1 .. Len(backlog') : side'[backlog'[n]] # "new"
    BY <1>1 DEF Fresh
  <2> QED
    BY <2>1, <2>2 DEF Fresh
<1>7. /\ Back(conn) \in Nat /\ conn \in Clients
      /\ Active(conn)' => Active(conn) /\ down'[conn] = down[conn] /\ Back(conn)' = Back(conn)
  <2>1. Back(conn) \in Nat /\ conn \in Clients
    BY <1>1, BackNat
  <2>2. Active(conn)' => Active(conn) /\ down'[conn] = down[conn]
    BY <1>1, <1>10, <2>1 DEF Done, Active
  <2> QED
    BY <1>1, <2>1, <2>2 DEF Back
<1>8. EchoInv'
  <2> SUFFICES ASSUME program = "echo" PROVE EchoInv'
    BY <1>1 DEF EchoInv
  <2>2. ASSUME Active(conn)', side'[conn] # "gone" PROVE Chain'
    <3>1. Chain /\ conn \in Clients
      BY <1>1, <2>2 DEF EchoInv, Active, PTypes
    <3>2. Linked(conn, Back(conn), out, hold, in, up'[conn], sent'[conn])
      <4>1. CASE conn = c
        <5>1. Linked(c, Back(c), out, hold, in, up[c], sent[c])
          BY <3>1, <4>1 DEF Chain
        <5>2. Linked(c, Back(c), out, hold, in, Append(up[c], <<c, sent[c] + 1>>), sent[c] + 1)
          <6>1. up[c] \in Seq(Token) /\ Back(c) \in Nat
            BY <1>2, <1>7, <4>1
          <6> QED
            BY <5>1, <6>1, LinkSend
        <5> QED
          BY <1>4, <4>1, <5>2
      <4>2. CASE conn # c
        BY <1>4, <3>1, <4>2 DEF Chain
      <4> QED
        BY <4>1, <4>2
    <3> QED
      BY <1>1, <1>7, <2>2, <3>1, <3>2 DEF Chain
  <2> QED
    BY <1>1, <1>12, <2>2 DEF EchoInv
<1>9. HttpInv'
  <2> SUFFICES ASSUME program = "http" PROVE HttpInv'
    BY <1>1 DEF HttpInv
  <2>1. \A d \in Clients : Answers(d)' = Answers(d)
    BY <1>1, AnswersSame
  <2>2. Active(conn)' => hold' = <<>> /\ AllAnswer(conn, out)' /\ Len(out') + Back(conn)' <= 1
    BY <1>1, <1>7, <2>1 DEF HttpInv, AllAnswer
  <2>3. down'[conn] = down[conn] \/ down'[conn] = <<>>
    BY <1>7, <1>10
  <2>4. /\ at' # "echo" /\ (at' = "body" => ask'[conn'] \in {"reset", "badBody"})
        /\ at' \in {"line", "fields", "body"} => out' = <<>> /\ got'[conn'] = <<>> /\ down'[conn'] = <<>>
    BY <1>1, <2>3 DEF HttpInv
  <2>5. counter' = CountAfter(Len(log))' /\ LatestReset'
    BY <1>1, AnswersSame DEF HttpInv
  <2> QED
    BY <1>1, <1>12, <2>2, <2>4, <2>5 DEF HttpInv
<1> QED
  BY <1>5, <1>6, <1>8, <1>9 DEF PInv

LEMMA ReceiveKeeps == ASSUME PInv, NEW c \in Clients, Receive(c) PROVE PInv'
<1>1. /\ PTypes /\ Fresh /\ EchoInv /\ HttpInv /\ down[c] # <<>>
      /\ got' = [got EXCEPT ![c] = Append(got[c], Head(down[c]))]
      /\ down' = [down EXCEPT ![c] = Tail(down[c])]
      /\ UNCHANGED <<program, ask, at, conn, in, out, hold, counter, log, backlog, closed, up, sent, side>>
  BY DEF PInv, Receive, server
<1>2. /\ got[c] \in Seq(Token) /\ down[c] \in Seq(Token) /\ Len(got[c]) \in Nat /\ Len(down[c]) \in Nat
  BY <1>1, LenTypes
<1>3. /\ Tail(down[c]) \in Seq(Token) /\ Len(down[c]) \in Nat \ {0} /\ Len(Tail(down[c])) = Len(down[c]) - 1
      /\ Head(down[c]) \in Token /\ Head(down[c]) = down[c][1]
      /\ \A n \in 1 .. Len(Tail(down[c])) : Tail(down[c])[n] = down[c][n + 1]
  BY <1>1, <1>2, TokenTail
<1>4. /\ Append(got[c], Head(down[c])) \in Seq(Token)
      /\ Len(Append(got[c], Head(down[c]))) = Len(got[c]) + 1
      /\ \A n \in 1 .. Len(got[c]) : Append(got[c], Head(down[c]))[n] = got[c][n]
      /\ Append(got[c], Head(down[c]))[Len(got[c]) + 1] = Head(down[c])
  BY <1>2, <1>3, TokenAppend
<1>5. /\ got'[c] = Append(got[c], Head(down[c])) /\ down'[c] = Tail(down[c])
      /\ \A d \in Clients : d # c => got'[d] = got[d] /\ down'[d] = down[d]
  BY <1>1 DEF PTypes
<1>6. PTypes'
  <2>1. got' \in [Clients -> Seq(Token)] /\ down' \in [Clients -> Seq(Token)]
    BY <1>1, <1>3, <1>4 DEF PTypes
  <2>2. ASSUME NEW d \in Clients PROVE Len(down'[d]) <= Queue
    <3>1. Len(down[d]) <= Queue /\ Queue \in Nat
      BY <1>1, ProgTypes DEF PTypes
    <3>2. Len(Tail(down[c])) <= Queue
      <4>1. Len(down[c]) <= Queue
        BY <1>1 DEF PTypes
      <4> QED
        BY <1>3, <3>1, <4>1
    <3> QED
      BY <1>5, <3>1, <3>2
  <2>3. \A d \in Clients : Size(d)' = Size(d)
    BY <1>1 DEF Size, Reads
  <2> QED
    BY <1>1, <2>1, <2>2, <2>3 DEF PTypes
<1>7. Fresh'
  <2>1. ASSUME NEW d \in Clients, (side[d] = "new" \/ Waiting(d))'
        PROVE  (~Active(d) /\ got[d] = <<>> /\ down[d] = <<>> /\ Run(d, up[d], 0) /\ Len(up[d]) = sent[d])'
    <3>1. ~Active(d) /\ got[d] = <<>> /\ down[d] = <<>> /\ Run(d, up[d], 0) /\ Len(up[d]) = sent[d]
      <4>1. side[d] = "new" \/ Waiting(d)
        BY <1>1, <2>1 DEF Waiting
      <4> QED
        BY <1>1, <4>1 DEF Fresh
    <3>2. d # c
      BY <1>1, <3>1
    <3> QED
      BY <1>1, <1>5, <3>1, <3>2 DEF Active, Run
  <2>2. /\ \A m, n \in 1 .. Len(backlog') : backlog'[m] = backlog'[n] => m = n
        /\ \A n \in 1 .. Len(backlog') : side'[backlog'[n]] # "new"
    BY <1>1 DEF Fresh
  <2> QED
    BY <2>1, <2>2 DEF Fresh
<1>8. \A d \in Clients : Back(d)' = Back(d) /\ Back(d) \in Nat
  <2>1. PICK g \in Nat, e \in Nat : g = Len(got[c]) /\ e = Len(down[c])
    BY <1>2
  <2>2. Back(c) = g + e /\ Back(c)' = (g + 1) + (e - 1)
    BY <1>3, <1>4, <1>5, <2>1 DEF Back
  <2>5. (g + 1) + (e - 1) = g + e
    OBVIOUS
  <2>3. Back(c)' = Back(c)
    BY <2>2, <2>5, Zenon
  <2>4. \A d \in Clients : d # c => Back(d)' = Back(d)
    BY <1>5 DEF Back
  <2> QED
    BY <1>1, <2>3, <2>4, BackNat
<1>9. EchoInv'
  <2> SUFFICES ASSUME program = "echo" PROVE EchoInv'
    BY <1>1 DEF EchoInv
  <2>1. ASSUME NEW d \in Clients
        PROVE  (Run(d, got[d], 0) /\ Run(d, down[d], Len(got[d])) /\ Back(d) <= sent[d])'
    <3>1. Run(d, got[d], 0) /\ Run(d, down[d], Len(got[d])) /\ Back(d) <= sent[d]
      BY <1>1 DEF EchoInv
    <3>2. Back(d)' <= sent'[d]
      BY <1>1, <1>8, <3>1
    <3>3. CASE d = c
      <4>1. Head(down[c]) = <<c, Len(got[c]) + 1>> /\ Run(c, Tail(down[c]), Len(got[c]) + 1)
        BY <1>1, <1>2, <3>1, <3>3, RunTail
      <4>2. 0 + Len(got[c]) + 1 = Len(got[c]) + 1
        BY <1>2
      <4>3. Run(c, Append(got[c], <<c, 0 + Len(got[c]) + 1>>), 0)
        BY <1>2, <3>1, <3>3, RunAppend
      <4>4. Run(c, Append(got[c], Head(down[c])), 0)
        BY <4>1, <4>2, <4>3
      <4>5. Run(d, got'[d], 0)
        BY <1>5, <3>3, <4>4
      <4>6. Run(d, down'[d], Len(got'[d]))
        BY <1>4, <1>5, <3>3, <4>1
      <4> QED
        BY <3>2, <4>5, <4>6 DEF Run
    <3>4. CASE d # c
      BY <1>5, <3>1, <3>2, <3>4 DEF Run
    <3> QED
      BY <3>3, <3>4
  <2>2. conn \in Clients
    BY <1>1 DEF PTypes
  <2>3. Active(conn)' /\ side'[conn] # "gone" => Chain'
    BY <1>1, <1>8, <2>2 DEF EchoInv, Active, Chain
  <2> QED
    BY <1>1, <2>1, <2>3 DEF EchoInv
<1>10. HttpInv'
  <2> SUFFICES ASSUME program = "http" PROVE HttpInv'
    BY <1>1 DEF HttpInv
  <2>1. \A d \in Clients : Answers(d)' = Answers(d)
    BY <1>1, AnswersSame
  <2>2. ASSUME NEW d \in Clients PROVE (AllAnswer(d, got[d]) /\ AllAnswer(d, down[d]) /\ Back(d) <= 1)'
    <3>1. AllAnswer(d, got[d]) /\ AllAnswer(d, down[d]) /\ Back(d)' <= 1
      BY <1>1, <1>8 DEF HttpInv
    <3>2. CASE d = c
      <4>1. \A n \in 1 .. Len(Tail(down[c])) : Tail(down[c])[n] \in Answers(c)
        <5>1. \A n \in 1 .. Len(Tail(down[c])) : n + 1 \in 1 .. Len(down[c])
          BY <1>2, <1>3
        <5> QED
          BY <1>3, <3>1, <3>2, <5>1 DEF AllAnswer
      <4>2. \A n \in 1 .. Len(got[c]) + 1 : Append(got[c], Head(down[c]))[n] \in Answers(c)
        <5>1. Head(down[c]) \in Answers(c)
          BY <1>3, <3>1, <3>2 DEF AllAnswer
        <5> QED
          BY <1>2, <1>4, <3>1, <3>2, <5>1 DEF AllAnswer
      <4> QED
        BY <1>4, <1>5, <2>1, <3>1, <3>2, <4>1, <4>2 DEF AllAnswer
    <3>3. CASE d # c
      BY <1>5, <2>1, <3>1, <3>3 DEF AllAnswer
    <3> QED
      BY <3>2, <3>3
  <2>3. conn \in Clients /\ (at \in {"line", "fields", "body"} => c # conn)
    BY <1>1 DEF HttpInv, PTypes
  <2>4. Active(conn)' => (hold = <<>> /\ AllAnswer(conn, out) /\ Len(out) + Back(conn) <= 1)'
    BY <1>1, <1>8, <2>1, <2>3 DEF HttpInv, Active, AllAnswer
  <2>5. counter' = CountAfter(Len(log))' /\ LatestReset'
    BY <1>1, AnswersSame DEF HttpInv
  <2>6. at' \in {"line", "fields", "body"} => out' = <<>> /\ got'[conn'] = <<>> /\ down'[conn'] = <<>>
    BY <1>1, <1>5, <2>3 DEF HttpInv
  <2>7. at' # "echo" /\ (at' = "body" => ask'[conn'] \in {"reset", "badBody"})
    BY <1>1 DEF HttpInv
  <2> QED
    BY <2>2, <2>4, <2>5, <2>6, <2>7 DEF HttpInv
<1> QED
  BY <1>6, <1>7, <1>9, <1>10 DEF PInv

LEMMA LeaveKeeps == ASSUME PInv, NEW c \in Clients, Leave(c) PROVE PInv'
<1>1. /\ PTypes /\ Fresh /\ EchoInv /\ HttpInv /\ side[c] \in {"open", "shut"}
      /\ side' = [side EXCEPT ![c] = "gone"] /\ down' = [down EXCEPT ![c] = <<>>]
      /\ UNCHANGED <<program, ask, at, conn, in, out, hold, counter, log, backlog, closed, up, sent, got>>
  BY DEF PInv, Leave, server
<1>2. /\ side' \in [Clients -> {"new", "open", "shut", "gone"}] /\ down' \in [Clients -> Seq(Token)]
      /\ side'[c] = "gone" /\ down'[c] = <<>>
      /\ \A d \in Clients : d # c => side'[d] = side[d] /\ down'[d] = down[d]
  <2>1. <<>> \in Seq(Token)
    OBVIOUS
  <2> QED
    BY <1>1, <2>1 DEF PTypes
<1>3. /\ program = "echo" => \A d \in Clients :
           (Run(d, got[d], 0) /\ Run(d, down[d], Len(got[d])) /\ Back(d) <= sent[d])'
      /\ program = "http" => \A d \in Clients :
           (AllAnswer(d, got[d]) /\ AllAnswer(d, down[d]) /\ Back(d) <= 1)'
      /\ \A d \in Clients : Back(d)' \in Nat /\ Back(d)' <= Back(d) /\ Len(down'[d]) <= Queue
  <2>1. \A d \in Clients : down'[d] = down[d] \/ down'[d] = <<>>
    BY <1>2
  <2>2. \A d \in Clients : sent'[d] \in Nat /\ sent[d] <= sent'[d]
    BY <1>1, LenTypes
  <2> QED
    BY <1>1, <1>2, <2>1, <2>2, DownLost
<1>4. PTypes'
  <2>1. \A d \in Clients : Size(d)' = Size(d)
    BY <1>1 DEF Size, Reads
  <2>2. \A d \in Clients : (Len(up[d]) <= Queue /\ Len(down[d]) <= Queue /\ sent[d] <= Size(d))'
    BY <1>1, <1>3, <2>1 DEF PTypes
  <2> QED
    BY <1>1, <1>2, <2>2 DEF PTypes
<1>5. \A d \in Clients : side'[d] = "new" <=> side[d] = "new"
  BY <1>1, <1>2
<1>6. Fresh'
  <2>1. ASSUME NEW d \in Clients, (side[d] = "new" \/ Waiting(d))'
        PROVE  (~Active(d) /\ got[d] = <<>> /\ down[d] = <<>> /\ Run(d, up[d], 0) /\ Len(up[d]) = sent[d])'
    <3>1. ~Active(d) /\ got[d] = <<>> /\ down[d] = <<>> /\ Run(d, up[d], 0) /\ Len(up[d]) = sent[d]
      <4>1. side[d] = "new" \/ Waiting(d)
        BY <1>1, <1>5, <2>1 DEF Waiting
      <4> QED
        BY <1>1, <4>1 DEF Fresh
    <3>2. down'[d] = <<>>
      BY <1>2, <3>1
    <3> QED
      BY <1>1, <3>1, <3>2 DEF Active, Run
  <2>2. \A n \in 1 .. Len(backlog) : backlog[n] \in Clients
    BY <1>1, ElementOfSeq DEF PTypes
  <2>3. /\ \A m, n \in 1 .. Len(backlog') : backlog'[m] = backlog'[n] => m = n
        /\ \A n \in 1 .. Len(backlog') : side'[backlog'[n]] # "new"
    BY <1>1, <1>5, <2>2 DEF Fresh
  <2> QED
    BY <2>1, <2>3 DEF Fresh
<1>7. conn \in Clients
  BY <1>1 DEF PTypes
<1>8. EchoInv'
  <2>1. ASSUME program = "echo", Active(conn)', side'[conn] # "gone" PROVE Chain'
    <3>1. conn # c /\ side[conn] # "gone"
      BY <1>2, <1>7, <2>1
    <3>2. Chain /\ Back(conn)' = Back(conn)
      BY <1>1, <1>2, <1>7, <2>1, <3>1 DEF EchoInv, Active, Back
    <3> QED
      BY <1>1, <3>2 DEF Chain
  <2> QED
    BY <1>1, <1>3, <2>1 DEF EchoInv
<1>9. HttpInv'
  <2> SUFFICES ASSUME program = "http" PROVE HttpInv'
    BY <1>1 DEF HttpInv
  <2>1. \A d \in Clients : Answers(d)' = Answers(d)
    BY <1>1, AnswersSame
  <2>2. Active(conn)' => (hold = <<>> /\ AllAnswer(conn, out) /\ Len(out) + Back(conn) <= 1)'
    <3> SUFFICES ASSUME Active(conn)' PROVE (hold = <<>> /\ AllAnswer(conn, out) /\ Len(out) + Back(conn) <= 1)'
      OBVIOUS
    <3>1. hold = <<>> /\ AllAnswer(conn, out) /\ Len(out) + Back(conn) <= 1
      BY <1>1 DEF HttpInv, Active
    <3>2. Back(conn)' <= Back(conn) /\ Back(conn)' \in Nat /\ Back(conn) \in Nat /\ Len(out) \in Nat
      BY <1>1, <1>3, <1>7, BackNat, LenTypes
    <3>3. Len(out) + Back(conn)' <= 1
      BY <3>1, <3>2
    <3> QED
      BY <1>1, <1>7, <2>1, <3>1, <3>3 DEF AllAnswer
  <2>3. counter' = CountAfter(Len(log))' /\ LatestReset'
    BY <1>1, AnswersSame DEF HttpInv
  <2>4. at' \in {"line", "fields", "body"} => out' = <<>> /\ got'[conn'] = <<>> /\ down'[conn'] = <<>>
    BY <1>1, <1>2, <1>7 DEF HttpInv
  <2>5. at' # "echo" /\ (at' = "body" => ask'[conn'] \in {"reset", "badBody"})
    BY <1>1 DEF HttpInv
  <2> QED
    BY <1>3, <2>2, <2>3, <2>4, <2>5 DEF HttpInv
<1> QED
  BY <1>4, <1>6, <1>8, <1>9 DEF PInv

-----------------------------------------------------------------------------
(* The theorems.                                                           *)

LEMMA InitInv == ProgInit => PInv
<1> SUFFICES ASSUME ProgInit PROVE PInv
  OBVIOUS
<1>1. /\ <<>> \in Seq(Token) /\ <<>> \in Seq(Clients) /\ Len(<<>>) = 0 /\ ~(1 <= 0) /\ 1 .. 0 = {}
      /\ Buf \in Nat /\ Queue \in Nat /\ EchoBytes \in Nat
      /\ conn \in Clients
  BY ProgramsAssumption DEF ProgInit
<1>2. /\ at = "accept" /\ in = <<>> /\ out = <<>> /\ hold = <<>> /\ counter = 0 /\ log = <<>>
      /\ backlog = <<>> /\ closed = {}
      /\ \A c \in Clients : up[c] = <<>> /\ down[c] = <<>> /\ got[c] = <<>> /\ sent[c] = 0 /\ side[c] = "new"
  BY DEF ProgInit
<1>3. PTypes
  <2>1. /\ program \in {"echo", "http"} /\ ask \in [Clients -> Requests \cup {"bytes"}]
        /\ program = "http" => ask \in [Clients -> Requests]
    BY DEF ProgInit
  <2>2. /\ up \in [Clients -> Seq(Token)] /\ down \in [Clients -> Seq(Token)] /\ got \in [Clients -> Seq(Token)]
        /\ sent \in [Clients -> Nat] /\ side \in [Clients -> {"new", "open", "shut", "gone"}]
    BY <1>1 DEF ProgInit
  <2>3. \A c \in Clients : Len(up[c]) <= Queue /\ Len(down[c]) <= Queue /\ sent[c] <= Size(c)
    <3>1. \A c \in Clients : Size(c) \in Nat
      BY SizeType
    <3> QED
      BY <1>1, <1>2, <3>1
  <2>4. in \in Seq(Token) /\ Len(in) <= Buf /\ out \in Seq(Token) /\ Len(out) <= Buf
        /\ hold \in Seq(Token) /\ Len(hold) <= 1
    BY <1>1, <1>2
  <2> QED
    BY <1>1, <1>2, <2>1, <2>2, <2>3, <2>4 DEF PTypes
<1>4. Fresh
  BY <1>1, <1>2 DEF Fresh, Active, Waiting, Run
<1>5. \A c \in Clients : Back(c) = 0
  <2> SUFFICES ASSUME NEW c \in Clients PROVE Len(got[c]) + Len(down[c]) = 0
    BY DEF Back
  <2>1. Len(got[c]) = 0 /\ Len(down[c]) = 0
    BY <1>1, <1>2
  <2> QED
    BY <2>1
<1>6. EchoInv
  BY <1>1, <1>2, <1>5 DEF EchoInv, Active, Run
<1>7. HttpInv
  <2>1. Resets = {}
    BY <1>1, <1>2 DEF Resets
  <2>2. CountAfter(0) = 0
    <3>1. {n \in 1 .. 0 : ask[log[n]] = "reset"} = {}
      BY <1>1
    <3> QED
      BY <3>1 DEF CountAfter
  <2> QED
    BY <1>1, <1>2, <1>5, <2>1, <2>2 DEF HttpInv, LatestReset, AllAnswer, Active
<1> QED
  BY <1>3, <1>4, <1>6, <1>7 DEF PInv

LEMMA NextKeeps == PInv /\ Done /\ [ProgNext]_progVars => PInv'
<1> SUFFICES ASSUME PInv, Done, [ProgNext]_progVars PROVE PInv'
  OBVIOUS
<1>1. CASE UNCHANGED progVars
  <2>1. UNCHANGED <<program, ask, at, conn, in, out, hold, counter, log, backlog, closed, up, down, sent, side, got>>
    BY <1>1 DEF progVars, server, clients
  <2>2. PTypes'
    BY <2>1 DEF PInv, PTypes, Size, Reads
  <2>3. Fresh'
    BY <2>1 DEF PInv, Fresh, Active, Waiting, Run
  <2>4. \A c \in Clients : Answers(c) \subseteq Answers(c)'
    BY <2>1, AnswersSame
  <2>5. /\ program = "echo" => \A c \in Clients :
             (Run(c, got[c], 0) /\ Run(c, down[c], Len(got[c])) /\ Back(c) <= sent[c])'
        /\ program = "http" => \A c \in Clients :
             (AllAnswer(c, got[c]) /\ AllAnswer(c, down[c]) /\ Back(c) <= 1)'
    BY <2>1, <2>4, GotKept DEF PInv
  <2>6. EchoInv'
    BY <2>1, <2>5 DEF PInv, EchoInv, Active, Chain, Back
  <2>7. HttpInv'
    BY <2>1, <2>5, AnswersSame DEF PInv, HttpInv, Active, AllAnswer, Back
  <2> QED
    BY <2>2, <2>3, <2>6, <2>7 DEF PInv
<1>2. ASSUME Serve PROVE PInv'
  BY <1>2, AcceptKeeps, EchoKeeps, ReadLineKeeps, ReadFieldsKeeps, ReadBodyKeeps, InputEndsKeeps,
     WriteTokenKeeps, WrittenKeeps, WriteFailsKeeps, CloseKeeps, FillKeeps DEF Serve
<1>3. ASSUME NEW c \in Clients, Client(c) PROVE PInv'
  BY <1>3, ConnectKeeps, SendKeeps, ShutKeeps, ReceiveKeeps, LeaveKeeps DEF Client
<1> QED
  BY <1>1, <1>2, <1>3, AcceptFailsKeeps DEF ProgNext

\* Only Accept, Connect and a close change who is done, waits or is served.
LEMMA DoneKept ==
  ASSUME Done, UNCHANGED <<conn, backlog, closed>>, at' \in {"accept", "ended"} \/ at \notin {"accept", "ended"},
         \A c \in closed : side'[c] # "new"
  PROVE  Done'
BY DEF Done, Active, Waiting

LEMMA DoneStep == PInv /\ Done /\ [ProgNext]_progVars => Done'
<1> SUFFICES ASSUME PInv, Done, [ProgNext]_progVars PROVE Done'
  OBVIOUS
<1>1. /\ PTypes /\ Fresh /\ \A c \in closed : side[c] # "new" /\ c \in Clients
      /\ \A c \in closed : ~Active(c) /\ ~Waiting(c)
  BY DEF PInv, PTypes, Done
<1>2. ASSUME at \notin {"accept", "ended"}, CloseFd, side' = side PROVE Done'
  <2>1. conn \in Clients /\ Active(conn)
    BY <1>1, <1>2 DEF PTypes, Active
  <2>2. side[conn] # "new" /\ ~Waiting(conn)
    BY <1>1, <2>1 DEF Fresh
  <2>3. closed' = closed \cup {conn} /\ at' = "accept" /\ UNCHANGED <<conn, backlog>>
    BY <1>2 DEF CloseFd
  <2> QED
    BY <1>1, <1>2, <2>2, <2>3 DEF Done, Active, Waiting
<1>3. CASE Accept
  <2>1. /\ conn' = Head(backlog) /\ backlog' = Tail(backlog) /\ backlog # <<>> /\ UNCHANGED <<closed, side>>
    BY <1>3 DEF Accept, clients
  <2>2. /\ Head(backlog) = backlog[1] /\ Len(backlog) \in Nat \ {0} /\ Len(Tail(backlog)) = Len(backlog) - 1
        /\ \A n \in 1 .. Len(Tail(backlog)) : Tail(backlog)[n] = backlog[n + 1]
    <3>1. backlog \in Seq(Clients)
      BY <1>1 DEF PTypes
    <3> QED
      BY <2>1, <3>1, EmptySeq, LenProperties, HeadTailProperties
  <2>3. ASSUME NEW c \in closed PROVE ~Active(c)' /\ ~Waiting(c)'
    <3>1. \A n \in 1 .. Len(backlog) : backlog[n] # c
      BY <1>1 DEF Waiting
    <3>2. c # conn'
      BY <2>1, <2>2, <3>1
    <3>3. \A n \in 1 .. Len(backlog') : backlog'[n] # c
      BY <2>1, <2>2, <3>1
    <3> QED
      BY <3>2, <3>3 DEF Active, Waiting
  <2> QED
    BY <1>1, <2>1, <2>3 DEF Done
<1>4. ASSUME NEW c \in Clients, Connect(c) PROVE Done'
  <2>1. /\ side[c] = "new" /\ side' = [side EXCEPT ![c] = "open"] /\ backlog' = Append(backlog, c)
        /\ UNCHANGED <<at, conn, closed>>
    BY <1>4 DEF Connect
  <2>2. /\ Len(backlog) \in Nat /\ Len(backlog') = Len(backlog) + 1 /\ backlog'[Len(backlog) + 1] = c
        /\ \A n \in 1 .. Len(backlog) : backlog'[n] = backlog[n]
    BY <1>1, <2>1, LenProperties, AppendProperties DEF PTypes
  <2>3. ASSUME NEW d \in closed PROVE ~Active(d)' /\ ~Waiting(d)' /\ side'[d] # "new"
    <3>1. d # c /\ d \in Clients /\ ~Active(d) /\ \A n \in 1 .. Len(backlog) : backlog[n] # d
      BY <1>1, <2>1 DEF Waiting
    <3>2. \A n \in 1 .. Len(backlog') : backlog'[n] # d
      BY <2>2, <3>1
    <3>3. side'[d] = side[d]
      BY <1>1, <2>1, <3>1 DEF PTypes
    <3> QED
      BY <1>1, <2>1, <3>1, <3>2, <3>3 DEF Active, Waiting
  <2> QED
    BY <2>1, <2>3 DEF Done
<1>5. CASE UNCHANGED <<conn, backlog, closed, side>>
           /\ (at' \in {"accept", "ended"} \/ at \notin {"accept", "ended"})
  BY <1>1, <1>5, DoneKept
<1>6. ASSUME NEW k \in 1 .. Buf, Fill(k) PROVE Done'
  BY <1>5, <1>6 DEF Fill, Reading, clients
<1>7. CASE Echo \/ ReadLine \/ ReadFields \/ ReadBody \/ InputEnds \/ WriteToken \/ Written
  BY <1>5, <1>7 DEF Echo, ReadLine, ReadFields, ReadBody, InputEnds, Reading, WriteToken, Written, clients
<1>8. CASE WriteFails
  BY <1>2, <1>5, <1>8 DEF WriteFails, clients
<1>9. CASE Close
  BY <1>2, <1>9 DEF Close, CloseFd, clients
<1>10. CASE AcceptFails
  BY <1>5, <1>10 DEF AcceptFails, clients
<1>11. ASSUME NEW c \in Clients, Send(c) \/ Shut(c) \/ Receive(c) \/ Leave(c) PROVE Done'
  <2>1. UNCHANGED <<at, conn, backlog, closed>> /\ (side' = side \/ side' \in
          {[side EXCEPT ![c] = "shut"], [side EXCEPT ![c] = "gone"]})
    BY <1>11 DEF Send, Shut, Receive, Leave, server
  <2>2. \A d \in closed : side'[d] # "new"
    BY <1>1, <2>1 DEF PTypes
  <2> QED
    BY <2>1, <2>2, DoneKept
<1>12. CASE UNCHANGED progVars
  BY <1>5, <1>12 DEF progVars, server, clients
<1> QED
  BY <1>3, <1>4, <1>6, <1>7, <1>8, <1>9, <1>10, <1>11, <1>12 DEF ProgNext, Serve, Client

\* The invariant of the two programs.
THEOREM ProgInvariance == ProgSpec => [](PInv /\ Done)
<1>1. ProgInit => PInv /\ Done
  BY InitInv DEF ProgInit, Done
<1> QED
  BY <1>1, NextKeeps, DoneStep, PTL DEF ProgSpec

LEMMA TokenConcat ==
  ASSUME NEW s \in Seq(Token), NEW t \in Seq(Token)
  PROVE  /\ s \o t \in Seq(Token) /\ Len(s \o t) = Len(s) + Len(t) /\ Len(s) \in Nat /\ Len(t) \in Nat
         /\ \A n \in 1 .. Len(s) + Len(t) : (s \o t)[n] = IF n <= Len(s) THEN s[n] ELSE t[n - Len(s)]
BY ConcatProperties, LenProperties

\* What the client of the echo has and what is on its way are its first bytes.
LEMMA EchoRight ==
  ASSUME PInv, program = "echo", NEW c \in Clients
  PROVE  IsPrefix(got[c] \o down[c], Bytes(c, EchoBytes))
<1> DEFINE s == got[c] \o down[c]
           t == Bytes(c, EchoBytes)
<1>1. /\ got[c] \in Seq(Token) /\ down[c] \in Seq(Token) /\ sent[c] \in Nat /\ EchoBytes \in Nat
      /\ Run(c, got[c], 0) /\ Run(c, down[c], Len(got[c]))
      /\ Len(got[c]) + Len(down[c]) <= sent[c] /\ sent[c] <= EchoBytes
  BY LenTypes, ProgTypes DEF PInv, PTypes, EchoInv, Size, Back
<1>2. PICK k \in Nat : k = Len(s)
  <2>1. s \in Seq(Token)
    BY <1>1, TokenConcat
  <2> QED
    BY <2>1, LenProperties
<1>3. s \in Seq(Token) /\ k <= EchoBytes
  <2>1. k = Len(got[c]) + Len(down[c])
    BY <1>1, <1>2, TokenConcat
  <2>2. k <= sent[c] /\ sent[c] <= EchoBytes
    BY <1>1, <2>1
  <2>3. k <= EchoBytes
    BY <1>1, <2>2
  <2> QED
    BY <1>1, <2>3, TokenConcat
<1>4. ASSUME NEW n \in 1 .. k PROVE s[n] = <<c, n>>
  <2>1. PICK g \in Nat, d \in Nat : g = Len(got[c]) /\ d = Len(down[c]) /\ k = g + d
    BY <1>1, <1>2, TokenConcat
  <2>2. s[n] = IF n <= g THEN got[c][n] ELSE down[c][n - g]
    BY <1>1, <2>1, TokenConcat
  <2>3. CASE n <= g
    <3>1. n \in 1 .. g /\ 0 + n = n
      BY <2>1, <2>3
    <3> QED
      BY <1>1, <2>1, <2>2, <2>3, <3>1 DEF Run
  <2>4. CASE ~(n <= g)
    <3>1. n - g \in 1 .. d
      <4>0. k = g + d
        BY <2>1, Zenon
      <4>1. n \in Nat /\ n <= g + d
        BY <4>0
      <4> QED
        BY <2>4, <4>1
    <3>2. g + (n - g) = n
      OBVIOUS
    <3> QED
      BY <1>1, <2>1, <2>2, <2>4, <3>1, <3>2 DEF Run
  <2> QED
    BY <2>3, <2>4
<1>5. t \in Seq(Token) /\ Len(t) = EchoBytes /\ \A n \in 1 .. EchoBytes : t[n] = <<c, n>>
  <2>1. t = [n \in 1 .. EchoBytes |-> <<c, n>>]
    BY DEF Bytes
  <2>2. \A n \in 1 .. EchoBytes : <<c, n>> \in Token
    BY <1>1 DEF Token
  <2>3. t \in [1 .. EchoBytes -> Token] /\ DOMAIN t = 1 .. EchoBytes
    BY <2>1, <2>2
  <2>4. t \in Seq(Token)
    BY <1>1, <2>3
  <2>5. Len(t) = EchoBytes
    BY <1>1, <2>3, <2>4, LenProperties
  <2> QED
    BY <2>1, <2>4, <2>5
<1> HIDE DEF s, t
<1>6. /\ SubSeq(s, 1, k) \in Seq(Token) /\ Len(SubSeq(s, 1, k)) = k /\ \A n \in 1 .. k : SubSeq(s, 1, k)[n] = s[n]
      /\ SubSeq(t, 1, k) \in Seq(Token) /\ Len(SubSeq(t, 1, k)) = k /\ \A n \in 1 .. k : SubSeq(t, 1, k)[n] = t[n]
  <2>1. k \in 0 .. Len(s) /\ k \in 0 .. Len(t)
    BY <1>1, <1>2, <1>3, <1>5
  <2> QED
    BY <1>3, <1>5, <2>1, TokenFront
<1>7. \A n \in 1 .. k : SubSeq(s, 1, k)[n] = SubSeq(t, 1, k)[n]
  <2>1. \A n \in 1 .. k : n \in 1 .. EchoBytes
    BY <1>1, <1>3
  <2> QED
    BY <1>4, <1>5, <1>6, <2>1
<1>8. SubSeq(s, 1, k) = SubSeq(t, 1, k)
  BY <1>6, <1>7, SeqEqual
<1>9. IsPrefix(s, t)
  BY <1>2, <1>3, <1>5, <1>8 DEF IsPrefix
<1> QED
  BY <1>9 DEF s, t

\* A sequence of one answer at most.
LEMMA AtMostOne ==
  ASSUME NEW s \in Seq(Token), Len(s) <= 1, NEW A, \A n \in 1 .. Len(s) : s[n] \in A
  PROVE  s \in {<<>>} \cup {<<a>> : a \in A}
<1>1. Len(s) \in Nat
  BY LenProperties
<1>2. CASE Len(s) = 0
  BY <1>2, EmptySeq
<1>3. CASE Len(s) = 1
  <2>1. s[1] \in A /\ s[1] \in Token
    BY <1>3, ElementOfSeq
  <2>2. <<s[1]>> \in Seq(Token) /\ Len(<<s[1]>>) = 1 /\ <<s[1]>>[1] = s[1]
    BY <2>1
  <2>3. \A n \in 1 .. Len(s) : s[n] = <<s[1]>>[n]
    BY <1>3, <2>2
  <2>4. s = <<s[1]>>
    BY <1>3, <2>2, <2>3, SeqEqual
  <2> QED
    BY <2>1, <2>4
<1>4. Len(s) = 0 \/ Len(s) = 1
  <2>1. PICK k \in Nat : k = Len(s)
    BY <1>1
  <2>2. k <= 1
    BY <2>1, Zenon
  <2>3. k = 0 \/ k = 1
    BY <2>2
  <2> QED
    BY <2>1, <2>3, Zenon
<1> QED
  BY <1>2, <1>3, <1>4

\* At most one answer is with the client of a request or on its way to it.
LEMMA HttpRight ==
  ASSUME PInv, program = "http", NEW c \in Clients
  PROVE  got[c] \o down[c] \in {<<>>} \cup {<<a>> : a \in Answers(c)}
<1>1. /\ got[c] \in Seq(Token) /\ down[c] \in Seq(Token)
      /\ AllAnswer(c, got[c]) /\ AllAnswer(c, down[c]) /\ Len(got[c]) + Len(down[c]) <= 1
  BY LenTypes DEF PInv, HttpInv, Back
<1>2. PICK g \in Nat, d \in Nat : g = Len(got[c]) /\ d = Len(down[c])
  BY <1>1, LenProperties
<1>3. /\ got[c] \o down[c] \in Seq(Token) /\ Len(got[c] \o down[c]) = g + d /\ g + d <= 1
      /\ \A n \in 1 .. g + d : (got[c] \o down[c])[n] = IF n <= g THEN got[c][n] ELSE down[c][n - g]
  BY <1>1, <1>2, TokenConcat
<1>4. ASSUME NEW n \in 1 .. g + d PROVE (got[c] \o down[c])[n] \in Answers(c)
  <2>1. CASE n <= g
    BY <1>1, <1>2, <1>3, <2>1 DEF AllAnswer
  <2>2. CASE ~(n <= g)
    <3>1. n - g \in 1 .. d
      BY <2>2
    <3> QED
      BY <1>1, <1>2, <1>3, <2>2, <3>1 DEF AllAnswer
  <2> QED
    BY <2>1, <2>2
<1> QED
  BY <1>3, <1>4, AtMostOne

\* Every variable of the programs has its type: the fdstream never holds more
\* than its buffers, the kernel never more than its queues.
THEOREM ProgTypeOKHolds == ProgSpec => []ProgTypeOK
<1>1. PInv => ProgTypeOK
  <2> SUFFICES ASSUME PTypes PROVE ProgTypeOK
    BY DEF PInv
  <2>1. Len(out) <= Buf + 1
    BY LenTypes, ProgTypes DEF PTypes
  <2> QED
    BY <2>1 DEF PTypes, ProgTypeOK
<1> QED
  BY <1>1, ProgInvariance, PTL

\* Nobody receives what was meant for another connection: the echo returns to
\* each client its own bytes in order, and the http program answers each
\* request with its own answer, at most once.
THEOREM OwnAnswerHolds == ProgSpec => []OwnAnswer
<1>1. PInv => OwnAnswer
  <2>1. PInv => program \in {"echo", "http"}
    BY DEF PInv, PTypes
  <2> QED
    BY <2>1, EchoRight, HttpRight DEF OwnAnswer
<1> QED
  BY <1>1, ProgInvariance, PTL
=============================================================================
