------------------------------- MODULE Header -------------------------------
(***************************************************************************)
(* class Header of yu/http/common.hpp: an object that is read from a       *)
(* stream line by line, added to, and written to be read by the other end. *)
(*                                                                         *)
(* fields_ maps the upper-case form of a name, by which iLess tells names  *)
(* apart, to the name as it first came and the value.  A line is a         *)
(* sequence of characters without its "\n".                                *)
(***************************************************************************)
EXTENDS StringUtils

CONSTANTS Inputs,      \* what is read, as sequences of lines
          Additions,   \* what add() is called with: <<key, value>>
          MaxReads,    \* bound: calls of read()
          MaxLines     \* bound: lines of a header that add() is called on

ASSUME HeaderAssumption == MaxReads \in Nat /\ MaxLines \in Nat

VARIABLES
  headerAt,    \* "idle", "reading", or "threw" a TransferError
  header,      \* the object: [cookies, fields]
  local,       \* set_cookies and fields of read()
  lines,       \* the lines not read yet
  reads,       \* how many calls of read() there were
  given,       \* the lines of the last of them
  history,     \* the lines the object stands for, those of add() included
  sent         \* the object written last, once one was: <<>> or <<it>>

headerVars == <<headerAt, header, local, lines, reads, given, history, sent>>

SetCookie == <<83, 101, 116, 45, 67, 111, 111, 107, 105, 101>>
Blanks == {32, 9}
CR == 13
ColonChar == 58
CommaChar == 44
NoFields == [cookies |-> <<>>, fields |-> <<>>]

HeaderInit ==
  /\ headerAt = "idle" /\ header = NoFields /\ local = NoFields
  /\ lines = <<>> /\ reads = 0 /\ given = <<>> /\ history = <<>> /\ sent = <<>>

\* Mutant of WithField: two values of a name are joined even if one is empty.
WithFieldJoined(h, key, value) ==
  LET k == toupper(key) IN
  IF iequal(key, SetCookie) THEN [h EXCEPT !.cookies = Append(@, value)]
  ELSE IF k \notin DOMAIN h.fields THEN [h EXCEPT !.fields = (k :> [name |-> key, value |-> value]) @@ @]
  ELSE [h EXCEPT !.fields[k].value = @ \o <<CommaChar>> \o value]

\* A name once there keeps its spelling; values are joined by commas, but an
\* empty one gives way to the next.
WithField(h, key, value) ==
  LET k == toupper(key) IN
  IF iequal(key, SetCookie) THEN [h EXCEPT !.cookies = Append(@, value)]
  ELSE IF k \notin DOMAIN h.fields THEN [h EXCEPT !.fields = (k :> [name |-> key, value |-> value]) @@ @]
  ELSE IF h.fields[k].value = <<>> THEN [h EXCEPT !.fields[k].value = value]
  ELSE [h EXCEPT !.fields[k].value = @ \o <<CommaChar>> \o value]

AddField(key, value) ==
  /\ headerAt = "idle" /\ sent = <<>> /\ Len(history) <= MaxLines
  /\ header' = WithField(header, key, strip(value, Blanks))
  /\ history' = Append(history, key \o <<ColonChar>> \o value)
  /\ UNCHANGED <<headerAt, local, lines, reads, given, sent>>

Enter(input) ==
  /\ headerAt = "idle" /\ sent = <<>>
  /\ headerAt' = "reading" /\ lines' = input /\ local' = NoFields /\ given' = input
  /\ UNCHANGED <<header, history>>

StartRead(input) ==
  /\ reads < MaxReads /\ reads' = reads + 1
  /\ Enter(input) /\ UNCHANGED sent

\* A line that is no "key:value", or whose key is not at its beginning.
Throws(line) ==
  LET tokens == split(line, ColonChar, 2) IN
  Len(tokens) # 2 \/ strip(tokens[1], Blanks) # tokens[1]

IsEnd(line) == rstrip(line, {CR}) = <<>>
AtEndOfHeader == lines # <<>> => IsEnd(Head(lines))

\* A turn of the loop in read().
ReadField ==
  /\ headerAt = "reading" /\ ~AtEndOfHeader
  /\ LET line == rstrip(Head(lines), {CR})
         tokens == split(line, ColonChar, 2) IN
     IF Throws(line) THEN headerAt' = "threw" /\ local' = local
     ELSE headerAt' = headerAt /\ local' = WithField(local, tokens[1], strip(tokens[2], Blanks))
  /\ lines' = Tail(lines)
  /\ UNCHANGED <<header, reads, given, history, sent>>

\* The empty line, or the end of the stream, which counts as one.
Block(ls) == SubSeq(ls, 1, SelectInSeq(Append(ls, <<>>), IsEnd) - 1)
EndRead ==
  /\ headerAt = "reading" /\ AtEndOfHeader
  /\ headerAt' = "idle" /\ header' = local
  /\ lines' = IF lines = <<>> THEN lines ELSE Tail(lines)
  /\ history' = Block(given)
  /\ UNCHANGED <<local, reads, given, sent>>

\* The program catches the TransferError and goes on with the object.
Catch ==
  /\ headerAt = "threw" /\ headerAt' = "idle"
  /\ UNCHANGED <<header, local, lines, reads, given, history, sent>>

\* write(): the cookies, then the fields in the order of iLess.
Written(h) ==
  LET line(name, value) == name \o <<ColonChar, 32>> \o value \o <<CR>>
      order == SetToSortSeq(DOMAIN h.fields, iless)
  IN [n \in DOMAIN h.cookies |-> line(SetCookie, h.cookies[n])]
     \o [n \in DOMAIN order |-> line(h.fields[order[n]].name, h.fields[order[n]].value)]
     \o <<<<CR>>>>

\* The other end reads what write() wrote, into an object of its own, which
\* takes the place of this one here.
Send ==
  /\ Enter(Written(header)) /\ sent' = <<header>>
  /\ UNCHANGED reads

HeaderNext ==
  \/ \E a \in Additions : AddField(a[1], a[2])
  \/ \E input \in Inputs : StartRead(input)
  \/ ReadField \/ EndRead \/ Catch \/ Send

HeaderSpec == HeaderInit /\ [][HeaderNext]_headerVars

-----------------------------------------------------------------------------
(* Properties.                                                             *)

\* The name and the value of a line, and what a block of lines says of a name.
Key(line) == SubSeq(line, 1, SelectInSeq(line, LAMBDA c : c = ColonChar) - 1)
Value(line) == strip(SubSeq(line, Len(Key(line)) + 2, Len(line)), Blanks \cup {CR})
Said(ls, name) == SelectSeq(ls, LAMBDA line : toupper(Key(line)) = name)
ValuesOf(ls) == [n \in DOMAIN ls |-> Value(ls[n])]
FromFirst(vs) ==
  LET full == SelectInSeq(vs, LAMBDA v : v # <<>>) IN
  IF full = 0 THEN <<>> ELSE SubSeq(vs, full, Len(vs))

Meaning(ls) ==
  [cookies |-> ValuesOf(Said(ls, toupper(SetCookie))),
   fields |-> [name \in {toupper(Key(ls[n])) : n \in DOMAIN ls} \ {toupper(SetCookie)} |->
                 [name |-> Key(Said(ls, name)[1]),
                  value |-> join(FromFirst(ValuesOf(Said(ls, name))), <<CommaChar>>)]]]

\* The object is what its lines say: the values of a name, however it is spelled,
\* in their order and each kept apart when it is a cookie, and after a read()
\* that threw what it was before.
MeansItsLines == header = Meaning(history)

\* What write() writes is read back as the same header, whatever was read and
\* added before.
ReadsBack == sent # <<>> => headerAt # "threw" /\ (headerAt = "idle" => header = sent[1])

\* What a Header promises.
HeaderRight == MeansItsLines /\ ReadsBack
=============================================================================
