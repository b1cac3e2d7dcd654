----------------------------- MODULE JsonGrammar -----------------------------
(***************************************************************************)
(* What a JSON text means, as a grammar: the values of a type that a text  *)
(* denotes, one or none, found by trying every way to take the text apart. *)
(* "null" is not in it: no type of yu/json.hpp reads it.  The properties of *)
(* JsonCoding are stated against it.                                       *)
(***************************************************************************)
EXTENDS JsonCoding
LOCAL INSTANCE SequencesExt

Strip(s) ==
  LET ink == {i \in DOMAIN s : s[i] \notin White} IN
  IF ink = {} THEN <<>>
  ELSE SubSeq(s, CHOOSE i \in ink : \A j \in ink : i <= j,
                 CHOOSE i \in ink : \A j \in ink : j <= i)

Before(s, i) == SubSeq(s, 1, i - 1)
Behind(s, i) == SubSeq(s, i + 1, Len(s))
Places(s, c) == {i \in DOMAIN s : s[i] = c}

\* The ways to read s as a number: integer part, fraction, exponent.
Numerals(s) ==
  LET d == IF s # <<>> /\ s[1] = Minus THEN Tail(s) ELSE s
      AllDigits(t) == t # <<>> /\ \A i \in DOMAIN t : t[i] \in Digits
      Parts(i, j) == [int |-> SubSeq(d, 1, i), frac |-> SubSeq(d, i + 1, j),
                      exp |-> SubSeq(d, j + 1, Len(d))]
      Splits == IF \A i \in DOMAIN d : d[i] \in Digits \cup {Dot, SmallE, CapitalE, Plus, Minus}
                THEN 0 .. Len(d) ELSE {}
  IN {n \in {Parts(i, j) : i \in Splits, j \in Splits} :
        /\ n.int \o n.frac \o n.exp = d
        /\ AllDigits(n.int) /\ (n.int[1] = Zero => Len(n.int) = 1)
        /\ n.frac # <<>> => n.frac[1] = Dot /\ AllDigits(Tail(n.frac))
        /\ n.exp # <<>> =>
             /\ n.exp[1] \in {SmallE, CapitalE}
             /\ \/ AllDigits(Tail(n.exp))
                \/ Len(n.exp) > 1 /\ n.exp[2] \in {Plus, Minus} /\ AllDigits(Behind(n.exp, 2))}

\* An integer type takes the integer part of a number without exponent, and
\* what the number comes to if there is one.  One that does not fit is refused.
IntegersOf(type, s) ==
  LET negative == s[1] = Minus
      Signed(n) == IF negative THEN -n ELSE n
      OfPart(n) == Signed(Decimal(n.int))
      Of(n) == IF n.exp = <<>> THEN OfPart(n) ELSE Signed(Scale(Stold(s), 0))
      Fits(n) == IF n.exp = <<>> THEN OfPart(n) \in type.min .. type.max
                 ELSE Signed(Scale(Stold(s), 1)) \in type.min .. type.max
  IN {Of(n) : n \in {m \in Numerals(s) : Fits(m) /\ (negative => type.min < 0)}}

\* The contents of a string: characters and escapes.
HexNumber(h) == FoldLeft(LAMBDA n, b : 16 * n + HexValue(b), 0, h)
IsUnicodeEscape(s) ==
  /\ Len(s) = 6 /\ s[1] = Backslash /\ s[2] = LetterU
  /\ \A i \in 3 .. 6 : HexValue(s[i]) # NotHex
Escapes(s) ==
  LET h == HexNumber(SubSeq(s, 3, 6))
      l == HexNumber(SubSeq(s, 9, 12)) IN
  CASE Len(s) = 1 -> IF s[1] \in {Quote, Backslash} THEN {} ELSE {s}
    [] Len(s) = 2 -> IF s[1] = Backslash
                     THEN {<<c>> : c \in {c \in DOMAIN NamedEscape : NamedEscape[c] = s[2]}}
                     ELSE {}
    [] Len(s) = 6 -> IF IsUnicodeEscape(s) /\ ~Surrogate(h) THEN {Encode(h)} ELSE {}
    [] Len(s) = 12 -> IF /\ IsUnicodeEscape(SubSeq(s, 1, 6)) /\ h \in 55296 .. 56319
                         /\ IsUnicodeEscape(SubSeq(s, 7, 12)) /\ l \in 56320 .. 57343
                      THEN {Encode(65536 + 1024 * (h % 1024) + (l % 1024))} ELSE {}

RECURSIVE Contents(_)
Contents(s) ==
  IF s = <<>> THEN {<<>>}
  ELSE UNION {{e \o rest : e \in Escapes(SubSeq(s, 1, n)), rest \in Contents(Behind(s, n))} :
              n \in {n \in {1, 2, 6, 12} : n <= Len(s) /\ Escapes(SubSeq(s, 1, n)) # {}}}

\* The values of the type that s denotes, into a variable that holds old.
RECURSIVE Means(_, _, _)
RECURSIVE Elements(_, _)
RECURSIVE Members(_, _, _)
Means(type, old, t) ==
  LET s == Strip(t)
      inner == SubSeq(s, 2, Len(s) - 1)
      Within(first, last) == Len(s) >= 2 /\ s[1] = first /\ s[Len(s)] = last
      Enclosed(empty, full) ==
        IF ~Within(OpenOf(type), CloseOf(type)) THEN {}
        ELSE IF Strip(inner) = <<>> THEN {empty} ELSE full
  IN CASE type.kind = "bool" -> {b \in BOOLEAN : s = IF b THEN True ELSE False}
       [] type.kind = "int" -> IF s = <<>> THEN {} ELSE IntegersOf(type, s)
       [] type.kind = "double" -> IF Numerals(s) = {} THEN {} ELSE {s}
       [] type.kind = "string" -> IF Within(Quote, Quote) THEN Contents(inner) ELSE {}
       [] type.kind = "vector" -> Enclosed(<<>>, Elements(type.of, inner))
       [] type.kind = "map" -> Enclosed(<<>>, Members(type, <<>>, inner))
       [] type.kind = "object" -> Enclosed(old, Members(type, old, inner))
       [] type.kind = "any" ->
            {Skipped : k \in {k \in {Bool, Double, String, Vector(AnyValue), Map(AnyValue)} :
                                Means(k, Skipped, s) # {}}}

Elements(of, s) ==
  {<<v>> : v \in Means(of, Default(of), s)}
  \cup UNION {{<<v>> \o rest : v \in Means(of, Default(of), Before(s, i)),
                               rest \in Elements(of, Behind(s, i))} : i \in Places(s, Comma)}

\* A later member of the same name replaces an earlier one.
Members(type, acc, s) ==
  LET With(key, t) ==
        CASE type.kind = "map" ->
               {(key :> v) @@ acc : v \in Means(type.of, Default(type.of), t)}
          [] type.kind = "object" /\ key \in DOMAIN type.members ->
               {[acc EXCEPT ![key] = v] : v \in Means(type.members[key], acc[key], t)}
          [] OTHER -> {acc : v \in Means(AnyValue, Skipped, t)}
      One(t) == UNION {UNION {With(key, Behind(t, i)) : key \in Means(String, <<>>, Before(t, i))} :
                       i \in Places(t, Colon)}
  IN One(s) \cup UNION {UNION {Members(type, a, Behind(s, i)) : a \in One(Before(s, i))} :
                        i \in Places(s, Comma)}

-----------------------------------------------------------------------------
(* Properties.                                                             *)

\* The stack of calls is as deep as the parser is, and every call but the
\* innermost waits for an item.
TypeOK ==
  /\ phase \in {"to_json", "parse", "rest", "done", "refused", "thrown"}
  /\ pos \in 1 .. Len(text) + 1
  /\ (stack # <<>>) <=> (phase = "parse")
  /\ \A i \in DOMAIN stack : stack[i].at \in {"begin", "item", "delim"}
  /\ \A i \in 1 .. Len(stack) - 1 : stack[i].at = "item"

\* from_json() accepts the texts of the grammar, no others, and reads what
\* they mean, whatever is nested in what and skipped on the way.
Reads ==
  /\ phase = "done" => target \in Means(job.type, job.old, text)
  /\ phase \in {"thrown", "refused"} => Means(job.type, job.old, text) = {}

RECURSIVE StringsOf(_, _)
StringsOf(type, v) ==
  CASE type.kind = "string" -> {v}
    [] type.kind = "vector" -> UNION {StringsOf(type.of, v[i]) : i \in DOMAIN v}
    [] type.kind = "map" -> UNION {{k} \cup StringsOf(type.of, v[k]) : k \in DOMAIN v}
    [] type.kind = "object" -> UNION {StringsOf(type.members[k], v[k]) : k \in DOMAIN v}
    [] OTHER -> {}

\* from_json() of to_json() gives the value back, in every layout.  Strings that
\* are not UTF-8 come back repaired.  (ascii_only breaks what lies beyond
\* U+FFFF: five hexadecimal digits are written where the parser reads four.)
RoundTrip ==
  LET strings == StringsOf(job.type, job.value) IN
  /\ "value" \in DOMAIN job /\ phase \in {"done", "refused", "thrown"}
  /\ job.ascii => \A s \in strings : \A i \in DOMAIN CodePoints(s) : CodePoints(s)[i] < 65536
  => /\ phase = "done"
     /\ \A s \in StringsOf(job.type, target) : WellFormed(s)
     /\ (\A s \in strings : WellFormed(s)) => target = job.value

\* When parse() throws, a vector, a map, a string or a number is as it was, and
\* every member of an object is as it was or has been read to its end.
RECURSIVE Whole(_, _, _)
Whole(type, old, new) ==
  IF type.kind = "object"
  THEN \A m \in DOMAIN new : Whole(type.members[m], old[m], new[m])
  ELSE \/ new = old
       \/ \E i, j \in DOMAIN text : new \in Means(type, old, SubSeq(text, i, j))
AllOrNothing ==
  phase = "thrown" =>
    /\ job.type.kind # "object" => target = job.old
    /\ Whole(job.type, job.old, target)

\* A number with an exponent comes to what it says, as an integer too.
ExponentCounts ==
  phase = "done" /\ job.type.kind = "int" => target \in Means(job.type, job.old, text)
==============================================================================
