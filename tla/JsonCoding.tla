----------------------------- MODULE JsonCoding -----------------------------
(***************************************************************************)
(* yu/json.hpp: to_json() of a value, from_json() of a text, and what is   *)
(* left of the destination when parse() throws.                            *)
(*                                                                         *)
(* A text is a sequence of bytes.  The parser is recursive: its calls are  *)
(* the frames of a stack, each with the type it reads and what it has read *)
(* so far, and every turn of a loop is a step.  A type is a record with    *)
(*   kind "bool", "double" or "string",                                    *)
(*   kind "int" and min and max, any of the integer types,                 *)
(*   kind "vector" or "map" and of, the type of the elements,              *)
(*   kind "object" and members, a class parsed by a MemberParser,          *)
(*   kind "any", whatever parseAny() skips.                                *)
(* A double is kept as its text: what std::stod makes of it, and how it is *)
(* printed, are the standard library's.                                    *)
(***************************************************************************)
EXTENDS Integers, Sequences, Utf8, TLC
LOCAL INSTANCE SequencesExt

CONSTANTS
  Values,   \* what is stringified: [type, old, value, pretty, ascii]
  Texts,    \* other texts that are parsed, by what reads them: [type, old, texts]
  Huge      \* bound: no integer type reaches it

VARIABLES
  job,      \* the member of Values at hand, or a text: [type, old, text]
  phase,    \* "to_json", "parse", "rest", "done"; "thrown" by the parser,
            \* "refused" because of what follows the value
  text,     \* the text
  pos,      \* the position of the stream: the next byte is text[pos]
  stack,    \* the calls of the parser, the outermost first
  target    \* the destination of parse()

vars == <<job, phase, text, pos, stack, target>>

Bool == [kind |-> "bool"]
Double == [kind |-> "double"]
String == [kind |-> "string"]
AnyValue == [kind |-> "any"]
Integer(lo, hi) == [kind |-> "int", min |-> lo, max |-> hi]
Vector(of) == [kind |-> "vector", of |-> of]
Map(of) == [kind |-> "map", of |-> of]
Object(members) == [kind |-> "object", members |-> members]
\* The arrays and objects inside parseAny().
SkipArray == [kind |-> "skip array"]
SkipObject == [kind |-> "skip object"]

Array(type) == type.kind \in {"vector", "skip array"}
Keyed(type) == type.kind \in {"map", "object", "skip object"}
Skipped == <<>>

\* The characters of the syntax.
Quote == 34
Backslash == 92
Comma == 44
Colon == 58
LetterU == 117
Minus == 45
Plus == 43
Dot == 46
Zero == 48
SmallE == 101
CapitalE == 69
OpenOf(type) == IF Array(type) THEN 91 ELSE 123
CloseOf(type) == IF Array(type) THEN 93 ELSE 125
White == {32, 9, 13, 10}
Digits == 48 .. 57
True == <<116, 114, 117, 101>>
False == <<102, 97, 108, 115, 101>>

\* The value a variable of the type is constructed with.
RECURSIVE Default(_)
Default(type) ==
  CASE type.kind = "bool" -> FALSE
    [] type.kind = "int" -> 0
    [] type.kind = "double" -> <<Zero>>
    [] type.kind = "object" -> [m \in DOMAIN type.members |-> Default(type.members[m])]
    [] OTHER -> <<>>

-----------------------------------------------------------------------------
(* The Stringifier.                                                        *)

\* namedEscapeChar()
NamedEscape == 34 :> 34 @@ 92 :> 92 @@ 47 :> 47 @@ 8 :> 98
               @@ 12 :> 102 @@ 10 :> 110 @@ 13 :> 114 @@ 9 :> 116

ControlChar(cp) ==
  cp \in 0 .. 31 \cup 127 .. 159 \cup {8232, 8233, 65279}

HexDigit(d) == IF d < 10 THEN 48 + d ELSE 87 + d

\* Mutant of Hex: without the std::setw(4).
HexShort(cp) ==
  LET n == CHOOSE n \in 1 .. 6 : cp < 16 ^ n /\ \A m \in 1 .. n - 1 : cp >= 16 ^ m
  IN [i \in 1 .. n |-> HexDigit((cp \div 16 ^ (n - i)) % 16)]

\* std::hex with std::setw(4): at least four digits.
Hex(cp) ==
  LET n == IF cp < 65536 THEN 4 ELSE IF cp < 1048576 THEN 5 ELSE 6
  IN [i \in 1 .. n |-> HexDigit((cp \div 16 ^ (n - i)) % 16)]

Escape(cp, ascii) ==
  IF cp \in DOMAIN NamedEscape THEN <<Backslash, NamedEscape[cp]>>
  ELSE IF ControlChar(cp) \/ (ascii /\ cp > 127) THEN <<Backslash, LetterU>> \o Hex(cp)
  ELSE Encode(cp)

StringText(s, ascii) ==
  LET cps == CodePoints(s) IN
  <<Quote>> \o FlattenSeq([i \in DOMAIN cps |-> Escape(cps[i], ascii)]) \o <<Quote>>

RECURSIVE IntText(_)
IntText(n) ==
  IF n < 0 THEN <<Minus>> \o IntText(-n)
  ELSE IF n < 10 THEN <<Zero + n>> ELSE IntText(n \div 10) \o <<Zero + (n % 10)>>

\* beginArray(), valueDelim() before each item, endArray(), and the same of
\* an object; newline_indent() is a new line.
Enclose(type, items, pretty) ==
  LET newline == IF pretty THEN <<10>> ELSE <<>> IN
  <<OpenOf(type)>> \o newline
  \o FlattenSeq([i \in DOMAIN items |->
                   (IF i = 1 THEN <<>> ELSE <<Comma>> \o newline) \o items[i]])
  \o newline \o <<CloseOf(type)>>

\* stringify() of every type.
RECURSIVE Stringify(_, _, _, _)
Stringify(type, v, pretty, ascii) ==
  LET keys == SetToSeq(DOMAIN v)
      TypeOf(key) == IF type.kind = "map" THEN type.of ELSE type.members[key]
      Member(key) == StringText(key, ascii) \o <<Colon>>
                     \o Stringify(TypeOf(key), v[key], pretty, ascii)
  IN CASE type.kind = "bool" -> IF v THEN True ELSE False
       [] type.kind = "int" -> IntText(v)
       [] type.kind = "double" -> v
       [] type.kind = "string" -> StringText(v, ascii)
       [] type.kind = "vector" ->
            Enclose(type, [i \in DOMAIN v |-> Stringify(type.of, v[i], pretty, ascii)], pretty)
       [] type.kind \in {"map", "object"} ->
            Enclose(type, [i \in DOMAIN keys |-> Member(keys[i])], pretty)

-----------------------------------------------------------------------------
(* The stream under the parser.                                            *)

EndOfFile == -1

\* peek() at position p.
Byte(p) == IF p <= Len(text) THEN text[p] ELSE EndOfFile

\* The first position from p on that holds none of the bytes.
After(bytes, p) ==
  CHOOSE i \in p .. Len(text) + 1 :
    Byte(i) \notin bytes /\ \A j \in p .. i - 1 : Byte(j) \in bytes

\* ws()
Ws(p) == After(White, p)

Here(s, p) == p + Len(s) - 1 <= Len(text) /\ SubSeq(text, p, p + Len(s) - 1) = s

-----------------------------------------------------------------------------
(* The parts without a loop over values: each yields where it ended and    *)
(* what it read, or throws.                                                *)

Read(end, val) == [ok |-> TRUE, end |-> end, val |-> val]
Failed == [ok |-> FALSE]

ReadBool(p) ==
  CASE Here(True, p) -> Read(p + 4, TRUE)
    [] Here(False, p) -> Read(p + 5, FALSE)
    [] OTHER -> Failed

\* getNumberPart()
ReadNumber(p) ==
  LET int  == IF Byte(p) = Minus THEN p + 1 ELSE p
      frac == IF Byte(int) = Zero THEN int + 1 ELSE After(Digits, int)
      exp  == IF Byte(frac) = Dot THEN After(Digits, frac + 1) ELSE frac
      expDigits == IF Byte(exp + 1) \in {Plus, Minus} THEN exp + 2 ELSE exp + 1
      end  == IF Byte(exp) \in {SmallE, CapitalE} THEN After(Digits, expDigits) ELSE exp
  IN IF \/ Byte(int) \notin Digits
        \/ Byte(frac) = Dot /\ Byte(frac + 1) \notin Digits
        \/ Byte(exp) \in {SmallE, CapitalE} /\ Byte(expDigits) \notin Digits
     THEN Failed ELSE Read(end, SubSeq(text, p, end - 1))

Decimal(digits) == FoldLeft(LAMBDA n, d : 10 * n + (d - Zero), 0, digits)

\* std::stoi and its like: the integer in front, whatever follows it.
Stoi(part) ==
  LET digits == SelectInSeq(Tail(part) \o <<Dot>>, LAMBDA b : b \notin Digits)
      n == Decimal(SubSeq(part, IF part[1] = Minus THEN 2 ELSE 1, digits))
  IN IF part[1] = Minus THEN -n ELSE n

\* std::stold: the sign, and mantissa * 10 ^ exponent.
Stold(part) ==
  LET e == SelectInSeq(part \o <<SmallE>>, LAMBDA b : b \in {SmallE, CapitalE})
      point == SelectInSeq(part \o <<Dot>>, LAMBDA b : b = Dot)
      mantissa == SelectSeq(SubSeq(part, 1, e - 1), LAMBDA b : b \in Digits)
      exponent == SelectSeq(SubSeq(part, e + 1, Len(part)), LAMBDA b : b \in Digits)
      sign == IF e < Len(part) /\ part[e + 1] = Minus THEN -1 ELSE 1
  IN [negative |-> part[1] = Minus,
      mantissa |-> Decimal(mantissa),
      exponent |-> sign * Decimal(exponent) - (IF point < e THEN e - 1 - point ELSE 0)]

\* mantissa * 10 ^ exponent, to the next integer below (with 0) or above it.
Scale(d, up) ==
  LET tens == 10 ^ (IF d.exponent < 0 THEN -d.exponent ELSE d.exponent) IN
  CASE d.mantissa = 0 -> 0
    [] d.mantissa > 0 /\ d.exponent > 4 -> Huge
    [] d.mantissa > 0 /\ d.exponent \in 0 .. 4 -> d.mantissa * tens
    [] d.mantissa > 0 /\ d.exponent \in -8 .. -1 ->
         (d.mantissa + up * (tens - 1)) \div tens
    [] d.mantissa > 0 /\ d.exponent < -8 -> up

\* JSON_PARSE_NUMBER of the integer types: by way of a long double if there is
\* an 'e' (but no 'E'), as it stands otherwise.
ReadInt(type, p) ==
  LET number == ReadNumber(p)
      part == number.val
      d == Stold(part)
      n == Scale(d, 0)
      v == IF SmallE \notin {part[i] : i \in DOMAIN part} THEN Stoi(part)
           ELSE IF d.negative THEN -n ELSE n
      inside == IF SmallE \notin {part[i] : i \in DOMAIN part}
                THEN v \in type.min .. type.max
                ELSE IF d.negative THEN -Scale(d, 1) >= type.min
                                   ELSE Scale(d, 1) <= type.max
  IN IF number.ok /\ ~(type.min = 0 /\ part[1] = Minus) /\ inside
     THEN Read(number.end, v) ELSE Failed

\* parse4Hexs(); NotHex if it throws.
NotHex == -1
HexValue(b) ==
  CASE b \in 48 .. 57 -> b - 48 [] b \in 97 .. 102 -> b - 87
    [] b \in 65 .. 70 -> b - 55 [] OTHER -> NotHex
Read4Hexs(p) ==
  LET h == [i \in 0 .. 3 |-> HexValue(Byte(p + i))] IN
  IF \E i \in 0 .. 3 : h[i] = NotHex THEN NotHex
  ELSE 4096 * h[0] + 256 * h[1] + 16 * h[2] + h[3]

\* What a backslash and a letter stand for.
Letters == Quote :> 34 @@ Backslash :> 92 @@ 47 :> 47 @@ 98 :> 8
           @@ 102 :> 12 @@ 110 :> 10 @@ 114 :> 13 @@ 116 :> 9

\* The escape that begins at p.
ReadEscape(p) ==
  LET cp == Read4Hexs(p + 2)
      low == Read4Hexs(p + 8) IN
  CASE Byte(p + 1) \in DOMAIN Letters -> Read(p + 2, <<Letters[Byte(p + 1)]>>)
    [] Byte(p + 1) = LetterU /\ cp \in 55296 .. 56319 ->
         IF Here(<<Backslash, LetterU>>, p + 6) /\ low \in 56320 .. 57343
         THEN Read(p + 12, Encode(65536 + (cp - 55296) * 1024 + (low - 56320)))
         ELSE Failed
    [] Byte(p + 1) = LetterU /\ cp # NotHex /\ ~Surrogate(cp) -> Read(p + 6, Encode(cp))
    [] OTHER -> Failed

\* parse(std::string&)
ReadString(p) ==
  LET from[i \in p .. Len(text) + 1] ==
        LET item == IF Byte(i) = Backslash THEN ReadEscape(i) ELSE Read(i + 1, <<Byte(i)>>)
            rest == from[item.end]
        IN CASE Byte(i) = EndOfFile -> Failed
             [] Byte(i) = Quote -> Read(i + 1, <<>>)
             [] Byte(i) \notin {EndOfFile, Quote} ->
                  IF item.ok /\ rest.ok THEN Read(rest.end, item.val \o rest.val) ELSE Failed
  IN IF Byte(p) = Quote THEN from[p + 1] ELSE Failed

ReadLeaf(type, p) ==
  CASE type.kind = "bool" -> ReadBool(p)
    [] type.kind = "int" -> ReadInt(type, p)
    [] type.kind = "double" -> ReadNumber(p)
    [] type.kind = "string" -> ReadString(p)

-----------------------------------------------------------------------------
(* The calls of the parser.                                                *)

\* A call: what it reads, where in its loop it is, and what it has so far: a
\* local result, or for an object the object itself.
Call(type, old) ==
  [type |-> type, at |-> "begin", key |-> <<>>,
   acc |-> IF type.kind = "object" THEN old ELSE <<>>]

Top == stack[Len(stack)]
SetTop(f) == stack' = [stack EXCEPT ![Len(stack)] = f]

\* A value read inside the call f: push_back(), result[key] =, or a member.
Put(f, v) ==
  CASE f.type.kind = "vector" -> Append(f.acc, v)
    [] f.type.kind = "map" -> (f.key :> v) @@ f.acc
    [] f.type.kind = "object" /\ f.key \in DOMAIN f.acc -> [f.acc EXCEPT ![f.key] = v]
    [] OTHER -> f.acc

\* The innermost call returns v.
Return(v) ==
  LET caller == stack[Len(stack) - 1]
      rest == SubSeq(stack, 1, Len(stack) - 2) IN
  IF Len(stack) = 1
  THEN stack' = <<>> /\ target' = v /\ phase' = "rest"
  ELSE /\ stack' = Append(rest, [caller EXCEPT !.acc = Put(caller, v), !.at = "delim"])
       /\ UNCHANGED <<target, phase>>

\* Mutant of Left: the outermost vector or map is read in place.
LeftInPlace == stack[1].acc

\* What an exception leaves behind: objects inside objects are read in place,
\* everything else is thrown away.
Left ==
  LET from[i \in 1 .. Len(stack)] ==
        IF i < Len(stack) /\ stack[i + 1].type.kind = "object"
        THEN Put(stack[i], from[i + 1]) ELSE stack[i].acc
  IN IF stack[1].type.kind = "object" THEN from[1] ELSE target

Throw ==
  /\ phase' = "thrown"
  /\ target' = Left
  /\ stack' = <<>>
  /\ UNCHANGED pos

Parsing == phase = "parse"

\* parse() of a bool, a number or a string.
ParseLeaf ==
  /\ Parsing /\ Top.type.kind \in {"bool", "int", "double", "string"}
  /\ LET r == ReadLeaf(Top.type, Ws(pos)) IN
     \/ r.ok /\ pos' = Ws(r.end) /\ Return(r.val)
     \/ ~r.ok /\ Throw
  /\ UNCHANGED <<job, text>>

\* parseAny() looks at one character; what it begins is read and dropped.
ParseAny ==
  /\ Parsing /\ Top.type = AnyValue
  /\ LET c == Byte(Ws(pos))
         As(type) == SetTop(Call(type, Skipped)) /\ UNCHANGED <<pos, phase, target>> IN
     \/ c = 123 /\ As(SkipObject)
     \/ c = 91 /\ As(SkipArray)
     \/ c = Quote /\ As(String)
     \/ c \in {True[1], False[1]} /\ As(Bool)
     \/ c \in {Minus} \cup Digits /\ As(Double)
     \/ c \notin {123, 91, Quote, True[1], False[1], Minus} \cup Digits /\ Throw
  /\ UNCHANGED <<job, text>>

\* The opening bracket, and the closing one if there is nothing in between.
ParseOpen ==
  /\ Parsing /\ (Array(Top.type) \/ Keyed(Top.type)) /\ Top.at = "begin"
  /\ LET p == Ws(pos)
         q == Ws(p + 1) IN
     \/ Byte(p) # OpenOf(Top.type) /\ Throw
     \/ /\ Byte(p) = OpenOf(Top.type)
        /\ \/ Byte(q) = EndOfFile /\ Throw
           \/ Byte(q) = CloseOf(Top.type) /\ pos' = Ws(q + 1) /\ Return(Top.acc)
           \/ /\ Byte(q) \notin {EndOfFile, CloseOf(Top.type)}
              /\ pos' = q
              /\ SetTop([Top EXCEPT !.at = "item"])
              /\ UNCHANGED <<phase, target>>
  /\ UNCHANGED <<job, text>>

\* The next element of an array: a call to read it into a new variable.
ParseElement ==
  /\ Parsing /\ Array(Top.type) /\ Top.at = "item"
  /\ LET type == IF Top.type = SkipArray THEN AnyValue ELSE Top.type.of IN
     stack' = Append(stack, Call(type, Default(type)))
  /\ UNCHANGED <<job, phase, text, pos, target>>

\* Mutant of ParseMember: an unknown key is not looked up among the members.
ParseMemberUnknown ==
  /\ Parsing /\ Keyed(Top.type) /\ Top.at = "item"
  /\ LET key == ReadString(Ws(pos))
         colon == Ws(key.end) IN
     \/ ~key.ok /\ Throw
     \/ /\ key.ok /\ Byte(colon) = Colon
        /\ pos' = colon + 1
        /\ stack' = Append([stack EXCEPT ![Len(stack)].key = key.val], Call(AnyValue, Skipped))
        /\ UNCHANGED <<phase, target>>
  /\ UNCHANGED <<job, text>>

\* The next key and its colon, and a call to read the value: into a new
\* variable for a map, in place for a member, nowhere for an unknown key.
ParseMember ==
  /\ Parsing /\ Keyed(Top.type) /\ Top.at = "item"
  /\ LET key == ReadString(Ws(pos))
         colon == Ws(key.end)
         known == Top.type.kind = "object" /\ key.val \in DOMAIN Top.type.members
         type == CASE Top.type.kind = "map" -> Top.type.of
                   [] known -> Top.type.members[key.val]
                   [] OTHER -> AnyValue IN
     \/ ~key.ok /\ Throw
     \/ key.ok /\ Byte(colon) # Colon /\ Throw
     \/ /\ key.ok /\ Byte(colon) = Colon
        /\ pos' = colon + 1
        /\ stack' = Append([stack EXCEPT ![Len(stack)].key = key.val],
                           Call(type, IF known THEN Top.acc[key.val] ELSE Default(type)))
        /\ UNCHANGED <<phase, target>>
  /\ UNCHANGED <<job, text>>

\* What follows an item: a comma and another one, or the end.
ParseDelim ==
  /\ Parsing /\ (Array(Top.type) \/ Keyed(Top.type)) /\ Top.at = "delim"
  /\ LET p == Ws(pos) IN
     \/ /\ Byte(p) = Comma
        /\ pos' = p + 1
        /\ SetTop([Top EXCEPT !.at = "item"])
        /\ UNCHANGED <<phase, target>>
     \/ Byte(p) = CloseOf(Top.type) /\ pos' = Ws(p + 1) /\ Return(Top.acc)
     \/ Byte(p) \notin {Comma, CloseOf(Top.type)} /\ Throw
  /\ UNCHANGED <<job, text>>

-----------------------------------------------------------------------------
(* to_json() and from_json().                                              *)

ToJson ==
  /\ phase = "to_json"
  /\ text' = Stringify(job.type, job.value, job.pretty, job.ascii)
  /\ stack' = <<Call(job.type, job.old)>>
  /\ phase' = "parse"
  /\ UNCHANGED <<job, pos, target>>

\* from_json() wants nothing behind the value.
Rest ==
  /\ phase = "rest"
  /\ phase' = IF Byte(pos) = EndOfFile THEN "done" ELSE "refused"
  /\ UNCHANGED <<job, text, pos, stack, target>>

Init ==
  /\ pos = 1
  /\ \/ job \in Values /\ phase = "to_json" /\ text = <<>> /\ stack = <<>>
     \/ /\ \E by \in Texts : \E t \in by.texts : job = [type |-> by.type, old |-> by.old, text |-> t]
        /\ phase = "parse" /\ text = job.text /\ stack = <<Call(job.type, job.old)>>
  /\ target = job.old

Next == ToJson \/ ParseLeaf \/ ParseAny \/ ParseOpen \/ ParseElement
        \/ ParseMember \/ ParseDelim \/ Rest

Spec == Init /\ [][Next]_vars
=============================================================================
