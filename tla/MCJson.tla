------------------------------- MODULE MCJson -------------------------------
(* Instances of JsonCoding for TLC.                                        *)
EXTENDS JsonGrammar
LOCAL INSTANCE SequencesExt

\* Integer types of a few values.
Tiny == Integer(-8, 11)
UTiny == Integer(0, 11)
M == <<109>>
N == <<110>>
Inner == Object(M :> Vector(Tiny))
Outer == Object(M :> Tiny @@ N :> Inner)

Texted(type, old, texts) == [type |-> type, old |-> old, texts |-> texts]

\* Texts put together from the lexemes of the structure.
Lexemes == {<<123>>, <<125>>, <<91>>, <<93>>, <<Colon>>, <<Comma>>, <<Zero + 1>>, True,
            <<Quote, 109, Quote>>}
Two(S) == LET T == S \cup {<<>>} IN {a \o b : a \in T, b \in T}
Three(S) == {a \o b : a \in Two(S), b \in S \cup {<<>>}}
UpToThree == Three(Lexemes)
\* {"m": 1,   {"n" :{"m":[1]   [[1],   and anything
Nested == {<<123, 34, 109, 34, 58, 32, 49, 44>> \o t : t \in UpToThree}
          \cup {<<123, 34, 110, 34, 32, 58, 123, 34, 109, 34, 58, 91, 49, 93>> \o t : t \in UpToThree}
          \cup {<<91, 91, 49, 93, 44>> \o t : t \in UpToThree}
\* {"t": anything } and {"t": [1, anything }
UnknownMember == {<<123, 34, 116, 34, 58>> \o t \o <<125>> : t \in UpToThree \cup
                    {<<91, 49, 44>> \o t : t \in UpToThree}}
StructureTexts ==
  {Texted(Vector(Vector(Tiny)), <<<<1>>>>, UpToThree \cup Nested),
   Texted(Map(Bool), M :> FALSE, UpToThree \cup Nested),
   Texted(Outer, M :> 3 @@ N :> (M :> <<4>>), UnknownMember),
   Texted(Outer, M :> 3 @@ N :> (M :> <<4>>), UpToThree \cup Nested)}

\* Numbers, with spaces where there may be none.
NumberTexts(es) ==
  BoundedSeq({Minus, Zero, Zero + 1, Dot} \cup es, 4)
  \cup {<<Zero + 1>> \o s : s \in BoundedSeq({Zero, Zero + 1, Dot, 32, Plus} \cup es, 3)}
IntTexts(es) == {Texted(Tiny, 2, NumberTexts(es)), Texted(UTiny, 2, NumberTexts(es))}

\* Strings with escapes, whole and broken.
Units == {<<92, 117, 100, 56, 51, 67>>, <<92, 117, 68, 70, 54, 51>>, <<92, 117, 48, 48, 101, 57>>,
          <<92, 117, 49>>, <<92>>, <<34>>, <<97>>, <<195>>, <<92, 110>>}
StringTexts == {Texted(String, <<111>>, {<<34>> \o t : t \in Three(Units)})}

MCTexts == StructureTexts \cup StringTexts \cup IntTexts({SmallE})
           \cup {Texted(Double, <<Zero + 7>>, NumberTexts({SmallE, CapitalE}))}
MCCapitalE == IntTexts({SmallE, CapitalE})

\* Values to write and read back: every string of the bytes at the edges of
\* UTF-8, and of whole characters; and some of every type.
Stringified(type, old, values) ==
  {[type |-> type, old |-> old, value |-> v, pretty |-> p, ascii |-> a] :
     v \in values, p \in BOOLEAN, a \in BOOLEAN}
EdgeBytes == {47, 127, 128, 160, 192, 194, 224, 237, 240, 244, 248}
Characters == {<<0>>, <<8>>, <<34>>, <<92>>, <<97>>, <<127>>, Encode(133), Encode(233), Encode(2048),
               Encode(8232), Encode(55295), Encode(57344), Encode(65279), Encode(65535),
               Encode(65536), Encode(1114111)}
MCStrings == BoundedSeq(EdgeBytes, 2) \cup Two(Characters)
             \cup {<<b>> \o t : b \in {240, 244}, t \in SeqOf({128, 143, 144, 191}, 3)}
MCValues ==
  Stringified(String, <<>>, MCStrings)
  \cup Stringified(Vector(String), <<>>, BoundedSeq({<<>>, <<Quote>>, <<10>>}, 2))
  \cup Stringified(Map(Map(Bool)), <<>>,
                   {<<>>, M :> <<>>, M :> (N :> TRUE), M :> <<>> @@ <<Quote>> :> (N :> TRUE @@ M :> FALSE)})
  \cup Stringified(Outer, M :> 0 @@ N :> (M :> <<>>),
                   {M :> i @@ N :> (M :> v) : i \in -8 .. 11, v \in {<<>>, <<0>>, <<11, -1>>}})
None == {}
=============================================================================
