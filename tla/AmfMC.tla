------------------------------- MODULE AmfMC -------------------------------
(* Small values for Amf: texts of length 0 to 3, with 16-bit lengths up to 2. *)
EXTENDS Amf

MCa == <<"a", 1>>
MCb == <<"bb", 2>>
MCKeys == {MCa, MCb}
Num == <<"num", 7>>

Atoms == {Nil, Num, <<"bool", TRUE>>, <<"str", Empty>>, <<"str", MCb>>, <<"str", <<"ccc", 3>>>>}
Objects == {<<"obj", <<>>>>} \cup {<<"obj", MCa :> v>> : v \in {Num, <<"str", Empty>>}}
             \cup {<<"obj", [k \in MCKeys |-> IF k = MCa THEN v ELSE w]>> : v, w \in {Nil, <<"arr", <<Num>>>>}}
Arrays == {<<"arr", s>> : s \in {<<>>, <<Num, <<"str", MCa>>>>, <<<<"obj", MCa :> Num>>, Nil>>}}
Integers29 == {<<"int", n>> : n \in {-1, 0, 127, 128, 16383, 16384, 2097151, 2097152, 2^28 - 1, 2^28, 2^29}}

MCMessages ==
  {<<v>> : v \in Atoms \cup Objects \cup Arrays \cup Integers29}
    \cup {<<<<"str", MCa>>, v, w>> : v \in Objects \cup {<<"bool", FALSE>>}, w \in {Nil, <<"bool", TRUE>>}}
    \cup {<<<<"str", s>>, <<"obj", MCb :> Num>>>> : s \in {MCa, SetDataFrame}}

MCAmf3Only ==
  {<<<<"date", 2>>>>, <<<<"arr", <<<<"date", 2>>, Num>>>>, <<"date", 3>>>>,
   <<<<"typed", MCb, <<>>>>>>, <<<<"typed", MCb, MCa :> <<"int", 128>>>>, <<"obj", MCa :> Num>>>>,
   <<<<"typed", MCa, [k \in MCKeys |-> <<"typed", MCb, MCb :> Num>>]>>>>}

\* Messages of a peer whose encoder uses the tables, each with what it means.
Obj(f) == <<"obj", f>>
F(n) == <<"f64", n>>
MCForeign == {
  <<<<B(6), B(3)>> \o Chars(MCa) \o <<B(6), B(0)>>, <<<<"str", MCa>>, <<"str", MCa>>>>>>,
  <<<<B(10), B(19), B(1), B(3)>> \o Chars(MCa) \o <<B(4), B(1), B(10), B(1), B(4), B(2)>>,
    <<Obj(MCa :> <<"int", 1>>), Obj(MCa :> <<"int", 2>>)>>>>,
  <<<<B(10), B(11), B(1), B(3)>> \o Chars(MCa) \o <<B(3), B(1), B(1)>>, <<Obj(MCa :> <<"bool", TRUE>>), Nil>>>>,
  <<<<B(8), B(1), F(2000), B(8), B(0)>>, <<<<"date", 2>>, <<"date", 2>>>>>>,
  <<<<B(12), B(3)>> \o Chars(MCa) \o <<B(12), B(0)>>, <<<<"bin", MCa>>, <<"bin", MCa>>>>>>,
  <<<<B(7), B(3)>> \o Chars(MCa) \o <<B(11), B(0)>>, <<<<"str", MCa>>, <<"str", MCa>>>>>>,
  <<<<B(9), B(3), B(1), B(3), B(9), B(0)>>, <<<<"arr", <<<<"bool", TRUE>>>>>>, <<"arr", <<<<"bool", TRUE>>>>>>>>>>,
  <<<<B(10), B(7), B(7)>> \o Chars(<<"DSA", 3>>) \o <<B(130), B(1), B(3), B(2), B(5), B(2), B(1)>>,
    <<Obj(<<"abstract", 11>> :> <<"bool", TRUE>> @@ <<"abstract", 20>> :> <<"bool", FALSE>>
          @@ <<"async", 10>> :> <<"bool", FALSE>> @@ <<"extra", 12>> :> Nil)>>>>,
  <<<<B(10), B(7), B(7)>> \o Chars(<<"DSK", 3>>) \o <<B(64), B(3), B(0), B(1), B(2)>>,
    <<Obj(<<"abstract", 16>> :> <<"bool", TRUE>> @@ <<"extra", 10>> :> <<"bool", FALSE>>)>>>>,
  <<<<B(10), B(7), B(9)>> \o Chars(<<"ArrayCollection", 4>>) \o <<B(9), B(3), B(1), B(1)>>,
    <<<<"arr", <<Nil>>>>>>>>}
=============================================================================
