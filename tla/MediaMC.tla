------------------------------ MODULE MediaMC ------------------------------
(* Two pairs of parameter sets, one picture of each kind, short TS packets. *)
EXTENDS Media

sps1 == <<7, 21, 22, 23>>
pps1 == <<8, 31, 32, 33>>
sps2 == <<7, 24, 25, 26, 27>>
pps2 == <<8, 34, 35, 36>>
idr == <<5, 41, 42, 43, 44>>
slice == <<1, 51, 52, 53>>
sei == <<6, 61, 62, 63>>

Picture(units, first, other) ==
  [codec |-> VIDEO_H264, units |-> units,
   codes |-> [i \in 1 .. Len(units) |-> IF i = 1 THEN first ELSE other]]
MCPictures ==
  {Picture(us, 4, 4) : us \in {<<sps1, pps1, idr>>, <<sps2, pps2, idr>>, <<sps2, pps2>>, <<idr>>, <<slice>>,
                               <<sps1, pps1, sei, idr>>, <<slice, slice>>, <<<<10>>>>, <<sps2, <<8, 37>>, idr>>}}
    \cup {Picture(<<sps1, pps1, idr>>, 4, 3), Picture(<<idr>>, 3, 3),
          Picture(<<<<9, 240>>, sps1, pps1, idr>>, 4, 4),
          [codec |-> 1, units |-> <<<<255, 216>>>>, codes |-> <<4>>],
          [codec |-> 3, units |-> <<<<255, 216>>>>, codes |-> <<4>>]}

Short == <<71, 72>>
Long == <<71, 72, 73, 74, 75, 76, 77, 78, 79>>
Sound(rate, type, src) == [ah |-> [format |-> SOUND_AAC, rate |-> rate, size |-> 1, type |-> type], src |-> src]
MCSounds == {Sound(1, 0, Short), Sound(3, 1, Long), Sound(4, 0, Long), Sound(10, 1, Short)}

\* Another encoder: new sequence headers at any time, composition times.
MCForeign ==
  {[data |-> NewAVCSequenceHeader(s[1], s[2]), units |-> <<>>, sets |-> s] :
     s \in {<<sps1, pps1>>, <<sps2, pps2>>}}
  \cup {[data |-> <<(IF us[1] = idr THEN 1 ELSE 2) * 16 + 7, 1, 0, 0, ct>> \o Prefixed(us), units |-> us, sets |-> NoSets] :
     us \in {<<idr>>, <<idr, idr, idr>>, <<slice, slice>>}, ct \in 0 .. 2}
=============================================================================
