---------------------------- MODULE MediaProofs ----------------------------
(***************************************************************************)
(* Proofs about Media, for any pictures, sounds and foreign messages that  *)
(* MediaAssumption allows: Continuity, TsReassembles, AudioRight and       *)
(* SplitSafe.  The first three need Inv.  Its part AudioSeq is what makes  *)
(* them inductive: the AAC sequence header goes on the wire before any     *)
(* frame, so that the segmenter has the publisher's configuration, and not *)
(* another, whenever a frame arrives.  Continuity is about the counters of *)
(* the packets that came out; its own part of the argument is Linked: the  *)
(* muxer's counters are those of the last packets, or one ahead of them    *)
(* for the tables.                                                         *)
(***************************************************************************)
EXTENDS Media, CodecProofs

-----------------------------------------------------------------------------
(* Types *)

Pair == Seq(Nat) \X Seq(Nat)
VideoMsg == [type : {"video"}, data : Seq(Nat), ts : Nat, units : Seq(Seq(Nat)), codes : Seq({3, 4}),
             sets : Pair, current : BOOLEAN]
AudioMsg == [type : {"audio"}, data : Seq(Nat), ts : Nat, ah : AH, src : Seq(Nat)]
Msg == VideoMsg \cup AudioMsg
AacRec == [objectType : Nat, sampleRate : Nat, channel : Nat]
SegRec == [info : Seq(Nat), aac : AacRec, gotten : BOOLEAN,
           videoCc : 0..CcMax, audioCc : 0..CcMax, patCc : Nat, pmtCc : Nat, sets : Pair]

Types ==
  /\ count \in [sent : Nat, relayed : Nat]
  /\ audioFirst \in BOOLEAN /\ videoFirst \in BOOLEAN
  /\ wire \in Seq(Msg)
  /\ sets \in [last : Pair, header : Pair]
  /\ seg \in SegRec

\* AAC messages: the header made of ah, and frames.
ConfigOf(ah) == SpecificConfig(2, FrequencyIndex(ah.rate), IF ah.type = 0 THEN 1 ELSE 2)
AacOf(ah) == [objectType |-> 2, sampleRate |-> FrequencyIndex(ah.rate), channel |-> ah.type + 1]
IsHeader(m, ah) == m.type = "audio" /\ m.src = <<>> /\ TagOK(m.data, 0, ConfigOf(ah))
IsFrame(m) == m.type = "audio" /\ TagOK(m.data, 1, m.src)

\* A message from the wire that is audio is the header or a frame, and no frame
\* overtakes the header.
AudioAt(w, gotten, i) ==
  w[i].type = "audio" =>
    /\ IsHeader(w[i], sound) \/ IsFrame(w[i])
    /\ IsFrame(w[i]) => gotten \/ \E j \in 1..(i - 1) : IsHeader(w[j], sound)
AudioWire == \A i \in 1..Len(wire) : AudioAt(wire, seg.gotten, i) /\ (wire[i].type = "audio" => ~audioFirst)
AudioSent ==
  ~audioFirst => /\ sound \in AH /\ sound.format = SOUND_AAC
                 /\ seg.gotten \/ \E j \in 1..Len(wire) : IsHeader(wire[j], sound)
AudioGot == seg.gotten => ~audioFirst /\ seg.aac = AacOf(sound)
AudioSeq == AudioWire /\ AudioSent /\ AudioGot
Inv == Types /\ AudioSeq

\* The last unit of a type is a unit.
LEMMA LastOfType ==
  ASSUME NEW us \in Seq(Seq(Nat)), NEW type, NEW old \in Seq(Nat)
  PROVE  LastOf(us, type, old) \in Seq(Nat)
<1> DEFINE N == Len(us)
           is == {i \in 1..N : NaluType(us[i]) = type}
<1>1. CASE is = {}
  BY <1>1 DEF LastOf
<1>2. CASE is # {}
  <2>1. N \in Nat /\ is \subseteq 1..N
    OBVIOUS
  <2>2. Max(is) \in is
    <3> HIDE DEF is, N
    <3> QED  BY <1>2, <2>1, MaxIs
  <2>3. us[Max(is)] \in Seq(Nat)
    <3> DEFINE m == Max(is)
    <3>1. m \in 1..N
      BY <2>2
    <3> HIDE DEF m, is
    <3> QED  BY <3>1 DEF m
  <2> QED  BY <1>2, <2>3 DEF LastOf
<1> QED  BY <1>1, <1>2

\* A pair of parameter sets stays one when units bring new ones.
LEMMA SetsType ==
  ASSUME NEW old \in Pair, NEW us \in Seq(Seq(Nat))
  PROVE  UpdateSets(old, us) \in Pair
<1>1. old[1] \in Seq(Nat) /\ old[2] \in Seq(Nat)
  BY DEF Pair
<1>2. LastOf(us, 7, old[1]) \in Seq(Nat) /\ LastOf(us, 8, old[2]) \in Seq(Nat)
  BY <1>1, LastOfType
<1> QED  BY <1>2 DEF UpdateSets, Pair

\* No parameter sets are a pair of empty ones.
LEMMA NoSetsType == NoSets \in Pair
<1>1. <<>> \in Seq(Nat)
  OBVIOUS
<1> QED  BY <1>1 DEF NoSets, Pair

\* What is given to an application or a demultiplexer splits into units.
LEMMA UnitsOfType ==
  ASSUME NEW got \in Seq(Seq(Nat))
  PROVE  UnitsOf(got) \in Seq(Seq(Nat))
<1> DEFINE N == Len(got)
           x(i) == IF Len(got[i]) < 4 THEN <<got[i]>> ELSE ParseNalus(got[i]).nalus
           ss == [i \in 1..N |-> x(i)]
<1>1. ASSUME NEW i \in 1..N  PROVE x(i) \in Seq(Seq(Nat))
  <2> DEFINE g == got[i]
  <2>1. g \in Seq(Nat)
    OBVIOUS
  <2> HIDE DEF g
  <2>2. ParseNalus(g).nalus \in Seq(Seq(Nat))
    <3>1. -1 \in Int
      OBVIOUS
    <3> QED  BY <2>1, <3>1, NalusType DEF ParseNalus
  <2>3. <<g>> \in Seq(Seq(Nat))
    BY <2>1
  <2> QED  BY <2>2, <2>3 DEF g
<1> HIDE DEF x
<1>2. N \in Nat /\ ss \in [1..N -> Seq(Seq(Nat))]
  BY <1>1
<1>3. ss \in Seq(Seq(Seq(Nat)))
  <2> HIDE DEF ss, N
  <2> QED  BY <1>2, MadeSeq
<1>4. FlattenSeq(ss) \in Seq(Seq(Nat))
  <2> HIDE DEF ss
  <2> QED  BY <1>3, FlatType
<1> QED  BY <1>4 DEF UnitsOf, x

\* Start codes and units are bytes.
LEMMA BytesType ==
  ASSUME NEW us \in Seq(Seq(Nat)), NEW codes
  PROVE  Bytes(us, codes) \in Seq(Nat)
<1> DEFINE N == Len(us)
           ss == [i \in 1..N |-> Code(codes[i]) \o us[i]]
<1>1. ASSUME NEW i \in 1..N  PROVE Code(codes[i]) \o us[i] \in Seq(Nat)
  <2> DEFINE u == us[i]
             c == Code(codes[i])
  <2>1. u \in Seq(Nat) /\ c \in Seq(Nat)
    BY CodesAre DEF Code
  <2> HIDE DEF u, c
  <2>2. c \o u \in Seq(Nat)
    BY <2>1
  <2> QED  BY <2>2 DEF u, c
<1>2. N \in Nat /\ ss \in [1..N -> Seq(Nat)]
  BY <1>1
<1>3. ss \in Seq(Seq(Nat))
  <2> HIDE DEF ss, N
  <2> QED  BY <1>2, MadeSeq
<1>4. FlattenSeq(ss) \in Seq(Nat)
  <2> HIDE DEF ss
  <2> QED  BY <1>3, FlatType
<1> QED  BY <1>4 DEF Bytes

\* The messages of a publisher.
LEMMA VideoType ==
  ASSUME NEW data \in Seq(Nat), NEW units \in Seq(Seq(Nat)), NEW codes \in Seq({3, 4}), NEW last \in Pair,
         NEW own, NEW header, count.sent \in Nat
  PROVE  Video(data, units, codes, last, own, header) \in VideoMsg
<1> DEFINE cur == own \/ header = last
<1>1. cur \in BOOLEAN
  OBVIOUS
<1>2. Video(data, units, codes, last, own, header) =
        [type |-> "video", data |-> data, ts |-> count.sent, units |-> units, codes |-> codes,
         sets |-> last, current |-> cur]
  BY DEF Video
<1> HIDE DEF cur
<1> QED  BY <1>1, <1>2 DEF VideoMsg

\* What sendAudioPacket puts on the wire is an audio message.
LEMMA AudioType ==
  ASSUME NEW data \in Seq(Nat), NEW ah \in AH, NEW src \in Seq(Nat), count.sent \in Nat
  PROVE  Audio(data, ah, src) \in AudioMsg
  BY DEF Audio, AudioMsg

\* w with at most two messages more, of the set M.
Longer(w, v, M) == v = w \/ (\E a \in M : v = Append(w, a)) \/ (\E a, b \in M : v = Append(Append(w, a), b))

\* At most one message and at most one more make the wire at most two longer.
LEMMA LongerIs ==
  ASSUME NEW w \in Seq(Msg), NEW M, M \subseteq Msg, NEW x, NEW y,
         x = <<>> \/ (\E a \in M : x = <<a>>), y = <<>> \/ (\E a \in M : y = <<a>>)
  PROVE  Longer(w, w \o x \o y, M)
<1>1. ASSUME NEW a \in Msg, NEW b \in Msg
      PROVE  /\ w \o <<>> \o <<>> = w /\ w \o <<a>> \o <<>> = Append(w, a)
             /\ w \o <<>> \o <<b>> = Append(w, b) /\ w \o <<a>> \o <<b>> = Append(Append(w, a), b)
  OBVIOUS
<1>0. w \o <<>> \o <<>> = w
  OBVIOUS
<1>2. CASE x = <<>> /\ y = <<>>
  BY <1>0, <1>2 DEF Longer
<1>3. CASE x = <<>> /\ y # <<>>
  <2>1. PICK b \in M : y = <<b>>
    BY <1>3
  <2>2. w \o x \o y = Append(w, b)
    BY <1>1, <1>3, <2>1
  <2> QED  BY <2>2 DEF Longer
<1>4. CASE x # <<>> /\ y = <<>>
  <2>1. PICK b \in M : x = <<b>>
    BY <1>4
  <2>2. w \o x \o y = Append(w, b)
    BY <1>1, <1>4, <2>1
  <2> QED  BY <2>2 DEF Longer
<1>5. CASE x # <<>> /\ y # <<>>
  <2>1. PICK a \in M : x = <<a>>
    BY <1>5
  <2>2. PICK b \in M : y = <<b>>
    BY <1>5
  <2>3. w \o x \o y = Append(Append(w, a), b)
    BY <1>1, <2>1, <2>2
  <2> QED  BY <2>3 DEF Longer
<1> QED  BY <1>2, <1>3, <1>4, <1>5

\* What there was stays in its place, and what is new is of the set M.
LEMMA LongerHas ==
  ASSUME NEW w \in Seq(Msg), NEW v, NEW M, M \subseteq Msg, Longer(w, v, M)
  PROVE  /\ v \in Seq(Msg) /\ Len(w) <= Len(v)
         /\ \A i \in 1..Len(w) : v[i] = w[i]
         /\ \A i \in 1..Len(v) : i > Len(w) => v[i] \in M
<1>1. CASE v = w
  BY <1>1
<1>2. CASE \E a \in M : v = Append(w, a)
  <2>1. PICK a \in M : v = Append(w, a)
    BY <1>2
  <2>2. v \in Seq(Msg) /\ Len(v) = Len(w) + 1 /\ v[Len(w) + 1] = a /\ \A i \in 1..Len(w) : v[i] = w[i]
    BY <2>1, Grown
  <2> QED  BY <2>2
<1>3. CASE \E a, b \in M : v = Append(Append(w, a), b)
  <2>1. PICK a, b \in M : v = Append(Append(w, a), b)
    BY <1>3
  <2> DEFINE u == Append(w, a)
  <2>2. u \in Seq(Msg) /\ Len(u) = Len(w) + 1 /\ u[Len(w) + 1] = a /\ \A i \in 1..Len(w) : u[i] = w[i]
    BY <2>1, Grown
  <2> HIDE DEF u
  <2>3. v \in Seq(Msg) /\ Len(v) = Len(u) + 1 /\ v[Len(u) + 1] = b /\ \A i \in 1..Len(u) : v[i] = u[i]
    BY <2>1, <2>2, Grown DEF u
  <2>4. \A i \in 1..Len(w) : v[i] = w[i]
    BY <2>2, <2>3
  <2>5. \A i \in 1..Len(v) : i > Len(w) => i = Len(w) + 1 \/ i = Len(u) + 1
    BY <2>2, <2>3
  <2>6. v[Len(w) + 1] = a
    BY <2>2, <2>3
  <2> QED  BY <2>2, <2>3, <2>4, <2>5, <2>6
<1> QED  BY <1>1, <1>2, <1>3 DEF Longer

-----------------------------------------------------------------------------
(* Publishers *)

\* What sendVideoPacket packs, and the messages it may send of a picture: a sequence
\* header, and the picture itself.
DataOf(p) == IF p.codec = VIDEO_H264 THEN Bytes(p.units, p.codes) ELSE p.units[1]
PackOf(p) == PackVideoData(p.codec, 1, DataOf(p))
FromPicture(m, p) ==
  m.units = p.units /\ m.codes = p.codes /\ m.data = PackOf(p).data /\ PackOf(p).ok /\ ~PackOf(p).panic
SentBy(p) == {m \in VideoMsg : m.units = <<>> \/ FromPicture(m, p)}

\* sendVideoPacket adds the message of its picture, and perhaps a sequence header.
LEMMA SendsPicture ==
  ASSUME Types, NEW p \in Pictures, sendVideoPacket(p)
  PROVE  /\ Longer(wire, wire', SentBy(p))
         /\ sets' \in [last : Pair, header : Pair] /\ videoFirst' \in BOOLEAN
         /\ UNCHANGED <<audioFirst, sound>>
<1> DEFINE avc == p.codec = VIDEO_H264
           data == DataOf(p)
           first == videoFirst /\ avc
           nalus == ParseNalus(data)
           found == UpdateSets(NoSets, nalus.nalus)
           dropped == first /\ <<>> \in {found[1], found[2]}
           pack == PackOf(p)
           last == IF avc THEN UpdateSets(sets.last, p.units) ELSE sets.last
           header == IF first THEN found ELSE sets.header
           own == avc /\ Own(p.units)
           m1 == Video(NewAVCSequenceHeader(found[1], found[2]), <<>>, <<>>, last, FALSE, header)
           m2 == Video(pack.data, p.units, p.codes, last, own, header)
           x == IF first THEN <<m1>> ELSE <<>>
           y == IF pack.ok THEN <<m2>> ELSE <<>>
<1>1. /\ UNCHANGED <<audioFirst, sound>>
      /\ IF dropped \/ panicked' # <<>> THEN UNCHANGED <<videoFirst, sets, wire>>
         ELSE /\ videoFirst' = (videoFirst /\ ~first)
              /\ sets' = [last |-> last, header |-> header]
              /\ wire' = wire \o x \o y
  <2> HIDE DEF avc, data, first, nalus, found, dropped, pack, last, header, own, m1, m2
  <2> QED  BY DEF sendVideoPacket, DataOf, PackOf, avc, data, first, nalus, found, dropped, pack, last, header, own, m1, m2
<1>2. /\ p.codec \in 0..15 /\ p.units \in Seq(Seq(Nat)) /\ p.units # <<>> /\ p.codes \in Seq({3, 4})
  BY MediaAssumption
<1>3. count.sent \in Nat /\ sets.last \in Pair /\ sets.header \in Pair /\ wire \in Seq(Msg)
  BY DEF Types
<1>4. data \in Seq(Nat)
  <2>1. Bytes(p.units, p.codes) \in Seq(Nat)
    BY <1>2, BytesType
  <2>2. p.units[1] \in Seq(Nat)
    BY <1>2
  <2> QED  BY <2>1, <2>2 DEF DataOf
<1> HIDE DEF data
<1>5. nalus.nalus \in Seq(Seq(Nat))
  <2>1. -1 \in Int
    OBVIOUS
  <2> QED  BY <1>4, <2>1, NalusType DEF ParseNalus
<1> HIDE DEF nalus
<1>6. found \in Pair
  BY <1>5, NoSetsType, SetsType
<1> HIDE DEF found
<1>7. last \in Pair /\ header \in Pair
  <2>1. UpdateSets(sets.last, p.units) \in Pair
    BY <1>2, <1>3, SetsType
  <2> QED  BY <1>3, <1>6, <2>1
<1> HIDE DEF last, header
<1>8. m1 \in VideoMsg
  <2>1. found[1] \in Seq(Nat) /\ found[2] \in Seq(Nat)
    BY <1>6 DEF Pair
  <2>2. NewAVCSequenceHeader(found[1], found[2]) \in Seq(Nat)
    BY <2>1, RecordType
  <2>3. <<>> \in Seq(Seq(Nat)) /\ <<>> \in Seq({3, 4})
    OBVIOUS
  <2> QED  BY <1>3, <1>7, <2>2, <2>3, VideoType
<1>9. pack.ok => m2 \in VideoMsg
  <2>1. 1 \in Nat
    OBVIOUS
  <2>2. pack.ok => pack.data \in Seq(Nat)
    BY <1>2, <1>4, <2>1, PackType DEF PackOf, data
  <2> HIDE DEF pack, own
  <2> QED  BY <1>2, <1>3, <1>7, <2>2, VideoType
<1> HIDE DEF m1, m2, pack
<1>10. CASE dropped \/ panicked' # <<>>
  <2>1. UNCHANGED <<audioFirst, sound, videoFirst, sets, wire>>
    <3> HIDE DEF dropped, first, x, y
    <3> QED  BY ONLY <1>1, <1>10
  <2> QED  BY <2>1 DEF Types, Longer
<1>11. CASE ~(dropped \/ panicked' # <<>>)
  <2>1. /\ UNCHANGED <<audioFirst, sound>> /\ videoFirst' = (videoFirst /\ ~first)
        /\ sets' = [last |-> last, header |-> header] /\ wire' = wire \o x \o y
    <3> HIDE DEF dropped, first, x, y
    <3> QED  BY ONLY <1>1, <1>11
  <2>2. ~pack.panic
    <3>1. panicked' = IF (first /\ nalus.panic) \/ (~dropped /\ pack.panic) THEN p.units ELSE <<>>
      <4> HIDE DEF avc, first, dropped
      <4> QED  BY DEF sendVideoPacket, DataOf, PackOf, avc, data, first, nalus, found, dropped, pack
    <3> HIDE DEF dropped, first
    <3> QED  BY <1>2, <1>11, <3>1
  <2>3. Longer(wire, wire \o x \o y, SentBy(p))
    <3>1. m1 \in SentBy(p)
      <4>1. m1.units = <<>>
        BY DEF m1, Video
      <4> QED  BY <1>8, <4>1 DEF SentBy
    <3>2. pack.ok => m2 \in SentBy(p)
      <4>1. m2.units = p.units /\ m2.codes = p.codes /\ m2.data = pack.data
        BY DEF m2, Video
      <4> QED  BY <1>9, <2>2, <4>1 DEF SentBy, FromPicture, pack
    <3>3. x = <<>> \/ \E a \in SentBy(p) : x = <<a>>
      BY <3>1
    <3>4. y = <<>> \/ \E a \in SentBy(p) : y = <<a>>
      BY <3>2
    <3>5. SentBy(p) \subseteq Msg
      BY DEF Msg, SentBy
    <3> HIDE DEF x, y
    <3> QED  BY <1>3, <3>3, <3>4, <3>5, LongerIs
  <2>4. [last |-> last, header |-> header] \in [last : Pair, header : Pair] /\ (videoFirst /\ ~first) \in BOOLEAN
    BY <1>7
  <2> HIDE DEF x, y, first
  <2> QED  BY ONLY <2>1, <2>3, <2>4
<1> QED  BY <1>10, <1>11

\* The same, for those who do not care what is in the messages.
LEMMA SendsVideo ==
  ASSUME Types, NEW p \in Pictures, sendVideoPacket(p)
  PROVE  /\ Longer(wire, wire', VideoMsg)
         /\ sets' \in [last : Pair, header : Pair] /\ videoFirst' \in BOOLEAN
         /\ UNCHANGED <<audioFirst, sound>>
<1>1. SentBy(p) \subseteq VideoMsg
  BY DEF SentBy
<1>2. Longer(wire, wire', VideoMsg)
  BY <1>1, SendsPicture DEF Longer
<1> QED  BY <1>2, SendsPicture

\* The header that NewAACSequenceHeader makes.
LEMMA ConfigType ==
  ASSUME NEW ah \in AH
  PROVE  /\ ConfigOf(ah) \in Seq(Nat) /\ Len(ConfigOf(ah)) = 2 /\ specificInfo(ConfigOf(ah)) = AacOf(ah)
         /\ FrequencyIndex(ah.rate) \in 0..15 /\ ah.type + 1 \in 0..3
<1> DEFINE idx == FrequencyIndex(ah.rate)
           ch == IF ah.type = 0 THEN 1 ELSE 2
<1>1. ah.rate \in 0..13 /\ ah.type \in 0..1
  BY DEF AH
<1>2. idx \in 0..15
  <2>1. \A r \in 0..13 : FrequencyIndex(r) \in 0..15
    <3> TAKE r \in 0..13
    <3>1. r = 0 \/ r = 1 \/ r = 2 \/ r = 3 \/ r = 4 \/ r = 5 \/ r = 6 \/ r = 7 \/ r = 8 \/ r = 9 \/ r = 10 \/ r = 11
          \/ r = 12 \/ r = 13
      OBVIOUS
    <3> QED  BY <3>1 DEF FrequencyIndex
  <2> QED  BY <1>1, <2>1
<1>3. ch \in 0..15 /\ ch = ah.type + 1 /\ ah.type + 1 \in 0..3
  BY <1>1
<1> HIDE DEF idx, ch
<1>4. /\ SpecificConfig(2, idx, ch) \in Seq(Nat) /\ Len(SpecificConfig(2, idx, ch)) = 2
      /\ specificInfo(SpecificConfig(2, idx, ch)) = [objectType |-> 2, sampleRate |-> idx, channel |-> ch]
  BY <1>2, <1>3, ConfigBack
<1> QED  BY <1>2, <1>3, <1>4 DEF ConfigOf, AacOf, idx, ch

\* A sound adds a frame, and the first one the header before it.
LEMMA SendsAudio ==
  ASSUME Types, NEW p \in Sounds, sendAudioPacket(p)
  PROVE  /\ p.ah \in AH /\ p.ah.format = SOUND_AAC
         /\ ~audioFirst' /\ audioFirst' \in BOOLEAN /\ UNCHANGED <<videoFirst, panicked, sets>>
         /\ sound' = IF audioFirst THEN p.ah ELSE sound
         /\ \E h, f \in AudioMsg :
              /\ IsHeader(h, p.ah) /\ IsFrame(f)
              /\ wire' = IF audioFirst THEN Append(Append(wire, h), f) ELSE Append(wire, f)
<1> DEFINE first == audioFirst /\ p.ah.format = SOUND_AAC
           pack == PackAudioData(p.ah, p.src)
           h == Audio(NewAACSequenceHeader(p.ah), p.ah, <<>>)
           f == Audio(pack.data, p.ah, p.src)
           x == IF first THEN <<h>> ELSE <<>>
<1>1. /\ pack.ok /\ audioFirst' = (audioFirst /\ ~first) /\ sound' = (IF first THEN p.ah ELSE sound)
      /\ wire' = wire \o x \o <<f>> /\ UNCHANGED <<videoFirst, panicked, sets>>
  <2> HIDE DEF pack, f, h, first
  <2> QED  BY DEF sendAudioPacket, pack, f, h, first
<1>2. p.ah \in AH /\ p.src \in Seq(Nat)
  BY MediaAssumption DEF AH
<1>3. p.ah.format = SOUND_AAC
  BY <1>1 DEF PackAudioData
<1>4. pack.data = audioTagData(p.ah, 1) \o p.src
  BY <1>3 DEF PackAudioData
<1>5. TagOK(pack.data, 1, p.src)
  <2>1. 1 \in 0..1
    OBVIOUS
  <2> QED  BY <1>2, <1>3, <1>4, <2>1, TagIs
<1>6. TagOK(NewAACSequenceHeader(p.ah), 0, ConfigOf(p.ah))
  <2>1. ConfigOf(p.ah) \in Seq(Nat)
    BY <1>2, ConfigType
  <2>2. 0 \in 0..1
    OBVIOUS
  <2>3. TagOK(audioTagData(p.ah, 0) \o ConfigOf(p.ah), 0, ConfigOf(p.ah))
    BY <1>2, <1>3, <2>1, <2>2, TagIs
  <2> QED  BY <2>3 DEF NewAACSequenceHeader, ConfigOf
<1>7. count.sent \in Nat /\ wire \in Seq(Msg) /\ audioFirst \in BOOLEAN
  BY DEF Types
<1>8. h \in AudioMsg /\ f \in AudioMsg
  <2>1. pack.data \in Seq(Nat) /\ NewAACSequenceHeader(p.ah) \in Seq(Nat) /\ <<>> \in Seq(Nat)
    BY <1>5, <1>6 DEF TagOK
  <2> HIDE DEF pack
  <2> QED  BY <1>2, <1>7, <2>1, AudioType
<1>9. IsHeader(h, p.ah) /\ IsFrame(f)
  <2> HIDE DEF pack
  <2> QED  BY <1>5, <1>6 DEF IsHeader, IsFrame, Audio
<1> HIDE DEF h, f, pack
<1>10. ~audioFirst' /\ audioFirst' \in BOOLEAN /\ first = audioFirst
  BY <1>1, <1>3, <1>7
<1>11. wire' = IF audioFirst THEN Append(Append(wire, h), f) ELSE Append(wire, f)
  <2>1. h \in Msg /\ f \in Msg
    BY <1>8 DEF Msg
  <2>2. wire \o <<>> \o <<f>> = Append(wire, f) /\ wire \o <<h>> \o <<f>> = Append(Append(wire, h), f)
    BY <1>7, <2>1
  <2>3. CASE audioFirst
    BY <1>1, <1>3, <2>2, <2>3
  <2>4. CASE ~audioFirst
    BY <1>1, <2>2, <2>4
  <2> QED  BY <2>3, <2>4
<1>12. sound' = IF audioFirst THEN p.ah ELSE sound
  BY <1>1, <1>3
<1> HIDE DEF first, x
<1> QED  BY ONLY <1>1, <1>2, <1>3, <1>8, <1>9, <1>10, <1>11, <1>12

\* Video does not disturb the order of audio.
LEMMA VideoKeepsOrder ==
  ASSUME Inv, Longer(wire, wire', VideoMsg), UNCHANGED <<audioFirst, sound, seg>>
  PROVE  AudioSeq'
<1>1. wire \in Seq(Msg) /\ VideoMsg \subseteq Msg
  BY DEF Inv, Types, Msg
<1> DEFINE n == Len(wire)
           v == wire'
<1>2. /\ v \in Seq(Msg) /\ n <= Len(v) /\ (\A i \in 1..n : v[i] = wire[i])
      /\ \A i \in 1..Len(v) : i > n => v[i] \in VideoMsg
  BY <1>1, LongerHas
<1>3. n \in Nat /\ Len(v) \in Nat
  BY <1>1, <1>2
<1>4. ASSUME NEW i \in 1..Len(v), v[i].type = "audio"  PROVE i \in 1..n
  BY <1>2, <1>3, <1>4 DEF VideoMsg
<1> HIDE DEF n, v
<1>5. AudioWire'
  <2> SUFFICES ASSUME NEW i \in 1..Len(v), v[i].type = "audio"
               PROVE  /\ ~audioFirst /\ (IsHeader(v[i], sound) \/ IsFrame(v[i]))
                      /\ IsFrame(v[i]) => seg.gotten \/ \E j \in 1..(i - 1) : IsHeader(v[j], sound)
    BY DEF AudioWire, AudioAt, v
  <2>1. i \in 1..n /\ v[i] = wire[i]
    BY <1>2, <1>4
  <2>2. /\ ~audioFirst /\ (IsHeader(wire[i], sound) \/ IsFrame(wire[i]))
        /\ IsFrame(wire[i]) => seg.gotten \/ \E j \in 1..(i - 1) : IsHeader(wire[j], sound)
    BY <2>1 DEF Inv, AudioSeq, AudioWire, AudioAt, n
  <2>3. \A j \in 1..(i - 1) : v[j] = wire[j]
    BY <1>2, <1>3, <2>1
  <2> QED  BY <2>1, <2>2, <2>3
<1>6. AudioSent'
  <2>1. ASSUME NEW j \in 1..n  PROVE j \in 1..Len(v) /\ v[j] = wire[j]
    BY <1>2, <1>3
  <2>2. AudioSent
    BY DEF Inv, AudioSeq
  <2> QED  BY <2>1, <2>2 DEF AudioSent, n, v
<1>7. AudioGot'
  BY DEF Inv, AudioSeq, AudioGot
<1> QED  BY <1>5, <1>6, <1>7 DEF AudioSeq

\* A header is not a frame.
LEMMA HeaderOrFrame == ASSUME NEW m, NEW ah, IsHeader(m, ah)  PROVE ~IsFrame(m)
  BY DEF IsHeader, IsFrame, TagOK

\* Audio keeps its order.
LEMMA AudioKeepsOrder ==
  ASSUME Inv, NEW p \in Sounds, sendAudioPacket(p), UNCHANGED seg
  PROVE  AudioSeq' /\ Longer(wire, wire', AudioMsg)
<1>1. /\ p.ah \in AH /\ p.ah.format = SOUND_AAC /\ ~audioFirst'
      /\ sound' = (IF audioFirst THEN p.ah ELSE sound) /\ audioFirst \in BOOLEAN /\ wire \in Seq(Msg)
  BY SendsAudio DEF Inv, Types
<1>2. PICK h, f \in AudioMsg :
        /\ IsHeader(h, p.ah) /\ IsFrame(f)
        /\ wire' = IF audioFirst THEN Append(Append(wire, h), f) ELSE Append(wire, f)
  BY SendsAudio DEF Inv
<1>3. h \in Msg /\ f \in Msg
  BY DEF Msg
<1>4. Longer(wire, wire', AudioMsg)
  BY <1>2 DEF Longer
<1> DEFINE n == Len(wire)
           v == wire'
<1>5. CASE audioFirst
  <2>1. ~seg.gotten /\ \A i \in 1..n : wire[i].type # "audio"
    BY <1>5 DEF Inv, AudioSeq, AudioGot, AudioWire
  <2>2. sound' = p.ah
    BY <1>1, <1>5
  <2> DEFINE u == Append(wire, h)
  <2>3. u \in Seq(Msg) /\ Len(u) = n + 1 /\ u[n + 1] = h /\ n \in Nat /\ \A i \in 1..n : u[i] = wire[i]
    BY <1>1, <1>3, Grown
  <2>4. v = Append(u, f)
    BY <1>2, <1>5
  <2> HIDE DEF u, v
  <2>5. v \in Seq(Msg) /\ Len(v) = (n + 1) + 1 /\ v[(n + 1) + 1] = f /\ \A i \in 1..(n + 1) : v[i] = u[i]
    <3> HIDE DEF n
    <3> QED  BY <1>3, <2>3, <2>4, Grown
  <2> HIDE DEF n
  <2>6. v[n + 1] = h /\ n + 1 \in 1..Len(v) /\ \A i \in 1..n : v[i] = wire[i]
    BY <2>3, <2>5
  <2>7. ASSUME NEW i \in 1..Len(v), v[i].type = "audio"
        PROVE  /\ IsHeader(v[i], p.ah) \/ IsFrame(v[i])
               /\ IsFrame(v[i]) => \E j \in 1..(i - 1) : IsHeader(v[j], p.ah)
    <3>1. i = n + 1 \/ i = (n + 1) + 1
      <4>1. i \notin 1..n
        BY <2>1, <2>6, <2>7
      <4> QED  BY <2>3, <2>5, <4>1
    <3>2. CASE i = n + 1
      BY <1>2, <2>6, <3>2, HeaderOrFrame
    <3>3. CASE i = (n + 1) + 1
      <4>1. n + 1 \in 1..(i - 1) /\ IsHeader(v[n + 1], p.ah) /\ IsFrame(v[i])
        BY <1>2, <2>3, <2>5, <2>6, <3>3
      <4> QED  BY <4>1
    <3> QED  BY <3>1, <3>2, <3>3
  <2>8. AudioWire'
    BY <1>1, <2>2, <2>7 DEF AudioWire, AudioAt, v
  <2>9. AudioSent'
    BY <1>1, <1>2, <2>2, <2>6 DEF AudioSent, v
  <2>10. AudioGot'
    BY <2>1 DEF AudioGot
  <2> QED  BY <1>4, <2>8, <2>9, <2>10 DEF AudioSeq
<1>6. CASE ~audioFirst
  <2>1. AudioSent /\ AudioWire /\ AudioGot
    BY DEF Inv, AudioSeq
  <2>2. sound' = sound /\ v = Append(wire, f)
    BY <1>1, <1>2, <1>6
  <2>3. v \in Seq(Msg) /\ Len(v) = n + 1 /\ v[n + 1] = f /\ n \in Nat /\ \A i \in 1..n : v[i] = wire[i]
    BY <1>1, <1>3, <2>2, Grown
  <2>4. seg.gotten \/ \E j \in 1..n : IsHeader(wire[j], sound)
    BY <1>6, <2>1 DEF AudioSent
  <2>5. \A i \in 1..n : AudioAt(wire, seg.gotten, i)
    BY <2>1 DEF AudioWire
  <2> HIDE DEF n, v
  <2>6. ASSUME NEW i \in 1..Len(v), v[i].type = "audio"
        PROVE  /\ IsHeader(v[i], sound) \/ IsFrame(v[i])
               /\ IsFrame(v[i]) => seg.gotten \/ \E j \in 1..(i - 1) : IsHeader(v[j], sound)
    <3>1. CASE i \in 1..n
      <4>1. \A j \in 1..(i - 1) : v[j] = wire[j]
        BY <2>3, <3>1
      <4>2. /\ IsHeader(wire[i], sound) \/ IsFrame(wire[i])
            /\ IsFrame(wire[i]) => seg.gotten \/ \E j \in 1..(i - 1) : IsHeader(wire[j], sound)
        BY <2>3, <2>5, <2>6, <3>1 DEF AudioAt
      <4> QED  BY <2>3, <3>1, <4>1, <4>2
    <3>2. CASE i = n + 1
      <4>1. v[i] = f /\ IsFrame(v[i])
        BY <1>2, <2>3, <3>2
      <4>2. \A j \in 1..n : j \in 1..(i - 1) /\ v[j] = wire[j]
        BY <2>3, <3>2
      <4> QED  BY <2>4, <4>1, <4>2
    <3> QED  BY <2>3, <3>1, <3>2
  <2>7. AudioWire'
    BY <1>1, <2>2, <2>6 DEF AudioWire, AudioAt, v
  <2>8. AudioSent'
    <3>1. \A j \in 1..n : j \in 1..Len(v) /\ v[j] = wire[j]
      BY <2>3
    <3>2. sound \in AH /\ sound.format = SOUND_AAC
      BY <1>6, <2>1 DEF AudioSent
    <3> QED  BY <2>2, <2>4, <3>1, <3>2 DEF AudioSent, v
  <2>9. AudioGot'
    BY <1>1, <2>1, <2>2 DEF AudioGot
  <2> QED  BY <1>4, <2>7, <2>8, <2>9 DEF AudioSeq
<1> QED  BY <1>1, <1>5, <1>6

\* SendPacket keeps the invariant.
LEMMA InvSend == ASSUME Inv, SendPacket  PROVE Inv'
<1>1. count' = [count EXCEPT !.sent = @ + 1] /\ UNCHANGED <<pub, cache, read, player, seg, out>>
  BY DEF SendPacket
<1>2. Types
  BY DEF Inv
<1>3. count' \in [sent : Nat, relayed : Nat] /\ seg' \in SegRec
  BY <1>1, <1>2 DEF Types
<1>4. CASE \E p \in Pictures : sendVideoPacket(p)
  <2>1. PICK p \in Pictures : sendVideoPacket(p)
    BY <1>4
  <2>2. /\ Longer(wire, wire', VideoMsg) /\ sets' \in [last : Pair, header : Pair] /\ videoFirst' \in BOOLEAN
        /\ UNCHANGED <<audioFirst, sound>>
    BY <1>2, <2>1, SendsVideo
  <2>3. wire' \in Seq(Msg)
    <3>1. wire \in Seq(Msg) /\ VideoMsg \subseteq Msg
      BY <1>2 DEF Types, Msg
    <3> QED  BY <2>2, <3>1, LongerHas
  <2>4. AudioSeq'
    BY <1>1, <2>2, VideoKeepsOrder
  <2> QED  BY <1>2, <1>3, <2>2, <2>3, <2>4 DEF Inv, Types
<1>5. CASE \E p \in Sounds : sendAudioPacket(p)
  <2>1. PICK p \in Sounds : sendAudioPacket(p)
    BY <1>5
  <2>2. audioFirst' \in BOOLEAN /\ UNCHANGED <<videoFirst, panicked, sets>>
    BY <1>2, <2>1, SendsAudio
  <2>3. AudioSeq' /\ Longer(wire, wire', AudioMsg)
    BY <1>1, <2>1, AudioKeepsOrder
  <2>4. wire' \in Seq(Msg)
    <3>1. wire \in Seq(Msg) /\ AudioMsg \subseteq Msg
      BY <1>2 DEF Types, Msg
    <3> QED  BY <2>3, <3>1, LongerHas
  <2> QED  BY <1>2, <1>3, <2>2, <2>3, <2>4 DEF Inv, Types
<1> QED  BY <1>4, <1>5 DEF SendPacket

\* PeerSends keeps the invariant.
LEMMA InvPeer == ASSUME Inv, PeerSends  PROVE Inv'
<1>1. /\ count' = [count EXCEPT !.sent = @ + 1]
      /\ UNCHANGED <<pub, videoFirst, audioFirst, panicked, sound, cache, read, player, seg, out>>
  BY DEF PeerSends
<1>2. Types
  BY DEF Inv
<1>3. PICK f \in Foreign :
        LET last == IF f.sets = NoSets THEN sets.last ELSE f.sets
        IN  /\ sets' = [last |-> last, header |-> last]
            /\ wire' = Append(wire, Video(f.data, f.units, [i \in 1..Len(f.units) |-> 4], last, FALSE, last))
  BY DEF PeerSends
<1> DEFINE last == IF f.sets = NoSets THEN sets.last ELSE f.sets
           codes == [i \in 1..Len(f.units) |-> 4]
           m == Video(f.data, f.units, codes, last, FALSE, last)
<1>4. f.data \in Seq(Nat) /\ f.units \in Seq(Seq(Nat)) /\ f.sets \in Pair
  BY MediaAssumption DEF Pair
<1>5. last \in Pair
  BY <1>2, <1>4 DEF Types
<1>6. codes \in Seq({3, 4})
  <2> DEFINE n == Len(f.units)
  <2>1. n \in Nat /\ codes \in [1..n -> {3, 4}]
    BY <1>4
  <2> HIDE DEF n, codes
  <2> QED  BY <2>1, MadeSeq
<1> HIDE DEF last, codes
<1>7. m \in VideoMsg
  BY <1>2, <1>4, <1>5, <1>6, VideoType DEF Types
<1>8. wire' = Append(wire, m) /\ sets' = [last |-> last, header |-> last]
  BY <1>3 DEF last, codes
<1> HIDE DEF m
<1>9. Longer(wire, wire', VideoMsg)
  BY <1>7, <1>8 DEF Longer
<1>10. wire' \in Seq(Msg)
  <2>1. wire \in Seq(Msg) /\ VideoMsg \subseteq Msg
    BY <1>2 DEF Types, Msg
  <2> QED  BY <1>9, <2>1, LongerHas
<1>11. AudioSeq'
  BY <1>1, <1>9, VideoKeepsOrder
<1> QED  BY <1>1, <1>2, <1>5, <1>8, <1>10, <1>11 DEF Inv, Types

-----------------------------------------------------------------------------
(* The segmenter *)

\* What Parse makes of a picture: perhaps parameter sets kept, perhaps an elementary stream.
VideoParsed(r, m) ==
  /\ \E i \in Seq(Nat) : r.seg = [seg EXCEPT !.info = i]
  /\ r.ok => /\ r.es \in Seq(Nat) /\ ParseVideoHeader(m.data).ok
             /\ ParseVideoHeader(m.data).compositionTime \in Nat

\* CodecParser.Parse of a picture changes the kept parameter sets only, and makes bytes if anything.
LEMMA ParseVideo ==
  ASSUME seg \in SegRec, NEW m \in VideoMsg
  PROVE  VideoParsed(Parse(m), m)
<1> DEFINE h == ParseVideoHeader(m.data)
           a == ParseAudioHeader(m.data)
           info == parseSpecificInfo(h.body)
           annexb == IF isNaluHeader(h.body) THEN [ok |-> TRUE, out |-> h.body]
                     ELSE getAnnexbH264(h.body, seg.info)
           nothing == [ok |-> FALSE, seg |-> seg, es |-> <<>>]
<1>1. m.type = "video" /\ m.data \in Seq(Nat)
  BY DEF VideoMsg
<1>2. seg.info \in Seq(Nat) /\ seg = [seg EXCEPT !.info = seg.info]
  BY DEF SegRec
<1>3. Parse(m) = CASE ~h.ok \/ h.codecID # VIDEO_H264 -> nothing
                   [] h.ok /\ IsSeqHeader(h) -> [nothing EXCEPT !.seg.info = @ \o info.info]
                   [] OTHER -> [nothing EXCEPT !.ok = annexb.ok, !.es = annexb.out]
  <2> HIDE DEF h, info, annexb
  <2> QED  BY <1>1 DEF Parse, h, info, annexb
<1>4. h.ok => h.body \in Seq(Nat) /\ h.compositionTime \in Nat
  BY <1>1, VideoHeaderType
<1> HIDE DEF h
<1>5. CASE ~h.ok \/ h.codecID # VIDEO_H264
  <2>1. Parse(m) = nothing
    <3>1. ~(h.ok /\ IsSeqHeader(h))
      BY <1>5 DEF IsSeqHeader
    <3> HIDE DEF nothing, info, annexb
    <3> QED  BY <1>3, <1>5, <3>1
  <2> QED  BY <1>2, <2>1 DEF VideoParsed
<1>6. CASE h.ok /\ h.codecID = VIDEO_H264 /\ IsSeqHeader(h)
  <2>1. Parse(m) = [nothing EXCEPT !.seg.info = @ \o info.info]
    <3> HIDE DEF nothing, info, annexb
    <3> QED  BY <1>3, <1>6
  <2>2. info.info \in Seq(Nat)
    BY <1>4, <1>6, InfoType
  <2> HIDE DEF info
  <2>3. seg.info \o info.info \in Seq(Nat)
    BY <1>2, <2>2
  <2> DEFINE i == seg.info \o info.info
  <2>4. Parse(m).ok = FALSE /\ Parse(m).seg = [seg EXCEPT !.info = i]
    BY <2>1
  <2> HIDE DEF i
  <2>5. i \in Seq(Nat)
    BY <2>3 DEF i
  <2> QED  BY <2>4, <2>5 DEF VideoParsed
<1>7. CASE h.ok /\ h.codecID = VIDEO_H264 /\ ~IsSeqHeader(h)
  <2>1. Parse(m) = [nothing EXCEPT !.ok = annexb.ok, !.es = annexb.out]
    <3> HIDE DEF nothing, info, annexb
    <3> QED  BY <1>3, <1>7
  <2>2. annexb.out \in Seq(Nat)
    <3>1. getAnnexbH264(h.body, seg.info).out \in Seq(Nat)
      BY <1>2, <1>4, <1>7, AnnexbType
    <3> QED  BY <1>4, <1>7, <3>1
  <2> HIDE DEF annexb
  <2>3. Parse(m).seg = seg /\ Parse(m).es = annexb.out
    BY <2>1
  <2> QED  BY <1>2, <1>4, <1>7, <2>2, <2>3 DEF VideoParsed, h
<1> QED  BY <1>5, <1>6, <1>7

\* The AAC header is kept, a frame gets its ADTS header; an empty one is dropped.
LEMMA ParseHeader ==
  ASSUME NEW m, IsHeader(m, sound), sound \in AH
  PROVE  Parse(m) = [ok |-> FALSE, seg |-> [seg EXCEPT !.aac = AacOf(sound), !.gotten = TRUE], es |-> <<>>]
<1> DEFINE a == ParseAudioHeader(m.data)
<1>1. m.type = "audio" /\ a.ok /\ a.format = SOUND_AAC /\ a.aacPacketType = 0 /\ a.body = ConfigOf(sound)
  BY DEF IsHeader, TagOK
<1>2. Len(a.body) >= 2 /\ specificInfo(a.body) = AacOf(sound)
  <2>1. Len(ConfigOf(sound)) = 2 /\ specificInfo(ConfigOf(sound)) = AacOf(sound)
    BY ConfigType
  <2> HIDE DEF a
  <2> QED  BY <1>1, <2>1
<1> HIDE DEF a
<1>3. Parse(m) = [[ok |-> FALSE, seg |-> seg, es |-> <<>>] EXCEPT !.seg.aac = specificInfo(a.body), !.seg.gotten = TRUE]
  BY <1>1, <1>2 DEF Parse, a
<1> QED  BY <1>2, <1>3

\* CodecParser.Parse of an AAC frame, after the header: an ADTS frame, or an error if it is empty.
LEMMA ParseFrame ==
  ASSUME NEW m, IsFrame(m), seg.gotten
  PROVE  Parse(m) = IF m.src = <<>> THEN [ok |-> FALSE, seg |-> seg, es |-> <<>>]
                    ELSE [ok |-> TRUE, seg |-> seg, es |-> adtsHeader(seg.aac, Len(m.src)) \o m.src]
<1> DEFINE a == ParseAudioHeader(m.data)
<1>1. m.type = "audio" /\ a.ok /\ a.format = SOUND_AAC /\ a.aacPacketType = 1 /\ a.body = m.src
  BY DEF IsFrame, TagOK
<1> HIDE DEF a
<1>2. CASE m.src = <<>>
  BY <1>1, <1>2 DEF Parse, a
<1>3. CASE m.src # <<>>
  <2> DEFINE es == adtsHeader(seg.aac, Len(a.body)) \o a.body
             nothing == [ok |-> FALSE, seg |-> seg, es |-> <<>>]
  <2>1. Parse(m) = [nothing EXCEPT !.ok = TRUE, !.es = es]
    <3> HIDE DEF es
    <3> QED  BY <1>1, <1>3 DEF Parse, a, es
  <2>2. es = adtsHeader(seg.aac, Len(m.src)) \o m.src
    BY <1>1
  <2> HIDE DEF es
  <2> QED  BY <1>3, <2>1, <2>2
<1> QED  BY <1>2, <1>3

\* The message that is relayed next: audio is the header, or a frame whose header came before.
LEMMA HeadIs ==
  ASSUME Inv, wire # <<>>
  PROVE  /\ Head(wire) \in Msg
         /\ Head(wire).type = "audio" =>
              /\ sound \in AH /\ sound.format = SOUND_AAC /\ ~audioFirst
              /\ \/ IsHeader(Head(wire), sound)
                 \/ IsFrame(Head(wire)) /\ seg.gotten /\ seg.aac = AacOf(sound)
<1>1. wire \in Seq(Msg) /\ AudioWire /\ AudioSent /\ AudioGot
  BY DEF Inv, Types, AudioSeq
<1>2. 1 \in 1..Len(wire) /\ Head(wire) = wire[1] /\ wire[1] \in Msg /\ 1..(1 - 1) = {}
  BY <1>1
<1>3. AudioAt(wire, seg.gotten, 1) /\ (wire[1].type = "audio" => ~audioFirst)
  BY <1>1, <1>2 DEF AudioWire
<1>4. wire[1].type = "audio" => IsHeader(wire[1], sound) \/ (IsFrame(wire[1]) /\ seg.gotten)
  BY <1>2, <1>3 DEF AudioAt
<1> QED  BY <1>1, <1>2, <1>3, <1>4 DEF AudioSent, AudioGot

IsVideo(m) == m.type = "video"
CtOf(m) == IF IsVideo(m) THEN ParseVideoHeader(m.data).compositionTime ELSE 0
CcOf(m) == IF IsVideo(m) THEN seg.videoCc ELSE seg.audioCc
PidOf(m) == IF IsVideo(m) THEN 256 ELSE 257
DtsOf(m) == m.ts * 90
PtsOf(m) == IF IsVideo(m) THEN DtsOf(m) + CtOf(m) * 90 ELSE DtsOf(m)
PesOf(m, es) == pesHeader(IsVideo(m), Len(es), PtsOf(m), DtsOf(m))
MuxOf(m, es) == Mux(IsVideo(m), es, m.ts, CtOf(m), CcOf(m))

\* The packets made of an elementary stream are right, and give it back.
Muxed(m, es) ==
  /\ es \in Seq(Nat) /\ DtsOf(m) \in Nat /\ PtsOf(m) \in Nat
  /\ MuxGood(MuxOf(m, es), TsByte, PidOf(m), PesOf(m, es), es, CcOf(m))
  /\ PesOK(PesOf(m, es), IsVideo(m), Len(es), PtsOf(m), DtsOf(m))

\* Mux of an elementary stream makes the packets that Muxed describes.
LEMMA MuxedIs ==
  ASSUME seg \in SegRec, NEW m, m.ts \in Nat, NEW es \in Seq(Nat), CtOf(m) \in Nat
  PROVE  Muxed(m, es)
<1> DEFINE v == IsVideo(m)
           ts == m.ts
           ct == CtOf(m)
           c == CcOf(m)
<1>1. v \in BOOLEAN /\ c \in 0..CcMax /\ ts \in Nat /\ ct \in Nat
  BY DEF IsVideo, CcOf, SegRec
<1> DEFINE dts == ts * 90
           pts == IF v THEN dts + ct * 90 ELSE dts
<1>2. dts \in Nat /\ pts \in Nat
  <2> HIDE DEF v, ts, ct
  <2> QED  BY <1>1
<1>3. /\ MuxGood(Mux(v, es, ts, ct, c), TsByte, IF v THEN 256 ELSE 257, pesHeader(v, Len(es), pts, dts), es, c)
      /\ PesOK(pesHeader(v, Len(es), pts, dts), v, Len(es), pts, dts)
  <2> HIDE DEF v, ts, ct, c
  <2>1. MuxRight(v, es, ts, ct, c)
    BY <1>1, MuxWhole
  <2> QED  BY ONLY <2>1 DEF MuxRight
<1> QED  BY <1>2, <1>3 DEF Muxed, MuxOf, PesOf, PidOf, PtsOf, DtsOf

\* What the parsers make of the next message, and the muxer of that.
Parsed(m, r) ==
  /\ r.seg \in SegRec /\ r.seg.patCc = seg.patCc /\ r.seg.pmtCc = seg.pmtCc
  /\ r.seg.videoCc = seg.videoCc /\ r.seg.audioCc = seg.audioCc
  /\ m \in VideoMsg => r.seg.gotten = seg.gotten /\ r.seg.aac = seg.aac
  /\ m \in AudioMsg =>
       \/ IsHeader(m, sound) /\ ~r.ok /\ r.seg.gotten = TRUE /\ r.seg.aac = AacOf(sound)
       \/ /\ IsFrame(m) /\ r.seg = seg /\ seg.gotten
          /\ m.src # <<>> => r.ok /\ AdtsOK(r.es, FrequencyIndex(sound.rate), sound.type + 1, m.src)
  /\ r.ok => Muxed(m, r.es)

\* CodecParser.Parse of the next message from the wire makes of it what Parsed describes.
LEMMA ParsedIs ==
  ASSUME Inv, wire # <<>>
  PROVE  Parsed(Head(wire), Parse(Head(wire)))
<1> DEFINE m == Head(wire)
           r == Parse(m)
<1>1. seg \in SegRec /\ m \in Msg
  BY HeadIs DEF Inv, Types
<1>2. CASE m \in VideoMsg
  <2>1. VideoParsed(r, m)
    BY <1>1, <1>2, ParseVideo
  <2>2. PICK i \in Seq(Nat) : r.seg = [seg EXCEPT !.info = i]
    BY <2>1 DEF VideoParsed
  <2>3. r.ok => r.es \in Seq(Nat) /\ ParseVideoHeader(m.data).compositionTime \in Nat
    BY <2>1 DEF VideoParsed
  <2>4. m.type = "video" /\ m.ts \in Nat /\ m \notin AudioMsg
    BY <1>2 DEF VideoMsg, AudioMsg
  <2> HIDE DEF r, m
  <2>5. /\ r.seg \in SegRec /\ r.seg.patCc = seg.patCc /\ r.seg.pmtCc = seg.pmtCc
        /\ r.seg.videoCc = seg.videoCc /\ r.seg.audioCc = seg.audioCc
        /\ r.seg.gotten = seg.gotten /\ r.seg.aac = seg.aac
    BY <1>1, <2>2 DEF SegRec
  <2>6. r.ok => Muxed(m, r.es)
    BY <1>1, <2>3, <2>4, MuxedIs DEF CtOf, IsVideo
  <2>7. Parsed(m, r)
    BY <2>4, <2>5, <2>6 DEF Parsed
  <2> QED  BY <2>7 DEF m, r
<1>3. CASE m \in AudioMsg
  <2>1. m.type = "audio" /\ m.ts \in Nat /\ m.src \in Seq(Nat) /\ m \notin VideoMsg
    BY <1>3 DEF AudioMsg, VideoMsg
  <2>2. sound \in AH
    BY <2>1, HeadIs
  <2>3. CASE IsHeader(m, sound)
    <3>1. r = [ok |-> FALSE, seg |-> [seg EXCEPT !.aac = AacOf(sound), !.gotten = TRUE], es |-> <<>>]
      BY <2>2, <2>3, ParseHeader
    <3> DEFINE aac == AacOf(sound)
    <3>2. aac \in AacRec
      <4>1. FrequencyIndex(sound.rate) \in 0..15 /\ sound.type + 1 \in 0..3
        BY <2>2, ConfigType
      <4> QED  BY <4>1 DEF AacOf, AacRec
    <3> HIDE DEF aac, r, m
    <3>3. /\ ~r.ok /\ r.seg = [seg EXCEPT !.aac = aac, !.gotten = TRUE]
      BY <3>1 DEF aac
    <3>4. /\ r.seg \in SegRec /\ r.seg.patCc = seg.patCc /\ r.seg.pmtCc = seg.pmtCc
          /\ r.seg.videoCc = seg.videoCc /\ r.seg.audioCc = seg.audioCc
          /\ r.seg.gotten = TRUE /\ r.seg.aac = aac
      BY <1>1, <3>2, <3>3 DEF SegRec
    <3>5. Parsed(m, r)
      BY <2>1, <2>3, <3>3, <3>4 DEF Parsed, aac
    <3> QED  BY <3>5 DEF m, r
  <2>4. CASE IsFrame(m) /\ seg.gotten /\ seg.aac = AacOf(sound)
    <3>1. r = IF m.src = <<>> THEN [ok |-> FALSE, seg |-> seg, es |-> <<>>]
              ELSE [ok |-> TRUE, seg |-> seg, es |-> adtsHeader(seg.aac, Len(m.src)) \o m.src]
      BY <2>4, ParseFrame
    <3> DEFINE es == adtsHeader(seg.aac, Len(m.src)) \o m.src
    <3>2. AdtsOK(es, FrequencyIndex(sound.rate), sound.type + 1, m.src)
      <4>1. FrequencyIndex(sound.rate) \in 0..15 /\ sound.type + 1 \in 0..3
        BY <2>2, ConfigType
      <4> DEFINE idx == FrequencyIndex(sound.rate)
                 ch == sound.type + 1
                 src == m.src
      <4>2. seg.aac = [objectType |-> 2, sampleRate |-> idx, channel |-> ch]
        BY <2>4 DEF AacOf
      <4> HIDE DEF idx, ch, src
      <4>3. AdtsOK(adtsHeader([objectType |-> 2, sampleRate |-> idx, channel |-> ch], Len(src)) \o src, idx, ch, src)
        BY <2>1, <4>1, AdtsIs DEF idx, ch, src
      <4> QED  BY <4>2, <4>3 DEF idx, ch, src
    <3>3. es \in Seq(Nat)
      BY <3>2 DEF AdtsOK
    <3> HIDE DEF es, r, m
    <3>4. r.seg = seg /\ (m.src # <<>> => r.ok) /\ (r.ok => m.src # <<>> /\ r.es = es)
      BY <3>1 DEF es
    <3>5. r.ok => Muxed(m, r.es)
      BY <1>1, <2>1, <3>3, <3>4, MuxedIs DEF CtOf, IsVideo
    <3>6. Parsed(m, r)
      <4>1. r.seg \in SegRec
        BY <1>1, <3>4
      <4> QED  BY <2>1, <2>4, <3>2, <3>4, <3>5, <4>1 DEF Parsed
    <3> QED  BY <3>6 DEF m, r
  <2> QED  BY <2>1, <2>3, <2>4, HeadIs
<1> QED  BY <1>1, <1>2, <1>3 DEF Msg

-----------------------------------------------------------------------------
(* The invariant *)

\* Nothing has been sent, so nothing is out of order.
LEMMA InvInit == Init => Inv
<1> SUFFICES ASSUME Init  PROVE Inv
  OBVIOUS
<1>1. wire = <<>> /\ audioFirst = TRUE /\ seg.gotten = FALSE
  BY DEF Init
<1>2. AudioSeq
  <2>1. Len(wire) = 0 /\ 1..0 = {}
    BY <1>1
  <2> QED  BY <1>1, <2>1 DEF AudioSeq, AudioWire, AudioSent, AudioGot
<1>3. seg \in SegRec
  <2>1. <<>> \in Seq(Nat) /\ NoAac \in AacRec /\ NoSets \in Pair /\ 0 \in 0..CcMax
    BY NoSetsType, CodecAssumption DEF NoAac, AacRec
  <2> HIDE DEF NoAac, NoSets, AacRec, Pair
  <2>2. seg = [info |-> <<>>, aac |-> NoAac, gotten |-> FALSE, videoCc |-> 0, audioCc |-> 0,
               patCc |-> 0, pmtCc |-> 0, sets |-> NoSets]
    BY DEF Init
  <2> QED  BY <2>1, <2>2 DEF SegRec
<1>4. sets \in [last : Pair, header : Pair]
  BY NoSetsType DEF Init
<1>5. wire \in Seq(Msg) /\ count \in [sent : Nat, relayed : Nat]
  BY DEF Init
<1> QED  BY <1>2, <1>3, <1>4, <1>5 DEF Inv, Types, Init

\* A player that joins leaves all this alone.
LEMMA InvSame ==
  ASSUME Inv, UNCHANGED <<videoFirst, audioFirst, sets, sound, wire, seg, count>>
  PROVE  Inv'
<1>1. Types'
  BY DEF Inv, Types
<1>2. AudioSeq'
  BY DEF Inv, AudioSeq, AudioWire, AudioSent, AudioGot, AudioAt
<1> QED  BY <1>1, <1>2 DEF Inv

\* A new segment changes the counters of PAT and PMT only.
LEMMA InvSegment ==
  ASSUME Inv, NEW f, NEW v, Segment(f, v)
  PROVE  Inv'
<1>1. /\ seg' = [seg EXCEPT !.patCc = TableCc(@) + 1, !.pmtCc = TableCc(@) + 1]
      /\ UNCHANGED <<videoFirst, audioFirst, sets, sound, wire, count>>
  BY DEF Segment
<1>2. seg \in SegRec
  BY DEF Inv, Types
<1> DEFINE p == TableCc(seg.patCc) + 1
           q == TableCc(seg.pmtCc) + 1
<1>3. p \in Nat /\ q \in Nat
  BY <1>2, CodecAssumption DEF SegRec, TableCc
<1>4. seg' = [seg EXCEPT !.patCc = p, !.pmtCc = q]
  BY <1>1
<1> HIDE DEF p, q
<1>5. seg' \in SegRec /\ seg'.gotten = seg.gotten /\ seg'.aac = seg.aac
  BY <1>2, <1>3, <1>4 DEF SegRec
<1>6. Types'
  BY <1>1, <1>5 DEF Inv, Types
<1>7. AudioSeq'
  BY <1>1, <1>5 DEF Inv, AudioSeq, AudioWire, AudioSent, AudioGot, AudioAt
<1> QED  BY <1>6, <1>7 DEF Inv

\* A message read by the server leaves the wire, in order.
LEMMA InvRelay == ASSUME Inv, Relay  PROVE Inv'
<1> DEFINE m == Head(wire)
           r == Parse(m)
           mux == MuxOf(m, r.es)
           n == Len(wire)
           w == wire'
<1>1. /\ wire # <<>> /\ wire' = Tail(wire)
      /\ count' = [count EXCEPT !.relayed = @ + 1]
      /\ UNCHANGED <<pub, videoFirst, audioFirst, panicked, sets, sound>>
  BY DEF Relay
<1>2. seg' = IF ~r.ok THEN r.seg
             ELSE IF IsVideo(m) THEN [r.seg EXCEPT !.videoCc = mux.cc, !.sets = UpdateSets(@, UnitsOf(<<r.es>>))]
             ELSE [r.seg EXCEPT !.audioCc = mux.cc]
  <2> HIDE DEF m, r
  <2> QED  BY DEF Relay, MuxOf, IsVideo, CtOf, CcOf, m, r
<1>3. Parsed(m, r) /\ m \in Msg
  BY <1>1, ParsedIs, HeadIs
<1>4. r.seg \in SegRec
  BY <1>3 DEF Parsed
<1>5. r.ok => mux.cc \in 0..CcMax /\ r.es \in Seq(Nat)
  <2>1. r.ok => Muxed(m, r.es)
    BY <1>3 DEF Parsed
  <2> HIDE DEF r, m
  <2> QED  BY <2>1 DEF Muxed, MuxGood
<1> DEFINE new == UpdateSets(r.seg.sets, UnitsOf(<<r.es>>))
           cc == mux.cc
<1>6. r.ok => new \in Pair
  <2> HIDE DEF r
  <2>1. r.seg.sets \in Pair
    BY <1>4 DEF SegRec
  <2>2. r.ok => <<r.es>> \in Seq(Seq(Nat))
    BY <1>5
  <2>3. r.ok => UnitsOf(<<r.es>>) \in Seq(Seq(Nat))
    BY <2>2, UnitsOfType
  <2> QED  BY <2>1, <2>3, SetsType
<1>7. seg' = IF ~r.ok THEN r.seg
             ELSE IF IsVideo(m) THEN [r.seg EXCEPT !.videoCc = cc, !.sets = new] ELSE [r.seg EXCEPT !.audioCc = cc]
  <2> HIDE DEF m, r, mux
  <2> QED  BY <1>2
<1> HIDE DEF m, r, mux, new, cc
<1>8. seg' \in SegRec /\ seg'.gotten = r.seg.gotten /\ seg'.aac = r.seg.aac
  <2>1. r.ok => cc \in 0..CcMax
    BY <1>5 DEF cc
  <2>2. CASE ~r.ok
    BY <1>4, <1>7, <2>2
  <2>3. CASE r.ok /\ IsVideo(m)
    BY <1>4, <1>6, <1>7, <2>1, <2>3 DEF SegRec
  <2>4. CASE r.ok /\ ~IsVideo(m)
    BY <1>4, <1>7, <2>1, <2>4 DEF SegRec
  <2> QED  BY <2>2, <2>3, <2>4
<1>9. wire \in Seq(Msg) /\ AudioWire /\ AudioSent /\ AudioGot
  BY DEF Inv, Types, AudioSeq
<1>10. /\ w \in Seq(Msg) /\ Len(w) \in Nat /\ n = Len(w) + 1 /\ wire[1] = m
       /\ \A i \in 1..Len(w) : w[i] = wire[i + 1]
  BY <1>1, <1>9 DEF m
<1> HIDE DEF n, w
\* Nothing is forgotten, and the header, if it was this message, is kept.
<1>11. /\ seg.gotten => seg'.gotten
       /\ IsHeader(m, sound) => seg'.gotten
       /\ seg'.gotten => ~audioFirst /\ seg'.aac = AacOf(sound)
  <2>1. CASE m \in VideoMsg
    <3>1. seg'.gotten = seg.gotten /\ seg'.aac = seg.aac
      BY <1>3, <1>8, <2>1 DEF Parsed
    <3>2. ~IsHeader(m, sound)
      BY <2>1 DEF IsHeader, VideoMsg
    <3> QED  BY <1>9, <3>1, <3>2 DEF AudioGot
  <2>2. CASE m \in AudioMsg
    <3>0. m.type = "audio"
      BY <2>2 DEF AudioMsg
    <3>1. ~audioFirst
      BY <1>1, <3>0, HeadIs DEF m
    <3>2. CASE IsHeader(m, sound) /\ ~r.ok /\ r.seg.gotten = TRUE /\ r.seg.aac = AacOf(sound)
      BY <1>8, <3>1, <3>2
    <3>3. CASE IsFrame(m) /\ r.seg = seg /\ seg.gotten
      BY <1>8, <1>9, <3>1, <3>3 DEF AudioGot
    <3> QED  BY <1>3, <2>2, <3>2, <3>3 DEF Parsed
  <2> QED  BY <1>3, <2>1, <2>2 DEF Msg
<1>12. Types'
  <2>1. count' \in [sent : Nat, relayed : Nat]
    BY <1>1 DEF Inv, Types
  <2>2. w \in Seq(Msg)
    BY <1>10
  <2> QED  BY <1>1, <1>8, <2>1, <2>2 DEF Inv, Types, w
<1>13. ASSUME NEW k \in 1..n, IsHeader(wire[k], sound)  PROVE seg'.gotten \/ (k - 1 \in 1..Len(w) /\ IsHeader(w[k - 1], sound))
  <2>1. CASE k = 1
    BY <1>10, <1>11, <1>13, <2>1
  <2>2. CASE k # 1
    <3>1. k - 1 \in 1..Len(w) /\ (k - 1) + 1 = k
      BY <1>10, <2>2
    <3>2. w[k - 1] = wire[(k - 1) + 1]
      BY <1>10, <3>1
    <3> QED  BY <1>13, <3>1, <3>2
  <2> QED  BY <2>1, <2>2
<1>14. AudioWire'
  <2> SUFFICES ASSUME NEW i \in 1..Len(w), w[i].type = "audio"
               PROVE  /\ ~audioFirst /\ (IsHeader(w[i], sound) \/ IsFrame(w[i]))
                      /\ IsFrame(w[i]) => seg'.gotten \/ \E j \in 1..(i - 1) : IsHeader(w[j], sound)
    BY <1>1 DEF AudioWire, AudioAt, w
  <2>1. i + 1 \in 1..n /\ w[i] = wire[i + 1] /\ i \in Nat
    BY <1>10
  <2>2. /\ ~audioFirst /\ (IsHeader(w[i], sound) \/ IsFrame(w[i]))
        /\ IsFrame(w[i]) => seg.gotten \/ \E j \in 1..((i + 1) - 1) : IsHeader(wire[j], sound)
    BY <1>9, <2>1 DEF AudioWire, AudioAt, n
  <2>3. ASSUME NEW j \in 1..((i + 1) - 1), IsHeader(wire[j], sound), ~seg'.gotten
        PROVE  \E k \in 1..(i - 1) : IsHeader(w[k], sound)
    <3>1. j \in 1..n
      BY <1>10, <2>1
    <3>2. j - 1 \in 1..Len(w) /\ IsHeader(w[j - 1], sound)
      BY <1>13, <2>3, <3>1
    <3>3. j - 1 \in 1..(i - 1)
      BY <2>1, <3>2
    <3> QED  BY <3>2, <3>3
  <2> QED  BY <1>11, <2>2, <2>3
<1>15. AudioSent'
  <2>1. ~audioFirst => /\ sound \in AH /\ sound.format = SOUND_AAC
                       /\ seg.gotten \/ \E j \in 1..n : IsHeader(wire[j], sound)
    BY <1>9 DEF AudioSent, n
  <2>2. ~audioFirst => seg'.gotten \/ \E j \in 1..Len(w) : IsHeader(w[j], sound)
    BY <1>11, <1>13, <2>1
  <2> QED  BY <1>1, <2>1, <2>2 DEF AudioSent, w
<1>16. AudioGot'
  BY <1>1, <1>11 DEF AudioGot
<1> QED  BY <1>12, <1>14, <1>15, <1>16 DEF Inv, AudioSeq

\* Every step keeps the order of AAC header and frames.
LEMMA InvNext == Inv /\ [Next]_vars => Inv'
<1> SUFFICES ASSUME Inv, [Next]_vars  PROVE Inv'
  OBVIOUS
<1>1. CASE SendPacket
  BY <1>1, InvSend
<1>2. CASE PeerSends
  BY <1>2, InvPeer
<1>3. CASE Join
  BY <1>3, InvSame DEF Join
<1>4. CASE Relay
  BY <1>4, InvRelay
<1>5. CASE Segment(SOUND_AAC, TRUE)
  BY <1>5, InvSegment
<1>6. CASE UNCHANGED vars
  BY <1>6, InvSame DEF vars
<1> QED  BY <1>1, <1>2, <1>3, <1>4, <1>5, <1>6 DEF Next

\* Whatever pictures and sounds are sent, messages stay well-formed, no AAC frame reaches
\* the segmenter before the sequence header that sendAudioPacket sends with the first one,
\* and the configuration the segmenter keeps is the one of that header; Mux's counters
\* stay within their four bits.
THEOREM Ordered == Spec => []Inv
<1>1. Inv /\ [Next]_vars => Inv'
  BY InvNext
<1> QED  BY <1>1, InvInit, PTL DEF Spec

-----------------------------------------------------------------------------
(* What comes out *)

\* What a relayed message becomes.
Became(m, r) ==
  /\ out' = [m |-> m, got |-> IF Wanted(m) THEN handleVideoAudio(m) ELSE <<>>, es |-> r.es,
             packets |-> IF r.ok THEN MuxOf(m, r.es).packets ELSE <<>>, seen |-> Counters]

\* Relay leaves in out what Became describes.
LEMMA RelayedIs ==
  ASSUME Relay
  PROVE  Became(Head(wire), Parse(Head(wire)))
<1> DEFINE m == Head(wire)
           r == Parse(m)
<1> HIDE DEF m, r
<1>1. Became(m, r)
  BY DEF Relay, Became, MuxOf, IsVideo, CtOf, CcOf, m, r
<1> QED  BY <1>1 DEF m, r

\* The fields of the output.
IsOut == out = [m |-> out.m, got |-> out.got, es |-> out.es, packets |-> out.packets, seen |-> out.seen]

\* The last counter on a PID, after packets, and Counters' state from them.
LastCc(packets, seen, pid) ==
  LET is == {i \in 1 .. Len(packets) : packets[i].pid = pid}
  IN  IF is = {} THEN seen[pid] ELSE packets[Max(is)].cc
CountersOf(packets, seen) == [pid \in Pids |-> LastCc(packets, seen, pid)]

\* The muxer's counters in s are the last ones seen, c, where there is one.
Counts(c, s) ==
  /\ s.patCc \in 0..(CcMax + 1) /\ c[0] = s.patCc - 1
  /\ s.pmtCc \in 0..(CcMax + 1) /\ c[4097] = s.pmtCc - 1
  /\ c[256] \in {-1, s.videoCc} /\ c[257] \in {-1, s.audioCc}

\* What is seen in the output is what the muxer counts.
Linked == Counts(Counters, seg)

\* Continuity, of packets that come after the counters seen.
ContinuityOf(packets, seen) ==
  \A i \in 1 .. Len(packets) :
    LET pid == packets[i].pid
        before == {j \in 1 .. i - 1 : packets[j].pid = pid}
        last == IF before = {} THEN seen[pid] ELSE packets[Max(before)].cc
    IN  last # -1 => packets[i].cc = (last + 1) % (CcMax + 1)

\* A counter that is counted as the code does goes up by one and wraps.
LEMMA NextIs == ASSUME NEW c \in 0..CcMax  PROVE NextCc(c) = (c + 1) % (CcMax + 1)
<1> DEFINE n == CcMax + 1
           d == c + 1
<1>1. n \in Nat /\ n > 0 /\ d \in 1..n /\ (d > CcMax <=> d = n) /\ d \in Nat
  BY CodecAssumption
<1>2. NextCc(c) = IF d = n THEN 0 ELSE d
  BY <1>1 DEF NextCc
<1> HIDE DEF n, d
<1>3. d # n => d % n = d
  BY ONLY <1>1
<1>4. n % n = 0
  BY ONLY <1>1
<1>5. NextCc(c) = d % n
  BY <1>2, <1>3, <1>4
<1> QED  BY <1>5 DEF n, d

\* So does a table's.
LEMMA TableIs ==
  ASSUME NEW a \in 0..(CcMax + 1)
  PROVE  /\ a # 0 => TableCc(a) = ((a - 1) + 1) % (CcMax + 1)
         /\ TableCc(a) \in 0..CcMax /\ TableCc(a) + 1 \in 0..(CcMax + 1)
<1>1. TableCc(a) \in 0..CcMax /\ TableCc(a) + 1 \in 0..(CcMax + 1)
  BY CodecAssumption DEF TableCc
<1>2. ASSUME a # 0  PROVE TableCc(a) = ((a - 1) + 1) % (CcMax + 1)
  <2>1. a - 1 \in 0..CcMax
    BY <1>2, CodecAssumption
  <2>2. TableCc(a) = NextCc(a - 1)
    BY <1>2, CodecAssumption DEF TableCc, NextCc
  <2> QED  BY <2>1, <2>2, NextIs
<1> QED  BY <1>1, <1>2

\* The largest of the first numbers is the last.
LEMMA MaxUpTo == ASSUME NEW n \in Nat, n > 0  PROVE Max(1..n) = n
<1> DEFINE x == Max(1..n)
<1>1. n \in 1..n /\ 1..n # {}
  OBVIOUS
<1>2. x \in 1..n /\ \A k \in 1..n : k <= x
  <2> DEFINE S == 1..n
  <2>1. S \subseteq 1..n /\ S # {}
    BY <1>1
  <2> HIDE DEF S
  <2>2. Max(S) \in S /\ \A k \in S : k <= Max(S)
    BY <2>1, MaxIs
  <2> QED  BY <2>2 DEF S
<1> HIDE DEF x
<1>3. x = n
  BY <1>1, <1>2
<1> QED  BY <1>3 DEF x

\* All packets of a message are on one PID.
LEMMA OnePid ==
  ASSUME NEW S, NEW pid, NEW ps \in Seq(PacketRec(S, pid)), NEW i \in 1..Len(ps)
  PROVE  ps[i].pid = pid /\ ps[i].cc \in 0..CcMax
<1>1. ps[i] \in PacketRec(S, pid)
  OBVIOUS
<1> QED  BY <1>1 DEF PacketRec

\* Counters of one PID that go up by one are continuous, after the one they start from.
LEMMA ContinuityMux ==
  ASSUME NEW S, NEW pid, NEW ps \in Seq(PacketRec(S, pid)), NEW c \in 0..CcMax, PacketsOK(ps, c),
         NEW seen, seen[pid] \in {-1, c}
  PROVE  ContinuityOf(ps, seen)
<1> SUFFICES ASSUME NEW i \in 1..Len(ps)
             PROVE  LET q == ps[i].pid
                        before == {j \in 1 .. i - 1 : ps[j].pid = q}
                        last == IF before = {} THEN seen[q] ELSE ps[Max(before)].cc
                    IN  last # -1 => ps[i].cc = (last + 1) % (CcMax + 1)
  BY DEF ContinuityOf
<1> DEFINE before == {j \in 1 .. i - 1 : ps[j].pid = pid}
           last == IF before = {} THEN seen[pid] ELSE ps[Max(before)].cc
<1>0. ps[i].pid = pid
  BY OnePid
<1>1. before = 1..(i - 1)
  <2>1. \A j \in 1..(i - 1) : j \in 1..Len(ps)
    OBVIOUS
  <2> QED  BY <2>1, OnePid
<1>2. ps[i].cc = NextCc(IF i = 1 THEN c ELSE ps[i - 1].cc)
  BY DEF PacketsOK
<1> HIDE DEF before
<1>3. CASE i = 1
  <2>1. before = {}
    BY <1>1, <1>3
  <2>2. last = seen[pid]
    BY <2>1
  <2>3. last # -1 => last = c
    BY <2>2
  <2>4. ps[i].cc = NextCc(c)
    BY <1>2, <1>3
  <2>5. last # -1 => ps[i].cc = (last + 1) % (CcMax + 1)
    <3> HIDE DEF last
    <3> QED  BY <2>3, <2>4, NextIs
  <2> QED  BY <1>0, <2>5 DEF before
<1>4. CASE i # 1
  <2>1. i - 1 \in Nat /\ i - 1 > 0 /\ i - 1 \in 1..Len(ps)
    BY <1>4
  <2>2. before # {} /\ Max(before) = i - 1
    <3> DEFINE n == i - 1
    <3>1. n \in Nat /\ n > 0
      BY <2>1
    <3> HIDE DEF n
    <3>2. Max(1..n) = n /\ n \in 1..n
      BY <3>1, MaxUpTo
    <3> QED  BY <1>1, <3>2 DEF n
  <2>3. last = ps[i - 1].cc
    BY <2>2
  <2>4. last \in 0..CcMax
    BY <2>1, <2>3, OnePid
  <2>5. ps[i].cc = NextCc(last)
    BY <1>2, <1>4, <2>3
  <2> HIDE DEF last
  <2>6. ps[i].cc = (last + 1) % (CcMax + 1)
    BY <2>4, <2>5, NextIs
  <2> QED  BY <1>0, <2>6 DEF last, before
<1> QED  BY <1>3, <1>4

\* After them the last counter on their PID is theirs, and on another what it was.
LEMMA LastMux ==
  ASSUME NEW S, NEW pid, NEW ps \in Seq(PacketRec(S, pid)), ps # <<>>, NEW seen, NEW q
  PROVE  LastCc(ps, seen, q) = IF q = pid THEN ps[Len(ps)].cc ELSE seen[q]
<1> DEFINE is == {i \in 1..Len(ps) : ps[i].pid = q}
<1>1. CASE q = pid
  <2>1. is = 1..Len(ps)
    BY <1>1, OnePid
  <2>2. Len(ps) \in Nat /\ Len(ps) > 0
    OBVIOUS
  <2>3. Max(1..Len(ps)) = Len(ps) /\ 1..Len(ps) # {}
    BY <2>2, MaxUpTo
  <2> HIDE DEF is
  <2>4. is # {} /\ Max(is) = Len(ps)
    BY <2>1, <2>3
  <2> QED  BY <1>1, <2>4 DEF LastCc, is
<1>2. CASE q # pid
  <2>1. is = {}
    BY <1>2, OnePid
  <2> QED  BY <1>2, <2>1 DEF LastCc
<1> QED  BY <1>1, <1>2

Tables(a, b) == <<PAT(a), PMT(b, SOUND_AAC, TRUE)>>

\* The tables of a new segment.
LEMMA TablesAre ==
  ASSUME NEW a, NEW b, NEW ps, ps = Tables(a, b)
  PROVE  Len(ps) = 2 /\ ps[1].pid = 0 /\ ps[2].pid = 4097 /\ ps[1].cc = TableCc(a) /\ ps[2].cc = TableCc(b)
  BY DEF PAT, PMT, Tables

\* The tables of a new segment go on from the last ones.
LEMMA ContinuityTables ==
  ASSUME NEW a \in 0..(CcMax + 1), NEW b \in 0..(CcMax + 1), NEW seen, seen[0] = a - 1, seen[4097] = b - 1,
         NEW ps, ps = Tables(a, b)
  PROVE  ContinuityOf(ps, seen)
<1>1. Len(ps) = 2 /\ ps[1].pid = 0 /\ ps[2].pid = 4097 /\ ps[1].cc = TableCc(a) /\ ps[2].cc = TableCc(b)
  BY TablesAre
<1> SUFFICES ASSUME NEW i \in 1..2
             PROVE  LET q == ps[i].pid
                        before == {j \in 1 .. i - 1 : ps[j].pid = q}
                        last == IF before = {} THEN seen[q] ELSE ps[Max(before)].cc
                    IN  last # -1 => ps[i].cc = (last + 1) % (CcMax + 1)
  BY <1>1 DEF ContinuityOf
<1>2. {j \in 1 .. i - 1 : ps[j].pid = ps[i].pid} = {}
  <2>1. CASE i = 1
    BY <2>1
  <2>2. CASE i = 2
    <3>1. \A j \in 1..(i - 1) : j = 1
      BY <2>2
    <3> QED  BY <1>1, <2>2, <3>1
  <2> QED  BY <2>1, <2>2
<1>3. ASSUME NEW x \in 0..(CcMax + 1), x - 1 # -1  PROVE TableCc(x) = ((x - 1) + 1) % (CcMax + 1)
  <2>1. x # 0
    BY <1>3
  <2> QED  BY <2>1, TableIs
<1>4. seen[ps[i].pid] # -1 => ps[i].cc = (seen[ps[i].pid] + 1) % (CcMax + 1)
  <2>1. CASE i = 1
    BY <1>1, <1>3, <2>1
  <2>2. CASE i = 2
    BY <1>1, <1>3, <2>2
  <2> QED  BY <2>1, <2>2
<1> QED  BY <1>2, <1>4

\* And they are then the last ones on their PIDs.
LEMMA LastTables ==
  ASSUME NEW a, NEW b, NEW seen, NEW ps, ps = Tables(a, b), NEW q
  PROVE  LastCc(ps, seen, q) = IF q = 0 THEN TableCc(a) ELSE IF q = 4097 THEN TableCc(b) ELSE seen[q]
<1> DEFINE is == {i \in 1..Len(ps) : ps[i].pid = q}
<1>1. Len(ps) = 2 /\ ps[1].pid = 0 /\ ps[2].pid = 4097 /\ ps[1].cc = TableCc(a) /\ ps[2].cc = TableCc(b)
  BY TablesAre
<1>2. is = {i \in {1, 2} : ps[i].pid = q}
  BY <1>1
<1>3. ASSUME NEW k \in {1, 2}, is = {k}  PROVE LastCc(ps, seen, q) = ps[k].cc
  <2> DEFINE T == {k}
  <2>1. T \subseteq 1..2 /\ T # {} /\ 2 \in Nat
    OBVIOUS
  <2>2. Max(T) = k
    <3>1. Max(T) \in T
      <4> HIDE DEF T
      <4> QED  BY <2>1, MaxIs
    <3> QED  BY <3>1
  <2> HIDE DEF is
  <2> QED  BY <1>3, <2>2 DEF LastCc, is
<1>4. CASE q = 0
  <2>1. is = {1}
    BY <1>1, <1>2, <1>4
  <2> QED  BY <1>1, <1>3, <1>4, <2>1
<1>5. CASE q = 4097
  <2>1. is = {2}
    BY <1>1, <1>2, <1>5
  <2> QED  BY <1>1, <1>3, <1>5, <2>1
<1>6. CASE q \notin {0, 4097}
  <2>1. is = {}
    BY <1>1, <1>2, <1>6
  <2> QED  BY <1>6, <2>1 DEF LastCc
<1> QED  BY <1>4, <1>5, <1>6

\* No packets leave the counters as they were.
LEMMA LastNone == ASSUME NEW seen, NEW q  PROVE LastCc(<<>>, seen, q) = seen[q]
  BY DEF LastCc

\* The counters are those of the last packets.
LEMMA CountersAre ==
  ASSUME NEW q \in Pids
  PROVE  /\ Counters[q] = LastCc(out.packets, out.seen, q)
         /\ Counters'[q] = LastCc(out'.packets, out'.seen, q)
  BY DEF Counters, LastCc

\* The four PIDs.
LEMMA PidsAre == {0, 256, 257, 4097} = Pids
  BY DEF Pids

\* The output a step leaves.
Put(packets) == out'.packets = packets /\ out'.seen = Counters

\* Every step puts out no packets, the tables, or those of a message, after what was
\* seen, and counts them.
Emits ==
  \/ UNCHANGED out /\ UNCHANGED seg
  \/ /\ Put(<<>>) /\ seg'.patCc = seg.patCc /\ seg'.pmtCc = seg.pmtCc
     /\ seg'.videoCc = seg.videoCc /\ seg'.audioCc = seg.audioCc
  \/ /\ Put(Tables(seg.patCc, seg.pmtCc))
     /\ seg'.patCc = TableCc(seg.patCc) + 1 /\ seg'.pmtCc = TableCc(seg.pmtCc) + 1
     /\ seg'.videoCc = seg.videoCc /\ seg'.audioCc = seg.audioCc
  \/ \E ps \in Seq(PacketRec(TsByte, 256)) :
       /\ ps # <<>> /\ Put(ps) /\ PacketsOK(ps, seg.videoCc) /\ seg'.videoCc = ps[Len(ps)].cc
       /\ seg'.patCc = seg.patCc /\ seg'.pmtCc = seg.pmtCc /\ seg'.audioCc = seg.audioCc
  \/ \E ps \in Seq(PacketRec(TsByte, 257)) :
       /\ ps # <<>> /\ Put(ps) /\ PacketsOK(ps, seg.audioCc) /\ seg'.audioCc = ps[Len(ps)].cc
       /\ seg'.patCc = seg.patCc /\ seg'.pmtCc = seg.pmtCc /\ seg'.videoCc = seg.videoCc

\* Emits covers every step.
LEMMA StepEmits == ASSUME Inv, IsOut, [Next]_vars  PROVE Emits
<1>1. seg \in SegRec
  BY DEF Inv, Types
<1>2. CASE SendPacket \/ PeerSends \/ UNCHANGED vars
  <2>1. UNCHANGED out /\ UNCHANGED seg
    BY <1>2 DEF SendPacket, PeerSends, vars
  <2> QED  BY <2>1 DEF Emits
<1>3. CASE Join
  <2> DEFINE c == Counters
  <2>1. out' = [out EXCEPT !.m = None, !.packets = <<>>, !.seen = c] /\ UNCHANGED seg
    BY <1>3 DEF Join
  <2> HIDE DEF c
  <2>2. out'.packets = <<>> /\ out'.seen = c
    BY <2>1 DEF IsOut
  <2> QED  BY <2>1, <2>2 DEF Emits, Put, c
<1>4. CASE Segment(SOUND_AAC, TRUE)
  <2> DEFINE c == Counters
             ps == Tables(seg.patCc, seg.pmtCc)
             a == TableCc(seg.patCc) + 1
             b == TableCc(seg.pmtCc) + 1
  <2>1. out' = [out EXCEPT !.m = None, !.seen = c, !.packets = ps] /\ seg' = [seg EXCEPT !.patCc = a, !.pmtCc = b]
    BY <1>4 DEF Segment, Tables
  <2> HIDE DEF c, ps, a, b
  <2>2. out'.packets = ps /\ out'.seen = c
    BY <2>1 DEF IsOut
  <2>3. seg'.patCc = a /\ seg'.pmtCc = b /\ seg'.videoCc = seg.videoCc /\ seg'.audioCc = seg.audioCc
    BY <1>1, <2>1 DEF SegRec
  <2> QED  BY <2>2, <2>3 DEF Emits, Put, c, ps, a, b
<1>5. CASE Relay
  <2> DEFINE m == Head(wire)
             r == Parse(m)
             mux == MuxOf(m, r.es)
             ps == mux.packets
             new == UpdateSets(r.seg.sets, UnitsOf(<<r.es>>))
             cc == mux.cc
             c == Counters
  <2>1. Became(m, r) /\ wire # <<>>
    BY <1>5, RelayedIs DEF Relay
  <2>2. Parsed(m, r)
    BY <2>1, ParsedIs
  <2>3. seg' = IF ~r.ok THEN r.seg
               ELSE IF IsVideo(m) THEN [r.seg EXCEPT !.videoCc = cc, !.sets = new] ELSE [r.seg EXCEPT !.audioCc = cc]
    <3>1. seg' = IF ~r.ok THEN r.seg
                 ELSE IF IsVideo(m) THEN [r.seg EXCEPT !.videoCc = mux.cc, !.sets = UpdateSets(@, UnitsOf(<<r.es>>))]
                 ELSE [r.seg EXCEPT !.audioCc = mux.cc]
      <4> HIDE DEF m, r
      <4> QED  BY <1>5 DEF Relay, MuxOf, IsVideo, CtOf, CcOf, m, r
    <3> HIDE DEF m, r, mux
    <3> QED  BY <3>1
  <2>4. out'.packets = (IF r.ok THEN ps ELSE <<>>) /\ out'.seen = c
    <3> HIDE DEF m, r, c
    <3> QED  BY <2>1 DEF Became, c
  <2> HIDE DEF m, r, mux, new, c
  <2>5. /\ r.seg \in SegRec /\ r.seg.patCc = seg.patCc /\ r.seg.pmtCc = seg.pmtCc
        /\ r.seg.videoCc = seg.videoCc /\ r.seg.audioCc = seg.audioCc
    BY <2>2 DEF Parsed
  <2>6. CASE ~r.ok
    <3>1. Put(<<>>) /\ seg' = r.seg
      BY <2>3, <2>4, <2>6 DEF Put, c
    <3> QED  BY <2>5, <3>1 DEF Emits
  <2>7. CASE r.ok
    <3>1. MuxGood(mux, TsByte, PidOf(m), PesOf(m, r.es), r.es, CcOf(m))
      BY <2>2, <2>7 DEF Parsed, Muxed, mux
    <3>2. ps \in Seq(PacketRec(TsByte, PidOf(m))) /\ ps # <<>> /\ PacketsOK(ps, CcOf(m)) /\ cc = ps[Len(ps)].cc
      BY <3>1 DEF MuxGood
    <3> HIDE DEF ps, cc
    <3>3. Put(ps)
      BY <2>4, <2>7 DEF Put, c
    <3>4. CASE IsVideo(m)
      <4>1. PidOf(m) = 256 /\ CcOf(m) = seg.videoCc
        BY <3>4 DEF PidOf, CcOf
      <4>2. seg' = [r.seg EXCEPT !.videoCc = cc, !.sets = new]
        BY <2>3, <2>7, <3>4
      <4>3. seg'.videoCc = cc /\ seg'.patCc = seg.patCc /\ seg'.pmtCc = seg.pmtCc /\ seg'.audioCc = seg.audioCc
        BY <2>5, <4>2 DEF SegRec
      <4> QED  BY <3>2, <3>3, <4>1, <4>3 DEF Emits
    <3>5. CASE ~IsVideo(m)
      <4>1. PidOf(m) = 257 /\ CcOf(m) = seg.audioCc
        BY <3>5 DEF PidOf, CcOf
      <4>2. seg' = [r.seg EXCEPT !.audioCc = cc]
        BY <2>3, <2>7, <3>5
      <4>3. seg'.audioCc = cc /\ seg'.patCc = seg.patCc /\ seg'.pmtCc = seg.pmtCc /\ seg'.videoCc = seg.videoCc
        BY <2>5, <4>2 DEF SegRec
      <4> QED  BY <3>2, <3>3, <4>1, <4>3 DEF Emits
    <3> QED  BY <3>4, <3>5
  <2> QED  BY <2>6, <2>7
<1> QED  BY <1>2, <1>3, <1>4, <1>5 DEF Next

\* The output is a record.
LEMMA OutNext == ASSUME IsOut, [Next]_vars  PROVE IsOut'
<1>1. CASE SendPacket \/ PeerSends \/ UNCHANGED vars
  <2>1. UNCHANGED out
    BY <1>1 DEF SendPacket, PeerSends, vars
  <2> QED  BY <2>1 DEF IsOut
<1>2. CASE Join
  BY <1>2 DEF Join, IsOut
<1>3. CASE Segment(SOUND_AAC, TRUE)
  BY <1>3 DEF Segment, IsOut
<1>4. CASE Relay
  <2> DEFINE m == Head(wire)
             r == Parse(m)
  <2>1. Became(m, r)
    BY <1>4, RelayedIs
  <2> HIDE DEF m, r
  <2> QED  BY <2>1 DEF Became, IsOut
<1> QED  BY <1>1, <1>2, <1>3, <1>4 DEF Next

\* Packets go on from the last ones seen, whoever they were of.
LEMMA ContinuityNext == Inv /\ IsOut /\ Linked /\ Continuity /\ [Next]_vars => Linked' /\ Continuity'
<1> SUFFICES ASSUME Inv, IsOut, Linked, Continuity, [Next]_vars  PROVE Linked' /\ Continuity'
  OBVIOUS
<1>1. Continuity' <=> ContinuityOf(out'.packets, out'.seen)
  BY DEF Continuity, ContinuityOf
<1>2. Emits
  BY StepEmits
<1>3. seg.videoCc \in 0..CcMax /\ seg.audioCc \in 0..CcMax
  BY DEF Inv, Types, SegRec
<1> DEFINE c == Counters
           d == Counters'
<1>4. Counts(c, seg)
  BY DEF Linked
<1>5. /\ d[0] = LastCc(out'.packets, out'.seen, 0) /\ d[256] = LastCc(out'.packets, out'.seen, 256)
      /\ d[257] = LastCc(out'.packets, out'.seen, 257) /\ d[4097] = LastCc(out'.packets, out'.seen, 4097)
  BY CountersAre, PidsAre
<1>6. Linked' <=> Counts(d, seg')
  BY DEF Linked, Counts
<1> HIDE DEF c, d
<1>7. CASE UNCHANGED out /\ UNCHANGED seg
  <2>1. d = c
    BY <1>7 DEF c, d, Counters
  <2> QED  BY <1>4, <1>6, <1>7, <2>1 DEF Continuity
<1>8. CASE /\ Put(<<>>) /\ seg'.patCc = seg.patCc /\ seg'.pmtCc = seg.pmtCc
           /\ seg'.videoCc = seg.videoCc /\ seg'.audioCc = seg.audioCc
  <2>1. out'.packets = <<>> /\ out'.seen = c
    BY <1>8 DEF Put, c
  <2>2. d[0] = c[0] /\ d[256] = c[256] /\ d[257] = c[257] /\ d[4097] = c[4097]
    BY <1>5, <2>1, LastNone
  <2>3. Counts(d, seg')
    BY <1>4, <1>8, <2>2 DEF Counts
  <2>4. ContinuityOf(<<>>, c)
    BY DEF ContinuityOf
  <2> QED  BY <1>1, <1>6, <2>1, <2>3, <2>4
<1>9. CASE /\ Put(Tables(seg.patCc, seg.pmtCc))
           /\ seg'.patCc = TableCc(seg.patCc) + 1 /\ seg'.pmtCc = TableCc(seg.pmtCc) + 1
           /\ seg'.videoCc = seg.videoCc /\ seg'.audioCc = seg.audioCc
  <2> DEFINE a == seg.patCc
             b == seg.pmtCc
             ps == Tables(a, b)
  <2>1. out'.packets = ps /\ out'.seen = c
    BY <1>9 DEF Put, c
  <2>2. a \in 0..(CcMax + 1) /\ b \in 0..(CcMax + 1) /\ c[0] = a - 1 /\ c[4097] = b - 1
    BY <1>4 DEF Counts
  <2> HIDE DEF a, b, ps
  <2>3. ContinuityOf(ps, c)
    BY <2>2, ContinuityTables DEF ps
  <2>4. d[0] = TableCc(a) /\ d[4097] = TableCc(b) /\ d[256] = c[256] /\ d[257] = c[257]
    <3>1. \A q : LastCc(ps, c, q) = IF q = 0 THEN TableCc(a) ELSE IF q = 4097 THEN TableCc(b) ELSE c[q]
      BY LastTables DEF ps
    <3> QED  BY <1>5, <2>1, <3>1
  <2>5. /\ TableCc(a) \in 0..CcMax /\ TableCc(a) + 1 \in 0..(CcMax + 1)
        /\ TableCc(b) \in 0..CcMax /\ TableCc(b) + 1 \in 0..(CcMax + 1)
    BY <2>2, TableIs
  <2>6. Counts(d, seg')
    <3> DEFINE x == TableCc(a)
               y == TableCc(b)
    <3>1. seg'.patCc = x + 1 /\ seg'.pmtCc = y + 1 /\ d[0] = x /\ d[4097] = y
      BY <1>9, <2>4 DEF a, b
    <3>2. x \in 0..CcMax /\ x + 1 \in 0..(CcMax + 1) /\ y \in 0..CcMax /\ y + 1 \in 0..(CcMax + 1)
      BY <2>5
    <3> HIDE DEF x, y
    <3>3. x = (x + 1) - 1 /\ y = (y + 1) - 1
      BY ONLY <3>2, CodecAssumption
    <3>4. c[256] \in {-1, seg.videoCc} /\ c[257] \in {-1, seg.audioCc}
      BY <1>4 DEF Counts
    <3> QED  BY <1>9, <2>4, <3>1, <3>2, <3>3, <3>4 DEF Counts
  <2> QED  BY <1>1, <1>6, <2>1, <2>3, <2>6
<1>10. CASE \E ps \in Seq(PacketRec(TsByte, 256)) :
              /\ ps # <<>> /\ Put(ps) /\ PacketsOK(ps, seg.videoCc) /\ seg'.videoCc = ps[Len(ps)].cc
              /\ seg'.patCc = seg.patCc /\ seg'.pmtCc = seg.pmtCc /\ seg'.audioCc = seg.audioCc
  <2>1. PICK ps \in Seq(PacketRec(TsByte, 256)) :
          /\ ps # <<>> /\ Put(ps) /\ PacketsOK(ps, seg.videoCc) /\ seg'.videoCc = ps[Len(ps)].cc
          /\ seg'.patCc = seg.patCc /\ seg'.pmtCc = seg.pmtCc /\ seg'.audioCc = seg.audioCc
    BY <1>10
  <2>2. out'.packets = ps /\ out'.seen = c
    BY <2>1 DEF Put, c
  <2>3. c[256] \in {-1, seg.videoCc}
    BY <1>4 DEF Counts
  <2>4. ContinuityOf(ps, c)
    BY <1>3, <2>1, <2>3, ContinuityMux
  <2>5. d[256] = ps[Len(ps)].cc /\ d[0] = c[0] /\ d[257] = c[257] /\ d[4097] = c[4097]
    <3>1. \A q : LastCc(ps, c, q) = IF q = 256 THEN ps[Len(ps)].cc ELSE c[q]
      BY <2>1, LastMux
    <3> QED  BY <1>5, <2>2, <3>1
  <2>6. Counts(d, seg')
    BY <1>4, <2>1, <2>5 DEF Counts
  <2> QED  BY <1>1, <1>6, <2>2, <2>4, <2>6
<1>11. CASE \E ps \in Seq(PacketRec(TsByte, 257)) :
              /\ ps # <<>> /\ Put(ps) /\ PacketsOK(ps, seg.audioCc) /\ seg'.audioCc = ps[Len(ps)].cc
              /\ seg'.patCc = seg.patCc /\ seg'.pmtCc = seg.pmtCc /\ seg'.videoCc = seg.videoCc
  <2>1. PICK ps \in Seq(PacketRec(TsByte, 257)) :
          /\ ps # <<>> /\ Put(ps) /\ PacketsOK(ps, seg.audioCc) /\ seg'.audioCc = ps[Len(ps)].cc
          /\ seg'.patCc = seg.patCc /\ seg'.pmtCc = seg.pmtCc /\ seg'.videoCc = seg.videoCc
    BY <1>11
  <2>2. out'.packets = ps /\ out'.seen = c
    BY <2>1 DEF Put, c
  <2>3. c[257] \in {-1, seg.audioCc}
    BY <1>4 DEF Counts
  <2>4. ContinuityOf(ps, c)
    BY <1>3, <2>1, <2>3, ContinuityMux
  <2>5. d[257] = ps[Len(ps)].cc /\ d[0] = c[0] /\ d[256] = c[256] /\ d[4097] = c[4097]
    <3>1. \A q : LastCc(ps, c, q) = IF q = 257 THEN ps[Len(ps)].cc ELSE c[q]
      BY <2>1, LastMux
    <3> QED  BY <1>5, <2>2, <3>1
  <2>6. Counts(d, seg')
    BY <1>4, <2>1, <2>5 DEF Counts
  <2> QED  BY <1>1, <1>6, <2>2, <2>4, <2>6
<1> QED  BY <1>2, <1>7, <1>8, <1>9, <1>10, <1>11 DEF Emits

\* On every PID the counters in the packets that Mux, PAT and PMT put out go up by one
\* and wrap, over messages and segments, for any messages, however many packets each one
\* takes.  The output's counters are followed apart from the muxer's (out.seen); that
\* they agree (Linked) is what makes it inductive.
THEOREM ContinuityHolds == Spec => []Continuity
<1>1. Init => IsOut /\ Linked /\ Continuity
  <2> SUFFICES ASSUME Init  PROVE IsOut /\ Linked /\ Continuity
    OBVIOUS
  <2>1. out.packets = <<>> /\ out.seen = [pid \in Pids |-> -1]
    BY DEF Init
  <2>2. IsOut
    BY DEF Init, IsOut
  <2>3. ASSUME NEW q \in Pids  PROVE Counters[q] = -1
    <3>1. Counters[q] = LastCc(out.packets, out.seen, q)
      BY CountersAre
    <3> QED  BY <2>1, <3>1, LastNone
  <2>4. Counters[0] = -1 /\ Counters[256] = -1 /\ Counters[257] = -1 /\ Counters[4097] = -1
    BY <2>3, PidsAre
  <2>5. seg.patCc = 0 /\ seg.pmtCc = 0
    BY DEF Init
  <2>6. 0 \in 0..(CcMax + 1) /\ 0 - 1 = -1
    BY CodecAssumption
  <2> DEFINE c == Counters
  <2> HIDE DEF c
  <2>7. Counts(c, seg)
    BY <2>4, <2>5, <2>6 DEF Counts, c
  <2>8. Continuity
    BY <2>1 DEF Continuity
  <2> QED  BY <2>2, <2>7, <2>8 DEF Linked, c
<1>2. Inv /\ (IsOut /\ Linked /\ Continuity) /\ [Next]_vars => (IsOut /\ Linked /\ Continuity)'
  BY ContinuityNext, OutNext
<1> QED  BY <1>1, <1>2, Ordered, PTL DEF Spec

\* What TsReassembles says of the packets of a message.
IsNear(t, u) == (t - u) % (ClockMax + 1) \in {0, 1}
PacketsFull(ps) ==
  \A i \in 1 .. Len(ps) :
    /\ Len(ps[i].payload) + ps[i].adaptation = TsDataLen
    /\ ps[i].start = (i = 1)
    /\ ps[i].pid = ps[1].pid
Reads(pes, es, pts, dts) ==
  /\ SubSeq(pes, 1, 3) = <<0, 0, 1>>
  /\ pes[5] * 256 + pes[6] = IF Len(pes) - 6 > 65535 THEN 0 ELSE Len(pes) - 6
  /\ Rest(pes, 9 + pes[9]) = es
  /\ IsNear(pes[10][2], pts)
  /\ IF pes[8] = 192 THEN IsNear(pes[15][2], dts) ELSE pts = dts
Reassembles(ps, m, es) ==
  LET dts == m.ts * 90
      pts == dts + (IF m.type = "video" THEN ParseVideoHeader(m.data).compositionTime * 90 ELSE 0)
  IN  PacketsFull(ps) /\ Reads(Carried(ps), es, pts, dts)

\* A clock reading of writeTs is right, or a tick ahead once the clock has wrapped.
LEMMA ClockNear == ASSUME NEW u \in Nat  PROVE IsNear(Clock(u), u)
<1>1. ClockMax \in Nat
  BY CodecAssumption
<1> QED  BY <1>1, Near DEF IsNear, Clock

\* A PES packet read by its header.
LEMMA ReadsIs ==
  ASSUME NEW v \in BOOLEAN, NEW pts \in Nat, NEW dts \in Nat, ~v => pts = dts,
         NEW h, NEW es \in Seq(Nat), PesOK(h, v, Len(es), pts, dts)
  PROVE  Reads(h \o es, es, pts, dts)
<1> DEFINE both == v /\ pts # dts
           n == Len(h)
           k == Len(es)
           z == h \o es
<1>1. /\ h \in Seq(TsByte) /\ n \in {14, 19} /\ n = (IF both THEN 19 ELSE 14)
      /\ h[1] = 0 /\ h[2] = 0 /\ h[3] = 1
      /\ h[5] * 256 + h[6] = (IF n + k - 6 > 65535 THEN 0 ELSE n + k - 6)
      /\ h[8] = (IF both THEN 192 ELSE 128)
      /\ h[9] = (IF both THEN 10 ELSE 5)
      /\ h[10][2] = Clock(pts)
      /\ both => h[15][2] = Clock(dts)
  BY DEF PesOK
<1>2. es \in Seq(TsByte) /\ k \in Nat
  BY DEF TsByte
<1>0. h \in Seq(TsByte)
  BY <1>1
<1>3. z \in Seq(TsByte) /\ Len(z) = n + k /\ Rest(z, n) = es
  BY ONLY <1>0, <1>2, Joined
<1>4. \A i \in 1..n : z[i] = h[i]
  <2>1. IsJoin(z, TsByte, h, n, es, k)
    BY ONLY <1>0, <1>2, JoinedAt
  <2> HIDE DEF z, n, k
  <2> QED  BY ONLY <2>1 DEF IsJoin
<1>5. both \in BOOLEAN
  OBVIOUS
<1> HIDE DEF n, k, z, both
<1>6. /\ z[1] = 0 /\ z[2] = 0 /\ z[3] = 1 /\ z[5] = h[5] /\ z[6] = h[6] /\ z[8] = h[8] /\ z[9] = h[9]
      /\ z[10] = h[10] /\ (both => z[15] = h[15])
  <2>1. /\ 1 \in 1..n /\ 2 \in 1..n /\ 3 \in 1..n /\ 5 \in 1..n /\ 6 \in 1..n /\ 8 \in 1..n /\ 9 \in 1..n
        /\ 10 \in 1..n
    BY <1>1
  <2>2. both => 15 \in 1..n
    BY <1>1
  <2>3. h[1] = 0 /\ h[2] = 0 /\ h[3] = 1
    BY <1>1
  <2> QED  BY ONLY <1>4, <2>1, <2>2, <2>3
<1>7. SubSeq(z, 1, 3) = <<0, 0, 1>>
  <2>1. 3 <= Len(z)
    BY <1>1, <1>2, <1>3
  <2> DEFINE y == SubSeq(z, 0 + 1, 3)
             q == <<0, 0, 1>>
  <2>2. /\ y \in Seq(TsByte) /\ (0 <= 3 => Len(y) = 3 - 0)
        /\ \A i \in 1..(3 - 0) : y[i] = z[0 + i]
    <3>1. 0 \in Nat /\ 3 \in Nat
      OBVIOUS
    <3> QED  BY ONLY <1>3, <2>1, <3>1, PartIs
  <2> HIDE DEF y
  <2>3. Len(y) = 3 /\ \A i \in 1..3 : y[i] = z[i]
    BY <2>2
  <2>4. y[1] = 0 /\ y[2] = 0 /\ y[3] = 1
    BY <1>6, <2>3
  <2>5. q \in Seq(TsByte) /\ Len(q) = 3 /\ q[1] = 0 /\ q[2] = 0 /\ q[3] = 1
    BY DEF TsByte
  <2>6. \A i \in 1..3 : i = 1 \/ i = 2 \/ i = 3
    OBVIOUS
  <2> HIDE DEF q
  <2>7. y = q
    <3>1. \A i \in 1..Len(y) : y[i] = q[i]
      BY <2>3, <2>4, <2>5, <2>6
    <3> QED  BY <2>2, <2>3, <2>5, <3>1, SeqEqual
  <2>8. 0 + 1 = 1
    OBVIOUS
  <2> QED  BY <2>7, <2>8 DEF y, q
<1>8. z[5] * 256 + z[6] = IF Len(z) - 6 > 65535 THEN 0 ELSE Len(z) - 6
  <2>1. z[5] * 256 + z[6] = h[5] * 256 + h[6]
    BY <1>6
  <2> DEFINE x == h[5] * 256 + h[6]
             y == z[5] * 256 + z[6]
  <2>2. x = (IF n + k - 6 > 65535 THEN 0 ELSE n + k - 6)
    BY ONLY <1>1
  <2>3. y = x
    BY <2>1
  <2> HIDE DEF x, y
  <2>4. y = IF Len(z) - 6 > 65535 THEN 0 ELSE Len(z) - 6
    <3>1. n \in Nat /\ k \in Nat
      BY <1>1, <1>2
    <3>2. Len(z) - 6 = n + k - 6
      BY ONLY <1>3, <3>1
    <3> DEFINE l == Len(z) - 6
    <3> HIDE DEF l
    <3> QED  BY ONLY <2>2, <2>3, <3>1, <3>2 DEF l
  <2> QED  BY <2>4 DEF y
<1>9. Rest(z, 9 + z[9]) = es
  <2>1. 9 + z[9] = n
    BY <1>1, <1>6
  <2> QED  BY <1>3, <2>1
<1>10. IsNear(z[10][2], pts)
  BY <1>1, <1>6, ClockNear
<1>11. IF z[8] = 192 THEN IsNear(z[15][2], dts) ELSE pts = dts
  <2>1. CASE both
    <3>1. h[8] = 192 /\ h[15][2] = Clock(dts)
      BY ONLY <1>1, <2>1
    <3>3. z[8] = 192 /\ z[15][2] = Clock(dts)
      BY ONLY <1>6, <2>1, <3>1
    <3>2. IsNear(Clock(dts), dts)
      BY ClockNear
    <3> QED  BY <3>2, <3>3
  <2>2. CASE ~both
    <3>1. z[8] # 192
      BY <1>1, <1>6, <2>2
    <3>2. pts = dts
      BY <2>2 DEF both
    <3> QED  BY <3>1, <3>2
  <2> QED  BY <2>1, <2>2
<1>12. Reads(z, es, pts, dts)
  BY ONLY <1>7, <1>8, <1>9, <1>10, <1>11 DEF Reads
<1> QED  BY <1>12 DEF z

\* Packets that Muxed describes reassemble.
LEMMA ReassemblesIs ==
  ASSUME NEW m, NEW es, Muxed(m, es)
  PROVE  Reassembles(MuxOf(m, es).packets, m, es)
<1> DEFINE ps == MuxOf(m, es).packets
           pid == PidOf(m)
           v == IsVideo(m)
           dts == DtsOf(m)
           pts == PtsOf(m)
           h == PesOf(m, es)
<1>1. /\ ps \in Seq(PacketRec(TsByte, pid)) /\ ps # <<>> /\ PacketsOK(ps, CcOf(m)) /\ Carried(ps) = h \o es
      /\ es \in Seq(Nat) /\ dts \in Nat /\ pts \in Nat /\ PesOK(h, v, Len(es), pts, dts)
  BY DEF Muxed, MuxGood
<1>2. PacketsFull(ps)
  <2> SUFFICES ASSUME NEW i \in 1..Len(ps)
               PROVE  /\ Len(ps[i].payload) + ps[i].adaptation = TsDataLen /\ ps[i].start = (i = 1)
                      /\ ps[i].pid = ps[1].pid
    BY DEF PacketsFull
  <2>1. Len(ps[i].payload) + ps[i].adaptation = TsDataLen /\ ps[i].start = (i = 1)
    BY <1>1 DEF PacketsOK
  <2> HIDE DEF ps, pid
  <2>2. 1 \in 1..Len(ps)
    BY <1>1
  <2>3. ps[i] \in PacketRec(TsByte, pid) /\ ps[1] \in PacketRec(TsByte, pid)
    BY <1>1, <2>2
  <2>4. ps[i].pid = pid /\ ps[1].pid = pid
    BY <2>3 DEF PacketRec
  <2> QED  BY <2>1, <2>4
<1>3. v \in BOOLEAN /\ (~v => pts = dts)
  BY DEF IsVideo, PtsOf
<1>4. Reads(Carried(ps), es, pts, dts)
  <2> HIDE DEF ps, v, dts, pts, h
  <2>1. Reads(h \o es, es, pts, dts)
    BY <1>1, <1>3, ReadsIs
  <2> QED  BY <1>1, <2>1
<1>5. /\ dts = m.ts * 90
      /\ pts = (m.ts * 90) + (IF m.type = "video" THEN ParseVideoHeader(m.data).compositionTime * 90 ELSE 0)
  <2>1. dts = m.ts * 90 /\ dts \in Nat
    BY <1>1 DEF DtsOf
  <2>2. CASE m.type = "video"
    BY <2>2 DEF PtsOf, DtsOf, CtOf, IsVideo
  <2>3. CASE m.type # "video"
    <3>1. pts = dts
      BY <2>3 DEF PtsOf, IsVideo
    <3> HIDE DEF dts, pts
    <3> QED  BY <2>1, <2>3, <3>1
  <2> QED  BY <2>1, <2>2, <2>3
<1> HIDE DEF ps, dts, pts
<1>6. Reassembles(ps, m, es)
  BY <1>2, <1>4, <1>5 DEF Reassembles
<1> QED  BY <1>6 DEF ps

\* Every step that writes packets of a message writes ones that reassemble.
LEMMA ReassemblesNext == Inv /\ TsReassembles /\ [Next]_vars => TsReassembles'
<1> SUFFICES ASSUME Inv, TsReassembles, [Next]_vars  PROVE TsReassembles'
  OBVIOUS
<1>1. (out'.packets # <<>> /\ out'.m # None => Reassembles(out'.packets, out'.m, out'.es)) => TsReassembles'
  BY DEF TsReassembles, Reassembles, PacketsFull, Reads, IsNear, Carried
<1>3. CASE SendPacket \/ PeerSends \/ UNCHANGED vars
  <2>1. UNCHANGED out
    BY <1>3 DEF SendPacket, PeerSends, vars
  <2> QED  BY <2>1 DEF TsReassembles
<1>4. CASE Join
  <2>1. out' = [out EXCEPT !.m = None, !.packets = <<>>, !.seen = Counters]
    BY <1>4 DEF Join
  <2>2. out'.packets = <<>> \/ out'.m = None
    BY <2>1
  <2> QED  BY <1>1, <2>2
<1>5. CASE Segment(SOUND_AAC, TRUE)
  <2>1. out' = [out EXCEPT !.m = None, !.seen = Counters,
                           !.packets = <<PAT(seg.patCc), PMT(seg.pmtCc, SOUND_AAC, TRUE)>>]
    BY <1>5 DEF Segment
  <2>2. out'.packets = <<>> \/ out'.m = None
    BY <2>1
  <2> QED  BY <1>1, <2>2
<1>6. CASE Relay
  <2> DEFINE m == Head(wire)
             r == Parse(m)
             ps == MuxOf(m, r.es).packets
  <2>1. Became(m, r) /\ wire # <<>>
    BY <1>6, RelayedIs DEF Relay
  <2>2. Parsed(m, r)
    BY <2>1, ParsedIs
  <2> HIDE DEF m, r, ps
  <2>3. out'.packets = (IF r.ok THEN ps ELSE <<>>) /\ out'.m = m /\ out'.es = r.es
    BY <2>1 DEF Became, ps
  <2>4. CASE ~r.ok
    BY <1>1, <2>3, <2>4
  <2>5. CASE r.ok
    <3>1. Muxed(m, r.es)
      BY <2>2, <2>5 DEF Parsed
    <3>2. Reassembles(ps, m, r.es)
      BY <3>1, ReassemblesIs DEF ps
    <3> QED  BY <1>1, <2>3, <2>5, <3>2
  <2> QED  BY <2>4, <2>5
<1> QED  BY <1>3, <1>4, <1>5, <1>6 DEF Next

\* The TS packets that Mux cuts any elementary stream into are full, and give it back under
\* the lengths and times in the header of pesHeader.packet, whatever its length: data
\* that just fill a packet, leave room for stuffing, or are too long for the PES length.
THEOREM ReassemblesHolds == Spec => []TsReassembles
<1>1. Init => TsReassembles
  BY DEF Init, TsReassembles
<1>2. Inv /\ TsReassembles /\ [Next]_vars => TsReassembles'
  BY ReassemblesNext
<1> QED  BY <1>1, <1>2, Ordered, PTL DEF Spec

\* The rate that an ADTS header names is the publisher's, but for two that AAC does not
\* know or FrequencyIndex does not.
LEMMA RateIs ==
  ASSUME NEW rate \in 0..13, rate \notin {0, 4}
  PROVE  SampleRate(FrequencyIndex(rate)) = Hz[rate + 1]
<1>1. \/ rate = 1 \/ rate = 2 \/ rate = 3 \/ rate = 5 \/ rate = 6 \/ rate = 7 \/ rate = 8 \/ rate = 9
      \/ rate = 10 \/ rate = 11 \/ rate = 12 \/ rate = 13
  OBVIOUS
<1> QED  BY <1>1 DEF SampleRate, FrequencyIndex, aacRates, Hz

\* What AudioRight says of a message that became es, with the publisher's header made of snd.
FrameRight(m, es, snd) ==
  /\ Rest(es, 7) = m.src
  /\ (es[4] % 4) * 2048 + es[5] * 8 + (es[6] \div 32) = Len(es) % 8192
  /\ m.ah = snd /\ snd.rate \notin {0, 4} =>
       /\ SampleRate((es[3] % 64) \div 4) = Hz[snd.rate + 1]
       /\ (es[3] % 2) * 4 + (es[4] \div 64) = snd.type + 1

\* An ADTS frame made with the publisher's configuration is right.
LEMMA SoundsIs ==
  ASSUME NEW m, NEW es, NEW snd \in AH, AdtsOK(es, FrequencyIndex(snd.rate), snd.type + 1, m.src)
  PROVE  FrameRight(m, es, snd)
<1> DEFINE rate == snd.rate
<1>1. rate \in 0..13
  BY DEF AH
<1>2. /\ Rest(es, 7) = m.src
      /\ (es[4] % 4) * 2048 + es[5] * 8 + (es[6] \div 32) = Len(es) % 8192
      /\ (es[3] % 64) \div 4 = FrequencyIndex(rate)
      /\ (es[3] % 2) * 4 + (es[4] \div 64) = snd.type + 1
  <2> DEFINE idx == FrequencyIndex(rate)
             ch == snd.type + 1
             src == m.src
  <2>1. AdtsOK(es, idx, ch, src)
    OBVIOUS
  <2> HIDE DEF idx, ch, src
  <2>2. /\ Rest(es, 7) = src
        /\ (es[4] % 4) * 2048 + es[5] * 8 + (es[6] \div 32) = Len(es) % 8192
        /\ (es[3] % 64) \div 4 = idx
        /\ (es[3] % 2) * 4 + (es[4] \div 64) = ch
    BY ONLY <2>1 DEF AdtsOK
  <2> QED  BY ONLY <2>2 DEF idx, ch, src
<1>3. rate \notin {0, 4} => SampleRate(FrequencyIndex(rate)) = Hz[rate + 1]
  <2> HIDE DEF rate
  <2> QED  BY <1>1, RateIs
<1>4. rate \notin {0, 4} => SampleRate((es[3] % 64) \div 4) = Hz[rate + 1]
  <2> DEFINE x == (es[3] % 64) \div 4
             y == FrequencyIndex(rate)
  <2>1. x = y
    BY ONLY <1>2
  <2> HIDE DEF x, y, rate
  <2>2. rate \notin {0, 4} => SampleRate(x) = Hz[rate + 1]
    BY ONLY <1>3, <2>1 DEF y
  <2> QED  BY <2>2 DEF x
<1> QED  BY ONLY <1>2, <1>4 DEF FrameRight

\* Audio was relayed only of a publisher that has sent its header.
Heard == out.m # None /\ out.m.type = "audio" => ~audioFirst

AudioKept ==
  out.m # None /\ out.m.type = "audio" /\ out.m.src # <<>> =>
    (Wanted(out.m) => out.got = <<out.m.src>>) /\ FrameRight(out.m, out.es, sound)

\* AudioRight is AudioKept.
LEMMA AudioForm == AudioRight <=> AudioKept
  BY ZenonT(40) DEF AudioRight, AudioKept, FrameRight

\* Every relayed AAC frame has become the right ADTS frame, with the configuration sent before it.
LEMMA AudioNext == Inv /\ Heard /\ AudioKept /\ [Next]_vars => Heard' /\ AudioKept'
<1> SUFFICES ASSUME Inv, Heard, AudioKept, [Next]_vars  PROVE Heard' /\ AudioKept'
  OBVIOUS
<1>1. (out'.m # None /\ out'.m.type = "audio" /\ out'.m.src # <<>> =>
         (Wanted(out.m)' => out'.got = <<out'.m.src>>) /\ FrameRight(out'.m, out'.es, sound')) => AudioKept'
  BY DEF AudioKept
<1>2. CASE SendPacket
  <2>1. UNCHANGED <<out, player>>
    BY <1>2 DEF SendPacket
  <2>2. ~audioFirst => ~audioFirst' /\ sound' = sound
    <3>1. CASE \E p \in Pictures : sendVideoPacket(p)
      BY <3>1, SendsVideo DEF Inv
    <3>2. CASE \E p \in Sounds : sendAudioPacket(p)
      BY <3>2, SendsAudio DEF Inv
    <3> QED  BY <1>2, <3>1, <3>2 DEF SendPacket
  <2>3. Heard'
    BY <2>1, <2>2 DEF Heard
  <2>4. CASE out.m # None /\ out.m.type = "audio"
    <3>1. UNCHANGED <<out, player, sound>>
      BY <2>1, <2>2, <2>4 DEF Heard
    <3>2. Wanted(out.m)' <=> Wanted(out.m)
      BY <3>1 DEF Wanted
    <3> QED  BY <2>3, <3>1, <3>2 DEF AudioKept
  <2>5. CASE ~(out.m # None /\ out.m.type = "audio")
    BY <1>1, <2>1, <2>3, <2>5
  <2> QED  BY <2>4, <2>5
<1>3. CASE PeerSends \/ UNCHANGED vars
  <2>1. UNCHANGED <<out, player, sound, audioFirst>>
    BY <1>3 DEF PeerSends, vars
  <2>2. Wanted(out.m)' <=> Wanted(out.m)
    BY <2>1 DEF Wanted
  <2> QED  BY <2>1, <2>2 DEF AudioKept, Heard
<1>4. CASE Join \/ Segment(SOUND_AAC, TRUE)
  <2>1. out'.m = None
    <3>1. CASE Join
      BY <3>1 DEF Join
    <3>2. CASE Segment(SOUND_AAC, TRUE)
      BY <3>2 DEF Segment
    <3> QED  BY <1>4, <3>1, <3>2
  <2> QED  BY <1>1, <2>1 DEF Heard
<1>5. CASE Relay
  <2> DEFINE m == Head(wire)
             r == Parse(m)
  <2>1. Became(m, r) /\ wire # <<>> /\ UNCHANGED <<sound, audioFirst>>
    BY <1>5, RelayedIs DEF Relay
  <2>2. Parsed(m, r) /\ m \in Msg
    BY <2>1, ParsedIs, HeadIs
  <2>3. m.type = "audio" => ~audioFirst /\ sound \in AH
    BY <2>1, HeadIs
  <2>4. ~Wanted(m) => player' = player
    <3> HIDE DEF r
    <3> QED  BY <1>5 DEF Relay, r
  <2> HIDE DEF m, r
  <2>5. out'.m = m /\ out'.es = r.es /\ (Wanted(m) => out'.got = handleVideoAudio(m))
    BY <2>1 DEF Became
  <2>6. Heard'
    BY <2>1, <2>3, <2>5 DEF Heard
  <2>7. ASSUME m.type = "audio", m.src # <<>>
        PROVE  (Wanted(out.m)' => out'.got = <<m.src>>) /\ FrameRight(m, r.es, sound)
    <3>1. m \in AudioMsg
      BY <2>2, <2>7 DEF Msg, VideoMsg
    <3>2. IsFrame(m) /\ AdtsOK(r.es, FrequencyIndex(sound.rate), sound.type + 1, m.src)
      BY <2>2, <2>7, <3>1 DEF Parsed, IsHeader
    <3>3. FrameRight(m, r.es, sound)
      BY <2>3, <2>7, <3>2, SoundsIs
    <3>4. handleVideoAudio(m) = <<m.src>>
      BY <2>7, <3>2 DEF IsFrame, TagOK, handleVideoAudio
    <3>5. Wanted(out.m)' => Wanted(m)
      <4>1. CASE Wanted(m)
        BY <4>1
      <4>2. CASE ~Wanted(m)
        <5>1. player' = player /\ out'.m = m
          BY <2>4, <2>5, <4>2
        <5>2. Wanted(out.m)' <=> Wanted(m)
          BY <5>1 DEF Wanted
        <5> QED  BY <4>2, <5>2
      <4> QED  BY <4>1, <4>2
    <3> QED  BY <2>5, <3>3, <3>4, <3>5
  <2>8. AudioKept'
    BY <1>1, <2>1, <2>5, <2>7
  <2> QED  BY <2>6, <2>8
<1> QED  BY <1>2, <1>3, <1>4, <1>5 DEF Next

\* Whatever sounds are sent, an AAC frame reaches handleVideoAudio's callback as it was, and
\* the ADTS frame of CodecParser.Parse gives its length and, unless the publisher has changed
\* them after the sequence header, its rate and channels.
THEOREM AudioHolds == Spec => []AudioRight
<1>1. Init => Heard /\ AudioKept
  BY DEF Init, AudioKept, Heard
<1>2. Inv /\ Heard /\ AudioKept /\ [Next]_vars => Heard' /\ AudioKept'
  BY AudioNext
<1> QED  BY <1>1, <1>2, AudioForm, Ordered, PTL DEF Spec

-----------------------------------------------------------------------------
(* Splitting *)

\* The bytes of units are those of all but the last one, its start code, and the last one.
LastPart(data, d, u) ==
  /\ d \in Seq(Nat) /\ u \in Seq(Nat) /\ data = d \o u
  /\ Len(d) >= 3 /\ d[Len(d)] = 1

\* The bytes an application hands over end with a start code and the last unit.
LEMMA BytesEnd ==
  ASSUME NEW us \in Seq(Seq(Nat)), us # <<>>, NEW codes \in Seq({3, 4}), Len(codes) = Len(us)
  PROVE  \E d : LastPart(Bytes(us, codes), d, us[Len(us)])
<1> DEFINE N == Len(us)
           x(i) == Code(codes[i]) \o us[i]
           ss == [i \in 1..N |-> x(i)]
           front == [i \in 1..(N - 1) |-> x(i)]
<1>1. N \in Nat /\ N >= 1 /\ N \in 1..N /\ N - 1 \in Nat /\ (N - 1) + 1 = N
  OBVIOUS
<1>2. ASSUME NEW i \in 1..N  PROVE x(i) \in Seq(Nat)
  <2> DEFINE u == us[i]
             c == Code(codes[i])
  <2>1. u \in Seq(Nat) /\ c \in Seq(Nat)
    BY CodesAre DEF Code
  <2> HIDE DEF u, c
  <2>2. c \o u \in Seq(Nat)
    BY <2>1
  <2> QED  BY <2>2 DEF u, c
<1> DEFINE y == x(N)
<1>3. y \in Seq(Nat)
  BY <1>1, <1>2
<1> HIDE DEF x
<1>4. front \in Seq(Seq(Nat)) /\ Len(front) = N - 1
  <2> DEFINE M == N - 1
  <2>1. M \in Nat /\ front \in [1..M -> Seq(Nat)]
    <3>1. \A i \in 1..M : i \in 1..N
      BY <1>1
    <3> QED  BY <1>1, <1>2, <3>1
  <2>2. front \in Seq(Seq(Nat)) /\ Len(front) = M
    <3> HIDE DEF M, front
    <3> QED  BY <2>1, MadeSeq
  <2> QED  BY <2>2
<1>5. ss = Append(front, y)
  <2> DEFINE t == Append(front, y)
  <2> HIDE DEF N, y
  <2>1. front \in Seq(Seq(Nat)) /\ \A i \in 1..(N - 1) : front[i] = x(i)
    BY <1>4
  <2> HIDE DEF front
  <2>2. t \in Seq(Seq(Nat)) /\ Len(t) = Len(front) + 1 /\ t[Len(front) + 1] = y /\ \A i \in 1..Len(front) : t[i] = front[i]
    BY <1>3, <2>1, Grown
  <2>3. Len(t) = N /\ t[N] = y /\ \A i \in 1..(N - 1) : t[i] = x(i)
    BY <1>1, <1>4, <2>1, <2>2
  <2>4. ss \in [1..N -> Seq(Nat)] /\ \A i \in 1..N : ss[i] = x(i)
    BY <1>2
  <2>5. \A i \in 1..N : t[i] = ss[i]
    <3> TAKE i \in 1..N
    <3>1. CASE i = N
      BY <2>3, <2>4, <3>1 DEF y
    <3>2. CASE i # N
      <4>1. i \in 1..(N - 1)
        BY <1>1, <3>2
      <4> QED  BY <2>3, <2>4, <4>1
    <3> QED  BY <3>1, <3>2
  <2> HIDE DEF ss, t
  <2>6. t = ss
    BY <1>1, <2>2, <2>3, <2>4, <2>5, SameElements
  <2> QED  BY <2>6 DEF t
<1> DEFINE f == FlattenSeq(front)
           c == Code(codes[N])
           u == us[N]
<1>6. f \in Seq(Nat) /\ FlattenSeq(ss) = f \o y
  <2> HIDE DEF front, y, ss
  <2> QED  BY <1>3, <1>4, <1>5, FlattenIs
<1>7. /\ c \in Seq(Nat) /\ Len(c) \in Nat /\ Len(c) >= 3 /\ c[Len(c)] = 1 /\ u \in Seq(Nat) /\ y = c \o u
  <2>1. u \in Seq(Nat) /\ y = c \o u
    BY <1>1 DEF x
  <2>2. c = StartCode3 \/ c = StartCode4
    BY DEF Code
  <2>3. CASE c = StartCode3
    BY <2>1, <2>3, CodesAre
  <2>4. CASE c = StartCode4
    BY <2>1, <2>4, CodesAre
  <2> QED  BY <2>2, <2>3, <2>4
<1>8. Bytes(us, codes) = FlattenSeq(ss)
  BY DEF Bytes, x
<1> HIDE DEF f, c, u, y, ss, N
<1>9. FlattenSeq(ss) = (f \o c) \o u
  <2>1. f \in Seq(Nat) /\ c \in Seq(Nat) /\ u \in Seq(Nat)
    BY <1>6, <1>7
  <2>2. (f \o c) \o u = f \o (c \o u)
    <3>1. ASSUME NEW x1 \in Seq(Nat), NEW x2 \in Seq(Nat), NEW x3 \in Seq(Nat)
          PROVE  (x1 \o x2) \o x3 = x1 \o (x2 \o x3)
      OBVIOUS
    <3> QED  BY ONLY <2>1, <3>1
  <2>3. FlattenSeq(ss) = f \o (c \o u)
    BY ONLY <1>6, <1>7
  <2> QED  BY ONLY <2>2, <2>3
<1> DEFINE d == f \o c
<1>10. d \in Seq(Nat) /\ Len(d) >= 3 /\ d[Len(d)] = 1
  <2> DEFINE a == Len(f)
             b == Len(c)
  <2>1. IsJoin(d, Nat, f, a, c, b) /\ a \in Nat
    BY <1>6, <1>7, JoinedAt
  <2> HIDE DEF d, a
  <2>2. d \in Seq(Nat) /\ Len(d) = a + b /\ d[a + b] = c[b]
    <3>1. b \in 1..b
      BY <1>7
    <3> QED  BY <2>1, <3>1 DEF IsJoin
  <2>3. b \in Nat /\ b >= 3 /\ c[b] = 1
    BY <1>7
  <2> HIDE DEF b
  <2> QED  BY <2>1, <2>2, <2>3
<1> HIDE DEF d
<1>11. LastPart(Bytes(us, codes), d, u)
  BY <1>7, <1>8, <1>9, <1>10 DEF LastPart, d
<1> QED  BY <1>11 DEF u, N

\* A unit without a start code in it, byte by byte.
LEMMA NoCodeIn ==
  ASSUME NEW u \in Seq(Nat), NEW i \in 1..(Len(u) - 2), SubSeq(u, i, i + 2) # StartCode3
  PROVE  ~(u[i] = 0 /\ u[i + 1] = 0 /\ u[i + 2] = 1)
<1> SUFFICES ASSUME u[i] = 0, u[i + 1] = 0, u[i + 2] = 1  PROVE FALSE
  OBVIOUS
<1>0. u[i] = 0 /\ u[i + 1] = 0 /\ u[i + 2] = 1
  OBVIOUS
<1> DEFINE a == i - 1
           y == SubSeq(u, a + 1, i + 2)
<1>1. a \in Nat /\ i + 2 \in Nat /\ i + 2 <= Len(u) /\ a <= i + 2
  OBVIOUS
<1>2. y \in Seq(Nat) /\ Len(y) = (i + 2) - a /\ \A j \in 1..((i + 2) - a) : y[j] = u[a + j]
  <2> DEFINE b == i + 2
  <2>0. a \in Nat /\ b \in Nat /\ b <= Len(u) /\ u \in Seq(Nat)
    BY <1>1
  <2> HIDE DEF a, b
  <2>1. SubSeq(u, a + 1, b) \in Seq(Nat) /\ (a <= b => Len(SubSeq(u, a + 1, b)) = b - a)
        /\ \A j \in 1..(b - a) : SubSeq(u, a + 1, b)[j] = u[a + j]
    BY ONLY <2>0, PartIs
  <2> QED  BY <1>1, <2>1 DEF b
<1>3. y = SubSeq(u, i, i + 2)
  <2>1. a + 1 = i
    OBVIOUS
  <2> QED  BY <2>1
<1>4. (i + 2) - a = 3 /\ a + 1 = i /\ a + 2 = i + 1 /\ a + 3 = i + 2
  OBVIOUS
<1> HIDE DEF y, a
<1>5. Len(y) = 3 /\ y[1] = 0 /\ y[2] = 0 /\ y[3] = 1
  <2>1. 1 \in 1..3 /\ 2 \in 1..3 /\ 3 \in 1..3
    OBVIOUS
  <2>2. y[1] = u[a + 1] /\ y[2] = u[a + 2] /\ y[3] = u[a + 3] /\ Len(y) = 3
    BY <1>2, <1>4, <2>1
  <2> QED  BY <1>0, <1>4, <2>2
<1>6. \A j \in 1..3 : y[j] = StartCode3[j]
  <2>1. \A j \in 1..3 : j = 1 \/ j = 2 \/ j = 3
    OBVIOUS
  <2> QED  BY <1>5, <2>1, CodesAre
<1>7. y = StartCode3
  <2> DEFINE z == StartCode3
  <2>1. y \in Seq(Nat) /\ z \in Seq(Nat) /\ Len(y) = Len(z) /\ \A j \in 1..Len(y) : y[j] = z[j]
    BY <1>2, <1>5, <1>6, CodesAre
  <2> HIDE DEF z
  <2>2. y = z
    BY ONLY <2>1, SeqEqual
  <2> QED  BY <2>2 DEF z
<1> QED  BY <1>3, <1>7

\* Every start code is followed by four bytes, if the last unit has four and no start code in it.
LEMMA FollowedBytes ==
  ASSUME NEW data, NEW d, NEW u, LastPart(data, d, u), Len(u) >= 4,
         \A i \in 1..(Len(u) - 2) : SubSeq(u, i, i + 2) # StartCode3
  PROVE  data \in Seq(Nat) /\ Followed(data)
<1> DEFINE L == Len(d)
           n == Len(u)
           T == Len(data)
<1>1. d \in Seq(Nat) /\ u \in Seq(Nat) /\ data = d \o u /\ L >= 3 /\ d[L] = 1 /\ L \in Nat /\ n \in Nat /\ n >= 4
  BY DEF LastPart
<1>2. IsJoin(data, Nat, d, L, u, n)
  BY <1>1, JoinedAt
<1>3. ASSUME NEW i \in 1..(n - 2), u[i] = 0, u[i + 1] = 0, u[i + 2] = 1  PROVE FALSE
  <2>1. ~(u[i] = 0 /\ u[i + 1] = 0 /\ u[i + 2] = 1)
    BY <1>1, NoCodeIn
  <2> QED  BY <1>3, <2>1
<1> HIDE DEF L, n, T
<1>4. /\ data \in Seq(Nat) /\ T = L + n /\ (\A i \in 1..L : data[i] = d[i]) /\ \A i \in 1..n : data[L + i] = u[i]
  BY ONLY <1>2 DEF IsJoin, T
<1>5. ASSUME NEW p \in 0..(T - 3), data[p + 1] = 0, data[p + 2] = 0, data[p + 3] = 1
      PROVE  p + 7 <= T
  <2>1. data[L] = 1
    <3>1. L \in 1..L
      BY <1>1
    <3> QED  BY <1>1, <1>4, <3>1
  <2>2. CASE p + 3 <= L
    BY <1>1, <1>4, <2>2
  <2>3. CASE p + 3 > L /\ p < L
    <3>1. L = p + 1 \/ L = p + 2
      BY <1>1, <2>3
    <3> QED  BY <1>5, <2>1, <3>1
  <2>4. CASE p >= L
    <3> DEFINE i == p - L + 1
    <3>1. i \in 1..(n - 2) /\ i + 1 \in 1..n /\ i + 2 \in 1..n /\ i \in 1..n
      BY <1>1, <1>4, <2>4
    <3>2. L + i = p + 1 /\ L + (i + 1) = p + 2 /\ L + (i + 2) = p + 3
      BY <1>1
    <3> HIDE DEF i
    <3>3. u[i] = data[L + i] /\ u[i + 1] = data[L + (i + 1)] /\ u[i + 2] = data[L + (i + 2)]
      BY <1>4, <3>1
    <3>4. u[i] = 0 /\ u[i + 1] = 0 /\ u[i + 2] = 1
      BY <1>5, <3>2, <3>3
    <3> QED  BY <1>3, <3>1, <3>4
  <2> QED  BY <1>1, <2>2, <2>3, <2>4
<1>6. Followed(data)
  BY <1>5 DEF Followed, T
<1> QED  BY <1>4, <1>6

\* Nor does it panic without the first start code.
LEMMA NoPanicAfter ==
  ASSUME NEW data \in Seq(Nat), NEW n \in Int, Followed(data)
  PROVE  ~ParseNalusN(data, n).panic /\ (Len(data) >= 4 => ~ParseNalusN(Rest(data, 4), n).panic)
<1>1. ASSUME NEW b \in Seq(Nat), Followed(b)  PROVE ~ParseNalusN(b, n).panic
  <2>1. CASE Len(b) < 4
    BY <2>1 DEF ParseNalusN
  <2>2. CASE Len(b) >= 4
    BY <1>1, <2>2, NoPanic
  <2> QED  BY <2>1, <2>2
<1>2. CASE Len(data) >= 4
  <2> DEFINE b == Rest(data, 4)
             T == Len(data)
  <2>1. 4 \in Nat /\ T \in Nat
    OBVIOUS
  <2>2. b \in Seq(Nat) /\ Len(b) = T - 4 /\ \A i \in 1..(T - 4) : b[i] = data[4 + i]
    BY <1>2, <2>1, RestIs
  <2> HIDE DEF b, T
  <2>3. ASSUME NEW p \in 0..(Len(b) - 3), b[p + 1] = 0, b[p + 2] = 0, b[p + 3] = 1
        PROVE  p + 7 <= Len(b)
    <3> DEFINE q == p + 4
    <3>1. p \in Nat /\ q \in 0..(T - 3) /\ p + 1 \in 1..(T - 4) /\ p + 2 \in 1..(T - 4) /\ p + 3 \in 1..(T - 4)
      BY <2>1, <2>2
    <3>2. b[p + 1] = data[4 + (p + 1)] /\ b[p + 2] = data[4 + (p + 2)] /\ b[p + 3] = data[4 + (p + 3)]
      BY <2>2, <3>1
    <3>3. 4 + (p + 1) = q + 1 /\ 4 + (p + 2) = q + 2 /\ 4 + (p + 3) = q + 3
      BY <3>1
    <3>4. data[q + 1] = 0 /\ data[q + 2] = 0 /\ data[q + 3] = 1
      BY <2>3, <3>2, <3>3
    <3>5. q + 7 <= T
      <4> HIDE DEF q
      <4> QED  BY <3>1, <3>4 DEF Followed, T
    <3> QED  BY <2>1, <2>2, <3>1, <3>5
  <2>4. Followed(b)
    BY <2>3 DEF Followed
  <2> QED  BY <1>1, <2>2, <2>4 DEF b
<1> QED  BY <1>1, <1>2

\* SendPacket does not panic over a picture whose last unit has four bytes.
LEMMA SplitPicture ==
  ASSUME NEW p \in Pictures, p.codec = VIDEO_H264, ~(Len(Last(p.units)) < 4)
  PROVE  LET data == Bytes(p.units, p.codes)
         IN  ~ParseNalus(data).panic /\ ~PackVideoData(p.codec, 1, data).panic
<1> DEFINE us == p.units
           u == us[Len(us)]
           data == Bytes(us, p.codes)
<1>1. us \in Seq(Seq(Nat)) /\ us # <<>> /\ p.codes \in Seq({3, 4}) /\ Len(p.codes) = Len(us)
  BY MediaAssumption
<1>2. u \in Range(us) /\ u \in Seq(Nat)
  <2>1. Len(us) \in DOMAIN us /\ Len(us) \in 1..Len(us)
    BY <1>1
  <2> QED  BY <1>1, <2>1 DEF Range
<1>3. \A i \in 1..(Len(u) - 2) : SubSeq(u, i, i + 2) # StartCode3
  BY <1>2, MediaAssumption
<1>4. Len(u) >= 4
  <2>1. Len(u) \in Nat
    BY <1>2
  <2>2. ~(Len(u) < 4)
    BY DEF Last
  <2> QED  BY <2>1, <2>2
<1>5. data \in Seq(Nat) /\ Followed(data)
  <2>1. PICK d : LastPart(data, d, u)
    BY <1>1, BytesEnd
  <2> HIDE DEF data, u
  <2> QED  BY <1>3, <1>4, <2>1, FollowedBytes
<1> HIDE DEF data
<1>6. \A n \in Int : ~ParseNalusN(data, n).panic /\ (Len(data) >= 4 => ~ParseNalusN(Rest(data, 4), n).panic)
  BY <1>5, NoPanicAfter
<1>7. ~ParseNalus(data).panic
  <2>1. -1 \in Int
    OBVIOUS
  <2> QED  BY <1>6, <2>1 DEF ParseNalus
<1>8. ~PackVideoData(p.codec, 1, data).panic
  <2> DEFINE src == IF p.codec = VIDEO_H264 /\ isNaluHeader(data) THEN Rest(data, 4) ELSE data
             cut == ParseNalusN(src, 3)
  <2>1. ~cut.panic
    <3>1. 3 \in Int
      OBVIOUS
    <3>2. isNaluHeader(data) => Len(data) >= 4
      BY <1>5, Begins4 DEF isNaluHeader
    <3> QED  BY <1>6, <3>1, <3>2
  <2> HIDE DEF src, cut
  <2>2. PackVideoData(p.codec, 1, data).panic = FALSE
    BY <2>1 DEF PackVideoData, src, cut
  <2> QED  BY <2>2
<1> QED  BY <1>7, <1>8 DEF data

\* No step of the client panics over a picture whose last unit has four bytes.
LEMMA SplitNext == SplitSafe /\ [Next]_vars => SplitSafe'
<1> SUFFICES ASSUME SplitSafe, [Next]_vars  PROVE SplitSafe'
  OBVIOUS
<1>1. CASE UNCHANGED panicked
  BY <1>1 DEF SplitSafe
<1>2. CASE \E p \in Pictures : sendVideoPacket(p)
  <2>1. PICK p \in Pictures : sendVideoPacket(p)
    BY <1>2
  <2> DEFINE avc == p.codec = VIDEO_H264
             data == IF avc THEN Bytes(p.units, p.codes) ELSE p.units[1]
             first == videoFirst /\ avc
             nalus == ParseNalus(data)
             found == UpdateSets(NoSets, nalus.nalus)
             dropped == first /\ <<>> \in {found[1], found[2]}
             pack == PackVideoData(p.codec, 1, data)
  <2>2. panicked' = IF (first /\ nalus.panic) \/ (~dropped /\ pack.panic) THEN p.units ELSE <<>>
    <3> HIDE DEF avc, data, first, nalus, found, dropped, pack
    <3> QED  BY <2>1 DEF sendVideoPacket, avc, data, first, nalus, found, dropped, pack
  <2> HIDE DEF found, dropped
  <2>3. CASE avc
    <3>1. CASE Len(Last(p.units)) < 4
      BY <2>2, <3>1 DEF SplitSafe
    <3>2. CASE ~(Len(Last(p.units)) < 4)
      <4>1. ~nalus.panic /\ ~pack.panic
        BY <2>3, <3>2, SplitPicture
      <4> HIDE DEF nalus, pack
      <4> QED  BY <2>2, <4>1 DEF SplitSafe
    <3> QED  BY <3>1, <3>2
  <2>4. CASE ~avc
    <3>1. ~first /\ pack.panic = FALSE
      BY <2>4 DEF PackVideoData
    <3> HIDE DEF first, nalus, pack
    <3> QED  BY <2>2, <3>1 DEF SplitSafe
  <2> QED  BY <2>3, <2>4
<1>3. CASE \E p \in Sounds : sendAudioPacket(p)
  <2>1. UNCHANGED panicked
    BY <1>3 DEF sendAudioPacket
  <2> QED  BY <1>1, <2>1
<1>4. UNCHANGED panicked \/ (\E p \in Pictures : sendVideoPacket(p)) \/ (\E p \in Sounds : sendAudioPacket(p))
  BY DEF Next, SendPacket, PeerSends, Join, Relay, Segment, vars
<1> QED  BY <1>1, <1>2, <1>3, <1>4

\* ParseNalusN reads past its data, and SendPacket panics, only if the last NAL unit of the
\* picture has fewer than four bytes, for pictures of any number and length of units.
THEOREM SplitHolds == Spec => []SplitSafe
<1>1. Init => SplitSafe
  BY DEF Init, SplitSafe
<1>2. SplitSafe /\ [Next]_vars => SplitSafe'
  BY SplitNext
<1> QED  BY <1>1, <1>2, PTL DEF Spec
=============================================================================
