------------------------------- MODULE Media -------------------------------
(***************************************************************************)
(* Pictures and sound from a publisher to those who show them.  The        *)
(* publisher is this program's RtmpClient (SendPacket) or another program. *)
(* The server caches sequence headers and passes messages on (Cache and    *)
(* StreamWriter, whose queues are in StreamRelay and hold nothing back     *)
(* here).  A player is an RtmpClient (handleVideoAudio), which may join at *)
(* any time; a segmenter is given everything and turns it into MPEG-TS by  *)
(* Demux, CodecParser.Parse and Mux, as src/hls did before it was          *)
(* commented out.                                                          *)
(***************************************************************************)
EXTENDS Codec

CONSTANTS
  Pictures,    \* what an application hands to SendPacket: [codec, units, codes]
  Sounds,      \* [ah, src]
  Foreign,     \* video messages of another publisher: [data, units, sets]
  MaxPackets,  \* packets a publisher sends
  MaxWire      \* messages it may be ahead of the server

\* The bytes of units, each after a start code of the given length.
Code(n) == IF n = 3 THEN StartCode3 ELSE StartCode4
Bytes(units, codes) == FlattenSeq([i \in 1 .. Len(units) |-> Code(codes[i]) \o units[i]])

\* The length of an RTMP message has 24 bits.
MessageMax == 16777215

\* A NAL unit has no start code in it and does not end with a zero byte, as the encoder
\* has to see to.  A sound has one of the rates, sizes and types that av has constants
\* for.  What another publisher sends is H.264 in the format of FLV.
ASSUME MediaAssumption ==
  /\ \A p \in Pictures :
       /\ p.codec \in 0 .. 15 /\ p.units \in Seq(Seq(Nat)) /\ p.units # <<>>
       /\ p.codes \in Seq({3, 4}) /\ Len(p.codes) = Len(p.units)
       /\ Len(Bytes(p.units, p.codes)) <= MessageMax
       /\ IF p.codec = VIDEO_H264
          THEN \A u \in Range(p.units) :
                 /\ u # <<>> /\ u[Len(u)] # 0
                 /\ \A i \in 1 .. Len(u) - 2 : SubSeq(u, i, i + 2) # StartCode3
          ELSE Len(p.units) = 1
  /\ \A p \in Sounds :
       p \in [ah : [format : 0 .. 15, rate : 0 .. 13, size : 0 .. 1, type : 0 .. 1], src : Seq(Nat)]
  /\ \A f \in Foreign :
       /\ f.data \in Seq(Nat) /\ f.units \in Seq(Seq(Nat)) /\ f.sets \in Seq(Nat) \X Seq(Nat)
       /\ f.units # <<>> => /\ Len(f.data) \in 5 .. MessageMax /\ <<>> \notin Range(f.units)
                            /\ f.data[1] % 16 = VIDEO_H264 /\ f.data[2] = 1
                            /\ Rest(f.data, 5) = Prefixed(f.units)

VARIABLES
  pub,         \* "client" or "peer"
  videoFirst,  \* RtmpClient.videoFirst
  audioFirst,  \* RtmpClient.audioFirst
  panicked,    \* the NAL units over which SendPacket panicked
  sets,        \* history: the parameter sets the publisher gave last, and in its header
  sound,       \* history: the audio header that the AAC header was made of
  wire,        \* messages on their way to the server
  cache,       \* Cache: the last sequence headers, in the buffers of the chunk streams
  read,        \* history: the lengths of the video messages read, the last header and its place
  player,      \* joined or not, keyframeNeed, what it was given
  seg,         \* the parsers, the muxer's counters, the parameter sets in its output
  out,         \* what the last message became
  count        \* packets sent, messages relayed

vars == <<pub, videoFirst, audioFirst, panicked, sets, sound, wire, cache, read, player, seg, out,
          count>>

None == [type |-> "none"]
NoSets == <<<<>>, <<>>>>
NoAac == [objectType |-> 0, sampleRate |-> 0, channel |-> 0]
NoSeq == [data |-> <<>>, shared |-> FALSE, room |-> 0]
Pids == {0, 256, 257, 4097}

\* The last unit of a type, or what there was before.
LastOf(units, type, old) ==
  LET is == {i \in 1 .. Len(units) : NaluType(units[i]) = type}
  IN  IF is = {} THEN old ELSE units[Max(is)]
UpdateSets(old, units) == <<LastOf(units, 7, old[1]), LastOf(units, 8, old[2])>>
Own(units) == <<>> \notin {UpdateSets(NoSets, units)[i] : i \in 1 .. 2}
HasIdr(units) == \E i \in 1 .. Len(units) : NaluType(units[i]) = 5

Init ==
  /\ pub \in {"client", "peer"}
  /\ videoFirst = TRUE /\ audioFirst = TRUE /\ panicked = <<>>
  /\ sets = [last |-> NoSets, header |-> NoSets]
  /\ sound = None
  /\ wire = <<>>
  /\ cache = [video |-> NoSeq, audio |-> NoSeq]
  /\ read = [lens |-> <<>>, header |-> <<>>, at |-> 0]
  /\ player = [on |-> "no", keyframeNeed |-> TRUE, sets |-> NoSets, intact |-> TRUE, outgrown |-> TRUE]
  /\ seg = [info |-> <<>>, aac |-> NoAac, gotten |-> FALSE, videoCc |-> 0, audioCc |-> 0,
            patCc |-> 0, pmtCc |-> 0, sets |-> NoSets]
  /\ out = [m |-> None, got |-> <<>>, es |-> <<>>, packets |-> <<>>, seen |-> [pid \in Pids |-> -1]]
  /\ count = [sent |-> 0, relayed |-> 0]

-----------------------------------------------------------------------------
(* Publisher *)

Video(data, units, codes, last, own, header) ==
  [type |-> "video", data |-> data, ts |-> count.sent, units |-> units, codes |-> codes,
   sets |-> last, current |-> own \/ header = last]
Audio(data, ah, src) ==
  [type |-> "audio", data |-> data, ts |-> count.sent, ah |-> ah, src |-> src]

\* sendVideoPacket.  The first packet must bring both parameter sets, or it is dropped
\* without an error; PackVideoData may fail after the header was sent.  A panic ends
\* the application.
sendVideoPacket(p) ==
  LET avc == p.codec = VIDEO_H264
      data == IF avc THEN Bytes(p.units, p.codes) ELSE p.units[1]
      first == videoFirst /\ avc
      nalus == ParseNalus(data)
      found == UpdateSets(NoSets, nalus.nalus)
      dropped == first /\ <<>> \in {found[1], found[2]}
      pack == PackVideoData(p.codec, 1, data)
      last == IF avc THEN UpdateSets(sets.last, p.units) ELSE sets.last
      header == IF first THEN found ELSE sets.header
  IN  /\ panicked' = IF (first /\ nalus.panic) \/ (~dropped /\ pack.panic) THEN p.units ELSE <<>>
      /\ IF dropped \/ panicked' # <<>> THEN UNCHANGED <<videoFirst, sets, wire>>
         ELSE /\ videoFirst' = (videoFirst /\ ~first)
              /\ sets' = [last |-> last, header |-> header]
              /\ wire' = wire
                   \o (IF first THEN <<Video(NewAVCSequenceHeader(found[1], found[2]), <<>>, <<>>, last, FALSE, header)>>
                       ELSE <<>>)
                   \o (IF pack.ok THEN <<Video(pack.data, p.units, p.codes, last, avc /\ Own(p.units), header)>>
                       ELSE <<>>)
      /\ UNCHANGED <<audioFirst, sound>>

\* sendAudioPacket: the AAC header comes with the first packet only.
sendAudioPacket(p) ==
  LET first == audioFirst /\ p.ah.format = SOUND_AAC
      pack == PackAudioData(p.ah, p.src)
  IN  /\ pack.ok
      /\ audioFirst' = (audioFirst /\ ~first)
      /\ sound' = IF first THEN p.ah ELSE sound
      /\ wire' = wire \o (IF first THEN <<Audio(NewAACSequenceHeader(p.ah), p.ah, <<>>)>> ELSE <<>>)
                   \o <<Audio(pack.data, p.ah, p.src)>>
      /\ UNCHANGED <<videoFirst, panicked, sets>>

SendPacket ==
  /\ pub = "client" /\ panicked = <<>> /\ count.sent < MaxPackets /\ Len(wire) < MaxWire
  /\ (\E p \in Pictures : sendVideoPacket(p)) \/ (\E p \in Sounds : sendAudioPacket(p))
  /\ count' = [count EXCEPT !.sent = @ + 1]
  /\ UNCHANGED <<pub, cache, read, player, seg, out>>

\* Another publisher sends what it likes, a sequence header first.
PeerSends ==
  /\ pub = "peer" /\ count.sent < MaxPackets /\ Len(wire) < MaxWire
  /\ \E f \in Foreign :
       LET last == IF f.sets = NoSets THEN sets.last ELSE f.sets
       IN  /\ count.sent = 0 => f.sets # NoSets
           /\ sets' = [last |-> last, header |-> last]
           /\ wire' = Append(wire, Video(f.data, f.units, [i \in 1 .. Len(f.units) |-> 4], last, FALSE, last))
  /\ count' = [count EXCEPT !.sent = @ + 1]
  /\ UNCHANGED <<pub, videoFirst, audioFirst, panicked, sound, cache, read, player, seg, out>>

-----------------------------------------------------------------------------
(* Player *)

\* A turn of the loop over 4-byte lengths, until the end or an error.
LengthsTurn(b, s) ==
  LET rest == Rest(b, s.index)
  IN  IF Len(rest) < 4 \/ naluSize(rest) > Len(rest) - 4 THEN s
      ELSE [index |-> s.index + 4 + naluSize(rest), got |-> Append(s.got, SubSeq(rest, 5, 4 + naluSize(rest)))]

\* What the callback got, after k turns and at the end.
LengthsLoop(b) ==
  LET loop[k \in 0 .. Len(b)] == IF k = 0 THEN [index |-> 0, got |-> <<>>] ELSE LengthsTurn(b, loop[k - 1])
  IN  loop
Lengths(b) == LengthsLoop(b)[Len(b)].got

\* Mutant: the parameter sets of a sequence header are kept back.
handleVideoAudioDeaf(m) ==
  LET h == ParseVideoHeader(m.data)
  IN  IF m.type = "audio" THEN <<ParseAudioHeader(m.data).body>>
      ELSE IF ~h.ok \/ IsSeqHeader(h) THEN <<>> ELSE Lengths(h.body)

\* handleVideoAudio: the data of the callbacks; of a sequence header, the first
\* parameter set of each kind.
handleVideoAudio(m) ==
  LET h == ParseVideoHeader(m.data)
      record == ParseAVCSequenceHeader(h.body)
  IN  IF m.type = "audio" THEN <<ParseAudioHeader(m.data).body>>
      ELSE IF ~h.ok THEN <<>>
      ELSE IF ~IsSeqHeader(h) THEN Lengths(h.body)
      ELSE IF ~record.ok THEN <<>>
      ELSE SubSeq(record.spss, 1, 1) \o SubSeq(record.ppss, 1, 1)

\* The units in what the player or the segmenter was given, start codes split.
UnitsOf(got) ==
  FlattenSeq([i \in 1 .. Len(got) |-> IF Len(got[i]) < 4 THEN <<got[i]>> ELSE ParseNalus(got[i]).nalus])

Take(pl, m) ==
  IF m.type # "video" THEN pl ELSE [pl EXCEPT !.sets = UpdateSets(@, UnitsOf(handleVideoAudio(m)))]

\* History: the last continuity counter on each PID, of the packets put out so far.
Counters ==
  LET of(pid) == {i \in 1 .. Len(out.packets) : out.packets[i].pid = pid}
  IN  [pid \in Pids |-> IF of(pid) = {} THEN out.seen[pid] ELSE out.packets[Max(of(pid))].cc]

\* History: the message after the last sequence header, if any, is longer than those up to it.
Outgrown == read.at = Len(read.lens) \/ \A i \in 1 .. read.at : read.lens[read.at + 1] > read.lens[i]

\* AddWriter, Cache.Send: a player gets the headers, as they are now; the GOP cache is
\* always empty.
Join ==
  /\ player.on = "no"
  /\ player' = [Take(player, [type |-> "video", data |-> cache.video.data]) EXCEPT
                  !.on = IF count.relayed = 0 THEN "first" ELSE "late",
                  !.intact = cache.video.data = read.header, !.outgrown = Outgrown]
  /\ out' = [out EXCEPT !.m = None, !.packets = <<>>, !.seen = Counters]
  /\ UNCHANGED <<pub, videoFirst, audioFirst, panicked, sets, sound, wire, cache, read, seg, count>>

\* RtmpConn.Read, alloc: data are read into the buffer of their chunk stream, which is
\* made anew only when it is too short.  A cached header is a slice of the buffer it was
\* read into, and is overwritten while the chunk stream still has that buffer.
Reuse(seq, data) ==
  IF Len(data) > seq.room THEN [seq EXCEPT !.shared = FALSE, !.room = Len(data)]
  ELSE IF ~seq.shared THEN seq
  ELSE [seq EXCEPT !.data = [i \in 1 .. Len(seq.data) |-> IF i <= Len(data) THEN data[i] ELSE seq.data[i]]]

\* The fields DemuxH found say that m is a sequence header.
IsSeq(m) ==
  IF m.type = "video" THEN IsSeqHeader(ParseVideoHeader(m.data))
  ELSE ParseAudioHeader(m.data).aacPacketType = 0 /\ ParseAudioHeader(m.data).format = SOUND_AAC

\* Mutant: the first sequence header is kept for ever.
CacheWriteOnce(m) ==
  LET seq == Reuse(cache[m.type], m.data)
  IN  [cache EXCEPT ![m.type] = IF IsSeq(m) /\ seq.data = <<>> THEN [seq EXCEPT !.data = m.data, !.shared = TRUE] ELSE seq]

\* Read, and then Cache.Write, which keeps the packet of a sequence header and does not
\* copy its Data.
CacheWrite(m) ==
  LET seq == Reuse(cache[m.type], m.data)
  IN  [cache EXCEPT ![m.type] = IF IsSeq(m) THEN [seq EXCEPT !.data = m.data, !.shared = TRUE] ELSE seq]

\* StreamWriter.Write holds video back until a key frame.
Wanted(m) ==
  /\ player.on # "no"
  /\ m.type = "video" /\ player.keyframeNeed => ParseVideoHeader(m.data).frameType = 1

-----------------------------------------------------------------------------
(* Segmenter *)

\* CodecParser.Parse: the parsers' state and the elementary stream.
Parse(m) ==
  LET h == ParseVideoHeader(m.data)
      a == ParseAudioHeader(m.data)
      info == parseSpecificInfo(h.body)
      annexb == IF isNaluHeader(h.body) THEN [ok |-> TRUE, out |-> h.body]
                ELSE getAnnexbH264(h.body, seg.info)
      nothing == [ok |-> FALSE, seg |-> seg, es |-> <<>>]
  IN  IF m.type = "video"
      THEN CASE ~h.ok \/ h.codecID # VIDEO_H264 -> nothing
             [] h.ok /\ IsSeqHeader(h) -> [nothing EXCEPT !.seg.info = @ \o info.info]
             [] OTHER -> [nothing EXCEPT !.ok = annexb.ok, !.es = annexb.out]
      ELSE CASE ~a.ok -> nothing
             [] a.ok /\ a.format = SOUND_AAC /\ a.aacPacketType = 0 /\ Len(a.body) >= 2 ->
                  [nothing EXCEPT !.seg.aac = specificInfo(a.body), !.seg.gotten = TRUE]
             [] a.ok /\ a.format = SOUND_AAC /\ a.aacPacketType = 1 /\ seg.gotten /\ a.body # <<>> ->
                  [nothing EXCEPT !.ok = TRUE, !.es = adtsHeader(seg.aac, Len(a.body)) \o a.body]
             [] OTHER -> nothing

\* The server reads a message, and passes it to the player and the segmenter.
Relay ==
  /\ wire # <<>>
  /\ \E m \in {Head(wire)} : \E r \in {Parse(m)} :
       LET video == m.type = "video"
           mux == Mux(video, r.es, m.ts, IF video THEN ParseVideoHeader(m.data).compositionTime ELSE 0,
                      IF video THEN seg.videoCc ELSE seg.audioCc)
       IN  /\ cache' = CacheWrite(m)
           /\ read' = IF ~video THEN read
                      ELSE [lens |-> Append(read.lens, Len(m.data)),
                            header |-> IF IsSeq(m) THEN m.data ELSE read.header,
                            at |-> IF IsSeq(m) THEN Len(read.lens) + 1 ELSE read.at]
           /\ player' = IF Wanted(m)
                        THEN [Take(player, m) EXCEPT !.keyframeNeed = @ /\ ~video] ELSE player
           /\ seg' = IF ~r.ok THEN r.seg
                     ELSE IF video THEN [r.seg EXCEPT !.videoCc = mux.cc,
                                                      !.sets = UpdateSets(@, UnitsOf(<<r.es>>))]
                     ELSE [r.seg EXCEPT !.audioCc = mux.cc]
           /\ out' = [m |-> m, got |-> IF Wanted(m) THEN handleVideoAudio(m) ELSE <<>>, es |-> r.es,
                      packets |-> IF r.ok THEN mux.packets ELSE <<>>, seen |-> Counters]
  /\ wire' = Tail(wire)
  /\ count' = [count EXCEPT !.relayed = @ + 1]
  /\ UNCHANGED <<pub, videoFirst, audioFirst, panicked, sets, sound>>

\* Mutant: the tables' counters are not counted up.
SegmentStuck(soundFormat, hasVideo) ==
  /\ out.m # None
  /\ seg' = [seg EXCEPT !.patCc = TableCc(@), !.pmtCc = TableCc(@)]
  /\ out' = [out EXCEPT !.m = None, !.seen = Counters,
                        !.packets = <<PAT(seg.patCc), PMT(seg.pmtCc, soundFormat, hasVideo)>>]
  /\ UNCHANGED <<pub, videoFirst, audioFirst, panicked, sets, sound, wire, cache, read, player, count>>

\* A new segment begins with PAT and PMT.
Segment(soundFormat, hasVideo) ==
  /\ out.m # None
  /\ seg' = [seg EXCEPT !.patCc = TableCc(@) + 1, !.pmtCc = TableCc(@) + 1]
  /\ out' = [out EXCEPT !.m = None, !.seen = Counters,
                        !.packets = <<PAT(seg.patCc), PMT(seg.pmtCc, soundFormat, hasVideo)>>]
  /\ UNCHANGED <<pub, videoFirst, audioFirst, panicked, sets, sound, wire, cache, read, player, count>>

Next == SendPacket \/ PeerSends \/ Join \/ Relay \/ Segment(SOUND_AAC, TRUE)

Spec == Init /\ [][Next]_vars

-----------------------------------------------------------------------------
(* Properties *)

Shown == out.m # None /\ out.m.type = "video" /\ Wanted(out.m)
Units == out.m.units

\* Units a to b of the message as they were, with the start codes between them and
\* perhaps the one before them.
Pieces(a, b) ==
  LET code(i) == Code(out.m.codes[i])
      piece == Units[a] \o FlattenSeq([i \in 1 .. b - a |-> code(a + i) \o Units[a + i]])
  IN  {piece, code(a) \o piece}

\* A parameter set by itself, shorter than what ParseNalusN looks at.
TooShort(units) == Len(units) = 1 /\ NaluType(units[1]) \in {7, 8} /\ Len(units[1]) < 4

\* Each unit of m is behind a length of its own, without a start code: what another
\* publisher sends, what is not H.264, and of SendPacket's pictures those that begin
\* with a long start code and are one unit, or three at most with a parameter set first.
OneEach(m) ==
  \/ pub = "peer" \/ ParseVideoHeader(m.data).codecID # VIDEO_H264
  \/ m.codes[1] = 4 /\ (Len(m.units) = 1 \/ (NaluType(m.units[1]) \in {7, 8} /\ Len(m.units) <= 3))

\* No NAL unit of a picture is lost, doubled, cut or put out of order between the
\* application that sends it and the one that is called back (but a parameter set of
\* fewer than four bytes that is sent by itself).  The callbacks are one to a unit
\* exactly where OneEach says so: PackVideoData's comment has all units of an I frame
\* taken out and packed each behind its length (tag.go:509-510), and the code stops at
\* three, so that a callback for a longer picture gets several units in one.
UnitsKept ==
  Shown /\ Units # <<>> /\ ~TooShort(Units) =>
    /\ \E end \in [0 .. Len(out.got) -> 0 .. Len(Units)] :
         /\ end[0] = 0 /\ end[Len(out.got)] = Len(Units)
         /\ \A j \in 1 .. Len(out.got) :
              end[j - 1] < end[j] /\ out.got[j] \in Pieces(end[j - 1] + 1, end[j])
    /\ OneEach(out.m) <=> out.got = Units

\* SendPacket panics only over a picture whose last NAL unit has fewer than four bytes.
SplitSafe == panicked # <<>> => Len(Last(panicked)) < 4

\* A player that joins is handed the last sequence header as it was published if the
\* video message after it was longer than all up to it (or has not come), and never
\* otherwise: the cache keeps no copy, and what is read into the same buffer goes over it.
HeaderKept == player.on # "no" => (player.intact <=> player.outgrown)

\* When a player is given an IDR picture, the parameter sets it was given last are the
\* ones the publisher means; for a player that joined late, if the picture brings its
\* own, or the sequence header has them and it was handed that header intact.
ParamsCurrent ==
  Shown /\ HasIdr(Units) /\ (player.on = "first" \/ Own(Units) \/ (out.m.current /\ player.intact))
    => player.sets = out.m.sets

\* The elementary stream has every slice of a message whose units each have their
\* length, in order, and in front of an IDR picture the parameter sets the publisher
\* means, if the picture brings its own or they are those of the sequence header.
AnnexbRight ==
  LET slices(us) == SelectSeq(us, LAMBDA u : NaluType(u) \in {1, 5, 6})
  IN  out.packets # <<>> /\ out.m # None /\ out.m.type = "video"
        /\ Lengths(ParseVideoHeader(out.m.data).body) = Units =>
        /\ slices(UnitsOf(<<out.es>>)) = slices(Units)
        /\ HasIdr(Units) /\ out.m.current => seg.sets = out.m.sets

\* The sampling rates of the SoundRate constants.
Hz == <<5500, 11025, 22050, 44100, 7350, 8000, 12000, 16000, 24000, 32000, 48000, 64000, 88200, 96000>>

\* An AAC frame reaches the player as it was sent, and the ADTS frame made of it gives
\* its own length, of which it has 13 bits, the channels, and the sampling rate of the
\* publisher, if NewAACSequenceHeader knows that rate (5.5 and 7.35 kHz it does not) and
\* the publisher has not changed it.
AudioRight ==
  out.m # None /\ out.m.type = "audio" /\ out.m.src # <<>> =>
    LET e == out.es IN
    /\ Wanted(out.m) => out.got = <<out.m.src>>
    /\ Rest(e, 7) = out.m.src
    /\ (e[4] % 4) * 2048 + e[5] * 8 + (e[6] \div 32) = Len(e) % 8192
    /\ out.m.ah = sound /\ sound.rate \notin {0, 4} =>
         /\ SampleRate((e[3] % 64) \div 4) = Hz[sound.rate + 1]
         /\ (e[3] % 2) * 4 + (e[4] \div 64) = sound.type + 1

\* A demultiplexer that follows the PES header gets the elementary stream back, at the
\* right times (a clock that has wrapped may be one tick ahead); every TS packet is
\* full, and the first one starts the unit.
TsReassembles ==
  out.packets # <<>> /\ out.m # None =>
    LET pes == FlattenSeq([i \in 1 .. Len(out.packets) |-> out.packets[i].payload])
        dts == out.m.ts * 90
        video == out.m.type = "video"
        pts == dts + (IF video THEN ParseVideoHeader(out.m.data).compositionTime * 90 ELSE 0)
        near(t, u) == (t - u) % (ClockMax + 1) \in {0, 1}
    IN  /\ \A i \in 1 .. Len(out.packets) :
             /\ Len(out.packets[i].payload) + out.packets[i].adaptation = TsDataLen
             /\ out.packets[i].start = (i = 1)
             /\ out.packets[i].pid = out.packets[1].pid
        /\ SubSeq(pes, 1, 3) = <<0, 0, 1>>
        /\ pes[5] * 256 + pes[6] = IF Len(pes) - 6 > 65535 THEN 0 ELSE Len(pes) - 6
        /\ Rest(pes, 9 + pes[9]) = out.es
        /\ near(pes[10][2], pts)
        /\ IF pes[8] = 192 THEN near(pes[15][2], dts) ELSE pts = dts

\* On every PID the continuity counters of the packets that come out go up by one and
\* wrap, from packet to packet, message to message and segment to segment.
Continuity ==
  \A i \in 1 .. Len(out.packets) :
    LET pid == out.packets[i].pid
        before == {j \in 1 .. i - 1 : out.packets[j].pid = pid}
        last == IF before = {} THEN out.seen[pid] ELSE out.packets[Max(before)].cc
    IN  last # -1 => out.packets[i].cc = (last + 1) % (CcMax + 1)
=============================================================================
