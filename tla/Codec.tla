------------------------------- MODULE Codec -------------------------------
(***************************************************************************)
(* The media formats: NAL units and AVC configuration (src/media/h264),    *)
(* AAC configuration and ADTS (src/media/aac), FLV tag headers and bodies  *)
(* (src/container/flv), MPEG-TS packets (src/container/ts).  Pure          *)
(* operators; Media puts them to work.                                     *)
(*                                                                         *)
(* A byte is a number.  A result has ok = FALSE when the Go function       *)
(* returns an error, and panic = TRUE when it panics.                      *)
(***************************************************************************)
EXTENDS Integers, Sequences, SequencesExt

CONSTANTS
  TsDataLen,  \* tsDefaultDataLen: what a TS packet carries
  CcMax,      \* the largest continuity counter
  ClockMax    \* the largest timestamp of a PES header, 0x1ffffffff

\* A packet has room for a PES header: 19 bytes of 184.
ASSUME CodecAssumption == TsDataLen \in Nat /\ TsDataLen >= 19 /\ CcMax \in Nat /\ ClockMax \in Nat

U16(n) == <<(n \div 256) % 256, n % 256>>
U32(n) == U16(n \div 65536) \o U16(n)
Rest(s, n) == SubSeq(s, n + 1, Len(s))
AtMost(a, b) == IF a <= b THEN a ELSE b

-----------------------------------------------------------------------------
(* h264 *)

StartCode3 == <<0, 0, 1>>
StartCode4 == <<0, 0, 0, 1>>
naluAud == StartCode4 \o <<9, 240>>
NaluType(u) == u[1] % 32

\* The start code at index, counted from zero: its length, or 0.
StartCode(src, index) ==
  CASE IsPrefix(StartCode3, Rest(src, index)) -> 3
    [] IsPrefix(StartCode4, Rest(src, index)) -> 4
    [] OTHER -> 0

\* Mutant: the loop goes one byte too far.
ScanTurnLate(src, s) ==
  LET code == StartCode(src, s.index)
      next == s.index + code
      found == s.index > s.pre
  IN  IF s.at # "loop" THEN s
      ELSE IF s.n = 1 THEN [s EXCEPT !.at = "end"]
      ELSE IF s.index + (IF code = 3 THEN 3 ELSE 4) > Len(src) THEN [s EXCEPT !.at = "panic"]
      ELSE IF code > 0
      THEN [at |-> "loop", n |-> IF found /\ s.n > 0 THEN s.n - 1 ELSE s.n, pre |-> next, index |-> next,
            nalus |-> IF found THEN Append(s.nalus, SubSeq(src, s.pre + 1, s.index)) ELSE s.nalus]
      ELSE [s EXCEPT !.index = @ + 1, !.at = IF s.index + 4 > Len(src) THEN "end" ELSE "loop"]

\* A turn of the loop of ParseNalusN.  It looks at three, then four bytes at index
\* without asking whether they are there, which it only knows after a step of one
\* byte.  src has no spare capacity: Go would look at the bytes there before it panics.
ScanTurn(src, s) ==
  LET code == StartCode(src, s.index)
      next == s.index + code
      found == s.index > s.pre
  IN  IF s.at # "loop" THEN s
      ELSE IF s.n = 1 THEN [s EXCEPT !.at = "end"]
      ELSE IF s.index + (IF code = 3 THEN 3 ELSE 4) > Len(src) THEN [s EXCEPT !.at = "panic"]
      ELSE IF code > 0
      THEN [at |-> "loop", n |-> IF found /\ s.n > 0 THEN s.n - 1 ELSE s.n, pre |-> next, index |-> next,
            nalus |-> IF found THEN Append(s.nalus, SubSeq(src, s.pre + 1, s.index)) ELSE s.nalus]
      ELSE [s EXCEPT !.index = @ + 1, !.at = IF s.index + 5 > Len(src) THEN "end" ELSE "loop"]

\* The loop, after k turns.  Every turn goes on by a byte at least.
Scan(src, n) ==
  LET scan[k \in 0 .. Len(src) + 1] ==
        IF k = 0 THEN [at |-> "loop", n |-> n, pre |-> 0, index |-> 0, nalus |-> <<>>]
        ELSE ScanTurn(src, scan[k - 1])
  IN  scan

ParseNalusN(src, n) ==
  LET s == Scan(src, n)[Len(src) + 1]
  IN  IF Len(src) < 4 \/ n = 0 THEN [panic |-> FALSE, nalus |-> <<>>]
      ELSE IF s.at = "panic" THEN [panic |-> TRUE, nalus |-> <<>>]
      ELSE [panic |-> FALSE,
            nalus |-> IF s.pre < Len(src) THEN Append(s.nalus, Rest(src, s.pre)) ELSE s.nalus]
ParseNalus(src) == ParseNalusN(src, -1)

\* The test for a start code compares the whole slice with it.
StripIfStartCode(s) == IF s = StartCode4 THEN <<>> ELSE s
AVCDecoderConfigurationRecord(sps, pps) ==
  LET s == StripIfStartCode(sps)
      p == StripIfStartCode(pps)
  IN  <<1, 66, 0, 40, 255, 225>> \o U16(Len(s)) \o s \o <<1>> \o U16(Len(p)) \o p

\* Parser.parseSpecificInfo: what it adds to specificInfo.
parseSpecificInfo(src) ==
  LET spsLen == src[7] * 256 + src[8]
      tmpBuf == Rest(src, 8 + spsLen)
      ppsLen == tmpBuf[2] * 256 + tmpBuf[3]
      good == /\ Len(src) >= 9
              /\ spsLen > 0 /\ Len(src) - 8 >= spsLen
              /\ Len(tmpBuf) >= 4
              /\ ppsLen > 0 /\ Len(tmpBuf) - 3 >= ppsLen
  IN  [ok |-> good,
       info |-> IF good THEN StartCode4 \o SubSeq(src, 9, 8 + spsLen) \o StartCode4 \o Rest(tmpBuf, 3)
                ELSE <<>>]

isNaluHeader(src) == IsPrefix(StartCode4, src)
naluSize(src) == ((src[1] * 256 + src[2]) * 256 + src[3]) * 256 + src[4]

\* Mutant: the parameter sets of the packet itself are not looked at.
UnitToAnnexbOld(st, u, info) ==
  LET params == IF st.wrote THEN <<>> ELSE info
  IN  CASE NaluType(u) = 5 -> [st EXCEPT !.wrote = TRUE, !.out = @ \o params \o StartCode4 \o u]
        [] NaluType(u) \in {1, 6} -> [st EXCEPT !.out = @ \o StartCode4 \o u]
        [] OTHER -> st

\* One unit in getAnnexbH264: parameter sets wait for an IDR unit, and the ones of
\* the sequence header stand in for them; delimiters and the rest are dropped.
UnitToAnnexb(st, u, info) ==
  LET params == IF st.wrote THEN <<>> ELSE IF st.has THEN st.pps ELSE info
  IN  CASE NaluType(u) = 5 -> [st EXCEPT !.wrote = TRUE, !.out = @ \o params \o StartCode4 \o u]
        [] NaluType(u) \in {1, 6} -> [st EXCEPT !.out = @ \o StartCode4 \o u]
        [] NaluType(u) \in {7, 8} -> [st EXCEPT !.has = TRUE, !.pps = @ \o StartCode4 \o u]
        [] OTHER -> st

\* A turn of its loop: a length and a unit, until the data or their sense end.
AnnexbTurn(src, info, s) ==
  LET b == Rest(src, s.index)
      n == naluSize(b)
  IN  IF s.at # "loop" THEN s
      ELSE IF b = <<>> THEN [s EXCEPT !.at = "end"]
      ELSE IF Len(b) < 4 \/ n = 0 \/ Len(b) - 4 < n THEN [s EXCEPT !.at = "error"]
      ELSE [s EXCEPT !.index = @ + 4 + n, !.unit = UnitToAnnexb(@, SubSeq(b, 5, 4 + n), info)]

\* The loop, after k turns; every turn takes four bytes at least.
Annexb(src, info) ==
  LET annexb[k \in 0 .. Len(src) + 1] ==
        IF k = 0
        THEN [at |-> "loop", index |-> 0,
              unit |-> [has |-> FALSE, wrote |-> FALSE, pps |-> <<>>, out |-> naluAud]]
        ELSE AnnexbTurn(src, info, annexb[k - 1])
  IN  annexb

getAnnexbH264(src, info) ==
  LET s == Annexb(src, info)[Len(src) + 1]
  IN  IF Len(src) < 4 THEN [ok |-> FALSE, out |-> <<>>] ELSE [ok |-> s.at = "end", out |-> s.unit.out]

-----------------------------------------------------------------------------
(* aac *)

SpecificConfig(objectType, index, channel) ==
  <<(objectType * 8) + (index \div 2), ((index * 128) % 256) + channel * 8>>

specificInfo(src) ==
  [objectType |-> src[1] \div 8, sampleRate |-> (src[1] % 8) * 2 + (src[2] \div 128),
   channel |-> (src[2] \div 8) % 16]

\* Mutant: the channels are shifted by one bit too few.
adtsHeaderShifted(cfg, len) ==
  LET frameLen == len + 7
  IN  <<255, 241, (((cfg.objectType - 1) * 64) % 256) + cfg.sampleRate * 4,
        ((cfg.channel * 32) % 256) + (((frameLen * 8) % 65536) \div 16384),
        ((frameLen * 32) % 65536) \div 256, (frameLen % 8) * 32 + 31, 252>>

\* The header that adts puts in front of a frame; 16-bit arithmetic on its length.
adtsHeader(cfg, len) ==
  LET frameLen == len + 7
  IN  <<255, 241, (((cfg.objectType - 1) * 64) % 256) + cfg.sampleRate * 4,
        ((cfg.channel * 64) % 256) + (((frameLen * 8) % 65536) \div 16384),
        ((frameLen * 32) % 65536) \div 256, (frameLen % 8) * 32 + 31, 252>>

aacRates == <<96000, 88200, 64000, 48000, 44100, 32000, 24000, 22050, 16000, 12000, 11025, 8000, 7350>>
SampleRate(index) == IF index < Len(aacRates) THEN aacRates[index + 1] ELSE 44100

-----------------------------------------------------------------------------
(* flv *)

SOUND_AAC == 10
VIDEO_H264 == 7

videoTagData(frameType, codecID, avcPacketType) ==
  <<frameType * 16 + codecID>> \o (IF codecID = VIDEO_H264 THEN <<avcPacketType, 0, 0, 0>> ELSE <<>>)
audioTagData(ah, aacPacketType) ==
  <<ah.format * 16 + (ah.rate % 4) * 4 + ah.size * 2 + ah.type>>
    \o (IF ah.format = SOUND_AAC THEN <<aacPacketType>> ELSE <<>>)

NewAVCSequenceHeader(sps, pps) == videoTagData(1, VIDEO_H264, 0) \o AVCDecoderConfigurationRecord(sps, pps)

\* The frequency index for the SoundRate constants 0 to 13; rates AAC does not know,
\* and 5.5 and 7 kHz, are called 44 kHz.
FrequencyIndex(rate) == <<4, 10, 7, 4, 4, 11, 9, 8, 6, 5, 3, 2, 1, 0>>[rate + 1]
NewAACSequenceHeader(ah) ==
  audioTagData(ah, 0) \o SpecificConfig(2, FrequencyIndex(ah.rate), IF ah.type = 0 THEN 1 ELSE 2)

Prefixed(nalus) ==
  FlattenSeq([i \in 1 .. Len(nalus) |-> IF nalus[i] = <<>> THEN <<>> ELSE U32(Len(nalus[i])) \o nalus[i]])

\* Mutant: all of a packet with parameter sets goes under one length.
PackVideoDataWhole(codec, avcType, data) ==
  LET src == IF codec = VIDEO_H264 /\ isNaluHeader(data) THEN Rest(data, 4) ELSE data
      key == codec # VIDEO_H264 \/ NaluType(src) \in {5, 7, 8}
  IN  CASE codec \notin {1, 2, VIDEO_H264} \/ src = <<>> -> [ok |-> FALSE, panic |-> FALSE]
        [] OTHER -> [ok |-> TRUE, panic |-> FALSE,
                     data |-> videoTagData(IF key THEN 1 ELSE 2, codec, avcType) \o Prefixed(<<src>>)]

\* An access unit that starts with a parameter set is cut into three units at most,
\* anything else goes whole.
PackVideoData(codec, avcType, data) ==
  LET src == IF codec = VIDEO_H264 /\ isNaluHeader(data) THEN Rest(data, 4) ELSE data
      key == codec # VIDEO_H264 \/ NaluType(src) \in {5, 7, 8}
      cut == ParseNalusN(src, 3)
      params == codec = VIDEO_H264 /\ NaluType(src) \in {7, 8}
  IN  CASE codec \notin {1, 2, VIDEO_H264} \/ src = <<>> -> [ok |-> FALSE, panic |-> FALSE]
        [] OTHER -> [ok |-> TRUE, panic |-> params /\ cut.panic,
                     data |-> videoTagData(IF key THEN 1 ELSE 2, codec, avcType)
                                \o Prefixed(IF params THEN cut.nalus ELSE <<src>>)]

PackAudioData(ah, src) ==
  IF ah.format # SOUND_AAC THEN [ok |-> FALSE] ELSE [ok |-> TRUE, data |-> audioTagData(ah, 1) \o src]

\* Demux: the header fields, and the body.  Audio of an unknown format has one byte
\* of header, video of a codec other than H.264 too, though five must be there.
ParseAudioHeader(b) ==
  LET format == IF b = <<>> THEN 0 ELSE b[1] \div 16
      n == IF format = SOUND_AAC THEN 2 ELSE 1
  IN  IF Len(b) < n THEN [ok |-> FALSE, panic |-> b # <<>>]
      ELSE [ok |-> TRUE, format |-> format, rate |-> (b[1] \div 4) % 4, size |-> (b[1] \div 2) % 2,
            type |-> b[1] % 2, aacPacketType |-> IF n = 2 THEN b[2] ELSE 0, body |-> Rest(b, n)]
ParseVideoHeader(b) ==
  LET avc == b[1] % 16 = VIDEO_H264
  IN  IF Len(b) < 5 THEN [ok |-> FALSE]
      ELSE [ok |-> TRUE, frameType |-> b[1] \div 16, codecID |-> b[1] % 16,
            avcPacketType |-> IF avc THEN b[2] ELSE 0,
            compositionTime |-> IF avc THEN (b[3] * 256 + b[4]) * 256 + b[5] ELSE 0,
            body |-> Rest(b, IF avc THEN 5 ELSE 1)]
IsSeqHeader(h) == h.codecID = VIDEO_H264 /\ h.frameType = 1 /\ h.avcPacketType = 0

\* reader.Read into a buffer of n bytes: an error at the end of the data only, a
\* short read leaves zeros.
ReadInto(b, n) == [i \in 1 .. n |-> IF i <= Len(b) THEN b[i] ELSE 0]

\* The count parameter sets of an AVC configuration record, each with its length.
ParameterSets(b, count) ==
  LET size(r) == ReadInto(r, 2)[1] * 256 + ReadInto(r, 2)[2]
      turn(s) == IF Len(s.b) <= 2 THEN [s EXCEPT !.ok = FALSE]
                 ELSE [s EXCEPT !.b = Rest(@, 2 + size(@)), !.sets = Append(@, ReadInto(Rest(s.b, 2), size(s.b)))]
      read[k \in 0 .. count] == IF k = 0 THEN [ok |-> TRUE, sets |-> <<>>, b |-> b] ELSE turn(read[k - 1])
  IN  read[count]

ParseAVCSequenceHeader(data) ==
  LET sps == ParameterSets(Rest(data, 6), data[6] % 32)
      pps == ParameterSets(Tail(sps.b), Head(sps.b))
  IN  IF Len(data) < 6 \/ data[1] # 1 THEN [ok |-> FALSE]
      ELSE IF ~sps.ok THEN [ok |-> FALSE]
      ELSE IF sps.b = <<>> THEN [ok |-> FALSE]
      ELSE IF ~pps.ok THEN [ok |-> FALSE]
      ELSE [ok |-> TRUE, spss |-> sps.sets, ppss |-> pps.sets]

-----------------------------------------------------------------------------
(* ts *)

\* Five bytes that carry ts under the four-bit prefix fb.
writeTs(fb, ts) ==
  LET t == (IF ts > ClockMax THEN ts - ClockMax ELSE ts) % (ClockMax + 1)
  IN  [i \in 1 .. 5 |-> <<fb, t, i>>]

\* Mutant: the size is that of the data.
pesHeaderShort(video, len, pts, dts) ==
  LET both == video /\ pts # dts
      headerSize == IF both THEN 10 ELSE 5
  IN  <<0, 0, 1, IF video THEN 224 ELSE 192>> \o U16(len)
        \o <<128, IF both THEN 192 ELSE 128, headerSize>>
        \o (IF both THEN writeTs(3, pts) \o writeTs(1, dts) ELSE writeTs(2, pts))

\* pesHeader.packet for len bytes of data.
pesHeader(video, len, pts, dts) ==
  LET both == video /\ pts # dts
      headerSize == IF both THEN 10 ELSE 5
      size == len + headerSize + 3
  IN  <<0, 0, 1, IF video THEN 224 ELSE 192>> \o U16(IF size > 65535 THEN 0 ELSE size)
        \o <<128, IF both THEN 192 ELSE 128, headerSize>>
        \o (IF both THEN writeTs(3, pts) \o writeTs(1, dts) ELSE writeTs(2, pts))

NextCc(cc) == IF cc + 1 > CcMax THEN 0 ELSE cc + 1

\* A turn of Mux's loop: i is where the next byte of the packet goes, left the bytes
\* of header and data to come.  The bytes a packet does not set are those of the packet
\* before it.  The branch for the PCR is left out: the frame type it asks for is that
\* of a header nobody fills in.
MuxTurn(pid, pes, data, s) ==
  LET first == s.packets = <<>>
      stuffing == IF s.left >= TsDataLen THEN 0 ELSE TsDataLen - s.left
      dataLen == IF s.left >= TsDataLen THEN TsDataLen ELSE s.left
      i == 4 + stuffing
      tmpLen == IF first /\ i < TsDataLen + 4 THEN AtMost(Len(pes), TsDataLen + 4 - i) ELSE 0
      n == AtMost(TsDataLen + 4 - i - tmpLen, dataLen - tmpLen)
      packet == [pid |-> pid, start |-> first, cc |-> NextCc(s.cc), adaptation |-> stuffing,
                 payload |-> SubSeq(pes, 1, tmpLen) \o SubSeq(data, s.wBytes + 1, s.wBytes + n)]
  IN  IF s.left = 0 THEN s
      ELSE [left |-> s.left - tmpLen - n, wBytes |-> s.wBytes + n, cc |-> NextCc(s.cc),
            packets |-> Append(s.packets, packet)]

\* The loop, after k turns; every turn takes a byte at least.
MuxLoop(pid, pes, data, cc) ==
  LET mux[k \in 0 .. Len(pes) + Len(data)] ==
        IF k = 0 THEN [left |-> Len(pes) + Len(data), wBytes |-> 0, cc |-> cc, packets |-> <<>>]
        ELSE MuxTurn(pid, pes, data, mux[k - 1])
  IN  mux

Mux(video, data, timeStamp, compositionTime, cc) ==
  LET dts == timeStamp * 90
      pts == IF video THEN dts + compositionTime * 90 ELSE dts
      pes == pesHeader(video, Len(data), pts, dts)
  IN  MuxLoop(IF video THEN 256 ELSE 257, pes, data, cc)[Len(pes) + Len(data)]

\* The counter that PAT and PMT use.
TableCc(cc) == IF cc > CcMax THEN 0 ELSE cc
PAT(cc) == [pid |-> 0, start |-> TRUE, cc |-> TableCc(cc), adaptation |-> 0, payload |-> <<"PAT">>]
PMT(cc, soundFormat, hasVideo) ==
  LET audio == IF soundFormat \in {2, 14} THEN 4 ELSE 15
      streams == IF hasVideo THEN <<<<27, 256>>, <<audio, 257>>>> ELSE <<<<audio, 257>>>>
  IN  [pid |-> 4097, start |-> TRUE, cc |-> TableCc(cc), adaptation |-> 0,
       payload |-> <<"PMT", 5 * Len(streams) + 13, IF hasVideo THEN 256 ELSE 257, streams>>]
=============================================================================
