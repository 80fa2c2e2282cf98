---------------------------- MODULE StreamRelay -----------------------------
(***************************************************************************)
(* The path of a packet through one stream to one player: startRead puts   *)
(* it in the cache and in pktChan, the stream's loop writes it to the      *)
(* player's StreamWriter, whose SendPacket goroutine stamps it and sends   *)
(* it.  Publishers come one after the other (takeovers), the player joins  *)
(* at any time and gets the cache first.  Both queues drop when full.      *)
(*                                                                         *)
(* Module RtmpStream has the life of the goroutines; here they all run,    *)
(* and a takeover has waited for the old startRead.  Cache.Send reads the  *)
(* cache one field at a time, without a lock, while startRead writes it.   *)
(***************************************************************************)
EXTENDS Naturals, Sequences, FiniteSets

CONSTANTS
  Kinds,    \* kinds of packet the publishers send, of KnownKinds
  MaxPubs,  \* bound: publishers, one after the other
  MaxPkts,  \* bound: packets of a publisher
  PktCap,   \* capacity of pktChan (16 in the code)
  QCap,     \* capacity of packetQueue (maxQueueNum, 1024 in the code)
  TsMod     \* uint32 arithmetic of timestamps (2^32 in the code)

\* Metadata, the AVC and AAC sequence headers, key and inter frames, AAC frames.
KnownKinds == {"meta", "vseq", "aseq", "key", "inter", "audio"}

ASSUME RelayAssumption ==
  /\ Kinds \subseteq KnownKinds
  /\ {MaxPubs, PktCap, TsMod} \subseteq Nat \ {0}
  /\ MaxPkts \in Nat
  /\ QCap \in Nat \ {0}
  /\ QCap >= Cardinality(Kinds \cap {"meta", "vseq", "aseq"})  \* Cache.Send never fails

Pubs == 1..MaxPubs
Packet == [kind : KnownKinds, pub : Pubs, gop : 0..MaxPkts, ts : 0..MaxPkts]
Stamped == [pkt : Packet, ts : 0..(TsMod - 1)]
None == [kind |-> "none"]
Idle == [pkt |-> None]

Video(p) == p.kind \in {"vseq", "key", "inter"}
Audio(p) == p.kind \in {"aseq", "audio"}
\* VHeader.FrameType = FRAME_KEY: sequence headers are marked as key frames too.
FrameKey(p) == p.kind \in {"vseq", "key"}
Media(p) == p.kind \in {"key", "inter", "audio"}
\* The header a decoder needs before it can use p.
HeaderOf(p) == IF p.kind = "audio" THEN "aseq" ELSE "vseq"

VARIABLES
  pub,              \* the publisher at work
  count, gop,       \* the packets (its clock) and the key frames it has sent
  headers,          \* the sequence headers it has sent
  keyDue,           \* its last video packet was a sequence header
  held,             \* startRead: read and cached, not yet pushed
  cache,            \* Cache: metadata, videoSeq, audioSeq and the gops
  pktChan,
  sent, batch,      \* Cache.Send for the player: fields read, packets found
  keyframeNeed, queue,          \* StreamWriter
  base, lastVideo, lastAudio,   \* RWBaser
  sending,          \* the packet SendPacket has taken and stamped
  seen,             \* history: <<kind, pub, gop>> of headers and key frames sent
  lastOut,          \* history: timestamp of the last media frame sent
  lost,             \* history: headers and key frames a queue has dropped
  drained           \* history: every takeover found the writer with nothing to send

pubVars == <<pub, count, gop, headers, keyDue>>
tsVars == <<base, lastVideo, lastAudio>>
history == <<seen, lastOut, lost, drained>>
vars == <<pubVars, held, cache, pktChan, sent, batch, keyframeNeed, queue, tsVars, sending,
          history>>

-----------------------------------------------------------------------------
(* Cache *)

\* NewGopCache(maxNumber) does not store maxNumber.
NewGopCache(maxNumber) == [maxNumber |-> 0, count |-> 0, gops |-> <<>>]

\* GopCache.Write
GopWrite(g, p, bKeyFrame) ==
  LET h == IF bKeyFrame THEN [g EXCEPT !.gops = <<>>, !.count = 0] ELSE g IN
  IF h.count < h.maxNumber THEN [h EXCEPT !.gops = Append(@, p), !.count = @ + 1] ELSE h

NewCache == [metadata |-> None, videoSeq |-> None, audioSeq |-> None, gop |-> NewGopCache(1)]

\* Mutant of CacheWrite: the first sequence header is kept for ever.
CacheWriteOnce(c, p) ==
  CASE p.kind = "aseq" /\ c.audioSeq = None -> [c EXCEPT !.audioSeq = p]
    [] p.kind = "vseq" /\ c.videoSeq = None -> [c EXCEPT !.videoSeq = p]
    [] OTHER -> c

\* Cache.Write: every video packet goes to the GOP cache, a key frame to open it.
CacheWrite(c, p) ==
  CASE p.kind = "aseq"  -> [c EXCEPT !.audioSeq = p]
    [] p.kind = "vseq"  -> [c EXCEPT !.videoSeq = p, !.gop = GopWrite(@, p, FALSE)]
    [] p.kind = "key"   -> [c EXCEPT !.gop = GopWrite(GopWrite(@, p, TRUE), p, FALSE)]
    [] p.kind = "inter" -> [c EXCEPT !.gop = GopWrite(@, p, FALSE)]
    [] p.kind = "meta"  -> [c EXCEPT !.metadata = p]
    [] OTHER -> c

\* Cache.Send reads three fields and then pushes what they held, and the gops.
CacheField(c, i) == <<c.metadata, c.videoSeq, c.audioSeq>>[i]

-----------------------------------------------------------------------------
(* StreamWriter.Write *)

\* The packet is dropped for want of a key frame.
Unwanted(p) == Video(p) /\ keyframeNeed /\ ~FrameKey(p)
Full == Len(queue) = QCap

\* Mutant of NeedAfterWrite: a dropped key frame does not ask for another.
NeedAfterWriteForgets(p) == keyframeNeed /\ ~(Video(p) /\ FrameKey(p))

\* keyframeNeed after Write(p)
NeedAfterWrite(p) ==
  IF Video(p) /\ FrameKey(p) THEN Full ELSE keyframeNeed

\* Mutant of QueueAfterWrite: the capacity is not looked at.
QueueAfterWriteUnbounded(p) == IF Unwanted(p) THEN queue ELSE Append(queue, p)

\* packetQueue after Write(p)
QueueAfterWrite(p) == IF Unwanted(p) \/ Full THEN queue ELSE Append(queue, p)

\* The player is one of the stream's writers.
Joined == sent = 4

\* The header p comes too late for the Cache.Send that serves the player.
Missed(p) == (p.kind = "vseq" /\ sent >= 2) \/ (p.kind = "aseq" /\ sent >= 3)

\* The loop is at its select.
AtSelect == sent \in {0, 4}

\* What a drop of p may cost a player: a header or a key frame.
Loss(p) ==
  CASE p.kind \in {"vseq", "aseq"} -> {<<p.kind, p.pub>>}
    [] p.kind = "key" -> {<<"key", p.pub, p.gop>>}
    [] OTHER -> {}

-----------------------------------------------------------------------------
(* RWBaser *)

\* Mutant of CalcBase: the audio clock is forgotten.
CalcBaseVideoOnly(audio, video) == video

\* RWBaser.CalcBaseTimestamp
CalcBase(audio, video) == IF audio > video THEN audio ELSE video

-----------------------------------------------------------------------------
Init ==
  /\ pub = 1 /\ count = 0 /\ gop = 0 /\ headers = {} /\ keyDue = FALSE
  /\ held = None
  /\ cache = NewCache
  /\ pktChan = <<>>
  /\ sent = 0 /\ batch = <<>>
  /\ keyframeNeed = TRUE /\ queue = <<>>
  /\ base = 0 /\ lastVideo = 0 /\ lastAudio = 0
  /\ sending = Idle
  /\ seen = {} /\ lastOut = 0 /\ lost = {} /\ drained = TRUE

\* External: what a publisher may send next: no frame before its header, and a
\* key frame after each AVC sequence header.
MaySend(kind) ==
  /\ kind = "audio" => "aseq" \in headers
  /\ kind \in {"key", "inter"} => "vseq" \in headers
  /\ kind = "inter" => ~keyDue /\ gop > 0

\* startRead: Read returns a packet, cache.Write keeps it.
ReadPacket(kind) ==
  LET g == IF kind = "key" THEN gop + 1 ELSE gop
      p == [kind |-> kind, pub |-> pub, gop |-> g, ts |-> count] IN
  /\ held = None
  /\ MaySend(kind)
  /\ count < MaxPkts
  /\ count' = count + 1
  /\ gop' = g
  /\ headers' = headers \cup ({kind} \cap {"vseq", "aseq"})
  /\ keyDue' = IF Video(p) THEN kind = "vseq" ELSE keyDue
  /\ held' = p
  /\ cache' = CacheWrite(cache, p)
  /\ UNCHANGED <<pub, pktChan, sent, batch, keyframeNeed, queue, tsVars, sending,
                 history>>

\* startRead: the non-blocking push.
Push ==
  /\ held # None
  /\ held' = None
  /\ IF Len(pktChan) < PktCap
     THEN /\ pktChan' = Append(pktChan, held)
          /\ UNCHANGED lost
     ELSE /\ lost' = IF Missed(held) \/ held.kind = "key" THEN lost \cup Loss(held) ELSE lost
          /\ UNCHANGED pktChan
  /\ UNCHANGED <<pubVars, cache, sent, batch, keyframeNeed, queue, tsVars, sending, seen,
                 lastOut, drained>>

\* streamLoop, case readerChan, once the old startRead has ended: empty pktChan,
\* rebase the writers, serve the next publisher.
Takeover ==
  /\ AtSelect
  /\ held = None
  /\ pub < MaxPubs
  /\ pub' = pub + 1
  /\ count' = 0 /\ gop' = 0 /\ headers' = {} /\ keyDue' = FALSE
  /\ pktChan' = <<>>
  /\ base' = IF Joined THEN CalcBase(lastAudio, lastVideo) ELSE base
  /\ drained' = (drained /\ queue = <<>> /\ sending = Idle)
  /\ UNCHANGED <<held, cache, sent, batch, keyframeNeed, queue, lastVideo, lastAudio, sending,
                 seen, lastOut, lost>>

\* streamLoop, case writerChan, Cache.Send: the next field of the cache.
ReadCache ==
  /\ sent < 3
  /\ sent' = sent + 1
  /\ LET p == CacheField(cache, sent + 1) IN
     batch' = IF p = None THEN batch ELSE Append(batch, p)
  /\ UNCHANGED <<pubVars, held, cache, pktChan, keyframeNeed, queue, tsVars, sending,
                 history>>

\* The rest of that case: the packets to the queue, the writer to the writers.
Join ==
  /\ sent = 3
  /\ sent' = 4
  /\ queue' = queue \o batch \o cache.gop.gops
  /\ batch' = <<>>
  /\ UNCHANGED <<pubVars, held, cache, pktChan, keyframeNeed, tsVars, sending, history>>

\* streamLoop, case pktChan: StreamWriter.Write for the player.
Deliver ==
  LET p == Head(pktChan) IN
  /\ AtSelect
  /\ pktChan # <<>>
  /\ pktChan' = Tail(pktChan)
  /\ IF Joined
     THEN /\ keyframeNeed' = NeedAfterWrite(p)
          /\ queue' = QueueAfterWrite(p)
          /\ lost' = IF Full THEN lost \cup (Loss(p) \ {<<"key", p.pub, p.gop>>}) ELSE lost
     ELSE UNCHANGED <<keyframeNeed, queue, lost>>
  /\ UNCHANGED <<pubVars, held, cache, sent, batch, tsVars, sending, seen, lastOut, drained>>

\* SendPacket: take a packet and stamp it.
SendTake ==
  /\ sending = Idle
  /\ queue # <<>>
  /\ queue' = Tail(queue)
  /\ sending' = [pkt |-> Head(queue), ts |-> (Head(queue).ts + base) % TsMod]
  /\ UNCHANGED <<pubVars, held, cache, pktChan, sent, batch, keyframeNeed, tsVars, history>>

\* SendPacket: RecTimeStamp, then write to the connection.
SendWrite ==
  LET p == sending.pkt IN
  /\ sending # Idle
  /\ sending' = Idle
  /\ lastVideo' = IF Video(p) THEN sending.ts ELSE lastVideo
  /\ lastAudio' = IF Audio(p) THEN sending.ts ELSE lastAudio
  /\ seen' = seen \cup Loss(p)
  /\ lastOut' = IF Media(p) THEN sending.ts ELSE lastOut
  /\ UNCHANGED <<pubVars, held, cache, pktChan, sent, batch, keyframeNeed, queue, base,
                 lost, drained>>

Next ==
  \/ \E kind \in Kinds : ReadPacket(kind)
  \/ Push \/ Takeover \/ ReadCache \/ Join \/ Deliver \/ SendTake \/ SendWrite

Spec == Init /\ [][Next]_vars

-----------------------------------------------------------------------------
(* Properties *)

\* Every variable keeps its type; the queues stay within their capacity.
TypeOK ==
  /\ pub \in Pubs /\ count \in 0..MaxPkts /\ gop \in 0..MaxPkts
  /\ headers \subseteq {"vseq", "aseq"} /\ keyDue \in BOOLEAN
  /\ held \in Packet \cup {None}
  /\ pktChan \in Seq(Packet) /\ Len(pktChan) <= PktCap
  /\ queue \in Seq(Packet) /\ Len(queue) <= QCap
  /\ {keyframeNeed, drained} \subseteq BOOLEAN
  /\ sent \in 0..4 /\ batch \in Seq(Packet)
  /\ {base, lastVideo, lastAudio, lastOut} \subseteq 0..(TsMod - 1)
  /\ sending \in Stamped \cup {Idle}

\* What the player has been sent when SendPacket reaches position i of the queue.
Before(i) ==
  seen \cup (IF sending = Idle THEN {} ELSE Loss(sending.pkt))
       \cup UNION {Loss(queue[j]) : j \in 1..(i - 1)}

Has(S, kind, b) == \E x \in S : x[1] = kind /\ x[2] = b

\* A player gets the sequence header of a publisher before any frame of that
\* publisher, whenever it joins and whatever takes over, unless a full queue
\* dropped that header: the packet is in the cache before it is in pktChan, so
\* the player finds it in one or the other.
HeaderFirst ==
  \A i \in DOMAIN queue :
    LET p == queue[i] IN
    Media(p) => Has(Before(i) \cup lost, HeaderOf(p), p.pub)

\* An inter frame reaches the player only after the key frame of its group,
\* unless pktChan dropped that key frame: when the player's own queue drops it,
\* keyframeNeed holds back the group.
GopIntact ==
  \A i \in DOMAIN queue :
    LET p == queue[i] IN
    p.kind = "inter" => <<"key", p.pub, p.gop>> \in Before(i) \cup lost

\* Timestamps of the frames a player is sent never go back, across takeovers,
\* as long as every takeover found the player's queue empty and its sender idle.
MonotoneIfDrained ==
  drained /\ sending # Idle /\ Media(sending.pkt) => sending.ts >= lastOut

\* What the comment on the rebasing says: every writer's timestamps increase
\* across a takeover.
Monotone == sending # Idle /\ Media(sending.pkt) => sending.ts >= lastOut
=============================================================================
