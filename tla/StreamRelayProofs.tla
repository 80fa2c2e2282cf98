-------------------------- MODULE StreamRelayProofs --------------------------
(***************************************************************************)
(* Proofs about StreamRelay, for any number of publishers and packets and  *)
(* any capacity of the two queues: types and capacities, GopIntact,        *)
(* HeaderFirst and MonotoneIfDrained.  Each speaks of the player's queue   *)
(* only; what makes it inductive is the same said of the packets on their  *)
(* way there (Flow): the key frame, or the header, a frame needs is before *)
(* it in Flow, or has been dropped, or has reached the player, or its      *)
(* absence makes Write hold the frame back.  The timestamps of Flow are    *)
(* ordered because the base CalcBaseTimestamp sets is at least all that    *)
(* was sent (OrderInv), as long as the 32-bit sums do not wrap (NoWrap).   *)
(***************************************************************************)
EXTENDS StreamRelay, FiniteSetTheorems, TLAPS

\* What startRead has read and the loop has not yet delivered, in order.
Flow == IF held = None THEN pktChan ELSE Append(pktChan, held)

\* All that the player has been sent or will be sent.
Given == Before(Len(queue) + 1)

-----------------------------------------------------------------------------
(* The cache and Cache.Send *)

Field(kind) == {None} \cup {p \in Packet : p.kind = kind /\ kind \in Kinds}

\* Each field of the cache holds its own kind of packet, and the GOP cache none.
CacheOK ==
  cache \in [metadata : Field("meta"), videoSeq : Field("vseq"), audioSeq : Field("aseq"),
             gop : {NewGopCache(1)}]

\* The kinds that the first n fields of the cache may hold.
ReadKinds(n) ==
  CASE n = 0 -> {}
    [] n = 1 -> Kinds \cap {"meta"}
    [] n = 2 -> Kinds \cap {"meta", "vseq"}
    [] OTHER -> Kinds \cap {"meta", "vseq", "aseq"}

\* Until the player has joined, it has no packet; Cache.Send has found at most
\* one packet in every field that it has read.
JoinOK ==
  /\ sent < 4 => queue = <<>> /\ sending = Idle /\ keyframeNeed
  /\ sent = 4 => batch = <<>>
  /\ Len(batch) <= Cardinality(ReadKinds(sent))
  /\ \A k \in DOMAIN batch : batch[k].kind \in {"meta", "vseq", "aseq"}

\* TypeOK and what it takes to be inductive.
TypeInv == TypeOK /\ CacheOK /\ JoinOK /\ gop <= count

-----------------------------------------------------------------------------
(* Groups of pictures *)

IsKey(p, b, g) == p.kind = "key" /\ p.pub = b /\ p.gop = g

\* A frame of group g of publisher b at place i of the flow f: its key frame was
\* dropped by pktChan, or is the last key frame before it in f, or was the last to
\* be delivered: then the player has it, or waits for another.
GopCovered(f, i, b, g, waits, dropped, given) ==
  \/ <<"key", b, g>> \in dropped
  \/ \E j \in 1 .. (i - 1) :
       /\ IsKey(f[j], b, g)
       /\ \A k \in (j + 1) .. (i - 1) : ~FrameKey(f[k])
  \/ /\ \A k \in 1 .. (i - 1) : ~FrameKey(f[k])
     /\ waits \/ <<"key", b, g>> \in given

GopInv ==
  /\ \A i \in DOMAIN Flow :
       Flow[i].kind = "inter" =>
         GopCovered(Flow, i, Flow[i].pub, Flow[i].gop, keyframeNeed, lost, Given)
  /\ gop > 0 /\ ~keyDue =>
       GopCovered(Flow, Len(Flow) + 1, pub, gop, keyframeNeed, lost, Given)

-----------------------------------------------------------------------------
(* Sequence headers *)

SeqHeaders == {"vseq", "aseq"}
Needs(p, h) == Media(p) /\ HeaderOf(p) = h

\* The place of a header among the fields that Cache.Send reads.
Place(h) == IF h = "vseq" THEN 2 ELSE 3

\* Cache.Send is still to read the header h of publisher b, or has read it.
InCacheSend(h, b) ==
  sent < Place(h) \/ \E k \in DOMAIN batch : batch[k].kind = h /\ batch[k].pub = b

\* A frame at place i of the flow f: its header h is before it in f, or was dropped
\* by a queue, or is with the player or with Cache.Send.
HeaderCovered(f, i, h, over) == over \/ \E j \in 1 .. (i - 1) : f[j].kind = h

Over(h) == <<h, pub>> \in lost \/ <<h, pub>> \in Given \/ InCacheSend(h, pub)

HeaderInv ==
  /\ \A i \in DOMAIN Flow :
       /\ Flow[i].pub = pub
       /\ \A h \in SeqHeaders : Needs(Flow[i], h) =>
            h \in headers /\ HeaderCovered(Flow, i, h, Over(h))
  /\ \A h \in headers :
       /\ HeaderCovered(Flow, Len(Flow) + 1, h, Over(h))
       /\ CacheField(cache, Place(h)) # None
       /\ CacheField(cache, Place(h)).pub = pub

-----------------------------------------------------------------------------
(* Types and capacities *)

\* None is no packet, and Idle nothing that is being sent.
LEMMA NoneIsNoPacket == None \notin Packet /\ Idle \notin Stamped
  BY DEF None, Idle, Packet, Stamped, KnownKinds

\* What Cache.Write makes of the cache: only the field of the packet's kind changes.
LEMMA CacheWriteOK ==
  ASSUME CacheOK, NEW p \in Packet, p.kind \in Kinds
  PROVE  /\ CacheWrite(cache, p) \in [metadata : Field("meta"), videoSeq : Field("vseq"),
                                     audioSeq : Field("aseq"), gop : {NewGopCache(1)}]
         /\ \A h \in {"vseq", "aseq"} :
              CacheField(CacheWrite(cache, p), Place(h)) =
                IF p.kind = h THEN p ELSE CacheField(cache, Place(h))
<1>1. \A b \in BOOLEAN : GopWrite(cache.gop, p, b) = cache.gop
  <2> DEFINE g == [maxNumber |-> 0, count |-> 0, gops |-> <<>>]
  <2>1. cache.gop = g
    BY DEF CacheOK, NewGopCache
  <2>2. [g EXCEPT !.gops = <<>>, !.count = 0] = g
    <3> DEFINE G == [maxNumber : {0}, count : {0}, gops : {<<>>}]
    <3>1. g \in G
      OBVIOUS
    <3>2. [g EXCEPT !.gops = <<>>, !.count = 0] \in G
      BY <3>1
    <3>3. \A r \in G : r = [maxNumber |-> 0, count |-> 0, gops |-> <<>>]
      OBVIOUS
    <3> QED  BY <3>2, <3>3, Zenon
  <2>3. g.count = 0 /\ g.maxNumber = 0
    OBVIOUS
  <2> HIDE DEF g
  <2>4. \A b \in BOOLEAN : GopWrite(g, p, b) = g
    BY <2>2, <2>3 DEF GopWrite
  <2> QED  BY <2>1, <2>4
<1>2. p.kind \in KnownKinds
  BY DEF Packet
<1> QED
  BY <1>1, <1>2 DEF CacheOK, CacheWrite, CacheField, Place, Field, KnownKinds

\* Each field adds at most one to what Cache.Send finds, and nothing if no publisher
\* sends its kind.
LEMMA ReadKindsGrow ==
  /\ \A n \in 0 .. 4 : Cardinality(ReadKinds(n)) \in Nat
  /\ \A n \in 0 .. 2 :
       LET kind == <<"meta", "vseq", "aseq">>[n + 1] IN
       Cardinality(ReadKinds(n + 1)) = Cardinality(ReadKinds(n)) + IF kind \in Kinds THEN 1 ELSE 0
  /\ Cardinality(ReadKinds(0)) = 0
  /\ Cardinality(ReadKinds(3)) <= QCap
<1> DEFINE K(n) == ReadKinds(n)
<1>1. IsFiniteSet({}) /\ Cardinality({}) = 0
  BY FS_EmptySet
<1>2. ASSUME NEW S, NEW x, IsFiniteSet(S), x \notin S
      PROVE  IsFiniteSet(S \cup {x}) /\ Cardinality(S \cup {x}) = Cardinality(S) + 1
  BY <1>2, FS_AddElement
<1>3. K(0) = {}
  BY DEF ReadKinds
<1>4. K(1) = IF "meta" \in Kinds THEN K(0) \cup {"meta"} ELSE K(0)
  BY DEF ReadKinds
<1>5. K(2) = IF "vseq" \in Kinds THEN K(1) \cup {"vseq"} ELSE K(1)
  BY DEF ReadKinds
<1>6. K(3) = IF "aseq" \in Kinds THEN K(2) \cup {"aseq"} ELSE K(2)
  BY DEF ReadKinds
<1>7. K(4) = K(3) /\ K(3) = Kinds \cap {"meta", "vseq", "aseq"}
  BY DEF ReadKinds
<1>8. "meta" \notin K(0) /\ "vseq" \notin K(1) /\ "aseq" \notin K(2)
  BY DEF ReadKinds
<1>9. Cardinality(K(3)) <= QCap
  BY <1>7, RelayAssumption
<1> HIDE DEF K
<1>10. IsFiniteSet(K(0)) /\ Cardinality(K(0)) = 0
  BY <1>1, <1>3
<1>11. IsFiniteSet(K(1)) /\ Cardinality(K(1)) = Cardinality(K(0)) + IF "meta" \in Kinds THEN 1 ELSE 0
  BY <1>2, <1>4, <1>8, <1>10
<1>12. IsFiniteSet(K(2)) /\ Cardinality(K(2)) = Cardinality(K(1)) + IF "vseq" \in Kinds THEN 1 ELSE 0
  BY <1>2, <1>5, <1>8, <1>11, <1>10
<1>13. IsFiniteSet(K(3)) /\ Cardinality(K(3)) = Cardinality(K(2)) + IF "aseq" \in Kinds THEN 1 ELSE 0
  BY <1>2, <1>6, <1>8, <1>12, <1>11, <1>10
<1>14. \A n \in 0 .. 4 : Cardinality(K(n)) \in Nat
  BY <1>7, <1>10, <1>11, <1>12, <1>13, FS_CardinalityType
<1>15. \A n \in 0 .. 2 : n = 0 \/ n = 1 \/ n = 2
  OBVIOUS
<1>16. \A n \in 0 .. 2 : LET kind == <<"meta", "vseq", "aseq">>[n + 1] IN
          Cardinality(K(n + 1)) = Cardinality(K(n)) + IF kind \in Kinds THEN 1 ELSE 0
  BY <1>11, <1>12, <1>13, <1>15
<1> QED
  BY <1>9, <1>10, <1>14, <1>16 DEF K

\* Every action keeps the types, the cache and what Cache.Send has found.
LEMMA TypeStep == TypeInv /\ [Next]_vars => TypeInv'
<1> SUFFICES ASSUME TypeInv, [Next]_vars  PROVE TypeInv'
  OBVIOUS
<1> USE NoneIsNoPacket, RelayAssumption
<1>1. ASSUME NEW kind \in Kinds, ReadPacket(kind)  PROVE TypeInv'
  <2> DEFINE g == IF kind = "key" THEN gop + 1 ELSE gop
             p == [kind |-> kind, pub |-> pub, gop |-> g, ts |-> count]
  <2>1. p \in Packet /\ p.kind = kind /\ g \in 0 .. MaxPkts /\ g <= count + 1
    BY <1>1 DEF ReadPacket, TypeInv, TypeOK, Packet, Pubs
  <2>2. CacheOK'
    BY <1>1, <2>1, CacheWriteOK DEF ReadPacket, CacheOK, TypeInv
  <2>3. JoinOK'
    BY <1>1 DEF ReadPacket, JoinOK, TypeInv
  <2>4. headers' \subseteq {"vseq", "aseq"} /\ keyDue' \in BOOLEAN
    BY <1>1 DEF ReadPacket, TypeInv, TypeOK
  <2>5. count' \in 0 .. MaxPkts /\ gop' = g /\ count' = count + 1 /\ held' = p
    BY <1>1 DEF ReadPacket, TypeInv, TypeOK
  <2> HIDE DEF g, p
  <2>6. TypeOK'
    BY <1>1, <2>1, <2>4, <2>5 DEF ReadPacket, TypeInv, TypeOK, history, tsVars
  <2> QED  BY <2>1, <2>2, <2>3, <2>5, <2>6 DEF TypeInv
<1>2. CASE Push
  <2>1. pktChan \in Seq(Packet) /\ Len(pktChan) <= PktCap /\ held \in Packet
    BY <1>2 DEF Push, TypeInv, TypeOK
  <2>2. pktChan' = pktChan \/ (Len(pktChan) < PktCap /\ pktChan' = Append(pktChan, held))
    BY <1>2 DEF Push
  <2>3. pktChan' \in Seq(Packet) /\ Len(pktChan') <= PktCap
    BY <2>1, <2>2
  <2>4. TypeOK'
    BY <1>2, <2>3 DEF Push, TypeInv, TypeOK, pubVars, tsVars
  <2> QED  BY <1>2, <2>4 DEF Push, TypeInv, CacheOK, JoinOK, pubVars
<1>3. CASE Takeover
  <2>1. TypeOK'
    <3>1. drained' \in BOOLEAN
      BY <1>3, Zenon DEF Takeover
    <3>2. base' \in 0 .. (TsMod - 1)
      BY <1>3 DEF Takeover, TypeInv, TypeOK, CalcBase
    <3>3. pktChan' \in Seq(Packet) /\ Len(pktChan') = 0 /\ 0 <= PktCap
      BY <1>3 DEF Takeover
    <3>4. pub' \in Pubs /\ 0 \in 0 .. MaxPkts /\ FALSE \in BOOLEAN
      BY <1>3 DEF Takeover, TypeInv, TypeOK, Pubs
    <3> QED
      BY <1>3, <3>1, <3>2, <3>3, <3>4 DEF Takeover, TypeInv, TypeOK
  <2>2. CacheOK' /\ JoinOK'
    BY <1>3 DEF Takeover, TypeInv, CacheOK, JoinOK
  <2> QED  BY <1>3, <2>1, <2>2 DEF Takeover, TypeInv
<1>4. CASE ReadCache
  <2> DEFINE p == CacheField(cache, sent + 1)
             kind == <<"meta", "vseq", "aseq">>[sent + 1]
  <2>1. sent \in 0 .. 2
    BY <1>4 DEF ReadCache, TypeInv, TypeOK
  <2>2. p = None \/ (p \in Packet /\ p.kind = kind /\ kind \in Kinds /\ kind \in {"meta", "vseq", "aseq"})
    BY <2>1 DEF CacheField, Field, TypeInv, CacheOK
  <2>3. batch' = IF p = None THEN batch ELSE Append(batch, p)
    BY <1>4 DEF ReadCache
  <2>4. Cardinality(ReadKinds(sent + 1)) = Cardinality(ReadKinds(sent)) + (IF kind \in Kinds THEN 1 ELSE 0)
        /\ Cardinality(ReadKinds(sent)) \in Nat /\ Cardinality(ReadKinds(sent + 1)) \in Nat
    BY <2>1, ReadKindsGrow
  <2>5. batch \in Seq(Packet) /\ Len(batch) <= Cardinality(ReadKinds(sent))
        /\ \A k \in DOMAIN batch : batch[k].kind \in {"meta", "vseq", "aseq"}
    BY DEF TypeInv, TypeOK, JoinOK
  <2> HIDE DEF p, kind
  <2>6. /\ batch' \in Seq(Packet) /\ Len(batch') <= Cardinality(ReadKinds(sent + 1))
        /\ \A k \in DOMAIN batch' : batch'[k].kind \in {"meta", "vseq", "aseq"}
    <3>1. CASE p = None
      BY <3>1, <2>3, <2>4, <2>5
    <3>2. CASE p # None
      <4>1. batch' = Append(batch, p) /\ p \in Packet
        BY <3>2, <2>2, <2>3
      <4>2. /\ batch' \in Seq(Packet) /\ Len(batch') = Len(batch) + 1
            /\ \A k \in DOMAIN batch' : batch'[k] = IF k = Len(batch) + 1 THEN p ELSE batch[k]
            /\ DOMAIN batch' = 1 .. (Len(batch) + 1) /\ DOMAIN batch = 1 .. Len(batch)
        BY <4>1, <2>5
      <4>3. Len(batch') <= Cardinality(ReadKinds(sent + 1))
        BY <3>2, <2>2, <2>4, <2>5, <4>2
      <4> QED  BY <3>2, <2>2, <2>5, <4>2, <4>3
    <3> QED  BY <3>1, <3>2
  <2>7. JoinOK'
    BY <1>4, <2>1, <2>6 DEF ReadCache, JoinOK, TypeInv
  <2>8. TypeOK' /\ CacheOK' /\ (gop <= count)'
    BY <1>4, <2>6, <2>1 DEF ReadCache, TypeInv, TypeOK, CacheOK, pubVars, tsVars, history
  <2> QED  BY <2>7, <2>8 DEF TypeInv
<1>5. CASE Join
  <2>1. queue = <<>> /\ cache.gop.gops = <<>>
    BY <1>5 DEF Join, TypeInv, JoinOK, CacheOK, NewGopCache
  <2>2. queue' = batch
    BY <1>5, <2>1 DEF Join, TypeInv, TypeOK
  <2>3. batch \in Seq(Packet) /\ Len(batch) <= QCap
    BY <1>5, ReadKindsGrow DEF Join, TypeInv, TypeOK, JoinOK
  <2>4. JoinOK'
    <3>1. batch' = <<>> /\ sent' = 4 /\ Cardinality(ReadKinds(4)) \in Nat
      BY <1>5, ReadKindsGrow DEF Join
    <3> QED  BY <3>1 DEF JoinOK
  <2>5. TypeOK' /\ CacheOK' /\ (gop <= count)'
    BY <1>5, <2>2, <2>3 DEF Join, TypeInv, TypeOK, CacheOK, pubVars, tsVars, history
  <2> QED  BY <2>4, <2>5 DEF TypeInv
<1>6. CASE Deliver
  <2>1. pktChan' \in Seq(Packet) /\ Len(pktChan') <= PktCap /\ Head(pktChan) \in Packet
    BY <1>6 DEF Deliver, TypeInv, TypeOK
  <2>2. queue' \in Seq(Packet) /\ Len(queue') <= QCap /\ keyframeNeed' \in BOOLEAN
    <3>1. CASE Joined
      <4>1. keyframeNeed' \in BOOLEAN
        BY <1>6, <3>1 DEF Deliver, NeedAfterWrite, Full, TypeInv, TypeOK
      <4>2. queue' = queue \/ (queue' = Append(queue, Head(pktChan)) /\ ~Full)
        BY <1>6, <3>1 DEF Deliver, QueueAfterWrite
      <4>3. queue \in Seq(Packet) /\ Len(queue) <= QCap /\ Len(queue) \in Nat
        BY DEF TypeInv, TypeOK
      <4> QED  BY <4>1, <4>2, <4>3, <2>1 DEF Full
    <3>2. CASE ~Joined
      BY <1>6, <3>2 DEF Deliver, TypeInv, TypeOK
    <3> QED  BY <3>1, <3>2
  <2>3. TypeOK'
    BY <1>6, <2>1, <2>2 DEF Deliver, TypeInv, TypeOK, pubVars, tsVars
  <2>4. JoinOK'
    BY <1>6 DEF Deliver, TypeInv, JoinOK, AtSelect, Joined, TypeOK
  <2>5. CacheOK' /\ (gop <= count)'
    BY <1>6 DEF Deliver, TypeInv, CacheOK, pubVars
  <2> QED  BY <2>3, <2>4, <2>5 DEF TypeInv
<1>7. CASE SendTake
  <2>1. queue' \in Seq(Packet) /\ Len(queue') <= QCap /\ Head(queue) \in Packet
    BY <1>7 DEF SendTake, TypeInv, TypeOK
  <2>2. (Head(queue).ts + base) % TsMod \in 0 .. (TsMod - 1)
    <3>1. Head(queue).ts \in 0 .. MaxPkts /\ base \in 0 .. (TsMod - 1)
      BY <2>1 DEF TypeInv, TypeOK, Packet
    <3>2. Head(queue).ts + base \in Nat /\ TsMod \in Nat \ {0}
      BY <3>1
    <3> QED  BY <3>2
  <2>3. sending' \in Stamped
    BY <1>7, <2>1, <2>2 DEF SendTake, Stamped
  <2>4. TypeOK'
    BY <1>7, <2>1, <2>3 DEF SendTake, TypeInv, TypeOK, pubVars, tsVars, history
  <2>5. sent = 4
    <3>1. queue # <<>>
      BY <1>7 DEF SendTake
    <3>2. sent \in 0 .. 4 /\ (sent < 4 => queue = <<>>)
      BY DEF TypeInv, TypeOK, JoinOK
    <3> QED  BY <3>1, <3>2
  <2> QED
    BY <1>7, <2>4, <2>5 DEF SendTake, TypeInv, CacheOK, JoinOK, pubVars
<1>8. CASE SendWrite
  <2>1. sending.ts \in 0 .. (TsMod - 1)
    BY <1>8 DEF SendWrite, TypeInv, TypeOK, Stamped
  <2>2. TypeOK'
    BY <1>8, <2>1 DEF SendWrite, TypeInv, TypeOK, pubVars
  <2> QED
    BY <1>8, <2>2 DEF SendWrite, TypeInv, CacheOK, JoinOK, pubVars
<1>9. CASE UNCHANGED vars
  BY <1>9 DEF vars, pubVars, tsVars, history, TypeInv, TypeOK, CacheOK, JoinOK
<1> QED
  BY <1>1, <1>2, <1>3, <1>4, <1>5, <1>6, <1>7, <1>8, <1>9 DEF Next

\* The types hold at the start.
LEMMA TypeInit == Init => TypeInv
<1> SUFFICES ASSUME Init PROVE TypeInv
  OBVIOUS
<1>1. TypeOK
  <2>1. \A S : <<>> \in Seq(S) /\ Len(<<>>) = 0
    OBVIOUS
  <2>2. 1 \in Pubs /\ 0 \in 0 .. MaxPkts /\ 0 \in 0 .. (TsMod - 1) /\ 0 <= PktCap /\ 0 <= QCap
    BY RelayAssumption DEF Pubs
  <2>3. held \in Packet \cup {None} /\ sending \in Stamped \cup {Idle}
    BY DEF Init
  <2>4. {keyframeNeed, drained} \subseteq BOOLEAN /\ keyDue \in BOOLEAN
    BY DEF Init
  <2>5. {base, lastVideo, lastAudio, lastOut} \subseteq 0 .. (TsMod - 1)
    BY <2>2 DEF Init
  <2>6. pktChan = <<>> /\ queue = <<>> /\ batch = <<>>
    BY DEF Init
  <2>7. /\ pktChan \in Seq(Packet) /\ Len(pktChan) <= PktCap
        /\ queue \in Seq(Packet) /\ Len(queue) <= QCap /\ batch \in Seq(Packet)
    BY <2>1, <2>2, <2>6
  <2> QED  BY <2>2, <2>3, <2>4, <2>5, <2>7 DEF Init, TypeOK
<1>2. CacheOK
  BY DEF Init, CacheOK, NewCache, Field
<1>3. JoinOK
  BY ReadKindsGrow DEF Init, JoinOK
<1> QED  BY <1>1, <1>2, <1>3 DEF TypeInv, Init

\* Every variable keeps its type, pktChan and the player's queue their capacity, and
\* Cache.Send always finds room for what the cache holds (Write, Cache.Send, SendPacket).
THEOREM TypeCorrect == Spec => []TypeOK
<1>1. Spec => []TypeInv
  BY TypeInit, TypeStep, PTL DEF Spec
<1>2. TypeInv => TypeOK
  BY DEF TypeInv
<1> QED  BY <1>1, <1>2, PTL

-----------------------------------------------------------------------------
(* The two sequences a packet goes through *)

\* What a drop of a packet costs, by its kind.
LEMMA LossIs ==
  ASSUME NEW p \in Packet
  PROVE  /\ p.kind \in {"vseq", "aseq"} => Loss(p) = {<<p.kind, p.pub>>}
         /\ p.kind = "key" => Loss(p) = {<<"key", p.pub, p.gop>>}
         /\ p.kind \notin {"vseq", "aseq", "key"} => Loss(p) = {}
  BY DEF Loss

\* Nothing happens to what the player has been sent.
LEMMA BeforeSame ==
  ASSUME UNCHANGED <<seen, sending, queue>>
  PROVE  (\A i : Before(i)' = Before(i)) /\ Given' = Given
  BY DEF Before, Given

\* SendPacket takes the head of the queue: every place moves up by one.
LEMMA BeforeTake ==
  ASSUME TypeOK, SendTake
  PROVE  /\ queue \in Seq(Packet) /\ queue' \in Seq(Packet) /\ Len(queue') = Len(queue) - 1
         /\ \A i \in 1 .. Len(queue') : queue'[i] = queue[i + 1]
         /\ \A i \in 1 .. Len(queue) : Before(i)' = Before(i + 1)
         /\ Given' = Given
<1>1. /\ queue \in Seq(Packet) /\ queue # <<>> /\ queue' = Tail(queue)
      /\ sending = Idle /\ seen' = seen /\ sending'.pkt = Head(queue)
  BY DEF SendTake, TypeOK, history
<1>2. Head(queue) = queue[1] /\ queue[1] \in Packet /\ Len(queue) \in Nat /\ Len(queue) >= 1
  BY <1>1
<1>3. sending' # Idle
  BY <1>1, <1>2, NoneIsNoPacket DEF Idle
<1>4. /\ queue' \in Seq(Packet) /\ Len(queue') = Len(queue) - 1
      /\ \A i \in 1 .. Len(queue') : queue'[i] = queue[i + 1]
  BY <1>1, <1>2
<1>5. ASSUME NEW i \in 1 .. Len(queue)  PROVE Before(i)' = Before(i + 1)
  <2>1. UNION {Loss(queue[j]) : j \in 1 .. i} =
          Loss(queue[1]) \cup UNION {Loss(queue'[j]) : j \in 1 .. (i - 1)}
    <3>1. \A j \in 1 .. i : j = 1 \/ (j - 1 \in 1 .. (i - 1) /\ queue[j] = queue'[j - 1])
      BY <1>2, <1>4, <1>5
    <3>2. \A j \in 1 .. (i - 1) : j + 1 \in 1 .. i /\ queue'[j] = queue[j + 1]
      BY <1>2, <1>4, <1>5
    <3>3. 1 \in 1 .. i
      BY <1>2, <1>5
    <3> QED  BY <3>1, <3>2, <3>3
  <2>2. Before(i)' = seen \cup Loss(queue[1]) \cup UNION {Loss(queue'[j]) : j \in 1 .. (i - 1)}
    BY <1>1, <1>2, <1>3 DEF Before, Loss
  <2>3. Before(i + 1) = seen \cup UNION {Loss(queue[j]) : j \in 1 .. i}
    <3>1. (i + 1) - 1 = i
      BY <1>2, <1>5
    <3> QED  BY <1>1, <3>1 DEF Before
  <2> QED  BY <2>1, <2>2, <2>3
<1>6. Given' = Given
  <2>1. Len(queue') + 1 = Len(queue) /\ Len(queue) \in 1 .. Len(queue)
    BY <1>2, <1>4
  <2> QED  BY <2>1, <1>5 DEF Given
<1> QED  BY <1>1, <1>4, <1>5, <1>6

\* SendPacket writes what it took.
LEMMA BeforeWrite ==
  ASSUME TypeOK, SendWrite
  PROVE  queue' = queue /\ (\A i : Before(i)' = Before(i)) /\ Given' = Given
<1>1. queue' = queue /\ sending # Idle /\ sending' = Idle /\ seen' = seen \cup Loss(sending.pkt)
  BY DEF SendWrite
<1>2. \A i : Before(i)' = Before(i)
  <2> TAKE i
  <2>1. Before(i)' = (seen \cup Loss(sending.pkt)) \cup UNION {Loss(queue[j]) : j \in 1 .. (i - 1)}
    BY <1>1 DEF Before, Loss
  <2>2. Before(i) = (seen \cup Loss(sending.pkt)) \cup UNION {Loss(queue[j]) : j \in 1 .. (i - 1)}
    BY <1>1 DEF Before
  <2> QED  BY <2>1, <2>2
<1> QED  BY <1>1, <1>2 DEF Given

\* StreamWriter.Write appends to the queue.
LEMMA BeforeAppend ==
  ASSUME TypeOK, NEW p \in Packet, queue' = Append(queue, p), UNCHANGED <<seen, sending>>
  PROVE  /\ \A i \in 1 .. (Len(queue) + 1) : Before(i)' = Before(i)
         /\ Given' = Given \cup Loss(p)
<1>1. /\ queue \in Seq(Packet) /\ Len(queue) \in Nat /\ Len(queue') = Len(queue) + 1
      /\ \A j \in 1 .. Len(queue) : queue'[j] = queue[j]
      /\ queue'[Len(queue) + 1] = p
  BY DEF TypeOK
<1> DEFINE S == seen \cup (IF sending = Idle THEN {} ELSE Loss(sending.pkt))
<1>2. \A i : Before(i)' = S \cup UNION {Loss(queue'[j]) : j \in 1 .. (i - 1)}
  BY DEF Before, Loss
<1>3. \A i : Before(i) = S \cup UNION {Loss(queue[j]) : j \in 1 .. (i - 1)}
  BY DEF Before
<1> HIDE DEF S
<1>4. ASSUME NEW i \in 1 .. (Len(queue) + 1)  PROVE Before(i)' = Before(i)
  <2>1. \A j \in 1 .. (i - 1) : queue'[j] = queue[j]
    BY <1>1, <1>4
  <2>2. {Loss(queue'[j]) : j \in 1 .. (i - 1)} = {Loss(queue[j]) : j \in 1 .. (i - 1)}
    BY <2>1
  <2> QED  BY <1>2, <1>3, <2>2
<1>5. Given' = Given \cup Loss(p)
  <2> DEFINE n == Len(queue)
  <2>1. n \in Nat /\ Len(queue') + 1 - 1 = n + 1 /\ n + 1 - 1 = n /\ Len(queue) = n
    BY <1>1
  <2>2. \A j \in 1 .. (n + 1) : (j \in 1 .. n /\ queue'[j] = queue[j]) \/ (j = n + 1 /\ queue'[j] = p)
    BY <1>1
  <2>3. \A j \in 1 .. n : j \in 1 .. (n + 1) /\ queue'[j] = queue[j]
    BY <1>1
  <2>4. n + 1 \in 1 .. (n + 1) /\ queue'[n + 1] = p
    BY <1>1
  <2> HIDE DEF n
  <2>5. UNION {Loss(queue'[j]) : j \in 1 .. (n + 1)} = Loss(p) \cup UNION {Loss(queue[j]) : j \in 1 .. n}
    <3>1. ASSUME NEW x \in UNION {Loss(queue'[j]) : j \in 1 .. (n + 1)}
          PROVE  x \in Loss(p) \cup UNION {Loss(queue[j]) : j \in 1 .. n}
      <4>1. PICK j \in 1 .. (n + 1) : x \in Loss(queue'[j])
        BY <3>1
      <4> QED  BY <4>1, <2>2
    <3>2. ASSUME NEW x \in Loss(p) \cup UNION {Loss(queue[j]) : j \in 1 .. n}
          PROVE  x \in UNION {Loss(queue'[j]) : j \in 1 .. (n + 1)}
      <4>1. x \in Loss(p) \/ \E j \in 1 .. n : x \in Loss(queue[j])
        BY <3>2
      <4>2. \E j \in 1 .. (n + 1) : x \in Loss(queue'[j])
        BY <4>1, <2>3, <2>4
      <4> QED  BY <4>2
    <3> QED  BY <3>1, <3>2
  <2>6. Given' = S \cup UNION {Loss(queue'[j]) : j \in 1 .. (n + 1)}
    BY <1>2, <2>1 DEF Given
  <2>7. Given = S \cup UNION {Loss(queue[j]) : j \in 1 .. n}
    <3>1. Given = Before(n + 1)
      BY <2>1 DEF Given
    <3> QED  BY <1>3, <2>1, <3>1
  <2> QED  BY <2>5, <2>6, <2>7
<1> QED  BY <1>4, <1>5

\* What the actions of startRead and of the loop do to Flow.
LEMMA FlowSteps ==
  ASSUME TypeInv
  PROVE  /\ Flow \in Seq(Packet)
         /\ \A kind \in Kinds : ReadPacket(kind) =>
              held' \in Packet /\ held'.kind = kind /\ held'.pub = pub /\ held'.gop = gop'
              /\ Flow' = Append(Flow, held')
         /\ Push => \/ Flow' = Flow /\ lost' = lost
                    \/ /\ held \in Packet /\ Flow = Append(Flow', held) /\ Flow' \in Seq(Packet)
                       /\ lost' = IF Missed(held) \/ held.kind = "key" THEN lost \cup Loss(held) ELSE lost
         /\ Takeover => Flow' = <<>>
         /\ Deliver => Flow # <<>> /\ Head(Flow) = Head(pktChan) /\ Flow' = Tail(Flow)
<1> USE NoneIsNoPacket
<1>1. /\ pktChan \in Seq(Packet) /\ held \in Packet \cup {None} /\ pub \in Pubs
      /\ gop \in 0 .. MaxPkts /\ count \in 0 .. MaxPkts /\ gop <= count
  BY DEF TypeInv, TypeOK
<1>2. Flow \in Seq(Packet)
  BY <1>1 DEF Flow
<1>3. ASSUME NEW kind \in Kinds, ReadPacket(kind)
      PROVE  held' \in Packet /\ held'.kind = kind /\ held'.pub = pub /\ held'.gop = gop'
             /\ Flow' = Append(Flow, held')
  <2>1. held' \in Packet /\ held'.kind = kind /\ held'.pub = pub /\ held'.gop = gop'
    BY <1>1, <1>3, RelayAssumption DEF ReadPacket, Packet
  <2> QED  BY <1>3, <2>1 DEF ReadPacket, Flow
<1>4. ASSUME Push
      PROVE  \/ Flow' = Flow /\ lost' = lost
             \/ /\ held \in Packet /\ Flow = Append(Flow', held) /\ Flow' \in Seq(Packet)
                /\ lost' = IF Missed(held) \/ held.kind = "key" THEN lost \cup Loss(held) ELSE lost
  BY <1>1, <1>4 DEF Push, Flow
<1>5. Takeover => Flow' = <<>>
  BY DEF Takeover, Flow
<1>6. ASSUME Deliver  PROVE Flow # <<>> /\ Head(Flow) = Head(pktChan) /\ Flow' = Tail(Flow)
  <2>1. pktChan # <<>> /\ pktChan' = Tail(pktChan) /\ held' = held
    BY <1>6 DEF Deliver
  <2>2. CASE held = None
    BY <2>1, <2>2 DEF Flow
  <2>3. CASE held # None
    <3>1. Flow = Append(pktChan, held) /\ Flow' = Append(Tail(pktChan), held)
      BY <2>1, <2>3 DEF Flow
    <3>2. held \in Packet
      BY <1>1, <2>3
    <3>3. Flow # <<>> /\ Head(Append(pktChan, held)) = Head(pktChan)
          /\ Tail(Append(pktChan, held)) = Append(Tail(pktChan), held)
      BY <1>1, <2>1, <3>1, <3>2
    <3> QED  BY <3>1, <3>3
  <2> QED  BY <2>2, <2>3
<1> QED  BY <1>2, <1>3, <1>4, <1>5, <1>6

-----------------------------------------------------------------------------
(* Groups of pictures *)

\* A packet more at the end of the flow changes nothing for those before it; if it is
\* no key frame the next one is covered as it was, and if it is the key frame it is.
LEMMA GopAppend ==
  ASSUME NEW f \in Seq(Packet), NEW p \in Packet, NEW b, NEW g, NEW w, NEW d, NEW G
  PROVE  LET C(q, i) == GopCovered(q, i, b, g, w, d, G)
             fp == Append(f, p) IN
         /\ \A i \in 1 .. (Len(f) + 1) : C(fp, i) <=> C(f, i)
         /\ ~FrameKey(p) => (C(fp, Len(f) + 2) <=> C(f, Len(f) + 1))
         /\ IsKey(p, b, g) => C(fp, Len(f) + 2)
         /\ C(fp, Len(f) + 2) /\ ~IsKey(p, b, g) => C(f, Len(f) + 1)
<1> DEFINE n == Len(f)
           fp == Append(f, p)
           C(q, i) == GopCovered(q, i, b, g, w, d, G)
<1>1. n \in Nat /\ fp[n + 1] = p /\ \A i \in 1 .. n : fp[i] = f[i]
  OBVIOUS
<1>2. (n + 1) - 1 = n /\ (n + 2) - 1 = n + 1 /\ Len(f) = n /\ Append(f, p) = fp
  BY <1>1
<1> HIDE DEF n, fp
<1>3. ASSUME NEW i \in 1 .. (n + 1)  PROVE C(fp, i) <=> C(f, i)
  <2>1. /\ \A j \in 1 .. (i - 1) : fp[j] = f[j]
        /\ \A j \in 1 .. (i - 1) : \A k \in (j + 1) .. (i - 1) : fp[k] = f[k]
    BY <1>1, <1>3
  <2> QED  BY <2>1 DEF GopCovered
<1>4. ASSUME ~FrameKey(p), C(f, n + 1)  PROVE C(fp, n + 2)
  <2>1. CASE \E j \in 1 .. n : IsKey(f[j], b, g) /\ \A k \in (j + 1) .. n : ~FrameKey(f[k])
    <3>1. PICK j \in 1 .. n : IsKey(f[j], b, g) /\ \A k \in (j + 1) .. n : ~FrameKey(f[k])
      BY <2>1
    <3>2. j \in 1 .. (n + 1) /\ IsKey(fp[j], b, g)
      BY <1>1, <3>1
    <3>3. \A k \in (j + 1) .. (n + 1) : k = n + 1 \/ (k \in (j + 1) .. n /\ k \in 1 .. n)
      BY <1>1
    <3>4. \A k \in (j + 1) .. (n + 1) : ~FrameKey(fp[k])
      BY <1>1, <1>4, <3>1, <3>3
    <3> QED  BY <1>2, <3>2, <3>4 DEF GopCovered
  <2>2. CASE (\A k \in 1 .. n : ~FrameKey(f[k])) /\ (w \/ <<"key", b, g>> \in G)
    <3>1. \A k \in 1 .. (n + 1) : k = n + 1 \/ k \in 1 .. n
      BY <1>1
    <3>2. \A k \in 1 .. (n + 1) : ~FrameKey(fp[k])
      BY <1>1, <1>4, <2>2, <3>1
    <3> QED  BY <1>2, <2>2, <3>2 DEF GopCovered
  <2> QED  BY <1>2, <1>4, <2>1, <2>2 DEF GopCovered
<1>5. ASSUME IsKey(p, b, g)  PROVE C(fp, n + 2)
  <2>1. n + 1 \in 1 .. (n + 1) /\ \A k \in ((n + 1) + 1) .. (n + 1) : FALSE
    BY <1>1
  <2> QED  BY <1>1, <1>2, <1>5, <2>1 DEF GopCovered
<1>6. ASSUME C(fp, n + 2), ~IsKey(p, b, g)  PROVE C(f, n + 1)
  <2>1. n + 1 \in 1 .. (n + 1) /\ \A k \in 1 .. n : k \in 1 .. (n + 1)
    BY <1>1
  <2>2. CASE \E j \in 1 .. (n + 1) : IsKey(fp[j], b, g) /\ \A k \in (j + 1) .. (n + 1) : ~FrameKey(fp[k])
    <3>1. PICK j \in 1 .. (n + 1) : IsKey(fp[j], b, g) /\ \A k \in (j + 1) .. (n + 1) : ~FrameKey(fp[k])
      BY <2>2
    <3>2. j \in 1 .. n
      BY <1>1, <1>6, <3>1
    <3>3. \A k \in (j + 1) .. n : k \in (j + 1) .. (n + 1) /\ k \in 1 .. n
      BY <1>1, <3>2
    <3> QED  BY <1>1, <1>2, <3>1, <3>2, <3>3 DEF GopCovered
  <2>3. CASE (\A k \in 1 .. (n + 1) : ~FrameKey(fp[k])) /\ (w \/ <<"key", b, g>> \in G)
    BY <1>1, <1>2, <2>1, <2>3 DEF GopCovered
  <2> QED  BY <1>2, <1>6, <2>2, <2>3 DEF GopCovered
<1>7. FrameKey(p) \/ ~IsKey(p, b, g)
  BY DEF FrameKey, IsKey
<1> QED  BY <1>2, <1>3, <1>4, <1>5, <1>6, <1>7

\* The head of the flow is delivered: if it is a key frame, what depended on it is
\* covered by the player's having it or waiting.
LEMMA GopTail ==
  ASSUME NEW f \in Seq(Packet), f # <<>>, NEW i \in 2 .. (Len(f) + 1), NEW b, NEW g,
         NEW w, NEW d, NEW G, NEW w2, NEW G2,
         GopCovered(f, i, b, g, w, d, G),
         FrameKey(f[1]) => w2 \/ (IsKey(f[1], b, g) => <<"key", b, g>> \in G2),
         ~FrameKey(f[1]) => (w => w2) /\ G \subseteq G2
  PROVE  GopCovered(Tail(f), i - 1, b, g, w2, d, G2)
<1> DEFINE t == Tail(f)
           m == i - 1
<1>1. /\ Len(f) \in Nat /\ m \in Nat /\ m >= 1 /\ m <= Len(f) /\ 1 \in 1 .. m
      /\ \A k \in 1 .. (m - 1) : t[k] = f[k + 1] /\ k + 1 \in 1 .. m
  OBVIOUS
<1>2. Tail(f) = t /\ i - 1 = m
  OBVIOUS
<1> HIDE DEF t, m
<1>3. CASE \E j \in 1 .. m : IsKey(f[j], b, g) /\ \A k \in (j + 1) .. m : ~FrameKey(f[k])
  <2>1. PICK j \in 1 .. m : IsKey(f[j], b, g) /\ \A k \in (j + 1) .. m : ~FrameKey(f[k])
    BY <1>3
  <2>2. CASE j = 1
    <3>1. FrameKey(f[1])
      BY <2>1, <2>2 DEF IsKey, FrameKey
    <3>2. \A k \in 1 .. (m - 1) : k + 1 \in (j + 1) .. m
      BY <1>1, <2>2
    <3>3. \A k \in 1 .. (m - 1) : ~FrameKey(t[k])
      BY <1>1, <2>1, <3>2
    <3> QED  BY <1>2, <2>1, <2>2, <3>1, <3>3 DEF GopCovered
  <2>3. CASE j # 1
    <3>1. j - 1 \in 1 .. (m - 1) /\ (j - 1) + 1 = j
      BY <1>1, <2>3
    <3>2. \A k \in ((j - 1) + 1) .. (m - 1) : k \in 1 .. (m - 1) /\ k + 1 \in (j + 1) .. m
      BY <1>1, <2>3
    <3>3. IsKey(t[j - 1], b, g) /\ \A k \in ((j - 1) + 1) .. (m - 1) : ~FrameKey(t[k])
      BY <1>1, <2>1, <3>1, <3>2
    <3> QED  BY <1>2, <3>1, <3>3 DEF GopCovered
  <2> QED  BY <2>2, <2>3
<1>4. CASE (\A k \in 1 .. m : ~FrameKey(f[k])) /\ (w \/ <<"key", b, g>> \in G)
  <2>1. \A k \in 1 .. (m - 1) : ~FrameKey(t[k])
    BY <1>1, <1>4
  <2> QED  BY <1>1, <1>2, <1>4, <2>1 DEF GopCovered
<1> QED  BY <1>2, <1>3, <1>4 DEF GopCovered

\* A step that leaves Flow alone and takes nothing from the player covers what was covered.
LEMMA GopKept ==
  ASSUME GopInv, UNCHANGED <<Flow, pub, gop, keyDue, keyframeNeed>>,
         lost' = lost, keyframeNeed \/ Given' = Given
  PROVE  GopInv'
<1>1. \A f, i, b, g : GopCovered(f, i, b, g, keyframeNeed, lost, Given)
                        => GopCovered(f, i, b, g, keyframeNeed, lost, Given')
  BY DEF GopCovered
<1> QED  BY <1>1 DEF GopInv

\* Every action keeps the frames on their way covered by their key frames.
LEMMA GopStep == TypeInv /\ GopInv /\ [Next]_vars => GopInv'
<1> SUFFICES ASSUME TypeInv, GopInv, [Next]_vars  PROVE GopInv'
  OBVIOUS
<1> DEFINE n == Len(Flow)
<1>0. Flow \in Seq(Packet) /\ n \in Nat /\ DOMAIN Flow = 1 .. n
  BY FlowSteps
<1>1. ASSUME NEW kind \in Kinds, ReadPacket(kind)  PROVE GopInv'
  <2> DEFINE p == held'
             C(f, i, b, g) == GopCovered(f, i, b, g, keyframeNeed, lost, Given)
  <2>1. p \in Packet /\ p.kind = kind /\ p.pub = pub /\ p.gop = gop' /\ Flow' = Append(Flow, p)
    BY <1>1, FlowSteps
  <2>2. /\ Len(Flow') = n + 1 /\ DOMAIN Flow' = 1 .. (n + 1) /\ Len(Flow') + 1 = n + 2
        /\ Flow'[n + 1] = p /\ \A i \in 1 .. n : Flow'[i] = Flow[i]
    BY <1>0, <2>1
  <2>3. Given' = Given /\ UNCHANGED <<lost, keyframeNeed, pub>>
    BY <1>1, BeforeSame DEF ReadPacket, history
  <2>4. /\ \A b, g : \A i \in 1 .. (n + 1) : C(Flow, i, b, g) => C(Flow', i, b, g)
        /\ \A b, g : ~FrameKey(p) /\ C(Flow, n + 1, b, g) => C(Flow', n + 2, b, g)
        /\ \A b, g : IsKey(p, b, g) => C(Flow', n + 2, b, g)
    BY <1>0, <2>1, GopAppend
  <2>5. GopInv' <=>
          /\ \A i \in DOMAIN Flow' : Flow'[i].kind = "inter" => C(Flow', i, Flow'[i].pub, Flow'[i].gop)
          /\ gop' > 0 /\ ~keyDue' => C(Flow', n + 2, pub, gop')
    BY <2>2, <2>3 DEF GopInv
  <2>6. /\ \A i \in 1 .. n : Flow[i].kind = "inter" => C(Flow, i, Flow[i].pub, Flow[i].gop)
        /\ gop > 0 /\ ~keyDue => C(Flow, n + 1, pub, gop)
    BY <1>0 DEF GopInv
  <2>7. /\ kind = "inter" => gop' = gop /\ gop > 0 /\ ~keyDue
        /\ ~keyDue' => kind # "vseq"
        /\ kind # "key" => gop' = gop
        /\ ~keyDue' /\ kind # "key" => ~keyDue
    BY <1>1 DEF ReadPacket, MaySend, Video
  <2>8. kind \in {"vseq", "key"} <=> FrameKey(p)
    BY <2>1 DEF FrameKey
  <2>9. kind = "key" => IsKey(p, pub, gop')
    BY <2>1 DEF IsKey
  <2> HIDE DEF n, p, C
  <2>10. ASSUME NEW i \in DOMAIN Flow', Flow'[i].kind = "inter"
         PROVE  C(Flow', i, Flow'[i].pub, Flow'[i].gop)
    <3>1. CASE i \in 1 .. n
      BY <1>0, <2>2, <2>4, <2>6, <2>10, <3>1
    <3>2. CASE i = n + 1
      BY <1>0, <2>1, <2>2, <2>4, <2>6, <2>7, <2>10, <3>2
    <3> QED  BY <1>0, <2>2, <2>10, <3>1, <3>2
  <2>11. ASSUME gop' > 0, ~keyDue'  PROVE C(Flow', n + 2, pub, gop')
    BY <2>4, <2>6, <2>7, <2>8, <2>9, <2>11
  <2> QED  BY <2>5, <2>10, <2>11
<1>2. CASE Push
  <2>1. Given' = Given /\ UNCHANGED <<pub, gop, keyDue, keyframeNeed>>
    BY <1>2, BeforeSame DEF Push, pubVars
  <2>2. CASE Flow' = Flow /\ lost' = lost
    BY <2>1, <2>2, GopKept
  <2>3. CASE /\ held \in Packet /\ Flow = Append(Flow', held) /\ Flow' \in Seq(Packet)
             /\ lost' = IF Missed(held) \/ held.kind = "key" THEN lost \cup Loss(held) ELSE lost
    <3> DEFINE C(f, i, b, g) == GopCovered(f, i, b, g, keyframeNeed, lost, Given)
               D(f, i, b, g) == GopCovered(f, i, b, g, keyframeNeed, lost', Given)
               m == Len(Flow')
    <3>1. /\ m \in Nat /\ n = m + 1 /\ DOMAIN Flow' = 1 .. m
          /\ \A i \in 1 .. m : Flow'[i] = Flow[i]
      BY <2>3
    <3>2. \A f, i, b, g : C(f, i, b, g) => D(f, i, b, g)
      BY <2>3 DEF GopCovered
    <3>3. /\ \A b, g : \A i \in 1 .. (m + 1) : C(Flow, i, b, g) => C(Flow', i, b, g)
          /\ \A b, g : C(Flow, m + 2, b, g) /\ ~IsKey(held, b, g) => C(Flow', m + 1, b, g)
      BY <2>3, GopAppend
    <3>4. \A b, g : IsKey(held, b, g) => <<"key", b, g>> \in lost'
      BY <2>3, LossIs DEF IsKey
    <3>5. \A i, b, g : IsKey(held, b, g) => D(Flow', i, b, g)
      BY <3>4 DEF GopCovered
    <3>6. GopInv' <=>
            /\ \A i \in 1 .. m : Flow'[i].kind = "inter" => D(Flow', i, Flow'[i].pub, Flow'[i].gop)
            /\ gop > 0 /\ ~keyDue => D(Flow', m + 1, pub, gop)
      BY <2>1, <3>1 DEF GopInv
    <3>7. /\ \A i \in 1 .. n : Flow[i].kind = "inter" => C(Flow, i, Flow[i].pub, Flow[i].gop)
          /\ gop > 0 /\ ~keyDue => C(Flow, n + 1, pub, gop)
      BY <1>0 DEF GopInv
    <3> HIDE DEF n, C, D, m
    <3>8. ASSUME NEW i \in 1 .. m, Flow'[i].kind = "inter"  PROVE D(Flow', i, Flow'[i].pub, Flow'[i].gop)
      <4>1. i \in 1 .. n /\ i \in 1 .. (m + 1)
        BY <3>1
      <4> QED  BY <3>1, <3>2, <3>3, <3>7, <3>8, <4>1
    <3>9. gop > 0 /\ ~keyDue => D(Flow', m + 1, pub, gop)
      <4>1. n + 1 = m + 2
        BY <3>1
      <4> QED  BY <3>2, <3>3, <3>5, <3>7, <4>1
    <3> QED  BY <3>6, <3>8, <3>9
  <2> QED  BY <1>2, <2>2, <2>3, FlowSteps
<1>3. CASE Takeover
  <2>1. Flow' = <<>> /\ gop' = 0
    BY <1>3, FlowSteps DEF Takeover
  <2>2. DOMAIN Flow' = {}
    BY <2>1
  <2> QED  BY <2>1, <2>2 DEF GopInv
<1>4. CASE ReadCache
  BY <1>4, GopKept, BeforeSame DEF ReadCache, pubVars, history, Flow
<1>5. CASE Join
  <2>1. keyframeNeed
    BY <1>5 DEF Join, TypeInv, JoinOK
  <2> QED  BY <1>5, <2>1, GopKept DEF Join, pubVars, history, Flow
<1>6. CASE Deliver
  <2> DEFINE p == Flow[1]
             C(f, i, b, g) == GopCovered(f, i, b, g, keyframeNeed, lost, Given)
             D(f, i, b, g) == GopCovered(f, i, b, g, keyframeNeed', lost, Given')
             E(f, i, b, g) == GopCovered(f, i, b, g, keyframeNeed', lost', Given')
  <2>1. Flow # <<>> /\ Flow' = Tail(Flow) /\ p = Head(pktChan) /\ p \in Packet
    <3>1. Flow # <<>> /\ Flow' = Tail(Flow) /\ Head(Flow) = Head(pktChan)
      BY <1>6, FlowSteps
    <3>2. Head(Flow) = p /\ p \in Packet
      BY <1>0, <3>1
    <3> QED  BY <3>1, <3>2
  <2>2. /\ n \in Nat \ {0} /\ Len(Flow') = n - 1 /\ DOMAIN Flow' = 1 .. (n - 1)
        /\ \A i \in 1 .. (n - 1) : Flow'[i] = Flow[i + 1]
    BY <1>0, <2>1
  <2>3. lost \subseteq lost' /\ UNCHANGED <<pub, gop, keyDue>>
    BY <1>6 DEF Deliver, pubVars
  <2>4. /\ FrameKey(p) => keyframeNeed' \/ \A b, g : IsKey(p, b, g) => <<"key", b, g>> \in Given'
        /\ ~FrameKey(p) => (keyframeNeed => keyframeNeed') /\ Given \subseteq Given'
    <3>1. CASE Joined
      <4>1. keyframeNeed' = NeedAfterWrite(p) /\ queue' = QueueAfterWrite(p) /\ UNCHANGED <<seen, sending>>
        BY <1>6, <2>1, <3>1 DEF Deliver
      <4>2. CASE queue' = queue
        <5>1. Given' = Given
          BY <4>1, <4>2, BeforeSame
        <5>2. FrameKey(p) => keyframeNeed'
          <6>1. Append(queue, p) # queue
            <7>1. queue \in Seq(Packet)
              BY DEF TypeInv, TypeOK
            <7> QED  BY <7>1, <2>1
          <6>2. FrameKey(p) => Video(p)
            BY DEF FrameKey, Video
          <6> QED  BY <4>1, <4>2, <6>1, <6>2 DEF QueueAfterWrite, NeedAfterWrite, Unwanted
        <5>3. ~FrameKey(p) => (keyframeNeed => keyframeNeed')
          BY <4>1 DEF NeedAfterWrite
        <5> QED  BY <5>1, <5>2, <5>3
      <4>3. CASE queue' = Append(queue, p)
        <5>1. Given' = Given \cup Loss(p)
          BY <2>1, <4>1, <4>3, BeforeAppend DEF TypeInv
        <5>2. \A b, g : IsKey(p, b, g) => <<"key", b, g>> \in Loss(p)
          BY <2>1, LossIs DEF IsKey
        <5>3. ~FrameKey(p) => (keyframeNeed => keyframeNeed')
          BY <4>1 DEF NeedAfterWrite
        <5> QED  BY <5>1, <5>2, <5>3
      <4> QED  BY <4>1, <4>2, <4>3 DEF QueueAfterWrite
    <3>2. CASE ~Joined
      <4>1. keyframeNeed
        BY <1>6, <3>2 DEF TypeInv, TypeOK, JoinOK, Joined
      <4>2. keyframeNeed' = keyframeNeed /\ Given' = Given
        BY <1>6, <3>2, BeforeSame DEF Deliver
      <4> QED  BY <4>1, <4>2
    <3> QED  BY <3>1, <3>2
  <2>5. \A b, g : \A i \in 2 .. (n + 1) : C(Flow, i, b, g) => D(Flow', i - 1, b, g)
    BY <1>0, <2>1, <2>4, GopTail
  <2>6. \A f, i, b, g : D(f, i, b, g) => E(f, i, b, g)
    BY <2>3 DEF GopCovered
  <2>7. GopInv' <=>
          /\ \A i \in 1 .. (n - 1) : Flow'[i].kind = "inter" => E(Flow', i, Flow'[i].pub, Flow'[i].gop)
          /\ gop > 0 /\ ~keyDue => E(Flow', (n - 1) + 1, pub, gop)
    BY <2>2, <2>3 DEF GopInv
  <2>8. /\ \A i \in 1 .. n : Flow[i].kind = "inter" => C(Flow, i, Flow[i].pub, Flow[i].gop)
        /\ gop > 0 /\ ~keyDue => C(Flow, n + 1, pub, gop)
    BY <1>0 DEF GopInv
  <2> HIDE DEF n, C, D, E, p
  <2>9. ASSUME NEW i \in 1 .. (n - 1), Flow'[i].kind = "inter"
        PROVE  E(Flow', i, Flow'[i].pub, Flow'[i].gop)
    <3>1. i + 1 \in 1 .. n /\ i + 1 \in 2 .. (n + 1) /\ (i + 1) - 1 = i
      BY <2>2
    <3>2. C(Flow, i + 1, Flow'[i].pub, Flow'[i].gop)
      BY <2>2, <2>8, <2>9, <3>1
    <3>3. D(Flow', (i + 1) - 1, Flow'[i].pub, Flow'[i].gop)
      BY <2>5, <3>1, <3>2
    <3> QED  BY <2>6, <3>1, <3>3
  <2>10. ASSUME gop > 0, ~keyDue  PROVE E(Flow', (n - 1) + 1, pub, gop)
    <3>1. n + 1 \in 2 .. (n + 1) /\ (n + 1) - 1 = (n - 1) + 1
      BY <2>2
    <3>2. D(Flow', (n + 1) - 1, pub, gop)
      BY <2>5, <2>8, <2>10, <3>1
    <3> QED  BY <2>6, <3>1, <3>2
  <2> QED  BY <2>7, <2>9, <2>10
<1>7. CASE SendTake
  BY <1>7, GopKept, BeforeTake DEF SendTake, pubVars, history, Flow, TypeInv
<1>8. CASE SendWrite
  BY <1>8, GopKept, BeforeWrite DEF SendWrite, pubVars, Flow, TypeInv
<1>9. CASE UNCHANGED vars
  BY <1>9, GopKept, BeforeSame DEF vars, pubVars, history, Flow
<1> QED
  BY <1>1, <1>2, <1>3, <1>4, <1>5, <1>6, <1>7, <1>8, <1>9 DEF Next

\* What is delivered to the queue follows its key frame.
LEMMA GopIntactStep == TypeInv /\ GopInv /\ GopIntact /\ [Next]_vars => GopIntact'
<1> SUFFICES ASSUME TypeInv, GopInv, GopIntact, [Next]_vars  PROVE GopIntact'
  OBVIOUS
<1> DEFINE Kept(q, i, B, L) == q[i].kind = "inter" => <<"key", q[i].pub, q[i].gop>> \in B \cup L
<1>0. /\ queue \in Seq(Packet) /\ Len(queue) \in Nat /\ DOMAIN queue = 1 .. Len(queue)
      /\ \A i \in DOMAIN queue : Kept(queue, i, Before(i), lost)
  BY DEF TypeInv, TypeOK, GopIntact
<1>1. ASSUME UNCHANGED <<queue, seen, sending>>, lost \subseteq lost'  PROVE GopIntact'
  BY <1>1, BeforeSame DEF GopIntact
<1>2. ASSUME NEW kind \in Kinds, ReadPacket(kind)  PROVE GopIntact'
  BY <1>1, <1>2 DEF ReadPacket, history
<1>3. CASE Push
  BY <1>1, <1>3 DEF Push
<1>4. CASE Takeover
  BY <1>1, <1>4 DEF Takeover
<1>5. CASE ReadCache
  BY <1>1, <1>5 DEF ReadCache, history
<1>6. CASE Join
  <2>1. queue = <<>> /\ cache.gop.gops = <<>> /\ batch \in Seq(Packet)
    BY <1>6 DEF Join, TypeInv, TypeOK, JoinOK, CacheOK, NewGopCache
  <2>2. queue' = batch
    BY <1>6, <2>1 DEF Join
  <2>3. \A i \in DOMAIN queue' : queue'[i].kind # "inter"
    BY <2>2 DEF TypeInv, JoinOK
  <2> QED  BY <2>3 DEF GopIntact
<1>7. CASE Deliver
  <2> DEFINE p == Head(pktChan)
  <2>1. /\ UNCHANGED <<seen, sending>> /\ lost \subseteq lost'
        /\ queue' = queue \/ (queue' = Append(queue, p) /\ ~Unwanted(p))
    BY <1>7 DEF Deliver, QueueAfterWrite
  <2>2. CASE queue' = queue
    BY <1>1, <2>1, <2>2
  <2>3. CASE queue' = Append(queue, p) /\ ~Unwanted(p)
    <3>1. Flow \in Seq(Packet) /\ Flow # <<>> /\ p = Flow[1] /\ 1 \in DOMAIN Flow /\ p \in Packet
      <4>1. Flow \in Seq(Packet) /\ Flow # <<>> /\ p = Head(Flow)
        BY <1>7, FlowSteps
      <4> QED  BY <4>1
    <3>2. p.kind = "inter" => <<"key", p.pub, p.gop>> \in Given \cup lost
      <4>1. ASSUME p.kind = "inter"  PROVE <<"key", p.pub, p.gop>> \in Given \cup lost
        <5>1. GopCovered(Flow, 1, p.pub, p.gop, keyframeNeed, lost, Given)
          BY <3>1, <4>1 DEF GopInv
        <5>2. ~keyframeNeed
          BY <2>3, <4>1 DEF Unwanted, Video, FrameKey
        <5> QED  BY <5>1, <5>2 DEF GopCovered
      <4> QED  BY <4>1
    <3>3. \A i \in 1 .. (Len(queue) + 1) : Before(i)' = Before(i)
      BY <2>1, <2>3, <3>1, BeforeAppend DEF TypeInv
    <3>4. /\ DOMAIN queue' = 1 .. (Len(queue) + 1) /\ queue'[Len(queue) + 1] = p
          /\ \A i \in 1 .. Len(queue) : queue'[i] = queue[i]
      BY <1>0, <2>3, <3>1
    <3> HIDE DEF p
    <3>5. ASSUME NEW i \in DOMAIN queue'  PROVE Kept(queue', i, Before(i)', lost')
      <4>1. CASE i \in 1 .. Len(queue)
        BY <1>0, <2>1, <3>3, <3>4, <4>1
      <4>2. CASE i = Len(queue) + 1
        <5>1. Before(i)' = Given
          BY <1>0, <3>3, <4>2 DEF Given
        <5> QED  BY <2>1, <3>2, <3>4, <4>2, <5>1
      <4> QED  BY <1>0, <3>4, <3>5, <4>1, <4>2
    <3> QED  BY <3>5 DEF GopIntact
  <2> QED  BY <2>1, <2>2, <2>3
<1>8. CASE SendTake
  <2>1. /\ queue' \in Seq(Packet) /\ Len(queue') = Len(queue) - 1
        /\ \A i \in 1 .. Len(queue') : queue'[i] = queue[i + 1]
        /\ \A i \in 1 .. Len(queue) : Before(i)' = Before(i + 1)
    BY <1>8, BeforeTake DEF TypeInv
  <2>2. lost' = lost
    BY <1>8 DEF SendTake, history
  <2>3. ASSUME NEW i \in DOMAIN queue'  PROVE Kept(queue', i, Before(i)', lost')
    <3>1. i \in 1 .. Len(queue') /\ i \in 1 .. Len(queue) /\ i + 1 \in DOMAIN queue
      BY <1>0, <2>1, <2>3
    <3> QED  BY <1>0, <2>1, <2>2, <3>1
  <2> QED  BY <2>3 DEF GopIntact
<1>9. CASE SendWrite
  BY <1>9, BeforeWrite DEF SendWrite, GopIntact, TypeInv
<1>10. CASE UNCHANGED vars
  BY <1>1, <1>10 DEF vars, history
<1> QED
  BY <1>2, <1>3, <1>4, <1>5, <1>6, <1>7, <1>8, <1>9, <1>10 DEF Next

\* An inter frame is in a player's queue only behind the key frame of its group, or when
\* pktChan dropped that key frame (StreamWriter.Write, keyframeNeed).
THEOREM GopCorrect == Spec => []GopIntact
<1> DEFINE Inv == TypeInv /\ GopInv /\ GopIntact
<1>1. Init => Inv
  <2>1. ASSUME Init  PROVE GopInv /\ GopIntact
    <3>1. Flow = <<>> /\ queue = <<>> /\ gop = 0
      BY <2>1 DEF Init, Flow
    <3>2. DOMAIN Flow = {} /\ DOMAIN queue = {}
      BY <3>1
    <3> QED  BY <3>1, <3>2 DEF GopInv, GopIntact
  <2> QED  BY <2>1, TypeInit
<1>2. Inv /\ [Next]_vars => Inv'
  BY TypeStep, GopStep, GopIntactStep
<1>3. Inv => GopIntact
  OBVIOUS
<1> HIDE DEF Inv
<1> QED  BY <1>1, <1>2, <1>3, PTL DEF Spec

-----------------------------------------------------------------------------
(* Sequence headers *)

\* A step that leaves Flow, the publisher, its headers and the cache alone covers what
\* was covered.
LEMMA HeaderKept ==
  ASSUME HeaderInv, UNCHANGED <<Flow, pub, headers, cache>>,
         \A h \in headers : Over(h) => Over(h)'
  PROVE  HeaderInv'
  BY DEF HeaderInv, HeaderCovered

\* What is with the player, or was dropped, stays so; Cache.Send loses nothing.
LEMMA OverKept ==
  ASSUME lost \subseteq lost', Given \subseteq Given', pub' = pub,
         UNCHANGED <<sent, batch>>
  PROVE  \A h : Over(h) => Over(h)'
  BY DEF Over, InCacheSend

\* Every action keeps the frames on their way covered by their headers.
LEMMA HeaderStep == TypeInv /\ HeaderInv /\ [Next]_vars => HeaderInv'
<1> SUFFICES ASSUME TypeInv, HeaderInv, [Next]_vars  PROVE HeaderInv'
  OBVIOUS
<1> DEFINE n == Len(Flow)
<1>0. /\ Flow \in Seq(Packet) /\ n \in Nat /\ DOMAIN Flow = 1 .. n
      /\ headers \subseteq {"vseq", "aseq"}
  BY FlowSteps DEF TypeInv, TypeOK
<1>1. ASSUME NEW kind \in Kinds, ReadPacket(kind)  PROVE HeaderInv'
  <2> DEFINE p == held'
  <2>1. p \in Packet /\ p.kind = kind /\ p.pub = pub /\ Flow' = Append(Flow, p)
    BY <1>1, FlowSteps
  <2>2. /\ Len(Flow') = n + 1 /\ DOMAIN Flow' = 1 .. (n + 1)
        /\ Flow'[n + 1] = p /\ \A i \in 1 .. n : Flow'[i] = Flow[i]
    BY <1>0, <2>1
  <2>3. pub' = pub /\ \A h : Over(h)' = Over(h)
    BY <1>1, BeforeSame DEF ReadPacket, history, Over, InCacheSend
  <2>4. headers' = headers \cup ({kind} \cap {"vseq", "aseq"})
    BY <1>1 DEF ReadPacket
  <2>5. \A h \in {"vseq", "aseq"} :
          CacheField(cache', Place(h)) = IF kind = h THEN p ELSE CacheField(cache, Place(h))
    <3>1. cache' = CacheWrite(cache, p)
      BY <1>1 DEF ReadPacket
    <3> QED  BY <2>1, <3>1, CacheWriteOK DEF TypeInv
  <2>6. \A h : Needs(p, h) => h \in headers
    BY <1>1, <2>1 DEF ReadPacket, MaySend, Needs, Media, HeaderOf
  <2>7. p # None
    BY <2>1, NoneIsNoPacket
  <2> HIDE DEF n, p
  <2>8. \A h : \A i \in 1 .. (n + 1) :
          HeaderCovered(Flow, i, h, Over(h)) => HeaderCovered(Flow', i, h, Over(h))
    <3>1. \A i \in 1 .. (n + 1) : \A j \in 1 .. (i - 1) : Flow'[j] = Flow[j]
      BY <1>0, <2>2
    <3> QED  BY <3>1 DEF HeaderCovered
  <2>9. \A h : HeaderCovered(Flow, n + 1, h, Over(h)) \/ kind = h
               => HeaderCovered(Flow', (n + 1) + 1, h, Over(h))
    <3>1. n + 1 \in 1 .. (((n + 1) + 1) - 1)
          /\ \A j \in 1 .. ((n + 1) - 1) : j \in 1 .. (((n + 1) + 1) - 1) /\ Flow'[j] = Flow[j]
      BY <1>0, <2>2
    <3> QED  BY <2>1, <2>2, <3>1 DEF HeaderCovered
  <2>10. ASSUME NEW i \in DOMAIN Flow'
         PROVE  /\ Flow'[i].pub = pub
                /\ \A h \in SeqHeaders : Needs(Flow'[i], h) =>
                     h \in headers /\ HeaderCovered(Flow', i, h, Over(h))
    <3>1. CASE i \in 1 .. n
      <4>1. Flow'[i] = Flow[i] /\ i \in DOMAIN Flow /\ i \in 1 .. (n + 1)
        BY <1>0, <2>2, <3>1
      <4> QED  BY <2>8, <4>1 DEF HeaderInv
    <3>2. CASE i = n + 1
      <4>1. Flow'[i] = p /\ i \in 1 .. (n + 1)
        BY <1>0, <2>2, <3>2
      <4>2. \A h \in headers : HeaderCovered(Flow, n + 1, h, Over(h))
        BY DEF HeaderInv, n
      <4> QED  BY <2>1, <2>6, <2>8, <3>2, <4>1, <4>2
    <3> QED  BY <1>0, <2>2, <2>10, <3>1, <3>2
  <2>11. ASSUME NEW h \in headers'
         PROVE  /\ HeaderCovered(Flow', (n + 1) + 1, h, Over(h))
                /\ CacheField(cache', Place(h)) # None
                /\ CacheField(cache', Place(h)).pub = pub
    <3>1. h \in {"vseq", "aseq"} /\ (h \in headers \/ kind = h)
      BY <1>0, <2>4
    <3>2. h \in headers => /\ HeaderCovered(Flow, n + 1, h, Over(h))
                            /\ CacheField(cache, Place(h)) # None
                            /\ CacheField(cache, Place(h)).pub = pub
      BY DEF HeaderInv, n
    <3>3. HeaderCovered(Flow', (n + 1) + 1, h, Over(h))
      BY <2>9, <3>1, <3>2
    <3> QED  BY <2>1, <2>5, <2>7, <3>1, <3>2, <3>3
  <2>12. headers \subseteq headers'
    BY <2>4
  <2> QED  BY <2>2, <2>3, <2>10, <2>11, <2>12 DEF HeaderInv
<1>2. CASE Push
  <2>1. /\ Given' = Given /\ lost \subseteq lost' /\ UNCHANGED <<pub, headers, cache, sent, batch>>
        /\ \A h : Over(h) => Over(h)'
    <3>1. Given' = Given /\ lost \subseteq lost' /\ UNCHANGED <<pub, headers, cache, sent, batch>>
      BY <1>2, BeforeSame DEF Push, pubVars
    <3> QED  BY <3>1, OverKept
  <2>2. CASE Flow' = Flow /\ lost' = lost
    BY <2>1, <2>2, HeaderKept
  <2>3. CASE /\ held \in Packet /\ Flow = Append(Flow', held) /\ Flow' \in Seq(Packet)
             /\ lost' = IF Missed(held) \/ held.kind = "key" THEN lost \cup Loss(held) ELSE lost
    <3> DEFINE m == Len(Flow')
    <3>1. /\ m \in Nat /\ n = m + 1 /\ DOMAIN Flow' = 1 .. m
          /\ Flow[n] = held /\ \A i \in 1 .. m : Flow'[i] = Flow[i]
      BY <2>3
    <3>2. \A h \in {"vseq", "aseq"} : held.kind = h => Over(h)'
      <4>1. held.pub = pub
        BY <1>0, <3>1 DEF HeaderInv
      <4>2. ASSUME NEW h \in {"vseq", "aseq"}, held.kind = h  PROVE Over(h)'
        <5>1. CASE Missed(held)
          BY <2>1, <2>3, <4>1, <4>2, <5>1, LossIs DEF Over
        <5>2. CASE ~Missed(held)
          <6>1. sent < Place(h)
            BY <4>2, <5>2 DEF Missed, Place, TypeInv, TypeOK
          <6> QED  BY <2>1, <6>1 DEF Over, InCacheSend
        <5> QED  BY <5>1, <5>2
      <4> QED  BY <4>2
    <3> HIDE DEF m, n
    <3>3. ASSUME NEW h, NEW i \in 1 .. m, HeaderCovered(Flow, i, h, Over(h))
          PROVE  HeaderCovered(Flow', i, h, Over(h)')
      <4>1. \A j \in 1 .. (i - 1) : Flow'[j] = Flow[j]
        BY <3>1
      <4> QED  BY <2>1, <3>3, <4>1 DEF HeaderCovered
    <3>4. ASSUME NEW h \in {"vseq", "aseq"}, HeaderCovered(Flow, n + 1, h, Over(h))
          PROVE  HeaderCovered(Flow', m + 1, h, Over(h)')
      <4>1. \A j \in 1 .. ((n + 1) - 1) : j = n \/ (j \in 1 .. ((m + 1) - 1) /\ Flow'[j] = Flow[j])
        BY <3>1
      <4> QED  BY <2>1, <3>1, <3>2, <3>4, <4>1 DEF HeaderCovered
    <3>5. ASSUME NEW i \in DOMAIN Flow'
          PROVE  /\ Flow'[i].pub = pub
                 /\ \A h \in SeqHeaders : Needs(Flow'[i], h) =>
                      h \in headers /\ HeaderCovered(Flow', i, h, Over(h)')
      <4>1. i \in 1 .. m /\ i \in DOMAIN Flow /\ Flow'[i] = Flow[i]
        BY <1>0, <3>1
      <4> QED  BY <3>3, <4>1 DEF HeaderInv
    <3>6. \A h \in headers : HeaderCovered(Flow', m + 1, h, Over(h)')
      <4>1. \A h \in headers : HeaderCovered(Flow, n + 1, h, Over(h))
        BY DEF HeaderInv, n
      <4> QED  BY <1>0, <3>4, <4>1
    <3>7. \A h \in headers : CacheField(cache, Place(h)) # None /\ CacheField(cache, Place(h)).pub = pub
      BY DEF HeaderInv
    <3> QED  BY <2>1, <3>5, <3>6, <3>7 DEF HeaderInv, m
  <2> QED  BY <1>2, <2>2, <2>3, FlowSteps
<1>3. CASE Takeover
  <2>1. Flow' = <<>> /\ headers' = {}
    BY <1>3, FlowSteps DEF Takeover
  <2>2. DOMAIN Flow' = {}
    BY <2>1
  <2> QED  BY <2>1, <2>2 DEF HeaderInv
<1>4. CASE ReadCache
  <2> DEFINE p == CacheField(cache, sent + 1)
  <2>1. /\ sent \in 0 .. 2 /\ sent' = sent + 1 /\ UNCHANGED <<Flow, pub, headers, cache, lost>>
        /\ Given' = Given /\ batch' = IF p = None THEN batch ELSE Append(batch, p)
    BY <1>4, BeforeSame DEF ReadCache, pubVars, history, Flow, TypeInv, TypeOK
  <2>2. p = None \/ p \in Packet
    BY <2>1 DEF CacheField, Field, TypeInv, CacheOK
  <2>3. batch \in Seq(Packet)
    BY DEF TypeInv, TypeOK
  <2>4. \A k \in DOMAIN batch : k \in DOMAIN batch' /\ batch'[k] = batch[k]
    BY <2>1, <2>2, <2>3
  <2>5. p # None => Len(batch) + 1 \in DOMAIN batch' /\ batch'[Len(batch) + 1] = p
    BY <2>1, <2>2, <2>3
  <2> HIDE DEF p
  <2>6. ASSUME NEW h \in headers, Over(h)  PROVE Over(h)'
    <3>1. CASE sent + 1 = Place(h)
      <4>1. p # None /\ p.pub = pub
        BY <3>1 DEF HeaderInv, p
      <4>2. p.kind = h
        BY <1>0, <3>1, <4>1 DEF p, CacheField, Place, Field, TypeInv, CacheOK
      <4> QED  BY <2>1, <2>5, <4>1, <4>2 DEF Over, InCacheSend
    <3>2. CASE sent + 1 # Place(h)
      <4>1. sent < Place(h) => sent' < Place(h)
        BY <2>1, <3>2 DEF Place
      <4> QED  BY <2>1, <2>4, <2>6, <4>1 DEF Over, InCacheSend
    <3> QED  BY <3>1, <3>2
  <2> QED  BY <2>1, <2>6, HeaderKept
<1>5. CASE Join
  <2>1. /\ queue = <<>> /\ cache.gop.gops = <<>> /\ batch \in Seq(Packet) /\ sent = 3 /\ sending = Idle
        /\ UNCHANGED <<Flow, pub, headers, cache, lost, seen, sending>> /\ sent' = 4
    BY <1>5 DEF Join, TypeInv, TypeOK, JoinOK, CacheOK, NewGopCache, pubVars, history, Flow
  <2>2. queue' = batch
    BY <1>5, <2>1 DEF Join
  <2>3. Given = seen
    <3>1. {Loss(queue[j]) : j \in 1 .. (Len(queue) + 1 - 1)} = {}
      BY <2>1
    <3> QED  BY <2>1, <3>1 DEF Given, Before
  <2>4. Given' = seen \cup UNION {Loss(batch[j]) : j \in 1 .. Len(batch)}
    <3>1. Len(batch) + 1 - 1 = Len(batch)
      BY <2>1
    <3>2. Given' = seen \cup UNION {Loss(batch[j]) : j \in 1 .. (Len(batch) + 1 - 1)}
      BY <2>1, <2>2 DEF Given, Before, Loss
    <3> QED  BY <3>1, <3>2
  <2>5. ASSUME NEW h \in headers, Over(h)  PROVE Over(h)'
    <3>1. CASE <<h, pub>> \in lost \/ <<h, pub>> \in Given
      BY <2>1, <2>3, <2>4, <3>1 DEF Over
    <3>2. CASE InCacheSend(h, pub)
      <4>1. PICK k \in DOMAIN batch : batch[k].kind = h /\ batch[k].pub = pub
        BY <1>0, <2>1, <3>2 DEF InCacheSend, Place
      <4>2. k \in 1 .. Len(batch) /\ batch[k] \in Packet
        BY <2>1, <4>1
      <4>3. <<h, pub>> \in Loss(batch[k])
        BY <1>0, <4>1, <4>2, LossIs
      <4>4. <<h, pub>> \in Given'
        BY <2>4, <4>2, <4>3
      <4> QED  BY <2>1, <4>4 DEF Over
    <3> QED  BY <2>5, <3>1, <3>2 DEF Over
  <2> QED  BY <2>1, <2>5, HeaderKept
<1>6. CASE Deliver
  <2> DEFINE p == Flow[1]
  <2>1. Flow # <<>> /\ Flow' = Tail(Flow) /\ p = Head(pktChan) /\ p \in Packet
    <3>1. Flow # <<>> /\ Flow' = Tail(Flow) /\ Head(Flow) = Head(pktChan)
      BY <1>6, FlowSteps
    <3>2. Head(Flow) = p /\ p \in Packet
      BY <1>0, <3>1
    <3> QED  BY <3>1, <3>2
  <2>2. /\ n \in Nat \ {0} /\ Len(Flow') = n - 1 /\ DOMAIN Flow' = 1 .. (n - 1)
        /\ \A i \in 1 .. (n - 1) : Flow'[i] = Flow[i + 1]
    BY <1>0, <2>1
  <2>3. lost \subseteq lost' /\ UNCHANGED <<pub, headers, cache, sent, batch>>
    BY <1>6 DEF Deliver, pubVars
  <2>4. Given \subseteq Given' /\ \A h \in SeqHeaders : p.kind = h => Over(h)'
    <3>1. CASE Joined
      <4>1. /\ queue' = QueueAfterWrite(p) /\ UNCHANGED <<seen, sending>>
            /\ lost' = IF Full THEN lost \cup (Loss(p) \ {<<"key", p.pub, p.gop>>}) ELSE lost
        BY <1>6, <2>1, <3>1 DEF Deliver
      <4>2. p.pub = pub
        BY <1>0, <2>2 DEF HeaderInv
      <4>3. ASSUME NEW h \in SeqHeaders, p.kind = h
            PROVE  ~Unwanted(p) /\ <<h, pub>> \in Loss(p) \ {<<"key", p.pub, p.gop>>}
        BY <2>1, <4>2, <4>3, LossIs DEF Unwanted, Video, FrameKey, SeqHeaders
      <4>4. CASE Unwanted(p) \/ Full
        <5>1. Given' = Given
          BY <4>1, <4>4, BeforeSame DEF QueueAfterWrite
        <5> QED  BY <2>3, <4>1, <4>3, <4>4, <5>1 DEF Over
      <4>5. CASE ~(Unwanted(p) \/ Full)
        <5>1. Given' = Given \cup Loss(p)
          BY <2>1, <4>1, <4>5, BeforeAppend DEF QueueAfterWrite, TypeInv
        <5> QED  BY <2>3, <4>3, <5>1 DEF Over
      <4> QED  BY <4>4, <4>5
    <3>2. CASE ~Joined
      <4>1. sent = 0 /\ Given' = Given
        BY <1>6, <3>2, BeforeSame DEF Deliver, AtSelect, Joined
      <4> QED  BY <2>3, <4>1 DEF Over, InCacheSend, Place
    <3> QED  BY <3>1, <3>2
  <2>5. \A h : Over(h) => Over(h)'
    BY <2>3, <2>4, OverKept
  <2> HIDE DEF n, p
  <2>6. ASSUME NEW h \in SeqHeaders, NEW i \in 1 .. n, HeaderCovered(Flow, i + 1, h, Over(h))
        PROVE  HeaderCovered(Flow', i, h, Over(h)')
    <3>1. \A j \in 1 .. ((i + 1) - 1) : j = 1 \/ (j - 1 \in 1 .. (i - 1) /\ Flow'[j - 1] = Flow[j])
      BY <2>2
    <3> QED  BY <2>4, <2>5, <2>6, <3>1 DEF HeaderCovered, p
  <2>7. ASSUME NEW i \in DOMAIN Flow'
        PROVE  /\ Flow'[i].pub = pub
               /\ \A h \in SeqHeaders : Needs(Flow'[i], h) =>
                    h \in headers /\ HeaderCovered(Flow', i, h, Over(h)')
    <3>1. i \in 1 .. n /\ i + 1 \in DOMAIN Flow /\ Flow'[i] = Flow[i + 1]
      BY <1>0, <2>2
    <3> QED  BY <2>6, <3>1 DEF HeaderInv
  <2>8. \A h \in headers : HeaderCovered(Flow', (n - 1) + 1, h, Over(h)')
    <3>1. \A h \in headers : HeaderCovered(Flow, n + 1, h, Over(h))
      BY DEF HeaderInv, n
    <3>2. (n - 1) + 1 = n /\ n \in 1 .. n
      BY <2>2
    <3> QED  BY <1>0, <2>6, <3>1, <3>2 DEF SeqHeaders
  <2>9. \A h \in headers : CacheField(cache, Place(h)) # None /\ CacheField(cache, Place(h)).pub = pub
    BY DEF HeaderInv
  <2> QED  BY <2>2, <2>3, <2>7, <2>8, <2>9 DEF HeaderInv
<1>7. CASE SendTake
  <2>1. Given' = Given /\ UNCHANGED <<Flow, pub, headers, cache, lost, sent, batch>>
    BY <1>7, BeforeTake DEF SendTake, pubVars, history, Flow, TypeInv
  <2> QED  BY <2>1, HeaderKept, OverKept
<1>8. CASE SendWrite
  <2>1. Given' = Given /\ UNCHANGED <<Flow, pub, headers, cache, lost, sent, batch>>
    BY <1>8, BeforeWrite DEF SendWrite, pubVars, Flow, TypeInv
  <2> QED  BY <2>1, HeaderKept, OverKept
<1>9. CASE UNCHANGED vars
  <2>1. Given' = Given /\ UNCHANGED <<Flow, pub, headers, cache, lost, sent, batch>>
    BY <1>9, BeforeSame DEF vars, pubVars, history, Flow
  <2> QED  BY <2>1, HeaderKept, OverKept
<1> QED
  BY <1>1, <1>2, <1>3, <1>4, <1>5, <1>6, <1>7, <1>8, <1>9 DEF Next

\* HeaderFirst, with the entries of the history themselves.
HeaderAhead ==
  \A i \in DOMAIN queue : \A h \in SeqHeaders :
    Needs(queue[i], h) => <<h, queue[i].pub>> \in Before(i) \cup lost

\* What is delivered to the queue follows its header.
LEMMA HeaderAheadStep == TypeInv /\ HeaderInv /\ HeaderAhead /\ [Next]_vars => HeaderAhead'
<1> SUFFICES ASSUME TypeInv, HeaderInv, HeaderAhead, [Next]_vars  PROVE HeaderAhead'
  OBVIOUS
<1> DEFINE Ahead(q, i, B, L) ==
             \A h \in SeqHeaders : Needs(q[i], h) => <<h, q[i].pub>> \in B \cup L
<1>0. /\ queue \in Seq(Packet) /\ Len(queue) \in Nat /\ DOMAIN queue = 1 .. Len(queue)
      /\ \A i \in DOMAIN queue : Ahead(queue, i, Before(i), lost)
  BY DEF TypeInv, TypeOK, HeaderAhead
<1>1. ASSUME UNCHANGED <<queue, seen, sending>>, lost \subseteq lost'  PROVE HeaderAhead'
  BY <1>1, BeforeSame DEF HeaderAhead
<1>2. ASSUME NEW kind \in Kinds, ReadPacket(kind)  PROVE HeaderAhead'
  BY <1>1, <1>2 DEF ReadPacket, history
<1>3. CASE Push
  BY <1>1, <1>3 DEF Push
<1>4. CASE Takeover
  BY <1>1, <1>4 DEF Takeover
<1>5. CASE ReadCache
  BY <1>1, <1>5 DEF ReadCache, history
<1>6. CASE Join
  <2>1. queue = <<>> /\ cache.gop.gops = <<>> /\ batch \in Seq(Packet)
    BY <1>6 DEF Join, TypeInv, TypeOK, JoinOK, CacheOK, NewGopCache
  <2>2. queue' = batch
    BY <1>6, <2>1 DEF Join
  <2>3. \A i \in DOMAIN queue' : ~Media(queue'[i])
    BY <2>2 DEF TypeInv, JoinOK, Media
  <2> QED  BY <2>3 DEF HeaderAhead, Needs
<1>7. CASE Deliver
  <2> DEFINE p == Head(pktChan)
  <2>1. /\ UNCHANGED <<seen, sending>> /\ lost \subseteq lost'
        /\ queue' = queue \/ (queue' = Append(queue, p) /\ sent = 4)
    BY <1>7 DEF Deliver, QueueAfterWrite, Joined
  <2>2. CASE queue' = queue
    BY <1>1, <2>1, <2>2
  <2>3. CASE queue' = Append(queue, p) /\ sent = 4
    <3>1. Flow \in Seq(Packet) /\ Flow # <<>> /\ p = Flow[1] /\ 1 \in DOMAIN Flow /\ p \in Packet
      <4>1. Flow \in Seq(Packet) /\ Flow # <<>> /\ p = Head(Flow)
        BY <1>7, FlowSteps
      <4> QED  BY <4>1
    <3>2. ASSUME NEW h \in SeqHeaders, Needs(p, h)  PROVE <<h, p.pub>> \in Given \cup lost
      <4>1. p.pub = pub /\ HeaderCovered(Flow, 1, h, Over(h))
        BY <3>1, <3>2 DEF HeaderInv
      <4>2. Over(h)
        BY <4>1 DEF HeaderCovered
      <4>3. batch = <<>>
        BY <2>3 DEF TypeInv, JoinOK
      <4>4. ~InCacheSend(h, pub)
        BY <2>3, <4>3 DEF InCacheSend, Place
      <4> QED  BY <4>1, <4>2, <4>4 DEF Over
    <3>3. \A i \in 1 .. (Len(queue) + 1) : Before(i)' = Before(i)
      BY <2>1, <2>3, <3>1, BeforeAppend DEF TypeInv
    <3>4. /\ DOMAIN queue' = 1 .. (Len(queue) + 1) /\ queue'[Len(queue) + 1] = p
          /\ \A i \in 1 .. Len(queue) : queue'[i] = queue[i]
      BY <1>0, <2>3, <3>1
    <3> HIDE DEF p
    <3>5. ASSUME NEW i \in DOMAIN queue'  PROVE Ahead(queue', i, Before(i)', lost')
      <4>1. CASE i \in 1 .. Len(queue)
        BY <1>0, <2>1, <3>3, <3>4, <4>1
      <4>2. CASE i = Len(queue) + 1
        <5>1. Before(i)' = Given
          BY <1>0, <3>3, <4>2 DEF Given
        <5> QED  BY <2>1, <3>2, <3>4, <4>2, <5>1
      <4> QED  BY <1>0, <3>4, <3>5, <4>1, <4>2
    <3> QED  BY <3>5 DEF HeaderAhead
  <2> QED  BY <2>1, <2>2, <2>3
<1>8. CASE SendTake
  <2>1. /\ queue' \in Seq(Packet) /\ Len(queue') = Len(queue) - 1
        /\ \A i \in 1 .. Len(queue') : queue'[i] = queue[i + 1]
        /\ \A i \in 1 .. Len(queue) : Before(i)' = Before(i + 1)
    BY <1>8, BeforeTake DEF TypeInv
  <2>2. lost' = lost
    BY <1>8 DEF SendTake, history
  <2>3. ASSUME NEW i \in DOMAIN queue'  PROVE Ahead(queue', i, Before(i)', lost')
    <3>1. i \in 1 .. Len(queue') /\ i \in 1 .. Len(queue) /\ i + 1 \in DOMAIN queue
      BY <1>0, <2>1, <2>3
    <3> QED  BY <1>0, <2>1, <2>2, <3>1
  <2> QED  BY <2>3 DEF HeaderAhead
<1>9. CASE SendWrite
  BY <1>9, BeforeWrite DEF SendWrite, HeaderAhead, TypeInv
<1>10. CASE UNCHANGED vars
  BY <1>1, <1>10 DEF vars, history
<1> QED
  BY <1>2, <1>3, <1>4, <1>5, <1>6, <1>7, <1>8, <1>9, <1>10 DEF Next

\* A frame is in a player's queue only behind the sequence header of its publisher, or
\* when a queue dropped that header (Cache.Write before the push, Cache.Send).
THEOREM HeaderCorrect == Spec => []HeaderFirst
<1> DEFINE Inv == TypeInv /\ HeaderInv /\ HeaderAhead
<1>1. Init => Inv
  <2>1. ASSUME Init  PROVE HeaderInv /\ HeaderAhead
    <3>1. Flow = <<>> /\ queue = <<>> /\ headers = {}
      BY <2>1 DEF Init, Flow
    <3>2. DOMAIN Flow = {} /\ DOMAIN queue = {}
      BY <3>1
    <3> QED  BY <3>1, <3>2 DEF HeaderInv, HeaderAhead
  <2> QED  BY <2>1, TypeInit
<1>2. Inv /\ [Next]_vars => Inv'
  BY TypeStep, HeaderStep, HeaderAheadStep
<1>3. Inv => HeaderFirst
  <2>1. \A S, h, b : <<h, b>> \in S => Has(S, h, b)
    BY DEF Has
  <2>2. ASSUME HeaderAhead, NEW i \in DOMAIN queue, Media(queue[i])
        PROVE  Has(Before(i) \cup lost, HeaderOf(queue[i]), queue[i].pub)
    <3>1. HeaderOf(queue[i]) \in SeqHeaders /\ Needs(queue[i], HeaderOf(queue[i]))
      BY <2>2 DEF HeaderOf, SeqHeaders, Needs
    <3>2. <<HeaderOf(queue[i]), queue[i].pub>> \in Before(i) \cup lost
      BY <2>2, <3>1 DEF HeaderAhead
    <3> QED  BY <2>1, <3>2
  <2> QED  BY <2>2 DEF HeaderFirst
<1> HIDE DEF Inv
<1> QED  BY <1>1, <1>2, <1>3, PTL DEF Spec

-----------------------------------------------------------------------------
(* Timestamps *)

\* Stamped with base b, nothing of the flow f, and nothing a publisher whose clock is
\* c is still to send, comes before x; ...
Due(x, f, b, c) == x <= c + b /\ \A k \in DOMAIN f : x <= f[k].ts + b

\* ... nor does what is in the queue q behind place i.
DueAfter(x, i, q, f, b, c) ==
  Due(x, f, b, c) /\ \A k \in DOMAIN q : k > i => x <= q[k].ts + b

\* A publisher's packets come in the order of its clock.
FlowOrdered(f, c) ==
  \A k \in DOMAIN f : f[k].ts <= c /\ \A j \in 1 .. k : f[j].ts <= f[k].ts

\* The clocks of all publishers together fit in a timestamp.
ClocksFit == MaxPubs * MaxPkts < TsMod

\* Over all publishers no timestamp has passed what they have sent, so none wraps.
NoWrap ==
  /\ base + MaxPkts <= pub * MaxPkts
  /\ lastVideo <= pub * MaxPkts /\ lastAudio <= pub * MaxPkts
  /\ sending # Idle => sending.ts <= pub * MaxPkts

OrderInv ==
  drained =>
    /\ sent < 4 => lastOut = 0 /\ base = 0
    /\ lastOut <= CalcBase(lastAudio, lastVideo)
    /\ DueAfter(lastOut, 0, queue, Flow, base, count)
    /\ \A j \in DOMAIN queue :
         Media(queue[j]) => DueAfter(queue[j].ts + base, j, queue, Flow, base, count)
    /\ sending # Idle =>
         /\ sending.ts = sending.pkt.ts + base /\ lastOut <= sending.ts
         /\ Media(sending.pkt) => DueAfter(sending.ts, 0, queue, Flow, base, count)
    /\ FlowOrdered(Flow, count)

\* Arithmetic: a remainder of what is small enough.
LEMMA ModSmall ==
  ASSUME NEW a \in Nat, NEW n \in Nat, a < n
  PROVE  a % n = a
  OBVIOUS

\* Products grow with their factors.
LEMMA ProductGrows ==
  ASSUME NEW m \in Nat, NEW p \in Nat, NEW q \in Nat, p <= q
  PROVE  /\ (p + 1) * m = p * m + m
         /\ p * m <= q * m /\ p * m \in Nat /\ q * m \in Nat
<1>1. (p + 1) * m = p * m + m /\ p * m \in Nat /\ q * m \in Nat
  OBVIOUS
<1>2. PICK d \in Nat : q = p + d
  <2>1. q - p \in Nat /\ q = p + (q - p)
    OBVIOUS
  <2> QED  BY <2>1
<1>3. q * m = p * m + d * m /\ d * m \in Nat
  BY <1>2
<1> QED  BY <1>1, <1>3

\* What a step stamps and records: no timestamp wraps as long as the clocks of all
\* publishers together do not.
LEMMA NoWrapStep ==
  ASSUME ClocksFit, TypeInv, NoWrap, [Next]_vars
  PROVE  NoWrap' /\ (SendTake => sending' = [pkt |-> Head(queue), ts |-> Head(queue).ts + base])
<1>0. /\ pub \in Nat /\ pub <= MaxPubs /\ MaxPubs \in Nat /\ MaxPkts \in Nat /\ TsMod \in Nat
      /\ base \in Nat /\ lastVideo \in Nat /\ lastAudio \in Nat
      /\ sending \in Stamped \cup {Idle} /\ queue \in Seq(Packet)
  BY RelayAssumption DEF TypeInv, TypeOK, Pubs
<1>1. /\ pub * MaxPkts \in Nat /\ pub * MaxPkts < TsMod
      /\ (pub + 1) * MaxPkts = pub * MaxPkts + MaxPkts
  <2>1. /\ (pub + 1) * MaxPkts = pub * MaxPkts + MaxPkts /\ pub * MaxPkts <= MaxPubs * MaxPkts
        /\ pub * MaxPkts \in Nat /\ MaxPubs * MaxPkts \in Nat
    BY <1>0, ProductGrows
  <2> QED  BY <1>0, <2>1 DEF ClocksFit
<1>2. ASSUME SendTake
      PROVE  NoWrap' /\ sending' = [pkt |-> Head(queue), ts |-> Head(queue).ts + base]
  <2> DEFINE t == Head(queue).ts + base
  <2>1. Head(queue).ts \in Nat /\ Head(queue).ts <= MaxPkts /\ Head(queue) \in Packet
    <3>1. Head(queue) \in Packet
      BY <1>0, <1>2 DEF SendTake
    <3> QED  BY <1>0, <3>1 DEF Packet
  <2> DEFINE top == pub * MaxPkts
  <2>2. base + MaxPkts <= top /\ top \in Nat /\ top < TsMod
    BY <1>1 DEF NoWrap
  <2> HIDE DEF top
  <2>3. t \in Nat /\ t <= top /\ t < TsMod
    BY <1>0, <2>1, <2>2
  <2>4. sending' = [pkt |-> Head(queue), ts |-> t]
    BY <1>0, <1>2, <2>3, ModSmall DEF SendTake
  <2>5. sending'.ts <= top /\ UNCHANGED <<base, lastVideo, lastAudio, pub>>
    BY <1>2, <2>3, <2>4 DEF SendTake, tsVars, pubVars
  <2> QED  BY <2>4, <2>5 DEF NoWrap, top
<1>3. CASE SendWrite
  <2>1. /\ UNCHANGED <<base, pub>> /\ sending' = Idle /\ sending # Idle
        /\ lastVideo' = lastVideo \/ lastVideo' = sending.ts
        /\ lastAudio' = lastAudio \/ lastAudio' = sending.ts
    BY <1>3 DEF SendWrite, pubVars
  <2> QED  BY <2>1 DEF NoWrap, SendTake
<1>4. CASE Takeover
  <2>1. /\ pub' = pub + 1 /\ UNCHANGED <<lastVideo, lastAudio, sending>>
        /\ base' \in {base, lastAudio, lastVideo}
    BY <1>4 DEF Takeover, CalcBase
  <2> DEFINE top == pub * MaxPkts
  <2>2. top \in Nat /\ pub' * MaxPkts = top + MaxPkts
    BY <1>1, <2>1
  <2>3. /\ base + MaxPkts <= top /\ lastVideo <= top /\ lastAudio <= top
        /\ sending # Idle => sending.ts <= top
    BY DEF NoWrap
  <2> HIDE DEF top
  <2>4. sending # Idle => sending.ts \in Nat
    BY <1>0 DEF Stamped
  <2>5. base' <= top /\ base' \in Nat /\ base' + MaxPkts <= top + MaxPkts
        /\ lastVideo <= top + MaxPkts /\ lastAudio <= top + MaxPkts
        /\ (sending # Idle => sending.ts <= top + MaxPkts)
    <3>1. MaxPkts \in Nat /\ base \in Nat /\ lastVideo \in Nat /\ lastAudio \in Nat
      BY <1>0
    <3>2. base' \in Nat /\ base' <= top
      BY <2>1, <2>2, <2>3, <3>1
    <3>3. sending # Idle => sending.ts <= top + MaxPkts
      BY <2>2, <2>3, <2>4, <3>1
    <3>4. base' + MaxPkts <= top + MaxPkts
      <4>1. top \in Nat
        BY <2>2
      <4>2. \A c \in Nat : c <= top => c + MaxPkts <= top + MaxPkts
        BY <3>1, <4>1
      <4> QED  BY <3>2, <4>2
    <3>5. lastVideo <= top + MaxPkts /\ lastAudio <= top + MaxPkts
      BY <2>2, <2>3, <3>1
    <3> QED  BY <3>2, <3>3, <3>4, <3>5
  <2>6. NoWrap'
    BY <2>1, <2>2, <2>5 DEF NoWrap
  <2>7. ~SendTake
    BY <2>1, <1>0 DEF SendTake, pubVars
  <2> QED  BY <2>6, <2>7
<1>5. CASE (\E kind \in Kinds : ReadPacket(kind)) \/ Push \/ ReadCache \/ Join \/ Deliver \/ UNCHANGED vars
  <2>1. UNCHANGED <<pub, tsVars, sending>>
    BY <1>5 DEF ReadPacket, Push, ReadCache, Join, Deliver, vars, pubVars
  <2>2. NoWrap'
    BY <2>1 DEF NoWrap, tsVars
  <2>3. SendTake => sending' # sending
    <3> SUFFICES ASSUME SendTake  PROVE sending' # sending
      OBVIOUS
    <3>1. sending'.pkt = Head(queue) /\ Head(queue) \in Packet
      BY <1>0 DEF SendTake
    <3>2. sending.pkt = None
      BY DEF SendTake, Idle
    <3> QED  BY <3>1, <3>2, NoneIsNoPacket
  <2> QED  BY <2>1, <2>2, <2>3
<1> QED  BY <1>2, <1>3, <1>4, <1>5 DEF Next

\* A packet joins the flow, or leaves it at either end.
LEMMA DueFlow ==
  ASSUME NEW x \in Nat, NEW f \in Seq(Packet), NEW b \in Nat, NEW c \in Nat, Due(x, f, b, c)
  PROVE  /\ \A p \in Packet : p.ts = c => Due(x, Append(f, p), b, c + 1)
         /\ \A g \in Seq(Packet), p \in Packet : f = Append(g, p) => Due(x, g, b, c)
         /\ f # <<>> => Due(x, Tail(f), b, c) /\ x <= Head(f).ts + b
<1>1. ASSUME NEW p \in Packet, p.ts = c  PROVE Due(x, Append(f, p), b, c + 1)
  <2> DEFINE g == Append(f, p)
  <2>1. /\ Len(f) \in Nat /\ DOMAIN f = 1 .. Len(f) /\ DOMAIN g = 1 .. (Len(f) + 1)
        /\ \A k \in 1 .. Len(f) : g[k] = f[k] /\ g[Len(f) + 1] = p
        /\ g[Len(f) + 1] = p
    OBVIOUS
  <2> HIDE DEF g
  <2>2. ASSUME NEW k \in DOMAIN g  PROVE x <= g[k].ts + b
    <3>1. CASE k \in 1 .. Len(f)
      BY <2>1, <3>1 DEF Due
    <3>2. CASE k \notin 1 .. Len(f)
      <4>1. k = Len(f) + 1
        BY <2>1, <3>2
      <4> QED  BY <1>1, <2>1, <4>1 DEF Due
    <3> QED  BY <3>1, <3>2
  <2>3. x <= (c + 1) + b
    BY DEF Due
  <2> QED  BY <2>2, <2>3 DEF Due, g
<1>2. ASSUME NEW g \in Seq(Packet), NEW p \in Packet, f = Append(g, p)  PROVE Due(x, g, b, c)
  <2>1. \A k \in DOMAIN g : k \in DOMAIN f /\ f[k] = g[k]
    BY <1>2
  <2> QED  BY <2>1 DEF Due
<1>3. ASSUME f # <<>>  PROVE Due(x, Tail(f), b, c) /\ x <= Head(f).ts + b
  <2>1. \A k \in DOMAIN Tail(f) : k + 1 \in DOMAIN f /\ Tail(f)[k] = f[k + 1]
    BY <1>3
  <2>2. 1 \in DOMAIN f /\ Head(f) = f[1]
    BY <1>3
  <2> QED  BY <2>1, <2>2 DEF Due
<1> QED  BY <1>1, <1>2, <1>3

\* The same of the order of the flow; its first packet is due before the others.
LEMMA FlowOrder ==
  ASSUME NEW f \in Seq(Packet), NEW c \in Nat, FlowOrdered(f, c)
  PROVE  /\ \A p \in Packet : p.ts = c => FlowOrdered(Append(f, p), c + 1)
         /\ \A g \in Seq(Packet), p \in Packet : f = Append(g, p) => FlowOrdered(g, c)
         /\ f # <<>> => /\ FlowOrdered(Tail(f), c)
                        /\ \A b \in Nat : Due(Head(f).ts + b, Tail(f), b, c)
<1>0. \A p \in Packet : p.ts \in Nat
  BY RelayAssumption DEF Packet
<1>1. ASSUME NEW p \in Packet, p.ts = c  PROVE FlowOrdered(Append(f, p), c + 1)
  <2> DEFINE g == Append(f, p)
  <2>1. /\ Len(f) \in Nat /\ DOMAIN f = 1 .. Len(f) /\ DOMAIN g = 1 .. (Len(f) + 1)
        /\ \A k \in 1 .. Len(f) : g[k] = f[k] /\ f[k].ts \in Nat
        /\ g[Len(f) + 1] = p
    BY <1>0
  <2> HIDE DEF g
  <2>2. ASSUME NEW k \in DOMAIN g, NEW j \in 1 .. k
        PROVE  g[k].ts <= c + 1 /\ g[j].ts <= g[k].ts
    <3>1. CASE k \in 1 .. Len(f)
      <4>1. j \in 1 .. Len(f)
        BY <2>1, <3>1
      <4>2. f[k].ts <= c /\ f[j].ts <= f[k].ts
        BY <2>1, <3>1 DEF FlowOrdered
      <4> QED  BY <2>1, <3>1, <4>1, <4>2
    <3>2. CASE k \notin 1 .. Len(f)
      <4>1. k = Len(f) + 1
        BY <2>1, <3>2
      <4>2. CASE j = k
        BY <1>1, <2>1, <4>1, <4>2
      <4>3. CASE j # k
        <5>1. j \in 1 .. Len(f)
          BY <2>1, <4>1, <4>3
        <5> QED  BY <1>1, <2>1, <4>1, <5>1 DEF FlowOrdered
      <4> QED  BY <4>2, <4>3
    <3> QED  BY <3>1, <3>2
  <2> QED  BY <2>2 DEF FlowOrdered, g
<1>2. ASSUME NEW g \in Seq(Packet), NEW p \in Packet, f = Append(g, p)  PROVE FlowOrdered(g, c)
  <2>1. \A k \in DOMAIN g : k \in DOMAIN f /\ f[k] = g[k] /\ \A j \in 1 .. k : f[j] = g[j]
    BY <1>2
  <2> QED  BY <2>1 DEF FlowOrdered
<1>3. ASSUME f # <<>>
      PROVE  FlowOrdered(Tail(f), c) /\ \A b \in Nat : Due(Head(f).ts + b, Tail(f), b, c)
  <2> DEFINE g == Tail(f)
  <2>1. \A k \in DOMAIN g : k + 1 \in DOMAIN f /\ g[k] = f[k + 1] /\ k \in Nat /\ f[k + 1].ts \in Nat
    BY <1>0, <1>3
  <2>2. 1 \in DOMAIN f /\ Head(f) = f[1] /\ f[1].ts \in Nat
    BY <1>0, <1>3
  <2> HIDE DEF g
  <2>3. ASSUME NEW k \in DOMAIN g, NEW j \in 1 .. k  PROVE g[k].ts <= c /\ g[j].ts <= g[k].ts
    <3>1. j \in DOMAIN g /\ j + 1 \in 1 .. (k + 1)
      BY <1>3, <2>1 DEF g
    <3>2. f[k + 1].ts <= c /\ f[j + 1].ts <= f[k + 1].ts
      BY <2>1, <3>1 DEF FlowOrdered
    <3> QED  BY <2>1, <3>1, <3>2
  <2>4. ASSUME NEW b \in Nat  PROVE Due(Head(f).ts + b, g, b, c)
    <3>1. f[1].ts <= c
      BY <2>2 DEF FlowOrdered
    <3>2. ASSUME NEW k \in DOMAIN g  PROVE f[1].ts <= g[k].ts
      <4>1. k + 1 \in DOMAIN f /\ 1 \in 1 .. (k + 1) /\ g[k] = f[k + 1]
        BY <2>1
      <4>2. f[1].ts <= f[k + 1].ts
        BY <4>1 DEF FlowOrdered
      <4> QED  BY <4>1, <4>2
    <3>3. \A k \in DOMAIN g : g[k].ts \in Nat
      BY <2>1
    <3> QED  BY <2>2, <3>1, <3>2, <3>3 DEF Due
  <2> QED  BY <2>3, <2>4 DEF FlowOrdered, g
<1> QED  BY <1>1, <1>2, <1>3

\* A packet that is not before x joins the queue; the first one leaves it.
LEMMA DueQueue ==
  ASSUME NEW x \in Nat, NEW i \in Nat, NEW q \in Seq(Packet), NEW f, NEW b \in Nat, NEW c,
         DueAfter(x, i, q, f, b, c)
  PROVE  /\ \A g, d : Due(x, g, b, d) => DueAfter(x, i, q, g, b, d)
         /\ \A p \in Packet : \A g : x <= p.ts + b /\ Due(x, g, b, c) =>
              DueAfter(x, i, Append(q, p), g, b, c)
         /\ \A j \in Nat : q # <<>> /\ i <= j + 1 => DueAfter(x, j, Tail(q), f, b, c)
<1>1. \A g, d : Due(x, g, b, d) => DueAfter(x, i, q, g, b, d)
  BY DEF DueAfter
<1>2. ASSUME NEW p \in Packet, NEW g, x <= p.ts + b, Due(x, g, b, c)
      PROVE  DueAfter(x, i, Append(q, p), g, b, c)
  <2> DEFINE r == Append(q, p)
  <2>1. /\ Len(q) \in Nat /\ DOMAIN q = 1 .. Len(q) /\ DOMAIN r = 1 .. (Len(q) + 1)
        /\ \A k \in 1 .. Len(q) : r[k] = q[k]
        /\ r[Len(q) + 1] = p
    OBVIOUS
  <2> HIDE DEF r
  <2>2. ASSUME NEW k \in DOMAIN r, k > i  PROVE x <= r[k].ts + b
    <3>1. CASE k \in 1 .. Len(q)
      BY <2>1, <2>2, <3>1 DEF DueAfter
    <3>2. CASE k \notin 1 .. Len(q)
      <4>1. k = Len(q) + 1
        BY <2>1, <3>2
      <4> QED  BY <1>2, <2>1, <4>1
    <3> QED  BY <3>1, <3>2
  <2> QED  BY <1>2, <2>2 DEF DueAfter, r
<1>3. ASSUME NEW j \in Nat, q # <<>>, i <= j + 1  PROVE DueAfter(x, j, Tail(q), f, b, c)
  <2>1. \A k \in DOMAIN Tail(q) : k \in Nat /\ k + 1 \in DOMAIN q /\ Tail(q)[k] = q[k + 1]
    BY <1>3
  <2>2. ASSUME NEW k \in DOMAIN Tail(q), k > j  PROVE x <= Tail(q)[k].ts + b
    <3>1. k \in Nat /\ k + 1 \in DOMAIN q /\ k + 1 > i /\ Tail(q)[k] = q[k + 1]
      BY <1>3, <2>1, <2>2
    <3> QED  BY <3>1 DEF DueAfter
  <2> QED  BY <2>2 DEF DueAfter
<1> QED  BY <1>1, <1>2, <1>3

\* Within a publisher its clock orders what the player gets; over a takeover that finds
\* the player drained, the new base does.
LEMMA OrderStep ==
  ASSUME ClocksFit, TypeInv, NoWrap, OrderInv, [Next]_vars  PROVE OrderInv'
<1> SUFFICES ASSUME drained'  PROVE OrderInv'
  BY DEF OrderInv
<1>1. drained
  BY DEF Next, ReadPacket, Push, Takeover, ReadCache, Join, Deliver, SendTake, SendWrite, vars, history
<1>2. /\ sent < 4 => lastOut = 0 /\ base = 0
      /\ lastOut <= CalcBase(lastAudio, lastVideo)
      /\ DueAfter(lastOut, 0, queue, Flow, base, count)
      /\ \A j \in DOMAIN queue :
           Media(queue[j]) => DueAfter(queue[j].ts + base, j, queue, Flow, base, count)
      /\ sending # Idle =>
           /\ sending.ts = sending.pkt.ts + base /\ lastOut <= sending.ts
           /\ Media(sending.pkt) => DueAfter(sending.ts, 0, queue, Flow, base, count)
      /\ FlowOrdered(Flow, count)
  BY <1>1 DEF OrderInv
<1>3. /\ base \in Nat /\ lastOut \in Nat /\ lastAudio \in Nat /\ lastVideo \in Nat /\ count \in Nat
      /\ queue \in Seq(Packet) /\ Flow \in Seq(Packet) /\ sending \in Stamped \cup {Idle}
      /\ sent \in 0 .. 4
  BY RelayAssumption, FlowSteps DEF TypeInv, TypeOK
<1>4. /\ \A p \in Packet : p.ts \in Nat
      /\ \A s \in Stamped : s.pkt \in Packet /\ s.ts \in Nat
  BY RelayAssumption DEF Packet, Stamped
<1>5. /\ \A j \in DOMAIN queue : j \in Nat /\ queue[j] \in Packet /\ queue[j].ts + base \in Nat
      /\ sending # Idle => sending \in Stamped /\ sending.pkt \in Packet /\ sending.ts \in Nat
  BY <1>3, <1>4
<1>6. ASSUME UNCHANGED <<queue, sending, lastOut, tsVars>>, sent' < 4 => sent < 4,
             NEW f \in Seq(Packet), f = Flow', NEW c \in Nat, c = count',
             \A x \in Nat : Due(x, Flow, base, count) => Due(x, f, base, c),
             FlowOrdered(f, c)
      PROVE  OrderInv'
  <2>1. UNCHANGED <<base, lastVideo, lastAudio>>
    BY <1>6 DEF tsVars
  <2>2. ASSUME NEW x \in Nat, NEW i \in Nat, DueAfter(x, i, queue, Flow, base, count)
        PROVE  DueAfter(x, i, queue, f, base, c)
    BY <1>6, <2>2 DEF DueAfter
  <2>3. DueAfter(lastOut, 0, queue, f, base, c)
    BY <1>2, <1>3, <2>2
  <2>4. \A j \in DOMAIN queue : Media(queue[j]) => DueAfter(queue[j].ts + base, j, queue, f, base, c)
    BY <1>2, <1>5, <2>2
  <2>5. sending # Idle /\ Media(sending.pkt) => DueAfter(sending.ts, 0, queue, f, base, c)
    BY <1>2, <1>5, <2>2
  <2>6. lastOut <= CalcBase(lastAudio, lastVideo)'
    BY <1>2, <2>1 DEF CalcBase
  <2> QED  BY <1>2, <1>6, <2>1, <2>3, <2>4, <2>5, <2>6 DEF OrderInv
<1>7. ASSUME NEW kind \in Kinds, ReadPacket(kind)  PROVE OrderInv'
  <2>1. held' \in Packet /\ Flow' = Append(Flow, held')
    BY <1>7, FlowSteps
  <2>2. held'.ts = count /\ count' = count + 1 /\ UNCHANGED <<queue, sending, lastOut, tsVars, sent>>
    BY <1>7 DEF ReadPacket, history
  <2>3. PICK p \in Packet : p = held'
    BY <2>1
  <2> DEFINE f == Append(Flow, p)
             c == count + 1
  <2>4. f \in Seq(Packet) /\ f = Flow' /\ c \in Nat /\ c = count' /\ p.ts = count
    BY <1>3, <2>1, <2>2, <2>3
  <2>5. \A x \in Nat : Due(x, Flow, base, count) => Due(x, f, base, c)
    BY <1>3, <2>4, DueFlow
  <2>6. FlowOrdered(f, c)
    BY <1>2, <1>3, <2>4, FlowOrder
  <2> HIDE DEF f, c
  <2> QED  BY <1>6, <2>2, <2>4, <2>5, <2>6
<1>8. CASE Push
  <2>1. UNCHANGED <<queue, sending, lastOut, tsVars, sent, count>>
    BY <1>8 DEF Push, pubVars
  <2>2. \/ Flow' = Flow
        \/ held \in Packet /\ Flow = Append(Flow', held) /\ Flow' \in Seq(Packet)
    BY <1>8, FlowSteps
  <2>3. PICK f \in Seq(Packet) : f = Flow'
    BY <1>3, <2>2
  <2>4. \A x \in Nat : Due(x, Flow, base, count) => Due(x, f, base, count)
    BY <1>3, <2>2, <2>3, DueFlow
  <2>5. FlowOrdered(f, count)
    BY <1>2, <1>3, <2>2, <2>3, FlowOrder
  <2> QED  BY <1>3, <1>6, <2>1, <2>3, <2>4, <2>5
<1>9. CASE ReadCache
  <2>1. UNCHANGED <<queue, sending, lastOut, tsVars, count, held, pktChan>> /\ sent < 3
    BY <1>9 DEF ReadCache, pubVars, history
  <2>2. Flow' = Flow
    BY <2>1 DEF Flow
  <2> QED  BY <1>2, <1>3, <1>6, <2>1, <2>2
<1>10. CASE UNCHANGED vars
  <2>1. UNCHANGED <<queue, sending, lastOut, tsVars, count, held, pktChan, sent>>
    BY <1>10 DEF vars, pubVars, history
  <2>2. Flow' = Flow
    BY <2>1 DEF Flow
  <2> QED  BY <1>2, <1>3, <1>6, <2>1, <2>2
<1>11. CASE Takeover
  <2>1. /\ queue = <<>> /\ sending = Idle /\ UNCHANGED <<queue, sending, lastOut, lastAudio, lastVideo, sent>>
        /\ base' = IF sent = 4 THEN CalcBase(lastAudio, lastVideo) ELSE base
        /\ count' = 0 /\ AtSelect
    BY <1>11 DEF Takeover, Joined
  <2>2. Flow' = <<>>
    BY <1>11, FlowSteps
  <2>3. base' \in Nat /\ lastOut <= base'
    BY <1>2, <1>3, <2>1 DEF CalcBase
  <2>4. sent < 4 => lastOut = 0 /\ base' = 0
    BY <1>2, <2>1
  <2>5. Due(lastOut, Flow', base', count')
    <3>1. lastOut <= 0 + base'
      <4>1. \A c \in Nat : lastOut <= c => lastOut <= 0 + c
        BY <1>3
      <4> QED  BY <2>3, <4>1
    <3> QED  BY <2>1, <2>2, <3>1 DEF Due
  <2>6. DueAfter(lastOut', 0, queue', Flow', base', count')
    BY <2>1, <2>5 DEF DueAfter
  <2>7. FlowOrdered(Flow', count')
    BY <2>2 DEF FlowOrdered
  <2>8. lastOut' <= CalcBase(lastAudio', lastVideo')
    BY <1>2, <2>1
  <2> QED  BY <2>1, <2>4, <2>6, <2>7, <2>8 DEF OrderInv
<1>12. CASE Join
  <2>1. /\ sent = 3 /\ sent' = 4 /\ queue' = queue \o batch \o cache.gop.gops
        /\ UNCHANGED <<sending, lastOut, tsVars, count, held, pktChan>>
    BY <1>12 DEF Join, pubVars, history
  <2>2. Flow' = Flow /\ UNCHANGED <<base, lastVideo, lastAudio>>
    BY <2>1 DEF Flow, tsVars
  <2>3. queue = <<>> /\ sending = Idle /\ cache.gop.gops = <<>> /\ batch \in Seq(Packet)
        /\ \A k \in DOMAIN batch : ~Media(batch[k])
    <3>1. batch \in Seq(Packet)
      BY DEF TypeInv, TypeOK
    <3>2. queue = <<>> /\ sending = Idle /\ \A k \in DOMAIN batch : ~Media(batch[k])
      BY <2>1 DEF TypeInv, JoinOK, Media
    <3>3. cache.gop.gops = <<>>
      BY <2>1 DEF TypeInv, CacheOK, NewGopCache
    <3> QED  BY <3>1, <3>2, <3>3
  <2>4. queue' = batch
    BY <2>1, <2>3
  <2>5. DueAfter(lastOut, 0, batch, Flow, base, count)
    <3>1. lastOut = 0 /\ \A k \in DOMAIN batch : batch[k].ts \in Nat
      BY <1>2, <1>4, <2>1, <2>3
    <3> QED  BY <1>2, <1>3, <3>1 DEF DueAfter
  <2> QED  BY <1>2, <2>1, <2>2, <2>3, <2>4, <2>5 DEF OrderInv
<1>13. CASE Deliver
  <2> DEFINE p == Head(Flow)
             f == Tail(Flow)
  <2>1. Flow # <<>> /\ p = Head(pktChan) /\ Flow' = f
    BY <1>13, FlowSteps
  <2>2. p \in Packet /\ f \in Seq(Packet)
    BY <1>3, <2>1
  <2>3. /\ UNCHANGED <<sending, lastOut, tsVars, count, sent>>
        /\ queue' = queue \/ (queue' = Append(queue, p) /\ sent = 4)
    BY <1>13, <2>1 DEF Deliver, QueueAfterWrite, Joined, pubVars
  <2>4. \A x \in Nat : Due(x, Flow, base, count) => Due(x, f, base, count) /\ x <= p.ts + base
    BY <1>3, <2>1, DueFlow
  <2>5. FlowOrdered(f, count) /\ Due(p.ts + base, f, base, count)
    BY <1>2, <1>3, <2>1, FlowOrder
  <2> HIDE DEF p, f
  <2>6. CASE queue' = queue
    BY <1>3, <1>6, <2>1, <2>2, <2>3, <2>4, <2>5, <2>6
  <2>7. CASE queue' = Append(queue, p) /\ sent = 4
    <3> DEFINE q == Append(queue, p)
    <3>1. /\ Len(queue) \in Nat /\ DOMAIN q = 1 .. (Len(queue) + 1) /\ DOMAIN queue = 1 .. Len(queue)
          /\ \A k \in 1 .. Len(queue) : q[k] = queue[k]
          /\ q[Len(queue) + 1] = p
      BY <1>3, <2>2
    <3>2. ASSUME NEW x \in Nat, NEW i \in Nat, DueAfter(x, i, queue, Flow, base, count)
          PROVE  DueAfter(x, i, q, f, base, count)
      <4>1. Due(x, f, base, count) /\ x <= p.ts + base
        BY <2>4, <3>2 DEF DueAfter
      <4> QED  BY <1>3, <2>2, <3>2, <4>1, DueQueue
    <3> HIDE DEF q
    <3>3. UNCHANGED <<base, lastVideo, lastAudio>> /\ queue' = q
      BY <2>3, <2>7 DEF tsVars, q
    <3>4. DueAfter(lastOut, 0, q, f, base, count)
      BY <1>2, <1>3, <3>2
    <3>5. ASSUME NEW j \in DOMAIN q, Media(q[j])  PROVE DueAfter(q[j].ts + base, j, q, f, base, count)
      <4>1. CASE j \in 1 .. Len(queue)
        BY <1>2, <1>5, <3>1, <3>2, <3>5, <4>1
      <4>2. CASE j \notin 1 .. Len(queue)
        <5>1. j = Len(queue) + 1 /\ \A k \in DOMAIN q : ~(k > j)
          BY <3>1, <4>2
        <5> QED  BY <2>5, <3>1, <5>1 DEF DueAfter
      <4> QED  BY <4>1, <4>2
    <3>6. sending # Idle /\ Media(sending.pkt) => DueAfter(sending.ts, 0, q, f, base, count)
      BY <1>2, <1>5, <3>2
    <3>7. lastOut <= CalcBase(lastAudio, lastVideo)'
      BY <1>2, <3>3 DEF CalcBase
    <3> QED  BY <1>2, <2>1, <2>3, <2>5, <2>7, <3>3, <3>4, <3>5, <3>6, <3>7 DEF OrderInv
  <2> QED  BY <2>3, <2>6, <2>7
<1>14. CASE SendTake
  <2> DEFINE h == Head(queue)
             q == Tail(queue)
  <2>1. /\ sending = Idle /\ queue # <<>> /\ queue' = q
        /\ UNCHANGED <<base, lastVideo, lastAudio, lastOut, count, sent, held, pktChan>>
    BY <1>14 DEF SendTake, tsVars, pubVars, history
  <2>2. sending' = [pkt |-> h, ts |-> h.ts + base]
    BY <1>14, NoWrapStep
  <2>3. h = queue[1] /\ 1 \in DOMAIN queue /\ h \in Packet /\ q \in Seq(Packet)
        /\ \A j \in DOMAIN q : j \in Nat /\ j + 1 \in DOMAIN queue /\ q[j] = queue[j + 1]
    BY <1>3, <2>1
  <2>4. ASSUME NEW x \in Nat, NEW i \in Nat, NEW j \in Nat, i <= j + 1,
               DueAfter(x, i, queue, Flow, base, count)
        PROVE  DueAfter(x, j, q, Flow, base, count)
    BY <1>3, <2>1, <2>4, DueQueue
  <2> HIDE DEF h, q
  <2>5. Flow' = Flow
    BY <2>1 DEF Flow
  <2>6. DueAfter(lastOut, 0, q, Flow, base, count)
    BY <1>2, <1>3, <2>4
  <2>7. ASSUME NEW j \in DOMAIN q, Media(q[j])
        PROVE  DueAfter(q[j].ts + base, j, q, Flow, base, count)
    <3>1. j \in Nat /\ j + 1 \in Nat /\ j + 1 <= j + 1 /\ j + 1 \in DOMAIN queue /\ q[j] = queue[j + 1]
      BY <2>3
    <3>2. DueAfter(q[j].ts + base, j + 1, queue, Flow, base, count) /\ q[j].ts + base \in Nat
      BY <1>2, <1>5, <2>7, <3>1
    <3> QED  BY <2>4, <3>1, <3>2
  <2>8. h.ts + base \in Nat /\ lastOut <= h.ts + base
    <3>1. 1 > 0
      OBVIOUS
    <3> QED  BY <1>2, <1>5, <2>3, <3>1 DEF DueAfter
  <2>9. Media(h) => DueAfter(h.ts + base, 0, q, Flow, base, count)
    <3>1. Media(h) => DueAfter(h.ts + base, 1, queue, Flow, base, count)
      BY <1>2, <2>3
    <3> QED  BY <2>4, <2>8, <3>1
  <2>10. sending'.pkt = h /\ sending'.ts = h.ts + base
    BY <2>2
  <2>11. lastOut <= CalcBase(lastAudio, lastVideo)'
    BY <1>2, <2>1 DEF CalcBase
  <2> QED  BY <1>2, <2>1, <2>5, <2>6, <2>7, <2>8, <2>9, <2>10, <2>11 DEF OrderInv
<1>15. CASE SendWrite
  <2>1. /\ sending # Idle /\ sending' = Idle
        /\ UNCHANGED <<base, queue, count, sent, held, pktChan>>
        /\ lastVideo' = IF Video(sending.pkt) THEN sending.ts ELSE lastVideo
        /\ lastAudio' = IF Audio(sending.pkt) THEN sending.ts ELSE lastAudio
        /\ lastOut' = IF Media(sending.pkt) THEN sending.ts ELSE lastOut
    BY <1>15 DEF SendWrite, pubVars
  <2>2. Flow' = Flow
    BY <2>1 DEF Flow
  <2>3. sent = 4
    BY <1>3, <2>1 DEF TypeInv, JoinOK
  <2>4. DueAfter(lastOut', 0, queue, Flow, base, count)
    BY <1>2, <2>1
  <2>5. lastOut' <= CalcBase(lastAudio', lastVideo')
    <3>1. sending.ts \in Nat /\ lastOut <= sending.ts
      BY <1>2, <1>5, <2>1
    <3>2. Media(sending.pkt) => Video(sending.pkt) \/ Audio(sending.pkt)
      BY DEF Media, Video, Audio
    <3>3. lastOut' <= sending.ts
      BY <1>3, <2>1, <3>1
    <3>4. CASE Video(sending.pkt) \/ Audio(sending.pkt)
      <4>1. lastVideo' \in Nat /\ lastAudio' \in Nat /\ lastOut' \in Nat
            /\ (lastVideo' = sending.ts \/ lastAudio' = sending.ts)
        BY <1>3, <2>1, <3>1, <3>4
      <4> QED  BY <3>1, <3>3, <4>1 DEF CalcBase
    <3>5. CASE ~(Video(sending.pkt) \/ Audio(sending.pkt))
      BY <1>2, <2>1, <3>2, <3>5
    <3> QED  BY <3>4, <3>5
  <2> QED  BY <1>2, <2>1, <2>2, <2>3, <2>4, <2>5 DEF OrderInv
<1> QED
  BY <1>7, <1>8, <1>9, <1>10, <1>11, <1>12, <1>13, <1>14, <1>15 DEF Next

\* RWBaser (rwbase.go), stamping in SendPacket and rebasing in streamLoop: as long as
\* the clocks of all publishers fit in 32 bits, the timestamps of the frames a player is
\* sent never go back, over any number of takeovers, if each takeover finds the player's
\* queue empty and its sender idle.
THEOREM MonotoneCorrect ==
  ASSUME MaxPubs * MaxPkts < TsMod
  PROVE  Spec => []MonotoneIfDrained
<1>1. ClocksFit
  BY DEF ClocksFit
<1>2. Init => NoWrap /\ OrderInv
  <2> SUFFICES ASSUME Init  PROVE NoWrap /\ OrderInv
    OBVIOUS
  <2>1. /\ Flow = <<>> /\ queue = <<>> /\ sending = Idle /\ count = 0 /\ base = 0 /\ lastOut = 0
        /\ lastVideo = 0 /\ lastAudio = 0 /\ pub = 1
    BY DEF Init, Flow
  <2>2. NoWrap
    <3>1. 1 * MaxPkts = MaxPkts /\ 0 + MaxPkts <= MaxPkts /\ 0 <= MaxPkts
      BY RelayAssumption
    <3> QED  BY <2>1, <3>1 DEF NoWrap
  <2>3. OrderInv
    BY <2>1 DEF OrderInv, DueAfter, Due, FlowOrdered, CalcBase
  <2> QED  BY <2>2, <2>3
<1>3. TypeInv /\ NoWrap /\ OrderInv /\ [Next]_vars => NoWrap' /\ OrderInv'
  BY <1>1, NoWrapStep, OrderStep
<1>4. OrderInv => MonotoneIfDrained
  BY DEF OrderInv, MonotoneIfDrained
<1> QED  BY <1>2, <1>3, <1>4, TypeInit, TypeStep, PTL DEF Spec
=============================================================================
