--------------------------- MODULE RtmpConnProofs ---------------------------
(***************************************************************************)
(* Proofs about RtmpConn, for any lengths, chunk sizes, number of messages *)
(* and unread chunks, as long as timestamps stay below the one that        *)
(* announces an extended timestamp (beyond it Framed is violated).         *)
(*                                                                         *)
(* On every chunk stream, what the reader has read, the chunks on the wire *)
(* and what the sender is still to send form a chain: each link says which *)
(* chunk may come after it (Goes), and the last one where the sender is    *)
(* (Ends).  Reading a chunk drops the first link, writing one adds a last  *)
(* link.  The chunk sizes form a chain of the same kind along the          *)
(* SetChunkSize messages.                                                  *)
(***************************************************************************)
EXTENDS RtmpConn, TLAPS

-----------------------------------------------------------------------------
(* Types *)

MessageRec ==
  [csid : Csids, kind : Kinds, len : 0..MaxLen, ts : Nat, fmt : 0..3, delta : Nat,
   size : ChunkSizes, window : Windows]

HeaderRec == [fmt : 0..3, ts : Nat, delta : Nat, len : Nat, kind : Kinds \cup {"none"}]

ChunkRec ==
  [basic : {BasicHeader(f, c) : f \in 0..3, c \in Csids},
   header : {MessageHeader(f, m, t) : f \in 0..3, m \in MessageRec, t \in Nat},
   ext : {<<>>}, msg : Nat, from : Nat, to : Nat]

StreamRec ==
  [ts : Nat, pts : Nat, len : 0..MaxLen, kind : Kinds \cup {"none"}, delta : Nat, remain : Nat,
   index : Nat, complete : BOOLEAN, buf : Nat, msg : Nat]

UnitRec == [msg : Nat, i : Nat]

DeliveredRec ==
  [csid : Csids, kind : Kinds, len : 0..MaxLen, ts : Nat, pts : Nat, buf : Nat,
   data : Seq(UnitRec), msg : Nat]

TypeInv ==
  /\ sender \in Senders /\ desync \in BOOLEAN
  /\ chunkSize \in ChunkSizes /\ remoteChunkSize \in ChunkSizes /\ remoteWindowAckSize \in Windows
  /\ msgs \in Seq(MessageRec) /\ Len(msgs) <= MaxMsgs
  /\ out \in [Csids -> Nat] /\ left \in [Csids -> Nat] /\ prev \in [Csids -> HeaderRec]
  /\ wire \in Seq(ChunkRec)
  /\ chunks \in [Csids -> StreamRec]
  /\ mem \in Seq(Seq(UnitRec))
  /\ delivered \in Seq(DeliveredRec)
  /\ ackReceived \in Nat /\ ackBuffered \in Nat /\ unacked \in Nat

-----------------------------------------------------------------------------
(* The sender *)

\* Messages p and n of ms follow each other on a chunk stream.
Succ(ms, p, n) ==
  /\ p < n /\ ms[p].csid = ms[n].csid
  /\ \A k \in (p + 1)..(n - 1) : ms[k].csid # ms[n].csid

\* The header of message n says what it may leave to the one before it.
Shortened(ms, n) ==
  ms[n].fmt # 0 =>
    \E p \in 1..(n - 1) :
      /\ Succ(ms, p, n)
      /\ ms[n].ts = ms[p].ts + ms[n].delta
      /\ ms[n].fmt \in {2, 3} => ms[n].len = ms[p].len /\ ms[n].kind = ms[p].kind
      /\ ms[n].fmt = 3 => ms[p].fmt # 0 /\ ms[n].delta = ms[p].delta

MsgOK(ms, n) ==
  /\ ms[n].csid = CsidOf(ms[n].kind)
  /\ ms[n].kind \in Control => ms[n].len = 1
  /\ ms[n].ts < ExtTs /\ ms[n].delta < ExtTs
  /\ Shortened(ms, n)

MsgsOK == \A n \in 1..Len(msgs) : MsgOK(msgs, n)

\* prev[c] is the header of the last message on c.
PrevOK ==
  sender = "peer" =>
    \A c \in Csids :
      IF prev[c].kind = "none" THEN \A k \in 1..Len(msgs) : msgs[k].csid # c
      ELSE \E p \in 1..Len(msgs) :
             /\ msgs[p].csid = c
             /\ \A k \in (p + 1)..Len(msgs) : msgs[k].csid # c
             /\ prev[c].ts = msgs[p].ts /\ prev[c].len = msgs[p].len
             /\ prev[c].kind = msgs[p].kind /\ prev[c].fmt = msgs[p].fmt
             /\ prev[c].delta = msgs[p].delta

\* A message is cut in two only by the peer, and is the last one of its chunk stream.
OutOK ==
  \A c \in Csids :
    /\ out[c] = 0 => left[c] = 0
    /\ out[c] # 0 =>
         /\ sender = "peer" /\ out[c] \in 1..Len(msgs) /\ msgs[out[c]].csid = c
         /\ 0 < left[c] /\ left[c] < msgs[out[c]].len
         /\ \A k \in (out[c] + 1)..Len(msgs) : msgs[k].csid # c

-----------------------------------------------------------------------------
(* The chain *)

\* Chunk i of w is one of chunk stream c.
On(w, ms, c, i) == ms[w[i].msg].csid = c

\* j is the last place before i, among the chunks of w, that c is at; 0 is the reader.
Precedes(w, ms, c, j, i) ==
  /\ j \in 0..(i - 1)
  /\ j # 0 => On(w, ms, c, j)
  /\ \A k \in (j + 1)..(i - 1) : ~On(w, ms, c, k)

\* Where c is after place j: the message, and how much of it.
AtMsg(w, cs, j) == IF j = 0 THEN cs.msg ELSE w[j].msg
AtPos(w, cs, j) == IF j = 0 THEN cs.index ELSE w[j].to

\* The format of chunk ch.
FmtOf(ms, ch) == IF ch.from = 0 THEN ms[ch.msg].fmt ELSE 3

\* A chunk is one of a message sent, under the header that the message has.
ChunkOK(ms, ch) ==
  LET m == ms[ch.msg] IN
  /\ ch.msg \in 1..Len(ms)
  /\ ch.from <= ch.to /\ ch.to <= m.len /\ (ch.from = ch.to => m.len = 0)
  /\ ch.basic = BasicHeader(FmtOf(ms, ch), m.csid)
  /\ ch.header = MessageHeader(FmtOf(ms, ch), m, IF m.fmt = 0 THEN m.ts ELSE m.delta)

WireOK == \A i \in 1..Len(wire) : ChunkOK(msgs, wire[i])

\* Chunk ch may come where pos units of message n have come on c.
Goes(ms, c, n, pos, ch) ==
  IF n # 0 /\ pos < ms[n].len THEN ch.msg = n /\ ch.from = pos
  ELSE ch.from = 0 /\ n < ch.msg /\ \A k \in (n + 1)..(ch.msg - 1) : ms[k].csid # c

\* The sender has written on c as far as pos units of message n.
Ends(ms, o, l, c, n, pos) ==
  /\ \A k \in (n + 1)..Len(ms) : ms[k].csid # c
  /\ IF o = 0 THEN n # 0 => pos = ms[n].len ELSE n = o /\ pos + l = ms[n].len

ChainOn(w, ms, cs, c) ==
  \A i \in 1..Len(w) : \A j \in 0..(i - 1) :
    On(w, ms, c, i) /\ Precedes(w, ms, c, j, i)
      => Goes(ms, c, AtMsg(w, cs, j), AtPos(w, cs, j), w[i])

EndOn(w, ms, cs, o, l, c) ==
  \A j \in 0..Len(w) :
    Precedes(w, ms, c, j, Len(w) + 1) => Ends(ms, o, l, c, AtMsg(w, cs, j), AtPos(w, cs, j))

Chain ==
  \A c \in Csids :
    ChainOn(wire, msgs, chunks[c], c) /\ EndOn(wire, msgs, chunks[c], out[c], left[c], c)

\* The chunk size after place j on chunk stream 2, size at first.
SizeAt(w, ms, size, j) == IF j = 0 THEN size ELSE ms[w[j].msg].size

\* Chunk ch is cut at chunk size s.
Cut(ms, ch, s) == ch.to = Least(ms[ch.msg].len, ch.from + s)

\* Chunk ch of chunk stream 2 does not change chunk size s unless it is SetChunkSize.
Keeps(ms, ch, s) ==
  ms[ch.msg].csid = 2 /\ ms[ch.msg].kind # "size" => ms[ch.msg].size = s

SizesOn(w, ms, size, last) ==
  /\ \A i \in 1..Len(w) : \A j \in 0..(i - 1) :
       Precedes(w, ms, 2, j, i) =>
         Cut(ms, w[i], SizeAt(w, ms, size, j)) /\ Keeps(ms, w[i], SizeAt(w, ms, size, j))
  /\ \A j \in 0..Len(w) :
       Precedes(w, ms, 2, j, Len(w) + 1) => last = SizeAt(w, ms, size, j)

Sizes == SizesOn(wire, msgs, remoteChunkSize, chunkSize)

-----------------------------------------------------------------------------
(* The reader *)

\* cs is what readChunk knows of the message it reads on c.
StreamOK(ms, cs, c) ==
  /\ cs.msg \in 0..Len(ms) /\ cs.delta < ExtTs
  /\ cs.msg = 0 => cs.remain = 0 /\ cs.index = 0
  /\ cs.msg # 0 =>
       LET m == ms[cs.msg] IN
       /\ m.csid = c /\ cs.len = m.len /\ cs.kind = m.kind /\ cs.pts = m.ts
       /\ m.fmt # 0 => cs.delta = m.delta
       /\ cs.index + cs.remain = m.len
       /\ cs.remain # 0 => cs.index # 0
       /\ cs.complete <=> cs.remain = 0

\* Its buffer holds what was read of the message.
BufferOK(cs, mm) ==
  /\ cs.buf \in 0..Len(mm)
  /\ cs.msg # 0 /\ cs.len # 0 => cs.buf # 0 /\ cs.len <= Len(mm[cs.buf])
  /\ \A k \in 1..cs.index : mm[cs.buf][k] = Unit(cs.msg, k)

ReaderOK ==
  /\ \A c \in Csids : StreamOK(msgs, chunks[c], c) /\ BufferOK(chunks[c], mem)
  /\ \A c, d \in Csids : c # d /\ chunks[c].buf # 0 => chunks[c].buf # chunks[d].buf

\* Message n has been read to the end.
Done(ms, cs, n) ==
  LET r == cs[ms[n].csid] IN n < r.msg \/ (n = r.msg /\ r.remain = 0)

\* d is a message sent, returned whole.
ReturnedOK(ms, cs, d) ==
  LET m == ms[d.msg] IN
  /\ d.msg \in 1..Len(ms) /\ m.kind \notin Control
  /\ d.csid = m.csid /\ d.kind = m.kind /\ d.len = m.len /\ d.pts = m.ts
  /\ d.data = Data(d.msg, m.len)
  /\ Done(ms, cs, d.msg)
  /\ d.msg = cs[d.csid].msg => d.buf = cs[d.csid].buf

DeliveredOK ==
  /\ \A i \in 1..Len(delivered) : ReturnedOK(msgs, chunks, delivered[i])
  /\ \A i, j \in 1..Len(delivered) :
       i < j /\ delivered[i].csid = delivered[j].csid => delivered[i].msg < delivered[j].msg
  /\ \A n \in 1..Len(msgs) :
       msgs[n].kind \notin Control /\ Done(msgs, chunks, n) =>
         \E i \in 1..Len(delivered) : delivered[i].msg = n

-----------------------------------------------------------------------------
(* Acknowledgements *)

\* f[i] is the data in the chunks of w after the first i.
Totals(f, w) ==
  /\ f \in [0..Len(w) -> Nat] /\ f[Len(w)] = 0
  /\ \A i \in 1..Len(w) : f[i - 1] = f[i] + (w[i].to - w[i].from)

\* What the reader has of a message that is not complete, and the sum of what it has
\* and of what the sender has not sent, over the chunk streams.
Part(cs) == IF cs.remain = 0 THEN 0 ELSE cs.index
Open(cs, l) ==
  Part(cs[2]) + Part(cs[4]) + Part(cs[6]) + Part(cs[CmdCsid]) + l[2] + l[4] + l[6] + l[CmdCsid]

AckInv ==
  \E f \in [0..Len(wire) -> Nat] :
    Totals(f, wire) /\ unacked = ackReceived + ackBuffered + f[0] + Open(chunks, left)

\* A full window has been acknowledged.
WindowInv == ackReceived < remoteWindowAckSize

-----------------------------------------------------------------------------
\* The inductive invariant.
Inv ==
  /\ TypeInv /\ MsgsOK /\ PrevOK /\ OutOK /\ WireOK /\ Chain /\ Sizes /\ ReaderOK /\ DeliveredOK
  /\ AckInv /\ WindowInv /\ Framed

-----------------------------------------------------------------------------
(* Arithmetic, sequences and headers *)

\* The assumptions on the constants, taken apart.
LEMMA Constants ==
  /\ Kinds \subseteq KnownKinds /\ CmdCsid \in Nat /\ CmdCsid \notin {2, 4, 6}
  /\ CmdCsid >= 3 /\ CmdCsid <= 65599
  /\ ChunkSizes \subseteq Nat \ {0} /\ FirstSize \in ChunkSizes
  /\ ExtTs \in Nat \ {0} /\ Windows \subseteq Nat \ {0} /\ Window \in Windows
  /\ MaxLen \in Nat /\ MaxTs \in Nat /\ MaxMsgs \in Nat /\ MaxWire \in Nat /\ Lens \subseteq 0..MaxLen
<1>1. CmdCsid \in Nat \ {4, 6} /\ CmdCsid >= 3 /\ CmdCsid <= 65599
  BY ConnAssumption
<1>2. ExtTs \in Nat \ {0} /\ Windows \subseteq Nat \ {0} /\ Window \in Windows
  BY ConnAssumption
<1>3. MaxLen \in Nat /\ MaxTs \in Nat /\ MaxMsgs \in Nat /\ MaxWire \in Nat
  BY ConnAssumption
<1>4. /\ Kinds \subseteq KnownKinds /\ ChunkSizes \subseteq Nat \ {0} /\ FirstSize \in ChunkSizes
      /\ Lens \subseteq 0..MaxLen
  BY ConnAssumption
<1> QED  BY <1>1, <1>2, <1>3, <1>4

\* The messages of the protocol, and no others, travel on chunk stream 2.
LEMMA CsidIs ==
  ASSUME NEW kind \in Kinds
  PROVE  CsidOf(kind) \in Csids /\ (CsidOf(kind) = 2 <=> kind \in Control)
  BY Constants DEF CsidOf, Csids, KnownKinds, Control

\* Read finds the format and the chunk stream that writeHeader wrote.
LEMMA BasicRead ==
  ASSUME NEW f \in 0..3, NEW c \in Csids
  PROVE  BasicHeader(f, c).fmt = f /\ ReadBasic(BasicHeader(f, c)) = c
<1>1. c \in Nat /\ c >= 2 /\ c <= 65599
  BY Constants DEF Csids
<1>2. CASE c < 64
  BY <1>1, <1>2 DEF BasicHeader, ReadBasic
<1>3. CASE c >= 64 /\ c < 320
  BY <1>1, <1>3 DEF BasicHeader, ReadBasic
<1>4. CASE c >= 320
  <2>1. BasicHeader(f, c) = [fmt |-> f, id |-> 1, rest |-> <<(c - 64) % 256, (c - 64) \div 256>>]
    BY <1>1, <1>4 DEF BasicHeader
  <2>2. ((c - 64) % 256) + 256 * ((c - 64) \div 256) + 64 = c
    BY <1>1, <1>4
  <2> QED  BY <2>1, <2>2 DEF ReadBasic
<1> QED  BY <1>1, <1>2, <1>3, <1>4

\* A minimum of two numbers.
LEMMA LeastIs ==
  ASSUME NEW a \in Nat, NEW b \in Nat
  PROVE  Least(a, b) \in Nat /\ Least(a, b) <= a /\ Least(a, b) <= b
         /\ (Least(a, b) = a \/ Least(a, b) = b)
  BY DEF Least

\* A difference of two numbers.
LEMMA Minus ==
  ASSUME NEW a \in Nat, NEW b \in Nat, b <= a
  PROVE  /\ a - b \in Nat /\ a - b <= a /\ b + (a - b) = a
         /\ 0 < b => a - b < a
         /\ b # a => 0 < a - b
  OBVIOUS

\* Products with a chunk size.
LEMMA Product ==
  ASSUME NEW a \in Nat, NEW b \in Nat, NEW s \in Nat \ {0}
  PROVE  /\ a * s \in Nat
         /\ (a + 1) * s = a * s + s
         /\ a <= b => a * s <= b * s
  OBVIOUS

\* How many chunks writeChunk cuts a message into: each begins inside the message, and
\* together they reach its end.
LEMMA ChunkCount ==
  ASSUME NEW len \in Nat \ {0}, NEW s \in Nat \ {0}, NEW K, K = (len + s - 1) \div s
  PROVE  K \in Nat /\ K >= 1 /\ len <= K * s /\ (K - 1) * s < len
<1>1. K \in Nat /\ K * s <= len + s - 1 /\ len + s - 1 < K * s + s
  OBVIOUS
<1>2. K # 0
  BY <1>1
<1>3. (K - 1) * s + s = K * s
  BY <1>1, <1>2, Product
<1> QED  BY <1>1, <1>2, <1>3

\* The first element of a sequence taken away.
LEMMA TailIs ==
  ASSUME NEW S, NEW q \in Seq(S), q # <<>>
  PROVE  /\ Tail(q) \in Seq(S) /\ Len(q) \in Nat /\ Len(q) >= 1 /\ Len(Tail(q)) = Len(q) - 1
         /\ Head(q) = q[1] /\ \A i \in 1..(Len(q) - 1) : Tail(q)[i] = q[i + 1]
  OBVIOUS

\* A sequence put after another.
LEMMA ConcatIs ==
  ASSUME NEW S, NEW q \in Seq(S), NEW r \in Seq(S)
  PROVE  /\ q \o r \in Seq(S) /\ Len(q) \in Nat /\ Len(r) \in Nat /\ Len(q \o r) = Len(q) + Len(r)
         /\ \A i \in 1..Len(q) : (q \o r)[i] = q[i]
         /\ \A i \in 1..Len(r) : (q \o r)[Len(q) + i] = r[i]
  OBVIOUS

\* One element put after a sequence.
LEMMA AppendIs ==
  ASSUME NEW S, NEW q \in Seq(S), NEW e \in S
  PROVE  /\ Append(q, e) \in Seq(S) /\ Len(q) \in Nat /\ Len(Append(q, e)) = Len(q) + 1
         /\ \A i \in 1..Len(q) : Append(q, e)[i] = q[i]
         /\ Append(q, e)[Len(q) + 1] = e
  OBVIOUS

-----------------------------------------------------------------------------
(* The chain when a chunk is read *)

\* Places move one down; what was at place 1 is at the reader now.
LEMMA PrecedesTail ==
  ASSUME NEW w \in Seq(ChunkRec), w # <<>>, NEW ms, NEW c, NEW i \in 1..Len(w), NEW j \in 0..(i - 1),
         Precedes(Tail(w), ms, c, j, i)
  PROVE  /\ i + 1 \in 1..(Len(w) + 1)
         /\ j # 0 => j + 1 \in 0..i /\ Precedes(w, ms, c, j + 1, i + 1)
         /\ j = 0 /\ On(w, ms, c, 1) => Precedes(w, ms, c, 1, i + 1)
         /\ j = 0 /\ ~On(w, ms, c, 1) => Precedes(w, ms, c, 0, i + 1)
<1>1. /\ Len(w) \in Nat /\ Len(Tail(w)) = Len(w) - 1
      /\ \A k \in 1..(Len(w) - 1) : Tail(w)[k] = w[k + 1]
  BY TailIs
<1>2. \A k \in 1..(i - 1) : On(Tail(w), ms, c, k) <=> On(w, ms, c, k + 1)
  BY <1>1 DEF On
<1>3. \A k \in (j + 2)..i : ~On(w, ms, c, k)
  <2> SUFFICES ASSUME NEW k \in (j + 2)..i  PROVE ~On(w, ms, c, k)
    OBVIOUS
  <2>1. k - 1 \in (j + 1)..(i - 1) /\ k - 1 \in 1..(i - 1) /\ (k - 1) + 1 = k
    OBVIOUS
  <2>2. ~On(Tail(w), ms, c, k - 1)
    BY <2>1 DEF Precedes
  <2> QED  BY <1>2, <2>1, <2>2
<1>4. j # 0 => On(w, ms, c, j + 1)
  <2> SUFFICES ASSUME j # 0  PROVE On(w, ms, c, j + 1)
    OBVIOUS
  <2>1. j \in 1..(i - 1)
    OBVIOUS
  <2>2. On(Tail(w), ms, c, j)
    BY DEF Precedes
  <2> QED  BY <1>2, <2>1, <2>2
<1>5. j = 0 => \A k \in 2..i : ~On(w, ms, c, k)
  BY <1>3
<1>6. ASSUME j # 0  PROVE j + 1 \in 0..i /\ Precedes(w, ms, c, j + 1, i + 1)
  <2>1. (i + 1) - 1 = i /\ (j + 1) + 1 = j + 2 /\ j + 1 # 0
    OBVIOUS
  <2> QED  BY <1>3, <1>4, <1>6, <2>1 DEF Precedes
<1>7. ASSUME j = 0, On(w, ms, c, 1)  PROVE Precedes(w, ms, c, 1, i + 1)
  <2>1. (i + 1) - 1 = i /\ 1 + 1 = 2 /\ 1 \in 0..i
    OBVIOUS
  <2> QED  BY <1>5, <1>7, <2>1 DEF Precedes
<1>8. ASSUME j = 0, ~On(w, ms, c, 1)  PROVE Precedes(w, ms, c, 0, i + 1)
  <2>1. (i + 1) - 1 = i /\ 0 + 1 = 1 /\ 0 \in 0..i /\ \A k \in 1..i : k = 1 \/ k \in 2..i
    OBVIOUS
  <2>2. \A k \in 1..i : ~On(w, ms, c, k)
    BY <1>5, <1>8, <2>1
  <2> QED  BY <2>1, <2>2 DEF Precedes
<1> QED  BY <1>1, <1>6, <1>7, <1>8

\* The links that remain when the reader has taken in the first chunk.
LEMMA ChainTail ==
  ASSUME NEW w \in Seq(ChunkRec), w # <<>>, NEW ms, NEW cs, NEW cs2, NEW c, NEW o, NEW l,
         ChainOn(w, ms, cs, c), EndOn(w, ms, cs, o, l, c),
         IF On(w, ms, c, 1) THEN cs2.msg = w[1].msg /\ cs2.index = w[1].to
         ELSE cs2.msg = cs.msg /\ cs2.index = cs.index
  PROVE  ChainOn(Tail(w), ms, cs2, c) /\ EndOn(Tail(w), ms, cs2, o, l, c)
<1>1. /\ Len(w) \in Nat /\ Len(w) >= 1 /\ Len(Tail(w)) = Len(w) - 1
      /\ \A k \in 1..(Len(w) - 1) : Tail(w)[k] = w[k + 1]
  BY TailIs
<1>2. ASSUME NEW i \in 1..Len(w), NEW j \in 0..(i - 1), Precedes(Tail(w), ms, c, j, i)
      PROVE  \E jj \in 0..i :
               /\ Precedes(w, ms, c, jj, i + 1)
               /\ AtMsg(w, cs, jj) = AtMsg(Tail(w), cs2, j)
               /\ AtPos(w, cs, jj) = AtPos(Tail(w), cs2, j)
  <2>1. CASE j # 0
    <3>1. j + 1 \in 0..i /\ Precedes(w, ms, c, j + 1, i + 1)
      BY <1>2, <2>1, PrecedesTail
    <3>2. j \in 1..(Len(w) - 1) /\ j + 1 # 0
      BY <1>1, <2>1
    <3> QED  BY <1>1, <2>1, <3>1, <3>2 DEF AtMsg, AtPos
  <2>2. CASE j = 0 /\ On(w, ms, c, 1)
    <3>1. Precedes(w, ms, c, 1, i + 1)
      BY <1>2, <2>2, PrecedesTail
    <3>2. 1 \in 0..i
      OBVIOUS
    <3> QED  BY <2>2, <3>1, <3>2 DEF AtMsg, AtPos
  <2>3. CASE j = 0 /\ ~On(w, ms, c, 1)
    <3>1. Precedes(w, ms, c, 0, i + 1)
      BY <1>2, <2>3, PrecedesTail
    <3>2. 0 \in 0..i
      OBVIOUS
    <3> QED  BY <2>3, <3>1, <3>2 DEF AtMsg, AtPos
  <2> QED  BY <2>1, <2>2, <2>3
<1>3. ChainOn(Tail(w), ms, cs2, c)
  <2> SUFFICES ASSUME NEW i \in 1..Len(Tail(w)), NEW j \in 0..(i - 1),
                      On(Tail(w), ms, c, i), Precedes(Tail(w), ms, c, j, i)
               PROVE  Goes(ms, c, AtMsg(Tail(w), cs2, j), AtPos(Tail(w), cs2, j), Tail(w)[i])
    BY DEF ChainOn
  <2>1. i \in 1..Len(w) /\ i + 1 \in 1..Len(w) /\ Tail(w)[i] = w[i + 1] /\ (i + 1) - 1 = i
    BY <1>1
  <2>2. PICK jj \in 0..i :
          /\ Precedes(w, ms, c, jj, i + 1)
          /\ AtMsg(w, cs, jj) = AtMsg(Tail(w), cs2, j)
          /\ AtPos(w, cs, jj) = AtPos(Tail(w), cs2, j)
    BY <1>2, <2>1
  <2>3. On(w, ms, c, i + 1)
    BY <2>1 DEF On
  <2>4. Goes(ms, c, AtMsg(w, cs, jj), AtPos(w, cs, jj), w[i + 1])
    BY <2>1, <2>2, <2>3 DEF ChainOn
  <2> QED  BY <2>1, <2>2, <2>4
<1>4. EndOn(Tail(w), ms, cs2, o, l, c)
  <2> SUFFICES ASSUME NEW j \in 0..Len(Tail(w)), Precedes(Tail(w), ms, c, j, Len(Tail(w)) + 1)
               PROVE  Ends(ms, o, l, c, AtMsg(Tail(w), cs2, j), AtPos(Tail(w), cs2, j))
    BY DEF EndOn
  <2>1. Len(w) \in 1..Len(w) /\ j \in 0..(Len(w) - 1) /\ Len(Tail(w)) + 1 = Len(w)
    BY <1>1
  <2>2. PICK jj \in 0..Len(w) :
          /\ Precedes(w, ms, c, jj, Len(w) + 1)
          /\ AtMsg(w, cs, jj) = AtMsg(Tail(w), cs2, j)
          /\ AtPos(w, cs, jj) = AtPos(Tail(w), cs2, j)
    BY <1>2, <2>1
  <2>3. Ends(ms, o, l, c, AtMsg(w, cs, jj), AtPos(w, cs, jj))
    BY <2>2 DEF EndOn
  <2> QED  BY <2>2, <2>3
<1> QED  BY <1>3, <1>4

\* The same of the chunk sizes.
LEMMA SizesTail ==
  ASSUME NEW w \in Seq(ChunkRec), w # <<>>, NEW ms, NEW size, NEW size2, NEW last,
         SizesOn(w, ms, size, last),
         IF On(w, ms, 2, 1) THEN size2 = ms[w[1].msg].size ELSE size2 = size
  PROVE  SizesOn(Tail(w), ms, size2, last)
<1>1. /\ Len(w) \in Nat /\ Len(w) >= 1 /\ Len(Tail(w)) = Len(w) - 1
      /\ \A k \in 1..(Len(w) - 1) : Tail(w)[k] = w[k + 1]
  BY TailIs
<1>2. ASSUME NEW i \in 1..Len(w), NEW j \in 0..(i - 1), Precedes(Tail(w), ms, 2, j, i)
      PROVE  \E jj \in 0..i :
               /\ Precedes(w, ms, 2, jj, i + 1)
               /\ SizeAt(w, ms, size, jj) = SizeAt(Tail(w), ms, size2, j)
  <2>1. CASE j # 0
    <3>1. j + 1 \in 0..i /\ Precedes(w, ms, 2, j + 1, i + 1)
      BY <1>2, <2>1, PrecedesTail
    <3>2. j \in 1..(Len(w) - 1) /\ j + 1 # 0
      BY <1>1, <2>1
    <3> QED  BY <1>1, <2>1, <3>1, <3>2 DEF SizeAt
  <2>2. CASE j = 0 /\ On(w, ms, 2, 1)
    <3>1. Precedes(w, ms, 2, 1, i + 1)
      BY <1>2, <2>2, PrecedesTail
    <3>2. 1 \in 0..i
      OBVIOUS
    <3> QED  BY <2>2, <3>1, <3>2 DEF SizeAt
  <2>3. CASE j = 0 /\ ~On(w, ms, 2, 1)
    <3>1. Precedes(w, ms, 2, 0, i + 1)
      BY <1>2, <2>3, PrecedesTail
    <3>2. 0 \in 0..i
      OBVIOUS
    <3> QED  BY <2>3, <3>1, <3>2 DEF SizeAt
  <2> QED  BY <2>1, <2>2, <2>3
<1>3. ASSUME NEW i \in 1..Len(Tail(w)), NEW j \in 0..(i - 1), Precedes(Tail(w), ms, 2, j, i)
      PROVE  /\ Cut(ms, Tail(w)[i], SizeAt(Tail(w), ms, size2, j))
             /\ Keeps(ms, Tail(w)[i], SizeAt(Tail(w), ms, size2, j))
  <2>1. i \in 1..Len(w) /\ i + 1 \in 1..Len(w) /\ Tail(w)[i] = w[i + 1] /\ (i + 1) - 1 = i
    BY <1>1
  <2>2. PICK jj \in 0..i : /\ Precedes(w, ms, 2, jj, i + 1)
                           /\ SizeAt(w, ms, size, jj) = SizeAt(Tail(w), ms, size2, j)
    BY <1>2, <1>3, <2>1
  <2>3. Cut(ms, w[i + 1], SizeAt(w, ms, size, jj)) /\ Keeps(ms, w[i + 1], SizeAt(w, ms, size, jj))
    BY <2>1, <2>2 DEF SizesOn
  <2> QED  BY <2>1, <2>2, <2>3
<1>4. ASSUME NEW j \in 0..Len(Tail(w)), Precedes(Tail(w), ms, 2, j, Len(Tail(w)) + 1)
      PROVE  last = SizeAt(Tail(w), ms, size2, j)
  <2>1. Len(w) \in 1..Len(w) /\ j \in 0..(Len(w) - 1) /\ Len(Tail(w)) + 1 = Len(w)
    BY <1>1
  <2>2. PICK jj \in 0..Len(w) : /\ Precedes(w, ms, 2, jj, Len(w) + 1)
                                /\ SizeAt(w, ms, size, jj) = SizeAt(Tail(w), ms, size2, j)
    BY <1>2, <1>4, <2>1
  <2> QED  BY <2>2 DEF SizesOn
<1> QED  BY <1>3, <1>4 DEF SizesOn

-----------------------------------------------------------------------------
(* The chain when chunks are written *)

\* ms2 has the messages of ms, and perhaps more.
Longer(ms, ms2) ==
  /\ Len(ms) \in Nat /\ Len(ms2) \in Nat /\ Len(ms) <= Len(ms2)
  /\ \A k \in 1..Len(ms) : ms2[k] = ms[k]

\* u is w, chunks of messages of ms, and after it v, chunks of message n of ms2.
Writes(u, w, v, ms, ms2, n) ==
  /\ Len(u) = Len(w) + Len(v)
  /\ \A i \in 1..Len(w) : u[i] = w[i]
  /\ \A i \in 1..Len(v) : u[Len(w) + i] = v[i]
  /\ w \in Seq(ChunkRec) /\ v \in Seq(ChunkRec) /\ Len(v) >= 1
  /\ Longer(ms, ms2) /\ n \in 1..Len(ms2)
  /\ \A k \in 1..Len(v) : v[k].msg = n
  /\ \A k \in 1..Len(w) : w[k].msg \in 1..Len(ms)

\* What these sequences are.
LEMMA WritesIs ==
  ASSUME NEW u, NEW w, NEW v, NEW ms, NEW ms2, NEW n, Writes(u, w, v, ms, ms2, n)
  PROVE  /\ Len(w) \in Nat /\ Len(v) \in Nat /\ Len(v) >= 1 /\ Len(u) = Len(w) + Len(v)
         /\ \A i \in 1..Len(w) : u[i] = w[i]
         /\ \A i \in 1..Len(v) : u[Len(w) + i] = v[i]
  BY DEF Writes

\* The chunks of w are on c as they were.
LEMMA OnOld ==
  ASSUME NEW u, NEW w, NEW v, NEW ms, NEW ms2, NEW n, Writes(u, w, v, ms, ms2, n), NEW c,
         NEW i \in 1..Len(w)
  PROVE  On(u, ms2, c, i) <=> On(w, ms, c, i)
<1>1. u[i] = w[i] /\ w[i].msg \in 1..Len(ms)
  BY DEF Writes
<1>2. ms2[w[i].msg] = ms[w[i].msg]
  BY <1>1 DEF Writes, Longer
<1> QED  BY <1>1, <1>2 DEF On

\* The chunks of v are on the chunk stream of message n.
LEMMA OnNew ==
  ASSUME NEW u, NEW w, NEW v, NEW ms, NEW ms2, NEW n, Writes(u, w, v, ms, ms2, n), NEW c,
         NEW i \in (Len(w) + 1)..(Len(w) + Len(v))
  PROVE  /\ ms2[n].csid = c => On(u, ms2, c, i)
         /\ ms2[n].csid # c => ~On(u, ms2, c, i)
<1>1. i - Len(w) \in 1..Len(v) /\ Len(w) + (i - Len(w)) = i
  BY WritesIs
<1>2. u[i] = v[i - Len(w)]
  BY <1>1, WritesIs
<1>3. v[i - Len(w)].msg = n
  BY <1>1 DEF Writes
<1> QED  BY <1>2, <1>3 DEF On

\* Up to the first chunk of v, places have the same predecessors.
LEMMA PrecedesOld ==
  ASSUME NEW u, NEW w, NEW v, NEW ms, NEW ms2, NEW n, NEW c, Writes(u, w, v, ms, ms2, n),
         NEW i \in 1..(Len(w) + 1), NEW j \in 0..(i - 1), Precedes(u, ms2, c, j, i)
  PROVE  Precedes(w, ms, c, j, i)
<1>1. /\ Len(w) \in Nat
      /\ \A k \in 1..Len(w) : On(u, ms2, c, k) <=> On(w, ms, c, k)
  BY WritesIs, OnOld
<1>2. j # 0 => j \in 1..Len(w)
  BY <1>1
<1>3. \A k \in (j + 1)..(i - 1) : k \in 1..Len(w)
  BY <1>1
<1> QED  BY <1>1, <1>2, <1>3 DEF Precedes

\* After that, on the chunk stream of v, the chunk before; elsewhere still the same.
LEMMA PrecedesNew ==
  ASSUME NEW u, NEW w, NEW v, NEW ms, NEW ms2, NEW n, NEW c, Writes(u, w, v, ms, ms2, n),
         NEW i \in (Len(w) + 1)..(Len(w) + Len(v) + 1), NEW j \in 0..(i - 1),
         Precedes(u, ms2, c, j, i)
  PROVE  /\ ms2[n].csid # c => j \in 0..Len(w) /\ Precedes(w, ms, c, j, Len(w) + 1)
         /\ ms2[n].csid = c /\ i > Len(w) + 1 => j = i - 1
<1>1. /\ Len(w) \in Nat /\ Len(v) \in Nat
      /\ \A k \in 1..Len(w) : On(u, ms2, c, k) <=> On(w, ms, c, k)
      /\ \A k \in (Len(w) + 1)..(Len(w) + Len(v)) :
           /\ ms2[n].csid = c => On(u, ms2, c, k)
           /\ ms2[n].csid # c => ~On(u, ms2, c, k)
  <2>1. Len(w) \in Nat /\ Len(v) \in Nat
    BY WritesIs
  <2>2. \A k \in 1..Len(w) : On(u, ms2, c, k) <=> On(w, ms, c, k)
    BY OnOld
  <2>3. \A k \in (Len(w) + 1)..(Len(w) + Len(v)) :
           /\ ms2[n].csid = c => On(u, ms2, c, k)
           /\ ms2[n].csid # c => ~On(u, ms2, c, k)
    BY OnNew
  <2> QED  BY <2>1, <2>2, <2>3
<1>2. /\ j # 0 => On(u, ms2, c, j)
      /\ \A k \in (j + 1)..(i - 1) : ~On(u, ms2, c, k)
  BY DEF Precedes
<1>3. ASSUME ms2[n].csid # c  PROVE j \in 0..Len(w) /\ Precedes(w, ms, c, j, Len(w) + 1)
  <2>1. j \in 0..Len(w)
    <3> SUFFICES ASSUME j > Len(w)  PROVE FALSE
      BY <1>1
    <3>1. j \in (Len(w) + 1)..(Len(w) + Len(v)) /\ j # 0
      BY <1>1
    <3> QED  BY <1>1, <1>2, <1>3, <3>1
  <2>2. j # 0 => On(w, ms, c, j)
    <3> SUFFICES ASSUME j # 0  PROVE On(w, ms, c, j)
      OBVIOUS
    <3>1. j \in 1..Len(w)
      BY <1>1, <2>1
    <3> QED  BY <1>1, <1>2, <3>1
  <2>3. \A k \in (j + 1)..((Len(w) + 1) - 1) : ~On(w, ms, c, k)
    <3> SUFFICES ASSUME NEW k \in (j + 1)..((Len(w) + 1) - 1)  PROVE ~On(w, ms, c, k)
      OBVIOUS
    <3>1. k \in (j + 1)..(i - 1) /\ k \in 1..Len(w)
      BY <1>1, <2>1
    <3> QED  BY <1>1, <1>2, <3>1
  <2>4. j \in 0..((Len(w) + 1) - 1)
    BY <1>1, <2>1
  <2> QED  BY <2>1, <2>2, <2>3, <2>4 DEF Precedes
<1>4. ASSUME ms2[n].csid = c, i > Len(w) + 1, j # i - 1  PROVE FALSE
  <2>1. i - 1 \in (j + 1)..(i - 1) /\ i - 1 \in (Len(w) + 1)..(Len(w) + Len(v))
    BY <1>1, <1>4
  <2> QED  BY <1>1, <1>2, <1>4, <2>1
<1> QED  BY <1>3, <1>4

\* A link is one whatever messages come later.
LEMMA GoesLonger ==
  ASSUME NEW ms, NEW ms2, Longer(ms, ms2), NEW c, NEW n \in 0..Len(ms), NEW pos, NEW ch,
         ch.msg \in 1..Len(ms), Goes(ms, c, n, pos, ch)
  PROVE  Goes(ms2, c, n, pos, ch)
<1>1. n # 0 => ms2[n] = ms[n]
  BY DEF Longer
<1>2. \A k \in (n + 1)..(ch.msg - 1) : ms2[k] = ms[k]
  BY DEF Longer
<1> QED  BY <1>1, <1>2 DEF Goes

\* Where c is, at any place of the wire, is at a message sent.
LEMMA AtMsgIs ==
  ASSUME NEW u, NEW w, NEW v, NEW ms, NEW ms2, NEW n, Writes(u, w, v, ms, ms2, n),
         NEW cs, cs.msg \in 0..Len(ms), NEW j \in 0..Len(w)
  PROVE  /\ AtMsg(w, cs, j) \in 0..Len(ms)
         /\ AtMsg(u, cs, j) = AtMsg(w, cs, j) /\ AtPos(u, cs, j) = AtPos(w, cs, j)
<1>1. Len(w) \in Nat /\ \A k \in 1..Len(w) : u[k] = w[k]
  BY WritesIs
<1>2. CASE j = 0
  BY <1>2 DEF AtMsg, AtPos
<1>3. CASE j # 0
  <2>1. j \in 1..Len(w)
    BY <1>1, <1>3
  <2>2. w[j].msg \in 1..Len(ms) /\ Len(ms) \in Nat
    BY <2>1 DEF Writes, Longer
  <2> QED  BY <1>1, <1>3, <2>1, <2>2 DEF AtMsg, AtPos
<1> QED  BY <1>2, <1>3

\* The links and the end of a chunk stream other than that of the message written.
LEMMA ChainOther ==
  ASSUME NEW u, NEW w, NEW v, NEW ms, NEW ms2, NEW n, Writes(u, w, v, ms, ms2, n), NEW cs, NEW c, NEW o, NEW l,
         cs.msg \in 0..Len(ms), ChainOn(w, ms, cs, c), EndOn(w, ms, cs, o, l, c), o \in 0..Len(ms),
         \A k \in (Len(ms) + 1)..Len(ms2) : k = n, ms2[n].csid # c
  PROVE  ChainOn(u, ms2, cs, c) /\ EndOn(u, ms2, cs, o, l, c)
<1>1. /\ Len(w) \in Nat /\ Len(v) \in Nat /\ Len(u) = Len(w) + Len(v)
      /\ \A i \in 1..Len(w) : On(u, ms2, c, i) <=> On(w, ms, c, i)
      /\ \A i \in (Len(w) + 1)..(Len(w) + Len(v)) : ~On(u, ms2, c, i)
      /\ \A i \in 1..Len(w) : u[i] = w[i]
  <2>1. Writes(u, w, v, ms, ms2, n) /\ ms2[n].csid # c
    OBVIOUS
  <2>2. /\ Len(w) \in Nat /\ Len(v) \in Nat /\ Len(u) = Len(w) + Len(v)
        /\ \A i \in 1..Len(w) : u[i] = w[i]
    BY ONLY <2>1, WritesIs
  <2>3. \A i \in 1..Len(w) : On(u, ms2, c, i) <=> On(w, ms, c, i)
    BY ONLY <2>1, OnOld
  <2>4. \A i \in (Len(w) + 1)..(Len(w) + Len(v)) : ~On(u, ms2, c, i)
    BY ONLY <2>1, OnNew
  <2> QED  BY <2>2, <2>3, <2>4
<1>2. ASSUME NEW i \in 1..Len(u), NEW j \in 0..(i - 1),
             On(u, ms2, c, i), Precedes(u, ms2, c, j, i)
      PROVE  Goes(ms2, c, AtMsg(u, cs, j), AtPos(u, cs, j), u[i])
  <2>1. i \in 1..Len(w) /\ i \in 1..(Len(w) + 1) /\ j \in 0..Len(w)
    BY <1>1, <1>2
  <2>2. Precedes(w, ms, c, j, i)
    BY <1>2, <2>1, PrecedesOld
  <2>3. Goes(ms, c, AtMsg(w, cs, j), AtPos(w, cs, j), w[i])
    BY <1>1, <1>2, <2>1, <2>2 DEF ChainOn
  <2>4. Longer(ms, ms2) /\ w[i].msg \in 1..Len(ms)
    BY <2>1 DEF Writes
  <2>5. Goes(ms2, c, AtMsg(w, cs, j), AtPos(w, cs, j), w[i])
    BY <2>1, <2>3, <2>4, AtMsgIs, GoesLonger
  <2> QED  BY <1>1, <2>1, <2>5, AtMsgIs
<1>3. ASSUME NEW j \in 0..Len(u), Precedes(u, ms2, c, j, Len(u) + 1)
      PROVE  Ends(ms2, o, l, c, AtMsg(u, cs, j), AtPos(u, cs, j))
  <2>1. /\ Len(u) + 1 \in (Len(w) + 1)..(Len(w) + Len(v) + 1)
        /\ j \in 0..((Len(u) + 1) - 1)
    BY <1>1
  <2>2. j \in 0..Len(w) /\ Precedes(w, ms, c, j, Len(w) + 1)
    BY <1>3, <2>1, PrecedesNew
  <2>3. Ends(ms, o, l, c, AtMsg(w, cs, j), AtPos(w, cs, j))
    BY <2>2 DEF EndOn
  <2>4. AtMsg(w, cs, j) \in 0..Len(ms)
    BY <2>2, AtMsgIs
  <2>5. /\ Len(ms) \in Nat /\ Len(ms2) \in Nat /\ Len(ms) <= Len(ms2)
        /\ \A k \in 1..Len(ms) : ms2[k] = ms[k]
    BY DEF Writes, Longer
  <2>6. \A k \in (AtMsg(w, cs, j) + 1)..Len(ms2) : ms2[k].csid # c
    <3> SUFFICES ASSUME NEW k \in (AtMsg(w, cs, j) + 1)..Len(ms2)  PROVE ms2[k].csid # c
      OBVIOUS
    <3>1. CASE k <= Len(ms)
      <4>1. k \in 1..Len(ms) /\ k \in (AtMsg(w, cs, j) + 1)..Len(ms)
        BY <2>4, <2>5, <3>1
      <4> QED  BY <2>3, <2>5, <4>1 DEF Ends
    <3>2. CASE k > Len(ms)
      <4>1. k \in (Len(ms) + 1)..Len(ms2)
        BY <2>4, <2>5, <3>2
      <4> QED  BY <4>1
    <3> QED  BY <2>4, <2>5, <3>1, <3>2
  <2>7. AtMsg(w, cs, j) # 0 => ms2[AtMsg(w, cs, j)] = ms[AtMsg(w, cs, j)]
    BY <2>4, <2>5
  <2>8. Ends(ms2, o, l, c, AtMsg(w, cs, j), AtPos(w, cs, j))
    <3>1. CASE o = 0
      BY <2>3, <2>6, <2>7, <3>1 DEF Ends
    <3>2. CASE o # 0
      BY <2>3, <2>6, <2>7, <3>2 DEF Ends
    <3> QED  BY <3>1, <3>2
  <2> QED  BY <2>2, <2>8, AtMsgIs
<1> QED  BY <1>2, <1>3 DEF ChainOn, EndOn

\* Message n is on c; chunk ch may come wherever the sender may be on c; each chunk of v
\* comes after the one before.
OfStream(ms, n, c) == ms[n].csid = c
Joins(ms, ms2, o, l, c, ch) ==
  \A p \in 0..Len(ms), pos \in Nat : Ends(ms, o, l, c, p, pos) => Goes(ms2, c, p, pos, ch)
Threads(ms, c, n, v) == \A k \in 2..Len(v) : Goes(ms, c, n, v[k - 1].to, v[k])

\* The links and the end of the chunk stream of the message written.
LEMMA ChainSame ==
  ASSUME NEW u, NEW w, NEW v, NEW ms, NEW ms2, NEW n, Writes(u, w, v, ms, ms2, n), NEW cs, NEW c, NEW o, NEW l,
         NEW o2, NEW l2,
         cs.msg \in 0..Len(ms), cs.index \in Nat, ChainOn(w, ms, cs, c), EndOn(w, ms, cs, o, l, c),
         OfStream(ms2, n, c),
         Joins(ms, ms2, o, l, c, v[1]), Threads(ms2, c, n, v),
         Ends(ms2, o2, l2, c, n, v[Len(v)].to)
  PROVE  ChainOn(u, ms2, cs, c) /\ EndOn(u, ms2, cs, o2, l2, c)
<1>1. /\ Len(w) \in Nat /\ Len(v) \in Nat /\ Len(v) >= 1 /\ Len(u) = Len(w) + Len(v)
      /\ \A i \in 1..Len(w) : On(u, ms2, c, i) <=> On(w, ms, c, i)
      /\ \A i \in 1..Len(w) : u[i] = w[i]
      /\ \A i \in 1..Len(v) : u[Len(w) + i] = v[i]
  <2>1. /\ Len(w) \in Nat /\ Len(v) \in Nat /\ Len(v) >= 1 /\ Len(u) = Len(w) + Len(v)
        /\ \A i \in 1..Len(w) : u[i] = w[i]
        /\ \A i \in 1..Len(v) : u[Len(w) + i] = v[i]
    BY ONLY Writes(u, w, v, ms, ms2, n), WritesIs
  <2>2. \A i \in 1..Len(w) : On(u, ms2, c, i) <=> On(w, ms, c, i)
    BY ONLY Writes(u, w, v, ms, ms2, n), OnOld
  <2> QED  BY ONLY <2>1, <2>2
<1>2. ASSUME NEW i \in 1..Len(u), NEW j \in 0..(i - 1),
             On(u, ms2, c, i), Precedes(u, ms2, c, j, i)
      PROVE  Goes(ms2, c, AtMsg(u, cs, j), AtPos(u, cs, j), u[i])
  <2>1. CASE i <= Len(w)
    <3>1. i \in 1..Len(w) /\ i \in 1..(Len(w) + 1) /\ j \in 0..Len(w)
      BY <1>1, <2>1
    <3>2. Precedes(w, ms, c, j, i)
      BY <1>2, <3>1, PrecedesOld
    <3>3. Goes(ms, c, AtMsg(w, cs, j), AtPos(w, cs, j), w[i])
      BY <1>1, <1>2, <3>1, <3>2 DEF ChainOn
    <3>4. Longer(ms, ms2) /\ w[i].msg \in 1..Len(ms)
      BY <3>1 DEF Writes
    <3>5. Goes(ms2, c, AtMsg(w, cs, j), AtPos(w, cs, j), w[i])
      BY <3>1, <3>3, <3>4, AtMsgIs, GoesLonger
    <3> QED  BY <1>1, <3>1, <3>5, AtMsgIs
  <2>2. CASE i = Len(w) + 1
    <3>1. i \in 1..(Len(w) + 1) /\ j \in 0..Len(w) /\ 1 \in 1..Len(v)
      BY <1>1, <2>2
    <3>2. Precedes(w, ms, c, j, Len(w) + 1)
      BY <1>2, <2>2, <3>1, PrecedesOld
    <3>3. Ends(ms, o, l, c, AtMsg(w, cs, j), AtPos(w, cs, j))
      BY <3>1, <3>2 DEF EndOn
    <3>4. AtMsg(w, cs, j) \in 0..Len(ms) /\ AtPos(w, cs, j) \in Nat
      <4>1. AtMsg(w, cs, j) \in 0..Len(ms)
        BY <3>1, AtMsgIs
      <4>2. j # 0 => j \in 1..Len(w) /\ w \in Seq(ChunkRec)
        BY <1>1, <3>1 DEF Writes
      <4>3. j # 0 => w[j] \in ChunkRec
        BY <4>2
      <4>4. j # 0 => w[j].to \in Nat
        BY <4>3 DEF ChunkRec
      <4> QED  BY <4>1, <4>4 DEF AtPos
    <3>5. Goes(ms2, c, AtMsg(w, cs, j), AtPos(w, cs, j), v[1])
      BY <3>3, <3>4 DEF Joins
    <3> QED  BY <1>1, <2>2, <3>1, <3>5, AtMsgIs
  <2>3. CASE i > Len(w) + 1
    <3>1. /\ i \in (Len(w) + 1)..(Len(w) + Len(v) + 1)
          /\ i - Len(w) \in 2..Len(v) /\ Len(w) + (i - Len(w)) = i
      <4> DEFINE W == Len(w)
      <4> DEFINE V == Len(v)
      <4>1. W \in Nat /\ V \in Nat /\ i \in 1..(W + V) /\ i > W + 1
        BY <1>1, <2>3
      <4> HIDE DEF W, V
      <4>2. i \in (W + 1)..(W + V + 1) /\ i - W \in 2..V /\ W + (i - W) = i
        BY ONLY <4>1
      <4> QED  BY <4>2 DEF W, V
    <3>2. j = i - 1
      BY <1>2, <2>3, <3>1, PrecedesNew DEF OfStream
    <3>3. (i - Len(w)) - 1 \in 1..Len(v) /\ Len(w) + ((i - Len(w)) - 1) = j /\ j # 0
      <4>1. /\ Len(w) \in Nat /\ Len(v) \in Nat /\ i \in Nat /\ i > Len(w) + 1
            /\ i <= Len(w) + Len(v)
        BY <1>1, <2>3, <3>1
      <4> QED  BY <3>2, <4>1
    <3>4. u[i] = v[i - Len(w)] /\ u[j] = v[(i - Len(w)) - 1]
      <4> DEFINE k == i - Len(w)
      <4>1. k \in 1..Len(v) /\ Len(w) + k = i /\ k - 1 \in 1..Len(v) /\ Len(w) + (k - 1) = j
        BY <3>1, <3>3
      <4> HIDE DEF k
      <4>2. u[Len(w) + k] = v[k] /\ u[Len(w) + (k - 1)] = v[k - 1]
        BY <1>1, <4>1
      <4>3. u[i] = v[k] /\ u[j] = v[k - 1]
        BY <4>1, <4>2
      <4> QED  BY <4>3 DEF k
    <3>5. v[(i - Len(w)) - 1].msg = n
      BY <3>3 DEF Writes
    <3>6. Goes(ms2, c, n, v[(i - Len(w)) - 1].to, v[i - Len(w)])
      BY <3>1 DEF Threads
    <3> QED  BY <3>3, <3>4, <3>5, <3>6 DEF AtMsg, AtPos
  <2> QED  BY <1>1, <2>1, <2>2, <2>3
<1>3. ASSUME NEW j \in 0..Len(u), Precedes(u, ms2, c, j, Len(u) + 1)
      PROVE  Ends(ms2, o2, l2, c, AtMsg(u, cs, j), AtPos(u, cs, j))
  <2>1. /\ Len(u) + 1 \in (Len(w) + 1)..(Len(w) + Len(v) + 1)
        /\ Len(u) + 1 > Len(w) + 1 /\ j \in 0..((Len(u) + 1) - 1)
    BY <1>1
  <2>2. j = (Len(u) + 1) - 1
    BY <1>3, <2>1, PrecedesNew DEF OfStream
  <2>3. j = Len(w) + Len(v) /\ j # 0 /\ Len(v) \in 1..Len(v)
    BY <1>1, <2>2
  <2>4. u[j] = v[Len(v)]
    BY <1>1, <2>3
  <2>5. v[Len(v)].msg = n
    BY <2>3 DEF Writes
  <2> QED  BY <2>3, <2>4, <2>5 DEF AtMsg, AtPos
<1> QED  BY <1>2, <1>3 DEF ChainOn, EndOn

\* The chunk sizes after a message is written, cut at the sender's chunk size or, if it
\* is one of the protocol, in one chunk.
LEMMA SizesWrite ==
  ASSUME NEW u, NEW w, NEW v, NEW ms, NEW ms2, NEW n, Writes(u, w, v, ms, ms2, n),
         NEW size, NEW last \in ChunkSizes, NEW last2, SizesOn(w, ms, size, last),
         ms2[n].csid # 2 => last2 = last /\ \A k \in 1..Len(v) : Cut(ms2, v[k], last),
         ms2[n].csid = 2 => /\ last2 = ms2[n].size /\ Len(v) = 1
                            /\ ms2[n].kind # "size" => last2 = last
                            /\ \A s \in ChunkSizes : Cut(ms2, v[1], s)
  PROVE  SizesOn(u, ms2, size, last2)
<1>1. /\ Len(w) \in Nat /\ Len(v) \in Nat /\ Len(v) >= 1 /\ Len(u) = Len(w) + Len(v)
      /\ \A i \in 1..Len(w) : u[i] = w[i]
      /\ \A i \in 1..Len(v) : u[Len(w) + i] = v[i]
  BY ONLY Writes(u, w, v, ms, ms2, n), WritesIs
<1>2. ASSUME NEW i \in 1..Len(w)  PROVE ms2[u[i].msg] = ms[w[i].msg]
  <2>1. u[i] = w[i] /\ w[i].msg \in 1..Len(ms)
    BY DEF Writes
  <2> QED  BY <2>1 DEF Writes, Longer
<1>3. ASSUME NEW j \in 0..Len(w)  PROVE SizeAt(u, ms2, size, j) = SizeAt(w, ms, size, j)
  <2>1. j # 0 => j \in 1..Len(w)
    BY <1>1
  <2> QED  BY <1>2, <2>1 DEF SizeAt
<1>4. ASSUME NEW i \in 1..Len(u), NEW j \in 0..(i - 1), Precedes(u, ms2, 2, j, i)
      PROVE  Cut(ms2, u[i], SizeAt(u, ms2, size, j)) /\ Keeps(ms2, u[i], SizeAt(u, ms2, size, j))
  <2>1. CASE i <= Len(w)
    <3>1. i \in 1..Len(w) /\ i \in 1..(Len(w) + 1) /\ j \in 0..Len(w)
      BY <1>1, <2>1
    <3>2. Precedes(w, ms, 2, j, i)
      BY <1>4, <3>1, PrecedesOld
    <3>3. Cut(ms, w[i], SizeAt(w, ms, size, j)) /\ Keeps(ms, w[i], SizeAt(w, ms, size, j))
      BY <3>1, <3>2 DEF SizesOn
    <3> QED  BY <1>1, <1>2, <1>3, <3>1, <3>3 DEF Cut, Keeps
  <2>2. CASE i > Len(w)
    <3> DEFINE k == i - Len(w)
    <3>1. k \in 1..Len(v) /\ i = Len(w) + k /\ i \in (Len(w) + 1)..(Len(w) + Len(v) + 1)
      BY <1>1, <2>2
    <3>2. u[i] = v[k] /\ v[k].msg = n
      BY <1>1, <3>1 DEF Writes
    <3> HIDE DEF k
    <3>3. CASE ms2[n].csid # 2
      <4>1. j \in 0..Len(w) /\ Precedes(w, ms, 2, j, Len(w) + 1)
        BY <1>4, <3>1, <3>3, PrecedesNew
      <4>2. SizeAt(u, ms2, size, j) = last
        BY <1>3, <4>1 DEF SizesOn
      <4> QED  BY <3>1, <3>2, <3>3, <4>2 DEF Keeps
    <3>4. CASE ms2[n].csid = 2
      <4>1. k = 1 /\ i = Len(w) + 1 /\ i \in 1..(Len(w) + 1) /\ j \in 0..Len(w)
        <5>1. Len(v) = 1
          BY <3>4
        <5>2. k = 1
          BY <3>1, <5>1
        <5>3. i = Len(w) + 1
          BY <3>1, <5>2
        <5> QED  BY <1>1, <5>2, <5>3
      <4>2. Precedes(w, ms, 2, j, Len(w) + 1)
        BY <1>4, <4>1, PrecedesOld
      <4>3. SizeAt(u, ms2, size, j) = last
        BY <1>3, <4>1, <4>2 DEF SizesOn
      <4>4. Keeps(ms2, v[k], last)
        BY <3>2, <3>4 DEF Keeps
      <4> QED  BY <3>2, <3>4, <4>1, <4>3, <4>4
    <3> QED  BY <3>3, <3>4
  <2> QED  BY <1>1, <2>1, <2>2
<1>5. ASSUME NEW j \in 0..Len(u), Precedes(u, ms2, 2, j, Len(u) + 1)
      PROVE  last2 = SizeAt(u, ms2, size, j)
  <2>1. /\ Len(u) + 1 \in (Len(w) + 1)..(Len(w) + Len(v) + 1) /\ Len(u) + 1 > Len(w) + 1
        /\ j \in 0..((Len(u) + 1) - 1)
    BY <1>1
  <2>2. CASE ms2[n].csid # 2
    <3>1. j \in 0..Len(w) /\ Precedes(w, ms, 2, j, Len(w) + 1)
      BY <1>5, <2>1, <2>2, PrecedesNew
    <3>2. SizeAt(u, ms2, size, j) = last
      BY <1>3, <3>1 DEF SizesOn
    <3> QED  BY <2>2, <3>2
  <2>3. CASE ms2[n].csid = 2
    <3>1. j = (Len(u) + 1) - 1
      BY <1>5, <2>1, <2>3, PrecedesNew
    <3>2. j = Len(w) + 1 /\ j # 0 /\ 1 \in 1..Len(v)
      <4>1. Len(v) = 1
        BY <2>3
      <4> QED  BY <1>1, <3>1, <4>1
    <3>3. u[j] = v[1] /\ v[1].msg = n
      BY <1>1, <3>2 DEF Writes
    <3> QED  BY <2>3, <3>2, <3>3 DEF SizeAt
  <2> QED  BY <2>2, <2>3
<1> QED  BY <1>4, <1>5 DEF SizesOn

-----------------------------------------------------------------------------
(* The data on the wire *)

\* The data of the first chunk leaves the wire when it is read.
LEMMA TotalsTail ==
  ASSUME NEW w \in Seq(ChunkRec), w # <<>>, NEW f, Totals(f, w)
  PROVE  \E g \in [0..Len(Tail(w)) -> Nat] :
           Totals(g, Tail(w)) /\ f[0] \in Nat /\ f[0] = g[0] + (w[1].to - w[1].from)
<1>1. /\ Len(w) \in Nat /\ Len(w) >= 1 /\ Len(Tail(w)) = Len(w) - 1
      /\ \A k \in 1..(Len(w) - 1) : Tail(w)[k] = w[k + 1]
  BY TailIs
<1>2. /\ f \in [0..Len(w) -> Nat] /\ f[Len(w)] = 0
      /\ \A i \in 1..Len(w) : f[i - 1] = f[i] + (w[i].to - w[i].from)
  BY DEF Totals
<1> DEFINE g == [i \in 0..(Len(w) - 1) |-> f[i + 1]]
<1>3. g \in [0..(Len(w) - 1) -> Nat] /\ g[Len(w) - 1] = 0 /\ g[0] = f[1]
  <2>1. \A i \in 0..(Len(w) - 1) : f[i + 1] \in Nat
    BY <1>1, <1>2
  <2>2. Len(w) - 1 \in 0..(Len(w) - 1) /\ 0 \in 0..(Len(w) - 1) /\ (Len(w) - 1) + 1 = Len(w)
    BY <1>1
  <2> QED  BY <1>2, <2>1, <2>2
<1>4. \A i \in 1..(Len(w) - 1) : g[i - 1] = g[i] + (Tail(w)[i].to - Tail(w)[i].from)
  <2> SUFFICES ASSUME NEW i \in 1..(Len(w) - 1)
               PROVE  g[i - 1] = g[i] + (Tail(w)[i].to - Tail(w)[i].from)
    OBVIOUS
  <2>1. /\ i \in 0..(Len(w) - 1) /\ i - 1 \in 0..(Len(w) - 1) /\ i + 1 \in 1..Len(w)
        /\ (i + 1) - 1 = i /\ (i - 1) + 1 = i
    BY <1>1
  <2>2. g[i] = f[i + 1] /\ g[i - 1] = f[i]
    BY <2>1
  <2>3. f[(i + 1) - 1] = f[i + 1] + (w[i + 1].to - w[i + 1].from)
    BY <1>2, <2>1
  <2> QED  BY <1>1, <2>1, <2>2, <2>3
<1>5. f[0] \in Nat /\ f[0] = f[1] + (w[1].to - w[1].from)
  <2>1. 1 \in 1..Len(w) /\ 1 - 1 = 0 /\ 0 \in 0..Len(w)
    BY <1>1
  <2>2. f[1 - 1] = f[1] + (w[1].to - w[1].from)
    BY <1>2, <2>1
  <2> QED  BY <1>2, <2>1, <2>2
<1> HIDE DEF g
<1>6. Totals(g, Tail(w))
  BY <1>1, <1>3, <1>4 DEF Totals
<1>7. g \in [0..Len(Tail(w)) -> Nat]
  BY <1>1, <1>3
<1> QED  BY <1>3, <1>5, <1>6, <1>7

\* The chunks of v follow each other.
Adjacent(v) ==
  /\ \A k \in 1..Len(v) : v[k].from \in Nat /\ v[k].to \in Nat /\ v[k].to <= v[Len(v)].to
  /\ \A k \in 2..Len(v) : v[k].from = v[k - 1].to
  /\ v[1].from <= v[Len(v)].to

\* The chunks written, one after the other, add what they hold.
LEMMA TotalsWrite ==
  ASSUME NEW u, NEW w, NEW v, NEW ms, NEW ms2, NEW n, Writes(u, w, v, ms, ms2, n),
         NEW f, Totals(f, w), Adjacent(v)
  PROVE  \E g \in [0..Len(u) -> Nat] :
           Totals(g, u) /\ f[0] \in Nat /\ g[0] = f[0] + (v[Len(v)].to - v[1].from)
<1> DEFINE L == Len(w)
<1> DEFINE K == Len(v)
<1> DEFINE a == v[1].from
<1> DEFINE b == v[K].to
<1>1. /\ L \in Nat /\ K \in Nat /\ K >= 1 /\ Len(u) = L + K
      /\ \A i \in 1..L : u[i] = w[i]
      /\ \A i \in 1..K : u[L + i] = v[i]
  BY ONLY Writes(u, w, v, ms, ms2, n), WritesIs DEF L, K
<1>2. a \in Nat /\ b \in Nat /\ a <= b
  BY <1>1 DEF Adjacent
<1>3. /\ f \in [0..L -> Nat] /\ f[L] = 0
      /\ \A i \in 1..L : f[i - 1] = f[i] + (w[i].to - w[i].from)
  BY DEF Totals
<1>4. /\ \A k \in 1..K : v[k].from \in Nat /\ v[k].to \in Nat /\ v[k].to <= b
      /\ \A k \in 2..K : v[k].from = v[k - 1].to
  BY DEF Adjacent
<1> HIDE DEF L, K, a, b
<1> DEFINE g == [i \in 0..(L + K) |-> IF i <= L THEN f[i] + (b - a) ELSE b - v[i - L].to]
<1>5. \A i \in 0..(L + K) : g[i] \in Nat
  <2> SUFFICES ASSUME NEW i \in 0..(L + K)  PROVE g[i] \in Nat
    OBVIOUS
  <2>1. CASE i <= L
    <3>1. i \in 0..L
      BY <1>1, <2>1
    <3>2. f[i] \in Nat
      BY <1>3, <3>1
    <3> QED  BY <1>2, <2>1, <3>2
  <2>2. CASE i > L
    <3>1. i - L \in 1..K /\ ~(i <= L)
      BY <1>1, <2>2
    <3>2. v[i - L].to \in Nat /\ v[i - L].to <= b
      BY <1>4, <3>1
    <3> QED  BY <1>2, <3>1, <3>2
  <2> QED  BY <1>1, <2>1, <2>2
<1>6. g \in [0..(L + K) -> Nat]
  BY <1>5
<1>7. g[L + K] = 0
  <2>1. L + K \in 0..(L + K) /\ ~(L + K <= L) /\ (L + K) - L = K
    BY <1>1
  <2>2. g[L + K] = b - v[K].to
    BY <2>1
  <2> QED  BY <1>2, <2>2 DEF b
<1>8. \A i \in 1..(L + K) : g[i - 1] = g[i] + (u[i].to - u[i].from)
  <2> SUFFICES ASSUME NEW i \in 1..(L + K)  PROVE g[i - 1] = g[i] + (u[i].to - u[i].from)
    OBVIOUS
  <2>1. i \in 0..(L + K) /\ i - 1 \in 0..(L + K)
    BY <1>1
  <2>2. CASE i <= L
    <3>1. i \in 1..L /\ i - 1 <= L /\ i - 1 \in 0..L /\ i \in 0..L
      BY <1>1, <2>2
    <3>2. f[i - 1] = f[i] + (w[i].to - w[i].from) /\ f[i] \in Nat /\ f[i - 1] \in Nat /\ u[i] = w[i]
      BY <1>1, <1>3, <3>1
    <3>3. g[i] = f[i] + (b - a) /\ g[i - 1] = f[i - 1] + (b - a)
      BY <2>1, <2>2, <3>1
    <3>4. w[i].to \in Nat /\ w[i].from \in Nat
      <4>1. w \in Seq(ChunkRec) /\ i \in 1..Len(w)
        BY <3>1 DEF Writes, L
      <4>2. w[i] \in ChunkRec
        BY <4>1
      <4> QED  BY <4>2 DEF ChunkRec
    <3> HIDE DEF g
    <3> QED  BY <1>2, <3>2, <3>3, <3>4
  <2>3. CASE i = L + 1
    <3>1. i - 1 <= L /\ ~(i <= L) /\ i - 1 = L /\ i - L = 1 /\ 1 \in 1..K
      BY <1>1, <2>3
    <3>2. g[i - 1] = b - a
      BY <1>1, <1>2, <1>3, <2>1, <3>1
    <3>3. g[i] = b - v[1].to /\ u[i] = v[1]
      BY <1>1, <2>1, <2>3, <3>1
    <3>4. v[1].to \in Nat /\ v[1].from = a
      BY <1>4, <3>1 DEF a
    <3> HIDE DEF g
    <3> QED  BY <1>2, <3>2, <3>3, <3>4
  <2>4. CASE i > L + 1
    <3> DEFINE k == i - L
    <3>1. /\ k \in 2..K /\ k \in 1..K /\ k - 1 \in 1..K /\ L + k = i /\ (i - 1) - L = k - 1
          /\ ~(i <= L) /\ ~(i - 1 <= L)
      <4> HIDE DEF g
      <4>1. L \in Nat /\ K \in Nat /\ i \in Nat /\ i > L + 1 /\ i <= L + K
        BY <1>1, <2>4
      <4> QED  BY <4>1
    <3>2. g[i] = b - v[k].to /\ g[i - 1] = b - v[(i - 1) - L].to
      BY <2>1, <3>1
    <3> HIDE DEF k, g
    <3>3. u[i] = v[k] /\ g[i - 1] = b - v[k - 1].to
      BY <1>1, <3>1, <3>2
    <3>4. v[k].from = v[k - 1].to /\ v[k].to \in Nat /\ v[k - 1].to \in Nat
      BY <1>4, <3>1
    <3> QED  BY <1>2, <3>2, <3>3, <3>4
  <2> QED  BY <1>1, <2>2, <2>3, <2>4
<1>9. f[0] \in Nat /\ g[0] = f[0] + (b - a)
  <2>1. 0 \in 0..(L + K) /\ 0 <= L /\ 0 \in 0..L
    BY <1>1
  <2> QED  BY <1>3, <2>1
<1> HIDE DEF g
<1>10. Totals(g, u)
  BY <1>1, <1>6, <1>7, <1>8 DEF Totals
<1> QED  BY <1>1, <1>6, <1>9, <1>10 DEF a, b, K

-----------------------------------------------------------------------------
(* What stays true of the messages before when one more is sent *)

\* A message keeps its place after the one before it.
LEMMA MsgLonger ==
  ASSUME NEW ms, NEW ms2, Longer(ms, ms2), NEW n \in 1..Len(ms), MsgOK(ms, n)
  PROVE  MsgOK(ms2, n)
<1>1. Len(ms) \in Nat /\ ms2[n] = ms[n] /\ \A k \in 1..Len(ms) : ms2[k] = ms[k]
  BY DEF Longer
<1>2. ASSUME ms[n].fmt # 0  PROVE Shortened(ms2, n)
  <2>1. PICK p \in 1..(n - 1) :
          /\ Succ(ms, p, n)
          /\ ms[n].ts = ms[p].ts + ms[n].delta
          /\ ms[n].fmt \in {2, 3} => ms[n].len = ms[p].len /\ ms[n].kind = ms[p].kind
          /\ ms[n].fmt = 3 => ms[p].fmt # 0 /\ ms[n].delta = ms[p].delta
    BY <1>2 DEF MsgOK, Shortened
  <2>2. ms2[p] = ms[p] /\ \A k \in (p + 1)..(n - 1) : ms2[k] = ms[k]
    BY <1>1
  <2>3. Succ(ms2, p, n)
    BY <1>1, <2>1, <2>2 DEF Succ
  <2> QED  BY <1>1, <2>1, <2>2, <2>3 DEF Shortened
<1>3. ms[n].fmt = 0 => Shortened(ms2, n)
  BY <1>1 DEF Shortened
<1> QED  BY <1>1, <1>2, <1>3 DEF MsgOK

\* A chunk remains one of its message.
LEMMA ChunkLonger ==
  ASSUME NEW ms, NEW ms2, Longer(ms, ms2), NEW ch, ChunkOK(ms, ch)
  PROVE  ChunkOK(ms2, ch)
<1>1. /\ ch.msg \in 1..Len(ms) /\ Len(ms) \in Nat /\ Len(ms2) \in Nat /\ Len(ms) <= Len(ms2)
      /\ ms2[ch.msg] = ms[ch.msg]
  BY DEF Longer, ChunkOK
<1>2. ch.msg \in 1..Len(ms2) /\ FmtOf(ms2, ch) = FmtOf(ms, ch)
  BY <1>1 DEF FmtOf
<1> QED  BY <1>1, <1>2 DEF ChunkOK

\* What the reader is at.
LEMMA StreamLonger ==
  ASSUME NEW ms, NEW ms2, Longer(ms, ms2), NEW cs, NEW c, StreamOK(ms, cs, c)
  PROVE  StreamOK(ms2, cs, c)
<1>1. /\ cs.msg \in 0..Len(ms) /\ Len(ms) \in Nat /\ Len(ms2) \in Nat /\ Len(ms) <= Len(ms2)
      /\ \A k \in 1..Len(ms) : ms2[k] = ms[k]
  BY DEF Longer, StreamOK
<1>2. cs.msg \in 0..Len(ms2) /\ (cs.msg # 0 => ms2[cs.msg] = ms[cs.msg])
  BY <1>1
<1>3. CASE cs.msg = 0
  BY <1>2, <1>3 DEF StreamOK
<1>4. CASE cs.msg # 0
  BY <1>2, <1>4 DEF StreamOK
<1> QED  BY <1>3, <1>4

\* The reader and what it has returned.
LEMMA ReaderLonger ==
  ASSUME TypeInv, ReaderOK, DeliveredOK, Longer(msgs, msgs'), msgs' \in Seq(MessageRec),
         UNCHANGED readVars
  PROVE  ReaderOK' /\ DeliveredOK'
<1>1. UNCHANGED <<chunks, mem, delivered>>
  BY DEF readVars
<1>2. /\ Len(msgs) \in Nat /\ Len(msgs') \in Nat /\ Len(msgs) <= Len(msgs')
      /\ \A k \in 1..Len(msgs) : msgs'[k] = msgs[k]
  BY DEF Longer
<1>3. ReaderOK'
  <2>1. \A c \in Csids : StreamOK(msgs', chunks[c], c)
    BY StreamLonger DEF ReaderOK
  <2> QED  BY <1>1, <2>1 DEF ReaderOK
<1>4. ASSUME NEW n \in 1..Len(msgs)
      PROVE  Done(msgs', chunks, n) <=> Done(msgs, chunks, n)
  BY <1>2 DEF Done
<1>5. ASSUME NEW i \in 1..Len(delivered)  PROVE ReturnedOK(msgs', chunks, delivered[i])
  <2> DEFINE d == delivered[i]
  <2>1. ReturnedOK(msgs, chunks, d)
    BY DEF DeliveredOK
  <2> HIDE DEF d
  <2>2. d.msg \in 1..Len(msgs) /\ d.msg \in 1..Len(msgs') /\ msgs'[d.msg] = msgs[d.msg]
    BY <1>2, <2>1 DEF ReturnedOK
  <2>3. Done(msgs', chunks, d.msg)
    BY <1>4, <2>1, <2>2 DEF ReturnedOK
  <2>4. ReturnedOK(msgs', chunks, d)
    BY <2>1, <2>2, <2>3 DEF ReturnedOK
  <2> QED  BY <2>4 DEF d
<1>6. ASSUME NEW n \in 1..Len(msgs'), msgs'[n].kind \notin Control, Done(msgs', chunks, n)
      PROVE  \E i \in 1..Len(delivered) : delivered[i].msg = n
  <2>1. n \in 1..Len(msgs)
    <3> DEFINE c == msgs'[n].csid
    <3>1. chunks[c].msg \in 0..Len(msgs)
      <4>1. msgs'[n] \in MessageRec
        OBVIOUS
      <4>2. c \in Csids
        BY <4>1 DEF MessageRec
      <4> QED  BY <4>2 DEF ReaderOK, StreamOK
    <3>2. n < chunks[c].msg \/ n = chunks[c].msg
      BY <1>6 DEF Done
    <3> HIDE DEF c
    <3> QED  BY <1>2, <3>1, <3>2
  <2>2. msgs[n].kind \notin Control /\ Done(msgs, chunks, n)
    BY <1>2, <1>4, <1>6, <2>1
  <2> QED  BY <2>1, <2>2 DEF DeliveredOK
<1>7. \A i, j \in 1..Len(delivered) :
        i < j /\ delivered[i].csid = delivered[j].csid => delivered[i].msg < delivered[j].msg
  BY DEF DeliveredOK
<1>8. DeliveredOK'
  BY <1>1, <1>5, <1>6, <1>7 DEF DeliveredOK
<1> QED  BY <1>3, <1>8

-----------------------------------------------------------------------------
(* Writing *)

\* A sequence of one chunk.
LEMMA OneChunk ==
  ASSUME NEW ch \in ChunkRec
  PROVE  <<ch>> \in Seq(ChunkRec) /\ Len(<<ch>>) = 1 /\ <<ch>>[1] = ch
  OBVIOUS

\* One chunk appended to the wire.
LEMMA AppendWrites ==
  ASSUME NEW w \in Seq(ChunkRec), NEW ch \in ChunkRec, NEW ms, NEW ms2, NEW n,
         Longer(ms, ms2), n \in 1..Len(ms2), ch.msg = n,
         \A k \in 1..Len(w) : w[k].msg \in 1..Len(ms)
  PROVE  Writes(Append(w, ch), w, <<ch>>, ms, ms2, n)
<1>1. <<ch>> \in Seq(ChunkRec) /\ Len(<<ch>>) = 1 /\ <<ch>>[1] = ch
  BY OneChunk
<1>2. /\ Len(w) \in Nat /\ Len(Append(w, ch)) = Len(w) + 1
      /\ \A i \in 1..Len(w) : Append(w, ch)[i] = w[i]
      /\ Append(w, ch)[Len(w) + 1] = ch
  BY AppendIs
<1>3. \A i \in 1..Len(<<ch>>) : i = 1
  BY <1>1
<1> QED  BY <1>1, <1>2, <1>3 DEF Writes

\* What one message adds to the units sent: x in its first chunks, the rest left.
LEMMA AckSum ==
  ASSUME NEW a \in Nat, NEW b \in Nat, NEW f \in Nat, NEW o \in Nat, NEW o2 \in Nat,
         NEW len \in Nat, NEW x \in Nat, x <= len, NEW u, NEW g,
         u = a + b + f + o, g = f + x, o2 + 0 = o + (len - x)
  PROVE  u + len = a + b + g + o2
  OBVIOUS

\* The sum is a number.
LEMMA OpenIs ==
  ASSUME NEW cs \in [Csids -> StreamRec], NEW l \in [Csids -> Nat]
  PROVE  Open(cs, l) \in Nat
<1>1. 2 \in Csids /\ 4 \in Csids /\ 6 \in Csids /\ CmdCsid \in Csids
  BY DEF Csids
<1>2. \A d \in Csids : Part(cs[d]) \in Nat
  BY DEF Part, StreamRec
<1>3. /\ Part(cs[2]) \in Nat /\ Part(cs[4]) \in Nat /\ Part(cs[6]) \in Nat /\ Part(cs[CmdCsid]) \in Nat
      /\ l[2] \in Nat /\ l[4] \in Nat /\ l[6] \in Nat /\ l[CmdCsid] \in Nat
  BY <1>1, <1>2
<1> QED  BY <1>3 DEF Open

\* The data still to be sent on one chunk stream changes the sum by as much.
LEMMA OpenLeft ==
  ASSUME NEW cs \in [Csids -> StreamRec], NEW l \in [Csids -> Nat], NEW c \in Csids,
         NEW k \in [Csids -> Nat], \A d \in Csids : d # c => k[d] = l[d]
  PROVE  Open(cs, k) + l[c] = Open(cs, l) + k[c]
<1>1. /\ 2 \in Csids /\ 4 \in Csids /\ 6 \in Csids /\ CmdCsid \in Csids
      /\ CmdCsid # 2 /\ CmdCsid # 4 /\ CmdCsid # 6
  BY Constants DEF Csids
<1>2. \A d \in Csids : Part(cs[d]) \in Nat
  BY DEF Part, StreamRec
<1>3. c = 2 \/ c = 4 \/ c = 6 \/ c = CmdCsid
  BY DEF Csids
<1>4. /\ Part(cs[2]) \in Nat /\ Part(cs[4]) \in Nat /\ Part(cs[6]) \in Nat /\ Part(cs[CmdCsid]) \in Nat
      /\ l[2] \in Nat /\ l[4] \in Nat /\ l[6] \in Nat /\ l[CmdCsid] \in Nat
      /\ k[2] \in Nat /\ k[4] \in Nat /\ k[6] \in Nat /\ k[CmdCsid] \in Nat
  BY <1>1, <1>2
<1>6. /\ (c = 2 => k[4] = l[4] /\ k[6] = l[6] /\ k[CmdCsid] = l[CmdCsid])
      /\ (c = 4 => k[2] = l[2] /\ k[6] = l[6] /\ k[CmdCsid] = l[CmdCsid])
      /\ (c = 6 => k[2] = l[2] /\ k[4] = l[4] /\ k[CmdCsid] = l[CmdCsid])
      /\ (c = CmdCsid => k[2] = l[2] /\ k[4] = l[4] /\ k[6] = l[6])
  BY <1>1
<1>7. Open(cs, k) + l[c] = Open(cs, l) + k[c]
  <2>1. CASE c = 2
    BY <1>4, <1>6, <2>1 DEF Open
  <2>2. CASE c = 4
    BY <1>4, <1>6, <2>2 DEF Open
  <2>3. CASE c = 6
    BY <1>4, <1>6, <2>3 DEF Open
  <2>4. CASE c = CmdCsid
    BY <1>4, <1>6, <2>4 DEF Open
  <2> QED  BY <1>3, <2>1, <2>2, <2>3, <2>4
<1> QED  BY <1>7

\* The chunks of writeChunk: one after the other, from the start of the message to its
\* end, each cut at the chunk size, the first under a full header.
Chunked(v, n, m, s) ==
  /\ v \in Seq(ChunkRec) /\ Len(v) \in Nat /\ Len(v) >= 1
  /\ \A k \in 1..Len(v) :
       /\ v[k].msg = n
       /\ v[k].from \in Nat /\ v[k].to \in Nat /\ v[k].from < v[k].to /\ v[k].to <= m.len
       /\ v[k].to = Least(m.len, v[k].from + s)
       /\ v[k].basic = BasicHeader(IF v[k].from = 0 THEN 0 ELSE 3, m.csid)
       /\ v[k].header = MessageHeader(IF v[k].from = 0 THEN 0 ELSE 3, m, m.ts)
  /\ \A k \in 2..Len(v) : v[k].from = v[k - 1].to /\ v[k - 1].to < m.len
  /\ v[1].from = 0 /\ v[Len(v)].to = m.len

\* writeChunk cuts a message so.
LEMMA WriteChunkIs ==
  ASSUME NEW n \in Nat, NEW m \in MessageRec, NEW s \in ChunkSizes,
         m.len # 0, m.fmt = 0, m.ts < ExtTs
  PROVE  Chunked(writeChunk(n, m, s), n, m, s)
<1> DEFINE v == writeChunk(n, m, s)
<1> DEFINE K == (m.len + s - 1) \div s
<1>1. s \in Nat \ {0} /\ m.len \in Nat \ {0} /\ m.ts \in Nat /\ ExtTs \in Nat
  BY Constants DEF MessageRec
<1>2. K \in Nat /\ K >= 1 /\ m.len <= K * s /\ (K - 1) * s < m.len
  BY <1>1, ChunkCount
<1> DEFINE h(j) == writeHeader(IF j = 1 THEN 0 ELSE 3, m)
<1> DEFINE e(j) == Chunk(h(j), n, (j - 1) * s, Least(j * s, m.len))
<1>3. v = [j \in 1..K |-> e(j)]
  BY DEF writeChunk
<1> HIDE DEF K, v
<1>4. ASSUME NEW j \in 1..K
      PROVE  /\ (j - 1) * s \in Nat /\ j * s \in Nat /\ j * s = (j - 1) * s + s
             /\ (j - 1) * s < m.len
             /\ j # K => j * s < m.len
             /\ (j - 1) * s = 0 <=> j = 1
  <2>1. j - 1 \in Nat /\ K - 1 \in Nat /\ j - 1 <= K - 1 /\ (j - 1) + 1 = j
    BY <1>2
  <2>2. (j - 1) * s \in Nat /\ j * s = (j - 1) * s + s /\ (j - 1) * s <= (K - 1) * s /\ (K - 1) * s \in Nat
    BY <1>1, <2>1, Product
  <2>3. j # K => j <= K - 1 /\ j \in Nat
    BY <1>2
  <2>4. j # K => j * s <= (K - 1) * s
    BY <1>1, <2>1, <2>3, Product
  <2>5. j # 1 => (j - 1) - 1 \in Nat /\ (j - 1) * s = ((j - 1) - 1) * s + s /\ ((j - 1) - 1) * s \in Nat
    <3> SUFFICES ASSUME j # 1
                 PROVE  (j - 1) - 1 \in Nat /\ (j - 1) * s = ((j - 1) - 1) * s + s /\ ((j - 1) - 1) * s \in Nat
      OBVIOUS
    <3>1. (j - 1) - 1 \in Nat /\ ((j - 1) - 1) + 1 = j - 1
      BY <2>1
    <3> QED  BY <1>1, <3>1, Product
  <2>6. j = 1 => (j - 1) * s = 0
    BY <1>1
  <2> DEFINE a == (j - 1) * s
  <2> DEFINE b == (K - 1) * s
  <2> DEFINE d == ((j - 1) - 1) * s
  <2> DEFINE z == j * s
  <2>7. /\ a \in Nat /\ z = a + s /\ a <= b /\ b \in Nat /\ b < m.len /\ (j # K => z <= b)
        /\ (j # 1 => a = d + s /\ d \in Nat) /\ (j = 1 => a = 0)
    BY <1>2, <2>2, <2>4, <2>5, <2>6
  <2> HIDE DEF a, b, d, z
  <2>8. a \in Nat /\ z \in Nat /\ z = a + s /\ a < m.len /\ (j # K => z < m.len) /\ (a = 0 <=> j = 1)
    BY <1>1, <2>7
  <2> QED  BY <2>8 DEF a, z
<1>5. ASSUME NEW j \in 1..K
      PROVE  /\ e(j) \in ChunkRec /\ e(j).msg = n /\ e(j).from = (j - 1) * s
             /\ e(j).to = Least(j * s, m.len)
             /\ e(j).basic = BasicHeader(IF j = 1 THEN 0 ELSE 3, m.csid)
             /\ e(j).header = MessageHeader(IF j = 1 THEN 0 ELSE 3, m, m.ts)
  <2> DEFINE f == IF j = 1 THEN 0 ELSE 3
  <2>1. f \in 0..3 /\ m.csid \in Csids
    BY DEF MessageRec
  <2>2. (j - 1) * s \in Nat /\ Least(j * s, m.len) \in Nat
    BY <1>1, <1>4, LeastIs
  <2>3. h(j) = [basic |-> BasicHeader(f, m.csid), header |-> MessageHeader(f, m, m.ts), ext |-> <<>>]
    <3>1. (IF f # 3 /\ m.ts > ExtTs THEN ExtTs ELSE m.ts) = m.ts /\ ~(m.ts >= ExtTs)
      BY <1>1
    <3> HIDE DEF f
    <3>2. writeHeader(f, m) = [basic |-> BasicHeader(f, m.csid), header |-> MessageHeader(f, m, m.ts), ext |-> <<>>]
      BY <3>1 DEF writeHeader
    <3> QED  BY <3>2 DEF f
  <2> HIDE DEF f
  <2>4. BasicHeader(f, m.csid) \in {BasicHeader(ff, c) : ff \in 0..3, c \in Csids}
    BY <2>1
  <2>5. MessageHeader(f, m, m.ts) \in {MessageHeader(ff, mm, t) : ff \in 0..3, mm \in MessageRec, t \in Nat}
    BY <1>1, <2>1
  <2>6. e(j) = [basic |-> BasicHeader(f, m.csid), header |-> MessageHeader(f, m, m.ts), ext |-> <<>>,
                msg |-> n, from |-> (j - 1) * s, to |-> Least(j * s, m.len)]
    BY <2>3 DEF Chunk
  <2> HIDE DEF e
  <2>7. e(j) \in ChunkRec
    BY <2>2, <2>4, <2>5, <2>6 DEF ChunkRec
  <2> QED  BY <2>6, <2>7 DEF f
<1> HIDE DEF e, h
<1>6. v \in Seq(ChunkRec) /\ Len(v) = K /\ \A j \in 1..K : v[j] = e(j)
  <2>1. \A j \in 1..K : e(j) \in ChunkRec
    BY <1>5
  <2> QED  BY <1>2, <1>3, <2>1
<1>7. ASSUME NEW k \in 1..K
      PROVE  /\ v[k].msg = n
             /\ v[k].from \in Nat /\ v[k].to \in Nat /\ v[k].from < v[k].to /\ v[k].to <= m.len
             /\ v[k].to = Least(m.len, v[k].from + s)
             /\ v[k].basic = BasicHeader(IF v[k].from = 0 THEN 0 ELSE 3, m.csid)
             /\ v[k].header = MessageHeader(IF v[k].from = 0 THEN 0 ELSE 3, m, m.ts)
             /\ v[k].from = (k - 1) * s
             /\ k # K => v[k].to = k * s /\ k * s < m.len
             /\ k = K => v[k].to = m.len
  <2> DEFINE a == (k - 1) * s
  <2> DEFINE z == k * s
  <2>1. a \in Nat /\ z \in Nat /\ z = a + s /\ a < m.len /\ (k # K => z < m.len) /\ (a = 0 <=> k = 1)
    BY <1>4
  <2>2. /\ v[k].msg = n /\ v[k].from = a /\ v[k].to = Least(z, m.len)
        /\ v[k].basic = BasicHeader(IF k = 1 THEN 0 ELSE 3, m.csid)
        /\ v[k].header = MessageHeader(IF k = 1 THEN 0 ELSE 3, m, m.ts)
    BY <1>5, <1>6
  <2>3. k = K => m.len <= z
    BY <1>2
  <2> HIDE DEF a, z
  <2>4. /\ v[k].basic = BasicHeader(IF v[k].from = 0 THEN 0 ELSE 3, m.csid)
        /\ v[k].header = MessageHeader(IF v[k].from = 0 THEN 0 ELSE 3, m, m.ts)
    <3>1. CASE k = 1
      BY <2>1, <2>2, <3>1
    <3>2. CASE k # 1
      BY <2>1, <2>2, <3>2
    <3> QED  BY <3>1, <3>2
  <2>5. /\ Least(z, m.len) \in Nat /\ a < Least(z, m.len) /\ Least(z, m.len) <= m.len
        /\ Least(z, m.len) = Least(m.len, a + s)
        /\ k # K => Least(z, m.len) = z
        /\ k = K => Least(z, m.len) = m.len
    BY <1>1, <2>1, <2>3 DEF Least
  <2> QED  BY <2>1, <2>2, <2>4, <2>5 DEF a, z
<1>8. \A k \in 2..K : v[k].from = v[k - 1].to /\ v[k - 1].to < m.len
  <2> SUFFICES ASSUME NEW k \in 2..K  PROVE v[k].from = v[k - 1].to /\ v[k - 1].to < m.len
    OBVIOUS
  <2>1. k \in 1..K /\ k - 1 \in 1..K /\ k - 1 # K
    BY <1>2
  <2>2. v[k].from = (k - 1) * s /\ v[k - 1].to = (k - 1) * s /\ (k - 1) * s < m.len
    BY <1>7, <2>1
  <2> QED  BY <2>2
<1>9. v[1].from = 0 /\ v[K].to = m.len
  <2>1. 1 \in 1..K /\ K \in 1..K
    BY <1>2
  <2>2. v[1].from = (1 - 1) * s /\ v[K].to = m.len
    BY <1>7, <2>1
  <2> QED  BY <1>1, <2>2
<1>10. \A k \in 1..K :
              /\ v[k].msg = n
              /\ v[k].from \in Nat /\ v[k].to \in Nat /\ v[k].from < v[k].to /\ v[k].to <= m.len
              /\ v[k].to = Least(m.len, v[k].from + s)
              /\ v[k].basic = BasicHeader(IF v[k].from = 0 THEN 0 ELSE 3, m.csid)
              /\ v[k].header = MessageHeader(IF v[k].from = 0 THEN 0 ELSE 3, m, m.ts)
  BY <1>7
<1>11. v \in Seq(ChunkRec) /\ Len(v) = K /\ K \in Nat /\ K >= 1
  BY <1>2, <1>6
<1>12. Chunked(v, n, m, s)
  BY <1>8, <1>9, <1>10, <1>11 DEF Chunked
<1> QED  BY <1>12 DEF v

\* The wire has chunks of messages sent only.
LEMMA WireMsgs ==
  ASSUME WireOK
  PROVE  \A k \in 1..Len(wire) : wire[k].msg \in 1..Len(msgs)
  BY DEF WireOK, ChunkOK

\* One more message: the ones before it, and it.
LEMMA NewMessage ==
  ASSUME TypeInv, NEW m \in MessageRec, msgs' = Append(msgs, m)
  PROVE  /\ Len(msgs) \in Nat /\ Len(msgs') = Len(msgs) + 1 /\ msgs' \in Seq(MessageRec)
         /\ msgs'[Len(msgs) + 1] = m /\ \A k \in 1..Len(msgs) : msgs'[k] = msgs[k]
         /\ Longer(msgs, msgs')
         /\ \A k \in (Len(msgs) + 1)..Len(msgs') : k = Len(msgs) + 1
<1>1. msgs \in Seq(MessageRec)
  BY DEF TypeInv
<1>2. /\ Len(msgs) \in Nat /\ Len(msgs') = Len(msgs) + 1 /\ msgs' \in Seq(MessageRec)
      /\ msgs'[Len(msgs) + 1] = m /\ \A k \in 1..Len(msgs) : msgs'[k] = msgs[k]
  BY <1>1, AppendIs
<1>3. \A k \in (Len(msgs) + 1)..Len(msgs') : k = Len(msgs) + 1
  BY <1>2
<1> QED  BY <1>2, <1>3 DEF Longer

\* The chunks on the wire before, and those of message n.
LEMMA WireWrite ==
  ASSUME WireOK, NEW v, NEW n, Writes(wire', wire, v, msgs, msgs', n),
         \A k \in 1..Len(v) : ChunkOK(msgs', v[k])
  PROVE  WireOK'
<1> SUFFICES ASSUME NEW i \in 1..Len(wire')  PROVE ChunkOK(msgs', wire'[i])
  BY DEF WireOK
<1>1. /\ Len(wire) \in Nat /\ Len(v) \in Nat /\ Len(v) >= 1 /\ Len(wire') = Len(wire) + Len(v)
      /\ \A k \in 1..Len(wire) : wire'[k] = wire[k]
      /\ \A k \in 1..Len(v) : wire'[Len(wire) + k] = v[k]
  BY ONLY Writes(wire', wire, v, msgs, msgs', n), WritesIs
<1>2. CASE i <= Len(wire)
  <2>1. i \in 1..Len(wire)
    BY <1>1, <1>2
  <2>2. ChunkOK(msgs, wire[i]) /\ Longer(msgs, msgs') /\ wire'[i] = wire[i]
    BY <1>1, <2>1 DEF WireOK, Writes
  <2> QED  BY <2>2, ChunkLonger
<1>3. CASE i > Len(wire)
  <2>1. i - Len(wire) \in 1..Len(v) /\ Len(wire) + (i - Len(wire)) = i
    BY <1>1, <1>3
  <2>2. wire'[i] = v[i - Len(wire)]
    BY <1>1, <2>1
  <2> QED  BY <2>1, <2>2
<1> QED  BY <1>1, <1>2, <1>3

\* A peer that begins a message keeps the invariant.
LEMMA PeerBeginStep ==
  ASSUME Inv, NEW kind \in Kinds, NEW len \in Lens, NEW ts \in 0..MaxTs, NEW fmt \in 0..3,
         NEW size \in ChunkSizes, NEW window \in Windows, PeerBegin(kind, len, ts, fmt, size, window)
  PROVE  Inv'
<1> DEFINE c == CsidOf(kind)
<1> DEFINE p == prev[c]
<1> DEFINE delta == IF fmt = 0 THEN 0 ELSE ts - p.ts
<1> DEFINE m == Message(kind, len, ts, fmt, delta, size, window)
<1> DEFINE x == Least(len, chunkSize)
<1> DEFINE n == Len(msgs) + 1
<1> DEFINE t == IF fmt = 0 THEN ts ELSE delta
<1> DEFINE ch == Chunk(PeerHeader(fmt, m, t), n, 0, x)
<1>1. /\ sender = "peer" /\ Len(msgs) < MaxMsgs /\ out[c] = 0 /\ ts < ExtTs
      /\ kind \in Control => len = 1 /\ ts = 0
      /\ kind # "size" => size = chunkSize
      /\ fmt # 0 => p.kind # "none" /\ ts >= p.ts
      /\ fmt \in {2, 3} => p.len = len /\ p.kind = kind
      /\ fmt = 3 => p.fmt # 0 /\ delta = p.delta
      /\ msgs' = Append(msgs, m)
      /\ wire' = Append(wire, ch)
      /\ left' = [left EXCEPT ![c] = len - x]
      /\ out' = [out EXCEPT ![c] = IF x = len THEN 0 ELSE n]
      /\ prev' = [prev EXCEPT ![c] =
           [fmt |-> fmt, ts |-> ts, delta |-> delta, len |-> len, kind |-> kind]]
      /\ chunkSize' = IF kind = "size" THEN size ELSE chunkSize
      /\ unacked' = unacked + len
      /\ sender' = sender /\ UNCHANGED readVars
  BY DEF PeerBegin, WellFormed
<1>2. /\ TypeInv /\ MsgsOK /\ PrevOK /\ OutOK /\ WireOK /\ Chain /\ Sizes /\ ReaderOK /\ DeliveredOK
      /\ AckInv /\ WindowInv /\ Framed
  BY DEF Inv
<1>3. /\ c \in Csids /\ (c = 2 <=> kind \in Control) /\ len \in 0..MaxLen /\ len \in Nat /\ ts \in Nat
      /\ chunkSize \in Nat \ {0} /\ chunkSize \in ChunkSizes /\ MaxLen \in Nat /\ ExtTs \in Nat
      /\ MaxMsgs \in Nat
  BY <1>2, Constants, CsidIs DEF TypeInv
<1>4. p \in HeaderRec /\ delta \in Nat /\ delta <= ts /\ t \in Nat
  <2>1. p \in HeaderRec
    BY <1>2, <1>3 DEF TypeInv
  <2>2. p.ts \in Nat
    BY <2>1 DEF HeaderRec
  <2>3. fmt # 0 => ts - p.ts \in Nat /\ ts - p.ts <= ts
    BY ONLY <1>1, <1>3, <2>2, Minus
  <2>4. delta \in Nat /\ delta <= ts
    BY <1>3, <2>3
  <2> HIDE DEF delta
  <2>5. t \in Nat
    BY <1>3, <2>4
  <2> QED  BY <2>1, <2>4, <2>5
<1> HIDE DEF delta, p, c
<1>5. /\ m \in MessageRec /\ m.csid = c /\ m.kind = kind /\ m.len = len /\ m.ts = ts /\ m.fmt = fmt
      /\ m.delta = delta /\ m.size = size
  BY <1>3, <1>4 DEF Message, MessageRec, c
<1> HIDE DEF m, t
<1>6. /\ Len(msgs) \in Nat /\ n \in Nat /\ n # 0 /\ Len(msgs') = n /\ msgs' \in Seq(MessageRec)
      /\ msgs'[n] = m /\ \A k \in 1..Len(msgs) : msgs'[k] = msgs[k]
      /\ Longer(msgs, msgs') /\ n \in 1..Len(msgs')
      /\ \A k \in (Len(msgs) + 1)..Len(msgs') : k = n
  <2>1. /\ Len(msgs) \in Nat /\ Len(msgs') = Len(msgs) + 1 /\ msgs' \in Seq(MessageRec)
        /\ msgs'[Len(msgs) + 1] = m /\ \A k \in 1..Len(msgs) : msgs'[k] = msgs[k]
        /\ Longer(msgs, msgs')
        /\ \A k \in (Len(msgs) + 1)..Len(msgs') : k = Len(msgs) + 1
    BY <1>1, <1>2, <1>5, NewMessage
  <2> QED  BY <2>1
<1>7. /\ x \in Nat /\ x <= len /\ (x = 0 => len = 0) /\ (x # len => x = chunkSize /\ x < len)
      /\ len - x \in Nat /\ x = Least(len, 0 + chunkSize)
  BY <1>3 DEF Least
<1> HIDE DEF x
<1> HIDE DEF n
<1>8. /\ ch \in ChunkRec /\ ch.msg = n /\ ch.from = 0 /\ ch.to = x
      /\ ch.basic = BasicHeader(fmt, m.csid) /\ ch.header = MessageHeader(fmt, m, t)
  <2>2. fmt \in 0..3 /\ m \in MessageRec /\ t \in Nat /\ n \in Nat /\ x \in Nat /\ 0 \in Nat
    BY <1>4, <1>5, <1>6, <1>7
  <2>3. m.csid \in Csids
    BY <1>3, <1>5
  <2>4. BasicHeader(fmt, m.csid) \in {BasicHeader(f, d) : f \in 0..3, d \in Csids}
    BY <2>2, <2>3
  <2>5. MessageHeader(fmt, m, t) \in {MessageHeader(f, mm, tt) : f \in 0..3, mm \in MessageRec, tt \in Nat}
    BY <2>2
  <2> QED  BY <2>2, <2>4, <2>5 DEF Chunk, PeerHeader, ChunkRec
<1> HIDE DEF ch
<1>9. wire \in Seq(ChunkRec) /\ \A k \in 1..Len(wire) : wire[k].msg \in 1..Len(msgs)
  BY <1>2, WireMsgs DEF TypeInv
<1> DEFINE v == <<ch>>
<1>10. /\ Writes(wire', wire, v, msgs, msgs', n)
       /\ v \in Seq(ChunkRec) /\ Len(v) = 1 /\ v[1] = ch
  BY <1>1, <1>6, <1>8, <1>9, AppendWrites, OneChunk
<1> HIDE DEF v
<1>11. TypeInv'
  <2>1. wire' \in Seq(ChunkRec)
    BY <1>1, <1>8, <1>9, AppendIs
  <2>2. out' \in [Csids -> Nat] /\ left' \in [Csids -> Nat]
    BY <1>1, <1>2, <1>3, <1>6, <1>7 DEF TypeInv
  <2>3. [fmt |-> fmt, ts |-> ts, delta |-> delta, len |-> len, kind |-> kind] \in HeaderRec
    BY <1>3, <1>4 DEF HeaderRec
  <2>4. prev' \in [Csids -> HeaderRec]
    BY <1>1, <1>2, <1>3, <2>3 DEF TypeInv
  <2>5. chunkSize' \in ChunkSizes /\ unacked' \in Nat
    BY <1>1, <1>2, <1>3 DEF TypeInv
  <2>6. Len(msgs') <= MaxMsgs
    BY <1>1, <1>3, <1>6 DEF n
  <2> QED  BY <1>1, <1>2, <1>6, <2>1, <2>2, <2>4, <2>5, <2>6 DEF TypeInv, readVars
<1>12. MsgsOK'
  <2>1. \A k \in 1..Len(msgs) : MsgOK(msgs', k)
    BY <1>2, <1>6, MsgLonger DEF MsgsOK
  <2>2. ASSUME fmt # 0  PROVE Shortened(msgs', n)
    <3>1. p.kind # "none" /\ p = prev[c] /\ (delta = ts - p.ts)
      BY <1>1, <2>2 DEF p, delta
    <3>2. PICK q \in 1..Len(msgs) :
             /\ msgs[q].csid = c
             /\ \A k \in (q + 1)..Len(msgs) : msgs[k].csid # c
             /\ p.ts = msgs[q].ts /\ p.len = msgs[q].len
             /\ p.kind = msgs[q].kind /\ p.fmt = msgs[q].fmt
             /\ p.delta = msgs[q].delta
      BY <1>1, <1>2, <1>3, <3>1 DEF PrevOK
    <3>3. q \in 1..(n - 1) /\ q < n /\ n - 1 = Len(msgs) /\ msgs'[q] = msgs[q]
      BY <1>6 DEF n
    <3>4. \A k \in (q + 1)..(n - 1) : msgs'[k].csid # c
      BY <1>6, <3>2, <3>3
    <3>5. Succ(msgs', q, n)
      BY <1>5, <1>6, <3>2, <3>3, <3>4 DEF Succ
    <3>6. p.ts \in Nat
      BY <1>4 DEF HeaderRec
    <3>7. ts = p.ts + delta
      <4>1. p.ts <= ts
        BY <1>1, <1>3, <2>2, <3>6
      <4> QED  BY ONLY <1>3, <3>1, <3>6, <4>1, Minus
    <3>8. msgs'[n].ts = msgs'[q].ts + msgs'[n].delta
      BY <1>5, <1>6, <3>2, <3>3, <3>7
    <3>9. /\ msgs'[n].fmt \in {2, 3} => msgs'[n].len = msgs'[q].len /\ msgs'[n].kind = msgs'[q].kind
          /\ msgs'[n].fmt = 3 => msgs'[q].fmt # 0 /\ msgs'[n].delta = msgs'[q].delta
      BY <1>1, <1>5, <1>6, <3>2, <3>3
    <3> QED  BY <3>3, <3>5, <3>8, <3>9 DEF Shortened
  <2>3. fmt = 0 => Shortened(msgs', n)
    BY <1>5, <1>6 DEF Shortened
  <2>4. MsgOK(msgs', n)
    BY <1>1, <1>3, <1>4, <1>5, <1>6, <2>2, <2>3 DEF MsgOK, c
  <2>5. \A k \in 1..Len(msgs') : k = n \/ k \in 1..Len(msgs)
    BY <1>6 DEF n
  <2> QED  BY <2>1, <2>4, <2>5 DEF MsgsOK
<1>13. PrevOK'
  <2> SUFFICES ASSUME NEW d \in Csids
               PROVE  IF prev'[d].kind = "none" THEN \A k \in 1..Len(msgs') : msgs'[k].csid # d
                      ELSE \E q \in 1..Len(msgs') :
                             /\ msgs'[q].csid = d
                             /\ \A k \in (q + 1)..Len(msgs') : msgs'[k].csid # d
                             /\ prev'[d].ts = msgs'[q].ts /\ prev'[d].len = msgs'[q].len
                             /\ prev'[d].kind = msgs'[q].kind /\ prev'[d].fmt = msgs'[q].fmt
                             /\ prev'[d].delta = msgs'[q].delta
    BY DEF PrevOK
  <2>1. prev \in [Csids -> HeaderRec]
    BY <1>2 DEF TypeInv
  <2>2. CASE d = c
    <3>1. prev'[d] = [fmt |-> fmt, ts |-> ts, delta |-> delta, len |-> len, kind |-> kind]
      BY <1>1, <2>1, <2>2
    <3>2. kind # "none"
      BY Constants DEF KnownKinds, Control
    <3>3. \A k \in (n + 1)..Len(msgs') : msgs'[k].csid # d
      BY <1>6
    <3> QED  BY <1>5, <1>6, <2>2, <3>1, <3>2, <3>3
  <2>3. CASE d # c
    <3>1. prev'[d] = prev[d]
      BY <1>1, <2>1, <2>3
    <3>2. \A k \in 1..Len(msgs') : k = n \/ k \in 1..Len(msgs)
      BY <1>6 DEF n
    <3>3. msgs'[n].csid # d
      BY <1>5, <1>6, <2>3
    <3>4. CASE prev[d].kind = "none"
      <4>1. \A k \in 1..Len(msgs) : msgs[k].csid # d
        BY <1>1, <1>2, <3>4 DEF PrevOK
      <4> QED  BY <1>6, <3>1, <3>2, <3>3, <3>4, <4>1
    <3>5. CASE prev[d].kind # "none"
      <4>1. PICK q \in 1..Len(msgs) :
             /\ msgs[q].csid = d
             /\ \A k \in (q + 1)..Len(msgs) : msgs[k].csid # d
             /\ prev[d].ts = msgs[q].ts /\ prev[d].len = msgs[q].len
             /\ prev[d].kind = msgs[q].kind /\ prev[d].fmt = msgs[q].fmt
             /\ prev[d].delta = msgs[q].delta
        BY <1>1, <1>2, <3>5 DEF PrevOK
      <4>2. q \in 1..Len(msgs') /\ msgs'[q] = msgs[q]
        BY <1>6 DEF n
      <4>3. \A k \in (q + 1)..Len(msgs') : k = n \/ (k \in 1..Len(msgs) /\ k \in (q + 1)..Len(msgs))
        BY <1>6 DEF n
      <4>4. \A k \in (q + 1)..Len(msgs') : msgs'[k].csid # d
        BY <1>6, <3>3, <4>1, <4>3
      <4> QED  BY <3>1, <3>5, <4>1, <4>2, <4>4
    <3> QED  BY <3>4, <3>5
  <2> QED  BY <2>2, <2>3
<1>14. left[c] = 0
  BY <1>1, <1>2, <1>3 DEF OutOK
<1>15. /\ left'[c] = len - x /\ out'[c] = (IF x = len THEN 0 ELSE n)
       /\ \A d \in Csids : d # c => out'[d] = out[d] /\ left'[d] = left[d]
  BY <1>1, <1>2, <1>3 DEF TypeInv
<1>16. OutOK'
  <2> SUFFICES ASSUME NEW d \in Csids
               PROVE  /\ out'[d] = 0 => left'[d] = 0
                      /\ out'[d] # 0 =>
                           /\ sender' = "peer" /\ out'[d] \in 1..Len(msgs') /\ msgs'[out'[d]].csid = d
                           /\ 0 < left'[d] /\ left'[d] < msgs'[out'[d]].len
                           /\ \A k \in (out'[d] + 1)..Len(msgs') : msgs'[k].csid # d
    BY DEF OutOK
  <2>1. CASE d = c
    <3>1. CASE x = len
      BY <1>3, <1>6, <1>7, <1>15, <2>1, <3>1
    <3>2. CASE x # len
      <4>1. out'[d] = n /\ left'[d] = len - x /\ n # 0
        BY <1>6, <1>15, <2>1, <3>2
      <4>2. 0 < len - x /\ len - x < len
        BY <1>3, <1>7, <3>2
      <4>3. \A k \in (n + 1)..Len(msgs') : msgs'[k].csid # d
        BY <1>6
      <4> QED  BY <1>1, <1>5, <1>6, <2>1, <4>1, <4>2, <4>3
    <3> QED  BY <3>1, <3>2
  <2>2. CASE d # c
    <3>1. out'[d] = out[d] /\ left'[d] = left[d]
      BY <1>15, <2>2
    <3>2. CASE out[d] = 0
      BY <1>2, <3>1, <3>2 DEF OutOK
    <3>3. CASE out[d] # 0
      <4>1. /\ out[d] \in 1..Len(msgs) /\ msgs[out[d]].csid = d
            /\ 0 < left[d] /\ left[d] < msgs[out[d]].len
            /\ \A k \in (out[d] + 1)..Len(msgs) : msgs[k].csid # d
        BY <1>2, <3>3 DEF OutOK
      <4>2. out[d] \in 1..Len(msgs') /\ msgs'[out[d]] = msgs[out[d]]
        BY <1>6, <4>1 DEF n
      <4>3. \A k \in (out[d] + 1)..Len(msgs') :
              k = n \/ (k \in 1..Len(msgs) /\ k \in (out[d] + 1)..Len(msgs))
        BY <1>6, <4>1 DEF n
      <4>4. \A k \in (out[d] + 1)..Len(msgs') : msgs'[k].csid # d
        BY <1>5, <1>6, <2>2, <4>1, <4>3
      <4> QED  BY <1>1, <3>1, <3>3, <4>1, <4>2, <4>4
    <3> QED  BY <3>2, <3>3
  <2> QED  BY <2>1, <2>2
<1>17. WireOK'
  <2>1. FmtOf(msgs', ch) = fmt
    BY <1>5, <1>6, <1>8 DEF FmtOf
  <2>2. ChunkOK(msgs', ch)
    <3>1. t = (IF m.fmt = 0 THEN m.ts ELSE m.delta)
      BY <1>5 DEF t
    <3>2. /\ ch.msg \in 1..Len(msgs') /\ ch.from <= ch.to /\ ch.to <= m.len
          /\ (ch.from = ch.to => m.len = 0) /\ msgs'[ch.msg] = m
      BY <1>3, <1>5, <1>6, <1>7, <1>8
    <3> QED  BY <1>8, <2>1, <3>1, <3>2 DEF ChunkOK
  <2>3. \A k \in 1..Len(v) : ChunkOK(msgs', v[k])
    BY <1>10, <2>2
  <2> QED  BY <1>2, <1>10, <2>3, WireWrite
<1>18. Chain'
  <2> SUFFICES ASSUME NEW d \in Csids
               PROVE  /\ ChainOn(wire', msgs', chunks[d], d)
                      /\ EndOn(wire', msgs', chunks[d], out'[d], left'[d], d)
    BY <1>1 DEF Chain, readVars
  <2>1. /\ ChainOn(wire, msgs, chunks[d], d) /\ EndOn(wire, msgs, chunks[d], out[d], left[d], d)
        /\ chunks[d].msg \in 0..Len(msgs) /\ chunks[d].index \in Nat
    <3>1. chunks[d] \in StreamRec
      BY <1>2 DEF TypeInv
    <3>2. chunks[d].index \in Nat
      BY <3>1 DEF StreamRec
    <3> QED  BY <1>2, <3>2 DEF Chain, ReaderOK, StreamOK
  <2>2. CASE d # c
    <3>1. out[d] \in 0..Len(msgs)
      BY <1>2, <1>6 DEF OutOK
    <3>2. msgs'[n].csid # d /\ out'[d] = out[d] /\ left'[d] = left[d]
      BY <1>5, <1>6, <1>15, <2>2
    <3> QED  BY <1>6, <1>10, <2>1, <3>1, <3>2, ChainOther
  <2>3. CASE d = c
    <3>1. OfStream(msgs', n, d)
      BY <1>5, <1>6, <2>3 DEF OfStream
    <3>2. Joins(msgs, msgs', out[d], left[d], d, v[1])
      <4> SUFFICES ASSUME NEW q \in 0..Len(msgs), NEW pos \in Nat, Ends(msgs, out[d], left[d], d, q, pos)
                   PROVE  Goes(msgs', d, q, pos, ch)
        BY <1>10 DEF Joins
      <4>1. q # 0 => pos = msgs[q].len /\ msgs'[q] = msgs[q] /\ msgs[q].len \in Nat
        <5>1. q # 0 => pos = msgs[q].len
          BY <1>1, <2>3 DEF Ends
        <5>2. q # 0 => q \in 1..Len(msgs)
          OBVIOUS
        <5>3. q # 0 => msgs[q] \in MessageRec
          BY <1>2, <5>2 DEF TypeInv
        <5>4. q # 0 => msgs[q].len \in Nat
          BY <1>3, <5>3 DEF MessageRec
        <5> QED  BY <1>6, <5>1, <5>2, <5>4
      <4>2. ~(q # 0 /\ pos < msgs'[q].len)
        BY <4>1
      <4>3. q < n /\ \A k \in (q + 1)..(n - 1) : k \in 1..Len(msgs) /\ k \in (q + 1)..Len(msgs)
        BY <1>6 DEF n
      <4>4. \A k \in (q + 1)..(n - 1) : msgs'[k].csid # d
        BY <1>6, <4>3 DEF Ends
      <4> QED  BY <1>8, <4>2, <4>3, <4>4 DEF Goes
    <3>3. Threads(msgs', d, n, v)
      BY <1>10 DEF Threads
    <3>4. Ends(msgs', out'[d], left'[d], d, n, v[Len(v)].to)
      <4>1. \A k \in (n + 1)..Len(msgs') : msgs'[k].csid # d
        BY <1>6
      <4>2. v[Len(v)].to = x /\ msgs'[n].len = len
        BY <1>5, <1>6, <1>8, <1>10
      <4>3. CASE x = len
        BY <1>15, <2>3, <4>1, <4>2, <4>3 DEF Ends
      <4>4. CASE x # len
        <5>1. x + (len - x) = len
          BY ONLY <1>3, <1>7, Minus
        <5>2. out'[d] = n /\ n # 0 /\ x + left'[d] = len
          BY <1>6, <1>15, <2>3, <4>4, <5>1
        <5> QED  BY <4>1, <4>2, <5>2 DEF Ends
      <4> QED  BY <4>3, <4>4
    <3> QED  BY ONLY <1>10, <2>1, <3>1, <3>2, <3>3, <3>4, ChainSame
  <2> QED  BY <2>2, <2>3
<1>19. Sizes'
  <2>1. SizesOn(wire, msgs, remoteChunkSize, chunkSize)
    BY <1>2 DEF Sizes
  <2>2. msgs'[n].csid = c /\ msgs'[n].len = len /\ msgs'[n].size = size /\ msgs'[n].kind = kind
    BY <1>5, <1>6
  <2>3. ASSUME c # 2
        PROVE  chunkSize' = chunkSize /\ \A k \in 1..Len(v) : Cut(msgs', v[k], chunkSize)
    <3>1. chunkSize' = chunkSize
      BY <1>1, <1>3, <2>3 DEF Control
    <3>2. Cut(msgs', ch, chunkSize)
      BY <1>7, <1>8, <2>2 DEF Cut
    <3> QED  BY <1>10, <3>1, <3>2
  <2>4. ASSUME c = 2
        PROVE  /\ chunkSize' = msgs'[n].size /\ Len(v) = 1
               /\ msgs'[n].kind # "size" => chunkSize' = chunkSize
               /\ \A s \in ChunkSizes : Cut(msgs', v[1], s)
    <3>1. chunkSize' = size /\ len = 1 /\ (kind # "size" => chunkSize' = chunkSize)
      BY <1>1, <1>3, <2>4
    <3>2. x = 1
      BY <1>3, <1>7, <3>1
    <3>3. \A s \in ChunkSizes : Least(1, 0 + s) = 1
      BY Constants DEF Least
    <3>4. \A s \in ChunkSizes : Cut(msgs', ch, s)
      BY <1>8, <2>2, <3>1, <3>2, <3>3 DEF Cut
    <3> QED  BY <1>10, <2>2, <3>1, <3>4
  <2>5. SizesOn(wire', msgs', remoteChunkSize, chunkSize')
    BY <1>3, <1>10, <2>1, <2>2, <2>3, <2>4, SizesWrite
  <2> QED  BY <1>1, <2>5 DEF Sizes, readVars
<1>20. ReaderOK' /\ DeliveredOK'
  BY <1>1, <1>2, <1>6, ReaderLonger
<1>21. AckInv'
  <2>1. PICK f \in [0..Len(wire) -> Nat] :
          Totals(f, wire) /\ unacked = ackReceived + ackBuffered + f[0] + Open(chunks, left)
    BY <1>2 DEF AckInv
  <2>2. PICK g \in [0..Len(wire') -> Nat] :
          /\ Totals(g, wire') /\ f[0] \in Nat
          /\ g[0] = f[0] + (v[Len(v)].to - v[1].from)
    <3>1. \A k \in 1..Len(v) : /\ v[k].from \in Nat /\ v[k].to \in Nat
                                    /\ v[k].to <= v[Len(v)].to
      BY <1>7, <1>8, <1>10
    <3>2. \A k \in 2..Len(v) : v[k].from = v[k - 1].to
      BY <1>10
    <3>3. v[1].from <= v[Len(v)].to
      BY <1>7, <1>8, <1>10
    <3>4. Adjacent(v)
      BY <3>1, <3>2, <3>3 DEF Adjacent
    <3>5. Writes(wire', wire, v, msgs, msgs', n)
      BY <1>10
    <3> QED  BY ONLY <2>1, <3>4, <3>5, TotalsWrite
  <2>3. g[0] = f[0] + x
    BY <1>7, <1>8, <1>10, <2>2
  <2>4. /\ chunks \in [Csids -> StreamRec] /\ left \in [Csids -> Nat]
        /\ ackReceived \in Nat /\ ackBuffered \in Nat
    BY <1>2 DEF TypeInv
  <2>5. Open(chunks, left) \in Nat /\ Open(chunks, left') + left[c] = Open(chunks, left) + (len - x)
    <3>1. left' \in [Csids -> Nat] /\ left'[c] = len - x /\ \A d \in Csids : d # c => left'[d] = left[d]
      BY <1>11, <1>15 DEF TypeInv
    <3>2. Open(chunks, left) \in Nat /\ Open(chunks, left') + left[c] = Open(chunks, left) + left'[c]
      BY ONLY c \in Csids, <2>4, <3>1, OpenLeft, OpenIs
    <3> QED  BY <3>1, <3>2
  <2>6. UNCHANGED <<ackReceived, ackBuffered, chunks>>
    BY <1>1 DEF readVars
  <2>7. Open(chunks, left') \in Nat
    <3>1. left' \in [Csids -> Nat]
      BY <1>11 DEF TypeInv
    <3> QED  BY <1>3, <2>4, <3>1, OpenIs
  <2>8. unacked + len = ackReceived + ackBuffered + g[0] + Open(chunks, left')
    <3>1. Open(chunks, left') + 0 = Open(chunks, left) + (len - x)
      BY <1>14, <2>5
    <3>2. len \in Nat /\ x \in Nat /\ x <= len
      BY <1>3, <1>7
    <3> DEFINE F == f[0]
    <3> DEFINE O == Open(chunks, left)
    <3> DEFINE O2 == Open(chunks, left')
    <3> DEFINE G == g[0]
    <3>3. /\ F \in Nat /\ O \in Nat /\ O2 \in Nat /\ ackReceived \in Nat /\ ackBuffered \in Nat
          /\ unacked = ackReceived + ackBuffered + F + O /\ G = F + x /\ O2 + 0 = O + (len - x)
      BY ONLY <2>1, <2>2, <2>3, <2>4, <2>5, <2>7, <3>1
    <3> HIDE DEF F, O, O2, G
    <3>4. unacked + len = ackReceived + ackBuffered + G + O2
      BY ONLY <3>2, <3>3, AckSum
    <3> QED  BY ONLY <3>4 DEF G, O2
  <2>10. unacked' = ackReceived' + ackBuffered' + g[0] + Open(chunks', left')
    BY <1>1, <2>6, <2>8
  <2> QED  BY <2>2, <2>10 DEF AckInv
<1>22. WindowInv' /\ Framed'
  BY <1>1, <1>2 DEF WindowInv, Framed, readVars
<1> QED
  BY <1>11, <1>12, <1>13, <1>16, <1>17, <1>18, <1>19, <1>20, <1>21, <1>22 DEF Inv

\* A peer that goes on with a message keeps the invariant.
LEMMA PeerContinueStep ==
  ASSUME Inv, NEW c \in Csids, PeerContinue(c)
  PROVE  Inv'
<1> DEFINE n == out[c]
<1> DEFINE m == msgs[n]
<1> DEFINE from == m.len - left[c]
<1> DEFINE x == Least(left[c], chunkSize)
<1> DEFINE ch == Chunk(PeerHeader(3, m, 0), n, from, from + x)
<1>1. /\ n # 0
      /\ wire' = Append(wire, ch)
      /\ left' = [left EXCEPT ![c] = left[c] - x]
      /\ out' = [out EXCEPT ![c] = IF x = left[c] THEN 0 ELSE n]
      /\ sender' = sender /\ msgs' = msgs /\ chunkSize' = chunkSize /\ prev' = prev
      /\ unacked' = unacked /\ UNCHANGED readVars
  BY DEF PeerContinue
<1>2. /\ TypeInv /\ MsgsOK /\ PrevOK /\ OutOK /\ WireOK /\ Chain /\ Sizes /\ ReaderOK /\ DeliveredOK
      /\ AckInv /\ WindowInv /\ Framed
  BY DEF Inv
<1>3. /\ sender = "peer" /\ n \in 1..Len(msgs) /\ m.csid = c /\ 0 < left[c] /\ left[c] < m.len
      /\ \A k \in (n + 1)..Len(msgs) : msgs[k].csid # c
  BY <1>1, <1>2 DEF OutOK
<1>4. /\ msgs \in Seq(MessageRec) /\ Len(msgs) \in Nat /\ m \in MessageRec /\ left[c] \in Nat
      /\ chunkSize \in Nat \ {0} /\ chunkSize \in ChunkSizes /\ MaxLen \in Nat
  BY <1>2, <1>3, Constants DEF TypeInv
<1>5. m.len \in Nat /\ m.kind \in Kinds /\ n \in Nat
  <2>1. n \in Nat
    BY ONLY <1>3, <1>4
  <2>2. m \in MessageRec
    BY <1>4
  <2> HIDE DEF m
  <2>3. m.len \in 0..MaxLen /\ m.kind \in Kinds
    BY ONLY <2>2 DEF MessageRec
  <2>4. m.len \in Nat
    BY ONLY <1>4, <2>3
  <2> QED  BY <2>1, <2>3, <2>4
<1>6. c # 2
  <2>1. MsgOK(msgs, n)
    BY <1>2, <1>3 DEF MsgsOK
  <2>2. m.kind \notin Control
    BY <1>3, <1>4, <1>5, <2>1 DEF MsgOK
  <2>3. c = CsidOf(m.kind)
    BY <1>3, <2>1 DEF MsgOK
  <2> QED  BY <1>5, <2>2, <2>3, CsidIs
<1>7. /\ from \in Nat /\ from # 0 /\ x \in Nat /\ x # 0 /\ x <= left[c] /\ from + x \in Nat
      /\ from < from + x /\ from + x <= m.len /\ from + x = Least(m.len, from + chunkSize)
      /\ left[c] - x \in Nat /\ (from + x) + (left[c] - x) = m.len
  <2> DEFINE len == m.len
  <2> DEFINE l == left[c]
  <2>1. len \in Nat /\ l \in Nat /\ 0 < l /\ l < len /\ chunkSize \in Nat \ {0}
    BY <1>3, <1>4, <1>5
  <2> HIDE DEF len, l
  <2>2. /\ len - l \in Nat /\ len - l # 0 /\ Least(l, chunkSize) \in Nat /\ Least(l, chunkSize) # 0
        /\ Least(l, chunkSize) <= l /\ (len - l) + Least(l, chunkSize) <= len
        /\ (len - l) + Least(l, chunkSize) = Least(len, (len - l) + chunkSize)
    BY <2>1 DEF Least
  <2> DEFINE y == Least(l, chunkSize)
  <2>3. y \in Nat /\ y # 0 /\ y <= l
    BY <2>2
  <2> HIDE DEF y
  <2>4. /\ (len - l) + y \in Nat /\ len - l < (len - l) + y /\ l - y \in Nat
        /\ ((len - l) + y) + (l - y) = len
    BY <2>1, <2>3
  <2> QED  BY <2>2, <2>4 DEF len, l, y
<1>8. /\ ch \in ChunkRec /\ ch.msg = n /\ ch.from = from /\ ch.to = from + x
      /\ ch.basic = BasicHeader(3, m.csid) /\ ch.header = MessageHeader(3, m, 0)
  <2> HIDE DEF n, m, from, x
  <2>1. 3 \in 0..3 /\ m \in MessageRec /\ 0 \in Nat /\ n \in Nat /\ from \in Nat /\ from + x \in Nat
    BY <1>4, <1>5, <1>7
  <2>3. m.csid \in Csids
    BY <1>3
  <2>4. BasicHeader(3, m.csid) \in {BasicHeader(f, d) : f \in 0..3, d \in Csids}
    BY <2>1, <2>3
  <2>5. MessageHeader(3, m, 0) \in {MessageHeader(f, mm, tt) : f \in 0..3, mm \in MessageRec, tt \in Nat}
    BY <2>1
  <2> QED  BY <2>1, <2>4, <2>5 DEF Chunk, PeerHeader, ChunkRec
<1> HIDE DEF ch, x, from
<1>9. /\ wire \in Seq(ChunkRec) /\ Longer(msgs, msgs')
      /\ \A k \in 1..Len(wire) : wire[k].msg \in 1..Len(msgs)
  BY <1>1, <1>2, <1>4, WireMsgs DEF TypeInv, Longer
<1> DEFINE v == <<ch>>
<1>10. /\ Writes(wire', wire, v, msgs, msgs', n)
       /\ v \in Seq(ChunkRec) /\ Len(v) = 1 /\ v[1] = ch
  <2> HIDE DEF n
  <2>1. n \in 1..Len(msgs')
    BY <1>1, <1>3
  <2> QED  BY <1>1, <1>8, <1>9, <2>1, AppendWrites, OneChunk
<1> HIDE DEF v
<1>11. TypeInv'
  <2>1. wire' \in Seq(ChunkRec)
    BY <1>1, <1>8, <1>9, AppendIs
  <2>2. out' \in [Csids -> Nat] /\ left' \in [Csids -> Nat]
    BY <1>1, <1>2, <1>5, <1>7 DEF TypeInv
  <2> QED  BY <1>1, <1>2, <2>1, <2>2 DEF TypeInv, readVars
<1>12. MsgsOK'
  BY <1>1, <1>2 DEF MsgsOK
<1>13. PrevOK'
  <2>1. sender' = sender /\ msgs' = msgs /\ prev' = prev /\ PrevOK
    BY <1>1, <1>2
  <2> QED  BY ONLY <2>1 DEF PrevOK
<1>15. /\ left'[c] = left[c] - x /\ out'[c] = (IF x = left[c] THEN 0 ELSE n)
       /\ \A d \in Csids : d # c => out'[d] = out[d] /\ left'[d] = left[d]
  BY <1>1, <1>2 DEF TypeInv
<1>16. OutOK'
  <2> SUFFICES ASSUME NEW d \in Csids
               PROVE  /\ out'[d] = 0 => left'[d] = 0
                      /\ out'[d] # 0 =>
                           /\ sender = "peer" /\ out'[d] \in 1..Len(msgs) /\ msgs[out'[d]].csid = d
                           /\ 0 < left'[d] /\ left'[d] < msgs[out'[d]].len
                           /\ \A k \in (out'[d] + 1)..Len(msgs) : msgs[k].csid # d
    BY <1>1 DEF OutOK
  <2>1. CASE d = c
    <3>1. CASE x = left[c]
      <4>1. out'[d] = 0 /\ left'[d] = left[c] - left[c]
        BY <1>15, <2>1, <3>1
      <4>2. left[c] - left[c] = 0
        BY <1>4
      <4> QED  BY <4>1, <4>2
    <3>2. CASE x # left[c]
      <4>1. out'[d] = n /\ left'[d] = left[c] - x
        BY <1>15, <2>1, <3>2
      <4>2. 0 < left[c] - x /\ left[c] - x < m.len
        <5> DEFINE l == left[c]
        <5> DEFINE k == m.len
        <5>1. l \in Nat /\ k \in Nat /\ x \in Nat /\ x <= l /\ x # l /\ l < k
          BY <1>3, <1>4, <1>5, <1>7, <3>2
        <5> HIDE DEF l, k, x
        <5>2. 0 < l - x /\ l - x < k
          BY ONLY <5>1
        <5> QED  BY <5>2 DEF l, k
      <4> QED  BY <1>1, <1>3, <2>1, <4>1, <4>2
    <3> QED  BY <3>1, <3>2
  <2>2. CASE d # c
    BY <1>2, <1>15, <2>2 DEF OutOK
  <2> QED  BY <2>1, <2>2
<1>17. WireOK'
  <2>1. FmtOf(msgs, ch) = 3
    BY <1>7, <1>8 DEF FmtOf
  <2>2. ch.header = MessageHeader(3, m, IF m.fmt = 0 THEN m.ts ELSE m.delta)
    BY <1>8 DEF MessageHeader
  <2>3. ChunkOK(msgs', ch)
    <3>1. /\ ch.msg \in 1..Len(msgs) /\ ch.from <= ch.to /\ ch.to <= m.len
          /\ ch.from # ch.to /\ msgs[ch.msg] = m
      BY <1>3, <1>7, <1>8
    <3> QED  BY <1>1, <1>8, <2>1, <2>2, <3>1 DEF ChunkOK
  <2>4. \A k \in 1..Len(v) : ChunkOK(msgs', v[k])
    BY <1>10, <2>3
  <2> HIDE DEF n
  <2> QED  BY <1>2, <1>10, <2>4, WireWrite
<1>18. Chain'
  <2> SUFFICES ASSUME NEW d \in Csids
               PROVE  /\ ChainOn(wire', msgs', chunks[d], d)
                      /\ EndOn(wire', msgs', chunks[d], out'[d], left'[d], d)
    BY <1>1 DEF Chain, readVars
  <2>1. /\ ChainOn(wire, msgs, chunks[d], d) /\ EndOn(wire, msgs, chunks[d], out[d], left[d], d)
        /\ chunks[d].msg \in 0..Len(msgs) /\ chunks[d].index \in Nat
    <3>1. chunks[d] \in StreamRec
      BY <1>2 DEF TypeInv
    <3>2. chunks[d].index \in Nat
      BY <3>1 DEF StreamRec
    <3> QED  BY <1>2, <3>2 DEF Chain, ReaderOK, StreamOK
  <2>2. CASE d # c
    <3>1. out[d] \in 0..Len(msgs)
      BY <1>2, <1>4 DEF OutOK
    <3>2. msgs'[n].csid # d /\ out'[d] = out[d] /\ left'[d] = left[d]
      BY <1>1, <1>3, <1>15, <2>2
    <3>3. \A k \in (Len(msgs) + 1)..Len(msgs') : k = n
      BY <1>1, <1>4
    <3> HIDE DEF n
    <3> QED  BY <1>10, <2>1, <3>1, <3>2, <3>3, ChainOther
  <2>3. CASE d = c
    <3>1. OfStream(msgs', n, d)
      BY <1>1, <1>3, <2>3 DEF OfStream
    <3>2. Joins(msgs, msgs', out[d], left[d], d, v[1])
      <4> SUFFICES ASSUME NEW q \in 0..Len(msgs), NEW pos \in Nat, Ends(msgs, out[d], left[d], d, q, pos)
                   PROVE  Goes(msgs', d, q, pos, ch)
        BY <1>10 DEF Joins
      <4>1. q = n /\ pos + left[c] = m.len
        BY <1>1, <2>3 DEF Ends
      <4>2. ch.msg = n /\ ch.from = from /\ from + left[c] = m.len
        BY <1>4, <1>5, <1>8 DEF from
      <4>3. pos = from /\ from < m.len
        <5> DEFINE l == left[c]
        <5> DEFINE len == m.len
        <5>1. l \in Nat /\ 0 < l /\ len \in Nat /\ from \in Nat /\ pos + l = len /\ from + l = len
          BY <1>3, <1>4, <1>5, <1>7, <4>1, <4>2
        <5> HIDE DEF l, len
        <5>2. pos = from /\ from < len
          BY <5>1
        <5> QED  BY <5>2 DEF len
      <4>4. n # 0 /\ msgs'[n] = m
        BY <1>1
      <4> QED  BY <4>1, <4>2, <4>3, <4>4 DEF Goes
    <3>3. Threads(msgs', d, n, v)
      BY <1>10 DEF Threads
    <3>4. Ends(msgs', out'[d], left'[d], d, n, v[Len(v)].to)
      <4>1. \A k \in (n + 1)..Len(msgs') : msgs'[k].csid # d
        BY <1>1, <1>3, <2>3
      <4>2. v[Len(v)].to = from + x /\ msgs'[n].len = m.len
        BY <1>1, <1>8, <1>10
      <4>3. CASE x = left[c]
        <5>1. out'[d] = 0 /\ from + x = m.len
          BY <1>4, <1>5, <1>7, <1>15, <2>3, <4>3
        <5> QED  BY <4>1, <4>2, <5>1 DEF Ends
      <4>4. CASE x # left[c]
        <5>1. out'[d] = n /\ n # 0 /\ (from + x) + left'[d] = m.len
          BY <1>1, <1>7, <1>15, <2>3, <4>4
        <5> QED  BY <4>1, <4>2, <5>1 DEF Ends
      <4> QED  BY <4>3, <4>4
    <3> HIDE DEF n
    <3> QED  BY ONLY <1>10, <2>1, <3>1, <3>2, <3>3, <3>4, ChainSame
  <2> QED  BY <2>2, <2>3
<1>19. Sizes'
  <2>1. SizesOn(wire, msgs, remoteChunkSize, chunkSize)
    BY <1>2 DEF Sizes
  <2>2. msgs'[n].csid # 2
    BY <1>1, <1>3, <1>6
  <2>3. chunkSize' = chunkSize /\ \A k \in 1..Len(v) : Cut(msgs', v[k], chunkSize)
    <3>1. Cut(msgs', ch, chunkSize)
      BY <1>1, <1>7, <1>8 DEF Cut
    <3> QED  BY <1>1, <1>10, <3>1
  <2>4. SizesOn(wire', msgs', remoteChunkSize, chunkSize')
    <3> HIDE DEF n
    <3> QED  BY <1>4, <1>10, <2>1, <2>2, <2>3, SizesWrite
  <2> QED  BY <1>1, <2>4 DEF Sizes, readVars
<1>20. ReaderOK' /\ DeliveredOK'
  BY <1>1, <1>2, <1>4, <1>9, ReaderLonger
<1>21. AckInv'
  <2>1. PICK f \in [0..Len(wire) -> Nat] :
          Totals(f, wire) /\ unacked = ackReceived + ackBuffered + f[0] + Open(chunks, left)
    BY <1>2 DEF AckInv
  <2>2. PICK g \in [0..Len(wire') -> Nat] :
          /\ Totals(g, wire') /\ f[0] \in Nat
          /\ g[0] = f[0] + (v[Len(v)].to - v[1].from)
    <3>1. \A k \in 1..Len(v) : /\ v[k].from \in Nat /\ v[k].to \in Nat
                               /\ v[k].to <= v[Len(v)].to
      BY <1>7, <1>8, <1>10
    <3>2. \A k \in 2..Len(v) : v[k].from = v[k - 1].to
      BY <1>10
    <3>3. v[1].from <= v[Len(v)].to
      BY <1>7, <1>8, <1>10
    <3> HIDE DEF n
    <3>4. Adjacent(v)
      BY <3>1, <3>2, <3>3 DEF Adjacent
    <3>5. Writes(wire', wire, v, msgs, msgs', n)
      BY <1>10
    <3> QED  BY ONLY <2>1, <3>4, <3>5, TotalsWrite
  <2>3. g[0] = f[0] + x
    BY <1>7, <1>8, <1>10, <2>2
  <2>4. /\ chunks \in [Csids -> StreamRec] /\ left \in [Csids -> Nat] /\ left' \in [Csids -> Nat]
        /\ ackReceived \in Nat /\ ackBuffered \in Nat
    BY <1>2, <1>11 DEF TypeInv
  <2>5. /\ Open(chunks, left) \in Nat /\ Open(chunks, left') \in Nat
        /\ Open(chunks, left') + left[c] = Open(chunks, left) + left'[c]
    <3>1. \A d \in Csids : d # c => left'[d] = left[d]
      BY <1>15
    <3> QED  BY ONLY c \in Csids, <2>4, <3>1, OpenLeft, OpenIs
  <2>6. UNCHANGED <<ackReceived, ackBuffered, chunks>>
    BY <1>1 DEF readVars
  <2>7. f[0] + Open(chunks, left) = g[0] + Open(chunks, left')
    <3> DEFINE A == Open(chunks, left)
    <3> DEFINE B == Open(chunks, left')
    <3> DEFINE F == f[0]
    <3>1. /\ A \in Nat /\ B \in Nat /\ F \in Nat /\ g[0] = F + x /\ B + left[c] = A + (left[c] - x)
          /\ x \in Nat /\ left[c] \in Nat /\ x <= left[c]
      BY <1>4, <1>7, <1>15, <2>2, <2>3, <2>5
    <3> HIDE DEF A, B, F
    <3>2. F + A = g[0] + B
      BY <3>1
    <3> QED  BY <3>2 DEF A, B, F
  <2>8. unacked = ackReceived + ackBuffered + g[0] + Open(chunks, left')
    <3>1. /\ f[0] \in Nat /\ g[0] \in Nat /\ Open(chunks, left) \in Nat /\ Open(chunks, left') \in Nat
      BY <1>7, <2>2, <2>3, <2>5
    <3> QED  BY <2>1, <2>4, <2>7, <3>1
  <2>9. unacked' = ackReceived' + ackBuffered' + g[0] + Open(chunks', left')
    BY <1>1, <2>6, <2>8
  <2> QED  BY <2>2, <2>9 DEF AckInv
<1>22. WindowInv' /\ Framed'
  BY <1>1, <1>2 DEF WindowInv, Framed, readVars
<1> QED
  BY <1>11, <1>12, <1>13, <1>16, <1>17, <1>18, <1>19, <1>20, <1>21, <1>22 DEF Inv

\* RtmpConn.Write keeps the invariant.
LEMMA WriteStep ==
  ASSUME MaxTs < ExtTs, Inv, NEW kind \in Kinds, NEW len \in Lens, NEW ts \in 0..MaxTs,
         NEW size \in ChunkSizes, NEW window \in Windows, Write(kind, len, ts, size, window)
  PROVE  Inv'
<1> DEFINE c == CsidOf(kind)
<1> DEFINE m == Message(kind, len, ts, 0, 0, size, window)
<1> DEFINE cut == IF kind = "size" THEN size ELSE chunkSize
<1> DEFINE n == Len(msgs) + 1
<1> DEFINE v == writeChunk(n, m, cut)
<1>1. /\ sender = "own" /\ Len(msgs) < MaxMsgs /\ len > 0
      /\ kind \in Control => len = 1 /\ ts = 0
      /\ kind # "size" => size = chunkSize
      /\ msgs' = Append(msgs, m)
      /\ chunkSize' = cut
      /\ wire' = wire \o v
      /\ unacked' = unacked + len
      /\ sender' = sender /\ out' = out /\ left' = left /\ prev' = prev /\ UNCHANGED readVars
  BY DEF Write, WellFormed
<1>2. /\ TypeInv /\ MsgsOK /\ PrevOK /\ OutOK /\ WireOK /\ Chain /\ Sizes /\ ReaderOK /\ DeliveredOK
      /\ AckInv /\ WindowInv /\ Framed
  BY DEF Inv
<1>3. /\ c \in Csids /\ (c = 2 <=> kind \in Control) /\ len \in 0..MaxLen /\ len \in Nat /\ ts \in Nat
      /\ chunkSize \in ChunkSizes /\ cut \in ChunkSizes /\ cut \in Nat \ {0} /\ MaxLen \in Nat
      /\ ExtTs \in Nat /\ ExtTs # 0 /\ MaxMsgs \in Nat /\ ts < ExtTs
  <2>1. /\ MaxTs \in Nat /\ ExtTs \in Nat /\ ExtTs # 0 /\ Lens \subseteq 0..MaxLen /\ MaxLen \in Nat
        /\ MaxMsgs \in Nat /\ ChunkSizes \subseteq Nat \ {0}
    BY Constants
  <2>2. c \in Csids /\ (c = 2 <=> kind \in Control)
    BY CsidIs
  <2>3. chunkSize \in ChunkSizes
    BY <1>2 DEF TypeInv
  <2> QED  BY <2>1, <2>2, <2>3
<1> HIDE DEF c, cut
<1>5. /\ m \in MessageRec /\ m.csid = c /\ m.kind = kind /\ m.len = len /\ m.ts = ts /\ m.fmt = 0
      /\ m.delta = 0 /\ m.size = size
  BY <1>3 DEF Message, MessageRec, c
<1> HIDE DEF m
<1>6. /\ Len(msgs) \in Nat /\ n \in Nat /\ n # 0 /\ Len(msgs') = n /\ msgs' \in Seq(MessageRec)
      /\ msgs'[n] = m /\ \A k \in 1..Len(msgs) : msgs'[k] = msgs[k]
      /\ Longer(msgs, msgs') /\ n \in 1..Len(msgs')
      /\ \A k \in (Len(msgs) + 1)..Len(msgs') : k = n
  <2>1. /\ Len(msgs) \in Nat /\ Len(msgs') = Len(msgs) + 1 /\ msgs' \in Seq(MessageRec)
        /\ msgs'[Len(msgs) + 1] = m /\ \A k \in 1..Len(msgs) : msgs'[k] = msgs[k]
        /\ Longer(msgs, msgs')
        /\ \A k \in (Len(msgs) + 1)..Len(msgs') : k = Len(msgs) + 1
    BY <1>1, <1>2, <1>5, NewMessage
  <2> QED  BY <2>1
<1> HIDE DEF n
<1>7. \A d \in Csids : out[d] = 0 /\ left[d] = 0
  BY <1>1, <1>2 DEF OutOK
<1>8. /\ v \in Seq(ChunkRec) /\ Len(v) \in Nat /\ Len(v) >= 1
      /\ \A k \in 1..Len(v) :
           /\ v[k].msg = n
           /\ v[k].from \in Nat /\ v[k].to \in Nat /\ v[k].from < v[k].to /\ v[k].to <= m.len
           /\ v[k].to = Least(m.len, v[k].from + cut)
           /\ v[k].basic = BasicHeader(IF v[k].from = 0 THEN 0 ELSE 3, m.csid)
           /\ v[k].header = MessageHeader(IF v[k].from = 0 THEN 0 ELSE 3, m, m.ts)
      /\ \A k \in 2..Len(v) : v[k].from = v[k - 1].to /\ v[k - 1].to < m.len
      /\ v[1].from = 0 /\ v[Len(v)].to = m.len
  <2>1. m.len # 0 /\ m.ts < ExtTs
    BY <1>1, <1>3, <1>5
  <2>2. Chunked(v, n, m, cut)
    BY <1>3, <1>5, <1>6, <2>1, WriteChunkIs
  <2> QED  BY <2>2 DEF Chunked
<1> HIDE DEF v
<1>9. wire \in Seq(ChunkRec) /\ \A k \in 1..Len(wire) : wire[k].msg \in 1..Len(msgs)
  BY <1>2, WireMsgs DEF TypeInv
<1>10. wire' \in Seq(ChunkRec) /\ Writes(wire', wire, v, msgs, msgs', n)
  <2>1. /\ wire' \in Seq(ChunkRec) /\ Len(wire') = Len(wire) + Len(v)
        /\ \A i \in 1..Len(wire) : wire'[i] = wire[i]
        /\ \A i \in 1..Len(v) : wire'[Len(wire) + i] = v[i]
    BY <1>1, <1>8, <1>9, ConcatIs
  <2> QED  BY <1>6, <1>8, <1>9, <2>1 DEF Writes
<1>11. TypeInv'
  <2>1. chunkSize' \in ChunkSizes /\ unacked' \in Nat
    BY <1>1, <1>2, <1>3 DEF TypeInv
  <2>2. Len(msgs') <= MaxMsgs
    BY <1>1, <1>3, <1>6 DEF n
  <2> QED  BY <1>1, <1>2, <1>6, <1>10, <2>1, <2>2 DEF TypeInv, readVars
<1>12. MsgsOK'
  <2>1. \A k \in 1..Len(msgs) : MsgOK(msgs', k)
    BY <1>2, <1>6, MsgLonger DEF MsgsOK
  <2>2. MsgOK(msgs', n)
    BY <1>1, <1>3, <1>5, <1>6 DEF MsgOK, Shortened, c
  <2>3. \A k \in 1..Len(msgs') : k = n \/ k \in 1..Len(msgs)
    BY <1>6 DEF n
  <2> QED  BY <2>1, <2>2, <2>3 DEF MsgsOK
<1>13. PrevOK'
  BY <1>1 DEF PrevOK
<1>16. OutOK'
  BY <1>1, <1>7 DEF OutOK
<1>17. WireOK'
  <2>1. \A k \in 1..Len(v) : ChunkOK(msgs', v[k])
    <3> SUFFICES ASSUME NEW k \in 1..Len(v)  PROVE ChunkOK(msgs', v[k])
      OBVIOUS
    <3>1. /\ v[k].msg = n /\ v[k].from \in Nat /\ v[k].to \in Nat /\ v[k].from < v[k].to
          /\ v[k].to <= m.len
          /\ v[k].basic = BasicHeader(IF v[k].from = 0 THEN 0 ELSE 3, m.csid)
          /\ v[k].header = MessageHeader(IF v[k].from = 0 THEN 0 ELSE 3, m, m.ts)
      BY <1>8
    <3> DEFINE e == v[k]
    <3> HIDE DEF e
    <3>2. FmtOf(msgs', e) = (IF e.from = 0 THEN 0 ELSE 3)
      BY <1>5, <1>6, <3>1 DEF FmtOf, e
    <3>3. /\ e.msg \in 1..Len(msgs') /\ msgs'[e.msg] = m /\ e.from <= e.to /\ e.to <= m.len
          /\ e.from # e.to
      BY <1>6, <3>1 DEF e
    <3>4. ChunkOK(msgs', e)
      BY <1>5, <3>1, <3>2, <3>3 DEF ChunkOK, e
    <3> QED  BY <3>4 DEF e
  <2> QED  BY <1>2, <1>10, <2>1, WireWrite
<1>18. Chain'
  <2> SUFFICES ASSUME NEW d \in Csids
               PROVE  /\ ChainOn(wire', msgs', chunks[d], d)
                      /\ EndOn(wire', msgs', chunks[d], out[d], left[d], d)
    BY <1>1 DEF Chain, readVars
  <2>1. /\ ChainOn(wire, msgs, chunks[d], d) /\ EndOn(wire, msgs, chunks[d], out[d], left[d], d)
        /\ chunks[d].msg \in 0..Len(msgs) /\ chunks[d].index \in Nat
    <3>1. chunks[d] \in StreamRec
      BY <1>2 DEF TypeInv
    <3>2. chunks[d].index \in Nat
      BY <3>1 DEF StreamRec
    <3> QED  BY <1>2, <3>2 DEF Chain, ReaderOK, StreamOK
  <2>2. CASE d # c
    <3>1. out[d] \in 0..Len(msgs) /\ msgs'[n].csid # d
      BY <1>5, <1>6, <1>7, <2>2
    <3> QED  BY <1>6, <1>10, <2>1, <3>1, ChainOther
  <2>3. CASE d = c
    <3>1. OfStream(msgs', n, d)
      BY <1>5, <1>6, <2>3 DEF OfStream
    <3>2. Joins(msgs, msgs', out[d], left[d], d, v[1])
      <4> SUFFICES ASSUME NEW q \in 0..Len(msgs), NEW pos \in Nat, Ends(msgs, out[d], left[d], d, q, pos)
                   PROVE  Goes(msgs', d, q, pos, v[1])
        BY DEF Joins
      <4>1. q # 0 => pos = msgs[q].len /\ msgs'[q] = msgs[q]
        BY <1>6, <1>7 DEF Ends
      <4>2. ~(q # 0 /\ pos < msgs'[q].len)
        BY <4>1
      <4>3. q < n /\ \A k \in (q + 1)..(n - 1) : k \in 1..Len(msgs) /\ k \in (q + 1)..Len(msgs)
        BY <1>6 DEF n
      <4>4. \A k \in (q + 1)..(n - 1) : msgs'[k].csid # d
        BY <1>6, <4>3 DEF Ends
      <4>5. v[1].from = 0 /\ v[1].msg = n
        <5>1. 1 \in 1..Len(v)
          BY <1>8
        <5> QED  BY <1>8, <5>1
      <4> QED  BY <4>2, <4>3, <4>4, <4>5 DEF Goes
    <3>3. Threads(msgs', d, n, v)
      <4> SUFFICES ASSUME NEW k \in 2..Len(v)  PROVE Goes(msgs', d, n, v[k - 1].to, v[k])
        BY DEF Threads
      <4>1. v[k].from = v[k - 1].to /\ v[k - 1].to < m.len
        BY <1>8
      <4>2. v[k].msg = n
        <5>1. k \in 1..Len(v)
          BY <1>8
        <5> QED  BY <1>8, <5>1
      <4> QED  BY <1>6, <4>1, <4>2 DEF Goes
    <3>4. Ends(msgs', out[d], left[d], d, n, v[Len(v)].to)
      <4>1. \A k \in (n + 1)..Len(msgs') : msgs'[k].csid # d
        BY <1>6
      <4> QED  BY <1>6, <1>7, <1>8, <4>1 DEF Ends
    <3> QED  BY ONLY <1>10, <2>1, <3>1, <3>2, <3>3, <3>4, ChainSame
  <2> QED  BY <2>2, <2>3
<1>19. Sizes'
  <2>1. SizesOn(wire, msgs, remoteChunkSize, chunkSize)
    BY <1>2 DEF Sizes
  <2>2. msgs'[n].csid = c /\ msgs'[n].len = len /\ msgs'[n].size = size /\ msgs'[n].kind = kind
    BY <1>5, <1>6
  <2>3. ASSUME c # 2
        PROVE  chunkSize' = chunkSize /\ \A k \in 1..Len(v) : Cut(msgs', v[k], chunkSize)
    <3>1. chunkSize' = chunkSize /\ cut = chunkSize
      BY <1>1, <1>3, <2>3 DEF cut, Control
    <3>2. \A k \in 1..Len(v) : v[k].msg = n /\ v[k].to = Least(m.len, v[k].from + chunkSize)
      BY <1>8, <3>1
    <3> QED  BY <1>6, <3>1, <3>2 DEF Cut
  <2>4. ASSUME c = 2
        PROVE  /\ chunkSize' = msgs'[n].size /\ Len(v) = 1
               /\ msgs'[n].kind # "size" => chunkSize' = chunkSize
               /\ \A s \in ChunkSizes : Cut(msgs', v[1], s)
    <3>1. chunkSize' = size /\ len = 1 /\ m.len = 1 /\ (kind # "size" => chunkSize' = chunkSize)
      BY <1>1, <1>3, <1>5, <2>4 DEF cut
    <3>2. 1 \in 1..Len(v)
      BY <1>8
    <3>3. v[1].msg = n /\ v[1].from = 0 /\ v[1].to = 1
      <4>1. v[1].msg = n /\ v[1].from = 0 /\ v[1].to \in Nat /\ 0 < v[1].to /\ v[1].to <= 1
        BY <1>8, <3>1, <3>2
      <4> QED  BY <4>1
    <3>4. Len(v) = 1
      <4> SUFFICES ASSUME Len(v) # 1  PROVE FALSE
        OBVIOUS
      <4>0. Len(v) \in Nat /\ Len(v) >= 1
        BY <1>8
      <4> DEFINE L == Len(v)
      <4>9. L # 1 /\ L \in Nat /\ L >= 1
        BY <4>0
      <4> HIDE DEF L
      <4>10. 2 \in 2..L /\ 2 - 1 = 1
        BY <4>9
      <4>1. 2 \in 2..Len(v) /\ 2 - 1 = 1
        BY <4>10 DEF L
      <4>2. v[2 - 1].to < m.len
        BY <1>8, <4>1
      <4> QED  BY <3>1, <3>3, <4>1, <4>2
    <3>5. \A s \in ChunkSizes : Least(1, 0 + s) = 1
      BY Constants DEF Least
    <3>6. \A s \in ChunkSizes : Cut(msgs', v[1], s)
      BY <2>2, <3>1, <3>3, <3>5 DEF Cut
    <3> QED  BY <2>2, <3>1, <3>4, <3>6
  <2>5. SizesOn(wire', msgs', remoteChunkSize, chunkSize')
    BY <1>3, <1>10, <2>1, <2>2, <2>3, <2>4, SizesWrite
  <2> QED  BY <1>1, <2>5 DEF Sizes, readVars
<1>20. ReaderOK' /\ DeliveredOK'
  BY <1>1, <1>2, <1>6, ReaderLonger
<1>21. AckInv'
  <2>1. PICK f \in [0..Len(wire) -> Nat] :
          Totals(f, wire) /\ unacked = ackReceived + ackBuffered + f[0] + Open(chunks, left)
    BY <1>2 DEF AckInv
  <2>2. PICK g \in [0..Len(wire') -> Nat] :
          /\ Totals(g, wire') /\ f[0] \in Nat
          /\ g[0] = f[0] + (v[Len(v)].to - v[1].from)
    <3>1. \A k \in 1..Len(v) : /\ v[k].from \in Nat /\ v[k].to \in Nat
                               /\ v[k].to <= v[Len(v)].to
      BY <1>8
    <3>2. \A k \in 2..Len(v) : v[k].from = v[k - 1].to
      BY <1>8
    <3>3. v[1].from <= v[Len(v)].to
      BY <1>3, <1>5, <1>8
    <3>4. Writes(wire', wire, v, msgs, msgs', n) /\ Totals(f, wire)
      BY <1>10, <2>1
    <3>5. Adjacent(v)
      BY <3>1, <3>2, <3>3 DEF Adjacent
    <3> QED  BY <3>4, <3>5, TotalsWrite
  <2>3. g[0] = f[0] + len
    <3>1. v[Len(v)].to = len /\ v[1].from = 0
      BY <1>5, <1>8
    <3>2. len - 0 = len
      BY <1>3
    <3> QED  BY <2>2, <3>1, <3>2
  <2>4. /\ chunks \in [Csids -> StreamRec] /\ left \in [Csids -> Nat]
        /\ ackReceived \in Nat /\ ackBuffered \in Nat
    BY <1>2 DEF TypeInv
  <2>5. Open(chunks, left) \in Nat
    BY <2>4, OpenIs
  <2>6. UNCHANGED <<ackReceived, ackBuffered, chunks, left>>
    BY <1>1 DEF readVars
  <2>7. unacked + len = ackReceived + ackBuffered + g[0] + Open(chunks, left)
    <3> DEFINE F == f[0]
    <3> DEFINE O == Open(chunks, left)
    <3> DEFINE G == g[0]
    <3>1. /\ F \in Nat /\ O \in Nat /\ ackReceived \in Nat /\ ackBuffered \in Nat /\ len \in Nat
          /\ unacked = ackReceived + ackBuffered + F + O /\ G = F + len
      BY ONLY <1>3, <2>1, <2>2, <2>3, <2>4, <2>5
    <3> HIDE DEF F, O, G
    <3>2. unacked + len = ackReceived + ackBuffered + G + O
      BY ONLY <3>1
    <3> QED  BY ONLY <3>2 DEF G, O
  <2>8. unacked' = ackReceived' + ackBuffered' + g[0] + Open(chunks', left')
    BY <1>1, <2>6, <2>7
  <2> QED  BY <2>2, <2>8 DEF AckInv
<1>22. WindowInv' /\ Framed'
  BY <1>1, <1>2 DEF WindowInv, Framed, readVars
<1> QED
  BY <1>11, <1>12, <1>13, <1>16, <1>17, <1>18, <1>19, <1>20, <1>21, <1>22 DEF Inv

-----------------------------------------------------------------------------
(* Reading *)

\* The buffer numbered buf has room for len units (NeedsBuffer, denied).
Room(mm, buf, len) == len <= (IF buf = 0 THEN 0 ELSE Len(mm[buf]))

\* What readChunk is to make of chunk ch of a message of ms where the stream was at a.
TakenIn(ms, mm, a, ch, r) ==
  /\ r.ok = TRUE /\ r.cs \in StreamRec
  /\ r.cs.msg = ch.msg /\ r.cs.len = ms[ch.msg].len /\ r.cs.kind = ms[ch.msg].kind
  /\ r.cs.pts = ms[ch.msg].ts /\ r.cs.delta < ExtTs
  /\ ms[ch.msg].fmt # 0 => r.cs.delta = ms[ch.msg].delta
  /\ r.cs.index = ch.to /\ r.cs.remain = ms[ch.msg].len - ch.to
  /\ r.cs.complete <=> ch.to = ms[ch.msg].len
  /\ r.cs.buf = a.buf
  /\ r.fresh <=> (ch.from = 0 /\ ~Room(mm, a.buf, ms[ch.msg].len))
  /\ IF ch.from = 0 THEN a.remain = 0 /\ a.msg < ch.msg
     ELSE a.remain # 0 /\ a.msg = ch.msg /\ a.index = ch.from /\ a.len = ms[ch.msg].len

\* b is stream a where a message of time t begins, or where x units of message n are read.
Allocated(a, t, b) ==
  /\ b \in StreamRec /\ b.ts = a.ts /\ b.pts = t /\ b.len = a.len /\ b.kind = a.kind
  /\ b.delta = a.delta /\ b.remain = a.len /\ b.index = 0 /\ b.complete = FALSE
  /\ b.buf = a.buf
Advanced(a, x, n, b) ==
  /\ b \in StreamRec /\ b.ts = a.ts /\ b.pts = a.pts /\ b.len = a.len /\ b.kind = a.kind
  /\ b.delta = a.delta /\ b.remain = a.remain - x /\ b.index = a.index + x
  /\ b.complete <=> a.remain = x
  /\ b.buf = a.buf /\ b.msg = n

\* After header h, stream a has the fields of message n of ms, and no extended
\* timestamp is looked for.
Headed(ms, n, a, h) ==
  LET m == ms[n]
      b == TakeHeader(a, m.fmt, h) IN
  /\ h.k = HeaderKind(m.fmt) /\ b \in StreamRec /\ b.len = m.len /\ b.kind = m.kind
  /\ b.delta < ExtTs /\ (m.fmt # 0 => b.delta = m.delta) /\ b.buf = a.buf
  /\ TimeExtend(b, m.fmt) = FALSE
  /\ Pts(a, m.fmt, IF m.fmt = 0 THEN b.ts ELSE b.delta) = m.ts

\* The fields of a stream when a message begins.
LEMMA AllocIs ==
  ASSUME NEW a \in StreamRec, NEW t \in Nat
  PROVE  Allocated(a, t, [alloc(a) EXCEPT !.pts = t])
<1>1. a.len \in Nat
  BY Constants DEF StreamRec
<1> QED  BY <1>1 DEF alloc, StreamRec, Allocated

\* The fields of a stream when x units of data are read.
LEMMA AdvanceIs ==
  ASSUME NEW a \in StreamRec, NEW x \in Nat, x <= a.remain, a.complete = FALSE, NEW n \in Nat
  PROVE  Advanced(a, x, n, [a EXCEPT !.index = @ + x, !.remain = @ - x,
                                     !.complete = @ \/ a.remain = x, !.msg = n])
<1>1. a.remain \in Nat /\ a.index \in Nat
  BY DEF StreamRec
<1>2. a.remain - x \in Nat /\ a.index + x \in Nat
  BY <1>1
<1> QED  BY <1>2 DEF StreamRec, Advanced

\* The message before n on its chunk stream is the one the reader is done with.
LEMMA BeforeIs ==
  ASSUME NEW ms, NEW c, NEW n \in Nat, NEW q \in Nat, NEW p \in 1..(n - 1), OfStream(ms, n, c),
         q < n, q # 0 => OfStream(ms, q, c), \A k \in (q + 1)..(n - 1) : ms[k].csid # c, Succ(ms, p, n)
  PROVE  p = q
<1>1. ms[p].csid = c /\ \A k \in (p + 1)..(n - 1) : ms[k].csid # c
  BY DEF Succ, OfStream
<1>2. ~(p > q)
  <2> SUFFICES ASSUME p > q  PROVE FALSE
    OBVIOUS
  <2>1. p \in (q + 1)..(n - 1)
    OBVIOUS
  <2> QED  BY <1>1, <2>1
<1>3. ~(q > p)
  <2> SUFFICES ASSUME q > p  PROVE FALSE
    OBVIOUS
  <2>1. q \in (p + 1)..(n - 1) /\ q # 0
    OBVIOUS
  <2> QED  BY <1>1, <2>1 DEF OfStream
<1> QED  BY <1>2, <1>3

\* What the first header of a message says, with what the stream keeps from the message
\* before it, is all of the message's.
LEMMA HeaderIs ==
  ASSUME NEW ms \in Seq(MessageRec), NEW c \in Csids, NEW n \in 1..Len(ms), MsgOK(ms, n),
         OfStream(ms, n, c), NEW a \in StreamRec, StreamOK(ms, a, c), a.remain = 0, a.msg < n,
         \A k \in (a.msg + 1)..(n - 1) : ms[k].csid # c
  PROVE  Headed(ms, n, a,
                MessageHeader(ms[n].fmt, ms[n], IF ms[n].fmt = 0 THEN ms[n].ts ELSE ms[n].delta))
<1> DEFINE m == ms[n]
<1> DEFINE h == MessageHeader(m.fmt, m, IF m.fmt = 0 THEN m.ts ELSE m.delta)
<1> DEFINE b == TakeHeader(a, m.fmt, h)
<1>1. m \in MessageRec
  OBVIOUS
<1>2. /\ m.ts \in Nat /\ m.delta \in Nat /\ m.len \in 0..MaxLen /\ m.kind \in Kinds /\ m.fmt \in 0..3
      /\ ExtTs \in Nat /\ m.ts < ExtTs /\ m.delta < ExtTs
  BY <1>1, Constants DEF MessageRec, MsgOK
<1>3. /\ a.delta \in Nat /\ a.delta < ExtTs /\ a.pts \in Nat /\ a.msg \in Nat
  BY DEF StreamRec, StreamOK
<1>4. ASSUME m.fmt # 0
      PROVE  /\ m.ts = a.pts + m.delta
             /\ m.fmt \in {2, 3} => m.len = a.len /\ m.kind = a.kind
             /\ m.fmt = 3 => m.delta = a.delta
  <2>1. PICK p \in 1..(n - 1) :
          /\ Succ(ms, p, n)
          /\ m.ts = ms[p].ts + m.delta
          /\ m.fmt \in {2, 3} => m.len = ms[p].len /\ m.kind = ms[p].kind
          /\ m.fmt = 3 => ms[p].fmt # 0 /\ m.delta = ms[p].delta
    BY <1>4 DEF MsgOK, Shortened
  <2>2. a.msg # 0 => OfStream(ms, a.msg, c)
    BY DEF StreamOK, OfStream
  <2>3. p = a.msg /\ n \in Nat
    BY <1>3, <2>1, <2>2, BeforeIs
  <2>4. /\ a.len = ms[p].len /\ a.kind = ms[p].kind /\ a.pts = ms[p].ts
        /\ ms[p].fmt # 0 => a.delta = ms[p].delta
    BY <2>3 DEF StreamOK
  <2> QED  BY <2>1, <2>4
<1>5. CASE m.fmt = 0
  <2>1. h = [k |-> "h11", ts |-> m.ts, len |-> m.len, kind |-> m.kind]
    BY <1>5 DEF MessageHeader
  <2>2. b = [a EXCEPT !.ts = m.ts, !.len = m.len, !.kind = m.kind]
    <3> HIDE DEF h
    <3>1. h.ts = m.ts /\ h.len = m.len /\ h.kind = m.kind
      BY <2>1
    <3> QED  BY <1>5, <3>1 DEF TakeHeader
  <2>3. /\ b \in StreamRec /\ b.ts = m.ts /\ b.len = m.len /\ b.kind = m.kind /\ b.delta = a.delta
        /\ b.buf = a.buf /\ b.pts = a.pts
    BY <1>2, <2>2 DEF StreamRec
  <2>4. ~(b.ts = ExtTs)
    BY <1>2, <2>3
  <2> HIDE DEF b
  <2> QED  BY <1>2, <1>3, <1>5, <2>1, <2>3, <2>4 DEF Headed, HeaderKind, TimeExtend, Pts, b
<1>6. CASE m.fmt = 1
  <2>1. h = [k |-> "h7", ts |-> m.delta, len |-> m.len, kind |-> m.kind]
    BY <1>6 DEF MessageHeader
  <2>2. b = [a EXCEPT !.delta = m.delta, !.len = m.len, !.kind = m.kind]
    <3> HIDE DEF h
    <3>1. h.ts = m.delta /\ h.len = m.len /\ h.kind = m.kind
      BY <2>1
    <3> QED  BY <1>6, <3>1 DEF TakeHeader
  <2>3. /\ b \in StreamRec /\ b.len = m.len /\ b.kind = m.kind /\ b.delta = m.delta
        /\ b.buf = a.buf /\ b.pts = a.pts
    BY <1>2, <2>2 DEF StreamRec
  <2>4. ~(b.delta = ExtTs)
    BY <1>2, <2>3
  <2> HIDE DEF b
  <2> QED  BY <1>2, <1>4, <1>6, <2>1, <2>3, <2>4 DEF Headed, HeaderKind, TimeExtend, Pts, b
<1>7. CASE m.fmt = 2
  <2>1. h = [k |-> "h3", ts |-> m.delta]
    BY <1>7 DEF MessageHeader
  <2>2. b = [a EXCEPT !.delta = m.delta]
    <3> HIDE DEF h
    <3>1. h.ts = m.delta
      BY <2>1
    <3> QED  BY <1>7, <3>1 DEF TakeHeader
  <2>3. /\ b \in StreamRec /\ b.len = m.len /\ b.kind = m.kind /\ b.delta = m.delta
        /\ b.buf = a.buf /\ b.pts = a.pts
    <3>1. m.len = a.len /\ m.kind = a.kind
      BY <1>4, <1>7
    <3> HIDE DEF b
    <3> QED  BY <1>2, <2>2, <3>1 DEF StreamRec
  <2>4. ~(b.delta = ExtTs)
    BY <1>2, <2>3
  <2> HIDE DEF b
  <2> QED  BY <1>2, <1>4, <1>7, <2>1, <2>3, <2>4 DEF Headed, HeaderKind, TimeExtend, Pts, b
<1>8. CASE m.fmt = 3
  <2>1. h = [k |-> "none"]
    BY <1>8 DEF MessageHeader
  <2>2. b = a
    BY <1>8, <2>1 DEF TakeHeader
  <2>3. /\ b \in StreamRec /\ b.len = m.len /\ b.kind = m.kind /\ b.delta = m.delta
        /\ b.buf = a.buf /\ b.pts = a.pts
    BY <1>4, <1>8, <2>2
  <2>4. ~(b.delta = ExtTs)
    BY <1>2, <2>3
  <2> HIDE DEF b
  <2> QED  BY <1>2, <1>4, <1>8, <2>1, <2>3, <2>4 DEF Headed, HeaderKind, TimeExtend, Pts, b
<1>9. m.fmt = 0 \/ m.fmt = 1 \/ m.fmt = 2 \/ m.fmt = 3
  BY <1>2
<1> QED  BY <1>5, <1>6, <1>7, <1>8, <1>9

\* readChunk makes of the next chunk of a stream what the sender put into it.
LEMMA ReadChunkIs ==
  ASSUME NEW ms \in Seq(MessageRec), NEW c \in Csids, NEW ch \in ChunkRec, ChunkOK(ms, ch),
         MsgOK(ms, ch.msg), OfStream(ms, ch.msg, c), NEW a \in StreamRec, StreamOK(ms, a, c),
         Goes(ms, c, a.msg, a.index, ch), NEW s \in ChunkSizes, Cut(ms, ch, s),
         mem \in Seq(Seq(UnitRec)), a.buf \in 0..Len(mem)
  PROVE  TakenIn(ms, mem, a, ch, readChunk(a, FmtOf(ms, ch), ch, s))
<1> DEFINE n == ch.msg
<1> DEFINE m == ms[n]
<1> DEFINE fmt == FmtOf(ms, ch)
<1> DEFINE okh == ch.header.k = HeaderKind(fmt)
<1> DEFINE c1 == IF okh THEN TakeHeader(a, fmt, ch.header) ELSE a
<1> DEFINE y == TimeExtend(c1, fmt)
<1> DEFINE okx == y = (ch.ext # <<>>)
<1> DEFINE t == CASE y /\ okx -> ch.ext[1] [] fmt = 0 -> c1.ts [] OTHER -> c1.delta
<1> DEFINE c2 == IF a.remain = 0 THEN [alloc(c1) EXCEPT !.pts = Pts(a, fmt, t)] ELSE c1
<1> DEFINE x == Least(c2.remain, s)
<1> DEFINE b == [c2 EXCEPT !.index = @ + x, !.remain = @ - x, !.complete = @ \/ c2.remain = x,
                           !.msg = n]
<1> DEFINE r == readChunk(a, fmt, ch, s)
<1>1. /\ n \in 1..Len(ms) /\ n \in Nat /\ m \in MessageRec /\ ch.ext = <<>>
      /\ ch.from \in Nat /\ ch.to \in Nat
  BY DEF ChunkOK, ChunkRec
<1>2. /\ m.len \in Nat /\ m.fmt \in 0..3 /\ m.ts \in Nat /\ s \in Nat /\ s # 0 /\ ExtTs \in Nat
      /\ ch.from <= ch.to /\ ch.to <= m.len /\ ch.to = Least(m.len, ch.from + s)
      /\ (ch.from = ch.to => m.len = 0)
      /\ ch.header = MessageHeader(fmt, m, IF m.fmt = 0 THEN m.ts ELSE m.delta)
  <2>1. m.len \in Nat /\ m.fmt \in 0..3 /\ m.ts \in Nat /\ s \in Nat /\ s # 0 /\ ExtTs \in Nat
    <3> HIDE DEF m
    <3>1. MaxLen \in Nat /\ s \in Nat /\ s # 0 /\ ExtTs \in Nat
      BY Constants
    <3>2. m.len \in 0..MaxLen /\ m.fmt \in 0..3 /\ m.ts \in Nat
      BY <1>1 DEF MessageRec
    <3> QED  BY <3>1, <3>2
  <2>2. /\ ch.from <= ch.to /\ ch.to <= m.len /\ (ch.from = ch.to => m.len = 0)
        /\ ch.header = MessageHeader(fmt, m, IF m.fmt = 0 THEN m.ts ELSE m.delta)
    BY DEF ChunkOK
  <2>3. ch.to = Least(m.len, ch.from + s)
    BY DEF Cut
  <2> QED  BY <2>1, <2>2, <2>3
<1>3. a.remain \in Nat /\ a.index \in Nat /\ a.delta \in Nat /\ a.complete \in BOOLEAN /\ a.msg \in Nat
  BY DEF StreamRec
<1>4. r = [ok |-> okh /\ okx /\ x = ch.to - ch.from, cs |-> b,
           fresh |-> a.remain = 0 /\ NeedsBuffer(c1)]
  BY DEF readChunk
<1> HIDE DEF r
<1>5. r.cs = b /\ r.ok = (okh /\ okx /\ x = ch.to - ch.from) /\ r.fresh = (a.remain = 0 /\ NeedsBuffer(c1))
  BY <1>4
<1>6. CASE a.remain # 0
  <2>1. /\ a.msg # 0 /\ a.index < ms[a.msg].len /\ a.index # 0 /\ a.index + a.remain = ms[a.msg].len
        /\ a.len = ms[a.msg].len /\ a.kind = ms[a.msg].kind /\ a.pts = ms[a.msg].ts
        /\ a.delta < ExtTs /\ (ms[a.msg].fmt # 0 => a.delta = ms[a.msg].delta) /\ a.complete = FALSE
    <3>1. /\ a.msg # 0 /\ a.index # 0 /\ a.index + a.remain = ms[a.msg].len
          /\ a.len = ms[a.msg].len /\ a.kind = ms[a.msg].kind /\ a.pts = ms[a.msg].ts
          /\ a.delta < ExtTs /\ (ms[a.msg].fmt # 0 => a.delta = ms[a.msg].delta)
          /\ ~a.complete
      BY <1>6 DEF StreamOK
    <3>2. a.complete = FALSE
      BY <1>3, <3>1
    <3>3. a.index < a.index + a.remain
      BY <1>3, <1>6
    <3> QED  BY <3>1, <3>2, <3>3
  <2>2. n = a.msg /\ ch.from = a.index
    BY <2>1 DEF Goes
  <2>3. fmt = 3
    BY <2>1, <2>2 DEF FmtOf
  <2>4. okh /\ c1 = a
    BY <1>2, <2>3 DEF MessageHeader, HeaderKind, TakeHeader
  <2> HIDE DEF fmt, okh, c1
  <2>5. y = FALSE
    BY <1>2, <1>3, <2>1, <2>3, <2>4 DEF TimeExtend
  <2> HIDE DEF y
  <2>6. okx
    BY <1>1, <2>5
  <2>7. c2 = a
    BY <1>6, <2>4
  <2> HIDE DEF okx, t, c2
  <2>8. x \in Nat /\ x = ch.to - ch.from /\ x <= a.remain /\ a.remain = m.len - ch.from
    <3> DEFINE l == m.len
    <3> DEFINE f == ch.from
    <3> DEFINE e == a.remain
    <3> DEFINE g == ch.to
    <3>1. /\ l \in Nat /\ f \in Nat /\ e \in Nat /\ f + e = l /\ g = Least(l, f + s) /\ x = Least(e, s)
          /\ s \in Nat
      BY <1>1, <1>2, <1>3, <2>1, <2>2, <2>7
    <3> HIDE DEF l, f, e, x, g
    <3>2. e = l - f
      BY <3>1
    <3>3. CASE e < s
      <4>1. l < f + s
        BY <3>1, <3>3
      <4>2. x = e /\ g = l
        BY <3>1, <3>3, <4>1 DEF Least
      <4>3. x \in Nat /\ x = g - f /\ x <= e
        BY <3>1, <3>2, <4>2
      <4> QED  BY <3>2, <4>3 DEF l, f, e, g
    <3>4. CASE ~(e < s)
      <4>1. ~(l < f + s)
        BY <3>1, <3>4
      <4>2. x = s /\ g = f + s
        BY <3>1, <3>4, <4>1 DEF Least
      <4>3. x \in Nat /\ x = g - f /\ x <= e
        BY ONLY <3>1, <3>4, <4>2
      <4> QED  BY <3>2, <4>3 DEF l, f, e, g
    <3> QED  BY <3>3, <3>4
  <2> HIDE DEF x
  <2>9. Advanced(a, x, n, b)
    BY <1>1, <2>1, <2>7, <2>8, AdvanceIs
  <2> HIDE DEF b
  <2>10. r.ok = TRUE /\ r.cs = b /\ r.fresh = FALSE
    BY <1>5, <1>6, <2>4, <2>6, <2>8
  <2>11. b.index = ch.to /\ b.remain = m.len - ch.to /\ (b.complete <=> ch.to = m.len)
    <3>1. b.index = a.index + x /\ b.remain = a.remain - x /\ (b.complete <=> a.remain = x)
      BY <2>9 DEF Advanced
    <3>2. /\ a.index + x = ch.to /\ a.remain - x = m.len - ch.to /\ (a.remain = x <=> ch.to = m.len)
      <4> DEFINE l == m.len
      <4> DEFINE f == ch.from
      <4> DEFINE e == a.remain
      <4> DEFINE g == ch.to
      <4>1. /\ l \in Nat /\ f \in Nat /\ e \in Nat /\ g \in Nat /\ x = g - f /\ e = l - f /\ f <= g
            /\ a.index = f
        BY <1>1, <1>2, <1>3, <2>2, <2>8
      <4> HIDE DEF l, f, e, g
      <4>2. f + x = g /\ e - x = l - g /\ (e = x <=> g = l)
        BY <4>1
      <4> QED  BY <4>1, <4>2 DEF l, f, e, g
    <3> QED  BY <3>1, <3>2
  <2>12. /\ b \in StreamRec /\ b.msg = n /\ b.len = a.len /\ b.kind = a.kind /\ b.pts = a.pts
         /\ b.delta = a.delta /\ b.buf = a.buf
    BY <2>9 DEF Advanced
  <2>13. TakenIn(ms, mem, a, ch, r)
    <3>1. ch.from # 0
      BY <2>1, <2>2
    <3> QED  BY <1>6, <2>1, <2>2, <2>10, <2>11, <2>12, <3>1 DEF TakenIn
  <2> QED  BY <2>13 DEF r, fmt
<1>7. CASE a.remain = 0
  <2>1. ~(a.msg # 0 /\ a.index < ms[a.msg].len)
    <3>1. a.msg # 0 => a.index + a.remain = ms[a.msg].len
      BY DEF StreamOK
    <3> QED  BY <1>3, <1>7, <3>1
  <2>2. ch.from = 0 /\ a.msg < n /\ \A k \in (a.msg + 1)..(n - 1) : ms[k].csid # c
    BY <2>1 DEF Goes
  <2>3. fmt = m.fmt
    BY <2>2 DEF FmtOf
  <2>4. Headed(ms, n, a, ch.header)
    <3>1. ch.header = MessageHeader(m.fmt, m, IF m.fmt = 0 THEN m.ts ELSE m.delta)
      BY <1>2, <2>3
    <3> HIDE DEF fmt
    <3> QED  BY <1>1, <1>7, <2>2, <3>1, HeaderIs
  <2>5. /\ okh /\ c1 \in StreamRec /\ c1.len = m.len /\ c1.kind = m.kind
        /\ c1.delta < ExtTs /\ (m.fmt # 0 => c1.delta = m.delta) /\ c1.buf = a.buf
        /\ y = FALSE
        /\ Pts(a, m.fmt, IF m.fmt = 0 THEN c1.ts ELSE c1.delta) = m.ts
    BY <2>3, <2>4 DEF Headed
  <2> HIDE DEF fmt, okh, c1
  <2> HIDE DEF y
  <2>6. okx
    BY <1>1, <2>5
  <2>7. t = (IF m.fmt = 0 THEN c1.ts ELSE c1.delta)
    BY <2>3, <2>5
  <2> HIDE DEF okx, t
  <2>8. c2 = [alloc(c1) EXCEPT !.pts = m.ts]
    BY <1>7, <2>3, <2>5, <2>7
  <2> HIDE DEF c2
  <2>9. Allocated(c1, m.ts, c2)
    BY <1>2, <2>5, <2>8, AllocIs
  <2>10. /\ c2 \in StreamRec /\ c2.pts = m.ts /\ c2.len = m.len /\ c2.kind = m.kind
         /\ c2.delta = c1.delta /\ c2.remain = m.len /\ c2.index = 0 /\ c2.complete = FALSE
         /\ c2.buf = a.buf
    BY <2>5, <2>9 DEF Allocated
  <2>11. x \in Nat /\ x = ch.to - ch.from /\ x <= c2.remain /\ x = ch.to
    <3>1. ch.to = Least(m.len, 0 + s) /\ x = Least(m.len, s) /\ 0 + s = s
      BY <1>2, <2>2, <2>10
    <3>2. x = ch.to /\ ch.to = ch.to - ch.from
      BY <1>1, <2>2, <3>1
    <3> HIDE DEF x
    <3> QED  BY <1>1, <1>2, <2>10, <3>2
  <2> HIDE DEF x
  <2>12. Advanced(c2, x, n, b)
    BY <1>1, <2>10, <2>11, AdvanceIs
  <2> HIDE DEF b
  <2>13. r.ok = TRUE /\ r.cs = b /\ (r.fresh <=> NeedsBuffer(c1))
    <3>1. r.ok = TRUE
      BY <1>5, <2>5, <2>6, <2>11
    <3>2. r.fresh <=> NeedsBuffer(c1)
      BY <1>5, <1>7
    <3> QED  BY <1>5, <3>1, <3>2
  <2>14. b.index = ch.to /\ b.remain = m.len - ch.to /\ (b.complete <=> ch.to = m.len)
    <3>1. b.index = c2.index + x /\ b.remain = c2.remain - x /\ (b.complete <=> c2.remain = x)
      BY <2>12 DEF Advanced
    <3>2. 0 + x = ch.to
      BY <1>1, <2>11
    <3>3. b.index = ch.to /\ b.remain = m.len - x /\ (b.complete <=> m.len = x)
      BY <2>10, <3>1, <3>2
    <3> QED  BY <2>11, <3>3
  <2>15. /\ b \in StreamRec /\ b.msg = n /\ b.len = m.len /\ b.kind = m.kind /\ b.pts = m.ts
         /\ b.delta = c1.delta /\ b.buf = a.buf
    BY <2>10, <2>12 DEF Advanced
  <2>16. NeedsBuffer(c1) <=> ~Room(mem, a.buf, m.len)
    <3> DEFINE z == IF a.buf = 0 THEN 0 ELSE Len(mem[a.buf])
    <3>1. NeedsBuffer(c1) <=> z < m.len
      BY <2>5 DEF NeedsBuffer
    <3>2. Room(mem, a.buf, m.len) <=> m.len <= z
      BY DEF Room
    <3>3. z \in Nat
      <4>1. a.buf # 0 => mem[a.buf] \in Seq(UnitRec)
        OBVIOUS
      <4> QED  BY <4>1
    <3> HIDE DEF z
    <3> QED  BY <1>2, <3>1, <3>2, <3>3
  <2>17. TakenIn(ms, mem, a, ch, r)
    BY <1>7, <2>2, <2>5, <2>13, <2>14, <2>15, <2>16 DEF TakenIn
  <2> QED  BY <2>17 DEF r, fmt
<1> QED  BY <1>6, <1>7

\* The data of a chunk goes where it belongs and leaves the rest of the buffer.
LEMMA FillIs ==
  ASSUME NEW b \in Seq(UnitRec), NEW ch \in ChunkRec
  PROVE  /\ Fill(b, ch.from, ch) \in Seq(UnitRec) /\ Len(Fill(b, ch.from, ch)) = Len(b)
         /\ \A i \in 1..Len(b) :
              Fill(b, ch.from, ch)[i] =
                IF i > ch.from /\ i <= ch.to THEN Unit(ch.msg, i) ELSE b[i]
<1> DEFINE f == ch.from
<1> DEFINE g == ch.to
<1> DEFINE n == ch.msg
<1> DEFINE L == Len(b)
<1>1. f \in Nat /\ g \in Nat /\ n \in Nat /\ L \in Nat /\ DOMAIN b = 1..L
  BY DEF ChunkRec
<1>2. Fill(b, f, ch) = [i \in 1..L |-> IF i > f /\ i <= f + g - f THEN Unit(n, f + i - f) ELSE b[i]]
  BY <1>1 DEF Fill
<1> DEFINE e == [i \in 1..L |-> IF i > f /\ i <= g THEN Unit(n, i) ELSE b[i]]
<1>3. \A i \in 1..L : b[i] \in UnitRec
  OBVIOUS
<1> HIDE DEF f, g, n, L
<1>4. \A i \in 1..L : f + g - f = g /\ f + i - f = i
  BY <1>1
<1>5. Fill(b, f, ch) = e
  BY <1>2, <1>4
<1>6. \A i \in 1..L : i \in Nat /\ Unit(n, i) \in UnitRec
  BY <1>1 DEF Unit, UnitRec
<1>7. \A i \in 1..L : e[i] \in UnitRec
  BY <1>3, <1>6
<1>8. \A i \in 1..L : e[i] = IF i > f /\ i <= g THEN Unit(n, i) ELSE b[i]
  OBVIOUS
<1>9. e \in [1..L -> UnitRec]
  BY <1>7
<1> HIDE DEF e
<1>10. e \in Seq(UnitRec) /\ Len(e) = L
  BY <1>1, <1>9
<1> QED  BY <1>5, <1>8, <1>10 DEF f, g, n, L

\* The buffers mm2 are mm with chunk ch of a message of len units in buffer buf.
Stored(mm, mm2, buf, ch, len) ==
  /\ mm2 \in Seq(Seq(UnitRec)) /\ Len(mm) <= Len(mm2) /\ buf <= Len(mm2)
  /\ \A k \in 1..Len(mm) : k # buf => mm2[k] = mm[k]
  /\ buf # 0 =>
       /\ mm2[buf] \in Seq(UnitRec) /\ len <= Len(mm2[buf])
       /\ \A i \in 1..ch.to : i > ch.from => mm2[buf][i] = Unit(ch.msg, i)
       /\ buf <= Len(mm) => \A i \in 1..ch.from : mm2[buf][i] = mm[buf][i]

\* One buffer of several is replaced.
LEMMA ReplaceIs ==
  ASSUME NEW q \in Seq(Seq(UnitRec)), NEW i \in 1..Len(q), NEW e \in Seq(UnitRec)
  PROVE  /\ [q EXCEPT ![i] = e] \in Seq(Seq(UnitRec)) /\ Len([q EXCEPT ![i] = e]) = Len(q)
         /\ [q EXCEPT ![i] = e][i] = e
         /\ \A k \in 1..Len(q) : k # i => [q EXCEPT ![i] = e][k] = q[k]
  OBVIOUS

\* What Written stores, in a buffer with room or in a new one.
LEMMA WrittenIs ==
  ASSUME mem \in Seq(Seq(UnitRec)), NEW ch \in ChunkRec, NEW cs \in StreamRec,
         cs.index = ch.to, ch.from <= ch.to, ch.to <= cs.len, NEW buf \in 0..(Len(mem) + 1),
         buf # 0 /\ buf <= Len(mem) => cs.len <= Len(mem[buf])
  PROVE  Stored(mem, Written(cs, ch, buf), buf, ch, cs.len)
<1>1. ch.from \in Nat /\ ch.to \in Nat /\ cs.len \in Nat /\ Len(mem) \in Nat /\ ch.msg \in Nat
  BY Constants DEF ChunkRec, StreamRec
<1>2. cs.index - (ch.to - ch.from) = ch.from
  <2> DEFINE f == ch.from
  <2> DEFINE g == ch.to
  <2>1. f \in Nat /\ g \in Nat /\ cs.index = g
    BY <1>1
  <2> HIDE DEF f, g
  <2>2. g - (g - f) = f
    BY <2>1
  <2> QED  BY <2>1, <2>2 DEF f, g
<1>3. CASE buf = 0
  BY <1>1, <1>3 DEF Written, Stored
<1>4. CASE buf # 0
  <2> DEFINE L == cs.len
  <2> DEFINE blank == [i \in 1..L |-> Unit(0, 0)]
  <2> DEFINE grown == IF buf > Len(mem) THEN Append(mem, blank) ELSE mem
  <2>1. blank \in Seq(UnitRec) /\ Len(blank) = L
    <3>1. Unit(0, 0) \in UnitRec /\ L \in Nat
      BY <1>1 DEF Unit, UnitRec
    <3>2. blank \in [1..L -> UnitRec]
      BY <3>1
    <3> HIDE DEF L
    <3> QED  BY <3>1, <3>2
  <2> HIDE DEF blank
  <2>2. /\ grown \in Seq(Seq(UnitRec)) /\ buf \in 1..Len(grown) /\ Len(mem) <= Len(grown)
        /\ Len(grown) \in Nat
        /\ \A k \in 1..Len(mem) : grown[k] = mem[k]
        /\ L <= Len(grown[buf])
    <3>1. CASE buf > Len(mem)
      <4>1. buf = Len(mem) + 1
        BY <1>1, <3>1
      <4>2. /\ Append(mem, blank) \in Seq(Seq(UnitRec)) /\ Len(Append(mem, blank)) = Len(mem) + 1
            /\ \A i \in 1..Len(mem) : Append(mem, blank)[i] = mem[i]
            /\ Append(mem, blank)[Len(mem) + 1] = blank
        BY <2>1, AppendIs
      <4>3. grown = Append(mem, blank)
        BY <3>1
      <4> HIDE DEF grown
      <4> QED  BY <1>1, <2>1, <4>1, <4>2, <4>3
    <3>2. CASE ~(buf > Len(mem))
      <4>1. grown = mem /\ buf \in 1..Len(mem) /\ buf <= Len(mem)
        BY <1>1, <1>4, <3>2
      <4> HIDE DEF grown
      <4> QED  BY <1>1, <1>4, <4>1
    <3> QED  BY <3>1, <3>2
  <2>3. Written(cs, ch, buf) = [grown EXCEPT ![buf] = Fill(grown[buf], ch.from, ch)]
    BY <1>2, <1>4 DEF Written, blank
  <2>4. grown[buf] \in Seq(UnitRec)
    BY <2>2
  <2> HIDE DEF grown
  <2> DEFINE w == Written(cs, ch, buf)
  <2> DEFINE e == Fill(grown[buf], ch.from, ch)
  <2>5. /\ e \in Seq(UnitRec) /\ Len(e) = Len(grown[buf])
        /\ \A i \in 1..Len(grown[buf]) :
              e[i] = IF i > ch.from /\ i <= ch.to THEN Unit(ch.msg, i) ELSE grown[buf][i]
    BY <2>4, FillIs
  <2> HIDE DEF e
  <2>6. w = [grown EXCEPT ![buf] = e]
    BY <2>3 DEF e
  <2>7. /\ w \in Seq(Seq(UnitRec)) /\ Len(w) = Len(grown) /\ w[buf] = e
        /\ \A k \in 1..Len(grown) : k # buf => w[k] = grown[k]
    BY <2>2, <2>5, <2>6, ReplaceIs
  <2> HIDE DEF w
  <2>8. Len(grown[buf]) \in Nat /\ L \in Nat
    BY <1>1, <2>4
  <2>9. \A i \in 1..ch.to : i \in 1..Len(grown[buf])
    <3> DEFINE g == ch.to
    <3> DEFINE z == Len(grown[buf])
    <3>1. g \in Nat /\ z \in Nat /\ L \in Nat /\ g <= L /\ L <= z
      BY <1>1, <2>2, <2>8
    <3> HIDE DEF g, z, L
    <3>2. \A i \in 1..g : i \in 1..z
      BY <3>1
    <3> QED  BY <3>2 DEF g, z
  <2>10. \A i \in 1..ch.to : i > ch.from => e[i] = Unit(ch.msg, i)
    <3> SUFFICES ASSUME NEW i \in 1..ch.to, i > ch.from  PROVE e[i] = Unit(ch.msg, i)
      OBVIOUS
    <3>1. i \in 1..Len(grown[buf]) /\ i <= ch.to
      BY <1>1, <2>9
    <3> QED  BY <2>5, <3>1
  <2>11. \A i \in 1..ch.from : e[i] = grown[buf][i]
    <3> SUFFICES ASSUME NEW i \in 1..ch.from  PROVE e[i] = grown[buf][i]
      OBVIOUS
    <3>1. i \in 1..ch.to /\ ~(i > ch.from)
      BY <1>1
    <3> QED  BY <2>5, <2>9, <3>1
  <2>12. buf <= Len(mem) => grown[buf] = mem[buf]
    <3>1. buf <= Len(mem) => buf \in 1..Len(mem)
      BY <1>1, <1>4
    <3>2. \A k \in 1..Len(mem) : grown[k] = mem[k]
      BY <2>2
    <3> QED  BY <3>1, <3>2
  <2>13. \A k \in 1..Len(mem) : k # buf => w[k] = mem[k]
    <3>1. \A k \in 1..Len(mem) : grown[k] = mem[k]
      BY <2>2
    <3>2. \A k \in 1..Len(mem) : k \in 1..Len(grown)
      <4>1. Len(mem) \in Nat /\ Len(grown) \in Nat /\ Len(mem) <= Len(grown)
        BY <1>1, <2>2
      <4> QED  BY <4>1
    <3>3. \A k \in 1..Len(grown) : k # buf => w[k] = grown[k]
      BY <2>7
    <3> QED  BY <3>1, <3>2, <3>3
  <2>14. buf <= Len(w) /\ Len(mem) <= Len(w) /\ L <= Len(w[buf])
    BY <2>2, <2>5, <2>7
  <2>15. Stored(mem, w, buf, ch, L)
    BY <1>4, <2>5, <2>7, <2>10, <2>11, <2>12, <2>13, <2>14 DEF Stored
  <2> QED  BY <2>15 DEF w
<1> QED  BY <1>3, <1>4

\* Read takes in chunk ch of chunk stream c, which is at cs afterwards.
ReadAs(c, ch, cs) ==
  LET n == ch.msg
      m == msgs[n]
      a == chunks[c] IN
  /\ wire # <<>> /\ ch = wire[1] /\ wire' = Tail(wire)
  /\ n \in 1..Len(msgs) /\ m.csid = c /\ m.len \in Nat
  /\ ch.from \in Nat /\ ch.to \in Nat /\ ch.from <= ch.to /\ ch.to <= m.len
  /\ ch.from = ch.to => m.len = 0
  /\ chunks' = [chunks EXCEPT ![c] = cs]
  /\ cs.msg = n /\ cs.len = m.len /\ cs.kind = m.kind /\ cs.pts = m.ts /\ cs.delta < ExtTs
  /\ m.fmt # 0 => cs.delta = m.delta
  /\ cs.index = ch.to /\ cs.remain = m.len - ch.to /\ (cs.complete <=> ch.to = m.len)
  /\ cs.buf = a.buf \/ (ch.from = 0 /\ cs.buf = Len(mem) + 1)
  /\ m.len # 0 => cs.buf # 0
  /\ IF ch.from = 0
     THEN a.remain = 0 /\ a.msg < n /\ \A k \in (a.msg + 1)..(n - 1) : msgs[k].csid # c
     ELSE a.remain # 0 /\ a.msg = n /\ a.index = ch.from
  /\ Stored(mem, mem', cs.buf, ch, m.len)
  /\ IF ch.to = m.len
     THEN /\ remoteChunkSize' = IF m.kind = "size" THEN m.size ELSE remoteChunkSize
          /\ remoteWindowAckSize' = IF m.kind = "window" THEN m.window ELSE remoteWindowAckSize
          /\ ack(m.len)
          /\ delivered' = IF m.kind \in Control THEN delivered
               ELSE Append(delivered, [csid |-> c, kind |-> m.kind, len |-> m.len, ts |-> cs.ts,
                                       pts |-> m.ts, buf |-> cs.buf, data |-> Data(n, m.len), msg |-> n])
     ELSE UNCHANGED <<remoteChunkSize, remoteWindowAckSize, ackReceived, ackBuffered, delivered>>
  /\ UNCHANGED <<desync, sendVars, unacked>>

\* A sequence of units that begins with those of message n.
LEMMA DataIs ==
  ASSUME NEW b \in Seq(UnitRec), NEW n \in Nat, NEW len \in Nat, len <= Len(b),
         \A i \in 1..len : b[i] = Unit(n, i)
  PROVE  SubSeq(b, 1, len) = Data(n, len)
<1>1. SubSeq(b, 1, len) \in Seq(UnitRec) /\ Len(SubSeq(b, 1, len)) = len
  OBVIOUS
<1>2. \A i \in 1..len : SubSeq(b, 1, len)[i] = b[i]
  OBVIOUS
<1> DEFINE q == SubSeq(b, 1, len)
<1>3. q \in Seq(UnitRec) /\ Len(q) = len /\ \A i \in 1..len : q[i] = Unit(n, i)
  BY <1>1, <1>2
<1> HIDE DEF q
<1>4. q = [i \in 1..len |-> q[i]]
  BY <1>3
<1>5. q = [i \in 1..len |-> Unit(n, i)]
  BY <1>3, <1>4
<1> QED  BY <1>5 DEF q, Data

\* The data of a message is a sequence of units.
LEMMA DataType ==
  ASSUME NEW n \in Nat, NEW len \in Nat
  PROVE  /\ Data(n, len) \in Seq(UnitRec) /\ Len(Data(n, len)) = len
         /\ \A i \in 1..len : Data(n, len)[i] = Unit(n, i)
<1>1. \A i \in 1..len : Unit(n, i) \in UnitRec
  BY DEF Unit, UnitRec
<1> QED  BY <1>1 DEF Data

\* What Read does in a state of the invariant.
LEMMA ReadIs ==
  ASSUME Inv, Read
  PROVE  \E c \in Csids, ch \in ChunkRec, cs \in StreamRec : ReadAs(c, ch, cs)
<1> DEFINE ch == Head(wire)
<1> DEFINE c == ReadBasic(ch.basic)
<1> DEFINE r == readChunk(chunks[c], ch.basic.fmt, ch, remoteChunkSize)
<1> DEFINE buf == Buffer(r.cs, r.fresh)
<1> DEFINE cs == [r.cs EXCEPT !.buf = buf]
<1> DEFINE filled == Written(cs, ch, buf)
<1> DEFINE data == IF buf = 0 THEN <<>> ELSE SubSeq(filled[buf], 1, cs.len)
<1>1. /\ wire # <<>> /\ UNCHANGED <<sendVars, unacked>>
      /\ IF r.ok
         THEN /\ wire' = Tail(wire)
              /\ chunks' = [chunks EXCEPT ![c] = cs]
              /\ mem' = filled
              /\ IF cs.complete
                 THEN /\ handleControlMsg(cs, data)
                      /\ ack(cs.len)
                      /\ delivered' = IF cs.kind \in Control THEN delivered
                           ELSE Append(delivered, [csid |-> c, kind |-> cs.kind, len |-> cs.len,
                                                   ts |-> cs.ts, pts |-> cs.pts, buf |-> buf,
                                                   data |-> data, msg |-> cs.msg])
                 ELSE UNCHANGED <<remoteChunkSize, remoteWindowAckSize, ackReceived, ackBuffered, delivered>>
              /\ UNCHANGED desync
         ELSE desync' = TRUE
  <2> DEFINE B(h, q) == Buffer(q.cs, q.fresh)
  <2> DEFINE S(h, q) == [q.cs EXCEPT !.buf = B(h, q)]
  <2> DEFINE D(h, q, w) == IF B(h, q) = 0 THEN <<>> ELSE SubSeq(w[B(h, q)], 1, S(h, q).len)
  <2> DEFINE P(h, q, w) ==
        IF q.ok
        THEN /\ wire' = Tail(wire)
             /\ chunks' = [chunks EXCEPT ![ReadBasic(h.basic)] = S(h, q)]
             /\ mem' = w
             /\ IF S(h, q).complete
                THEN /\ handleControlMsg(S(h, q), D(h, q, w))
                     /\ ack(S(h, q).len)
                     /\ delivered' = IF S(h, q).kind \in Control THEN delivered
                          ELSE Append(delivered,
                                 [csid |-> ReadBasic(h.basic), kind |-> S(h, q).kind,
                                  len |-> S(h, q).len, ts |-> S(h, q).ts, pts |-> S(h, q).pts,
                                  buf |-> B(h, q), data |-> D(h, q, w), msg |-> S(h, q).msg])
                ELSE UNCHANGED <<remoteChunkSize, remoteWindowAckSize, ackReceived, ackBuffered, delivered>>
             /\ UNCHANGED desync
        ELSE /\ desync' = TRUE
             /\ UNCHANGED <<wire, chunks, mem, remoteChunkSize, remoteWindowAckSize, delivered,
                            ackReceived, ackBuffered>>
  <2>1. \E h \in {Head(wire)} :
          \E q \in {readChunk(chunks[ReadBasic(h.basic)], h.basic.fmt, h, remoteChunkSize)} :
            \E w \in {Written(S(h, q), h, B(h, q))} : P(h, q, w)
    BY DEF Read
  <2> HIDE DEF P, S, B
  <2>2. P(ch, r, Written(S(ch, r), ch, B(ch, r)))
    BY <2>1
  <2>3. P(ch, r, filled)
    BY <2>2 DEF S, B
  <2>4. wire # <<>> /\ UNCHANGED <<sendVars, unacked>>
    BY DEF Read
  <2> HIDE DEF r, ch, filled
  <2> QED  BY <2>3, <2>4 DEF P, S, B
<1>0. wire # <<>>
  BY <1>1
<1>2. /\ TypeInv /\ MsgsOK /\ WireOK /\ Chain /\ Sizes /\ ReaderOK
  BY DEF Inv
<1>3. /\ msgs \in Seq(MessageRec) /\ wire \in Seq(ChunkRec) /\ chunks \in [Csids -> StreamRec]
      /\ mem \in Seq(Seq(UnitRec)) /\ remoteChunkSize \in ChunkSizes
  BY <1>2 DEF TypeInv
<1> DEFINE n == ch.msg
<1> DEFINE m == msgs[n]
<1>4. ch = wire[1] /\ ch \in ChunkRec /\ 1 \in 1..Len(wire) /\ Len(wire) \in Nat
  BY <1>3, <1>0, TailIs
<1> HIDE DEF ch
<1>5. ChunkOK(msgs, ch)
  BY <1>2, <1>4 DEF WireOK
<1>6. /\ n \in 1..Len(msgs) /\ n \in Nat /\ m \in MessageRec /\ MsgOK(msgs, n) /\ m.len \in Nat
      /\ ch.from \in Nat /\ ch.to \in Nat
      /\ ch.from <= ch.to /\ ch.to <= m.len /\ (ch.from = ch.to => m.len = 0)
      /\ ch.basic = BasicHeader(FmtOf(msgs, ch), m.csid) /\ m.csid \in Csids /\ m.fmt \in 0..3
  <2>1. /\ n \in 1..Len(msgs) /\ ch.from <= ch.to /\ ch.to <= m.len /\ (ch.from = ch.to => m.len = 0)
        /\ ch.basic = BasicHeader(FmtOf(msgs, ch), m.csid)
    BY <1>5 DEF ChunkOK
  <2>2. m \in MessageRec /\ MsgOK(msgs, n) /\ n \in Nat
    BY <1>2, <1>3, <2>1 DEF MsgsOK
  <2> HIDE DEF m
  <2>3. m.len \in 0..MaxLen /\ m.csid \in Csids /\ m.fmt \in 0..3
    BY <2>2 DEF MessageRec
  <2>4. ch.from \in Nat /\ ch.to \in Nat /\ MaxLen \in Nat
    BY <1>4, Constants DEF ChunkRec
  <2>5. m.len \in Nat
    BY <2>3, <2>4
  <2> QED  BY <2>1, <2>2, <2>3, <2>4, <2>5
<1>7. c = m.csid /\ ch.basic.fmt = FmtOf(msgs, ch)
  <2>1. FmtOf(msgs, ch) \in 0..3
    BY <1>6 DEF FmtOf
  <2> HIDE DEF m
  <2> QED  BY <1>6, <2>1, BasicRead
<1> HIDE DEF c
<1> DEFINE a == chunks[c]
<1>8. c \in Csids /\ a \in StreamRec /\ StreamOK(msgs, a, c) /\ BufferOK(a, mem) /\ a.buf \in Nat
  <2>1. c \in Csids
    BY <1>6, <1>7
  <2>2. a \in StreamRec /\ StreamOK(msgs, a, c) /\ BufferOK(a, mem)
    BY <1>2, <1>3, <2>1 DEF ReaderOK
  <2> QED  BY <2>1, <2>2 DEF StreamRec
<1>9. OfStream(msgs, n, c)
  BY <1>7 DEF OfStream
<1>10. Goes(msgs, c, a.msg, a.index, ch)
  <2>1. ChainOn(wire, msgs, a, c)
    BY <1>2, <1>8 DEF Chain
  <2>2. On(wire, msgs, c, 1) /\ Precedes(wire, msgs, c, 0, 1) /\ 0 \in 0..(1 - 1)
    BY <1>4, <1>7 DEF On, Precedes
  <2>3. AtMsg(wire, a, 0) = a.msg /\ AtPos(wire, a, 0) = a.index
    BY DEF AtMsg, AtPos
  <2> HIDE DEF a
  <2> QED  BY <1>4, <2>1, <2>2, <2>3 DEF ChainOn
<1>11. Cut(msgs, ch, remoteChunkSize)
  <2>1. Precedes(wire, msgs, 2, 0, 1) /\ 0 \in 0..(1 - 1)
    BY DEF Precedes
  <2>2. SizeAt(wire, msgs, remoteChunkSize, 0) = remoteChunkSize
    BY DEF SizeAt
  <2> QED  BY <1>2, <1>4, <2>1, <2>2 DEF Sizes, SizesOn
<1>12. TakenIn(msgs, mem, a, ch, r)
  <2>1. a.buf \in 0..Len(mem)
    BY <1>8 DEF BufferOK
  <2>2. r = readChunk(a, FmtOf(msgs, ch), ch, remoteChunkSize)
    BY <1>7
  <2> HIDE DEF r, a
  <2> QED  BY <1>3, <1>4, <1>5, <1>6, <1>8, <1>9, <1>10, <1>11, <2>1, <2>2, ReadChunkIs
<1> HIDE DEF r
<1>13. /\ r.ok = TRUE /\ r.cs \in StreamRec
       /\ r.cs.msg = n /\ r.cs.len = m.len /\ r.cs.kind = m.kind
       /\ r.cs.pts = m.ts /\ r.cs.delta < ExtTs
       /\ m.fmt # 0 => r.cs.delta = m.delta
       /\ r.cs.index = ch.to /\ r.cs.remain = m.len - ch.to
       /\ r.cs.complete <=> ch.to = m.len
       /\ r.cs.buf = a.buf
       /\ r.fresh <=> (ch.from = 0 /\ ~Room(mem, a.buf, m.len))
       /\ IF ch.from = 0 THEN a.remain = 0 /\ a.msg < n
          ELSE a.remain # 0 /\ a.msg = n /\ a.index = ch.from /\ a.len = m.len
  BY <1>12 DEF TakenIn
<1>14. Len(mem) \in Nat /\ a.buf \in 0..Len(mem) /\ Len(mem) + 1 \in Nat
  BY <1>3, <1>8 DEF BufferOK
<1>15. /\ buf \in Nat /\ buf \in 0..(Len(mem) + 1)
       /\ (buf = a.buf /\ ~r.fresh) \/ (r.fresh /\ ch.from = 0 /\ buf = Len(mem) + 1)
  BY <1>13, <1>14 DEF Buffer
<1> HIDE DEF buf
<1>16. /\ cs \in StreamRec /\ cs.msg = n /\ cs.len = m.len /\ cs.kind = m.kind
       /\ cs.pts = m.ts /\ cs.delta < ExtTs
       /\ m.fmt # 0 => cs.delta = m.delta
       /\ cs.index = ch.to /\ cs.remain = m.len - ch.to
       /\ cs.complete <=> ch.to = m.len
       /\ cs.buf = buf
  BY <1>13, <1>15 DEF StreamRec
<1> HIDE DEF cs
<1>17. /\ m.len # 0 => buf # 0
       /\ buf # 0 /\ buf <= Len(mem) => m.len <= Len(mem[buf])
  <2>1. CASE r.fresh
    BY <1>14, <1>15, <2>1
  <2>2. CASE ~r.fresh /\ ch.from = 0
    <3>1. buf = a.buf /\ Room(mem, buf, m.len)
      BY <1>13, <1>15, <2>2
    <3>2. CASE buf = 0
      <4>1. m.len <= 0
        BY <3>1, <3>2 DEF Room
      <4> QED  BY <1>6, <3>2, <4>1
    <3>3. CASE buf # 0
      BY <3>1, <3>3 DEF Room
    <3> QED  BY <3>2, <3>3
  <2>3. CASE ~r.fresh /\ ch.from # 0
    <3>1. buf = a.buf /\ a.msg # 0 /\ a.len = m.len
      BY <1>6, <1>13, <1>15, <2>3
    <3> QED  BY <1>6, <1>8, <3>1 DEF BufferOK
  <2> QED  BY <2>1, <2>2, <2>3
<1>18. Stored(mem, filled, buf, ch, m.len)
  BY <1>3, <1>4, <1>6, <1>15, <1>16, <1>17, WrittenIs
<1> HIDE DEF filled
<1>19. ch.from = 0 => \A k \in (a.msg + 1)..(n - 1) : msgs[k].csid # c
  <2> SUFFICES ASSUME ch.from = 0  PROVE \A k \in (a.msg + 1)..(n - 1) : msgs[k].csid # c
    OBVIOUS
  <2>1. a.remain = 0
    BY <1>13
  <2>2. ~(a.msg # 0 /\ a.index < msgs[a.msg].len)
    <3>1. a.msg # 0 => a.index + a.remain = msgs[a.msg].len
      BY <1>8 DEF StreamOK
    <3>2. a.index \in Nat
      BY <1>8 DEF StreamRec
    <3> QED  BY <2>1, <3>1, <3>2
  <2> QED  BY <1>10, <2>2 DEF Goes
<1>20. ASSUME ch.to = m.len  PROVE data = Data(n, m.len)
  <2>1. CASE buf = 0
    <3>1. m.len = 0 /\ data = <<>>
      BY <1>17, <2>1
    <3> QED  BY <3>1 DEF Data
  <2>2. CASE buf # 0
    <3> DEFINE b == filled[buf]
    <3>1. b \in Seq(UnitRec) /\ m.len <= Len(b)
      BY <1>18, <2>2 DEF Stored
    <3>2. ASSUME NEW i \in 1..m.len  PROVE b[i] = Unit(n, i)
      <4>1. CASE i > ch.from
        BY <1>18, <1>20, <2>2, <4>1 DEF Stored
      <4>2. CASE ~(i > ch.from)
        <5>1. i \in 1..ch.from /\ ch.from # 0
          BY <1>6, <4>2
        <5>2. a.msg = n /\ a.index = ch.from /\ buf = a.buf /\ buf <= Len(mem)
          BY <1>13, <1>14, <1>15, <5>1
        <5>3. mem[a.buf][i] = Unit(a.msg, i)
          BY <1>8, <5>1, <5>2 DEF BufferOK
        <5>4. b[i] = mem[buf][i]
          BY <1>18, <2>2, <5>1, <5>2 DEF Stored
        <5> QED  BY <5>2, <5>3, <5>4
      <4> QED  BY <4>1, <4>2
    <3>3. SubSeq(b, 1, m.len) = Data(n, m.len)
      BY <1>6, <3>1, <3>2, DataIs
    <3> QED  BY <1>16, <2>2, <3>3
  <2> QED  BY <2>1, <2>2
<1>21. ASSUME ch.to = m.len, handleControlMsg(cs, data)
       PROVE  /\ remoteChunkSize' = IF m.kind = "size" THEN m.size ELSE remoteChunkSize
              /\ remoteWindowAckSize' = IF m.kind = "window" THEN m.window ELSE remoteWindowAckSize
  <2>1. ASSUME m.kind \in Control  PROVE MsgOf(data) = m
    <3>1. m.len = 1
      BY <1>6, <2>1 DEF MsgOK
    <3>2. data[1] = Unit(n, 1)
      <4>1. Data(n, m.len)[1] = Unit(n, 1)
        BY <3>1 DEF Data
      <4> QED  BY <1>20, <1>21, <4>1
    <3> HIDE DEF data
    <3>3. data[1].msg = n
      BY <3>2 DEF Unit
    <3> QED  BY <3>3 DEF MsgOf
  <2>2. /\ remoteChunkSize' = IF m.kind = "size" THEN MsgOf(data).size ELSE remoteChunkSize
        /\ remoteWindowAckSize' = IF m.kind = "window" THEN MsgOf(data).window ELSE remoteWindowAckSize
    BY <1>16, <1>21 DEF handleControlMsg
  <2> HIDE DEF m, data
  <2> QED  BY <2>1, <2>2 DEF Control
<1> HIDE DEF data
<1>22. /\ wire' = Tail(wire) /\ chunks' = [chunks EXCEPT ![c] = cs] /\ mem' = filled
       /\ UNCHANGED desync
       /\ IF ch.to = m.len
          THEN /\ handleControlMsg(cs, data)
               /\ ack(m.len)
               /\ delivered' = IF m.kind \in Control THEN delivered
                    ELSE Append(delivered, [csid |-> c, kind |-> m.kind, len |-> m.len,
                                            ts |-> cs.ts, pts |-> m.ts, buf |-> buf,
                                            data |-> data, msg |-> n])
          ELSE UNCHANGED <<remoteChunkSize, remoteWindowAckSize, ackReceived, ackBuffered, delivered>>
  BY <1>1, <1>13, <1>16
<1>23. ReadAs(c, ch, cs)
  <2>1. IF ch.to = m.len
        THEN /\ remoteChunkSize' = IF m.kind = "size" THEN m.size ELSE remoteChunkSize
             /\ remoteWindowAckSize' = IF m.kind = "window" THEN m.window ELSE remoteWindowAckSize
             /\ ack(m.len)
             /\ delivered' = IF m.kind \in Control THEN delivered
                  ELSE Append(delivered, [csid |-> c, kind |-> m.kind, len |-> m.len, ts |-> cs.ts,
                                          pts |-> m.ts, buf |-> cs.buf, data |-> Data(n, m.len),
                                          msg |-> n])
        ELSE UNCHANGED <<remoteChunkSize, remoteWindowAckSize, ackReceived, ackBuffered, delivered>>
    BY <1>16, <1>20, <1>21, <1>22
  <2>2. cs.buf = a.buf \/ (ch.from = 0 /\ cs.buf = Len(mem) + 1)
    BY <1>15, <1>16
  <2>3. Stored(mem, mem', cs.buf, ch, m.len) /\ (m.len # 0 => cs.buf # 0)
    BY <1>16, <1>17, <1>18, <1>22
  <2>4. IF ch.from = 0
        THEN a.remain = 0 /\ a.msg < n /\ \A k \in (a.msg + 1)..(n - 1) : msgs[k].csid # c
        ELSE a.remain # 0 /\ a.msg = n /\ a.index = ch.from
    BY <1>13, <1>19
  <2> QED  BY <1>1, <1>4, <1>6, <1>7, <1>16, <1>22, <2>1, <2>2, <2>3, <2>4 DEF ReadAs
<1> QED  BY <1>4, <1>8, <1>16, <1>23

\* What the reader has of a message on one chunk stream changes the sum by as much.
LEMMA OpenPart ==
  ASSUME NEW cs \in [Csids -> StreamRec], NEW l \in [Csids -> Nat], NEW c \in Csids,
         NEW ds \in [Csids -> StreamRec], \A d \in Csids : d # c => ds[d] = cs[d]
  PROVE  Open(ds, l) + Part(cs[c]) = Open(cs, l) + Part(ds[c])
<1>1. /\ 2 \in Csids /\ 4 \in Csids /\ 6 \in Csids /\ CmdCsid \in Csids
      /\ CmdCsid # 2 /\ CmdCsid # 4 /\ CmdCsid # 6
  BY Constants DEF Csids
<1>2. \A d \in Csids : Part(cs[d]) \in Nat /\ Part(ds[d]) \in Nat
  BY DEF Part, StreamRec
<1>3. c = 2 \/ c = 4 \/ c = 6 \/ c = CmdCsid
  BY DEF Csids
<1>4. /\ Part(cs[2]) \in Nat /\ Part(cs[4]) \in Nat /\ Part(cs[6]) \in Nat /\ Part(cs[CmdCsid]) \in Nat
      /\ Part(ds[2]) \in Nat /\ Part(ds[4]) \in Nat /\ Part(ds[6]) \in Nat /\ Part(ds[CmdCsid]) \in Nat
      /\ l[2] \in Nat /\ l[4] \in Nat /\ l[6] \in Nat /\ l[CmdCsid] \in Nat
  BY <1>1, <1>2
<1>5. /\ (c = 2 => ds[4] = cs[4] /\ ds[6] = cs[6] /\ ds[CmdCsid] = cs[CmdCsid])
      /\ (c = 4 => ds[2] = cs[2] /\ ds[6] = cs[6] /\ ds[CmdCsid] = cs[CmdCsid])
      /\ (c = 6 => ds[2] = cs[2] /\ ds[4] = cs[4] /\ ds[CmdCsid] = cs[CmdCsid])
      /\ (c = CmdCsid => ds[2] = cs[2] /\ ds[4] = cs[4] /\ ds[6] = cs[6])
  BY <1>1
<1>6. CASE c = 2
  BY <1>4, <1>5, <1>6 DEF Open
<1>7. CASE c = 4
  BY <1>4, <1>5, <1>7 DEF Open
<1>8. CASE c = 6
  BY <1>4, <1>5, <1>8 DEF Open
<1>9. CASE c = CmdCsid
  BY <1>4, <1>5, <1>9 DEF Open
<1> QED  BY <1>3, <1>6, <1>7, <1>8, <1>9

\* ack counts the units or acknowledges all that are counted, by the window now set.
LEMMA AckIs ==
  ASSUME ackReceived \in Nat, ackBuffered \in Nat, NEW size \in Nat, ack(size),
         remoteWindowAckSize' \in Nat \ {0}
  PROVE  /\ ackReceived' \in Nat /\ ackBuffered' \in Nat
         /\ ackReceived' + ackBuffered' = ackReceived + ackBuffered + size
         /\ ackReceived' < remoteWindowAckSize'
<1> DEFINE x == ackReceived + size
<1> DEFINE W == remoteWindowAckSize'
<1>2. CASE x >= W
  <2>1. ackReceived' = 0 /\ ackBuffered' = ackBuffered + x
    BY <1>2 DEF ack
  <2>2. ackBuffered + x \in Nat /\ 0 + (ackBuffered + x) = ackReceived + ackBuffered + size
    OBVIOUS
  <2>3. 0 < W
    OBVIOUS
  <2> QED  BY <2>1, <2>2, <2>3
<1>3. CASE ~(x >= W)
  <2>1. ackReceived' = x /\ ackBuffered' = ackBuffered
    BY <1>3 DEF ack
  <2>2. x \in Nat /\ x + ackBuffered = ackReceived + ackBuffered + size
    OBVIOUS
  <2>3. x < W
    BY <1>3, <2>2
  <2> QED  BY <2>1, <2>2, <2>3
<1> QED  BY <1>2, <1>3

\* Reading a chunk keeps the types.
LEMMA ReadTypes ==
  ASSUME Inv, NEW c \in Csids, NEW ch \in ChunkRec, NEW cs \in StreamRec, ReadAs(c, ch, cs)
  PROVE  TypeInv'
<1> DEFINE n == ch.msg
<1> DEFINE m == msgs[n]
<1>1. TypeInv
  BY DEF Inv
<1>2. /\ wire # <<>> /\ wire' = Tail(wire) /\ n \in 1..Len(msgs) /\ m.csid = c /\ m.len \in Nat
      /\ chunks' = [chunks EXCEPT ![c] = cs] /\ Stored(mem, mem', cs.buf, ch, m.len)
      /\ IF ch.to = m.len
         THEN /\ remoteChunkSize' = IF m.kind = "size" THEN m.size ELSE remoteChunkSize
              /\ remoteWindowAckSize' = IF m.kind = "window" THEN m.window ELSE remoteWindowAckSize
              /\ ack(m.len)
              /\ delivered' = IF m.kind \in Control THEN delivered
                   ELSE Append(delivered, [csid |-> c, kind |-> m.kind, len |-> m.len, ts |-> cs.ts,
                                           pts |-> m.ts, buf |-> cs.buf, data |-> Data(n, m.len),
                                           msg |-> n])
         ELSE UNCHANGED <<remoteChunkSize, remoteWindowAckSize, ackReceived, ackBuffered, delivered>>
      /\ UNCHANGED <<desync, sendVars, unacked>>
  BY DEF ReadAs
<1>3. m \in MessageRec /\ n \in Nat
  BY <1>1, <1>2 DEF TypeInv
<1> HIDE DEF m
<1>4. /\ m.kind \in Kinds /\ m.size \in ChunkSizes /\ m.window \in Windows /\ m.len \in 0..MaxLen
      /\ m.ts \in Nat
  BY <1>3 DEF MessageRec
<1> HIDE DEF n
<1>5. wire' \in Seq(ChunkRec)
  BY <1>1, <1>2, TailIs DEF TypeInv
<1>6. chunks' \in [Csids -> StreamRec]
  BY <1>1, <1>2 DEF TypeInv
<1>7. mem' \in Seq(Seq(UnitRec))
  BY <1>2 DEF Stored
<1>8. remoteChunkSize' \in ChunkSizes /\ remoteWindowAckSize' \in Windows
  BY <1>1, <1>2, <1>4 DEF TypeInv
<1>9. ackReceived' \in Nat /\ ackBuffered' \in Nat
  <2>1. CASE ch.to = m.len
    <3>1. ack(m.len)
      BY <1>2, <2>1
    <3>2. m.len \in Nat /\ ackReceived \in Nat /\ ackBuffered \in Nat
      BY <1>1, <1>2 DEF TypeInv
    <3>3. remoteWindowAckSize' \in Nat \ {0}
      BY <1>8, Constants
    <3> QED  BY <3>1, <3>2, <3>3, AckIs
  <2>2. CASE ch.to # m.len
    BY <1>1, <1>2, <2>2 DEF TypeInv
  <2> QED  BY <2>1, <2>2
<1>10. delivered' \in Seq(DeliveredRec)
  <2>1. CASE ch.to = m.len /\ m.kind \notin Control
    <3> DEFINE e == [csid |-> c, kind |-> m.kind, len |-> m.len, ts |-> cs.ts,
                     pts |-> m.ts, buf |-> cs.buf, data |-> Data(n, m.len), msg |-> n]
    <3>1. cs.ts \in Nat /\ cs.buf \in Nat
      BY DEF StreamRec
    <3>2. Data(n, m.len) \in Seq(UnitRec)
      BY <1>2, <1>3, DataType
    <3>3. e \in DeliveredRec
      BY <1>3, <1>4, <3>1, <3>2 DEF DeliveredRec
    <3>4. delivered' = Append(delivered, e)
      BY <1>2, <2>1
    <3> HIDE DEF e
    <3>5. delivered \in Seq(DeliveredRec)
      BY <1>1 DEF TypeInv
    <3> QED  BY <3>3, <3>4, <3>5, AppendIs
  <2>2. CASE ~(ch.to = m.len /\ m.kind \notin Control)
    <3>1. delivered' = delivered
      BY <1>2, <2>2
    <3> QED  BY <1>1, <3>1 DEF TypeInv
  <2> QED  BY <2>1, <2>2
<1>11. UNCHANGED <<sender, msgs, chunkSize, out, left, prev, desync, unacked>>
  BY <1>2 DEF sendVars
<1> QED  BY <1>1, <1>5, <1>6, <1>7, <1>8, <1>9, <1>10, <1>11 DEF TypeInv

\* A window that was set is one.
LEMMA WindowType ==
  ASSUME Inv, NEW c \in Csids, NEW ch \in ChunkRec, NEW cs \in StreamRec, ReadAs(c, ch, cs)
  PROVE  remoteWindowAckSize' \in Nat \ {0}
<1>1. remoteWindowAckSize' \in Windows
  BY ReadTypes DEF TypeInv
<1> QED  BY <1>1, Constants

\* Reading a chunk keeps the chain: its first link is the reader's place now.
LEMMA ReadChain ==
  ASSUME Inv, NEW c \in Csids, NEW ch \in ChunkRec, NEW cs \in StreamRec, ReadAs(c, ch, cs)
  PROVE  Chain' /\ Sizes' /\ WireOK'
<1> DEFINE n == ch.msg
<1> DEFINE m == msgs[n]
<1>1. TypeInv /\ WireOK /\ Chain /\ Sizes /\ MsgsOK
  BY DEF Inv
<1>2. /\ wire # <<>> /\ ch = wire[1] /\ wire' = Tail(wire) /\ n \in 1..Len(msgs) /\ m.csid = c
      /\ m.len \in Nat
      /\ ch.from \in Nat /\ ch.to \in Nat /\ ch.from <= ch.to /\ ch.to <= m.len
      /\ ch.from = ch.to => m.len = 0
      /\ chunks' = [chunks EXCEPT ![c] = cs] /\ cs.msg = n /\ cs.index = ch.to
      /\ ch.to = m.len => remoteChunkSize' = IF m.kind = "size" THEN m.size ELSE remoteChunkSize
      /\ ch.to # m.len => remoteChunkSize' = remoteChunkSize
      /\ UNCHANGED sendVars
  BY DEF ReadAs
<1>3. wire \in Seq(ChunkRec) /\ chunks \in [Csids -> StreamRec] /\ msgs \in Seq(MessageRec)
  BY <1>1 DEF TypeInv
<1>4. UNCHANGED <<msgs, out, left, chunkSize>>
  BY <1>2 DEF sendVars
<1>5. /\ Len(wire) \in Nat /\ Len(wire) >= 1 /\ Len(Tail(wire)) = Len(wire) - 1
      /\ \A i \in 1..(Len(wire) - 1) : Tail(wire)[i] = wire[i + 1]
  BY <1>2, <1>3, TailIs
<1>6. WireOK'
  <2> SUFFICES ASSUME NEW i \in 1..Len(Tail(wire))  PROVE ChunkOK(msgs, Tail(wire)[i])
    BY <1>2, <1>4 DEF WireOK
  <2>1. Tail(wire)[i] = wire[i + 1] /\ i + 1 \in 1..Len(wire)
    BY <1>5
  <2> QED  BY <1>1, <2>1 DEF WireOK
<1>7. Chain'
  <2> SUFFICES ASSUME NEW d \in Csids
               PROVE  /\ ChainOn(Tail(wire), msgs, chunks'[d], d)
                      /\ EndOn(Tail(wire), msgs, chunks'[d], out[d], left[d], d)
    BY <1>2, <1>4 DEF Chain
  <2>1. ChainOn(wire, msgs, chunks[d], d) /\ EndOn(wire, msgs, chunks[d], out[d], left[d], d)
    BY <1>1 DEF Chain
  <2> DEFINE e == chunks[d]
  <2> DEFINE e2 == chunks'[d]
  <2>2. IF On(wire, msgs, d, 1) THEN e2.msg = wire[1].msg /\ e2.index = wire[1].to
        ELSE e2.msg = e.msg /\ e2.index = e.index
    <3>1. CASE d = c
      <4>1. On(wire, msgs, d, 1) /\ e2 = cs
        BY <1>2, <1>3, <3>1 DEF On
      <4> QED  BY <1>2, <4>1
    <3>2. CASE d # c
      <4>1. ~On(wire, msgs, d, 1) /\ e2 = e
        BY <1>2, <1>3, <3>2 DEF On
      <4> QED  BY <4>1
    <3> QED  BY <3>1, <3>2
  <2> HIDE DEF e, e2
  <2>3. ChainOn(Tail(wire), msgs, e2, d) /\ EndOn(Tail(wire), msgs, e2, out[d], left[d], d)
    <3>1. ChainOn(wire, msgs, e, d) /\ EndOn(wire, msgs, e, out[d], left[d], d)
      BY <2>1 DEF e
    <3> QED  BY <1>2, <1>3, <2>2, <3>1, ChainTail
  <2> QED  BY <2>3 DEF e2
<1>8. Sizes'
  <2>1. SizesOn(wire, msgs, remoteChunkSize, chunkSize)
    BY <1>1 DEF Sizes
  <2>2. m \in MessageRec /\ MsgOK(msgs, n)
    BY <1>1, <1>2, <1>3 DEF MsgsOK
  <2>3. m.kind \in Kinds /\ c = CsidOf(m.kind) /\ (m.kind \in Control => m.len = 1)
    BY <1>2, <2>2 DEF MessageRec, MsgOK
  <2>4. c = 2 <=> m.kind \in Control
    BY <2>3, CsidIs
  <2>5. m.kind \in Control => ch.to = m.len
    <3> SUFFICES ASSUME m.kind \in Control  PROVE ch.to = m.len
      OBVIOUS
    <3> DEFINE l == m.len
    <3> DEFINE f == ch.from
    <3> DEFINE g == ch.to
    <3>1. l = 1 /\ f \in Nat /\ g \in Nat /\ f <= g /\ g <= l /\ f # g
      BY <1>2, <2>3
    <3> HIDE DEF l, f, g
    <3>2. g = l
      BY <3>1
    <3> QED  BY <3>2 DEF l, g
  <2>6. IF On(wire, msgs, 2, 1) THEN remoteChunkSize' = msgs[wire[1].msg].size
        ELSE remoteChunkSize' = remoteChunkSize
    <3>1. CASE m.kind = "size"
      BY <1>2, <2>4, <2>5, <3>1 DEF On, Control
    <3>2. CASE m.kind \in Control /\ m.kind # "size"
      <4>1. Precedes(wire, msgs, 2, 0, 1) /\ 0 \in 0..(1 - 1) /\ 1 \in 1..Len(wire)
        BY <1>5 DEF Precedes
      <4>2. SizeAt(wire, msgs, remoteChunkSize, 0) = remoteChunkSize
        BY DEF SizeAt
      <4>3. Keeps(msgs, wire[1], remoteChunkSize)
        BY <2>1, <4>1, <4>2 DEF SizesOn
      <4>4. m.size = remoteChunkSize
        BY <1>2, <2>4, <3>2, <4>3 DEF Keeps
      <4> QED  BY <1>2, <2>4, <2>5, <3>2, <4>4 DEF On
    <3>3. CASE m.kind \notin Control
      BY <1>2, <2>4, <3>3 DEF On, Control
    <3> QED  BY <3>1, <3>2, <3>3
  <2>7. SizesOn(Tail(wire), msgs, remoteChunkSize', chunkSize)
    BY ONLY <1>2, <1>3, <2>1, <2>6, SizesTail
  <2> QED  BY <1>2, <1>4, <2>7 DEF Sizes
<1> QED  BY <1>6, <1>7, <1>8

\* Reading a chunk keeps what the reader knows and its buffers apart.
LEMMA ReadReader ==
  ASSUME Inv, NEW c \in Csids, NEW ch \in ChunkRec, NEW cs \in StreamRec, ReadAs(c, ch, cs)
  PROVE  ReaderOK'
<1> DEFINE n == ch.msg
<1> DEFINE m == msgs[n]
<1> DEFINE a == chunks[c]
<1>1. TypeInv /\ ReaderOK
  BY DEF Inv
<1>2. /\ n \in 1..Len(msgs) /\ m.csid = c /\ m.len \in Nat
      /\ ch.from \in Nat /\ ch.to \in Nat /\ ch.from <= ch.to /\ ch.to <= m.len
      /\ ch.from = ch.to => m.len = 0
      /\ chunks' = [chunks EXCEPT ![c] = cs]
      /\ cs.msg = n /\ cs.len = m.len /\ cs.kind = m.kind /\ cs.pts = m.ts /\ cs.delta < ExtTs
      /\ m.fmt # 0 => cs.delta = m.delta
      /\ cs.index = ch.to /\ cs.remain = m.len - ch.to /\ (cs.complete <=> ch.to = m.len)
      /\ cs.buf = a.buf \/ (ch.from = 0 /\ cs.buf = Len(mem) + 1)
      /\ m.len # 0 => cs.buf # 0
      /\ ch.from # 0 => a.msg = n /\ a.index = ch.from
      /\ Stored(mem, mem', cs.buf, ch, m.len)
      /\ UNCHANGED sendVars
  BY DEF ReadAs
<1>3. msgs' = msgs /\ chunks \in [Csids -> StreamRec] /\ mem \in Seq(Seq(UnitRec)) /\ Len(mem) \in Nat
  BY <1>1, <1>2 DEF TypeInv, sendVars
<1>4. chunks'[c] = cs /\ \A d \in Csids : d # c => chunks'[d] = chunks[d]
  BY <1>2, <1>3
<1>5. /\ mem' \in Seq(Seq(UnitRec)) /\ Len(mem') \in Nat /\ Len(mem) <= Len(mem') /\ cs.buf <= Len(mem')
      /\ cs.buf \in Nat
      /\ \A k \in 1..Len(mem) : k # cs.buf => mem'[k] = mem[k]
  <2>1. cs.buf \in Nat
    BY DEF StreamRec
  <2>2. Stored(mem, mem', cs.buf, ch, m.len)
    BY <1>2
  <2> QED  BY ONLY <2>1, <2>2 DEF Stored
<1>6. \A d \in Csids : StreamOK(msgs, chunks[d], d) /\ BufferOK(chunks[d], mem)
  BY <1>1 DEF ReaderOK
<1>7. StreamOK(msgs, cs, c)
  <2>1. cs.msg \in 0..Len(msgs) /\ cs.msg # 0 /\ msgs[cs.msg] = m
    BY <1>2
  <2> DEFINE l == m.len
  <2> DEFINE f == ch.from
  <2> DEFINE g == ch.to
  <2>2. l \in Nat /\ f \in Nat /\ g \in Nat /\ f <= g /\ g <= l /\ (f = g => l = 0)
    BY <1>2
  <2> HIDE DEF l, f, g
  <2>3. g + (l - g) = l /\ (l - g # 0 => g # 0) /\ (g = l <=> l - g = 0)
    BY <2>2
  <2>4. cs.index + cs.remain = m.len /\ (cs.remain # 0 => cs.index # 0) /\ (cs.complete <=> cs.remain = 0)
    BY <1>2, <2>3 DEF l, g
  <2> HIDE DEF m
  <2> QED  BY <1>2, <2>1, <2>4 DEF StreamOK, m
<1>8. BufferOK(cs, mem')
  <2>1. cs.buf \in 0..Len(mem')
    BY <1>5
  <2>2. cs.len # 0 => cs.buf # 0 /\ cs.len <= Len(mem'[cs.buf])
    BY <1>2 DEF Stored
  <2>3. ASSUME NEW k \in 1..ch.to  PROVE mem'[cs.buf][k] = Unit(n, k)
    <3>1. cs.buf # 0
      <4>1. m.len # 0
        BY <1>2
      <4> QED  BY <1>2, <4>1
    <3>2. CASE k > ch.from
      BY <1>2, <3>1, <3>2 DEF Stored
    <3>3. CASE ~(k > ch.from)
      <4>1. k \in 1..ch.from /\ ch.from # 0
        BY <1>2, <3>3
      <4>2. a.msg = n /\ a.index = ch.from /\ cs.buf = a.buf
        BY <1>2, <4>1
      <4>3. mem[a.buf][k] = Unit(a.msg, k) /\ a.buf \in 0..Len(mem)
        BY <1>6, <4>1, <4>2 DEF BufferOK
      <4>4. cs.buf <= Len(mem)
        BY <1>3, <4>2, <4>3
      <4>5. mem'[cs.buf][k] = mem[cs.buf][k]
        BY <1>2, <3>1, <4>1, <4>4 DEF Stored
      <4> QED  BY <4>2, <4>3, <4>5
    <3> QED  BY <3>2, <3>3
  <2> QED  BY <1>2, <2>1, <2>2, <2>3 DEF BufferOK
<1>9. ASSUME NEW d \in Csids, d # c  PROVE BufferOK(chunks[d], mem') /\ (chunks[d].buf # 0 => chunks[d].buf # cs.buf)
  <2> DEFINE e == chunks[d]
  <2>1. e.buf \in 0..Len(mem) /\ StreamOK(msgs, e, d) /\ BufferOK(e, mem) /\ e \in StreamRec
    BY <1>3, <1>6, <1>9 DEF BufferOK
  <2>2. e.buf # 0 => e.buf # a.buf
    BY <1>1, <1>9 DEF ReaderOK
  <2> HIDE DEF e
  <2>3. e.buf # 0 => e.buf # cs.buf /\ e.buf \in 1..Len(mem)
    <3>1. e.buf # Len(mem) + 1
      BY <1>3, <2>1
    <3> QED  BY <1>2, <2>1, <2>2, <3>1
  <2>4. e.buf # 0 => mem'[e.buf] = mem[e.buf]
    BY <1>5, <2>3
  <2>5. e.buf \in 0..Len(mem')
    BY <1>3, <1>5, <2>1
  <2>6. e.buf = 0 => e.index = 0
    <3> SUFFICES ASSUME e.buf = 0, e.index # 0  PROVE FALSE
      OBVIOUS
    <3>1. e.msg # 0 /\ e.index + e.remain = e.len /\ e.index \in Nat /\ e.remain \in Nat
      BY <2>1 DEF StreamOK, StreamRec
    <3>2. e.len # 0
      BY <3>1
    <3> QED  BY <2>1, <3>1, <3>2 DEF BufferOK
  <2>7. BufferOK(e, mem')
    <3>1. CASE e.buf = 0
      <4>1. \A k \in 1..e.index : FALSE
        BY <2>6, <3>1
      <4> QED  BY <2>1, <2>5, <3>1, <4>1 DEF BufferOK
    <3>2. CASE e.buf # 0
      BY <2>1, <2>4, <2>5, <3>2 DEF BufferOK
    <3> QED  BY <3>1, <3>2
  <2> QED  BY <2>3, <2>7 DEF e
<1>10. \A d \in Csids : StreamOK(msgs, chunks'[d], d) /\ BufferOK(chunks'[d], mem')
  BY <1>4, <1>6, <1>7, <1>8, <1>9
<1>11. ASSUME NEW d \in Csids, NEW e \in Csids, d # e, chunks'[d].buf # 0
       PROVE  chunks'[d].buf # chunks'[e].buf
  <2>1. CASE d = c
    <3>1. chunks'[d] = cs /\ chunks'[e] = chunks[e] /\ e # c
      BY <1>4, <1>11, <2>1
    <3> QED  BY <1>9, <1>11, <3>1
  <2>2. CASE e = c
    <3>1. chunks'[e] = cs /\ chunks'[d] = chunks[d] /\ d # c
      BY <1>4, <1>11, <2>2
    <3> QED  BY <1>9, <1>11, <3>1
  <2>3. CASE d # c /\ e # c
    <3>1. chunks'[e] = chunks[e] /\ chunks'[d] = chunks[d]
      BY <1>4, <2>3
    <3> QED  BY <1>1, <1>11, <3>1 DEF ReaderOK
  <2> QED  BY <2>1, <2>2, <2>3
<1> QED  BY <1>3, <1>10, <1>11 DEF ReaderOK

\* Reading a chunk keeps what Read has returned: a message when its last chunk is read,
\* after those before it.
LEMMA ReadDelivered ==
  ASSUME Inv, NEW c \in Csids, NEW ch \in ChunkRec, NEW cs \in StreamRec, ReadAs(c, ch, cs)
  PROVE  DeliveredOK'
<1> DEFINE n == ch.msg
<1> DEFINE m == msgs[n]
<1> DEFINE a == chunks[c]
<1> DEFINE e == [csid |-> c, kind |-> m.kind, len |-> m.len, ts |-> cs.ts, pts |-> m.ts,
                 buf |-> cs.buf, data |-> Data(n, m.len), msg |-> n]
<1>1. TypeInv /\ ReaderOK /\ DeliveredOK
  BY DEF Inv
<1>2. /\ n \in 1..Len(msgs) /\ m.csid = c /\ m.len \in Nat /\ ch.to \in Nat
      /\ chunks' = [chunks EXCEPT ![c] = cs]
      /\ cs.msg = n /\ cs.remain = m.len - ch.to
      /\ IF ch.from = 0
         THEN a.remain = 0 /\ a.msg < n /\ \A k \in (a.msg + 1)..(n - 1) : msgs[k].csid # c
         ELSE a.remain # 0 /\ a.msg = n
      /\ ch.to = m.len /\ m.kind \notin Control => delivered' = Append(delivered, e)
      /\ ~(ch.to = m.len /\ m.kind \notin Control) => delivered' = delivered
      /\ UNCHANGED sendVars
  <2>1. ReadAs(c, ch, cs)
    OBVIOUS
  <2> QED  BY <2>1 DEF ReadAs
<1>3. /\ msgs' = msgs /\ chunks \in [Csids -> StreamRec] /\ delivered \in Seq(DeliveredRec)
      /\ Len(delivered) \in Nat /\ msgs \in Seq(MessageRec) /\ Len(msgs) \in Nat
  BY <1>1, <1>2 DEF TypeInv, sendVars
<1>4. chunks'[c] = cs /\ \A d \in Csids : d # c => chunks'[d] = chunks[d]
  BY <1>2, <1>3
<1>5. n \in Nat /\ a.msg \in Nat
  BY <1>2, <1>3 DEF StreamRec
<1>6. ASSUME NEW k \in 1..Len(msgs), msgs[k].csid = c
      PROVE  Done(msgs, chunks, k) <=> k < n
  <2>1. Done(msgs, chunks, k) <=> (k < a.msg \/ (k = a.msg /\ a.remain = 0))
    BY <1>6 DEF Done
  <2>2. CASE ch.from = 0
    <3>1. a.remain = 0 /\ a.msg < n /\ \A j \in (a.msg + 1)..(n - 1) : msgs[j].csid # c
      BY <1>2, <2>2
    <3>2. k < n => k <= a.msg
      <4> SUFFICES ASSUME k < n, ~(k <= a.msg)  PROVE FALSE
        BY <1>5
      <4>1. k \in (a.msg + 1)..(n - 1)
        BY <1>5
      <4> QED  BY <1>6, <3>1, <4>1
    <3> HIDE DEF n, a
    <3> QED  BY <1>5, <2>1, <3>1, <3>2
  <2>3. CASE ch.from # 0
    BY <1>2, <2>1, <2>3
  <2> QED  BY <2>2, <2>3
<1>7. ASSUME NEW k \in 1..Len(msgs), msgs[k].csid = c
      PROVE  Done(msgs, chunks', k) <=> (k < n \/ (k = n /\ ch.to = m.len))
  <2>1. cs.remain = 0 <=> ch.to = m.len
    <3> DEFINE l == m.len
    <3> DEFINE g == ch.to
    <3>1. l \in Nat /\ g \in Nat /\ cs.remain = l - g
      BY <1>2
    <3> HIDE DEF l, g
    <3>2. cs.remain = 0 <=> g = l
      BY <3>1
    <3> QED  BY <3>2 DEF l, g
  <2> QED  BY <1>2, <1>4, <1>7, <2>1 DEF Done
<1>8. ASSUME NEW k \in 1..Len(msgs), msgs[k].csid # c
      PROVE  Done(msgs, chunks', k) <=> Done(msgs, chunks, k)
  <2>1. msgs[k] \in MessageRec
    BY <1>3
  <2>2. msgs[k].csid \in Csids
    BY <2>1 DEF MessageRec
  <2> QED  BY <1>4, <1>8, <2>2 DEF Done
<1>9. ASSUME NEW i \in 1..Len(delivered)
      PROVE  /\ ReturnedOK(msgs, chunks', delivered[i])
             /\ delivered[i].csid = c => delivered[i].msg < n
  <2> DEFINE d == delivered[i]
  <2>1. ReturnedOK(msgs, chunks, d) /\ d \in DeliveredRec
    BY <1>1, <1>3 DEF DeliveredOK
  <2> HIDE DEF d
  <2>2. /\ d.msg \in 1..Len(msgs) /\ msgs[d.msg].csid = d.csid /\ Done(msgs, chunks, d.msg)
        /\ d.csid \in Csids
    BY <2>1 DEF ReturnedOK, DeliveredRec
  <2>3. CASE d.csid = c
    <3>1. d.msg < n /\ d.msg # n
      BY <1>5, <1>6, <2>2, <2>3
    <3>2. Done(msgs, chunks', d.msg)
      BY <1>7, <2>2, <2>3, <3>1
    <3>3. d.msg # chunks'[d.csid].msg
      BY <1>2, <1>4, <2>3, <3>1
    <3>4. ReturnedOK(msgs, chunks', d)
      BY <2>1, <3>2, <3>3 DEF ReturnedOK
    <3> QED  BY <3>1, <3>4 DEF d
  <2>4. CASE d.csid # c
    <3>1. Done(msgs, chunks', d.msg) /\ chunks'[d.csid] = chunks[d.csid]
      BY <1>4, <1>8, <2>2, <2>4
    <3>2. ReturnedOK(msgs, chunks', d)
      BY <2>1, <3>1 DEF ReturnedOK
    <3> QED  BY <2>4, <3>2 DEF d
  <2> QED  BY <2>3, <2>4
<1>10. CASE ~(ch.to = m.len /\ m.kind \notin Control)
  <2>1. delivered' = delivered
    BY <1>2, <1>10
  <2>2. ASSUME NEW k \in 1..Len(msgs), msgs[k].kind \notin Control, Done(msgs, chunks', k)
        PROVE  \E i \in 1..Len(delivered) : delivered[i].msg = k
    <3>1. Done(msgs, chunks, k)
      <4>1. CASE msgs[k].csid = c
        <5>1. k # n \/ ch.to # m.len
          BY <1>10, <2>2
        <5> QED  BY <1>6, <1>7, <2>2, <4>1, <5>1
      <4>2. CASE msgs[k].csid # c
        BY <1>8, <2>2, <4>2
      <4> QED  BY <4>1, <4>2
    <3> QED  BY <1>1, <2>2, <3>1 DEF DeliveredOK
  <2>3. \A i, j \in 1..Len(delivered) :
          i < j /\ delivered[i].csid = delivered[j].csid => delivered[i].msg < delivered[j].msg
    BY <1>1 DEF DeliveredOK
  <2> QED  BY <1>3, <1>9, <2>1, <2>2, <2>3 DEF DeliveredOK
<1>11. CASE ch.to = m.len /\ m.kind \notin Control
  <2> DEFINE L == Len(delivered)
  <2>1. delivered' = Append(delivered, e)
    BY <1>2, <1>11
  <2>2. /\ e.csid = c /\ e.kind = m.kind /\ e.len = m.len /\ e.pts = m.ts /\ e.buf = cs.buf
        /\ e.data = Data(n, m.len) /\ e.msg = n
    OBVIOUS
  <2> HIDE DEF e
  <2>3. /\ L \in Nat /\ Len(delivered') = L + 1
        /\ \A i \in 1..L : delivered'[i] = delivered[i]
        /\ delivered'[L + 1] = e
    BY <1>3, <2>1
  <2> HIDE DEF L
  <2>4. \A i \in 1..(L + 1) : i = L + 1 \/ i \in 1..L
    BY <2>3
  <2>5. ReturnedOK(msgs, chunks', e)
    <3>1. Done(msgs, chunks', n)
      BY <1>2, <1>7, <1>11
    <3>2. chunks'[e.csid] = cs
      BY <1>4, <2>2
    <3> QED  BY <1>2, <1>11, <2>2, <3>1, <3>2 DEF ReturnedOK
  <2>6. \A i \in 1..Len(delivered') : ReturnedOK(msgs, chunks', delivered'[i])
    <3> SUFFICES ASSUME NEW i \in 1..(L + 1)  PROVE ReturnedOK(msgs, chunks', delivered'[i])
      BY <2>3
    <3>1. CASE i = L + 1
      BY <2>3, <2>5, <3>1
    <3>2. CASE i \in 1..L
      BY <1>9, <2>3, <3>2 DEF L
    <3> QED  BY <2>4, <3>1, <3>2
  <2>7. \A i, j \in 1..Len(delivered') :
          i < j /\ delivered'[i].csid = delivered'[j].csid => delivered'[i].msg < delivered'[j].msg
    <3> SUFFICES ASSUME NEW i \in 1..(L + 1), NEW j \in 1..(L + 1), i < j,
                        delivered'[i].csid = delivered'[j].csid
                 PROVE  delivered'[i].msg < delivered'[j].msg
      BY <2>3
    <3>1. i \in 1..L
      BY <2>3
    <3>2. CASE j = L + 1
      <4>1. delivered[i].csid = c
        BY <2>2, <2>3, <3>1, <3>2
      <4>2. delivered[i].msg < n
        BY <1>9, <3>1, <4>1 DEF L
      <4> QED  BY <2>2, <2>3, <3>1, <3>2, <4>2
    <3>3. CASE j \in 1..L
      <4>1. delivered[i].csid = delivered[j].csid
        BY <2>3, <3>1, <3>3
      <4>2. delivered[i].msg < delivered[j].msg
        BY <1>1, <3>1, <3>3, <4>1 DEF DeliveredOK, L
      <4> QED  BY <2>3, <3>1, <3>3, <4>2
    <3> QED  BY <2>4, <3>2, <3>3
  <2>8. ASSUME NEW k \in 1..Len(msgs), msgs[k].kind \notin Control, Done(msgs, chunks', k)
        PROVE  \E i \in 1..Len(delivered') : delivered'[i].msg = k
    <3>1. CASE k = n
      <4>1. L + 1 \in 1..Len(delivered')
        BY <2>3
      <4> QED  BY <2>2, <2>3, <3>1, <4>1
    <3>2. CASE k # n
      <4>1. Done(msgs, chunks, k)
        <5>1. CASE msgs[k].csid = c
          BY <1>6, <1>7, <2>8, <3>2, <5>1
        <5>2. CASE msgs[k].csid # c
          BY <1>8, <2>8, <5>2
        <5> QED  BY <5>1, <5>2
      <4>2. PICK i \in 1..L : delivered[i].msg = k
        BY <1>1, <2>8, <4>1 DEF DeliveredOK, L
      <4>3. i \in 1..Len(delivered')
        BY <2>3
      <4> QED  BY <2>3, <4>2, <4>3
    <3> QED  BY <3>1, <3>2
  <2> QED  BY <1>3, <2>6, <2>7, <2>8 DEF DeliveredOK
<1> QED  BY <1>10, <1>11

\* Reading a chunk keeps the account of the units received.
LEMMA ReadAck ==
  ASSUME Inv, NEW c \in Csids, NEW ch \in ChunkRec, NEW cs \in StreamRec, ReadAs(c, ch, cs)
  PROVE  AckInv'
<1> DEFINE m == msgs[ch.msg]
<1> DEFINE a == chunks[c]
<1> DEFINE l == m.len
<1> DEFINE f == ch.from
<1> DEFINE g == ch.to
<1>1. TypeInv /\ AckInv
  BY DEF Inv
<1>2. /\ wire # <<>> /\ ch = wire[1] /\ wire' = Tail(wire) /\ l \in Nat
      /\ f \in Nat /\ g \in Nat /\ f <= g /\ g <= l
      /\ chunks' = [chunks EXCEPT ![c] = cs] /\ cs.index = g /\ cs.remain = l - g
      /\ IF f = 0 THEN a.remain = 0 ELSE a.remain # 0 /\ a.index = f
      /\ IF g = l THEN ack(l) ELSE UNCHANGED <<ackReceived, ackBuffered>>
      /\ UNCHANGED <<sendVars, unacked>>
  BY DEF ReadAs
<1>3. /\ wire \in Seq(ChunkRec) /\ chunks \in [Csids -> StreamRec] /\ left \in [Csids -> Nat]
      /\ ackReceived \in Nat /\ ackBuffered \in Nat /\ left' = left /\ unacked' = unacked
  BY <1>1, <1>2 DEF TypeInv, sendVars
<1>4. chunks' \in [Csids -> StreamRec] /\ chunks'[c] = cs /\ \A d \in Csids : d # c => chunks'[d] = chunks[d]
  BY <1>2, <1>3
<1>5. /\ Open(chunks, left) \in Nat /\ Open(chunks', left) \in Nat
      /\ Open(chunks', left) + Part(a) = Open(chunks, left) + Part(cs)
  <2>1. Open(chunks', left) + Part(chunks[c]) = Open(chunks, left) + Part(chunks'[c])
    BY ONLY c \in Csids, <1>3, <1>4, OpenPart
  <2>2. Open(chunks, left) \in Nat /\ Open(chunks', left) \in Nat
    BY ONLY <1>3, <1>4, OpenIs
  <2> QED  BY <1>4, <2>1, <2>2
<1>6. Part(a) = f
  BY <1>2 DEF Part
<1>7. Part(cs) = IF g = l THEN 0 ELSE g
  <2> HIDE DEF l, g
  <2>1. l - g = 0 <=> g = l
    BY <1>2
  <2> QED  BY <1>2, <2>1 DEF Part
<1>8. PICK h \in [0..Len(wire) -> Nat] :
        Totals(h, wire) /\ unacked = ackReceived + ackBuffered + h[0] + Open(chunks, left)
  BY <1>1 DEF AckInv
<1>9. PICK k \in [0..Len(Tail(wire)) -> Nat] :
        Totals(k, Tail(wire)) /\ h[0] \in Nat /\ h[0] = k[0] + (wire[1].to - wire[1].from)
  BY <1>2, <1>3, <1>8, TotalsTail
<1>10. k[0] \in Nat /\ h[0] = k[0] + (g - f)
  <2>1. Len(Tail(wire)) \in Nat
    BY <1>2, <1>3
  <2>2. 0 \in 0..Len(Tail(wire))
    BY <2>1
  <2> QED  BY <1>2, <1>9, <2>2
<1>11. /\ ackReceived' \in Nat /\ ackBuffered' \in Nat
       /\ ackReceived' + ackBuffered' = ackReceived + ackBuffered + (IF g = l THEN l ELSE 0)
  <2>1. CASE g = l
    BY <1>2, <1>3, <2>1, WindowType, AckIs
  <2>2. CASE g # l
    BY <1>2, <1>3, <2>2
  <2> QED  BY <2>1, <2>2
<1> DEFINE A == Open(chunks, left)
<1> DEFINE B == Open(chunks', left)
<1> DEFINE K == k[0]
<1> DEFINE H == h[0]
<1> DEFINE x == ackReceived'
<1> DEFINE y == ackBuffered'
<1>12. /\ A \in Nat /\ B \in Nat /\ K \in Nat /\ H \in Nat /\ x \in Nat /\ y \in Nat
       /\ l \in Nat /\ f \in Nat /\ g \in Nat /\ f <= g /\ ackReceived \in Nat /\ ackBuffered \in Nat
       /\ B + f = A + (IF g = l THEN 0 ELSE g) /\ H = K + (g - f)
       /\ x + y = ackReceived + ackBuffered + (IF g = l THEN l ELSE 0)
       /\ unacked = ackReceived + ackBuffered + H + A
  BY <1>2, <1>3, <1>5, <1>6, <1>7, <1>8, <1>9, <1>10, <1>11
<1> HIDE DEF A, B, K, H, x, y, l, f, g
<1>13. unacked = x + y + K + B
  <2>1. CASE g = l
    BY <1>12, <2>1
  <2>2. CASE g # l
    BY <1>12, <2>2
  <2> QED  BY <2>1, <2>2
<1>14. unacked' = ackReceived' + ackBuffered' + k[0] + Open(chunks', left')
  BY <1>3, <1>13 DEF x, y, K, B
<1> QED  BY <1>2, <1>9, <1>14 DEF AckInv

\* After a chunk is read, a full window has been acknowledged, the one just set too.
LEMMA ReadWindow ==
  ASSUME Inv, NEW c \in Csids, NEW ch \in ChunkRec, NEW cs \in StreamRec, ReadAs(c, ch, cs)
  PROVE  WindowInv'
<1> DEFINE l == msgs[ch.msg].len
<1>1. /\ l \in Nat
      /\ IF ch.to = l THEN ack(l) ELSE UNCHANGED <<remoteWindowAckSize, ackReceived>>
  BY DEF ReadAs
<1>2. ackReceived \in Nat /\ ackBuffered \in Nat /\ WindowInv
  BY DEF Inv, TypeInv
<1> HIDE DEF l
<1>3. CASE ch.to = l
  BY <1>1, <1>2, <1>3, WindowType, AckIs DEF WindowInv
<1>4. CASE ch.to # l
  BY <1>1, <1>2, <1>4 DEF WindowInv
<1> QED  BY <1>3, <1>4

\* Read keeps the invariant.
LEMMA ReadStep ==
  ASSUME Inv, Read
  PROVE  Inv'
<1>1. PICK c \in Csids, ch \in ChunkRec, cs \in StreamRec : ReadAs(c, ch, cs)
  BY ReadIs
<1>2. UNCHANGED <<sender, msgs, chunkSize, out, left, prev, desync, unacked>>
  BY <1>1 DEF ReadAs, sendVars
<1>3. TypeInv'
  BY <1>1, ReadTypes
<1>4. Chain' /\ Sizes' /\ WireOK'
  BY <1>1, ReadChain
<1>5. ReaderOK'
  BY <1>1, ReadReader
<1>6. DeliveredOK'
  BY <1>1, ReadDelivered
<1>7. AckInv'
  BY <1>1, ReadAck
<1>8. MsgsOK'
  BY <1>2 DEF Inv, MsgsOK
<1>9. PrevOK'
  BY <1>2 DEF Inv, PrevOK
<1>10. OutOK'
  BY <1>2 DEF Inv, OutOK
<1>11. Framed'
  BY <1>2 DEF Inv, Framed
<1>12. WindowInv'
  BY <1>1, ReadWindow
<1> QED  BY <1>3, <1>4, <1>5, <1>6, <1>7, <1>8, <1>9, <1>10, <1>11, <1>12 DEF Inv

-----------------------------------------------------------------------------
(* The invariant *)

\* A flush keeps the invariant.
LEMMA FlushStep ==
  ASSUME Inv, Flush
  PROVE  Inv'
<1>1. /\ ackBuffered > 0 /\ unacked' = unacked - ackBuffered /\ ackBuffered' = 0
      /\ UNCHANGED <<sender, msgs, chunkSize, out, left, prev, wire, chunks, mem, remoteChunkSize,
                     remoteWindowAckSize, delivered, desync, ackReceived>>
  BY DEF Flush, sendVars
<1>2. /\ TypeInv /\ MsgsOK /\ PrevOK /\ OutOK /\ WireOK /\ Chain /\ Sizes /\ ReaderOK /\ DeliveredOK
      /\ AckInv /\ WindowInv /\ Framed
  BY DEF Inv
<1>3. PICK f \in [0..Len(wire) -> Nat] :
        Totals(f, wire) /\ unacked = ackReceived + ackBuffered + f[0] + Open(chunks, left)
  BY <1>2 DEF AckInv
<1>4. /\ f[0] \in Nat /\ Open(chunks, left) \in Nat /\ ackReceived \in Nat /\ ackBuffered \in Nat
  <2>1. wire \in Seq(ChunkRec) /\ chunks \in [Csids -> StreamRec] /\ left \in [Csids -> Nat]
    BY <1>2 DEF TypeInv
  <2>2. 0 \in 0..Len(wire)
    BY <2>1
  <2>3. Open(chunks, left) \in Nat
    BY <2>1, OpenIs
  <2> QED  BY <1>2, <2>2, <2>3 DEF TypeInv
<1>5. unacked - ackBuffered \in Nat /\ unacked - ackBuffered = ackReceived + 0 + f[0] + Open(chunks, left)
  <2> DEFINE A == Open(chunks, left)
  <2> DEFINE F == f[0]
  <2>1. A \in Nat /\ F \in Nat /\ unacked = ackReceived + ackBuffered + F + A
    BY <1>3, <1>4
  <2> HIDE DEF A, F
  <2>2. unacked - ackBuffered \in Nat /\ unacked - ackBuffered = ackReceived + 0 + F + A
    BY <1>4, <2>1
  <2> QED  BY <2>2 DEF A, F
<1>6. TypeInv'
  <2>1. unacked' \in Nat /\ ackBuffered' \in Nat
    BY <1>1, <1>5
  <2> QED  BY <1>1, <1>2, <2>1 DEF TypeInv
<1>7. AckInv'
  <2>1. unacked' = ackReceived' + ackBuffered' + f[0] + Open(chunks', left')
    BY <1>1, <1>5
  <2> QED  BY <1>1, <1>3, <2>1 DEF AckInv
<1>8. MsgsOK' /\ PrevOK' /\ OutOK' /\ WireOK'
  BY <1>1, <1>2 DEF MsgsOK, PrevOK, OutOK, WireOK
<1>9. Chain' /\ Sizes'
  BY <1>1, <1>2 DEF Chain, Sizes
<1>10. ReaderOK' /\ DeliveredOK' /\ WindowInv' /\ Framed'
  BY <1>1, <1>2 DEF ReaderOK, DeliveredOK, WindowInv, Framed
<1> QED  BY <1>6, <1>7, <1>8, <1>9, <1>10 DEF Inv

\* The invariant holds at first.
LEMMA InitInv ==
  ASSUME Init
  PROVE  Inv
<1>1. /\ sender \in Senders /\ msgs = <<>> /\ chunkSize = FirstSize
      /\ out = [c \in Csids |-> 0] /\ left = [c \in Csids |-> 0]
      /\ prev = [c \in Csids |-> [fmt |-> 3, ts |-> 0, delta |-> 0, len |-> 0, kind |-> "none"]]
      /\ wire = <<>> /\ chunks = [c \in Csids |-> NewChunkStream] /\ mem = <<>>
      /\ remoteChunkSize = FirstSize /\ remoteWindowAckSize = Window
      /\ delivered = <<>> /\ desync = FALSE
      /\ ackReceived = 0 /\ ackBuffered = 0 /\ unacked = 0
  BY DEF Init
<1>2. /\ Len(msgs) = 0 /\ Len(wire) = 0 /\ Len(mem) = 0 /\ Len(delivered) = 0
      /\ msgs \in Seq(MessageRec) /\ wire \in Seq(ChunkRec) /\ mem \in Seq(Seq(UnitRec))
      /\ delivered \in Seq(DeliveredRec)
  BY <1>1
<1>3. NewChunkStream \in StreamRec
  BY Constants DEF NewChunkStream, StreamRec
<1>4. TypeInv
  <2>1. [fmt |-> 3, ts |-> 0, delta |-> 0, len |-> 0, kind |-> "none"] \in HeaderRec
    BY DEF HeaderRec
  <2>2. out \in [Csids -> Nat] /\ left \in [Csids -> Nat] /\ prev \in [Csids -> HeaderRec]
    BY <1>1, <2>1
  <2>3. chunks \in [Csids -> StreamRec]
    BY <1>1, <1>3
  <2>4. 0 <= MaxMsgs /\ FirstSize \in ChunkSizes /\ Window \in Windows
    BY Constants
  <2> QED  BY <1>1, <1>2, <2>2, <2>3, <2>4 DEF TypeInv
<1>5. MsgsOK /\ WireOK
  BY <1>2 DEF MsgsOK, WireOK
<1>6. PrevOK
  <2>1. \A k \in 1..Len(msgs) : FALSE
    BY <1>2
  <2> QED  BY <1>1, <2>1 DEF PrevOK
<1>7. OutOK
  BY <1>1 DEF OutOK
<1>8. Chain
  <2> SUFFICES ASSUME NEW c \in Csids
               PROVE  /\ ChainOn(wire, msgs, chunks[c], c)
                      /\ EndOn(wire, msgs, chunks[c], out[c], left[c], c)
    BY DEF Chain
  <2>1. chunks[c].msg = 0 /\ out[c] = 0
    BY <1>1 DEF NewChunkStream
  <2>2. ChainOn(wire, msgs, chunks[c], c)
    BY <1>2 DEF ChainOn
  <2>3. \A k \in 1..Len(msgs) : FALSE
    BY <1>2
  <2>4. \A j \in 0..Len(wire) : j = 0
    BY <1>2
  <2>5. AtMsg(wire, chunks[c], 0) = 0 /\ 0 + 1 = 1
    BY <2>1 DEF AtMsg
  <2>6. Ends(msgs, out[c], left[c], c, AtMsg(wire, chunks[c], 0), AtPos(wire, chunks[c], 0))
    BY <2>1, <2>3, <2>5 DEF Ends
  <2> QED  BY <2>2, <2>4, <2>6 DEF EndOn
<1>9. Sizes
  <2>1. \A j \in 0..Len(wire) : j = 0
    BY <1>2
  <2> QED  BY <1>1, <1>2, <2>1 DEF Sizes, SizesOn, SizeAt
<1>10. ReaderOK
  <2>1. \A c \in Csids : chunks[c] = NewChunkStream
    BY <1>1
  <2>2. \A c \in Csids : StreamOK(msgs, NewChunkStream, c)
    BY <1>2, Constants DEF StreamOK, NewChunkStream
  <2>3. BufferOK(NewChunkStream, mem)
    BY <1>2 DEF BufferOK, NewChunkStream
  <2>4. \A c \in Csids : chunks[c].buf = 0
    BY <2>1 DEF NewChunkStream
  <2> QED  BY <2>1, <2>2, <2>3, <2>4 DEF ReaderOK
<1>11. DeliveredOK
  BY <1>2 DEF DeliveredOK
<1>12. AckInv
  <2> DEFINE f == [i \in 0..0 |-> 0]
  <2>1. f \in [0..Len(wire) -> Nat] /\ f[0] = 0
    BY <1>2
  <2>2. Totals(f, wire)
    BY <1>2, <2>1 DEF Totals
  <2>3. Open(chunks, left) = 0
    <3>1. 2 \in Csids /\ 4 \in Csids /\ 6 \in Csids /\ CmdCsid \in Csids
      BY DEF Csids
    <3>2. \A c \in Csids : Part(chunks[c]) = 0 /\ left[c] = 0
      BY <1>1 DEF Part, NewChunkStream
    <3>3. /\ Part(chunks[2]) = 0 /\ Part(chunks[4]) = 0 /\ Part(chunks[6]) = 0
          /\ Part(chunks[CmdCsid]) = 0 /\ left[2] = 0 /\ left[4] = 0 /\ left[6] = 0
          /\ left[CmdCsid] = 0
      BY <3>1, <3>2
    <3> QED  BY <3>3 DEF Open
  <2> HIDE DEF f
  <2> QED  BY <1>1, <2>1, <2>2, <2>3 DEF AckInv
<1>13. WindowInv /\ Framed
  <2>1. Window \in Nat \ {0}
    BY Constants
  <2> QED  BY <1>1, <2>1 DEF WindowInv, Framed
<1> QED
  BY <1>4, <1>5, <1>6, <1>7, <1>8, <1>9, <1>10, <1>11, <1>12, <1>13 DEF Inv

\* Every step keeps the invariant.
LEMMA StepInv ==
  ASSUME MaxTs < ExtTs, Inv, [Next]_vars
  PROVE  Inv'
<1>1. CASE UNCHANGED vars
  <2>1. UNCHANGED <<sender, msgs, chunkSize, out, left, prev, wire, chunks, mem, remoteChunkSize,
                    remoteWindowAckSize, delivered, desync, ackReceived, ackBuffered, unacked>>
    BY <1>1 DEF vars, sendVars, readVars
  <2>2. TypeInv'
    BY <2>1 DEF Inv, TypeInv
  <2>3. MsgsOK' /\ PrevOK' /\ OutOK' /\ WireOK'
    BY <2>1 DEF Inv, MsgsOK, PrevOK, OutOK, WireOK
  <2>4. Chain' /\ Sizes' /\ AckInv'
    BY <2>1 DEF Inv, Chain, Sizes, AckInv
  <2>5. ReaderOK' /\ DeliveredOK' /\ WindowInv' /\ Framed'
    BY <2>1 DEF Inv, ReaderOK, DeliveredOK, WindowInv, Framed
  <2> QED  BY <2>2, <2>3, <2>4, <2>5 DEF Inv
<1>2. CASE \E kind \in Kinds, len \in Lens, ts \in 0..MaxTs, size \in ChunkSizes,
              window \in Windows : Write(kind, len, ts, size, window)
  BY <1>2, WriteStep
<1>3. CASE \E kind \in Kinds, len \in Lens, ts \in 0..MaxTs, size \in ChunkSizes,
              window \in Windows, fmt \in 0..3 : PeerBegin(kind, len, ts, fmt, size, window)
  BY <1>3, PeerBeginStep
<1>4. CASE \E c \in Csids : PeerContinue(c)
  BY <1>4, PeerContinueStep
<1>5. CASE Read
  BY <1>5, ReadStep
<1>6. CASE Flush
  BY <1>6, FlushStep
<1> QED  BY <1>1, <1>2, <1>3, <1>4, <1>5, <1>6 DEF Next

\* The invariant always holds.
LEMMA Invariance ==
  ASSUME MaxTs < ExtTs
  PROVE  Spec => []Inv
<1>1. Init => Inv
  BY InitInv
<1>2. Inv /\ [Next]_vars => Inv'
  BY StepInv
<1> QED  BY <1>1, <1>2, PTL DEF Spec

-----------------------------------------------------------------------------
(* The properties *)

\* The invariant implies that every variable has its type.
LEMMA InvTypeOK ==
  ASSUME Inv
  PROVE  TypeOK
<1>1. TypeInv /\ OutOK /\ ReaderOK
  BY DEF Inv
<1>2. msgs \in Seq(MessageRec) /\ Len(msgs) \in Nat /\ Len(msgs) <= MaxMsgs /\ MaxMsgs \in Nat /\ MaxLen \in Nat
  BY <1>1, Constants DEF TypeInv
<1>3. ASSUME NEW n \in 1..Len(msgs)  PROVE msgs[n].len \in 0..MaxLen
  <2>1. msgs[n] \in MessageRec
    BY <1>2
  <2> QED  BY <2>1 DEF MessageRec
<1>4. ASSUME NEW c \in Csids  PROVE out[c] \in 0..MaxMsgs /\ left[c] \in 0..MaxLen
  <2>1. out[c] \in Nat /\ left[c] \in Nat
    BY <1>1 DEF TypeInv
  <2>2. CASE out[c] = 0
    BY <1>1, <1>2, <2>2 DEF OutOK
  <2>3. CASE out[c] # 0
    <3>1. out[c] \in 1..Len(msgs) /\ left[c] < msgs[out[c]].len
      BY <1>1, <2>3 DEF OutOK
    <3>2. msgs[out[c]].len \in 0..MaxLen
      BY <1>3, <3>1
    <3> QED  BY <1>2, <2>1, <3>1, <3>2
  <2> QED  BY <2>2, <2>3
<1>5. out \in [Csids -> 0..MaxMsgs] /\ left \in [Csids -> 0..MaxLen]
  BY <1>1, <1>4 DEF TypeInv
<1>6. ASSUME NEW c \in Csids  PROVE chunks[c].index + chunks[c].remain <= MaxLen
  <2> DEFINE s == chunks[c]
  <2>1. StreamOK(msgs, s, c)
    BY <1>1 DEF ReaderOK
  <2> HIDE DEF s
  <2>2. CASE s.msg = 0
    <3>1. s.index + s.remain = 0
      BY <2>1, <2>2 DEF StreamOK
    <3> QED  BY <1>2, <3>1 DEF s
  <2>3. CASE s.msg # 0
    <3>1. s.msg \in 1..Len(msgs) /\ s.index + s.remain = msgs[s.msg].len
      BY <1>2, <2>1, <2>3 DEF StreamOK
    <3>2. msgs[s.msg].len \in 0..MaxLen
      BY <1>3, <3>1
    <3> QED  BY <1>2, <3>1, <3>2 DEF s
  <2> QED  BY <2>2, <2>3
<1> QED  BY <1>1, <1>5, <1>6 DEF TypeOK, TypeInv

\* The data that Read returned last on a chunk stream is in its buffer.
LEMMA InvDataStable ==
  ASSUME Inv
  PROVE  DataStable
<1>1. TypeInv /\ MsgsOK /\ ReaderOK /\ DeliveredOK
  BY DEF Inv
<1>2. /\ delivered \in Seq(DeliveredRec) /\ DOMAIN delivered = 1..Len(delivered) /\ Len(delivered) \in Nat
      /\ msgs \in Seq(MessageRec) /\ Len(msgs) \in Nat /\ mem \in Seq(Seq(UnitRec))
  BY <1>1 DEF TypeInv
<1> SUFFICES ASSUME NEW i \in 1..Len(delivered), delivered[i].len > 0,
                    \A j \in (i + 1)..Len(delivered) : delivered[j].csid # delivered[i].csid,
                    chunks[delivered[i].csid].remain = 0
             PROVE  SubSeq(mem[delivered[i].buf], 1, delivered[i].len) = delivered[i].data
  BY <1>2 DEF DataStable
<1> DEFINE d == delivered[i]
<1> DEFINE c == d.csid
<1> DEFINE r == chunks[c]
<1>3. d \in DeliveredRec /\ ReturnedOK(msgs, chunks, d)
  BY <1>1, <1>2 DEF DeliveredOK
<1>4. /\ d.msg \in 1..Len(msgs) /\ msgs[d.msg].kind \notin Control /\ c = msgs[d.msg].csid
      /\ d.len = msgs[d.msg].len /\ d.data = Data(d.msg, msgs[d.msg].len)
      /\ Done(msgs, chunks, d.msg) /\ (d.msg = r.msg => d.buf = r.buf)
  BY <1>3 DEF ReturnedOK
<1>5. c \in Csids
  BY <1>3 DEF DeliveredRec
<1>6. r \in StreamRec /\ StreamOK(msgs, r, c) /\ BufferOK(r, mem)
  BY <1>1, <1>5 DEF TypeInv, ReaderOK
<1>7. d.msg <= r.msg /\ r.msg \in 1..Len(msgs)
  <2>1. d.msg < r.msg \/ d.msg = r.msg
    BY <1>4 DEF Done
  <2>2. r.msg \in 0..Len(msgs)
    BY <1>6 DEF StreamOK
  <2> HIDE DEF r, d
  <2> QED  BY <1>2, <1>4, <2>1, <2>2
<1>8. msgs[r.msg].csid = c /\ r.remain = 0
  BY <1>6, <1>7 DEF StreamOK
<1>9. msgs[r.msg].kind \notin Control
  <2>1. /\ MsgOK(msgs, d.msg) /\ MsgOK(msgs, r.msg)
        /\ msgs[d.msg] \in MessageRec /\ msgs[r.msg] \in MessageRec
    BY <1>1, <1>2, <1>4, <1>7 DEF MsgsOK
  <2>2. /\ msgs[d.msg].kind \in Kinds /\ msgs[r.msg].kind \in Kinds
        /\ CsidOf(msgs[d.msg].kind) = c /\ CsidOf(msgs[r.msg].kind) = c
    BY <1>4, <1>8, <2>1 DEF MessageRec, MsgOK
  <2> QED  BY <1>4, <2>2, CsidIs
<1>10. Done(msgs, chunks, r.msg)
  BY <1>8 DEF Done
<1>11. PICK j \in 1..Len(delivered) : delivered[j].msg = r.msg
  BY <1>1, <1>7, <1>9, <1>10 DEF DeliveredOK
<1>12. delivered[j].csid = c
  <2>1. ReturnedOK(msgs, chunks, delivered[j])
    BY <1>1 DEF DeliveredOK
  <2> QED  BY <1>8, <1>11, <2>1 DEF ReturnedOK
<1>13. j = i
  <2>1. ~(j > i)
    <3> SUFFICES ASSUME j > i  PROVE FALSE
      OBVIOUS
    <3>1. j \in (i + 1)..Len(delivered)
      BY <1>2
    <3> QED  BY <1>12, <3>1
  <2>2. ~(j < i)
    <3> SUFFICES ASSUME j < i  PROVE FALSE
      OBVIOUS
    <3>1. delivered[j].msg < d.msg
      BY <1>1, <1>12 DEF DeliveredOK
    <3>2. r.msg < d.msg
      BY <1>11, <3>1
    <3> HIDE DEF r, d
    <3> QED  BY <1>2, <1>4, <1>7, <3>2
  <2> QED  BY <2>1, <2>2
<1>14. d.msg = r.msg /\ d.buf = r.buf
  BY <1>4, <1>11, <1>13
<1>15. r.index = d.len /\ r.len = d.len /\ d.len \in Nat /\ d.len # 0
  <2>1. r.index + r.remain = msgs[r.msg].len /\ r.len = msgs[r.msg].len
    BY <1>6, <1>7 DEF StreamOK
  <2>2. r.index \in Nat
    BY <1>6 DEF StreamRec
  <2>3. r.index = msgs[r.msg].len
    <3> HIDE DEF r
    <3> QED  BY <1>8, <2>1, <2>2
  <2>4. d.len > 0
    OBVIOUS
  <2>5. r.index = d.len /\ r.len = d.len /\ d.len \in Nat
    BY <1>4, <1>14, <2>1, <2>2, <2>3
  <2> HIDE DEF d
  <2> QED  BY <2>4, <2>5
<1> DEFINE b == mem[d.buf]
<1>16. b \in Seq(UnitRec) /\ d.len <= Len(b) /\ \A k \in 1..d.len : b[k] = Unit(d.msg, k)
  <2>1. /\ r.buf \in 0..Len(mem) /\ r.buf # 0 /\ r.len <= Len(mem[r.buf])
        /\ \A k \in 1..r.index : mem[r.buf][k] = Unit(r.msg, k)
    <3>1. r.msg # 0 /\ r.len # 0
      BY <1>7, <1>15
    <3> QED  BY <1>6, <3>1 DEF BufferOK
  <2>2. mem[r.buf] \in Seq(UnitRec)
    BY <1>2, <2>1
  <2> QED  BY <1>14, <1>15, <2>1, <2>2
<1>17. d.msg \in Nat /\ d.len \in Nat
  BY <1>4, <1>15
<1> HIDE DEF b, d, c, r
<1>18. SubSeq(b, 1, d.len) = Data(d.msg, d.len)
  BY <1>16, <1>17, DataIs
<1> QED  BY <1>4, <1>18 DEF b, d

\* A full window has been acknowledged, and with nothing on the wire and nothing left to
\* send, all that is open is counted.
LEMMA InvAckAccounts ==
  ASSUME Inv
  PROVE  AckAccounts
<1>1. TypeInv /\ OutOK /\ Chain /\ ReaderOK /\ AckInv
  BY DEF Inv
<1> SUFFICES ASSUME wire = <<>>, \A c \in Csids : out[c] = 0
             PROVE  unacked = ackReceived + ackBuffered
  BY DEF AckAccounts, Inv, WindowInv
<1>2. ASSUME NEW c \in Csids  PROVE Part(chunks[c]) = 0 /\ left[c] = 0
  <2> DEFINE r == chunks[c]
  <2>1. left[c] = 0
    BY <1>1 DEF OutOK
  <2>2. StreamOK(msgs, r, c) /\ r \in StreamRec
    BY <1>1 DEF ReaderOK, TypeInv
  <2>3. EndOn(wire, msgs, r, out[c], left[c], c)
    BY <1>1 DEF Chain
  <2> HIDE DEF r
  <2>4. 0 \in 0..Len(wire) /\ Precedes(wire, msgs, c, 0, Len(wire) + 1)
    <3>1. Len(wire) = 0
      OBVIOUS
    <3> QED  BY <3>1 DEF Precedes
  <2>5. Ends(msgs, out[c], left[c], c, AtMsg(wire, r, 0), AtPos(wire, r, 0))
    BY <2>3, <2>4 DEF EndOn
  <2>6. r.msg # 0 => r.index = msgs[r.msg].len
    BY <2>5 DEF Ends, AtMsg, AtPos
  <2>7. r.remain = 0
    <3>1. CASE r.msg = 0
      BY <2>2, <3>1 DEF StreamOK
    <3>2. CASE r.msg # 0
      <4>1. r.index + r.remain = r.index /\ r.index \in Nat /\ r.remain \in Nat
        BY <2>2, <2>6, <3>2 DEF StreamOK, StreamRec
      <4> QED  BY <4>1
    <3> QED  BY <3>1, <3>2
  <2> QED  BY <2>1, <2>7 DEF Part, r
<1>3. Open(chunks, left) = 0
  <2>1. 2 \in Csids /\ 4 \in Csids /\ 6 \in Csids /\ CmdCsid \in Csids
    BY DEF Csids
  <2>2. /\ Part(chunks[2]) = 0 /\ Part(chunks[4]) = 0 /\ Part(chunks[6]) = 0
        /\ Part(chunks[CmdCsid]) = 0 /\ left[2] = 0 /\ left[4] = 0 /\ left[6] = 0
        /\ left[CmdCsid] = 0
    BY <1>2, <2>1
  <2> QED  BY <2>2 DEF Open
<1>4. PICK f \in [0..Len(wire) -> Nat] :
        Totals(f, wire) /\ unacked = ackReceived + ackBuffered + f[0] + Open(chunks, left)
  BY <1>1 DEF AckInv
<1>5. f[0] = 0
  <2>1. Len(wire) = 0
    OBVIOUS
  <2> QED  BY <1>4, <2>1 DEF Totals
<1>6. ackReceived \in Nat /\ ackBuffered \in Nat
  BY <1>1 DEF TypeInv
<1> QED  BY <1>3, <1>4, <1>5, <1>6

\* The variables of the chunk layer keep their types.
THEOREM TypeCorrect ==
  ASSUME MaxTs < ExtTs
  PROVE  Spec => []TypeOK
<1>1. Inv => TypeOK
  BY InvTypeOK
<1> QED  BY <1>1, Invariance, PTL

\* The reader never takes one part of a chunk for another (RtmpConn.Read, readChunk),
\* for any interleaving of messages, any headers left out and any chunk sizes.
THEOREM FramedCorrect ==
  ASSUME MaxTs < ExtTs
  PROVE  Spec => []Framed
<1>1. Inv => Framed
  BY DEF Inv
<1> QED  BY <1>1, Invariance, PTL

\* readChunk gives every message the time it was sent with.
THEOREM PtsCorrect ==
  ASSUME MaxTs < ExtTs
  PROVE  Spec => []PtsRight
<1>1. Inv => PtsRight
  <2> SUFFICES ASSUME Inv  PROVE PtsRight
    OBVIOUS
  <2>1. DeliveredOK /\ DOMAIN delivered = 1..Len(delivered)
    BY DEF Inv, TypeInv
  <2> QED  BY <2>1 DEF PtsRight, DeliveredOK, ReturnedOK
<1> QED  BY <1>1, Invariance, PTL

\* The data that Read returned stays in its buffer until the next message of the chunk
\* stream begins: no other chunk stream writes to it.
THEOREM DataCorrect ==
  ASSUME MaxTs < ExtTs
  PROVE  Spec => []DataStable
<1>1. Inv => DataStable
  BY InvDataStable
<1> QED  BY <1>1, Invariance, PTL

\* RtmpConn.ack loses no unit that it is to acknowledge, counts none twice, and leaves no
\* full window open, whatever windows the peer sets.
THEOREM AckCorrect ==
  ASSUME MaxTs < ExtTs
  PROVE  Spec => []AckAccounts
<1>1. Inv => AckAccounts
  BY InvAckAccounts
<1> QED  BY <1>1, Invariance, PTL
=============================================================================
