------------------------------ MODULE RtmpConn ------------------------------
(***************************************************************************)
(* The chunk layer: messages cut into chunks (ChunkStream.writeChunk), the *)
(* chunks of several chunk streams put together again (RtmpConn.Read and   *)
(* ChunkStream.readChunk), the control messages that change how chunks are *)
(* read, and the acknowledgement of received bytes.                        *)
(*                                                                         *)
(* One direction of one connection.  The sender is this program's own      *)
(* writer, which writes a message at a time, or another RTMP peer, which   *)
(* mixes chunks of several messages and leaves out header fields that have *)
(* not changed.  The wire is a sequence of chunks, each with the bytes of  *)
(* its basic header, a message header, perhaps an extended timestamp, and  *)
(* some units of data; the reader works out from what it has read before   *)
(* which of these there are and how much data, and is lost (desync) when   *)
(* the chunk is another.  The message stream id, which travels like the    *)
(* type, is left out.                                                      *)
(***************************************************************************)
EXTENDS Naturals, Sequences

CONSTANTS
  Kinds,       \* kinds of message sent, of KnownKinds
  Senders,     \* who may send: "own", "peer"
  CmdCsid,     \* chunk stream of command messages
  FirstSize,   \* the chunk size at first, in units (128 bytes in the code)
  ChunkSizes,  \* chunk sizes
  Lens,        \* bound: lengths of messages, in units
  MaxLen,      \* bound: the longest
  ExtTs,       \* the 24-bit timestamp that announces an extended one (16#ffffff)
  MaxTs,       \* bound: timestamps
  MaxMsgs,     \* bound: messages sent
  MaxWire,     \* bound: chunks unread when the sender writes
  Window,      \* remoteWindowAckSize at first, in units (2500000 bytes in the code)
  Windows      \* bound: the sizes of window that are set

Least(a, b) == IF a < b THEN a ELSE b

\* Messages of the protocol itself, which Read does not return: SetChunkSize,
\* WindowAckSize, and those that it passes over (Ack, UserControl, SetPeerBandwidth,
\* and Abort, when there is no message to be given up).
Control == {"size", "window", "other"}
\* Audio, video, metadata, commands, and the messages of the protocol.
KnownKinds == {"audio", "video", "meta", "cmd"} \cup Control
Csids == {2, 4, 6, CmdCsid}

ASSUME ConnAssumption ==
  /\ Kinds \subseteq KnownKinds /\ Senders \subseteq {"own", "peer"}
  /\ CmdCsid \in Nat \ {4, 6} /\ CmdCsid >= 3 /\ CmdCsid <= 65599
  /\ ChunkSizes \subseteq Nat \ {0} /\ FirstSize \in ChunkSizes
  /\ ExtTs \in Nat \ {0} /\ Windows \subseteq Nat \ {0} /\ Window \in Windows
  /\ {MaxLen, MaxTs, MaxMsgs, MaxWire} \subseteq Nat
  /\ Lens \subseteq 0..MaxLen

VARIABLES
  sender,           \* "own" or "peer"
  msgs,             \* the messages sent, in the order they were begun
  chunkSize,        \* the sender's chunk size
  out,              \* peer: the message it is in the middle of, for each chunk stream
  left,             \* peer: the units of that message still to send
  prev,             \* peer: the header it sent last on each chunk stream
  wire,             \* the chunks written and not yet read
  chunks,           \* RtmpConn.chunks: the ChunkStream of each chunk stream id
  mem,              \* the Data buffers allocated
  remoteChunkSize,
  remoteWindowAckSize,
  delivered,        \* the messages Read has returned
  desync,           \* the reader has taken bytes of one thing for another
  ackReceived,      \* received since the last acknowledgement
  ackBuffered,      \* units acknowledged in the write buffer, not flushed
  unacked           \* units sent that no acknowledgement has reached the sender for

sendVars == <<sender, msgs, chunkSize, out, left, prev>>
readVars == <<chunks, mem, remoteChunkSize, remoteWindowAckSize, delivered, desync, ackReceived,
              ackBuffered>>
vars == <<sendVars, wire, readVars, unacked>>

-----------------------------------------------------------------------------
(* ChunkStream.writeHeader and writeChunk *)

\* The chunk stream writeChunk chooses by the type of the message.
CsidOf(kind) ==
  CASE kind = "audio" -> 4
    [] kind \in {"video", "meta"} -> 6
    [] kind \in Control -> 2
    [] OTHER -> CmdCsid

\* The bytes of the basic header: the format with a short id, then up to two bytes of
\* the id, little-endian.
BasicHeader(fmt, csid) ==
  LET x == csid - 64 IN
  CASE csid < 64  -> [fmt |-> fmt, id |-> csid, rest |-> <<>>]
    [] csid >= 64 /\ csid < 320 -> [fmt |-> fmt, id |-> 0, rest |-> <<x>>]
    [] OTHER -> [fmt |-> fmt, id |-> 1, rest |-> <<x % 256, x \div 256>>]

\* The message header: fmt 0 has all fields, fmt 1 and 2 leave some out, fmt 3 all.
\* ts is the timestamp or its delta.
MessageHeader(fmt, m, ts) ==
  CASE fmt = 0 -> [k |-> "h11", ts |-> ts, len |-> m.len, kind |-> m.kind]
    [] fmt = 1 -> [k |-> "h7", ts |-> ts, len |-> m.len, kind |-> m.kind]
    [] fmt = 2 -> [k |-> "h3", ts |-> ts]
    [] OTHER -> [k |-> "none"]

\* writeHeader: the 24-bit field is capped, and the extended timestamp follows.
writeHeader(fmt, m) ==
  LET ts == IF fmt # 3 /\ m.ts > ExtTs THEN ExtTs ELSE m.ts IN
  [basic |-> BasicHeader(fmt, m.csid), header |-> MessageHeader(fmt, m, ts),
   ext |-> IF ts >= ExtTs THEN <<m.ts>> ELSE <<>>]

\* The chunk with header h and units from + 1 .. to of message number n.
Chunk(h, n, from, to) ==
  [basic |-> h.basic, header |-> h.header, ext |-> h.ext, msg |-> n, from |-> from, to |-> to]

\* writeChunk: the chunks of message number n, m; the loop runs once more than the
\* whole chunks and stops when everything is written.
writeChunk(n, m, size) ==
  [j \in 1..((m.len + size - 1) \div size) |->
    Chunk(writeHeader(IF j = 1 THEN 0 ELSE 3, m), n, (j - 1) * size, Least(j * size, m.len))]

-----------------------------------------------------------------------------
(* ChunkStream.readChunk *)

\* msg is the number of the message being read: the reader does not know it.
NewChunkStream == [ts |-> 0, pts |-> 0, len |-> 0, kind |-> "none", delta |-> 0, remain |-> 0,
                   index |-> 0, complete |-> FALSE, buf |-> 0, msg |-> 0]

\* The chunk stream that the bytes of basic header b name.
ReadBasic(b) ==
  CASE b.id = 0 -> b.rest[1] + 64
    [] b.id = 1 -> b.rest[1] + 256 * b.rest[2] + 64
    [] OTHER -> b.id

\* The message header that goes with a format.
HeaderKind(fmt) == CASE fmt = 0 -> "h11" [] fmt = 1 -> "h7" [] fmt = 2 -> "h3" [] OTHER -> "none"

\* The fields of cs after message header h.
TakeHeader(cs, fmt, h) ==
  CASE fmt = 0 -> [cs EXCEPT !.ts = h.ts, !.len = h.len, !.kind = h.kind]
    [] fmt = 1 -> [cs EXCEPT !.delta = h.ts, !.len = h.len, !.kind = h.kind]
    [] fmt = 2 -> [cs EXCEPT !.delta = h.ts]
    [] OTHER -> cs

\* The extended timestamp is read where the reader has seen it announced: after a
\* fmt 3 header, by the last delta.
TimeExtend(cs, fmt) == IF fmt = 0 THEN cs.ts = ExtTs ELSE cs.delta = ExtTs

\* Mutant of Pts: a delta is taken for a time.
PtsAbsolute(cs, fmt, t) == t

\* Pts of a message that begins with format fmt and 24-bit or extended field t.
Pts(cs, fmt, t) == IF fmt = 0 THEN t ELSE cs.pts + t

\* Mutant of alloc: the position in the buffer is not reset.
allocKeepsIndex(cs) == [cs EXCEPT !.complete = FALSE, !.remain = cs.len]

\* alloc: Data is kept when it is long enough.
alloc(cs) == [cs EXCEPT !.complete = FALSE, !.index = 0, !.remain = cs.len]
NeedsBuffer(cs) == (IF cs.buf = 0 THEN 0 ELSE Len(mem[cs.buf])) < cs.len

\* What readChunk makes of chunk ch, after a basic header of format fmt: the message
\* header, the extended timestamp, then n units of data; ok when ch is made of these.
readChunk(cs, fmt, ch, size) ==
  LET okh == ch.header.k = HeaderKind(fmt)
      c1 == IF okh THEN TakeHeader(cs, fmt, ch.header) ELSE cs
      x == TimeExtend(c1, fmt)
      okx == x = (ch.ext # <<>>)
      t == CASE x /\ okx -> ch.ext[1] [] fmt = 0 -> c1.ts [] OTHER -> c1.delta
      c2 == IF cs.remain = 0 THEN [alloc(c1) EXCEPT !.pts = Pts(cs, fmt, t)] ELSE c1
      n == Least(c2.remain, size)
  IN [ok |-> okh /\ okx /\ n = ch.to - ch.from,
      cs |-> [c2 EXCEPT !.index = @ + n, !.remain = @ - n, !.complete = @ \/ c2.remain = n,
                        !.msg = ch.msg],
      fresh |-> cs.remain = 0 /\ NeedsBuffer(c1)]

\* Mutant of Buffer: the chunk streams share one pooled buffer.
BufferPooled(cs, fresh) == IF fresh /\ (mem = <<>> \/ Len(mem[1]) < cs.len) THEN Len(mem) + 1 ELSE 1

\* The buffer of cs: a new one or the one it has.
Buffer(cs, fresh) == IF fresh THEN Len(mem) + 1 ELSE cs.buf

\* A unit of data of message number n.
Unit(n, i) == [msg |-> n, i |-> i]

\* Mutant of Fill: every chunk is written to the start of the buffer.
FillFromStart(b, index, ch) ==
  [i \in DOMAIN b |-> IF i <= ch.to - ch.from THEN Unit(ch.msg, ch.from + i) ELSE b[i]]

\* Buffer b with the data of chunk ch written from position index on.
Fill(b, index, ch) ==
  [i \in DOMAIN b |-> IF i > index /\ i <= index + ch.to - ch.from
                      THEN Unit(ch.msg, ch.from + i - index) ELSE b[i]]

\* The buffers once chunk ch is read into buffer buf, a new one perhaps, of cs.
Written(cs, ch, buf) ==
  LET blank == [i \in 1..cs.len |-> Unit(0, 0)]
      grown == IF buf > Len(mem) THEN Append(mem, blank) ELSE mem IN
  IF buf = 0 THEN mem
  ELSE [grown EXCEPT ![buf] = Fill(@, cs.index - (ch.to - ch.from), ch)]

-----------------------------------------------------------------------------
Init ==
  /\ sender \in Senders
  /\ msgs = <<>> /\ chunkSize = FirstSize
  /\ out = [c \in Csids |-> 0] /\ left = [c \in Csids |-> 0]
  /\ prev = [c \in Csids |-> [fmt |-> 3, ts |-> 0, delta |-> 0, len |-> 0, kind |-> "none"]]
  /\ wire = <<>>
  /\ chunks = [c \in Csids |-> NewChunkStream]
  /\ mem = <<>>
  /\ remoteChunkSize = FirstSize /\ remoteWindowAckSize = Window
  /\ delivered = <<>>
  /\ desync = FALSE
  /\ ackReceived = 0 /\ ackBuffered = 0
  /\ unacked = 0

\* fmt and delta are what its header has; size and window are those that SetChunkSize
\* and WindowAckSize set.
Message(kind, len, ts, fmt, delta, size, window) ==
  [csid |-> CsidOf(kind), kind |-> kind, len |-> len, ts |-> ts, fmt |-> fmt, delta |-> delta,
   size |-> size, window |-> window]

\* A message of the protocol is short and has no time; the others set nothing.
WellFormed(kind, len, ts, size, window) ==
  /\ kind \in Control => len = 1 /\ ts = 0
  /\ kind # "size" => size = chunkSize
  /\ kind # "window" => window = Window

\* RtmpConn.Write: SetChunkSize takes effect before it is itself written.  An empty
\* message would not be written at all; the program sends none.
Write(kind, len, ts, size, window) ==
  LET m == Message(kind, len, ts, 0, 0, size, window)
      cut == IF kind = "size" THEN size ELSE chunkSize IN
  /\ sender = "own"
  /\ Len(msgs) < MaxMsgs /\ Len(wire) <= MaxWire
  /\ len > 0
  /\ WellFormed(kind, len, ts, size, window)
  /\ msgs' = Append(msgs, m)
  /\ chunkSize' = cut
  /\ wire' = wire \o writeChunk(Len(msgs) + 1, m, cut)
  /\ unacked' = unacked + len
  /\ UNCHANGED <<sender, out, left, prev, readVars>>

\* The header a peer sends: format fmt, timestamp or delta ts, no extended timestamp.
PeerHeader(fmt, m, ts) ==
  [basic |-> BasicHeader(fmt, m.csid), header |-> MessageHeader(fmt, m, ts), ext |-> <<>>]

\* The window that the peer keeps to: the one it has set last.
PeerWindow ==
  LET set == {n \in DOMAIN msgs : msgs[n].kind = "window"} IN
  IF set = {} THEN Window ELSE msgs[CHOOSE n \in set : \A k \in set : k <= n].window

\* External: a peer begins a message and sends its first chunk.  It leaves out what the
\* header before has said, but begins none with fmt 3 right behind fmt 0, a form that
\* the description in chunk_stream.go has for the rest of a message only.  It begins
\* none while a window of units is unacknowledged.
PeerBegin(kind, len, ts, fmt, size, window) ==
  LET c == CsidOf(kind)
      p == prev[c]
      delta == IF fmt = 0 THEN 0 ELSE ts - p.ts
      m == Message(kind, len, ts, fmt, delta, size, window)
      n == Least(len, chunkSize) IN
  /\ sender = "peer"
  /\ Len(msgs) < MaxMsgs /\ Len(wire) <= MaxWire
  /\ unacked < PeerWindow
  /\ out[c] = 0
  /\ ts < ExtTs
  /\ WellFormed(kind, len, ts, size, window)
  /\ fmt # 0 => p.kind # "none" /\ ts >= p.ts
  /\ fmt \in {2, 3} => p.len = len /\ p.kind = kind
  /\ fmt = 3 => p.fmt # 0 /\ delta = p.delta
  /\ msgs' = Append(msgs, m)
  /\ wire' = Append(wire, Chunk(PeerHeader(fmt, m, IF fmt = 0 THEN ts ELSE delta),
                                Len(msgs) + 1, 0, n))
  /\ left' = [left EXCEPT ![c] = len - n]
  /\ out' = [out EXCEPT ![c] = IF n = len THEN 0 ELSE Len(msgs) + 1]
  /\ prev' = [prev EXCEPT ![c] =
       [fmt |-> fmt, ts |-> ts, delta |-> delta, len |-> len, kind |-> kind]]
  /\ chunkSize' = IF kind = "size" THEN size ELSE chunkSize
  /\ unacked' = unacked + len
  /\ UNCHANGED <<sender, readVars>>

\* External: a peer sends the next chunk of a message it has begun.
PeerContinue(c) ==
  LET m == msgs[out[c]]
      from == m.len - left[c]
      n == Least(left[c], chunkSize) IN
  /\ out[c] # 0
  /\ Len(wire) <= MaxWire
  /\ wire' = Append(wire, Chunk(PeerHeader(3, m, 0), out[c], from, from + n))
  /\ left' = [left EXCEPT ![c] = @ - n]
  /\ out' = [out EXCEPT ![c] = IF n = left[c] THEN 0 ELSE @]
  /\ UNCHANGED <<sender, msgs, chunkSize, prev, readVars, unacked>>

\* The message that data is of, whose first unit has what it sets.
MsgOf(data) == msgs[data[1].msg]

\* Mutant of handleControlMsg: SetChunkSize is ignored.
handleControlMsgIgnored(cs, data) ==
  /\ remoteWindowAckSize' = IF cs.kind = "window" THEN MsgOf(data).window ELSE remoteWindowAckSize
  /\ UNCHANGED remoteChunkSize

\* handleControlMsg: what the messages of the protocol set.  (An abort of a message that
\* has begun is passed over as well; no peer here sends one.)
handleControlMsg(cs, data) ==
  /\ remoteChunkSize' = IF cs.kind = "size" THEN MsgOf(data).size ELSE remoteChunkSize
  /\ remoteWindowAckSize' = IF cs.kind = "window" THEN MsgOf(data).window ELSE remoteWindowAckSize

\* Mutant of ack: it looks at the window that was in force before the message.
ackStaleWindow(size) ==
  LET n == ackReceived + size IN
  /\ ackReceived' = IF n >= remoteWindowAckSize THEN 0 ELSE n
  /\ ackBuffered' = IF n >= remoteWindowAckSize THEN ackBuffered + n ELSE ackBuffered

\* ack, after handleControlMsg: past the window, write an acknowledgement (and do not
\* flush it).
ack(size) ==
  LET n == ackReceived + size IN
  /\ ackReceived' = IF n >= remoteWindowAckSize' THEN 0 ELSE n
  /\ ackBuffered' = IF n >= remoteWindowAckSize' THEN ackBuffered + n ELSE ackBuffered

\* An iteration of RtmpConn.Read: a chunk, and a message when it is the last one.
\* The model ends where the reader takes something else for the parts of a chunk.
Read ==
  /\ wire # <<>> /\ ~desync
  /\ \E ch \in {Head(wire)} :
     LET c == ReadBasic(ch.basic) IN
     \E r \in {readChunk(chunks[c], ch.basic.fmt, ch, remoteChunkSize)} :
     LET buf == Buffer(r.cs, r.fresh)
         cs == [r.cs EXCEPT !.buf = buf] IN
     \E filled \in {Written(cs, ch, buf)} :
     LET data == IF buf = 0 THEN <<>> ELSE SubSeq(filled[buf], 1, cs.len) IN
     IF r.ok
     THEN /\ wire' = Tail(wire)
          /\ chunks' = [chunks EXCEPT ![c] = cs]
          /\ mem' = filled
          /\ IF cs.complete
             THEN /\ handleControlMsg(cs, data)
                  /\ ack(cs.len)
                  /\ delivered' = IF cs.kind \in Control THEN delivered
                       ELSE Append(delivered, [csid |-> c, kind |-> cs.kind, len |-> cs.len,
                                               ts |-> cs.ts, pts |-> cs.pts, buf |-> buf,
                                               data |-> data, msg |-> cs.msg])
             ELSE UNCHANGED <<remoteChunkSize, remoteWindowAckSize, ackReceived, ackBuffered,
                              delivered>>
          /\ UNCHANGED desync
     ELSE /\ desync' = TRUE
          /\ UNCHANGED <<wire, chunks, mem, remoteChunkSize, remoteWindowAckSize, delivered,
                         ackReceived, ackBuffered>>
  /\ UNCHANGED <<sendVars, unacked>>

\* A message to the peer is flushed and takes the acknowledgements with it; nothing
\* makes one go.
Flush ==
  /\ ackBuffered > 0
  /\ unacked' = unacked - ackBuffered
  /\ ackBuffered' = 0
  /\ UNCHANGED <<sendVars, wire, chunks, mem, remoteChunkSize, remoteWindowAckSize, delivered,
                 desync, ackReceived>>

Next ==
  \/ \E kind \in Kinds, len \in Lens, ts \in 0..MaxTs, size \in ChunkSizes, window \in Windows :
       \/ Write(kind, len, ts, size, window)
       \/ \E fmt \in 0..3 : PeerBegin(kind, len, ts, fmt, size, window)
  \/ \E c \in Csids : PeerContinue(c)
  \/ Read \/ Flush

Spec == Init /\ [][Next]_vars

(***************************************************************************)
(* Fairness.  The reading goroutine always reads on, and a peer finishes   *)
(* the message it has begun.                                               *)
(***************************************************************************)
FairSpec ==
  /\ Spec
  /\ WF_vars(Read)
  /\ \A c \in Csids : WF_vars(PeerContinue(c))

-----------------------------------------------------------------------------
(* Properties *)

\* Every variable keeps its type.
TypeOK ==
  /\ sender \in Senders /\ desync \in BOOLEAN
  /\ {chunkSize, remoteChunkSize} \subseteq ChunkSizes /\ remoteWindowAckSize \in Windows
  /\ out \in [Csids -> 0..MaxMsgs] /\ left \in [Csids -> 0..MaxLen]
  /\ \A c \in Csids : chunks[c].index + chunks[c].remain <= MaxLen
  /\ {ackReceived, ackBuffered, unacked} \subseteq Nat

\* The reader never takes one part of a chunk for another: it agrees with the
\* sender on where every chunk ends, whatever is interleaved and whenever the
\* chunk size changes.
Framed == ~desync

\* Units 1 .. len of message number n.
Data(n, len) == [i \in 1..len |-> Unit(n, i)]

\* What was received when Read returned d: a message of d's chunk stream, whole and of
\* its kind, or none.
AsRead(d) ==
  LET m == msgs[d.msg] IN
  [chan |-> d.csid,
   num |-> IF d.kind = m.kind /\ d.data = Data(d.msg, m.len) THEN d.msg ELSE 0]

\* The messages that Read is still to return.
Unread ==
  {n \in DOMAIN msgs : msgs[n].kind \notin Control /\ \A i \in DOMAIN delivered : delivered[i].msg # n}

Channel == INSTANCE MessageChannel WITH
  Channels <- {CsidOf(kind) : kind \in Kinds \ Control},
  Messages <- 1..MaxMsgs,
  pending <- {[chan |-> msgs[n].csid, num |-> n] : n \in Unread},
  received <- [i \in DOMAIN delivered |-> AsRead(delivered[i])]

\* The chunk layer implements MessageChannel: with chunks interleaved, headers left
\* out and chunk sizes changing, every chunk stream is a queue of whole messages,
\* and what is sent is read in the end.
ImplementsChannel == Channel!Spec

\* readChunk works out the time of every message, from deltas too.
PtsRight == \A i \in DOMAIN delivered : delivered[i].pts = msgs[delivered[i].msg].ts

\* The data of a message stays what Read returned until a later message of the
\* same chunk stream begins (its buffer is used again from then on).
DataStable ==
  \A i \in DOMAIN delivered :
    LET d == delivered[i] IN
    /\ d.len > 0
    /\ \A j \in (i + 1)..Len(delivered) : delivered[j].csid # d.csid
    /\ chunks[d.csid].remain = 0
    => SubSeq(mem[d.buf], 1, d.len) = d.data

\* Acknowledgements account for what was received: a window that is full is
\* acknowledged at once, also one that was full when the peer made it smaller, and
\* once everything sent is read, what the peer has open is what has been counted.
AckAccounts ==
  /\ ackReceived < remoteWindowAckSize
  /\ wire = <<>> /\ ~desync /\ (\A c \in Csids : out[c] = 0) =>
       unacked = ackReceived + ackBuffered

\* What the description of fmt 3 says: timestamps follow from the deltas.
Timestamps == \A i \in DOMAIN delivered : delivered[i].ts = msgs[delivered[i].msg].ts
=============================================================================
