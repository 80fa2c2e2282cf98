-------------------------- MODULE RtmpChannelProofs --------------------------
(***************************************************************************)
(* The chunk layer implements the steps of MessageChannel: beginning a     *)
(* message sends it, reading its last chunk receives it, and every other   *)
(* step leaves the channel as it is.  The argument is the invariant of     *)
(* RtmpConnProofs: on a chunk stream, Read has returned exactly the        *)
(* messages that were read to the end (DeliveredOK), in the order of their *)
(* numbers.                                                                *)
(***************************************************************************)
EXTENDS RtmpConnProofs

-----------------------------------------------------------------------------
(* The channel, of the messages ms and what was returned dl *)

Entry(c, n) == [chan |-> c, num |-> n]

ToRead(ms, dl) ==
  {n \in 1..Len(ms) : ms[n].kind \notin Control /\ \A i \in 1..Len(dl) : dl[i].msg # n}

PendingOf(ms, dl) == {Entry(ms[n].csid, n) : n \in ToRead(ms, dl)}

ReceivedOf(dl) == [i \in 1..Len(dl) |-> Entry(dl[i].csid, dl[i].msg)]

Pending == {[chan |-> msgs[n].csid, num |-> n] : n \in Unread}
Received == [i \in DOMAIN delivered |-> AsRead(delivered[i])]

\* In a state of the invariant these are the variables of the channel.
LEMMA ChannelIs ==
  Inv => Pending = PendingOf(msgs, delivered) /\ Received = ReceivedOf(delivered)
<1> SUFFICES ASSUME Inv
             PROVE  Pending = PendingOf(msgs, delivered) /\ Received = ReceivedOf(delivered)
  OBVIOUS
<1>1. DOMAIN msgs = 1..Len(msgs) /\ DOMAIN delivered = 1..Len(delivered) /\ DeliveredOK
  BY DEF Inv, TypeInv
<1>2. Unread = ToRead(msgs, delivered)
  BY <1>1 DEF Unread, ToRead
<1>3. Pending = PendingOf(msgs, delivered)
  BY <1>2 DEF Pending, PendingOf, Entry
<1>4. ASSUME NEW i \in 1..Len(delivered)
      PROVE  AsRead(delivered[i]) = Entry(delivered[i].csid, delivered[i].msg)
  <2>1. ReturnedOK(msgs, chunks, delivered[i])
    BY <1>1 DEF DeliveredOK
  <2> QED  BY <2>1 DEF ReturnedOK, AsRead, Entry
<1>5. Received = ReceivedOf(delivered)
  BY <1>1, <1>4 DEF Received, ReceivedOf
<1> QED  BY <1>3, <1>5

\* A message begun is sent on the channel, with a number greater than all before it;
\* SetChunkSize is none of the channel's messages.
LEMMA SendIs ==
  ASSUME Inv, NEW m \in MessageRec, msgs' = Append(msgs, m), delivered' = delivered
  PROVE  LET n == Len(msgs) + 1 IN
         /\ m.kind \in Control => PendingOf(msgs', delivered') = PendingOf(msgs, delivered)
         /\ m.kind \notin Control =>
              PendingOf(msgs', delivered') = PendingOf(msgs, delivered) \cup {Entry(m.csid, n)}
         /\ \A p \in PendingOf(msgs, delivered) : p.num < n
         /\ \A i \in 1..Len(delivered) : ReceivedOf(delivered)[i].num < n
<1> DEFINE L == Len(msgs)
<1> DEFINE n == L + 1
<1> DEFINE old == ToRead(msgs, delivered)
<1> DEFINE new == ToRead(msgs', delivered')
<1>1. /\ L \in Nat /\ Len(msgs') = n /\ msgs'[n] = m /\ \A k \in 1..L : msgs'[k] = msgs[k]
  BY NewMessage DEF Inv
<1>2. \A i \in 1..Len(delivered) : delivered[i].msg \in 1..L
  BY DEF Inv, DeliveredOK, ReturnedOK
<1> HIDE DEF L
<1>3. \A k \in 1..n : k \in 1..L \/ k = n
  BY <1>1
<1>4. n \in 1..n /\ n \notin 1..L /\ \A k \in 1..L : k \in 1..n /\ k < n
  BY <1>1
<1>5. \A i \in 1..Len(delivered) : delivered[i].msg # n
  BY <1>2, <1>4
<1>6. ToRead(msgs, delivered) = {k \in 1..L : msgs[k].kind \notin Control
                                   /\ \A i \in 1..Len(delivered) : delivered[i].msg # k}
  BY DEF ToRead, L
<1>7. ToRead(msgs', delivered') = {k \in 1..n : msgs'[k].kind \notin Control
                                   /\ \A i \in 1..Len(delivered) : delivered[i].msg # k}
  BY <1>1 DEF ToRead
<1>8. m.kind \in Control => new = old
  BY <1>1, <1>3, <1>4, <1>6, <1>7
<1>9. m.kind \notin Control => new = old \cup {n}
  BY <1>1, <1>3, <1>4, <1>5, <1>6, <1>7
<1>10. old \subseteq 1..L
  BY <1>6
<1> HIDE DEF n, old, new
<1>11. \A k \in old : msgs'[k] = msgs[k]
  BY <1>1, <1>10
<1>12. PendingOf(msgs, delivered) = {Entry(msgs[k].csid, k) : k \in old}
  BY DEF PendingOf, old
<1>13. PendingOf(msgs', delivered') = {Entry(msgs'[k].csid, k) : k \in new}
  BY DEF PendingOf, new
<1>14. m.kind \in Control => PendingOf(msgs', delivered') = PendingOf(msgs, delivered)
  BY <1>8, <1>11, <1>12, <1>13
<1>15. m.kind \notin Control =>
         PendingOf(msgs', delivered') = PendingOf(msgs, delivered) \cup {Entry(m.csid, n)}
  <2> DEFINE f(k) == Entry(msgs'[k].csid, k)
  <2>1. {Entry(msgs[k].csid, k) : k \in old} = {f(k) : k \in old}
    BY <1>11
  <2>2. f(n) = Entry(m.csid, n)
    BY <1>1
  <2> HIDE DEF f
  <2>3. {f(k) : k \in old \cup {n}} = {f(k) : k \in old} \cup {f(n)}
    OBVIOUS
  <2>4. m.kind \notin Control => PendingOf(msgs', delivered') = {f(k) : k \in old \cup {n}}
    BY <1>9, <1>13 DEF f
  <2> QED  BY <1>12, <2>1, <2>2, <2>3, <2>4
<1>16. \A p \in PendingOf(msgs, delivered) : p.num < n
  BY <1>4, <1>10, <1>12 DEF Entry
<1>17. \A i \in 1..Len(delivered) : ReceivedOf(delivered)[i].num < n
  BY <1>2, <1>4 DEF ReceivedOf, Entry
<1> QED  BY <1>14, <1>15, <1>16, <1>17 DEF n, L

\* Reading the last chunk of a message, and only that, receives it from the channel,
\* where it is the first of its chunk stream.
LEMMA ReceiveIs ==
  ASSUME Inv, NEW c \in Csids, NEW ch \in ChunkRec, NEW cs \in StreamRec, ReadAs(c, ch, cs)
  PROVE  LET n == ch.msg IN
         \/ delivered' = delivered
         \/ /\ Entry(c, n) \in PendingOf(msgs, delivered)
            /\ \A q \in PendingOf(msgs, delivered) : q.chan = c => n <= q.num
            /\ ReceivedOf(delivered') = Append(ReceivedOf(delivered), Entry(c, n))
            /\ PendingOf(msgs', delivered') = PendingOf(msgs, delivered) \ {Entry(c, n)}
<1> DEFINE n == ch.msg
<1> DEFINE m == msgs[n]
<1> DEFINE a == chunks[c]
<1> DEFINE e == [csid |-> c, kind |-> m.kind, len |-> m.len, ts |-> cs.ts, pts |-> m.ts,
                 buf |-> cs.buf, data |-> Data(n, m.len), msg |-> n]
<1>1. /\ n \in 1..Len(msgs) /\ m.csid = c
      /\ IF ch.from = 0
         THEN a.remain = 0 /\ a.msg < n /\ \A k \in (a.msg + 1)..(n - 1) : msgs[k].csid # c
         ELSE a.remain # 0 /\ a.msg = n
      /\ ch.to = m.len /\ m.kind \notin Control => delivered' = Append(delivered, e)
      /\ ~(ch.to = m.len /\ m.kind \notin Control) => delivered' = delivered
      /\ UNCHANGED sendVars
  <2>1. ReadAs(c, ch, cs)
    OBVIOUS
  <2> QED  BY <2>1 DEF ReadAs
<1>2. /\ msgs' = msgs /\ chunks \in [Csids -> StreamRec] /\ delivered \in Seq(DeliveredRec)
      /\ Len(delivered) \in Nat /\ msgs \in Seq(MessageRec) /\ Len(msgs) \in Nat /\ DeliveredOK
  BY <1>1 DEF Inv, TypeInv, sendVars
<1>3. n \in Nat /\ a.msg \in Nat
  <2>1. a \in StreamRec
    BY <1>2
  <2>2. a.msg \in Nat
    BY ONLY <2>1 DEF StreamRec
  <2>3. n \in Nat
    BY ONLY <1>1, <1>2
  <2> QED  BY <2>2, <2>3
<1>4. CASE ~(ch.to = m.len /\ m.kind \notin Control)
  BY <1>1, <1>4
<1>5. CASE ch.to = m.len /\ m.kind \notin Control
  <2> DEFINE L == Len(delivered)
  <2> DEFINE d2 == delivered'
  <2>1. delivered' = Append(delivered, e) /\ e.csid = c /\ e.msg = n
    BY <1>1, <1>5
  <2> HIDE DEF e
  <2>2. /\ L \in Nat /\ Len(d2) = L + 1 /\ d2[L + 1] = e /\ \A i \in 1..L : d2[i] = delivered[i]
    BY <1>2, <2>1
  <2>3. ASSUME NEW k \in 1..Len(msgs), msgs[k].csid = c
        PROVE  Done(msgs, chunks, k) <=> k < n
    <3>1. Done(msgs, chunks, k) <=> (k < a.msg \/ (k = a.msg /\ a.remain = 0))
      BY <2>3 DEF Done
    <3>2. CASE ch.from = 0
      <4>1. a.remain = 0 /\ a.msg < n /\ \A j \in (a.msg + 1)..(n - 1) : msgs[j].csid # c
        BY <1>1, <3>2
      <4>2. k < n => k <= a.msg
        <5> SUFFICES ASSUME k < n, ~(k <= a.msg)  PROVE FALSE
          BY <1>3
        <5>1. k \in (a.msg + 1)..(n - 1)
          BY <1>3
        <5> QED  BY <2>3, <4>1, <5>1
      <4> HIDE DEF n, a
      <4> QED  BY <1>3, <3>1, <4>1, <4>2
    <3>3. CASE ch.from # 0
      BY <1>1, <3>1, <3>3
    <3> QED  BY <3>2, <3>3
  <2>4. ASSUME NEW i \in 1..L  PROVE delivered[i].msg # n
    <3>1. ReturnedOK(msgs, chunks, delivered[i])
      BY <1>2 DEF DeliveredOK
    <3>2. Done(msgs, chunks, delivered[i].msg) /\ delivered[i].msg \in 1..Len(msgs)
      BY <3>1 DEF ReturnedOK
    <3>3. ~Done(msgs, chunks, n)
      BY <1>1, <1>3, <2>3
    <3> QED  BY <3>2, <3>3
  <2> HIDE DEF L, d2, n
  <2>5. n \in ToRead(msgs, delivered)
    BY <1>1, <1>5, <2>4 DEF ToRead, L, n
  <2>6. Entry(c, n) \in PendingOf(msgs, delivered)
    BY <1>1, <2>5 DEF PendingOf, n
  <2>7. ASSUME NEW q \in PendingOf(msgs, delivered), q.chan = c  PROVE n <= q.num
    <3>1. PICK k \in ToRead(msgs, delivered) : q = Entry(msgs[k].csid, k)
      BY DEF PendingOf
    <3>2. k \in 1..Len(msgs) /\ msgs[k].kind \notin Control /\ \A i \in 1..L : delivered[i].msg # k
      BY <3>1 DEF ToRead, L
    <3>3. msgs[k].csid = c /\ q.num = k
      BY <2>7, <3>1 DEF Entry
    <3>4. ~Done(msgs, chunks, k)
      BY <1>2, <3>2 DEF DeliveredOK, L
    <3>5. ~(k < n)
      BY <2>3, <3>2, <3>3, <3>4
    <3> QED  BY <1>3, <3>2, <3>3, <3>5
  <2>8. ReceivedOf(d2) = Append(ReceivedOf(delivered), Entry(c, n))
    <3> DEFINE r == ReceivedOf(delivered)
    <3> DEFINE x == Entry(c, n)
    <3>1. r = [i \in 1..L |-> Entry(delivered[i].csid, delivered[i].msg)]
      BY DEF ReceivedOf, L
    <3>2. ReceivedOf(d2) = [i \in 1..(L + 1) |-> Entry(d2[i].csid, d2[i].msg)]
      BY <2>2 DEF ReceivedOf
    <3>3. \A i \in 1..L : Entry(d2[i].csid, d2[i].msg) = r[i]
      BY <2>2, <3>1
    <3>4. Entry(d2[L + 1].csid, d2[L + 1].msg) = x
      BY <2>1, <2>2
    <3>5. Len(r) = L /\ r \in Seq({r[i] : i \in 1..L} \cup {x})
      BY <2>2, <3>1
    <3> HIDE DEF r, x
    <3>6. Append(r, x) = [i \in 1..(L + 1) |-> IF i = L + 1 THEN x ELSE r[i]]
      <4> DEFINE S == {r[i] : i \in 1..L} \cup {x}
      <4> DEFINE u == Append(r, x)
      <4>1. r \in Seq(S) /\ x \in S
        BY <3>5
      <4> HIDE DEF S
      <4>2. u \in Seq(S) /\ Len(u) = L + 1 /\ u[L + 1] = x /\ \A i \in 1..L : u[i] = r[i]
        BY <3>5, <4>1, AppendIs
      <4> HIDE DEF u
      <4>3. u = [i \in 1..(L + 1) |-> u[i]]
        BY <2>2, <4>2
      <4>4. \A i \in 1..(L + 1) : u[i] = IF i = L + 1 THEN x ELSE r[i]
        BY <2>2, <4>2
      <4> QED  BY <4>3, <4>4 DEF u
    <3>7. \A i \in 1..(L + 1) : i = L + 1 \/ i \in 1..L
      BY <2>2
    <3>8. ReceivedOf(d2) = Append(r, x)
      BY <3>2, <3>3, <3>4, <3>6, <3>7
    <3> QED  BY <3>8 DEF r, x
  <2>9. PendingOf(msgs', d2) = PendingOf(msgs, delivered) \ {Entry(c, n)}
    <3>1. \A k : (\A i \in 1..(L + 1) : d2[i].msg # k) <=> (k # n /\ \A i \in 1..L : delivered[i].msg # k)
      <4>1. \A i \in 1..(L + 1) : i = L + 1 \/ i \in 1..L
        BY <2>2
      <4>2. L + 1 \in 1..(L + 1) /\ \A i \in 1..L : i \in 1..(L + 1)
        BY <2>2
      <4> QED  BY <2>1, <2>2, <4>1, <4>2
    <3>2. ToRead(msgs', d2) = ToRead(msgs, delivered) \ {n}
      <4> DEFINE Media == {k \in 1..Len(msgs) : msgs[k].kind \notin Control}
      <4>1. /\ ToRead(msgs', d2) = {k \in Media : \A i \in 1..(L + 1) : d2[i].msg # k}
            /\ ToRead(msgs, delivered) = {k \in Media : \A i \in 1..L : delivered[i].msg # k}
        BY <1>2, <2>2 DEF ToRead, L
      <4> HIDE DEF Media
      <4> QED  BY ONLY <3>1, <4>1
    <3>3. PendingOf(msgs', d2) = {Entry(msgs[k].csid, k) : k \in ToRead(msgs, delivered) \ {n}}
      BY <1>2, <3>2 DEF PendingOf
    <3>4. \A k \in ToRead(msgs, delivered) : Entry(msgs[k].csid, k) = Entry(c, n) <=> k = n
      BY <1>1 DEF Entry, n
    <3> QED  BY <3>3, <3>4 DEF PendingOf
  <2> QED  BY <2>6, <2>7, <2>8, <2>9 DEF n, d2
<1> QED  BY <1>4, <1>5

-----------------------------------------------------------------------------
(* The refinement *)

\* In a state of the invariant a message that is begun is a step of the channel.
LEMMA Sent ==
  ASSUME Inv, Inv', NEW kind \in Kinds, NEW m \in MessageRec, m.kind = kind, m.csid = CsidOf(kind),
         Len(msgs) < MaxMsgs, msgs' = Append(msgs, m), delivered' = delivered
  PROVE  [Channel!Next]_(Channel!vars)
<1> DEFINE c == CsidOf(kind)
<1> DEFINE n == Len(msgs) + 1
<1>1. Pending = PendingOf(msgs, delivered) /\ Received = ReceivedOf(delivered)
  BY ChannelIs
<1>2. Pending' = PendingOf(msgs', delivered') /\ Received' = ReceivedOf(delivered')
  <2>1. (Inv => Pending = PendingOf(msgs, delivered) /\ Received = ReceivedOf(delivered))'
    BY ChannelIs, PTL
  <2> QED  BY <2>1
<1>3. Received' = Received
  BY <1>1, <1>2
<1>4. CASE kind \in Control
  <2>1. Pending' = Pending
    BY <1>1, <1>2, <1>4, SendIs
  <2> QED  BY <1>3, <2>1 DEF Channel!vars, Pending, Received
<1>5. CASE kind \notin Control
  <2>1. /\ Pending' = Pending \cup {[chan |-> c, num |-> n]}
        /\ \A p \in Pending : p.num < n
        /\ \A i \in 1..Len(delivered) : Received[i].num < n
    BY <1>1, <1>2, <1>5, SendIs DEF Entry
  <2>2. DOMAIN Received = 1..Len(delivered)
    BY <1>1 DEF ReceivedOf
  <2>3. n \in 1..MaxMsgs
    <3>1. Len(msgs) \in Nat
      BY DEF Inv, TypeInv
    <3> QED  BY <3>1, Constants
  <2>4. c \in {CsidOf(k) : k \in Kinds \ Control}
    BY <1>5
  <2>5. Channel!Send(c)
    BY <1>3, <2>1, <2>2, <2>3 DEF Channel!Send, Pending, Received
  <2> QED  BY <2>4, <2>5 DEF Channel!Next
<1> QED  BY <1>4, <1>5

\* Every step of the chunk layer is a step of the channel or leaves it as it is.
LEMMA ChannelStep ==
  ASSUME MaxTs < ExtTs, Inv, Inv', [Next]_vars
  PROVE  [Channel!Next]_(Channel!vars)
<1>1. Pending = PendingOf(msgs, delivered) /\ Received = ReceivedOf(delivered)
  BY ChannelIs
<1>2. Pending' = PendingOf(msgs', delivered') /\ Received' = ReceivedOf(delivered')
  <2>1. (Inv => Pending = PendingOf(msgs, delivered) /\ Received = ReceivedOf(delivered))'
    BY ChannelIs, PTL
  <2> QED  BY <2>1
<1>3. ASSUME msgs' = msgs, delivered' = delivered
      PROVE  [Channel!Next]_(Channel!vars)
  BY <1>1, <1>2, <1>3 DEF Channel!vars, Pending, Received
<1>4. CASE UNCHANGED vars
  BY <1>3, <1>4 DEF vars, sendVars, readVars
<1>5. ASSUME NEW kind \in Kinds, NEW len \in Lens, NEW ts \in 0..MaxTs, NEW size \in ChunkSizes,
             NEW window \in Windows, Write(kind, len, ts, size, window)
      PROVE  [Channel!Next]_(Channel!vars)
  <2> DEFINE m == Message(kind, len, ts, 0, 0, size, window)
  <2>1. Len(msgs) < MaxMsgs /\ msgs' = Append(msgs, m) /\ delivered' = delivered
    BY <1>5 DEF Write, readVars
  <2>2. m \in MessageRec /\ m.kind = kind /\ m.csid = CsidOf(kind)
    BY CsidIs, Constants DEF Message, MessageRec
  <2> QED  BY <2>1, <2>2, Sent
<1>6. ASSUME NEW kind \in Kinds, NEW len \in Lens, NEW ts \in 0..MaxTs, NEW size \in ChunkSizes,
             NEW window \in Windows, NEW fmt \in 0..3, PeerBegin(kind, len, ts, fmt, size, window)
      PROVE  [Channel!Next]_(Channel!vars)
  <2> DEFINE c == CsidOf(kind)
  <2> DEFINE delta == IF fmt = 0 THEN 0 ELSE ts - prev[c].ts
  <2> DEFINE m == Message(kind, len, ts, fmt, delta, size, window)
  <2>1. /\ Len(msgs) < MaxMsgs /\ msgs' = Append(msgs, m) /\ delivered' = delivered
        /\ fmt # 0 => ts >= prev[c].ts
    BY <1>6 DEF PeerBegin, readVars
  <2>2. m.kind = kind /\ m.csid = c
    BY DEF Message
  <2>3. delta \in Nat
    <3>1. prev[c] \in HeaderRec /\ c \in Csids
      BY CsidIs DEF Inv, TypeInv
    <3>2. prev[c].ts \in Nat
      BY <3>1 DEF HeaderRec
    <3> QED  BY <2>1, <3>2, Constants
  <2>4. m \in MessageRec
    <3> HIDE DEF delta
    <3> QED  BY <2>3, CsidIs, Constants DEF Message, MessageRec
  <2> HIDE DEF m
  <2> QED  BY <2>1, <2>2, <2>4, Sent
<1>7. ASSUME NEW c \in Csids, PeerContinue(c)
      PROVE  [Channel!Next]_(Channel!vars)
  BY <1>3, <1>7 DEF PeerContinue, readVars
<1>8. CASE Read
  <2>1. PICK c \in Csids, ch \in ChunkRec, cs \in StreamRec : ReadAs(c, ch, cs)
    BY <1>8, ReadIs
  <2> DEFINE n == ch.msg
  <2> DEFINE p == Entry(c, n)
  <2>2. msgs' = msgs /\ n \in 1..Len(msgs) /\ msgs[n].csid = c
    BY <2>1 DEF ReadAs, sendVars
  <2>3. CASE delivered' = delivered
    BY <1>3, <2>2, <2>3
  <2>4. CASE delivered' # delivered
    <3>1. /\ p \in PendingOf(msgs, delivered)
          /\ \A q \in PendingOf(msgs, delivered) : q.chan = c => n <= q.num
          /\ ReceivedOf(delivered') = Append(ReceivedOf(delivered), p)
          /\ PendingOf(msgs', delivered') = PendingOf(msgs, delivered) \ {p}
      BY <2>1, <2>4, ReceiveIs
    <3>2. p.chan = c /\ p.num = n
      BY DEF Entry
    <3>3. n \in ToRead(msgs, delivered)
      <4>1. PICK k \in ToRead(msgs, delivered) : p = Entry(msgs[k].csid, k)
        BY <3>1 DEF PendingOf
      <4> QED  BY <4>1 DEF Entry
    <3>4. c \in {CsidOf(k) : k \in Kinds \ Control}
      <4>1. msgs[n] \in MessageRec /\ MsgOK(msgs, n)
        <5>1. msgs \in Seq(MessageRec) /\ MsgsOK
          BY DEF Inv, TypeInv
        <5> QED  BY ONLY <2>2, <5>1 DEF MsgsOK
      <4>2. msgs[n].kind \in Kinds \ Control /\ c = CsidOf(msgs[n].kind)
        BY <2>2, <3>3, <4>1 DEF MessageRec, MsgOK, ToRead
      <4> QED  BY <4>2
    <3> HIDE DEF p
    <3>5. /\ p \in Pending /\ p.chan = c /\ \A q \in Pending : q.chan = c => p.num <= q.num
          /\ Received' = Append(Received, p) /\ Pending' = Pending \ {p}
      BY <1>1, <1>2, <3>1, <3>2
    <3>6. Channel!Receive(c)
      BY <3>5 DEF Channel!Receive, Pending, Received
    <3> QED  BY <3>4, <3>6 DEF Channel!Next
  <2> QED  BY <2>3, <2>4
<1>9. CASE Flush
  BY <1>3, <1>9 DEF Flush, sendVars
<1> QED  BY <1>4, <1>5, <1>6, <1>7, <1>8, <1>9 DEF Next

\* The steps of the chunk layer implement the channel: every chunk stream is a queue of
\* whole messages, each received once, as it was sent and in the order of sending
\* (RtmpConn.Read, Write), however chunks are interleaved, headers shortened and chunk
\* sizes changed.
THEOREM ChannelCorrect ==
  ASSUME MaxTs < ExtTs
  PROVE  Spec => Channel!Init /\ [][Channel!Next]_(Channel!vars)
<1>1. Init => Channel!Init
  <2> SUFFICES ASSUME Init  PROVE Channel!Init
    OBVIOUS
  <2>1. msgs = <<>> /\ delivered = <<>>
    BY DEF Init
  <2>2. Pending = {}
    BY <2>1 DEF Pending, Unread
  <2>3. Received = <<>>
    BY <2>1 DEF Received
  <2> QED  BY <2>2, <2>3 DEF Channel!Init, Pending, Received
<1>2. Inv /\ Inv' /\ [Next]_vars => [Channel!Next]_(Channel!vars)
  BY ChannelStep
<1> QED  BY <1>1, <1>2, Invariance, PTL DEF Spec
=============================================================================
