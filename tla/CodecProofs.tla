---------------------------- MODULE CodecProofs ----------------------------
(***************************************************************************)
(* Proofs about the operators of Codec, for data of any length: Mux cuts   *)
(* the header and the data into full packets that give them back, with     *)
(* counters that go on (MuxWhole); pesHeader and adtsHeader say what they  *)
(* should (PesIs, AdtsIs); ParseNalusN stays inside its data unless a      *)
(* start code stands in front of its last bytes (NoPanic); what the        *)
(* parsers make is bytes.                                                  *)
(* A loop of the code is a function from the number of turns to the        *)
(* loop's state.  That such a recursive function exists, and takes one     *)
(* turn at a step, is LoopRuns; claims about all its turns are sets of     *)
(* numbers (NumberSet), which rest on the least element of a set (WFMin).  *)
(***************************************************************************)
EXTENDS Codec, TLAPS, WellFoundedInduction

-----------------------------------------------------------------------------
(* Induction *)

\* A set of numbers has a least one.
LEMMA LeastNumber ==
  ASSUME NEW T, T \subseteq Nat, T # {}
  PROVE  \E x \in T : \A y \in T : x <= y
<1> DEFINE R == {ss \in Nat \X Nat : ss[1] < ss[2]}
<1>1. IsWellFoundedOn(R, Nat)
  BY NatLessThanWellFounded DEF OpToRel
<1>2. PICK x \in T : \A y \in T : ~(<<y, x>> \in R)
  <2> HIDE DEF R
  <2> QED  BY <1>1, WFMin
<1>3. ASSUME NEW y \in T  PROVE x <= y
  <2>1. x \in Nat /\ y \in Nat /\ <<y, x>> \in Nat \X Nat
    OBVIOUS
  <2>2. ~(<<y, x>>[1] < <<y, x>>[2])
    BY <1>2, <2>1
  <2> QED  BY <2>1, <2>2
<1> QED  BY <1>3

\* Induction over the numbers: T is the set of those for which the claim holds.
LEMMA NumberSet ==
  ASSUME NEW T, 0 \in T, \A n \in Nat : n \in T => n + 1 \in T
  PROVE  Nat \subseteq T
<1> SUFFICES ASSUME NEW b \in Nat, b \notin T  PROVE FALSE
  OBVIOUS
<1> DEFINE B == {n \in Nat : n \notin T}
<1>1. PICK x \in B : \A y \in B : x <= y
  <2>1. B \subseteq Nat /\ B # {}
    OBVIOUS
  <2> HIDE DEF B
  <2> QED  BY <2>1, LeastNumber
<1>2. x # 0 /\ x - 1 \in Nat /\ x - 1 \notin B
  BY <1>1
<1> QED  BY <1>1, <1>2

\* The same for the numbers up to N: the turns of a loop.
LEMMA UpTo ==
  ASSUME NEW N \in Nat, NEW T, 0 \in T, \A k \in 1..N : k - 1 \in T => k \in T
  PROVE  \A k \in 0..N : k \in T
<1> DEFINE U == {n \in Nat : n <= N => n \in T}
<1>1. 0 \in U
  OBVIOUS
<1>2. ASSUME NEW n \in Nat, n \in U  PROVE n + 1 \in U
  <2>1. n + 1 \in Nat /\ (n + 1) - 1 = n
    OBVIOUS
  <2> SUFFICES ASSUME n + 1 <= N  PROVE n + 1 \in T
    BY <2>1
  <2>2. n + 1 \in 1..N /\ n <= N
    OBVIOUS
  <2>3. n \in T
    BY <1>2, <2>2
  <2> QED  BY <2>1, <2>2, <2>3
<1>3. Nat \subseteq U
  <2> HIDE DEF U
  <2> QED  BY <1>1, <1>2, NumberSet
<1> QED  BY <1>3

\* The states run[0], ..., run[N] of a loop: turn[k] is its k-th turn.
IsRun(run, S, a, turn, N) ==
  run \in [0..N -> S] /\ run[0] = a /\ \A k \in 1..N : run[k] = turn[k][run[k - 1]]

\* A loop whose turns stay within a set of states has a run.
LEMMA LoopRuns ==
  ASSUME NEW S, NEW a \in S, NEW turn \in [Nat -> [S -> S]], NEW N \in Nat
  PROVE  \E run : IsRun(run, S, a, turn, N)
<1> DEFINE Run(n) == \E run \in [0..n -> S] :
                        run[0] = a /\ \A k \in 1..n : run[k] = turn[k][run[k - 1]]
           T == {n \in Nat : Run(n)}
<1>1. Run(0)
  <2> DEFINE r == [k \in 0..0 |-> a]
  <2>1. r \in [0..0 -> S] /\ r[0] = a /\ \A k \in 1..0 : r[k] = turn[k][r[k - 1]]
    OBVIOUS
  <2> HIDE DEF r
  <2> QED  BY <2>1
<1>2. ASSUME NEW n \in Nat, Run(n)  PROVE Run(n + 1)
  <2>1. PICK g \in [0..n -> S] : g[0] = a /\ \A k \in 1..n : g[k] = turn[k][g[k - 1]]
    BY <1>2
  <2> DEFINE r == [k \in 0..(n + 1) |-> IF k <= n THEN g[k] ELSE turn[k][g[n]]]
  <2>2. n + 1 \in Nat /\ r \in [0..(n + 1) -> S] /\ r[0] = a
    BY <2>1
  <2>3. ASSUME NEW k \in 1..(n + 1)  PROVE r[k] = turn[k][r[k - 1]]
    <3>1. CASE k <= n
      BY <2>1, <3>1
    <3>2. CASE k = n + 1
      BY <2>1, <3>2
    <3> QED  BY <3>1, <3>2
  <2> HIDE DEF r
  <2> QED  BY <2>2, <2>3
<1> HIDE DEF Run
<1>3. Nat \subseteq T
  <2>1. 0 \in T /\ \A n \in Nat : n \in T => n + 1 \in T
    BY <1>1, <1>2
  <2> HIDE DEF T
  <2> QED  BY <2>1, NumberSet
<1>4. Run(N)
  BY <1>3
<1> QED  BY <1>4 DEF Run, IsRun

\* What FlattenSeq computes, one after the other.
LEMMA FlattenRuns ==
  ASSUME NEW S, NEW tt \in Seq(Seq(S))
  PROVE  \E f \in [0..Len(tt) -> Seq(S)] :
           /\ f[0] = <<>> /\ \A k \in 1..Len(tt) : f[k] = f[k - 1] \o tt[k]
           /\ FlattenSeq(tt) = f[Len(tt)]
<1> DEFINE N == Len(tt)
           turn == [k \in Nat |-> [s \in Seq(S) |-> IF k \in 1..N THEN s \o tt[k] ELSE s]]
           Flat == LET flatten[i \in 1..N] == IF i = 1 THEN tt[i] ELSE flatten[i - 1] \o tt[i]
                   IN flatten
<1>1. N \in Nat /\ turn \in [Nat -> [Seq(S) -> Seq(S)]] /\ <<>> \in Seq(S)
  OBVIOUS
<1>2. PICK f : IsRun(f, Seq(S), <<>>, turn, N)
  <2> HIDE DEF turn, N
  <2> QED  BY <1>1, LoopRuns
<1>3. f \in [0..N -> Seq(S)] /\ f[0] = <<>> /\ \A k \in 1..N : f[k] = f[k - 1] \o tt[k]
  <2>1. ASSUME NEW k \in 1..N  PROVE f[k] = f[k - 1] \o tt[k]
    <3>1. k \in Nat /\ k - 1 \in 0..N
      BY <1>1
    <3>2. f[k] = turn[k][f[k - 1]] /\ f[k - 1] \in Seq(S)
      <4> HIDE DEF turn, N
      <4> QED  BY ONLY <1>2, <3>1, k \in 1..N DEF IsRun
    <3> QED  BY <3>1, <3>2
  <2>2. f \in [0..N -> Seq(S)] /\ f[0] = <<>>
    BY ONLY <1>2 DEF IsRun
  <2> QED  BY <2>1, <2>2
<1>4. ASSUME N = 0  PROVE FlattenSeq(tt) = f[N]
  BY <1>3, <1>4 DEF FlattenSeq
<1>5. ASSUME N > 0  PROVE FlattenSeq(tt) = f[N]
  <2> DEFINE g == [i \in 1..N |-> f[i]]
  <2>1. g = [i \in 1..N |-> IF i = 1 THEN tt[i] ELSE g[i - 1] \o tt[i]]
    <3>1. ASSUME NEW i \in 1..N  PROVE f[i] = IF i = 1 THEN tt[i] ELSE g[i - 1] \o tt[i]
      <4>1. CASE i = 1
        BY <1>3, <4>1
      <4>2. CASE i # 1
        <5>1. i - 1 \in 1..N
          BY <1>1, <4>2
        <5> QED  BY <1>3, <4>2, <5>1
      <4> QED  BY <4>1, <4>2
    <3> QED  BY <3>1
  <2>2. Flat = [i \in 1..N |-> IF i = 1 THEN tt[i] ELSE Flat[i - 1] \o tt[i]]
    <3> HIDE DEF g, N
    <3> QED  BY <2>1
  <2>3. FlattenSeq(tt) = Flat[N]
    BY <1>5 DEF FlattenSeq
  <2> DEFINE I == {k \in 0..N : k = 0 \/ Flat[k] = f[k]}
  <2>4. \A k \in 0..N : k \in I
    <3>1. 0 \in I
      BY <1>1
    <3>2. ASSUME NEW k \in 1..N, k - 1 \in I  PROVE k \in I
      <4> HIDE DEF Flat
      <4>1. k - 1 \in 0..N /\ k \in 0..N
        BY <1>1
      <4>2. k = 1 \/ Flat[k - 1] = f[k - 1]
        BY <3>2, <4>1
      <4>3. Flat[k] = f[k]
        <5> HIDE DEF I, N
        <5>1. CASE k = 1
          <6>1. tt[1] \in Seq(S)
            BY <5>1 DEF N
          <6>2. f[1] = <<>> \o tt[1]
            <7>1. 1 \in 1..N /\ 1 - 1 = 0
              BY <5>1
            <7> QED  BY ONLY <1>3, <7>1
          <6>3. Flat[1] = tt[1]
            BY <2>2, <5>1
          <6> QED  BY <5>1, <6>1, <6>2, <6>3
        <5>2. CASE k # 1
          BY <1>3, <2>2, <4>2, <5>2
        <5> QED  BY <5>1, <5>2
      <4> QED  BY <4>1, <4>3
    <3> HIDE DEF I, N
    <3> QED  BY <1>1, <3>1, <3>2, UpTo
  <2> HIDE DEF Flat
  <2>5. Flat[N] = f[N]
    BY <1>1, <1>5, <2>4
  <2> QED  BY <2>3, <2>5
<1> QED  BY <1>1, <1>3, <1>4, <1>5

\* FlattenSeq of a sequence that has grown.
LEMMA FlattenIs ==
  ASSUME NEW S, NEW ss \in Seq(Seq(S)), NEW x \in Seq(S)
  PROVE  FlattenSeq(ss) \in Seq(S) /\ FlattenSeq(Append(ss, x)) = FlattenSeq(ss) \o x
<1> DEFINE N == Len(ss)
           tt == Append(ss, x)
<1>1. N \in Nat /\ tt \in Seq(Seq(S)) /\ Len(tt) = N + 1 /\ tt[N + 1] = x
      /\ \A k \in 1..N : tt[k] = ss[k]
  OBVIOUS
<1> HIDE DEF tt
<1>2. PICK f \in [0..N -> Seq(S)] : /\ f[0] = <<>> /\ \A k \in 1..N : f[k] = f[k - 1] \o ss[k]
                                    /\ FlattenSeq(ss) = f[N]
  BY FlattenRuns
<1>3. PICK g \in [0..(N + 1) -> Seq(S)] :
        /\ g[0] = <<>> /\ \A k \in 1..(N + 1) : g[k] = g[k - 1] \o tt[k]
        /\ FlattenSeq(tt) = g[N + 1]
  <2>1. \E h \in [0..Len(tt) -> Seq(S)] :
           /\ h[0] = <<>> /\ \A k \in 1..Len(tt) : h[k] = h[k - 1] \o tt[k]
           /\ FlattenSeq(tt) = h[Len(tt)]
    BY <1>1, FlattenRuns
  <2> QED  BY <1>1, <2>1
<1> HIDE DEF N
<1> DEFINE I == {k \in 0..N : g[k] = f[k]}
<1>4. \A k \in 0..N : k \in I
  <2>1. 0 \in I
    BY <1>1, <1>2, <1>3
  <2>2. ASSUME NEW k \in 1..N, k - 1 \in I  PROVE k \in I
    <3>1. k - 1 \in 0..N /\ k \in 0..N /\ k \in 1..(N + 1) /\ g[k - 1] = f[k - 1]
      BY <1>1, <2>2
    <3>2. g[k] = f[k]
      BY <1>1, <1>2, <1>3, <3>1
    <3> QED  BY <3>1, <3>2
  <2> HIDE DEF I
  <2> QED  BY <1>1, <2>1, <2>2, UpTo
<1>5. g[N] = f[N] /\ g[N + 1] = g[N] \o x
  <2>1. N \in 0..N /\ N + 1 \in 1..(N + 1) /\ (N + 1) - 1 = N
    BY <1>1
  <2> QED  BY <1>1, <1>3, <1>4, <2>1
<1>6. f[N] \in Seq(S)
  BY <1>1, <1>2
<1> QED  BY <1>2, <1>3, <1>5, <1>6 DEF tt

-----------------------------------------------------------------------------
(* Mux *)

\* What the packets carry, put together.
Carried(packets) == FlattenSeq([i \in 1..Len(packets) |-> packets[i].payload])

PacketRec(S, pid) ==
  [pid : {pid}, start : BOOLEAN, cc : 0..CcMax, adaptation : Nat, payload : Seq(S)]
MuxRec(S, pid) == [left : Nat, wBytes : Nat, cc : 0..CcMax, packets : Seq(PacketRec(S, pid))]

\* The packets so far: full, only the first one with a start, counted from c.
PacketsOK(packets, c) ==
  \A i \in 1..Len(packets) :
    /\ Len(packets[i].payload) + packets[i].adaptation = TsDataLen
    /\ packets[i].start = (i = 1)
    /\ packets[i].cc = NextCc(IF i = 1 THEN c ELSE packets[i - 1].cc)

\* Between two turns.  The header goes out with the first packet.
MuxOK(pes, data, c, s) ==
  /\ PacketsOK(s.packets, c)
  /\ IF s.packets = <<>> THEN s.left = Len(pes) + Len(data) /\ s.wBytes = 0 /\ s.cc = c
     ELSE /\ s.wBytes + s.left = Len(data)
          /\ Carried(s.packets) = pes \o SubSeq(data, 1, s.wBytes)
          /\ s.cc = s.packets[Len(s.packets)].cc
MuxStates(S, pid, pes, data, c) == {s \in MuxRec(S, pid) : MuxOK(pes, data, c, s)}

\* The counter stays in its range.
LEMMA CcIs == ASSUME NEW c \in 0..CcMax  PROVE NextCc(c) \in 0..CcMax
  BY CodecAssumption DEF NextCc

\* A sequence that has grown.
LEMMA Grown ==
  ASSUME NEW S, NEW s \in Seq(S), NEW x \in S
  PROVE  LET t == Append(s, x) IN
           /\ t \in Seq(S) /\ Len(s) \in Nat /\ Len(t) = Len(s) + 1 /\ t[Len(s) + 1] = x
           /\ \A i \in 1..Len(s) : t[i] = s[i]
  OBVIOUS

\* Two sequences with the same elements.
LEMMA SameElements ==
  ASSUME NEW S, NEW N \in Nat, NEW s \in Seq(S), Len(s) = N, NEW f \in [1..N -> S], \A i \in 1..N : s[i] = f[i]
  PROVE  s = f
  OBVIOUS

\* Two sequences of one length with the same elements are one.
LEMMA SeqEqual ==
  ASSUME NEW S, NEW s \in Seq(S), NEW t \in Seq(S), Len(s) = Len(t), \A i \in 1..Len(s) : s[i] = t[i]
  PROVE  s = t
  OBVIOUS

\* A packet more.
LEMMA CarriedIs ==
  ASSUME NEW S, NEW pid, NEW ps \in Seq(PacketRec(S, pid)), NEW p \in PacketRec(S, pid)
  PROVE  Carried(ps) \in Seq(S) /\ Carried(Append(ps, p)) = Carried(ps) \o p.payload
<1> DEFINE N == Len(ps)
           pp == Append(ps, p)
           ss == [i \in 1..N |-> ps[i].payload]
           tt == [i \in 1..(N + 1) |-> pp[i].payload]
           x == p.payload
           uu == Append(ss, x)
<1>1. pp \in Seq(PacketRec(S, pid)) /\ N \in Nat /\ Len(pp) = N + 1 /\ pp[N + 1] = p
      /\ \A i \in 1..N : pp[i] = ps[i]
  BY Grown
<1>2. (\A i \in 1..N : ps[i] \in PacketRec(S, pid)) /\ \A i \in 1..(N + 1) : pp[i] \in PacketRec(S, pid)
  BY <1>1
<1>3. \A q \in PacketRec(S, pid) : q.payload \in Seq(S)
  BY DEF PacketRec
<1>4. x \in Seq(S) /\ ss \in Seq(Seq(S)) /\ Len(ss) = N /\ tt \in [1..(N + 1) -> Seq(S)]
  <2> HIDE DEF pp, N
  <2>1. x \in Seq(S) /\ (\A i \in 1..N : ps[i].payload \in Seq(S)) /\ \A i \in 1..(N + 1) : pp[i].payload \in Seq(S)
    BY <1>2, <1>3
  <2>2. ss \in [1..N -> Seq(S)] /\ tt \in [1..(N + 1) -> Seq(S)]
    BY <2>1
  <2> QED  BY <1>1, <2>1, <2>2
<1>5. uu \in Seq(Seq(S)) /\ Len(uu) = N + 1 /\ uu[N + 1] = x /\ \A i \in 1..N : uu[i] = ss[i]
  <2> HIDE DEF ss, x, N
  <2> QED  BY <1>4, Grown
<1>6. \A i \in 1..(N + 1) : uu[i] = tt[i]
  <2> TAKE i \in 1..(N + 1)
  <2> HIDE DEF uu, pp, N
  <2>1. CASE i \in 1..N
    BY <1>1, <1>5, <2>1
  <2>2. CASE i = N + 1
    BY <1>1, <1>5, <2>2
  <2> QED  BY <1>1, <2>1, <2>2
<1>7. uu = tt
  <2> HIDE DEF uu, tt, N
  <2>1. N + 1 \in Nat
    BY <1>1
  <2> QED  BY ONLY <1>4, <1>5, <1>6, <2>1, SameElements
<1>8. FlattenSeq(ss) \in Seq(S) /\ FlattenSeq(uu) = FlattenSeq(ss) \o x
  <2> HIDE DEF ss, x
  <2> QED  BY <1>4, FlattenIs
<1>9. Carried(ps) = FlattenSeq(ss) /\ Carried(pp) = FlattenSeq(tt)
  BY <1>1 DEF Carried
<1> QED  BY <1>7, <1>8, <1>9

\* A part of a sequence, and the part after it.
LEMMA Parts ==
  ASSUME NEW S, NEW d \in Seq(S), NEW w \in Nat, NEW n \in Nat, w + n <= Len(d)
  PROVE  /\ SubSeq(d, w + 1, w + n) \in Seq(S) /\ Len(SubSeq(d, w + 1, w + n)) = n
         /\ \A i \in 1..n : SubSeq(d, w + 1, w + n)[i] = d[w + i]
         /\ SubSeq(d, 1, w) \in Seq(S) /\ Len(SubSeq(d, 1, w)) = w
         /\ SubSeq(d, 1, w) \o SubSeq(d, w + 1, w + n) = SubSeq(d, 1, w + n)
<1>1. /\ SubSeq(d, w + 1, w + n) \in Seq(S) /\ Len(SubSeq(d, w + 1, w + n)) = n
      /\ \A i \in 1..n : SubSeq(d, w + 1, w + n)[i] = d[w + i]
  <2>1. SubSeq(d, w + 1, w + n) \in Seq(S)
    OBVIOUS
  <2>2. Len(SubSeq(d, w + 1, w + n)) = n
    OBVIOUS
  <2>3. ASSUME NEW i \in 1..n  PROVE SubSeq(d, w + 1, w + n)[i] = d[w + i]
    <3>1. i \in 1..((w + n) - (w + 1) + 1) /\ (w + 1) + i - 1 = w + i
      OBVIOUS
    <3> QED  BY <3>1
  <2> QED  BY <2>1, <2>2, <2>3
<1>2. SubSeq(d, 1, w) \in Seq(S) /\ Len(SubSeq(d, 1, w)) = w /\ \A i \in 1..w : SubSeq(d, 1, w)[i] = d[i]
  OBVIOUS
<1>3. SubSeq(d, 1, w + n) \in Seq(S) /\ Len(SubSeq(d, 1, w + n)) = w + n
      /\ \A i \in 1..(w + n) : SubSeq(d, 1, w + n)[i] = d[i]
  OBVIOUS
<1> DEFINE a == SubSeq(d, 1, w)
           b == SubSeq(d, w + 1, w + n)
           e == SubSeq(d, 1, w + n)
<1> HIDE DEF a, b, e
<1>4. a \o b \in Seq(S) /\ Len(a \o b) = w + n /\ \A i \in 1..(w + n) : (a \o b)[i] = d[i]
  BY <1>1, <1>2 DEF a, b
<1>5. a \o b = e
  BY <1>3, <1>4 DEF e
<1> QED  BY <1>1, <1>2, <1>5 DEF a, b, e

\* Putting sequences together.
LEMMA Joined ==
  ASSUME NEW S, NEW a \in Seq(S), NEW b \in Seq(S)
  PROVE  /\ a \o b \in Seq(S) /\ Len(a \o b) = Len(a) + Len(b)
         /\ <<>> \o a = a /\ a \o <<>> = a
         /\ SubSeq(a, 1, Len(a)) = a /\ SubSeq(a, 1, 0) = <<>>
         /\ SubSeq(a \o b, 1, Len(a)) = a
         /\ Rest(a \o b, Len(a)) = b
  BY DEF Rest

\* Nothing is carried by no packets.
LEMMA CarriedNone == Carried(<<>>) = <<>>
  BY DEF Carried, FlattenSeq

\* A turn of Mux's loop fills a packet, and goes on with the rest.
LEMMA MuxTurnIs ==
  ASSUME NEW S, NEW pid, NEW pes \in Seq(S), 1 <= Len(pes), Len(pes) <= 19, NEW data \in Seq(S),
         NEW c \in 0..CcMax, NEW s \in MuxStates(S, pid, pes, data, c)
  PROVE  LET t == MuxTurn(pid, pes, data, s)
         IN  /\ t \in MuxStates(S, pid, pes, data, c) /\ t.packets # <<>>
             /\ t.left = 0 \/ t.left < s.left
<1> DEFINE t == MuxTurn(pid, pes, data, s)
           left == s.left
           w == s.wBytes
           ps == s.packets
           first == ps = <<>>
           pl == Len(pes)
           dl == Len(data)
           stuffing == IF left >= TsDataLen THEN 0 ELSE TsDataLen - left
           dataLen == IF left >= TsDataLen THEN TsDataLen ELSE left
           tmpLen == IF first /\ 4 + stuffing < TsDataLen + 4 THEN AtMost(pl, TsDataLen + 4 - (4 + stuffing)) ELSE 0
           n == AtMost(TsDataLen + 4 - (4 + stuffing) - tmpLen, dataLen - tmpLen)
           payload == SubSeq(pes, 1, tmpLen) \o SubSeq(data, w + 1, w + n)
           p == [pid |-> pid, start |-> first, cc |-> NextCc(s.cc), adaptation |-> stuffing, payload |-> payload]
           qs == Append(ps, p)
<1>1. /\ left \in Nat /\ w \in Nat /\ s.cc \in 0..CcMax /\ ps \in Seq(PacketRec(S, pid))
      /\ pl \in Nat /\ dl \in Nat /\ MuxOK(pes, data, c, s) /\ s \in MuxRec(S, pid)
  BY DEF MuxStates, MuxRec
<1>2. PacketsOK(ps, c)
  BY ONLY <1>1 DEF MuxOK
<1>3. IF first THEN left = pl + dl /\ w = 0 /\ s.cc = c
      ELSE w + left = dl /\ Carried(ps) = pes \o SubSeq(data, 1, w) /\ s.cc = ps[Len(ps)].cc
  BY ONLY <1>1 DEF MuxOK
<1>4. CASE left = 0
  <2>1. t = s
    BY <1>4 DEF MuxTurn
  <2>2. ~first
    BY <1>1, <1>3, <1>4
  <2> QED  BY <1>4, <2>1, <2>2
<1>5. CASE left # 0
  <2>1. t = [left |-> left - tmpLen - n, wBytes |-> w + n, cc |-> NextCc(s.cc), packets |-> qs]
    BY <1>5 DEF MuxTurn
  <2>2. /\ tmpLen = IF first THEN pl ELSE 0
        /\ n = dataLen - tmpLen /\ n \in Nat /\ stuffing \in Nat /\ stuffing + dataLen = TsDataLen
        /\ dataLen \in Nat /\ dataLen > 0 /\ w + n <= dl /\ left - tmpLen - n = left - dataLen /\ left - dataLen \in Nat
    <3>1. first \/ ~first
      OBVIOUS
    <3>2. first => left = pl + dl /\ w = 0
      BY <1>3
    <3>3. ~first => w + left = dl
      BY <1>3
    <3>4. left \in Nat /\ w \in Nat /\ pl \in Nat /\ dl \in Nat /\ 1 <= pl /\ pl <= 19
      BY <1>1
    <3> HIDE DEF left, w, pl, dl, first
    <3>5. CASE first
      BY ONLY <3>2, <3>4, <3>5, <1>5, CodecAssumption DEF AtMost
    <3>6. CASE ~first
      BY ONLY <3>3, <3>4, <3>6, <1>5, CodecAssumption DEF AtMost
    <3> QED  BY <3>1, <3>5, <3>6
  <2> HIDE DEF stuffing, dataLen, tmpLen, n
  <2>3. SubSeq(pes, 1, tmpLen) = IF first THEN pes ELSE <<>>
    BY <2>2, Joined
  <2>4. /\ SubSeq(data, w + 1, w + n) \in Seq(S) /\ Len(SubSeq(data, w + 1, w + n)) = n
        /\ SubSeq(data, 1, w) \in Seq(S)
        /\ SubSeq(data, 1, w) \o SubSeq(data, w + 1, w + n) = SubSeq(data, 1, w + n)
    <3>1. w \in Nat /\ n \in Nat /\ w + n <= Len(data)
      BY ONLY <1>1, <2>2
    <3> HIDE DEF w
    <3> QED  BY ONLY <3>1, data \in Seq(S), Parts
  <2>5. payload \in Seq(S) /\ Len(payload) = dataLen
    <3> DEFINE b == SubSeq(data, w + 1, w + n)
               a == SubSeq(pes, 1, tmpLen)
    <3> HIDE DEF b
    <3>1. a \in Seq(S) /\ Len(a) = tmpLen
      BY <2>2, <2>3
    <3> HIDE DEF a
    <3>2. a \o b \in Seq(S) /\ Len(a \o b) = Len(a) + Len(b)
      BY <2>4, <3>1, Joined DEF b
    <3> HIDE DEF w, pl, left
    <3>3. Len(a) + Len(b) = dataLen
      <4>1. Len(b) = n
        BY <2>4 DEF b
      <4>2. tmpLen \in Nat
        BY ONLY <1>1, <2>2
      <4> QED  BY ONLY <2>2, <3>1, <4>1, <4>2
    <3> QED  BY <3>2, <3>3 DEF a, b
  <2>6. NextCc(s.cc) \in 0..CcMax
    BY <1>1, CcIs
  <2>7. p \in PacketRec(S, pid)
    <3> HIDE DEF payload, first
    <3>1. first \in BOOLEAN
      BY DEF first
    <3> QED  BY <2>2, <2>5, <2>6, <3>1 DEF PacketRec
  <2>8. /\ qs \in Seq(PacketRec(S, pid)) /\ Len(ps) \in Nat /\ Len(qs) = Len(ps) + 1 /\ qs[Len(ps) + 1] = p
        /\ \A i \in 1..Len(ps) : qs[i] = ps[i]
    <3> HIDE DEF p, ps
    <3> QED  BY <1>1, <2>7, Grown
  <2>9. p.payload = payload /\ p.cc = NextCc(s.cc) /\ p.start = first /\ p.adaptation = stuffing
    OBVIOUS
  <2>10. first <=> Len(ps) = 0
    BY <1>1
  <2> HIDE DEF p, qs, ps
  <2>11. PacketsOK(qs, c)
    <3> SUFFICES ASSUME NEW i \in 1..(Len(ps) + 1)
                 PROVE  /\ Len(qs[i].payload) + qs[i].adaptation = TsDataLen
                        /\ qs[i].start = (i = 1)
                        /\ qs[i].cc = NextCc(IF i = 1 THEN c ELSE qs[i - 1].cc)
      BY <2>8 DEF PacketsOK
    <3>1. CASE i \in 1..Len(ps)
      <4>1. qs[i] = ps[i] /\ (i # 1 => i - 1 \in 1..Len(ps) /\ qs[i - 1] = ps[i - 1])
        BY <2>8, <3>1
      <4> QED  BY <1>2, <3>1, <4>1 DEF PacketsOK
    <3>2. CASE i = Len(ps) + 1
      <4>1. qs[i] = p /\ (i # 1 => i - 1 = Len(ps) /\ qs[i - 1] = ps[Len(ps)])
        BY <2>8, <3>2
      <4>2. i = 1 <=> first
        BY <2>8, <2>10, <3>2
      <4>3. qs[i].start = (i = 1)
        BY ONLY <2>9, <4>1, <4>2
      <4>4. qs[i].cc = NextCc(IF i = 1 THEN c ELSE qs[i - 1].cc)
        BY ONLY <1>3, <2>9, <4>1, <4>2
      <4>5. Len(qs[i].payload) + qs[i].adaptation = TsDataLen
        <5> HIDE DEF payload
        <5>1. stuffing + dataLen = dataLen + stuffing
          BY <2>2
        <5> QED  BY ONLY <2>2, <2>5, <2>9, <4>1, <5>1
      <4> QED  BY <4>3, <4>4, <4>5
    <3> QED  BY <2>8, <3>1, <3>2
  <2>12. Carried(qs) = pes \o SubSeq(data, 1, w + n)
    <3>1. Carried(ps) \in Seq(S) /\ Carried(qs) = Carried(ps) \o payload
      <4>1. ps \in Seq(PacketRec(S, pid))
        BY <1>1 DEF ps
      <4>2. Carried(ps) \in Seq(S) /\ Carried(Append(ps, p)) = Carried(ps) \o p.payload
        BY ONLY <2>7, <4>1, CarriedIs
      <4> HIDE DEF payload
      <4> QED  BY ONLY <2>9, <4>2 DEF qs
    <3> DEFINE b == SubSeq(data, w + 1, w + n)
               a == SubSeq(data, 1, w)
               e == SubSeq(data, 1, w + n)
    <3>2. a \in Seq(S) /\ b \in Seq(S) /\ a \o b = e
      BY <2>4
    <3>3. payload = (IF first THEN pes ELSE <<>>) \o b
      BY <2>3
    <3>4. CASE first
      <4>1. a = <<>>
        BY <1>3, <3>4, Joined
      <4> HIDE DEF a, b, e, payload
      <4>2. e = b
        BY <3>2, <4>1, Joined
      <4>3. Carried(ps) = <<>>
        BY <3>4, CarriedNone
      <4>4. pes \o b \in Seq(S)
        BY <3>2
      <4>5. <<>> \o (pes \o b) = pes \o b
        BY <4>4, Joined
      <4> QED  BY ONLY <3>1, <3>3, <3>4, <4>2, <4>3, <4>5 DEF e
    <3>5. CASE ~first
      <4>1. Carried(ps) = pes \o a
        BY ONLY <1>3, <3>5
      <4> HIDE DEF a, b, e, payload
      <4>2. payload = b
        <5>1. <<>> \o b = b
          BY <3>2, Joined
        <5> QED  BY ONLY <3>3, <3>5, <5>1
      <4>3. (pes \o a) \o b = pes \o (a \o b)
        <5>1. ASSUME NEW x \in Seq(S), NEW y \in Seq(S) PROVE (pes \o x) \o y = pes \o (x \o y)
          OBVIOUS
        <5> QED  BY <3>2, <5>1
      <4> QED  BY ONLY <3>1, <3>2, <4>1, <4>2, <4>3 DEF e
    <3> QED  BY <3>4, <3>5
  <2>13. t \in MuxRec(S, pid)
    <3>0. w \in Nat /\ n \in Nat
      BY ONLY <1>1, <2>2
    <3>1. w + n \in Nat
      BY ONLY <3>0
    <3> HIDE DEF t, w, left
    <3> QED  BY <2>1, <2>2, <2>6, <2>8, <3>1 DEF MuxRec
  <2>14. /\ t.left = left - dataLen /\ t.wBytes = w + n /\ t.cc = NextCc(s.cc) /\ t.packets = qs
    <3> HIDE DEF t, w, left
    <3> QED  BY <2>1, <2>2
  <2>15. qs # <<>>
    BY <2>8
  <2>16. (w + n) + (left - dataLen) = dl /\ left - dataLen < left
    <3>1. first \/ ~first
      OBVIOUS
    <3>2. first => left = pl + dl /\ w = 0
      BY <1>3
    <3>3. ~first => w + left = dl
      BY <1>3
    <3> HIDE DEF t, w, left, pl, dl, first
    <3> QED  BY ONLY <1>1, <2>2, <3>1, <3>2, <3>3
  <2>17. qs[Len(qs)].cc = NextCc(s.cc)
    BY ONLY <2>8, <2>9
  <2>18. MuxOK(pes, data, c, t)
    <3> HIDE DEF t
    <3> QED  BY ONLY <2>11, <2>12, <2>14, <2>15, <2>16, <2>17 DEF MuxOK
  <2> HIDE DEF t, left
  <2>19. t \in MuxStates(S, pid, pes, data, c)
    BY ONLY <2>13, <2>18 DEF MuxStates
  <2>20. t.packets # <<>> /\ t.left < left
    BY ONLY <2>14, <2>15, <2>16
  <2> QED  BY <2>19, <2>20 DEF t, left
<1> QED  BY <1>4, <1>5

IsMux(mux, S, pid, pes, data, c) ==
  LET N == Len(pes) + Len(data)
  IN  /\ mux[0] = [left |-> N, wBytes |-> 0, cc |-> c, packets |-> <<>>]
      /\ mux[0] \in MuxStates(S, pid, pes, data, c)
      /\ \A k \in 1..N : mux[k] = MuxTurn(pid, pes, data, mux[k - 1])

\* The loop is the repetition of its turn.
LEMMA MuxRuns ==
  ASSUME NEW S, NEW pid, NEW pes \in Seq(S), 1 <= Len(pes), Len(pes) <= 19, NEW data \in Seq(S),
         NEW c \in 0..CcMax
  PROVE  IsMux(MuxLoop(pid, pes, data, c), S, pid, pes, data, c)
<1> DEFINE N == Len(pes) + Len(data)
           a == [left |-> Len(pes) + Len(data), wBytes |-> 0, cc |-> c, packets |-> <<>>]
           M == MuxStates(S, pid, pes, data, c)
           turn == [k \in Nat |-> [s \in M |-> MuxTurn(pid, pes, data, s)]]
           f == MuxLoop(pid, pes, data, c)
<1>1. N \in Nat
  OBVIOUS
<1>2. a \in M
  <2>1. a \in MuxRec(S, pid)
    BY DEF MuxRec
  <2>2. PacketsOK(<<>>, c)
    BY DEF PacketsOK
  <2>3. MuxOK(pes, data, c, a)
    BY <2>2 DEF MuxOK
  <2> QED  BY <2>1, <2>3 DEF MuxStates
<1>3. \A s \in M : MuxTurn(pid, pes, data, s) \in M
  <2> TAKE s \in M
  <2> HIDE DEF M
  <2> QED  BY MuxTurnIs DEF M
<1>4. turn \in [Nat -> [M -> M]]
  <2> HIDE DEF M
  <2> QED  BY <1>3
<1>5. PICK g : IsRun(g, M, a, turn, N)
  <2> HIDE DEF M, N, a, turn
  <2> QED  BY <1>1, <1>2, <1>4, LoopRuns
<1>6. g = [k \in 0..N |-> IF k = 0 THEN a ELSE MuxTurn(pid, pes, data, g[k - 1])]
  <2> HIDE DEF M, N, a, turn
  <2>1. g \in [0..N -> M] /\ g[0] = a /\ \A k \in 1..N : g[k] = turn[k][g[k - 1]]
    BY ONLY <1>5 DEF IsRun
  <2>2. ASSUME NEW k \in 0..N  PROVE g[k] = IF k = 0 THEN a ELSE MuxTurn(pid, pes, data, g[k - 1])
    <3>1. CASE k = 0
      BY <2>1, <3>1
    <3>2. CASE k # 0
      <4>1. k \in 1..N /\ k \in Nat /\ k - 1 \in 0..N
        BY <1>1, <3>2
      <4>2. g[k] = turn[k][g[k - 1]] /\ g[k - 1] \in M
        BY <2>1, <4>1
      <4>3. turn[k][g[k - 1]] = MuxTurn(pid, pes, data, g[k - 1])
        BY <4>1, <4>2 DEF turn
      <4> QED  BY <3>2, <4>2, <4>3
    <3> QED  BY <3>1, <3>2
  <2> QED  BY <2>1, <2>2
<1>7. f = [k \in 0..N |-> IF k = 0 THEN a ELSE MuxTurn(pid, pes, data, f[k - 1])]
  <2> HIDE DEF M, turn
  <2> QED  BY <1>6 DEF MuxLoop
<1>8. f[0] = a /\ \A k \in 1..N : f[k] = MuxTurn(pid, pes, data, f[k - 1])
  <2> HIDE DEF f, N, a
  <2> QED  BY <1>1, <1>7
<1> QED  BY <1>2, <1>8 DEF IsMux

\* The packets of a message: PacketsOK, all on one PID, and together a PES header and
\* the data.
MuxGood(r, S, pid, pes, data, c) ==
  /\ r.cc \in 0..CcMax /\ r.packets \in Seq(PacketRec(S, pid)) /\ r.packets # <<>>
  /\ PacketsOK(r.packets, c) /\ r.cc = r.packets[Len(r.packets)].cc
  /\ Carried(r.packets) = pes \o data

\* Mux sends the header and the data, whole and in order.
LEMMA MuxIs ==
  ASSUME NEW S, NEW pid, NEW pes \in Seq(S), 1 <= Len(pes), Len(pes) <= 19, NEW data \in Seq(S),
         NEW c \in 0..CcMax
  PROVE  MuxGood(MuxLoop(pid, pes, data, c)[Len(pes) + Len(data)], S, pid, pes, data, c)
<1> DEFINE N == Len(pes) + Len(data)
           M == MuxStates(S, pid, pes, data, c)
           mux == MuxLoop(pid, pes, data, c)
           T == {k \in 0..N : mux[k] \in M /\ (k > 0 => mux[k].packets # <<>>)
                               /\ (mux[k].left = 0 \/ mux[k].left + k <= N)}
           r == mux[N]
<1>1. N \in Nat /\ N > 0
  OBVIOUS
<1>2. /\ mux[0] = [left |-> N, wBytes |-> 0, cc |-> c, packets |-> <<>>] /\ mux[0] \in M
      /\ \A k \in 1..N : mux[k] = MuxTurn(pid, pes, data, mux[k - 1])
  <2>1. IsMux(MuxLoop(pid, pes, data, c), S, pid, pes, data, c)
    BY MuxRuns
  <2> QED  BY ONLY <2>1 DEF IsMux
<1> HIDE DEF mux, M, N
<1>3. \A s \in M : LET t == MuxTurn(pid, pes, data, s)
                   IN  t \in M /\ t.packets # <<>> /\ (t.left = 0 \/ t.left < s.left)
  BY MuxTurnIs DEF M
<1>4. \A s \in M : s.left \in Nat
  BY DEF M, MuxStates, MuxRec
<1>5. 0 \in T
  BY <1>1, <1>2
<1>6. ASSUME NEW k \in 1..N, k - 1 \in T  PROVE k \in T
  <2> DEFINE s == mux[k - 1]
             t == mux[k]
  <2>1. s \in M /\ (s.left = 0 \/ s.left + (k - 1) <= N) /\ k \in 0..N
    BY <1>1, <1>6
  <2>2. t \in M /\ t.packets # <<>> /\ (t.left = 0 \/ t.left < s.left)
    <3>1. t = MuxTurn(pid, pes, data, s)
      BY <1>2
    <3> QED  BY ONLY <1>3, <2>1, <3>1
  <2> HIDE DEF s, t
  <2>3. t.left = 0 \/ t.left + k <= N
    <3> DEFINE x == s.left
               y == t.left
    <3>1. x \in Nat /\ y \in Nat
      BY <1>4, <2>1, <2>2
    <3>2. (x = 0 \/ x + (k - 1) <= N) /\ (y = 0 \/ y < x)
      BY <2>1, <2>2
    <3> HIDE DEF x, y
    <3>3. y = 0 \/ y + k <= N
      BY <1>1, <3>1, <3>2
    <3> QED  BY <3>3 DEF x, y
  <2> QED  BY <2>1, <2>2, <2>3 DEF t
<1>7. N \in T
  <2>1. \A k \in 0..N : k \in T
    <3> HIDE DEF T
    <3> QED  BY <1>1, <1>5, <1>6, UpTo
  <2> QED  BY <1>1, <2>1
<1>8. r \in M /\ r.packets # <<>> /\ (r.left = 0 \/ r.left + N <= N)
  BY <1>1, <1>7
<1> HIDE DEF r
<1>9. r.left = 0
  <2> DEFINE x == r.left
  <2>1. x \in Nat /\ (x = 0 \/ x + N <= N)
    BY <1>4, <1>8
  <2> HIDE DEF x
  <2>2. x = 0
    BY <1>1, <2>1
  <2> QED  BY <2>2 DEF x
<1>10. r \in MuxRec(S, pid) /\ MuxOK(pes, data, c, r)
  BY <1>8 DEF M, MuxStates
<1>11. r.cc \in 0..CcMax /\ r.packets \in Seq(PacketRec(S, pid)) /\ r.wBytes \in Nat
  BY <1>10 DEF MuxRec
<1>12. /\ PacketsOK(r.packets, c) /\ r.cc = r.packets[Len(r.packets)].cc
       /\ Carried(r.packets) = pes \o SubSeq(data, 1, r.wBytes) /\ r.wBytes + r.left = Len(data)
  BY ONLY <1>8, <1>10 DEF MuxOK
<1>13. SubSeq(data, 1, r.wBytes) = data
  <2>1. r.wBytes = Len(data)
    BY <1>9, <1>11, <1>12
  <2> QED  BY <2>1, Joined
<1>14. MuxGood(r, S, pid, pes, data, c)
  BY ONLY <1>8, <1>11, <1>12, <1>13 DEF MuxGood
<1> QED  BY <1>14 DEF r, mux, N

-----------------------------------------------------------------------------
(* Types *)

\* The part of a sequence after its first n elements.
LEMMA RestIs ==
  ASSUME NEW S, NEW s \in Seq(S), NEW n \in Nat
  PROVE  /\ Rest(s, n) \in Seq(S)
         /\ n <= Len(s) => Len(Rest(s, n)) = Len(s) - n
         /\ n > Len(s) => Rest(s, n) = <<>>
         /\ \A i \in 1..(Len(s) - n) : Rest(s, n)[i] = s[n + i]
  BY DEF Rest

\* A part of a sequence.
LEMMA PartIs ==
  ASSUME NEW S, NEW s \in Seq(S), NEW a \in Nat, NEW b \in Nat, b <= Len(s)
  PROVE  /\ SubSeq(s, a + 1, b) \in Seq(S)
         /\ a <= b => Len(SubSeq(s, a + 1, b)) = b - a
         /\ \A i \in 1..(b - a) : SubSeq(s, a + 1, b)[i] = s[a + i]
  OBVIOUS

\* A number in two bytes.
LEMMA U16Is == ASSUME NEW n \in Nat  PROVE U16(n) \in Seq(Nat) /\ Len(U16(n)) = 2
<1>1. n \div 256 \in Nat /\ (n \div 256) % 256 \in Nat /\ n % 256 \in Nat
  OBVIOUS
<1> DEFINE x == (n \div 256) % 256
           y == n % 256
<1> HIDE DEF x, y
<1>2. <<x, y>> \in Seq(Nat) /\ Len(<<x, y>>) = 2
  BY <1>1 DEF x, y
<1> QED  BY <1>2 DEF U16, x, y

\* A number in four bytes.
LEMMA U32Is == ASSUME NEW n \in Nat  PROVE U32(n) \in Seq(Nat) /\ Len(U32(n)) = 4
<1> DEFINE q == n \div 65536
<1>1. q \in Nat
  OBVIOUS
<1> DEFINE x == U16(n)
           z == U16(q)
<1>2. x \in Seq(Nat) /\ Len(x) = 2
  BY U16Is
<1>3. z \in Seq(Nat) /\ Len(z) = 2
  <2> HIDE DEF q
  <2> QED  BY <1>1, U16Is
<1> HIDE DEF x, z
<1>4. z \o x \in Seq(Nat) /\ Len(z \o x) = Len(z) + Len(x)
  BY <1>2, <1>3, Joined
<1>5. Len(z \o x) = 4
  BY <1>2, <1>3, <1>4
<1> QED  BY <1>4, <1>5 DEF U32, x, z

\* Putting sequences of sequences together keeps the type.
LEMMA FlatType == ASSUME NEW S, NEW ss \in Seq(Seq(S))  PROVE FlattenSeq(ss) \in Seq(S)
<1>1. <<>> \in Seq(S)
  OBVIOUS
<1> QED  BY <1>1, FlattenIs

\* Sequences made by a rule.
LEMMA MadeSeq ==
  ASSUME NEW S, NEW N \in Nat, NEW f \in [1..N -> S]
  PROVE  f \in Seq(S) /\ Len(f) = N
  OBVIOUS

\* Units with their lengths are bytes.
LEMMA PrefixedType == ASSUME NEW us \in Seq(Seq(Nat))  PROVE Prefixed(us) \in Seq(Nat)
<1> DEFINE N == Len(us)
           ss == [i \in 1..N |-> IF us[i] = <<>> THEN <<>> ELSE U32(Len(us[i])) \o us[i]]
<1>1. ASSUME NEW i \in 1..N  PROVE (IF us[i] = <<>> THEN <<>> ELSE U32(Len(us[i])) \o us[i]) \in Seq(Nat)
  <2> DEFINE u == us[i]
             x == U32(Len(u))
  <2>1. u \in Seq(Nat) /\ Len(u) \in Nat
    OBVIOUS
  <2>2. x \in Seq(Nat)
    <3> HIDE DEF u
    <3> QED  BY <2>1, U32Is
  <2> HIDE DEF u, x
  <2>3. x \o u \in Seq(Nat)
    BY <2>1, <2>2
  <2> QED  BY <2>3 DEF u, x
<1>2. N \in Nat /\ ss \in [1..N -> Seq(Nat)]
  BY <1>1
<1>3. ss \in Seq(Seq(Nat))
  <2> HIDE DEF ss, N
  <2> QED  BY <1>2, MadeSeq
<1>4. FlattenSeq(ss) \in Seq(Nat)
  <2> HIDE DEF ss
  <2> QED  BY <1>3, FlatType
<1> QED  BY <1>4 DEF Prefixed

\* A set of places in a sequence has a last one.
LEMMA MaxIs ==
  ASSUME NEW N \in Nat, NEW T, T \subseteq 1..N, T # {}
  PROVE  Max(T) \in T /\ \A i \in T : i <= Max(T)
<1> DEFINE U == {n \in Nat : n <= N /\ N - n \in T}
<1>1. U \subseteq Nat /\ U # {}
  <2>1. PICK t \in T : TRUE
    OBVIOUS
  <2>2. N - t \in U
    BY <2>1
  <2> QED  BY <2>2
<1>2. PICK x \in U : \A y \in U : x <= y
  <2> HIDE DEF U
  <2> QED  BY <1>1, LeastNumber
<1>3. N - x \in T /\ \A i \in T : N - x >= i
  <2>1. ASSUME NEW i \in T  PROVE N - x >= i
    <3>1. i \in 1..N /\ N - (N - i) = i /\ N - i \in Nat /\ N - i <= N
      OBVIOUS
    <3>2. N - i \in U
      BY <3>1
    <3>3. x \in Nat /\ x <= N - i
      BY <1>2, <3>2
    <3> QED  BY <3>1, <3>3
  <2> QED  BY <1>2, <2>1
<1>4. \E m \in T : \A i \in T : m >= i
  BY <1>3
<1>5. Max(T) \in T /\ \A i \in T : Max(T) >= i
  BY <1>4 DEF Max
<1>6. T \subseteq Nat
  OBVIOUS
<1> QED  BY <1>5, <1>6

-----------------------------------------------------------------------------
(* Start codes *)

\* The two start codes.
LEMMA CodesAre ==
  /\ StartCode3 \in Seq(Nat) /\ Len(StartCode3) = 3
  /\ StartCode3[1] = 0 /\ StartCode3[2] = 0 /\ StartCode3[3] = 1
  /\ StartCode4 \in Seq(Nat) /\ Len(StartCode4) = 4
  /\ StartCode4[1] = 0 /\ StartCode4[2] = 0 /\ StartCode4[3] = 0 /\ StartCode4[4] = 1
  BY DEF StartCode3, StartCode4

\* A sequence that begins with a start code of 3 bytes.
LEMMA Begins3 ==
  ASSUME NEW t \in Seq(Nat)
  PROVE  IsPrefix(StartCode3, t) <=> Len(t) >= 3 /\ t[1] = 0 /\ t[2] = 0 /\ t[3] = 1
<1>1. CASE Len(t) >= 3
  <2> DEFINE q == SubSeq(t, 1, 3)
             c == StartCode3
  <2>1. q \in Seq(Nat) /\ Len(q) = 3 /\ q[1] = t[1] /\ q[2] = t[2] /\ q[3] = t[3]
    BY <1>1
  <2>2. c \in Seq(Nat) /\ Len(c) = 3 /\ c[1] = 0 /\ c[2] = 0 /\ c[3] = 1
    BY CodesAre
  <2>3. SubSeq(c, 1, 3) = c
    <3> HIDE DEF c
    <3> QED  BY <2>2, Joined
  <2>4. IsPrefix(c, t) <=> c = q
    <3> HIDE DEF c, q
    <3> QED  BY <1>1, <2>2, <2>3 DEF IsPrefix, q
  <2> HIDE DEF c, q
  <2>5. \A i \in 1..3 : i = 1 \/ i = 2 \/ i = 3
    OBVIOUS
  <2>6. ASSUME q[1] = 0 /\ q[2] = 0 /\ q[3] = 1  PROVE c = q
    <3>1. \A i \in 1..3 : c[i] = q[i]
      BY ONLY <2>2, <2>5, <2>6
    <3>2. Len(c) = Len(q) /\ \A i \in 1..Len(c) : c[i] = q[i]
      BY ONLY <2>1, <2>2, <3>1
    <3> QED  BY ONLY <2>1, <2>2, <3>2, SeqEqual
  <2>7. ASSUME c = q  PROVE q[1] = 0 /\ q[2] = 0 /\ q[3] = 1
    BY ONLY <2>2, <2>7
  <2> QED  BY <1>1, <2>1, <2>4, <2>6, <2>7 DEF c
<1>2. CASE ~(Len(t) >= 3)
  BY <1>2, CodesAre DEF IsPrefix
<1> QED  BY <1>1, <1>2

\* A sequence that begins with a start code of 4 bytes.
LEMMA Begins4 ==
  ASSUME NEW t \in Seq(Nat)
  PROVE  IsPrefix(StartCode4, t) <=> Len(t) >= 4 /\ t[1] = 0 /\ t[2] = 0 /\ t[3] = 0 /\ t[4] = 1
<1>1. CASE Len(t) >= 4
  <2> DEFINE q == SubSeq(t, 1, 4)
             c == StartCode4
  <2>1. q \in Seq(Nat) /\ Len(q) = 4 /\ q[1] = t[1] /\ q[2] = t[2] /\ q[3] = t[3] /\ q[4] = t[4]
    BY <1>1
  <2>2. c \in Seq(Nat) /\ Len(c) = 4 /\ c[1] = 0 /\ c[2] = 0 /\ c[3] = 0 /\ c[4] = 1
    BY CodesAre
  <2>3. SubSeq(c, 1, 4) = c
    <3> HIDE DEF c
    <3> QED  BY <2>2, Joined
  <2>4. IsPrefix(c, t) <=> c = q
    <3> HIDE DEF c, q
    <3> QED  BY <1>1, <2>2, <2>3 DEF IsPrefix, q
  <2> HIDE DEF c, q
  <2>5. \A i \in 1..4 : i = 1 \/ i = 2 \/ i = 3 \/ i = 4
    OBVIOUS
  <2>6. ASSUME q[1] = 0 /\ q[2] = 0 /\ q[3] = 0 /\ q[4] = 1  PROVE c = q
    <3>1. \A i \in 1..4 : c[i] = q[i]
      BY ONLY <2>2, <2>5, <2>6
    <3>2. Len(c) = Len(q) /\ \A i \in 1..Len(c) : c[i] = q[i]
      BY ONLY <2>1, <2>2, <3>1
    <3> QED  BY ONLY <2>1, <2>2, <3>2, SeqEqual
  <2>7. ASSUME c = q  PROVE q[1] = 0 /\ q[2] = 0 /\ q[3] = 0 /\ q[4] = 1
    BY ONLY <2>2, <2>7
  <2> QED  BY <1>1, <2>1, <2>4, <2>6, <2>7 DEF c
<1>2. CASE ~(Len(t) >= 4)
  BY <1>2, CodesAre DEF IsPrefix
<1> QED  BY <1>1, <1>2

\* Where a start code is.
LEMMA CodeIs ==
  ASSUME NEW src \in Seq(Nat), NEW p \in Nat, p <= Len(src)
  PROVE  LET is3 == p + 3 <= Len(src) /\ src[p + 1] = 0 /\ src[p + 2] = 0 /\ src[p + 3] = 1
             is4 == p + 4 <= Len(src) /\ src[p + 1] = 0 /\ src[p + 2] = 0 /\ src[p + 3] = 0 /\ src[p + 4] = 1
         IN  StartCode(src, p) = IF is3 THEN 3 ELSE IF is4 THEN 4 ELSE 0
<1> DEFINE is3 == p + 3 <= Len(src) /\ src[p + 1] = 0 /\ src[p + 2] = 0 /\ src[p + 3] = 1
           is4 == p + 4 <= Len(src) /\ src[p + 1] = 0 /\ src[p + 2] = 0 /\ src[p + 3] = 0 /\ src[p + 4] = 1
           r == Rest(src, p)
<1>1. r \in Seq(Nat) /\ Len(r) = Len(src) - p /\ \A i \in 1..(Len(src) - p) : r[i] = src[p + i]
  BY RestIs
<1> HIDE DEF r
<1>2. IsPrefix(StartCode3, r) <=> is3
  <2>1. IsPrefix(StartCode3, r) <=> Len(r) >= 3 /\ r[1] = 0 /\ r[2] = 0 /\ r[3] = 1
    BY <1>1, Begins3
  <2>2. Len(r) >= 3 => r[1] = src[p + 1] /\ r[2] = src[p + 2] /\ r[3] = src[p + 3]
    <3>1. Len(r) >= 3 => 1 \in 1..(Len(src) - p) /\ 2 \in 1..(Len(src) - p) /\ 3 \in 1..(Len(src) - p)
      <4>1. Len(r) = Len(src) - p
        BY <1>1
      <4> QED  BY ONLY <4>1
    <3> QED  BY ONLY <1>1, <3>1
  <2>3. Len(r) >= 3 <=> p + 3 <= Len(src)
    BY <1>1
  <2> QED  BY ONLY <2>1, <2>2, <2>3
<1>3. IsPrefix(StartCode4, r) <=> is4
  <2>1. IsPrefix(StartCode4, r) <=> Len(r) >= 4 /\ r[1] = 0 /\ r[2] = 0 /\ r[3] = 0 /\ r[4] = 1
    BY <1>1, Begins4
  <2>2. Len(r) >= 4 => r[1] = src[p + 1] /\ r[2] = src[p + 2] /\ r[3] = src[p + 3] /\ r[4] = src[p + 4]
    <3>1. Len(r) >= 4 => 1 \in 1..(Len(src) - p) /\ 2 \in 1..(Len(src) - p)
                         /\ 3 \in 1..(Len(src) - p) /\ 4 \in 1..(Len(src) - p)
      <4>1. Len(r) = Len(src) - p
        BY <1>1
      <4> QED  BY ONLY <4>1
    <3> QED  BY ONLY <1>1, <3>1
  <2>3. Len(r) >= 4 <=> p + 4 <= Len(src)
    BY <1>1
  <2> QED  BY ONLY <2>1, <2>2, <2>3
<1>4. ~(is3 /\ is4)
  OBVIOUS
<1>5. StartCode(src, p) = CASE is3 -> 3 [] is4 -> 4 [] OTHER -> 0
  BY <1>2, <1>3 DEF StartCode, r
<1> HIDE DEF is3, is4
<1>6. StartCode(src, p) = IF is3 THEN 3 ELSE IF is4 THEN 4 ELSE 0
  BY <1>4, <1>5
<1> QED  BY <1>6 DEF is3, is4

ScanStart(n) == [at |-> "loop", n |-> n, pre |-> 0, index |-> 0, nalus |-> <<>>]
IsScan(scan, S, src, n) ==
  /\ scan[0] = ScanStart(n)
  /\ \A k \in 0..(Len(src) + 1) : scan[k] \in S
  /\ \A k \in 1..(Len(src) + 1) : scan[k] = ScanTurn(src, scan[k - 1])

\* The loop of ParseNalusN is the repetition of its turn, and stays in a set of states
\* that its turn stays in.
LEMMA ScanRuns ==
  ASSUME NEW src \in Seq(Nat), NEW n, NEW S, ScanStart(n) \in S, \A s \in S : ScanTurn(src, s) \in S
  PROVE  IsScan(Scan(src, n), S, src, n)
<1> DEFINE N == Len(src) + 1
           a == ScanStart(n)
           turn == [k \in Nat |-> [s \in S |-> ScanTurn(src, s)]]
           f == Scan(src, n)
<1>1. N \in Nat /\ turn \in [Nat -> [S -> S]] /\ a \in S
  OBVIOUS
<1>2. PICK g : IsRun(g, S, a, turn, N)
  <2> HIDE DEF N, a, turn
  <2> QED  BY <1>1, LoopRuns
<1> HIDE DEF N, a
<1>3. g \in [0..N -> S] /\ g[0] = a /\ \A k \in 1..N : g[k] = turn[k][g[k - 1]]
  <2> HIDE DEF turn
  <2> QED  BY ONLY <1>2 DEF IsRun
<1>4. ASSUME NEW k \in 1..N  PROVE g[k] = ScanTurn(src, g[k - 1])
  <2>1. k \in Nat /\ k - 1 \in 0..N /\ g[k - 1] \in S
    BY <1>1, <1>3
  <2> QED  BY <1>3, <2>1
<1>5. g = [k \in 0..N |-> IF k = 0 THEN a ELSE ScanTurn(src, g[k - 1])]
  <2>1. ASSUME NEW k \in 0..N  PROVE g[k] = IF k = 0 THEN a ELSE ScanTurn(src, g[k - 1])
    <3>1. k = 0 \/ k \in 1..N
      BY <1>1
    <3> QED  BY <1>3, <1>4, <3>1
  <2> QED  BY <1>3, <2>1
<1>6. f = [k \in 0..N |-> IF k = 0 THEN a ELSE ScanTurn(src, f[k - 1])]
  <2> HIDE DEF turn
  <2> QED  BY <1>5 DEF Scan, ScanStart, N, a
<1> HIDE DEF f
<1>7. f[0] = a /\ \A k \in 1..N : f[k] = ScanTurn(src, f[k - 1])
  BY <1>1, <1>6
<1> DEFINE T == {k \in 0..N : f[k] \in S}
<1>8. \A k \in 0..N : k \in T
  <2>1. 0 \in T
    BY <1>1, <1>7
  <2>2. ASSUME NEW k \in 1..N, k - 1 \in T  PROVE k \in T
    <3>1. k \in 0..N /\ f[k - 1] \in S
      BY <1>1, <2>2
    <3> QED  BY <1>7, <3>1
  <2> HIDE DEF T
  <2> QED  BY <1>1, <2>1, <2>2, UpTo
<1>9. \A k \in 0..N : f[k] \in S
  BY <1>8
<1> QED  BY <1>7, <1>9 DEF IsScan, f, N, a

ScanRec == [at : {"loop", "end", "panic"}, n : Int, pre : Nat, index : Nat, nalus : Seq(Seq(Nat))]
ScanStates(src) == {s \in ScanRec : s.pre <= s.index /\ s.index <= Len(src)}

\* A turn of the loop keeps its place within the data, and what it finds is bytes.
LEMMA ScanTurnType ==
  ASSUME NEW src \in Seq(Nat), NEW s \in ScanStates(src)
  PROVE  ScanTurn(src, s) \in ScanStates(src)
<1> DEFINE code == StartCode(src, s.index)
           found == s.index > s.pre
           pre == s.pre
           index == s.index
           nalus == s.nalus
           n == s.n
           L == Len(src)
           t == ScanTurn(src, s)
<1>1. /\ s \in ScanRec /\ pre \in Nat /\ index \in Nat /\ n \in Int /\ nalus \in Seq(Seq(Nat)) /\ L \in Nat
      /\ pre <= index /\ index <= L
  BY DEF ScanStates, ScanRec
<1>2. code \in {0, 3, 4}
  BY <1>1, CodeIs
<1>3. CASE s.at # "loop" \/ n = 1 \/ index + (IF code = 3 THEN 3 ELSE 4) > L
  <2>1. t \in {s, [s EXCEPT !.at = "end"], [s EXCEPT !.at = "panic"]}
    <3> HIDE DEF code
    <3> QED  BY <1>3 DEF ScanTurn, code
  <2>2. \A x \in {"end", "panic"} : [s EXCEPT !.at = x] \in ScanStates(src)
    BY <1>1 DEF ScanStates, ScanRec
  <2> QED  BY <2>1, <2>2
<1>4. CASE ~(s.at # "loop" \/ n = 1 \/ index + (IF code = 3 THEN 3 ELSE 4) > L)
  <2>1. CASE code > 0
    <3> DEFINE u == SubSeq(src, pre + 1, index)
               m == IF found /\ n > 0 THEN n - 1 ELSE n
               us == IF found THEN Append(nalus, u) ELSE nalus
    <3>1. t = [at |-> "loop", n |-> m, pre |-> index + code, index |-> index + code, nalus |-> us]
      <4> HIDE DEF code
      <4> QED  BY <1>4, <2>1 DEF ScanTurn, code
    <3>2. index + code \in Nat /\ index + code <= L /\ m \in Int
      <4> HIDE DEF code, index, n, L, found
      <4> QED  BY <1>1, <1>2, <1>4, <2>1
    <3>3. u \in Seq(Nat)
      BY <1>1, PartIs
    <3>4. us \in Seq(Seq(Nat))
      <4> HIDE DEF u, nalus
      <4> QED  BY <1>1, <3>3
    <3> HIDE DEF t, m, us, code, index, L
    <3>5. t \in ScanRec /\ t.pre = index + code /\ t.index = index + code
      BY <3>1, <3>2, <3>4 DEF ScanRec
    <3> QED  BY <3>2, <3>5 DEF ScanStates, t, L
  <2>2. CASE ~(code > 0)
    <3> DEFINE at == IF index + 5 > L THEN "end" ELSE "loop"
    <3>1. t = [s EXCEPT !.index = index + 1, !.at = at]
      <4> HIDE DEF code
      <4> QED  BY <1>4, <2>2 DEF ScanTurn, code
    <3>2. index + 1 \in Nat /\ index + 1 <= L /\ pre <= index + 1
      <4> HIDE DEF code, index, n, L, found, pre
      <4> QED  BY <1>1, <1>2, <1>4, <2>2
    <3>3. at \in {"loop", "end"}
      OBVIOUS
    <3> HIDE DEF at, t, code, index, L, pre
    <3>4. t \in ScanRec /\ t.pre = pre /\ t.index = index + 1
      BY <1>1, <3>1, <3>2, <3>3 DEF ScanRec, pre
    <3> QED  BY <3>2, <3>4 DEF ScanStates, t, L
  <2> QED  BY <1>1, <2>1, <2>2
<1> QED  BY <1>3, <1>4

\* What ParseNalusN finds is bytes.
LEMMA NalusType ==
  ASSUME NEW src \in Seq(Nat), NEW n \in Int
  PROVE  ParseNalusN(src, n).nalus \in Seq(Seq(Nat))
<1> DEFINE S == ScanStates(src)
           s == Scan(src, n)[Len(src) + 1]
<1>1. ScanStart(n) \in S
  BY DEF ScanStart, ScanStates, ScanRec
<1>2. \A x \in S : ScanTurn(src, x) \in S
  BY ScanTurnType
<1>3. IsScan(Scan(src, n), S, src, n)
  <2> HIDE DEF S
  <2> QED  BY <1>1, <1>2, ScanRuns
<1>4. s \in S
  <2>1. Len(src) + 1 \in 0..(Len(src) + 1)
    OBVIOUS
  <2> HIDE DEF S
  <2> QED  BY ONLY <1>3, <2>1 DEF IsScan
<1> HIDE DEF s
<1>5. s.nalus \in Seq(Seq(Nat)) /\ s.pre \in Nat /\ Rest(src, s.pre) \in Seq(Nat)
  <2>1. s.nalus \in Seq(Seq(Nat)) /\ s.pre \in Nat
    BY <1>4 DEF ScanStates, ScanRec
  <2> QED  BY <2>1, RestIs
<1>6. Append(s.nalus, Rest(src, s.pre)) \in Seq(Seq(Nat)) /\ <<>> \in Seq(Seq(Nat))
  <2> DEFINE x == Rest(src, s.pre)
             y == s.nalus
  <2>1. x \in Seq(Nat) /\ y \in Seq(Seq(Nat))
    BY <1>5
  <2> HIDE DEF x, y
  <2>2. Append(y, x) \in Seq(Seq(Nat)) /\ <<>> \in Seq(Seq(Nat))
    BY <2>1
  <2> QED  BY <2>2 DEF x, y
<1> DEFINE us == IF s.pre < Len(src) THEN Append(s.nalus, Rest(src, s.pre)) ELSE s.nalus
<1>7. us \in Seq(Seq(Nat))
  BY <1>5, <1>6
<1> DEFINE res == ParseNalusN(src, n)
<1>8. res = [panic |-> FALSE, nalus |-> <<>>] \/ res = [panic |-> TRUE, nalus |-> <<>>]
      \/ res = [panic |-> FALSE, nalus |-> us]
  BY DEF ParseNalusN, s
<1> HIDE DEF us, res
<1>9. res.nalus = <<>> \/ res.nalus = us
  BY <1>8
<1> QED  BY <1>6, <1>7, <1>9 DEF res

\* Every start code is followed by four bytes.
Followed(src) ==
  \A p \in 0..(Len(src) - 3) : src[p + 1] = 0 /\ src[p + 2] = 0 /\ src[p + 3] = 1 => p + 7 <= Len(src)

\* Where every start code is followed by four bytes, ParseNalusN does not panic.
LEMMA NoPanic ==
  ASSUME NEW src \in Seq(Nat), NEW n \in Int, Len(src) >= 4, Followed(src)
  PROVE  ~ParseNalusN(src, n).panic
<1> DEFINE S == {s \in ScanStates(src) : s.at # "panic" /\ (s.at = "loop" => s.index + 4 <= Len(src))}
           r == Scan(src, n)[Len(src) + 1]
<1>1. ScanStart(n) \in S
  BY DEF ScanStart, ScanStates, ScanRec
<1>2. ASSUME NEW s \in S  PROVE ScanTurn(src, s) \in S
  <2> DEFINE t == ScanTurn(src, s)
             index == s.index
             code == StartCode(src, s.index)
             L == Len(src)
  <2>1. t \in ScanStates(src)
    BY ScanTurnType
  <2>2. index \in Nat /\ index <= L /\ L \in Nat
    BY DEF ScanStates, ScanRec
  <2>3. CASE s.at # "loop" \/ s.n = 1
    <3>1. t \in {s, [s EXCEPT !.at = "end"]}
      BY <2>3 DEF ScanTurn
    <3>2. t.at # "panic" /\ t.at # "loop"
      <4>1. s \in ScanRec
        BY DEF ScanStates
      <4> QED  BY <2>3, <3>1, <4>1 DEF ScanTurn, ScanRec
    <3> QED  BY <2>1, <3>2
  <2>4. CASE s.at = "loop" /\ s.n # 1
    <3>1. index + 4 <= L
      BY <2>4
    <3>2. code \in {0, 3, 4} /\ (code = 3 => index + 7 <= L) /\ (code = 4 => index + 8 <= L)
      <4>0. code = IF index + 3 <= L /\ src[index + 1] = 0 /\ src[index + 2] = 0 /\ src[index + 3] = 1 THEN 3
                   ELSE IF index + 4 <= L /\ src[index + 1] = 0 /\ src[index + 2] = 0 /\ src[index + 3] = 0
                           /\ src[index + 4] = 1 THEN 4 ELSE 0
        BY <2>2, CodeIs
      <4>1. code = 3 => src[index + 1] = 0 /\ src[index + 2] = 0 /\ src[index + 3] = 1
        <5> HIDE DEF code, index
        <5> QED  BY ONLY <4>0
      <4>2. code = 4 => src[(index + 1) + 1] = 0 /\ src[(index + 1) + 2] = 0 /\ src[(index + 1) + 3] = 1
        <5>1. code = 4 => src[index + 2] = 0 /\ src[index + 3] = 0 /\ src[index + 4] = 1
          <6> HIDE DEF code, index
          <6> QED  BY ONLY <4>0
        <5>2. (index + 1) + 1 = index + 2 /\ (index + 1) + 2 = index + 3 /\ (index + 1) + 3 = index + 4
          BY <2>2
        <5> QED  BY ONLY <5>1, <5>2
      <4>3. code \in {0, 3, 4}
        BY <2>2, CodeIs
      <4> HIDE DEF code, index
      <4>4. index \in 0..(L - 3) /\ index + 1 \in 0..(L - 3)
        BY <2>2, <3>1
      <4>5. code = 3 => index + 7 <= L
        BY <4>1, <4>4 DEF Followed
      <4>6. code = 4 => (index + 1) + 7 <= L
        BY <4>2, <4>4 DEF Followed
      <4> QED  BY <2>2, <4>3, <4>5, <4>6
    <3>3. CASE code > 0
      <4>1. t.at = "loop" /\ t.index = index + code
        <5>1. ~(index + (IF code = 3 THEN 3 ELSE 4) > L)
          <6> HIDE DEF code, index, L
          <6> QED  BY <2>2, <3>1, <3>2
        <5> HIDE DEF code
        <5> QED  BY <2>4, <3>3, <5>1 DEF ScanTurn, code
      <4>2. index + code + 4 <= L
        <5> HIDE DEF code, index, L
        <5> QED  BY <2>2, <3>2, <3>3
      <4> HIDE DEF t, code, index
      <4> QED  BY <2>1, <4>1, <4>2 DEF t
    <3>4. CASE ~(code > 0)
      <4>0. code = 0 /\ ~(index + 4 > L)
        <5> HIDE DEF code, index, L
        <5> QED  BY <2>2, <3>1, <3>2, <3>4
      <4>1. t = [s EXCEPT !.index = index + 1, !.at = IF index + 5 > L THEN "end" ELSE "loop"]
        <5> HIDE DEF code
        <5> QED  BY <2>4, <4>0 DEF ScanTurn, code
      <4>2. t.index = index + 1 /\ t.at = IF index + 5 > L THEN "end" ELSE "loop"
        <5>1. s \in ScanRec
          BY DEF ScanStates
        <5> HIDE DEF t, index
        <5> QED  BY <4>1, <5>1 DEF ScanRec
      <4> HIDE DEF t, index
      <4>3. t.at # "panic" /\ (t.at = "loop" => t.index + 4 <= L)
        BY <2>2, <4>2
      <4> QED  BY <2>1, <4>3 DEF t
    <3> QED  BY <3>3, <3>4
  <2> QED  BY <2>3, <2>4
<1>3. IsScan(Scan(src, n), S, src, n)
  <2> HIDE DEF S
  <2> QED  BY <1>1, <1>2, ScanRuns
<1>4. r \in S
  <2>1. Len(src) + 1 \in 0..(Len(src) + 1)
    OBVIOUS
  <2> HIDE DEF S
  <2> QED  BY ONLY <1>3, <2>1 DEF IsScan
<1>5. r.at # "panic"
  BY <1>4
<1> HIDE DEF r
<1> QED  BY <1>5 DEF ParseNalusN, r

-----------------------------------------------------------------------------
(* Elementary streams *)

UnitRec == [has : BOOLEAN, wrote : BOOLEAN, pps : Seq(Nat), out : Seq(Nat)]
AnnexbStart ==
  [at |-> "loop", index |-> 0, unit |-> [has |-> FALSE, wrote |-> FALSE, pps |-> <<>>, out |-> naluAud]]
IsAnnexb(annexb, S, src, info) ==
  /\ annexb[0] = AnnexbStart
  /\ \A k \in 0..(Len(src) + 1) : annexb[k] \in S
  /\ \A k \in 1..(Len(src) + 1) : annexb[k] = AnnexbTurn(src, info, annexb[k - 1])

\* The loop of getAnnexbH264 is the repetition of its turn, and stays in a set of
\* states that its turn stays in.
LEMMA AnnexbRuns ==
  ASSUME NEW src \in Seq(Nat), NEW info, NEW S, AnnexbStart \in S, \A s \in S : AnnexbTurn(src, info, s) \in S
  PROVE  IsAnnexb(Annexb(src, info), S, src, info)
<1> DEFINE N == Len(src) + 1
           a == AnnexbStart
           turn == [k \in Nat |-> [s \in S |-> AnnexbTurn(src, info, s)]]
           f == Annexb(src, info)
<1>1. N \in Nat /\ turn \in [Nat -> [S -> S]] /\ a \in S
  OBVIOUS
<1>2. PICK g : IsRun(g, S, a, turn, N)
  <2> HIDE DEF N, a, turn
  <2> QED  BY <1>1, LoopRuns
<1> HIDE DEF N, a
<1>3. g \in [0..N -> S] /\ g[0] = a /\ \A k \in 1..N : g[k] = turn[k][g[k - 1]]
  <2> HIDE DEF turn
  <2> QED  BY ONLY <1>2 DEF IsRun
<1>4. ASSUME NEW k \in 1..N  PROVE g[k] = AnnexbTurn(src, info, g[k - 1])
  <2>1. k \in Nat /\ k - 1 \in 0..N /\ g[k - 1] \in S
    BY <1>1, <1>3
  <2> QED  BY <1>3, <2>1
<1>5. g = [k \in 0..N |-> IF k = 0 THEN a ELSE AnnexbTurn(src, info, g[k - 1])]
  <2>1. ASSUME NEW k \in 0..N  PROVE g[k] = IF k = 0 THEN a ELSE AnnexbTurn(src, info, g[k - 1])
    <3>1. k = 0 \/ k \in 1..N
      BY <1>1
    <3> QED  BY <1>3, <1>4, <3>1
  <2> QED  BY <1>3, <2>1
<1>6. f = [k \in 0..N |-> IF k = 0 THEN a ELSE AnnexbTurn(src, info, f[k - 1])]
  <2> HIDE DEF turn
  <2> QED  BY <1>5 DEF Annexb, AnnexbStart, N, a
<1> HIDE DEF f
<1>7. f[0] = a /\ \A k \in 1..N : f[k] = AnnexbTurn(src, info, f[k - 1])
  BY <1>1, <1>6
<1> DEFINE T == {k \in 0..N : f[k] \in S}
<1>8. \A k \in 0..N : k \in T
  <2>1. 0 \in T
    BY <1>1, <1>7
  <2>2. ASSUME NEW k \in 1..N, k - 1 \in T  PROVE k \in T
    <3>1. k \in 0..N /\ f[k - 1] \in S
      BY <1>1, <2>2
    <3> QED  BY <1>7, <3>1
  <2> HIDE DEF T
  <2> QED  BY <1>1, <2>1, <2>2, UpTo
<1>9. \A k \in 0..N : f[k] \in S
  BY <1>8
<1> QED  BY <1>7, <1>9 DEF IsAnnexb, f, N, a

\* Three sequences put together.
LEMMA Three ==
  ASSUME NEW S, NEW a \in Seq(S), NEW b \in Seq(S), NEW c \in Seq(S)
  PROVE  a \o b \o c \in Seq(S)
  OBVIOUS

\* A unit more of the elementary stream.
LEMMA UnitType ==
  ASSUME NEW st \in UnitRec, NEW u \in Seq(Nat), NEW info \in Seq(Nat)
  PROVE  UnitToAnnexb(st, u, info) \in UnitRec
<1> DEFINE params == IF st.wrote THEN <<>> ELSE IF st.has THEN st.pps ELSE info
           t == UnitToAnnexb(st, u, info)
<1>1. st.pps \in Seq(Nat) /\ st.out \in Seq(Nat)
  BY DEF UnitRec
<1>2. params \in Seq(Nat)
  BY <1>1
<1>3. StartCode4 \o u \in Seq(Nat)
  BY CodesAre
<1>4. /\ st.out \o params \o StartCode4 \o u \in Seq(Nat)
      /\ st.out \o StartCode4 \o u \in Seq(Nat)
      /\ st.pps \o StartCode4 \o u \in Seq(Nat)
  <2> DEFINE x == st.out
             y == st.pps
  <2>1. x \in Seq(Nat) /\ y \in Seq(Nat) /\ StartCode4 \in Seq(Nat)
    BY <1>1, CodesAre
  <2> HIDE DEF x, y, params
  <2>2. x \o params \in Seq(Nat)
    BY <1>2, <2>1
  <2>3. (x \o params) \o StartCode4 \o u \in Seq(Nat) /\ x \o StartCode4 \o u \in Seq(Nat) /\ y \o StartCode4 \o u \in Seq(Nat)
    BY <2>1, <2>2, Three
  <2> QED  BY <2>3 DEF x, y
<1> DEFINE x5 == st.out \o params \o StartCode4 \o u
           x1 == st.out \o StartCode4 \o u
           x7 == st.pps \o StartCode4 \o u
<1>5. t \in {st, [st EXCEPT !.wrote = TRUE, !.out = x5], [st EXCEPT !.out = x1], [st EXCEPT !.has = TRUE, !.pps = x7]}
  <2> HIDE DEF params
  <2>1. CASE NaluType(u) = 5
    BY <2>1 DEF UnitToAnnexb, params
  <2>2. CASE NaluType(u) \in {1, 6}
    BY <2>2 DEF UnitToAnnexb, params
  <2>3. CASE NaluType(u) \in {7, 8}
    BY <2>3 DEF UnitToAnnexb, params
  <2>4. CASE NaluType(u) \notin {1, 5, 6, 7, 8}
    BY <2>4 DEF UnitToAnnexb, params
  <2> QED  BY <2>1, <2>2, <2>3, <2>4
<1> HIDE DEF x5, x1, x7, t
<1>6. x5 \in Seq(Nat) /\ x1 \in Seq(Nat) /\ x7 \in Seq(Nat)
  BY <1>4 DEF x5, x1, x7
<1>7. t \in UnitRec
  BY <1>5, <1>6 DEF UnitRec
<1> QED  BY <1>7 DEF t

\* A length of four bytes is a number.
LEMMA SizeType ==
  ASSUME NEW b \in Seq(Nat), Len(b) >= 4
  PROVE  naluSize(b) \in Nat
<1> DEFINE w == b[1]
           x == b[2]
           y == b[3]
           z == b[4]
<1>1. w \in Nat /\ x \in Nat /\ y \in Nat /\ z \in Nat
  OBVIOUS
<1> HIDE DEF w, x, y, z
<1>2. ((w * 256 + x) * 256 + y) * 256 + z \in Nat
  BY <1>1
<1> QED  BY <1>2 DEF naluSize, w, x, y, z

AnnexbRec == [at : {"loop", "end", "error"}, index : Nat, unit : UnitRec]

\* The elementary stream is bytes.
LEMMA AnnexbType ==
  ASSUME NEW src \in Seq(Nat), NEW info \in Seq(Nat)
  PROVE  getAnnexbH264(src, info).out \in Seq(Nat)
<1> DEFINE r == Annexb(src, info)[Len(src) + 1]
           res == getAnnexbH264(src, info)
<1>1. AnnexbStart \in AnnexbRec
  <2>1. naluAud \in Seq(Nat)
    <3>1. <<9, 240>> \in Seq(Nat)
      OBVIOUS
    <3> DEFINE x == <<9, 240>>
    <3> HIDE DEF x
    <3>2. StartCode4 \o x \in Seq(Nat)
      BY <3>1, CodesAre, Joined DEF x
    <3> QED  BY <3>2 DEF naluAud, x
  <2> QED  BY <2>1 DEF AnnexbStart, AnnexbRec, UnitRec
<1>2. ASSUME NEW s \in AnnexbRec  PROVE AnnexbTurn(src, info, s) \in AnnexbRec
  <2> DEFINE b == Rest(src, s.index)
             n == naluSize(b)
             t == AnnexbTurn(src, info, s)
             u == SubSeq(b, 5, 4 + n)
  <2>1. s.index \in Nat /\ s.unit \in UnitRec
    BY DEF AnnexbRec
  <2>2. b \in Seq(Nat)
    BY <2>1, RestIs
  <2> HIDE DEF b
  <2>3. CASE s.at # "loop" \/ b = <<>> \/ Len(b) < 4 \/ n = 0 \/ Len(b) - 4 < n
    <3> HIDE DEF n
    <3>1. t \in {s, [s EXCEPT !.at = "end"], [s EXCEPT !.at = "error"]}
      BY <2>3 DEF AnnexbTurn, b, n
    <3> QED  BY <3>1 DEF AnnexbRec
  <2>4. CASE ~(s.at # "loop" \/ b = <<>> \/ Len(b) < 4 \/ n = 0 \/ Len(b) - 4 < n)
    <3>1. n \in Nat
      BY <2>2, <2>4, SizeType
    <3> HIDE DEF n
    <3>2. u \in Seq(Nat)
      <4>1. 4 \in Nat /\ 4 + n \in Nat /\ 4 + n <= Len(b) /\ 4 + 1 = 5
        BY <2>2, <2>4, <3>1
      <4>2. SubSeq(b, 4 + 1, 4 + n) \in Seq(Nat)
        BY ONLY <2>2, <4>1, PartIs
      <4> QED  BY ONLY <4>1, <4>2
    <3>3. t = [s EXCEPT !.index = s.index + 4 + n, !.unit = UnitToAnnexb(s.unit, u, info)]
      BY <2>4 DEF AnnexbTurn, b, n
    <3> HIDE DEF u
    <3>4. s.index + 4 + n \in Nat /\ UnitToAnnexb(s.unit, u, info) \in UnitRec
      BY <2>1, <3>1, <3>2, UnitType
    <3> QED  BY <3>3, <3>4 DEF AnnexbRec
  <2> QED  BY <2>3, <2>4
<1>3. IsAnnexb(Annexb(src, info), AnnexbRec, src, info)
  BY <1>1, <1>2, AnnexbRuns
<1>4. r \in AnnexbRec
  <2>1. Len(src) + 1 \in 0..(Len(src) + 1)
    OBVIOUS
  <2> QED  BY ONLY <1>3, <2>1 DEF IsAnnexb
<1>5. r.unit.out \in Seq(Nat)
  BY <1>4 DEF AnnexbRec, UnitRec
<1>6. res = [ok |-> FALSE, out |-> <<>>] \/ res = [ok |-> r.at = "end", out |-> r.unit.out]
  <2> HIDE DEF r
  <2> QED  BY DEF getAnnexbH264, r
<1> HIDE DEF r, res
<1>7. res.out = <<>> \/ res.out = r.unit.out
  BY <1>6
<1>8. res.out \in Seq(Nat)
  <2>1. <<>> \in Seq(Nat)
    OBVIOUS
  <2> QED  BY ONLY <1>5, <1>7, <2>1
<1> QED  BY <1>8 DEF res

\* A configuration of parameter sets is bytes.
LEMMA RecordType ==
  ASSUME NEW sps \in Seq(Nat), NEW pps \in Seq(Nat)
  PROVE  NewAVCSequenceHeader(sps, pps) \in Seq(Nat)
<1> DEFINE s == StripIfStartCode(sps)
           p == StripIfStartCode(pps)
           h == <<1, 66, 0, 40, 255, 225>>
           q == <<1>>
           ls == U16(Len(s))
           lp == U16(Len(p))
           v == videoTagData(1, VIDEO_H264, 0)
<1>1. s \in Seq(Nat) /\ p \in Seq(Nat)
  BY DEF StripIfStartCode
<1>2. h \in Seq(Nat) /\ q \in Seq(Nat)
  OBVIOUS
<1> HIDE DEF s, p, h, q
<1>3. ls \in Seq(Nat) /\ lp \in Seq(Nat)
  <2>1. Len(s) \in Nat /\ Len(p) \in Nat
    BY <1>1
  <2> QED  BY <2>1, U16Is
<1>4. v \in Seq(Nat)
  BY DEF videoTagData, VIDEO_H264
<1> HIDE DEF ls, lp, v
<1>5. h \o ls \o s \o q \o lp \o p \in Seq(Nat)
  <2>1. h \o ls \o s \in Seq(Nat)
    BY <1>1, <1>2, <1>3, Three
  <2>2. (h \o ls \o s) \o q \o lp \in Seq(Nat)
    BY <1>2, <1>3, <2>1, Three
  <2> QED  BY <1>1, <2>2, Joined
<1>6. v \o (h \o ls \o s \o q \o lp \o p) \in Seq(Nat)
  BY <1>4, <1>5, Joined
<1> QED  BY <1>6 DEF NewAVCSequenceHeader, AVCDecoderConfigurationRecord, s, p, h, q, ls, lp, v

\* The tag that PackVideoData makes is bytes.
LEMMA PackType ==
  ASSUME NEW codec \in 0..15, NEW avcType \in Nat, NEW data \in Seq(Nat),
         PackVideoData(codec, avcType, data).ok
  PROVE  PackVideoData(codec, avcType, data).data \in Seq(Nat)
<1> DEFINE src == IF codec = VIDEO_H264 /\ isNaluHeader(data) THEN Rest(data, 4) ELSE data
           key == codec # VIDEO_H264 \/ NaluType(src) \in {5, 7, 8}
           cut == ParseNalusN(src, 3)
           params == codec = VIDEO_H264 /\ NaluType(src) \in {7, 8}
           v == videoTagData(IF key THEN 1 ELSE 2, codec, avcType)
           us == IF params THEN cut.nalus ELSE <<src>>
           res == PackVideoData(codec, avcType, data)
<1>1. src \in Seq(Nat)
  BY RestIs
<1> HIDE DEF src
<1>2. us \in Seq(Seq(Nat))
  BY <1>1, NalusType
<1>3. v \in Seq(Nat)
  <2> DEFINE k == IF key THEN 1 ELSE 2
  <2>1. k \in Nat /\ k * 16 + codec \in Nat
    OBVIOUS
  <2> HIDE DEF k
  <2> DEFINE x == k * 16 + codec
             a == <<x>>
             b == IF codec = VIDEO_H264 THEN <<avcType, 0, 0, 0>> ELSE <<>>
  <2>2. b \in Seq(Nat)
    OBVIOUS
  <2>3. a \in Seq(Nat)
    <3> HIDE DEF x
    <3> QED  BY <2>1 DEF x
  <2> HIDE DEF a, b
  <2>4. a \o b \in Seq(Nat)
    BY <2>2, <2>3, Joined
  <2> QED  BY <2>4 DEF videoTagData, a, b, x, k
<1>4. v \o Prefixed(us) \in Seq(Nat)
  <2> HIDE DEF v, us
  <2>1. Prefixed(us) \in Seq(Nat)
    BY <1>2, PrefixedType
  <2> QED  BY <1>3, <2>1, Joined
<1>5. res = [ok |-> FALSE, panic |-> FALSE]
      \/ res = [ok |-> TRUE, panic |-> params /\ cut.panic, data |-> v \o Prefixed(us)]
  <2> HIDE DEF v, us, cut, params
  <2> QED  BY DEF PackVideoData, v, us, cut, params, src
<1> HIDE DEF res, v, us, cut, params
<1>6. res.ok
  BY DEF res
<1>7. res.data = v \o Prefixed(us)
  BY <1>5, <1>6
<1> QED  BY <1>4, <1>7 DEF res

\* What parseSpecificInfo adds is bytes.
LEMMA InfoType == ASSUME NEW src \in Seq(Nat)  PROVE parseSpecificInfo(src).info \in Seq(Nat)
<1> DEFINE spsLen == src[7] * 256 + src[8]
           tmpBuf == Rest(src, 8 + spsLen)
           ppsLen == tmpBuf[2] * 256 + tmpBuf[3]
           good == /\ Len(src) >= 9
                   /\ spsLen > 0 /\ Len(src) - 8 >= spsLen
                   /\ Len(tmpBuf) >= 4
                   /\ ppsLen > 0 /\ Len(tmpBuf) - 3 >= ppsLen
           a == SubSeq(src, 9, 8 + spsLen)
           b == Rest(tmpBuf, 3)
           x == StartCode4 \o a \o StartCode4 \o b
<1>1. ASSUME good  PROVE x \in Seq(Nat)
  <2>1. spsLen \in Nat /\ 8 + spsLen <= Len(src) /\ 8 + spsLen \in Nat /\ 8 \in Nat /\ 8 + 1 = 9
    <3>1. Len(src) >= 9 /\ spsLen > 0 /\ Len(src) - 8 >= spsLen
      <4> HIDE DEF tmpBuf, ppsLen, spsLen
      <4> QED  BY ONLY <1>1
    <3>2. src[7] \in Nat /\ src[8] \in Nat /\ Len(src) \in Nat
      <4>1. Len(src) \in Nat /\ \A i \in 1..Len(src) : src[i] \in Nat
        OBVIOUS
      <4>2. 7 \in 1..Len(src) /\ 8 \in 1..Len(src)
        BY ONLY <3>1, <4>1
      <4> QED  BY ONLY <4>1, <4>2
    <3>3. spsLen \in Nat
      BY ONLY <3>2
    <3> HIDE DEF spsLen
    <3> QED  BY ONLY <3>1, <3>2, <3>3
  <2> HIDE DEF spsLen
  <2>2. a \in Seq(Nat)
    <3>1. SubSeq(src, 8 + 1, 8 + spsLen) \in Seq(Nat)
      BY ONLY <2>1, src \in Seq(Nat), PartIs
    <3> QED  BY ONLY <2>1, <3>1
  <2>3. tmpBuf \in Seq(Nat)
    BY <2>1, RestIs
  <2> HIDE DEF tmpBuf
  <2>4. b \in Seq(Nat)
    BY <2>3, RestIs
  <2> HIDE DEF a, b
  <2>5. StartCode4 \o a \o StartCode4 \in Seq(Nat)
    BY <2>2, CodesAre, Three
  <2> QED  BY <2>4, <2>5, Joined
<1>2. parseSpecificInfo(src).info = IF good THEN x ELSE <<>>
  <2> HIDE DEF good, x
  <2>1. parseSpecificInfo(src) = [ok |-> good, info |-> IF good THEN x ELSE <<>>]
    BY DEF parseSpecificInfo, good, x
  <2> QED  BY <2>1
<1> HIDE DEF good, x
<1> QED  BY <1>1, <1>2

-----------------------------------------------------------------------------
(* PES headers *)

\* Division with a remainder.
LEMMA DivIs ==
  ASSUME NEW a \in Int, NEW M \in Nat, M > 0
  PROVE  /\ a \div M \in Int /\ a % M \in 0..(M - 1) /\ a = M * (a \div M) + (a % M)
  OBVIOUS

\* The multiples of a number keep their distance.
LEMMA Mult == ASSUME NEW M \in Nat, M > 0, NEW k \in Int
  PROVE /\ k >= 1 => M * k >= M
        /\ k <= -1 => M * k <= -M
        /\ k = 0 => M * k = 0
  OBVIOUS

\* The time that writeTs keeps is right, or one tick ahead of a clock that has wrapped.
LEMMA Near ==
  ASSUME NEW C \in Nat, NEW u \in Nat
  PROVE  LET t == (IF u > C THEN u - C ELSE u) % (C + 1)
         IN  t \in Nat /\ (t - u) % (C + 1) \in {0, 1}
<1> DEFINE M == C + 1
           v == IF u > C THEN u - C ELSE u
           t == v % M
           q == v \div M
           d == (t - u) \div M
           e == (t - u) % M
<1>1. M \in Nat /\ M > 0 /\ v \in Nat
  OBVIOUS
<1> HIDE DEF M, v
<1>2. q \in Int /\ t \in 0..(M - 1) /\ v = M * q + t
  BY <1>1, DivIs
<1> HIDE DEF q, t
<1>3. t - u \in Int
  BY <1>1, <1>2
<1>4. d \in Int /\ e \in 0..(M - 1) /\ t - u = M * d + e
  BY <1>1, <1>3, DivIs
<1> HIDE DEF d, e
<1> DEFINE k == d + q
           mq == M * q
           md == M * d
           mk == M * k
<1>5. k \in Int /\ mk = md + mq /\ md \in Int /\ mq \in Int /\ mk \in Int
  BY <1>1, <1>2, <1>4
<1>6. (k >= 1 => mk >= M) /\ (k <= -1 => mk <= -M) /\ (k = 0 => mk = 0)
  <2> HIDE DEF k
  <2> QED  BY <1>1, <1>5, Mult
<1> HIDE DEF k, mq, md, mk
<1>7. v - u = mk + e
  <2>1. v = mq + t /\ t - u = md + e
    BY <1>2, <1>4 DEF mq, md
  <2> QED  BY ONLY <1>1, <1>2, <1>4, <1>5, <2>1, u \in Nat
<1>8. (v = u) \/ (v - u = 1 - M)
  BY <1>1 DEF v, M
<1>9. CASE v = u
  <2>1. mk + e = 0
    BY <1>1, <1>7, <1>9
  <2>2. e = 0
    BY ONLY <1>1, <1>4, <1>5, <1>6, <2>1
  <2> QED  BY <1>2, <2>2, <1>1 DEF e, t, v, M
<1>10. CASE v - u = 1 - M
  <2>1. mk + e = 1 - M
    BY ONLY <1>7, <1>10
  <2>2. (k + 1 >= 1 => mk + M >= M) /\ (k + 1 <= -1 => mk + M <= -M) /\ (k + 1 = 0 => mk + M = 0)
    <3>1. k + 1 \in Int /\ M * (k + 1) = mk + M
      BY <1>1, <1>5 DEF mk
    <3> DEFINE j == k + 1
    <3> HIDE DEF j
    <3>2. (j >= 1 => M * j >= M) /\ (j <= -1 => M * j <= -M) /\ (j = 0 => M * j = 0)
      BY <1>1, <3>1, Mult DEF j
    <3> QED  BY <3>1, <3>2 DEF j
  <2>3. e = 0 \/ e = 1
    BY ONLY <1>1, <1>4, <1>5, <2>1, <2>2
  <2> QED  BY <1>2, <2>3, <1>1 DEF e, t, v, M
<1> QED  BY <1>8, <1>9, <1>10

\* The bytes of a PES packet; those of a timestamp are kept together.
TsByte == Nat \cup (Nat \X Nat \X Nat)
Clock(ts) == (IF ts > ClockMax THEN ts - ClockMax ELSE ts) % (ClockMax + 1)

\* The elements of two sequences put together.
IsJoin(z, S, a, p, b, q) ==
  /\ z \in Seq(S) /\ Len(z) = p + q
  /\ \A i \in 1..p : z[i] = a[i]
  /\ \A i \in 1..q : z[p + i] = b[i]

\* Two sequences put together have the elements of the first, then those of the second.
LEMMA JoinedAt ==
  ASSUME NEW S, NEW a \in Seq(S), NEW b \in Seq(S)
  PROVE  IsJoin(a \o b, S, a, Len(a), b, Len(b))
  BY DEF IsJoin

\* The five bytes of a timestamp.
LEMMA WriteTs ==
  ASSUME NEW fb \in Nat, NEW ts \in Nat
  PROVE  writeTs(fb, ts) \in Seq(TsByte) /\ Len(writeTs(fb, ts)) = 5 /\ writeTs(fb, ts)[1][2] = Clock(ts)
<1> DEFINE t == Clock(ts)
<1>1. t \in Nat
  BY CodecAssumption, Near DEF Clock
<1>2. writeTs(fb, ts) = [i \in 1..5 |-> <<fb, t, i>>]
  BY DEF writeTs, Clock
<1> HIDE DEF t
<1>3. \A i \in 1..5 : <<fb, t, i>> \in Nat \X Nat \X Nat
  BY <1>1
<1>4. [i \in 1..5 |-> <<fb, t, i>>] \in [1..5 -> Nat \X Nat \X Nat]
  BY <1>3
<1>5. [i \in 1..5 |-> <<fb, t, i>>] \in [1..5 -> TsByte]
  <2> DEFINE X == Nat \X Nat \X Nat
             f == [i \in 1..5 |-> <<fb, t, i>>]
  <2> HIDE DEF X, f
  <2>1. f \in [1..5 -> X]
    BY <1>4 DEF X, f
  <2>2. f \in [1..5 -> Nat \cup X]
    BY <2>1
  <2> QED  BY <2>2 DEF TsByte, X, f
<1>6. [i \in 1..5 |-> <<fb, t, i>>][1] = <<fb, t, 1>> /\ <<fb, t, 1>>[2] = t
  OBVIOUS
<1> DEFINE f == [i \in 1..5 |-> <<fb, t, i>>]
<1> HIDE DEF f, TsByte
<1>7. f \in Seq(TsByte) /\ Len(f) = 5
  BY <1>5, MadeSeq DEF f
<1> QED  BY <1>2, <1>6, <1>7 DEF f, t

\* Two bytes give the number back.
LEMMA U16Read ==
  ASSUME NEW n \in Nat, n <= 65535
  PROVE  U16(n)[1] * 256 + U16(n)[2] = n /\ U16(n)[1] \in Nat /\ U16(n)[2] \in Nat
<1> DEFINE x == (n \div 256) % 256
           y == n % 256
<1>1. x * 256 + y = n /\ x \in Nat /\ y \in Nat
  OBVIOUS
<1> HIDE DEF x, y
<1>2. <<x, y>>[1] = x /\ <<x, y>>[2] = y
  OBVIOUS
<1> QED  BY <1>1, <1>2 DEF U16, x, y

\* What a PES header says: the size of what follows it, unless that is too much, its
\* own length, and the times.
PesOK(h, video, len, pts, dts) ==
  LET both == video /\ pts # dts
      size == Len(h) + len - 6
  IN  /\ h \in Seq(TsByte) /\ Len(h) \in {14, 19} /\ Len(h) = (IF both THEN 19 ELSE 14)
      /\ h[1] = 0 /\ h[2] = 0 /\ h[3] = 1
      /\ h[5] * 256 + h[6] = IF size > 65535 THEN 0 ELSE size
      /\ h[8] = IF both THEN 192 ELSE 128
      /\ h[9] = IF both THEN 10 ELSE 5
      /\ h[10][2] = Clock(pts)
      /\ both => h[15][2] = Clock(dts)

\* pesHeader.packet writes a header that says its own length, that of the data, and the times.
LEMMA PesIs ==
  ASSUME NEW video \in BOOLEAN, NEW len \in Nat, NEW pts \in Nat, NEW dts \in Nat
  PROVE  PesOK(pesHeader(video, len, pts, dts), video, len, pts, dts)
<1> DEFINE both == video /\ pts # dts
           headerSize == IF both THEN 10 ELSE 5
           size == len + headerSize + 3
           sz == IF size > 65535 THEN 0 ELSE size
           a == <<0, 0, 1, IF video THEN 224 ELSE 192>>
           b == U16(sz)
           c == <<128, IF both THEN 192 ELSE 128, headerSize>>
           d == IF both THEN writeTs(3, pts) \o writeTs(1, dts) ELSE writeTs(2, pts)
           ab == a \o b
           abc == ab \o c
           h == abc \o d
<1>1. headerSize \in Nat /\ size \in Nat /\ sz \in Nat /\ sz <= 65535
  OBVIOUS
<1>2. a \in Seq(Nat) /\ Len(a) = 4 /\ a[1] = 0 /\ a[2] = 0 /\ a[3] = 1
  <2> DEFINE v == IF video THEN 224 ELSE 192
  <2>1. v \in Nat
    OBVIOUS
  <2> HIDE DEF v
  <2> QED  BY <2>1 DEF v
<1>3. b \in Seq(Nat) /\ Len(b) = 2 /\ b[1] * 256 + b[2] = sz
  <2> HIDE DEF sz
  <2> QED  BY <1>1, U16Is, U16Read
<1>4. c \in Seq(Nat) /\ Len(c) = 3 /\ c[2] = (IF both THEN 192 ELSE 128) /\ c[3] = headerSize
  <2> DEFINE v == IF both THEN 192 ELSE 128
  <2>1. v \in Nat
    OBVIOUS
  <2> HIDE DEF v, headerSize
  <2>2. c = <<128, v, headerSize>>
    BY DEF v
  <2> QED  BY <1>1, <2>1, <2>2 DEF v
<1>5. /\ d \in Seq(TsByte) /\ Len(d) = headerSize /\ d[1][2] = Clock(pts)
      /\ both => d[6][2] = Clock(dts)
  <2>1. CASE both
    <3> DEFINE x == writeTs(3, pts)
               y == writeTs(1, dts)
    <3>1. /\ x \in Seq(TsByte) /\ Len(x) = 5 /\ x[1][2] = Clock(pts)
          /\ y \in Seq(TsByte) /\ Len(y) = 5 /\ y[1][2] = Clock(dts)
      BY WriteTs
    <3> HIDE DEF x, y, TsByte
    <3>2. x \o y \in Seq(TsByte) /\ Len(x \o y) = 10 /\ (x \o y)[1] = x[1] /\ (x \o y)[6] = y[1]
      <4> DEFINE z == x \o y
      <4>1. z \in Seq(TsByte) /\ Len(z) = 5 + 5 /\ (\A i \in 1..5 : z[i] = x[i]) /\ \A i \in 1..5 : z[5 + i] = y[i]
        <5>1. IsJoin(x \o y, TsByte, x, Len(x), y, Len(y))
          BY <3>1, JoinedAt
        <5> QED  BY ONLY <3>1, <5>1 DEF IsJoin
      <4> HIDE DEF z
      <4>2. z[1] = x[1] /\ z[5 + 1] = y[1]
        BY ONLY <4>1, 1 \in 1..5
      <4> QED  BY <4>1, <4>2 DEF z
    <3>3. d = x \o y /\ headerSize = 10
      BY <2>1 DEF x, y
    <3> HIDE DEF d, headerSize
    <3> QED  BY <3>1, <3>2, <3>3
  <2>2. CASE ~both
    <3>1. d = writeTs(2, pts) /\ headerSize = 5
      BY <2>2
    <3> HIDE DEF d, headerSize, both
    <3> QED  BY <2>2, <3>1, WriteTs
  <2> QED  BY <2>1, <2>2
<1> DEFINE W == TsByte
<1>6. a \in Seq(W) /\ b \in Seq(W) /\ c \in Seq(W)
  <2> HIDE DEF a, b, c
  <2>1. Nat \subseteq TsByte
    BY DEF TsByte
  <2> HIDE DEF W
  <2> QED  BY <1>2, <1>3, <1>4, <2>1 DEF W
<1> HIDE DEF a, b, c, d, sz, W
<1>7. /\ ab \in Seq(W) /\ Len(ab) = 6 /\ ab[1] = a[1] /\ ab[2] = a[2] /\ ab[3] = a[3]
      /\ ab[5] = b[1] /\ ab[6] = b[2]
  <2>1. ab \in Seq(W) /\ Len(ab) = 4 + 2 /\ (\A i \in 1..4 : ab[i] = a[i]) /\ \A i \in 1..2 : ab[4 + i] = b[i]
    <3>1. IsJoin(a \o b, W, a, Len(a), b, Len(b))
      BY <1>6, JoinedAt
    <3> QED  BY ONLY <1>2, <1>3, <3>1 DEF IsJoin
  <2> HIDE DEF ab
  <2>2. ab[1] = a[1] /\ ab[2] = a[2] /\ ab[3] = a[3] /\ ab[4 + 1] = b[1] /\ ab[4 + 2] = b[2]
    BY <2>1
  <2> QED  BY <2>1, <2>2
<1> HIDE DEF ab
<1>8. /\ abc \in Seq(W) /\ Len(abc) = 9 /\ abc[1] = ab[1] /\ abc[2] = ab[2] /\ abc[3] = ab[3]
      /\ abc[5] = ab[5] /\ abc[6] = ab[6] /\ abc[8] = c[2] /\ abc[9] = c[3]
  <2>1. abc \in Seq(W) /\ Len(abc) = 6 + 3 /\ (\A i \in 1..6 : abc[i] = ab[i]) /\ \A i \in 1..3 : abc[6 + i] = c[i]
    <3>1. IsJoin(ab \o c, W, ab, Len(ab), c, Len(c))
      BY <1>6, <1>7, JoinedAt
    <3> QED  BY ONLY <1>4, <1>7, <3>1 DEF IsJoin
  <2> HIDE DEF abc
  <2>2. /\ abc[1] = ab[1] /\ abc[2] = ab[2] /\ abc[3] = ab[3] /\ abc[5] = ab[5] /\ abc[6] = ab[6]
        /\ abc[6 + 2] = c[2] /\ abc[6 + 3] = c[3]
    BY <2>1
  <2> QED  BY <2>1, <2>2
<1> HIDE DEF abc
<1>9. d \in Seq(W)
  BY <1>5 DEF W
<1>10. Len(d) \in Nat /\ Len(d) >= 5 /\ (both => Len(d) = 10) /\ (~both => Len(d) = 5)
  BY <1>5
<1> HIDE DEF both, headerSize
<1>11. /\ h \in Seq(W) /\ Len(h) = 9 + Len(d) /\ h[1] = abc[1] /\ h[2] = abc[2] /\ h[3] = abc[3]
       /\ h[5] = abc[5] /\ h[6] = abc[6] /\ h[8] = abc[8] /\ h[9] = abc[9]
       /\ h[10] = d[1] /\ (both => h[15] = d[6])
  <2> DEFINE q == Len(d)
  <2>1. q \in Nat /\ q >= 5 /\ (both => q = 10)
    BY <1>10
  <2>2. h \in Seq(W) /\ Len(h) = 9 + q /\ (\A i \in 1..9 : h[i] = abc[i]) /\ \A i \in 1..q : h[9 + i] = d[i]
    <3>1. IsJoin(abc \o d, W, abc, Len(abc), d, Len(d))
      BY <1>8, <1>9, JoinedAt
    <3>2. Len(abc) = 9
      BY ONLY <1>8
    <3> QED  BY ONLY <3>1, <3>2 DEF IsJoin
  <2> HIDE DEF h, q
  <2>3. /\ h[1] = abc[1] /\ h[2] = abc[2] /\ h[3] = abc[3]
        /\ h[5] = abc[5] /\ h[6] = abc[6] /\ h[8] = abc[8] /\ h[9] = abc[9]
    BY <2>2
  <2>4. h[9 + 1] = d[1] /\ (both => h[9 + 6] = d[6])
    BY <2>1, <2>2
  <2> QED  BY <2>2, <2>3, <2>4 DEF q
<1>12. h = pesHeader(video, len, pts, dts)
  BY DEF pesHeader, h, abc, ab, a, b, c, d, sz, size, headerSize, both
<1> HIDE DEF h
<1>13. Len(h) \in {14, 19} /\ Len(h) = (IF both THEN 19 ELSE 14) /\ Len(h) + len - 6 = size
  <2>0. Len(h) = 9 + Len(d) /\ (both => Len(d) = 10) /\ (~both => Len(d) = 5)
    BY ONLY <1>10, <1>11
  <2>1. CASE both
    <3>00. Len(h) = 9 + 10
      BY ONLY <2>0, <2>1, Zenon
    <3>0. Len(h) = 9 + 10 /\ 9 + 10 = 19
      BY ONLY <3>00
    <3>1. Len(h) = 19 /\ headerSize = 10
      <4>1. headerSize = 10
        BY ONLY <2>1, Zenon DEF headerSize
      <4> QED  BY ONLY <3>0, <4>1
    <3>2. 19 + len - 6 = len + 10 + 3
      OBVIOUS
    <3> QED  BY ONLY <2>1, <3>1, <3>2
  <2>2. CASE ~both
    <3>00. Len(h) = 9 + 5
      BY ONLY <2>0, <2>2, Zenon
    <3>0. Len(h) = 9 + 5 /\ 9 + 5 = 14
      BY ONLY <3>00
    <3>1. Len(h) = 14 /\ headerSize = 5
      <4>1. headerSize = 5
        BY ONLY <2>2, Zenon DEF headerSize
      <4> QED  BY ONLY <3>0, <4>1
    <3>2. 14 + len - 6 = len + 5 + 3
      OBVIOUS
    <3> QED  BY ONLY <2>2, <3>1, <3>2
  <2> QED  BY <2>1, <2>2
<1>14. h[5] * 256 + h[6] = IF size > 65535 THEN 0 ELSE size
  BY <1>3, <1>7, <1>8, <1>11 DEF sz
<1>15. h[8] = (IF both THEN 192 ELSE 128) /\ h[9] = IF both THEN 10 ELSE 5
  BY ONLY <1>4, <1>8, <1>11 DEF headerSize
<1>16. h[1] = 0 /\ h[2] = 0 /\ h[3] = 1 /\ h[10][2] = Clock(pts) /\ (both => h[15][2] = Clock(dts))
  BY ONLY <1>2, <1>5, <1>7, <1>8, <1>11
<1>17. PesOK(h, video, len, pts, dts)
  <2>1. h \in Seq(TsByte)
    BY <1>11 DEF W
  <2> HIDE DEF size, both
  <2>2. h[5] * 256 + h[6] = IF Len(h) + len - 6 > 65535 THEN 0 ELSE Len(h) + len - 6
    BY ONLY <1>13, <1>14
  <2>3. /\ Len(h) \in {14, 19} /\ Len(h) = (IF both THEN 19 ELSE 14)
        /\ h[8] = (IF both THEN 192 ELSE 128) /\ h[9] = IF both THEN 10 ELSE 5
    BY ONLY <1>13, <1>15
  <2> QED  BY ONLY <1>16, <2>1, <2>2, <2>3 DEF PesOK, both
<1> QED  BY <1>12, <1>17

\* The packets, and the header that Mux makes.
MuxRight(video, data, timeStamp, compositionTime, c) ==
  LET dts == timeStamp * 90
      pts == IF video THEN dts + compositionTime * 90 ELSE dts
      pes == pesHeader(video, Len(data), pts, dts)
  IN  /\ MuxGood(Mux(video, data, timeStamp, compositionTime, c), TsByte, IF video THEN 256 ELSE 257, pes, data, c)
      /\ PesOK(pes, video, Len(data), pts, dts)

\* Mux, with the header it makes.
LEMMA MuxWhole ==
  ASSUME NEW video \in BOOLEAN, NEW data \in Seq(Nat), NEW timeStamp \in Nat, NEW compositionTime \in Nat,
         NEW c \in 0..CcMax
  PROVE  MuxRight(video, data, timeStamp, compositionTime, c)
<1> DEFINE dts == timeStamp * 90
           pts == IF video THEN dts + compositionTime * 90 ELSE dts
           pes == pesHeader(video, Len(data), pts, dts)
           pid == IF video THEN 256 ELSE 257
           r == MuxLoop(pid, pes, data, c)[Len(pes) + Len(data)]
<1>1. dts \in Nat /\ pts \in Nat /\ Len(data) \in Nat
  OBVIOUS
<1>2. Mux(video, data, timeStamp, compositionTime, c) = r
  BY DEF Mux
<1> HIDE DEF dts, pts
<1>3. PesOK(pes, video, Len(data), pts, dts)
  BY <1>1, PesIs
<1> HIDE DEF pes, pid
<1>4. pes \in Seq(TsByte) /\ 1 <= Len(pes) /\ Len(pes) <= 19
  <2>1. pes \in Seq(TsByte) /\ Len(pes) \in {14, 19}
    <3> HIDE DEF TsByte
    <3> QED  BY ONLY <1>3 DEF PesOK
  <2> DEFINE n == Len(pes)
  <2>2. n \in {14, 19}
    BY <2>1
  <2> HIDE DEF n
  <2>3. 1 <= n /\ n <= 19
    BY ONLY <2>2
  <2> QED  BY <2>1, <2>3 DEF n
<1>5. data \in Seq(TsByte)
  <2>1. Nat \subseteq TsByte
    BY DEF TsByte
  <2> QED  BY <2>1
<1>7. MuxGood(r, TsByte, pid, pes, data, c)
  <2> HIDE DEF TsByte
  <2> QED  BY <1>4, <1>5, MuxIs
<1> QED  BY ONLY <1>2, <1>3, <1>7 DEF MuxRight, dts, pts, pes, pid

-----------------------------------------------------------------------------
(* AAC *)

\* A decoder reads the configuration that was written.
LEMMA ConfigBack ==
  ASSUME NEW idx \in 0..15, NEW ch \in 0..15
  PROVE  /\ SpecificConfig(2, idx, ch) \in Seq(Nat) /\ Len(SpecificConfig(2, idx, ch)) = 2
         /\ specificInfo(SpecificConfig(2, idx, ch)) = [objectType |-> 2, sampleRate |-> idx, channel |-> ch]
<1> DEFINE x == (2 * 8) + (idx \div 2)
           y == ((idx * 128) % 256) + ch * 8
<1>1. x \in Nat /\ y \in Nat
  OBVIOUS
<1>2. x \div 8 = 2 /\ (x % 8) * 2 + (y \div 128) = idx /\ (y \div 8) % 16 = ch
  OBVIOUS
<1> HIDE DEF x, y
<1>3. <<x, y>> \in Seq(Nat) /\ Len(<<x, y>>) = 2 /\ <<x, y>>[1] = x /\ <<x, y>>[2] = y
  BY <1>1
<1>4. SpecificConfig(2, idx, ch) = <<x, y>>
  BY DEF SpecificConfig, x, y
<1> DEFINE z == SpecificConfig(2, idx, ch)
<1> HIDE DEF z
<1>5. z[1] = x /\ z[2] = y
  BY <1>3, <1>4 DEF z
<1>6. specificInfo(z) = [objectType |-> 2, sampleRate |-> idx, channel |-> ch]
  BY ONLY <1>2, <1>5 DEF specificInfo
<1> QED  BY <1>3, <1>4, <1>6 DEF z

\* The two high bits of a length of 13 bits.
LEMMA High ==
  ASSUME NEW f \in Nat
  PROVE  ((f * 8) % 65536) \div 16384 \in 0..3 /\ ((f * 8) % 65536) \div 16384 = (f % 8192) \div 2048
<1> DEFINE q == f \div 8192
           g == f % 8192
           a == g \div 2048
           b == g % 2048
<1>1. q \in Nat /\ g \in 0..8191 /\ f = 8192 * q + g
  OBVIOUS
<1> HIDE DEF q, g
<1>2. a \in 0..3 /\ b \in 0..2047 /\ g = 2048 * a + b
  <2>1. g \in Nat /\ g <= 8191
    BY <1>1
  <2>2. b \in 0..2047 /\ a \in Nat /\ g = 2048 * a + b
    BY ONLY <2>1
  <2> HIDE DEF a, b
  <2> QED  BY ONLY <2>1, <2>2
<1>3. (f * 8) % 65536 = g * 8
  BY <1>1
<1> HIDE DEF a, b
<1>4. (g * 8) \div 16384 = a
  BY <1>1, <1>2
<1> QED  BY <1>2, <1>3, <1>4 DEF a, g

\* The eight bits after them.
LEMMA Middle ==
  ASSUME NEW f \in Nat
  PROVE  ((f * 32) % 65536) \div 256 \in Nat /\ ((f * 32) % 65536) \div 256 = (f % 2048) \div 8
<1> DEFINE q == f \div 2048
           g == f % 2048
           a == g \div 8
           b == g % 8
<1>1. q \in Nat /\ g \in 0..2047 /\ f = 2048 * q + g
  OBVIOUS
<1> HIDE DEF q, g
<1>2. a \in 0..255 /\ b \in 0..7 /\ g = 8 * a + b
  BY <1>1
<1>3. (f * 32) % 65536 = g * 32
  BY <1>1
<1> HIDE DEF a, b
<1>4. (g * 32) \div 256 = a
  BY <1>1, <1>2
<1> QED  BY <1>2, <1>3, <1>4 DEF a, g

\* The length from its parts.
LEMMA Whole ==
  ASSUME NEW f \in Nat
  PROVE  ((f % 8192) \div 2048) * 2048 + ((f % 2048) \div 8) * 8 + (f % 8) = f % 8192
<1> DEFINE q == f \div 8192
           g == f % 8192
           a == g \div 2048
           b == g % 2048
           c == b \div 8
           d == b % 8
<1>1. q \in Nat /\ g \in 0..8191 /\ f = 8192 * q + g
  OBVIOUS
<1> HIDE DEF q, g
<1>2. a \in 0..3 /\ b \in 0..2047 /\ g = 2048 * a + b
  <2>1. g \in Nat /\ g <= 8191
    BY <1>1
  <2>2. b \in 0..2047 /\ a \in Nat /\ g = 2048 * a + b
    BY ONLY <2>1
  <2> HIDE DEF a, b
  <2> QED  BY ONLY <2>1, <2>2
<1> HIDE DEF a, b
<1>3. c \in 0..255 /\ d \in 0..7 /\ b = 8 * c + d
  BY <1>2
<1> HIDE DEF c, d
<1>4. f % 2048 = b
  BY <1>1, <1>2
<1>5. f % 8 = d
  BY <1>1, <1>2, <1>3
<1>6. a * 2048 + c * 8 + d = g
  BY <1>1, <1>2, <1>3
<1>7. a = (f % 8192) \div 2048 /\ c = (f % 2048) \div 8
  BY <1>4 DEF a, c, g
<1> QED  BY <1>5, <1>6, <1>7 DEF g

\* What an ADTS frame says of itself.
AdtsOK(e, idx, ch, src) ==
  /\ e \in Seq(Nat) /\ Len(e) = Len(src) + 7 /\ Rest(e, 7) = src
  /\ (e[4] % 4) * 2048 + e[5] * 8 + (e[6] \div 32) = Len(e) % 8192
  /\ (e[3] % 64) \div 4 = idx
  /\ (e[3] % 2) * 4 + (e[4] \div 64) = ch

\* The header that adts writes gives the frame's length, rate index and channels back.
LEMMA AdtsIs ==
  ASSUME NEW idx \in 0..15, NEW ch \in 0..3, NEW src \in Seq(Nat)
  PROVE  AdtsOK(adtsHeader([objectType |-> 2, sampleRate |-> idx, channel |-> ch], Len(src)) \o src, idx, ch, src)
<1> DEFINE len == Len(src)
           f == len + 7
           e3 == (((2 - 1) * 64) % 256) + idx * 4
           e4 == ((ch * 64) % 256) + (((f * 8) % 65536) \div 16384)
           e5 == ((f * 32) % 65536) \div 256
           e6 == (f % 8) * 32 + 31
           h == <<255, 241, e3, e4, e5, e6, 252>>
           e == h \o src
<1>1. len \in Nat /\ f \in Nat
  OBVIOUS
<1> HIDE DEF len
<1>2. e3 \in Nat /\ (e3 % 64) \div 4 = idx /\ e3 % 2 = 0
  OBVIOUS
<1>3. ((f * 8) % 65536) \div 16384 \in 0..3 /\ ((f * 8) % 65536) \div 16384 = (f % 8192) \div 2048
  <2> HIDE DEF f
  <2> QED  BY <1>1, High
<1>5. e4 \in Nat /\ e4 % 4 = (f % 8192) \div 2048 /\ e4 \div 64 = ch
  <2> DEFINE t == ((f * 8) % 65536) \div 16384
  <2>1. t \in 0..3 /\ t = (f % 8192) \div 2048
    BY <1>3
  <2> HIDE DEF t
  <2>2. (ch * 64) % 256 = ch * 64 /\ ch * 64 + t \in Nat /\ (ch * 64 + t) % 4 = t /\ (ch * 64 + t) \div 64 = ch
    <3>1. t \in 0..3
      BY <2>1
    <3>2. CASE ch = 0
      BY ONLY <3>1, <3>2
    <3>3. CASE ch = 1
      BY ONLY <3>1, <3>3
    <3>4. CASE ch = 2
      BY ONLY <3>1, <3>4
    <3>5. CASE ch = 3
      BY ONLY <3>1, <3>5
    <3> QED  BY <3>2, <3>3, <3>4, <3>5
  <2>3. e4 = ch * 64 + t
    <3>1. e4 = ((ch * 64) % 256) + t
      BY DEF t
    <3> HIDE DEF e4
    <3> QED  BY ONLY <2>2, <3>1
  <2> HIDE DEF e4
  <2> QED  BY ONLY <2>1, <2>2, <2>3
<1>6. e5 \in Nat /\ e5 = (f % 2048) \div 8
  <2> HIDE DEF f
  <2> QED  BY <1>1, Middle
<1>7. e6 \in Nat /\ e6 \div 32 = f % 8
  <2> DEFINE g == f % 8
  <2>1. g \in 0..7
    BY <1>1
  <2> HIDE DEF g
  <2>2. g * 32 + 31 \in Nat /\ (g * 32 + 31) \div 32 = g
    BY <2>1
  <2> QED  BY <2>2 DEF g
<1>8. ((f % 8192) \div 2048) * 2048 + ((f % 2048) \div 8) * 8 + (f % 8) = f % 8192
  <2> HIDE DEF f
  <2> QED  BY <1>1, Whole
<1> HIDE DEF e3, e4, e5, e6, f
<1>9. /\ h \in Seq(Nat) /\ Len(h) = 7 /\ h[3] = e3 /\ h[4] = e4 /\ h[5] = e5 /\ h[6] = e6
  BY <1>2, <1>5, <1>6, <1>7
<1>10. adtsHeader([objectType |-> 2, sampleRate |-> idx, channel |-> ch], len) = h
  BY DEF adtsHeader, e3, e4, e5, e6, f
<1> HIDE DEF h
<1>11. /\ e \in Seq(Nat) /\ Len(e) = len + 7 /\ Rest(e, 7) = src
       /\ e[3] = e3 /\ e[4] = e4 /\ e[5] = e5 /\ e[6] = e6
  <2>1. IsJoin(h \o src, Nat, h, Len(h), src, Len(src))
    BY <1>9, JoinedAt
  <2>2. e \in Seq(Nat) /\ Len(e) = 7 + Len(src) /\ \A i \in 1..7 : e[i] = h[i]
    BY ONLY <1>9, <2>1 DEF IsJoin
  <2>3. Rest(h \o src, Len(h)) = src
    BY <1>9, Joined
  <2> HIDE DEF e
  <2>4. e[3] = e3 /\ e[4] = e4 /\ e[5] = e5 /\ e[6] = e6
    BY <1>9, <2>2
  <2> QED  BY <1>1, <1>9, <2>2, <2>3, <2>4 DEF e, len
<1> HIDE DEF e
<1>12. AdtsOK(e, idx, ch, src)
  <2>1. Len(e) = f
    BY <1>11 DEF f
  <2>2. (e[4] % 4) * 2048 + e[5] * 8 + (e[6] \div 32) = Len(e) % 8192
    BY ONLY <1>5, <1>6, <1>7, <1>8, <1>11, <2>1
  <2>3. (e[3] % 64) \div 4 = idx
    BY ONLY <1>2, <1>11
  <2>4. (e[3] % 2) * 4 + (e[4] \div 64) = ch
    BY <1>2, <1>5, <1>11
  <2> QED  BY <1>11, <2>2, <2>3, <2>4 DEF AdtsOK, len
<1> QED  BY <1>10, <1>12 DEF e, len

-----------------------------------------------------------------------------
(* FLV headers *)

AH == [format : 0..15, rate : 0..13, size : 0..1, type : 0..1]

\* An AAC tag, as Demux reads it.
TagOK(d, t, body) ==
  LET h == ParseAudioHeader(d)
  IN  d \in Seq(Nat) /\ h.ok /\ h.format = SOUND_AAC /\ h.aacPacketType = t /\ h.body = body

\* Demux reads the packet type and the body that were put under an audio header.
LEMMA TagIs ==
  ASSUME NEW ah \in AH, ah.format = SOUND_AAC, NEW t \in 0..1, NEW body \in Seq(Nat)
  PROVE  TagOK(audioTagData(ah, t) \o body, t, body)
<1> DEFINE rate == ah.rate
           size == ah.size
           type == ah.type
           x == SOUND_AAC * 16 + (rate % 4) * 4 + size * 2 + type
           h == <<x>> \o <<t>>
           d == h \o body
           p == ParseAudioHeader(d)
<1>1. rate \in 0..13 /\ size \in 0..1 /\ type \in 0..1
  BY DEF AH
<1>2. audioTagData(ah, t) = <<x>> \o <<t>>
  BY DEF audioTagData
<1> HIDE DEF rate, size, type
<1>3. x \in Nat /\ x \div 16 = SOUND_AAC
  <2> DEFINE y == (rate % 4) * 4 + size * 2 + type
  <2>1. y \in 0..15 /\ x = 160 + y
    BY <1>1 DEF SOUND_AAC
  <2> HIDE DEF y, x
  <2>2. x \in Nat /\ x \div 16 = 10
    BY ONLY <2>1
  <2> QED  BY <2>2 DEF SOUND_AAC
<1> HIDE DEF x
<1>5. h \in Seq(Nat) /\ Len(h) = 2 /\ h[1] = x /\ h[2] = t
  <2> DEFINE a == <<x>>
             b == <<t>>
  <2>1. a \in Seq(Nat) /\ Len(a) = 1 /\ a[1] = x /\ b \in Seq(Nat) /\ Len(b) = 1 /\ b[1] = t
    BY <1>3
  <2> HIDE DEF a, b
  <2>2. IsJoin(a \o b, Nat, a, Len(a), b, Len(b))
    BY <2>1, JoinedAt
  <2> DEFINE z == a \o b
  <2>3. z \in Seq(Nat) /\ Len(z) = 1 + 1 /\ (\A i \in 1..1 : z[i] = a[i]) /\ \A i \in 1..1 : z[1 + i] = b[i]
    BY ONLY <2>1, <2>2 DEF IsJoin
  <2> HIDE DEF z
  <2>4. z[1] = x /\ z[1 + 1] = t
    BY <2>1, <2>3
  <2> QED  BY <2>3, <2>4 DEF z, a, b
<1> HIDE DEF h
<1>6. d \in Seq(Nat) /\ Len(d) = 2 + Len(body) /\ d[1] = x /\ d[2] = t /\ Rest(d, 2) = body /\ d # <<>>
  <2>1. IsJoin(h \o body, Nat, h, Len(h), body, Len(body))
    BY <1>5, JoinedAt
  <2>2. d \in Seq(Nat) /\ Len(d) = 2 + Len(body) /\ \A i \in 1..2 : d[i] = h[i]
    BY ONLY <1>5, <2>1 DEF IsJoin
  <2>3. Rest(h \o body, Len(h)) = body
    BY <1>5, Joined
  <2>4. Rest(d, 2) = body
    BY ONLY <1>5, <2>3
  <2> HIDE DEF d
  <2>5. d[1] = x /\ d[2] = t
    BY <1>5, <2>2
  <2>6. d # <<>>
    BY <2>2
  <2> QED  BY <2>2, <2>4, <2>5, <2>6
<1> HIDE DEF d
<1>7. p = [ok |-> TRUE, format |-> SOUND_AAC, rate |-> (x \div 4) % 4, size |-> (x \div 2) % 2,
           type |-> x % 2, aacPacketType |-> t, body |-> body]
  <2>1. ~(Len(d) < 2)
    BY <1>6
  <2> QED  BY <1>3, <1>6, <2>1 DEF ParseAudioHeader
<1>8. p.ok /\ p.format = SOUND_AAC /\ p.aacPacketType = t /\ p.body = body
  <2> HIDE DEF p
  <2> QED  BY <1>7
<1>9. TagOK(d, t, body)
  BY <1>6, <1>8 DEF TagOK
<1> QED  BY <1>2, <1>9 DEF d, h

\* The body of a video tag is bytes, its composition time a number.
LEMMA VideoHeaderType ==
  ASSUME NEW d \in Seq(Nat), ParseVideoHeader(d).ok
  PROVE  ParseVideoHeader(d).body \in Seq(Nat) /\ ParseVideoHeader(d).compositionTime \in Nat
<1> DEFINE h == ParseVideoHeader(d)
           avc == d[1] % 16 = VIDEO_H264
           body == Rest(d, IF avc THEN 5 ELSE 1)
           ct == IF avc THEN (d[3] * 256 + d[4]) * 256 + d[5] ELSE 0
           x == [ok |-> TRUE, frameType |-> d[1] \div 16, codecID |-> d[1] % 16,
                 avcPacketType |-> IF avc THEN d[2] ELSE 0, compositionTime |-> ct, body |-> body]
<1>1. h = IF Len(d) < 5 THEN [ok |-> FALSE] ELSE x
  BY DEF ParseVideoHeader
<1>2. ~(Len(d) < 5)
  <2> HIDE DEF x
  <2>1. CASE Len(d) < 5
    BY <1>1, <2>1
  <2> QED  BY <2>1
<1>3. body \in Seq(Nat)
  <2> DEFINE n == IF avc THEN 5 ELSE 1
  <2>1. n \in Nat
    OBVIOUS
  <2> HIDE DEF n
  <2> QED  BY <2>1, RestIs DEF n
<1>4. ct \in Nat
  <2>1. d[3] \in Nat /\ d[4] \in Nat /\ d[5] \in Nat
    BY <1>2
  <2> DEFINE a == d[3]
             b == d[4]
             c == d[5]
  <2> HIDE DEF a, b, c
  <2>2. (a * 256 + b) * 256 + c \in Nat
    <3>1. a \in Nat /\ b \in Nat /\ c \in Nat
      BY <2>1 DEF a, b, c
    <3> QED  BY ONLY <3>1
  <2> QED  BY <2>2 DEF a, b, c
<1>5. h.body = body /\ h.compositionTime = ct
  <2> HIDE DEF h, body, ct, avc
  <2> QED  BY <1>1, <1>2
<1> QED  BY <1>3, <1>4, <1>5

=============================================================================
