---------------------------- MODULE UnitsProofs ----------------------------
(***************************************************************************)
(* The proof of UnitsKept, for pictures of any number of NAL units of any  *)
(* length.  The bytes of a picture are its units with start codes between  *)
(* them (After); in them ParseNalusN finds a start code where a unit ends  *)
(* and nowhere else (CodeInside, CodeBehind), so that after i start codes  *)
(* it has the first i units (AtUnit, ScanEnds); what PackVideoData puts    *)
(* behind lengths the player's loop gives back (LengthsBack).  The         *)
(* invariant is WireKept: of every message on the wire the player would    *)
(* be given all units.                                                     *)
(***************************************************************************)
EXTENDS MediaProofs

-----------------------------------------------------------------------------
(* Sequences *)

\* Sequences put together in either order.
LEMMA Assoc ==
  ASSUME NEW a \in Seq(Nat), NEW b \in Seq(Nat), NEW c \in Seq(Nat)
  PROVE  (a \o b) \o c = a \o (b \o c)
  OBVIOUS

\* The same, of any elements.
LEMMA AnyAssoc ==
  ASSUME NEW S, NEW a \in Seq(S), NEW b \in Seq(S), NEW c \in Seq(S)
  PROVE  (a \o b) \o c = a \o (b \o c) /\ b \o c \in Seq(S)
  OBVIOUS

\* The rest of a rest.
LEMMA RestRest ==
  ASSUME NEW S, NEW s \in Seq(S), NEW a \in Nat, NEW b \in Nat, a <= Len(s)
  PROVE  Rest(Rest(s, a), b) = Rest(s, a + b)
<1> DEFINE x == Rest(s, a)
           n == Len(s)
<1>0. n \in Nat /\ a + b \in Nat
  OBVIOUS
<1>1. x \in Seq(S) /\ Len(x) = n - a /\ (\A i \in 1..(n - a) : x[i] = s[a + i])
  BY RestIs
<1> HIDE DEF x
<1> DEFINE y == Rest(x, b)
           c == a + b
           z == Rest(s, c)
<1>2. /\ y \in Seq(S) /\ (b <= Len(x) => Len(y) = Len(x) - b) /\ (b > Len(x) => y = <<>>)
      /\ \A i \in 1..(Len(x) - b) : y[i] = x[b + i]
  <2>1. x \in Seq(S) /\ b \in Nat
    BY <1>1
  <2> QED  BY ONLY <2>1, RestIs
<1>3. /\ z \in Seq(S) /\ (c <= n => Len(z) = n - c) /\ (c > n => z = <<>>)
      /\ \A i \in 1..(n - c) : z[i] = s[c + i]
  <2> HIDE DEF c
  <2> QED  BY <1>0, RestIs DEF c
<1> HIDE DEF y, z, n
<1>4. CASE b <= Len(x)
  <2>1. Len(y) = n - c /\ Len(z) = n - c
    BY <1>0, <1>1, <1>2, <1>3, <1>4
  <2>2. ASSUME NEW i \in 1..Len(y)  PROVE y[i] = z[i]
    <3>1. i \in 1..(Len(x) - b) /\ b + i \in 1..(n - a) /\ i \in 1..(n - c) /\ a + (b + i) = c + i
      BY <1>0, <1>1, <1>4, <2>1
    <3>2. y[i] = x[b + i] /\ x[b + i] = s[a + (b + i)] /\ z[i] = s[c + i]
      BY <1>0, <1>1, <1>2, <1>3, <3>1
    <3> QED  BY <3>1, <3>2
  <2>3. y = z
    <3> HIDE DEF c
    <3> QED  BY <1>2, <1>3, <2>1, <2>2, SeqEqual
  <2> QED  BY <2>3 DEF x, y, z
<1>5. CASE b > Len(x)
  <2>1. c > n
    BY <1>0, <1>1, <1>5
  <2>2. y = <<>> /\ z = <<>>
    BY <1>2, <1>3, <1>5, <2>1
  <2> QED  BY <2>2 DEF x, y, z
<1> QED  BY <1>0, <1>1, <1>4, <1>5

\* Every piece of what FlattenSeq put together is in its place.
FlatAt(f, tt, S) ==
  /\ f \in [0..Len(tt) -> Seq(S)] /\ f[0] = <<>> /\ f[Len(tt)] = FlattenSeq(tt)
  /\ \A k \in 1..Len(tt) : f[k] = f[k - 1] \o tt[k]
  /\ \A k \in 0..Len(tt) : \E t \in Seq(S) : FlattenSeq(tt) = f[k] \o t

\* Such a run exists: FlattenSeq adds the sequences one by one.
LEMMA FlattenAt ==
  ASSUME NEW S, NEW tt \in Seq(Seq(S))
  PROVE  \E f : FlatAt(f, tt, S)
<1> DEFINE N == Len(tt)
           b == FlattenSeq(tt)
<1>1. PICK f \in [0..N -> Seq(S)] : f[0] = <<>> /\ (\A k \in 1..N : f[k] = f[k - 1] \o tt[k]) /\ b = f[N]
  BY FlattenRuns
<1>2. N \in Nat /\ \A k \in 1..N : tt[k] \in Seq(S)
  OBVIOUS
<1> HIDE DEF N, b
<1> DEFINE I == {j \in 0..N : \E t \in Seq(S) : b = f[N - j] \o t}
<1>3. \A j \in 0..N : j \in I
  <2>1. 0 \in I
    <3>1. f[N] \in Seq(S) /\ N - 0 = N /\ 0 \in 0..N
      BY <1>1, <1>2
    <3>2. b = f[N] \o <<>> /\ <<>> \in Seq(S)
      BY <1>1, <3>1
    <3> QED  BY <3>1, <3>2
  <2>2. ASSUME NEW j \in 1..N, j - 1 \in I  PROVE j \in I
    <3>1. PICK t \in Seq(S) : b = f[N - (j - 1)] \o t
      BY <2>2
    <3> DEFINE k == N - (j - 1)
               p == f[k - 1]
               q == tt[k]
    <3>2. k \in 1..N /\ k - 1 = N - j /\ k - 1 \in 0..N /\ j \in 0..N
      BY <1>2
    <3>3. f[k] = p \o q /\ p \in Seq(S) /\ q \in Seq(S)
      BY <1>1, <1>2, <3>2
    <3> HIDE DEF p, q
    <3>4. b = (p \o q) \o t
      BY <3>1, <3>3
    <3>5. (p \o q) \o t = p \o (q \o t) /\ q \o t \in Seq(S)
      <4>1. p \in Seq(S) /\ q \in Seq(S) /\ t \in Seq(S)
        BY <3>3
      <4> QED  BY ONLY <4>1, AnyAssoc
    <3>6. b = p \o (q \o t)
      BY <3>4, <3>5
    <3>7. p = f[N - j]
      BY <3>2 DEF p
    <3> QED  BY <3>2, <3>5, <3>6, <3>7
  <2> HIDE DEF I
  <2> QED  BY <1>2, <2>1, <2>2, UpTo
<1>4. ASSUME NEW k \in 0..N  PROVE \E t \in Seq(S) : b = f[k] \o t
  <2>1. N - k \in 0..N /\ N - (N - k) = k
    BY <1>2
  <2>2. N - k \in I
    BY <1>3, <2>1
  <2> QED  BY <2>1, <2>2
<1>5. FlatAt(f, tt, S)
  BY <1>1, <1>4 DEF FlatAt, N, b
<1> QED  BY <1>5

\* z is k in two bytes.
Two(z, k) == z \in Seq(Nat) /\ Len(z) = 2 /\ z[1] * 256 + z[2] = k /\ z[1] \in Nat /\ z[2] \in Nat

\* Two bytes hold any number of 16 bits.
LEMMA U16Two == ASSUME NEW k \in Nat, k <= 65535  PROVE Two(U16(k), k)
<1> DEFINE x == (k \div 256) % 256
           y == k % 256
<1>1. x * 256 + y = k /\ x \in Nat /\ y \in Nat
  OBVIOUS
<1> HIDE DEF x, y
<1>2. <<x, y>>[1] = x /\ <<x, y>>[2] = y /\ <<x, y>> \in Seq(Nat) /\ Len(<<x, y>>) = 2
  BY <1>1
<1> QED  BY <1>1, <1>2 DEF U16, Two, x, y

\* A length reads back from its four bytes.
LEMMA U32Read ==
  ASSUME NEW n \in Nat, n <= MessageMax, NEW t \in Seq(Nat)
  PROVE  naluSize(U32(n) \o t) = n
<1> DEFINE q == n \div 65536
           m == n % 65536
<1>1. q \in Nat /\ q <= 65535 /\ m \in Nat /\ m <= 65535 /\ n = q * 65536 + m
  BY DEF MessageMax
<1>2. U16(n) = U16(m)
  <2>1. (n \div 256) % 256 = (m \div 256) % 256 /\ n % 256 = m % 256
    <3> HIDE DEF q, m
    <3> QED  BY ONLY <1>1
  <2> HIDE DEF m
  <2> QED  BY <2>1 DEF U16
<1> DEFINE x == U16(q)
           y == U16(m)
<1>3. /\ x \in Seq(Nat) /\ Len(x) = 2 /\ x[1] * 256 + x[2] = q /\ x[1] \in Nat /\ x[2] \in Nat
      /\ y \in Seq(Nat) /\ Len(y) = 2 /\ y[1] * 256 + y[2] = m /\ y[1] \in Nat /\ y[2] \in Nat
  <2>1. Two(x, q) /\ Two(y, m)
    <3> HIDE DEF q, m
    <3> QED  BY ONLY <1>1, U16Two
  <2> HIDE DEF x, y, q, m
  <2> QED  BY ONLY <2>1 DEF Two
<1>4. U32(n) = x \o y
  BY <1>2 DEF U32
<1> HIDE DEF x, y
<1> DEFINE w == x \o y
           b == w \o t
<1>5. w \in Seq(Nat) /\ Len(w) = 4 /\ w[1] = x[1] /\ w[2] = x[2] /\ w[3] = y[1] /\ w[4] = y[2]
  <2>1. IsJoin(w, Nat, x, Len(x), y, Len(y))
    <3>1. x \in Seq(Nat) /\ y \in Seq(Nat)
      BY <1>3
    <3> QED  BY ONLY <3>1, JoinedAt
  <2> HIDE DEF w
  <2>2. w \in Seq(Nat) /\ Len(w) = 2 + 2 /\ (\A i \in 1..2 : w[i] = x[i]) /\ \A i \in 1..2 : w[2 + i] = y[i]
    BY ONLY <1>3, <2>1 DEF IsJoin
  <2>3. w[2 + 1] = y[1] /\ w[2 + 2] = y[2]
    <3>1. 1 \in 1..2 /\ 2 \in 1..2
      OBVIOUS
    <3> QED  BY ONLY <2>2, <3>1
  <2> QED  BY <2>2, <2>3
<1> HIDE DEF w
<1>6. b[1] = w[1] /\ b[2] = w[2] /\ b[3] = w[3] /\ b[4] = w[4]
  <2>1. IsJoin(b, Nat, w, Len(w), t, Len(t))
    BY <1>5, JoinedAt
  <2> HIDE DEF b
  <2>2. \A i \in 1..4 : b[i] = w[i]
    BY ONLY <1>5, <2>1 DEF IsJoin
  <2> QED  BY <2>2
<1> HIDE DEF b
<1> DEFINE a1 == x[1]
           a2 == x[2]
           a3 == y[1]
           a4 == y[2]
<1>7. naluSize(b) = ((a1 * 256 + a2) * 256 + a3) * 256 + a4
  BY <1>5, <1>6 DEF naluSize
<1>8. a1 * 256 + a2 = q /\ a3 * 256 + a4 = m /\ a1 \in Nat /\ a2 \in Nat /\ a3 \in Nat /\ a4 \in Nat
  BY <1>3
<1> HIDE DEF a1, a2, a3, a4, q, m
<1>9. ((a1 * 256 + a2) * 256 + a3) * 256 + a4 = n
  BY ONLY <1>1, <1>8
<1> QED  BY <1>4, <1>7, <1>9 DEF b, w

-----------------------------------------------------------------------------
(* The player's loop over lengths *)

Takes(b, index, got, p) ==
  LengthsTurn(b, [index |-> index, got |-> got]) = [index |-> index + 4 + Len(p), got |-> Append(got, p)]

\* A turn of handleVideoAudio's loop takes a length and what it stands before.
LEMMA TakesPiece ==
  ASSUME NEW p \in Seq(Nat), Len(p) <= MessageMax, NEW t \in Seq(Nat), NEW b, NEW index \in Nat, NEW got,
         Rest(b, index) = (U32(Len(p)) \o p) \o t
  PROVE  Takes(b, index, got, p)
<1> DEFINE n == Len(p)
           h == U32(n)
           r == Rest(b, index)
           y == p \o t
<1>1. n \in Nat /\ h \in Seq(Nat) /\ Len(h) = 4 /\ y \in Seq(Nat) /\ Len(y) = n + Len(t) /\ Len(t) \in Nat
  BY U32Is
<1>2. r = h \o y
  <2>1. h \in Seq(Nat) /\ p \in Seq(Nat) /\ t \in Seq(Nat) /\ r = (h \o p) \o t
    BY <1>1
  <2> HIDE DEF h, r
  <2>2. (h \o p) \o t = h \o (p \o t)
    BY ONLY <2>1, Assoc
  <2> QED  BY <2>1, <2>2
<1>3. naluSize(r) = n
  <2> HIDE DEF y, r
  <2> QED  BY <1>1, <1>2, U32Read
<1>4. r \in Seq(Nat) /\ Len(r) = 4 + n + Len(t)
  <2> HIDE DEF h, y, r, n
  <2>1. r \in Seq(Nat) /\ Len(r) = Len(h) + Len(y)
    BY <1>1, <1>2, Joined
  <2> QED  BY <1>1, <2>1
<1>5. SubSeq(r, 5, 4 + n) = p
  <2> DEFINE z == SubSeq(r, 5, 4 + n)
  <2>1. z \in Seq(Nat) /\ Len(z) = n /\ \A i \in 1..n : z[i] = r[4 + i]
    <3> HIDE DEF r, n
    <3>1. r \in Seq(Nat) /\ 4 \in Nat /\ n \in Nat /\ 4 + n <= Len(r)
      BY <1>1, <1>4
    <3>2. /\ SubSeq(r, 4 + 1, 4 + n) \in Seq(Nat) /\ Len(SubSeq(r, 4 + 1, 4 + n)) = n
          /\ \A i \in 1..n : SubSeq(r, 4 + 1, 4 + n)[i] = r[4 + i]
      BY ONLY <3>1, Parts
    <3>3. 4 + 1 = 5
      OBVIOUS
    <3> QED  BY ONLY <3>2, <3>3
  <2>2. \A i \in 1..n : r[4 + i] = p[i]
    <3>1. IsJoin(r, Nat, h, 4, y, Len(y))
      <4> HIDE DEF h, y, r
      <4> QED  BY <1>1, <1>2, JoinedAt
    <3>2. IsJoin(y, Nat, p, n, t, Len(t))
      BY JoinedAt
    <3> HIDE DEF r, y, h
    <3>3. \A i \in 1..n : r[4 + i] = y[i]
      BY <1>1, <3>1 DEF IsJoin
    <3>4. \A i \in 1..n : y[i] = p[i]
      <4> HIDE DEF n
      <4> QED  BY <3>2 DEF IsJoin
    <3> QED  BY <3>3, <3>4
  <2> HIDE DEF z
  <2>3. z = p
    <3>1. \A i \in 1..Len(z) : z[i] = p[i]
      BY <2>1, <2>2
    <3> QED  BY <2>1, <3>1, SeqEqual
  <2> QED  BY <2>3 DEF z
<1>6. ~(Len(r) < 4 \/ naluSize(r) > Len(r) - 4)
  <2> HIDE DEF r, n
  <2> QED  BY <1>1, <1>3, <1>4
<1> HIDE DEF r, n
<1>7. LengthsTurn(b, [index |-> index, got |-> got]) = [index |-> index + 4 + n, got |-> Append(got, p)]
  BY <1>3, <1>5, <1>6 DEF LengthsTurn, r
<1> QED  BY <1>7 DEF n, Takes

LengthsStart == [index |-> 0, got |-> <<>>]
IsLengths(loop, S, b) ==
  /\ loop[0] = LengthsStart
  /\ \A k \in 0..Len(b) : loop[k] \in S
  /\ \A k \in 1..Len(b) : loop[k] = LengthsTurn(b, loop[k - 1])

\* The loop over lengths is the repetition of its turn, and stays in a set of states that
\* its turn stays in.
LEMMA LengthsRuns ==
  ASSUME NEW b \in Seq(Nat), NEW S, LengthsStart \in S, \A s \in S : LengthsTurn(b, s) \in S
  PROVE  IsLengths(LengthsLoop(b), S, b)
<1> DEFINE N == Len(b)
           a == LengthsStart
           turn == [k \in Nat |-> [s \in S |-> LengthsTurn(b, s)]]
           f == LengthsLoop(b)
<1>1. N \in Nat /\ turn \in [Nat -> [S -> S]] /\ a \in S
  OBVIOUS
<1>2. PICK g : IsRun(g, S, a, turn, N)
  <2> HIDE DEF N, a, turn
  <2> QED  BY <1>1, LoopRuns
<1> HIDE DEF N, a
<1>3. g \in [0..N -> S] /\ g[0] = a /\ \A k \in 1..N : g[k] = turn[k][g[k - 1]]
  <2> HIDE DEF turn
  <2> QED  BY ONLY <1>2 DEF IsRun
<1>4. ASSUME NEW k \in 1..N  PROVE g[k] = LengthsTurn(b, g[k - 1])
  <2>1. k \in Nat /\ k - 1 \in 0..N /\ g[k - 1] \in S
    BY <1>1, <1>3
  <2> QED  BY <1>3, <2>1
<1>5. g = [k \in 0..N |-> IF k = 0 THEN a ELSE LengthsTurn(b, g[k - 1])]
  <2>1. ASSUME NEW k \in 0..N  PROVE g[k] = IF k = 0 THEN a ELSE LengthsTurn(b, g[k - 1])
    <3>1. k = 0 \/ k \in 1..N
      BY <1>1
    <3> QED  BY <1>3, <1>4, <3>1
  <2> QED  BY <1>3, <2>1
<1>6. f = [k \in 0..N |-> IF k = 0 THEN a ELSE LengthsTurn(b, f[k - 1])]
  <2> HIDE DEF turn
  <2> QED  BY <1>5 DEF LengthsLoop, LengthsStart, N, a
<1> HIDE DEF f
<1>7. f[0] = a /\ \A k \in 1..N : f[k] = LengthsTurn(b, f[k - 1])
  BY <1>1, <1>6
<1> DEFINE T == {k \in 0..N : f[k] \in S}
<1>8. \A k \in 0..N : k \in T
  <2>1. 0 \in T
    BY <1>1, <1>7
  <2>2. ASSUME NEW k \in 1..N, k - 1 \in T  PROVE k \in T
    <3>1. k \in 0..N /\ f[k - 1] \in S
      BY <1>1, <2>2
    <3> QED  BY <1>7, <3>1
  <2> HIDE DEF T
  <2> QED  BY <1>1, <2>1, <2>2, UpTo
<1>9. \A k \in 0..N : f[k] \in S
  BY <1>8
<1> QED  BY <1>7, <1>9 DEF IsLengths, f, N, a

\* What Prefixed puts together, the player takes apart.
LEMMA LengthsBack ==
  ASSUME NEW ps \in Seq(Seq(Nat)), \A i \in 1..Len(ps) : ps[i] # <<>> /\ Len(ps[i]) <= MessageMax
  PROVE  Lengths(Prefixed(ps)) = ps
<1> DEFINE M == Len(ps)
           x(i) == U32(Len(ps[i])) \o ps[i]
           tt == [i \in 1..M |-> x(i)]
           b == Prefixed(ps)
           L == Len(b)
<1>1. M \in Nat /\ \A i \in 1..M : ps[i] \in Seq(Nat) /\ ps[i] # <<>> /\ Len(ps[i]) <= MessageMax /\ Len(ps[i]) \in Nat
  OBVIOUS
<1>2. ASSUME NEW i \in 1..M  PROVE x(i) \in Seq(Nat) /\ Len(x(i)) = 4 + Len(ps[i])
  <2> DEFINE p == ps[i]
             h == U32(Len(p))
  <2>1. p \in Seq(Nat) /\ h \in Seq(Nat) /\ Len(h) = 4
    BY <1>1, U32Is
  <2> HIDE DEF p, h
  <2>2. h \o p \in Seq(Nat) /\ Len(h \o p) = Len(h) + Len(p)
    <3>1. h \in Seq(Nat) /\ p \in Seq(Nat)
      BY <2>1
    <3> QED  BY ONLY <3>1, Joined
  <2> QED  BY <2>1, <2>2 DEF p, h
<1>3. b = FlattenSeq(tt)
  BY <1>1 DEF Prefixed
<1> HIDE DEF x
<1>4. tt \in Seq(Seq(Nat)) /\ Len(tt) = M /\ \A i \in 1..M : tt[i] = x(i)
  <2>1. tt \in [1..M -> Seq(Nat)]
    BY <1>2
  <2> HIDE DEF M
  <2>2. \A i \in 1..M : tt[i] = x(i)
    OBVIOUS
  <2> HIDE DEF tt
  <2> QED  BY <1>1, <2>1, <2>2, MadeSeq
<1> HIDE DEF tt, M
<1>5. PICK f : FlatAt(f, tt, Nat)
  BY <1>4, FlattenAt
<1>6. /\ f \in [0..M -> Seq(Nat)] /\ f[0] = <<>> /\ f[M] = b
      /\ \A k \in 1..M : f[k] = f[k - 1] \o x(k)
      /\ \A k \in 0..M : \E t \in Seq(Nat) : b = f[k] \o t
  BY ONLY <1>3, <1>4, <1>5 DEF FlatAt
<1>7. b \in Seq(Nat) /\ L \in Nat
  <2>1. M \in 0..M
    BY <1>1
  <2>2. b \in Seq(Nat)
    BY <1>6, <2>1
  <2> QED  BY <2>2
<1> HIDE DEF b
<1> DEFINE State(k) == [index |-> Len(f[k]), got |-> SubSeq(ps, 1, k)]
           S == {State(k) : k \in 0..M}
<1>8. ASSUME NEW k \in 1..M
      PROVE  /\ f[k - 1] \in Seq(Nat) /\ f[k] \in Seq(Nat) /\ Len(f[k]) = Len(f[k - 1]) + (4 + Len(ps[k]))
             /\ k - 1 \in 0..M /\ k \in 0..M
  <2>1. k \in 0..M /\ k - 1 \in 0..M
    BY <1>1
  <2> DEFINE p == f[k - 1]
             q == x(k)
  <2>2. p \in Seq(Nat) /\ f[k] = p \o q /\ q \in Seq(Nat) /\ Len(q) = 4 + Len(ps[k])
    BY <1>2, <1>6, <2>1
  <2> HIDE DEF p, q
  <2>3. p \in Seq(Nat) /\ q \in Seq(Nat)
    BY ONLY <2>2
  <2>4. p \o q \in Seq(Nat) /\ Len(p \o q) = Len(p) + Len(q)
    BY ONLY <2>3, Joined
  <2> QED  BY <2>1, <2>2, <2>4 DEF p
<1>9. ASSUME NEW k \in 1..M  PROVE LengthsTurn(b, State(k - 1)) = State(k)
  <2> DEFINE p == ps[k]
             a == f[k - 1]
             g == SubSeq(ps, 1, k - 1)
             index == Len(a)
  <2>0. p \in Seq(Nat) /\ Len(p) \in Nat /\ Len(p) <= MessageMax
    BY <1>1
  <2>1. a \in Seq(Nat) /\ index \in Nat /\ k \in 0..M
    <3>1. a \in Seq(Nat) /\ k \in 0..M
      BY <1>8
    <3> HIDE DEF a
    <3> QED  BY <3>1
  <2>2. PICK t \in Seq(Nat) : b = f[k] \o t
    BY <1>6, <2>1
  <2>3. f[k] = a \o x(k) /\ x(k) \in Seq(Nat)
    BY <1>2, <1>6
  <2>4. Rest(b, index) = x(k) \o t
    <3> DEFINE q == x(k)
               z == q \o t
    <3>1. q \in Seq(Nat) /\ a \in Seq(Nat) /\ t \in Seq(Nat) /\ b = (a \o q) \o t
      BY <2>1, <2>2, <2>3
    <3> HIDE DEF q, a
    <3>2. (a \o q) \o t = a \o (q \o t)
      BY ONLY <3>1, Assoc
    <3>3. z \in Seq(Nat)
      BY <3>1, Joined
    <3>4. b = a \o z
      BY <3>1, <3>2
    <3> HIDE DEF z
    <3>5. Rest(a \o z, Len(a)) = z
      BY ONLY <3>1, <3>3, Joined
    <3> QED  BY <3>4, <3>5 DEF z, q
  <2>5. x(k) = U32(Len(p)) \o p
    BY DEF x
  <2> HIDE DEF p, index
  <2>6. LengthsTurn(b, [index |-> index, got |-> g]) = [index |-> index + 4 + Len(p), got |-> Append(g, p)]
    <3> HIDE DEF g
    <3>1. Rest(b, index) = (U32(Len(p)) \o p) \o t
      BY ONLY <2>4, <2>5
    <3>2. Takes(b, index, g, p)
      BY ONLY <2>0, <2>1, <3>1, TakesPiece, t \in Seq(Nat)
    <3> QED  BY <3>2 DEF Takes
  <2>7. Append(g, p) = SubSeq(ps, 1, k)
    <3>1. ASSUME NEW T, NEW s \in Seq(T), NEW j \in 1..Len(s)  PROVE Append(SubSeq(s, 1, j - 1), s[j]) = SubSeq(s, 1, j)
      OBVIOUS
    <3> QED  BY <3>1 DEF p, M
  <2>8. index + 4 + Len(p) = Len(f[k])
    <3>1. Len(f[k]) = index + (4 + Len(p))
      BY <1>8 DEF p, index
    <3> HIDE DEF a, g
    <3> QED  BY <2>1, <3>1
  <2> HIDE DEF g
  <2> QED  BY <2>6, <2>7, <2>8 DEF index, g
<1>10. LengthsTurn(b, State(M)) = State(M)
  <2>1. Rest(b, L) = <<>>
    BY <1>7 DEF Rest
  <2> DEFINE s == State(M)
  <2>2. s.index = L
    BY <1>6
  <2> HIDE DEF s, L
  <2>3. LengthsTurn(b, s) = s
    <3>1. Len(<<>>) < 4
      OBVIOUS
    <3> QED  BY <2>1, <2>2, <3>1 DEF LengthsTurn
  <2> QED  BY <2>3 DEF s
<1> HIDE DEF State
<1>11. IsLengths(LengthsLoop(b), S, b)
  <2>1. LengthsStart \in S
    <3>1. 0 \in 0..M /\ SubSeq(ps, 1, 0) = <<>> /\ Len(f[0]) = 0
      BY <1>1, <1>6, Joined
    <3>2. State(0) = LengthsStart
      BY <3>1 DEF State, LengthsStart
    <3> QED  BY <3>1, <3>2
  <2>2. ASSUME NEW s \in S  PROVE LengthsTurn(b, s) \in S
    <3>1. PICK k \in 0..M : s = State(k)
      OBVIOUS
    <3>2. CASE k = M
      BY <1>10, <3>1, <3>2
    <3>3. CASE k # M
      <4>1. k + 1 \in 1..M /\ k + 1 \in 0..M /\ (k + 1) - 1 = k
        BY <1>1, <3>3
      <4>2. LengthsTurn(b, State((k + 1) - 1)) = State(k + 1)
        BY <1>9, <4>1
      <4> QED  BY <3>1, <4>1, <4>2
    <3> QED  BY <3>2, <3>3
  <2> HIDE DEF S
  <2> QED  BY <1>7, <2>1, <2>2, LengthsRuns
<1> DEFINE loop == LengthsLoop(b)
<1>12. loop[0] = LengthsStart /\ \A k \in 1..L : loop[k] = LengthsTurn(b, loop[k - 1])
  BY ONLY <1>11 DEF IsLengths, L
<1> HIDE DEF S, loop, L
\* There are at least as many turns as pieces.
<1> DEFINE U == {k \in 0..M : Len(f[k]) >= k}
<1>13. M <= L
  <2>1. 0 \in U
    BY <1>1, <1>6
  <2>2. ASSUME NEW k \in 1..M, k - 1 \in U  PROVE k \in U
    <3>0. Len(f[k - 1]) >= k - 1 /\ Len(ps[k]) \in Nat
      BY <1>1, <2>2
    <3>1. k \in 0..M /\ Len(f[k]) = Len(f[k - 1]) + (4 + Len(ps[k])) /\ Len(f[k - 1]) \in Nat
      <4>1. f[k - 1] \in Seq(Nat)
        BY <1>8
      <4>2. Len(f[k - 1]) \in Nat
        BY ONLY <4>1
      <4> QED  BY <1>8, <4>2
    <3> DEFINE p == Len(f[k - 1])
               q == Len(ps[k])
               r == Len(f[k])
    <3>2. r = p + (4 + q) /\ p \in Nat /\ q \in Nat /\ p >= k - 1 /\ k \in Nat
      BY <1>1, <3>0, <3>1
    <3> HIDE DEF p, q, r
    <3>3. r >= k
      BY ONLY <3>2
    <3> QED  BY <3>1, <3>3 DEF r
  <2> HIDE DEF U
  <2>3. \A k \in 0..M : k \in U
    BY <1>1, <2>1, <2>2, UpTo
  <2>4. M \in U
    BY <1>1, <2>3
  <2> QED  BY <1>6, <2>4 DEF U, L
<1> DEFINE V == {k \in 0..L : loop[k] = State(IF k <= M THEN k ELSE M)}
<1>14. loop[L] = State(M)
  <2>1. 0 \in V
    <3>1. 0 \in 0..L /\ 0 <= M /\ SubSeq(ps, 1, 0) = <<>> /\ Len(f[0]) = 0
      BY <1>1, <1>6, <1>7, Joined
    <3>2. State(0) = LengthsStart
      BY <3>1 DEF State, LengthsStart
    <3> QED  BY <1>12, <3>1, <3>2
  <2>2. ASSUME NEW k \in 1..L, k - 1 \in V  PROVE k \in V
    <3>1. k \in 0..L /\ loop[k] = LengthsTurn(b, loop[k - 1])
      BY <1>7, <1>12
    <3>2. CASE k <= M
      <4>1. k \in 1..M /\ k - 1 <= M
        BY <1>1, <3>2
      <4>2. loop[k - 1] = State(k - 1)
        BY <2>2, <4>1
      <4> QED  BY <1>9, <3>1, <3>2, <4>1, <4>2
    <3>3. CASE ~(k <= M)
      <4>1. loop[k - 1] = State(M)
        <5>1. k - 1 <= M => k - 1 = M
          BY <1>1, <3>3
        <5> QED  BY <2>2, <5>1
      <4> QED  BY <1>10, <3>1, <3>3, <4>1
    <3> QED  BY <3>2, <3>3
  <2> HIDE DEF V
  <2>3. \A k \in 0..L : k \in V
    BY <1>7, <2>1, <2>2, UpTo
  <2>4. L \in V
    BY <1>7, <2>3
  <2>5. loop[L] = State(IF L <= M THEN L ELSE M)
    BY <2>4 DEF V
  <2>6. L <= M => L = M
    BY <1>1, <1>7, <1>13
  <2> QED  BY <2>5, <2>6
<1>15. State(M).got = ps
  <2>1. SubSeq(ps, 1, Len(ps)) = ps
    BY Joined
  <2> QED  BY <2>1 DEF State, M
<1> QED  BY <1>14, <1>15 DEF Lengths, loop, L, b

-----------------------------------------------------------------------------
(* Units with their start codes *)

\* The first piece, and the others.
LEMMA FlattenFirst ==
  ASSUME NEW tt \in Seq(Seq(Nat)), NEW rr \in Seq(Seq(Nat)), Len(tt) = Len(rr) + 1,
         \A j \in 1..Len(rr) : rr[j] = tt[j + 1]
  PROVE  FlattenSeq(tt) = tt[1] \o FlattenSeq(rr)
<1> DEFINE M == Len(rr)
           N == Len(tt)
<1>1. M \in Nat /\ N = M + 1 /\ 1 \in 1..N /\ tt[1] \in Seq(Nat)
  OBVIOUS
<1>2. PICK f \in [0..N -> Seq(Nat)] : f[0] = <<>> /\ (\A k \in 1..N : f[k] = f[k - 1] \o tt[k]) /\ FlattenSeq(tt) = f[N]
  BY FlattenRuns
<1>3. PICK g \in [0..M -> Seq(Nat)] : g[0] = <<>> /\ (\A k \in 1..M : g[k] = g[k - 1] \o rr[k]) /\ FlattenSeq(rr) = g[M]
  BY FlattenRuns
<1>4. \A j \in 1..M : rr[j] = tt[j + 1] /\ rr[j] \in Seq(Nat)
  OBVIOUS
<1> HIDE DEF M, N
<1> DEFINE a == tt[1]
           T == {k \in 0..M : f[k + 1] = a \o g[k]}
<1>5. 0 \in T
  <2>1. f[1] = <<>> \o a
    <3>1. f[1] = f[1 - 1] \o tt[1]
      BY ONLY <1>1, <1>2
    <3>2. 1 - 1 = 0
      OBVIOUS
    <3> QED  BY <1>2, <3>1, <3>2
  <2>2. <<>> \o a = a /\ a \o <<>> = a
    BY <1>1, Joined
  <2>3. f[1] = a \o g[0]
    BY ONLY <1>3, <2>1, <2>2
  <2>4. 0 \in 0..M /\ 0 + 1 = 1
    BY <1>1
  <2> QED  BY <2>3, <2>4
<1>6. ASSUME NEW k \in 1..M, k - 1 \in T  PROVE k \in T
  <2> DEFINE x == g[k - 1]
             y == rr[k]
  <2>1. k \in 0..M /\ k - 1 \in 0..M /\ k + 1 \in 1..N /\ (k + 1) - 1 = k /\ (k - 1) + 1 = k
    BY <1>1
  <2>2. x \in Seq(Nat) /\ y \in Seq(Nat) /\ a \in Seq(Nat)
    BY <1>1, <1>3, <1>4, <2>1
  <2>3. f[k + 1] = f[k] \o y
    <3>1. f[k + 1] = f[(k + 1) - 1] \o tt[k + 1]
      BY <1>2, <2>1
    <3>2. rr[k] = tt[k + 1]
      BY <1>4
    <3> QED  BY <2>1, <3>1, <3>2
  <2>4. f[k] = a \o x
    BY <1>6, <2>1
  <2>5. g[k] = x \o y
    BY <1>3
  <2> HIDE DEF x, y, a
  <2>6. (a \o x) \o y = a \o (x \o y)
    BY ONLY <2>2, Assoc
  <2>7. f[k + 1] = a \o g[k]
    BY ONLY <2>3, <2>4, <2>5, <2>6
  <2> QED  BY <2>1, <2>7
<1> HIDE DEF T
<1>7. \A k \in 0..M : k \in T
  BY <1>1, <1>5, <1>6, UpTo
<1>8. M \in T
  BY <1>1, <1>7
<1>9. f[M + 1] = a \o g[M]
  BY <1>8 DEF T
<1> QED  BY <1>1, <1>2, <1>3, <1>9

\* The bytes that come after unit i of a picture; after none, all of them.
After(us, codes, i) == FlattenSeq([j \in 1..(Len(us) - i) |-> Code(codes[i + j]) \o us[i + j]])

\* What an application may hand over: a start code for every unit.
Coded(us, codes) == us \in Seq(Seq(Nat)) /\ codes \in Seq({3, 4}) /\ Len(codes) = Len(us)

\* A start code and a unit.
LEMMA CodedIs ==
  ASSUME NEW us, NEW codes, Coded(us, codes), NEW i \in 1..Len(us)
  PROVE  us[i] \in Seq(Nat) /\ Code(codes[i]) \in Seq(Nat) /\ Code(codes[i]) \o us[i] \in Seq(Nat)
<1> DEFINE u == us[i]
           c == Code(codes[i])
<1>1. u \in Seq(Nat) /\ c \in Seq(Nat)
  BY CodesAre DEF Code, Coded
<1> HIDE DEF u, c
<1>2. c \o u \in Seq(Nat)
  BY ONLY <1>1, Joined
<1> QED  BY <1>1, <1>2 DEF u, c

\* The pieces after unit i.
LEMMA AfterPieces ==
  ASSUME NEW us, NEW codes, Coded(us, codes), NEW i \in 0..Len(us)
  PROVE  [j \in 1..(Len(us) - i) |-> Code(codes[i + j]) \o us[i + j]] \in Seq(Seq(Nat))
<1> DEFINE x(j) == Code(codes[i + j]) \o us[i + j]
           K == Len(us) - i
<1>1. K \in Nat
  BY DEF Coded
<1>2. ASSUME NEW j \in 1..K  PROVE x(j) \in Seq(Nat)
  <2>1. i + j \in 1..Len(us)
    BY DEF Coded
  <2> QED  BY <2>1, CodedIs
<1> HIDE DEF x, K
<1>3. [j \in 1..K |-> x(j)] \in [1..K -> Seq(Nat)]
  BY <1>2
<1>4. [j \in 1..K |-> x(j)] \in Seq(Seq(Nat))
  BY <1>1, <1>3, MadeSeq
<1> QED  BY <1>4 DEF x, K

\* What comes after some units is bytes.
LEMMA AfterType ==
  ASSUME NEW us, NEW codes, Coded(us, codes), NEW i \in 0..Len(us)
  PROVE  After(us, codes, i) \in Seq(Nat)
  BY AfterPieces, FlatType DEF After

\* Nothing comes after the last unit.
LEMMA AfterLast ==
  ASSUME NEW us, NEW codes, Coded(us, codes)
  PROVE  After(us, codes, Len(us)) = <<>>
<1> DEFINE x(j) == Code(codes[Len(us) + j]) \o us[Len(us) + j]
<1>1. Len(us) - Len(us) = 0
  BY DEF Coded
<1> HIDE DEF x
<1>2. [j \in 1..0 |-> x(j)] = <<>>
  OBVIOUS
<1>3. FlattenSeq(<<>>) = <<>>
  BY DEF FlattenSeq
<1> QED  BY <1>1, <1>2, <1>3 DEF After, x

\* After unit i come the next start code, the next unit, and what comes after that.
LEMMA AfterNext ==
  ASSUME NEW us, NEW codes, Coded(us, codes), NEW i \in 0..(Len(us) - 1)
  PROVE  After(us, codes, i) = (Code(codes[i + 1]) \o us[i + 1]) \o After(us, codes, i + 1)
<1> DEFINE N == Len(us)
           x(j) == Code(codes[j]) \o us[j]
           tt == [j \in 1..(N - i) |-> x(i + j)]
           rr == [j \in 1..(N - (i + 1)) |-> x((i + 1) + j)]
<1>1. N \in Nat /\ i \in 0..N /\ i + 1 \in 0..N
  BY DEF Coded
<1>2. tt \in Seq(Seq(Nat)) /\ rr \in Seq(Seq(Nat))
  BY <1>1, AfterPieces
<1> HIDE DEF x, N
<1>3. Len(tt) = N - i /\ Len(rr) = N - (i + 1) /\ \A j \in 1..(N - (i + 1)) : rr[j] = x((i + 1) + j)
  BY <1>1
<1>4. \A j \in 1..(N - i) : tt[j] = x(i + j)
  OBVIOUS
<1>5. i \in Nat /\ N >= i + 1
  BY <1>1 DEF N
<1> HIDE DEF tt, rr
<1>6. Len(tt) = Len(rr) + 1
  BY <1>1, <1>3, <1>5
<1>7. ASSUME NEW j \in 1..Len(rr)  PROVE rr[j] = tt[j + 1]
  <2>1. j \in 1..(N - (i + 1)) /\ j + 1 \in 1..(N - i) /\ (i + 1) + j = i + (j + 1)
    BY <1>1, <1>3, <1>5
  <2> QED  BY <1>3, <1>4, <2>1
<1>8. FlattenSeq(tt) = tt[1] \o FlattenSeq(rr)
  BY <1>2, <1>6, <1>7, FlattenFirst
<1>9. tt[1] = x(i + 1)
  <2>1. 1 \in 1..(N - i)
    BY <1>1, <1>5
  <2> QED  BY <1>4, <2>1
<1>10. FlattenSeq(tt) = x(i + 1) \o FlattenSeq(rr)
  BY <1>8, <1>9
<1> QED  BY <1>10 DEF After, tt, rr, x, N

\* After none of the units comes all of the picture.
LEMMA AfterNone ==
  ASSUME NEW us, NEW codes, Coded(us, codes)
  PROVE  Bytes(us, codes) = After(us, codes, 0)
<1> DEFINE x(j) == Code(codes[j]) \o us[j]
<1>1. Len(us) - 0 = Len(us) /\ Len(us) \in Nat
  BY DEF Coded
<1> HIDE DEF x
<1>2. [j \in 1..Len(us) |-> x(j)] = [j \in 1..Len(us) |-> x(0 + j)]
  <2>1. \A j \in 1..Len(us) : 0 + j = j
    BY <1>1
  <2> QED  BY <2>1
<1> QED  BY <1>1, <1>2 DEF Bytes, After, x

-----------------------------------------------------------------------------
(* Where ParseNalusN finds a start code *)

\* A NAL unit: something, not ending with a zero, and without a start code in it.
GoodUnit(u) ==
  /\ u \in Seq(Nat) /\ u # <<>> /\ u[Len(u)] # 0
  /\ \A i \in 1..(Len(u) - 2) : ~(u[i] = 0 /\ u[i + 1] = 0 /\ u[i + 2] = 1)

\* No start code begins within a unit, whatever comes after it.
LEMMA CodeInside ==
  ASSUME NEW u, GoodUnit(u), NEW q \in Seq(Nat), NEW d \in Nat, d < Len(u)
  PROVE  StartCode(u \o q, d) = 0
<1> DEFINE w == u \o q
           n == Len(u)
           L == Len(w)
           is3 == d + 3 <= L /\ w[d + 1] = 0 /\ w[d + 2] = 0 /\ w[d + 3] = 1
           is4 == d + 4 <= L /\ w[d + 1] = 0 /\ w[d + 2] = 0 /\ w[d + 3] = 0 /\ w[d + 4] = 1
<1>1. u \in Seq(Nat) /\ n \in Nat /\ d < n /\ n \in 1..n /\ u[n] # 0
  BY DEF GoodUnit
<1>2. IsJoin(w, Nat, u, n, q, Len(q)) /\ Len(q) \in Nat
  BY <1>1, JoinedAt
<1> HIDE DEF w, n
<1>3. w \in Seq(Nat) /\ L = n + Len(q) /\ \A i \in 1..n : w[i] = u[i]
  BY ONLY <1>2 DEF IsJoin, L
<1>4. w[n] # 0
  BY <1>1, <1>3
<1>5. \A i \in 1..(n - 2) : ~(u[i] = 0 /\ u[i + 1] = 0 /\ u[i + 2] = 1)
  BY DEF GoodUnit, n
<1>6. ASSUME NEW i \in 1..(n - 2), w[i] = 0, w[i + 1] = 0, w[i + 2] = 1  PROVE FALSE
  <2>1. i \in 1..n /\ i + 1 \in 1..n /\ i + 2 \in 1..n
    BY <1>1
  <2>2. w[i] = u[i] /\ w[i + 1] = u[i + 1] /\ w[i + 2] = u[i + 2]
    BY <1>3, <2>1
  <2> QED  BY <1>5, <1>6, <2>2
<1>7. ~is3
  <2> SUFFICES ASSUME is3  PROVE FALSE
    OBVIOUS
  <2>1. n = d + 1 \/ n = d + 2 \/ d + 1 \in 1..(n - 2)
    BY <1>1
  <2>2. (d + 1) + 1 = d + 2 /\ (d + 1) + 2 = d + 3
    OBVIOUS
  <2>3. ASSUME d + 1 \in 1..(n - 2)  PROVE FALSE
    BY <1>6, <2>2, <2>3
  <2> QED  BY <1>4, <2>1, <2>3
<1>8. ~is4
  <2> SUFFICES ASSUME is4  PROVE FALSE
    OBVIOUS
  <2>1. n = d + 1 \/ n = d + 2 \/ n = d + 3 \/ d + 2 \in 1..(n - 2)
    BY <1>1
  <2>2. (d + 2) + 1 = d + 3 /\ (d + 2) + 2 = d + 4
    OBVIOUS
  <2>3. ASSUME d + 2 \in 1..(n - 2)  PROVE FALSE
    BY <1>6, <2>2, <2>3
  <2> QED  BY <1>4, <2>1, <2>3
<1>9. d <= L
  <2> HIDE DEF L
  <2> QED  BY <1>1, <1>2, <1>3
<1>10. StartCode(w, d) = IF is3 THEN 3 ELSE IF is4 THEN 4 ELSE 0
  BY <1>3, <1>9, CodeIs
<1> HIDE DEF is3, is4
<1>11. StartCode(w, d) = 0
  BY <1>7, <1>8, <1>10
<1> QED  BY <1>11 DEF w

\* Behind a unit begins the next start code.
LEMMA CodeBehind ==
  ASSUME NEW u \in Seq(Nat), NEW c \in {3, 4}, NEW v \in Seq(Nat)
  PROVE  StartCode(u \o (Code(c) \o v), Len(u)) = c
<1> DEFINE z == Code(c)
           q == z \o v
           w == u \o q
           d == Len(u)
<1>1. z \in Seq(Nat) /\ q \in Seq(Nat)
  <2>1. z \in Seq(Nat)
    BY CodesAre DEF Code
  <2> HIDE DEF z
  <2> QED  BY <2>1, Joined
<1>2. Rest(w, d) = q
  <2> HIDE DEF q
  <2> QED  BY <1>1, Joined
<1>3. IsJoin(q, Nat, z, Len(z), v, Len(v)) /\ Len(v) \in Nat
  <2> HIDE DEF z
  <2> QED  BY <1>1, JoinedAt
<1> HIDE DEF q
<1>4. CASE c = 3
  <2>1. z = StartCode3
    BY <1>4 DEF Code
  <2>2. Len(q) >= 3 /\ q[1] = 0 /\ q[2] = 0 /\ q[3] = 1
    <3>1. Len(q) = 3 + Len(v) /\ \A i \in 1..3 : q[i] = StartCode3[i]
      <4> HIDE DEF z
      <4> QED  BY <1>3, <2>1, CodesAre DEF IsJoin
    <3> QED  BY <1>3, <3>1, CodesAre
  <2>3. IsPrefix(StartCode3, q) /\ ~IsPrefix(StartCode4, q)
    BY <1>1, <2>2, Begins3, Begins4
  <2> QED  BY <1>2, <1>4, <2>3 DEF StartCode, w, d, q
<1>5. CASE c = 4
  <2>1. z = StartCode4
    BY <1>5 DEF Code
  <2>2. Len(q) >= 4 /\ q[1] = 0 /\ q[2] = 0 /\ q[3] = 0 /\ q[4] = 1
    <3>1. Len(q) = 4 + Len(v) /\ \A i \in 1..4 : q[i] = StartCode4[i]
      <4> HIDE DEF z
      <4> QED  BY <1>3, <2>1, CodesAre DEF IsJoin
    <3> QED  BY <1>3, <3>1, CodesAre
  <2>3. ~IsPrefix(StartCode3, q) /\ IsPrefix(StartCode4, q)
    BY <1>1, <2>2, Begins3, Begins4
  <2> QED  BY <1>2, <1>5, <2>3 DEF StartCode, w, d, q
<1> QED  BY <1>4, <1>5

\* Start codes do not depend on what came before.
LEMMA CodeShift ==
  ASSUME NEW src \in Seq(Nat), NEW p \in Nat, p <= Len(src), NEW d \in Nat
  PROVE  StartCode(src, p + d) = StartCode(Rest(src, p), d)
<1>1. Rest(Rest(src, p), d) = Rest(src, p + d)
  BY RestRest
<1> QED  BY <1>1 DEF StartCode

-----------------------------------------------------------------------------
(* What ParseNalusN cuts a picture into *)

IsPart(src, p, u, q) == SubSeq(src, p + 1, p + Len(u)) = u /\ Len(src) = p + Len(u) + Len(q)

\* The bytes at p, if it is known what begins there.
LEMMA PartBefore ==
  ASSUME NEW src \in Seq(Nat), NEW p \in Nat, p <= Len(src), NEW u \in Seq(Nat), NEW q \in Seq(Nat),
         Rest(src, p) = u \o q
  PROVE  IsPart(src, p, u, q)
<1> DEFINE n == Len(u)
           L == Len(src)
           r == Rest(src, p)
           b == p + n
           x == SubSeq(src, p + 1, b)
<1>1. n \in Nat /\ L \in Nat /\ Len(q) \in Nat /\ b \in Nat
  OBVIOUS
<1>2. Len(r) = L - p /\ \A i \in 1..(L - p) : r[i] = src[p + i]
  BY RestIs
<1>3. IsJoin(r, Nat, u, n, q, Len(q))
  BY JoinedAt
<1> HIDE DEF n, L, r
<1>4. Len(r) = n + Len(q) /\ \A i \in 1..n : r[i] = u[i]
  BY ONLY <1>3 DEF IsJoin
<1>5. L = p + n + Len(q) /\ b <= L /\ b - p = n /\ p <= b
  BY <1>1, <1>2, <1>4
<1>6. x \in Seq(Nat) /\ Len(x) = n /\ \A i \in 1..n : x[i] = src[p + i]
  <2> HIDE DEF b
  <2>1. x \in Seq(Nat) /\ (p <= b => Len(x) = b - p) /\ \A i \in 1..(b - p) : x[i] = src[p + i]
    <3>1. src \in Seq(Nat) /\ p \in Nat /\ b \in Nat /\ b <= Len(src)
      BY <1>1, <1>5 DEF L
    <3> QED  BY ONLY <3>1, PartIs
  <2> QED  BY <1>5, <2>1
<1> HIDE DEF x
<1>7. \A i \in 1..Len(x) : x[i] = u[i]
  <2> TAKE i \in 1..Len(x)
  <2>1. i \in 1..n /\ i \in 1..(L - p)
    BY <1>1, <1>5, <1>6
  <2> QED  BY <1>2, <1>4, <1>6, <2>1
<1>8. x = u
  BY <1>6, <1>7, SeqEqual DEF n
<1> QED  BY <1>5, <1>8 DEF IsPart, x, b, n, L

\* An H.264 picture as an application may hand it over.
GoodPicture(us, codes) == Coded(us, codes) /\ us # <<>> /\ \A i \in 1..Len(us) : GoodUnit(us[i])

\* The H.264 pictures that MediaAssumption allows are such pictures.
LEMMA PictureGood ==
  ASSUME NEW p \in Pictures, p.codec = VIDEO_H264
  PROVE  GoodPicture(p.units, p.codes)
<1> DEFINE us == p.units
<1>1. us \in Seq(Seq(Nat)) /\ us # <<>> /\ Coded(us, p.codes)
  BY MediaAssumption DEF Coded
<1>2. ASSUME NEW i \in 1..Len(us)  PROVE GoodUnit(us[i])
  <2> DEFINE u == us[i]
  <2>1. u \in Seq(Nat) /\ u \in Range(us)
    BY <1>1 DEF Range
  <2>2. u # <<>> /\ u[Len(u)] # 0 /\ \A j \in 1..(Len(u) - 2) : SubSeq(u, j, j + 2) # StartCode3
    BY <2>1, MediaAssumption
  <2> HIDE DEF u
  <2>3. \A j \in 1..(Len(u) - 2) : ~(u[j] = 0 /\ u[j + 1] = 0 /\ u[j + 2] = 1)
    BY <2>1, <2>2, NoCodeIn
  <2> QED  BY <2>1, <2>2, <2>3 DEF GoodUnit, u
<1> QED  BY <1>1, <1>2 DEF GoodPicture

\* What comes after unit i: nothing, or the next start code and no less than a byte.
FollowedBy(q, us, codes, i) ==
  /\ q \in Seq(Nat) /\ us[i] \in Seq(Nat) /\ Len(us[i]) >= 1
  /\ i = Len(us) => q = <<>>
  /\ i < Len(us) => /\ us[i + 1] \o After(us, codes, i + 1) \in Seq(Nat)
                    /\ codes[i + 1] \in {3, 4}
                    /\ q = Code(codes[i + 1]) \o (us[i + 1] \o After(us, codes, i + 1))
                    /\ Len(q) >= 4
                    /\ Rest(q, codes[i + 1]) = us[i + 1] \o After(us, codes, i + 1)

\* After every unit comes the end, or a start code and the next unit.
LEMMA FollowedIs ==
  ASSUME NEW us, NEW codes, GoodPicture(us, codes), NEW i \in 1..Len(us)
  PROVE  FollowedBy(After(us, codes, i), us, codes, i)
<1> DEFINE N == Len(us)
           q == After(us, codes, i)
<1>0. Coded(us, codes) /\ N \in Nat /\ i \in 0..N
  BY DEF GoodPicture, Coded
<1>1. q \in Seq(Nat)
  BY <1>0, AfterType
<1>2. us[i] \in Seq(Nat) /\ Len(us[i]) >= 1
  <2>1. GoodUnit(us[i])
    BY DEF GoodPicture
  <2> QED  BY <2>1 DEF GoodUnit
<1>3. i = N => q = <<>>
  BY <1>0, AfterLast
<1>4. CASE i < N
  <2> DEFINE c == codes[i + 1]
             z == Code(c)
             u == us[i + 1]
             v == After(us, codes, i + 1)
  <2>1. i + 1 \in 1..N /\ i + 1 \in 0..N /\ i \in 0..(N - 1)
    BY <1>0, <1>4
  <2>2. c \in {3, 4} /\ z \in Seq(Nat) /\ u \in Seq(Nat)
    BY <1>0, <2>1, CodedIs DEF Coded
  <2>3. Len(z) = c
    BY <2>2, CodesAre DEF Code
  <2>4. v \in Seq(Nat)
    BY <1>0, <2>1, AfterType
  <2>5. Len(u) >= 1
    <3>1. GoodUnit(u)
      BY <2>1 DEF GoodPicture
    <3> QED  BY <3>1 DEF GoodUnit
  <2>6. q = (z \o u) \o v
    BY <1>0, <2>1, AfterNext
  <2> HIDE DEF z, u, v, c, q
  <2>7. u \o v \in Seq(Nat) /\ Len(u \o v) = Len(u) + Len(v)
    BY ONLY <2>2, <2>4, Joined
  <2>8. q = z \o (u \o v)
    <3>1. (z \o u) \o v = z \o (u \o v)
      BY ONLY <2>2, <2>4, Assoc
    <3> QED  BY <2>6, <3>1
  <2> DEFINE y == u \o v
  <2>9. Len(z \o y) = Len(z) + Len(y) /\ Rest(z \o y, Len(z)) = y
    <3>1. z \in Seq(Nat) /\ y \in Seq(Nat)
      BY <2>2, <2>7
    <3> HIDE DEF y
    <3> QED  BY ONLY <3>1, Joined
  <2>10. Len(q) >= 4
    <3>1. Len(u) \in Nat /\ Len(v) \in Nat
      BY <2>2, <2>4
    <3>2. Len(q) = c + (Len(u) + Len(v))
      BY <2>3, <2>7, <2>8, <2>9
    <3> QED  BY <2>2, <2>5, <3>1, <3>2
  <2>11. Rest(q, c) = y
    BY <2>3, <2>8, <2>9
  <2> HIDE DEF y
  <2>12. /\ y \in Seq(Nat) /\ c \in {3, 4} /\ q = z \o y /\ Len(q) >= 4 /\ Rest(q, c) = y /\ i # N
    BY <1>0, <1>4, <2>2, <2>7, <2>8, <2>10, <2>11 DEF y
  <2> QED  BY <1>1, <1>2, <2>12 DEF FollowedBy, z, u, v, c, q, y
<1>5. CASE ~(i < N)
  BY <1>0, <1>1, <1>2, <1>3, <1>5 DEF FollowedBy
<1> QED  BY <1>4, <1>5

\* The loop of ParseNalusN with a limit of 3, or none, within unit i: it has the units
\* before it.
AtUnit(s, src, us, codes, i) ==
  /\ i \in 1..Len(us) /\ ((i <= 3 /\ s.n = 4 - i) \/ s.n = -1)
  /\ Len(s.nalus) = i - 1 /\ \A j \in 1..(i - 1) : s.nalus[j] = us[j]
  /\ Rest(src, s.pre) = us[i] \o After(us, codes, i)
  /\ s.index - s.pre <= Len(us[i])
  /\ s.at = "end" => s.n = 1 \/ i = Len(us)

\* A turn goes on within the unit, or takes it and goes on to the next one.
LEMMA AtUnitTurn ==
  ASSUME NEW us, NEW codes, GoodPicture(us, codes), NEW src \in Seq(Nat), NEW s \in ScanStates(src),
         s.at = "loop", s.n # 1, NEW i, AtUnit(s, src, us, codes, i), ScanTurn(src, s).at # "panic"
  PROVE  \E j : AtUnit(ScanTurn(src, s), src, us, codes, j)
<1> DEFINE N == Len(us)
           pre == s.pre
           index == s.index
           d == index - pre
           L == Len(src)
           u == us[i]
           q == After(us, codes, i)
           w == Rest(src, pre)
           code == StartCode(src, index)
           t == ScanTurn(src, s)
           nalus == s.nalus
<1>1. /\ s \in ScanRec /\ pre \in Nat /\ index \in Nat /\ L \in Nat /\ pre <= index /\ index <= L /\ pre <= L
      /\ d \in Nat /\ index = pre + d /\ nalus \in Seq(Seq(Nat))
  BY DEF ScanStates, ScanRec
<1>2. /\ i \in 1..N /\ N \in Nat /\ w = u \o q /\ d <= Len(u) /\ i \in Nat
      /\ (i <= 3 /\ s.n = 4 - i) \/ s.n = -1
  BY DEF AtUnit, GoodPicture, Coded
<1> DEFINE next == IF s.n > 0 THEN s.n - 1 ELSE s.n
<1>3. FollowedBy(q, us, codes, i)
  BY <1>2, FollowedIs
<1>4. q \in Seq(Nat) /\ u \in Seq(Nat) /\ Len(u) \in Nat /\ Len(u) >= 1 /\ Len(q) \in Nat
  BY <1>3 DEF FollowedBy
<1>5. SubSeq(src, pre + 1, pre + Len(u)) = u /\ L = pre + Len(u) + Len(q)
  <2>1. src \in Seq(Nat) /\ pre \in Nat /\ pre <= Len(src) /\ u \in Seq(Nat) /\ q \in Seq(Nat) /\ Rest(src, pre) = u \o q
    BY <1>1, <1>2, <1>4
  <2> HIDE DEF u, q, pre
  <2>2. IsPart(src, pre, u, q)
    BY ONLY <2>1, PartBefore
  <2> QED  BY <2>2 DEF IsPart
<1>6. code = StartCode(w, d)
  <2> HIDE DEF d, pre, index
  <2>1. pre \in Nat /\ pre <= Len(src) /\ d \in Nat
    BY <1>1
  <2>2. StartCode(src, pre + d) = StartCode(Rest(src, pre), d)
    BY ONLY <2>1, CodeShift, src \in Seq(Nat)
  <2> QED  BY <1>1, <2>2
<1>7. ~(index + (IF code = 3 THEN 3 ELSE 4) > L)
  <2> SUFFICES ASSUME index + (IF code = 3 THEN 3 ELSE 4) > L  PROVE FALSE
    OBVIOUS
  <2>1. t = [s EXCEPT !.at = "panic"]
    <3> HIDE DEF code
    <3> QED  BY DEF ScanTurn, code
  <2>2. t.at = "panic"
    <3> HIDE DEF t
    <3> QED  BY <1>1, <2>1 DEF ScanRec
  <2> QED  BY <2>2
<1>8. Len(nalus) = i - 1 /\ \A j \in 1..(i - 1) : nalus[j] = us[j]
  BY DEF AtUnit
<1>9. CASE d < Len(u)
  <2>1. code = 0
    <3>1. GoodUnit(u)
      BY <1>2 DEF GoodPicture
    <3> HIDE DEF u, d, q, w
    <3> QED  BY <1>1, <1>2, <1>4, <1>6, <1>9, <3>1, CodeInside
  <2> DEFINE at == IF index + 5 > L THEN "end" ELSE "loop"
  <2>2. t = [s EXCEPT !.index = index + 1, !.at = at]
    <3> HIDE DEF code
    <3> QED  BY <1>7, <2>1 DEF ScanTurn, code
  <2>3. t.index = index + 1 /\ t.at = at /\ t.pre = pre /\ t.n = s.n /\ t.nalus = nalus
    <3> HIDE DEF t, at, index
    <3> QED  BY <1>1, <2>2 DEF ScanRec
  <2>4. (index + 1) - pre <= Len(u)
    <3> HIDE DEF index, pre, u, d
    <3> QED  BY <1>1, <1>2, <1>4, <1>9
  <2>5. i < N => ~(index + 5 > L)
    <3>1. i < N => Len(q) >= 4
      BY <1>3 DEF FollowedBy
    <3> HIDE DEF index, pre, u, d, q, L
    <3> QED  BY <1>1, <1>2, <1>4, <1>5, <1>9, <3>1
  <2>6. at = "end" => i = N
    <3> HIDE DEF index, L
    <3> QED  BY <1>2, <2>5
  <2> HIDE DEF t, at, index, w
  <2>7. AtUnit(t, src, us, codes, i)
    BY <1>2, <1>8, <2>3, <2>4, <2>6 DEF AtUnit, w
  <2> QED  BY <2>7 DEF t
<1>10. CASE d = Len(u)
  <2>1. i < N
    <3> SUFFICES ASSUME i = N  PROVE FALSE
      BY <1>2
    <3>1. q = <<>>
      BY <1>3 DEF FollowedBy
    <3>2. Len(q) = 0
      BY <3>1
    <3>3. index = L
      <4> HIDE DEF index, pre, u, d, q, L
      <4> QED  BY <1>1, <1>4, <1>5, <1>10, <3>2
    <3> HIDE DEF index, L, code
    <3> QED  BY <1>1, <1>7, <3>3
  <2> DEFINE c == codes[i + 1]
             y == us[i + 1] \o After(us, codes, i + 1)
  <2>2. y \in Seq(Nat) /\ c \in {3, 4} /\ q = Code(c) \o y /\ Rest(q, c) = y
    BY <1>3, <2>1 DEF FollowedBy
  <2> HIDE DEF c, y
  <2>3. code = c
    <3>1. StartCode(u \o (Code(c) \o y), Len(u)) = c
      <4> HIDE DEF u
      <4> QED  BY <1>4, <2>2, CodeBehind
    <3> HIDE DEF u, q, d, w, code
    <3> QED  BY <1>2, <1>6, <1>10, <2>2, <3>1
  <2>4. index > pre /\ ((i + 1 <= 3 /\ next = 4 - (i + 1)) \/ next = -1)
    <3> DEFINE n == s.n
    <3>1. (i <= 3 /\ n = 4 - i) \/ n = -1
      BY <1>2
    <3>2. n # 1
      OBVIOUS
    <3> HIDE DEF index, pre, u, d, n
    <3>3. index > pre
      BY <1>1, <1>4, <1>10
    <3>4. (i + 1 <= 3 /\ (IF n > 0 THEN n - 1 ELSE n) = 4 - (i + 1)) \/ (IF n > 0 THEN n - 1 ELSE n) = -1
      BY <1>2, <3>1, <3>2
    <3> QED  BY <3>3, <3>4 DEF n
  <2>5. t = [at |-> "loop", n |-> next, pre |-> index + c, index |-> index + c,
             nalus |-> Append(nalus, SubSeq(src, pre + 1, index))]
    <3>1. code > 0
      <4> HIDE DEF code
      <4> QED  BY <2>2, <2>3
    <3>2. s.index > s.pre
      BY <2>4
    <3> HIDE DEF code
    <3> QED  BY <1>7, <2>3, <2>4, <3>1, <3>2 DEF ScanTurn, code
  <2>6. SubSeq(src, pre + 1, index) = u
    <3>1. index = pre + Len(u)
      <4> HIDE DEF index, pre, u, d
      <4> QED  BY <1>1, <1>10
    <3> HIDE DEF index, pre, u
    <3> QED  BY <1>5, <3>1
  <2>7. Rest(src, index + c) = y
    <3>1. Rest(w, d) = q
      <4> HIDE DEF u, q, w, d
      <4>1. Rest(u \o q, Len(u)) = q
        BY ONLY <1>4, Joined
      <4> QED  BY <1>2, <1>10, <4>1
    <3>2. Rest(src, index) = q
      <4>1. Rest(Rest(src, pre), d) = Rest(src, pre + d)
        <5>1. pre \in Nat /\ pre <= Len(src) /\ d \in Nat
          BY <1>1
        <5> HIDE DEF pre, d
        <5> QED  BY ONLY <5>1, RestRest, src \in Seq(Nat)
      <4> HIDE DEF pre, d, index
      <4> QED  BY <1>1, <3>1, <4>1
    <3>3. Rest(Rest(src, index), c) = Rest(src, index + c)
      <4>1. index \in Nat /\ index <= Len(src) /\ c \in Nat
        BY <1>1, <2>2
      <4> HIDE DEF index
      <4> QED  BY ONLY <4>1, RestRest, src \in Seq(Nat)
    <3> HIDE DEF index, q
    <3> QED  BY <2>2, <3>2, <3>3
  <2> DEFINE k == i + 1
             p == index + c
             xs == Append(nalus, u)
  <2>8. t = [at |-> "loop", n |-> next, pre |-> p, index |-> p, nalus |-> xs]
    <3> HIDE DEF t, u, index, next
    <3> QED  BY <2>5, <2>6
  <2>9. p \in Nat
    BY <1>1, <2>2
  <2>10. Len(xs) = k - 1 /\ \A j \in 1..(k - 1) : xs[j] = us[j]
    <3>1. Len(xs) = Len(nalus) + 1 /\ xs[Len(nalus) + 1] = u /\ \A j \in 1..Len(nalus) : xs[j] = nalus[j]
      <4> HIDE DEF nalus, u
      <4> QED  BY <1>1, <1>4, Grown
    <3> HIDE DEF xs, nalus
    <3>2. xs[i] = us[i] /\ Len(xs) = k - 1
      BY <1>2, <1>8, <3>1
    <3>3. ASSUME NEW j \in 1..(k - 1)  PROVE xs[j] = us[j]
      <4>1. j = i \/ j \in 1..(i - 1)
        BY <1>2
      <4>2. j \in 1..(i - 1) => xs[j] = nalus[j] /\ nalus[j] = us[j]
        BY <1>2, <1>8, <3>1
      <4> QED  BY <3>2, <4>1, <4>2
    <3> QED  BY <3>2, <3>3
  <2> HIDE DEF t, xs, p, next
  <2>11. t.at = "loop" /\ t.n = next /\ t.pre = p /\ t.index = p /\ t.nalus = xs
    BY <2>8
  <2>12. k \in 1..N /\ ((k <= 3 /\ next = 4 - k) \/ next = -1)
    BY <1>2, <2>1, <2>4
  <2>13. p - p <= Len(us[k])
    <3>1. Len(us[k]) \in Nat
      <4>1. us[k] \in Seq(Nat)
        BY <2>12 DEF GoodPicture, Coded
      <4> QED  BY ONLY <4>1
    <3> QED  BY <2>9, <3>1
  <2>14. Rest(src, p) = us[k] \o After(us, codes, k)
    BY <2>7 DEF p, y
  <2> HIDE DEF k
  <2>15. AtUnit(t, src, us, codes, k)
    BY <2>10, <2>11, <2>12, <2>13, <2>14 DEF AtUnit
  <2> QED  BY <2>15 DEF t
<1> HIDE DEF d, u
<1> QED  BY <1>1, <1>2, <1>4, <1>9, <1>10

\* The loop of ParseNalusN comes to an end.
LEMMA ScanEnds ==
  ASSUME NEW src \in Seq(Nat), NEW n \in Int
  PROVE  Scan(src, n)[Len(src) + 1] \in ScanStates(src) /\ Scan(src, n)[Len(src) + 1].at # "loop"
<1> DEFINE S == ScanStates(src)
           scan == Scan(src, n)
           L == Len(src)
           N == L + 1
<1>1. ScanStart(n) \in S
  BY DEF ScanStart, ScanStates, ScanRec
<1>2. \A x \in S : ScanTurn(src, x) \in S
  BY ScanTurnType
<1>3. IsScan(scan, S, src, n)
  <2> HIDE DEF S
  <2> QED  BY <1>1, <1>2, ScanRuns
<1>4. /\ scan[0] = ScanStart(n) /\ \A k \in 0..N : scan[k] \in S
      /\ \A k \in 1..N : scan[k] = ScanTurn(src, scan[k - 1])
  <2> HIDE DEF S, scan
  <2> QED  BY ONLY <1>3 DEF IsScan, N, L
<1>5. L \in Nat /\ N \in Nat /\ N = L + 1
  OBVIOUS
<1>6. ASSUME NEW s \in S, ScanTurn(src, s).at = "loop"
      PROVE  s.at = "loop" /\ s.index \in Nat /\ ScanTurn(src, s).index >= s.index + 1
  <2> DEFINE t == ScanTurn(src, s)
             code == StartCode(src, s.index)
             index == s.index
  <2>1. s \in ScanRec /\ index \in Nat /\ index <= L
    BY DEF ScanStates, ScanRec
  <2>2. code \in {0, 3, 4}
    BY <2>1, CodeIs
  <2>3. s.at = "loop"
    BY <1>6 DEF ScanTurn
  <2>4. ~(s.n = 1) /\ ~(index + (IF code = 3 THEN 3 ELSE 4) > L)
    <3>1. s.n = 1 => t = [s EXCEPT !.at = "end"]
      BY <2>3 DEF ScanTurn
    <3>2. s.n # 1 /\ index + (IF code = 3 THEN 3 ELSE 4) > L => t = [s EXCEPT !.at = "panic"]
      <4> HIDE DEF code
      <4> QED  BY <2>3 DEF ScanTurn, code
    <3> HIDE DEF t, code, index, L
    <3>3. [s EXCEPT !.at = "end"].at = "end" /\ [s EXCEPT !.at = "panic"].at = "panic"
      BY <2>1 DEF ScanRec
    <3>4. t.at = "loop"
      BY <1>6 DEF t
    <3> QED  BY ONLY <3>1, <3>2, <3>3, <3>4
  <2>5. CASE code > 0
    <3>1. t.index = index + code
      <4> HIDE DEF code
      <4> QED  BY <2>3, <2>4, <2>5 DEF ScanTurn, code
    <3> HIDE DEF t, code, index
    <3>2. t.index >= index + 1
      BY <2>1, <2>2, <2>5, <3>1
    <3> QED  BY <2>1, <2>3, <3>2 DEF t, index
  <2>6. CASE ~(code > 0)
    <3>1. t = [s EXCEPT !.index = index + 1, !.at = IF index + 5 > L THEN "end" ELSE "loop"]
      <4> HIDE DEF code
      <4> QED  BY <2>3, <2>4, <2>6 DEF ScanTurn, code
    <3> HIDE DEF t, code, index
    <3>2. t.index = index + 1
      BY <2>1, <3>1 DEF ScanRec
    <3>3. t.index >= index + 1
      BY <2>1, <3>2
    <3> QED  BY <2>1, <2>3, <3>3 DEF t, index
  <2> QED  BY <2>5, <2>6
<1> HIDE DEF scan, N
<1> DEFINE T == {k \in 0..N : scan[k].at = "loop" => scan[k].index \in Nat /\ scan[k].index >= k}
<1>7. \A k \in 0..N : k \in T
  <2>1. 0 \in T
    <3>1. scan[0].index = 0 /\ 0 \in 0..N
      BY <1>4, <1>5 DEF ScanStart
    <3> QED  BY <3>1
  <2>2. ASSUME NEW k \in 1..N, k - 1 \in T  PROVE k \in T
    <3> DEFINE s == scan[k - 1]
               t == scan[k]
    <3>1. s \in S /\ t = ScanTurn(src, s) /\ t \in S /\ k \in 0..N /\ k - 1 \in 0..N
      <4>1. k \in 0..N /\ k - 1 \in 0..N
        BY <1>5
      <4> HIDE DEF S
      <4> QED  BY <1>4, <4>1
    <3>2. t.index \in Nat
      BY <3>1 DEF ScanStates, ScanRec
    <3>3. s.at = "loop" => s.index >= k - 1
      BY <2>2
    <3> HIDE DEF s, t, S
    <3>4. ASSUME t.at = "loop"  PROVE t.index >= k
      <4>1. s.at = "loop" /\ s.index \in Nat /\ t.index >= s.index + 1
        BY <1>6, <3>1, <3>4
      <4> QED  BY <1>5, <3>2, <3>3, <4>1
    <3> QED  BY <3>1, <3>2, <3>4 DEF t
  <2> HIDE DEF T, S
  <2> QED  BY <1>5, <2>1, <2>2, UpTo
<1>8. N \in 0..N /\ scan[N] \in S
  <2>1. N \in 0..N
    BY <1>5
  <2> HIDE DEF S
  <2> QED  BY <1>4, <2>1
<1>9. scan[N].at # "loop"
  <2> SUFFICES ASSUME scan[N].at = "loop"  PROVE FALSE
    OBVIOUS
  <2>1. scan[N].index >= N
    BY <1>7, <1>8
  <2>2. scan[N].index <= L /\ scan[N].index \in Nat
    BY <1>8 DEF ScanStates, ScanRec
  <2> QED  BY <1>5, <2>1, <2>2
<1> QED  BY <1>8, <1>9 DEF scan, N

\* The first units, and the rest of the picture in one piece.
CutAt(xs, us, codes, i) ==
  /\ xs \in Seq(Seq(Nat)) /\ Len(xs) = i /\ \A j \in 1..(i - 1) : xs[j] = us[j]
  /\ xs[i] = us[i] \o After(us, codes, i)

\* A turn of the loop that does not panic stays within a unit, or goes on to the next.
LEMMA AtUnitStep ==
  ASSUME NEW us, NEW codes, GoodPicture(us, codes), NEW src \in Seq(Nat), NEW s \in ScanStates(src),
         NEW i, AtUnit(s, src, us, codes, i), ScanTurn(src, s).at # "panic"
  PROVE  \E j : AtUnit(ScanTurn(src, s), src, us, codes, j)
<1> DEFINE t == ScanTurn(src, s)
<1>1. s \in ScanRec
  BY DEF ScanStates
<1>2. CASE s.at # "loop"
  <2>1. t = s
    BY <1>2 DEF ScanTurn
  <2> HIDE DEF t
  <2>2. AtUnit(t, src, us, codes, i)
    BY <2>1
  <2> QED  BY <2>2 DEF t
<1>3. CASE s.at = "loop" /\ s.n = 1
  <2>1. t = [s EXCEPT !.at = "end"]
    BY <1>3 DEF ScanTurn
  <2> HIDE DEF t
  <2>2. t.n = s.n /\ t.pre = s.pre /\ t.index = s.index /\ t.nalus = s.nalus
    BY <1>1, <2>1 DEF ScanRec
  <2>3. AtUnit(t, src, us, codes, i)
    BY <1>3, <2>2 DEF AtUnit
  <2> QED  BY <2>3 DEF t
<1>4. CASE s.at = "loop" /\ s.n # 1
  BY <1>4, AtUnitTurn
<1> QED  BY <1>2, <1>3, <1>4

\* Where the loop has ended, ParseNalusN returns the units it has, and the rest as one.
LEMMA EndsAt ==
  ASSUME NEW us, NEW codes, GoodPicture(us, codes), NEW src \in Seq(Nat), NEW n \in Int, n # 0,
         Len(src) >= 4, ~ParseNalusN(src, n).panic,
         NEW i, AtUnit(Scan(src, n)[Len(src) + 1], src, us, codes, i)
  PROVE  /\ i \in 1..Len(us) /\ CutAt(ParseNalusN(src, n).nalus, us, codes, i)
         /\ Scan(src, n)[Len(src) + 1].n = 1 \/ i = Len(us)
<1> DEFINE L == Len(src)
           N == Len(us)
           r == Scan(src, n)[L + 1]
<1>1. L \in Nat
  OBVIOUS
<1>4. r \in ScanStates(src) /\ r.at # "loop"
  BY ScanEnds
<1> DEFINE x == Rest(src, r.pre)
           res == ParseNalusN(src, n)
<1> HIDE DEF r
<1>5. r.at # "panic" /\ res.nalus = IF r.pre < L THEN Append(r.nalus, x) ELSE r.nalus
  <2>1. ~(L < 4 \/ n = 0)
    BY <1>1
  <2>2. r.at # "panic"
    BY <2>1 DEF ParseNalusN, r
  <2>3. res = [panic |-> FALSE, nalus |-> IF r.pre < L THEN Append(r.nalus, x) ELSE r.nalus]
    BY <2>1, <2>2 DEF ParseNalusN, r
  <2> HIDE DEF res, x
  <2> QED  BY <2>2, <2>3
<1>6. AtUnit(r, src, us, codes, i)
  BY DEF r
<1>7. r.at = "end" /\ r.pre \in Nat /\ r.pre <= L /\ r.nalus \in Seq(Seq(Nat))
  BY <1>4, <1>5 DEF ScanStates, ScanRec
<1>8. /\ i \in 1..N /\ (r.n = 1 \/ i = N) /\ x = us[i] \o After(us, codes, i)
      /\ Len(r.nalus) = i - 1 /\ \A j \in 1..(i - 1) : r.nalus[j] = us[j]
  BY <1>6, <1>7 DEF AtUnit
<1>10. x \in Seq(Nat) /\ Len(x) = L - r.pre /\ Len(x) >= 1
  <2>1. x \in Seq(Nat) /\ Len(x) = L - r.pre
    <3>1. r.pre \in Nat /\ r.pre <= Len(src)
      BY <1>7
    <3> QED  BY <1>1, <3>1, RestIs
  <2> DEFINE a == us[i]
             b == After(us, codes, i)
  <2>2. a \in Seq(Nat) /\ b \in Seq(Nat) /\ Len(a) >= 1
    BY <1>8, FollowedIs DEF FollowedBy
  <2> HIDE DEF a, b
  <2>3. Len(a \o b) = Len(a) + Len(b) /\ Len(b) \in Nat /\ Len(a) \in Nat
    BY <2>2, Joined
  <2>4. Len(x) = Len(a) + Len(b)
    BY <1>8, <2>3 DEF a, b
  <2> HIDE DEF x
  <2>5. Len(x) >= 1
    BY ONLY <2>2, <2>3, <2>4
  <2> QED  BY ONLY <2>1, <2>5
<1> HIDE DEF x
<1>11. res.nalus = Append(r.nalus, x)
  <2>1. r.pre < L
    BY <1>1, <1>7, <1>10
  <2> HIDE DEF res, L
  <2> QED  BY ONLY <1>5, <2>1
<1> DEFINE xs == Append(r.nalus, x)
<1>12. xs \in Seq(Seq(Nat)) /\ Len(xs) = i /\ xs[i] = x /\ \A j \in 1..(i - 1) : xs[j] = us[j]
  <2> DEFINE ns == r.nalus
  <2>1. ns \in Seq(Seq(Nat)) /\ Len(ns) = i - 1 /\ i \in Nat /\ \A j \in 1..(i - 1) : ns[j] = us[j]
    BY <1>7, <1>8
  <2> HIDE DEF ns
  <2>2. /\ Append(ns, x) \in Seq(Seq(Nat)) /\ Len(Append(ns, x)) = Len(ns) + 1
        /\ Append(ns, x)[Len(ns) + 1] = x /\ \A j \in 1..Len(ns) : Append(ns, x)[j] = ns[j]
    BY <1>10, <2>1, Grown
  <2>3. Len(ns) + 1 = i
    BY <2>1
  <2> QED  BY <2>1, <2>2, <2>3 DEF ns
<1> HIDE DEF xs
<1>13. CutAt(xs, us, codes, i)
  BY <1>8, <1>12 DEF CutAt
<1>14. res.nalus = xs
  BY <1>11 DEF xs
<1> HIDE DEF res
<1> QED  BY <1>8, <1>13, <1>14 DEF res, r

\* A picture without its first start code is cut into units, of which the third has
\* the others with it.
LEMMA CutIs ==
  ASSUME NEW us, NEW codes, GoodPicture(us, codes), NEW src, src = us[1] \o After(us, codes, 1),
         Len(src) >= 4, ~ParseNalusN(src, 3).panic
  PROVE  \E i \in 1..Len(us) : CutAt(ParseNalusN(src, 3).nalus, us, codes, i) /\ i <= 3 /\ (i = 3 \/ i = Len(us))
<1> DEFINE L == Len(src)
           N == Len(us)
           S == {s \in ScanStates(src) : s.n >= 0 /\ (s.at # "panic" => \E i : AtUnit(s, src, us, codes, i))}
           r == Scan(src, 3)[L + 1]
<1>0. N \in Nat /\ 1 \in 1..N /\ us \in Seq(Seq(Nat))
  BY DEF GoodPicture, Coded
<1>1. src \in Seq(Nat) /\ L \in Nat
  <2>1. us[1] \in Seq(Nat) /\ After(us, codes, 1) \in Seq(Nat)
    BY <1>0, FollowedIs DEF FollowedBy
  <2>2. src \in Seq(Nat)
    BY ONLY <2>1, Joined, src = us[1] \o After(us, codes, 1)
  <2> QED  BY <2>2
<1>2. ScanStart(3) \in S
  <2> DEFINE s == ScanStart(3)
  <2>1. s \in ScanStates(src) /\ s.n >= 0
    BY <1>1 DEF ScanStart, ScanStates, ScanRec
  <2>2. AtUnit(s, src, us, codes, 1)
    <3>1. s.n = 3 /\ s.nalus = <<>> /\ s.pre = 0 /\ s.index = 0 /\ s.at = "loop"
      BY DEF ScanStart
    <3>2. Rest(src, 0) = src
      BY <1>1, Joined DEF Rest
    <3>3. Len(us[1]) \in Nat
      BY <1>0
    <3> HIDE DEF s
    <3> QED  BY <1>0, <3>1, <3>2, <3>3 DEF AtUnit
  <2> HIDE DEF s
  <2> QED  BY <2>1, <2>2 DEF s
<1>3. ASSUME NEW s \in S  PROVE ScanTurn(src, s) \in S
  <2> DEFINE t == ScanTurn(src, s)
  <2>1. t \in ScanStates(src)
    BY <1>1, ScanTurnType
  <2>3. t.n >= 0
    <3>1. s.n \in Int /\ s.n >= 0 /\ s \in ScanRec
      BY DEF ScanStates, ScanRec
    <3>2. t.n = s.n \/ (s.n > 0 /\ t.n = s.n - 1)
      BY <3>1 DEF ScanTurn, ScanRec
    <3> HIDE DEF t
    <3> QED  BY <3>1, <3>2
  <2>2. ASSUME t.at # "panic"  PROVE \E i : AtUnit(t, src, us, codes, i)
    <3>1. s.at # "panic"
      BY <2>2 DEF ScanTurn
    <3>2. PICK i : AtUnit(s, src, us, codes, i)
      BY <3>1
    <3>3. s \in ScanStates(src)
      OBVIOUS
    <3> QED  BY <1>1, <2>2, <3>2, <3>3, AtUnitStep
  <2> HIDE DEF t
  <2> QED  BY <2>1, <2>2, <2>3 DEF t
<1>4. r \in S /\ r.at # "loop"
  <2>1. IsScan(Scan(src, 3), S, src, 3)
    <3> HIDE DEF S
    <3> QED  BY <1>1, <1>2, <1>3, ScanRuns
  <2>2. L + 1 \in 0..(L + 1)
    BY <1>1
  <2>3. r \in S
    <3> HIDE DEF S
    <3> QED  BY ONLY <2>1, <2>2 DEF IsScan
  <2>4. 3 \in Int
    OBVIOUS
  <2>5. r.at # "loop"
    BY <1>1, <2>4, ScanEnds
  <2> QED  BY <2>3, <2>5
<1>5. r.at # "panic"
  <2>1. ~(L < 4 \/ 3 = 0)
    BY <1>1
  <2> QED  BY <2>1 DEF ParseNalusN, r
<1>6. PICK i : AtUnit(r, src, us, codes, i)
  BY <1>4, <1>5
<1>7. /\ i \in 1..N /\ CutAt(ParseNalusN(src, 3).nalus, us, codes, i)
      /\ r.n = 1 \/ i = N
  <2>1. /\ GoodPicture(us, codes) /\ src \in Seq(Nat) /\ 3 \in Int /\ 3 # 0 /\ Len(src) >= 4
        /\ ~ParseNalusN(src, 3).panic /\ AtUnit(Scan(src, 3)[Len(src) + 1], src, us, codes, i)
    BY <1>1, <1>6
  <2> QED  BY ONLY <2>1, EndsAt
<1>8. i <= 3 /\ (r.n = 1 => i = 3)
  <2>1. r.n >= 0
    BY <1>4
  <2> HIDE DEF r
  <2> QED  BY <1>6, <1>7, <2>1 DEF AtUnit
<1> QED  BY <1>7, <1>8

\* ParseNalus gives the NAL units of a picture back, whatever their number, their lengths
\* and their start codes, unless it panics (SplitSafe).
THEOREM NalusBack ==
  ASSUME NEW us, NEW codes, GoodPicture(us, codes), ~ParseNalus(Bytes(us, codes)).panic
  PROVE  ParseNalus(Bytes(us, codes)).nalus = us
<1> DEFINE src == Bytes(us, codes)
           L == Len(src)
           N == Len(us)
           c == codes[1]
           y == us[1] \o After(us, codes, 1)
           S == {s \in ScanStates(src) :
                   s.n = -1 /\ (s.at # "panic" => s = ScanStart(-1) \/ \E i : AtUnit(s, src, us, codes, i))}
           r == Scan(src, -1)[L + 1]
<1>0. N \in Nat /\ 1 \in 1..N /\ us \in Seq(Seq(Nat)) /\ Coded(us, codes) /\ c \in {3, 4} /\ -1 \in Int
  BY CodedIs DEF GoodPicture, Coded
<1>1. y \in Seq(Nat) /\ Len(y) >= 1 /\ src = Code(c) \o y
  <2> DEFINE u == us[1]
             q == After(us, codes, 1)
             z == Code(c)
  <2>1. u \in Seq(Nat) /\ q \in Seq(Nat) /\ Len(u) >= 1
    BY <1>0, FollowedIs DEF FollowedBy
  <2>2. z \in Seq(Nat)
    BY CodesAre DEF Code
  <2>3. src = (z \o u) \o q
    <3>1. 0 \in 0..(Len(us) - 1) /\ 0 + 1 = 1
      BY <1>0
    <3>2. After(us, codes, 0) = (Code(codes[0 + 1]) \o us[0 + 1]) \o After(us, codes, 0 + 1)
      BY ONLY <1>0, <3>1, AfterNext
    <3>3. Bytes(us, codes) = After(us, codes, 0)
      BY <1>0, AfterNone
    <3> QED  BY <3>1, <3>2, <3>3
  <2> HIDE DEF u, q, z, src
  <2>4. (z \o u) \o q = z \o (u \o q)
    BY ONLY <2>1, <2>2, Assoc
  <2>5. u \o q \in Seq(Nat) /\ Len(u \o q) = Len(u) + Len(q) /\ Len(q) \in Nat /\ Len(u) \in Nat
    BY ONLY <2>1, Joined
  <2>6. Len(u \o q) >= 1
    BY <2>1, <2>5
  <2> QED  BY <2>3, <2>4, <2>5, <2>6 DEF u, q, z
<1> HIDE DEF src, c, y
<1>2. src \in Seq(Nat) /\ L \in Nat /\ L >= 4 /\ Rest(src, c) = y /\ StartCode(src, 0) = c
  <2> DEFINE z == Code(c)
  <2>1. z \in Seq(Nat) /\ Len(z) = c
    BY <1>0, CodesAre DEF Code
  <2> HIDE DEF z
  <2>0. y \in Seq(Nat) /\ z \in Seq(Nat)
    BY <1>1, <2>1
  <2>2. z \o y \in Seq(Nat) /\ Len(z \o y) = Len(z) + Len(y) /\ Rest(z \o y, Len(z)) = y /\ Len(y) \in Nat
    BY ONLY <2>0, Joined
  <2>3. <<>> \in Seq(Nat) /\ <<>> \o (z \o y) = z \o y /\ Len(<<>>) = 0
    BY ONLY <2>2
  <2>4. StartCode(<<>> \o (Code(c) \o y), Len(<<>>)) = c
    BY ONLY <1>0, <1>1, <2>3, CodeBehind
  <2>5. StartCode(src, 0) = c
    BY <1>1, <2>3, <2>4 DEF z
  <2>6. src = z \o y
    BY <1>1 DEF z
  <2> QED  BY ONLY <1>0, <1>1, <2>1, <2>2, <2>5, <2>6
<1>3. ScanStart(-1) \in S
  BY <1>2 DEF ScanStart, ScanStates, ScanRec
<1>4. AtUnit(ScanTurn(src, ScanStart(-1)), src, us, codes, 1)
  <2> DEFINE s == ScanStart(-1)
             t == ScanTurn(src, s)
             k == StartCode(src, 0)
  <2>1. s.at = "loop" /\ s.n = -1 /\ s.pre = 0 /\ s.index = 0 /\ s.nalus = <<>>
    BY DEF ScanStart
  <2>2. k = c /\ c > 0 /\ ~(0 + (IF c = 3 THEN 3 ELSE 4) > L) /\ 0 + c = c
    BY <1>0, <1>2
  <2> HIDE DEF s, k, L
  <2>3. t = [at |-> "loop", n |-> -1, pre |-> c, index |-> c, nalus |-> <<>>]
    BY <2>1, <2>2 DEF ScanTurn, k, L
  <2>4. Len(us[1]) \in Nat
    BY <1>0
  <2> HIDE DEF t
  <2>5. t.at = "loop" /\ t.n = -1 /\ t.pre = c /\ t.index = c /\ t.nalus = <<>>
    BY <2>3
  <2>6. c - c <= Len(us[1])
    BY <1>0, <2>4
  <2>7. AtUnit(t, src, us, codes, 1)
    BY <1>0, <1>2, <2>5, <2>6 DEF AtUnit, y
  <2> QED  BY <2>7 DEF t, s
<1>5. ASSUME NEW s \in S  PROVE ScanTurn(src, s) \in S
  <2> DEFINE t == ScanTurn(src, s)
  <2>1. t \in ScanStates(src) /\ s \in ScanStates(src)
    BY <1>2, ScanTurnType
  <2>2. t.n = -1
    <3>1. s.n = -1 /\ s \in ScanRec
      BY DEF ScanStates
    <3> QED  BY <3>1 DEF ScanTurn, ScanRec
  <2>3. ASSUME t.at # "panic"  PROVE \E i : AtUnit(t, src, us, codes, i)
    <3>1. s.at # "panic"
      BY <2>3 DEF ScanTurn
    <3>2. CASE s = ScanStart(-1)
      BY <1>4, <3>2
    <3>3. CASE \E i : AtUnit(s, src, us, codes, i)
      <4>1. PICK i : AtUnit(s, src, us, codes, i)
        BY <3>3
      <4> QED  BY <1>2, <2>1, <2>3, <4>1, AtUnitStep
    <3> QED  BY <3>1, <3>2, <3>3
  <2> HIDE DEF t
  <2> QED  BY <2>1, <2>2, <2>3 DEF t
<1>6. r \in S /\ r.at # "loop"
  <2>1. IsScan(Scan(src, -1), S, src, -1)
    <3> HIDE DEF S
    <3> QED  BY <1>2, <1>3, <1>5, ScanRuns
  <2>2. L + 1 \in 0..(L + 1)
    BY <1>2
  <2>3. r \in S
    <3> HIDE DEF S
    <3> QED  BY ONLY <2>1, <2>2 DEF IsScan
  <2>4. r.at # "loop"
    BY <1>0, <1>2, ScanEnds
  <2> QED  BY <2>3, <2>4
<1>7. ~ParseNalusN(src, -1).panic
  BY DEF ParseNalus, src
<1>8. r.at # "panic"
  <2>1. ~(L < 4 \/ -1 = 0)
    BY <1>2
  <2> QED  BY <1>7, <2>1 DEF ParseNalusN, r
<1>9. r.n = -1 /\ \E i : AtUnit(r, src, us, codes, i)
  <2>1. ScanStart(-1).at = "loop"
    BY DEF ScanStart
  <2> HIDE DEF r
  <2> QED  BY <1>6, <1>8, <2>1
<1>10. PICK i : AtUnit(r, src, us, codes, i)
  BY <1>9
<1> DEFINE xs == ParseNalusN(src, -1).nalus
<1>11. CutAt(xs, us, codes, N)
  <2>1. /\ GoodPicture(us, codes) /\ src \in Seq(Nat) /\ -1 \in Int /\ -1 # 0 /\ Len(src) >= 4
        /\ ~ParseNalusN(src, -1).panic /\ AtUnit(Scan(src, -1)[Len(src) + 1], src, us, codes, i)
    BY <1>0, <1>2, <1>7, <1>10
  <2>2. CutAt(xs, us, codes, i) /\ (Scan(src, -1)[Len(src) + 1].n = 1 \/ i = Len(us))
    BY ONLY <2>1, EndsAt
  <2>3. r.n # 1
    BY <1>9
  <2> QED  BY <2>2, <2>3
<1> HIDE DEF xs
<1>12. xs[N] = us[N]
  <2> DEFINE u == us[N]
  <2>1. After(us, codes, N) = <<>>
    BY <1>0, AfterLast
  <2>2. u \in Seq(Nat)
    BY <1>0
  <2> HIDE DEF u
  <2>3. u \o <<>> = u
    BY ONLY <2>2, Joined
  <2> QED  BY <1>11, <2>1, <2>3 DEF CutAt, u
<1>13. xs \in Seq(Seq(Nat)) /\ Len(xs) = N /\ \A j \in 1..(N - 1) : xs[j] = us[j]
  BY <1>11 DEF CutAt
<1>14. \A j \in 1..Len(xs) : xs[j] = us[j]
  BY <1>0, <1>12, <1>13
<1>15. xs = us
  BY <1>0, <1>13, <1>14, SeqEqual
<1> QED  BY <1>15 DEF xs, ParseNalus, src

\* The first picture: SendPacket sends a sequence header made of the last parameter set of
\* each kind in it, and drops it without a word if one of the two is missing.
THEOREM FirstPicture ==
  ASSUME NEW p \in Pictures, p.codec = VIDEO_H264, videoFirst, sendVideoPacket(p), panicked' = <<>>,
         wire \in Seq(Msg)
  PROVE  LET found == UpdateSets(NoSets, p.units)
         IN  IF Own(p.units)
             THEN /\ ~videoFirst' /\ sets'.header = found
                  /\ wire'[Len(wire) + 1].data = NewAVCSequenceHeader(found[1], found[2])
             ELSE UNCHANGED <<videoFirst, sets, wire>>
<1> DEFINE avc == p.codec = VIDEO_H264
           data == IF avc THEN Bytes(p.units, p.codes) ELSE p.units[1]
           first == videoFirst /\ avc
           nalus == ParseNalus(data)
           found == UpdateSets(NoSets, nalus.nalus)
           dropped == first /\ <<>> \in {found[1], found[2]}
           pack == PackVideoData(p.codec, 1, data)
           last == IF avc THEN UpdateSets(sets.last, p.units) ELSE sets.last
           header == IF first THEN found ELSE sets.header
           own == avc /\ Own(p.units)
           m1 == Video(NewAVCSequenceHeader(found[1], found[2]), <<>>, <<>>, last, FALSE, header)
           m2 == Video(pack.data, p.units, p.codes, last, own, header)
           x == IF first THEN <<m1>> ELSE <<>>
           y == IF pack.ok THEN <<m2>> ELSE <<>>
<1>1. /\ panicked' = IF (first /\ nalus.panic) \/ (~dropped /\ pack.panic) THEN p.units ELSE <<>>
      /\ IF dropped \/ panicked' # <<>> THEN UNCHANGED <<videoFirst, sets, wire>>
         ELSE /\ videoFirst' = (videoFirst /\ ~first)
              /\ sets' = [last |-> last, header |-> header]
              /\ wire' = wire \o x \o y
  <2> HIDE DEF avc, data, first, nalus, found, dropped, pack, last, header, own, m1, m2
  <2> QED  BY DEF sendVideoPacket, avc, data, first, nalus, found, dropped, pack, last, header, own, m1, m2
<1>2. p.units # <<>> /\ first /\ data = Bytes(p.units, p.codes)
  BY MediaAssumption
<1>3. found = UpdateSets(NoSets, p.units)
  <2>1. ~nalus.panic
    <3> HIDE DEF first, nalus, dropped, pack
    <3> QED  BY <1>1, <1>2
  <2>2. nalus.nalus = p.units
    <3>1. GoodPicture(p.units, p.codes)
      BY PictureGood
    <3> HIDE DEF data
    <3> QED  BY <1>2, <2>1, <3>1, NalusBack
  <2> QED  BY <2>2
<1>4. Own(p.units) <=> ~dropped
  <2> DEFINE f == UpdateSets(NoSets, p.units)
  <2>1. {f[k] : k \in 1..2} = {f[1], f[2]}
    <3> HIDE DEF f
    <3>1. 1..2 = {1, 2}
      OBVIOUS
    <3> QED  BY <3>1
  <2> HIDE DEF found, first
  <2> QED  BY <1>2, <1>3, <2>1 DEF Own
<1>5. m1.data = NewAVCSequenceHeader(found[1], found[2])
  <2> HIDE DEF found, last, header
  <2> QED  BY DEF Video
<1>6. x = <<m1>> /\ header = found /\ (y = <<m2>> \/ y = <<>>)
  <2> HIDE DEF m1, m2, found, pack, first
  <2> QED  BY <1>2
<1> HIDE DEF avc, data, first, nalus, found, dropped, pack, last, header, own, m1, m2, x, y
<1>7. CASE ~dropped
  <2>1. videoFirst' = (videoFirst /\ ~first) /\ sets' = [last |-> last, header |-> header] /\ wire' = wire \o x \o y
    BY <1>1, <1>7
  <2>2. (wire \o x \o y)[Len(wire) + 1] = m1
    BY <1>6
  <2>3. wire'[Len(wire) + 1].data = NewAVCSequenceHeader(found[1], found[2])
    BY <1>5, <2>1, <2>2
  <2> QED  BY <1>2, <1>3, <1>4, <1>6, <1>7, <2>1, <2>3
<1>8. CASE dropped
  BY <1>1, <1>4, <1>8
<1> QED  BY <1>7, <1>8

-----------------------------------------------------------------------------
(* UnitsKept *)

\* Units a to b in one piece, perhaps with their start code; UnitsKept's first part says
\* this of the message and of what the player got.
PiecesOf(us, codes, a, b) ==
  LET piece == us[a] \o FlattenSeq([i \in 1..(b - a) |-> Code(codes[a + i]) \o us[a + i]])
  IN  {piece, Code(codes[a]) \o piece}
Kept(us, codes, got) ==
  \E end \in [0..Len(got) -> 0..Len(us)] :
    /\ end[0] = 0 /\ end[Len(got)] = Len(us)
    /\ \A j \in 1..Len(got) : end[j - 1] < end[j] /\ got[j] \in PiecesOf(us, codes, end[j - 1] + 1, end[j])

\* A unit by itself, and all units from one on, are pieces.
LEMMA PieceAlone ==
  ASSUME NEW us \in Seq(Seq(Nat)), NEW codes, NEW j \in 1..Len(us)
  PROVE  us[j] \in PiecesOf(us, codes, j, j)
<1> DEFINE x(i) == Code(codes[j + i]) \o us[j + i]
           u == us[j]
<1>1. j - j = 0 /\ u \in Seq(Nat)
  OBVIOUS
<1> HIDE DEF x, u
<1>2. [i \in 1..0 |-> x(i)] = <<>> /\ FlattenSeq(<<>>) = <<>>
  BY DEF FlattenSeq
<1>3. u \o <<>> = u
  BY ONLY <1>1, Joined
<1>4. u \o FlattenSeq([i \in 1..(j - j) |-> x(i)]) = u
  BY <1>1, <1>2, <1>3
<1> QED  BY <1>4 DEF PiecesOf, x, u

\* A unit and all after it are a piece.
LEMMA PieceToEnd ==
  ASSUME NEW us, NEW codes, NEW i
  PROVE  LET piece == us[i] \o After(us, codes, i)
         IN  piece \in PiecesOf(us, codes, i, Len(us)) /\ Code(codes[i]) \o piece \in PiecesOf(us, codes, i, Len(us))
  BY DEF PiecesOf, After

\* What is cut after some units keeps them all, and is the units if it was cut after all.
LEMMA CutKept ==
  ASSUME NEW us, NEW codes, Coded(us, codes), NEW i \in 1..Len(us), NEW got, CutAt(got, us, codes, i)
  PROVE  Kept(us, codes, got) /\ (got = us <=> i = Len(us))
<1> DEFINE N == Len(us)
           end == [j \in 0..i |-> IF j = i THEN N ELSE j]
<1>1. /\ us \in Seq(Seq(Nat)) /\ N \in Nat /\ i \in 1..N /\ i \in Nat
      /\ got \in Seq(Seq(Nat)) /\ Len(got) = i /\ (\A j \in 1..(i - 1) : got[j] = us[j])
      /\ got[i] = us[i] \o After(us, codes, i)
  BY DEF Coded, CutAt
<1>2. end \in [0..i -> 0..N] /\ end[0] = 0 /\ end[i] = N
  BY <1>1
<1>3. ASSUME NEW j \in 1..i  PROVE end[j - 1] < end[j] /\ got[j] \in PiecesOf(us, codes, end[j - 1] + 1, end[j])
  <2>1. end[j - 1] = j - 1 /\ (j - 1) + 1 = j
    BY <1>1
  <2>2. CASE j = i
    <3>1. end[j] = N
      BY <1>2, <2>2
    <3>2. j - 1 < N
      BY <1>1
    <3>3. got[i] \in PiecesOf(us, codes, i, N)
      BY <1>1, PieceToEnd
    <3> HIDE DEF end, N
    <3> QED  BY <2>1, <2>2, <3>1, <3>2, <3>3
  <2>3. CASE j # i
    <3>1. j \in 1..(i - 1) /\ j \in 1..N /\ end[j] = j /\ j - 1 < j
      BY <1>1, <2>3
    <3>2. got[j] = us[j] /\ us[j] \in PiecesOf(us, codes, j, j)
      BY <1>1, <3>1, PieceAlone
    <3> HIDE DEF end, N
    <3> QED  BY <2>1, <3>1, <3>2
  <2> QED  BY <2>2, <2>3
<1>4. ASSUME i = N  PROVE got = us
  <2>1. After(us, codes, N) = <<>>
    BY AfterLast
  <2>2. got[N] = us[N]
    <3> DEFINE u == us[N]
    <3>1. u \in Seq(Nat)
      BY <1>1, <1>4
    <3> HIDE DEF u
    <3>2. u \o <<>> = u
      BY ONLY <3>1, Joined
    <3> QED  BY <1>1, <1>4, <2>1, <3>2 DEF u
  <2>3. \A j \in 1..N : got[j] = us[j]
    <3> TAKE j \in 1..N
    <3>1. j = N \/ j \in 1..(i - 1)
      BY <1>1, <1>4
    <3> HIDE DEF N
    <3> QED  BY <1>1, <2>2, <3>1
  <2>4. Len(got) = Len(us) /\ \A j \in 1..Len(got) : got[j] = us[j]
    BY <1>1, <1>4, <2>3
  <2> QED  BY <1>1, <2>4, SeqEqual
<1>5. got = us <=> i = N
  BY <1>1, <1>4
<1> HIDE DEF end
<1>6. \E e \in [0..Len(got) -> 0..N] :
        /\ e[0] = 0 /\ e[Len(got)] = N
        /\ \A j \in 1..Len(got) : e[j - 1] < e[j] /\ got[j] \in PiecesOf(us, codes, e[j - 1] + 1, e[j])
  <2> HIDE DEF N
  <2>1. Len(got) = i
    BY <1>1
  <2> QED  BY ONLY <1>2, <1>3, <2>1
<1> QED  BY ONLY <1>5, <1>6 DEF Kept, N

\* The whole picture with its first start code keeps them too, and is not the units.
LEMMA WholeKept ==
  ASSUME NEW us, NEW codes, Coded(us, codes), us # <<>>
  PROVE  LET got == <<Code(codes[1]) \o (us[1] \o After(us, codes, 1))>>
         IN  Kept(us, codes, got) /\ got # us
<1> DEFINE N == Len(us)
           x == Code(codes[1]) \o (us[1] \o After(us, codes, 1))
           got == <<x>>
           end == [j \in 0..1 |-> IF j = 1 THEN N ELSE 0]
<1>1. N \in Nat /\ N >= 1
  BY DEF Coded
<1>2. x \in PiecesOf(us, codes, 1, N)
  BY PieceToEnd
<1>7. x # us[1]
  <2> DEFINE c == Code(codes[1])
             u == us[1]
             q == After(us, codes, 1)
             y == u \o q
  <2>1. c \in Seq(Nat) /\ u \in Seq(Nat) /\ q \in Seq(Nat)
    BY <1>1, CodedIs, AfterType
  <2>2. Len(c) >= 3
    <3>1. codes[1] \in {3, 4}
      BY <1>1 DEF Coded
    <3>2. c = StartCode3 \/ c = StartCode4
      BY <3>1 DEF Code
    <3> HIDE DEF c
    <3>3. CASE c = StartCode3
      <4>1. Len(c) = 3
        BY <3>3, CodesAre
      <4> QED  BY <4>1
    <3>4. CASE c = StartCode4
      <4>1. Len(c) = 4
        BY <3>4, CodesAre
      <4> QED  BY <4>1
    <3> QED  BY <3>2, <3>3, <3>4
  <2> HIDE DEF c, u, q
  <2>3. y \in Seq(Nat) /\ Len(y) = Len(u) + Len(q)
    BY ONLY <2>1, Joined
  <2> HIDE DEF y
  <2>4. Len(c \o y) = Len(c) + Len(y)
    <3>1. c \in Seq(Nat) /\ y \in Seq(Nat)
      BY ONLY <2>1, <2>3
    <3> QED  BY ONLY <3>1, Joined
  <2>5. Len(c) \in Nat /\ Len(u) \in Nat /\ Len(q) \in Nat
    BY ONLY <2>1
  <2>6. c \o y # u
    BY <2>2, <2>3, <2>4, <2>5
  <2> QED  BY <2>6 DEF c, u, q, y
<1> HIDE DEF x, N
<1>3. Len(got) = 1 /\ got[1] = x
  OBVIOUS
<1>4. end \in [0..1 -> 0..N] /\ end[0] = 0 /\ end[1] = N
  BY <1>1
<1> HIDE DEF end, got
<1>5. \A j \in 1..1 : end[j - 1] < end[j] /\ got[j] \in PiecesOf(us, codes, end[j - 1] + 1, end[j])
  <2> TAKE j \in 1..1
  <2>1. j = 1 /\ 1 - 1 = 0 /\ 0 + 1 = 1 /\ 0 < N
    BY <1>1
  <2> QED  BY <1>2, <1>3, <1>4, <2>1
<1>6. \E e \in [0..Len(got) -> 0..N] :
        /\ e[0] = 0 /\ e[Len(got)] = N
        /\ \A j \in 1..Len(got) : e[j - 1] < e[j] /\ got[j] \in PiecesOf(us, codes, e[j - 1] + 1, e[j])
  BY ONLY <1>3, <1>4, <1>5
<1>8. Kept(us, codes, got)
  BY ONLY <1>6 DEF Kept, N
<1>9. got # us
  BY <1>3, <1>7
<1> QED  BY <1>8, <1>9 DEF got, x

\* A part of a picture is no longer than the picture.
LEMMA AfterFits ==
  ASSUME NEW us, NEW codes, Coded(us, codes), NEW i \in 1..Len(us)
  PROVE  Len(us[i] \o After(us, codes, i)) <= Len(Bytes(us, codes)) /\ Len(us[i]) <= Len(Bytes(us, codes))
<1> DEFINE N == Len(us)
           len(k) == Len(After(us, codes, k))
<1>1. N \in Nat /\ \A k \in 0..N : len(k) \in Nat
  <2>1. ASSUME NEW k \in 0..N  PROVE len(k) \in Nat
    <3>1. After(us, codes, k) \in Seq(Nat)
      BY AfterType
    <3> QED  BY ONLY <3>1
  <2> QED  BY <2>1 DEF Coded
<1>2. ASSUME NEW k \in 1..N
      PROVE  /\ Len(us[k]) \in Nat /\ Len(us[k] \o After(us, codes, k)) = Len(us[k]) + len(k)
             /\ Len(us[k]) + len(k) <= len(k - 1)
  <2> DEFINE u == us[k]
             c == Code(codes[k])
             a == After(us, codes, k)
  <2>1. k \in 0..N /\ k - 1 \in 0..(N - 1) /\ (k - 1) + 1 = k
    BY <1>1
  <2>2. u \in Seq(Nat) /\ c \in Seq(Nat) /\ c \o u \in Seq(Nat)
    BY CodedIs
  <2>3. a \in Seq(Nat)
    BY <2>1, AfterType
  <2>4. After(us, codes, k - 1) = (c \o u) \o a
    <3>1. After(us, codes, k - 1) = (Code(codes[(k - 1) + 1]) \o us[(k - 1) + 1]) \o After(us, codes, (k - 1) + 1)
      BY <2>1, AfterNext
    <3> QED  BY <2>1, <3>1
  <2> DEFINE y == After(us, codes, k - 1)
             cu == c \o u
             ua == u \o a
  <2>5. Len(cu) = Len(c) + Len(u) /\ Len(ua) = Len(u) + Len(a) /\ cu \in Seq(Nat)
    <3> HIDE DEF u, c, a
    <3>1. Len(c \o u) = Len(c) + Len(u) /\ c \o u \in Seq(Nat)
      BY ONLY <2>2, Joined
    <3>2. Len(u \o a) = Len(u) + Len(a)
      BY ONLY <2>2, <2>3, Joined
    <3> QED  BY ONLY <3>1, <3>2
  <2>6. Len(c) \in Nat /\ Len(u) \in Nat /\ Len(a) \in Nat
    <3> HIDE DEF u, c, a
    <3> QED  BY ONLY <2>2, <2>3
  <2>7. Len(y) = Len(cu) + Len(a)
    <3>1. Len(cu \o a) = Len(cu) + Len(a)
      <4> HIDE DEF cu, a
      <4> QED  BY ONLY <2>3, <2>5, Joined
    <3> HIDE DEF cu, a, y
    <3>2. y = cu \o a
      BY <2>4 DEF y, cu
    <3> QED  BY ONLY <3>1, <3>2
  <2>8. Len(u) + Len(a) <= Len(y)
    <3> HIDE DEF u, a, y, c, cu, ua
    <3> QED  BY ONLY <2>5, <2>6, <2>7
  <2> HIDE DEF y, cu, ua
  <2> QED  BY <2>5, <2>6, <2>8 DEF y, ua
<1> HIDE DEF N, len
<1> DEFINE T == {k \in 0..N : len(k) <= len(0)}
<1>3. \A k \in 0..N : k \in T
  <2>1. 0 \in T
    BY <1>1
  <2>2. ASSUME NEW k \in 1..N, k - 1 \in T  PROVE k \in T
    <3> DEFINE n == Len(us[k])
               a == len(k)
               b == len(k - 1)
               c == len(0)
    <3>1. k \in 0..N /\ n \in Nat /\ n + a <= b /\ b <= c
      BY <1>1, <1>2, <2>2
    <3>2. a \in Nat /\ b \in Nat /\ c \in Nat
      <4>1. k \in 0..N /\ k - 1 \in 0..N /\ 0 \in 0..N
        BY <1>1
      <4> QED  BY <1>1, <4>1
    <3> HIDE DEF n, a, b, c
    <3>3. a <= c
      BY ONLY <3>1, <3>2
    <3> QED  BY <3>1, <3>3 DEF a, c
  <2> HIDE DEF T
  <2> QED  BY <1>1, <2>1, <2>2, UpTo
<1>4. i \in 1..N
  BY DEF N
<1> DEFINE n == Len(us[i])
           a == len(i)
           b == len(i - 1)
           c == len(0)
<1>5. n \in Nat /\ n + a <= b /\ Len(us[i] \o After(us, codes, i)) = n + a
  BY <1>2, <1>4
<1>6. b <= c /\ a \in Nat /\ b \in Nat /\ c \in Nat
  <2>1. i - 1 \in 0..N /\ i \in 0..N /\ 0 \in 0..N
    BY <1>1, <1>4
  <2>2. i - 1 \in T
    BY <1>3, <2>1
  <2> QED  BY <1>1, <2>1, <2>2
<1>7. c = Len(Bytes(us, codes))
  BY AfterNone DEF len
<1> HIDE DEF n, a, b, c
<1>8. n + a <= c /\ n <= c
  BY ONLY <1>5, <1>6
<1> QED  BY <1>5, <1>7, <1>8 DEF n

\* A unit is no longer than the message it is in.
LEMMA PieceFits ==
  ASSUME NEW ps \in Seq(Seq(Nat)), NEW k \in 1..Len(ps)
  PROVE  Len(ps[k]) <= Len(Prefixed(ps))
<1> DEFINE M == Len(ps)
           x(i) == IF ps[i] = <<>> THEN <<>> ELSE U32(Len(ps[i])) \o ps[i]
           tt == [i \in 1..M |-> x(i)]
           b == Prefixed(ps)
<1>1. ASSUME NEW i \in 1..M  PROVE x(i) \in Seq(Nat) /\ Len(x(i)) >= Len(ps[i])
  <2> DEFINE p == ps[i]
             h == U32(Len(p))
  <2>1. p \in Seq(Nat) /\ Len(p) \in Nat /\ h \in Seq(Nat) /\ Len(h) = 4
    BY U32Is
  <2> HIDE DEF p, h
  <2>2. CASE p = <<>>
    BY <2>2 DEF p
  <2>3. CASE p # <<>>
    <3>1. h \o p \in Seq(Nat) /\ Len(h \o p) = Len(h) + Len(p)
      <4>1. h \in Seq(Nat) /\ p \in Seq(Nat)
        BY <2>1
      <4> QED  BY ONLY <4>1, Joined
    <3>2. x(i) = h \o p
      BY <2>3 DEF h, p
    <3> HIDE DEF x
    <3> QED  BY <2>1, <3>1, <3>2 DEF p
  <2> QED  BY <2>2, <2>3
<1>2. b = FlattenSeq(tt)
  BY DEF Prefixed
<1> HIDE DEF x, b
<1>3. M \in Nat /\ tt \in [1..M -> Seq(Nat)] /\ \A i \in 1..M : tt[i] = x(i)
  BY <1>1
<1> HIDE DEF tt, M
<1>4. tt \in Seq(Seq(Nat)) /\ Len(tt) = M
  BY <1>3, MadeSeq
<1>5. PICK f : FlatAt(f, tt, Nat)
  BY <1>4, FlattenAt
<1>6. k \in 1..M /\ k \in 0..M /\ k - 1 \in 0..M
  BY <1>3 DEF M
<1>7. PICK t \in Seq(Nat) : b = f[k] \o t
  BY ONLY <1>2, <1>4, <1>5, <1>6 DEF FlatAt
<1> DEFINE a == f[k - 1]
           y == x(k)
           z == f[k]
<1>8. a \in Seq(Nat) /\ z \in Seq(Nat) /\ z = a \o y
  BY ONLY <1>3, <1>4, <1>5, <1>6 DEF FlatAt
<1>9. y \in Seq(Nat) /\ Len(y) >= Len(ps[k])
  BY <1>1, <1>6
<1> HIDE DEF a, y, z
<1>10. Len(a \o y) = Len(a) + Len(y) /\ Len(z \o t) = Len(z) + Len(t)
  <2>1. Len(a \o y) = Len(a) + Len(y)
    BY ONLY <1>8, <1>9, Joined
  <2>2. Len(z \o t) = Len(z) + Len(t)
    BY ONLY <1>8, Joined, t \in Seq(Nat)
  <2> QED  BY <2>1, <2>2
<1>11. Len(a) \in Nat /\ Len(y) \in Nat /\ Len(t) \in Nat /\ Len(ps[k]) \in Nat
  <2>1. ps[k] \in Seq(Nat)
    OBVIOUS
  <2> QED  BY ONLY <1>8, <1>9, <2>1, t \in Seq(Nat)
<1>12. Len(b) = Len(a) + Len(y) + Len(t)
  BY <1>7, <1>8, <1>10 DEF z
<1>13. Len(ps[k]) <= Len(b)
  BY ONLY <1>9, <1>11, <1>12
<1> QED  BY <1>13 DEF b

Tagged(d, codec, body) ==
  LET h == ParseVideoHeader(d) IN h.ok /\ h.codecID = codec /\ ~IsSeqHeader(h) /\ h.body = body

\* What is behind the tag of a picture is found there, and taken for a picture.
LEMMA VideoTagged ==
  ASSUME NEW ft \in {1, 2}, NEW codec \in {1, 2, VIDEO_H264}, NEW body \in Seq(Nat),
         codec = VIDEO_H264 \/ Len(body) >= 4
  PROVE  Tagged(videoTagData(ft, codec, 1) \o body, codec, body)
<1> DEFINE a == videoTagData(ft, codec, 1)
           d == a \o body
           h == ParseVideoHeader(d)
           n == IF codec = VIDEO_H264 THEN 5 ELSE 1
<1>1. /\ a \in Seq(Nat) /\ Len(a) = n /\ a[1] = ft * 16 + codec /\ (codec = VIDEO_H264 => a[2] = 1)
      /\ codec \in 0..15 /\ a[1] \in Nat
  <2> DEFINE x == ft * 16 + codec
  <2>1. x \in Nat /\ codec \in 0..15
    BY DEF VIDEO_H264
  <2> HIDE DEF x
  <2>2. CASE codec = VIDEO_H264
    <3> DEFINE w == <<x>>
               v == <<1, 0, 0, 0>>
    <3>1. a = w \o v
      BY <2>2 DEF videoTagData, x
    <3>2. w \in Seq(Nat) /\ v \in Seq(Nat) /\ Len(w) = 1 /\ Len(v) = 4 /\ w[1] = x /\ v[1] = 1
      BY <2>1
    <3> HIDE DEF a, w, v
    <3>3. IsJoin(a, Nat, w, 1, v, 4)
      BY <3>1, <3>2, JoinedAt
    <3>4. a \in Seq(Nat) /\ Len(a) = 1 + 4 /\ a[1] = w[1] /\ a[1 + 1] = v[1]
      <4>1. 1 \in 1..1 /\ 1 \in 1..4
        OBVIOUS
      <4> QED  BY ONLY <3>3, <4>1 DEF IsJoin
    <3>5. Len(a) = 5 /\ a[2] = 1 /\ a[1] = x
      BY <3>2, <3>4
    <3> QED  BY <2>1, <2>2, <3>4, <3>5 DEF x
  <2>3. CASE codec # VIDEO_H264
    <3>1. a = <<x>> \o <<>>
      BY <2>3 DEF videoTagData, x
    <3>2. <<x>> \o <<>> = <<x>>
      OBVIOUS
    <3> HIDE DEF a
    <3>3. a = <<x>>
      BY <3>1, <3>2
    <3> QED  BY <2>1, <2>3, <3>3 DEF x
  <2> QED  BY <2>2, <2>3
<1> HIDE DEF a
<1>2. IsJoin(d, Nat, a, Len(a), body, Len(body)) /\ Rest(d, Len(a)) = body /\ Len(body) \in Nat
  <2>1. a \in Seq(Nat) /\ body \in Seq(Nat)
    BY <1>1
  <2>2. IsJoin(a \o body, Nat, a, Len(a), body, Len(body))
    BY ONLY <2>1, JoinedAt
  <2>3. Rest(a \o body, Len(a)) = body
    BY ONLY <2>1, Joined
  <2> QED  BY <2>2, <2>3
<1> HIDE DEF d
<1>3. d \in Seq(Nat) /\ Len(d) = n + Len(body) /\ (\A i \in 1..n : d[i] = a[i]) /\ Rest(d, n) = body
  BY ONLY <1>1, <1>2 DEF IsJoin
<1>4. ~(Len(d) < 5)
  BY <1>2, <1>3
<1>5. d[1] = ft * 16 + codec /\ (codec = VIDEO_H264 => d[2] = 1)
  BY <1>1, <1>3
<1>6. d[1] % 16 = codec
  <2> DEFINE e == d[1]
  <2>1. e = ft * 16 + codec
    BY <1>5
  <2> HIDE DEF e
  <2>2. e % 16 = codec
    <3>1. codec \in 0..15
      BY <1>1
    <3>2. e = 16 + codec \/ e = 32 + codec
      BY ONLY <2>1, <3>1, ft \in {1, 2}
    <3>3. \A x \in 0..15 : (16 + x) % 16 = x /\ (32 + x) % 16 = x
      OBVIOUS
    <3> QED  BY ONLY <3>1, <3>2, <3>3
  <2> QED  BY <2>2 DEF e
<1>7. h.ok /\ h.codecID = codec /\ (codec = VIDEO_H264 => h.avcPacketType = 1) /\ h.body = Rest(d, n)
  BY <1>4, <1>5, <1>6 DEF ParseVideoHeader
<1> HIDE DEF h, n
<1>8. ~IsSeqHeader(h)
  BY <1>7 DEF IsSeqHeader
<1>9. Tagged(d, codec, body)
  BY <1>3, <1>7, <1>8 DEF Tagged, h
<1> QED  BY <1>9 DEF d, a

\* What the player makes of the data of a message: got, in which all units are kept.
ShownAs(d, codec, us, codes, got) ==
  LET h == ParseVideoHeader(d)
  IN  h.ok /\ h.codecID = codec /\ ~IsSeqHeader(h) /\ Lengths(h.body) = got /\ Kept(us, codes, got)

\* Pieces with their lengths behind a tag.
LEMMA PiecesShown ==
  ASSUME NEW ft \in {1, 2}, NEW codec \in {1, 2, VIDEO_H264}, NEW ps \in Seq(Seq(Nat)), ps # <<>>,
         \A i \in 1..Len(ps) : ps[i] # <<>> /\ Len(ps[i]) <= MessageMax, NEW us, NEW codes, Kept(us, codes, ps)
  PROVE  ShownAs(videoTagData(ft, codec, 1) \o Prefixed(ps), codec, us, codes, ps)
<1> DEFINE b == Prefixed(ps)
           d == videoTagData(ft, codec, 1) \o b
<1>1. b \in Seq(Nat) /\ Lengths(b) = ps
  BY PrefixedType, LengthsBack
<1>2. Len(b) >= 4
  <2> SUFFICES ASSUME Len(b) < 4  PROVE FALSE
    <3>1. Len(b) \in Nat
      BY <1>1
    <3> QED  BY <3>1
  <2> DEFINE n == Len(b)
  <2>1. n \in Nat /\ n < 4 /\ n \in 0..n
    BY <1>1
  <2>2. LengthsStart = LengthsTurn(b, LengthsStart)
    <3>1. Rest(b, 0) = b
      BY <1>1, Joined DEF Rest
    <3>2. LengthsStart.index = 0
      BY DEF LengthsStart
    <3> HIDE DEF b
    <3> QED  BY <2>1, <3>1, <3>2 DEF LengthsTurn, n
  <2>3. IsLengths(LengthsLoop(b), {LengthsStart}, b)
    <3> DEFINE S == {LengthsStart}
    <3>1. LengthsStart \in S /\ \A s \in S : LengthsTurn(b, s) \in S
      BY <2>2
    <3> HIDE DEF S, b
    <3>2. IsLengths(LengthsLoop(b), S, b)
      BY <1>1, <3>1, LengthsRuns
    <3> QED  BY <3>2 DEF S
  <2> HIDE DEF b
  <2>4. LengthsLoop(b)[n] \in {LengthsStart}
    BY ONLY <2>1, <2>3 DEF IsLengths, n
  <2>5. LengthsLoop(b)[n].got = <<>>
    BY <2>4 DEF LengthsStart
  <2>6. ps = <<>>
    BY <1>1, <2>5 DEF Lengths, n
  <2> QED  BY <2>6
<1> HIDE DEF b
<1>3. Tagged(d, codec, b)
  BY <1>1, <1>2, VideoTagged
<1> HIDE DEF d
<1> QED  BY <1>1, <1>3 DEF Tagged, ShownAs, d, b

\* A picture in one piece.
LEMMA OnePiece ==
  ASSUME NEW us, NEW codes, Coded(us, codes), us # <<>>
  PROVE  CutAt(<<us[1] \o After(us, codes, 1)>>, us, codes, 1)
<1> DEFINE a == us[1]
           b == After(us, codes, 1)
           x == a \o b
<1>1. 1 \in 1..Len(us) /\ 1 \in 0..Len(us)
  BY DEF Coded
<1>2. a \in Seq(Nat) /\ b \in Seq(Nat)
  BY <1>1, CodedIs, AfterType
<1>3. x \in Seq(Nat)
  <2> HIDE DEF a, b
  <2> QED  BY ONLY <1>2, Joined DEF x
<1> HIDE DEF x
<1>4. <<x>> \in Seq(Seq(Nat)) /\ Len(<<x>>) = 1 /\ <<x>>[1] = x
  BY <1>3
<1>5. \A j \in 1..(1 - 1) : <<x>>[j] = us[j]
  OBVIOUS
<1> QED  BY <1>4, <1>5 DEF CutAt, x

\* OneEach, of a picture that SendPacket sends.
EachOf(codec, us, codes) ==
  \/ codec # VIDEO_H264
  \/ codes[1] = 4 /\ (Len(us) = 1 \/ (NaluType(us[1]) \in {7, 8} /\ Len(us) <= 3))

\* What sendVideoPacket sends of a picture, the player takes for the picture's units, in
\* one callback each if EachOf says so.
LEMMA PackShown ==
  ASSUME NEW p \in Pictures, PackOf(p).ok, ~PackOf(p).panic, ~TooShort(p.units)
  PROVE  \E got : /\ ShownAs(PackOf(p).data, p.codec, p.units, p.codes, got)
                  /\ got = p.units <=> EachOf(p.codec, p.units, p.codes)
<1> DEFINE us == p.units
           codes == p.codes
           codec == p.codec
           avc == codec = VIDEO_H264
           data == DataOf(p)
           src == IF avc /\ isNaluHeader(data) THEN Rest(data, 4) ELSE data
           ft == IF codec # VIDEO_H264 \/ NaluType(src) \in {5, 7, 8} THEN 1 ELSE 2
           cut == ParseNalusN(src, 3)
           params == avc /\ NaluType(src) \in {7, 8}
           ps == IF params THEN cut.nalus ELSE <<src>>
           all == us[1] \o After(us, codes, 1)
           N == Len(us)
           B == Bytes(us, codes)
<1>1. /\ us \in Seq(Seq(Nat)) /\ us # <<>> /\ Coded(us, codes) /\ Len(B) <= MessageMax
      /\ (avc => \A u \in Range(us) : /\ u # <<>> /\ u[Len(u)] # 0
                                      /\ \A i \in 1..(Len(u) - 2) : SubSeq(u, i, i + 2) # StartCode3)
      /\ (~avc => N = 1)
  BY MediaAssumption DEF Coded
<1>2. /\ codec \in {1, 2, VIDEO_H264} /\ src # <<>> /\ ~(params /\ cut.panic)
      /\ PackOf(p).data = videoTagData(ft, codec, 1) \o Prefixed(ps)
  <2> HIDE DEF data, src, cut
  <2>1. PackOf(p) = CASE codec \notin {1, 2, VIDEO_H264} \/ src = <<>> -> [ok |-> FALSE, panic |-> FALSE]
                      [] OTHER -> [ok |-> TRUE, panic |-> params /\ cut.panic,
                                   data |-> videoTagData(ft, codec, 1) \o Prefixed(ps)]
    BY DEF PackOf, PackVideoData, data, src, cut
  <2> HIDE DEF params, ft, ps, codec
  <2>2. ~(codec \notin {1, 2, VIDEO_H264} \/ src = <<>>)
    <3> SUFFICES ASSUME codec \notin {1, 2, VIDEO_H264} \/ src = <<>>  PROVE FALSE
      OBVIOUS
    <3>1. PackOf(p) = [ok |-> FALSE, panic |-> FALSE]
      BY <2>1
    <3> QED  BY <3>1
  <2>3. PackOf(p) = [ok |-> TRUE, panic |-> params /\ cut.panic, data |-> videoTagData(ft, codec, 1) \o Prefixed(ps)]
    BY <2>1, <2>2
  <2>4. PackOf(p).panic = (params /\ cut.panic) /\ PackOf(p).data = videoTagData(ft, codec, 1) \o Prefixed(ps)
    BY ONLY <2>3
  <2> QED  BY <2>2, <2>4
<1>3. N \in Nat /\ 1 \in 1..N /\ 1 \in 0..N /\ 0 \in 0..(N - 1)
  BY <1>1
<1>4. all \in Seq(Nat) /\ us[1] \in Seq(Nat) /\ After(us, codes, 1) \in Seq(Nat)
  <2> DEFINE a == us[1]
             b == After(us, codes, 1)
  <2>1. a \in Seq(Nat) /\ b \in Seq(Nat)
    BY <1>1, <1>3, CodedIs, AfterType
  <2> HIDE DEF a, b
  <2>2. a \o b \in Seq(Nat)
    BY ONLY <2>1, Joined
  <2> QED  BY <2>1, <2>2 DEF a, b
<1>5. Len(all) <= Len(B) /\ Len(us[1]) <= Len(B) /\ \A i \in 1..N : Len(us[i]) <= Len(B) /\ Len(us[i] \o After(us, codes, i)) <= Len(B)
  BY <1>1, <1>3, AfterFits
<1>6. B \in Seq(Nat) /\ B = Code(codes[1]) \o all
  <2>1. B = After(us, codes, 0)
    BY <1>1, AfterNone
  <2>2. After(us, codes, 0) = (Code(codes[0 + 1]) \o us[0 + 1]) \o After(us, codes, 0 + 1)
    BY <1>1, <1>3, AfterNext
  <2> DEFINE c == Code(codes[1])
             a == us[1]
             b == After(us, codes, 1)
  <2>3. c \in Seq(Nat) /\ a \in Seq(Nat) /\ b \in Seq(Nat)
    BY <1>1, <1>3, <1>4, CodedIs
  <2>4. B = (c \o a) \o b
    <3>1. 0 + 1 = 1
      OBVIOUS
    <3> HIDE DEF B
    <3> QED  BY ONLY <2>1, <2>2, <3>1
  <2> HIDE DEF a, b, c, B
  <2>5. (c \o a) \o b = c \o (a \o b)
    BY ONLY <2>3, Assoc
  <2>6. a \o b \in Seq(Nat) /\ c \o (a \o b) \in Seq(Nat)
    BY <1>4, <2>3, Joined DEF a, b
  <2> QED  BY <2>4, <2>5, <2>6 DEF a, b, c
<1>7. Len(all) \in Nat /\ Len(B) \in Nat
  <2> HIDE DEF all, B
  <2> QED  BY <1>4, <1>6
<1>8. codes[1] \in {3, 4}
  BY <1>1, <1>3 DEF Coded
<1> HIDE DEF us, codes, B, N, codec
<1> SUFFICES \E got : ShownAs(PackOf(p).data, codec, us, codes, got) /\ (got = us <=> EachOf(codec, us, codes))
  BY DEF us, codes, codec
\* Such pieces are shown.
<1>9. ASSUME ps \in Seq(Seq(Nat)), ps # <<>>, \A i \in 1..Len(ps) : ps[i] # <<>> /\ Len(ps[i]) <= MessageMax,
             Kept(us, codes, ps), ps = us <=> EachOf(codec, us, codes)
      PROVE  \E got : ShownAs(PackOf(p).data, codec, us, codes, got) /\ (got = us <=> EachOf(codec, us, codes))
  <2>1. ft \in {1, 2}
    <3> HIDE DEF src
    <3> QED  OBVIOUS
  <2> HIDE DEF ft, ps
  <2>2. ShownAs(PackOf(p).data, codec, us, codes, ps)
    BY <1>2, <1>9, <2>1, PiecesShown
  <2> QED  BY <1>9, <2>2
<1>10. ASSUME NEW x \in Seq(Nat), x # <<>>, Len(x) <= Len(B), ps = <<x>>, Kept(us, codes, <<x>>),
              <<x>> = us <=> EachOf(codec, us, codes)
       PROVE  \E got : ShownAs(PackOf(p).data, codec, us, codes, got) /\ (got = us <=> EachOf(codec, us, codes))
  <2> HIDE DEF ps
  <2>1. <<x>> \in Seq(Seq(Nat)) /\ <<x>> # <<>> /\ Len(<<x>>) = 1 /\ <<x>>[1] = x
    OBVIOUS
  <2>2. Len(x) <= MessageMax
    <3>1. Len(x) \in Nat
      OBVIOUS
    <3>2. MessageMax \in Nat
      BY DEF MessageMax
    <3> QED  BY <1>1, <1>7, <1>10, <3>1, <3>2
  <2>3. \A i \in 1..Len(ps) : ps[i] # <<>> /\ Len(ps[i]) <= MessageMax
    <3> TAKE i \in 1..Len(ps)
    <3>1. i = 1
      BY <1>10, <2>1
    <3> QED  BY <1>10, <2>1, <2>2, <3>1
  <2> QED  BY <1>9, <1>10, <2>1, <2>3
<1>11. CASE ~avc
  <2>1. src = us[1] /\ ps = <<src>> /\ N = 1
    BY <1>1, <1>11 DEF DataOf, us, codec
  <2>2. all = us[1]
    <3>1. After(us, codes, 1) = <<>>
      BY <1>1, <2>1, AfterLast DEF N
    <3> DEFINE a == us[1]
    <3> HIDE DEF a
    <3>2. a \o <<>> = a
      BY <1>4, Joined DEF a
    <3> QED  BY <3>1, <3>2 DEF a
  <2>3. CutAt(<<all>>, us, codes, 1)
    BY <1>1, OnePiece
  <2> HIDE DEF all, src, ps
  <2>4. Kept(us, codes, <<all>>) /\ (<<all>> = us <=> EachOf(codec, us, codes))
    <3>1. 1 = Len(us)
      BY <2>1 DEF N
    <3>2. Kept(us, codes, <<all>>) /\ <<all>> = us
      BY <1>1, <1>3, <2>3, <3>1, CutKept DEF N
    <3>3. EachOf(codec, us, codes)
      BY <1>11 DEF EachOf
    <3> QED  BY <3>2, <3>3
  <2>5. all \in Seq(Nat) /\ all # <<>> /\ Len(all) <= Len(B) /\ ps = <<all>>
    BY <1>2, <1>4, <1>5, <2>1, <2>2
  <2> QED  BY ONLY <1>10, <2>4, <2>5
<1>12. CASE avc
  <2>1. data = B
    BY <1>12 DEF DataOf, us, codes, codec, B
  <2>2. GoodPicture(us, codes)
    BY <1>12, PictureGood DEF us, codes, codec
  <2>3. Len(us[1]) >= 1 /\ (N > 1 => Len(After(us, codes, 1)) >= 4) /\ Len(us[1]) \in Nat /\ Len(After(us, codes, 1)) \in Nat
    <3>1. FollowedBy(After(us, codes, 1), us, codes, 1)
      BY <1>3, <2>2, FollowedIs DEF N
    <3>2. Len(us[1]) >= 1 /\ (1 < Len(us) => Len(After(us, codes, 1)) >= 4)
      BY <3>1 DEF FollowedBy
    <3>3. Len(us[1]) \in Nat /\ Len(After(us, codes, 1)) \in Nat
      BY ONLY <1>4
    <3> QED  BY <1>3, <3>2, <3>3 DEF N
  <2>4. Len(all) = Len(us[1]) + Len(After(us, codes, 1)) /\ all[1] = us[1][1] /\ all # <<>>
    <3> DEFINE a == us[1]
               b == After(us, codes, 1)
    <3>1. IsJoin(all, Nat, a, Len(a), b, Len(b))
      BY ONLY <1>4, JoinedAt
    <3>2. 1 \in 1..Len(a)
      BY <2>3
    <3> HIDE DEF all, a, b
    <3>3. Len(all) = Len(a) + Len(b) /\ all[1] = a[1]
      BY ONLY <3>1, <3>2 DEF IsJoin
    <3>4. Len(all) # 0
      BY <2>3, <3>3 DEF a, b
    <3> QED  BY <3>3, <3>4 DEF a, b
  <2> HIDE DEF all
  <2>5. CASE codes[1] = 4
    <3>1. isNaluHeader(B) /\ Rest(B, 4) = all
      <4>1. B = StartCode4 \o all
        BY <1>6, <2>5 DEF Code
      <4>2. IsJoin(B, Nat, StartCode4, 4, all, Len(all)) /\ Rest(B, 4) = all
        <5>1. IsJoin(StartCode4 \o all, Nat, StartCode4, Len(StartCode4), all, Len(all))
          BY <1>4, CodesAre, JoinedAt
        <5>2. Rest(StartCode4 \o all, Len(StartCode4)) = all
          BY <1>4, CodesAre, Joined
        <5> QED  BY <4>1, <5>1, <5>2, CodesAre
      <4>3. Len(B) = 4 + Len(all) /\ \A i \in 1..4 : B[i] = StartCode4[i]
        BY ONLY <4>2 DEF IsJoin
      <4>4. Len(B) >= 4 /\ B[1] = 0 /\ B[2] = 0 /\ B[3] = 0 /\ B[4] = 1
        BY <1>7, <4>3, CodesAre
      <4> QED  BY <1>6, <4>2, <4>4, Begins4 DEF isNaluHeader
    <3>2. src = all
      BY <1>12, <2>1, <3>1
    <3>3. NaluType(src) = NaluType(us[1])
      <4> HIDE DEF src
      <4> QED  BY <2>4, <3>2 DEF NaluType
    <3>4. CASE ~params
      <4>1. ps = <<all>> /\ NaluType(us[1]) \notin {7, 8}
        <5> HIDE DEF src, cut
        <5> QED  BY <1>12, <3>2, <3>3, <3>4
      <4>2. CutAt(<<all>>, us, codes, 1)
        BY <1>1, OnePiece DEF all
      <4> HIDE DEF ps
      <4>3. Kept(us, codes, <<all>>) /\ (<<all>> = us <=> EachOf(codec, us, codes))
        <5>1. Kept(us, codes, <<all>>) /\ (<<all>> = us <=> 1 = Len(us))
          BY <1>1, <1>3, <4>2, CutKept DEF N
        <5>2. EachOf(codec, us, codes) <=> Len(us) = 1
          BY <1>12, <2>5, <4>1 DEF EachOf
        <5> QED  BY <5>1, <5>2
      <4>4. all \in Seq(Nat) /\ all # <<>> /\ Len(all) <= Len(B) /\ ps = <<all>>
        BY <1>4, <1>5, <2>4, <4>1
      <4> QED  BY ONLY <1>10, <4>3, <4>4
    <3>5. CASE params
      <4>1. Len(all) >= 4
        <5>1. CASE N > 1
          BY <2>3, <2>4, <5>1
        <5>2. CASE N = 1
          <6>1. NaluType(us[1]) \in {7, 8}
            BY <3>3, <3>5
          <6>2. ~(Len(us[1]) < 4)
            BY <5>2, <6>1 DEF TooShort, us, N
          <6> QED  BY <2>3, <2>4, <6>2
        <5> QED  BY <1>3, <5>1, <5>2
      <4>2. ps = cut.nalus /\ ~cut.panic
        <5> HIDE DEF src, cut, params
        <5> QED  BY <1>2, <3>5
      <4>3. PICK i \in 1..Len(us) : CutAt(ParseNalusN(all, 3).nalus, us, codes, i) /\ i <= 3 /\ (i = 3 \/ i = Len(us))
        <5>1. ~ParseNalusN(all, 3).panic
          BY <3>2, <4>2
        <5> QED  BY <2>2, <4>1, <5>1, CutIs DEF all
      <4>4. CutAt(ps, us, codes, i)
        <5> HIDE DEF ps, src
        <5> QED  BY <3>2, <4>2, <4>3
      <4> HIDE DEF ps
      <4>5. Kept(us, codes, ps) /\ (ps = us <=> EachOf(codec, us, codes))
        <5>1. Kept(us, codes, ps) /\ (ps = us <=> i = Len(us))
          BY <1>1, <4>4, CutKept
        <5>2. i = Len(us) <=> Len(us) <= 3
          <6>1. N \in Nat /\ i \in 1..N /\ i <= 3 /\ (i = 3 \/ i = N)
            BY <1>3, <4>3 DEF N
          <6>2. i = N <=> N <= 3
            BY ONLY <6>1
          <6> QED  BY <6>2 DEF N
        <5>3. EachOf(codec, us, codes) <=> Len(us) <= 3
          <6>1. Len(us) = 1 => Len(us) <= 3
            OBVIOUS
          <6>2. NaluType(us[1]) \in {7, 8}
            BY <3>3, <3>5
          <6> QED  BY <1>12, <2>5, <6>1, <6>2 DEF EachOf
        <5> QED  BY <5>1, <5>2, <5>3
      <4>6. /\ ps \in Seq(Seq(Nat)) /\ Len(ps) = i /\ (\A j \in 1..(i - 1) : ps[j] = us[j])
            /\ ps[i] = us[i] \o After(us, codes, i)
        BY <4>4 DEF CutAt
      <4>7. ASSUME NEW j \in 1..Len(ps)  PROVE ps[j] # <<>> /\ Len(ps[j]) <= MessageMax
        <5>1. j \in 1..N /\ (j = i \/ j \in 1..(i - 1)) /\ i \in 1..N
          BY <1>3, <4>6 DEF N
        <5>2. FollowedBy(After(us, codes, j), us, codes, j)
          BY <2>2, <5>1, FollowedIs DEF N
        <5>3. us[j] \in Seq(Nat) /\ Len(us[j]) >= 1 /\ After(us, codes, j) \in Seq(Nat)
          BY <5>2 DEF FollowedBy
        <5> DEFINE u == us[j]
                   q == After(us, codes, j)
                   x == ps[j]
        <5>4. x = u \/ x = u \o q
          BY <4>6, <5>1
        <5>5. Len(x) <= Len(B)
          BY <1>5, <5>1, <5>4
        <5> HIDE DEF u, q, x
        <5>6. u \in Seq(Nat) /\ Len(u) >= 1 /\ q \in Seq(Nat) /\ Len(u) \in Nat /\ Len(q) \in Nat
          BY <5>3 DEF u, q
        <5>7. u \o q \in Seq(Nat) /\ Len(u \o q) = Len(u) + Len(q)
          BY ONLY <5>6, Joined
        <5>8. x \in Seq(Nat) /\ Len(x) >= 1
          <6>1. Len(u \o q) >= 1
            BY ONLY <5>6, <5>7
          <6> QED  BY ONLY <5>4, <5>6, <5>7, <6>1
        <5>9. Len(x) <= MessageMax
          <6>1. MessageMax \in Nat
            BY DEF MessageMax
          <6>2. Len(x) \in Nat
            BY ONLY <5>8
          <6> QED  BY <1>1, <1>7, <5>5, <6>1, <6>2
        <5> QED  BY <5>8, <5>9 DEF x
      <4>8. ps # <<>>
        BY <4>6
      <4> QED  BY ONLY <1>9, <4>5, <4>6, <4>7, <4>8
    <3> QED  BY <3>4, <3>5
  <2>6. CASE codes[1] = 3
    <3>1. B = StartCode3 \o all
      BY <1>6, <2>6 DEF Code
    <3>2. IsJoin(B, Nat, StartCode3, 3, all, Len(all))
      <4>1. IsJoin(StartCode3 \o all, Nat, StartCode3, Len(StartCode3), all, Len(all))
        BY <1>4, CodesAre, JoinedAt
      <4> QED  BY <3>1, <4>1, CodesAre
    <3>3. \A i \in 1..3 : B[i] = StartCode3[i]
      BY ONLY <3>2 DEF IsJoin
    <3>4. B[1] = 0 /\ B[2] = 0 /\ B[3] = 1
      BY <3>3, CodesAre
    <3>5. ~isNaluHeader(B)
      <4>1. B \in Seq(Nat) /\ B[3] # 0
        BY <1>6, <3>4
      <4> QED  BY ONLY <4>1, Begins4 DEF isNaluHeader
    <3>6. src = B
      BY <2>1, <3>5
    <3>7. NaluType(src) = 0
      <4>1. 0 % 32 = 0
        OBVIOUS
      <4> HIDE DEF src
      <4> QED  BY <3>4, <3>6, <4>1 DEF NaluType
    <3>8. ps = <<B>>
      <4> HIDE DEF src, cut
      <4> QED  BY <3>6, <3>7
    <3>9. Kept(us, codes, <<B>>) /\ (<<B>> = us <=> EachOf(codec, us, codes))
      <4> DEFINE got == <<Code(codes[1]) \o (us[1] \o After(us, codes, 1))>>
      <4>1. Kept(us, codes, got) /\ got # us
        <5>1. Coded(us, codes) /\ us # <<>>
          BY <1>1
        <5> QED  BY ONLY <5>1, WholeKept
      <4>2. <<B>> = got
        BY <1>6 DEF all
      <4>3. ~EachOf(codec, us, codes)
        BY <1>12, <2>6 DEF EachOf
      <4> HIDE DEF got
      <4> QED  BY <4>1, <4>2, <4>3
    <3>10. B # <<>> /\ Len(B) <= Len(B)
      BY <1>2, <1>7, <3>6
    <3> HIDE DEF ps
    <3> QED  BY ONLY <1>6, <1>10, <3>8, <3>9, <3>10
  <2> QED  BY <1>8, <2>5, <2>6
<1> QED  BY ONLY <1>11, <1>12

\* What another publisher sends, the player takes for its units.
LEMMA ForeignShown ==
  ASSUME NEW f \in Foreign, f.units # <<>>
  PROVE  ShownAs(f.data, VIDEO_H264, f.units, [i \in 1..Len(f.units) |-> 4], f.units)
<1> DEFINE us == f.units
           N == Len(us)
           codes == [i \in 1..N |-> 4]
           d == f.data
           h == ParseVideoHeader(d)
           b == Rest(d, 5)
<1>1. /\ d \in Seq(Nat) /\ us \in Seq(Seq(Nat)) /\ Len(d) \in 5..MessageMax /\ <<>> \notin Range(us)
      /\ d[1] % 16 = VIDEO_H264 /\ d[2] = 1 /\ b = Prefixed(us) /\ us # <<>>
  BY MediaAssumption
<1>2. N \in Nat /\ N \in 1..N /\ 1 \in 1..N
  BY <1>1
<1>3. codes \in Seq({3, 4}) /\ Len(codes) = N
  BY <1>2
<1>4. Coded(us, codes)
  <2> HIDE DEF codes
  <2> QED  BY <1>1, <1>3 DEF Coded
<1>5. Kept(us, codes, us)
  <2>1. CutAt(us, us, codes, N)
    <3>1. us[N] \o After(us, codes, N) = us[N]
      <4> DEFINE u == us[N]
      <4>1. After(us, codes, N) = <<>>
        <5> HIDE DEF codes
        <5> QED  BY <1>4, AfterLast
      <4>2. u \in Seq(Nat)
        BY <1>1, <1>2
      <4> HIDE DEF u
      <4>3. u \o <<>> = u
        BY ONLY <4>2, Joined
      <4> QED  BY <4>1, <4>3 DEF u
    <3> HIDE DEF codes
    <3> QED  BY <1>1, <3>1 DEF CutAt
  <2> HIDE DEF codes
  <2> QED  BY <1>2, <1>4, <2>1, CutKept
<1>6. Lengths(b) = us
  <2>1. Len(b) \in Nat /\ Len(b) <= MessageMax
    <3>0. 5 \in Nat /\ MessageMax \in Nat
      BY DEF MessageMax
    <3>1. d \in Seq(Nat) /\ 5 <= Len(d) /\ Len(d) <= MessageMax /\ Len(d) \in Nat
      <4> HIDE DEF d
      <4> QED  BY <1>1, <3>0
    <3>2. Rest(d, 5) \in Seq(Nat) /\ Len(Rest(d, 5)) = Len(d) - 5
      <4> HIDE DEF d
      <4> QED  BY ONLY <3>0, <3>1, RestIs
    <3>3. b \in Seq(Nat) /\ Len(b) = Len(d) - 5
      BY <3>2
    <3> HIDE DEF b, d
    <3> QED  BY ONLY <3>0, <3>1, <3>3
  <2>2. ASSUME NEW i \in 1..Len(us)  PROVE us[i] # <<>> /\ Len(us[i]) <= MessageMax
    <3>1. us[i] \in Range(us) /\ us[i] \in Seq(Nat)
      <4>1. us \in Seq(Seq(Nat))
        BY <1>1
      <4> HIDE DEF us, d, b
      <4> QED  BY ONLY <4>1, i \in 1..Len(us) DEF Range
    <3>2. Len(us[i]) <= Len(Prefixed(us))
      BY <1>1, PieceFits
    <3>3. Len(us[i]) \in Nat /\ MessageMax \in Nat
      BY <3>1 DEF MessageMax
    <3>4. Len(us[i]) <= MessageMax
      <4> DEFINE x == Len(us[i])
                 y == Len(b)
      <4>1. x <= y /\ y <= MessageMax /\ x \in Nat /\ y \in Nat /\ MessageMax \in Nat
        BY <1>1, <2>1, <3>2, <3>3
      <4> HIDE DEF x, y
      <4>2. x <= MessageMax
        BY ONLY <4>1
      <4> QED  BY <4>2 DEF x
    <3> QED  BY <1>1, <3>1, <3>4
  <2>3. Lengths(Prefixed(us)) = us
    BY <1>1, <2>2, LengthsBack
  <2> QED  BY <1>1, <2>3
<1>7. h.ok /\ h.avcPacketType = 1 /\ h.codecID = VIDEO_H264 /\ h.body = b
  <2>1. ~(Len(d) < 5)
    <3>1. MessageMax \in Nat
      BY DEF MessageMax
    <3> QED  BY <1>1, <3>1
  <2> HIDE DEF d
  <2> QED  BY <1>1, <2>1 DEF ParseVideoHeader, b
<1>8. ~IsSeqHeader(h)
  <2> HIDE DEF h
  <2> QED  BY <1>7 DEF IsSeqHeader
<1> HIDE DEF b, codes
<1>9. ShownAs(d, VIDEO_H264, us, codes, us)
  BY <1>5, <1>6, <1>7, <1>8 DEF ShownAs
<1> QED  BY <1>9 DEF codes

\* A message of which the player would be given all units, one to a callback as OneEach
\* says.
Faithful(m, by) ==
  m.type = "video" /\ m.units # <<>> /\ ~TooShort(m.units) =>
    \E codec, got : /\ ShownAs(m.data, codec, m.units, m.codes, got)
                    /\ got = m.units <=> by = "peer" \/ EachOf(codec, m.units, m.codes)
WireKept == \A i \in 1..Len(wire) : Faithful(wire[i], pub)

\* Only such messages are sent, and the wire keeps them.
LEMMA WireNext == Inv /\ WireKept /\ [Next]_vars => WireKept'
<1> SUFFICES ASSUME Inv, WireKept, [Next]_vars  PROVE WireKept'
  OBVIOUS
<1>0. wire \in Seq(Msg) /\ Types
  BY DEF Inv, Types
<1>6. pub' = pub
  BY DEF Next, SendPacket, PeerSends, Join, Relay, Segment, vars
<1>1. ASSUME NEW M, M \subseteq Msg, Longer(wire, wire', M), \A m \in M : Faithful(m, pub)
      PROVE  WireKept'
  <2>1. /\ wire' \in Seq(Msg) /\ \A i \in 1..Len(wire) : wire'[i] = wire[i]
        /\ \A i \in 1..Len(wire') : i > Len(wire) => wire'[i] \in M
    <3> DEFINE v == wire'
    <3>1. Longer(wire, v, M)
      BY <1>1
    <3> HIDE DEF v
    <3>2. /\ v \in Seq(Msg) /\ \A i \in 1..Len(wire) : v[i] = wire[i]
          /\ \A i \in 1..Len(v) : i > Len(wire) => v[i] \in M
      BY <1>0, <1>1, <3>1, LongerHas
    <3> QED  BY <3>2 DEF v
  <2>2. ASSUME NEW i \in 1..Len(wire')  PROVE Faithful(wire'[i], pub)
    <3>1. CASE i > Len(wire)
      BY <1>1, <2>1, <3>1
    <3>2. CASE ~(i > Len(wire))
      <4>1. i \in 1..Len(wire)
        <5>1. Len(wire) \in Nat /\ i \in Nat /\ i >= 1
          BY <1>0, <2>1
        <5> QED  BY <3>2, <5>1
      <4> QED  BY <2>1, <4>1 DEF WireKept
    <3> QED  BY <3>1, <3>2
  <2> QED  BY <1>6, <2>2 DEF WireKept
<1>2. CASE SendPacket
  <2>1. CASE \E p \in Pictures : sendVideoPacket(p)
    <3>1. PICK p \in Pictures : sendVideoPacket(p)
      BY <2>1
    <3>2. Longer(wire, wire', SentBy(p)) /\ SentBy(p) \subseteq Msg
      BY <1>0, <3>1, SendsPicture DEF SentBy, Msg
    <3>3. ASSUME NEW m \in SentBy(p)  PROVE Faithful(m, pub)
      <4>1. CASE m.units = <<>>
        BY <4>1 DEF Faithful
      <4>2. CASE FromPicture(m, p)
        <5>1. m.data = PackOf(p).data /\ m.units = p.units /\ m.codes = p.codes /\ PackOf(p).ok /\ ~PackOf(p).panic
          BY <4>2 DEF FromPicture
        <5>2. ASSUME ~TooShort(m.units)
              PROVE  \E got : /\ ShownAs(m.data, p.codec, m.units, m.codes, got)
                              /\ got = m.units <=> EachOf(p.codec, m.units, m.codes)
          BY <5>1, <5>2, PackShown
        <5>3. pub # "peer"
          BY <1>2 DEF SendPacket
        <5> QED  BY <5>2, <5>3 DEF Faithful
      <4> QED  BY <4>1, <4>2 DEF SentBy
    <3> QED  BY <1>1, <3>2, <3>3
  <2>2. CASE \E p \in Sounds : sendAudioPacket(p)
    <3>1. Longer(wire, wire', AudioMsg) /\ AudioMsg \subseteq Msg
      <4>1. UNCHANGED seg
        BY <1>2 DEF SendPacket
      <4> QED  BY <2>2, <4>1, AudioKeepsOrder DEF Msg
    <3>2. \A m \in AudioMsg : Faithful(m, pub)
      BY DEF Faithful, AudioMsg
    <3> QED  BY <1>1, <3>1, <3>2
  <2> QED  BY <1>2, <2>1, <2>2 DEF SendPacket
<1>3. CASE PeerSends
  <2>1. PICK f \in Foreign :
          LET last == IF f.sets = NoSets THEN sets.last ELSE f.sets
          IN  wire' = Append(wire, Video(f.data, f.units, [i \in 1..Len(f.units) |-> 4], last, FALSE, last))
    BY <1>3 DEF PeerSends
  <2> DEFINE last == IF f.sets = NoSets THEN sets.last ELSE f.sets
             codes == [i \in 1..Len(f.units) |-> 4]
             m == Video(f.data, f.units, codes, last, FALSE, last)
  <2>2. wire' = Append(wire, m)
    BY <2>1
  <2>3. m \in VideoMsg
    <3>1. f.data \in Seq(Nat) /\ f.units \in Seq(Seq(Nat)) /\ f.sets \in Pair
      BY MediaAssumption DEF Pair
    <3>2. codes \in Seq({3, 4})
      BY <3>1
    <3>3. last \in Pair /\ count.sent \in Nat
      BY <1>0, <3>1 DEF Types
    <3> HIDE DEF last, codes
    <3> QED  BY <3>1, <3>2, <3>3, VideoType
  <2>4. m.units = f.units /\ m.codes = codes /\ m.data = f.data
    BY DEF Video
  <2> HIDE DEF m
  <2>5. Faithful(m, pub)
    <3>1. f.units # <<>> => ShownAs(f.data, VIDEO_H264, f.units, codes, f.units)
      BY ForeignShown
    <3>2. pub = "peer"
      BY <1>3 DEF PeerSends
    <3> HIDE DEF codes
    <3> QED  BY <2>4, <3>1, <3>2 DEF Faithful
  <2>6. Longer(wire, wire', {m}) /\ {m} \subseteq Msg
    BY <2>2, <2>3 DEF Longer, Msg
  <2> QED  BY <1>1, <2>5, <2>6
<1>4. CASE Relay
  <2>1. wire' = Tail(wire) /\ wire # <<>>
    BY <1>4 DEF Relay
  <2>2. ASSUME NEW i \in 1..Len(wire')  PROVE Faithful(wire'[i], pub)
    <3>1. wire'[i] = wire[i + 1] /\ i + 1 \in 1..Len(wire)
      BY <1>0, <2>1
    <3> QED  BY <3>1 DEF WireKept
  <2> QED  BY <1>6, <2>2 DEF WireKept
<1>5. CASE Join \/ Segment(SOUND_AAC, TRUE) \/ UNCHANGED vars
  <2>1. UNCHANGED wire
    BY <1>5 DEF Join, Segment, vars
  <2> QED  BY <1>6, <2>1 DEF WireKept
<1> QED  BY <1>2, <1>3, <1>4, <1>5 DEF Next

\* UnitsKept, said of the last message and of what the player got of it.
UnitsGiven ==
  out.m # None /\ out.m.type = "video" /\ Wanted(out.m) /\ out.m.units # <<>> /\ ~TooShort(out.m.units) =>
    /\ Kept(out.m.units, out.m.codes, out.got)
    /\ pub = "peer" \/ EachOf(ParseVideoHeader(out.m.data).codecID, out.m.units, out.m.codes)
         <=> out.got = out.m.units

\* UnitsKept is UnitsGiven.
LEMMA UnitsForm == UnitsKept <=> UnitsGiven
  BY DEF UnitsKept, UnitsGiven, OneEach, EachOf, Kept, PiecesOf, Pieces, Shown, Units

\* The step that relays a message gives the player what the wire kept of it.
LEMMA UnitsNext == Inv /\ WireKept /\ UnitsGiven /\ [Next]_vars => UnitsGiven'
<1> SUFFICES ASSUME Inv, WireKept, UnitsGiven, [Next]_vars  PROVE UnitsGiven'
  OBVIOUS
<1>1. CASE UNCHANGED <<out, player, pub>>
  <2>1. Wanted(out.m)' <=> Wanted(out.m)
    BY <1>1 DEF Wanted
  <2> QED  BY <1>1, <2>1 DEF UnitsGiven
<1>2. CASE SendPacket \/ PeerSends \/ UNCHANGED vars
  BY <1>1, <1>2 DEF SendPacket, PeerSends, vars
<1>3. CASE Join
  BY <1>3 DEF Join, UnitsGiven
<1>4. CASE Segment(SOUND_AAC, TRUE)
  BY <1>4 DEF Segment, UnitsGiven
<1>5. CASE Relay
  <2> DEFINE m == Head(wire)
             r == Parse(m)
  <2>1. Became(m, r) /\ wire # <<>>
    BY <1>5, RelayedIs DEF Relay
  <2>2. ~Wanted(m) => player' = player
    <3> HIDE DEF r
    <3> QED  BY <1>5 DEF Relay, r
  <2>3. Faithful(m, pub)
    <3>1. wire \in Seq(Msg) /\ 1 \in 1..Len(wire) /\ m = wire[1]
      BY <2>1 DEF Inv, Types
    <3> HIDE DEF m
    <3> QED  BY <3>1 DEF WireKept
  <2> HIDE DEF m, r
  <2>4. out'.m = m /\ (Wanted(m) => out'.got = handleVideoAudio(m))
    BY <2>1 DEF Became
  <2>5. Wanted(out.m)' => Wanted(m)
    <3>1. CASE Wanted(m)
      BY <3>1
    <3>2. CASE ~Wanted(m)
      <4>1. player' = player /\ out'.m = m
        BY <2>2, <2>4, <3>2
      <4>2. Wanted(out.m)' <=> Wanted(m)
        BY <4>1 DEF Wanted
      <4> QED  BY <3>2, <4>2
    <3> QED  BY <3>1, <3>2
  <2>6. ASSUME Wanted(out.m)', m.type = "video", m.units # <<>>, ~TooShort(m.units)
        PROVE  /\ Kept(m.units, m.codes, out'.got)
               /\ pub = "peer" \/ EachOf(ParseVideoHeader(m.data).codecID, m.units, m.codes) <=> out'.got = m.units
    <3> DEFINE h == ParseVideoHeader(m.data)
    <3>0. PICK codec, got : /\ ShownAs(m.data, codec, m.units, m.codes, got)
                            /\ got = m.units <=> pub = "peer" \/ EachOf(codec, m.units, m.codes)
      BY <2>3, <2>6 DEF Faithful
    <3>1. h.ok /\ h.codecID = codec /\ ~IsSeqHeader(h) /\ Lengths(h.body) = got /\ Kept(m.units, m.codes, got)
      BY <3>0 DEF ShownAs
    <3>2. handleVideoAudio(m) = Lengths(h.body)
      <4> HIDE DEF h
      <4> QED  BY <2>6, <3>1 DEF handleVideoAudio, h
    <3>3. out'.got = Lengths(h.body)
      BY <2>4, <2>5, <2>6, <3>2
    <3> QED  BY <3>0, <3>1, <3>3
  <2>7. pub' = pub
    BY <1>5 DEF Relay
  <2> QED  BY <2>4, <2>6, <2>7 DEF UnitsGiven
<1> QED  BY <1>2, <1>3, <1>4, <1>5 DEF Next

\* No NAL unit of a picture is lost, doubled, cut or put out of order between SendPacket
\* (PackVideoData) or another publisher and the callbacks of handleVideoAudio, for any
\* pictures of NAL units.
THEOREM UnitsHold == Spec => []UnitsKept
<1>1. Init => WireKept /\ UnitsGiven
  BY DEF Init, WireKept, UnitsGiven
<1>2. Inv /\ WireKept /\ UnitsGiven /\ [Next]_vars => WireKept' /\ UnitsGiven'
  BY WireNext, UnitsNext
<1> QED  BY <1>1, <1>2, Ordered, UnitsForm, PTL DEF Spec
=============================================================================
