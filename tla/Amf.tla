-------------------------------- MODULE Amf --------------------------------
(***************************************************************************)
(* The AMF codec (src/protocol/amf): AMF0 and AMF3 encoder and decoder,    *)
(* the batch loop the connections call, and MetaDataReform.  One decoder   *)
(* lives as long as its connection and keeps its AMF3 reference tables     *)
(* from message to message; the encoder has no state and never emits a     *)
(* reference.  refCache is left out: it is appended to and never read.     *)
(*                                                                         *)
(* A text is <<name, length>>.  The wire is a sequence of fields: a byte   *)
(* <<"b", n>>, a big-endian length <<"u16", n>> or <<"u32", n>>, a float   *)
(* <<"f64", n>>, the i-th byte of a text <<"ch", text, i>>.                *)
(***************************************************************************)
EXTENDS Integers, Sequences, SequencesExt

CONSTANTS
  Messages,    \* sequences of values that are encoded and sent
  Amf3Only,    \* more of them: EncodeAmf0 refuses a date and a typed object
  Foreign,     \* <<wire, values>>: messages of a peer that uses references
  Keys,        \* the texts used as property names
  StringMax,   \* AMF0_STRING_MAX
  Word,        \* one more than the largest 16-bit length
  MaxMessages  \* messages one decoder is given

VARIABLES
  sent,    \* the values of the last message
  ver,     \* its version, "amf0" or "amf3", or "foreign"
  wire,    \* its bytes
  dec,     \* the decoder's tables
  got,     \* what DecodeBatch returned, of a whole or a cut message
  count    \* messages sent

vars == <<sent, ver, wire, dec, got, count>>

Nil == <<"nil">>
Empty == <<"", 0>>
B(n) == <<"b", n>>
Chars(s) == [i \in 1 .. s[2] |-> <<"ch", s, i>>]

\* The text that some bytes spell, or one that nobody sent.
Text(bs) ==
  CASE bs = <<>> -> Empty
    [] bs # <<>> /\ bs[1][1] = "ch" /\ bs = Chars(bs[1][2]) -> bs[1][2]
    [] OTHER -> <<"?", Len(bs)>>

IsField(w, kind) == w # <<>> /\ w[1][1] = kind
Drop(w, n) == SubSeq(w, n + 1, Len(w))

\* What a decoding step returns.  st is "ok", "eof" (a bare io.EOF), "err" or
\* "panic" (an index out of range).
Ok(v, w, d) == [st |-> "ok", v |-> v, w |-> w, d |-> d]
Fail(st, w, d) == [st |-> st, v |-> Nil, w |-> w, d |-> d]

NewDecoder == [strs |-> <<>>, objs |-> <<>>, traits |-> <<>>]

\* ReadBytes for one byte.
ReadByte(w, d) ==
  IF w = <<>> THEN Fail("eof", w, d)
  ELSE IF w[1][1] = "b" THEN Ok(w[1][2], Tail(w), d)
  ELSE Ok(255, Tail(w), d)

\* Every error but a panic is wrapped by the caller.
Wrap(r) == IF r.st = "eof" THEN [r EXCEPT !.st = "err"] ELSE r

\* if err != nil { return }, and on with what was read.
Then(r, F(_)) == IF r.st = "ok" THEN F(r) ELSE r

-----------------------------------------------------------------------------
(* AMF0 encoder. *)

EncodeAmf0String(s) == <<<<"u16", s[2] % Word>>>> \o Chars(s)
EncodeAmf0LongString(s) == <<<<"u32", s[2]>>>> \o Chars(s)

\* ord is the order in which Go visits the keys of a map.
RECURSIVE EncodeAmf0(_, _)
EncodeAmf0Object(obj, ord) ==
  FlattenSeq([i \in 1 .. Len(ord) |->
      IF ord[i] \in DOMAIN obj
      THEN EncodeAmf0String(ord[i]) \o EncodeAmf0(obj[ord[i]], ord)
      ELSE <<>>])
    \o EncodeAmf0String(Empty) \o <<B(9)>>

EncodeAmf0StrictArray(vs, ord) ==
  <<<<"u32", Len(vs)>>>> \o FlattenSeq([i \in 1 .. Len(vs) |-> EncodeAmf0(vs[i], ord)])

EncodeAmf0(v, ord) ==
  CASE v[1] = "nil" -> <<B(5)>>
    [] v[1] \in {"num", "int"} -> <<B(0), <<"f64", v[2]>>>>
    [] v[1] = "bool" -> <<B(1), B(IF v[2] THEN 1 ELSE 0)>>
    [] v[1] = "str" -> IF v[2][2] <= StringMax
                       THEN <<B(2)>> \o EncodeAmf0String(v[2])
                       ELSE <<B(12)>> \o EncodeAmf0LongString(v[2])
    [] v[1] = "arr" -> <<B(10)>> \o EncodeAmf0StrictArray(v[2], ord)
    [] v[1] = "obj" -> <<B(3)>> \o EncodeAmf0Object(v[2], ord)

(* AMF3 encoder. *)

\* Mutant: the fourth byte carries seven bits like the others.
Uint29SevenBits(n) ==
  CASE n <= 127 -> <<B(n)>>
    [] n > 127 /\ n <= 16383 -> <<B((n \div 128) + 128), B(n % 128)>>
    [] n > 16383 /\ n <= 2097151 ->
         <<B((n \div 16384) + 128), B(((n \div 128) % 128) + 128), B(n % 128)>>
    [] n > 2097151 ->
         <<B((n \div 2097152) + 128), B(((n \div 16384) % 128) + 128),
           B(((n \div 128) % 128) + 128), B(n % 128)>>

encodeAmf3Uint29(n) ==
  CASE n <= 127 -> <<B(n)>>
    [] n > 127 /\ n <= 16383 -> <<B((n \div 128) + 128), B(n % 128)>>
    [] n > 16383 /\ n <= 2097151 ->
         <<B((n \div 16384) + 128), B(((n \div 128) % 128) + 128), B(n % 128)>>
    [] n > 2097151 ->
         <<B((n \div 4194304) + 128), B(((n \div 32768) % 128) + 128),
           B(((n \div 256) % 128) + 128), B(n % 256)>>

encodeAmf3Utf8(s) == encodeAmf3Uint29(2 * s[2] + 1) \o Chars(s)

AMF3_INTEGER_MAX == 2^29 - 1
EncodeAmf3Double(n) == <<B(5), <<"f64", n>>>>
EncodeAmf3Integer(n) == <<B(4)>> \o encodeAmf3Uint29(n)
EncodeAmf3String(s) == <<B(6)>> \o encodeAmf3Utf8(s)
EncodeAmf3Date(t) == <<B(8), B(1), <<"f64", t * 1000>>>>

\* ord is the sorted order of the keys here.
RECURSIVE EncodeAmf3(_, _)
EncodeAmf3Object(type, obj, ord) ==
  LET props == SelectSeq(ord, LAMBDA k : k \in DOMAIN obj)
  IN  encodeAmf3Uint29(3 + 16 * Len(props)) \o encodeAmf3Utf8(type)
        \o FlattenSeq([i \in 1 .. Len(props) |-> encodeAmf3Utf8(props[i])])
        \o FlattenSeq([i \in 1 .. Len(props) |-> EncodeAmf3(obj[props[i]], ord)])

EncodeAmf3Array(vs, ord) ==
  encodeAmf3Uint29(2 * Len(vs) + 1) \o encodeAmf3Utf8(Empty)
    \o FlattenSeq([i \in 1 .. Len(vs) |-> EncodeAmf3(vs[i], ord)])

\* A slice of bytes is an array like any other slice: EncodeAmf3ByteArray is not called.
EncodeAmf3(v, ord) ==
  CASE v[1] = "nil" -> <<B(1)>>
    [] v[1] = "bool" -> <<B(IF v[2] THEN 3 ELSE 2)>>
    [] v[1] = "int" -> IF v[2] >= 0 /\ v[2] <= AMF3_INTEGER_MAX
                       THEN EncodeAmf3Integer(v[2]) ELSE EncodeAmf3Double(v[2])
    [] v[1] = "num" -> EncodeAmf3Double(v[2])
    [] v[1] = "str" -> EncodeAmf3String(v[2])
    [] v[1] = "date" -> EncodeAmf3Date(v[2])
    [] v[1] = "arr" -> <<B(9)>> \o EncodeAmf3Array(v[2], ord)
    [] v[1] = "obj" -> <<B(10)>> \o EncodeAmf3Object(Empty, v[2], ord)
    [] v[1] = "typed" -> <<B(10)>> \o EncodeAmf3Object(v[2], v[3], ord)

EncodeBatch(vs, version, ord) ==
  FlattenSeq([i \in 1 .. Len(vs) |->
    IF version = "amf0" THEN EncodeAmf0(vs[i], ord) ELSE EncodeAmf3(vs[i], ord)])

-----------------------------------------------------------------------------
(* AMF0 decoder.  The marker has been read when one of these is called. *)

DecodeAmf0Number(w, d) ==
  IF IsField(w, "f64") THEN Ok(<<"num", w[1][2]>>, Tail(w), d) ELSE Fail("err", w, d)

\* The end of the input comes back as a bare io.EOF.
DecodeAmf0Boolean(w, d) ==
  Then(ReadByte(w, d), LAMBDA r :
    IF r.v \in {0, 1} THEN Ok(<<"bool", r.v = 1>>, r.w, d) ELSE Fail("err", r.w, d))

\* Mutant: whatever is there is taken for the text.
StringUnchecked(w, d) ==
  IF ~IsField(w, "u16") THEN Fail("err", w, d)
  ELSE LET n == IF Len(w) <= w[1][2] THEN Len(w) - 1 ELSE w[1][2]
       IN  Ok(Text(SubSeq(w, 2, n + 1)), Drop(w, n + 1), d)

DecodeAmf0String(w, d) ==
  IF ~IsField(w, "u16") THEN Fail("err", w, d)
  ELSE LET n == w[1][2]
           r == Tail(w)
       IN  CASE n = 0 -> Ok(Empty, r, d)
             [] n > 0 /\ Len(r) < n -> Fail("err", <<>>, d)
             [] OTHER -> Ok(Text(SubSeq(r, 1, n)), Drop(r, n), d)

\* An empty text at the end of the input is an error: bytes.Reader answers EOF.
DecodeAmf0LongString(w, d) ==
  IF ~IsField(w, "u32") THEN Fail("err", w, d)
  ELSE LET n == w[1][2]
           r == Tail(w)
       IN  IF r = <<>> \/ Len(r) < n THEN Fail("err", <<>>, d)
           ELSE Ok(<<"str", Text(SubSeq(r, 1, n))>>, Drop(r, n), d)

AsString(r) == Then(r, LAMBDA q : [q EXCEPT !.v = <<"str", q.v>>])

RECURSIVE DecodeAmf0(_, _), DecodeAmf0Object(_, _, _), Elements0(_, _, _, _), DecodeAmf3(_, _)

\* A value inside another one: every error is wrapped.
Inner0(w, d) == Wrap(DecodeAmf0(w, d))
Inner3(w, d) == Wrap(DecodeAmf3(w, d))

\* Properties until an empty key and the end marker; obj is what was read so far.
DecodeAmf0Object(w, d, obj) ==
  Then(DecodeAmf0String(w, d), LAMBDA k :
    IF k.v # Empty
    THEN Then(Inner0(k.w, k.d), LAMBDA v : DecodeAmf0Object(v.w, v.d, (k.v :> v.v) @@ obj))
    ELSE IF k.w # <<>> /\ k.w[1] = B(9) THEN Ok(<<"obj", obj>>, Tail(k.w), d)
    ELSE Fail("err", k.w, d))

Elements0(w, d, n, acc) ==
  IF n = 0 THEN Ok(<<"arr", acc>>, w, d)
  ELSE Then(Inner0(w, d), LAMBDA v : Elements0(v.w, v.d, n - 1, Append(acc, v.v)))

DecodeAmf0StrictArray(w, d) ==
  IF IsField(w, "u32") THEN Elements0(Tail(w), d, w[1][2], <<>>) ELSE Fail("err", w, d)

\* The length is read and not used, nor is an error in reading it.
DecodeAmf0EcmaArray(w, d) ==
  DecodeAmf0Object(IF IsField(w, "u32") THEN Tail(w) ELSE <<>>, d, <<>>)

\* The two bytes of the time zone are one field.
DecodeAmf0Date(w, d) ==
  Then(DecodeAmf0Number(w, d), LAMBDA n :
    IF n.w = <<>> THEN Fail("err", <<>>, d) ELSE [n EXCEPT !.w = Tail(@)])

DecodeAmf0TypedObject(w, d) ==
  Then(DecodeAmf0String(w, d), LAMBDA t :
    Then(DecodeAmf0Object(t.w, t.d, <<>>), LAMBDA o : [o EXCEPT !.v = <<"typed", t.v, o.v[2]>>]))

\* The amf0 router.
DecodeAmf0(w, d) ==
  Then(ReadByte(w, d), LAMBDA m :
      CASE m.v = 0 -> DecodeAmf0Number(m.w, d)
        [] m.v = 1 -> DecodeAmf0Boolean(m.w, d)
        [] m.v = 2 -> AsString(DecodeAmf0String(m.w, d))
        [] m.v = 3 -> DecodeAmf0Object(m.w, d, <<>>)
        [] m.v \in {5, 6, 13} -> Ok(Nil, m.w, d)
        [] m.v = 8 -> DecodeAmf0EcmaArray(m.w, d)
        [] m.v = 10 -> DecodeAmf0StrictArray(m.w, d)
        [] m.v = 11 -> DecodeAmf0Date(m.w, d)
        [] m.v \in {12, 15} -> DecodeAmf0LongString(m.w, d)
        [] m.v = 16 -> DecodeAmf0TypedObject(m.w, d)
        [] m.v = 17 -> DecodeAmf3(m.w, d)
        [] OTHER -> Fail("err", m.w, d))

-----------------------------------------------------------------------------
(* AMF3 decoder. *)

\* The last of four bytes gives eight bits, the others seven.
RECURSIVE U29(_, _, _, _)
U29(w, d, i, acc) ==
  Then(ReadByte(w, d), LAMBDA b :
    CASE i = 4 -> Ok(acc * 256 + b.v, b.w, d)
      [] i < 4 /\ b.v < 128 -> Ok(acc * 128 + b.v, b.w, d)
      [] OTHER -> U29(b.w, d, i + 1, acc * 128 + b.v - 128))
decodeU29(w, d) == U29(w, d, 1, 0)

\* isRef and refVal; its error is always a wrapped one.
decodeReferenceInt(w, d) ==
  Then(Wrap(decodeU29(w, d)), LAMBDA u :
    Ok([isRef |-> u.v % 2 = 0, refVal |-> u.v \div 2], u.w, d))

DecodeAmf3Integer(w, d) ==
  Then(decodeU29(w, d), LAMBDA u :
    Ok(<<"int", IF u.v > 2^28 - 1 THEN u.v - 2^29 ELSE u.v>>, u.w, d))

DecodeAmf3Double(w, d) == DecodeAmf0Number(w, d)

\* r.Read without a look at the count: a short input is filled up with zeros.
ReadSome(w, n, d) ==
  IF w = <<>> THEN Fail("err", w, d)
  ELSE Ok(Text([i \in 1 .. n |-> IF i <= Len(w) THEN w[i] ELSE B(0)]), Drop(w, n), d)

\* A reference into a table of the decoder: t[i], counted from zero.
Lookup(t, i, w, d) == IF i < Len(t) THEN Ok(t[i + 1], w, d) ELSE Fail("panic", w, d)

DecodeAmf3String(w, d) ==
  Then(decodeReferenceInt(w, d), LAMBDA h :
    IF h.v.isRef THEN Lookup(d.strs, h.v.refVal, h.w, d)
    ELSE Then(ReadSome(h.w, h.v.refVal, d), LAMBDA r :
           IF r.v = Empty THEN r ELSE [r EXCEPT !.d.strs = Append(@, r.v)]))

\* Dates, byte arrays and XML: a reference must name a value of the same kind.
Referenced(h, kind) ==
  Then(Lookup(h.d.objs, h.v.refVal, h.w, h.d), LAMBDA r :
    IF r.v[1] = kind THEN r ELSE Fail("err", r.w, r.d))
Remember(r) == [r EXCEPT !.d.objs = Append(@, r.v)]

DecodeAmf3Date(w, d) ==
  Then(decodeReferenceInt(w, d), LAMBDA h :
    CASE h.v.isRef -> Referenced(h, "date")
      [] ~h.v.isRef /\ ~IsField(h.w, "f64") -> Fail("err", h.w, d)
      [] OTHER -> Remember(Ok(<<"date", h.w[1][2] \div 1000>>, Tail(h.w), d)))

DecodeAmf3ByteArray(w, d) ==
  Then(decodeReferenceInt(w, d), LAMBDA h :
    IF h.v.isRef THEN Referenced(h, "bin")
    ELSE Then(ReadSome(h.w, h.v.refVal, d), LAMBDA r : Remember([r EXCEPT !.v = <<"bin", r.v>>])))

DecodeAmf3Xml(w, d) ==
  Then(decodeReferenceInt(w, d), LAMBDA h :
    IF h.v.isRef THEN Referenced(h, "str")
    ELSE Then(AsString(ReadSome(h.w, h.v.refVal, d)), LAMBDA r :
           IF r.v[2] = Empty THEN r ELSE Remember(r)))

RECURSIVE Elements3(_, _, _, _), Names(_, _, _, _), Sealed(_, _, _, _), Dynamic(_, _, _)

Elements3(w, d, n, acc) ==
  IF n = 0 THEN Ok(<<"arr", acc>>, w, d)
  ELSE Then(Inner3(w, d), LAMBDA v : Elements3(v.w, v.d, n - 1, Append(acc, v.v)))

\* An array is entered into the table after its elements; a reference to one is
\* halved once more than the encoding asks for.
DecodeAmf3Array(w, d) ==
  Then(decodeReferenceInt(w, d), LAMBDA h :
    IF h.v.isRef THEN Referenced([h EXCEPT !.v.refVal = @ \div 2], "arr")
    ELSE Then(DecodeAmf3String(h.w, d), LAMBDA k :
           IF k.v # Empty THEN Fail("err", k.w, k.d)
           ELSE Then(Elements3(k.w, k.d, h.v.refVal, <<>>), Remember)))

Names(w, d, n, acc) ==
  IF n = 0 THEN Ok(acc, w, d)
  ELSE Then(DecodeAmf3String(w, d), LAMBDA k : Names(k.w, k.d, n - 1, Append(acc, k.v)))

\* Mutant: a new trait is not entered into the table.
TraitForgotten(u, w, d) ==
  IF u % 2 = 0 THEN Lookup(d.traits, u \div 2, w, d)
  ELSE Then(DecodeAmf3String(w, d), LAMBDA c :
         Then(Names(c.w, c.d, u \div 8, <<>>), LAMBDA n :
           [n EXCEPT !.v = [ext |-> (u \div 2) % 2 = 1, dyn |-> (u \div 4) % 2 = 1,
                            type |-> c.v, props |-> n.v]]))

\* The trait of an object: one of the table, or a new one that enters it.
Trait(u, w, d) ==
  IF u % 2 = 0 THEN Lookup(d.traits, u \div 2, w, d)
  ELSE Then(DecodeAmf3String(w, d), LAMBDA c :
         Then(Names(c.w, c.d, u \div 8, <<>>), LAMBDA n :
           LET t == [ext |-> (u \div 2) % 2 = 1, dyn |-> (u \div 4) % 2 = 1,
                     type |-> c.v, props |-> n.v]
           IN  [n EXCEPT !.v = t, !.d.traits = Append(@, t)]))

Sealed(w, d, props, obj) ==
  IF props = <<>> THEN Ok(obj, w, d)
  ELSE Then(Inner3(w, d), LAMBDA v :
         Sealed(v.w, v.d, Tail(props), (Head(props) :> v.v) @@ obj))

Dynamic(w, d, obj) ==
  Then(DecodeAmf3String(w, d), LAMBDA k :
    IF k.v = Empty THEN Ok(obj, k.w, k.d)
    ELSE Then(Inner3(k.w, k.d), LAMBDA v : Dynamic(v.w, v.d, (k.v :> v.v) @@ obj)))

\* External types: bytes of flags, each with a bit for a further one, say which
\* values follow.  sizes are the lengths of the lists of known names.
RECURSIVE readFlags(_, _, _)
readFlags(w, d, acc) ==
  Then(Wrap(ReadByte(w, d)), LAMBDA b :
    IF b.v < 128 THEN Ok(Append(acc, b.v), b.w, d) ELSE readFlags(b.w, d, Append(acc, b.v)))

\* Bit p of byte i: a known name, an extra one below bit 6, or nothing at all.
FieldNames(flags, part, sizes) ==
  FlattenSeq([i \in 1 .. Len(flags) |->
    LET known == IF i <= Len(sizes) THEN sizes[i] ELSE 0
        set == SelectSeq(<<0, 1, 2, 3, 4, 5, 6>>, LAMBDA p :
                 (flags[i] \div 2^p) % 2 = 1 /\ (p < known \/ p < 6))
    IN  [j \in 1 .. Len(set) |->
          IF set[j] < known THEN <<part, 10 * i + set[j]>> ELSE <<"extra", 10 * i + set[j]>>]])

decodeExternal(r, part, sizes) ==
  Then(r, LAMBDA q :
    Then(readFlags(q.w, q.d, <<>>), LAMBDA f :
      Sealed(f.w, f.d, FieldNames(f.v, part, sizes), q.v)))

decodeAsyncMessage(w, d) ==
  decodeExternal(decodeExternal(Ok(<<>>, w, d), "abstract", <<7, 2>>), "async", <<2>>)
decodeAcknowledgeMessage(w, d) ==
  decodeExternal(decodeAsyncMessage(w, d), "ack", <<>>)

AsObject(r) == Then(r, LAMBDA q : [q EXCEPT !.v = <<"obj", q.v>>])

\* The object after its trait; e is the decoder's tables.
ObjectOf(t, e) ==
  CASE t.v.ext /\ t.v.type = <<"DSA", 3>> -> AsObject(decodeAsyncMessage(t.w, e))
    [] t.v.ext /\ t.v.type = <<"DSK", 3>> -> AsObject(decodeAcknowledgeMessage(t.w, e))
    [] t.v.ext /\ t.v.type = <<"ArrayCollection", 4>> -> Then(Inner3(t.w, e), Remember)
    [] ~t.v.ext -> AsObject(Then(Sealed(t.w, e, t.v.props, <<>>), LAMBDA s :
                                   IF t.v.dyn THEN Dynamic(s.w, s.d, s.v) ELSE s))
    [] OTHER -> Fail("err", t.w, e)

\* Nil enters the table of objects before the object is known, and stays there.
DecodeAmf3Object(w, d) ==
  Then(decodeReferenceInt(w, d), LAMBDA h :
    IF h.v.isRef THEN Lookup(d.objs, h.v.refVal \div 2, h.w, d)
    ELSE Then(Trait(h.v.refVal, h.w, d), LAMBDA t :
           ObjectOf(t, [t.d EXCEPT !.objs = Append(@, Nil)])))

\* The amf3 router.
DecodeAmf3(w, d) ==
  Then(ReadByte(w, d), LAMBDA m :
      CASE m.v \in {0, 1} -> Ok(Nil, m.w, d)
        [] m.v \in {2, 3} -> Ok(<<"bool", m.v = 3>>, m.w, d)
        [] m.v = 4 -> DecodeAmf3Integer(m.w, d)
        [] m.v = 5 -> DecodeAmf3Double(m.w, d)
        [] m.v = 6 -> AsString(DecodeAmf3String(m.w, d))
        [] m.v \in {7, 11} -> DecodeAmf3Xml(m.w, d)
        [] m.v = 8 -> DecodeAmf3Date(m.w, d)
        [] m.v = 9 -> DecodeAmf3Array(m.w, d)
        [] m.v = 10 -> DecodeAmf3Object(m.w, d)
        [] m.v = 12 -> DecodeAmf3ByteArray(m.w, d)
        [] OTHER -> Fail("err", m.w, d))

-----------------------------------------------------------------------------
(* The batch loop and the metadata of a stream. *)

\* Decode
Decode(w, d, version) == IF version = "amf0" THEN DecodeAmf0(w, d) ELSE DecodeAmf3(w, d)

\* Values until the first error, which at the end of the input is io.EOF.
RECURSIVE Batch(_, _, _)
Batch(v, version, acc) ==
  IF v.st # "ok" THEN [st |-> v.st, vs |-> acc, d |-> v.d]
  ELSE Batch(Decode(v.w, v.d, version), version, Append(acc, v.v))
DecodeBatch(w, d, version) == Batch(Decode(w, d, version), version, <<>>)

SetDataFrame == <<"@setDataFrame", 2>>
setFrameFrame == EncodeAmf0(<<"str", SetDataFrame>>, <<>>)

\* Mutant: ADD does not look whether the name is there.
ReformedAlways(w, flag, v) ==
  CASE v.st # "ok" \/ v.v[1] # "str" -> <<"error">>
    [] v.st = "ok" /\ v.v[1] = "str" /\ flag = "ADD" -> setFrameFrame \o w
    [] v.st = "ok" /\ v.v = <<"str", SetDataFrame>> /\ flag = "DEL" -> Drop(w, Len(setFrameFrame))
    [] OTHER -> w

\* ADD puts "@setDataFrame" in front of metadata that lacks it, DEL takes it off; v is
\* the first value of the metadata.
Reformed(w, flag, v) ==
  CASE v.st # "ok" \/ v.v[1] # "str" -> <<"error">>
    [] v.st = "ok" /\ v.v[1] = "str" /\ v.v[2] # SetDataFrame /\ flag = "ADD" -> setFrameFrame \o w
    [] v.st = "ok" /\ v.v = <<"str", SetDataFrame>> /\ flag = "DEL" -> Drop(w, Len(setFrameFrame))
    [] OTHER -> w

MetaDataReform(w, flag) == Reformed(w, flag, DecodeAmf0(w, NewDecoder))

-----------------------------------------------------------------------------
(* A connection's decoder is given one message after the other.  A message *)
(* that the sender cut short, or of which the peer declared too small a    *)
(* length, ends anywhere; after an error the connection is closed.         *)

Init ==
  /\ sent = <<>> /\ ver = "amf0" /\ wire = <<>> /\ count = 0
  /\ dec = NewDecoder
  /\ got = [st |-> "none"]

Ready == wire = <<>> /\ count < MaxMessages /\ got.st \in {"none", "eof"}

Put(vs, version, bytes) ==
  /\ Ready
  /\ sent' = vs /\ ver' = version /\ wire' = bytes
  /\ count' = count + 1 /\ got' = [st |-> "none"]
  /\ UNCHANGED dec

\* writeMsg of either end: the values one by one into an emptied buffer, as AMF0.
writeMsg(vs, ord) == Put(vs, "amf0", EncodeBatch(vs, "amf0", ord))

\* Another caller of the encoder, which asks it for AMF3.
EncodeBatch3(vs) == Put(vs, "amf3", EncodeBatch(vs, "amf3", SetToSeq(Keys)))

PeerSends(f) == Put(f[2], "foreign", f[1])

\* n fields of the message arrive.
Receive(n) ==
  /\ wire # <<>>
  /\ \E r \in {DecodeBatch(SubSeq(wire, 1, n), dec, IF ver = "amf0" THEN "amf0" ELSE "amf3")} :
       /\ got' = [st |-> r.st, vs |-> r.vs, whole |-> n = Len(wire), fresh |-> dec = NewDecoder]
       /\ dec' = r.d
  /\ wire' = <<>>
  /\ UNCHANGED <<sent, ver, count>>

Next ==
  \/ \E vs \in Messages, ord \in SetToSeqs(Keys) : writeMsg(vs, ord)
  \/ \E vs \in Messages \cup Amf3Only : EncodeBatch3(vs)
  \/ \E f \in Foreign : PeerSends(f)
  \/ \E n \in 0 .. Len(wire) : Receive(n)

Spec == Init /\ [][Next]_vars

-----------------------------------------------------------------------------
(* Properties. *)

\* What a value is after the trip: Go's integers are AMF0 numbers, and AMF3
\* numbers outside the range of its integers; DecodeAmf3Object reads the type of an
\* object and drops it.
RECURSIVE Carried(_, _), EndsEmpty(_), SmallInts(_)
Carried(v, version) ==
  CASE v[1] = "int" -> IF version = "amf3" /\ v[2] \in 0 .. AMF3_INTEGER_MAX THEN v ELSE <<"num", v[2]>>
    [] v[1] = "arr" -> <<"arr", [i \in 1 .. Len(v[2]) |-> Carried(v[2][i], version)]>>
    [] v[1] = "obj" -> <<"obj", [k \in DOMAIN v[2] |-> Carried(v[2][k], version)]>>
    [] v[1] = "typed" -> <<"obj", [k \in DOMAIN v[3] |-> Carried(v[3][k], version)]>>
    [] OTHER -> v
CarriedAll(vs, version) == [i \in 1 .. Len(vs) |-> Carried(vs[i], version)]

\* The values AMF3 does not carry: one that ends the message with an empty text,
\* array or object, and an integer of 2^28 or more.
EndsEmpty(v) ==
  CASE v[1] = "str" -> v[2] = Empty
    [] v[1] = "arr" -> v[2] = <<>> \/ EndsEmpty(Last(v[2]))
    [] v[1] = "obj" -> DOMAIN v[2] = {} \/ \E k \in DOMAIN v[2] : EndsEmpty(v[2][k])
    [] v[1] = "typed" -> \E k \in DOMAIN v[3] : EndsEmpty(v[3][k])
    [] OTHER -> FALSE
SmallInts(v) ==
  CASE v[1] = "int" -> v[2] \notin 2^28 .. AMF3_INTEGER_MAX
    [] v[1] = "arr" -> \A i \in 1 .. Len(v[2]) : SmallInts(v[2][i])
    [] v[1] = "obj" -> \A k \in DOMAIN v[2] : SmallInts(v[2][k])
    [] v[1] = "typed" -> \A k \in DOMAIN v[3] : SmallInts(v[3][k])
    [] OTHER -> TRUE

Arrived == got.st # "none" /\ got.whole

\* A whole message of this program's encoder comes out of the decoder as it went
\* in, whatever order the map gave its keys, whatever the decoder read before; but for
\* the type of a typed object, which is lost, and the values that AMF3 does not carry.
RoundTrip ==
  Arrived =>
    /\ ver = "amf0" => got.st = "eof" /\ got.vs = CarriedAll(sent, "amf0")
    /\ ver = "amf3" /\ ~EndsEmpty(Last(sent)) /\ (\A i \in 1 .. Len(sent) : SmallInts(sent[i]))
         => got.st = "eof" /\ got.vs = CarriedAll(sent, "amf3")

\* A command that is cut short anywhere yields the first of its values and never
\* one that was not sent: no text is shortened, no object loses a property.
CutSafe ==
  got.st # "none" /\ ver = "amf0" => IsPrefix(got.vs, CarriedAll(sent, "amf0")) /\ got.st # "panic"

\* The first AMF3 message of a peer that uses references to texts, traits, dates,
\* byte arrays, XML and the first array, or external types, is read as it was meant.
ForeignRead ==
  Arrived /\ ver = "foreign" /\ got.fresh => got.st = "eof" /\ got.vs = sent

\* Metadata as a publisher sends it and as a player gets it: DEL undoes ADD, ADD is
\* done once, and what is left of the message decodes to the publisher's values.
MetadataKept ==
  ver = "amf0" /\ wire # <<>> /\ sent[1][1] = "str" =>
    LET add == MetaDataReform(wire, "ADD")
        del == MetaDataReform(wire, "DEL")
        vs == CarriedAll(sent, "amf0")
    IN  /\ MetaDataReform(add, "ADD") = add /\ MetaDataReform(add, "DEL") = del
        /\ DecodeBatch(del, NewDecoder, "amf0").vs = IF sent[1][2] = SetDataFrame THEN Tail(vs) ELSE vs
=============================================================================
