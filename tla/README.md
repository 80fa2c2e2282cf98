# srtmp: a verification project

srtmp is an RTMP server and client in Go. Publishers push a stream, players
pull it, and the server relays packets from one to the others. These TLA+
modules model it from the sockets up: the chunk layer under a connection, the
dialogue that sets it up, the AMF values in that dialogue, the registry and
event loop of streams, the path of a packet to a player, and what becomes of
pictures and sound on the way (NAL units, FLV tags, sequence headers, ADTS,
MPEG-TS). TLC checks them on small instances; TLAPS proves, for every instance,
the invariants of the hub, of the relay, of the session and of the chunk layer,
that the steps of the chunk layer implement a queue of messages, and five of the
eight properties of pictures and sound, for units, frames and streams of any
length.

## 1. Inventory

| part | state | operations | interacts with |
|---|---|---|---|
| Stream registry, `protocol/stream_handler.go` | map key -> stream, a mutex | `getOrCreate`, `remove`, `HandleConnect` | called by every connection's goroutine and by every loop that ends |
| Stream loop, `protocol/stream.go` | reader, writers, three channels, cache | the select of `streamLoop`; `AddReader`, `AddWriter`, `startRead`; `close` | goroutines of senders, of the reader, of the writers; no lock |
| Reader and writer, `protocol/stream_rw.go`, `av/rwbase.go` | packet queue, `closed`, `keyframeNeed`, base and last timestamps, time of last use | `Read`, `Write`, `SendPacket`, `Check`, `Close`, `CalcBaseTimestamp` | the loop, plus two goroutines per writer |
| Packet cache, `protocol/cache` | metadata, two sequence headers, a GOP | `Write` (startRead), `Send` (loop) | two goroutines, no lock |
| Chunk layer, `protocol/core/chunk_stream.go`, `rtmp_conn.go`, `read_writer.go` | one `ChunkStream` per id, chunk sizes, window counters, buffered I/O | `Read`, `Write`, `writeChunk`, `readChunk`, `handleControlMsg`, `ack` | the peer; reading and writing goroutines |
| Session set-up, `server.go`, `forward_conn.go`, `handshake.go` | app, name, publisher or player | handshake, connect, createStream, publish, play | the peer, then the registry |
| Client, `client.go`, `conn_client.go` | transaction id, current command | `OpenPublish`, `OpenPlay`, `SendPacket`, `waitForResponse` | a server |
| AMF, `protocol/amf` | AMF3 tables of texts, traits and objects, as long as the connection | both encoders and decoders, `DecodeBatch`, `MetaDataReform` | session, client, metadata in `StreamReader` and `StreamWriter` |
| FLV tags, `container/flv/tag.go`, `demuxer.go` | the tag | `ParseMediaTagHeader`, `NewAVCSequenceHeader`, `NewAACSequenceHeader`, `PackVideoData`, `PackAudioData`, `Demux` | client and reader |
| Codec parsers, `media/` | `specificInfo`, the AAC configuration | `ParseNalus`, `Parse` to Annex B and ADTS | client (sending), TS muxer |
| TS muxer, `container/ts` | four continuity counters, one packet buffer | `Mux`, `PAT`, `PMT` | fed with what the codec parsers return |

What is hard here: channels and unlocked fields shared by several goroutines
per stream; a takeover, which waits for another goroutine from inside the event
loop; the end of a loop racing with connections that have just found it; queues
that drop when full; timeouts; chunks of several messages interleaved under
headers that leave out what has not changed. `hazards` in `PROJECT.json` lists
each place, with the properties that would catch it going wrong.

What makes each part correct:
* registry: two loops never serve one key, and `remove` deletes its own stream;
* loop: a connection handed over is served or closed, never lost; a takeover
  ends and carries over nothing of the old publisher; an abandoned stream and a
  dead player are given up;
* relay: a decoder gets headers before frames and no frame without its key
  frame; time does not go back;
* chunk layer: both ends agree on where a chunk ends; messages arrive whole,
  once, in order, with their time; acknowledgements account for what came;
* session: both ends agree on what was set up, nobody waits for ever for the
  other, a failure closes the connection, headers precede frames;
* AMF: what is encoded is decoded, a message cut short yields no value that was
  not sent, references find what the peer meant;
* media: no NAL unit is lost, cut or doubled; a decoder has the parameter sets
  the publisher means when it meets an IDR picture; a demultiplexer gets back
  the elementary stream.

## 2. Modules

**RtmpStream** - registry, loops and goroutines. `streams` is
`StreamHandler.streams`; per stream there are the fields of `RtmpStream` and
the place of its loop (`loop`); per connection, how far it is (`phase`), the
stream it found (`target`), whether the server has closed it (`open`), its
network (`link`), `Alive()` (`fresh`) and, for a publisher, its `startRead`
goroutine (`rgo`, `rconn`). One action per select case of `streamLoop`
(`Deliver`, `TakeWriter`, `FirstReader`, `Takeover` .. `Install`, `TickExit`,
`TickSweep`), per step of the deferred function (`Remove`, `CloseReader`,
`DrainWriter`, `DrainReader`, `DrainDone`), per step of `startRead`
(`StartRead`, `CallRead`, `ReadPacket`, `Forward`, `ReadErr`), per way a
writer's goroutines end. `wg.Wait` is three loop states: `wait` (blocked),
`woken` (released, the counter not yet looked at again), `install` (returned at
once). Panics and the fatal error of a concurrent map write set `crashed`; the
process is then gone and nothing more happens.

Abstractions: a packet is the connection it came from; the queue of a player
is in StreamRelay; `Close` called by the loop is one step; a connection is used
once (one that comes back is another member of the set); the network acts on a
connection only once it has been handed to a stream. Two branches of the loop
cannot be reached and are left out: a writer that is not a `StreamWriter` (only
`NewStreamWriter` makes them) and a `Cache.Send` that fails (it puts at most
three packets into an empty queue of 1024).

**StreamRelay** - one stream's packets to one player. Kinds of packet stand
for their data: metadata, the two sequence headers, key, inter and audio
frames, each with publisher, group of pictures and a time. `Cache.Send` reads
one field per step, between which `startRead` may write. `NewGopCache` does not
store its argument, so the GOP cache never keeps a packet; the model has that
as it is, and the properties hold with it.

**RtmpConn** - one direction of a connection at chunk level. The wire is a
sequence of chunks, each made of the bytes of its basic header, a message
header, perhaps an extended timestamp, and units of data. The reader works out
which of these there are, and how much data, from what it has read before; when
the chunk is another it has taken one thing for another (`desync`), and what it
would then make of the bytes is not modelled. A unit is the message it belongs
to and its place there, so data that is mixed, cut or put at the wrong place is
seen. The sender is the program's own writer or another RTMP peer (external,
modelled from what `chunk_stream.go` says of the format). `mem` holds the `Data`
buffers, which messages already returned still point to. An iteration of `Read`
is one step, `handleControlMsg` and `ack` included: a SetChunkSize (`size`) sets
the size of the chunks to come, a WindowAckSize (`window`) the number of bytes
between two acknowledgements, which `ack` compares with at once; every other
control message (`other`: acknowledgement, user control, SetPeerBandwidth, abort)
is passed over. `writeChunk` writes nothing at all for an empty message; the
program's own sender is given none. Two things a peer might do are left out: it
does not abort a message it has begun (`chunk_stream.go:63-64` says that a receiver
then discards the incomplete message; `handleControlMsg` has an empty case for it
and would go on with the bytes it has), and it does not begin a message with fmt 3
right after a full header (`chunk_stream.go:299-304` would then add a `timeDelta`
that an earlier delta header left behind).

**MessageChannel** - what the chunk layer promises: every chunk stream is a
queue of whole messages. Messages are numbered in the order they are sent;
`pending` is those not received, each with its channel, `received` all that was
received. `Receive(c)` takes the first message pending on channel c. RtmpConn
implements it (`ImplementsChannel`) under this mapping: pending are the messages
begun that `Read` has not returned, control messages left out; received is, for each
message returned, its chunk stream and its number if its kind and all its data
are those of that message, and number 0 if not. A message cut, mixed with
another, doubled or out of order is no step of MessageChannel, and one that
never comes is against its fairness.

**Session** - one connection from `Accept` to `HandleConnect` and, on the
client's side, on to `SendPacket`, `streamPlayProc` and `Close`. `cpc` is where
`ConnClient.Start` is, `spc` where `handleConn` is, `fc` the `ForwardConnect`.
Each end is this program or another one (external): another client sends
commands in any order and ahead of the answers; another server grants or refuses
each command and answers late, twice or never. `cbuf` is what the client has
written and not flushed: C2, until the first command. The network (`net`) may fail
so that both ends are told, or stall so that nobody is, and then recover, fail or
do neither for ever. Reads fail when the network has failed, or it works, the
other end has closed and everything is read; writes may fail when the other end
has closed. On a stalled network a read waits and a write ends up with the kernel.
A handshake deadline may pass at any time, stalled or not; there is none after the
handshake (`handshake.go:140, 207` clear it), and `conn_client.go:381` sets no
keepalive. Protocol messages that `RtmpConn.Read` handles itself are not seen at this
level; commands are well-formed; a client is opened once. From `HandleConnect`
on the connection is RtmpStream's (`ServeMedia`, `ServeRead`, `ServeEnds` stand
for it).

**Amf** - the codec over a sequence of fields (bytes, big-endian lengths,
floats, the bytes of a text). The variable-length integer is computed byte by
byte; a text is its name and length, a float is opaque. `dec` is the decoder's
tables, kept from message to message as `amf.Decoder` is kept by a connection.
`writeMsg` encodes a command, in AMF0, and `EncodeBatch3` a message in AMF3, for
which the package has an encoder and this program no caller, both with a map's keys
in every order Go may visit them; `PeerSends` is another encoder's message, which uses
references; `Receive` decodes all of a message, or what there is of one that
ends early, and an error other than `io.EOF` ends the connection. Encoding rules
that nothing calls (`EncodeAmf3ByteArray`, AMF0 undefined and unsupported,
registered external handlers) are left out.

**Codec** - the pure functions on bytes: `ParseNalus`, the FLV tag headers, the
AVC and AAC sequence headers, Annex B, ADTS, and `Mux`. A byte is a number, a PES
timestamp is one element. The branch of `Mux` that writes a PCR asks for a frame
type the caller never gives and is left out, as are the CRCs and MP3.
`ParseNalusN` indexes past what is left of a slice; the model takes slices that
have no spare capacity, where that is a panic. Each loop of the code is a turn
(`ScanTurn`, `AnnexbTurn`, `MuxTurn`, in Media `LengthsTurn`), which maps the
loop's variables to what they are an iteration later and leaves them alone once
the loop has ended, and a function of the number of turns (`Scan`, `Annexb`,
`MuxLoop`, `LengthsLoop`). `CodecAssumption`: a TS packet has room for a PES
header.

**Media** - Codec at work. An application hands pictures and AAC frames to
`SendPacket` (`sendVideoPacket`, `sendAudioPacket`, with `videoFirst` and
`audioFirst`), or another publisher sends what it likes; the server caches the
headers and passes messages on (`Relay`: `Demux`, `Cache.Write`, `keyframeNeed`).
A cached header is no copy but a slice of the buffer of its chunk stream, into
which `Read` puts the next message that fits (`Reuse`), so that a late player may
be handed other bytes than were published; `read` is the history it is compared
with. (`writeChunk` puts audio on chunk stream 4 and everything else of a stream on
6, metadata and video alike; Media has no metadata, which would overwrite the video
header too.) A player, which may join at any time, is called back by
`handleVideoAudio`; a
segmenter makes an MPEG-TS stream (`Parse`, `Mux`, `PAT`, `PMT`), as `src/hls`
did before it was commented out. The queues that may drop are StreamRelay's and
hold nothing back here. `AVCPacketType` is 1 for pictures, as in the examples;
a panic ends the application. `MediaAssumption` says what an application may hand
over: NAL units that are not empty, have no start code in them and do not end
with a zero byte, which H.264 asks of an encoder; sounds with the rates, sizes and
types that `av` has constants for; no picture longer than a message can be
(`writeHeader` refuses one of more than 24 bits). Another publisher's pictures are
units behind their lengths. `out.seen` is the last continuity counter put out on
each PID, over all messages and segments.

**RtmpStreamMC**, **SessionMC**, **AmfMC** and **MediaMC** give model values,
symmetry and the sets of inputs. **RtmpStreamProofs**, **StreamRelayProofs**,
**SessionProofs**, **RtmpConnProofs**, **RtmpChannelProofs**, **CodecProofs**,
**MediaProofs** and **UnitsProofs** have the proofs. Amf, whose values are trees,
uses recursive operators and carries no theorem.

## 3. Runs

| run | expects | shows |
|---|---|---|
| `stream_takeover` | pass | `TypeOK`, `TakeoverClean`, `TakeoverCompletes`, `StreamReclaimed`: two publishers, one stream, one unread message each, `pktChan` of one |
| `stream_players` | pass | `NoLeak`, `MapConsistent`, `DeadPlayerClosed`: one publisher, one player, one key, two streams |
| `stream_stale` | violation | a takeover does not wait for a goroutine that has not run `wg.Add` |
| `stream_orphan` | violation | a connection sent to a loop that has exited is never closed |
| `relay` | pass | `TypeOK`, `HeaderFirst`, `GopIntact`, `MonotoneIfDrained`: two publishers, three packets each, queues of one and three |
| `relay_timestamps` | violation | rebasing over packets still queued makes time go back |
| `session` | pass | `TypeOK`, `Agreement`, `NoMisunderstanding`, `Granted`, `HeadersFirst`, `SessionSettles`, `ServerLetsGo`, `PlayerTold`: own client and server, each also against a peer |
| `wire` | pass | `TypeOK`, `Framed`, `PtsRight`, `DataStable`, `AckAccounts` and `ImplementsChannel` (the refinement, with its liveness): three messages of 0, 1 or 3 units, chunk sizes 1 and 2, acknowledgement windows of 2 and 4, three-byte chunk stream ids |
| `wire_delta` | violation | `Read` does not return the time it works out from deltas |
| `wire_extended` | violation | writer and reader disagree on extended timestamps of later chunks |
| `amf` | pass | `RoundTrip`, `CutSafe`, `ForeignRead`, `MetadataKept`: two messages to one decoder, of atoms, nested objects and arrays, integers at every boundary of the encoding, ten messages of a peer |
| `media` | pass | `UnitsKept`, `SplitSafe`, `HeaderKept`, `ParamsCurrent`, `AnnexbRight`, `AudioRight`, `TsReassembles`, `Continuity`: three packets out of fourteen pictures and four sounds, or of another publisher's messages |

Bounds. Two publishers are enough for a takeover to race with the old
goroutine, a third for a sender blocked behind another; two stream objects for
a key that is created again while the old loop ends. A `pktChan` of one is full
as soon as anything waits. Three packets per publisher let a header, a key
frame and an inter frame pass, or be dropped, one by one. A message of three
units (`MaxLen`) spans chunks of one and two units (`FirstSize`, `ChunkSizes`), so
that the chunk size can change inside it; a sender is at most one chunk ahead
when it writes (`MaxWire`), which puts a whole message of the own writer, or two
chunks of a peer, on the wire; three messages give two that are interleaved and one that changes
the size, or a full header, a delta and a repeated delta. A peer client's five
messages are its handshake, two connects (for two applications) or one and a
createStream, and a publish; a peer server's five are its handshake, three
answers and one too many; three packets are one without parameter sets, one
with, and audio. AMF0 texts are long from three bytes on and 16-bit lengths wrap
at three (`StringMax`, `Word`), so that texts of 0 to 3 bytes meet both limits;
two messages are enough for the second to find the first one's tables. Three
packets let a publisher start, change its parameter sets, and send a picture
without them. TS packets of 24 bytes (`TsDataLen`), 2-bit counters (`CcMax`) and
a clock that wraps at 120 (`ClockMax`) make a short picture span packets, need
stuffing in the last one, and both wrap. Every bound
has a name in the CONSTANTS. Deadlock is not checked: each model comes to rest when
its bounded supply of connections or messages is used up or the process has
crashed.

Fairness. Go runs every runnable goroutine, and `select` picks at random among
ready cases, so each loop's ticker, its exit and the end of a takeover are weakly
fair, as is every `startRead` goroutine. For a connection whose network failed,
ten seconds pass. Nothing is assumed of peers, of arrivals, or of the time
between messages on a healthy connection. In RtmpConn, reading goes on and a peer
finishes the message it has begun: no more is needed for what is sent to be
read. (No fairness is put on `Flush`: an acknowledgement waits in the buffer
until the next message to the peer, which on a publisher's connection may never
come.) In Session the goroutines of
`Start`, `handleConn` and `streamPlayProc` run when they can; applications,
peers and the network owe nothing, and a stalled network need neither recover nor
fail. So both ends are shown to leave the handshake whatever the network does, for
it has deadlines, but what comes after it only "unless the network stalls": the
second half of `SessionSettles`, `ServerLetsGo` and `PlayerTold` say so.

Every property of a passing run has a mutant: a plausible slip in one mapped
definition that makes TLC find it violated.

State counts, to tell a change in a model from a change in its bounds: `session`
810345 distinct states, `wire` 443021, `media` 176670, `amf` 22641.

### Findings

`PROJECT.json` has seven. Five are violations: a takeover does not wait for a
goroutine that has not run `wg.Add` (`OnlyReaderPackets`), a connection sent to a
loop that has exited stays open (`NoOrphan`), rebasing over queued packets makes time
go back (`Monotone`), `Read` does not return the time it works out (`Timestamps`),
and writer and reader disagree on the extended timestamps of later chunks
(`Framed`). Two are on the passing run `media`, where the property states exactly
where code and comment agree and where they do not: pictures of more than three
units (`UnitsKept`) and the cached sequence header in a buffer that is used again
(`HeaderKept`).

### Where the properties stop

Some preconditions of properties are limits of the code that TLC found:

* `RoundTrip`: AMF3 integers from 2^28 on are decoded as negative; an AMF3
  message that ends with an empty text, array or object is refused, since a read
  of zero bytes at its end is `io.EOF`; a typed object comes back from AMF3 as an
  object without its type (`Carried`), which the property states.
* `ForeignRead`: the tables are never reset, so references are right in the
  first message of a connection only; references to objects yield nil, and to
  arrays the index is halved twice, which is right for the first one only.
* `UnitsKept`: pictures of more than three units, or that do not begin with a
  parameter set, keep several units under one length, start codes between them,
  although `tag.go:509-510` says that all units are taken out and packed each behind
  its length. The property has the exact line: the player is called back once for
  each unit if and only if `OneEach`, and what it is given is all units in order in
  any case. A parameter set of fewer than four bytes that is sent by itself
  (`TooShort`) is lost: `ParseNalusN` returns no unit, and `PackVideoData` a message
  without one. The attempt at a proof found this; the instance of the run has no such
  picture.
* `SplitSafe`: a picture whose last unit has fewer than four bytes makes
  `ParseNalusN` panic.
* `ParamsCurrent`, `AnnexbRight`: the client sends the sequence header with the
  first packet only, so parameter sets that change later are not in the cached
  header.
* `HeaderKept`: a late player is handed the header that was published if and only if
  the video message after it was longer than all up to it, or has not come; a shorter
  one is read into the buffer that the cached header lies in. `ParamsCurrent` asks
  of a late player that it was handed the header intact.
* `AudioRight`: `NewAACSequenceHeader` has no code for 5.5 and 7.35 kHz. AAC has one
  for the latter: `aac/parser.go:26` lists it, `tag.go:385` calls it unsupported.
* `SessionSettles`, `ServerLetsGo`, `PlayerTold`: after the handshake neither end has
  a deadline, so a network that stalls for ever leaves `Start`, `handleConn` and
  `streamPlayProc` waiting for ever, and a player's application is told nothing.
* `AckAccounts`: it counts acknowledgements that were written; whether one is ever
  flushed is not said (see Fairness).
* `HeaderFirst`, `GopIntact`: a full `pktChan` drops headers and key frames and
  tells nobody; `lost` records it.
* Not in the models, and true of the code: `ack` and `SendPacket` write to one
  buffer from two goroutines; `Start` does not close the connection when it
  fails; a client that sends neither publish nor play keeps its connection.

## 4. Proofs

`RtmpStreamProofs`, for all finite or infinite sets of keys, connections and
streams and any capacity, from `StreamAssumption` alone (publishers and players
are disjoint, `Nil` is none of them, the capacity is positive):

* `TypeCorrect`: `Spec => []TypeOK`;
* `MapCorrect`: `Spec => []MapConsistent`;
* `LeakFree`: `Spec => []NoLeak`;
* `TakeoverCorrect`: `Spec => []TakeoverClean`.

`TypeOK` is not inductive: steps index functions by `target[c]`, `incoming[s]`,
`rconn[c]`, which the type allows to be `Nil`. `Links` says when they are not:
a publisher waits in one place only and has no goroutine yet
(`WaitingReaders`), a connection handed over belongs to its stream (`Placed`),
a goroutine runs on a stream with a reader (`Goroutines`). `TypeOK /\ Links` is
inductive (`LinksCorrect`). `MapConsistent` is inductive relative to `TypeOK`,
`NoLeak` relative to both. `TakeoverClean` needs `ReaderAlone`: unless a
takeover left a goroutine behind, the one that runs on a stream is its reader's
and reads its reader's connection; so what `Forward` pushes is the reader's.

`StreamRelayProofs`, for any number of publishers and packets and any
capacities, from `RelayAssumption` (positive bounds, and a writer's queue that
holds what the cache holds, 3 against 1024 in the code):

* `TypeCorrect`: `Spec => []TypeOK`;
* `HeaderCorrect`: `Spec => []HeaderFirst`;
* `GopCorrect`: `Spec => []GopIntact`;
* `MonotoneCorrect`: `Spec => []MonotoneIfDrained`, if `MaxPubs * MaxPkts < TsMod`:
  timestamps are 32-bit milliseconds, and no order survives a wrap, which comes
  after 49 days of one publisher after another.

The bound on the writer's queue needs `JoinOK`: before the player has joined its
queue is empty, and `Cache.Send` has found at most one packet for each kind of
header that publishers send. `HeaderFirst` and `GopIntact` speak of the queue
only; whether a packet may enter it depends on those that are ahead of it in
`pktChan` or held by `startRead` (`Flow`). `GopInv`: the key frame of an inter
frame in `Flow` was dropped by `pktChan`, or is the last key frame before it in
`Flow`, or was the last one delivered, and then the player has it or
`keyframeNeed` is set; the same for the frame the publisher may send next.
`HeaderInv`: the header a frame in `Flow` needs is before it, or dropped, or with
the player, or `Cache.Send` has it in hand or has yet to read its field, which
holds it because `startRead` writes the cache before it pushes. `OrderInv`:
what was sent last is not later than anything in the queue, in `Flow` or still to
come from the publisher, once stamped with the present base; the same for each
frame in the queue and what is behind it; and `CalcBase` of what is recorded is
not before what was sent last, so that the next base is not either. `NoWrap`
bounds every timestamp by what all publishers so far can have counted. TLC has
checked each of these invariants as well.

`SessionProofs`, for any applications, streams, packets and bounds, and any
choice of the two ends, from `SessionAssumption`:

* `TypeCorrect`: `Spec => []TypeOK`;
* `HeadersCorrect`: `Spec => []HeadersFirst`;
* `UnderstandingCorrect`: `Spec => []NoMisunderstanding`;
* `AgreementCorrect`: `Spec => []Agreement`;
* `GrantedCorrect`: `Spec => []Granted`, if `"aggregate" \notin Unsolicited`: a
  message of a type that `waitForResponse` has no case for ends the wait as if
  it were the answer, and `Granted` fails.

The argument follows the script. `Script` says that what the own client has sent
is its handshake, its commands and then media, as far as `cpc` says. `Kept`: the
server has taken the first `Taken` messages sent, and `fc` is what these make it
(the application of the last connect, and the first publish or play once there
is one). `Replies`: S0S1S2 comes back before anything else, and a reply that
grants a command comes from a server that has granted it; so a client that has
come so far has been let so far (`GrantInv`). `FinalInv`: once the status of
publish or play is on its way, the server has decided, as the client asked.
`InStep`, for two ends of this program and no fault: one of them waits, and there
is exactly one thing on the wire or in hand (greeting, asking, asked, answered).

`RtmpConnProofs`, for any lengths, chunk sizes, chunk stream of commands, window,
number of messages and of unread chunks, from `ConnAssumption` and
`MaxTs < ExtTs`. That no timestamp reaches the one that announces an extended
timestamp (4.6 hours) is needed: beyond it `Framed` is violated (run
`wire_extended`).

* `TypeCorrect`: `Spec => []TypeOK`;
* `FramedCorrect`: `Spec => []Framed`;
* `PtsCorrect`: `Spec => []PtsRight`;
* `DataCorrect`: `Spec => []DataStable`;
* `AckCorrect`: `Spec => []AckAccounts`.

All five need one invariant. On a chunk stream the reader, the chunks on the wire
and the sender form a chain (`Chain`): each link fixes which chunk may come next,
the following part of the same message or the beginning of the next one (`Goes`),
and the last one fixes where the sender is (`Ends`). Reading drops the first link
of one chain, writing adds to the end of one, and a link of one chunk stream does
not look at the others, so that interleaving comes for nothing. `Sizes` is a
second chain, along chunk stream 2: every chunk was cut at the size that the last
SetChunkSize before it has set, and the other control messages there leave the
size alone (`Keeps`). `MsgsOK` and `PrevOK` say what a shortened header
leaves to the message before it, `ReaderOK` that `ChunkStream` holds what these
say of the message being read, and that its own buffer holds the units read;
`DeliveredOK` that what was returned is what was read to the end. `AckInv` needs
a sum over the wire, stated with a function of partial sums (`Totals`) instead of
a recursive definition: open at the peer are the units counted, buffered, on the
wire, in incomplete messages and not yet sent. `WindowInv`: no full window stays
unacknowledged, which holds after a WindowAckSize because `Read` handles the message
before it counts it in `ack`. TLC has checked every conjunct on
the instance of `wire`.

`RtmpChannelProofs`, under the same assumption:

* `ChannelCorrect`: `Spec => Channel!Init /\ [][Channel!Next]_(Channel!vars)`, the
  safety part of `ImplementsChannel`. To begin a message is `Send`, to read its
  last chunk is `Receive`, control messages and everything else are stutters. That a
  message returned is the first one pending on its chunk stream follows from
  `Chain` (it is the next one there) and `DeliveredOK` (those before it have been
  returned).

`CodecProofs`, `MediaProofs` and `UnitsProofs`, for any pictures, sounds and
foreign messages that `MediaAssumption` allows, any size of a TS packet that
`CodecAssumption` allows and any width of counters and clock:

* `Ordered`: `Spec => []Inv`;
* `ContinuityHolds`: `Spec => []Continuity`;
* `ReassemblesHolds`: `Spec => []TsReassembles`;
* `AudioHolds`: `Spec => []AudioRight`;
* `SplitHolds`: `Spec => []SplitSafe`;
* `UnitsHold`: `Spec => []UnitsKept`;
* `NalusBack`: `ParseNalus` gives the units of a picture back;
* `FirstPicture`: the sequence header that `sendVideoPacket` sends has the last
  parameter set of each kind in the first picture, which is dropped if it lacks one.

These are claims about loops over data of any length. The induction theorems of
the library take the claim as an operator, which the provers cannot instantiate;
here it is a set instead. `LeastNumber` (from `WFMin`) says that a set of numbers
has a least one, `NumberSet` and `UpTo` that a set that has 0, and with n also n + 1,
has all numbers (up to a bound). From this, `LoopRuns`: the recursive function
of a loop exists, takes one turn at each step, and stays in any set of states that
a turn stays in. What a loop computes is then an invariant of its turn, a set
like any other: `MuxTurnIs` (what the packets carry and what is left are header
and data), `AtUnit` (within unit i, `ParseNalusN` has the i - 1 before it),
`LengthsBack` (after k turns the player has the first k pieces).

`Continuity` compares the counters in what is put out with the last ones seen on the
same PID, whatever message or segment they were in; it needs `Linked`: what the muxer
will count from is what was last seen. `Inv` is `Types /\ AudioSeq`. Without `AudioSeq` none of the properties about TS
packets is inductive: an ADTS header is made of the configuration the segmenter
has, so it must be known that the AAC header is on the wire before any frame, or
has been read, and is the publisher's. `SplitSafe` follows from a fact about bytes:
if the last unit has four bytes, every start code has four bytes behind it
(`FollowedBytes`), so that the four bytes `ParseNalusN` looks at are there
(`NoPanic`). `UnitsKept` needs that a start code is found where a unit ends and
nowhere else (`CodeInside`, `CodeBehind`): not inside a unit, which has none, and
not across the end of one, which does not end with a zero. So `PackVideoData` cuts
between units (`CutIs`), what it puts behind 4-byte lengths the player's loop takes
apart again (`LengthsBack`), and `WireKept` carries this over the wire: of every
message on its way the player would be given all units, and one by one exactly if
`OneEach` (`EachOf`, `PackShown`).

Only model-checked:

* liveness, the fairness of the refinement included, which is out of the prover's
  reach;
* `RoundTrip`, `CutSafe`, `ForeignRead` and `MetadataKept`: AMF values are trees,
  and Amf's operators recurse over them, which this prover does not reason about;
* `ParamsCurrent` and `AnnexbRight`: both split what the player or the segmenter was
  given with `ParseNalus` once more (`UnitsOf`), and so say nothing useful of a
  stream that ends with a slice of fewer than four bytes, over which it panics, nor
  of a parameter set too long for the 16-bit length in a sequence header. They hold
  on the instance of `media`, which has neither. `NalusBack` is the first half of a
  proof for pictures without such units;
* `HeaderKept`: "never otherwise" depends on the bytes of the messages (one that began
  with the bytes of the header would overwrite it with itself), and is a fact about
  the instance, whose messages differ in their first bytes.

## 5. Not modelled, and the plan

Left out for good: commented-out code (HLS, HTTP-FLV, the FLV muxer), the relays
that nothing constructs, functions that nothing calls (the older forms of the
server's and client's dialogue, `readChunk1`), byte packing in `utils`, logging
and configuration, the arithmetic of the handshake digest, MP3.

Next, in this order:

1. `StreamWriter.Close` field by field against `Check`, `Write` and `SendPacket`;
   both directions of a connection, with `ack` and `SendPacket` on one buffer;
   an abort of a message that has begun.
2. A hub, abstractly: one publisher at a time, players get its packets in order
   with gaps only where a queue was full; StreamRelay under a refinement mapping.
3. Session against servers that send messages no case of `waitForResponse`
   continues on (`Granted` fails), and clients that are opened again.
4. `ParamsCurrent` and `AnnexbRight` with units split by their definition instead of
   by `ParseNalus`, and their proofs: `getAnnexbH264` as a run like the other loops,
   the AVC configuration record read back as it was written.
