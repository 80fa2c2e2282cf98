----------------------------- MODULE RtmpStream -----------------------------
(***************************************************************************)
(* The hub of the server: the registry of streams (StreamHandler), the     *)
(* event loop of every stream (RtmpStream.streamLoop) and the goroutines   *)
(* that work beside it: the senders of AddReader and AddWriter, the        *)
(* startRead goroutines, and the goroutines of each player's StreamWriter, *)
(* of which this module keeps only how they end (module StreamRelay has    *)
(* what they send).                                                        *)
(*                                                                         *)
(* A connection is used once: a client that comes back is another member   *)
(* of Publishers or Players.  A packet is the connection it was read from. *)
(***************************************************************************)
EXTENDS Naturals, Sequences, FiniteSets

CONSTANTS
  Keys,        \* stream keys, app_name
  Publishers,  \* connections that publish (StreamReader)
  Players,     \* connections that play (StreamWriter)
  StreamIds,   \* RtmpStream objects that may be created
  Nil,         \* the nil pointer
  PktCap,      \* capacity of pktChan (16 in the code)
  MaxUnread    \* bound: messages of a publisher received and not yet read

Conns == Publishers \cup Players

ASSUME StreamAssumption ==
  /\ Publishers \cap Players = {}
  /\ Nil \notin Conns
  /\ Nil \notin StreamIds
  /\ Nil \notin Keys
  /\ PktCap \in Nat \ {0}
  /\ MaxUnread \in Nat

VARIABLES
  streams,     \* StreamHandler.streams: the stream registered under a key
  skey,        \* the key a stream was created for
  loop,        \* where the streamLoop goroutine of a stream is
  reader,      \* RtmpStream.reader
  incoming,    \* the new reader a takeover holds while it waits
  writers,     \* RtmpStream.writers
  readerChan,  \* RtmpStream.readerChan, capacity 1
  writerChan,  \* RtmpStream.writerChan, capacity 1
  pktChan,     \* RtmpStream.pktChan, capacity PktCap
  cached,      \* the cache holds something Send would push
  phase,       \* how far a connection has come
  target,      \* the stream a connection was given by getOrCreate
  rgo,         \* where the startRead goroutine spawned for a publisher is
  rconn,       \* the connection that goroutine called Read on
  open,        \* the server has not closed the connection
  link,        \* the network under the connection
  unread,      \* messages received from a publisher and not yet read
  fresh,       \* Alive(): less than 10s since SetPreTime
  wstate,      \* StreamWriter: running, marked closed by its sender, closed
  late,        \* history: goroutines a takeover did not wait for
  crashed      \* an unrecovered panic or fatal error ended the process

streamVars == <<skey, loop, reader, incoming, writers, readerChan, writerChan,
                pktChan, cached>>
connVars == <<phase, target, open, link, unread, fresh, wstate>>
goVars == <<rgo, rconn, late>>
vars == <<streams, streamVars, connVars, goVars, crashed>>

\* "run": at the select.  "wait": blocked in wg.Wait.  "woken": the last Done
\* has released it.  "install": wg.Wait found the counter zero and returned.
\* "remove", "close", "drain": in the deferred function.
LoopStates == {"none", "run", "wait", "woken", "install",
               "remove", "close", "drain", "exited"}

\* "spawned": created, wg.Add(1) not yet run.  "loop": about to call Read.
\* "read": inside Read.  "got": Read returned a packet.
GoStates == {"none", "spawned", "loop", "read", "got", "done"}

\* The goroutines of stream s that wg counts, and all that still run.
Counted(s) == {c \in Publishers : target[c] = s /\ rgo[c] \in {"loop", "read", "got"}}
Running(s) == {c \in Publishers : target[c] = s /\ rgo[c] \in {"spawned", "loop", "read", "got"}}

\* Two goroutines are inside Read of one connection at once.
Racing(c) == \E d \in Publishers \ {c} : rgo[c] = "read" /\ rgo[d] = "read" /\ rconn[c] = rconn[d]

\* The connections of C after conn.Close() on each of them.
Closed(C) == [c \in Conns |-> open[c] /\ c \notin C]

\* The writers of W after Close() on each: one its sender has marked keeps its mark.
ClosedWriters(W) ==
  [w \in Players |-> IF w \in W /\ wstate[w] = "open" THEN "closed" ELSE wstate[w]]

Init ==
  /\ streams = [k \in Keys |-> Nil]
  /\ skey = [s \in StreamIds |-> Nil]
  /\ loop = [s \in StreamIds |-> "none"]
  /\ reader = [s \in StreamIds |-> Nil]
  /\ incoming = [s \in StreamIds |-> Nil]
  /\ writers = [s \in StreamIds |-> {}]
  /\ readerChan = [s \in StreamIds |-> Nil]
  /\ writerChan = [s \in StreamIds |-> Nil]
  /\ pktChan = [s \in StreamIds |-> <<>>]
  /\ cached = [s \in StreamIds |-> FALSE]
  /\ phase = [c \in Conns |-> "new"]
  /\ target = [c \in Conns |-> Nil]
  /\ rgo = [c \in Publishers |-> "none"]
  /\ rconn = [c \in Publishers |-> Nil]
  /\ open = [c \in Conns |-> TRUE]
  /\ link = [c \in Conns |-> "up"]
  /\ unread = [c \in Publishers |-> 0]
  /\ fresh = [c \in Conns |-> TRUE]
  /\ wstate = [c \in Players |-> "open"]
  /\ late = {}
  /\ crashed = FALSE

-----------------------------------------------------------------------------
(* Arrival of a connection that has finished its set-up *)

\* Mutant of getOrCreate: the lookup is missing.
getOrCreateBlind(k, s) ==
  /\ loop[s] = "none"
  /\ streams' = [streams EXCEPT ![k] = s]
  /\ skey' = [skey EXCEPT ![s] = k]
  /\ loop' = [loop EXCEPT ![s] = "run"]

\* StreamHandler.getOrCreate, under the mutex: the stream of key k is s.
getOrCreate(k, s) ==
  \/ /\ streams[k] = s
     /\ UNCHANGED <<streams, skey, loop>>
  \/ /\ streams[k] = Nil
     /\ loop[s] = "none"
     /\ streams' = [streams EXCEPT ![k] = s]
     /\ skey' = [skey EXCEPT ![s] = k]
     /\ loop' = [loop EXCEPT ![s] = "run"]

\* StreamHandler.HandleConnect: find or create the stream, wrap the connection
\* and start the goroutine that will hand it to the stream's loop.
HandleConnect(c, k, s) ==
  /\ ~crashed
  /\ phase[c] = "new"
  /\ getOrCreate(k, s)
  /\ target' = [target EXCEPT ![c] = s]
  /\ phase' = [phase EXCEPT ![c] = "adding"]
  /\ UNCHANGED <<reader, incoming, writers, readerChan, writerChan, pktChan, cached,
                 open, link, unread, fresh, wstate, goVars, crashed>>

\* The goroutine of AddReader: the send blocks while the channel is full.
SendReader(c) ==
  /\ ~crashed
  /\ phase[c] = "adding"
  /\ readerChan[target[c]] = Nil
  /\ readerChan' = [readerChan EXCEPT ![target[c]] = c]
  /\ phase' = [phase EXCEPT ![c] = "sent"]
  /\ UNCHANGED <<streams, skey, loop, reader, incoming, writers, writerChan, pktChan,
                 cached, target, open, link, unread, fresh, wstate, goVars, crashed>>

\* The goroutine of AddWriter.
SendWriter(c) ==
  /\ ~crashed
  /\ phase[c] = "adding"
  /\ writerChan[target[c]] = Nil
  /\ writerChan' = [writerChan EXCEPT ![target[c]] = c]
  /\ phase' = [phase EXCEPT ![c] = "sent"]
  /\ UNCHANGED <<streams, skey, loop, reader, incoming, writers, readerChan, pktChan,
                 cached, target, open, link, unread, fresh, wstate, goVars, crashed>>

-----------------------------------------------------------------------------
(* The cases of streamLoop's select *)

\* case pktChan: write the packet to every writer; one that is closed fails and
\* is closed and removed.
Deliver(s) ==
  LET failed == {w \in writers[s] : wstate[w] # "open"} IN
  /\ ~crashed
  /\ loop[s] = "run"
  /\ pktChan[s] # <<>>
  /\ pktChan' = [pktChan EXCEPT ![s] = Tail(@)]
  /\ writers' = [writers EXCEPT ![s] = @ \ failed]
  /\ open' = Closed(failed)
  /\ UNCHANGED <<streams, skey, loop, reader, incoming, readerChan, writerChan, cached,
                 phase, target, link, unread, fresh, wstate, goVars, crashed>>

\* case writerChan: send the cache to the writer's queue and keep the writer.
\* A queue that the writer's own Check goroutine has closed makes Send panic
\* outside any recover.
TakeWriter(s) ==
  LET w == writerChan[s] IN
  /\ ~crashed
  /\ loop[s] = "run"
  /\ w # Nil
  /\ \/ /\ cached[s] /\ wstate[w] = "closed"
        /\ crashed' = TRUE
        /\ UNCHANGED <<writers, writerChan>>
     \/ /\ ~(cached[s] /\ wstate[w] = "closed")
        /\ writerChan' = [writerChan EXCEPT ![s] = Nil]
        /\ writers' = [writers EXCEPT ![s] = @ \cup {w}]
        /\ UNCHANGED crashed
  /\ UNCHANGED <<streams, skey, loop, reader, incoming, readerChan, pktChan, cached,
                 connVars, goVars>>

\* case readerChan on a stream without a reader.
FirstReader(s) ==
  LET r == readerChan[s] IN
  /\ ~crashed
  /\ loop[s] = "run"
  /\ r # Nil
  /\ reader[s] = Nil
  /\ readerChan' = [readerChan EXCEPT ![s] = Nil]
  /\ reader' = [reader EXCEPT ![s] = r]
  /\ rgo' = [rgo EXCEPT ![r] = "spawned"]
  /\ UNCHANGED <<streams, skey, loop, incoming, writers, writerChan, pktChan, cached,
                 connVars, rconn, late, crashed>>

\* Mutant of Takeover: the old reader is forgotten and not closed.
TakeoverNoClose(s) ==
  /\ ~crashed
  /\ loop[s] = "run"
  /\ readerChan[s] # Nil
  /\ reader[s] # Nil
  /\ readerChan' = [readerChan EXCEPT ![s] = Nil]
  /\ incoming' = [incoming EXCEPT ![s] = readerChan[s]]
  /\ loop' = [loop EXCEPT ![s] = "install"]
  /\ UNCHANGED <<streams, skey, reader, writers, writerChan, pktChan, cached, connVars,
                 goVars, crashed>>

\* case readerChan on a stream that has a reader: close it and enter wg.Wait,
\* which returns at once when no goroutine has run its wg.Add yet.
Takeover(s) ==
  /\ ~crashed
  /\ loop[s] = "run"
  /\ readerChan[s] # Nil
  /\ reader[s] # Nil
  /\ readerChan' = [readerChan EXCEPT ![s] = Nil]
  /\ incoming' = [incoming EXCEPT ![s] = readerChan[s]]
  /\ open' = Closed({reader[s]})
  /\ loop' = [loop EXCEPT ![s] = IF Counted(s) = {} THEN "install" ELSE "wait"]
  /\ UNCHANGED <<streams, skey, reader, writers, writerChan, pktChan, cached,
                 phase, target, link, unread, fresh, wstate, goVars, crashed>>

\* Mutant of CleanLoop: pktChan is left as it is.
CleanLoopSkipped(s) == pktChan[s]

\* CleanLoop of that case: what is left of pktChan.
CleanLoop(s) == <<>>

\* The rest of that case, after wg.Wait: empty pktChan, install the new reader
\* and start its goroutine.  (CalcBaseTimestamp is in module StreamRelay.)
Install(s) ==
  /\ ~crashed
  /\ loop[s] \in {"install", "woken"}
  /\ pktChan' = [pktChan EXCEPT ![s] = CleanLoop(s)]
  /\ reader' = [reader EXCEPT ![s] = incoming[s]]
  /\ incoming' = [incoming EXCEPT ![s] = Nil]
  /\ rgo' = [rgo EXCEPT ![incoming[s]] = "spawned"]
  /\ late' = late \cup Running(s)
  /\ loop' = [loop EXCEPT ![s] = "run"]
  /\ UNCHANGED <<streams, skey, writers, readerChan, writerChan, cached, connVars,
                 rconn, crashed>>

\* Mutant of TickExit: only a missing reader ends the loop, not a dead one.
TickExitNilOnly(s) ==
  /\ ~crashed
  /\ loop[s] = "run"
  /\ reader[s] = Nil
  /\ loop' = [loop EXCEPT ![s] = "remove"]
  /\ UNCHANGED <<streams, skey, reader, incoming, writers, readerChan, writerChan,
                 pktChan, cached, connVars, goVars, crashed>>

\* case checkTicker, no live reader: leave the loop.
TickExit(s) ==
  /\ ~crashed
  /\ loop[s] = "run"
  /\ reader[s] # Nil => ~fresh[reader[s]]
  /\ loop' = [loop EXCEPT ![s] = "remove"]
  /\ UNCHANGED <<streams, skey, reader, incoming, writers, readerChan, writerChan,
                 pktChan, cached, connVars, goVars, crashed>>

\* Mutant of TickSweep: the writers are dropped and not closed.
TickSweepNoClose(s) ==
  /\ ~crashed
  /\ loop[s] = "run"
  /\ reader[s] # Nil /\ fresh[reader[s]]
  /\ writers' = [writers EXCEPT ![s] = {w \in @ : fresh[w]}]
  /\ UNCHANGED <<streams, skey, loop, reader, incoming, readerChan, writerChan, pktChan,
                 cached, connVars, goVars, crashed>>

\* case checkTicker, live reader: drop and close the writers that timed out.
TickSweep(s) ==
  LET stale == {w \in writers[s] : ~fresh[w]} IN
  /\ ~crashed
  /\ loop[s] = "run"
  /\ reader[s] # Nil /\ fresh[reader[s]]
  /\ writers' = [writers EXCEPT ![s] = @ \ stale]
  /\ open' = Closed(stale)
  /\ wstate' = ClosedWriters(stale)
  /\ UNCHANGED <<streams, skey, loop, reader, incoming, readerChan, writerChan, pktChan,
                 cached, phase, target, link, unread, fresh, goVars, crashed>>

-----------------------------------------------------------------------------
(* The deferred function of streamLoop *)

\* StreamHandler.remove, under the mutex: delete whatever the key names.
Remove(s) ==
  /\ ~crashed
  /\ loop[s] = "remove"
  /\ streams' = [streams EXCEPT ![skey[s]] = Nil]
  /\ loop' = [loop EXCEPT ![s] = "close"]
  /\ UNCHANGED <<skey, reader, incoming, writers, readerChan, writerChan, pktChan,
                 cached, connVars, goVars, crashed>>

\* RtmpStream.close, first statement: close the reader.
CloseReader(s) ==
  /\ ~crashed
  /\ loop[s] = "close"
  /\ loop' = [loop EXCEPT ![s] = "drain"]
  /\ open' = Closed({reader[s]})
  /\ UNCHANGED <<streams, skey, reader, incoming, writers, readerChan, writerChan,
                 pktChan, cached, phase, target, link, unread, fresh, wstate, goVars, crashed>>

\* CloseLoop of RtmpStream.close: close a writer that was never taken.
DrainWriter(s) ==
  /\ ~crashed
  /\ loop[s] = "drain"
  /\ writerChan[s] # Nil
  /\ writerChan' = [writerChan EXCEPT ![s] = Nil]
  /\ open' = Closed({writerChan[s]})
  /\ wstate' = ClosedWriters({writerChan[s]})
  /\ UNCHANGED <<streams, skey, loop, reader, incoming, writers, readerChan, pktChan,
                 cached, phase, target, link, unread, fresh, goVars, crashed>>

\* CloseLoop: close a reader that was never taken.
DrainReader(s) ==
  /\ ~crashed
  /\ loop[s] = "drain"
  /\ readerChan[s] # Nil
  /\ readerChan' = [readerChan EXCEPT ![s] = Nil]
  /\ open' = Closed({readerChan[s]})
  /\ UNCHANGED <<streams, skey, loop, reader, incoming, writers, writerChan, pktChan,
                 cached, phase, target, link, unread, fresh, wstate, goVars, crashed>>

\* CloseLoop finds both channels empty; the writers are closed, the loop is gone.
DrainDone(s) ==
  /\ ~crashed
  /\ loop[s] = "drain"
  /\ writerChan[s] = Nil /\ readerChan[s] = Nil
  /\ open' = Closed(writers[s])
  /\ wstate' = ClosedWriters(writers[s])
  /\ loop' = [loop EXCEPT ![s] = "exited"]
  /\ UNCHANGED <<streams, skey, reader, incoming, writers, readerChan, writerChan,
                 pktChan, cached, phase, target, link, unread, fresh, goVars, crashed>>

-----------------------------------------------------------------------------
(* startRead: the goroutine spawned when publisher c became the reader *)

\* wg.Add(1).  An Add that comes after the last Done but before the waiter has
\* looked again makes the waiter panic ("WaitGroup is reused").
StartRead(c) ==
  /\ ~crashed
  /\ rgo[c] = "spawned"
  /\ rgo' = [rgo EXCEPT ![c] = "loop"]
  /\ \/ UNCHANGED crashed
     \/ loop[target[c]] = "woken" /\ crashed' = TRUE
  /\ UNCHANGED <<streams, streamVars, connVars, rconn, late>>

\* s.reader.Read: the field is read anew on every iteration; Read begins with
\* SetPreTime.
CallRead(c) ==
  /\ ~crashed
  /\ rgo[c] = "loop"
  /\ rgo' = [rgo EXCEPT ![c] = "read"]
  /\ rconn' = [rconn EXCEPT ![c] = reader[target[c]]]
  /\ fresh' = [fresh EXCEPT ![reader[target[c]]] = TRUE]
  /\ UNCHANGED <<streams, streamVars, phase, target, open, link, unread, wstate, late, crashed>>

\* Read returns a packet; what was buffered is returned even after Close.
ReadPacket(c) ==
  /\ ~crashed
  /\ rgo[c] = "read"
  /\ unread[rconn[c]] > 0
  /\ unread' = [unread EXCEPT ![rconn[c]] = @ - 1]
  /\ rgo' = [rgo EXCEPT ![c] = "got"]
  /\ UNCHANGED <<streams, streamVars, phase, target, open, link, fresh, wstate, rconn,
                 late, crashed>>

\* Mutants of TrySend: a send that ignores the capacity, and one that blocks
\* (no value satisfies the guard of Forward while the channel is full).
TrySendUnbounded(q, p) == {Append(q, p)}
TrySendBlocking(q, p) == {r \in {Append(q, p)} : Len(r) <= PktCap}

\* select with default: what channel q may be after the non-blocking send of p.
TrySend(q, p) == {IF Len(q) < PktCap THEN Append(q, p) ELSE q}

\* cache.Write, which keeps the packet or not, and the non-blocking push.
Forward(c) ==
  LET s == target[c] IN
  /\ ~crashed
  /\ rgo[c] = "got"
  /\ rgo' = [rgo EXCEPT ![c] = "loop"]
  /\ \/ UNCHANGED cached
     \/ cached' = [cached EXCEPT ![s] = TRUE]
  /\ \E q \in TrySend(pktChan[s], rconn[c]) : pktChan' = [pktChan EXCEPT ![s] = q]
  /\ rconn' = [rconn EXCEPT ![c] = Nil]
  /\ UNCHANGED <<streams, skey, loop, reader, incoming, writers, readerChan, writerChan,
                 connVars, late, crashed>>

\* Read fails: the connection is closed or reset, or a second goroutine has taken
\* part of its bytes.  The deferred Done releases the waiter when it is the last.
ReadErr(c) ==
  LET s == target[c] IN
  /\ ~crashed
  /\ rgo[c] = "read"
  /\ ~open[rconn[c]] \/ link[rconn[c]] = "reset" \/ Racing(c)
  /\ rgo' = [rgo EXCEPT ![c] = "done"]
  /\ rconn' = [rconn EXCEPT ![c] = Nil]
  /\ loop' = [loop EXCEPT ![s] = IF @ = "wait" /\ Counted(s) = {c} THEN "woken" ELSE @]
  /\ UNCHANGED <<streams, skey, reader, incoming, writers, readerChan, writerChan,
                 pktChan, cached, connVars, late, crashed>>

\* Two goroutines in Read write RtmpConn's chunk map at once: a fatal error.
ReadRace(c) ==
  /\ ~crashed
  /\ Racing(c)
  /\ crashed' = TRUE
  /\ UNCHANGED <<streams, streamVars, connVars, goVars>>

-----------------------------------------------------------------------------
(* The goroutines of a player's StreamWriter, and the outside world *)

\* SendPacket sends a packet: SetPreTime.
SendPacket(p) ==
  /\ ~crashed
  /\ phase[p] # "new" /\ wstate[p] = "open" /\ open[p] /\ link[p] = "up"
  /\ fresh' = [fresh EXCEPT ![p] = TRUE]
  /\ UNCHANGED <<streams, streamVars, phase, target, open, link, unread, wstate, goVars, crashed>>

\* SendPacket's Write fails: the writer is marked closed and the sender returns.
SendFails(p) ==
  /\ ~crashed
  /\ phase[p] # "new" /\ wstate[p] = "open"
  /\ link[p] = "reset"
  /\ wstate' = [wstate EXCEPT ![p] = "failed"]
  /\ UNCHANGED <<streams, streamVars, phase, target, open, link, unread, fresh, goVars, crashed>>

\* Check's Read fails: Close().
CheckFails(p) ==
  /\ ~crashed
  /\ phase[p] # "new"
  /\ open[p] /\ link[p] = "reset"
  /\ open' = Closed({p})
  /\ wstate' = ClosedWriters({p})
  /\ UNCHANGED <<streams, streamVars, phase, target, link, unread, fresh, goVars, crashed>>

\* External: the publisher sends a media message.
PeerSends(c) ==
  /\ ~crashed
  /\ phase[c] # "new" /\ open[c] /\ link[c] = "up"
  /\ unread[c] < MaxUnread
  /\ unread' = [unread EXCEPT ![c] = @ + 1]
  /\ UNCHANGED <<streams, streamVars, phase, target, open, link, fresh, wstate, goVars, crashed>>

\* External: the peer disconnects, or falls silent without a word.
LinkFails(c) ==
  /\ ~crashed
  /\ phase[c] # "new" /\ open[c] /\ link[c] # "reset"
  /\ \E how \in {"reset", "stalled"} \ {link[c]} : link' = [link EXCEPT ![c] = how]
  /\ UNCHANGED <<streams, streamVars, phase, target, open, unread, fresh, wstate, goVars, crashed>>

\* External: 10 s pass without SetPreTime.
Expire(c) ==
  /\ ~crashed
  /\ phase[c] # "new" /\ open[c] /\ fresh[c]
  /\ fresh' = [fresh EXCEPT ![c] = FALSE]
  /\ UNCHANGED <<streams, streamVars, phase, target, open, link, unread, wstate, goVars, crashed>>

-----------------------------------------------------------------------------
Tick(s) == TickExit(s) \/ TickSweep(s)

LoopStep(s) ==
  \/ Deliver(s) \/ TakeWriter(s) \/ FirstReader(s) \/ Takeover(s) \/ Install(s) \/ Tick(s)
  \/ Remove(s) \/ CloseReader(s) \/ DrainWriter(s) \/ DrainReader(s) \/ DrainDone(s)

ReadStep(c) == StartRead(c) \/ CallRead(c) \/ ReadPacket(c) \/ Forward(c) \/ ReadErr(c)

Next ==
  \/ \E c \in Conns, k \in Keys, s \in StreamIds : HandleConnect(c, k, s)
  \/ \E c \in Publishers : SendReader(c) \/ ReadStep(c) \/ ReadRace(c) \/ PeerSends(c)
  \/ \E p \in Players : SendWriter(p) \/ SendPacket(p) \/ SendFails(p) \/ CheckFails(p)
  \/ \E s \in StreamIds : LoopStep(s)
  \/ \E c \in Conns : LinkFails(c) \/ Expire(c)

Spec == Init /\ [][Next]_vars

(***************************************************************************)
(* Fairness.  Go runs every runnable goroutine and its select picks among  *)
(* the ready cases at random, so a case that stays ready is taken; the     *)
(* ticker fires every 30 s.  Time passes for a connection whose network    *)
(* has failed.  Nothing is assumed of peers, of arrivals or of the time    *)
(* between two messages of a healthy connection.                           *)
(***************************************************************************)
LoopFairness(s) ==
  /\ WF_vars(Install(s))
  /\ WF_vars(Tick(s))
  /\ WF_vars(Remove(s) \/ CloseReader(s) \/ DrainWriter(s) \/ DrainReader(s) \/ DrainDone(s))

Fairness ==
  /\ \A s \in StreamIds : LoopFairness(s)
  /\ \A c \in Publishers : WF_vars(ReadStep(c))
  /\ \A c \in Conns : WF_vars(link[c] # "up" /\ Expire(c))

FairSpec == Spec /\ Fairness

-----------------------------------------------------------------------------
(* Properties *)

\* Every variable keeps its type; the channels stay within their capacity.
TypeOK ==
  /\ streams \in [Keys -> StreamIds \cup {Nil}]
  /\ skey \in [StreamIds -> Keys \cup {Nil}]
  /\ loop \in [StreamIds -> LoopStates]
  /\ reader \in [StreamIds -> Publishers \cup {Nil}]
  /\ incoming \in [StreamIds -> Publishers \cup {Nil}]
  /\ writers \in [StreamIds -> SUBSET Players]
  /\ readerChan \in [StreamIds -> Publishers \cup {Nil}]
  /\ writerChan \in [StreamIds -> Players \cup {Nil}]
  /\ pktChan \in [StreamIds -> Seq(Publishers)]
  /\ \A s \in StreamIds : Len(pktChan[s]) <= PktCap
  /\ cached \in [StreamIds -> BOOLEAN]
  /\ phase \in [Conns -> {"new", "adding", "sent"}]
  /\ target \in [Conns -> StreamIds \cup {Nil}]
  /\ rgo \in [Publishers -> GoStates]
  /\ rconn \in [Publishers -> Publishers \cup {Nil}]
  /\ open \in [Conns -> BOOLEAN]
  /\ link \in [Conns -> {"up", "stalled", "reset"}]
  /\ unread \in [Publishers -> 0..MaxUnread]
  /\ fresh \in [Conns -> BOOLEAN]
  /\ wstate \in [Players -> {"open", "failed", "closed"}]
  /\ late \in SUBSET Publishers
  /\ crashed \in BOOLEAN

\* The states in which a stream's loop has not yet called handler.remove.
Registered == {"run", "wait", "woken", "install", "remove"}

\* The registry and the running loops agree: a loop that has not removed itself
\* is the one its key leads to, so remove, which deletes by key alone, never
\* evicts another stream, and two loops never serve one key.
MapConsistent ==
  /\ \A s \in StreamIds : loop[s] \in Registered => skey[s] # Nil /\ streams[skey[s]] = s
  /\ \A k \in Keys : streams[k] # Nil => skey[streams[k]] = k /\ loop[streams[k]] \in Registered

\* Where connection c is in its stream's hands, once AddReader or AddWriter has handed
\* it over.  What waits in a channel counts, also when the loop that would take it out
\* has exited: that such a connection is left there is what NoOrphan is about.
Owned(c) ==
  LET s == target[c] IN
  \/ c \in Publishers /\ (readerChan[s] = c \/ incoming[s] = c)
  \/ c \in Publishers /\ reader[s] = c /\ loop[s] \in {"run", "remove", "close"}
  \/ c \in Players /\ writerChan[s] = c
  \/ c \in Players /\ c \in writers[s] /\ loop[s] # "exited"

\* No leak: a connection handed to a stream stays in one of its channels, is its
\* reader or one of its writers, or has been closed: a takeover, a sweep, a
\* failed write and the exit drop nobody without closing the connection.
NoLeak == \A c \in Conns : phase[c] = "sent" /\ open[c] => Owned(c)

\* No takeover has left a goroutine of s behind.
NoLate(s) == \A c \in late : target[c] # s

\* After a takeover the stream carries the new publisher only: pktChan holds
\* packets of the present reader, unless a takeover left a startRead goroutine
\* behind (which it does only to one that had not run wg.Add).
TakeoverClean ==
  \A s \in StreamIds :
    NoLate(s) => \A i \in DOMAIN pktChan[s] : pktChan[s][i] = reader[s]

\* What the loop's comments say of a takeover: it waits until the reading
\* goroutine has ended and then empties pktChan, so that pktChan holds packets
\* of the present reader only.
OnlyReaderPackets ==
  \A s \in StreamIds : \A i \in DOMAIN pktChan[s] : pktChan[s][i] = reader[s]

\* What the comment of RtmpStream.close says: readers and writers that the loop
\* has not processed are taken out of the channels and closed.
NoOrphan ==
  \A s \in StreamIds, c \in Conns :
    loop[s] = "exited" /\ c \in {readerChan[s], writerChan[s]} => ~open[c]

\* No publisher that could still send.
Abandoned(s) == reader[s] = Nil \/ link[reader[s]] # "up"

\* A stream without publisher, or whose publisher's network has failed, is given
\* up: its loop exits and unregisters, unless another publisher takes it over.
StreamReclaimed ==
  \A s \in StreamIds :
    loop[s] = "run" /\ Abandoned(s)
      ~> loop[s] = "exited" \/ (loop[s] = "run" /\ ~Abandoned(s)) \/ crashed

\* A takeover ends: closing the old reader makes its goroutines return, so wg.Wait
\* in the event loop does not block the stream for ever.
TakeoverCompletes ==
  \A s \in StreamIds : loop[s] = "wait" ~> loop[s] = "run" \/ crashed

\* A player of a stream whose network has failed, silently or not, is
\* disconnected by the sweep, by its own Check, or with the stream.
DeadPlayerClosed ==
  \A p \in Players, s \in StreamIds :
    p \in writers[s] /\ link[p] # "up" ~> ~open[p] \/ crashed

-----------------------------------------------------------------------------
(* The strengthening the proofs of module RtmpStreamProofs rest on *)

\* A publisher waiting in readerChan[s] or in a takeover of s was sent to s and
\* has no goroutine yet; it waits in one place.
WaitingReaders ==
  \A s \in StreamIds :
    /\ \A c \in {readerChan[s], incoming[s]} \ {Nil} :
         phase[c] = "sent" /\ target[c] = s /\ rgo[c] = "none"
    /\ readerChan[s] # Nil => readerChan[s] # incoming[s]
    /\ loop[s] \in {"wait", "woken", "install"} <=> incoming[s] # Nil

\* Once handed over, a connection has its stream; a player in writerChan or in
\* writers belongs there.
Placed ==
  /\ \A c \in Conns : phase[c] # "new" => target[c] \in StreamIds
  /\ \A s \in StreamIds : \A w \in writers[s] \cup ({writerChan[s]} \ {Nil}) :
       phase[w] = "sent" /\ target[w] = s

\* A reader has been given its goroutine; a goroutine runs on a stream that has
\* a reader, and inside Read or after it knows its connection; a takeover leaves
\* nobody behind but goroutines.
Goroutines ==
  /\ \A s \in StreamIds :
       reader[s] # Nil => target[reader[s]] = s /\ rgo[reader[s]] # "none"
  /\ \A c \in Publishers :
       rgo[c] # "none" => /\ phase[c] = "sent"
                          /\ reader[target[c]] # Nil
                          /\ rgo[c] \in {"read", "got"} => rconn[c] \in Publishers
  /\ \A c \in late : rgo[c] # "none"

\* Then the only goroutine of s is that of its reader, and it reads its reader.
ReaderAlone ==
  \A c \in Publishers :
    rgo[c] \in {"spawned", "loop", "read", "got"} /\ NoLate(target[c])
      => /\ reader[target[c]] = c
         /\ rgo[c] \in {"read", "got"} => rconn[c] = c

Links == WaitingReaders /\ Placed /\ Goroutines
=============================================================================
