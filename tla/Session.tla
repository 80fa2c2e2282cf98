------------------------------ MODULE Session ------------------------------
(***************************************************************************)
(* From a TCP connection to a publisher or a player: the handshake and the *)
(* commands connect, createStream, publish and play, between ConnClient    *)
(* (client) and ForwardConnect (server), and what RtmpClient does then.    *)
(*                                                                         *)
(* One connection.  Either end may be another RTMP program (external).     *)
(* The wire in each direction is a sequence of messages; a message is      *)
(* written to the wire when it is flushed.  The protocol messages that     *)
(* RtmpConn.Read handles itself (chunk and window sizes, user control) are *)
(* left out.  A command has its transaction id and one argument.           *)
(***************************************************************************)
EXTENDS Naturals, Sequences, FiniteSets, SequencesExt

CONSTANTS
  Ends,         \* pairs <<client, server>> of "own" and "peer"
  Apps, Names,  \* applications and streams a client may ask for
  Packets,      \* kinds of packet given to SendPacket, of KnownPackets
  Unsolicited,  \* what a peer server may send besides answers
  MaxSent,      \* bound: messages of a peer client
  MaxReplies,   \* bound: messages of a peer server
  MaxPackets,   \* bound: calls of SendPacket
  MaxUnread     \* bound: unread messages when a server sends media

KnownPackets == {"h264", "h264sps", "jpeg", "aac", "g711"}
KnownUnsolicited == {"shared", "onBWDone", "media", "aggregate"}

ASSUME SessionAssumption ==
  /\ Ends \subseteq {"own", "peer"} \X {"own", "peer"}
  /\ "none" \notin Apps \cup Names
  /\ Packets \subseteq KnownPackets /\ Unsolicited \subseteq KnownUnsolicited
  /\ {MaxSent, MaxReplies, MaxPackets, MaxUnread} \subseteq Nat

VARIABLES
  ends,        \* who the client and the server are
  url,         \* what the own client is to open
  grants,      \* the commands a peer server grants
  net,         \* the network is up, stalled (nothing arrives, nobody is told) or down
  copen,       \* the client has not closed its socket
  sopen,       \* the server has not closed its socket
  c2s, s2c,    \* on the wire
  cpc,         \* where the client is
  curCommand, transID, streamid,
  cbuf,        \* written by the client and not flushed
  cbroken,     \* a flush has failed: so will every later one
  videoFirst, audioFirst,
  onClosed,    \* calls of onClosed
  packets,     \* calls of SendPacket
  spc,         \* where handleConn is
  fc,          \* ForwardConnect: transactionID, app, name, isPublisher
  sent,        \* history: everything the client has sent
  replies,     \* messages a peer server has sent
  fault        \* history: the network failed or a deadline passed

wireVars == <<net, copen, sopen, c2s, s2c>>
dialogueVars == <<cpc, curCommand, transID, streamid, cbuf, cbroken>>
appVars == <<videoFirst, audioFirst, onClosed, packets>>
serverVars == <<spc, fc>>
fixedVars == <<ends, url, grants>>
vars == <<fixedVars, wireVars, dialogueVars, appVars, serverVars, sent, replies, fault>>

Own == <<"own", "own">>
OwnClient == ends[1] = "own"
OwnServer == ends[2] = "own"

StreamID == 1       \* NewForwardConnect
Commands == {"connect", "createStream", "publish", "play"}

Msg(t, id, arg) == [t |-> t, id |-> id, arg |-> arg]

\* A Read gets the next message, or fails; a Flush works, or may fail.  When the network
\* is stalled a Read waits, for the end of the other side too, and a Flush leaves the
\* message with the kernel: after the handshake no connection has a deadline.
CanRead(q, me) == q # <<>> /\ me /\ net # "stalled"
ReadFails(q, me, other) == net = "down" \/ ~me \/ (q = <<>> /\ ~other /\ net = "up")
CanWrite(me) == net # "down" /\ me
WriteMayFail(me, other) == net = "down" \/ ~me \/ ~other

Send(ms) == c2s' = c2s \o ms /\ sent' = sent \o ms

Init ==
  /\ ends \in Ends
  /\ url \in IF OwnClient THEN [app : Apps, title : Names, method : {"publish", "play"}]
            ELSE {[app |-> "none", title |-> "none", method |-> "none"]}
  /\ grants \in IF OwnServer THEN {Commands} ELSE SUBSET Commands
  /\ net = "up" /\ copen = FALSE /\ sopen = FALSE
  /\ c2s = <<>> /\ s2c = <<>>
  /\ cpc = "dial" /\ curCommand = "connect" /\ transID = 1 /\ streamid = 0
  /\ cbuf = <<>> /\ cbroken = FALSE
  /\ videoFirst = TRUE /\ audioFirst = TRUE /\ onClosed = 0 /\ packets = 0
  /\ spc = "idle"
  /\ fc = [transactionID |-> 0, app |-> "none", name |-> "none", isPublisher |-> FALSE]
  /\ sent = <<>> /\ replies = 0 /\ fault = FALSE

-----------------------------------------------------------------------------
(* The client: ConnClient *)

\* Serve accepts a connection and starts handleConn.
Accept ==
  /\ copen' = TRUE /\ sopen' = TRUE
  /\ spc' = IF OwnServer THEN "c0c1" ELSE "peer"
  /\ UNCHANGED <<net, s2c, fc>>

\* connectServer: dial, and the first half of HandshakeClient.  A dial that fails
\* ends Start before there is a connection.
Dial ==
  /\ OwnClient /\ cpc = "dial"
  /\ Accept
  /\ Send(<<Msg("C0C1", 0, "zero")>>)
  /\ cpc' = "handshake"
  /\ UNCHANGED <<fixedVars, curCommand, transID, streamid, cbuf, cbroken, appVars, replies, fault>>

\* HandshakeClient's second half: C2 is written and not flushed.
ReadS0S1S2 ==
  /\ cpc = "handshake" /\ CanRead(s2c, copen)
  /\ s2c' = Tail(s2c)
  /\ cbuf' = <<Msg("C2", 0, "echo")>>
  /\ cpc' = "command"
  /\ UNCHANGED <<fixedVars, net, copen, sopen, c2s, curCommand, transID, streamid, cbroken,
                 appVars, serverVars, sent, replies, fault>>

\* HandshakeClient fails, at its deadline or before: connectServer closes.
HandshakeClientFails ==
  /\ cpc = "handshake"
  /\ fault' = (fault \/ ~ReadFails(s2c, copen, sopen))
  /\ cpc' = "failed" /\ copen' = FALSE
  /\ UNCHANGED <<fixedVars, net, sopen, c2s, s2c, curCommand, transID, streamid, cbuf, cbroken,
                 appVars, serverVars, sent, replies>>

\* Mutant of NextTransID: the id is counted on twice.
NextTransIDTwice == IF curCommand = "connect" THEN transID ELSE transID + 2

\* The id a command takes: every one but connect counts on.
NextTransID == IF curCommand = "connect" THEN transID ELSE transID + 1

\* The command as it is sent; play has id 0.
Command ==
  CASE curCommand = "connect" -> Msg("connect", transID, url.app)
    [] curCommand = "createStream" -> Msg("createStream", NextTransID, "none")
    [] curCommand = "publish" -> Msg("publish", NextTransID, url.title)
    [] curCommand = "play" -> Msg("play", 0, url.title)

\* One turn of Start's loop: write and flush the command.
WriteCommand ==
  /\ cpc = "command"
  /\ transID' = NextTransID
  /\ \/ /\ CanWrite(copen)
        /\ Send(cbuf \o <<Command>>)
        /\ cbuf' = <<>>
        /\ cpc' = "wait"
        /\ UNCHANGED cbroken
     \/ /\ WriteMayFail(copen, sopen)
        /\ cpc' = "failed" /\ cbroken' = TRUE
        /\ UNCHANGED <<c2s, sent, cbuf>>
  /\ UNCHANGED <<fixedVars, net, copen, sopen, s2c, curCommand, streamid, appVars, serverVars,
                 replies, fault>>

\* Mutant of Accepts: the transaction id is not looked at.
AcceptsAnyID(m) ==
  CASE curCommand = "connect" -> m.t = "_result" /\ m.arg = "Connect.Success"
    [] curCommand = "createStream" -> m.t = "_result"
    [] curCommand = "play" -> m.t = "onStatus" /\ m.arg \in {"Play.Start", "Play.Reset"}
    [] curCommand = "publish" -> m.t = "onStatus" /\ m.arg = "Publish.Start"

\* waitForResponse: command message m is the answer to the command sent.
Accepts(m) ==
  CASE curCommand = "connect" -> m.t = "_result" /\ m.id = transID /\ m.arg = "Connect.Success"
    [] curCommand = "createStream" -> m.t = "_result" /\ m.id = transID
    [] curCommand = "play" -> m.t = "onStatus" /\ m.arg \in {"Play.Start", "Play.Reset"}
    [] curCommand = "publish" -> m.t = "onStatus" /\ m.arg = "Publish.Start"

\* waitForResponse: what message m makes of the wait.  Messages of another type
\* than those named leave the switch and end the wait.
waitForResponse(m) ==
  CASE m.t = "shared" -> "again"
    [] m.t = "media" -> "failed"
    [] m.t \in {"_result", "_error", "onStatus", "onBWDone"} -> IF Accepts(m) THEN "next" ELSE "failed"
    [] OTHER -> "next"

\* Start: the command after curCommand.
NextCommand ==
  CASE curCommand = "connect" -> "createStream"
    [] curCommand = "createStream" -> url.method
    [] OTHER -> curCommand

\* Start reads a message and goes on, or returns.  A failure leaves the connection
\* open: the caller closes it.
ReadResponse ==
  LET m == Head(s2c)
      r == waitForResponse(m) IN
  /\ cpc = "wait" /\ CanRead(s2c, copen)
  /\ s2c' = Tail(s2c)
  /\ streamid' = IF curCommand = "createStream" /\ m.arg = "stream" THEN StreamID ELSE streamid
  /\ cpc' = CASE r = "again" -> "wait"
              [] r = "failed" -> "failed"
              [] r = "next" /\ curCommand \in {"publish", "play"} -> "open"
              [] OTHER -> "command"
  /\ curCommand' = IF r = "next" THEN NextCommand ELSE curCommand
  /\ UNCHANGED <<fixedVars, net, copen, sopen, c2s, transID, cbuf, cbroken, appVars, serverVars,
                 sent, replies, fault>>

ReadResponseFails ==
  /\ cpc = "wait" /\ ReadFails(s2c, copen, sopen)
  /\ cpc' = "failed"
  /\ UNCHANGED <<fixedVars, wireVars, curCommand, transID, streamid, cbuf, cbroken, appVars,
                 serverVars, sent, replies, fault>>

-----------------------------------------------------------------------------
(* The client: RtmpClient, once Start has returned *)

\* Mutant of Batch: the first packet is sent though it has no parameter sets.
BatchEager(p) ==
  CASE p = "h264sps" /\ videoFirst -> <<"vseq", "h264">>
    [] p = "h264sps" -> <<"h264">>
    [] p = "aac" /\ audioFirst -> <<"aseq", "aac">>
    [] OTHER -> <<p>>

\* What SendPacket sends for packet p: a sequence header first, once; nothing as long
\* as no packet of H.264 has had the parameter sets.
Batch(p) ==
  CASE p = "h264sps" /\ videoFirst -> <<"vseq", "h264">>
    [] p = "h264sps" /\ ~videoFirst -> <<"h264">>
    [] p = "h264" /\ videoFirst -> <<>>
    [] p = "aac" /\ audioFirst -> <<"aseq", "aac">>
    [] OTHER -> <<p>>

\* SendPacket: each part is written and flushed; the first n are, when a flush fails.
SendPacket(p) ==
  LET b == Batch(p) IN
  /\ OwnClient /\ cpc = "open" /\ url.method = "publish"
  /\ packets < MaxPackets /\ packets' = packets + 1
  /\ \E n \in 0..Len(b) :
       /\ n > 0 => CanWrite(copen) /\ ~cbroken
       /\ n < Len(b) => WriteMayFail(copen, sopen) \/ cbroken
       /\ Send([i \in 1..n |-> Msg("data", 0, b[i])])
       /\ cbroken' = (cbroken \/ n < Len(b))
       /\ videoFirst' = (videoFirst /\ ~(n > 0 /\ b[1] = "vseq"))
       /\ audioFirst' = (audioFirst /\ ~(n > 0 /\ b[1] = "aseq"))
  /\ UNCHANGED <<fixedVars, net, copen, sopen, s2c, cpc, curCommand, transID, streamid, cbuf,
                 onClosed, serverVars, replies, fault>>

\* streamPlayProc reads on, whatever it gets.
PlayProc ==
  /\ OwnClient /\ cpc = "open" /\ url.method = "play"
  /\ CanRead(s2c, copen)
  /\ s2c' = Tail(s2c)
  /\ UNCHANGED <<fixedVars, net, copen, sopen, c2s, dialogueVars, appVars, serverVars, sent,
                 replies, fault>>

\* Mutant of CloseClient: onClosed is not called.
CloseClientQuiet == copen' = FALSE /\ onClosed' = onClosed

\* RtmpClient.Close; onClosed is set once OpenPlay has succeeded.
CloseClient ==
  /\ copen' = FALSE
  /\ onClosed' = IF cpc = "open" /\ url.method = "play" THEN onClosed + 1 ELSE onClosed

\* streamPlayProc ends with Close.
PlayProcEnds ==
  /\ OwnClient /\ cpc = "open" /\ url.method = "play"
  /\ ReadFails(s2c, copen, sopen)
  /\ CloseClient
  /\ cpc' = "closed"
  /\ UNCHANGED <<fixedVars, net, sopen, c2s, s2c, curCommand, transID, streamid, cbuf, cbroken,
                 videoFirst, audioFirst, packets, serverVars, sent, replies, fault>>

\* The application closes the client, open or failed.
AppClose ==
  /\ OwnClient /\ cpc \in {"open", "failed"} /\ copen
  /\ CloseClient
  /\ UNCHANGED <<fixedVars, net, sopen, c2s, s2c, dialogueVars, videoFirst, audioFirst, packets,
                 serverVars, sent, replies, fault>>

-----------------------------------------------------------------------------
(* The server: handleConn *)

\* Mutant of HandleConnFails: the connection is not closed.
HandleConnFailsOpen == spc' = "closed" /\ sopen' = sopen

\* handleConn returns an error: its deferred function closes the connection.
HandleConnFails == spc' = "closed" /\ sopen' = FALSE

\* HandshakeServer: C0C1 must have version 3 and, unless its version is zero, a digest.
ReadC0C1 ==
  LET ok == Head(c2s).arg \in {"zero", "signed"} IN
  /\ spc = "c0c1" /\ CanRead(c2s, sopen)
  /\ c2s' = Tail(c2s)
  /\ \/ /\ ok /\ CanWrite(sopen)
        /\ s2c' = Append(s2c, Msg("S0S1S2", 0, "none"))
        /\ spc' = "c2"
        /\ UNCHANGED sopen
     \/ /\ ~ok \/ WriteMayFail(sopen, copen)
        /\ HandleConnFails
        /\ UNCHANGED s2c
  /\ UNCHANGED <<fixedVars, net, copen, dialogueVars, appVars, fc, sent, replies, fault>>

ReadC2 ==
  /\ spc = "c2" /\ CanRead(c2s, sopen)
  /\ c2s' = Tail(c2s)
  /\ spc' = "setup"
  /\ UNCHANGED <<fixedVars, net, copen, sopen, s2c, dialogueVars, appVars, fc, sent, replies, fault>>

\* The deadline of the handshake passes.
HandshakeServerTimeout ==
  /\ spc \in {"c0c1", "c2"}
  /\ fault' = TRUE
  /\ HandleConnFails
  /\ UNCHANGED <<fixedVars, net, copen, c2s, s2c, dialogueVars, appVars, fc, sent, replies>>

\* Mutant of TakeCommand: createStream keeps the transaction id of connect.
TakeCommandStaleID(m) ==
  CASE m.t = "connect" -> [fc EXCEPT !.transactionID = m.id, !.app = m.arg]
    [] m.t = "publish" -> [fc EXCEPT !.transactionID = m.id, !.name = m.arg, !.isPublisher = TRUE]
    [] m.t = "play" -> [fc EXCEPT !.transactionID = m.id, !.name = m.arg, !.isPublisher = FALSE]
    [] OTHER -> fc

\* Mutant of TakeCommand: only the first connect is taken.
TakeCommandFirstApp(m) ==
  CASE m.t = "connect" ->
         [fc EXCEPT !.transactionID = m.id, !.app = IF fc.app = "none" THEN m.arg ELSE fc.app]
    [] m.t = "createStream" -> [fc EXCEPT !.transactionID = m.id]
    [] m.t = "publish" -> [fc EXCEPT !.transactionID = m.id, !.name = m.arg, !.isPublisher = TRUE]
    [] m.t = "play" -> [fc EXCEPT !.transactionID = m.id, !.name = m.arg, !.isPublisher = FALSE]
    [] OTHER -> fc

\* connect, createStream, publishOrPlay: what is kept of command m.
TakeCommand(m) ==
  CASE m.t = "connect" -> [fc EXCEPT !.transactionID = m.id, !.app = m.arg]
    [] m.t = "createStream" -> [fc EXCEPT !.transactionID = m.id]
    [] m.t = "publish" -> [fc EXCEPT !.transactionID = m.id, !.name = m.arg, !.isPublisher = TRUE]
    [] m.t = "play" -> [fc EXCEPT !.transactionID = m.id, !.name = m.arg, !.isPublisher = FALSE]
    [] OTHER -> fc

Status(code) == Msg("onStatus", 0, code)

\* connectResp, createStreamResp, publishResp, playResp: the answer to m, with id.
Respond(m, id) ==
  CASE m.t = "connect" -> <<Msg("_result", id, "Connect.Success")>>
    [] m.t = "createStream" -> <<Msg("_result", id, "stream")>>
    [] m.t = "publish" -> <<Status("Publish.Start")>>
    [] m.t = "play" -> <<Status("Play.Reset"), Status("Play.Start"), Status("Data.Start"),
                         Status("Play.PublishNotify")>>
    [] OTHER -> <<>>

\* A turn of SetUpPlayOrPublish; releaseStream, FCPublish, unknown commands and
\* messages of other types are passed over.  Each part of an answer is flushed: the
\* first n have gone when a flush fails, and isPublisher is not set then.
SetUpPlayOrPublish ==
  LET m == Head(c2s)
      ok == ~(m.t = "connect" /\ m.id # 1)
      f == TakeCommand(m)
      answer == Respond(m, f.transactionID) IN
  /\ spc = "setup" /\ CanRead(c2s, sopen)
  /\ c2s' = Tail(c2s)
  /\ \/ /\ ok /\ (m.t \in Commands => CanWrite(sopen))
        /\ s2c' = s2c \o answer
        /\ fc' = f
        /\ spc' = IF m.t \in {"publish", "play"} THEN "handle" ELSE "setup"
        /\ UNCHANGED sopen
     \/ /\ ok /\ m.t \in Commands /\ WriteMayFail(sopen, copen)
        /\ \E n \in 0..(Len(answer) - 1) :
             /\ n > 0 => CanWrite(sopen)
             /\ s2c' = s2c \o SubSeq(answer, 1, n)
        /\ fc' = [f EXCEPT !.isPublisher = fc.isPublisher]
        /\ HandleConnFails
     \/ /\ ~ok
        /\ HandleConnFails
        /\ UNCHANGED <<s2c, fc>>
  /\ UNCHANGED <<fixedVars, net, copen, dialogueVars, appVars, sent, replies, fault>>

\* A Read of the handshake or of SetUpPlayOrPublish fails.
ServerReadFails ==
  /\ spc \in {"c0c1", "c2", "setup"} /\ ReadFails(c2s, sopen, copen)
  /\ HandleConnFails
  /\ UNCHANGED <<fixedVars, net, copen, c2s, s2c, dialogueVars, appVars, fc, sent, replies, fault>>

\* HandleConnect gives the connection to its stream, or fails.
HandleConnect ==
  /\ spc = "handle"
  /\ \/ spc' = "served" /\ UNCHANGED sopen
     \/ HandleConnFails
  /\ UNCHANGED <<fixedVars, net, copen, c2s, s2c, dialogueVars, appVars, fc, sent, replies, fault>>

\* The stream serves the connection (module RtmpStream): packets for a player, ...
ServeMedia ==
  /\ spc = "served" /\ ~fc.isPublisher
  /\ CanWrite(sopen) /\ Len(s2c) < MaxUnread
  /\ s2c' = Append(s2c, Msg("media", 0, "none"))
  /\ UNCHANGED <<fixedVars, net, copen, sopen, c2s, dialogueVars, appVars, serverVars, sent,
                 replies, fault>>

\* ... what the client sends is read, ...
ServeRead ==
  /\ spc = "served" /\ CanRead(c2s, sopen)
  /\ c2s' = Tail(c2s)
  /\ UNCHANGED <<fixedVars, net, copen, sopen, s2c, dialogueVars, appVars, serverVars, sent,
                 replies, fault>>

\* ... and some day the stream closes the connection.
ServeEnds ==
  /\ spc = "served"
  /\ HandleConnFails
  /\ UNCHANGED <<fixedVars, net, copen, c2s, s2c, dialogueVars, appVars, fc, sent, replies, fault>>

-----------------------------------------------------------------------------
(* External: other programs, and the network *)

\* What another client may send: its handshake, then commands in any order, without
\* waiting for answers.
PeerMessages ==
  CASE Len(sent) = 0 -> {Msg("C0C1", 0, v) : v \in {"zero", "signed", "unsigned", "version"}}
    [] Len(sent) = 1 -> {Msg("C2", 0, "echo")}
    [] OTHER -> {Msg("connect", i, a) : i \in {1, 2}, a \in Apps}
                  \cup {Msg("createStream", 2, "none"), Msg("FCPublish", 3, "none")}
                  \cup {Msg(t, 4, n) : t \in {"publish", "play"}, n \in Names}

PeerClientConnects ==
  /\ ~OwnClient /\ cpc = "dial"
  /\ Accept
  /\ cpc' = "peer"
  /\ UNCHANGED <<fixedVars, c2s, curCommand, transID, streamid, cbuf, cbroken, appVars, sent,
                 replies, fault>>

PeerClientSends ==
  /\ cpc = "peer" /\ CanWrite(copen) /\ Len(sent) < MaxSent
  /\ \E m \in PeerMessages : Send(<<m>>)
  /\ UNCHANGED <<fixedVars, net, copen, sopen, s2c, dialogueVars, appVars, serverVars, replies, fault>>

PeerClientCloses ==
  /\ cpc = "peer" /\ copen
  /\ copen' = FALSE
  /\ UNCHANGED <<fixedVars, net, sopen, c2s, s2c, dialogueVars, appVars, serverVars, sent, replies, fault>>

\* How another server answers command m: it grants or refuses it.
Answer(m) ==
  CASE m.t = "connect" -> IF "connect" \in grants THEN Msg("_result", m.id, "Connect.Success")
                          ELSE Msg("_error", m.id, "Connect.Rejected")
    [] m.t = "createStream" -> IF m.t \in grants THEN Msg("_result", m.id, "stream")
                               ELSE Msg("_error", m.id, "none")
    [] m.t = "publish" -> Status(IF m.t \in grants THEN "Publish.Start" ELSE "Publish.BadName")
    [] m.t = "play" -> Status(IF m.t \in grants THEN "Play.Start" ELSE "Play.StreamNotFound")

\* It answers what it was sent, late, never or twice, and sends other things.
PeerServerSends ==
  /\ spc = "peer" /\ CanWrite(sopen) /\ replies < MaxReplies
  /\ \E m \in IF replies = 0 THEN {Msg("S0S1S2", 0, "none")}
              ELSE {Answer(m) : m \in {x \in ToSet(sent) : x.t \in Commands}}
                     \cup {Msg(t, 0, "none") : t \in Unsolicited} :
       s2c' = Append(s2c, m)
  /\ replies' = replies + 1
  /\ UNCHANGED <<fixedVars, net, copen, sopen, c2s, dialogueVars, appVars, serverVars, sent, fault>>

PeerServerCloses ==
  /\ spc = "peer" /\ sopen
  /\ sopen' = FALSE
  /\ UNCHANGED <<fixedVars, net, copen, c2s, s2c, dialogueVars, appVars, serverVars, sent, replies, fault>>

\* Both ends are told: a reset, or TCP gives up.
NetworkFails ==
  /\ net # "down" /\ cpc # "dial"
  /\ net' = "down" /\ fault' = TRUE
  /\ UNCHANGED <<fixedVars, copen, sopen, c2s, s2c, dialogueVars, appVars, serverVars, sent, replies>>

\* Nobody is told; TCP sends again when the network is back.
NetworkStalls ==
  /\ net = "up" /\ cpc # "dial"
  /\ net' = "stalled"
  /\ UNCHANGED <<fixedVars, copen, sopen, c2s, s2c, dialogueVars, appVars, serverVars, sent, replies, fault>>

NetworkRecovers ==
  /\ net = "stalled"
  /\ net' = "up"
  /\ UNCHANGED <<fixedVars, copen, sopen, c2s, s2c, dialogueVars, appVars, serverVars, sent, replies, fault>>

-----------------------------------------------------------------------------
StartStep ==
  ReadS0S1S2 \/ HandshakeClientFails \/ WriteCommand \/ ReadResponse \/ ReadResponseFails

HandleConnStep ==
  \/ ReadC0C1 \/ ReadC2 \/ HandshakeServerTimeout
  \/ SetUpPlayOrPublish \/ ServerReadFails \/ HandleConnect

Next ==
  \/ Dial \/ StartStep
  \/ \E p \in Packets : SendPacket(p)
  \/ PlayProc \/ PlayProcEnds \/ AppClose
  \/ HandleConnStep \/ ServeMedia \/ ServeRead \/ ServeEnds
  \/ PeerClientConnects \/ PeerClientSends \/ PeerClientCloses
  \/ PeerServerSends \/ PeerServerCloses
  \/ NetworkFails \/ NetworkStalls \/ NetworkRecovers

(***************************************************************************)
(* Fairness: Start, handleConn and streamPlayProc are goroutines that run  *)
(* when they can; a read that has failed, or whose deadline is past,       *)
(* returns.  Nothing is assumed of applications, peers or the network,     *)
(* which may stall for ever.                                               *)
(***************************************************************************)
Spec ==
  /\ Init /\ [][Next]_vars
  /\ WF_vars(StartStep) /\ WF_vars(HandleConnStep)
  /\ WF_vars(PlayProc \/ PlayProcEnds)

-----------------------------------------------------------------------------
(* Properties *)

\* Every variable keeps its type.
TypeOK ==
  /\ cpc \in {"dial", "handshake", "command", "wait", "open", "failed", "closed", "peer"}
  /\ spc \in {"idle", "c0c1", "c2", "setup", "handle", "served", "closed", "peer"}
  /\ curCommand \in Commands /\ transID \in 1..3 /\ streamid \in {0, StreamID}
  /\ fc.app \in Apps \cup {"none"} /\ fc.name \in Names \cup {"none"}
  /\ net \in {"up", "stalled", "down"}
  /\ {copen, sopen, cbroken, videoFirst, audioFirst, fc.isPublisher, fault} \subseteq BOOLEAN

Decided == spc \in {"handle", "served"}

\* The server and its client agree on what the connection is: a publisher or a player
\* of the stream that its first publish or play names, in the application of the last
\* connect before that, however far the client has run ahead; and a client whose
\* Start has returned is not the only one that thinks so.
Agreement ==
  /\ Decided =>
       LET i == SelectInSeq(sent, LAMBDA m : m.t \in {"publish", "play"})
           j == SelectLastInSubSeq(sent, 1, i, LAMBDA m : m.t = "connect") IN
       /\ fc.name = sent[i].arg /\ fc.isPublisher = (sent[i].t = "publish")
       /\ fc.app = IF j = 0 THEN "none" ELSE sent[j].arg
  /\ ends = Own /\ cpc \in {"open", "closed"} =>
       /\ Decided \/ spc = "closed"
       /\ fc.app = url.app /\ fc.name = url.title /\ fc.isPublisher = (url.method = "publish")
       /\ streamid = StreamID

\* The two ends of this program understand each other: Start fails only when the
\* network does or a deadline passes, and not over an answer, an order of answers,
\* or media that comes too early.
NoMisunderstanding == ends = Own /\ cpc = "failed" => fault

\* Start succeeds only when the server has granted every command, though answers to
\* earlier ones come twice or late and other messages come between.
Granted ==
  cpc = "open" => {"connect", "createStream", url.method} \subseteq grants /\ streamid = StreamID

\* A decoder at the server can decode what a client publishes: the sequence header
\* of a codec that has one is sent before its first frame.
HeadersFirst ==
  \A i \in DOMAIN sent :
    \A f \in {<<"h264", "vseq">>, <<"aac", "aseq">>} :
      sent[i].t = "data" /\ sent[i].arg = f[1] =>
        \E j \in 1..(i - 1) : sent[j].t = "data" /\ sent[j].arg = f[2]

Settled == cpc \notin {"handshake", "command", "wait"} /\ spc \in {"served", "closed"}

\* Between two ends of this program no session hangs half open: both leave the
\* handshake whatever the network does, for it has deadlines; and Start returns and
\* handleConn hands the connection over or closes it, unless the network stalls.
SessionSettles ==
  /\ ends = Own /\ cpc # "dial" ~> cpc # "handshake" /\ spc \notin {"c0c1", "c2"}
  /\ ends = Own /\ cpc # "dial" ~> Settled \/ net = "stalled"

\* A client that goes away during the set-up leaves nothing behind at the server, unless
\* the network stalls once the handshake and its deadlines are over.
ServerLetsGo ==
  OwnServer /\ cpc # "dial" /\ ~copen ~>
    ~sopen \/ spc = "served" \/ (spc = "setup" /\ net = "stalled")

\* A player's application hears of the end of its connection, unless the network stalls:
\* streamPlayProc only reads, without a deadline.
PlayerTold ==
  OwnClient /\ cpc = "open" /\ url.method = "play" /\ (net = "down" \/ ~sopen) ~>
    onClosed > 0 \/ net = "stalled"
=============================================================================
