---------------------------- MODULE SessionProofs ----------------------------
(***************************************************************************)
(* Proofs about Session, for any applications, streams, packets and bounds *)
(* and any choice of the two ends: types, HeadersFirst, Agreement, Granted *)
(* and NoMisunderstanding.  What makes them inductive is the script: what  *)
(* a client has sent so far (Script), how much of it the server has taken  *)
(* and kept (Taken, Kept), what may be on its way back (Replies), and,     *)
(* for two ends of this program and no fault, whose turn it is (InStep).   *)
(***************************************************************************)
EXTENDS Session, TLAPS

-----------------------------------------------------------------------------
(* Types *)

MediaCommands == {"publish", "play"}

Types ==
  {"C0C1", "C2", "S0S1S2", "connect", "createStream", "publish", "play", "FCPublish", "data",
   "_result", "_error", "onStatus", "media", "shared", "onBWDone", "aggregate"}
Words ==
  {"none", "zero", "signed", "unsigned", "version", "echo", "stream", "vseq", "aseq",
   "Connect.Success", "Connect.Rejected", "Publish.Start", "Publish.BadName", "Play.Start",
   "Play.Reset", "Play.StreamNotFound", "Play.PublishNotify", "Data.Start"} \cup KnownPackets

\* A command names what it is to name.
Message ==
  {m \in [t : Types, id : Nat, arg : Apps \cup Names \cup Words] :
     /\ m.t = "connect" => m.arg \in Apps
     /\ m.t \in MediaCommands => m.arg \in Names}

\* The transaction id follows from how far the client is.
Phase ==
  /\ cpc \notin {"dial", "peer"} => OwnClient
  /\ cpc = "peer" => ~OwnClient
  /\ cpc \in {"dial", "handshake"} => curCommand = "connect" /\ transID = 1
  /\ cpc = "command" => transID = IF curCommand \in MediaCommands THEN 2 ELSE 1
  /\ cpc = "wait" => transID = CASE curCommand = "connect" -> 1
                                 [] curCommand = "createStream" -> 2
                                 [] OTHER -> 3
  /\ curCommand \in MediaCommands => curCommand = url.method
  /\ cpc \in {"handshake", "command", "wait"} => copen

\* What does not change: who the ends are, what the client opens, what a peer grants.
Fixed ==
  /\ ends \in Ends /\ grants \subseteq Commands
  /\ url \in IF OwnClient THEN [app : Apps, title : Names, method : MediaCommands]
             ELSE {[app |-> "none", title |-> "none", method |-> "none"]}

Queues == {sent, c2s, s2c, cbuf} \subseteq Seq(Message)

ForwardConn ==
  fc \in [transactionID : Nat, app : Apps \cup {"none"}, name : Names \cup {"none"},
         isPublisher : BOOLEAN]

\* TypeOK and what it takes to be inductive.
TypeInv == TypeOK /\ Fixed /\ Queues /\ ForwardConn /\ Phase

-----------------------------------------------------------------------------
(* What a client sends *)

\* The i-th message of the own client: handshake, three commands, media.
Scripted(i) ==
  /\ i = 1 => sent[i] = Msg("C0C1", 0, "zero")
  /\ i = 3 => sent[i] = Msg("connect", 1, url.app)
  /\ i = 4 => sent[i] = Msg("createStream", 2, "none")
  /\ i = 5 => sent[i].t = url.method /\ sent[i].arg = url.title
  /\ i > 5 => sent[i].t = "data"

\* How much of the script the client has sent.
Written ==
  /\ cpc = "handshake" => Len(sent) = 1
  /\ cpc = "command" /\ curCommand = "connect" => Len(sent) = 1 /\ cbuf = <<Msg("C2", 0, "echo")>>
  /\ cpc = "command" /\ curCommand # "connect" => cbuf = <<>>
  /\ cpc \in {"wait", "open", "closed"} => cbuf = <<>>
  /\ cpc = "command" /\ curCommand = "createStream" => Len(sent) = 3
  /\ cpc = "command" /\ curCommand \in MediaCommands => Len(sent) = 4
  /\ cpc = "wait" /\ curCommand = "connect" => Len(sent) = 3
  /\ cpc = "wait" /\ curCommand = "createStream" => Len(sent) = 4
  /\ cpc = "wait" /\ curCommand \in MediaCommands => Len(sent) = 5
  /\ cpc \in {"open", "closed"} => Len(sent) >= 5

Script ==
  /\ cpc = "dial" => sent = <<>>
  /\ \A i \in DOMAIN sent : (i = 1 => sent[i].t = "C0C1") /\ (i = 2 => sent[i].t = "C2")
  /\ OwnClient => Written /\ \A i \in DOMAIN sent : Scripted(i)

\* Sequence headers: a first frame has been sent after its header only.
HasData(arg) == \E i \in DOMAIN sent : sent[i].t = "data" /\ sent[i].arg = arg
HeadersInv ==
  /\ HeadersFirst
  /\ ~videoFirst => HasData("vseq")
  /\ ~audioFirst => HasData("aseq")

-----------------------------------------------------------------------------
(* What the server has taken of it *)

Taken == Len(sent) - Len(c2s)

\* fc.app is that of the last connect among the first k messages.
AppOf(k) ==
  \/ fc.app = "none" /\ \A j \in 1..k : sent[j].t # "connect"
  \/ \E j \in 1..k :
       /\ sent[j].t = "connect" /\ fc.app = sent[j].arg
       /\ \A l \in (j + 1)..k : sent[l].t # "connect"

NoMediaCommand(k) == \A j \in 1..k : sent[j].t \notin MediaCommands

\* fc is what the first publish or play, message i, has made it.
DecidedBy(i) ==
  /\ sent[i].t \in MediaCommands /\ NoMediaCommand(i - 1)
  /\ AppOf(i)
  /\ fc.name = sent[i].arg /\ fc.isPublisher = (sent[i].t = "publish")

Kept ==
  /\ Len(c2s) <= Len(sent)
  /\ \A i \in DOMAIN c2s : c2s[i] = sent[Taken + i]
  /\ spc \in {"idle", "peer", "c0c1"} => Taken = 0
  /\ spc = "c2" => Taken = 1
  /\ spc = "setup" => Taken >= 2
  /\ spc \in {"idle", "c0c1", "c2"} => fc.app = "none"
  /\ spc = "setup" => NoMediaCommand(Taken) /\ AppOf(Taken)
  /\ Decided => \E i \in 1..Taken : DecidedBy(i)

\* Before it decides, the server takes no connection for a publisher.
Undecided == spc \in {"idle", "c0c1", "c2", "setup"} => fc.isPublisher = FALSE

-----------------------------------------------------------------------------
(* What comes back *)

\* The server has sent S0S1S2.
Greeted == IF OwnServer THEN spc \notin {"idle", "c0c1"} ELSE spc = "peer" /\ replies > 0

\* A reply that grants a command comes from a server that has granted it.
Truthful(m) ==
  /\ m.t \in {"S0S1S2", "_result", "_error", "onStatus", "media", "shared", "onBWDone", "aggregate"}
  /\ m.t = "_result" =>
       \/ m.id = 1 /\ m.arg = "Connect.Success" /\ "connect" \in grants
       \/ m.id = 2 /\ m.arg = "stream" /\ "createStream" \in grants
  /\ m.t = "onStatus" =>
       /\ m.arg \in {"Play.Start", "Play.Reset"} => "play" \in grants
       /\ m.arg = "Publish.Start" => "publish" \in grants
  /\ m.t = "aggregate" => ~OwnServer /\ "aggregate" \in Unsolicited

\* What is on its way back to the own client; S0S1S2 comes first.
Backward ==
  OwnClient => \A i \in DOMAIN s2c :
    /\ Truthful(s2c[i])
    /\ s2c[i].t = "S0S1S2" => i = 1 /\ cpc \in {"handshake", "failed"}

Replies ==
  /\ replies \in Nat /\ (spc = "idle" <=> cpc = "dial")
  /\ spc = "peer" => ~OwnServer
  /\ spc \notin {"idle", "peer"} => OwnServer
  /\ OwnServer => grants = Commands
  /\ ~Greeted => s2c = <<>> /\ cpc \in {"dial", "handshake", "failed", "peer"}
  /\ Backward

\* No message ends a wait that is not an answer.
NoAggregate == OwnServer \/ "aggregate" \notin Unsolicited

\* How far the client is, it has been let.
GrantInv ==
  OwnClient /\ NoAggregate =>
    /\ curCommand # "connect" => "connect" \in grants
    /\ curCommand \in MediaCommands => "createStream" \in grants /\ streamid = StreamID
    /\ cpc \in {"open", "closed"} => curCommand \in MediaCommands /\ url.method \in grants

-----------------------------------------------------------------------------
(* Two ends of this program *)

AsAsked ==
  fc.app = url.app /\ fc.name = url.title /\ fc.isPublisher = (url.method = "publish")
Final == (Decided \/ spc = "closed") /\ AsAsked

\* Once a status is on its way, the server has made up its mind.
FinalInv ==
  ends = Own /\ (cpc \in {"open", "closed"} \/ \E i \in DOMAIN s2c : s2c[i].t = "onStatus") => Final

\* Whose turn it is: the server has to greet, or has; ...
Greeting == sopen /\ ((spc = "c0c1" /\ s2c = <<>>) \/ (spc = "c2" /\ Len(s2c) = 1))

\* ... the client has to send a command; ...
Asking ==
  /\ sopen /\ s2c = <<>> /\ c2s = <<>>
  /\ spc = IF curCommand = "connect" THEN "c2" ELSE "setup"

\* ... it has, alone or after C2; ...
Asked == sopen /\ s2c = <<>> /\ Len(c2s) \in {1, 2} /\ spc = IF Len(c2s) = 1 THEN "setup" ELSE "c2"

\* ... the server has answered.
Answered ==
  /\ c2s = <<>> /\ s2c # <<>> /\ s2c[1].t \in {"_result", "onStatus"} /\ Accepts(s2c[1])
  /\ IF curCommand \in MediaCommands THEN Decided \/ spc = "closed"
     ELSE sopen /\ spc = "setup" /\ Len(s2c) = 1

\* As long as nothing has failed, one end waits for the other.
InStep ==
  ends = Own /\ ~fault =>
    /\ net # "down" /\ cpc # "failed"
    /\ cpc = "handshake" => Greeting
    /\ cpc = "command" => Asking
    /\ cpc = "wait" => Asked \/ Answered

-----------------------------------------------------------------------------
(* Messages and queues *)

\* What a read takes from a queue, and what it leaves.
LEMMA TakeIs ==
  ASSUME NEW q \in Seq(Message), q # <<>>
  PROVE  /\ Head(q) = q[1] /\ Head(q) \in Message /\ Len(q) \in Nat /\ Len(q) >= 1
         /\ Tail(q) \in Seq(Message) /\ Len(Tail(q)) = Len(q) - 1
         /\ \A i \in 1..(Len(q) - 1) : Tail(q)[i] = q[i + 1]
  OBVIOUS

\* What a write makes of a queue.
LEMMA JoinIs ==
  ASSUME NEW q \in Seq(Message), NEW ms \in Seq(Message)
  PROVE  /\ q \o ms \in Seq(Message) /\ Len(q \o ms) = Len(q) + Len(ms)
         /\ Len(q) \in Nat /\ Len(ms) \in Nat
         /\ \A i \in 1..Len(q) : (q \o ms)[i] = q[i]
         /\ \A i \in 1..Len(ms) : (q \o ms)[Len(q) + i] = ms[i]
  OBVIOUS

\* The same of one message appended.
LEMMA AppendIs ==
  ASSUME NEW q \in Seq(Message), NEW m \in Message
  PROVE  /\ Append(q, m) \in Seq(Message) /\ Len(Append(q, m)) = Len(q) + 1
         /\ Len(q) \in Nat
         /\ \A i \in 1..Len(q) : Append(q, m)[i] = q[i]
         /\ Append(q, m)[Len(q) + 1] = m
  OBVIOUS

\* A queue of one message.
LEMMA SingleIs ==
  ASSUME NEW m \in Message
  PROVE  <<m>> \in Seq(Message) /\ Len(<<m>>) = 1 /\ <<m>>[1] = m
  OBVIOUS

\* The part of an answer that has gone when a flush fails.
LEMMA PrefixIs ==
  ASSUME NEW q \in Seq(Message), NEW n \in 0..Len(q)
  PROVE  /\ SubSeq(q, 1, n) \in Seq(Message) /\ Len(SubSeq(q, 1, n)) = n
         /\ \A i \in 1..n : SubSeq(q, 1, n)[i] = q[i]
  OBVIOUS

\* The command that Start writes.
LEMMA CommandOK ==
  ASSUME TypeInv, cpc = "command"
  PROVE  /\ Command \in Message /\ Command.t = curCommand
         /\ curCommand = "connect" => Command = Msg("connect", 1, url.app)
         /\ curCommand = "createStream" => Command = Msg("createStream", 2, "none")
         /\ curCommand \in MediaCommands => Command.arg = url.title
<1>1. OwnClient /\ transID = IF curCommand \in MediaCommands THEN 2 ELSE 1
  BY DEF TypeInv, Phase
<1>2. url.app \in Apps /\ url.title \in Names
  BY <1>1 DEF TypeInv, Fixed
<1>3. curCommand \in Commands
  BY DEF TypeInv, TypeOK
<1>4. CASE curCommand = "connect"
  <2>1. transID = 1 /\ Command = Msg("connect", 1, url.app)
    BY <1>1, <1>4 DEF Command, MediaCommands
  <2>2. Msg("connect", 1, url.app) \in Message /\ Msg("connect", 1, url.app).t = "connect"
    BY <1>2 DEF Msg, Message, MediaCommands, Types, Words
  <2> QED  BY <1>4, <2>1, <2>2 DEF MediaCommands
<1>5. CASE curCommand = "createStream"
  <2>1. NextTransID = 2 /\ Command = Msg("createStream", 2, "none")
    BY <1>1, <1>5 DEF Command, MediaCommands, NextTransID
  <2>2. Msg("createStream", 2, "none") \in Message /\ Msg("createStream", 2, "none").t = "createStream"
    BY DEF Msg, Message, MediaCommands, Types, Words
  <2> QED  BY <1>5, <2>1, <2>2 DEF MediaCommands
<1>6. ASSUME NEW c \in MediaCommands, NEW id \in Nat
      PROVE  /\ Msg(c, id, url.title) \in Message
             /\ Msg(c, id, url.title).t = c /\ Msg(c, id, url.title).arg = url.title
  BY <1>2 DEF Msg, Message, MediaCommands, Types, Words
<1>7. CASE curCommand \in MediaCommands
  <2>1. Command = Msg(curCommand, IF curCommand = "play" THEN 0 ELSE 3, url.title)
    BY <1>1, <1>7 DEF Command, MediaCommands, NextTransID
  <2> QED  BY <1>6, <1>7, <2>1 DEF MediaCommands
<1> QED  BY <1>3, <1>4, <1>5, <1>7 DEF Commands, MediaCommands

-----------------------------------------------------------------------------
(* Types *)

\* Nothing that is fixed changes.
LEMMA FixedStep == Fixed /\ [Next]_vars => Fixed' /\ UNCHANGED <<ends, url, grants>>
<1>1. [Next]_vars => UNCHANGED <<ends, url, grants>>
  BY DEF Next, StartStep, HandleConnStep, Dial, ReadS0S1S2, HandshakeClientFails, WriteCommand,
         ReadResponse, ReadResponseFails, SendPacket, PlayProc, PlayProcEnds, AppClose, ReadC0C1,
         ReadC2, HandshakeServerTimeout, SetUpPlayOrPublish, ServerReadFails, HandleConnect,
         ServeMedia, ServeRead, ServeEnds, PeerClientConnects, PeerClientSends, PeerClientCloses,
         PeerServerSends, PeerServerCloses, NetworkFails, NetworkStalls, NetworkRecovers, vars, fixedVars
<1> QED  BY <1>1 DEF Fixed, OwnClient

\* The answers of the server's handlers.
LEMMA RespondOK ==
  ASSUME NEW m \in Message, NEW id \in Nat
  PROVE  /\ Respond(m, id) \in Seq(Message)
         /\ m.t = "connect" => Respond(m, id) = <<Msg("_result", id, "Connect.Success")>>
         /\ m.t = "createStream" => Respond(m, id) = <<Msg("_result", id, "stream")>>
         /\ m.t = "publish" => Respond(m, id) = <<Status("Publish.Start")>>
         /\ m.t = "play" => Respond(m, id) = <<Status("Play.Reset"), Status("Play.Start"),
                                               Status("Data.Start"), Status("Play.PublishNotify")>>
         /\ m.t \notin Commands => Respond(m, id) = <<>>
<1>1. \A c \in {"Publish.Start", "Play.Reset", "Play.Start", "Data.Start", "Play.PublishNotify"} :
        Status(c) \in Message
  BY DEF Status, Msg, Message, Types, Words, MediaCommands
<1>2. \A c \in {"Connect.Success", "stream"} : Msg("_result", id, c) \in Message
  BY DEF Msg, Message, Types, Words, MediaCommands
<1>3. CASE m.t = "connect"
  BY <1>2, <1>3 DEF Respond, Commands
<1>4. CASE m.t = "createStream"
  BY <1>2, <1>4 DEF Respond, Commands
<1>5. CASE m.t = "publish"
  BY <1>1, <1>5 DEF Respond, Commands
<1>6. CASE m.t = "play"
  BY <1>1, <1>6 DEF Respond, Commands
<1>7. CASE m.t \notin Commands
  BY <1>7 DEF Respond, Commands
<1> QED  BY <1>3, <1>4, <1>5, <1>6, <1>7 DEF Commands

\* What the server keeps of a command.
LEMMA TakeCommandOK ==
  ASSUME ForwardConn, NEW m \in Message
  PROVE  /\ TakeCommand(m) \in [transactionID : Nat, app : Apps \cup {"none"},
                                name : Names \cup {"none"}, isPublisher : BOOLEAN]
         /\ TakeCommand(m).app = IF m.t = "connect" THEN m.arg ELSE fc.app
         /\ m.t \in MediaCommands =>
              TakeCommand(m).name = m.arg /\ TakeCommand(m).isPublisher = (m.t = "publish")
         /\ m.t \in Commands => TakeCommand(m).transactionID = m.id
         /\ m.t \notin MediaCommands => TakeCommand(m).isPublisher = fc.isPublisher
<1>1. /\ m.id \in Nat /\ (m.t = "connect" => m.arg \in Apps)
      /\ (m.t \in MediaCommands => m.arg \in Names)
  BY DEF Message
<1>2. CASE m.t = "connect"
  BY <1>1, <1>2 DEF TakeCommand, ForwardConn, MediaCommands, Commands
<1>3. CASE m.t = "createStream"
  BY <1>1, <1>3 DEF TakeCommand, ForwardConn, MediaCommands, Commands
<1>4. CASE m.t = "publish"
  BY <1>1, <1>4 DEF TakeCommand, ForwardConn, MediaCommands, Commands
<1>5. CASE m.t = "play"
  BY <1>1, <1>5 DEF TakeCommand, ForwardConn, MediaCommands, Commands
<1>6. CASE m.t \notin Commands
  BY <1>6 DEF TakeCommand, ForwardConn, MediaCommands, Commands
<1> QED  BY <1>2, <1>3, <1>4, <1>5, <1>6 DEF Commands

\* What SendPacket sends of a packet, if n of its parts are flushed.
Parts(p, n) == [i \in 1..n |-> Msg("data", 0, Batch(p)[i])]

\* They are messages of the protocol, one for each part of Batch(p).
LEMMA PartsOK ==
  ASSUME NEW p \in Packets, NEW n \in 0..Len(Batch(p))
  PROVE  /\ n \in Nat /\ Parts(p, n) \in Seq(Message) /\ Len(Parts(p, n)) = n
         /\ \A i \in 1..n : Parts(p, n)[i].t = "data" /\ Parts(p, n)[i].arg = Batch(p)[i]
<1>1. p \in KnownPackets
  BY SessionAssumption
<1>2. /\ Len(Batch(p)) \in Nat
      /\ \A i \in 1..Len(Batch(p)) : Batch(p)[i] \in Words
  BY <1>1 DEF Batch, KnownPackets, Words
<1>3. \A i \in 1..n : Batch(p)[i] \in Words
  BY <1>2
<1>4. \A w \in Words : Msg("data", 0, w) \in Message /\ Msg("data", 0, w).t = "data" /\ Msg("data", 0, w).arg = w
  BY DEF Msg, Message, Types, MediaCommands
<1> QED  BY <1>2, <1>3, <1>4 DEF Parts

\* What another client sends.
LEMMA PeerMessagesOK ==
  ASSUME NEW m \in PeerMessages, sent \in Seq(Message)
  PROVE  /\ m \in Message /\ m.t # "data"
         /\ Len(sent) = 0 => m.t = "C0C1"
         /\ Len(sent) = 1 => m.t = "C2"
<1>1. CASE Len(sent) = 0
  BY <1>1 DEF PeerMessages, Msg, Message, Types, Words, MediaCommands
<1>2. CASE Len(sent) = 1
  BY <1>2 DEF PeerMessages, Msg, Message, Types, Words, MediaCommands
<1>3. CASE Len(sent) \notin {0, 1}
  <2>1. \/ \E i \in {1, 2}, a \in Apps : m = Msg("connect", i, a)
        \/ m = Msg("createStream", 2, "none") \/ m = Msg("FCPublish", 3, "none")
        \/ \E t \in {"publish", "play"}, n \in Names : m = Msg(t, 4, n)
    BY <1>3 DEF PeerMessages
  <2> QED  BY <1>3, <2>1 DEF Msg, Message, Types, Words, MediaCommands
<1> QED  BY <1>1, <1>2, <1>3

\* How another server answers: with a status, or with the id of the command.
LEMMA AnswerOK ==
  ASSUME NEW m \in Message, m.t \in Commands
  PROVE  /\ Answer(m) \in Message
         /\ Answer(m).t \in {"_result", "_error", "onStatus"}
         /\ Answer(m).t = "_result" =>
              /\ Answer(m).id = m.id
              /\ \/ m.t = "connect" /\ Answer(m).arg = "Connect.Success" /\ "connect" \in grants
                 \/ m.t = "createStream" /\ Answer(m).arg = "stream" /\ "createStream" \in grants
         /\ Answer(m).t = "onStatus" =>
              /\ Answer(m).arg \in {"Play.Start", "Play.Reset"} => "play" \in grants
              /\ Answer(m).arg = "Publish.Start" => "publish" \in grants
<1>1. m.id \in Nat
  BY DEF Message
<1>2. CASE m.t = "connect"
  BY <1>1, <1>2 DEF Answer, Msg, Message, Types, Words, MediaCommands
<1>3. CASE m.t = "createStream"
  BY <1>1, <1>3 DEF Answer, Msg, Message, Types, Words, MediaCommands
<1>4. CASE m.t = "publish"
  BY <1>1, <1>4 DEF Answer, Status, Msg, Message, Types, Words, MediaCommands
<1>5. CASE m.t = "play"
  BY <1>1, <1>5 DEF Answer, Status, Msg, Message, Types, Words, MediaCommands
<1> QED  BY <1>2, <1>3, <1>4, <1>5 DEF Commands

\* The members of TypeOK that only some actions touch.
LEMMA TypeStep == TypeInv /\ [Next]_vars => TypeInv'
<1> SUFFICES ASSUME TypeInv, [Next]_vars  PROVE TypeOK' /\ Queues' /\ ForwardConn' /\ Phase'
  BY FixedStep DEF TypeInv
<1>0. Fixed' /\ UNCHANGED <<ends, url, grants>>
  BY FixedStep DEF TypeInv
<1>q. sent \in Seq(Message) /\ c2s \in Seq(Message) /\ s2c \in Seq(Message) /\ cbuf \in Seq(Message)
  BY DEF TypeInv, Queues
<1> USE DEF fixedVars, wireVars, dialogueVars, appVars, serverVars
<1>1. CASE Dial
  <2>1. Msg("C0C1", 0, "zero") \in Message
    BY DEF Msg, Message, Types, Words, MediaCommands
  <2>2. <<Msg("C0C1", 0, "zero")>> \in Seq(Message)
    BY <2>1, SingleIs
  <2>3. Queues'
    BY <1>1, <1>q, <2>2, JoinIs DEF Dial, Send, Queues, Accept
  <2>4. TypeOK' /\ ForwardConn'
    BY <1>1 DEF Dial, Accept, TypeInv, TypeOK, ForwardConn
  <2>5. Phase'
    BY <1>0, <1>1 DEF Dial, Accept, TypeInv, Phase, OwnClient, MediaCommands
  <2> QED  BY <2>3, <2>4, <2>5
<1>2. CASE ReadS0S1S2
  <2>1. Msg("C2", 0, "echo") \in Message
    BY DEF Msg, Message, Types, Words, MediaCommands
  <2>2. <<Msg("C2", 0, "echo")>> \in Seq(Message) /\ Tail(s2c) \in Seq(Message)
    BY <1>2, <1>q, <2>1, SingleIs, TakeIs DEF ReadS0S1S2, CanRead
  <2>3. Queues'
    BY <1>2, <1>q, <2>2 DEF ReadS0S1S2, Queues
  <2>4. TypeOK' /\ ForwardConn'
    BY <1>2 DEF ReadS0S1S2, TypeInv, TypeOK, ForwardConn
  <2>5. Phase'
    BY <1>0, <1>2 DEF ReadS0S1S2, TypeInv, Phase, OwnClient, MediaCommands
  <2> QED  BY <2>3, <2>4, <2>5
<1>3. CASE HandshakeClientFails
  <2>1. fault' \in BOOLEAN
    BY <1>3, Zenon DEF HandshakeClientFails
  <2>2. TypeOK' /\ ForwardConn'
    BY <1>3, <2>1 DEF HandshakeClientFails, TypeInv, TypeOK, ForwardConn
  <2>3. Queues' /\ Phase'
    BY <1>0, <1>3 DEF HandshakeClientFails, TypeInv, Queues, Phase, OwnClient, MediaCommands
  <2> QED  BY <2>2, <2>3
<1>4. CASE WriteCommand
  <2>1. Command \in Message
    BY <1>4, CommandOK DEF WriteCommand
  <2>2. cbuf \o <<Command>> \in Seq(Message) /\ <<>> \in Seq(Message)
    BY <2>1, <1>q, SingleIs, JoinIs
  <2>3. Queues'
    <3>1. CASE Send(cbuf \o <<Command>>) /\ cbuf' = <<>>
      BY <3>1, <1>4, <1>q, <2>2, JoinIs DEF WriteCommand, Send, Queues
    <3>2. CASE UNCHANGED <<c2s, sent, cbuf>>
      BY <3>2, <1>4, <1>q DEF WriteCommand, Queues
    <3> QED  BY <1>4, <3>1, <3>2 DEF WriteCommand
  <2>4. transID = (IF curCommand \in MediaCommands THEN 2 ELSE 1) /\ curCommand \in Commands
    BY <1>4 DEF WriteCommand, TypeInv, TypeOK, Phase
  <2>5. transID' = CASE curCommand = "connect" -> 1
                     [] curCommand = "createStream" -> 2
                     [] OTHER -> 3
    BY <1>4, <2>4 DEF WriteCommand, NextTransID, Commands, MediaCommands
  <2>6. cpc' \in {"wait", "failed"} /\ cbroken' \in BOOLEAN
    BY <1>4 DEF WriteCommand, TypeInv, TypeOK
  <2>7. TypeOK' /\ ForwardConn'
    BY <1>4, <2>5, <2>6 DEF WriteCommand, TypeInv, TypeOK, ForwardConn
  <2>8. Phase'
    BY <1>0, <1>4, <2>5, <2>6 DEF WriteCommand, TypeInv, Phase, OwnClient, MediaCommands
  <2> QED  BY <2>3, <2>7, <2>8
<1>5. CASE ReadResponse
  <2>1. Queues'
    BY <1>5, <1>q, TakeIs DEF ReadResponse, Queues, CanRead
  <2>2. /\ curCommand \in Commands /\ OwnClient /\ url.method \in MediaCommands
        /\ curCommand \in MediaCommands => curCommand = url.method
        /\ transID = CASE curCommand = "connect" -> 1 [] curCommand = "createStream" -> 2 [] OTHER -> 3
    BY <1>5 DEF ReadResponse, TypeInv, TypeOK, Phase, Fixed
  <2>3. /\ cpc' \in {"wait", "failed", "open", "command"}
        /\ curCommand' = curCommand \/ curCommand' = NextCommand
        /\ cpc' = "wait" => curCommand' = curCommand
        /\ cpc' = "command" => curCommand' = NextCommand /\ curCommand \notin MediaCommands
    <3>1. \A m : waitForResponse(m) \in {"again", "failed", "next"}
      BY DEF waitForResponse
    <3> QED  BY <1>5, <3>1 DEF ReadResponse, MediaCommands
  <2>4. /\ curCommand' \in Commands
        /\ curCommand' \in MediaCommands => curCommand' = url.method
        /\ cpc' = "command" => transID = IF curCommand' \in MediaCommands THEN 2 ELSE 1
    BY <2>2, <2>3 DEF NextCommand, Commands, MediaCommands
  <2>5. streamid' \in {0, StreamID}
    BY <1>5 DEF ReadResponse, TypeInv, TypeOK
  <2>6. TypeOK' /\ ForwardConn'
    BY <1>5, <2>3, <2>4, <2>5 DEF ReadResponse, TypeInv, TypeOK, ForwardConn
  <2>7. Phase'
    BY <1>0, <1>5, <2>2, <2>3, <2>4 DEF ReadResponse, TypeInv, Phase, OwnClient
  <2> QED  BY <2>1, <2>6, <2>7
<1>6. CASE ReadResponseFails
  BY <1>0, <1>6 DEF ReadResponseFails, TypeInv, TypeOK, Queues, ForwardConn, Phase, OwnClient
<1>7. ASSUME NEW p \in Packets, SendPacket(p)  PROVE TypeOK' /\ Queues' /\ ForwardConn' /\ Phase'
  <2>1. PICK n \in 0..Len(Batch(p)) :
          /\ Send(Parts(p, n))
          /\ cbroken' = (cbroken \/ n < Len(Batch(p)))
          /\ videoFirst' = (videoFirst /\ ~(n > 0 /\ Batch(p)[1] = "vseq"))
          /\ audioFirst' = (audioFirst /\ ~(n > 0 /\ Batch(p)[1] = "aseq"))
    BY <1>7 DEF SendPacket, Parts
  <2>2. Queues'
    <3>1. Parts(p, n) \in Seq(Message)
      BY PartsOK
    <3>2. c2s' \in Seq(Message) /\ sent' \in Seq(Message)
      BY <2>1, <3>1, <1>q, JoinIs DEF Send
    <3> QED  BY <1>7, <3>2, <1>q DEF SendPacket, Queues
  <2>3. cbroken' \in BOOLEAN /\ videoFirst' \in BOOLEAN /\ audioFirst' \in BOOLEAN
    BY <2>1, Zenon
  <2>4. TypeOK' /\ ForwardConn'
    BY <1>7, <2>3 DEF SendPacket, TypeInv, TypeOK, ForwardConn
  <2>5. Phase'
    BY <1>0, <1>7 DEF SendPacket, TypeInv, Phase, OwnClient
  <2> QED  BY <2>2, <2>4, <2>5
<1>8. CASE PlayProc
  <2>1. Queues'
    BY <1>8, <1>q, TakeIs DEF PlayProc, Queues, CanRead
  <2> QED  BY <1>0, <1>8, <2>1 DEF PlayProc, TypeInv, TypeOK, ForwardConn, Phase, OwnClient
<1>9. CASE PlayProcEnds \/ AppClose
  BY <1>0, <1>9 DEF PlayProcEnds, AppClose, CloseClient, TypeInv, TypeOK, Queues, ForwardConn,
                    Phase, OwnClient
<1>10. CASE ReadC0C1
  <2>1. Msg("S0S1S2", 0, "none") \in Message
    BY DEF Msg, Message, Types, Words, MediaCommands
  <2>2. /\ c2s' \in Seq(Message)
        /\ s2c' = s2c \/ s2c' = Append(s2c, Msg("S0S1S2", 0, "none"))
    BY <1>10, <1>q, TakeIs DEF ReadC0C1, CanRead
  <2>3. Queues'
    <3>1. s2c' \in Seq(Message)
      <4>1. Append(s2c, Msg("S0S1S2", 0, "none")) \in Seq(Message)
        BY <1>q, <2>1
      <4> QED  BY <1>q, <2>2, <4>1
    <3> QED  BY <1>10, <1>q, <2>2, <3>1 DEF ReadC0C1, Queues
  <2>4. spc' \in {"c2", "closed"} /\ sopen' \in BOOLEAN
    BY <1>10 DEF ReadC0C1, HandleConnFails, TypeInv, TypeOK
  <2>5. TypeOK' /\ ForwardConn' /\ Phase'
    BY <1>0, <1>10, <2>4 DEF ReadC0C1, TypeInv, TypeOK, ForwardConn, Phase, OwnClient
  <2> QED  BY <2>3, <2>5
<1>11. CASE ReadC2
  <2>1. Queues'
    BY <1>11, <1>q, TakeIs DEF ReadC2, Queues, CanRead
  <2> QED  BY <1>0, <1>11, <2>1 DEF ReadC2, TypeInv, TypeOK, ForwardConn, Phase, OwnClient
<1>12. CASE HandshakeServerTimeout \/ ServerReadFails \/ ServeEnds
  <2>1. /\ UNCHANGED <<net, copen, c2s, s2c, dialogueVars, appVars, fc, sent>>
        /\ spc' = "closed" /\ sopen' = FALSE /\ fault' \in {fault, TRUE}
    BY <1>12 DEF HandshakeServerTimeout, ServerReadFails, ServeEnds, HandleConnFails
  <2>2. TypeOK'
    BY <2>1 DEF TypeInv, TypeOK
  <2>3. Queues' /\ ForwardConn'
    BY <2>1 DEF TypeInv, Queues, ForwardConn
  <2>4. Phase'
    BY <1>0, <2>1 DEF TypeInv, Phase, OwnClient
  <2> QED  BY <2>2, <2>3, <2>4
<1>13. CASE SetUpPlayOrPublish
  <2> DEFINE m == Head(c2s)
             f == TakeCommand(m)
  <2>1. m \in Message /\ Tail(c2s) \in Seq(Message)
    BY <1>13, <1>q, TakeIs DEF SetUpPlayOrPublish, CanRead
  <2>2. f \in [transactionID : Nat, app : Apps \cup {"none"}, name : Names \cup {"none"},
               isPublisher : BOOLEAN]
    BY <2>1, TakeCommandOK DEF TypeInv
  <2>3. s2c \o Respond(m, f.transactionID) \in Seq(Message)
    BY <2>1, <2>2, <1>q, RespondOK, JoinIs
  <2> DEFINE r == Respond(m, f.transactionID)
             g == [f EXCEPT !.isPublisher = fc.isPublisher]
  <2>a. r \in Seq(Message) /\ Len(r) \in Nat
    <3>1. f.transactionID \in Nat
      BY <2>2
    <3> HIDE DEF f
    <3>2. r \in Seq(Message)
      BY <2>1, <3>1, RespondOK
    <3> QED  BY <3>2
  <2>b. g \in [transactionID : Nat, app : Apps \cup {"none"}, name : Names \cup {"none"},
               isPublisher : BOOLEAN]
    BY <2>2 DEF TypeInv, ForwardConn
  <2>4. \/ /\ s2c' = s2c \o r /\ fc' = f
           /\ spc' \in {"handle", "setup"} /\ sopen' = sopen
        \/ /\ \E n \in 0..(Len(r) - 1) : s2c' = s2c \o SubSeq(r, 1, n)
           /\ fc' = g /\ spc' = "closed" /\ sopen' = FALSE
        \/ UNCHANGED <<s2c, fc>> /\ spc' = "closed" /\ sopen' = FALSE
    BY <1>13 DEF SetUpPlayOrPublish, HandleConnFails
  <2>5. c2s' = Tail(c2s) /\ UNCHANGED <<net, copen, dialogueVars, appVars, sent, replies, fault>>
    BY <1>13 DEF SetUpPlayOrPublish
  <2> HIDE DEF m, f, g, r
  <2>c. \A n \in 0..(Len(r) - 1) : s2c \o SubSeq(r, 1, n) \in Seq(Message)
    BY <1>q, <2>a, PrefixIs, JoinIs
  <2>d. s2c' \in Seq(Message)
    BY <1>q, <2>3, <2>4, <2>c DEF r
  <2>6. ForwardConn' /\ Queues'
    BY <1>q, <2>1, <2>2, <2>b, <2>d, <2>4, <2>5 DEF ForwardConn, Queues, TypeInv
  <2>7. spc' \in {"handle", "setup", "closed"} /\ sopen' \in BOOLEAN
    BY <2>4 DEF TypeInv, TypeOK
  <2>8. fc'.app \in Apps \cup {"none"} /\ fc'.name \in Names \cup {"none"} /\ fc'.isPublisher \in BOOLEAN
    BY <2>6 DEF ForwardConn
  <2>9. TypeOK' /\ Phase'
    BY <1>0, <2>5, <2>7, <2>8 DEF TypeInv, TypeOK, Phase, OwnClient
  <2> QED  BY <2>6, <2>9
<1>14. CASE HandleConnect
  <2>1. /\ UNCHANGED <<net, copen, c2s, s2c, dialogueVars, appVars, fc, sent, fault>>
        /\ spc' \in {"served", "closed"} /\ sopen' \in {sopen, FALSE}
    BY <1>14 DEF HandleConnect, HandleConnFails
  <2>2. TypeOK'
    BY <2>1 DEF TypeInv, TypeOK
  <2> QED  BY <1>0, <2>1, <2>2 DEF TypeInv, Queues, ForwardConn, Phase, OwnClient
<1>15. CASE ServeMedia
  <2>1. Msg("media", 0, "none") \in Message
    BY DEF Msg, Message, Types, Words, MediaCommands
  <2>2. Queues'
    BY <1>15, <1>q, <2>1, AppendIs DEF ServeMedia, Queues
  <2> QED  BY <1>0, <1>15, <2>2 DEF ServeMedia, TypeInv, TypeOK, ForwardConn, Phase, OwnClient
<1>16. CASE ServeRead
  <2>1. Queues'
    BY <1>16, <1>q, TakeIs DEF ServeRead, Queues, CanRead
  <2> QED  BY <1>0, <1>16, <2>1 DEF ServeRead, TypeInv, TypeOK, ForwardConn, Phase, OwnClient
<1>17. CASE PeerClientConnects
  BY <1>0, <1>17 DEF PeerClientConnects, Accept, TypeInv, TypeOK, Queues, ForwardConn, Phase,
                     OwnClient, MediaCommands
<1>18. CASE PeerClientSends
  <2>1. PICK m \in PeerMessages : Send(<<m>>)
    BY <1>18 DEF PeerClientSends
  <2>2. <<m>> \in Seq(Message)
    BY <1>q, PeerMessagesOK, SingleIs
  <2>3. Queues'
    BY <1>18, <1>q, <2>1, <2>2, JoinIs DEF PeerClientSends, Send, Queues
  <2> QED  BY <1>0, <1>18, <2>3 DEF PeerClientSends, TypeInv, TypeOK, ForwardConn, Phase, OwnClient
<1>19. CASE PeerClientCloses \/ PeerServerCloses \/ NetworkFails \/ NetworkStalls \/ NetworkRecovers
  <2>1. /\ UNCHANGED <<c2s, s2c, dialogueVars, appVars, fc, sent, spc>>
        /\ copen' \in BOOLEAN /\ sopen' \in BOOLEAN /\ fault' \in BOOLEAN
        /\ net' \in {"up", "stalled", "down"}
        /\ copen' = copen \/ cpc = "peer"
    BY <1>19 DEF PeerClientCloses, PeerServerCloses, NetworkFails, NetworkStalls, NetworkRecovers, TypeInv, TypeOK
  <2>2. TypeOK'
    BY <2>1 DEF TypeInv, TypeOK
  <2>3. Queues' /\ ForwardConn'
    BY <2>1 DEF TypeInv, Queues, ForwardConn
  <2>4. Phase'
    BY <1>0, <2>1 DEF TypeInv, Phase, OwnClient
  <2> QED  BY <2>2, <2>3, <2>4
<1>20. CASE PeerServerSends
  <2>1. PICK m : /\ m \in IF replies = 0 THEN {Msg("S0S1S2", 0, "none")}
                         ELSE {Answer(x) : x \in {y \in ToSet(sent) : y.t \in Commands}}
                                \cup {Msg(t, 0, "none") : t \in Unsolicited}
                 /\ s2c' = Append(s2c, m)
    BY <1>20 DEF PeerServerSends
  <2>2. \A x \in ToSet(sent) : x \in Message
    BY <1>q DEF ToSet
  <2>3. m \in Message
    <3>1. CASE m = Msg("S0S1S2", 0, "none")
      BY <3>1 DEF Msg, Message, Types, Words, MediaCommands
    <3>2. CASE \E x \in ToSet(sent) : x.t \in Commands /\ m = Answer(x)
      BY <3>2, <2>2, AnswerOK
    <3>3. CASE \E t \in Unsolicited : m = Msg(t, 0, "none")
      BY <3>3, SessionAssumption DEF KnownUnsolicited, Msg, Message, Types, Words, MediaCommands
    <3> QED  BY <2>1, <3>1, <3>2, <3>3
  <2>4. Queues'
    BY <1>20, <1>q, <2>1, <2>3, AppendIs DEF PeerServerSends, Queues
  <2> QED  BY <1>0, <1>20, <2>4 DEF PeerServerSends, TypeInv, TypeOK, ForwardConn, Phase, OwnClient
<1>21. CASE UNCHANGED vars
  BY <1>0, <1>21 DEF vars, TypeInv, TypeOK, Queues, ForwardConn, Phase, OwnClient
<1> QED
  BY <1>1, <1>2, <1>3, <1>4, <1>5, <1>6, <1>7, <1>8, <1>9, <1>10, <1>11, <1>12, <1>13, <1>14,
     <1>15, <1>16, <1>17, <1>18, <1>19, <1>20, <1>21 DEF Next, StartStep, HandleConnStep

\* The types hold at first.
LEMMA TypeInit == Init => TypeInv
<1> SUFFICES ASSUME Init  PROVE TypeInv
  OBVIOUS
<1>1. Fixed
  <2>1. grants \subseteq Commands
    BY DEF Init
  <2>2. CASE OwnClient
    BY <2>1, <2>2 DEF Init, Fixed, MediaCommands
  <2>3. CASE ~OwnClient
    BY <2>1, <2>3 DEF Init, Fixed
  <2> QED  BY <2>2, <2>3
<1>2. Queues
  BY DEF Init, Queues
<1>3. TypeOK
  <2>1. /\ net = "up" /\ copen = FALSE /\ sopen = FALSE /\ cbroken = FALSE /\ fault = FALSE
        /\ videoFirst = TRUE /\ audioFirst = TRUE
    BY DEF Init
  <2>2. fc.app = "none" /\ fc.name = "none" /\ fc.isPublisher = FALSE
    BY DEF Init
  <2>3. /\ cpc = "dial" /\ spc = "idle" /\ curCommand \in Commands /\ transID \in 1..3
        /\ streamid \in {0, StreamID}
    BY DEF Init, Commands
  <2> QED  BY <2>1, <2>2, <2>3 DEF TypeOK
<1>4. ForwardConn
  BY DEF Init, ForwardConn
<1>5. Phase
  BY DEF Init, Phase, MediaCommands
<1> QED  BY <1>1, <1>2, <1>3, <1>4, <1>5 DEF TypeInv

\* Every variable keeps its type; the transaction id never passes 3 (Start, writeMsg),
\* and ForwardConnect never takes an application or a name from another command.
THEOREM TypeCorrect == Spec => []TypeOK
<1>1. Spec => []TypeInv
  BY TypeInit, TypeStep, PTL DEF Spec
<1>2. TypeInv => TypeOK
  BY DEF TypeInv
<1> QED  BY <1>1, <1>2, PTL

-----------------------------------------------------------------------------
(* What a client sends *)

\* How a write changes what was sent and what is on the wire.
LEMMA SendIs ==
  ASSUME TypeInv, NEW ms \in Seq(Message), sent' = sent \o ms, c2s' = c2s \o ms
  PROVE  /\ Len(ms) \in Nat /\ Len(sent) \in Nat /\ Len(c2s) \in Nat
         /\ sent' \in Seq(Message) /\ Len(sent') = Len(sent) + Len(ms)
         /\ \A i \in 1..Len(sent) : sent'[i] = sent[i]
         /\ \A i \in 1..Len(ms) : sent'[Len(sent) + i] = ms[i]
         /\ \A i \in 1..Len(sent') : i \in 1..Len(sent) \/ i - Len(sent) \in 1..Len(ms)
         /\ c2s' \in Seq(Message) /\ Len(c2s') = Len(c2s) + Len(ms)
         /\ \A i \in 1..Len(c2s) : c2s'[i] = c2s[i]
         /\ \A i \in 1..Len(ms) : c2s'[Len(c2s) + i] = ms[i]
         /\ DOMAIN sent = 1..Len(sent) /\ DOMAIN sent' = 1..Len(sent')
         /\ DOMAIN c2s = 1..Len(c2s) /\ DOMAIN c2s' = 1..Len(c2s')
<1>1. sent \in Seq(Message) /\ c2s \in Seq(Message)
  BY DEF TypeInv, Queues
<1>3. /\ sent' \in Seq(Message) /\ Len(sent') = Len(sent) + Len(ms)
      /\ \A i \in 1..Len(sent) : sent'[i] = sent[i]
      /\ \A i \in 1..Len(ms) : sent'[Len(sent) + i] = ms[i]
  BY <1>1, JoinIs
<1>4. /\ c2s' \in Seq(Message) /\ Len(c2s') = Len(c2s) + Len(ms)
      /\ \A i \in 1..Len(c2s) : c2s'[i] = c2s[i]
      /\ \A i \in 1..Len(ms) : c2s'[Len(c2s) + i] = ms[i]
  BY <1>1, JoinIs
<1>5. Len(ms) \in Nat /\ Len(sent) \in Nat /\ Len(c2s) \in Nat
  BY <1>1
<1>6. /\ DOMAIN sent = 1..Len(sent) /\ DOMAIN sent' = 1..Len(sent')
      /\ DOMAIN c2s = 1..Len(c2s) /\ DOMAIN c2s' = 1..Len(c2s')
  BY <1>1, <1>3, <1>4
<1>7. \A i \in 1..Len(sent') : i \in 1..Len(sent) \/ i - Len(sent) \in 1..Len(ms)
  BY <1>3, <1>5
<1> QED  BY <1>3, <1>4, <1>5, <1>6, <1>7

\* An action that sends nothing leaves the script to the place where the client is.
LEMMA ScriptSame ==
  ASSUME Script, UNCHANGED <<ends, url, sent>>, cpc' = "dial" => cpc = "dial",
         OwnClient => Written'
  PROVE  Script'
  BY DEF Script, Scripted, OwnClient

\* The own client follows its script, and any client begins with the handshake.
LEMMA ScriptStep == TypeInv /\ Script /\ [Next]_vars => Script'
<1> SUFFICES ASSUME TypeInv, Script, [Next]_vars  PROVE Script'
  OBVIOUS
<1>0. UNCHANGED <<ends, url, grants>> /\ Len(sent) \in Nat /\ DOMAIN sent = 1..Len(sent)
  BY FixedStep DEF TypeInv, Queues
<1> USE DEF fixedVars, wireVars, dialogueVars, appVars, serverVars
<1>1. CASE Dial
  <2> DEFINE m == Msg("C0C1", 0, "zero")
  <2>1. m \in Message /\ m.t = "C0C1"
    BY DEF Msg, Message, Types, Words, MediaCommands
  <2>2. sent = <<>> /\ cpc' = "handshake" /\ Send(<<m>>)
    BY <1>1 DEF Dial, Script
  <2> HIDE DEF m
  <2>3. Len(sent') = 1 /\ sent'[1] = m /\ DOMAIN sent' = 1..1
    BY <2>1, <2>2, SingleIs, SendIs DEF Send
  <2>4. Written'
    BY <2>2, <2>3 DEF Written
  <2>5. \A i \in DOMAIN sent' : i = 1
    BY <2>3
  <2> QED  BY <1>0, <2>1, <2>2, <2>3, <2>4, <2>5 DEF Script, Scripted, m
<1>2. CASE ReadS0S1S2
  <2>1. curCommand = "connect" /\ OwnClient
    BY <1>2 DEF ReadS0S1S2, TypeInv, Phase
  <2>2. Len(sent) = 1
    BY <1>2, <2>1 DEF ReadS0S1S2, Script, Written
  <2>3. Written'
    BY <1>2, <2>1, <2>2 DEF ReadS0S1S2, Written, MediaCommands
  <2> QED  BY <1>0, <1>2, <2>3, ScriptSame DEF ReadS0S1S2
<1>3. CASE HandshakeClientFails \/ ReadResponseFails
  <2>1. Written'
    BY <1>3 DEF HandshakeClientFails, ReadResponseFails, Written
  <2> QED  BY <1>0, <1>3, <2>1, ScriptSame DEF HandshakeClientFails, ReadResponseFails
<1>4. CASE WriteCommand
  <2>0. OwnClient /\ curCommand \in Commands /\ cpc = "command" /\ Written /\ curCommand' = curCommand
    BY <1>4 DEF WriteCommand, TypeInv, TypeOK, Phase, Script
  <2>1. CASE Send(cbuf \o <<Command>>) /\ cbuf' = <<>> /\ cpc' = "wait"
    <3>1. /\ Command \in Message /\ Command.t = curCommand
          /\ curCommand = "connect" => Command = Msg("connect", 1, url.app)
          /\ curCommand = "createStream" => Command = Msg("createStream", 2, "none")
          /\ curCommand \in MediaCommands => Command.arg = url.title /\ curCommand = url.method
      BY <2>0, CommandOK DEF TypeInv, Phase
    <3>2. CASE curCommand = "connect"
      <4>1. Len(sent) = 1 /\ cbuf = <<Msg("C2", 0, "echo")>>
        BY <2>0, <3>2 DEF Written
      <4>2. Msg("C2", 0, "echo") \in Message /\ Msg("C2", 0, "echo").t = "C2"
        BY DEF Msg, Message, Types, Words, MediaCommands
      <4> DEFINE ms == cbuf \o <<Command>>
      <4>3. ms \in Seq(Message) /\ Len(ms) = 2 /\ ms[1] = Msg("C2", 0, "echo") /\ ms[2] = Command
        BY <3>1, <4>1, <4>2
      <4> HIDE DEF ms
      <4>4. /\ Len(sent') = 3 /\ DOMAIN sent' = 1..3 /\ sent'[1] = sent[1]
            /\ sent'[2] = Msg("C2", 0, "echo") /\ sent'[3] = Command
        <5>1. sent' = sent \o ms /\ c2s' = c2s \o ms
          BY <2>1 DEF ms, Send
        <5>2. /\ Len(sent') = Len(sent) + Len(ms) /\ DOMAIN sent' = 1..Len(sent')
              /\ \A i \in 1..Len(sent) : sent'[i] = sent[i]
              /\ \A i \in 1..Len(ms) : sent'[Len(sent) + i] = ms[i]
          BY <5>1, <4>3, SendIs
        <5>3. 1 \in 1..Len(ms) /\ 2 \in 1..Len(ms) /\ 1 \in 1..Len(sent)
          BY <4>1, <4>3
        <5>4. sent'[Len(sent) + 1] = ms[1] /\ sent'[Len(sent) + 2] = ms[2] /\ sent'[1] = sent[1]
          BY <5>2, <5>3
        <5> QED  BY <5>2, <5>4, <4>1, <4>3
      <4>5. \A i \in DOMAIN sent' : i = 1 \/ i = 2 \/ i = 3
        BY <4>4
      <4>6. Written'
        BY <2>0, <2>1, <3>2, <4>4 DEF Written, MediaCommands
      <4>7. 1 \in DOMAIN sent
        BY <1>0, <4>1
      <4> QED  BY <1>0, <2>0, <2>1, <3>1, <3>2, <4>2, <4>4, <4>5, <4>6, <4>7 DEF Script, Scripted, OwnClient
    <3>3. CASE curCommand # "connect"
      <4>1. /\ cbuf = <<>> /\ Len(sent) \in {3, 4}
            /\ Len(sent) = IF curCommand = "createStream" THEN 3 ELSE 4
        BY <2>0, <3>3 DEF Written, Commands, MediaCommands
      <4>2. cbuf \o <<Command>> = <<Command>>
        BY <3>1, <4>1
      <4>3. /\ Len(sent') = Len(sent) + 1 /\ DOMAIN sent' = 1..(Len(sent) + 1)
            /\ sent'[Len(sent) + 1] = Command /\ \A i \in 1..Len(sent) : sent'[i] = sent[i]
        <5>1. sent' = sent \o <<Command>> /\ c2s' = c2s \o <<Command>>
          BY <2>1, <4>2 DEF Send
        <5> DEFINE ms == <<Command>>
        <5>2. ms \in Seq(Message) /\ Len(ms) = 1 /\ ms[1] = Command
          BY <3>1, SingleIs
        <5>3. sent' = sent \o ms /\ c2s' = c2s \o ms
          BY <5>1
        <5> HIDE DEF ms
        <5>4. /\ Len(sent') = Len(sent) + Len(ms) /\ DOMAIN sent' = 1..Len(sent')
              /\ \A i \in 1..Len(sent) : sent'[i] = sent[i]
              /\ \A i \in 1..Len(ms) : sent'[Len(sent) + i] = ms[i]
          BY <5>2, <5>3, SendIs
        <5> QED  BY <5>2, <5>4
      <4>4. \A i \in DOMAIN sent' : i \in DOMAIN sent \/ i = Len(sent) + 1
        BY <1>0, <4>3
      <4>5. Written'
        BY <2>0, <2>1, <3>3, <4>1, <4>3 DEF Written, MediaCommands, Commands
      <4>6. \A i \in DOMAIN sent' : Scripted(i)'
        <5> SUFFICES ASSUME NEW i \in DOMAIN sent'  PROVE Scripted(i)'
          OBVIOUS
        <5>1. CASE i \in DOMAIN sent
          <6>1. sent'[i] = sent[i] /\ Scripted(i)
            BY <5>1, <1>0, <2>0, <4>3 DEF Script
          <6> QED  BY <1>0, <6>1 DEF Scripted
        <5>2. CASE i = Len(sent) + 1
          <6>1. sent'[i] = Command
            BY <5>2, <4>3
          <6>2. curCommand = "createStream" => i = 4
            BY <5>2, <4>1
          <6>3. curCommand # "createStream" => i = 5 /\ curCommand \in MediaCommands
            BY <5>2, <4>1, <3>3, <2>0 DEF Commands, MediaCommands
          <6> QED  BY <1>0, <3>1, <6>1, <6>2, <6>3 DEF Scripted
        <5> QED  BY <4>4, <5>1, <5>2
      <4>7. \A i \in DOMAIN sent' : i \in {1, 2} => i \in DOMAIN sent /\ sent'[i] = sent[i]
        BY <1>0, <4>1, <4>3
      <4> QED  BY <1>0, <2>1, <4>5, <4>6, <4>7 DEF Script
    <3> QED  BY <3>2, <3>3
  <2>2. CASE cpc' = "failed" /\ UNCHANGED <<c2s, sent, cbuf>>
    <3>1. Written'
      BY <2>2 DEF Written
    <3> QED  BY <1>0, <2>2, <3>1, ScriptSame
  <2> QED  BY <1>4, <2>1, <2>2 DEF WriteCommand
<1>5. CASE ReadResponse
  <2>1. OwnClient /\ Written /\ cpc = "wait" /\ cbuf' = cbuf /\ sent' = sent /\ curCommand \in Commands
        /\ url.method \in MediaCommands
    BY <1>5 DEF ReadResponse, TypeInv, TypeOK, Phase, Fixed, Script
  <2>2. \/ cpc' = "failed"
        \/ cpc' = "wait" /\ curCommand' = curCommand
        \/ cpc' = "open" /\ curCommand \in MediaCommands
        \/ cpc' = "command" /\ curCommand' = NextCommand /\ curCommand \notin MediaCommands
    <3>1. \A m : waitForResponse(m) \in {"again", "failed", "next"}
      BY DEF waitForResponse
    <3> QED  BY <1>5, <3>1 DEF ReadResponse, MediaCommands
  <2>3. Written'
    BY <1>0, <2>1, <2>2 DEF Written, NextCommand, Commands, MediaCommands
  <2> QED  BY <1>0, <2>1, <2>2, <2>3, ScriptSame
<1>6. ASSUME NEW p \in Packets, SendPacket(p)  PROVE Script'
  <2>1. PICK n \in 0..Len(Batch(p)) : Send(Parts(p, n))
    BY <1>6 DEF SendPacket, Parts
  <2>2. /\ n \in Nat /\ Parts(p, n) \in Seq(Message) /\ Len(Parts(p, n)) = n
        /\ \A i \in 1..n : Parts(p, n)[i].t = "data"
    BY PartsOK
  <2>3. OwnClient /\ cpc = "open" /\ Len(sent) >= 5 /\ UNCHANGED <<cpc, cbuf, curCommand>>
    BY <1>6 DEF SendPacket, Script, Written
  <2>4. /\ Len(sent') = Len(sent) + n /\ \A i \in 1..Len(sent) : sent'[i] = sent[i]
        /\ \A i \in 1..n : sent'[Len(sent) + i].t = "data"
        /\ \A i \in DOMAIN sent' : i \in 1..Len(sent) \/ i - Len(sent) \in 1..n
        /\ DOMAIN sent' = 1..Len(sent')
    <3> DEFINE ms == Parts(p, n)
    <3>1. ms \in Seq(Message) /\ sent' = sent \o ms /\ c2s' = c2s \o ms
      BY <2>1, <2>2 DEF Send
    <3>2. Len(ms) = n /\ \A i \in 1..n : ms[i].t = "data"
      BY <2>2
    <3> HIDE DEF ms
    <3>3. /\ Len(sent') = Len(sent) + Len(ms) /\ DOMAIN sent' = 1..Len(sent')
          /\ \A i \in 1..Len(sent) : sent'[i] = sent[i]
          /\ \A i \in 1..Len(ms) : sent'[Len(sent) + i] = ms[i]
          /\ \A i \in 1..Len(sent') : i \in 1..Len(sent) \/ i - Len(sent) \in 1..Len(ms)
      BY <3>1, SendIs
    <3> QED  BY <3>2, <3>3
  <2>5. Written'
    BY <1>0, <2>2, <2>3, <2>4 DEF Written, Script
  <2>6. ASSUME NEW i \in DOMAIN sent'
        PROVE  Scripted(i)' /\ (i \in {1, 2} => i \in DOMAIN sent /\ sent'[i] = sent[i])
    <3>1. CASE i \in 1..Len(sent)
      <4>1. sent'[i] = sent[i] /\ Scripted(i)
        BY <3>1, <1>0, <2>3, <2>4 DEF Script
      <4> QED  BY <1>0, <3>1, <4>1 DEF Scripted
    <3>2. CASE i - Len(sent) \in 1..n
      <4>1. i \in Nat /\ i > 5
        BY <1>0, <2>3, <2>4, <3>2
      <4>2. i = Len(sent) + (i - Len(sent))
        BY <1>0, <4>1
      <4>3. sent'[i].t = "data"
        BY <2>4, <3>2, <4>2
      <4> QED  BY <4>1, <4>3 DEF Scripted
    <3> QED  BY <2>4, <3>1, <3>2
  <2> QED  BY <1>0, <2>3, <2>5, <2>6 DEF Script
<1>7. CASE PlayProc \/ PlayProcEnds \/ AppClose
  <2>1. OwnClient => Written'
    BY <1>7 DEF PlayProc, PlayProcEnds, AppClose, Script, Written
  <2> QED  BY <1>0, <1>7, <2>1, ScriptSame DEF PlayProc, PlayProcEnds, AppClose
<1>8. CASE PeerClientConnects
  BY <1>0, <1>8, ScriptSame DEF PeerClientConnects
<1>9. CASE PeerClientSends
  <2>1. PICK m \in PeerMessages : Send(<<m>>)
    BY <1>9 DEF PeerClientSends
  <2>2. cpc' = cpc /\ cpc = "peer" /\ UNCHANGED <<cbuf, curCommand>>
    BY <1>9 DEF PeerClientSends
  <2>3. sent \in Seq(Message)
    BY DEF TypeInv, Queues
  <2>4. m \in Message /\ (Len(sent) = 0 => m.t = "C0C1") /\ (Len(sent) = 1 => m.t = "C2")
    BY <2>3, PeerMessagesOK
  <2>5. /\ Len(sent') = Len(sent) + 1 /\ DOMAIN sent' = 1..(Len(sent) + 1)
        /\ sent'[Len(sent) + 1] = m /\ \A i \in 1..Len(sent) : sent'[i] = sent[i]
    BY <2>1, <2>4, SingleIs, SendIs DEF Send
  <2>6. \A i \in DOMAIN sent' : (i = 1 => sent'[i].t = "C0C1") /\ (i = 2 => sent'[i].t = "C2")
    <3>1. \A i \in DOMAIN sent' : i \in DOMAIN sent \/ i = Len(sent) + 1
      BY <1>0, <2>5
    <3>2. \A i \in DOMAIN sent : sent'[i] = sent[i]
      BY <1>0, <2>5
    <3> QED  BY <1>0, <2>4, <2>5, <3>1, <3>2 DEF Script
  <2>7. ~OwnClient
    BY <1>9 DEF PeerClientSends, TypeInv, Phase
  <2> QED  BY <1>0, <2>2, <2>6, <2>7 DEF Script, OwnClient
<1>10. CASE UNCHANGED <<dialogueVars, sent>>
  <2>1. OwnClient => Written'
    BY <1>10 DEF Script, Written
  <2> QED  BY <1>0, <1>10, <2>1, ScriptSame
<1>11. CASE HandleConnStep \/ ServeMedia \/ ServeRead \/ ServeEnds \/ PeerClientCloses
            \/ PeerServerSends \/ PeerServerCloses \/ NetworkFails \/ NetworkStalls \/ NetworkRecovers \/ UNCHANGED vars
  <2>1. UNCHANGED <<dialogueVars, sent>>
    BY <1>11 DEF HandleConnStep, ReadC0C1, ReadC2, HandshakeServerTimeout, SetUpPlayOrPublish,
                 ServerReadFails, HandleConnect, ServeMedia, ServeRead, ServeEnds, PeerClientCloses,
                 PeerServerSends, PeerServerCloses, NetworkFails, NetworkStalls, NetworkRecovers, vars
  <2> QED  BY <1>10, <2>1
<1> QED
  BY <1>1, <1>2, <1>3, <1>4, <1>5, <1>6, <1>7, <1>8, <1>9, <1>11 DEF Next, StartStep

\* Every action that sends appends to both the history and the wire; only SendPacket
\* sends media.
LEMMA Sends ==
  ASSUME TypeInv, Script
  PROVE  /\ Dial \/ WriteCommand \/ PeerClientSends =>
              \E ms \in Seq(Message) : /\ sent' = sent \o ms /\ c2s' = c2s \o ms
                                       /\ \A i \in 1..Len(ms) : ms[i].t # "data"
         /\ \A p \in Packets : SendPacket(p) =>
              \E n \in 0..Len(Batch(p)) :
                /\ sent' = sent \o Parts(p, n) /\ c2s' = c2s \o Parts(p, n)
                /\ videoFirst' = (videoFirst /\ ~(n > 0 /\ Batch(p)[1] = "vseq"))
                /\ audioFirst' = (audioFirst /\ ~(n > 0 /\ Batch(p)[1] = "aseq"))
<1>0. sent \in Seq(Message) /\ c2s \in Seq(Message)
  BY DEF TypeInv, Queues
<1>1. ASSUME NEW m \in Message, m.t # "data", 
             sent' = sent \o <<m>>, c2s' = c2s \o <<m>>
      PROVE  \E ms \in Seq(Message) : /\ sent' = sent \o ms /\ c2s' = c2s \o ms
                                      /\ \A i \in 1..Len(ms) : ms[i].t # "data"
  <2>1. <<m>> \in Seq(Message) /\ \A i \in 1..Len(<<m>>) : <<m>>[i].t # "data"
    BY <1>1
  <2> QED  BY <1>1, <2>1
<1>2. ASSUME Dial
      PROVE  \E ms \in Seq(Message) : /\ sent' = sent \o ms /\ c2s' = c2s \o ms
                                      /\ \A i \in 1..Len(ms) : ms[i].t # "data"
  <2>1. Msg("C0C1", 0, "zero") \in Message /\ Msg("C0C1", 0, "zero").t # "data"
    BY DEF Msg, Message, Types, Words, MediaCommands
  <2>2. /\ sent' = sent \o <<Msg("C0C1", 0, "zero")>>
        /\ c2s' = c2s \o <<Msg("C0C1", 0, "zero")>>
    BY <1>2 DEF Dial, Send
  <2> QED  BY <1>1, <2>1, <2>2
<1>3. ASSUME PeerClientSends
      PROVE  \E ms \in Seq(Message) : /\ sent' = sent \o ms /\ c2s' = c2s \o ms
                                      /\ \A i \in 1..Len(ms) : ms[i].t # "data"
  <2>1. PICK m \in PeerMessages : sent' = sent \o <<m>> /\ c2s' = c2s \o <<m>>
    BY <1>3 DEF PeerClientSends, Send
  <2>2. m \in Message /\ m.t # "data"
    BY <1>0, PeerMessagesOK
  <2> QED  BY <1>1, <2>1, <2>2
<1>4. ASSUME WriteCommand
      PROVE  \E ms \in Seq(Message) : /\ sent' = sent \o ms /\ c2s' = c2s \o ms
                                      /\ \A i \in 1..Len(ms) : ms[i].t # "data"
  <2>1. CASE Send(cbuf \o <<Command>>)
    <3>1. cpc = "command" /\ Command \in Message /\ Command.t # "data"
      BY <1>4, CommandOK DEF WriteCommand, TypeInv, TypeOK, Commands
    <3>2. OwnClient
      BY <3>1 DEF TypeInv, Phase
    <3>3. Msg("C2", 0, "echo") \in Message /\ Msg("C2", 0, "echo").t # "data"
      BY DEF Msg, Message, Types, Words, MediaCommands
    <3>4. cbuf = <<>> \/ cbuf = <<Msg("C2", 0, "echo")>>
      BY <3>1, <3>2 DEF Script, Written
    <3>5. /\ cbuf \o <<Command>> \in Seq(Message)
          /\ \A i \in 1..Len(cbuf \o <<Command>>) : (cbuf \o <<Command>>)[i].t # "data"
      <4>1. CASE cbuf = <<>>
        BY <3>1, <4>1
      <4>2. CASE cbuf = <<Msg("C2", 0, "echo")>>
        <5> DEFINE ms == cbuf \o <<Command>>
        <5>1. ms \in Seq(Message) /\ Len(ms) = 2 /\ ms[1] = Msg("C2", 0, "echo") /\ ms[2] = Command
          BY <3>1, <3>3, <4>2
        <5>2. \A i \in 1..2 : i = 1 \/ i = 2
          OBVIOUS
        <5> QED  BY <3>1, <3>3, <5>1, <5>2
      <4> QED  BY <3>4, <4>1, <4>2
    <3>6. sent' = sent \o (cbuf \o <<Command>>) /\ c2s' = c2s \o (cbuf \o <<Command>>)
      BY <2>1 DEF Send
    <3> QED  BY <3>5, <3>6
  <2>2. CASE UNCHANGED <<c2s, sent>>
    <3> DEFINE ms == <<>>
    <3>1. ms \in Seq(Message) /\ sent \o ms = sent /\ c2s \o ms = c2s
      BY <1>0
    <3>2. \A i \in 1..Len(ms) : ms[i].t # "data"
      OBVIOUS
    <3> HIDE DEF ms
    <3> QED  BY <2>2, <3>1, <3>2
  <2> QED  BY <1>4, <2>1, <2>2 DEF WriteCommand
<1>5. ASSUME NEW p \in Packets, SendPacket(p)
      PROVE  \E n \in 0..Len(Batch(p)) :
                /\ sent' = sent \o Parts(p, n) /\ c2s' = c2s \o Parts(p, n)
                /\ videoFirst' = (videoFirst /\ ~(n > 0 /\ Batch(p)[1] = "vseq"))
                /\ audioFirst' = (audioFirst /\ ~(n > 0 /\ Batch(p)[1] = "aseq"))
  BY <1>5 DEF SendPacket, Parts, Send
<1> QED  BY <1>2, <1>3, <1>4, <1>5

\* The other actions send nothing.
LEMMA SendsNot ==
  ASSUME [Next]_vars
  PROVE  \/ Dial \/ WriteCommand \/ PeerClientSends
         \/ \E p \in Packets : SendPacket(p)
         \/ UNCHANGED <<sent, videoFirst, audioFirst>>
  BY DEF Next, StartStep, HandleConnStep, ReadS0S1S2, HandshakeClientFails,
         ReadResponse, ReadResponseFails, PlayProc, PlayProcEnds, AppClose, ReadC0C1,
         ReadC2, HandshakeServerTimeout, SetUpPlayOrPublish, ServerReadFails, HandleConnect,
         ServeMedia, ServeRead, ServeEnds, PeerClientConnects, PeerClientCloses,
         PeerServerSends, PeerServerCloses, NetworkFails, NetworkStalls, NetworkRecovers, vars, appVars

-----------------------------------------------------------------------------
(* Sequence headers *)

\* A message that is no frame, or a frame whose header went before, may be added.
LEMMA HeadersAdd ==
  ASSUME TypeInv, HeadersInv, NEW ms \in Seq(Message), sent' = sent \o ms, c2s' = c2s \o ms,
         ~videoFirst' => ~videoFirst \/ \E i \in 1..Len(ms) : ms[i].t = "data" /\ ms[i].arg = "vseq",
         ~audioFirst' => ~audioFirst \/ \E i \in 1..Len(ms) : ms[i].t = "data" /\ ms[i].arg = "aseq",
         \A i \in 1..Len(ms) : \A f \in {<<"h264", "vseq">>, <<"aac", "aseq">>} :
           ms[i].t = "data" /\ ms[i].arg = f[1] =>
             HasData(f[2]) \/ \E j \in 1..(i - 1) : ms[j].t = "data" /\ ms[j].arg = f[2]
  PROVE  HeadersInv'
<1>1. /\ Len(ms) \in Nat /\ Len(sent) \in Nat /\ Len(sent') = Len(sent) + Len(ms)
      /\ \A i \in 1..Len(sent) : sent'[i] = sent[i]
      /\ \A i \in 1..Len(ms) : sent'[Len(sent) + i] = ms[i]
      /\ \A i \in 1..Len(sent') : i \in 1..Len(sent) \/ i - Len(sent) \in 1..Len(ms)
      /\ DOMAIN sent = 1..Len(sent) /\ DOMAIN sent' = 1..Len(sent')
  BY SendIs
<1>2. \A arg : HasData(arg) => HasData(arg)'
  BY <1>1 DEF HasData
<1>3. ASSUME NEW arg, NEW i \in 1..Len(ms), ms[i].t = "data" /\ ms[i].arg = arg
      PROVE  HasData(arg)'
  <2> DEFINE L == Len(sent)
             M == Len(ms)
             x == L + i
  <2>1. L \in Nat /\ M \in Nat /\ i \in 1..M /\ DOMAIN sent' = 1..(L + M) /\ sent'[x] = ms[i]
    BY <1>1
  <2>2. x \in 1..(L + M)
    <3> HIDE DEF L, M
    <3> QED  BY ONLY <2>1
  <2> HIDE DEF L, M, x
  <2>3. x \in DOMAIN sent' /\ sent'[x].t = "data" /\ sent'[x].arg = arg
    BY ONLY <1>3, <2>1, <2>2
  <2> QED  BY ONLY <2>3 DEF HasData
<1>4. (~videoFirst' => HasData("vseq")') /\ (~audioFirst' => HasData("aseq")')
  BY <1>2, <1>3 DEF HeadersInv
<1>5. ASSUME NEW i \in DOMAIN sent', NEW f \in {<<"h264", "vseq">>, <<"aac", "aseq">>},
             sent'[i].t = "data" /\ sent'[i].arg = f[1]
      PROVE  \E j \in 1..(i - 1) : sent'[j].t = "data" /\ sent'[j].arg = f[2]
  <2>1. CASE i \in 1..Len(sent)
    <3>0. i \in DOMAIN sent /\ sent[i].t = "data" /\ sent[i].arg = f[1]
      BY <1>1, <1>5, <2>1
    <3>1. PICK j \in 1..(i - 1) : sent[j].t = "data" /\ sent[j].arg = f[2]
      BY <3>0 DEF HeadersInv, HeadersFirst
    <3>2. j \in 1..Len(sent)
      BY <1>1, <2>1
    <3> QED  BY <1>1, <3>1, <3>2
  <2>2. CASE i - Len(sent) \in 1..Len(ms)
    <3> DEFINE L == Len(sent)
               k == i - L
    <3>0. i \in Nat /\ L \in Nat /\ Len(ms) \in Nat /\ k \in 1..Len(ms)
      BY <1>1, <1>5, <2>2
    <3> HIDE DEF L
    <3>1. k \in 1..Len(ms) /\ i = L + k
      BY ONLY <3>0
    <3> HIDE DEF k
    <3>m. \A j \in 1..Len(ms) : sent'[L + j] = ms[j]
      BY <1>1 DEF L
    <3>2. ms[k].t = "data" /\ ms[k].arg = f[1]
      BY <1>5, <3>1, <3>m
    <3>3. CASE HasData(f[2])
      <4>1. PICK j \in DOMAIN sent : sent[j].t = "data" /\ sent[j].arg = f[2]
        BY <3>3 DEF HasData
      <4>2. j \in 1..L /\ sent'[j] = sent[j]
        BY <1>1 DEF L
      <4>3. j \in 1..(i - 1)
        BY ONLY <3>0, <3>1, <4>2
      <4> QED  BY <4>1, <4>2, <4>3
    <3>4. CASE \E j \in 1..(k - 1) : ms[j].t = "data" /\ ms[j].arg = f[2]
      <4>1. PICK j \in 1..(k - 1) : ms[j].t = "data" /\ ms[j].arg = f[2]
        BY <3>4
      <4>2. L + j \in 1..(i - 1) /\ j \in 1..Len(ms)
        BY ONLY <3>0, <3>1, j \in 1..(k - 1)
      <4> DEFINE y == L + j
      <4>3. y \in 1..(i - 1) /\ sent'[y] = ms[j]
        BY <3>m, <4>2
      <4> HIDE DEF y
      <4> QED  BY ONLY <4>1, <4>3
    <3> QED  BY <3>1, <3>2, <3>3, <3>4
  <2> QED  BY <1>1, <1>5, <2>1, <2>2
<1> QED  BY <1>4, <1>5 DEF HeadersInv, HeadersFirst

\* SendPacket sends the header with the first frame, and marks it as sent when it is.
LEMMA HeadersStep == TypeInv /\ Script /\ HeadersInv /\ [Next]_vars => HeadersInv'
<1> SUFFICES ASSUME TypeInv, Script, HeadersInv, [Next]_vars  PROVE HeadersInv'
  OBVIOUS
<1>1. CASE Dial \/ WriteCommand \/ PeerClientSends
  <2>1. PICK ms \in Seq(Message) : /\ sent' = sent \o ms /\ c2s' = c2s \o ms
                                   /\ \A i \in 1..Len(ms) : ms[i].t # "data"
    BY <1>1, Sends
  <2>2. UNCHANGED <<videoFirst, audioFirst>>
    BY <1>1 DEF Dial, WriteCommand, PeerClientSends, appVars
  <2> QED  BY <2>1, <2>2, HeadersAdd
<1>2. ASSUME NEW p \in Packets, SendPacket(p)  PROVE HeadersInv'
  <2>1. PICK n \in 0..Len(Batch(p)) :
          /\ sent' = sent \o Parts(p, n) /\ c2s' = c2s \o Parts(p, n)
          /\ videoFirst' = (videoFirst /\ ~(n > 0 /\ Batch(p)[1] = "vseq"))
          /\ audioFirst' = (audioFirst /\ ~(n > 0 /\ Batch(p)[1] = "aseq"))
    BY <1>2, Sends
  <2> DEFINE ms == Parts(p, n)
  <2>2. /\ n \in Nat /\ ms \in Seq(Message) /\ Len(ms) = n
        /\ \A i \in 1..n : ms[i].t = "data" /\ ms[i].arg = Batch(p)[i]
    BY PartsOK
  <2>3. sent' = sent \o ms /\ c2s' = c2s \o ms
    BY <2>1
  <2> HIDE DEF ms
  <2>4. p \in KnownPackets
    BY SessionAssumption
  <2>5. ~videoFirst' => ~videoFirst \/ \E i \in 1..Len(ms) : ms[i].t = "data" /\ ms[i].arg = "vseq"
    <3>1. CASE n > 0 /\ Batch(p)[1] = "vseq"
      <4>1. 1 \in 1..Len(ms) /\ ms[1].t = "data" /\ ms[1].arg = "vseq"
        BY <2>2, <3>1
      <4> QED  BY <4>1
    <3>2. CASE ~(n > 0 /\ Batch(p)[1] = "vseq")
      BY <2>1, <3>2, Zenon
    <3> QED  BY <3>1, <3>2, Zenon
  <2>6. ~audioFirst' => ~audioFirst \/ \E i \in 1..Len(ms) : ms[i].t = "data" /\ ms[i].arg = "aseq"
    <3>1. CASE n > 0 /\ Batch(p)[1] = "aseq"
      <4>1. 1 \in 1..Len(ms) /\ ms[1].t = "data" /\ ms[1].arg = "aseq"
        BY <2>2, <3>1
      <4> QED  BY <4>1
    <3>2. CASE ~(n > 0 /\ Batch(p)[1] = "aseq")
      BY <2>1, <3>2, Zenon
    <3> QED  BY <3>1, <3>2, Zenon
  <2>7. ASSUME NEW i \in 1..n
        PROVE  /\ Batch(p)[i] = "h264" => ~videoFirst \/ (i = 2 /\ Batch(p)[1] = "vseq")
               /\ Batch(p)[i] = "aac" => ~audioFirst \/ (i = 2 /\ Batch(p)[1] = "aseq")
    <3>1. /\ p = "h264sps" /\ videoFirst => Batch(p) = <<"vseq", "h264">>
          /\ p = "h264sps" /\ ~videoFirst => Batch(p) = <<"h264">>
          /\ p = "h264" /\ videoFirst => Batch(p) = <<>>
          /\ p = "h264" /\ ~videoFirst => Batch(p) = <<"h264">>
          /\ p = "aac" /\ audioFirst => Batch(p) = <<"aseq", "aac">>
          /\ p = "aac" /\ ~audioFirst => Batch(p) = <<"aac">>
          /\ p \in {"jpeg", "g711"} => Batch(p) = <<p>>
      BY DEF Batch
    <3> QED  BY <2>4, <3>1 DEF KnownPackets
  <2>8. \A i \in 1..Len(ms) : \A f \in {<<"h264", "vseq">>, <<"aac", "aseq">>} :
          ms[i].t = "data" /\ ms[i].arg = f[1] =>
            HasData(f[2]) \/ \E j \in 1..(i - 1) : ms[j].t = "data" /\ ms[j].arg = f[2]
    <3> SUFFICES ASSUME NEW i \in 1..n, NEW f \in {<<"h264", "vseq">>, <<"aac", "aseq">>},
                        Batch(p)[i] = f[1]
                 PROVE  HasData(f[2]) \/ \E j \in 1..(i - 1) : ms[j].t = "data" /\ ms[j].arg = f[2]
      BY <2>2
    <3>1. CASE i = 2
      <4>1. 1 \in 1..(i - 1) /\ ms[1].t = "data" /\ ms[1].arg = Batch(p)[1]
        BY <2>2, <3>1
      <4> QED  BY <2>7, <4>1 DEF HeadersInv
    <3>2. CASE i # 2
      BY <2>7, <3>2 DEF HeadersInv
    <3> QED  BY <3>1, <3>2
  <2> QED  BY <2>2, <2>3, <2>5, <2>6, <2>8, HeadersAdd
<1>3. CASE UNCHANGED <<sent, videoFirst, audioFirst>>
  BY <1>3 DEF HeadersInv, HeadersFirst, HasData
<1> QED  BY <1>1, <1>2, <1>3, SendsNot

-----------------------------------------------------------------------------
(* What the server takes *)

\* The application a server has taken is that of the messages it has read.
LEMMA AppOfSame ==
  ASSUME NEW k \in Nat, \A i \in 1..k : sent'[i] = sent[i], fc'.app = fc.app, AppOf(k)
  PROVE  AppOf(k)'
<1>1. CASE fc.app = "none" /\ \A j \in 1..k : sent[j].t # "connect"
  BY <1>1 DEF AppOf
<1>2. ASSUME NEW j \in 1..k, sent[j].t = "connect" /\ fc.app = sent[j].arg,
             \A l \in (j + 1)..k : sent[l].t # "connect"
      PROVE  AppOf(k)'
  <2>1. \A l \in (j + 1)..k : l \in 1..k
    OBVIOUS
  <2>2. \A l \in (j + 1)..k : sent'[l].t # "connect"
    BY <1>2, <2>1
  <2> QED  BY <1>2, <2>2 DEF AppOf
<1> QED  BY <1>1, <1>2 DEF AppOf

\* What the server has taken does not change when the client sends more.
LEMMA KeptSend ==
  ASSUME TypeInv, Kept, NEW ms \in Seq(Message), sent' = sent \o ms, c2s' = c2s \o ms,
         fc' = fc, spc' = spc \/ (spc = "idle" /\ spc' \in {"c0c1", "peer"})
  PROVE  Kept'
<1>1. /\ Len(ms) \in Nat /\ Len(sent) \in Nat /\ Len(c2s) \in Nat
      /\ Len(sent') = Len(sent) + Len(ms) /\ Len(c2s') = Len(c2s) + Len(ms)
      /\ \A i \in 1..Len(sent) : sent'[i] = sent[i]
      /\ \A i \in 1..Len(ms) : sent'[Len(sent) + i] = ms[i]
      /\ \A i \in 1..Len(c2s) : c2s'[i] = c2s[i]
      /\ \A i \in 1..Len(ms) : c2s'[Len(c2s) + i] = ms[i]
      /\ DOMAIN c2s = 1..Len(c2s) /\ DOMAIN c2s' = 1..Len(c2s')
  BY SendIs
<1>2. Len(c2s) <= Len(sent) /\ Taken' = Taken /\ Taken \in Nat /\ Taken <= Len(sent)
      /\ Taken = Len(sent) - Len(c2s)
  BY <1>1 DEF Kept, Taken
<1>3. \A i \in 1..Taken : sent'[i] = sent[i]
  BY <1>1, <1>2
<1>4. \A i \in DOMAIN c2s' : c2s'[i] = sent'[Taken' + i]
  <2> SUFFICES ASSUME NEW i \in DOMAIN c2s'  PROVE c2s'[i] = sent'[Taken + i]
    BY <1>2
  <2>1. CASE i \in 1..Len(c2s)
    <3>1. c2s'[i] = sent[Taken + i]
      BY <1>1, <2>1 DEF Kept
    <3>2. Taken + i \in 1..Len(sent)
      BY <1>1, <1>2, <2>1
    <3> QED  BY <1>1, <3>1, <3>2
  <2>2. CASE i \notin 1..Len(c2s)
    <3> DEFINE C == Len(c2s)
               S == Len(sent)
               M == Len(ms)
               k == i - C
    <3>0. /\ C \in Nat /\ S \in Nat /\ M \in Nat /\ Taken = S - C
          /\ i \in 1..(C + M) /\ i \notin 1..C
      BY <1>1, <1>2, <2>2 DEF Taken
    <3>1. k \in 1..Len(ms) /\ i = Len(c2s) + k /\ Taken + i = Len(sent) + k
      <4> HIDE DEF C, S, M
      <4>1. k \in 1..M /\ i = C + k /\ (S - C) + i = S + k
        BY ONLY <3>0
      <4> QED  BY <3>0, <4>1 DEF C, S, M
    <3> HIDE DEF k
    <3> QED  BY <1>1, <3>1
  <2> QED  BY <2>1, <2>2
<1>5. ASSUME NEW k \in Nat, k = Taken, NoMediaCommand(k), AppOf(k)
      PROVE  NoMediaCommand(k)' /\ AppOf(k)'
  BY <1>3, <1>5, AppOfSame DEF NoMediaCommand
<1>6. ASSUME NEW i \in 1..Taken, DecidedBy(i)  PROVE DecidedBy(i)'
  <2>1. \A j \in 1..i : sent'[j] = sent[j]
    BY <1>2, <1>3
  <2>2. sent'[i] = sent[i] /\ \A j \in 1..(i - 1) : sent'[j] = sent[j]
    BY <1>2, <2>1
  <2>3. AppOf(i)'
    <3>1. AppOf(i)
      BY <1>6 DEF DecidedBy
    <3>2. i \in Nat /\ fc'.app = fc.app
      BY <1>2
    <3> QED  BY <2>1, <3>1, <3>2, AppOfSame
  <2>4. NoMediaCommand(i - 1)'
    BY <1>6, <2>2 DEF NoMediaCommand, DecidedBy
  <2> QED  BY <1>6, <2>2, <2>3, <2>4 DEF DecidedBy
<1>7. spc' = "setup" => NoMediaCommand(Taken)' /\ AppOf(Taken)'
  <2> SUFFICES ASSUME spc = "setup"  PROVE NoMediaCommand(Taken)' /\ AppOf(Taken)'
    OBVIOUS
  <2>1. PICK k \in Nat : k = Taken
    BY <1>2
  <2>2. NoMediaCommand(k) /\ AppOf(k)
    BY <2>1 DEF Kept
  <2>3. NoMediaCommand(k)' /\ AppOf(k)'
    BY <1>5, <2>1, <2>2
  <2> QED  BY <1>2, <2>1, <2>3 DEF NoMediaCommand, AppOf
<1>8. Decided' => \E i \in 1..Taken' : DecidedBy(i)'
  BY <1>2, <1>6 DEF Kept, Decided
<1>9. Len(c2s') <= Len(sent')
  BY <1>1, <1>2
<1> QED  BY <1>2, <1>4, <1>7, <1>8, <1>9 DEF Kept

\* A read of the server takes the next message of the client.
LEMMA KeptRead ==
  ASSUME TypeInv, Kept, c2s # <<>>, c2s' = Tail(c2s), sent' = sent
  PROVE  /\ Taken' = Taken + 1 /\ Taken \in Nat /\ Taken + 1 <= Len(sent)
         /\ Head(c2s) = sent[Taken + 1] /\ Head(c2s) \in Message
         /\ Len(c2s') <= Len(sent') /\ \A i \in DOMAIN c2s' : c2s'[i] = sent'[Taken' + i]
<1>1. sent \in Seq(Message) /\ c2s \in Seq(Message)
  BY DEF TypeInv, Queues
<1>2. /\ Head(c2s) = c2s[1] /\ Head(c2s) \in Message /\ Len(c2s) \in Nat /\ Len(c2s) >= 1
      /\ c2s' \in Seq(Message) /\ Len(c2s') = Len(c2s) - 1
      /\ \A i \in 1..(Len(c2s) - 1) : c2s'[i] = c2s[i + 1]
  BY <1>1, TakeIs
<1>3. Len(sent) \in Nat /\ DOMAIN c2s = 1..Len(c2s) /\ DOMAIN c2s' = 1..(Len(c2s) - 1)
  BY <1>1, <1>2
<1>4. Len(c2s) <= Len(sent) /\ \A i \in 1..Len(c2s) : c2s[i] = sent[(Len(sent) - Len(c2s)) + i]
  BY <1>3 DEF Kept, Taken
<1>5. ASSUME NEW i \in DOMAIN c2s'  PROVE c2s'[i] = sent[(Len(sent) - (Len(c2s) - 1)) + i]
  <2>1. i + 1 \in 1..Len(c2s) /\ c2s'[i] = c2s[i + 1]
    BY <1>2, <1>3
  <2>2. (Len(sent) - Len(c2s)) + (i + 1) = (Len(sent) - (Len(c2s) - 1)) + i
    BY <1>2, <1>3
  <2> QED  BY <1>4, <2>1, <2>2
<1>6. Head(c2s) = sent[(Len(sent) - Len(c2s)) + 1]
  BY <1>2, <1>4
<1> QED  BY <1>2, <1>3, <1>4, <1>5, <1>6 DEF Taken

\* What the server has made of the messages it has taken does not change when it only
\* reads, or when neither side of the connection touches it.
LEMMA KeptSame ==
  ASSUME TypeInv, Kept, fc' = fc, sent' = sent, Taken' \in Nat, Taken' >= Taken,
         Len(c2s') <= Len(sent'), \A i \in DOMAIN c2s' : c2s'[i] = sent'[Taken' + i],
         \/ spc' = "closed"
         \/ spc' = spc /\ Taken' = Taken
         \/ spc \in {"handle", "served"} /\ spc' = "served"
  PROVE  Kept'
<1>0. Taken \in Int
  BY DEF TypeInv, Queues, Taken
<1>1. CASE spc' = "closed"
  BY <1>1 DEF Kept, Decided
<1>2. ASSUME NEW k \in Int  PROVE /\ AppOf(k)' = AppOf(k) /\ NoMediaCommand(k)' = NoMediaCommand(k)
                                   /\ DecidedBy(k)' = DecidedBy(k)
  BY DEF AppOf, NoMediaCommand, DecidedBy
<1>3. Decided => \E i \in 1..Taken' : DecidedBy(i)'
  <2>1. \A i \in 1..Taken : i \in 1..Taken' /\ i \in Int
    BY <1>0
  <2> QED  BY <1>2, <2>1 DEF Kept
<1>4. CASE spc' = spc /\ Taken' = Taken
  <2>1. spc = "setup" => NoMediaCommand(Taken)' /\ AppOf(Taken)'
    <3> SUFFICES ASSUME spc = "setup"  PROVE NoMediaCommand(Taken)' /\ AppOf(Taken)'
      OBVIOUS
    <3>1. PICK k \in Int : k = Taken
      BY <1>0
    <3>2. NoMediaCommand(k)' /\ AppOf(k)'
      BY <1>2, <3>1 DEF Kept
    <3> QED  BY <1>4, <3>1, <3>2 DEF NoMediaCommand, AppOf
  <2>2. Decided' = Decided
    BY <1>4 DEF Decided
  <2> QED  BY <1>3, <1>4, <2>1, <2>2 DEF Kept
<1>5. CASE spc \in {"handle", "served"} /\ spc' = "served"
  BY <1>3, <1>5 DEF Kept, Decided
<1> QED  BY <1>1, <1>4, <1>5

\* One more message is taken.
LEMMA AppOfNext ==
  ASSUME NEW k \in Nat, AppOf(k), sent' = sent,
         fc'.app = IF sent[k + 1].t = "connect" THEN sent[k + 1].arg ELSE fc.app
  PROVE  AppOf(k + 1)'
<1>0. \A j \in 1..(k + 1) : j \in 1..k \/ j = k + 1
  OBVIOUS
<1>1. CASE sent[k + 1].t = "connect"
  <2>1. k + 1 \in 1..(k + 1) /\ \A l \in ((k + 1) + 1)..(k + 1) : FALSE
    OBVIOUS
  <2> QED  BY <1>1, <2>1 DEF AppOf
<1>2. CASE sent[k + 1].t # "connect" /\ fc.app = "none" /\ \A j \in 1..k : sent[j].t # "connect"
  BY <1>0, <1>2 DEF AppOf
<1>3. ASSUME sent[k + 1].t # "connect",
             NEW j \in 1..k, sent[j].t = "connect" /\ fc.app = sent[j].arg,
             \A l \in (j + 1)..k : sent[l].t # "connect"
      PROVE  AppOf(k + 1)'
  <2>1. j \in 1..(k + 1) /\ \A l \in (j + 1)..(k + 1) : l \in (j + 1)..k \/ l = k + 1
    OBVIOUS
  <2> QED  BY <1>3, <2>1 DEF AppOf
<1> QED  BY <1>1, <1>2, <1>3 DEF AppOf

\* A turn of SetUpPlayOrPublish that goes well: the message is taken.
LEMMA KeptSetUp ==
  ASSUME TypeInv, Kept, spc = "setup", c2s # <<>>, c2s' = Tail(c2s), sent' = sent,
         fc' = TakeCommand(Head(c2s)),
         spc' = IF Head(c2s).t \in {"publish", "play"} THEN "handle" ELSE "setup"
  PROVE  Kept'
<1>1. /\ Taken' = Taken + 1 /\ Taken \in Nat /\ Taken + 1 <= Len(sent)
      /\ Head(c2s) = sent[Taken + 1] /\ Head(c2s) \in Message
      /\ Len(c2s') <= Len(sent') /\ \A i \in DOMAIN c2s' : c2s'[i] = sent'[Taken' + i]
  BY KeptRead
<1>2. PICK k \in Nat : k = Taken
  BY <1>1
<1> DEFINE m == sent[k + 1]
<1>3. k >= 2 /\ NoMediaCommand(k) /\ AppOf(k)
  BY <1>2 DEF Kept
<1>4. /\ fc'.app = IF m.t = "connect" THEN m.arg ELSE fc.app
      /\ m.t \in MediaCommands => fc'.name = m.arg /\ fc'.isPublisher = (m.t = "publish")
  BY <1>1, <1>2, TakeCommandOK DEF TypeInv
<1>5. AppOf(k + 1)'
  BY <1>3, <1>4, AppOfNext
<1>6. CASE m.t \in MediaCommands
  <2>1. spc' = "handle"
    BY <1>1, <1>2, <1>6 DEF MediaCommands
  <2>2. NoMediaCommand((k + 1) - 1)'
    BY <1>3 DEF NoMediaCommand
  <2>3. DecidedBy(k + 1)'
    BY <1>4, <1>5, <1>6, <2>2 DEF DecidedBy
  <2>4. k + 1 \in 1..Taken'
    BY <1>1, <1>2
  <2>5. \E i \in 1..Taken' : DecidedBy(i)'
    BY <2>3, <2>4
  <2> QED  BY <1>1, <2>1, <2>5 DEF Kept, Decided
<1>7. CASE m.t \notin MediaCommands
  <2>1. spc' = "setup"
    BY <1>1, <1>2, <1>7 DEF MediaCommands
  <2>2. NoMediaCommand(k + 1)'
    <3>1. \A j \in 1..(k + 1) : j \in 1..k \/ j = k + 1
      OBVIOUS
    <3> QED  BY <1>3, <1>7, <3>1 DEF NoMediaCommand
  <2>3. NoMediaCommand(Taken)' /\ AppOf(Taken)'
    BY <1>1, <1>2, <1>5, <2>2 DEF NoMediaCommand, AppOf
  <2>4. Taken' >= 2
    BY <1>1, <1>2, <1>3
  <2> QED  BY <1>1, <2>1, <2>3, <2>4 DEF Kept, Decided
<1> QED  BY <1>6, <1>7

\* isPublisher is set when the answer to publish has gone, and not before.
LEMMA UndecidedStep == TypeInv /\ Undecided /\ (cpc = "dial" => spc = "idle") /\ [Next]_vars => Undecided'
<1> SUFFICES ASSUME TypeInv, Undecided, cpc = "dial" => spc = "idle", [Next]_vars  PROVE Undecided'
  OBVIOUS
<1>1. CASE SetUpPlayOrPublish
  <2> DEFINE m == Head(c2s)
  <2>1. /\ spc = "setup" /\ c2s # <<>>
        /\ \/ spc' = "closed"
           \/ fc' = TakeCommand(m) /\ spc' = IF m.t \in {"publish", "play"} THEN "handle" ELSE "setup"
    BY <1>1 DEF SetUpPlayOrPublish, HandleConnFails, CanRead
  <2>2. m \in Message
    BY <2>1, TakeIs DEF TypeInv, Queues
  <2>3. m.t \notin MediaCommands => TakeCommand(m).isPublisher = fc.isPublisher
    BY <2>2, TakeCommandOK DEF TypeInv
  <2> HIDE DEF m
  <2> QED  BY <2>1, <2>3 DEF Undecided, MediaCommands
<1>2. CASE ~SetUpPlayOrPublish
  <2>1. /\ fc' = fc
        /\ \/ spc' = spc \/ spc' \in {"closed", "peer", "served"}
           \/ spc = "idle" /\ spc' = "c0c1"
           \/ spc = "c0c1" /\ spc' = "c2"
           \/ spc = "c2" /\ spc' = "setup"
    <3>1. CASE StartStep \/ Dial \/ (\E p \in Packets : SendPacket(p)) \/ PlayProc \/ PlayProcEnds \/ AppClose
      BY <3>1 DEF StartStep, Dial, Accept, ReadS0S1S2, HandshakeClientFails, WriteCommand,
         ReadResponse, ReadResponseFails, SendPacket, PlayProc, PlayProcEnds, AppClose, serverVars
    <3>2. CASE HandleConnStep
      BY <1>2, <3>2 DEF HandleConnStep, ReadC0C1, ReadC2, HandshakeServerTimeout, ServerReadFails,
         HandleConnect, HandleConnFails
    <3>3. CASE ServeMedia \/ ServeRead \/ ServeEnds \/ PeerClientConnects \/ PeerClientSends \/ PeerClientCloses
      BY <3>3 DEF ServeMedia, ServeRead, ServeEnds, PeerClientConnects, PeerClientSends,
         PeerClientCloses, Accept, HandleConnFails, serverVars
    <3>4. CASE PeerServerSends \/ PeerServerCloses \/ NetworkFails \/ NetworkStalls \/ NetworkRecovers
               \/ UNCHANGED vars
      BY <3>4 DEF PeerServerSends, PeerServerCloses, NetworkFails, NetworkStalls, NetworkRecovers,
         vars, serverVars
    <3> QED  BY <3>1, <3>2, <3>3, <3>4 DEF Next
  <2> QED  BY <2>1 DEF Undecided
<1> QED  BY <1>1, <1>2

\* handleConn keeps the last application and the first publish or play, whatever the
\* order in which the two ends run.
LEMMA KeptStep ==
  TypeInv /\ Script /\ Kept /\ (cpc = "dial" => spc = "idle") /\ [Next]_vars => Kept'
<1> SUFFICES ASSUME TypeInv, Script, Kept, cpc = "dial" => spc = "idle", [Next]_vars  PROVE Kept'
  OBVIOUS
<1>0. sent \in Seq(Message) /\ c2s \in Seq(Message) /\ Taken \in Nat
  BY DEF TypeInv, Queues, Kept, Taken
<1>1. CASE Dial \/ WriteCommand \/ PeerClientSends
  <2>1. PICK ms \in Seq(Message) : sent' = sent \o ms /\ c2s' = c2s \o ms
    BY <1>1, Sends
  <2>2. fc' = fc /\ (spc' = spc \/ (spc = "idle" /\ spc' \in {"c0c1", "peer"}))
    BY <1>1 DEF Dial, Accept, WriteCommand, PeerClientSends, serverVars
  <2> QED  BY <2>1, <2>2, KeptSend
<1>2. ASSUME NEW p \in Packets, SendPacket(p)  PROVE Kept'
  <2>1. PICK n \in 0..Len(Batch(p)) : sent' = sent \o Parts(p, n) /\ c2s' = c2s \o Parts(p, n)
    BY <1>2, Sends
  <2> DEFINE ms == Parts(p, n)
  <2>2. ms \in Seq(Message) /\ sent' = sent \o ms /\ c2s' = c2s \o ms
    BY <2>1, PartsOK
  <2> HIDE DEF ms
  <2>3. fc' = fc /\ spc' = spc
    BY <1>2 DEF SendPacket, serverVars
  <2> QED  BY <2>2, <2>3, KeptSend
<1>3. CASE PeerClientConnects
  <2> DEFINE ms == <<>>
  <2>1. ms \in Seq(Message) /\ sent' = sent \o ms /\ c2s' = c2s \o ms
    BY <1>0, <1>3 DEF PeerClientConnects
  <2>2. fc' = fc /\ spc = "idle" /\ spc' \in {"c0c1", "peer"}
    BY <1>3 DEF PeerClientConnects, Accept
  <2> HIDE DEF ms
  <2> QED  BY <2>1, <2>2, KeptSend
<1>4. ASSUME c2s # <<>>, c2s' = Tail(c2s), sent' = sent, fc' = fc,
             spc' = "closed" \/ (spc = "served" /\ spc' = "served")
      PROVE  Kept'
  <2>1. /\ Taken' \in Nat /\ Taken' >= Taken
        /\ Len(c2s') <= Len(sent') /\ \A i \in DOMAIN c2s' : c2s'[i] = sent'[Taken' + i]
    BY <1>4, KeptRead
  <2> QED  BY <1>4, <2>1, KeptSame
<1>5. CASE ReadC0C1
  <2>1. c2s # <<>> /\ c2s' = Tail(c2s) /\ sent' = sent /\ fc' = fc /\ spc = "c0c1"
        /\ spc' \in {"c2", "closed"}
    BY <1>5 DEF ReadC0C1, CanRead, HandleConnFails
  <2>2. CASE spc' = "c2"
    <3>1. /\ Taken' = 1 /\ Len(c2s') <= Len(sent')
          /\ \A i \in DOMAIN c2s' : c2s'[i] = sent'[Taken' + i]
      BY <2>1, KeptRead DEF Kept
    <3> QED  BY <2>1, <2>2, <3>1 DEF Kept, Decided
  <2> QED  BY <1>4, <2>1, <2>2
<1>6. CASE ReadC2
  <2>1. c2s # <<>> /\ c2s' = Tail(c2s) /\ sent' = sent /\ fc' = fc /\ spc = "c2" /\ spc' = "setup"
    BY <1>6 DEF ReadC2, CanRead
  <2>2. /\ Taken' = 2 /\ Taken + 1 <= Len(sent) /\ Taken = 1 /\ Len(c2s') <= Len(sent')
        /\ \A i \in DOMAIN c2s' : c2s'[i] = sent'[Taken' + i]
    BY <2>1, KeptRead DEF Kept
  <2>3. \A j \in 1..2 : j \in DOMAIN sent /\ (j = 1 \/ j = 2)
    BY <1>0, <2>2
  <2>4. \A j \in 1..2 : sent[j].t \in {"C0C1", "C2"}
    BY <2>3 DEF Script
  <2>5. fc.app = "none"
    BY <2>1 DEF Kept
  <2>6. NoMediaCommand(Taken)' /\ AppOf(Taken)'
    BY <2>1, <2>2, <2>4, <2>5 DEF NoMediaCommand, AppOf, MediaCommands
  <2> QED  BY <2>1, <2>2, <2>6 DEF Kept, Decided
<1>7. CASE SetUpPlayOrPublish
  <2>1. c2s # <<>> /\ c2s' = Tail(c2s) /\ sent' = sent /\ spc = "setup"
    BY <1>7 DEF SetUpPlayOrPublish, CanRead
  <2>2. \/ spc' = "closed"
        \/ /\ fc' = TakeCommand(Head(c2s))
           /\ spc' = IF Head(c2s).t \in {"publish", "play"} THEN "handle" ELSE "setup"
    BY <1>7 DEF SetUpPlayOrPublish, HandleConnFails
  <2>3. CASE spc' = "closed"
    <3>1. Len(c2s') <= Len(sent') /\ \A i \in DOMAIN c2s' : c2s'[i] = sent'[Taken' + i]
      BY <2>1, KeptRead
    <3> QED  BY <2>3, <3>1 DEF Kept, Decided
  <2> QED  BY <2>1, <2>2, <2>3, KeptSetUp
<1>8. CASE ServeRead
  BY <1>4, <1>8 DEF ServeRead, CanRead, serverVars
<1>9. ASSUME UNCHANGED <<c2s, sent, fc>>,
             spc' = spc \/ spc' = "closed" \/ (spc = "handle" /\ spc' = "served")
      PROVE  Kept'
  <2>1. /\ Taken' = Taken /\ Len(c2s') <= Len(sent')
        /\ \A i \in DOMAIN c2s' : c2s'[i] = sent'[Taken' + i]
    BY <1>9 DEF Kept, Taken
  <2> QED  BY <1>0, <1>9, <2>1, KeptSame
<1>10. CASE \/ HandshakeServerTimeout \/ ServerReadFails \/ HandleConnect \/ ServeEnds
  BY <1>9, <1>10 DEF HandshakeServerTimeout, ServerReadFails, HandleConnect, ServeEnds, HandleConnFails
<1>11. CASE \/ ReadS0S1S2 \/ HandshakeClientFails \/ ReadResponse \/ ReadResponseFails
            \/ PlayProc \/ PlayProcEnds \/ AppClose \/ ServeMedia \/ PeerClientCloses
            \/ PeerServerSends \/ PeerServerCloses \/ NetworkFails \/ NetworkStalls \/ NetworkRecovers \/ UNCHANGED vars
  <2>1. UNCHANGED <<c2s, sent, fc, spc>>
    BY <1>11 DEF ReadS0S1S2, HandshakeClientFails, ReadResponse, ReadResponseFails, PlayProc,
                 PlayProcEnds, AppClose, ServeMedia, PeerClientCloses, PeerServerSends,
                 PeerServerCloses, NetworkFails, NetworkStalls, NetworkRecovers, vars, serverVars, wireVars
  <2> QED  BY <1>9, <2>1
<1> QED
  BY <1>1, <1>2, <1>3, <1>5, <1>6, <1>7, <1>8, <1>10, <1>11 DEF Next, StartStep, HandleConnStep

-----------------------------------------------------------------------------
(* What comes back *)

\* The commands of the own client carry the ids 1 and 2.
LEMMA ScriptedIds ==
  ASSUME TypeInv, Script, OwnClient, NEW i \in DOMAIN sent
  PROVE  (sent[i].t = "connect" => sent[i].id = 1) /\ (sent[i].t = "createStream" => sent[i].id = 2)
<1>1. i \in Nat /\ i >= 1 /\ sent \in Seq(Message)
  BY DEF TypeInv, Queues
<1>2. Scripted(i) /\ (i = 2 => sent[i].t = "C2")
  BY DEF Script
<1>3. url.method \in {"publish", "play"}
  BY DEF TypeInv, Fixed, MediaCommands
<1>4. i = 1 \/ i = 2 \/ i = 3 \/ i = 4 \/ i = 5 \/ i > 5
  BY <1>1
<1> QED  BY <1>2, <1>3, <1>4 DEF Scripted, Msg

\* Who the ends are does not change, nor does what they grant.
LEMMA TruthfulSame ==
  ASSUME UNCHANGED <<ends, url, grants>>
  PROVE  \A m : Truthful(m)' = Truthful(m)
  BY DEF Truthful, OwnServer

\* Reading takes the first message; S0S1S2 can only be that one.
LEMMA BackwardRead ==
  ASSUME TypeInv, Backward, UNCHANGED <<ends, url, grants>>, s2c # <<>>, s2c' = Tail(s2c)
  PROVE  Backward'
<1>1. /\ s2c \in Seq(Message) /\ Len(s2c) \in Nat /\ Len(s2c) >= 1
      /\ s2c' \in Seq(Message) /\ Len(s2c') = Len(s2c) - 1
      /\ \A i \in 1..(Len(s2c) - 1) : s2c'[i] = s2c[i + 1]
  BY TakeIs DEF TypeInv, Queues
<1>2. ASSUME NEW i \in DOMAIN s2c'
      PROVE  i + 1 \in DOMAIN s2c /\ s2c'[i] = s2c[i + 1] /\ i + 1 # 1
  BY <1>1
<1> QED  BY <1>2, TruthfulSame DEF Backward, OwnClient

\* Sending adds answers that are true.
LEMMA BackwardAdd ==
  ASSUME TypeInv, Backward, UNCHANGED <<ends, url, grants, cpc>>, NEW ms \in Seq(Message),
         s2c' = s2c \o ms,
         OwnClient => \A i \in 1..Len(ms) : Truthful(ms[i]) /\ ms[i].t # "S0S1S2"
  PROVE  Backward'
<1>1. /\ Len(s2c) \in Nat /\ Len(ms) \in Nat
      /\ Len(s2c') = Len(s2c) + Len(ms) /\ s2c' \in Seq(Message) /\ s2c \in Seq(Message)
      /\ \A i \in 1..Len(s2c) : s2c'[i] = s2c[i]
      /\ \A i \in 1..Len(ms) : s2c'[Len(s2c) + i] = ms[i]
  BY JoinIs DEF TypeInv, Queues
<1>2. ASSUME NEW i \in DOMAIN s2c', OwnClient
      PROVE  /\ Truthful(s2c'[i])
             /\ s2c'[i].t = "S0S1S2" => i = 1 /\ cpc \in {"handshake", "failed"}
  <2>1. CASE i \in 1..Len(s2c)
    BY <1>1, <1>2, <2>1 DEF Backward
  <2>2. CASE i \notin 1..Len(s2c)
    <3>1. PICK k \in 1..Len(ms) : i = Len(s2c) + k
      <4>1. i \in Nat /\ i - Len(s2c) \in 1..Len(ms) /\ i = Len(s2c) + (i - Len(s2c))
        <5>1. i \in 1..(Len(s2c) + Len(ms))
          BY <1>1
        <5> QED  BY <1>1, <2>2, <5>1
      <4> QED  BY <4>1
    <3>2. s2c'[i] = ms[k]
      BY <1>1, <3>1
    <3> QED  BY <1>2, <3>2
  <2> QED  BY <2>1, <2>2
<1> QED  BY <1>2, TruthfulSame DEF Backward, OwnClient

\* Once the handshake is over the client may go on, S0S1S2 being gone.
LEMMA BackwardSame ==
  ASSUME Backward, UNCHANGED <<ends, url, grants, s2c>>,
         cpc' = cpc \/ cpc' = "failed" \/ cpc \notin {"handshake", "failed"} \/ s2c = <<>>
  PROVE  Backward'
  BY TruthfulSame DEF Backward, OwnClient

\* The answer to the message that SetUpPlayOrPublish reads.
LEMMA RespondTruthful ==
  ASSUME TypeInv, Script, OwnClient, OwnServer, OwnServer => grants = Commands,
         NEW k \in DOMAIN sent, NEW m, m = sent[k], ~(m.t = "connect" /\ m.id # 1),
         NEW i \in 1..Len(Respond(m, TakeCommand(m).transactionID))
  PROVE  /\ Truthful(Respond(m, TakeCommand(m).transactionID)[i])
         /\ Respond(m, TakeCommand(m).transactionID)[i].t # "S0S1S2"
<1>1. m \in Message
  BY DEF TypeInv, Queues
<1>2. m.t = "createStream" => m.id = 2
  BY ScriptedIds
<1>3. /\ m.t \in Commands => TakeCommand(m).transactionID = m.id
      /\ TakeCommand(m).transactionID \in Nat
  BY <1>1, TakeCommandOK DEF TypeInv
<1> DEFINE r == Respond(m, TakeCommand(m).transactionID)
<1>4. /\ m.t = "connect" => r = <<Msg("_result", 1, "Connect.Success")>>
      /\ m.t = "createStream" => r = <<Msg("_result", 2, "stream")>>
      /\ m.t = "publish" => r = <<Status("Publish.Start")>>
      /\ m.t = "play" => r = <<Status("Play.Reset"), Status("Play.Start"),
                               Status("Data.Start"), Status("Play.PublishNotify")>>
      /\ m.t \notin Commands => r = <<>>
  <2>1. m.id \in Nat
    BY <1>1 DEF Message
  <2>2. CASE m.t \in Commands
    <3>1. r = Respond(m, m.id)
      BY <1>3, <2>2
    <3>2. (m.t = "connect" => m.id = 1) /\ (m.t = "createStream" => m.id = 2)
      BY <1>2
    <3> HIDE DEF r
    <3> QED  BY <1>1, <2>1, <2>2, <3>1, <3>2, RespondOK DEF Commands
  <2>3. CASE m.t \notin Commands
    BY <1>1, <1>3, <2>3, RespondOK DEF Commands
  <2> QED  BY <2>2, <2>3
<1>5. /\ Truthful(Msg("_result", 1, "Connect.Success")) /\ Truthful(Msg("_result", 2, "stream"))
      /\ \A c \in {"Publish.Start", "Play.Reset", "Play.Start", "Data.Start", "Play.PublishNotify"} :
           Truthful(Status(c)) /\ Status(c).t = "onStatus"
      /\ Msg("_result", 1, "Connect.Success").t = "_result" /\ Msg("_result", 2, "stream").t = "_result"
  BY DEF Truthful, Status, Msg, Commands
<1> HIDE DEF r
<1>6. i \in 1..Len(r)
  BY DEF r
<1>7. Truthful(r[i]) /\ r[i].t # "S0S1S2"
  <2>1. CASE m.t \in {"connect", "createStream", "publish"}
    <3>1. \E x : r = <<x>>
      BY <1>4, <2>1
    <3>2. i = 1
      BY <1>6, <3>1
    <3> QED  BY <1>4, <1>5, <2>1, <3>2
  <2>2. CASE m.t = "play"
    <3>0. \E x, y, z, u : r = <<x, y, z, u>>
      BY <1>4, <2>2
    <3>1. i = 1 \/ i = 2 \/ i = 3 \/ i = 4
      BY <1>6, <3>0
    <3> QED  BY <1>4, <1>5, <2>2, <3>1
  <2>3. CASE m.t \notin Commands
    BY <1>4, <1>6, <2>3
  <2> QED  BY <2>1, <2>2, <2>3 DEF Commands
<1> QED  BY <1>7 DEF r

\* The server greets before the client goes on, and says only what is so.
LEMMA RepliesStep ==
  TypeInv /\ Script /\ Kept /\ Replies /\ [Next]_vars => Replies'
<1> SUFFICES ASSUME TypeInv, Script, Kept, Replies, [Next]_vars  PROVE Replies'
  OBVIOUS
<1>0. UNCHANGED <<ends, url, grants>> /\ Backward /\ s2c \in Seq(Message)
  BY FixedStep DEF TypeInv, Queues, Replies
<1>1. OwnServer' = OwnServer /\ OwnClient' = OwnClient
  BY <1>0 DEF OwnServer, OwnClient
<1>2. CASE Dial \/ PeerClientConnects
  <2>1. /\ cpc = "dial" /\ cpc' \in {"handshake", "peer"} /\ s2c' = s2c /\ replies' = replies
        /\ spc' = IF OwnServer THEN "c0c1" ELSE "peer"
    BY <1>2 DEF Dial, PeerClientConnects, Accept
  <2>2. spc = "idle" /\ ~Greeted /\ s2c = <<>>
    BY <2>1 DEF Replies, Greeted
  <2>3. Backward'
    BY <1>0, <2>1, <2>2, BackwardSame
  <2> QED  BY <1>0, <1>1, <2>1, <2>2, <2>3 DEF Replies
<1>3. CASE ReadS0S1S2 \/ ReadResponse \/ PlayProc
  <2>1. /\ s2c # <<>> /\ s2c' = Tail(s2c) /\ UNCHANGED <<spc, replies>>
        /\ cpc # "dial" /\ cpc' # "dial"
    BY <1>3 DEF ReadS0S1S2, ReadResponse, PlayProc, CanRead, serverVars, dialogueVars
  <2>2. Greeted /\ Greeted'
    BY <1>1, <2>1 DEF Replies, Greeted
  <2>3. Backward'
    BY <1>0, <2>1, BackwardRead
  <2> QED  BY <1>0, <1>1, <2>1, <2>2, <2>3 DEF Replies
<1>4. CASE \/ HandshakeClientFails \/ WriteCommand \/ ReadResponseFails \/ PlayProcEnds \/ AppClose
           \/ (\E p \in Packets : SendPacket(p)) \/ PeerClientSends \/ PeerClientCloses
           \/ PeerServerCloses \/ NetworkFails \/ NetworkStalls \/ NetworkRecovers \/ ServeRead \/ UNCHANGED vars
  <2>1. UNCHANGED <<s2c, spc, replies>>
    BY <1>4 DEF HandshakeClientFails, WriteCommand, ReadResponseFails, PlayProcEnds, AppClose,
                SendPacket, PeerClientSends, PeerClientCloses, PeerServerCloses, NetworkFails, NetworkStalls, NetworkRecovers,
                ServeRead, vars, serverVars, wireVars
  <2>2. \/ cpc' = cpc
        \/ cpc # "dial" /\ cpc' = "failed"
        \/ cpc \in {"command", "open"} /\ cpc' \in {"wait", "closed"}
    BY <1>4 DEF HandshakeClientFails, WriteCommand, ReadResponseFails, PlayProcEnds, AppClose,
                SendPacket, PeerClientSends, PeerClientCloses, PeerServerCloses, NetworkFails, NetworkStalls, NetworkRecovers,
                ServeRead, vars, dialogueVars
  <2>3. Greeted' = Greeted
    BY <1>1, <2>1 DEF Greeted
  <2>4. Backward'
    BY <1>0, <2>1, <2>2, BackwardSame
  <2> QED  BY <1>0, <1>1, <2>1, <2>2, <2>3, <2>4 DEF Replies
<1>5. CASE \/ ReadC2 \/ HandshakeServerTimeout \/ ServerReadFails \/ HandleConnect \/ ServeEnds
  <2>1. /\ UNCHANGED <<s2c, cpc, replies>> /\ spc \notin {"idle", "peer"}
        /\ spc' \notin {"idle", "c0c1", "peer"}
    BY <1>5 DEF ReadC2, HandshakeServerTimeout, ServerReadFails, HandleConnect, ServeEnds,
                HandleConnFails, dialogueVars
  <2>2. Backward' /\ OwnServer /\ Greeted' /\ cpc # "dial"
    BY <1>0, <1>1, <2>1, BackwardSame DEF Replies, Greeted
  <2> QED  BY <1>0, <1>1, <2>1, <2>2 DEF Replies
<1>6. CASE ReadC0C1
  <2>1. /\ UNCHANGED <<cpc, replies>> /\ spc = "c0c1" /\ spc' \in {"c2", "closed"}
        /\ s2c' = Append(s2c, Msg("S0S1S2", 0, "none")) \/ s2c' = s2c
    BY <1>6 DEF ReadC0C1, HandleConnFails, dialogueVars
  <2>2. OwnServer /\ ~Greeted /\ Greeted' /\ cpc \in {"handshake", "failed", "peer"}
    BY <1>1, <2>1 DEF Replies, Greeted
  <2>3. s2c = <<>> /\ (OwnClient => cpc \in {"handshake", "failed"})
    BY <2>2 DEF Replies, TypeInv, Phase
  <2>4. CASE s2c' = Append(s2c, Msg("S0S1S2", 0, "none"))
    <3>1. DOMAIN s2c' = {1} /\ s2c'[1] = Msg("S0S1S2", 0, "none")
      BY <2>3, <2>4
    <3>2. Truthful(Msg("S0S1S2", 0, "none"))
      BY DEF Truthful, Msg
    <3>3. Backward'
      BY <1>0, <1>1, <2>1, <2>3, <3>1, <3>2, TruthfulSame DEF Backward
    <3> QED  BY <1>0, <1>1, <2>1, <2>2, <3>3 DEF Replies
  <2>5. CASE s2c' = s2c
    <3>1. Backward'
      BY <1>0, <2>1, <2>5, BackwardSame
    <3> QED  BY <1>0, <1>1, <2>1, <2>2, <3>1 DEF Replies
  <2> QED  BY <2>1, <2>4, <2>5
<1>7. CASE SetUpPlayOrPublish
  <2> DEFINE m == Head(c2s)
             r == Respond(m, TakeCommand(m).transactionID)
  <2>1. /\ UNCHANGED <<cpc, replies, sent>> /\ spc = "setup" /\ spc' \in {"setup", "handle", "closed"}
        /\ c2s # <<>> /\ c2s' = Tail(c2s)
        /\ \/ s2c' = s2c
           \/ /\ s2c' = s2c \o r \/ \E n \in 0..(Len(r) - 1) : s2c' = s2c \o SubSeq(r, 1, n)
              /\ ~(m.t = "connect" /\ m.id # 1)
    BY <1>7 DEF SetUpPlayOrPublish, HandleConnFails, dialogueVars, CanRead
  <2>2. OwnServer /\ Greeted' /\ cpc # "dial" /\ grants = Commands
    BY <1>1, <2>1 DEF Replies, Greeted
  <2>3. CASE s2c' = s2c
    <3>1. Backward'
      BY <1>0, <2>1, <2>3, BackwardSame
    <3> QED  BY <1>0, <1>1, <2>1, <2>2, <3>1 DEF Replies
  <2>4. CASE /\ s2c' = s2c \o r \/ \E n \in 0..(Len(r) - 1) : s2c' = s2c \o SubSeq(r, 1, n)
             /\ ~(m.t = "connect" /\ m.id # 1)
    <3>1. Taken \in Nat /\ Taken + 1 <= Len(sent) /\ m = sent[Taken + 1] /\ m \in Message
      BY <2>1, KeptRead
    <3>2. PICK k \in DOMAIN sent : m = sent[k]
      BY <3>1 DEF TypeInv, Queues
    <3>3. TakeCommand(m).transactionID \in Nat
      BY <3>1, TakeCommandOK DEF TypeInv
    <3>4. r \in Seq(Message)
      BY <3>1, <3>3, RespondOK
    <3>5. OwnClient => \A i \in 1..Len(r) : Truthful(r[i]) /\ r[i].t # "S0S1S2"
      BY <2>2, <2>4, <3>2, RespondTruthful
    <3> HIDE DEF r, m
    <3>6. CASE s2c' = s2c \o r
      <4>1. Backward'
        BY <1>0, <2>1, <3>4, <3>5, <3>6, BackwardAdd
      <4> QED  BY <1>0, <1>1, <2>1, <2>2, <4>1 DEF Replies
    <3>7. ASSUME NEW n \in 0..(Len(r) - 1), s2c' = s2c \o SubSeq(r, 1, n)  PROVE Replies'
      <4>1. PICK q : q = SubSeq(r, 1, n)
        OBVIOUS
      <4>2. n \in 0..Len(r) /\ Len(r) \in Nat
        BY <3>4
      <4>3. q \in Seq(Message) /\ Len(q) = n /\ \A i \in 1..n : q[i] = r[i]
        BY <3>4, <4>1, <4>2, PrefixIs
      <4>4. OwnClient => \A i \in 1..Len(q) : Truthful(q[i]) /\ q[i].t # "S0S1S2"
        BY <3>5, <4>2, <4>3
      <4>5. Backward'
        BY <1>0, <2>1, <3>7, <4>1, <4>3, <4>4, BackwardAdd
      <4> QED  BY <1>0, <1>1, <2>1, <2>2, <4>5 DEF Replies
    <3> QED  BY <2>4, <3>6, <3>7
  <2> QED  BY <2>1, <2>3, <2>4
<1>8. ASSUME NEW m \in Message, s2c' = Append(s2c, m), UNCHANGED <<cpc, spc>>, cpc # "dial",
             replies' \in Nat, Greeted, Greeted', OwnClient => Truthful(m) /\ m.t # "S0S1S2"
      PROVE  Replies'
  <2> DEFINE ms == <<m>>
  <2>1. ms \in Seq(Message) /\ s2c' = s2c \o ms
        /\ (OwnClient => \A i \in 1..Len(ms) : Truthful(ms[i]) /\ ms[i].t # "S0S1S2")
    BY <1>0, <1>8
  <2> HIDE DEF ms
  <2>2. Backward'
    BY <1>0, <1>8, <2>1, BackwardAdd
  <2> QED  BY <1>0, <1>1, <1>8, <2>2 DEF Replies
<1>9. CASE ServeMedia
  <2>1. /\ Msg("media", 0, "none") \in Message /\ Truthful(Msg("media", 0, "none"))
        /\ Msg("media", 0, "none").t = "media"
    BY DEF Msg, Message, Types, Words, MediaCommands, Truthful
  <2>2. s2c' = Append(s2c, Msg("media", 0, "none")) /\ UNCHANGED <<cpc, spc, replies>> /\ spc = "served"
    BY <1>9 DEF ServeMedia, dialogueVars, serverVars
  <2>3. Greeted /\ Greeted' /\ cpc # "dial" /\ replies' \in Nat
    BY <1>1, <2>2 DEF Replies, Greeted
  <2> QED  BY <1>8, <2>1, <2>2, <2>3
<1>10. CASE PeerServerSends
  <2>1. PICK m \in IF replies = 0 THEN {Msg("S0S1S2", 0, "none")}
                   ELSE {Answer(x) : x \in {y \in ToSet(sent) : y.t \in Commands}}
                          \cup {Msg(t, 0, "none") : t \in Unsolicited} :
               s2c' = Append(s2c, m)
    BY <1>10 DEF PeerServerSends
  <2>2. UNCHANGED <<cpc, spc>> /\ spc = "peer" /\ replies' = replies + 1 /\ ~OwnServer /\ cpc # "dial"
    BY <1>10 DEF PeerServerSends, dialogueVars, serverVars, Replies
  <2>3. replies \in Nat /\ replies' \in Nat /\ Greeted' /\ (replies # 0 => Greeted)
    BY <1>1, <2>2 DEF Replies, Greeted
  <2>4. CASE replies = 0
    <3>1. s2c = <<>> /\ cpc \in {"handshake", "failed", "peer"}
      BY <2>2, <2>4 DEF Replies, Greeted
    <3>2. OwnClient => cpc \in {"handshake", "failed"}
      BY <3>1 DEF TypeInv, Phase
    <3>3. DOMAIN s2c' = {1} /\ s2c'[1] = Msg("S0S1S2", 0, "none")
      BY <2>1, <2>4, <3>1
    <3>4. Truthful(Msg("S0S1S2", 0, "none"))
      BY DEF Truthful, Msg
    <3>5. Backward'
      BY <1>0, <1>1, <2>2, <3>2, <3>3, <3>4, TruthfulSame DEF Backward
    <3> QED  BY <1>0, <1>1, <2>2, <2>3, <3>5 DEF Replies
  <2>5. ASSUME replies # 0, NEW x \in ToSet(sent), x.t \in Commands, m = Answer(x)  PROVE Replies'
    <3>1. PICK k \in DOMAIN sent : x = sent[k]
      BY <2>5 DEF ToSet
    <3>2. x \in Message
      BY <3>1 DEF TypeInv, Queues
    <3>3. m \in Message /\ m.t # "S0S1S2"
      BY <2>5, <3>2, AnswerOK
    <3>4. OwnClient => Truthful(m)
      <4> SUFFICES ASSUME OwnClient  PROVE Truthful(m)
        OBVIOUS
      <4>1. (x.t = "connect" => x.id = 1) /\ (x.t = "createStream" => x.id = 2)
        BY <3>1, ScriptedIds
      <4> QED  BY <2>5, <3>2, <4>1, AnswerOK DEF Truthful
    <3> QED  BY <1>8, <2>1, <2>2, <2>3, <2>5, <3>3, <3>4
  <2>6. ASSUME replies # 0, NEW t \in Unsolicited, m = Msg(t, 0, "none")  PROVE Replies'
    <3>1. t \in KnownUnsolicited
      BY SessionAssumption
    <3>2. m \in Message /\ m.t = t
      BY <2>6, <3>1 DEF Msg, Message, Types, Words, MediaCommands, KnownUnsolicited
    <3>3. Truthful(m) /\ m.t # "S0S1S2"
      BY <2>2, <3>1, <3>2 DEF Truthful, KnownUnsolicited
    <3> QED  BY <1>8, <2>1, <2>2, <2>3, <2>6, <3>2, <3>3
  <2> QED  BY <2>1, <2>4, <2>5, <2>6
<1> QED
  BY <1>2, <1>3, <1>4, <1>5, <1>6, <1>7, <1>9, <1>10 DEF Next, StartStep, HandleConnStep

\* What ends a wait well is an answer that grants the command.
LEMMA AnswerIs ==
  ASSUME TypeInv, Replies, OwnClient, NoAggregate, cpc = "wait", s2c # <<>>,
         waitForResponse(s2c[1]) = "next"
  PROVE  /\ Accepts(s2c[1])
         /\ curCommand = "connect" => "connect" \in grants
         /\ curCommand = "createStream" => s2c[1].arg = "stream" /\ "createStream" \in grants
         /\ curCommand \in MediaCommands => curCommand \in grants
<1> DEFINE m == s2c[1]
<1>1. Truthful(m) /\ m.t # "S0S1S2"
  <2>1. 1 \in DOMAIN s2c
    BY DEF TypeInv, Queues
  <2> QED  BY <2>1 DEF Replies, Backward
<1> HIDE DEF m
<1>2. m.t # "aggregate"
  BY <1>1 DEF Truthful, NoAggregate
<1>3. Accepts(m)
  <2>1. waitForResponse(m) = "next"
    BY DEF m
  <2>2. m.t \in {"_result", "_error", "onStatus", "onBWDone", "media", "shared"}
    BY <1>1, <1>2 DEF Truthful
  <2> QED  BY <2>1, <2>2 DEF waitForResponse
<1>4. curCommand = "createStream" => transID = 2
  BY DEF TypeInv, Phase
<1>5. curCommand = "connect" => "connect" \in grants
  BY <1>1, <1>3 DEF Accepts, Truthful
<1>6. curCommand = "createStream" => m.arg = "stream" /\ "createStream" \in grants
  BY <1>1, <1>3, <1>4 DEF Accepts, Truthful
<1>7. curCommand \in MediaCommands => curCommand \in grants
  BY <1>1, <1>3 DEF Accepts, Truthful, MediaCommands
<1> QED  BY <1>3, <1>5, <1>6, <1>7 DEF m

\* Start goes from one command to the next only when the server has granted it.
LEMMA GrantStep == TypeInv /\ Replies /\ GrantInv /\ [Next]_vars => GrantInv'
<1> SUFFICES ASSUME TypeInv, Replies, GrantInv, [Next]_vars  PROVE GrantInv'
  OBVIOUS
<1>1. UNCHANGED <<ends, url, grants>>
  BY FixedStep DEF TypeInv
<1> SUFFICES ASSUME OwnClient, NoAggregate  PROVE GrantInv'
  <2>1. OwnClient' = OwnClient /\ NoAggregate' = NoAggregate
    BY <1>1 DEF OwnClient, NoAggregate, OwnServer
  <2> QED  BY <2>1 DEF GrantInv
<1>2. /\ curCommand # "connect" => "connect" \in grants
      /\ curCommand \in MediaCommands => "createStream" \in grants /\ streamid = StreamID
      /\ cpc \in {"open", "closed"} => curCommand \in MediaCommands /\ url.method \in grants
  BY DEF GrantInv
<1>3. ASSUME UNCHANGED <<curCommand, streamid>>,
             cpc' \in {"open", "closed"} => cpc \in {"open", "closed"}
      PROVE  GrantInv'
  BY <1>1, <1>2, <1>3 DEF GrantInv
<1>4. CASE ReadResponse
  <2> DEFINE m == s2c[1]
             r == waitForResponse(m)
  <2>1. /\ cpc = "wait" /\ s2c # <<>> /\ Head(s2c) = m
        /\ streamid' = IF curCommand = "createStream" /\ m.arg = "stream" THEN StreamID ELSE streamid
        /\ cpc' = CASE r = "again" -> "wait"
                    [] r = "failed" -> "failed"
                    [] r = "next" /\ curCommand \in {"publish", "play"} -> "open"
                    [] OTHER -> "command"
        /\ curCommand' = IF r = "next" THEN NextCommand ELSE curCommand
    BY <1>4 DEF ReadResponse, CanRead
  <2>2. url.method \in MediaCommands /\ curCommand \in Commands
        /\ (curCommand \in MediaCommands => curCommand = url.method)
    BY DEF TypeInv, Fixed, TypeOK, Phase
  <2>3. r = "next" => /\ curCommand = "connect" => "connect" \in grants
                      /\ curCommand = "createStream" => m.arg = "stream" /\ "createStream" \in grants
                      /\ curCommand \in MediaCommands => curCommand \in grants
    BY <2>1, AnswerIs
  <2>4. r \in {"again", "failed", "next"}
    BY DEF waitForResponse
  <2> HIDE DEF m, r
  <2>5. CASE r = "next"
    <3>1. cpc' = IF curCommand \in MediaCommands THEN "open" ELSE "command"
      BY <2>1, <2>5 DEF MediaCommands
    <3>2. CASE curCommand = "connect"
      <4>1. curCommand' = "createStream" /\ cpc' = "command"
        BY <2>1, <2>5, <3>1, <3>2 DEF NextCommand, MediaCommands
      <4> QED  BY <1>1, <2>3, <2>5, <3>2, <4>1 DEF GrantInv, MediaCommands
    <3>3. CASE curCommand = "createStream"
      <4>1. curCommand' = url.method /\ cpc' = "command" /\ streamid' = StreamID
        BY <2>1, <2>3, <2>5, <3>1, <3>3 DEF NextCommand, MediaCommands
      <4> QED  BY <1>1, <1>2, <2>3, <2>5, <3>3, <4>1 DEF GrantInv, MediaCommands
    <3>4. CASE curCommand \in MediaCommands
      <4>1. curCommand' = curCommand /\ cpc' = "open" /\ streamid' = streamid
        BY <2>1, <2>5, <3>1, <3>4 DEF NextCommand, MediaCommands
      <4> QED  BY <1>1, <1>2, <2>2, <2>3, <2>5, <3>4, <4>1 DEF GrantInv, MediaCommands
    <3> QED  BY <2>2, <3>2, <3>3, <3>4 DEF Commands, MediaCommands
  <2>6. CASE r # "next"
    <3>1. curCommand' = curCommand /\ cpc' \in {"wait", "failed"}
      BY <2>1, <2>4, <2>6
    <3>2. curCommand \in MediaCommands => streamid' = streamid
      BY <2>1 DEF MediaCommands
    <3> QED  BY <1>1, <1>2, <3>1, <3>2 DEF GrantInv
  <2> QED  BY <2>5, <2>6
<1>5. CASE [Next]_vars /\ ~ReadResponse
  <2>1. UNCHANGED <<curCommand, streamid>>
    BY <1>5 DEF Next, StartStep, HandleConnStep, Dial, ReadS0S1S2, HandshakeClientFails, WriteCommand,
           ReadResponseFails, SendPacket, PlayProc, PlayProcEnds, AppClose, ReadC0C1,
           ReadC2, HandshakeServerTimeout, SetUpPlayOrPublish, ServerReadFails, HandleConnect,
           ServeMedia, ServeRead, ServeEnds, PeerClientConnects, PeerClientSends, PeerClientCloses,
           PeerServerSends, PeerServerCloses, NetworkFails, NetworkStalls, NetworkRecovers, vars, dialogueVars
  <2>2. cpc' \in {"open", "closed"} => cpc \in {"open", "closed"}
    BY <1>5 DEF Next, StartStep, HandleConnStep, Dial, ReadS0S1S2, HandshakeClientFails, WriteCommand,
           ReadResponseFails, SendPacket, PlayProc, PlayProcEnds, AppClose, ReadC0C1,
           ReadC2, HandshakeServerTimeout, SetUpPlayOrPublish, ServerReadFails, HandleConnect,
           ServeMedia, ServeRead, ServeEnds, PeerClientConnects, PeerClientSends, PeerClientCloses,
           PeerServerSends, PeerServerCloses, NetworkFails, NetworkStalls, NetworkRecovers, vars, dialogueVars
  <2> QED  BY <1>3, <2>1, <2>2
<1> QED  BY <1>4, <1>5

-----------------------------------------------------------------------------
(* Two ends of this program *)

\* Where the types of the own client's messages are.
LEMMA ScriptedTypes ==
  ASSUME TypeInv, Script, OwnClient, NEW i \in DOMAIN sent
  PROVE  /\ sent[i].t = "connect" => i = 3 /\ sent[i].arg = url.app
         /\ sent[i].t \in MediaCommands => i = 5 /\ sent[i].t = url.method /\ sent[i].arg = url.title
         /\ sent[i].t = "createStream" => i = 4
<1>1. i \in Nat /\ i >= 1 /\ sent \in Seq(Message)
  BY DEF TypeInv, Queues
<1>2. Scripted(i) /\ (i = 2 => sent[i].t = "C2")
  BY DEF Script
<1>3. url.method \in {"publish", "play"}
  BY DEF TypeInv, Fixed, MediaCommands
<1>4. i = 1 \/ i = 2 \/ i = 3 \/ i = 4 \/ i = 5 \/ i > 5
  BY <1>1
<1> QED  BY <1>2, <1>3, <1>4 DEF Scripted, Msg, MediaCommands

\* A server that has decided has kept what the own client asked for.
LEMMA DecidedFinal == TypeInv /\ Script /\ Kept /\ OwnClient /\ Decided => Final
<1> SUFFICES ASSUME TypeInv, Script, Kept, OwnClient, Decided  PROVE AsAsked
  BY DEF Final
<1>1. PICK i \in 1..Taken : DecidedBy(i)
  BY DEF Kept
<1>2. Len(sent) \in Nat /\ Len(c2s) \in Nat /\ DOMAIN sent = 1..Len(sent)
  BY DEF TypeInv, Queues
<1>3. i \in Nat /\ i <= Len(sent) /\ i \in DOMAIN sent /\ \A j \in 1..i : j \in DOMAIN sent
  <2>1. Taken = Len(sent) - Len(c2s)
    BY DEF Taken
  <2>2. i \in Nat /\ i >= 1 /\ i <= Len(sent)
    BY <1>2, <2>1
  <2> QED  BY <1>2, <2>2
<1>4. i = 5 /\ sent[i].t = url.method /\ sent[i].arg = url.title
  BY <1>1, <1>3, ScriptedTypes DEF DecidedBy
<1>5. sent[3].t = "connect" /\ 3 \in 1..i
  <2>1. 3 \in 1..i
    BY <1>4
  <2>2. Scripted(3)
    BY <1>3, <2>1 DEF Script
  <2> QED  BY <2>1, <2>2 DEF Scripted, Msg
<1>6. \A j \in 1..i : sent[j].t = "connect" => sent[j].arg = url.app
  BY <1>3, ScriptedTypes
<1>7. fc.app = url.app
  BY <1>1, <1>5, <1>6 DEF DecidedBy, AppOf
<1> QED  BY <1>1, <1>4, <1>7 DEF DecidedBy, AsAsked

\* Start returns, and a status comes, after the server has decided and not before.
LEMMA FinalStep ==
  TypeInv /\ TypeInv' /\ Script /\ Script' /\ Kept /\ Kept' /\ Undecided /\ Replies /\ FinalInv
    /\ [Next]_vars => FinalInv'
<1> SUFFICES ASSUME TypeInv, Script, Kept, Undecided, Replies, FinalInv, [Next]_vars,
                    TypeInv', Script', Kept'
             PROVE  FinalInv'
  OBVIOUS
<1>1. UNCHANGED <<ends, url, grants>>
  BY FixedStep DEF TypeInv
<1> SUFFICES ASSUME ends = Own  PROVE FinalInv'
  BY <1>1 DEF FinalInv
<1>2. OwnClient /\ OwnServer /\ NoAggregate /\ OwnClient'
  BY <1>1 DEF Own, OwnClient, OwnServer, NoAggregate
<1> DEFINE Ante == cpc \in {"open", "closed"} \/ \E i \in DOMAIN s2c : s2c[i].t = "onStatus"
<1>3. Decided' => Final'
  BY <1>2, DecidedFinal, PTL
<1>4. ASSUME UNCHANGED <<spc, fc>>, Ante' => Ante  PROVE FinalInv'
  BY <1>1, <1>4 DEF FinalInv, Final, AsAsked, Decided
<1>5. ASSUME NEW q, q = s2c, s2c' = Tail(q), q # <<>>,
             NEW i \in DOMAIN s2c', s2c'[i].t = "onStatus"
      PROVE  \E j \in DOMAIN s2c : s2c[j].t = "onStatus"
  <2>1. /\ s2c \in Seq(Message) /\ Len(s2c) \in Nat /\ Len(s2c') = Len(s2c) - 1
        /\ \A k \in 1..(Len(s2c) - 1) : s2c'[k] = s2c[k + 1]
        /\ s2c' \in Seq(Message)
    BY <1>5, TakeIs DEF TypeInv, Queues
  <2>2. i \in 1..(Len(s2c) - 1) /\ i + 1 \in DOMAIN s2c
    BY <2>1
  <2> QED  BY <1>5, <2>1, <2>2
<1>6. CASE ReadResponse
  <2>1. cpc = "wait" /\ s2c # <<>> /\ s2c' = Tail(s2c) /\ UNCHANGED <<spc, fc>>
        /\ Head(s2c) = s2c[1] /\ 1 \in DOMAIN s2c
    BY <1>6 DEF ReadResponse, CanRead, serverVars, TypeInv, Queues
  <2>2. cpc' \in {"open", "closed"} => waitForResponse(s2c[1]) = "next" /\ curCommand \in MediaCommands
    BY <1>6, <2>1 DEF ReadResponse, MediaCommands
  <2>3. cpc' \in {"open", "closed"} => s2c[1].t = "onStatus"
    BY <1>2, <2>1, <2>2, AnswerIs DEF Accepts, MediaCommands
  <2> QED  BY <1>4, <1>5, <2>1, <2>3
<1>7. CASE ReadS0S1S2 \/ PlayProc
  <2>1. /\ s2c # <<>> /\ s2c' = Tail(s2c) /\ UNCHANGED <<spc, fc>>
        /\ cpc' \in {"open", "closed"} => cpc \in {"open", "closed"}
    BY <1>7 DEF ReadS0S1S2, PlayProc, CanRead, serverVars, dialogueVars
  <2> QED  BY <1>4, <1>5, <2>1
<1>8. ASSUME NEW m \in Message, s2c' = Append(s2c, m), m.t # "onStatus",
             cpc' = cpc
      PROVE  Ante' => Ante
  <2>1. /\ Len(s2c') = Len(s2c) + 1 /\ Len(s2c) \in Nat /\ s2c' \in Seq(Message) /\ s2c \in Seq(Message)
        /\ \A i \in 1..Len(s2c) : s2c'[i] = s2c[i] /\ s2c'[Len(s2c) + 1] = m
    BY <1>8, AppendIs DEF TypeInv, Queues
  <2>2. \A i \in DOMAIN s2c' : (i \in DOMAIN s2c /\ s2c'[i] = s2c[i]) \/ s2c'[i] = m
    BY <1>8, <2>1
  <2> QED  BY <1>8, <2>2
<1>9. CASE Dial \/ PeerClientConnects
  <2>1. /\ cpc = "dial" /\ cpc' \in {"handshake", "peer"} /\ s2c' = s2c
    BY <1>9 DEF Dial, PeerClientConnects, Accept
  <2>2. s2c = <<>>
    BY <2>1 DEF Replies, Greeted
  <2>3. ~Ante'
    BY <2>1, <2>2
  <2> QED  BY <2>3 DEF FinalInv
<1>10. CASE ReadC0C1
  <2>1. cpc' = cpc /\ spc = "c0c1" /\ fc' = fc
        /\ (s2c' = Append(s2c, Msg("S0S1S2", 0, "none")) \/ s2c' = s2c)
    BY <1>10 DEF ReadC0C1, dialogueVars
  <2>2. ~Ante
    BY <1>2, <2>1 DEF FinalInv, Final, Decided
  <2>3. Msg("S0S1S2", 0, "none") \in Message /\ Msg("S0S1S2", 0, "none").t # "onStatus"
    BY DEF Msg, Message, Types, Words, MediaCommands
  <2>4. Ante' => Ante
    BY <1>8, <2>1, <2>3
  <2> QED  BY <2>2, <2>4 DEF FinalInv
<1>11. CASE ServeMedia
  <2>1. cpc' = cpc /\ UNCHANGED <<spc, fc>> /\ s2c' = Append(s2c, Msg("media", 0, "none"))
    BY <1>11 DEF ServeMedia, dialogueVars, serverVars
  <2>2. Msg("media", 0, "none") \in Message /\ Msg("media", 0, "none").t # "onStatus"
    BY DEF Msg, Message, Types, Words, MediaCommands
  <2> QED  BY <1>4, <1>8, <2>1, <2>2
<1>12. CASE SetUpPlayOrPublish
  <2> DEFINE m == Head(c2s)
             r == Respond(m, TakeCommand(m).transactionID)
  <2>1. /\ cpc' = cpc /\ spc = "setup" /\ c2s # <<>> /\ c2s' = Tail(c2s) /\ sent' = sent
        /\ \/ s2c' = s2c
           \/ /\ s2c' = s2c \o r
              /\ spc' = IF m.t \in {"publish", "play"} THEN "handle" ELSE "setup"
           \/ /\ \E n \in 0..(Len(r) - 1) : s2c' = s2c \o SubSeq(r, 1, n)
              /\ fc' = [TakeCommand(m) EXCEPT !.isPublisher = fc.isPublisher]
              /\ spc' = "closed"
    BY <1>12 DEF SetUpPlayOrPublish, HandleConnFails, dialogueVars, CanRead
  <2>2. ~Ante
    BY <2>1 DEF FinalInv, Final, Decided
  <2>3. CASE s2c' = s2c
    BY <2>1, <2>2, <2>3 DEF FinalInv
  <2>4. CASE s2c' = s2c \o r /\ spc' = IF m.t \in {"publish", "play"} THEN "handle" ELSE "setup"
    <3>1. m \in Message
      BY <2>1, KeptRead
    <3>2. TakeCommand(m).transactionID \in Nat
      BY <3>1, TakeCommandOK DEF TypeInv
    <3>3. r \in Seq(Message)
      BY <3>1, <3>2, RespondOK
    <3>4. CASE m.t \in MediaCommands
      <4>1. Decided'
        BY <2>4, <3>4 DEF Decided, MediaCommands
      <4> QED  BY <1>3, <4>1 DEF FinalInv
    <3>5. CASE m.t \notin MediaCommands
      <4>1. \A i \in 1..Len(r) : r[i].t # "onStatus"
        <5>1. CASE m.t = "connect" \/ m.t = "createStream"
          <6>1. PICK a : r = <<Msg("_result", TakeCommand(m).transactionID, a)>>
            BY <3>1, <3>2, <5>1, RespondOK
          <6> DEFINE x == Msg("_result", TakeCommand(m).transactionID, a)
          <6>2. r = <<x>> /\ x.t = "_result"
            BY <6>1 DEF Msg
          <6> HIDE DEF x, r
          <6> QED  BY <6>2
        <5>2. CASE m.t \notin Commands
          <6>1. r = <<>>
            BY <3>1, <3>2, <5>2, RespondOK
          <6> HIDE DEF r
          <6> QED  BY <6>1
        <5> QED  BY <3>5, <5>1, <5>2 DEF MediaCommands, Commands
      <4> HIDE DEF r, m
      <4>2. /\ Len(s2c') = Len(s2c) + Len(r) /\ Len(s2c) \in Nat /\ Len(r) \in Nat
            /\ s2c' \in Seq(Message) /\ s2c \in Seq(Message)
            /\ \A i \in 1..Len(s2c) : s2c'[i] = s2c[i]
            /\ \A i \in 1..Len(r) : s2c'[Len(s2c) + i] = r[i]
        BY <2>4, <3>3, JoinIs DEF TypeInv, Queues
      <4>3. ASSUME NEW i \in DOMAIN s2c', i \notin DOMAIN s2c  PROVE s2c'[i].t # "onStatus"
        <5>1. i \in 1..(Len(s2c) + Len(r)) /\ i \notin 1..Len(s2c)
          BY <4>2, <4>3
        <5>2. i - Len(s2c) \in 1..Len(r) /\ i = Len(s2c) + (i - Len(s2c))
          BY <4>2, <5>1
        <5> QED  BY <4>1, <4>2, <5>2
      <4>4. DOMAIN s2c = 1..Len(s2c) /\ \A i \in DOMAIN s2c : s2c'[i] = s2c[i]
        BY <4>2
      <4>5. Ante' => Ante
        BY ONLY <2>1, <4>3, <4>4 DEF Ante
      <4> QED  BY <2>2, <4>5 DEF FinalInv
    <3> QED  BY <3>4, <3>5
  <2>5. ASSUME NEW n \in 0..(Len(r) - 1), s2c' = s2c \o SubSeq(r, 1, n), spc' = "closed",
               fc' = [TakeCommand(m) EXCEPT !.isPublisher = fc.isPublisher]
        PROVE  FinalInv'
    <3>1. m \in Message /\ m = sent[Taken + 1] /\ Taken \in Nat /\ Taken + 1 <= Len(sent)
      BY <2>1, KeptRead
    <3>2. /\ TakeCommand(m) \in [transactionID : Nat, app : Apps \cup {"none"},
                                 name : Names \cup {"none"}, isPublisher : BOOLEAN]
          /\ TakeCommand(m).transactionID \in Nat
      BY <3>1, TakeCommandOK DEF TypeInv
    <3>3. r \in Seq(Message) /\ Len(r) \in Nat
      BY <3>1, <3>2, RespondOK
    <3>4. CASE n = 0
      <4> HIDE DEF r
      <4>1. SubSeq(r, 1, 0) = <<>> /\ s2c \in Seq(Message)
        BY <3>3 DEF TypeInv, Queues
      <4>2. s2c' = s2c
        BY <2>5, <3>4, <4>1
      <4> QED  BY <2>1, <2>2, <4>2 DEF FinalInv
    <3>5. CASE n > 0
      <4>1. m.t = "play"
        <5>1. m.t \in {"connect", "createStream", "publish"} => \E x : r = <<x>>
          BY <3>1, <3>2, RespondOK
        <5>2. m.t \notin Commands => r = <<>>
          BY <3>1, <3>2, RespondOK
        <5> HIDE DEF r
        <5>3. Len(r) >= 2
          BY <3>3, <3>5
        <5>4. m.t \notin {"connect", "createStream", "publish"} /\ m.t \in Commands
          <6>1. (\E x : r = <<x>>) => Len(r) = 1
            OBVIOUS
          <6>2. r = <<>> => Len(r) = 0
            OBVIOUS
          <6>3. Len(r) # 1 /\ Len(r) # 0
            <7>1. PICK l \in Nat : l = Len(r)
              BY <3>3
            <7>2. l >= 2
              BY <5>3, <7>1
            <7>3. l # 1 /\ l # 0
              BY <7>2
            <7> QED  BY <7>1, <7>3
          <6> HIDE DEF m
          <6> QED  BY <5>1, <5>2, <6>1, <6>2, <6>3, Zenon
        <5> QED  BY <5>4 DEF Commands
      <4>2. PICK k \in Nat : k = Taken
        BY <3>1
      <4>3. /\ k + 1 \in DOMAIN sent /\ \A j \in 1..k : j \in DOMAIN sent
            /\ m = sent[k + 1]
        BY <3>1, <4>2 DEF TypeInv, Queues
      <4>4. k + 1 = 5 /\ url.method = "play" /\ m.arg = url.title
        BY <1>2, <4>1, <4>3, ScriptedTypes DEF MediaCommands
      <4>5. fc.app = url.app
        <5>1. k = 4 /\ AppOf(k)
          BY <2>1, <4>2, <4>4 DEF Kept
        <5>2. sent[3].t = "connect" /\ 3 \in 1..k
          <6>1. 3 \in 1..k
            BY <5>1
          <6>2. Scripted(3)
            BY <1>2, <4>3, <6>1 DEF Script
          <6> QED  BY <6>1, <6>2 DEF Scripted, Msg
        <5>3. \A j \in 1..k : sent[j].t = "connect" => sent[j].arg = url.app
          BY <1>2, <4>3, ScriptedTypes
        <5> QED  BY <5>1, <5>2, <5>3 DEF AppOf
      <4>6. TakeCommand(m).app = fc.app /\ TakeCommand(m).name = m.arg
        BY <3>1, <4>1, TakeCommandOK DEF TypeInv, MediaCommands
      <4>7. fc.isPublisher = FALSE
        BY <2>1 DEF Undecided
      <4> DEFINE f == TakeCommand(m)
      <4>8. f.app = url.app /\ f.name = url.title
        BY <4>4, <4>5, <4>6
      <4>9. fc' = [f EXCEPT !.isPublisher = fc.isPublisher]
        BY <2>5
      <4>10. f \in [transactionID : Nat, app : Apps \cup {"none"},
                     name : Names \cup {"none"}, isPublisher : BOOLEAN]
        BY <3>2
      <4> HIDE DEF f, m
      <4>11. fc'.app = url.app /\ fc'.name = url.title /\ fc'.isPublisher = fc.isPublisher
        BY <4>8, <4>9, <4>10
      <4>12. ~(url.method = "publish")
        BY <4>4
      <4>13. fc'.isPublisher = (url.method = "publish")
        BY <4>7, <4>11, <4>12, Zenon
      <4>14. AsAsked'
        BY <1>1, <4>11, <4>13 DEF AsAsked
      <4> QED  BY <2>5, <4>14 DEF FinalInv, Final
    <3> QED  BY <3>3, <3>4, <3>5
  <2> QED  BY <2>1, <2>3, <2>4, <2>5
<1>13. CASE \/ ReadC2 \/ HandshakeServerTimeout \/ ServerReadFails \/ HandleConnect \/ ServeEnds
  <2>1. /\ UNCHANGED <<s2c, cpc, fc>>
        /\ (spc = "handle" /\ spc' = "served") \/ spc' = "closed" \/ (spc = "c2" /\ spc' = "setup")
    BY <1>13 DEF ReadC2, HandshakeServerTimeout, ServerReadFails, HandleConnect, ServeEnds,
                HandleConnFails, dialogueVars
  <2>2. Ante' <=> Ante
    BY <2>1
  <2> QED  BY <1>1, <2>1, <2>2 DEF FinalInv, Final, AsAsked, Decided
<1>14. CASE \/ HandshakeClientFails \/ WriteCommand \/ ReadResponseFails \/ PlayProcEnds \/ AppClose
           \/ (\E p \in Packets : SendPacket(p)) \/ PeerClientSends \/ PeerClientCloses
           \/ PeerServerCloses \/ NetworkFails \/ NetworkStalls \/ NetworkRecovers \/ ServeRead \/ UNCHANGED vars
  <2>1. UNCHANGED <<s2c, spc, fc>>
    BY <1>14 DEF HandshakeClientFails, WriteCommand, ReadResponseFails, PlayProcEnds, AppClose,
                SendPacket, PeerClientSends, PeerClientCloses, PeerServerCloses, NetworkFails, NetworkStalls, NetworkRecovers,
                ServeRead, vars, serverVars, wireVars
  <2>2. cpc' = cpc \/ cpc' \in {"failed", "wait"} \/ (cpc = "open" /\ cpc' = "closed")
    BY <1>14 DEF HandshakeClientFails, WriteCommand, ReadResponseFails, PlayProcEnds, AppClose,
                SendPacket, PeerClientSends, PeerClientCloses, PeerServerCloses, NetworkFails, NetworkStalls, NetworkRecovers,
                ServeRead, vars, dialogueVars
  <2> QED  BY <1>4, <2>1, <2>2
<1>15. ~PeerServerSends
  BY <1>2 DEF PeerServerSends, Replies
<1> QED
  BY <1>6, <1>7, <1>9, <1>10, <1>11, <1>12, <1>13, <1>14, <1>15 DEF Next, StartStep, HandleConnStep

\* Between two ends of this program every step is the one the other end waits for.
LEMMA InStepStep ==
  TypeInv /\ Script /\ Kept /\ Replies /\ InStep /\ [Next]_vars => InStep'
<1> SUFFICES ASSUME TypeInv, Script, Kept, Replies, InStep, [Next]_vars  PROVE InStep'
  OBVIOUS
<1>0. UNCHANGED <<ends, url, grants>>
  BY FixedStep DEF TypeInv
<1> SUFFICES ASSUME ends = Own, ~fault'  PROVE InStep'
  BY <1>0 DEF InStep
<1>1. OwnClient /\ OwnServer /\ Written /\ \A i \in DOMAIN sent : Scripted(i)
  BY DEF Own, OwnClient, OwnServer, Script
<1>2. ~fault
  BY DEF Next, StartStep, HandleConnStep, Dial, ReadS0S1S2, HandshakeClientFails, WriteCommand,
         ReadResponse, ReadResponseFails, SendPacket, PlayProc, PlayProcEnds, AppClose, ReadC0C1,
         ReadC2, HandshakeServerTimeout, SetUpPlayOrPublish, ServerReadFails, HandleConnect,
         ServeMedia, ServeRead, ServeEnds, PeerClientConnects, PeerClientSends, PeerClientCloses,
         PeerServerSends, PeerServerCloses, NetworkFails, NetworkStalls, NetworkRecovers, vars
<1>3. /\ net # "down" /\ cpc # "failed"
      /\ cpc = "handshake" => Greeting
      /\ cpc = "command" => Asking
      /\ cpc = "wait" => Asked \/ Answered
  BY <1>2 DEF InStep
<1>4. /\ sent \in Seq(Message) /\ c2s \in Seq(Message) /\ s2c \in Seq(Message)
      /\ Len(sent) \in Nat /\ Len(c2s) \in Nat /\ Len(s2c) \in Nat
      /\ (c2s = <<>> <=> Len(c2s) = 0) /\ (s2c = <<>> <=> Len(s2c) = 0)
      /\ curCommand \in Commands /\ Taken = Len(sent) - Len(c2s)
  BY DEF TypeInv, Queues, TypeOK, Taken
<1>5. cpc \in {"handshake", "command", "wait"} => copen
  BY DEF TypeInv, Phase
<1>6. CASE Dial
  <2>1. cpc = "dial" /\ cpc' = "handshake" /\ UNCHANGED <<net, s2c>> /\ sopen' = TRUE /\ spc' = "c0c1"
    BY <1>1, <1>6 DEF Dial, Accept
  <2>2. s2c = <<>>
    BY <1>1, <2>1 DEF Replies, Greeted
  <2>3. Greeting'
    BY <2>1, <2>2 DEF Greeting
  <2> QED  BY <1>3, <2>1, <2>3 DEF InStep
<1>7. CASE ReadS0S1S2
  <2>1. /\ cpc = "handshake" /\ s2c # <<>> /\ s2c' = Tail(s2c) /\ cpc' = "command"
        /\ UNCHANGED <<net, sopen, c2s, curCommand, spc>>
    BY <1>7 DEF ReadS0S1S2, CanRead, serverVars
  <2>2. spc = "c2" /\ sopen /\ Len(s2c) = 1 /\ curCommand = "connect"
    BY <1>3, <2>1 DEF Greeting, TypeInv, Phase
  <2>3. s2c' = <<>>
    BY <1>4, <2>1, <2>2
  <2>4. c2s = <<>>
    BY <1>1, <1>4, <2>1, <2>2 DEF Kept, Written
  <2> QED  BY <1>3, <2>1, <2>2, <2>3, <2>4 DEF InStep, Asking
<1>8. ~HandshakeClientFails
  BY <1>3, <1>5 DEF HandshakeClientFails, ReadFails, Greeting
<1>9. CASE WriteCommand
  <2>1. cpc = "command" /\ Asking /\ copen
    BY <1>3, <1>5, <1>9 DEF WriteCommand
  <2>2. /\ cpc' = "wait" /\ c2s' = c2s \o (cbuf \o <<Command>>)
        /\ UNCHANGED <<net, sopen, s2c, spc>>
    BY <1>3, <1>9, <2>1 DEF WriteCommand, WriteMayFail, Asking, Send, serverVars
  <2>3. Command \in Message
    BY <2>1, CommandOK
  <2>4. IF curCommand = "connect" THEN cbuf = <<Msg("C2", 0, "echo")>> ELSE cbuf = <<>>
    BY <1>1, <2>1 DEF Written
  <2>5. Len(c2s') = IF curCommand = "connect" THEN 2 ELSE 1
    BY <2>1, <2>2, <2>3, <2>4 DEF Asking
  <2>6. Asked'
    BY <2>1, <2>2, <2>5 DEF Asked, Asking
  <2> QED  BY <1>3, <2>2, <2>6 DEF InStep
<1>10. CASE ReadResponse
  <2> DEFINE m == s2c[1]
  <2>1. cpc = "wait" /\ s2c # <<>> /\ s2c' = Tail(s2c) /\ UNCHANGED <<net, sopen, c2s, spc>>
        /\ Head(s2c) = m
    BY <1>10 DEF ReadResponse, CanRead, serverVars
  <2>2. Answered
    BY <1>3, <2>1 DEF Asked
  <2>3. waitForResponse(m) = "next"
    BY <2>2 DEF Answered, waitForResponse
  <2>4. /\ cpc' = IF curCommand \in MediaCommands THEN "open" ELSE "command"
        /\ curCommand' = NextCommand
    BY <1>10, <2>1, <2>3 DEF ReadResponse, MediaCommands
  <2>5. CASE curCommand \in MediaCommands
    BY <1>3, <2>1, <2>4, <2>5 DEF InStep
  <2>6. CASE curCommand \notin MediaCommands
    <3>1. curCommand' # "connect"
      <4>1. url.method \in MediaCommands
        BY <1>1 DEF TypeInv, Fixed
      <4> QED  BY <1>4, <2>4, <2>6, <4>1 DEF NextCommand, Commands, MediaCommands
    <3>2. s2c' = <<>> /\ c2s' = <<>> /\ sopen' /\ spc' = "setup"
      BY <1>4, <2>1, <2>2, <2>6 DEF Answered
    <3> QED  BY <1>3, <2>1, <2>4, <2>6, <3>1, <3>2 DEF InStep, Asking
  <2> QED  BY <2>5, <2>6
<1>11. ~ReadResponseFails
  BY <1>3, <1>5 DEF ReadResponseFails, ReadFails, Asked, Answered
<1>12. CASE (\E p \in Packets : SendPacket(p)) \/ PlayProc \/ PlayProcEnds \/ AppClose
  <2>1. cpc' \in {"open", "closed"} /\ net' = net
    BY <1>3, <1>12 DEF SendPacket, PlayProc, PlayProcEnds, AppClose, dialogueVars
  <2> QED  BY <1>3, <2>1 DEF InStep
<1>13. ASSUME UNCHANGED <<net, cpc>>, cpc \notin {"handshake", "command", "wait"}  PROVE InStep'
  BY <1>3, <1>13 DEF InStep
<1>14. CASE ReadC0C1
  <2>1. /\ spc = "c0c1" /\ c2s # <<>> /\ c2s' = Tail(c2s) /\ sent' = sent /\ UNCHANGED <<net, cpc>>
    BY <1>14 DEF ReadC0C1, CanRead, dialogueVars
  <2>2. CASE cpc = "handshake"
    <3>1. sopen /\ s2c = <<>> /\ copen
      BY <1>3, <1>5, <2>1, <2>2 DEF Greeting
    <3>2. Head(c2s).arg = "zero"
      <4>1. Head(c2s) = sent[Taken + 1] /\ Taken = 0 /\ Taken + 1 <= Len(sent)
        BY <2>1, KeptRead DEF Kept
      <4>2. 1 \in DOMAIN sent
        BY <1>4, <4>1
      <4> QED  BY <1>1, <4>1, <4>2 DEF Scripted, Msg
    <3>3. s2c' = Append(s2c, Msg("S0S1S2", 0, "none")) /\ spc' = "c2" /\ sopen' = sopen
      BY <1>3, <1>14, <3>1, <3>2 DEF ReadC0C1, WriteMayFail
    <3>4. Len(s2c') = 1
      BY <3>1, <3>3
    <3> QED  BY <1>3, <2>1, <2>2, <3>1, <3>3, <3>4 DEF InStep, Greeting
  <2>3. cpc \notin {"command", "wait"}
    BY <1>3, <2>1 DEF Asking, Asked, Answered, Decided
  <2> QED  BY <1>13, <2>1, <2>2, <2>3
<1>15. CASE ReadC2
  <2>1. /\ spc = "c2" /\ c2s # <<>> /\ c2s' = Tail(c2s) /\ spc' = "setup"
        /\ UNCHANGED <<net, cpc, sopen, s2c>> /\ Taken = 1
    BY <1>15 DEF ReadC2, CanRead, dialogueVars, Kept
  <2>2. CASE cpc = "wait"
    <3>1. sopen /\ s2c = <<>> /\ Len(c2s) = 2
      BY <1>3, <2>1, <2>2 DEF Asked, Answered
    <3>2. Len(c2s') = 1
      BY <1>4, <2>1, <3>1
    <3> QED  BY <1>3, <2>1, <2>2, <3>1, <3>2 DEF InStep, Asked
  <2>3. cpc # "handshake"
    <3>1. cpc = "handshake" => Len(sent) = 1
      BY <1>1 DEF Written
    <3>2. Len(c2s) # 0
      BY <1>4, <2>1
    <3>3. Len(sent) - Len(c2s) = 1
      BY <2>1 DEF Taken
    <3>4. Len(sent) \in Nat /\ Len(c2s) \in Nat
      BY <1>4
    <3>5. Len(sent) # 1
      BY <3>2, <3>3, <3>4
    <3> QED  BY <3>1, <3>5
  <2>4. cpc # "command"
    BY <1>3, <2>1 DEF Asking
  <2> QED  BY <1>13, <2>1, <2>2, <2>3, <2>4
<1>16. ~HandshakeServerTimeout /\ ~NetworkFails
  BY DEF HandshakeServerTimeout, NetworkFails
<1>22. CASE NetworkStalls \/ NetworkRecovers
  <2>1. UNCHANGED <<cpc, sopen, spc, s2c, c2s, curCommand, transID>> /\ net' # "down"
    BY <1>22 DEF NetworkStalls, NetworkRecovers, dialogueVars, serverVars
  <2> QED  BY <1>3, <2>1 DEF InStep, Greeting, Asking, Asked, Answered, Accepts, Decided
<1>17. CASE SetUpPlayOrPublish
  <2> DEFINE m == Head(c2s)
             r == Respond(m, TakeCommand(m).transactionID)
  <2>1. /\ spc = "setup" /\ c2s # <<>> /\ c2s' = Tail(c2s) /\ sent' = sent
        /\ UNCHANGED <<net, cpc, curCommand, transID>>
    BY <1>17 DEF SetUpPlayOrPublish, CanRead, dialogueVars
  <2>2. CASE cpc = "wait"
    <3>1. sopen /\ copen /\ s2c = <<>> /\ Len(c2s) = 1
      <4>1. ~Answered
        BY <2>1 DEF Answered
      <4>2. sopen /\ s2c = <<>> /\ Len(c2s) = 1
        BY <1>3, <2>1, <2>2, <4>1 DEF Asked
      <4> QED  BY <1>5, <2>2, <4>2
    <3>2. c2s' = <<>> /\ m = sent[Len(sent)] /\ m \in Message /\ Len(sent) \in DOMAIN sent
      <4>1. m = sent[Taken + 1] /\ Taken + 1 <= Len(sent) /\ m \in Message /\ Taken \in Nat
        BY <2>1, KeptRead
      <4> QED  BY <1>4, <2>1, <3>1, <4>1
    <3>3. /\ Scripted(Len(sent))
          /\ curCommand = "connect" => Len(sent) = 3
          /\ curCommand = "createStream" => Len(sent) = 4
          /\ curCommand \in MediaCommands => Len(sent) = 5
      BY <1>1, <2>2, <3>2 DEF Written
    <3>4. /\ m.t = curCommand
          /\ curCommand = "connect" => m.id = 1 /\ transID = 1
          /\ curCommand = "createStream" => m.id = 2 /\ transID = 2
      <4>1. /\ curCommand = "connect" => transID = 1
            /\ curCommand = "createStream" => transID = 2
            /\ curCommand \in MediaCommands => curCommand = url.method
        BY <2>2 DEF TypeInv, Phase
      <4>2. CASE curCommand = "connect"
        BY <3>2, <3>3, <4>1, <4>2 DEF Scripted, Msg
      <4>3. CASE curCommand = "createStream"
        BY <3>2, <3>3, <4>1, <4>3 DEF Scripted, Msg
      <4>4. CASE curCommand \in MediaCommands
        BY <3>2, <3>3, <4>1, <4>4 DEF Scripted, MediaCommands
      <4> QED  BY <1>4, <4>2, <4>3, <4>4 DEF Commands, MediaCommands
    <3>5. /\ s2c' = s2c \o r /\ sopen' = sopen
          /\ spc' = IF m.t \in {"publish", "play"} THEN "handle" ELSE "setup"
      <4>1. ~(m.t = "connect" /\ m.id # 1)
        BY <3>4
      <4>2. ~WriteMayFail(sopen, copen)
        BY <1>3, <3>1 DEF WriteMayFail
      <4> QED  BY <1>17, <4>1, <4>2 DEF SetUpPlayOrPublish
    <3>6. m.id \in Nat /\ TakeCommand(m).transactionID = m.id
      BY <1>4, <3>2, <3>4, TakeCommandOK DEF TypeInv, Message
    <3>7. r = Respond(m, m.id)
      BY <3>6
    <3> HIDE DEF r, m
    <3>8. ASSUME NEW x, NEW ms \in Seq(Message), ms # <<>>, ms[1] = x, r = ms,
                 x.t \in {"_result", "onStatus"}, Accepts(x),
                 curCommand \notin MediaCommands => Len(ms) = 1
          PROVE  InStep'
      <4>1. s2c' = ms
        BY <3>1, <3>5, <3>8
      <4>2. Accepts(x)'
        BY <2>1, <3>8 DEF Accepts
      <4>3. IF curCommand \in MediaCommands THEN spc' = "handle" ELSE sopen' /\ spc' = "setup"
        BY <3>1, <3>4, <3>5 DEF MediaCommands
      <4>4. s2c'[1] = x /\ s2c' # <<>> /\ (curCommand' \notin MediaCommands => Len(s2c') = 1)
        BY <2>1, <3>8, <4>1
      <4>5. Accepts(s2c[1])'
        BY <2>1, <3>8, <4>4 DEF Accepts
      <4>6. Answered'
        BY <2>1, <3>2, <3>8, <4>3, <4>4, <4>5 DEF Answered, Decided
      <4> QED  BY <1>3, <2>1, <2>2, <4>6 DEF InStep
    <3>9. CASE curCommand = "connect"
      <4> DEFINE x == Msg("_result", 1, "Connect.Success")
      <4>1. r = <<x>> /\ x \in Message
        <5>1. m \in Message /\ m.t = "connect" /\ m.id = 1 /\ r = Respond(m, m.id) /\ m.id \in Nat
          BY <3>2, <3>4, <3>6, <3>7, <3>9
        <5>2. r = <<x>>
          BY ONLY <5>1, RespondOK
        <5>3. x \in Message
          BY DEF Msg, Message, Types, Words, MediaCommands
        <5> QED  BY <5>2, <5>3
      <4>2. x.t = "_result" /\ Accepts(x)
        BY <3>4, <3>9 DEF Accepts, Msg
      <4> HIDE DEF x
      <4>3. <<x>> \in Seq(Message) /\ <<x>>[1] = x /\ Len(<<x>>) = 1 /\ <<x>> # <<>>
        BY <4>1
      <4> QED  BY <3>8, <4>1, <4>2, <4>3
    <3>10. CASE curCommand = "createStream"
      <4> DEFINE x == Msg("_result", 2, "stream")
      <4>1. r = <<x>> /\ x \in Message
        <5>1. m \in Message /\ m.t = "createStream" /\ m.id = 2 /\ r = Respond(m, m.id) /\ m.id \in Nat
          BY <3>2, <3>4, <3>6, <3>7, <3>10
        <5>2. r = <<x>>
          BY ONLY <5>1, RespondOK
        <5>3. x \in Message
          BY DEF Msg, Message, Types, Words, MediaCommands
        <5> QED  BY <5>2, <5>3
      <4>2. x.t = "_result" /\ Accepts(x)
        BY <3>4, <3>10 DEF Accepts, Msg
      <4> HIDE DEF x
      <4>3. <<x>> \in Seq(Message) /\ <<x>>[1] = x /\ Len(<<x>>) = 1 /\ <<x>> # <<>>
        BY <4>1
      <4> QED  BY <3>8, <4>1, <4>2, <4>3
    <3>11. CASE curCommand = "publish"
      <4> DEFINE x == Status("Publish.Start")
      <4>1. r = <<x>> /\ x \in Message
        BY <3>2, <3>4, <3>6, <3>7, <3>11, RespondOK
           DEF Status, Msg, Message, Types, Words, MediaCommands
      <4>2. x.t = "onStatus" /\ Accepts(x)
        BY <3>11 DEF Accepts, Status, Msg
      <4> HIDE DEF x
      <4>3. <<x>> \in Seq(Message) /\ <<x>>[1] = x /\ Len(<<x>>) = 1 /\ <<x>> # <<>>
        BY <4>1
      <4> QED  BY <3>8, <4>1, <4>2, <4>3
    <3>12. CASE curCommand = "play"
      <4> DEFINE x == Status("Play.Reset")
                 ms == <<x, Status("Play.Start"), Status("Data.Start"), Status("Play.PublishNotify")>>
      <4>1. r = ms
        BY <3>2, <3>4, <3>6, <3>7, <3>12, RespondOK
      <4>2. r \in Seq(Message)
        BY <3>2, <3>6, <3>7, RespondOK
      <4>3. x.t = "onStatus" /\ Accepts(x)
        BY <3>12 DEF Accepts, Status, Msg
      <4>4. r[1] = x /\ r # <<>>
        BY <4>1
      <4> HIDE DEF x, ms
      <4> QED  BY <3>8, <3>12, <4>2, <4>3, <4>4 DEF MediaCommands
    <3> QED  BY <1>4, <3>9, <3>10, <3>11, <3>12 DEF Commands
  <2>3. cpc # "handshake" /\ cpc # "command"
    BY <1>3, <2>1 DEF Greeting, Asking
  <2> QED  BY <1>13, <2>1, <2>2, <2>3
<1>18. CASE ServerReadFails
  <2>1. spc \in {"c0c1", "c2", "setup"} /\ UNCHANGED <<net, cpc>> /\ ReadFails(c2s, sopen, copen)
    BY <1>18 DEF ServerReadFails, dialogueVars
  <2>2. cpc \notin {"handshake", "command", "wait"}
    BY <1>3, <1>5, <2>1 DEF ReadFails, Greeting, Asking, Asked, Answered, Decided
  <2> QED  BY <1>13, <2>1, <2>2
<1>19. CASE HandleConnect \/ ServeEnds \/ ServeMedia \/ ServeRead
  <2>1. /\ spc \in {"handle", "served"} /\ spc' \in {"served", "closed"}
        /\ UNCHANGED <<net, cpc, curCommand, transID>>
        /\ s2c' = s2c \/ s2c' = Append(s2c, Msg("media", 0, "none"))
        /\ c2s' = c2s \/ (c2s # <<>> /\ c2s' = Tail(c2s))
    BY <1>19 DEF HandleConnect, ServeEnds, ServeMedia, ServeRead, HandleConnFails, dialogueVars,
                 serverVars, CanRead
  <2>2. CASE cpc = "wait"
    <3>1. Answered
      BY <1>3, <2>1, <2>2 DEF Asked
    <3>2. s2c'[1] = s2c[1] /\ s2c' # <<>> /\ curCommand \in MediaCommands /\ c2s' = <<>>
      <4>1. Msg("media", 0, "none") \in Message
        BY DEF Msg, Message, Types, Words, MediaCommands
      <4>2. s2c # <<>> /\ curCommand \in MediaCommands /\ c2s = <<>>
        BY <2>1, <3>1 DEF Answered
      <4>3. CASE s2c' = Append(s2c, Msg("media", 0, "none"))
        <5>1. /\ s2c' \in Seq(Message) /\ Len(s2c') = Len(s2c) + 1
              /\ \A i \in 1..Len(s2c) : s2c'[i] = s2c[i]
          BY <1>4, <4>1, <4>3, AppendIs
        <5> QED  BY <1>4, <2>1, <4>2, <5>1
      <4> QED  BY <2>1, <4>2, <4>3
    <3>3. Accepts(s2c[1])'
      BY <2>1, <3>1, <3>2 DEF Accepts, Answered
    <3>4. Answered'
      BY <2>1, <3>1, <3>2, <3>3 DEF Answered, Decided
    <3> QED  BY <1>3, <2>1, <2>2, <3>4 DEF InStep
  <2>3. cpc # "handshake" /\ cpc # "command"
    BY <1>3, <2>1 DEF Greeting, Asking
  <2> QED  BY <1>13, <2>1, <2>2, <2>3
<1>20. ~PeerClientConnects /\ ~PeerClientSends /\ ~PeerClientCloses /\ ~PeerServerSends
       /\ ~PeerServerCloses
  BY <1>1 DEF PeerClientConnects, PeerClientSends, PeerClientCloses, PeerServerSends,
              PeerServerCloses, Replies, TypeInv, Phase
<1>21. CASE UNCHANGED vars
  <2>1. UNCHANGED <<net, cpc, sopen, spc, s2c, c2s, curCommand, transID>>
    BY <1>21 DEF vars, wireVars, dialogueVars, serverVars
  <2> QED  BY <1>3, <2>1 DEF InStep, Greeting, Asking, Asked, Answered, Accepts, Decided
<1> QED
  BY <1>6, <1>7, <1>8, <1>9, <1>10, <1>11, <1>12, <1>14, <1>15, <1>16, <1>17, <1>18, <1>19, <1>20,
     <1>21, <1>22 DEF Next, StartStep, HandleConnStep

-----------------------------------------------------------------------------
(* The theorems *)

\* So do the other parts of the invariant.
LEMMA ScriptInit == Init => Script /\ HeadersInv /\ Kept /\ Undecided /\ Replies /\ GrantInv /\ FinalInv /\ InStep
<1> SUFFICES ASSUME Init  PROVE Script /\ HeadersInv /\ Kept /\ Undecided /\ Replies /\ GrantInv /\ FinalInv /\ InStep
  OBVIOUS
<1>1. /\ cpc = "dial" /\ spc = "idle" /\ sent = <<>> /\ c2s = <<>> /\ s2c = <<>> /\ cbuf = <<>>
      /\ curCommand = "connect" /\ replies = 0 /\ fc.app = "none" /\ videoFirst = TRUE /\ fc.isPublisher = FALSE
      /\ audioFirst = TRUE /\ net = "up"
      /\ OwnServer => grants = Commands
  BY DEF Init
<1>2. DOMAIN sent = {} /\ DOMAIN c2s = {} /\ DOMAIN s2c = {}
  BY <1>1
<1>3. Script
  BY <1>1, <1>2 DEF Script, Written
<1>4. HeadersInv
  <2>1. HeadersFirst
    BY <1>2 DEF HeadersFirst
  <2> QED  BY <1>1, <2>1, Zenon DEF HeadersInv
<1>5. Kept
  <2>1. Taken = 0 /\ Len(c2s) <= Len(sent)
    BY <1>1 DEF Taken
  <2> QED  BY <1>1, <1>2, <2>1 DEF Kept, Decided
<1>6. Replies
  BY <1>1, <1>2 DEF Replies, Backward, Greeted
<1>7. GrantInv /\ FinalInv
  BY <1>1, <1>2 DEF GrantInv, FinalInv, MediaCommands
<1>8. InStep
  <2>1. net # "down"
    BY <1>1
  <2> QED  BY <1>1, <2>1 DEF InStep
<1>9. Undecided
  BY <1>1, Zenon DEF Undecided
<1> QED  BY <1>3, <1>4, <1>5, <1>6, <1>7, <1>8, <1>9

\* The inductive invariant of the module.
Inv == TypeInv /\ Script /\ HeadersInv /\ Kept /\ Undecided /\ Replies /\ GrantInv /\ FinalInv /\ InStep

\* Every step keeps it.
LEMMA InvStep == Inv /\ [Next]_vars => Inv'
<1> SUFFICES ASSUME Inv, [Next]_vars  PROVE Inv'
  OBVIOUS
<1>1. TypeInv /\ Script /\ HeadersInv /\ Kept /\ Undecided /\ Replies /\ GrantInv /\ FinalInv /\ InStep
  BY DEF Inv
<1>2. TypeInv' /\ Script' /\ HeadersInv'
  BY <1>1, TypeStep, ScriptStep, HeadersStep
<1>3. cpc = "dial" => spc = "idle"
  BY <1>1 DEF Replies
<1>4. Kept' /\ Undecided'
  BY <1>1, <1>3, KeptStep, UndecidedStep
<1>5. Replies' /\ GrantInv' /\ InStep'
  BY <1>1, RepliesStep, GrantStep, InStepStep
<1>6. FinalInv'
  BY <1>1, <1>2, <1>4, FinalStep
<1> QED  BY <1>2, <1>4, <1>5, <1>6 DEF Inv

\* So it always holds.
LEMMA Invariance == Spec => []Inv
<1>1. Init => Inv
  BY TypeInit, ScriptInit DEF Inv
<1> QED  BY <1>1, InvStep, PTL DEF Spec

\* What SendPacket (client.go) sends can be decoded: the sequence header of H.264
\* or AAC precedes the first frame, whatever flushes fail in between.
THEOREM HeadersCorrect == Spec => []HeadersFirst
<1>1. Inv => HeadersFirst
  BY DEF Inv, HeadersInv
<1> QED  BY <1>1, Invariance, PTL

\* Start (conn_client.go) succeeds only when the server has granted every command, as
\* long as the server sends no message of a type waitForResponse has no case for:
\* such a message ends the wait as if it were the answer.
THEOREM GrantedCorrect ==
  ASSUME "aggregate" \notin Unsolicited
  PROVE  Spec => []Granted
<1>1. Inv => Granted
  <2> SUFFICES ASSUME Inv, cpc = "open"
               PROVE  {"connect", "createStream", url.method} \subseteq grants /\ streamid = StreamID
    BY DEF Granted
  <2>1. OwnClient
    BY DEF Inv, TypeInv, Phase
  <2>2. curCommand \in MediaCommands /\ url.method \in grants
    BY <2>1 DEF Inv, GrantInv, NoAggregate
  <2> QED  BY <2>1, <2>2 DEF Inv, GrantInv, NoAggregate, MediaCommands
<1> QED  BY <1>1, Invariance, PTL

\* Two ends of this program understand each other: without a fault of the network or a
\* deadline, neither the order of answers nor media that comes at once (playResp, then
\* the stream's packets) makes Start fail.
THEOREM UnderstandingCorrect == Spec => []NoMisunderstanding
<1>1. Inv => NoMisunderstanding
  BY DEF Inv, InStep, NoMisunderstanding
<1> QED  BY <1>1, Invariance, PTL

\* The least and the greatest of a set of numbers that has one.
LEMMA MinIs ==
  ASSUME NEW S \in SUBSET Int, NEW x \in S, \A y \in S : x <= y
  PROVE  S # {} /\ Min(S) = x
<1>1. Min(S) \in S /\ \A y \in S : Min(S) <= y
  BY DEF Min
<1>2. Min(S) \in Int /\ x \in Int /\ x <= Min(S) /\ Min(S) <= x
  BY <1>1
<1> QED  BY <1>2

\* A largest element is the maximum.
LEMMA MaxIs ==
  ASSUME NEW S \in SUBSET Int, NEW x \in S, \A y \in S : x >= y
  PROVE  S # {} /\ Max(S) = x
<1>1. Max(S) \in S /\ \A y \in S : Max(S) >= y
  BY DEF Max
<1>2. Max(S) \in Int /\ x \in Int /\ x >= Max(S) /\ Max(S) >= x
  BY <1>1
<1> QED  BY <1>2

\* handleConn (server.go) serves the stream its client has asked for: the one its
\* first publish or play names, in the application of the last connect before, however
\* many commands a client sends ahead; and when Start of this program's client has
\* returned, both ends have the same application, stream and direction.
THEOREM AgreementCorrect == Spec => []Agreement
<1>1. ASSUME Inv, Decided
      PROVE  LET i == SelectInSeq(sent, LAMBDA m : m.t \in {"publish", "play"})
                 j == SelectLastInSubSeq(sent, 1, i, LAMBDA m : m.t = "connect") IN
             /\ fc.name = sent[i].arg /\ fc.isPublisher = (sent[i].t = "publish")
             /\ fc.app = IF j = 0 THEN "none" ELSE sent[j].arg
  <2> DEFINE I == {i \in 1..Len(sent) : sent[i].t \in {"publish", "play"}}
             first == SelectInSeq(sent, LAMBDA m : m.t \in {"publish", "play"})
  <2>1. PICK n \in 1..Taken : DecidedBy(n)
    BY <1>1 DEF Inv, Kept
  <2>2. n \in Nat /\ n \in 1..Len(sent)
    <3>1. Len(sent) \in Nat /\ Len(c2s) \in Nat
      BY <1>1 DEF Inv, TypeInv, Queues
    <3> QED  BY <2>1, <3>1 DEF Taken
  <2>3. first = n
    <3>1. I \in SUBSET Int /\ n \in I
      BY <2>1, <2>2 DEF DecidedBy, MediaCommands
    <3>2. ASSUME NEW y \in I  PROVE n <= y
      <4>1. y \notin 1..(n - 1) /\ y \in Nat /\ y >= 1
        BY <2>1 DEF DecidedBy, NoMediaCommand, MediaCommands
      <4> QED  BY <2>2, <4>1
    <3>3. I # {} /\ Min(I) = n
      <4> HIDE DEF I
      <4> QED  BY <3>1, <3>2, MinIs
    <3>4. first = IF I # {} THEN Min(I) ELSE 0
      BY DEF SelectInSeq
    <3> QED  BY <3>3, <3>4
  <2> HIDE DEF first
  <2> DEFINE J == {l \in 1..n : sent[l].t = "connect"}
             last == SelectLastInSubSeq(sent, 1, n, LAMBDA m : m.t = "connect")
  <2>4. last = IF J # {} THEN Max(J) ELSE 0
    BY DEF SelectLastInSubSeq
  <2>5. fc.app = IF last = 0 THEN "none" ELSE sent[last].arg
    <3> HIDE DEF last
    <3>1. CASE fc.app = "none" /\ \A l \in 1..n : sent[l].t # "connect"
      <4>1. J = {}
        BY <3>1
      <4> QED  BY <2>4, <3>1, <4>1
    <3>2. ASSUME NEW j \in 1..n, sent[j].t = "connect" /\ fc.app = sent[j].arg,
                 \A l \in (j + 1)..n : sent[l].t # "connect"
          PROVE  fc.app = IF last = 0 THEN "none" ELSE sent[last].arg
      <4>1. J \in SUBSET Int /\ j \in J
        BY <3>2
      <4>2. ASSUME NEW y \in J  PROVE j >= y
        <5>1. y \notin (j + 1)..n /\ y \in 1..n
          BY <3>2
        <5> QED  BY <2>2, <5>1
      <4>3. J # {} /\ Max(J) = j
        <5> HIDE DEF J
        <5> QED  BY <4>1, <4>2, MaxIs
      <4>4. last = j /\ j # 0
        BY <2>4, <4>3
      <4> QED  BY <3>2, <4>4
    <3> QED  BY <2>1, <3>1, <3>2 DEF DecidedBy, AppOf
  <2>6. fc.name = sent[n].arg /\ fc.isPublisher = (sent[n].t = "publish")
    BY <2>1 DEF DecidedBy
  <2> QED  BY <2>3, <2>5, <2>6 DEF first
<1>2. ASSUME Inv, ends = Own, cpc \in {"open", "closed"}
      PROVE  /\ Decided \/ spc = "closed"
             /\ fc.app = url.app /\ fc.name = url.title /\ fc.isPublisher = (url.method = "publish")
             /\ streamid = StreamID
  <2>1. Final
    BY <1>2 DEF Inv, FinalInv
  <2>2. OwnClient /\ NoAggregate
    BY <1>2 DEF Own, OwnClient, OwnServer, NoAggregate
  <2>3. streamid = StreamID
    BY <1>2, <2>2 DEF Inv, GrantInv
  <2> QED  BY <2>1, <2>3 DEF Final, AsAsked
<1>3. Inv => Agreement
  BY <1>1, <1>2 DEF Agreement
<1> QED  BY <1>3, Invariance, PTL
=============================================================================
