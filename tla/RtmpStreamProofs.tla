-------------------------- MODULE RtmpStreamProofs --------------------------
(***************************************************************************)
(* Proofs about RtmpStream, for any keys, connections and capacities.      *)
(*                                                                         *)
(* TypeOK is not inductive alone: a step that uses target[c], incoming[s]  *)
(* or rconn[c] as an index must know that it is not Nil.  TypeOK /\ Links  *)
(* is, and every other invariant is inductive relative to it:              *)
(* MapConsistent and NoLeak as they stand, TakeoverClean with ReaderAlone. *)
(***************************************************************************)
EXTENDS RtmpStream, TLAPS

\* Every step keeps every variable in its type.
LEMMA TypeStep == TypeOK /\ Links /\ [Next]_vars => TypeOK'
<1> SUFFICES ASSUME TypeOK, Links, [Next]_vars  PROVE TypeOK'
  OBVIOUS
<1>1. ASSUME NEW c \in Conns, NEW k \in Keys, NEW s \in StreamIds, HandleConnect(c, k, s)
       PROVE  TypeOK'
  <2>1. CASE streams[k] = s /\ UNCHANGED <<streams, skey, loop>>
    BY <1>1, <2>1 DEF HandleConnect, TypeOK, Conns, goVars
  <2>2. CASE /\ streams' = [streams EXCEPT ![k] = s]
             /\ skey' = [skey EXCEPT ![s] = k]
             /\ loop' = [loop EXCEPT ![s] = "run"]
    BY <1>1, <2>2 DEF HandleConnect, TypeOK, Conns, goVars, LoopStates
  <2> QED
    BY <1>1, <2>1, <2>2 DEF HandleConnect, getOrCreate
<1>2. ASSUME NEW c \in Publishers, SendReader(c)  PROVE  TypeOK'
  BY <1>2, StreamAssumption DEF SendReader, goVars, TypeOK, Conns, LoopStates, GoStates
<1>3. ASSUME NEW c \in Publishers, StartRead(c)  PROVE  TypeOK'
  BY <1>3, StreamAssumption DEF StartRead, streamVars, connVars, TypeOK, Conns, LoopStates,
     GoStates
<1>4. ASSUME NEW c \in Publishers, CallRead(c)  PROVE  TypeOK'
  BY <1>4, StreamAssumption DEF CallRead, streamVars, TypeOK, Conns, LoopStates, GoStates,
     Links, Placed, Goroutines
<1>5. ASSUME NEW c \in Publishers, ReadPacket(c)  PROVE  TypeOK'
  BY <1>5, StreamAssumption DEF ReadPacket, streamVars, TypeOK, Conns, LoopStates, GoStates,
     Links, Goroutines
<1>6. ASSUME NEW c \in Publishers, Forward(c)  PROVE  TypeOK'
  <2>1. target[c] \in StreamIds /\ rconn[c] \in Publishers
    BY <1>6 DEF Forward, TypeOK, Links, Placed, Goroutines, Conns, GoStates
  <2>2. PICK q \in TrySend(pktChan[target[c]], rconn[c]) :
             pktChan' = [pktChan EXCEPT ![target[c]] = q]
    BY <1>6 DEF Forward
  <2> DEFINE old == pktChan[target[c]]
  <2>a. old \in Seq(Publishers) /\ Len(old) \in Nat /\ Len(old) <= PktCap
    BY <2>1 DEF TypeOK
  <2>b. Append(old, rconn[c]) \in Seq(Publishers) /\ Len(Append(old, rconn[c])) = Len(old) + 1
    BY <2>1, <2>a
  <2>c. q = IF Len(old) < PktCap THEN Append(old, rconn[c]) ELSE old
    BY <2>2 DEF TrySend
  <2>3. q \in Seq(Publishers) /\ Len(q) <= PktCap
    <3> HIDE DEF old
    <3> QED  BY <2>a, <2>b, <2>c, StreamAssumption
  <2>4. pktChan' \in [StreamIds -> Seq(Publishers)]
        /\ \A s \in StreamIds : Len(pktChan'[s]) <= PktCap
    BY <2>1, <2>2, <2>3 DEF TypeOK
  <2>5. cached' \in [StreamIds -> BOOLEAN]
    BY <1>6 DEF Forward, TypeOK
  <2> QED
    BY <1>6, <2>4, <2>5 DEF Forward, TypeOK, GoStates, connVars
<1>7. ASSUME NEW c \in Publishers, ReadErr(c)  PROVE  TypeOK'
  BY <1>7, StreamAssumption DEF ReadErr, connVars, TypeOK, Conns, LoopStates, GoStates
<1>8. ASSUME NEW c \in Publishers, ReadRace(c)  PROVE  TypeOK'
  BY <1>8, StreamAssumption DEF ReadRace, streamVars, connVars, goVars, TypeOK, Conns,
     LoopStates, GoStates
<1>9. ASSUME NEW c \in Publishers, PeerSends(c)  PROVE  TypeOK'
  BY <1>9, StreamAssumption DEF PeerSends, streamVars, goVars, TypeOK, Conns, LoopStates,
     GoStates
<1>10. ASSUME NEW p \in Players, SendWriter(p)  PROVE  TypeOK'
  BY <1>10, StreamAssumption DEF SendWriter, goVars, TypeOK, Conns, LoopStates, GoStates
<1>11. ASSUME NEW p \in Players, SendPacket(p)  PROVE  TypeOK'
  BY <1>11, StreamAssumption DEF SendPacket, streamVars, goVars, TypeOK, Conns, LoopStates,
     GoStates
<1>12. ASSUME NEW p \in Players, SendFails(p)  PROVE  TypeOK'
  BY <1>12, StreamAssumption DEF SendFails, streamVars, goVars, TypeOK, Conns, LoopStates,
     GoStates
<1>13. ASSUME NEW p \in Players, CheckFails(p)  PROVE  TypeOK'
  BY <1>13, StreamAssumption DEF CheckFails, ClosedWriters, Closed, streamVars, goVars, TypeOK,
     Conns, LoopStates, GoStates
<1>14. ASSUME NEW s \in StreamIds, Deliver(s)  PROVE  TypeOK'
  BY <1>14, StreamAssumption DEF Deliver, Closed, goVars, TypeOK, Conns, LoopStates, GoStates
<1>15. ASSUME NEW s \in StreamIds, TakeWriter(s)  PROVE  TypeOK'
  <2>1. writerChan[s] \in Players
    BY <1>15 DEF TakeWriter, TypeOK
  <2>2. crashed' \in BOOLEAN
    BY <1>15 DEF TakeWriter, TypeOK
  <2>a. \/ UNCHANGED writers
        \/ writers' = [writers EXCEPT ![s] = writers[s] \cup {writerChan[s]}]
    BY <1>15 DEF TakeWriter
  <2>b. writers[s] \cup {writerChan[s]} \in SUBSET Players
    BY <2>1 DEF TypeOK
  <2>3. writers' \in [StreamIds -> SUBSET Players]
    BY <2>a, <2>b DEF TypeOK
  <2>4. writerChan' \in [StreamIds -> Players \cup {Nil}]
    BY <1>15 DEF TakeWriter, TypeOK
  <2> QED
    BY <1>15, <2>2, <2>3, <2>4 DEF TakeWriter, TypeOK, connVars, goVars
<1>16. ASSUME NEW s \in StreamIds, FirstReader(s)  PROVE  TypeOK'
  BY <1>16, StreamAssumption DEF FirstReader, connVars, TypeOK, Conns, LoopStates, GoStates
<1>17. ASSUME NEW s \in StreamIds, Takeover(s)  PROVE  TypeOK'
  BY <1>17, StreamAssumption DEF Takeover, Closed, goVars, TypeOK, Conns, LoopStates, GoStates
<1>18. ASSUME NEW s \in StreamIds, Install(s)  PROVE  TypeOK'
  BY <1>18, StreamAssumption DEF Install, CleanLoop, Running, connVars, TypeOK, Conns,
     LoopStates, GoStates, Links, WaitingReaders
<1>19. ASSUME NEW s \in StreamIds, TickExit(s)  PROVE  TypeOK'
  BY <1>19, StreamAssumption DEF TickExit, connVars, goVars, TypeOK, Conns, LoopStates, GoStates
<1>20. ASSUME NEW s \in StreamIds, TickSweep(s)  PROVE  TypeOK'
  BY <1>20, StreamAssumption DEF TickSweep, Closed, ClosedWriters, goVars, TypeOK, Conns,
     LoopStates, GoStates
<1>21. ASSUME NEW s \in StreamIds, Remove(s)  PROVE  TypeOK'
  BY <1>21, StreamAssumption DEF Remove, connVars, goVars, TypeOK, Conns, LoopStates, GoStates
<1>22. ASSUME NEW s \in StreamIds, CloseReader(s)  PROVE  TypeOK'
  BY <1>22, StreamAssumption DEF CloseReader, Closed, goVars, TypeOK, Conns, LoopStates,
     GoStates
<1>23. ASSUME NEW s \in StreamIds, DrainWriter(s)  PROVE  TypeOK'
  BY <1>23, StreamAssumption DEF DrainWriter, Closed, ClosedWriters, goVars, TypeOK, Conns,
     LoopStates, GoStates
<1>24. ASSUME NEW s \in StreamIds, DrainReader(s)  PROVE  TypeOK'
  BY <1>24, StreamAssumption DEF DrainReader, Closed, goVars, TypeOK, Conns, LoopStates,
     GoStates
<1>25. ASSUME NEW s \in StreamIds, DrainDone(s)  PROVE  TypeOK'
  BY <1>25, StreamAssumption DEF DrainDone, Closed, ClosedWriters, goVars, TypeOK, Conns,
     LoopStates, GoStates
<1>26. ASSUME NEW c \in Conns, LinkFails(c)  PROVE  TypeOK'
  BY <1>26, StreamAssumption DEF LinkFails, streamVars, goVars, TypeOK, Conns, LoopStates,
     GoStates
<1>27. ASSUME NEW c \in Conns, Expire(c)  PROVE  TypeOK'
  BY <1>27, StreamAssumption DEF Expire, streamVars, goVars, TypeOK, Conns, LoopStates, GoStates
<1>28. CASE UNCHANGED vars
  BY <1>28 DEF vars, streamVars, connVars, goVars, TypeOK, Conns, LoopStates, GoStates
<1> QED
  BY <1>1, <1>2, <1>3, <1>4, <1>5, <1>6, <1>7, <1>8, <1>9, <1>10, <1>11, <1>12, <1>13,
     <1>14, <1>15, <1>16, <1>17, <1>18, <1>19, <1>20, <1>21, <1>22, <1>23, <1>24, <1>25,
     <1>26, <1>27, <1>28 DEF Next, LoopStep, ReadStep, Tick

\* A publisher waits for its stream's loop in one place only.
LEMMA WaitingStep == TypeOK /\ Links /\ [Next]_vars => WaitingReaders'
<1> SUFFICES ASSUME TypeOK, Links, [Next]_vars  PROVE WaitingReaders'
  OBVIOUS
<1>1. ASSUME NEW c \in Conns, NEW k \in Keys, NEW s \in StreamIds, HandleConnect(c, k, s)
       PROVE  WaitingReaders'
  BY <1>1, StreamAssumption DEF HandleConnect, getOrCreate, goVars, TypeOK, Links,
     WaitingReaders, Placed, Conns, LoopStates, GoStates
<1>2. ASSUME NEW c \in Publishers, SendReader(c)  PROVE  WaitingReaders'
  BY <1>2, StreamAssumption DEF SendReader, goVars, TypeOK, Links, WaitingReaders, Placed,
     Conns, LoopStates, GoStates, Goroutines
<1>3. ASSUME NEW c \in Publishers, StartRead(c)  PROVE  WaitingReaders'
  BY <1>3, StreamAssumption DEF StartRead, streamVars, connVars, TypeOK, Links, WaitingReaders,
     Placed, Conns, LoopStates, GoStates
<1>4. ASSUME NEW c \in Publishers, CallRead(c)  PROVE  WaitingReaders'
  BY <1>4, StreamAssumption DEF CallRead, streamVars, TypeOK, Links, WaitingReaders, Placed,
     Conns, LoopStates, GoStates
<1>5. ASSUME NEW c \in Publishers, ReadPacket(c)  PROVE  WaitingReaders'
  BY <1>5, StreamAssumption DEF ReadPacket, streamVars, TypeOK, Links, WaitingReaders, Placed,
     Conns, LoopStates, GoStates
<1>6. ASSUME NEW c \in Publishers, Forward(c)  PROVE  WaitingReaders'
  BY <1>6, StreamAssumption DEF Forward, TrySend, connVars, TypeOK, Links, WaitingReaders,
     Placed, Conns, LoopStates, GoStates
<1>7. ASSUME NEW c \in Publishers, ReadErr(c)  PROVE  WaitingReaders'
  BY <1>7, StreamAssumption DEF ReadErr, connVars, TypeOK, Links, WaitingReaders, Placed, Conns,
     LoopStates, GoStates, Counted
<1>8. ASSUME NEW c \in Publishers, ReadRace(c)  PROVE  WaitingReaders'
  BY <1>8, StreamAssumption DEF ReadRace, streamVars, connVars, goVars, TypeOK, Links,
     WaitingReaders, Placed, Conns, LoopStates, GoStates
<1>9. ASSUME NEW c \in Publishers, PeerSends(c)  PROVE  WaitingReaders'
  BY <1>9, StreamAssumption DEF PeerSends, streamVars, goVars, TypeOK, Links, WaitingReaders,
     Placed, Conns, LoopStates, GoStates
<1>10. ASSUME NEW p \in Players, SendWriter(p)  PROVE  WaitingReaders'
  BY <1>10, StreamAssumption DEF SendWriter, goVars, TypeOK, Links, WaitingReaders, Placed,
     Conns, LoopStates, GoStates
<1>11. ASSUME NEW p \in Players, SendPacket(p)  PROVE  WaitingReaders'
  BY <1>11, StreamAssumption DEF SendPacket, streamVars, goVars, TypeOK, Links, WaitingReaders,
     Placed, Conns, LoopStates, GoStates
<1>12. ASSUME NEW p \in Players, SendFails(p)  PROVE  WaitingReaders'
  BY <1>12, StreamAssumption DEF SendFails, streamVars, goVars, TypeOK, Links, WaitingReaders,
     Placed, Conns, LoopStates, GoStates
<1>13. ASSUME NEW p \in Players, CheckFails(p)  PROVE  WaitingReaders'
  BY <1>13, StreamAssumption DEF CheckFails, ClosedWriters, Closed, streamVars, goVars, TypeOK,
     Links, WaitingReaders, Placed, Conns, LoopStates, GoStates
<1>14. ASSUME NEW s \in StreamIds, Deliver(s)  PROVE  WaitingReaders'
  BY <1>14, StreamAssumption DEF Deliver, Closed, goVars, TypeOK, Links, WaitingReaders, Placed,
     Conns, LoopStates, GoStates
<1>15. ASSUME NEW s \in StreamIds, TakeWriter(s)  PROVE  WaitingReaders'
  BY <1>15, StreamAssumption DEF TakeWriter, connVars, goVars, TypeOK, Links, WaitingReaders,
     Placed, Conns, LoopStates, GoStates
<1>16. ASSUME NEW s \in StreamIds, FirstReader(s)  PROVE  WaitingReaders'
  BY <1>16, StreamAssumption DEF FirstReader, connVars, TypeOK, Links, WaitingReaders, Placed,
     Conns, LoopStates, GoStates
<1>17. ASSUME NEW s \in StreamIds, Takeover(s)  PROVE  WaitingReaders'
  BY <1>17, StreamAssumption DEF Takeover, Closed, goVars, TypeOK, Links, WaitingReaders,
     Placed, Conns, LoopStates, GoStates
<1>18. ASSUME NEW s \in StreamIds, Install(s)  PROVE  WaitingReaders'
  BY <1>18, StreamAssumption DEF Install, CleanLoop, Running, connVars, TypeOK, Links,
     WaitingReaders, Placed, Conns, LoopStates, GoStates
<1>19. ASSUME NEW s \in StreamIds, TickExit(s)  PROVE  WaitingReaders'
  BY <1>19, StreamAssumption DEF TickExit, connVars, goVars, TypeOK, Links, WaitingReaders,
     Placed, Conns, LoopStates, GoStates
<1>20. ASSUME NEW s \in StreamIds, TickSweep(s)  PROVE  WaitingReaders'
  BY <1>20, StreamAssumption DEF TickSweep, Closed, ClosedWriters, goVars, TypeOK, Links,
     WaitingReaders, Placed, Conns, LoopStates, GoStates
<1>21. ASSUME NEW s \in StreamIds, Remove(s)  PROVE  WaitingReaders'
  BY <1>21, StreamAssumption DEF Remove, connVars, goVars, TypeOK, Links, WaitingReaders,
     Placed, Conns, LoopStates, GoStates
<1>22. ASSUME NEW s \in StreamIds, CloseReader(s)  PROVE  WaitingReaders'
  BY <1>22, StreamAssumption DEF CloseReader, Closed, goVars, TypeOK, Links, WaitingReaders,
     Placed, Conns, LoopStates, GoStates
<1>23. ASSUME NEW s \in StreamIds, DrainWriter(s)  PROVE  WaitingReaders'
  BY <1>23, StreamAssumption DEF DrainWriter, Closed, ClosedWriters, goVars, TypeOK, Links,
     WaitingReaders, Placed, Conns, LoopStates, GoStates
<1>24. ASSUME NEW s \in StreamIds, DrainReader(s)  PROVE  WaitingReaders'
  BY <1>24, StreamAssumption DEF DrainReader, Closed, goVars, TypeOK, Links, WaitingReaders,
     Placed, Conns, LoopStates, GoStates
<1>25. ASSUME NEW s \in StreamIds, DrainDone(s)  PROVE  WaitingReaders'
  BY <1>25, StreamAssumption DEF DrainDone, Closed, ClosedWriters, goVars, TypeOK, Links,
     WaitingReaders, Placed, Conns, LoopStates, GoStates
<1>26. ASSUME NEW c \in Conns, LinkFails(c)  PROVE  WaitingReaders'
  BY <1>26, StreamAssumption DEF LinkFails, streamVars, goVars, TypeOK, Links, WaitingReaders,
     Placed, Conns, LoopStates, GoStates
<1>27. ASSUME NEW c \in Conns, Expire(c)  PROVE  WaitingReaders'
  BY <1>27, StreamAssumption DEF Expire, streamVars, goVars, TypeOK, Links, WaitingReaders,
     Placed, Conns, LoopStates, GoStates
<1>28. CASE UNCHANGED vars
  BY <1>28 DEF vars, streamVars, connVars, goVars, TypeOK, Links, WaitingReaders, Placed, Conns,
     LoopStates, GoStates
<1> QED
  BY <1>1, <1>2, <1>3, <1>4, <1>5, <1>6, <1>7, <1>8, <1>9, <1>10, <1>11, <1>12, <1>13,
     <1>14, <1>15, <1>16, <1>17, <1>18, <1>19, <1>20, <1>21, <1>22, <1>23, <1>24, <1>25,
     <1>26, <1>27, <1>28 DEF Next, LoopStep, ReadStep, Tick

\* A connection that was handed over stays with its stream.
LEMMA PlacedStep == TypeOK /\ Links /\ [Next]_vars => Placed'
<1> SUFFICES ASSUME TypeOK, Links, [Next]_vars  PROVE Placed'
  OBVIOUS
<1>1. ASSUME NEW c \in Conns, NEW k \in Keys, NEW s \in StreamIds, HandleConnect(c, k, s)
       PROVE  Placed'
  BY <1>1, StreamAssumption DEF HandleConnect, getOrCreate, goVars, TypeOK, Links,
     WaitingReaders, Placed, Goroutines, Conns
<1>2. ASSUME NEW c \in Publishers, SendReader(c)  PROVE  Placed'
  BY <1>2, StreamAssumption DEF SendReader, goVars, TypeOK, Links, WaitingReaders, Placed,
     Goroutines, Conns
<1>3. ASSUME NEW c \in Publishers, StartRead(c)  PROVE  Placed'
  BY <1>3, StreamAssumption DEF StartRead, streamVars, connVars, TypeOK, Links, WaitingReaders,
     Placed, Goroutines, Conns
<1>4. ASSUME NEW c \in Publishers, CallRead(c)  PROVE  Placed'
  BY <1>4, StreamAssumption DEF CallRead, streamVars, TypeOK, Links, WaitingReaders, Placed,
     Goroutines, Conns
<1>5. ASSUME NEW c \in Publishers, ReadPacket(c)  PROVE  Placed'
  BY <1>5, StreamAssumption DEF ReadPacket, streamVars, TypeOK, Links, WaitingReaders, Placed,
     Goroutines, Conns
<1>6. ASSUME NEW c \in Publishers, Forward(c)  PROVE  Placed'
  BY <1>6, StreamAssumption DEF Forward, TrySend, connVars, TypeOK, Links, WaitingReaders,
     Placed, Goroutines, Conns
<1>7. ASSUME NEW c \in Publishers, ReadErr(c)  PROVE  Placed'
  BY <1>7, StreamAssumption DEF ReadErr, connVars, TypeOK, Links, WaitingReaders, Placed,
     Goroutines, Conns
<1>8. ASSUME NEW c \in Publishers, ReadRace(c)  PROVE  Placed'
  BY <1>8, StreamAssumption DEF ReadRace, streamVars, connVars, goVars, TypeOK, Links,
     WaitingReaders, Placed, Goroutines, Conns
<1>9. ASSUME NEW c \in Publishers, PeerSends(c)  PROVE  Placed'
  BY <1>9, StreamAssumption DEF PeerSends, streamVars, goVars, TypeOK, Links, WaitingReaders,
     Placed, Goroutines, Conns
<1>10. ASSUME NEW p \in Players, SendWriter(p)  PROVE  Placed'
  BY <1>10, StreamAssumption DEF SendWriter, goVars, TypeOK, Links, WaitingReaders, Placed,
     Goroutines, Conns
<1>11. ASSUME NEW p \in Players, SendPacket(p)  PROVE  Placed'
  BY <1>11, StreamAssumption DEF SendPacket, streamVars, goVars, TypeOK, Links, WaitingReaders,
     Placed, Goroutines, Conns
<1>12. ASSUME NEW p \in Players, SendFails(p)  PROVE  Placed'
  BY <1>12, StreamAssumption DEF SendFails, streamVars, goVars, TypeOK, Links, WaitingReaders,
     Placed, Goroutines, Conns
<1>13. ASSUME NEW p \in Players, CheckFails(p)  PROVE  Placed'
  BY <1>13, StreamAssumption DEF CheckFails, ClosedWriters, Closed, streamVars, goVars, TypeOK,
     Links, WaitingReaders, Placed, Goroutines, Conns
<1>14. ASSUME NEW s \in StreamIds, Deliver(s)  PROVE  Placed'
  BY <1>14, StreamAssumption DEF Deliver, Closed, goVars, TypeOK, Links, WaitingReaders, Placed,
     Goroutines, Conns
<1>15. ASSUME NEW s \in StreamIds, TakeWriter(s)  PROVE  Placed'
  <2>1. \/ UNCHANGED <<writers, writerChan>>
        \/ /\ writers' = [writers EXCEPT ![s] = writers[s] \cup {writerChan[s]}]
           /\ writerChan' = [writerChan EXCEPT ![s] = Nil]
           /\ writerChan[s] # Nil
    BY <1>15 DEF TakeWriter
  <2>2. UNCHANGED <<phase, target>>
    BY <1>15 DEF TakeWriter, connVars
  <2>3. ASSUME NEW t \in StreamIds
        PROVE  writers'[t] \cup ({writerChan'[t]} \ {Nil})
                 \subseteq writers[t] \cup ({writerChan[t]} \ {Nil})
    BY <2>1, StreamAssumption DEF TypeOK
  <2> QED
    BY <2>2, <2>3 DEF Links, Placed
<1>16. ASSUME NEW s \in StreamIds, FirstReader(s)  PROVE  Placed'
  BY <1>16, StreamAssumption DEF FirstReader, connVars, TypeOK, Links, WaitingReaders, Placed,
     Goroutines, Conns
<1>17. ASSUME NEW s \in StreamIds, Takeover(s)  PROVE  Placed'
  BY <1>17, StreamAssumption DEF Takeover, Closed, goVars, TypeOK, Links, WaitingReaders,
     Placed, Goroutines, Conns
<1>18. ASSUME NEW s \in StreamIds, Install(s)  PROVE  Placed'
  BY <1>18, StreamAssumption DEF Install, CleanLoop, Running, connVars, TypeOK, Links,
     WaitingReaders, Placed, Goroutines, Conns
<1>19. ASSUME NEW s \in StreamIds, TickExit(s)  PROVE  Placed'
  BY <1>19, StreamAssumption DEF TickExit, connVars, goVars, TypeOK, Links, WaitingReaders,
     Placed, Goroutines, Conns
<1>20. ASSUME NEW s \in StreamIds, TickSweep(s)  PROVE  Placed'
  BY <1>20, StreamAssumption DEF TickSweep, Closed, ClosedWriters, goVars, TypeOK, Links,
     WaitingReaders, Placed, Goroutines, Conns
<1>21. ASSUME NEW s \in StreamIds, Remove(s)  PROVE  Placed'
  BY <1>21, StreamAssumption DEF Remove, connVars, goVars, TypeOK, Links, WaitingReaders,
     Placed, Goroutines, Conns
<1>22. ASSUME NEW s \in StreamIds, CloseReader(s)  PROVE  Placed'
  BY <1>22, StreamAssumption DEF CloseReader, Closed, goVars, TypeOK, Links, WaitingReaders,
     Placed, Goroutines, Conns
<1>23. ASSUME NEW s \in StreamIds, DrainWriter(s)  PROVE  Placed'
  BY <1>23, StreamAssumption DEF DrainWriter, Closed, ClosedWriters, goVars, TypeOK, Links,
     WaitingReaders, Placed, Goroutines, Conns
<1>24. ASSUME NEW s \in StreamIds, DrainReader(s)  PROVE  Placed'
  BY <1>24, StreamAssumption DEF DrainReader, Closed, goVars, TypeOK, Links, WaitingReaders,
     Placed, Goroutines, Conns
<1>25. ASSUME NEW s \in StreamIds, DrainDone(s)  PROVE  Placed'
  BY <1>25, StreamAssumption DEF DrainDone, Closed, ClosedWriters, goVars, TypeOK, Links,
     WaitingReaders, Placed, Goroutines, Conns
<1>26. ASSUME NEW c \in Conns, LinkFails(c)  PROVE  Placed'
  BY <1>26, StreamAssumption DEF LinkFails, streamVars, goVars, TypeOK, Links, WaitingReaders,
     Placed, Goroutines, Conns
<1>27. ASSUME NEW c \in Conns, Expire(c)  PROVE  Placed'
  BY <1>27, StreamAssumption DEF Expire, streamVars, goVars, TypeOK, Links, WaitingReaders,
     Placed, Goroutines, Conns
<1>28. CASE UNCHANGED vars
  BY <1>28 DEF vars, streamVars, connVars, goVars, TypeOK, Links, WaitingReaders, Placed,
     Goroutines, Conns
<1> QED
  BY <1>1, <1>2, <1>3, <1>4, <1>5, <1>6, <1>7, <1>8, <1>9, <1>10, <1>11, <1>12, <1>13,
     <1>14, <1>15, <1>16, <1>17, <1>18, <1>19, <1>20, <1>21, <1>22, <1>23, <1>24, <1>25,
     <1>26, <1>27, <1>28 DEF Next, LoopStep, ReadStep, Tick

\* Goroutines run on streams that have a reader.
LEMMA GoroutinesStep == TypeOK /\ Links /\ [Next]_vars => Goroutines'
<1> SUFFICES ASSUME TypeOK, Links, [Next]_vars  PROVE Goroutines'
  OBVIOUS
<1>1. ASSUME NEW c \in Conns, NEW k \in Keys, NEW s \in StreamIds, HandleConnect(c, k, s)
       PROVE  Goroutines'
  BY <1>1, StreamAssumption DEF HandleConnect, getOrCreate, goVars, TypeOK, Links,
     WaitingReaders, Placed, Goroutines, Conns, GoStates
<1>2. ASSUME NEW c \in Publishers, SendReader(c)  PROVE  Goroutines'
  BY <1>2, StreamAssumption DEF SendReader, goVars, TypeOK, Links, WaitingReaders, Placed,
     Goroutines, Conns, GoStates
<1>3. ASSUME NEW c \in Publishers, StartRead(c)  PROVE  Goroutines'
  BY <1>3, StreamAssumption DEF StartRead, streamVars, connVars, TypeOK, Links, WaitingReaders,
     Placed, Goroutines, Conns, GoStates
<1>4. ASSUME NEW c \in Publishers, CallRead(c)  PROVE  Goroutines'
  BY <1>4, StreamAssumption DEF CallRead, streamVars, TypeOK, Links, WaitingReaders, Placed,
     Goroutines, Conns, GoStates
<1>5. ASSUME NEW c \in Publishers, ReadPacket(c)  PROVE  Goroutines'
  BY <1>5, StreamAssumption DEF ReadPacket, streamVars, TypeOK, Links, WaitingReaders, Placed,
     Goroutines, Conns, GoStates
<1>6. ASSUME NEW c \in Publishers, Forward(c)  PROVE  Goroutines'
  BY <1>6, StreamAssumption DEF Forward, TrySend, connVars, TypeOK, Links, WaitingReaders,
     Placed, Goroutines, Conns, GoStates
<1>7. ASSUME NEW c \in Publishers, ReadErr(c)  PROVE  Goroutines'
  BY <1>7, StreamAssumption DEF ReadErr, connVars, TypeOK, Links, WaitingReaders, Placed,
     Goroutines, Conns, GoStates
<1>8. ASSUME NEW c \in Publishers, ReadRace(c)  PROVE  Goroutines'
  BY <1>8, StreamAssumption DEF ReadRace, streamVars, connVars, goVars, TypeOK, Links,
     WaitingReaders, Placed, Goroutines, Conns, GoStates
<1>9. ASSUME NEW c \in Publishers, PeerSends(c)  PROVE  Goroutines'
  BY <1>9, StreamAssumption DEF PeerSends, streamVars, goVars, TypeOK, Links, WaitingReaders,
     Placed, Goroutines, Conns, GoStates
<1>10. ASSUME NEW p \in Players, SendWriter(p)  PROVE  Goroutines'
  BY <1>10, StreamAssumption DEF SendWriter, goVars, TypeOK, Links, WaitingReaders, Placed,
     Goroutines, Conns, GoStates
<1>11. ASSUME NEW p \in Players, SendPacket(p)  PROVE  Goroutines'
  BY <1>11, StreamAssumption DEF SendPacket, streamVars, goVars, TypeOK, Links, WaitingReaders,
     Placed, Goroutines, Conns, GoStates
<1>12. ASSUME NEW p \in Players, SendFails(p)  PROVE  Goroutines'
  BY <1>12, StreamAssumption DEF SendFails, streamVars, goVars, TypeOK, Links, WaitingReaders,
     Placed, Goroutines, Conns, GoStates
<1>13. ASSUME NEW p \in Players, CheckFails(p)  PROVE  Goroutines'
  BY <1>13, StreamAssumption DEF CheckFails, ClosedWriters, Closed, streamVars, goVars, TypeOK,
     Links, WaitingReaders, Placed, Goroutines, Conns, GoStates
<1>14. ASSUME NEW s \in StreamIds, Deliver(s)  PROVE  Goroutines'
  BY <1>14, StreamAssumption DEF Deliver, Closed, goVars, TypeOK, Links, WaitingReaders, Placed,
     Goroutines, Conns, GoStates
<1>15. ASSUME NEW s \in StreamIds, TakeWriter(s)  PROVE  Goroutines'
  BY <1>15, StreamAssumption DEF TakeWriter, connVars, goVars, TypeOK, Links, WaitingReaders,
     Placed, Goroutines, Conns, GoStates
<1>16. ASSUME NEW s \in StreamIds, FirstReader(s)  PROVE  Goroutines'
  BY <1>16, StreamAssumption DEF FirstReader, connVars, TypeOK, Links, WaitingReaders, Placed,
     Goroutines, Conns, GoStates
<1>17. ASSUME NEW s \in StreamIds, Takeover(s)  PROVE  Goroutines'
  BY <1>17, StreamAssumption DEF Takeover, Closed, goVars, TypeOK, Links, WaitingReaders,
     Placed, Goroutines, Conns, GoStates
<1>18. ASSUME NEW s \in StreamIds, Install(s)  PROVE  Goroutines'
  BY <1>18, StreamAssumption DEF Install, CleanLoop, Running, connVars, TypeOK, Links,
     WaitingReaders, Placed, Goroutines, Conns, GoStates
<1>19. ASSUME NEW s \in StreamIds, TickExit(s)  PROVE  Goroutines'
  BY <1>19, StreamAssumption DEF TickExit, connVars, goVars, TypeOK, Links, WaitingReaders,
     Placed, Goroutines, Conns, GoStates
<1>20. ASSUME NEW s \in StreamIds, TickSweep(s)  PROVE  Goroutines'
  BY <1>20, StreamAssumption DEF TickSweep, Closed, ClosedWriters, goVars, TypeOK, Links,
     WaitingReaders, Placed, Goroutines, Conns, GoStates
<1>21. ASSUME NEW s \in StreamIds, Remove(s)  PROVE  Goroutines'
  BY <1>21, StreamAssumption DEF Remove, connVars, goVars, TypeOK, Links, WaitingReaders,
     Placed, Goroutines, Conns, GoStates
<1>22. ASSUME NEW s \in StreamIds, CloseReader(s)  PROVE  Goroutines'
  BY <1>22, StreamAssumption DEF CloseReader, Closed, goVars, TypeOK, Links, WaitingReaders,
     Placed, Goroutines, Conns, GoStates
<1>23. ASSUME NEW s \in StreamIds, DrainWriter(s)  PROVE  Goroutines'
  BY <1>23, StreamAssumption DEF DrainWriter, Closed, ClosedWriters, goVars, TypeOK, Links,
     WaitingReaders, Placed, Goroutines, Conns, GoStates
<1>24. ASSUME NEW s \in StreamIds, DrainReader(s)  PROVE  Goroutines'
  BY <1>24, StreamAssumption DEF DrainReader, Closed, goVars, TypeOK, Links, WaitingReaders,
     Placed, Goroutines, Conns, GoStates
<1>25. ASSUME NEW s \in StreamIds, DrainDone(s)  PROVE  Goroutines'
  BY <1>25, StreamAssumption DEF DrainDone, Closed, ClosedWriters, goVars, TypeOK, Links,
     WaitingReaders, Placed, Goroutines, Conns, GoStates
<1>26. ASSUME NEW c \in Conns, LinkFails(c)  PROVE  Goroutines'
  BY <1>26, StreamAssumption DEF LinkFails, streamVars, goVars, TypeOK, Links, WaitingReaders,
     Placed, Goroutines, Conns, GoStates
<1>27. ASSUME NEW c \in Conns, Expire(c)  PROVE  Goroutines'
  BY <1>27, StreamAssumption DEF Expire, streamVars, goVars, TypeOK, Links, WaitingReaders,
     Placed, Goroutines, Conns, GoStates
<1>28. CASE UNCHANGED vars
  BY <1>28 DEF vars, streamVars, connVars, goVars, TypeOK, Links, WaitingReaders, Placed,
     Goroutines, Conns, GoStates
<1> QED
  BY <1>1, <1>2, <1>3, <1>4, <1>5, <1>6, <1>7, <1>8, <1>9, <1>10, <1>11, <1>12, <1>13,
     <1>14, <1>15, <1>16, <1>17, <1>18, <1>19, <1>20, <1>21, <1>22, <1>23, <1>24, <1>25,
     <1>26, <1>27, <1>28 DEF Next, LoopStep, ReadStep, Tick

\* The variables that say who reads a stream, who is still reading and what was read.
readVars == <<target, reader, rgo, rconn, late, pktChan>>

\* Only these steps change them; a new connection gets its stream before it has a goroutine.
LEMMA ReadVarsStep ==
  ASSUME TypeOK, Links, [Next]_vars
  PROVE  \/ \E c \in Conns, k \in Keys, s \in StreamIds : HandleConnect(c, k, s)
         \/ \E s \in StreamIds : FirstReader(s) \/ Install(s) \/ Deliver(s)
         \/ \E c \in Publishers : StartRead(c) \/ CallRead(c) \/ ReadPacket(c) \/ Forward(c) \/
            ReadErr(c)
         \/ UNCHANGED readVars
<1>1. ASSUME NEW c \in Publishers, SendReader(c) \/ ReadRace(c) \/ PeerSends(c)
      PROVE  UNCHANGED readVars
  BY <1>1 DEF SendReader, ReadRace, PeerSends, readVars, streamVars, connVars, goVars
<1>2. ASSUME NEW p \in Players, SendWriter(p) \/ SendPacket(p) \/ SendFails(p) \/ CheckFails(p)
      PROVE  UNCHANGED readVars
  BY <1>2 DEF SendWriter, SendPacket, SendFails, CheckFails, readVars, streamVars, connVars,
     goVars
<1>3. ASSUME NEW s \in StreamIds,
             TakeWriter(s) \/ Takeover(s) \/ Tick(s) \/ Remove(s) \/ CloseReader(s)
               \/ DrainWriter(s) \/ DrainReader(s) \/ DrainDone(s)
      PROVE  UNCHANGED readVars
  BY <1>3 DEF TakeWriter, Takeover, Tick, TickExit, TickSweep, Remove, CloseReader, DrainWriter,
     DrainReader, DrainDone, readVars, streamVars, connVars, goVars
<1>4. ASSUME NEW c \in Conns, LinkFails(c) \/ Expire(c)
      PROVE  UNCHANGED readVars
  BY <1>4 DEF LinkFails, Expire, readVars, streamVars, connVars, goVars
<1>5. CASE UNCHANGED vars
  BY <1>5 DEF vars, readVars, streamVars, connVars, goVars
<1> QED
  BY <1>1, <1>2, <1>3, <1>4, <1>5 DEF Next, LoopStep, ReadStep


\* A takeover that leaves nobody behind leaves the new reader's goroutine alone.
LEMMA AloneStep == TypeOK /\ Links /\ ReaderAlone /\ [Next]_vars => ReaderAlone'
<1> SUFFICES ASSUME TypeOK, Links, ReaderAlone, [Next]_vars  PROVE ReaderAlone'
  OBVIOUS
<1>1. ASSUME NEW c \in Conns, NEW k \in Keys, NEW s \in StreamIds, HandleConnect(c, k, s)
       PROVE  ReaderAlone'
  BY <1>1, StreamAssumption DEF HandleConnect, goVars, TypeOK, Links, WaitingReaders, Placed,
     Goroutines, Conns, GoStates, ReaderAlone, NoLate
<1>2. ASSUME NEW s \in StreamIds, FirstReader(s)  PROVE  ReaderAlone'
  BY <1>2, StreamAssumption DEF FirstReader, connVars, TypeOK, Links, WaitingReaders, Placed,
     Goroutines, Conns, GoStates, ReaderAlone, NoLate
<1>3. ASSUME NEW s \in StreamIds, Install(s)  PROVE  ReaderAlone'
  BY <1>3, StreamAssumption DEF Install, CleanLoop, Running, connVars, TypeOK, Links,
     WaitingReaders, Placed, Goroutines, Conns, GoStates, ReaderAlone, NoLate
<1>4. ASSUME NEW s \in StreamIds, Deliver(s)  PROVE  ReaderAlone'
  BY <1>4, StreamAssumption DEF Deliver, goVars, TypeOK, Links, WaitingReaders, Placed,
     Goroutines, Conns, GoStates, ReaderAlone, NoLate
<1>5. ASSUME NEW c \in Publishers, StartRead(c)  PROVE  ReaderAlone'
  BY <1>5, StreamAssumption DEF StartRead, streamVars, connVars, TypeOK, Links, WaitingReaders,
     Placed, Goroutines, Conns, GoStates, ReaderAlone, NoLate
<1>6. ASSUME NEW c \in Publishers, CallRead(c)  PROVE  ReaderAlone'
  BY <1>6, StreamAssumption DEF CallRead, streamVars, TypeOK, Links, WaitingReaders, Placed,
     Goroutines, Conns, GoStates, ReaderAlone, NoLate
<1>7. ASSUME NEW c \in Publishers, ReadPacket(c)  PROVE  ReaderAlone'
  BY <1>7, StreamAssumption DEF ReadPacket, streamVars, TypeOK, Links, WaitingReaders, Placed,
     Goroutines, Conns, GoStates, ReaderAlone, NoLate
<1>8. ASSUME NEW c \in Publishers, Forward(c)  PROVE  ReaderAlone'
  BY <1>8, StreamAssumption DEF Forward, TrySend, connVars, TypeOK, Links, WaitingReaders,
     Placed, Goroutines, Conns, GoStates, ReaderAlone, NoLate
<1>9. ASSUME NEW c \in Publishers, ReadErr(c)  PROVE  ReaderAlone'
  BY <1>9, StreamAssumption DEF ReadErr, connVars, TypeOK, Links, WaitingReaders, Placed,
     Goroutines, Conns, GoStates, ReaderAlone, NoLate
<1>10. CASE UNCHANGED readVars
  BY <1>10 DEF readVars, TypeOK, Links, WaitingReaders, Placed, Goroutines, Conns, GoStates,
     ReaderAlone, NoLate
<1> QED
  BY <1>1, <1>2, <1>3, <1>4, <1>5, <1>6, <1>7, <1>8, <1>9, <1>10, ReadVarsStep

\* What enters pktChan comes from the present reader.
LEMMA CleanStep ==
  TypeOK /\ Links /\ ReaderAlone /\ TakeoverClean /\ [Next]_vars => TakeoverClean'
<1> SUFFICES ASSUME TypeOK, Links, ReaderAlone, TakeoverClean, [Next]_vars,
                    NEW t \in StreamIds, NoLate(t)', NEW i \in DOMAIN pktChan'[t]
             PROVE  pktChan'[t][i] = reader'[t]
  BY DEF TakeoverClean
<1>a. \A u \in StreamIds : NoLate(u) => \A j \in DOMAIN pktChan[u] : pktChan[u][j] = reader[u]
  BY DEF TakeoverClean
<1>1. ASSUME NEW c \in Conns, NEW k \in Keys, NEW s \in StreamIds, HandleConnect(c, k, s)
       PROVE  pktChan'[t][i] = reader'[t]
  <2>1. UNCHANGED <<late, pktChan, reader>> /\ target' = [target EXCEPT ![c] = s]
    BY <1>1 DEF HandleConnect, goVars
  <2>2. \A d \in late : d # c
    BY <1>1 DEF HandleConnect, Links, Goroutines, TypeOK
  <2>3. NoLate(t)
    BY <2>1, <2>2 DEF NoLate, TypeOK, Conns
  <2> QED
    BY <2>1, <2>3, <1>a
<1>2. ASSUME NEW s \in StreamIds, FirstReader(s)  PROVE  pktChan'[t][i] = reader'[t]
  <2>1. UNCHANGED <<late, target, pktChan>> /\ reader' = [reader EXCEPT ![s] = readerChan[s]]
    BY <1>2 DEF FirstReader, connVars
  <2>2. NoLate(t) /\ pktChan[t][i] = reader[t] /\ i \in DOMAIN pktChan[t]
    BY <2>1, <1>a DEF NoLate
  <2>3. pktChan[t][i] \in Publishers
    BY <2>2 DEF TypeOK
  <2>4. t # s
    BY <1>2, <2>2, <2>3, StreamAssumption DEF FirstReader, Conns
  <2> QED
    BY <2>1, <2>2, <2>4 DEF TypeOK
<1>3. ASSUME NEW s \in StreamIds, Install(s)  PROVE  pktChan'[t][i] = reader'[t]
  <2>1. /\ UNCHANGED target
        /\ late \subseteq late'
        /\ pktChan' = [pktChan EXCEPT ![s] = <<>>]
        /\ reader' = [reader EXCEPT ![s] = incoming[s]]
    BY <1>3 DEF Install, CleanLoop, connVars
  <2>2. t # s
    BY <2>1 DEF TypeOK
  <2> QED
    BY <2>1, <2>2, <1>a DEF NoLate, TypeOK
<1>4. ASSUME NEW s \in StreamIds, Deliver(s)  PROVE  pktChan'[t][i] = reader'[t]
  <2>1. UNCHANGED <<late, target, reader>> /\ pktChan' = [pktChan EXCEPT ![s] =
     Tail(pktChan[s])]
    BY <1>4 DEF Deliver, goVars
  <2>2. NoLate(t)
    BY <2>1 DEF NoLate
  <2>3. CASE t # s
    BY <2>1, <2>2, <2>3, <1>a DEF TypeOK
  <2>4. CASE t = s
    <3>1. pktChan[s] \in Seq(Publishers) /\ pktChan[s] # <<>> /\ pktChan'[s] = Tail(pktChan[s])
      BY <1>4, <2>1 DEF Deliver, TypeOK
    <3>2. i + 1 \in DOMAIN pktChan[s] /\ pktChan'[s][i] = pktChan[s][i + 1]
      BY <2>4, <3>1
    <3> QED
      BY <2>1, <2>2, <2>4, <3>2, <1>a
  <2> QED
    BY <2>3, <2>4
<1>5. ASSUME NEW c \in Publishers, StartRead(c)  PROVE  pktChan'[t][i] = reader'[t]
  <2>1. UNCHANGED <<target, late, pktChan, reader>>
    BY <1>5 DEF StartRead, streamVars, connVars
  <2> QED
    BY <2>1, <1>a DEF NoLate
<1>6. ASSUME NEW c \in Publishers, CallRead(c)  PROVE  pktChan'[t][i] = reader'[t]
  <2>1. UNCHANGED <<target, late, pktChan, reader>>
    BY <1>6 DEF CallRead, streamVars
  <2> QED
    BY <2>1, <1>a DEF NoLate
<1>7. ASSUME NEW c \in Publishers, ReadPacket(c)  PROVE  pktChan'[t][i] = reader'[t]
  <2>1. UNCHANGED <<target, late, pktChan, reader>>
    BY <1>7 DEF ReadPacket, streamVars
  <2> QED
    BY <2>1, <1>a DEF NoLate
<1>8. ASSUME NEW c \in Publishers, Forward(c)  PROVE  pktChan'[t][i] = reader'[t]
  <2> DEFINE s == target[c]
             old == pktChan[s]
  <2>1. s \in StreamIds /\ rconn[c] \in Publishers
    BY <1>8 DEF Forward, TypeOK, Links, Placed, Goroutines, Conns, GoStates
  <2>2. UNCHANGED <<late, target, reader>>
    BY <1>8 DEF Forward, connVars
  <2>3. NoLate(t)
    BY <2>2 DEF NoLate
  <2>4. PICK q \in {IF Len(old) < PktCap THEN Append(old, rconn[c]) ELSE old} :
               pktChan' = [pktChan EXCEPT ![s] = q]
    BY <1>8 DEF Forward, TrySend
  <2>5. CASE t # s
    BY <2>2, <2>3, <2>4, <2>5, <1>a DEF TypeOK
  <2>6. CASE t = s
    <3>1. rconn[c] = reader[s]
      BY <1>8, <2>3, <2>6 DEF Forward, ReaderAlone
    <3>2. old \in Seq(Publishers) /\ pktChan'[s] = q
      BY <2>1, <2>4 DEF TypeOK
    <3>3. (i \in DOMAIN old /\ pktChan'[s][i] = old[i]) \/ pktChan'[s][i] = rconn[c]
      <4> HIDE DEF old, s
      <4>1. CASE q = old
        BY <1>a, <2>6, <3>2, <4>1
      <4>2. CASE q = Append(old, rconn[c])
        BY <1>a, <2>1, <2>6, <3>2, <4>2
      <4> QED  BY <2>4, <4>1, <4>2
    <3> QED
      BY <2>2, <2>3, <2>6, <3>1, <3>3, <1>a
  <2> QED
    BY <2>5, <2>6
<1>9. ASSUME NEW c \in Publishers, ReadErr(c)  PROVE  pktChan'[t][i] = reader'[t]
  <2>1. UNCHANGED <<target, late, pktChan, reader>>
    BY <1>9 DEF ReadErr, connVars
  <2> QED
    BY <2>1, <1>a DEF NoLate
<1>10. CASE UNCHANGED readVars
  BY <1>10, <1>a DEF readVars, NoLate
<1> QED
  BY <1>1, <1>2, <1>3, <1>4, <1>5, <1>6, <1>7, <1>8, <1>9, <1>10, ReadVarsStep

\* No step lets the registry and the running loops disagree.
LEMMA MapStep == TypeOK /\ MapConsistent /\ [Next]_vars => MapConsistent'
<1> SUFFICES ASSUME TypeOK, MapConsistent, [Next]_vars  PROVE MapConsistent'
  OBVIOUS
<1>1. ASSUME NEW c \in Conns, NEW k \in Keys, NEW s \in StreamIds, HandleConnect(c, k, s)
       PROVE  MapConsistent'
  <2>1. CASE streams[k] = s /\ UNCHANGED <<streams, skey, loop>>
    BY <1>1, <2>1 DEF MapConsistent
  <2>2. CASE /\ streams[k] = Nil /\ loop[s] = "none"
             /\ streams' = [streams EXCEPT ![k] = s]
             /\ skey' = [skey EXCEPT ![s] = k]
             /\ loop' = [loop EXCEPT ![s] = "run"]
    <3>1. \A t \in StreamIds : loop'[t] \in Registered => skey'[t] # Nil /\ streams'[skey'[t]] =
       t
      BY <2>2, StreamAssumption DEF TypeOK, MapConsistent, Registered
    <3>2. \A l \in Keys : streams'[l] # Nil => skey'[streams'[l]] = l /\ loop'[streams'[l]] \in
       Registered
      BY <2>2, StreamAssumption DEF TypeOK, MapConsistent, Registered
    <3> QED
      BY <3>1, <3>2 DEF MapConsistent
  <2> QED
    BY <1>1, <2>1, <2>2 DEF HandleConnect, getOrCreate
<1>2. ASSUME NEW c \in Publishers, SendReader(c)  PROVE  MapConsistent'
  BY <1>2, StreamAssumption DEF SendReader, goVars, TypeOK, MapConsistent, Registered, Conns,
     LoopStates
<1>3. ASSUME NEW c \in Publishers, StartRead(c)  PROVE  MapConsistent'
  BY <1>3, StreamAssumption DEF StartRead, streamVars, connVars, TypeOK, MapConsistent,
     Registered, Conns, LoopStates
<1>4. ASSUME NEW c \in Publishers, CallRead(c)  PROVE  MapConsistent'
  BY <1>4, StreamAssumption DEF CallRead, streamVars, TypeOK, MapConsistent, Registered, Conns,
     LoopStates
<1>5. ASSUME NEW c \in Publishers, ReadPacket(c)  PROVE  MapConsistent'
  BY <1>5, StreamAssumption DEF ReadPacket, streamVars, TypeOK, MapConsistent, Registered,
     Conns, LoopStates
<1>6. ASSUME NEW c \in Publishers, Forward(c)  PROVE  MapConsistent'
  BY <1>6, StreamAssumption DEF Forward, TrySend, connVars, TypeOK, MapConsistent, Registered,
     Conns, LoopStates
<1>7. ASSUME NEW c \in Publishers, ReadErr(c)  PROVE  MapConsistent'
  BY <1>7, StreamAssumption DEF ReadErr, connVars, TypeOK, MapConsistent, Registered, Conns,
     LoopStates
<1>8. ASSUME NEW c \in Publishers, ReadRace(c)  PROVE  MapConsistent'
  BY <1>8, StreamAssumption DEF ReadRace, streamVars, connVars, goVars, TypeOK, MapConsistent,
     Registered, Conns, LoopStates
<1>9. ASSUME NEW c \in Publishers, PeerSends(c)  PROVE  MapConsistent'
  BY <1>9, StreamAssumption DEF PeerSends, streamVars, goVars, TypeOK, MapConsistent,
     Registered, Conns, LoopStates
<1>10. ASSUME NEW p \in Players, SendWriter(p)  PROVE  MapConsistent'
  BY <1>10, StreamAssumption DEF SendWriter, goVars, TypeOK, MapConsistent, Registered, Conns,
     LoopStates
<1>11. ASSUME NEW p \in Players, SendPacket(p)  PROVE  MapConsistent'
  BY <1>11, StreamAssumption DEF SendPacket, streamVars, goVars, TypeOK, MapConsistent,
     Registered, Conns, LoopStates
<1>12. ASSUME NEW p \in Players, SendFails(p)  PROVE  MapConsistent'
  BY <1>12, StreamAssumption DEF SendFails, streamVars, goVars, TypeOK, MapConsistent,
     Registered, Conns, LoopStates
<1>13. ASSUME NEW p \in Players, CheckFails(p)  PROVE  MapConsistent'
  BY <1>13, StreamAssumption DEF CheckFails, ClosedWriters, Closed, streamVars, goVars, TypeOK,
     MapConsistent, Registered, Conns, LoopStates
<1>14. ASSUME NEW s \in StreamIds, Deliver(s)  PROVE  MapConsistent'
  BY <1>14, StreamAssumption DEF Deliver, Closed, goVars, TypeOK, MapConsistent, Registered,
     Conns, LoopStates
<1>15. ASSUME NEW s \in StreamIds, TakeWriter(s)  PROVE  MapConsistent'
  BY <1>15, StreamAssumption DEF TakeWriter, connVars, goVars, TypeOK, MapConsistent,
     Registered, Conns, LoopStates
<1>16. ASSUME NEW s \in StreamIds, FirstReader(s)  PROVE  MapConsistent'
  BY <1>16, StreamAssumption DEF FirstReader, connVars, TypeOK, MapConsistent, Registered,
     Conns, LoopStates
<1>17. ASSUME NEW s \in StreamIds, Takeover(s)  PROVE  MapConsistent'
  BY <1>17, StreamAssumption DEF Takeover, Closed, goVars, TypeOK, MapConsistent, Registered,
     Conns, LoopStates
<1>18. ASSUME NEW s \in StreamIds, Install(s)  PROVE  MapConsistent'
  BY <1>18, StreamAssumption DEF Install, CleanLoop, Running, connVars, TypeOK, MapConsistent,
     Registered, Conns, LoopStates
<1>19. ASSUME NEW s \in StreamIds, TickExit(s)  PROVE  MapConsistent'
  BY <1>19, StreamAssumption DEF TickExit, connVars, goVars, TypeOK, MapConsistent, Registered,
     Conns, LoopStates
<1>20. ASSUME NEW s \in StreamIds, TickSweep(s)  PROVE  MapConsistent'
  BY <1>20, StreamAssumption DEF TickSweep, Closed, ClosedWriters, goVars, TypeOK,
     MapConsistent, Registered, Conns, LoopStates
<1>21. ASSUME NEW s \in StreamIds, Remove(s)  PROVE  MapConsistent'
  BY <1>21, StreamAssumption DEF Remove, connVars, goVars, TypeOK, MapConsistent, Registered,
     Conns, LoopStates
<1>22. ASSUME NEW s \in StreamIds, CloseReader(s)  PROVE  MapConsistent'
  BY <1>22, StreamAssumption DEF CloseReader, Closed, goVars, TypeOK, MapConsistent, Registered,
     Conns, LoopStates
<1>23. ASSUME NEW s \in StreamIds, DrainWriter(s)  PROVE  MapConsistent'
  BY <1>23, StreamAssumption DEF DrainWriter, Closed, ClosedWriters, goVars, TypeOK,
     MapConsistent, Registered, Conns, LoopStates
<1>24. ASSUME NEW s \in StreamIds, DrainReader(s)  PROVE  MapConsistent'
  BY <1>24, StreamAssumption DEF DrainReader, Closed, goVars, TypeOK, MapConsistent, Registered,
     Conns, LoopStates
<1>25. ASSUME NEW s \in StreamIds, DrainDone(s)  PROVE  MapConsistent'
  BY <1>25, StreamAssumption DEF DrainDone, Closed, ClosedWriters, goVars, TypeOK,
     MapConsistent, Registered, Conns, LoopStates
<1>26. ASSUME NEW c \in Conns, LinkFails(c)  PROVE  MapConsistent'
  BY <1>26, StreamAssumption DEF LinkFails, streamVars, goVars, TypeOK, MapConsistent,
     Registered, Conns, LoopStates
<1>27. ASSUME NEW c \in Conns, Expire(c)  PROVE  MapConsistent'
  BY <1>27, StreamAssumption DEF Expire, streamVars, goVars, TypeOK, MapConsistent, Registered,
     Conns, LoopStates
<1>28. CASE UNCHANGED vars
  BY <1>28 DEF vars, streamVars, connVars, goVars, TypeOK, MapConsistent, Registered, Conns,
     LoopStates
<1> QED
  BY <1>1, <1>2, <1>3, <1>4, <1>5, <1>6, <1>7, <1>8, <1>9, <1>10, <1>11, <1>12, <1>13,
     <1>14, <1>15, <1>16, <1>17, <1>18, <1>19, <1>20, <1>21, <1>22, <1>23, <1>24, <1>25,
     <1>26, <1>27, <1>28 DEF Next, LoopStep, ReadStep, Tick

\* No step loses a connection that is still open.
LEMMA LeakStep == TypeOK /\ Links /\ NoLeak /\ [Next]_vars => NoLeak'
<1> SUFFICES ASSUME TypeOK, Links, NoLeak, [Next]_vars,
                    NEW d \in Conns, phase'[d] = "sent", open'[d]
             PROVE  Owned(d)'
  BY DEF NoLeak
<1>1. ASSUME NEW c \in Conns, NEW k \in Keys, NEW s \in StreamIds, HandleConnect(c, k, s)
       PROVE  Owned(d)'
  BY <1>1, StreamAssumption DEF HandleConnect, getOrCreate, goVars, TypeOK, Links,
     WaitingReaders, Placed, Conns, NoLeak, Owned, LoopStates
<1>2. ASSUME NEW c \in Publishers, SendReader(c)  PROVE  Owned(d)'
  BY <1>2, StreamAssumption DEF SendReader, goVars, TypeOK, Links, WaitingReaders, Placed,
     Conns, NoLeak, Owned, LoopStates
<1>3. ASSUME NEW c \in Publishers, StartRead(c)  PROVE  Owned(d)'
  BY <1>3, StreamAssumption DEF StartRead, streamVars, connVars, TypeOK, Links, WaitingReaders,
     Placed, Conns, NoLeak, Owned, LoopStates
<1>4. ASSUME NEW c \in Publishers, CallRead(c)  PROVE  Owned(d)'
  BY <1>4, StreamAssumption DEF CallRead, streamVars, TypeOK, Links, WaitingReaders, Placed,
     Conns, NoLeak, Owned, LoopStates
<1>5. ASSUME NEW c \in Publishers, ReadPacket(c)  PROVE  Owned(d)'
  BY <1>5, StreamAssumption DEF ReadPacket, streamVars, TypeOK, Links, WaitingReaders, Placed,
     Conns, NoLeak, Owned, LoopStates
<1>6. ASSUME NEW c \in Publishers, Forward(c)  PROVE  Owned(d)'
  BY <1>6, StreamAssumption DEF Forward, TrySend, connVars, TypeOK, Links, WaitingReaders,
     Placed, Conns, NoLeak, Owned, LoopStates
<1>7. ASSUME NEW c \in Publishers, ReadErr(c)  PROVE  Owned(d)'
  <2>1. /\ UNCHANGED <<phase, target, open, reader, incoming, readerChan, writerChan, writers>>
        /\ \A t \in StreamIds : loop'[t] = loop[t] \/ (loop[t] = "wait" /\ loop'[t] = "woken")
    BY <1>7 DEF ReadErr, connVars, TypeOK
  <2>2. Owned(d) /\ target[d] \in StreamIds
    BY <2>1 DEF NoLeak, Links, Placed
  <2> QED
    BY <2>1, <2>2 DEF Owned
<1>8. ASSUME NEW c \in Publishers, ReadRace(c)  PROVE  Owned(d)'
  BY <1>8, StreamAssumption DEF ReadRace, streamVars, connVars, goVars, TypeOK, Links,
     WaitingReaders, Placed, Conns, NoLeak, Owned, LoopStates
<1>9. ASSUME NEW c \in Publishers, PeerSends(c)  PROVE  Owned(d)'
  BY <1>9, StreamAssumption DEF PeerSends, streamVars, goVars, TypeOK, Links, WaitingReaders,
     Placed, Conns, NoLeak, Owned, LoopStates
<1>10. ASSUME NEW p \in Players, SendWriter(p)  PROVE  Owned(d)'
  BY <1>10, StreamAssumption DEF SendWriter, goVars, TypeOK, Links, WaitingReaders, Placed,
     Conns, NoLeak, Owned, LoopStates
<1>11. ASSUME NEW p \in Players, SendPacket(p)  PROVE  Owned(d)'
  BY <1>11, StreamAssumption DEF SendPacket, streamVars, goVars, TypeOK, Links, WaitingReaders,
     Placed, Conns, NoLeak, Owned, LoopStates
<1>12. ASSUME NEW p \in Players, SendFails(p)  PROVE  Owned(d)'
  BY <1>12, StreamAssumption DEF SendFails, streamVars, goVars, TypeOK, Links, WaitingReaders,
     Placed, Conns, NoLeak, Owned, LoopStates
<1>13. ASSUME NEW p \in Players, CheckFails(p)  PROVE  Owned(d)'
  BY <1>13, StreamAssumption DEF CheckFails, ClosedWriters, Closed, streamVars, goVars, TypeOK,
     Links, WaitingReaders, Placed, Conns, NoLeak, Owned, LoopStates
<1>14. ASSUME NEW s \in StreamIds, Deliver(s)  PROVE  Owned(d)'
  <2>1. CASE phase[d] = "sent" /\ open[d]
    <3>1. Owned(d) /\ target[d] \in StreamIds
      BY <2>1 DEF NoLeak, Links, Placed
    <3>2. CASE target[d] # s
      BY <1>14, <3>1, <3>2, StreamAssumption DEF Deliver, Closed, goVars, TypeOK, Conns, Owned
    <3>3. CASE target[d] = s /\ d \in Publishers
      BY <1>14, <3>1, <3>3, StreamAssumption DEF Deliver, Closed, goVars, TypeOK, Conns, Owned,
         Links, WaitingReaders
    <3>4. CASE target[d] = s /\ d \in Players
      BY <1>14, <3>1, <3>4, StreamAssumption DEF Deliver, Closed, goVars, TypeOK, Conns, Owned
    <3> QED
      BY <3>2, <3>3, <3>4 DEF Conns
  <2> QED
    BY <1>14, <2>1 DEF Deliver, Closed, goVars, TypeOK, Conns
<1>15. ASSUME NEW s \in StreamIds, TakeWriter(s)  PROVE  Owned(d)'
  BY <1>15, StreamAssumption DEF TakeWriter, connVars, goVars, TypeOK, Links, WaitingReaders,
     Placed, Conns, NoLeak, Owned, LoopStates
<1>16. ASSUME NEW s \in StreamIds, FirstReader(s)  PROVE  Owned(d)'
  <2>1. CASE phase[d] = "sent" /\ open[d]
    <3>1. Owned(d) /\ target[d] \in StreamIds
      BY <2>1 DEF NoLeak, Links, Placed
    <3>2. CASE target[d] # s
      BY <1>16, <3>1, <3>2, StreamAssumption DEF FirstReader, connVars, TypeOK, Conns, Owned
    <3>3. CASE target[d] = s /\ d \in Publishers
      BY <1>16, <3>1, <3>3, StreamAssumption DEF FirstReader, connVars, TypeOK, Conns, Owned,
         Links, WaitingReaders
    <3>4. CASE target[d] = s /\ d \in Players
      BY <1>16, <3>1, <3>4, StreamAssumption DEF FirstReader, connVars, TypeOK, Conns, Owned
    <3> QED
      BY <3>2, <3>3, <3>4 DEF Conns
  <2> QED
    BY <1>16, <2>1 DEF FirstReader, connVars, TypeOK, Conns
<1>17. ASSUME NEW s \in StreamIds, Takeover(s)  PROVE  Owned(d)'
  <2>1. /\ UNCHANGED <<phase, target, reader, writerChan, writers>>
        /\ readerChan' = [readerChan EXCEPT ![s] = Nil]
        /\ incoming' = [incoming EXCEPT ![s] = readerChan[s]]
        /\ open[d] /\ d # reader[s] /\ loop[s] = "run"
    BY <1>17 DEF Takeover, Closed
  <2>2. \A t \in StreamIds : loop'[t] = loop[t] \/ (t = s /\ loop'[t] \in {"install", "wait"})
    BY <1>17 DEF Takeover, TypeOK
  <2>3. Owned(d) /\ target[d] \in StreamIds
    BY <2>1 DEF NoLeak, Links, Placed
  <2>4. CASE d \in Players
    BY <2>1, <2>2, <2>3, <2>4, StreamAssumption DEF Owned
  <2>5. CASE d \in Publishers /\ target[d] # s
    BY <2>1, <2>2, <2>3, <2>5, StreamAssumption DEF Owned, TypeOK, Conns
  <2>6. CASE d \in Publishers /\ target[d] = s
    <3>1. incoming[s] = Nil
      BY <2>1 DEF Links, WaitingReaders
    <3>2. readerChan[s] = d
      BY <2>1, <2>3, <2>6, <3>1, StreamAssumption DEF Owned, Conns
    <3> QED
      BY <2>1, <2>6, <3>2 DEF Owned, TypeOK
  <2> QED
    BY <2>4, <2>5, <2>6 DEF Conns
<1>18. ASSUME NEW s \in StreamIds, Install(s)  PROVE  Owned(d)'
  <2>1. CASE phase[d] = "sent" /\ open[d]
    <3>1. Owned(d) /\ target[d] \in StreamIds
      BY <2>1 DEF NoLeak, Links, Placed
    <3>2. CASE target[d] # s
      BY <1>18, <3>1, <3>2, StreamAssumption DEF Install, connVars, TypeOK, Conns, Owned
    <3>3. CASE target[d] = s /\ d \in Publishers
      BY <1>18, <3>1, <3>3, StreamAssumption DEF Install, connVars, TypeOK, Conns, Owned, Links,
         WaitingReaders
    <3>4. CASE target[d] = s /\ d \in Players
      BY <1>18, <3>1, <3>4, StreamAssumption DEF Install, connVars, TypeOK, Conns, Owned
    <3> QED
      BY <3>2, <3>3, <3>4 DEF Conns
  <2> QED
    BY <1>18, <2>1 DEF Install, connVars, TypeOK, Conns
<1>19. ASSUME NEW s \in StreamIds, TickExit(s)  PROVE  Owned(d)'
  <2>1. CASE phase[d] = "sent" /\ open[d]
    <3>1. Owned(d) /\ target[d] \in StreamIds
      BY <2>1 DEF NoLeak, Links, Placed
    <3>2. CASE target[d] # s
      BY <1>19, <3>1, <3>2, StreamAssumption DEF TickExit, connVars, goVars, TypeOK, Conns,
         Owned
    <3>3. CASE target[d] = s /\ d \in Publishers
      BY <1>19, <3>1, <3>3, StreamAssumption DEF TickExit, connVars, goVars, TypeOK, Conns,
         Owned, Links, WaitingReaders
    <3>4. CASE target[d] = s /\ d \in Players
      BY <1>19, <3>1, <3>4, StreamAssumption DEF TickExit, connVars, goVars, TypeOK, Conns,
         Owned
    <3> QED
      BY <3>2, <3>3, <3>4 DEF Conns
  <2> QED
    BY <1>19, <2>1 DEF TickExit, connVars, goVars, TypeOK, Conns
<1>20. ASSUME NEW s \in StreamIds, TickSweep(s)  PROVE  Owned(d)'
  BY <1>20, StreamAssumption DEF TickSweep, Closed, ClosedWriters, goVars, TypeOK, Links,
     WaitingReaders, Placed, Conns, NoLeak, Owned, LoopStates
<1>21. ASSUME NEW s \in StreamIds, Remove(s)  PROVE  Owned(d)'
  <2>1. CASE phase[d] = "sent" /\ open[d]
    <3>1. Owned(d) /\ target[d] \in StreamIds
      BY <2>1 DEF NoLeak, Links, Placed
    <3>2. CASE target[d] # s
      BY <1>21, <3>1, <3>2, StreamAssumption DEF Remove, connVars, goVars, TypeOK, Conns, Owned
    <3>3. CASE target[d] = s /\ d \in Publishers
      BY <1>21, <3>1, <3>3, StreamAssumption DEF Remove, connVars, goVars, TypeOK, Conns, Owned,
         Links, WaitingReaders
    <3>4. CASE target[d] = s /\ d \in Players
      BY <1>21, <3>1, <3>4, StreamAssumption DEF Remove, connVars, goVars, TypeOK, Conns, Owned
    <3> QED
      BY <3>2, <3>3, <3>4 DEF Conns
  <2> QED
    BY <1>21, <2>1 DEF Remove, connVars, goVars, TypeOK, Conns
<1>22. ASSUME NEW s \in StreamIds, CloseReader(s)  PROVE  Owned(d)'
  <2>1. CASE phase[d] = "sent" /\ open[d]
    <3>1. Owned(d) /\ target[d] \in StreamIds
      BY <2>1 DEF NoLeak, Links, Placed
    <3>2. CASE target[d] # s
      BY <1>22, <3>1, <3>2, StreamAssumption DEF CloseReader, Closed, goVars, TypeOK, Conns,
         Owned
    <3>3. CASE target[d] = s /\ d \in Publishers
      BY <1>22, <3>1, <3>3, StreamAssumption DEF CloseReader, Closed, goVars, TypeOK, Conns,
         Owned, Links, WaitingReaders
    <3>4. CASE target[d] = s /\ d \in Players
      BY <1>22, <3>1, <3>4, StreamAssumption DEF CloseReader, Closed, goVars, TypeOK, Conns,
         Owned
    <3> QED
      BY <3>2, <3>3, <3>4 DEF Conns
  <2> QED
    BY <1>22, <2>1 DEF CloseReader, Closed, goVars, TypeOK, Conns
<1>23. ASSUME NEW s \in StreamIds, DrainWriter(s)  PROVE  Owned(d)'
  <2>1. CASE phase[d] = "sent" /\ open[d]
    <3>1. Owned(d) /\ target[d] \in StreamIds
      BY <2>1 DEF NoLeak, Links, Placed
    <3>2. CASE target[d] # s
      BY <1>23, <3>1, <3>2, StreamAssumption DEF DrainWriter, Closed, ClosedWriters, goVars,
         TypeOK, Conns, Owned
    <3>3. CASE target[d] = s /\ d \in Publishers
      BY <1>23, <3>1, <3>3, StreamAssumption DEF DrainWriter, Closed, ClosedWriters, goVars,
         TypeOK, Conns, Owned, Links, WaitingReaders
    <3>4. CASE target[d] = s /\ d \in Players
      BY <1>23, <3>1, <3>4, StreamAssumption DEF DrainWriter, Closed, ClosedWriters, goVars,
         TypeOK, Conns, Owned
    <3> QED
      BY <3>2, <3>3, <3>4 DEF Conns
  <2> QED
    BY <1>23, <2>1 DEF DrainWriter, Closed, ClosedWriters, goVars, TypeOK, Conns
<1>24. ASSUME NEW s \in StreamIds, DrainReader(s)  PROVE  Owned(d)'
  <2>1. CASE phase[d] = "sent" /\ open[d]
    <3>1. Owned(d) /\ target[d] \in StreamIds
      BY <2>1 DEF NoLeak, Links, Placed
    <3>2. CASE target[d] # s
      BY <1>24, <3>1, <3>2, StreamAssumption DEF DrainReader, Closed, goVars, TypeOK, Conns,
         Owned
    <3>3. CASE target[d] = s /\ d \in Publishers
      BY <1>24, <3>1, <3>3, StreamAssumption DEF DrainReader, Closed, goVars, TypeOK, Conns,
         Owned, Links, WaitingReaders
    <3>4. CASE target[d] = s /\ d \in Players
      BY <1>24, <3>1, <3>4, StreamAssumption DEF DrainReader, Closed, goVars, TypeOK, Conns,
         Owned
    <3> QED
      BY <3>2, <3>3, <3>4 DEF Conns
  <2> QED
    BY <1>24, <2>1 DEF DrainReader, Closed, goVars, TypeOK, Conns
<1>25. ASSUME NEW s \in StreamIds, DrainDone(s)  PROVE  Owned(d)'
  <2>1. CASE phase[d] = "sent" /\ open[d]
    <3>1. Owned(d) /\ target[d] \in StreamIds
      BY <2>1 DEF NoLeak, Links, Placed
    <3>2. CASE target[d] # s
      BY <1>25, <3>1, <3>2, StreamAssumption DEF DrainDone, Closed, ClosedWriters, goVars,
         TypeOK, Conns, Owned
    <3>3. CASE target[d] = s /\ d \in Publishers
      BY <1>25, <3>1, <3>3, StreamAssumption DEF DrainDone, Closed, ClosedWriters, goVars,
         TypeOK, Conns, Owned, Links, WaitingReaders
    <3>4. CASE target[d] = s /\ d \in Players
      BY <1>25, <3>1, <3>4, StreamAssumption DEF DrainDone, Closed, ClosedWriters, goVars,
         TypeOK, Conns, Owned
    <3> QED
      BY <3>2, <3>3, <3>4 DEF Conns
  <2> QED
    BY <1>25, <2>1 DEF DrainDone, Closed, ClosedWriters, goVars, TypeOK, Conns
<1>26. ASSUME NEW c \in Conns, LinkFails(c)  PROVE  Owned(d)'
  BY <1>26, StreamAssumption DEF LinkFails, streamVars, goVars, TypeOK, Links, WaitingReaders,
     Placed, Conns, NoLeak, Owned, LoopStates
<1>27. ASSUME NEW c \in Conns, Expire(c)  PROVE  Owned(d)'
  BY <1>27, StreamAssumption DEF Expire, streamVars, goVars, TypeOK, Links, WaitingReaders,
     Placed, Conns, NoLeak, Owned, LoopStates
<1>28. CASE UNCHANGED vars
  BY <1>28 DEF vars, streamVars, connVars, goVars, TypeOK, Links, WaitingReaders, Placed, Conns,
     NoLeak, Owned, LoopStates
<1> QED
  BY <1>1, <1>2, <1>3, <1>4, <1>5, <1>6, <1>7, <1>8, <1>9, <1>10, <1>11, <1>12, <1>13,
     <1>14, <1>15, <1>16, <1>17, <1>18, <1>19, <1>20, <1>21, <1>22, <1>23, <1>24, <1>25,
     <1>26, <1>27, <1>28 DEF Next, LoopStep, ReadStep, Tick

-----------------------------------------------------------------------------
(* The theorems *)

\* Everything holds before the first connection.
LEMMA InitOK ==
  Init => TypeOK /\ Links /\ MapConsistent /\ NoLeak /\ ReaderAlone /\ TakeoverClean
<1> SUFFICES ASSUME Init
             PROVE  TypeOK /\ Links /\ MapConsistent /\ NoLeak /\ ReaderAlone /\ TakeoverClean
  OBVIOUS
<1>1. TypeOK
  <2>1. pktChan \in [StreamIds -> Seq(Publishers)] /\ \A s \in StreamIds : Len(pktChan[s]) <=
     PktCap
    BY StreamAssumption DEF Init
  <2>2. unread \in [Publishers -> 0..MaxUnread]
    BY StreamAssumption DEF Init
  <2> QED
    BY <2>1, <2>2 DEF Init, TypeOK, LoopStates, GoStates
<1>2. Links
  BY DEF Init, Links, WaitingReaders, Placed, Goroutines, Conns
<1>3. MapConsistent
  BY DEF Init, MapConsistent, Registered
<1>4. NoLeak
  BY DEF Init, NoLeak
<1>5. ReaderAlone
  BY DEF Init, ReaderAlone
<1>6. TakeoverClean
  BY DEF Init, TakeoverClean
<1> QED
  BY <1>1, <1>2, <1>3, <1>4, <1>5, <1>6

\* The variables keep their types, with the links between streams, connections
\* and goroutines that the proof needs.
THEOREM LinksCorrect == Spec => [](TypeOK /\ Links)
<1>1. Init => TypeOK /\ Links
  BY InitOK
<1>2. TypeOK /\ Links /\ [Next]_vars => (TypeOK /\ Links)'
  BY TypeStep, WaitingStep, PlacedStep, GoroutinesStep DEF Links
<1> QED
  BY <1>1, <1>2, PTL DEF Spec

\* Every variable keeps its type, and pktChan never holds more than its
\* capacity: the push of startRead drops instead (RtmpStream.startRead).
THEOREM TypeCorrect == Spec => []TypeOK
  BY LinksCorrect, PTL

\* The registry and the running loops agree at every moment, so remove, which
\* deletes by key alone, deletes its own stream (StreamHandler.getOrCreate and
\* remove, called from streamLoop).
THEOREM MapCorrect == Spec => []MapConsistent
<1>1. Init => MapConsistent
  BY InitOK
<1>2. TypeOK /\ MapConsistent /\ [Next]_vars => MapConsistent'
  BY MapStep
<1> QED
  BY <1>1, <1>2, TypeCorrect, PTL DEF Spec

\* A connection given to a stream is closed or still in the stream's hands
\* (the select cases of streamLoop and RtmpStream.close).
THEOREM LeakFree == Spec => []NoLeak
<1>1. Init => NoLeak
  BY InitOK
<1>2. TypeOK /\ Links /\ NoLeak /\ [Next]_vars => NoLeak'
  BY LeakStep
<1> QED
  BY <1>1, <1>2, LinksCorrect, PTL DEF Spec

\* After a takeover that waited for the old goroutine, pktChan carries the new
\* publisher's packets only (streamLoop's case readerChan, startRead).
THEOREM TakeoverCorrect == Spec => []TakeoverClean
<1>1. Init => ReaderAlone /\ TakeoverClean
  BY InitOK
<1>2. TypeOK /\ Links /\ ReaderAlone /\ [Next]_vars => ReaderAlone'
  BY AloneStep
<1>3. TypeOK /\ Links /\ ReaderAlone /\ TakeoverClean /\ [Next]_vars => TakeoverClean'
  BY CleanStep
<1> QED
  BY <1>1, <1>2, <1>3, LinksCorrect, PTL DEF Spec
=============================================================================
