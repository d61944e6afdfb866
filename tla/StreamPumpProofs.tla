-------------------------- MODULE StreamPumpProofs --------------------------
(***************************************************************************)
(* Theorems about StreamPump for any number of versions: the server keeps  *)
(* the promise of a streamed answer, and numbers and versions grow         *)
(* together on the connection.                                             *)
(***************************************************************************)
EXTENDS StreamPump, TLAPS

(* What ties the flag, the pending version and the pump together: the flag *)
(* is up exactly while a pump exists, and without one nothing is pending.  *)
Flow ==
  /\ pending # 0 => pending = made /\ taken < made
  /\ pending = 0 => taken = made
  /\ in_flight <=> pump # "off"
  /\ pump = "off" => pending = 0
  /\ worker = "checked" => made < Chunks /\ stage = "model"
  /\ stage # "model" => worker = "over"
  /\ stage = "completed" => pump = "off"

(* The packet inside sio.emit is the newest, and newer than the wire.      *)
Ahead ==
  /\ pump = "emit" => held = [seq |-> stream_seq, version |-> taken]
  /\ \A i \in DOMAIN wire :
       /\ wire[i].seq <= stream_seq
       /\ wire[i].version <= taken
       /\ pump = "emit" => wire[i].seq < stream_seq /\ wire[i].version < taken

IInv == TypeOK /\ Flow

-----------------------------------------------------------------------------
(* Packets are records of their fields.                                    *)
LEMMA PacketFields ==
  /\ NoPacket \in Packet
  /\ \A n \in Nat, v \in 0..Chunks : [seq |-> n, version |-> v] \in Packet
  /\ \A p \in Packet : p.seq \in Nat /\ p.version \in 0..Chunks
  BY StreamAssumption DEF NoPacket, Packet

LEMMA InitIInv == Init => IInv
<1> SUFFICES ASSUME Init PROVE IInv
  OBVIOUS
<1>1. TypeOK
  <2>1. << >> \in Seq(Packet)
    OBVIOUS
  <2>2. made \in 0..Chunks /\ pending \in 0..Chunks /\ taken \in 0..Chunks
          /\ thought \in 0..Chunks /\ view \in 0..Chunks /\ role \in Seq(Role) /\ Len(role) = made
    BY StreamAssumption DEF Init
  <2> QED
    BY <2>1, <2>2, PacketFields DEF Init, TypeOK
<1>2. Flow
  BY StreamAssumption DEF Init, Flow
<1> QED
  BY <1>1, <1>2 DEF IInv

(* Typing holds over every step.                                           *)
LEMMA StepType == IInv /\ [Next]_vars => TypeOK'
<1> SUFFICES ASSUME IInv, [Next]_vars PROVE TypeOK'
  OBVIOUS
<1> USE StreamAssumption DEF IInv, TypeOK, Flow
<1>1. CASE CheckStop
  BY <1>1 DEF CheckStop, client
<1>2. CASE HandOver
  <2>1. role' \in Seq(Role) /\ Len(role') = made'
    BY <1>2 DEF HandOver
  <2> QED
    BY <1>2, <2>1 DEF HandOver, client
<1>3. CASE AnswerEnds
  BY <1>3 DEF AnswerEnds, client
<1>4. CASE Stop
  BY <1>4 DEF Stop, client
<1>5. CASE PumpLooks
  <2>1. CASE pending = 0
    BY <1>5, <2>1 DEF PumpLooks, client
  <2>2. CASE pending # 0
    <3>1. [seq |-> stream_seq + 1, version |-> pending] \in Packet
      BY PacketFields
    <3> QED
      BY <1>5, <2>2, <3>1 DEF PumpLooks, Take, client
  <2> QED
    BY <2>1, <2>2
<1>6. CASE PumpEmitted
  <2>1. wire' \in Seq(Packet) /\ held' \in Packet
    BY <1>6, PacketFields DEF PumpEmitted
  <2> QED
    BY <1>6, <2>1 DEF PumpEmitted, client
<1>7. CASE Answer
  BY <1>7 DEF Answer, client
<1>8. CASE FlushAndComplete
  BY <1>8 DEF FlushAndComplete, client
<1>9. ASSUME NEW i \in DOMAIN wire \ arrived, Receive(i) PROVE TypeOK'
  <2>1. wire[i].seq \in Nat /\ wire[i].version \in 0..Chunks /\ i \in Nat
    BY PacketFields
  <2> QED
    BY <1>9, <2>1 DEF Receive, ReceiveThinking, ReceiveChunk, server
<1>10. CASE UNCHANGED vars
  BY <1>10 DEF vars, server, client
<1> QED
  BY <1>1, <1>2, <1>3, <1>4, <1>5, <1>6, <1>7, <1>8, <1>9, <1>10
     DEF Next, Worker, Pump, Handler, Network

(* So does the flow.                                                       *)
LEMMA StepFlow == IInv /\ [Next]_vars => Flow'
<1> SUFFICES ASSUME IInv, [Next]_vars PROVE Flow'
  OBVIOUS
<1> USE StreamAssumption DEF IInv, TypeOK, Flow
<1>1. CASE UNCHANGED <<made, worker, pending, in_flight, pump, taken, stage>>
  BY <1>1
<1>2. CASE CheckStop
  BY <1>2 DEF CheckStop
<1>3. CASE HandOver
  BY <1>3 DEF HandOver
<1>4. CASE AnswerEnds
  BY <1>4 DEF AnswerEnds
<1>5. CASE PumpLooks
  BY <1>5 DEF PumpLooks, Take
<1>6. CASE PumpEmitted
  BY <1>6 DEF PumpEmitted
<1>7. CASE Answer
  BY <1>7 DEF Answer
<1>8. CASE FlushAndComplete
  BY <1>8 DEF FlushAndComplete
<1> QED
  BY <1>1, <1>2, <1>3, <1>4, <1>5, <1>6, <1>7, <1>8
     DEF Next, Worker, Pump, Handler, Network, Stop, Receive, ReceiveThinking, ReceiveChunk,
         vars, server, client

LEMMA StepIInv == IInv /\ [Next]_vars => IInv'
  BY StepType, StepFlow DEF IInv

(* Every reachable state is well typed and its flow is in order.           *)
THEOREM StreamFlow == Spec => []IInv
<1>1. Init => IInv
  BY InitIInv
<1>2. IInv /\ [Next]_vars => IInv'
  BY StepIInv
<1> QED
  BY <1>1, <1>2, PTL DEF Spec

(* Type correctness, for any number of versions.                           *)
THEOREM StreamTypeCorrect == Spec => []TypeOK
<1>1. IInv => TypeOK
  BY DEF IInv
<1> QED
  BY <1>1, StreamFlow, PTL

-----------------------------------------------------------------------------
(* The packet being emitted stays ahead of everything on the wire.         *)
LEMMA StepAhead == IInv /\ Ahead /\ [Next]_vars => Ahead'
<1> SUFFICES ASSUME IInv, Ahead, [Next]_vars PROVE Ahead'
  OBVIOUS
<1> USE StreamAssumption DEF IInv, TypeOK, Flow, Ahead
<1>1. CASE UNCHANGED <<pump, held, stream_seq, taken, wire>>
  BY <1>1
<1>2. CASE HandOver
  BY <1>2 DEF HandOver
<1>3. CASE PumpLooks
  <2>1. \A i \in DOMAIN wire : wire[i].seq \in Nat /\ wire[i].version \in 0..Chunks
    BY PacketFields
  <2>2. CASE pending = 0
    BY <1>3, <2>2 DEF PumpLooks
  <2>3. CASE pending # 0
    BY <1>3, <2>1, <2>3 DEF PumpLooks, Take
  <2> QED
    BY <2>2, <2>3
<1>4. CASE PumpEmitted
  <2>1. CASE wire' = wire
    BY <1>4, <2>1 DEF PumpEmitted
  <2>2. CASE wire' = Append(wire, held)
    <3>1. held \in Packet /\ DOMAIN wire' = 1..(Len(wire) + 1)
      BY <2>2, <1>4 DEF Packet
    <3>2. \A i \in DOMAIN wire' : wire'[i] = IF i = Len(wire) + 1 THEN held ELSE wire[i]
      BY <2>2, <3>1
    <3> QED
      BY <1>4, <2>2, <3>1, <3>2 DEF PumpEmitted
  <2> QED
    BY <1>4, <2>1, <2>2 DEF PumpEmitted
<1>5. CASE FlushAndComplete
  BY <1>5 DEF FlushAndComplete
<1> QED
  BY <1>1, <1>2, <1>3, <1>4, <1>5
     DEF Next, Worker, Pump, Handler, Network, CheckStop, AnswerEnds, Stop, Answer,
         Receive, ReceiveThinking, ReceiveChunk, vars, server, client

(* Every step appends at most the packet that is ahead of the wire.        *)
LEMMA StepOrder == IInv /\ Ahead /\ WireInOrder /\ [Next]_vars => WireInOrder'
<1> SUFFICES ASSUME IInv, Ahead, WireInOrder, [Next]_vars PROVE WireInOrder'
  OBVIOUS
<1>1. CASE wire' = wire
  BY <1>1 DEF WireInOrder
<1>2. CASE PumpEmitted /\ wire' = Append(wire, held)
  <2>1. wire \in Seq(Packet) /\ held \in Packet /\ DOMAIN wire' = 1..(Len(wire) + 1)
    BY <1>2 DEF IInv, TypeOK
  <2>2. \A i \in DOMAIN wire' : wire'[i] = IF i = Len(wire) + 1 THEN held ELSE wire[i]
    BY <1>2, <2>1
  <2>3. \A i \in DOMAIN wire : wire[i].seq < held.seq /\ wire[i].version < held.version
    BY <1>2 DEF PumpEmitted, Ahead
  <2> QED
    BY <2>1, <2>2, <2>3 DEF WireInOrder
<1>3. CASE FlushAndComplete
  BY <1>3 DEF FlushAndComplete, IInv, Flow, WireInOrder
<1> QED
  BY <1>1, <1>2, <1>3
     DEF Next, Worker, Pump, Handler, Network, CheckStop, HandOver, AnswerEnds, Stop,
         PumpLooks, PumpEmitted, Answer, Receive, ReceiveThinking, ReceiveChunk,
         vars, server, client

(* On the connection the packet numbers and the versions of the text grow  *)
(* together, over any interleaving of thread, pump, stop and failure.      *)
THEOREM StreamInOrder == Spec => []WireInOrder
<1>1. Init => IInv /\ Ahead /\ WireInOrder
  <2>1. Init => Ahead /\ WireInOrder
    BY DEF Init, Ahead, WireInOrder
  <2> QED
    BY <2>1, InitIInv
<1>2. IInv /\ Ahead /\ WireInOrder /\ [Next]_vars => (IInv /\ Ahead /\ WireInOrder)'
  BY StepIInv, StepAhead, StepOrder
<1> QED
  BY <1>1, <1>2, PTL DEF Spec

-----------------------------------------------------------------------------
(* A step of the stream is a step of the promise or none of its business.  *)
LEMMA StepPromise ==
  IInv /\ [Next]_vars
    => [Promise!Produce \/ Promise!Give \/ Promise!Complete]_(Promise!channel)
<1> SUFFICES ASSUME IInv, [Next]_vars
             PROVE [Promise!Produce \/ Promise!Give \/ Promise!Complete]_(Promise!channel)
  OBVIOUS
<1> USE StreamAssumption DEF IInv, TypeOK, Flow
<1>1. CASE UNCHANGED <<made, taken, stage>>
  BY <1>1 DEF Promise!channel
<1>2. CASE HandOver
  BY <1>2 DEF HandOver, Promise!Produce
<1>3. CASE PumpLooks
  BY <1>3 DEF PumpLooks, Take, Promise!Give, Promise!channel
<1>4. CASE Answer
  BY <1>4 DEF Answer, Promise!channel
<1>5. CASE FlushAndComplete
  BY <1>5 DEF FlushAndComplete, Promise!Complete
<1> QED
  BY <1>1, <1>2, <1>3, <1>4, <1>5
     DEF Next, Worker, Pump, Handler, Network, CheckStop, AnswerEnds, Stop, PumpEmitted,
         Receive, ReceiveThinking, ReceiveChunk, vars, server, client

(* The throttled stream implements LatestWins: versions are handed over in *)
(* order, none twice, and chat_complete only follows the newest one.       *)
THEOREM StreamKeepsPromise == Spec => KeepsStreamPromise
<1>1. Init => Promise!Init
  BY DEF Init, Promise!Init
<1>2. IInv /\ [Next]_vars
        => [Promise!Produce \/ Promise!Give \/ Promise!Complete]_(Promise!channel)
  BY StepPromise
<1> QED
  BY <1>1, <1>2, StreamFlow, PTL DEF Spec, KeepsStreamPromise, Promise!Spec

-----------------------------------------------------------------------------
(* After the stop there are two versions to come at most: the pending one  *)
(* and the one whose callback is past the check.  A version that is taken  *)
(* up uses up its place, and a callback that asks now is told no.          *)
Cut ==
  /\ ~stopped => afterStop = 0
  /\ stopped => afterStop + (IF pending = 0 THEN 0 ELSE 1)
                           + (IF worker = "checked" THEN 1 ELSE 0) <= 2

LEMMA StepCut == IInv /\ Cut /\ [Next]_vars => Cut'
<1> SUFFICES ASSUME IInv, Cut, [Next]_vars PROVE Cut'
  OBVIOUS
<1> USE StreamAssumption DEF IInv, TypeOK, Cut
<1>1. CASE UNCHANGED <<pending, worker, stopped, afterStop>>
  BY <1>1
<1>2. CASE CheckStop
  BY <1>2 DEF CheckStop
<1>3. CASE HandOver
  BY <1>3 DEF HandOver
<1>4. CASE AnswerEnds
  BY <1>4 DEF AnswerEnds
<1>5. CASE Stop
  BY <1>5 DEF Stop
<1>6. CASE PumpLooks
  BY <1>6 DEF PumpLooks, Take
<1>7. CASE FlushAndComplete
  BY <1>7 DEF FlushAndComplete, Take
<1> QED
  BY <1>1, <1>2, <1>3, <1>4, <1>5, <1>6, <1>7
     DEF Next, Worker, Pump, Handler, Network, PumpEmitted, Answer, Receive, ReceiveThinking,
         ReceiveChunk, vars, server, client

(* Stop cuts the stream off: two more versions at most are taken up,       *)
(* however the thread, the pump and the flush follow each other.           *)
THEOREM StreamStopCuts == Spec => []StopCutsStream
<1>1. Init => IInv /\ Cut
  BY InitIInv DEF Init, Cut
<1>2. IInv /\ Cut /\ [Next]_vars => (IInv /\ Cut)'
  BY StepIInv, StepCut
<1>3. IInv /\ Cut => StopCutsStream
  BY DEF IInv, TypeOK, Cut, StopCutsStream
<1> QED
  BY <1>1, <1>2, <1>3, PTL DEF Spec

-----------------------------------------------------------------------------
(* Every packet has a number and a version that was handed over.           *)
Numbered ==
  /\ pump = "emit" => held.seq > 0 /\ held.version \in 1..made
  /\ \A i \in DOMAIN wire : wire[i].seq > 0 /\ wire[i].version \in 1..made

(* The client has seen the answer packet whose number it remembers, shows  *)
(* its version, and has seen no such packet with a higher number.          *)
Shown ==
  /\ arrived \subseteq DOMAIN wire
  /\ \A i \in arrived : Says(i) = "content" => wire[i].seq <= lastSeq
  /\ lastSeq # 0 => \E i \in arrived : /\ Says(i) = "content"
                                       /\ wire[i].seq = lastSeq /\ wire[i].version = view

(* What is on the wire stays there at its place.                           *)
LEMMA WireGrows ==
  IInv /\ [Next]_vars
    => \/ wire' = wire
       \/ PumpEmitted /\ wire' = Append(wire, held)
BY DEF Next, Worker, Pump, Handler, Network, CheckStop, HandOver, AnswerEnds, Stop, PumpLooks,
       PumpEmitted, Answer, FlushAndComplete, Receive, ReceiveThinking, ReceiveChunk, IInv, Flow,
       vars, server, client

LEMMA MadeGrows == IInv /\ [Next]_vars => made' \in Nat /\ made <= made'
<1> SUFFICES ASSUME IInv, [Next]_vars PROVE made' \in Nat /\ made <= made'
  OBVIOUS
<1>1. made \in Nat
  BY StreamAssumption DEF IInv, TypeOK
<1>2. made' = made \/ made' = made + 1
  BY DEF Next, Worker, Pump, Handler, Network, CheckStop, HandOver, AnswerEnds, Stop, PumpLooks,
         PumpEmitted, Answer, FlushAndComplete, Receive, ReceiveThinking, ReceiveChunk, vars, server
<1> QED
  BY <1>1, <1>2

LEMMA StepNumbered == IInv /\ Numbered /\ [Next]_vars => Numbered'
<1> SUFFICES ASSUME IInv, Numbered, [Next]_vars PROVE Numbered'
  OBVIOUS
<1>0. made \in Nat /\ made' \in Nat /\ made <= made' /\ \A v \in 1..made : v \in 1..made'
  BY MadeGrows, StreamAssumption DEF IInv, TypeOK
<1>1. \A i \in DOMAIN wire' : wire'[i].seq > 0 /\ wire'[i].version \in 1..made'
  <2>1. CASE wire' = wire
    BY <1>0, <2>1 DEF Numbered
  <2>2. CASE PumpEmitted /\ wire' = Append(wire, held)
    <3>1. /\ wire \in Seq(Packet) /\ DOMAIN wire' = 1..(Len(wire) + 1)
          /\ held.seq > 0 /\ held.version \in 1..made
      BY <2>2 DEF IInv, TypeOK, PumpEmitted, Numbered
    <3>2. \A i \in DOMAIN wire' : wire'[i] = IF i = Len(wire) + 1 THEN held ELSE wire[i]
      BY <2>2, <3>1
    <3> QED
      BY <1>0, <3>1, <3>2 DEF Numbered
  <2> QED
    BY <2>1, <2>2, WireGrows
<1>2. pump' = "emit" => held'.seq > 0 /\ held'.version \in 1..made'
  <2>1. CASE PumpLooks
    <3>1. pending # 0 => pending \in 1..made
      BY StreamAssumption DEF IInv, TypeOK, Flow
    <3> QED
      BY <1>0, <2>1, <3>1 DEF PumpLooks, IInv, TypeOK
  <2>2. CASE HandOver
    BY <1>0, <2>2 DEF HandOver, Numbered, IInv, Flow
  <2>3. CASE PumpEmitted
    BY <2>3 DEF PumpEmitted
  <2>4. CASE UNCHANGED <<pump, held>>
    BY <1>0, <2>4 DEF Numbered
  <2> QED
    BY <2>1, <2>2, <2>3, <2>4
       DEF Next, Worker, Pump, Handler, Network, CheckStop, AnswerEnds, Stop, Answer,
           FlushAndComplete, Receive, ReceiveThinking, ReceiveChunk, vars, server, client
<1> QED
  BY <1>1, <1>2 DEF Numbered

(* A packet on the wire stays there, and says what it said.                *)
LEMMA PacketStays ==
  IInv /\ Numbered /\ [Next]_vars
    => \A i \in DOMAIN wire : i \in DOMAIN wire' /\ wire'[i] = wire[i] /\ Says(i)' = Says(i)
<1> SUFFICES ASSUME IInv, Numbered, [Next]_vars, NEW i \in DOMAIN wire
             PROVE  i \in DOMAIN wire' /\ wire'[i] = wire[i] /\ Says(i)' = Says(i)
  OBVIOUS
<1>1. i \in DOMAIN wire' /\ wire'[i] = wire[i]
  BY WireGrows DEF IInv, TypeOK
<1>2. wire[i].version \in 1..Len(role) /\ role \in Seq(Role)
  BY DEF IInv, TypeOK, Numbered
<1>3. role' = role \/ \E r \in Role : role' = Append(role, r)
  BY DEF Next, Worker, Pump, Handler, Network, CheckStop, HandOver, AnswerEnds, Stop, PumpLooks,
         PumpEmitted, Answer, FlushAndComplete, Receive, ReceiveThinking, ReceiveChunk, vars, server
<1>4. role'[wire[i].version] = role[wire[i].version]
  BY <1>2, <1>3
<1> QED
  BY <1>1, <1>4 DEF Says

LEMMA StepShown == IInv /\ Numbered /\ Shown /\ [Next]_vars => Shown'
<1> SUFFICES ASSUME IInv, Numbered, Shown, [Next]_vars PROVE Shown'
  OBVIOUS
<1>1. wire \in Seq(Packet) /\ lastSeq \in Nat
  BY DEF IInv, TypeOK
<1>2. /\ \A j \in DOMAIN wire : j \in DOMAIN wire' /\ wire'[j] = wire[j] /\ Says(j)' = Says(j)
      /\ \A j \in DOMAIN wire : wire[j].seq \in Nat
  BY <1>1, PacketStays, PacketFields
<1>3. ASSUME NEW i \in DOMAIN wire, ReceiveChunk(i) PROVE Shown'
  <2>1. arrived' = arrived \cup {i} /\ Says(i) = "content"
    BY <1>3 DEF ReceiveChunk
  <2>2. CASE wire[i].seq <= lastSeq
    <3>1. lastSeq' = lastSeq /\ view' = view
      BY <1>3, <2>2 DEF ReceiveChunk
    <3> QED
      BY <1>2, <2>1, <2>2, <3>1 DEF Shown
  <2>3. CASE ~(wire[i].seq <= lastSeq)
    <3>1. lastSeq' = wire[i].seq /\ view' = wire[i].version
      BY <1>3, <2>3 DEF ReceiveChunk
    <3> QED
      BY <1>1, <1>2, <2>1, <2>3, <3>1 DEF Shown
  <2> QED
    BY <2>2, <2>3
<1>4. ASSUME NEW i \in DOMAIN wire, ReceiveThinking(i) PROVE Shown'
  <2>1. /\ arrived' = arrived \cup {i} /\ Says(i) # "content"
        /\ lastSeq' = lastSeq /\ view' = view
    BY <1>4 DEF ReceiveThinking
  <2> QED
    BY <1>2, <2>1 DEF Shown
<1>5. CASE UNCHANGED client
  <2>1. arrived' = arrived /\ lastSeq' = lastSeq /\ view' = view
    BY <1>5 DEF client
  <2> QED
    BY <1>2, <2>1 DEF Shown
<1> QED
  BY <1>3, <1>4, <1>5
     DEF Next, Worker, Pump, Handler, Network, Receive, CheckStop, HandOver, AnswerEnds, Stop,
         PumpLooks, PumpEmitted, Answer, FlushAndComplete, vars

(* Once every packet has arrived, in whatever order, the client shows the  *)
(* newest version of the answer that got through; reasoning packets, which *)
(* nobody filters, do not disturb that.                                    *)
THEOREM StreamNewestShown == Spec => []NewestShown
<1>1. Init => IInv /\ Ahead /\ WireInOrder /\ Numbered /\ Shown
  <2>1. Init => Ahead /\ WireInOrder /\ Numbered /\ Shown
    BY DEF Init, Ahead, WireInOrder, Numbered, Shown
  <2> QED
    BY <2>1, InitIInv
<1>2. IInv /\ Ahead /\ WireInOrder /\ Numbered /\ Shown /\ [Next]_vars
        => (IInv /\ Ahead /\ WireInOrder /\ Numbered /\ Shown)'
  BY StepIInv, StepAhead, StepOrder, StepNumbered, StepShown
<1>3. IInv /\ WireInOrder /\ Numbered /\ Shown => NewestShown
  <2> SUFFICES ASSUME IInv, WireInOrder, Numbered, Shown, arrived = DOMAIN wire,
                      NEW n \in DOMAIN wire, Says(n) = "content",
                      \A j \in DOMAIN wire : Says(j) = "content" => j <= n
               PROVE  view = wire[n].version
    BY DEF NewestShown
  <2>1. wire \in Seq(Packet) /\ lastSeq \in Nat /\ DOMAIN wire = 1..Len(wire)
    BY DEF IInv, TypeOK
  <2>2. \A i \in DOMAIN wire : wire[i].seq \in Nat
    BY <2>1, PacketFields
  <2>3. wire[n].seq > 0 /\ wire[n].seq <= lastSeq
    BY <2>1 DEF Numbered, Shown
  <2>4. PICK i \in DOMAIN wire : /\ Says(i) = "content"
                                /\ wire[i].seq = lastSeq /\ wire[i].version = view
    BY <2>1, <2>2, <2>3 DEF Shown
  <2>5. ~(i < n)
    BY <2>1, <2>2, <2>3, <2>4 DEF WireInOrder
  <2>6. i = n
    BY <2>1, <2>4, <2>5
  <2> QED
    BY <2>4, <2>6
<1> QED
  BY <1>1, <1>2, <1>3, PTL DEF Spec
=============================================================================
