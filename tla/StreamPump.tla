----------------------------- MODULE StreamPump -----------------------------
(***************************************************************************)
(* The throttled stream of one answer (_make_throttled_ui_stream_cb in     *)
(* backend/realtime/handlers.py): a worker thread hands over growing       *)
(* versions of the text, a coroutine on the event loop emits the newest    *)
(* one, the handler waits for it before it says chat_complete, and the     *)
(* client drops late packets (SocketContext.tsx).  `state` is guarded by a *)
(* thread lock; each critical section is one step.  A version stands for   *)
(* its (chunk, accumulated text) and is named by its number; its role says *)
(* whether it is a text of the answer or of the model's reasoning.         *)
(***************************************************************************)
EXTENDS Naturals, Sequences

CONSTANT Chunks     \* bound of the versions the model produces

ASSUME StreamAssumption == Chunks \in Nat

Role == {"content", "reasoning"}

VARIABLES made,         \* number of the version handed over last
          role,         \* role[v]: stream_role of version v
          worker,       \* the thread: between calls, past the stop check, gone
          pending,      \* state["pending"], 0 for None
          in_flight,    \* state["in_flight"]
          stream_seq,   \* state["stream_seq"]
          pump,         \* _pump: not there, about to look, inside sio.emit
          held,         \* the packet being emitted, as [seq, version]
          taken,        \* the last version taken out of pending
          wire,         \* packets that reached the connection, in order
          stopped,      \* _generation_stopped(sid)
          stage,        \* the handler
          afterStop,    \* history: versions emitted after the stop
          arrived,      \* positions of wire the client has received
          lastSeq,      \* lastStreamSeqRef of the client
          thought,      \* the version of the reasoning it shows, 0 for none
          view          \* the version of the answer it shows, 0 for none

server == <<made, role, worker, pending, in_flight, stream_seq, pump, held, taken,
            wire, stopped, stage, afterStop>>
client == <<arrived, lastSeq, thought, view>>
vars == <<server, client>>

NoPacket == [seq |-> 0, version |-> 0]
Packet == [seq : Nat, version : 0..Chunks]

TypeOK ==
  /\ made \in 0..Chunks
  /\ role \in Seq(Role) /\ Len(role) = made
  /\ worker \in {"idle", "checked", "over"}
  /\ pending \in 0..Chunks
  /\ in_flight \in BOOLEAN
  /\ stream_seq \in Nat
  /\ pump \in {"off", "due", "emit"}
  /\ held \in Packet
  /\ taken \in 0..Chunks
  /\ wire \in Seq(Packet)
  /\ stopped \in BOOLEAN
  /\ stage \in {"model", "flush", "completed", "halted"}
  /\ afterStop \in Nat
  /\ arrived \subseteq Nat
  /\ lastSeq \in Nat
  /\ thought \in 0..Chunks
  /\ view \in 0..Chunks

Init ==
  /\ made = 0
  /\ role = << >>
  /\ worker = "idle"
  /\ pending = 0
  /\ in_flight = FALSE
  /\ stream_seq = 0
  /\ pump = "off"
  /\ held = NoPacket
  /\ taken = 0
  /\ wire = << >>
  /\ stopped = FALSE
  /\ stage = "model"
  /\ afterStop = 0
  /\ arrived = {}
  /\ lastSeq = 0
  /\ thought = 0
  /\ view = 0

-----------------------------------------------------------------------------
(* Mutant: the callback does not ask.                                      *)
CheckNothing ==
  /\ worker = "idle"
  /\ made < Chunks
  /\ worker' = "checked"
  /\ UNCHANGED <<made, role, pending, in_flight, stream_seq, pump, held, taken, wire,
                 stopped, stage, afterStop, client>>

(* The callback looks at the stop outside the lock; told FALSE, the thread *)
(* stops reading the model's stream.                                       *)
CheckStop ==
  /\ worker = "idle"
  /\ made < Chunks
  /\ worker' = IF stopped THEN "over" ELSE "checked"
  /\ UNCHANGED <<made, role, pending, in_flight, stream_seq, pump, held, taken, wire,
                 stopped, stage, afterStop, client>>

(* The newest version replaces the one nobody took yet.                    *)
HandOver ==
  /\ worker = "checked"
  /\ made' = made + 1
  /\ \E r \in Role : role' = Append(role, r)
  /\ pending' = made + 1
  /\ in_flight' = TRUE
  /\ pump' = IF in_flight THEN pump ELSE "due"
  /\ worker' = "idle"
  /\ UNCHANGED <<stream_seq, held, taken, wire, stopped, stage, afterStop, client>>

(* The model is done, or the call failed: ask_agent returns.               *)
AnswerEnds ==
  /\ worker = "idle"
  /\ worker' = "over"
  /\ UNCHANGED <<made, role, pending, in_flight, stream_seq, pump, held, taken, wire,
                 stopped, stage, afterStop, client>>

Stop ==
  /\ ~stopped
  /\ stage = "model"
  /\ stopped' = TRUE
  /\ UNCHANGED <<made, role, worker, pending, in_flight, stream_seq, pump, held, taken,
                 wire, stage, afterStop, client>>

Take(version) ==
  /\ taken' = version
  /\ pending' = 0
  /\ stream_seq' = stream_seq + 1
  /\ afterStop' = IF stopped THEN afterStop + 1 ELSE afterStop

(* Mutant: the pump leaves, its flag stays up.                             *)
PumpKeepsFlag ==
  /\ pump = "due"
  /\ IF pending = 0
       THEN /\ pump' = "off"
            /\ UNCHANGED <<pending, stream_seq, held, taken, afterStop>>
       ELSE /\ pump' = "emit"
            /\ held' = [seq |-> stream_seq + 1, version |-> pending]
            /\ Take(pending)
  /\ UNCHANGED <<made, role, worker, in_flight, wire, stopped, stage, client>>

(* _pump, after the throttling sleep: take the newest version or leave.    *)
PumpLooks ==
  /\ pump = "due"
  /\ in_flight' = (pending # 0)
  /\ IF pending = 0
       THEN /\ pump' = "off"
            /\ UNCHANGED <<pending, stream_seq, held, taken, afterStop>>
       ELSE /\ pump' = "emit"
            /\ held' = [seq |-> stream_seq + 1, version |-> pending]
            /\ Take(pending)
  /\ UNCHANGED <<made, role, worker, wire, stopped, stage, client>>

(* sio.emit returns; what it raises is suppressed.                         *)
PumpEmitted ==
  /\ pump = "emit"
  /\ pump' = "due"
  /\ held' = NoPacket
  /\ wire' \in {wire, Append(wire, held)}
  /\ UNCHANGED <<made, role, worker, pending, in_flight, stream_seq, taken, stopped,
                 stage, afterStop, client>>

(* The executor is back: a stopped answer ends without a flush.            *)
Answer ==
  /\ stage = "model"
  /\ worker = "over"
  /\ stage' = IF stopped THEN "halted" ELSE "flush"
  /\ UNCHANGED <<made, role, worker, pending, in_flight, stream_seq, pump, held, taken,
                 wire, stopped, afterStop, client>>

(* Mutant: the handler sends the tail without waiting for the pump.        *)
FlushAtOnce ==
  /\ stage = "flush"
  /\ stage' = "completed"
  /\ IF pending = 0
       THEN UNCHANGED <<pending, stream_seq, taken, wire, afterStop>>
       ELSE /\ Take(pending)
            /\ wire' = Append(wire, [seq |-> stream_seq + 1, version |-> pending])
  /\ UNCHANGED <<made, role, worker, in_flight, pump, held, stopped, client>>

(* flush_stream_cb and chat_complete.                                      *)
FlushAndComplete ==
  /\ stage = "flush"
  /\ ~in_flight
  /\ stage' = "completed"
  /\ IF pending = 0
       THEN UNCHANGED <<pending, stream_seq, taken, wire, afterStop>>
       ELSE /\ Take(pending)
            /\ wire' = Append(wire, [seq |-> stream_seq + 1, version |-> pending])
  /\ UNCHANGED <<made, role, worker, in_flight, pump, held, stopped, client>>

(* What packet i of the connection carries.                                *)
Says(i) == role[wire[i].version]

(* Packets may overtake each other (comments at handlers.py 135 and        *)
(* SocketContext.tsx 1580).  A chat_thinking packet replaces the reasoning *)
(* as it comes, without a look at its number.                              *)
ReceiveThinking(i) ==
  /\ Says(i) = "reasoning"
  /\ arrived' = arrived \cup {i}
  /\ thought' = wire[i].version
  /\ UNCHANGED <<server, lastSeq, view>>

(* Mutant: the client shows what comes last.                               *)
ReceiveUnfiltered(i) ==
  /\ Says(i) = "content"
  /\ arrived' = arrived \cup {i}
  /\ lastSeq' = wire[i].seq
  /\ view' = wire[i].version
  /\ UNCHANGED <<server, thought>>

(* Of the chat_chunk packets it drops the late ones.                       *)
ReceiveChunk(i) ==
  /\ Says(i) = "content"
  /\ arrived' = arrived \cup {i}
  /\ IF wire[i].seq <= lastSeq
       THEN UNCHANGED <<lastSeq, view>>
       ELSE lastSeq' = wire[i].seq /\ view' = wire[i].version
  /\ UNCHANGED <<server, thought>>

Receive(i) == ReceiveThinking(i) \/ ReceiveChunk(i)

Worker == CheckStop \/ HandOver \/ AnswerEnds
Pump == PumpLooks \/ PumpEmitted
Handler == Answer \/ FlushAndComplete
Network == \E i \in DOMAIN wire \ arrived : Receive(i)

Next == Worker \/ Stop \/ Pump \/ Handler \/ Network

(* The event loop keeps resuming the pump and the handler, and the model's *)
(* stream ends or times out.                                               *)
Fairness == WF_vars(Pump) /\ WF_vars(Handler) /\ WF_vars(Worker)

Spec == Init /\ [][Next]_vars /\ Fairness

-----------------------------------------------------------------------------
(* The server implements the promise of a streamed answer: in order, never *)
(* the same version twice, and chat_complete only after the newest.        *)
Promise == INSTANCE LatestWins WITH newest <- made, given <- taken,
                                    ended <- (stage = "completed")
KeepsStreamPromise == Promise!Spec

(* Numbers and versions grow together on the connection, so the client's   *)
(* test of the number is a test of the version (handlers.py 135-137).      *)
WireInOrder ==
  \A i, j \in DOMAIN wire : i < j => /\ wire[i].seq < wire[j].seq
                                     /\ wire[i].version < wire[j].version

(* After a stop at most two more versions are taken up: the one that was   *)
(* pending and the one whose callback was past the check.                  *)
StopCutsStream == afterStop <= 2

(* The handler's wait for the pump ends, and every answer with it.         *)
AnswerFinishes == <>(stage \in {"completed", "halted"})

(* Once all is quiet the client shows the newest version of the answer     *)
(* that got through, whatever overtook what.  It says nothing about the    *)
(* reasoning, which an overtaken packet does set back.                     *)
NewestShown ==
  arrived = DOMAIN wire =>
    \A i \in DOMAIN wire :
      (Says(i) = "content" /\ \A j \in DOMAIN wire : Says(j) = "content" => j <= i)
        => view = wire[i].version
=============================================================================
