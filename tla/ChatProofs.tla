----------------------------- MODULE ChatProofs -----------------------------
(***************************************************************************)
(* Proofs about chat generations, for any sets of sockets and requests, any*)
(* chain length and any choice of branches: first about their numbering    *)
(* alone, then about the whole handler, then about the answers of several  *)
(* models.                                                                 *)
(***************************************************************************)
EXTENDS MultiLlm, TLAPS

-----------------------------------------------------------------------------
(* The numbering of chat generations.                                      *)
NumInv == NumTypeOK /\ NumbersHandedOut

LEMMA NumInitInv == NumInit => NumInv /\ NumbersUnique
  BY NoSidAssumption DEF NumInit, NumInv, NumTypeOK, NumbersHandedOut, NumbersUnique

(* Typing is kept by every step.                                           *)
LEMMA NumTypeStep == NumTypeOK /\ [NumNext]_numVars => NumTypeOK'
<1> SUFFICES ASSUME NumTypeOK, [NumNext]_numVars PROVE NumTypeOK'
  OBVIOUS
<1> USE DEF NumTypeOK
<1>1. ASSUME NEW s \in Sid, Connect(s) PROVE NumTypeOK'
  BY <1>1 DEF Connect
<1>2. ASSUME NEW s \in Sid, Disconnect(s) PROVE NumTypeOK'
  BY <1>2 DEF Disconnect
<1>3. ASSUME NEW s \in Sid, StopGeneration(s) PROVE NumTypeOK'
  BY <1>3 DEF StopGeneration
<1>4. ASSUME NEW g \in Gen, BeginGeneration(g) PROVE NumTypeOK'
  BY <1>4 DEF BeginGeneration
<1>5. ASSUME NEW g \in Gen, NEW s \in Sid, Receive(g, s) PROVE NumTypeOK'
  BY <1>5 DEF Receive
<1>6. CASE UNCHANGED numVars
  BY <1>6 DEF numVars
<1> QED BY <1>1, <1>2, <1>3, <1>4, <1>5, <1>6 DEF NumNext

(* The counter of a socket bounds what was stopped and what was handed out.*)
LEMMA HandedOutStep == NumInv /\ [NumNext]_numVars => NumbersHandedOut'
<1> SUFFICES ASSUME NumInv, [NumNext]_numVars PROVE NumbersHandedOut'
  OBVIOUS
<1> USE NoSidAssumption DEF NumInv, NumTypeOK, NumbersHandedOut
<1>1. ASSUME NEW s \in Sid, Connect(s) PROVE NumbersHandedOut'
  BY <1>1 DEF Connect
<1>2. ASSUME NEW s \in Sid, Disconnect(s) PROVE NumbersHandedOut'
  BY <1>2 DEF Disconnect
<1>3. ASSUME NEW s \in Sid, StopGeneration(s) PROVE NumbersHandedOut'
  BY <1>3 DEF StopGeneration
<1>4. ASSUME NEW g \in Gen, BeginGeneration(g) PROVE NumbersHandedOut'
  BY <1>4 DEF BeginGeneration
<1>5. ASSUME NEW g \in Gen, NEW s \in Sid, Receive(g, s) PROVE NumbersHandedOut'
  BY <1>5 DEF Receive
<1>6. CASE UNCHANGED numVars
  BY <1>6 DEF numVars
<1> QED BY <1>1, <1>2, <1>3, <1>4, <1>5, <1>6 DEF NumNext

(* A new number is above the counter, and so above every number in use.    *)
LEMMA UniqueStep == NumInv /\ NumbersUnique /\ [NumNext]_numVars => NumbersUnique'
<1> SUFFICES ASSUME NumInv, NumbersUnique, [NumNext]_numVars PROVE NumbersUnique'
  OBVIOUS
<1> USE NoSidAssumption DEF NumInv, NumTypeOK, NumbersHandedOut, NumbersUnique
<1>1. ASSUME NEW s \in Sid, Connect(s) PROVE NumbersUnique'
  BY <1>1 DEF Connect
<1>2. ASSUME NEW s \in Sid, Disconnect(s) PROVE NumbersUnique'
  BY <1>2 DEF Disconnect
<1>3. ASSUME NEW s \in Sid, StopGeneration(s) PROVE NumbersUnique'
  BY <1>3 DEF StopGeneration
<1>4. ASSUME NEW g \in Gen, BeginGeneration(g) PROVE NumbersUnique'
  BY <1>4 DEF BeginGeneration
<1>5. ASSUME NEW g \in Gen, NEW s \in Sid, Receive(g, s) PROVE NumbersUnique'
  BY <1>5 DEF Receive
<1>6. CASE UNCHANGED numVars
  BY <1>6 DEF numVars
<1> QED BY <1>1, <1>2, <1>3, <1>4, <1>5, <1>6 DEF NumNext

(* Typing, the bounds by the counter and uniqueness hold in every reachable*)
(* state, for any number of sockets, generations, stops and reconnects.    *)
THEOREM NumbersCorrect == NumSpec => [](NumTypeOK /\ NumbersHandedOut /\ NumbersUnique)
<1>1. NumInit => NumInv /\ NumbersUnique
  BY NumInitInv
<1>2. NumInv /\ NumbersUnique /\ [NumNext]_numVars => (NumInv /\ NumbersUnique)'
  BY NumTypeStep, HandedOutStep, UniqueStep DEF NumInv
<1>3. NumInv /\ NumbersUnique => NumTypeOK /\ NumbersHandedOut /\ NumbersUnique
  BY DEF NumInv
<1> QED BY <1>1, <1>2, <1>3, PTL DEF NumSpec

LEMMA NumbersInductive == NumInv /\ [NumNext]_numVars => NumInv'
  BY NumTypeStep, HandedOutStep DEF NumInv

(* Being stopped outlives every step but the loss of the socket.           *)
LEMMA StoppedStep ==
  ASSUME NumInv, [NumNext]_numVars, NEW g \in Gen, Stopped(g)
  PROVE  Stopped(g)' \/ conn'[socket[g]] = "closed"
<1> USE NoSidAssumption DEF NumInv, NumTypeOK, NumbersHandedOut, Stopped
<1>1. ASSUME NEW s \in Sid, Connect(s) PROVE Stopped(g)'
  BY <1>1 DEF Connect
<1>2. ASSUME NEW s \in Sid, Disconnect(s)
      PROVE  Stopped(g)' \/ conn'[socket[g]] = "closed"
  BY <1>2 DEF Disconnect
<1>3. ASSUME NEW s \in Sid, StopGeneration(s) PROVE Stopped(g)'
  BY <1>3 DEF StopGeneration
<1>4. ASSUME NEW h \in Gen, BeginGeneration(h) PROVE Stopped(g)'
  BY <1>4 DEF BeginGeneration
<1>5. ASSUME NEW h \in Gen, NEW s \in Sid, Receive(h, s) PROVE Stopped(g)'
  BY <1>5 DEF Receive
<1>6. CASE UNCHANGED numVars
  BY <1>6 DEF numVars
<1> QED BY <1>1, <1>2, <1>3, <1>4, <1>5, <1>6 DEF NumNext

-----------------------------------------------------------------------------
(* The step of the refinement: each action of the numbering is a press, a  *)
(* drop or a begin of StopPromise, or changes nothing it can see.          *)
LEMMA PromiseStep == NumInv /\ [NumNext]_numVars => [Promise!Next]_(Promise!vars)
<1> SUFFICES ASSUME NumInv, [NumNext]_numVars PROVE [Promise!Next]_(Promise!vars)
  OBVIOUS
<1> DEFINE owner == [g \in Gen |-> IF my[g] = 0 THEN NoSid ELSE socket[g]]
<1> DEFINE cancelled == [g \in Gen |-> Stopped(g)]
<1> USE NoSidAssumption DEF NumInv, NumTypeOK, NumbersHandedOut, Stopped
<1>1. ASSUME NEW s \in Sid, Connect(s) PROVE UNCHANGED <<owner, cancelled>>
  BY <1>1 DEF Connect
<1>2. ASSUME NEW s \in Sid, Disconnect(s) PROVE Promise!Drop(s)
  <2>1. owner' = owner
    BY <1>2 DEF Disconnect
  <2>2. ASSUME NEW g \in Gen PROVE Stopped(g)' = (Stopped(g) /\ owner[g] # s)
    BY <1>2 DEF Disconnect
  <2>3. cancelled' = [g \in Gen |-> cancelled[g] /\ owner[g] # s]
    BY <2>2
  <2> QED BY <2>1, <2>3 DEF Promise!Drop
<1>3. ASSUME NEW s \in Sid, StopGeneration(s) PROVE Promise!Press(s)
  <2>1. owner' = owner
    BY <1>3 DEF StopGeneration
  <2>2. ASSUME NEW g \in Gen PROVE Stopped(g)' = (Stopped(g) \/ owner[g] = s)
    BY <1>3 DEF StopGeneration
  <2>3. cancelled' = [g \in Gen |-> cancelled[g] \/ owner[g] = s]
    BY <2>2
  <2> QED BY <2>1, <2>3 DEF Promise!Press
<1>4. ASSUME NEW g \in Gen, BeginGeneration(g)
       PROVE \E s \in Sid : Promise!Begin(g, s)
  <2>1. owner[g] = NoSid
    BY <1>4 DEF BeginGeneration
  <2>2. owner' = [owner EXCEPT ![g] = socket[g]]
    <3>1. my' = [my EXCEPT ![g] = generation_seq[socket[g]] + 1] /\ socket' = socket
      BY <1>4 DEF BeginGeneration
    <3>2. my'[g] # 0 /\ \A h \in Gen \ {g} : my'[h] = my[h]
      BY <1>4, <3>1 DEF BeginGeneration
    <3>3. owner'[g] = socket[g] /\ \A h \in Gen \ {g} : owner'[h] = owner[h]
      BY <3>1, <3>2
    <3> QED BY <3>3
  <2>3. ASSUME NEW h \in Gen PROVE Stopped(h)' = Stopped(h)
    BY <1>4 DEF BeginGeneration
  <2>4. cancelled' = cancelled
    BY <2>3
  <2>5. socket[g] \in Sid
    BY <1>4 DEF BeginGeneration
  <2> QED BY <2>1, <2>2, <2>4, <2>5 DEF Promise!Begin
<1>5. ASSUME NEW g \in Gen, NEW s \in Sid, Receive(g, s) PROVE UNCHANGED <<owner, cancelled>>
  BY <1>5 DEF Receive
<1>6. CASE UNCHANGED numVars
  BY <1>6 DEF numVars, Promise!vars
<1>7. CASE \E s \in Sid : Connect(s) \/ (\E g \in Gen : Receive(g, s))
  BY <1>1, <1>5, <1>7 DEF Promise!vars
<1>8. CASE \E s \in Sid : Disconnect(s) \/ StopGeneration(s)
  BY <1>2, <1>3, <1>8 DEF Promise!Next
<1>9. CASE \E g \in Gen : BeginGeneration(g)
  BY <1>4, <1>9 DEF Promise!Next
<1> HIDE DEF owner, cancelled
<1> QED BY <1>6, <1>7, <1>8, <1>9 DEF NumNext

(* The Stop button keeps its promise: the numbering implements StopPromise.*)
THEOREM NumbersKeepStopPromise == NumSpec => KeepsStopPromise
<1>1. NumInit => Promise!Init
  BY DEF NumInit, Promise!Init, Stopped
<1>2. NumInv /\ [NumNext]_numVars => [Promise!Next]_(Promise!vars)
  BY PromiseStep
<1>3. NumSpec => []NumInv
  BY NumInitInv, NumTypeStep, HandedOutStep, PTL DEF NumSpec, NumInv
<1> QED BY <1>1, <1>2, <1>3, PTL DEF NumSpec, KeepsStopPromise, Promise!Spec

-----------------------------------------------------------------------------
(* The whole handler.                                                      *)

(* What the position of a task says about the rest of its state: who owns  *)
(* it, whether it has a number, which branch it is in, how far its chain   *)
(* is, whether it has spoken and whether its question is stored.           *)
Control ==
  \A g \in Gen :
    /\ pc[g] # "idle" => socket[g] # NoSid
    /\ pc[g] \in {"idle", "auth"} => my[g] = 0
    /\ pc[g] \in {"media", "mediaSave"} => mode[g] = "media"
    /\ pc[g] \in {"chainHead", "stepReturn", "chainFlush"} => mode[g] = "chain"
    /\ pc[g] \notin {"chainFlush", "saving", "done"} => step[g] < ChainLen
    /\ pc[g] \notin {"saving", "done"} => terminal[g] = << >>
    /\ Len(terminal[g]) <= 1
    /\ pc[g] \notin {"mediaSave", "saving", "done"} => answer[g] = "none"
    /\ pc[g] \notin {"idle", "auth", "owner", "prepare", "store", "done"}
         => userSaved[g] \/ regen[g]
    /\ saved[g] # "none" => userSaved[g] \/ regen[g]

ChatInv == TypeOK /\ NumbersHandedOut /\ Control

LEMMA InitInv == Init => ChatInv
<1> SUFFICES ASSUME Init PROVE ChatInv
  OBVIOUS
<1>1. NumTypeOK /\ NumbersHandedOut
  BY NumInitInv DEF Init, NumInv
<1>2. TypeOK
  <2>1. mode \in [Gen -> AllModes]
    BY ChatAssumption DEF Init
  <2>2. terminal \in [Gen -> Seq(Event)]
    BY DEF Init
  <2>3. step \in [Gen -> 0..ChainLen]
    BY ChatAssumption DEF Init
  <2> QED BY <1>1, <2>1, <2>2, <2>3 DEF Init, TypeOK, PC, Answer
<1>3. Control
  BY ChatAssumption DEF Init, Control, NumInit
<1> QED BY <1>1, <1>2, <1>3 DEF ChatInv

(* Every step of a chat is a step of the numbering or leaves it alone.     *)
LEMMA NumStep == TypeOK /\ Control /\ [Next]_vars => [NumNext]_numVars
<1> SUFFICES ASSUME TypeOK, Control, [Next]_vars PROVE [NumNext]_numVars
  OBVIOUS
<1> USE DEF NumNext, TypeOK, NumTypeOK
<1>1. ASSUME NEW s \in Sid, ChatConnect(s) PROVE [NumNext]_numVars
  BY <1>1 DEF ChatConnect
<1>2. ASSUME NEW s \in Sid, ChatDisconnect(s) PROVE [NumNext]_numVars
  BY <1>2 DEF ChatDisconnect
<1>3. ASSUME NEW s \in Sid, ChatStop(s) PROVE [NumNext]_numVars
  BY <1>3 DEF ChatStop
<1>4. ASSUME NEW g \in Gen, NEW s \in Sid, ChatReceive(g, s) PROVE [NumNext]_numVars
  BY <1>4 DEF ChatReceive
<1>5. ASSUME NEW g \in Gen, RejectUnauthorized(g) PROVE [NumNext]_numVars
  BY <1>5 DEF RejectUnauthorized, Control
<1>6. ASSUME NEW g \in Gen, Authorize(g) PROVE [NumNext]_numVars
  BY <1>6 DEF Authorize
<1>7. ASSUME NEW g \in Gen, DenyForeignConversation(g) PROVE [NumNext]_numVars
  BY <1>7 DEF DenyForeignConversation
<1>8. ASSUME NEW g \in Gen, OwnConversation(g) PROVE [NumNext]_numVars
  BY <1>8 DEF OwnConversation
<1>9. ASSUME NEW g \in Gen, Prepare(g) PROVE [NumNext]_numVars
  BY <1>9 DEF Prepare
<1>10. ASSUME NEW g \in Gen, StoreQuestion(g) PROVE [NumNext]_numVars
  BY <1>10 DEF StoreQuestion
<1>11. ASSUME NEW g \in Gen, Fail(g) PROVE [NumNext]_numVars
  BY <1>11 DEF Fail
<1>12. ASSUME NEW g \in Gen, MediaReady(g) PROVE [NumNext]_numVars
  BY <1>12 DEF MediaReady
<1>13. ASSUME NEW g \in Gen, MediaError(g) PROVE [NumNext]_numVars
  BY <1>13 DEF MediaError
<1>14. ASSUME NEW g \in Gen, MediaSave(g) PROVE [NumNext]_numVars
  BY <1>14 DEF MediaSave
<1>15. ASSUME NEW g \in Gen, GateBlocked(g) PROVE [NumNext]_numVars
  BY <1>15 DEF GateBlocked
<1>16. ASSUME NEW g \in Gen, GateOpen(g) PROVE [NumNext]_numVars
  BY <1>16 DEF GateOpen
<1>17. ASSUME NEW g \in Gen, Retrieve(g) PROVE [NumNext]_numVars
  BY <1>17 DEF Retrieve
<1>18. ASSUME NEW g \in Gen, AgentStopped(g) PROVE [NumNext]_numVars
  BY <1>18 DEF AgentStopped
<1>19. ASSUME NEW g \in Gen, AgentAnswers(g) PROVE [NumNext]_numVars
  BY <1>19 DEF AgentAnswers
<1>20. ASSUME NEW g \in Gen, CodingAnswers(g) PROVE [NumNext]_numVars
  BY <1>20 DEF CodingAnswers
<1>21. ASSUME NEW g \in Gen, ToolLoopFallsThrough(g) PROVE [NumNext]_numVars
  BY <1>21 DEF ToolLoopFallsThrough
<1>22. ASSUME NEW g \in Gen, Produce(g) PROVE [NumNext]_numVars
  BY <1>22 DEF Produce
<1>23. ASSUME NEW g \in Gen, LlmReturns(g) PROVE [NumNext]_numVars
  BY <1>23 DEF LlmReturns
<1>24. ASSUME NEW g \in Gen, Polish(g) PROVE [NumNext]_numVars
  BY <1>24 DEF Polish
<1>25. ASSUME NEW g \in Gen, SaveStopped(g) PROVE [NumNext]_numVars
  BY <1>25 DEF SaveStopped
<1>26. ASSUME NEW g \in Gen, Complete(g) PROVE [NumNext]_numVars
  BY <1>26 DEF Complete
<1>27. ASSUME NEW g \in Gen, ChainHead(g) PROVE [NumNext]_numVars
  BY <1>27 DEF ChainHead
<1>28. ASSUME NEW g \in Gen, StepReturn(g) PROVE [NumNext]_numVars
  BY <1>28 DEF StepReturn
<1>29. ASSUME NEW g \in Gen, ChainComplete(g) PROVE [NumNext]_numVars
  BY <1>29 DEF ChainComplete
<1>30. ASSUME NEW g \in Gen, SaveAnswer(g) PROVE [NumNext]_numVars
  BY <1>30 DEF SaveAnswer
<1>31. CASE UNCHANGED vars
  BY <1>31 DEF vars, numVars, chatVars
<1> QED BY <1>1, <1>2, <1>3, <1>4, <1>5, <1>6, <1>7, <1>8, <1>9, <1>10, <1>11, <1>12, <1>13, <1>14, <1>15, <1>16, <1>17, <1>18, <1>19, <1>20, <1>21, <1>22, <1>23, <1>24, <1>25, <1>26, <1>27, <1>28, <1>29, <1>30, <1>31
    DEF Next, SocketEvent, Task, Entry, Media, Direct, Chain

LEMMA EmitType ==
  ASSUME TypeOK, NEW g \in Gen, NEW e \in Event, Emit(g, e)
  PROVE  terminal' \in [Gen -> Seq(Event)]
  BY DEF TypeOK, Emit

(* Typing.                                                                 *)
LEMMA TypeStep == TypeOK /\ Control /\ [Next]_vars => TypeOK'
<1> SUFFICES ASSUME TypeOK, Control, [Next]_vars PROVE TypeOK'
  OBVIOUS
<1>0. NumTypeOK'
  BY NumStep, NumTypeStep DEF TypeOK
<1> USE <1>0, ChatAssumption DEF TypeOK, PC, Answer, Event, AllModes, Goto, Emit, Finish
<1>1. ASSUME NEW s \in Sid, ChatConnect(s) PROVE TypeOK'
  BY <1>1 DEF ChatConnect, chatVars
<1>2. ASSUME NEW s \in Sid, ChatDisconnect(s) PROVE TypeOK'
  BY <1>2 DEF ChatDisconnect, chatVars
<1>3. ASSUME NEW s \in Sid, ChatStop(s) PROVE TypeOK'
  BY <1>3 DEF ChatStop
<1>4. ASSUME NEW g \in Gen, NEW s \in Sid, ChatReceive(g, s) PROVE TypeOK'
  BY <1>4 DEF ChatReceive
<1>5. ASSUME NEW g \in Gen, RejectUnauthorized(g) PROVE TypeOK'
  BY <1>5 DEF RejectUnauthorized
<1>6. ASSUME NEW g \in Gen, Authorize(g) PROVE TypeOK'
  BY <1>6 DEF Authorize
<1>7. ASSUME NEW g \in Gen, DenyForeignConversation(g) PROVE TypeOK'
  BY <1>7 DEF DenyForeignConversation
<1>8. ASSUME NEW g \in Gen, OwnConversation(g) PROVE TypeOK'
  BY <1>8 DEF OwnConversation
<1>9. ASSUME NEW g \in Gen, Prepare(g) PROVE TypeOK'
  BY <1>9 DEF Prepare, Branch
<1>10. ASSUME NEW g \in Gen, StoreQuestion(g) PROVE TypeOK'
  BY <1>10 DEF StoreQuestion, Branch
<1>11. ASSUME NEW g \in Gen, Fail(g) PROVE TypeOK'
  BY <1>11 DEF Fail
<1>12. ASSUME NEW g \in Gen, MediaReady(g) PROVE TypeOK'
  BY <1>12 DEF MediaReady
<1>13. ASSUME NEW g \in Gen, MediaError(g) PROVE TypeOK'
  BY <1>13 DEF MediaError
<1>14. ASSUME NEW g \in Gen, MediaSave(g) PROVE TypeOK'
  <2>1. PICK r \in {answer[g], "lost"} : saved' = [saved EXCEPT ![g] = r]
    BY <1>14 DEF MediaSave
  <2>2. saved' \in [Gen -> Answer \cup {"lost"}]
    BY <2>1
  <2> QED BY <1>14, <2>2 DEF MediaSave
<1>15. ASSUME NEW g \in Gen, GateBlocked(g) PROVE TypeOK'
  BY <1>15 DEF GateBlocked
<1>16. ASSUME NEW g \in Gen, GateOpen(g) PROVE TypeOK'
  BY <1>16 DEF GateOpen
<1>17. ASSUME NEW g \in Gen, Retrieve(g) PROVE TypeOK'
  <2>1. PICK l \in {"agent", "coding", "llm", "polish"} : Goto(g, l)
    BY <1>17 DEF Retrieve
  <2>2. resp' \in [Gen -> {"none", "text", "outage", "empty"}]
    BY <1>17 DEF Retrieve
  <2> QED BY <1>17, <2>1, <2>2 DEF Retrieve
<1>18. ASSUME NEW g \in Gen, AgentStopped(g) PROVE TypeOK'
  BY <1>18 DEF AgentStopped
<1>19. ASSUME NEW g \in Gen, AgentAnswers(g) PROVE TypeOK'
  BY <1>19 DEF AgentAnswers
<1>20. ASSUME NEW g \in Gen, CodingAnswers(g) PROVE TypeOK'
  BY <1>20 DEF CodingAnswers
<1>21. ASSUME NEW g \in Gen, ToolLoopFallsThrough(g) PROVE TypeOK'
  BY <1>21 DEF ToolLoopFallsThrough
<1>22. ASSUME NEW g \in Gen, Produce(g) PROVE TypeOK'
  BY <1>22 DEF Produce
<1>23. ASSUME NEW g \in Gen, LlmReturns(g) PROVE TypeOK'
  BY <1>23 DEF LlmReturns
<1>24. ASSUME NEW g \in Gen, Polish(g) PROVE TypeOK'
  BY <1>24 DEF Polish
<1>25. ASSUME NEW g \in Gen, SaveStopped(g) PROVE TypeOK'
  <2>1. saved' \in [Gen -> Answer \cup {"lost"}]
    <3>1. CASE resp[g] # "empty" /\ SavesItself(g)
      BY <1>25, <3>1 DEF SaveStopped
    <3>2. CASE ~(resp[g] # "empty" /\ SavesItself(g))
      BY <1>25, <3>2 DEF SaveStopped
    <3> QED BY <3>1, <3>2
  <2>2. Finish(g, "generation_stopped")
    BY <1>25 DEF SaveStopped
  <2>3. terminal' \in [Gen -> Seq(Event)] /\ pc' \in [Gen -> PC]
    BY <2>2, EmitType
  <2> QED BY <1>25, <2>1, <2>3 DEF SaveStopped
<1>26. ASSUME NEW g \in Gen, Complete(g) PROVE TypeOK'
  <2>1. CASE SavesItself(g)
    <3>1. /\ Emit(g, "chat_complete") /\ Goto(g, "saving")
          /\ answer' = [answer EXCEPT ![g] = "full"]
      BY <1>26, <2>1 DEF Complete
    <3>2. /\ terminal' \in [Gen -> Seq(Event)] /\ pc' \in [Gen -> PC]
          /\ answer' \in [Gen -> Answer]
      BY <3>1, EmitType
    <3> QED BY <1>26, <3>2 DEF Complete
  <2>2. CASE ~SavesItself(g)
    BY <1>26, <2>2 DEF Complete
  <2> QED BY <2>1, <2>2
<1>27. ASSUME NEW g \in Gen, ChainHead(g) PROVE TypeOK'
  <2>1. CASE Stopped(g)
    <3>1. Finish(g, "generation_stopped")
      BY <1>27, <2>1 DEF ChainHead
    <3>2. terminal' \in [Gen -> Seq(Event)] /\ pc' \in [Gen -> PC]
      BY <3>1, EmitType
    <3> QED BY <1>27, <3>2 DEF ChainHead
  <2>2. CASE ~Stopped(g)
    BY <1>27, <2>2 DEF ChainHead
  <2> QED BY <2>1, <2>2
<1>28. ASSUME NEW g \in Gen, StepReturn(g) PROVE TypeOK'
  <2>1. step' \in [Gen -> 0..ChainLen]
    <3>1. CASE Stopped(g)
      BY <1>28, <3>1 DEF StepReturn
    <3>2. CASE ~Stopped(g)
      <4>1. step' = [step EXCEPT ![g] = @ + 1] /\ step[g] < ChainLen
        BY <1>28, <3>2 DEF StepReturn, Control
      <4> QED BY <4>1
    <3> QED BY <3>1, <3>2
  <2>2. pc' \in [Gen -> PC]
    <3>1. PICK l \in {"done", "gate", "chainFlush"} : Goto(g, l)
      BY <1>28 DEF StepReturn
    <3> QED BY <3>1
  <2> QED BY <1>28, <2>1, <2>2 DEF StepReturn
<1>29. ASSUME NEW g \in Gen, ChainComplete(g) PROVE TypeOK'
  BY <1>29 DEF ChainComplete
<1>30. ASSUME NEW g \in Gen, SaveAnswer(g) PROVE TypeOK'
  <2>1. PICK r \in {answer[g], "lost"} : saved' = [saved EXCEPT ![g] = r]
    BY <1>30 DEF SaveAnswer
  <2>2. saved' \in [Gen -> Answer \cup {"lost"}]
    BY <2>1
  <2> QED BY <1>30, <2>2 DEF SaveAnswer
<1>31. CASE UNCHANGED vars
  BY <1>31 DEF vars, numVars, chatVars
<1> QED BY <1>1, <1>2, <1>3, <1>4, <1>5, <1>6, <1>7, <1>8, <1>9, <1>10, <1>11, <1>12, <1>13, <1>14, <1>15, <1>16, <1>17, <1>18, <1>19, <1>20, <1>21, <1>22, <1>23, <1>24, <1>25, <1>26, <1>27, <1>28, <1>29, <1>30, <1>31
    DEF Next, SocketEvent, Task, Entry, Media, Direct, Chain

(* The position and the rest of the state stay in step.                    *)
LEMMA ControlStep == ChatInv /\ [Next]_vars => Control'
<1> SUFFICES ASSUME ChatInv, [Next]_vars PROVE Control'
  OBVIOUS
<1> USE NoSidAssumption, ChatAssumption
    DEF ChatInv, TypeOK, NumTypeOK, Control, Event, Goto, Emit, Finish
<1>1. ASSUME NEW s \in Sid, ChatConnect(s) PROVE Control'
  BY <1>1 DEF ChatConnect, Connect, chatVars
<1>2. ASSUME NEW s \in Sid, ChatDisconnect(s) PROVE Control'
  BY <1>2 DEF ChatDisconnect, Disconnect, chatVars
<1>3. ASSUME NEW s \in Sid, ChatStop(s) PROVE Control'
  BY <1>3 DEF ChatStop, StopGeneration
<1>4. ASSUME NEW g \in Gen, NEW s \in Sid, ChatReceive(g, s) PROVE Control'
  BY <1>4 DEF ChatReceive, Receive
<1>5. ASSUME NEW g \in Gen, RejectUnauthorized(g) PROVE Control'
  BY <1>5 DEF RejectUnauthorized, Disconnect, numVars
<1>6. ASSUME NEW g \in Gen, Authorize(g) PROVE Control'
  BY <1>6 DEF Authorize, BeginGeneration
<1>7. ASSUME NEW g \in Gen, DenyForeignConversation(g) PROVE Control'
  BY <1>7 DEF DenyForeignConversation, numVars
<1>8. ASSUME NEW g \in Gen, OwnConversation(g) PROVE Control'
  BY <1>8 DEF OwnConversation, numVars
<1>9. ASSUME NEW g \in Gen, Prepare(g) PROVE Control'
  BY <1>9 DEF Prepare, Branch, numVars
<1>10. ASSUME NEW g \in Gen, StoreQuestion(g) PROVE Control'
  BY <1>10 DEF StoreQuestion, Branch, numVars
<1>11. ASSUME NEW g \in Gen, Fail(g) PROVE Control'
  BY <1>11 DEF Fail, numVars
<1>12. ASSUME NEW g \in Gen, MediaReady(g) PROVE Control'
  BY <1>12 DEF MediaReady, numVars
<1>13. ASSUME NEW g \in Gen, MediaError(g) PROVE Control'
  BY <1>13 DEF MediaError, numVars
<1>14. ASSUME NEW g \in Gen, MediaSave(g) PROVE Control'
  BY <1>14 DEF MediaSave, numVars
<1>15. ASSUME NEW g \in Gen, GateBlocked(g) PROVE Control'
  BY <1>15 DEF GateBlocked, numVars
<1>16. ASSUME NEW g \in Gen, GateOpen(g) PROVE Control'
  BY <1>16 DEF GateOpen, numVars
<1>17. ASSUME NEW g \in Gen, Retrieve(g) PROVE Control'
  <2>1. PICK l \in {"agent", "coding", "llm", "polish"} : Goto(g, l)
    BY <1>17 DEF Retrieve, numVars
  <2> QED BY <1>17, <2>1 DEF Retrieve, numVars
<1>18. ASSUME NEW g \in Gen, AgentStopped(g) PROVE Control'
  BY <1>18 DEF AgentStopped, numVars
<1>19. ASSUME NEW g \in Gen, AgentAnswers(g) PROVE Control'
  BY <1>19 DEF AgentAnswers, numVars
<1>20. ASSUME NEW g \in Gen, CodingAnswers(g) PROVE Control'
  BY <1>20 DEF CodingAnswers, numVars
<1>21. ASSUME NEW g \in Gen, ToolLoopFallsThrough(g) PROVE Control'
  BY <1>21 DEF ToolLoopFallsThrough, numVars
<1>22. ASSUME NEW g \in Gen, Produce(g) PROVE Control'
  BY <1>22 DEF Produce, numVars
<1>23. ASSUME NEW g \in Gen, LlmReturns(g) PROVE Control'
  BY <1>23 DEF LlmReturns, numVars
<1>24. ASSUME NEW g \in Gen, Polish(g) PROVE Control'
  BY <1>24 DEF Polish, numVars
<1>25. ASSUME NEW g \in Gen, SaveStopped(g) PROVE Control'
  BY <1>25 DEF SaveStopped, numVars
<1>26. ASSUME NEW g \in Gen, Complete(g) PROVE Control'
  <2>1. UNCHANGED <<numVars, mode, regen, step, userSaved, saved>>
    BY <1>26 DEF Complete
  <2>2. CASE SavesItself(g)
    <3>1. /\ Emit(g, "chat_complete") /\ Goto(g, "saving") /\ pc[g] = "finish"
          /\ answer' = [answer EXCEPT ![g] = "full"]
      BY <1>26, <2>2 DEF Complete
    <3> QED BY <2>1, <3>1 DEF numVars
  <2>3. CASE ~SavesItself(g)
    <3>1. /\ Goto(g, "stepReturn") /\ UNCHANGED <<terminal, answer>>
          /\ pc[g] = "finish" /\ mode[g] = "chain"
      BY <1>26, <2>3 DEF Complete, SavesItself
    <3> QED BY <2>1, <3>1 DEF numVars
  <2> QED BY <2>2, <2>3
<1>27. ASSUME NEW g \in Gen, ChainHead(g) PROVE Control'
  <2>1. /\ UNCHANGED <<numVars, mode, regen, step, userSaved, answer, saved>>
        /\ pc[g] = "chainHead"
    BY <1>27 DEF ChainHead
  <2>2. CASE Stopped(g)
    <3>1. Emit(g, "generation_stopped") /\ Goto(g, "done")
      BY <1>27, <2>2 DEF ChainHead
    <3> QED BY <2>1, <3>1 DEF numVars
  <2>3. CASE ~Stopped(g)
    <3>1. Goto(g, "gate") /\ UNCHANGED terminal
      BY <1>27, <2>3 DEF ChainHead
    <3> QED BY <2>1, <3>1 DEF numVars
  <2> QED BY <2>2, <2>3
<1>28. ASSUME NEW g \in Gen, StepReturn(g) PROVE Control'
  BY <1>28 DEF StepReturn, numVars
<1>29. ASSUME NEW g \in Gen, ChainComplete(g) PROVE Control'
  BY <1>29 DEF ChainComplete, numVars
<1>30. ASSUME NEW g \in Gen, SaveAnswer(g) PROVE Control'
  BY <1>30 DEF SaveAnswer, numVars
<1>31. CASE UNCHANGED vars
  BY <1>31 DEF vars, numVars, chatVars
<1> QED BY <1>1, <1>2, <1>3, <1>4, <1>5, <1>6, <1>7, <1>8, <1>9, <1>10, <1>11, <1>12, <1>13, <1>14, <1>15, <1>16, <1>17, <1>18, <1>19, <1>20, <1>21, <1>22, <1>23, <1>24, <1>25, <1>26, <1>27, <1>28, <1>29, <1>30, <1>31
    DEF Next, SocketEvent, Task, Entry, Media, Direct, Chain

LEMMA ChatStep == ChatInv /\ [Next]_vars => ChatInv' /\ [NumNext]_numVars
<1> SUFFICES ASSUME ChatInv, [Next]_vars PROVE ChatInv' /\ [NumNext]_numVars
  OBVIOUS
<1>1. [NumNext]_numVars
  BY NumStep DEF ChatInv
<1>2. NumbersHandedOut'
  BY <1>1, HandedOutStep DEF ChatInv, NumInv, TypeOK
<1> QED BY <1>1, <1>2, TypeStep, ControlStep DEF ChatInv

(* Typing holds in every reachable state of a chat.                        *)
THEOREM ChatTypeCorrect == Spec => []TypeOK
<1>1. ChatInv => TypeOK
  BY DEF ChatInv
<1> QED BY <1>1, InitInv, ChatStep, PTL DEF Spec

(* The whole chat, with all its branches, keeps the promise of the Stop    *)
(* button: its numbering only ever moves as GenerationNumbers does.        *)
THEOREM ChatKeepsStopPromise == Spec => KeepsStopPromise
<1>1. Init => NumInit
  BY DEF Init
<1>2. Spec => NumSpec
  BY <1>1, InitInv, ChatStep, PTL DEF Spec, NumSpec
<1> QED BY <1>2, NumbersKeepStopPromise

(* A generation speaks its last word at most once.                         *)
THEOREM ChatOneTerminalEvent == Spec => []OneTerminalEvent
<1>1. ChatInv => OneTerminalEvent
  BY DEF ChatInv, Control, OneTerminalEvent
<1> QED BY <1>1, InitInv, ChatStep, PTL DEF Spec

(* No answer is stored without its question.                               *)
THEOREM ChatAnswerAfterQuestion == Spec => []AnswerAfterQuestion
<1>1. ChatInv => AnswerAfterQuestion
  BY DEF ChatInv, Control, AnswerAfterQuestion
<1> QED BY <1>1, InitInv, ChatStep, PTL DEF Spec

(* While the socket lives, no step takes a stop back.                      *)
THEOREM ChatStopHolds == Spec => StopHolds
<1>1. ASSUME ChatInv, [Next]_vars
      PROVE  \A g \in Gen : Stopped(g) => (Stopped(g)' \/ conn'[socket[g]] = "closed")
  BY <1>1, ChatStep, StoppedStep DEF ChatInv, NumInv, TypeOK
<1>2. ChatInv /\ [Next]_vars
        => [\A g \in Gen : Stopped(g) => (Stopped(g)' \/ conn'[socket[g]] = "closed")]_vars
  BY <1>1
<1> QED BY <1>2, InitInv, ChatStep, PTL DEF Spec, StopHolds

-----------------------------------------------------------------------------
(* The stop.  A press leaves its mark on every running generation of the   *)
(* socket, and no other does; one marked in time stays stopped as long as  *)
(* the socket lives and never gets past the last look.                     *)
StopMarks ==
  \A g \in Gen :
    /\ Live(g) /\ Stopped(g) => stopHit[g] # "no"
    /\ stopHit[g] # "no" => my[g] # 0

EarlyStops ==
  \A g \in Gen :
    (socket[g] # NoSid /\ conn[socket[g]] = "open" /\ stopHit[g] = "early" /\ mode[g] # "media")
         => /\ Stopped(g)
            /\ pc[g] # "chainFlush"
            /\ pc[g] = "finish" => mode[g] = "chain"
            /\ answer[g] # "full"

LEMMA SameStopped == ASSUME UNCHANGED numVars, NEW g \in Gen PROVE Stopped(g)' = Stopped(g)
  BY DEF numVars, Stopped

LEMMA StopMarksStep == ChatInv /\ StopMarks /\ [Next]_vars => StopMarks'
<1> SUFFICES ASSUME ChatInv, StopMarks, [Next]_vars PROVE StopMarks'
  OBVIOUS
<1> USE NoSidAssumption, SameStopped
    DEF ChatInv, TypeOK, NumTypeOK, StopMarks, Live, Goto, Emit, Finish
<1>1. ASSUME NEW s \in Sid, ChatConnect(s) PROVE StopMarks'
  BY <1>1 DEF ChatConnect, Connect, Stopped, chatVars
<1>2. ASSUME NEW s \in Sid, ChatDisconnect(s) PROVE StopMarks'
  BY <1>2 DEF ChatDisconnect, Disconnect, Stopped, chatVars
<1>3. ASSUME NEW s \in Sid, ChatStop(s) PROVE StopMarks'
  BY <1>3 DEF ChatStop, StopGeneration, Stopped
<1>4. ASSUME NEW g \in Gen, NEW s \in Sid, ChatReceive(g, s) PROVE StopMarks'
  BY <1>4 DEF ChatReceive, Receive, Stopped, NumbersHandedOut
<1>5. ASSUME NEW g \in Gen, RejectUnauthorized(g) PROVE StopMarks'
  <2>1. CASE conn[socket[g]] = "open"
    <3>1. \A h \in Gen : Stopped(h)' => Stopped(h)
      <4>1. socket[g] \in Sid /\ Disconnect(socket[g])
        BY <1>5, <2>1 DEF RejectUnauthorized, Control
      <4> QED BY <4>1 DEF Disconnect, Stopped
    <3> QED BY <1>5, <2>1, <3>1 DEF RejectUnauthorized, Disconnect
  <2>2. CASE conn[socket[g]] # "open"
    BY <1>5, <2>2 DEF RejectUnauthorized, numVars
  <2> QED BY <2>1, <2>2
<1>6. ASSUME NEW g \in Gen, Authorize(g) PROVE StopMarks'
  BY <1>6 DEF Authorize, BeginGeneration, Stopped, NumbersHandedOut
<1>7. ASSUME NEW g \in Gen, DenyForeignConversation(g) PROVE StopMarks'
  BY <1>7 DEF DenyForeignConversation, numVars
<1>8. ASSUME NEW g \in Gen, OwnConversation(g) PROVE StopMarks'
  BY <1>8 DEF OwnConversation, numVars
<1>9. ASSUME NEW g \in Gen, Prepare(g) PROVE StopMarks'
  BY <1>9 DEF Prepare, numVars
<1>10. ASSUME NEW g \in Gen, StoreQuestion(g) PROVE StopMarks'
  BY <1>10 DEF StoreQuestion, numVars
<1>11. ASSUME NEW g \in Gen, Fail(g) PROVE StopMarks'
  BY <1>11 DEF Fail, numVars
<1>12. ASSUME NEW g \in Gen, MediaReady(g) PROVE StopMarks'
  BY <1>12 DEF MediaReady, numVars
<1>13. ASSUME NEW g \in Gen, MediaError(g) PROVE StopMarks'
  BY <1>13 DEF MediaError, numVars
<1>14. ASSUME NEW g \in Gen, MediaSave(g) PROVE StopMarks'
  BY <1>14 DEF MediaSave, numVars
<1>15. ASSUME NEW g \in Gen, GateBlocked(g) PROVE StopMarks'
  BY <1>15 DEF GateBlocked, numVars
<1>16. ASSUME NEW g \in Gen, GateOpen(g) PROVE StopMarks'
  BY <1>16 DEF GateOpen, numVars
<1>17. ASSUME NEW g \in Gen, Retrieve(g) PROVE StopMarks'
  BY <1>17 DEF Retrieve, numVars
<1>18. ASSUME NEW g \in Gen, AgentStopped(g) PROVE StopMarks'
  BY <1>18 DEF AgentStopped, numVars
<1>19. ASSUME NEW g \in Gen, AgentAnswers(g) PROVE StopMarks'
  BY <1>19 DEF AgentAnswers, numVars
<1>20. ASSUME NEW g \in Gen, CodingAnswers(g) PROVE StopMarks'
  BY <1>20 DEF CodingAnswers, numVars
<1>21. ASSUME NEW g \in Gen, ToolLoopFallsThrough(g) PROVE StopMarks'
  BY <1>21 DEF ToolLoopFallsThrough, numVars
<1>22. ASSUME NEW g \in Gen, Produce(g) PROVE StopMarks'
  BY <1>22 DEF Produce, numVars
<1>23. ASSUME NEW g \in Gen, LlmReturns(g) PROVE StopMarks'
  BY <1>23 DEF LlmReturns, numVars
<1>24. ASSUME NEW g \in Gen, Polish(g) PROVE StopMarks'
  BY <1>24 DEF Polish, numVars
<1>25. ASSUME NEW g \in Gen, SaveStopped(g) PROVE StopMarks'
  BY <1>25 DEF SaveStopped, numVars
<1>26. ASSUME NEW g \in Gen, Complete(g) PROVE StopMarks'
  BY <1>26 DEF Complete, numVars
<1>27. ASSUME NEW g \in Gen, ChainHead(g) PROVE StopMarks'
  BY <1>27 DEF ChainHead, numVars
<1>28. ASSUME NEW g \in Gen, StepReturn(g) PROVE StopMarks'
  BY <1>28 DEF StepReturn, numVars
<1>29. ASSUME NEW g \in Gen, ChainComplete(g) PROVE StopMarks'
  BY <1>29 DEF ChainComplete, numVars
<1>30. ASSUME NEW g \in Gen, SaveAnswer(g) PROVE StopMarks'
  BY <1>30 DEF SaveAnswer, numVars
<1>31. CASE UNCHANGED vars
  BY <1>31 DEF vars, numVars, chatVars
<1> QED BY <1>1, <1>2, <1>3, <1>4, <1>5, <1>6, <1>7, <1>8, <1>9, <1>10, <1>11, <1>12, <1>13, <1>14, <1>15, <1>16, <1>17, <1>18, <1>19, <1>20, <1>21, <1>22, <1>23, <1>24, <1>25, <1>26, <1>27, <1>28, <1>29, <1>30, <1>31
    DEF Next, SocketEvent, Task, Entry, Media, Direct, Chain

LEMMA EarlyStopsStep == ChatInv /\ StopMarks /\ EarlyStops /\ [Next]_vars => EarlyStops'
<1> SUFFICES ASSUME ChatInv, StopMarks, EarlyStops, [Next]_vars PROVE EarlyStops'
  OBVIOUS
<1> USE NoSidAssumption, SameStopped
    DEF ChatInv, TypeOK, NumTypeOK, EarlyStops, Goto, Emit, Finish
<1>1. ASSUME NEW s \in Sid, ChatConnect(s) PROVE EarlyStops'
  BY <1>1 DEF ChatConnect, Connect, Stopped, NumbersHandedOut, chatVars
<1>2. ASSUME NEW s \in Sid, ChatDisconnect(s) PROVE EarlyStops'
  BY <1>2 DEF ChatDisconnect, Disconnect, Stopped, chatVars
<1>3. ASSUME NEW s \in Sid, ChatStop(s) PROVE EarlyStops'
  <2>1. UNCHANGED <<conn, socket, my, pc, mode, answer>>
    BY <1>3 DEF ChatStop, StopGeneration
  <2>2. ASSUME NEW g \in Gen, Stopped(g) PROVE Stopped(g)'
    BY <1>3, <2>2 DEF ChatStop, StopGeneration, Stopped, NumbersHandedOut
  <2>3. ASSUME NEW g \in Gen, stopHit'[g] = "early", stopHit[g] # "early"
        PROVE  /\ Stopped(g)'
               /\ pc[g] \notin PastLastLook(g)
               /\ pc[g] # "done"
    BY <1>3, <2>3 DEF ChatStop, StopGeneration, Stopped, NumbersHandedOut, Live
  <2> QED BY <2>1, <2>2, <2>3 DEF PastLastLook, Control
<1>4. ASSUME NEW g \in Gen, NEW s \in Sid, ChatReceive(g, s) PROVE EarlyStops'
  BY <1>4 DEF ChatReceive, Receive, Stopped, NumbersHandedOut, StopMarks
<1>5. ASSUME NEW g \in Gen, RejectUnauthorized(g) PROVE EarlyStops'
  <2>1. CASE conn[socket[g]] = "open"
    BY <1>5, <2>1 DEF RejectUnauthorized, Disconnect, Stopped, Control
  <2>2. CASE conn[socket[g]] # "open"
    BY <1>5, <2>2 DEF RejectUnauthorized, Control, numVars
  <2> QED BY <2>1, <2>2
<1>6. ASSUME NEW g \in Gen, Authorize(g) PROVE EarlyStops'
  BY <1>6 DEF Authorize, BeginGeneration, Stopped, NumbersHandedOut, StopMarks
<1>7. ASSUME NEW g \in Gen, DenyForeignConversation(g) PROVE EarlyStops'
  BY <1>7 DEF DenyForeignConversation, numVars
<1>8. ASSUME NEW g \in Gen, OwnConversation(g) PROVE EarlyStops'
  BY <1>8 DEF OwnConversation, numVars
<1>9. ASSUME NEW g \in Gen, Prepare(g) PROVE EarlyStops'
  BY <1>9 DEF Prepare, Branch, numVars
<1>10. ASSUME NEW g \in Gen, StoreQuestion(g) PROVE EarlyStops'
  BY <1>10 DEF StoreQuestion, Branch, numVars
<1>11. ASSUME NEW g \in Gen, Fail(g) PROVE EarlyStops'
  BY <1>11 DEF Fail, numVars
<1>12. ASSUME NEW g \in Gen, MediaReady(g) PROVE EarlyStops'
  BY <1>12 DEF MediaReady, numVars, Control
<1>13. ASSUME NEW g \in Gen, MediaError(g) PROVE EarlyStops'
  BY <1>13 DEF MediaError, numVars, Control
<1>14. ASSUME NEW g \in Gen, MediaSave(g) PROVE EarlyStops'
  BY <1>14 DEF MediaSave, numVars, Control
<1>15. ASSUME NEW g \in Gen, GateBlocked(g) PROVE EarlyStops'
  BY <1>15 DEF GateBlocked, numVars
<1>16. ASSUME NEW g \in Gen, GateOpen(g) PROVE EarlyStops'
  BY <1>16 DEF GateOpen, numVars
<1>17. ASSUME NEW g \in Gen, Retrieve(g) PROVE EarlyStops'
  BY <1>17 DEF Retrieve, numVars
<1>18. ASSUME NEW g \in Gen, AgentStopped(g) PROVE EarlyStops'
  BY <1>18 DEF AgentStopped, numVars
<1>19. ASSUME NEW g \in Gen, AgentAnswers(g) PROVE EarlyStops'
  BY <1>19 DEF AgentAnswers, numVars
<1>20. ASSUME NEW g \in Gen, CodingAnswers(g) PROVE EarlyStops'
  BY <1>20 DEF CodingAnswers, numVars
<1>21. ASSUME NEW g \in Gen, ToolLoopFallsThrough(g) PROVE EarlyStops'
  BY <1>21 DEF ToolLoopFallsThrough, numVars
<1>22. ASSUME NEW g \in Gen, Produce(g) PROVE EarlyStops'
  BY <1>22 DEF Produce, numVars
<1>23. ASSUME NEW g \in Gen, LlmReturns(g) PROVE EarlyStops'
  BY <1>23 DEF LlmReturns, numVars
<1>24. ASSUME NEW g \in Gen, Polish(g) PROVE EarlyStops'
  BY <1>24 DEF Polish, numVars
<1>25. ASSUME NEW g \in Gen, SaveStopped(g) PROVE EarlyStops'
  BY <1>25 DEF SaveStopped, numVars
<1>26. ASSUME NEW g \in Gen, Complete(g) PROVE EarlyStops'
  BY <1>26 DEF Complete, numVars, SavesItself
<1>27. ASSUME NEW g \in Gen, ChainHead(g) PROVE EarlyStops'
  BY <1>27 DEF ChainHead, numVars
<1>28. ASSUME NEW g \in Gen, StepReturn(g) PROVE EarlyStops'
  BY <1>28 DEF StepReturn, numVars, Control
<1>29. ASSUME NEW g \in Gen, ChainComplete(g) PROVE EarlyStops'
  BY <1>29 DEF ChainComplete, numVars
<1>30. ASSUME NEW g \in Gen, SaveAnswer(g) PROVE EarlyStops'
  BY <1>30 DEF SaveAnswer, numVars
<1>31. CASE UNCHANGED vars
  BY <1>31 DEF vars, numVars, chatVars
<1> QED BY <1>1, <1>2, <1>3, <1>4, <1>5, <1>6, <1>7, <1>8, <1>9, <1>10, <1>11, <1>12, <1>13, <1>14, <1>15, <1>16, <1>17, <1>18, <1>19, <1>20, <1>21, <1>22, <1>23, <1>24, <1>25, <1>26, <1>27, <1>28, <1>29, <1>30, <1>31
    DEF Next, SocketEvent, Task, Entry, Media, Direct, Chain

(* A generation counts as stopped only if a press hit it while it ran.     *)
THEOREM ChatStopScope == Spec => []StopScope
<1>1. Init => StopMarks
  BY DEF Init, NumInit, StopMarks, Live
<1>2. StopMarks => StopScope
  BY DEF StopMarks, StopScope
<1> QED BY <1>1, <1>2, InitInv, ChatStep, StopMarksStep, PTL DEF Spec

(* On a live socket a stop that came in time always wins, in every branch  *)
(* but media, whose handlers never look at the stop.                       *)
THEOREM ChatHonoursStop == Spec => []HonoursStop
<1>1. Init => StopMarks /\ EarlyStops
  BY DEF Init, NumInit, StopMarks, EarlyStops, Live
<1>2. ChatInv /\ EarlyStops => HonoursStop
  BY DEF ChatInv, Control, EarlyStops, HonoursStop, Answered
<1> QED BY <1>1, <1>2, InitInv, ChatStep, StopMarksStep, EarlyStopsStep, PTL DEF Spec

-----------------------------------------------------------------------------
(* The last word.  Only a chain that finds itself stopped back in its      *)
(* runner ends without an event; and a request that shows text keeps it in *)
(* hand, outside chains, until it is saved.                                *)
LastWord ==
  \A g \in Gen :
    /\ pc[g] = "saving" => terminal[g] # << >> /\ terminal[g] # <<"generation_stopped">>
    /\ pc[g] = "done" /\ terminal[g] = << >> => stopHit[g] # "no"

InHand(g) ==
  SavesItself(g) /\ shown[g] =>
    /\ pc[g] \in {"llm", "polish", "stopSave", "finish", "saving", "done"}
    /\ pc[g] \in {"polish", "stopSave"} => resp[g] # "empty"
    /\ terminal[g] = <<"generation_stopped">> => saved[g] \in {"stopped", "lost"}

ShownInHand == \A g \in Gen : InHand(g)

(* The first word of a task is the only one it has said.                   *)
LEMMA FirstWord ==
  \A e \in Event : /\ Append(<< >>, e) # << >>
                   /\ Append(<< >>, e) = <<"generation_stopped">> <=> e = "generation_stopped"
  BY DEF Event

LEMMA LastWordStep == ChatInv /\ StopMarks /\ LastWord /\ [Next]_vars => LastWord'
<1> SUFFICES ASSUME ChatInv, StopMarks, LastWord, [Next]_vars PROVE LastWord'
  OBVIOUS
<1> USE DEF ChatInv, TypeOK, Control, LastWord, Goto, Emit, Finish, Event
<1>1. ASSUME NEW s \in Sid, ChatConnect(s) PROVE LastWord'
  BY <1>1 DEF ChatConnect, chatVars
<1>2. ASSUME NEW s \in Sid, ChatDisconnect(s) PROVE LastWord'
  BY <1>2 DEF ChatDisconnect, chatVars
<1>3. ASSUME NEW s \in Sid, ChatStop(s) PROVE LastWord'
  BY <1>3 DEF ChatStop
<1>4. ASSUME NEW g \in Gen, NEW s \in Sid, ChatReceive(g, s) PROVE LastWord'
  BY <1>4 DEF ChatReceive
<1>5. ASSUME NEW g \in Gen, RejectUnauthorized(g) PROVE LastWord'
  BY <1>5, FirstWord DEF RejectUnauthorized
<1>6. ASSUME NEW g \in Gen, Authorize(g) PROVE LastWord'
  BY <1>6 DEF Authorize
<1>7. ASSUME NEW g \in Gen, DenyForeignConversation(g) PROVE LastWord'
  BY <1>7, FirstWord DEF DenyForeignConversation
<1>8. ASSUME NEW g \in Gen, OwnConversation(g) PROVE LastWord'
  BY <1>8, FirstWord DEF OwnConversation
<1>9. ASSUME NEW g \in Gen, Prepare(g) PROVE LastWord'
  BY <1>9, FirstWord DEF Prepare, Branch
<1>10. ASSUME NEW g \in Gen, StoreQuestion(g) PROVE LastWord'
  BY <1>10, FirstWord DEF StoreQuestion, Branch
<1>11. ASSUME NEW g \in Gen, Fail(g) PROVE LastWord'
  BY <1>11, FirstWord DEF Fail
<1>12. ASSUME NEW g \in Gen, MediaReady(g) PROVE LastWord'
  BY <1>12, FirstWord DEF MediaReady
<1>13. ASSUME NEW g \in Gen, MediaError(g) PROVE LastWord'
  BY <1>13, FirstWord DEF MediaError
<1>14. ASSUME NEW g \in Gen, MediaSave(g) PROVE LastWord'
  BY <1>14, FirstWord DEF MediaSave
<1>15. ASSUME NEW g \in Gen, GateBlocked(g) PROVE LastWord'
  BY <1>15, FirstWord DEF GateBlocked
<1>16. ASSUME NEW g \in Gen, GateOpen(g) PROVE LastWord'
  BY <1>16, FirstWord DEF GateOpen
<1>17. ASSUME NEW g \in Gen, Retrieve(g) PROVE LastWord'
  <2>1. PICK l \in {"agent", "coding", "llm", "polish"} : pc' = [pc EXCEPT ![g] = l]
    BY <1>17 DEF Retrieve
  <2> QED BY <1>17, <2>1 DEF Retrieve
<1>18. ASSUME NEW g \in Gen, AgentStopped(g) PROVE LastWord'
  BY <1>18, FirstWord DEF AgentStopped
<1>19. ASSUME NEW g \in Gen, AgentAnswers(g) PROVE LastWord'
  BY <1>19, FirstWord DEF AgentAnswers
<1>20. ASSUME NEW g \in Gen, CodingAnswers(g) PROVE LastWord'
  BY <1>20, FirstWord DEF CodingAnswers
<1>21. ASSUME NEW g \in Gen, ToolLoopFallsThrough(g) PROVE LastWord'
  BY <1>21, FirstWord DEF ToolLoopFallsThrough
<1>22. ASSUME NEW g \in Gen, Produce(g) PROVE LastWord'
  BY <1>22, FirstWord DEF Produce
<1>23. ASSUME NEW g \in Gen, LlmReturns(g) PROVE LastWord'
  BY <1>23, FirstWord DEF LlmReturns
<1>24. ASSUME NEW g \in Gen, Polish(g) PROVE LastWord'
  BY <1>24, FirstWord DEF Polish
<1>25. ASSUME NEW g \in Gen, SaveStopped(g) PROVE LastWord'
  BY <1>25, FirstWord DEF SaveStopped
<1>26. ASSUME NEW g \in Gen, Complete(g) PROVE LastWord'
  <2>1. CASE SavesItself(g)
    <3>1. /\ pc[g] = "finish" /\ pc' = [pc EXCEPT ![g] = "saving"]
          /\ terminal' = [terminal EXCEPT ![g] = Append(@, "chat_complete")]
          /\ UNCHANGED <<mode, shown, resp, saved, stopHit>>
      BY <1>26, <2>1 DEF Complete
    <3>2. terminal'[g] = Append(<< >>, "chat_complete")
      BY <3>1
    <3>3. \A h \in Gen : h # g => pc'[h] = pc[h] /\ terminal'[h] = terminal[h]
      BY <3>1
    <3> QED BY <3>1, <3>2, <3>3, FirstWord
  <2>2. CASE ~SavesItself(g)
    BY <1>26, <2>2 DEF Complete
  <2> QED BY <2>1, <2>2
<1>27. ASSUME NEW g \in Gen, ChainHead(g) PROVE LastWord'
  <2>1. CASE Stopped(g)
    <3>1. /\ pc[g] = "chainHead" /\ pc' = [pc EXCEPT ![g] = "done"]
          /\ terminal' = [terminal EXCEPT ![g] = Append(@, "generation_stopped")]
          /\ UNCHANGED stopHit
      BY <1>27, <2>1 DEF ChainHead
    <3>2. terminal'[g] = Append(<< >>, "generation_stopped")
      BY <3>1
    <3> QED BY <3>1, <3>2, FirstWord
  <2>2. CASE ~Stopped(g)
    BY <1>27, <2>2 DEF ChainHead
  <2> QED BY <2>1, <2>2
<1>28. ASSUME NEW g \in Gen, StepReturn(g) PROVE LastWord'
  <2>1. CASE Stopped(g)
    <3>1. stopHit[g] # "no"
      <4>1. Live(g)
        BY <1>28, <2>1 DEF StepReturn, Live, Stopped
      <4> QED BY <4>1, <2>1 DEF StopMarks
    <3> QED BY <1>28, <2>1, <3>1 DEF StepReturn
  <2>2. CASE ~Stopped(g)
    <3>1. PICK l \in {"gate", "chainFlush"} : pc' = [pc EXCEPT ![g] = l]
      BY <1>28, <2>2 DEF StepReturn
    <3>2. UNCHANGED <<terminal, stopHit>>
      BY <1>28 DEF StepReturn
    <3> QED BY <3>1, <3>2
  <2> QED BY <2>1, <2>2
<1>29. ASSUME NEW g \in Gen, ChainComplete(g) PROVE LastWord'
  BY <1>29, FirstWord DEF ChainComplete
<1>30. ASSUME NEW g \in Gen, SaveAnswer(g) PROVE LastWord'
  BY <1>30, FirstWord DEF SaveAnswer
<1>31. CASE UNCHANGED vars
  BY <1>31 DEF vars, chatVars
<1> QED BY <1>1, <1>2, <1>3, <1>4, <1>5, <1>6, <1>7, <1>8, <1>9, <1>10, <1>11, <1>12, <1>13, <1>14, <1>15, <1>16, <1>17, <1>18, <1>19, <1>20, <1>21, <1>22, <1>23, <1>24, <1>25, <1>26, <1>27, <1>28, <1>29, <1>30, <1>31
    DEF Next, SocketEvent, Task, Entry, Media, Direct, Chain

(* The end announced by g is not that of a stop, and nobody else moves.    *)
LEMMA EndSaid ==
  ASSUME NEW g \in Gen, pc \in [Gen -> PC], terminal \in [Gen -> Seq(Event)],
         terminal[g] = << >>, NEW l, pc' = [pc EXCEPT ![g] = l],
         NEW e \in {"chat_complete", "chat_error"},
         terminal' = [terminal EXCEPT ![g] = Append(@, e)]
  PROVE  /\ pc'[g] = l /\ terminal'[g] # <<"generation_stopped">>
         /\ \A h \in Gen : h # g => pc'[h] = pc[h] /\ terminal'[h] = terminal[h]
<1>1. pc'[g] = l /\ terminal'[g] = Append(<< >>, e)
  OBVIOUS
<1>2. e \in Event /\ e # "generation_stopped"
  BY DEF Event
<1>3. \A h \in Gen : h # g => pc'[h] = pc[h] /\ terminal'[h] = terminal[h]
  OBVIOUS
<1> QED BY <1>1, <1>2, <1>3, FirstWord

LEMMA ShownInHandStep == ChatInv /\ ShownInHand /\ LastWord /\ [Next]_vars => ShownInHand'
<1> SUFFICES ASSUME ChatInv, ShownInHand, LastWord, [Next]_vars PROVE ShownInHand'
  OBVIOUS
<1> USE DEF ChatInv, TypeOK, Control, ShownInHand, InHand, LastWord, SavesItself, Goto, Emit, Finish, Event
<1>1. ASSUME NEW s \in Sid, ChatConnect(s) PROVE ShownInHand'
  BY <1>1 DEF ChatConnect, chatVars
<1>2. ASSUME NEW s \in Sid, ChatDisconnect(s) PROVE ShownInHand'
  BY <1>2 DEF ChatDisconnect, chatVars
<1>3. ASSUME NEW s \in Sid, ChatStop(s) PROVE ShownInHand'
  BY <1>3 DEF ChatStop
<1>4. ASSUME NEW g \in Gen, NEW s \in Sid, ChatReceive(g, s) PROVE ShownInHand'
  BY <1>4, NoSidAssumption DEF ChatReceive, Receive, NumTypeOK
<1>5. ASSUME NEW g \in Gen, RejectUnauthorized(g) PROVE ShownInHand'
  <2>1. /\ pc[g] = "auth" /\ pc' = [pc EXCEPT ![g] = "done"]
        /\ terminal' = [terminal EXCEPT ![g] = Append(@, "chat_error")]
        /\ UNCHANGED <<mode, shown, resp, saved>>
    BY <1>5 DEF RejectUnauthorized
  <2> QED BY <2>1, FirstWord
<1>6. ASSUME NEW g \in Gen, Authorize(g) PROVE ShownInHand'
  BY <1>6 DEF Authorize
<1>7. ASSUME NEW g \in Gen, DenyForeignConversation(g) PROVE ShownInHand'
  BY <1>7, FirstWord DEF DenyForeignConversation
<1>8. ASSUME NEW g \in Gen, OwnConversation(g) PROVE ShownInHand'
  BY <1>8, FirstWord DEF OwnConversation
<1>9. ASSUME NEW g \in Gen, Prepare(g) PROVE ShownInHand'
  BY <1>9, FirstWord DEF Prepare, Branch
<1>10. ASSUME NEW g \in Gen, StoreQuestion(g) PROVE ShownInHand'
  BY <1>10, FirstWord DEF StoreQuestion, Branch
<1>11. ASSUME NEW g \in Gen, Fail(g) PROVE ShownInHand'
  <2>1. /\ pc[g] \notin {"idle", "saving", "done"} /\ pc' = [pc EXCEPT ![g] = "done"]
        /\ terminal' = [terminal EXCEPT ![g] = Append(@, "chat_error")]
        /\ UNCHANGED <<mode, shown, resp, saved>>
    BY <1>11 DEF Fail
  <2>2. /\ terminal'[g] # <<"generation_stopped">> /\ pc'[g] = "done"
        /\ \A h \in Gen : h # g => pc'[h] = pc[h] /\ terminal'[h] = terminal[h]
    <3>1. pc \in [Gen -> PC] /\ terminal \in [Gen -> Seq(Event)] /\ terminal[g] = << >>
      BY <2>1
    <3> QED BY <2>1, <3>1, EndSaid
  <2>5. pc[g] \notin {"idle", "saving", "done"} /\ UNCHANGED <<mode, shown, resp, saved>>
    BY <2>1
  <2>6. ASSUME NEW x \in Gen, x # g PROVE InHand(x)'
    <3>1. pc'[x] = pc[x] /\ terminal'[x] = terminal[x]
      BY <2>6, <2>2
    <3> QED BY <2>5, <3>1
  <2>7. InHand(g)'
    BY <2>5, <2>2
  <2> QED BY <2>6, <2>7
<1>12. ASSUME NEW g \in Gen, MediaReady(g) PROVE ShownInHand'
  BY <1>12, FirstWord DEF MediaReady
<1>13. ASSUME NEW g \in Gen, MediaError(g) PROVE ShownInHand'
  <2>1. /\ pc[g] = "media" /\ pc' = [pc EXCEPT ![g] = "saving"]
        /\ terminal' = [terminal EXCEPT ![g] = Append(@, "chat_complete")]
        /\ UNCHANGED <<mode, shown, resp, saved>>
    BY <1>13 DEF MediaError
  <2>2. /\ terminal'[g] # <<"generation_stopped">> /\ pc'[g] = "saving"
        /\ \A h \in Gen : h # g => pc'[h] = pc[h] /\ terminal'[h] = terminal[h]
    <3>1. pc \in [Gen -> PC] /\ terminal \in [Gen -> Seq(Event)] /\ terminal[g] = << >>
      BY <2>1
    <3> QED BY <2>1, <3>1, EndSaid
  <2>5. pc[g] = "media" /\ UNCHANGED <<mode, shown, resp, saved>>
    BY <2>1
  <2>6. ASSUME NEW x \in Gen, x # g PROVE InHand(x)'
    <3>1. pc'[x] = pc[x] /\ terminal'[x] = terminal[x]
      BY <2>6, <2>2
    <3> QED BY <2>5, <3>1
  <2>7. InHand(g)'
    BY <2>5, <2>2
  <2> QED BY <2>6, <2>7
<1>14. ASSUME NEW g \in Gen, MediaSave(g) PROVE ShownInHand'
  <2>1. /\ pc[g] = "mediaSave" /\ pc' = [pc EXCEPT ![g] = "done"]
        /\ terminal' = [terminal EXCEPT ![g] = Append(@, "chat_complete")]
        /\ UNCHANGED <<mode, shown, resp>>
    BY <1>14 DEF MediaSave
  <2>2. \A h \in Gen : h # g => saved'[h] = saved[h]
    BY <1>14 DEF MediaSave
  <2>3. /\ terminal'[g] # <<"generation_stopped">> /\ pc'[g] = "done"
        /\ \A h \in Gen : h # g => pc'[h] = pc[h] /\ terminal'[h] = terminal[h]
    <3>1. pc \in [Gen -> PC] /\ terminal \in [Gen -> Seq(Event)] /\ terminal[g] = << >>
      BY <2>1
    <3> QED BY <2>1, <3>1, EndSaid
  <2>5. pc[g] = "mediaSave" /\ UNCHANGED <<mode, shown, resp>>
    BY <2>1
  <2>6. ASSUME NEW x \in Gen, x # g PROVE InHand(x)'
    <3>1. pc'[x] = pc[x] /\ terminal'[x] = terminal[x] /\ saved'[x] = saved[x]
      BY <2>6, <2>2, <2>3
    <3> QED BY <2>5, <3>1
  <2>7. InHand(g)'
    BY <2>5, <2>3
  <2> QED BY <2>6, <2>7
<1>15. ASSUME NEW g \in Gen, GateBlocked(g) PROVE ShownInHand'
  BY <1>15, FirstWord DEF GateBlocked
<1>16. ASSUME NEW g \in Gen, GateOpen(g) PROVE ShownInHand'
  BY <1>16, FirstWord DEF GateOpen
<1>17. ASSUME NEW g \in Gen, Retrieve(g) PROVE ShownInHand'
  <2>1. PICK l \in {"agent", "coding", "llm", "polish"} : pc' = [pc EXCEPT ![g] = l]
    BY <1>17 DEF Retrieve
  <2>2. \A h \in Gen : h # g => resp'[h] = resp[h]
    BY <1>17 DEF Retrieve
  <2>3. pc[g] = "retrieve" /\ UNCHANGED <<mode, shown, terminal, saved>>
    BY <1>17 DEF Retrieve
  <2> QED BY <2>1, <2>2, <2>3
<1>18. ASSUME NEW g \in Gen, AgentStopped(g) PROVE ShownInHand'
  BY <1>18, FirstWord DEF AgentStopped
<1>19. ASSUME NEW g \in Gen, AgentAnswers(g) PROVE ShownInHand'
  BY <1>19, FirstWord DEF AgentAnswers
<1>20. ASSUME NEW g \in Gen, CodingAnswers(g) PROVE ShownInHand'
  BY <1>20, FirstWord DEF CodingAnswers
<1>21. ASSUME NEW g \in Gen, ToolLoopFallsThrough(g) PROVE ShownInHand'
  BY <1>21, FirstWord DEF ToolLoopFallsThrough
<1>22. ASSUME NEW g \in Gen, Produce(g) PROVE ShownInHand'
  BY <1>22, FirstWord DEF Produce
<1>23. ASSUME NEW g \in Gen, LlmReturns(g) PROVE ShownInHand'
  BY <1>23, FirstWord DEF LlmReturns
<1>24. ASSUME NEW g \in Gen, Polish(g) PROVE ShownInHand'
  BY <1>24, FirstWord DEF Polish
<1>25. ASSUME NEW g \in Gen, SaveStopped(g) PROVE ShownInHand'
  <2>1. /\ pc[g] = "stopSave" /\ pc' = [pc EXCEPT ![g] = "done"]
        /\ terminal' = [terminal EXCEPT ![g] = Append(@, "generation_stopped")]
        /\ UNCHANGED <<mode, shown, resp>>
    BY <1>25 DEF SaveStopped
  <2>2. \A h \in Gen : h # g => saved'[h] = saved[h]
    BY <1>25 DEF SaveStopped
  <2>3. SavesItself(g) /\ resp[g] # "empty" => saved'[g] \in {"stopped", "lost"}
    BY <1>25 DEF SaveStopped
  <2>4. terminal'[g] = Append(<< >>, "generation_stopped") /\ pc'[g] = "done"
    BY <2>1
  <2>5. \A h \in Gen : h # g => pc'[h] = pc[h] /\ terminal'[h] = terminal[h]
    BY <2>1
  <2> QED BY <2>1, <2>2, <2>3, <2>4, <2>5, FirstWord
<1>26. ASSUME NEW g \in Gen, Complete(g) PROVE ShownInHand'
  <2>1. CASE SavesItself(g)
    <3>1. /\ pc[g] = "finish" /\ pc' = [pc EXCEPT ![g] = "saving"]
          /\ terminal' = [terminal EXCEPT ![g] = Append(@, "chat_complete")]
          /\ UNCHANGED <<mode, shown, resp, saved, stopHit>>
      BY <1>26, <2>1 DEF Complete
    <3>2. terminal'[g] # <<"generation_stopped">>
      <4>1. terminal'[g] = Append(<< >>, "chat_complete")
        BY <3>1
      <4> QED BY <4>1, FirstWord
    <3>3. \A h \in Gen : h # g => pc'[h] = pc[h] /\ terminal'[h] = terminal[h]
      BY <3>1
    <3>5. pc[g] = "finish" /\ UNCHANGED <<mode, shown, resp, saved, stopHit>>
      BY <3>1
    <3>6. ASSUME NEW x \in Gen, x # g PROVE InHand(x)'
      BY <3>5, <3>6, <3>3
    <3>7. InHand(g)'
      <4>1. pc'[g] = "saving"
        BY <3>1
      <4> QED BY <3>5, <3>2, <4>1
    <3> QED BY <3>6, <3>7
  <2>2. CASE ~SavesItself(g)
    BY <1>26, <2>2 DEF Complete
  <2> QED BY <2>1, <2>2
<1>27. ASSUME NEW g \in Gen, ChainHead(g) PROVE ShownInHand'
  <2>1. mode[g] = "chain" /\ UNCHANGED <<mode, shown, resp, saved>>
    BY <1>27 DEF ChainHead
  <2>2. \A h \in Gen : h # g => pc'[h] = pc[h] /\ terminal'[h] = terminal[h]
    BY <1>27 DEF ChainHead
  <2> QED BY <2>1, <2>2
<1>28. ASSUME NEW g \in Gen, StepReturn(g) PROVE ShownInHand'
  BY <1>28, FirstWord DEF StepReturn
<1>29. ASSUME NEW g \in Gen, ChainComplete(g) PROVE ShownInHand'
  <2>1. mode[g] = "chain" /\ UNCHANGED <<mode, shown, resp, saved>>
    BY <1>29 DEF ChainComplete
  <2>2. \A h \in Gen : h # g => pc'[h] = pc[h] /\ terminal'[h] = terminal[h]
    BY <1>29 DEF ChainComplete
  <2> QED BY <2>1, <2>2
<1>30. ASSUME NEW g \in Gen, SaveAnswer(g) PROVE ShownInHand'
  <2>1. /\ pc[g] = "saving" /\ pc' = [pc EXCEPT ![g] = "done"]
        /\ UNCHANGED <<mode, shown, resp, terminal>>
    BY <1>30 DEF SaveAnswer
  <2>2. \A x \in Gen : x # g => saved'[x] = saved[x]
    BY <1>30 DEF SaveAnswer
  <2>3. ASSUME NEW x \in Gen, x # g PROVE InHand(x)'
    <3>1. pc'[x] = pc[x] /\ saved'[x] = saved[x]
      BY <2>1, <2>2, <2>3
    <3> QED BY <2>1, <3>1
  <2>4. InHand(g)'
    BY <2>1
  <2> QED BY <2>3, <2>4
<1>31. CASE UNCHANGED vars
  BY <1>31 DEF vars, chatVars
<1> QED BY <1>1, <1>2, <1>3, <1>4, <1>5, <1>6, <1>7, <1>8, <1>9, <1>10, <1>11, <1>12, <1>13, <1>14, <1>15, <1>16, <1>17, <1>18, <1>19, <1>20, <1>21, <1>22, <1>23, <1>24, <1>25, <1>26, <1>27, <1>28, <1>29, <1>30, <1>31
    DEF Next, SocketEvent, Task, Entry, Media, Direct, Chain

(* A request that ends without an event of its own was stopped: nobody is  *)
(* left waiting for an answer nothing announces.                           *)
THEOREM ChatNeverSilent == Spec => []NeverSilent
<1>1. Init => StopMarks /\ LastWord
  BY DEF Init, NumInit, StopMarks, LastWord, Live
<1>2. LastWord => NeverSilent
  BY DEF LastWord, NeverSilent
<1> QED BY <1>1, <1>2, InitInv, ChatStep, StopMarksStep, LastWordStep, PTL DEF Spec

(* Outside chains, a stopped request that showed text has tried to save it.*)
THEOREM ChatStopKeepsShownText == Spec => []StopKeepsShownText
<1>1. Init => StopMarks /\ LastWord /\ ShownInHand
  BY DEF Init, NumInit, StopMarks, LastWord, ShownInHand, InHand, Live
<1>2. ShownInHand => StopKeepsShownText
  BY DEF ShownInHand, InHand, StopKeepsShownText
<1> QED BY <1>1, <1>2, InitInv, ChatStep, StopMarksStep, LastWordStep, ShownInHandStep, PTL DEF Spec
-----------------------------------------------------------------------------
(* Several models.  What the steps that MultiLlm shares with the other     *)
(* branches do to one of its requests: they bring it to its branch, or end *)
(* it on the way with a word.                                              *)
Before == {"idle", "auth", "owner", "prepare", "store"}
OwnStages == {"multi", "models", "multiSave"}

Moves(g) ==
  /\ mode'[g] = mode[g]
  /\ stopHit[g] # "no" => stopHit'[g] # "no"
  /\ \/ UNCHANGED <<pc[g], terminal[g]>>
     \/ /\ pc[g] \notin OwnStages \cup {"done"}
        /\ pc'[g] \notin {"models", "multiSave"}
        /\ mode[g] # "multi" => pc'[g] # "multi"
        /\ mode[g] = "multi" => (\/ pc'[g] \in Before \cup {"multi"}
                                \/ (pc'[g] = "done" /\ terminal'[g] # << >>))

(* A request for several models is in none of the other branches.          *)
OwnBranch ==
  \A g \in Gen :
    /\ pc[g] \in OwnStages => mode[g] = "multi"
    /\ mode[g] = "multi" => pc[g] \in Before \cup OwnStages \cup {"done"}

LEMMA EmitSpeaks ==
  ASSUME TypeOK, NEW g \in Gen, NEW e \in Event, Emit(g, e)
  PROVE  terminal'[g] # << >>
<1>1. terminal[g] \in Seq(Event) /\ terminal'[g] = Append(terminal[g], e)
  BY DEF TypeOK, Emit
<1> QED BY <1>1

LEMMA MovesStep == ChatInv /\ OwnBranch /\ [Next]_vars => \A g \in Gen : Moves(g)
<1> DEFINE AllMove == \A h \in Gen : Moves(h)
<1> SUFFICES ASSUME ChatInv, OwnBranch, [Next]_vars PROVE AllMove
  OBVIOUS
<1> USE DEF ChatInv, TypeOK, Moves, OwnBranch, Before, OwnStages, Goto, Emit, Finish
<1>1. ASSUME NEW s \in Sid, ChatConnect(s) PROVE AllMove
  BY <1>1 DEF ChatConnect, Connect, chatVars
<1>2. ASSUME NEW s \in Sid, ChatDisconnect(s) PROVE AllMove
  BY <1>2 DEF ChatDisconnect, Disconnect, chatVars
<1>3. ASSUME NEW s \in Sid, ChatStop(s) PROVE AllMove
  BY <1>3 DEF ChatStop, StopGeneration
<1>4. ASSUME NEW g \in Gen, NEW s \in Sid, ChatReceive(g, s) PROVE AllMove
  BY <1>4 DEF ChatReceive, Receive, Control, Event
<1>5. ASSUME NEW g \in Gen, RejectUnauthorized(g) PROVE AllMove
  BY <1>5 DEF RejectUnauthorized, Control, Event
<1>6. ASSUME NEW g \in Gen, Authorize(g) PROVE AllMove
  BY <1>6 DEF Authorize
<1>7. ASSUME NEW g \in Gen, DenyForeignConversation(g) PROVE AllMove
  <2>1. terminal'[g] # << >>
    BY <1>7, EmitSpeaks DEF DenyForeignConversation, Event
  <2> QED BY <1>7, <2>1 DEF DenyForeignConversation
<1>8. ASSUME NEW g \in Gen, OwnConversation(g) PROVE AllMove
  BY <1>8 DEF OwnConversation
<1>9. ASSUME NEW g \in Gen, Prepare(g) PROVE AllMove
  BY <1>9 DEF Prepare, Branch
<1>10. ASSUME NEW g \in Gen, StoreQuestion(g) PROVE AllMove
  BY <1>10 DEF StoreQuestion, Branch
<1>11. ASSUME NEW g \in Gen, Fail(g) PROVE AllMove
  BY <1>11 DEF Fail, Control, Event
<1>12. ASSUME NEW g \in Gen, MediaReady(g) PROVE AllMove
  BY <1>12 DEF MediaReady
<1>13. ASSUME NEW g \in Gen, MediaError(g) PROVE AllMove
  BY <1>13 DEF MediaError
<1>14. ASSUME NEW g \in Gen, MediaSave(g) PROVE AllMove
  BY <1>14 DEF MediaSave
<1>15. ASSUME NEW g \in Gen, GateBlocked(g) PROVE AllMove
  BY <1>15 DEF GateBlocked
<1>16. ASSUME NEW g \in Gen, GateOpen(g) PROVE AllMove
  BY <1>16 DEF GateOpen
<1>17. ASSUME NEW g \in Gen, Retrieve(g) PROVE AllMove
  BY <1>17 DEF Retrieve
<1>18. ASSUME NEW g \in Gen, AgentStopped(g) PROVE AllMove
  BY <1>18 DEF AgentStopped
<1>19. ASSUME NEW g \in Gen, AgentAnswers(g) PROVE AllMove
  BY <1>19 DEF AgentAnswers
<1>20. ASSUME NEW g \in Gen, CodingAnswers(g) PROVE AllMove
  BY <1>20 DEF CodingAnswers
<1>21. ASSUME NEW g \in Gen, ToolLoopFallsThrough(g) PROVE AllMove
  BY <1>21 DEF ToolLoopFallsThrough
<1>22. ASSUME NEW g \in Gen, Produce(g) PROVE AllMove
  BY <1>22 DEF Produce
<1>23. ASSUME NEW g \in Gen, LlmReturns(g) PROVE AllMove
  BY <1>23 DEF LlmReturns
<1>24. ASSUME NEW g \in Gen, Polish(g) PROVE AllMove
  BY <1>24 DEF Polish
<1>25. ASSUME NEW g \in Gen, SaveStopped(g) PROVE AllMove
  BY <1>25 DEF SaveStopped, SavesItself
<1>26. ASSUME NEW g \in Gen, Complete(g) PROVE AllMove
  BY <1>26 DEF Complete, SavesItself
<1>27. ASSUME NEW g \in Gen, ChainHead(g) PROVE AllMove
  BY <1>27 DEF ChainHead
<1>28. ASSUME NEW g \in Gen, StepReturn(g) PROVE AllMove
  BY <1>28 DEF StepReturn
<1>29. ASSUME NEW g \in Gen, ChainComplete(g) PROVE AllMove
  BY <1>29 DEF ChainComplete
<1>30. ASSUME NEW g \in Gen, SaveAnswer(g) PROVE AllMove
  BY <1>30 DEF SaveAnswer
<1>31. CASE UNCHANGED vars
  BY <1>31 DEF vars, numVars, chatVars
<1> QED BY <1>1, <1>2, <1>3, <1>4, <1>5, <1>6, <1>7, <1>8, <1>9, <1>10, <1>11, <1>12, <1>13, <1>14, <1>15, <1>16, <1>17, <1>18, <1>19, <1>20, <1>21, <1>22, <1>23, <1>24, <1>25, <1>26, <1>27, <1>28, <1>29, <1>30, <1>31
    DEF Next, SocketEvent, Task, Entry, Media, Direct, Chain
(* What the interface and the history know of the models of a request, at  *)
(* each of its stages: nothing; one end for each model that has returned;  *)
(* one common text or one end for each; and what was stored is what was    *)
(* told.  Only a stop leaves a model untold.                               *)
Untouched(g) ==
  \A m \in Model : /\ at[g][m] = "off" /\ res[g][m] = "none"
                   /\ told[g][m] = << >> /\ kept[g][m] = "none"

Told(g, m) == told[g][m] = <<res[g][m]>> \/ (told[g][m] = << >> /\ stopHit[g] # "no")

Working(g, m) ==
  /\ at[g][m] # "off" /\ kept[g][m] = "none"
  /\ at[g][m] # "back" => (res[g][m] = "none" /\ told[g][m] = << >>)
  /\ at[g][m] = "back" => res[g][m] # "none"
  /\ res[g][m] = "null" => told[g][m] = << >>
  /\ res[g][m] \in {"answer", "error"} => Told(g, m)

Common(g) ==
  \E k \in {"wait", "canned"} : \A m \in Model : res[g][m] = "none" /\ told[g][m] = <<k>>

Returned(g) ==
  \A m \in Model : /\ res[g][m] # "none"
                   /\ res[g][m] = "null" => told[g][m] = <<"error">>
                   /\ res[g][m] # "null" => Told(g, m)

Ended(g) ==
  IF terminal[g] # << >> THEN Untouched(g)
  ELSE \A m \in Model :
         /\ Len(told[g][m]) <= 1
         /\ told[g][m] # << >> \/ stopHit[g] # "no"
         /\ kept[g][m] # "none" /\ told[g][m] # << >> => told[g][m] = <<kept[g][m]>>

Row(g) ==
  /\ (mode[g] # "multi" \/ pc[g] \notin {"models", "multiSave", "done"}) => Untouched(g)
  /\ pc[g] = "models" => \A m \in Model : Working(g, m)
  /\ pc[g] = "multiSave" => ((\A m \in Model : kept[g][m] = "none") /\ (Common(g) \/ Returned(g)))
  /\ (pc[g] = "done" /\ mode[g] = "multi") => Ended(g)

MultiInv ==
  /\ ChatInv /\ StopMarks /\ MultiTypeOK /\ OwnBranch
  /\ \A g \in Gen : Row(g)

Brief(q) == q = << >> \/ \E k : q = <<k>>

LEMMA BriefLen == ASSUME NEW q, Brief(q) PROVE Len(q) <= 1
<1>1. CASE q = << >>
  BY <1>1
<1>2. CASE \E k : q = <<k>>
  <2>1. PICK k : q = <<k>>
    BY <1>2
  <2> QED BY <2>1
<1> QED BY <1>1, <1>2 DEF Brief

LEMMA MultiInitInv == MultiInit => MultiInv
<1> SUFFICES ASSUME MultiInit PROVE MultiInv
  OBVIOUS
<1>1. ChatInv /\ StopMarks
  BY InitInv DEF MultiInit, Init, NumInit, StopMarks, Live
<1>2. MultiTypeOK
  <2>1. at = Each("off") /\ res = Each("none") /\ told = Each(<< >>) /\ kept = Each("none")
    BY DEF MultiInit
  <2>2. << >> \in Seq(Kind)
    OBVIOUS
  <2> QED BY <1>1, <2>1, <2>2 DEF MultiTypeOK, Each, ChatInv
<1>3. OwnBranch /\ \A g \in Gen : Row(g)
  BY DEF MultiInit, Init, OwnBranch, OwnStages, Before, Row, Untouched, Each
<1> QED BY <1>1, <1>2, <1>3 DEF MultiInv

(* What happens to others leaves the models of a request alone.            *)
LEMMA SameRow ==
  ASSUME NEW g \in Gen, Row(g),
         UNCHANGED <<mode[g], pc[g], terminal[g], at[g], res[g], told[g], kept[g]>>,
         stopHit[g] # "no" => stopHit'[g] # "no"
  PROVE  Row(g)'
<1>1. Untouched(g) => Untouched(g)'
  BY DEF Untouched
<1>2. \A m \in Model : Told(g, m) => Told(g, m)'
  BY DEF Told
<1>3. \A m \in Model : Working(g, m) => Working(g, m)'
  BY <1>2 DEF Working
<1>4. (Common(g) => Common(g)') /\ (Returned(g) => Returned(g)')
  BY <1>2 DEF Common, Returned
<1>5. Ended(g) => Ended(g)'
  BY <1>1 DEF Ended
<1> QED BY <1>1, <1>3, <1>4, <1>5 DEF Row

(* The steps that are shared with the other branches.                      *)
LEMMA SharedStep ==
  ASSUME MultiInv, [Next]_vars, UNCHANGED multiVars
  PROVE  MultiInv'
<1>1. ChatInv' /\ StopMarks'
  BY ChatStep, StopMarksStep DEF MultiInv
<1>2. \A g \in Gen : Moves(g)
  BY MovesStep DEF MultiInv
<1>3. MultiTypeOK'
  BY <1>1 DEF MultiInv, MultiTypeOK, multiVars, ChatInv
<1>4. OwnBranch'
  BY <1>2 DEF MultiInv, OwnBranch, Moves, OwnStages, Before
<1>5. ASSUME NEW g \in Gen PROVE Row(g)'
  <2>1. Row(g) /\ Moves(g) /\ UNCHANGED <<at[g], res[g], told[g], kept[g]>>
    BY <1>2 DEF MultiInv, multiVars
  <2>2. CASE UNCHANGED <<pc[g], terminal[g]>>
    BY <2>1, <2>2, SameRow DEF Moves
  <2>3. CASE ~UNCHANGED <<pc[g], terminal[g]>>
    <3>1. Untouched(g)'
      BY <2>1, <2>3 DEF Moves, Row, Untouched, OwnStages
    <3> QED BY <2>1, <2>3, <3>1 DEF Moves, Row, Ended, OwnStages, Before
  <2> QED BY <2>2, <2>3
<1> QED BY <1>1, <1>3, <1>4, <1>5 DEF MultiInv
(* A step of one request's own branch.                                     *)
LEMMA TypeOfTold ==
  ASSUME MultiTypeOK, NEW g \in Gen, NEW m \in Model, NEW k \in Kind,
         told' = [told EXCEPT ![g][m] = Append(@, k)]
  PROVE  /\ told' \in [Gen -> [Model -> Seq(Kind)]]
         /\ \A h \in Gen : h # g => told'[h] = told[h]
         /\ \A n \in Model : told'[g][n] = IF n = m THEN Append(told[g][m], k) ELSE told[g][n]
<1>1. told \in [Gen -> [Model -> Seq(Kind)]]
  BY DEF MultiTypeOK
<1>2. Append(told[g][m], k) \in Seq(Kind)
  BY <1>1
<1> QED BY <1>1, <1>2

LEMMA TypeOfTable ==
  ASSUME NEW S, NEW f \in [Gen -> [Model -> S]], NEW f1, NEW g \in Gen, NEW m \in Model, NEW x \in S,
         f1 = [f EXCEPT ![g][m] = x]
  PROVE  /\ f1 \in [Gen -> [Model -> S]]
         /\ \A h \in Gen : h # g => f1[h] = f[h]
         /\ \A n \in Model : f1[g][n] = IF n = m THEN x ELSE f[g][n]
  OBVIOUS

(* The fields that a step of a single model leaves alone.                  *)
LEMMA ModelStep ==
  ASSUME MultiInv, NEW g \in Gen, NEW m \in Model, pc[g] = "models",
         UNCHANGED <<vars, kept>>, MultiTypeOK',
         \A h \in Gen : h # g => UNCHANGED <<at[h], res[h], told[h]>>,
         \A n \in Model : n # m => UNCHANGED <<at[g][n], res[g][n], told[g][n]>>,
         Working(g, m)'
  PROVE  MultiInv'
<1>1. ChatInv' /\ StopMarks'
  BY ChatStep, StopMarksStep DEF MultiInv
<1>2. OwnBranch'
  BY DEF MultiInv, OwnBranch, vars, chatVars
<1>3. ASSUME NEW h \in Gen, h # g PROVE Row(h)'
  <2>1. UNCHANGED <<mode[h], pc[h], terminal[h], at[h], res[h], told[h], kept[h], stopHit[h]>>
    BY <1>3 DEF vars, chatVars
  <2> QED BY <2>1, SameRow DEF MultiInv
<1>4. Row(g)'
  <2>1. ASSUME NEW n \in Model PROVE Working(g, n)'
    <3>1. CASE n = m
      BY <3>1
    <3>2. CASE n # m
      <4>1. Working(g, n)
        BY DEF MultiInv, Row
      <4>2. UNCHANGED <<at[g][n], res[g][n], told[g][n], kept[g][n], stopHit[g]>>
        BY <3>2 DEF vars, chatVars
      <4> QED BY <4>1, <4>2 DEF Working, Told
    <3> QED BY <3>1, <3>2
  <2>2. pc'[g] = "models" /\ mode'[g] = "multi"
    BY DEF MultiInv, OwnBranch, OwnStages, vars, chatVars
  <2> QED BY <2>1, <2>2 DEF Row
<1> QED BY <1>1, <1>2, <1>3, <1>4 DEF MultiInv

LEMMA McpReturnsStep ==
  ASSUME MultiInv, NEW g \in Gen, NEW m \in Model, McpReturns(g, m)
  PROVE  MultiInv'
<1>1. at[g][m] = "mcp" /\ pc[g] = "models" /\ UNCHANGED <<vars, told, kept>>
  BY DEF McpReturns, InModels
<1>2. res[g][m] = "none" /\ told[g][m] = << >> /\ kept[g][m] = "none"
  BY <1>1 DEF MultiInv, Row, Working
<1>3. PICK l \in {"mcpGround", "llm", "back"} :
        /\ at' = [at EXCEPT ![g][m] = l]
        /\ l = "back" => res' = [res EXCEPT ![g][m] = "null"]
        /\ l # "back" => UNCHANGED res
  BY DEF McpReturns, Await
<1>4. /\ at' \in [Gen -> [Model -> {"off", "mcp", "mcpGround", "llm", "ground", "back"}]]
      /\ \A h \in Gen : h # g => at'[h] = at[h]
      /\ \A n \in Model : at'[g][n] = IF n = m THEN l ELSE at[g][n]
  BY <1>3, TypeOfTable DEF MultiInv, MultiTypeOK
<1>5. /\ res' \in [Gen -> [Model -> {"none", "null", "answer", "error"}]]
      /\ \A h \in Gen : h # g => res'[h] = res[h]
      /\ \A n \in Model : n # m => res'[g][n] = res[g][n]
      /\ res'[g][m] = IF l = "back" THEN "null" ELSE "none"
  <2>1. CASE l = "back"
    <3>1. res \in [Gen -> [Model -> {"none", "null", "answer", "error"}]]
      BY DEF MultiInv, MultiTypeOK
    <3>2. res' = [res EXCEPT ![g][m] = "null"]
      BY <1>3, <2>1
    <3> QED BY <2>1, <3>1, <3>2
  <2>2. CASE l # "back"
    BY <1>2, <1>3, <2>2 DEF MultiInv, MultiTypeOK
  <2> QED BY <2>1, <2>2
<1>6. MultiTypeOK'
  <2>1. TypeOK'
    BY <1>1, ChatStep DEF MultiInv, ChatInv
  <2> QED BY <1>1, <1>4, <1>5, <2>1 DEF MultiInv, MultiTypeOK
<1>7. Working(g, m)'
  BY <1>1, <1>2, <1>4, <1>5 DEF Working
<1> QED BY <1>1, <1>4, <1>5, <1>6, <1>7, ModelStep

(* A model goes on to its next await.                                      *)
LEMMA GoesOnStep ==
  ASSUME MultiInv, NEW g \in Gen, NEW m \in Model, LlmEnds(g, m) \/ McpGroundFails(g, m)
  PROVE  MultiInv'
<1>1. /\ at[g][m] \in {"llm", "mcpGround"} /\ pc[g] = "models"
      /\ UNCHANGED <<vars, res, told, kept>>
  BY DEF LlmEnds, McpGroundFails, InModels
<1>2. res[g][m] = "none" /\ told[g][m] = << >> /\ kept[g][m] = "none"
  BY <1>1 DEF MultiInv, Row, Working
<1>3. PICK l \in {"llm", "ground"} : at' = [at EXCEPT ![g][m] = l]
  BY DEF LlmEnds, McpGroundFails, Await
<1>4. /\ at' \in [Gen -> [Model -> {"off", "mcp", "mcpGround", "llm", "ground", "back"}]]
      /\ \A h \in Gen : h # g => at'[h] = at[h]
      /\ \A n \in Model : at'[g][n] = IF n = m THEN l ELSE at[g][n]
  BY <1>3, TypeOfTable DEF MultiInv, MultiTypeOK
<1>5. MultiTypeOK'
  <2>1. TypeOK'
    BY <1>1, ChatStep DEF MultiInv, ChatInv
  <2> QED BY <1>1, <1>4, <2>1 DEF MultiInv, MultiTypeOK
<1>6. Working(g, m)'
  BY <1>1, <1>2, <1>4 DEF Working
<1> QED BY <1>1, <1>4, <1>5, <1>6, ModelStep

(* A model that returns is told, unless it was stopped.                    *)
LEMMA EmitStep ==
  ASSUME MultiInv, NEW g \in Gen, NEW m \in Model, NEW k \in {"answer", "error"},
         pc[g] = "models", at[g][m] \in {"mcpGround", "llm", "ground"}, EmitComplete(g, m, k)
  PROVE  MultiInv'
<1>1. UNCHANGED <<vars, kept>>
  BY DEF EmitComplete
<1>2. res[g][m] = "none" /\ told[g][m] = << >> /\ kept[g][m] = "none"
  BY DEF MultiInv, Row, Working
<1>3. at' = [at EXCEPT ![g][m] = "back"] /\ res' = [res EXCEPT ![g][m] = k]
  BY DEF EmitComplete, Await
<1>4. /\ at' \in [Gen -> [Model -> {"off", "mcp", "mcpGround", "llm", "ground", "back"}]]
      /\ \A h \in Gen : h # g => at'[h] = at[h]
      /\ \A n \in Model : at'[g][n] = IF n = m THEN "back" ELSE at[g][n]
  BY <1>3, TypeOfTable DEF MultiInv, MultiTypeOK
<1>5. /\ res' \in [Gen -> [Model -> {"none", "null", "answer", "error"}]]
      /\ \A h \in Gen : h # g => res'[h] = res[h]
      /\ \A n \in Model : res'[g][n] = IF n = m THEN k ELSE res[g][n]
  BY <1>3, TypeOfTable DEF MultiInv, MultiTypeOK
<1>6. /\ told' \in [Gen -> [Model -> Seq(Kind)]]
      /\ \A h \in Gen : h # g => told'[h] = told[h]
      /\ \A n \in Model : n # m => told'[g][n] = told[g][n]
      /\ told'[g][m] = <<k>> \/ (told'[g][m] = << >> /\ stopHit[g] # "no")
  <2>1. CASE Stopped(g)
    <3>1. stopHit[g] # "no"
      BY <2>1 DEF MultiInv, StopMarks, Live, Stopped
    <3>2. UNCHANGED told
      BY <2>1 DEF EmitComplete
    <3> QED BY <1>2, <3>1, <3>2 DEF MultiInv, MultiTypeOK
  <2>2. CASE ~Stopped(g)
    <3>1. told' = [told EXCEPT ![g][m] = Append(@, k)] /\ k \in Kind
      BY <2>2 DEF EmitComplete, Tell, Kind
    <3>2. /\ told' \in [Gen -> [Model -> Seq(Kind)]]
          /\ \A h \in Gen : h # g => told'[h] = told[h]
          /\ \A n \in Model : told'[g][n] = IF n = m THEN Append(told[g][m], k) ELSE told[g][n]
      BY <3>1, TypeOfTold DEF MultiInv
    <3>3. Append(<< >>, k) = <<k>>
      OBVIOUS
    <3> QED BY <1>2, <3>2, <3>3
  <2> QED BY <2>1, <2>2
<1>7. MultiTypeOK'
  <2>1. TypeOK'
    BY <1>1, ChatStep DEF MultiInv, ChatInv
  <2> QED BY <1>1, <1>4, <1>5, <1>6, <2>1 DEF MultiInv, MultiTypeOK
<1>8. UNCHANGED stopHit
  BY <1>1 DEF vars, chatVars
<1>9. Working(g, m)'
  BY <1>1, <1>2, <1>4, <1>5, <1>6, <1>8 DEF Working, Told
<1> QED BY <1>1, <1>4, <1>5, <1>6, <1>7, <1>9, ModelStep

LEMMA ModelTaskStep ==
  ASSUME MultiInv, NEW g \in Gen, NEW m \in Model, ModelTask(g, m)
  PROVE  MultiInv'
<1>1. CASE Grounded(g, m)
  BY <1>1, EmitStep DEF Grounded, InModels
<1>2. CASE ModelFails(g, m)
  BY <1>2, EmitStep DEF ModelFails, InModels
<1> QED BY <1>1, <1>2, McpReturnsStep, GoesOnStep DEF ModelTask
(* The branch moves on as a whole.                                         *)
LEMMA BranchStep ==
  ASSUME MultiInv, NEW g \in Gen, pc[g] \in OwnStages,
         NEW l \in {"models", "multiSave", "done"}, pc' = [pc EXCEPT ![g] = l],
         UNCHANGED <<numVars, mode, regen, step, shown, resp, userSaved, answer, stopHit>>,
         terminal' \in [Gen -> Seq(Event)],
         terminal'[g] = terminal[g] \/ (l = "done" /\ terminal'[g] = <<"chat_error">>),
         saved' \in [Gen -> Answer \cup {"lost"}],
         at' \in [Gen -> [Model -> {"off", "mcp", "mcpGround", "llm", "ground", "back"}]],
         told' \in [Gen -> [Model -> Seq(Kind)]],
         kept' \in [Gen -> [Model -> Kind \cup {"none"}]],
         UNCHANGED res,
         \A h \in Gen : h # g =>
           UNCHANGED <<terminal[h], saved[h], at[h], told[h], kept[h]>>,
         Row(g)'
  PROVE  MultiInv'
<1> USE DEF MultiInv, OwnStages
<1>1. TypeOK'
  <2>1. NumTypeOK'
    BY DEF ChatInv, TypeOK, NumTypeOK, numVars
  <2> QED BY <2>1 DEF ChatInv, TypeOK, PC
<1>2. NumbersHandedOut'
  BY DEF ChatInv, NumbersHandedOut, numVars
<1>3. mode[g] = "multi" /\ terminal[g] = << >> /\ (userSaved[g] \/ regen[g])
  BY DEF OwnBranch, ChatInv, Control
<1>4. Len(terminal'[g]) <= 1
  <2>1. Brief(terminal'[g])
    BY <1>3 DEF Brief
  <2> QED BY <2>1, BriefLen
<1>5. pc' \in [Gen -> PC] /\ \A h \in Gen : pc'[h] = IF h = g THEN l ELSE pc[h]
  BY DEF ChatInv, TypeOK, PC
<1>6. Control'
  <2> SUFFICES ASSUME NEW h \in Gen PROVE
        /\ pc'[h] # "idle" => socket'[h] # NoSid
        /\ pc'[h] \in {"idle", "auth"} => my'[h] = 0
        /\ pc'[h] \in {"media", "mediaSave"} => mode'[h] = "media"
        /\ pc'[h] \in {"chainHead", "stepReturn", "chainFlush"} => mode'[h] = "chain"
        /\ pc'[h] \notin {"chainFlush", "saving", "done"} => step'[h] < ChainLen
        /\ pc'[h] \notin {"saving", "done"} => terminal'[h] = << >>
        /\ Len(terminal'[h]) <= 1
        /\ pc'[h] \notin {"mediaSave", "saving", "done"} => answer'[h] = "none"
        /\ pc'[h] \notin {"idle", "auth", "owner", "prepare", "store", "done"}
             => userSaved'[h] \/ regen'[h]
        /\ saved'[h] # "none" => userSaved'[h] \/ regen'[h]
    BY DEF Control
  <2>1. CASE h = g
    BY <1>3, <1>4, <1>5, <2>1 DEF ChatInv, Control, numVars
  <2>2. CASE h # g
    <3>1. /\ pc'[h] = pc[h] /\ terminal'[h] = terminal[h] /\ saved'[h] = saved[h]
          /\ UNCHANGED <<socket, my, mode, step, answer, userSaved, regen>>
      BY <1>5, <2>2 DEF numVars
    <3>2. Control
      BY DEF ChatInv
    <3> QED BY <3>1, <3>2 DEF Control
  <2> QED BY <2>1, <2>2
<1>7. StopMarks'
  BY <1>5, SameStopped DEF StopMarks, Live, numVars
<1>8. OwnBranch'
  BY <1>3, <1>5 DEF OwnBranch
<1>9. ASSUME NEW h \in Gen PROVE Row(h)'
  <2>1. CASE h = g
    BY <2>1
  <2>2. CASE h # g
    BY <1>5, <2>2, SameRow
  <2> QED BY <2>1, <2>2
<1> QED BY <1>1, <1>2, <1>6, <1>7, <1>8, <1>9 DEF ChatInv, MultiTypeOK

LEMMA MultiFailsStep ==
  ASSUME MultiInv, NEW g \in Gen, MultiFails(g)
  PROVE  MultiInv'
<1>1. /\ pc[g] = "multi" /\ pc' = [pc EXCEPT ![g] = "done"] /\ Emit(g, "chat_error")
      /\ UNCHANGED <<numVars, mode, regen, step, shown, resp, userSaved, answer, saved, stopHit>>
      /\ UNCHANGED <<at, res, told, kept>>
  BY DEF MultiFails, Finish, Goto, multiVars
<1>2. terminal' \in [Gen -> Seq(Event)]
  BY <1>1, EmitType DEF MultiInv, ChatInv, Event
<1>3. terminal[g] = << >>
  BY <1>1 DEF MultiInv, ChatInv, Control
<1>4. /\ terminal'[g] = <<"chat_error">>
      /\ \A h \in Gen : h # g => terminal'[h] = terminal[h]
  <2>1. Append(<< >>, "chat_error") = <<"chat_error">>
    OBVIOUS
  <2> QED BY <1>1, <1>3, <2>1 DEF Emit, MultiInv, ChatInv, TypeOK
<1>5. pc'[g] = "done"
  BY <1>1 DEF MultiInv, ChatInv, TypeOK
<1>6. Untouched(g)'
  BY <1>1 DEF MultiInv, Row, Untouched
<1>7. <<"chat_error">> # << >>
  OBVIOUS
<1>8. Row(g)'
  BY <1>4, <1>5, <1>6, <1>7 DEF Row, Ended
<1> QED BY <1>1, <1>2, <1>4, <1>8, BranchStep DEF MultiInv, MultiTypeOK, ChatInv, TypeOK, OwnStages

LEMMA SameForAllStep ==
  ASSUME MultiInv, NEW g \in Gen, SameForAll(g)
  PROVE  MultiInv'
<1>1. /\ pc[g] = "multi" /\ pc' = [pc EXCEPT ![g] = "multiSave"]
      /\ UNCHANGED <<numVars, mode, regen, step, shown, resp, userSaved, answer, saved,
                     terminal, stopHit, at, res, kept>>
  BY DEF SameForAll, Goto
<1>2. PICK k \in {"wait", "canned"} :
        told' = [told EXCEPT ![g] = [m \in Model |-> Append(told[g][m], k)]]
  BY DEF SameForAll, TellAll
<1>3. Untouched(g) /\ mode[g] = "multi"
  BY <1>1 DEF MultiInv, Row, OwnBranch, OwnStages
<1>4. /\ told' \in [Gen -> [Model -> Seq(Kind)]]
      /\ \A h \in Gen : h # g => told'[h] = told[h]
      /\ \A m \in Model : told'[g][m] = <<k>>
  <2>1. <<k>> \in Seq(Kind) /\ Append(<< >>, k) = <<k>>
    BY DEF Kind
  <2>2. [m \in Model |-> Append(told[g][m], k)] = [m \in Model |-> <<k>>]
    BY <1>3, <2>1 DEF Untouched
  <2> QED BY <1>2, <2>1, <2>2 DEF MultiInv, MultiTypeOK
<1>5. pc'[g] = "multiSave"
  BY <1>1 DEF MultiInv, ChatInv, TypeOK
<1>6. Row(g)'
  BY <1>1, <1>3, <1>4, <1>5 DEF Row, Common, Untouched
<1> QED BY <1>1, <1>4, <1>6, BranchStep DEF MultiInv, MultiTypeOK, ChatInv, TypeOK, OwnStages

LEMMA StartModelsStep ==
  ASSUME MultiInv, NEW g \in Gen, StartModels(g)
  PROVE  MultiInv'
<1>1. /\ pc[g] = "multi" /\ pc' = [pc EXCEPT ![g] = "models"]
      /\ UNCHANGED <<numVars, mode, regen, step, shown, resp, userSaved, answer, saved,
                     terminal, stopHit, res, told, kept>>
  BY DEF StartModels, Goto
<1>2. PICK l \in {"mcp", "llm"} : at' = [at EXCEPT ![g] = [m \in Model |-> l]]
  BY DEF StartModels
<1>3. Untouched(g) /\ mode[g] = "multi"
  BY <1>1 DEF MultiInv, Row, OwnBranch, OwnStages
<1>4. /\ at' \in [Gen -> [Model -> {"off", "mcp", "mcpGround", "llm", "ground", "back"}]]
      /\ \A h \in Gen : h # g => at'[h] = at[h]
      /\ \A m \in Model : at'[g][m] = l
  BY <1>2 DEF MultiInv, MultiTypeOK
<1>5. pc'[g] = "models"
  BY <1>1 DEF MultiInv, ChatInv, TypeOK
<1>6. Row(g)'
  BY <1>1, <1>3, <1>4, <1>5 DEF Row, Working, Untouched
<1> QED BY <1>1, <1>4, <1>6, BranchStep DEF MultiInv, MultiTypeOK, ChatInv, TypeOK, OwnStages

LEMMA GatheredStep ==
  ASSUME MultiInv, NEW g \in Gen, Gathered(g)
  PROVE  MultiInv'
<1> DEFINE Row1 == [m \in Model |-> IF res[g][m] = "null" THEN Append(told[g][m], "error")
                                                          ELSE told[g][m]]
<1>1. /\ pc[g] = "models" /\ pc' = [pc EXCEPT ![g] = "multiSave"]
      /\ \A m \in Model : at[g][m] = "back"
      /\ told' = [told EXCEPT ![g] = Row1]
      /\ UNCHANGED <<numVars, mode, regen, step, shown, resp, userSaved, answer, saved,
                     terminal, stopHit, at, res, kept>>
  BY DEF Gathered, Goto
<1>2. mode[g] = "multi" /\ \A m \in Model : Working(g, m)
  BY <1>1 DEF MultiInv, Row, OwnBranch, OwnStages
<1>3. ASSUME NEW m \in Model
      PROVE  /\ Row1[m] \in Seq(Kind)
             /\ res[g][m] = "null" => Row1[m] = <<"error">>
             /\ res[g][m] # "null" => Row1[m] = told[g][m]
  <2>1. <<"error">> \in Seq(Kind) /\ Append(<< >>, "error") = <<"error">>
    BY DEF Kind
  <2>2. told[g][m] \in Seq(Kind)
    BY DEF MultiInv, MultiTypeOK
  <2>3. res[g][m] = "null" => told[g][m] = << >>
    BY <1>2 DEF Working
  <2> QED BY <2>1, <2>2, <2>3
<1>4. /\ told' \in [Gen -> [Model -> Seq(Kind)]]
      /\ \A h \in Gen : h # g => told'[h] = told[h]
      /\ told'[g] = Row1
  <2>1. Row1 \in [Model -> Seq(Kind)]
    BY <1>3
  <2> HIDE DEF Row1
  <2> QED BY <1>1, <2>1 DEF MultiInv, MultiTypeOK
<1>5. pc'[g] = "multiSave"
  BY <1>1 DEF MultiInv, ChatInv, TypeOK
<1> HIDE DEF Row1
<1>6. Returned(g)'
  <2> SUFFICES ASSUME NEW m \in Model
               PROVE  /\ res'[g][m] # "none"
                      /\ res'[g][m] = "null" => told'[g][m] = <<"error">>
                      /\ res'[g][m] # "null" => Told(g, m)'
    BY DEF Returned
  <2>1. res[g][m] \in {"none", "null", "answer", "error"}
    BY DEF MultiInv, MultiTypeOK
  <2>2. Working(g, m)
    BY <1>2
  <2>3. res[g][m] # "null" => Told(g, m)
    BY <1>1, <2>1, <2>2 DEF Working
  <2> QED BY <1>1, <1>3, <1>4, <2>2, <2>3 DEF Working, Told
<1>7. Row(g)'
  BY <1>1, <1>2, <1>5, <1>6 DEF Row, Working
<1> QED BY <1>1, <1>4, <1>7, BranchStep DEF MultiInv, MultiTypeOK, ChatInv, TypeOK, OwnStages

(* What is stored is the kind that was told.                               *)
LEMMA SaveSlotsStep ==
  ASSUME MultiInv, NEW g \in Gen, SaveSlots(g)
  PROVE  MultiInv'
<1>1. /\ pc[g] = "multiSave" /\ pc' = [pc EXCEPT ![g] = "done"]
      /\ UNCHANGED <<numVars, mode, regen, step, shown, resp, userSaved, answer, terminal,
                     stopHit, at, res, told>>
  BY DEF SaveSlots, Goto
<1>2. /\ mode[g] = "multi" /\ terminal[g] = << >>
      /\ \A m \in Model : kept[g][m] = "none"
      /\ Common(g) \/ Returned(g)
  BY <1>1 DEF MultiInv, Row, OwnBranch, OwnStages, ChatInv, Control
<1>3. PICK r \in {"full", "lost"} : saved' = [saved EXCEPT ![g] = r]
  BY DEF SaveSlots
<1>4. /\ saved' \in [Gen -> Answer \cup {"lost"}]
      /\ \A h \in Gen : h # g => saved'[h] = saved[h]
  BY <1>3 DEF MultiInv, ChatInv, TypeOK, Answer
<1>5. pc'[g] = "done"
  BY <1>1 DEF MultiInv, ChatInv, TypeOK
<1>6. ASSUME NEW m \in Model
      PROVE  /\ Len(told[g][m]) <= 1
             /\ told[g][m] # << >> \/ stopHit[g] # "no"
             /\ Slots(g)[m] \in Kind
             /\ told[g][m] # << >> => told[g][m] = <<Slots(g)[m]>>
  <2>0. Slots(g)[m] = CASE res[g][m] = "none" -> Last(told[g][m])
                        [] res[g][m] = "null" -> "error"
                        [] OTHER -> res[g][m]
    BY DEF Slots
  <2>1. CASE Common(g)
    <3>1. PICK k \in {"wait", "canned"} : res[g][m] = "none" /\ told[g][m] = <<k>>
      BY <2>1 DEF Common
    <3>2. Last(<<k>>) = k /\ Len(<<k>>) = 1 /\ <<k>> # << >>
      BY DEF Last
    <3> QED BY <2>0, <3>1, <3>2 DEF Kind
  <2>2. CASE Returned(g)
    <3>1. res[g][m] \in {"none", "null", "answer", "error"}
      BY DEF MultiInv, MultiTypeOK
    <3>2. CASE res[g][m] = "null"
      <4>1. told[g][m] = <<"error">> /\ Slots(g)[m] = "error"
        BY <2>0, <2>2, <3>2 DEF Returned
      <4> QED BY <4>1 DEF Kind
    <3>3. CASE res[g][m] \in {"answer", "error"}
      <4>1. Told(g, m) /\ Slots(g)[m] = res[g][m]
        BY <2>0, <2>2, <3>3 DEF Returned
      <4>2. Brief(told[g][m])
        BY <4>1 DEF Told, Brief
      <4>3. <<res[g][m]>> # << >>
        OBVIOUS
      <4> QED BY <3>3, <4>1, <4>2, <4>3, BriefLen DEF Told, Kind
    <3> QED BY <2>2, <3>1, <3>2, <3>3 DEF Returned
  <2> QED BY <1>2, <2>1, <2>2
<1>7. /\ kept' \in [Gen -> [Model -> Kind \cup {"none"}]]
      /\ \A h \in Gen : h # g => kept'[h] = kept[h]
      /\ \A m \in Model : kept'[g][m] = Slots(g)[m] \/ kept'[g][m] = "none"
  <2>1. CASE kept' = [kept EXCEPT ![g] = Slots(g)]
    <3>1. Slots(g) \in [Model -> Kind \cup {"none"}]
      BY <1>6 DEF Slots
    <3> QED BY <2>1, <3>1 DEF MultiInv, MultiTypeOK
  <2>2. CASE UNCHANGED kept
    BY <1>2, <2>2 DEF MultiInv, MultiTypeOK
  <2> QED BY <2>1, <2>2 DEF SaveSlots
<1>8. Ended(g)'
  BY <1>1, <1>2, <1>6, <1>7 DEF Ended
<1>9. Row(g)'
  BY <1>1, <1>2, <1>5, <1>8 DEF Row
<1> QED BY <1>1, <1>4, <1>7, <1>9, BranchStep DEF MultiInv, MultiTypeOK, ChatInv, TypeOK, OwnStages

LEMMA MultiStep == MultiInv /\ [MultiNext]_allVars => MultiInv'
<1> SUFFICES ASSUME MultiInv, [MultiNext]_allVars PROVE MultiInv'
  OBVIOUS
<1>1. CASE Next /\ UNCHANGED multiVars
  BY <1>1, SharedStep
<1>2. CASE UNCHANGED allVars
  BY <1>2, SharedStep DEF allVars
<1>3. ASSUME NEW g \in Gen, Multi(g) PROVE MultiInv'
  BY <1>3, MultiFailsStep, SameForAllStep, StartModelsStep, GatheredStep, SaveSlotsStep,
     ModelTaskStep DEF Multi
<1> QED BY <1>1, <1>2, <1>3 DEF MultiNext

(* The invariant of a request to several models holds throughout.          *)
THEOREM MultiInvariant == MultiSpec => []MultiInv
<1> QED BY MultiInitInv, MultiStep, PTL DEF MultiSpec

(* Every slot of the comparison is closed, and none twice.                 *)
THEOREM MultiSlotsClosedOnce == MultiSpec => []SlotsClosedOnce
<1>1. MultiInv => SlotsClosedOnce
  <2> SUFFICES ASSUME MultiInv, NEW g \in Gen
               PROVE  /\ \A m \in Model : Len(told[g][m]) <= 1
                      /\ (mode[g] = "multi" /\ pc[g] = "done" /\ stopHit[g] = "no") =>
                           IF terminal[g] = << >> THEN \A m \in Model : told[g][m] # << >>
                                                  ELSE \A m \in Model : told[g][m] = << >>
    BY DEF MultiInv, SlotsClosedOnce
  <2>1. Row(g)
    BY DEF MultiInv
  <2>2. ASSUME NEW m \in Model PROVE Len(told[g][m]) <= 1
    <3>1. CASE pc[g] = "models" /\ mode[g] = "multi"
      <4>1. Working(g, m) /\ res[g][m] \in {"none", "null", "answer", "error"}
        BY <2>1, <3>1 DEF Row, MultiInv, MultiTypeOK
      <4>2. Brief(told[g][m])
        BY <4>1 DEF Working, Told, Brief
      <4> QED BY <4>2, BriefLen
    <3>2. CASE pc[g] = "multiSave" /\ mode[g] = "multi"
      <4>1. Common(g) => Brief(told[g][m])
        BY DEF Common, Brief
      <4>2. Returned(g) => Brief(told[g][m])
        BY DEF Returned, Told, Brief
      <4> QED BY <2>1, <3>2, <4>1, <4>2, BriefLen DEF Row
    <3>3. Untouched(g) => Len(told[g][m]) <= 1
      <4>1. Untouched(g) => Brief(told[g][m])
        BY DEF Untouched, Brief
      <4> QED BY <4>1, BriefLen
    <3>4. CASE pc[g] = "done" /\ mode[g] = "multi"
      BY <2>1, <3>3, <3>4 DEF Row, Ended
    <3>5. CASE mode[g] # "multi" \/ pc[g] \notin {"models", "multiSave", "done"}
      BY <2>1, <3>3, <3>5 DEF Row
    <3> QED BY <3>1, <3>2, <3>4, <3>5
  <2>3. (mode[g] = "multi" /\ pc[g] = "done" /\ stopHit[g] = "no") =>
           IF terminal[g] = << >> THEN \A m \in Model : told[g][m] # << >>
                                  ELSE \A m \in Model : told[g][m] = << >>
    BY <2>1 DEF Row, Ended, Untouched
  <2> QED BY <2>2, <2>3
<1> QED BY <1>1, MultiInvariant, PTL

(* A slot is stored as it was shown.                                       *)
THEOREM MultiKeptAsTold == MultiSpec => []KeptAsTold
<1>1. MultiInv => KeptAsTold
  <2> SUFFICES ASSUME MultiInv, NEW g \in Gen, NEW m \in Model,
                      kept[g][m] # "none", told[g][m] # << >>
               PROVE  told[g][m] = <<kept[g][m]>>
    BY DEF KeptAsTold
  <2>1. Row(g)
    BY DEF MultiInv
  <2>2. pc[g] = "done" /\ mode[g] = "multi"
    BY <2>1 DEF Row, Untouched, Working
  <2> QED BY <2>1, <2>2 DEF Row, Ended, Untouched
<1> QED BY <1>1, MultiInvariant, PTL

(* After a stop no slot is announced with an answer any more (2126-2129);  *)
(* errors and the common texts may still be.                               *)
THEOREM MultiStopSilencesModels == MultiSpec => StopSilencesModels
<1> DEFINE Silent(g) ==
      Stopped(g) => \A m \in Model : told'[g][m] # told[g][m] => Last(told'[g][m]) # "answer"
           AllSilent == \A g \in Gen : Silent(g)
<1>1. ASSUME MultiInv, MultiNext PROVE AllSilent
  <2>0. \A q \in Seq(Kind), k \in Kind : Last(Append(q, k)) = k
    BY DEF Last
  <2>1. CASE Next /\ UNCHANGED multiVars
    BY <2>1 DEF multiVars
  <2>2. ASSUME NEW h \in Gen, Multi(h) PROVE AllSilent
    <3> USE <1>1 DEF MultiInv, MultiTypeOK
    <3>1. CASE MultiFails(h) \/ StartModels(h) \/ SaveSlots(h)
      BY <3>1 DEF MultiFails, StartModels, SaveSlots, multiVars
    <3>2. CASE SameForAll(h)
      <4>1. PICK k \in {"wait", "canned"} : 
              told' = [told EXCEPT ![h] = [m \in Model |-> Append(told[h][m], k)]]
        BY <3>2 DEF SameForAll, TellAll
      <4>2. ASSUME NEW g \in Gen, NEW m \in Model, told'[g][m] # told[g][m]
            PROVE  Last(told'[g][m]) = k
        BY <2>0, <4>1, <4>2 DEF Kind
      <4> QED BY <4>2
    <3>3. CASE Gathered(h)
      <4>1. ASSUME NEW g \in Gen, NEW m \in Model, told'[g][m] # told[g][m]
            PROVE  Last(told'[g][m]) = "error"
        BY <2>0, <3>3, <4>1 DEF Gathered, Kind
      <4> QED BY <4>1
    <3>4. ASSUME NEW n \in Model, ModelTask(h, n) PROVE AllSilent
      <4>1. UNCHANGED told \/ \E k \in {"answer", "error"} : EmitComplete(h, n, k)
        BY <3>4 DEF ModelTask, McpReturns, LlmEnds, Grounded, McpGroundFails, ModelFails
      <4>2. ASSUME NEW k \in {"answer", "error"}, EmitComplete(h, n, k) PROVE AllSilent
        <5>1. CASE Stopped(h)
          BY <4>2, <5>1 DEF EmitComplete
        <5>2. CASE ~Stopped(h)
          <6>1. told' = [told EXCEPT ![h][n] = Append(@, k)]
            BY <4>2, <5>2 DEF EmitComplete, Tell
          <6> QED BY <5>2, <6>1
        <5> QED BY <5>1, <5>2
      <4> QED BY <4>1, <4>2
    <3> QED BY <2>2, <3>1, <3>2, <3>3, <3>4 DEF Multi
  <2> QED BY <1>1, <2>1, <2>2 DEF MultiNext
<1>2. MultiInv /\ [MultiNext]_allVars => [AllSilent]_allVars
  BY <1>1
<1> QED BY <1>2, MultiInvariant, PTL DEF MultiSpec, StopSilencesModels
(* With the branch for several models too, the numbering only ever moves   *)
(* as GenerationNumbers does: the whole handler keeps the promise of Stop. *)
THEOREM MultiKeepsStopPromise == MultiSpec => KeepsStopPromise
<1>1. MultiInit => NumInit
  BY DEF MultiInit, Init
<1>2. MultiInv /\ [MultiNext]_allVars => [NumNext]_numVars
  <2> SUFFICES ASSUME MultiInv, [MultiNext]_allVars PROVE [NumNext]_numVars
    OBVIOUS
  <2>1. CASE Next \/ UNCHANGED allVars
    BY <2>1, ChatStep DEF MultiInv, allVars
  <2>2. ASSUME NEW g \in Gen, Multi(g) PROVE UNCHANGED numVars
    <3>1. ASSUME NEW m \in Model, ModelTask(g, m) PROVE UNCHANGED numVars
      BY <3>1 DEF ModelTask, McpReturns, LlmEnds, Grounded, McpGroundFails, ModelFails,
                  EmitComplete, vars
    <3> QED BY <2>2, <3>1 DEF Multi, MultiFails, SameForAll, StartModels, Gathered, SaveSlots
  <2> QED BY <2>1, <2>2 DEF MultiNext
<1>3. MultiSpec => NumSpec
  BY <1>1, <1>2, MultiInvariant, PTL DEF MultiSpec, NumSpec
<1> QED BY <1>3, NumbersKeepStopPromise

(* In every branch a generation counts as stopped only if a press hit it   *)
(* while it ran.                                                           *)
THEOREM MultiStopScope == MultiSpec => []StopScope
<1>1. MultiInv => StopScope
  BY DEF MultiInv, StopMarks, StopScope
<1> QED BY <1>1, MultiInvariant, PTL
=============================================================================
