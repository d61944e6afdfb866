------------------------- MODULE GenerationNumbers -------------------------
(***************************************************************************)
(* The numbering that tells a stopped generation from a live one           *)
(* (backend/realtime/handlers.py).  A socket hands out numbers; Stop       *)
(* records the newest number handed out; a generation is stopped when its  *)
(* own number is not newer than the recorded one.  A missing dictionary    *)
(* entry reads as 0 in the code, so 0 is the missing entry here.           *)
(***************************************************************************)
EXTENDS Naturals

CONSTANTS Sid,     \* Socket.IO connections; an id is never used again
          Gen,     \* chat_message calls, each one asyncio task
          NoSid    \* not a socket

ASSUME NoSidAssumption == NoSid \notin Sid

VARIABLES conn,             \* conn[s]: life of the connection
          generation_seq,   \* _generation_seq.get(s, 0)
          stopped_upto,     \* _stopped_upto.get(s, 0)
          socket,           \* socket[g]: the connection chat_message g came from
          my                \* my[g]: the task's _my_generation, 0 before it begins

numVars == <<conn, generation_seq, stopped_upto, socket, my>>

NumTypeOK ==
  /\ conn \in [Sid -> {"new", "open", "closed"}]
  /\ generation_seq \in [Sid -> Nat]
  /\ stopped_upto \in [Sid -> Nat]
  /\ socket \in [Gen -> Sid \cup {NoSid}]
  /\ my \in [Gen -> Nat]

NumInit ==
  /\ conn = [s \in Sid |-> "new"]
  /\ generation_seq = [s \in Sid |-> 0]
  /\ stopped_upto = [s \in Sid |-> 0]
  /\ socket = [g \in Gen |-> NoSid]
  /\ my = [g \in Gen |-> 0]

(* _generation_stopped, asked by task g: no number means "not stopped".    *)
Stopped(g) == my[g] # 0 /\ socket[g] # NoSid /\ stopped_upto[socket[g]] >= my[g]

-----------------------------------------------------------------------------
Connect(s) ==
  /\ conn[s] = "new"
  /\ conn' = [conn EXCEPT ![s] = "open"]
  /\ UNCHANGED <<generation_seq, stopped_upto, socket, my>>

(* The handler pops the socket's entries (_forget_generation); tasks that  *)
(* came from the socket are not cancelled.                                 *)
Disconnect(s) ==
  /\ conn[s] = "open"
  /\ conn' = [conn EXCEPT ![s] = "closed"]
  /\ generation_seq' = [generation_seq EXCEPT ![s] = 0]
  /\ stopped_upto' = [stopped_upto EXCEPT ![s] = 0]
  /\ UNCHANGED <<socket, my>>

(* stop_generation *)
StopGeneration(s) ==
  /\ conn[s] = "open"
  /\ stopped_upto' = [stopped_upto EXCEPT ![s] = generation_seq[s]]
  /\ UNCHANGED <<conn, generation_seq, socket, my>>

(* chat_message is called: the task exists but awaits authorization.       *)
Receive(g, s) ==
  /\ conn[s] = "open"
  /\ socket[g] = NoSid
  /\ socket' = [socket EXCEPT ![g] = s]
  /\ UNCHANGED <<conn, generation_seq, stopped_upto, my>>

(* Mutant: a new request clears the stop of the socket, as the single flag *)
(* did.                                                                    *)
BeginClearsStop(g) ==
  /\ socket[g] # NoSid
  /\ my[g] = 0
  /\ LET seq == generation_seq[socket[g]] + 1 IN
       /\ generation_seq' = [generation_seq EXCEPT ![socket[g]] = seq]
       /\ my' = [my EXCEPT ![g] = seq]
  /\ stopped_upto' = [stopped_upto EXCEPT ![socket[g]] = 0]
  /\ UNCHANGED <<conn, socket>>

(* _begin_generation.  It runs after an await, so the socket may be gone.  *)
BeginGeneration(g) ==
  /\ socket[g] # NoSid
  /\ my[g] = 0
  /\ LET seq == generation_seq[socket[g]] + 1 IN
       /\ generation_seq' = [generation_seq EXCEPT ![socket[g]] = seq]
       /\ my' = [my EXCEPT ![g] = seq]
  /\ UNCHANGED <<conn, stopped_upto, socket>>

NumNext ==
  \/ \E s \in Sid : Connect(s) \/ Disconnect(s) \/ StopGeneration(s)
  \/ \E g \in Gen : BeginGeneration(g) \/ \E s \in Sid : Receive(g, s)

NumSpec == NumInit /\ [][NumNext]_numVars

-----------------------------------------------------------------------------
(* The inductive invariant: on an open socket nobody holds a number that   *)
(* was not handed out, two tasks never share one, and nothing is recorded  *)
(* as stopped that was not handed out; a closed socket records no stop.    *)
NumbersHandedOut ==
  /\ \A s \in Sid : /\ stopped_upto[s] <= generation_seq[s]
                    /\ conn[s] # "open" => stopped_upto[s] = 0
                    /\ conn[s] = "new" => generation_seq[s] = 0
  /\ \A g \in Gen :
       /\ my[g] # 0 => socket[g] # NoSid
       /\ socket[g] # NoSid => conn[socket[g]] # "new"
       /\ (socket[g] # NoSid /\ conn[socket[g]] = "open")
             => my[g] <= generation_seq[socket[g]]

(* Two generations that are running on one live socket never carry the     *)
(* same number: a shared number would make one Stop read as the other's.   *)
NumbersUnique ==
  \A g, h \in Gen :
    (g # h /\ socket[g] # NoSid /\ socket[g] = socket[h] /\ conn[socket[g]] = "open")
      => (my[g] = 0 \/ my[g] # my[h])

(* The numbering keeps the promise of the Stop button (comments at         *)
(* handlers.py 414-422 and 475-477): the mapped state takes only steps     *)
(* that StopPromise allows.                                                *)
Promise == INSTANCE StopPromise
             WITH owner <- [g \in Gen |-> IF my[g] = 0 THEN NoSid ELSE socket[g]],
                  cancelled <- [g \in Gen |-> Stopped(g)]
KeepsStopPromise == Promise!Spec
=============================================================================
