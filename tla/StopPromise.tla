---------------------------- MODULE StopPromise ----------------------------
(***************************************************************************)
(* What the Stop button of the chat promises, free of generation numbers:  *)
(* one press cancels every generation already running on that socket and   *)
(* nothing else, and no later request takes the cancellation back.         *)
(* Losing the socket is the one event that forgets it.                     *)
(***************************************************************************)
CONSTANTS Sid,     \* Socket.IO connections
          Gen,     \* generations: one per accepted chat_message
          NoSid    \* the owner of a generation that has not begun

VARIABLES owner,       \* owner[g]: the socket generation g began on
          cancelled    \* cancelled[g]: g has been told to stop

vars == <<owner, cancelled>>

TypeOK == /\ owner \in [Gen -> Sid \cup {NoSid}]
          /\ cancelled \in [Gen -> BOOLEAN]

Init == /\ owner = [g \in Gen |-> NoSid]
        /\ cancelled = [g \in Gen |-> FALSE]

Begin(g, s) == /\ owner[g] = NoSid
               /\ owner' = [owner EXCEPT ![g] = s]
               /\ UNCHANGED cancelled

Press(s) == /\ cancelled' = [g \in Gen |-> cancelled[g] \/ owner[g] = s]
            /\ UNCHANGED owner

Drop(s) == /\ cancelled' = [g \in Gen |-> cancelled[g] /\ owner[g] # s]
           /\ UNCHANGED owner

Next == \E s \in Sid : Press(s) \/ Drop(s) \/ \E g \in Gen : Begin(g, s)

Spec == Init /\ [][Next]_vars
=============================================================================
