----------------------------- MODULE McpSessions -----------------------------
(***************************************************************************)
(* The pool of MCP sessions (backend/mcp/session_pool.py) and the requests *)
(* that borrow from it through a session manager of their own              *)
(* (session_manager.py, platform.py request_sessions).  Sessions are       *)
(* pooled per server and borrowed by any user; each was opened with the    *)
(* headers of one.  Requests, the evictor and the shutdown interleave at   *)
(* their awaits: the lock of a server, connecting, closing.                *)
(***************************************************************************)
EXTENDS Naturals, FiniteSets, Sequences, SequencesExt

CONSTANTS Request,    \* tool loops that ask for sessions
          Server,     \* MCP servers
          Wanted,     \* Wanted[r]: the servers of r, in the order of its list
          Headers,    \* Headers[r]: the fingerprint of r's headers
          Subagent,   \* the requests of subagents, which a broken step cancels
          MaxSize,    \* pool.max_size
          Evictor     \* the task of _evict_loop

ASSUME McpAssumption ==
  /\ IsFiniteSet(Server) /\ Evictor \notin Request
  /\ MaxSize \in Nat \ {0}
  /\ \A r \in Request : Wanted[r] \in Seq(Server)

VARIABLES pc,       \* pc[r]: the await request r is suspended at
          at,       \* at[r]: position of r in Wanted[r]
          active,   \* active[r]: _active of its session manager
          pool,     \* pool[s]: _pools[s], longest idle first
          old,      \* sessions of the pool that are idle for longer than the TTL
          lock,     \* lock[s]: holder or next holder of the server's lock, and the queue
          evict,    \* the evictor: [pc, todo, due, kept]
          down,     \* "up", "closing" (_closed is set) or "down"
          drain,    \* servers whose sessions the shutdown has still to close
          alive,    \* history: sessions connected and not closed
          lost,     \* history: sessions shutdown let go of without closing them
          dropped   \* history: sessions a cancelled request let go of likewise

reqVars == <<pc, at, active>>
poolVars == <<pool, old, lock>>
downVars == <<down, drain, lost, dropped>>
vars == <<reqVars, poolVars, evict, downVars, alive>>

(* A session is known by the request that opened it, the position it had   *)
(* in the list of that request, and its server.                            *)
Session == [by : Request, no : Nat, to : Server]

TypeOK ==
  /\ pc \in [Request -> {"next", "acquire", "closeOld", "discard", "connect",
                         "leave", "release", "close", "done"}]
  /\ at \in [Request -> Nat]
  /\ active \in [Request -> Seq(Session)]
  /\ pool \in [Server -> Seq(Session)]
  /\ old \subseteq Session
  /\ lock \in [Server -> Seq(Request \cup {Evictor})]
  /\ evict \in [pc : {"sleep", "turn", "close", "off"}, todo : Seq(Server),
                due : SUBSET Session, kept : Seq(Session)]
  /\ down \in {"up", "closing", "down"}
  /\ drain \in Seq(Server)
  /\ alive \subseteq Session
  /\ lost \subseteq Session
  /\ dropped \subseteq Session

Init ==
  /\ pc = [r \in Request |-> "next"]
  /\ at = [r \in Request |-> 1]
  /\ active = [r \in Request |-> << >>]
  /\ pool = [s \in Server |-> << >>]
  /\ old = {}
  /\ lock = [s \in Server |-> << >>]
  /\ evict = [pc |-> "sleep", todo |-> << >>, due |-> {}, kept |-> << >>]
  /\ down = "up"
  /\ drain = << >>
  /\ alive = {}
  /\ lost = {}
  /\ dropped = {}

-----------------------------------------------------------------------------
Goto(r, l) == pc' = [pc EXCEPT ![r] = l]
Now(r) == Wanted[r][at[r]]
Has(p, s) == lock[s] # << >> /\ Head(lock[s]) = p
Queue(p, s) == lock' = [lock EXCEPT ![s] = Append(@, p)]
Unlock(s) == lock' = [lock EXCEPT ![s] = Tail(@)]

(* A queue without its waiter p.                                           *)
Without(q, p) ==
  IF p \in Range(q) THEN RemoveAt(q, CHOOSE i \in DOMAIN q : q[i] = p) ELSE q

(* The keys of _pools in the order of the dictionary: the servers with     *)
(* idle sessions, and some whose deque is empty.                           *)
Keys ==
  {q \in UNION {[1..n -> Server] : n \in 0..Cardinality(Server)} :
     IsInjective(q) /\ \A s \in Server : pool[s] # << >> => s \in Range(q)}

(* connect_server is done with Now(r), with a session or without.          *)
Got(r, sessions) ==
  /\ active' = [active EXCEPT ![r] = @ \o sessions]
  /\ at' = [at EXCEPT ![r] = @ + 1]
  /\ Goto(r, "next")

(* connect_servers turns to the next server; a closed pool is passed by.   *)
(* A request with all its sessions uses them until it leaves.              *)
NextServer(r) ==
  /\ pc[r] = "next"
  /\ IF at[r] > Len(Wanted[r]) THEN Goto(r, "leave") /\ UNCHANGED lock
     ELSE IF down = "up" THEN Goto(r, "acquire") /\ Queue(r, Now(r))
                         ELSE Goto(r, "connect") /\ UNCHANGED lock
  /\ UNCHANGED <<at, active, pool, old, evict, downVars, alive>>

(* acquire has the lock of the server: nothing is idle.                    *)
Miss(r) ==
  /\ pc[r] = "acquire" /\ Has(r, Now(r)) /\ pool[Now(r)] = << >>
  /\ Unlock(Now(r))
  /\ Goto(r, "connect")
  /\ UNCHANGED <<at, active, pool, old, evict, downVars, alive>>

(* The session that is idle longest has expired and is closed under the    *)
(* lock; acquire then looks at the next one.                               *)
CloseOld(r) ==
  /\ pc[r] = "acquire" /\ Has(r, Now(r)) /\ pool[Now(r)] # << >>
  /\ Head(pool[Now(r)]) \in old
  /\ pool' = [pool EXCEPT ![Now(r)] = Tail(@)]
  /\ old' = old \ {Head(pool[Now(r)])}
  /\ alive' = alive \ {Head(pool[Now(r)])}
  /\ Goto(r, "closeOld")
  /\ UNCHANGED <<at, active, lock, evict, downVars>>

OldClosed(r) ==
  /\ pc[r] = "closeOld"
  /\ Goto(r, "acquire")
  /\ UNCHANGED <<at, active, poolVars, evict, downVars, alive>>

(* A mutant: whoever opened the session, it is taken as it is.             *)
TakeAnybodys(r) ==
  /\ pc[r] = "acquire" /\ Has(r, Now(r)) /\ pool[Now(r)] # << >>
  /\ Head(pool[Now(r)]) \notin old
  /\ pool' = [pool EXCEPT ![Now(r)] = Tail(@)]
  /\ Unlock(Now(r))
  /\ Got(r, <<Head(pool[Now(r)])>>)
  /\ UNCHANGED <<old, evict, downVars, alive>>

(* A mutant: the lock is kept for a session that is discarded.             *)
TakeLocked(r) ==
  /\ pc[r] = "acquire" /\ Has(r, Now(r)) /\ pool[Now(r)] # << >>
  /\ LET e == Head(pool[Now(r)]) IN
       /\ e \notin old
       /\ pool' = [pool EXCEPT ![Now(r)] = Tail(@)]
       /\ IF Headers[e.by] = Headers[r]
            THEN Got(r, <<e>>) /\ Unlock(Now(r)) /\ UNCHANGED alive
            ELSE Goto(r, "discard") /\ alive' = alive \ {e} /\ UNCHANGED <<at, active, lock>>
  /\ UNCHANGED <<old, evict, downVars>>

(* A session with the headers of r is taken; any other is discarded, even  *)
(* if its owner will ask for it next.                                      *)
Take(r) ==
  /\ pc[r] = "acquire" /\ Has(r, Now(r)) /\ pool[Now(r)] # << >>
  /\ LET e == Head(pool[Now(r)]) IN
       /\ e \notin old
       /\ pool' = [pool EXCEPT ![Now(r)] = Tail(@)]
       /\ IF Headers[e.by] = Headers[r]
            THEN Got(r, <<e>>) /\ UNCHANGED alive
            ELSE Goto(r, "discard") /\ alive' = alive \ {e} /\ UNCHANGED <<at, active>>
  /\ Unlock(Now(r))
  /\ UNCHANGED <<old, evict, downVars>>

Discarded(r) ==
  /\ pc[r] = "discard"
  /\ Goto(r, "connect")
  /\ UNCHANGED <<at, active, poolVars, evict, downVars, alive>>

(* Connecting is limited by acquire_timeout_seconds once and then tried    *)
(* again; a server that fails is left out of the request.                  *)
ConnectEnds(r) ==
  /\ pc[r] = "connect"
  /\ \/ LET e == [by |-> r, no |-> at[r], to |-> Now(r)] IN
          Got(r, <<e>>) /\ alive' = alive \cup {e}
     \/ Got(r, << >>) /\ UNCHANGED alive
  /\ UNCHANGED <<poolVars, evict, downVars>>

(* disconnect_all, newest session first.  release looks at _closed before  *)
(* it waits for the lock, and not again.                                   *)
Leave(r) ==
  /\ pc[r] = "leave"
  /\ IF active[r] = << >> THEN Goto(r, "done") /\ UNCHANGED <<active, lock, alive>>
     ELSE IF down = "up"
       THEN Goto(r, "release") /\ Queue(r, Last(active[r]).to) /\ UNCHANGED <<active, alive>>
       ELSE /\ Goto(r, "close")
            /\ alive' = alive \ {Last(active[r])}
            /\ active' = [active EXCEPT ![r] = Front(@)]
            /\ UNCHANGED lock
  /\ UNCHANGED <<at, pool, old, evict, downVars>>

(* A mutant: nobody looks at max_size.                                     *)
ReleaseAlways(r) ==
  /\ pc[r] = "release"
  /\ LET e == Last(active[r]) IN
       /\ Has(r, e.to)
       /\ active' = [active EXCEPT ![r] = Front(@)]
       /\ pool' = [pool EXCEPT ![e.to] = Append(@, e)]
       /\ Unlock(e.to)
       /\ Goto(r, "leave")
  /\ UNCHANGED <<at, old, alive, evict, downVars>>

(* A full pool closes the session while its lock is held; what comes after *)
(* the shutdown enters a pool that nobody will empty.                      *)
Release(r) ==
  /\ pc[r] = "release"
  /\ LET e == Last(active[r]) IN
       /\ Has(r, e.to)
       /\ active' = [active EXCEPT ![r] = Front(@)]
       /\ IF Len(pool[e.to]) >= MaxSize
            THEN Goto(r, "close") /\ alive' = alive \ {e} /\ UNCHANGED <<pool, lock>>
            ELSE /\ pool' = [pool EXCEPT ![e.to] = Append(@, e)]
                 /\ Unlock(e.to)
                 /\ Goto(r, "leave")
                 /\ UNCHANGED alive
       /\ lost' = IF down = "down" THEN lost \cup {e} ELSE lost
  /\ UNCHANGED <<at, old, evict, down, drain, dropped>>

Closed(r) ==
  /\ pc[r] = "close"
  /\ lock' = [s \in Server |-> IF Has(r, s) THEN Tail(lock[s]) ELSE lock[s]]
  /\ Goto(r, "leave")
  /\ UNCHANGED <<at, active, pool, old, evict, downVars, alive>>

(* A call of the same step breaks, and the subagent is cancelled at its    *)
(* await: it leaves the queue, or the lock with what it closes under it.   *)
(* connect_servers and disconnect_all let the cancellation through, so the *)
(* sessions still held are neither closed nor given back.  While they are  *)
(* used, the cancellation only begins disconnect_all, which is Leave.      *)
Cancel(r) ==
  /\ r \in Subagent
  /\ pc[r] \notin {"leave", "done"} /\ (pc[r] = "next" => at[r] <= Len(Wanted[r]))
  /\ Goto(r, "done")
  /\ active' = [active EXCEPT ![r] = << >>]
  /\ dropped' = dropped \cup Range(active[r])
  /\ lock' = [s \in Server |-> Without(lock[s], r)]
  /\ UNCHANGED <<at, pool, old, evict, down, drain, lost, alive>>

-----------------------------------------------------------------------------
(* Time passes: the session idle longest of those not yet expired expires. *)
Expire(s) ==
  /\ \E i \in DOMAIN pool[s] :
       /\ pool[s][i] \notin old
       /\ \A j \in 1..(i - 1) : pool[s][j] \in old
       /\ old' = old \cup {pool[s][i]}
  /\ UNCHANGED <<reqVars, pool, lock, evict, downVars, alive>>

(* _evict_idle begins: what has not expired now is kept, however long the  *)
(* pass takes.  A server without a key in _pools is left out.              *)
EvictorWakes ==
  /\ evict.pc = "sleep" /\ old # {}
  /\ \E todo \in Keys :
       /\ todo # << >>
       /\ evict' = [evict EXCEPT !.pc = "turn", !.todo = todo, !.due = old]
       /\ Queue(Evictor, Head(todo))
  /\ UNCHANGED <<reqVars, pool, old, downVars, alive>>

(* Under the lock of a server the deque is emptied one by one; an expired  *)
(* session is closed there and then.                                       *)
EvictorCloses ==
  /\ evict.pc = "turn" /\ Has(Evictor, Head(evict.todo))
  /\ LET s == Head(evict.todo) IN
     \E i \in DOMAIN pool[s] :
        /\ pool[s][i] \in evict.due /\ \A j \in 1..(i - 1) : pool[s][j] \notin evict.due
        /\ pool' = [pool EXCEPT ![s] = SubSeq(@, i + 1, Len(@))]
        /\ old' = old \ {pool[s][i]}
        /\ alive' = alive \ {pool[s][i]}
        /\ evict' = [evict EXCEPT !.pc = "close", !.kept = @ \o SubSeq(pool[s], 1, i - 1)]
  /\ UNCHANGED <<reqVars, lock, downVars>>

EvictorClosed ==
  /\ evict.pc = "close"
  /\ evict' = [evict EXCEPT !.pc = "turn"]
  /\ UNCHANGED <<reqVars, poolVars, downVars, alive>>

(* A mutant: only the sessions looked at last are put back.                *)
EvictorForgetsKept ==
  /\ evict.pc = "turn" /\ Has(Evictor, Head(evict.todo))
  /\ LET s == Head(evict.todo)
         rest == Tail(evict.todo)
     IN /\ Range(pool[s]) \cap evict.due = {}
        /\ pool' = [pool EXCEPT ![s] = evict.kept]
        /\ lock' = [x \in Server |-> IF x = s THEN Tail(lock[x])
                      ELSE IF rest # << >> /\ x = Head(rest) THEN Append(lock[x], Evictor)
                      ELSE lock[x]]
        /\ evict' = [pc |-> IF rest = << >> THEN "sleep" ELSE "turn", todo |-> rest,
                     due |-> IF rest = << >> THEN {} ELSE evict.due, kept |-> << >>]
  /\ UNCHANGED <<reqVars, old, downVars, alive>>

(* The kept sessions become the pool of the server; on to the next one.    *)
EvictorMovesOn ==
  /\ evict.pc = "turn" /\ Has(Evictor, Head(evict.todo))
  /\ LET s == Head(evict.todo)
         rest == Tail(evict.todo)
     IN /\ Range(pool[s]) \cap evict.due = {}
        /\ pool' = [pool EXCEPT ![s] = evict.kept \o @]
        /\ lock' = [x \in Server |-> IF x = s THEN Tail(lock[x])
                      ELSE IF rest # << >> /\ x = Head(rest) THEN Append(lock[x], Evictor)
                      ELSE lock[x]]
        /\ evict' = [pc |-> IF rest = << >> THEN "sleep" ELSE "turn", todo |-> rest,
                     due |-> IF rest = << >> THEN {} ELSE evict.due, kept |-> << >>]
  /\ UNCHANGED <<reqVars, old, downVars, alive>>

-----------------------------------------------------------------------------
(* shutdown sets _closed and cancels the evictor, which leaves the queue   *)
(* or drops the lock where it stands; what it kept is nobody's any more.   *)
BeginShutdown ==
  /\ down = "up"
  /\ down' = "closing"
  /\ drain' \in Keys
  /\ lock' = [s \in Server |-> Without(lock[s], Evictor)]
  /\ lost' = Range(evict.kept)
  /\ evict' = [pc |-> "off", todo |-> << >>, due |-> {}, kept |-> << >>]
  /\ UNCHANGED <<reqVars, pool, old, dropped, alive>>

(* The sessions are closed one after the other, without any lock.          *)
ShutdownCloses ==
  /\ down = "closing" /\ drain # << >>
  /\ LET s == Head(drain) IN
       IF pool[s] = << >>
         THEN drain' = Tail(drain) /\ UNCHANGED <<pool, old, alive>>
         ELSE /\ pool' = [pool EXCEPT ![s] = Tail(@)]
              /\ old' = old \ {Head(pool[s])}
              /\ alive' = alive \ {Head(pool[s])}
              /\ UNCHANGED drain
  /\ UNCHANGED <<reqVars, lock, evict, down, lost, dropped>>

(* _pools.clear(): with what a release has put back behind the shutdown.   *)
EndShutdown ==
  /\ down = "closing" /\ drain = << >>
  /\ down' = "down"
  /\ lost' = lost \cup UNION {Range(pool[s]) : s \in Server}
  /\ pool' = [s \in Server |-> << >>]
  /\ old' = {}
  /\ UNCHANGED <<reqVars, lock, evict, drain, dropped, alive>>

Serve(r) == NextServer(r) \/ Miss(r) \/ CloseOld(r) \/ OldClosed(r) \/ Take(r) \/ Discarded(r)
              \/ ConnectEnds(r) \/ Leave(r) \/ Release(r) \/ Closed(r)
Evict == EvictorCloses \/ EvictorClosed \/ EvictorMovesOn
Shutdown == ShutdownCloses \/ EndShutdown

Next == \/ \E r \in Request : Serve(r) \/ Cancel(r)
        \/ \E s \in Server : Expire(s)
        \/ EvictorWakes \/ Evict \/ BeginShutdown \/ Shutdown

(* The event loop resumes what can go on; connecting and closing carry     *)
(* timeouts.                                                               *)
Fairness == (\A r \in Request : WF_vars(Serve(r))) /\ WF_vars(Evict) /\ WF_vars(Shutdown)

Spec == Init /\ [][Next]_vars /\ Fairness

-----------------------------------------------------------------------------
(* Where the sessions are: in the deque of their server, with what the     *)
(* evictor has in hand of it, or with a request.                           *)
Idle(s) == IF evict.todo # << >> /\ Head(evict.todo) = s THEN evict.kept \o pool[s] ELSE pool[s]
Pooled(s) == Range(Idle(s))
InUse(r) == Range(active[r])

(* A session in use belongs to one request, is open, goes to the server it *)
(* was asked for and carries the headers of that request's user: another   *)
(* user's session never serves a call, and none lies in the pool meanwhile *)
(* (acquire 103-156, connect_server 164-181).                              *)
SessionsOwned ==
  \A r \in Request : \A e \in InUse(r) :
    /\ e \in alive /\ Headers[e.by] = Headers[r]
    /\ e \notin Pooled(e.to)
    /\ \A q \in Request \ {r} : e \notin InUse(q)

(* An open session is pooled or in use while requests, expiry and the      *)
(* evictor take turns.  Two things lose sessions: the shutdown, those the  *)
(* cancelled evictor held and those that came back behind its back, and a  *)
(* request cancelled while it connects or disconnects (connect_servers     *)
(* 183-199 stands outside the try of request_sessions, disconnect_all      *)
(* 201-216 catches Exception only).                                        *)
NothingLeaks ==
  /\ alive \subseteq (UNION {Pooled(s) : s \in Server}) \cup (UNION {InUse(r) : r \in Request})
                       \cup lost \cup dropped
  /\ down = "up" => lost = {}

(* The pool of a server never holds more than max_size sessions, none      *)
(* twice, and only open ones of that server, the evictor's pass included.  *)
PoolSound ==
  /\ TypeOK
  /\ \A s \in Server :
       /\ Len(Idle(s)) <= MaxSize /\ IsInjective(Idle(s))
       /\ \A e \in Pooled(s) : e.to = s /\ e \in alive

(* No request waits for ever for a lock under which others close sessions. *)
RequestsEnd == \A r \in Request : <>(pc[r] = "done")
=============================================================================
