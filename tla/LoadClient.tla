----------------------------- MODULE LoadClient -----------------------------
(***************************************************************************)
(* bridge/load_client.py: the request generator of live mode.  One asyncio *)
(* loop runs a scheduler, a task for each request, which retries, and the  *)
(* maintainer of the connection pool; between two awaits of one of them    *)
(* the others do not run.  Replies, lost connections and commands come in  *)
(* between in any order, and a timeout may race the reply it gives up on.  *)
(*                                                                         *)
(* A request's id on the wire is its task and the number of its attempt:   *)
(* next_id never gives the same id twice.  Time is abstracted: a timer may *)
(* fire whenever it is armed, and a pooled connection may be of age.  The  *)
(* pool is a set: the round robin over it, and which are kept of too many, *)
(* are any choice from it.  Histogram, trace and the counts by attempt,    *)
(* reason and slot are left out, and replies other than OK are one.  Load  *)
(* that is switched off is a scheduler that does not happen to wake up.    *)
(***************************************************************************)
EXTENDS Integers, FiniteSets

CONSTANTS
  Req,          \* tasks of requests, used again when they have ended
  Conn,         \* connection objects, used again when nobody holds them
  None,
  Config,       \* configurations a command may set
  MaxScheduled  \* bound: requests scheduled between two resets

ASSUME ReqAssumption == IsFiniteSet(Req) /\ IsFiniteSet(Conn) /\ None \notin Conn
ASSUME ConfigAssumption == Config \subseteq [retries : Nat, pool_size : Nat, max_in_flight : Nat]
ASSUME MaxScheduledAssumption == MaxScheduled \in Nat

VARIABLES
  cfg,          \* retries, pool_size and what max_in_flight() comes to
  req,          \* the tasks, with the future each is waiting for
  conn,         \* the ClientConn objects
  wire,         \* external: requests sent and not answered
  pool,         \* the pooled connections
  wanted,       \* connections the maintainer is still to open in this round
  in_flight,
  stats,        \* the counters in c
  carried       \* history: tasks that were running at the last reset

vars == <<cfg, req, conn, wire, pool, wanted, in_flight, stats, carried>>

Idle == [pc |-> "none", attempt |-> 0, retries |-> 0, conn |-> None, result |-> "none"]
Closed == [alive |-> FALSE, retiring |-> FALSE, pending |-> {}]

Zero == [scheduled |-> 0, ok |-> 0, failed |-> 0]

(* Tasks that exist, those that have begun to run, and those that can      *)
(* stand for a new one, with ids that are new.                             *)
Live == {r \in Req : req[r].pc # "none"}
Begun == {r \in Live : req[r].pc # "spawned"}
Fresh == {r \in Req \ Live : \A m \in wire : m.id[1] # r}

Init ==
  /\ cfg \in Config
  /\ req = [r \in Req |-> Idle]
  /\ conn = [c \in Conn |-> Closed]
  /\ wire = {}
  /\ pool = {}
  /\ wanted = 0
  /\ in_flight = 0
  /\ stats = Zero
  /\ carried = 0

-----------------------------------------------------------------------------
(* Connections. *)
Unused == {c \in Conn : /\ ~conn[c].alive /\ c \notin pool
                        /\ \A r \in Req : req[r].conn # c}

(* Mutant: an id names the request, not the attempt. *)
IdOfRequest(r) == <<r, 0>>

Id(r) == <<r, req[r].attempt>>

(* ClientConn.send, with the task waiting for the reply. *)
Send(r, c) ==
  /\ conn' = [conn EXCEPT ![c] = [conn[c] EXCEPT !.alive = TRUE,
                                              !.pending = conn[c].pending \cup {Id(r)}]]
  /\ wire' = wire \cup {[id |-> Id(r), conn |-> c, attempt |-> req[r].attempt]}
  /\ req' = [req EXCEPT ![r] = [@ EXCEPT !.pc = "sent", !.conn = c]]

(* A reply comes.  One to an attempt that was given up changes nothing. *)
data_received(m, verb) ==
  /\ wire' = wire \ {m}
  /\ conn' = [conn EXCEPT ![m.conn].pending = @ \ {m.id}]
  /\ req' = IF m.id \in conn[m.conn].pending /\ req[m.id[1]].result = "none"
            THEN [req EXCEPT ![m.id[1]].result = verb] ELSE req
  /\ UNCHANGED <<cfg, pool, wanted, in_flight, stats, carried>>

(* The connections in C are gone, with all that is on them. *)
Lost(C) ==
  /\ conn' = [c \in Conn |-> IF c \in C THEN Closed ELSE conn[c]]
  /\ wire' = {m \in wire : m.conn \notin C}

(* The server or the network ends it: whoever waits on it has Crashed. *)
connection_lost(c) ==
  /\ conn[c].alive
  /\ Lost({c})
  /\ req' = [r \in Req |-> IF req[r].conn = c /\ req[r].result = "none"
                           THEN [req[r] EXCEPT !.result = "crashed"] ELSE req[r]]
  /\ UNCHANGED <<cfg, pool, wanted, in_flight, stats, carried>>

-----------------------------------------------------------------------------
(* The task of a request. *)
Ready == {c \in pool : conn[c].alive /\ ~conn[c].retiring}

StartAttempt(q, n) ==
  [q EXCEPT !.pc = IF cfg.pool_size > 0 THEN "pool" ELSE "connect", !.attempt = n,
            !.conn = None, !.result = "none"]

(* It runs for the first time; the number of attempts is settled now. *)
Begin(r) ==
  /\ req[r].pc = "spawned"
  /\ req' = [req EXCEPT ![r] = StartAttempt([@ EXCEPT !.retries = cfg.retries], 0)]
  /\ in_flight' = in_flight + 1
  /\ UNCHANGED <<cfg, conn, wire, pool, wanted, stats, carried>>

(* The task is over, and counted. *)
Over(r, counted) ==
  /\ req' = [req EXCEPT ![r] = Idle]
  /\ stats' = counted
  /\ in_flight' = in_flight - 1

(* The next turn of the loop, if the range it began with has one. *)
NextAttempt(r) ==
  \/ /\ req[r].attempt < req[r].retries
     /\ req' = [req EXCEPT ![r] = StartAttempt(@, @.attempt + 1)]
     /\ UNCHANGED <<stats, in_flight>>
  \/ /\ req[r].attempt >= req[r].retries
     /\ Over(r, [stats EXCEPT !.failed = @ + 1])

(* What _request makes of the way an attempt ended.  Whether it waits goes *)
(* by the retries that are configured now: the last attempt may wait for   *)
(* nothing, and one that is not the last go on at once.                    *)
Ended(r, outcome) ==
  \/ outcome = "OK" /\ Over(r, [stats EXCEPT !.ok = @ + 1])
  \/ /\ outcome # "OK" /\ req[r].attempt < cfg.retries
     /\ req' = [req EXCEPT ![r] = [@ EXCEPT !.pc = "backoff", !.conn = None, !.result = "none"]]
     /\ UNCHANGED <<stats, in_flight>>
  \/ outcome # "OK" /\ req[r].attempt >= cfg.retries /\ NextAttempt(r)

Backoff(r) ==
  /\ req[r].pc = "backoff"
  /\ NextAttempt(r)
  /\ UNCHANGED <<cfg, conn, wire, pool, wanted, carried>>

(* _attempt_per_request: a connection of its own, or none in time. *)
Connect(r) ==
  /\ req[r].pc = "connect"
  /\ \/ /\ \E c \in Unused : Send(r, c)
        /\ UNCHANGED <<in_flight, stats>>
     \/ Ended(r, "timeout") /\ UNCHANGED <<conn, wire>>
  /\ UNCHANGED <<cfg, pool, wanted, carried>>

(* _attempt_pooled: one of the pool as soon as there is one, or none in    *)
(* time.                                                                   *)
PickConn(r) ==
  /\ req[r].pc = "pool"
  /\ \E c \in Ready : Send(r, c)
  /\ UNCHANGED <<cfg, pool, wanted, in_flight, stats, carried>>

(* Mutant: the wait for a connection has no end. *)
PoolTimeoutNever(r) ==
  /\ req[r].pc = "pool" /\ Ready # {}
  /\ Ended(r, "timeout")
  /\ UNCHANGED <<cfg, conn, wire, pool, wanted, carried>>

PoolTimeout(r) ==
  /\ req[r].pc = "pool"
  /\ Ended(r, "timeout")
  /\ UNCHANGED <<cfg, conn, wire, pool, wanted, carried>>

(* wait_for gives up on the reply; the task hears of it later.  Since      *)
(* Python 3.12 the timeout also counts if the future was settled and the   *)
(* task has not yet run.                                                   *)
TimerFires(r) ==
  /\ req[r].pc = "sent" /\ req[r].result # "timeout"
  /\ req' = [req EXCEPT ![r].result = "timeout"]
  /\ UNCHANGED <<cfg, conn, wire, pool, wanted, in_flight, stats, carried>>

(* Mutant: what timed out stays pending on its connection. *)
ResumeKeepsPending(r) ==
  LET c == req[r].conn
  IN /\ req[r].pc = "sent" /\ req[r].result # "none"
     /\ IF req[r].result # "timeout" \/ c \in pool
        THEN UNCHANGED <<conn, wire>>
        ELSE Lost({c})
     /\ Ended(r, req[r].result)
     /\ UNCHANGED <<cfg, pool, wanted, carried>>

(* The task goes on with the result of its future.  After a timeout a      *)
(* connection of its own is aborted; a pooled one is only told.            *)
Resume(r) ==
  LET c == req[r].conn
  IN /\ req[r].pc = "sent" /\ req[r].result # "none"
     /\ IF req[r].result # "timeout" THEN UNCHANGED <<conn, wire>>
        ELSE IF c \in pool
        THEN conn' = [conn EXCEPT ![c].pending = @ \ {Id(r)}] /\ UNCHANGED wire
        ELSE Lost({c})
     /\ Ended(r, req[r].result)
     /\ UNCHANGED <<cfg, pool, wanted, carried>>

-----------------------------------------------------------------------------
(* Mutant: a request that is dropped is not counted as failed. *)
SchedulerForgets(S) ==
  LET full == in_flight >= cfg.max_in_flight
  IN /\ S # {} /\ stats.scheduled + Cardinality(S) <= MaxScheduled
     /\ stats' = [stats EXCEPT !.scheduled = @ + Cardinality(S)]
     /\ req' = [r \in Req |-> IF r \in S /\ ~full THEN [Idle EXCEPT !.pc = "spawned"]
                              ELSE req[r]]
     /\ UNCHANGED <<cfg, conn, wire, pool, wanted, in_flight, carried>>

(* The scheduler wakes up with these many requests due.  None of the tasks *)
(* it spawns runs before it is done, so in_flight is the same for all.     *)
Scheduler(S) ==
  LET full == in_flight >= cfg.max_in_flight
      due == [stats EXCEPT !.scheduled = @ + Cardinality(S)]
  IN /\ S # {} /\ stats.scheduled + Cardinality(S) <= MaxScheduled
     /\ stats' = IF full THEN [due EXCEPT !.failed = @ + Cardinality(S)] ELSE due
     /\ req' = [r \in Req |-> IF r \in S /\ ~full THEN [Idle EXCEPT !.pc = "spawned"]
                              ELSE req[r]]
     /\ UNCHANGED <<cfg, conn, wire, pool, wanted, in_flight, carried>>

(* A round of pool_maintainer up to its first await: the dead are dropped, *)
(* those of age and those beyond the size retire, and retired ones that    *)
(* nobody waits on are closed.                                             *)
PoolMaintainer ==
  /\ wanted = 0
  /\ LET left == {c \in pool : conn[c].alive}
     IN \E aged \in SUBSET left :
          LET young == {c \in left : ~conn[c].retiring} \ aged
          IN \E kept \in SUBSET young :
               LET quiet == {c \in left \ kept : conn[c].pending = {}}
               IN /\ Cardinality(kept) <= cfg.pool_size
                  /\ kept = young \/ Cardinality(kept) = cfg.pool_size
                  /\ pool' = left
                  /\ conn' = [c \in Conn |->
                                IF c \in quiet THEN Closed
                                ELSE IF c \in left \ kept THEN [conn[c] EXCEPT !.retiring = TRUE]
                                ELSE conn[c]]
                  /\ wire' = {m \in wire : m.conn \notin quiet}
                  /\ wanted' = cfg.pool_size - Cardinality(kept)
  /\ UNCHANGED <<cfg, req, in_flight, stats, carried>>

(* It opens a connection, or cannot and leaves the rest to the next round. *)
PoolConnect ==
  /\ wanted > 0
  /\ \/ \E c \in Unused : /\ conn' = [conn EXCEPT ![c].alive = TRUE]
                          /\ pool' = pool \cup {c}
                          /\ wanted' = wanted - 1
     \/ wanted' = 0 /\ UNCHANGED <<conn, pool>>
  /\ UNCHANGED <<cfg, req, wire, in_flight, stats, carried>>

-----------------------------------------------------------------------------
(* on_command *)
SetConfig(new) ==
  /\ new # cfg
  /\ cfg' = new
  /\ UNCHANGED <<req, conn, wire, pool, wanted, in_flight, stats, carried>>

reset_stats ==
  /\ stats # Zero
  /\ stats' = Zero
  /\ carried' = Cardinality(Live)
  /\ UNCHANGED <<cfg, req, conn, wire, pool, wanted, in_flight>>

-----------------------------------------------------------------------------
Task(r) == Begin(r) \/ Backoff(r) \/ Connect(r) \/ PickConn(r) \/ Resume(r)

Timer(r) == PoolTimeout(r) \/ TimerFires(r)

Maintain == PoolMaintainer \/ PoolConnect

Next ==
  \/ \E r \in Req : Task(r) \/ Timer(r)
  \/ \E S \in SUBSET Fresh : Scheduler(S)
  \/ Maintain
  \/ \E m \in wire, verb \in {"OK", "SHED"} : data_received(m, verb)
  \/ \E c \in Conn : connection_lost(c)
  \/ \E new \in Config : SetConfig(new)
  \/ reset_stats

Spec == Init /\ [][Next]_vars

(* The loop runs every task that is ready, and time passes.  Nothing is    *)
(* assumed of the network: replies may never come.                         *)
FairSpec ==
  /\ Spec
  /\ \A r \in Req : WF_vars(Task(r)) /\ WF_vars(Timer(r))
  /\ WF_vars(Maintain)

-----------------------------------------------------------------------------
(* Every variable has its type. *)
TypeOK ==
  /\ cfg \in Config
  /\ \A r \in Req :
       /\ req[r].pc \in {"none", "spawned", "connect", "pool", "sent", "backoff"}
       /\ req[r].result \in {"none", "OK", "SHED", "crashed", "timeout"}
       /\ req[r].conn \in Conn \cup {None} /\ req[r].attempt <= req[r].retries
  /\ pool \subseteq Conn /\ wanted \in Nat /\ in_flight \in Nat /\ carried \in Nat

(* Every request that was scheduled since the counters were reset, or was  *)
(* running then, is counted as ok or failed once, or still runs; and what  *)
(* in_flight holds back new ones by is the number of tasks that run.       *)
RequestsAccounted ==
  /\ stats.scheduled + carried = stats.ok + stats.failed + Cardinality(Live)
  /\ in_flight = Cardinality(Begun)

(* A reply counts only for the attempt it answers, neither for a retry of  *)
(* the request nor for another attempt on the same connection, and not     *)
(* after a timeout: once settled, an attempt can still time out, and that  *)
(* is final (load_client.py:95-97).                                        *)
ReplyIsOwn ==
  [][\A r \in Req : req[r].pc = "sent" /\ req'[r].pc = "sent" /\ req'[r].result # req[r].result =>
       \/ req'[r].result = "timeout"
       \/ /\ req[r].result = "none"
          /\ req'[r].result \in {"OK", "SHED"} =>
               \E m \in wire \ wire' : m.id[1] = r /\ m.attempt = req[r].attempt]_vars

(* Every request comes to an end, whatever the network does. *)
RequestEnds == \A r \in Req : req[r].pc = "spawned" ~> req[r].pc = "none"

(* A pooled connection that is retired is closed in the end, also when     *)
(* replies it waits for never come: a drained backend can get rid of it.   *)
RetiringCloses == \A c \in Conn : conn[c].retiring ~> ~conn[c].alive

-----------------------------------------------------------------------------
(* What the names and the docs suggest and the code does not do: TLC       *)
(* refutes each of these (README.md, "What the code does not do").         *)

(* No request begins with max_in_flight of them in flight                  *)
(* (load_client.py:253).                                                   *)
InFlightIsBounded == [][in_flight' > in_flight => in_flight < cfg.max_in_flight]_vars

(* A retry is a new connection (docs/live-mode.md:118-119). *)
RetryIsNewConnection ==
  [][\A r \in Req : req[r].pc # "sent" /\ req'[r].pc = "sent" /\ req[r].attempt > 0
                    => ~conn[req'[r].conn].alive]_vars
=============================================================================
