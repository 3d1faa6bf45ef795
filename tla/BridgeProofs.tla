---------------------------- MODULE BridgeProofs ----------------------------
(***************************************************************************)
(* The parts of the bridge process, each for any value of its constants.   *)
(* The load client: requests are accounted for, and a reply answers the    *)
(* request that waits for it.  The streams: the mailbox counts those that  *)
(* are open, no place of the semaphore is lost, the load is paused only    *)
(* when nobody watched for as long as it says, and browsers are sent       *)
(* snapshots in order.  The pipe the bridge commands the load balancer     *)
(* through: what is read from it is what was written, line by line.        *)
(***************************************************************************)
EXTENDS LoadClient, LiveBridge, AdminFifo, Induction

-----------------------------------------------------------------------------
(* The load client *)

Pc == {"none", "spawned", "connect", "pool", "sent", "backoff"}
Result == {"none", "OK", "SHED", "crashed", "timeout"}
TaskSet == [pc : Pc, attempt : Nat, retries : Nat, conn : Conn \cup {None}, result : Result]

(* The part of the state the counters go by. *)
CountTypes ==
  /\ cfg \in Config
  /\ req \in [Req -> TaskSet]
  /\ stats \in [scheduled : Int, ok : Int, failed : Int]
  /\ in_flight \in Int /\ carried \in Int
  /\ pool \subseteq Conn

CountInv == CountTypes /\ RequestsAccounted

-----------------------------------------------------------------------------
(* The counters *)

LEMMA FiniteTasks ==
  /\ IsFiniteSet(Live) /\ Cardinality(Live) \in Nat
  /\ IsFiniteSet(Begun) /\ Cardinality(Begun) \in Nat
<1>1. Live \subseteq Req /\ Begun \subseteq Req
  BY DEF Live, Begun
<1> QED
  BY <1>1, ReqAssumption, FS_Subset, FS_CardinalityType

(* A step after which the same tasks run. *)
LEMMA SameTasks ==
  ASSUME RequestsAccounted,
         \A r \in Req : (req'[r].pc = "none") = (req[r].pc = "none"),
         \A r \in Req : (req'[r].pc = "spawned") = (req[r].pc = "spawned"),
         UNCHANGED <<stats, carried, in_flight>>
  PROVE  RequestsAccounted'
<1>1. Live' = Live /\ Begun' = Begun
  BY DEF Live, Begun
<1> QED
  BY <1>1 DEF RequestsAccounted

LEMMA StartAttemptType ==
  ASSUME NEW q \in TaskSet, NEW n \in Nat
  PROVE  /\ StartAttempt(q, n) \in TaskSet /\ StartAttempt(q, n).pc \in {"connect", "pool"}
         /\ StartAttempt(q, n).conn = None /\ StartAttempt(q, n).result = "none"
BY Zenon DEF StartAttempt, TaskSet, Pc, Result

(* The task of a request goes on without a connection: it sleeps, or tries *)
(* again.                                                                  *)
GoesOn(r) ==
  /\ \E q \in TaskSet : /\ q.pc \in {"backoff", "connect", "pool"}
                        /\ q.conn = None /\ q.result = "none"
                        /\ req' = [req EXCEPT ![r] = q]
  /\ UNCHANGED <<stats, in_flight>>

(* It is over, as ok or as failed. *)
IsOver(r) ==
  \/ Over(r, [stats EXCEPT !.ok = @ + 1])
  \/ Over(r, [stats EXCEPT !.failed = @ + 1])

LEMMA NextAttemptEnds ==
  ASSUME CountInv, NEW r \in Req, NextAttempt(r)
  PROVE  GoesOn(r) \/ IsOver(r)
<1>1. CASE /\ req' = [req EXCEPT ![r] = StartAttempt(req[r], req[r].attempt + 1)]
           /\ UNCHANGED <<stats, in_flight>>
  <2>1. req[r] \in TaskSet /\ req[r].attempt + 1 \in Nat
    BY DEF CountInv, CountTypes, TaskSet
  <2> DEFINE q == StartAttempt(req[r], req[r].attempt + 1)
  <2>2. q \in TaskSet /\ q.pc \in {"connect", "pool"} /\ q.conn = None /\ q.result = "none"
    BY Zenon, <2>1, StartAttemptType
  <2>3. req' = [req EXCEPT ![r] = q]
    BY <1>1
  <2> HIDE DEF q
  <2> QED
    BY Zenon, <1>1, <2>2, <2>3 DEF GoesOn
<1>2. CASE Over(r, [stats EXCEPT !.failed = @ + 1])
  BY <1>2 DEF IsOver
<1> QED
  BY Zenon, <1>1, <1>2 DEF NextAttempt

LEMMA EndedEnds ==
  ASSUME CountInv, NEW r \in Req, NEW outcome, Ended(r, outcome)
  PROVE  GoesOn(r) \/ IsOver(r)
<1> DEFINE q == [req[r] EXCEPT !.pc = "backoff", !.conn = None, !.result = "none"]
<1>1. CASE req' = [req EXCEPT ![r] = q] /\ UNCHANGED <<stats, in_flight>>
  <2>1. req[r] \in TaskSet
    BY DEF CountInv, CountTypes
  <2>2. q \in TaskSet /\ q.pc = "backoff" /\ q.conn = None /\ q.result = "none"
    BY ZenonT(60), <2>1 DEF TaskSet, Pc, Result
  <2> HIDE DEF q
  <2> QED
    BY Zenon, <1>1, <2>2 DEF GoesOn
<1>2. CASE Over(r, [stats EXCEPT !.ok = @ + 1])
  BY <1>2 DEF IsOver
<1>3. CASE NextAttempt(r)
  BY <1>3, NextAttemptEnds
<1> QED
  BY Zenon, <1>1, <1>2, <1>3 DEF Ended

(* An attempt ends: the task goes on, or is counted and is gone. *)
LEMMA EndedCounts ==
  ASSUME CountInv, NEW r \in Req, req[r].pc \notin {"none", "spawned"}, GoesOn(r) \/ IsOver(r),
         UNCHANGED <<cfg, carried, pool>>
  PROVE  CountInv'
<1> USE DEF CountInv
<1>1. CASE GoesOn(r)
  <2>1. PICK q \in TaskSet : /\ q.pc \in {"backoff", "connect", "pool"}
                             /\ req' = [req EXCEPT ![r] = q]
    BY Zenon, <1>1 DEF GoesOn
  <2>2. stats' = stats /\ in_flight' = in_flight
    BY <1>1 DEF GoesOn
  <2>3. CountTypes'
    BY <2>1, <2>2 DEF CountTypes
  <2>4. req'[r] = q /\ \A s \in Req \ {r} : req'[s] = req[s]
    BY <2>1 DEF CountTypes
  <2> QED
    BY <2>1, <2>2, <2>3, <2>4, SameTasks
<1>2. CASE IsOver(r)
  <2>1. req' = [req EXCEPT ![r] = Idle] /\ in_flight' = in_flight - 1
    BY Zenon, <1>2 DEF IsOver, Over
  <2>2. stats' \in {[stats EXCEPT !.ok = @ + 1], [stats EXCEPT !.failed = @ + 1]}
    BY Zenon, <1>2 DEF IsOver, Over
  <2>3. /\ stats' \in [scheduled : Int, ok : Int, failed : Int]
        /\ stats'.scheduled = stats.scheduled
        /\ stats'.ok + stats'.failed = stats.ok + stats.failed + 1
    BY <2>2 DEF CountTypes
  <2>4. Idle \in TaskSet
    BY DEF Idle, TaskSet, Pc, Result
  <2>5. CountTypes'
    BY <2>1, <2>3, <2>4 DEF CountTypes
  <2>6. /\ r \in Live /\ Live' = Live \ {r}
        /\ r \in Begun /\ Begun' = Begun \ {r}
    BY <2>1 DEF CountTypes, Live, Begun, Idle
  <2>7. /\ Cardinality(Live') = Cardinality(Live) - 1
        /\ Cardinality(Begun') = Cardinality(Begun) - 1
    BY Zenon, <2>6, FiniteTasks, FS_RemoveElement
  <2>8. RequestsAccounted'
    BY <2>1, <2>3, <2>7, FiniteTasks DEF RequestsAccounted, CountTypes
  <2> QED
    BY <2>5, <2>8
<1> QED
  BY <1>1, <1>2

(* A request is sent: its task waits on the connection. *)
LEMMA SendCounts ==
  ASSUME CountInv, NEW r \in Req, NEW c \in Conn, req[r].pc \in {"connect", "pool"}, Send(r, c),
         UNCHANGED <<cfg, stats, in_flight, carried, pool>>
  PROVE  CountInv'
<1> USE DEF CountInv
<1>1. req' = [req EXCEPT ![r] = [req[r] EXCEPT !.pc = "sent", !.conn = c]]
  BY DEF Send
<1>2. CountTypes'
  <2>1. [req[r] EXCEPT !.pc = "sent", !.conn = c] \in TaskSet
    BY ZenonT(40) DEF CountTypes, TaskSet, Pc
  <2> QED
    BY <1>1, <2>1 DEF CountTypes
<1>3. req'[r].pc = "sent" /\ \A s \in Req \ {r} : req'[s] = req[s]
  BY <1>1 DEF CountTypes, TaskSet
<1> QED
  BY <1>2, <1>3, SameTasks

LEMMA InitCount == Init => CountInv
<1> SUFFICES ASSUME Init PROVE CountInv
  OBVIOUS
<1>1. CountTypes
  BY DEF Init, Idle, Zero, CountTypes, TaskSet, Pc, Result
<1>2. Live = {} /\ Begun = {}
  BY DEF Init, Idle, Live, Begun
<1> QED
  BY <1>1, <1>2, FS_EmptySet DEF Init, Zero, CountInv, RequestsAccounted

LEMMA SchedulerCounts ==
  ASSUME CountInv, NEW S \in SUBSET Fresh, Scheduler(S)
  PROVE  CountInv'
<1> USE DEF CountInv
<1> DEFINE full == in_flight >= cfg.max_in_flight
<1>1. S \subseteq Req /\ Live \cap S = {} /\ IsFiniteSet(S) /\ Cardinality(S) \in Nat
  <2>1. S \subseteq Req /\ Live \cap S = {}
    BY DEF Fresh
  <2> QED
    BY <2>1, ReqAssumption, FS_Subset, FS_CardinalityType
<1>2. [Idle EXCEPT !.pc = "spawned"] \in TaskSet /\ [Idle EXCEPT !.pc = "spawned"].pc = "spawned"
  BY DEF Idle, TaskSet, Pc, Result
<1>3. UNCHANGED <<cfg, in_flight, carried, pool>>
  BY DEF Scheduler
<1>4. CASE full
  <2>1. /\ stats' = [[stats EXCEPT !.scheduled = @ + Cardinality(S)]
                       EXCEPT !.failed = @ + Cardinality(S)]
        /\ req' = [r \in Req |-> req[r]]
    BY <1>4 DEF Scheduler
  <2>2. req' = req
    BY <2>1 DEF CountTypes
  <2>3. Live' = Live /\ Begun' = Begun
    BY <2>2 DEF Live, Begun
  <2>4. /\ stats' \in [scheduled : Int, ok : Int, failed : Int]
        /\ stats'.scheduled = stats.scheduled + Cardinality(S)
        /\ stats'.failed = stats.failed + Cardinality(S)
        /\ stats'.ok = stats.ok
    <3> DEFINE due == [stats EXCEPT !.scheduled = @ + Cardinality(S)]
    <3>1. /\ due \in [scheduled : Int, ok : Int, failed : Int]
          /\ due.scheduled = stats.scheduled + Cardinality(S)
          /\ due.failed = stats.failed /\ due.ok = stats.ok
      BY <1>1 DEF CountTypes
    <3>2. stats' = [due EXCEPT !.failed = @ + Cardinality(S)]
      BY <2>1
    <3> HIDE DEF due
    <3> QED
      BY <1>1, <3>1, <3>2
  <2>5. CountTypes'
    BY <1>3, <2>2, <2>4 DEF CountTypes
  <2> QED
    BY <1>1, <1>3, <2>3, <2>4, <2>5, FiniteTasks DEF RequestsAccounted, CountTypes
<1>5. CASE ~full
  <2>1. /\ stats' = [stats EXCEPT !.scheduled = @ + Cardinality(S)]
        /\ req' = [r \in Req |-> IF r \in S THEN [Idle EXCEPT !.pc = "spawned"] ELSE req[r]]
    BY <1>5 DEF Scheduler
  <2>2. req' \in [Req -> TaskSet]
    BY <1>2, <2>1 DEF CountTypes
  <2>3. Live' = Live \cup S /\ Begun' = Begun
    BY <1>1, <1>2, <2>1 DEF Live, Begun
  <2>4. Cardinality(Live') = Cardinality(Live) + Cardinality(S)
    <3>1. Cardinality(Live \cup S) = Cardinality(Live) + Cardinality(S) - Cardinality(Live \cap S)
      BY <1>1, FiniteTasks, FS_Union
    <3> QED
      BY <1>1, <2>3, <3>1, FiniteTasks, FS_EmptySet
  <2>5. /\ stats' \in [scheduled : Int, ok : Int, failed : Int]
        /\ stats'.scheduled = stats.scheduled + Cardinality(S)
        /\ stats'.failed = stats.failed
        /\ stats'.ok = stats.ok
    BY <1>1, <2>1 DEF CountTypes
  <2>6. CountTypes'
    BY <1>3, <2>2, <2>5 DEF CountTypes
  <2> QED
    BY <1>1, <1>3, <2>3, <2>4, <2>5, <2>6, FiniteTasks DEF RequestsAccounted, CountTypes
<1> QED
  BY <1>4, <1>5

LEMMA NextCount == CountInv /\ [Next]_vars => CountInv'
<1> SUFFICES ASSUME CountInv, [Next]_vars PROVE CountInv'
  OBVIOUS
<1> USE DEF CountInv
<1>1. ASSUME NEW r \in Req, Begin(r) PROVE CountInv'
  <2> DEFINE q == StartAttempt([req[r] EXCEPT !.retries = cfg.retries], 0)
  <2>1. [req[r] EXCEPT !.retries = cfg.retries] \in TaskSet
    BY ConfigAssumption DEF CountTypes, TaskSet
  <2>2. q \in TaskSet /\ q.pc \in {"connect", "pool"}
    BY <2>1, StartAttemptType
  <2>3. /\ req' = [req EXCEPT ![r] = q] /\ in_flight' = in_flight + 1
        /\ UNCHANGED <<cfg, stats, carried, pool>> /\ req[r].pc = "spawned"
    BY <1>1 DEF Begin
  <2> HIDE DEF q
  <2>4. CountTypes'
    BY <2>2, <2>3 DEF CountTypes
  <2>5. Live' = Live /\ r \notin Begun /\ Begun' = Begun \cup {r}
    BY <2>2, <2>3 DEF CountTypes, Live, Begun
  <2>6. Cardinality(Begun') = Cardinality(Begun) + 1
    BY Zenon, <2>5, FiniteTasks, FS_AddElement
  <2> QED
    BY <2>3, <2>4, <2>5, <2>6 DEF RequestsAccounted
<1>2. ASSUME NEW r \in Req, Backoff(r) PROVE CountInv'
  BY <1>2, NextAttemptEnds, EndedCounts DEF Backoff
<1>3. ASSUME NEW r \in Req, Connect(r) PROVE CountInv'
  <2>1. CASE \E c \in Unused : Send(r, c) /\ UNCHANGED <<in_flight, stats>>
    BY <1>3, <2>1, SendCounts DEF Connect, Unused
  <2>2. CASE Ended(r, "timeout")
    BY <1>3, <2>2, EndedEnds, EndedCounts DEF Connect
  <2> QED
    BY <1>3, <2>1, <2>2 DEF Connect
<1>4. ASSUME NEW r \in Req, PickConn(r) PROVE CountInv'
  <2>1. PICK c \in Ready : Send(r, c)
    BY <1>4 DEF PickConn
  <2>2. c \in Conn
    BY DEF Ready, CountTypes
  <2> QED
    BY <1>4, <2>1, <2>2, SendCounts DEF PickConn
<1>5. ASSUME NEW r \in Req, Resume(r) PROVE CountInv'
  BY <1>5, EndedEnds, EndedCounts DEF Resume
<1>6. ASSUME NEW r \in Req, PoolTimeout(r) PROVE CountInv'
  BY <1>6, EndedEnds, EndedCounts DEF PoolTimeout
<1>7. ASSUME NEW r \in Req, TimerFires(r) PROVE CountInv'
  <2>1. req' = [req EXCEPT ![r].result = "timeout"]
    BY <1>7 DEF TimerFires
  <2>2. CountTypes'
    BY <1>7, <2>1 DEF TimerFires, CountTypes, TaskSet, Result
  <2>3. \A s \in Req : req'[s].pc = req[s].pc
    BY <2>1 DEF CountTypes, TaskSet
  <2> QED
    BY <1>7, <2>2, <2>3, SameTasks DEF TimerFires
<1>8. ASSUME NEW m \in wire, NEW verb \in {"OK", "SHED"}, data_received(m, verb) PROVE CountInv'
  <2>1. req' = req \/ req' = [req EXCEPT ![m.id[1]].result = verb]
    BY <1>8 DEF data_received
  <2>2. req' \in [Req -> TaskSet]
    BY <2>1 DEF CountTypes, TaskSet, Result
  <2>2a. CountTypes'
    BY <1>8, <2>2 DEF data_received, CountTypes
  <2>3. \A s \in Req : req'[s].pc = req[s].pc
    BY <2>1 DEF CountTypes, TaskSet
  <2> QED
    BY <1>8, <2>2a, <2>3, SameTasks DEF data_received
<1>9. ASSUME NEW c \in Conn, connection_lost(c) PROVE CountInv'
  <2>1. req' = [r \in Req |-> IF req[r].conn = c /\ req[r].result = "none"
                              THEN [req[r] EXCEPT !.result = "crashed"] ELSE req[r]]
    BY <1>9 DEF connection_lost
  <2>2. CountTypes'
    BY <1>9, <2>1 DEF connection_lost, CountTypes, TaskSet, Result
  <2>3. \A s \in Req : req'[s].pc = req[s].pc
    BY <2>1 DEF CountTypes, TaskSet
  <2> QED
    BY <1>9, <2>2, <2>3, SameTasks DEF connection_lost
<1>10. ASSUME Maintain PROVE CountInv'
  <2>1. UNCHANGED <<cfg, req, in_flight, stats, carried>>
    BY <1>10 DEF Maintain, PoolMaintainer, PoolConnect
  <2>2. pool' \subseteq Conn
    BY <1>10 DEF Maintain, PoolMaintainer, PoolConnect, Unused, CountTypes
  <2>3. CountTypes'
    BY <2>1, <2>2 DEF CountTypes
  <2> QED
    BY <2>1, <2>3, SameTasks
<1>11. ASSUME NEW new \in Config, SetConfig(new) PROVE CountInv'
  <2>1. CountTypes'
    BY <1>11 DEF SetConfig, CountTypes
  <2> QED
    BY <1>11, <2>1, SameTasks DEF SetConfig
<1>12. ASSUME reset_stats PROVE CountInv'
  <2>1. Live' = Live /\ Begun' = Begun
    BY <1>12 DEF reset_stats, Live, Begun
  <2>2. CountTypes'
    BY <1>12, FiniteTasks DEF reset_stats, Zero, CountTypes
  <2> QED
    BY <1>12, <2>1, <2>2, FiniteTasks DEF reset_stats, Zero, RequestsAccounted
<1>13. ASSUME UNCHANGED vars PROVE CountInv'
  <2>1. CountTypes'
    BY <1>13 DEF vars, CountTypes
  <2> QED
    BY <1>13, <2>1, SameTasks DEF vars
<1> QED
  BY <1>1, <1>2, <1>3, <1>4, <1>5, <1>6, <1>7, <1>8, <1>9, <1>10, <1>11, <1>12, <1>13,
     SchedulerCounts DEF Next, Task, Timer

(* Every request load_client.py schedules is counted once as ok or failed, *)
(* or still runs, however many there are and whenever counters are reset.  *)
THEOREM Accounting == Spec => []RequestsAccounted
<1>1. CountInv => RequestsAccounted
  BY DEF CountInv
<1> QED
  BY <1>1, InitCount, NextCount, PTL DEF Spec

-----------------------------------------------------------------------------
(* The ids *)

ConnSet == [alive : BOOLEAN, retiring : BOOLEAN, pending : SUBSET (Req \X Nat)]

ConnTypes ==
  /\ conn \in [Conn -> ConnSet]
  /\ \A m \in wire : m.conn \in Conn /\ m.id \in Req \X Nat /\ m.attempt = m.id[2]

(* What is pending on a connection is the current attempt of a request     *)
(* that waits there, and whose end only a reply, a loss or its own timeout *)
(* can have settled.                                                       *)
PendingIsCurrent ==
  \A c \in Conn : \A id \in conn[c].pending :
    LET q == req[id[1]]
    IN q.pc = "sent" /\ q.attempt = id[2] /\ q.conn = c /\ q.result \in {"none", "timeout"}

(* A task waits on a connection, and for a result, only once it has sent. *)
OnlySentWaits == \A r \in Req : req[r].pc # "sent" => req[r].conn = None /\ req[r].result = "none"

IdInv == ConnTypes /\ PendingIsCurrent

(* Nothing becomes pending, and those whose id stays pending stay as they  *)
(* were.                                                                   *)
LEMMA PendingShrinks ==
  ASSUME IdInv, ConnTypes',
         \A c \in Conn : conn'[c].pending \subseteq conn[c].pending,
         \A c \in Conn : \A id \in conn'[c].pending : req'[id[1]] = req[id[1]]
  PROVE  IdInv'
BY DEF IdInv, PendingIsCurrent

(* A task that waits for no reply has nothing pending. *)
LEMMA NothingPending ==
  ASSUME CountInv, IdInv, NEW r \in Req, req[r].pc # "sent"
  PROVE  \A c \in Conn : \A id \in conn[c].pending : id[1] # r
BY DEF IdInv, PendingIsCurrent

LEMMA EndedElsewhere ==
  ASSUME CountInv, NEW r \in Req, GoesOn(r) \/ IsOver(r)
  PROVE  \A s \in Req \ {r} : req'[s] = req[s]
BY DEF GoesOn, IsOver, Over, CountInv, CountTypes

(* What is done to a connection and leaves what is pending on it. *)
LEMMA ConnKept ==
  ASSUME NEW k \in ConnSet
  PROVE  /\ [k EXCEPT !.retiring = TRUE] \in ConnSet /\ [k EXCEPT !.retiring = TRUE].pending = k.pending
         /\ [k EXCEPT !.alive = TRUE] \in ConnSet /\ [k EXCEPT !.alive = TRUE].pending = k.pending
BY Zenon DEF ConnSet

LEMMA ClosedType == Closed \in ConnSet /\ Closed.pending = {}
BY DEF Closed, ConnSet

LEMMA SendIds ==
  ASSUME CountInv, IdInv, NEW r \in Req, NEW c \in Conn, req[r].pc \in {"connect", "pool"},
         req[r].result = "none", Send(r, c)
  PROVE  IdInv'
<1>1. /\ Id(r) = <<r, req[r].attempt>>
      /\ Id(r) \in Req \X Nat
  BY DEF Id, CountInv, CountTypes, TaskSet
<1> DEFINE k == [conn[c] EXCEPT !.alive = TRUE, !.pending = conn[c].pending \cup {Id(r)}]
<1>2. conn' = [conn EXCEPT ![c] = k]
  BY DEF Send
<1>3. /\ k \in ConnSet
      /\ k.pending = conn[c].pending \cup {Id(r)}
  BY ZenonT(60), <1>1 DEF IdInv, ConnTypes, ConnSet
<1> HIDE DEF k
<1>4. ConnTypes'
  <2>1. \A m \in wire' : m.conn \in Conn /\ m.id \in Req \X Nat /\ m.attempt = m.id[2]
    BY <1>1 DEF Send, IdInv, ConnTypes, ConnSet
  <2> QED
    BY <1>2, <1>3, <2>1 DEF IdInv, ConnTypes, ConnSet
<1>5. /\ req'[r] = [req[r] EXCEPT !.pc = "sent", !.conn = c]
      /\ \A s \in Req \ {r} : req'[s] = req[s]
  BY DEF Send, CountInv, CountTypes
<1>6. req'[r].pc = "sent" /\ req'[r].conn = c /\ req'[r].attempt = req[r].attempt
      /\ req'[r].result = "none"
  BY <1>5 DEF CountInv, CountTypes, TaskSet
<1>7. ASSUME NEW d \in Conn, NEW id \in conn'[d].pending
      PROVE  LET q == req'[id[1]]
             IN q.pc = "sent" /\ q.attempt = id[2] /\ q.conn = d /\ q.result \in {"none", "timeout"}
  <2>1. CASE d = c /\ id = Id(r)
    BY <1>1, <1>6, <2>1
  <2>2. CASE id \in conn[d].pending
    <3>1. id[1] \in Req /\ id[1] # r
      BY <2>2, NothingPending DEF IdInv, ConnTypes, ConnSet
    <3> QED
      BY <1>5, <2>2, <3>1 DEF IdInv, PendingIsCurrent
  <2> QED
    BY <1>2, <1>3, <2>1, <2>2 DEF IdInv, ConnTypes, ConnSet
<1> QED
  BY <1>4, <1>7 DEF IdInv, PendingIsCurrent

(* The end of an attempt of a task that has nothing pending any more. *)
LEMMA EndedIds ==
  ASSUME CountInv, IdInv, OnlySentWaits, NEW r \in Req, GoesOn(r) \/ IsOver(r), ConnTypes',
         \A c \in Conn : conn'[c].pending \subseteq conn[c].pending,
         \A c \in Conn : \A id \in conn'[c].pending : id[1] # r
  PROVE  IdInv' /\ OnlySentWaits' /\ req'[r].pc # "sent"
<1>1. \A s \in Req \ {r} : req'[s] = req[s]
  BY EndedElsewhere
<1>2. \A c \in Conn : \A id \in conn'[c].pending : req'[id[1]] = req[id[1]]
  BY <1>1 DEF IdInv, ConnTypes, ConnSet
<1>3. IdInv'
  BY <1>2, PendingShrinks
<1>4. req'[r].pc # "sent" /\ req'[r].conn = None /\ req'[r].result = "none"
  <2>1. CASE GoesOn(r)
    BY <2>1 DEF GoesOn, CountInv, CountTypes
  <2>2. CASE IsOver(r)
    <3>1. req'[r] = Idle
      BY <2>2 DEF IsOver, Over, CountInv, CountTypes
    <3> QED
      BY <3>1 DEF Idle
  <2> QED
    BY <2>1, <2>2
<1> QED
  BY <1>1, <1>3, <1>4 DEF OnlySentWaits

LEMMA LostIds ==
  ASSUME IdInv, NEW C \in SUBSET Conn, Lost(C)
  PROVE  /\ ConnTypes'
         /\ \A c \in Conn : conn'[c].pending \subseteq conn[c].pending
         /\ \A c \in C : conn'[c].pending = {}
<1>1. conn' = [c \in Conn |-> IF c \in C THEN Closed ELSE conn[c]] /\ wire' \subseteq wire
  BY DEF Lost
<1> QED
  BY <1>1, ClosedType DEF IdInv, ConnTypes

LEMMA ResumeIds ==
  ASSUME CountInv, IdInv, OnlySentWaits, NEW r \in Req, Resume(r)
  PROVE  IdInv' /\ OnlySentWaits' /\ req'[r].pc # "sent"
<1> DEFINE c == req[r].conn
<1>0. GoesOn(r) \/ IsOver(r)
  BY EndedEnds DEF Resume
<1>1. \A d \in Conn : \A id \in conn[d].pending :
        id[1] = r => d = c /\ id = Id(r) /\ req[r].result \in {"none", "timeout"}
  BY DEF IdInv, ConnTypes, ConnSet, PendingIsCurrent, Id
<1>2. CASE req[r].result # "timeout"
  <2>1. ConnTypes' /\ conn' = conn
    BY <1>2 DEF Resume, IdInv, ConnTypes, ConnSet
  <2>2. \A d \in Conn : \A id \in conn'[d].pending : id[1] # r
    BY <1>1, <1>2, <2>1 DEF Resume
  <2> QED
    BY <1>0, <2>1, <2>2, EndedIds
<1>3. CASE req[r].result = "timeout" /\ c \in pool
  <2>1. conn' = [conn EXCEPT ![c].pending = @ \ {Id(r)}] /\ wire' = wire /\ c \in Conn
    BY SMTT(60), <1>3 DEF Resume, CountInv, CountTypes
  <2>2. /\ conn' \in [Conn -> ConnSet]
        /\ conn'[c].pending = conn[c].pending \ {Id(r)}
        /\ \A d \in Conn \ {c} : conn'[d] = conn[d]
    BY SMTT(60), <2>1 DEF IdInv, ConnTypes, ConnSet
  <2>3. ConnTypes'
    BY <2>1, <2>2 DEF IdInv, ConnTypes, ConnSet
  <2>4. \A d \in Conn : conn'[d].pending \subseteq conn[d].pending
    BY <2>2
  <2>5. \A d \in Conn : \A id \in conn'[d].pending : id[1] # r
    BY <1>1, <2>2, <2>4
  <2> QED
    BY <1>0, <2>3, <2>4, <2>5, EndedIds
<1>4. CASE req[r].result = "timeout" /\ c \notin pool
  <2>1. Lost({c})
    BY <1>4 DEF Resume
  <2>2. CASE c \in Conn
    <3>1. /\ ConnTypes'
          /\ \A d \in Conn : conn'[d].pending \subseteq conn[d].pending
          /\ conn'[c].pending = {}
      BY <2>1, <2>2, LostIds
    <3>2. \A d \in Conn : \A id \in conn'[d].pending : id[1] # r
      BY <1>1, <3>1
    <3> QED
      BY <1>0, <3>1, <3>2, EndedIds
  <2>3. CASE c \notin Conn
    <3>1. ConnTypes' /\ conn' = conn
      BY <2>1, <2>3 DEF Lost, IdInv, ConnTypes, ConnSet
    <3> QED
      BY <1>0, <1>1, <2>3, <3>1, EndedIds
  <2> QED
    BY <2>2, <2>3
<1> QED
  BY <1>2, <1>3, <1>4

LEMMA DeliverIds ==
  ASSUME CountInv, IdInv, OnlySentWaits, NEW m \in wire, NEW verb \in {"OK", "SHED"},
         data_received(m, verb)
  PROVE  IdInv' /\ OnlySentWaits'
<1> DEFINE r == m.id[1]
           c == m.conn
<1>1. r \in Req /\ c \in Conn /\ m.id = <<r, m.id[2]>>
  BY DEF IdInv, ConnTypes, ConnSet
<1>2. conn' = [conn EXCEPT ![c].pending = @ \ {m.id}] /\ wire' \subseteq wire
  BY DEF data_received
<1>3. /\ conn' \in [Conn -> ConnSet]
      /\ conn'[c].pending = conn[c].pending \ {m.id}
      /\ \A d \in Conn \ {c} : conn'[d] = conn[d]
  BY <1>1, <1>2 DEF IdInv, ConnTypes, ConnSet
<1>4. ConnTypes' /\ \A d \in Conn : conn'[d].pending \subseteq conn[d].pending
  BY <1>2, <1>3 DEF IdInv, ConnTypes, ConnSet
<1>5. CASE m.id \in conn[c].pending /\ req[r].result = "none"
  <2>1. req' = [req EXCEPT ![r].result = verb]
    BY <1>5 DEF data_received
  <2>2. /\ \A s \in Req \ {r} : req'[s] = req[s]
        /\ req'[r].pc = req[r].pc
    BY <1>1, <2>1 DEF CountInv, CountTypes, TaskSet
  <2>3. \A d \in Conn : \A id \in conn[d].pending : id[1] = r => d = c /\ id = m.id
    BY <1>1, <1>5 DEF IdInv, ConnTypes, ConnSet, PendingIsCurrent
  <2>4. \A d \in Conn : \A id \in conn'[d].pending : id[1] \in Req \ {r}
    BY <1>3, <1>4, <2>3 DEF IdInv, ConnTypes, ConnSet
  <2>5. req[r].pc = "sent"
    BY <1>1, <1>5 DEF IdInv, PendingIsCurrent
  <2>6. IdInv'
    BY <1>4, <2>2, <2>4, PendingShrinks
  <2> QED
    BY <2>2, <2>5, <2>6 DEF OnlySentWaits
<1>6. CASE ~(m.id \in conn[c].pending /\ req[r].result = "none")
  <2>1. req' = req
    BY <1>6 DEF data_received
  <2> QED
    BY <1>4, <2>1, PendingShrinks DEF OnlySentWaits
<1> QED
  BY <1>5, <1>6

LEMMA InitIds == Init => IdInv /\ OnlySentWaits
BY ClosedType DEF Init, Idle, IdInv, ConnTypes, PendingIsCurrent, OnlySentWaits

(* Settled says that a step settles how an attempt ended by a timeout, or  *)
(* if it was open, and then by a reply only if it is the attempt's own.    *)
Settled(r) ==
  req[r].pc = "sent" /\ req'[r].pc = "sent" /\ req'[r].result # req[r].result =>
    \/ req'[r].result = "timeout"
    \/ /\ req[r].result = "none"
       /\ req'[r].result \in {"OK", "SHED"} =>
            \E m \in wire \ wire' : m.id[1] = r /\ m.attempt = req[r].attempt

LEMMA NextIds ==
  ASSUME CountInv, IdInv, OnlySentWaits, [Next]_vars
  PROVE  IdInv' /\ OnlySentWaits' /\ \A r \in Req : Settled(r)
<1> DEFINE Goal == IdInv' /\ OnlySentWaits' /\ \A r \in Req : Settled(r)
<1>1. ASSUME NEW r \in Req, NEW q, req[r].pc # "sent", req' = [req EXCEPT ![r] = q],
             q.pc # "sent", q.conn = None, q.result = "none", UNCHANGED <<conn, wire>>
      PROVE  Goal
  <2>1. req'[r] = q /\ \A s \in Req \ {r} : req'[s] = req[s]
    BY <1>1 DEF CountInv, CountTypes
  <2>2. ConnTypes'
    BY <1>1 DEF IdInv, ConnTypes, ConnSet
  <2>3. \A c \in Conn : \A id \in conn'[c].pending : id[1] \in Req \ {r}
    BY <1>1, NothingPending DEF IdInv, ConnTypes, ConnSet
  <2>4. IdInv'
    BY <1>1, <2>1, <2>2, <2>3, PendingShrinks
  <2> QED
    BY <1>1, <2>1, <2>4 DEF OnlySentWaits, Settled
<1>2. ASSUME NEW r \in Req, Begin(r) PROVE Goal
  <2> DEFINE p == [req[r] EXCEPT !.retries = cfg.retries]
  <2>1. p \in TaskSet
    BY ConfigAssumption DEF CountInv, CountTypes, TaskSet
  <2>2. /\ req' = [req EXCEPT ![r] = StartAttempt(p, 0)] /\ UNCHANGED <<conn, wire>>
        /\ req[r].pc # "sent"
    BY <1>2 DEF Begin
  <2>3. /\ StartAttempt(p, 0).pc # "sent" /\ StartAttempt(p, 0).conn = None
        /\ StartAttempt(p, 0).result = "none"
    BY <2>1, StartAttemptType
  <2> QED
    BY Zenon, <1>1, <2>2, <2>3
<1>3. ASSUME NEW r \in Req, NEW c \in Conn, req[r].pc \in {"connect", "pool"}, Send(r, c) PROVE Goal
  <2>1. req[r].result = "none"
    BY <1>3 DEF OnlySentWaits
  <2>2. IdInv'
    BY <1>3, <2>1, SendIds
  <2>3. /\ req'[r] = [req[r] EXCEPT !.pc = "sent", !.conn = c]
        /\ \A s \in Req \ {r} : req'[s] = req[s]
    BY <1>3 DEF Send, CountInv, CountTypes
  <2>4. req'[r].pc = "sent"
    BY <2>3 DEF CountInv, CountTypes, TaskSet
  <2>5. OnlySentWaits'
    BY Zenon, <2>3, <2>4 DEF OnlySentWaits
  <2>6. \A s \in Req : Settled(s)
    BY <1>3, <2>3 DEF Settled
  <2> QED
    BY <2>2, <2>5, <2>6
<1>4. ASSUME NEW r \in Req, GoesOn(r) \/ IsOver(r), req[r].pc # "sent", UNCHANGED <<conn, wire>>
      PROVE  Goal
  <2>1. ConnTypes' /\ \A c \in Conn : \A id \in conn'[c].pending : id[1] # r
    BY <1>4, NothingPending DEF IdInv, ConnTypes, ConnSet
  <2>2. IdInv' /\ OnlySentWaits' /\ req'[r].pc # "sent"
    BY SMTT(60), <1>4, <2>1, EndedIds
  <2> QED
    BY <1>4, <2>2, EndedElsewhere DEF Settled
<1>4a. ASSUME NEW r \in Req, Backoff(r) PROVE Goal
  BY <1>4, <1>4a, NextAttemptEnds DEF Backoff
<1>5. ASSUME NEW r \in Req, Connect(r) PROVE Goal
  <2>1. CASE \E c \in Unused : Send(r, c)
    BY <1>3, <1>5, <2>1 DEF Connect, Unused
  <2>2. CASE Ended(r, "timeout") /\ UNCHANGED <<conn, wire>>
    BY <1>4, <1>5, <2>2, EndedEnds DEF Connect
  <2> QED
    BY <1>5, <2>1, <2>2 DEF Connect
<1>6. ASSUME NEW r \in Req, PickConn(r) PROVE Goal
  <2>1. Ready \subseteq Conn
    BY DEF Ready, CountInv, CountTypes
  <2> QED
    BY <1>3, <1>6, <2>1 DEF PickConn
<1>7. ASSUME NEW r \in Req, PoolTimeout(r) PROVE Goal
  BY <1>4, <1>7, EndedEnds DEF PoolTimeout
<1>8. ASSUME NEW r \in Req, Resume(r) PROVE Goal
  <2>1. \A s \in Req \ {r} : req'[s] = req[s]
    BY <1>8, EndedEnds, EndedElsewhere DEF Resume
  <2> QED
    BY <1>8, <2>1, ResumeIds DEF Settled
<1>9. ASSUME NEW r \in Req, TimerFires(r) PROVE Goal
  <2>1. /\ req' = [req EXCEPT ![r].result = "timeout"]
        /\ UNCHANGED <<conn, wire>> /\ req[r].pc = "sent"
    BY <1>9 DEF TimerFires
  <2>2. /\ \A s \in Req : /\ req'[s].pc = req[s].pc /\ req'[s].attempt = req[s].attempt
                          /\ req'[s].conn = req[s].conn
        /\ req'[r].result = "timeout"
        /\ \A s \in Req \ {r} : req'[s].result = req[s].result
    BY <2>1 DEF CountInv, CountTypes, TaskSet
  <2>3. ConnTypes'
    BY <2>1 DEF IdInv, ConnTypes, ConnSet
  <2>4. PendingIsCurrent'
    <3>1. ASSUME NEW c \in Conn, NEW id \in conn[c].pending
          PROVE  id[1] \in Req /\ req[id[1]].pc = "sent" /\ req[id[1]].attempt = id[2]
                 /\ req[id[1]].conn = c /\ req[id[1]].result \in {"none", "timeout"}
      BY DEF IdInv, ConnTypes, ConnSet, PendingIsCurrent
    <3> QED
      BY <2>1, <2>2, <3>1 DEF PendingIsCurrent
  <2> QED
    BY <2>1, <2>2, <2>3, <2>4 DEF IdInv, OnlySentWaits, Settled
<1>10. ASSUME NEW S \in SUBSET Fresh, Scheduler(S) PROVE Goal
  <2>1. /\ UNCHANGED <<conn, wire>>
        /\ \A s \in Req : \/ req'[s] = req[s]
                          \/ s \in S /\ req'[s] = [Idle EXCEPT !.pc = "spawned"]
    BY <1>10 DEF Scheduler
  <2>2. \A s \in S : req[s].pc = "none"
    BY DEF Fresh, Live
  <2>3. LET q == [Idle EXCEPT !.pc = "spawned"]
        IN q.pc # "sent" /\ q.conn = None /\ q.result = "none"
    BY DEF Idle
  <2>4. ConnTypes'
    BY <2>1 DEF IdInv, ConnTypes, ConnSet
  <2>5. \A c \in Conn : \A id \in conn'[c].pending : req'[id[1]] = req[id[1]]
    <3>1. ASSUME NEW c \in Conn, NEW id \in conn[c].pending
          PROVE  id[1] \in Req /\ req[id[1]].pc = "sent"
      BY DEF IdInv, ConnTypes, ConnSet, PendingIsCurrent
    <3> QED
      BY <2>1, <2>2, <3>1
  <2>6. IdInv'
    BY <2>1, <2>4, <2>5, PendingShrinks
  <2> QED
    BY Zenon, <2>1, <2>2, <2>3, <2>6 DEF OnlySentWaits, Settled
<1>11. ASSUME Maintain PROVE Goal
  <2>1. req' = req /\ wire' \subseteq wire
    BY <1>11 DEF Maintain, PoolMaintainer, PoolConnect
  <2>2. /\ conn' \in [Conn -> ConnSet]
        /\ \A c \in Conn : conn'[c].pending \subseteq conn[c].pending
    <3>1. CASE PoolMaintainer
      <4>1. \A c \in Conn : conn'[c] \in {conn[c], [conn[c] EXCEPT !.retiring = TRUE], Closed}
        BY <3>1 DEF PoolMaintainer
      <4>2. conn' = [c \in Conn |-> conn'[c]]
        BY <3>1 DEF PoolMaintainer
      <4>3. \A c \in Conn :
              /\ conn'[c] \in ConnSet
              /\ conn'[c].pending \subseteq conn[c].pending
        BY Zenon, <4>1, ConnKept, ClosedType DEF IdInv, ConnTypes
      <4> QED
        BY <4>2, <4>3
    <3>2. CASE PoolConnect
      <4>1. conn' = conn \/ \E c \in Conn : conn' = [conn EXCEPT ![c] = [conn[c] EXCEPT !.alive = TRUE]]
        BY <3>2 DEF PoolConnect, Unused
      <4>2. CASE conn' = conn
        BY <4>2 DEF IdInv, ConnTypes
      <4>3. ASSUME NEW c \in Conn, conn' = [conn EXCEPT ![c] = [conn[c] EXCEPT !.alive = TRUE]]
            PROVE  /\ conn' \in [Conn -> ConnSet]
                   /\ \A d \in Conn : conn'[d].pending \subseteq conn[d].pending
        <5>1. conn[c] \in ConnSet
          BY DEF IdInv, ConnTypes
        <5> QED
          BY Zenon, <4>3, <5>1, ConnKept DEF IdInv, ConnTypes
      <4> QED
        BY <4>1, <4>2, <4>3
    <3> QED
      BY <1>11, <3>1, <3>2 DEF Maintain
  <2>3. ConnTypes'
    BY <2>1, <2>2 DEF IdInv, ConnTypes, ConnSet
  <2>4. IdInv'
    BY <2>1, <2>2, <2>3, PendingShrinks
  <2> QED
    BY <2>1, <2>4 DEF OnlySentWaits, Settled
<1>12. ASSUME NEW m \in wire, NEW verb \in {"OK", "SHED"}, data_received(m, verb) PROVE Goal
  <2>1. ASSUME NEW r \in Req, req[r].pc = "sent", req'[r].result # req[r].result
        PROVE  /\ req[r].result = "none" /\ m \in wire \ wire'
               /\ m.id[1] = r /\ m.attempt = req[r].attempt
    <3>1. m.id \in conn[m.conn].pending /\ req[m.id[1]].result = "none"
      BY <1>12, <2>1 DEF data_received
    <3>2. req' = [req EXCEPT ![m.id[1]].result = verb]
      BY <1>12, <3>1 DEF data_received
    <3>3. m.id[1] = r
      BY <2>1, <3>2 DEF CountInv, CountTypes
    <3>4. m.attempt = req[r].attempt
      BY <3>1, <3>3 DEF IdInv, ConnTypes, ConnSet, PendingIsCurrent
    <3> QED
      BY <1>12, <3>1, <3>3, <3>4 DEF data_received
  <2> QED
    BY <1>12, <2>1, DeliverIds DEF Settled
<1>13. ASSUME NEW c \in Conn, connection_lost(c) PROVE Goal
  <2>1. Lost({c})
    BY <1>13 DEF connection_lost
  <2>2. /\ ConnTypes' /\ conn'[c].pending = {}
        /\ \A d \in Conn : conn'[d].pending \subseteq conn[d].pending
    BY <2>1, LostIds
  <2>3. \A r \in Req : req'[r] = IF req[r].conn = c /\ req[r].result = "none"
                                 THEN [req[r] EXCEPT !.result = "crashed"] ELSE req[r]
    BY <1>13 DEF connection_lost
  <2>4. \A d \in Conn : \A id \in conn'[d].pending : req'[id[1]] = req[id[1]]
    <3>1. ASSUME NEW d \in Conn, NEW id \in conn'[d].pending
          PROVE  id[1] \in Req /\ req[id[1]].conn # c
      BY <2>2 DEF IdInv, ConnTypes, ConnSet, PendingIsCurrent
    <3> QED
      BY Zenon, <2>3, <3>1
  <2>5. IdInv'
    BY <2>2, <2>4, PendingShrinks
  <2>6. \A r \in Req : /\ req'[r].pc = req[r].pc /\ req'[r].conn = req[r].conn
                       /\ \/ req'[r].result = req[r].result
                          \/ /\ req[r].conn = c /\ req[r].result = "none"
                             /\ req'[r].result = "crashed"
    BY ZenonT(60), <2>3 DEF CountInv, CountTypes, TaskSet
  <2>7. OnlySentWaits'
    BY <2>6, ReqAssumption DEF OnlySentWaits
  <2> QED
    BY <2>5, <2>6, <2>7 DEF Settled
<1>14. ASSUME UNCHANGED <<req, conn, wire>> PROVE Goal
  <2>1. ConnTypes'
    BY <1>14 DEF IdInv, ConnTypes, ConnSet
  <2> QED
    BY <1>14, <2>1, PendingShrinks DEF OnlySentWaits, Settled
<1>15. ASSUME (\E new \in Config : SetConfig(new)) \/ reset_stats \/ UNCHANGED vars PROVE Goal
  BY <1>14, <1>15 DEF SetConfig, reset_stats, vars
<1> QED
  BY SMTT(60), <1>2, <1>4a, <1>5, <1>6, <1>7, <1>8, <1>9, <1>10, <1>11, <1>12, <1>13, <1>15 DEF Next, Task, Timer

(* The inductive invariant holds in every reachable state. *)
THEOREM LoadInvariance == Spec => [](CountInv /\ IdInv /\ OnlySentWaits)
  BY InitCount, NextCount, InitIds, NextIds, PTL DEF Spec

(* No reply of load_client.py is taken for that of another attempt, or     *)
(* after a timeout, whatever is retried, late or lost.                     *)
THEOREM RepliesAreOwn == Spec => ReplyIsOwn
<1>1. CountInv /\ IdInv /\ OnlySentWaits /\ [Next]_vars => [\A r \in Req : Settled(r)]_vars
  BY NextIds
<1> QED
  BY <1>1, LoadInvariance, PTL DEF Spec, ReplyIsOwn, Settled

-----------------------------------------------------------------------------
(* The streams *)

Placed == {t \in Thread : handler[t].pc \notin {"off", "request"}}

StreamTypes ==
  /\ streams \in Int /\ stream_slots \in Int
  /\ idle \in Nat /\ unwatched \in Nat
  /\ handler \in [Thread -> [pc : {"off", "request", "admitted", "wait", "woken", "leave",
                                   "release"},
                             seq : Int, new_seq : Int]]
  /\ seq \in Int

(* While nobody watches, the two clocks agree: that is what makes the      *)
(* count and the time of the last change together a measure of silence.    *)
StreamInv == StreamTypes /\ StreamsCounted /\ (Watching = {} => idle = unwatched)

LEMMA FiniteSubsets ==
  /\ IsFiniteSet(Watching) /\ Cardinality(Watching) \in Nat
  /\ IsFiniteSet(Placed) /\ Cardinality(Placed) \in Nat
  /\ IsFiniteSet(Watching') /\ IsFiniteSet(Placed')
<1>1. Watching \subseteq Thread /\ Placed \subseteq Thread
      /\ Watching' \subseteq Thread /\ Placed' \subseteq Thread
  BY DEF Watching, Placed
<1> QED
  BY <1>1, ThreadAssumption, FS_Subset, FS_CardinalityType

LEMMA InitStreams == lvInit => StreamInv
<1> SUFFICES ASSUME lvInit PROVE StreamInv
  OBVIOUS
<1>1. Watching = {} /\ Placed = {}
  BY DEF lvInit, Off, Watching, Placed
<1>2. StreamTypes
  BY BoundsAssumption DEF lvInit, Off, StreamTypes
<1>3. StreamsCounted
  BY <1>1, FS_EmptySet, BoundsAssumption DEF lvInit, StreamsCounted, Placed
<1> QED
  BY <1>2, <1>3 DEF lvInit, StreamInv

(* A step that neither opens nor ends a stream, and takes or returns no    *)
(* place.                                                                  *)
LEMMA QuietStep ==
  ASSUME StreamInv, StreamTypes', Watching' = Watching, Placed' = Placed,
         streams' = streams, stream_slots' = stream_slots, idle' = idle,
         unwatched' = unwatched
  PROVE  StreamInv'
<1>1. StreamsCounted'
  BY Zenon DEF StreamInv, StreamsCounted, Placed
<1> QED
  BY <1>1 DEF StreamInv

LEMMA NextStreams == StreamInv /\ [lvNext]_lvvars => StreamInv'
<1> SUFFICES ASSUME StreamInv, [lvNext]_lvvars PROVE StreamInv'
  OBVIOUS
<1> USE DEF StreamInv
<1>1. ASSUME NEW t \in Thread, Accept(t) PROVE StreamInv'
  <2>1. StreamTypes'
    BY <1>1 DEF Accept, Goto, Off, StreamTypes, publisher
  <2>2. Watching' = Watching /\ Placed' = Placed
    BY <1>1 DEF Accept, At, Goto, Off, StreamTypes, Watching, Placed
  <2> QED
    BY <1>1, <2>1, <2>2, QuietStep DEF Accept, publisher
<1>2. ASSUME NEW t \in Thread, Acquire(t) PROVE StreamInv'
  <2>1. StreamTypes'
    BY <1>2 DEF Acquire, Goto, Off, StreamTypes, publisher
  <2>2. Watching' = Watching
    BY <1>2 DEF Acquire, At, Goto, Off, StreamTypes, Watching
  <2>3. CASE stream_slots > 0
    <3>1. t \notin Placed /\ Placed' = Placed \cup {t}
      BY <1>2, <2>3 DEF Acquire, At, Goto, Off, StreamTypes, Placed
    <3>2. Cardinality(Placed') = Cardinality(Placed) + 1
      BY <3>1, FiniteSubsets, FS_AddElement
    <3>3. streams' = streams /\ idle' = idle /\ unwatched' = unwatched
          /\ stream_slots' = stream_slots - 1
      BY <1>2, <2>3 DEF Acquire, publisher, StreamTypes
    <3>4. StreamsCounted'
      BY SMTT(60), <2>2, <3>2, <3>3, FiniteSubsets, BoundsAssumption DEF StreamsCounted, Placed, StreamTypes
    <3> QED
      BY <2>1, <2>2, <3>3, <3>4
  <2>4. CASE ~(stream_slots > 0)
    <3>1. Placed' = Placed
      BY <1>2, <2>4 DEF Acquire, At, Goto, Off, StreamTypes, Placed
    <3> QED
      BY <1>2, <2>1, <2>2, <2>4, <3>1, QuietStep DEF Acquire, publisher, StreamTypes
  <2> QED
    BY <2>3, <2>4
<1>3. ASSUME NEW t \in Thread, Enter(t) PROVE StreamInv'
  <2>1. StreamTypes'
    BY <1>3 DEF Enter, stream_count, Goto, Off, Waiting, StreamTypes
  <2>2. t \notin Watching /\ Watching' = Watching \cup {t} /\ Placed' = Placed
    BY <1>3 DEF Enter, At, Goto, Off, Waiting, StreamTypes, Watching, Placed
  <2>3. Cardinality(Watching') = Cardinality(Watching) + 1
    BY <2>2, FiniteSubsets, FS_AddElement
  <2>4. StreamsCounted'
    BY Zenon, <1>3, <2>2, <2>3 DEF Enter, stream_count, StreamsCounted, Placed
  <2> QED
    BY <2>1, <2>2, <2>4
<1>4. ASSUME NEW t \in Thread, wait_newer(t) PROVE StreamInv'
  <2>1. StreamTypes'
    BY Zenon, <1>4 DEF wait_newer, StreamTypes, publisher
  <2>2. Watching' = Watching /\ Placed' = Placed
    BY SMTT(60), <1>4 DEF wait_newer, At, StreamTypes, Watching, Placed
  <2> QED
    BY <1>4, <2>1, <2>2, QuietStep DEF wait_newer, publisher
<1>5. ASSUME NEW t \in Thread, Write(t) PROVE StreamInv'
  <2>1. StreamTypes'
    BY <1>5 DEF Write, Goto, Off, Waiting, StreamTypes, publisher
  <2>2. Watching' = Watching /\ Placed' = Placed
    BY <1>5 DEF Write, At, Goto, Off, Waiting, StreamTypes, Watching, Placed
  <2> QED
    BY <1>5, <2>1, <2>2, QuietStep DEF Write, publisher
<1>6. ASSUME NEW t \in Thread, Leave(t) PROVE StreamInv'
  <2>1. StreamTypes'
    BY <1>6 DEF Leave, stream_count, Goto, Off, StreamTypes
  <2>2. t \in Watching /\ Watching' = Watching \ {t} /\ Placed' = Placed
    BY <1>6 DEF Leave, At, Goto, Off, StreamTypes, Watching, Placed
  <2>3. Cardinality(Watching') = Cardinality(Watching) - 1
    BY <2>2, FiniteSubsets, FS_RemoveElement
  <2>4. StreamsCounted'
    BY Zenon, <1>6, <2>2, <2>3, FiniteSubsets DEF Leave, stream_count, StreamsCounted, Placed, StreamTypes
  <2>5. idle' = unwatched'
    BY <1>6 DEF Leave, stream_count
  <2> QED
    BY <2>1, <2>4, <2>5
<1>7. ASSUME NEW t \in Thread, Release(t) PROVE StreamInv'
  <2>1. StreamTypes'
    BY <1>7 DEF Release, Off, StreamTypes, publisher
  <2>2. Watching' = Watching /\ t \in Placed /\ Placed' = Placed \ {t}
    BY <1>7 DEF Release, At, Off, StreamTypes, Watching, Placed
  <2>3. Cardinality(Placed') = Cardinality(Placed) - 1
    BY <2>2, FiniteSubsets, FS_RemoveElement
  <2>4. StreamsCounted'
    BY <1>7, <2>2, <2>3, FiniteSubsets, BoundsAssumption
       DEF Release, publisher, StreamsCounted, Placed, StreamTypes
  <2> QED
    BY <1>7, <2>1, <2>2, <2>4 DEF Release, publisher
<1>8. ASSUME Tick \/ Stop \/ UNCHANGED lvvars PROVE StreamInv'
  <2>1. handler' = handler /\ streams' = streams /\ stream_slots' = stream_slots
        /\ idle' = idle /\ unwatched' = unwatched
    BY <1>8 DEF Tick, StartTick, CheckWatched, publish, close, Shutdown, Stop, lvvars, publisher
  <2>2. Watching' = Watching /\ Placed' = Placed
    BY <2>1 DEF Watching, Placed
  <2>3. seq' \in Int
    BY <1>8 DEF Tick, StartTick, CheckWatched, publish, close, Shutdown, Stop, lvvars, publisher, StreamTypes
  <2>4. StreamTypes'
    BY <2>1, <2>3 DEF StreamTypes
  <2> QED
    BY SMTT(60), <2>1, <2>2, <2>4, QuietStep
<1>9. ASSUME TimePasses PROVE StreamInv'
  <2>1. handler' = handler /\ streams' = streams /\ stream_slots' = stream_slots
    BY <1>9 DEF TimePasses
  <2>2. Watching' = Watching /\ Placed' = Placed
    BY <2>1 DEF Watching, Placed
  <2>3. StreamTypes'
    BY <1>9, <2>1, BoundsAssumption DEF TimePasses, Later, StreamTypes
  <2>4. StreamsCounted'
    BY <2>1, <2>2 DEF StreamsCounted, Placed
  <2> QED
    BY <1>9, <2>2, <2>3, <2>4 DEF TimePasses
<1> QED
  BY SMTT(60), <1>1, <1>2, <1>3, <1>4, <1>5, <1>6, <1>7, <1>8, <1>9 DEF lvNext, Serve

(* The inductive invariant holds in every reachable state. *)
THEOREM StreamInvariance == lvSpec => []StreamInv
  BY InitStreams, NextStreams, PTL DEF lvSpec

(* However requests and writes fail, the mailbox counts the open streams   *)
(* and the semaphore loses no place (stream_count, stream_slots).          *)
THEOREM Counted == lvSpec => []StreamsCounted
  BY StreamInvariance, PTL DEF StreamInv

(* tick pauses the load only if no stream was open for longer than         *)
(* AUTO_PAUSE_AFTER_S.                                                     *)
THEOREM PauseSafe == lvSpec => PausedMeansUnwatched
<1>1. StreamInv /\ [lvNext]_lvvars
      => [~load_suppressed /\ load_suppressed' => unwatched > AUTO_PAUSE_AFTER_S]_lvvars
  <2> SUFFICES ASSUME StreamInv, lvNext, ~load_suppressed, load_suppressed'
               PROVE  unwatched > AUTO_PAUSE_AFTER_S
    OBVIOUS
  <2>1. CheckWatched
    BY Zenon DEF lvNext, Serve, Tick, Accept, Acquire, Enter, wait_newer, Write, Leave, Release,
           StartTick, publish, close, Shutdown, Stop, TimePasses
  <2>2. Watching = {}
    BY Zenon, <2>1, FiniteSubsets, FS_EmptySet DEF CheckWatched, StreamInv, StreamsCounted
  <2> QED
    BY Zenon, <2>1, <2>2 DEF CheckWatched, StreamInv
<1> QED
  BY <1>1, StreamInvariance, PTL DEF lvSpec, PausedMeansUnwatched

-----------------------------------------------------------------------------
(* What a browser is sent *)

(* A handler's local seq is the last snapshot it put on the wire, and what *)
(* wait_newer gave it is at least as new and has been published.           *)
SentInv ==
  /\ seq \in Nat
  /\ sent \in [Thread -> Int]
  /\ \A t \in Thread :
       /\ sent[t] <= seq
       /\ handler[t].pc \in {"off", "request", "admitted", "release"} => sent[t] = -1
       /\ handler[t].pc \in {"wait", "woken"} => handler[t].seq = sent[t]
       /\ handler[t].pc = "woken" =>
            handler[t].seq <= handler[t].new_seq /\ handler[t].new_seq <= seq

(* A browser is never sent a snapshot that is older than one it has, or    *)
(* the same one again, or one that has not been published; only the end of *)
(* its stream forgets what it has.                                         *)
SnapshotsInOrder ==
  [][\A t \in Thread :
       sent'[t] # sent[t] => \/ sent'[t] > sent[t] /\ sent'[t] <= seq
                             \/ sent'[t] = -1 /\ At(t, "leave")]_lvvars

LEMMA InitSent == lvInit => SentInv
  BY DEF lvInit, Off, SentInv

(* A step of the handler of t leaves the other streams as they are. *)
LEMMA OneSent ==
  ASSUME StreamTypes, SentInv, NEW t \in Thread, seq' \in Nat, seq' >= seq, sent' \in [Thread -> Int],
         \A u \in Thread \ {t} : handler'[u] = handler[u] /\ sent'[u] = sent[u],
         /\ sent'[t] <= seq'
         /\ handler'[t].pc \in {"off", "request", "admitted", "release"} => sent'[t] = -1
         /\ handler'[t].pc \in {"wait", "woken"} => handler'[t].seq = sent'[t]
         /\ handler'[t].pc = "woken" =>
              handler'[t].seq <= handler'[t].new_seq /\ handler'[t].new_seq <= seq'
  PROVE  SentInv'
<1>1. ASSUME NEW u \in Thread, u # t
      PROVE  /\ sent'[u] <= seq'
             /\ handler'[u].pc \in {"off", "request", "admitted", "release"} => sent'[u] = -1
             /\ handler'[u].pc \in {"wait", "woken"} => handler'[u].seq = sent'[u]
             /\ handler'[u].pc = "woken" =>
                  handler'[u].seq <= handler'[u].new_seq /\ handler'[u].new_seq <= seq'
  <2>1. handler'[u] = handler[u] /\ sent'[u] = sent[u] /\ sent[u] \in Int /\ seq \in Nat
    BY <1>1 DEF SentInv
  <2>2. /\ sent[u] <= seq
        /\ handler[u].pc \in {"off", "request", "admitted", "release"} => sent[u] = -1
        /\ handler[u].pc \in {"wait", "woken"} => handler[u].seq = sent[u]
        /\ handler[u].pc = "woken" =>
             handler[u].seq <= handler[u].new_seq /\ handler[u].new_seq <= seq
    BY Zenon DEF SentInv
  <2>3. handler[u].new_seq \in Int
    BY DEF StreamTypes
  <2>4. sent[u] <= seq' /\ (handler[u].new_seq <= seq => handler[u].new_seq <= seq')
    BY <2>1, <2>2, <2>3
  <2>5. QED
    BY <2>1, <2>2, <2>4, ZenonT(60)
<1>2. QED
  BY <1>1, Zenon DEF SentInv

LEMMA NextSent ==
  ASSUME StreamTypes, SentInv, [lvNext]_lvvars
  PROVE  /\ SentInv'
         /\ \A t \in Thread :
              sent'[t] # sent[t] => \/ sent'[t] > sent[t] /\ sent'[t] <= seq
                                    \/ sent'[t] = -1 /\ At(t, "leave")
<1> DEFINE Next1(t) == SentInv' /\ \A u \in Thread : u # t => sent'[u] = sent[u]
           Kept == SentInv' /\ sent' = sent
<1>1. /\ seq \in Nat /\ sent \in [Thread -> Int]
      /\ handler \in [Thread -> [pc : {"off", "request", "admitted", "wait", "woken", "leave",
                                       "release"},
                                 seq : Int, new_seq : Int]]
  BY Zenon DEF SentInv, StreamTypes
<1>2. ASSUME NEW t \in Thread
      PROVE  /\ sent[t] \in Int /\ sent[t] <= seq
             /\ handler[t].pc \in {"off", "request", "admitted", "release"} => sent[t] = -1
             /\ handler[t].pc \in {"wait", "woken"} => handler[t].seq = sent[t]
             /\ handler[t].pc = "woken" =>
                  handler[t].seq <= handler[t].new_seq /\ handler[t].new_seq <= seq
             /\ handler[t].seq \in Int /\ handler[t].new_seq \in Int
  BY <1>1 DEF SentInv
<1>3. ASSUME NEW t \in Thread, NEW r, handler' = [handler EXCEPT ![t] = r]
      PROVE  handler'[t] = r /\ \A u \in Thread \ {t} : handler'[u] = handler[u]
  BY <1>1, <1>3, Zenon
(* The handler of t moves and nothing is written. *)
<1>4. ASSUME NEW t \in Thread, NEW r, handler' = [handler EXCEPT ![t] = r],
             seq' = seq, sent' = sent,
             /\ r.pc \in {"off", "request", "admitted", "release"} => sent[t] = -1
             /\ r.pc \in {"wait", "woken"} => r.seq = sent[t]
             /\ r.pc = "woken" => r.seq <= r.new_seq /\ r.new_seq <= seq
      PROVE  Kept
  <2>1. handler'[t] = r /\ \A u \in Thread \ {t} : handler'[u] = handler[u]
    BY <1>3, <1>4, Zenon
  <2>2. seq' \in Nat /\ seq' >= seq /\ sent' \in [Thread -> Int] /\ sent'[t] <= seq'
    BY <1>1, <1>2, <1>4
  <2>3. SentInv'
    BY <1>4, <2>1, <2>2, OneSent, Zenon
  <2>4. QED
    BY <1>4, <2>3, Zenon
<1>5. ASSUME NEW t \in Thread, NEW pc \in {"off", "request", "admitted", "leave"}, Goto(t, pc),
             seq' = seq, sent' = sent, pc = "leave" \/ sent[t] = -1
      PROVE  Kept
  <2> DEFINE r == [Off EXCEPT !.pc = pc]
  <2>1. r.pc = pc
    BY DEF Off
  <2>2. handler' = [handler EXCEPT ![t] = r]
    BY <1>5, Zenon DEF Goto
  <2> HIDE DEF r
  <2>3. /\ r.pc \in {"off", "request", "admitted", "release"} => sent[t] = -1
        /\ r.pc \notin {"wait", "woken"} /\ r.pc # "woken"
    BY <1>5, <2>1
  <2>4. QED
    BY <1>4, <1>5, <2>2, <2>3, Zenon
<1>6. ASSUME NEW t \in Thread, Accept(t) PROVE Kept
  <2>1. Goto(t, "request") /\ seq' = seq /\ sent' = sent /\ handler[t].pc = "off"
    BY <1>6, ZenonT(60) DEF Accept, At, publisher
  <2>2. sent[t] = -1
    BY <1>2, <2>1
  <2>3. QED
    BY <1>5, <2>1, <2>2, Zenon
<1>7. ASSUME NEW t \in Thread, Acquire(t) PROVE Kept
  <2>1. /\ Goto(t, "admitted") \/ Goto(t, "off")
        /\ seq' = seq /\ sent' = sent /\ handler[t].pc = "request"
    BY <1>7, Zenon DEF Acquire, At, publisher
  <2>2. sent[t] = -1
    BY <1>2, <2>1
  <2>3. QED
    BY <1>5, <2>1, <2>2, Zenon
<1>8. ASSUME NEW t \in Thread, Enter(t) PROVE Kept
  <2>1. /\ handler' = [handler EXCEPT ![t] = Waiting(-1)] \/ Goto(t, "leave")
        /\ seq' = seq /\ sent' = sent /\ handler[t].pc = "admitted"
    BY <1>8, Zenon DEF Enter, At, stream_count
  <2>2. sent[t] = -1
    BY <1>2, <2>1
  <2>3. CASE handler' = [handler EXCEPT ![t] = Waiting(-1)]
    <3>1. Waiting(-1).pc = "wait" /\ Waiting(-1).seq = -1
      BY DEF Waiting
    <3>2. /\ Waiting(-1).pc \notin {"off", "request", "admitted", "release"}
          /\ Waiting(-1).pc # "woken"
      BY <3>1
    <3>3. QED
      BY <1>4, <2>1, <2>2, <2>3, <3>1, <3>2, ZenonT(60)
  <2>4. QED
    BY <1>5, <2>1, <2>3, Zenon
<1>9. ASSUME NEW t \in Thread, wait_newer(t) PROVE Kept
  <2> DEFINE r == [handler[t] EXCEPT !.pc = "woken", !.new_seq = seq]
  <2>1. /\ handler' = [handler EXCEPT ![t] = r]
        /\ seq' = seq /\ sent' = sent /\ handler[t].pc = "wait"
    BY <1>9, Zenon DEF wait_newer, At, publisher
  <2>2. r.pc = "woken" /\ r.seq = handler[t].seq /\ r.new_seq = seq
    BY <1>1
  <2> HIDE DEF r
  <2>3. r.seq = sent[t] /\ r.seq <= r.new_seq /\ r.new_seq <= seq
    BY <1>1, <1>2, <2>1, <2>2
  <2>4. r.pc \notin {"off", "request", "admitted", "release"}
    BY <2>2
  <2>5. QED
    BY <1>4, <2>1, <2>3, <2>4, Zenon
<1>10. ASSUME NEW t \in Thread, Write(t)
       PROVE  Kept \/ (Next1(t) /\ sent'[t] > sent[t] /\ sent'[t] <= seq)
  <2>1. seq' = seq /\ handler[t].pc = "woken"
    BY <1>10, Zenon DEF Write, At, publisher
  <2>2. CASE Goto(t, "leave") /\ sent' = sent
    BY <1>5, <2>1, <2>2, Zenon
  <2>3. CASE /\ handler' = [handler EXCEPT ![t] = Waiting(handler[t].new_seq)]
             /\ sent' = IF handler[t].new_seq = handler[t].seq THEN sent
                        ELSE [sent EXCEPT ![t] = handler[t].new_seq]
    <3> DEFINE s == handler[t].new_seq
               r == Waiting(s)
    <3>1. handler[t].seq = sent[t] /\ sent[t] <= s /\ s <= seq /\ s \in Int
      BY <1>2, <2>1
    <3>2. r.pc = "wait" /\ r.seq = s
      BY DEF Waiting
    <3> HIDE DEF s, r
    <3>3. handler' = [handler EXCEPT ![t] = r]
      BY <2>3, Zenon DEF s, r
    <3>4. r.pc \notin {"off", "request", "admitted", "release"} /\ r.pc # "woken"
      BY <3>2
    <3>5. CASE s = sent[t]
      <4>1. sent' = sent
        BY <2>3, <3>1, <3>5, Zenon DEF s
      <4>2. QED
        BY <1>4, <2>1, <3>2, <3>3, <3>4, <3>5, <4>1, Zenon
    <3>6. CASE s # sent[t]
      <4>1. sent' = [sent EXCEPT ![t] = s]
        BY <2>3, <3>1, <3>6, Zenon DEF s
      <4>2. /\ sent' \in [Thread -> Int] /\ sent'[t] = s
            /\ \A u \in Thread : u # t => sent'[u] = sent[u]
        BY <1>1, <3>1, <4>1
      <4>3. handler'[t] = r /\ \A u \in Thread \ {t} : handler'[u] = handler[u]
        BY <1>3, <3>3, Zenon
      <4>4. /\ seq' \in Nat /\ seq' >= seq /\ sent'[t] <= seq'
            /\ sent'[t] > sent[t] /\ sent'[t] <= seq
        <5>1. sent[t] \in Int /\ seq \in Nat /\ seq' = seq /\ sent'[t] = s
          BY <1>1, <1>2, <2>1, <4>2, Zenon
        <5>2. QED
          BY <3>1, <3>6, <5>1
      <4>5. \A u \in Thread \ {t} : handler'[u] = handler[u] /\ sent'[u] = sent[u]
        BY <4>2, <4>3, Zenon
      <4>6. SentInv'
        BY <3>2, <3>4, <4>2, <4>3, <4>4, <4>5, OneSent, Zenon
      <4>7. QED
        BY <4>2, <4>4, <4>6, Zenon
    <3>7. QED
      BY <3>5, <3>6, Zenon
  <2>4. QED
    BY <1>10, <2>2, <2>3, Zenon DEF Write
<1>11. ASSUME NEW t \in Thread, Leave(t)
       PROVE  Next1(t) /\ sent'[t] = -1 /\ At(t, "leave")
  <2> DEFINE r == [Off EXCEPT !.pc = "release"]
  <2>1. /\ handler' = [handler EXCEPT ![t] = r] /\ seq' = seq
        /\ sent' = [sent EXCEPT ![t] = -1] /\ At(t, "leave")
    BY <1>11, Zenon DEF Leave, Goto, stream_count
  <2>2. r.pc = "release"
    BY DEF Off
  <2> HIDE DEF r
  <2>3. /\ sent' \in [Thread -> Int] /\ sent'[t] = -1
        /\ \A u \in Thread : u # t => sent'[u] = sent[u]
    BY <1>1, <2>1
  <2>4. handler'[t] = r /\ \A u \in Thread \ {t} : handler'[u] = handler[u]
    BY <1>3, <2>1, Zenon
  <2>5. seq' \in Nat /\ seq' >= seq /\ sent'[t] <= seq'
    BY <1>1, <2>1, <2>3
  <2>6. r.pc \notin {"wait", "woken"} /\ r.pc # "woken"
    BY <2>2
  <2>7. \A u \in Thread \ {t} : handler'[u] = handler[u] /\ sent'[u] = sent[u]
    BY <2>3, <2>4, Zenon
  <2>8. SentInv'
    BY <2>3, <2>4, <2>5, <2>6, <2>7, OneSent, Zenon
  <2>9. QED
    BY <2>1, <2>3, <2>8, Zenon
<1>12. ASSUME NEW t \in Thread, Release(t) PROVE Kept
  <2>1. /\ handler' = [handler EXCEPT ![t] = Off]
        /\ seq' = seq /\ sent' = sent /\ handler[t].pc = "release"
    BY <1>12, Zenon DEF Release, At, publisher
  <2>2. sent[t] = -1
    BY <1>2, <2>1
  <2>3. Off.pc \notin {"wait", "woken"} /\ Off.pc # "woken"
    BY DEF Off
  <2>4. QED
    BY <1>4, <2>1, <2>2, <2>3, Zenon
<1>13. ASSUME Tick \/ Stop \/ TimePasses \/ UNCHANGED lvvars PROVE Kept
  <2>1. handler' = handler /\ sent' = sent /\ (seq' = seq \/ seq' = seq + 1)
    BY <1>13, Zenon DEF Tick, StartTick, CheckWatched, publish, close, Shutdown, Stop, TimePasses, lvvars,
                    publisher
  <2>2. seq' \in Nat /\ seq <= seq'
    BY <1>1, <2>1
  <2>3. ASSUME NEW t \in Thread
        PROVE  /\ sent[t] <= seq'
               /\ handler[t].pc = "woken" => handler[t].new_seq <= seq'
    BY <1>1, <1>2, <2>2
  <2>4. SentInv'
    BY <1>1, <1>2, <2>1, <2>2, <2>3, Zenon DEF SentInv
  <2>5. QED
    BY <2>1, <2>4, Zenon
<1>14. QED
  BY <1>6, <1>7, <1>8, <1>9, <1>10, <1>11, <1>12, <1>13, ZenonT(60) DEF lvNext, Serve

(* However snapshots are published, threads overtake each other and writes *)
(* fail, _stream of httpapi.py sends each browser the snapshots in order   *)
(* and none of them twice.                                                 *)
THEOREM SentInOrder == lvSpec => SnapshotsInOrder
<1>1. StreamInv /\ SentInv /\ [lvNext]_lvvars
      => /\ SentInv'
         /\ [\A t \in Thread :
               sent'[t] # sent[t] => \/ sent'[t] > sent[t] /\ sent'[t] <= seq
                                     \/ sent'[t] = -1 /\ At(t, "leave")]_lvvars
  BY NextSent, Zenon DEF StreamInv
<1>2. QED
  BY <1>1, InitSent, StreamInvariance, PTL DEF lvSpec, SnapshotsInOrder

-----------------------------------------------------------------------------
(* The admin pipe *)

(* The byte that is read after c, when w are the lengths of the lines; the *)
(* end of what was written is where a further line would begin.            *)
FirstByte(w, i) == IF i \in 1 .. Len(w) /\ w[i] = 0 THEN Newline(i) ELSE <<i, 1>>

ByteAfter(w, c) ==
  IF c[2] = 0 THEN FirstByte(w, c[1] + 1)
  ELSE IF c[2] < w[c[1]] THEN <<c[1], c[2] + 1>> ELSE Newline(c[1])

ByteOf(w) == {c \in Nat \X Nat : c[1] \in 1 .. Len(w) /\ c[2] <= w[c[1]]}

End(w) == <<Len(w) + 1, 1>>

(* The pipe holds the last of the bytes written, without a gap. *)
StreamOK(w, p) ==
  /\ w \in Seq(Nat) /\ p \in Seq(Nat \X Nat)
  /\ \A n \in 1 .. Len(p) :
       /\ p[n] \in ByteOf(w)
       /\ ByteAfter(w, p[n]) = IF n = Len(p) THEN End(w) ELSE p[n + 1]
  /\ \A n, l \in 1 .. Len(p) :
       n < l => p[n][1] <= p[l][1] /\ (p[n][2] = 0 => p[n][1] < p[l][1])
  /\ p # <<>> => \A i \in p[1][1] .. Len(w) : \E n \in 1 .. Len(p) : p[n] = Newline(i)

(* The byte to be read when n bytes of the pipe have been, and the number  *)
(* of bytes of its line before it                                          *)
Place(w, p, n) == IF n < Len(p) THEN p[n + 1] ELSE End(w)

Before(w, c) == IF c[2] = 0 THEN w[c[1]] ELSE c[2] - 1

(* s is what m bytes of line i leave in the buffer: those after the last   *)
(* one that found it full.                                                 *)
Left(s, i, m) ==
  \E q \in 0 .. m :
    /\ Len(s) < LineMax /\ m = LineMax * q + Len(s)
    /\ s = [k \in 1 .. Len(s) |-> <<i, LineMax * q + k>>]

(* Of the first d lines, what each left has been handled, unless it is     *)
(* nothing, in their order, and nothing else has.                          *)
OutOK(w, d, out) ==
  /\ out \in Seq(Seq(Nat \X Nat))
  /\ \A i \in 1 .. d : Left(<<>>, i, w[i]) \/ \E j \in 1 .. Len(out) : Left(out[j], i, w[i])
  /\ \A j \in 1 .. Len(out) :
       /\ out[j] # <<>> /\ out[j][1][1] \in 1 .. d
       /\ Left(out[j], out[j][1][1], w[out[j][1][1]])
  /\ \A j, l \in 1 .. Len(out) : j < l => out[j][1][1] < out[l][1][1]

ReaderOK(w, c, s) ==
  /\ s \in [buf : Seq(Nat \X Nat), out : Seq(Seq(Nat \X Nat))]
  /\ Left(s.buf, c[1], Before(w, c))
  /\ OutOK(w, c[1] - 1, s.out)

afInv == StreamOK(written, pipe) /\ ReaderOK(written, Place(written, pipe, 0), State)

-----------------------------------------------------------------------------
(* What bytes leave in the buffer *)

LEMMA LeftNothing ==
  ASSUME NEW i
  PROVE  Left(<<>>, i, 0)
<1>1. 0 \in 0 .. 0 /\ 0 < LineMax /\ 0 = LineMax * 0 + 0
  BY LineMaxAssumption
<1>2. Len(<<>>) = 0 /\ <<>> = [k \in 1 .. 0 |-> <<i, LineMax * 0 + k>>]
  OBVIOUS
<1>3. QED
  BY <1>1, <1>2 DEF Left

LEMMA LeftMore ==
  ASSUME NEW s \in Seq(Nat \X Nat), NEW i \in Nat, NEW m \in Nat, Left(s, i, m)
  PROVE  Left(IF Len(s) + 1 < LineMax THEN Append(s, <<i, m + 1>>) ELSE <<>>, i, m + 1)
<1>1. PICK q \in 0 .. m :
        /\ Len(s) < LineMax /\ m = LineMax * q + Len(s)
        /\ s = [k \in 1 .. Len(s) |-> <<i, LineMax * q + k>>]
  BY DEF Left
<1> DEFINE o == LineMax * q
<1>2. o \in Nat /\ q \in 0 .. m + 1 /\ q + 1 \in 0 .. m + 1 /\ LineMax \in Nat
  BY <1>1, LineMaxAssumption
<1>3. CASE Len(s) + 1 < LineMax
  <2> DEFINE t == Append(s, <<i, m + 1>>)
  <2> HIDE DEF o
  <2>1. Len(t) = Len(s) + 1 /\ m + 1 = o + Len(t)
    BY <1>1, <1>2 DEF o
  <2>2. t = [k \in 1 .. Len(t) |-> <<i, o + k>>]
    <3>1. t = [k \in 1 .. Len(t) |-> t[k]]
      BY <2>1
    <3>2. ASSUME NEW k \in 1 .. Len(t) PROVE t[k] = <<i, o + k>>
      <4>1. CASE k \in 1 .. Len(s)
        <5>1. t[k] = s[k]
          BY <4>1
        <5>2. s[k] = <<i, o + k>>
          BY <1>1, <4>1, Zenon DEF o
        <5>3. QED
          BY <5>1, <5>2
      <4>2. CASE k = Len(s) + 1
        <5>1. t[k] = <<i, m + 1>> /\ m + 1 = o + k
          BY <1>1, <1>2, <2>1, <4>2
        <5>2. QED
          BY SMTT(60), <5>1
      <4>3. QED
        BY SMTT(60), <2>1, <4>1, <4>2
    <3> HIDE DEF t
    <3>3. QED
      BY <3>1, <3>2, Zenon
  <2> HIDE DEF t
  <2>3. Left(t, i, m + 1)
    <3>1. Len(t) < LineMax
      BY <1>3, <2>1
    <3>2. QED
      BY <1>2, <2>1, <2>2, <3>1, Zenon DEF Left, o
  <2>4. QED
    BY <1>3, <2>3, Zenon DEF t
<1>4. CASE ~(Len(s) + 1 < LineMax)
  <2>1. m + 1 = LineMax * (q + 1) + 0 /\ 0 < LineMax
    BY <1>1, <1>2, <1>4, LineMaxAssumption
  <2>2. Len(<<>>) = 0 /\ <<>> = [k \in 1 .. 0 |-> <<i, LineMax * (q + 1) + k>>]
    OBVIOUS
  <2>3. Left(<<>>, i, m + 1)
    BY <1>2, <2>1, <2>2, Zenon DEF Left
  <2>4. QED
    BY <1>4, <2>3, Zenon
<1>5. QED
  BY <1>3, <1>4, Zenon

(* What is left knows its line, and ends with it. *)
LEMMA LeftEnds ==
  ASSUME NEW s \in Seq(Nat \X Nat), NEW i \in Nat, NEW m \in Nat, Left(s, i, m), s # <<>>
  PROVE  s[1][1] = i /\ s[Len(s)] = <<i, m>>
<1>1. PICK q \in 0 .. m :
        /\ Len(s) < LineMax /\ m = LineMax * q + Len(s)
        /\ s = [k \in 1 .. Len(s) |-> <<i, LineMax * q + k>>]
  BY DEF Left
<1>2. 1 \in 1 .. Len(s) /\ Len(s) \in 1 .. Len(s)
  OBVIOUS
<1>3. s[1] = <<i, LineMax * q + 1>> /\ s[Len(s)] = <<i, LineMax * q + Len(s)>>
  BY <1>1, <1>2, Zenon
<1> DEFINE o == LineMax * q
<1>4. s[1] = <<i, o + 1>> /\ s[Len(s)] = <<i, m>>
  BY <1>1, <1>3, Zenon
<1> HIDE DEF o
<1>5. QED
  BY <1>4

(* A line that fits leaves itself. *)
LEMMA LeftWhole ==
  ASSUME NEW s \in Seq(Nat \X Nat), NEW i \in Nat, NEW m \in 1 .. LineMax - 1, Left(s, i, m)
  PROVE  s = Line(i, m)
<1>1. PICK q \in 0 .. m :
        /\ Len(s) < LineMax /\ m = LineMax * q + Len(s)
        /\ s = [k \in 1 .. Len(s) |-> <<i, LineMax * q + k>>]
  BY DEF Left
<1> DEFINE o == LineMax * q
<1>2. o \in Nat /\ (q >= 1 => o >= LineMax) /\ (q = 0 => o = 0) /\ LineMax \in Nat
  BY LineMaxAssumption
<1>3. m = o + Len(s) /\ s = [k \in 1 .. Len(s) |-> <<i, o + k>>]
  BY <1>1, Zenon
<1> HIDE DEF o
<1>4. o = 0
  BY <1>2, <1>3
<1>5. Len(s) = m
  BY <1>3, <1>4
<1>6. QED
  BY <1>3, <1>4, <1>5 DEF Line

(* A newline: what its line left is handled, unless it is nothing. *)
LEMMA OutMore ==
  ASSUME NEW w \in Seq(Nat), NEW d \in Nat, d + 1 \in 1 .. Len(w), NEW out, OutOK(w, d, out),
         NEW b \in Seq(Nat \X Nat), Left(b, d + 1, w[d + 1])
  PROVE  OutOK(w, d + 1, IF b = <<>> THEN out ELSE Append(out, b))
<1>1. /\ out \in Seq(Seq(Nat \X Nat))
      /\ \A i \in 1 .. d : Left(<<>>, i, w[i]) \/ \E j \in 1 .. Len(out) : Left(out[j], i, w[i])
      /\ \A j \in 1 .. Len(out) :
           /\ out[j] # <<>> /\ out[j][1][1] \in 1 .. d
           /\ Left(out[j], out[j][1][1], w[out[j][1][1]])
      /\ \A j, l \in 1 .. Len(out) : j < l => out[j][1][1] < out[l][1][1]
  BY Zenon DEF OutOK
<1>2. \A i \in 1 .. d + 1 : i \in 1 .. d \/ i = d + 1
  OBVIOUS
<1>3. \A i \in 1 .. d : i \in 1 .. d + 1
  OBVIOUS
<1>4. CASE b = <<>>
  <2>1. \A i \in 1 .. d + 1 :
          Left(<<>>, i, w[i]) \/ \E j \in 1 .. Len(out) : Left(out[j], i, w[i])
    BY <1>1, <1>2, <1>4, Zenon
  <2>2. \A j \in 1 .. Len(out) :
           /\ out[j] # <<>> /\ out[j][1][1] \in 1 .. d + 1
           /\ Left(out[j], out[j][1][1], w[out[j][1][1]])
    BY <1>1, <1>3, Zenon
  <2>3. OutOK(w, d + 1, out)
    BY <1>1, <2>1, <2>2, Zenon DEF OutOK
  <2>4. QED
    BY <1>4, <2>3, Zenon
<1>5. CASE b # <<>>
  <2> DEFINE o == Append(out, b)
  <2>1. /\ o \in Seq(Seq(Nat \X Nat)) /\ Len(o) = Len(out) + 1 /\ o[Len(out) + 1] = b
        /\ \A j \in 1 .. Len(out) : o[j] = out[j]
    BY SMTT(60), <1>1
  <2>2. /\ \A j \in 1 .. Len(o) : j \in 1 .. Len(out) \/ j = Len(out) + 1
        /\ \A j \in 1 .. Len(out) : j \in 1 .. Len(o)
        /\ Len(out) + 1 \in 1 .. Len(o)
    BY <1>1, <2>1
  <2> HIDE DEF o
  <2>3. w[d + 1] \in Nat /\ d + 1 \in Nat /\ d + 1 \in 1 .. d + 1
    OBVIOUS
  <2>4. b[1][1] = d + 1
    BY <1>5, <2>3, LeftEnds, Zenon
  <2>5. \A i \in 1 .. d + 1 : Left(<<>>, i, w[i]) \/ \E j \in 1 .. Len(o) : Left(o[j], i, w[i])
    <3>1. ASSUME NEW i \in 1 .. d
          PROVE  Left(<<>>, i, w[i]) \/ \E j \in 1 .. Len(o) : Left(o[j], i, w[i])
      <4>1. CASE ~Left(<<>>, i, w[i])
        <5>1. PICK j \in 1 .. Len(out) : Left(out[j], i, w[i])
          BY <1>1, <4>1, Zenon
        <5>2. j \in 1 .. Len(o) /\ o[j] = out[j]
          BY <2>1, <2>2, Zenon
        <5>3. QED
          BY <5>1, <5>2, Zenon
      <4>2. QED
        BY <4>1, Zenon
    <3>2. Left(o[Len(out) + 1], d + 1, w[d + 1])
      BY <2>1, Zenon
    <3>3. QED
      BY <1>2, <2>2, <3>1, <3>2, Zenon
  <2>6. ASSUME NEW j \in 1 .. Len(o)
        PROVE  /\ o[j] # <<>> /\ o[j][1][1] \in 1 .. d + 1
               /\ Left(o[j], o[j][1][1], w[o[j][1][1]])
    <3>1. CASE j \in 1 .. Len(out)
      BY <1>1, <1>3, <2>1, <3>1, Zenon
    <3>2. CASE j = Len(out) + 1
      BY <1>5, <2>1, <2>3, <2>4, <3>2, ZenonT(60)
    <3>3. QED
      BY <2>2, <3>1, <3>2, Zenon
  <2>7. ASSUME NEW j \in 1 .. Len(o), NEW l \in 1 .. Len(o), j < l
        PROVE  o[j][1][1] < o[l][1][1]
    <3>1. j \in 1 .. Len(out)
      BY <1>1, <2>1, <2>7
    <3>2. o[j][1][1] = out[j][1][1] /\ out[j][1][1] \in 1 .. d
      BY <1>1, <2>1, <3>1, Zenon
    <3>3. CASE l \in 1 .. Len(out)
      BY <1>1, <2>1, <2>7, <3>1, <3>3, ZenonT(60)
    <3>4. CASE l = Len(out) + 1
      <4>1. o[l][1][1] = d + 1
        BY <2>1, <2>4, <3>4, Zenon
      <4>2. QED
        BY SMTT(60), <3>2, <4>1
    <3>5. QED
      BY <2>2, <3>3, <3>4, ZenonT(60)
  <2>8. OutOK(w, d + 1, o)
    BY <2>1, <2>5, <2>6, <2>7, Zenon DEF OutOK
  <2>9. QED
    BY <1>5, <2>8, ZenonT(60) DEF o
<1>6. QED
  BY <1>4, <1>5, Zenon

(* One turn of the loop of process_admin_fifo *)
LEMMA ByteOK ==
  ASSUME NEW w \in Seq(Nat), NEW c \in ByteOf(w), NEW s, ReaderOK(w, c, s)
  PROVE  ReaderOK(w, ByteAfter(w, c), Byte(s, c))
<1> DEFINE i == c[1]  k == c[2]
           B == Seq(Nat \X Nat)
<1>1. c = <<i, k>> /\ i \in Nat /\ k \in Nat /\ i \in 1 .. Len(w) /\ k <= w[i] /\ w[i] \in Nat
  BY DEF ByteOf
<1>2. /\ s \in [buf : B, out : Seq(B)] /\ Left(s.buf, i, Before(w, c)) /\ OutOK(w, i - 1, s.out)
  BY Zenon DEF ReaderOK
<1>3. s.buf \in B /\ s.out \in Seq(B) /\ s = [buf |-> s.buf, out |-> s.out]
  BY <1>2
<1>4. CASE k = 0
  <2> DEFINE o == IF s.buf = <<>> THEN s.out ELSE Append(s.out, s.buf)
             t == [buf |-> <<>>, out |-> o]
  <2>1. Byte(s, c) = t
    BY <1>4, Zenon DEF Byte
  <2>2. i - 1 \in Nat /\ i - 1 + 1 = i
    BY <1>1
  <2>3. Left(s.buf, i, w[i])
    BY <1>2, <1>4, Zenon DEF Before
  <2>4. OutOK(w, i, o)
    <3> HIDE DEF i, B
    <3>1. OutOK(w, i - 1 + 1, o)
      BY <1>1, <1>2, <1>3, <2>2, <2>3, OutMore, ZenonT(60) DEF B
    <3>2. QED
      BY <2>2, <3>1, Zenon
  <2>5. o \in Seq(B)
    BY <2>4, Zenon DEF OutOK
  <2>6. t \in [buf : B, out : Seq(B)] /\ t.buf = <<>> /\ t.out = o
    BY <2>5
  <2>7. ByteAfter(w, c) = FirstByte(w, i + 1)
    BY <1>4, Zenon DEF ByteAfter
  <2>8. FirstByte(w, i + 1)[1] = i + 1 /\ Before(w, FirstByte(w, i + 1)) = 0
    <3>1. CASE i + 1 \in 1 .. Len(w) /\ w[i + 1] = 0
      <4>1. FirstByte(w, i + 1) = <<i + 1, 0>>
        BY <3>1, Zenon DEF FirstByte, Newline
      <4>2. QED
        BY <3>1, <4>1 DEF Before
    <3>2. CASE ~(i + 1 \in 1 .. Len(w) /\ w[i + 1] = 0)
      <4>1. FirstByte(w, i + 1) = <<i + 1, 1>>
        BY <3>2, Zenon DEF FirstByte
      <4>2. QED
        BY <4>1 DEF Before
    <3>3. QED
      BY <3>1, <3>2, Zenon
  <2>9. \A x : x = i + 1 => x - 1 = i
    BY <1>1
  <2> HIDE DEF t, o, i, k
  <2>10. Left(t.buf, i + 1, 0)
    BY <2>6, LeftNothing, Zenon
  <2>11. /\ Left(t.buf, ByteAfter(w, c)[1], Before(w, ByteAfter(w, c)))
         /\ ByteAfter(w, c)[1] - 1 = i
    <3>1. ByteAfter(w, c)[1] = i + 1 /\ Before(w, ByteAfter(w, c)) = 0
      BY <2>7, <2>8, Zenon
    <3>2. Left(t.buf, ByteAfter(w, c)[1], Before(w, ByteAfter(w, c)))
      BY <2>10, <3>1, Zenon
    <3>3. ByteAfter(w, c)[1] - 1 = i
      BY <2>9, <3>1, Zenon
    <3>4. QED
      BY <3>2, <3>3, Zenon
  <2>12. OutOK(w, ByteAfter(w, c)[1] - 1, t.out)
    BY <2>4, <2>6, <2>11, Zenon
  <2>13. QED
    BY <2>1, <2>6, <2>11, <2>12, Zenon DEF ReaderOK, B
<1>5. CASE k # 0
  <2> DEFINE b == IF Len(s.buf) + 1 < LineMax THEN Append(s.buf, c) ELSE <<>>
             t == [buf |-> b, out |-> s.out]
  <2>1. Byte(s, c) = t
    <3>1. CASE Len(s.buf) + 1 < LineMax
      <4>1. Byte(s, c) = [s EXCEPT !.buf = Append(s.buf, c)]
        BY <1>5, <3>1, Zenon DEF Byte
      <4>2. QED
        BY <1>3, <3>1, <4>1, Zenon
    <3>2. CASE ~(Len(s.buf) + 1 < LineMax)
      <4>1. Byte(s, c) = [s EXCEPT !.buf = <<>>]
        BY <1>5, <3>2, Zenon DEF Byte
      <4>2. QED
        BY <1>3, <3>2, <4>1, Zenon
    <3>3. QED
      BY <3>1, <3>2, Zenon
  <2>2. k - 1 \in Nat /\ k - 1 + 1 = k /\ Left(s.buf, i, k - 1)
    <3>1. Before(w, c) = k - 1
      BY <1>5, Zenon DEF Before
    <3>2. k - 1 \in Nat /\ k - 1 + 1 = k
      BY SMTT(60), <1>1, <1>5
    <3>3. QED
      BY <1>2, <3>1, <3>2, Zenon
  <2>3. Left(b, i, k)
    <3> HIDE DEF i, k, B
    <3>1. Left(IF Len(s.buf) + 1 < LineMax THEN Append(s.buf, <<i, k - 1 + 1>>) ELSE <<>>,
               i, k - 1 + 1)
      BY <1>1, <1>3, <2>2, LeftMore, Zenon DEF B
    <3>2. <<i, k - 1 + 1>> = c
      BY <1>1, <2>2, Zenon
    <3>3. QED
      BY <2>2, <3>1, <3>2, Zenon
  <2>4. b \in B
    BY <1>1, <1>3
  <2>5. t \in [buf : B, out : Seq(B)] /\ t.buf = b /\ t.out = s.out
    BY <1>3, <2>4
  <2>6. ByteAfter(w, c)[1] = i /\ Before(w, ByteAfter(w, c)) = k
    <3>1. CASE k < w[i]
      <4>1. ByteAfter(w, c) = <<i, k + 1>>
        BY <1>5, <3>1, Zenon DEF ByteAfter
      <4>2. k + 1 # 0 /\ k + 1 - 1 = k
        BY <1>1
      <4> HIDE DEF i, k
      <4>3. QED
        BY SMTT(60), <1>1, <4>1, <4>2 DEF Before
    <3>2. CASE ~(k < w[i])
      <4>1. ByteAfter(w, c) = <<i, 0>> /\ w[i] = k
        BY <1>1, <1>5, <3>2 DEF ByteAfter, Newline
      <4>2. QED
        BY <1>1, <4>1 DEF Before
    <3>3. QED
      BY <3>1, <3>2, Zenon
  <2> HIDE DEF t, b, i, k
  <2>7. QED
    BY <1>2, <2>1, <2>3, <2>5, <2>6, Zenon DEF ReaderOK
<1>6. QED
  BY <1>4, <1>5, Zenon

(* The loop over a whole read *)
LEMMA TakenOK ==
  ASSUME StreamOK(written, pipe), ReaderOK(written, Place(written, pipe, 0), State)
  PROVE  \A n \in 0 .. Len(pipe) : ReaderOK(written, Place(written, pipe, n), Taken(n))
<1> DEFINE N == Len(pipe)
           B == Seq(Nat \X Nat)
           V == [buf : B, out : Seq(B)]
           step == [x \in (1 .. N) \X V |-> Byte(x[2], pipe[x[1]])]
           after == CHOOSE g : g = [i \in 0 .. N |-> IF i = 0 THEN State ELSE Byte(g[i - 1], pipe[i])]
<1>1. N \in Nat /\ State \in V /\ written \in Seq(Nat) /\ pipe \in B
  <2>1. State \in V /\ written \in Seq(Nat) /\ pipe \in B
    BY Zenon DEF StreamOK, ReaderOK
  <2>2. QED
    BY <2>1
<1>2. ASSUME NEW c \in Nat \X Nat, NEW v \in V PROVE Byte(v, c) \in V
  <2>1. v.buf \in B /\ v.out \in Seq(B) /\ v = [buf |-> v.buf, out |-> v.out]
    OBVIOUS
  <2>2. <<>> \in B /\ Append(v.buf, c) \in B /\ Append(v.out, v.buf) \in Seq(B)
    BY SMTT(60), <2>1
  <2>3. CASE c[2] = 0
    <3> DEFINE o == IF v.buf = <<>> THEN v.out ELSE Append(v.out, v.buf)
    <3>1. Byte(v, c) = [buf |-> <<>>, out |-> o]
      BY <2>3, Zenon DEF Byte
    <3>2. o \in Seq(B)
      BY <2>1, <2>2, Zenon
    <3> HIDE DEF o, B
    <3>3. QED
      BY <2>2, <3>1, <3>2
  <2>4. CASE c[2] # 0
    <3>1. \/ Byte(v, c) = [v EXCEPT !.buf = Append(v.buf, c)]
          \/ Byte(v, c) = [v EXCEPT !.buf = <<>>]
      BY <2>4, Zenon DEF Byte
    <3> HIDE DEF B
    <3>2. QED
      BY <2>1, <2>2, <3>1, Zenon
  <2>5. QED
    BY <2>3, <2>4, Zenon
<1>3. ASSUME NEW i \in 1 .. N, NEW v \in V
      PROVE  step[<<i, v>>] \in V /\ step[<<i, v>>] = Byte(v, pipe[i])
  <2>1. pipe[i] \in Nat \X Nat
    BY <1>1
  <2>2. step[<<i, v>>] = Byte(v, pipe[i])
    BY Zenon
  <2>3. QED
    BY <1>2, <2>1, <2>2, ZenonT(60)
<1>4. step \in [(1 .. N) \X V -> V]
  <2>1. ASSUME NEW x \in (1 .. N) \X V PROVE step[x] \in V
    <3> HIDE DEF step, V, N
    <3>1. PICK i \in 1 .. N, v \in V : x = <<i, v>>
      BY <2>1
    <3>2. QED
      BY <1>3, <3>1, Zenon
  <2>2. QED
    BY <2>1, Zenon
<1> HIDE DEF step, V
<1>5. StepsTo(N, V, State, step)
  BY <1>1, <1>4, Zenon DEF StepsTo
<1>6. PICK g : IteratesTo(g, N, V, State, step)
  BY <1>5, IntervalIteration, Zenon
<1>7. g \in [0 .. N -> V] /\ g[0] = State /\ \A i \in 1 .. N : g[i] = step[<<i, g[i - 1]>>]
  BY <1>6, Zenon DEF IteratesTo
<1>8. \A i \in 1 .. N : i - 1 \in 0 .. N /\ i \in 0 .. N
  BY <1>1
<1>9. g = [i \in 0 .. N |-> IF i = 0 THEN State ELSE Byte(g[i - 1], pipe[i])]
  <2>1. \A i \in 0 .. N : i = 0 \/ i \in 1 .. N
    BY <1>1
  <2>2. \A i \in 1 .. N : i # 0
    OBVIOUS
  <2>3. \A i \in 0 .. N : g[i] = IF i = 0 THEN State ELSE Byte(g[i - 1], pipe[i])
    BY <1>3, <1>7, <1>8, <2>1, <2>2, ZenonT(60)
  <2>4. QED
    BY <1>7, <2>3, Zenon
<1>10. after = [i \in 0 .. N |-> IF i = 0 THEN State ELSE Byte(after[i - 1], pipe[i])]
  BY <1>9, Zenon
<1>11. \A n \in 0 .. N : Taken(n) = after[n]
  BY Zenon DEF Taken
<1> HIDE DEF after
<1>12. 0 \in 0 .. N /\ \A i \in 1 .. N : i # 0
  BY <1>1
<1>13. after[0] = State /\ \A i \in 1 .. N : after[i] = Byte(after[i - 1], pipe[i])
  BY <1>8, <1>10, <1>12, Zenon
<1> DEFINE A == {n \in 0 .. N : ReaderOK(written, Place(written, pipe, n), after[n])}
<1>14. 0 .. N \subseteq A
  <2>1. 0 \in A
    BY <1>12, <1>13, Zenon
  <2>2. ASSUME NEW i \in 1 .. N, i - 1 \in A PROVE i \in A
    <3>1. Place(written, pipe, i - 1) = pipe[i]
      BY <1>1 DEF Place
    <3>2. pipe[i] \in ByteOf(written)
      BY Zenon DEF StreamOK, N
    <3>3. Place(written, pipe, i) = ByteAfter(written, pipe[i])
      <4>1. ByteAfter(written, pipe[i]) = IF i = N THEN End(written) ELSE pipe[i + 1]
        BY Zenon DEF StreamOK, N
      <4>2. i < N <=> i # N
        BY <1>1
      <4>3. QED
        BY <4>1, <4>2, Zenon DEF Place
    <3>4. ReaderOK(written, pipe[i], after[i - 1])
      BY <2>2, <3>1, Zenon
    <3>5. ReaderOK(written, ByteAfter(written, pipe[i]), Byte(after[i - 1], pipe[i]))
      BY <1>1, <3>2, <3>4, ByteOK, Zenon
    <3>6. QED
      BY <1>8, <1>13, <3>3, <3>5, ZenonT(60)
  <2> HIDE DEF A, N
  <2>3. QED
    BY <1>1, <2>1, <2>2, IntervalSet, Zenon
<1>15. QED
  BY <1>11, <1>14, ZenonT(60)

(* A further line changes nothing about the lines before it. *)
LEMMA OutSame ==
  ASSUME NEW w, NEW x, NEW d, \A i \in 1 .. d : x[i] = w[i], NEW out, OutOK(w, d, out)
  PROVE  OutOK(x, d, out)
<1>1. /\ out \in Seq(Seq(Nat \X Nat))
      /\ \A i \in 1 .. d : Left(<<>>, i, w[i]) \/ \E j \in 1 .. Len(out) : Left(out[j], i, w[i])
      /\ \A j \in 1 .. Len(out) :
           /\ out[j] # <<>> /\ out[j][1][1] \in 1 .. d
           /\ Left(out[j], out[j][1][1], w[out[j][1][1]])
      /\ \A j, l \in 1 .. Len(out) : j < l => out[j][1][1] < out[l][1][1]
  BY Zenon DEF OutOK
<1>2. ASSUME NEW i \in 1 .. d
      PROVE  Left(<<>>, i, x[i]) \/ \E j \in 1 .. Len(out) : Left(out[j], i, x[i])
  <2>1. x[i] = w[i]
    OBVIOUS
  <2>2. QED
    BY <1>1, <2>1, ZenonT(60)
<1>3. ASSUME NEW j \in 1 .. Len(out)
      PROVE  Left(out[j], out[j][1][1], x[out[j][1][1]])
  <2>1. x[out[j][1][1]] = w[out[j][1][1]]
    BY <1>1, Zenon
  <2>2. QED
    BY <1>1, <2>1, Zenon
<1>4. QED
  BY <1>1, <1>2, <1>3, Zenon DEF OutOK

LEMMA BytesAfter ==
  ASSUME NEW w \in Seq(Nat), NEW length \in Nat, NEW c \in ByteOf(w)
  PROVE  LET x == Append(w, length)
         IN /\ c \in ByteOf(x) /\ c # End(w) /\ Before(x, c) = Before(w, c)
            /\ ByteAfter(x, c) = IF ByteAfter(w, c) = End(w) THEN FirstByte(x, Len(w) + 1)
                                 ELSE ByteAfter(w, c)
<1> DEFINE x == Append(w, length)  i == c[1]  k == c[2]
<1>1. /\ c = <<i, k>> /\ i \in Nat /\ k \in Nat /\ i \in 1 .. Len(w) /\ k <= w[i]
      /\ Len(w) \in Nat /\ w[i] \in Nat
  BY DEF ByteOf
<1>2. /\ Len(x) = Len(w) + 1 /\ \A j \in 1 .. Len(w) : x[j] = w[j]
  OBVIOUS
<1>3. x[i] = w[i] /\ i \in 1 .. Len(x)
  BY <1>1, <1>2
<1> HIDE DEF x
<1>4. c \in ByteOf(x)
  BY <1>1, <1>3 DEF ByteOf
<1>5. c # End(w)
  BY <1>1 DEF End
<1>6. Before(x, c) = Before(w, c)
  BY <1>3, Zenon DEF Before
<1>7. CASE k = 0
  <2>1. ByteAfter(x, c) = FirstByte(x, i + 1) /\ ByteAfter(w, c) = FirstByte(w, i + 1)
    BY <1>7, Zenon DEF ByteAfter
  <2>2. CASE i = Len(w)
    <3>1. ~(i + 1 \in 1 .. Len(w))
      BY <1>1, <2>2
    <3>2. FirstByte(w, i + 1) = End(w)
      BY <2>2, <3>1, Zenon DEF FirstByte, End
    <3>3. QED
      BY <1>4, <1>5, <1>6, <2>1, <2>2, <3>2, ZenonT(60) DEF x
  <2>3. CASE i # Len(w)
    <3>1. i + 1 \in 1 .. Len(w) /\ i + 1 \in 1 .. Len(x) /\ i + 1 # Len(w) + 1
      BY SMTT(60), <1>1, <1>2, <2>3
    <3>2. x[i + 1] = w[i + 1]
      BY <1>2, <3>1, Zenon
    <3>3. FirstByte(x, i + 1) = FirstByte(w, i + 1)
      BY <3>1, <3>2, Zenon DEF FirstByte
    <3>4. FirstByte(w, i + 1)[1] = i + 1 /\ End(w)[1] = Len(w) + 1
      <4>1. FirstByte(w, i + 1) = <<i + 1, 0>> \/ FirstByte(w, i + 1) = <<i + 1, 1>>
        BY Zenon DEF FirstByte, Newline
      <4>2. QED
        BY <4>1 DEF End
    <3>5. QED
      BY <1>4, <1>5, <1>6, <2>1, <3>1, <3>3, <3>4, ZenonT(60) DEF x
  <2>4. QED
    BY <2>2, <2>3, Zenon
<1>8. CASE k # 0
  <2>1. ByteAfter(x, c) = ByteAfter(w, c)
    BY <1>3, <1>8, Zenon DEF ByteAfter
  <2>2. ByteAfter(w, c) = <<i, k + 1>> \/ ByteAfter(w, c) = <<i, 0>>
    BY <1>8, Zenon DEF ByteAfter, Newline
  <2>3. ByteAfter(w, c) # End(w)
    BY <1>1, <2>2 DEF End
  <2>4. QED
    BY <1>4, <1>5, <1>6, <2>1, <2>3, Zenon DEF x
<1>9. QED
  BY <1>7, <1>8, Zenon

(* The bytes of a line and its newline *)
LEMMA LineBytes ==
  ASSUME NEW w \in Seq(Nat), NEW length \in Nat
  PROVE  LET x == Append(w, length)
             i == Len(w) + 1
             y == Append(Line(i, length), Newline(i))
         IN /\ y \in Seq(Nat \X Nat) /\ Len(y) = length + 1
            /\ \A k \in 1 .. length + 1 :
                 /\ y[k] \in ByteOf(x) /\ y[k][1] = i /\ (y[k][2] = 0 => k = length + 1)
                 /\ ByteAfter(x, y[k]) = IF k = length + 1 THEN End(x) ELSE y[k + 1]
            /\ y[length + 1] = Newline(i) /\ y[1] = FirstByte(x, i) /\ Before(x, y[1]) = 0
<1> DEFINE x == Append(w, length)
           i == Len(w) + 1
           y == Append(Line(i, length), Newline(i))
<1>1. i \in Nat /\ Len(x) = i /\ x[i] = length /\ x \in Seq(Nat)
  OBVIOUS
<1>2. /\ y \in Seq(Nat \X Nat) /\ Len(y) = length + 1 /\ y[length + 1] = <<i, 0>>
      /\ \A k \in 1 .. length : y[k] = <<i, k>>
  <2>1. /\ Line(i, length) \in Seq(Nat \X Nat) /\ Len(Line(i, length)) = length
        /\ \A k \in 1 .. length : Line(i, length)[k] = <<i, k>>
    BY <1>1 DEF Line
  <2>2. <<i, 0>> \in Nat \X Nat
    BY <1>1
  <2> HIDE DEF i
  <2>3. QED
    BY <2>1, <2>2 DEF Newline
<1> HIDE DEF x, i, y
<1>3. /\ i \in 1 .. Len(x) /\ ~(i + 1 \in 1 .. Len(x)) /\ i + 1 = Len(x) + 1
  BY <1>1 DEF i
<1>4. y[1] = FirstByte(x, i) /\ Before(x, y[1]) = 0
  <2>1. CASE length = 0
    <3>1. y[1] = <<i, 0>>
      BY <1>2, <2>1
    <3>2. FirstByte(x, i) = <<i, 0>>
      BY <1>1, <1>3, <2>1, Zenon DEF FirstByte, Newline
    <3>3. Before(x, <<i, 0>>) = 0
      BY <1>1, <2>1 DEF Before
    <3>4. QED
      BY <3>1, <3>2, <3>3, Zenon
  <2>2. CASE length # 0
    <3>1. y[1] = <<i, 1>>
      BY <1>2, <2>2
    <3>2. FirstByte(x, i) = <<i, 1>>
      BY <1>1, <1>3, <2>2, Zenon DEF FirstByte
    <3>3. Before(x, <<i, 1>>) = 0
      BY DEF Before
    <3>4. QED
      BY <3>1, <3>2, <3>3, Zenon
  <2>3. QED
    BY <2>1, <2>2, Zenon
<1>5. ASSUME NEW k \in 1 .. length + 1
      PROVE  /\ y[k] \in ByteOf(x) /\ y[k][1] = i /\ (y[k][2] = 0 => k = length + 1)
             /\ ByteAfter(x, y[k]) = IF k = length + 1 THEN End(x) ELSE y[k + 1]
  <2>1. CASE k = length + 1
    <3>1. y[k] = <<i, 0>>
      BY <1>2, <2>1
    <3>2. <<i, 0>> \in ByteOf(x)
      BY <1>1, <1>3 DEF ByteOf
    <3>3. FirstByte(x, i + 1) = <<i + 1, 1>>
      BY <1>3, Zenon DEF FirstByte
    <3>4. ByteAfter(x, <<i, 0>>) = FirstByte(x, i + 1)
      BY DEF ByteAfter
    <3>5. ByteAfter(x, <<i, 0>>) = End(x)
      BY <1>3, <3>3, <3>4, Zenon DEF End
    <3>6. <<i, 0>>[1] = i
      OBVIOUS
    <3>7. QED
      BY <2>1, <3>1, <3>2, <3>5, <3>6, ZenonT(60)
  <2>2. CASE k # length + 1
    <3>1. k \in 1 .. length /\ k \in Nat /\ k # 0 /\ k <= length
      BY <2>2
    <3>2. y[k] = <<i, k>>
      BY <1>2, <3>1, Zenon
    <3>3. <<i, k>> \in ByteOf(x)
      BY <1>1, <1>3, <3>1 DEF ByteOf
    <3>4. ByteAfter(x, <<i, k>>) = IF k < length THEN <<i, k + 1>> ELSE <<i, 0>>
      BY <1>1, <3>1 DEF ByteAfter, Newline
    <3>5. y[k + 1] = IF k < length THEN <<i, k + 1>> ELSE <<i, 0>>
      <4>1. CASE k < length
        <5>1. k + 1 \in 1 .. length
          BY <3>1, <4>1
        <5>2. QED
          BY <1>2, <4>1, <5>1, Zenon
      <4>2. CASE ~(k < length)
        <5>1. k + 1 = length + 1
          BY <3>1, <4>2
        <5>2. QED
          BY <1>2, <4>2, <5>1, Zenon
      <4>3. QED
        BY <4>1, <4>2, Zenon
    <3>6. <<i, k>>[1] = i /\ <<i, k>>[2] # 0
      BY <3>1
    <3>7. QED
      BY <2>2, <3>2, <3>3, <3>4, <3>5, <3>6, ZenonT(60)
  <2>3. QED
    BY <2>1, <2>2, Zenon
<1>6. QED
  BY <1>2, <1>4, <1>5, Zenon DEF x, y, i, Newline

-----------------------------------------------------------------------------
(* The two steps *)

LEMMA Concatenation ==
  ASSUME NEW S, NEW a \in Seq(S), NEW b \in Seq(S)
  PROVE  /\ a \o b \in Seq(S) /\ Len(a \o b) = Len(a) + Len(b)
         /\ \A n \in 1 .. Len(a) : (a \o b)[n] = a[n]
         /\ \A k \in 1 .. Len(b) : (a \o b)[Len(a) + k] = b[k]
<1>1. a \o b \in Seq(S)
  OBVIOUS
<1>2. Len(a \o b) = Len(a) + Len(b)
  OBVIOUS
<1>3. \A n \in 1 .. Len(a) : (a \o b)[n] = a[n]
  OBVIOUS
<1>4. \A k \in 1 .. Len(b) : (a \o b)[Len(a) + k] = b[k]
  OBVIOUS
<1>5. QED
  BY <1>1, <1>2, <1>3, <1>4, Zenon

LEMMA WriteLineInv ==
  ASSUME afInv, NEW length \in Nat, WriteLine(length)
  PROVE  afInv'
<1> DEFINE w == written  p == pipe
           x == Append(w, length)
           i == Len(w) + 1
           y == Append(Line(i, length), Newline(i))
           z == p \o y
<1>1. written' = x /\ pipe' = z /\ State' = State
  BY Zenon DEF WriteLine, State
<1>2. /\ w \in Seq(Nat) /\ p \in Seq(Nat \X Nat)
      /\ \A n \in 1 .. Len(p) :
           /\ p[n] \in ByteOf(w)
           /\ ByteAfter(w, p[n]) = IF n = Len(p) THEN End(w) ELSE p[n + 1]
      /\ \A n, l \in 1 .. Len(p) :
           n < l => p[n][1] <= p[l][1] /\ (p[n][2] = 0 => p[n][1] < p[l][1])
      /\ p # <<>> => \A j \in p[1][1] .. Len(w) : \E n \in 1 .. Len(p) : p[n] = Newline(j)
  BY Zenon DEF afInv, StreamOK
<1>3. ReaderOK(w, Place(w, p, 0), State)
  BY ZenonT(60) DEF afInv
<1>4. /\ x \in Seq(Nat) /\ Len(x) = i /\ i \in Nat /\ Len(w) \in Nat /\ Len(p) \in Nat
      /\ \A j \in 1 .. Len(w) : x[j] = w[j]
  BY <1>2
<1>5. ASSUME NEW c \in ByteOf(w)
      PROVE  /\ c \in ByteOf(x) /\ c # End(w) /\ Before(x, c) = Before(w, c)
             /\ ByteAfter(x, c) = IF ByteAfter(w, c) = End(w) THEN FirstByte(x, i)
                                  ELSE ByteAfter(w, c)
             /\ c[1] \in Nat /\ c[2] \in Nat /\ c[1] \in 1 .. Len(w)
  <2>1. c[1] \in Nat /\ c[2] \in Nat /\ c[1] \in 1 .. Len(w)
    BY DEF ByteOf
  <2>2. QED
    BY <1>2, <2>1, BytesAfter, ZenonT(60)
<1>6. /\ y \in Seq(Nat \X Nat) /\ Len(y) = length + 1
      /\ \A k \in 1 .. length + 1 :
           /\ y[k] \in ByteOf(x) /\ y[k][1] = i /\ (y[k][2] = 0 => k = length + 1)
           /\ ByteAfter(x, y[k]) = IF k = length + 1 THEN End(x) ELSE y[k + 1]
      /\ y[length + 1] = Newline(i) /\ y[1] = FirstByte(x, i) /\ Before(x, y[1]) = 0
  BY <1>2, LineBytes, Zenon
<1> HIDE DEF y, w, p, i, x
<1>7. /\ z \in Seq(Nat \X Nat) /\ Len(z) = Len(p) + (length + 1)
      /\ \A n \in 1 .. Len(p) : z[n] = p[n]
      /\ \A k \in 1 .. length + 1 : z[Len(p) + k] = y[k]
  <2>1. p \in Seq(Nat \X Nat) /\ y \in Seq(Nat \X Nat) /\ Len(y) = length + 1
    BY <1>2, <1>6, Zenon
  <2> DEFINE C == Nat \X Nat
  <2>2. p \in Seq(C) /\ y \in Seq(C)
    BY <2>1, Zenon
  <2> HIDE DEF C
  <2>3. /\ p \o y \in Seq(C) /\ Len(p \o y) = Len(p) + Len(y)
        /\ \A n \in 1 .. Len(p) : (p \o y)[n] = p[n]
        /\ \A k \in 1 .. Len(y) : (p \o y)[Len(p) + k] = y[k]
    BY <2>2, Concatenation
  <2>4. QED
    BY <2>1, <2>3, Zenon DEF C
<1> HIDE DEF z
<1>8. \A n \in 1 .. Len(z) :
        n \in 1 .. Len(p) \/ \E k \in 1 .. length + 1 : n = Len(p) + k
  <2>1. ASSUME NEW n \in 1 .. Len(z), ~(n \in 1 .. Len(p))
        PROVE  n - Len(p) \in 1 .. length + 1 /\ n = Len(p) + (n - Len(p))
    BY SMTT(60), <1>4, <1>7, <2>1
  <2>2. QED
    BY <2>1, ZenonT(60)
<1>9. 1 \in 1 .. length + 1 /\ length + 1 \in 1 .. length + 1 /\ length + 1 \in Nat
  OBVIOUS
<1>10. ASSUME NEW n \in 1 .. Len(z)
       PROVE  /\ z[n] \in ByteOf(x)
              /\ ByteAfter(x, z[n]) = IF n = Len(z) THEN End(x) ELSE z[n + 1]
  <2>1. CASE n \in 1 .. Len(p)
    <3>1. z[n] = p[n] /\ p[n] \in ByteOf(w)
      BY <1>2, <1>7, <2>1, ZenonT(60)
    <3>2. n # Len(z)
      BY <1>4, <1>7, <2>1
    <3>3. CASE n = Len(p)
      <4>1. ByteAfter(x, z[n]) = y[1]
        BY <1>2, <1>5, <1>6, <2>1, <3>1, <3>3, ZenonT(60)
      <4>2. z[n + 1] = y[1]
        BY <1>7, <1>9, <3>3, Zenon
      <4>3. QED
        BY <1>5, <3>1, <3>2, <4>1, <4>2, ZenonT(60)
    <3>4. CASE n # Len(p)
      <4>1. n + 1 \in 1 .. Len(p)
        BY <1>4, <2>1, <3>4
      <4>2. p[n + 1] # End(w) /\ z[n + 1] = p[n + 1]
        BY <1>2, <1>5, <1>7, <4>1, Zenon
      <4>3. ByteAfter(w, p[n]) = p[n + 1]
        BY <1>2, <2>1, <3>4, Zenon
      <4>4. QED
        BY <1>5, <3>1, <3>2, <4>2, <4>3, ZenonT(60)
    <3>5. QED
      BY <3>3, <3>4, Zenon
  <2>2. ASSUME NEW k \in 1 .. length + 1, n = Len(p) + k
        PROVE  /\ z[n] \in ByteOf(x)
               /\ ByteAfter(x, z[n]) = IF n = Len(z) THEN End(x) ELSE z[n + 1]
    <3>1. z[n] = y[k]
      BY <1>7, <2>2, Zenon
    <3>2. n = Len(z) <=> k = length + 1
      <4>1. Len(z) = Len(p) + (length + 1) /\ Len(p) \in Nat
        BY <1>4, <1>7, Zenon
      <4>2. QED
        BY <2>2, <4>1
    <3>3. CASE k = length + 1
      BY <1>6, <3>1, <3>2, <3>3, ZenonT(60)
    <3>4. CASE k # length + 1
      <4>1. k + 1 \in 1 .. length + 1 /\ n + 1 = Len(p) + (k + 1)
        BY <1>4, <2>2, <3>4
      <4>2. z[Len(p) + (k + 1)] = y[k + 1]
        BY <1>7, <4>1, Zenon
      <4>3. z[n + 1] = y[k + 1]
        BY <4>1, <4>2, Zenon
      <4>4. QED
        BY <1>6, <3>1, <3>2, <3>4, <4>3, ZenonT(60)
    <3>5. QED
      BY <3>3, <3>4, Zenon
  <2>3. QED
    BY <1>8, <2>1, <2>2, Zenon
<1>11. ASSUME NEW n \in 1 .. Len(z), NEW l \in 1 .. Len(z), n < l
       PROVE  z[n][1] <= z[l][1] /\ (z[n][2] = 0 => z[n][1] < z[l][1])
  <2>1. CASE n \in 1 .. Len(p)
    <3>1. z[n] = p[n] /\ p[n][1] \in 1 .. Len(w)
      BY <1>2, <1>5, <1>7, <2>1, Zenon
    <3>2. CASE l \in 1 .. Len(p)
      BY <1>2, <1>7, <1>11, <2>1, <3>1, <3>2, ZenonT(60)
    <3>3. ASSUME NEW k \in 1 .. length + 1, l = Len(p) + k
          PROVE  z[n][1] <= z[l][1] /\ (z[n][2] = 0 => z[n][1] < z[l][1])
      <4>1. z[l] = y[k] /\ y[k][1] = i
        BY <1>6, <1>7, <3>3, Zenon
      <4>2. z[n][1] \in 1 .. Len(w)
        BY <3>1, ZenonT(60)
      <4>3. QED
        BY SMTT(60), <1>4, <4>1, <4>2 DEF i
    <3>4. QED
      BY <1>8, <3>2, <3>3, Zenon
  <2>2. ASSUME NEW k \in 1 .. length + 1, n = Len(p) + k
        PROVE  z[n][1] <= z[l][1] /\ (z[n][2] = 0 => z[n][1] < z[l][1])
    <3>1. ~(l \in 1 .. Len(p))
      BY <1>4, <1>11, <2>2
    <3>2. PICK m \in 1 .. length + 1 : l = Len(p) + m
      BY <1>8, <3>1, ZenonT(60)
    <3>3. k # length + 1
      BY <1>4, <1>11, <2>2, <3>2
    <3>4. z[n] = y[k]
      BY <1>7, <2>2, Zenon
    <3>5. z[l] = y[m]
      BY <1>7, <3>2, Zenon
    <3>6. y[k][1] = i /\ y[m][1] = i /\ y[k][2] # 0
      BY <1>6, <3>3, ZenonT(60)
    <3>7. QED
      BY SMTT(60), <1>4, <3>4, <3>5, <3>6
  <2>3. QED
    BY <1>8, <2>1, <2>2, Zenon
<1>12. z[Len(p) + (length + 1)] = Newline(i) /\ Len(p) + (length + 1) \in 1 .. Len(z)
  <2>1. z[Len(p) + (length + 1)] = Newline(i)
    BY <1>6, <1>7, <1>9, Zenon
  <2>2. QED
    BY <1>4, <1>7, <2>1
<1>13. p = <<>> => z[1] = y[1] /\ z[1][1] = i
  <2>1. SUFFICES ASSUME p = <<>> PROVE z[1] = y[1] /\ z[1][1] = i
    OBVIOUS
  <2>2. Len(p) + 1 = 1
    BY <2>1
  <2>3. z[Len(p) + 1] = y[1] /\ y[1][1] = i
    BY <1>6, <1>7, <1>9, Zenon
  <2>4. QED
    BY <2>2, <2>3, Zenon
<1>14. p # <<>> => 1 \in 1 .. Len(p) /\ z[1] = p[1] /\ p[1] \in ByteOf(w)
  <2>1. p # <<>> => 1 \in 1 .. Len(p)
    BY <1>2
  <2>2. QED
    BY <1>2, <1>7, <2>1, ZenonT(60)
<1>15. ASSUME NEW j \in z[1][1] .. Len(x) PROVE \E n \in 1 .. Len(z) : z[n] = Newline(j)
  <2>1. CASE j = i
    BY <1>12, <2>1, Zenon
  <2>2. CASE j # i
    <3>1. p # <<>>
      <4>1. SUFFICES ASSUME p = <<>> PROVE FALSE
        OBVIOUS
      <4>2. z[1][1] = i
        BY <1>13, <4>1, Zenon
      <4>3. j \in i .. i
        BY <1>4, <4>2, Zenon
      <4>4. QED
        BY <1>4, <2>2, <4>3
    <3>2. z[1][1] = p[1][1]
      BY <1>14, <3>1, ZenonT(60)
    <3>3. j \in p[1][1] .. Len(w)
      <4>1. p[1][1] \in Nat /\ j \in p[1][1] .. i
        BY <1>4, <1>5, <1>14, <3>1, <3>2, ZenonT(60)
      <4>2. QED
        BY <1>4, <2>2, <4>1 DEF i
    <3>4. PICK n \in 1 .. Len(p) : p[n] = Newline(j)
      BY <1>2, <3>1, <3>3, ZenonT(60)
    <3>5. n \in 1 .. Len(z) /\ z[n] = p[n]
      BY <1>4, <1>7
    <3>6. QED
      BY <3>4, <3>5, ZenonT(60)
  <2>3. QED
    BY <2>1, <2>2, Zenon
<1>16. StreamOK(x, z)
  BY <1>4, <1>7, <1>10, <1>11, <1>15, ZenonT(60) DEF StreamOK
<1>17. Place(x, z, 0) = z[1]
  BY <1>4, <1>7 DEF Place
<1>18. ReaderOK(x, z[1], State)
  <2>1. CASE p = <<>>
    <3>1. Place(w, p, 0) = <<i, 1>>
      BY <2>1 DEF Place, End, i
    <3>2. Before(w, <<i, 1>>) = 0 /\ <<i, 1>>[1] = i
      BY DEF Before
    <3>3. ReaderOK(w, <<i, 1>>, State)
      BY <1>3, <3>1, ZenonT(60)
    <3>4. /\ State \in [buf : Seq(Nat \X Nat), out : Seq(Seq(Nat \X Nat))]
          /\ Left(State.buf, i, 0) /\ OutOK(w, i - 1, State.out)
      BY <3>2, <3>3 DEF ReaderOK
    <3>5. \A j \in 1 .. i - 1 : x[j] = w[j]
      BY <1>4 DEF i
    <3>6. OutOK(x, i - 1, State.out)
      BY <3>4, <3>5, OutSame, Zenon
    <3>7. z[1][1] = i /\ Before(x, z[1]) = 0
      BY <1>6, <1>13, <2>1, Zenon
    <3>8. QED
      BY <3>4, <3>6, <3>7 DEF ReaderOK
  <2>2. CASE p # <<>>
    <3>1. Place(w, p, 0) = p[1]
      <4>1. 0 < Len(p) /\ 0 + 1 = 1
        BY <1>2, <2>2
      <4>2. QED
        BY <4>1, ZenonT(60) DEF Place
    <3>2. /\ State \in [buf : Seq(Nat \X Nat), out : Seq(Seq(Nat \X Nat))]
          /\ Left(State.buf, p[1][1], Before(w, p[1])) /\ OutOK(w, p[1][1] - 1, State.out)
      BY <1>3, <3>1, Zenon DEF ReaderOK
    <3>3. p[1][1] \in 1 .. Len(w) /\ Before(x, p[1]) = Before(w, p[1])
      BY <1>5, <1>14, <2>2, ZenonT(60)
    <3>4. \A j \in 1 .. p[1][1] - 1 : x[j] = w[j]
      BY SMTT(60), <1>4, <3>3
    <3>5. OutOK(x, p[1][1] - 1, State.out)
      BY <3>2, <3>4, OutSame, Zenon
    <3>6. ReaderOK(x, p[1], State)
      BY <3>2, <3>3, <3>5, Zenon DEF ReaderOK
    <3>7. QED
      BY <1>14, <2>2, <3>6, Zenon
  <2>3. QED
    BY <2>1, <2>2, ZenonT(60)
<1>19. QED
  BY <1>1, <1>16, <1>17, <1>18, Zenon DEF afInv

LEMMA ReadPipeInv ==
  ASSUME afInv, ReadPipe
  PROVE  afInv'
<1> DEFINE w == written  p == pipe  N == Len(p)
           r == IF N < ReadMax THEN N ELSE ReadMax
           z == SubSeq(p, r + 1, N)
<1>1. /\ written' = w /\ pipe' = z /\ p # <<>>
      /\ admin_buf' = Taken(r).buf /\ handled' = Taken(r).out
  BY Zenon DEF ReadPipe
<1>2. /\ w \in Seq(Nat) /\ p \in Seq(Nat \X Nat)
      /\ \A n \in 1 .. N :
           /\ p[n] \in ByteOf(w)
           /\ ByteAfter(w, p[n]) = IF n = N THEN End(w) ELSE p[n + 1]
      /\ \A n, l \in 1 .. N :
           n < l => p[n][1] <= p[l][1] /\ (p[n][2] = 0 => p[n][1] < p[l][1])
      /\ p # <<>> => \A j \in p[1][1] .. Len(w) : \E n \in 1 .. N : p[n] = Newline(j)
  BY ZenonT(60) DEF afInv, StreamOK
<1>3. N \in Nat /\ 1 \in 1 .. N /\ Len(w) \in Nat
  BY SMTT(60), <1>1, <1>2
<1>4. r \in 1 .. N
  BY <1>3, ReadMaxAssumption
<1>5. r \in 0 .. N
  BY <1>3, <1>4
<1>6. ReaderOK(w, Place(w, p, r), Taken(r))
  BY <1>5, TakenOK, Zenon DEF afInv
<1> HIDE DEF r
<1>7. State' = Taken(r)
  <2>1. Taken(r) \in [buf : Seq(Nat \X Nat), out : Seq(Seq(Nat \X Nat))]
    BY <1>6, Zenon DEF ReaderOK
  <2>2. State' = [buf |-> Taken(r).buf, out |-> Taken(r).out]
    BY <1>1, Zenon DEF State
  <2> HIDE DEF r
  <2>3. QED
    BY <2>1, <2>2
<1>8. z \in Seq(Nat \X Nat) /\ Len(z) = N - r /\ \A n \in 1 .. N - r : z[n] = p[n + r]
  <2>1. z \in Seq(Nat \X Nat)
    BY SMTT(60), <1>2, <1>4
  <2>2. Len(z) = N - r
    BY <1>2, <1>3, <1>4
  <2>3. ASSUME NEW n \in 1 .. N - r PROVE z[n] = p[n + r]
    BY <1>2, <1>3, <1>4
  <2>4. QED
    BY <2>1, <2>2, <2>3, ZenonT(60)
<1> HIDE DEF z, w, p, N
<1>9. \A n \in 1 .. Len(z) : n + r \in 1 .. N /\ z[n] = p[n + r]
  <2>1. ASSUME NEW n \in 1 .. Len(z) PROVE n + r \in 1 .. N /\ n \in 1 .. N - r
    BY <1>3, <1>4, <1>8
  <2>2. QED
    BY <1>8, <2>1, Zenon
<1>10. ASSUME NEW n \in 1 .. Len(z)
       PROVE  /\ z[n] \in ByteOf(w)
              /\ ByteAfter(w, z[n]) = IF n = Len(z) THEN End(w) ELSE z[n + 1]
  <2>1. n + r \in 1 .. N /\ z[n] = p[n + r]
    BY <1>9, Zenon
  <2>2. n = Len(z) <=> n + r = N
    BY SMTT(60), <1>3, <1>4, <1>8
  <2>3. n # Len(z) => n + 1 \in 1 .. Len(z) /\ n + 1 + r = n + r + 1
    BY SMTT(60), <1>3, <1>4, <1>8
  <2>4. n # Len(z) => z[n + 1] = p[n + r + 1]
    <3>1. SUFFICES ASSUME n # Len(z) PROVE z[n + 1] = p[n + r + 1]
      OBVIOUS
    <3>2. z[n + 1] = p[n + 1 + r]
      BY <1>9, <2>3, <3>1, Zenon
    <3>3. QED
      BY SMTT(60), <2>3, <3>1, <3>2
  <2>5. QED
    BY <1>2, <2>1, <2>2, <2>4, Zenon
<1>11. ASSUME NEW n \in 1 .. Len(z), NEW l \in 1 .. Len(z), n < l
       PROVE  z[n][1] <= z[l][1] /\ (z[n][2] = 0 => z[n][1] < z[l][1])
  <2>1. n + r < l + r
    BY <1>4, <1>11
  <2>2. QED
    BY <1>2, <1>9, <2>1, ZenonT(60)
<1>12. ASSUME z # <<>>, NEW j \in z[1][1] .. Len(w)
       PROVE  \E n \in 1 .. Len(z) : z[n] = Newline(j)
  <2>1. 1 \in 1 .. Len(z)
    BY <1>8, <1>12
  <2>2. 1 + r \in 1 .. N /\ z[1] = p[1 + r]
    BY <1>9, <2>1, Zenon
  <2>3. 1 < 1 + r
    BY <1>4
  <2>4. p[1][1] <= p[1 + r][1]
    BY <1>2, <1>3, <2>2, <2>3, ZenonT(60)
  <2>5. p[1][1] \in Nat /\ p[1 + r][1] \in Nat
    <3>1. p[1] \in ByteOf(w) /\ p[1 + r] \in ByteOf(w)
      BY <1>2, <1>3, <2>2, Zenon
    <3>2. QED
      BY <3>1 DEF ByteOf
  <2>6. j \in p[1 + r][1] .. Len(w)
    BY <2>2, ZenonT(60)
  <2>7. j \in p[1][1] .. Len(w) /\ ~(j < p[1 + r][1])
    BY <1>3, <2>4, <2>5, <2>6
  <2>8. PICK n \in 1 .. N : p[n] = Newline(j)
    BY <1>1, <1>2, <2>7, ZenonT(60)
  <2>9. p[n][1] = j /\ p[n][2] = 0
    BY <2>8 DEF Newline
  <2>10. ~(n < 1 + r)
    BY <1>2, <2>2, <2>7, <2>9, ZenonT(60)
  <2>11. n - r \in 1 .. Len(z) /\ n - r + r = n
    BY <1>3, <1>4, <1>8, <2>10
  <2>12. z[n - r] = Newline(j)
    BY <1>9, <2>8, <2>11, Zenon
  <2>13. QED
    BY <2>11, <2>12, ZenonT(60)
<1>13. StreamOK(w, z)
  BY <1>2, <1>8, <1>10, <1>11, <1>12, ZenonT(60) DEF StreamOK
<1>14. Place(w, z, 0) = Place(w, p, r)
  <2>1. 0 < Len(z) <=> r < N
    BY <1>3, <1>4, <1>8
  <2>2. CASE r < N
    <3>1. 1 \in 1 .. Len(z) /\ 0 + 1 = 1 /\ 1 + r = r + 1
      BY <1>3, <1>4, <1>8, <2>2
    <3>2. z[1] = p[r + 1]
      BY <1>9, <3>1, Zenon
    <3>3. QED
      BY <2>1, <2>2, <3>1, <3>2, ZenonT(60) DEF Place, N
  <2>3. CASE ~(r < N)
    BY <2>1, <2>3, Zenon DEF Place, N
  <2>4. QED
    BY <2>2, <2>3, Zenon
<1>15. QED
  BY <1>1, <1>6, <1>7, <1>13, <1>14, ZenonT(60) DEF afInv

-----------------------------------------------------------------------------
(* The theorems *)

(* process_admin_fifo: in every state the pipe holds the bytes written     *)
(* from some byte on, the buffer what the bytes of that byte's line before *)
(* it leave, and handle_admin_line was called, in order, for what each     *)
(* line before it left: its last bytes after a multiple of the size of the *)
(* buffer. So a line whose newline was read is never carried into the      *)
(* next, however long it was.                                              *)
THEOREM PipeInvariance == afSpec => []afInv
<1>1. afInit => afInv
  <2>1. SUFFICES ASSUME afInit PROVE afInv
    OBVIOUS
  <2>2. written = <<>> /\ pipe = <<>> /\ admin_buf = <<>> /\ handled = <<>>
    BY <2>1, Zenon DEF afInit
  <2>3. StreamOK(written, pipe)
    BY <2>2 DEF StreamOK
  <2>4. Place(written, pipe, 0) = <<1, 1>>
    BY <2>2 DEF Place, End
  <2>5. Before(written, <<1, 1>>) = 0 /\ <<1, 1>>[1] = 1
    BY DEF Before
  <2>6. State \in [buf : Seq(Nat \X Nat), out : Seq(Seq(Nat \X Nat))]
    BY <2>2 DEF State
  <2>7. State.buf = <<>> /\ State.out = <<>>
    BY <2>2, ZenonT(60) DEF State
  <2>8. OutOK(written, 0, <<>>)
    BY SMTT(60) DEF OutOK
  <2>9. Left(State.buf, 1, 0) /\ OutOK(written, 1 - 1, State.out)
    BY SMTT(60), <2>7, <2>8, LeftNothing
  <2>10. ReaderOK(written, <<1, 1>>, State)
    BY <2>5, <2>6, <2>9 DEF ReaderOK
  <2>11. QED
    BY <2>3, <2>4, <2>10, Zenon DEF afInv
<1>2. afInv /\ [afNext]_afvars => afInv'
  <2>1. SUFFICES ASSUME afInv, [afNext]_afvars PROVE afInv'
    OBVIOUS
  <2>2. ASSUME NEW length \in Length, WriteLine(length) PROVE afInv'
    BY <2>1, <2>2, LengthAssumption, WriteLineInv
  <2>3. CASE ReadPipe
    BY <2>1, <2>3, ReadPipeInv, Zenon
  <2>4. CASE UNCHANGED afvars
    BY <2>1, <2>4, Zenon DEF afvars, afInv, State
  <2>5. QED
    BY <2>1, <2>2, <2>3, <2>4, ZenonT(60) DEF afNext
<1>3. QED
  BY <1>1, <1>2, PTL DEF afSpec

(* process_admin_fifo, for every size of buffer and of read: a line that   *)
(* fits is handled whole as soon as its newline has been read, lines are   *)
(* handled in order and once, an overlong line gives nothing but its end,  *)
(* and the buffer always has room for the NUL.                             *)
THEOREM FittingHandled == afSpec => []FittingLinesHandled
<1>1. afInv => FittingLinesHandled
  <2> SUFFICES ASSUME afInv PROVE FittingLinesHandled
    OBVIOUS
  <2> DEFINE c == Place(written, pipe, 0)  d == c[1] - 1
  <2>1. /\ written \in Seq(Nat) /\ pipe \in Seq(Nat \X Nat)
        /\ \A n \in 1 .. Len(pipe) : pipe[n] \in ByteOf(written)
        /\ pipe # <<>> => \A i \in pipe[1][1] .. Len(written) :
                            \E n \in 1 .. Len(pipe) : pipe[n] = Newline(i)
    BY Zenon DEF afInv, StreamOK
  <2>2. ReaderOK(written, c, State)
    BY Zenon DEF afInv
  <2>3. State.buf = admin_buf /\ State.out = handled
    BY Zenon DEF State
  <2>4. Left(admin_buf, c[1], Before(written, c)) /\ OutOK(written, d, handled)
    BY <2>2, <2>3, Zenon DEF ReaderOK
  <2>5. d \in 0 .. Len(written) /\ Len(written) \in Nat
    <3>1. CASE pipe = <<>>
      <4>1. c = <<Len(written) + 1, 1>>
        BY <3>1 DEF Place, End
      <4>2. QED
        BY <2>1, <4>1
    <3>2. CASE pipe # <<>>
      <4>1. 1 \in 1 .. Len(pipe) /\ 0 < Len(pipe)
        BY <2>1, <3>2
      <4>2. c = pipe[1]
        BY <4>1 DEF Place
      <4>3. c \in ByteOf(written)
        BY <2>1, <4>1, <4>2, Zenon
      <4> HIDE DEF c
      <4>4. c[1] \in 1 .. Len(written)
        BY <4>3 DEF ByteOf
      <4>5. QED
        BY <2>1, <4>4
    <3>3. QED
      BY <3>1, <3>2, ZenonT(60)
  <2>6. /\ handled \in Seq(Seq(Nat \X Nat))
        /\ \A i \in 1 .. d : \/ Left(<<>>, i, written[i])
                             \/ \E j \in 1 .. Len(handled) : Left(handled[j], i, written[i])
        /\ \A j \in 1 .. Len(handled) :
             /\ handled[j] # <<>> /\ handled[j][1][1] \in 1 .. d
             /\ Left(handled[j], handled[j][1][1], written[handled[j][1][1]])
        /\ \A j, l \in 1 .. Len(handled) : j < l => handled[j][1][1] < handled[l][1][1]
    BY <2>4, Zenon DEF OutOK
  <2>7. ASSUME NEW i \in 1 .. Len(written), written[i] \in 1 .. LineMax - 1,
               \A n \in 1 .. Len(pipe) : pipe[n] # Newline(i)
        PROVE  \E j \in 1 .. Len(handled) : handled[j] = Line(i, written[i])
    <3>1. i \in 1 .. d
      <4>1. CASE pipe = <<>>
        <5>1. c = <<Len(written) + 1, 1>>
          BY <4>1 DEF Place, End
        <5>2. QED
          BY <2>1, <5>1
      <4>2. CASE pipe # <<>>
        <5>1. 1 \in 1 .. Len(pipe) /\ 0 < Len(pipe)
          BY <2>1, <4>2
        <5>2. c = pipe[1]
          BY <5>1 DEF Place
        <5>3. ~(i \in pipe[1][1] .. Len(written))
          BY <2>1, <2>7, <4>2, Zenon
        <5> HIDE DEF c
        <5>4. ~(i \in c[1] .. Len(written)) /\ c \in ByteOf(written)
          BY <2>1, <5>1, <5>2, <5>3, ZenonT(60)
        <5>5. c[1] \in Nat
          BY <5>4 DEF ByteOf
        <5>6. QED
          BY SMTT(60), <2>5, <5>4, <5>5
      <4>3. QED
        BY <4>1, <4>2, ZenonT(60)
    <3> HIDE DEF d, c
    <3>2. i \in Nat /\ <<>> \in Seq(Nat \X Nat) /\ Len(<<>>) = 0
      OBVIOUS
    <3>3. ~Left(<<>>, i, written[i])
      <4>1. SUFFICES ASSUME Left(<<>>, i, written[i]) PROVE FALSE
        OBVIOUS
      <4>2. <<>> = Line(i, written[i])
        BY <2>7, <3>2, <4>1, LeftWhole, ZenonT(60)
      <4>3. Len(Line(i, written[i])) = written[i] /\ written[i] # 0
        BY <2>7 DEF Line
      <4>4. QED
        BY <3>2, <4>2, <4>3, ZenonT(60)
    <3>4. PICK j \in 1 .. Len(handled) : Left(handled[j], i, written[i])
      BY <2>6, <3>1, <3>3, ZenonT(60)
    <3>5. handled[j] \in Seq(Nat \X Nat)
      BY <2>6
    <3>6. QED
      BY <2>7, <3>2, <3>4, <3>5, LeftWhole, ZenonT(60)
  <2> HIDE DEF d, c
  <2>8. ASSUME NEW j \in 1 .. Len(handled)
        PROVE  LET i == handled[j][1][1]
               IN handled[j][Len(handled[j])] = <<i, written[i]>>
    <3> DEFINE i == handled[j][1][1]
    <3>1. i \in 1 .. d /\ handled[j] # <<>> /\ Left(handled[j], i, written[i])
      BY <2>6, ZenonT(60)
    <3> HIDE DEF i
    <3>2. handled[j] \in Seq(Nat \X Nat)
      BY <2>6
    <3>3. i \in Nat /\ written[i] \in Nat
      BY SMTT(60), <2>1, <2>5, <3>1
    <3>4. handled[j][Len(handled[j])] = <<i, written[i]>>
      BY <3>1, <3>2, <3>3, LeftEnds
    <3>5. QED
      BY <3>4, Zenon DEF i
  <2>9. Len(admin_buf) < LineMax
    BY <2>4, Zenon DEF Left
  <2>10. QED
    BY <2>6, <2>7, <2>8, <2>9, ZenonT(60) DEF FittingLinesHandled
<1>2. QED
  BY <1>1, PipeInvariance, PTL
=============================================================================
