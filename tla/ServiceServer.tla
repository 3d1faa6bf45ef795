--------------------------- MODULE ServiceServer ---------------------------
(***************************************************************************)
(* bridge/service_server.py: a live-mode backend serves at most capacity   *)
(* requests at once, queues queue_limit more and sheds the rest.  It is    *)
(* one asyncio process, so an action is a callback of its event loop, and  *)
(* a request being served is a task asleep between two of them.            *)
(*                                                                         *)
(* How long a service takes and whether it fails are free; the numbers     *)
(* they are drawn from (and so the fault and clear commands), the          *)
(* histograms, the busy integral and the counts of accepted connections    *)
(* and of probes are left out.                                             *)
(***************************************************************************)
EXTENDS Integers, Sequences, FiniteSets, Functions

CONSTANTS
  ConnId,       \* connections, each made once
  MaxCapacity,  \* bound: what capacity may be set to
  MaxLimit,     \* bound: what queue_limit may be set to
  MaxReqs,      \* bound: requests in all
  MaxBatch      \* bound: lines in one data_received

ASSUME CapacityAssumption == MaxCapacity \in Nat \ {0} /\ MaxLimit \in Nat /\ MaxBatch \in Nat
ASSUME ConnIdAssumption == IsFiniteSet(ConnId)

VARIABLES
  capacity, queue_limit,
  server,   \* the rest of Server, and reqs: the number of requests so far
  conns,    \* the Conn objects
  brought   \* history: requests being served or queued at the last reset_stats

svvars == <<capacity, queue_limit, server, conns, brought>>

NoCount == [arrivals |-> 0, ok |-> 0, err |-> 0, shed |-> 0, abandoned |-> 0]

(* A Conn is alive from connection_made to connection_lost; it is closing  *)
(* once its transport has been closed and connection_lost is due.          *)
Connected(conn) == conn \in {"open", "closing"}

(* The requests the server has admitted and not yet served *)
Pending(s) == s.serving \cup Range(s.queue)

svInit ==
  /\ capacity \in 1 .. MaxCapacity /\ queue_limit \in 0 .. MaxLimit
  /\ server = [busy |-> 0, queue |-> <<>>, serving |-> {}, c |-> NoCount,
               open_conns |-> 0, reqs |-> 0]
  /\ conns = [k \in ConnId |-> "none"]
  /\ brought = 0

-----------------------------------------------------------------------------
(* Admission; s is the server *)
_start(s, r) == [s EXCEPT !.busy = @ + 1, !.serving = @ \cup {r}]

(* The loops of _serve and on_command: queued requests start, first come   *)
(* first, while fewer than cap are being served.                           *)
StartQueued(s, cap) ==
  LET free == IF s.busy < cap THEN cap - s.busy ELSE 0
      n == IF Len(s.queue) < free THEN Len(s.queue) ELSE free
  IN [s EXCEPT !.busy = @ + n,
               !.serving = @ \cup {s.queue[i] : i \in 1 .. n},
               !.queue = SubSeq(@, n + 1, Len(@))]

submit(s, r) ==
  LET t == [s EXCEPT !.c.arrivals = @ + 1, !.reqs = @ + 1]
  IN IF t.busy < capacity THEN _start(t, r)
     ELSE IF Len(t.queue) < queue_limit THEN [t EXCEPT !.queue = Append(@, r)]
     ELSE [t EXCEPT !.c.shed = @ + 1]

(* The i-th line of those that arrive together on connection k, and the    *)
(* server after the first n of them.                                       *)
RequestLine(s, k, closes, i) == [id |-> s.reqs + i, conn |-> k, close |-> closes[i]]

Submitted(s, k, closes, n) ==
  LET after[i \in 0 .. Len(closes)] ==
        IF i = 0 THEN s ELSE submit(after[i - 1], RequestLine(s, k, closes, i))
  IN after[n]

(* A reply to a request that asked for it closes the connection. *)
reply(conn, r) ==
  IF conn = "open" /\ r.close THEN "closing" ELSE conn

-----------------------------------------------------------------------------
(* The event loop *)
connection_made(k) ==
  /\ conns[k] = "none"
  /\ conns' = [conns EXCEPT ![k] = "open"]
  /\ server' = [server EXCEPT !.open_conns = @ + 1]
  /\ UNCHANGED <<capacity, queue_limit, brought>>

(* Whole lines arrive: some requests, and maybe one that is none, or is    *)
(* too long, which closes the connection.  A request that is shed in       *)
(* mid-batch closes it as well, and the lines after it are still handled.  *)
server_data_received(k, closes, bad) ==
  /\ conns[k] = "open"
  /\ closes # <<>> \/ bad
  /\ server.reqs + Len(closes) <= MaxReqs
  /\ LET after == Submitted(server, k, closes, Len(closes))
         shed == {RequestLine(server, k, closes, i) : i \in DOMAIN closes} \ Pending(after)
         closed == bad \/ \E r \in shed : r.close
     IN /\ server' = after
        /\ conns' = [conns EXCEPT ![k] = IF closed THEN "closing" ELSE @]
  /\ UNCHANGED <<capacity, queue_limit, brought>>

(* The idle timer, which a request being served does not hold off. *)
_on_idle(k) ==
  /\ conns[k] = "open"
  /\ conns' = [conns EXCEPT ![k] = "closing"]
  /\ UNCHANGED <<capacity, queue_limit, server, brought>>

(* The peer is gone, or a close has been carried out. *)
server_connection_lost(k) ==
  /\ Connected(conns[k])
  /\ conns' = [conns EXCEPT ![k] = "lost"]
  /\ server' = [server EXCEPT !.open_conns = @ - 1]
  /\ UNCHANGED <<capacity, queue_limit, brought>>

(* Mutant: work nobody waits for any more is not counted. *)
_serveIfHeard(r, failed) ==
  /\ r \in server.serving
  /\ LET k == r.conn
         done == [server EXCEPT
                    !.serving = @ \ {r}, !.busy = @ - 1,
                    !.c = IF Connected(conns[k])
                          THEN [@ EXCEPT ![IF failed THEN "err" ELSE "ok"] = @ + 1]
                          ELSE [@ EXCEPT !.abandoned = @ + 1]]
     IN /\ server' = StartQueued(done, capacity)
        /\ conns' = [conns EXCEPT ![k] = reply(@, r)]
  /\ UNCHANGED <<capacity, queue_limit, brought>>

(* Mutant: the freed place is left to the next arrival. *)
_serveStartsNone(r, failed) ==
  /\ r \in server.serving
  /\ LET k == r.conn
     IN /\ server' = [server EXCEPT
                        !.serving = @ \ {r}, !.busy = @ - 1,
                        !.c[IF failed THEN "err" ELSE "ok"] = @ + 1,
                        !.c.abandoned = IF Connected(conns[k]) THEN @ ELSE @ + 1]
        /\ conns' = [conns EXCEPT ![k] = reply(@, r)]
  /\ UNCHANGED <<capacity, queue_limit, brought>>

(* A task's sleep is over: the work counts whether or not anyone listens.  *)
_serve(r, failed) ==
  /\ r \in server.serving
  /\ LET k == r.conn
         done == [server EXCEPT
                    !.serving = @ \ {r}, !.busy = @ - 1,
                    !.c[IF failed THEN "err" ELSE "ok"] = @ + 1,
                    !.c.abandoned = IF Connected(conns[k]) THEN @ ELSE @ + 1]
     IN /\ server' = StartQueued(done, capacity)
        /\ conns' = [conns EXCEPT ![k] = reply(@, r)]
  /\ UNCHANGED <<capacity, queue_limit, brought>>

(* Mutant: a raised capacity waits for the next service to end. *)
configStartsNone(cap, limit) ==
  /\ <<cap, limit>> # <<capacity, queue_limit>>
  /\ capacity' = cap /\ queue_limit' = limit
  /\ UNCHANGED <<server, conns, brought>>

(* on_command, config *)
config(cap, limit) ==
  /\ <<cap, limit>> # <<capacity, queue_limit>>
  /\ capacity' = cap /\ queue_limit' = limit
  /\ server' = StartQueued(server, cap)
  /\ UNCHANGED <<conns, brought>>

(* on_command, reset_stats *)
server_reset_stats ==
  /\ server' = [server EXCEPT !.c = NoCount]
  /\ brought' = server.busy + Len(server.queue)
  /\ UNCHANGED <<capacity, queue_limit, conns>>

Batch == UNION {[1 .. b -> BOOLEAN] : b \in 0 .. MaxBatch}

svNext ==
  \/ \E k \in ConnId, closes \in Batch, bad \in BOOLEAN :
       server_data_received(k, closes, bad)
  \/ \E k \in ConnId : connection_made(k) \/ _on_idle(k) \/ server_connection_lost(k)
  \/ \E r \in server.serving, failed \in BOOLEAN : _serve(r, failed)
  \/ \E cap \in 1 .. MaxCapacity, limit \in 0 .. MaxLimit : config(cap, limit)
  \/ server_reset_stats

svSpec == svInit /\ [][svNext]_svvars

(* Every sleep ends. *)
svFairSpec ==
  svSpec /\ \A id \in 1 .. MaxReqs :
              WF_svvars(\E r \in server.serving, failed \in BOOLEAN :
                          r.id = id /\ _serve(r, failed))

-----------------------------------------------------------------------------
(* Work waits only while capacity is used up, whatever is reconfigured     *)
(* under way: submit, _serve and on_command each leave it so.              *)
WorkConserving == server.queue # <<>> => server.busy >= capacity

(* The counters account for every request since the last reset_stats: what *)
(* was carried over it and what has arrived is answered, shed, being       *)
(* served or queued, and each request is at one place only.                *)
Accounted ==
  LET s == server
  IN /\ s.c.arrivals + brought = s.c.ok + s.c.err + s.c.shed + s.busy + Len(s.queue)
     /\ s.c.abandoned <= s.c.ok + s.c.err
     /\ s.busy = Cardinality(s.serving)
     /\ s.serving \cap Range(s.queue) = {}
     /\ s.open_conns = Cardinality({k \in ConnId : Connected(conns[k])})

(* A request that was admitted is served in the end, also when its client  *)
(* has left and when the capacity is lowered under it.                     *)
AdmittedIsServed ==
  \A id \in 1 .. MaxReqs :
    []<>(\A r \in Pending(server) : r.id # id)
=============================================================================
