----------------------------- MODULE LiveBridge -----------------------------
(***************************************************************************)
(* How live mode reaches the browser: the loop thread of live_bridge.py    *)
(* publishes a snapshot on every tick to the mailbox of httpapi.py, and a  *)
(* thread for each browser stream waits there for one that is newer than   *)
(* the last it has sent.  The mailbox also tells the loop whether anybody  *)
(* watches, so that the load is paused when nobody does.                   *)
(*                                                                         *)
(* Every action is what a thread does under the mailbox's lock, or between *)
(* two uses of it; closing is read without the lock.                       *)
(***************************************************************************)
EXTENDS Integers, FiniteSets

CONSTANTS
  Thread,             \* handler threads that ask for the stream
  MAX_STREAMS,
  AUTO_PAUSE_AFTER_S, \* in steps of the clock
  MaxSeq              \* bound: snapshots; the last one stands for all later ones

ASSUME ThreadAssumption == IsFiniteSet(Thread)
ASSUME BoundsAssumption ==
  MAX_STREAMS \in Nat /\ AUTO_PAUSE_AFTER_S \in Nat /\ MaxSeq \in Nat

VARIABLES
  seq, streams, closing,  \* of Publisher
  idle,             \* time since last_stream_seen, counted a little past the limit
  stream_slots,     \* free places of the semaphore
  handler,          \* the handler threads: step, locals seq and new_seq
  sent,             \* the last snapshot on the wire to each browser, or -1
  loop,             \* what the loop thread does next
  stop,             \* the stop event
  load_suppressed,
  unwatched         \* history: time since a stream was open, counted likewise

publisher == <<seq, streams, closing, idle>>
lvvars == <<publisher, stream_slots, handler, sent, loop, stop, load_suppressed, unwatched>>

Off == [pc |-> "off", seq |-> -1, new_seq |-> -1]
Waiting(s) == [pc |-> "wait", seq |-> s, new_seq |-> -1]

lvInit ==
  /\ seq = 0 /\ streams = 0 /\ closing = FALSE /\ idle = 0
  /\ stream_slots = MAX_STREAMS
  /\ handler = [t \in Thread |-> Off]
  /\ sent = [t \in Thread |-> -1]
  /\ loop = "check" /\ stop = FALSE /\ load_suppressed = FALSE
  /\ unwatched = 0

-----------------------------------------------------------------------------
(* A stream: _stream *)
At(t, pc) == handler[t].pc = pc
Goto(t, pc) == handler' = [handler EXCEPT ![t] = [Off EXCEPT !.pc = pc]]

(* A request for the stream is taken in. *)
Accept(t) ==
  /\ At(t, "off") /\ loop # "down"
  /\ Goto(t, "request")
  /\ UNCHANGED <<publisher, stream_slots, sent, loop, stop, load_suppressed, unwatched>>

(* Without a free place the answer is 503. *)
Acquire(t) ==
  /\ At(t, "request")
  /\ \/ /\ stream_slots > 0
        /\ stream_slots' = stream_slots - 1
        /\ Goto(t, "admitted")
     \/ stream_slots = 0 /\ Goto(t, "off") /\ UNCHANGED stream_slots
  /\ UNCHANGED <<publisher, sent, loop, stop, load_suppressed, unwatched>>

(* Mutant: the time is taken when a stream opens, and not when it ends. *)
stream_count_opening(delta) ==
  /\ streams' = streams + delta
  /\ idle' = IF delta > 0 THEN 0 ELSE idle
  /\ UNCHANGED <<seq, closing>>

stream_count(delta) ==
  /\ streams' = streams + delta
  /\ idle' = 0
  /\ UNCHANGED <<seq, closing>>

(* Mutant: a new stream waits for the next snapshot. *)
EnterAtNext(t) ==
  /\ At(t, "admitted")
  /\ stream_count(1)
  /\ \/ ~closing /\ handler' = [handler EXCEPT ![t] = Waiting(seq)]
     \/ Goto(t, "leave")
  /\ unwatched' = 0
  /\ UNCHANGED <<stream_slots, sent, loop, stop, load_suppressed>>

(* The headers are sent, or that fails. *)
Enter(t) ==
  /\ At(t, "admitted")
  /\ stream_count(1)
  /\ \/ ~closing /\ handler' = [handler EXCEPT ![t] = Waiting(-1)]
     \/ Goto(t, "leave")
  /\ unwatched' = 0
  /\ UNCHANGED <<stream_slots, sent, loop, stop, load_suppressed>>

(* wait_newer returns what there is: something newer, or the wait has      *)
(* timed out, or everything closes.                                        *)
wait_newer(t) ==
  /\ At(t, "wait")
  /\ handler' = [handler EXCEPT ![t] = [@ EXCEPT !.pc = "woken", !.new_seq = seq]]
  /\ UNCHANGED <<publisher, stream_slots, sent, loop, stop, load_suppressed, unwatched>>

(* Mutant: the stream does not look whether everything closes. *)
WriteOn(t) ==
  /\ At(t, "woken")
  /\ \/ /\ handler' = [handler EXCEPT ![t] = Waiting(handler[t].new_seq)]
        /\ sent' = [sent EXCEPT ![t] = handler[t].new_seq]
     \/ Goto(t, "leave") /\ UNCHANGED sent
  /\ UNCHANGED <<publisher, stream_slots, loop, stop, load_suppressed, unwatched>>

(* The snapshot, or a keepalive, is written, or that fails; then closing   *)
(* is looked at once more.                                                 *)
Write(t) ==
  /\ At(t, "woken")
  /\ \/ /\ ~closing
        /\ handler' = [handler EXCEPT ![t] = Waiting(handler[t].new_seq)]
        /\ sent' = IF handler[t].new_seq = handler[t].seq THEN sent
                   ELSE [sent EXCEPT ![t] = handler[t].new_seq]
     \/ Goto(t, "leave") /\ UNCHANGED sent
  /\ UNCHANGED <<publisher, stream_slots, loop, stop, load_suppressed, unwatched>>

(* The finally clause. *)
Leave(t) ==
  /\ At(t, "leave")
  /\ stream_count(-1)
  /\ Goto(t, "release")
  /\ sent' = [sent EXCEPT ![t] = -1]
  /\ unwatched' = 0
  /\ UNCHANGED <<stream_slots, loop, stop, load_suppressed>>

Release(t) ==
  /\ At(t, "release")
  /\ stream_slots' = stream_slots + 1
  /\ handler' = [handler EXCEPT ![t] = Off]
  /\ UNCHANGED <<publisher, sent, loop, stop, load_suppressed, unwatched>>

-----------------------------------------------------------------------------
(* The loop thread.  A tick awaits the poll of the load balancer; then,    *)
(* who watches; last, publish.                                             *)
StartTick ==
  /\ loop = "check" /\ ~stop
  /\ loop' = "poll"
  /\ UNCHANGED <<publisher, stream_slots, handler, sent, stop, load_suppressed, unwatched>>

CheckWatched ==
  /\ loop = "poll"
  /\ load_suppressed' = (streams = 0 /\ idle > AUTO_PAUSE_AFTER_S)
  /\ loop' = "publish"
  /\ UNCHANGED <<publisher, stream_slots, handler, sent, stop, unwatched>>

publish ==
  /\ loop = "publish"
  /\ seq' = IF seq < MaxSeq THEN seq + 1 ELSE seq
  /\ loop' = "check"
  /\ UNCHANGED <<streams, closing, idle, stream_slots, handler, sent, stop, load_suppressed,
                 unwatched>>

(* SIGTERM or SIGINT *)
Stop ==
  /\ ~stop
  /\ stop' = TRUE
  /\ UNCHANGED <<publisher, stream_slots, handler, sent, loop, load_suppressed, unwatched>>

close ==
  /\ loop = "check" /\ stop
  /\ closing' = TRUE
  /\ loop' = "closed"
  /\ UNCHANGED <<seq, streams, idle, stream_slots, handler, sent, stop, load_suppressed,
                 unwatched>>

(* httpd.shutdown: no request is taken any more. *)
Shutdown ==
  /\ loop = "closed"
  /\ loop' = "down"
  /\ UNCHANGED <<publisher, stream_slots, handler, sent, stop, load_suppressed, unwatched>>

-----------------------------------------------------------------------------
Watching == {t \in Thread : handler[t].pc \in {"wait", "woken", "leave"}}

Later(time) == IF time > AUTO_PAUSE_AFTER_S THEN time ELSE time + 1

TimePasses ==
  /\ idle' = Later(idle)
  /\ unwatched' = IF Watching = {} THEN Later(unwatched) ELSE 0
  /\ UNCHANGED <<seq, streams, closing, stream_slots, handler, sent, loop, stop,
                 load_suppressed>>

Serve(t) == Acquire(t) \/ Enter(t) \/ wait_newer(t) \/ Write(t) \/ Leave(t) \/ Release(t)

Tick == StartTick \/ CheckWatched \/ publish \/ close \/ Shutdown

lvNext ==
  \/ \E t \in Thread : Accept(t) \/ Serve(t)
  \/ Tick \/ Stop \/ TimePasses

lvSpec == lvInit /\ [][lvNext]_lvvars

(* Both kinds of threads go on: a wait ends at the latest when it times    *)
(* out, and a write when the socket does.                                  *)
lvFairSpec ==
  /\ lvSpec
  /\ WF_lvvars(Tick)
  /\ \A t \in Thread : WF_lvvars(Serve(t))

-----------------------------------------------------------------------------
(* Every variable has its type. *)
lvTypeOK ==
  /\ seq \in 0 .. MaxSeq /\ closing \in BOOLEAN /\ stop \in BOOLEAN
  /\ idle \in 0 .. AUTO_PAUSE_AFTER_S + 1 /\ unwatched \in 0 .. AUTO_PAUSE_AFTER_S + 1
  /\ handler \in [Thread -> [pc : {"off", "request", "admitted", "wait", "woken", "leave", "release"},
                             seq : -1 .. MaxSeq, new_seq : -1 .. MaxSeq]]
  /\ sent \in [Thread -> -1 .. MaxSeq]
  /\ loop \in {"check", "poll", "publish", "closed", "down"}
  /\ load_suppressed \in BOOLEAN

(* The count the loop goes by is that of the open streams, and a place is  *)
(* free exactly if nobody has it, however streams fail.                    *)
StreamsCounted ==
  /\ streams = Cardinality(Watching)
  /\ stream_slots + Cardinality({t \in Thread : handler[t].pc \notin {"off", "request"}}) = MAX_STREAMS

(* The load is paused only if no browser has had the stream open for as    *)
(* long as AUTO_PAUSE_AFTER_S (docs/live-mode.md:110-111).                 *)
PausedMeansUnwatched ==
  [][~load_suppressed /\ load_suppressed' => unwatched > AUTO_PAUSE_AFTER_S]_lvvars

(* A browser whose stream stays open is sent every snapshot or a newer     *)
(* one, the one that was there when it came included.                      *)
NewestArrives ==
  \A t \in Thread, n \in 0 .. MaxSeq :
    (At(t, "wait") /\ seq = n) ~> (sent[t] >= n \/ t \notin Watching)

(* When the bridge stops, every stream ends and gives its place back. *)
CloseEndsStreams == stop ~> (stream_slots = MAX_STREAMS /\ streams = 0)
=============================================================================
