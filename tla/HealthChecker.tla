--------------------------- MODULE HealthChecker ----------------------------
(***************************************************************************)
(* The thread of src/backend/health_checker.c.  A round connects to every  *)
(* backend at once, collects the answers until a deadline, and counts what *)
(* is missing as a failure; rise successes in a row make a backend         *)
(* healthy, fall failures in a row unhealthy.  The same epoll set carries  *)
(* the admin pipe and the event that asks the thread to stop, so either    *)
(* can arrive between any two answers.                                     *)
(*                                                                         *)
(* backend_manager_set_health and _set_admin_state are their effect on the *)
(* backend; the rebuild they trigger is in TableGenerator.  Time is the    *)
(* two events that depend on it: the round's deadline and the end of the   *)
(* interval, either of which may come at any moment.                       *)
(***************************************************************************)
EXTENDS Integers, Sequences

CONSTANTS
  NBackends,    \* backends on the command line
  Rise, Fall,   \* cfg.rise and cfg.fall
  Command,      \* lines other programs write to the pipe
  MaxFifo       \* bound: lines in the pipe at once

ASSUME NBackendsAssumption == NBackends \in Nat \ {0}
ASSUME ThresholdAssumption == Rise \in Nat \ {0} /\ Fall \in Nat \ {0}
ASSUME MaxFifoAssumption == MaxFifo \in Nat

VARIABLES
  healthy,      \* backend.healthy
  draining,     \* backend.admin_state is DRAINING, not ENABLED
  ok, fail,     \* consecutive_ok and consecutive_fail
  pc,           \* where the thread is
  i,            \* loop index of connecting and of finishing
  sock,         \* of this round's probes: none, pending, done, or closed at its end
  answer,       \* what the kernel knows of a pending connect, until it is closed
  batch,        \* events the last epoll_wait returned, still to handle
  expired,      \* the round's deadline has passed while it polls
  aborted,
  fifo,         \* lines in the pipe
  stop_requested,
  wake_fd,      \* whether it has been written
  elapsed,      \* history: the interval has elapsed since the last round
  recorded,     \* history: results recorded in this round
  streak        \* history: the last result, how often in a row, capped, and what
                \* the last streak that was full said

hcvars == <<healthy, draining, ok, fail, pc, i, sock, answer, batch, expired, aborted,
            fifo, stop_requested, wake_fd, elapsed, recorded, streak>>

health == <<healthy, ok, fail, recorded, streak>>
envVars == <<stop_requested, wake_fd>>

(* Ids are slot numbers. *)
Id == 0 .. NBackends - 1

Cap == IF Rise > Fall THEN Rise ELSE Fall

(* Backends are added healthy, and the thread's counters are calloc'ed. *)
hcInit ==
  /\ healthy = [b \in Id |-> TRUE]
  /\ draining = [b \in Id |-> FALSE]
  /\ ok = [b \in Id |-> 0]
  /\ fail = [b \in Id |-> 0]
  /\ pc = "top"
  /\ i = 0
  /\ sock = [b \in Id |-> "none"]
  /\ answer = [b \in Id |-> "none"]
  /\ batch = {}
  /\ expired = FALSE
  /\ aborted = FALSE
  /\ fifo = <<>>
  /\ stop_requested = FALSE
  /\ wake_fd = FALSE
  /\ elapsed = TRUE
  /\ recorded = [b \in Id |-> 0]
  /\ streak = [b \in Id |-> [ok |-> TRUE, n |-> 0, full |-> TRUE]]

-----------------------------------------------------------------------------
(* record_result.  set_health is called only by the result that brings the *)
(* count to its threshold.                                                 *)

(* History: a result makes a streak longer or begins one. *)
Longer(s, result) == IF s.ok # result THEN 1 ELSE IF s.n < Cap THEN s.n + 1 ELSE s.n

Full(result, n) == n >= IF result THEN Rise ELSE Fall

Count(b, result) ==
  /\ recorded' = [recorded EXCEPT ![b] = @ + 1]
  /\ streak' = [streak EXCEPT ![b] =
                  LET n == Longer(@, result)
                  IN [ok |-> result, n |-> n,
                      full |-> IF Full(result, n) THEN result ELSE @.full]]

(* Mutant: a failure does not end a streak of successes. *)
record_result_keeps_ok(b, result) ==
  /\ \/ /\ result
        /\ fail' = [fail EXCEPT ![b] = 0]
        /\ ok' = [ok EXCEPT ![b] = IF @ < Rise THEN @ + 1 ELSE @]
        /\ healthy' = [healthy EXCEPT ![b] = @ \/ (ok[b] < Rise /\ ok[b] + 1 = Rise)]
     \/ /\ ~result
        /\ UNCHANGED ok
        /\ fail' = [fail EXCEPT ![b] = IF @ < Fall THEN @ + 1 ELSE @]
        /\ healthy' = [healthy EXCEPT ![b] = @ /\ ~(fail[b] < Fall /\ fail[b] + 1 = Fall)]
  /\ Count(b, result)

record_result(b, result) ==
  /\ \/ /\ result
        /\ fail' = [fail EXCEPT ![b] = 0]
        /\ ok' = [ok EXCEPT ![b] = IF @ < Rise THEN @ + 1 ELSE @]
        /\ healthy' = [healthy EXCEPT ![b] = @ \/ (ok[b] < Rise /\ ok[b] + 1 = Rise)]
     \/ /\ ~result
        /\ ok' = [ok EXCEPT ![b] = 0]
        /\ fail' = [fail EXCEPT ![b] = IF @ < Fall THEN @ + 1 ELSE @]
        /\ healthy' = [healthy EXCEPT ![b] = @ /\ ~(fail[b] < Fall /\ fail[b] + 1 = Fall)]
  /\ Count(b, result)

(* handle_admin_line: the last command for a backend wins; a line that is  *)
(* no command, or names no backend, is skipped.                            *)
Apply(d, line) ==
  [b \in Id |-> IF line[2] = b /\ line[1] \in {"DRAIN", "UNDRAIN"} THEN line[1] = "DRAIN" ELSE d[b]]

(* process_admin_fifo reads until the pipe is empty.  A line written while *)
(* it does is one written before, or one left for the next poll: nothing   *)
(* but this thread acts on lines.                                          *)
process_admin_fifo ==
  LET after[n \in 0 .. Len(fifo)] == IF n = 0 THEN draining ELSE Apply(after[n - 1], fifo[n])
  IN /\ draining' = after[Len(fifo)]
     /\ fifo' = <<>>

-----------------------------------------------------------------------------
(* run_probe_round                                                         *)

StartRound ==
  /\ pc = "top"
  /\ ~stop_requested
  /\ pc' = "connect"
  /\ i' = 0
  /\ sock' = [b \in Id |-> "none"]
  /\ expired' = FALSE
  /\ aborted' = FALSE
  /\ elapsed' = FALSE
  /\ recorded' = [b \in Id |-> 0]
  /\ UNCHANGED <<healthy, draining, ok, fail, answer, batch, fifo, streak, envVars>>

Connected == i' = i + 1 /\ pc' = IF i + 1 \in Id THEN "connect" ELSE "poll"

Connect ==
  /\ pc = "connect"
  /\ sock' = [sock EXCEPT ![i] = "pending"]
  /\ answer' = [answer EXCEPT ![i] = "none"]
  /\ Connected
  /\ UNCHANGED <<draining, batch, expired, aborted, fifo, elapsed, health, envVars>>

(* No socket, an immediate error, or no room in the epoll set. *)
ConnectFails ==
  /\ pc = "connect"
  /\ sock' = [sock EXCEPT ![i] = "done"]
  /\ record_result(i, FALSE)
  /\ Connected
  /\ UNCHANGED <<draining, answer, batch, expired, aborted, fifo, elapsed, envVars>>

Pending == {b \in Id : sock[b] = "pending"}

Ready ==
  {<<"sock", b>> : b \in {c \in Pending : answer[c] # "none"}}
    \cup {<<"wake", 0>> : x \in {y \in {wake_fd} : y}}
    \cup {<<"admin", 0>> : x \in {y \in {fifo # <<>>} : y}}

(* The deadline is looked at before the answers that may be waiting. *)
Poll ==
  /\ pc = "poll"
  /\ Pending # {} /\ ~aborted /\ ~expired
  /\ Ready # {}
  /\ batch' = Ready
  /\ pc' = "batch"
  /\ UNCHANGED <<draining, i, sock, answer, expired, aborted, fifo, elapsed, health, envVars>>

(* Mutant: the deadline is set anew on every pass of the loop. *)
PollRearms ==
  /\ pc = "poll"
  /\ Pending = {} \/ aborted \/ expired
  /\ pc' = IF Pending = {} \/ aborted THEN "finish" ELSE "poll"
  /\ i' = 0
  /\ expired' = FALSE
  /\ UNCHANGED <<draining, sock, answer, batch, aborted, fifo, elapsed, health, envVars>>

PollEnds ==
  /\ pc = "poll"
  /\ Pending = {} \/ aborted \/ expired
  /\ pc' = "finish"
  /\ i' = 0
  /\ expired' = FALSE
  /\ UNCHANGED <<draining, sock, answer, batch, aborted, fifo, elapsed, health, envVars>>

HandleAnswer(b) ==
  /\ pc = "batch"
  /\ <<"sock", b>> \in batch
  /\ batch' = batch \ {<<"sock", b>>}
  /\ sock' = [sock EXCEPT ![b] = "done"]
  /\ answer' = [answer EXCEPT ![b] = "none"]
  /\ record_result(b, answer[b] = "ok")
  /\ UNCHANGED <<draining, pc, i, expired, aborted, fifo, elapsed, envVars>>

HandleAdmin ==
  /\ pc = "batch"
  /\ <<"admin", 0>> \in batch
  /\ batch' = batch \ {<<"admin", 0>>}
  /\ process_admin_fifo
  /\ UNCHANGED <<pc, i, sock, answer, expired, aborted, elapsed, health, envVars>>

(* The rest of the batch is dropped. *)
HandleWake ==
  /\ pc = "batch"
  /\ <<"wake", 0>> \in batch
  /\ batch' = {}
  /\ aborted' = TRUE
  /\ pc' = "poll"
  /\ UNCHANGED <<draining, i, sock, answer, expired, fifo, elapsed, health, envVars>>

BatchDone ==
  /\ pc = "batch"
  /\ batch = {}
  /\ pc' = "poll"
  /\ UNCHANGED <<draining, i, sock, answer, batch, expired, aborted, fifo, elapsed, health, envVars>>

(* Mutant: a probe that a stop abandons counts as a failure. *)
FinishAbandoned ==
  /\ pc = "finish"
  /\ i \in Id
  /\ sock' = [sock EXCEPT ![i] = IF @ = "pending" THEN "closed" ELSE @]
  /\ answer' = [answer EXCEPT ![i] = "none"]
  /\ i' = i + 1
  /\ IF sock[i] = "pending" THEN record_result(i, FALSE) ELSE UNCHANGED health
  /\ UNCHANGED <<draining, pc, batch, expired, aborted, fifo, elapsed, envVars>>

(* Closes what is still open; unless aborted that is a failure. *)
Finish ==
  /\ pc = "finish"
  /\ i \in Id
  /\ sock' = [sock EXCEPT ![i] = IF @ = "pending" THEN "closed" ELSE @]
  /\ answer' = [answer EXCEPT ![i] = "none"]
  /\ i' = i + 1
  /\ IF sock[i] = "pending" /\ ~aborted THEN record_result(i, FALSE) ELSE UNCHANGED health
  /\ UNCHANGED <<draining, pc, batch, expired, aborted, fifo, elapsed, envVars>>

RoundDone ==
  /\ pc = "finish"
  /\ i \notin Id
  /\ pc' = IF stop_requested THEN "exited" ELSE "wait"
  /\ UNCHANGED <<draining, i, sock, answer, batch, expired, aborted, fifo, elapsed, health, envVars>>

-----------------------------------------------------------------------------
(* wait_next_interval: one event that is ready, or else the end of the     *)
(* interval.                                                               *)

IntervalEnds ==
  /\ pc = "wait"
  /\ fifo = <<>> /\ ~wake_fd
  /\ pc' = "top"
  /\ elapsed' = TRUE
  /\ UNCHANGED <<draining, i, sock, answer, batch, expired, aborted, fifo, health, envVars>>

WaitAdmin ==
  /\ pc = "wait"
  /\ fifo # <<>>
  /\ process_admin_fifo
  /\ pc' = "top"
  /\ UNCHANGED <<i, sock, answer, batch, expired, aborted, elapsed, health, envVars>>

(* Mutant: goes back to waiting on a wake-up. *)
WaitThroughWake ==
  /\ pc = "wait"
  /\ wake_fd
  /\ UNCHANGED hcvars

WaitWake ==
  /\ pc = "wait"
  /\ wake_fd
  /\ pc' = "top"
  /\ UNCHANGED <<draining, i, sock, answer, batch, expired, aborted, fifo, elapsed, health, envVars>>

Exit ==
  /\ pc = "top"
  /\ stop_requested
  /\ pc' = "exited"
  /\ UNCHANGED <<draining, i, sock, answer, batch, expired, aborted, fifo, elapsed, health, envVars>>

-----------------------------------------------------------------------------
(* The other threads and the network.                                      *)

(* health_checker_stop: the store, the write to wake_fd, then the join. *)
RequestStop ==
  /\ ~stop_requested
  /\ stop_requested' = TRUE
  /\ UNCHANGED <<draining, pc, i, sock, answer, batch, expired, aborted, fifo, wake_fd, elapsed,
                 health>>

WriteWake ==
  /\ stop_requested /\ ~wake_fd
  /\ wake_fd' = TRUE
  /\ UNCHANGED <<draining, pc, i, sock, answer, batch, expired, aborted, fifo, stop_requested,
                 elapsed, health>>

(* The connect of a pending probe succeeds or is refused, as it happens: a *)
(* backend may come and go between any two probes.  A lost packet is an    *)
(* answer that never comes.                                                *)
Answer(b) ==
  /\ b \in Pending /\ answer[b] = "none"
  /\ \E result \in {"ok", "refused"} : answer' = [answer EXCEPT ![b] = result]
  /\ UNCHANGED <<draining, pc, i, sock, batch, expired, aborted, fifo, elapsed, health, envVars>>

Deadline ==
  /\ pc \in {"poll", "batch"} /\ ~expired
  /\ expired' = TRUE
  /\ UNCHANGED <<draining, pc, i, sock, answer, batch, aborted, fifo, elapsed, health, envVars>>

WriteFifo(line) ==
  /\ pc # "exited"
  /\ Len(fifo) < MaxFifo
  /\ fifo' = Append(fifo, line)
  /\ UNCHANGED <<draining, pc, i, sock, answer, batch, expired, aborted, elapsed, health, envVars>>

-----------------------------------------------------------------------------
hcThread ==
  \/ StartRound \/ Connect \/ ConnectFails
  \/ Poll \/ PollEnds \/ HandleAdmin \/ HandleWake \/ BatchDone
  \/ \E b \in Id : HandleAnswer(b)
  \/ Finish \/ RoundDone
  \/ IntervalEnds \/ WaitAdmin \/ WaitWake \/ Exit

Joined == pc = "exited" /\ wake_fd /\ UNCHANGED hcvars

hcNext ==
  \/ hcThread
  \/ RequestStop \/ WriteWake \/ Deadline
  \/ \E b \in Id : Answer(b)
  \/ \E line \in Command : WriteFifo(line)
  \/ Joined

hcSpec == hcInit /\ [][hcNext]_hcvars

(* The thread is scheduled, deadlines and intervals end, and a stop that   *)
(* has begun writes its wake-up.  Nobody has to ask for a stop, and no     *)
(* probe has to be answered.                                               *)
Fairness == WF_hcvars(hcThread) /\ WF_hcvars(Deadline) /\ WF_hcvars(WriteWake)

hcFairSpec == hcSpec /\ Fairness

-----------------------------------------------------------------------------
(* Every variable has its type. *)
hcTypeOK ==
  /\ healthy \in [Id -> BOOLEAN] /\ draining \in [Id -> BOOLEAN]
  /\ ok \in [Id -> 0 .. Rise] /\ fail \in [Id -> 0 .. Fall]
  /\ pc \in {"top", "connect", "poll", "batch", "finish", "wait", "exited"}
  /\ i \in 0 .. NBackends
  /\ sock \in [Id -> {"none", "pending", "done", "closed"}]
  /\ answer \in [Id -> {"none", "ok", "refused"}]
  /\ expired \in BOOLEAN /\ aborted \in BOOLEAN
  /\ stop_requested \in BOOLEAN /\ wake_fd \in BOOLEAN /\ elapsed \in BOOLEAN
  /\ recorded \in [Id -> Nat]
  /\ streak \in [Id -> [ok : BOOLEAN, n : 0 .. Cap, full : BOOLEAN]]

(* A backend's health is what its last full streak of results says: it     *)
(* becomes healthy with the last of rise successes in a row, unhealthy     *)
(* with the last of fall failures in a row, and at no other result,        *)
(* although set_health is called once per streak only                      *)
(* (health_checker.c:123-127).                                             *)
HealthIsLastStreak == \A b \in Id : healthy[b] = streak[b].full

(* Every round records one result for each backend, whichever of answer,   *)
(* failed connect and timeout comes first.  A round that a stop aborted    *)
(* keeps the results it had, and records none for a probe it abandons, be  *)
(* its answer there already (health_checker.c:239-243 and 293).            *)
OneResultPerRound ==
  /\ \A b \in Id : recorded[b] = CASE sock[b] = "done"   -> 1
                                   [] sock[b] = "closed" -> IF aborted THEN 0 ELSE 1
                                   [] OTHER              -> 0
  /\ pc = "wait" /\ ~aborted => \A b \in Id : recorded[b] = 1

(* A stop is never lost: it ends the thread wherever it is, mid-round or   *)
(* mid-wait (health_checker.h:42-45).                                      *)
StopEndsThread == stop_requested ~> (pc = "exited")

(* A backend to which no connect succeeds any more, refused or unanswered, *)
(* is found unhealthy, unless the thread is stopped.                       *)
DownIsDetected ==
  \A b \in Id : <>[](answer[b] # "ok") => <>[](~healthy[b] \/ pc = "exited")

-----------------------------------------------------------------------------
(* What the comments and the docs say and the code does not do: TLC        *)
(* refutes each of these (README.md, "What the code does not do").         *)

(* What health_checker.h:34-35 says: a round is started "once per          *)
(* cfg.interval_ms".                                                       *)
RoundsAnIntervalApart == [][pc = "top" /\ pc' = "connect" => elapsed]_hcvars
=============================================================================
