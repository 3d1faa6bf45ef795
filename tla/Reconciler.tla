----------------------------- MODULE Reconciler -----------------------------
(***************************************************************************)
(* The backend half of bridge/reconciler.py: canvas backends are mapped to *)
(* the fixed slots of a running maglev-lb by starting and stopping a       *)
(* responder process in a slot and by DRAIN and UNDRAIN lines on the admin *)
(* pipe, driven by ticks (live_bridge.py) that poll the load balancer, and *)
(* by commands that act on the last poll's result.                         *)
(*                                                                         *)
(* Times are abstracted: whether a drain has lasted long enough, and       *)
(* whether a stopping process has used up its grace, is free at each step. *)
(* The configuration sent to a running responder is left out.              *)
(***************************************************************************)
EXTENDS Integers, Sequences, FiniteSets

CONSTANTS
  Slot,         \* slot numbers
  MaxId,        \* canvas ids are numbered in their sorting order, from 1
  Null,         \* no owner, no fault
  Kind,         \* actions the user has
  MayExit,      \* bound: whether a process may end without being told to
  MaxRestarts,  \* bound: restarts of the load balancer
  MaxFifo       \* bound: lines in the pipe for one slot

ASSUME SlotAssumption == Slot \subseteq Nat \ {0} /\ IsFiniteSet(Slot)
ASSUME ReconcilerAssumption == MaxId \in Nat /\ MaxFifo \in Nat /\ MaxRestarts \in Nat
ASSUME NullAssumption == Null \notin 1 .. MaxId
ASSUME KindAssumption ==
  Kind \subseteq {"crash", "slow", "partition", "restart", "drain", "undrain"}

VARIABLES
  active,       \* desired: ids of the attached backends of the canvas
  slots,        \* the Slot objects, with their process and what they sent
  slot_memory,  \* id -> the slot it last used, or 0
  lb,           \* external: the load balancer's view of each slot
  lb_proc,      \* whether maglev-lb runs
  restarts,     \* restarts so far
  obs,          \* lb_obs: the last poll's result
  probed        \* history: slots whose current process a probe has reached

balancer == <<lb, lb_proc, restarts>>
rcvars == <<active, slots, slot_memory, balancer, obs, probed>>

CanvasId == 1 .. MaxId

(* Process states; a handle is alive until its process has exited. *)
Proc == {"none", "alive", "termed", "killed", "dead"}

Alive(s) == s.proc \in {"alive", "termed", "killed"}

(* Slot.clear *)
Cleared == [owner |-> Null, phase |-> "free", proc |-> "none", fault |-> Null,
            manual_drain |-> FALSE, removing |-> FALSE, partitioned |-> FALSE,
            fifo |-> <<>>, gre |-> TRUE]

rcInit ==
  /\ active = {}
  /\ slots = [n \in Slot |-> Cleared]
  /\ slot_memory = [i \in CanvasId |-> 0]
  /\ lb = [n \in Slot |-> [up |-> FALSE, draining |-> FALSE]]
  /\ lb_proc = "runs" /\ restarts = 0
  /\ obs = lb
  /\ probed = {}

-----------------------------------------------------------------------------
(* Operations on one slot; gre is what set_gre left its tunnel as.         *)
(* Executor.admin: without a reader the pipe cannot be opened and the line *)
(* is lost.                                                                *)
admin(s, verb) == IF lb_proc = "runs" THEN [s EXCEPT !.fifo = Append(@, verb)] ELSE s

_spawn(s) == [s EXCEPT !.proc = "alive", !.phase = "starting"]

_begin_stop(s) ==
  [s EXCEPT !.phase = "stopping", !.proc = IF @ = "alive" THEN "termed" ELSE @]

_clear_fault(s) ==
  LET t == [s EXCEPT !.fault = Null]
  IN CASE s.fault = "crash" -> _spawn(t)
       [] s.fault = "partition" /\ s.partitioned ->
            [t EXCEPT !.partitioned = FALSE, !.gre = TRUE]
       [] OTHER -> t

(* Reconciler.action, for a target that is a running backend. *)
Acted(s, kind) ==
  CASE kind = "crash" ->
         LET t == _clear_fault(s)
         IN [t EXCEPT !.proc = IF Alive(t) THEN "killed" ELSE @, !.phase = "crashed",
                      !.fault = "crash"]
    [] kind = "slow" -> [_clear_fault(s) EXCEPT !.fault = "slow"]
    [] kind = "partition" ->
         [_clear_fault(s) EXCEPT !.fault = "partition", !.partitioned = TRUE, !.gre = FALSE]
    [] kind = "restart" -> _clear_fault(s)
    [] kind = "drain" ->
         [admin(s, "DRAIN") EXCEPT
            !.manual_drain = TRUE,
            !.phase = IF @ \in {"serving", "unhealthy", "starting"} THEN "draining" ELSE @]
    [] kind = "undrain" ->
         [admin(s, "UNDRAIN") EXCEPT
            !.manual_drain = FALSE,
            !.phase = IF @ = "draining" THEN "serving" ELSE @]

(* Reconciler.reset *)
ResetSlot(s) ==
  IF s.owner = Null \/ s.removing THEN s
  ELSE LET t == _clear_fault(s)
       IN IF t.manual_drain THEN Acted(t, "undrain") ELSE t

(* Mutant: a backend that comes back is not undrained. *)
RemovalKeepsDrain(s, want) ==
  IF s.owner = Null THEN s
  ELSE IF s.owner \notin want /\ ~s.removing
  THEN LET t == [s EXCEPT !.removing = TRUE, !.manual_drain = FALSE]
       IN IF Alive(s) /\ s.phase # "crashed"
          THEN [admin(t, "DRAIN") EXCEPT !.phase = "draining"]
          ELSE _begin_stop(t)
  ELSE IF s.owner \in want /\ s.removing /\ s.phase = "draining"
  THEN [s EXCEPT !.removing = FALSE, !.phase = "serving"]
  ELSE s

(* _step_backends, removals: a backend gone from the canvas is drained, or *)
(* stopped if its process is gone; one that came back is undrained.        *)
Removal(s, want) ==
  IF s.owner = Null THEN s
  ELSE IF s.owner \notin want /\ ~s.removing
  THEN LET t == [s EXCEPT !.removing = TRUE, !.manual_drain = FALSE]
       IN IF Alive(s) /\ s.phase # "crashed"
          THEN [admin(t, "DRAIN") EXCEPT !.phase = "draining"]
          ELSE _begin_stop(t)
  ELSE IF s.owner \in want /\ s.removing /\ s.phase = "draining"
  THEN [admin(s, "UNDRAIN") EXCEPT !.removing = FALSE, !.phase = "serving"]
  ELSE s

(* Mutant: an id whose slot is stopping is given another one. *)
PlacedTwice(w, i) ==
  LET free == {n \in Slot : w.slots[n].phase = "free"}
      n == IF w.memory[i] \in free THEN w.memory[i]
           ELSE CHOOSE n \in free : \A k \in free : n <= k
  IN IF free = {} \/ \E k \in Slot : w.slots[k].owner = i /\ w.slots[k].phase # "stopping"
     THEN w
     ELSE [slots |-> [w.slots EXCEPT ![n] = _spawn([@ EXCEPT !.owner = i])],
           memory |-> [w.memory EXCEPT ![i] = n]]

(* _step_backends, additions: the slot used before if it is free, else the *)
(* first free one.                                                         *)
Placed(w, i) ==
  LET free == {n \in Slot : w.slots[n].phase = "free"}
      n == IF w.memory[i] \in free THEN w.memory[i]
           ELSE CHOOSE n \in free : \A k \in free : n <= k
  IN IF free = {} \/ \E k \in Slot : w.slots[k].owner = i THEN w
     ELSE [slots |-> [w.slots EXCEPT ![n] = _spawn([@ EXCEPT !.owner = i])],
           memory |-> [w.memory EXCEPT ![i] = n]]

(* Mutant: a process that does not heed TERM is waited for. *)
ProgressNeverKills(s, o, timeUp) ==
  IF s.owner = Null THEN s
  ELSE IF s.phase \in {"starting", "serving", "unhealthy", "draining"} /\ ~Alive(s) /\ ~s.removing
  THEN [s EXCEPT !.phase = "crashed", !.fault = IF @ = Null THEN "crash" ELSE @]
  ELSE CASE s.phase = "starting" /\ o.up /\ ~o.draining ->
              [s EXCEPT !.phase = IF s.manual_drain THEN "draining" ELSE "serving"]
         [] s.phase = "serving" /\ ~o.up -> [s EXCEPT !.phase = "unhealthy"]
         [] s.phase = "unhealthy" /\ o.up -> [s EXCEPT !.phase = "serving"]
         [] s.phase = "draining" /\ s.removing /\ timeUp -> _begin_stop(s)
         [] s.phase = "stopping" /\ ~Alive(s) /\ ~o.up ->
              [Cleared EXCEPT !.fifo = admin(s, "UNDRAIN").fifo, !.gre = s.gre \/ s.partitioned]
         [] OTHER -> s

(* _step_backends, progress of one occupied slot, given what was last      *)
(* polled of it and whether its time in this phase is up.                  *)
Progress(s, o, timeUp) ==
  IF s.owner = Null THEN s
  ELSE IF s.phase \in {"starting", "serving", "unhealthy", "draining"} /\ ~Alive(s) /\ ~s.removing
  THEN [s EXCEPT !.phase = "crashed", !.fault = IF @ = Null THEN "crash" ELSE @]
  ELSE CASE s.phase = "starting" /\ o.up /\ ~o.draining ->
              [s EXCEPT !.phase = IF s.manual_drain THEN "draining" ELSE "serving"]
         [] s.phase = "serving" /\ ~o.up -> [s EXCEPT !.phase = "unhealthy"]
         [] s.phase = "unhealthy" /\ o.up -> [s EXCEPT !.phase = "serving"]
         [] s.phase = "draining" /\ s.removing /\ timeUp -> _begin_stop(s)
         [] s.phase = "stopping" /\ Alive(s) /\ timeUp -> [s EXCEPT !.proc = "killed"]
         [] s.phase = "stopping" /\ ~Alive(s) /\ ~o.up ->
              [Cleared EXCEPT !.fifo = admin(s, "UNDRAIN").fifo, !.gre = s.gre \/ s.partitioned]
         [] OTHER -> s

(* The loop over sorted(want), as far as the first k ids. *)
PlacedUpTo(start, want, k) ==
  LET after[i \in 0 .. MaxId] ==
        IF i = 0 THEN start
        ELSE IF i \in want THEN Placed(after[i - 1], i)
        ELSE after[i - 1]
  IN after[k]

(* Reconciler.step from these slots with this desired state; no time has   *)
(* passed for a drain or a stop that begins in this very step.             *)
Stepped(from, want, timeUp) ==
  LET removed == [n \in Slot |-> Removal(from[n], want)]
      placed == PlacedUpTo([slots |-> removed, memory |-> slot_memory], want, MaxId)
      waited(n) == from[n].removing /\ from[n].phase = placed.slots[n].phase
  IN [slots |-> [n \in Slot |-> Progress(placed.slots[n], obs[n], n \in timeUp /\ waited(n))],
      memory |-> placed.memory]

(* A step of the reconciler after a command has changed the slots to from  *)
(* and the canvas to want; it is late for the slots in timeUp.             *)
StepAt(from, want, timeUp) ==
  /\ LET w == Stepped(from, want, timeUp)
     IN /\ \A n \in Slot : Len(w.slots[n].fifo) <= MaxFifo
        /\ slots' = w.slots
        /\ slot_memory' = w.memory
  /\ active' = want
  /\ probed' = {n \in probed : slots'[n].proc = slots[n].proc \/ slots'[n].proc # "alive"}
  /\ UNCHANGED <<balancer, obs>>

StepFrom(from, want) ==
  \E timeUp \in SUBSET {n \in Slot : from[n].removing} : StepAt(from, want, timeUp)

-----------------------------------------------------------------------------
(* The bridge.  Step is the rest of a tick, after its poll. *)
Step == StepFrom(slots, active)

(* apply_desired *)
SetDesired(want) ==
  /\ want # active
  /\ StepFrom(slots, want)

(* apply_action on the backend in slot n *)
Action(n, kind) ==
  /\ slots[n].owner \in active /\ ~slots[n].removing
  /\ StepFrom([slots EXCEPT ![n] = Acted(@, kind)], active)

(* reset_session, whose slots the next tick steps *)
Reset ==
  LET after == [n \in Slot |-> ResetSlot(slots[n])]
  IN /\ after # slots
     /\ \A n \in Slot : Len(after[n].fifo) <= MaxFifo
     /\ slots' = after
     /\ probed' = {n \in probed : after[n].proc = slots[n].proc \/ after[n].proc # "alive"}
     /\ UNCHANGED <<active, slot_memory, balancer, obs>>

(* poll_lb; a failed fetch leaves obs alone. *)
Poll ==
  /\ lb_proc = "runs"
  /\ obs' = lb
  /\ UNCHANGED <<active, slots, slot_memory, balancer, probed>>

(* restart_lb ends the load balancer.  Nobody has the pipe open then: the  *)
(* lines in it are gone.  Ticks and commands go on.                        *)
StopLb ==
  /\ lb_proc = "runs" /\ restarts < MaxRestarts
  /\ lb_proc' = "gone"
  /\ restarts' = restarts + 1
  /\ slots' = [n \in Slot |-> [slots[n] EXCEPT !.fifo = <<>>]]
  /\ UNCHANGED <<active, slot_memory, lb, obs, probed>>

(* start_lb: every backend is up, until probed, and none is draining. *)
StartLb ==
  /\ lb_proc = "gone"
  /\ lb_proc' = "runs"
  /\ lb' = [n \in Slot |-> [up |-> TRUE, draining |-> FALSE]]
  /\ UNCHANGED <<restarts, active, slots, slot_memory, obs, probed>>

-----------------------------------------------------------------------------
(* External: a process ends, of itself or because it was told to. *)
Exits(n) ==
  /\ Alive(slots[n]) /\ (MayExit \/ slots[n].proc # "alive")
  /\ slots' = [slots EXCEPT ![n].proc = "dead"]
  /\ UNCHANGED <<active, slot_memory, balancer, obs, probed>>

(* The health checker of the load balancer has recorded enough results in  *)
(* a row to give its verdict (HealthChecker has its rounds).               *)
Probe(n) ==
  /\ lb_proc = "runs"
  /\ lb' = [lb EXCEPT ![n].up = Alive(slots[n])]
  /\ probed' = IF Alive(slots[n]) THEN probed \cup {n} ELSE probed
  /\ UNCHANGED <<active, slots, slot_memory, lb_proc, restarts, obs>>

(* It reads a line of its admin pipe and applies it (AdminFifo has how     *)
(* lines are put together).                                                *)
ReadLine(n) ==
  /\ lb_proc = "runs"
  /\ slots[n].fifo # <<>>
  /\ lb' = [lb EXCEPT ![n].draining = (Head(slots[n].fifo) = "DRAIN")]
  /\ slots' = [slots EXCEPT ![n].fifo = Tail(@)]
  /\ UNCHANGED <<active, slot_memory, lb_proc, restarts, obs, probed>>

rcNext ==
  \/ Step \/ Poll \/ Reset
  \/ StopLb \/ StartLb
  \/ \E want \in SUBSET CanvasId : SetDesired(want)
  \/ \E n \in Slot : Exits(n) \/ Probe(n) \/ ReadLine(n)
  \/ \E n \in Slot, kind \in Kind : Action(n, kind)

rcSpec == rcInit /\ [][rcNext]_rcvars

(* Ticks go on and their polls succeed, time passes, a load balancer that  *)
(* was stopped is started, probes and reads, and a killed process ends.    *)
TimeIsUp == StepAt(slots, active, Slot)

rcFairSpec ==
  /\ rcSpec
  /\ WF_rcvars(TimeIsUp) /\ WF_rcvars(Poll) /\ WF_rcvars(StartLb)
  /\ \A n \in Slot :
       /\ WF_rcvars(Probe(n)) /\ WF_rcvars(ReadLine(n))
       /\ WF_rcvars(slots[n].proc = "killed" /\ Exits(n))

-----------------------------------------------------------------------------
(* Every variable has its type, and a slot being removed drains or stops. *)
rcTypeOK ==
  /\ active \subseteq CanvasId
  /\ slots \in [Slot -> [owner : CanvasId \cup {Null},
                         phase : {"free", "starting", "serving", "unhealthy", "draining",
                                  "crashed", "stopping"},
                         proc : Proc, fault : {Null, "crash", "slow", "partition"},
                         manual_drain : BOOLEAN, removing : BOOLEAN, partitioned : BOOLEAN,
                         gre : BOOLEAN,
                         fifo : UNION {[1 .. k -> {"DRAIN", "UNDRAIN"}] : k \in 0 .. MaxFifo}]]
  /\ slot_memory \in [CanvasId -> Slot \cup {0}]
  /\ \A n \in Slot : slots[n].removing => slots[n].phase \in {"draining", "stopping"}

(* A canvas backend has one slot at most, and a slot is free exactly when  *)
(* nobody owns it and no process of its runs.                              *)
OneSlotEach ==
  /\ \A a, b \in Slot : slots[a].owner = slots[b].owner /\ slots[a].owner # Null => a = b
  /\ \A n \in Slot : slots[n].phase = "free" <=> slots[n].owner = Null
  /\ \A n \in Slot : slots[n].phase = "free" => ~Alive(slots[n])

(* What the load balancer's drain state will be when it has read the pipe, *)
(* or been started again.                                                  *)
Draining(n) ==
  IF slots[n].fifo # <<>> THEN slots[n].fifo[Len(slots[n].fifo)] = "DRAIN"
  ELSE lb_proc = "runs" /\ lb[n].draining

(* The drain state the load balancer is being brought to is the one the    *)
(* bridge means: a free slot is never handed on drained, and one in use is *)
(* drained exactly if the user drained it (docs/live-mode.md:89-95),       *)
(* unless a restart of the load balancer forgot it.  Its tunnel is down    *)
(* only while its owner is partitioned: a recycled slot has it back.       *)
SlotIsAsMeant ==
  \A n \in Slot :
    /\ slots[n].phase = "free" => ~Draining(n)
    /\ slots[n].owner # Null /\ ~slots[n].removing /\ Draining(n) => slots[n].manual_drain
    /\ slots[n].manual_drain /\ restarts = 0 => Draining(n)
    /\ ~slots[n].gre => slots[n].owner # Null /\ slots[n].partitioned

(* A backend that is taken off the canvas and left off gives its slot back. *)
RemovedIsFreed ==
  \A i \in CanvasId : []<>(i \in active \/ \A n \in Slot : slots[n].owner # i)

-----------------------------------------------------------------------------
(* What the comments and the docs say and the code does not do: TLC        *)
(* refutes each of these (README.md, "What the code does not do").         *)

(* A backend that is deleted and added again gets its slot back if nobody  *)
(* has it (docs/live-mode.md:90-91).                                       *)
SlotComesBack ==
  [][\A i \in CanvasId, n \in Slot :
       /\ slot_memory[i] # 0 /\ slots[slot_memory[i]].phase = "free"
       /\ slots'[n].owner = i /\ slots[n].owner # i
       => n = slot_memory[i]]_rcvars

(* A backend the user has drained is draining, also when the load balancer *)
(* has been restarted since (docs/live-mode.md:149).                       *)
DrainIsKept ==
  \A n \in Slot : slots[n].manual_drain => Draining(n)

(* A slot is handed back, and undrained, only when the load balancer has   *)
(* it marked down (reconciler.py:26-28).                                   *)
FreedIsDown ==
  [][\A n \in Slot : slots[n].phase = "stopping" /\ slots'[n].phase = "free" => ~lb[n].up]_rcvars

(* A restarted backend serves only once probes have reached the process    *)
(* that was started (docs/live-mode.md:145).                               *)
ServingIsProbed ==
  [][\A n \in Slot : slots[n].phase = "starting" /\ slots'[n].phase = "serving"
                     => n \in probed]_rcvars

(* Restart starts a crashed backend's process again (docs/live-mode.md:145). *)
RestartRespawns ==
  [][\A n \in Slot : slots[n].phase = "crashed" /\ Action(n, "restart")
                     => slots'[n].phase # "crashed"]_rcvars
=============================================================================
