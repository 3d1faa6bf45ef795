--------------------------- MODULE TableGenerator ---------------------------
(***************************************************************************)
(* The control plane of src/backend/table_generator.c and its single       *)
(* reader, the datapath thread of src/forward/datapath.c.                  *)
(*                                                                         *)
(* A change of the backend table makes the thread that changed it rebuild  *)
(* a routing snapshot and swap it into `active'.  The reader may still be  *)
(* using the snapshot swapped out, so that one is retired, and freed later *)
(* by the reader itself, between two packets.  Every step below ends where *)
(* another thread can see its effect: a mutex section or an atomic access. *)
(*                                                                         *)
(* Threads: main fills the backend table and installs the first snapshot,  *)
(* then starts hc (the health checker), the only thread that changes a     *)
(* backend afterwards, and dp.  When dp returns main joins hc and destroys *)
(* the generator.  The heap is a set of addresses that malloc may reuse.   *)
(***************************************************************************)
EXTENDS BackendManager

CONSTANTS
  NBackends,    \* backends on the command line (config.c limits it)
  Addr,         \* addresses of the heap; malloc fails when all are taken
  NULL,         \* the null pointer
  InitialCap,   \* first capacity of the retired list (8 in the code)
  MaxGen        \* bound: no backend changes once this many are installed

ASSUME NBackendsAssumption == NBackends \in 1 .. BACKEND_MAX
ASSUME NullAssumption == NULL \notin Addr
ASSUME InitialCapAssumption == InitialCap \in Nat \ {0}
ASSUME MaxGenAssumption == MaxGen \in Nat

VARIABLES
  allocated,    \* addresses malloc has handed out
  heap,         \* the snapshot at every address
  active,       \* tg->active
  generation,   \* tg->generation
  retired,      \* the first n_retired entries of tg->retired
  retired_cap,  \* tg->retired_cap
  mut,          \* locals of rebuild_and_install, per mutating thread
  dp,           \* locals of the datapath thread
  boot,         \* how far main is
  leaked,       \* history: snapshots dropped because realloc failed
  failed        \* history: the last rebuild found no memory

tgVars == <<allocated, heap, active, generation, retired, retired_cap>>
vars == <<slot_used, backends, next_id, cb, allocated, heap, active, generation,
          retired, retired_cap, mut, dp, boot, leaked, failed>>

Id == 0 .. NBackends - 1

Snapshot == [routable : SUBSET Nat, eligible : SUBSET Nat, generation : Nat]

(* Contents of memory that is not allocated. *)
Poison == [routable |-> {}, eligible |-> {}, generation |-> 0]

Mutator == {"main", "hc"}

IdleMut == [pc |-> "idle", routable |-> {}, eligible |-> {}, gen |-> 0,
            new |-> NULL, old |-> NULL]

IdleDp == [pc |-> "idle", snap |-> NULL, id |-> 0, pinned |-> FALSE, to_free |-> {}]

Init ==
  /\ bmInit
  /\ allocated = {}
  /\ heap = [a \in Addr |-> Poison]
  /\ active = NULL
  /\ generation = 0
  /\ retired = {}
  /\ retired_cap = 0
  /\ mut = [t \in Mutator |-> IdleMut]
  /\ dp = [IdleDp EXCEPT !.pc = "off"]
  /\ boot = "config"
  /\ leaked = {}
  /\ failed = FALSE

-----------------------------------------------------------------------------
(* table_generator_rebuild_and_install, run by thread t.                   *)

StartRebuild(t) == mut' = [mut EXCEPT ![t].pc = "rebuild"]

(* notify, at the end of every setter: the subscriber runs in the thread   *)
(* that made the change, and there is none until main has subscribed.      *)
notify(t) == IF cb THEN StartRebuild(t) ELSE UNCHANGED mut

SnapshotRoutable(t) ==
  /\ mut[t].pc = "rebuild"
  /\ mut' = [mut EXCEPT ![t].pc = "eligible", ![t].routable = snapshot_routable]
  /\ UNCHANGED <<slot_used, backends, next_id, cb, allocated, heap, active, generation,
                 retired, retired_cap, dp, boot, leaked, failed>>

SnapshotEligible(t) ==
  /\ mut[t].pc = "eligible"
  /\ mut' = [mut EXCEPT ![t].pc = "create", ![t].eligible = snapshot_eligible]
  /\ UNCHANGED <<slot_used, backends, next_id, cb, allocated, heap, active, generation,
                 retired, retired_cap, dp, boot, leaked, failed>>

(* routing_snapshot_create succeeds: the table it generates is a function  *)
(* of the eligible set, so the set stands for it.                          *)
Create(t) ==
  /\ mut[t].pc = "create"
  /\ \E a \in Addr \ allocated :
       /\ allocated' = allocated \cup {a}
       /\ heap' = [heap EXCEPT ![a] = [routable |-> mut[t].routable,
                                       eligible |-> mut[t].eligible,
                                       generation |-> generation + 1]]
       /\ mut' = [mut EXCEPT ![t].pc = "install", ![t].new = a,
                             ![t].gen = generation + 1]
  /\ UNCHANGED <<slot_used, backends, next_id, cb, active, generation,
                 retired, retired_cap, dp, boot, leaked, failed>>

(* Mutant: the swap done before the result is checked. *)
CreateFailsInstallsNull(t) ==
  /\ mut[t].pc = "create"
  /\ mut' = [mut EXCEPT ![t] = IdleMut]
  /\ active' = NULL
  /\ failed' = TRUE
  /\ boot' = IF t = "main" THEN "cleanup" ELSE boot
  /\ UNCHANGED <<slot_used, backends, next_id, cb, allocated, heap, generation,
                 retired, retired_cap, dp, leaked>>

(* It fails: the old snapshot stays.  main gives up; on_backend_change     *)
(* ignores the return value.                                               *)
CreateFails(t) ==
  /\ mut[t].pc = "create"
  /\ mut' = [mut EXCEPT ![t] = IdleMut]
  /\ failed' = TRUE
  /\ boot' = IF t = "main" THEN "cleanup" ELSE boot
  /\ UNCHANGED <<slot_used, backends, next_id, cb, allocated, heap, active, generation,
                 retired, retired_cap, dp, leaked>>

Install(t) ==
  /\ mut[t].pc = "install"
  /\ active' = mut[t].new
  /\ mut' = [mut EXCEPT ![t].pc = "publish", ![t].new = NULL, ![t].old = active]
  /\ failed' = FALSE
  /\ UNCHANGED <<slot_used, backends, next_id, cb, allocated, heap, generation,
                 retired, retired_cap, dp, boot, leaked>>

PublishGeneration(t) ==
  /\ mut[t].pc = "publish"
  /\ generation' = mut[t].gen
  /\ mut' = [mut EXCEPT ![t] = IF mut[t].old = NULL THEN IdleMut
                               ELSE [mut[t] EXCEPT !.pc = "retire"]]
  /\ UNCHANGED <<slot_used, backends, next_id, cb, allocated, heap, active,
                 retired, retired_cap, dp, boot, leaked, failed>>

(* routing_snapshot_free. *)
Freed(S) ==
  /\ allocated' = allocated \ S
  /\ heap' = [a \in Addr |-> IF a \in S THEN Poison ELSE heap[a]]

Grow(cap) == IF cap = 0 THEN InitialCap ELSE 2 * cap

(* Mutant: frees the old snapshot at once, as if no reader could hold it. *)
RetireFreesAtOnce(t) ==
  /\ mut[t].pc = "retire"
  /\ Freed({mut[t].old})
  /\ mut' = [mut EXCEPT ![t] = IdleMut]
  /\ UNCHANGED <<slot_used, backends, next_id, cb, active, generation, retired,
                 retired_cap, dp, boot, leaked, failed>>

(* The section under retired_mu.  A full list is grown first; when that    *)
(* fails the old snapshot is leaked rather than freed under the reader.    *)
Retire(t) ==
  /\ mut[t].pc = "retire"
  /\ \/ /\ Cardinality(retired) < retired_cap
        /\ retired' = retired \cup {mut[t].old}
        /\ UNCHANGED <<retired_cap, leaked>>
     \/ /\ Cardinality(retired) = retired_cap
        /\ retired' = retired \cup {mut[t].old}
        /\ retired_cap' = Grow(retired_cap)
        /\ UNCHANGED leaked
     \/ /\ Cardinality(retired) = retired_cap
        /\ leaked' = leaked \cup {mut[t].old}
        /\ UNCHANGED <<retired, retired_cap>>
  /\ mut' = [mut EXCEPT ![t] = IdleMut]
  /\ UNCHANGED <<slot_used, backends, next_id, cb, allocated, heap, active, generation,
                 dp, boot, failed>>

Rebuild(t) ==
  \/ SnapshotRoutable(t) \/ SnapshotEligible(t)
  \/ Create(t) \/ CreateFails(t)
  \/ Install(t) \/ PublishGeneration(t) \/ Retire(t)

-----------------------------------------------------------------------------
(* main, up to the start of the other threads, and after the datapath.     *)

AddBackend ==
  /\ boot = "config"
  /\ next_id < NBackends
  /\ add
  /\ notify("main")
  /\ boot' = "arp"
  /\ UNCHANGED <<allocated, heap, active, generation, retired, retired_cap,
                 dp, leaked, failed>>

ResolveMac ==
  /\ boot = "arp"
  /\ set_mac(next_id - 1)
  /\ notify("main")
  /\ boot' = "config"
  /\ UNCHANGED <<allocated, heap, active, generation, retired, retired_cap,
                 dp, leaked, failed>>

(* ARP gets no answer, or an allocation between the backends and the start *)
(* of the threads fails.                                                   *)
StartupFails ==
  /\ \/ boot = "arp"
     \/ boot = "config" /\ next_id = NBackends
     \/ boot = "building" /\ mut["main"].pc = "idle"
  /\ boot' = "cleanup"
  /\ UNCHANGED <<slot_used, backends, next_id, cb, allocated, heap, active, generation,
                 retired, retired_cap, mut, dp, leaked, failed>>

FirstRebuild ==
  /\ boot = "config"
  /\ next_id = NBackends
  /\ subscribe
  /\ StartRebuild("main")
  /\ boot' = "building"
  /\ UNCHANGED <<allocated, heap, active, generation, retired, retired_cap,
                 dp, leaked, failed>>

StartThreads ==
  /\ boot = "building"
  /\ mut["main"].pc = "idle"
  /\ boot' = "running"
  /\ dp' = IdleDp
  /\ UNCHANGED <<slot_used, backends, next_id, cb, allocated, heap, active, generation,
                 retired, retired_cap, mut, leaked, failed>>

(* health_checker_stop joins hc, which first ends the rebuild it is in.    *)
JoinHealthChecker ==
  /\ boot = "cleanup"
  /\ mut["hc"].pc = "idle"
  /\ boot' = "joined"
  /\ UNCHANGED <<slot_used, backends, next_id, cb, allocated, heap, active, generation,
                 retired, retired_cap, mut, dp, leaked, failed>>

Destroy ==
  /\ boot = "joined"
  /\ Freed(retired \cup ({active} \ {NULL}))
  /\ active' = NULL
  /\ retired' = {}
  /\ retired_cap' = 0
  /\ boot' = "done"
  /\ UNCHANGED <<slot_used, backends, next_id, cb, generation, mut, dp, leaked, failed>>

-----------------------------------------------------------------------------
(* hc: a probe result or an admin line changes a backend.  The setter's    *)
(* notify then runs the rebuild in the same thread.                        *)

HcBetweenChanges ==
  /\ boot = "running" \/ (boot = "cleanup" /\ dp.pc = "exited")
  /\ mut["hc"].pc = "idle"
  /\ generation < MaxGen

(* Mutant: a health change that notifies nobody. *)
SetHealthSilently(id, healthy) ==
  /\ HcBetweenChanges
  /\ set_health(id, healthy)
  /\ UNCHANGED <<mut, allocated, heap, active, generation, retired, retired_cap,
                 dp, boot, leaked, failed>>

SetHealth(id, healthy) ==
  /\ HcBetweenChanges
  /\ set_health(id, healthy)
  /\ notify("hc")
  /\ UNCHANGED <<allocated, heap, active, generation, retired, retired_cap,
                 dp, boot, leaked, failed>>

SetAdminState(id, state) ==
  /\ HcBetweenChanges
  /\ set_admin_state(id, state)
  /\ notify("hc")
  /\ UNCHANGED <<allocated, heap, active, generation, retired, retired_cap,
                 dp, boot, leaked, failed>>

-----------------------------------------------------------------------------
(* dp: one packet, one reaper tick, and the signal that ends the loop.     *)

GetActive ==
  /\ dp.pc = "idle"
  /\ active # NULL
  /\ dp' = [dp EXCEPT !.pc = "lookup", !.snap = active]
  /\ UNCHANGED <<slot_used, backends, next_id, cb, allocated, heap, active, generation,
                 retired, retired_cap, mut, boot, leaked, failed>>

(* A flow found in conntrack keeps its backend; a new one takes the table's *)
(* choice, and is dropped when the table is empty.                          *)
TableLookup ==
  /\ dp.pc = "lookup"
  /\ \/ \E id \in Id :
          dp' = [dp EXCEPT !.pc = "find", !.id = id, !.pinned = TRUE]
     \/ \E id \in heap[dp.snap].eligible :
          dp' = [dp EXCEPT !.pc = "find", !.id = id, !.pinned = FALSE]
     \/ /\ heap[dp.snap].eligible = {}
        /\ dp' = IdleDp
  /\ UNCHANGED <<slot_used, backends, next_id, cb, allocated, heap, active, generation,
                 retired, retired_cap, mut, boot, leaked, failed>>

(* routing_snapshot_find_backend, then the frame is sent or dropped. *)
FindBackend ==
  /\ dp.pc = "find"
  /\ dp' = IdleDp
  /\ UNCHANGED <<slot_used, backends, next_id, cb, allocated, heap, active, generation,
                 retired, retired_cap, mut, boot, leaked, failed>>

(* Mutant: drops the list when it is detached. *)
DetachDrops ==
  /\ dp.pc = "idle"
  /\ dp' = [dp EXCEPT !.pc = "free"]
  /\ retired' = {}
  /\ retired_cap' = 0
  /\ UNCHANGED <<slot_used, backends, next_id, cb, allocated, heap, active, generation,
                 mut, boot, leaked, failed>>

(* table_generator_reclaim: detach the list under retired_mu ... *)
Detach ==
  /\ dp.pc = "idle"
  /\ dp' = [dp EXCEPT !.pc = "free", !.to_free = retired]
  /\ retired' = {}
  /\ retired_cap' = 0
  /\ UNCHANGED <<slot_used, backends, next_id, cb, allocated, heap, active, generation,
                 mut, boot, leaked, failed>>

(* ... then free its snapshots without the lock. *)
FreeDetached ==
  /\ dp.pc = "free"
  /\ \/ \E a \in dp.to_free :
          /\ Freed({a})
          /\ dp' = [dp EXCEPT !.to_free = @ \ {a}]
     \/ /\ dp.to_free = {}
        /\ dp' = IdleDp
        /\ UNCHANGED <<allocated, heap>>
  /\ UNCHANGED <<slot_used, backends, next_id, cb, active, generation, retired,
                 retired_cap, mut, boot, leaked, failed>>

StopDatapath ==
  /\ dp.pc = "idle"
  /\ dp' = [dp EXCEPT !.pc = "exited"]
  /\ boot' = "cleanup"
  /\ UNCHANGED <<slot_used, backends, next_id, cb, allocated, heap, active, generation,
                 retired, retired_cap, mut, leaked, failed>>

-----------------------------------------------------------------------------
Main ==
  \/ AddBackend \/ ResolveMac \/ StartupFails \/ FirstRebuild \/ StartThreads
  \/ JoinHealthChecker \/ Destroy

Datapath ==
  \/ GetActive \/ TableLookup \/ FindBackend
  \/ Detach \/ FreeDetached \/ StopDatapath

Terminated == boot = "done" /\ UNCHANGED vars

Next ==
  \/ Main
  \/ \E t \in Mutator : Rebuild(t)
  \/ \E id \in Id, healthy \in BOOLEAN : SetHealth(id, healthy)
  \/ \E id \in Id, state \in {"ENABLED", "DRAINING"} : SetAdminState(id, state)
  \/ Datapath
  \/ Terminated

Spec == Init /\ [][Next]_vars

(* Threads run when they can; the reaper timer keeps firing, so a datapath *)
(* that is between packets again and again does detach the list.  hc looks *)
(* at its stop event between any two changes, so it is joined in the end.  *)
(* Nothing forces probes, admin lines, packets or the signal to come.      *)
Fairness ==
  /\ \A t \in Mutator : WF_vars(Rebuild(t))
  /\ WF_vars(TableLookup) /\ WF_vars(FindBackend) /\ WF_vars(FreeDetached)
  /\ SF_vars(Detach)
  /\ SF_vars(JoinHealthChecker) /\ WF_vars(Destroy)

FairSpec == Spec /\ Fairness

-----------------------------------------------------------------------------
(* Properties                                                              *)

RebuildState ==
  [pc : {"idle", "rebuild", "eligible", "create", "install", "publish", "retire"},
   routable : SUBSET Nat, eligible : SUBSET Nat, gen : Nat,
   new : Addr \cup {NULL}, old : Addr \cup {NULL}]

ReaderState ==
  [pc : {"off", "idle", "lookup", "find", "free", "exited"},
   snap : Addr \cup {NULL}, id : Nat, pinned : BOOLEAN, to_free : SUBSET Addr]

(* Every variable has the type its C declaration and use give it. *)
TypeOK ==
  /\ bmTypeOK
  /\ allocated \subseteq Addr
  /\ heap \in [Addr -> Snapshot]
  /\ active \in Addr \cup {NULL}
  /\ generation \in Nat
  /\ retired \subseteq Addr
  /\ retired_cap \in Nat
  /\ mut \in [Mutator -> RebuildState]
  /\ dp \in ReaderState
  /\ boot \in {"config", "arp", "building", "running", "cleanup", "joined", "done"}
  /\ leaked \subseteq Addr
  /\ failed \in BOOLEAN

(* The snapshot a packet is being forwarded with is never freed under it,  *)
(* however rebuilds, retirements and reclaims interleave                   *)
(* (table_generator.c:17-30, the retired_mu comment).                      *)
NoUseAfterFree == dp.snap # NULL => dp.snap \in allocated

(* While a packet uses a snapshot, its memory is not rewritten: no address *)
(* is freed and handed to a new snapshot behind the reader's pointer       *)
(* (datapath.c:106-132 dereferences it three times).                       *)
HeldSnapshotStable ==
  [][dp.snap # NULL /\ dp'.snap = dp.snap => heap'[dp.snap] = heap[dp.snap]]_vars

(* The places that hold a pointer to a snapshot they are to pass on or     *)
(* free: main and hc never rebuild at the same time, so that each of their *)
(* locals is one place.                                                    *)
Holder == {"active", "retired", "to_free", "leaked", "new", "old"}

Holds(h, a) ==
  \/ h = "active" /\ a = active
  \/ h = "retired" /\ a \in retired
  \/ h = "to_free" /\ a \in dp.to_free
  \/ h = "leaked" /\ a \in leaked
  \/ h = "new" /\ \E t \in Mutator : a = mut[t].new
  \/ h = "old" /\ \E t \in Mutator : a = mut[t].old

(* Every allocated snapshot has exactly one owner and every owned snapshot *)
(* is allocated: none is freed twice and none is lost, from                *)
(* routing_snapshot_create to routing_snapshot_free.                       *)
OwnedOnce ==
  \A a \in Addr :
    /\ a \in allocated <=> \E h \in Holder : Holds(h, a)
    /\ \A h1, h2 \in Holder : Holds(h1, a) /\ Holds(h2, a) => h1 = h2

(* When the program ends, table_generator_destroy has freed every snapshot *)
(* but the ones a failed realloc leaked on purpose                         *)
(* (table_generator.c:130-134).                                            *)
NothingLostAtExit == boot = "done" => allocated = leaked

(* The retired list never overflows its array (table_generator.c:115-127). *)
RetiredFits == Cardinality(retired) <= retired_cap

(* A backend the table gave a new flow resolves in the very snapshot the   *)
(* packet is using: candidates are a subset of the routable set even       *)
(* though the two are read under separate locks (maglev_table.h:61-62).    *)
NewFlowResolves ==
  dp.pc = "find" /\ ~dp.pinned => dp.id \in heap[dp.snap].routable

(* When no rebuild is in progress the active snapshot shows the backend    *)
(* table as it is now, unless the last rebuild found no memory: no change  *)
(* is ever missed or installed out of order.                               *)
Settled == boot = "running" /\ \A t \in Mutator : mut[t].pc = "idle"

ActiveIsCurrent ==
  Settled /\ ~failed =>
    /\ heap[active].routable = snapshot_routable
    /\ heap[active].eligible = snapshot_eligible

(* The generation exported to the TUI and to /metrics never runs ahead of  *)
(* the installed snapshot's, lags it by one step of one rebuild at most,   *)
(* and is never behind once the rebuild has returned                       *)
(* (table_generator.c:94-105).                                             *)
GenerationTracksActive ==
  active # NULL =>
    /\ generation \in {heap[active].generation - 1, heap[active].generation}
    /\ Settled => generation = heap[active].generation

(* A retired snapshot is freed in the end, by the reader's next tick or by *)
(* table_generator_destroy.                                                *)
RetiredIsFreed == \A a \in Addr : (a \in retired) ~> (a \notin allocated)

(* The refinement mapping: a snapshot in memory is the view it was built   *)
(* from, and a change is pending until its rebuild has swapped a snapshot  *)
(* in or has failed.                                                       *)
Wanted == [routable |-> snapshot_routable, eligible |-> snapshot_eligible]

Installed ==
  IF active = NULL THEN NULL
  ELSE [routable |-> heap[active].routable, eligible |-> heap[active].eligible]

Pending == \E t \in Mutator : mut[t].pc \in {"rebuild", "eligible", "create", "install"}

Routing == INSTANCE RoutingTable WITH
             want <- Wanted, installed <- Installed, pending <- Pending, NoView <- NULL

(* Rebuilding in small steps, with the two snapshots of the backend table  *)
(* taken under separate locks and the swap done later, implements the      *)
(* atomic installation of RoutingTable (table_generator.c:78-137).         *)
ImplementsRoutingTable == Routing!Spec

-----------------------------------------------------------------------------
(* The inductive invariant.                                                *)

(* What the locals of a rebuild are at each of its steps. *)
RebuildLocals ==
  \A t \in Mutator :
    /\ mut[t].new # NULL <=> mut[t].pc = "install"
    /\ mut[t].old # NULL => mut[t].pc \in {"publish", "retire"}
    /\ mut[t].pc = "retire" => mut[t].old # NULL

(* What the datapath holds at each of its steps.  A held snapshot is the   *)
(* active one or has been swapped out, but it is not on a detached list.   *)
ReaderLocals ==
  /\ dp.snap # NULL <=> dp.pc \in {"lookup", "find"}
  /\ dp.pc # "free" => dp.to_free = {}
  /\ dp.snap # NULL => \/ dp.snap = active
                       \/ dp.snap \in retired \cup leaked
                       \/ \E t \in Mutator : dp.snap = mut[t].old

(* Which threads exist in each phase of main. *)
Phases ==
  /\ mut["main"].pc # "idle" => boot = "building"
  /\ mut["hc"].pc # "idle" => boot = "running" \/ (boot = "cleanup" /\ dp.pc = "exited")
  /\ dp.pc \notin {"off", "exited"} <=> boot = "running"
  /\ dp.pc = "exited" => boot \in {"cleanup", "joined", "done"}
  /\ boot \in {"config", "arp"} => active = NULL /\ ~cb
  /\ boot = "building" /\ mut["main"].pc \in {"idle", "publish", "retire"} => active # NULL
  /\ boot = "building" /\ mut["main"].pc \in {"rebuild", "eligible", "create", "install"}
       => active = NULL
  /\ boot = "running" \/ (boot = "cleanup" /\ dp.pc = "exited") => active # NULL /\ cb
  /\ boot = "building" => cb
  /\ boot = "done" => active = NULL /\ retired = {}

(* The views a rebuild carries are those of the backend table, which no    *)
(* other thread can change meanwhile.                                      *)
RebuildIsCurrent ==
  \A t \in Mutator :
    /\ mut[t].pc \in {"eligible", "create"} => mut[t].routable = snapshot_routable
    /\ mut[t].pc = "create" => mut[t].eligible = snapshot_eligible
    /\ mut[t].pc = "install" =>
         /\ heap[mut[t].new].routable = snapshot_routable
         /\ heap[mut[t].new].eligible = snapshot_eligible
         /\ heap[mut[t].new].generation = mut[t].gen
         /\ mut[t].gen = generation + 1
    /\ mut[t].pc = "publish" =>
         /\ active # NULL
         /\ heap[active].generation = mut[t].gen
         /\ mut[t].gen = generation + 1

(* The installed snapshot and the exported generation. *)
ActiveSnapshot ==
  active # NULL =>
    /\ (\A t \in Mutator : mut[t].pc # "publish") => heap[active].generation = generation
    /\ ~Pending /\ ~failed => /\ heap[active].routable = snapshot_routable
                              /\ heap[active].eligible = snapshot_eligible

(* In every snapshot the candidates are among the routable backends. *)
CandidatesRoutable == \A a \in allocated : heap[a].eligible \subseteq heap[a].routable

ReaderChoice ==
  dp.pc = "find" /\ ~dp.pinned => dp.id \in heap[dp.snap].eligible

(* The conjunction is inductive: ownership alone does not say that a       *)
(* reader's pointer is off the detached list, and the views alone do not   *)
(* say that no second thread changes the table.                            *)
Inv ==
  /\ TypeOK /\ OwnedOnce
  /\ RebuildLocals /\ ReaderLocals /\ Phases
  /\ RebuildIsCurrent /\ ActiveSnapshot /\ CandidatesRoutable /\ ReaderChoice

-----------------------------------------------------------------------------
(* What the comments and the docs say and the code does not do: TLC        *)
(* refutes each of these (README.md, "What the code does not do").         *)

(* What table_generator.h:14-19 says of an install: it is done "freeing    *)
(* the previously active one".                                             *)
InstallFreesPrevious ==
  [][\A t \in Mutator :
       mut[t].pc = "retire" /\ mut'[t].pc = "idle" => mut[t].old \notin allocated']_vars

=============================================================================
