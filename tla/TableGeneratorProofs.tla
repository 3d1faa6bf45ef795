------------------------ MODULE TableGeneratorProofs ------------------------
(***************************************************************************)
(* Proofs about TableGenerator, for every number of backends, every heap   *)
(* and every bound.                                                        *)
(***************************************************************************)
EXTENDS TableGenerator, FiniteSetTheorems, TLAPS

(* The snapshot functions read the slots and nothing else, return ids, and *)
(* the eligible ones are among the routable ones                           *)
(* (backend_manager.c:155-189).                                            *)
LEMMA SnapshotsType ==
  ASSUME bmTypeOK
  PROVE  /\ snapshot_routable \in SUBSET Nat
         /\ snapshot_eligible \in SUBSET Nat
         /\ snapshot_eligible \subseteq snapshot_routable
  BY DEF bmTypeOK, Backend, snapshot_routable, snapshot_eligible

LEMMA SnapshotsUnchanged ==
  ASSUME UNCHANGED <<slot_used, backends>>
  PROVE  /\ snapshot_routable' = snapshot_routable
         /\ snapshot_eligible' = snapshot_eligible
  BY DEF snapshot_routable, snapshot_eligible

(* Each operation of the backend table keeps its type. *)
LEMMA AddType ==
  ASSUME bmTypeOK, add
  PROVE  bmTypeOK'
  BY DEF bmTypeOK, add, Backend, AdminState, Slot

LEMMA SetHealthType ==
  ASSUME bmTypeOK, NEW id, NEW h \in BOOLEAN, set_health(id, h)
  PROVE  bmTypeOK'
  BY Zenon DEF bmTypeOK, set_health, Backend

LEMMA SetAdminStateType ==
  ASSUME bmTypeOK, NEW id, NEW s \in AdminState, set_admin_state(id, s)
  PROVE  bmTypeOK'
  BY Zenon DEF bmTypeOK, set_admin_state, Backend

LEMMA SetMacType ==
  ASSUME bmTypeOK, NEW id, set_mac(id)
  PROVE  bmTypeOK'
  BY Zenon DEF bmTypeOK, set_mac, Backend

LEMMA InitInv == Init => Inv
  <1> SUFFICES ASSUME Init PROVE Inv
    OBVIOUS
  <1>1. TypeOK
    BY Zenon, NBackendsAssumption DEF Init, bmInit, TypeOK, bmTypeOK, ZeroBackend, Backend, AdminState,
      Poison, Snapshot, IdleMut, IdleDp, Mutator, RebuildState, ReaderState
  <1>2. OwnedOnce
    BY NullAssumption DEF Init, OwnedOnce, Holder, Holds, IdleMut, IdleDp, Mutator
  <1>3. RebuildLocals /\ ReaderLocals /\ Phases /\ RebuildIsCurrent
    BY DEF Init, bmInit, RebuildLocals, ReaderLocals, Phases, RebuildIsCurrent, IdleMut,
       IdleDp, Mutator
  <1>4. ActiveSnapshot /\ CandidatesRoutable /\ ReaderChoice
    BY DEF Init, ActiveSnapshot, CandidatesRoutable, ReaderChoice, IdleDp
  <1> QED
    BY <1>1, <1>2, <1>3, <1>4 DEF Inv
(* Whoever still follows a pointer holds an allocated snapshot.  The reader's is the active one, *)
(* or one that was swapped out and nobody has detached yet.                                       *)
LEMMA HeldAllocated ==
  ASSUME Inv
  PROVE  /\ active # NULL => active \in allocated
         /\ dp.snap # NULL => dp.snap \in allocated
         /\ \A t \in Mutator : mut[t].new # NULL => mut[t].new \in allocated
  BY NullAssumption DEF Inv, TypeOK, RebuildState, ReaderState, OwnedOnce, Holder, Holds,
     ReaderLocals

(* Reading the routable set: only a local changes. *)
LEMMA SnapshotRoutableInv ==
  ASSUME Inv, NEW t \in Mutator, SnapshotRoutable(t)
  PROVE  Inv'
  <1> USE NullAssumption DEF Inv, TypeOK, Mutator, RebuildState, ReaderState, SnapshotRoutable
  <1>1. TypeOK'
    BY SnapshotsType DEF bmTypeOK
  <1>2. OwnedOnce'
    BY DEF OwnedOnce, Holder, Holds
  <1>3. (RebuildLocals /\ ReaderLocals /\ Phases)'
    BY DEF RebuildLocals, ReaderLocals, Phases
  <1>4. (RebuildIsCurrent /\ ActiveSnapshot /\ CandidatesRoutable /\ ReaderChoice)'
    <2>1. RebuildIsCurrent'
      BY SnapshotsUnchanged DEF RebuildIsCurrent
    <2>2. (ActiveSnapshot /\ CandidatesRoutable /\ ReaderChoice)'
      BY SnapshotsUnchanged DEF ActiveSnapshot, CandidatesRoutable, ReaderChoice, Pending
    <2> QED
      BY SMTT(60), <2>1, <2>2
  <1> QED
    BY SMTT(60), <1>1, <1>2, <1>3, <1>4

(* Reading the eligible set: the routable set read before is still current. *)
LEMMA SnapshotEligibleInv ==
  ASSUME Inv, NEW t \in Mutator, SnapshotEligible(t)
  PROVE  Inv'
  <1> USE NullAssumption DEF Inv, TypeOK, Mutator, RebuildState, ReaderState, SnapshotEligible
  <1>1. TypeOK'
    BY SMTT(60), SnapshotsType DEF bmTypeOK
  <1>2. OwnedOnce'
    BY DEF OwnedOnce, Holder, Holds
  <1>3. (RebuildLocals /\ ReaderLocals /\ Phases)'
    BY DEF RebuildLocals, ReaderLocals, Phases
  <1>4. (RebuildIsCurrent /\ ActiveSnapshot /\ CandidatesRoutable /\ ReaderChoice)'
    <2>1. RebuildIsCurrent'
      BY SnapshotsUnchanged DEF RebuildIsCurrent
    <2>2. (ActiveSnapshot /\ CandidatesRoutable /\ ReaderChoice)'
      BY SnapshotsUnchanged DEF ActiveSnapshot, CandidatesRoutable, ReaderChoice, Pending
    <2> QED
      BY SMTT(60), <2>1, <2>2
  <1> QED
    BY SMTT(60), <1>1, <1>2, <1>3, <1>4

(* The new snapshot lies at an address nobody holds. *)
LEMMA CreateInv ==
  ASSUME Inv, NEW t \in Mutator, Create(t)
  PROVE  Inv'
  <1> USE NullAssumption DEF Inv, TypeOK, Mutator, RebuildState, ReaderState
  <1>0. PICK a \in Addr \ allocated :
          /\ allocated' = allocated \cup {a}
          /\ heap' = [heap EXCEPT ![a] = [routable |-> mut[t].routable,
                                          eligible |-> mut[t].eligible,
                                          generation |-> generation + 1]]
          /\ mut' = [mut EXCEPT ![t].pc = "install", ![t].new = a, ![t].gen = generation + 1]
          /\ UNCHANGED <<slot_used, backends, next_id, cb, active, generation,
                         retired, retired_cap, dp, boot, leaked, failed>>
          /\ mut[t].pc = "create"
    BY Zenon DEF Create
  <1>a. /\ UNCHANGED <<slot_used, backends, next_id, cb, active, generation,
                       retired, retired_cap, dp, boot, leaked, failed>>
        /\ snapshot_routable' = snapshot_routable
        /\ snapshot_eligible' = snapshot_eligible
    BY <1>0, SnapshotsUnchanged
  <1>1. TypeOK'
    <2>1. heap' \in [Addr -> Snapshot]
      BY <1>0 DEF Snapshot
    <2>2. mut' \in [Mutator -> RebuildState]
      BY SMTT(60), <1>0, generation + 1 \in Nat
    <2>3. allocated' \subseteq Addr
      BY <1>0
    <2>4. bmTypeOK'
      BY <1>a DEF bmTypeOK
    <2> QED
      BY <1>a, <2>1, <2>2, <2>3, <2>4
  <1>2. OwnedOnce'
    <2>1. \A s \in Mutator : /\ mut'[s].old = mut[s].old
                             /\ mut'[s].new = IF s = t THEN a ELSE mut[s].new
      BY <1>0
    <2>2. mut[t].new = NULL
      BY <1>0 DEF RebuildLocals
    <2>3. \A b \in Addr : /\ (\E s \in Mutator : b = mut'[s].old) <=> \E s \in Mutator : b = mut[s].old
                          /\ (\E s \in Mutator : b = mut'[s].new)
                               <=> b = a \/ \E s \in Mutator : b = mut[s].new
      BY <2>1, <2>2
    <2>4. \A h \in Holder : ~Holds(h, a)
      BY <1>0 DEF OwnedOnce
    <2> QED
      BY <1>0, <2>3, <2>4 DEF OwnedOnce, Holder, Holds
  <1>3. (RebuildLocals /\ ReaderLocals /\ Phases)'
    BY <1>0 DEF RebuildLocals, ReaderLocals, Phases
  <1>4. (RebuildIsCurrent /\ ActiveSnapshot /\ CandidatesRoutable /\ ReaderChoice)'
    <2>1. /\ heap'[a].routable = mut[t].routable
          /\ heap'[a].eligible = mut[t].eligible
          /\ heap'[a].generation = generation + 1
          /\ \A b \in allocated : heap'[b] = heap[b]
      BY <1>0
    <2>2. /\ mut'[t].new = a /\ mut'[t].gen = generation + 1 /\ mut'[t].pc = "install"
          /\ \A u \in Mutator \ {t} : mut'[u] = mut[u]
      BY <1>0
    <2>3. RebuildIsCurrent'
      <3> SUFFICES ASSUME NEW u \in Mutator
                   PROVE  RebuildIsCurrent!(u)'
        BY SMTT(60) DEF RebuildIsCurrent
      <3>1. CASE u = t
        BY SMTT(60), <1>0, <1>a, <2>1, <2>2, <3>1 DEF RebuildIsCurrent
      <3>2. CASE u # t
        BY SMTT(60), <1>a, <2>1, <2>2, <3>2, HeldAllocated DEF RebuildIsCurrent, RebuildLocals
      <3> QED
        BY <3>1, <3>2
    <2>4. ActiveSnapshot'
      BY SMTT(60), <1>0, <1>a, <2>1, <2>2, HeldAllocated DEF ActiveSnapshot, Pending
    <2>5. CandidatesRoutable'
      BY <1>0, <2>1, SnapshotsType DEF CandidatesRoutable, RebuildIsCurrent
    <2>6. ReaderChoice'
      BY <1>a, <2>1, HeldAllocated DEF ReaderChoice, ReaderLocals
    <2> QED
      BY <2>3, <2>4, <2>5, <2>6
  <1> QED
    BY <1>1, <1>2, <1>3, <1>4

(* Giving up leaves the installed snapshot, and says so. *)
LEMMA CreateFailsInv ==
  ASSUME Inv, NEW t \in Mutator, CreateFails(t)
  PROVE  Inv'
  <1> USE NullAssumption DEF Inv, TypeOK, Mutator, RebuildState, ReaderState, CreateFails,
     IdleMut
  <1>1. TypeOK'
    BY SMTT(60) DEF bmTypeOK
  <1>2. OwnedOnce'
    BY DEF OwnedOnce, Holder, Holds, RebuildLocals
  <1>3. (RebuildLocals /\ ReaderLocals /\ Phases)'
    BY SMTT(60) DEF RebuildLocals, ReaderLocals, Phases
  <1>4. (RebuildIsCurrent /\ ActiveSnapshot /\ CandidatesRoutable /\ ReaderChoice)'
    BY SnapshotsUnchanged DEF RebuildIsCurrent, ActiveSnapshot, CandidatesRoutable,
       ReaderChoice, Pending, RebuildLocals
  <1> QED
    BY <1>1, <1>2, <1>3, <1>4

(* The swap: the new snapshot becomes active, the active one this thread's `old'. *)
LEMMA InstallInv ==
  ASSUME Inv, NEW t \in Mutator, Install(t)
  PROVE  Inv'
  <1> USE NullAssumption DEF Inv, TypeOK, Mutator, RebuildState, ReaderState, Install
  <1>1. TypeOK'
    <2>1. mut[t].new \in Addr
      BY DEF RebuildLocals
    <2>2. mut' \in [Mutator -> RebuildState]
      BY SMTT(60)
    <2> QED
      BY <2>1, <2>2 DEF bmTypeOK
  <1>2. OwnedOnce'
    BY DEF OwnedOnce, Holder, Holds, RebuildLocals, Phases
  <1>3. (RebuildLocals /\ ReaderLocals /\ Phases)'
    BY DEF RebuildLocals, ReaderLocals, Phases
  <1>4. (RebuildIsCurrent /\ ActiveSnapshot /\ CandidatesRoutable /\ ReaderChoice)'
    <2>1. RebuildIsCurrent'
      BY SMTT(60), SnapshotsUnchanged DEF RebuildIsCurrent, RebuildLocals, Phases
    <2>2. ActiveSnapshot'
      BY SnapshotsUnchanged DEF ActiveSnapshot, RebuildIsCurrent, RebuildLocals, Phases,
       Pending
    <2>3. (CandidatesRoutable /\ ReaderChoice)'
      BY DEF CandidatesRoutable, ReaderChoice
    <2> QED
      BY <2>1, <2>2, <2>3, SMTT(60)
  <1> QED
    BY ZenonT(60), <1>1, <1>2, <1>3, <1>4

(* The exported generation catches up with the active snapshot. *)
LEMMA PublishGenerationInv ==
  ASSUME Inv, NEW t \in Mutator, PublishGeneration(t)
  PROVE  Inv'
  <1> USE NullAssumption DEF Inv, TypeOK, Mutator, RebuildState, ReaderState,
     PublishGeneration, IdleMut
  <1>1. TypeOK'
    BY SMTT(60) DEF bmTypeOK
  <1>2. OwnedOnce'
    BY DEF OwnedOnce, Holder, Holds, RebuildLocals
  <1>3. (RebuildLocals /\ ReaderLocals /\ Phases)'
    BY SMTT(60) DEF RebuildLocals, ReaderLocals, Phases
  <1>4. (RebuildIsCurrent /\ ActiveSnapshot /\ CandidatesRoutable /\ ReaderChoice)'
    BY SnapshotsUnchanged DEF RebuildIsCurrent, ActiveSnapshot, CandidatesRoutable,
       ReaderChoice, Pending, RebuildLocals, Phases
  <1> QED
    BY <1>1, <1>2, <1>3, <1>4

(* The old snapshot moves to the retired list, or is leaked. *)
LEMMA RetireInv ==
  ASSUME Inv, NEW t \in Mutator, Retire(t)
  PROVE  Inv'
  <1> USE NullAssumption DEF Inv, TypeOK, Mutator, RebuildState, ReaderState, Retire, IdleMut
  <1>1. TypeOK'
    <2>1. retired_cap' \in Nat
      BY InitialCapAssumption DEF Grow
    <2>2. retired' \subseteq Addr /\ leaked' \subseteq Addr
      BY DEF RebuildLocals
    <2>3. mut' \in [Mutator -> RebuildState]
      BY SMTT(60)
    <2> QED
      BY <2>1, <2>2, <2>3 DEF bmTypeOK
  <1>2. OwnedOnce'
    BY SMTT(60) DEF OwnedOnce, Holder, Holds, RebuildLocals, Phases
  <1>3. (RebuildLocals /\ ReaderLocals /\ Phases)'
    BY SMTT(60) DEF RebuildLocals, ReaderLocals, Phases
  <1>4. (RebuildIsCurrent /\ ActiveSnapshot /\ CandidatesRoutable /\ ReaderChoice)'
    BY SnapshotsUnchanged DEF RebuildIsCurrent, ActiveSnapshot, CandidatesRoutable,
       ReaderChoice, Pending, RebuildLocals, Phases
  <1> QED
    BY SMTT(60), <1>1, <1>2, <1>3, <1>4

(* main adds a backend before anything is installed. *)
LEMMA AddBackendInv ==
  ASSUME Inv, AddBackend
  PROVE  Inv'
  <1> USE NullAssumption DEF Inv, TypeOK, Mutator, RebuildState, ReaderState, AddBackend, notify
  <1>0. UNCHANGED <<mut, cb>>
    BY DEF add, Phases
  <1>1. TypeOK'
    <2>1. bmTypeOK'
      BY SMTT(60), AddType
    <2> QED
      BY <1>0, <2>1
  <1>2. OwnedOnce'
    BY SMTT(60), <1>0 DEF OwnedOnce, Holder, Holds, Phases
  <1>3. (RebuildLocals /\ ReaderLocals /\ Phases)'
    BY SMTT(60), <1>0 DEF RebuildLocals, ReaderLocals, Phases
  <1>4. (RebuildIsCurrent /\ ActiveSnapshot /\ CandidatesRoutable /\ ReaderChoice)'
    BY <1>0 DEF RebuildIsCurrent, ActiveSnapshot, CandidatesRoutable, ReaderChoice,
       Pending, Phases
  <1> QED
    BY <1>1, <1>2, <1>3, <1>4

(* ARP resolution, likewise. *)
LEMMA ResolveMacInv ==
  ASSUME Inv, ResolveMac
  PROVE  Inv'
  <1> USE NullAssumption DEF Inv, TypeOK, Mutator, RebuildState, ReaderState, ResolveMac, notify
  <1>0. UNCHANGED <<mut, cb>>
    BY DEF set_mac, Phases
  <1>1. TypeOK'
    <2>1. bmTypeOK'
      BY SMTT(60), SetMacType
    <2> QED
      BY <1>0, <2>1
  <1>2. OwnedOnce'
    BY SMTT(60), <1>0 DEF OwnedOnce, Holder, Holds, Phases
  <1>3. (RebuildLocals /\ ReaderLocals /\ Phases)'
    BY <1>0, SMTT(60) DEF RebuildLocals, ReaderLocals, Phases
  <1>4. (RebuildIsCurrent /\ ActiveSnapshot /\ CandidatesRoutable /\ ReaderChoice)'
    BY <1>0 DEF RebuildIsCurrent, ActiveSnapshot, CandidatesRoutable, ReaderChoice,
       Pending, Phases
  <1> QED
    BY <1>1, <1>2, <1>3, <1>4

(* A failed start-up goes to the cleanup with no thread running. *)
LEMMA StartupFailsInv ==
  ASSUME Inv, StartupFails
  PROVE  Inv'
  <1> USE NullAssumption DEF Inv, TypeOK, Mutator, RebuildState, ReaderState, StartupFails
  <1>1. TypeOK'
    BY SMTT(60) DEF bmTypeOK
  <1>2. OwnedOnce'
    BY DEF OwnedOnce, Holder, Holds
  <1>3. (RebuildLocals /\ ReaderLocals /\ Phases)'
    BY SMTT(60) DEF RebuildLocals, ReaderLocals, Phases
  <1>4. (RebuildIsCurrent /\ ActiveSnapshot /\ CandidatesRoutable /\ ReaderChoice)'
    BY SnapshotsUnchanged DEF RebuildIsCurrent, ActiveSnapshot, CandidatesRoutable,
       ReaderChoice, Pending
  <1> QED
    BY <1>1, <1>2, <1>3, <1>4

(* main subscribes and rebuilds; hc does not exist yet. *)
LEMMA FirstRebuildInv ==
  ASSUME Inv, FirstRebuild
  PROVE  Inv'
  <1> USE NullAssumption DEF Inv, TypeOK, Mutator, RebuildState, ReaderState, FirstRebuild,
     subscribe, StartRebuild
  <1>1. TypeOK'
    BY DEF bmTypeOK
  <1>2. OwnedOnce'
    BY DEF OwnedOnce, Holder, Holds
  <1>3. (RebuildLocals /\ ReaderLocals /\ Phases)'
    BY DEF RebuildLocals, ReaderLocals, Phases
  <1>4. (RebuildIsCurrent /\ ActiveSnapshot /\ CandidatesRoutable /\ ReaderChoice)'
    BY SnapshotsUnchanged DEF RebuildIsCurrent, ActiveSnapshot, CandidatesRoutable,
       ReaderChoice, Pending, Phases
  <1> QED
    BY <1>1, <1>2, <1>3, <1>4

(* The threads start with the first snapshot installed. *)
LEMMA StartThreadsInv ==
  ASSUME Inv, StartThreads
  PROVE  Inv'
  <1> USE NullAssumption DEF Inv, TypeOK, Mutator, RebuildState, ReaderState, StartThreads,
     IdleDp
  <1>1. TypeOK'
    BY SMTT(60) DEF bmTypeOK
  <1>2. OwnedOnce'
    BY SMTT(60) DEF OwnedOnce, Holder, Holds, ReaderLocals, Phases
  <1>3. (RebuildLocals /\ ReaderLocals /\ Phases)'
    BY SMTT(60) DEF RebuildLocals, ReaderLocals, Phases
  <1>4. (RebuildIsCurrent /\ ActiveSnapshot /\ CandidatesRoutable /\ ReaderChoice)'
    BY SMTT(60), SnapshotsUnchanged DEF RebuildIsCurrent, ActiveSnapshot, CandidatesRoutable,
       ReaderChoice, Pending
  <1> QED
    BY SMTT(60), <1>1, <1>2, <1>3, <1>4

(* hc has no rebuild in progress when it is joined. *)
LEMMA JoinHealthCheckerInv ==
  ASSUME Inv, JoinHealthChecker
  PROVE  Inv'
  <1> USE NullAssumption DEF Inv, TypeOK, Mutator, RebuildState, ReaderState, JoinHealthChecker
  <1>1. TypeOK'
    BY SMTT(60) DEF bmTypeOK
  <1>2. OwnedOnce'
    BY SMTT(60) DEF OwnedOnce, Holder, Holds
  <1>3. (RebuildLocals /\ ReaderLocals /\ Phases)'
    BY SMTT(60) DEF RebuildLocals, ReaderLocals, Phases
  <1>4. (RebuildIsCurrent /\ ActiveSnapshot /\ CandidatesRoutable /\ ReaderChoice)'
    BY SMTT(60), SnapshotsUnchanged DEF RebuildIsCurrent, ActiveSnapshot, CandidatesRoutable,
       ReaderChoice, Pending
  <1> QED
    BY SMTT(60), <1>1, <1>2, <1>3, <1>4

(* Nobody holds a snapshot when the generator is destroyed. *)
LEMMA DestroyInv ==
  ASSUME Inv, Destroy
  PROVE  Inv'
  <1> USE NullAssumption DEF Inv, TypeOK, Mutator, RebuildState, ReaderState, Destroy,
     Freed, Poison
  <1>1. TypeOK'
    BY SMTT(60) DEF bmTypeOK, Snapshot
  <1>2. OwnedOnce'
    BY SMTT(60) DEF OwnedOnce, Holder, Holds, RebuildLocals, ReaderLocals, Phases
  <1>3. (RebuildLocals /\ ReaderLocals /\ Phases)'
    BY SMTT(60) DEF RebuildLocals, ReaderLocals, Phases
  <1>4. (RebuildIsCurrent /\ ActiveSnapshot /\ CandidatesRoutable /\ ReaderChoice)'
    BY SnapshotsUnchanged DEF RebuildIsCurrent, ActiveSnapshot, CandidatesRoutable,
       ReaderChoice, Pending, RebuildLocals, ReaderLocals, Phases
  <1> QED
    BY <1>1, <1>2, <1>3, <1>4, SMTT(60)

(* hc changes a backend's health: no rebuild carries views of the table. *)
LEMMA SetHealthInv ==
  ASSUME Inv, NEW id, NEW healthy \in BOOLEAN, SetHealth(id, healthy)
  PROVE  Inv'
  <1> USE NullAssumption DEF Inv, TypeOK, Mutator, RebuildState, ReaderState, SetHealth,
     HcBetweenChanges, notify, StartRebuild
  <1>1. TypeOK'
    <2>1. bmTypeOK'
      BY SMTT(60), SetHealthType
    <2> QED
      BY <2>1
  <1>2. OwnedOnce'
    BY DEF OwnedOnce, Holder, Holds
  <1>3. (RebuildLocals /\ ReaderLocals /\ Phases)'
    BY SMTT(60) DEF RebuildLocals, ReaderLocals, Phases, set_health
  <1>4. (RebuildIsCurrent /\ ActiveSnapshot /\ CandidatesRoutable /\ ReaderChoice)'
    BY DEF RebuildIsCurrent, ActiveSnapshot, CandidatesRoutable, ReaderChoice, Pending,
       Phases, set_health
  <1> QED
    BY <1>1, <1>2, <1>3, <1>4

(* hc drains or undrains a backend, likewise. *)
LEMMA SetAdminStateInv ==
  ASSUME Inv, NEW id, NEW state \in AdminState, SetAdminState(id, state)
  PROVE  Inv'
  <1> USE NullAssumption DEF Inv, TypeOK, Mutator, RebuildState, ReaderState, SetAdminState,
     HcBetweenChanges, notify, StartRebuild
  <1>1. TypeOK'
    <2>1. bmTypeOK'
      BY SMTT(60), SetAdminStateType
    <2> QED
      BY <2>1
  <1>2. OwnedOnce'
    BY DEF OwnedOnce, Holder, Holds
  <1>3. (RebuildLocals /\ ReaderLocals /\ Phases)'
    BY SMTT(60) DEF RebuildLocals, ReaderLocals, Phases, set_admin_state
  <1>4. (RebuildIsCurrent /\ ActiveSnapshot /\ CandidatesRoutable /\ ReaderChoice)'
    BY DEF RebuildIsCurrent, ActiveSnapshot, CandidatesRoutable, ReaderChoice, Pending,
       Phases, set_admin_state
  <1> QED
    BY <1>1, <1>2, <1>3, <1>4

(* The reader takes the active snapshot. *)
LEMMA GetActiveInv ==
  ASSUME Inv, GetActive
  PROVE  Inv'
  <1> USE NullAssumption DEF Inv, TypeOK, Mutator, RebuildState, ReaderState, GetActive
  <1>1. TypeOK'
    BY ZenonT(60) DEF bmTypeOK
  <1>2. OwnedOnce'
    BY DEF OwnedOnce, Holder, Holds
  <1>3. (RebuildLocals /\ ReaderLocals /\ Phases)'
    BY SMTT(60) DEF RebuildLocals, ReaderLocals, Phases
  <1>4. (RebuildIsCurrent /\ ActiveSnapshot /\ CandidatesRoutable /\ ReaderChoice)'
    BY SnapshotsUnchanged DEF RebuildIsCurrent, ActiveSnapshot, CandidatesRoutable,
       ReaderChoice, Pending
  <1> QED
    BY <1>1, <1>2, <1>3, <1>4

(* The reader takes a pinned backend, a candidate of its snapshot, or gives up. *)
LEMMA TableLookupInv ==
  ASSUME Inv, TableLookup
  PROVE  Inv'
  <1> USE NullAssumption DEF Inv, TypeOK, Mutator, RebuildState, ReaderState
  <1>1. /\ dp.pc = "lookup" /\ dp.snap \in Addr /\ dp.to_free = {}
        /\ UNCHANGED <<slot_used, backends, next_id, cb, allocated, heap, active, generation,
                       retired, retired_cap, mut, boot, leaked, failed>>
    BY Zenon DEF TableLookup, ReaderLocals
  <1>2. ASSUME NEW id \in Nat, NEW pinned \in BOOLEAN,
               dp' = [dp EXCEPT !.pc = "find", !.id = id, !.pinned = pinned],
               pinned \/ id \in heap[dp.snap].eligible
        PROVE  Inv'
    <2>1. TypeOK'
      BY <1>1, <1>2, ZenonT(60) DEF bmTypeOK
    <2>2. OwnedOnce'
      BY SMTT(60), <1>1, <1>2 DEF OwnedOnce, Holder, Holds
    <2>3. (RebuildLocals /\ ReaderLocals /\ Phases)'
      BY SMTT(60), <1>1, <1>2 DEF RebuildLocals, ReaderLocals, Phases
    <2>4. (RebuildIsCurrent /\ ActiveSnapshot /\ CandidatesRoutable)'
      BY SMTT(60), <1>1, SnapshotsUnchanged DEF RebuildIsCurrent, ActiveSnapshot, CandidatesRoutable,
         Pending
    <2>5. ReaderChoice'
      BY SMTT(60), <1>1, <1>2 DEF ReaderChoice
    <2> QED
      BY <2>1, <2>2, <2>3, <2>4, <2>5
  <1>3. ASSUME dp' = IdleDp
        PROVE  Inv'
    <2>1. TypeOK'
      BY SMTT(60), <1>1, <1>3 DEF bmTypeOK, IdleDp
    <2>2. OwnedOnce'
      BY SMTT(60), <1>1, <1>3 DEF OwnedOnce, Holder, Holds, IdleDp
    <2>3. (RebuildLocals /\ ReaderLocals /\ Phases)'
      BY <1>1, <1>3, SMTT(60) DEF RebuildLocals, ReaderLocals, Phases, IdleDp
    <2>4. (RebuildIsCurrent /\ ActiveSnapshot /\ CandidatesRoutable)'
      BY <1>1, SnapshotsUnchanged, SMTT(60) DEF RebuildIsCurrent, ActiveSnapshot,
         CandidatesRoutable, Pending
    <2>5. ReaderChoice'
      BY <1>3 DEF ReaderChoice, IdleDp
    <2> QED
      BY SMTT(60), <2>1, <2>2, <2>3, <2>4, <2>5
  <1>4. heap[dp.snap].eligible \subseteq Nat /\ Id \subseteq Nat
    BY SMTT(60), <1>1, NBackendsAssumption DEF Id, Snapshot
  <1> QED
    BY <1>2, <1>3, <1>4, Zenon DEF TableLookup

(* The packet is done and the reader lets go. *)
LEMMA FindBackendInv ==
  ASSUME Inv, FindBackend
  PROVE  Inv'
  <1> USE NullAssumption DEF Inv, TypeOK, Mutator, RebuildState, ReaderState, FindBackend,
     IdleDp
  <1>1. TypeOK'
    BY SMTT(60) DEF bmTypeOK
  <1>2. OwnedOnce'
    BY SMTT(60) DEF OwnedOnce, Holder, Holds, ReaderLocals
  <1>3. (RebuildLocals /\ ReaderLocals /\ Phases)'
    BY SMTT(60) DEF RebuildLocals, ReaderLocals, Phases
  <1>4. (RebuildIsCurrent /\ ActiveSnapshot /\ CandidatesRoutable /\ ReaderChoice)'
    BY SnapshotsUnchanged DEF RebuildIsCurrent, ActiveSnapshot, CandidatesRoutable,
       ReaderChoice, Pending
  <1> QED
    BY SMTT(60), <1>1, <1>2, <1>3, <1>4

(* Between packets the reader takes over the retired list. *)
LEMMA DetachInv ==
  ASSUME Inv, Detach
  PROVE  Inv'
  <1> USE NullAssumption DEF Inv, TypeOK, Mutator, RebuildState, ReaderState, Detach
  <1>1. TypeOK'
    BY ZenonT(60) DEF bmTypeOK
  <1>2. OwnedOnce'
    BY DEF OwnedOnce, Holder, Holds, ReaderLocals
  <1>3. (RebuildLocals /\ ReaderLocals /\ Phases)'
    BY SMTT(60) DEF RebuildLocals, ReaderLocals, Phases
  <1>4. (RebuildIsCurrent /\ ActiveSnapshot /\ CandidatesRoutable /\ ReaderChoice)'
    BY SnapshotsUnchanged DEF RebuildIsCurrent, ActiveSnapshot, CandidatesRoutable,
       ReaderChoice, Pending
  <1> QED
    BY <1>1, <1>2, <1>3, <1>4

(* It frees what it took over and nothing else. *)
LEMMA FreeDetachedInv ==
  ASSUME Inv, FreeDetached
  PROVE  Inv'
  <1> USE NullAssumption DEF Inv, TypeOK, Mutator, RebuildState, ReaderState, FreeDetached,
     IdleDp, Freed
  <1>1. TypeOK'
    <2>1. heap' \in [Addr -> Snapshot] /\ allocated' \subseteq Addr
      BY DEF Poison, Snapshot
    <2>2. CASE dp' = IdleDp
      BY <2>1, <2>2 DEF bmTypeOK
    <2>3. ASSUME NEW S \in SUBSET Addr, dp' = [dp EXCEPT !.to_free = S]
          PROVE  TypeOK'
      BY SMTT(60), <2>1, <2>3 DEF bmTypeOK
    <2> QED
      BY <2>2, <2>3
  <1>2. OwnedOnce'
    BY SMTT(60) DEF OwnedOnce, Holder, Holds, ReaderLocals
  <1>3. (RebuildLocals /\ ReaderLocals /\ Phases)'
    BY SMTT(60) DEF RebuildLocals, ReaderLocals, Phases, OwnedOnce, Holder, Holds
  <1>4. (RebuildIsCurrent /\ ActiveSnapshot /\ CandidatesRoutable /\ ReaderChoice)'
    BY SMTT(60), SnapshotsUnchanged DEF RebuildIsCurrent, ActiveSnapshot, CandidatesRoutable,
       ReaderChoice, Pending, OwnedOnce, Holder, Holds, RebuildLocals, ReaderLocals
  <1> QED
    BY SMTT(60), <1>1, <1>2, <1>3, <1>4

(* The datapath returns between two packets. *)
LEMMA StopDatapathInv ==
  ASSUME Inv, StopDatapath
  PROVE  Inv'
  <1> USE NullAssumption DEF Inv, TypeOK, Mutator, RebuildState, ReaderState, StopDatapath
  <1>1. TypeOK'
    BY DEF bmTypeOK
  <1>2. OwnedOnce'
    BY DEF OwnedOnce, Holder, Holds
  <1>3. (RebuildLocals /\ ReaderLocals /\ Phases)'
    BY DEF RebuildLocals, ReaderLocals, Phases
  <1>4. (RebuildIsCurrent /\ ActiveSnapshot /\ CandidatesRoutable /\ ReaderChoice)'
    BY SnapshotsUnchanged DEF RebuildIsCurrent, ActiveSnapshot, CandidatesRoutable,
       ReaderChoice, Pending
  <1> QED
    BY <1>1, <1>2, <1>3, <1>4

-----------------------------------------------------------------------------
LEMMA StutterInv ==
  ASSUME Inv, UNCHANGED vars
  PROVE  Inv'
  <1> USE DEF Inv, vars
  <1>1. TypeOK'
    BY Zenon DEF TypeOK, bmTypeOK
  <1>2. OwnedOnce'
    <2>1. \A h \in Holder, a \in Addr : Holds(h, a)' <=> Holds(h, a)
      BY DEF Holds
    <2>2. allocated' = allocated /\ OwnedOnce
      OBVIOUS
    <2> HIDE DEF Inv, vars
    <2> QED
      BY <2>1, <2>2 DEF OwnedOnce
  <1>3. (RebuildLocals /\ ReaderLocals /\ Phases)'
    BY Zenon DEF RebuildLocals, ReaderLocals, Phases
  <1>4. (RebuildIsCurrent /\ ActiveSnapshot /\ CandidatesRoutable /\ ReaderChoice)'
    BY SnapshotsUnchanged, Zenon DEF RebuildIsCurrent, ActiveSnapshot, CandidatesRoutable,
       ReaderChoice, Pending
  <1> QED
    BY <1>1, <1>2, <1>3, <1>4

LEMMA NextInv == Inv /\ [Next]_vars => Inv'
  <1> SUFFICES ASSUME Inv, [Next]_vars PROVE Inv'
    OBVIOUS
  <1>1. CASE Main
    BY <1>1, AddBackendInv, ResolveMacInv, StartupFailsInv, FirstRebuildInv, StartThreadsInv,
       JoinHealthCheckerInv, DestroyInv DEF Main
  <1>2. ASSUME NEW t \in Mutator, Rebuild(t)
        PROVE  Inv'
    BY <1>2, SnapshotRoutableInv, SnapshotEligibleInv, CreateInv, CreateFailsInv, InstallInv,
       PublishGenerationInv, RetireInv DEF Rebuild
  <1>3. ASSUME NEW id \in Id, NEW healthy \in BOOLEAN, SetHealth(id, healthy)
        PROVE  Inv'
    BY <1>3, SetHealthInv
  <1>4. ASSUME NEW id \in Id, NEW state \in {"ENABLED", "DRAINING"}, SetAdminState(id, state)
        PROVE  Inv'
    BY <1>4, SetAdminStateInv DEF AdminState
  <1>5. CASE Datapath
    BY <1>5, GetActiveInv, TableLookupInv, FindBackendInv, DetachInv, FreeDetachedInv,
       StopDatapathInv DEF Datapath
  <1>6. CASE Terminated \/ UNCHANGED vars
    BY <1>6, StutterInv DEF Terminated
  <1> QED
    BY <1>1, <1>2, <1>3, <1>4, <1>5, <1>6 DEF Next

(* Inv holds in every reachable state, whatever the number of backends and *)
(* addresses and however rebuilds, packets and reclaims interleave.        *)
THEOREM Invariance == Spec => []Inv
  <1>1. Init => Inv
    BY InitInv
  <1>2. Inv /\ [Next]_vars => Inv'
    BY NextInv
  <1> QED
    BY <1>1, <1>2, PTL DEF Spec

(* The variables keep their types. *)
THEOREM TypeCorrect == Spec => []TypeOK
  <1>1. Inv => TypeOK
    BY DEF Inv
  <1> QED
    BY <1>1, Invariance, PTL

(* The datapath never dereferences a freed snapshot                        *)
(* (datapath.c:106-132 against table_generator.c:103-152).                 *)
THEOREM ReaderSafe == Spec => []NoUseAfterFree
  <1>1. Inv => NoUseAfterFree
    BY HeldAllocated DEF NoUseAfterFree
  <1> QED
    BY <1>1, Invariance, PTL

(* Every snapshot has one owner from its creation to its release: no       *)
(* double free and no leak but the deliberate one.                         *)
THEOREM Ownership == Spec => [](OwnedOnce /\ NothingLostAtExit)
  <1>1. Inv => OwnedOnce
    BY DEF Inv
  <1>2. Inv => NothingLostAtExit
    <2> SUFFICES ASSUME Inv, boot = "done" PROVE allocated = leaked
      BY DEF NothingLostAtExit
    <2>1. /\ active = NULL /\ retired = {} /\ dp.to_free = {}
          /\ \A t \in Mutator : mut[t].new = NULL /\ mut[t].old = NULL
      BY DEF Inv, Phases, ReaderLocals, RebuildLocals, Mutator
    <2>2. \A a \in Addr : a \in allocated <=> a \in leaked
      BY SMTT(60), <2>1, NullAssumption DEF Inv, OwnedOnce, Holder, Holds
    <2> QED
      BY <2>2 DEF Inv, TypeOK
  <1> QED
    BY <1>1, <1>2, Invariance, PTL

(* A backend chosen by the table for a new flow is resolvable in the same  *)
(* snapshot (datapath.c:112-132).                                          *)
THEOREM NewFlowsResolve == Spec => []NewFlowResolves
  <1>1. Inv => NewFlowResolves
    BY HeldAllocated, NullAssumption
       DEF Inv, NewFlowResolves, ReaderChoice, ReaderLocals, CandidatesRoutable
  <1> QED
    BY <1>1, Invariance, PTL

(* Between rebuilds the active snapshot shows the backend table as it is.  *)
THEOREM ActiveCurrent == Spec => []ActiveIsCurrent
  <1>1. Inv => ActiveIsCurrent
    BY DEF Inv, ActiveIsCurrent, Settled, ActiveSnapshot, Phases, Pending
  <1> QED
    BY <1>1, Invariance, PTL

(* The exported generation never runs ahead of the installed snapshot.     *)
THEOREM GenerationExact == Spec => []GenerationTracksActive
  <1>1. Inv => GenerationTracksActive
    BY DEF Inv, TypeOK, GenerationTracksActive, Settled, ActiveSnapshot, RebuildIsCurrent,
       Snapshot
  <1> QED
    BY <1>1, Invariance, PTL

(* While a packet uses a snapshot its memory is not rewritten. *)
THEOREM HeldStable == Spec => HeldSnapshotStable
  <1>1. Inv /\ [Next]_vars
          => (dp.snap # NULL /\ dp'.snap = dp.snap => heap'[dp.snap] = heap[dp.snap])
    <2> SUFFICES ASSUME Inv, [Next]_vars, dp.snap # NULL
                 PROVE  heap'[dp.snap] = heap[dp.snap]
      BY SMTT(60)
    <2>1. /\ dp.snap \in allocated /\ dp.snap \in Addr
          /\ dp.pc \in {"lookup", "find"} /\ boot = "running"
      BY HeldAllocated DEF Inv, TypeOK, ReaderLocals, Phases
    <2>2. ASSUME NEW t \in Mutator, Rebuild(t)
          PROVE  heap'[dp.snap] = heap[dp.snap]
      <3>1. CASE Create(t)
        BY <2>1, <3>1, SMTT(60) DEF Create, Inv, TypeOK
      <3> QED
        BY <2>2, <3>1 DEF Rebuild, SnapshotRoutable, SnapshotEligible, CreateFails, Install,
           PublishGeneration, Retire
    <2>3. CASE Main
      BY <2>1, <2>3 DEF Main, AddBackend, ResolveMac, StartupFails, FirstRebuild, StartThreads,
         JoinHealthChecker, Destroy
    <2>4. CASE Datapath
      BY <2>1, <2>4, Zenon DEF Datapath, GetActive, TableLookup, FindBackend, Detach,
         FreeDetached,
         StopDatapath
    <2>5. CASE UNCHANGED heap
      BY <2>5
    <2> QED
      BY <2>2, <2>3, <2>4, <2>5, Zenon DEF Next, SetHealth, SetAdminState, Terminated, vars
  <1> QED
    BY <1>1, Invariance, PTL DEF Spec, HeldSnapshotStable

-----------------------------------------------------------------------------
(* The retired list.  Its bound does not need Inv.                         *)

RetiredInv ==
  /\ IsFiniteSet(retired)
  /\ retired_cap \in Nat
  /\ Cardinality(retired) <= retired_cap

(* The array of retired snapshots is never written past its end            *)
(* (table_generator.c:113-129).                                            *)
THEOREM RetiredBounded == Spec => []RetiredFits
  <1>1. Init => RetiredInv
    BY FS_EmptySet DEF Init, RetiredInv
  <1>2. RetiredInv /\ [Next]_vars => RetiredInv'
    <2> SUFFICES ASSUME RetiredInv, [Next]_vars PROVE RetiredInv'
      OBVIOUS
    <2>1. CASE UNCHANGED <<retired, retired_cap>>
      BY <2>1 DEF RetiredInv
    <2>2. CASE retired' = {} /\ retired_cap' = 0
      BY SMTT(60), <2>2, FS_EmptySet DEF RetiredInv
    <2>3. ASSUME NEW t \in Mutator, Retire(t)
          PROVE  RetiredInv'
      <3> DEFINE added == retired \cup {mut[t].old}
      <3>1. /\ IsFiniteSet(added)
            /\ Cardinality(added) \in Nat
            /\ Cardinality(retired) \in Nat
            /\ Cardinality(added) <= Cardinality(retired) + 1
        BY FS_AddElement, FS_CardinalityType DEF RetiredInv
      <3>2. retired_cap \in Nat /\ Grow(retired_cap) \in Nat /\ retired_cap + 1 <= Grow(retired_cap)
        BY InitialCapAssumption DEF Grow, RetiredInv
      <3> QED
        <4>1. CASE retired' = added /\ retired_cap' = Grow(retired_cap)
          BY <3>1, <3>2, <4>1 DEF RetiredInv
        <4>2. CASE /\ retired' = added /\ retired_cap' = retired_cap
                   /\ Cardinality(retired) < retired_cap
          BY <3>1, <4>2 DEF RetiredInv
        <4> QED
          BY <2>1, <2>3, <4>1, <4>2 DEF Retire, RetiredInv
    <2> QED
      BY <2>1, <2>2, <2>3, Zenon
         DEF Next, vars, Main, AddBackend, ResolveMac, StartupFails, FirstRebuild, StartThreads,
             JoinHealthChecker, Destroy, Rebuild, SnapshotRoutable, SnapshotEligible, Create,
             CreateFails, Install, PublishGeneration, SetHealth, SetAdminState, Datapath, GetActive,
             TableLookup, FindBackend, Detach, FreeDetached, StopDatapath, Terminated
  <1>3. RetiredInv => RetiredFits
    BY DEF RetiredInv, RetiredFits
  <1> QED
    BY <1>1, <1>2, <1>3, PTL DEF Spec

-----------------------------------------------------------------------------
(* The refinement of RoutingTable.                                         *)

(* What a step leaves the backend table asking for is a view again. *)
LEMMA WantedIsView ==
  ASSUME bmTypeOK'
  PROVE  Wanted' \in Routing!View
  <1>1. /\ snapshot_routable' \in SUBSET Nat
        /\ snapshot_eligible' \in SUBSET Nat
        /\ snapshot_eligible' \subseteq snapshot_routable'
    BY DEF bmTypeOK, Backend, snapshot_routable, snapshot_eligible
  <1> QED
    BY Zenon, <1>1 DEF Wanted, Routing!View

(* Two rebuilds are never in progress together. *)
LEMMA OneRebuild ==
  ASSUME Inv, NEW t \in Mutator, mut[t].pc # "idle"
  PROVE  \A u \in Mutator : u # t => mut[u].pc = "idle"
  BY DEF Inv, Phases, Mutator

LEMMA InstalledUnchanged ==
  ASSUME Inv, active' = active, \A a \in allocated : heap'[a] = heap[a]
  PROVE  Installed' = Installed
  BY HeldAllocated DEF Installed

LEMMA RebuildRefines ==
  ASSUME Inv, NEW t \in Mutator, Rebuild(t)
  PROVE  [Routing!Next]_(Routing!rtVars)
  <1> USE DEF Routing!rtVars
  <1>0. mut \in [Mutator -> RebuildState] /\ active \in Addr \cup {NULL}
    BY DEF Inv, TypeOK
  <1>1. CASE SnapshotRoutable(t) \/ SnapshotEligible(t) \/ PublishGeneration(t) \/ Retire(t)
    <2>1. Wanted' = Wanted
      BY <1>1, SnapshotsUnchanged
         DEF Wanted, SnapshotRoutable, SnapshotEligible, PublishGeneration, Retire
    <2>2. Installed' = Installed
      BY <1>1, InstalledUnchanged DEF SnapshotRoutable, SnapshotEligible, PublishGeneration,
         Retire
    <2>3. Pending' = Pending
      BY <1>0, <1>1 DEF SnapshotRoutable, SnapshotEligible, PublishGeneration, Retire, Pending,
         IdleMut, RebuildState
    <2> QED
      BY <2>1, <2>2, <2>3
  <1>2. CASE Create(t)
    <2>1. Wanted' = Wanted
      BY <1>2, SnapshotsUnchanged DEF Wanted, Create
    <2>2. Installed' = Installed
      BY <1>2, InstalledUnchanged DEF Create, Inv, TypeOK
    <2>3. Pending' = Pending
      BY <1>0, <1>2 DEF Create, Pending, RebuildState
    <2> QED
      BY <2>1, <2>2, <2>3
  <1>3. CASE CreateFails(t)
    <2>1. Wanted' = Wanted
      BY <1>3, SnapshotsUnchanged DEF Wanted, CreateFails
    <2>2. Installed' = Installed
      BY <1>3, InstalledUnchanged DEF CreateFails
    <2>3. (Pending = TRUE) /\ (Pending' = FALSE)
      BY <1>0, <1>3, OneRebuild DEF CreateFails, Pending, IdleMut
    <2> QED
      BY <2>1, <2>2, <2>3, Zenon DEF Routing!Next, Routing!GiveUp
  <1>4. CASE Install(t)
    <2>1. Wanted' = Wanted
      BY <1>4, SnapshotsUnchanged DEF Wanted, Install
    <2>2. Installed' = Wanted
      BY <1>4, <1>0, NullAssumption
         DEF Install, Installed, Wanted, Inv, RebuildIsCurrent, RebuildLocals, RebuildState
    <2>3. (Pending = TRUE) /\ (Pending' = FALSE)
      BY <1>0, <1>4, OneRebuild DEF Install, Pending
    <2> QED
      BY <2>1, <2>2, <2>3, Zenon DEF Routing!Next, Routing!Publish
  <1> QED
    BY <1>1, <1>2, <1>3, <1>4 DEF Rebuild

LEMMA MainRefines ==
  ASSUME Inv, Inv', Main
  PROVE  [Routing!Next]_(Routing!rtVars)
  <1> USE DEF Routing!rtVars
  <1>0. /\ mut \in [Mutator -> RebuildState]
        /\ Wanted' \in Routing!View
    BY WantedIsView DEF Inv, TypeOK
  <1>1. CASE AddBackend \/ ResolveMac
    <2>1. Installed = NULL /\ UNCHANGED Installed
      BY SMTT(60), <1>1 DEF AddBackend, ResolveMac, Installed, Inv, Phases
    <2>2. (Pending = FALSE) /\ (Pending' = FALSE)
      BY <1>1 DEF AddBackend, ResolveMac, Pending, Inv, Phases, Mutator
    <2> QED
      BY <1>0, <2>1, <2>2, ZenonT(60) DEF Routing!Next, Routing!Configure
  <1>2. CASE StartupFails \/ StartThreads \/ JoinHealthChecker
    <2>1. Wanted' = Wanted
      BY SMTT(60), <1>2, SnapshotsUnchanged DEF Wanted, StartupFails, StartThreads, JoinHealthChecker
    <2>2. UNCHANGED <<Installed, Pending>>
      BY <1>2 DEF StartupFails, StartThreads, JoinHealthChecker, Installed, Pending
    <2> QED
      BY SMTT(60), <2>1, <2>2
  <1>3. CASE FirstRebuild
    <2>1. UNCHANGED Installed
      BY <1>3 DEF FirstRebuild, Installed
    <2>2. ~Pending /\ Pending'
      BY <1>0, <1>3 DEF FirstRebuild, StartRebuild, Pending, Inv, Phases, Mutator
    <2> QED
      BY ZenonT(60), <1>0, <2>1, <2>2 DEF Routing!Next, Routing!Change
  <1>4. CASE Destroy
    <2>1. Wanted' = Wanted
      BY <1>4, SnapshotsUnchanged DEF Wanted, Destroy
    <2>2. Installed' = NULL
      BY SMTT(60), <1>4 DEF Destroy, Installed
    <2>3. (Pending = FALSE) /\ (Pending' = FALSE)
      BY <1>4 DEF Destroy, Pending, Inv, Phases, Mutator
    <2> QED
      BY <2>1, <2>2, <2>3, Zenon DEF Routing!Next, Routing!Close
  <1> QED
    BY <1>1, <1>2, <1>3, <1>4 DEF Main

LEMMA HcRefines ==
  ASSUME Inv, Inv', NEW id,
         \/ \E healthy \in BOOLEAN : SetHealth(id, healthy)
         \/ \E state \in AdminState : SetAdminState(id, state)
  PROVE  [Routing!Next]_(Routing!rtVars)
  <1>1. mut \in [Mutator -> RebuildState] /\ Wanted' \in Routing!View
    BY SMTT(60), WantedIsView DEF Inv, TypeOK
  <1>2. UNCHANGED Installed
    BY SMTT(60) DEF SetHealth, SetAdminState, Installed
  <1>3. ~Pending
    BY DEF SetHealth, SetAdminState, HcBetweenChanges, Pending, Inv, Phases, Mutator
  <1>4. Pending'
    <2>1. cb /\ notify("hc")
      BY DEF SetHealth, SetAdminState, HcBetweenChanges, Inv, Phases
    <2> QED
      BY <1>1, <2>1, SMTT(60) DEF notify, StartRebuild, Pending, Mutator, RebuildState
  <1> QED
    BY <1>1, <1>2, <1>3, <1>4, Zenon DEF Routing!Next, Routing!Change, Routing!rtVars

LEMMA DatapathRefines ==
  ASSUME Inv, Datapath
  PROVE  UNCHANGED Routing!rtVars
  <1>1. UNCHANGED <<slot_used, backends, mut, active>>
    BY Zenon DEF Datapath, GetActive, TableLookup, FindBackend, Detach, FreeDetached,
       StopDatapath
  <1>2. Installed' = Installed
    <2>1. CASE FreeDetached
      BY <2>1 DEF FreeDetached, Freed, Installed, Inv, TypeOK, OwnedOnce, Holder, Holds
    <2> QED
      BY <2>1, ZenonT(60) DEF Datapath, GetActive, TableLookup, FindBackend, Detach,
         StopDatapath, Installed
  <1> QED
    BY <1>1, <1>2, SnapshotsUnchanged DEF Wanted, Pending, Routing!rtVars

(* The rebuild in small steps, with its two reads of the backend table and *)
(* its swap, implements the atomic installation of RoutingTable.           *)
THEOREM Refinement == Spec => ImplementsRoutingTable
  <1>1. Init => Routing!Init
    <2> SUFFICES ASSUME Init PROVE Routing!Init
      OBVIOUS
    <2>1. snapshot_routable = {} /\ snapshot_eligible = {}
      BY DEF Init, bmInit, snapshot_routable, snapshot_eligible
    <2>2. Installed = NULL
      BY DEF Init, Installed
    <2>3. Pending = FALSE
      BY DEF Init, IdleMut, Pending
    <2> QED
      BY <2>1, <2>2, <2>3, Zenon DEF Routing!Init, Wanted
  <1>2. Inv /\ Inv' /\ [Next]_vars => [Routing!Next]_(Routing!rtVars)
    <2> SUFFICES ASSUME Inv, Inv', [Next]_vars PROVE [Routing!Next]_(Routing!rtVars)
      OBVIOUS
    <2>1. CASE UNCHANGED vars
      BY <2>1, SnapshotsUnchanged DEF vars, Wanted, Installed, Pending, Routing!rtVars
    <2> QED
      BY <2>1, MainRefines, RebuildRefines, HcRefines, DatapathRefines DEF Next, Terminated,
         AdminState
  <1> QED
    BY <1>1, <1>2, Invariance, PTL DEF Spec, ImplementsRoutingTable, Routing!Spec
=============================================================================
