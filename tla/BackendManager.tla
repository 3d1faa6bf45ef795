--------------------------- MODULE BackendManager ---------------------------
(***************************************************************************)
(* The backend table of src/backend/backend_manager.c: BACKEND_MAX slots   *)
(* guarded by one mutex, so that every operation below is one atomic       *)
(* change of the table.  The call of the subscriber that follows a change  *)
(* happens after the mutex is released; it is a separate step, taken by    *)
(* the modules that use this one.                                          *)
(*                                                                         *)
(* A backend's address, port and MAC are opaque to every property, so a    *)
(* backend is its id and the three fields the snapshot functions read.     *)
(* backend_manager_remove has no caller in the program and is left out.    *)
(***************************************************************************)
EXTENDS Integers, FiniteSets

CONSTANT BACKEND_MAX    \* number of slots (64 in backend_manager.h)

ASSUME BackendMaxAssumption == BACKEND_MAX \in Nat \ {0}

VARIABLES
  slot_used,    \* the slots in use
  backends,     \* the contents of every slot, stale for an unused one
  next_id,      \* id the next added backend gets
  cb            \* TRUE once a subscriber is registered

bmVars == <<slot_used, backends, next_id, cb>>

Slot == 1 .. BACKEND_MAX

AdminState == {"ENABLED", "DRAINING", "DISABLED"}

Backend == [id : Nat, admin_state : AdminState,
            healthy : BOOLEAN, mac_resolved : BOOLEAN]

(* The zeroed slot of calloc. *)
ZeroBackend == [id |-> 0, admin_state |-> "ENABLED",
                healthy |-> FALSE, mac_resolved |-> FALSE]

bmTypeOK ==
  /\ slot_used \subseteq Slot
  /\ backends \in [Slot -> Backend]
  /\ next_id \in Nat
  /\ cb \in BOOLEAN

bmInit ==
  /\ slot_used = {}
  /\ backends = [i \in Slot |-> ZeroBackend]
  /\ next_id = 0
  /\ cb = FALSE

-----------------------------------------------------------------------------
(* The first slot in use that holds id. *)
Holders(id) == {i \in slot_used : backends[i].id = id}

find_slot(id) == CHOOSE i \in Holders(id) : \A j \in Holders(id) : i <= j

(* Takes the first unused slot and the next id. *)
add ==
  \E i \in Slot \ slot_used :
    /\ \A j \in Slot \ slot_used : i <= j
    /\ slot_used' = slot_used \cup {i}
    /\ backends' = [backends EXCEPT ![i] =
                      [id |-> next_id, admin_state |-> "ENABLED",
                       healthy |-> TRUE, mac_resolved |-> FALSE]]
    /\ next_id' = next_id + 1
    /\ UNCHANGED cb

(* The setters that report a change.  A call that finds no such backend, or *)
(* the value already set, changes nothing and notifies nobody.              *)
set_health(id, healthy) ==
  /\ Holders(id) # {}
  /\ backends[find_slot(id)].healthy # healthy
  /\ backends' = [backends EXCEPT ![find_slot(id)].healthy = healthy]
  /\ UNCHANGED <<slot_used, next_id, cb>>

set_admin_state(id, state) ==
  /\ Holders(id) # {}
  /\ backends[find_slot(id)].admin_state # state
  /\ backends' = [backends EXCEPT ![find_slot(id)].admin_state = state]
  /\ UNCHANGED <<slot_used, next_id, cb>>

(* Notifies even when the MAC was already known. *)
set_mac(id) ==
  /\ Holders(id) # {}
  /\ backends' = [backends EXCEPT ![find_slot(id)].mac_resolved = TRUE]
  /\ UNCHANGED <<slot_used, next_id, cb>>

subscribe ==
  /\ cb' = TRUE
  /\ UNCHANGED <<slot_used, backends, next_id>>

-----------------------------------------------------------------------------
(* Mutant: eligible whatever the health. *)
snapshot_eligible_any_health ==
  {backends[i].id : i \in {j \in slot_used :
                             /\ backends[j].admin_state = "ENABLED"
                             /\ backends[j].mac_resolved}}

(* Ids a new flow may be given. *)
snapshot_eligible ==
  {backends[i].id : i \in {j \in slot_used :
                             /\ backends[j].admin_state = "ENABLED"
                             /\ backends[j].healthy
                             /\ backends[j].mac_resolved}}

(* Ids a pinned flow may still be sent to. *)
snapshot_routable ==
  {backends[i].id : i \in {j \in slot_used :
                             /\ backends[j].admin_state # "DISABLED"
                             /\ backends[j].healthy
                             /\ backends[j].mac_resolved}}
=============================================================================
