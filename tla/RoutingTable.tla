---------------------------- MODULE RoutingTable ----------------------------
(***************************************************************************)
(* What the control plane promises the datapath, with no memory, threads   *)
(* or locks in sight: there is one installed view of the backends.  While  *)
(* traffic flows it is replaced only by the view of the backend table at   *)
(* that moment, each change of the table is followed by one attempt to     *)
(* install it before the next change, and an attempt fails only by leaving *)
(* the installed view as it was.                                           *)
(***************************************************************************)
EXTENDS Naturals

CONSTANT NoView     \* nothing is installed

VARIABLES
  want,         \* the view the backend table asks for now
  installed,    \* the view packets are forwarded with
  pending       \* a change is being installed

rtVars == <<want, installed, pending>>

(* Backends for pinned flows, and among them those open to new flows. *)
View == {v \in [routable : SUBSET Nat, eligible : SUBSET Nat] : v.eligible \subseteq v.routable}

Init ==
  /\ want = [routable |-> {}, eligible |-> {}]
  /\ installed = NoView
  /\ pending = FALSE

(* Before anything is installed the table is filled in silence. *)
Configure ==
  /\ installed = NoView /\ ~pending
  /\ want' \in View
  /\ UNCHANGED <<installed, pending>>

Change ==
  /\ ~pending
  /\ want' \in View
  /\ pending' = TRUE
  /\ UNCHANGED installed

Publish ==
  /\ pending
  /\ installed' = want
  /\ pending' = FALSE
  /\ UNCHANGED want

GiveUp ==
  /\ pending
  /\ pending' = FALSE
  /\ UNCHANGED <<want, installed>>

Close ==
  /\ ~pending
  /\ installed' = NoView
  /\ UNCHANGED <<want, pending>>

Next == Configure \/ Change \/ Publish \/ GiveUp \/ Close

Spec == Init /\ [][Next]_rtVars
=============================================================================
