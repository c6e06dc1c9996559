-------------------------------- MODULE Gate --------------------------------
(***************************************************************************)
(* What management.WorkerLifecycle promises to the scheduler: an admission *)
(* gate.  A request to the backend is made under a reservation; the        *)
(* reservation is given back or becomes a job, and a job is ended after    *)
(* its settlement.  Reservations are granted in the active state only, and *)
(* the terminating state is final.  management/lifecycle.go implements it  *)
(* (module Lifecycle); queue.go is written against it (module Queue).      *)
(***************************************************************************)
EXTENDS Naturals

VARIABLES state,      \* the desired state in force
          admissions, \* reservations held
          jobs        \* jobs not yet ended

gateVars == <<state, admissions, jobs>>

DesiredStates == {"active", "paused", "draining", "terminating"}

GateTypeOK ==
  /\ state \in DesiredStates
  /\ admissions \in Nat
  /\ jobs \in Nat

GateInit == state = "active" /\ admissions = 0 /\ jobs = 0

(* Mutant: the state is not checked. *)
BeginAdmissionAlways ==
  /\ admissions' = admissions + 1
  /\ UNCHANGED <<state, jobs>>

BeginAdmission ==
  /\ state = "active"
  /\ admissions' = admissions + 1
  /\ UNCHANGED <<state, jobs>>

(* Mutant: the counter is not checked. *)
EndAdmissionUnchecked ==
  /\ admissions' = admissions - 1
  /\ UNCHANGED <<state, jobs>>

EndAdmission ==
  /\ admissions > 0
  /\ admissions' = admissions - 1
  /\ UNCHANGED <<state, jobs>>

PromoteAdmissionToJob ==
  /\ admissions > 0
  /\ admissions' = admissions - 1
  /\ jobs' = jobs + 1
  /\ UNCHANGED state

EndJob ==
  /\ jobs > 0
  /\ jobs' = jobs - 1
  /\ UNCHANGED <<state, admissions>>

(* The first half of a transition; it waits for Complete afterwards. *)
SetState(s) ==
  /\ state = "terminating" => s = "terminating"
  /\ state' = s
  /\ UNCHANGED <<admissions, jobs>>

(* Mutant: a pause does not wait for the requests in flight. *)
CompleteAtOnce(s) ==
  CASE s \in {"active", "paused"} -> TRUE
    [] OTHER -> admissions = 0 /\ jobs = 0

(* The safe boundary a transition to state s waits for *)
Complete(s) ==
  CASE s = "active" -> TRUE
    [] s = "paused" -> admissions = 0
    [] OTHER        -> admissions = 0 /\ jobs = 0

GateNext ==
  \/ BeginAdmission
  \/ EndAdmission
  \/ PromoteAdmissionToJob
  \/ EndJob
  \/ \E s \in DesiredStates : SetState(s)

GateSpec == GateInit /\ [][GateNext]_gateVars
=============================================================================
