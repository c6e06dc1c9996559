---------------------------- MODULE QueueProofs -----------------------------
(***************************************************************************)
(* Proofs about the submissions of module Queue, for any finite set of     *)
(* tasks and any callers, managers and worker.                             *)
(***************************************************************************)
EXTENDS Queue, FiniteSetTheorems, TLAPS

(* The submissions between beginAdmission and endAdmission *)
InFlight == {t \in Tasks : sub[t] \in {"begun", "stored"}}

(* The counter counts them; the drain flag, the channel and the body of    *)
(* drainOnce go together; a closed channel means that none is left.        *)
AdmInv ==
  /\ sub \in [Tasks -> SubStates]
  /\ admissions = Cardinality(InFlight)
  /\ closer = "none" => ~drainFlag
  /\ ~drainFlag => admissionsDone = "nil"
  /\ admissionsDone \in {"nil", "open", "closed"}
  /\ admissionsDone = "closed" => InFlight = {}
  /\ admissionsDone # "nil" => drainFlag

(* There are finitely many tasks. *)
LEMMA InFlightFinite == IsFiniteSet(InFlight)
<1>1. InFlight \subseteq Tasks
  BY DEF InFlight
<1>. QED BY <1>1, FS_Subset, QueueAssumption

(* NewQueue *)
LEMMA InitAdmInv == Init => AdmInv
<1> SUFFICES ASSUME Init PROVE AdmInv
  OBVIOUS
<1>1. InFlight = {}
  BY DEF Init, InFlight
<1>2. Cardinality(InFlight) = 0
  BY <1>1, FS_EmptySet
<1>. QED BY <1>1, <1>2 DEF Init, AdmInv, SubStates

(* Steps that touch neither the submissions nor the close *)
LEMMA FrameAdmInv ==
  ASSUME AdmInv, UNCHANGED <<drainFlag, admVars, sub>>,
         closer' = closer \/ closer' # "none"
  PROVE  AdmInv'
BY DEF AdmInv, admVars, InFlight

(* The three steps of a submission *)
LEMMA BeginSubmitAdmInv ==
  ASSUME AdmInv, NEW t \in Tasks, BeginSubmit(t)
  PROVE  AdmInv'
<1> USE DEF BeginSubmit, flagVars, apiVars
<1>1. sub' \in [Tasks -> SubStates]
  BY DEF AdmInv, SubStates
<1>2. CASE SubmissionOpen
  <2>1. InFlight' = InFlight \cup {t} /\ t \notin InFlight
    BY <1>2 DEF AdmInv, InFlight
  <2>2. Cardinality(InFlight') = Cardinality(InFlight) + 1
    BY <2>1, InFlightFinite, FS_AddElement
  <2>. QED BY <1>1, <1>2, <2>2 DEF AdmInv, SubmissionOpen
<1>3. CASE ~SubmissionOpen
  <2>1. InFlight' = InFlight
    BY <1>3 DEF AdmInv, InFlight
  <2>. QED BY <1>1, <1>3, <2>1 DEF AdmInv
<1>. QED BY <1>2, <1>3

LEMMA PublishAdmInv ==
  ASSUME AdmInv, NEW t \in Tasks, Publish(t)
  PROVE  AdmInv'
<1> USE DEF Publish, flagVars, admVars, apiVars
<1>1. sub' \in [Tasks -> SubStates]
  BY DEF AdmInv, SubStates
<1>2. InFlight' = InFlight
  BY DEF AdmInv, InFlight
<1>. QED BY <1>1, <1>2 DEF AdmInv

LEMMA EndSubmitAdmInv ==
  ASSUME AdmInv, NEW t \in Tasks, EndSubmit(t)
  PROVE  AdmInv'
<1> USE DEF EndSubmit, flagVars, apiVars
<1>1. sub' \in [Tasks -> SubStates]
  BY DEF AdmInv, SubStates
<1>2. InFlight' = InFlight \ {t} /\ t \in InFlight
  BY DEF AdmInv, InFlight
<1>3. Cardinality(InFlight') = Cardinality(InFlight) - 1
  BY <1>2, InFlightFinite, FS_RemoveElement
<1>4. Cardinality(InFlight) \in Nat /\ IsFiniteSet(InFlight')
  BY <1>2, InFlightFinite, FS_CardinalityType, FS_RemoveElement
<1>5. admissions = 1 => InFlight' = {}
  BY <1>3, <1>4, FS_EmptySet DEF AdmInv
<1>6. admissionsDone # "closed"
  BY <1>2 DEF AdmInv
<1>. QED BY <1>1, <1>3, <1>5, <1>6 DEF AdmInv

(* The first critical section of CloseAdmission *)
LEMMA CloseFlagAdmInv ==
  ASSUME AdmInv, CloseFlag
  PROVE  AdmInv'
<1> USE DEF CloseFlag, closeUnchanged
<1>1. InFlight' = InFlight /\ sub' = sub
  BY DEF InFlight
<1>2. admissions = 0 => InFlight = {}
  BY InFlightFinite, FS_EmptySet DEF AdmInv
<1>. QED BY <1>1, <1>2 DEF AdmInv, DoneAtClose

(* Every step preserves it. *)
LEMMA NextAdmInv == AdmInv /\ [Next]_vars => AdmInv'
<1> SUFFICES ASSUME AdmInv, [Next]_vars PROVE AdmInv'
  OBVIOUS
<1> USE DEF flagVars, admVars, apiVars
<1>1. CASE UNCHANGED vars
  BY <1>1, FrameAdmInv DEF vars
<1>2. ASSUME NEW t \in Tasks, BeginSubmit(t) \/ Submitter(t) PROVE AdmInv'
  BY <1>2, BeginSubmitAdmInv, PublishAdmInv, EndSubmitAdmInv DEF Submitter
<1>3. CASE Close
  <2>1. CASE CloseFlag
    BY <2>1, CloseFlagAdmInv
  <2>2. CASE CloseWithdraw \/ CloseSignal \/ CloseRelease
    BY <2>2, FrameAdmInv
       DEF CloseWithdraw, CloseSignal, CloseRelease, closeUnchanged
  <2>. QED BY <1>3, <2>1, <2>2 DEF Close
<1>4. ASSUME NEW n \in Updates, UpdateWorkerCount(n) PROVE AdmInv'
  BY <1>4, FrameAdmInv DEF UpdateWorkerCount
<1>5. ASSUME NEW a \in Agents, ScheduleCheck(a) \/ ScheduleReserve(a)
      PROVE  AdmInv'
  BY <1>5, FrameAdmInv DEF ScheduleCheck, ScheduleReserve
<1>6. CASE Scheduler
  BY <1>6, FrameAdmInv
     DEF Scheduler, SchedTakeReady, SchedStop, SchedCheckToken, SchedReceive,
         schedUnchanged
<1>7. CASE Requester
  BY <1>7, FrameAdmInv
     DEF Requester, ReqTakes, ReqNothing, ReqDeliver, ReqCheckDrain, ReqWake,
         ReqAgain, reqUnchanged
<1>8. ASSUME NEW t \in Tasks, Work(t) PROVE AdmInv'
  BY <1>8, FrameAdmInv
     DEF Work, HandlerSettles, HandlerPanics, Finish, EndWork, workUnchanged
<1>9. CASE Shut
  BY <1>9, FrameAdmInv
     DEF Shut, ShutFlag, ShutWorker, ShutSignal, ShutQuit, shutUnchanged
<1>10. ASSUME NEW c \in Callers,
              Caller(c) \/ Expire(c) \/ \E o \in Ops : Call(c, o)
       PROVE  AdmInv'
  BY <1>10, FrameAdmInv
     DEF Caller, StartCheck, StartOnce, CloseReturns, DrainWaits, ShutReturns,
         Returns, Expire, Call, Goto, Return, callUnchanged
<1>11. ASSUME NEW m \in Managers,
              \/ Manager(m) \/ MgrTimeout(m) \/ MgrRepeat(m)
              \/ \E s \in Wanted : MgrApply(m, s)
       PROVE  AdmInv'
  BY <1>11, FrameAdmInv
     DEF Manager, MgrComplete, MgrAfter, MgrShutReturns, MgrTimeout, MgrRepeat,
         MgrApply, Follow, mgrUnchanged
<1>. QED
  BY <1>1, <1>2, <1>3, <1>4, <1>5, <1>6, <1>7, <1>8, <1>9, <1>10, <1>11
     DEF Next, Environment

(* The inductive invariant *)
LEMMA QueueAdmInv == Spec => []AdmInv
BY InitAdmInv, NextAdmInv, PTL DEF Spec

-----------------------------------------------------------------------------
(* endAdmission and CloseAdmission never close admissionsDone twice, and   *)
(* when it is closed no accepted submission is still publishing.           *)
THEOREM QueueAdmissions == Spec => [](AdmissionsDoneOnce /\ PublishesDone)
<1>1. AdmInv => AdmissionsDoneOnce /\ PublishesDone
  BY DEF AdmInv, AdmissionsDoneOnce, PublishesDone, InFlight
<1>. QED BY <1>1, QueueAdmInv, PTL
=============================================================================
