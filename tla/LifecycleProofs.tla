-------------------------- MODULE LifecycleProofs ---------------------------
(***************************************************************************)
(* Proofs about module Lifecycle, for any set of callers, commands and     *)
(* revisions and any capacity.                                             *)
(***************************************************************************)
EXTENDS Lifecycle, TLAPS

(* A caller's stage determines what kind of call it has in hand. *)
CallOK ==
  \A c \in Callers :
    /\ pc[c] \in {"duplicate", "new", "publish"} => call[c] \in Commands
    /\ pc[c] \in {"lock", "check", "wait"} =>
         \/ call[c] \in Commands /\ call[c].action # "other"
         \/ call[c] \in Desired

(* Only a command that was executed has a result. *)
EntriesOK == \A k \in Keys : commands[k].command = NoCall => commands[k].result = "none"

(* applyMu is held by the caller that is in a transition. *)
Serial ==
  /\ WaitsForStateInForce
  /\ applyMu # Free => pc[applyMu] \in {"check", "wait"}

(* The revision being applied is still newer than the recorded one. *)
Fresh ==
  \A c \in Callers :
    pc[c] \in {"check", "wait"} /\ call[c] \in Desired =>
      ~Older(call[c]) /\ ~Equal(call[c])

Quiet == state = "terminating" /\ admissions = 0 /\ jobs = 0

(* TerminatedIsQuiet, also for a result that is still to be published *)
QuietOK ==
  /\ TerminatedIsQuiet
  /\ \A c \in Callers :
       /\ pc[c] = "publish" /\ res[c] = "acknowledged"
       /\ call[c].action = "terminate"
       => Quiet

IInv ==
  TypeOK /\ CallOK /\ EntriesOK /\ Serial /\ Fresh /\ NoLostWakeup /\ QuietOK

(* A call in a transition wants one of the four states. *)
LEMMA WantedIs ==
  ASSUME TypeOK, CallOK, NEW c \in Callers, pc[c] \in {"lock", "check", "wait"}
  PROVE  Wanted(c) \in {"active", "paused", "draining", "terminating"}
BY LifecycleAssumption
   DEF TypeOK, CallOK, Wanted, Executing, CommandState

(* NewWorkerLifecycle *)
LEMMA InitIInv == Init => IInv
<1> SUFFICES ASSUME Init PROVE IInv
  OBVIOUS
<1> USE DEF Init
<1>1. TypeOK
  <2>1. G!GateTypeOK
    BY DEF G!GateInit, G!GateTypeOK, G!DesiredStates
  <2>2. drainTimedOut \in BOOLEAN /\ woken \in BOOLEAN
    OBVIOUS
  <2>3. /\ records \in [Kinds -> Desired \cup {NoCall}]
        /\ applyMu \in Callers \cup {Free}
        /\ pc \in [Callers -> {"idle", "duplicate", "new", "lock", "check",
                               "wait", "publish"}]
        /\ call \in [Callers -> Commands \cup Desired \cup {NoCall}]
        /\ res \in [Callers -> Results]
    BY DEF Results
  <2>4. commands \in [Keys -> Entries]
    BY DEF Entries, Results
  <2>. QED BY <2>1, <2>2, <2>3, <2>4 DEF TypeOK
<1>2. CallOK /\ EntriesOK /\ Serial /\ Fresh /\ NoLostWakeup
  BY DEF CallOK, EntriesOK, Serial, WaitsForStateInForce, Fresh, NoLostWakeup
<1>3. QuietOK
  BY DEF QuietOK, TerminatedIsQuiet
<1>. QED BY <1>1, <1>2, <1>3 DEF IInv

(* The scheduler's operations *)
LEMMA GateStepInv ==
  IInv /\ (BeginAdmission \/ EndAdmission \/ PromoteAdmissionToJob \/ EndJob)
    => IInv'
<1> SUFFICES ASSUME IInv,
                    BeginAdmission \/ EndAdmission \/ PromoteAdmissionToJob \/ EndJob
             PROVE  IInv'
  OBVIOUS
<1> USE DEF IInv, BeginAdmission, EndAdmission, PromoteAdmissionToJob, EndJob,
            G!BeginAdmission, G!EndAdmission, G!PromoteAdmissionToJob, G!EndJob,
            othersUnchanged, callVars, Notify
<1>1. TypeOK'
  <2>1. G!GateTypeOK'
    BY DEF TypeOK, G!GateTypeOK
  <2>2. woken' \in BOOLEAN /\ drainTimedOut' \in BOOLEAN
    BY DEF TypeOK
  <2>. QED BY <2>1, <2>2 DEF TypeOK
<1>2. CallOK' /\ EntriesOK'
  BY DEF CallOK, EntriesOK
<1>3. Serial'
  BY DEF Serial, WaitsForStateInForce, Wanted, Executing
<1>4. Fresh'
  BY DEF Fresh, Older, Equal
<1>5. NoLostWakeup'
  BY DEF NoLostWakeup
<1>6. QuietOK'
  BY DEF QuietOK, Quiet, TerminatedIsQuiet
<1>. QED BY <1>1, <1>2, <1>3, <1>4, <1>5, <1>6

(* Execute registers, joins or refuses a command. *)
LEMMA ExecuteInv ==
  ASSUME IInv, NEW c \in Callers, NEW m \in Commands, Execute(c, m)
  PROVE  IInv'
<1> USE DEF IInv, Execute, Start, Known, Same, gateVars
<1>0. /\ \A k \in Keys : commands'[k].result = commands[k].result
      /\ \A k \in Keys : \/ commands'[k].command = commands[k].command
                         \/ /\ commands[k].command = NoCall
                            /\ commands'[k].command = m
  <2>1. CASE UNCHANGED commands
    BY <2>1
  <2>2. CASE ~Known(m) /\ commands' = [commands EXCEPT ![m.key] =
                                        [command |-> m, result |-> "none"]]
    BY <2>2, LifecycleAssumption DEF TypeOK, EntriesOK
  <2>. QED BY <2>1, <2>2
<1>1. TypeOK'
  <2>1. G!GateTypeOK' /\ drainTimedOut' \in BOOLEAN /\ woken' \in BOOLEAN
    BY DEF TypeOK, G!GateTypeOK
  <2>. QED BY <2>1, LifecycleAssumption DEF TypeOK, Entries, Results
<1>2. CallOK' /\ EntriesOK'
  <2>1. CallOK'
    BY LifecycleAssumption DEF TypeOK, CallOK
  <2>2. EntriesOK'
    BY <1>0, LifecycleAssumption DEF EntriesOK
  <2>. QED BY <2>1, <2>2
<1>3. Serial'
  BY DEF TypeOK, CallOK, Serial, WaitsForStateInForce, Wanted, Executing
<1>4. Fresh'
  BY DEF TypeOK, CallOK, Fresh, Older, Equal
<1>5. NoLostWakeup'
  BY DEF TypeOK, NoLostWakeup, Wanted, Executing, G!Complete
<1>6. QuietOK'
  <2>1. TerminatedIsQuiet'
    BY <1>0 DEF EntriesOK, QuietOK, TerminatedIsQuiet
  <2>2. \A d \in Callers :
          pc'[d] = "publish" =>
            pc[d] = "publish" /\ res'[d] = res[d] /\ call'[d] = call[d]
    BY DEF TypeOK
  <2>. QED BY <2>1, <2>2 DEF QuietOK, Quiet
<1>. QED BY <1>1, <1>2, <1>3, <1>4, <1>5, <1>6

(* A duplicate returns. *)
LEMMA DuplicateInv ==
  ASSUME IInv, NEW c \in Callers, Duplicate(c) \/ DuplicateGivesUp(c)
  PROVE  IInv'
<1> USE DEF IInv, Duplicate, DuplicateGivesUp, Result, gateVars
<1>1. TypeOK'
  <2>1. G!GateTypeOK' /\ drainTimedOut' \in BOOLEAN /\ woken' \in BOOLEAN
    BY DEF TypeOK, G!GateTypeOK
  <2>2. res' \in [Callers -> Results]
    BY LifecycleAssumption DEF TypeOK, CallOK, Entries, Results
  <2>. QED BY <2>1, <2>2 DEF TypeOK
<1>2. CallOK' /\ EntriesOK'
  BY LifecycleAssumption DEF TypeOK, CallOK, EntriesOK
<1>3. Serial'
  BY DEF TypeOK, CallOK, Serial, WaitsForStateInForce, Wanted, Executing
<1>4. Fresh'
  BY DEF TypeOK, CallOK, Fresh, Older, Equal
<1>5. NoLostWakeup'
  BY DEF TypeOK, NoLostWakeup, Wanted, Executing, G!Complete
<1>6. QuietOK'
  BY LifecycleAssumption DEF TypeOK, CallOK, EntriesOK, QuietOK, Quiet, TerminatedIsQuiet
<1>. QED BY <1>1, <1>2, <1>3, <1>4, <1>5, <1>6

(* The checks of executeNew *)
LEMMA ExecuteNewInv ==
  ASSUME IInv, NEW c \in Callers, ExecuteNew(c)
  PROVE  IInv'
<1> USE DEF IInv, ExecuteNew, Result, Step, gateVars
<1>1. TypeOK'
  <2>1. G!GateTypeOK' /\ drainTimedOut' \in BOOLEAN /\ woken' \in BOOLEAN
    BY DEF TypeOK, G!GateTypeOK
  <2>. QED BY <2>1, LifecycleAssumption DEF TypeOK, Entries, Results
<1>2. CallOK' /\ EntriesOK'
  BY LifecycleAssumption DEF TypeOK, CallOK, EntriesOK
<1>3. Serial'
  BY DEF TypeOK, CallOK, Serial, WaitsForStateInForce, Wanted, Executing
<1>4. Fresh'
  BY DEF TypeOK, CallOK, Fresh, Older, Equal
<1>5. NoLostWakeup'
  BY DEF TypeOK, NoLostWakeup, Wanted, Executing, G!Complete
<1>6. QuietOK'
  BY LifecycleAssumption DEF TypeOK, CallOK, EntriesOK, QuietOK, Quiet, TerminatedIsQuiet
<1>. QED BY <1>1, <1>2, <1>3, <1>4, <1>5, <1>6

(* A result is published. *)
LEMMA PublishInv ==
  ASSUME IInv, NEW c \in Callers, Publish(c)
  PROVE  IInv'
<1> USE DEF IInv, Publish, Kept, Step, gateVars
<1>1. TypeOK'
  <2>1. G!GateTypeOK' /\ drainTimedOut' \in BOOLEAN /\ woken' \in BOOLEAN
    BY DEF TypeOK, G!GateTypeOK
  <2>2. commands' \in [Keys -> Entries]
    BY LifecycleAssumption DEF TypeOK, CallOK, Entries
  <2>. QED BY <2>1, <2>2 DEF TypeOK
<1>2. CallOK' /\ EntriesOK'
  BY LifecycleAssumption DEF TypeOK, CallOK, EntriesOK
<1>3. Serial'
  BY DEF TypeOK, CallOK, Serial, WaitsForStateInForce, Wanted, Executing
<1>4. Fresh'
  BY DEF TypeOK, CallOK, Fresh, Older, Equal
<1>5. NoLostWakeup'
  BY DEF TypeOK, NoLostWakeup, Wanted, Executing, G!Complete
<1>6. QuietOK'
  BY LifecycleAssumption DEF TypeOK, CallOK, EntriesOK, QuietOK, Quiet, TerminatedIsQuiet
<1>. QED BY <1>1, <1>2, <1>3, <1>4, <1>5, <1>6

(* ApplyDesiredState begins. *)
LEMMA ApplyInv ==
  ASSUME IInv, NEW c \in Callers, NEW r \in Desired, ApplyDesiredState(c, r)
  PROVE  IInv'
<1> USE DEF IInv, ApplyDesiredState, Start, gateVars
<1>1. TypeOK'
  <2>1. G!GateTypeOK' /\ drainTimedOut' \in BOOLEAN /\ woken' \in BOOLEAN
    BY DEF TypeOK, G!GateTypeOK
  <2>. QED BY <2>1, LifecycleAssumption DEF TypeOK, Entries, Results
<1>2. CallOK' /\ EntriesOK'
  BY LifecycleAssumption DEF TypeOK, CallOK, EntriesOK
<1>3. Serial'
  BY DEF TypeOK, CallOK, Serial, WaitsForStateInForce, Wanted, Executing
<1>4. Fresh'
  BY DEF TypeOK, CallOK, Fresh, Older, Equal
<1>5. NoLostWakeup'
  BY DEF TypeOK, NoLostWakeup, Wanted, Executing, G!Complete
<1>6. QuietOK'
  BY LifecycleAssumption DEF TypeOK, CallOK, EntriesOK, QuietOK, Quiet, TerminatedIsQuiet
<1>. QED BY <1>1, <1>2, <1>3, <1>4, <1>5, <1>6

(* A call that makes no transition changes nothing but its own stage. *)
LEMMA RefusedInv ==
  ASSUME IInv, NEW c \in Callers, NEW r \in Results,
         pc[c] = "lock", r # "acknowledged", End(c, r),
         UNCHANGED <<gateVars, drainTimedOut, woken, applyMu, records, commands>>
  PROVE  IInv'
<1> USE DEF IInv, End, Result, gateVars
<1>1. TypeOK'
  <2>1. G!GateTypeOK' /\ drainTimedOut' \in BOOLEAN /\ woken' \in BOOLEAN
    BY DEF TypeOK, G!GateTypeOK
  <2>. QED BY <2>1, LifecycleAssumption DEF TypeOK
<1>2. CallOK' /\ EntriesOK'
  BY LifecycleAssumption DEF TypeOK, CallOK, EntriesOK, Executing
<1>3. Serial'
  BY DEF TypeOK, CallOK, Serial, WaitsForStateInForce, Wanted, Executing
<1>4. Fresh'
  BY DEF TypeOK, CallOK, Fresh, Older, Equal
<1>5. NoLostWakeup'
  BY DEF TypeOK, NoLostWakeup, Wanted, Executing, G!Complete
<1>6. QuietOK'
  BY LifecycleAssumption DEF TypeOK, CallOK, EntriesOK, QuietOK, Quiet, TerminatedIsQuiet
<1>. QED BY <1>1, <1>2, <1>3, <1>4, <1>5, <1>6

(* A revision that is refused is refused with an error of ApplyDesiredState. *)
LEMMA VerdictIs ==
  ASSUME NEW r PROVE Verdict(r) \in Results \ {"acknowledged"}
BY DEF Verdict, Results

(* A transition begins. *)
LEMMA BeginsInv ==
  ASSUME IInv, NEW c \in Callers,
         pc[c] = "lock", applyMu = Free, ~Reverses(Wanted(c)),
         call[c] \in Desired => Verdict(call[c]) = "none",
         state' = Wanted(c), drainTimedOut' = FALSE, woken' = TRUE,
         applyMu' = c, Step(c, "check"),
         UNCHANGED <<admissions, jobs, records, commands>>
  PROVE  IInv'
<1> USE DEF IInv, Step, gateVars
<1>1. TypeOK'
  <2>1. G!GateTypeOK'
    BY WantedIs DEF TypeOK, G!GateTypeOK, G!DesiredStates
  <2>2. drainTimedOut' \in BOOLEAN /\ woken' \in BOOLEAN
    OBVIOUS
  <2>. QED BY <2>1, <2>2 DEF TypeOK
<1>2. CallOK' /\ EntriesOK'
  BY LifecycleAssumption DEF TypeOK, CallOK, EntriesOK
<1>3. Serial'
  <2>1. WaitsForStateInForce'
    BY LifecycleAssumption
       DEF TypeOK, Serial, WaitsForStateInForce, Wanted, Executing
  <2>. QED BY <2>1 DEF TypeOK, Serial
<1>4. Fresh'
  BY DEF TypeOK, CallOK, Fresh, Older, Equal, Verdict
<1>5. NoLostWakeup'
  BY LifecycleAssumption
     DEF TypeOK, Serial, WaitsForStateInForce, NoLostWakeup
<1>6. QuietOK'
  BY DEF TypeOK, CallOK, QuietOK, Quiet, TerminatedIsQuiet, Reverses
<1>. QED BY <1>1, <1>2, <1>3, <1>4, <1>5, <1>6

(* Under applyMu: refused, or begun *)
LEMMA TransitionInv ==
  ASSUME IInv, NEW c \in Callers, Transition(c)
  PROVE  IInv'
<1> DEFINE verdict == IF Executing(c) THEN "none" ELSE Verdict(call[c])
<1>1. CASE verdict # "none" \/ Reverses(Wanted(c))
  <2>1. PICK r \in Results \ {"acknowledged"} : End(c, r)
    BY <1>1, VerdictIs DEF Transition, Results
  <2>. QED BY <1>1, <2>1, RefusedInv DEF Transition
<1>2. CASE ~(verdict # "none" \/ Reverses(Wanted(c)))
  <2>1. call[c] \in Desired => Verdict(call[c]) = "none"
    BY <1>2, LifecycleAssumption DEF Executing
  <2>. QED BY <1>2, <2>1, BeginsInv DEF Transition, MayApply, Notify
<1>. QED BY <1>1, <1>2

(* The waiter looks again. *)
LEMMA WakeInv ==
  ASSUME IInv, NEW c \in Callers, Wake(c)
  PROVE  IInv'
<1> USE DEF IInv, Wake, Step, gateVars
<1>1. TypeOK'
  <2>1. G!GateTypeOK' /\ drainTimedOut' \in BOOLEAN /\ woken' \in BOOLEAN
    BY DEF TypeOK, G!GateTypeOK
  <2>. QED BY <2>1, LifecycleAssumption DEF TypeOK, Entries, Results
<1>2. CallOK' /\ EntriesOK'
  BY LifecycleAssumption DEF TypeOK, CallOK, EntriesOK
<1>3. Serial'
  BY DEF TypeOK, CallOK, Serial, WaitsForStateInForce, Wanted, Executing
<1>4. Fresh'
  BY DEF TypeOK, CallOK, Fresh, Older, Equal
<1>5. NoLostWakeup'
  BY DEF TypeOK, NoLostWakeup, Wanted, Executing, G!Complete
<1>6. QuietOK'
  BY LifecycleAssumption DEF TypeOK, CallOK, EntriesOK, QuietOK, Quiet, TerminatedIsQuiet
<1>. QED BY <1>1, <1>2, <1>3, <1>4, <1>5, <1>6

(* A caller that leaves a transition leaves nobody in one. *)
LEMMA LeavesInv ==
  ASSUME IInv, NEW c \in Callers, pc[c] \in {"check", "wait"},
         applyMu' = Free, pc'[c] \notin {"check", "wait"},
         \A d \in Callers \ {c} : pc'[d] = pc[d]
  PROVE  Serial' /\ Fresh' /\ NoLostWakeup'
<1>1. \A d \in Callers : pc'[d] \notin {"check", "wait"}
  BY LifecycleAssumption DEF IInv, Serial, WaitsForStateInForce
<1>. QED BY <1>1 DEF Serial, WaitsForStateInForce, Fresh, NoLostWakeup

(* The safe boundary has been reached. *)
LEMMA CompletesInv ==
  ASSUME IInv, NEW c \in Callers, Check(c), G!Complete(Wanted(c))
  PROVE  IInv'
<1> USE DEF IInv, Check, End, Result, gateVars
<1>1. TypeOK'
  <2>1. G!GateTypeOK' /\ drainTimedOut' \in BOOLEAN /\ woken' \in BOOLEAN
    BY DEF TypeOK, G!GateTypeOK
  <2>2. records' \in [Kinds -> Desired \cup {NoCall}]
    BY LifecycleAssumption DEF TypeOK, CallOK, Executing
  <2>. QED BY <2>1, <2>2 DEF TypeOK, Results
<1>2. CallOK' /\ EntriesOK'
  BY LifecycleAssumption DEF TypeOK, CallOK, EntriesOK, Executing
<1>3. Serial' /\ Fresh' /\ NoLostWakeup'
  <2>1. pc'[c] \notin {"check", "wait"} /\ \A d \in Callers \ {c} : pc'[d] = pc[d]
    BY DEF TypeOK
  <2>. QED BY <2>1, LeavesInv
<1>4. QuietOK'
  <2>1. Wanted(c) = "terminating" => Quiet
    BY DEF Serial, WaitsForStateInForce, Quiet, G!Complete
  <2>2. TerminatedIsQuiet'
    <3>1. CASE Executing(c)
      BY <3>1 DEF QuietOK, TerminatedIsQuiet
    <3>2. CASE ~Executing(c)
      <4>1. \A k \in Kinds : records'[k] = records[k] \/ records'[k] = call[c]
        BY <3>2 DEF TypeOK
      <4>. QED BY <3>2, <4>1, <2>1 DEF QuietOK, TerminatedIsQuiet, Quiet, Wanted
    <3>. QED BY <3>1, <3>2
  <2>3. ASSUME Executing(c), call[c].action = "terminate" PROVE Quiet
    BY <2>1, <2>3 DEF Wanted, CommandState
  <2>. QED BY <2>2, <2>3 DEF TypeOK, QuietOK, Quiet, Executing
<1>. QED BY <1>1, <1>2, <1>3, <1>4

(* It has not been reached, and the wait begins. *)
LEMMA WaitsInv ==
  ASSUME IInv, NEW c \in Callers, Check(c), ~G!Complete(Wanted(c))
  PROVE  IInv'
<1> USE DEF IInv, Check, Step, gateVars
<1>1. TypeOK'
  <2>1. G!GateTypeOK'
    BY DEF TypeOK, G!GateTypeOK
  <2>2. drainTimedOut' \in BOOLEAN /\ woken' \in BOOLEAN
    BY DEF TypeOK
  <2>. QED BY <2>1, <2>2 DEF TypeOK
<1>2. CallOK' /\ EntriesOK'
  BY LifecycleAssumption DEF TypeOK, CallOK, EntriesOK
<1>3. Serial'
  BY DEF TypeOK, CallOK, Serial, WaitsForStateInForce, Wanted, Executing
<1>4. Fresh'
  BY DEF TypeOK, CallOK, Fresh, Older, Equal
<1>5. NoLostWakeup'
  <2>1. \A d \in Callers : pc'[d] = "wait" => d = c
    BY LifecycleAssumption DEF TypeOK, Serial, WaitsForStateInForce
  <2>2. Wanted(c)' = Wanted(c)
    BY DEF Wanted, Executing
  <2>3. ~G!Complete(Wanted(c))'
    BY <2>2 DEF G!Complete
  <2>. QED BY <2>1, <2>3 DEF NoLostWakeup
<1>6. QuietOK'
  BY DEF TypeOK, CallOK, QuietOK, Quiet, TerminatedIsQuiet
<1>. QED BY <1>1, <1>2, <1>3, <1>4, <1>5, <1>6

(* The wait is given up. *)
LEMMA ExpireInv ==
  ASSUME IInv, NEW c \in Callers, Expire(c)
  PROVE  IInv'
<1> USE DEF IInv, Expire, End, Result, Notify, gateVars
<1>1. TypeOK'
  <2>1. G!GateTypeOK'
    BY DEF TypeOK, G!GateTypeOK
  <2>2. drainTimedOut' \in BOOLEAN /\ woken' \in BOOLEAN
    <3>1. CASE drainTimedOut' = TRUE /\ woken' = TRUE
      BY <3>1
    <3>2. CASE UNCHANGED <<drainTimedOut, woken>>
      BY <3>2 DEF TypeOK
    <3>. QED BY <3>1, <3>2
  <2>. QED BY <2>1, <2>2 DEF TypeOK, Results
<1>2. CallOK' /\ EntriesOK'
  BY LifecycleAssumption DEF TypeOK, CallOK, EntriesOK, Executing
<1>3. Serial' /\ Fresh' /\ NoLostWakeup'
  <2>1. pc'[c] \notin {"check", "wait"} /\ \A d \in Callers \ {c} : pc'[d] = pc[d]
    BY DEF TypeOK
  <2>. QED BY <2>1, LeavesInv
<1>4. QuietOK'
  BY DEF TypeOK, CallOK, QuietOK, Quiet, TerminatedIsQuiet
<1>. QED BY <1>1, <1>2, <1>3, <1>4

(* Every step preserves it. *)
LEMMA NextIInv == IInv /\ [Next]_vars => IInv'
<1> SUFFICES ASSUME IInv, [Next]_vars PROVE IInv'
  OBVIOUS
<1>1. CASE UNCHANGED vars
  BY <1>1 DEF vars, gateVars, callVars, IInv, TypeOK, G!GateTypeOK, CallOK,
              EntriesOK, Serial, WaitsForStateInForce, Fresh, Older, Equal,
              NoLostWakeup, QuietOK, Quiet, TerminatedIsQuiet, Wanted,
              Executing, G!Complete
<1>2. CASE BeginAdmission \/ EndAdmission \/ PromoteAdmissionToJob \/ EndJob
  BY <1>2, GateStepInv
<1>3. ASSUME NEW c \in Callers, NEW m \in Commands, Execute(c, m) PROVE IInv'
  BY <1>3, ExecuteInv
<1>4. ASSUME NEW c \in Callers, NEW r \in Desired, ApplyDesiredState(c, r)
      PROVE  IInv'
  BY <1>4, ApplyInv
<1>5. ASSUME NEW c \in Callers,
             Caller(c) \/ Expire(c) \/ DuplicateGivesUp(c)
      PROVE  IInv'
  BY <1>5, DuplicateInv, ExecuteNewInv, PublishInv, TransitionInv,
     CompletesInv, WaitsInv, WakeInv, ExpireInv DEF Caller
<1>. QED BY <1>1, <1>2, <1>3, <1>4, <1>5 DEF Next

(* The inductive invariant *)
LEMMA LifecycleIInv == Spec => []IInv
BY InitIInv, NextIInv, PTL DEF Spec

-----------------------------------------------------------------------------
(* Type correctness *)
THEOREM LifecycleTypeOK == Spec => []TypeOK
<1>1. IInv => TypeOK
  BY DEF IInv
<1>. QED BY <1>1, LifecycleIInv, PTL

(* The state a transition waits for stays in force, and its wait misses no *)
(* closing of the changed channel.                                         *)
THEOREM LifecycleWait == Spec => [](WaitsForStateInForce /\ NoLostWakeup)
<1>1. IInv => WaitsForStateInForce /\ NoLostWakeup
  BY DEF IInv, Serial
<1>. QED BY <1>1, LifecycleIInv, PTL

(* Nothing is admitted or in flight after an acknowledged termination. *)
THEOREM LifecycleTerminated == Spec => []TerminatedIsQuiet
<1>1. IInv => TerminatedIsQuiet
  BY DEF IInv, QuietOK
<1>. QED BY <1>1, LifecycleIInv, PTL

(* A recorded revision is replaced by a later one only. *)
THEOREM LifecycleRevisions == Spec => RevisionsMonotone
<1> DEFINE Later(k) ==
      records[k] # NoCall /\ records'[k] # records[k] =>
        records'[k] # NoCall /\ records'[k].revision > records[k].revision
<1>1. IInv /\ [Next]_vars => [\A k \in Kinds : Later(k)]_vars
  <2> SUFFICES ASSUME IInv, Next, NEW k \in Kinds PROVE Later(k)
    OBVIOUS
  <2>1. CASE records' = records
    BY <2>1
  <2>2. ASSUME NEW c \in Callers, Check(c), records' # records PROVE Later(k)
    <3>1. /\ ~Executing(c) /\ call[c] \in Desired
          /\ records' = [records EXCEPT ![call[c].kind] = call[c]]
      BY <2>2 DEF Check, IInv, CallOK, Executing
    <3>2. ~Older(call[c]) /\ ~Equal(call[c])
      BY <2>2, <3>1 DEF Check, IInv, Fresh
    <3>3. CASE k # call[c].kind
      BY <3>1, <3>3 DEF IInv, TypeOK
    <3>4. CASE k = call[c].kind
      <4>1. records'[k] = call[c] /\ call[c] # NoCall
        BY <3>1, <3>4, LifecycleAssumption DEF IInv, TypeOK
      <4>2. ASSUME records[k] # NoCall PROVE call[c].revision > records[k].revision
        <5>1. records[k] \in Desired
          BY <4>2 DEF IInv, TypeOK
        <5>2. call[c].revision \in Nat /\ records[k].revision \in Nat
          BY <5>1, <3>1, LifecycleAssumption
        <5>. QED BY <3>2, <3>4, <4>2, <5>2 DEF Older, Equal
      <4>. QED BY <4>1, <4>2
    <3>. QED BY <3>3, <3>4
  <2>. QED
    BY <2>1, <2>2
       DEF Next, Caller, BeginAdmission, EndAdmission, PromoteAdmissionToJob,
           EndJob, othersUnchanged, Execute, ApplyDesiredState, Duplicate,
           DuplicateGivesUp, ExecuteNew, Publish, Transition, Wake, Expire
<1>. QED BY <1>1, LifecycleIInv, PTL DEF Spec, RevisionsMonotone

(* Every step is a step of the gate or leaves it alone. *)
LEMMA GateStep == IInv /\ [Next]_vars => [G!GateNext]_(G!gateVars)
<1> SUFFICES ASSUME IInv, [Next]_vars PROVE G!GateNext \/ UNCHANGED G!gateVars
  OBVIOUS
<1>1. CASE UNCHANGED gateVars
  BY <1>1 DEF gateVars, G!gateVars
<1>2. CASE BeginAdmission \/ EndAdmission \/ PromoteAdmissionToJob \/ EndJob
  BY <1>2 DEF BeginAdmission, EndAdmission, PromoteAdmissionToJob, EndJob,
              G!GateNext
<1>3. ASSUME NEW c \in Callers, Transition(c)
      PROVE  G!GateNext \/ UNCHANGED G!gateVars
  <2>1. Wanted(c) \in G!DesiredStates
    BY <1>3, WantedIs DEF Transition, IInv, G!DesiredStates
  <2>2. UNCHANGED gateVars \/ G!SetState(Wanted(c))
    BY <1>3 DEF Transition, Reverses, G!SetState
  <2>. QED BY <2>1, <2>2 DEF G!GateNext, gateVars, G!gateVars
<1>. QED
  BY <1>1, <1>2, <1>3
     DEF Next, Caller, Execute, ApplyDesiredState, Duplicate, vars,
         DuplicateGivesUp, ExecuteNew, Publish, Check, Wake, Expire

(* The lifecycle implements the gate that queue.go is written against. *)
THEOREM LifecycleRefinesGate == Spec => RefinesGate
<1>1. Init => G!GateInit
  BY DEF Init
<1>. QED BY <1>1, GateStep, LifecycleIInv, PTL DEF Spec, RefinesGate, G!GateSpec

(* A safe boundary lasts as long as the state is in force. *)
THEOREM LifecycleBoundary == Spec => BoundaryStable
<1> DEFINE Lasts == G!Complete(state) /\ state # "active" /\ state' = state
                      => G!Complete(state)'
<1>1. IInv /\ [Next]_vars => [Lasts]_vars
  <2> SUFFICES ASSUME IInv, [Next]_vars, G!Complete(state), state # "active",
                      state' = state
               PROVE  G!Complete(state)'
    OBVIOUS
  <2>1. CASE UNCHANGED G!gateVars
    BY <2>1 DEF G!gateVars, G!Complete
  <2>2. CASE G!GateNext
    BY <2>2 DEF G!GateNext, G!BeginAdmission, G!EndAdmission, G!EndJob,
                G!PromoteAdmissionToJob, G!SetState, G!Complete, IInv, TypeOK,
                G!GateTypeOK
  <2>. QED BY <2>1, <2>2, GateStep
<1>. QED BY <1>1, LifecycleIInv, PTL DEF Spec, BoundaryStable
=============================================================================
