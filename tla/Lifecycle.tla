----------------------------- MODULE Lifecycle ------------------------------
(***************************************************************************)
(* management.WorkerLifecycle (management/lifecycle.go): the admission     *)
(* gate of a queue, the transitions that management commands and durable   *)
(* revisions make on it, and the bounded memory of command results.        *)
(*                                                                         *)
(* A step is one critical section of l.mu with what its goroutine then     *)
(* does on its own.  applyMu is held from the check of a revision to the   *)
(* end of the wait.  Only its holder waits on l.changed, so one flag says  *)
(* whether the channel it has seen is closed.                              *)
(***************************************************************************)
EXTENDS Integers, FiniteSets

CONSTANTS Callers,    \* goroutines calling Execute and ApplyDesiredState
          Commands,   \* the commands they execute
          Desired,    \* the revisions they apply
          Keys,       \* idempotency keys
          Kinds,      \* the three kinds of target
          MaxResults, \* l.capacity
          MaxCount,   \* bound: admissions and jobs together
          NoCall, Free

(* A command or revision may be meant for this worker or for another       *)
(* (field ours); a command may speak another protocol.                     *)
ASSUME LifecycleAssumption ==
  /\ \A m \in Commands :
       /\ m.key \in Keys
       /\ m.action \in {"pause", "resume", "drain", "terminate", "other"}
       /\ m.protocol \in BOOLEAN /\ m.ours \in BOOLEAN
  /\ \A r \in Desired :
       /\ r.kind \in Kinds /\ r.ours \in BOOLEAN
       /\ r.state \in {"active", "paused", "draining", "terminating"}
       /\ r.revision \in Nat \ {0}
  /\ Commands \cap Desired = {} /\ NoCall \notin Commands \cup Desired
  /\ Kinds \subseteq {"queue", "worker", "worker_group"}
  /\ IsFiniteSet(Keys)
  /\ MaxResults \in Nat \ {0} /\ MaxCount \in Nat
  /\ Free \notin Callers

VARIABLES state, admissions, jobs,
          drainTimedOut,
          woken,     \* the channel the waiter has seen is closed
          records,   \* the revision recorded for each kind of target
          commands,  \* the entry of each idempotency key
          applyMu,   \* who holds it
          pc, call, res  \* the callers, their call and its result

gateVars == <<state, admissions, jobs>>
callVars == <<pc, call, res>>
vars == <<gateVars, drainTimedOut, woken, records, commands, applyMu, callVars>>

G == INSTANCE Gate

Results == {"none", "acknowledged", "deadline_exceeded", "invalid_transition",
            "protocol_mismatch", "unsupported_action", "target_mismatch",
            "idempotency_conflict", "idempotency_capacity", "unknown",
            "nil", "regression", "conflict"}

Entries == [command : Commands \cup {NoCall}, result : Results]

TypeOK ==
  /\ G!GateTypeOK
  /\ drainTimedOut \in BOOLEAN /\ woken \in BOOLEAN
  /\ records \in [Kinds -> Desired \cup {NoCall}]
  /\ commands \in [Keys -> Entries]
  /\ applyMu \in Callers \cup {Free}
  /\ pc \in [Callers -> {"idle", "duplicate", "new", "lock", "check", "wait",
                         "publish"}]
  /\ call \in [Callers -> Commands \cup Desired \cup {NoCall}]
  /\ res \in [Callers -> Results]

(* NewWorkerLifecycle *)
Init ==
  /\ G!GateInit
  /\ drainTimedOut = FALSE /\ woken = FALSE
  /\ records = [k \in Kinds |-> NoCall]
  /\ commands = [k \in Keys |-> [command |-> NoCall, result |-> "none"]]
  /\ applyMu = Free
  /\ pc = [c \in Callers |-> "idle"]
  /\ call = [c \in Callers |-> NoCall]
  /\ res = [c \in Callers |-> "none"]

-----------------------------------------------------------------------------
(* The scheduler's four operations.  One that finds its counter at zero    *)
(* returns ErrInvalidLifecycleCounter and changes nothing.                 *)

othersUnchanged == <<drainTimedOut, records, commands, applyMu, callVars>>

(* Mutant: the waiter is not woken. *)
NotifyNever == UNCHANGED woken

(* notifyLocked *)
Notify == woken' = TRUE

BeginAdmission ==
  /\ admissions + jobs < MaxCount
  /\ G!BeginAdmission /\ Notify /\ UNCHANGED othersUnchanged

EndAdmission == G!EndAdmission /\ Notify /\ UNCHANGED othersUnchanged

PromoteAdmissionToJob ==
  G!PromoteAdmissionToJob /\ Notify /\ UNCHANGED othersUnchanged

EndJob == G!EndJob /\ Notify /\ UNCHANGED othersUnchanged

-----------------------------------------------------------------------------
Step(c, stage) ==
  /\ pc' = [pc EXCEPT ![c] = stage]
  /\ UNCHANGED <<call, res>>

Result(c, stage, r) ==
  /\ pc' = [pc EXCEPT ![c] = stage]
  /\ res' = [res EXCEPT ![c] = r]
  /\ UNCHANGED call

Start(c, x, stage, r) ==
  /\ pc[c] = "idle"
  /\ pc' = [pc EXCEPT ![c] = stage]
  /\ call' = [call EXCEPT ![c] = x]
  /\ res' = [res EXCEPT ![c] = r]

(* Mutant: a command in progress is not known. *)
KnownWhenDone(m) == commands[m.key].result # "none"

(* Execute, up to commandEntry *)
Known(m) == commands[m.key].command # NoCall

Same(m) == commands[m.key].command = m

Full == Cardinality({k \in Keys : commands[k].command # NoCall}) >= MaxResults

Execute(c, m) ==
  /\ IF Known(m)
     THEN /\ IF Same(m) THEN Start(c, m, "duplicate", "none")
             ELSE Start(c, m, "idle", "idempotency_conflict")
          /\ UNCHANGED commands
     ELSE IF Full
          THEN Start(c, m, "idle", "idempotency_capacity") /\ UNCHANGED commands
          ELSE /\ Start(c, m, "new", "none")
               /\ commands' = [commands EXCEPT ![m.key] =
                                [command |-> m, result |-> "none"]]
  /\ UNCHANGED <<gateVars, drainTimedOut, woken, records, applyMu>>

(* A duplicate waits for the first caller, or for the end of its context. *)
Duplicate(c) ==
  /\ pc[c] = "duplicate"
  /\ commands[call[c].key].result # "none"
  /\ Result(c, "idle", commands[call[c].key].result)
  /\ UNCHANGED <<gateVars, drainTimedOut, woken, records, commands, applyMu>>

DuplicateGivesUp(c) ==
  /\ pc[c] = "duplicate"
  /\ Result(c, "idle", "unknown")
  /\ UNCHANGED <<gateVars, drainTimedOut, woken, records, commands, applyMu>>

(* lifecycleCommandState *)
CommandState(action) ==
  CASE action = "pause"     -> "paused"
    [] action = "resume"    -> "active"
    [] action = "drain"     -> "draining"
    [] action = "terminate" -> "terminating"
    [] OTHER                -> "unsupported"

(* The checks of executeNew; the deadline may have passed already. *)
ExecuteNew(c) ==
  LET m == call[c] IN
  /\ pc[c] = "new"
  /\ IF ~m.protocol THEN Result(c, "publish", "protocol_mismatch")
     ELSE IF m.action = "other" THEN Result(c, "publish", "unsupported_action")
     ELSE IF ~m.ours THEN Result(c, "publish", "target_mismatch")
     ELSE Step(c, "lock") \/ Result(c, "publish", "deadline_exceeded")
  /\ UNCHANGED <<gateVars, drainTimedOut, woken, records, commands, applyMu>>

(* Mutant: a command that timed out is forgotten. *)
KeptUnlessTimedOut(c) ==
  IF res[c] = "deadline_exceeded" THEN [command |-> NoCall, result |-> "none"]
  ELSE [command |-> call[c], result |-> res[c]]

Kept(c) == [command |-> call[c], result |-> res[c]]

(* The end of Execute: the result becomes visible to duplicates. *)
Publish(c) ==
  /\ pc[c] = "publish"
  /\ commands' = [commands EXCEPT ![call[c].key] = Kept(c)]
  /\ Step(c, "idle")
  /\ UNCHANGED <<gateVars, drainTimedOut, woken, records, applyMu>>

-----------------------------------------------------------------------------
ApplyDesiredState(c, r) ==
  /\ Start(c, r, "lock", "none")
  /\ UNCHANGED <<gateVars, drainTimedOut, woken, records, commands, applyMu>>

Executing(c) == call[c] \in Commands

Wanted(c) == IF Executing(c) THEN CommandState(call[c].action) ELSE call[c].state

ValidTargetState(kind, s) ==
  CASE kind = "queue"  -> s \in {"active", "paused"}
    [] kind = "worker" -> s \in {"draining", "terminating"}
    [] OTHER           -> TRUE

(* Mutant: an older revision is applied. *)
OlderNever(r) == FALSE

Older(r) == records[r.kind] # NoCall /\ r.revision < records[r.kind].revision

Equal(r) == records[r.kind] # NoCall /\ r.revision = records[r.kind].revision

(* The checks of ApplyDesiredState; "none" means that r is to be applied. *)
Verdict(r) ==
  IF ~r.ours THEN "target_mismatch"
  ELSE IF ~ValidTargetState(r.kind, r.state) THEN "invalid_transition"
  ELSE IF Older(r) THEN "regression"
  ELSE IF Equal(r) THEN (IF r = records[r.kind] THEN "nil" ELSE "conflict")
  ELSE "none"

(* Mutant: termination can be undone. *)
ReversesNever(s) == FALSE

Reverses(s) == state = "terminating" /\ s # "terminating"

(* How a call ends that makes no transition: a command's result is still   *)
(* to be published.                                                        *)
End(c, r) == Result(c, IF Executing(c) THEN "publish" ELSE "idle", r)

(* Mutant: a transition does not wait for another to end. *)
MayApplyAlways == TRUE

MayApply == applyMu = Free

(* Under applyMu: the checks, and the first critical section of transition *)
Transition(c) ==
  LET verdict == IF Executing(c) THEN "none" ELSE Verdict(call[c]) IN
  /\ pc[c] = "lock" /\ MayApply
  /\ IF verdict # "none" \/ Reverses(Wanted(c))
     THEN /\ End(c, IF verdict # "none" THEN verdict ELSE "invalid_transition")
          /\ UNCHANGED <<gateVars, drainTimedOut, woken, applyMu>>
     ELSE /\ state' = Wanted(c)
          /\ drainTimedOut' = FALSE
          /\ Notify
          /\ applyMu' = c
          /\ Step(c, "check")
          /\ UNCHANGED <<admissions, jobs>>
  /\ UNCHANGED <<records, commands>>

(* transitionCompleteLocked; when complete, the revision is recorded. *)
Check(c) ==
  /\ pc[c] = "check"
  /\ IF G!Complete(Wanted(c))
     THEN /\ IF Executing(c) THEN UNCHANGED records
             ELSE records' = [records EXCEPT ![call[c].kind] = call[c]]
          /\ End(c, IF Executing(c) THEN "acknowledged" ELSE "nil")
          /\ applyMu' = Free
          /\ UNCHANGED woken
     ELSE /\ woken' = FALSE
          /\ Step(c, "wait")
          /\ UNCHANGED <<records, applyMu>>
  /\ UNCHANGED <<gateVars, drainTimedOut, commands>>

Wake(c) ==
  /\ pc[c] = "wait" /\ woken
  /\ Step(c, "check")
  /\ UNCHANGED <<gateVars, drainTimedOut, woken, records, commands, applyMu>>

(* The context is cancelled, or its deadline passes. *)
Expire(c) ==
  /\ pc[c] = "wait"
  /\ \/ drainTimedOut' = TRUE /\ Notify
     \/ UNCHANGED <<drainTimedOut, woken>>
  /\ applyMu' = Free
  /\ End(c, "deadline_exceeded")
  /\ UNCHANGED <<gateVars, records, commands>>

-----------------------------------------------------------------------------
Caller(c) ==
  \/ Duplicate(c) \/ ExecuteNew(c) \/ Publish(c)
  \/ Transition(c) \/ Check(c) \/ Wake(c)

Next ==
  \/ BeginAdmission \/ EndAdmission \/ PromoteAdmissionToJob \/ EndJob
  \/ \E c \in Callers :
       \/ \E m \in Commands : Execute(c, m)
       \/ \E r \in Desired : ApplyDesiredState(c, r)
       \/ Caller(c) \/ Expire(c) \/ DuplicateGivesUp(c)

Spec == Init /\ [][Next]_vars

(* A reservation ends or becomes a job and a job ends: the fairness of     *)
(* module Queue.  Strong fairness for the mutex applyMu.                   *)
Fairness ==
  /\ WF_vars(EndAdmission \/ PromoteAdmissionToJob)
  /\ WF_vars(EndJob)
  /\ \A c \in Callers : WF_vars(Caller(c)) /\ SF_vars(Transition(c))

FairSpec == Spec /\ Fairness

-----------------------------------------------------------------------------
(* Properties *)

(* The gate that the scheduler of queue.go relies on: reservations only in *)
(* the active state, and termination is irreversible.                      *)
RefinesGate == G!GateSpec

(* The wait of a transition misses no wake-up: unless its channel has been *)
(* closed, its safe boundary has not been reached.                         *)
NoLostWakeup ==
  \A c \in Callers : pc[c] = "wait" /\ ~woken => ~G!Complete(Wanted(c))

(* applyMu serialises transitions: the state a caller waits for is in      *)
(* force until it stops waiting.                                           *)
WaitsForStateInForce ==
  \A c \in Callers : pc[c] \in {"check", "wait"} =>
    applyMu = c /\ state = Wanted(c)

(* A command is executed at most once: only one caller is past             *)
(* commandEntry with a key, and none once the key has a result.            *)
InProgress(c) == Executing(c) /\ pc[c] \in {"new", "lock", "check", "wait", "publish"}

ExecutedOnce ==
  \A c \in Callers : InProgress(c) =>
    /\ commands[call[c].key] = [command |-> call[c], result |-> "none"]
    /\ \A d \in Callers \ {c} : InProgress(d) => call[d].key # call[c].key

(* Duplicates agree: every Execute of a command returns the same result,   *)
(* or "unknown" when its own context ended first; capacity is never freed. *)
OneOutcome ==
  \A c, d \in Callers :
    /\ Executing(c) /\ call[c] = call[d]
    /\ pc[c] = "idle" /\ pc[d] = "idle"
    /\ "unknown" \notin {res[c], res[d]}
    => res[c] = res[d]

(* An acknowledged termination is final: nothing is admitted or in flight  *)
(* from then on, whatever was commanded or applied afterwards.             *)
TerminatedIsQuiet ==
  (\/ \E k \in Keys : /\ commands[k].result = "acknowledged"
                      /\ commands[k].command.action = "terminate"
   \/ \E k \in Kinds : records[k] # NoCall /\ records[k].state = "terminating")
  => state = "terminating" /\ admissions = 0 /\ jobs = 0

(* ApplyDesiredState replaces a recorded revision by a later one only,     *)
(* also when the applications of several revisions overlap.                *)
RevisionsMonotone ==
  [][\A k \in Kinds : records[k] # NoCall /\ records'[k] # records[k] =>
       records'[k] # NoCall /\ records'[k].revision > records[k].revision]_vars

(* A safe boundary, once reached, lasts as long as the state is in force:  *)
(* no reservation or job slips in after transitionCompleteLocked said yes. *)
BoundaryStable ==
  [][G!Complete(state) /\ state # "active" /\ state' = state
       => G!Complete(state)']_vars

(* While the scheduler ends what it has begun, every Execute and every     *)
(* ApplyDesiredState returns, with or without a deadline.                  *)
CallsReturn == \A c \in Callers : pc[c] # "idle" ~> pc[c] = "idle"
=============================================================================
