-------------------------------- MODULE Ring --------------------------------
(***************************************************************************)
(* The in-memory worker of ring.go: a circular buffer that doubles when    *)
(* full and halves at half occupancy, guarded by a mutex, with a stop flag *)
(* that is set by a compare-and-swap OUTSIDE the mutex and an exit channel *)
(* closed once under it.                                                   *)
(*                                                                         *)
(* A goroutine holds the mutex from the step that enters a method to the   *)
(* step that returns from it.  Queue and Request are two steps each        *)
(* because the stop flag can change under them; stopIntake is two steps    *)
(* because its compare-and-swap does not take the mutex.                   *)
(***************************************************************************)
EXTENDS Integers, Sequences

CONSTANTS Tasks,      \* task messages
          Nil,        \* an empty slot (a nil interface value)
          Capacity,   \* Ring.capacity; 0 means unbounded
          Producers,  \* goroutines calling Queue
          Consumers,  \* goroutines calling Request
          Stoppers    \* goroutines calling Shutdown or stopIntake

Procs == Producers \cup Consumers \cup Stoppers

CONSTANT Free         \* the mutex is not held

ASSUME RingAssumption ==
  /\ Nil \notin Tasks
  /\ Capacity \in Nat
  /\ Free \notin Procs
  /\ Producers \cap Consumers = {}
  /\ Producers \cap Stoppers = {}
  /\ Consumers \cap Stoppers = {}

VARIABLES taskQueue,  \* the slots, a function on 0 .. size - 1
          size,       \* len(taskQueue)
          count, head, tail,
          stopFlag,   \* TRUE once the compare-and-swap succeeded
          exit,       \* TRUE once the exit channel is closed
          panicked,   \* a slice expression of resize went out of range
          mutex,      \* the goroutine in a critical section, or Free
          pc,         \* control state of each goroutine
          arg,        \* the task a producer is queueing
          ret         \* what the last call of each goroutine returned

bufVars == <<taskQueue, size, count, head, tail>>
vars == <<taskQueue, size, count, head, tail, stopFlag, exit, panicked,
          mutex, pc, arg, ret>>

Errors == {"none", "ok", "ErrQueueShutdown", "ErrMaxCapacity",
           "ErrNoTaskInQueue", "ErrQueueHasBeenClosed"}
Controls == {"idle", "admitted", "dequeued", "flagged", "draining"}

TypeOK ==
  /\ size \in Nat /\ size >= 2
  /\ taskQueue \in [0 .. size - 1 -> Tasks \cup {Nil}]
  /\ count \in 0 .. size
  /\ head \in 0 .. size - 1
  /\ tail \in 0 .. size - 1
  /\ stopFlag \in BOOLEAN
  /\ exit \in BOOLEAN
  /\ panicked \in BOOLEAN
  /\ mutex \in Procs \cup {Free}
  /\ pc \in [Procs -> Controls]
  /\ arg \in [Procs -> Tasks \cup {Nil}]
  /\ ret \in [Procs -> Errors \cup Tasks]

-----------------------------------------------------------------------------
(* NewRing *)
Init ==
  /\ size = 2
  /\ taskQueue = [i \in 0 .. 1 |-> Nil]
  /\ count = 0 /\ head = 0 /\ tail = 0
  /\ stopFlag = FALSE /\ exit = FALSE /\ panicked = FALSE
  /\ mutex = Free
  /\ pc = [p \in Procs |-> "idle"]
  /\ arg = [p \in Procs |-> Nil]
  /\ ret = [p \in Procs |-> "none"]

-----------------------------------------------------------------------------
(* The slot after i in a buffer of n slots *)
NextSlot(i, n) == (i + 1) % n

-----------------------------------------------------------------------------
(* resize.  copy() stops at the end of the shorter slice, and the slice    *)
(* nodes[len-head:] of the wrapped case is out of range when len-head > n. *)

Wrapped == head >= tail

ResizePanics(n) == Wrapped /\ size - head > n

(* mutant: the second copy of the wrapped case is lost *)
ResizedFirstRun(n) ==
  [i \in 0 .. n - 1 |->
     IF i < (IF Wrapped THEN size ELSE tail) - head THEN taskQueue[head + i]
     ELSE Nil]

Resized(n) ==
  LET firstRun == size - head IN
  [i \in 0 .. n - 1 |->
     IF ~Wrapped
     THEN IF i < tail - head THEN taskQueue[head + i] ELSE Nil
     ELSE IF i < firstRun THEN taskQueue[head + i]
          ELSE IF i - firstRun < tail THEN taskQueue[i - firstRun] ELSE Nil]

(* mutants: the remainder is left out; the slot is one too far *)
ResizedTailNoWrap(n) == count
ResizedTailOff(n) == (count + 1) % n

ResizedTail(n) == count % n

-----------------------------------------------------------------------------
(* Ring.Queue *)

Full == Capacity > 0 /\ count >= Capacity

QueueReject(p) ==
  /\ pc[p] = "idle" /\ mutex = Free
  /\ stopFlag \/ Full
  /\ ret' = [ret EXCEPT ![p] = IF stopFlag THEN "ErrQueueShutdown"
                               ELSE "ErrMaxCapacity"]
  /\ UNCHANGED <<bufVars, stopFlag, exit, panicked, mutex, pc, arg>>

QueueAdmit(p, t) ==
  /\ pc[p] = "idle" /\ mutex = Free
  /\ ~stopFlag /\ ~Full
  /\ mutex' = p
  /\ pc' = [pc EXCEPT ![p] = "admitted"]
  /\ arg' = [arg EXCEPT ![p] = t]
  /\ UNCHANGED <<bufVars, stopFlag, exit, panicked, ret>>

Grows == count = size

QueueStore(p) ==
  LET n == IF Grows THEN count * 2 ELSE size
      buf == IF Grows THEN Resized(n) ELSE taskQueue
      at == IF Grows THEN ResizedTail(n) ELSE tail
  IN
  /\ pc[p] = "admitted"
  /\ panicked' = (panicked \/ (Grows /\ ResizePanics(n)))
  /\ taskQueue' = [buf EXCEPT ![at] = arg[p]]
  /\ size' = n
  /\ head' = IF Grows THEN 0 ELSE head
  /\ tail' = NextSlot(at, n)
  /\ count' = count + 1
  /\ mutex' = Free
  /\ pc' = [pc EXCEPT ![p] = "idle"]
  /\ arg' = [arg EXCEPT ![p] = Nil]
  /\ ret' = [ret EXCEPT ![p] = "ok"]
  /\ UNCHANGED <<stopFlag, exit>>

-----------------------------------------------------------------------------
(* Ring.Request *)

RequestEmpty(c) ==
  /\ pc[c] = "idle" /\ mutex = Free
  /\ count = 0
  /\ exit' = (exit \/ stopFlag)
  /\ ret' = [ret EXCEPT ![c] = IF stopFlag THEN "ErrQueueHasBeenClosed"
                               ELSE "ErrNoTaskInQueue"]
  /\ UNCHANGED <<bufVars, stopFlag, panicked, mutex, pc, arg>>

(* mutant: the slot keeps its reference *)
ClearedNot(i) == taskQueue

Cleared(i) == [taskQueue EXCEPT ![i] = Nil]

RequestTake(c) ==
  /\ pc[c] = "idle" /\ mutex = Free
  /\ count > 0
  /\ mutex' = c
  /\ pc' = [pc EXCEPT ![c] = "dequeued"]
  /\ ret' = [ret EXCEPT ![c] = taskQueue[head]]
  /\ taskQueue' = Cleared(head)
  /\ head' = NextSlot(head, size)
  /\ count' = count - 1
  /\ UNCHANGED <<size, tail, stopFlag, exit, panicked, arg>>

(* mutants: shrink at a quarter; shrink only once empty *)
ShrinksAtQuarter == size \div 2 >= 2 /\ count <= size \div 4
ShrinksWhenEmpty == size \div 2 >= 2 /\ count = 0

Shrinks == size \div 2 >= 2 /\ count <= size \div 2

(* mutant: only a Request that finds nothing signals *)
LastTaskTakenSilent == FALSE

LastTaskTaken == stopFlag /\ count = 0

RequestReturn(c) ==
  LET n == IF Shrinks THEN size \div 2 ELSE size IN
  /\ pc[c] = "dequeued"
  /\ exit' = (exit \/ LastTaskTaken)
  /\ panicked' = (panicked \/ (Shrinks /\ ResizePanics(n)))
  /\ taskQueue' = IF Shrinks THEN Resized(n) ELSE taskQueue
  /\ size' = n
  /\ head' = IF Shrinks THEN 0 ELSE head
  /\ tail' = IF Shrinks THEN ResizedTail(n) ELSE tail
  /\ mutex' = Free
  /\ pc' = [pc EXCEPT ![c] = "idle"]
  /\ UNCHANGED <<count, stopFlag, arg, ret>>

-----------------------------------------------------------------------------
(* Ring.stopIntake and Ring.Shutdown *)

StopFlag(s) ==
  /\ pc[s] = "idle"
  /\ IF stopFlag
     THEN /\ ret' = [ret EXCEPT ![s] = "ErrQueueShutdown"]
          /\ UNCHANGED <<stopFlag, pc>>
     ELSE /\ stopFlag' = TRUE
          /\ pc' = [pc EXCEPT ![s] = "flagged"]
          /\ UNCHANGED ret
  /\ UNCHANGED <<bufVars, exit, panicked, mutex, arg>>

(* mutants: the count is read without the lock; it is not read at all *)
StopCheckUnlocked(s) ==
  /\ pc[s] = "flagged"
  /\ exit' = (exit \/ count = 0)
  /\ pc' = [pc EXCEPT ![s] = "draining"]
  /\ UNCHANGED <<bufVars, stopFlag, panicked, mutex, arg, ret>>
StopCheckSkipped(s) ==
  /\ pc[s] = "flagged" /\ mutex = Free
  /\ pc' = [pc EXCEPT ![s] = "draining"]
  /\ UNCHANGED <<bufVars, stopFlag, exit, panicked, mutex, arg, ret>>

StopCheck(s) ==
  /\ pc[s] = "flagged" /\ mutex = Free
  /\ exit' = (exit \/ count = 0)
  /\ pc' = [pc EXCEPT ![s] = "draining"]
  /\ UNCHANGED <<bufVars, stopFlag, panicked, mutex, arg, ret>>

(* stopIntake returns at once, Shutdown waits for the exit channel *)
StopReturn(s) ==
  /\ pc[s] = "draining"
  /\ exit
  /\ pc' = [pc EXCEPT ![s] = "idle"]
  /\ ret' = [ret EXCEPT ![s] = "ok"]
  /\ UNCHANGED <<bufVars, stopFlag, exit, panicked, mutex, arg>>

-----------------------------------------------------------------------------
Next ==
  \/ \E p \in Producers :
       \/ QueueReject(p)
       \/ \E t \in Tasks : QueueAdmit(p, t)
       \/ QueueStore(p)
  \/ \E c \in Consumers : RequestEmpty(c) \/ RequestTake(c) \/ RequestReturn(c)
  \/ \E s \in Stoppers : StopFlag(s) \/ StopCheck(s) \/ StopReturn(s)

Spec == Init /\ [][Next]_vars

(* A goroutine inside a method finishes it; a consumer keeps requesting,   *)
(* as the request loop of queue.go does; nobody is obliged to queue or to  *)
(* stop.                                                                   *)
Fairness ==
  /\ \A p \in Producers : WF_vars(QueueStore(p))
  /\ \A c \in Consumers : /\ WF_vars(RequestTake(c))
                          /\ WF_vars(RequestReturn(c))
  /\ \A s \in Stoppers : WF_vars(StopCheck(s)) /\ WF_vars(StopReturn(s))

FairSpec == Spec /\ Fairness

-----------------------------------------------------------------------------
(* The slots from head on, oldest task first.  A Request takes effect for  *)
(* its callers when it returns, a Queue when it has passed the stop-flag   *)
(* check, so the queue they see also holds the task being handed out and   *)
(* the task about to be stored.                                            *)
Slot(i) == (head + i) % size

Contents == [i \in 1 .. count |-> taskQueue[Slot(i - 1)]]

Admitted == {p \in Producers : pc[p] = "admitted"}

Taking == {c \in Consumers : pc[c] = "dequeued"}

Backlog ==
  LET out == IF Taking = {} THEN << >> ELSE <<ret[CHOOSE c \in Taking : TRUE]>>
      in  == IF Admitted = {} THEN << >> ELSE <<arg[CHOOSE p \in Admitted : TRUE]>>
  IN  out \o Contents \o in

-----------------------------------------------------------------------------
(* Properties *)

(* Queue and Request never run resize into a slice expression that is out  *)
(* of range: the wrapped copy nodes[len-head:] always fits the new buffer. *)
NoPanic == ~panicked

(* The three numbers that delimit the tasks agree through every resize:    *)
(* tail, where Queue stores, is the slot just behind the last of the count *)
(* tasks that start at head.                                               *)
WindowOK == tail = (head + count) % size

(* Between calls the buffer is the two-slot minimum or more than half      *)
(* full; this is what makes the shrinking resize safe.                     *)
HalfFull == mutex = Free => size < 4 \/ count > size \div 2

(* A slot is occupied exactly when it is one of the count slots from head: *)
(* Request never hands out a nil task, and the buffer retains no reference *)
(* to a task it has handed out, through every wrap and every resize.       *)
SlotsExact == \A i \in 0 .. size - 1 : taskQueue[Slot(i)] = Nil <=> i >= count

(* The exit channel is closed only when intake is closed and nothing is    *)
(* left, not even a task whose Queue call read the stop flag before it was *)
(* set and has not stored yet.                                             *)
ExitSound == exit => stopFlag /\ count = 0 /\ Admitted = {}

(* The exit signal is not missed: once intake is closed, the buffer is     *)
(* empty and no call is in progress, the exit channel is closed.           *)
ExitComplete ==
  /\ stopFlag /\ count = 0 /\ mutex = Free
  /\ \A s \in Stoppers : pc[s] # "flagged"
  => exit

(* The buffer is a first-in first-out queue with a closable intake: every  *)
(* step of the ring is a step of TaskFifo or changes nothing it can see.   *)
Fifo == INSTANCE TaskFifo
          WITH backlog <- Backlog,
               closed  <- stopFlag,
               drained <- exit
RefinesFifo == Fifo!FifoSpec

(* A Shutdown that waits for the exit channel returns while consumers keep *)
(* requesting.                                                             *)
ShutdownReturns ==
  \A s \in Stoppers : pc[s] = "flagged" ~> pc[s] = "idle"
=============================================================================
