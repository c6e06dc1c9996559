------------------------------ MODULE TaskFifo ------------------------------
(***************************************************************************)
(* What the in-memory worker promises to the coordinator: a first-in       *)
(* first-out queue of tasks, whose intake is closed once and for ever and  *)
(* which announces, once and for ever, that it has been closed and         *)
(* emptied.  ring.go implements it (module Ring); queue.go is written      *)
(* against it (module Queue).                                              *)
(***************************************************************************)
EXTENDS Naturals, Sequences

CONSTANTS Tasks,     \* the task messages a producer may submit
          Capacity   \* the admission bound; 0 means unbounded

VARIABLES backlog,   \* the queued tasks, oldest first
          closed,    \* intake is closed
          drained    \* the drained signal has been given

fifoVars == <<backlog, closed, drained>>

FifoTypeOK ==
  /\ backlog \in Seq(Tasks)
  /\ closed \in BOOLEAN
  /\ drained \in BOOLEAN

FifoInit ==
  /\ backlog = << >>
  /\ closed = FALSE
  /\ drained = FALSE

HasRoom == Capacity > 0 => Len(backlog) < Capacity

Enqueue(t) ==
  /\ ~closed
  /\ HasRoom
  /\ backlog' = Append(backlog, t)
  /\ UNCHANGED <<closed, drained>>

(* Taking the last task of a closed queue gives the drained signal. *)
Dequeue ==
  /\ backlog # << >>
  /\ backlog' = Tail(backlog)
  /\ drained' = (drained \/ (closed /\ Tail(backlog) = << >>))
  /\ UNCHANGED closed

CloseIntake ==
  /\ ~closed
  /\ closed' = TRUE
  /\ UNCHANGED <<backlog, drained>>

SignalDrained ==
  /\ closed
  /\ backlog = << >>
  /\ drained' = TRUE
  /\ UNCHANGED <<backlog, closed>>

FifoNext ==
  \/ \E t \in Tasks : Enqueue(t)
  \/ Dequeue
  \/ CloseIntake
  \/ SignalDrained

FifoSpec == FifoInit /\ [][FifoNext]_fifoVars
=============================================================================
