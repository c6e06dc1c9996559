----------------------------- MODULE RingProofs -----------------------------
(***************************************************************************)
(* Proofs about module Ring, for every capacity (bounded or not), every    *)
(* set of tasks and any number of producers, consumers and stoppers.       *)
(***************************************************************************)
EXTENDS Ring, TLAPS

(* Remainders, as the slot indices of the ring use them *)
LEMMA ModBelow ==
  ASSUME NEW n \in Nat, n > 0, NEW a \in Nat, a < n
  PROVE  a % n = a
  BY SMT

LEMMA ModOnce ==
  ASSUME NEW n \in Nat, n > 0, NEW a \in Nat, a >= n, a < 2 * n
  PROVE  a % n = a - n
  BY SMT

LEMMA ModRange ==
  ASSUME NEW n \in Nat, n > 0, NEW a \in Nat
  PROVE  a % n \in 0 .. n - 1
  BY SMT

LEMMA ModDistinct ==
  ASSUME NEW n \in Nat, n > 0, NEW h \in 0 .. n - 1,
         NEW i \in 0 .. n - 1, NEW j \in 0 .. n - 1
  PROVE  (h + i) % n = (h + j) % n <=> i = j
<1>1. /\ h + i < n => (h + i) % n = h + i
      /\ h + i >= n => (h + i) % n = h + i - n
  BY ModBelow, ModOnce
<1>2. /\ h + j < n => (h + j) % n = h + j
      /\ h + j >= n => (h + j) % n = h + j - n
  BY ModBelow, ModOnce
<1> QED
  BY <1>1, <1>2

(* The size after a shrink *)
LEMMA DivHalf ==
  ASSUME NEW n \in Nat
  PROVE  /\ n \div 2 \in Nat
         /\ 2 * (n \div 2) <= n
         /\ n <= 2 * (n \div 2) + 1
  BY SMT

-----------------------------------------------------------------------------
(* The inductive invariant.  Shape says how full the buffer is in the      *)
(* middle of a Request as well, LockOK which method the holder of the      *)
(* mutex is in, StopOK that a stopper past its compare-and-swap has set    *)
(* the flag.                                                               *)

Shape ==
  /\ size < 4 \/ count >= size \div 2
  /\ (\A c \in Consumers : pc[c] # "dequeued")
       => size < 4 \/ count > size \div 2

LockOK ==
  \A p \in Procs :
    /\ pc[p] \in {"admitted", "dequeued"} <=> mutex = p
    /\ pc[p] = "admitted" => p \in Producers /\ arg[p] \in Tasks
    /\ pc[p] = "dequeued" => p \in Consumers

StopOK == \A s \in Stoppers : pc[s] \in {"flagged", "draining"} => stopFlag

IInv ==
  /\ TypeOK
  /\ NoPanic
  /\ WindowOK
  /\ Shape
  /\ SlotsExact
  /\ LockOK
  /\ StopOK
  /\ ExitSound
  /\ ExitComplete

-----------------------------------------------------------------------------
(* Where the i-th task lies, without the remainder.                        *)
LEMMA SlotIs ==
  ASSUME TypeOK, NEW i \in Nat, i <= size
  PROVE  /\ Slot(i) \in 0 .. size - 1
         /\ head + i < size => Slot(i) = head + i
         /\ head + i >= size => Slot(i) = head + i - size
<1>1. head + i \in Nat /\ head + i < 2 * size
  BY DEF TypeOK
<1> QED
  BY <1>1, ModBelow, ModOnce DEF Slot, TypeOK

(* resize moves the tasks to the front in order and leaves the rest empty. *)
LEMMA ResizedIs ==
  ASSUME TypeOK, WindowOK, SlotsExact,
         NEW n \in Nat, n >= 2, count <= n
  PROVE  /\ Resized(n) \in [0 .. n - 1 -> Tasks \cup {Nil}]
         /\ \A i \in 0 .. count - 1 : Resized(n)[i] = taskQueue[Slot(i)]
         /\ \A i \in 0 .. n - 1 : Resized(n)[i] = Nil <=> i >= count
<1> DEFINE firstRun == size - head
<1>0. /\ firstRun \in Nat /\ firstRun > 0
      /\ size \in Nat /\ size >= 2 /\ head \in Nat /\ head < size
      /\ tail \in Nat /\ tail < size /\ count \in Nat /\ count <= size
      /\ taskQueue \in [0 .. size - 1 -> Tasks \cup {Nil}]
  BY DEF TypeOK
<1> SUFFICES /\ Resized(n) \in [0 .. n - 1 -> Tasks \cup {Nil}]
             /\ \A i \in 0 .. count - 1 : Resized(n)[i] = taskQueue[Slot(i)]
             /\ \A i \in count .. n - 1 : Resized(n)[i] = Nil
  BY <1>0 DEF SlotsExact
<1>1. CASE ~Wrapped
  <2>1. tail = head + count /\ count > 0
    BY <1>0, <1>1, ModBelow, ModOnce DEF WindowOK, Wrapped
  <2>2. Resized(n) = [i \in 0 .. n - 1 |->
                       IF i < tail - head THEN taskQueue[head + i] ELSE Nil]
    BY <1>1 DEF Resized
  <2> QED
    BY <1>0, <2>1, <2>2, SlotIs
<1>2. CASE Wrapped
  <2>1. count = 0 \/ tail = head + count - size
    BY <1>0, <1>2, ModBelow, ModOnce DEF WindowOK, Wrapped
  <2>2. Resized(n) = [i \in 0 .. n - 1 |->
                       IF i < firstRun THEN taskQueue[head + i]
                       ELSE IF i - firstRun < tail THEN taskQueue[i - firstRun]
                            ELSE Nil]
    BY <1>2 DEF Resized
  <2>3. CASE count = 0
    <3>1. tail = head
      BY <1>0, <2>3, ModBelow DEF WindowOK
    <3>2. \A i \in 0 .. size - 1 : taskQueue[Slot(i)] = Nil
      BY <1>0, <2>3 DEF SlotsExact
    <3>3. ASSUME NEW j \in 0 .. size - 1
          PROVE  taskQueue[j] = Nil
      <4>1. CASE j >= head
        <5>1. j - head \in 0 .. size - 1 /\ Slot(j - head) = j
          BY <1>0, <4>1, SlotIs
        <5> QED
          BY <3>2, <5>1
      <4>2. CASE j < head
        <5>1. /\ j - head + size \in 0 .. size - 1
              /\ Slot(j - head + size) = j
          BY <1>0, <4>2, SlotIs
        <5> QED
          BY <3>2, <5>1
      <4> QED
        BY <1>0, <4>1, <4>2
    <3>4. ASSUME NEW i \in 0 .. n - 1
          PROVE  Resized(n)[i] = Nil
      <4>1. i < firstRun => head + i \in 0 .. size - 1
        BY <1>0
      <4>2. i >= firstRun /\ i - firstRun < tail => i - firstRun \in 0 .. size - 1
        BY <1>0
      <4> QED
        BY <1>0, <2>2, <3>3, <4>1, <4>2
    <3>5. Resized(n) = [i \in 0 .. n - 1 |-> Resized(n)[i]]
      BY <2>2
    <3> QED
      BY <1>0, <2>3, <3>4, <3>5
  <2>4. CASE count > 0
    <3>1. tail = head + count - size
      BY <1>0, <2>1, <2>4
    <3> QED
      BY <1>0, <2>2, <2>4, <3>1, SlotIs
  <2> QED
    BY <1>0, <2>3, <2>4
<1> QED
  BY <1>1, <1>2
-----------------------------------------------------------------------------
(* NewRing *)
LEMMA InitIInv ==
  ASSUME Init
  PROVE  IInv
<1>1. TypeOK /\ NoPanic /\ Shape
  <2>1. 0 .. size - 1 = 0 .. 1
    BY DEF Init
  <2>2. taskQueue \in [0 .. size - 1 -> Tasks \cup {Nil}]
    BY <2>1 DEF Init
  <2>3. /\ pc \in [Procs -> Controls]
        /\ arg \in [Procs -> Tasks \cup {Nil}]
        /\ ret \in [Procs -> Errors \cup Tasks]
    BY DEF Init, Controls, Errors
  <2>4. /\ size \in Nat /\ size >= 2 /\ count \in 0 .. size
        /\ head \in 0 .. size - 1 /\ tail \in 0 .. size - 1
    BY DEF Init
  <2>5. TypeOK
    BY <2>2, <2>3, <2>4 DEF Init, TypeOK
  <2> QED
    BY <2>5 DEF Init, NoPanic, Shape
<1>2. WindowOK /\ SlotsExact
  <2>1. WindowOK
    BY ModBelow DEF Init, WindowOK
  <2>2. ASSUME NEW i \in 0 .. size - 1
        PROVE  taskQueue[Slot(i)] = Nil <=> i >= count
    BY <1>1, SlotIs DEF Init, TypeOK
  <2> QED
    BY <2>1, <2>2 DEF SlotsExact
<1>3. LockOK /\ StopOK /\ ExitSound /\ ExitComplete
  BY RingAssumption
     DEF Init, LockOK, StopOK, ExitSound, ExitComplete, Procs
<1> QED
  BY <1>1, <1>2, <1>3 DEF IInv

(* The actions that leave the buffer alone.                                *)
LEMMA BufferUnchanged ==
  ASSUME IInv, UNCHANGED bufVars
  PROVE  /\ WindowOK' /\ SlotsExact'
         /\ size' \in Nat /\ size' >= 2
         /\ taskQueue' \in [0 .. size' - 1 -> Tasks \cup {Nil}]
         /\ count' \in 0 .. size'
         /\ head' \in 0 .. size' - 1
         /\ tail' \in 0 .. size' - 1
  BY DEF IInv, TypeOK, bufVars, WindowOK, SlotsExact, Slot

(* Each action preserves the inductive invariant. *)
LEMMA QueueRejectInv ==
  ASSUME IInv, NEW p \in Producers, QueueReject(p)
  PROVE  IInv'
<1>1. TypeOK'
  BY BufferUnchanged, RingAssumption
     DEF IInv, TypeOK, QueueReject, bufVars, Procs, Errors
<1>2. Shape' /\ LockOK' /\ StopOK' /\ ExitSound' /\ ExitComplete' /\ NoPanic'
  BY DEF IInv, QueueReject, bufVars, Shape, LockOK, StopOK, ExitSound,
         ExitComplete, NoPanic, Admitted
<1> QED
  BY <1>1, <1>2, BufferUnchanged DEF IInv, QueueReject

LEMMA QueueAdmitInv ==
  ASSUME IInv, NEW p \in Producers, NEW t \in Tasks, QueueAdmit(p, t)
  PROVE  IInv'
<1>1. TypeOK'
  BY BufferUnchanged, RingAssumption
     DEF IInv, TypeOK, QueueAdmit, bufVars, Procs, Controls
<1>2. Shape' /\ NoPanic'
  BY RingAssumption
     DEF IInv, TypeOK, QueueAdmit, bufVars, Shape, NoPanic, Procs
<1>3. LockOK' /\ StopOK'
  BY RingAssumption DEF IInv, TypeOK, QueueAdmit, LockOK, StopOK, Procs
<1>4. ExitSound' /\ ExitComplete'
  BY RingAssumption
     DEF IInv, TypeOK, QueueAdmit, ExitSound, ExitComplete, Procs
<1> QED
  BY <1>1, <1>2, <1>3, <1>4, BufferUnchanged DEF IInv, QueueAdmit

LEMMA RequestEmptyInv ==
  ASSUME IInv, NEW c \in Consumers, RequestEmpty(c)
  PROVE  IInv'
<1>1. TypeOK'
  BY BufferUnchanged, RingAssumption
     DEF IInv, TypeOK, RequestEmpty, bufVars, Procs, Errors
<1>2. Shape' /\ LockOK' /\ StopOK' /\ NoPanic'
  BY DEF IInv, RequestEmpty, bufVars, Shape, LockOK, StopOK, NoPanic
<1>3. ExitSound' /\ ExitComplete'
  BY RingAssumption
     DEF IInv, TypeOK, RequestEmpty, bufVars, LockOK, ExitSound, ExitComplete,
         Admitted, Procs
<1> QED
  BY <1>1, <1>2, <1>3, BufferUnchanged DEF IInv, RequestEmpty

LEMMA StopInv ==
  ASSUME IInv, NEW s \in Stoppers, StopFlag(s) \/ StopCheck(s) \/ StopReturn(s)
  PROVE  IInv'
<1> USE RingAssumption
<1>0. UNCHANGED bufVars
  BY DEF StopFlag, StopCheck, StopReturn
<1>1. TypeOK'
  BY <1>0, BufferUnchanged
     DEF IInv, TypeOK, StopFlag, StopCheck, StopReturn, Procs, Controls, Errors
<1>2. Shape' /\ NoPanic'
  BY <1>0
     DEF IInv, TypeOK, StopFlag, StopCheck, StopReturn, bufVars, Shape, NoPanic,
         Procs
<1>3. LockOK'
  BY DEF IInv, TypeOK, StopFlag, StopCheck, StopReturn, LockOK, Procs
<1>4. StopOK'
  BY DEF IInv, TypeOK, StopFlag, StopCheck, StopReturn, StopOK, Procs
<1>5. Admitted' = Admitted
  BY DEF IInv, TypeOK, StopFlag, StopCheck, StopReturn, Admitted, Procs
<1>6. ExitSound'
  <2>1. CASE StopFlag(s) \/ StopReturn(s)
    BY <1>0, <1>5, <2>1 DEF IInv, StopFlag, StopReturn, bufVars, ExitSound
  <2>2. CASE StopCheck(s)
    <3>1. Admitted = {} /\ stopFlag
      BY <2>2 DEF IInv, StopCheck, LockOK, StopOK, Admitted, Procs
    <3> QED
      BY <1>0, <1>5, <2>2, <3>1 DEF IInv, StopCheck, bufVars, ExitSound
  <2> QED
    BY <2>1, <2>2
<1>7. ExitComplete'
  <2>1. CASE StopFlag(s)
    BY <1>0, <2>1 DEF IInv, TypeOK, StopFlag, bufVars, ExitComplete, Procs
  <2>2. CASE StopCheck(s)
    BY <1>0, <2>2 DEF IInv, TypeOK, StopCheck, bufVars, ExitComplete, Procs
  <2>3. CASE StopReturn(s)
    BY <1>0, <2>3 DEF IInv, TypeOK, StopReturn, bufVars, ExitComplete, Procs
  <2> QED
    BY <2>1, <2>2, <2>3
<1> QED
  BY <1>0, <1>1, <1>2, <1>3, <1>4, <1>6, <1>7, BufferUnchanged DEF IInv

(* What Queue stores into: the buffer after the resize, if there is one.   *)
LEMMA QueueStoreInv ==
  ASSUME IInv, NEW p \in Producers, QueueStore(p)
  PROVE  IInv'
<1> USE RingAssumption
<1> DEFINE n == IF Grows THEN count * 2 ELSE size
           buf == IF Grows THEN Resized(n) ELSE taskQueue
           at == IF Grows THEN ResizedTail(n) ELSE tail
           h == IF Grows THEN 0 ELSE head
<1>0. TypeOK /\ WindowOK /\ SlotsExact /\ LockOK /\ mutex = p
      /\ arg[p] \in Tasks /\ p \in Procs
  BY DEF IInv, QueueStore, LockOK, Procs
<1>1. /\ n \in Nat /\ n >= 2 /\ count \in Nat /\ count < n
      /\ h \in Nat /\ h < n /\ at \in 0 .. n - 1
      /\ at = (h + count) % n
  BY <1>0, ModBelow DEF TypeOK, Grows, ResizedTail, WindowOK
<1>2. /\ buf \in [0 .. n - 1 -> Tasks \cup {Nil}]
      /\ \A i \in 0 .. n - 1 : buf[(h + i) % n] = Nil <=> i >= count
  <2>1. CASE Grows
    <3>1. n = count * 2 /\ h = 0 /\ buf = Resized(n) /\ count <= n
      BY <1>1, <2>1
    <3>2. /\ Resized(n) \in [0 .. n - 1 -> Tasks \cup {Nil}]
          /\ \A i \in 0 .. n - 1 : Resized(n)[i] = Nil <=> i >= count
      BY <1>0, <1>1, <3>1, ResizedIs
    <3>3. \A i \in 0 .. n - 1 : (h + i) % n = i
      BY <1>1, <3>1, ModBelow
    <3> QED
      BY <3>1, <3>2, <3>3
  <2>2. CASE ~Grows
    BY <1>0, <1>1, <2>2 DEF TypeOK, SlotsExact, Slot
  <2> QED
    BY <2>1, <2>2
<1>3. /\ size' = n /\ head' = h /\ count' = count + 1
      /\ taskQueue' = [buf EXCEPT ![at] = arg[p]]
      /\ tail' = (at + 1) % n
  BY DEF QueueStore, NextSlot
<1> HIDE DEF n, buf, at, h
<1>4. TypeOK'
  <2>1. /\ size' \in Nat /\ size' >= 2 /\ count' \in 0 .. size'
        /\ head' \in 0 .. size' - 1 /\ tail' \in 0 .. size' - 1
    BY <1>1, <1>3, ModRange
  <2>2. taskQueue' \in [0 .. size' - 1 -> Tasks \cup {Nil}]
    BY <1>0, <1>1, <1>2, <1>3
  <2> QED
    BY <2>1, <2>2, <1>0 DEF QueueStore, TypeOK, Controls, Errors
<1>5. NoPanic'
  <2>1. Grows => ~ResizePanics(count * 2)
    BY <1>0 DEF TypeOK, Grows, ResizePanics
  <2> QED
    BY <2>1 DEF IInv, QueueStore, NoPanic
<1>6. WindowOK'
  <2>1. h + count < n => at = h + count
    BY <1>1, ModBelow
  <2>2. h + count >= n => at = h + count - n
    BY <1>1, ModOnce
  <2>3. (at + 1) % n = (h + (count + 1)) % n
    <3>1. CASE h + count + 1 < n
      BY <1>1, <2>1, <3>1
    <3>2. CASE h + count + 1 = n
      BY <1>1, <2>1, <3>2
    <3>3. CASE h + count >= n
      <4>1. at + 1 = h + count + 1 - n /\ at + 1 < n
        BY <1>1, <2>2, <3>3
      <4>2. (at + 1) % n = at + 1
        BY <1>1, <4>1, ModBelow
      <4>3. (h + (count + 1)) % n = h + (count + 1) - n
        BY <1>1, <3>3, ModOnce
      <4> QED
        BY <1>1, <4>1, <4>2, <4>3
    <3> QED
      BY <1>1, <3>1, <3>2, <3>3
  <2> QED
    BY <1>3, <2>3 DEF WindowOK
<1>7. Shape'
  <2>1. size' < 4 \/ count' > size' \div 2
    BY <1>0, <1>3, DivHalf DEF n, IInv, Shape, Grows, TypeOK, LockOK, Procs
  <2> QED
    BY <2>1, <1>1, <1>3, DivHalf DEF Shape
<1>8. SlotsExact'
  <2> SUFFICES ASSUME NEW i \in 0 .. n - 1
               PROVE  taskQueue'[(h + i) % n] = Nil <=> i >= count + 1
    BY <1>3 DEF SlotsExact, Slot
  <2>1. /\ (h + i) % n \in 0 .. n - 1
        /\ (h + i) % n = at <=> i = count
    BY <1>1, ModDistinct, ModRange
  <2>2. buf[(h + i) % n] = Nil <=> i >= count
    BY <1>2
  <2>3. CASE i = count
    <3>1. taskQueue'[(h + i) % n] = arg[p]
      BY <1>2, <1>3, <2>1, <2>3
    <3> QED
      BY <1>0, <1>1, <2>3, <3>1
  <2>4. CASE i # count
    <3>1. taskQueue'[(h + i) % n] = buf[(h + i) % n]
      BY <1>2, <1>3, <2>1, <2>4
    <3> QED
      BY <1>1, <2>2, <2>4, <3>1
  <2> QED
    BY <2>3, <2>4
<1>9. LockOK' /\ StopOK'
  BY <1>0 DEF IInv, TypeOK, QueueStore, LockOK, StopOK, Procs
<1>10. ExitSound' /\ ExitComplete'
  <2>1. ~exit
    BY DEF IInv, QueueStore, ExitSound, Admitted
  <2>2. ~exit'
    BY <2>1 DEF QueueStore
  <2>3. count' # 0
    BY <1>1, <1>3
  <2> QED
    BY <2>2, <2>3 DEF ExitSound, ExitComplete
<1> QED
  BY <1>4, <1>5, <1>6, <1>7, <1>8, <1>9, <1>10 DEF IInv

(* The oldest task leaves the window. *)
LEMMA RequestTakeInv ==
  ASSUME IInv, NEW c \in Consumers, RequestTake(c)
  PROVE  IInv'
<1> USE RingAssumption
<1>0. TypeOK /\ WindowOK /\ SlotsExact /\ c \in Procs
  BY DEF IInv, Procs
<1>1. /\ size \in Nat /\ size >= 2 /\ count \in Nat /\ count > 0
      /\ count <= size /\ head \in Nat /\ head < size
      /\ size' = size /\ tail' = tail /\ count' = count - 1
      /\ head' = (head + 1) % size
      /\ taskQueue' = [taskQueue EXCEPT ![head] = Nil]
  BY <1>0 DEF TypeOK, RequestTake, NextSlot, Cleared
<1>2. /\ head + 1 < size => head' = head + 1
      /\ head + 1 = size => head' = 0
  <2>1. head + 1 < size => head' = head + 1
    BY <1>1, ModBelow
  <2>2. head + 1 = size => head' = 0
    BY <1>1, ModOnce
  <2> QED
    BY <2>1, <2>2
<1>3. TypeOK'
  <2>1. /\ count' \in 0 .. size' /\ head' \in 0 .. size' - 1
        /\ size' \in Nat /\ size' >= 2 /\ tail' \in 0 .. size' - 1
    BY <1>0, <1>1, <1>2 DEF TypeOK
  <2>2. taskQueue' \in [0 .. size' - 1 -> Tasks \cup {Nil}]
    BY <1>0, <1>1 DEF TypeOK
  <2>3. taskQueue[head] \in Errors \cup Tasks
    <3>1. Slot(0) = head /\ taskQueue[Slot(0)] # Nil
      BY <1>0, <1>1, SlotIs DEF SlotsExact
    <3> QED
      BY <1>0, <1>1, <3>1 DEF TypeOK
  <2> QED
    BY <1>0, <2>1, <2>2, <2>3 DEF TypeOK, RequestTake, Controls
<1>4. \A i \in 0 .. size - 1 :
        (head' + i) % size = (IF i = size - 1 THEN head ELSE (head + (i + 1)) % size)
  <2> SUFFICES ASSUME NEW i \in 0 .. size - 1
               PROVE  (head' + i) % size = (IF i = size - 1 THEN head
                                            ELSE (head + (i + 1)) % size)
    OBVIOUS
  <2>1. CASE head + 1 = size
    <3>1. (head' + i) % size = i
      BY <1>1, <1>2, <2>1, ModBelow
    <3>2. i < size - 1 => (head + (i + 1)) % size = i
      BY <1>1, <2>1, ModOnce
    <3> QED
      BY <1>1, <2>1, <3>1, <3>2
  <2>2. CASE head + 1 < size
    <3>1. head' + i = head + (i + 1)
      BY <1>1, <1>2, <2>2
    <3>2. i = size - 1 => (head + (i + 1)) % size = head
      BY <1>1, <2>2, ModOnce
    <3> QED
      BY <3>1, <3>2
  <2> QED
    BY <1>1, <2>1, <2>2
<1>5. WindowOK'
  <2>1. count - 1 \in 0 .. size - 1
    BY <1>1
  <2>2. CASE count - 1 = size - 1
    <3>1. (head + count) % size = head
      BY <1>1, <2>2, ModOnce
    <3>2. (head' + (count - 1)) % size = head
      BY <1>4, <2>1, <2>2
    <3> QED
      BY <1>0, <1>1, <3>1, <3>2 DEF WindowOK
  <2>3. CASE count - 1 # size - 1
    BY <1>0, <1>1, <1>4, <2>1, <2>3 DEF WindowOK
  <2> QED
    BY <2>2, <2>3
<1>6. SlotsExact'
  <2> SUFFICES ASSUME NEW i \in 0 .. size - 1
               PROVE  taskQueue'[(head' + i) % size] = Nil <=> i >= count - 1
    BY <1>1 DEF SlotsExact, Slot
  <2>1. CASE i = size - 1
    BY <1>0, <1>1, <1>4, <2>1 DEF TypeOK
  <2>2. CASE i # size - 1
    <3>1. i + 1 \in 0 .. size - 1
      BY <1>1, <2>2
    <3>2. (head + (i + 1)) % size \in 0 .. size - 1
      BY <1>1, ModRange
    <3>3. (head + (i + 1)) % size # head
      <4>1. (head + 0) % size = head
        BY <1>1, ModBelow
      <4> QED
        BY <1>1, <3>1, <4>1, ModDistinct
    <3>4. taskQueue'[(head' + i) % size] = taskQueue[(head + (i + 1)) % size]
      BY <1>0, <1>1, <1>4, <2>2, <3>2, <3>3 DEF TypeOK
    <3>5. taskQueue[(head + (i + 1)) % size] = Nil <=> i + 1 >= count
      BY <1>0, <3>1 DEF SlotsExact, Slot
    <3> QED
      BY <1>1, <3>4, <3>5
  <2> QED
    BY <2>1, <2>2
<1>7. Shape' /\ NoPanic'
  <2>1. size < 4 \/ count > size \div 2
    BY <1>0 DEF IInv, Shape, LockOK, RequestTake, Procs
  <2>2. size < 4 \/ count' >= size \div 2
    BY <1>1, <2>1, DivHalf
  <2>3. pc'[c] = "dequeued"
    BY <1>0 DEF RequestTake, TypeOK
  <2> QED
    BY <1>1, <2>2, <2>3 DEF IInv, Shape, NoPanic, RequestTake
<1>8. LockOK' /\ StopOK'
  BY <1>0 DEF IInv, TypeOK, RequestTake, LockOK, StopOK, Procs
<1>9. ExitSound' /\ ExitComplete'
  <2>1. ~exit
    BY <1>1 DEF IInv, ExitSound
  <2>2. ~exit' /\ mutex' # Free
    BY <2>1, <1>0 DEF RequestTake
  <2> QED
    BY <2>2 DEF ExitSound, ExitComplete
<1> QED
  BY <1>3, <1>5, <1>6, <1>7, <1>8, <1>9 DEF IInv

(* What Request leaves behind: the buffer after the resize, if any. *)
LEMMA RequestReturnInv ==
  ASSUME IInv, NEW c \in Consumers, RequestReturn(c)
  PROVE  IInv'
<1> USE RingAssumption
<1>0. TypeOK /\ WindowOK /\ SlotsExact /\ LockOK /\ mutex = c /\ c \in Procs
  BY DEF IInv, RequestReturn, LockOK, Procs
<1>1. /\ size \in Nat /\ size >= 2 /\ count \in Nat /\ count <= size
      /\ head \in Nat /\ head < size /\ tail \in Nat /\ tail < size
      /\ size \div 2 \in Nat
  BY <1>0, DivHalf DEF TypeOK
<1>2. Shrinks => count = size \div 2 /\ count >= 2
  BY <1>1, DivHalf DEF IInv, Shape, Shrinks
<1> DEFINE BufferOK ==
             /\ size' \in Nat /\ size' >= 2 /\ count' \in 0 .. size'
             /\ head' \in 0 .. size' - 1 /\ tail' \in 0 .. size' - 1
             /\ taskQueue' \in [0 .. size' - 1 -> Tasks \cup {Nil}]
             /\ NoPanic' /\ WindowOK' /\ SlotsExact'
             /\ size' < 4 \/ count' > size' \div 2
             /\ count' = count
<1>3. ASSUME Shrinks
      PROVE  BufferOK
  <2> DEFINE n == size \div 2
  <2>1. /\ size' = n /\ head' = 0 /\ tail' = 0 /\ count' = count
        /\ taskQueue' = Resized(n) /\ n = count /\ n >= 2
    BY <1>1, <1>2, <1>3 DEF RequestReturn, ResizedTail
  <2>2. /\ Resized(n) \in [0 .. n - 1 -> Tasks \cup {Nil}]
        /\ \A i \in 0 .. n - 1 : Resized(n)[i] = Nil <=> i >= count
    BY <1>0, <1>1, <2>1, ResizedIs
  <2> HIDE DEF n
  <2>3. ~ResizePanics(n)
    <3>1. Wrapped => head + count >= size
      BY <1>0, <1>1, <2>1, ModBelow DEF Wrapped, WindowOK
    <3> QED
      BY <1>1, <2>1, <3>1 DEF ResizePanics
  <2>4. NoPanic'
    BY <1>3, <2>3 DEF IInv, NoPanic, RequestReturn, n
  <2>5. WindowOK'
    BY <1>1, <2>1 DEF WindowOK
  <2>6. SlotsExact'
    <3>1. \A i \in 0 .. n - 1 : (0 + i) % n = i
      BY <1>1, <2>1, ModBelow
    <3> QED
      BY <2>1, <2>2, <3>1 DEF SlotsExact, Slot
  <2>7. size' < 4 \/ count' > size' \div 2
    BY <1>1, <2>1, DivHalf
  <2>8. /\ size' \in Nat /\ size' >= 2 /\ count' \in 0 .. size'
        /\ head' \in 0 .. size' - 1 /\ tail' \in 0 .. size' - 1
        /\ taskQueue' \in [0 .. size' - 1 -> Tasks \cup {Nil}]
    BY <1>1, <2>1, <2>2
  <2> QED
    BY <2>1, <2>4, <2>5, <2>6, <2>7, <2>8
<1>4. ASSUME ~Shrinks
      PROVE  BufferOK
  <2>1. UNCHANGED bufVars
    BY <1>4 DEF RequestReturn, bufVars
  <2>2. NoPanic'
    BY <1>4 DEF IInv, NoPanic, RequestReturn
  <2>3. size' < 4 \/ count' > size' \div 2
    BY <1>1, <1>4, <2>1, DivHalf DEF Shrinks, bufVars
  <2> QED
    BY <2>1, <2>2, <2>3, BufferUnchanged DEF bufVars
<1>5. BufferOK
  BY <1>3, <1>4
<1> HIDE DEF BufferOK
<1>6. TypeOK'
  BY <1>0, <1>5 DEF BufferOK, TypeOK, RequestReturn, Controls
<1>7. Shape'
  <2>0. size' \div 2 \in Nat /\ count' \in Nat
    <3>1. size' \in Nat /\ count' \in Nat
      BY <1>5 DEF BufferOK
    <3> QED
      BY <3>1, DivHalf
  <2>1. size' < 4 \/ count' >= size' \div 2
    <3>1. size' < 4 \/ count' > size' \div 2
      BY <1>5 DEF BufferOK
    <3> QED
      BY <2>0, <3>1
  <2> QED
    BY <1>5, <2>1 DEF BufferOK, Shape
<1>8. LockOK' /\ StopOK'
  BY <1>0 DEF IInv, TypeOK, RequestReturn, LockOK, StopOK, Procs
<1>9. ExitSound'
  <2>1. Admitted = {}
    BY <1>0 DEF LockOK, Admitted, Procs
  <2>2. Admitted' = {}
    BY <1>0, <2>1 DEF RequestReturn, Admitted, TypeOK, Procs
  <2> QED
    BY <1>5, <2>2 DEF BufferOK, IInv, ExitSound, RequestReturn, LastTaskTaken
<1>10. ExitComplete'
  BY <1>5 DEF BufferOK, ExitComplete, RequestReturn, LastTaskTaken
<1> QED
  BY <1>5, <1>6, <1>7, <1>8, <1>9, <1>10 DEF BufferOK, IInv

(* Every step does. *)
LEMMA NextIInv ==
  ASSUME IInv, [Next]_vars
  PROVE  IInv'
<1>1. ASSUME UNCHANGED vars
      PROVE  IInv'
  <2>1. UNCHANGED bufVars
    BY <1>1 DEF vars, bufVars
  <2> QED
    BY <1>1, <2>1, BufferUnchanged
       DEF IInv, TypeOK, NoPanic, Shape, LockOK, StopOK, ExitSound,
           ExitComplete, Admitted, vars
<1>2. ASSUME NEW p \in Producers,
             QueueReject(p) \/ (\E t \in Tasks : QueueAdmit(p, t)) \/ QueueStore(p)
      PROVE  IInv'
  BY <1>2, QueueRejectInv, QueueAdmitInv, QueueStoreInv
<1>3. ASSUME NEW c \in Consumers,
             RequestEmpty(c) \/ RequestTake(c) \/ RequestReturn(c)
      PROVE  IInv'
  BY <1>3, RequestEmptyInv, RequestTakeInv, RequestReturnInv
<1>4. ASSUME NEW s \in Stoppers, StopFlag(s) \/ StopCheck(s) \/ StopReturn(s)
      PROVE  IInv'
  BY <1>4, StopInv
<1> QED
  BY <1>1, <1>2, <1>3, <1>4 DEF Next

(* The inductive invariant *)
LEMMA RingIInv == Spec => []IInv
<1>1. Init => IInv
  BY InitIInv
<1>2. IInv /\ [Next]_vars => IInv'
  BY NextIInv
<1> QED
  BY <1>1, <1>2, PTL DEF Spec

-----------------------------------------------------------------------------
(* Every variable of ring.go keeps its type; in particular the indices     *)
(* Queue and Request use are always inside the current buffer.             *)
THEOREM RingTypeOK == Spec => []TypeOK
<1>1. IInv => TypeOK
  BY DEF IInv
<1> QED
  BY <1>1, RingIInv, PTL

(* No sequence of Queue and Request calls, wrapped or not, makes resize    *)
(* evaluate a slice expression that is out of range.                       *)
THEOREM RingNoPanic == Spec => []NoPanic
<1>1. IInv => NoPanic
  BY DEF IInv
<1> QED
  BY <1>1, RingIInv, PTL

(* The slots that hold tasks are exactly the count slots from head.        *)
THEOREM RingSlotsExact == Spec => [](WindowOK /\ SlotsExact)
<1>1. IInv => WindowOK /\ SlotsExact
  BY DEF IInv
<1> QED
  BY <1>1, RingIInv, PTL

(* Between calls the buffer is more than half full or minimal.             *)
THEOREM RingHalfFull == Spec => []HalfFull
<1>1. IInv => HalfFull
  BY RingAssumption DEF IInv, HalfFull, Shape, LockOK, Procs
<1> QED
  BY <1>1, RingIInv, PTL

(* The exit channel is closed exactly when intake is closed and nothing is *)
(* left: never early, although the stop flag is set outside the mutex, and *)
(* never missed.                                                           *)
THEOREM RingExit == Spec => [](ExitSound /\ ExitComplete)
<1>1. IInv => ExitSound /\ ExitComplete
  BY DEF IInv
<1> QED
  BY <1>1, RingIInv, PTL
=============================================================================
