---------------------------- MODULE MC_Lifecycle ----------------------------
(* Lifecycle for TLC: commands that collide on a key, that are not meant   *)
(* for this worker, and that exceed the capacity; revisions that regress,  *)
(* conflict and cross targets.                                             *)
EXTENDS Lifecycle, TLC

Command(k, a) == [key |-> k, action |-> a, protocol |-> TRUE, ours |-> TRUE]

Revision(k, n, s) == [kind |-> k, revision |-> n, state |-> s, ours |-> TRUE]

(* k1 is reused for another command, the last three are not carried out,   *)
(* and three keys exceed a capacity of two.                                *)
SomeCommands ==
  {Command("k1", "drain"), Command("k1", "resume"), Command("k2", "terminate"),
   Command("k3", "other"),
   [Command("k2", "pause") EXCEPT !.protocol = FALSE],
   [Command("k3", "pause") EXCEPT !.ours = FALSE]}

TwoCommands == {Command("k1", "drain"), Command("k2", "resume")}

OneCommand == {Command("k1", "resume")}

(* Two targets, a conflict and a regression; the last two are refused. *)
SomeRevisions ==
  {Revision("worker_group", 1, "paused"), Revision("worker_group", 2, "active"),
   Revision("worker_group", 2, "draining"), Revision("worker", 1, "terminating"),
   Revision("queue", 1, "draining"),
   [Revision("queue", 1, "paused") EXCEPT !.ours = FALSE]}

OneRevision == {Revision("worker_group", 1, "paused")}

Interchangeable == Permutations(Callers)
=============================================================================
