-------------------------- MODULE CheckpointStore ---------------------------
(***************************************************************************)
(* The bounded store of context checkpoints of one run                     *)
(* (context/checkpoint_store.py).  A checkpoint is a record with at least  *)
(* the field createdAt, a time in whole seconds; its file name is a digest *)
(* of the operation that wrote it.                                         *)
(***************************************************************************)
EXTENDS Naturals, FiniteSets

CONSTANT MaxCheckpointsPerRun

ASSUME MaxCheckpointsPerRunAssumption == MaxCheckpointsPerRun \in 1..64

(***************************************************************************)
(* _retain_latest lists the files and unlinks all but the last             *)
(* MaxCheckpointsPerRun of them, one after another.  Only the holder of    *)
(* the run's lock writes the store, so what it still has to unlink can be  *)
(* read off the files at every step: there are too many of them, and the   *)
(* next one to go is an oldest.                                            *)
(***************************************************************************)
Overfull(items) == Cardinality(items) > MaxCheckpointsPerRun

\* Mutant: the listing is not sorted by age.
AnyListed(items) == items

\* list_context_checkpoints sorts by (createdAt, checkpointId).  The id is a
\* digest, so the order of two checkpoints of one second is arbitrary.
Oldest(items) == {d \in items : \A k \in items : d.createdAt <= k.createdAt}
=============================================================================
