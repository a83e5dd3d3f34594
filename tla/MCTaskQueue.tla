----------------------------- MODULE MCTaskQueue -----------------------------
(***************************************************************************)
(* Instances of TaskQueue for TLC.                                         *)
(***************************************************************************)
EXTENDS TaskQueue, TLC

CONSTANTS w1, w2, qa, qb

(* The hosts of one compiler pool: all workers poll the same filter. *)
SharedServes == [w \in Worker |-> qa]

(* One worker per filter, as for testcase, suite, dictionary and hosts that
   are exclusive or alone. *)
ExclusiveServes == (w1 :> qa) @@ (w2 :> qb)

TaskSymmetry == Permutations(Task)
Symmetry == Permutations(Task) \cup Permutations(Worker)

==============================================================================
