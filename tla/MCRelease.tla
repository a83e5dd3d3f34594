----------------------------- MODULE MCRelease -----------------------------
(* One compiler host; deploy hosts of their own, in a group, and in a pod. *)
EXTENDS Release, TLC

CONSTANTS vm, grouped, pod, group

MCGroupOf == [h \in Deployer |-> IF h = grouped THEN group ELSE NoGroup]

DirSymmetry == Permutations(Dir)

=============================================================================
