---------------------------- MODULE MCApprovals ----------------------------
(* A batch about two services of a stack, and an archive of the stack.     *)
EXTENDS Approvals, TLC

CONSTANTS batch, archive, s0, s1, s2, w1, w2, m1

BothRuns == {batch, archive}
StackServices == {s0, s1, s2}
RootsOf == [r \in BothRuns |-> IF r = batch THEN {s1, s2} ELSE {s0, s1, s2}]
NamedOf == [r \in BothRuns |-> IF r = batch THEN {s1, s2} ELSE {s0}]
OnlyBatch == {batch}
OnlyArchive == {archive}
OneAgent == {m1}
TwoReviewers == {w1, w2}

(* The stack itself starts out needing an approval, as every archive does, *)
(* and so does a service of the batch, without which it is not held.       *)
StackInit == Init /\ perm[s0] = "approval_required" /\ perm[s2] = "approval_required"
StackSpec == StackInit /\ [][Next]_vars

Symmetric == Permutations(TwoReviewers)
=============================================================================
