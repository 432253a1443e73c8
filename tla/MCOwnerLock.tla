----------------------------- MODULE MCOwnerLock -----------------------------
(* OwnerLock with two processes: one opens the session twice, one once.    *)
EXTENDS OwnerLock

CONSTANTS p, q, a1, a2, b1

MCHome == [c \in {a1, a2, b1} |-> IF c = b1 THEN q ELSE p]
=============================================================================
