------------------------------ MODULE SysVSem ------------------------------
(***************************************************************************)
(* What the servers of lab_02 rely on of System V semaphores (semop(2)):   *)
(* a set of semaphores is changed by an array of operations, in the order  *)
(* of the array, all of them or none; a process whose array cannot be      *)
(* performed sleeps, and nothing of it is visible meanwhile.  No array of  *)
(* this program has more than MaxOps operations and none carries SEM_UNDO, *)
(* so a process that dies gives nothing back.                              *)
(***************************************************************************)
EXTENDS Integers, Sequences

MaxOps == 5

\* struct sembuf { sem_num, sem_op, sem_flg }, the flags being 0 everywhere.
Buf(num, op) == [num |-> num, op |-> op]

\* What the j-th operation adds to semaphore n, among the first k.
Term(ops, n, k, j) == IF j <= k /\ ops[j].num = n THEN ops[j].op ELSE 0

\* Semaphore n after the first k operations.
Level(sem, ops, n, k) ==
  sem[n] + Term(ops, n, k, 1) + Term(ops, n, k, 2) + Term(ops, n, k, 3)
         + Term(ops, n, k, 4) + Term(ops, n, k, MaxOps)

\* semop sleeps: some operation would take a semaphore below zero, or waits for
\* a zero (sem_op = 0) that is not there.
Blocks(sem, ops) ==
  \E k \in 1 .. Len(ops) :
    LET v == Level(sem, ops, ops[k].num, k)
    IN  v < 0 \/ (ops[k].op = 0 /\ v # 0)

\* What semop leaves behind when it does not sleep.
After(sem, ops) == [n \in DOMAIN sem |-> Level(sem, ops, n, Len(ops))]
=============================================================================
