------------------------------ MODULE MCEpaxos ------------------------------
(* Instances of Epaxos for TLC: three replicas, small workloads.           *)
EXTENDS Epaxos

CONSTANT k1

(* One client command on k1 at replica 0; recovery by one coroutine per    *)
(* replica, which may race the proposer.  With Disconnectable = {0} this   *)
(* is sub test 1 of testPrepareNoopCommandAgree at N = 3: the leader is    *)
(* disconnected, starts the command, another replica prepares the slot,   *)
(* the leader is reconnected.                                              *)
WorkloadOne == [r \in 0..2 |-> IF r = 0 THEN <<k1>> ELSE <<>>]

(* Two conflicting commands on k1, proposed at replicas 0 and 1: two of   *)
(* the doConcurrentAgreement threads of testConcurrentAgree, which Start  *)
(* commands with one dkey at every server at once.                        *)
WorkloadConflict == [r \in 0..2 |-> IF r = 2 THEN <<>> ELSE <<k1>>]
====
