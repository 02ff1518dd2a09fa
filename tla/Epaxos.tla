------------------------------- MODULE Epaxos -------------------------------
(***************************************************************************)
(* The leaderless consensus core of EpaxosServer (src/src/deptran/epaxos/  *)
(* server.cc): the per-slot PreAccept / Accept / Commit / Prepare state    *)
(* machine of every replica, its key tracker (dkey_seq, dkey_deps,         *)
(* received_till), the client request queue and the coroutines that drive  *)
(* a slot: the proposing coroutine started by the request loop (lane 0)    *)
(* and the PrepareTillCommitted recovery coroutines (lanes 1..RecLanes).   *)
(*                                                                         *)
(* A coroutine only suspends at ev->Wait and at Coroutine::Sleep, so the   *)
(* code between two suspension points is one atomic step here.  Requests   *)
(* travel in the set msgs and may be delivered late, in any order, or      *)
(* never.  A coroutine waiting on a quorum event decides with any subset   *)
(* of the replies that reached it: the others were lost or came after the  *)
(* event fired or timed out.                                               *)
(***************************************************************************)
EXTENDS Integers, Sequences, FiniteSets, FiniteSetsExt

CONSTANTS
    N,            \* number of replicas in the partition
    Workload,     \* Workload[r]: the dkeys that clients Start at replica r, in order
    Keys,         \* conflict keys (dkey) of client commands
    NoopKey,      \* NOOP_DKEY
    Cmd, Noop,    \* command kinds: a client command, a TpcNoopCommand
    None,         \* payload and dkey of a slot that is NOT_STARTED
    RecoveryAt,   \* replicas whose execution loop or Prepare calls start PrepareTillCommitted
    PrepareApi,   \* TRUE: Prepare(replica, instance) may be called for any slot at any time
    RecLanes,     \* PrepareTillCommitted coroutines that may run for one slot on one replica
    MaxPrepares,  \* bound on the StartPrepare attempts of one recovery coroutine
    Disconnectable \* replicas the test harness may Disconnect and reconnect

Replicas == 0..N-1
AllKeys  == Keys \cup {NoopKey}
Slots    == UNION {{<<r, i>> : i \in 0..Len(Workload[r]) - 1} : r \in Replicas}
Lanes    == 0..RecLanes
Tasks    == {<<r, s, l>> \in Replicas \X Slots \X Lanes :
                /\ l = 0 => r = s[1]
                /\ l > 0 => r \in RecoveryAt}

ASSUME N \in Nat \ {0} /\ PrepareApi \in BOOLEAN /\ RecoveryAt \subseteq 0..N-1 /\ RecLanes \in Nat /\ MaxPrepares \in Nat
ASSUME Disconnectable \subseteq 0..N-1
ASSUME \A r \in Replicas : Workload[r] \in Seq(Keys)

(* An instance number, -1 standing for an entry absent from a deps map.    *)
MaxInst == Max({Len(Workload[r]) : r \in Replicas}) - 1
Inst    == -1..MaxInst
NoDeps  == [q \in Replicas |-> -1]

States == {"NOT_STARTED", "PRE_ACCEPTED", "ACCEPTED", "COMMITTED", "EXECUTED"}
Committed(c) == c.state \in {"COMMITTED", "EXECUTED"}

(***************************************************************************)
(* EpaxosBallot (epoch, ballot_no, replica_id), compared lexicographically. *)
(* curr_epoch is never changed by the server, so a ballot is the pair      *)
(* <<ballot_no, replica_id>>.  The default-constructed ballot is           *)
(* (0, -1, 0); a proposal starts at (curr_epoch, 0, replica_id_).          *)
(***************************************************************************)
NullBallot       == <<-1, 0>>
DefaultBallot(r) == <<0, r>>
isGreater(a, b)  == a[1] > b[1] \/ (a[1] = b[1] /\ a[2] > b[2])
isGreaterOrEqual(a, b) == isGreater(a, b) \/ a = b
isDefault(b)     == b[1] = 0
MaxBallot(S)     == CHOOSE b \in S : \A o \in S : isGreaterOrEqual(b, o)

(* Reply counts of the quorum events (EpaxosCommo): peers only, the       *)
(* coordinator's own vote is its local step.                              *)
FastQuorum == N - N \div 2
SlowQuorum == N \div 2

(* Mutant: recovery asks for one identical default-ballot reply more.     *)
RecoveryQuorumHigh == N \div 2 + 1

(* StartPrepare's shortcut: rec_cmd.count >= n_total/2.                    *)
RecoveryQuorum == N \div 2

VARIABLES
    cmds,             \* cmds[r][s]: replica r's EpaxosCommand record of slot s
    dkey_seq,         \* dkey_seq[r][k]: highest seq replica r assigned for key k
    dkey_deps,        \* dkey_deps[r][k][q]: highest instance of q touching k known to r
    received_till,    \* received_till[r][q]: highest instance of q that r has heard of
    next_instance_no, \* next_instance_no[r]
    reqs,             \* reqs[r]: EpaxosRequests queued by Start, not yet picked up
    coro,             \* coro[t]: program state of coroutine t = <<replica, slot, lane>>
    inbox,            \* inbox[t]: replies of the current round of t that reached it
    msgs,             \* requests in flight
    disconnected      \* disconnected_[r]: r's rpc_par_proxies_ are taken away

vars == <<cmds, dkey_seq, dkey_deps, received_till, next_instance_no, reqs,
          coro, inbox, msgs, disconnected>>

EmptySlot == [cmd |-> None, dkey |-> None, seq |-> 0, deps |-> NoDeps,
              highest_seen |-> NullBallot, state |-> "NOT_STARTED",
              preparing |-> FALSE]
Value(c) == [cmd |-> c.cmd, dkey |-> c.dkey, seq |-> c.seq, deps |-> c.deps]

(* The key tracker of replica r as one record, so that handlers can chain  *)
(* several updates of it.                                                  *)
Loc(r) == [ds |-> dkey_seq[r], dd |-> dkey_deps[r], rt |-> received_till[r]]
SetLoc(r, L) ==
    /\ dkey_seq'      = [dkey_seq EXCEPT ![r] = L.ds]
    /\ dkey_deps'     = [dkey_deps EXCEPT ![r] = L.dd]
    /\ received_till' = [received_till EXCEPT ![r] = L.rt]

(* Mutants of UpdateInternalAttributes: the slot's own instance raised   *)
(* one too far; the instance not recorded under its key; received_till    *)
(* left alone.                                                             *)
UIAOffByOne(L, R, s) ==
    LET C(k) == {x \in R : x.cmd # Noop /\ x.dkey = k}
        Own(q) == IF q = s[1] THEN s[2] + 1 ELSE -1
    IN [ds |-> [k \in AllKeys |-> Max({L.ds[k]} \cup {x.seq : x \in C(k)})],
        dd |-> [k \in AllKeys |-> [q \in Replicas |->
                  Max({L.dd[k][q]} \cup {x.deps[q] : x \in C(k)} \cup {Own(q) : x \in C(k)})]],
        rt |-> [q \in Replicas |-> Max({L.rt[q]} \cup {Own(q) : x \in R}
                                    \cup {x.deps[q] : x \in {y \in R : y.cmd # Noop}})]]
UIANoOwn(L, R, s) ==
    LET C(k) == {x \in R : x.cmd # Noop /\ x.dkey = k}
    IN [ds |-> [k \in AllKeys |-> Max({L.ds[k]} \cup {x.seq : x \in C(k)})],
        dd |-> [k \in AllKeys |-> [q \in Replicas |->
                  Max({L.dd[k][q]} \cup {x.deps[q] : x \in C(k)})]],
        rt |-> [q \in Replicas |-> Max({L.rt[q]} \cup {IF q = s[1] THEN s[2] ELSE -1 : x \in R}
                                    \cup {x.deps[q] : x \in {y \in R : y.cmd # Noop}})]]
UIANoReceived(L, R, s) ==
    LET C(k) == {x \in R : x.cmd # Noop /\ x.dkey = k}
        Own(q) == IF q = s[1] THEN s[2] ELSE -1
    IN [ds |-> [k \in AllKeys |-> Max({L.ds[k]} \cup {x.seq : x \in C(k)})],
        dd |-> [k \in AllKeys |-> [q \in Replicas |->
                  Max({L.dd[k][q]} \cup {x.deps[q] : x \in C(k)} \cup {Own(q) : x \in C(k)})]],
        rt |-> L.rt]

(* UpdateInternalAttributes applied for every value in R, all of slot s.   *)
(* received_till of the slot's owner is raised even for a NOOP; the rest   *)
(* only for client commands.                                               *)
UpdateInternalAttributes(L, R, s) ==
    LET C(k) == {x \in R : x.cmd # Noop /\ x.dkey = k}
        Own(q) == IF q = s[1] THEN s[2] ELSE -1
    IN [ds |-> [k \in AllKeys |-> Max({L.ds[k]} \cup {x.seq : x \in C(k)})],
        dd |-> [k \in AllKeys |-> [q \in Replicas |->
                  Max({L.dd[k][q]} \cup {x.deps[q] : x \in C(k)}
                                   \cup {Own(q) : x \in C(k)})]],
        rt |-> [q \in Replicas |->
                  Max({L.rt[q]} \cup {Own(q) : x \in R}
                                \cup {x.deps[q] : x \in {y \in R : y.cmd # Noop}})]]

(* The local half of StartPreAccept, up to the broadcast: attributes from  *)
(* the key tracker, the leader's own dependency overridden by ldi.         *)
PreAcceptLocal(c, L, cmd, dkey, bal, s, ldi) ==
    LET seq  == L.ds[dkey] + 1
        deps == [L.dd[dkey] EXCEPT ![s[1]] = ldi]
    IN [slot |-> [c EXCEPT !.cmd = cmd, !.dkey = dkey, !.seq = seq, !.deps = deps,
                           !.highest_seen = bal, !.state = "PRE_ACCEPTED"],
        L    |-> [ds |-> IF cmd = Noop THEN L.ds ELSE [L.ds EXCEPT ![dkey] = seq],
                  dd |-> IF cmd = Noop THEN L.dd
                         ELSE [L.dd EXCEPT ![dkey][s[1]] = Max({@, s[2]})],
                  rt |-> [L.rt EXCEPT ![s[1]] = Max({@, s[2]})]]]

(* Mutant: the slow path merges the replies' seq but not their deps.       *)
UpdateAttributesSeqOnly(c, L, Q) ==
    IF c.cmd = Noop THEN [slot |-> c, L |-> L]
    ELSE [slot |-> [c EXCEPT !.seq = Max({@} \cup {x.seq : x \in Q})],
          L |-> [L EXCEPT !.ds[c.dkey] = Max({@} \cup {x.seq : x \in Q})]]

(* UpdateAttributes: the slow path merges seq and deps of the replies.     *)
UpdateAttributes(c, L, Q) ==
    IF c.cmd = Noop THEN [slot |-> c, L |-> L]
    ELSE LET k == c.dkey
             D(q) == {x.deps[q] : x \in Q}
         IN [slot |-> [c EXCEPT !.seq = Max({@} \cup {x.seq : x \in Q}),
                                !.deps = [q \in Replicas |-> Max({@[q]} \cup D(q))]],
             L |-> [ds |-> [L.ds EXCEPT ![k] = Max({@} \cup {x.seq : x \in Q})],
                    dd |-> [L.dd EXCEPT ![k] = [q \in Replicas |-> Max({@[q]} \cup D(q))]],
                    rt |-> [q \in Replicas |-> Max({L.rt[q]} \cup D(q))]]]

UpdateHighestSeenBallot(c, Q) ==
    [c EXCEPT !.highest_seen = MaxBallot({@} \cup {x.bal : x \in Q})]

(* A request of coroutine t, round rnd, to every other replica; none at   *)
(* all while its replica is disconnected (no proxies to send through).     *)
Broadcast(type, t, rnd, bal, s, c) ==
    IF disconnected[t[1]] THEN {} ELSE
    {[type |-> type, to |-> q, from |-> t, rnd |-> rnd, bal |-> bal, slot |-> s,
      cmd |-> c.cmd, dkey |-> c.dkey, seq |-> c.seq, deps |-> c.deps] :
        q \in Replicas \ {t[1]}}

(* EpaxosPrepareReply of replica r for its record c (status true).         *)
PrepareReply(r, c) ==
    IF c.state = "NOT_STARTED"
    THEN [from |-> r, status |-> TRUE, cmd |-> Noop, dkey |-> NoopKey, seq |-> 0,
          deps |-> NoDeps, state |-> "NOT_STARTED", bal |-> NullBallot]
    ELSE [from |-> r, status |-> TRUE, cmd |-> c.cmd, dkey |-> c.dkey, seq |-> c.seq,
          deps |-> c.deps, state |-> c.state, bal |-> c.highest_seen]

(* self_reply of a coroutine that is not in StartPrepare.                 *)
NoSelf == PrepareReply(0, EmptySlot)

Init ==
    /\ cmds = [r \in Replicas |-> [s \in Slots |-> EmptySlot]]
    /\ dkey_seq = [r \in Replicas |-> [k \in AllKeys |-> 0]]
    /\ dkey_deps = [r \in Replicas |-> [k \in AllKeys |-> NoDeps]]
    /\ received_till = [r \in Replicas |-> NoDeps]
    /\ next_instance_no = [r \in Replicas |-> 0]
    /\ reqs = [r \in Replicas |-> <<>>]
    /\ coro = [t \in Tasks |-> [pc |-> "idle", rnd |-> 0, bal |-> NullBallot,
                                self |-> NoSelf, tries |-> 0]]
    /\ inbox = [t \in Tasks |-> {}]
    /\ msgs = {}
    /\ disconnected = [r \in Replicas |-> FALSE]

-----------------------------------------------------------------------------
(* Coroutine bookkeeping.  A reply reaches coroutine t only while t still  *)
(* waits in the round and phase the request was sent in; afterwards the   *)
(* quorum event is gone and the reply is dropped.                          *)
Reply(m, rep) ==
    inbox' = IF coro[m.from].pc = m.type /\ coro[m.from].rnd = m.rnd
             THEN [inbox EXCEPT ![m.from] = @ \cup {rep}]
             ELSE inbox

(* The locals of StartPrepare (its ballot and self_reply) go out of scope *)
(* when it moves on to another phase or returns.                           *)
Leave(t, pc) == [coro[t] EXCEPT !.pc = pc, !.bal = NullBallot, !.self = NoSelf]
NewRound(t, pc) == [Leave(t, pc) EXCEPT !.rnd = @ + 1]

(* Mutant: preparing is left set when PrepareTillCommitted returns.     *)
EndSlotKeep(t, c) == c

(* PrepareTillCommitted clears preparing once StartPrepare returned true.  *)
EndSlot(t, c) == IF t[3] = 0 THEN c ELSE [c EXCEPT !.preparing = FALSE]

(* StartPreAccept from its start to ev->Wait, with the local result pa.    *)
PreAcceptStep(t, pa) ==
    /\ cmds' = [cmds EXCEPT ![t[1]][t[2]] = pa.slot]
    /\ SetLoc(t[1], pa.L)
    /\ coro' = [coro EXCEPT ![t] = NewRound(t, "PreAccept")]
    /\ inbox' = [inbox EXCEPT ![t] = {}]
    /\ msgs' = msgs \cup Broadcast("PreAccept", t, coro[t].rnd + 1,
                                   pa.slot.highest_seen, t[2], pa.slot)

(* StartAccept up to ev->Wait: the record c (already updated by the       *)
(* caller) becomes ACCEPTED whatever its state, and is sent with its own  *)
(* highest_seen as the ballot.                                             *)
AcceptStep(t, c, L) ==
    LET c2 == [c EXCEPT !.state = "ACCEPTED"]
    IN /\ cmds' = [cmds EXCEPT ![t[1]][t[2]] = c2]
       /\ SetLoc(t[1], L)
       /\ coro' = [coro EXCEPT ![t] = NewRound(t, "Accept")]
       /\ inbox' = [inbox EXCEPT ![t] = {}]
       /\ msgs' = msgs \cup Broadcast("Accept", t, coro[t].rnd + 1,
                                      c2.highest_seen, t[2], c2)

(* Mutant: StartCommit commits locally but sends no commit requests.     *)
CommitStepNoBroadcast(t, c, L) ==
    LET c2 == IF c.state = "EXECUTED" THEN c ELSE [c EXCEPT !.state = "COMMITTED"]
    IN /\ cmds' = [cmds EXCEPT ![t[1]][t[2]] = EndSlot(t, c2)]
       /\ SetLoc(t[1], L)
       /\ coro' = [coro EXCEPT ![t] = Leave(t, IF t[3] = 0 THEN "done" ELSE "idle")]
       /\ inbox' = [inbox EXCEPT ![t] = {}]
       /\ UNCHANGED msgs

(* StartCommit, and the coroutine returning true: lane 0 ends, a recovery *)
(* coroutine clears preparing and goes back to idle.                       *)
CommitStep(t, c, L) ==
    LET c2 == IF c.state = "EXECUTED" THEN c ELSE [c EXCEPT !.state = "COMMITTED"]
    IN /\ cmds' = [cmds EXCEPT ![t[1]][t[2]] = EndSlot(t, c2)]
       /\ SetLoc(t[1], L)
       /\ coro' = [coro EXCEPT ![t] = Leave(t, IF t[3] = 0 THEN "done" ELSE "idle")]
       /\ inbox' = [inbox EXCEPT ![t] = {}]
       /\ msgs' = msgs \cup Broadcast("Commit", t, coro[t].rnd,
                                      c2.highest_seen, t[2], c2)

(* A phase failed (timeout or No()): UpdateHighestSeenBallot, return false.*)
FailStep(t, c) ==
    /\ cmds' = [cmds EXCEPT ![t[1]][t[2]] = c]
    /\ coro' = [coro EXCEPT ![t] = Leave(t, IF t[3] = 0 THEN "done" ELSE "retry")]
    /\ inbox' = [inbox EXCEPT ![t] = {}]
    /\ UNCHANGED <<dkey_seq, dkey_deps, received_till, msgs>>

-----------------------------------------------------------------------------
(* Start -> CreateEpaxosRequest: a new instance, queued for the request   *)
(* loop; the key's own dependency is moved to it at once.                  *)
Start(r) ==
    LET i == next_instance_no[r]
        k == Workload[r][i + 1]
    IN /\ i < Len(Workload[r])
       /\ next_instance_no' = [next_instance_no EXCEPT ![r] = i + 1]
       /\ reqs' = [reqs EXCEPT ![r] = Append(@, [dkey |-> k, inst |-> i,
                                                 ldi |-> dkey_deps[r][k][r]])]
       /\ dkey_deps' = [dkey_deps EXCEPT ![r][k][r] = i]
       /\ UNCHANGED <<cmds, dkey_seq, received_till, coro, inbox, msgs>>

(* The request loop pops a request and runs StartPreAccept in a new      *)
(* coroutine (lane 0 of the slot), with the default ballot.                *)
ProcessRequest(r) ==
    /\ reqs[r] # <<>>
    /\ LET q == Head(reqs[r])
           s == <<r, q.inst>>
       IN PreAcceptStep(<<r, s, 0>>, PreAcceptLocal(cmds[r][s], Loc(r), Cmd, q.dkey,
                                                     DefaultBallot(r), s, q.ldi))
    /\ reqs' = [reqs EXCEPT ![r] = Tail(@)]
    /\ UNCHANGED next_instance_no

-----------------------------------------------------------------------------
(* OnPreAcceptRequest at replica r.                                        *)
OnPreAcceptRequest(r, m) ==
    LET s    == m.slot
        c    == cmds[r][s]
        L    == Loc(r)
        seq  == Max({L.ds[m.dkey] + 1, m.seq})
        deps == [q \in Replicas |-> IF q = s[1] THEN m.deps[q]
                                    ELSE Max({m.deps[q], L.dd[m.dkey][q]})]
        ldi  == Max({L.dd[m.dkey][s[1]], s[2]})
        L2   == IF m.cmd = Noop THEN [L EXCEPT !.rt[s[1]] = Max({@, s[2]})]
                ELSE [ds |-> [L.ds EXCEPT ![m.dkey] = seq],
                      dd |-> [L.dd EXCEPT ![m.dkey] = [deps EXCEPT ![s[1]] = ldi]],
                      rt |-> [L.rt EXCEPT ![s[1]] = Max({@, ldi})]]
        Failed(b) == [from |-> r, status |-> "FAILED", bal |-> b, seq |-> 0, deps |-> NoDeps]
    IN \/ /\ ~isGreater(m.bal, c.highest_seen)
          /\ Reply(m, Failed(c.highest_seen))
          /\ UNCHANGED <<cmds, dkey_seq, dkey_deps, received_till>>
       \/ /\ isGreater(m.bal, c.highest_seen)
          /\ c.state \in {"ACCEPTED", "COMMITTED", "EXECUTED"}
          /\ cmds' = [cmds EXCEPT ![r][s].highest_seen = m.bal]
          /\ Reply(m, Failed(m.bal))
          /\ UNCHANGED <<dkey_seq, dkey_deps, received_till>>
       \/ /\ isGreater(m.bal, c.highest_seen)
          /\ c.state \in {"NOT_STARTED", "PRE_ACCEPTED"}
          /\ cmds' = [cmds EXCEPT ![r][s] = [@ EXCEPT !.cmd = m.cmd, !.dkey = m.dkey,
                        !.seq = seq, !.deps = deps, !.highest_seen = m.bal,
                        !.state = "PRE_ACCEPTED"]]
          /\ SetLoc(r, L2)
          /\ Reply(m, [from |-> r, bal |-> m.bal, seq |-> seq, deps |-> deps,
                       status |-> IF seq = m.seq /\ deps = m.deps
                                  THEN "IDENTICAL" ELSE "NON_IDENTICAL"])

(* OnAcceptRequest at replica r: a ballot equal to highest_seen suffices.  *)
OnAcceptRequest(r, m) ==
    LET s == m.slot
        c == cmds[r][s]
    IN \/ /\ ~isGreaterOrEqual(m.bal, c.highest_seen)
          /\ Reply(m, [from |-> r, ok |-> FALSE, bal |-> c.highest_seen])
          /\ UNCHANGED <<cmds, dkey_seq, dkey_deps, received_till>>
       \/ /\ isGreaterOrEqual(m.bal, c.highest_seen)
          /\ Committed(c)
          /\ cmds' = [cmds EXCEPT ![r][s].highest_seen = m.bal]
          /\ Reply(m, [from |-> r, ok |-> FALSE, bal |-> m.bal])
          /\ UNCHANGED <<dkey_seq, dkey_deps, received_till>>
       \/ /\ isGreaterOrEqual(m.bal, c.highest_seen)
          /\ ~Committed(c)
          /\ cmds' = [cmds EXCEPT ![r][s] = [@ EXCEPT !.cmd = m.cmd, !.dkey = m.dkey,
                        !.seq = m.seq, !.deps = m.deps, !.highest_seen = m.bal,
                        !.state = "ACCEPTED"]]
          /\ SetLoc(r, UpdateInternalAttributes(Loc(r), {m}, s))
          /\ Reply(m, [from |-> r, ok |-> TRUE, bal |-> m.bal])

(* Mutant: a commit marks the slot COMMITTED but keeps the attributes the *)
(* replica had pre-accepted.                                               *)
OnCommitRequestKeepAttrs(r, m) ==
    LET s == m.slot
        c == cmds[r][s]
    IN /\ ~Committed(c)
       /\ cmds' = [cmds EXCEPT ![r][s] = [@ EXCEPT !.cmd = m.cmd, !.dkey = m.dkey,
                     !.state = "COMMITTED",
                     !.highest_seen = IF isGreater(m.bal, @) THEN m.bal ELSE @]]
       /\ SetLoc(r, UpdateInternalAttributes(Loc(r), {m}, s))
       /\ UNCHANGED inbox

(* OnCommitRequest at replica r: no ballot check, no reply.                *)
OnCommitRequest(r, m) ==
    LET s == m.slot
        c == cmds[r][s]
    IN /\ ~Committed(c)
       /\ cmds' = [cmds EXCEPT ![r][s] = [@ EXCEPT !.cmd = m.cmd, !.dkey = m.dkey,
                     !.seq = m.seq, !.deps = m.deps, !.state = "COMMITTED",
                     !.highest_seen = IF isGreater(m.bal, @) THEN m.bal ELSE @]]
       /\ SetLoc(r, UpdateInternalAttributes(Loc(r), {m}, s))
       /\ UNCHANGED inbox

(* OnPrepareRequest at replica r: read-only, the ballot is not recorded.   *)
OnPrepareRequest(r, m) ==
    LET c == cmds[r][m.slot]
    IN /\ Reply(m, IF isGreater(m.bal, c.highest_seen) THEN PrepareReply(r, c)
                   ELSE [PrepareReply(r, EmptySlot) EXCEPT !.status = FALSE,
                                                        !.bal = c.highest_seen])
       /\ UNCHANGED <<cmds, dkey_seq, dkey_deps, received_till>>

(* Delivery of request m to its addressee; a commit to a replica that has  *)
(* the slot committed already is consumed without effect.                  *)
Receive(m) ==
    /\ msgs' = msgs \ {m}
    /\ \/ m.type = "PreAccept" /\ OnPreAcceptRequest(m.to, m)
       \/ m.type = "Accept"    /\ OnAcceptRequest(m.to, m)
       \/ m.type = "Commit"    /\ OnCommitRequest(m.to, m)
       \/ m.type = "Commit"    /\ Committed(cmds[m.to][m.slot])
                               /\ UNCHANGED <<cmds, dkey_seq, dkey_deps, received_till, inbox>>
       \/ m.type = "Prepare"   /\ OnPrepareRequest(m.to, m)
    /\ UNCHANGED <<next_instance_no, reqs, coro>>

-----------------------------------------------------------------------------
(* The coroutine of StartPreAccept wakes from ev->Wait with the replies Q. *)
PreAcceptReplies(t, Q) ==
    LET c     == cmds[t[1]][t[2]]
        ident == Cardinality({x \in Q : x.status = "IDENTICAL"})
        oks   == Cardinality({x \in Q : x.status # "FAILED"})
        ua    == UpdateAttributes(c, Loc(t[1]), Q)
    IN /\ coro[t].pc = "PreAccept"
       /\ \/ ident >= FastQuorum /\ CommitStep(t, c, Loc(t[1]))
          \/ ident < FastQuorum /\ oks >= SlowQuorum /\ AcceptStep(t, ua.slot, ua.L)
          \/ oks < SlowQuorum /\ FailStep(t, UpdateHighestSeenBallot(c, Q))
       /\ UNCHANGED <<next_instance_no, reqs>>

(* The coroutine of StartAccept wakes from ev->Wait with the replies Q.    *)
AcceptReplies(t, Q) ==
    LET c == cmds[t[1]][t[2]]
    IN /\ coro[t].pc = "Accept"
       /\ \/ Cardinality({x \in Q : x.ok}) >= SlowQuorum /\ CommitStep(t, c, Loc(t[1]))
          \/ Cardinality({x \in Q : x.ok}) < SlowQuorum
             /\ FailStep(t, UpdateHighestSeenBallot(c, Q))
       /\ UNCHANGED <<next_instance_no, reqs>>

(* StartPrepare up to ev->Wait, on the record c: a ballot above the       *)
(* highest seen one, the own record kept as self_reply.                     *)
PrepareStep(t, c) ==
    LET b == <<Max({0, c.highest_seen[1]}) + 1, t[1]>>
    IN /\ ~Committed(c)
       /\ coro[t].tries < MaxPrepares
       /\ cmds' = [cmds EXCEPT ![t[1]][t[2]] = [c EXCEPT !.highest_seen = b]]
       /\ coro' = [coro EXCEPT ![t] = [@ EXCEPT !.pc = "Prepare", !.rnd = @ + 1,
                     !.bal = b, !.self = PrepareReply(t[1], c), !.tries = @ + 1]]
       /\ inbox' = [inbox EXCEPT ![t] = {}]
       /\ msgs' = msgs \cup Broadcast("Prepare", t, coro[t].rnd + 1, b, t[2], EmptySlot)
       /\ UNCHANGED <<dkey_seq, dkey_deps, received_till, next_instance_no, reqs>>

(* The execution loop starts StartExecution for every instance up to     *)
(* received_till; CreateEpaxosGraph runs PrepareTillCommitted on a slot    *)
(* that is not committed.                                                  *)
ExecutionDue(r, s) == s[2] <= received_till[r][s[1]]

(* Prepare and PrepareAll queue (replica, instance) pairs for the prepare *)
(* loop, for any slot.                                                     *)
PrepareCalled == PrepareApi

(* PrepareTillCommitted of slot s at replica t[1]: asked for by the       *)
(* execution loop (StartExecution -> CreateEpaxosGraph) for every instance *)
(* up to received_till, or by a Prepare call.  Once no other prepare runs, *)
(* a slot not committed is marked preparing and StartPrepare begins.       *)
StartRecovery(t) ==
    LET c == cmds[t[1]][t[2]]
    IN /\ t[3] > 0
       /\ coro[t].pc = "idle"
       /\ PrepareCalled \/ ExecutionDue(t[1], t[2])
       /\ ~c.preparing
       /\ PrepareStep(t, [c EXCEPT !.preparing = TRUE])

(* The retry loop of PrepareTillCommitted after StartPrepare returned     *)
(* false: StartPrepare again, or return true if the slot got committed.    *)
RetryPrepare(t) ==
    LET c == cmds[t[1]][t[2]]
    IN /\ coro[t].pc = "retry"
       /\ \/ PrepareStep(t, c)
          \/ /\ Committed(c)
             /\ cmds' = [cmds EXCEPT ![t[1]][t[2]].preparing = FALSE]
             /\ coro' = [coro EXCEPT ![t].pc = "idle"]
             /\ UNCHANGED <<dkey_seq, dkey_deps, received_till, next_instance_no,
                            reqs, inbox, msgs>>

(* StartPrepare after ev->Wait with the replies Q, when Yes(): the replies *)
(* with the highest ballot decide, committed before accepted before        *)
(* N/2 identical default-ballot pre-accepts before any pre-accept before    *)
(* a NOOP.                                                                 *)
PrepareDecide(t, Q) ==
    LET r    == t[1]
        s    == t[2]
        c    == cmds[r][s]
        L    == Loc(r)
        b    == coro[t].bal
        Info == {x \in Q \cup {coro[t].self} : x.status /\ x.state # "NOT_STARTED"}
        HB   == MaxBallot({x.bal : x \in Info})
        H    == IF Info = {} THEN {} ELSE {x \in Info : x.bal = HB}
        ComH == {x \in H : Committed(x)}
        AccH == {x \in H : x.state = "ACCEPTED"}
        PreH == {x \in H : x.state = "PRE_ACCEPTED"}
        Cand == IF H # {} /\ isDefault(HB) THEN {x \in PreH : x.from # s[1]} ELSE {}
        Count(x) == Cardinality({y \in Cand : y.cmd = x.cmd /\ y.seq = x.seq
                                              /\ y.deps = x.deps})
        Adopt(x, st) == [c EXCEPT !.cmd = x.cmd, !.dkey = x.dkey, !.seq = x.seq,
                           !.deps = x.deps, !.highest_seen = b, !.state = st,
                           !.preparing = FALSE]
    IN \/ \E x \in ComH, P \in SUBSET (H \ ComH) :
             CommitStep(t, [c EXCEPT !.cmd = x.cmd, !.dkey = x.dkey, !.seq = x.seq,
                                     !.deps = x.deps, !.highest_seen = b],
                        UpdateInternalAttributes(L, P \cup {x}, s))
       \/ /\ ComH = {}
          /\ \E x \in AccH, P \in SUBSET PreH :
                AcceptStep(t, Adopt(x, "ACCEPTED"), UpdateInternalAttributes(L, AccH \cup P, s))
       \/ /\ ComH = {} /\ AccH = {}
          /\ \E x \in Cand : Count(x) >= RecoveryQuorum
                /\ AcceptStep(t, Adopt(x, "PRE_ACCEPTED"), UpdateInternalAttributes(L, PreH, s))
       \/ /\ ComH = {} /\ AccH = {} /\ PreH # {}
          /\ \A x \in Cand : Count(x) < RecoveryQuorum
          /\ \E x \in PreH :
                PreAcceptStep(t, PreAcceptLocal(c, UpdateInternalAttributes(L, PreH, s),
                                                x.cmd, x.dkey, b, s, x.deps[s[1]]))
       \/ /\ H = {}
          /\ PreAcceptStep(t, PreAcceptLocal(c, L, Noop, NoopKey, b, s, -1))

PrepareReplies(t, Q) ==
    /\ coro[t].pc = "Prepare"
    /\ \/ Cardinality({x \in Q : x.status}) >= SlowQuorum /\ PrepareDecide(t, Q)
       \/ Cardinality({x \in Q : x.status}) < SlowQuorum
          /\ FailStep(t, UpdateHighestSeenBallot(cmds[t[1]][t[2]], Q))
    /\ UNCHANGED <<next_instance_no, reqs>>

-----------------------------------------------------------------------------
(* Disconnect(disconnect) flips disconnected_ (it verifies the flag        *)
(* changes) and moves r's proxies out of or back into its commo.  Requests *)
(* already sent, and replies to r's own requests, are not affected.        *)
Disconnect(r) ==
    /\ disconnected' = [disconnected EXCEPT ![r] = ~@]
    /\ UNCHANGED <<cmds, dkey_seq, dkey_deps, received_till, next_instance_no,
                   reqs, coro, inbox, msgs>>

Next ==
    \/ /\ \/ \E r \in Replicas : Start(r) \/ ProcessRequest(r)
          \/ \E m \in msgs : Receive(m)
          \/ \E t \in Tasks : StartRecovery(t) \/ RetryPrepare(t)
          \/ \E t \in Tasks : \E Q \in SUBSET inbox[t] :
                PreAcceptReplies(t, Q) \/ AcceptReplies(t, Q) \/ PrepareReplies(t, Q)
       /\ UNCHANGED disconnected
    \/ \E r \in Disconnectable : Disconnect(r)

Spec == Init /\ [][Next]_vars

(* Requests in flight are delivered eventually: the rrr proxies of a       *)
(* connected replica keep the connection and every handler runs to its    *)
(* end.  No fairness is assumed for the coroutines, whose waits may time   *)
(* out at any point.                                                       *)
FairSpec == Spec /\ WF_vars(\E m \in msgs : Receive(m) /\ UNCHANGED disconnected)

-----------------------------------------------------------------------------
Ballots == ({-1} \cup Nat) \X Replicas
SlotRec == [cmd : {Cmd, Noop, None}, dkey : AllKeys \cup {None}, seq : Nat,
            deps : [Replicas -> Inst], highest_seen : Ballots, state : States,
            preparing : BOOLEAN]
Pcs == {"idle", "PreAccept", "Accept", "Prepare", "retry", "done"}

(* Every variable holds a value of its type.                               *)
TypeOK ==
    /\ cmds \in [Replicas -> [Slots -> SlotRec]]
    /\ dkey_seq \in [Replicas -> [AllKeys -> Nat]]
    /\ dkey_deps \in [Replicas -> [AllKeys -> [Replicas -> Inst]]]
    /\ received_till \in [Replicas -> [Replicas -> Inst]]
    /\ \A r \in Replicas : next_instance_no[r] \in 0..Len(Workload[r])
    /\ \A r \in Replicas : reqs[r] \in Seq([dkey : Keys, inst : Inst, ldi : Inst])
    /\ \A t \in Tasks : coro[t].pc \in Pcs /\ coro[t].tries \in 0..MaxPrepares
    /\ \A m \in msgs : m.to \in Replicas \ {m.from[1]} /\ m.slot = m.from[2]
                       /\ m.type \in {"PreAccept", "Accept", "Commit", "Prepare"}
    /\ disconnected \in [Replicas -> BOOLEAN]

(* Agreement (spec section 8, Safety): two replicas that hold slot s       *)
(* committed hold the same command, dkey, seq and deps for it, whichever   *)
(* mix of proposer, recovery coroutines and late messages committed them.  *)
Agreement ==
    \A s \in Slots, r1, r2 \in Replicas :
        Committed(cmds[r1][s]) /\ Committed(cmds[r2][s])
            => Value(cmds[r1][s]) = Value(cmds[r2][s])

(* Interference: of two client commands with the same dkey, committed at   *)
(* any replicas, at least one lists the other's instance in its deps; the  *)
(* dependency tracking of PreAccept, UpdateAttributes and Prepare must not *)
(* lose an edge, or two replicas could apply them in different orders.     *)
ConflictDeps ==
    \A s1, s2 \in Slots, r1, r2 \in Replicas :
        LET c1 == cmds[r1][s1]
            c2 == cmds[r2][s2]
        IN  /\ s1 # s2 /\ Committed(c1) /\ Committed(c2)
            /\ c1.cmd = Cmd /\ c2.cmd = Cmd /\ c1.dkey = c2.dkey
            => c1.deps[s2[1]] >= s2[2] \/ c2.deps[s1[1]] >= s1[2]

(* The key tracker covers every client command a replica holds: dkey_seq, *)
(* dkey_deps and received_till of r are at least the slot's seq and        *)
(* instance.  Every handler that writes a slot (PreAccept, Accept, Commit, *)
(* UpdateAttributes, the adoption in Prepare) must raise the tracker too,  *)
(* or the next command on the key misses the dependency and the execution  *)
(* loop never reaches the instance.                                         *)
TrackerCovers ==
    \A r \in Replicas, s \in Slots :
        LET c == cmds[r][s]
        IN  c.state # "NOT_STARTED" /\ c.cmd = Cmd
               => /\ dkey_seq[r][c.dkey] >= c.seq
                  /\ dkey_deps[r][c.dkey][s[1]] >= s[2]
                  /\ received_till[r][s[1]] >= s[2]

(* A recovery coroutine t is inside PrepareTillCommitted past its wait     *)
(* for preparing: in a phase of StartPrepare or in its retry sleep.        *)
Recovering(t) == t[3] > 0 /\ coro[t].pc \in {"Prepare", "PreAccept", "Accept", "retry"}

(* One recovery per slot and replica (spec section 7, RecoveryInProgress: *)
(* a second recovery attempt on the same slot waits): the preparing flag   *)
(* that PrepareTillCommitted sets keeps every other PrepareTillCommitted   *)
(* of the slot on the replica in its wait loop until the first returns.    *)
PrepareExclusive ==
    \A t1, t2 \in Tasks :
        t1 # t2 /\ t1[1] = t2[1] /\ t1[2] = t2[2] => ~(Recovering(t1) /\ Recovering(t2))

(* No stale preparing flag: a slot marked preparing on a replica has a    *)
(* PrepareTillCommitted of that replica still inside its StartPrepare loop.*)
(* A flag left set after its coroutine returned would hold every later    *)
(* PrepareTillCommitted of the slot (execution passes, Prepare calls) in  *)
(* its Sleep loop forever, and the slot would never be recovered.          *)
PreparingOwned ==
    \A r \in Replicas, s \in Slots :
        cmds[r][s].preparing => \E l \in Lanes : <<r, s, l>> \in Tasks /\ Recovering(<<r, s, l>>)

(* A slot committed at a replica stays committed there with the same value *)
(* (spec section 3: state never regresses); no late PreAccept coroutine,   *)
(* slow path or recovery may turn it back to ACCEPTED or PRE_ACCEPTED.     *)
CommittedStable ==
    [][\A r \in Replicas, s \in Slots :
         Committed(cmds[r][s])
            => Committed(cmds'[r][s]) /\ Value(cmds'[r][s]) = Value(cmds[r][s])]_vars

(* A slot committed at one replica is eventually committed at every       *)
(* replica: StartCommit's BroadcastCommit (or a recovery's) reaches every *)
(* peer, and OnCommitRequest commits whatever state the peer's record is   *)
(* in; no replica is left with the slot pre-accepted or accepted forever.  *)
CommitReachesAll ==
    \A s \in Slots :
        (\E r \in Replicas : Committed(cmds[r][s])) ~> (\A r \in Replicas : Committed(cmds[r][s]))


(* Refinement of EpaxosConsensus: a slot is decided with the values of its *)
(* committed copies.  Commits at several replicas with one value are one  *)
(* decision; a second value, or a copy leaving COMMITTED, is not a step of *)
(* the abstract specification.                                             *)
Decided  == [s \in Slots |-> {Value(cmds[r][s]) : r \in {q \in Replicas : Committed(cmds[q][s])}}]
AbsValue == [cmd : {Cmd, Noop}, dkey : AllKeys, seq : Nat, deps : [Replicas -> Inst]]
Consensus == INSTANCE EpaxosConsensus WITH chosen <- Decided, Values <- AbsValue

(* The core implements the per-slot choose-once specification: along every *)
(* behaviour, committing, re-committing by recovery or late commit         *)
(* requests, and every other step either decides an undecided slot with   *)
(* one value or leaves every decision as it is.                            *)
ConsensusRefined == Consensus!Spec

=============================================================================
