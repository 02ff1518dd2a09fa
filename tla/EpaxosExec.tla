----------------------------- MODULE EpaxosExec -----------------------------
(***************************************************************************)
(* The graph scheduler and executor of one EpaxosServer (server.cc:        *)
(* execution loop in Setup, StartExecution, CreateEpaxosGraph): the part   *)
(* that turns committed slots into applications of commands, in order.    *)
(*                                                                         *)
(* The consensus core is abstracted to what the executing replica sees of *)
(* it: for every slot, Log[s] is the value the slot is committed with     *)
(* (Agreement of the core), and Tentative[s] is the value, if any, that   *)
(* first reaches this replica in a PreAccept.  The pair is one of the     *)
(* Scenarios, chosen at the start and fixed.  Commits arrive in any       *)
(* order, either from OnCommitRequest or from this replica's own           *)
(* PrepareTillCommitted; until then a graph walk that needs the slot       *)
(* waits.                                                                  *)
(*                                                                         *)
(* The walk of CreateEpaxosGraph suspends inside PrepareTillCommitted and *)
(* resumes where it stopped, with the values it read before the wait.     *)
(* It is therefore kept as an explicit stack of activation frames that    *)
(* Run interprets up to the next suspension.                              *)
(***************************************************************************)
EXTENDS Integers, Sequences, FiniteSets, SequencesExt

CONSTANTS
    N,          \* number of replicas
    Keys,       \* dkeys of client commands
    NoopKey,    \* NOOP_DKEY
    Cmd, Noop,  \* command kinds
    None,       \* dkey and payload of a NOT_STARTED slot; "no slot"
    Scenarios,  \* set of [log, tent]: consensus outcomes this replica may see
    Pausable    \* TRUE: PauseExecution may be called at any time

Replicas == 0..N-1
AllSlots == UNION {DOMAIN sc.log : sc \in Scenarios}
MaxInst  == Max({s[2] : s \in AllSlots})
NoDeps   == [q \in Replicas |-> -1]
Val      == [cmd : {Cmd, Noop}, dkey : Keys \cup {NoopKey}, seq : Nat,
             deps : [Replicas -> -1..MaxInst]]

\* Instances of a replica are numbered from 0 without gaps, and deps name
\* committed slots.
WellFormed(log, tent) ==
    LET S == DOMAIN log
    IN  /\ S \subseteq Replicas \X (0..MaxInst)
        /\ \A s \in S : \A i \in 0..s[2] : <<s[1], i>> \in S
        /\ log \in [S -> Val]
        /\ \A s \in S : \A q \in Replicas :
               log[s].deps[q] >= 0 => <<q, log[s].deps[q]>> \in S
        /\ tent \in [S -> Val \cup {None}]

ASSUME \A sc \in Scenarios : WellFormed(sc.log, sc.tent)

VARIABLES
    Log,               \* Log[s]: the committed value of slot s = <<replica, instance>>
    Tentative,         \* Tentative[s]: value first pre-accepted here, or None
    cmds,              \* cmds[s]: this replica's EpaxosCommand for slot s
    received_till,     \* received_till[q]
    exec_started_till, \* exec_started_till[q]
    in_process_dkeys,  \* dkeys claimed by running StartExecution passes
    pass,              \* pass[s]: the StartExecution coroutine started for s
    applied,           \* the app_next_ calls, in order
    pause_execution    \* pause_execution

outcome == <<Log, Tentative>>
vars == <<cmds, received_till, exec_started_till, in_process_dkeys, pass,
          applied, pause_execution, outcome>>

Slots == DOMAIN Log

Committed(c) == c.state \in {"COMMITTED", "EXECUTED"}

\* An EpaxosCommand holding value v in state st.
Rec(v, st) == [cmd |-> v.cmd, dkey |-> v.dkey, seq |-> v.seq, deps |-> v.deps,
               state |-> st]

EmptySlot == [cmd |-> None, dkey |-> None, seq |-> 0, deps |-> NoDeps,
              state |-> "NOT_STARTED"]

\* A pass not yet started, and one that has finished.
NoPass   == [pc |-> "none", stk |-> <<>>, V |-> {}, E |-> {}, ret |-> 0,
             blk |-> None]
DonePass == [NoPass EXCEPT !.pc = "done"]

\* The effect of UpdateInternalAttributes on received_till.
\* Mutant: the own instance is recorded one too high.
UpdateReceivedTillOffByOne(rt, s, v) ==
    LET own == [rt EXCEPT ![s[1]] = Max({@, s[2] + 1})]
    IN  IF v.cmd = Noop THEN own
        ELSE [q \in Replicas |-> Max({own[q], v.deps[q]})]

UpdateReceivedTill(rt, s, v) ==
    LET own == [rt EXCEPT ![s[1]] = Max({@, s[2]})]
    IN  IF v.cmd = Noop THEN own
        ELSE [q \in Replicas |-> Max({own[q], v.deps[q]})]

Init ==
    /\ \E sc \in Scenarios : Log = sc.log /\ Tentative = sc.tent
    /\ cmds = [s \in Slots |-> EmptySlot]
    /\ received_till = [q \in Replicas |-> -1]
    /\ exec_started_till = [q \in Replicas |-> -1]
    /\ in_process_dkeys = {}
    /\ pass = [s \in Slots |-> NoPass]
    /\ applied = <<>>
    /\ pause_execution = FALSE

-----------------------------------------------------------------------------
(***************************************************************************)
(* CreateEpaxosGraph as an interpreter.  A frame is one activation:       *)
(* s is the slot (parent), pc the point reached in it, todo the replicas  *)
(* of parent->cmd->deps still to visit, q and d the dependency being      *)
(* visited (dreplica_id, dinstance_no), p the gap loop's prev_instance_no.*)
(* A walk c carries the stack, the graph built so far (V, E with an edge  *)
(* <<child, parent>> from a dependency to its dependent), the status ret  *)
(* of the call that returned last, and blk, the slot whose                *)
(* PrepareTillCommitted it is suspended in.                               *)
(***************************************************************************)
Frame(s) == [s |-> s, pc |-> "enter", todo |-> <<>>, q |-> 0, d |-> -1, p |-> -1]

Goto(c, pc)       == [c EXCEPT !.stk[1].pc = pc]
Suspend(c, t, pc) == [c EXCEPT !.stk[1].pc = pc, !.blk = t]
Return(c, x)      == [c EXCEPT !.stk = Tail(@), !.ret = x]
\* Push a call of CreateEpaxosGraph(t) on top of the updated caller frame f.
Call(c, t, f)     == [c EXCEPT !.stk = <<Frame(t), f>> \o Tail(@)]

\* The replicas of parent->cmd->deps in the order the loop visits them.
DepOrder(s) == SetToSortSeq({q \in Replicas : cmds[s].deps[q] >= 0}, <)

\* A slot that is not committed is prepared until it is.
EnterStep(c) ==
    LET f == Head(c.stk)
    IN  IF Committed(cmds[f.s]) THEN Goto(c, "check")
        ELSE Suspend(c, f.s, "check")

\* Executed: 1; NOOP: 0; already a vertex: 2; else add it and loop on deps.
CheckStep(c) ==
    LET f == Head(c.stk)
    IN  CASE cmds[f.s].state = "EXECUTED" -> Return(c, 1)
          [] cmds[f.s].cmd = Noop         -> Return(c, 0)
          [] f.s \in c.V                  -> Return(c, 2)
          [] OTHER -> [c EXCEPT !.V = @ \cup {f.s}, !.stk[1].pc = "loop",
                                !.stk[1].todo = DepOrder(f.s)]

\* Next dependency: recurse into it; after the last one return 2.
LoopStep(c) ==
    LET f == Head(c.stk)
    IN  IF f.todo = <<>> THEN Return(c, 2)
        ELSE LET q == Head(f.todo)
                 d == cmds[f.s].deps[q]
             IN  Call(c, <<q, d>>, [f EXCEPT !.pc = "ret1", !.todo = Tail(@),
                                             !.q = q, !.d = d])

\* Mutant: a NOOP dependency is dropped without the gap loop.
Ret1StepNoGap(c) ==
    IF c.ret = 0 THEN Goto(c, "loop") ELSE Goto(c, "link")

\* The dependency is a NOOP (status 0): start the gap loop below it.
Ret1Step(c) ==
    LET f == Head(c.stk)
    IN  IF c.ret = 0 THEN [c EXCEPT !.stk[1].pc = "gap", !.stk[1].p = f.d - 1]
        ELSE Goto(c, "link")

\* Gap loop head: past instance 0 the dependency is dropped; a NOT_STARTED
\* instance is prepared before its dkey is read.
GapStep(c) ==
    LET f == Head(c.stk)
    IN  IF f.p < 0 THEN Goto(c, "loop")
        ELSE IF cmds[<<f.q, f.p>>].state = "NOT_STARTED"
             THEN Suspend(c, <<f.q, f.p>>, "cmp")
             ELSE Goto(c, "cmp")

\* The first earlier instance with the parent's dkey replaces the NOOP.
CmpStep(c) ==
    LET f == Head(c.stk)
    IN  IF cmds[<<f.q, f.p>>].dkey = cmds[f.s].dkey
        THEN Call(c, <<f.q, f.p>>, [f EXCEPT !.pc = "link", !.d = f.p])
        ELSE [c EXCEPT !.stk[1].p = f.p - 1, !.stk[1].pc = "gap"]

\* Mutant: the edge is added from parent to child.
LinkStepSwapped(c) ==
    LET f == Head(c.stk)
    IN  IF c.ret = 1 THEN Goto(c, "loop")
        ELSE [c EXCEPT !.V = @ \cup {<<f.q, f.d>>},
                       !.E = @ \cup {<<f.s, <<f.q, f.d>>>>},
                       !.stk[1].pc = "loop"]

\* Unless the child was executed, FindOrCreateParentEdge(child, parent).
LinkStep(c) ==
    LET f == Head(c.stk)
    IN  IF c.ret = 1 THEN Goto(c, "loop")
        ELSE [c EXCEPT !.V = @ \cup {<<f.q, f.d>>},
                       !.E = @ \cup {<<<<f.q, f.d>>, f.s>>},
                       !.stk[1].pc = "loop"]

Step(c) ==
    CASE Head(c.stk).pc = "enter" -> EnterStep(c)
      [] Head(c.stk).pc = "check" -> CheckStep(c)
      [] Head(c.stk).pc = "loop"  -> LoopStep(c)
      [] Head(c.stk).pc = "ret1"  -> Ret1Step(c)
      [] Head(c.stk).pc = "gap"   -> GapStep(c)
      [] Head(c.stk).pc = "cmp"   -> CmpStep(c)
      [] Head(c.stk).pc = "link"  -> LinkStep(c)

\* Run the walk until it returns from the root or suspends.
RECURSIVE Run(_)
Run(c) == IF c.stk = <<>> \/ c.blk # None THEN c ELSE Run(Step(c))

(***************************************************************************)
(* EpaxosGraph::GetSortedVertices: strongly connected components in       *)
(* dependency order, members of a component by (seq, replica_id).  Which  *)
(* of several valid orders the graph picks is left open.                  *)
(***************************************************************************)
\* The transitive closure of a set E of pairs, each level computed once.
RECURSIVE Closure(_, _)
Closure(E, k) ==
    IF k = 0 THEN E
    ELSE LET F == Closure(E, k - 1)
         IN  F \cup {<<pr[1][1], pr[2][2]>> : pr \in {pr \in F \X F : pr[1][2] = pr[2][1]}}

SortedVertices(V, E) ==
    LET C == Closure(E, Cardinality(V))
        R == [e \in V \X V |-> e \in C]
        KeyLeq(u, v) == \/ cmds[u].seq < cmds[v].seq
                        \/ cmds[u].seq = cmds[v].seq /\ u[1] <= v[1]
    IN  {o \in SetToSeqs(V) :
            \A i, j \in 1..Len(o) : i < j =>
                /\ ~(R[o[j], o[i]] /\ ~R[o[i], o[j]])
                /\ R[o[i], o[j]] /\ R[o[j], o[i]] => KeyLeq(o[i], o[j])}

-----------------------------------------------------------------------------
(* Actions *)

\* OnPreAcceptRequest for a slot this replica has not seen.
PreAcceptArrive(s) ==
    /\ cmds[s].state = "NOT_STARTED"
    /\ Tentative[s] # None
    /\ cmds' = [cmds EXCEPT ![s] = Rec(Tentative[s], "PRE_ACCEPTED")]
    /\ received_till' = UpdateReceivedTill(received_till, s, Tentative[s])
    /\ UNCHANGED <<exec_started_till, in_process_dkeys, pass, applied, pause_execution, outcome>>

\* OnCommitRequest, or StartCommit of this replica's own recovery.
Commit(s) ==
    /\ ~Committed(cmds[s])
    /\ cmds' = [cmds EXCEPT ![s] = Rec(Log[s], "COMMITTED")]
    /\ received_till' = UpdateReceivedTill(received_till, s, Log[s])
    /\ UNCHANGED <<exec_started_till, in_process_dkeys, pass, applied, pause_execution, outcome>>

\* Mutant: the loop stops one instance short of received_till.
ExecLoopOffByOne ==
    /\ ~pause_execution
    /\ \E q \in Replicas : exec_started_till[q] < received_till[q]
    /\ pass' = [s \in Slots |->
                  IF exec_started_till[s[1]] < s[2] /\ s[2] < received_till[s[1]]
                  THEN [NoPass EXCEPT !.pc = "wait"] ELSE pass[s]]
    /\ exec_started_till' = received_till
    /\ UNCHANGED <<cmds, received_till, in_process_dkeys, applied, pause_execution, outcome>>

\* One round of the execution loop: a StartExecution per new instance.
ExecLoop ==
    /\ ~pause_execution
    /\ \E q \in Replicas : exec_started_till[q] < received_till[q]
    /\ pass' = [s \in Slots |->
                  IF exec_started_till[s[1]] < s[2] /\ s[2] <= received_till[s[1]]
                  THEN [NoPass EXCEPT !.pc = "wait"] ELSE pass[s]]
    /\ exec_started_till' = received_till
    /\ UNCHANGED <<cmds, received_till, in_process_dkeys, applied, pause_execution, outcome>>

\* PauseExecution(pause): the loop sleeps while pause_execution is set;
\* passes already started go on.
PauseExecution ==
    /\ Pausable
    /\ pause_execution' = ~pause_execution
    /\ UNCHANGED <<cmds, received_till, exec_started_till, in_process_dkeys,
                   pass, applied, outcome>>

\* The dkey of the slot is claimed by another pass.
ShouldWait(s) == cmds[s].state # "NOT_STARTED" /\ cmds[s].dkey \in in_process_dkeys

\* Mutant: the dkey is never released.
FinishNoErase(s, c, ipd) ==
    \E o \in SortedVertices(c.V, c.E) :
        /\ cmds' = [v \in Slots |-> IF v \in c.V
                                    THEN [cmds[v] EXCEPT !.state = "EXECUTED"]
                                    ELSE cmds[v]]
        /\ applied' = applied \o SelectSeq(o, LAMBDA v : cmds[v].state # "EXECUTED")
        /\ in_process_dkeys' = ipd
        /\ pass' = [pass EXCEPT ![s] = DonePass]
        /\ UNCHANGED <<received_till, exec_started_till, pause_execution, outcome>>

\* End of StartExecution: execute the sorted graph, release the dkey.
Finish(s, c, ipd) ==
    \E o \in SortedVertices(c.V, c.E) :
        /\ cmds' = [v \in Slots |-> IF v \in c.V
                                    THEN [cmds[v] EXCEPT !.state = "EXECUTED"]
                                    ELSE cmds[v]]
        /\ applied' = applied \o SelectSeq(o, LAMBDA v : cmds[v].state # "EXECUTED")
        /\ in_process_dkeys' = ipd \ {cmds[s].dkey}
        /\ pass' = [pass EXCEPT ![s] = DonePass]
        /\ UNCHANGED <<received_till, exec_started_till, pause_execution, outcome>>

\* Continue pass s with walk c: finish it, or keep it suspended.
Advance(s, c, ipd) ==
    IF c.stk = <<>> THEN Finish(s, c, ipd)
    ELSE /\ pass' = [pass EXCEPT ![s] = c]
         /\ in_process_dkeys' = ipd
         /\ UNCHANGED <<cmds, received_till, exec_started_till, applied, pause_execution, outcome>>

\* StartExecution: wait for the dkey, claim it, walk from the slot.
Enter(s) ==
    /\ pass[s].pc = "wait"
    /\ ~ShouldWait(s)
    /\ Advance(s, Run([NoPass EXCEPT !.pc = "build", !.stk = <<Frame(s)>>]),
               in_process_dkeys \cup {cmds[s].dkey})

\* PrepareTillCommitted returns once its slot is committed.
Resume(s) ==
    /\ pass[s].pc = "build"
    /\ pass[s].blk # None
    /\ Committed(cmds[pass[s].blk])
    /\ Advance(s, Run([pass[s] EXCEPT !.blk = None]), in_process_dkeys)

Next ==
    \/ ExecLoop
    \/ PauseExecution
    \/ \E s \in Slots : PreAcceptArrive(s) \/ Commit(s) \/ Enter(s) \/ Resume(s)

\* When Enter(s) and Resume(s) can take a step: Advance always has one.
EnterReady(s)  == pass[s].pc = "wait" /\ ~ShouldWait(s)
ResumeReady(s) == /\ pass[s].pc = "build"
                  /\ pass[s].blk # None
                  /\ Committed(cmds[pass[s].blk])

\* Commits eventually arrive (PrepareTillCommitted retries until they do);
\* the loops and coroutines run whenever they can.  Weak fairness of
\* Enter and Resume is written out ([]<>~enabled \/ []<>step) with their
\* enabledness as state predicates; slots outside the chosen scenario have
\* neither.
Fairness ==
    /\ WF_vars(ExecLoop)
    /\ \A s \in AllSlots :
          /\ WF_vars(s \in Slots /\ Commit(s))
          /\ ([]<>~(s \in Slots /\ EnterReady(s)) \/ []<><<s \in Slots /\ Enter(s)>>_vars)
          /\ ([]<>~(s \in Slots /\ ResumeReady(s)) \/ []<><<s \in Slots /\ Resume(s)>>_vars)

Spec == Init /\ [][Next]_vars

-----------------------------------------------------------------------------
(* Properties *)

CmdSlots == {s \in Slots : Log[s].cmd = Cmd}
Pcs      == {"none", "wait", "build", "done"}

\* Every variable has its type.
TypeOK ==
    /\ \A s \in Slots :
          \/ cmds[s] = EmptySlot
          \/ /\ cmds[s].state \in {"PRE_ACCEPTED", "COMMITTED", "EXECUTED"}
             /\ [cmd |-> cmds[s].cmd, dkey |-> cmds[s].dkey, seq |-> cmds[s].seq,
                 deps |-> cmds[s].deps] \in Val
    /\ received_till \in [Replicas -> -1..MaxInst]
    /\ exec_started_till \in [Replicas -> -1..MaxInst]
    /\ in_process_dkeys \subseteq Keys \cup {NoopKey, None}
    /\ \A s \in Slots : pass[s].pc \in Pcs /\ pass[s].V \subseteq Slots
    /\ applied \in Seq(Slots)
    /\ pause_execution \in BOOLEAN
    /\ \E sc \in Scenarios : outcome = <<sc.log, sc.tent>>

\* a interferes with b directly: b's committed deps cover a's instance of
\* the same dkey (deps[q] = i stands for every instance <= i of q).
DirectDep == {e \in CmdSlots \X CmdSlots :
                 /\ e[1] # e[2]
                 /\ Log[e[1]].dkey = Log[e[2]].dkey
                 /\ e[1][2] <= Log[e[2]].deps[e[1][1]]}
DepPlus == LET C == Closure(DirectDep, Cardinality(CmdSlots))
           IN  [e \in CmdSlots \X CmdSlots |-> e \in C]

\* a must be applied before b: b depends on a, and either a does not
\* depend on b or a is first by (seq, replica_id).
Before(a, b) ==
    /\ DepPlus[a, b]
    /\ \/ ~DepPlus[b, a]
       \/ Log[a].seq < Log[b].seq
       \/ Log[a].seq = Log[b].seq /\ a[1] < b[1]

\* StartExecution applies a command only after every command it must
\* follow (EPaxos execution order; spec section 7): the graph walk, its
\* NOOP gap filling and the sort must never let a command overtake one it
\* depends on.
ExecOrder ==
    \A i \in 1..Len(applied) :
        applied[i] \in CmdSlots =>
            \A a \in CmdSlots : Before(a, applied[i]) =>
                \E j \in 1..i-1 : applied[j] = a

\* Under Fairness, once PauseExecution(false) is the last call, every
\* client command is eventually applied: commits keep arriving, and no
\* StartExecution waits forever on in_process_dkeys or in
\* PrepareTillCommitted.
AllExecuted ==
    Fairness /\ <>[]~pause_execution
        => <>(\A s \in CmdSlots : cmds[s].state = "EXECUTED")

=============================================================================
