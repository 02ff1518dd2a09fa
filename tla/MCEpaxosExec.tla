---------------------------- MODULE MCEpaxosExec ----------------------------
(***************************************************************************)
(* Committed logs for EpaxosExec.  Each is a set of outcomes the consensus *)
(* core can reach for three replicas and one key: a slot's own replica    *)
(* depends on its previous instance of the key (leader_dep_instance), and *)
(* a slot recovered by Prepare with no pre-accepted copy in sight commits *)
(* a NOOP (seq 1, no deps).                                                *)
(***************************************************************************)
EXTENDS EpaxosExec

CONSTANTS k1

\* A committed value; deps given as a partial function replica :> instance.
Value(cmd, key, seq, deps) ==
    [cmd |-> cmd, dkey |-> key, seq |-> seq,
     deps |-> [q \in 0..2 |-> IF q \in DOMAIN deps THEN deps[q] ELSE -1]]
NoDep   == [q \in {} |-> -1]
NoopVal == Value(Noop, NoopKey, 1, NoDep)

\* Replicas 0 and 1 propose k1 concurrently and commit with each other in
\* their deps (equal seq: ordered by replica id).  Replica 1's next k1
\* command was recovered as a NOOP after replica 2 had seen it, so replica
\* 2's command depends on the NOOP and the gap filling must find <<1, 0>>.
LogCycle ==
    ( <<0, 0>> :> Value(Cmd, k1, 2, 1 :> 0)
   @@ <<1, 0>> :> Value(Cmd, k1, 2, 0 :> 0)
   @@ <<1, 1>> :> NoopVal
   @@ <<2, 0>> :> Value(Cmd, k1, 3, 1 :> 1) )
\* This replica pre-accepted the two client commands before the commits.
TentCycle ==
    [s \in DOMAIN LogCycle |->
        CASE s = <<0, 0>> -> Value(Cmd, k1, 1, NoDep)
          [] s = <<1, 0>> -> Value(Cmd, k1, 2, 0 :> 0)
          [] OTHER        -> None]

\* Two NOOPs follow a k1 command of replica 0, and replica 1's first
\* command is a NOOP: replica 1's k1 command depends on both NOOPs; gap
\* filling skips one NOOP to reach <<0, 0>> and finds nothing below <<1, 0>>.
LogNoops ==
    ( <<0, 0>> :> Value(Cmd, k1, 1, NoDep)
   @@ <<0, 1>> :> NoopVal
   @@ <<0, 2>> :> NoopVal
   @@ <<1, 0>> :> NoopVal
   @@ <<1, 1>> :> Value(Cmd, k1, 2, (0 :> 2) @@ (1 :> 0)) )
TentNoops ==
    [s \in DOMAIN LogNoops |->
        IF s = <<1, 1>> THEN LogNoops[s] ELSE None]

\* Replica 0 proposed three k1 commands; the second and third were
\* recovered as NOOPs, but this replica had pre-accepted the second one.
\* Replica 1's command saw the third and depends on it.
LogStale ==
    ( <<0, 0>> :> Value(Cmd, k1, 1, NoDep)
   @@ <<0, 1>> :> NoopVal
   @@ <<0, 2>> :> NoopVal
   @@ <<1, 0>> :> Value(Cmd, k1, 4, 0 :> 2) )
TentStale ==
    [s \in DOMAIN LogStale |->
        IF s = <<0, 1>> THEN Value(Cmd, k1, 2, 0 :> 0) ELSE None]

\* The scenarios checked together, and the stale one alone.
ScCycleNoops == {[log |-> LogCycle, tent |-> TentCycle],
                 [log |-> LogNoops, tent |-> TentNoops]}
ScStale      == {[log |-> LogStale, tent |-> TentStale]}

=============================================================================
