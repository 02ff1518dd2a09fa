-------------------------- MODULE EpaxosConsensus --------------------------
(***************************************************************************)
(* What the EPaxos consensus core promises for every slot (spec section   *)
(* 8): a slot is decided at most once, and its decided value never        *)
(* changes.  chosen[s] is the set of values slot s is decided with, so a   *)
(* second, different decision is a step this specification does not have. *)
(***************************************************************************)
EXTENDS FiniteSets

CONSTANTS
    Slots,    \* <<replica, instance>> pairs
    Values    \* decided values: command, dkey, seq and deps

VARIABLE chosen

Init == chosen = [s \in Slots |-> {}]

\* Slot s, undecided so far, is decided with one value; no other slot
\* changes.
Choose(s) ==
    /\ chosen[s] = {}
    /\ Cardinality(chosen'[s]) = 1
    /\ chosen'[s] \subseteq Values
    /\ \A o \in Slots \ {s} : chosen'[o] = chosen[o]

Next == \E s \in Slots : Choose(s)

Spec == Init /\ [][Next]_chosen

=============================================================================
