------------------------------ MODULE RO6Coord ------------------------------
(***************************************************************************)
(* The RO6 coordinator (deptran/ro6/ro6_coord.cc) driving one transaction: *)
(* do_one picks read-write or read-only, deptran_start / ro6_start_ro send *)
(* every piece the chopper has ready, and the RPC callbacks count the      *)
(* responses in the chopper (n_started_, n_finished_), send the finish     *)
(* requests, answer the client and delete the chopper.                     *)
(*                                                                         *)
(* The callbacks run on the threads of the RPC poll manager, and do_one on *)
(* its caller's thread; all of them are the set Threads.  Each callback    *)
(* means to hold mtx_, but ScopedLock(this->mtx_); builds a temporary that *)
(* is destroyed at the end of the statement, so nothing is held: a         *)
(* callback is a sequence of steps that other threads interleave with.     *)
(* n_started_++ and n_finished_++ are a load and a store (a data race the  *)
(* build compiles to an ordinary read-modify-write).  The chopper's own    *)
(* bookkeeping (next_piece, start_callback, graph aggregation) is kept     *)
(* atomic: TxnChopper is not in this source tree.                         *)
(***************************************************************************)
EXTENDS Naturals, FiniteSets, Bags, BagsExt

CONSTANTS
    Threads,      \* threads running do_one and the RPC callbacks
    Pieces,       \* pieces of the transaction (n_pieces_ = |Pieces|)
    Needs,        \* Needs[p]: pieces whose start output piece p takes as input
    Server,       \* Server[p]: the server piece p is sent to
    Kinds,        \* values ch->is_read_only() may have
    EarlyReturn   \* values ch->do_early_return() may start with

ASSUME /\ Needs \in [Pieces -> SUBSET Pieces]
       /\ Kinds \subseteq BOOLEAN /\ EarlyReturn \subseteq BOOLEAN

VARIABLES
    phase,        \* the chopper: "none" before do_one, "live", "deleted"
    ro,           \* ch->is_read_only()
    early,        \* ch->do_early_return()
    issued,       \* pieces next_piece has handed out
    started,      \* pieces whose start output the chopper has recorded
    n_started,    \* ch->n_started_
    n_finished,   \* ch->n_finished_
    net,          \* bag of RPC responses whose callback has not run yet
    thr,          \* thr[t]: pc, the response r handled, loaded counter m
    replies       \* calls of ch->callback_ (answers to the client)

vars == <<phase, ro, early, issued, started, n_started, n_finished, net, thr,
          replies>>

NPieces == Cardinality(Pieces)
Idle    == [pc |-> "idle", r |-> [kind |-> "none", x |-> "none"], m |-> 0]

\* ch->proxies_: the servers of the pieces handed out so far.
Proxies == {Server[p] : p \in issued}

\* TxnChopper::next_piece: a piece not handed out whose inputs are in the
\* recorded outputs st.
ReadyIn(p, st) == p \notin issued /\ Needs[p] \subseteq st
Ready(p)       == ReadyIn(p, started)

\* start_callback's result: recording the outputs st made a piece ready.
MoreReady(st) == \E p \in Pieces : ReadyIn(p, st)

Init ==
    /\ phase = "none"
    /\ ro = FALSE
    /\ early = FALSE
    /\ issued = {}
    /\ started = {}
    /\ n_started = 0
    /\ n_finished = 0
    /\ net = EmptyBag
    /\ thr = [t \in Threads |-> Idle]
    /\ replies = 0

\* Thread t continues at pc with its other locals.
Goto(t, pc) == thr' = [thr EXCEPT ![t].pc = pc]
\* Thread t returns to the poll loop; its locals are gone.
Leave(t)    == thr' = [thr EXCEPT ![t] = Idle]

-----------------------------------------------------------------------------
(* do_one and the send loops *)

\* do_one: build the chopper and run the start function for its kind.
DoOne(t) ==
    /\ phase = "none"
    /\ thr[t].pc = "idle"
    /\ \E k \in Kinds, e \in EarlyReturn :
          /\ ro' = k
          /\ early' = e
    /\ phase' = "live"
    /\ Goto(t, "send")
    /\ UNCHANGED <<issued, started, n_started, n_finished, net, replies>>

\* The piece goes to its server's proxy; its response will come back as a
\* kind response.
SendPiece(p, kind) ==
    /\ issued' = issued \cup {p}
    /\ net' = BagAdd(net, [kind |-> kind, x |-> p])

\* One round of the while loop of deptran_start: next_piece hands out a
\* piece and async_rcc_start_pie sends it, or there is none and the loop
\* (and with it the caller) ends.
StartDispatch(t) ==
    /\ thr[t].pc = "send"
    /\ ~ro
    /\ \/ \E p \in Pieces :
             /\ Ready(p)
             /\ SendPiece(p, "start")
             /\ UNCHANGED thr
       \/ /\ ~\E p \in Pieces : Ready(p)
          /\ Leave(t)
          /\ UNCHANGED <<issued, net>>
    /\ UNCHANGED <<phase, ro, early, started, n_started, n_finished, replies>>

\* The same loop in ro6_start_ro, sending async_rcc_ro_start_pie.
RoDispatch(t) ==
    /\ thr[t].pc = "send"
    /\ ro
    /\ \/ \E p \in Pieces :
             /\ Ready(p)
             /\ SendPiece(p, "ro")
             /\ UNCHANGED thr
       \/ /\ ~\E p \in Pieces : Ready(p)
          /\ Leave(t)
          /\ UNCHANGED <<issued, net>>
    /\ UNCHANGED <<phase, ro, early, started, n_started, n_finished, replies>>

\* An idle thread of the poll manager runs the callback of response r.
Pick(t, r) ==
    /\ thr[t].pc = "idle"
    /\ BagIn(r, net)
    /\ net' = BagRemove(net, r)

\* deptran_finish: one async_rcc_finish_txn per server in proxies_.
FinishRequests == SetToBag({[kind |-> "finish", x |-> s] : s \in Proxies})

-----------------------------------------------------------------------------
(* The callback of a start response (lambda in deptran_start) *)

\* get_reply, gra_.Aggregate; a graph of more than one transaction turns
\* early return off; then the load of n_started_++.
StartResponse(t) ==
    \E r \in BagToSet(net), big \in BOOLEAN :
        /\ r.kind = "start"
        /\ Pick(t, r)
        /\ early' = (early /\ ~big)
        /\ thr' = [thr EXCEPT ![t] = [Idle EXCEPT !.pc = "s_store", !.r = r,
                                                  !.m = n_started]]
        /\ UNCHANGED <<phase, ro, issued, started, n_started, n_finished, replies>>

\* The store of n_started_++.
StartStore(t) ==
    /\ thr[t].pc = "s_store"
    /\ n_started' = thr[t].m + 1
    /\ Goto(t, "s_decide")
    /\ UNCHANGED <<phase, ro, early, issued, started, n_finished, net, replies>>

\* Mutant: deptran_finish after every response that made nothing ready.
StartDecideNoCount(t) ==
    /\ thr[t].pc = "s_decide"
    /\ started' = started \cup {thr[t].r.x}
    /\ \/ /\ MoreReady(started')
          /\ Goto(t, "send")
          /\ UNCHANGED net
       \/ /\ ~MoreReady(started')
          /\ net' = net (+) FinishRequests
          /\ IF early THEN Goto(t, "s_reply") ELSE Leave(t)
    /\ UNCHANGED <<phase, ro, early, issued, n_started, n_finished, replies>>

\* start_callback records the output; if it made pieces ready,
\* deptran_start sends them; else after the last piece deptran_finish
\* sends the finish requests and early_return is set from the chopper.
StartDecide(t) ==
    /\ thr[t].pc = "s_decide"
    /\ started' = started \cup {thr[t].r.x}
    /\ \/ /\ MoreReady(started')
          /\ Goto(t, "send")
          /\ UNCHANGED net
       \/ /\ ~MoreReady(started')
          /\ n_started = NPieces
          /\ net' = net (+) FinishRequests
          /\ IF early THEN Goto(t, "s_reply") ELSE Leave(t)
       \/ /\ ~MoreReady(started')
          /\ n_started # NPieces
          /\ Leave(t)
          /\ UNCHANGED net
    /\ UNCHANGED <<phase, ro, early, issued, n_started, n_finished, replies>>

\* After the block: with early_return set, the client is answered from
\* ch->reply_ before the finish responses are in.
StartReply(t) ==
    /\ thr[t].pc = "s_reply"
    /\ replies' = replies + 1
    /\ Leave(t)
    /\ UNCHANGED <<phase, ro, early, issued, started, n_started, n_finished, net>>

-----------------------------------------------------------------------------
(* The callback of a finish response (lambda in deptran_finish) *)

\* The load of n_finished_++.
FinishResponse(t) ==
    \E r \in BagToSet(net) :
        /\ r.kind = "finish"
        /\ Pick(t, r)
        /\ thr' = [thr EXCEPT ![t] = [Idle EXCEPT !.pc = "f_store", !.r = r,
                                                  !.m = n_finished]]
        /\ UNCHANGED <<phase, ro, early, issued, started, n_started, n_finished,
                       replies>>

\* The store of n_finished_++.
FinishStore(t) ==
    /\ thr[t].pc = "f_store"
    /\ n_finished' = thr[t].m + 1
    /\ Goto(t, "f_check")
    /\ UNCHANGED <<phase, ro, early, issued, started, n_started, net, replies>>

\* Mutant: every finish response goes on to answer and delete.
FinishCheckNoCount(t) ==
    /\ thr[t].pc = "f_check"
    /\ Goto(t, "f_reply")
    /\ UNCHANGED <<phase, ro, early, issued, started, n_started, n_finished, net,
                   replies>>

\* Mutant: the count is compared with n_pieces_ instead of proxies_.size().
FinishCheckPieces(t) ==
    /\ thr[t].pc = "f_check"
    /\ IF n_finished = NPieces THEN Goto(t, "f_reply") ELSE Leave(t)
    /\ UNCHANGED <<phase, ro, early, issued, started, n_started, n_finished, net,
                   replies>>

\* The last finish response runs finish_callback and goes on to answer.
FinishCheck(t) ==
    /\ thr[t].pc = "f_check"
    /\ IF n_finished = Cardinality(Proxies) THEN Goto(t, "f_reply") ELSE Leave(t)
    /\ UNCHANGED <<phase, ro, early, issued, started, n_started, n_finished, net,
                   replies>>

\* Mutant: the client is answered whether or not it was answered early.
FinishReplyAlways(t) ==
    /\ thr[t].pc = "f_reply"
    /\ replies' = replies + 1
    /\ phase' = "deleted"
    /\ Leave(t)
    /\ UNCHANGED <<ro, early, issued, started, n_started, n_finished, net>>

\* Unless the start callback answered early, answer now; delete ch.
FinishReply(t) ==
    /\ thr[t].pc = "f_reply"
    /\ replies' = IF early THEN replies ELSE replies + 1
    /\ phase' = "deleted"
    /\ Leave(t)
    /\ UNCHANGED <<ro, early, issued, started, n_started, n_finished, net>>

-----------------------------------------------------------------------------
(* The callback of a read-only start response (lambda in ro6_start_ro) *)

\* get_reply and the load of n_started_++.
RoResponse(t) ==
    \E r \in BagToSet(net) :
        /\ r.kind = "ro"
        /\ Pick(t, r)
        /\ thr' = [thr EXCEPT ![t] = [Idle EXCEPT !.pc = "r_store", !.r = r,
                                                  !.m = n_started]]
        /\ UNCHANGED <<phase, ro, early, issued, started, n_started, n_finished,
                       replies>>

\* The store of n_started_++.
RoStore(t) ==
    /\ thr[t].pc = "r_store"
    /\ n_started' = thr[t].m + 1
    /\ Goto(t, "r_decide")
    /\ UNCHANGED <<phase, ro, early, issued, started, n_finished, net, replies>>

\* read_only_start_callback records the output; new ready pieces are sent
\* by ro6_start_ro; after the last piece the client is answered and ch
\* deleted, all inside the block.
RoDecide(t) ==
    /\ thr[t].pc = "r_decide"
    /\ started' = started \cup {thr[t].r.x}
    /\ \/ /\ MoreReady(started')
          /\ Goto(t, "send")
          /\ UNCHANGED <<phase, replies>>
       \/ /\ ~MoreReady(started')
          /\ n_started = NPieces
          /\ replies' = replies + 1
          /\ phase' = "deleted"
          /\ Leave(t)
       \/ /\ ~MoreReady(started')
          /\ n_started # NPieces
          /\ Leave(t)
          /\ UNCHANGED <<phase, replies>>
    /\ UNCHANGED <<ro, early, issued, n_started, n_finished, net>>

-----------------------------------------------------------------------------
ThreadStep(t) ==
    \/ StartDispatch(t) \/ RoDispatch(t)
    \/ StartResponse(t) \/ StartStore(t) \/ StartDecide(t) \/ StartReply(t)
    \/ FinishResponse(t) \/ FinishStore(t) \/ FinishCheck(t) \/ FinishReply(t)
    \/ RoResponse(t) \/ RoStore(t) \/ RoDecide(t)

Next == \E t \in Threads : DoOne(t) \/ ThreadStep(t)

\* The client calls do_one, every thread runs whenever it has a step, and
\* every RPC is eventually answered (rrr futures complete or the poll
\* manager retries; the callbacks verify error code 0).
Fairness == /\ WF_vars(\E t \in Threads : DoOne(t))
            /\ \A t \in Threads : WF_vars(ThreadStep(t))

Spec == Init /\ [][Next]_vars /\ Fairness

-----------------------------------------------------------------------------
(* Properties *)

\* Every variable has its type.
TypeOK ==
    /\ phase \in {"none", "live", "deleted"}
    /\ ro \in BOOLEAN /\ early \in BOOLEAN
    /\ issued \subseteq Pieces /\ started \subseteq issued
    /\ n_started \in 0..NPieces
    /\ n_finished \in 0..Cardinality(Proxies)
    /\ IsABag(net)
    /\ \A t \in Threads : thr[t].pc \in {"idle", "send", "s_store", "s_decide",
                                         "s_reply", "f_store", "f_check",
                                         "f_reply", "r_store", "r_decide"}
    /\ replies \in Nat

\* Once a callback has run delete ch, no thread is still inside a callback
\* or send loop that reads ch, and no response whose callback holds ch is
\* still on its way: the last finish response (or read-only start response)
\* must be the last use of the chopper.
NoUseAfterFree ==
    phase = "deleted" =>
        /\ \A t \in Threads : thr[t].pc = "idle"
        /\ net = EmptyBag

\* The client callback ch->callback_ runs at most once per transaction,
\* early (from the start callback) or late (from the finish callback), and
\* only after every piece's start response was counted.
ReplyOnce ==
    /\ replies <= 1
    /\ replies = 1 => started = Pieces /\ n_started = NPieces

\* Every transaction do_one starts is eventually answered exactly once
\* and its chopper deleted.
Answered == <>(phase = "deleted" /\ replies = 1)

=============================================================================
