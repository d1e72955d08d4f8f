---------------------------- MODULE SwarmSecurity ----------------------------
(***************************************************************************)
(* The sealed frames of the mesh and their two chains: a frame names the   *)
(* frame its sender sealed before it, and a frame of the ledger also the   *)
(* ledger frame before it.  A frame's digest is its number in the order    *)
(* frames were sealed, which no two frames share; 0 stands for no frame.   *)
(* The frame carries the key it was sealed with: MAC, signature, cipher    *)
(* and the digests of its content are right when the receiver's is that.   *)
(***************************************************************************)
EXTENDS Naturals

\* peer_state_ of one node, as its sender keeps it (last, ledger) or its receiver (all three).
NoPeerState == [seq |-> 0, last |-> 0, ledger |-> 0]

is_ledger_message(type) == type \in {"formation", "election", "mission", "stop"}

\* seal() of a message: the chains are read here ...
build_header(state, src, seq, type, key) ==
    [src |-> src, seq |-> seq, key |-> key, ledger |-> is_ledger_message(type),
     past |-> state.last, chain |-> IF is_ledger_message(type) THEN state.ledger ELSE 0]

\* ... and written here, when the frame and its digest exist.
Sealed(state, frame, digest) ==
    [state EXCEPT !.last = digest, !.ledger = IF frame.ledger THEN digest ELSE @]

Replayed(state, frame)      == frame.seq <= state.seq
Authentic(frame, key)       == frame.key = key
FollowsLast(state, frame)   == frame.past = state.last

\* faulty: the chain of ledger frames is not checked
FollowsLedgerAlways(state, frame) == TRUE

FollowsLedger(state, frame) == frame.ledger => frame.chain = state.ledger

\* open(): may the receiver take the frame, and what it keeps of it.
Opens(state, frame, key) ==
    /\ ~ Replayed(state, frame)
    /\ Authentic(frame, key)
    /\ FollowsLast(state, frame)
    /\ FollowsLedger(state, frame)

Opened(state, frame, digest) ==
    [seq |-> frame.seq, last |-> digest, ledger |-> IF frame.ledger THEN digest ELSE state.ledger]
===============================================================================
