------------------------------ MODULE PeerInbox ------------------------------
(***************************************************************************)
(* What the admission of swarm packets promises to the code behind it,     *)
(* whatever the radio, the replay window, the journal and the restarts of  *)
(* the process do: a packet identity is handed on at most once, and the    *)
(* state shown for a sender is always the newest one handed on.            *)
(***************************************************************************)
EXTENDS Naturals

CONSTANTS
    Senders,    \* the peers of the swarm
    Ids,        \* packet identities: records with sender, epoch and seq
    Nothing     \* shown for a sender of which nothing is known

VARIABLES
    uses,       \* how often each identity has been handed on
    shown       \* per sender, the <<epoch, seq>> on display

Later(a, b) ==
    \/ a.epoch > b.epoch
    \/ a.epoch = b.epoch /\ a.seq > b.seq

Used(s) == {id \in Ids : id.sender = s /\ uses[id] > 0}

Init ==
    /\ uses = [id \in Ids |-> 0]
    /\ shown = [s \in Senders |-> Nothing]

(* A new packet replaces what is shown of its sender; a bounded inbox may  *)
(* forget some senders at the same time.                                   *)
Present(id, forgotten) ==
    /\ uses[id] = 0
    /\ \A old \in Used(id.sender) : Later(id, old)
    /\ uses' = [uses EXCEPT ![id] = 1]
    /\ shown' = [s \in Senders |-> IF s \in forgotten THEN Nothing
                                   ELSE IF s = id.sender THEN <<id.epoch, id.seq>>
                                   ELSE shown[s]]

(* A packet that others overtook is handed on and never shown.             *)
HandOnLate(id) ==
    /\ uses[id] = 0
    /\ uses' = [uses EXCEPT ![id] = 1]
    /\ UNCHANGED shown

Forget(forgotten) ==
    /\ shown' = [s \in Senders |-> IF s \in forgotten THEN Nothing ELSE shown[s]]
    /\ UNCHANGED uses

Next ==
    \/ \E id \in Ids, forgotten \in SUBSET Senders : Present(id, forgotten)
    \/ \E id \in Ids : HandOnLate(id)
    \/ \E forgotten \in SUBSET Senders : Forget(forgotten)

Spec == Init /\ [][Next]_<<uses, shown>>
=============================================================================
