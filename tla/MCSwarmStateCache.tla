------------------------- MODULE MCSwarmStateCache -------------------------
(***************************************************************************)
(* Instances of SwarmStateCache for TLC. Window is 2 instead of 64, so     *)
(* that three sequence numbers reach every case of it: the highest, one    *)
(* below it inside the window, and one that has left it.                   *)
(***************************************************************************)
EXTENDS SwarmStateCache

Packet(s, e, q, t, k) ==
    [sender |-> s, epoch |-> e, seq |-> q, ts |-> t, ttl |-> 1, kind |-> k,
     fault |-> FALSE, disconnected |-> FALSE]

(* Two senders under a journal. Sender 1 speaks in two trust epochs; its   *)
(* second packet 2 is a restart of the sender that reuses the number.      *)
JournalSenders == {1, 2}
JournalPackets ==
    {Packet(1, 1, 1, 0, "heartbeat"), Packet(1, 1, 2, 0, "heartbeat"),
     Packet(1, 1, 3, 1, "peer_goodbye"), Packet(1, 1, 2, 2, "heartbeat"),
     Packet(1, 2, 1, 1, "heartbeat"), Packet(1, 2, 2, 1, "heartbeat"),
     Packet(2, 1, 1, 0, "heartbeat")}

(* Two senders and a cache of one entry, no journal. The timestamps of a   *)
(* sender follow its sequence numbers, and the last packet is stamped so   *)
(* that earlier ones are still fresh when the entry is a whole unit old.   *)
MemorySenders == {1, 2}
MemoryPackets ==
    {Packet(1, 1, 1, 0, "heartbeat"), Packet(1, 1, 2, 1, "heartbeat"),
     Packet(1, 1, 3, 1, "peer_goodbye"),
     [Packet(2, 1, 1, 0, "edge_health") EXCEPT !.disconnected = TRUE],
     [Packet(2, 1, 2, 2, "edge_health") EXCEPT !.fault = TRUE]}
=============================================================================
