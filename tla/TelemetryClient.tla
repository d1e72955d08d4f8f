--------------------------- MODULE TelemetryClient ---------------------------
(***************************************************************************)
(* ControlPlaneTelemetryClient: when the node may try to publish, and what *)
(* the client keeps of an attempt.  Time is counted in ticks of the main   *)
(* loop since the last attempt started, which is the time mark_result is   *)
(* given.                                                                  *)
(***************************************************************************)
EXTENDS Naturals, Sequences

CONSTANTS Interval,   \* ticks between two accepted publications
          Backoff     \* ticks to wait by the number of failures in a row; the last entry
                      \* stands for every longer row (300 ms doubled at most five times)

ASSUME ClientAssumption ==
    /\ Interval \in Nat \ {0}
    /\ Backoff \in Seq(Nat \ {0}) /\ Backoff # <<>>

MaxFailures == Len(Backoff)
Never == 0

\* last_status_: the text of an error holds the wait, which grows with the failures.
Status == [kind : {"none", "ready", "accepted", "transport", "rejected", "identity"},
           level : 0 .. MaxFailures]

\* The clock of the client stops where it no longer tells waits apart.
Horizon == CHOOSE n \in {Interval} \union {Backoff[i] : i \in DOMAIN Backoff} :
               \A k \in {Interval} \union {Backoff[i] : i \in DOMAIN Backoff} : k <= n

Client == [enabled : BOOLEAN, status : Status, failures : 0 .. MaxFailures,
           attempted : BOOLEAN, since : 0 .. Horizon]

InitClient(enabled) ==
    [enabled |-> enabled, failures |-> 0, attempted |-> FALSE, since |-> Never,
     status |-> [kind |-> IF enabled THEN "ready" ELSE "none", level |-> 0]]

current_backoff(client) == Backoff[client.failures]

should_publish(client) ==
    /\ client.enabled
    /\ \/ ~ client.attempted
       \/ client.since >= IF client.failures > 0 THEN current_backoff(client) ELSE Interval

Waited(client) == [client EXCEPT !.since = IF client.attempted /\ @ < Horizon THEN @ + 1 ELSE @]
Attempting(client) == [client EXCEPT !.attempted = TRUE, !.since = 0]

\* mark_result() of the attempt that started client.since ticks ago.
mark_result(client, result) ==
    IF result = "accepted"
    THEN [client EXCEPT !.failures = 0, !.status = [kind |-> result, level |-> 0]]
    ELSE LET n == IF client.failures < MaxFailures THEN client.failures + 1 ELSE MaxFailures
         IN  [client EXCEPT !.failures = n, !.status = [kind |-> result, level |-> n]]
===============================================================================
