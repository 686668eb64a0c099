---------------------------- MODULE StandbyLoad ----------------------------
(***************************************************************************)
(* What the player promises about the preload of a standby bank, as the    *)
(* IPC thread sees it through its ticket (StandbyLoadTicket in             *)
(* realtime-play-server/src/player/standby_ticket.rs): one preload at a    *)
(* time; once its load has begun it ends with a result, whatever is        *)
(* played, stopped or started meanwhile.                                   *)
(***************************************************************************)
VARIABLE load  \* "idle", "queued", "loading", "resolved" or "lost"

\* The request is accepted only when no other is under way.
Accept == load = "idle" /\ load' = "queued"

\* It may be thrown out before it was begun, with the queue it stood in ...
Lose == load = "queued" /\ load' = "lost"

Start == load = "queued" /\ load' = "loading"

\* ... and a bank that is gone fails it at once.
Resolve == load \in {"queued", "loading"} /\ load' = "resolved"

\* The ticket is given back with the result, or with an error.
Report == load \in {"resolved", "lost"} /\ load' = "idle"

\* The server stops.
Abandon == load # "idle" /\ load' = "idle"

Next == Accept \/ Lose \/ Start \/ Resolve \/ Report \/ Abandon

Spec == load = "idle" /\ [][Next]_load

=============================================================================
