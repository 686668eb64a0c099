------------------------------ MODULE MCPlayers ------------------------------
(***************************************************************************)
(* The two ends of the way of a command that are checked on their own: the *)
(* command queue, with a worker that takes commands at any time, and the   *)
(* cache player plugin.  A behaviour is of one of them; the other stands   *)
(* still.  The bounds cut the number of generations and the length of the  *)
(* queue.                                                                  *)
(***************************************************************************)
EXTENDS PlayerCommands, CachePlayer

CONSTANTS MaxGeneration, MaxPending

VARIABLE part

Bounded == generation <= MaxGeneration /\ Len(pending) <= MaxPending

MCInit ==
  /\ part \in {"queue", "cache"}
  /\ QueueInit
  /\ Init

InQueue == part = "queue" /\ UNCHANGED <<part, vars>>
InCache == part = "cache" /\ UNCHANGED <<part, queueVars>>

MCNext ==
  \/ InQueue /\ QueueNext /\ Bounded'
  \/ InCache /\ Next

MCVars == <<part, queueVars, vars>>

\* Fairness of CachePlayer, in its part.
MCSpec ==
  /\ MCInit /\ [][MCNext]_MCVars
  /\ WF_MCVars(InCache /\ LoadStep)
  /\ WF_MCVars(InCache /\ ProcessStep)
  /\ WF_MCVars(InCache /\ EndEvents)
  /\ SF_MCVars(InCache /\ ReadGeneration)
=============================================================================
