---------------------------- MODULE MCInstances ----------------------------
(***************************************************************************)
(* The spare pool, the construction of instances and what the commands of  *)
(* a bank do to one of them, side by side: a behaviour is of one of them,  *)
(* and the others stand still with nothing to do.                          *)
(***************************************************************************)
EXTENDS InstancePool, InstanceCreation, BankInstance

CONSTANTS w1, w2, r1, r2, dx, sfz, sixsines, wav

MCWorkers == {w1, w2}
MCRenders == {r1, r2}
MCSlots == (0 :> 1) @@ (1 :> 1)

Surge == [ids |-> <<"surge">>, wanted |-> None, outputs |-> 3, isMain |-> TRUE, channels |-> 2,
          notePorts |-> 1, dialects |-> {"clap", "midi"}, form |-> "state"]
Vaporizer == [Surge EXCEPT !.ids = <<"vap">>, !.form = None]
Dexed == [Surge EXCEPT !.ids = <<"dexed", "dexed fx">>, !.wanted = "dexed", !.dialects = {"midi"}, !.form = "cartridge"]
Six == [Surge EXCEPT !.ids = <<"six">>, !.form = "six"]
Bundle == [Surge EXCEPT !.ids = <<"a", "b">>]
Mono == [Surge EXCEPT !.channels = 1]
MCPlans == {<<Vaporizer, Surge, Vaporizer>>, <<Dexed, Vaporizer, Six>>, <<Vaporizer, Bundle>>, <<Mono, Surge>>}

\* An instance of a bank: a patch of every form but "pending", whose load ends in the same
\* ways as that of "applied"; one key, one chain.
MCPatches == {dx, sfz, sixsines, wav}
MCFormOf == [p \in MCPatches |-> CASE p = dx -> "cartridge" [] p = sfz -> "sfz"
                                   [] p = sixsines -> "applied" [] p = wav -> "cache"]

VARIABLE part

AtRest == /\ offline = TRUE /\ serialize = TRUE /\ plan = <<Surge>>
          /\ next = 1 /\ made = <<>> /\ failure = 0
          /\ pc = [t \in Workers \cup Renders |-> "done"]
          /\ job = [t \in Workers \cup Renders |-> 0] /\ step = job

Init ==
  /\ part \in {"pool", "creation", "bank"}
  /\ PoolInit
  /\ builderUp => part = "pool"
  /\ IF part = "creation" THEN CreationInit ELSE AtRest
  /\ InstanceInit

Next ==
  /\ UNCHANGED part
  /\ \/ part = "pool" /\ PoolNext /\ UNCHANGED <<creationVars, instanceVars>>
     \/ part = "creation" /\ CreationNext /\ UNCHANGED <<poolVars, instanceVars>>
     \/ part = "bank" /\ InstanceNext /\ UNCHANGED <<poolVars, creationVars>>

Spec == Init /\ [][Next]_<<part, poolVars, creationVars, instanceVars>> /\ PoolFairness
=============================================================================
