---------------------------- MODULE InstancePool ----------------------------
(***************************************************************************)
(* The spare instances of the banks (player/instances.rs) and the one      *)
(* thread that builds them (player/instances/builder.rs).                  *)
(*                                                                         *)
(* A slot that is asked for a patch of another plugin is given a spare     *)
(* instance of it; the instance it had becomes a spare.  A bank without a  *)
(* spare waits for the builder, for a limited time, and what it does not   *)
(* wait for any longer still arrives.  Instances are counted, not named.   *)
(***************************************************************************)
EXTENDS Naturals, Sequences, FiniteSets

CONSTANTS
  KindCount,   \* number of plugins in the catalog
  SlotCounts,  \* number of slots of bank 0 and of bank 1
  SpareTarget, \* spare_target(): spares of a plugin the server aims at
  MaxOrders    \* bound: no exchange begins while so many orders are queued

Banks == 0 .. 1
Kinds == 0 .. KindCount - 1
Default == 0
Idle == <<>>

ASSUME PoolAssumption ==
  /\ KindCount \in Nat \ {0}
  /\ SlotCounts \in [Banks -> Nat]
  /\ SpareTarget \in Nat
  /\ MaxOrders \in Nat

VARIABLES
  slotKind,    \* LiveInstances.slot_kind of each bank
  spares,      \* number of spares of each plugin
  outstanding, \* LiveInstances.outstanding
  waiting,     \* the slot and plugin take_spare() waits for: at most one
  requests,    \* the channel to the builder
  building,    \* what the builder is at: at most one order
  outcomes,    \* the channel to each bank
  builderUp,   \* the builder thread runs
  alive        \* the bank's thread runs

bankPoolVars == <<slotKind, spares, outstanding, waiting>>
poolVars == <<bankPoolVars, requests, building, outcomes, builderUp, alive>>

Slots(b) == 1 .. SlotCounts[b]

(***************************************************************************)
(* The plan                                                                *)
(***************************************************************************)
\* With one plugin there is nothing to exchange.
TotalTarget == IF KindCount > 1 THEN SpareTarget ELSE 0

\* split_spare_target: bank 0 gets the odd one, and all of it when bank 1 is empty.
BankTarget(b) ==
  IF SlotCounts[1] = 0 THEN IF b = 0 THEN TotalTarget ELSE 0
  ELSE IF b = 0 THEN (TotalTarget + 1) \div 2 ELSE TotalTarget \div 2

\* The plugin every slot starts with needs no spare.
TargetFor(b, k) == IF k = Default THEN 0 ELSE BankTarget(b)

HasBuilder == TotalTarget > 0

\* What m has over n (saturating_sub).
Minus(m, n) == IF m > n THEN m - n ELSE 0

\* request_refill: as many orders as are missing.
Missing(b, k, inPool, ordered) == Minus(TargetFor(b, k), inPool + ordered)

Orders(b, k, n) == [j \in 1 .. n |-> [bank |-> b, kind |-> k]]

\* An order is taken as long as the builder's end of the channel is there.
CanOrder == HasBuilder /\ builderUp

\* LiveInstances::new orders what each plugin lacks, one after the other: nothing of the
\* first, the target of every other.
FirstOrders(b) ==
  [j \in 1 .. (KindCount - 1) * BankTarget(b) |-> [bank |-> b, kind |-> Default + 1 + (j - 1) \div BankTarget(b)]]

PoolInit ==
  /\ slotKind = [b \in Banks |-> [s \in Slots(b) |-> Default]]
  /\ spares = [b \in Banks |-> [k \in Kinds |-> 0]]
  /\ builderUp \in {HasBuilder, FALSE}
  /\ outstanding = [b \in Banks |-> [k \in Kinds |-> IF builderUp THEN TargetFor(b, k) ELSE 0]]
  /\ waiting = [b \in Banks |-> Idle]
  /\ requests \in IF builderUp THEN {FirstOrders(0) \o FirstOrders(1), FirstOrders(1) \o FirstOrders(0)} ELSE {<<>>}
  /\ building = <<>>
  /\ outcomes = [b \in Banks |-> <<>>]
  /\ alive = [b \in Banks |-> TRUE]

(***************************************************************************)
(* The bank                                                                *)
(***************************************************************************)
\* The outcomes of these for plugin k.
Of(k, arrived) == {j \in DOMAIN arrived: arrived[j].kind = k}

\* Seeded fault: what arrives is still counted as on its way.
AcceptKeepsCount(p, arrived) ==
  [p EXCEPT !.spares = [k \in Kinds |-> @[k] + Cardinality({j \in Of(k, arrived): arrived[j].ok})]]

\* accept, of each: a failure is counted off as well.
Accepted(p, arrived) ==
  [p EXCEPT !.outstanding = [k \in Kinds |-> Minus(@[k], Cardinality(Of(k, arrived)))],
            !.spares = [k \in Kinds |-> @[k] + Cardinality({j \in Of(k, arrived): arrived[j].ok})]]

Pool(b) == [spares |-> spares[b], outstanding |-> outstanding[b], slotKind |-> slotKind[b]]

\* collect_ready, which the bank's loop calls before each command.
Collected(b) == Accepted(Pool(b), outcomes[b])

\* The orders that bring the pool p of bank b to its target.
Refill(b, p, k) == IF CanOrder THEN Orders(b, k, Missing(b, k, p.spares[k], p.outstanding[k])) ELSE <<>>

Ordered(p, orders, k) == [p EXCEPT !.outstanding[k] = @ + Len(orders)]

Swapped(p, slot, k) ==
  [p EXCEPT !.spares = [p.spares EXCEPT ![k] = @ - 1, ![p.slotKind[slot]] = @ + 1], !.slotKind[slot] = k]

\* Bank b goes on with pool p, has sent these orders and waits for w.
Becomes(b, p, orders, w) ==
  /\ spares' = [spares EXCEPT ![b] = p.spares]
  /\ outstanding' = [outstanding EXCEPT ![b] = p.outstanding]
  /\ slotKind' = [slotKind EXCEPT ![b] = p.slotKind]
  /\ waiting' = [waiting EXCEPT ![b] = w]
  /\ requests' = requests \o orders

\* The exchange, with the refill after it.
Exchange(b, p, slot, k) ==
  LET q == Swapped(p, slot, k)
      orders == Refill(b, q, k)
  IN Becomes(b, Ordered(q, orders, k), orders, Idle)

Free(b) == alive[b] /\ waiting[b] = Idle

\* Any command: what is ready is taken in.
CollectReady(b) ==
  /\ Free(b) /\ outcomes[b] # <<>>
  /\ Becomes(b, Collected(b), <<>>, Idle)
  /\ outcomes' = [outcomes EXCEPT ![b] = <<>>]
  /\ UNCHANGED <<building, builderUp, alive>>

\* prepare_slot_for_patch: over another plugin.  Without a spare the refill is ordered,
\* one instance at least, and the bank waits; without a builder it fails.
Prepare(b, slot, k) ==
  LET p == Collected(b)
      refill == Refill(b, p, k)
      orders == IF CanOrder /\ refill = <<>> /\ p.outstanding[k] = 0 THEN Orders(b, k, 1) ELSE refill
  IN /\ Free(b) /\ p.slotKind[slot] # k /\ Len(requests) < MaxOrders
     /\ IF p.spares[k] > 0 THEN Exchange(b, p, slot, k)
        ELSE Becomes(b, Ordered(p, orders, k), orders, IF HasBuilder THEN <<[slot |-> slot, kind |-> k]>> ELSE Idle)
     /\ outcomes' = [outcomes EXCEPT ![b] = <<>>]
     /\ UNCHANGED <<building, builderUp, alive>>

\* take_spare has received an outcome, of whatever plugin: a spare of the plugin it
\* waits for ends the wait, and so does any failure.
Receive(b) ==
  /\ alive[b] /\ waiting[b] # Idle /\ outcomes[b] # <<>>
  /\ LET w == waiting[b][1]
         p == Accepted(Pool(b), <<Head(outcomes[b])>>)
     IN IF p.spares[w.kind] > 0 THEN Exchange(b, p, w.slot, w.kind)
        ELSE Becomes(b, p, <<>>, IF Head(outcomes[b]).ok THEN waiting[b] ELSE Idle)
  /\ outcomes' = [outcomes EXCEPT ![b] = Tail(@)]
  /\ UNCHANGED <<building, builderUp, alive>>

\* SPARE_WAIT_TIMEOUT has passed, whatever has arrived, or the builder's end is gone.
GiveUp(b) ==
  /\ alive[b] /\ waiting[b] # Idle
  /\ waiting' = [waiting EXCEPT ![b] = Idle]
  /\ UNCHANGED <<slotKind, spares, outstanding, requests, building, outcomes, builderUp, alive>>

\* The thread ends or panics: its ends of both channels are dropped.
BankEnds(b) ==
  /\ alive[b]
  /\ alive' = [alive EXCEPT ![b] = FALSE]
  /\ waiting' = [waiting EXCEPT ![b] = Idle]
  /\ outcomes' = [outcomes EXCEPT ![b] = <<>>]
  /\ UNCHANGED <<slotKind, spares, outstanding, requests, building, builderUp>>

(***************************************************************************)
(* The builder                                                             *)
(***************************************************************************)
TakeOrder ==
  /\ builderUp /\ building = <<>> /\ requests # <<>>
  /\ building' = <<Head(requests)>>
  /\ requests' = Tail(requests)
  /\ UNCHANGED <<bankPoolVars, outcomes, builderUp, alive>>

\* Seeded fault: everything built goes to bank 0.
AlwaysToBankZero(order) == 0
Recipient(order) == order.bank

\* build_one succeeds or fails; a bank that has ended gets nothing.
Deliver(ok) ==
  /\ building # <<>>
  /\ LET order == building[1] IN
     outcomes' = IF alive[order.bank] THEN [outcomes EXCEPT ![Recipient(order)] = Append(@, [kind |-> order.kind, ok |-> ok])]
                 ELSE outcomes
  /\ building' = <<>>
  /\ UNCHANGED <<bankPoolVars, requests, builderUp, alive>>

\* All senders are gone and nothing is left in the channel.
BuilderEnds ==
  /\ builderUp /\ building = <<>> /\ requests = <<>> /\ \A b \in Banks: ~alive[b]
  /\ builderUp' = FALSE
  /\ UNCHANGED <<bankPoolVars, requests, building, outcomes, alive>>

BuilderStep == TakeOrder \/ (\E ok \in BOOLEAN: Deliver(ok)) \/ BuilderEnds

PoolNext ==
  \/ \E b \in Banks: CollectReady(b)
  \/ \E b \in Banks: \E s \in Slots(b), k \in Kinds: Prepare(b, s, k)
  \/ \E b \in Banks: Receive(b)
  \/ \E b \in Banks: GiveUp(b)
  \/ \E b \in Banks: BankEnds(b)
  \/ BuilderStep

\* The builder works as long as it has orders, and a bank that waits wakes up for what
\* arrives; nothing is assumed of the timeout.
PoolFairness == WF_poolVars(BuilderStep) /\ \A b \in Banks: WF_poolVars(Receive(b))

PoolSpec == PoolInit /\ [][PoolNext]_poolVars

(***************************************************************************)
(* Properties                                                              *)
(***************************************************************************)
On(b, k) == Cardinality({s \in Slots(b): slotKind[b][s] = k})
Physical(b, k) == On(b, k) + spares[b][k]
\* However the patches move between the plugins, no plugin ever has more instances,
\* those on order included, than a bank's slots and its target (instances.rs:22-25);
\* this is why none is ever thrown away.
PoolBounded ==
  \A b \in Banks, k \in Kinds: Physical(b, k) + outstanding[b][k] <= SlotCounts[b] + TargetFor(b, k)

\* A bank that waits goes on although its timeout may never expire.
WaitEnds == \A b \in Banks: (waiting[b] # Idle /\ builderUp) ~> (waiting[b] = Idle)
=============================================================================
