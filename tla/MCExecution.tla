----------------------------- MODULE MCExecution -----------------------------
(* Families of behaviours of one ExecutionCoordinator: submission and recovery with
   faults and a restart, reconciliation against the event stream with a failing call
   or with a restart, and cancellation with reconciliation or with a fault and a
   restart.  `part' names the family of a behaviour: it fixes what the broker was told
   to do and how much of each bounded thing may happen. *)
EXTENDS ExecutionCoordinator

VARIABLE part

\* A plan whose SELL leg precedes the protective BUY it depends on, and one of the BUY alone.
MCOrders == {"sell", "buy"}
MCQuantity == [o \in MCOrders |-> 2]
MCPlans == {"spread", "single"}
MCLegs == [spread |-> <<"sell", "buy">>, single |-> <<"buy">>]
MCDependsOn == [sell |-> {"buy"}, buy |-> {}]

Scenario(behavior, unavailable) == [behavior |-> behavior, unavailable |-> unavailable]
Script(first, second) == <<Scenario(first, 0), Scenario(second, 0)>>

\* What a submission can meet, across a restart and repeated unavailability.
MCSubmitScripts ==
  {Script("IMMEDIATE_FILL", "REJECT"), Script("TIMEOUT", "HOLD"), Script("OUT_OF_ORDER", "DELAYED_FILL"),
   Script("DUPLICATE_EVENTS", "PARTIAL_FILL"), <<Scenario("IMMEDIATE_FILL", 1), Scenario("HOLD", 2)>>,
   <<Scenario("REJECT", 0)>>}

\* Reconciliation against partial fills and a lost answer.
MCReconcileScripts == {Script("PARTIAL_FILL", "LOST_RESPONSE")}

\* A refusal whose publication fails, so that it is recovered, cancelled and reconciled.
MCRefuseScripts == {<<Scenario("REJECT", 0)>>}

\* Cancellation that is confirmed and followed by a late fill.
MCCancelScripts == {<<Scenario("LATE_FILL", 0)>>}

\* One order that is filled at once, for a disagreement with the documents.
MCFillScripts == {<<Scenario("IMMEDIATE_FILL", 0)>>}

Family(scripts, plan, maxFaults, maxCrashes, cancellable, reconciles) ==
  [scripts |-> scripts, plan |-> plan, faults |-> maxFaults, crashes |-> maxCrashes,
   cancellable |-> cancellable, reconciles |-> reconciles]

Families ==
  [submission |-> Family(MCSubmitScripts, "spread", 2, 1, {}, FALSE),
   reconciliation |-> Family(MCReconcileScripts, "spread", 1, 0, {}, TRUE),
   restart |-> Family(MCReconcileScripts, "spread", 0, 1, {}, TRUE),
   refusal |-> Family(MCRefuseScripts, "single", 1, 0, {"buy"}, TRUE),
   cancellation |-> Family(MCCancelScripts, "single", 0, 0, {"buy"}, TRUE),
   interruption |-> Family(MCCancelScripts, "single", 1, 1, {"buy"}, FALSE)]

MCScripts == MCSubmitScripts \cup MCReconcileScripts \cup MCRefuseScripts \cup MCCancelScripts

StaysIn(family) ==
  /\ planned' \subseteq {family.plan}
  /\ faults' <= family.faults /\ crashes' <= family.crashes
  /\ cancel'.order \in {"none"} \cup family.cancellable
  /\ ~family.reconciles => recon' = recon

PartInit == part \in DOMAIN Families /\ Init /\ script \in Families[part].scripts
PartNext == Next /\ StaysIn(Families[part]) /\ UNCHANGED part
PartSpec == PartInit /\ [][PartNext]_<<vars, part>>

\* The coordinator with whatever scripts, plans and bounds the configuration gives it.
StreamSpec == Init /\ part = "stream" /\ [][Next /\ UNCHANGED part]_<<vars, part>>
==============================================================================
