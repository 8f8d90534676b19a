-------------------------- MODULE MCChaosInjection --------------------------
(* Two scenarios of the extended suite, one whose deadlines pass in any      *)
(* order and one whose monitor is first, or two phases of a game day.        *)
EXTENDS ChaosInjection

AScenario(duration, timeout, expectedHeal) ==
  [kind |-> "scenario", duration |-> duration, timeout |-> timeout,
   expectedHeal |-> expectedHeal]

SevereLoss == AScenario(60, 60, FALSE)
CombinedWorstCase == AScenario(60, 120, TRUE)
Phase == [kind |-> "phase", duration |-> 30, timeout |-> 30, expectedHeal |-> TRUE]

SomeSuites == {<<SevereLoss, CombinedWorstCase>>, <<Phase, Phase>>}
OneScenario == {<<CombinedWorstCase>>}
=============================================================================
