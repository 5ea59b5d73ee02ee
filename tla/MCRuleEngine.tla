---------------------------- MODULE MCRuleEngine ----------------------------
(* Instances of RuleEngine for TLC. *)
EXTENDS RuleEngine, TLC
CONSTANTS n1, n2, b1

Rule(enabled, operator, threshold, cooldown, scope) ==
    [enabled |-> enabled, metric |-> "depth", operator |-> operator,
     threshold |-> threshold, cooldownSec |-> cooldown, appliesToDustbinIds |-> scope]

\* A rule with a cooldown for every bin, and one without for b1 alone.
MCRuleConfigs == {Rule(TRUE, "gt", 79, 1, {}), Rule(TRUE, "gte", 80, 0, {b1})}
\* The smallest depth that trips the built-in alarm; it trips every rule above.
MCReadings == {[metric |-> "depth", value |-> 80]}
EvalSymmetry == Permutations(Evals)
=============================================================================
