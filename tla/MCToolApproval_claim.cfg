\* Two overlapping attempts, two deliveries, one editor; everything may be killed.
CONSTANTS
  a1 = a1
  a2 = a2
  d1 = d1
  d2 = d2
  k1 = k1
  k2 = k2
  e1 = e1
  e2 = e2
  Attempts = {a1, a2}
  Deliveries = {d1, d2}
  Keys = {k1, k2}
  Editors = {e1}
  Nobody = Nobody
  MaxExecs = 2
SPECIFICATION FairSpec
\* Attempts and deliveries are used up: the instance may stop.
CHECK_DEADLOCK FALSE
INVARIANTS TypeOK EffectOnce OneEffectPerCall EffectAuthorised ApprovedDefinition OutcomeTruthful RequestFollowsExecution DecisionsStand
PROPERTIES SettledFrozen ExecutionSettles
