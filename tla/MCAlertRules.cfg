SPECIFICATION Spec
CONSTANTS
  Workers = {w1, w2}
  Rules <- MCRules
  Targets <- MCTargets
  Signal <- OneSignal
  Related <- Unrelated
  MaxChanges = 3
INVARIANT AlertsAreLinked
PROPERTIES
  AlertsEnd
  PersistingBreachFires
