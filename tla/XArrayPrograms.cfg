CONSTANTS
  Grain = 2
  SymsGrain = 3
  Limit = 2
  Symbols = 2
  MaxFreq = 3
  Ints = {0, 1, 2}
  MaxElems = 5
  Gone = Gone
SPECIFICATION Spec
INVARIANTS ResultsAreRight SlaRulesAreKept
PROPERTY ImplementsArrays
