SPECIFICATION MCSpec
CONSTANTS
  one = one
  first = first
  second = second
  agent = agent
  worker = worker
  c1 = c1
  c2 = c2
  None = None
  Ids = {one, first, second}
  Instances = {agent, worker}
  RecipientOf <- MCRecipient
  Interactive = {agent}
  Writers = {first, second}
  Callers = {c1, c2}
  MaxStops = 3
CHECK_DEADLOCK FALSE
INVARIANTS
    OneEffect
    LedgersAgree
    ResultsKept
PROPERTIES
    ImplementsLaunchOnce
    EffectsRegistered
