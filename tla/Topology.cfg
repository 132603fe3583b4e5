SPECIFICATION Spec
CONSTANTS
  Unset <- None
  Domains <- SmallDomains
INVARIANTS
  EdgeBudget
  EveryNodeAttached
  ConnectedWhenPromised
  FillIsBalanced
PROPERTY
  OnlyBudgetFails
CHECK_DEADLOCK FALSE
