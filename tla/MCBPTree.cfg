SPECIFICATION Spec
CONSTANTS
  MaxKeys = 2
  Keys = {1, 2, 3, 4, 5, 6, 7, 8}
  Budgets = {9}
INVARIANTS
  SearchMatchesReference
  ParentPointersAgree
  BalancedAndBounded
  LeafChainIsSorted
