CONSTANTS
  Ids = {1, 2}
  MaxAggro = 2
  Self = 1
  Filters <- TheFilters
  Conditions <- TheConditions
  Far = Far
  Lost = Lost
SPECIFICATION Spec
INVARIANTS
  EnemiesAreRight
  CombinesSets
  KeepsEarlier
  TargetIsThere
  TextsAreRead
  SteersRight
