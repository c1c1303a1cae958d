SPECIFICATION Spec
CONSTANTS
  Kinds <- MCKinds
  Databases <- MCDatabases
  Presets <- MCPresets
  Cores <- MCCores
  Hits <- MCHits
  Contents <- MCContents
  Selectable <- MCSelectable
  Excludable <- MCExcludable
  MaxBuilds = 3
INVARIANTS
  TypeOK
  RefreshIsNeverSuperseded
  PresetsMatchFilters
  ListedItemsAreCurrent
PROPERTY ChangesShow
CHECK_DEADLOCK FALSE
