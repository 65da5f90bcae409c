SPECIFICATION Spec
CONSTANTS
  Entries <- MCEntries
  Left <- MCLeft
  Damaged <- MCDamaged
  LocalConfigs <- MCLocalConfigs
  SharedConfigs <- MCSharedConfigs
  CommandLines <- MCCommandLines
  MaxChanges = 2
INVARIANTS
  OfferedIsNewer
  CurrentIsNewest
  ForcedVersionDecides
