SPECIFICATION Spec
CONSTANT Pixels = {"8bit 4:2:0", "10bit", "4:2:2", "4:4:4"}
INVARIANTS
  TypeOK
  PassesThePlayable
  OrdinaryCompatIsUniversal
  OrdinaryPlaysEverywhere
PROPERTY SafeIsNeverReencoded
CHECK_DEADLOCK FALSE
