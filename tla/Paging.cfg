CONSTANTS
  Probes <- AllProbes

SPECIFICATION Spec
INVARIANTS
  TypeOK
  Translates
  Isolated
PROPERTIES
  MappingAdds
CHECK_DEADLOCK FALSE
