SPECIFICATION RegistrySpec
CONSTANTS
  INTERNAL_CMD_CLASS = 1
  Builtins <- Both
  AppCommands <- Clashing
INVARIANTS
  BuiltinsReachable
