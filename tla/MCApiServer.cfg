SPECIFICATION Spec
CONSTANTS
  Client = {c1, c2}
  Name = {"anna"}
  Command <- MCCommand
  NoClient = NoClient
  MaxFaults = 3
INVARIANTS TypeOK SuccessIsOnce OnlyAuthorised HostsSettled
PROPERTIES CommandsEnd
CHECK_DEADLOCK FALSE
