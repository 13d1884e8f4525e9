\* One instance of the service and two sessions on it: one attempt per recovery,
\* one disturbance of the environment (time-outs, failing attempts and the user
\* come on top).  What mode "yandex" does, "auto" does after its fallback.
SPECIFICATION Spec
CONSTANTS
  Modes = {"hysteria", "auto"}
  MaxAttempts = 1
  MaxFaults = 1
  MaxSessions = 2
INVARIANTS
  TunnelHasSession
  CleanStop
  StaysWatched
  
CHECK_DEADLOCK FALSE
