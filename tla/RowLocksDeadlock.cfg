\* One worker is enough: its own heartbeat against its own audit.
SPECIFICATION LocksSpec
CONSTANT Claimant = {w1}
INVARIANT NoDeadlock
