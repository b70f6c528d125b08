----------------------------- MODULE MCElection -----------------------------
EXTENDS LeaderElection
CONSTANTS s1, s2

\* What may go wrong: a death for good, the deaths of any kind, anything.
DeathsToAnything ==
  {{"kill"}, {"kill", "restart"}, {"kill", "restart", "stall", "db_error"}}
=============================================================================
