SPECIFICATION Spec
CONSTANTS
  AllHosts <- MCHosts
  Jobs <- MCJobs
INVARIANTS HostsApart CleanStart
PROPERTIES JoinsItsRound
CHECK_DEADLOCK FALSE
