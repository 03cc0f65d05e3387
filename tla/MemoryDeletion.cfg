SPECIFICATION FairSpec
CONSTANTS
  None = None
  Proposal = {1, 2}
  Entry = {1, 2, 3, 4}
  Resolver = {"o", "q", "x"}
  Operator = {"o", "q"}
  Request = {"c", "d"}
  Choice = {"approve", "deny", "modify"}
  MaxAsks = 1
  MaxDecisions = 2
  MaxFaults = 1
INVARIANTS HistoryIsTrue DecidedByOperator
PROPERTY Resurfaces
CHECK_DEADLOCK FALSE
