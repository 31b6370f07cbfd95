\* A tab on each of the pages, with two writes under way.
SPECIFICATION Spec
CONSTANTS
  Visits <- Tabs
  Slots <- Two
  Most = 2
INVARIANT DepositsWithinApprovals RevertsOnlyIfOvertaken SavedNameStays
CHECK_DEADLOCK FALSE
