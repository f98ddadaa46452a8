SPECIFICATION FairLinkSpec
CONSTANTS
  l1 = l1
  l2 = l2
  h1 = h1
  h2 = h2
  Linkers = {l1, l2}
  Hooks = {h1, h2}
  Prices = {"A", "B"}
  Statuses = {"active", "past_due"}
  PastDue = "past_due"
  MaxLinks = 2
  MaxEvents = 2
  MaxFaults = 1
INVARIANTS
  LinkTypeOK
  OverlappingLinksAgree
PROPERTIES
  CrashNeverDoubleSubscribes
  EventsTakeEffectOnce
CHECK_DEADLOCK FALSE
