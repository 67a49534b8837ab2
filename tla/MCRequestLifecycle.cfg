\* One film, up to two requests, an operator, a worker, the scan and the
\* reconciliation of deletions.
SPECIFICATION Spec
CONSTANTS
  r1 = r1  r2 = r2  r3 = r3  r4 = r4
  standard = standard  fourK = fourK  usual = usual  other = other
  Requests = {r1, r2, r3, r4}
  Profiles = {usual, other}
  Qualities = {standard, fourK}
  QualityOf <- MCQualityOf
  ProfileOf <- MCProfileOf
  None = None
  Instances <- MCInstances
INVARIANTS TypeOK OneActive CompletedDelivered
PROPERTIES AvailabilityKept LibraryFollowed
CHECK_DEADLOCK FALSE
