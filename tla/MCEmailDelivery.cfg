\* One message, two workers that may both run its job, two faults.
SPECIFICATION EmailSpec
CONSTANTS
  Messages = {k1}
  Workers = {w1, w2}
  Nobody = Nobody
  NoMessage = NoMessage
  JobAttempts = 2
  MaxStalls = 1
  MaxAdds = 2
  MaxEmailFaults = 2
INVARIANTS
  RecordIsTrue
PROPERTIES
  MessageIsSettled
CHECK_DEADLOCK FALSE
