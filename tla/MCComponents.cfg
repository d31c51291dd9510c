SPECIFICATION Spec
CONSTANTS
  Testers = {t1, t2, t3}  Increments = 2
  Participants = {t1, t2, t3}  Rounds = 3
  Users = {t1, t2}  MaxSends = 2
  Slots = 3  Values = {1, 2, 3, 4}
INVARIANTS LocksExclude RoundsApart AnswersInOrder BytesKept ValuesKept
           LastSecondCounted ParsedWhenComplete
PROPERTY WaitersReturn
CHECK_DEADLOCK FALSE
