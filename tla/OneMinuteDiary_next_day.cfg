SPECIFICATION FairSpec
CONSTANTS
  Words = {w1}
  Nothing = Nothing
  MaxDay = 1
PROPERTIES EachDayHasItsMinute
