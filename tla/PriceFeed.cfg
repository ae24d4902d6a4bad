SPECIFICATION LiveSpec
CONSTANTS
  Noon = {2, 3}
  Last = 5
INVARIANTS NeverAhead OnceADay TomorrowIsTomorrow
PROPERTIES PlanRecovers
