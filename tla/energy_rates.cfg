SPECIFICATION Spec
CONSTANTS
  Requests = {r1, r2}
  Readers = {d1, d2}
  TTL = 2
  Delay = 1
  MaxWrites = 3
SYMMETRY Symmetry
INVARIANTS TypeOK AnswersFresh ClearTakesHold NewestInForce OneActive
