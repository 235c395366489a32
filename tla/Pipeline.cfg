SPECIFICATION PipelineSpec
CONSTANTS
  Request = {r1, r2}
  Tx = {t1, t2}
  Custom = {c1}
  Seeded = {s1, s2}
  salary = salary
  lunch = lunch
  Value = {salary, lunch}
  NoRow = NoRow
  MaxRequests = 3
  MaxFaults = 1
  MaxMonth = 1
  Amount = {5}
  Income = Income
  Absent = Absent
  Figures <- MCFigures
CHECK_DEADLOCK FALSE
SYMMETRY PipelineSymmetry
INVARIANTS    SeededOnce
            
