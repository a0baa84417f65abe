\* Two processes, or two threads under one lock; any of them may die, and so may
\* the machine.
SPECIFICATION Spec
CONSTANTS
  p1 = p1
  p2 = p2
  old = old
  new = new
  None = None
  Procs = {p1, p2}
  Values = {old, new}
  Ttl = 0
  Modes = {TRUE, FALSE}
  MaxTime = 1
SYMMETRY Symmetric
INVARIANTS TypeOK NeverTruncated ReadsCurrent
PROPERTY IsPairStore
