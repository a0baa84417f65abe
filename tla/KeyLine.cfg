\* One line of any shape beside a few ordinary ones, with and without the cache.
SPECIFICATION Spec
CONSTANTS
  None = None
  Sources = 2
  Holds <- Both
  MaxPrefix = 4
INVARIANTS OptionsWhole Verbatim RoundTrip EachOnce
CHECK_DEADLOCK FALSE
