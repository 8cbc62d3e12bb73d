SPECIFICATION ClockSpec
CONSTANTS
  k1 = k1  k2 = k2
  Clocks = {k1, k2}
  PhysMax = 2
  CounterMax = 1
  None = None
  MaxMints = 5
SYMMETRY Symm
INVARIANT NeverStuck
PROPERTY ImportsDominated
