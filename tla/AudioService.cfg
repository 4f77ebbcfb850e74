SPECIFICATION AudioSpec
CONSTANTS
  NumAus = 2
  MaxSeg = 1
  Programmes <- Both
  MaxFaults = 2
INVARIANTS LabelWhole SlideIsWhole
PROPERTIES NoneMissed EventuallyShown
