SPECIFICATION TranslationSpec
CONSTANTS
  B = 2
  LoadValue = 154
  ExcVector = 192
  RfiMask = 124
  ExcMask = 60
  EeBit = 3
  PageInsns = 4
  Start = 64
  Fuel = 16
  Singles <- MCSingles
  Doubles <- MCDoubles
  Triples <- MCTriples
  Many <- MCMany
  Few <- MCFew
  MipsLoadValue = 65434
  MipsExcVector = 384
  MipsReturnPc = 516
  MipsPc = 4616
  MipsPageInsns = 2
  MipsValues <- MCValues
  MipsImmediates <- MCImmediates
  MipsAmounts <- MCAmounts
CHECK_DEADLOCK FALSE
INVARIANTS
  PpcTranslated
  MipsTranslated
