CONSTANTS
  Controllers = {cp, mp}
  GenerationChecked = {cp}
  MaxFailures = 6
SPECIFICATION Spec
INVARIANTS TunedNotShortened
PROPERTIES CappedDoubling StaysEscalated
