CONSTANTS
  a = a  b = b  c = c
  NodeIds = {a, b, c, "q", "s", "start", "end"}
  OptionIds = {"x", "y", "z", "right", "wrong", "correct", "partial", "incorrect"}
  NewNodes = {a, b, c}
  NewOptions = {"x", "y", "z"}
  None = None
  Offered = {"story", "decision", "terminal"}
  Grades = {"partial"}
  MaxNodes = 3
  MaxOptions = 3
  Pages <- MCPages
SPECIFICATION EditorSpec
CONSTRAINTS SavedOnce FewOptions FewTexts FewChanges OldBlocksStay FinalStoryStaysShort
SYMMETRY Symmetry
INVARIANTS
  EditorTypeOK
  OpensAsSaved
  ShowsWhatIsStored
  
PROPERTIES
  AddingKeepsItWired
