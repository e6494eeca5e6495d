CONSTANTS
  plain = plain
  plainer = plainer
  one = one
  two = two
  both = both
  m1 = m1
  m2 = m2
  NoText = NoText
  KindOfHeading <- HeadingKinds
  KindOfLabel <- LabelKinds
  Casefold <- CaseFolds
  LongTexts = {}
  Registry <- Definitions
  ProfileTokens <- Profiles
  CategoryRules <- CategoryTable
  KindRules <- KindTable
  Alphabet <- Letters
  Words <- WordSets
  Key <- Keys
  CanonicalPart <- CanonicalParts
  ManufacturerOf <- MakerAliases
  InterfacesIn <- Buses
  Reading <- Readings
  UnitAt <- Units
  ExactKey <- Keys
  SheetOf <- Sheets
  NumberIn <- Numbers
  OnboardWords = {"based on"}
  HintWords <- HintTable
  PathKinds <- PathTable
  Paths = {"p", "q", "x"}
  Contents = {"c1", "c2", "twice", "bad"}
  LibraryOf <- Directories
  Allowed = {"sensors"}
  Revisions = {1, 2}
  Parsed <- SymbolTable
  RejectBelow = 500
  ReadyFrom = 800
SPECIFICATION AlgorithmsSpec
INVARIANTS EvidenceIsOnThePage ReadyNeedsNobody AcceptedOnTwoLines IncrementalIndexIsFresh
  AnalysisKeepsTheWorkbook ApplyingOnlyAdds ScoresAgree
CHECK_DEADLOCK FALSE
