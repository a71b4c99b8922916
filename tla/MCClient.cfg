SPECIFICATION Spec
CONSTANTS
  MaxAmount = 12
  Mantissa = 8
  Words <- MCWords
  MaxIdLength = 5
  DefaultMax = 10
  Docs <- MCDocs
  DamagedDocs <- MCDamagedDocs
  Timeouts <- MCTimeouts
  MaxBuffer = 20
  Stringify <- ScenarioText
  Damages <- FileDamages
  FilesOf <- DamagedFiles
  Loads <- TextLoads
  Fits <- FundsFit
  Prints <- ReportText
  Decodes <- OutputRead
INVARIANTS TextsMeanOneValue CutTextsAreRefused NothingIsDropped NullMeansLeftOut ReceiptsTellApart ReturnsItsReport NothingIsLeftBehind
PROPERTIES EveryCallEnds
