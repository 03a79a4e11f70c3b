SPECIFICATION DeskSpec
CONSTANTS
  Labs <- LosingLabs
  Keys <- MCKeys
  Media <- MCMedia
  Constants <- MCConstants
  Mnemonic <- MCMnemonic
  PrnWidth = 3
  PrinterLineCycles = 5
  PrinterFeedCycles = 2
  PrinterRowCycles = 2
  PrinterRowStartCycles = 1
  PrinterColumnCycles = 1
  BankSize = 30
  Banks = {0, 1, 2, 3}
  RingSize = 3
  DrainSize = 3
  Catalogue <- MCCatalogue
  Dumps <- MCDumps
  ModuleIds <- MCModuleIds
  MaxBytes = 400
  RamSize = 12
  Never = 1001
  StartupSteps = 8
  IdleLoop <- MCIdleLoop
  WriteWait <- MCWriteWait
  LibSize = 5000
  LibFetchPC = 12
  StepDispatchPC = 20
  IdleEntryPC = 2
  Overlay = 40
  OverlayWords = 3
  CodeWords = 32
  Listings <- MCListings
  EntrySteps = 40
  KeycodeBudget = 12
  RomFiles <- MCRomFiles
  ConstFiles <- MCConstFiles
  RomWordCount = 3
  ConstantRows = 2
  FirstWord = 1
  LastWord = 9
  LibReturnPCs = {20}
  RomCodes = 12
PROPERTY EjectSaves
