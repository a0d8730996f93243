SPECIFICATION EditSpec
CONSTANTS
  GroupId = {"top", "A", "C", "D", "E"}
  ChanId = {"a", "e"}
  NULL = NULL
  Config0 <- SmallConfig
  Top = "top"
  InitFilters = {"all", "active"}
  HiddenCommands = FALSE
  Filters <- MCFilters
  RowCounts <- MCRowCounts
  AlarmChan <- OneAlarm
  Names <- MCNames
  Arrows <- MCArrows
  MaxConfig = 5
  MaxTimers = 2
  Files <- MCFiles
  Programs = {"ALH", "ACT"}
  OpenFiles = {"small", "whole"}
  Sheet <- MCSheet
  LostLines = FALSE
  EditRows = 8
  MaxLinks = 4
  MaxEdits <- MCMaxEdits
INVARIANTS
  ViewExact
  WindowsShowTree
  IndicatorsExact
  ListsExact
  SavedReadsBack
PROPERTIES
  EditsTree
