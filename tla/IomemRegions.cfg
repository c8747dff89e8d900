SPECIFICATION Spec
CONSTANTS
  Page = 1
  Desc = {"ram", "reserved", "keeper"}
  MaxAddr = 4
  MaxLines = 4
  MaxIndent = 2
  Required = 2
  Alignment = 2
  AvoidLists <- MCAvoidLists
  MaxRows = 2
  FirmwareMap <- MCFirmwareMap
INVARIANTS
  TypeOK
  AvailableExact
  SmapCoversAvailable
  SearchExact
