SPECIFICATION JournalSpec
CONSTANTS
  Installers = {p, q}
  MaxAppends = 2
  MaxInstallerDeaths = 1
CHECK_DEADLOCK FALSE
INVARIANTS
  JournalKeepsRecords
