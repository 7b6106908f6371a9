SPECIFICATION Spec
CONSTANT MaxNodes = 2
INVARIANTS TypeOK SessionResolvesParameters NoBorrowedData FilesCleanedOrKept EveryGraphHasInfo ProgramFitsDevice
