\* The table of the program, and inserts of its names and of three others.
CONSTANTS
  TABLE_SIZE = 100
  Operations <- ProgramOperations
  OtherNames <- OtherNamesToTry
  InsertedValues = {77, 78}
  MaxInserts = 2
SPECIFICATION Spec
INVARIANTS
  OperationsKnown
  FoundIsLastInserted
  LostOnlyByCollision
