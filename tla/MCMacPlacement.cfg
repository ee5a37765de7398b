CONSTANTS
  Count = 3
  Keys = {"a", "a (2)", "a (3)", "a (4)", "a (2) (2)", "a (2) (3)"}
  Candidates <- SameNames
  None = None
  User = User
  Part = Part
  MaxUser = 3
SPECIFICATION Spec

  
  
PROPERTY UsersFilesStay
CHECK_DEADLOCK FALSE
