SPECIFICATION Spec
CONSTANTS
  Size = 3
  MaxBytes = 5
  MaxRequest = 2
INVARIANTS CountsNeverAhead NothingLost
PROPERTIES PopsInOrder UnreadKept
