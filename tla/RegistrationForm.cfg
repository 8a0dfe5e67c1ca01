SPECIFICATION FormSpec
CONSTANTS
  HiddenFields <- MCHiddenFields
  EditableFields <- MCEditableFields
  OtherName = "other"
  MaxEdits = 3
INVARIANTS
  RelayedFormReachesZitadel
  RelayedFormCanBeCompleted
CHECK_DEADLOCK FALSE
