SPECIFICATION DbSpec
CONSTANTS
  NULL = NULL
  Ids = {0, 1}
  BlockSize = 2
  Names = {1, 2}
  WithDestructor = {1}
  Rows <- FirstRow
  Linked = {0}
  MaxOthers = 1
  Tags = {tag}
  RefNames = {ref}
  Globals = {global}
PROPERTY
  ClearEntityClearsRows
