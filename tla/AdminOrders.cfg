\* Four orders of up to four seconds are placed while a client walks the
\* pages or asks for any, on integers small enough to overflow.
SPECIFICATION Spec
CONSTANTS
  Orders = {o1, o2, o3, o4}
  Pages = {0, 2, 5, 7}
  Sizes = {3, 7}
  Filters <- MCFilters
  MaxTime = 3
  MaxPageSize = 3
  DefaultPageSize = 1
  MaxInt = 7
  None = None
SYMMETRY OrderSymmetry
INVARIANTS WalkMissesNothing MetadataAgrees ListInv
