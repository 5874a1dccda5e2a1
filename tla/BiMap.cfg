SPECIFICATION Spec
CONSTANTS Nodes = {1, 2, 3, 4, 5, 6, 7}
          Pairs <- Mixed
INVARIANTS TreesWellFormed
PROPERTIES ImplementsRelation
CHECK_DEADLOCK FALSE
