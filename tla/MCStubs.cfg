CONSTANTS
  Outer <- mcOuter
  Nested <- mcNested
  MaxDepth = 2
SPECIFICATION Spec
INVARIANT CallConvention
PROPERTY ContextRestored
