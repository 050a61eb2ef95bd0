SPECIFICATION SearchSpec
CONSTANT Service <- MCService
INVARIANT SearchIsExact
PROPERTY SearchEnds
CHECK_DEADLOCK FALSE
