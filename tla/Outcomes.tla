------------------------------ MODULE Outcomes ------------------------------
\* What an operation may give instead of a value.
EXTENDS FiniteSets, Naturals

CONSTANTS
  None,       \* a null pointer, an unset attribute
  Throws,     \* an exception leaves the operation
  Aborts,     \* an assertion fails, or a null pointer is followed
  Undefined   \* memory is read that was never written

ASSUME OutcomesAssumption == Cardinality({None, Throws, Aborts, Undefined}) = 4
=============================================================================
