\* The constants of the code.  The bound of ten, which a document and a message of
\* the code state, is exceeded by one.
SPECIFICATION Spec
CONSTANTS
  MaxRetries = 10
INVARIANT AtMostMaxRetries
CHECK_DEADLOCK FALSE
