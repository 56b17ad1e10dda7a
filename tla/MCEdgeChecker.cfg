\* Three paths, one of them in braces; two differences at a time.
CONSTANT Inputs <- TwoDifferences
SPECIFICATION Spec
INVARIANTS
    TypeOK
    ServedAsDocumented
    CallsAsDocumented
    CallersServed
    ExitDecidedByFiles
\* The script ends.
CHECK_DEADLOCK FALSE
