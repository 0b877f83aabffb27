SPECIFICATION Spec
CONSTANTS
    Wrap = 2
INVARIANTS
    TypeOK
    NestingBounded
PROPERTIES
    ImplementsAtomicHandlers
    MotorServed
