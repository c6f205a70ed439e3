SPECIFICATION Spec
CONSTANTS
    blue = blue
    NoValue = NoValue
    Gap = Gap
    Root <- MCRoot
    Bar = Bar
    Nonce = Nonce
    Second = 2
    MinRunes = 12
    MaxBytes = 1024
INVARIANTS WrittenIsReadBack UntouchedFormIsAccepted InsideRoot SessionLasts PolicyCoversHash ExposedOnlyAsAsked
