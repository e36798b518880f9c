SPECIFICATION Spec
CONSTANT Settings <- MCSettings
CONSTANT Contributions = 2
INVARIANT InBounds
INVARIANT FileLayout
INVARIANT PowersComputed
INVARIANT HonestAccepted
INVARIANT MiscomputationCaught
