SPECIFICATION Spec
CONSTANT Sizes = {1, 7, 8, 10}
INVARIANTS TypeOK Intv1IsFirstRun IntvExIsFirstGap
PROPERTY ImplementsBitSet
