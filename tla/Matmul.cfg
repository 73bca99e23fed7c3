SPECIFICATION FairSpec
CONSTANT Shapes <- MCShapes
INVARIANT NoRace
INVARIANT StaysInside
INVARIANT TilesAreWhole
INVARIANT RaggedIsWrong
PROPERTY ImplementsNaive
PROPERTY Terminates

