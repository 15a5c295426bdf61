SPECIFICATION Spec
CONSTANTS
    Layouts <- OneApart
    Shapes <- FourElements
    MapLens <- TwoOne
    Rearrangers = {"box", "subset"}
    basesize = 4
    blocksize = 264
    MaxDim = 1
    MaxProcs = 1
INVARIANTS WrittenRight
