SPECIFICATION Spec
CONSTANTS
    Layouts <- TwoOfThree
    Shapes <- FourElements
    MapLens <- ThreeOneOne
    Rearrangers = {"box", "subset"}
    basesize = 4
    blocksize = 264
    MaxDim = 5
    MaxProcs = 6
INVARIANTS WrittenRight ReadRight RindexFits BoxesPartition RegionsExact
