SPECIFICATION Spec
CONSTANTS
    s = s
    f = f
    g = g
    box = box
    subset = subset
    t0 = t0
    t1 = t1
    Tasks = {t0, t1}
    ioroot = t0
    Hole = Hole
    Vars = {f, g, s}
    Decomps = {box, subset}
    rec_var <- NoneIsRecord
    fndims <- fndimsOf
    ndims <- ndimsOf
    needsfill <- BothNeedFill
    rearranger <- rearrangerOf
    llen = 2
    maxiobuflen = 2
    ndof <- OneEach
    Iotypes = {"netcdf", "pnetcdf"}
    Room = 2
    Excess = 0
    Liberties = {}
    MaxFrame = 1
    MaxPuts = 3
SYMMETRY Interchangeable
INVARIANTS TypeOK BuffersAgree RightPlace IobufHeld
PROPERTIES IsWriteBack
CHECK_DEADLOCK FALSE
