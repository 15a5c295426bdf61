SPECIFICATION Spec
CONSTANTS
    s = s
    f = f
    g = g
    box = box
    subset = subset
    t0 = t0
    t1 = t1
    Tasks = {t0, t1}
    ioroot = t0
    Hole = Hole
    Vars = {f, s}
    Decomps = {box, subset}
    rec_var <- NoneIsRecord
    fndims <- fndimsOf
    ndims <- ndimsOf
    needsfill <- BothNeedFill
    rearranger <- rearrangerOf
    llen = 2
    maxiobuflen = 2
    ndof <- OneEach
    Iotypes = {"netcdf", "pnetcdf"}
    Room = 2
    Excess = 0
    Liberties = {"mix ranks"}
    MaxFrame = 1
    MaxPuts = 2
INVARIANTS LossReported
CHECK_DEADLOCK FALSE
