SPECIFICATION FairSpec
CONSTANTS
    r1 = r1  r2 = r2  f1 = f1  i1 = i1  i2 = i2  s1 = s1  s2 = s2  p1 = p1  c1 = c1  c2 = c2
    Runs = {r1}
    Remote = {}
    Heavy = {}
    Features = {f1}
    Instances = {i1}
    Roles = {p1}
    Surfaces = {s1}
    FeatureOf <- OneRun
    InstanceOf <- OneRunInstance
    RoleOf <- OneRunRole
    SurfaceOf <- OneRunSurface
    MaxLocal = 1
    RoleLimit = 1
    Closers = {c1, c2}
    Closes <- BothClose
    Free = Free
    Broken = Broken
    Nobody = Nobody
    Malformed = Malformed
PROPERTIES
    LeasesReturn
    StaleCloseClears
CHECK_DEADLOCK FALSE
