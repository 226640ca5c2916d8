SPECIFICATION Spec
CONSTANTS
    r1 = r1  r2 = r2  f1 = f1  i1 = i1  i2 = i2  s1 = s1  s2 = s2  p1 = p1  c1 = c1  c2 = c2
    Runs = {r1, r2}
    Remote = {}
    Heavy = {r1}
    Features = {f1}
    Instances = {i1, i2}
    Roles = {p1}
    Surfaces = {s1, s2}
    FeatureOf <- OneFeature
    InstanceOf <- TwoInstances
    RoleOf <- OneRole
    SurfaceOf <- TwoSurfaces
    MaxLocal = 1
    RoleLimit = 2
    Closers = {}
    Closes <- NoCloser
    Free = Free
    Broken = Broken
    Nobody = Nobody
    Malformed = Malformed
INVARIANTS
    LimitsHold
CHECK_DEADLOCK FALSE
