SPECIFICATION Spec
CONSTANTS
    r1 = r1  r2 = r2  f1 = f1  i1 = i1  i2 = i2  s1 = s1  s2 = s2  p1 = p1  c1 = c1  c2 = c2
    Runs = {r1, r2}
    Remote = {r1}
    Heavy = {}
    Features = {f1}
    Instances = {i1}
    Roles = {p1}
    Surfaces = {s1}
    FeatureOf <- OneFeature
    InstanceOf <- OneInstance
    RoleOf <- OneRole
    SurfaceOf <- OneSurface
    MaxLocal = 1
    RoleLimit = 1
    Closers = {c1}
    Closes <- OneCloser
    Free = Free
    Broken = Broken
    Nobody = Nobody
    Malformed = Malformed
INVARIANTS
    InProgressHolds
    TeardownQuiet
PROPERTIES
    ReclaimedOnEvidence
    WorkAdmitted
CHECK_DEADLOCK FALSE
