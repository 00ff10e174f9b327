CONSTANTS
    Parts = {"registry"}
    Async = "Async"
    Names = {"Async", "DbRead"}
    s1 = s1
    s2 = s2
    s3 = s3
    h1 = h1
    h2 = h2
    Handlers = {h1, h2}
    Seeds = {s1, s2, s3}
    DbSeeds = {"d1"}
    MaxConnections = 2
    Commits = {"implicit", "explicit"}
    t1 = t1
    t2 = t2
    HttpSeeds = {t1, t2}
    Chunks <- HttpChunks
    MaxGarbage = 2
    MaxResponse = 2
    MaxSent = 3
    ShortSeed = ShortSeed
    NoSeed = NoSeed
    Known = {"mock_http_get"}
    Unknown = {"other"}
    Conts = {1}
    Exception = Exception
    MaxEffects = 1
    MaxDeclared = 1
    CacheSize = 2
    Loadable <- LoadablePackages
    PackageNames = {"test-package", "update-test", "other"}
    PackageVersions = {"latest"}
    MaxCrashes = 1
SYMMETRY Symmetry
SPECIFICATION SpecAll
INVARIANTS ReplaysSameBytes
