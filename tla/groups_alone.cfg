SPECIFICATION Spec
CONSTANTS
    app = app
    web = web
    db = db
    api = api
    preview = preview
    main = main
    u1 = u1
    i1 = i1
    i2 = i2
    i3 = i3
    i4 = i4
    NoId = NoId
    NoGroup = NoGroup
    Users = {u1}
    Ids = {i1, i2, i3, i4}
    Groups <- TwoGroups
    Manifest <- TwoManifests
    Previews <- Branch
    Faults = {"list", "find", "create", "remove", "crash"}
INVARIANT TypeOK
INVARIANT OnePerName
PROPERTY DownClears
PROPERTY UpCompletes
SYMMETRY Symmetric
CHECK_DEADLOCK FALSE
