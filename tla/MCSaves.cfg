CONSTANTS
    w1 = w1
    w2 = w2
    flat = flat
    part = part
    mac = mac
    snap = snap
    meta = meta
    cached = cached
    raw = raw
    coded = coded
    conf = conf
    Worlds <- MCWorlds
    Tops <- MCTops
    Resources = mac
    Files <- MCFiles
    Session = {snap, meta, raw, coded}
    Meta = {meta}
    Raw = {raw}
    Encoded = {coded}
    Dirs = {conf}
    Below <- MCBelow
    Contents = {"old", "new", "long", "empty"}
    Empty = "empty"
    Torn = "torn"
    Size <- MCSize
    Settings <- MCSettings
    NoMods <- MCNoMods
    Documents <- MCDocuments
    TextOf <- MCTextOf
    ReadOf <- MCReadOf
    Unsupported = Unsupported
    Plain <- MCPlain
    Ids = {"1", "2", "3", "7"}
    NoId = "none"
    DefaultIds <- MCDefaultIds
    Choices <- MCChoices
    Played <- MCPlayed
    Zips <- MCZips
    NoOrigin = NoOrigin
    NoDownload = NoDownload
    NoUpload = NoUpload
    MaxEvents = 3
    CanFail = TRUE
    CanChange = TRUE
SPECIFICATION SavesSpec
INVARIANT SavesTypeOK
INVARIANT CavesMatch
PROPERTY DownloadsReturn
PROPERTY RoundTrip
PROPERTY ImportedWhole
SYMMETRY Either
CHECK_DEADLOCK FALSE
