SPECIFICATION Spec
CONSTANTS
    None = None
    CredentialIds = {x1, x2}
    Route <- SmallRoute
    AuthOf <- SmallAuthOf
    Secrets = {good, foreign}
    Blank = blank
    Marker = marker
    Foreign = {foreign}
    MaxFailover = 1
    MaxEdits = 3
    MaxJobs = 1
    Ways = {main, spare}
    Compatible = {main, spare}
    Vendor = {text, image}
    Listed <- SmallListed
    Presets = {preset}
    Allowed <- SmallAllowed
    MaxSaves = 1
    Bound = {y1, y2}
    Suitable = {y1, y2}
    Admins = {a, b, c, d}
    Editor = a
    Tasks = {older, newer}
    Followed = {older}
    Home = home
    Created = {other}
    Calls = {tab1, tab2}
    MaxList = 1
    MaxAt = 4
    NodeKinds = {"gen_image"}
    InputContracts <- SmallInputContracts
    Upstream <- SmallUpstream
    Assets = {picture, voice}
    AssetType <- SmallAssetType
    LibraryEntries = {hero}
    EntryKind <- SmallEntryKind
    MaterialType <- SmallMaterialType
    MaxReferences = 2
    MaxRefs = 2
    MaxUnits = 2
    Fields = {"mode", "size", "steps"}
    Hidden = {"mode"}
    Numbers = {0, 1, 2}
    ParamContracts <- SmallParamContracts
    Conditions <- SmallConditions
    main = main
    cli = cli
    spare = spare
    good = good
    foreign = foreign
    text = text
    image = image
    preset = preset
    picture = picture
    voice = voice
    hero = hero
SYMMETRY Symmetry
INVARIANTS
    TypeOK
    CredentialsServe
    ModelsServe
    FeedAgrees
    FormsAgree
    EngineDecides
PROPERTIES
    CredentialRowsKept
CHECK_DEADLOCK FALSE
