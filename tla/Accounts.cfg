\* Two requests at a time, three seconds; two users, two players; one part moves.
SPECIFICATION MCSpec
CONSTANTS
    r1 = r1
    r2 = r2
    ann = ann
    ben = ben
    pw1 = pw1
    pw2 = pw2
    steam1 = steam1
    steam2 = steam2
    alice = alice
    bob = bob
    key = key
    Unset = Unset
    Requests <- MCRequests
    Users <- MCUsers
    MaxWrites = 2
    Players <- MCPlayers
    Linked <- MCLinked
    Names <- MCNames
    FirstName <- MCFirstName
    Minute = 1
    Rate = 1
    MaxPlayed = 1
    MaxJoins <- MCMaxJoins
    MaxRenames <- MCMaxRenames
    Servers <- MCOne
    Steams <- MCSteams
    Keys <- MCKeys
    Ids <- MCTwo
    Options <- MCTwo
    Clicks <- MCTwo
    Mentions <- MCMentions
    MaxPosts = 5
    Readers <- MCReaders
    Senders <- MCOne
    Fetches <- MCRequests
    Size = 1
    MaxSends = 2
    Slots <- MCSlots
    Lapsed = key
    MaxUploads = 3
    MaxOrders = 2
    KeptEpisodes = 2
    Visitors <- MCReaders
    Shown = 1
    Hidden = 2
    Spacing = 0
    TTL = 1
    MaxWait = 1
    KeptCopies = 2
    MaxCopies = 4
    MaxCommits = 2
    Addresses <- MCThree
    Passwords <- MCPasswords
    FirstPassword = pw1
    Limit = 1
    MaxTime = 2
    MaxRequests = 4
INVARIANTS
    AccountsTypeOK
    OnlyNewestValid
    AttemptsBounded
    SuperadminRemains
    OneFounder
    PlaytimeIsSound
    ReadersAreTold
    FilesAreKept
    FlagFollowsMode
    NoGhosts
PROPERTIES
    RefusedStaysRefused
    KeepsSession
    ChosenRolesSurvive
    ClaimsAreFinal
CHECK_DEADLOCK FALSE
SYMMETRY Symmetric
