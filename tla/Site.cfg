\* Two users, servers, clients, tasks; one part moves in a behaviour.
SPECIFICATION MCSpec
CONSTANTS
    Unset = Unset
    Nobody = Nobody
    NoRow = NoRow
    ann = ann
    ben = ben
    c1 = c1
    c2 = c2
    c3 = c3
    page = page
    scheduler = scheduler
    Connects <- MCConnects
    MinDays = 2
    MaxDay = 3
    MaxShifts = 1
    Hours = 3
    MaxOrders = 3
    Servers <- MCServers
    Threshold = 1
    Keep = 1
    MaxStarts = 1
    Tasks <- MCTasks
    NoTemplates = page
    Ids <- MCIds
    Senders <- MCSenders
    weekly = weekly
    byhand = byhand
    MaxEdits = 3
    Users <- MCUsers
    Limit = 1
    Starts <- MCStarts
    WindowFrom = 2
    WindowTo = 6
    MaxPlans = 3
    Clients <- MCClients
    Channels <- MCUsers
    Size = 2
    MaxItems = 4
    Intervals <- MCIntervals
    MaxWrites = 3
    MaxAge = 4
INVARIANTS
    SiteTypeOK
    BonusIsEarnedOnce
    MailedOnce
    NoEventUnreminded
    NoGap
PROPERTIES
    DailyRecurs
    DownIsReported
    ScheduledGoesOut
    NotTooOften
CHECK_DEADLOCK FALSE
