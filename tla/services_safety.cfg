CONSTANTS
    Parts = {"renames", "lookups", "links", "realms", "pictures", "edits", "cron", "limits", "uploads", "shutdown"}
    MaxTagNames = 2
    Mentor = {y1, y2}
    NumNames = 3
    NameActor = {x1, x2}
    Visitor = {v1}
    KeepCount = 1
    Retries = 1
    NoMentor = NoMentor
    NoActor = NoActor
    MentorAccount = {u1}
    ModeratorAccount = {d1}
    LoginRequest = {x1, x2}
    Click = {y1, y2}
    PortalRequest = {r1}
    MaxVersion = 4
    NoAccount = NoAccount
    NoLink = NoLink
    NoSession = NoSession
    Upload = {x1, x2}
    Mover = {y1, y2}
    MaxFaults = 2
    OldPhoto = OldPhoto
    NoPhoto = NoPhoto
    Save = {x1, x2}
    Tag = {y1, y2}
    TagName = {z1, z2}
    NoTagName = NoTagName
    NoTag = NoTag
    NoTags = NoTags
    NoSave = NoSave
    Reminder = Reminder
    Deactivation = Deactivation
    Purge = Purge
    Pass = {x1, x2}
    JobMentor = {y1, y2}
    Process = {z1, z2}
    MaxLost = 1
    NoPass = NoPass
    NoJob = NoJob
    NoMentorYet = NoMentorYet
    LimitRequest = {x1, x2}
    LimitKey = {y1, y2}
    MaxVisitors = 1
    Burst = 2
    Limiter = {l1, l2, l3, l4, l5}
    SharedLimiter = SharedLimiter
    NoLimiter = NoLimiter
    UploadRequest = {x1, x2, x3}
    MaxInFlight = 2
    MaxDecodes = 1
    Work = {x1, x2}
    QueueSize = 1
    NoEvent = NoEvent
SPECIFICATION Spec
SYMMETRY Symmetry
CHECK_DEADLOCK FALSE
INVARIANTS
    TypesOK NamesApart BackstopsRest MissIsJustified RealmsApart PhotoKept ImagesFollowRow
    OnePassPerJob NoticeIsDue FreshMeansSwept SlotsAccounted EventsAccounted ProducersFirst
PROPERTIES
    CooldownKept ImplementsNamespace LinkOpensOnce RevokedStaysOut SaveIsWhole EvictionIsFair
