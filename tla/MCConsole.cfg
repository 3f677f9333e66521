SPECIFICATION Spec
CONSTANTS
    Pages <- AllPages
    \* the application database
    Databases = {d1, d2}
    First = d1
    Tables = {t, audit}
    AuditTable = audit
    Web = {w1, w2}
    Background = {b1}
    Busy = {w1, b1}
    MaxPlans = 2
    MaxWrites = 1
    \* roles, SQL policy
    Groups = {g}
    Connections = {c}
    GroupsOf <- MCGroupsOf
    StartPolicies <- MCStartPolicies
    MaxEdits = 2
    Candidates = {s1, s2}
    Shaped = {s1, s2}
    Families = {f}
    MaxDecisions = 2
    \* connections
    Drivers = {pg}
    ConnectionIds = {n1}
    MaxSubmissions = 3
    Workers = 2
    \* people, sign-in, security
    Persons = {a, b}
    Viewer = a
    Roles = {adm, dev}
    AdminRole = adm
    MaxChanges = 4
    Invitees = {i}
    ProviderIds = {p}
    ProviderKinds = {google, oidc}
    OidcKind = oidc
    MaxIssued = 2
    \* the form of a request
    Targets = {"orders", "users"}
    BrowserRead = {"orders", "users"}
    BrowserWrite = {"orders"}
    NativeRead = {"orders", "users"}
    NativeWrite = {"users"}
    NoConnection = "no connection"
    Sqls = {"select", "merge"}
    LocalPolicy <- MCLocalPolicy
    MaxStatements = 2
    Zone <- MCZoneForward
    Times = {6, 7, 8}
    MaxRequestEdits = 3
INVARIANTS
    TypeOK
    CutoverLosesNothing
    OneDatabaseInUse
    DenialStands
    WriteOnlyWherePermitted
    AnswerStaysOnDisplay
    ScheduledTimeReadsBack
PROPERTIES
    SavedAsShown
    LinkedProviderStays
    LastAdministratorStays
    TargetTlsComplete
CHECK_DEADLOCK FALSE
