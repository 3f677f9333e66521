SPECIFICATION Spec
CONSTANTS
    Pages = {"application_database"}
    \* the application database
    Databases = {d1, d2}
    First = d1
    Tables = {t, audit}
    AuditTable = audit
    Web = {w1, w2}
    Background = {b1}
    Busy = {}
    MaxPlans = 1
    MaxWrites = 2
    \* roles, SQL policy
    Groups = {g}
    Connections = {c}
    GroupsOf <- MCGroupsOf
    StartPolicies <- MCStartPolicies
    MaxEdits = 2
    Candidates = {s1, s2}
    Shaped = {s1, s2}
    Families = {f}
    MaxDecisions = 2
    \* connections
    Drivers = {pg}
    ConnectionIds = {n1}
    MaxSubmissions = 3
    Workers = 2
    \* people, sign-in, security
    Persons = {a, b}
    Viewer = a
    Roles = {adm, dev}
    AdminRole = adm
    MaxChanges = 4
    Invitees = {i}
    ProviderIds = {p, q}
    ProviderKinds = {google, oidc}
    OidcKind = oidc
    MaxIssued = 2
    \* the form of a request
    Targets = {"orders", "users"}
    BrowserRead = {"orders", "users"}
    BrowserWrite = {"orders"}
    NativeRead = {"orders", "users"}
    NativeWrite = {"users"}
    NoConnection = "no connection"
    Sqls = {"select", "merge"}
    LocalPolicy <- MCLocalPolicy
    MaxStatements = 2
    Zone <- MCZoneForward
    Times = {6, 7, 8}
    MaxRequestEdits = 3
PROPERTIES
    ResumedCopyVerifies
CHECK_DEADLOCK FALSE
