CONSTANTS
    Emails = {e1, e2}
    Subjects = {s1}
    Requests = {r1, r2}
    Credentials = {c1}
    DevHeader = FALSE
    Asked <- Changes
    NoOne = NoOne
SPECIFICATION CredentialsFair
INVARIANTS
    AccessInv
PROPERTIES
    AdminRemains
    FirstAdminOnly
    DisableRevokes
    RequestsEnd
