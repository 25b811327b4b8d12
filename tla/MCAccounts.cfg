SPECIFICATION Spec
CONSTANTS
    Password = {p1, p2}
    InitialPassword = p1
    Request = {r1, r2}
    MaxRequests = 3
    MaxFailures = 1
    MaxRestarts = 1
    None = None
CHECK_DEADLOCK FALSE
INVARIANT Inv
PROPERTIES PasswordsAreChecked AcknowledgedIsComplete RequestsEnd
