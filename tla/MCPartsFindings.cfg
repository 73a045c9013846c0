SPECIFICATION Spec
CONSTANTS
    Servers = {s1, s2}
    NoPassword = NoPassword
    Torn = Torn
    mine = mine
    theirs = theirs
    OldPasswords = {mine, theirs}
    MaxStarts = 3
    w1 = w1
    w2 = w2
    ann = ann
    Windows = {w1, w2}
    Users = {ann}
    UserOf <- MCUserOf
    Limit = 2
    MaxMade = 2
    MaxFaults = 1
    MaxTrouble = 1
    Requests = {r1, r2}
    Logins = {bob}
    Sources = {home, away}
    Failures = 2
    Window = 2
    MaxNow = 2
    MaxWrong = 3
    files = files
    compiler = compiler
    AppWindows = {files, compiler}
    Desktop = Desktop
    Button <- MCButton
    Files = {f1, f2}
    Ignored = {f2}
    Refused = {f2}
    MaxUploads = 2
    MaxFailures = 1
    Letters = {"x"}
    Documents <- MCDocuments
    MaxLost = 1
INVARIANT UnshowableIsTrue
INVARIANT AllAgree
CHECK_DEADLOCK FALSE
