SPECIFICATION FairSpec
CONSTANTS
    Secret = {s}
    x = x
    y = y
    Domains <- MCDomains
    Account = {a}
    None = None
    MaxChanges = 1
    MaxExpire = 1
    MaxFail = 1
INVARIANTS
    ChangesVerified
PROPERTIES
    
    UpdatesContinue
CHECK_DEADLOCK FALSE
