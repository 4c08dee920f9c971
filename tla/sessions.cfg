CONSTANTS
    Tabs = {t1, t2}
    Emails = {e1, e2}
    Tokens = {k1, k2}
    MaxErrors = 1
SPECIFICATION WebSessionFairSpec
INVARIANTS WebSessionTypeOK ShownUserActs
PROPERTIES ExpiredSessionEnds
