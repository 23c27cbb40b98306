CONSTANTS
    Nations = {n1, deity}
    Online = {n1, deity}
    Deity = deity
    MaxMsgs = 2
    MaxClock = 1
SPECIFICATION MailSpec
INVARIANTS
    CountsTelegrams
    NothingRemovedUnread
