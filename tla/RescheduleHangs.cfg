CONSTANTS
    d1 = d1
    d2 = d2
    j1 = j1
    j2 = j2
    j3 = j3
    h1 = h1
    h2 = h2
    every_hour = every_hour
    every_day = every_day
    garbled = garbled
    Discovery = {d1}
    Cron = {every_hour, every_day, garbled}
    BadCron = {garbled}
    DailyCron = every_day
    Job = {j1, j2, j3}
    Handler = {h1}
    Boot = Boot
    EarlyRequests = FALSE
    RemoveFails = FALSE
    NoJob = NoJob
    NotYet = NotYet
    Deleted = Deleted

SPECIFICATION FairSpec
PROPERTY
    RequestsReturn
