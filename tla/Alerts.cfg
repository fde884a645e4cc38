\* A cron job and the console scan for two conditions.
SPECIFICATION Spec
CONSTANTS
    down = down
    quota = quota
    failed = failed
    count1 = count1
    count2 = count2
    Conditions = {down, quota}
    ReadingsOf <- OneReadingEach
    Scanners = {cron, console}
    MaxRestarts = 1
    Clear = Clear
INVARIANT TypeOK
PROPERTIES AnnouncedIsRecorded DecisionStands LastingIsRecorded
