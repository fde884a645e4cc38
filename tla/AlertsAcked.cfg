\* One scanner, operators, and a quota seen at two counts.
SPECIFICATION Spec
CONSTANTS
    down = down
    quota = quota
    failed = failed
    count1 = count1
    count2 = count2
    Conditions = {down, quota}
    ReadingsOf <- TwoCounts
    Scanners = {cron}
    MaxRestarts = 0
    Clear = Clear
INVARIANT ScanSucceeds
