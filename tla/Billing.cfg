SPECIFICATION BillingSpec
CONSTANTS
    Threads = {loop}
    Loop = loop
    TrialDays = 1
    GraceDays = 1
    PeriodDays = 2
    Reach = 1
    MaxTime = 6
    MaxMail = 3
INVARIANTS
    PaidIsServed
    StandardIsPromised
