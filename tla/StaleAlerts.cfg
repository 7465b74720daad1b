\* Two features, one with a Slack thread, compete for one place in the batch;
\* a run may roll back, a post may stay without an answer and be repeated.
SPECIFICATION FairSpec
CONSTANTS
    Features = {f1, f2}
    Threads = {f1}
    MaxRows = 1
    StaleAfter = 1
    MaxRetries = 1
    MaxTime = 3
    MaxAborts = 1
INVARIANT AlertedOnce
INVARIANT EveryReminderAccounted
INVARIANT QuietAfterStop
PROPERTY StaleIsReported
