CONSTANTS
    N = 3
    Mails <- MCMails
SPECIFICATION FairSpec
INVARIANTS
    EntriesKept
PROPERTIES
    ReturnMeansDone
    PostTerminates
