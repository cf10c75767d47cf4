SPECIFICATION Spec
CHECK_DEADLOCK FALSE
CONSTANTS
    Campaigns <- MCCampaigns
    MaxExecs = 2
INVARIANTS
    SlotsTellPure
    RetriesFollow
    DelaysBackOff
    RepliesAreTheirs
    TraceIsTrue
    AuditHolds
