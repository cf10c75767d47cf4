SPECIFICATION Spec
CONSTANTS
    Campaigns <- MCCampaigns
    MaxExecs = 2
INVARIANT SlotsTellInsertions
CHECK_DEADLOCK FALSE
