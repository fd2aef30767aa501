SPECIFICATION CampaignSpec
CONSTANTS
    Campaigns = {c1, c2}
    OccurrenceCount = 2
    NoCampaign = NoCampaign
    BoundaryOutcomes <- MCOutcomes
SYMMETRY CampaignSymmetry
INVARIANTS
    AnswerHonest
    RootOutlivesTasks
