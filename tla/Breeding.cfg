SPECIFICATION Spec
CONSTANTS
    Texts = {1, 2, 3, 4, 5}
    Meaning <- MCMeaning
    Artifact <- MCArtifact
    Qualified = {1, 3, 4, 5}
    MinBatches = 2
    Patience = 2
    Incumbents = {3}
    SeedTarget = 2
    Workers = 3
    MaxBatches = 0
    SeedAnswers <- MCSeedAnswers
    Branch = 2
    Floor = 0
    Restarting <- MCRestarting
    Outcomes = {"good", "bad"}
    SingleBatch = TRUE
    ChildTexts = {4, 5}
    MaxRound = 2
INVARIANTS CandidatesDiffer WindowsAreDrained SeedingWearsOut SlotsBoundOnce CreditIsEarned AnswersAccounted
