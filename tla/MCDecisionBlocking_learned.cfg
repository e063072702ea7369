CONSTANTS
    HistoryWindow = 3
    ActionTypes = {"DEPLOY", "DELETE"}
    Goals <- DefaultGoals
    Initiatives <- DefaultInitiatives
    Objectives <- DefaultObjectives
    MaxOutcomes = 3
    MinSamples = 2
    MaxFeedback = 2
    MinimumSampleSize = 1
    WeightLearningRate = 2000
    SimulationLearningRate = 3000
    ComplianceLearningRate = 1000
    RawActions <- SomeActions
    Circumstances <- SomeCircumstances
    Targets <- SomeTargets
    Violations <- SomeViolations
    Downstream <- SomeDownstream
    Batches <- SomeBatches
    MaxLearned = 3
SPECIFICATION BlockingSpec
INVARIANTS BlockingTypeOK ViolationNeverRelaxes RiskierNeverMilder MissLowersForecast
PROPERTIES RecurrenceEscalates ExactTeachesNothing
CHECK_DEADLOCK FALSE
