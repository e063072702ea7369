SPECIFICATION TemplatesSpec
CONSTANTS
    c1 = c1
    c2 = c2
    Callers <- TwoCallers
    Offered <- OfferedTemplates
    NewIds = {"team"}
    Customizations <- SomeCustomizations
    Forbidden <- ForbiddenTexts
    MaxLog = 1
    MaxRecords = 2
CONSTRAINT FewRecords
INVARIANTS
    TitlesClashOnlyInOverlap
    LiveIsStored
    ScanFindsContradictions
SYMMETRY Symmetry
CHECK_DEADLOCK FALSE
