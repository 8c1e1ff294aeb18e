SPECIFICATION Spec
CONSTANTS
    Other = Other
    NaN = NaN
    Infinity = Infinity
    Missing = Missing
    NoTree = NoTree
    MaxTextLength = 6
    Marker <- MarkerText
    Texts <- TextSet
    Slugs <- SlugSet
    StoredValues <- ReplacedSet
    StoredEchoes <- Echoes
    Usages <- UsageSet
    Rates <- RateSet
    Metrics <- MetricSet
    Pars <- ParSet
    Costs <- CostSet
    Folders <- FolderSet
    Rewrites <- RewriteSet
    MaxRuns = 2
CHECK_DEADLOCK FALSE
INVARIANT AcceptedIsDeployable
INVARIANT RefusalsAreOneLine
INVARIANT PassedHasEvidence
INVARIANT PricesAreFair
INVARIANT ValidatedIsGateable
INVARIANT SeededIsPublished
PROPERTY ReleasedIsAnExercise
