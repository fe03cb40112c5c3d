SPECIFICATION Spec
CONSTANTS
  MaxValue = 6
  MaxDocument = 12
  MaxCache = 18
  MaxDepth = 3
  MaxNodes = 12
  MaxCacheNodes = 16
  MaxGroups = 3
  MaxRules = 3
  Batch = 1024
  MaxName = 512
  Width <- MCWidth
  Spaces = {" ", ""}
  Unprintable = {"tab"}
  Rejected = Rejected
  Unset = Unset
  Raised = Raised
  None = None
  Absent = Absent
  Gone = Gone
  Number <- MCNumber
  Caches <- MCCaches
  SpelledRules <- MCSpelledRules
  Reconciles <- MCReconciles
  Consumers <- MCConsumers
  Deployments <- MCDeployments
  Alertmanagers <- MCAlertmanagers
INVARIANTS CacheRoundTrips RewritesOnlyDifferences RequestsBounded
           SentRulesMerge StorageAgrees S3SchemeAgrees AdvertisedAreUsed
