CONSTANTS
  Jobs = {"audit", "batch", "analyze"}
  Base <- Home
  Pages <- ThreePages
  Docs <- SiteDocs
  AllDocs <- ManyDocs
  MaxDepth = 2
  Changes <- SomePages
  Lines <- UrlFile
  Pods = 2
  Configs <- PodConfigs
  ExampleLimit = 2
  TopLimit = 2
  ClearedLimit = 6
INIT MCInit
NEXT MCNext
CHECK_DEADLOCK FALSE
INVARIANTS
  CrawlPromise
  PlanPromise
  ScorePromise
  DiffPromise
  BatchPromise
  TreePromise
  PlatePromise
