SPECIFICATION Spec
CONSTANTS
  NotSaid = NotSaid
  Requests <- MCRequests
  Replies <- MCReplies
  Default <- MCDefault
  Plan <- MCPlan
  Files = {"chart"}
  MaxStop = 1
  MayStopLate = FALSE
  Asks <- MCAsks
  Backed <- MCBacked
  Shelf <- MCShelf
  AnswerText <- MCAnswer
  StepText <- MCStepText
  HitText <- MCHit
  Note = 2
  MaxMaterial = 48
  MaxPrior = 24
  MaxChars = 40
  MaxJobs = 2
  MaxFiles = 2
  MaxQueries = 3
  MaxDocuments = 2
  DeckReplies <- MCDeckReplies
  SummaryLen = 10
  MaxDeckMaterial = 25
  MaxSlides = 2
  MaxBullets = 2
  Given <- MCGiven
  Slashed <- MCSlashed
  MaxParts = 3
CHECK_DEADLOCK FALSE
INVARIANTS FilesAreFound AskedIsAnswered SameStory ScoredAsAsked BackingsAgree MaterialIsWhole
PROPERTIES DecisionStays TwoRequestsAreOne
