SPECIFICATION SpecSubmission
CONSTANTS
  Clients = {c1}
  Handlers = {h1, h2}
  Nobody = Nobody
  Routes = {"url", "picture", "upload", "retry", "again"}
  MaxDepth = 1
  RateLimit = 1
  MaxRequests = 3
  MaxWaiting = 5
  MaxSweeps = 1
  MaxErrors = 2
SYMMETRY Symmetric
INVARIANTS TypeOKSubmission RateHolds DepthBounded AnswerIsTrue PictureBeforeJob LeftoversAreUploads
