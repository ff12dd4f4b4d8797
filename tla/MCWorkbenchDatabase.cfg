SPECIFICATION Spec
CONSTANTS
  p1 = p1
  p2 = p2
  Parts = {"database"}
  Answer <- MCAnswer
  MaxCuts = 2
  Call = {0, 1}
  ArgLen = 2
  MaxField = 1
  Request = {r1, r2}
  Key = {k1, k2}
  Value = {v1, v2}
  MaxOps = 3
  WorkspaceFaults = {"db", "disk"}
  Draft <- MCDraft
  Baked <- MCBaked
  Entry <- MCEntry
  Order <- MCOrder
  MaxUnits = 2
  MaxCost = 3
  Extraction <- MCExtraction
  Blank = ""
  Claim <- MCClaim
  Delivery <- MCDelivery
  MaxCriteria = 2
  MaxRepairable = 1
  Shelf <- MCShelf
  Tool <- MCTool
  Local = {"shopify", "wordpress", "twilio", "sendgrid", "mailchimp", "netlify", "supabase", "github", "vercel"}
  MaxTools = 1
  MaxRounds = 1
  AppFile <- MCFile
  Size <- MCSize
  Version = {"v", "leak"}
  Leaky = {"leak"}
  MaxBytes = 4
  MaxPolls = 2
  MaxDeploys = 2
  MaxEdits = 1
  Said <- MCSaid
  Existing <- MCExisting
  MaxRepairs = 1
  Supabase = {p1}
  Table = {"t"}
  MaxChanges = 1
  MaxBuilds = 2
  MaxAsks = 1
  MaxRestarts = 1
  Unread = FALSE
INVARIANT
  NotConnectedIsSo
CHECK_DEADLOCK FALSE
