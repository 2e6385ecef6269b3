SPECIFICATION BotSpec
CONSTANTS
  alice = alice
  bot = bot
  anon = anon
  Ids <- MCIds
  Actors <- MCActors
  Anonymous <- MCAnonymous
  NoActor = NoActor
  NoTtl = NoTtl
  TtlRequests = {0}
  MinTtl = 1
  MaxTtl = 2
  DefaultTtl = 2
  MaxEpoch = 2
  MaxHandoffs = 1
INVARIANT BotNeverTakesFromAPerson
