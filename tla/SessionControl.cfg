SPECIFICATION FairSpec
CONSTANTS
  alice = alice
  bot = bot
  anon = anon
  Ids <- MCIds
  Actors <- MCActors
  Anonymous <- MCAnonymous
  NoActor = NoActor
  NoTtl = NoTtl
  TtlRequests = {0, 5}
  MinTtl = 1
  MaxTtl = 2
  DefaultTtl = 2
  MaxEpoch = 3
  MaxHandoffs = 2
INVARIANTS TypeOK ControlAgrees
PROPERTIES NeverSeizedByWeaker FenceSpec VanishedHolderIsReaped
