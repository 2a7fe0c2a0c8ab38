\* Three requests, any of them cut or lacking a field, one process killed; a
\* counter of four bits, with two or three ones.
CONSTANTS
  CounterBits = 4
  Devices = {"d1"}
  Cards = {"short", "long", "few"}
  Face <- Faces
  PinOf <- TypedPins
  Cuts = {0, 1, 2}
  Counters = {5}
  GarbledBlocks <- Garbled
  MaxRequests = 3
  MaxKills = 1
  None = None
SPECIFICATION FairSpec
INVARIANTS
  TypeOK JudgedByItsOwnPin ReplyIsOwn StrangersAreRecent DiesOnlyOfDamage KeysAreSeparate
PROPERTY SessionsEnd
CHECK_DEADLOCK FALSE
