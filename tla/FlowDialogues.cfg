SPECIFICATION FairSpec
CONSTANTS
  NumRx = 1
  MaxSlots = 2
  MaxRequests = 1
  Enter = Enter
  Word = Word
  Talker = Talker
  Garbage = Garbage
INVARIANTS
  TypeOK
  NothingElseLost
  AssociationsSound
PROPERTIES
  DialogueEnds
