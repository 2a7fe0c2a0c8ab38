\* Requests and replies of every kind, whole and cut short.
CONSTANTS
  Sizes <- MCSizes
  MaxCut = 4
SPECIFICATION Spec
INVARIANTS
  TypeOK RequestIsUnderstood ReplyIsUnderstood EchoesMatch TestReplyBitmap
