SPECIFICATION Spec
CONSTANTS
  FileTags = {1}
  BufTags = {2}
  Tags <- MCTags
  Lbas <- MCLbas
  Lens <- MCLens
  Sizes <- MCSizes
  Commands <- MCCommands
  BufSize = 2
  BlockSize = 2
  ImageSize = 6
  CswSize = 1
INVARIANTS TypeOK BytesAccountedFor FileAtCommandOffset StatusTellsTruth SenseDelivered DeferredOnlyWhenStuck
PROPERTY ImplementsBulkOnly
