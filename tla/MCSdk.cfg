\* Up to three tools of two servers; a call with up to three parameters; results
\* of one kind and of several, next to a declared schema.
CONSTANTS
  Catalog <- Offers
  Numbers <- Numerals
  Keywords <- Reserved
  Accented <- Foreign
  Suffix <- NumeralOf
  MaxTools = 3
  Params = {1, 2, 3}
  Timeout = 4
  Unknown = 5
  get = get
  search = search
  SdkFns = {get, search}
  Returns <- Mixed
  Schemas <- FlatSchemas
  Programs <- StraightOrAssigned
  MaxEvents = 1
SPECIFICATION Spec
INVARIANT RoutesMatchTheModule
INVARIANT DryRunErrsOnNamesOnly
INVARIANT RejectedCallsRaise
INVARIANT VisibleFaultsAreRejected
INVARIANT SeenAccessesAreAccepted
INVARIANT RejectionsAreEarned
INVARIANT LearnedFromTheSet
INVARIANT LearningIgnoresOrder
CHECK_DEADLOCK FALSE
