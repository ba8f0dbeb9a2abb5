SPECIFICATION Spec
CONSTANTS
  Templates <- SmallTemplates
  Sizes <- SmallSizes
  PrefixBytes <- SomeBytes
  PrefixWords <- SomeWords
INVARIANTS TypeOK SlicesAreSound FixedIsExact
PROPERTY SlicingEnds
