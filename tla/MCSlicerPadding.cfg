SPECIFICATION Spec
CONSTANTS
  Templates <- SmallTemplates
  Sizes <- SmallSizes
  PrefixBytes <- SomeBytes
  PrefixWords <- SomeWords
INVARIANT PaddingIsIgnored
