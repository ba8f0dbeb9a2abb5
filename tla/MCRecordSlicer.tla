--------------------------- MODULE MCRecordSlicer ---------------------------
(* Templates with and without variable fields, empty ones included.        *)
EXTENDS RecordSlicer

SmallTemplates ==
  {<<>>, <<0>>, <<2>>, <<2, 1>>, <<0, 3>>,
   <<Variable>>, <<1, Variable>>, <<Variable, 2>>, <<Variable, Variable>>}

SmallSizes == 0 .. 7
SomeBytes == {0, 1, 2, 255}
SomeWords == {0, 1, 300}
=============================================================================
