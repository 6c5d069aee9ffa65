\* A source that ends in a comment.
CONSTANT
  Buffers <- MCBuffers
SPECIFICATION Spec
INVARIANT StopsAtNull
CHECK_DEADLOCK FALSE
