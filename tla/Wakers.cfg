\* Two indices with room for one value, so that the second receiver subscribes
\* late, an index is used again and a send is refused; and two values to order.
SPECIFICATION MCSpec
CONSTANTS
  a = a
  b = b
  w1 = w1
  w2 = w2
  Chans = {1, 2}
  Size = 1
  Values = {1, 2}
  MaxSubscribe = 1
INVARIANTS ReceiverIsWoken StreamInOrder SentIsDelivered ReferencesAreCounted
SYMMETRY Symmetry
CHECK_DEADLOCK FALSE
