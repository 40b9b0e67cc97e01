------------------------------- MODULE ReadBuf -------------------------------
(***************************************************************************)
(* io/read_buf.rs: the buffer a read fills, as records [buf, filled,        *)
(* initialized].  A byte that was never written is Uninit.  The indices of  *)
(* the code start at 0, those of buf at 1.                                  *)
(***************************************************************************)
EXTENDS Integers, Sequences

CONSTANTS Uninit, Zero   \* an unwritten byte; a byte put by initialize_unfilled

\* ReadBuf::new, over n bytes that hold something, and ReadBuf::uninit.
NewBuf(n) == [buf |-> [i \in 1..n |-> Zero], filled |-> 0, initialized |-> n]
UninitBuf(n) == [buf |-> [i \in 1..n |-> Uninit], filled |-> 0, initialized |-> 0]

BufCapacity(b) == Len(b.buf)
Remaining(b) == BufCapacity(b) - b.filled
Filled(b) == SubSeq(b.buf, 1, b.filled)
ClearBuf(b) == [b EXCEPT !.filled = 0]

\* initialized_unfilled_mut: how many bytes a read may write.
InitializedUnfilled(b) == b.initialized - b.filled

\* What bytes written behind the filled part make of the buffer.
Overwritten(b, bytes) ==
    [i \in DOMAIN b.buf |->
        IF i - b.filled \in DOMAIN bytes THEN bytes[i - b.filled] ELSE b.buf[i]]
\* advance_filled, which asserts nothing of the initialized bytes.
AdvanceFilled(b, n) == [b EXCEPT !.filled = @ + n]
\* put_slice, for no more bytes than remain.
AtLeast(m, n) == IF m < n THEN n ELSE m
PutSlice(b, bytes) ==
    LET end == b.filled + Len(bytes)
    IN  [buf |-> Overwritten(b, bytes), filled |-> end, initialized |-> AtLeast(b.initialized, end)]
\* init_unfilled for all that remains: initialize_unfilled.
InitializeAll(b) == [b EXCEPT !.buf = [i \in DOMAIN b.buf |-> Zero], !.initialized = BufCapacity(b)]
InitUnfilled(b, size) ==
    [b EXCEPT !.buf = [i \in DOMAIN b.buf |-> IF i > b.filled /\ i <= b.filled + size THEN Zero ELSE b.buf[i]],
              !.initialized = AtLeast(@, b.filled + size)]
InitializeUnfilled(b) == InitUnfilled(b, Remaining(b))
=============================================================================
