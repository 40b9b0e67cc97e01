---------------------------- MODULE ReadinessWord ----------------------------
(***************************************************************************)
(* ReadinessState (io/async_registration.rs): the readiness of a            *)
(* registration and the tick of the driver's run it comes from, packed into *)
(* one atomic word so that fetch_update changes both at once.  IoReadiness   *)
(* keeps them apart, as a set and a number; here are the word and what the  *)
(* two uses of set_readiness do to its bits.                                *)
(***************************************************************************)
EXTENDS Naturals, Bitwise

CONSTANT Width      \* bits of the state, and of the tick: 16 in the code

STATE_READABLE == 1
STATE_WRITABLE == 2
STATE_MASK == 2^Width - 1
TICK_MASK == 2^(2 * Width) - 2^Width
\* READINESS_TICK_MASK.count_ones()
TICK_SHIFT == Width

FromComponents(state, tick) == (tick * 2^TICK_SHIFT) | state
ExtractState(w) == w & STATE_MASK
ExtractTick(w) == (w & TICK_MASK) \div 2^TICK_SHIFT

\* From<IoEventInterest>, which from_mio_event repeats for an event: tick 0.
FromInterest(interest) ==
    FromComponents((IF "readable" \in interest THEN STATE_READABLE ELSE 0)
                     | (IF "writable" \in interest THEN STATE_WRITABLE ELSE 0), 0)
IsReadable(w) == w & STATE_READABLE # 0
IsWritable(w) == w & STATE_WRITABLE # 0

\* union, intersection (has one, or None) and clear: the tick is that of the first.
Union(w, other) == FromComponents(ExtractState(w) | ExtractState(other), ExtractTick(w))
Intersects(w, other) == ExtractState(w) & ExtractState(other) # 0
ClearState(w, mask) == FromComponents(ExtractState(w) & (STATE_MASK - ExtractState(mask)), ExtractTick(w))
IncrementTick(w) == FromComponents(ExtractState(w), (ExtractTick(w) + 1) % 2^Width)

\* mark_state with TickOp::Set, and clear_readiness with TickOp::Clear(tick).
MarkState(w, events) == Union(IncrementTick(w), FromInterest(events))
ClearReadiness(w, interest, tick) ==
    IF tick = ExtractTick(w) /\ Intersects(w, FromInterest(interest))
    THEN ClearState(w, FromInterest(interest)) ELSE w

\* The set that a word stands for.
Flags(w) == {i \in {"readable"} : IsReadable(w)} \cup {i \in {"writable"} : IsWritable(w)}
=============================================================================
