------------------------------- MODULE MockFn -------------------------------
(***************************************************************************)
(* The mock function of kyron-testing (mock_fn.rs): a builder records what a *)
(* test expects, `build` hands out the function, clones of it share the      *)
(* prepared results but count their own calls, and dropping one compares its *)
(* count with the expectation.  A call is two steps: the counter is an       *)
(* atomic outside the mutex, the prepared results are under it.              *)
(***************************************************************************)
EXTENDS Naturals, Sequences

CONSTANTS Handles,    \* the function and its clones
          MaxOnce,    \* bound: will_once calls on the builder
          MaxCalls,   \* bound: calls of one handle, and argument of times()
          NoCount     \* expected_count = None

VARIABLES expected_count, min_count, once,   \* MockFnInfo
          repeatedly,                        \* is_will_repeatedly_set
          built,
          mocks,     \* handle -> its state: unborn, idle, calling, passed, failed
          call_count,
          cloned,    \* history: handles that were cloned or are clones
          returned,  \* history: the results, in the order the mutex gave them
          asked,     \* history: times(n) as the test asked, NoCount if it did not
          wanted     \* history: how often will_once was asked

info == <<expected_count, min_count, once, repeatedly>>
handle == <<mocks, call_count>>
history == <<cloned, returned, asked, wanted>>
vars == <<info, built, handle, history>>

Default == 0

TypeOK ==
    /\ expected_count \in Nat \cup {NoCount}
    /\ min_count \in 0 .. MaxOnce + 1
    /\ once \in Seq(1 .. MaxOnce)
    /\ repeatedly \in BOOLEAN /\ built \in BOOLEAN
    /\ mocks \in [Handles -> {"unborn", "idle", "calling", "passed", "failed"}]
    /\ call_count \in [Handles -> 0 .. MaxCalls]
    /\ asked \in 0 .. MaxCalls \cup {NoCount} /\ wanted \in 0 .. MaxOnce
    /\ returned \in Seq(0 .. MaxOnce) /\ cloned \subseteq Handles

\* MockFnBuilder::new
Init ==
    /\ expected_count = NoCount /\ min_count = 0 /\ once = <<>> /\ repeatedly = FALSE
    /\ built = FALSE
    /\ mocks = [h \in Handles |-> "unborn"]
    /\ call_count = [h \in Handles |-> 0]
    /\ cloned = {} /\ returned = <<>> /\ asked = NoCount /\ wanted = 0

\* MockFnBuilder::times
Times(n) ==
    /\ ~built /\ ~repeatedly
    /\ expected_count' = n /\ asked' = n
    /\ UNCHANGED <<min_count, once, repeatedly, built, handle, cloned, returned, wanted>>

\* The results are numbered in the order they were prepared.
WillOnce ==
    /\ ~built /\ ~repeatedly /\ wanted < MaxOnce
    /\ once' = Append(once, wanted + 1)
    /\ min_count' = min_count + 1
    /\ wanted' = wanted + 1
    /\ UNCHANGED <<expected_count, repeatedly, built, handle, cloned, returned, asked>>

WillRepeatedly ==
    /\ ~built /\ ~repeatedly
    /\ repeatedly' = TRUE
    /\ min_count' = min_count + 1
    /\ UNCHANGED <<expected_count, once, built, handle, history>>

\* "if only will_once is set, the min_count becomes the expected_count".  The
\* mutant leaves the bound open above.
ExpectedAtLeast == expected_count
ExpectedAtBuild == IF once # <<>> /\ ~repeatedly THEN min_count ELSE expected_count

Build(h) ==
    /\ ~built
    /\ built' = TRUE
    /\ expected_count' = ExpectedAtBuild
    /\ mocks' = [mocks EXCEPT ![h] = "idle"]
    /\ UNCHANGED <<min_count, once, repeatedly, call_count, cloned, returned, asked, wanted>>

\* MockFn::clone: the results are shared, the count is copied.
Clone(h, k) ==
    /\ mocks[h] = "idle" /\ mocks[k] = "unborn"
    /\ mocks' = [mocks EXCEPT ![k] = "idle"]
    /\ call_count' = [call_count EXCEPT ![k] = call_count[h]]
    /\ cloned' = cloned \cup {h, k}
    /\ UNCHANGED <<info, built, returned, asked, wanted>>

\* MockFn::call, the increment before the lock.
CallCount(h) ==
    /\ mocks[h] = "idle" /\ call_count[h] < MaxCalls
    /\ call_count' = [call_count EXCEPT ![h] = @ + 1]
    /\ mocks' = [mocks EXCEPT ![h] = "calling"]
    /\ UNCHANGED <<info, built, history>>

\* ... and the result under the lock.
CallResult(h) ==
    /\ mocks[h] = "calling"
    /\ mocks' = [mocks EXCEPT ![h] = "idle"]
    /\ \/ /\ once # <<>>
          /\ returned' = Append(returned, Head(once))
          /\ once' = Tail(once)
       \/ /\ once = <<>>
          /\ returned' = Append(returned, Default)
          /\ UNCHANGED once
    /\ UNCHANGED <<expected_count, min_count, repeatedly, built, call_count,
                   cloned, asked, wanted>>

\* MockFn::drop: a failed assertion panics.
Passes(n) == IF expected_count # NoCount THEN n = expected_count ELSE n >= min_count

DropMock(h) ==
    /\ mocks[h] = "idle"
    /\ mocks' = [mocks EXCEPT ![h] = IF Passes(call_count[h]) THEN "passed" ELSE "failed"]
    /\ UNCHANGED <<info, built, call_count, history>>

Next ==
    \/ \E n \in 0 .. MaxCalls : Times(n)
    \/ WillOnce \/ WillRepeatedly
    \/ \E h \in Handles : Build(h) \/ CallCount(h) \/ CallResult(h) \/ DropMock(h)
    \/ \E h, k \in Handles : Clone(h, k)

Spec == Init /\ [][Next]_vars

----------------------------------------------------------------------------
\* The results prepared with will_once are handed out in the order they were
\* prepared, each to one call, however the calls of the clones interleave, and
\* only then the default (MockFn::call pops the front under the shared lock).
PreparedInOrder ==
    \A k \in DOMAIN returned : returned[k] = IF k <= wanted THEN k ELSE Default

\* A function that was not cloned and whose expectation was given in one way
\* passes its drop only after as many calls as were asked: exactly n for
\* times(n), exactly one per will_once, and with will_repeatedly at least one
\* more (MockFnBuilder::build and MockFn::drop).
PassMeansAsked ==
    \A h \in Handles : mocks[h] = "passed" /\ h \notin cloned =>
        /\ (asked # NoCount /\ wanted = 0 => Len(returned) = asked)
        /\ (asked = NoCount /\ ~repeatedly /\ wanted > 0 => Len(returned) = wanted)
        /\ (asked = NoCount /\ repeatedly => Len(returned) >= wanted + 1)
=============================================================================
