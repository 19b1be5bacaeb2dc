---------------------------- MODULE LoopBreaker ----------------------------
(***************************************************************************)
(* The loop breaker of one proxy session: Breaker::record and make_room of *)
(* crates/agent-guard/src/breaker.rs.  A call is its signature (the tool   *)
(* and its arguments); the clock is the proxy's own monotonic one.         *)
(***************************************************************************)
EXTENDS Naturals, FiniteSets

CONSTANTS
    Calls,      \* the distinct calls an agent can make
    Limit,      \* max_identical_calls
    Window,     \* window_secs
    Cap,        \* max_tracked_calls, at least 1
    MaxTime,    \* bound of the model: the session's length
    MaxTouches  \* bound of the model: the calls recorded

ASSUME BreakerAssumption ==
    /\ Limit \in Nat
    /\ Window \in Nat \ {0}
    /\ Cap \in Nat \ {0}
    /\ MaxTime \in Nat
    /\ MaxTouches \in Nat

VARIABLES
    now,        \* the clock, in seconds
    touches,    \* the calls recorded so far
    tracked,    \* the calls the table remembers
    lastTouch,  \* when each was last seen, as a position in the sequence
    accepted    \* when each was made and not tripped: <<position, second>>

\* History, read by the properties only.
VARIABLES
    log,        \* as accepted, but never trimmed; emptied when a call that
                \* still counted is forgotten
    promise,    \* the second a tripped call was told it is accepted again at
    last        \* the latest call, when it was made, whether it tripped

vars == <<now, touches, tracked, lastTouch, accepted, log, promise, last>>

(* Faulty variants of the definitions below. *)

\* One second too long: the call at the window's edge still counts.
LiveAtTheEdge(a) == now - a[2] <= Window

\* make_room's comparison the wrong way round.
MostRecent(S) == CHOOSE c \in S : \A d \in S : lastTouch[c] >= lastTouch[d]

\* The table is never pruned.
KeptForAll(c) == tracked

\* The limit is compared before what has expired is dropped.
StillAcceptedAll(c) == IF c \in tracked THEN accepted[c] ELSE {}

\* Only what was accepted in this very second is retained.
StillAcceptedNow(c) ==
    IF c \in tracked THEN {a \in accepted[c] : a[2] = now} ELSE {}

\* The wait is subtracted the wrong way round.
AcceptedAgainBackwards(c) ==
    LET times == {a[2] : a \in accepted[c]}
        oldest == CHOOSE t \in times : \A u \in times : t <= u
    IN  IF times = {} THEN Window ELSE now - (oldest + Window)

----------------------------------------------------------------------------
\* is_live: the call still counts.  (saturating_sub: the clock never reads
\* earlier than a recorded call, so the difference is not cut here.)
Live(a) == now - a[2] < Window

Counts(c) == \E a \in accepted[c] : Live(a)

LeastRecent(S) == CHOOSE c \in S : \A d \in S : lastTouch[c] <= lastTouch[d]

\* The calls make_room keeps: below the cap all of them, else those with
\* something left in the window, less the least recently seen if still full.
MadeRoom ==
    LET counting == {c \in tracked : Counts(c)}
    IN  IF Cardinality(tracked) < Cap THEN tracked
        ELSE IF Cardinality(counting) < Cap THEN counting
        ELSE counting \ {LeastRecent(counting)}

\* The calls the table holds while it looks at c.
KeptFor(c) == IF c \in tracked THEN tracked ELSE MadeRoom

\* What is left of c's accepted calls: retain(is_live), of an empty entry when
\* c was not tracked.
StillAccepted(c) ==
    IF c \in tracked THEN {a \in accepted[c] : Live(a)} ELSE {}

Monus(m, n) == IF m > n THEN m - n ELSE 0

AtLeast1(n) == IF n < 1 THEN 1 ELSE n

\* The seconds the refusal says to wait: until the oldest leaves the window.
AcceptedAgainIn(c) ==
    LET times == {a[2] : a \in StillAccepted(c)}
        oldest == CHOOSE t \in times : \A u \in times : t <= u
    IN  AtLeast1(IF times = {} THEN Window ELSE Monus(oldest + Window, now))

\* The calls that still count and are dropped from the table for c.
ForgottenFor(c) == {d \in tracked \ KeptFor(c) : Counts(d)}

----------------------------------------------------------------------------
Init == /\ now = 0
        /\ touches = 0
        /\ tracked = {}
        /\ lastTouch = [c \in Calls |-> 0]
        /\ accepted = [c \in Calls |-> {}]
        /\ log = [c \in Calls |-> {}]
        /\ promise = [c \in Calls |-> 0]
        /\ last = {}

\* Breaker::record, of a call that is a fast repeat: it trips.
Trip(c) ==
    /\ touches < MaxTouches
    /\ Cardinality(StillAccepted(c)) >= Limit
    /\ touches' = touches + 1
    /\ tracked' = KeptFor(c) \cup {c}
    /\ lastTouch' = [lastTouch EXCEPT ![c] = touches + 1]
    /\ accepted' = [d \in Calls |-> IF d = c THEN StillAccepted(c)
                                    ELSE IF d \in KeptFor(c) THEN accepted[d]
                                    ELSE {}]
    /\ log' = [d \in Calls |-> IF d \in ForgottenFor(c) THEN {} ELSE log[d]]
    /\ promise' = [d \in Calls |-> IF d = c THEN now + AcceptedAgainIn(c)
                                   ELSE IF d \in ForgottenFor(c) THEN 0
                                   ELSE promise[d]]
    /\ last' = {<<c, now, TRUE>>}
    /\ UNCHANGED now

\* Breaker::record, of any other call: it is accepted and remembered.
Accept(c) ==
    /\ touches < MaxTouches
    /\ Cardinality(StillAccepted(c)) < Limit
    /\ touches' = touches + 1
    /\ tracked' = KeptFor(c) \cup {c}
    /\ lastTouch' = [lastTouch EXCEPT ![c] = touches + 1]
    /\ accepted' = [d \in Calls |->
                       IF d = c THEN StillAccepted(c) \cup {<<touches + 1, now>>}
                       ELSE IF d \in KeptFor(c) THEN accepted[d]
                       ELSE {}]
    /\ log' = [d \in Calls |-> IF d = c THEN log[c] \cup {<<touches + 1, now>>}
                               ELSE IF d \in ForgottenFor(c) THEN {}
                               ELSE log[d]]
    /\ promise' = [d \in Calls |-> IF d = c \/ d \in ForgottenFor(c) THEN 0
                                   ELSE promise[d]]
    /\ last' = {<<c, now, FALSE>>}
    /\ UNCHANGED now

Tick == /\ now < MaxTime
        /\ now' = now + 1
        /\ UNCHANGED <<touches, tracked, lastTouch, accepted, log, promise, last>>

Next == \/ \E c \in Calls : Trip(c) \/ Accept(c)
        \/ Tick

Spec == Init /\ [][Next]_vars

----------------------------------------------------------------------------
Entries == Nat \X Nat

TypeOK == /\ now \in Nat
          /\ touches \in Nat
          /\ tracked \subseteq Calls
          /\ lastTouch \in [Calls -> Nat]
          /\ accepted \in [Calls -> SUBSET Entries]
          /\ log \in [Calls -> SUBSET Entries]
          /\ promise \in [Calls -> Nat]
          /\ last \subseteq Calls \X Nat \X BOOLEAN

\* The table never outgrows its cap.
BoundedMemory == Cardinality(tracked) <= Cap

\* A loop is held: in no window of Window seconds is one call accepted more
\* than Limit times, unless it was forgotten in between.
InWindow(c, s) == {a \in log[c] : s <= a[2] /\ a[2] < s + Window}

LoopIsHeld == \A c \in Calls, s \in 0 .. MaxTime :
                  Cardinality(InWindow(c, s)) <= Limit

\* Nothing but a loop is held: a call trips only if it was itself accepted
\* Limit times in the Window seconds up to now ("does not hold back any other
\* call").
OnlyLoopsTrip ==
    \A l \in last :
        l[3] => Cardinality({a \in log[l[1]] : l[2] - a[2] < Window}) >= Limit

\* The refusal's promise is kept, and is exact: the call told to come back in
\* so many seconds is accepted from then on, and not before.
PromiseIsExact ==
    [][\A c \in Calls : promise[c] # 0 =>
          /\ Trip(c) => now < promise[c]
          /\ Accept(c) => now >= promise[c]]_vars

\* A call that still counts is forgotten only under a flood of Cap other
\* distinct calls, every one of them seen after it.
ForgottenOnlyInAFlood ==
    [][\A c \in tracked \ tracked' : Counts(c) =>
          Cardinality({d \in tracked' : lastTouch'[d] > lastTouch[c]}) >= Cap]_vars
=============================================================================
