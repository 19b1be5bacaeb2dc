--------------------------- MODULE AttemptRecords ---------------------------
(***************************************************************************)
(* The dangerous asks of a conversation, from the message that makes one   *)
(* to the record of its outcome: update_pending, record and the commands   *)
(* inbound, reply, settle and ended of crates/cli/src/observe_io.rs, with  *)
(* Pending of crates/cli/src/observe.rs.                                   *)
(*                                                                         *)
(* Every command is a process of its own.  Each reads the pending state,   *)
(* changes it, saves it if nobody changed it since (the replacement of     *)
(* FileReplace, in one step here), and then appends a record of every ask  *)
(* that left.  An ask is named by the inbound call that made it.           *)
(***************************************************************************)
EXTENDS Naturals, FiniteSets

CONSTANTS
    Inbounds,    \* the calls that carry a dangerous message
    Closers,     \* the other calls
    Earlier,     \* the inbound call, if any, whose ask was held before
    Tagged,      \* the inbound calls whose message has an id
    Sessions,
    Chats,       \* Chats[c]: the sessions the call c may be of
    NoRun,       \* the absence of a turn id
    MaxPending,  \* MAX_PENDING
    Wait,        \* UNREPORTED_REPLY_WAIT_SECONDS
    Ttl,         \* PENDING_TTL_SECONDS
    Attempts,    \* PENDING_UPDATE_ATTEMPTS
    MaxTime,     \* bound of the model: the last second
    MaxFaults    \* bound of the model: the errors and kills

Calls == Inbounds \cup Closers

ASSUME AttemptAssumption ==
    /\ IsFiniteSet(Inbounds)
    /\ Inbounds \cap Closers = {}
    /\ Tagged \subseteq Inbounds
    /\ Earlier \subseteq Inbounds
    /\ \A a, b \in Earlier : a = b
    /\ Chats \in [Calls -> (SUBSET Sessions) \ {{}}]
    /\ NoRun \notin Inbounds
    /\ MaxPending \in Nat \ {0}
    /\ Wait \in Nat /\ Ttl \in Nat
    /\ Attempts \in Nat \ {0}
    /\ MaxTime \in Nat
    /\ MaxFaults \in Nat

Ended == {"done", "failed", "killed"}
Busy == {"load", "save", "record"}

VARIABLES
    now,      \* the clock when it was last read, in seconds
    pending,  \* the asks in the pending state on disk
    place,    \* the order in which they were put there
    pc,
    job,      \* what each call is for
    at,       \* when it began
    read,     \* the asks it read, while it updates the state
    tries,    \* the attempts it made, while it does
    leaving,  \* the asks it was handed, with why they left
    records   \* the records in the event sink: ask, why it left, by which call

\* History, read by the properties only.
VARIABLES
    seen,   \* the inbound calls that had ended when a call began
    lost,   \* the asks that were handed out and not recorded
    faults  \* the errors and kills so far

vars == <<now, pending, place, pc, job, at, read, tries, leaving, records,
          seen, lost, faults>>

----------------------------------------------------------------------------
(* The commands. *)

Job(kind, s, run, reported) ==
    [kind |-> kind, session |-> s, run |-> run, reported |-> reported]

\* reported: the reply plugin runs on this host.  An inbound call whose message
\* is harmless only flushes what expired.
JobsOf(c) ==
    IF c \in Inbounds
    THEN {Job("inbound", s, NoRun, FALSE) : s \in Chats[c]}
    ELSE UNION {{Job("harmless", s, NoRun, FALSE), Job("reply", s, NoRun, FALSE)}
                \cup {Job("settle", s, NoRun, reported) : reported \in BOOLEAN}
                \cup {Job("ended", s, run, FALSE) : run \in Tagged} : s \in Chats[c]}

Session(c) == job[c].session

\* Pending::expire.
Expired(c, asks) == {a \in asks : at[c] >= at[a] + Ttl}

\* The asks the change of c may take: remember, take, take_if_waited,
\* take_for_run.
Answered(c, asks) ==
    {a \in asks :
        /\ Session(a) = Session(c)
        /\ \/ job[c].kind \in {"inbound", "reply"}
           \/ /\ job[c].kind = "settle"
              /\ at[c] >= at[a] + Wait
              /\ ~(job[c].reported /\ a \in Tagged)
           \/ job[c].kind = "ended" /\ a = job[c].run}

\* Faulty: a new ask is put beside the one of its session.
TakenUnlessNew(c, asks) ==
    {a \in Answered(c, asks \ Expired(c, asks)) : job[c].kind # "inbound"}

\* position: the one that was put there first.
Taken(c, asks) ==
    LET of == Answered(c, asks \ Expired(c, asks))
    IN  {a \in of : \A b \in of : place[a] <= place[b]}

Kept(c, asks) == asks \ (Expired(c, asks) \cup Taken(c, asks))

\* Faulty: one too many.
PushedOutLate(c, asks) ==
    {a \in Kept(c, asks) :
        /\ job[c].kind = "inbound"
        /\ Cardinality({b \in Kept(c, asks) : place[b] >= place[a]}) > MaxPending}

\* The oldest asks, as far as the new one takes the state over its bound.
PushedOut(c, asks) ==
    {a \in Kept(c, asks) :
        /\ job[c].kind = "inbound"
        /\ Cardinality({b \in Kept(c, asks) : place[b] >= place[a]}) >= MaxPending}

Out(c, asks) == Expired(c, asks) \cup Taken(c, asks) \cup PushedOut(c, asks)

New(c) == IF job[c].kind = "inbound" THEN {c} ELSE {}

Changed(c, asks) == (asks \ Out(c, asks)) \cup New(c)

\* Why an ask the call took leaves.  (A harmless message takes none.)
DepartureOf == [inbound |-> "next_message",
                harmless |-> "next_message",
                reply |-> "replied",
                ended |-> "turn_ended",
                settle |-> "channel_reports_none"]

Departure(c) == DepartureOf[job[c].kind]

Leaving(c, asks) == (Expired(c, asks) \X {"expired"})
                    \cup (Taken(c, asks) \X {Departure(c)})
                    \cup (PushedOut(c, asks) \X {"pending_limit"})

----------------------------------------------------------------------------
Init == /\ now = 0
        /\ pending = Earlier
        /\ place = [c \in Inbounds |-> 0]
        /\ pc = [c \in Calls |-> IF c \in Earlier THEN "done" ELSE "idle"]
        /\ job = [c \in Calls |-> CHOOSE j \in JobsOf(c) : TRUE]
        /\ at = [c \in Calls |-> 0]
        /\ read = [c \in Calls |-> {}]
        /\ tries = [c \in Calls |-> 0]
        /\ leaving = [c \in Calls |-> {}]
        /\ records = {}
        /\ seen = [c \in Calls |-> {}]
        /\ lost = {}
        /\ faults = 0

Goto(c, label) == pc' = [pc EXCEPT ![c] = label]

\* The clock is read first, at some later second than it was last read; a
\* message is scored before the state is read.
Start(c, j, t) ==
    /\ pc[c] = "idle"
    /\ Goto(c, "load")
    /\ job' = [job EXCEPT ![c] = j]
    /\ now' = t
    /\ at' = [at EXCEPT ![c] = t]
    /\ seen' = [seen EXCEPT ![c] = {d \in Inbounds : pc[d] \in Ended}]
    /\ UNCHANGED <<pending, place, read, tries, leaving, records, lost, faults>>

\* update_pending returns.
Return(c) == /\ read' = [read EXCEPT ![c] = {}]
             /\ tries' = [tries EXCEPT ![c] = 0]

HandOut(c, out) ==
    /\ leaving' = [leaving EXCEPT ![c] = out]
    /\ Goto(c, IF out = {} THEN "done" ELSE "record")

\* load_pending and the change.
Load(c) ==
    /\ pc[c] = "load"
    /\ Changed(c, pending) # pending
    /\ Goto(c, "save")
    /\ read' = [read EXCEPT ![c] = pending]
    /\ UNCHANGED <<now, pending, place, job, at, tries, leaving, records, seen,
                   lost, faults>>

\* A state that is left as it was is not saved.
LoadSame(c) ==
    /\ pc[c] = "load"
    /\ Changed(c, pending) = pending
    /\ HandOut(c, Leaving(c, pending))
    /\ Return(c)
    /\ UNCHANGED <<now, pending, place, job, at, records, seen, lost, faults>>

Put(c) == IF job[c].kind = "inbound"
          THEN [place EXCEPT ![c] = 1 + Cardinality({a \in Inbounds : place[a] > 0})]
          ELSE place

\* Faulty: the state is saved over whatever is there.
SaveOver(c) ==
    /\ pc[c] = "save"
    /\ pending' = Changed(c, read[c])
    /\ place' = Put(c)
    /\ HandOut(c, Leaving(c, read[c]))
    /\ Return(c)
    /\ UNCHANGED <<now, job, at, records, seen, lost, faults>>

\* save_pending: nobody changed the state since it was read.
Save(c) ==
    /\ pc[c] = "save"
    /\ pending = read[c]
    /\ pending' = Changed(c, read[c])
    /\ place' = Put(c)
    /\ HandOut(c, Leaving(c, read[c]))
    /\ Return(c)
    /\ UNCHANGED <<now, job, at, records, seen, lost, faults>>

\* Faulty: what would have left the state is handed out though it stayed.
GiveUpAnyway(c) == Return(c) /\ HandOut(c, Leaving(c, read[c]))

\* The update is given up: an ask that was to be held is recorded at once.
GiveUp(c) ==
    /\ Return(c)
    /\ IF job[c].kind = "inbound"
       THEN HandOut(c, {<<c, "state_unavailable">>})
       ELSE Goto(c, "failed") /\ UNCHANGED leaving

Again(c) == /\ Goto(c, "load")
            /\ read' = [read EXCEPT ![c] = {}]
            /\ tries' = [tries EXCEPT ![c] = @ + 1]
            /\ UNCHANGED leaving

\* Faulty: a save that lost its race is skipped.
Skip(c) == HandOut(c, {}) /\ Return(c)

\* The update is applied again to a fresh read, Attempts times in all.
TryAgain(c) == IF tries[c] + 1 < Attempts THEN Again(c) ELSE GiveUp(c)

SaveLost(c) ==
    /\ pc[c] = "save"
    /\ pending # read[c]
    /\ TryAgain(c)
    /\ UNCHANGED <<now, pending, place, job, at, records, seen, lost, faults>>

----------------------------------------------------------------------------
(* What goes wrong. *)

Fault == /\ faults < MaxFaults
         /\ faults' = faults + 1

\* Any other error of the replacement leaves the file as it was.
SaveFails(c) ==
    /\ Fault
    /\ pc[c] = "save"
    /\ TryAgain(c)
    /\ UNCHANGED <<now, pending, place, job, at, records, seen, lost>>

\* The state cannot be read, or its lock is held for the whole wait.
Unavailable(c) ==
    /\ Fault
    /\ pc[c] \in {"load", "save"}
    /\ GiveUp(c)
    /\ UNCHANGED <<now, pending, place, job, at, records, seen, lost>>

\* An append that is refused is reported and not repeated.
AppendRefused(c, l) ==
    /\ Fault
    /\ pc[c] = "record"
    /\ l \in leaving[c]
    /\ HandOut(c, leaving[c] \ {l})
    /\ lost' = lost \cup {l[1]}
    /\ UNCHANGED <<now, pending, place, job, at, read, tries, records, seen>>

\* The gateway's hook kills a call at its cap.
Kill(c) ==
    /\ Fault
    /\ pc[c] \in Busy
    /\ Goto(c, "killed")
    /\ Return(c)
    /\ leaving' = [leaving EXCEPT ![c] = {}]
    /\ lost' = lost \cup {l[1] : l \in leaving[c]}
    /\ UNCHANGED <<now, pending, place, job, at, records, seen>>

----------------------------------------------------------------------------
\* record: one line for each ask.
Record(c, l) ==
    /\ pc[c] = "record"
    /\ l \in leaving[c]
    /\ HandOut(c, leaving[c] \ {l})
    /\ records' = records \cup {[ask |-> l[1], why |-> l[2], by |-> c]}
    /\ UNCHANGED <<now, pending, place, job, at, read, tries, seen, lost, faults>>

Proceed(c) == \/ Load(c) \/ LoadSame(c) \/ Save(c) \/ SaveLost(c)
              \/ \E l \in leaving[c] : Record(c, l)

Next == \/ \E c \in Calls :
              \/ \E j \in JobsOf(c), t \in now .. MaxTime : Start(c, j, t)
              \/ Proceed(c)
              \/ SaveFails(c) \/ Unavailable(c)
              \/ \E l \in leaving[c] : AppendRefused(c, l)
              \/ Kill(c)

Spec == Init /\ [][Next]_vars

----------------------------------------------------------------------------
Whys == {"next_message", "replied", "turn_ended", "channel_reports_none",
         "expired", "pending_limit", "state_unavailable"}

TypeOK == /\ now \in Nat
          /\ pending \subseteq Inbounds
          /\ place \in [Inbounds -> Nat]
          /\ pc \in [Calls -> {"idle"} \cup Busy \cup Ended]
          /\ \A c \in Calls : job[c] \in JobsOf(c)
          /\ at \in [Calls -> Nat]
          /\ read \in [Calls -> SUBSET Inbounds]
          /\ tries \in [Calls -> 0 .. Attempts]
          /\ leaving \in [Calls -> SUBSET (Inbounds \X Whys)]
          /\ \A c \in Calls : leaving[c] # {} <=> pc[c] = "record"
          /\ records \subseteq [ask : Inbounds, why : Whys, by : Calls]
          /\ seen \in [Calls -> SUBSET Inbounds]
          /\ lost \subseteq Inbounds
          /\ faults \in Nat

\* "Each ask is recorded exactly once", as far as the calls live to record it:
\* the pending state is a ledger.
Handed == {a \in Inbounds : \E c \in Calls : \E l \in leaving[c] : l[1] = a}
Recorded == {r.ask : r \in records}

Ledger == INSTANCE AttemptLedger WITH Asks <- Inbounds, waiting <- pending,
                                      handed <- Handed, recorded <- Recorded

IsLedger == Ledger!Spec

\* No two asks of a session wait, so a reply has one it answers; and the state
\* never holds more than its bound.
OneAskPerSession == \A a, b \in pending : Session(a) = Session(b) => a = b

PendingIsBounded == Cardinality(pending) <= MaxPending

\* The calls whose update of the state was made, and the earlier asks it was to
\* close whatever else ran at the time: those of its session, for a message or a
\* reply, and those that were overdue.
Updated(c) == /\ pc[c] \in {"record", "done"}
              /\ \A l \in leaving[c] : l[2] # "state_unavailable"
              /\ \A r \in records : r.ask = c => r.why # "state_unavailable"

Covered(c) ==
    {a \in seen[c] :
        \/ Session(a) = Session(c) /\ job[c].kind \in {"inbound", "reply"}
        \/ at[c] >= at[a] + Ttl}

\* An ask that had arrived before a call is not left behind by it.
NothingLeftBehind ==
    \A c \in Calls : Updated(c) /\ c \notin lost => Covered(c) \cap pending = {}

\* "The reply that follows answers the latest one": a reply is recorded with an
\* older ask only where the later one could not be held.
ReplyAnswersLatest ==
    \A r \in records : r.why = "replied" =>
        \A b \in seen[r.by] :
            /\ pc[b] = "done"
            /\ Session(b) = Session(r.by)
            /\ r.ask \in seen[b]
            => ~Updated(b) \/ b \in lost
=============================================================================
