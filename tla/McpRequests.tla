----------------------------- MODULE McpRequests -----------------------------
(***************************************************************************)
(* The requests an MCP proxy session has in flight: which lines of the     *)
(* client reach the server, which are answered by the proxy, and how the   *)
(* server's answers are read.  Models IdRequestMap, record_pending,        *)
(* forget_refused, classify_client_* and classify_server_message of        *)
(* crates/agent-guard/src/mcp_proxy/transport.rs, with the routing and the *)
(* modes of router.rs and enforce.rs.  What the inspection thinks of a     *)
(* call is an input; the pipes are McpRelay's.                             *)
(***************************************************************************)
EXTENDS Naturals, FiniteSets

CONSTANTS
    Ids,         \* the request ids the client uses
    NoId,        \* a message without one: a notification
    MaxPending,  \* MAX_PENDING_REQUESTS
    MaxSent      \* bound of the model: the messages the client sends

ASSUME RequestsAssumption ==
    /\ NoId \notin Ids
    /\ MaxPending \in Nat \ {0}
    /\ MaxSent \in Nat

VARIABLES
    mode,     \* the proxy's mode; warn decides as advisory does
    open,     \* the session goes on
    pending,  \* IdRequestMap.entries
    next      \* IdRequestMap.next

\* History, read by the properties only.
VARIABLES
    sent,      \* how many messages the client sent: each has its number
    refused,   \* those the mode refuses
    denied,    \* those the proxy answered with a denial
    reached,   \* those that reached the server
    waiting,   \* the requests the server has yet to answer, with their numbers
    reused,    \* the ids given to two requests that wait together
    crowded,   \* a request was sent while MaxPending others waited
    lastRead   \* the latest answer: what was asked, what it was recorded as

history == <<sent, refused, denied, reached, waiting, reused, crowded, lastRead>>
vars == <<mode, open, pending, next, history>>

Modes == {"advisory", "guard", "kill"}

\* A client message: a tools/call of a listing tool or another, which the
\* inspection allows or not, or any message that is not a tools/call.
Messages ==
    [method : {"call"}, id : Ids \cup {NoId}, tool : {"listing", "other"},
     allowed : BOOLEAN]
    \cup
    [method : {"list"}, id : Ids \cup {NoId}, tool : {"none"}, allowed : {TRUE}]

Requests == [n : Nat, id : Ids, method : {"call", "list"},
             tool : {"listing", "other", "none"}]

\* apply_mode: only a request can be refused, a denial being an answer to it.
Refuses(m) == mode \in {"guard", "kill"} /\ ~m.allowed /\ m.id # NoId

----------------------------------------------------------------------------
(* The map, as entries with the order they were added in. *)

Keys(S) == {e.id : e \in S}

Named(S, id) == {e \in S : e.id = id}

Oldest(S) == CHOOSE e \in S : \A f \in S : e.order <= f.order

\* Faulty: the map grows with the client.
InsertedUnbounded(map, id, method, tool) ==
    [entries |-> {e \in map.entries : e.id # id}
                 \cup {[id |-> id, order |-> map.next + 1,
                        method |-> method, tool |-> tool]},
     next |-> map.next + 1]

\* Faulty: counted among the newest, so that the order repeats itself.
InsertedInPlace(map, id, method, tool) ==
    [entries |-> {e \in map.entries : e.id # id}
                 \cup {[id |-> id, order |-> map.next,
                        method |-> method, tool |-> tool]},
     next |-> map.next]

\* IdRequestMap::insert.
Inserted(map, id, method, tool) ==
    LET full == id \notin Keys(map.entries)
                /\ Cardinality(map.entries) >= MaxPending
        left == IF full THEN map.entries \ {Oldest(map.entries)} ELSE map.entries
    IN  [entries |-> {e \in left : e.id # id}
                     \cup {[id |-> id, order |-> map.next + 1,
                            method |-> method, tool |-> tool]},
         next |-> map.next + 1]

\* record_pending: an id already waiting keeps no tool.
Recorded(map, m) ==
    Inserted(map, m.id, m.method,
             IF m.id \in Keys(map.entries) THEN "none" ELSE m.tool)

\* Faulty: the id of a refused request is forgotten, whatever it named.
ForgottenWhole(map, id, before) ==
    [map EXCEPT !.entries = {e \in map.entries : e.id # id}]

\* Faulty: a refused request stays in the map.
NeverForgotten(map, id, before) == map

\* forget_refused: what the id named before is put back.
Forgotten(map, id, before) ==
    IF before = {} THEN [map EXCEPT !.entries = {e \in map.entries : e.id # id}]
    ELSE LET b == CHOOSE e \in before : TRUE
         IN  Inserted(map, id, b.method, b.tool)

----------------------------------------------------------------------------
(* A client line: one message, or a batch of two. *)

\* What judging a line starts from.
Unjudged == [map |-> [entries |-> pending, next |-> next],
             kept |-> {}, denied |-> {}, kill |-> FALSE,
             ids |-> {r.id : r \in waiting}, reused |-> reused, crowded |-> crowded]

\* classify_client_message, of message m with number n.
Judged(j, m, n) ==
    LET before == Named(j.map.entries, m.id)
        map == IF m.id = NoId THEN j.map ELSE Recorded(j.map, m)
    IN  [map     |-> IF Refuses(m) THEN Forgotten(map, m.id, before) ELSE map,
         kept    |-> IF Refuses(m) THEN j.kept ELSE j.kept \cup {n},
         denied  |-> IF Refuses(m) THEN j.denied \cup {n} ELSE j.denied,
         kill    |-> j.kill \/ (Refuses(m) /\ mode = "kill"),
         ids     |-> IF Refuses(m) THEN j.ids ELSE (j.ids \cup {m.id}) \ {NoId},
         reused  |-> IF m.id \in j.ids /\ ~Refuses(m)
                     THEN j.reused \cup {m.id} ELSE j.reused,
         crowded |-> \/ j.crowded
                     \/ /\ m.id \notin j.ids \cup {NoId}
                        /\ Cardinality(j.ids) >= MaxPending]

\* Faulty: a batch goes on as it came when anything in it may.
ForwardedWhole(j, line) ==
    IF j.kill \/ j.kept = {} THEN {} ELSE DOMAIN line

\* What of the line goes on to the server, by position: classify_client_batch.
Forwarded(j, line) == IF j.kill THEN {} ELSE j.kept

\* The lines: sequences of one message or two.
Lines == [{1} -> Messages] \cup [{1, 2} -> Messages]

JudgedLine(line) ==
    LET first == Judged(Unjudged, line[1], 1)
    IN  IF 2 \in DOMAIN line THEN Judged(first, line[2], 2) ELSE first

Init == /\ mode \in Modes
        /\ open = TRUE
        /\ pending = {}
        /\ next = 0
        /\ sent = 0
        /\ refused = {}
        /\ denied = {}
        /\ reached = {}
        /\ waiting = {}
        /\ reused = {}
        /\ crowded = FALSE
        /\ lastRead = {}

\* The client's line is judged, what may go on is forwarded, each refusal is
\* answered; a refusal in kill mode ends the session.
ClientLine(line) ==
    LET j == JudgedLine(line)
        went == Forwarded(j, line)
        size == Cardinality(DOMAIN line)
    IN  /\ open
        /\ sent + size <= MaxSent
        /\ pending' = j.map.entries
        /\ next' = j.map.next
        /\ open' = ~j.kill
        /\ sent' = sent + size
        /\ refused' = refused \cup {sent + i : i \in {k \in DOMAIN line : Refuses(line[k])}}
        /\ denied' = denied \cup {sent + i : i \in j.denied}
        /\ reached' = reached \cup {sent + i : i \in went}
        /\ waiting' = waiting \cup
               {[n |-> sent + i, id |-> line[i].id, method |-> line[i].method,
                 tool |-> line[i].tool] : i \in {k \in went : line[k].id # NoId}}
        /\ reused' = j.reused
        /\ crowded' = j.crowded
        /\ UNCHANGED <<mode, lastRead>>

Outcomes == {"ok", "tool error", "error"}

\* What an answer is recorded as, read as the answer to entry: route_server_to_client
\* and Provenance::of_result.  An untracked answer passes through.
ReadAs(entries, outcome) ==
    IF entries = {} \/ outcome = "error" THEN "nothing"
    ELSE LET e == CHOOSE f \in entries : TRUE
         IN  IF e.method = "list" THEN "declarations"
             ELSE IF e.tool = "listing" /\ outcome = "ok" THEN "listing"
             ELSE "content"

\* The server answers a request, in any order; classify_server_message.
Answer(r, outcome) ==
    /\ open
    /\ waiting' = waiting \ {r}
    /\ pending' = {e \in pending : e.id # r.id}
    /\ lastRead' = {[asked |-> r, outcome |-> outcome, shared |-> r.id \in reused,
                     as |-> ReadAs(Named(pending, r.id), outcome)]}
    /\ reused' = reused \cap {q.id : q \in waiting \ {r}}
    /\ UNCHANGED <<mode, open, next, sent, refused, denied, reached, crowded>>

Next == \/ \E line \in Lines : ClientLine(line)
        \/ \E r \in waiting, outcome \in Outcomes : Answer(r, outcome)

Spec == Init /\ [][Next]_vars

----------------------------------------------------------------------------
Entries == [id : Ids, order : Nat, method : {"call", "list"},
            tool : {"listing", "other", "none"}]

TypeOK == /\ mode \in Modes
          /\ open \in BOOLEAN
          /\ pending \subseteq Entries
          /\ \A e, f \in pending : e.id = f.id \/ e.order = f.order => e = f
          /\ next \in Nat
          /\ sent \in Nat
          /\ refused \cup denied \cup reached \subseteq 1 .. sent
          /\ waiting \subseteq Requests
          /\ reused \subseteq Ids
          /\ crowded \in BOOLEAN

\* The map never outgrows MAX_PENDING_REQUESTS, whatever the client sends.
MapIsBounded == Cardinality(pending) <= MaxPending

\* Nothing is left in the map for the life of the proxy: every entry is of a
\* request the server has yet to answer, never of a refused one.
EveryEntryIsAwaited ==
    open => Keys(pending) \subseteq {r.id : r \in waiting}

\* An answer is read as what was asked: while no more than MaxPending requests
\* ever waited together, the map names every one of them, its method and its
\* tool, unless the client gave the same id to two.  A refused request changes
\* none of this, even one that took the id of a request still waiting.
AnswersAreReadAsAsked ==
    open /\ ~crowded =>
        \A r \in waiting : r.id \notin reused =>
            \E e \in pending :
                e.id = r.id /\ e.method = r.method /\ e.tool = r.tool

\* Every message of the client has one fate: what the mode refuses is answered
\* by the proxy and never reaches the server, alone or in a batch, and the rest
\* reaches it, unless the session was ended.
OneFate == /\ refused = denied
           /\ refused \cap reached = {}
           /\ open => reached \cup denied = 1 .. sent
=============================================================================
