---------------------------- MODULE TaintMemory ----------------------------
(***************************************************************************)
(* What the MCP proxy remembers of the tool results it relayed:            *)
(* TaintTracker of crates/agent-guard/src/mcp_proxy/taint.rs.              *)
(*                                                                         *)
(* A result is the sequence of its distinct tokens.  The store keeps a     *)
(* token for one of the results that carried it, forgets what its budget   *)
(* does not hold, and a later call that carries a kept token is refused.   *)
(* The texts of tokens, their index and the search in an argument are      *)
(* abstracted: a token is a value, with a cost.                            *)
(***************************************************************************)
EXTENDS Integers, Sequences, FiniteSets, FiniteSetsExt, Functions, SequencesExt

CONSTANTS
    Tokens,
    Cost,           \* Cost[t]: what keeping t costs
    Destinations,   \* the tokens that name somewhere data can be sent
    Results,        \* the results a server may return: their tokens, and
                    \* whether they are content or a listing
    Keys,           \* the orders in which a sample key may draw the tokens
    Recent,         \* RECENT_COST
    Older,          \* OLDER_COST
    Share,          \* OLDER_SHARE
    DestinationShare,
    MaxResults      \* bound of the model: the results of a session

Said(x) == Range(x.tokens)
CostOf(S) == SumFunctionOnSet(Cost, S)

ASSUME TaintAssumption ==
    /\ Cost \in [Tokens -> Nat \ {0}]
    /\ Destinations \subseteq Tokens
    /\ \A x \in Results : /\ x.content \in BOOLEAN
                          /\ x.tokens \in Seq(Tokens)
                          /\ IsInjective(x.tokens)
                          /\ CostOf(Said(x)) <= Recent
    /\ \A k \in Keys : k \in Seq(Tokens) /\ IsInjective(k) /\ Range(k) = Tokens
    /\ Recent \in Nat /\ Older \in Nat /\ Share \in Nat \ {0}
    /\ DestinationShare \in 0..Share
    /\ MaxResults \in Nat

VARIABLES
    slots,      \* the kept tokens, in the order they were first recorded
    holder,     \* the number of the result that holds each token, 0 if none
    content,    \* the kept tokens that are content
    results,    \* the number of the newest result
    sampleKey

\* History, read by the properties only.
VARIABLE said   \* the results recorded

vars == <<slots, holder, content, results, sampleKey, said>>

Kept == Range(slots)

\* The tokens of s that are among S, in their order.
Only(s, S) ==
    LET kept[i \in 0..Len(s)] ==
            IF i = 0 THEN <<>>
            ELSE IF s[i] \in S THEN Append(kept[i - 1], s[i])
            ELSE kept[i - 1]
    IN  kept[Len(s)]

-----------------------------------------------------------------------------
\* Recording one result.

\* Faulty: every token seen again moves.
AlwaysHandsOver(t, seen, whole) == TRUE

\* A token seen again is handed to the newest result, which costs whole,
\* unless that takes it out of a result within a share into one that will be
\* sampled.  The tokens seen again are visited in slot order, so those of the
\* same result in earlier slots have been handed over before t is looked at.
HandsOver(t, seen, whole) ==
    LET mine == {u \in Kept : holder[u] = holder[t]}
        earlier == {u \in mine \cap seen : \E i, j \in DOMAIN slots :
                        i < j /\ slots[i] = u /\ slots[j] = t}
    IN  whole <= Share \/ CostOf(mine \ earlier) > Share

\* Which result holds each token once the newest, x, is recorded.
HolderAfter(x, newest) ==
    LET again == Said(x) \cap Kept
        handed == {t \in again : HandsOver(t, again, CostOf(Said(x)))}
    IN  [t \in Tokens |-> IF t \in handed \cup (Said(x) \ Kept) THEN newest
                          ELSE holder[t]]

-----------------------------------------------------------------------------
\* Making room.  C[r] is what the result r costs, for every result up to the
\* newest.

SumFrom(C, r) == SumFunctionOnSet(C, r..Len(C))

\* Faulty: the newest result is sampled or forgotten, and one result too many is
\* kept whole.
AllButTheNewest(C) ==
    {r \in DOMAIN C : r # Len(C) /\ SumFrom(C, r) <= Recent}
OneTooMany(C) == {r \in DOMAIN C : r = Len(C) \/ SumFrom(C, r + 1) <= Recent}

\* The newest results, as many as fit, are kept whole.
RecentResults(C) == {r \in DOMAIN C : SumFrom(C, r) <= Recent}

\* The ones before them get a share each, as many as fit.
OlderResults(C) ==
    LET recent == RecentResults(C)
        shares == [r \in DOMAIN C |-> IF r \in recent THEN 0
                                      ELSE IF C[r] < Share THEN C[r] ELSE Share]
    IN  {r \in DOMAIN C \ recent : SumFrom(shares, r) <= Older}

\* Faulty: the sample takes no account of destinations.
SampleByKey(S, key) ==
    LET taken[i \in 0..Len(key)] ==
            IF i = 0 THEN {}
            ELSE IF key[i] \in S /\ CostOf(taken[i - 1] \cup {key[i]}) <= Share
                 THEN taken[i - 1] \cup {key[i]}
            ELSE taken[i - 1]
    IN  taken[Len(key)]

\* What the sample of a result that holds S keeps: its destinations first, up
\* to their share, then the rest, in the order of the key, which is gone
\* through once for each.
Sample(S, key) ==
    LET draw == key \o key
        Fits(some, t) ==
            /\ CostOf(some \cup {t}) <= Share
            /\ t \in Destinations =>
                   CostOf((some \cap Destinations) \cup {t}) <= DestinationShare
        Takes(some, i) ==
            /\ draw[i] \in S
            /\ draw[i] \in Destinations <=> i <= Len(key)
            /\ Fits(some, draw[i])
        taken[i \in 0..Len(draw)] ==
            IF i = 0 THEN {}
            ELSE IF Takes(taken[i - 1], i) THEN taken[i - 1] \cup {draw[i]}
            ELSE taken[i - 1]
    IN  taken[Len(draw)]

\* make_room: the tokens kept when they are held as h says.
MakeRoom(h, newest, key) ==
    LET Holds(r) == {t \in Tokens : h[t] = r}
        C == [r \in 1..newest |-> CostOf(Holds(r))]
        whole == RecentResults(C) \cup {r \in OlderResults(C) : C[r] <= Share}
    IN  {t \in Tokens : h[t] \in whole}
            \cup UNION {Sample(Holds(r), key) : r \in OlderResults(C) \ whole}

-----------------------------------------------------------------------------
Init ==
    /\ slots = <<>>
    /\ holder = [t \in Tokens |-> 0]
    /\ content = {}
    /\ results = 0
    /\ sampleKey \in Keys
    /\ said = <<>>

record_result(x) ==
    LET newest == results + 1
        h == HolderAfter(x, newest)
        keep == IF CostOf(Kept \cup Said(x)) <= Recent + Older
                THEN Kept \cup Said(x)
                ELSE MakeRoom(h, newest, sampleKey)
    IN  /\ results < MaxResults
        /\ results' = newest
        /\ said' = Append(said, x)
        /\ slots' = Only(slots, keep) \o Only(x.tokens, keep \ Kept)
        /\ holder' = [t \in Tokens |-> IF t \in keep THEN h[t] ELSE 0]
        /\ content' = keep \cap (content \cup IF x.content THEN Said(x) ELSE {})
        /\ UNCHANGED sampleKey

Next == \E x \in Results : record_result(x)

Spec == Init /\ [][Next]_vars

-----------------------------------------------------------------------------
\* arg_taint_alert: a call whose arguments carry the tokens S is refused.
\* One that only reads local paths made of them may carry listed names.
Refused(S, onlyReads) ==
    \E t \in S \cap Kept : ~onlyReads \/ t \in content

-----------------------------------------------------------------------------
\* Properties.

TypeOK ==
    /\ results \in 0..MaxResults
    /\ slots \in Seq(Tokens) /\ IsInjective(slots)
    /\ holder \in [Tokens -> 0..results]
    /\ \A t \in Tokens : holder[t] # 0 <=> t \in Kept
    /\ content \subseteq Kept
    /\ said \in Seq(Results) /\ Len(said) = results
    /\ sampleKey \in Keys

\* The store never costs more than its budget ("the store costs at most
\* 1152 KiB"): what make_room keeps whole and samples fits, however the
\* results repeated each other's tokens.
WithinBudget == CostOf(Kept) <= Recent + Older

\* How many results of a share the older part of the store holds.
Flood == Older \div Share

\* A result within a share is checked in full, as what it was (a listing's
\* name only outside the read-only tools, content everywhere), until the
\* newest result and Flood more were recorded after it: no result, however
\* long and whatever it repeats, clears it ("forgetting a short result takes
\* the newest results kept whole plus 128 more").
FloodIsLong ==
    \A i \in 1..results :
        /\ CostOf(Said(said[i])) <= Share
        /\ results - i <= Flood
        => \A t \in Said(said[i]) : Refused({t}, said[i].content)

\* The results that carry the token t.
Carriers(t) == {i \in 1..results : t \in Said(said[i])}

\* A page that asks to send data to one destination keeps it for as long, no
\* matter what it is padded with and what the key draws.  (For a destination
\* no result carries beside another one.)
LoneDestinationStays ==
    \A t \in {d \in Destinations : Cost[d] <= DestinationShare} :
        \A i \in Carriers(t) :
            /\ i = Min(Carriers(t))
            /\ \A j \in Carriers(t) : Said(said[j]) \cap Destinations = {t}
            /\ results - i <= Flood
            => Refused({t}, said[i].content)

\* What a result brings that was not kept already is checked in full from
\* then on, until the next result: making room never starts with the result
\* just read.
NewIsChecked ==
    [][LET x == Last(said')
       IN  Said(x) \ Kept \subseteq IF x.content THEN content' ELSE Kept']_vars

\* "The result just read is always checked in full" (the module's
\* documentation).  Not so of the code: a long result that repeats a token of
\* an earlier, sampled one leaves it there, and making room for the long result
\* may draw another sample of the earlier one.
NewestIsWhole ==
    results > 0 =>
        \A t \in Said(Last(said)) : Refused({t}, Last(said).content)
=============================================================================
