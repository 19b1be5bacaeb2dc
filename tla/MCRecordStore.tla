--------------------------- MODULE MCRecordStore ---------------------------
(* Three hooks: an event, its redelivery, and another session's command;   *)
(* and a graph whose first command was pruned.                             *)
EXTENDS RecordStore

CONSTANTS once, again, other, e1, s1, s2, old

MCSession == [h \in Hooks |-> IF h = other THEN s2 ELSE s1]
MCEvent == [h \in Hooks |-> IF h = other THEN NoEvent ELSE e1]

MCOldGraph ==
    [nodes |-> <<Anchor(s1), Command(s1, 1, NoEvent, old)>>,
     ran |-> {<<Id(Anchor(s1)), Id(Command(s1, 1, NoEvent, old))>>}]
=============================================================================
