-------------------------- MODULE MCAttemptRecords --------------------------
(* A small instance of AttemptRecords: an ask that is held already, a       *)
(* message of another chat, one of that chat or of a third, and a call of   *)
(* that chat that may be anything else.                                     *)
EXTENDS AttemptRecords

CONSTANTS m0, m1, m2, k1

MCChats == [c \in {m0, m1, m2, k1} |-> IF c = m0 THEN {"old"}
                                       ELSE IF c = m2 THEN {"chat", "other"}
                                       ELSE {"chat"}]
=============================================================================
