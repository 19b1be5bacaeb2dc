--------------------------- MODULE MCFileReplace ---------------------------
(* Small instances of FileReplace: three calls, of one account in a private *)
(* directory, or of root and the group's accounts in a shared one.          *)
EXTENDS FileReplace

CONSTANTS w1, w2, w3, operator, agent, root, e1

OneAccount  == [w \in Writers |-> operator]
TwoAccounts == [w \in Writers |-> IF w = w1 THEN operator ELSE agent]
AllAccounts == [w \in Writers |-> CASE w = w1 -> operator
                                    [] w = w2 -> agent
                                    [] OTHER  -> root]
=============================================================================
