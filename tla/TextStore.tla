------------------------------ MODULE TextStore ------------------------------
(***************************************************************************)
(* What the operations of the workspace see of their rows, whatever the    *)
(* database stores: every row has a text, an operation replaces the texts  *)
(* of the rows it writes all at once or not at all, and nothing else ever  *)
(* changes or loses one.  There are no keys here.                          *)
(***************************************************************************)
CONSTANTS Clients, Rows, Texts, None

VARIABLES
    text,       \* text[r]: None until the row is written
    written     \* written[c][r]: what the operation of c writes so far

vars == <<text, written>>

Nothing == [r \in Rows |-> None]

Init ==
    /\ text = Nothing
    /\ written = [c \in Clients |-> Nothing]

\* A row is written by one operation at a time.
Write(c, r, x) ==
    /\ \A d \in Clients \ {c} : written[d][r] = None
    /\ written' = [written EXCEPT ![c] = [@ EXCEPT ![r] = x]]
    /\ UNCHANGED text

Commit(c) ==
    /\ text' = [r \in Rows |-> IF written[c][r] = None THEN text[r]
                                                      ELSE written[c][r]]
    /\ written' = [written EXCEPT ![c] = Nothing]

Drop(S) ==
    /\ written' = [c \in Clients |-> IF c \in S THEN Nothing ELSE written[c]]
    /\ UNCHANGED text

Next ==
    \/ \E c \in Clients, r \in Rows, x \in Texts : Write(c, r, x)
    \/ \E c \in Clients : Commit(c)
    \/ \E S \in SUBSET Clients : Drop(S)

Spec == Init /\ [][Next]_vars
=============================================================================
