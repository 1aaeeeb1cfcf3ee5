--------------------------- MODULE VersionedStore ---------------------------
(***************************************************************************)
(* What reviewed memory promises its readers: every (area, key) holds an   *)
(* append-only log of entries; the value is the last one and the version   *)
(* its position.  An entry is written at most once, in one place.  A log   *)
(* can be forgotten as a whole, and the logs of one area can become        *)
(* another's where that has none.  There is no other way to change one.    *)
(***************************************************************************)
EXTENDS Sequences

CONSTANTS Areas, Keys, Entries

VARIABLES
    log,    \* log[<<area, key>>]: the entries written, oldest first
    spent   \* entries that can no longer be written

storeVars == <<log, spent>>

Places == Areas \X Keys

Init ==
    /\ log = [place \in Places |-> <<>>]
    /\ spent = {}

Write(place, e) ==
    /\ e \notin spent
    /\ log' = [log EXCEPT ![place] = Append(@, e)]
    /\ spent' = spent \cup {e}

\* An entry is turned down.
Discard(e) ==
    /\ e \notin spent
    /\ spent' = spent \cup {e}
    /\ UNCHANGED log

\* Some logs are forgotten, and with them what was waiting to be written.
Forget(places, entries) ==
    /\ log' = [place \in Places |->
                 IF place \in places THEN <<>> ELSE log[place]]
    /\ spent' = spent \cup entries

\* The logs of area a become those of area b.
Relocate(a, b) ==
    /\ a # b
    /\ \A k \in Keys : log[<<a, k>>] = <<>> \/ log[<<b, k>>] = <<>>
    /\ log' = [place \in Places |->
                 IF place[1] = a THEN <<>>
                 ELSE IF place[1] = b
                 THEN log[<<a, place[2]>>] \o log[place]
                 ELSE log[place]]
    /\ UNCHANGED spent

Next ==
    \/ \E place \in Places, e \in Entries : Write(place, e)
    \/ \E e \in Entries : Discard(e)
    \/ \E place \in Places, es \in SUBSET Entries : Forget({place}, es)
    \/ \E a \in Areas, es \in SUBSET Entries : Forget({a} \X Keys, es)
    \/ \E a, b \in Areas : Relocate(a, b)

Spec == Init /\ [][Next]_storeVars
=============================================================================
