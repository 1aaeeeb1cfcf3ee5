------------------------------- MODULE Memory -------------------------------
(***************************************************************************)
(* Reviewed, versioned memory of one organisation: the operations of       *)
(* distributedai/persistence/workspace.py on memory_records,               *)
(* memory_versions and memory_proposals.                                   *)
(*                                                                         *)
(* Every operation below runs in one transaction, and dispatch() makes all *)
(* of them but memory_search take the organisation row FOR UPDATE first,   *)
(* so each is one atomic step here.                                        *)
(*                                                                         *)
(* A content is identified with the proposal that carries it: a canonical  *)
(* record and a history row name the proposal they came from.  Identifiers *)
(* are random and never reused, so an erased proposal stays erased.        *)
(***************************************************************************)
EXTENDS Organisation

CONSTANTS
    Keys,           \* memory keys
    Proposals       \* identifiers that proposals can be given

ASSUME MemoryAssumption ==
    /\ None \notin Proposals
    /\ None \notin Scopes \X Keys

Slots == Scopes \X Keys
ScopeOf(slot) == slot[1]

VARIABLES
    proposal,   \* the proposal rows, by identifier
    record,     \* record[slot]: the canonical row, version 0 when absent
    versions,   \* versions[slot]: the history rows
    seen        \* seen[p][slot]: what p's last search of the slot returned

vars == <<granted, live, proposal, record, versions, seen>>

Status == {"unused", "pending", "accepted", "rejected", "conflict", "erased"}

\* What a search returns.  `fresh` is history the program does not keep: it
\* turns FALSE when the slot is erased after the search.
Sight == [version : Nat, from : Proposals \cup {None}, fresh : BOOLEAN]

ProposalRow == [slot : Slots \cup {None}, expected : Nat,
                proposer : Principals \cup {None}, quarantined : BOOLEAN,
                status : Status, reviewer : Principals \cup {None},
                basis : Sight]

VersionRow == [version : Nat, from : Proposals]

NoRecord == [version |-> 0, from |-> None]
NothingSeen == [version |-> 0, from |-> None, fresh |-> TRUE]

NoProposal(status) ==
    [slot |-> None, expected |-> 0, proposer |-> None, quarantined |-> FALSE,
     status |-> status, reviewer |-> None, basis |-> NothingSeen]

\* Every variable has its type, and the rows of all tables refer to scopes that
\* exist: memory_propose's insert, scope_delete and scope_merge keep what the
\* foreign keys on scopes.id demand.
TypeOK ==
    /\ granted \in [Principals -> [Scopes -> Role]]
    /\ live \in SUBSET Scopes
    /\ proposal \in [Proposals -> ProposalRow]
    /\ record \in [Slots -> [version : Nat, from : Proposals \cup {None}]]
    /\ versions \in [Slots -> SUBSET VersionRow]
    /\ seen \in [Principals -> [Slots -> Sight]]
    /\ \A r \in Proposals :
          proposal[r].status \notin {"unused", "erased"} =>
              /\ proposal[r].slot \in Slots
              /\ ScopeOf(proposal[r].slot) \in live
              /\ proposal[r].proposer \in Principals
    /\ \A slot \in Slots :
          ScopeOf(slot) \notin live =>
              record[slot] = NoRecord /\ versions[slot] = {}

-----------------------------------------------------------------------------
(* The rows of the memory tables. *)

\* The proposal rows, and whether a slot has a row in any table.  A row of
\* memory_locks makes no difference: the review that inserts it, and whatever
\* deletes the proposal reviewed, deal with the rows of the slot alike.
Existing(r) == proposal[r].status \notin {"unused", "erased"}
HasRows(slot) ==
    \/ record[slot].version > 0
    \/ versions[slot] # {}
    \/ \E r \in Proposals : Existing(r) /\ proposal[r].slot = slot

-----------------------------------------------------------------------------
Init ==
    /\ granted = [p \in Principals |-> [s \in Scopes |-> "none"]]
    /\ live = Scopes
    /\ proposal = [r \in Proposals |-> NoProposal("unused")]
    /\ record = [slot \in Slots |-> NoRecord]
    /\ versions = [slot \in Slots |-> {}]
    /\ seen = [p \in Principals |-> [slot \in Slots |-> NothingSeen]]

\* The role of a principal on a scope changes.
Regrant(p, s, role) ==
    /\ ChangeRole(p, s, role)
    /\ UNCHANGED <<proposal, record, versions, seen>>

\* memory_search: p learns the canonical record of a slot and its version.
Search(p, slot) ==
    /\ Allowed(p, ScopeOf(slot), "reader")
    /\ seen' = [seen EXCEPT ![p][slot] =
                  [version |-> record[slot].version,
                   from |-> record[slot].from, fresh |-> TRUE]]
    /\ UNCHANGED <<granted, live, proposal, record, versions>>

\* memory_propose: the proposal carries the version p last saw (0, the
\* default, when p never looked); the scan decides the quarantine.
Propose(p, slot, r, quarantined) ==
    /\ Allowed(p, ScopeOf(slot), "writer")
    /\ proposal[r].status = "unused"
    /\ proposal' = [proposal EXCEPT ![r] =
                      [slot |-> slot, expected |-> seen[p][slot].version,
                       proposer |-> p, quarantined |-> quarantined,
                       status |-> "pending", reviewer |-> None,
                       basis |-> seen[p][slot]]]
    /\ UNCHANGED <<granted, live, record, versions, seen>>

\* Mutations of Reviewable: the proposer may review; a verdict is no obstacle.
ReviewableBySelf(p, r) ==
    /\ Existing(r)
    /\ Allowed(p, ScopeOf(proposal[r].slot), "reviewer")
    /\ proposal[r].status = "pending"

ReviewableAgain(p, r) ==
    /\ Existing(r)
    /\ Allowed(p, ScopeOf(proposal[r].slot), "reviewer")
    /\ proposal[r].proposer # p

\* The checks memory_review makes before it looks at the verdict: the role on
\* the proposal's own scope, no self review outside a personal scope, pending.
Reviewable(p, r) ==
    /\ Existing(r)
    /\ LET s == ScopeOf(proposal[r].slot)
       IN  /\ Allowed(p, s, "reviewer")
           /\ proposal[r].proposer # p \/ Kind[s] = "personal"
    /\ proposal[r].status = "pending"

\* `_transition_proposal`.
Decide(r, status, p) ==
    proposal' = [proposal EXCEPT ![r].status = status, ![r].reviewer = p]

\* Mutation of UpToDate: any version not newer than the canonical one will do.
NotAhead(r) == proposal[r].expected <= record[proposal[r].slot].version

\* The version a proposal was written against is the canonical one.
UpToDate(r) == proposal[r].expected = record[proposal[r].slot].version

\* memory_review(accept = FALSE).
Reject(p, r) ==
    /\ Reviewable(p, r)
    /\ Decide(r, "rejected", p)
    /\ UNCHANGED <<granted, live, record, versions, seen>>

\* memory_review(accept = TRUE) of a proposal another version overtook.
Conflict(p, r) ==
    /\ Reviewable(p, r)
    /\ ~proposal[r].quarantined
    /\ ~UpToDate(r)
    /\ Decide(r, "conflict", p)
    /\ UNCHANGED <<granted, live, record, versions, seen>>

\* memory_review(accept = TRUE): the canonical row and one more history row.
Accept(p, r) ==
    /\ Reviewable(p, r)
    /\ ~proposal[r].quarantined
    /\ UpToDate(r)
    /\ Decide(r, "accepted", p)
    /\ LET slot == proposal[r].slot
           row == [version |-> record[slot].version + 1, from |-> r]
       IN  /\ record' = [record EXCEPT ![slot] = row]
           /\ versions' = [versions EXCEPT ![slot] = @ \cup {row}]
    /\ UNCHANGED <<granted, live, seen>>

\* Mutation of Erase: the history rows stay.
EraseButHistory(slots) ==
    /\ proposal' = [r \in Proposals |->
                      IF Existing(r) /\ proposal[r].slot \in slots
                      THEN NoProposal("erased") ELSE proposal[r]]
    /\ record' = [slot \in Slots |->
                    IF slot \in slots THEN NoRecord ELSE record[slot]]
    /\ UNCHANGED <<versions, seen>>

\* What the deletion of the rows of some slots leaves.
Erase(slots) ==
    /\ proposal' = [r \in Proposals |->
                      IF Existing(r) /\ proposal[r].slot \in slots
                      THEN NoProposal("erased") ELSE proposal[r]]
    /\ record' = [slot \in Slots |->
                    IF slot \in slots THEN NoRecord ELSE record[slot]]
    /\ versions' = [slot \in Slots |->
                      IF slot \in slots THEN {} ELSE versions[slot]]
    /\ seen' = [p \in Principals |-> [slot \in Slots |->
                  IF slot \in slots
                  THEN [seen[p][slot] EXCEPT !.fresh = FALSE]
                  ELSE seen[p][slot]]]

\* memory_delete: record, history and proposals of one key.
MemoryDelete(p, slot) ==
    /\ Allowed(p, ScopeOf(slot), "admin")
    /\ MayDelete(p, ScopeOf(slot))
    /\ HasRows(slot)
    /\ Erase({slot})
    /\ UNCHANGED <<granted, live>>

\* Mutation of ScopeDelete: the contents are left behind.
ScopeDeleteAlone(p, s) ==
    /\ MayDeleteScope(p, s)
    /\ live' = live \ {s}
    /\ UNCHANGED <<granted, proposal, record, versions, seen>>

\* scope_delete(delete_contents = TRUE), or of a scope without data.
ScopeDelete(p, s) ==
    /\ MayDeleteScope(p, s)
    /\ Erase({slot \in Slots : ScopeOf(slot) = s})
    /\ live' = live \ {s}
    /\ UNCHANGED granted

\* Mutation of NoCollision: the keys of the two scopes are not compared.
CollisionIgnored(source, target) == source # target

\* No key has rows in both scopes (`memory_keys` of both, intersected).
NoCollision(source, target) ==
    \A k \in Keys : ~(HasRows(<<source, k>>) /\ HasRows(<<target, k>>))

\* scope_merge: the memory of the source department becomes the target's.
ScopeMerge(p, source, target) ==
    /\ MayMergeScopes(p, source, target)
    /\ NoCollision(source, target)
    /\ LET Moved(slot) == ScopeOf(slot) = source
           Origin(slot) == <<source, slot[2]>>
           Gains(slot) == ScopeOf(slot) = target /\ HasRows(Origin(slot))
       IN  /\ proposal' = [r \in Proposals |->
                IF Existing(r) /\ Moved(proposal[r].slot)
                THEN [proposal[r] EXCEPT !.slot = <<target, @[2]>>]
                ELSE proposal[r]]
           /\ record' = [slot \in Slots |->
                IF Moved(slot) THEN NoRecord
                ELSE IF Gains(slot) THEN record[Origin(slot)]
                ELSE record[slot]]
           /\ versions' = [slot \in Slots |->
                IF Moved(slot) THEN {}
                ELSE IF Gains(slot) THEN versions[Origin(slot)]
                ELSE versions[slot]]
    /\ live' = live \ {source}
    /\ UNCHANGED <<granted, seen>>

Next ==
    \/ \E p \in Principals \ {OrgAdmin}, s \in Scopes, role \in GrantedRoles :
          Regrant(p, s, role)
    \/ \E p \in Principals, slot \in Slots : Search(p, slot)
    \/ \E p \in Principals, slot \in Slots, r \in Proposals, q \in BOOLEAN :
          Propose(p, slot, r, q)
    \/ \E p \in Principals, r \in Proposals :
          Reject(p, r) \/ Conflict(p, r) \/ Accept(p, r)
    \/ \E p \in Principals, slot \in Slots : MemoryDelete(p, slot)
    \/ \E p \in Principals, s \in Scopes : ScopeDelete(p, s)
    \/ \E p \in Principals, s, t \in Scopes : ScopeMerge(p, s, t)

Spec == Init /\ [][Next]_vars

-----------------------------------------------------------------------------
(* What the memory promises.                                               *)

\* The row of `slot` with version n.
RowAt(slot, n) == CHOOSE row \in versions[slot] : row.version = n

\* The history of a slot has exactly the versions 1 .. n, one row each, where
\* n is the canonical version, and the canonical row is the last of them: the
\* two tables that memory_review, memory_delete, scope_delete and scope_merge
\* write separately never disagree.
Complete(canonical, rows) ==
    /\ {row.version : row \in rows} = 1..canonical.version
    /\ \A row1, row2 \in rows : row1.version = row2.version => row1 = row2
    /\ canonical = NoRecord \/ canonical \in rows

HistoryComplete ==
    \A slot \in Slots : Complete(record[slot], versions[slot])

\* Everything in the history was proposed for that very slot and version, was
\* not quarantined, and outside a personal scope was accepted by somebody who
\* did not propose it; and every accepted proposal is in the history.  It must
\* survive the moves of scope_merge, which rewrites all tables.
Provenance ==
    /\ \A slot \in Slots : \A row \in versions[slot] :
          LET r == proposal[row.from]
          IN  /\ r.status = "accepted"
              /\ r.slot = slot
              /\ r.expected = row.version - 1
              /\ ~r.quarantined
              /\ r.reviewer # r.proposer \/ Kind[ScopeOf(slot)] = "personal"
    /\ \A r \in Proposals :
          proposal[r].status = "accepted" =>
              [version |-> proposal[r].expected + 1, from |-> r]
                  \in versions[proposal[r].slot]

\* What row replaced: the row before it, or nothing.
Replaced(slot, row) ==
    IF row.version = 1 THEN None ELSE RowAt(slot, row.version - 1).from

\* The version check prevents lost updates: a version replaced exactly the
\* content its proposer had read, provided the key was not deleted in between.
NoLostUpdate ==
    \A slot \in Slots : \A row \in versions[slot] :
        proposal[row.from].basis.fresh =>
            Replaced(slot, row) = proposal[row.from].basis.from

\* The same without the proviso, as docs/ARCHITECTURE.md states it.  Deleting
\* a key restarts its versions, so this one does not hold.
NeverOverwritesUnseen ==
    \A slot \in Slots : \A row \in versions[slot] :
        Replaced(slot, row) = proposal[row.from].basis.from

\* History is append-only: a step adds to the history of a slot, or erases it
\* together with the canonical record; it never edits one.
HistoryKept ==
    [][\A slot \in Slots :
          \/ versions[slot] \subseteq versions'[slot]
          \/ versions'[slot] = {} /\ record'[slot] = NoRecord]_vars

Verdicts == {"accepted", "rejected", "conflict"}

\* The verdict on r and its reviewer stay, until r is erased.
VerdictStays(r) ==
    \/ proposal'[r].status = "erased"
    \/ /\ proposal'[r].status = proposal[r].status
       /\ proposal'[r].reviewer = proposal[r].reviewer

\* The one who decides r may review, on the scope where r is by now and with the
\* role of this moment, and outside a personal scope did not propose it.
VerdictEntitled(r) ==
    LET s == ScopeOf(proposal[r].slot)
        p == proposal'[r].reviewer
    IN  /\ proposal[r].status = "pending"
        /\ Allowed(p, s, "reviewer")
        /\ p # proposal[r].proposer \/ Kind[s] = "personal"

\* A proposal is decided once, whoever reviews it again, and by somebody who is
\* entitled when the verdict falls: roles change, and merges move the proposal
\* to another scope, between its proposal and its review (memory_review).
DecisionsFinal ==
    [][\A r \in Proposals :
          IF proposal[r].status \in Verdicts THEN VerdictStays(r)
          ELSE proposal'[r].status \in Verdicts => VerdictEntitled(r)]_vars

-----------------------------------------------------------------------------
(* The inductive invariant of module MemoryProofs.                         *)

\* A sight that is still fresh is what the history says of its version.
Faithful(sight, rows) ==
    sight.fresh => IF sight.version = 0 THEN sight.from = None
                   ELSE [version |-> sight.version, from |-> sight.from] \in rows

\* What was read from a scope that exists stays in its history, and so does
\* what a proposal was written against.
SightsMatch ==
    /\ \A p \in Principals, slot \in Slots :
          ScopeOf(slot) \in live => Faithful(seen[p][slot], versions[slot])
    /\ \A r \in Proposals :
          Existing(r) =>
              /\ proposal[r].expected = proposal[r].basis.version
              /\ Faithful(proposal[r].basis, versions[proposal[r].slot])

Inductive == TypeOK /\ HistoryComplete /\ Provenance /\ SightsMatch

-----------------------------------------------------------------------------
(* The memory implements an append-only log per slot, read at its end.     *)

Log == [slot \in Slots |->
          [n \in 1..record[slot].version |-> RowAt(slot, n).from]]

Spent == {r \in Proposals : proposal[r].status \notin {"unused", "pending"}}

Store == INSTANCE VersionedStore
             WITH Areas <- Scopes, Entries <- Proposals,
                  log <- Log, spent <- Spent

ImplementsStore == Store!Spec
=============================================================================
