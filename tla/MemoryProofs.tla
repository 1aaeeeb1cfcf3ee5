---------------------------- MODULE MemoryProofs ----------------------------
(***************************************************************************)
(* Proofs about module Memory, for every set of principals, scopes, keys   *)
(* and proposals.  Inductive is the invariant; each lemma below shows that *)
(* one kind of step keeps it.                                              *)
(***************************************************************************)
EXTENDS Memory, SequenceTheorems, TLAPS

\* Initially every table is empty.
LEMMA InitInductive == Init => Inductive
<1> SUFFICES ASSUME Init PROVE Inductive
  OBVIOUS
<1>1. TypeOK
  BY OrganisationAssumption, MemoryAssumption DEF Init, TypeOK, Role, ProposalRow, NoProposal, Sight,
     NothingSeen, NoRecord, Status, VersionRow
<1>2. HistoryComplete
  <2>1. {row.version : row \in {}} = 1..0
    BY 1..0 = {}
  <2> QED
    BY <2>1 DEF Init, HistoryComplete, Complete, NoRecord
<1>3. Provenance
  BY DEF Init, Provenance, NoProposal
<1>4. SightsMatch
  BY DEF Init, SightsMatch, Faithful, NoProposal, NothingSeen, Existing, Slots
<1> QED
  BY <1>1, <1>2, <1>3, <1>4 DEF Inductive

\* Steps that leave the tables alone: stuttering, and changes of role.
LEMMA RegrantStep ==
  ASSUME Inductive,
         UNCHANGED <<live, proposal, record, versions, seen>>,
         granted' \in [Principals -> [Scopes -> Role]]
  PROVE  Inductive'
<1>1. TypeOK'
  BY DEF Inductive, TypeOK
<1>2. HistoryComplete' /\ Provenance'
  BY DEF Inductive, HistoryComplete, Provenance
<1>3. SightsMatch'
  BY DEF Inductive, SightsMatch, Existing
<1> QED
  BY <1>1, <1>2, <1>3 DEF Inductive

\* A search changes only what the searcher knows, and what it learns is there.
LEMMA SearchStep ==
  ASSUME Inductive, NEW p \in Principals, NEW slot \in Slots, Search(p, slot)
  PROVE  Inductive'
<1> USE DEF Search
<1> DEFINE sight == [version |-> record[slot].version,
                     from |-> record[slot].from, fresh |-> TRUE]
<1>1. sight \in Sight
  BY DEF Inductive, TypeOK, Sight
<1>2. Faithful(sight, versions[slot])
  <2>1. Complete(record[slot], versions[slot])
    BY DEF Inductive, HistoryComplete
  <2>2. record[slot] = [version |-> record[slot].version, from |-> record[slot].from]
    BY DEF Inductive, TypeOK
  <2>3. CASE record[slot] = NoRecord
    BY <2>3 DEF Faithful, NoRecord
  <2>4. CASE record[slot] \in versions[slot]
    <3>1. record[slot].version \in 1..record[slot].version
      BY <2>1, <2>4 DEF Complete
    <3> QED
      BY <2>2, <2>4, <3>1 DEF Faithful, Inductive, TypeOK
  <2> QED
    BY <2>1, <2>3, <2>4 DEF Complete
<1>3. TypeOK'
  BY <1>1 DEF Inductive, TypeOK
<1>4. HistoryComplete' /\ Provenance'
  BY DEF Inductive, HistoryComplete, Provenance
<1>5. SightsMatch'
  BY <1>2 DEF Inductive, TypeOK, SightsMatch, Existing
<1> QED
  BY <1>3, <1>4, <1>5 DEF Inductive

\* A proposal records what its proposer saw; no table but its own changes.
LEMMA ProposeStep ==
  ASSUME Inductive, NEW p \in Principals, NEW slot \in Slots,
         NEW r \in Proposals, NEW q \in BOOLEAN, Propose(p, slot, r, q)
  PROVE  Inductive'
<1> USE DEF Propose
<1>1. ScopeOf(slot) \in live /\ seen[p][slot] \in Sight
  BY DEF Inductive, TypeOK, Allowed
<1>2. TypeOK'
  BY <1>1 DEF Inductive, TypeOK, ProposalRow, Sight, Status
<1>3. HistoryComplete'
  BY DEF Inductive, HistoryComplete
<1>4. \A x \in Proposals : proposal'[x].status = "accepted" => x # r
  BY DEF Inductive, TypeOK
<1>5. Provenance'
  BY <1>4 DEF Inductive, TypeOK, Provenance, VersionRow
<1>6. SightsMatch'
  BY <1>1 DEF Inductive, TypeOK, SightsMatch, Existing
<1> QED
  BY <1>2, <1>3, <1>5, <1>6 DEF Inductive

\* A verdict gives a proposal row again, and changes only that row.
LEMMA DecideType ==
  ASSUME proposal \in [Proposals -> ProposalRow], NEW r \in Proposals,
         NEW p \in Principals, NEW st \in Status, Decide(r, st, p)
  PROVE  /\ proposal' \in [Proposals -> ProposalRow]
         /\ proposal'[r] = [proposal[r] EXCEPT !.status = st, !.reviewer = p]
         /\ \A x \in Proposals : x # r => proposal'[x] = proposal[x]
<1> DEFINE new == [proposal[r] EXCEPT !.status = st, !.reviewer = p]
<1>1. new \in ProposalRow
  BY DEF ProposalRow
<1>2. proposal' = [proposal EXCEPT ![r] = new]
  BY DEF Decide
<1> HIDE DEF new
<1>3. proposal' \in [Proposals -> ProposalRow] /\ proposal'[r] = new
      /\ \A x \in Proposals : x # r => proposal'[x] = proposal[x]
  BY <1>1, <1>2
<1> QED
  BY <1>3 DEF new

\* A verdict that is not an acceptance.
LEMMA TurnDownStep ==
  ASSUME Inductive, NEW p \in Principals, NEW r \in Proposals,
         Reject(p, r) \/ Conflict(p, r)
  PROVE  Inductive'
<1>1. PICK st \in {"rejected", "conflict"} : Decide(r, st, p)
  BY DEF Reject, Conflict
<1>2. /\ proposal[r].status = "pending"
      /\ UNCHANGED <<granted, live, record, versions, seen>>
  BY DEF Reject, Conflict, Reviewable
<1>3. /\ proposal' \in [Proposals -> ProposalRow]
      /\ proposal'[r] = [proposal[r] EXCEPT !.status = st, !.reviewer = p]
      /\ \A x \in Proposals : x # r => proposal'[x] = proposal[x]
  <2>1. st \in Status /\ proposal \in [Proposals -> ProposalRow]
    BY DEF Inductive, TypeOK, Status
  <2> QED
    BY <1>1, <2>1, DecideType
<1>4. proposal[r] \in ProposalRow
  BY DEF Inductive, TypeOK
<1>5. /\ \A x \in Proposals :
           /\ proposal'[x].slot = proposal[x].slot
           /\ proposal'[x].expected = proposal[x].expected
           /\ proposal'[x].proposer = proposal[x].proposer
           /\ proposal'[x].basis = proposal[x].basis
           /\ Existing(x)' <=> Existing(x)
      /\ proposal'[r].status # "accepted"
  BY <1>2, <1>3, <1>4 DEF ProposalRow, Existing
<1>6. TypeOK'
  BY <1>2, <1>3, <1>5 DEF Inductive, TypeOK, Existing
<1>7. HistoryComplete'
  BY <1>2 DEF Inductive, HistoryComplete
<1>8. Provenance'
  <2>1. \A s \in Slots : \A row \in versions[s] :
           row.from \in Proposals /\ row.from # r
    BY <1>2 DEF Inductive, TypeOK, Provenance, VersionRow
  <2>2. \A s \in Slots : \A row \in versions[s] :
           proposal'[row.from] = proposal[row.from]
    BY <2>1, <1>3
  <2>3. \A x \in Proposals : proposal'[x].status = "accepted" =>
           proposal'[x] = proposal[x]
    BY <1>3, <1>5
  <2> QED
    BY <1>2, <2>2, <2>3 DEF Inductive, Provenance
<1>9. SightsMatch'
  BY <1>2, <1>5 DEF Inductive, SightsMatch
<1> QED
  BY <1>6, <1>7, <1>8, <1>9 DEF Inductive

-----------------------------------------------------------------------------
\* A complete history stays complete when the next version joins it, and what
\* was seen of it stays there.
LEMMA CompleteExtend ==
  ASSUME NEW rec \in [version : Nat, from : Proposals \cup {None}],
         NEW rows \in SUBSET VersionRow, Complete(rec, rows),
         NEW row \in VersionRow, row.version = rec.version + 1
  PROVE  Complete(row, rows \cup {row})
<1>1. \A old \in rows : old.version \in 1..rec.version
  BY DEF Complete
<1>2. {old.version : old \in rows \cup {row}} = 1..row.version
  <2>1. {old.version : old \in rows \cup {row}} =
           {old.version : old \in rows} \cup {rec.version + 1}
    OBVIOUS
  <2>2. 1..rec.version \cup {rec.version + 1} = 1..row.version
    OBVIOUS
  <2> QED
    BY <2>1, <2>2 DEF Complete
<1>3. \A row1, row2 \in rows \cup {row} : row1.version = row2.version => row1 = row2
  BY <1>1 DEF Complete, VersionRow
<1> QED
  BY <1>2, <1>3 DEF Complete

LEMMA FaithfulExtend ==
  ASSUME NEW sight, NEW rows, NEW more, rows \subseteq more,
         Faithful(sight, rows)
  PROVE  Faithful(sight, more)
BY DEF Faithful

\* An acceptance writes the canonical row and the history row together.
LEMMA AcceptStep ==
  ASSUME Inductive, NEW p \in Principals, NEW r \in Proposals, Accept(p, r)
  PROVE  Inductive'
<1> DEFINE slot == proposal[r].slot
           row == [version |-> record[slot].version + 1, from |-> r]
<1>1. /\ Existing(r) /\ slot \in Slots /\ ScopeOf(slot) \in live
      /\ proposal[r].status = "pending"
      /\ ~proposal[r].quarantined
      /\ proposal[r].expected = record[slot].version
      /\ proposal[r].proposer # p \/ Kind[ScopeOf(slot)] = "personal"
      /\ record[slot] \in [version : Nat, from : Proposals \cup {None}]
      /\ versions[slot] \in SUBSET VersionRow
  BY DEF Inductive, TypeOK, Accept, Reviewable, UpToDate, Existing
<1>2. /\ proposal' = [proposal EXCEPT ![r].status = "accepted", ![r].reviewer = p]
      /\ record' = [record EXCEPT ![slot] = row]
      /\ versions' = [versions EXCEPT ![slot] = @ \cup {row}]
      /\ UNCHANGED <<granted, live, seen>>
  BY DEF Accept, Decide
<1>3. row \in VersionRow /\ record'[slot] = row
      /\ versions'[slot] = versions[slot] \cup {row}
  BY <1>1, <1>2 DEF VersionRow, Inductive, TypeOK
<1>4. \A other \in Slots : other # slot => /\ record'[other] = record[other]
                                           /\ versions'[other] = versions[other]
  BY <1>1, <1>2 DEF Inductive, TypeOK
<1>5. \A x \in Proposals :
         /\ proposal'[x].slot = proposal[x].slot
         /\ proposal'[x].expected = proposal[x].expected
         /\ proposal'[x].proposer = proposal[x].proposer
         /\ proposal'[x].quarantined = proposal[x].quarantined
         /\ proposal'[x].basis = proposal[x].basis
         /\ Existing(x)' <=> Existing(x)
         /\ x # r => proposal'[x] = proposal[x]
  BY <1>1, <1>2 DEF Inductive, TypeOK, ProposalRow, Existing
<1>6. proposal'[r].status = "accepted" /\ proposal'[r].reviewer = p
  BY <1>2 DEF Inductive, TypeOK, ProposalRow
<1>7. TypeOK'
  <2>1. /\ granted' \in [Principals -> [Scopes -> Role]] /\ live' \in SUBSET Scopes
        /\ seen' \in [Principals -> [Slots -> Sight]]
    BY <1>2 DEF Inductive, TypeOK
  <2>2. proposal' \in [Proposals -> ProposalRow]
    <3>1. Decide(r, "accepted", p)
      BY DEF Accept
    <3> QED
      BY <3>1, DecideType DEF Inductive, TypeOK, Status
  <2>3. record' \in [Slots -> [version : Nat, from : Proposals \cup {None}]]
    BY <1>1, <1>2 DEF Inductive, TypeOK
  <2>4. versions' \in [Slots -> SUBSET VersionRow]
    BY <1>2, <1>3 DEF Inductive, TypeOK
  <2>5. \A x \in Proposals : proposal'[x].status \notin {"unused", "erased"} =>
           /\ proposal'[x].slot \in Slots /\ ScopeOf(proposal'[x].slot) \in live'
           /\ proposal'[x].proposer \in Principals
    BY <1>1, <1>2, <1>5 DEF Inductive, TypeOK, Existing
  <2>6. \A s \in Slots : ScopeOf(s) \notin live' =>
           record'[s] = NoRecord /\ versions'[s] = {}
    BY <1>1, <1>2, <1>4 DEF Inductive, TypeOK
  <2> QED
    BY <2>1, <2>2, <2>3, <2>4, <2>5, <2>6 DEF TypeOK, Existing
<1>8. HistoryComplete'
  <2>1. Complete(row, versions[slot] \cup {row})
    BY <1>1, <1>3, CompleteExtend DEF Inductive, HistoryComplete
  <2> QED
    BY <2>1, <1>3, <1>4 DEF Inductive, HistoryComplete
<1>9. Provenance'
  <2>1. \A s \in Slots : \A old \in versions[s] : old.from # r
    BY <1>1 DEF Inductive, Provenance
  <2>2. ASSUME NEW s \in Slots, NEW new \in versions'[s]
        PROVE  LET x == proposal'[new.from]
               IN  /\ x.status = "accepted" /\ x.slot = s
                   /\ x.expected = new.version - 1 /\ ~x.quarantined
                   /\ x.reviewer # x.proposer \/ Kind[ScopeOf(s)] = "personal"
    <3>1. CASE new \in versions[s]
      <4>1. new.from \in Proposals /\ new.from # r
        BY <2>1, <3>1 DEF Inductive, TypeOK, VersionRow
      <4> QED
        BY <3>1, <4>1, <1>5 DEF Inductive, Provenance
    <3>2. CASE new \notin versions[s]
      <4>1. s = slot /\ new = row
        BY <3>2, <1>3, <1>4
      <4> QED
        BY <4>1, <1>1, <1>5, <1>6 DEF VersionRow
    <3> QED
      BY <3>1, <3>2
  <2>3. ASSUME NEW x \in Proposals, proposal'[x].status = "accepted"
        PROVE  [version |-> proposal'[x].expected + 1, from |-> x]
                  \in versions'[proposal'[x].slot]
    <3>1. CASE x = r
      BY <3>1, <1>1, <1>3, <1>5
    <3>2. CASE x # r
      <4>1. [version |-> proposal[x].expected + 1, from |-> x]
               \in versions[proposal[x].slot]
        BY <2>3, <3>2, <1>5 DEF Inductive, Provenance
      <4>2. proposal[x].slot \in Slots
        BY <2>3, <3>2, <1>5 DEF Inductive, TypeOK
      <4> QED
        BY <4>1, <4>2, <1>3, <1>4, <1>5
    <3> QED
      BY <3>1, <3>2
  <2> QED
    BY <2>2, <2>3 DEF Provenance
<1>10. SightsMatch'
  <2>1. \A s \in Slots : versions[s] \subseteq versions'[s]
    BY <1>3, <1>4
  <2>2. \A q \in Principals, s \in Slots : ScopeOf(s) \in live' =>
           Faithful(seen'[q][s], versions'[s])
    BY <2>1, <1>2, FaithfulExtend DEF Inductive, SightsMatch
  <2>3. ASSUME NEW x \in Proposals, Existing(x)'
        PROVE  /\ proposal'[x].expected = proposal'[x].basis.version
               /\ Faithful(proposal'[x].basis, versions'[proposal'[x].slot])
    <3>1. Existing(x) /\ proposal[x].slot \in Slots
      BY <2>3, <1>5 DEF Inductive, TypeOK, Existing
    <3> QED
      BY <3>1, <2>1, <1>5, FaithfulExtend DEF Inductive, SightsMatch
  <2> QED
    BY <2>2, <2>3 DEF SightsMatch
<1> QED
  BY <1>7, <1>8, <1>9, <1>10 DEF Inductive

-----------------------------------------------------------------------------
\* Erasing all the rows of some slots, with no scope or with those slots'
\* scope going too.
LEMMA EraseStep ==
  ASSUME Inductive, NEW slots \in SUBSET Slots, Erase(slots),
         UNCHANGED granted, live' \in SUBSET live,
         \A s \in Slots : ScopeOf(s) \in live \ live' => s \in slots
  PROVE  Inductive'
<1>1. \A x \in Proposals :
         \/ proposal'[x] = NoProposal("erased")
         \/ /\ proposal'[x] = proposal[x]
            /\ Existing(x) => proposal[x].slot \notin slots
  BY DEF Erase
<1>2. \A x \in Proposals : Existing(x)' =>
         /\ proposal'[x] = proposal[x] /\ Existing(x)
         /\ proposal[x].slot \in Slots \ slots
  BY <1>1 DEF Existing, NoProposal, Inductive, TypeOK
<1>3. \A s \in slots : record'[s] = NoRecord /\ versions'[s] = {}
  BY DEF Erase
<1>4. \A s \in Slots \ slots : record'[s] = record[s] /\ versions'[s] = versions[s]
  BY DEF Erase
<1>5. TypeOK'
  <2>1. /\ granted' \in [Principals -> [Scopes -> Role]]
        /\ live' \in SUBSET Scopes
    BY DEF Inductive, TypeOK
  <2>2. NoProposal("erased") \in ProposalRow
    BY DEF NoProposal, ProposalRow, NothingSeen, Sight, Status
  <2>3. proposal' \in [Proposals -> ProposalRow]
    <3> HIDE DEF NoProposal
    <3> QED
      BY <2>2 DEF Erase, Inductive, TypeOK
  <2>4. record' \in [Slots -> [version : Nat, from : Proposals \cup {None}]]
    <3>1. NoRecord \in [version : Nat, from : Proposals \cup {None}]
      BY DEF NoRecord
    <3> QED
      BY <3>1 DEF Erase, Inductive, TypeOK
  <2>5. versions' \in [Slots -> SUBSET VersionRow]
    BY DEF Erase, Inductive, TypeOK
  <2>6. seen' \in [Principals -> [Slots -> Sight]]
    <3>1. \A sight \in Sight : [sight EXCEPT !.fresh = FALSE] \in Sight
      BY DEF Sight
    <3> QED
      BY <3>1 DEF Erase, Inductive, TypeOK
  <2>7. \A x \in Proposals : Existing(x)' =>
           /\ proposal'[x].slot \in Slots /\ ScopeOf(proposal'[x].slot) \in live'
           /\ proposal'[x].proposer \in Principals
    BY <1>2 DEF Inductive, TypeOK, Existing
  <2>8. \A s \in Slots : ScopeOf(s) \notin live' =>
           record'[s] = NoRecord /\ versions'[s] = {}
    BY <1>3, <1>4 DEF Inductive, TypeOK
  <2> QED
    BY <2>1, <2>3, <2>4, <2>5, <2>6, <2>7, <2>8 DEF TypeOK, Existing
<1>6. HistoryComplete'
  <2>1. Complete(NoRecord, {})
    <3>1. {row.version : row \in {}} = 1..0
      BY 1..0 = {}
    <3> QED
      BY <3>1 DEF Complete, NoRecord
  <2> QED
    BY <2>1, <1>3, <1>4 DEF Inductive, HistoryComplete
<1>7. Provenance'
  <2>1. ASSUME NEW s \in Slots, NEW row \in versions'[s]
        PROVE  /\ s \notin slots /\ row \in versions[s]
               /\ row.from \in Proposals
               /\ proposal'[row.from] = proposal[row.from]
    <3>1. s \notin slots /\ row \in versions[s]
      BY <2>1, <1>3, <1>4
    <3>2. /\ row.from \in Proposals /\ proposal[row.from].slot = s
          /\ proposal[row.from].status = "accepted"
      BY <3>1 DEF Inductive, TypeOK, Provenance, VersionRow
    <3> QED
      BY <3>1, <3>2 DEF Erase
  <2>2. \A x \in Proposals : proposal'[x].status = "accepted" =>
           proposal'[x] = proposal[x] /\ proposal[x].slot \in Slots \ slots
    BY <1>2 DEF Existing
  <2> QED
    BY <2>1, <2>2, <1>4 DEF Inductive, Provenance
<1>8. SightsMatch'
  <2>1. ASSUME NEW q \in Principals, NEW s \in Slots, ScopeOf(s) \in live'
        PROVE  Faithful(seen'[q][s], versions'[s])
    <3>1. CASE s \in slots
      <4>1. seen'[q][s].fresh = FALSE
        BY <3>1 DEF Erase, Inductive, TypeOK, Sight
      <4> QED
        BY <4>1 DEF Faithful
    <3>2. CASE s \notin slots
      BY <2>1, <3>2, <1>4 DEF Erase, Inductive, SightsMatch
    <3> QED
      BY <3>1, <3>2
  <2>2. \A x \in Proposals : Existing(x)' =>
           /\ proposal'[x].expected = proposal'[x].basis.version
           /\ Faithful(proposal'[x].basis, versions'[proposal'[x].slot])
    BY <1>2, <1>4 DEF Inductive, SightsMatch
  <2> QED
    BY <2>1, <2>2 DEF SightsMatch
<1> QED
  BY <1>5, <1>6, <1>7, <1>8 DEF Inductive

LEMMA MemoryDeleteStep ==
  ASSUME Inductive, NEW p \in Principals, NEW slot \in Slots,
         MemoryDelete(p, slot)
  PROVE  Inductive'
BY EraseStep DEF MemoryDelete, Inductive, TypeOK

LEMMA ScopeDeleteStep ==
  ASSUME Inductive, NEW p \in Principals, NEW s \in Scopes, ScopeDelete(p, s)
  PROVE  Inductive'
<1> DEFINE slots == {slot \in Slots : ScopeOf(slot) = s}
<1>1. slots \in SUBSET Slots /\ Erase(slots) /\ UNCHANGED granted
      /\ live' \in SUBSET live
      /\ \A slot \in Slots : ScopeOf(slot) \in live \ live' => slot \in slots
  BY DEF ScopeDelete, Inductive, TypeOK
<1> QED
  BY <1>1, EraseStep

-----------------------------------------------------------------------------
\* A merge carries the rows of every slot of the source, as they are, to a
\* slot of the target that had none.
LEMMA ScopeMergeStep ==
  ASSUME Inductive, NEW p \in Principals, NEW source \in Scopes,
         NEW target \in Scopes, ScopeMerge(p, source, target)
  PROVE  Inductive'
<1> DEFINE Origin(s) == <<source, s[2]>>
           Dest(s) == IF ScopeOf(s) = source THEN <<target, s[2]>> ELSE s
<1>1. /\ source \in live /\ target \in live /\ source # target
      /\ Kind[source] = "department" /\ Kind[target] = "department"
      /\ live' = live \ {source} /\ UNCHANGED <<granted, seen>>
  BY DEF ScopeMerge, MayMergeScopes
<1>2. /\ \A s \in Slots : Origin(s) \in Slots /\ Dest(s) \in Slots
      /\ \A s \in Slots : ScopeOf(Origin(s)) = source /\ Origin(s)[2] = s[2]
      /\ \A s \in Slots : ScopeOf(s) = source =>
            s = Origin(s) /\ ScopeOf(Dest(s)) = target /\ Dest(s)[2] = s[2]
                /\ Origin(Dest(s)) = s
      /\ \A s \in Slots : ScopeOf(s) = target => Dest(Origin(s)) = s
      /\ \A s \in Slots : ScopeOf(s) \in Scopes /\ s[2] \in Keys
  BY <1>1 DEF Slots, ScopeOf
<1>3. \A s \in Slots : ScopeOf(s) = target => ~(HasRows(Origin(s)) /\ HasRows(s))
  <2> SUFFICES ASSUME NEW s \in Slots, ScopeOf(s) = target
               PROVE  ~(HasRows(Origin(s)) /\ HasRows(s))
    OBVIOUS
  <2>1. s = <<target, s[2]>> /\ s[2] \in Keys
    BY DEF Slots, ScopeOf
  <2> QED
    BY <2>1 DEF ScopeMerge, MayMergeScopes, NoCollision
<1>4. \A s \in Slots : ScopeOf(s) = source => record'[s] = NoRecord /\ versions'[s] = {}
  BY DEF ScopeMerge, MayMergeScopes
<1>5. \A s \in Slots : ScopeOf(s) = target /\ HasRows(Origin(s)) =>
         record'[s] = record[Origin(s)] /\ versions'[s] = versions[Origin(s)]
  BY <1>1 DEF ScopeMerge, MayMergeScopes
<1>6. \A s \in Slots :
         ScopeOf(s) # source /\ ~(ScopeOf(s) = target /\ HasRows(Origin(s))) =>
            record'[s] = record[s] /\ versions'[s] = versions[s]
  BY DEF ScopeMerge, MayMergeScopes
<1>7. \A x \in Proposals :
         IF Existing(x) /\ ScopeOf(proposal[x].slot) = source
         THEN proposal'[x] = [proposal[x] EXCEPT !.slot = <<target, @[2]>>]
         ELSE proposal'[x] = proposal[x]
  BY DEF ScopeMerge, MayMergeScopes
<1>8. \A x \in Proposals :
         /\ proposal'[x].expected = proposal[x].expected
         /\ proposal'[x].proposer = proposal[x].proposer
         /\ proposal'[x].reviewer = proposal[x].reviewer
         /\ proposal'[x].status = proposal[x].status
         /\ proposal'[x].quarantined = proposal[x].quarantined
         /\ proposal'[x].basis = proposal[x].basis
         /\ Existing(x)' <=> Existing(x)
         /\ Existing(x) => proposal'[x].slot = Dest(proposal[x].slot)
  <2> TAKE x \in Proposals
  <2>1. proposal[x] \in ProposalRow
    BY DEF Inductive, TypeOK
  <2>2. ASSUME Existing(x) /\ ScopeOf(proposal[x].slot) = source
        PROVE  /\ proposal'[x].expected = proposal[x].expected
               /\ proposal'[x].proposer = proposal[x].proposer
               /\ proposal'[x].reviewer = proposal[x].reviewer
               /\ proposal'[x].status = proposal[x].status
               /\ proposal'[x].quarantined = proposal[x].quarantined
               /\ proposal'[x].basis = proposal[x].basis
               /\ proposal'[x].slot = <<target, proposal[x].slot[2]>>
    <3>1. proposal'[x] = [proposal[x] EXCEPT !.slot = <<target, @[2]>>]
      BY <1>7, <2>2
    <3> QED
      BY <2>1, <3>1 DEF ProposalRow
  <2>3. CASE Existing(x) /\ ScopeOf(proposal[x].slot) = source
    BY <2>2, <2>3 DEF Existing
  <2>4. CASE ~(Existing(x) /\ ScopeOf(proposal[x].slot) = source)
    <3>1. proposal'[x] = proposal[x]
      BY <1>7, <2>4
    <3> QED
      BY <2>4, <3>1 DEF Existing
  <2> QED
    BY <2>3, <2>4
<1> HIDE DEF Origin, Dest
\* The rows of a slot that has some are found, unchanged, at its destination.
<1>9. ASSUME NEW s \in Slots, HasRows(s)
      PROVE  /\ Dest(s) \in Slots
             /\ record'[Dest(s)] = record[s] /\ versions'[Dest(s)] = versions[s]
  <2>1. CASE ScopeOf(s) = source
    BY <2>1, <1>9, <1>2, <1>5
  <2>2. CASE ScopeOf(s) # source
    <3>1. Dest(s) = s
      BY <2>2 DEF Dest
    <3> QED
      BY <3>1, <2>2, <1>9, <1>3, <1>6
  <2> QED
    BY <2>1, <2>2
\* Conversely, what a slot holds afterwards came from one slot.
<1>10. ASSUME NEW s \in Slots
       PROVE  \/ record'[s] = NoRecord /\ versions'[s] = {}
              \/ \E q \in Slots : /\ Dest(q) = s
                                  /\ record'[s] = record[q] /\ versions'[s] = versions[q]
  <2>1. CASE ScopeOf(s) = source
    BY <2>1, <1>4
  <2>2. CASE ScopeOf(s) = target /\ HasRows(Origin(s))
    BY <2>2, <1>2, <1>5
  <2>3. CASE ScopeOf(s) # source /\ ~(ScopeOf(s) = target /\ HasRows(Origin(s)))
    <3>1. Dest(s) = s
      BY <2>3 DEF Dest
    <3> QED
      BY <3>1, <2>3, <1>6
  <2> QED
    BY <2>1, <2>2, <2>3
<1>11. \A x \in Proposals : Existing(x) =>
          proposal[x].slot \in Slots /\ HasRows(proposal[x].slot)
  BY DEF HasRows, Existing, Inductive, TypeOK
<1>12. TypeOK'
  <2>1. /\ granted' \in [Principals -> [Scopes -> Role]]
        /\ live' \in SUBSET Scopes
        /\ seen' \in [Principals -> [Slots -> Sight]]
    BY <1>1 DEF Inductive, TypeOK
  <2>2. proposal' \in [Proposals -> ProposalRow]
    <3>1. \A x \in Proposals : proposal'[x] \in ProposalRow
      <4> SUFFICES ASSUME NEW x \in Proposals PROVE proposal'[x] \in ProposalRow
        OBVIOUS
      <4>1. proposal[x] \in ProposalRow
        BY DEF Inductive, TypeOK
      <4>2. CASE Existing(x) /\ ScopeOf(proposal[x].slot) = source
        <5>1. <<target, proposal[x].slot[2]>> \in Slots
          BY <4>2, <1>2, <1>11 DEF Dest
        <5> QED
          BY <4>1, <4>2, <5>1, <1>7 DEF ProposalRow
      <4> QED
        BY <4>1, <4>2, <1>7
    <3> QED
      BY <3>1 DEF ScopeMerge, MayMergeScopes
  <2>3. \A s \in Slots : /\ record'[s] \in [version : Nat, from : Proposals \cup {None}]
                         /\ versions'[s] \in SUBSET VersionRow
    <3>1. NoRecord \in [version : Nat, from : Proposals \cup {None}]
      BY DEF NoRecord
    <3> QED
      BY <3>1, <1>10 DEF Inductive, TypeOK
  <2>4. /\ record' \in [Slots -> [version : Nat, from : Proposals \cup {None}]]
        /\ versions' \in [Slots -> SUBSET VersionRow]
    BY <2>3 DEF ScopeMerge, MayMergeScopes
  <2>5. \A x \in Proposals : Existing(x)' =>
           /\ proposal'[x].slot \in Slots /\ ScopeOf(proposal'[x].slot) \in live'
           /\ proposal'[x].proposer \in Principals
    <3> SUFFICES ASSUME NEW x \in Proposals, Existing(x)
                 PROVE  /\ proposal'[x].slot \in Slots
                        /\ ScopeOf(proposal'[x].slot) \in live'
                        /\ proposal'[x].proposer \in Principals
      BY <1>8
    <3>1. /\ proposal[x].slot \in Slots /\ ScopeOf(proposal[x].slot) \in live
          /\ proposal[x].proposer \in Principals
      BY DEF Inductive, TypeOK, Existing
    <3>2. CASE ScopeOf(proposal[x].slot) = source
      BY <3>1, <3>2, <1>1, <1>2, <1>8
    <3>3. CASE ScopeOf(proposal[x].slot) # source
      BY <3>1, <3>3, <1>1, <1>8 DEF Dest
    <3> QED
      BY <3>2, <3>3
  <2>6. \A s \in Slots : ScopeOf(s) \notin live' =>
           record'[s] = NoRecord /\ versions'[s] = {}
    <3> SUFFICES ASSUME NEW s \in Slots, ScopeOf(s) \notin live'
                 PROVE  record'[s] = NoRecord /\ versions'[s] = {}
      OBVIOUS
    <3>1. CASE ScopeOf(s) = source
      BY <3>1, <1>4
    <3>2. CASE ScopeOf(s) # source
      BY <3>2, <1>1, <1>6 DEF Inductive, TypeOK
    <3> QED
      BY <3>1, <3>2
  <2> QED
    BY <2>1, <2>2, <2>4, <2>5, <2>6 DEF TypeOK, Existing
<1>13. HistoryComplete'
  <2>1. Complete(NoRecord, {})
    <3>1. {row.version : row \in {}} = 1..0
      BY 1..0 = {}
    <3> QED
      BY <3>1 DEF Complete, NoRecord
  <2> QED
    BY <2>1, <1>10 DEF Inductive, HistoryComplete
<1>14. Provenance'
  <2>1. ASSUME NEW s \in Slots, NEW row \in versions'[s]
        PROVE  LET x == proposal'[row.from]
               IN  /\ x.status = "accepted" /\ x.slot = s
                   /\ x.expected = row.version - 1 /\ ~x.quarantined
                   /\ x.reviewer # x.proposer \/ Kind[ScopeOf(s)] = "personal"
    <3>1. PICK q \in Slots : Dest(q) = s /\ versions'[s] = versions[q]
      BY <2>1, <1>10
    <3>2. /\ row.from \in Proposals
          /\ LET x == proposal[row.from]
             IN  /\ x.status = "accepted" /\ x.slot = q
                 /\ x.expected = row.version - 1 /\ ~x.quarantined
                 /\ x.reviewer # x.proposer \/ Kind[ScopeOf(q)] = "personal"
      BY <2>1, <3>1 DEF Inductive, TypeOK, Provenance, VersionRow
    <3>3. Existing(row.from)
      BY <3>2 DEF Existing
    <3>4. ScopeOf(q) = source \/ ScopeOf(s) = ScopeOf(q)
      BY <3>1 DEF Dest
    <3> QED
      BY <3>1, <3>2, <3>3, <3>4, <1>1, <1>8
  <2>2. ASSUME NEW x \in Proposals, proposal'[x].status = "accepted"
        PROVE  [version |-> proposal'[x].expected + 1, from |-> x]
                  \in versions'[proposal'[x].slot]
    <3>1. Existing(x) /\ proposal[x].status = "accepted"
      BY <2>2, <1>8 DEF Existing
    <3>2. [version |-> proposal[x].expected + 1, from |-> x]
             \in versions[proposal[x].slot]
      BY <3>1 DEF Inductive, Provenance
    <3>3. versions'[Dest(proposal[x].slot)] = versions[proposal[x].slot]
      BY <3>1, <1>9, <1>11
    <3> QED
      BY <3>1, <3>2, <3>3, <1>8
  <2> QED
    BY <2>1, <2>2 DEF Provenance
<1>15. SightsMatch'
  <2>1. ASSUME NEW q \in Principals, NEW s \in Slots, ScopeOf(s) \in live'
        PROVE  Faithful(seen'[q][s], versions'[s])
    <3>1. Faithful(seen[q][s], versions[s]) /\ seen'[q][s] = seen[q][s]
      BY <2>1, <1>1 DEF Inductive, SightsMatch
    <3>2. CASE ScopeOf(s) = target /\ HasRows(Origin(s))
      <4>1. versions[s] = {}
        BY <3>2, <1>3 DEF HasRows
      <4> QED
        BY <3>1, <4>1, FaithfulExtend
    <3>3. CASE ~(ScopeOf(s) = target /\ HasRows(Origin(s)))
      <4>1. ScopeOf(s) # source
        BY <2>1, <1>1
      <4>2. versions'[s] = versions[s]
        BY <3>3, <4>1, <1>6
      <4> QED
        BY <3>1, <4>2
    <3> QED
      BY <3>2, <3>3
  <2>2. ASSUME NEW x \in Proposals, Existing(x)'
        PROVE  /\ proposal'[x].expected = proposal'[x].basis.version
               /\ Faithful(proposal'[x].basis, versions'[proposal'[x].slot])
    <3>1. Existing(x)
      BY <2>2, <1>8
    <3>2. versions'[Dest(proposal[x].slot)] = versions[proposal[x].slot]
      BY <3>1, <1>9, <1>11
    <3> QED
      BY <3>1, <3>2, <1>8 DEF Inductive, SightsMatch
  <2> QED
    BY <2>1, <2>2 DEF SightsMatch
<1> QED
  BY <1>12, <1>13, <1>14, <1>15 DEF Inductive

-----------------------------------------------------------------------------
\* Every step keeps the invariant.
LEMMA NextInductive == Inductive /\ [Next]_vars => Inductive'
<1> SUFFICES ASSUME Inductive, [Next]_vars PROVE Inductive'
  OBVIOUS
<1>1. ASSUME NEW p \in Principals, NEW s \in Scopes, NEW role \in GrantedRoles,
             Regrant(p, s, role)
      PROVE  Inductive'
  <2>1. granted' \in [Principals -> [Scopes -> Role]]
    BY <1>1, OrganisationAssumption DEF Regrant, ChangeRole, Inductive, TypeOK
  <2> QED
    BY <1>1, <2>1, RegrantStep DEF Regrant, ChangeRole
<1>2. CASE UNCHANGED vars
  BY <1>2, RegrantStep DEF vars, Inductive, TypeOK
<1> QED
  BY <1>1, <1>2, SearchStep, ProposeStep, TurnDownStep, AcceptStep,
     MemoryDeleteStep, ScopeDeleteStep, ScopeMergeStep DEF Next

THEOREM InvariantHolds == Spec => []Inductive
<1> QED
  BY InitInductive, NextInductive, PTL DEF Spec

\* Every variable keeps its type, and no row outlives its scope.
THEOREM TypeCorrect == Spec => []TypeOK
<1>1. Inductive => TypeOK
  BY DEF Inductive
<1> QED
  BY <1>1, InvariantHolds, PTL

\* Record and history tables agree whatever is proposed, reviewed, deleted or
\* merged, in any order.
THEOREM HistoryAlwaysComplete == Spec => []HistoryComplete
<1>1. Inductive => HistoryComplete
  BY DEF Inductive
<1> QED
  BY <1>1, InvariantHolds, PTL

\* Nothing reaches a history but through an independent review of a proposal
\* for that place and version, and no accepted proposal is lost.
THEOREM ProvenanceHolds == Spec => []Provenance
<1>1. Inductive => Provenance
  BY DEF Inductive
<1> QED
  BY <1>1, InvariantHolds, PTL

\* An accepted proposal replaced what its proposer had read, unless the key
\* was deleted after the reading.
THEOREM NoLostUpdates == Spec => []NoLostUpdate
<1>1. Inductive => NoLostUpdate
  <2> SUFFICES ASSUME Inductive, NEW slot \in Slots, NEW row \in versions[slot],
                      proposal[row.from].basis.fresh
               PROVE  Replaced(slot, row) = proposal[row.from].basis.from
    BY DEF NoLostUpdate
  <2> DEFINE basis == proposal[row.from].basis
             before == [version |-> basis.version, from |-> basis.from]
  <2>1. /\ row.from \in Proposals /\ Existing(row.from)
        /\ proposal[row.from].slot = slot
        /\ row.version = basis.version + 1
        /\ basis \in Sight
    BY DEF Inductive, TypeOK, Provenance, SightsMatch, Existing, VersionRow,
       ProposalRow, Sight
  <2>2. Faithful(basis, versions[slot])
    BY <2>1 DEF Inductive, SightsMatch
  <2>3. CASE basis.version = 0
    BY <2>1, <2>2, <2>3 DEF Faithful, Replaced
  <2>4. CASE basis.version # 0
    <3>1. before \in versions[slot] /\ before.version = row.version - 1
      BY <2>1, <2>2, <2>4 DEF Faithful, Sight
    <3>2. \A other \in versions[slot] : other.version = row.version - 1 => other = before
      BY <3>1 DEF Inductive, HistoryComplete, Complete
    <3>3. RowAt(slot, row.version - 1) = before
      BY <3>1, <3>2 DEF RowAt
    <3>4. row.version # 1
      BY <2>1, <2>4 DEF Sight
    <3> QED
      BY <3>3, <3>4 DEF Replaced
  <2> QED
    BY <2>3, <2>4
<1> QED
  BY <1>1, InvariantHolds, PTL

\* What a proposal was decided stays decided.
LEMMA DecidedStep ==
  ASSUME Inductive, [Next]_vars, NEW r \in Proposals,
         proposal[r].status \in Verdicts
  PROVE  VerdictStays(r)
<1> USE DEF Inductive, TypeOK, Verdicts, VerdictStays
<1>1. ASSUME NEW p \in Principals, NEW slot \in Slots, NEW x \in Proposals,
             NEW q \in BOOLEAN, Propose(p, slot, x, q)
      PROVE  proposal'[r] = proposal[r]
  BY <1>1 DEF Propose
<1>2. ASSUME NEW p \in Principals, NEW x \in Proposals,
             Reject(p, x) \/ Conflict(p, x) \/ Accept(p, x)
      PROVE  proposal'[r] = proposal[r]
  BY <1>2 DEF Reject, Conflict, Accept, Reviewable, Decide
<1>3. ASSUME NEW slots, Erase(slots)
      PROVE  proposal'[r] = proposal[r] \/ proposal'[r].status = "erased"
  BY <1>3 DEF Erase, NoProposal
<1>4. ASSUME NEW p \in Principals, NEW s \in Scopes, NEW t \in Scopes,
             ScopeMerge(p, s, t)
      PROVE  /\ proposal'[r].status = proposal[r].status
             /\ proposal'[r].reviewer = proposal[r].reviewer
  BY <1>4 DEF ScopeMerge, MayMergeScopes, ProposalRow
<1>5. ASSUME NEW p \in Principals, NEW slot \in Slots, MemoryDelete(p, slot)
      PROVE  proposal'[r] = proposal[r] \/ proposal'[r].status = "erased"
  BY <1>3, <1>5 DEF MemoryDelete
<1>6. ASSUME NEW p \in Principals, NEW s \in Scopes, ScopeDelete(p, s)
      PROVE  proposal'[r] = proposal[r] \/ proposal'[r].status = "erased"
  BY <1>3, <1>6 DEF ScopeDelete
<1>7. ASSUME NEW p \in Principals \ {OrgAdmin}, NEW s \in Scopes,
             NEW role \in GrantedRoles, Regrant(p, s, role)
      PROVE  proposal'[r] = proposal[r]
  BY <1>7 DEF Regrant, ChangeRole
<1>8. ASSUME NEW p \in Principals, NEW slot \in Slots, Search(p, slot)
      PROVE  proposal'[r] = proposal[r]
  BY <1>8 DEF Search
<1>9. CASE UNCHANGED vars
  BY <1>9 DEF vars
<1>10. CASE Next
  <2> HIDE DEF Inductive, TypeOK
  <2> QED
    BY <1>1, <1>2, <1>4, <1>5, <1>6, <1>7, <1>8, <1>10 DEF Next
<1> QED
  BY <1>9, <1>10

\* A verdict falls in a review, by one who may review at that moment.
LEMMA EntitledStep ==
  ASSUME Inductive, [Next]_vars, NEW r \in Proposals,
         proposal[r].status \notin Verdicts, proposal'[r].status \in Verdicts
  PROVE  VerdictEntitled(r)
<1> USE DEF Inductive, TypeOK, Verdicts
<1>1. ASSUME NEW p \in Principals, NEW slot \in Slots, NEW x \in Proposals,
             NEW q \in BOOLEAN, Propose(p, slot, x, q)
      PROVE  FALSE
  BY <1>1 DEF Propose
<1>2. ASSUME NEW p \in Principals, NEW x \in Proposals,
             Reject(p, x) \/ Conflict(p, x) \/ Accept(p, x)
      PROVE  VerdictEntitled(r)
  <2>1. Reviewable(p, x) /\ x = r /\ proposal'[r].reviewer = p
    BY <1>2 DEF Reject, Conflict, Accept, Decide, ProposalRow
  <2> QED
    BY <2>1 DEF Reviewable, VerdictEntitled
<1>3. ASSUME NEW slots, Erase(slots)
      PROVE  FALSE
  BY <1>3 DEF Erase, NoProposal
<1>4. ASSUME NEW p \in Principals, NEW s \in Scopes, NEW t \in Scopes,
             ScopeMerge(p, s, t)
      PROVE  FALSE
  BY <1>4 DEF ScopeMerge, MayMergeScopes, ProposalRow
<1>5. ASSUME NEW p \in Principals, NEW slot \in Slots, MemoryDelete(p, slot)
      PROVE  FALSE
  BY <1>3, <1>5 DEF MemoryDelete
<1>6. ASSUME NEW p \in Principals, NEW s \in Scopes, ScopeDelete(p, s)
      PROVE  FALSE
  BY <1>3, <1>6 DEF ScopeDelete
<1>7. ASSUME UNCHANGED proposal
      PROVE  FALSE
  BY <1>7
<1>8. CASE UNCHANGED vars
  BY <1>7, <1>8 DEF vars
<1>9. CASE Next
  <2>1. ASSUME NEW p \in Principals \ {OrgAdmin}, NEW s \in Scopes,
               NEW role \in GrantedRoles, Regrant(p, s, role)
        PROVE  FALSE
    BY <1>7, <2>1 DEF Regrant
  <2>2. ASSUME NEW p \in Principals, NEW slot \in Slots, Search(p, slot)
        PROVE  FALSE
    BY <1>7, <2>2 DEF Search
  <2> HIDE DEF Inductive, TypeOK
  <2> QED
    BY <1>1, <1>2, <1>4, <1>5, <1>6, <1>9, <2>1, <2>2 DEF Next
<1> QED
  BY <1>8, <1>9

\* A verdict is final, whoever reviews afterwards, and falls by a reviewer who is
\* entitled in that step.
THEOREM VerdictsAreFinal == Spec => DecisionsFinal
<1>1. Inductive /\ [Next]_vars =>
        [\A r \in Proposals :
            IF proposal[r].status \in Verdicts THEN VerdictStays(r)
            ELSE proposal'[r].status \in Verdicts => VerdictEntitled(r)]_vars
  BY DecidedStep, EntitledStep
<1> QED
  BY <1>1, InvariantHolds, PTL DEF Spec, DecisionsFinal

\* What a step does to the history of one slot.
LEMMA HistoryStep ==
  ASSUME Inductive, [Next]_vars, NEW slot \in Slots
  PROVE  \/ versions[slot] \subseteq versions'[slot]
         \/ versions'[slot] = {} /\ record'[slot] = NoRecord
<1> USE DEF Inductive, TypeOK
<1>1. ASSUME NEW p \in Principals, NEW x \in Proposals, Accept(p, x)
      PROVE  versions[slot] \subseteq versions'[slot]
  BY <1>1 DEF Accept
<1>2. ASSUME NEW slots, Erase(slots)
      PROVE  \/ versions[slot] \subseteq versions'[slot]
             \/ versions'[slot] = {} /\ record'[slot] = NoRecord
  BY <1>2 DEF Erase
<1>3. ASSUME NEW p \in Principals, NEW s \in Scopes, NEW t \in Scopes,
             ScopeMerge(p, s, t)
      PROVE  \/ versions[slot] \subseteq versions'[slot]
             \/ versions'[slot] = {} /\ record'[slot] = NoRecord
  <2>1. CASE ScopeOf(slot) = t /\ HasRows(<<s, slot[2]>>)
    <3>1. slot = <<t, slot[2]>> /\ slot[2] \in Keys
      BY <2>1 DEF Slots, ScopeOf
    <3>2. versions[slot] = {}
      BY <2>1, <3>1, <1>3 DEF ScopeMerge, MayMergeScopes, NoCollision, HasRows
    <3> QED
      BY <3>2
  <2>2. CASE ~(ScopeOf(slot) = t /\ HasRows(<<s, slot[2]>>))
    <3>1. versions'[slot] = (IF ScopeOf(slot) = s THEN {} ELSE versions[slot])
      BY <2>2, <1>3 DEF ScopeMerge, MayMergeScopes
    <3>2. ScopeOf(slot) = s => record'[slot] = NoRecord
      BY <1>3 DEF ScopeMerge, MayMergeScopes
    <3> QED
      BY <3>1, <3>2
  <2> QED
    BY <2>1, <2>2
<1>4. CASE UNCHANGED versions
  BY <1>4
<1> QED
  BY <1>1, <1>2, <1>3, <1>4
     DEF Next, vars, Regrant, ChangeRole, Search, Propose, Reject, Conflict, MemoryDelete,
         ScopeDelete

\* History is only ever added to, or erased with its canonical record.
THEOREM HistoryIsKept == Spec => HistoryKept
<1>1. Inductive /\ [Next]_vars =>
        [\A slot \in Slots :
           \/ versions[slot] \subseteq versions'[slot]
           \/ versions'[slot] = {} /\ record'[slot] = NoRecord]_vars
  BY HistoryStep
<1> QED
  BY <1>1, InvariantHolds, PTL DEF Spec, HistoryKept
-----------------------------------------------------------------------------
(* The memory implements VersionedStore.                                   *)

\* The log of a slot as a function of its canonical row and its history rows.
LogOf(rec, rows) ==
    [n \in 1..rec.version |-> (CHOOSE row \in rows : row.version = n).from]

RecordRow == [version : Nat, from : Proposals \cup {None}]

LEMMA LogRows ==
  /\ \A slot \in Slots : Log[slot] = LogOf(record[slot], versions[slot])
  /\ \A slot \in Slots : Log'[slot] = LogOf(record'[slot], versions'[slot])
  /\ Log = [slot \in Slots |-> Log[slot]]
  /\ Log' = [slot \in Slots |-> Log'[slot]]
<1>1. \A slot \in Slots : Log[slot] = LogOf(record[slot], versions[slot])
  BY Zenon DEF Log, LogOf, RowAt
<1>2. \A slot \in Slots : Log'[slot] = LogOf(record'[slot], versions'[slot])
  BY Zenon DEF Log, LogOf, RowAt
<1>3. Log = [slot \in Slots |-> Log[slot]]
  BY DEF Log
<1>4. Log' = [slot \in Slots |-> Log'[slot]]
  BY DEF Log
<1> QED
  BY <1>1, <1>2, <1>3, <1>4

\* A complete history is a sequence, as long as the version says, and each row
\* is found at its position.
LEMMA LogOfComplete ==
  ASSUME NEW rec \in RecordRow, NEW rows \in SUBSET VersionRow, Complete(rec, rows)
  PROVE  /\ LogOf(rec, rows) \in Seq(Proposals)
         /\ Len(LogOf(rec, rows)) = rec.version
         /\ \A row \in rows : /\ row.version \in 1..rec.version
                              /\ LogOf(rec, rows)[row.version] = row.from
         /\ \A n \in 1..rec.version : \E row \in rows : row.version = n
<1> DEFINE found(n) == CHOOSE row \in rows : row.version = n
<1>1. \A n \in 1..rec.version : \E row \in rows : row.version = n
  BY DEF Complete
<1>2. \A n \in 1..rec.version : found(n) \in rows /\ found(n).version = n
  BY <1>1
<1>3. \A row \in rows : row.version \in 1..rec.version /\ found(row.version) = row
  <2> SUFFICES ASSUME NEW row \in rows
               PROVE  row.version \in 1..rec.version /\ found(row.version) = row
    OBVIOUS
  <2>1. row.version \in 1..rec.version
    BY DEF Complete
  <2> HIDE DEF found
  <2> QED
    BY <2>1, <1>2 DEF Complete
<1>4. LogOf(rec, rows) = [n \in 1..rec.version |-> found(n).from]
  BY DEF LogOf
<1> HIDE DEF found
<1>5. rec.version \in Nat /\ \A n \in 1..rec.version : found(n).from \in Proposals
  BY <1>2 DEF RecordRow, VersionRow
<1>6. LogOf(rec, rows) \in [1..rec.version -> Proposals]
  BY <1>4, <1>5
<1>7. LogOf(rec, rows) \in Seq(Proposals) /\ Len(LogOf(rec, rows)) = rec.version
  BY <1>5, <1>6
<1>8. \A row \in rows : LogOf(rec, rows)[row.version] = row.from
  BY <1>3, <1>4
<1> QED
  BY <1>1, <1>3, <1>7, <1>8

LEMMA LogOfNothing ==
  ASSUME NEW rec, NEW rows, rec.version = 0
  PROVE  LogOf(rec, rows) = <<>>
<1>1. LogOf(rec, rows) \in [1..0 -> {}]
  BY DEF LogOf
<1>2. LogOf(rec, rows) \in Seq({}) /\ Len(LogOf(rec, rows)) = 0
  BY <1>1
<1> QED
  BY <1>2, EmptySeq

\* The next version is appended to the log.
LEMMA LogOfExtend ==
  ASSUME NEW rec \in RecordRow, NEW rows \in SUBSET VersionRow, Complete(rec, rows),
         NEW row \in VersionRow, row.version = rec.version + 1
  PROVE  LogOf(row, rows \cup {row}) = Append(LogOf(rec, rows), row.from)
<1> DEFINE old == LogOf(rec, rows)
           new == LogOf(row, rows \cup {row})
<1>1. row \in RecordRow /\ rows \cup {row} \in SUBSET VersionRow
      /\ Complete(row, rows \cup {row}) /\ row.from \in Proposals
  BY CompleteExtend DEF RecordRow, VersionRow
<1>2. /\ old \in Seq(Proposals) /\ Len(old) = rec.version
      /\ \A x \in rows : old[x.version] = x.from
      /\ \A n \in 1..rec.version : \E x \in rows : x.version = n
  BY LogOfComplete
<1>3. /\ new \in Seq(Proposals) /\ Len(new) = rec.version + 1
      /\ \A x \in rows \cup {row} : new[x.version] = x.from
  BY <1>1, LogOfComplete
<1> HIDE DEF old, new
<1>4. Append(old, row.from) \in Seq(Proposals)
      /\ Len(Append(old, row.from)) = rec.version + 1
      /\ \A n \in 1..rec.version : Append(old, row.from)[n] = old[n]
      /\ Append(old, row.from)[rec.version + 1] = row.from
  BY <1>1, <1>2, AppendProperties DEF RecordRow
<1>5. ASSUME NEW n \in 1..(rec.version + 1)
      PROVE  new[n] = Append(old, row.from)[n]
  <2>1. CASE n \in 1..rec.version
    <3>1. PICK x \in rows : x.version = n
      BY <1>2, <2>1
    <3> QED
      BY <3>1, <2>1, <1>2, <1>3, <1>4
  <2>2. CASE n = rec.version + 1
    BY <2>2, <1>3, <1>4
  <2>3. n \in 1..rec.version \/ n = rec.version + 1
    BY DEF RecordRow
  <2> QED
    BY <2>1, <2>2, <2>3, Zenon
<1>6. new = Append(old, row.from)
  BY <1>3, <1>4, <1>5, SeqEqual
<1> QED
  BY <1>6 DEF old, new

\* What the invariant says of the log of a slot.
LEMMA LogOfRows ==
  ASSUME Inductive, NEW slot \in Slots
  PROVE  /\ Log[slot] = LogOf(record[slot], versions[slot])
         /\ Log[slot] \in Seq(Proposals)
         /\ ~HasRows(slot) => Log[slot] = <<>>
<1>1. record[slot] \in RecordRow /\ versions[slot] \in SUBSET VersionRow
      /\ Complete(record[slot], versions[slot])
  BY DEF Inductive, TypeOK, HistoryComplete, RecordRow
<1>2. Log[slot] = LogOf(record[slot], versions[slot])
  BY LogRows
<1>3. ~HasRows(slot) => record[slot].version = 0
  BY <1>1 DEF HasRows, RecordRow
<1> QED
  BY <1>1, <1>2, <1>3, LogOfComplete, LogOfNothing

\* The log of a slot whose rows are those another slot had is that slot's log.
LEMMA LogFollowsRows ==
  ASSUME NEW slot \in Slots, NEW other \in Slots,
         record'[slot] = record[other], versions'[slot] = versions[other]
  PROVE  Log'[slot] = Log[other]
BY LogRows

LEMMA LogErased ==
  ASSUME NEW slot \in Slots, record'[slot] = NoRecord
  PROVE  Log'[slot] = <<>>
BY LogRows, LogOfNothing DEF NoRecord

-----------------------------------------------------------------------------
\* What has been spent: everything that is neither unused nor pending.
LEMMA SpentGrows ==
  ASSUME NEW es \in SUBSET Proposals,
         \A x \in Proposals : x \notin es =>
            (proposal'[x].status \in {"unused", "pending"} <=>
                proposal[x].status \in {"unused", "pending"}),
         \A x \in es : proposal'[x].status \notin {"unused", "pending"}
  PROVE  Spent' = Spent \cup es
BY DEF Spent

\* Steps that leave the records and their histories alone, and decide nothing.
LEMMA OthersRefine ==
  ASSUME UNCHANGED <<record, versions>>, Spent' = Spent
  PROVE  UNCHANGED Store!storeVars
<1>1. Log' = Log
  BY DEF Log, RowAt
<1> QED
  BY <1>1 DEF Store!storeVars

LEMMA ProposeRefines ==
  ASSUME Inductive, NEW p \in Principals, NEW slot \in Slots,
         NEW r \in Proposals, NEW q \in BOOLEAN, Propose(p, slot, r, q)
  PROVE  UNCHANGED Store!storeVars
<1>1. \A x \in Proposals : x # r => proposal'[x] = proposal[x]
  BY DEF Propose, Inductive, TypeOK
<1>2. proposal[r].status = "unused" /\ proposal'[r].status = "pending"
  BY DEF Propose, Inductive, TypeOK
<1>3. Spent' = Spent \cup {}
  BY <1>1, <1>2, SpentGrows
<1> QED
  BY <1>3, OthersRefine DEF Propose

\* A proposal that is turned down is a discarded entry.
LEMMA TurnDownRefines ==
  ASSUME Inductive, NEW p \in Principals, NEW r \in Proposals,
         Reject(p, r) \/ Conflict(p, r)
  PROVE  Store!Discard(r)
<1>1. PICK st \in {"rejected", "conflict"} : Decide(r, st, p)
  BY DEF Reject, Conflict
<1>2. /\ proposal[r].status = "pending"
      /\ UNCHANGED <<record, versions>>
  BY DEF Reject, Conflict, Reviewable
<1>3. /\ proposal'[r].status = st
      /\ \A x \in Proposals : x # r => proposal'[x] = proposal[x]
  BY <1>1 DEF Decide, Inductive, TypeOK, ProposalRow
<1>4. Spent' = Spent \cup {r}
  BY <1>2, <1>3, SpentGrows
<1>5. Log' = Log
  BY <1>2 DEF Log, RowAt
<1> QED
  BY <1>2, <1>4, <1>5 DEF Store!Discard, Spent

\* An acceptance writes the proposal at the end of its slot's log.
LEMMA AcceptRefines ==
  ASSUME Inductive, NEW p \in Principals, NEW r \in Proposals, Accept(p, r)
  PROVE  proposal[r].slot \in Slots /\ Store!Write(proposal[r].slot, r)
<1> DEFINE slot == proposal[r].slot
           row == [version |-> record[slot].version + 1, from |-> r]
<1>1. /\ slot \in Slots /\ proposal[r].status = "pending"
      /\ record[slot] \in RecordRow /\ versions[slot] \in SUBSET VersionRow
      /\ Complete(record[slot], versions[slot])
  BY DEF Inductive, TypeOK, HistoryComplete, RecordRow, Accept, Reviewable, Existing
<1>2. row \in VersionRow /\ row.version = record[slot].version + 1 /\ row.from = r
  BY <1>1 DEF VersionRow, RecordRow
<1>3. record'[slot] = row /\ versions'[slot] = versions[slot] \cup {row}
  BY <1>1 DEF Accept, Inductive, TypeOK
<1>4. \A other \in Slots : other # slot => /\ record'[other] = record[other]
                                           /\ versions'[other] = versions[other]
  BY <1>1 DEF Accept, Inductive, TypeOK
<1>5. /\ proposal'[r].status = "accepted"
      /\ \A x \in Proposals : x # r => proposal'[x] = proposal[x]
  BY DEF Accept, Decide, Inductive, TypeOK, ProposalRow
<1>6. Spent' = Spent \cup {r}
  BY <1>1, <1>5, SpentGrows
<1> HIDE DEF row
<1>7. Log'[slot] = Append(Log[slot], r)
  <2>1. LogOf(row, versions[slot] \cup {row}) =
           Append(LogOf(record[slot], versions[slot]), row.from)
    BY <1>1, <1>2, LogOfExtend
  <2> QED
    BY <1>1, <1>2, <1>3, <2>1, LogRows
<1>8. \A other \in Slots : other # slot => Log'[other] = Log[other]
  BY <1>4, LogFollowsRows
<1> HIDE DEF slot
<1>9. Log' = [Log EXCEPT ![slot] = Append(@, r)]
  BY <1>1, <1>7, <1>8, LogRows
<1>10. r \notin Spent
  BY <1>1 DEF Spent, slot
<1> QED
  BY <1>1, <1>6, <1>9, <1>10 DEF Store!Write, slot

\* The deletion of the rows of some slots forgets their logs, and spends what
\* was proposed for them.
LEMMA EraseRefines ==
  ASSUME Inductive, NEW slots \in SUBSET Slots, Erase(slots)
  PROVE  \E es \in SUBSET Proposals : Store!Forget(slots, es)
<1> DEFINE es == {x \in Proposals : Existing(x) /\ proposal[x].slot \in slots}
<1>1. /\ \A x \in es : proposal'[x].status = "erased"
      /\ \A x \in Proposals : x \notin es => proposal'[x] = proposal[x]
  BY DEF Erase, NoProposal
<1>2. Spent' = Spent \cup es
  BY <1>1, SpentGrows
<1>3. ASSUME NEW slot \in Slots
      PROVE  Log'[slot] = IF slot \in slots THEN <<>> ELSE Log[slot]
  <2>1. CASE slot \in slots
    BY <2>1, LogErased DEF Erase
  <2>2. CASE slot \notin slots
    BY <2>2, LogFollowsRows DEF Erase
  <2> QED
    BY <2>1, <2>2
<1>4. Log' = [slot \in Slots |-> IF slot \in slots THEN <<>> ELSE Log[slot]]
  BY <1>3, LogRows
<1>5. Store!Forget(slots, es)
  BY <1>2, <1>4 DEF Store!Forget, Store!Places, Slots
<1> QED
  BY <1>5

\* A merge makes the logs of the source scope those of the target.
LEMMA MergeRefines ==
  ASSUME Inductive, NEW p \in Principals, NEW source \in Scopes,
         NEW target \in Scopes, ScopeMerge(p, source, target)
  PROVE  Store!Relocate(source, target)
<1> DEFINE Origin(s) == <<source, s[2]>>
<1>1. source # target
  BY DEF ScopeMerge, MayMergeScopes
<1>2. \A s \in Slots : Origin(s) \in Slots /\ s[2] \in Keys
  BY DEF Slots
<1>3. \A s \in Slots : ScopeOf(s) = target => ~(HasRows(Origin(s)) /\ HasRows(s))
  <2> SUFFICES ASSUME NEW s \in Slots, ScopeOf(s) = target
               PROVE  ~(HasRows(Origin(s)) /\ HasRows(s))
    OBVIOUS
  <2>1. s = <<target, s[2]>> /\ s[2] \in Keys
    BY DEF Slots, ScopeOf
  <2> QED
    BY <2>1 DEF ScopeMerge, NoCollision
<1>4. /\ \A s \in Slots : ScopeOf(s) = source => record'[s] = NoRecord
      /\ \A s \in Slots : ScopeOf(s) = target /\ HasRows(Origin(s)) =>
            record'[s] = record[Origin(s)] /\ versions'[s] = versions[Origin(s)]
      /\ \A s \in Slots :
            ScopeOf(s) # source /\ ~(ScopeOf(s) = target /\ HasRows(Origin(s))) =>
               record'[s] = record[s] /\ versions'[s] = versions[s]
  BY <1>1 DEF ScopeMerge
<1> HIDE DEF Origin
<1>5. \A s \in Slots : ScopeOf(s) = source => Log'[s] = <<>>
  BY <1>4, LogErased
<1>6. ASSUME NEW s \in Slots, ScopeOf(s) = target
      PROVE  Log'[s] = Log[Origin(s)] \o Log[s]
  <2>1. /\ Log[s] \in Seq(Proposals) /\ Log[Origin(s)] \in Seq(Proposals)
        /\ ~HasRows(s) => Log[s] = <<>>
        /\ ~HasRows(Origin(s)) => Log[Origin(s)] = <<>>
    BY <1>2, LogOfRows
  <2>2. CASE HasRows(Origin(s))
    <3>1. Log'[s] = Log[Origin(s)]
      BY <1>2, <1>4, <1>6, <2>2, LogFollowsRows
    <3>2. Log[s] = <<>>
      BY <1>3, <1>6, <2>1, <2>2
    <3> QED
      BY <2>1, <3>1, <3>2, ConcatEmptySeq
  <2>3. CASE ~HasRows(Origin(s))
    <3>1. Log'[s] = Log[s]
      BY <1>1, <1>4, <1>6, <2>3, LogFollowsRows
    <3> QED
      BY <2>1, <2>3, <3>1, ConcatEmptySeq
  <2> QED
    BY <2>2, <2>3
<1>7. \A s \in Slots : ScopeOf(s) # source /\ ScopeOf(s) # target => Log'[s] = Log[s]
  BY <1>4, LogFollowsRows
<1>8. ASSUME NEW k \in Keys
      PROVE  Log[<<source, k>>] = <<>> \/ Log[<<target, k>>] = <<>>
  <2>1. <<source, k>> \in Slots /\ <<target, k>> \in Slots
    BY DEF Slots
  <2>2. ~HasRows(<<source, k>>) \/ ~HasRows(<<target, k>>)
    BY DEF ScopeMerge, NoCollision
  <2> QED
    BY <2>1, <2>2, LogOfRows
<1>9. \A s \in Slots : Log'[s] = IF s[1] = source THEN <<>>
                                 ELSE IF s[1] = target
                                 THEN Log[<<source, s[2]>>] \o Log[s]
                                 ELSE Log[s]
  BY <1>5, <1>6, <1>7 DEF ScopeOf, Origin
<1>10. Log' = [s \in Slots |-> IF s[1] = source THEN <<>>
                               ELSE IF s[1] = target
                               THEN Log[<<source, s[2]>>] \o Log[s]
                               ELSE Log[s]]
  BY <1>9, LogRows
<1>11. Spent' = Spent
  <2>1. \A x \in Proposals : proposal'[x].status = proposal[x].status
    BY DEF ScopeMerge, Inductive, TypeOK, ProposalRow
  <2> QED
    BY <2>1 DEF Spent
<1> QED
  BY <1>1, <1>8, <1>10, <1>11, Zenon DEF Store!Relocate, Store!Places, Slots

\* At first every log is empty and nothing is spent.
LEMMA InitRefines == Init => Store!Init
<1> SUFFICES ASSUME Init PROVE Store!Init
  OBVIOUS
<1>1. \A slot \in Slots : Log[slot] = <<>>
  BY LogRows, LogOfNothing DEF Init, NoRecord
<1>2. Log = [slot \in Slots |-> <<>>]
  BY <1>1, LogRows
<1>3. Spent = {}
  BY DEF Init, Spent, NoProposal
<1> QED
  BY <1>2, <1>3 DEF Store!Init, Store!Places, Slots

LEMMA NextRefines == Inductive /\ [Next]_vars => [Store!Next]_(Store!storeVars)
<1> SUFFICES ASSUME Inductive, [Next]_vars
             PROVE  Store!Next \/ UNCHANGED Store!storeVars
  OBVIOUS
<1>1. ASSUME UNCHANGED <<proposal, record, versions>>
      PROVE  UNCHANGED Store!storeVars
  <2>1. Spent' = Spent
    BY <1>1 DEF Spent
  <2> QED
    BY <1>1, <2>1, OthersRefine
<1>2. ASSUME NEW p \in Principals, NEW slot \in Slots, NEW r \in Proposals,
             NEW q \in BOOLEAN, Propose(p, slot, r, q)
      PROVE  UNCHANGED Store!storeVars
  BY <1>2, ProposeRefines
<1>3. ASSUME NEW p \in Principals, NEW r \in Proposals,
             Reject(p, r) \/ Conflict(p, r) \/ Accept(p, r)
      PROVE  Store!Next
  BY <1>3, TurnDownRefines, AcceptRefines DEF Store!Next, Store!Places, Slots
<1>4. ASSUME NEW p \in Principals, NEW slot \in Slots, MemoryDelete(p, slot)
      PROVE  Store!Next
  BY <1>4, EraseRefines DEF MemoryDelete, Store!Next, Store!Places, Slots
<1>5. ASSUME NEW p \in Principals, NEW s \in Scopes, ScopeDelete(p, s)
      PROVE  Store!Next
  <2>1. {slot \in Slots : ScopeOf(slot) = s} = {s} \X Keys
    BY DEF Slots, ScopeOf
  <2>2. PICK es \in SUBSET Proposals : Store!Forget({s} \X Keys, es)
    BY <1>5, <2>1, EraseRefines DEF ScopeDelete
  <2> QED
    BY <2>2 DEF Store!Next
<1>6. ASSUME NEW p \in Principals, NEW s \in Scopes, NEW t \in Scopes,
             ScopeMerge(p, s, t)
      PROVE  Store!Next
  BY <1>6, MergeRefines DEF Store!Next
<1>7. ASSUME NEW p \in Principals \ {OrgAdmin}, NEW s \in Scopes,
             NEW role \in GrantedRoles, Regrant(p, s, role)
      PROVE  UNCHANGED Store!storeVars
  BY <1>1, <1>7 DEF Regrant
<1>8. ASSUME NEW p \in Principals, NEW slot \in Slots, Search(p, slot)
      PROVE  UNCHANGED Store!storeVars
  BY <1>1, <1>8 DEF Search
<1>9. CASE UNCHANGED vars
  BY <1>1, <1>9 DEF vars
<1> QED
  BY <1>2, <1>3, <1>4, <1>5, <1>6, <1>7, <1>8, <1>9, Zenon DEF Next

\* Reviewed memory implements the versioned store: what readers see of a key
\* is an append-only log, entered once by each accepted proposal, that is only
\* forgotten or moved as a whole.
THEOREM MemoryIsAVersionedStore == Spec => ImplementsStore
  BY InvariantHolds, InitRefines, NextRefines, PTL DEF Spec, ImplementsStore, Store!Spec
=============================================================================
