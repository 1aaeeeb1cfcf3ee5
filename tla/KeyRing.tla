------------------------------ MODULE KeyRing ------------------------------
(***************************************************************************)
(* Tenant encryption: the versioned keys of persistence/encryption.py, the *)
(* hooks of storage_encryption.py that encrypt what an operation writes,   *)
(* the rotation of application/keys.py and the conversion of a database    *)
(* that was in use without encryption.                                     *)
(*                                                                         *)
(* Replicas provision the first key of an organisation concurrently, an    *)
(* operation keeps the key it looked up first until it ends, and meanwhile *)
(* the key is rotated.  A process may stop anywhere (GiveUp, Stop).        *)
(*                                                                         *)
(* Abstractions.  A row has one field, and an envelope belongs to its row: *)
(* the additional data that bind it to organisation, record, field and     *)
(* version are part of `Opens`.  The wrapped key stands for the key, since *)
(* the providers of a deployment are kept; a provider that fails, like any *)
(* other error, ends the call.                                             *)
(***************************************************************************)
EXTENDS Naturals

CONSTANTS
    Orgs,           \* organisations
    Rows,           \* encrypted rows (FIELDS of storage_encryption.py)
    OrgOf,          \* the organisation of each row
    Keys,           \* data keys, random or imported
    Texts,          \* what rows hold
    Clients,        \* operations under way at the same time
    MaxVersion,     \* keys are not rotated further (a bound)
    None,           \* no row, no key
    Lost            \* what a row means whose key is gone

ASSUME KeyRingAssumption ==
    /\ OrgOf \in [Rows -> Orgs]
    /\ MaxVersion \in Nat \ {0}
    /\ None \notin Keys \cup Texts
    /\ Lost \notin Texts \cup {None}

VARIABLES
    mode,       \* of the deployment: "plain", "offline" or "encrypted"
    ring,       \* tenant_keyrings: the active version, 0 without a row
    keys,       \* tenant_key_versions: keys[o][v], None without a row
    rows,       \* stored rows
    call        \* the operation of each client

vars == <<mode, ring, keys, rows, call>>

Versions == 1 .. MaxVersion

\* Version 0 is plain text.
Stored(x, v, k) == [text |-> x, version |-> v, key |-> k]
StoredRows == [text : Texts, version : {0} \cup Versions, key : Keys \cup {None}]

ASSUME NoRowAssumption == None \notin StoredRows

\* `version` and `key` are what the operation has looked up, `since` is the
\* active version when it began (a history variable), `new` what it writes.
Begun(stage, op, o, since) ==
    [stage |-> stage, op |-> op, org |-> o, version |-> 0, key |-> None,
     since |-> since, new |-> [r \in Rows |-> None]]
Idle == Begun("idle", "none", None, 0)

\* What `decrypt` answers for a row.
Opens(r) == /\ rows[r].version # 0
            /\ keys[OrgOf[r]][rows[r].version] = rows[r].key

Init ==
    /\ mode \in {"plain", "encrypted"}
    /\ ring = [o \in Orgs |-> 0]
    /\ keys = [o \in Orgs |-> [v \in Versions |-> None]]
    /\ rows = [r \in Rows |-> None]
    /\ call = [c \in Clients |-> Idle]

-----------------------------------------------------------------------------
(* Operations.                                                             *)

\* Both look for the keyring before they do anything else.
Begin(c, o, op) ==
    /\ call[c].stage = "idle"
    /\ call' = [call EXCEPT ![c] =
                  Begun(IF mode = "encrypted" /\ ring[o] = 0 THEN "provision" ELSE "work",
                        op, o, ring[o])]
    /\ UNCHANGED <<mode, ring, keys, rows>>

Dispatch(c, o) == mode # "offline" /\ Begin(c, o, "write")

\* `rotate` of KeyApplication, by an administrator of the organisation.
AskRotate(c, o) == mode = "encrypted" /\ Begin(c, o, "rotate")

\* Mutation of Insert: whoever comes second stores its own key.
InsertAgain(o, k) ==
    /\ ring' = [ring EXCEPT ![o] = 1]
    /\ keys' = [keys EXCEPT ![o] = [@ EXCEPT ![1] = k]]

\* The unique constraint lets one replica in; the other finds what it stored.
Insert(o, k) ==
    /\ ring' = [ring EXCEPT ![o] = IF @ = 0 THEN 1 ELSE @]
    /\ keys' = [keys EXCEPT ![o] = IF ring[o] = 0 THEN [@ EXCEPT ![1] = k] ELSE @]

Provision(c, k) ==
    /\ call[c].stage = "provision"
    /\ Insert(call[c].org, k)
    /\ call' = [call EXCEPT ![c] = [@ EXCEPT !.stage = "work"]]
    /\ UNCHANGED <<mode, rows>>

Working(c, op) == call[c].stage = "work" /\ call[c].op = op

\* Rows are locked by the operation that writes them.  An encrypted row is
\* read before it is replaced, so it must open.
Free(c, r) == \A d \in Clients \ {c} : call[d].new[r] = None
Writable(r) == IF rows[r] = None THEN TRUE
               ELSE IF mode = "plain" THEN rows[r].version = 0 ELSE Opens(r)

\* Mutation of ActiveVersion: a process keeps the first key it looked up.
ActiveVersionOnce(c, o) == IF ring[o] = 0 THEN 0 ELSE 1

\* The version an operation encrypts under: looked up once.
ActiveVersion(c, o) == IF call[c].version # 0 THEN call[c].version ELSE ring[o]

\* What is written so far, with the key it is written under.
Flushed(q, r, row) ==
    LET looked == [[q EXCEPT !.version = row.version] EXCEPT !.key = row.key]
    IN  [looked EXCEPT !.new = [@ EXCEPT ![r] = row]]

WritePlain(c, r, x) ==
    /\ mode = "plain"
    /\ call' = [call EXCEPT ![c] = Flushed(call[c], r, Stored(x, 0, None))]

WriteEncrypted(c, r, x) ==
    LET q == call[c]
        v == ActiveVersion(c, q.org)
        k == IF q.version # 0 THEN q.key ELSE keys[q.org][v] IN
    /\ mode = "encrypted"
    /\ k # None
    /\ call' = [call EXCEPT ![c] = Flushed(q, r, Stored(x, v, k))]

\* A flush; what it encrypts is committed with the rest of the operation.
Write(c, r, x) ==
    /\ Working(c, "write")
    /\ OrgOf[r] = call[c].org
    /\ Free(c, r) /\ Writable(r)
    /\ WritePlain(c, r, x) \/ WriteEncrypted(c, r, x)
    /\ UNCHANGED <<mode, ring, keys, rows>>

Commit(c) ==
    /\ Working(c, "write")
    /\ rows' = [r \in Rows |-> IF call[c].new[r] = None THEN rows[r] ELSE call[c].new[r]]
    /\ call' = [call EXCEPT ![c] = Idle]
    /\ UNCHANGED <<mode, ring, keys>>

\* The keyring is locked while the next version is stored and made active.
Rotate(c, k) ==
    LET o == call[c].org
        version == ring[o] + 1 IN
    /\ Working(c, "rotate")
    /\ ring[o] \in Versions \ {MaxVersion}
    /\ ring' = [ring EXCEPT ![o] = version]
    /\ keys' = [keys EXCEPT ![o] = [@ EXCEPT ![version] = k]]
    /\ call' = [call EXCEPT ![c] = Idle]
    /\ UNCHANGED <<mode, rows>>

\* An error or the end of the process: the transaction is rolled back.
GiveUp(c) ==
    /\ call[c].stage # "idle"
    /\ call' = [call EXCEPT ![c] = Idle]
    /\ UNCHANGED <<mode, ring, keys, rows>>

-----------------------------------------------------------------------------
(* The offline conversion.                                                 *)

Stop ==
    /\ mode # "offline"
    /\ mode' = "offline"
    /\ call' = [c \in Clients |-> Idle]
    /\ UNCHANGED <<ring, keys, rows>>

\* migrate_existing provisions every organisation first.
Prepare(o, k) ==
    /\ mode = "offline"
    /\ ring[o] = 0
    /\ Insert(o, k)
    /\ UNCHANGED <<mode, rows, call>>

Plain(r) == rows[r] # None /\ rows[r].version = 0

\* One transaction: plain rows become envelopes, envelopes must open.
Convert ==
    /\ mode = "offline"
    /\ \A o \in Orgs : ring[o] # 0
    /\ \A r \in Rows : rows[r] # None /\ ~Plain(r) => Opens(r)
    /\ rows' = [r \in Rows |->
                  LET o == OrgOf[r] IN
                  IF Plain(r) THEN Stored(rows[r].text, ring[o], keys[o][ring[o]])
                  ELSE rows[r]]
    /\ UNCHANGED <<mode, ring, keys, call>>

\* enable_encryption does not ask whether the database was converted.
Start ==
    /\ mode = "offline"
    /\ mode' = "encrypted"
    /\ UNCHANGED <<ring, keys, rows, call>>

Next ==
    \/ \E c \in Clients, o \in Orgs : Dispatch(c, o) \/ AskRotate(c, o)
    \/ \E c \in Clients, k \in Keys : Provision(c, k) \/ Rotate(c, k)
    \/ \E c \in Clients, r \in Rows, x \in Texts : Write(c, r, x)
    \/ \E c \in Clients : Commit(c) \/ GiveUp(c)
    \/ Stop \/ Convert \/ Start
    \/ \E o \in Orgs, k \in Keys : Prepare(o, k)

Spec == Init /\ [][Next]_vars

-----------------------------------------------------------------------------
(* Properties.                                                             *)

\* What a stored row means: its text, unless it is encrypted under a key that is
\* not the stored one of that version.
Meaning(r) == IF rows[r] = None THEN None
              ELSE IF Plain(r) \/ Opens(r) THEN rows[r].text ELSE Lost

TextOf(row) == IF row = None THEN None ELSE row.text

\* For those who read and write rows there is no encryption: whatever keys are
\* provisioned by racing replicas, rotated and kept by operations, and whenever
\* the database is converted, texts change only when an operation that wrote
\* them commits, as a whole, and every row can still be opened.
Abstract == INSTANCE TextStore WITH
    text <- [r \in Rows |-> Meaning(r)],
    written <- [c \in Clients |-> [r \in Rows |-> TextOf(call[c].new[r])]]

ImplementsStore == Abstract!Spec

\* Rotation takes effect: an operation that began after it never stores a row
\* under an older key, all rows of one operation are stored under one key, and
\* nothing is stored in plain text once encryption is on.
StoredBy(c, r) == call[c].new[r] # None /\ call'[c].stage = "idle"

RotationHoldsStep ==
    mode = "encrypted" =>
        \A c \in Clients, r \in Rows :
            rows'[r] # rows[r] /\ StoredBy(c, r) =>
                /\ rows'[r].version >= call[c].since
                /\ rows'[r].version \in Versions
                /\ \A s \in Rows : StoredBy(c, s) => rows'[s].key = rows'[r].key

RotationHolds == [][RotationHoldsStep]_vars
=============================================================================
