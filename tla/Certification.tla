--------------------------- MODULE Certification ---------------------------
(***************************************************************************)
(* Bounded history validation.  A completed validation is recorded beside    *)
(* the database as a watermark (the sidecar): per table the highest rowid it  *)
(* covers and an accumulator of the rows at or below it, the newest           *)
(* evaluation of every lineage, and the retention generation all of this      *)
(* holds under.  The next open validates only the rows beyond it.  An expiry  *)
(* deletes and rewrites covered rows, frees rowids that later rows take       *)
(* again, and carries the watermark of its handle across.                     *)
(*                                                                          *)
(* An optional value is a set of at most one element.                        *)
(*                                                                          *)
(* Source: crates/nq-store/src/history_scope.rs, crates/nq-store/src/lib.rs,  *)
(* crates/nq-store/src/retention.rs, crates/nq-core/src/engine.rs.            *)
(***************************************************************************)
EXTENDS StoreCommit, FiniteSetsExt

CONSTANTS
    Handles,       \* writable store handles, each of a process of its own
    Lineages,      \* evaluation lineages
    MaxAppends,    \* bound: appending commits
    MaxExpiries    \* bound: retention generations

ASSUME BoundsAssumption == MaxAppends \in Nat /\ MaxExpiries \in Nat

VARIABLES
    sidecar,    \* the watermark file
    handle,     \* what each handle has proven, ValidationState
    proven,     \* rows that passed every store-level law, by identity
    serial      \* identity of the row appended last

certVars == <<sidecar, handle, proven, serial>>
vars == <<storeVars, certVars>>

\* evaluation_runs, and the forty-odd tables whose highest rows may expire
Tables == {"evaluations", "runs"}

Steps == {"closed", "open", "audit", "ready", "observed", "proved", "expired", "publishing"}

\* Where a handle is in its operation, and its ValidationState: the frontiers
\* captured at the open and after its own commits, the boundary it opened
\* under, and the watermarks it applied, compares with and relies on.
Closed == [step |-> "closed", mayRecord |-> FALSE, gen |-> 0, version |-> 0,
           open |-> [t \in Tables |-> 0], validated |-> [t \in Tables |-> 0],
           applied |-> {}, prior |-> {}, certified |-> {}, carried |-> {}]

-----------------------------------------------------------------------------
\* Frontiers and accumulators

Before(d, t, bound) == {r \in DOMAIN d.rows[t] : r <= bound}

Highest(S) == Max(S \cup {0})

CaptureBounds(d) == [t \in Tables |-> Highest(DOMAIN d.rows[t])]

\* The bounds after an expiry: the highest surviving row at or below each.
ReanchorBounds(d, frontier) == [t \in Tables |-> Highest(Before(d, t, frontier[t]))]

Within(f, g) == \A t \in Tables : f[t] <= g[t]

\* The elements of the rows of t in (low, high]; the accumulator adds them up.
Elements(d, t, low, high) ==
    {<<r, d.rows[t][r]>> : r \in Before(d, t, high) \ Before(d, t, low)}

\* The accumulators through bounds, extended from the ones of a base, if any.
Certify(d, base, bounds) ==
    [t \in Tables |->
        LET from == {w \in base : w.frontier[t] <= bounds[t]}
        IN (UNION {w.accumulator[t] : w \in from})
             \cup Elements(d, t, Highest({w.frontier[t] : w \in from}), bounds[t])]

\* Rows of the store beyond the frontier of a base, all of them without one.
Beyond(d, base) ==
    UNION {{<<t, e[2].id>> : e \in Elements(d, t, Highest({w.frontier[t] : w \in base}),
                                           Highest(DOMAIN d.rows[t]))} : t \in Tables}

\* Every bounding row is there with its recorded encoding.
VerifyBoundaries(d, w) ==
    \A t \in Tables :
        LET bound == w.frontier[t]
        IN bound = 0 \/ Elements(d, t, bound - 1, bound) \cap w.accumulator[t] # {}

\* The sidecar, if it was certified under the boundary the store has now.
Applicable == {w \in sidecar : w.gen = db.gen}

-----------------------------------------------------------------------------
\* Replay of the evaluation history

\* The full evaluations of a lineage: above the floor, and the islands below.
Full(d, l) ==
    {s \in DOMAIN d.rows["evaluations"] :
        /\ d.rows["evaluations"][s].lineage = l
        /\ d.rows["evaluations"][s].body = "full"}

\* The newest evaluation of every lineage through a sequence.
ReplayInFull(d, through) ==
    [l \in Lineages |-> Highest({s \in Full(d, l) : s <= through})]

\* The replay of the evaluations in (after, through] from recorded heads.
ReplaySince(d, heads, after, through) ==
    [l \in Lineages |->
        Highest({heads[l]} \cup {s \in Full(d, l) : s > Max({after, d.floor}) /\ s <= through})]

\* The watermark a handle may rely on: its own while the boundary is the one
\* it was certified under, else the sidecar another handle's expiry carried,
\* if its bounding rows are there and it lies within what this one validated.
CertifiedWatermark(h) ==
    LET own == {w \in handle[h].certified : w.gen = db.gen}
        carried == {w \in Applicable :
                      Within(w.frontier, handle[h].validated) /\ VerifyBoundaries(db, w)}
    IN IF own = {} /\ handle[h].certified # {} THEN carried ELSE own

\* What a handle holds after it asked for its watermark.
Adopted(h) ==
    IF CertifiedWatermark(h) = {} THEN handle[h].certified ELSE CertifiedWatermark(h)

\* The last evaluation a certification folds into its heads.
CertifiedReplayBound(h) == handle[h].open["evaluations"]

\* The heads at the end of a semantic validation: beyond the certified heads,
\* or in full.
SemanticHeads(h) ==
    LET certified == {w \in CertifiedWatermark(h) : w.heads # {}}
    IN IF certified = {}
       THEN {ReplayInFull(db, CertifiedReplayBound(h))}
       ELSE {ReplaySince(db, k, w.frontier["evaluations"], CertifiedReplayBound(h)) :
               k \in UNION {w.heads : w \in certified}, w \in certified}

BuildWatermark(gen, frontier, accumulator, heads) ==
    [gen |-> gen, frontier |-> frontier, accumulator |-> accumulator, heads |-> heads]

\* A sidecar of the same boundary that covers more is not replaced.
RegressesSharedSidecar(w) ==
    \E current \in sidecar : current.gen = w.gen /\ ~Within(current.frontier, w.frontier)

-----------------------------------------------------------------------------
\* Opening a store and recording what the open proved

\* An ordinary open applies the sidecar and validates the rows beyond it, or
\* every row.  It is refused when a bounding row is missing or rewritten.
Open(h) ==
    /\ handle[h].step = "closed"
    /\ \A w \in Applicable : VerifyBoundaries(db, w)
    /\ proven' = proven \cup Beyond(db, Applicable)
    /\ handle' = [handle EXCEPT ![h] =
         [Closed EXCEPT !.step = "open", !.mayRecord = TRUE, !.gen = db.gen,
                        !.open = CaptureBounds(db), !.validated = CaptureBounds(db),
                        !.applied = Applicable, !.certified = Applicable]]
    /\ UNCHANGED <<storeVars, sidecar, serial>>

\* The open of `nq admin validate --full` applies nothing.
OpenValidatingFully(h) ==
    /\ handle[h].step = "closed"
    /\ proven' = proven \cup Beyond(db, {})
    /\ handle' = [handle EXCEPT ![h] =
         [Closed EXCEPT !.step = "audit", !.mayRecord = TRUE, !.gen = db.gen,
                        !.open = CaptureBounds(db), !.validated = CaptureBounds(db),
                        !.prior = Applicable]]
    /\ UNCHANGED <<storeVars, sidecar, serial>>

\* Mutant: the boundary is not compared with the one of the open.
RecordedWatermarkAnyBoundary(h, heads) ==
    LET k == handle[h]
    IN IF k.mayRecord
       THEN {BuildWatermark(db.gen, k.open, Certify(db, k.applied, k.open), heads)}
       ELSE {}

\* What a handle may record: its open's frontier, unless an expiry changed the
\* boundary since.
RecordedWatermark(h, heads) ==
    LET k == handle[h]
    IN IF k.mayRecord /\ k.gen = db.gen
       THEN {BuildWatermark(db.gen, k.open, Certify(db, k.applied, k.open), heads)}
       ELSE {}

Replaced(w) == IF RegressesSharedSidecar(w) THEN sidecar ELSE {w}

\* An engine open validates what its store's watermark does not certify and
\* records the result.  A failure to write costs the record only.
ValidateEngineOpenHistory(h) ==
    LET ready == [handle[h] EXCEPT !.step = "ready", !.gen = 0, !.applied = {},
                                   !.certified = Adopted(h)]
    IN /\ handle[h].step = "open"
       /\ \/ \E w \in RecordedWatermark(h, SemanticHeads(h)) :
                /\ sidecar' = Replaced(w)
                /\ handle' = [handle EXCEPT ![h] = [ready EXCEPT !.certified = {w}]]
          \/ handle' = [handle EXCEPT ![h] = ready] /\ UNCHANGED sidecar
       /\ UNCHANGED <<storeVars, proven, serial>>

\* A full validation must not contradict the watermark it found.
Contradicts(h, w) ==
    \/ ~Within(w.frontier, handle[h].open)
    \/ \E t \in Tables : Elements(db, t, 0, w.frontier[t]) # w.accumulator[t]
    \/ w.heads # {} /\ w.heads # {ReplayInFull(db, w.frontier["evaluations"])}

\* `nq admin validate --full` refuses on a contradiction, else it records; the
\* command ends either way.
ValidateFullyAndRecord(h) ==
    /\ handle[h].step = "audit"
    /\ \/ /\ \A w \in handle[h].prior : ~Contradicts(h, w)
          /\ \E w \in RecordedWatermark(h, SemanticHeads(h)) : sidecar' = Replaced(w)
       \/ UNCHANGED sidecar
    /\ handle' = [handle EXCEPT ![h] = Closed]
    /\ UNCHANGED <<storeVars, proven, serial>>

\* A process ends, or dies, anywhere in its operation.
Close(h) ==
    /\ handle[h].step # "closed"
    /\ handle' = [handle EXCEPT ![h] = Closed]
    /\ UNCHANGED <<storeVars, sidecar, proven, serial>>

\* An operator moves a refusing sidecar aside.
MoveSidecarAside ==
    /\ \E w \in Applicable : ~VerifyBoundaries(db, w)
    /\ sidecar' = {}
    /\ UNCHANGED <<storeVars, handle, proven, serial>>

-----------------------------------------------------------------------------
\* Appending commits

\* SQLite gives a new row the rowid after the highest one there is.
Insert(rows, row) ==
    LET rowid == Highest(DOMAIN rows) + 1
    IN [r \in DOMAIN rows \cup {rowid} |-> IF r = rowid THEN row ELSE rows[r]]

\* Before it writes, a handle re-anchors its frontiers if the boundary moved:
\* its own reading, before the write transaction begins.
ObserveRetentionBoundary(h) ==
    /\ handle[h].step = "ready"
    /\ handle' = [handle EXCEPT ![h].step = "observed",
                                ![h].open = ReanchorBounds(db, @),
                                ![h].validated = ReanchorBounds(db, @)]
    /\ UNCHANGED <<storeVars, sidecar, proven, serial>>

Appended(rows) == [db EXCEPT !.rows = rows]

\* A collection or an evaluation: its rows, validated with every row beyond
\* the handle's validated frontier, which then moves to the end.
CommitValidated(h, l) ==
    LET new == Appended(
                 [db.rows EXCEPT
                    !["evaluations"] = Insert(@, [id |-> serial + 1, lineage |-> l, body |-> "full"]),
                    !["runs"] = Insert(@, [id |-> serial + 1])])
    IN /\ handle[h].step = "observed"
       /\ serial < MaxAppends
       /\ serial' = serial + 1
       /\ Commit(new)
       /\ handle' = [handle EXCEPT ![h].step = "ready", ![h].validated = CaptureBounds(new)]
       /\ UNCHANGED <<sidecar, proven>>

\* Every other append leaves the handle's frontiers where they are.
Append(h) ==
    /\ handle[h].step = "ready"
    /\ serial < MaxAppends
    /\ serial' = serial + 1
    /\ Commit(Appended([db.rows EXCEPT !["runs"] = Insert(@, [id |-> serial + 1])]))
    /\ UNCHANGED <<sidecar, handle, proven>>

-----------------------------------------------------------------------------
\* Expiry

\* The watermark a handle may carry across an expiry.
CarriableWatermark(h) ==
    {w \in handle[h].certified : handle[h].mayRecord /\ w.gen = db.gen}

\* A handle's certification extended to the end of the snapshot it validated.
PromotedCertification(base, heads) ==
    {BuildWatermark(db.gen, CaptureBounds(db), Certify(db, base, CaptureBounds(db)), heads) :
       w \in {b \in base : Within(b.frontier, CaptureBounds(db))}}

\* What a commit of another handle changes: PRAGMA data_version.
DataVersion == serial + db.gen

\* Validate in a read snapshot what the certification does not cover, and
\* promote that into the certification.
ExpireProve(h) ==
    LET adopted == Adopted(h)
        base == {w \in adopted : handle[h].mayRecord /\ w.gen = db.gen}
        promoted == PromotedCertification(base, SemanticHeads(h))
    IN /\ handle[h].step = "observed"
       /\ IF promoted = {}
          THEN /\ handle' = [handle EXCEPT ![h].step = "proved", ![h].version = DataVersion,
                                           ![h].certified = adopted]
               /\ UNCHANGED proven
          ELSE /\ handle' = [handle EXCEPT ![h].step = "proved", ![h].version = DataVersion,
                                           ![h].open = CaptureBounds(db),
                                           ![h].validated = CaptureBounds(db),
                                           ![h].certified = promoted]
               /\ proven' = proven \cup Beyond(db, base)
       /\ UNCHANGED <<storeVars, sidecar, serial>>

\* The full evaluations below a floor that are not the newest of their lineage;
\* Retention says which of them an expiry keeps, as islands, all the same.
Retirable(floor) ==
    UNION {{s \in Full(db, l) : s <= floor} \ {Max(Full(db, l))} :
             l \in {m \in Lineages : Full(db, m) # {}}}

\* The store after an expiry that retires the full evaluations in dead, keeps
\* compact records of some of them, and deletes the runs in gone.
Expired(floor, dead, compact, gone) ==
    LET ev == db.rows["evaluations"]
    IN [rows |-> [evaluations |-> [s \in DOMAIN ev \ (dead \ compact) |->
                                     IF s \in compact THEN [ev[s] EXCEPT !.body = "compact"]
                                     ELSE ev[s]],
                  runs |-> [r \in DOMAIN db.rows["runs"] \ gone |-> db.rows["runs"][r]]],
        floor |-> floor, gen |-> db.gen + 1]

\* Mutant: the rows the expiry rewrote leave the accumulators for good.
CarryDeletionsOnly(w, new, dead) ==
    IF w.frontier["evaluations"] \in {0} \cup DOMAIN new.rows["evaluations"]
    THEN {BuildWatermark(new.gen, ReanchorBounds(new, w.frontier),
                         [t \in Tables |-> w.accumulator[t] \cap Elements(new, t, 0, w.frontier[t])],
                         {k \in w.heads : \A l \in Lineages : k[l] \notin dead})}
    ELSE {}

\* A watermark across an expiry: the rows it deleted leave the accumulators,
\* the rows it rewrote change in them, each bound moves to a surviving row and
\* the heads stay.  None if the bounding evaluation went; no heads if one did.
Carry(w, new, dead) ==
    LET changed == [t \in Tables |-> Elements(db, t, 0, w.frontier[t])
                                       \ Elements(new, t, 0, w.frontier[t])]
        rewritten == [t \in Tables |-> Elements(new, t, 0, w.frontier[t])
                                         \ Elements(db, t, 0, w.frontier[t])]
        kept == {k \in w.heads : \A l \in Lineages : k[l] \notin dead}
    IN IF w.frontier["evaluations"] \in {0} \cup DOMAIN new.rows["evaluations"]
       THEN {BuildWatermark(new.gen, ReanchorBounds(new, w.frontier),
                            [t \in Tables |-> (w.accumulator[t] \ changed[t]) \cup rewritten[t]],
                            kept)}
       ELSE {}

\* The guarded transaction.  A commit since the snapshot refuses it; else the
\* deletions and the new boundary commit together, synchronous=FULL.
ExpireCommit(h) ==
    /\ handle[h].step = "proved"
    /\ \/ /\ DataVersion # handle[h].version
          /\ handle' = [handle EXCEPT ![h] = [@ EXCEPT !.step = "ready", !.version = 0]]
          /\ UNCHANGED storeVars
       \/ /\ DataVersion = handle[h].version
          /\ db.gen < MaxExpiries
          /\ \E floor \in db.floor .. Highest(DOMAIN db.rows["evaluations"]),
                gone \in SUBSET DOMAIN db.rows["runs"] :
               \E dead \in SUBSET Retirable(floor) : \E compact \in SUBSET dead :
                 LET new == Expired(floor, dead, compact, gone)
                 IN /\ floor > db.floor \/ dead \cup gone # {}
                    /\ db' = new /\ disk' = new /\ UNCHANGED losses
                    /\ handle' = [handle EXCEPT ![h] =
                         [@ EXCEPT !.step = "expired", !.version = 0,
                                   !.open = ReanchorBounds(new, handle[h].open),
                                   !.validated = ReanchorBounds(new, handle[h].validated),
                                   !.carried = UNION {Carry(w, new, dead) : w \in CarriableWatermark(h)}]]
    /\ UNCHANGED <<sidecar, proven, serial>>

\* The handle after its expiry wrote no watermark: it records no more, and the
\* engine validates the history again in full.
WithoutCertification(k) ==
    [Closed EXCEPT !.step = "open", !.open = k.open, !.validated = k.validated]

\* The handle after its expiry carried one.  Without heads in it, the engine
\* validates the semantic history again.
WithCertification(k, w) ==
    [k EXCEPT !.step = IF w.heads = {} THEN "open" ELSE "ready", !.gen = w.gen,
              !.applied = {w}, !.prior = {}, !.certified = {w}, !.carried = {}]

\* After the commit, outside the writers' guard: the boundary is read again
\* and the sidecar compared.
PrepareCarried(h) ==
    LET current == {w \in handle[h].carried : w.gen = db.gen}
    IN /\ handle[h].step = "expired"
       /\ handle' = [handle EXCEPT ![h] =
            IF current = {} THEN WithoutCertification(@)
            ELSE IF \E w \in current : RegressesSharedSidecar(w)
                 THEN WithCertification(@, CHOOSE w \in current : TRUE)
                 ELSE [@ EXCEPT !.step = "publishing"]]
       /\ UNCHANGED <<storeVars, sidecar, proven, serial>>

\* Then the file is replaced, or that fails.
PublishCarried(h) ==
    /\ handle[h].step = "publishing"
    /\ \/ \E w \in handle[h].carried :
            /\ sidecar' = {w}
            /\ handle' = [handle EXCEPT ![h] = WithCertification(@, w)]
       \/ /\ handle' = [handle EXCEPT ![h] = WithoutCertification(@)]
          /\ UNCHANGED sidecar
    /\ UNCHANGED <<storeVars, proven, serial>>

-----------------------------------------------------------------------------
\* A power loss takes every process with it; the sidecar was synced.
PowerLoss ==
    /\ LoseNewestCommit
    /\ handle' = [h \in Handles |-> Closed]
    /\ UNCHANGED <<sidecar, proven, serial>>

Init ==
    /\ db = [rows |-> [t \in Tables |-> << >>], floor |-> 0, gen |-> 0]
    /\ disk = db
    /\ losses = 0
    /\ sidecar = {}
    /\ handle = [h \in Handles |-> Closed]
    /\ proven = {}
    /\ serial = 0

Step(h) ==
    \/ Open(h) \/ OpenValidatingFully(h)
    \/ ValidateEngineOpenHistory(h) \/ ValidateFullyAndRecord(h)
    \/ ObserveRetentionBoundary(h)
    \/ \E l \in Lineages : CommitValidated(h, l)
    \/ Append(h)
    \/ ExpireProve(h) \/ ExpireCommit(h) \/ PrepareCarried(h) \/ PublishCarried(h)
    \/ Close(h)

Next ==
    \/ \E h \in Handles : Step(h)
    \/ MoveSidecarAside
    \/ PowerLoss

Spec == Init /\ [][Next]_vars

-----------------------------------------------------------------------------
\* Properties

OptionalWatermark(S) ==
    /\ \A w \in S :
         /\ w.gen \in 0 .. MaxExpiries
         /\ w.frontier \in [Tables -> 0 .. MaxAppends]
         /\ \A t \in Tables : \A e \in w.accumulator[t] : e[1] \in 1 .. MaxAppends
         /\ \A k \in w.heads : k \in [Lineages -> 0 .. MaxAppends]
         /\ Cardinality(w.heads) <= 1
    /\ Cardinality(S) <= 1

\* Type invariant: rowids, generations and frontiers are within the bounds, and
\* every optional watermark is at most one.
TypeOK ==
    /\ \A t \in Tables : DOMAIN db.rows[t] \subseteq 1 .. MaxAppends
    /\ db.gen \in 0 .. MaxExpiries /\ db.floor \in 0 .. MaxAppends
    /\ OptionalWatermark(sidecar)
    /\ proven \subseteq Tables \X (1 .. MaxAppends)
    /\ serial \in 0 .. MaxAppends
    /\ \A h \in Handles :
         LET k == handle[h]
         IN /\ k.step \in Steps
            /\ k.open \in [Tables -> 0 .. MaxAppends]
            /\ k.validated \in [Tables -> 0 .. MaxAppends]
            /\ \A S \in {k.applied, k.prior, k.certified, k.carried} : OptionalWatermark(S)

\* The watermarks that spare a validation: a sidecar the next open applies,
\* and what an open handle holds under the current boundary.
Relied ==
    {w \in Applicable : VerifyBoundaries(db, w)}
      \cup {w \in UNION {handle[h].certified : h \in Handles} : w.gen = db.gen}

\* Every row at or below a frontier that spares its validation has passed the
\* store's laws, whichever handle wrote it and whichever rowids were reused.
CertifiedIsProven ==
    \A w \in Relied, t \in Tables :
        \A e \in Elements(db, t, 0, w.frontier[t]) : <<t, e[2].id>> \in proven

\* The accumulators are those of the rows: a full validation finds nothing to
\* refuse in a history only the program wrote.
CertificateMatches ==
    \A w \in Relied, t \in Tables : w.accumulator[t] = Elements(db, t, 0, w.frontier[t])

\* The heads of a sidecar the next open applies are the newest evaluations of
\* the prefix it covers: "heads and frontier describe the same prefix"
\* (certified_replay_bound).
HeadsDescribeFrontier ==
    \A w \in Applicable :
        VerifyBoundaries(db, w) => w.heads \subseteq {ReplayInFull(db, w.frontier["evaluations"])}

=============================================================================
