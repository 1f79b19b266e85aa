------------------------ MODULE CertificationProofs ------------------------
(***************************************************************************)
(* Proofs about Certification for every set of handles and lineages, and    *)
(* every bound on appends, expiries and power losses.                       *)
(*                                                                         *)
(* A watermark is tied to the rows by its retention generation alone, so    *)
(* the invariant says of every watermark in a handle or in the sidecar what *)
(* holds of the store as long as that generation is the current one, and of *)
(* the sidecar only if its bounding rows are there: a power loss may have    *)
(* taken them.                                                             *)
(***************************************************************************)
EXTENDS Certification, TLAPS, WellFoundedInduction

\* The shape of a store whose rows have identities up to n.
StoreOK(d, n) ==
    /\ d = [rows |-> d.rows, floor |-> d.floor, gen |-> d.gen]
    /\ d.rows = [t \in Tables |-> d.rows[t]] /\ d.gen \in Nat
    /\ \A t \in Tables :
         /\ DOMAIN d.rows[t] \subseteq 1 .. n
         /\ \A r \in DOMAIN d.rows[t] : d.rows[t][r].id \in 1 .. n
    /\ \A s \in DOMAIN d.rows["evaluations"] :
         d.rows["evaluations"][s] = [id |-> d.rows["evaluations"][s].id,
                                     lineage |-> d.rows["evaluations"][s].lineage,
                                     body |-> d.rows["evaluations"][s].body]

\* The store d has the rows of c and others with higher rowids.
Extends(c, d) ==
    \A t \in Tables :
      /\ \A r \in DOMAIN c.rows[t] : r \in DOMAIN d.rows[t] /\ d.rows[t][r] = c.rows[t][r]
      /\ \A r \in DOMAIN d.rows[t] \ DOMAIN c.rows[t] : \A s \in DOMAIN c.rows[t] : s < r

\* Every row of d at or below a frontier is among the proven ones, and the
\* frontier is not beyond the rows.
Anchored(d, frontier, P) ==
    \A t \in Tables :
      /\ frontier[t] <= Highest(DOMAIN d.rows[t])
      /\ \A r \in DOMAIN d.rows[t] : r <= frontier[t] => <<t, d.rows[t][r].id>> \in P

\* What a watermark says holds of the store d.
Sound(d, w, P) ==
    /\ Anchored(d, w.frontier, P)
    /\ \A t \in Tables : w.accumulator[t] = Elements(d, t, 0, w.frontier[t])

\* Optional watermarks, none of a later generation than g.
WatermarksOK(S, g, n) ==
    /\ \A v, w \in S : v = w
    /\ \A w \in S :
         /\ w.gen \in 0 .. g /\ w.frontier \in [Tables -> Nat]
         /\ \A t \in Tables : \A e \in w.accumulator[t] : e[2].id \in 1 .. n

SidecarOK(S, d, P, n) ==
    /\ WatermarksOK(S, d.gen, n)
    /\ \A w \in S : w.gen = d.gen /\ VerifyBoundaries(d, w) => Sound(d, w, P)

\* What a handle holds is sound under its generation.
Held(S, d, P, n) ==
    WatermarksOK(S, d.gen, n) /\ \A w \in S : w.gen = d.gen => Sound(d, w, P)

Fields == {"step", "mayRecord", "gen", "version", "open", "validated",
           "applied", "prior", "certified", "carried"}

\* A handle holds sound watermarks, and where it may still record its open or
\* carry its certification across an expiry, its open's frontier is proven.
HandleOK(k, d, P, n) ==
    /\ DOMAIN k = Fields /\ k.gen \in 0 .. d.gen /\ k.open \in [Tables -> Nat]
    /\ Held(k.applied, d, P, n) /\ Held(k.certified, d, P, n) /\ Held(k.carried, d, P, n)
    /\ \A w \in k.applied : w.gen = k.gen
    /\ \/ k.step \in {"open", "audit"} /\ k.mayRecord /\ k.gen = d.gen
       \/ k.step = "proved" /\ k.mayRecord /\ \E w \in k.certified : w.gen = d.gen
       \/ k.step \in {"expired", "publishing"} /\ \E w \in k.carried : w.gen = d.gen
       => Anchored(d, k.open, P)

IInv ==
    /\ serial \in Nat /\ StoreOK(db, serial) /\ StoreOK(disk, serial)
    /\ disk.gen = db.gen /\ Extends(disk, db)
    /\ SidecarOK(sidecar, db, proven, serial)
    /\ handle = [h \in Handles |-> handle[h]]
    /\ \A h \in Handles : HandleOK(handle[h], db, proven, serial)

-----------------------------------------------------------------------------
(* Rowids, elements and bounding rows. *)

\* A nonempty bounded set of numbers has a largest one.
LEMMA LargestExists ==
    ASSUME NEW N \in Nat, NEW S \in SUBSET (0 .. N), S # {}
    PROVE  \E x \in S : \A y \in S : x >= y
<1> DEFINE T == {m \in Nat : N - m \in S}
<1>1. T \subseteq Nat /\ T # {}
  <2>1. PICK s \in S : TRUE
    BY ZenonT(90)
  <2>2. N - s \in Nat /\ N - (N - s) = s
    OBVIOUS
  <2> QED
    BY <2>1, <2>2
<1>2. PICK m \in T : \A k \in T : ~(<<k, m>> \in OpToRel(<, Nat))
  BY <1>1, NatLessThanWellFounded, WFMin
<1>3. \A k \in T : ~(k < m)
  BY <1>2, ZenonT(90) DEF OpToRel
<1>4. ASSUME NEW y \in S PROVE N - m >= y
  <2>1. N - y \in Nat /\ N - (N - y) = y
    OBVIOUS
  <2>2. N - y \in T
    BY <2>1
  <2> QED
    BY <1>3, <2>1, <2>2
<1> QED
  BY <1>4

LEMMA HighestFacts ==
    ASSUME NEW N \in Nat, NEW S \in SUBSET (0 .. N)
    PROVE  /\ Highest(S) \in 0 .. N /\ Highest(S) \in S \cup {0}
           /\ \A x \in S : x <= Highest(S)
<1> DEFINE T == S \cup {0}
<1>1. T \in SUBSET (0 .. N) /\ T # {}
  OBVIOUS
<1>2. \E x \in T : \A y \in T : x >= y
  BY <1>1, LargestExists, ZenonT(90)
<1>3. Max(T) \in T /\ \A y \in T : Max(T) >= y
  BY <1>2, ZenonT(90) DEF Max
<1> QED
  BY <1>1, <1>3, ZenonT(90) DEF Highest

LEMMA HighestRow ==
    ASSUME NEW n \in Nat, NEW d, StoreOK(d, n), NEW t \in Tables
    PROVE  /\ Highest(DOMAIN d.rows[t]) \in 0 .. n
           /\ Highest(DOMAIN d.rows[t]) \in DOMAIN d.rows[t] \cup {0}
           /\ \A r \in DOMAIN d.rows[t] : r \in Nat /\ r > 0 /\ r <= Highest(DOMAIN d.rows[t])
<1>1. DOMAIN d.rows[t] \subseteq 1 .. n
  BY Zenon DEF StoreOK
<1>2. DOMAIN d.rows[t] \in SUBSET (0 .. n)
  BY <1>1
<1> QED
  BY <1>1, <1>2, HighestFacts

\* The elements of an interval of rowids.
LEMMA ElementsOf ==
    ASSUME NEW d, NEW t, NEW low, NEW high
    PROVE  Elements(d, t, low, high) =
             {<<r, d.rows[t][r]>> : r \in {q \in DOMAIN d.rows[t] : q <= high /\ ~(q <= low)}}
  BY DEF Elements, Before

\* What a frontier within the rows of c covers, rows that follow leave alone.
LEMMA RowsExtend ==
    ASSUME NEW m \in Nat, NEW n \in Nat, NEW c, NEW d, StoreOK(c, m), StoreOK(d, n), Extends(c, d),
           NEW t \in Tables, NEW f \in Nat, f <= Highest(DOMAIN c.rows[t])
    PROVE  /\ f <= Highest(DOMAIN d.rows[t])
           /\ \A r \in DOMAIN d.rows[t] : r <= f => r \in DOMAIN c.rows[t] /\ d.rows[t][r] = c.rows[t][r]
           /\ Elements(d, t, 0, f) = Elements(c, t, 0, f)
<1> DEFINE hc == Highest(DOMAIN c.rows[t])
           hd == Highest(DOMAIN d.rows[t])
<1>1. /\ hc \in Nat /\ hc \in DOMAIN c.rows[t] \cup {0}
      /\ \A r \in DOMAIN c.rows[t] : r \in Nat /\ r > 0 /\ r <= hc
  BY HighestRow
<1>2. hd \in Nat /\ \A r \in DOMAIN d.rows[t] : r \in Nat /\ r > 0 /\ r <= hd
  BY HighestRow
<1>3. /\ \A r \in DOMAIN c.rows[t] : r \in DOMAIN d.rows[t] /\ d.rows[t][r] = c.rows[t][r]
      /\ \A r \in DOMAIN d.rows[t] \ DOMAIN c.rows[t] : \A s \in DOMAIN c.rows[t] : s < r
  BY Zenon DEF Extends
<1> HIDE DEF hc, hd
<1>4. f <= hd
  BY <1>1, <1>2, <1>3 DEF hc
<1>5. \A r \in DOMAIN d.rows[t] : r <= f => r \in DOMAIN c.rows[t]
  BY <1>1, <1>2, <1>3 DEF hc
<1>6. {q \in DOMAIN d.rows[t] : q <= f /\ ~(q <= 0)} = {q \in DOMAIN c.rows[t] : q <= f /\ ~(q <= 0)}
  BY <1>3, <1>5
<1>7. Elements(d, t, 0, f) = Elements(c, t, 0, f)
  <2>1. \A q \in {q \in DOMAIN c.rows[t] : q <= f /\ ~(q <= 0)} : d.rows[t][q] = c.rows[t][q]
    BY <1>3
  <2> QED
    BY <1>6, <2>1, ElementsOf, ZenonT(90)
<1> QED
  BY <1>3, <1>4, <1>5, <1>7 DEF hd

LEMMA SoundExtend ==
    ASSUME NEW m \in Nat, NEW n \in Nat, NEW c, NEW d, StoreOK(c, m), StoreOK(d, n), Extends(c, d),
           NEW P, NEW Q, P \subseteq Q
    PROVE  /\ \A f \in [Tables -> Nat] : Anchored(c, f, P) => Anchored(d, f, Q)
           /\ \A w : w.frontier \in [Tables -> Nat] /\ Sound(c, w, P) => Sound(d, w, Q)
<1>1. ASSUME NEW f \in [Tables -> Nat], Anchored(c, f, P)
      PROVE  Anchored(d, f, Q) /\ \A t \in Tables : Elements(d, t, 0, f[t]) = Elements(c, t, 0, f[t])
  <2> SUFFICES ASSUME NEW t \in Tables
               PROVE  /\ f[t] <= Highest(DOMAIN d.rows[t])
                      /\ \A r \in DOMAIN d.rows[t] : r <= f[t] => <<t, d.rows[t][r].id>> \in Q
                      /\ Elements(d, t, 0, f[t]) = Elements(c, t, 0, f[t])
    BY Zenon DEF Anchored
  <2>1. f[t] \in Nat /\ f[t] <= Highest(DOMAIN c.rows[t])
        /\ \A r \in DOMAIN c.rows[t] : r <= f[t] => <<t, c.rows[t][r].id>> \in P
    BY <1>1 DEF Anchored
  <2> QED
    BY <2>1, RowsExtend
<1>2. ASSUME NEW w, w.frontier \in [Tables -> Nat], Sound(c, w, P)
      PROVE  Sound(d, w, Q)
  BY <1>1, <1>2 DEF Sound
<1> QED
  BY <1>1, <1>2

\* A watermark whose bounding rows are there is not beyond the rows.
LEMMA Verified ==
    ASSUME NEW n \in Nat, NEW d, StoreOK(d, n), NEW w, w.frontier \in [Tables -> Nat],
           VerifyBoundaries(d, w), NEW t \in Tables
    PROVE  w.frontier[t] <= Highest(DOMAIN d.rows[t])
<1> DEFINE bound == w.frontier[t]
<1>1. bound \in Nat /\ (bound = 0 \/ Elements(d, t, bound - 1, bound) \cap w.accumulator[t] # {})
  BY DEF VerifyBoundaries
<1>2. Highest(DOMAIN d.rows[t]) \in Nat
      /\ \A r \in DOMAIN d.rows[t] : r \in Nat /\ r > 0 /\ r <= Highest(DOMAIN d.rows[t])
  BY HighestRow
<1> HIDE DEF bound
<1>3. CASE Elements(d, t, bound - 1, bound) \cap w.accumulator[t] # {}
  <2>1. PICK r \in DOMAIN d.rows[t] : r <= bound /\ ~(r <= bound - 1)
    BY <1>3, ElementsOf
  <2> QED
    BY <1>1, <1>2, <2>1 DEF bound
<1> QED
  BY <1>1, <1>2, <1>3 DEF bound

\* The bounding rows of a watermark are among the rows it was recorded for:
\* a later row at the same rowid has another identity.
LEMMA VerifiedExtend ==
    ASSUME NEW m \in Nat, NEW n \in Nat, NEW c, NEW d, StoreOK(c, m), StoreOK(d, n), Extends(c, d),
           NEW w, w.frontier \in [Tables -> Nat]
    PROVE  /\ VerifyBoundaries(c, w) => VerifyBoundaries(d, w)
           /\ /\ \A t \in Tables : \A r \in DOMAIN d.rows[t] \ DOMAIN c.rows[t] : d.rows[t][r].id > m
              /\ \A t \in Tables : \A e \in w.accumulator[t] : e[2].id \in 1 .. m
              => (VerifyBoundaries(d, w) => VerifyBoundaries(c, w))
<1>1. ASSUME NEW t \in Tables, NEW low, NEW high
      PROVE  Elements(c, t, low, high) \subseteq Elements(d, t, low, high)
  <2>1. \A r \in DOMAIN c.rows[t] : r \in DOMAIN d.rows[t] /\ d.rows[t][r] = c.rows[t][r]
    BY Zenon DEF Extends
  <2> QED
    BY <2>1, ElementsOf
<1>2. ASSUME \A t \in Tables : \A r \in DOMAIN d.rows[t] \ DOMAIN c.rows[t] : d.rows[t][r].id > m,
             \A t \in Tables : \A e \in w.accumulator[t] : e[2].id \in 1 .. m,
             NEW t \in Tables, NEW low, NEW high,
             Elements(d, t, low, high) \cap w.accumulator[t] # {}
      PROVE  Elements(c, t, low, high) \cap w.accumulator[t] # {}
  <2>1. PICK r \in DOMAIN d.rows[t] : /\ r <= high /\ ~(r <= low)
                                      /\ <<r, d.rows[t][r]>> \in w.accumulator[t]
    BY <1>2, ElementsOf
  <2>2. d.rows[t][r].id \in 1 .. m
    BY <1>2, <2>1
  <2>3. r \in DOMAIN c.rows[t]
    BY <1>2, <2>1, <2>2
  <2>4. d.rows[t][r] = c.rows[t][r]
    BY <2>3, Zenon DEF Extends
  <2>5. <<r, d.rows[t][r]>> \in Elements(c, t, low, high)
    BY <2>1, <2>3, <2>4, ElementsOf
  <2> QED
    BY <2>1, <2>5
<1>3. VerifyBoundaries(c, w) => VerifyBoundaries(d, w)
  BY <1>1 DEF VerifyBoundaries
<1> QED
  BY <1>2, <1>3 DEF VerifyBoundaries

-----------------------------------------------------------------------------
(* What the invariant says of a handle and of the sidecar, as the store grows,
   falls back or expires. *)

LEMMA WatermarksGrown ==
    ASSUME NEW g \in Nat, NEW h \in Nat, g <= h, NEW m \in Nat, NEW n \in Nat, m <= n,
           NEW S, WatermarksOK(S, g, m)
    PROVE  WatermarksOK(S, h, n)
<1>1. 0 .. g \subseteq 0 .. h /\ 1 .. m \subseteq 1 .. n
  OBVIOUS
<1> QED
  BY <1>1, Zenon DEF WatermarksOK

LEMMA HandleGrown ==
    ASSUME NEW m \in Nat, NEW n \in Nat, m <= n, NEW c, NEW d, StoreOK(c, m), StoreOK(d, n),
           Extends(c, d), d.gen = c.gen, NEW P, NEW Q, P \subseteq Q,
           NEW k, HandleOK(k, c, P, m)
    PROVE  HandleOK(k, d, Q, n)
<1>1. c.gen \in Nat
  BY Zenon DEF StoreOK
<1>2. ASSUME NEW S, Held(S, c, P, m) PROVE Held(S, d, Q, n)
  <2>1. WatermarksOK(S, c.gen, m) /\ \A w \in S : w.gen = c.gen => Sound(c, w, P)
    BY <1>2, Zenon DEF Held
  <2>2. \A w \in S : w.frontier \in [Tables -> Nat]
    BY <2>1, Zenon DEF WatermarksOK
  <2>3. WatermarksOK(S, d.gen, n)
    BY <1>1, <2>1, WatermarksGrown
  <2>4. ASSUME NEW w \in S, w.gen = d.gen PROVE Sound(d, w, Q)
    BY <2>1, <2>2, <2>4, SoundExtend, ZenonT(90)
  <2> QED
    BY <2>3, <2>4, Zenon DEF Held
<1>3. k.open \in [Tables -> Nat] /\ (Anchored(c, k.open, P) => Anchored(d, k.open, Q))
  BY SoundExtend DEF HandleOK
<1> QED
  BY <1>2, <1>3, ZenonT(90) DEF HandleOK

LEMMA HandleExpired ==
    ASSUME NEW m \in Nat, NEW n \in Nat, m <= n, NEW c, NEW d, StoreOK(c, m),
           d.gen = c.gen + 1, NEW P, NEW Q, NEW k, HandleOK(k, c, P, m)
    PROVE  HandleOK(k, d, Q, n)
<1>1. c.gen \in Nat /\ d.gen \in Nat /\ c.gen <= d.gen /\ d.gen \notin 0 .. c.gen
  BY DEF StoreOK
<1>2. ASSUME NEW S, Held(S, c, P, m) PROVE Held(S, d, Q, n) /\ \A w \in S : w.gen # d.gen
  <2>1. WatermarksOK(S, c.gen, m)
    BY <1>2, Zenon DEF Held
  <2>2. WatermarksOK(S, d.gen, n)
    BY <1>1, <2>1, WatermarksGrown
  <2>3. \A w \in S : w.gen # d.gen
    BY <1>1, <2>1, Zenon DEF WatermarksOK
  <2> QED
    BY <2>2, <2>3, Zenon DEF Held
<1>3. k.gen \in 0 .. d.gen /\ k.gen # d.gen
  <2>1. k.gen \in 0 .. c.gen
    BY Zenon DEF HandleOK
  <2> QED
    BY <1>1, <2>1
<1> QED
  BY <1>2, <1>3, ZenonT(90) DEF HandleOK

LEMMA SidecarGrown ==
    ASSUME NEW m \in Nat, NEW n \in Nat, m <= n, NEW c, NEW d, StoreOK(c, m), StoreOK(d, n),
           Extends(c, d), d.gen = c.gen, NEW P, NEW Q, P \subseteq Q,
           \A t \in Tables : \A r \in DOMAIN d.rows[t] \ DOMAIN c.rows[t] : d.rows[t][r].id > m,
           NEW S, SidecarOK(S, c, P, m)
    PROVE  SidecarOK(S, d, Q, n)
<1>1. c.gen \in Nat /\ WatermarksOK(S, c.gen, m)
  BY Zenon DEF StoreOK, SidecarOK
<1>2. WatermarksOK(S, d.gen, n)
  BY <1>1, WatermarksGrown
<1>3. ASSUME NEW w \in S, w.gen = d.gen, VerifyBoundaries(d, w) PROVE Sound(d, w, Q)
  <2>1. w.frontier \in [Tables -> Nat] /\ \A t \in Tables : \A e \in w.accumulator[t] : e[2].id \in 1 .. m
    BY <1>1, Zenon DEF WatermarksOK
  <2>2. VerifyBoundaries(c, w)
    BY <1>3, <2>1, VerifiedExtend
  <2>3. Sound(c, w, P)
    BY <1>3, <2>2, Zenon DEF SidecarOK
  <2> QED
    BY <2>1, <2>3, SoundExtend, ZenonT(90)
<1> QED
  BY <1>2, <1>3, Zenon DEF SidecarOK

LEMMA SidecarExpired ==
    ASSUME NEW m \in Nat, NEW n \in Nat, m <= n, NEW c, NEW d, StoreOK(c, m),
           d.gen = c.gen + 1, NEW P, NEW Q, NEW S, SidecarOK(S, c, P, m)
    PROVE  SidecarOK(S, d, Q, n)
<1>1. c.gen \in Nat /\ d.gen \in Nat /\ c.gen <= d.gen /\ d.gen \notin 0 .. c.gen
  BY DEF StoreOK
<1>2. WatermarksOK(S, c.gen, m)
  BY Zenon DEF SidecarOK
<1>3. WatermarksOK(S, d.gen, n)
  BY <1>1, <1>2, WatermarksGrown
<1> QED
  BY <1>1, <1>2, <1>3, Zenon DEF SidecarOK, WatermarksOK

\* A watermark that a power loss leaves applicable is one of rows that remain.
LEMMA SidecarLost ==
    ASSUME NEW n \in Nat, NEW c, NEW d, StoreOK(c, n), StoreOK(d, n), Extends(c, d), d.gen = c.gen,
           NEW P, NEW S, SidecarOK(S, d, P, n)
    PROVE  SidecarOK(S, c, P, n)
<1>1. WatermarksOK(S, c.gen, n)
  BY Zenon DEF SidecarOK
<1>2. ASSUME NEW w \in S, w.gen = c.gen, VerifyBoundaries(c, w) PROVE Sound(c, w, P)
  <2>1. w.frontier \in [Tables -> Nat]
    BY <1>1, Zenon DEF WatermarksOK
  <2>2. Sound(d, w, P)
    BY <1>2, <2>1, VerifiedExtend DEF SidecarOK
  <2> SUFFICES ASSUME NEW t \in Tables
               PROVE  /\ w.frontier[t] <= Highest(DOMAIN c.rows[t])
                      /\ \A r \in DOMAIN c.rows[t] :
                           r <= w.frontier[t] => <<t, c.rows[t][r].id>> \in P
                      /\ w.accumulator[t] = Elements(c, t, 0, w.frontier[t])
    BY Zenon DEF Sound, Anchored
  <2>3. w.frontier[t] \in Nat /\ w.frontier[t] <= Highest(DOMAIN c.rows[t])
    BY <1>2, <2>1, Verified
  <2>4. Elements(d, t, 0, w.frontier[t]) = Elements(c, t, 0, w.frontier[t])
    BY <2>3, RowsExtend
  <2>5. \A r \in DOMAIN c.rows[t] : r \in DOMAIN d.rows[t] /\ d.rows[t][r] = c.rows[t][r]
    BY Zenon DEF Extends
  <2>6. /\ w.accumulator[t] = Elements(d, t, 0, w.frontier[t])
        /\ \A r \in DOMAIN d.rows[t] : r <= w.frontier[t] => <<t, d.rows[t][r].id>> \in P
    BY <2>2, Zenon DEF Sound, Anchored
  <2> QED
    BY <2>3, <2>4, <2>5, <2>6, Zenon
<1> QED
  BY <1>1, <1>2, Zenon DEF SidecarOK

-----------------------------------------------------------------------------
(* Validation, certification and carrying. *)

LEMMA HighestOne ==
    /\ Highest({}) = 0
    /\ \A f \in Nat : Highest({f}) = f
<1>1. Highest({}) \in 0 .. 0
  BY HighestFacts
<1>2. ASSUME NEW f \in Nat PROVE Highest({f}) = f
  <2>1. {f} \in SUBSET (0 .. f)
    OBVIOUS
  <2>2. Highest({f}) \in 0 .. f /\ f <= Highest({f})
    BY <2>1, HighestFacts
  <2> QED
    BY <2>2
<1> QED
  BY <1>1, <1>2

LEMMA Captured ==
    ASSUME NEW n \in Nat, NEW d, StoreOK(d, n)
    PROVE  /\ CaptureBounds(d) \in [Tables -> Nat]
           /\ \A t \in Tables : CaptureBounds(d)[t] = Highest(DOMAIN d.rows[t])
<1>1. \A t \in Tables : Highest(DOMAIN d.rows[t]) \in Nat
  BY HighestRow
<1> QED
  BY <1>1 DEF CaptureBounds

\* The bases of a certification: at most one watermark.
Base(base, d, P) ==
    /\ \A v, w \in base : v = w
    /\ \A w \in base : w.frontier \in [Tables -> Nat] /\ Sound(d, w, P)

\* A certification extended from a sound base is the one of the rows.
LEMMA CertifyRows ==
    ASSUME NEW n \in Nat, NEW d, StoreOK(d, n), NEW P, NEW base, Base(base, d, P),
           NEW bounds \in [Tables -> Nat], NEW t \in Tables
    PROVE  Certify(d, base, bounds)[t] = Elements(d, t, 0, bounds[t])
<1> DEFINE from == {w \in base : w.frontier[t] <= bounds[t]}
           low == Highest({w.frontier[t] : w \in from})
<1>1. Certify(d, base, bounds)[t] =
        (UNION {w.accumulator[t] : w \in from}) \cup Elements(d, t, low, bounds[t])
  BY DEF Certify
<1> HIDE DEF low
<1>2. CASE from = {}
  <2>1. low = 0 /\ UNION {w.accumulator[t] : w \in from} = {}
    BY <1>2, HighestOne, ZenonT(90) DEF low
  <2> HIDE DEF from
  <2> QED
    BY <1>1, <2>1
<1>3. ASSUME NEW w \in from PROVE Certify(d, base, bounds)[t] = Elements(d, t, 0, bounds[t])
  <2>1. /\ from = {w} /\ w.frontier[t] \in Nat /\ w.frontier[t] <= bounds[t] /\ bounds[t] \in Nat
        /\ w.accumulator[t] = Elements(d, t, 0, w.frontier[t])
    BY <1>3 DEF Base, Sound
  <2>2. {v.frontier[t] : v \in from} = {w.frontier[t]} /\ UNION {v.accumulator[t] : v \in from} = w.accumulator[t]
    BY <2>1
  <2>3. low = w.frontier[t]
    BY <2>1, <2>2, HighestOne DEF low
  <2> HIDE DEF from
  <2>4. \A r \in DOMAIN d.rows[t] : r \in Nat /\ r > 0
    BY HighestRow
  <2>5. {q \in DOMAIN d.rows[t] : q <= bounds[t] /\ ~(q <= 0)}
          = {q \in DOMAIN d.rows[t] : q <= low /\ ~(q <= 0)}
              \cup {q \in DOMAIN d.rows[t] : q <= bounds[t] /\ ~(q <= low)}
    BY <2>1, <2>3, <2>4
  <2>6. Elements(d, t, 0, bounds[t]) = Elements(d, t, 0, low) \cup Elements(d, t, low, bounds[t])
    BY <2>5, ElementsOf
  <2> QED
    BY <1>1, <2>1, <2>2, <2>3, <2>6
<1> HIDE DEF from
<1> QED
  BY <1>2, <1>3

\* A validation of the rows beyond a sound base leaves every row proven.
LEMMA Validated ==
    ASSUME NEW n \in Nat, NEW d, StoreOK(d, n), NEW P, NEW base, Base(base, d, P)
    PROVE  Anchored(d, CaptureBounds(d), P \cup Beyond(d, base))
<1> SUFFICES ASSUME NEW t \in Tables
             PROVE  /\ CaptureBounds(d)[t] <= Highest(DOMAIN d.rows[t])
                    /\ \A r \in DOMAIN d.rows[t] : <<t, d.rows[t][r].id>> \in P \cup Beyond(d, base)
  BY Zenon DEF Anchored
<1> DEFINE low == Highest({w.frontier[t] : w \in base})
           high == Highest(DOMAIN d.rows[t])
<1>1. high \in Nat /\ \A r \in DOMAIN d.rows[t] : r \in Nat /\ r > 0 /\ r <= high
  BY HighestRow
<1>2. CaptureBounds(d)[t] = high
  BY Captured
<1>3. ASSUME NEW r \in DOMAIN d.rows[t], ~(r <= low) PROVE <<t, d.rows[t][r].id>> \in Beyond(d, base)
  <2>1. <<r, d.rows[t][r]>> \in Elements(d, t, low, high)
    BY <1>1, <1>3, ElementsOf
  <2>2. <<t, <<r, d.rows[t][r]>>[2].id>> \in {<<t, e[2].id>> : e \in Elements(d, t, low, high)}
    BY <2>1, ZenonT(90)
  <2> QED
    BY <2>2, ZenonT(90) DEF Beyond
<1>4. ASSUME NEW r \in DOMAIN d.rows[t], r <= low PROVE <<t, d.rows[t][r].id>> \in P
  <2>1. base # {}
    <3>1. base = {} => low = 0
      BY HighestOne
    <3> QED
      BY <1>1, <1>4, <3>1
  <2>2. PICK w : base = {w} /\ w.frontier[t] \in Nat /\ Anchored(d, w.frontier, P)
    BY <2>1 DEF Base, Sound
  <2>3. {v.frontier[t] : v \in base} = {w.frontier[t]}
    BY <2>2
  <2>4. low = w.frontier[t]
    BY <2>2, <2>3, HighestOne
  <2> QED
    BY <1>4, <2>2, <2>4 DEF Anchored
<1> HIDE DEF low
<1>5. \A r \in DOMAIN d.rows[t] : <<t, d.rows[t][r].id>> \in P \cup Beyond(d, base)
  BY <1>3, <1>4, Zenon
<1> QED
  BY <1>1, <1>2, <1>5

\* A frontier moved down to the highest surviving row covers the same rows.
LEMMA Reanchored ==
    ASSUME NEW n \in Nat, NEW d, StoreOK(d, n), NEW frontier \in [Tables -> Nat]
    PROVE  /\ ReanchorBounds(d, frontier) \in [Tables -> Nat]
           /\ \A t \in Tables :
                /\ ReanchorBounds(d, frontier)[t] <= Highest(DOMAIN d.rows[t])
                /\ \A r \in DOMAIN d.rows[t] : r <= ReanchorBounds(d, frontier)[t] <=> r <= frontier[t]
                /\ Elements(d, t, 0, ReanchorBounds(d, frontier)[t]) = Elements(d, t, 0, frontier[t])
<1>1. ASSUME NEW t \in Tables
      PROVE  LET g == Highest(Before(d, t, frontier[t])) IN
             /\ g \in Nat /\ g <= Highest(DOMAIN d.rows[t])
             /\ \A r \in DOMAIN d.rows[t] : r <= g <=> r <= frontier[t]
  <2> DEFINE B == Before(d, t, frontier[t])
             g == Highest(B)
  <2>1. B = {r \in DOMAIN d.rows[t] : r <= frontier[t]}
    BY DEF Before
  <2>2. /\ DOMAIN d.rows[t] \subseteq 1 .. n /\ frontier[t] \in Nat
        /\ Highest(DOMAIN d.rows[t]) \in Nat
        /\ \A r \in DOMAIN d.rows[t] : r \in Nat /\ r > 0 /\ r <= Highest(DOMAIN d.rows[t])
    <3>1. DOMAIN d.rows[t] \subseteq 1 .. n
      BY Zenon DEF StoreOK
    <3> QED
      BY <3>1, HighestRow
  <2>3. B \in SUBSET (0 .. n)
    BY <2>1, <2>2
  <2> HIDE DEF B
  <2>4. g \in 0 .. n /\ g \in B \cup {0} /\ \A x \in B : x <= g
    BY <2>3, HighestFacts
  <2> HIDE DEF g
  <2>5. g \in Nat /\ g <= Highest(DOMAIN d.rows[t])
    BY <2>1, <2>2, <2>4
  <2>6. \A r \in DOMAIN d.rows[t] : r <= g <=> r <= frontier[t]
    BY <2>1, <2>2, <2>4
  <2> QED
    BY <2>5, <2>6 DEF g, B
<1>2. ReanchorBounds(d, frontier) = [t \in Tables |-> Highest(Before(d, t, frontier[t]))]
  BY DEF ReanchorBounds
<1>3. ASSUME NEW t \in Tables
      PROVE  Elements(d, t, 0, ReanchorBounds(d, frontier)[t]) = Elements(d, t, 0, frontier[t])
  <2> DEFINE g == ReanchorBounds(d, frontier)[t]
  <2>1. \A r \in DOMAIN d.rows[t] : r <= g <=> r <= frontier[t]
    BY <1>1, <1>2
  <2> HIDE DEF g
  <2>2. {q \in DOMAIN d.rows[t] : q <= g /\ ~(q <= 0)}
          = {q \in DOMAIN d.rows[t] : q <= frontier[t] /\ ~(q <= 0)}
    BY <2>1
  <2> QED
    BY <2>2, ElementsOf, ZenonT(90) DEF g
<1> QED
  BY <1>1, <1>2, <1>3

-----------------------------------------------------------------------------
(* Steps of one handle. *)

LEMMA HoldsNone == \A d, P, n : Held({}, d, P, n)
  BY Zenon DEF WatermarksOK, Held

LEMMA ClosedOK ==
    ASSUME NEW d, d.gen \in Nat, NEW P, NEW n
    PROVE  HandleOK(Closed, d, P, n)
<1>1. [t \in Tables |-> 0] \in [Tables -> Nat] /\ 0 \in 0 .. d.gen
  OBVIOUS
<1>2. /\ Closed.step = "closed" /\ Closed.gen = 0 /\ Closed.open = [t \in Tables |-> 0]
      /\ Closed.applied = {} /\ Closed.certified = {} /\ Closed.carried = {}
      /\ DOMAIN Closed = Fields
  BY DEF Closed, Fields
<1>3. Held({}, d, P, n) /\ "closed" \notin {"open", "audit"} /\ "closed" \notin {"expired", "publishing"}
  BY HoldsNone
<1> QED
  BY <1>1, <1>2, <1>3, Zenon DEF HandleOK

LEMMA ExtendsSelf ==
    \A d : Extends(d, d)
  BY Zenon DEF Extends

\* A step of one handle that leaves the store alone.
LEMMA HandleStep ==
    ASSUME IInv, NEW h \in Handles, NEW k, handle' = [handle EXCEPT ![h] = k],
           UNCHANGED <<db, disk, serial>>, proven \subseteq proven',
           SidecarOK(sidecar', db, proven', serial), HandleOK(k, db, proven', serial)
    PROVE  IInv'
<1>1. /\ serial \in Nat /\ StoreOK(db, serial) /\ handle = [g \in Handles |-> handle[g]]
      /\ \A g \in Handles : HandleOK(handle[g], db, proven, serial)
  BY Zenon DEF IInv
<1>2. /\ handle' = [g \in Handles |-> handle'[g]] /\ handle'[h] = k
      /\ \A g \in Handles \ {h} : handle'[g] = handle[g]
  BY <1>1
<1>3. \A g \in Handles : HandleOK(handle[g], db, proven', serial)
  BY <1>1, HandleGrown, ExtendsSelf
<1>4. \A g \in Handles : HandleOK(handle'[g], db, proven', serial)
  BY <1>2, <1>3, Zenon
<1> QED
  BY <1>2, <1>4, ZenonT(90) DEF IInv

LEMMA SidecarKept ==
    ASSUME IInv, proven \subseteq proven'
    PROVE  SidecarOK(sidecar, db, proven', serial)
<1>1. serial \in Nat /\ StoreOK(db, serial) /\ SidecarOK(sidecar, db, proven, serial)
  BY Zenon DEF IInv
<1> QED
  BY <1>1, SidecarGrown, ExtendsSelf

\* A sidecar the next open applies is a sound base.
LEMMA ApplicableBase ==
    ASSUME IInv, \A w \in Applicable : VerifyBoundaries(db, w)
    PROVE  Base(Applicable, db, proven) /\ WatermarksOK(Applicable, db.gen, serial)
<1>1. SidecarOK(sidecar, db, proven, serial)
  BY Zenon DEF IInv
<1> QED
  BY <1>1, Zenon DEF SidecarOK, WatermarksOK, Applicable, Base

-----------------------------------------------------------------------------
(* One lemma for each action. *)

LEMMA OpenInv ==
    ASSUME IInv, NEW h \in Handles, Open(h)
    PROVE  IInv'
<1>1. /\ serial \in Nat /\ StoreOK(db, serial) /\ db.gen \in Nat
      /\ (\A w \in Applicable : VerifyBoundaries(db, w)) /\ proven' = proven \cup Beyond(db, Applicable)
      /\ UNCHANGED <<db, disk, serial>> /\ sidecar' = sidecar
  BY ZenonT(90) DEF IInv, StoreOK, Open, storeVars
<1> DEFINE k == [Closed EXCEPT !.step = "open", !.mayRecord = TRUE, !.gen = db.gen,
                               !.open = CaptureBounds(db), !.validated = CaptureBounds(db),
                               !.applied = Applicable, !.certified = Applicable]
<1>2. /\ handle' = [handle EXCEPT ![h] = k]
      /\ k.step = "open" /\ k.gen = db.gen /\ k.open = CaptureBounds(db)
      /\ k.applied = Applicable /\ k.certified = Applicable /\ k.carried = {}
      /\ DOMAIN k = Fields
  <2>1. handle' = [handle EXCEPT ![h] = k]
    BY Zenon DEF Open
  <2> QED
    BY <2>1 DEF Closed, Fields
<1> HIDE DEF k
<1>3. Base(Applicable, db, proven) /\ WatermarksOK(Applicable, db.gen, serial)
  BY <1>1, ApplicableBase
<1>4. Anchored(db, CaptureBounds(db), proven') /\ CaptureBounds(db) \in [Tables -> Nat]
  BY <1>1, <1>3, Validated, Captured
<1>5. ASSUME NEW w \in Applicable PROVE w.gen = db.gen /\ Sound(db, w, proven')
  <2>1. w.gen = db.gen /\ w.frontier \in [Tables -> Nat] /\ Sound(db, w, proven)
    BY <1>3, Zenon DEF Base, Applicable
  <2> QED
    BY <1>1, <2>1, SoundExtend, ExtendsSelf
<1>6. /\ db.gen \in 0 .. db.gen /\ proven \subseteq proven'
      /\ Held(Applicable, db, proven', serial) /\ Held({}, db, proven', serial)
  <2>1. db.gen \in 0 .. db.gen
    BY <1>1 DEF StoreOK
  <2>2. proven \subseteq proven'
    BY <1>1, Zenon
  <2> QED
    BY <1>3, <1>5, <2>1, <2>2, HoldsNone, ZenonT(90) DEF Held
<1>7. HandleOK(k, db, proven', serial)
  BY <1>2, <1>3, <1>4, <1>5, <1>6, HoldsNone, ZenonT(90) DEF HandleOK
<1> QED
  BY <1>1, <1>2, <1>6, <1>7, HandleStep, SidecarKept, ZenonT(90)

LEMMA OpenValidatingFullyInv ==
    ASSUME IInv, NEW h \in Handles, OpenValidatingFully(h)
    PROVE  IInv'
<1>1. /\ serial \in Nat /\ StoreOK(db, serial) /\ db.gen \in Nat
      /\ proven' = proven \cup Beyond(db, {})
      /\ UNCHANGED <<db, disk, serial>> /\ sidecar' = sidecar
  BY ZenonT(90) DEF IInv, StoreOK, OpenValidatingFully, storeVars
<1> DEFINE k == [Closed EXCEPT !.step = "audit", !.mayRecord = TRUE, !.gen = db.gen,
                               !.open = CaptureBounds(db), !.validated = CaptureBounds(db),
                               !.prior = Applicable]
<1>2. /\ handle' = [handle EXCEPT ![h] = k]
      /\ k.step = "audit" /\ k.gen = db.gen /\ k.open = CaptureBounds(db)
      /\ k.applied = {} /\ k.certified = {} /\ k.carried = {}
      /\ DOMAIN k = Fields
  <2>1. handle' = [handle EXCEPT ![h] = k]
    BY Zenon DEF OpenValidatingFully
  <2> QED
    BY <2>1 DEF Closed, Fields
<1> HIDE DEF k
<1>3. Base({}, db, proven)
  BY Zenon DEF Base
<1>4. Anchored(db, CaptureBounds(db), proven') /\ CaptureBounds(db) \in [Tables -> Nat]
  BY <1>1, <1>3, Validated, Captured
<1>5. db.gen \in 0 .. db.gen /\ proven \subseteq proven' /\ Held({}, db, proven', serial)
  BY <1>1, HoldsNone
<1>6. HandleOK(k, db, proven', serial)
  BY <1>2, <1>4, <1>5, ZenonT(90) DEF HandleOK
<1> QED
  BY <1>1, <1>2, <1>5, <1>6, HandleStep, SidecarKept, ZenonT(90)

\* A certification through a proven frontier, from a sound base.
LEMMA Certified ==
    ASSUME NEW n \in Nat, NEW d, StoreOK(d, n), NEW Q, NEW base, Base(base, d, Q),
           NEW bounds \in [Tables -> Nat], NEW P, Anchored(d, bounds, P), NEW heads, NEW w,
           w = BuildWatermark(d.gen, bounds, Certify(d, base, bounds), heads)
    PROVE  /\ w.gen = d.gen /\ w.frontier = bounds
           /\ Held({w}, d, P, n) /\ SidecarOK({w}, d, P, n)
<1>1. w.gen = d.gen /\ w.frontier = bounds /\ w.accumulator = Certify(d, base, bounds)
  BY DEF BuildWatermark
<1>2. \A t \in Tables : w.accumulator[t] = Elements(d, t, 0, w.frontier[t])
  BY <1>1, CertifyRows
<1>3. Sound(d, w, P)
  BY <1>1, <1>2, Zenon DEF Sound
<1>4. ASSUME NEW t \in Tables, NEW e \in w.accumulator[t] PROVE e[2].id \in 1 .. n
  <2>1. PICK r \in DOMAIN d.rows[t] : e = <<r, d.rows[t][r]>>
    BY <1>2, <1>4, ElementsOf
  <2>2. d.rows[t][r].id \in 1 .. n
    BY Zenon DEF StoreOK
  <2> QED
    BY <2>1, <2>2
<1>5. d.gen \in 0 .. d.gen
  BY DEF StoreOK
<1>6. WatermarksOK({w}, d.gen, n)
  BY <1>1, <1>4, <1>5, Zenon DEF WatermarksOK
<1> QED
  BY <1>1, <1>3, <1>6, Zenon DEF Held, SidecarOK

LEMMA CertifiedHeld ==
    ASSUME NEW n, n \in Nat, NEW d, StoreOK(d, n), NEW Q, NEW base, Base(base, d, Q),
           NEW bounds, bounds \in [Tables -> Nat], NEW P, Anchored(d, bounds, P), NEW heads
    PROVE  Held({BuildWatermark(d.gen, bounds, Certify(d, base, bounds), heads)}, d, P, n)
<1> DEFINE w == BuildWatermark(d.gen, bounds, Certify(d, base, bounds), heads)
<1> HIDE DEF w
<1>1. Held({w}, d, P, n)
  BY Certified DEF w
<1> QED
  BY <1>1 DEF w

\* A handle records what holds: its open's frontier is proven as long as the
\* boundary is the one of the open.
LEMMA RecordedOK ==
    ASSUME IInv, NEW h \in Handles, handle[h].step \in {"open", "audit"}, NEW heads,
           NEW w \in RecordedWatermark(h, heads)
    PROVE  Held({w}, db, proven, serial) /\ SidecarOK({w}, db, proven, serial)
<1> DEFINE k == handle[h]
<1>1. serial \in Nat /\ StoreOK(db, serial) /\ HandleOK(k, db, proven, serial)
  BY Zenon DEF IInv
<1>2. /\ k.mayRecord /\ k.gen = db.gen
      /\ w = BuildWatermark(db.gen, k.open, Certify(db, k.applied, k.open), heads)
  BY Zenon DEF RecordedWatermark
<1> HIDE DEF k
<1>3. /\ k.open \in [Tables -> Nat] /\ Held(k.applied, db, proven, serial)
      /\ (\A v \in k.applied : v.gen = k.gen)
  BY <1>1, Zenon DEF HandleOK
<1>4. Anchored(db, k.open, proven)
  BY <1>1, <1>2, Zenon DEF HandleOK, k
<1>5. Base(k.applied, db, proven)
  BY <1>2, <1>3, Zenon DEF Base, Held, WatermarksOK
<1>6. serial \in Nat /\ StoreOK(db, serial)
  BY <1>1
<1>7. k.open \in [Tables -> Nat]
  BY <1>3
<1>8. w = BuildWatermark(db.gen, k.open, Certify(db, k.applied, k.open), heads)
  BY <1>2
<1> QED
  BY <1>4, <1>5, <1>6, <1>7, <1>8, Certified, SMTT(30)

\* What a handle holds after it asked for its watermark.
LEMMA AdoptedOK ==
    ASSUME IInv, NEW h \in Handles
    PROVE  Held(Adopted(h), db, proven, serial)
<1>1. Held(handle[h].certified, db, proven, serial) /\ SidecarOK(sidecar, db, proven, serial)
  BY Zenon DEF IInv, HandleOK
<1>2. ASSUME NEW S, S \subseteq handle[h].certified PROVE Held(S, db, proven, serial)
  BY <1>1, <1>2, Zenon DEF Held, WatermarksOK
<1>3. ASSUME NEW S, \A w \in S : w \in sidecar /\ w.gen = db.gen /\ VerifyBoundaries(db, w)
      PROVE  Held(S, db, proven, serial)
  BY <1>1, <1>3, Zenon DEF Held, SidecarOK, WatermarksOK
<1>4. \/ CertifiedWatermark(h) \subseteq handle[h].certified
      \/ \A w \in CertifiedWatermark(h) : w \in sidecar /\ w.gen = db.gen /\ VerifyBoundaries(db, w)
  BY ZenonT(90) DEF CertifiedWatermark, Applicable
<1>5. Held(CertifiedWatermark(h), db, proven, serial)
  BY <1>2, <1>3, <1>4, Zenon
<1> QED
  BY <1>1, <1>5, Zenon DEF Adopted

LEMMA ReplacedOK ==
    ASSUME IInv, NEW w, SidecarOK({w}, db, proven, serial)
    PROVE  SidecarOK(Replaced(w), db, proven, serial)
  BY Zenon DEF Replaced, IInv

LEMMA ValidateEngineOpenHistoryInv ==
    ASSUME IInv, NEW h \in Handles, ValidateEngineOpenHistory(h)
    PROVE  IInv'
<1> DEFINE ready == [handle[h] EXCEPT !.step = "ready", !.gen = 0, !.applied = {},
                                      !.certified = Adopted(h)]
<1>1. /\ serial \in Nat /\ StoreOK(db, serial) /\ HandleOK(handle[h], db, proven, serial)
      /\ SidecarOK(sidecar, db, proven, serial)
      /\ handle[h].step = "open" /\ UNCHANGED <<db, disk, serial>> /\ proven' = proven
      /\ \/ \E w \in RecordedWatermark(h, SemanticHeads(h)) :
              sidecar' = Replaced(w) /\ handle' = [handle EXCEPT ![h] = [ready EXCEPT !.certified = {w}]]
         \/ handle' = [handle EXCEPT ![h] = ready] /\ sidecar' = sidecar
  <2>1. UNCHANGED <<storeVars, proven, serial>>
    BY Zenon DEF ValidateEngineOpenHistory
  <2>2. UNCHANGED <<db, disk, serial>> /\ proven' = proven
    BY <2>1, ZenonT(90) DEF storeVars
  <2> QED
    BY <2>2, Zenon DEF IInv, ValidateEngineOpenHistory
<1>2. DOMAIN handle[h] = Fields /\ Held(Adopted(h), db, proven, serial) /\ Held({}, db, proven, serial)
  BY <1>1, AdoptedOK, HoldsNone, ZenonT(90) DEF HandleOK
<1>3. /\ DOMAIN ready = Fields /\ ready.step = "ready" /\ ready.gen = 0 /\ ready.open = handle[h].open
      /\ ready.applied = {} /\ ready.certified = Adopted(h) /\ ready.carried = handle[h].carried
  <2> DEFINE o == handle[h]
             c == Adopted(h)
             r == [o EXCEPT !.step = "ready", !.gen = 0, !.applied = {}, !.certified = c]
  <2>1. DOMAIN o = Fields /\ ready = r
    BY <1>2
  <2> HIDE DEF o, c, ready
  <2>2. /\ DOMAIN r = Fields /\ r.step = "ready" /\ r.gen = 0 /\ r.open = o.open
        /\ r.applied = {} /\ r.certified = c /\ r.carried = o.carried
    BY <2>1 DEF Fields
  <2> HIDE DEF r
  <2> QED
    BY <2>1, <2>2, Zenon DEF o, c
<1>4. 0 \in 0 .. db.gen
  <2>1. db.gen \in Nat
    BY <1>1, Zenon DEF StoreOK
  <2> QED
    BY <2>1
<1> HIDE DEF ready
<1>5. ASSUME NEW k, DOMAIN k = Fields, k.step = "ready", k.gen = 0, k.open = ready.open,
             k.applied = {}, Held(k.certified, db, proven, serial), k.carried = ready.carried
      PROVE  HandleOK(k, db, proven, serial)
  <2>1. k.open \in [Tables -> Nat] /\ Held(k.carried, db, proven, serial)
    BY <1>1, <1>3, <1>5, Zenon DEF HandleOK
  <2>2. "ready" \notin {"open", "audit"} /\ "ready" # "proved" /\ "ready" \notin {"expired", "publishing"}
    OBVIOUS
  <2> QED
    BY <1>2, <1>4, <1>5, <2>1, <2>2, Zenon DEF HandleOK
<1>6. CASE handle' = [handle EXCEPT ![h] = ready] /\ sidecar' = sidecar
  <2>1. HandleOK(ready, db, proven, serial)
    BY <1>2, <1>3, <1>5, Zenon
  <2> QED
    BY <1>1, <1>6, <2>1, HandleStep, ZenonT(90)
<1>7. ASSUME NEW w \in RecordedWatermark(h, SemanticHeads(h)),
             sidecar' = Replaced(w), handle' = [handle EXCEPT ![h] = [ready EXCEPT !.certified = {w}]]
      PROVE  IInv'
  <2> DEFINE k == [ready EXCEPT !.certified = {w}]
  <2>1. Held({w}, db, proven, serial) /\ SidecarOK(Replaced(w), db, proven, serial)
    BY <1>1, <1>7, RecordedOK, ReplacedOK, ZenonT(90)
  <2>2. /\ DOMAIN k = Fields /\ k.step = "ready" /\ k.gen = 0 /\ k.open = ready.open
        /\ k.applied = {} /\ k.certified = {w} /\ k.carried = ready.carried
    BY <1>3 DEF Fields
  <2> HIDE DEF k
  <2>3. HandleOK(k, db, proven, serial)
    BY <1>5, <2>1, <2>2, Zenon
  <2>4. handle' = [handle EXCEPT ![h] = k]
    BY <1>7 DEF k
  <2> QED
    BY <1>1, <1>7, <2>1, <2>3, <2>4, HandleStep, ZenonT(90)
<1> QED
  BY <1>1, <1>6, <1>7, Zenon

LEMMA ValidateFullyAndRecordInv ==
    ASSUME IInv, NEW h \in Handles, ValidateFullyAndRecord(h)
    PROVE  IInv'
<1>1. /\ StoreOK(db, serial) /\ SidecarOK(sidecar, db, proven, serial)
      /\ handle[h].step = "audit" /\ handle' = [handle EXCEPT ![h] = Closed]
      /\ UNCHANGED <<storeVars, proven, serial>>
      /\ \/ \E w \in RecordedWatermark(h, SemanticHeads(h)) : sidecar' = Replaced(w)
         \/ sidecar' = sidecar
  BY Zenon DEF IInv, ValidateFullyAndRecord
<1>2. SidecarOK(sidecar', db, proven, serial)
  <2>1. ASSUME NEW w \in RecordedWatermark(h, SemanticHeads(h)), sidecar' = Replaced(w)
        PROVE  SidecarOK(sidecar', db, proven, serial)
    BY <1>1, <2>1, RecordedOK, ReplacedOK, ZenonT(90)
  <2> QED
    BY <1>1, <2>1, Zenon
<1>3. UNCHANGED <<db, disk, serial>> /\ proven' = proven /\ db.gen \in Nat
  BY <1>1 DEF storeVars, StoreOK
<1> QED
  BY <1>1, <1>2, <1>3, ClosedOK, HandleStep, ZenonT(90)

LEMMA CloseInv ==
    ASSUME IInv, NEW h \in Handles, Close(h)
    PROVE  IInv'
<1>1. /\ StoreOK(db, serial) /\ SidecarOK(sidecar, db, proven, serial)
      /\ handle' = [handle EXCEPT ![h] = Closed] /\ UNCHANGED <<storeVars, sidecar, proven, serial>>
  BY Zenon DEF IInv, Close
<1>2. UNCHANGED <<db, disk, serial>> /\ proven' = proven /\ sidecar' = sidecar /\ db.gen \in Nat
  BY <1>1 DEF storeVars, StoreOK
<1> QED
  BY <1>1, <1>2, ClosedOK, HandleStep, ZenonT(90)

LEMMA MoveSidecarAsideInv ==
    ASSUME IInv, MoveSidecarAside
    PROVE  IInv'
<1>1. sidecar' = {} /\ UNCHANGED <<db, disk, handle, proven, serial>>
  BY DEF MoveSidecarAside, storeVars
<1>2. SidecarOK({}, db, proven, serial)
  BY Zenon DEF SidecarOK, WatermarksOK
<1> QED
  BY <1>1, <1>2, ZenonT(90) DEF IInv

LEMMA ObserveRetentionBoundaryInv ==
    ASSUME IInv, NEW h \in Handles, ObserveRetentionBoundary(h)
    PROVE  IInv'
<1> DEFINE o == handle[h]
           k == [o EXCEPT !.step = "observed", !.open = ReanchorBounds(db, @),
                          !.validated = ReanchorBounds(db, @)]
<1>1. /\ serial \in Nat /\ StoreOK(db, serial) /\ HandleOK(o, db, proven, serial)
      /\ SidecarOK(sidecar, db, proven, serial)
      /\ handle' = [handle EXCEPT ![h] = k] /\ UNCHANGED <<storeVars, sidecar, proven, serial>>
  BY Zenon DEF IInv, ObserveRetentionBoundary
<1>2. UNCHANGED <<db, disk, serial>> /\ proven' = proven /\ sidecar' = sidecar
  BY <1>1 DEF storeVars
<1>3. /\ DOMAIN o = Fields /\ o.gen \in 0 .. db.gen /\ o.open \in [Tables -> Nat]
      /\ Held(o.applied, db, proven, serial) /\ Held(o.certified, db, proven, serial)
      /\ Held(o.carried, db, proven, serial) /\ \A w \in o.applied : w.gen = o.gen
  BY <1>1, Zenon DEF HandleOK
<1>4. /\ DOMAIN k = Fields /\ k.step = "observed" /\ k.gen = o.gen /\ k.open = ReanchorBounds(db, o.open)
      /\ k.applied = o.applied /\ k.certified = o.certified /\ k.carried = o.carried
  BY <1>3 DEF Fields
<1>5. ReanchorBounds(db, o.open) \in [Tables -> Nat]
  BY <1>1, <1>3, Reanchored
<1>6. "observed" \notin {"open", "audit"} /\ "observed" # "proved"
      /\ "observed" \notin {"expired", "publishing"}
  OBVIOUS
<1> HIDE DEF k, o
<1>7. HandleOK(k, db, proven, serial)
  BY <1>3, <1>4, <1>5, <1>6, Zenon DEF HandleOK
<1> QED
  BY <1>1, <1>2, <1>7, HandleStep, ZenonT(90)

-----------------------------------------------------------------------------
(* Appending commits. *)

\* The table new is old with a row that follows its rows.
Inserted(old, new, row, n) ==
    \E x \in 1 .. n + 1 :
      /\ DOMAIN new = DOMAIN old \cup {x} /\ new[x] = row
      /\ \A r \in DOMAIN old : r < x /\ new[r] = old[r]

LEMMA InsertFacts ==
    ASSUME NEW n \in Nat, NEW rows, DOMAIN rows \subseteq 1 .. n, NEW row
    PROVE  Inserted(rows, Insert(rows, row), row, n)
<1> DEFINE x == Highest(DOMAIN rows) + 1
<1>1. DOMAIN rows \in SUBSET (0 .. n)
  OBVIOUS
<1>2. Highest(DOMAIN rows) \in 0 .. n /\ \A r \in DOMAIN rows : r <= Highest(DOMAIN rows)
  BY <1>1, HighestFacts
<1>3. x \in 1 .. n + 1 /\ \A r \in DOMAIN rows : r < x
  BY <1>2
<1>4. Insert(rows, row) = [r \in DOMAIN rows \cup {x} |-> IF r = x THEN row ELSE rows[r]]
  BY DEF Insert
<1> HIDE DEF x
<1>5. \A r \in DOMAIN rows : r # x
  BY <1>3
<1> QED
  BY <1>3, <1>4, <1>5 DEF Inserted

\* The store d after one commit on c: the commit's rows are new and the last.
LEMMA AppendedOK ==
    ASSUME NEW n \in Nat, NEW c, StoreOK(c, n), NEW d,
           d = [rows |-> d.rows, floor |-> d.floor, gen |-> d.gen], d.gen = c.gen,
           d.rows = [t \in Tables |-> d.rows[t]],
           \A t \in Tables :
             \/ d.rows[t] = c.rows[t]
             \/ \E row : /\ d.rows[t] = Insert(c.rows[t], row) /\ row.id = n + 1
                         /\ t = "evaluations" =>
                              row = [id |-> row.id, lineage |-> row.lineage, body |-> row.body]
    PROVE  /\ StoreOK(d, n + 1) /\ Extends(c, d)
           /\ \A t \in Tables : \A r \in DOMAIN d.rows[t] \ DOMAIN c.rows[t] : d.rows[t][r].id > n
<1>1. n + 1 \in Nat /\ 1 .. n \subseteq 1 .. n + 1 /\ n + 1 \in 1 .. n + 1 /\ n + 1 > n
  OBVIOUS
<1>2. ASSUME NEW t \in Tables
      PROVE  /\ DOMAIN c.rows[t] \subseteq 1 .. n
             /\ \A r \in DOMAIN c.rows[t] : c.rows[t][r].id \in 1 .. n
  BY Zenon DEF StoreOK
<1>3. ASSUME NEW t \in Tables
      PROVE  /\ DOMAIN d.rows[t] \subseteq 1 .. n + 1
             /\ \A r \in DOMAIN d.rows[t] : d.rows[t][r].id \in 1 .. n + 1
             /\ \A r \in DOMAIN c.rows[t] : r \in DOMAIN d.rows[t] /\ d.rows[t][r] = c.rows[t][r]
             /\ \A r \in DOMAIN d.rows[t] \ DOMAIN c.rows[t] :
                  d.rows[t][r].id > n /\ \A s \in DOMAIN c.rows[t] : s < r
  <2>1. CASE d.rows[t] = c.rows[t]
    BY <1>1, <1>2, <2>1, Zenon
  <2>2. ASSUME NEW row, d.rows[t] = Insert(c.rows[t], row), row.id = n + 1
        PROVE  /\ DOMAIN d.rows[t] \subseteq 1 .. n + 1
               /\ \A r \in DOMAIN d.rows[t] : d.rows[t][r].id \in 1 .. n + 1
               /\ \A r \in DOMAIN c.rows[t] : r \in DOMAIN d.rows[t] /\ d.rows[t][r] = c.rows[t][r]
               /\ \A r \in DOMAIN d.rows[t] \ DOMAIN c.rows[t] :
                    d.rows[t][r].id > n /\ \A s \in DOMAIN c.rows[t] : s < r
    <3>0. DOMAIN c.rows[t] \subseteq 1 .. n
      BY <1>2, Zenon
    <3>1. PICK x \in 1 .. n + 1 :
             /\ DOMAIN d.rows[t] = DOMAIN c.rows[t] \cup {x} /\ d.rows[t][x] = row
             /\ \A r \in DOMAIN c.rows[t] : r < x /\ d.rows[t][r] = c.rows[t][r]
      <4>1. Inserted(c.rows[t], d.rows[t], row, n)
        BY <2>2, <3>0, InsertFacts, ZenonT(90)
      <4> QED
        BY <4>1, Zenon DEF Inserted
    <3> QED
      BY <1>1, <1>2, <2>2, <3>1, ZenonT(90)
  <2> QED
    BY <2>1, <2>2, Zenon
<1>4. ASSUME NEW s \in DOMAIN d.rows["evaluations"]
      PROVE  d.rows["evaluations"][s] = [id |-> d.rows["evaluations"][s].id,
                                         lineage |-> d.rows["evaluations"][s].lineage,
                                         body |-> d.rows["evaluations"][s].body]
  <2> DEFINE e == "evaluations"
  <2>1. e \in Tables
    BY DEF Tables
  <2>2. \A r \in DOMAIN c.rows[e] :
          c.rows[e][r] = [id |-> c.rows[e][r].id, lineage |-> c.rows[e][r].lineage,
                          body |-> c.rows[e][r].body]
    BY Zenon DEF StoreOK
  <2>3. CASE d.rows[e] = c.rows[e]
    BY <1>4, <2>2, <2>3, Zenon
  <2>4. ASSUME NEW row, d.rows[e] = Insert(c.rows[e], row),
               row = [id |-> row.id, lineage |-> row.lineage, body |-> row.body]
        PROVE  d.rows[e][s] = [id |-> d.rows[e][s].id, lineage |-> d.rows[e][s].lineage,
                               body |-> d.rows[e][s].body]
    <3>0. DOMAIN c.rows[e] \subseteq 1 .. n
      BY <1>2, <2>1, Zenon
    <3>1. PICK x \in 1 .. n + 1 :
             /\ DOMAIN d.rows[e] = DOMAIN c.rows[e] \cup {x} /\ d.rows[e][x] = row
             /\ \A r \in DOMAIN c.rows[e] : r < x /\ d.rows[e][r] = c.rows[e][r]
      <4>1. Inserted(c.rows[e], d.rows[e], row, n)
        BY <2>4, <3>0, InsertFacts, ZenonT(90)
      <4> QED
        BY <4>1, Zenon DEF Inserted
    <3>2. CASE s = x
      BY <2>4, <3>1, <3>2, Zenon
    <3>3. CASE s \in DOMAIN c.rows[e]
      BY <2>2, <3>1, <3>3, Zenon
    <3> QED
      BY <1>4, <3>1, <3>2, <3>3, Zenon
  <2> QED
    BY <2>1, <2>3, <2>4, Zenon
<1>5. d.gen \in Nat
  BY Zenon DEF StoreOK
<1>6. StoreOK(d, n + 1)
  BY <1>3, <1>4, <1>5, Zenon DEF StoreOK
<1>7. Extends(c, d)
  BY <1>3, Zenon DEF Extends
<1> QED
  BY <1>3, <1>6, <1>7, Zenon

LEMMA StoreGrown ==
    ASSUME NEW n \in Nat, NEW d, StoreOK(d, n)
    PROVE  StoreOK(d, n + 1)
<1>1. 1 .. n \subseteq 1 .. n + 1
  OBVIOUS
<1> QED
  BY <1>1, Zenon DEF StoreOK

\* A commit that appends, seen by every handle.
LEMMA AppendStep ==
    ASSUME IInv, StoreOK(db', serial + 1), Extends(db, db'), db'.gen = db.gen,
           \A t \in Tables : \A r \in DOMAIN db'.rows[t] \ DOMAIN db.rows[t] : db'.rows[t][r].id > serial,
           disk' \in {db, db'}, serial' = serial + 1, sidecar' = sidecar, proven' = proven,
           handle' = [g \in Handles |-> handle'[g]],
           \A g \in Handles : HandleOK(handle'[g], db, proven, serial)
    PROVE  IInv'
<1>1. serial \in Nat /\ StoreOK(db, serial) /\ SidecarOK(sidecar, db, proven, serial)
  BY Zenon DEF IInv
<1>2. serial + 1 \in Nat /\ serial <= serial + 1 /\ StoreOK(db, serial + 1) /\ proven \subseteq proven
  BY <1>1, StoreGrown
<1>3. \A g \in Handles : HandleOK(handle'[g], db', proven, serial + 1)
  BY <1>1, <1>2, HandleGrown
<1>4. SidecarOK(sidecar, db', proven, serial + 1)
  BY <1>1, <1>2, SidecarGrown
<1>5. StoreOK(disk', serial + 1) /\ disk'.gen = db'.gen /\ Extends(disk', db')
  BY <1>2, ExtendsSelf, Zenon
<1> QED
  BY <1>2, <1>3, <1>4, <1>5, ZenonT(90) DEF IInv

LEMMA AppendInv ==
    ASSUME IInv, NEW h \in Handles, Append(h)
    PROVE  IInv'
<1> DEFINE rows == [db.rows EXCEPT !["runs"] = Insert(@, [id |-> serial + 1])]
           new == Appended(rows)
<1>1. /\ serial \in Nat /\ StoreOK(db, serial) /\ serial' = serial + 1
      /\ db' = new /\ disk' \in {db, new} /\ sidecar' = sidecar /\ handle' = handle /\ proven' = proven
      /\ handle = [g \in Handles |-> handle[g]] /\ \A g \in Handles : HandleOK(handle[g], db, proven, serial)
  <2>1. Commit(new) /\ UNCHANGED <<sidecar, handle, proven>> /\ serial' = serial + 1
    BY Zenon DEF Append
  <2>2. db' = new /\ disk' \in {db, new}
    BY <2>1, Zenon DEF Commit
  <2> HIDE DEF new
  <2>3. sidecar' = sidecar /\ handle' = handle /\ proven' = proven
    BY <2>1
  <2> QED
    BY <2>1, <2>2, <2>3, Zenon DEF IInv
<1>2. /\ db = [rows |-> db.rows, floor |-> db.floor, gen |-> db.gen]
      /\ db.rows = [t \in Tables |-> db.rows[t]]
  BY <1>1, Zenon DEF StoreOK
<1>3. new = [rows |-> rows, floor |-> db.floor, gen |-> db.gen]
  BY <1>2 DEF Appended
<1>4. /\ rows = [t \in Tables |-> rows[t]] /\ rows["evaluations"] = db.rows["evaluations"]
      /\ rows["runs"] = Insert(db.rows["runs"], [id |-> serial + 1])
  BY <1>2 DEF Tables
<1> HIDE DEF rows, new
<1>5. /\ new = [rows |-> new.rows, floor |-> new.floor, gen |-> new.gen] /\ new.gen = db.gen
      /\ new.rows = rows
  BY <1>3
<1>6. ASSUME NEW t \in Tables
      PROVE  \/ new.rows[t] = db.rows[t]
             \/ \E row : /\ new.rows[t] = Insert(db.rows[t], row) /\ row.id = serial + 1
                         /\ t = "evaluations" =>
                              row = [id |-> row.id, lineage |-> row.lineage, body |-> row.body]
  <2>1. CASE t = "evaluations"
    BY <1>4, <1>5, <2>1, Zenon
  <2>2. CASE t = "runs"
    <3>1. "runs" # "evaluations" /\ [id |-> serial + 1].id = serial + 1
      OBVIOUS
    <3> QED
      BY <1>4, <1>5, <2>2, <3>1, Zenon
  <2> QED
    BY <2>1, <2>2, Zenon DEF Tables
<1>7. new.rows = [t \in Tables |-> new.rows[t]]
  BY <1>4, <1>5, Zenon
<1>8. /\ StoreOK(new, serial + 1) /\ Extends(db, new)
      /\ \A t \in Tables : \A r \in DOMAIN new.rows[t] \ DOMAIN db.rows[t] : new.rows[t][r].id > serial
  BY <1>1, <1>5, <1>6, <1>7, AppendedOK, ZenonT(90)
<1> QED
  BY <1>1, <1>5, <1>8, AppendStep

LEMMA CommitValidatedInv ==
    ASSUME IInv, NEW h \in Handles, NEW l \in Lineages, CommitValidated(h, l)
    PROVE  IInv'
<1> DEFINE full == [id |-> serial + 1, lineage |-> l, body |-> "full"]
           run == [id |-> serial + 1]
           rows == [db.rows EXCEPT !["evaluations"] = Insert(@, full), !["runs"] = Insert(@, run)]
           new == Appended(rows)
           k == [handle[h] EXCEPT !.step = "ready", !.validated = CaptureBounds(new)]
<1>1. /\ serial \in Nat /\ StoreOK(db, serial) /\ serial' = serial + 1
      /\ db' = new /\ disk' \in {db, new} /\ sidecar' = sidecar /\ proven' = proven
      /\ handle' = [handle EXCEPT ![h] = k]
      /\ handle = [g \in Handles |-> handle[g]] /\ \A g \in Handles : HandleOK(handle[g], db, proven, serial)
  <2>1. Commit(new) /\ UNCHANGED <<sidecar, proven>> /\ serial' = serial + 1
        /\ handle' = [handle EXCEPT ![h] = k]
    BY Zenon DEF CommitValidated
  <2>2. db' = new /\ disk' \in {db, new}
    BY <2>1, Zenon DEF Commit
  <2> HIDE DEF new, k
  <2>3. sidecar' = sidecar /\ proven' = proven
    BY <2>1
  <2> QED
    BY <2>1, <2>2, <2>3, Zenon DEF IInv
<1>2. /\ db = [rows |-> db.rows, floor |-> db.floor, gen |-> db.gen]
      /\ db.rows = [t \in Tables |-> db.rows[t]]
  BY <1>1, Zenon DEF StoreOK
<1>3. new = [rows |-> rows, floor |-> db.floor, gen |-> db.gen]
  BY <1>2 DEF Appended
<1>15. /\ full.id = serial + 1 /\ run.id = serial + 1
      /\ full = [id |-> full.id, lineage |-> full.lineage, body |-> full.body]
  OBVIOUS
<1> HIDE DEF full, run
<1>4. /\ rows = [t \in Tables |-> rows[t]] /\ rows["evaluations"] = Insert(db.rows["evaluations"], full)
      /\ rows["runs"] = Insert(db.rows["runs"], run)
  BY <1>2, ZenonT(90) DEF Tables
<1> DEFINE c == CaptureBounds(new)
           o == handle[h]
<1> HIDE DEF rows, new, c, o
<1>5. /\ new = [rows |-> new.rows, floor |-> new.floor, gen |-> new.gen] /\ new.gen = db.gen
      /\ new.rows = rows
  BY <1>3
<1>6. ASSUME NEW t \in Tables
      PROVE  \/ new.rows[t] = db.rows[t]
             \/ \E row : /\ new.rows[t] = Insert(db.rows[t], row) /\ row.id = serial + 1
                         /\ t = "evaluations" =>
                              row = [id |-> row.id, lineage |-> row.lineage, body |-> row.body]
  <2>1. CASE t = "evaluations"
    BY <1>4, <1>5, <1>15, <2>1, Zenon
  <2>2. CASE t = "runs"
    <3>1. "runs" # "evaluations"
      OBVIOUS
    <3> QED
      BY <1>4, <1>5, <1>15, <2>2, <3>1, Zenon
  <2> QED
    BY <2>1, <2>2, Zenon DEF Tables
<1>7. new.rows = [t \in Tables |-> new.rows[t]]
  BY <1>4, <1>5, Zenon
<1>8. /\ StoreOK(new, serial + 1) /\ Extends(db, new)
      /\ \A t \in Tables : \A r \in DOMAIN new.rows[t] \ DOMAIN db.rows[t] : new.rows[t][r].id > serial
  BY <1>1, <1>5, <1>6, <1>7, AppendedOK
<1>9. HandleOK(o, db, proven, serial) /\ DOMAIN o = Fields /\ k = [o EXCEPT !.step = "ready", !.validated = c]
  BY <1>1, Zenon DEF HandleOK, o, c
<1>10. /\ DOMAIN k = Fields /\ k.step = "ready" /\ k.gen = o.gen /\ k.open = o.open
       /\ k.applied = o.applied /\ k.certified = o.certified /\ k.carried = o.carried
  <2> HIDE DEF k
  <2> QED
    BY <1>9 DEF Fields
<1> HIDE DEF k
<1>11. "ready" \notin {"open", "audit"} /\ "ready" # "proved" /\ "ready" \notin {"expired", "publishing"}
  OBVIOUS
<1>12. HandleOK(k, db, proven, serial)
  BY <1>9, <1>10, <1>11, Zenon DEF HandleOK
<1>13. /\ handle' = [g \in Handles |-> handle'[g]] /\ handle'[h] = k
       /\ \A g \in Handles \ {h} : handle'[g] = handle[g]
  BY <1>1
<1>14. \A g \in Handles : HandleOK(handle'[g], db, proven, serial)
  BY <1>1, <1>12, <1>13, Zenon
<1> QED
  BY <1>1, <1>5, <1>8, <1>13, <1>14, AppendStep

-----------------------------------------------------------------------------
(* Expiry. *)

\* What a handle proves before its expiry is its promoted certification.
LEMMA ExpireProveInv ==
    ASSUME IInv, NEW h \in Handles, ExpireProve(h)
    PROVE  IInv'
<1> DEFINE o == handle[h]
           adopted == Adopted(h)
           base == {w \in adopted : o.mayRecord /\ w.gen = db.gen}
           heads == SemanticHeads(h)
           bounds == CaptureBounds(db)
           wm == BuildWatermark(db.gen, bounds, Certify(db, base, bounds), heads)
           promoted == PromotedCertification(base, heads)
           version == DataVersion
           kept == [o EXCEPT !.step = "proved", !.version = version, !.certified = adopted]
           moved == [o EXCEPT !.step = "proved", !.version = version, !.open = bounds,
                              !.validated = bounds, !.certified = promoted]
<1>1. /\ serial \in Nat /\ StoreOK(db, serial) /\ HandleOK(o, db, proven, serial) /\ db.gen \in Nat
      /\ UNCHANGED <<db, disk, serial>> /\ sidecar' = sidecar
      /\ IF promoted = {} THEN handle' = [handle EXCEPT ![h] = kept] /\ proven' = proven
                          ELSE handle' = [handle EXCEPT ![h] = moved] /\ proven' = proven \cup Beyond(db, base)
  <2>1. UNCHANGED <<storeVars, sidecar, serial>> /\ db.gen \in Nat
    BY DEF ExpireProve, IInv, StoreOK
  <2>2. UNCHANGED <<db, disk, serial>> /\ sidecar' = sidecar
    BY <2>1 DEF storeVars
  <2>3. IF promoted = {} THEN handle' = [handle EXCEPT ![h] = kept] /\ proven' = proven
                         ELSE handle' = [handle EXCEPT ![h] = moved] /\ proven' = proven \cup Beyond(db, base)
    BY Zenon DEF ExpireProve
  <2> QED
    BY <2>1, <2>2, <2>3, Zenon DEF IInv
<1>2. promoted = {wm : w \in {b \in base : Within(b.frontier, bounds)}}
  BY Zenon DEF PromotedCertification
<1> HIDE DEF promoted, wm, heads, version, o
<1>3. Held(adopted, db, proven, serial)
  BY AdoptedOK
<1> HIDE DEF adopted
<1>4. Base(base, db, proven)
  BY <1>3, Zenon DEF Held, WatermarksOK, Base
<1>5. /\ DOMAIN o = Fields /\ o.gen \in 0 .. db.gen /\ o.open \in [Tables -> Nat]
      /\ \A w \in o.applied : w.gen = o.gen
  BY <1>1, Zenon DEF HandleOK
<1>6. "proved" \notin {"open", "audit"} /\ "proved" \notin {"expired", "publishing"}
  OBVIOUS
<1>7. CASE promoted = {}
  <2>1. base = {}
    <3> SUFFICES ASSUME NEW w \in base PROVE FALSE
      BY Zenon
    <3>1. w.frontier \in [Tables -> Nat] /\ Anchored(db, w.frontier, proven)
      BY <1>4, Zenon DEF Base, Sound
    <3>2. \A t \in Tables : bounds[t] = Highest(DOMAIN db.rows[t])
      BY <1>1, Captured
    <3> HIDE DEF bounds, base
    <3>3. Within(w.frontier, bounds)
      BY <3>1, <3>2, Zenon DEF Anchored, Within
    <3> QED
      BY <1>2, <1>7, <3>3, Zenon
  <2>2. /\ DOMAIN kept = Fields /\ kept.step = "proved" /\ kept.gen = o.gen /\ kept.open = o.open
        /\ kept.applied = o.applied /\ kept.certified = adopted /\ kept.carried = o.carried
        /\ kept.mayRecord = o.mayRecord
    BY <1>5 DEF Fields
  <2>3. o.mayRecord => ~ \E w \in adopted : w.gen = db.gen
    BY <2>1, Zenon
  <2> HIDE DEF kept, base
  <2>4. Held(o.applied, db, proven, serial) /\ Held(o.carried, db, proven, serial)
    BY <1>1, Zenon DEF HandleOK
  <2>5. HandleOK(kept, db, proven, serial)
    BY <1>3, <1>5, <1>6, <2>2, <2>3, <2>4, ZenonT(90) DEF HandleOK
  <2>6. handle' = [handle EXCEPT ![h] = kept] /\ proven' = proven
    BY <1>1, <1>7, Zenon
  <2> QED
    BY <1>1, <2>5, <2>6, HandleStep, SidecarKept, ZenonT(90)
<1>8. CASE promoted # {}
  <2>1. handle' = [handle EXCEPT ![h] = moved] /\ proven' = proven \cup Beyond(db, base)
    BY <1>1, <1>8, Zenon
  <2> HIDE DEF base
  <2>2. proven \subseteq proven' /\ Anchored(db, bounds, proven') /\ bounds \in [Tables -> Nat]
    BY <1>1, <1>4, <2>1, Validated, Captured
  <2> HIDE DEF bounds
  <2>3. Held({wm}, db, proven', serial)
    <3>1. wm = BuildWatermark(db.gen, bounds, Certify(db, base, bounds), heads)
      BY DEF wm
    <3>2. serial \in Nat /\ StoreOK(db, serial)
      BY <1>1, Zenon
    <3>3. Held({BuildWatermark(db.gen, bounds, Certify(db, base, bounds), heads)}, db, proven', serial)
      BY <1>4, <2>2, <3>2, CertifiedHeld, ZenonT(90)
    <3> QED
      BY <3>1, <3>3, Zenon
  <2>4. promoted \subseteq {wm}
    BY <1>2, Zenon
  <2>5. Held(promoted, db, proven', serial)
    BY <2>3, <2>4, Zenon DEF Held, WatermarksOK
  <2>6. HandleOK(o, db, proven', serial)
    BY <1>1, <2>2, HandleGrown, ExtendsSelf
  <2>7. Held(o.applied, db, proven', serial) /\ Held(o.carried, db, proven', serial)
    BY <2>6, Zenon DEF HandleOK
  <2>8. /\ DOMAIN moved = Fields /\ moved.step = "proved" /\ moved.gen = o.gen /\ moved.open = bounds
        /\ moved.applied = o.applied /\ moved.certified = promoted /\ moved.carried = o.carried
    BY <1>5 DEF Fields
  <2> HIDE DEF moved
  <2>9. HandleOK(moved, db, proven', serial)
    BY <1>5, <1>6, <2>2, <2>5, <2>7, <2>8, ZenonT(90) DEF HandleOK
  <2> QED
    BY <1>1, <2>1, <2>2, <2>9, HandleStep, SidecarKept, ZenonT(90)
<1> QED
  BY <1>7, <1>8

\* An expiry deletes rows, and the rows it rewrites keep their identities.
LEMMA ExpiredOK ==
    ASSUME NEW n \in Nat, StoreOK(db, n), NEW floor, NEW dead, NEW compact, NEW gone, NEW new,
           new = Expired(floor, dead, compact, gone)
    PROVE  /\ StoreOK(new, n) /\ new.gen = db.gen + 1
           /\ \A t \in Tables : \A r \in DOMAIN new.rows[t] :
                r \in DOMAIN db.rows[t] /\ new.rows[t][r].id = db.rows[t][r].id
<1> DEFINE ev == db.rows["evaluations"]
           evs == [s \in DOMAIN ev \ (dead \ compact) |->
                     IF s \in compact THEN [ev[s] EXCEPT !.body = "compact"] ELSE ev[s]]
           runs == [r \in DOMAIN db.rows["runs"] \ gone |-> db.rows["runs"][r]]
           rows == [evaluations |-> evs, runs |-> runs]
<1>1. /\ \A s \in DOMAIN ev : ev[s] = [id |-> ev[s].id, lineage |-> ev[s].lineage, body |-> ev[s].body]
      /\ db.gen \in Nat
      /\ \A t \in Tables : /\ DOMAIN db.rows[t] \subseteq 1 .. n
                           /\ \A r \in DOMAIN db.rows[t] : db.rows[t][r].id \in 1 .. n
  BY Zenon DEF StoreOK
<1>2. new = [rows |-> rows, floor |-> floor, gen |-> db.gen + 1]
  BY Zenon DEF Expired
<1>3. ASSUME NEW s \in DOMAIN evs
      PROVE  /\ s \in DOMAIN ev /\ evs[s].id = ev[s].id
             /\ evs[s] = [id |-> evs[s].id, lineage |-> evs[s].lineage, body |-> evs[s].body]
  <2>1. s \in DOMAIN ev /\ evs[s] = IF s \in compact THEN [ev[s] EXCEPT !.body = "compact"] ELSE ev[s]
    BY <1>3
  <2> DEFINE e == ev[s]
  <2>2. e = [id |-> e.id, lineage |-> e.lineage, body |-> e.body]
    BY <1>1, <2>1, Zenon
  <2> DEFINE f == evs[s]
  <2>3. f = IF s \in compact THEN [e EXCEPT !.body = "compact"] ELSE e
    BY <2>1, Zenon
  <2> HIDE DEF e, f
  <2>4. f.id = e.id /\ f = [id |-> f.id, lineage |-> f.lineage, body |-> f.body]
    BY <2>2, <2>3
  <2> QED
    BY <2>1, <2>4, Zenon DEF e, f
<1>4. ASSUME NEW r \in DOMAIN runs
      PROVE  r \in DOMAIN db.rows["runs"] /\ runs[r] = db.rows["runs"][r]
  BY <1>4
<1> HIDE DEF evs, runs
<1>5. rows = [t \in Tables |-> rows[t]] /\ rows["evaluations"] = evs /\ rows["runs"] = runs
  BY DEF Tables
<1> HIDE DEF rows
<1>6. /\ new = [rows |-> new.rows, floor |-> new.floor, gen |-> new.gen]
      /\ new.rows = rows /\ new.gen = db.gen + 1 /\ db.gen + 1 \in Nat
  BY <1>1, <1>2
<1>7. ASSUME NEW t \in Tables, NEW r \in DOMAIN rows[t]
      PROVE  r \in DOMAIN db.rows[t] /\ rows[t][r].id = db.rows[t][r].id
  <2>1. CASE t = "evaluations"
    BY <1>3, <1>5, <1>7, <2>1, Zenon
  <2>2. CASE t = "runs"
    BY <1>4, <1>5, <1>7, <2>2, Zenon
  <2> QED
    BY <2>1, <2>2, Zenon DEF Tables
<1>8. \A t \in Tables : /\ DOMAIN rows[t] \subseteq 1 .. n
                        /\ \A r \in DOMAIN rows[t] : rows[t][r].id \in 1 .. n
  BY <1>1, <1>7, Zenon
<1>9. \A s \in DOMAIN rows["evaluations"] :
        rows["evaluations"][s] = [id |-> rows["evaluations"][s].id,
                                  lineage |-> rows["evaluations"][s].lineage,
                                  body |-> rows["evaluations"][s].body]
  BY <1>3, <1>5, Zenon
<1>10. StoreOK(new, n)
  BY <1>5, <1>6, <1>8, <1>9, Zenon DEF StoreOK
<1> QED
  BY <1>6, <1>7, <1>10, Zenon

\* A proven frontier, moved to the surviving rows, is proven after an expiry.
LEMMA AnchorsCarried ==
    ASSUME NEW n \in Nat, NEW new, StoreOK(new, n), NEW frontier \in [Tables -> Nat], NEW P,
           Anchored(db, frontier, P),
           \A t \in Tables : \A r \in DOMAIN new.rows[t] :
             r \in DOMAIN db.rows[t] /\ new.rows[t][r].id = db.rows[t][r].id
    PROVE  Anchored(new, ReanchorBounds(new, frontier), P)
<1> SUFFICES ASSUME NEW t \in Tables
             PROVE  /\ ReanchorBounds(new, frontier)[t] <= Highest(DOMAIN new.rows[t])
                    /\ \A r \in DOMAIN new.rows[t] :
                         r <= ReanchorBounds(new, frontier)[t] => <<t, new.rows[t][r].id>> \in P
  BY Zenon DEF Anchored
<1>1. /\ ReanchorBounds(new, frontier)[t] <= Highest(DOMAIN new.rows[t])
      /\ \A r \in DOMAIN new.rows[t] : r <= ReanchorBounds(new, frontier)[t] <=> r <= frontier[t]
  BY Reanchored
<1>2. \A r \in DOMAIN db.rows[t] : r <= frontier[t] => <<t, db.rows[t][r].id>> \in P
  BY Zenon DEF Anchored
<1> QED
  BY <1>1, <1>2, Zenon

\* A carried watermark is sound after the expiry: what the accumulator loses
\* and gains is what the rows it covers lose and gain.
LEMMA CarriedOK ==
    ASSUME NEW n \in Nat, NEW new, StoreOK(new, n), NEW P, NEW w, Sound(db, w, P),
           w.frontier \in [Tables -> Nat],
           \A t \in Tables : \A r \in DOMAIN new.rows[t] :
             r \in DOMAIN db.rows[t] /\ new.rows[t][r].id = db.rows[t][r].id,
           NEW dead, NEW S, S = Carry(w, new, dead)
    PROVE  Held(S, new, P, n)
<1> DEFINE f == ReanchorBounds(new, w.frontier)
           acc == [t \in Tables |->
                     (w.accumulator[t] \ (Elements(db, t, 0, w.frontier[t]) \ Elements(new, t, 0, w.frontier[t])))
                       \cup (Elements(new, t, 0, w.frontier[t]) \ Elements(db, t, 0, w.frontier[t]))]
           heads == {k \in w.heads : \A l \in Lineages : k[l] \notin dead}
           cw == BuildWatermark(new.gen, f, acc, heads)
<1>1. S \subseteq {cw}
  BY ZenonT(90) DEF Carry
<1>2. cw.gen = new.gen /\ cw.frontier = f /\ cw.accumulator = acc
  BY ZenonT(90) DEF BuildWatermark
<1> HIDE DEF cw
<1>3. ASSUME NEW t \in Tables PROVE acc[t] = Elements(new, t, 0, f[t])
  <2> DEFINE old == Elements(db, t, 0, w.frontier[t])
             now == Elements(new, t, 0, w.frontier[t])
  <2>1. w.accumulator[t] = old
    BY Zenon DEF Sound
  <2>2. Elements(new, t, 0, f[t]) = now
    BY Reanchored, ZenonT(90)
  <2>3. acc[t] = (w.accumulator[t] \ (old \ now)) \cup (now \ old)
    BY ZenonT(90)
  <2> HIDE DEF old, now, acc
  <2> QED
    BY <2>1, <2>2, <2>3
<1> HIDE DEF acc
<1>4. f \in [Tables -> Nat] /\ Anchored(new, f, P)
  BY Reanchored, AnchorsCarried DEF Sound
<1> HIDE DEF f
<1>5. Sound(new, cw, P)
  BY <1>2, <1>3, <1>4, Zenon DEF Sound
<1>6. ASSUME NEW t \in Tables, NEW e \in acc[t] PROVE e[2].id \in 1 .. n
  <2>1. PICK r \in DOMAIN new.rows[t] : e = <<r, new.rows[t][r]>>
    BY <1>3, <1>6, ElementsOf
  <2>2. new.rows[t][r].id \in 1 .. n
    BY Zenon DEF StoreOK
  <2> QED
    BY <2>1, <2>2, ZenonT(90)
<1>7. new.gen \in 0 .. new.gen
  BY DEF StoreOK
<1> QED
  BY <1>1, <1>2, <1>4, <1>5, <1>6, <1>7, ZenonT(90) DEF Held, WatermarksOK

LEMMA ExpireCommitInv ==
    ASSUME IInv, NEW h \in Handles, ExpireCommit(h)
    PROVE  IInv'
<1> DEFINE o == handle[h]
<1>1. /\ serial \in Nat /\ StoreOK(db, serial) /\ HandleOK(o, db, proven, serial)
      /\ SidecarOK(sidecar, db, proven, serial) /\ o.step = "proved"
      /\ handle = [g \in Handles |-> handle[g]] /\ (\A g \in Handles : HandleOK(handle[g], db, proven, serial))
      /\ sidecar' = sidecar /\ proven' = proven /\ serial' = serial
  <2>1. UNCHANGED <<sidecar, proven, serial>> /\ o.step = "proved"
    BY Zenon DEF ExpireCommit
  <2>2. sidecar' = sidecar /\ proven' = proven /\ serial' = serial
    BY <2>1
  <2> QED
    BY <2>1, <2>2, Zenon DEF IInv
<1>2. /\ DOMAIN o = Fields /\ o.gen \in 0 .. db.gen /\ o.open \in [Tables -> Nat]
      /\ Held(o.applied, db, proven, serial) /\ Held(o.certified, db, proven, serial)
      /\ Held(o.carried, db, proven, serial) /\ \A w \in o.applied : w.gen = o.gen
  BY <1>1, Zenon DEF HandleOK
<1>3. CASE handle' = [handle EXCEPT ![h] = [o EXCEPT !.step = "ready", !.version = 0]] /\ UNCHANGED storeVars
  <2> DEFINE k == [o EXCEPT !.step = "ready", !.version = 0]
  <2> HIDE DEF o
  <2>1. /\ DOMAIN k = Fields /\ k.step = "ready" /\ k.gen = o.gen /\ k.open = o.open
        /\ k.applied = o.applied /\ k.certified = o.certified /\ k.carried = o.carried
    BY <1>2 DEF Fields
  <2>2. "ready" \notin {"open", "audit"} /\ "ready" # "proved" /\ "ready" \notin {"expired", "publishing"}
    OBVIOUS
  <2>3. UNCHANGED <<db, disk>> /\ handle' = [handle EXCEPT ![h] = k]
    BY <1>3 DEF storeVars
  <2> HIDE DEF k
  <2>4. HandleOK(k, db, proven, serial)
    BY <1>2, <2>1, <2>2, Zenon DEF HandleOK
  <2> QED
    BY <1>1, <2>3, <2>4, HandleStep
<1>4. ASSUME NEW floor, NEW gone, NEW dead, NEW compact,
             db' = Expired(floor, dead, compact, gone), disk' = Expired(floor, dead, compact, gone),
             handle' = [handle EXCEPT ![h] =
               [@ EXCEPT !.step = "expired", !.version = 0,
                         !.open = ReanchorBounds(Expired(floor, dead, compact, gone), handle[h].open),
                         !.validated = ReanchorBounds(Expired(floor, dead, compact, gone), handle[h].validated),
                         !.carried = UNION {Carry(w, Expired(floor, dead, compact, gone), dead) :
                                              w \in CarriableWatermark(h)}]]
      PROVE  IInv'
  <2> DEFINE new == Expired(floor, dead, compact, gone)
             moved == ReanchorBounds(new, o.open)
             valid == ReanchorBounds(new, o.validated)
             carried == UNION {Carry(w, new, dead) : w \in CarriableWatermark(h)}
             k == [o EXCEPT !.step = "expired", !.version = 0, !.open = moved,
                            !.validated = valid, !.carried = carried]
  <2>0. db' = new /\ disk' = new
    BY <1>4, Zenon
  <2>1. /\ StoreOK(new, serial) /\ new.gen = db.gen + 1
        /\ \A t \in Tables : \A r \in DOMAIN new.rows[t] :
             r \in DOMAIN db.rows[t] /\ new.rows[t][r].id = db.rows[t][r].id
    BY <1>1, ExpiredOK
  <2>2. handle' = [handle EXCEPT ![h] = k]
    BY <1>4, Zenon
  <2> HIDE DEF new
  <2>3. serial <= serial /\ new.gen \in Nat
    BY <1>1, <2>1 DEF StoreOK
  <2>4. \A g \in Handles : HandleOK(handle[g], new, proven, serial)
    BY <1>1, <2>1, <2>3, HandleExpired
  <2>5. SidecarOK(sidecar, new, proven, serial)
    BY <1>1, <2>1, <2>3, SidecarExpired
  <2>6. CarriableWatermark(h) \subseteq {w \in o.certified : o.mayRecord /\ w.gen = db.gen}
    BY Zenon DEF CarriableWatermark
  <2>7. \A v, w \in CarriableWatermark(h) : v = w
    BY <1>2, <2>6, Zenon DEF Held, WatermarksOK
  <2>8. ASSUME NEW w \in CarriableWatermark(h)
        PROVE  /\ Held(Carry(w, new, dead), new, proven, serial) /\ carried = Carry(w, new, dead)
               /\ Anchored(new, moved, proven)
    <3>1. o.mayRecord /\ w \in o.certified /\ w.gen = db.gen
      BY <2>6, <2>8, Zenon
    <3>2. Sound(db, w, proven) /\ w.frontier \in [Tables -> Nat]
      BY <1>2, <3>1, Zenon DEF Held, WatermarksOK
    <3>3. Anchored(db, o.open, proven)
      BY <1>1, <3>1, Zenon DEF HandleOK
    <3> HIDE DEF o
    <3>4. Anchored(new, moved, proven)
      BY <1>1, <1>2, <2>1, <3>3, AnchorsCarried, ZenonT(90)
    <3>5. Held(Carry(w, new, dead), new, proven, serial)
      BY <1>1, <2>1, <3>2, CarriedOK
    <3>6. CarriableWatermark(h) = {w}
      BY <2>7, <2>8, Zenon
    <3>7. carried = Carry(w, new, dead)
      BY <3>6
    <3> QED
      BY <3>4, <3>5, <3>7
  <2>9. Held(carried, new, proven, serial) /\ (carried # {} => Anchored(new, moved, proven))
    <3>1. CASE CarriableWatermark(h) = {}
      <4>1. carried = {}
        BY <3>1
      <4> HIDE DEF carried, moved, k
      <4> QED
        BY <4>1, HoldsNone, Zenon
    <3>2. CASE CarriableWatermark(h) # {}
      <4> HIDE DEF carried, moved, k
      <4>1. PICK w \in CarriableWatermark(h) : TRUE
        BY <3>2, Zenon
      <4>2. /\ Held(Carry(w, new, dead), new, proven, serial) /\ carried = Carry(w, new, dead)
            /\ Anchored(new, moved, proven)
        BY <2>8, <4>1, Zenon
      <4> QED
        BY <4>2, Zenon
    <3> QED
      BY <3>1, <3>2
  <2>10. moved \in [Tables -> Nat]
    <3> HIDE DEF o
    <3> QED
      BY <1>1, <1>2, <2>1, Reanchored
  <2>11. HandleOK(o, new, proven, serial)
    BY <2>4
  <2>12. /\ o.gen \in 0 .. new.gen /\ Held(o.applied, new, proven, serial)
         /\ Held(o.certified, new, proven, serial)
    BY <2>11, Zenon DEF HandleOK
  <2> HIDE DEF o, moved, valid, carried
  <2>13. /\ DOMAIN k = Fields /\ k.step = "expired" /\ k.gen = o.gen /\ k.open = moved
         /\ k.applied = o.applied /\ k.certified = o.certified /\ k.carried = carried
    BY <1>2 DEF Fields
  <2> HIDE DEF k
  <2>14. "expired" \notin {"open", "audit"} /\ "expired" # "proved"
    OBVIOUS
  <2>15. HandleOK(k, new, proven, serial)
    BY <1>2, <2>9, <2>10, <2>12, <2>13, <2>14, ZenonT(90) DEF HandleOK
  <2>16. /\ handle' = [g \in Handles |-> handle'[g]] /\ handle'[h] = k
         /\ \A g \in Handles \ {h} : handle'[g] = handle[g]
    BY <1>1, <2>2
  <2>17. \A g \in Handles : HandleOK(handle'[g], new, proven, serial)
    BY <2>4, <2>15, <2>16, Zenon
  <2>18. Extends(new, new)
    BY ExtendsSelf, Zenon
  <2> QED
    BY <1>1, <2>0, <2>1, <2>5, <2>16, <2>17, <2>18, ZenonT(90) DEF IInv
<1> QED
  BY <1>3, <1>4, ZenonT(90) DEF ExpireCommit

\* The handle of an expiry that wrote no watermark.
LEMMA WithoutCertificationOK ==
    ASSUME NEW n, NEW d, d.gen \in Nat, NEW P, NEW o, o.open \in [Tables -> Nat]
    PROVE  HandleOK(WithoutCertification(o), d, P, n)
<1> DEFINE k == WithoutCertification(o)
<1>1. /\ DOMAIN k = Fields /\ k.step = "open" /\ k.mayRecord = FALSE /\ k.gen = 0 /\ k.open = o.open
      /\ k.applied = {} /\ k.certified = {} /\ k.carried = {}
  BY DEF WithoutCertification, Closed, Fields
<1> HIDE DEF k
<1>2. 0 \in 0 .. d.gen /\ Held({}, d, P, n) /\ "open" # "proved" /\ "open" \notin {"expired", "publishing"}
  BY HoldsNone
<1>3. HandleOK(k, d, P, n)
  BY <1>1, <1>2, Zenon DEF HandleOK
<1> QED
  BY <1>3 DEF k

\* The handle of an expiry whose watermark w was carried.
LEMMA WithCertificationOK ==
    ASSUME NEW n, NEW d, NEW P, NEW o, HandleOK(o, d, P, n), o.step \in {"expired", "publishing"},
           NEW w \in o.carried
    PROVE  Held({w}, d, P, n) /\ HandleOK(WithCertification(o, w), d, P, n)
<1> DEFINE k == WithCertification(o, w)
           step == IF w.heads = {} THEN "open" ELSE "ready"
<1>1. /\ DOMAIN o = Fields /\ o.open \in [Tables -> Nat] /\ Held(o.carried, d, P, n)
      /\ (w.gen = d.gen => Anchored(d, o.open, P))
  BY Zenon DEF HandleOK
<1>2. Held({w}, d, P, n) /\ w.gen \in 0 .. d.gen
  BY <1>1, Zenon DEF Held, WatermarksOK
<1>3. step # "proved" /\ step \notin {"expired", "publishing"}
  OBVIOUS
<1> HIDE DEF step
<1>4. /\ DOMAIN k = Fields /\ k.step = step /\ k.gen = w.gen /\ k.open = o.open
      /\ k.applied = {w} /\ k.certified = {w} /\ k.carried = {}
  BY <1>1 DEF WithCertification, Fields, step
<1> HIDE DEF k
<1>5. Held({}, d, P, n)
  BY HoldsNone, Zenon
<1>6. HandleOK(k, d, P, n)
  BY <1>1, <1>2, <1>3, <1>4, <1>5, ZenonT(90) DEF HandleOK
<1> QED
  BY <1>2, <1>6 DEF k

LEMMA PrepareCarriedInv ==
    ASSUME IInv, NEW h \in Handles, PrepareCarried(h)
    PROVE  IInv'
<1> DEFINE o == handle[h]
           current == {w \in o.carried : w.gen = db.gen}
           regresses == \E w \in current : RegressesSharedSidecar(w)
           k == IF current = {} THEN WithoutCertification(o)
                ELSE IF regresses THEN WithCertification(o, CHOOSE w \in current : TRUE)
                     ELSE [o EXCEPT !.step = "publishing"]
<1>1. /\ serial \in Nat /\ StoreOK(db, serial) /\ HandleOK(o, db, proven, serial)
      /\ SidecarOK(sidecar, db, proven, serial) /\ o.step = "expired"
      /\ UNCHANGED <<storeVars, sidecar, proven, serial>> /\ handle' = [handle EXCEPT ![h] = k]
  BY Zenon DEF IInv, PrepareCarried
<1>2. UNCHANGED <<db, disk, serial>> /\ proven' = proven /\ sidecar' = sidecar /\ db.gen \in Nat
  BY <1>1 DEF storeVars, StoreOK
<1>3. /\ DOMAIN o = Fields /\ o.gen \in 0 .. db.gen /\ o.open \in [Tables -> Nat]
      /\ Held(o.applied, db, proven, serial) /\ Held(o.certified, db, proven, serial)
      /\ Held(o.carried, db, proven, serial) /\ (\A w \in o.applied : w.gen = o.gen)
      /\ ((\E w \in o.carried : w.gen = db.gen) => Anchored(db, o.open, proven))
  BY <1>1, Zenon DEF HandleOK
<1> HIDE DEF o
<1>4. CASE current = {}
  <2>1. k = WithoutCertification(o)
    BY <1>4, Zenon
  <2> QED
    BY <1>1, <1>2, <1>3, <2>1, WithoutCertificationOK, HandleStep, ZenonT(90)
<1>5. CASE current # {} /\ regresses
  <2> DEFINE w == CHOOSE w \in current : TRUE
  <2>1. w \in o.carried
    BY <1>5
  <2>2. k = WithCertification(o, w)
    BY <1>5, Zenon
  <2> HIDE DEF w, current, regresses
  <2>3. HandleOK(k, db, proven, serial)
    <3>1. o.step \in {"expired", "publishing"}
      BY <1>1
    <3>2. HandleOK(WithCertification(o, w), db, proven, serial)
      BY <1>1, <2>1, <3>1, WithCertificationOK, ZenonT(90)
    <3> QED
      BY <2>2, <3>2, Zenon
  <2> QED
    BY <1>1, <1>2, <2>3, HandleStep
<1>6. CASE current # {} /\ ~regresses
  <2>1. k = [o EXCEPT !.step = "publishing"] /\ \E w \in o.carried : w.gen = db.gen
    BY <1>6, Zenon
  <2> HIDE DEF k
  <2>2. /\ DOMAIN k = Fields /\ k.step = "publishing" /\ k.gen = o.gen /\ k.open = o.open
        /\ k.applied = o.applied /\ k.certified = o.certified /\ k.carried = o.carried
    BY <1>3, <2>1 DEF Fields
  <2>3. HandleOK(k, db, proven, serial)
    BY <1>3, <2>1, <2>2, Zenon DEF HandleOK
  <2> QED
    BY <1>1, <1>2, <2>3, HandleStep, ZenonT(90)
<1> QED
  BY <1>4, <1>5, <1>6, Zenon

LEMMA PublishCarriedInv ==
    ASSUME IInv, NEW h \in Handles, PublishCarried(h)
    PROVE  IInv'
<1> DEFINE o == handle[h]
<1>1. /\ serial \in Nat /\ StoreOK(db, serial) /\ HandleOK(o, db, proven, serial)
      /\ SidecarOK(sidecar, db, proven, serial) /\ o.step = "publishing"
      /\ UNCHANGED <<storeVars, proven, serial>>
      /\ \/ \E w \in o.carried : sidecar' = {w} /\ handle' = [handle EXCEPT ![h] = WithCertification(o, w)]
         \/ handle' = [handle EXCEPT ![h] = WithoutCertification(o)] /\ sidecar' = sidecar
  BY Zenon DEF IInv, PublishCarried
<1>2. UNCHANGED <<db, disk, serial>> /\ proven' = proven /\ db.gen \in Nat /\ o.open \in [Tables -> Nat]
  BY <1>1, ZenonT(90) DEF storeVars, StoreOK, HandleOK
<1> HIDE DEF o
<1>3. CASE handle' = [handle EXCEPT ![h] = WithoutCertification(o)] /\ sidecar' = sidecar
  BY <1>1, <1>2, <1>3, WithoutCertificationOK, HandleStep, ZenonT(90)
<1>4. ASSUME NEW w \in o.carried, sidecar' = {w}, handle' = [handle EXCEPT ![h] = WithCertification(o, w)]
      PROVE  IInv'
  <2>1. Held({w}, db, proven, serial) /\ HandleOK(WithCertification(o, w), db, proven, serial)
    BY <1>1, <1>4, WithCertificationOK
  <2>2. SidecarOK({w}, db, proven, serial)
    BY <2>1, Zenon DEF Held, SidecarOK
  <2> QED
    BY <1>2, <1>4, <2>1, <2>2, HandleStep, ZenonT(90)
<1> QED
  BY <1>1, <1>3, <1>4, Zenon

LEMMA PowerLossInv ==
    ASSUME IInv, PowerLoss
    PROVE  IInv'
<1>1. PICK kept \in {db, disk} : db' = kept /\ disk' = kept
  BY Zenon DEF PowerLoss, LoseNewestCommit
<1>2. /\ serial \in Nat /\ StoreOK(db, serial) /\ StoreOK(disk, serial) /\ disk.gen = db.gen
      /\ Extends(disk, db) /\ Extends(db, db) /\ SidecarOK(sidecar, db, proven, serial)
  BY ExtendsSelf, Zenon DEF IInv
<1>3. sidecar' = sidecar /\ proven' = proven /\ serial' = serial /\ handle' = [h \in Handles |-> Closed]
  BY DEF PowerLoss
<1>4. /\ StoreOK(kept, serial) /\ kept.gen = db.gen /\ Extends(kept, db) /\ Extends(kept, kept)
  BY <1>1, <1>2, ExtendsSelf, Zenon
<1>5. SidecarOK(sidecar, kept, proven, serial)
  BY <1>2, <1>4, SidecarLost, ZenonT(90)
<1>6. HandleOK(Closed, kept, proven, serial)
  BY <1>4, ClosedOK DEF StoreOK
<1>7. handle' = [h \in Handles |-> handle'[h]] /\ \A h \in Handles : HandleOK(handle'[h], kept, proven, serial)
  BY <1>3, <1>6
<1> QED
  BY <1>1, <1>2, <1>3, <1>4, <1>5, <1>7, ZenonT(90) DEF IInv

LEMMA InitInv == Init => IInv
<1> SUFFICES ASSUME Init PROVE IInv
  OBVIOUS
<1> DEFINE empty == [rows |-> [t \in Tables |-> << >>], floor |-> 0, gen |-> 0]
<1>1. /\ db = empty /\ disk = empty /\ sidecar = {} /\ handle = [h \in Handles |-> Closed] /\ serial = 0
  BY DEF Init
<1>2. /\ empty.rows = [t \in Tables |-> << >>] /\ empty.gen = 0
      /\ empty = [rows |-> empty.rows, floor |-> empty.floor, gen |-> empty.gen]
  OBVIOUS
<1> HIDE DEF empty
<1>3. /\ empty.rows = [t \in Tables |-> empty.rows[t]] /\ \A t \in Tables : DOMAIN empty.rows[t] = {}
  BY <1>2
<1>4. "evaluations" \in Tables /\ empty.gen \in Nat
  BY <1>2 DEF Tables
<1>5. StoreOK(empty, 0)
  BY <1>2, <1>3, <1>4, Zenon DEF StoreOK
<1>6. SidecarOK({}, empty, proven, 0) /\ Extends(empty, empty)
  BY ExtendsSelf, Zenon DEF SidecarOK, WatermarksOK
<1>7. HandleOK(Closed, empty, proven, 0)
  BY <1>4, ClosedOK
<1>8. handle = [h \in Handles |-> handle[h]] /\ \A h \in Handles : handle[h] = Closed
  BY <1>1
<1>9. 0 \in Nat
  OBVIOUS
<1> QED
  BY <1>1, <1>5, <1>6, <1>7, <1>8, <1>9, Zenon DEF IInv

LEMMA StutterInv ==
    ASSUME IInv, UNCHANGED vars
    PROVE  IInv'
<1>1. UNCHANGED <<db, disk, sidecar, handle, proven, serial>>
  BY DEF vars, storeVars, certVars
<1> QED
  BY <1>1, Zenon DEF IInv

-----------------------------------------------------------------------------
(* The theorems. *)

\* The invariant is inductive: every action of every handle, an operator's
\* removal of the sidecar and a power loss preserve it.
THEOREM Inductive == Spec => []IInv
<1>1. IInv /\ [Next]_vars => IInv'
  <2> SUFFICES ASSUME IInv, [Next]_vars PROVE IInv'
    OBVIOUS
  <2>1. ASSUME NEW h \in Handles, Step(h) PROVE IInv'
    BY <2>1, OpenInv, OpenValidatingFullyInv, ValidateEngineOpenHistoryInv, ValidateFullyAndRecordInv,
       ObserveRetentionBoundaryInv, CommitValidatedInv, AppendInv, ExpireProveInv, ExpireCommitInv,
       PrepareCarriedInv, PublishCarriedInv, CloseInv, ZenonT(90) DEF Step
  <2> QED
    BY <2>1, MoveSidecarAsideInv, PowerLossInv, StutterInv, Zenon DEF Next
<1> QED
  BY <1>1, InitInv, PTL DEF Spec

\* A watermark that spares a validation is sound.
LEMMA ReliedSound ==
    ASSUME IInv, NEW w \in Relied
    PROVE  Sound(db, w, proven)
<1>1. SidecarOK(sidecar, db, proven, serial)
      /\ \A h \in Handles : Held(handle[h].certified, db, proven, serial)
  BY Zenon DEF IInv, HandleOK
<1> QED
  BY <1>1, Zenon DEF Relied, Applicable, SidecarOK, Held

\* Every row at or below a frontier that spares its validation has passed the
\* store's laws: whichever handle wrote it, whichever rowids an expiry freed for
\* later rows, and whatever commit a power loss took.
THEOREM CertifiedRowsAreProven == Spec => []CertifiedIsProven
<1>1. IInv => CertifiedIsProven
  <2> SUFFICES ASSUME IInv, NEW w \in Relied, NEW t \in Tables,
                      NEW e \in Elements(db, t, 0, w.frontier[t])
               PROVE  <<t, e[2].id>> \in proven
    BY Zenon DEF CertifiedIsProven
  <2>1. Anchored(db, w.frontier, proven)
    BY ReliedSound, Zenon DEF Sound
  <2>2. PICK r \in DOMAIN db.rows[t] : r <= w.frontier[t] /\ e = <<r, db.rows[t][r]>>
    BY ElementsOf
  <2>3. <<t, db.rows[t][r].id>> \in proven /\ e[2] = db.rows[t][r]
    BY <2>1, <2>2 DEF Anchored
  <2> QED
    BY <2>3
<1> QED
  BY <1>1, Inductive, PTL

\* The accumulators a handle or the sidecar relies on are those of the rows the
\* store has, across appends, expiries, carried watermarks and power losses: a
\* full validation finds nothing to refuse in a history only the program wrote.
THEOREM CertificatesMatch == Spec => []CertificateMatches
<1>1. IInv => CertificateMatches
  BY ReliedSound, Zenon DEF CertificateMatches, Sound
<1> QED
  BY <1>1, Inductive, PTL

=============================================================================
