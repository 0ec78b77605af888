--------------------------- MODULE ReleaseListProofs ---------------------------
(***************************************************************************)
(* What the AppendUniqReleases loop of the maintenance helper computes,    *)
(* for every listing of release revisions: the release names in order of  *)
(* first appearance, each once, and every name the listing holds.          *)
(*                                                                         *)
(* The loop is written as a recursive function, which the provers see as   *)
(* a CHOOSE of a table of partial results.  The proofs show that such a    *)
(* table exists and what every entry of it holds, each by induction on the *)
(* loop index, taken as the least index where the claim would fail.        *)
(***************************************************************************)
EXTENDS MaintenanceHelper, FiniteSetTheorems, SequenceTheorems, TLAPS

\* One iteration of the AppendUniqReleases loop (lines 112-120 and
\* 139-147): the names collected so far, with the name of rels[i] appended
\* unless it is already there.
UniqStep(rels, prev, i) ==
    IF rels[i][1] \in Range(prev) THEN prev ELSE Append(prev, rels[i][1])

\* h is the table of the loop's partial results for the first n revisions.
LoopTable(rels, h, n) ==
    h = [i \in 0 .. n |-> IF i = 0 THEN <<>> ELSE UniqStep(rels, h[i - 1], i)]

\* The release names of the first i revisions of rels.
NamesUpTo(rels, i) == {rels[j][1] : j \in 1 .. i}

\* l names exactly the releases of the first i revisions, each once.
UniqNames(l, rels, i) ==
    /\ l \in Seq(Releases)
    /\ IsInjective(l)
    /\ Range(l) = NamesUpTo(rels, i)

-----------------------------------------------------------------------------
(* Induction on the loop index.                                            *)

\* A nonempty set of naturals has a least element.
LEMMA NatLeastElement ==
    ASSUME NEW T \in SUBSET Nat, T # {}
    PROVE  \E m \in T : \A k \in T : ~(k < m)
<1>1. \E m \in T : \A k \in T : ~(<<k, m>> \in OpToRel(<, Nat))
    BY NatLessThanWellFounded, WFMin
<1>. QED
    BY <1>1 DEF OpToRel

\* The loop has a table of partial results for every number of
\* iterations.
LEMMA LoopTableExists ==
    ASSUME NEW rels, NEW n \in Nat
    PROVE  \E h : LoopTable(rels, h, n)
<1>. DEFINE Bad == {k \in 0 .. n : ~\E h : LoopTable(rels, h, k)}
<1>. SUFFICES ASSUME Bad # {} PROVE FALSE
    OBVIOUS
<1>0. Bad \in SUBSET Nat
    OBVIOUS
<1>1. PICK m \in Bad : \A k \in Bad : ~(k < m)
    <2>1. Bad \in SUBSET Nat
        BY <1>0
    <2>. QED
        BY <2>1, NatLeastElement
<1>2. m # 0
    <2>1. LoopTable(rels, [i \in 0 .. 0 |-> <<>>], 0)
        BY DEF LoopTable
    <2>. QED
        BY <2>1, <1>1
<1>3. PICK h : LoopTable(rels, h, m - 1)
    BY <1>1, <1>2
<1>. DEFINE h2 == [i \in 0 .. m |-> IF i < m THEN h[i]
                                    ELSE UniqStep(rels, h[m - 1], m)]
<1>4. \A i \in 0 .. m :
          h2[i] = IF i = 0 THEN <<>> ELSE UniqStep(rels, h2[i - 1], i)
    BY <1>2, <1>3 DEF LoopTable
<1>5. LoopTable(rels, h2, m)
    BY <1>4 DEF LoopTable
<1>. QED
    BY <1>1, <1>5

\* AppendUniqReleases returns the last entry of a table of the loop.
LEMMA AppendUniqReleasesTable ==
    ASSUME NEW rels \in Seq(Revisions)
    PROVE  \E h : /\ LoopTable(rels, h, Len(rels))
                  /\ AppendUniqReleases(rels) = h[Len(rels)]
<1>1. \E h : LoopTable(rels, h, Len(rels))
    <2>1. Len(rels) \in Nat
        BY LenProperties
    <2>. QED
        BY <2>1, LoopTableExists
<1>. QED
    BY <1>1 DEF LoopTable, UniqStep, AppendUniqReleases

-----------------------------------------------------------------------------
(* What the loop computes.                                                 *)

\* One iteration keeps the names collected so far exactly those of the
\* revisions seen, each once.
LEMMA UniqStepKeeps ==
    ASSUME NEW rels \in Seq(Revisions), NEW i \in 1 .. Len(rels), NEW prev,
           UniqNames(prev, rels, i - 1)
    PROVE  UniqNames(UniqStep(rels, prev, i), rels, i)
<1>. DEFINE name == rels[i][1]
<1>1. name \in Releases
    BY DEF Revisions
<1>2. NamesUpTo(rels, i) = NamesUpTo(rels, i - 1) \cup {name}
    BY DEF NamesUpTo
<1>3. CASE name \in Range(prev)
    BY <1>2, <1>3 DEF UniqStep, UniqNames
<1>4. CASE name \notin Range(prev)
    <2>. DEFINE l2 == Append(prev, name)
    <2>1. /\ l2 \in Seq(Releases)
          /\ Len(l2) = Len(prev) + 1
          /\ \A k \in 1 .. Len(prev) : l2[k] = prev[k]
          /\ l2[Len(prev) + 1] = name
        BY <1>1, AppendProperties DEF UniqNames
    <2>2. DOMAIN l2 = 1 .. Len(prev) + 1 /\ DOMAIN prev = 1 .. Len(prev)
        BY <2>1 DEF UniqNames
    <2>3. \A k \in 1 .. Len(prev) : prev[k] # name
        BY <1>4, <2>2 DEF Range
    <2>4. IsInjective(l2)
        BY <2>1, <2>2, <2>3 DEF UniqNames, IsInjective
    <2>5. Range(l2) = Range(prev) \cup {name}
        BY <2>1, <2>2 DEF Range
    <2>. QED
        BY <1>2, <1>4, <2>1, <2>4, <2>5 DEF UniqStep, UniqNames
<1>. QED
    BY <1>3, <1>4

\* Every entry of a table of the loop holds the names of the revisions
\* seen so far, each once.
LEMMA TableEntries ==
    ASSUME NEW rels \in Seq(Revisions), NEW h, LoopTable(rels, h, Len(rels))
    PROVE  \A i \in 0 .. Len(rels) : UniqNames(h[i], rels, i)
<1>0. Len(rels) \in Nat
    BY LenProperties
<1>. DEFINE Bad == {k \in 0 .. Len(rels) : ~UniqNames(h[k], rels, k)}
<1>. SUFFICES ASSUME Bad # {} PROVE FALSE
    OBVIOUS
<1>1. PICK m \in Bad : \A k \in Bad : ~(k < m)
    <2>1. Bad \in SUBSET Nat
        BY <1>0
    <2>. QED
        BY <2>1, NatLeastElement
<1>2. m # 0
    <2>1. h[0] = <<>>
        BY <1>0 DEF LoopTable
    <2>2. UniqNames(<<>>, rels, 0)
        BY DEF UniqNames, IsInjective, Range, NamesUpTo
    <2>. QED
        BY <1>1, <2>1, <2>2
<1>3. UniqNames(h[m - 1], rels, m - 1)
    BY <1>0, <1>1, <1>2
<1>4. h[m] = UniqStep(rels, h[m - 1], m)
    BY <1>0, <1>1, <1>2 DEF LoopTable
<1>5. UniqNames(h[m], rels, m)
    BY <1>0, <1>1, <1>2, <1>3, <1>4, UniqStepKeeps
<1>. QED
    BY <1>1, <1>5

\* AppendUniqReleases names each release of the listing once, and every
\* one of them.
LEMMA AppendUniqReleasesNames ==
    ASSUME NEW rels \in Seq(Revisions)
    PROVE  UniqNames(AppendUniqReleases(rels), rels, Len(rels))
<1>1. PICK h : /\ LoopTable(rels, h, Len(rels))
               /\ AppendUniqReleases(rels) = h[Len(rels)]
    BY AppendUniqReleasesTable
<1>2. Len(rels) \in 0 .. Len(rels)
    BY LenProperties
<1>. QED
    BY <1>1, <1>2, TableEntries

-----------------------------------------------------------------------------
(* The sort of GetHelm2ReleaseData.                                        *)

\* f lists its revisions in increasing revision order.
SortedByRevision(f) == \A i, j \in DOMAIN f : i < j => f[i][2] < f[j][2]

\* Every finite set of revisions of one release has a listing sorted by
\* revision, so that SortByRevisionAsc is one: by induction on the size
\* of the subsets, putting the oldest revision in front of a sorted
\* listing of the others.
LEMMA SortedListingExists ==
    ASSUME NEW S \in SUBSET Revisions, IsFiniteSet(S),
           \A r, q \in S : r[1] = q[1]
    PROVE  \E f \in Listings(S) : SortedByRevision(f)
<1>. DEFINE P(n) == \A T \in SUBSET S :
                        Cardinality(T) = n => \E f \in Listings(T) : SortedByRevision(f)
<1>1. \A n \in Nat : P(n)
    <2>. DEFINE Bad == {n \in Nat : ~P(n)}
    <2>. SUFFICES ASSUME Bad # {} PROVE FALSE
        OBVIOUS
    <2>1. Bad \in SUBSET Nat
        OBVIOUS
    <2>2. PICK n \in Bad : \A k \in Bad : ~(k < n)
        BY <2>1, NatLeastElement
    <2>3. PICK T \in SUBSET S :
              Cardinality(T) = n /\ ~\E f \in Listings(T) : SortedByRevision(f)
        BY <2>2
    <2>4. IsFiniteSet(T)
        BY FS_Subset
    <2>5. CASE n = 0
        <3>1. T = {}
            BY <2>3, <2>4, <2>5, FS_EmptySet
        <3>2. <<>> \in Listings(T) /\ SortedByRevision(<<>>)
            BY <3>1, <2>3, <2>5 DEF Listings, SortedByRevision, IsInjective
        <3>. QED
            BY <3>2, <2>3
    <2>6. CASE n # 0
        <3>. DEFINE Revs == {r[2] : r \in T}
        <3>1. T # {}
            BY <2>3, <2>6, FS_EmptySet
        <3>2. Revs \in SUBSET Nat /\ Revs # {}
            BY <3>1 DEF Revisions, Versions
        <3>3. PICK v \in Revs : \A k \in Revs : ~(k < v)
            BY <3>2, NatLeastElement
        <3>4. PICK m \in T : m[2] = v
            OBVIOUS
        <3>5. \A r \in T : r # m => m[2] < r[2]
            <4>. TAKE r \in T
            <4>. HAVE r # m
            <4>1. r[2] \in Revs /\ r[1] = m[1]
                OBVIOUS
            <4>2. r \in Releases \X Versions /\ m \in Releases \X Versions
                BY DEF Revisions
            <4>3. r[2] # m[2]
                BY <4>1, <4>2
            <4>. QED
                BY <3>3, <3>4, <4>1, <4>3 DEF Revisions, Versions
        <3>. DEFINE U == T \ {m}
        <3>6. Cardinality(U) = n - 1 /\ n - 1 \in Nat
            <4>1. IsFiniteSet(U) /\ Cardinality(U) = Cardinality(T) - 1
                BY <2>4, FS_RemoveElement
            <4>2. n \in Nat
                BY <2>1
            <4>. QED
                BY <2>3, <2>6, <4>1, <4>2
        <3>7. n - 1 \notin Bad
            BY <2>2, <3>6
        <3>8. PICK g \in Listings(U) : SortedByRevision(g)
            BY <3>6, <3>7
        <3>9. g \in [1 .. n - 1 -> U] /\ IsInjective(g)
            BY <3>6, <3>8 DEF Listings
        <3>. DEFINE f == [i \in 1 .. n |-> IF i = 1 THEN m ELSE g[i - 1]]
        <3>10. f \in [1 .. n -> T]
            BY <3>6, <3>9
        <3>11. IsInjective(f)
            BY <3>6, <3>9 DEF IsInjective
        <3>12. SortedByRevision(f)
            <4>. SUFFICES ASSUME NEW i \in 1 .. n, NEW j \in 1 .. n, i < j
                          PROVE  f[i][2] < f[j][2]
                BY DEF SortedByRevision
            <4>1. f[j] = g[j - 1] /\ g[j - 1] \in U
                BY <3>6, <3>9
            <4>2. CASE i = 1
                BY <4>1, <4>2, <3>5
            <4>3. CASE i # 1
                BY <4>1, <4>3, <3>6, <3>8, <3>9 DEF SortedByRevision
            <4>. QED
                BY <4>2, <4>3
        <3>. QED
            BY <2>3, <3>10, <3>11, <3>12 DEF Listings
    <2>. QED
        BY <2>5, <2>6
<1>2. Cardinality(S) \in Nat
    BY FS_CardinalityType
<1>. QED
    BY <1>1, <1>2

=============================================================================
