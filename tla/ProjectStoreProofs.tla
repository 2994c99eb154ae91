-------------------------- MODULE ProjectStoreProofs --------------------------
(***************************************************************************)
(* The quota ledger, the limits, the rollback of a single failure and the  *)
(* order of the sweep, for any number of projects, requests, sizes,        *)
(* failures and crashes.                                                   *)
(***************************************************************************)
EXTENDS ProjectStore, FiniteSetTheorems, TLAPS

Locals == [target : Projects, seen : ProjectRows, new : Sizes \cup {0}, review : ReviewRows,
           duplicate : BOOLEAN, todo : SUBSET {"project", "review"}]

\* Where a request is, and what it holds there.
HandFits(r) ==
    /\ local[r] \in Locals
    /\ pc[r] \in Pending \cup {"done"}
    /\ pc[r] \in {"grow", "write", "undo", "catch", "shrink"} => r \in Updates
    /\ pc[r] \in {"grow", "undo", "catch"} => Growth(r) > 0
    /\ pc[r] = "shrink" => Growth(r) < 0
    /\ pc[r] \in {"grow", "write", "tombstone", "scrub", "release", "restore"}
         => local[r].seen.state = "active"
    /\ pc[r] \in {"release", "restore"} => local[r].review.state # "tombstone"

Places == Pending \cup {"done", "idle", "reviews", "projects", "suspend"}

StoreTypes ==
    /\ project \in [Projects -> ProjectRows]
    /\ review \in [Projects -> ReviewRows]
    /\ quota \in [count : Nat, bytes : Nat]
    /\ pc \in [Requests \cup {Purger} -> Places]
    /\ local \in [Requests -> Locals]
    /\ answer \in [Requests -> {"none", "success", "error"}]
    /\ \A r \in Requests : HandFits(r)
    /\ lost \in Nat /\ ambiguous \in Nat /\ crashes \in Nat

\* The active rows of project p, saved and read: version and bytes.
Rows(p) == {project[p]} \cup {local[r].seen : r \in {s \in Requests : local[s].target = p}}
Copies(p) == {<<x.version, x.bytes>> : x \in {y \in Rows(p) : y.state = "active"}}

\* A version is written once, so that it identifies the bytes; who has not written yet has no
\* version anywhere.
BeforeWriting == {"ready", "lookup", "reserve", "insert", "grow", "write"}
VersionsTell ==
    /\ \A p \in Projects : \A x, y \in Copies(p) : x[1] = y[1] => x[2] = y[2]
    /\ \A r \in Requests : pc[r] \in BeforeWriting =>
          \A p \in Projects : \A x \in Copies(p) : x[1] # r

\* The reviews were purged before the projects are.
ReviewsFirst == pc[Purger] = "projects" => \A p \in Projects : ~IsDue(review[p])

ClaimedCount == Total([r \in Requests |-> Claim(r).count])
ClaimedBytes == Total([r \in Requests |-> Claim(r).bytes])

\* What the operations applied without acknowledgement may have cost the ledger.
Missing == ambiguous * MaxSize

\* But for that, the ledger covers the active projects and the claims, and these keep the
\* limits; without failures it is exact.
LedgerCovers ==
    /\ quota.count + ambiguous >= ActiveCount + ClaimedCount
    /\ quota.bytes + Missing >= ActiveBytes + ClaimedBytes
    /\ lost = 0 /\ ambiguous = 0 => /\ quota.count = ActiveCount + ClaimedCount
                                   /\ quota.bytes = ActiveBytes + ClaimedBytes
    /\ ActiveCount + ClaimedCount <= MaxProjects + ambiguous
    /\ ActiveBytes + ClaimedBytes <= MaxBytes + Missing

HasProject(r, p) == project[p].state = "tombstone" /\ project[p].by = r
HasReview(r, p) == review[p].state = "tombstone" /\ review[p].by = r

\* A tombstone is on the row of its request, which restores it after a first failure.
Rolled(r) ==
    /\ \A p \in Projects : HasProject(r, p) =>
          p = local[r].target /\ pc[r] \in {"scrub", "release", "restore", "remove", "done"}
    /\ \A p \in Projects : HasReview(r, p) =>
          p = local[r].target /\ pc[r] \in {"release", "restore", "remove", "done"}
    /\ pc[r] = "release" /\ HasReview(r, local[r].target) => local[r].review.state # "none"
    /\ pc[r] = "restore" => lost >= 1
    /\ pc[r] = "restore" /\ lost <= 1 =>
          /\ HasProject(r, local[r].target) => "project" \in local[r].todo
          /\ HasReview(r, local[r].target) => "review" \in local[r].todo
    /\ pc[r] = "done" /\ answer[r] = "error" /\ lost <= 1 /\ crashes = 0 =>
          \A p \in Projects : ~HasProject(r, p) /\ ~HasReview(r, p)

StoreInvariant ==
    /\ StoreTypes /\ VersionsTell /\ ReviewsFirst /\ LedgerCovers
    /\ ambiguous = 0 => \A r \in Requests : Rolled(r)

-----------------------------------------------------------------------------
(* Sums.                                                                   *)

Units(f, S) == UNION {{x} \X (1..f[x]) : x \in S}

LEMMA UnitsOfOne ==
    ASSUME NEW x, NEW n \in Nat
    PROVE  IsFiniteSet({x} \X (1..n)) /\ Cardinality({x} \X (1..n)) = n
<1> DEFINE A == {x}
           B == 1..n
<1>1. IsFiniteSet(A) /\ Cardinality(A) = 1
  BY FS_Singleton
<1>2. IsFiniteSet(1..n) /\ Cardinality(1..n) = IF 1 > n THEN 0 ELSE n - 1 + 1
  <2>1. 1 \in Int /\ n \in Int
    OBVIOUS
  <2> QED BY <2>1, FS_Interval
<1>3. IsFiniteSet(B) /\ Cardinality(B) = n
  BY <1>2
<1> HIDE DEF A, B
<1>4. IsFiniteSet(A \X B) /\ Cardinality(A \X B) = Cardinality(A) * Cardinality(B)
  BY <1>1, <1>3, FS_Product
<1>5. Cardinality(A \X B) = 1 * n
  BY <1>1, <1>3, <1>4
<1> QED BY <1>4, <1>5 DEF A, B

LEMMA UnitsAreFinite ==
    ASSUME NEW S, IsFiniteSet(S), NEW f, \A x \in S : f[x] \in Nat
    PROVE  IsFiniteSet(Units(f, S))
<1> DEFINE block == [x \in S |-> {x} \X (1..f[x])]
           Blocks == {{x} \X (1..f[x]) : x \in S}
<1>1. block \in Surjection(S, Blocks)
  BY DEF Surjection
<1>2. IsFiniteSet(Blocks)
  BY <1>1, FS_Surjection
<1>3. ASSUME NEW x \in S PROVE IsFiniteSet({x} \X (1..f[x]))
  BY UnitsOfOne
<1>4. \A B \in Blocks : IsFiniteSet(B)
  BY <1>3
<1> HIDE DEF Blocks
<1>5. IsFiniteSet(UNION Blocks)
  BY <1>2, <1>4, FS_UNION
<1> QED BY <1>5 DEF Blocks, Units

\* A total is that of the others and the one.
LEMMA TotalSplits ==
    ASSUME NEW S, IsFiniteSet(S), NEW f \in [S -> Nat], NEW a \in S
    PROVE  /\ Total(f) = Cardinality(Units(f, S \ {a})) + f[a]
           /\ Cardinality(Units(f, S \ {a})) \in Nat
<1> DEFINE rest == Units(f, S \ {a})
           one == {a} \X (1..f[a])
<1>1. /\ IsFiniteSet(rest) /\ Cardinality(rest) \in Nat
      /\ IsFiniteSet(one) /\ Cardinality(one) = f[a] /\ f[a] \in Nat
  <2>1. IsFiniteSet(S \ {a})
    BY FS_RemoveElement
  <2>2. IsFiniteSet(rest)
    BY <2>1, UnitsAreFinite
  <2> QED BY <2>2, UnitsOfOne, FS_CardinalityType
<1>2. rest \cap one = {} /\ Units(f, S) = rest \cup one
  BY DEF Units
<1>3. Total(f) = Cardinality(rest \cup one)
  BY <1>2 DEF Total, Units
<1> HIDE DEF rest, one
<1>4. Cardinality(rest \cup one) = Cardinality(rest) + Cardinality(one) - Cardinality({})
  BY <1>1, <1>2, FS_Union
<1> QED BY <1>1, <1>3, <1>4, FS_EmptySet DEF rest

\* A total changes by what its one changed value does.
LEMMA TotalChanges ==
    ASSUME NEW S, IsFiniteSet(S), NEW f \in [S -> Nat], NEW g \in [S -> Nat], NEW a \in S,
           \A x \in S \ {a} : g[x] = f[x]
    PROVE  /\ Total(f) \in Nat /\ Total(g) \in Nat
           /\ Total(g) = Total(f) - f[a] + g[a] /\ f[a] <= Total(f)
<1>1. Units(g, S \ {a}) = Units(f, S \ {a})
  BY DEF Units
<1>2. /\ Total(f) = Cardinality(Units(f, S \ {a})) + f[a]
      /\ Total(g) = Cardinality(Units(f, S \ {a})) + g[a]
      /\ Cardinality(Units(f, S \ {a})) \in Nat /\ f[a] \in Nat /\ g[a] \in Nat
  BY <1>1, TotalSplits
<1> QED BY <1>2

LEMMA TotalIsNatural ==
    ASSUME NEW S, IsFiniteSet(S), NEW f \in [S -> Nat]
    PROVE  Total(f) \in Nat
<1>1. Total(f) = Cardinality(Units(f, S))
  BY DEF Total, Units
<1> QED BY <1>1, UnitsAreFinite, FS_CardinalityType

LEMMA TotalOfNothing ==
    ASSUME NEW S, NEW f \in [S -> Nat], \A x \in S : f[x] = 0
    PROVE  Total(f) = 0
<1>1. UNION {{x} \X (1..f[x]) : x \in DOMAIN f} = {}
  BY SMT
<1> QED BY <1>1, FS_EmptySet DEF Total

-----------------------------------------------------------------------------
(* What one step of a request leaves alone.                                *)

\* Request r takes a step, which is about project p.
StepOf(r, p) ==
    /\ project' \in [Projects -> ProjectRows] /\ review' \in [Projects -> ReviewRows]
    /\ quota' \in [count : Nat, bytes : Nat]
    /\ pc' \in [Requests \cup {Purger} -> Places] /\ local' \in [Requests -> Locals]
    /\ answer' \in [Requests -> {"none", "success", "error"}]
    /\ lost' \in Nat /\ ambiguous' \in Nat /\ crashes' = crashes
    /\ lost <= lost' /\ ambiguous <= ambiguous'
    /\ local'[r].target = p
    /\ \A s \in Requests \ {r} : pc'[s] = pc[s] /\ local'[s] = local[s] /\ answer'[s] = answer[s]
    /\ pc'[Purger] = pc[Purger]
    /\ \A q \in Projects \ {p} : project'[q] = project[q] /\ review'[q] = review[q]

\* A row that is active is one that was saved or read before.
Known(x, p) == x.state = "active" => <<x.version, x.bytes>> \in Copies(p)

LEMMA TypesStep ==
    ASSUME StoreTypes, NEW r \in Requests, NEW p \in Projects, StepOf(r, p), HandFits(r)'
    PROVE  StoreTypes'
<1>1. \A s \in Requests \ {r} : HandFits(s)'
  BY DEF StoreTypes, StepOf, HandFits, Growth
<1> QED BY <1>1 DEF StoreTypes, StepOf

LEMMA CopiesStep ==
    ASSUME StoreTypes, NEW r \in Requests, NEW p \in Projects, StepOf(r, p), Known(local'[r].seen, p)
    PROVE  /\ \A q \in Projects \ {p} : Copies(q)' \subseteq Copies(q)
           /\ \A x \in Copies(p)' : x \notin Copies(p) =>
                project'[p].state = "active" /\ x = <<project'[p].version, project'[p].bytes>>
<1>1. ASSUME NEW q \in Projects, NEW x \in Copies(q)', x \notin Copies(q)
      PROVE  q = p /\ project'[p].state = "active" /\ x = <<project'[p].version, project'[p].bytes>>
  <2>1. PICK y \in Rows(q)' : y.state = "active" /\ x = <<y.version, y.bytes>>
    BY <1>1 DEF Copies
  <2>2. CASE y = project'[q]
    <3>1. q = p
      BY <1>1, <2>1, <2>2 DEF StepOf, Copies, Rows
    <3> QED BY <2>1, <2>2, <3>1
  <2>3. ASSUME NEW s \in Requests, local'[s].target = q, y = local'[s].seen PROVE FALSE
    <3>1. CASE s = r
      BY <1>1, <2>1, <2>3, <3>1 DEF StepOf, Known
    <3>2. CASE s # r
      BY <1>1, <2>1, <2>3, <3>2 DEF StepOf, Copies, Rows
    <3> QED BY <3>1, <3>2
  <2> QED BY <2>2, <2>3 DEF Rows
<1> QED BY <1>1

\* No row is written, or an old one again.
LEMMA VersionsKept ==
    ASSUME StoreTypes, VersionsTell, NEW r \in Requests, NEW p \in Projects, StepOf(r, p),
           Known(local'[r].seen, p), Known(project'[p], p),
           pc'[r] \in BeforeWriting => pc[r] \in BeforeWriting
    PROVE  VersionsTell'
<1>1. \A q \in Projects : Copies(q)' \subseteq Copies(q)
  BY CopiesStep DEF Known
<1>2. \A s \in Requests : pc'[s] \in BeforeWriting => pc[s] \in BeforeWriting
  BY DEF StepOf
<1>3. \A q \in Projects : \A x, y \in Copies(q)' : x[1] = y[1] => x[2] = y[2]
  BY <1>1 DEF VersionsTell
<1>4. ASSUME NEW s \in Requests, pc'[s] \in BeforeWriting, NEW q \in Projects, NEW x \in Copies(q)'
      PROVE  x[1] # s
  BY <1>1, <1>2, <1>4 DEF VersionsTell
<1> QED BY <1>3, <1>4 DEF VersionsTell

\* A request writes its version.
LEMMA VersionsWritten ==
    ASSUME StoreTypes, VersionsTell, NEW r \in Requests, NEW p \in Projects, StepOf(r, p),
           Known(local'[r].seen, p), project'[p].version = r,
           pc[r] \in BeforeWriting, pc'[r] \notin BeforeWriting
    PROVE  VersionsTell'
<1> DEFINE new == <<project'[p].version, project'[p].bytes>>
<1>1. \A q \in Projects : \A x \in Copies(q)' : x \in Copies(q) \/ (q = p /\ x = new)
  BY CopiesStep
<1>2. new[1] = r /\ \A x \in Copies(p) : x[1] # r
  BY DEF VersionsTell
<1> HIDE DEF new
<1>3. ASSUME NEW q \in Projects, NEW x \in Copies(q)', NEW y \in Copies(q)', x[1] = y[1]
      PROVE  x[2] = y[2]
  BY <1>1, <1>2, <1>3 DEF VersionsTell
<1>4. ASSUME NEW s \in Requests, pc'[s] \in BeforeWriting, NEW q \in Projects, NEW x \in Copies(q)'
      PROVE  x[1] # s
  <2>1. s # r /\ pc[s] \in BeforeWriting
    BY <1>4 DEF StepOf
  <2> QED BY <1>1, <1>2, <2>1 DEF VersionsTell
<1> QED BY <1>3, <1>4 DEF VersionsTell

LEMMA ReviewsStep ==
    ASSUME ReviewsFirst, NEW r \in Requests, NEW p \in Projects, StepOf(r, p),
           IsDue(review'[p]) => IsDue(review[p])
    PROVE  ReviewsFirst'
  BY DEF ReviewsFirst, StepOf, IsDue

-----------------------------------------------------------------------------
(* The ledger.                                                             *)

ClaimFits(r) ==
    /\ pc[r] \in {"insert", "giveback"} => Claim(r) = [count |-> 1, bytes |-> local[r].new]
    /\ pc[r] \in {"write", "undo", "catch"} /\ r \in Updates /\ Growth(r) > 0
         => Claim(r) = [count |-> 0, bytes |-> Growth(r)]
    /\ pc[r] = "write" /\ ~(Growth(r) > 0) => Claim(r) = [count |-> 0, bytes |-> 0]
    /\ pc[r] = "shrink" => Claim(r) = [count |-> 0, bytes |-> -Growth(r)]
    /\ pc[r] \in {"scrub", "release"} => Claim(r) = [count |-> 1, bytes |-> local[r].seen.bytes]
    /\ pc[r] = "restore" => Claim(r) = IF "project" \in local[r].todo
                                       THEN [count |-> 1, bytes |-> local[r].seen.bytes]
                                       ELSE [count |-> 0, bytes |-> 0]
    /\ pc[r] \notin {"insert", "giveback", "write", "undo", "catch", "shrink", "scrub", "release",
                     "restore"}
         => Claim(r) = [count |-> 0, bytes |-> 0]

LEMMA ClaimIs == ASSUME NEW r PROVE ClaimFits(r)
  BY DEF ClaimFits, Claim
LEMMA ClaimIsNext == ASSUME NEW r PROVE ClaimFits(r)'
  BY DEF ClaimFits, Claim

LEMMA SizesFit == Sizes \cup {0} \subseteq 0..MaxSize /\ 0..MaxSize \subseteq Nat
<1>1. ASSUME NEW n \in Sizes \cup {0} PROVE n \in 0..MaxSize
  BY <1>1, SizesArePositive, SizesAreBounded
<1> QED BY <1>1, SizesAreBounded

LEMMA RowBytes ==
    ASSUME NEW x \in ProjectRows
    PROVE  x.bytes \in Nat /\ x.bytes <= MaxSize
<1>1. x.bytes \in 0..MaxSize
  BY DEF ProjectRows
<1> QED BY <1>1, SizesAreBounded

LEMMA LocalsAre ==
    ASSUME NEW l \in Locals
    PROVE  /\ l.target \in Projects /\ l.seen \in ProjectRows /\ l.review \in ReviewRows
           /\ l.new \in Nat /\ l.seen.bytes \in Nat
           /\ l.new <= MaxSize /\ l.seen.bytes <= MaxSize
<1>1. /\ l.target \in Projects /\ l.seen \in ProjectRows /\ l.review \in ReviewRows
      /\ l.new \in Sizes \cup {0}
  BY DEF Locals
<1>2. l.new \in 0..MaxSize
  BY <1>1, SizesFit
<1>3. l.seen.bytes \in 0..MaxSize
  BY <1>1 DEF ProjectRows
<1> QED BY <1>1, <1>2, <1>3, SizesAreBounded

LEMMA ClaimTyped ==
    ASSUME NEW r \in Requests, HandFits(r)
    PROVE  Claim(r) \in [count : Nat, bytes : Nat]
<1>1. /\ local[r].new \in Nat /\ local[r].seen.bytes \in Nat
      /\ pc[r] \in {"undo", "catch", "write"} => r \in Updates
      /\ pc[r] \in {"undo", "catch"} => Growth(r) > 0
      /\ pc[r] = "shrink" => Growth(r) < 0
  BY LocalsAre DEF HandFits
<1>2. Growth(r) \in Int /\ (Growth(r) > 0 => Growth(r) \in Nat)
      /\ (Growth(r) < 0 => -Growth(r) \in Nat)
  BY <1>1 DEF Growth
<1> QED BY <1>1, <1>2, ClaimIs DEF ClaimFits

LEMMA ClaimTypedNext ==
    ASSUME NEW r \in Requests, HandFits(r)'
    PROVE  Claim(r)' \in [count : Nat, bytes : Nat]
<1>1. /\ local'[r].new \in Nat /\ local'[r].seen.bytes \in Nat
      /\ pc'[r] \in {"undo", "catch", "write"} => r \in Updates
      /\ pc'[r] \in {"undo", "catch"} => Growth(r)' > 0
      /\ pc'[r] = "shrink" => Growth(r)' < 0
  BY LocalsAre DEF HandFits
<1>2. Growth(r)' \in Int /\ (Growth(r)' > 0 => Growth(r)' \in Nat)
      /\ (Growth(r)' < 0 => -Growth(r)' \in Nat)
  BY <1>1 DEF Growth
<1> QED BY <1>1, <1>2, ClaimIsNext DEF ClaimFits

LEMMA ActiveIsFinite == IsFiniteSet(ActiveProjects)
  BY FiniteStore, FS_Subset DEF ActiveProjects

LEMMA ActiveTyped ==
    ASSUME project \in [Projects -> ProjectRows]
    PROVE  ActiveCount \in Nat /\ ActiveBytes \in Nat
<1>1. ActiveCount \in Nat
  BY ActiveIsFinite, FS_CardinalityType DEF ActiveCount
<1> DEFINE f == [p \in Projects |-> IF Active(p) THEN project[p].bytes ELSE 0]
<1>2. f \in [Projects -> Nat]
  BY RowBytes
<1>3. Total(f) \in Nat
  <2> HIDE DEF f
  <2> QED BY <1>2, FiniteStore, TotalIsNatural
<1> QED BY <1>1, <1>3 DEF ActiveBytes

LEMMA ClaimedTyped ==
    ASSUME StoreTypes
    PROVE  ClaimedCount \in Nat /\ ClaimedBytes \in Nat
<1>1. \A s \in Requests : Claim(s) \in [count : Nat, bytes : Nat]
  BY ClaimTyped DEF StoreTypes
<1>3. ClaimedCount \in Nat
  <2> DEFINE f == [s \in Requests |-> Claim(s).count]
  <2>1. f \in [Requests -> Nat] /\ ClaimedCount = Total(f)
    BY <1>1 DEF ClaimedCount
  <2> HIDE DEF f
  <2> QED BY <2>1, FiniteStore, TotalIsNatural
<1>4. ClaimedBytes \in Nat
  <2> DEFINE f == [s \in Requests |-> Claim(s).bytes]
  <2>1. f \in [Requests -> Nat] /\ ClaimedBytes = Total(f)
    BY <1>1 DEF ClaimedBytes
  <2> HIDE DEF f
  <2> QED BY <2>1, FiniteStore, TotalIsNatural
<1> QED BY <1>3, <1>4

LEMMA ActiveStep ==
    ASSUME StoreTypes, NEW r \in Requests, NEW p \in Projects, StepOf(r, p)
    PROVE  /\ ActiveCount \in Nat /\ ActiveCount' \in Nat
           /\ ActiveBytes \in Nat /\ ActiveBytes' \in Nat
           /\ ActiveCount' = ActiveCount - (IF Active(p) THEN 1 ELSE 0)
                                         + (IF Active(p)' THEN 1 ELSE 0)
           /\ ActiveBytes' = ActiveBytes - (IF Active(p) THEN project[p].bytes ELSE 0)
                                         + (IF Active(p)' THEN project'[p].bytes ELSE 0)
<1>1. ActiveCount \in Nat /\ ActiveCount' \in Nat
      /\ ActiveCount' = ActiveCount - (IF Active(p) THEN 1 ELSE 0)
                                    + (IF Active(p)' THEN 1 ELSE 0)
  <2> DEFINE A == ActiveProjects
             B == ActiveProjects'
             C == A \ {p}
  <2>1. IsFiniteSet(A)
    BY ActiveIsFinite
  <2>2. C = B \ {p} /\ (p \in A <=> Active(p)) /\ (p \in B <=> Active(p)')
    BY DEF ActiveProjects, Active, StepOf
  <2>3. /\ A = IF Active(p) THEN C \cup {p} ELSE C
        /\ B = IF Active(p)' THEN C \cup {p} ELSE C
        /\ p \notin C
    BY <2>2
  <2>4. IsFiniteSet(C) /\ Cardinality(C) \in Nat
    BY <2>1, FS_RemoveElement, FS_CardinalityType
  <2>5. Cardinality(C \cup {p}) = Cardinality(C) + 1
    BY <2>3, <2>4, FS_AddElement
  <2>6. ActiveCount = Cardinality(A) /\ ActiveCount' = Cardinality(B)
    BY DEF ActiveCount
  <2> HIDE DEF A, B, C
  <2> QED BY <2>3, <2>4, <2>5, <2>6
<1>2. /\ ActiveBytes \in Nat /\ ActiveBytes' \in Nat
      /\ ActiveBytes' = ActiveBytes - (IF Active(p) THEN project[p].bytes ELSE 0)
                                    + (IF Active(p)' THEN project'[p].bytes ELSE 0)
  <2> DEFINE f == [q \in Projects |-> IF Active(q) THEN project[q].bytes ELSE 0]
             g == [q \in Projects |-> IF Active(q)' THEN project'[q].bytes ELSE 0]
  <2>1. f \in [Projects -> Nat] /\ g \in [Projects -> Nat]
    BY DEF StoreTypes, StepOf, ProjectRows
  <2>2. \A q \in Projects \ {p} : g[q] = f[q]
    BY DEF StepOf, Active
  <2>3. /\ f[p] = IF Active(p) THEN project[p].bytes ELSE 0
        /\ g[p] = IF Active(p)' THEN project'[p].bytes ELSE 0
    OBVIOUS
  <2>4. ActiveBytes = Total(f) /\ ActiveBytes' = Total(g)
    BY DEF ActiveBytes, Total, Active
  <2> HIDE DEF f, g
  <2>5. Total(f) \in Nat /\ Total(g) \in Nat /\ Total(g) = Total(f) - f[p] + g[p]
    BY <2>1, <2>2, FiniteStore, TotalChanges
  <2> QED BY <2>3, <2>4, <2>5
<1> QED BY <1>1, <1>2

LEMMA ClaimsStep ==
    ASSUME StoreTypes, NEW r \in Requests, NEW p \in Projects, StepOf(r, p), HandFits(r)'
    PROVE  /\ ClaimedCount \in Nat /\ ClaimedCount' \in Nat
           /\ ClaimedBytes \in Nat /\ ClaimedBytes' \in Nat
           /\ Claim(r) \in [count : Nat, bytes : Nat] /\ Claim(r)' \in [count : Nat, bytes : Nat]
           /\ ClaimedCount' = ClaimedCount - Claim(r).count + Claim(r)'.count
           /\ ClaimedBytes' = ClaimedBytes - Claim(r).bytes + Claim(r)'.bytes
           /\ Claim(r).count <= ClaimedCount /\ Claim(r).bytes <= ClaimedBytes
<1>1. \A s \in Requests : HandFits(s) /\ HandFits(s)'
  BY TypesStep DEF StoreTypes
<1>2. \A s \in Requests : /\ Claim(s) \in [count : Nat, bytes : Nat]
                          /\ Claim(s)' \in [count : Nat, bytes : Nat]
  BY <1>1, ClaimTyped, ClaimTypedNext
<1>3. \A s \in Requests \ {r} : Claim(s)' = Claim(s)
  <2> SUFFICES ASSUME NEW s \in Requests \ {r} PROVE Claim(s)' = Claim(s)
    OBVIOUS
  <2>1. pc'[s] = pc[s] /\ local'[s] = local[s]
    BY DEF StepOf
  <2> QED BY <2>1 DEF Claim, Growth
<1>4. /\ ClaimedCount \in Nat /\ ClaimedCount' \in Nat
      /\ ClaimedCount' = ClaimedCount - Claim(r).count + Claim(r)'.count
      /\ Claim(r).count <= ClaimedCount
  <2> DEFINE f == [s \in Requests |-> Claim(s).count]
             g == [s \in Requests |-> Claim(s)'.count]
  <2>1. f \in [Requests -> Nat] /\ g \in [Requests -> Nat] /\ \A s \in Requests \ {r} : g[s] = f[s]
    BY <1>2, <1>3
  <2>2. f[r] = Claim(r).count /\ g[r] = Claim(r)'.count
    OBVIOUS
  <2>3. ClaimedCount = Total(f) /\ ClaimedCount' = Total(g)
    BY DEF ClaimedCount, Total
  <2> HIDE DEF f, g
  <2>4. /\ Total(f) \in Nat /\ Total(g) \in Nat
        /\ Total(g) = Total(f) - f[r] + g[r] /\ f[r] <= Total(f)
    BY <2>1, FiniteStore, TotalChanges
  <2> QED BY <2>2, <2>3, <2>4
<1>5. /\ ClaimedBytes \in Nat /\ ClaimedBytes' \in Nat
      /\ ClaimedBytes' = ClaimedBytes - Claim(r).bytes + Claim(r)'.bytes
      /\ Claim(r).bytes <= ClaimedBytes
  <2> DEFINE f == [s \in Requests |-> Claim(s).bytes]
             g == [s \in Requests |-> Claim(s)'.bytes]
  <2>1. f \in [Requests -> Nat] /\ g \in [Requests -> Nat] /\ \A s \in Requests \ {r} : g[s] = f[s]
    BY <1>2, <1>3
  <2>2. f[r] = Claim(r).bytes /\ g[r] = Claim(r)'.bytes
    OBVIOUS
  <2>3. ClaimedBytes = Total(f) /\ ClaimedBytes' = Total(g)
    BY DEF ClaimedBytes, Total
  <2> HIDE DEF f, g
  <2>4. /\ Total(f) \in Nat /\ Total(g) \in Nat
        /\ Total(g) = Total(f) - f[r] + g[r] /\ f[r] <= Total(f)
    BY <2>1, FiniteStore, TotalChanges
  <2> QED BY <2>2, <2>3, <2>4
<1> QED BY <1>2, <1>4, <1>5

LEMMA MissingIs ==
    ASSUME ambiguous \in Nat, ambiguous' \in Nat
    PROVE  /\ Missing \in Nat /\ Missing' \in Nat
           /\ ambiguous = 0 => Missing = 0
           /\ ambiguous' = ambiguous => Missing' = Missing
           /\ ambiguous' = ambiguous + 1 => Missing' = Missing + MaxSize
<1>1. \A a, b \in Nat : a * b \in Nat /\ (a + 1) * b = a * b + b /\ 0 * b = 0
  OBVIOUS
<1>2. MaxSize \in Nat
  BY SizesAreBounded
<1> QED BY <1>1, <1>2 DEF Missing

\* What the step changes in the ledger makes up for what it changes in rows and claims.
Slot(p) == IF Active(p) THEN 1 ELSE 0
Bytes(p) == IF Active(p) THEN project[p].bytes ELSE 0
Balanced(r, p) ==
    /\ quota'.count + ambiguous' - Slot(p)' - Claim(r)'.count
         >= quota.count + ambiguous - Slot(p) - Claim(r).count
    /\ quota'.bytes + Missing' - Bytes(p)' - Claim(r)'.bytes
         >= quota.bytes + Missing - Bytes(p) - Claim(r).bytes
    /\ lost' = 0 /\ ambiguous' = 0 =>
        /\ quota'.count - Slot(p)' - Claim(r)'.count = quota.count - Slot(p) - Claim(r).count
        /\ quota'.bytes - Bytes(p)' - Claim(r)'.bytes = quota.bytes - Bytes(p) - Claim(r).bytes
    /\ \/ Slot(p)' + Claim(r)'.count - ambiguous' <= Slot(p) + Claim(r).count - ambiguous
       \/ quota'.count <= MaxProjects
    /\ \/ Bytes(p)' + Claim(r)'.bytes - Missing' <= Bytes(p) + Claim(r).bytes - Missing
       \/ quota'.bytes <= MaxBytes

LEMMA LedgerStep ==
    ASSUME StoreTypes, LedgerCovers, NEW r \in Requests, NEW p \in Projects, StepOf(r, p),
           HandFits(r)', Balanced(r, p)
    PROVE  LedgerCovers'
<1>1. /\ ActiveCount \in Nat /\ ActiveCount' \in Nat /\ ActiveBytes \in Nat /\ ActiveBytes' \in Nat
      /\ ActiveCount' = ActiveCount - Slot(p) + Slot(p)'
      /\ ActiveBytes' = ActiveBytes - Bytes(p) + Bytes(p)'
  BY ActiveStep DEF Slot, Bytes
<1>2. /\ Slot(p) \in Nat /\ Slot(p)' \in Nat /\ Bytes(p) \in Nat /\ Bytes(p)' \in Nat
      /\ quota.count \in Nat /\ quota.bytes \in Nat /\ quota'.count \in Nat /\ quota'.bytes \in Nat
      /\ lost \in Nat /\ lost' \in Nat /\ lost <= lost'
      /\ ambiguous \in Nat /\ ambiguous' \in Nat /\ ambiguous <= ambiguous'
  <2>1. /\ project[p].bytes \in Nat /\ project'[p].bytes \in Nat
    BY RowBytes DEF StoreTypes, StepOf
  <2> QED BY <2>1 DEF StoreTypes, StepOf, Slot, Bytes
<1>2a. Missing \in Nat /\ Missing' \in Nat
  BY <1>2, MissingIs
<1>3. /\ ClaimedCount \in Nat /\ ClaimedCount' \in Nat
      /\ ClaimedBytes \in Nat /\ ClaimedBytes' \in Nat
      /\ Claim(r).count \in Nat /\ Claim(r)'.count \in Nat
      /\ Claim(r).bytes \in Nat /\ Claim(r)'.bytes \in Nat
      /\ ClaimedCount' = ClaimedCount - Claim(r).count + Claim(r)'.count
      /\ ClaimedBytes' = ClaimedBytes - Claim(r).bytes + Claim(r)'.bytes
  BY ClaimsStep
<1>4. /\ quota'.count + ambiguous' >= ActiveCount' + ClaimedCount'
      /\ ActiveCount' + ClaimedCount' <= MaxProjects + ambiguous'
  BY <1>1, <1>2, <1>3, LimitsAreNaturals DEF LedgerCovers, Balanced
<1>5. /\ quota'.bytes + Missing' >= ActiveBytes' + ClaimedBytes'
      /\ ActiveBytes' + ClaimedBytes' <= MaxBytes + Missing'
  BY <1>1, <1>2, <1>2a, <1>3, LimitsAreNaturals DEF LedgerCovers, Balanced
<1>6. lost' = 0 /\ ambiguous' = 0 => quota'.count = ActiveCount' + ClaimedCount'
  BY <1>1, <1>2, <1>3 DEF LedgerCovers, Balanced
<1>7. lost' = 0 /\ ambiguous' = 0 => quota'.bytes = ActiveBytes' + ClaimedBytes'
  BY <1>1, <1>2, <1>3 DEF LedgerCovers, Balanced
<1> QED BY <1>4, <1>5, <1>6, <1>7 DEF LedgerCovers

\* The ledger can give back what is claimed.
LEMMA LedgerCanGive ==
    ASSUME StoreTypes, LedgerCovers, ambiguous = 0, NEW r \in Requests
    PROVE  quota.count >= Claim(r).count /\ quota.bytes >= Claim(r).bytes
<1>1. \A s \in Requests : Claim(s) \in [count : Nat, bytes : Nat]
  BY ClaimTyped DEF StoreTypes
<1>2. ActiveCount \in Nat /\ ActiveBytes \in Nat /\ quota.count \in Nat /\ quota.bytes \in Nat
  <2>1. ActiveCount \in Nat
    BY ActiveIsFinite, FS_CardinalityType DEF ActiveCount
  <2> DEFINE f == [q \in Projects |-> IF Active(q) THEN project[q].bytes ELSE 0]
  <2>2. f \in [Projects -> Nat]
    BY RowBytes DEF StoreTypes
  <2>3. Total(f) \in Nat
    <3> HIDE DEF f
    <3> QED BY <2>2, FiniteStore, TotalIsNatural
  <2> QED BY <2>1, <2>3 DEF ActiveBytes, StoreTypes
<1>3. Claim(r).count <= ClaimedCount /\ ClaimedCount \in Nat
  <2> DEFINE f == [s \in Requests |-> Claim(s).count]
  <2>1. f \in [Requests -> Nat] /\ f[r] = Claim(r).count /\ ClaimedCount = Total(f)
    BY <1>1 DEF ClaimedCount
  <2> HIDE DEF f
  <2> QED BY <2>1, FiniteStore, TotalChanges
<1>4. Claim(r).bytes <= ClaimedBytes /\ ClaimedBytes \in Nat
  <2> DEFINE f == [s \in Requests |-> Claim(s).bytes]
  <2>1. f \in [Requests -> Nat] /\ f[r] = Claim(r).bytes /\ ClaimedBytes = Total(f)
    BY <1>1 DEF ClaimedBytes
  <2> HIDE DEF f
  <2> QED BY <2>1, FiniteStore, TotalChanges
<1>5. Claim(r).count \in Nat /\ Claim(r).bytes \in Nat
  BY <1>1
<1>6. Missing = 0
  BY SizesAreBounded DEF Missing
<1> QED BY <1>2, <1>3, <1>4, <1>5, <1>6 DEF LedgerCovers

-----------------------------------------------------------------------------
(* The rollback.                                                           *)

\* A tombstone that the step makes or keeps is of r, or was there.
OthersTombstones(r, p) ==
    /\ project'[p].state = "tombstone" =>
         project'[p].by = r \/ (project[p].state = "tombstone" /\ project[p].by = project'[p].by)
    /\ review'[p].state = "tombstone" =>
         review'[p].by = r \/ (review[p].state = "tombstone" /\ review[p].by = review'[p].by)

LEMMA RolledStep ==
    ASSUME StoreTypes, \A s \in Requests : Rolled(s), NEW r \in Requests, NEW p \in Projects,
           StepOf(r, p), OthersTombstones(r, p), Rolled(r)'
    PROVE  \A s \in Requests : Rolled(s)'
<1> SUFFICES ASSUME NEW s \in Requests, s # r PROVE Rolled(s)'
  OBVIOUS
<1>1. /\ pc'[s] = pc[s] /\ local'[s] = local[s] /\ answer'[s] = answer[s]
      /\ lost <= lost' /\ lost \in Nat /\ lost' \in Nat /\ crashes' = crashes
  BY DEF StepOf, StoreTypes
<1>2. \A q \in Projects : HasProject(s, q)' => HasProject(s, q)
  BY DEF StepOf, OthersTombstones, HasProject
<1>3. \A q \in Projects : HasReview(s, q)' => HasReview(s, q)
  BY DEF StepOf, OthersTombstones, HasReview
<1>4. local[s].target \in Projects
  BY LocalsAre DEF StoreTypes
<1>5. Rolled(s)
  OBVIOUS
<1> QED BY <1>1, <1>2, <1>3, <1>4, <1>5 DEF Rolled

\* Who has no tombstone and makes none.
Owners == {"scrub", "release", "restore", "remove", "done"}

LEMMA RolledQuietly ==
    ASSUME StoreTypes, \A s \in Requests : Rolled(s), NEW r \in Requests, NEW p \in Projects,
           StepOf(r, p), pc[r] \notin Owners, pc'[r] # "restore",
           project'[p].state = "tombstone" =>
              project[p].state = "tombstone" /\ project[p].by = project'[p].by,
           review'[p].state = "tombstone" =>
              review[p].state = "tombstone" /\ review[p].by = review'[p].by
    PROVE  \A s \in Requests : Rolled(s)'
<1>1. Rolled(r)
  OBVIOUS
<1>2. \A q \in Projects : ~HasProject(r, q) /\ ~HasReview(r, q)
  BY <1>1 DEF Rolled, Owners
<1>3. \A q \in Projects : ~HasProject(r, q)' /\ ~HasReview(r, q)'
  BY <1>2 DEF StepOf, HasProject, HasReview
<1>4. local'[r].target \in Projects
  BY DEF StepOf
<1>5. Rolled(r)'
  BY <1>3, <1>4 DEF Rolled
<1>6. OthersTombstones(r, p)
  BY DEF OthersTombstones
<1> QED BY <1>5, <1>6, RolledStep

-----------------------------------------------------------------------------
(* A step of a request, put together.                                      *)

\* Where r goes on, and what its caller is told.
Turn(r) ==
    /\ pc' \in [Requests \cup {Purger} -> Places]
    /\ answer' \in [Requests -> {"none", "success", "error"}]
    /\ \A s \in Requests \ {r} : pc'[s] = pc[s] /\ answer'[s] = answer[s]
    /\ pc'[Purger] = pc[Purger]

LEMMA Going ==
    ASSUME StoreTypes, NEW r \in Requests, NEW x \in Places, Go(r, x)
    PROVE  Turn(r) /\ pc'[r] = x /\ answer'[r] = answer[r]
  BY OwnNames DEF Go, Turn, StoreTypes

LEMMA Ending ==
    ASSUME StoreTypes, NEW r \in Requests, NEW t \in {"success", "error"}, End(r, t)
    PROVE  Turn(r) /\ pc'[r] = "done" /\ answer'[r] = t
<1> DEFINE done == "done"
<1>1. t \in {"none", "success", "error"} /\ r # Purger
  BY OwnNames
<1>0. done \in Places
  BY DEF Places
<1>2. pc' = [pc EXCEPT ![r] = done] /\ answer' = [answer EXCEPT ![r] = t]
  BY DEF End
<1> HIDE DEF done
<1>3. Turn(r) /\ pc'[r] = done /\ answer'[r] = t
  BY <1>0, <1>1, <1>2 DEF Turn, StoreTypes
<1> QED BY <1>3 DEF done

\* What an outcome costs.
Spent(o) ==
    /\ lost' \in Nat /\ ambiguous' \in Nat /\ crashes' = crashes
    /\ lost <= lost' /\ ambiguous <= ambiguous'
    /\ o \in {"ok", "lost", "unacknowledged"}
    /\ o = "ok" => lost' = lost /\ ambiguous' = ambiguous
    /\ o = "lost" => lost' = lost + 1 /\ ambiguous' = ambiguous
    /\ o = "unacknowledged" => lost' = lost /\ ambiguous' = ambiguous + 1
    /\ Missing \in Nat /\ Missing' \in Nat
    /\ Missing' = IF o = "unacknowledged" THEN Missing + MaxSize ELSE Missing

LEMMA Spending ==
    ASSUME StoreTypes, NEW o, o \in Outcomes \/ o \in ReadOutcomes, Spend(o)
    PROVE  Spent(o)
<1>1. o \in {"ok", "lost", "unacknowledged"}
  BY DEF Outcomes, ReadOutcomes
<1>2. /\ ambiguous \in Nat /\ ambiguous' \in Nat
      /\ ambiguous' = IF o = "unacknowledged" THEN ambiguous + 1 ELSE ambiguous
  BY DEF StoreTypes, Spend
<1>3. /\ Missing \in Nat /\ Missing' \in Nat
      /\ Missing' = IF o = "unacknowledged" THEN Missing + MaxSize ELSE Missing
  BY <1>2, MissingIs
<1> QED BY <1>1, <1>3 DEF StoreTypes, Spend, Spent

\* A step that moves neither the ledger nor the row's bytes, and keeps the claim.
LEMMA BalancedQuietly ==
    ASSUME StoreTypes, NEW r \in Requests, NEW p \in Projects, NEW o, Spent(o),
           quota' = quota, Active(p)' <=> Active(p), Active(p) => project'[p].bytes = project[p].bytes,
           Claim(r)' = Claim(r), Claim(r).count \in Nat, Claim(r).bytes \in Nat
    PROVE  Balanced(r, p)
<1>1. /\ quota.count \in Nat /\ quota.bytes \in Nat /\ ambiguous \in Nat
      /\ Slot(p)' = Slot(p) /\ Bytes(p)' = Bytes(p)
  BY DEF StoreTypes, Slot, Bytes
<1>2. Slot(p) \in Nat /\ Bytes(p) \in Nat
  BY RowBytes DEF StoreTypes, Slot, Bytes
<1>3. /\ ambiguous' \in Nat /\ ambiguous <= ambiguous'
      /\ Missing \in Nat /\ Missing' \in Nat /\ Missing <= Missing'
  BY SizesAreBounded DEF Spent
<1> QED BY <1>1, <1>2, <1>3 DEF Balanced

LEMMA StepFits ==
    ASSUME StoreInvariant, NEW r \in Requests, NEW p \in Projects, StepOf(r, p), HandFits(r)',
           VersionsTell', IsDue(review'[p]) => IsDue(review[p]),
           LedgerCovers => Balanced(r, p),
           ambiguous' = 0 /\ LedgerCovers /\ (\A s \in Requests : Rolled(s))
              => \A s \in Requests : Rolled(s)'
    PROVE  StoreInvariant'
<1>1. StoreTypes /\ ReviewsFirst
  BY DEF StoreInvariant
<1>2. StoreTypes' /\ ReviewsFirst'
  BY <1>1, TypesStep, ReviewsStep
<1>3. ASSUME ambiguous' = 0
      PROVE  \A s \in Requests : Rolled(s)'
  <2>1. ambiguous = 0
    BY <1>1, <1>3 DEF StoreTypes, StepOf
  <2>2. LedgerCovers /\ \A s \in Requests : Rolled(s)
    BY <2>1 DEF StoreInvariant
  <2> QED BY <1>3, <2>2
<1>4. LedgerCovers'
  <2>1. LedgerCovers
    BY DEF StoreInvariant
  <2> QED BY <1>1, <2>1, LedgerStep
<1> QED BY <1>2, <1>3, <1>4 DEF StoreInvariant

\* A step that only reads.
Idle == {"ready", "lookup", "reserve", "replay", "tombstone", "grow", "review-find",
         "review-insert", "review-load", "review-save"}

LEMMA ReadingStep ==
    ASSUME StoreInvariant, NEW r \in Requests, NEW p \in Projects, UNCHANGED store,
           Turn(r), NEW o, Spent(o), NEW l \in Locals, l.target = p,
           local' = [local EXCEPT ![r] = l], HandFits(r)', Known(l.seen, p), pc[r] \in Idle,
           pc'[r] \in BeforeWriting => pc[r] \in BeforeWriting,
           pc'[r] \in Idle \cup {"done"} \/ (pc'[r] = "write" /\ l.new <= l.seen.bytes)
    PROVE  StoreInvariant'
<1>1. StoreTypes /\ VersionsTell
  BY DEF StoreInvariant
<1>2. StepOf(r, p) /\ local'[r] = l /\ project'[p] = project[p] /\ review'[p] = review[p]
  <2> DEFINE row == project[p]
             copy == review[p]
  <2>1. /\ row \in ProjectRows /\ project' = [project EXCEPT ![p] = row]
        /\ copy \in ReviewRows /\ review' = [review EXCEPT ![p] = copy]
        /\ quota' \in [count : Nat, bytes : Nat]
    BY <1>1 DEF StoreTypes, store
  <2> HIDE DEF row, copy
  <2>2. StepOf(r, p) /\ local'[r] = l /\ project'[p] = row /\ review'[p] = copy
    BY <1>1, <2>1 DEF StepOf, StoreTypes, Turn, Spent
  <2> QED BY <2>2 DEF row, copy
<1>3. Known(project'[p], p)
  BY <1>2 DEF Known, Copies, Rows
<1>4. VersionsTell'
  BY <1>1, <1>2, <1>3, VersionsKept
<1>5. Claim(r) = [count |-> 0, bytes |-> 0]
  BY ClaimIs DEF ClaimFits, Idle
<1>6. Claim(r)' = [count |-> 0, bytes |-> 0]
  <2>1. CASE pc'[r] \in Idle \cup {"done"}
    BY <2>1, ClaimIsNext DEF ClaimFits, Idle
  <2>2. CASE pc'[r] = "write" /\ l.new <= l.seen.bytes
    <3>1. ~(Growth(r)' > 0)
      BY <1>2, <2>2, LocalsAre DEF Growth
    <3> QED BY <2>2, <3>1, ClaimIsNext DEF ClaimFits
  <2> QED BY <2>1, <2>2
<1>7. Balanced(r, p)
  <2>1. quota' = quota /\ (Active(p)' <=> Active(p)) /\ project'[p].bytes = project[p].bytes
    BY <1>2 DEF store, Active
  <2> QED BY <1>1, <1>5, <1>6, <2>1, BalancedQuietly
<1>8. (\A s \in Requests : Rolled(s)) => \A s \in Requests : Rolled(s)'
  <2>1. pc[r] \notin Owners /\ pc'[r] # "restore"
    BY DEF Idle, Owners
  <2> QED BY <1>1, <1>2, <2>1, RolledQuietly
<1> QED BY <1>2, <1>4, <1>7, <1>8, StepFits

-----------------------------------------------------------------------------
(* The steps that only read.                                               *)

LEMMA HandIs ==
    ASSUME StoreInvariant, NEW r \in Requests
    PROVE  /\ StoreTypes /\ HandFits(r) /\ local[r] \in Locals /\ local[r].target \in Projects
           /\ local[r].new \in Nat /\ local[r].seen.bytes \in Nat /\ local[r].seen \in ProjectRows
           /\ local[r].review \in ReviewRows
           /\ project[local[r].target] \in ProjectRows /\ review[local[r].target] \in ReviewRows
           /\ Known(local[r].seen, local[r].target)
           /\ local = [local EXCEPT ![r] = local[r]]
<1>1. StoreTypes /\ local[r] \in Locals /\ HandFits(r) /\ local = [local EXCEPT ![r] = local[r]]
  BY DEF StoreInvariant, StoreTypes
<1>2. Known(local[r].seen, local[r].target)
  BY DEF Known, Copies, Rows
<1> QED BY <1>1, <1>2, LocalsAre DEF StoreTypes

LEMMA NoLocalIs ==
    ASSUME NEW p \in Projects
    PROVE  /\ NoLocal(p) \in Locals /\ NoLocal(p).target = p /\ Known(NoProject, p)
           /\ NoLocal(p).seen = NoProject /\ NoLocal(p).new = 0 /\ NoLocal(p).review = NoReview
           /\ NoProject \in ProjectRows /\ NoReview \in ReviewRows
           /\ NoReview.state = "none" /\ NoProject.state = "none"
<1>1. Seed \in Writers
  BY DEF Writers
<1>2. NoProject \in ProjectRows
  BY <1>1, SizesFit DEF NoProject, ProjectRows, RowStates, Deadlines
<1>3. NoReview \in ReviewRows
  BY <1>1 DEF NoReview, ReviewRows, RowStates, Deadlines, Texts
<1>4. NoProject.state = "none" /\ NoReview.state = "none" /\ Known(NoProject, p)
  BY DEF NoProject, NoReview, Known
<1>5. /\ NoLocal(p) \in Locals /\ NoLocal(p).target = p /\ NoLocal(p).seen = NoProject
      /\ NoLocal(p).new = 0 /\ NoLocal(p).review = NoReview
  BY <1>2, <1>3 DEF NoLocal, Locals
<1> QED BY <1>2, <1>3, <1>4, <1>5

LEMMA SizesAreNatural == Sizes \cup {0} \subseteq Nat
  BY SizesArePositive

LEMMA RowIs ==
    ASSUME StoreInvariant, NEW p \in Projects
    PROVE  /\ StoreTypes /\ project[p] \in ProjectRows /\ project[p].bytes \in Nat
           /\ review[p] \in ReviewRows /\ Known(project[p], p)
<1>1. StoreTypes /\ project[p] \in ProjectRows /\ review[p] \in ReviewRows
  BY DEF StoreInvariant, StoreTypes
<1>2. project[p].bytes \in Nat
  BY <1>1 DEF ProjectRows
<1>3. Known(project[p], p)
  BY DEF Known, Copies, Rows
<1> QED BY <1>1, <1>2, <1>3

\* The variables of a request that has read row x.
ReadLocal(p, n, x) == [NoLocal(p) EXCEPT !.seen = x, !.new = n]

LEMMA ReadLocalIs ==
    ASSUME NEW p \in Projects, NEW n \in Sizes \cup {0}, NEW x \in ProjectRows
    PROVE  /\ ReadLocal(p, n, x) \in Locals /\ ReadLocal(p, n, x).target = p
           /\ ReadLocal(p, n, x).seen = x /\ ReadLocal(p, n, x).new = n
           /\ ReadLocal(p, n, x).review.state = "none"
<1> DEFINE k == NoLocal(p)
<1>1. k \in Locals /\ k.target = p /\ k.review.state = "none"
  BY NoLocalIs
<1> HIDE DEF k
<1> DEFINE l == [k EXCEPT !.seen = x, !.new = n]
<1>2. l \in Locals /\ l.target = p /\ l.seen = x /\ l.new = n /\ l.review = k.review
  BY <1>1 DEF Locals
<1>3. l = ReadLocal(p, n, x)
  BY DEF ReadLocal, k
<1> QED BY <1>1, <1>2, <1>3

LEMMA CreateBegins ==
    ASSUME StoreInvariant, NEW r \in Requests, BeginCreate(r)
    PROVE  StoreInvariant'
<1>1. StoreTypes
  BY DEF StoreInvariant
<1>2. PICK p \in Projects, n \in Sizes :
        local' = [local EXCEPT ![r] = [NoLocal(p) EXCEPT !.new = n]]
  BY DEF BeginCreate
<1> DEFINE l == [NoLocal(p) EXCEPT !.new = n]
<1>3. l \in Locals /\ l.target = p /\ Known(l.seen, p)
  BY NoLocalIs DEF Locals
<1>4. /\ UNCHANGED store /\ pc[r] = "ready" /\ Go(r, "lookup") /\ UNCHANGED bounds
      /\ local' = [local EXCEPT ![r] = l]
  BY <1>2 DEF BeginCreate
<1> HIDE DEF l
<1>5. Turn(r) /\ pc'[r] = "lookup"
  <2>1. "lookup" \in Places
    BY DEF Places, Pending
  <2> QED BY <1>1, <1>4, <2>1, Going
<1>6. Spent("ok")
  <2>1. ambiguous' \in Nat /\ ambiguous' = ambiguous /\ lost' = lost /\ crashes' = crashes
    BY <1>1, <1>4 DEF bounds, StoreTypes
  <2> QED BY <1>1, <2>1, MissingIs DEF Spent, StoreTypes
<1>7. HandFits(r)'
  BY <1>1, <1>3, <1>4, <1>5 DEF HandFits, Pending, StoreTypes
<1>8. pc[r] \in Idle /\ pc[r] \in BeforeWriting /\ pc'[r] \in Idle
  BY <1>4, <1>5 DEF Idle, BeforeWriting
<1> QED BY <1>3, <1>4, <1>5, <1>6, <1>7, <1>8, ReadingStep

LEMMA ImportIsLookedUp ==
    ASSUME StoreInvariant, NEW r \in Requests, LookUpImport(r) \/ ReplayImport(r)
    PROVE  StoreInvariant'
<1> DEFINE p == local[r].target
           l == local[r]
<1>1. /\ StoreTypes /\ HandFits(r) /\ l \in Locals /\ p \in Projects /\ Known(l.seen, p)
      /\ UNCHANGED store /\ local' = local /\ local' = [local EXCEPT ![r] = l] /\ l.target = p
  BY HandIs DEF LookUpImport, ReplayImport
<1>2. pc[r] \in {"lookup", "replay"}
  BY DEF LookUpImport, ReplayImport
<1>3. PICK o : Spent(o)
  BY <1>1, Spending DEF LookUpImport, ReplayImport
<1>4. Turn(r) /\ (pc'[r] = "done" \/ (pc'[r] = "reserve" /\ pc[r] = "lookup"))
  <2>1. "reserve" \in Places
    BY DEF Places, Pending
  <2>2. CASE Go(r, "reserve") /\ pc[r] = "lookup"
    BY <1>1, <2>1, <2>2, Going
  <2>3. CASE \E t \in {"success", "error"} : End(r, t)
    BY <1>1, <2>3, Ending
  <2> QED BY <2>2, <2>3 DEF LookUpImport, ReplayImport, GoIf
<1>5. HandFits(r)'
  BY <1>1, <1>4 DEF HandFits, Pending
<1>6. /\ pc[r] \in Idle /\ pc'[r] \in Idle \cup {"done"}
      /\ pc'[r] \in BeforeWriting => pc[r] \in BeforeWriting
  BY <1>2, <1>4 DEF Idle, BeforeWriting
<1> HIDE DEF p, l
<1> QED BY <1>1, <1>3, <1>4, <1>5, <1>6, ReadingStep

\* findOwnedProject: what it hands on is active.
LEMMA ProjectIsFound ==
    ASSUME StoreInvariant, NEW r \in Requests, NEW p \in Projects, NEW n \in Sizes \cup {0},
           NEW where \in {"grow", "write", "tombstone"},
           where \in {"grow", "write"} => r \in Updates,
           where = "grow" <=> n > project[p].bytes, where = "write" => ~(n > project[p].bytes),
           Find(r, p, n, where)
    PROVE  StoreInvariant'
<1> DEFINE x == project[p]
           l == ReadLocal(p, n, x)
<1>1. /\ StoreTypes /\ project[p] \in ProjectRows /\ project[p].bytes \in Nat /\ n \in Nat
      /\ Known(project[p], p)
  BY RowIs, SizesAreNatural
<1>2. /\ l \in Locals /\ l.target = p /\ l.seen = project[p] /\ l.new = n
      /\ l.review.state = "none"
  <2>1. x \in ProjectRows
    BY <1>1
  <2> HIDE DEF x
  <2>2. l \in Locals /\ l.target = p /\ l.seen = x /\ l.new = n /\ l.review.state = "none"
    BY <2>1, ReadLocalIs
  <2> QED BY <2>2 DEF x
<1>3. pc[r] = "ready" /\ local' = [local EXCEPT ![r] = l] /\ UNCHANGED store
  BY DEF Find, ReadLocal
<1> HIDE DEF l
<1>4. PICK o : Spent(o)
  BY <1>1, Spending DEF Find
<1>5. Turn(r) /\ (pc'[r] = "done" \/ (pc'[r] = where /\ Active(p)))
  <2>1. where \in Places
    BY DEF Places, Pending
  <2>2. CASE Go(r, where) /\ Active(p)
    BY <1>1, <2>1, <2>2, Going
  <2>3. CASE End(r, "error")
    BY <1>1, <2>3, Ending
  <2> QED BY <2>2, <2>3 DEF Find, GoIf
<1>6. local'[r] = l
  BY <1>1, <1>3 DEF StoreTypes
<1>7. HandFits(r)'
  <2>1. pc'[r] = "grow" => Growth(r)' > 0
    BY <1>1, <1>2, <1>5, <1>6 DEF Growth
  <2> QED BY <1>2, <1>5, <1>6, <2>1 DEF HandFits, Pending, Active
<1>8. /\ pc[r] \in Idle /\ pc[r] \in BeforeWriting
      /\ pc'[r] \in Idle \cup {"done"} \/ (pc'[r] = "write" /\ l.new <= l.seen.bytes)
  BY <1>1, <1>2, <1>3, <1>5 DEF Idle, BeforeWriting
<1> QED BY <1>1, <1>2, <1>3, <1>4, <1>5, <1>7, <1>8, ReadingStep

LEMMA FoundForUpdate ==
    ASSUME StoreInvariant, NEW r \in Requests, r \in Updates, FindForUpdate(r)
    PROVE  StoreInvariant'
<1>1. PICK p \in Projects, n \in Sizes :
        Find(r, p, n, IF n > project[p].bytes THEN "grow" ELSE "write")
  BY DEF FindForUpdate
<1>2. CASE n > project[p].bytes
  <2>1. Find(r, p, n, "grow")
    BY <1>1, <1>2
  <2> QED BY <1>2, <2>1, ProjectIsFound
<1>3. CASE ~(n > project[p].bytes)
  <2>1. Find(r, p, n, "write")
    BY <1>1, <1>3
  <2> QED BY <1>3, <2>1, ProjectIsFound
<1> QED BY <1>2, <1>3

LEMMA FoundForDelete ==
    ASSUME StoreInvariant, NEW r \in Requests, FindForDelete(r)
    PROVE  StoreInvariant'
<1>1. PICK p \in Projects : Find(r, p, 0, "tombstone")
  BY DEF FindForDelete
<1>2. ~(0 > project[p].bytes)
  BY RowIs
<1> QED BY <1>1, <1>2, ProjectIsFound

LEMMA ReviewedProjectFound ==
    ASSUME StoreInvariant, NEW r \in Requests, FindReviewedProject(r)
    PROVE  StoreInvariant'
<1>1. PICK p \in Projects, o \in ReadOutcomes :
        /\ Spend(o)
        /\ local' = [local EXCEPT ![r] = [NoLocal(p) EXCEPT !.seen = project[p]]]
        /\ GoIf(r, o = "ok" /\ Active(p),
                IF r \in ReviewCreates THEN "review-find" ELSE "review-load")
  BY DEF FindReviewedProject
<1> DEFINE x == project[p]
           l == [NoLocal(p) EXCEPT !.seen = x]
<1>2. /\ StoreTypes /\ x \in ProjectRows /\ Known(x, p)
  BY RowIs
<1> HIDE DEF x
<1>3. l \in Locals /\ l.target = p /\ l.seen = x
  BY <1>2, NoLocalIs DEF Locals
<1>4. pc[r] = "ready" /\ local' = [local EXCEPT ![r] = l] /\ UNCHANGED store
  BY <1>1 DEF FindReviewedProject, x
<1> HIDE DEF l
<1>5. Spent(o)
  BY <1>1, <1>2, Spending
<1>6. Turn(r) /\ pc'[r] \in {"review-find", "review-load", "done"}
  <2>1. {"review-find", "review-load"} \subseteq Places
    BY DEF Places, Pending
  <2>2. CASE Go(r, "review-find")
    BY <1>2, <2>1, <2>2, Going
  <2>3. CASE Go(r, "review-load")
    BY <1>2, <2>1, <2>3, Going
  <2>4. CASE End(r, "error")
    BY <1>2, <2>4, Ending
  <2> QED BY <1>1, <2>2, <2>3, <2>4 DEF GoIf
<1>7. HandFits(r)'
  BY <1>2, <1>3, <1>4, <1>6 DEF HandFits, Pending, StoreTypes
<1>8. pc[r] \in Idle /\ pc[r] \in BeforeWriting /\ pc'[r] \in Idle \cup {"done"}
  BY <1>4, <1>6 DEF Idle, BeforeWriting
<1> QED BY <1>2, <1>3, <1>4, <1>5, <1>6, <1>7, <1>8, ReadingStep

LEMMA ReviewIsLoaded ==
    ASSUME StoreInvariant, NEW r \in Requests, FindReview(r) \/ LoadReview(r)
    PROVE  StoreInvariant'
<1> DEFINE p == local[r].target
           x == review[p]
           l == IF LoadReview(r) THEN [local[r] EXCEPT !.review = x] ELSE local[r]
<1>1. /\ StoreTypes /\ HandFits(r) /\ local[r] \in Locals /\ p \in Projects
      /\ Known(local[r].seen, p) /\ UNCHANGED store /\ x \in ReviewRows
      /\ local = [local EXCEPT ![r] = local[r]]
  BY HandIs DEF FindReview, LoadReview
<1>2. pc[r] \in {"review-find", "review-load"}
  BY DEF FindReview, LoadReview
<1>3. PICK o : Spent(o)
  BY <1>1, Spending DEF FindReview, LoadReview
<1>4. Turn(r) /\ pc'[r] \in {"done", "review-insert", "review-save"}
  <2>1. {"review-insert", "review-save"} \subseteq Places
    BY DEF Places, Pending
  <2>2. CASE Go(r, "review-insert")
    BY <1>1, <2>1, <2>2, Going
  <2>3. CASE Go(r, "review-save")
    BY <1>1, <2>1, <2>3, Going
  <2>4. CASE \E t \in {"success", "error"} : End(r, t)
    BY <1>1, <2>4, Ending
  <2> QED BY <2>2, <2>3, <2>4 DEF FindReview, LoadReview, GoIf
<1>5. local' = [local EXCEPT ![r] = l]
  <2>1. CASE LoadReview(r)
    <3>1. local' = [local EXCEPT ![r].review = x]
      BY <2>1 DEF LoadReview
    <3> QED BY <2>1, <3>1
  <2>2. CASE ~LoadReview(r)
    BY <1>1, <2>2 DEF FindReview
  <2> QED BY <2>1, <2>2
<1>6. l \in Locals /\ l.target = p /\ l.seen = local[r].seen
  <2> HIDE DEF x
  <2>1. local[r] \in Locals /\ x \in ReviewRows
    BY <1>1
  <2> DEFINE k == local[r]
  <2>2. /\ [k EXCEPT !.review = x] \in Locals
        /\ [k EXCEPT !.review = x].target = k.target /\ [k EXCEPT !.review = x].seen = k.seen
    <3> HIDE DEF k
    <3> QED BY <2>1 DEF Locals, k
  <2> QED BY <2>1, <2>2
<1>7. local'[r] = l
  BY <1>1, <1>5 DEF StoreTypes
<1> HIDE DEF l
<1>8. HandFits(r)'
  BY <1>4, <1>6, <1>7 DEF HandFits, Pending
<1>9. /\ pc[r] \in Idle /\ pc'[r] \in Idle \cup {"done"} /\ pc'[r] \notin BeforeWriting
  BY <1>2, <1>4 DEF Idle, BeforeWriting
<1> HIDE DEF p
<1> QED BY <1>1, <1>3, <1>4, <1>5, <1>6, <1>8, <1>9, ReadingStep

-----------------------------------------------------------------------------
(* The steps on the ledger.                                                *)

\* What the step changes in the ledger makes up for what it changes in the claim.
Moved(r) ==
    /\ quota'.count + ambiguous' - Claim(r)'.count >= quota.count + ambiguous - Claim(r).count
    /\ quota'.bytes + Missing' - Claim(r)'.bytes >= quota.bytes + Missing - Claim(r).bytes
    /\ lost' = 0 /\ ambiguous' = 0 =>
        /\ quota'.count - Claim(r)'.count = quota.count - Claim(r).count
        /\ quota'.bytes - Claim(r)'.bytes = quota.bytes - Claim(r).bytes
    /\ Claim(r)'.count <= Claim(r).count \/ quota'.count <= MaxProjects
    /\ Claim(r)'.bytes <= Claim(r).bytes \/ quota'.bytes <= MaxBytes

\* A request moves only the ledger, as its claim says.
LEMMA LedgerMoves ==
    ASSUME StoreInvariant, NEW r \in Requests, NEW p \in Projects, UNCHANGED <<project, review>>,
           Turn(r), NEW o, Spent(o), NEW l \in Locals, l.target = p,
           local' = [local EXCEPT ![r] = l], Known(l.seen, p), HandFits(r)',
           quota' \in [count : Nat, bytes : Nat],
           pc'[r] \in BeforeWriting => pc[r] \in BeforeWriting,
           LedgerCovers => Moved(r),
           ambiguous' = 0 /\ LedgerCovers /\ (\A s \in Requests : Rolled(s))
              => Rolled(r)' \/ (pc[r] \notin Owners /\ pc'[r] # "restore")
    PROVE  StoreInvariant'
<1>1. StoreTypes /\ VersionsTell /\ HandFits(r)
  BY DEF StoreInvariant, StoreTypes
<1>2. StepOf(r, p) /\ local'[r] = l /\ project' = project /\ review' = review
  BY <1>1 DEF StepOf, StoreTypes, Turn, Spent
<1>3. Known(project'[p], p)
  BY <1>2 DEF Known, Copies, Rows
<1>4. VersionsTell'
  BY <1>1, <1>2, <1>3, VersionsKept
<1>5. /\ Slot(p)' = Slot(p) /\ Bytes(p)' = Bytes(p) /\ Slot(p) \in Nat /\ Bytes(p) \in Nat
      /\ quota.count \in Nat /\ quota.bytes \in Nat /\ quota'.count \in Nat /\ quota'.bytes \in Nat
      /\ ambiguous \in Nat /\ ambiguous' \in Nat /\ ambiguous <= ambiguous'
      /\ Missing \in Nat /\ Missing' \in Nat /\ Missing <= Missing'
  <2>1. project[p].bytes \in Nat
    BY <1>1, RowBytes DEF StoreTypes
  <2>2. ambiguous \in Nat /\ Missing <= Missing'
    BY <1>1, SizesAreBounded DEF StoreTypes, Spent
  <2> QED BY <1>1, <1>2, <2>1, <2>2 DEF Slot, Bytes, Active, StoreTypes, Spent
<1>6. /\ Claim(r).count \in Nat /\ Claim(r).bytes \in Nat
      /\ Claim(r)'.count \in Nat /\ Claim(r)'.bytes \in Nat
  BY <1>1, ClaimTyped, ClaimTypedNext
<1>7. LedgerCovers => Balanced(r, p)
  <2> SUFFICES ASSUME Moved(r) PROVE Balanced(r, p)
    OBVIOUS
  <2>1. /\ quota'.count + ambiguous' - Slot(p)' - Claim(r)'.count
             >= quota.count + ambiguous - Slot(p) - Claim(r).count
        /\ quota'.bytes + Missing' - Bytes(p)' - Claim(r)'.bytes
             >= quota.bytes + Missing - Bytes(p) - Claim(r).bytes
    BY <1>5, <1>6 DEF Moved
  <2>2. lost' = 0 /\ ambiguous' = 0 =>
          /\ quota'.count - Slot(p)' - Claim(r)'.count = quota.count - Slot(p) - Claim(r).count
          /\ quota'.bytes - Bytes(p)' - Claim(r)'.bytes = quota.bytes - Bytes(p) - Claim(r).bytes
    BY <1>5, <1>6 DEF Moved
  <2>3. \/ Slot(p)' + Claim(r)'.count - ambiguous' <= Slot(p) + Claim(r).count - ambiguous
        \/ quota'.count <= MaxProjects
    BY <1>5, <1>6 DEF Moved
  <2>4. \/ Bytes(p)' + Claim(r)'.bytes - Missing' <= Bytes(p) + Claim(r).bytes - Missing
        \/ quota'.bytes <= MaxBytes
    BY <1>5, <1>6 DEF Moved
  <2> QED BY <2>1, <2>2, <2>3, <2>4 DEF Balanced
<1>8. ASSUME ambiguous' = 0 /\ LedgerCovers, \A s \in Requests : Rolled(s)
      PROVE  \A s \in Requests : Rolled(s)'
  <2>1. OthersTombstones(r, p)
    BY <1>2 DEF OthersTombstones
  <2>2. CASE Rolled(r)'
    BY <1>1, <1>2, <1>8, <2>1, <2>2, RolledStep
  <2>3. CASE pc[r] \notin Owners /\ pc'[r] # "restore"
    BY <1>1, <1>2, <1>8, <2>3, RolledQuietly
  <2> QED BY <1>8, <2>2, <2>3
<1> QED BY <1>2, <1>4, <1>7, <1>8, StepFits

LEMMA SpentIs ==
    ASSUME StoreTypes, NEW o, Spent(o)
    PROVE  /\ ambiguous \in Nat /\ ambiguous' \in Nat /\ lost \in Nat /\ lost' \in Nat
           /\ Missing \in Nat /\ Missing' \in Nat /\ MaxSize \in Nat
           /\ ambiguous <= ambiguous' /\ Missing <= Missing'
           /\ o = "unacknowledged" => Missing' = Missing + MaxSize /\ ambiguous' = ambiguous + 1
  BY SizesAreBounded DEF StoreTypes, Spent

LEMMA Reserving ==
    ASSUME StoreTypes, NEW o, Spent(o), NEW c \in Nat, NEW b \in Nat, Reserve(o, c, b)
    PROVE  /\ quota' \in [count : Nat, bytes : Nat]
           /\ quota'.count >= quota.count /\ quota'.bytes >= quota.bytes
           /\ o = "ok" /\ QuotaFits(c, b) =>
                /\ quota'.count = quota.count + c /\ quota'.bytes = quota.bytes + b
                /\ quota'.count <= MaxProjects /\ quota'.bytes <= MaxBytes
           /\ ambiguous' = 0 /\ ~(o = "ok" /\ QuotaFits(c, b)) => quota' = quota
<1>1. quota \in [count : Nat, bytes : Nat] /\ ambiguous \in Nat
  BY DEF StoreTypes
<1>2. /\ quota'.count \in Nat /\ quota'.bytes \in Nat /\ quota' \in [count : Nat, bytes : Nat]
      /\ quota'.count >= quota.count /\ quota'.bytes >= quota.bytes
  BY <1>1 DEF Reserve
<1> QED BY <1>1, <1>2 DEF Reserve, Spent, QuotaFits

LEMMA Releasing ==
    ASSUME StoreTypes, NEW o, Spent(o), NEW c \in Nat, NEW b \in Nat, Release(o, c, b)
    PROVE  /\ quota' \in [count : Nat, bytes : Nat]
           /\ quota'.count + c >= quota.count /\ quota'.bytes + b >= quota.bytes
           /\ o = "ok" /\ QuotaCanGive(c, b) =>
                quota'.count = quota.count - c /\ quota'.bytes = quota.bytes - b
           /\ ~(o = "ok" /\ QuotaCanGive(c, b)) => quota' = quota \/ o = "unacknowledged"
           /\ ambiguous' = 0 /\ lost' = 0 => o = "ok" /\ ambiguous = 0
           /\ ambiguous' = 0 => ambiguous = 0 /\ (o = "ok" \/ lost' >= 1)
<1>1. quota \in [count : Nat, bytes : Nat] /\ ambiguous \in Nat /\ lost \in Nat
  BY DEF StoreTypes
<1>2. /\ quota' \in [count : Nat, bytes : Nat]
      /\ quota'.count + c >= quota.count /\ quota'.bytes + b >= quota.bytes
  BY <1>1 DEF Release, QuotaCanGive
<1>3. /\ ambiguous' = 0 /\ lost' = 0 => o = "ok" /\ ambiguous = 0
      /\ ambiguous' = 0 => ambiguous = 0 /\ (o = "ok" \/ lost' >= 1)
  BY <1>1 DEF Spent
<1> QED BY <1>1, <1>2, <1>3 DEF Release, Spent, QuotaCanGive

LEMMA CreateReserved ==
    ASSUME StoreInvariant, NEW r \in Requests, ReserveForCreate(r)
    PROVE  StoreInvariant'
<1> DEFINE p == local[r].target
           l == local[r]
           b == local[r].new
<1>1. /\ StoreTypes /\ HandFits(r) /\ l \in Locals /\ p \in Projects /\ Known(l.seen, p)
      /\ UNCHANGED <<project, review>> /\ local' = local /\ local' = [local EXCEPT ![r] = l]
      /\ l.target = p /\ b \in Nat /\ pc[r] = "reserve"
  BY HandIs DEF ReserveForCreate
<1>2. PICK o \in Outcomes :
        Spend(o) /\ Reserve(o, 1, b) /\ GoIf(r, o = "ok" /\ QuotaFits(1, b), "insert")
  BY DEF ReserveForCreate
<1>3. Spent(o)
  BY <1>1, <1>2, Spending
<1>4. /\ Turn(r)
      /\ \/ pc'[r] = "insert" /\ o = "ok" /\ QuotaFits(1, b)
         \/ pc'[r] = "done" /\ ~(o = "ok" /\ QuotaFits(1, b))
  <2>1. "insert" \in Places
    BY DEF Places, Pending
  <2>2. CASE Go(r, "insert") /\ o = "ok" /\ QuotaFits(1, b)
    BY <1>1, <2>1, <2>2, Going
  <2>3. CASE End(r, "error") /\ ~(o = "ok" /\ QuotaFits(1, b))
    BY <1>1, <2>3, Ending
  <2> QED BY <1>2, <2>2, <2>3 DEF GoIf
<1>5. HandFits(r)'
  BY <1>1, <1>4 DEF HandFits, Pending
<1>6. /\ pc[r] \notin Owners /\ pc'[r] # "restore"
      /\ pc'[r] \in BeforeWriting => pc[r] \in BeforeWriting
  BY <1>1, <1>4 DEF Owners, BeforeWriting
<1>7. Claim(r) = [count |-> 0, bytes |-> 0]
  BY <1>1, ClaimIs DEF ClaimFits
<1>8. Claim(r)' = IF pc'[r] = "insert" THEN [count |-> 1, bytes |-> b] ELSE [count |-> 0, bytes |-> 0]
  BY <1>1, <1>4, ClaimIsNext DEF ClaimFits
<1>9. /\ quota' \in [count : Nat, bytes : Nat] /\ quota \in [count : Nat, bytes : Nat]
      /\ quota'.count >= quota.count /\ quota'.bytes >= quota.bytes
      /\ o = "ok" /\ QuotaFits(1, b) =>
           /\ quota'.count = quota.count + 1 /\ quota'.bytes = quota.bytes + b
           /\ quota'.count <= MaxProjects /\ quota'.bytes <= MaxBytes
      /\ ambiguous' = 0 /\ ~(o = "ok" /\ QuotaFits(1, b)) => quota' = quota
  <2>1. b \in Nat /\ 1 \in Nat
    BY <1>1
  <2> HIDE DEF b
  <2> QED BY <1>1, <1>2, <1>3, <2>1, Reserving DEF StoreTypes
<1> HIDE DEF p, l, b
<1>10. LedgerCovers => Moved(r)
  BY <1>3, <1>1, <1>4, <1>7, <1>8, <1>9, SpentIs DEF Moved
<1> QED BY <1>1, <1>3, <1>4, <1>5, <1>6, <1>9, <1>10, LedgerMoves

LEMMA ReservationGivenBack ==
    ASSUME StoreInvariant, NEW r \in Requests, GiveBack(r)
    PROVE  StoreInvariant'
<1> DEFINE p == local[r].target
           l == local[r]
           b == local[r].new
<1>1. /\ StoreTypes /\ HandFits(r) /\ l \in Locals /\ p \in Projects /\ Known(l.seen, p)
      /\ UNCHANGED <<project, review>> /\ local' = local /\ local' = [local EXCEPT ![r] = l]
      /\ l.target = p /\ b \in Nat /\ pc[r] = "giveback"
  BY HandIs DEF GiveBack
<1>2. PICK o \in Outcomes :
        /\ Spend(o) /\ Release(o, 1, b)
        /\ GoIf(r, o = "ok" /\ QuotaCanGive(1, b) /\ local[r].duplicate, "replay")
  BY DEF GiveBack
<1>3. Spent(o)
  BY <1>1, <1>2, Spending
<1>4. Turn(r) /\ pc'[r] \in {"replay", "done"}
  <2>1. "replay" \in Places
    BY DEF Places, Pending
  <2>2. CASE Go(r, "replay")
    BY <1>1, <2>1, <2>2, Going
  <2>3. CASE End(r, "error")
    BY <1>1, <2>3, Ending
  <2> QED BY <1>2, <2>2, <2>3 DEF GoIf
<1>5. HandFits(r)'
  BY <1>1, <1>4 DEF HandFits, Pending
<1>6. /\ pc[r] \notin Owners /\ pc'[r] # "restore" /\ pc'[r] \notin BeforeWriting
  BY <1>1, <1>4 DEF Owners, BeforeWriting
<1>7. Claim(r) = [count |-> 1, bytes |-> b]
  BY <1>1, ClaimIs DEF ClaimFits
<1>8. Claim(r)' = [count |-> 0, bytes |-> 0]
  BY <1>4, ClaimIsNext DEF ClaimFits
<1>9. /\ quota' \in [count : Nat, bytes : Nat] /\ quota \in [count : Nat, bytes : Nat]
      /\ o = "ok" /\ QuotaCanGive(1, b) =>
           quota'.count = quota.count - 1 /\ quota'.bytes = quota.bytes - b
      /\ quota'.count + 1 >= quota.count /\ quota'.bytes + b >= quota.bytes
      /\ ~(o = "ok" /\ QuotaCanGive(1, b)) => quota' = quota \/ o = "unacknowledged"
      /\ ambiguous' = 0 /\ lost' = 0 => o = "ok" /\ ambiguous = 0
      /\ ambiguous' = 0 => ambiguous = 0 /\ (o = "ok" \/ lost' >= 1)
  <2>1. b \in Nat /\ 1 \in Nat
    BY <1>1
  <2> HIDE DEF b
  <2> QED BY <1>1, <1>2, <1>3, <2>1, Releasing DEF StoreTypes
<1>10. LedgerCovers /\ ambiguous = 0 => QuotaCanGive(1, b)
  BY <1>1, <1>7, LedgerCanGive DEF QuotaCanGive
<1>11. lost' \in Nat
  BY <1>3 DEF Spent
<1> HIDE DEF p, l, b
<1>12. LedgerCovers => Moved(r)
  BY <1>3, <1>1, <1>7, <1>8, <1>9, <1>10, <1>11, SpentIs DEF Moved
<1> QED BY <1>1, <1>3, <1>4, <1>5, <1>6, <1>9, <1>12, LedgerMoves

LEMMA GrowthReserved ==
    ASSUME StoreInvariant, NEW r \in Requests, ReserveGrowth(r)
    PROVE  StoreInvariant'
<1> DEFINE p == local[r].target
           l == local[r]
           b == Growth(r)
<1>1. /\ StoreTypes /\ HandFits(r) /\ l \in Locals /\ p \in Projects /\ Known(l.seen, p)
      /\ UNCHANGED <<project, review>> /\ local' = local /\ local' = [local EXCEPT ![r] = l]
      /\ l.target = p /\ l.new \in Nat /\ l.seen.bytes \in Nat /\ pc[r] = "grow"
  BY HandIs DEF ReserveGrowth
<1>0. b \in Nat /\ b > 0 /\ Growth(r)' = b /\ r \in Updates
  BY <1>1 DEF HandFits, Growth
<1>2. PICK o \in Outcomes :
        Spend(o) /\ Reserve(o, 0, b) /\ GoIf(r, o = "ok" /\ QuotaFits(0, b), "write")
  BY DEF ReserveGrowth
<1>3. Spent(o)
  BY <1>1, <1>2, Spending
<1>4. /\ Turn(r)
      /\ \/ pc'[r] = "write" /\ o = "ok" /\ QuotaFits(0, b)
         \/ pc'[r] = "done" /\ ~(o = "ok" /\ QuotaFits(0, b))
  <2>1. "write" \in Places
    BY DEF Places, Pending
  <2>2. CASE Go(r, "write") /\ o = "ok" /\ QuotaFits(0, b)
    BY <1>1, <2>1, <2>2, Going
  <2>3. CASE End(r, "error") /\ ~(o = "ok" /\ QuotaFits(0, b))
    BY <1>1, <2>3, Ending
  <2> QED BY <1>2, <2>2, <2>3 DEF GoIf
<1>5. HandFits(r)'
  BY <1>0, <1>1, <1>4 DEF HandFits, Pending
<1>6. /\ pc[r] \notin Owners /\ pc'[r] # "restore"
      /\ pc'[r] \in BeforeWriting => pc[r] \in BeforeWriting
  BY <1>1, <1>4 DEF Owners, BeforeWriting
<1>7. Claim(r) = [count |-> 0, bytes |-> 0]
  BY <1>1, ClaimIs DEF ClaimFits
<1>8. Claim(r)' = IF pc'[r] = "write" THEN [count |-> 0, bytes |-> b] ELSE [count |-> 0, bytes |-> 0]
  <2>1. CASE pc'[r] = "write"
    BY <1>0, <2>1, ClaimIsNext DEF ClaimFits
  <2>2. CASE pc'[r] = "done"
    BY <2>2, ClaimIsNext DEF ClaimFits
  <2> QED BY <1>4, <2>1, <2>2
<1>9. /\ quota' \in [count : Nat, bytes : Nat] /\ quota \in [count : Nat, bytes : Nat]
      /\ quota'.count >= quota.count /\ quota'.bytes >= quota.bytes
      /\ o = "ok" /\ QuotaFits(0, b) =>
           /\ quota'.count = quota.count + 0 /\ quota'.bytes = quota.bytes + b
           /\ quota'.count <= MaxProjects /\ quota'.bytes <= MaxBytes
      /\ ambiguous' = 0 /\ ~(o = "ok" /\ QuotaFits(0, b)) => quota' = quota
  <2>1. b \in Nat /\ 0 \in Nat
    BY <1>0
  <2> HIDE DEF b
  <2> QED BY <1>1, <1>2, <1>3, <2>1, Reserving DEF StoreTypes
<1> HIDE DEF p, l, b
<1>10. LedgerCovers => Moved(r)
  BY <1>3, <1>0, <1>1, <1>4, <1>7, <1>8, <1>9, SpentIs DEF Moved
<1> QED BY <1>1, <1>3, <1>4, <1>5, <1>6, <1>9, <1>10, LedgerMoves

\* The release of a conflict: after an error of its own the claim stays, for the catch block.
LEMMA GrowthUndone ==
    ASSUME StoreInvariant, NEW r \in Requests, UndoGrowth(r)
    PROVE  StoreInvariant'
<1> DEFINE p == local[r].target
           l == local[r]
           b == Growth(r)
<1>1. /\ StoreTypes /\ HandFits(r) /\ l \in Locals /\ p \in Projects /\ Known(l.seen, p)
      /\ UNCHANGED <<project, review>> /\ local' = local /\ local' = [local EXCEPT ![r] = l]
      /\ l.target = p /\ l.new \in Nat /\ l.seen.bytes \in Nat /\ pc[r] = "undo"
      /\ l.new <= MaxSize
  BY HandIs, LocalsAre DEF UndoGrowth
<1>0. b \in Nat /\ b > 0 /\ b <= MaxSize /\ r \in Updates /\ Growth(r)' = b
  BY <1>1, SizesAreBounded DEF HandFits, Growth
<1>2. PICK o \in Outcomes :
        /\ Spend(o) /\ Release(o, 0, b)
        /\ IF AfterUndo(o) = "done" THEN End(r, "error") ELSE Go(r, AfterUndo(o))
  BY DEF UndoGrowth
<1>3. Spent(o)
  BY <1>1, <1>2, Spending
<1>4. Turn(r) /\ pc'[r] = IF o = "ok" THEN "done" ELSE "catch"
  <2>1. "catch" \in Places
    BY DEF Places, Pending
  <2>2. CASE o = "ok" /\ End(r, "error")
    BY <1>1, <2>2, Ending
  <2>3. CASE o # "ok" /\ Go(r, "catch")
    BY <1>1, <2>1, <2>3, Going
  <2> QED BY <1>2, <2>2, <2>3 DEF AfterUndo
<1>5. HandFits(r)'
  BY <1>0, <1>1, <1>4 DEF HandFits, Pending
<1>6. /\ pc[r] \notin Owners /\ pc'[r] # "restore" /\ pc'[r] \notin BeforeWriting
  BY <1>1, <1>4 DEF Owners, BeforeWriting
<1>7. Claim(r) = [count |-> 0, bytes |-> b]
  BY <1>0, <1>1, ClaimIs DEF ClaimFits
<1>8. Claim(r)' = IF o = "ok" THEN [count |-> 0, bytes |-> 0] ELSE [count |-> 0, bytes |-> b]
  BY <1>0, <1>4, ClaimIsNext DEF ClaimFits
<1>9. /\ quota' \in [count : Nat, bytes : Nat] /\ quota \in [count : Nat, bytes : Nat]
      /\ quota'.count + 0 >= quota.count /\ quota'.bytes + b >= quota.bytes
      /\ o = "ok" /\ QuotaCanGive(0, b) =>
           quota'.count = quota.count - 0 /\ quota'.bytes = quota.bytes - b
      /\ ~(o = "ok" /\ QuotaCanGive(0, b)) => quota' = quota \/ o = "unacknowledged"
      /\ ambiguous' = 0 /\ lost' = 0 => o = "ok" /\ ambiguous = 0
  <2>1. b \in Nat /\ 0 \in Nat
    BY <1>0
  <2> HIDE DEF b
  <2> QED BY <1>1, <1>2, <1>3, <2>1, Releasing DEF StoreTypes
<1>10. LedgerCovers /\ ambiguous = 0 => QuotaCanGive(0, b)
  BY <1>1, <1>7, LedgerCanGive DEF QuotaCanGive
<1> HIDE DEF p, l, b
<1>12. LedgerCovers => Moved(r)
  BY <1>0, <1>1, <1>3, <1>7, <1>8, <1>9, <1>10, SpentIs DEF Moved
<1> QED BY <1>1, <1>3, <1>4, <1>5, <1>6, <1>9, <1>12, LedgerMoves

\* A release that ends its request, whatever its outcome.
LEMMA GrowthReleased ==
    ASSUME StoreInvariant, NEW r \in Requests, CatchGrowth(r) \/ ReleaseShrinkage(r)
    PROVE  StoreInvariant'
<1> DEFINE p == local[r].target
           l == local[r]
           b == IF pc[r] = "catch" THEN Growth(r) ELSE -Growth(r)
<1>1. /\ StoreTypes /\ HandFits(r) /\ l \in Locals /\ p \in Projects /\ Known(l.seen, p)
      /\ UNCHANGED <<project, review>> /\ local' = local /\ local' = [local EXCEPT ![r] = l]
      /\ l.target = p /\ l.new \in Nat /\ l.seen.bytes \in Nat /\ pc[r] \in {"catch", "shrink"}
  BY HandIs DEF CatchGrowth, ReleaseShrinkage
<1>0. b \in Nat /\ r \in Updates /\ (pc[r] = "catch" => Growth(r) > 0)
  BY <1>1 DEF HandFits, Growth
<1>0a. b <= MaxSize
  BY <1>0, <1>1, LocalsAre, SizesAreBounded DEF Growth
<1>2. PICK o \in Outcomes : Spend(o) /\ Release(o, 0, b)
  BY DEF CatchGrowth, ReleaseShrinkage
<1>3. Spent(o)
  BY <1>1, <1>2, Spending
<1>4. Turn(r) /\ pc'[r] = "done"
  <2>1. \E t \in {"success", "error"} : End(r, t)
    BY DEF CatchGrowth, ReleaseShrinkage
  <2> QED BY <1>1, <2>1, Ending
<1>5. HandFits(r)'
  BY <1>1, <1>4 DEF HandFits, Pending
<1>6. /\ pc[r] \notin Owners /\ pc'[r] # "restore" /\ pc'[r] \notin BeforeWriting
  BY <1>1, <1>4 DEF Owners, BeforeWriting
<1>7. Claim(r) = [count |-> 0, bytes |-> b]
  BY <1>0, <1>1, ClaimIs DEF ClaimFits
<1>8. Claim(r)' = [count |-> 0, bytes |-> 0]
  BY <1>4, ClaimIsNext DEF ClaimFits
<1>9. /\ quota' \in [count : Nat, bytes : Nat] /\ quota \in [count : Nat, bytes : Nat]
      /\ o = "ok" /\ QuotaCanGive(0, b) =>
           quota'.count = quota.count - 0 /\ quota'.bytes = quota.bytes - b
      /\ quota'.count + 0 >= quota.count /\ quota'.bytes + b >= quota.bytes
      /\ ~(o = "ok" /\ QuotaCanGive(0, b)) => quota' = quota \/ o = "unacknowledged"
      /\ ambiguous' = 0 /\ lost' = 0 => o = "ok" /\ ambiguous = 0
      /\ ambiguous' = 0 => ambiguous = 0 /\ (o = "ok" \/ lost' >= 1)
  <2>1. b \in Nat /\ 0 \in Nat
    BY <1>0
  <2> HIDE DEF b
  <2> QED BY <1>1, <1>2, <1>3, <2>1, Releasing DEF StoreTypes
<1>10. LedgerCovers /\ ambiguous = 0 => QuotaCanGive(0, b)
  BY <1>1, <1>7, LedgerCanGive DEF QuotaCanGive
<1>11. lost' \in Nat
  BY <1>3 DEF Spent
<1> HIDE DEF p, l, b
<1>12. LedgerCovers => Moved(r)
  <2> SUFFICES ASSUME LedgerCovers PROVE Moved(r)
    OBVIOUS
  <2>1. /\ quota.count \in Nat /\ quota.bytes \in Nat /\ b \in Nat /\ b <= MaxSize
        /\ quota'.count \in Nat /\ quota'.bytes \in Nat
        /\ ambiguous \in Nat /\ ambiguous' \in Nat /\ ambiguous <= ambiguous'
        /\ Missing \in Nat /\ Missing' \in Nat /\ MaxSize \in Nat /\ Missing <= Missing'
        /\ o = "unacknowledged" => Missing' = Missing + MaxSize /\ ambiguous' = ambiguous + 1
    BY <1>0, <1>0a, <1>1, <1>3, <1>9, SpentIs
  <2>2. quota'.count = quota.count \/ o = "unacknowledged"
    BY <1>9, <2>1
  <2>3. quota'.bytes = quota.bytes \/ quota'.bytes = quota.bytes - b \/ o = "unacknowledged"
    BY <1>9, <2>1
  <2>4. Claim(r).count = 0 /\ Claim(r)'.count = 0 /\ Claim(r).bytes = b /\ Claim(r)'.bytes = 0
    BY <1>7, <1>8
  <2>5. quota'.count + ambiguous' >= quota.count + ambiguous
    BY <1>9, <2>1, <2>2
  <2>6. quota'.bytes + Missing' >= quota.bytes + Missing - b
    BY <1>9, <2>1, <2>3
  <2>7. lost' = 0 /\ ambiguous' = 0 => quota'.count = quota.count /\ quota'.bytes = quota.bytes - b
    BY <1>9, <1>10, <2>1
  <2> QED BY <2>1, <2>4, <2>5, <2>6, <2>7 DEF Moved
<1> QED BY <1>1, <1>3, <1>4, <1>5, <1>6, <1>9, <1>12, LedgerMoves

-----------------------------------------------------------------------------
(* The steps on a project.                                                 *)

\* The row that an update leaves.
LEMMA PutIs ==
    ASSUME StoreTypes, NEW p \in Projects, NEW o, NEW matched, NEW new \in ProjectRows,
           PutProject(p, o, matched, new)
    PROVE  /\ project' = [project EXCEPT ![p] = project'[p]] /\ project'[p] \in ProjectRows
           /\ matched /\ o # "lost" => project'[p] = new
           /\ ~(matched /\ o # "lost") => project'[p] = project[p]
<1>1. CASE matched /\ o # "lost"
  BY <1>1 DEF PutProject, StoreTypes
<1>2. CASE ~(matched /\ o # "lost")
  BY <1>2 DEF PutProject, StoreTypes
<1> QED BY <1>1, <1>2

LEMMA PutReviewIs ==
    ASSUME StoreTypes, NEW p \in Projects, NEW o, NEW matched, NEW new \in ReviewRows,
           PutReview(p, o, matched, new)
    PROVE  /\ review' = [review EXCEPT ![p] = review'[p]] /\ review'[p] \in ReviewRows
           /\ matched /\ o # "lost" => review'[p] = new
           /\ ~(matched /\ o # "lost") => review'[p] = review[p]
<1>1. CASE matched /\ o # "lost"
  BY <1>1 DEF PutReview, StoreTypes
<1>2. CASE ~(matched /\ o # "lost")
  BY <1>2 DEF PutReview, StoreTypes
<1> QED BY <1>1, <1>2

LEMMA ProjectInserted ==
    ASSUME StoreInvariant, NEW r \in Requests, InsertProject(r)
    PROVE  StoreInvariant'
<1>0. PICK p \in Projects : p = local[r].target
  BY HandIs
<1> DEFINE fresh == project[p].state = "none"
           new == [NoProject EXCEPT !.state = "active", !.bytes = local[r].new, !.version = r]
<1>1. /\ StoreTypes /\ VersionsTell /\ HandFits(r) /\ local[r] \in Locals /\ p \in Projects
      /\ Known(local[r].seen, p) /\ UNCHANGED <<review, quota>> /\ review[p] \in ReviewRows
      /\ local[r].new \in Nat /\ project[p] \in ProjectRows /\ pc[r] = "insert"
  BY <1>0, HandIs DEF InsertProject, StoreInvariant
<1>2. PICK o \in Outcomes :
        /\ Spend(o)
        /\ PutProject(p, o, fresh, new)
        /\ IF o = "ok" /\ fresh THEN End(r, "success") ELSE Go(r, "giveback")
        /\ local' = [local EXCEPT ![r].duplicate = (o = "ok" /\ ~fresh)]
  BY <1>0 DEF InsertProject, AfterInsertError
<1>3. Spent(o)
  BY <1>1, <1>2, Spending
<1>4. new \in ProjectRows /\ new.state = "active" /\ new.bytes = local[r].new /\ new.version = r
  <2> DEFINE k == NoProject
  <2>1. k \in ProjectRows /\ r \in Writers /\ local[r].new \in 0..MaxSize
    <3>1. local[r].new \in 0..MaxSize
      BY <1>1, LocalsAre, SizesAreBounded DEF StoreTypes
    <3> QED BY <1>1, <3>1, NoLocalIs DEF Writers
  <2> HIDE DEF k
  <2> DEFINE x == [k EXCEPT !.state = "active", !.bytes = local[r].new, !.version = r]
  <2>2. x \in ProjectRows /\ x.state = "active" /\ x.bytes = local[r].new /\ x.version = r
    BY <1>1, <2>1 DEF ProjectRows, RowStates
  <2> QED BY <2>2 DEF k
<1>5. /\ Turn(r)
      /\ \/ pc'[r] = "done" /\ o = "ok" /\ fresh
         \/ pc'[r] = "giveback" /\ ~(o = "ok" /\ fresh)
  <2>1. "giveback" \in Places
    BY DEF Places, Pending
  <2>2. CASE Go(r, "giveback") /\ ~(o = "ok" /\ fresh)
    BY <1>1, <2>1, <2>2, Going
  <2>3. CASE End(r, "success") /\ o = "ok" /\ fresh
    BY <1>1, <2>3, Ending
  <2> QED BY <1>2, <2>2, <2>3
<1>6. /\ project' = [project EXCEPT ![p] = project'[p]] /\ project'[p] \in ProjectRows
      /\ fresh /\ o # "lost" => project'[p] = new
      /\ ~(fresh /\ o # "lost") => project'[p] = project[p]
  <2> HIDE DEF fresh, new
  <2> QED BY <1>1, <1>2, <1>4, PutIs
<1>7. /\ local' \in [Requests -> Locals] /\ \A s \in Requests \ {r} : local'[s] = local[s]
      /\ local'[r].target = p /\ local'[r].seen = local[r].seen /\ local'[r].new = local[r].new
  BY <1>0, <1>1, <1>2 DEF StoreTypes, Locals
<1> HIDE DEF new
<1>8. StepOf(r, p)
  BY <1>1, <1>3, <1>5, <1>6, <1>7 DEF StepOf, StoreTypes, Turn, Spent
<1>9. HandFits(r)'
  BY <1>1, <1>5, <1>7 DEF HandFits, Pending
<1>10. Claim(r) = [count |-> 1, bytes |-> local[r].new]
  BY <1>1, ClaimIs DEF ClaimFits
<1>11. Claim(r)' = IF pc'[r] = "done" THEN [count |-> 0, bytes |-> 0]
                   ELSE [count |-> 1, bytes |-> local[r].new]
  BY <1>5, <1>7, ClaimIsNext DEF ClaimFits
<1>12. VersionsTell'
  <2>1. pc[r] \in BeforeWriting /\ pc'[r] \notin BeforeWriting /\ Known(local'[r].seen, p)
    BY <1>1, <1>5, <1>7 DEF BeforeWriting
  <2>2. CASE fresh /\ o # "lost"
    BY <1>1, <1>4, <1>6, <1>8, <2>1, <2>2, VersionsWritten
  <2>3. CASE ~(fresh /\ o # "lost")
    <3>1. Known(project'[p], p)
      BY <1>6, <2>3 DEF Known, Copies, Rows
    <3> QED BY <1>1, <1>8, <2>1, <3>1, VersionsKept
  <2> QED BY <2>2, <2>3
<1>13. ambiguous' = 0 => o \in {"ok", "lost"}
  BY <1>1, <1>3 DEF Spent, StoreTypes
<1>14. Balanced(r, p)
  <2>1. quota \in [count : Nat, bytes : Nat] /\ quota' = quota /\ local[r].new \in Nat
        /\ project[p].bytes \in Nat /\ local[r].new <= MaxSize
    BY <1>1, RowBytes, LocalsAre DEF StoreTypes
  <2>2. CASE o # "lost" /\ fresh
    <3>1. /\ project'[p].state = "active" /\ project'[p].bytes = local[r].new
          /\ project[p].state = "none"
          /\ IF o = "ok" THEN pc'[r] = "done" ELSE pc'[r] = "giveback" /\ o = "unacknowledged"
      BY <1>3, <1>4, <1>5, <1>6, <2>2 DEF Spent
    <3>2. Slot(p) = 0 /\ Bytes(p) = 0 /\ Slot(p)' = 1 /\ Bytes(p)' = local[r].new
      BY <3>1 DEF Slot, Bytes, Active
    <3> QED BY <1>1, <1>3, <1>10, <1>11, <2>1, <3>1, <3>2, SpentIs DEF Balanced
  <2>3. CASE ~(o # "lost" /\ fresh)
    <3>1. pc'[r] = "giveback" /\ project'[p] = project[p]
      BY <1>5, <1>6, <2>3
    <3>2. Claim(r)' = Claim(r) /\ Claim(r).count \in Nat /\ Claim(r).bytes \in Nat
      BY <1>10, <1>11, <2>1, <3>1
    <3> QED BY <1>1, <1>3, <2>1, <3>1, <3>2, BalancedQuietly DEF Active
  <2> QED BY <2>2, <2>3
<1>15. (\A s \in Requests : Rolled(s)) => \A s \in Requests : Rolled(s)'
  <2>1. pc[r] \notin Owners /\ pc'[r] # "restore"
    BY <1>1, <1>5 DEF Owners
  <2>2. /\ project'[p].state = "tombstone" => project'[p] = project[p]
        /\ review'[p] = review[p]
    BY <1>1, <1>4, <1>6
  <2> QED BY <1>1, <1>8, <2>1, <2>2, RolledQuietly
<1>16. IsDue(review'[p]) => IsDue(review[p])
  BY <1>1
<1> QED BY <1>1, <1>8, <1>9, <1>12, <1>14, <1>15, <1>16, StepFits

\* A row that is still the one that was read has the bytes that were read.
LEMMA VersionTells ==
    ASSUME StoreInvariant, NEW r \in Requests, UnchangedSince(r), local[r].seen.state = "active"
    PROVE  project[local[r].target].bytes = local[r].seen.bytes
<1> DEFINE p == local[r].target
           x == <<project[p].version, project[p].bytes>>
           y == <<local[r].seen.version, local[r].seen.bytes>>
<1>1. p \in Projects /\ VersionsTell
  BY HandIs DEF StoreInvariant
<1>2. x \in Copies(p) /\ y \in Copies(p)
  BY DEF Copies, Rows, UnchangedSince, Active
<1>3. x[1] = y[1]
  BY DEF UnchangedSince
<1>4. \A u, v \in Copies(p) : u[1] = v[1] => u[2] = v[2]
  BY <1>1 DEF VersionsTell
<1>5. x[2] = y[2]
  <2> HIDE DEF x, y
  <2> QED BY <1>2, <1>3, <1>4
<1> QED BY <1>5

LEMMA ProjectWritten ==
    ASSUME StoreInvariant, NEW r \in Requests, WriteProject(r)
    PROVE  StoreInvariant'
<1>0. PICK p \in Projects : p = local[r].target
  BY HandIs
<1> DEFINE same == UnchangedSince(r)
           new == [project[p] EXCEPT !.bytes = local[r].new, !.version = r]
           G == Growth(r)
<1>1. /\ StoreTypes /\ VersionsTell /\ HandFits(r) /\ local[r] \in Locals
      /\ Known(local[r].seen, p) /\ UNCHANGED <<review, quota, local>> /\ review[p] \in ReviewRows
      /\ local[r].new \in Nat /\ local[r].seen.bytes \in Nat /\ project[p] \in ProjectRows
      /\ pc[r] = "write"
  BY <1>0, HandIs DEF WriteProject, StoreInvariant
<1>2. PICK o \in Outcomes :
        /\ Spend(o)
        /\ PutProject(p, o, same, new)
        /\ IF o = "ok" /\ same THEN IF G < 0 THEN Go(r, "shrink") ELSE End(r, "success")
           ELSE GoIf(r, G > 0, IF o = "ok" THEN "undo" ELSE "catch")
  BY <1>0 DEF WriteProject
<1>3. Spent(o)
  BY <1>1, <1>2, Spending
<1>4. new \in ProjectRows /\ new.state = project[p].state /\ new.bytes = local[r].new /\ new.version = r
  <2>1. r \in Writers
    BY DEF Writers
  <2>2. local[r].new \in 0..MaxSize
    BY <1>1, LocalsAre, SizesAreBounded DEF StoreTypes
  <2> QED BY <1>1, <2>1, <2>2 DEF ProjectRows
<1>5. /\ r \in Updates /\ local[r].seen.state = "active"
      /\ G = local[r].new - local[r].seen.bytes /\ Growth(r)' = G
      /\ same => project[p].state = "active" /\ project[p].bytes = local[r].seen.bytes
  BY <1>0, <1>1, VersionTells DEF HandFits, Growth, UnchangedSince, Active
<1> HIDE DEF new, G, same
<1>6. /\ Turn(r)
      /\ \/ pc'[r] = "shrink" /\ o = "ok" /\ same /\ G < 0
         \/ pc'[r] = "done" /\ o = "ok" /\ same /\ ~(G < 0)
         \/ pc'[r] \in {"undo", "catch"} /\ ~(o = "ok" /\ same) /\ G > 0
         \/ pc'[r] = "done" /\ ~(o = "ok" /\ same) /\ ~(G > 0)
  <2>1. "shrink" \in Places /\ "undo" \in Places /\ "catch" \in Places
    BY DEF Places, Pending
  <2>2. CASE Go(r, "shrink") /\ o = "ok" /\ same /\ G < 0
    BY <1>1, <2>1, <2>2, Going
  <2>3. CASE End(r, "success") /\ o = "ok" /\ same /\ ~(G < 0)
    BY <1>1, <2>3, Ending
  <2>4. CASE Go(r, "undo") /\ ~(o = "ok" /\ same) /\ G > 0
    BY <1>1, <2>1, <2>4, Going
  <2>6. CASE Go(r, "catch") /\ ~(o = "ok" /\ same) /\ G > 0
    BY <1>1, <2>1, <2>6, Going
  <2>5. CASE End(r, "error") /\ ~(o = "ok" /\ same) /\ ~(G > 0)
    BY <1>1, <2>5, Ending
  <2> QED BY <1>2, <2>2, <2>3, <2>4, <2>5, <2>6 DEF GoIf
<1>7. /\ project' = [project EXCEPT ![p] = project'[p]] /\ project'[p] \in ProjectRows
      /\ same /\ o # "lost" => project'[p] = new
      /\ ~(same /\ o # "lost") => project'[p] = project[p]
  BY <1>1, <1>2, <1>4, PutIs
<1>8. StepOf(r, p)
  BY <1>0, <1>1, <1>3, <1>6, <1>7 DEF StepOf, StoreTypes, Turn, Spent
<1>9. HandFits(r)'
  BY <1>1, <1>5, <1>6 DEF HandFits, Pending
<1>10. Claim(r) = [count |-> 0, bytes |-> IF G > 0 THEN G ELSE 0]
  BY <1>1, <1>5, ClaimIs DEF ClaimFits, G
<1>11. /\ pc'[r] = "shrink" => Claim(r)' = [count |-> 0, bytes |-> -G]
       /\ pc'[r] \in {"undo", "catch"} => Claim(r)' = [count |-> 0, bytes |-> G]
       /\ pc'[r] = "done" => Claim(r)' = [count |-> 0, bytes |-> 0]
  BY <1>5, <1>6, ClaimIsNext DEF ClaimFits
<1>12. VersionsTell'
  <2>1. pc[r] \in BeforeWriting /\ pc'[r] \notin BeforeWriting /\ Known(local'[r].seen, p)
    BY <1>1, <1>6 DEF BeforeWriting
  <2>2. CASE same /\ o # "lost"
    BY <1>1, <1>4, <1>7, <1>8, <2>1, <2>2, VersionsWritten
  <2>3. CASE ~(same /\ o # "lost")
    <3>1. Known(project'[p], p)
      BY <1>7, <2>3 DEF Known, Copies, Rows
    <3> QED BY <1>1, <1>8, <2>1, <3>1, VersionsKept
  <2> QED BY <2>2, <2>3
<1>13. ambiguous' = 0 => o \in {"ok", "lost"}
  BY <1>1, <1>3 DEF Spent, StoreTypes
<1>14. Balanced(r, p)
  <2>1. quota \in [count : Nat, bytes : Nat] /\ quota' = quota /\ local[r].new \in Nat
        /\ project[p].bytes \in Nat /\ local[r].seen.bytes \in Nat /\ local[r].new <= MaxSize
    BY <1>1, RowBytes, LocalsAre DEF StoreTypes
  <2>2. CASE o # "lost" /\ same
    <3>1. /\ project[p].state = "active" /\ project[p].bytes = local[r].seen.bytes
          /\ project'[p].state = "active" /\ project'[p].bytes = local[r].new
      BY <1>4, <1>5, <1>7, <2>2
    <3>2. /\ Slot(p) = 1 /\ Bytes(p) = local[r].seen.bytes
          /\ Slot(p)' = 1 /\ Bytes(p)' = local[r].new
      BY <3>1 DEF Slot, Bytes, Active
    <3>3. Claim(r)' = IF o = "ok" THEN [count |-> 0, bytes |-> IF G < 0 THEN -G ELSE 0]
                      ELSE [count |-> 0, bytes |-> IF G > 0 THEN G ELSE 0]
      BY <1>6, <1>11, <2>2
    <3>4. o \in {"ok", "unacknowledged"}
      BY <1>3, <2>2 DEF Spent
    <3>5. /\ Claim(r).count = 0 /\ Claim(r)'.count = 0
          /\ Claim(r).bytes = IF G > 0 THEN G ELSE 0
          /\ o = "ok" => Claim(r)'.bytes = IF G < 0 THEN -G ELSE 0
          /\ o = "unacknowledged" => Claim(r)'.bytes = IF G > 0 THEN G ELSE 0
      BY <1>10, <3>3, <3>4
    <3>6. /\ ambiguous \in Nat /\ ambiguous' \in Nat /\ ambiguous <= ambiguous'
          /\ Missing \in Nat /\ Missing' \in Nat /\ MaxSize \in Nat /\ Missing <= Missing'
          /\ o = "unacknowledged" => Missing' = Missing + MaxSize /\ ambiguous' = ambiguous + 1
          /\ quota.count \in Nat /\ quota.bytes \in Nat /\ local[r].seen.bytes \in Nat
          /\ local[r].new \in Nat /\ local[r].new <= MaxSize
          /\ G = local[r].new - local[r].seen.bytes
      BY <1>1, <1>3, <1>5, <2>1, SpentIs
    <3>7. ASSUME o = "ok" PROVE Balanced(r, p)
      <4> DEFINE freed == Claim(r)'.bytes
                 claimed == Claim(r).bytes
      <4>1. freed \in Int /\ claimed \in Int
        BY <3>5, <3>6, <3>7
      <4>2. local[r].new + freed = local[r].seen.bytes + claimed
        BY <3>5, <3>6, <3>7
      <4> HIDE DEF freed, claimed
      <4>3. /\ quota.bytes - local[r].new - freed = quota.bytes - local[r].seen.bytes - claimed
            /\ quota.bytes + Missing' - local[r].new - freed
                 >= quota.bytes + Missing - local[r].seen.bytes - claimed
            /\ local[r].new + freed - Missing' <= local[r].seen.bytes + claimed - Missing
        BY <3>6, <4>1, <4>2
      <4>4. /\ quota'.count = quota.count /\ quota'.bytes = quota.bytes
            /\ Slot(p)' = Slot(p) /\ Slot(p) = 1 /\ Claim(r)'.count = Claim(r).count
            /\ Claim(r).count = 0
        BY <2>1, <3>2, <3>5
      <4>5. Bytes(p) = local[r].seen.bytes /\ Bytes(p)' = local[r].new
        BY <3>2
      <4>6. quota'.count + ambiguous' - Slot(p)' - Claim(r)'.count
              >= quota.count + ambiguous - Slot(p) - Claim(r).count
        BY <3>6, <4>4
      <4>7. Slot(p)' + Claim(r)'.count - ambiguous' <= Slot(p) + Claim(r).count - ambiguous
        <5>1. \A x, y \in Nat : x <= y => 1 + 0 - y <= 1 + 0 - x
          OBVIOUS
        <5>2. 1 + 0 - ambiguous' <= 1 + 0 - ambiguous
          BY <3>6, <5>1
        <5>3. Slot(p)' = 1 /\ Claim(r)'.count = 0
          BY <4>4
        <5> QED BY <4>4, <5>2, <5>3
      <4> QED BY <4>3, <4>4, <4>5, <4>6, <4>7 DEF Balanced, freed, claimed
    <3>8. o = "unacknowledged" => Balanced(r, p)
      BY <2>1, <3>2, <3>5, <3>6 DEF Balanced
    <3> QED BY <3>4, <3>7, <3>8
  <2>3. CASE ~(o # "lost" /\ same)
    <3>1. project'[p] = project[p]
      BY <1>7, <2>3
    <3>2. Claim(r)' = Claim(r) /\ Claim(r).count \in Nat /\ Claim(r).bytes \in Nat
      BY <1>5, <1>6, <1>10, <1>11, <2>1, <2>3
    <3> QED BY <1>1, <1>3, <2>1, <3>1, <3>2, BalancedQuietly DEF Active
  <2> QED BY <2>2, <2>3
<1>15. (\A s \in Requests : Rolled(s)) => \A s \in Requests : Rolled(s)'
  <2>1. pc[r] \notin Owners /\ pc'[r] # "restore"
    BY <1>1, <1>6 DEF Owners
  <2>2. /\ project'[p].state = "tombstone" => project'[p] = project[p]
        /\ review'[p] = review[p]
    BY <1>1, <1>4, <1>5, <1>7
  <2> QED BY <1>1, <1>8, <2>1, <2>2, RolledQuietly
<1>16. IsDue(review'[p]) => IsDue(review[p])
  BY <1>1
<1> QED BY <1>8, <1>9, <1>12, <1>14, <1>15, <1>16, StepFits

\* A request that has no tombstone makes the first one.
LEMMA ProjectScrubbed ==
    ASSUME StoreInvariant, NEW r \in Requests, ScrubProject(r)
    PROVE  StoreInvariant'
<1>0. PICK p \in Projects : p = local[r].target
  BY HandIs
<1> DEFINE same == UnchangedSince(r)
           new == [state |-> "tombstone", bytes |-> 0, version |-> r, by |-> r, deadline |-> "ahead"]
<1>1. /\ StoreTypes /\ VersionsTell /\ HandFits(r) /\ local[r] \in Locals
      /\ Known(local[r].seen, p) /\ UNCHANGED <<review, quota, local>> /\ review[p] \in ReviewRows
      /\ local[r].seen.bytes \in Nat /\ project[p] \in ProjectRows /\ pc[r] = "tombstone"
  BY <1>0, HandIs DEF ScrubProject, StoreInvariant
<1>2. PICK o \in Outcomes :
        Spend(o) /\ PutProject(p, o, same, new) /\ GoIf(r, o = "ok" /\ same, "scrub")
  BY <1>0 DEF ScrubProject
<1>3. Spent(o)
  BY <1>1, <1>2, Spending
<1>4. new \in ProjectRows /\ new.state = "tombstone" /\ new.by = r
  BY SizesFit DEF ProjectRows, RowStates, Deadlines, Writers
<1>5. /\ local[r].seen.state = "active"
      /\ same => project[p].state = "active" /\ project[p].bytes = local[r].seen.bytes
  BY <1>0, <1>1, VersionTells DEF HandFits, UnchangedSince, Active
<1> HIDE DEF new, same
<1>6. /\ Turn(r)
      /\ \/ pc'[r] = "scrub" /\ o = "ok" /\ same
         \/ pc'[r] = "done" /\ ~(o = "ok" /\ same)
  <2>1. "scrub" \in Places
    BY DEF Places, Pending
  <2>2. CASE Go(r, "scrub") /\ o = "ok" /\ same
    BY <1>1, <2>1, <2>2, Going
  <2>3. CASE End(r, "error") /\ ~(o = "ok" /\ same)
    BY <1>1, <2>3, Ending
  <2> QED BY <1>2, <2>2, <2>3 DEF GoIf
<1>7. /\ project' = [project EXCEPT ![p] = project'[p]] /\ project'[p] \in ProjectRows
      /\ same /\ o # "lost" => project'[p] = new
      /\ ~(same /\ o # "lost") => project'[p] = project[p]
  BY <1>1, <1>2, <1>4, PutIs
<1>8. StepOf(r, p)
  BY <1>0, <1>1, <1>3, <1>6, <1>7 DEF StepOf, StoreTypes, Turn, Spent
<1>9. HandFits(r)'
  BY <1>1, <1>5, <1>6 DEF HandFits, Pending
<1>10. Claim(r) = [count |-> 0, bytes |-> 0]
  BY <1>1, ClaimIs DEF ClaimFits
<1>11. /\ pc'[r] = "scrub" => Claim(r)' = [count |-> 1, bytes |-> local[r].seen.bytes]
       /\ pc'[r] = "done" => Claim(r)' = [count |-> 0, bytes |-> 0]
  BY <1>1, ClaimIsNext DEF ClaimFits
<1>12. VersionsTell'
  <2>1. pc'[r] \notin BeforeWriting /\ Known(local'[r].seen, p)
    BY <1>1, <1>6 DEF BeforeWriting
  <2>2. Known(project'[p], p)
    BY <1>4, <1>7 DEF Known, Copies, Rows
  <2> QED BY <1>1, <1>8, <2>1, <2>2, VersionsKept
<1>13. ambiguous' = 0 => o \in {"ok", "lost"}
  BY <1>1, <1>3 DEF Spent, StoreTypes
<1>14. Balanced(r, p)
  <2>1. quota \in [count : Nat, bytes : Nat] /\ quota' = quota
        /\ project[p].bytes \in Nat /\ local[r].seen.bytes \in Nat
    BY <1>1, RowBytes DEF StoreTypes
  <2>2. CASE o # "lost" /\ same
    <3>1. /\ project[p].state = "active" /\ project[p].bytes = local[r].seen.bytes
          /\ project'[p].state = "tombstone"
      BY <1>4, <1>5, <1>7, <2>2
    <3>2. /\ Slot(p) = 1 /\ Bytes(p) = local[r].seen.bytes /\ Slot(p)' = 0 /\ Bytes(p)' = 0
      BY <3>1 DEF Slot, Bytes, Active
    <3>3. Claim(r)' = IF o = "ok" THEN [count |-> 1, bytes |-> local[r].seen.bytes]
                      ELSE [count |-> 0, bytes |-> 0]
      BY <1>6, <1>11, <2>2
    <3>4. o \in {"ok", "unacknowledged"}
      BY <1>3, <2>2 DEF Spent
    <3> QED BY <1>1, <1>3, <1>10, <2>1, <3>2, <3>3, <3>4, SpentIs DEF Balanced
  <2>3. CASE ~(o # "lost" /\ same)
    <3>1. project'[p] = project[p] /\ Claim(r)' = Claim(r)
      BY <1>6, <1>7, <1>10, <1>11, <2>3
    <3>2. Claim(r).count \in Nat /\ Claim(r).bytes \in Nat
      BY <1>10
    <3> QED BY <1>1, <1>3, <2>1, <3>1, <3>2, BalancedQuietly DEF Active
  <2> QED BY <2>2, <2>3
<1>15. ASSUME ambiguous' = 0, \A s \in Requests : Rolled(s)
       PROVE  \A s \in Requests : Rolled(s)'
  <2>1. pc[r] \notin Owners /\ pc'[r] # "restore" /\ review'[p] = review[p]
    BY <1>1, <1>6 DEF Owners
  <2>2. CASE o = "ok" /\ same
    <3>1. OthersTombstones(r, p)
      BY <1>4, <1>7, <2>1, <2>2 DEF OthersTombstones
    <3>2. \A q \in Projects : ~HasProject(r, q) /\ ~HasReview(r, q)
      BY <1>15, <2>1 DEF Rolled, Owners
    <3>3. pc'[r] = "scrub" /\ p = local'[r].target
      BY <1>0, <1>1, <1>6, <2>2
    <3>4. \A q \in Projects : ~HasReview(r, q)' /\ (HasProject(r, q)' => q = p)
      BY <2>1, <1>8, <3>2 DEF HasReview, HasProject, StepOf
    <3>5. Rolled(r)'
      BY <3>3, <3>4 DEF Rolled
    <3> QED BY <1>1, <1>8, <1>15, <3>1, <3>5, RolledStep
  <2>3. CASE ~(o = "ok" /\ same)
    <3>1. project'[p] = project[p]
      BY <1>7, <1>13, <1>15, <2>3
    <3> QED BY <1>1, <1>8, <1>15, <2>1, <3>1, RolledQuietly
  <2> QED BY <2>2, <2>3
<1>16. IsDue(review'[p]) => IsDue(review[p])
  BY <1>1
<1> QED BY <1>8, <1>9, <1>12, <1>14, <1>15, <1>16, StepFits

-----------------------------------------------------------------------------
(* The steps of a deletion on its review, its reservation and its rollback. *)

LEMMA ReviewScrubbed ==
    ASSUME StoreInvariant, NEW r \in Requests, ScrubReview(r)
    PROVE  StoreInvariant'
<1>0. PICK p \in Projects : p = local[r].target
  BY HandIs
<1> DEFINE matched == review[p].state = "active"
           new == [review[p] EXCEPT !.state = "tombstone", !.text = "none", !.by = r,
                                    !.deadline = "ahead"]
<1>1. /\ StoreTypes /\ VersionsTell /\ HandFits(r) /\ local[r] \in Locals
      /\ Known(local[r].seen, p) /\ UNCHANGED <<project, quota>> /\ review[p] \in ReviewRows
      /\ local[r].seen.bytes \in Nat /\ project[p] \in ProjectRows /\ pc[r] = "scrub"
  BY <1>0, HandIs DEF ScrubReview, StoreInvariant
<1>2. PICK o \in Outcomes :
        /\ Spend(o)
        /\ PutReview(p, o, matched, new)
        /\ Go(r, IF o = "ok" THEN "release" ELSE "restore")
        /\ local' = [local EXCEPT
             ![r].review = IF o = "ok" /\ matched THEN review[p] ELSE NoReview,
             ![r].todo = IF o = "ok" THEN {} ELSE {"project"}]
  BY <1>0 DEF ScrubReview
<1>3. Spent(o)
  BY <1>1, <1>2, Spending
<1>4. new \in ReviewRows /\ new.state = "tombstone" /\ new.by = r /\ new.deadline = "ahead"
  <2>1. r \in Writers
    BY DEF Writers
  <2> QED BY <1>1, <2>1 DEF ReviewRows, RowStates, Texts, Deadlines
<1> HIDE DEF new
<1>5. Turn(r) /\ pc'[r] = IF o = "ok" THEN "release" ELSE "restore"
  <2>1. "release" \in Places /\ "restore" \in Places
    BY DEF Places, Pending
  <2> QED BY <1>1, <1>2, <2>1, Going
<1>6. /\ review' = [review EXCEPT ![p] = review'[p]] /\ review'[p] \in ReviewRows
      /\ matched /\ o # "lost" => review'[p] = new
      /\ ~(matched /\ o # "lost") => review'[p] = review[p]
  <2> HIDE DEF matched
  <2> QED BY <1>1, <1>2, <1>4, PutReviewIs
<1>7. /\ local' \in [Requests -> Locals] /\ \A s \in Requests \ {r} : local'[s] = local[s]
      /\ local'[r].target = p /\ local'[r].seen = local[r].seen
      /\ local'[r].review = IF o = "ok" /\ matched THEN review[p] ELSE NoReview
      /\ local'[r].todo = IF o = "ok" THEN {} ELSE {"project"}
  <2>1. NoReview \in ReviewRows
    BY NoLocalIs
  <2> QED BY <1>0, <1>1, <1>2, <2>1 DEF StoreTypes, Locals
<1>8. StepOf(r, p)
  BY <1>1, <1>3, <1>5, <1>6, <1>7 DEF StepOf, StoreTypes, Turn, Spent
<1>9. HandFits(r)'
  <2>1. local'[r].review.state # "tombstone"
    BY <1>0, <1>7, NoLocalIs
  <2> QED BY <1>1, <1>5, <1>7, <2>1 DEF HandFits, Pending
<1>10. Claim(r) = [count |-> 1, bytes |-> local[r].seen.bytes]
  BY <1>1, ClaimIs DEF ClaimFits
<1>11. Claim(r)' = [count |-> 1, bytes |-> local[r].seen.bytes]
  BY <1>5, <1>7, ClaimIsNext DEF ClaimFits
<1>12. VersionsTell'
  <2>1. pc'[r] \notin BeforeWriting /\ Known(local'[r].seen, p)
    BY <1>1, <1>5, <1>7 DEF BeforeWriting
  <2>2. Known(project'[p], p)
    BY <1>1 DEF Known, Copies, Rows
  <2> QED BY <1>1, <1>8, <2>1, <2>2, VersionsKept
<1>14. Balanced(r, p)
  <2>1. Claim(r)' = Claim(r) /\ Claim(r).count \in Nat /\ Claim(r).bytes \in Nat
    BY <1>1, <1>10, <1>11
  <2>2. project' = project /\ quota' = quota
    BY <1>1
  <2> QED BY <1>1, <1>3, <2>1, <2>2, BalancedQuietly DEF Active
<1>15. ASSUME ambiguous' = 0, \A s \in Requests : Rolled(s)
       PROVE  \A s \in Requests : Rolled(s)'
  <2>1. OthersTombstones(r, p)
    BY <1>1, <1>4, <1>6 DEF OthersTombstones
  <2>2. /\ \A q \in Projects : HasProject(r, q) => q = p
        /\ \A q \in Projects : ~HasReview(r, q)
    BY <1>0, <1>1, <1>15 DEF Rolled
  <2>3. \A q \in Projects : HasProject(r, q)' => q = p
    BY <1>1, <2>2 DEF HasProject
  <2>4. CASE o = "ok"
    <3>1. \A q \in Projects : HasReview(r, q)' => q = p /\ matched
      BY <1>6, <1>8, <2>2 DEF HasReview, StepOf
    <3>2. Rolled(r)'
      BY <1>5, <1>7, <2>3, <2>4, <3>1 DEF Rolled
    <3> QED BY <1>1, <1>8, <1>15, <2>1, <3>2, RolledStep
  <2>5. CASE o # "ok"
    <3>1. o = "lost" /\ lost' >= 1
      BY <1>1, <1>3, <1>15, <2>5 DEF Spent, StoreTypes
    <3>2. \A q \in Projects : ~HasReview(r, q)'
      BY <1>6, <1>8, <2>2, <3>1 DEF HasReview, StepOf
    <3>3. Rolled(r)'
      BY <1>5, <1>7, <2>3, <2>5, <3>1, <3>2 DEF Rolled
    <3> QED BY <1>1, <1>8, <1>15, <2>1, <3>3, RolledStep
  <2> QED BY <2>4, <2>5
<1>16. IsDue(review'[p]) => IsDue(review[p])
  BY <1>4, <1>6 DEF IsDue
<1> QED BY <1>8, <1>9, <1>12, <1>14, <1>15, <1>16, StepFits

\* The reservation of the deleted project is released, or everything is rolled back.
LEMMA DeletedReleased ==
    ASSUME StoreInvariant, NEW r \in Requests, ReleaseDeleted(r)
    PROVE  StoreInvariant'
<1>0. PICK p \in Projects : p = local[r].target
  BY HandIs
<1> DEFINE b == local[r].seen.bytes
<1>1. /\ StoreTypes /\ HandFits(r) /\ local[r] \in Locals /\ Known(local[r].seen, p)
      /\ UNCHANGED <<project, review>> /\ b \in Nat /\ pc[r] = "release"
  BY <1>0, HandIs DEF ReleaseDeleted
<1>2. PICK o \in Outcomes :
        /\ Spend(o) /\ Release(o, 1, b)
        /\ Go(r, IF o = "ok" /\ QuotaCanGive(1, b) THEN "remove" ELSE "restore")
        /\ local' = [local EXCEPT ![r].todo = IF o = "ok" /\ QuotaCanGive(1, b)
                                              THEN {"project", "review"} ELSE RollBack(r)]
  BY DEF ReleaseDeleted
<1> DEFINE l == [local[r] EXCEPT !.todo = IF o = "ok" /\ QuotaCanGive(1, b)
                                          THEN {"project", "review"} ELSE RollBack(r)]
<1>3. Spent(o)
  BY <1>1, <1>2, Spending
<1>4. /\ Turn(r)
      /\ \/ pc'[r] = "remove" /\ o = "ok" /\ QuotaCanGive(1, b)
         \/ pc'[r] = "restore" /\ ~(o = "ok" /\ QuotaCanGive(1, b))
  <2>1. "remove" \in Places /\ "restore" \in Places
    BY DEF Places, Pending
  <2>2. CASE Go(r, "remove") /\ o = "ok" /\ QuotaCanGive(1, b)
    BY <1>1, <2>1, <2>2, Going
  <2>3. CASE Go(r, "restore") /\ ~(o = "ok" /\ QuotaCanGive(1, b))
    BY <1>1, <2>1, <2>3, Going
  <2> QED BY <1>2, <2>2, <2>3
<1>0a. b <= MaxSize
  BY <1>1, LocalsAre
<1>5. /\ l \in Locals /\ l.target = p /\ l.seen = local[r].seen /\ l.review = local[r].review
      /\ l.todo = IF o = "ok" /\ QuotaCanGive(1, b) THEN {"project", "review"} ELSE RollBack(r)
  BY <1>0, <1>1 DEF Locals, RollBack
<1>6. local' = [local EXCEPT ![r] = l] /\ local'[r] = l
  BY <1>1, <1>2 DEF StoreTypes
<1> HIDE DEF l
<1>7. HandFits(r)'
  BY <1>1, <1>4, <1>5, <1>6 DEF HandFits, Pending
<1>8. Claim(r) = [count |-> 1, bytes |-> b]
  BY <1>1, ClaimIs DEF ClaimFits
<1>9. Claim(r)' = IF pc'[r] = "remove" THEN [count |-> 0, bytes |-> 0] ELSE [count |-> 1, bytes |-> b]
  <2>1. CASE pc'[r] = "remove"
    BY <2>1, ClaimIsNext DEF ClaimFits
  <2>2. CASE pc'[r] = "restore"
    <3>1. "project" \in local'[r].todo /\ local'[r].seen.bytes = b
      BY <1>4, <1>5, <1>6, <2>2 DEF RollBack
    <3> QED BY <2>2, <3>1, ClaimIsNext DEF ClaimFits
  <2> QED BY <1>4, <2>1, <2>2
<1>10. /\ quota' \in [count : Nat, bytes : Nat] /\ quota \in [count : Nat, bytes : Nat]
       /\ o = "ok" /\ QuotaCanGive(1, b) =>
            quota'.count = quota.count - 1 /\ quota'.bytes = quota.bytes - b
       /\ quota'.count + 1 >= quota.count /\ quota'.bytes + b >= quota.bytes
       /\ ~(o = "ok" /\ QuotaCanGive(1, b)) => quota' = quota \/ o = "unacknowledged"
       /\ ambiguous' = 0 /\ lost' = 0 => o = "ok" /\ ambiguous = 0
       /\ ambiguous' = 0 => ambiguous = 0 /\ (o = "ok" \/ lost' >= 1)
  <2>1. b \in Nat /\ 1 \in Nat
    BY <1>1
  <2> HIDE DEF b
  <2> QED BY <1>1, <1>2, <1>3, <2>1, Releasing DEF StoreTypes
<1>11. LedgerCovers /\ ambiguous = 0 => QuotaCanGive(1, b)
  BY <1>1, <1>8, LedgerCanGive DEF QuotaCanGive
<1>12. lost' \in Nat /\ pc'[r] \notin BeforeWriting
  BY <1>3, <1>4 DEF Spent, BeforeWriting
<1>13. ambiguous' = 0 /\ LedgerCovers /\ (\A s \in Requests : Rolled(s)) => Rolled(r)'
  <2> SUFFICES ASSUME ambiguous' = 0, LedgerCovers, Rolled(r) PROVE Rolled(r)'
    OBVIOUS
  <2>1. /\ \A q \in Projects : HasProject(r, q)' => q = p
        /\ \A q \in Projects : HasReview(r, q)' => q = p
        /\ HasReview(r, p)' => local[r].review.state # "none"
    BY <1>0, <1>1 DEF Rolled, HasProject, HasReview
  <2>2. CASE pc'[r] = "remove"
    BY <1>5, <1>6, <2>1, <2>2 DEF Rolled
  <2>3. CASE pc'[r] = "restore"
    <3>1. lost' >= 1
      BY <1>4, <1>10, <1>11, <2>3
    <3>2. local'[r].target = p /\ local'[r].todo = RollBack(r)
      BY <1>4, <1>5, <1>6, <2>3
    <3>3. "project" \in RollBack(r) /\ (local[r].review.state # "none" => "review" \in RollBack(r))
      BY DEF RollBack
    <3> QED BY <2>1, <2>3, <3>1, <3>2, <3>3 DEF Rolled
  <2> QED BY <1>4, <2>2, <2>3
<1> HIDE DEF b
<1>14. LedgerCovers => Moved(r)
  <2> SUFFICES ASSUME LedgerCovers PROVE Moved(r)
    OBVIOUS
  <2>1. /\ quota.count \in Nat /\ quota.bytes \in Nat /\ b \in Nat /\ b <= MaxSize
        /\ quota'.count \in Nat /\ quota'.bytes \in Nat
        /\ ambiguous \in Nat /\ ambiguous' \in Nat /\ ambiguous <= ambiguous'
        /\ Missing \in Nat /\ Missing' \in Nat /\ MaxSize \in Nat /\ Missing <= Missing'
        /\ o = "unacknowledged" => Missing' = Missing + MaxSize /\ ambiguous' = ambiguous + 1
    BY <1>0a, <1>1, <1>3, <1>10, SpentIs
  <2>2. Claim(r).count = 1 /\ Claim(r).bytes = b
    BY <1>8
  <2>3. CASE o = "ok" /\ QuotaCanGive(1, b)
    <3>1. Claim(r)'.count = 0 /\ Claim(r)'.bytes = 0
      BY <1>4, <1>9, <2>3
    <3> QED BY <1>10, <2>1, <2>2, <2>3, <3>1 DEF Moved
  <2>4. CASE ~(o = "ok" /\ QuotaCanGive(1, b))
    <3>1. Claim(r)'.count = 1 /\ Claim(r)'.bytes = b
      BY <1>4, <1>9, <2>4
    <3>2. ~(lost' = 0 /\ ambiguous' = 0)
      BY <1>10, <1>11, <2>4
    <3> QED BY <1>10, <2>1, <2>2, <2>4, <3>1, <3>2 DEF Moved
  <2> QED BY <2>3, <2>4
<1>15. Known(l.seen, p)
  BY <1>1, <1>5
<1> QED BY <1>1, <1>3, <1>4, <1>5, <1>6, <1>7, <1>10, <1>12, <1>13, <1>14, <1>15, LedgerMoves

LEMMA TombstoneRestored ==
    ASSUME StoreInvariant, NEW r \in Requests, NEW row \in {"project", "review"}, Restore(r, row)
    PROVE  StoreInvariant'
<1>0. PICK p \in Projects : p = local[r].target
  BY HandIs
<1> DEFINE onProject == row = "project" /\ OwnsProject(r)
           onReview == row = "review" /\ OwnsReview(r)
           old == local[r].seen
           copy == [local[r].review EXCEPT !.saved = review[p].saved]
           left == local[r].todo \ {row}
<1>1. /\ StoreTypes /\ VersionsTell /\ HandFits(r) /\ local[r] \in Locals /\ Known(old, p)
      /\ UNCHANGED quota /\ review[p] \in ReviewRows /\ project[p] \in ProjectRows
      /\ old \in ProjectRows /\ old.bytes \in Nat /\ local[r].review \in ReviewRows
      /\ pc[r] = "restore" /\ row \in local[r].todo
  BY <1>0, HandIs DEF Restore, StoreInvariant
<1>2. PICK o \in Outcomes :
        /\ Spend(o) /\ PutProject(p, o, onProject, old) /\ PutReview(p, o, onReview, copy)
  BY <1>0 DEF Restore
<1>3. Spent(o)
  BY <1>1, <1>2, Spending
<1>4. /\ old.state = "active" /\ copy \in ReviewRows /\ copy.state # "tombstone"
      /\ onProject <=> row = "project" /\ HasProject(r, p)
      /\ onReview <=> row = "review" /\ HasReview(r, p)
  <2>1. old.state = "active" /\ local[r].review.state # "tombstone"
    BY <1>1 DEF HandFits
  <2>2. copy \in ReviewRows /\ copy.state # "tombstone"
    BY <1>1, <2>1 DEF ReviewRows
  <2>3. /\ onProject <=> row = "project" /\ HasProject(r, p)
        /\ onReview <=> row = "review" /\ HasReview(r, p)
    BY <1>0 DEF OwnsProject, OwnsReview, HasProject, HasReview
  <2> QED BY <2>1, <2>2, <2>3
<1> HIDE DEF onProject, onReview, old, copy
<1>5. /\ Turn(r)
      /\ \/ pc'[r] = "done" /\ left = {} /\ answer'[r] = "error"
         \/ pc'[r] = "restore" /\ left # {}
  <2>1. "restore" \in Places
    BY DEF Places, Pending
  <2>2. CASE End(r, "error") /\ left = {}
    BY <1>1, <2>2, Ending
  <2>3. CASE Go(r, "restore") /\ left # {}
    BY <1>1, <2>1, <2>3, Going
  <2> QED BY <1>1, <2>2, <2>3 DEF Restore
<1>6. /\ project' = [project EXCEPT ![p] = project'[p]] /\ project'[p] \in ProjectRows
      /\ onProject /\ o # "lost" => project'[p] = old
      /\ ~(onProject /\ o # "lost") => project'[p] = project[p]
  BY <1>1, <1>2, PutIs DEF old
<1>7. /\ review' = [review EXCEPT ![p] = review'[p]] /\ review'[p] \in ReviewRows
      /\ onReview /\ o # "lost" => review'[p] = copy
      /\ ~(onReview /\ o # "lost") => review'[p] = review[p]
  BY <1>1, <1>2, <1>4, PutReviewIs
<1>8. /\ local' \in [Requests -> Locals] /\ \A s \in Requests \ {r} : local'[s] = local[s]
      /\ local'[r].target = p /\ local'[r].seen = old /\ local'[r].review = local[r].review
      /\ local'[r].todo = left
  <2>1. local' = [local EXCEPT ![r].todo = @ \ {row}]
    BY DEF Restore
  <2> QED BY <1>0, <1>1, <2>1 DEF StoreTypes, Locals, old
<1>9. StepOf(r, p)
  BY <1>1, <1>3, <1>5, <1>6, <1>7, <1>8 DEF StepOf, StoreTypes, Turn, Spent
<1>10. HandFits(r)'
  BY <1>1, <1>5, <1>8 DEF HandFits, Pending, old
<1>11. /\ Claim(r) = IF "project" \in local[r].todo THEN [count |-> 1, bytes |-> old.bytes]
                     ELSE [count |-> 0, bytes |-> 0]
       /\ Claim(r)' = IF "project" \in left THEN [count |-> 1, bytes |-> old.bytes]
                      ELSE [count |-> 0, bytes |-> 0]
  <2>1. Claim(r) = IF "project" \in local[r].todo THEN [count |-> 1, bytes |-> old.bytes]
                   ELSE [count |-> 0, bytes |-> 0]
    BY <1>1, ClaimIs DEF ClaimFits, old
  <2>2. CASE pc'[r] = "done" /\ left = {}
    BY <2>1, <2>2, ClaimIsNext DEF ClaimFits
  <2>3. CASE pc'[r] = "restore"
    BY <1>8, <2>1, <2>3, ClaimIsNext DEF ClaimFits
  <2> QED BY <1>5, <2>2, <2>3
<1>12. VersionsTell'
  <2>1. pc'[r] \notin BeforeWriting /\ Known(local'[r].seen, p)
    BY <1>1, <1>5, <1>8 DEF BeforeWriting
  <2>2. Known(project'[p], p)
    <3>1. Known(project[p], p)
      BY DEF Known, Copies, Rows
    <3> QED BY <1>1, <1>6, <3>1
  <2> QED BY <1>1, <1>9, <2>1, <2>2, VersionsKept
<1>13. ambiguous' = 0 => o \in {"ok", "lost"}
  BY <1>1, <1>3 DEF Spent, StoreTypes
<1>14. Balanced(r, p)
  <2>1. quota \in [count : Nat, bytes : Nat] /\ quota' = quota /\ project[p].bytes \in Nat
    BY <1>1, RowBytes DEF StoreTypes
  <2>2. ambiguous' = 0 => lost' # 0
    <3>1. ambiguous = 0 => lost >= 1
      BY <1>1 DEF StoreInvariant, Rolled
    <3> QED BY <1>1, <1>3, <3>1 DEF Spent, StoreTypes
  <2>3. CASE row = "project"
    <3>1. /\ Claim(r) = [count |-> 1, bytes |-> old.bytes]
          /\ Claim(r)' = [count |-> 0, bytes |-> 0]
      BY <1>1, <1>11, <2>3
    <3>2. CASE onProject /\ o # "lost"
      <4>1. project'[p].state = "active" /\ project'[p].bytes = old.bytes
            /\ project[p].state = "tombstone"
        BY <1>4, <1>6, <3>2 DEF HasProject
      <4>2. Slot(p) = 0 /\ Bytes(p) = 0 /\ Slot(p)' = 1 /\ Bytes(p)' = old.bytes
        BY <4>1 DEF Slot, Bytes, Active
      <4> QED BY <1>1, <1>3, <2>1, <3>1, <4>2, SpentIs DEF Balanced
    <3>3. CASE ~(onProject /\ o # "lost")
      <4>1. Slot(p)' = Slot(p) /\ Bytes(p)' = Bytes(p) /\ Slot(p) \in Nat /\ Bytes(p) \in Nat
        BY <1>6, <2>1, <3>3 DEF Slot, Bytes, Active
      <4> QED BY <1>1, <1>3, <2>1, <2>2, <3>1, <4>1, SpentIs DEF Balanced
    <3> QED BY <3>2, <3>3
  <2>4. CASE row = "review"
    <3>1. Claim(r)' = Claim(r) /\ project'[p] = project[p]
      BY <1>4, <1>6, <1>11, <2>4
    <3>2. Claim(r).count \in Nat /\ Claim(r).bytes \in Nat
      BY <1>1, <1>11
    <3> QED BY <1>1, <1>3, <2>1, <3>1, <3>2, BalancedQuietly DEF Active
  <2> QED BY <2>3, <2>4
<1>15. ASSUME ambiguous' = 0, \A s \in Requests : Rolled(s)
       PROVE  \A s \in Requests : Rolled(s)'
  <2>1. OthersTombstones(r, p)
    BY <1>4, <1>6, <1>7 DEF OthersTombstones
  <2>2. /\ \A q \in Projects : HasProject(r, q) => q = p
        /\ \A q \in Projects : HasReview(r, q) => q = p
        /\ lost >= 1
        /\ lost <= 1 /\ HasProject(r, p) => "project" \in local[r].todo
        /\ lost <= 1 /\ HasReview(r, p) => "review" \in local[r].todo
    BY <1>0, <1>1, <1>15 DEF Rolled
  <2>3. /\ \A q \in Projects : HasProject(r, q)' => HasProject(r, q) /\ q = p
        /\ \A q \in Projects : HasReview(r, q)' => HasReview(r, q) /\ q = p
    <3>1. \A q \in Projects : HasProject(r, q)' => HasProject(r, q)
      BY <1>4, <1>6, <1>9 DEF HasProject, StepOf
    <3>2. \A q \in Projects : HasReview(r, q)' => HasReview(r, q)
      BY <1>4, <1>7, <1>9 DEF HasReview, StepOf
    <3> QED BY <2>2, <3>1, <3>2
  <2>4. lost' >= 1 /\ (lost' <= 1 => lost <= 1 /\ o = "ok")
    BY <1>1, <1>3, <1>13, <1>15, <2>2 DEF Spent, StoreTypes
  <2>5. lost' <= 1 => /\ HasProject(r, p)' => "project" \in left
                      /\ HasReview(r, p)' => "review" \in left
    <3> SUFFICES ASSUME lost' <= 1
                 PROVE  /\ HasProject(r, p)' => "project" \in left
                        /\ HasReview(r, p)' => "review" \in left
      OBVIOUS
    <3>1. ASSUME HasProject(r, p)' PROVE "project" \in left
      <4>1. "project" \in local[r].todo /\ HasProject(r, p)
        BY <2>2, <2>3, <2>4, <3>1
      <4>2. row # "project"
        BY <1>4, <1>6, <2>4, <3>1, <4>1 DEF HasProject
      <4> QED BY <4>1, <4>2
    <3>2. ASSUME HasReview(r, p)' PROVE "review" \in left
      <4>1. "review" \in local[r].todo /\ HasReview(r, p)
        BY <2>2, <2>3, <2>4, <3>2
      <4>2. row # "review"
        BY <1>4, <1>7, <2>4, <3>2, <4>1 DEF HasReview
      <4> QED BY <4>1, <4>2
    <3> QED BY <3>1, <3>2
  <2>6. Rolled(r)'
    <3> HIDE DEF left
    <3>1. CASE pc'[r] = "restore"
      BY <1>8, <2>3, <2>4, <2>5, <3>1 DEF Rolled
    <3>2. CASE pc'[r] = "done" /\ left = {}
      BY <1>8, <2>3, <2>5, <3>2 DEF Rolled
    <3> QED BY <1>5, <3>1, <3>2
  <2> QED BY <1>1, <1>9, <1>15, <2>1, <2>6, RolledStep
<1>16. IsDue(review'[p]) => IsDue(review[p])
  BY <1>4, <1>7 DEF IsDue
<1> QED BY <1>9, <1>10, <1>12, <1>14, <1>15, <1>16, StepFits

LEMMA TombstoneRemoved ==
    ASSUME StoreInvariant, NEW r \in Requests, NEW row \in {"project", "review"}, Remove(r, row)
    PROVE  StoreInvariant'
<1>0. PICK p \in Projects : p = local[r].target
  BY HandIs
<1> DEFINE onProject == row = "project" /\ OwnsProject(r)
           onReview == row = "review" /\ OwnsReview(r)
<1>1. /\ StoreTypes /\ VersionsTell /\ HandFits(r) /\ local[r] \in Locals /\ Known(local[r].seen, p)
      /\ UNCHANGED quota /\ review[p] \in ReviewRows /\ project[p] \in ProjectRows
      /\ pc[r] = "remove"
  BY <1>0, HandIs DEF Remove, StoreInvariant
<1>2. PICK o \in Outcomes :
        /\ Spend(o) /\ PutProject(p, o, onProject, NoProject) /\ PutReview(p, o, onReview, NoReview)
  BY <1>0 DEF Remove
<1>3. Spent(o)
  BY <1>1, <1>2, Spending
<1>4. /\ NoProject \in ProjectRows /\ NoReview \in ReviewRows
      /\ NoReview.state = "none" /\ NoProject.state = "none"
      /\ onProject => project[p].state = "tombstone"
  BY <1>0, NoLocalIs DEF OwnsProject
<1> HIDE DEF onProject, onReview
<1>5. /\ Turn(r) /\ (pc'[r] = "remove" \/ (pc'[r] = "done" /\ answer'[r] = "success"))
  <2>1. "remove" \in Places
    BY DEF Places, Pending
  <2>2. CASE End(r, "success")
    BY <1>1, <2>2, Ending
  <2>3. CASE Go(r, "remove")
    BY <1>1, <2>1, <2>3, Going
  <2> QED BY <2>2, <2>3 DEF Remove
<1>6. /\ project' = [project EXCEPT ![p] = project'[p]] /\ project'[p] \in ProjectRows
      /\ onProject /\ o # "lost" => project'[p] = NoProject
      /\ ~(onProject /\ o # "lost") => project'[p] = project[p]
  BY <1>1, <1>2, <1>4, PutIs
<1>7. /\ review' = [review EXCEPT ![p] = review'[p]] /\ review'[p] \in ReviewRows
      /\ onReview /\ o # "lost" => review'[p] = NoReview
      /\ ~(onReview /\ o # "lost") => review'[p] = review[p]
  BY <1>1, <1>2, <1>4, PutReviewIs
<1>8. /\ local' \in [Requests -> Locals] /\ \A s \in Requests \ {r} : local'[s] = local[s]
      /\ local'[r].target = p /\ local'[r].seen = local[r].seen
  <2>1. local' = [local EXCEPT ![r].todo = @ \ {row}]
    BY DEF Remove
  <2> QED BY <1>0, <1>1, <2>1 DEF StoreTypes, Locals
<1>9. StepOf(r, p)
  BY <1>1, <1>3, <1>5, <1>6, <1>7, <1>8 DEF StepOf, StoreTypes, Turn, Spent
<1>10. HandFits(r)'
  BY <1>1, <1>5, <1>8 DEF HandFits, Pending
<1>11. Claim(r) = [count |-> 0, bytes |-> 0] /\ Claim(r)' = [count |-> 0, bytes |-> 0]
  <2>1. Claim(r) = [count |-> 0, bytes |-> 0]
    BY <1>1, ClaimIs DEF ClaimFits
  <2>2. Claim(r)' = [count |-> 0, bytes |-> 0]
    BY <1>5, ClaimIsNext DEF ClaimFits
  <2> QED BY <2>1, <2>2
<1>12. VersionsTell'
  <2>1. pc'[r] \notin BeforeWriting /\ Known(local'[r].seen, p)
    BY <1>1, <1>5, <1>8 DEF BeforeWriting
  <2>2. Known(project'[p], p)
    BY <1>4, <1>6 DEF Known, Copies, Rows
  <2> QED BY <1>1, <1>9, <2>1, <2>2, VersionsKept
<1>14. Balanced(r, p)
  <2>1. Active(p)' <=> Active(p)
    BY <1>4, <1>6 DEF Active
  <2>2. Active(p) => project'[p].bytes = project[p].bytes
    BY <1>4, <1>6 DEF Active
  <2>3. Claim(r)' = Claim(r) /\ Claim(r).count \in Nat /\ Claim(r).bytes \in Nat
    BY <1>11
  <2> QED BY <1>1, <1>3, <2>1, <2>2, <2>3, BalancedQuietly
<1>15. ASSUME ambiguous' = 0, \A s \in Requests : Rolled(s)
       PROVE  \A s \in Requests : Rolled(s)'
  <2>1. OthersTombstones(r, p)
    BY <1>4, <1>6, <1>7 DEF OthersTombstones
  <2>2. /\ \A q \in Projects : HasProject(r, q) => q = p
        /\ \A q \in Projects : HasReview(r, q) => q = p
    BY <1>0, <1>15 DEF Rolled
  <2>3. \A q \in Projects : HasProject(r, q)' => q = p
    BY <1>9, <2>2 DEF HasProject, StepOf
  <2>4. \A q \in Projects : HasReview(r, q)' => q = p
    BY <1>9, <2>2 DEF HasReview, StepOf
  <2>5. Rolled(r)'
    BY <1>5, <1>8, <2>3, <2>4 DEF Rolled
  <2> QED BY <1>1, <1>9, <1>15, <2>1, <2>5, RolledStep
<1>16. IsDue(review'[p]) => IsDue(review[p])
  BY <1>4, <1>7 DEF IsDue
<1> QED BY <1>9, <1>10, <1>12, <1>14, <1>15, <1>16, StepFits

-----------------------------------------------------------------------------
(* The steps of the teacher on a review.                                   *)

LEMMA ReviewWritten ==
    ASSUME StoreInvariant, NEW r \in Requests, UNCHANGED <<project, quota, local>>,
           pc[r] \in {"review-insert", "review-save"}, Turn(r), pc'[r] = "done", NEW o, Spent(o),
           NEW p \in Projects, p = local[r].target, review' = [review EXCEPT ![p] = review'[p]],
           review'[p] \in ReviewRows,
           review'[p].state = "tombstone" =>
              /\ review[p].state = "tombstone" /\ review[p].by = review'[p].by
              /\ review[p].deadline = review'[p].deadline
    PROVE  StoreInvariant'
<1>1. /\ StoreTypes /\ VersionsTell /\ HandFits(r) /\ local[r] \in Locals
      /\ Known(local[r].seen, p) /\ project[p] \in ProjectRows
  BY HandIs DEF StoreInvariant
<1>2. StepOf(r, p)
  BY <1>1 DEF StepOf, StoreTypes, Turn, Spent
<1>3. HandFits(r)'
  BY <1>1 DEF HandFits, Pending
<1>4. Claim(r) = [count |-> 0, bytes |-> 0] /\ Claim(r)' = [count |-> 0, bytes |-> 0]
  BY ClaimIs, ClaimIsNext DEF ClaimFits
<1>5. VersionsTell'
  <2>1. pc'[r] \notin BeforeWriting /\ Known(local'[r].seen, p)
    BY <1>1 DEF BeforeWriting
  <2>2. Known(project'[p], p)
    BY DEF Known, Copies, Rows
  <2> QED BY <1>1, <1>2, <2>1, <2>2, VersionsKept
<1>6. Balanced(r, p)
  <2>1. Claim(r)' = Claim(r) /\ Claim(r).count \in Nat /\ Claim(r).bytes \in Nat
    BY <1>4
  <2> QED BY <1>1, <2>1, BalancedQuietly DEF Active
<1>7. (\A s \in Requests : Rolled(s)) => \A s \in Requests : Rolled(s)'
  <2>1. pc[r] \notin Owners /\ pc'[r] # "restore"
    BY DEF Owners
  <2> QED BY <1>1, <1>2, <2>1, RolledQuietly
<1>8. IsDue(review'[p]) => IsDue(review[p])
  BY DEF IsDue
<1> QED BY <1>2, <1>3, <1>5, <1>6, <1>7, <1>8, StepFits

LEMMA ReviewInserted ==
    ASSUME StoreInvariant, NEW r \in Requests, InsertReview(r)
    PROVE  StoreInvariant'
<1>0. PICK p \in Projects : p = local[r].target
  BY HandIs
<1> DEFINE fresh == review[p].state = "none"
           new == [NoReview EXCEPT !.state = "active", !.id = r, !.text = "copy"]
<1>1. /\ StoreTypes /\ UNCHANGED <<project, quota, local>> /\ pc[r] = "review-insert"
  BY HandIs DEF InsertReview
<1>2. PICK o \in Outcomes :
        /\ Spend(o) /\ PutReview(p, o, fresh, new)
        /\ End(r, IF o = "ok" /\ fresh THEN "success" ELSE "error")
  BY <1>0 DEF InsertReview
<1>3. Spent(o)
  BY <1>1, <1>2, Spending
<1>4. new \in ReviewRows /\ new.state = "active"
  <2> DEFINE k == NoReview
  <2>1. k \in ReviewRows /\ r \in Writers
    BY <1>0, NoLocalIs DEF Writers
  <2> HIDE DEF k
  <2> DEFINE x == [k EXCEPT !.state = "active", !.id = r, !.text = "copy"]
  <2>2. x \in ReviewRows /\ x.state = "active"
    BY <2>1 DEF ReviewRows, RowStates, Texts
  <2> QED BY <2>2 DEF k
<1> HIDE DEF new, fresh
<1>5. Turn(r) /\ pc'[r] = "done"
  <2>1. \E t \in {"success", "error"} : End(r, t)
    BY <1>2
  <2> QED BY <1>1, <2>1, Ending
<1>6. /\ review' = [review EXCEPT ![p] = review'[p]] /\ review'[p] \in ReviewRows
      /\ review'[p].state = "tombstone" => review'[p] = review[p]
  BY <1>1, <1>2, <1>4, PutReviewIs
<1> QED BY <1>0, <1>1, <1>3, <1>5, <1>6, ReviewWritten

LEMMA ReviewSaved ==
    ASSUME StoreInvariant, NEW r \in Requests, SaveReview(r)
    PROVE  StoreInvariant'
<1>0. PICK p \in Projects : p = local[r].target
  BY HandIs
<1>1. /\ StoreTypes /\ UNCHANGED <<project, quota, local>> /\ pc[r] = "review-save"
      /\ review[p] \in ReviewRows
  BY <1>0, HandIs DEF SaveReview
<1> DEFINE row == review[p]
           Matched(files) == /\ row.state # "none" /\ row.id = local[r].review.id
                             /\ files => row.saved = local[r].review.saved
           New(files) == [row EXCEPT !.text = "edited", !.saved = IF files THEN r ELSE @]
<1>2. PICK o \in Outcomes, files \in BOOLEAN :
        /\ Spend(o) /\ PutReview(p, o, Matched(files), New(files))
        /\ End(r, IF o = "ok" /\ Matched(files) THEN "success" ELSE "error")
  BY <1>0 DEF SaveReview
<1> DEFINE matched == Matched(files)
           new == New(files)
<1>3. Spent(o)
  BY <1>1, <1>2, Spending
<1>4. /\ new \in ReviewRows /\ new.state = review[p].state /\ new.by = review[p].by
      /\ new.deadline = review[p].deadline
  <2>1. r \in Writers
    BY DEF Writers
  <2> QED BY <1>1, <2>1 DEF ReviewRows, Texts
<1>5. Turn(r) /\ pc'[r] = "done"
  <2>1. \E t \in {"success", "error"} : End(r, t)
    BY <1>2
  <2> QED BY <1>1, <2>1, Ending
<1>6. PutReview(p, o, matched, new)
  BY <1>2
<1> HIDE DEF matched, new
<1>7. /\ review' = [review EXCEPT ![p] = review'[p]] /\ review'[p] \in ReviewRows
      /\ review'[p] = new \/ review'[p] = review[p]
  BY <1>1, <1>4, <1>6, PutReviewIs
<1>8. review'[p].state = "tombstone" =>
        /\ review[p].state = "tombstone" /\ review[p].by = review'[p].by
        /\ review[p].deadline = review'[p].deadline
  BY <1>4, <1>7
<1> HIDE DEF row
<1> QED BY <1>0, <1>1, <1>3, <1>5, <1>7, <1>8, ReviewWritten

-----------------------------------------------------------------------------
(* The sweep.                                                              *)

\* A sweep leaves active rows alone; it deletes tombstones or changes their deadline.
Swept ==
    /\ UNCHANGED <<quota, local, answer>>
    /\ pc' \in [Requests \cup {Purger} -> Places]
    /\ \A r \in Requests : pc'[r] = pc[r]
    /\ lost' \in Nat /\ ambiguous' \in Nat /\ crashes' = crashes
    /\ lost <= lost' /\ ambiguous <= ambiguous' /\ Missing <= Missing'
    /\ project' \in [Projects -> ProjectRows] /\ review' \in [Projects -> ReviewRows]
    /\ \A p \in Projects :
        /\ project'[p].state = "active" <=> project[p].state = "active"
        /\ project[p].state = "active" =>
             project'[p].bytes = project[p].bytes /\ project'[p].version = project[p].version
        /\ project'[p].state = "tombstone" =>
             project[p].state = "tombstone" /\ project[p].by = project'[p].by
        /\ review'[p].state = "tombstone" =>
             review[p].state = "tombstone" /\ review[p].by = review'[p].by

LEMMA StillWithin ==
    \A a, b, limit, x, y \in Nat : a + b <= limit + x /\ x <= y => a + b <= limit + y
  OBVIOUS

LEMMA SweptFits ==
    ASSUME StoreInvariant, Swept, ReviewsFirst'
    PROVE  StoreInvariant'
<1>1. StoreTypes /\ VersionsTell
  BY DEF StoreInvariant
<1>2. StoreTypes'
  <2>1. \A r \in Requests : HandFits(r)'
    BY <1>1 DEF Swept, StoreTypes, HandFits, Growth
  <2> QED BY <1>1, <2>1 DEF Swept, StoreTypes
<1>3. \A p \in Projects : Copies(p)' \subseteq Copies(p)
  BY DEF Swept, Copies, Rows
<1>4. VersionsTell'
  <2>1. \A p \in Projects : \A x, y \in Copies(p)' : x[1] = y[1] => x[2] = y[2]
    BY <1>1, <1>3 DEF VersionsTell
  <2>2. \A r \in Requests : pc'[r] \in BeforeWriting =>
          \A p \in Projects : \A x \in Copies(p)' : x[1] # r
    BY <1>1, <1>3 DEF VersionsTell, Swept
  <2> QED BY <2>1, <2>2 DEF VersionsTell
<1>5. LedgerCovers'
  <2>1. LedgerCovers
    BY DEF StoreInvariant
  <2>2. \A p \in Projects : /\ Active(p)' <=> Active(p)
                            /\ Active(p) => project'[p].bytes = project[p].bytes
    BY DEF Swept, Active
  <2>3. ActiveCount' = ActiveCount
    BY <2>2 DEF ActiveCount, ActiveProjects
  <2>4. ActiveBytes' = ActiveBytes
    <3> DEFINE f == [p \in Projects |-> IF Active(p) THEN project[p].bytes ELSE 0]
               g == [p \in Projects |-> IF Active(p)' THEN project'[p].bytes ELSE 0]
    <3>1. f = g
      BY <2>2
    <3>2. ActiveBytes = Total(f) /\ ActiveBytes' = Total(g)
      BY DEF ActiveBytes, Total, Active
    <3> HIDE DEF f, g
    <3> QED BY <3>1, <3>2
  <2>5. \A r \in Requests : Claim(r)' = Claim(r)
    BY DEF Swept, Claim, Growth
  <2>6. ClaimedCount' = ClaimedCount /\ ClaimedBytes' = ClaimedBytes
    <3> DEFINE f == [s \in Requests |-> Claim(s).count]
               g == [s \in Requests |-> Claim(s)'.count]
               h == [s \in Requests |-> Claim(s).bytes]
               k == [s \in Requests |-> Claim(s)'.bytes]
    <3>1. f = g /\ h = k
      BY <2>5
    <3>2. /\ ClaimedCount = Total(f) /\ ClaimedCount' = Total(g)
          /\ ClaimedBytes = Total(h) /\ ClaimedBytes' = Total(k)
      BY DEF ClaimedCount, ClaimedBytes, Total
    <3> HIDE DEF f, g, h, k
    <3> QED BY <3>1, <3>2
  <2>7. /\ quota' = quota /\ (lost' = 0 => lost = 0) /\ (ambiguous' = 0 => ambiguous = 0)
        /\ quota.count \in Nat /\ quota.bytes \in Nat
        /\ ambiguous \in Nat /\ ambiguous' \in Nat /\ ambiguous <= ambiguous'
        /\ Missing <= Missing'
    BY <1>1 DEF Swept, StoreTypes
  <2>8. Missing \in Nat /\ Missing' \in Nat
    BY <2>7, MissingIs
  <2>9. /\ ActiveCount \in Nat /\ ActiveBytes \in Nat
        /\ ClaimedCount \in Nat /\ ClaimedBytes \in Nat
    BY <1>1, ActiveTyped, ClaimedTyped DEF StoreTypes
  <2>11. /\ quota'.count + ambiguous' >= ActiveCount' + ClaimedCount'
         /\ quota'.bytes + Missing' >= ActiveBytes' + ClaimedBytes'
    BY <2>3, <2>4, <2>6, <2>7, <2>8, <2>9, <2>1 DEF LedgerCovers
  <2>12. lost' = 0 /\ ambiguous' = 0 => /\ quota'.count = ActiveCount' + ClaimedCount'
                                       /\ quota'.bytes = ActiveBytes' + ClaimedBytes'
    BY <2>3, <2>4, <2>6, <2>7, <2>1 DEF LedgerCovers
  <2>13. ActiveCount' + ClaimedCount' <= MaxProjects + ambiguous'
    <3>1. ActiveCount + ClaimedCount <= MaxProjects + ambiguous
      BY <2>1 DEF LedgerCovers
    <3> QED BY <2>3, <2>6, <2>7, <2>9, <3>1, StillWithin, LimitsAreNaturals
  <2>14. ActiveBytes' + ClaimedBytes' <= MaxBytes + Missing'
    <3>1. ActiveBytes + ClaimedBytes <= MaxBytes + Missing
      BY <2>1 DEF LedgerCovers
    <3> QED BY <2>4, <2>6, <2>7, <2>8, <2>9, <3>1, StillWithin, LimitsAreNaturals
  <2> QED BY <2>11, <2>12, <2>13, <2>14 DEF LedgerCovers
<1>6. ASSUME ambiguous' = 0, NEW r \in Requests PROVE Rolled(r)'
  <2>1. Rolled(r)
    BY <1>1, <1>6 DEF StoreInvariant, StoreTypes, Swept
  <2>2. \A q \in Projects : HasProject(r, q)' => HasProject(r, q)
    BY DEF Swept, HasProject
  <2>3. \A q \in Projects : HasReview(r, q)' => HasReview(r, q)
    BY DEF Swept, HasReview
  <2>4. local[r].target \in Projects
    BY HandIs
  <2>5. /\ pc'[r] = pc[r] /\ local' = local /\ answer' = answer
        /\ lost <= lost' /\ lost \in Nat /\ lost' \in Nat /\ crashes' = crashes
    BY <1>1 DEF Swept, StoreTypes
  <2> QED BY <2>1, <2>2, <2>3, <2>4, <2>5 DEF Rolled
<1> QED BY <1>2, <1>4, <1>5, <1>6 DEF StoreInvariant

\* A sweep step of the purger, which goes on at x.
LEMMA PurgerSteps ==
    ASSUME StoreTypes, NEW x \in Places, StepPurger(x)
    PROVE  /\ pc' \in [Requests \cup {Purger} -> Places] /\ pc'[Purger] = x
           /\ (\A r \in Requests : pc'[r] = pc[r]) /\ UNCHANGED answer
  BY OwnNames DEF StepPurger, StoreTypes

LEMMA DeadlinesChange ==
    ASSUME StoreTypes, NEW o, NEW from, NEW to \in Deadlines, OnBoth(o, from, to)
    PROVE  /\ project' \in [Projects -> ProjectRows] /\ review' \in [Projects -> ReviewRows]
           /\ \A p \in Projects :
                /\ project'[p] # project[p] =>
                     project[p].state = "tombstone" /\ project'[p].state = "tombstone"
                /\ project'[p].state = project[p].state /\ project'[p].by = project[p].by
                /\ review'[p].state = review[p].state /\ review'[p].by = review[p].by
<1> DEFINE P == WithDeadline(project, from, to)
           R == WithDeadline(review, from, to)
<1>1. /\ P \in [Projects -> ProjectRows]
      /\ \A p \in Projects :
           /\ P[p] # project[p] => project[p].state = "tombstone" /\ P[p].state = "tombstone"
           /\ P[p].state = project[p].state /\ P[p].by = project[p].by
  BY DEF StoreTypes, WithDeadline, ProjectRows
<1>2. /\ R \in [Projects -> ReviewRows]
      /\ \A p \in Projects : R[p].state = review[p].state /\ R[p].by = review[p].by
  BY DEF StoreTypes, WithDeadline, ReviewRows
<1>3. (project' = P \/ project' = project) /\ (review' = R \/ review' = review)
  BY DEF OnBoth
<1> HIDE DEF P, R
<1> QED BY <1>1, <1>2, <1>3 DEF StoreTypes

LEMMA DeadlinesSwept ==
    ASSUME StoreInvariant, Schedule \/ Suspend
    PROVE  StoreInvariant'
<1>1. StoreTypes
  BY DEF StoreInvariant
<1>2. PICK o \in ReadOutcomes, from \in SUBSET Deadlines, to \in Deadlines :
        Spend(o) /\ OnBoth(o, from, to)
  <2>1. /\ "ahead" \in Deadlines /\ "none" \in Deadlines
        /\ Unscheduled \subseteq Deadlines /\ {"ahead", "passed"} \subseteq Deadlines
    BY DEF Deadlines, Unscheduled
  <2>2. CASE Schedule
    BY <2>1, <2>2 DEF Schedule
  <2>3. CASE Suspend
    BY <2>1, <2>3 DEF Suspend
  <2> QED BY <2>2, <2>3
<1>3. Spent(o)
  BY <1>1, <1>2, Spending
<1>4. PICK x \in {"reviews", "suspend", "idle"} : StepPurger(x)
  BY DEF Schedule, Suspend
<1>5. x \in Places /\ x # "projects"
  BY DEF Places
<1>6. /\ pc' \in [Requests \cup {Purger} -> Places] /\ pc'[Purger] = x
      /\ (\A r \in Requests : pc'[r] = pc[r]) /\ UNCHANGED answer
  BY <1>1, <1>4, <1>5, PurgerSteps
<1>7. /\ project' \in [Projects -> ProjectRows] /\ review' \in [Projects -> ReviewRows]
      /\ \A p \in Projects :
           /\ project'[p] # project[p] =>
                project[p].state = "tombstone" /\ project'[p].state = "tombstone"
           /\ project'[p].state = project[p].state /\ project'[p].by = project[p].by
           /\ review'[p].state = review[p].state /\ review'[p].by = review[p].by
  BY <1>1, <1>2, DeadlinesChange
<1>8. UNCHANGED <<quota, local>>
  BY DEF Schedule, Suspend
<1>9. Swept
  BY <1>1, <1>3, <1>6, <1>7, <1>8, SpentIs DEF Swept, Spent
<1>10. ReviewsFirst'
  BY <1>5, <1>6 DEF ReviewsFirst
<1> QED BY <1>9, <1>10, SweptFits

LEMMA ReviewsPurged ==
    ASSUME StoreInvariant, PurgeReviews
    PROVE  StoreInvariant'
<1>1. StoreTypes
  BY DEF StoreInvariant
<1>2. PICK o \in Outcomes :
        /\ Spend(o)
        /\ review' = [p \in Projects |->
                        IF IsDue(review[p]) /\ o # "lost" THEN NoReview ELSE review[p]]
        /\ StepPurger(IF o = "ok" THEN "projects" ELSE "suspend")
  BY DEF PurgeReviews, AfterReviews
<1>3. Spent(o)
  BY <1>1, <1>2, Spending
<1>4. /\ pc' \in [Requests \cup {Purger} -> Places]
      /\ pc'[Purger] = IF o = "ok" THEN "projects" ELSE "suspend"
      /\ (\A r \in Requests : pc'[r] = pc[r]) /\ UNCHANGED answer
  <2>1. "projects" \in Places /\ "suspend" \in Places
    BY DEF Places
  <2> QED BY <1>1, <1>2, <2>1, PurgerSteps
<1>5. NoReview \in ReviewRows /\ NoReview.state = "none"
  BY FiniteStore, NoLocalIs
<1>6. UNCHANGED <<project, quota, local>>
  BY DEF PurgeReviews
<1>7. /\ review' \in [Projects -> ReviewRows]
      /\ \A p \in Projects : review'[p].state = "tombstone" => review'[p] = review[p]
      /\ o = "ok" => \A p \in Projects : ~IsDue(review'[p])
  BY <1>1, <1>2, <1>5 DEF StoreTypes, IsDue
<1>8. Swept
  BY <1>1, <1>3, <1>4, <1>6, <1>7, SpentIs DEF Swept, Spent, StoreTypes
<1>9. ReviewsFirst'
  BY <1>4, <1>7 DEF ReviewsFirst, IsDue
<1> QED BY <1>8, <1>9, SweptFits

LEMMA ProjectsPurged ==
    ASSUME StoreInvariant, PurgeProjects
    PROVE  StoreInvariant'
<1>1. StoreTypes
  BY DEF StoreInvariant
<1>2. PICK o \in Outcomes :
        /\ Spend(o)
        /\ project' = [p \in Projects |->
                         IF IsDue(project[p]) /\ o # "lost" THEN NoProject ELSE project[p]]
        /\ StepPurger(IF o = "ok" THEN "idle" ELSE "suspend")
  BY DEF PurgeProjects
<1>3. Spent(o)
  BY <1>1, <1>2, Spending
<1>4. /\ pc' \in [Requests \cup {Purger} -> Places] /\ pc'[Purger] # "projects"
      /\ (\A r \in Requests : pc'[r] = pc[r]) /\ UNCHANGED answer
  <2>1. "idle" \in Places /\ "suspend" \in Places
    BY DEF Places
  <2> QED BY <1>1, <1>2, <2>1, PurgerSteps
<1>5. NoProject \in ProjectRows /\ NoProject.state = "none"
  BY FiniteStore, NoLocalIs
<1>6. UNCHANGED <<review, quota, local>>
  BY DEF PurgeProjects
<1>7. /\ project' \in [Projects -> ProjectRows]
      /\ \A p \in Projects :
           /\ project'[p] # project[p] =>
                project[p].state = "tombstone" /\ project'[p].state # "active"
           /\ project'[p].state = "tombstone" => project'[p] = project[p]
  BY <1>1, <1>2, <1>5 DEF StoreTypes, IsDue
<1>8. Swept
  BY <1>1, <1>3, <1>4, <1>6, <1>7, SpentIs DEF Swept, Spent, StoreTypes
<1>9. ReviewsFirst'
  BY <1>4 DEF ReviewsFirst
<1> QED BY <1>8, <1>9, SweptFits

LEMMA DeadlinePassed ==
    ASSUME StoreInvariant, NEW p \in Projects, PassDeadline(p)
    PROVE  StoreInvariant'
<1>1. StoreTypes
  BY DEF StoreInvariant
<1>2. /\ project' = [project EXCEPT ![p].deadline = IF @ = "ahead" THEN "passed" ELSE @]
      /\ review' = [review EXCEPT ![p].deadline = IF @ = "ahead" THEN "passed" ELSE @]
      /\ pc[Purger] = "idle" /\ UNCHANGED <<quota, pc, local, answer, bounds>>
  BY DEF PassDeadline
<1>3. /\ project' \in [Projects -> ProjectRows]
      /\ \A q \in Projects :
           /\ project'[q].state = project[q].state /\ project'[q].by = project[q].by
           /\ project'[q].bytes = project[q].bytes /\ project'[q].version = project[q].version
  BY <1>1, <1>2 DEF StoreTypes, ProjectRows, Deadlines
<1>4. /\ review' \in [Projects -> ReviewRows]
      /\ \A q \in Projects : review'[q].state = review[q].state /\ review'[q].by = review[q].by
  BY <1>1, <1>2 DEF StoreTypes, ReviewRows, Deadlines
<1>5. Swept
  <2>1. /\ lost' = lost /\ ambiguous' = ambiguous /\ crashes' = crashes /\ Missing' = Missing
        /\ Missing \in Nat
    BY <1>1, <1>2, MissingIs DEF StoreTypes, bounds
  <2> QED BY <1>1, <1>2, <1>3, <1>4, <2>1 DEF Swept, StoreTypes
<1>6. ReviewsFirst'
  BY <1>2 DEF ReviewsFirst
<1> QED BY <1>5, <1>6, SweptFits

-----------------------------------------------------------------------------
(* Crashes, the initial states, and the whole.                             *)

LEMMA NothingClaimed ==
    ASSUME \A r \in Requests : Claim(r) = [count |-> 0, bytes |-> 0]
    PROVE  ClaimedCount = 0 /\ ClaimedBytes = 0
<1> DEFINE f == [r \in Requests |-> Claim(r).count]
           g == [r \in Requests |-> Claim(r).bytes]
<1>1. /\ f \in [Requests -> Nat] /\ \A r \in Requests : f[r] = 0
      /\ g \in [Requests -> Nat] /\ \A r \in Requests : g[r] = 0
  OBVIOUS
<1>2. Total(f) = 0 /\ Total(g) = 0
  <2> HIDE DEF f, g
  <2> QED BY <1>1, TotalOfNothing
<1> QED BY <1>2 DEF ClaimedCount, ClaimedBytes

LEMMA NothingClaimedNext ==
    ASSUME \A r \in Requests : Claim(r)' = [count |-> 0, bytes |-> 0]
    PROVE  ClaimedCount' = 0 /\ ClaimedBytes' = 0
<1> DEFINE f == [r \in Requests |-> Claim(r)'.count]
           g == [r \in Requests |-> Claim(r)'.bytes]
<1>1. /\ f \in [Requests -> Nat] /\ \A r \in Requests : f[r] = 0
      /\ g \in [Requests -> Nat] /\ \A r \in Requests : g[r] = 0
  OBVIOUS
<1>2. Total(f) = 0 /\ Total(g) = 0
  <2> HIDE DEF f, g
  <2> QED BY <1>1, TotalOfNothing
<1>3. ClaimedCount' = Total(f) /\ ClaimedBytes' = Total(g)
  BY DEF ClaimedCount, ClaimedBytes, Total
<1> QED BY <1>2, <1>3

\* The ledger covers the claims, so it covers the active projects.
LEMMA LedgerCoversProjects ==
    ASSUME StoreTypes, LedgerCovers
    PROVE  /\ quota.count + ambiguous >= ActiveCount /\ quota.bytes + Missing >= ActiveBytes
           /\ ActiveCount <= MaxProjects + ambiguous /\ ActiveBytes <= MaxBytes + Missing
<1>1. /\ ActiveCount \in Nat /\ ActiveBytes \in Nat /\ quota.count \in Nat /\ quota.bytes \in Nat
      /\ ClaimedCount \in Nat /\ ClaimedBytes \in Nat /\ ambiguous \in Nat
  BY ActiveTyped, ClaimedTyped DEF StoreTypes
<1>2. Missing \in Nat
  <2>1. \A a, b \in Nat : a * b \in Nat
    OBVIOUS
  <2> QED BY <1>1, <2>1, SizesAreBounded DEF Missing
<1> QED BY <1>1, <1>2, LimitsAreNaturals DEF LedgerCovers

LEMMA CrashFits ==
    ASSUME StoreInvariant, Crash
    PROVE  StoreInvariant'
<1>1. StoreTypes /\ VersionsTell
  BY DEF StoreInvariant
<1>2. /\ crashes' = crashes + 1 /\ quota' = [count |-> ActiveCount, bytes |-> ActiveBytes]
      /\ pc' = [r \in Requests \cup {Purger} |->
                  IF r = Purger THEN "idle" ELSE IF pc[r] = "ready" THEN "ready" ELSE "done"]
      /\ UNCHANGED <<project, review, local, answer, lost, ambiguous>>
  BY DEF Crash
<1>3. /\ \A r \in Requests : pc'[r] = IF pc[r] = "ready" THEN "ready" ELSE "done"
      /\ pc'[Purger] = "idle"
  BY <1>2, OwnNames
<1>4. StoreTypes'
  <2>1. quota' \in [count : Nat, bytes : Nat]
    BY <1>1, <1>2, ActiveTyped DEF StoreTypes
  <2>2. pc' \in [Requests \cup {Purger} -> Places]
    BY <1>2 DEF Places, Pending
  <2>3. \A r \in Requests : HandFits(r)'
    BY <1>1, <1>2, <1>3 DEF StoreTypes, HandFits, Pending
  <2> QED BY <1>1, <1>2, <2>1, <2>2, <2>3 DEF StoreTypes
<1>5. VersionsTell'
  <2>1. \A p \in Projects : Copies(p)' = Copies(p)
    BY <1>2 DEF Copies, Rows
  <2>2. \A r \in Requests : pc'[r] \in BeforeWriting => pc[r] \in BeforeWriting
    BY <1>3 DEF BeforeWriting
  <2>3. \A p \in Projects : \A x, y \in Copies(p)' : x[1] = y[1] => x[2] = y[2]
    BY <1>1, <2>1 DEF VersionsTell
  <2>4. \A r \in Requests : pc'[r] \in BeforeWriting =>
          \A p \in Projects : \A x \in Copies(p)' : x[1] # r
    BY <1>1, <2>1, <2>2 DEF VersionsTell
  <2> QED BY <2>3, <2>4 DEF VersionsTell
<1>6. ReviewsFirst'
  BY <1>3 DEF ReviewsFirst
<1>7. LedgerCovers'
  <2>1. LedgerCovers
    BY DEF StoreInvariant
  <2>2. \A r \in Requests : Claim(r)' = [count |-> 0, bytes |-> 0]
    BY <1>3, ClaimIsNext DEF ClaimFits
  <2>3. ClaimedCount' = 0 /\ ClaimedBytes' = 0
    BY <2>2, NothingClaimedNext
  <2>4. ActiveCount' = ActiveCount /\ ActiveBytes' = ActiveBytes
    BY <1>2 DEF ActiveCount, ActiveBytes, ActiveProjects, Active
  <2>5. /\ ActiveCount <= MaxProjects + ambiguous /\ ActiveBytes <= MaxBytes + Missing
        /\ ActiveCount \in Nat /\ ActiveBytes \in Nat
    BY <1>1, <2>1, LedgerCoversProjects, ActiveTyped DEF StoreTypes
  <2>6. /\ ambiguous' = ambiguous /\ Missing' = Missing /\ ambiguous \in Nat /\ Missing \in Nat
        /\ quota'.count = ActiveCount /\ quota'.bytes = ActiveBytes
    <3>1. ambiguous' = ambiguous /\ ambiguous \in Nat
      BY <1>1, <1>2 DEF StoreTypes
    <3> QED BY <1>2, <3>1, MissingIs
  <2> QED BY <2>3, <2>4, <2>5, <2>6 DEF LedgerCovers
<1>8. ASSUME ambiguous' = 0, NEW r \in Requests PROVE Rolled(r)'
  <2>1. Rolled(r)
    BY <1>2, <1>8 DEF StoreInvariant
  <2>2. \A q \in Projects : /\ HasProject(r, q)' <=> HasProject(r, q)
                            /\ HasReview(r, q)' <=> HasReview(r, q)
    BY <1>2 DEF HasProject, HasReview
  <2>3. crashes' # 0 /\ local' = local
    BY <1>1, <1>2 DEF StoreTypes
  <2> QED BY <1>3, <2>1, <2>2, <2>3 DEF Rolled
<1> QED BY <1>4, <1>5, <1>6, <1>7, <1>8 DEF StoreInvariant

LEMMA InitFits == Init => StoreInvariant
<1> SUFFICES ASSUME Init PROVE StoreInvariant
  OBVIOUS
<1> DEFINE p0 == CHOOSE p \in Projects : TRUE
           k == NoLocal(p0)
<1>1. /\ p0 \in Projects /\ k \in Locals /\ k.target = p0 /\ k.seen = NoProject
      /\ NoProject \in ProjectRows /\ NoProject.state = "none"
      /\ NoReview \in ReviewRows /\ NoReview.state = "none"
  <2>1. p0 \in Projects
    BY FiniteStore
  <2> HIDE DEF p0
  <2> QED BY <2>1, NoLocalIs
<1> HIDE DEF k, p0
<1>2. /\ pc = [r \in Requests \cup {Purger} |-> IF r = Purger THEN "idle" ELSE "ready"]
      /\ local = [r \in Requests |-> k] /\ answer = [r \in Requests |-> "none"]
      /\ lost = 0 /\ ambiguous = 0 /\ crashes = 0
      /\ quota = [count |-> ActiveCount, bytes |-> ActiveBytes]
      /\ ActiveCount <= MaxProjects /\ ActiveBytes <= MaxBytes
  BY DEF Init, k, p0
<1>3. /\ \A r \in Requests : pc[r] = "ready" /\ local[r] = k /\ answer[r] = "none"
      /\ pc[Purger] = "idle"
  BY <1>2, OwnNames
<1>4. /\ project \in [Projects -> ProjectRows]
      /\ \A p \in Projects : project[p].version = Seed /\ project[p].state # "tombstone"
  <2> DEFINE x == NoProject
  <2>1. x \in ProjectRows /\ x.version = Seed /\ x.state = "none"
    BY <1>1 DEF NoProject
  <2>2. project \in [Projects -> {x} \cup {[x EXCEPT !.state = "active", !.bytes = n] : n \in Sizes}]
    BY DEF Init
  <2> HIDE DEF x
  <2>4. \A n \in Sizes : /\ [x EXCEPT !.state = "active", !.bytes = n] \in ProjectRows
                         /\ [x EXCEPT !.state = "active", !.bytes = n].version = Seed
                         /\ [x EXCEPT !.state = "active", !.bytes = n].state = "active"
    BY <2>1, SizesFit DEF ProjectRows, RowStates
  <2> DEFINE Rs == {x} \cup {[x EXCEPT !.state = "active", !.bytes = n] : n \in Sizes}
  <2>5. \A y \in Rs : y \in ProjectRows /\ y.version = Seed /\ y.state # "tombstone"
    BY <2>1, <2>4
  <2>6. project \in [Projects -> Rs]
    BY <2>2
  <2> HIDE DEF Rs
  <2> QED BY <2>5, <2>6
<1>5. /\ review \in [Projects -> ReviewRows]
      /\ \A p \in Projects : review[p].state # "tombstone"
  <2> DEFINE x == NoReview
             y == [x EXCEPT !.state = "active", !.text = "copy"]
  <2>1. x \in ReviewRows /\ x.state = "none"
    BY <1>1
  <2>2. review \in [Projects -> {x, y}]
    BY DEF Init
  <2> HIDE DEF x
  <2>3. y \in ReviewRows /\ y.state = "active"
    BY <2>1 DEF ReviewRows, RowStates, Texts
  <2> HIDE DEF y
  <2> QED BY <2>1, <2>2, <2>3
<1>6. StoreTypes
  <2>1. quota \in [count : Nat, bytes : Nat]
    BY <1>2, <1>4, ActiveTyped
  <2>2. \A r \in Requests : HandFits(r)
    BY <1>1, <1>3 DEF HandFits, Pending
  <2>3. pc \in [Requests \cup {Purger} -> Places]
    BY <1>2 DEF Places, Pending
  <2> QED BY <1>1, <1>2, <1>4, <1>5, <2>1, <2>2, <2>3 DEF StoreTypes
<1>7. VersionsTell
  <2>1. \A p \in Projects : \A x \in Copies(p) : x = <<Seed, project[p].bytes>>
    BY <1>1, <1>3, <1>4 DEF Copies, Rows
  <2> QED BY <2>1, OwnNames DEF VersionsTell
<1>8. ReviewsFirst
  BY <1>3 DEF ReviewsFirst
<1>9. LedgerCovers
  <2>1. \A r \in Requests : Claim(r) = [count |-> 0, bytes |-> 0]
    BY <1>3, ClaimIs DEF ClaimFits
  <2>2. ClaimedCount = 0 /\ ClaimedBytes = 0
    BY <2>1, NothingClaimed
  <2>3. ActiveCount \in Nat /\ ActiveBytes \in Nat
    BY <1>4, ActiveTyped
  <2>4. Missing = 0 /\ quota.count = ActiveCount /\ quota.bytes = ActiveBytes /\ ambiguous = 0
    <3>1. \A b \in Nat : 0 * b = 0
      OBVIOUS
    <3> QED BY <1>2, <3>1, SizesAreBounded DEF Missing
  <2> QED BY <1>2, <2>2, <2>3, <2>4, LimitsAreNaturals DEF LedgerCovers
<1>10. \A r \in Requests : Rolled(r)
  BY <1>1, <1>3, <1>4, <1>5 DEF Rolled, HasProject, HasReview
<1> QED BY <1>6, <1>7, <1>8, <1>9, <1>10 DEF StoreInvariant

LEMMA NothingChanges ==
    ASSUME StoreInvariant, UNCHANGED vars
    PROVE  StoreInvariant'
<1> USE DEF vars, store, bounds
<1>1. StoreTypes' /\ ReviewsFirst'
  BY DEF StoreInvariant, StoreTypes, HandFits, Growth, ReviewsFirst
<1>2. VersionsTell'
  BY DEF StoreInvariant, VersionsTell, Copies, Rows
<1>3. LedgerCovers'
  BY DEF StoreInvariant, LedgerCovers, Missing, ActiveCount, ActiveBytes, ActiveProjects, Active,
         ClaimedCount, ClaimedBytes, Claim, Growth
<1>4. ambiguous' = 0 => \A r \in Requests : Rolled(r)'
  BY DEF StoreInvariant, Rolled, HasProject, HasReview
<1> QED BY <1>1, <1>2, <1>3, <1>4 DEF StoreInvariant

LEMMA StoreStep ==
    ASSUME StoreInvariant, [Next]_vars
    PROVE  StoreInvariant'
<1>1. ASSUME NEW r \in Requests, RequestStep(r) PROVE StoreInvariant'
  <2>1. CASE CreateStep(r)
    BY <1>1, <2>1, CreateBegins, ImportIsLookedUp, CreateReserved, ProjectInserted,
       ReservationGivenBack DEF CreateStep
  <2>2. CASE r \in Updates /\ UpdateStep(r)
    BY <1>1, <2>2, FoundForUpdate, GrowthReserved, ProjectWritten, GrowthUndone, GrowthReleased
       DEF UpdateStep
  <2>3. CASE DeleteStep(r)
    BY <1>1, <2>3, FoundForDelete, ProjectScrubbed, ReviewScrubbed, DeletedReleased,
       TombstoneRestored, TombstoneRemoved DEF DeleteStep
  <2>4. CASE ReviewStep(r)
    BY <1>1, <2>4, ReviewedProjectFound, ReviewIsLoaded, ReviewInserted, ReviewSaved DEF ReviewStep
  <2> QED BY <1>1, <2>1, <2>2, <2>3, <2>4 DEF RequestStep
<1>2. CASE Sweep
  BY <1>2, DeadlinesSwept, ReviewsPurged, ProjectsPurged, DeadlinePassed DEF Sweep, PurgerStep
<1>3. CASE Crash
  BY <1>3, CrashFits
<1>4. CASE UNCHANGED vars
  BY <1>4, NothingChanges
<1> QED BY <1>1, <1>2, <1>3, <1>4 DEF Next

\* What the database and the handlers hold between any two steps: their types, one content
\* per version, the order of the sweep, a ledger that covers the projects and the claims but
\* for what operations applied without acknowledgement have cost it and, while there was no
\* such operation, tombstones that a rollback will find.
THEOREM StoreIsInvariant == Spec => []StoreInvariant
<1>1. StoreInvariant /\ [Next]_vars => StoreInvariant'
  BY StoreStep
<1> QED BY InitFits, <1>1, PTL DEF Spec

\* Without a failure the ledger of reserveStudentProjectQuota and releaseStudentProjectQuota
\* counts the active projects and what the requests in flight have claimed, whatever the
\* order of their steps.
THEOREM QuotaStaysExact == Spec => []QuotaIsExact
<1>1. StoreInvariant => QuotaIsExact
  BY DEF StoreInvariant, LedgerCovers, QuotaIsExact, ClaimedCount, ClaimedBytes
<1> QED BY <1>1, StoreIsInvariant, PTL

\* "An over-counted quota fails closed": lost operations and crashes leave a ledger that counts
\* too much, never too little, and an operation applied without its acknowledgement lowers it
\* by at most one project and its bytes: the reservation of an insert or a write that was
\* reported as failed, or a release that is repeated.
THEOREM QuotaCoversProjects == Spec => []QuotaFailsClosed
<1>1. StoreInvariant => QuotaFailsClosed
  BY LedgerCoversProjects DEF StoreInvariant, QuotaFailsClosed, Missing
<1> QED BY <1>1, StoreIsInvariant, PTL

\* "Each student can save up to 25 active projects or 32 MiB total", through every
\* interleaving of creations, growth, deletions and their rollbacks, and through crashes, but
\* for one project per operation applied without its acknowledgement.
THEOREM LimitsAreKept == Spec => []LimitsHold
<1>1. StoreInvariant => LimitsHold
  BY LedgerCoversProjects DEF StoreInvariant, LimitsHold, Missing
<1> QED BY <1>1, StoreIsInvariant, PTL

\* restoreDeleteTombstones: a deletion that met one lost operation and reported an error has
\* left neither its project nor the review scrubbed.
THEOREM FailureIsRolledBack == Spec => []OneFailureIsRolledBack
<1>1. ASSUME StoreInvariant PROVE OneFailureIsRolledBack
  <2>1. lost \in Nat /\ (ambiguous = 0 => \A r \in Requests : Rolled(r))
    BY <1>1 DEF StoreInvariant, StoreTypes
  <2>2. Deletes \subseteq Requests
    BY DEF Requests
  <2> QED BY <1>1, <2>1, <2>2 DEF OneFailureIsRolledBack, Rolled, HasProject, HasReview
<1> QED BY <1>1, StoreIsInvariant, PTL

\* "Reviews go first": the sweep deletes a due project only when no review is due any more,
\* whichever of its operations failed before.
THEOREM SweepKeepsOrder == Spec => ReviewsGoFirst
<1> DEFINE A == \A p \in Projects :
                  pc[Purger] = "projects" /\ pc'[Purger] # "projects" /\ IsDue(project[p])
                      => ~IsDue(review[p]) \/ project' = project
<1>1. StoreInvariant => A
  BY DEF StoreInvariant, ReviewsFirst
<1>2. StoreInvariant /\ [Next]_vars => [A]_vars
  BY <1>1
<1>3. Spec => [][A]_vars
  BY <1>2, StoreIsInvariant, PTL DEF Spec
<1> QED BY <1>3 DEF ReviewsGoFirst
=============================================================================
