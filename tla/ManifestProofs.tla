---------------------------- MODULE ManifestProofs ----------------------------
(***************************************************************************)
(* The registry, the manifest built from it and the client's receiver, for *)
(* any assets and any limits: what the other proofs need to know of them.  *)
(***************************************************************************)
EXTENDS AssetPublication, ManifestReceiver, FiniteSetTheorems, SequenceTheorems,
        FunctionTheorems, WellFoundedInduction, TLAPS

-----------------------------------------------------------------------------
(* Sums of sizes.  The sum of w over s is the number of the bytes that the  *)
(* members of s have between them.                                          *)
Bytes(w, s) == {e \in s \X Nat : e[2] \in 1..w[e[1]]}

(* Whatever some part of a finite set fails, a smallest part fails.         *)
LEMMA SmallestPart ==
  ASSUME NEW S, IsFiniteSet(S), NEW Bad, Bad \subseteq SUBSET S, Bad # {}
  PROVE  \E m \in Bad : \A x \in m : m \ {x} \notin Bad
<1> DEFINE R == StrictSubsetOrdering(S)
<1>1. Bad \subseteq FiniteSubsetsOf(S)
  BY FS_Subset DEF FiniteSubsetsOf
<1>2. IsWellFoundedOn(R, FiniteSubsetsOf(S))
  BY FS_StrictSubsetOrderingWellFounded
<1>3. \A k, m \in SUBSET S : k \subseteq m /\ k # m => <<k, m>> \in R
  BY DEF StrictSubsetOrdering
<1> HIDE DEF R
<1>4. IsWellFoundedOn(R, Bad)
  BY <1>1, <1>2, IsWellFoundedOnSubset, Zenon
<1>5. PICK m \in Bad : \A k \in Bad : <<k, m>> \notin R
  BY <1>1, <1>2, WFMin, Zenon
<1>6. ASSUME NEW x \in m PROVE m \ {x} \notin Bad
  <2>1. m \ {x} \in SUBSET S /\ m \in SUBSET S /\ m \ {x} # m /\ m \ {x} \subseteq m
    BY <1>6
  <2> QED BY <1>3, <1>5, <2>1
<1> QED BY <1>6

(* The bytes of one member.                                                 *)
LEMMA BytesOfOne ==
  ASSUME NEW S, NEW w \in [S -> Nat], NEW x \in S
  PROVE  IsFiniteSet(Bytes(w, {x})) /\ Cardinality(Bytes(w, {x})) = w[x]
<1> DEFINE f == [n \in 1..w[x] |-> <<x, n>>]
<1>1. IsFiniteSet(1..w[x]) /\ Cardinality(1..w[x]) = w[x]
  BY FS_Interval
<1>2. f \in Bijection(1..w[x], Bytes(w, {x}))
  BY DEF Bytes, Bijection, Injection, Surjection, IsInjective
<1> QED BY <1>1, <1>2, FS_Bijection DEF ExistsBijection

(* A member taken out takes its bytes along.                                *)
LEMMA BytesWithout ==
  ASSUME NEW S, NEW w \in [S -> Nat], NEW s \in SUBSET S, NEW x \in s,
         IsFiniteSet(Bytes(w, s \ {x}))
  PROVE  /\ IsFiniteSet(Bytes(w, s))
         /\ Cardinality(Bytes(w, s)) = w[x] + Cardinality(Bytes(w, s \ {x}))
<1> DEFINE rest == Bytes(w, s \ {x})
           own == Bytes(w, {x})
<1>1. Bytes(w, s) = rest \cup own
  BY DEF Bytes
<1>2. rest \cap own = {}
  BY DEF Bytes
<1>3. IsFiniteSet(own) /\ Cardinality(own) = w[x]
  BY BytesOfOne
<1>4. w[x] \in Nat /\ IsFiniteSet(rest) /\ Cardinality(rest) \in Nat
  BY FS_CardinalityType
<1> HIDE DEF rest, own
<1>5. /\ IsFiniteSet(rest \cup own)
      /\ Cardinality(rest \cup own)
           = Cardinality(rest) + Cardinality(own) - Cardinality(rest \cap own)
  BY <1>3, <1>4, FS_Union, Zenon
<1>6. Cardinality(rest \cap own) = 0
  BY <1>2, FS_EmptySet, Zenon
<1>7. Cardinality(rest \cup own) = w[x] + Cardinality(rest)
  BY <1>3, <1>4, <1>5, <1>6
<1>8. Bytes(w, s \ {x}) = rest
  BY DEF rest
<1> QED BY <1>1, <1>5, <1>7, <1>8

(* The bytes of a finite set are finitely many.                             *)
LEMMA BytesFinite ==
  ASSUME NEW S, IsFiniteSet(S), NEW w \in [S -> Nat], NEW s \in SUBSET S
  PROVE  IsFiniteSet(Bytes(w, s)) /\ Cardinality(Bytes(w, s)) \in Nat
<1> DEFINE Bad == {t \in SUBSET S : ~IsFiniteSet(Bytes(w, t))}
<1>1. Bad = {}
  <2> SUFFICES ASSUME Bad # {} PROVE FALSE
    OBVIOUS
  <2>1. PICK m \in Bad : \A x \in m : m \ {x} \notin Bad
    BY SmallestPart
  <2>2. CASE m = {}
    <3>1. Bytes(w, {}) = {}
      BY DEF Bytes
    <3> QED BY <2>1, <2>2, <3>1, FS_EmptySet
  <2>3. ASSUME NEW x \in m PROVE FALSE
    <3>1. m \ {x} \in SUBSET S /\ m \in SUBSET S
      OBVIOUS
    <3>2. IsFiniteSet(Bytes(w, m \ {x}))
      BY <2>1, <3>1
    <3> QED BY <2>1, <3>1, <3>2, BytesWithout
  <2> QED BY <2>2, <2>3
<1> QED BY <1>1, FS_CardinalityType

(* A fold of w with + that takes c[s] out of s next.                        *)
IsFold(S, w, c, iter) ==
  iter = [s \in SUBSET S |-> IF s = {} THEN 0 ELSE w[c[s]] + iter[s \ {c[s]}]]

(* What it computes, whichever member is taken next.                        *)
LEMMA FoldIsSum ==
  ASSUME NEW S, IsFiniteSet(S), NEW w \in [S -> Nat], NEW c,
         \A s \in SUBSET S : s # {} => c[s] \in s,
         NEW iter, IsFold(S, w, c, iter)
  PROVE  \A s \in SUBSET S : iter[s] = Cardinality(Bytes(w, s))
<1> DEFINE Bad == {t \in SUBSET S : iter[t] # Cardinality(Bytes(w, t))}
<1>1. Bad = {}
  <2> SUFFICES ASSUME Bad # {} PROVE FALSE
    OBVIOUS
  <2>1. PICK m \in Bad : \A x \in m : m \ {x} \notin Bad
    BY SmallestPart
  <2>2. CASE m = {}
    <3>1. Bytes(w, {}) = {}
      BY DEF Bytes
    <3> QED BY <2>1, <2>2, <3>1, FS_EmptySet DEF IsFold
  <2>3. CASE m # {}
    <3> DEFINE x == c[m]
    <3>1. x \in m /\ m \ {x} \in SUBSET S /\ m \in SUBSET S
      BY <2>3
    <3>2. iter[m] = w[x] + iter[m \ {x}]
      BY <2>3, <3>1 DEF IsFold
    <3> HIDE DEF x
    <3>3. iter[m \ {x}] = Cardinality(Bytes(w, m \ {x}))
      BY <2>1, <3>1
    <3>4. Cardinality(Bytes(w, m)) = w[x] + Cardinality(Bytes(w, m \ {x}))
      BY <3>1, BytesFinite, BytesWithout
    <3> QED BY <2>1, <3>2, <3>3, <3>4
  <2> QED BY <2>2, <2>3
<1> QED BY <1>1

(* Such a fold exists.                                                      *)
LEMMA SumIsFold ==
  ASSUME NEW S, IsFiniteSet(S), NEW w \in [S -> Nat], NEW c,
         \A s \in SUBSET S : s # {} => c[s] \in s
  PROVE  \E iter : IsFold(S, w, c, iter)
<1> DEFINE sum == [s \in SUBSET S |-> Cardinality(Bytes(w, s))]
<1>1. ASSUME NEW s \in SUBSET S
      PROVE  Cardinality(Bytes(w, s)) = IF s = {} THEN 0 ELSE w[c[s]] + sum[s \ {c[s]}]
  <2>1. CASE s = {}
    <3>1. Bytes(w, {}) = {}
      BY DEF Bytes
    <3> QED BY <2>1, <3>1, FS_EmptySet
  <2>2. CASE s # {}
    <3>1. c[s] \in s /\ s \ {c[s]} \in SUBSET S
      BY <2>2
    <3>2. Cardinality(Bytes(w, s)) = w[c[s]] + Cardinality(Bytes(w, s \ {c[s]}))
      BY <3>1, BytesFinite, BytesWithout
    <3> QED BY <2>2, <3>1, <3>2
  <2> QED BY <2>1, <2>2
<1>2. sum = [s \in SUBSET S |-> IF s = {} THEN 0 ELSE w[c[s]] + sum[s \ {c[s]}]]
  BY <1>1
<1> QED BY <1>2 DEF IsFold

(* The sizes of assets, and how many bytes the assets have together.        *)
SizeOf(assets) == [asset \in assets |-> asset.size]
TotalSize(assets) == Cardinality(Bytes(SizeOf(assets), assets))

(* What MapThenSumSet makes of a finite set of assets.                      *)
LEMMA SumOfSizes ==
  ASSUME NEW assets, IsFiniteSet(assets), \A asset \in assets : asset.size \in Nat
  PROVE  MapThenSumSet(LAMBDA asset : asset.size, assets) = TotalSize(assets)
<1> DEFINE w == SizeOf(assets)
           c == [s \in SUBSET assets |-> CHOOSE x \in s : TRUE]
           Steps(it) == [s \in SUBSET assets |->
                           IF s = {} THEN 0
                           ELSE LET x == CHOOSE x \in s : TRUE IN x.size + it[s \ {x}]]
           fold == CHOOSE it : it = Steps(it)
<1>1. w \in [assets -> Nat]
  BY DEF SizeOf
<1>2. \A s \in SUBSET assets : s # {} => c[s] \in s
  OBVIOUS
<1>3. ASSUME NEW it PROVE IsFold(assets, w, c, it) <=> it = Steps(it)
  <2> DEFINE other == [s \in SUBSET assets |->
                         IF s = {} THEN 0 ELSE w[c[s]] + it[s \ {c[s]}]]
  <2>1. ASSUME NEW s \in SUBSET assets PROVE other[s] = Steps(it)[s]
    <3>1. CASE s = {}
      BY <3>1
    <3>2. CASE s # {}
      <4>1. c[s] = CHOOSE x \in s : TRUE
        OBVIOUS
      <4>2. c[s] \in assets /\ w[c[s]] = c[s].size
        BY <1>2, <3>2 DEF SizeOf
      <4> HIDE DEF w, c
      <4> QED BY <3>2, <4>1, <4>2
    <3> QED BY <3>1, <3>2
  <2>2. other = Steps(it)
    <3> HIDE DEF w, c
    <3>1. other = [s \in SUBSET assets |-> other[s]]
      OBVIOUS
    <3>2. Steps(it) = [s \in SUBSET assets |-> Steps(it)[s]]
      OBVIOUS
    <3> HIDE DEF other, Steps
    <3> QED BY <2>1, <3>1, <3>2
  <2> QED BY <2>2 DEF IsFold
<1> HIDE DEF w, c
<1>4. \E it : IsFold(assets, w, c, it)
  BY <1>1, <1>2, SumIsFold
<1>5. IsFold(assets, w, c, fold)
  <2> HIDE DEF Steps
  <2>1. \E it : it = Steps(it)
    BY <1>3, <1>4
  <2> QED BY <1>3, <2>1
<1> HIDE DEF fold
<1>6. fold[assets] = Cardinality(Bytes(w, assets))
  BY <1>1, <1>2, <1>5, FoldIsSum
<1>7. MapThenSumSet(LAMBDA asset : asset.size, assets) = fold[assets]
  BY DEF MapThenSumSet, MapThenFoldSet, fold
<1> QED BY <1>6, <1>7 DEF TotalSize, w

(* The same for a sequence of assets, of which the first are counted.       *)
SizeAt(sequence) == [k \in DOMAIN sequence |-> sequence[k].size]

LEMMA SumOfSizesUpTo ==
  ASSUME NEW r, NEW n \in Nat, 1..n \subseteq DOMAIN r.assets,
         \A k \in 1..n : r.assets[k].size \in Nat
  PROVE  SizesUpTo(r, n) = Cardinality(Bytes(SizeAt(r.assets), 1..n))
<1> DEFINE S == 1..n
           w == [k \in S |-> r.assets[k].size]
           c == [s \in SUBSET S |-> CHOOSE x \in s : TRUE]
           Steps(it) == [s \in SUBSET S |->
                           IF s = {} THEN 0
                           ELSE LET x == CHOOSE x \in s : TRUE
                                IN r.assets[x].size + it[s \ {x}]]
           fold == CHOOSE it : it = Steps(it)
<1>1. w \in [S -> Nat] /\ IsFiniteSet(S)
  BY FS_Interval
<1>2. \A s \in SUBSET S : s # {} => c[s] \in s
  OBVIOUS
<1>3. ASSUME NEW it PROVE IsFold(S, w, c, it) <=> it = Steps(it)
  <2> DEFINE other == [s \in SUBSET S |->
                         IF s = {} THEN 0 ELSE w[c[s]] + it[s \ {c[s]}]]
  <2>1. ASSUME NEW s \in SUBSET S PROVE other[s] = Steps(it)[s]
    <3>1. CASE s = {}
      BY <3>1
    <3>2. CASE s # {}
      <4>1. c[s] = CHOOSE x \in s : TRUE
        OBVIOUS
      <4>2. c[s] \in S /\ w[c[s]] = r.assets[c[s]].size
        BY <1>2, <3>2
      <4> HIDE DEF w, c
      <4> QED BY <3>2, <4>1, <4>2
    <3> QED BY <3>1, <3>2
  <2>2. other = Steps(it)
    <3> HIDE DEF w, c
    <3>1. other = [s \in SUBSET S |-> other[s]]
      OBVIOUS
    <3>2. Steps(it) = [s \in SUBSET S |-> Steps(it)[s]]
      OBVIOUS
    <3> HIDE DEF other, Steps
    <3> QED BY <2>1, <3>1, <3>2
  <2> QED BY <2>2 DEF IsFold
<1>4. SizesUpTo(r, n) = fold[S]
  BY DEF SizesUpTo, MapThenSumSet, MapThenFoldSet
<1>5. Bytes(w, S) = Bytes(SizeAt(r.assets), S)
  BY DEF Bytes, SizeAt
<1> HIDE DEF w, c, S
<1>6. \E it : IsFold(S, w, c, it)
  BY <1>1, <1>2, SumIsFold
<1>7. IsFold(S, w, c, fold)
  <2> HIDE DEF Steps
  <2>1. \E it : it = Steps(it)
    BY <1>3, <1>6
  <2> QED BY <1>3, <2>1
<1> HIDE DEF fold
<1>8. fold[S] = Cardinality(Bytes(w, S))
  BY <1>1, <1>2, <1>7, FoldIsSum
<1> QED BY <1>4, <1>5, <1>8 DEF S

(* Assets listed once each have the bytes of the set they are listed from,  *)
(* and the first of them have no more.                                      *)
LEMMA ListedSizes ==
  ASSUME NEW assets, IsFiniteSet(assets), \A asset \in assets : asset.size \in Nat,
         NEW size \in Nat, NEW list \in Bijection(1..size, assets),
         NEW r, r.assets = list
  PROVE  /\ SizesUpTo(r, size) = TotalSize(assets)
         /\ TotalSize(assets) \in Nat
         /\ \A n \in 1..size : /\ SizesUpTo(r, n - 1) \in Nat
                               /\ SizesUpTo(r, n - 1) + list[n].size <= TotalSize(assets)
<1> DEFINE w == SizeAt(list)
           S == 1..size
           all == Bytes(SizeOf(assets), assets)
           listed == Bytes(w, S)
<1>1. DOMAIN list = S /\ \A k \in S : list[k] \in assets
  BY DEF Bijection, Injection
<1>2. w \in [S -> Nat] /\ \A k \in S : w[k] = list[k].size
  BY <1>1 DEF SizeAt
<1>3. \A n \in 0..size : SizesUpTo(r, n) = Cardinality(Bytes(w, 1..n))
  BY <1>1, SumOfSizesUpTo
<1>4. Cardinality(listed) = TotalSize(assets) /\ IsFiniteSet(listed)
      /\ TotalSize(assets) \in Nat
  <2> DEFINE f == [e \in listed |-> <<list[e[1]], e[2]>>]
  <2>1. IsFiniteSet(all) /\ Cardinality(all) \in Nat
    <3>1. SizeOf(assets) \in [assets -> Nat]
      BY DEF SizeOf
    <3> QED BY <3>1, BytesFinite
  <2>2. IsFiniteSet(listed)
    <3>1. IsFiniteSet(S) /\ S \in SUBSET S
      BY FS_Interval
    <3> HIDE DEF w, S
    <3> QED BY <1>2, <3>1, BytesFinite
  <2>3. \A e \in listed : /\ e = <<e[1], e[2]>> /\ e[1] \in S
                          /\ e[2] \in 1..list[e[1]].size /\ e[2] \in Nat
    BY <1>2 DEF Bytes
  <2>4. \A e \in listed : f[e] \in all
    BY <1>1, <2>3 DEF Bytes, SizeOf
  <2>5. \A d, e \in listed : f[d] = f[e] => d = e
    <3> SUFFICES ASSUME NEW d \in listed, NEW e \in listed, f[d] = f[e]
                 PROVE  d = e
      OBVIOUS
    <3>1. list[d[1]] = list[e[1]] /\ d[2] = e[2]
      OBVIOUS
    <3>2. d[1] = e[1]
      BY <2>3, <3>1 DEF Bijection, Injection, IsInjective
    <3> QED BY <2>3, <3>1, <3>2
  <2>6. \A b \in all : \E e \in listed : f[e] = b
    <3> SUFFICES ASSUME NEW b \in all PROVE \E e \in listed : f[e] = b
      OBVIOUS
    <3>1. /\ b = <<b[1], b[2]>> /\ b[1] \in assets
          /\ b[2] \in 1..b[1].size /\ b[2] \in Nat
      BY DEF Bytes, SizeOf
    <3>2. PICK k \in S : list[k] = b[1]
      BY <3>1 DEF Bijection, Surjection
    <3>3. <<k, b[2]>> \in listed
      BY <1>2, <3>1, <3>2 DEF Bytes
    <3>4. f[<<k, b[2]>>] = b
      BY <3>1, <3>2, <3>3
    <3> QED BY <3>3, <3>4
  <2> HIDE DEF listed, all
  <2>7. f \in Bijection(listed, all)
    BY <2>4, <2>5, <2>6 DEF Bijection, Injection, Surjection, IsInjective
  <2> HIDE DEF f
  <2>8. Cardinality(listed) = Cardinality(all)
    BY <2>2, <2>7, FS_Bijection DEF ExistsBijection
  <2> QED BY <2>1, <2>2, <2>8 DEF TotalSize, all
<1>5. ASSUME NEW n \in 1..size
      PROVE  /\ SizesUpTo(r, n - 1) \in Nat
             /\ SizesUpTo(r, n - 1) + list[n].size <= TotalSize(assets)
  <2>1. n - 1 \in 0..size /\ n \in S /\ (1..n) \ {n} = 1..(n - 1)
        /\ 1..n \subseteq S /\ 1..(n - 1) \subseteq S
    OBVIOUS
  <2>2. IsFiniteSet(S)
    BY FS_Interval
  <2>3. /\ IsFiniteSet(Bytes(w, 1..(n - 1))) /\ Cardinality(Bytes(w, 1..(n - 1))) \in Nat
        /\ IsFiniteSet(Bytes(w, 1..n)) /\ Cardinality(Bytes(w, 1..n)) \in Nat
    BY <1>2, <2>1, <2>2, BytesFinite
  <2>4. Cardinality(Bytes(w, 1..n)) = w[n] + Cardinality(Bytes(w, 1..(n - 1)))
    <3> DEFINE first == 1..n
               before == 1..(n - 1)
    <3>1. n \in first /\ first \in SUBSET S /\ first \ {n} = before
      BY <2>1
    <3>2. IsFiniteSet(Bytes(w, before)) /\ w \in [S -> Nat]
      BY <1>2, <2>3
    <3> HIDE DEF w, S, first, before
    <3>3. IsFiniteSet(Bytes(w, first \ {n}))
      BY <3>1, <3>2
    <3>4. Cardinality(Bytes(w, first)) = w[n] + Cardinality(Bytes(w, first \ {n}))
      <4>1. ASSUME NEW s \in SUBSET S, NEW x \in s, IsFiniteSet(Bytes(w, s \ {x}))
            PROVE  Cardinality(Bytes(w, s)) = w[x] + Cardinality(Bytes(w, s \ {x}))
        BY <3>2, <4>1, BytesWithout
      <4> QED BY <3>1, <3>3, <4>1
    <3>5. Cardinality(Bytes(w, first)) = w[n] + Cardinality(Bytes(w, before))
      BY <3>1, <3>4
    <3> QED BY <3>5 DEF first, before
  <2>5. Cardinality(Bytes(w, 1..n)) <= Cardinality(listed)
    <3>1. Bytes(w, 1..n) \subseteq listed
      BY <2>1 DEF Bytes
    <3> QED BY <1>4, <3>1, FS_Subset
  <2>6. SizesUpTo(r, n - 1) = Cardinality(Bytes(w, 1..(n - 1)))
    BY <1>3, <2>1
  <2> HIDE DEF w, listed
  <2>7. w[n] = list[n].size /\ w[n] \in Nat
    BY <1>2, <2>1
  <2> QED BY <1>4, <2>3, <2>4, <2>5, <2>6, <2>7
<1>6. SizesUpTo(r, size) = TotalSize(assets)
  BY <1>3, <1>4
<1> QED BY <1>4, <1>5, <1>6

(* A further asset adds its size.                                           *)
LEMMA OneMoreSize ==
  ASSUME NEW assets, IsFiniteSet(assets), \A a \in assets : a.size \in Nat,
         NEW asset, asset.size \in Nat, asset \notin assets
  PROVE  /\ TotalSize(assets \cup {asset}) = TotalSize(assets) + asset.size
         /\ TotalSize(assets) \in Nat
<1> DEFINE S == assets \cup {asset}
           w == SizeOf(S)
<1>1. w \in [S -> Nat] /\ w[asset] = asset.size /\ IsFiniteSet(S)
  BY FS_AddElement DEF SizeOf
<1>2. S \ {asset} = assets /\ asset \in S /\ assets \in SUBSET S /\ S \in SUBSET S
  OBVIOUS
<1>3. Bytes(w, assets) = Bytes(SizeOf(assets), assets)
  BY DEF Bytes, SizeOf
<1>4. TotalSize(S) = Cardinality(Bytes(w, S)) /\ TotalSize(assets) = Cardinality(Bytes(w, assets))
  BY <1>3 DEF TotalSize
<1> HIDE DEF S, w
<1>5. IsFiniteSet(Bytes(w, assets)) /\ Cardinality(Bytes(w, assets)) \in Nat
  BY <1>1, <1>2, BytesFinite
<1>6. ASSUME NEW s \in SUBSET S, NEW x \in s, IsFiniteSet(Bytes(w, s \ {x}))
      PROVE  Cardinality(Bytes(w, s)) = w[x] + Cardinality(Bytes(w, s \ {x}))
  BY <1>1, <1>6, BytesWithout
<1>7. TotalSize(S) = TotalSize(assets) + asset.size
  BY <1>1, <1>2, <1>4, <1>5, <1>6
<1> QED BY <1>4, <1>5, <1>7 DEF S

-----------------------------------------------------------------------------
(* The registry.  Its redundant fields agree with its assets, and it never  *)
(* holds more than a manifest may describe.                                 *)
RegistryGood(reg) ==
  /\ IsFiniteSet(reg.assets)
  /\ reg.assets \subseteq AssetDescriptions
  /\ \A asset \in reg.assets : IsAssetDescriptionValid(asset)
  /\ \A a, b \in reg.assets : a.id = b.id \/ a.name = b.name => a = b
  /\ reg.names = {asset.name : asset \in reg.assets}
  /\ Cardinality(reg.assets) <= MaximumAssets
  /\ reg.total = TotalSize(reg.assets)
  /\ reg.total \in 0..MaximumTotalSize
  /\ reg.revision \in 1..(WordSize - 1)

(* Revisions advance until they cannot.                                     *)
Advanced(old, new) ==
  /\ old.revision <= new.revision
  /\ new.revision = old.revision => new.revision = WordSize - 1

LEMMA RevisionAdvances ==
  ASSUME NEW revision \in 1..(WordSize - 1)
  PROVE  /\ AdvanceRevision(revision) \in 1..(WordSize - 1)
         /\ revision <= AdvanceRevision(revision)
         /\ AdvanceRevision(revision) = revision => revision = WordSize - 1
BY LimitsAssumption DEF AdvanceRevision

(* Within a word, addition and subtraction do not wrap.                     *)
LEMMA WithinWord ==
  ASSUME NEW x \in Nat, x < WordSize
  PROVE  x % WordSize = x
BY LimitsAssumption

(* A registry starts good.                                                  *)
LEMMA EmptyRegistryGood == RegistryGood(EmptyRegistry)
<1>1. Bytes(SizeOf({}), {}) = {}
  BY DEF Bytes
<1>2. TotalSize({}) = 0 /\ IsFiniteSet({}) /\ Cardinality({}) = 0
  BY <1>1, FS_EmptySet DEF TotalSize
<1> QED BY <1>2, LimitsAssumption DEF RegistryGood, EmptyRegistry

(* RegisterAsset refuses whatever would break it.                           *)
LEMMA RegisterKeepsGood ==
  ASSUME NEW reg, RegistryGood(reg), NEW asset \in AssetDescriptions,
         RegisterResult(reg, asset) = "Added"
  PROVE  RegistryGood(AfterRegister(reg, asset)) /\ Advanced(reg, AfterRegister(reg, asset))
<1> DEFINE after == AfterRegister(reg, asset)
<1>1. /\ IsAssetDescriptionValid(asset)
      /\ asset.id \notin Ids(reg.assets)
      /\ asset.name \notin reg.names
      /\ ~(Cardinality(reg.assets) >= MaximumAssets)
      /\ ~(asset.size > Minus(MaximumTotalSize, reg.total))
  BY DEF RegisterResult
<1>2. asset.size \in Nat /\ \A a \in reg.assets : a.size \in Nat
  BY DEF RegistryGood, AssetDescriptions
<1>3. \A a \in reg.assets : a.id # asset.id /\ a.name # asset.name
  BY <1>1 DEF RegistryGood, Ids
<1>4. asset \notin reg.assets
  BY <1>3
<1>5. /\ IsFiniteSet(reg.assets \cup {asset})
      /\ Cardinality(reg.assets \cup {asset}) = Cardinality(reg.assets) + 1
      /\ Cardinality(reg.assets) \in Nat
  BY <1>4, FS_AddElement, FS_CardinalityType DEF RegistryGood
<1>6. /\ reg.total \in Nat /\ reg.total <= MaximumTotalSize
      /\ MaximumTotalSize < WordSize /\ MaximumTotalSize \in Nat /\ WordSize \in Nat
  BY LimitsAssumption DEF RegistryGood
<1>7. Minus(MaximumTotalSize, reg.total) = MaximumTotalSize - reg.total
  <2>1. MaximumTotalSize - reg.total \in Nat /\ MaximumTotalSize - reg.total < WordSize
    BY <1>6
  <2> QED BY <2>1, WithinWord DEF Minus
<1>8. reg.total + asset.size \in 0..MaximumTotalSize
  BY <1>1, <1>2, <1>6, <1>7
<1>9. (reg.total + asset.size) % WordSize = reg.total + asset.size
  BY <1>6, <1>8, WithinWord
<1>10. after.total = TotalSize(reg.assets \cup {asset}) /\ after.total \in 0..MaximumTotalSize
  BY <1>2, <1>4, <1>8, <1>9, OneMoreSize DEF AfterRegister, RegistryGood
<1>11. /\ after.assets = reg.assets \cup {asset}
       /\ after.names = reg.names \cup {asset.name}
       /\ after.revision = AdvanceRevision(reg.revision)
  BY DEF AfterRegister
<1>12. after.revision \in 1..(WordSize - 1) /\ Advanced(reg, after)
  BY <1>11, RevisionAdvances DEF RegistryGood, Advanced
<1> HIDE DEF after
<1>13. Cardinality(after.assets) <= MaximumAssets
  BY <1>1, <1>5, <1>11, LimitsAssumption
<1>14. after.names = {a.name : a \in after.assets}
  BY <1>11 DEF RegistryGood
<1>15. /\ \A a \in after.assets : IsAssetDescriptionValid(a)
       /\ \A a, b \in after.assets : a.id = b.id \/ a.name = b.name => a = b
  BY <1>1, <1>3, <1>11 DEF RegistryGood
<1>16. RegistryGood(after)
  BY <1>5, <1>10, <1>11, <1>12, <1>13, <1>14, <1>15 DEF RegistryGood
<1> QED BY <1>12, <1>16 DEF after

(* RemoveAsset takes an asset out of every field.                           *)
LEMMA RemoveKeepsGood ==
  ASSUME NEW reg, RegistryGood(reg), NEW asset \in reg.assets
  PROVE  RegistryGood(AfterRemove(reg, asset)) /\ Advanced(reg, AfterRemove(reg, asset))
<1> DEFINE after == AfterRemove(reg, asset)
           rest == reg.assets \ {asset}
<1>1. asset.size \in Nat /\ \A a \in rest : a.size \in Nat
  BY DEF RegistryGood, AssetDescriptions
<1>2. /\ IsFiniteSet(rest) /\ Cardinality(rest) = Cardinality(reg.assets) - 1
      /\ Cardinality(reg.assets) \in Nat
  BY FS_RemoveElement, FS_CardinalityType DEF RegistryGood
<1>3. reg.total = TotalSize(rest) + asset.size /\ TotalSize(rest) \in Nat
  <2>1. rest \cup {asset} = reg.assets /\ asset \notin rest
    OBVIOUS
  <2> HIDE DEF rest
  <2> QED BY <1>1, <1>2, <2>1, OneMoreSize DEF RegistryGood
<1>4. /\ reg.total \in Nat /\ reg.total <= MaximumTotalSize
      /\ MaximumTotalSize < WordSize /\ MaximumTotalSize \in Nat /\ WordSize \in Nat
  BY LimitsAssumption DEF RegistryGood
<1>5. Minus(reg.total, asset.size) = TotalSize(rest)
  <2>1. reg.total - asset.size = TotalSize(rest) /\ TotalSize(rest) < WordSize
    BY <1>1, <1>3, <1>4
  <2> QED BY <1>3, <2>1, WithinWord DEF Minus
<1>6. /\ after.assets = rest
      /\ after.names = reg.names \ {asset.name}
      /\ after.total = TotalSize(rest)
      /\ after.revision = AdvanceRevision(reg.revision)
  BY <1>5 DEF AfterRemove
<1>7. after.total \in 0..MaximumTotalSize
  BY <1>1, <1>3, <1>4, <1>6
<1>8. after.revision \in 1..(WordSize - 1) /\ Advanced(reg, after)
  BY <1>6, RevisionAdvances DEF RegistryGood, Advanced
<1> HIDE DEF after
<1>9. after.names = {a.name : a \in after.assets}
  <2>1. \A a \in rest : a.name # asset.name
    BY DEF RegistryGood
  <2> QED BY <1>6, <2>1 DEF RegistryGood
<1>10. Cardinality(after.assets) <= MaximumAssets
  BY <1>2, <1>6, LimitsAssumption DEF RegistryGood
<1>11. RegistryGood(after)
  BY <1>2, <1>6, <1>7, <1>8, <1>9, <1>10 DEF RegistryGood
<1> QED BY <1>8, <1>11 DEF after

(* Clear keeps the revision going.                                          *)
LEMMA ClearKeepsGood ==
  ASSUME NEW reg, RegistryGood(reg)
  PROVE  LET after == [EmptyRegistry EXCEPT !.revision = AdvanceRevision(reg.revision)] IN
         RegistryGood(after) /\ Advanced(reg, after)
<1> DEFINE after == [EmptyRegistry EXCEPT !.revision = AdvanceRevision(reg.revision)]
<1>1. /\ after.assets = {} /\ after.names = {} /\ after.total = 0
      /\ after.revision = AdvanceRevision(reg.revision)
      /\ EmptyRegistry.assets = {} /\ EmptyRegistry.names = {} /\ EmptyRegistry.total = 0
  BY DEF EmptyRegistry
<1>2. after.revision \in 1..(WordSize - 1) /\ Advanced(reg, after)
  BY <1>1, RevisionAdvances DEF RegistryGood, Advanced
<1> HIDE DEF after
<1>3. RegistryGood(after)
  BY <1>1, <1>2, EmptyRegistryGood DEF RegistryGood
<1> QED BY <1>2, <1>3 DEF after

-----------------------------------------------------------------------------
(* The manifest.  An asset's place is one behind the number of the assets   *)
(* with smaller ids, and every place is some asset's.                       *)
Below(assets, asset) == {a \in assets : a.id < asset.id}

LEMMA PlacesAreTaken ==
  ASSUME NEW assets, IsFiniteSet(assets), \A a \in assets : a.id \in Nat,
         \A a, b \in assets : a.id = b.id => a = b
  PROVE  /\ Cardinality(assets) \in Nat
         /\ [a \in assets |-> Cardinality(Below(assets, a))]
              \in Bijection(assets, 0..(Cardinality(assets) - 1))
<1> DEFINE size == Cardinality(assets)
           places == 0..(size - 1)
           place == [a \in assets |-> Cardinality(Below(assets, a))]
<1>1. size \in Nat
  BY FS_CardinalityType
<1>2. ASSUME NEW S \in SUBSET assets, NEW T \in SUBSET S, T # S
      PROVE  /\ IsFiniteSet(S) /\ IsFiniteSet(T)
             /\ Cardinality(S) \in Nat /\ Cardinality(T) \in Nat
             /\ Cardinality(T) < Cardinality(S)
  <2>1. IsFiniteSet(S)
    BY FS_Subset
  <2>2. IsFiniteSet(T) /\ Cardinality(T) <= Cardinality(S) /\ Cardinality(T) # Cardinality(S)
    BY <1>2, <2>1, FS_Subset
  <2> QED BY <2>1, <2>2, FS_CardinalityType
<1>3. ASSUME NEW a \in assets PROVE place[a] \in places
  <2>1. Below(assets, a) \in SUBSET assets /\ a \notin Below(assets, a)
    BY DEF Below
  <2> QED BY <1>1, <1>2, <2>1
<1>4. ASSUME NEW a \in assets, NEW b \in assets, a.id < b.id
      PROVE  place[a] < place[b]
  <2>1. /\ Below(assets, a) \in SUBSET Below(assets, b)
        /\ Below(assets, b) \in SUBSET assets
        /\ a \in Below(assets, b) /\ a \notin Below(assets, a)
    BY <1>4 DEF Below
  <2> QED BY <1>2, <2>1
<1>5. \A a, b \in assets : place[a] = place[b] => a = b
  <2> SUFFICES ASSUME NEW a \in assets, NEW b \in assets, place[a] = place[b], a # b
               PROVE  FALSE
    OBVIOUS
  <2> HIDE DEF place
  <2>1. a.id < b.id \/ b.id < a.id
    OBVIOUS
  <2>2. place[a] < place[a]
    BY <1>4, <2>1
  <2> QED BY <1>1, <1>3, <2>2
<1>6. IsFiniteSet(places) /\ Cardinality(places) = size
  BY <1>1, FS_Interval
<1>7. place \in Injection(assets, places)
  <2>1. place \in [assets -> places]
    BY <1>3
  <2> HIDE DEF place
  <2> QED BY <1>5, <2>1, Fun_IsInj
<1> HIDE DEF place, places
<1>8. place \in Surjection(assets, places)
  BY <1>6, <1>7, FS_Injection
<1>9. place \in Bijection(assets, places)
  BY <1>7, <1>8 DEF Bijection
<1> QED BY <1>1, <1>9 DEF place, places

(* So BuildManifest lists every asset once, in the order of their ids.      *)
LEMMA ListedOnce ==
  ASSUME NEW reg, RegistryGood(reg)
  PROVE  /\ Cardinality(reg.assets) \in Nat
         /\ ManifestAssets(reg) \in Bijection(1..Cardinality(reg.assets), reg.assets)
<1> DEFINE size == Cardinality(reg.assets)
           list == ManifestAssets(reg)
           place == [a \in reg.assets |-> Cardinality(Below(reg.assets, a))]
<1>1. size \in Nat /\ place \in Bijection(reg.assets, 0..(size - 1))
  BY PlacesAreTaken DEF RegistryGood, AssetDescriptions
<1>2. list = [n \in 1..size |-> InIdOrder(reg.assets, n)]
  BY DEF ManifestAssets
<1>3. ASSUME NEW n \in 1..size
      PROVE  InIdOrder(reg.assets, n) \in reg.assets /\ place[InIdOrder(reg.assets, n)] = n - 1
  <2>1. PICK chosen \in reg.assets : place[chosen] = n - 1
    <3>1. n - 1 \in 0..(size - 1)
      BY <1>1
    <3>2. \A p \in 0..(size - 1) : \E a \in reg.assets : place[a] = p
      BY <1>1 DEF Bijection, Surjection
    <3> HIDE DEF place
    <3> QED BY <3>1, <3>2
  <2>2. \E a \in reg.assets : Cardinality({b \in reg.assets : b.id < a.id}) = n - 1
    BY <2>1 DEF Below
  <2> QED BY <2>2 DEF InIdOrder, Below
<1>4. \A n \in 1..size : list[n] \in reg.assets /\ place[list[n]] = n - 1
  BY <1>2, <1>3
<1> HIDE DEF list, place, size
<1>5. list \in [1..size -> reg.assets]
  BY <1>2, <1>4
<1>6. \A m, n \in 1..size : list[m] = list[n] => m = n
  <2> SUFFICES ASSUME NEW m \in 1..size, NEW n \in 1..size, list[m] = list[n] PROVE m = n
    OBVIOUS
  <2>1. m - 1 = n - 1
    BY <1>4
  <2> QED BY <1>1, <2>1
<1>7. ASSUME NEW a \in reg.assets PROVE \E n \in 1..size : list[n] = a
  <2>1. place[a] \in 0..(size - 1)
    BY <1>1, Fun_BijectionProperties
  <2>2. place[a] + 1 \in 1..size /\ (place[a] + 1) - 1 = place[a]
    BY <1>1, <2>1
  <2>3. list[place[a] + 1] \in reg.assets /\ place[list[place[a] + 1]] = place[a]
    BY <1>4, <2>2
  <2>4. list[place[a] + 1] = a
    BY <1>1, <2>3, Fun_BijectionProperties
  <2> QED BY <2>2, <2>4
<1>8. list \in Bijection(1..size, reg.assets)
  BY <1>5, <1>6, <1>7, Fun_IsBij
<1> QED BY <1>1, <1>8 DEF list, size
-----------------------------------------------------------------------------
(* Frames.  They have no common type, so a channel is known to be a         *)
(* sequence over some set.                                                  *)
IsSequence(s) == \E S : s \in Seq(S)

(* Two sequences over different sets are sequences over their union.        *)
LEMMA Joined ==
  ASSUME NEW s, IsSequence(s), NEW t, IsSequence(t)
  PROVE  /\ IsSequence(s \o t)
         /\ Len(s) \in Nat /\ Len(t) \in Nat /\ Len(s \o t) = Len(s) + Len(t)
         /\ DOMAIN s = 1..Len(s) /\ DOMAIN t = 1..Len(t)
         /\ DOMAIN (s \o t) = 1..(Len(s) + Len(t))
         /\ \A n \in 1..(Len(s) + Len(t)) :
              (s \o t)[n] = IF n <= Len(s) THEN s[n] ELSE t[n - Len(s)]
<1>1. PICK S : s \in Seq(S)
  BY DEF IsSequence
<1>2. PICK T : t \in Seq(T)
  BY DEF IsSequence
<1>3. s \in Seq(S \cup T) /\ t \in Seq(S \cup T)
  BY <1>1, <1>2
<1>4. s \o t \in Seq(S \cup T)
  BY <1>3
<1> QED BY <1>3, <1>4, ConcatProperties, LenProperties DEF IsSequence

(* A frame alone is a sequence.                                             *)
LEMMA Alone ==
  ASSUME NEW frame
  PROVE  IsSequence(<<frame>>) /\ Len(<<frame>>) = 1 /\ <<frame>>[1] = frame
<1>1. <<frame>> \in Seq({frame})
  OBVIOUS
<1> QED BY <1>1 DEF IsSequence

(* A function on an initial segment of the numbers is a sequence.           *)
LEMMA Numbered ==
  ASSUME NEW size \in Nat, NEW f, f = [n \in 1..size |-> f[n]]
  PROVE  IsSequence(f) /\ Len(f) = size
<1> DEFINE S == {f[n] : n \in 1..size}
<1>1. \A n \in 1..size : f[n] \in S
  OBVIOUS
<1> HIDE DEF S
<1>2. f \in [1..size -> S]
  BY <1>1
<1>3. f \in Seq(S)
  BY <1>2
<1> QED BY <1>2, <1>3, LenProperties DEF IsSequence

(* A run of manifest frames that only its first may open.                   *)
IsStream(frames) ==
  /\ IsSequence(frames)
  /\ \A n \in DOMAIN frames :
       /\ IsManifestMessage(frames[n])
       /\ frames[n].type = "ManifestBegin" <=> n = 1

(* A refused Send leaves an initial part of a stream behind.                *)
LEMMA PartOfStream ==
  ASSUME NEW stream, IsStream(stream), NEW delivered \in 0..Len(stream)
  PROVE  /\ IsStream(SubSeq(stream, 1, delivered))
         /\ Len(SubSeq(stream, 1, delivered)) = delivered
         /\ \A n \in 1..delivered : SubSeq(stream, 1, delivered)[n] = stream[n]
<1> DEFINE sent == SubSeq(stream, 1, delivered)
<1>1. PICK S : stream \in Seq(S)
  BY DEF IsStream, IsSequence
<1>2. /\ Len(stream) \in Nat /\ DOMAIN stream = 1..Len(stream)
      /\ \A n \in 1..Len(stream) : stream[n] \in S
  BY <1>1, LenProperties
<1>3. /\ sent \in Seq(S)
      /\ Len(sent) = delivered
      /\ \A n \in 1..delivered : sent[n] = stream[n]
  <2>1. \A n \in 1..delivered : stream[n] \in S
    BY <1>2
  <2>2. 1 \in Int /\ delivered \in Int
    BY <1>2
  <2>3. /\ sent \in Seq(S)
        /\ Len(sent) = IF 1 <= delivered THEN delivered - 1 + 1 ELSE 0
        /\ \A n \in 1..(delivered - 1 + 1) : sent[n] = stream[1 + n - 1]
    BY <2>1, <2>2, SubSeqProperties
  <2> HIDE DEF sent
  <2> QED BY <1>2, <2>3
<1>4. DOMAIN sent = 1..delivered
  BY <1>3, LenProperties
<1> HIDE DEF sent
<1>5. IsStream(sent) /\ Len(sent) = delivered /\ \A n \in 1..delivered : sent[n] = stream[n]
  BY <1>2, <1>3, <1>4 DEF IsStream, IsSequence
<1> QED BY <1>5 DEF sent

(* BuildManifest's stream is one: its beginning, the assets and its end.    *)
LEMMA StreamShape ==
  ASSUME NEW reg, IsFiniteSet(reg.assets)
  PROVE  LET m == BuildManifest(reg)
             size == Cardinality(reg.assets)
             stream == ManifestStream(m) IN
         /\ size \in Nat /\ Len(m.assets) = size
         /\ IsStream(stream) /\ Len(stream) = size + 2
         /\ stream[1] = ManifestBegin(m)
         /\ \A k \in 1..size : stream[k + 1] = ManifestAsset(m, k - 1)
         /\ stream[size + 2] = ManifestEnd(m)
<1> DEFINE m == BuildManifest(reg)
           size == Cardinality(reg.assets)
           begin == ManifestBegin(m)
           end == ManifestEnd(m)
           middle == [n \in 1..size |-> ManifestAsset(m, n - 1)]
           front == <<begin>> \o middle
           stream == ManifestStream(m)
<1>1. size \in Nat
  BY FS_CardinalityType
<1>2. m.assets = ManifestAssets(reg)
  BY DEF BuildManifest
<1>3. Len(m.assets) = size
  <2> DEFINE assets == ManifestAssets(reg)
  <2>1. assets = [n \in 1..size |-> assets[n]]
    BY DEF ManifestAssets
  <2> HIDE DEF assets, size
  <2> QED BY <1>1, <1>2, <2>1, Numbered DEF assets
<1> HIDE DEF size
<1>4. stream = front \o <<end>>
  BY <1>3 DEF ManifestStream
<1>5. middle = [n \in 1..size |-> middle[n]]
  OBVIOUS
<1>6. /\ begin.type = "ManifestBegin"
      /\ end.type = "ManifestEnd"
      /\ \A n \in 1..size : middle[n].type = "ManifestAsset"
  BY DEF ManifestBegin, ManifestAsset, ManifestEnd
<1> HIDE DEF m, begin, end, middle
<1>7. IsSequence(middle) /\ Len(middle) = size
  BY <1>1, <1>5, Numbered
<1>8. /\ IsSequence(front) /\ Len(front) = size + 1
      /\ \A n \in 1..(size + 1) :
           front[n] = IF n <= 1 THEN <<begin>>[n] ELSE middle[n - 1]
  <2>1. IsSequence(<<begin>>) /\ Len(<<begin>>) = 1
    BY Alone
  <2>2. /\ IsSequence(front) /\ Len(front) = 1 + Len(middle)
        /\ \A n \in 1..(1 + Len(middle)) :
             front[n] = IF n <= 1 THEN <<begin>>[n] ELSE middle[n - 1]
    BY <1>7, <2>1, Joined
  <2> HIDE DEF front
  <2> QED BY <1>1, <1>7, <2>2
<1> HIDE DEF front
<1>9. /\ IsSequence(stream) /\ Len(stream) = size + 2
      /\ \A n \in 1..(size + 2) :
           stream[n] = IF n <= size + 1 THEN front[n] ELSE <<end>>[n - (size + 1)]
  <2>1. IsSequence(<<end>>) /\ Len(<<end>>) = 1
    BY Alone
  <2> HIDE DEF stream, end
  <2>2. /\ IsSequence(stream) /\ Len(stream) = Len(front) + 1
        /\ \A n \in 1..(Len(front) + 1) :
             stream[n] = IF n <= Len(front) THEN front[n] ELSE <<end>>[n - Len(front)]
    BY <1>4, <1>8, <2>1, Joined
  <2> QED BY <1>1, <1>8, <2>2
<1> HIDE DEF stream
<1>10. stream[1] = begin
  <2>1. stream[1] = front[1]
    BY <1>1, <1>9
  <2>2. front[1] = <<begin>>[1]
    BY <1>1, <1>8
  <2> QED BY <2>1, <2>2, Alone
<1>11. \A k \in 1..size : stream[k + 1] = middle[k]
  BY <1>1, <1>8, <1>9
<1>12. stream[size + 2] = end
  BY <1>1, <1>9, Alone
<1>13. ASSUME NEW n \in 1..(size + 2)
       PROVE  IsManifestMessage(stream[n]) /\ (stream[n].type = "ManifestBegin" <=> n = 1)
  <2>1. CASE n = 1
    BY <1>6, <1>10, <2>1 DEF IsManifestMessage
  <2>2. CASE n \in 2..(size + 1)
    <3>1. n - 1 \in 1..size /\ (n - 1) + 1 = n /\ n # 1
      BY <1>1, <2>2
    <3>2. stream[n] = middle[n - 1]
      BY <1>11, <3>1
    <3> QED BY <1>6, <3>1, <3>2 DEF IsManifestMessage
  <2>3. CASE n = size + 2
    <3>1. n # 1
      BY <1>1, <2>3
    <3> QED BY <1>6, <1>12, <2>3, <3>1 DEF IsManifestMessage
  <2> QED BY <1>1, <2>1, <2>2, <2>3
<1>14. DOMAIN stream = 1..(size + 2)
  BY <1>9, LenProperties DEF IsSequence
<1>15. IsStream(stream)
  BY <1>9, <1>13, <1>14 DEF IsStream
<1>16. \A k \in 1..size : stream[k + 1] = ManifestAsset(m, k - 1)
  BY <1>11 DEF middle
<1> QED BY <1>1, <1>3, <1>9, <1>10, <1>12, <1>15, <1>16 DEF stream, m, size, begin, end

-----------------------------------------------------------------------------
(* The receiver.  What it has after the first k messages of the stream of m. *)
First(m, n) == [k \in 1..n |-> m.assets[k]]

ReceiverAfter(m, k) ==
  IF k = 0 THEN IdleReceiver
  ELSE [state    |-> IF k = Len(m.assets) + 2 THEN "Complete" ELSE "Receiving",
        revision |-> m.revision,
        total    |-> m.total,
        expected |-> Len(m.assets),
        assets   |-> IF k = Len(m.assets) + 2 THEN m.assets ELSE First(m, k - 1)]

(* It takes the beginning of a good registry's manifest.                    *)
LEMMA BeginTaken ==
  ASSUME NEW reg, RegistryGood(reg)
  PROVE  LET m == BuildManifest(reg) IN
         /\ HandleResult(ReceiverAfter(m, 0), ManifestBegin(m)) = "Accepted"
         /\ AfterHandle(ReceiverAfter(m, 0), ManifestBegin(m)) = ReceiverAfter(m, 1)
<1> DEFINE m == BuildManifest(reg)
           size == Cardinality(reg.assets)
           begin == ManifestBegin(m)
<1>1. size \in Nat /\ Len(m.assets) = size
  BY StreamShape DEF RegistryGood
<1>2. m.revision = reg.revision /\ m.total = reg.total
  BY DEF BuildManifest
<1> HIDE DEF m
<1>3. size = 0 => m.total = 0
  <2> SUFFICES ASSUME size = 0 PROVE m.total = 0
    OBVIOUS
  <2>1. reg.assets = {}
    BY FS_EmptySet DEF RegistryGood
  <2>2. Bytes(SizeOf({}), {}) = {}
    BY DEF Bytes
  <2> QED BY <1>2, <2>1, <2>2, FS_EmptySet DEF RegistryGood, TotalSize
<1>4. BeginValid(begin)
  <2>1. m.revision # 0 /\ m.total <= MaximumTotalSize /\ size <= MaximumAssets
    BY <1>2, LimitsAssumption DEF RegistryGood
  <2> QED BY <1>1, <1>3, <2>1 DEF BeginValid, ManifestBegin
<1>5. /\ HandleResult(IdleReceiver, begin) = "Accepted"
      /\ begin.type = "ManifestBegin"
  BY <1>4 DEF HandleResult, BeginInOrder, IdleReceiver, ManifestBegin
<1>6. AfterHandle(IdleReceiver, begin)
        = [state |-> "Receiving", revision |-> m.revision, total |-> m.total,
           expected |-> Len(m.assets), assets |-> <<>>]
  BY <1>5 DEF AfterHandle, ManifestBegin
<1>7. First(m, 0) = <<>>
  BY DEF First
<1>8. ReceiverAfter(m, 0) = IdleReceiver
  BY DEF ReceiverAfter
<1>9. ReceiverAfter(m, 1)
        = [state |-> "Receiving", revision |-> m.revision, total |-> m.total,
           expected |-> Len(m.assets), assets |-> <<>>]
  BY <1>1, <1>7 DEF ReceiverAfter
<1> QED BY <1>5, <1>6, <1>8, <1>9 DEF m

(* One more entry at the end of a list.                                     *)
LEMMA Extended ==
  ASSUME NEW S, NEW f, NEW k \in Nat, k > 0, \A n \in 1..k : f[n] \in S
  PROVE  Append([n \in 1..(k - 1) |-> f[n]], f[k]) = [n \in 1..k |-> f[n]]
<1> SUFFICES ASSUME NEW last \in S, last = f[k]
             PROVE  Append([n \in 1..(k - 1) |-> f[n]], last) = [n \in 1..k |-> f[n]]
  OBVIOUS
<1> DEFINE s == [n \in 1..(k - 1) |-> f[n]]
           longer == Append(s, last)
<1>1. s \in Seq(S) /\ Len(s) = k - 1 /\ \A n \in 1..(k - 1) : s[n] = f[n]
  <2>1. s \in [1..(k - 1) -> S]
    OBVIOUS
  <2>2. s \in Seq(S) /\ DOMAIN s = 1..(k - 1)
    BY <2>1
  <2>3. Len(s) = k - 1
    <3> HIDE DEF s
    <3> QED BY <2>2, LenProperties
  <2> QED BY <2>2, <2>3
<1> HIDE DEF s
<1>2. /\ longer \in Seq(S) /\ Len(longer) = Len(s) + 1
      /\ \A n \in 1..Len(s) : longer[n] = s[n]
      /\ longer[Len(s) + 1] = last
  BY <1>1, AppendProperties
<1> HIDE DEF longer
<1>3. DOMAIN longer = 1..k /\ longer = [n \in DOMAIN longer |-> longer[n]]
  BY <1>1, <1>2, LenProperties
<1>4. \A n \in 1..k : longer[n] = f[n]
  <2>1. \A n \in 1..(k - 1) : longer[n] = f[n]
    BY <1>1, <1>2
  <2>2. longer[k] = f[k]
    BY <1>1, <1>2
  <2> QED BY <2>1, <2>2
<1>5. longer = [n \in 1..k |-> f[n]]
  BY <1>3, <1>4
<1> QED BY <1>5 DEF longer, s

(* It takes the next asset.                                                 *)
LEMMA AssetTaken ==
  ASSUME NEW reg, RegistryGood(reg), NEW k \in 1..Cardinality(reg.assets)
  PROVE  LET m == BuildManifest(reg) IN
         /\ HandleResult(ReceiverAfter(m, k), ManifestAsset(m, k - 1)) = "Accepted"
         /\ AfterHandle(ReceiverAfter(m, k), ManifestAsset(m, k - 1)) = ReceiverAfter(m, k + 1)
<1> DEFINE m == BuildManifest(reg)
           size == Cardinality(reg.assets)
           message == ManifestAsset(m, k - 1)
           r == ReceiverAfter(m, k)
<1>1. size \in Nat /\ Len(m.assets) = size
  BY StreamShape DEF RegistryGood
<1>2. m.assets \in Bijection(1..size, reg.assets)
  BY ListedOnce DEF BuildManifest
<1> HIDE DEF m, size
<1>3. /\ k \in Nat /\ k > 0 /\ k <= size /\ k - 1 \in Nat /\ (k - 1) + 1 = k
  BY <1>1 DEF size
<1>4. /\ \A n \in 1..size : m.assets[n] \in reg.assets
      /\ \A n, l \in 1..size : m.assets[n] = m.assets[l] => n = l
  BY <1>2 DEF Bijection, Injection, IsInjective
<1>5. r = [state |-> "Receiving", revision |-> m.revision, total |-> m.total,
           expected |-> size, assets |-> First(m, k - 1)]
  BY <1>1, <1>3 DEF ReceiverAfter
<1>6. message = [type |-> "ManifestAsset", revision |-> m.revision,
                 index |-> k - 1, asset |-> m.assets[k]]
  BY <1>3 DEF ManifestAsset
<1>7. /\ First(m, k - 1) \in Seq(reg.assets)
      /\ Len(First(m, k - 1)) = k - 1
      /\ DOMAIN First(m, k - 1) = 1..(k - 1)
      /\ \A n \in 1..(k - 1) : First(m, k - 1)[n] = m.assets[n]
  <2>1. First(m, k - 1) \in [1..(k - 1) -> reg.assets]
    <3>1. \A n \in 1..(k - 1) : m.assets[n] \in reg.assets
      BY <1>1, <1>3, <1>4
    <3> QED BY <3>1 DEF First
  <2>2. First(m, k - 1) \in Seq(reg.assets)
    BY <1>3, <2>1
  <2>3. Len(First(m, k - 1)) = k - 1
    BY <1>3, <2>1, <2>2, LenProperties
  <2> QED BY <2>1, <2>2, <2>3 DEF First
<1> HIDE DEF message, r
<1>8. AssetInOrder(r, message)
  BY <1>1, <1>3, <1>5, <1>6, <1>7 DEF AssetInOrder
<1>9. AssetAcceptable(r, m.assets[k])
  <2>1. k \in 1..size /\ m.assets[k] \in reg.assets
    BY <1>3, <1>4
  <2>2. ASSUME NEW n \in 1..(k - 1)
        PROVE  m.assets[n].id # m.assets[k].id /\ m.assets[n].name # m.assets[k].name
    <3>1. n \in 1..size /\ n # k
      BY <1>1, <1>3
    <3> QED BY <1>4, <2>1, <3>1 DEF RegistryGood
  <2>3. IsAssetDescriptionValid(m.assets[k])
    BY <2>1 DEF RegistryGood
  <2> QED BY <1>5, <1>7, <2>2, <2>3 DEF AssetAcceptable
<1>10. HandleResult(r, message) = "Accepted" /\ message.type = "ManifestAsset"
       /\ message.asset = m.assets[k]
  BY <1>6, <1>8, <1>9 DEF HandleResult
<1>11. AfterHandle(r, message) = [r EXCEPT !.assets = Append(@, m.assets[k])]
  BY <1>10 DEF AfterHandle
<1>12. Append(First(m, k - 1), m.assets[k]) = First(m, k)
  <2>1. \A n \in 1..k : m.assets[n] \in reg.assets
    BY <1>1, <1>3, <1>4
  <2> QED BY <1>3, <2>1, Extended DEF First
<1>13. ReceiverAfter(m, k + 1)
         = [state |-> "Receiving", revision |-> m.revision, total |-> m.total,
            expected |-> size, assets |-> First(m, k)]
  BY <1>1, <1>3 DEF ReceiverAfter
<1>14. AfterHandle(r, message) = ReceiverAfter(m, k + 1)
  BY <1>5, <1>11, <1>12, <1>13
<1> QED BY <1>10, <1>14 DEF m, r, message

(* And it completes at the end: the totals agree and no sum passes the      *)
(* limit on the way.                                                        *)
LEMMA EndTaken ==
  ASSUME NEW reg, RegistryGood(reg)
  PROVE  LET m == BuildManifest(reg)
             k == Cardinality(reg.assets) + 1 IN
         /\ HandleResult(ReceiverAfter(m, k), ManifestEnd(m)) = "Complete"
         /\ AfterHandle(ReceiverAfter(m, k), ManifestEnd(m)) = ReceiverAfter(m, k + 1)
<1> DEFINE m == BuildManifest(reg)
           size == Cardinality(reg.assets)
           message == ManifestEnd(m)
           r == ReceiverAfter(m, size + 1)
<1>1. size \in Nat /\ Len(m.assets) = size
  BY StreamShape DEF RegistryGood
<1>2. /\ m.assets \in Bijection(1..size, reg.assets)
      /\ m.total = reg.total
  BY ListedOnce DEF BuildManifest
<1> HIDE DEF m
<1>3. First(m, size) = m.assets /\ DOMAIN m.assets = 1..size
      /\ \A n \in 1..size : m.assets[n] \in reg.assets
  <2>1. m.assets \in [1..size -> reg.assets]
    BY <1>2, Fun_BijectionProperties
  <2> QED BY <2>1 DEF First
<1>4. r = [state |-> "Receiving", revision |-> m.revision, total |-> m.total,
           expected |-> size, assets |-> m.assets]
  BY <1>1, <1>3 DEF ReceiverAfter
<1>5. message = [type |-> "ManifestEnd", revision |-> m.revision,
                 count |-> size, total |-> m.total]
  BY <1>1 DEF ManifestEnd
<1> HIDE DEF r, message
<1>6. EndInOrder(r, message)
  BY <1>1, <1>4, <1>5 DEF EndInOrder
<1>7. EndTotalsMatch(r)
  <2>1. \A a \in reg.assets : a.size \in Nat
    BY DEF RegistryGood, AssetDescriptions
  <2>2. /\ SizesUpTo(r, size) = TotalSize(reg.assets)
        /\ TotalSize(reg.assets) \in Nat
        /\ \A n \in 1..size :
             /\ SizesUpTo(r, n - 1) \in Nat
             /\ SizesUpTo(r, n - 1) + m.assets[n].size <= TotalSize(reg.assets)
    <3>1. r.assets = m.assets /\ IsFiniteSet(reg.assets)
      BY <1>4 DEF RegistryGood
    <3> QED BY <1>1, <1>2, <2>1, <3>1, ListedSizes
  <2>3. ASSUME NEW n \in 1..size
        PROVE  m.assets[n].size <= Minus(MaximumTotalSize, SizesUpTo(r, n - 1))
    <3> DEFINE past == SizesUpTo(r, n - 1)
               own == m.assets[n].size
    <3>1. past \in Nat /\ own \in Nat /\ past + own <= MaximumTotalSize
          /\ MaximumTotalSize < WordSize /\ MaximumTotalSize \in Nat /\ WordSize \in Nat
      <4>1. own \in Nat /\ past \in Nat /\ past + own <= TotalSize(reg.assets)
        BY <1>3, <2>1, <2>2
      <4>2. TotalSize(reg.assets) <= MaximumTotalSize
        BY DEF RegistryGood
      <4> HIDE DEF past, own
      <4> QED BY <2>2, <4>1, <4>2, LimitsAssumption
    <3> HIDE DEF past, own
    <3>2. MaximumTotalSize - past \in Nat /\ MaximumTotalSize - past < WordSize
      BY <3>1
    <3>3. Minus(MaximumTotalSize, past) = MaximumTotalSize - past
      BY <3>2, WithinWord DEF Minus
    <3>4. own <= Minus(MaximumTotalSize, past)
      BY <3>1, <3>3
    <3> QED BY <3>4 DEF past, own
  <2>4. SizesUpTo(r, Len(r.assets)) = r.total
    BY <1>1, <1>2, <1>4, <2>2 DEF RegistryGood
  <2> QED BY <1>3, <1>4, <2>3, <2>4 DEF EndTotalsMatch
<1>8. HandleResult(r, message) = "Complete"
  BY <1>5, <1>6, <1>7 DEF HandleResult
<1>9. AfterHandle(r, message) = [r EXCEPT !.state = "Complete"]
  BY <1>8 DEF AfterHandle
<1>10. ReceiverAfter(m, size + 1 + 1)
         = [state |-> "Complete", revision |-> m.revision, total |-> m.total,
            expected |-> size, assets |-> m.assets]
  BY <1>1 DEF ReceiverAfter
<1>11. AfterHandle(r, message) = ReceiverAfter(m, size + 1 + 1)
  BY <1>4, <1>9, <1>10
<1> QED BY <1>8, <1>11 DEF m, r, message

(* So no message of the stream is ever refused.                             *)
LEMMA StreamTaken ==
  ASSUME NEW reg, RegistryGood(reg), NEW k \in 0..(Cardinality(reg.assets) + 1)
  PROVE  LET m == BuildManifest(reg)
             message == ManifestStream(m)[k + 1] IN
         /\ HandleResult(ReceiverAfter(m, k), message)
              = IF k = Cardinality(reg.assets) + 1 THEN "Complete" ELSE "Accepted"
         /\ AfterHandle(ReceiverAfter(m, k), message) = ReceiverAfter(m, k + 1)
<1> DEFINE m == BuildManifest(reg)
           size == Cardinality(reg.assets)
<1>1. /\ size \in Nat
      /\ ManifestStream(m)[1] = ManifestBegin(m)
      /\ \A n \in 1..size : ManifestStream(m)[n + 1] = ManifestAsset(m, n - 1)
      /\ ManifestStream(m)[size + 2] = ManifestEnd(m)
  BY StreamShape DEF RegistryGood
<1> HIDE DEF m
<1>2. CASE k = 0
  BY <1>1, <1>2, BeginTaken DEF m
<1>3. CASE k \in 1..size
  BY <1>1, <1>3, AssetTaken DEF m
<1>4. CASE k = size + 1
  <2>1. ManifestStream(m)[k + 1] = ManifestEnd(m)
    BY <1>1, <1>4
  <2> QED BY <1>4, <2>1, EndTaken DEF m
<1> QED BY <1>1, <1>2, <1>3, <1>4
=============================================================================
