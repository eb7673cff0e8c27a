----------------------- MODULE ResourceClassesProofs ------------------------
(***************************************************************************)
(* What the operators of ResourceClasses return, for any pools and any     *)
(* request.  The loops are proved by induction over the classes and pools  *)
(* seen so far: what they keep is the best of those.                       *)
(***************************************************************************)
EXTENDS ResourceClasses, Induction

-----------------------------------------------------------------------------
(***************************************************************************)
(* find_acceptable_class.                                                  *)
(***************************************************************************)

\* The loop over the classes of a pool defines a function.
LEMMA PoolLoopDefined ==
    ASSUME NEW pool, NEW before, NEW asked, NEW m \in Nat
    PROVE  \E best : best = [k \in 0 .. m |->
               IF k = 0 THEN before ELSE Kept(pool, pool.classes[k], best[k - 1], asked)]
<1> DEFINE S == {n \in Nat : \E best : best = [k \in 0 .. n |->
               IF k = 0 THEN before ELSE Kept(pool, pool.classes[k], best[k - 1], asked)]}
<1>1. 0 \in S
  <2> DEFINE best == [k \in 0 .. 0 |-> before]
  <2>1. best = [k \in 0 .. 0 |->
               IF k = 0 THEN before ELSE Kept(pool, pool.classes[k], best[k - 1], asked)]
    OBVIOUS
  <2> QED BY <2>1
<1>2. ASSUME NEW n \in Nat, n \in S PROVE n + 1 \in S
  <2>1. PICK f : f = [k \in 0 .. n |->
               IF k = 0 THEN before ELSE Kept(pool, pool.classes[k], f[k - 1], asked)]
    BY <1>2
  <2> DEFINE g == [k \in 0 .. n + 1 |->
                      IF k = n + 1 THEN Kept(pool, pool.classes[n + 1], f[n], asked) ELSE f[k]]
  <2>2. ASSUME NEW k \in 0 .. n + 1
        PROVE  g[k] = IF k = 0 THEN before ELSE Kept(pool, pool.classes[k], g[k - 1], asked)
    <3>1. CASE k = n + 1
      <4>1. g[k - 1] = f[n]
        BY <3>1
      <4> QED BY <3>1, <4>1
    <3>2. CASE k # n + 1
      <4>1. k \in 0 .. n /\ g[k] = f[k] /\ (k # 0 => g[k - 1] = f[k - 1])
        BY <3>2
      <4>2. f[k] = IF k = 0 THEN before ELSE Kept(pool, pool.classes[k], f[k - 1], asked)
        BY <2>1, <4>1
      <4> QED BY <4>1, <4>2
    <3> QED BY <3>1, <3>2
  <2>3. g = [k \in 0 .. n + 1 |->
               IF k = 0 THEN before ELSE Kept(pool, pool.classes[k], g[k - 1], asked)]
    BY <2>2
  <2> HIDE DEF g
  <2> QED BY <2>3
<1> HIDE DEF S
<1>3. Nat \subseteq S
  BY <1>1, <1>2, SetInduction
<1> QED BY <1>3 DEF S

\* The options of a class have its sizes and its id, and the quota of its pool.
LEMMA CandidateSizes ==
    ASSUME NEW pool, NEW c, IsClass(c)
    PROVE  /\ \A s \in Sizes : /\ Candidate(pool, c)[s] = FromResourceClass(c)[s]
                               /\ FromResourceClass(c)[s] \in Int
           /\ Candidate(pool, c).class = c.id
           /\ Candidate(pool, c).priority = pool.quota
<1> DEFINE o == FromResourceClass(c)
<1>1. /\ o.cpu \in Int /\ o.memory \in Int /\ o.gpu \in Int /\ o.storage \in Int
      /\ o.class = c.id
      /\ DOMAIN o = {"class", "cpu", "memory", "gpu", "storage", "priority", "idle",
                     "hibernation", "affinities"}
  BY GigaAssumption DEF FromResourceClass, IsClass
<1> HIDE DEF o
<1>2. \A s \in Sizes : o[s] \in Int /\ s \in DOMAIN o /\ s # "priority"
  BY <1>1 DEF Sizes
<1> QED BY <1>1, <1>2 DEF Candidate, o

\* The class that is kept is acceptable, and no acceptable one of those that
\* were seen, each with its pool, is smaller in every size.
IsBest(best, seen, asked) ==
    /\ best # Nothing =>
           \E x \in seen : /\ best = Candidate(x[1], x[2])
                           /\ Acceptable(x[1], x[2], asked)
    /\ \A x \in seen : Acceptable(x[1], x[2], asked) =>
           best # Nothing /\ ~ Smaller(Candidate(x[1], x[2]), best)

\* What is seen are classes with their pools.
AreClasses(seen) == \A x \in seen : IsClass(x[2]) /\ Candidate(x[1], x[2]) # Nothing

\* One class more: it is smaller than the one kept, and then than no other
\* that was seen, or the one kept stays.
LEMMA KeptIsBest ==
    ASSUME NEW asked, \A s \in Sizes : asked[s] \in Int,
           NEW best, NEW seen, AreClasses(seen), IsBest(best, seen, asked),
           NEW pool, NEW c, IsClass(c), Candidate(pool, c) # Nothing
    PROVE  IsBest(Kept(pool, c, best, asked), seen \cup {<<pool, c>>}, asked)
<1> DEFINE new == Candidate(pool, c)
           x0 == <<pool, c>>
<1>0. x0[1] = pool /\ x0[2] = c
  OBVIOUS
<1>1. \A s \in Sizes : new[s] \in Int
  BY CandidateSizes
<1>2. ASSUME NEW x \in seen, NEW s \in Sizes PROVE Candidate(x[1], x[2])[s] \in Int
  BY CandidateSizes DEF AreClasses
<1>3. best # Nothing => \A s \in Sizes : best[s] \in Int
  BY <1>2 DEF IsBest
<1>4. ASSUME best # Nothing
      PROVE  Smaller(Diff(new, asked), Diff(best, asked)) <=> Smaller(new, best)
  BY <1>1, <1>3, <1>4 DEF Smaller, Diff
<1>5. ~ Smaller(new, new)
  <2>1. "cpu" \in Sizes
    BY DEF Sizes
  <2> QED BY <1>1, <2>1 DEF Smaller
<1> HIDE DEF new, x0
<1>6. CASE Acceptable(pool, c, asked) /\ Better(pool, c, best, asked)
  <2>1. Kept(pool, c, best, asked) = new
    BY <1>6 DEF Kept, new
  <2>2. best = Nothing \/ Smaller(new, best)
    BY <1>4, <1>6 DEF Better, new
  <2>3. ASSUME NEW x \in seen, Acceptable(x[1], x[2], asked),
               Smaller(Candidate(x[1], x[2]), new)
        PROVE  FALSE
    <3>1. best # Nothing /\ ~ Smaller(Candidate(x[1], x[2]), best)
      BY <2>3 DEF IsBest
    <3>2. Smaller(new, best)
      BY <2>2, <3>1
    <3> QED BY <1>1, <1>2, <1>3, <2>3, <3>1, <3>2 DEF Smaller
  <2> QED BY <1>0, <1>5, <1>6, <2>1, <2>3 DEF IsBest, new, x0
<1>7. CASE ~ (Acceptable(pool, c, asked) /\ Better(pool, c, best, asked))
  <2>1. Kept(pool, c, best, asked) = best
    BY <1>7 DEF Kept
  <2>2. Acceptable(pool, c, asked) => best # Nothing /\ ~ Smaller(new, best)
    BY <1>4, <1>7 DEF Better, new
  <2> QED BY <1>0, <2>1, <2>2 DEF IsBest, new, x0
<1> QED BY <1>6, <1>7

\* The classes of a pool, each with the pool.
ClassesOf(pool) == {<<pool, pool.classes[k]>> : k \in DOMAIN pool.classes}

\* The classes of a pool are a list of classes.
LEMMA PoolTypes ==
    ASSUME NEW pool, IsPool(pool)
    PROVE  /\ Len(pool.classes) \in Nat
           /\ DOMAIN pool.classes = 1 .. Len(pool.classes)
           /\ \A k \in DOMAIN pool.classes :
                  IsClass(pool.classes[k]) /\ Candidate(pool, pool.classes[k]) # Nothing
<1> DEFINE cs == pool.classes
           T == ToSet(cs)
<1>1. cs \in Seq(T) /\ \A c \in T : IsClass(c) /\ Candidate(pool, c) # Nothing
  BY DEF IsPool
<1>2. \A k \in DOMAIN cs : cs[k] \in T
  BY DEF ToSet
<1> HIDE DEF cs, T
<1>3. DOMAIN cs = 1 .. Len(cs) /\ Len(cs) \in Nat
  BY <1>1
<1> QED BY <1>1, <1>2, <1>3 DEF cs

\* The loop over the classes of a pool.
LEMMA BestOfPoolIsBest ==
    ASSUME NEW asked, \A s \in Sizes : asked[s] \in Int,
           NEW before, NEW seen, AreClasses(seen), IsBest(before, seen, asked),
           NEW pool, IsPool(pool)
    PROVE  IsBest(BestOfPool(pool, before, asked), seen \cup ClassesOf(pool), asked)
<1> DEFINE cs == pool.classes
           best == CHOOSE best : best = [k \in 0 .. Len(cs) |->
                       IF k = 0 THEN before ELSE Kept(pool, cs[k], best[k - 1], asked)]
           upTo(n) == seen \cup {<<pool, cs[k]>> : k \in 1 .. n}
           S == {n \in Nat : n <= Len(cs) => IsBest(best[n], upTo(n), asked)}
<1>1. Len(cs) \in Nat /\ DOMAIN cs = 1 .. Len(cs)
      /\ \A k \in DOMAIN cs : IsClass(cs[k]) /\ Candidate(pool, cs[k]) # Nothing
  BY PoolTypes
<1>2. best = [k \in 0 .. Len(cs) |->
                  IF k = 0 THEN before ELSE Kept(pool, cs[k], best[k - 1], asked)]
  BY <1>1, PoolLoopDefined
<1>3. BestOfPool(pool, before, asked) = best[Len(cs)]
  BY DEF BestOfPool
<1> HIDE DEF best, cs
<1>4. 0 \in S
  <2>1. best[0] = before /\ upTo(0) = seen
    BY <1>1, <1>2
  <2> QED BY <2>1
<1>5. ASSUME NEW n \in Nat, n \in S PROVE n + 1 \in S
  <2> SUFFICES ASSUME n + 1 <= Len(cs) PROVE IsBest(best[n + 1], upTo(n + 1), asked)
    OBVIOUS
  <2>1. IsBest(best[n], upTo(n), asked)
    BY <1>1, <1>5
  <2>2. best[n + 1] = Kept(pool, cs[n + 1], best[n], asked)
    BY <1>1, <1>2
  <2>3. upTo(n + 1) = upTo(n) \cup {<<pool, cs[n + 1]>>}
    OBVIOUS
  <2>4. n + 1 \in DOMAIN cs /\ \A k \in 1 .. n : k \in DOMAIN cs
    BY <1>1
  <2>5. AreClasses(upTo(n))
    <3>1. \A k \in 1 .. n : IsClass(<<pool, cs[k]>>[2])
              /\ Candidate(<<pool, cs[k]>>[1], <<pool, cs[k]>>[2]) # Nothing
      BY <1>1, <2>4
    <3> QED BY <3>1 DEF AreClasses
  <2> HIDE DEF upTo
  <2> QED BY <1>1, <2>1, <2>2, <2>3, <2>4, <2>5, KeptIsBest
<1> HIDE DEF S
<1>6. Nat \subseteq S
  BY <1>4, <1>5, SetInduction
<1>7. IsBest(best[Len(cs)], upTo(Len(cs)), asked)
  <2>1. Len(cs) \in S /\ Len(cs) <= Len(cs)
    BY <1>1, <1>6
  <2> HIDE DEF upTo
  <2> QED BY <2>1 DEF S
<1>8. upTo(Len(cs)) = seen \cup ClassesOf(pool)
  BY <1>1 DEF ClassesOf, cs
<1> QED BY <1>3, <1>7, <1>8

\* The loop over the pools defines a function.
LEMMA PoolsLoopDefined ==
    ASSUME NEW pools, NEW asked, NEW m \in Nat
    PROVE  \E best : best = [p \in 0 .. m |->
               IF p = 0 THEN Nothing ELSE BestOfPool(pools[p], best[p - 1], asked)]
<1> DEFINE S == {n \in Nat : \E best : best = [p \in 0 .. n |->
               IF p = 0 THEN Nothing ELSE BestOfPool(pools[p], best[p - 1], asked)]}
<1>1. 0 \in S
  <2> DEFINE best == [p \in 0 .. 0 |-> Nothing]
  <2>1. best = [p \in 0 .. 0 |->
               IF p = 0 THEN Nothing ELSE BestOfPool(pools[p], best[p - 1], asked)]
    OBVIOUS
  <2> QED BY <2>1
<1>2. ASSUME NEW n \in Nat, n \in S PROVE n + 1 \in S
  <2>1. PICK f : f = [p \in 0 .. n |->
               IF p = 0 THEN Nothing ELSE BestOfPool(pools[p], f[p - 1], asked)]
    BY <1>2
  <2> DEFINE g == [p \in 0 .. n + 1 |->
                      IF p = n + 1 THEN BestOfPool(pools[n + 1], f[n], asked) ELSE f[p]]
  <2>2. ASSUME NEW p \in 0 .. n + 1
        PROVE  g[p] = IF p = 0 THEN Nothing ELSE BestOfPool(pools[p], g[p - 1], asked)
    <3>1. CASE p = n + 1
      <4>1. g[p - 1] = f[n]
        BY <3>1
      <4> QED BY <3>1, <4>1
    <3>2. CASE p # n + 1
      <4>1. p \in 0 .. n /\ g[p] = f[p] /\ (p # 0 => g[p - 1] = f[p - 1])
        BY <3>2
      <4>2. f[p] = IF p = 0 THEN Nothing ELSE BestOfPool(pools[p], f[p - 1], asked)
        BY <2>1, <4>1
      <4> QED BY <4>1, <4>2
    <3> QED BY <3>1, <3>2
  <2>3. g = [p \in 0 .. n + 1 |->
               IF p = 0 THEN Nothing ELSE BestOfPool(pools[p], g[p - 1], asked)]
    BY <2>2
  <2> HIDE DEF g
  <2> QED BY <2>3
<1> HIDE DEF S
<1>3. Nat \subseteq S
  BY <1>1, <1>2, SetInduction
<1> QED BY <1>3 DEF S

\* The pools are a list of pools.
LEMMA PoolsTypes ==
    ASSUME NEW pools, ArePools(pools)
    PROVE  /\ Len(pools) \in Nat
           /\ DOMAIN pools = 1 .. Len(pools)
           /\ \A p \in DOMAIN pools : IsPool(pools[p]) /\ pools[p] \in ToSet(pools)
<1> DEFINE T == ToSet(pools)
<1>1. pools \in Seq(T) /\ \A pool \in T : IsPool(pool)
  BY DEF ArePools
<1>2. \A p \in DOMAIN pools : pools[p] \in T
  BY DEF ToSet
<1> HIDE DEF T
<1>3. DOMAIN pools = 1 .. Len(pools) /\ Len(pools) \in Nat
  BY <1>1
<1> QED BY <1>1, <1>2, <1>3 DEF T

\* The classes of the first n pools.
ClassesUpTo(pools, n) == UNION {ClassesOf(pools[p]) : p \in 1 .. n}

\* They are classes.
LEMMA ClassesTypes ==
    ASSUME NEW pools, ArePools(pools), NEW n \in Nat, n <= Len(pools)
    PROVE  AreClasses(ClassesUpTo(pools, n))
<1> SUFFICES ASSUME NEW p \in 1 .. n, NEW x \in ClassesOf(pools[p])
             PROVE  IsClass(x[2]) /\ Candidate(x[1], x[2]) # Nothing
  BY DEF AreClasses, ClassesUpTo
<1>1. IsPool(pools[p])
  BY PoolsTypes
<1>2. PICK k \in DOMAIN pools[p].classes : x = <<pools[p], pools[p].classes[k]>>
  BY DEF ClassesOf
<1>3. x[1] = pools[p] /\ x[2] = pools[p].classes[k]
  BY <1>2
<1> QED BY <1>1, <1>3, PoolTypes

\* The loop over the pools.
LEMMA AcceptableIsBest ==
    ASSUME NEW asked, \A s \in Sizes : asked[s] \in Int, NEW pools, ArePools(pools)
    PROVE  IsBest(FindAcceptableClass(pools, asked), ClassesUpTo(pools, Len(pools)), asked)
<1> DEFINE best == CHOOSE best : best = [p \in 0 .. Len(pools) |->
                       IF p = 0 THEN Nothing ELSE BestOfPool(pools[p], best[p - 1], asked)]
           S == {n \in Nat : n <= Len(pools) => IsBest(best[n], ClassesUpTo(pools, n), asked)}
<1>1. Len(pools) \in Nat /\ DOMAIN pools = 1 .. Len(pools)
      /\ \A p \in DOMAIN pools : IsPool(pools[p])
  BY PoolsTypes
<1>2. best = [p \in 0 .. Len(pools) |->
                  IF p = 0 THEN Nothing ELSE BestOfPool(pools[p], best[p - 1], asked)]
  BY <1>1, PoolsLoopDefined
<1>3. FindAcceptableClass(pools, asked) = best[Len(pools)]
  BY DEF FindAcceptableClass
<1> HIDE DEF best
<1>4. 0 \in S
  <2>1. best[0] = Nothing /\ ClassesUpTo(pools, 0) = {}
    BY <1>1, <1>2 DEF ClassesUpTo
  <2> QED BY <2>1 DEF IsBest
<1>5. ASSUME NEW n \in Nat, n \in S PROVE n + 1 \in S
  <2> SUFFICES ASSUME n + 1 <= Len(pools)
               PROVE  IsBest(best[n + 1], ClassesUpTo(pools, n + 1), asked)
    OBVIOUS
  <2>1. IsBest(best[n], ClassesUpTo(pools, n), asked)
    BY <1>1, <1>5
  <2>2. best[n + 1] = BestOfPool(pools[n + 1], best[n], asked)
    BY <1>1, <1>2
  <2>3. ClassesUpTo(pools, n + 1) = ClassesUpTo(pools, n) \cup ClassesOf(pools[n + 1])
    <3>1. 1 .. n + 1 = (1 .. n) \cup {n + 1}
      OBVIOUS
    <3> QED BY <3>1 DEF ClassesUpTo
  <2>4. AreClasses(ClassesUpTo(pools, n)) /\ IsPool(pools[n + 1])
    BY <1>1, ClassesTypes
  <2> QED BY <2>1, <2>2, <2>3, <2>4, BestOfPoolIsBest
<1> HIDE DEF S
<1>6. Nat \subseteq S
  BY <1>4, <1>5, SetInduction
<1>7. Len(pools) \in S /\ Len(pools) <= Len(pools)
  BY <1>1, <1>6
<1> QED BY <1>3, <1>7 DEF S

\* The class that find_acceptable_class keeps is at least what is asked for
\* in every size, has the quota of its pool, and no class that the data
\* service calls matching would do and be smaller in every size.
THEOREM AcceptableClass ==
    ASSUME NEW pools, ArePools(pools),
           NEW asked, \A s \in Sizes : asked[s] \in Int,
           NEW options, options = FindAcceptableClass(pools, asked), options # Nothing
    PROVE  /\ NotNegative(Diff(options, asked))
           /\ \E pool \in ToSet(pools) :
                  HasClass(pool, options.class) /\ options.priority = pool.quota
           /\ \A pool \in ToSet(pools) : \A c \in ToSet(pool.classes) :
                  Matching(c, asked) /\ NotNegative(Diff(FromResourceClass(c), asked))
                      => ~ Smaller(FromResourceClass(c), options)
<1> DEFINE all == ClassesUpTo(pools, Len(pools))
<1>0. IsBest(options, all, asked)
  BY AcceptableIsBest
<1>1. \A p \in DOMAIN pools : ClassesOf(pools[p]) \subseteq all
  BY PoolsTypes DEF ClassesUpTo
<1>2. PICK x \in all : options = Candidate(x[1], x[2]) /\ Acceptable(x[1], x[2], asked)
  BY <1>0 DEF IsBest
<1>3. PICK p \in 1 .. Len(pools) : x \in ClassesOf(pools[p])
  BY DEF ClassesUpTo
<1>4. PICK k \in DOMAIN pools[p].classes : x = <<pools[p], pools[p].classes[k]>>
  BY <1>3 DEF ClassesOf
<1>5. /\ pools[p] \in ToSet(pools) /\ IsPool(pools[p])
      /\ x[1] = pools[p] /\ x[2] = pools[p].classes[k]
  BY <1>4, PoolsTypes
<1>6. IsClass(pools[p].classes[k])
  BY <1>5, PoolTypes
<1>7. NotNegative(Diff(options, asked))
  BY <1>2 DEF Acceptable
<1>8. options.class = pools[p].classes[k].id /\ options.priority = pools[p].quota
  BY <1>2, <1>5, <1>6, CandidateSizes
<1>9. HasClass(pools[p], options.class)
  BY <1>8 DEF HasClass, WithId
<1>10. ASSUME NEW pool \in ToSet(pools), NEW c \in ToSet(pool.classes),
              Matching(c, asked), NotNegative(Diff(FromResourceClass(c), asked)),
              Smaller(FromResourceClass(c), options)
       PROVE  FALSE
  <2>1. PICK q \in DOMAIN pools : pool = pools[q]
    BY DEF ToSet
  <2>2. PICK l \in DOMAIN pool.classes : c = pool.classes[l]
    BY DEF ToSet
  <2>3. <<pool, c>> \in all /\ <<pool, c>>[1] = pool /\ <<pool, c>>[2] = c
    BY <1>1, <2>1, <2>2 DEF ClassesOf
  <2>4. IsClass(c)
    BY <2>1, <2>2, PoolsTypes, PoolTypes
  <2>5. \A s \in Sizes : Candidate(pool, c)[s] = FromResourceClass(c)[s]
    BY <2>4, CandidateSizes
  <2>6. Acceptable(pool, c, asked)
    BY <1>10, <2>5 DEF Acceptable, NotNegative, Diff
  <2>7. ~ Smaller(Candidate(pool, c), options)
    BY <1>0, <2>3, <2>6 DEF IsBest
  <2> QED BY <1>10, <2>5, <2>7 DEF Smaller
<1> QED BY <1>5, <1>7, <1>8, <1>9, <1>10

-----------------------------------------------------------------------------
(***************************************************************************)
(* validate_class_storage.                                                 *)
(***************************************************************************)

\* validate_class_storage finds the class with the id in a pool that has it,
\* with the quota and the thresholds of that pool, and allows only storage
\* that the class has.
THEOREM ClassWithStorage ==
    ASSUME NEW pools, ArePools(pools), NEW id, NEW storage \in Int,
           NEW options, options = ValidateClassStorage(pools, id, storage),
           options # Nothing
    PROVE  /\ options.class = id
           /\ options.storage = storage * Giga
           /\ storage >= 1
           /\ \E pool \in ToSet(pools) :
                  /\ HasClass(pool, id)
                  /\ options.priority = pool.quota
                  /\ options.idle = pool.idle
                  /\ options.hibernation = pool.hibernation
                  /\ ClassOf(pool, id).max_storage >= storage
<1> DEFINE having == PoolsWithClass(pools, id)
           pool == pools[Max(having)]
           c == ClassOf(pool, id)
<1>1. having # {}
  BY DEF ValidateClassStorage
<1>2. pool \in ToSet(pools) /\ IsPool(pool) /\ HasClass(pool, id)
  <2>1. having \subseteq DOMAIN pools /\ DOMAIN pools = 1 .. Len(pools) /\ Len(pools) \in Nat
    BY PoolsTypes DEF PoolsWithClass
  <2>2. Max(having) \in having
    <3>1. having \in SUBSET (0 .. Len(pools))
      BY <2>1
    <3> HIDE DEF having
    <3> QED BY <1>1, <2>1, <3>1, MaxIsGreatest
  <2> QED BY <2>1, <2>2, PoolsTypes DEF PoolsWithClass
<1> HIDE DEF pool
<1>3. c.id = id /\ IsClass(c)
  <2>1. WithId(pool, id) \in SUBSET Nat /\ WithId(pool, id) # {}
    BY <1>2, PoolTypes DEF WithId, HasClass
  <2>2. Min(WithId(pool, id)) \in WithId(pool, id)
    BY <2>1, MinIsLeast
  <2> QED BY <1>2, <2>2, PoolTypes DEF WithId, ClassOf
<1> HIDE DEF c
<1>4. /\ StorageAllowed(c, storage)
      /\ options = [SetStorage(FromResourceClass(c), storage)
                        EXCEPT !.idle = pool.idle, !.hibernation = pool.hibernation,
                               !.priority = pool.quota]
  BY <1>1 DEF ValidateClassStorage, PoolOf, pool, c
<1> DEFINE o == SetStorage(FromResourceClass(c), storage)
<1>5. /\ o.class = id /\ o.storage = storage * Giga
      /\ DOMAIN o = {"class", "cpu", "memory", "gpu", "storage", "priority", "idle",
                     "hibernation", "affinities"}
  BY <1>3 DEF SetStorage, FromResourceClass
<1> HIDE DEF o
<1>6. /\ options.class = id /\ options.storage = storage * Giga
      /\ options.priority = pool.quota /\ options.idle = pool.idle
      /\ options.hibernation = pool.hibernation
  BY <1>4, <1>5 DEF o
<1>7. storage >= 1 /\ c.max_storage >= storage
  BY <1>3, <1>4 DEF StorageAllowed, IsClass
<1> QED BY <1>2, <1>6, <1>7 DEF c

-----------------------------------------------------------------------------
(***************************************************************************)
(* get_default_class.                                                      *)
(***************************************************************************)

\* The default class is the default of one of the pools, and no more storage
\* than it has is allowed (get_default_class, launch_notebook_helper).
THEOREM DefaultClassOfPools ==
    ASSUME NEW pools, ArePools(pools), HasDefaultClass(pools), NEW storage \in Int,
           NEW options, options = DefaultOptions(pools, storage), options # Nothing
    PROVE  \E pool \in ToSet(pools) : \E c \in ToSet(pool.classes) :
               c.id = options.class /\ c.default /\ options.storage <= c.max_storage * Giga
<1> DEFINE pool == DefaultPool(pools)
           c == DefaultClass(pools)
<1>1. pool \in ToSet(pools) /\ IsPool(pool)
  <2>1. DefaultPools(pools) \in SUBSET Nat /\ DefaultPools(pools) # {}
    BY PoolsTypes DEF DefaultPools, HasDefaultClass
  <2>2. Min(DefaultPools(pools)) \in DefaultPools(pools)
    BY <2>1, MinIsLeast
  <2> QED BY <2>2, PoolsTypes DEF DefaultPools, DefaultPool
<1>2. c \in ToSet(pool.classes) /\ IsClass(c) /\ c.default
  <2>1. DefaultClasses(pools) \in SUBSET Nat /\ DefaultClasses(pools) # {}
    BY <1>1, PoolTypes DEF DefaultClasses, HasDefaultClass
  <2>2. Min(DefaultClasses(pools)) \in DefaultClasses(pools)
    BY <2>1, MinIsLeast
  <2>3. DefaultClasses(pools) \subseteq DOMAIN pool.classes
        /\ \A k \in DefaultClasses(pools) : pool.classes[k].default
    BY DEF DefaultClasses
  <2> HIDE DEF pool
  <2> QED BY <1>1, <2>2, <2>3, PoolTypes DEF DefaultClass, ToSet, pool
<1> HIDE DEF pool, c
<1>3. storage <= c.max_storage /\ options = SetStorage(FromResourceClass(c), storage)
  BY <1>2 DEF DefaultOptions, IsClass, c
<1>4. options.class = c.id /\ options.storage = storage * Giga
  BY <1>3 DEF SetStorage, FromResourceClass
<1>5. storage * Giga <= c.max_storage * Giga
  BY <1>2, <1>3, GigaAssumption DEF IsClass
<1> QED BY <1>1, <1>2, <1>4, <1>5

=============================================================================
