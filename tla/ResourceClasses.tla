-------------------------- MODULE ResourceClasses --------------------------
(***************************************************************************)
(* How a launch gets its resources (CRCValidator in                        *)
(* api/classes/data_service.py and ServerOptions in                        *)
(* api/schemas/server_options.py): from a resource class asked for by its  *)
(* id, from the class that fits a request of the old API, or from the      *)
(* default class.                                                          *)
(*                                                                         *)
(* Pools, as the data service returns them, are sequences of pools, and    *)
(* the classes of a pool a sequence of classes; sizes in them are in       *)
(* gigabytes, sizes in options and in requests in bytes.  CPUs, which may  *)
(* be fractions, are counted in a unit of which all of them are multiples. *)
(***************************************************************************)
EXTENDS Integers, Sequences, SequencesExt

CONSTANTS
    Giga,     \* bytes in a gigabyte
    Nothing   \* None: no quota, no threshold, no priority class, no class

ASSUME GigaAssumption == Giga \in Nat \ {0}

Sizes == {"cpu", "memory", "gpu", "storage"}

\* ServerOptions of a resource class.
FromResourceClass(c) ==
    [class |-> c.id, cpu |-> c.cpu, memory |-> c.memory * Giga,
     gpu |-> c.gpu, storage |-> c.default_storage * Giga,
     priority |-> Nothing, idle |-> Nothing, hibernation |-> Nothing,
     affinities |-> c.affinities]

\* set_storage(storage, gigabytes=True) of options in bytes.
SetStorage(options, gigabytes) == [options EXCEPT !.storage = gigabytes * Giga]

Diff(options, other) == [s \in Sizes |-> options[s] - other[s]]

\* __ge__ and __lt__: every size has to compare.
NotNegative(diff) == \A s \in Sizes : diff[s] >= 0

Smaller(diff, other) == \A s \in Sizes : diff[s] < other[s]

\* round() of Python: half to even.
Round(bytes) ==
    LET q == bytes \div Giga
        r == 2 * (bytes % Giga)
    IN  IF r > Giga \/ (r = Giga /\ q % 2 = 1) THEN q + 1 ELSE q

\* What the data service puts into the field "matching" of a class, for the
\* parameters that _get_resource_pools sends: sizes rounded to gigabytes,
\* and the largest storage of the class, not the default one.
Matching(c, asked) ==
    /\ c.cpu >= asked.cpu
    /\ c.gpu >= asked.gpu
    /\ c.memory >= Round(asked.memory)
    /\ c.max_storage >= Round(asked.storage)

-----------------------------------------------------------------------------
(***************************************************************************)
(* validate_class_storage.                                                 *)
(***************************************************************************)

\* Where the classes of a pool, and the pools, are that have the id.
WithId(pool, id) == {k \in DOMAIN pool.classes : pool.classes[k].id = id}

HasClass(pool, id) == WithId(pool, id) # {}

ClassOf(pool, id) == pool.classes[Min(WithId(pool, id))]

PoolsWithClass(pools, id) == {p \in DOMAIN pools : HasClass(pools[p], id)}

PoolOfAnyClass(pools, id) == Last(pools)

\* The loop over the pools goes on after the class was found.
PoolOf(pools, id) == pools[Max(PoolsWithClass(pools, id))]

StorageAllowed(c, storage) == 1 <= storage /\ storage <= c.max_storage

\* The options; Nothing where InvalidComputeResourceError is raised.
ValidateClassStorage(pools, id, storage) ==
    IF PoolsWithClass(pools, id) = {}
        THEN Nothing
        ELSE LET pool == PoolOf(pools, id)
                 c == ClassOf(pools[Max(PoolsWithClass(pools, id))], id)
             IN  IF StorageAllowed(c, storage)
                     THEN [SetStorage(FromResourceClass(c), storage)
                               EXCEPT !.idle = pool.idle,
                                      !.hibernation = pool.hibernation,
                                      !.priority = pool.quota]
                     ELSE Nothing

-----------------------------------------------------------------------------
(***************************************************************************)
(* find_acceptable_class.                                                  *)
(***************************************************************************)

Candidate(pool, c) ==
    [FromResourceClass(c) EXCEPT !.priority = pool.quota]

Acceptable(pool, c, asked) ==
    /\ Matching(c, asked)
    /\ NotNegative(Diff(Candidate(pool, c), asked))

\* Only a class that is smaller in every size replaces the one kept.
Better(pool, c, best, asked) ==
    \/ best = Nothing
    \/ Smaller(Diff(Candidate(pool, c), asked), Diff(best, asked))

Kept(pool, c, best, asked) ==
    IF Acceptable(pool, c, asked) /\ Better(pool, c, best, asked)
        THEN Candidate(pool, c)
        ELSE best

\* The loop over the classes of a pool, which begins with the best of the
\* pools before it.
BestOfPool(pool, before, asked) ==
    LET best[k \in 0 .. Len(pool.classes)] ==
            IF k = 0 THEN before ELSE Kept(pool, pool.classes[k], best[k - 1], asked)
    IN  best[Len(pool.classes)]

FindAcceptableClass(pools, asked) ==
    LET best[p \in 0 .. Len(pools)] ==
            IF p = 0 THEN Nothing ELSE BestOfPool(pools[p], best[p - 1], asked)
    IN  best[Len(pools)]

-----------------------------------------------------------------------------
(***************************************************************************)
(* The default class, with the storage checked by launch_notebook_helper   *)
(* itself.                                                                 *)
(***************************************************************************)

DefaultPools(pools) == {p \in DOMAIN pools : pools[p].default}

DefaultPool(pools) == pools[Min(DefaultPools(pools))]

DefaultClasses(pools) ==
    {k \in DOMAIN DefaultPool(pools).classes : DefaultPool(pools).classes[k].default}

\* get_default_class raises a ConfigurationError otherwise.
HasDefaultClass(pools) == DefaultPools(pools) # {} /\ DefaultClasses(pools) # {}

DefaultClass(pools) == DefaultPool(pools).classes[Min(DefaultClasses(pools))]

\* Nothing where the storage is refused; there is no lower bound here.
DefaultOptions(pools, storage) ==
    LET c == DefaultClass(pools)
    IN  IF storage > c.max_storage
            THEN Nothing
            ELSE SetStorage(FromResourceClass(c), storage)

-----------------------------------------------------------------------------
(***************************************************************************)
(* What the data service may answer.                                       *)
(***************************************************************************)

IsClass(c) ==
    {c.cpu, c.memory, c.gpu, c.default_storage, c.max_storage} \subseteq Nat

IsPool(pool) ==
    /\ pool.classes \in Seq(ToSet(pool.classes))
    /\ \A c \in ToSet(pool.classes) : IsClass(c) /\ Candidate(pool, c) # Nothing

ArePools(pools) ==
    pools \in Seq(ToSet(pools)) /\ \A pool \in ToSet(pools) : IsPool(pool)

=============================================================================
