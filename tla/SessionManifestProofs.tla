----------------------- MODULE SessionManifestProofs ------------------------
(***************************************************************************)
(* What the patches of SessionManifest make of a pod, for any server.      *)
(***************************************************************************)
EXTENDS SessionManifest, SequenceTheorems, Induction

-----------------------------------------------------------------------------
(***************************************************************************)
(* Sequences.                                                              *)
(***************************************************************************)

\* A sequence of something.
IsSeq(a) == a \in Seq(ToSet(a))

\* Every sequence is one, with numbered elements.
LEMMA SeqFacts ==
    ASSUME NEW T, NEW a \in Seq(T)
    PROVE  /\ IsSeq(a)
           /\ Len(a) \in Nat /\ DOMAIN a = 1 .. Len(a)
           /\ \A k \in 1 .. Len(a) : a[k] \in ToSet(a)
<1>1. Len(a) \in Nat /\ DOMAIN a = 1 .. Len(a) /\ a \in [1 .. Len(a) -> T]
  BY LenProperties
<1>2. \A k \in 1 .. Len(a) : a[k] \in ToSet(a)
  BY <1>1 DEF ToSet
<1>3. a \in [1 .. Len(a) -> ToSet(a)]
  BY <1>1, <1>2
<1>4. a \in Seq(ToSet(a))
  <2> HIDE DEF ToSet
  <2> QED BY <1>1, <1>3, SeqDef
<1> QED BY <1>1, <1>2, <1>4 DEF IsSeq

\* The elements of a sequence.
LEMMA SeqElements ==
    ASSUME NEW a, IsSeq(a)
    PROVE  /\ Len(a) \in Nat /\ DOMAIN a = 1 .. Len(a)
           /\ \A k \in 1 .. Len(a) : a[k] \in ToSet(a)
           /\ \A x \in ToSet(a) : \E k \in 1 .. Len(a) : x = a[k]
<1>1. Len(a) \in Nat /\ DOMAIN a = 1 .. Len(a) /\ \A k \in 1 .. Len(a) : a[k] \in ToSet(a)
  BY SeqFacts DEF IsSeq
<1>2. \A x \in ToSet(a) : \E k \in 1 .. Len(a) : x = a[k]
  BY <1>1 DEF ToSet
<1> QED BY <1>1, <1>2

\* The sequence without elements and those of one.
LEMMA Shortest ==
    ASSUME NEW x
    PROVE  /\ IsSeq(<<>>) /\ ToSet(<<>>) = {}
           /\ IsSeq(<<x>>) /\ ToSet(<<x>>) = {x}
<1>1. <<>> \in Seq({x}) /\ <<x>> \in Seq({x})
  OBVIOUS
<1>2. IsSeq(<<>>) /\ IsSeq(<<x>>)
  BY <1>1, SeqFacts
<1>3. DOMAIN <<>> = {} /\ DOMAIN <<x>> = {1} /\ <<x>>[1] = x
  OBVIOUS
<1>4. ToSet(<<>>) = {}
  BY <1>3 DEF ToSet
<1>5. ToSet(<<x>>) = {x}
  BY <1>3 DEF ToSet
<1> QED BY <1>2, <1>4, <1>5

\* Two sequences joined.
LEMMA Joined ==
    ASSUME NEW a, NEW b, IsSeq(a), IsSeq(b)
    PROVE  /\ IsSeq(a \o b)
           /\ ToSet(a \o b) = ToSet(a) \cup ToSet(b)
           /\ Len(a \o b) = Len(a) + Len(b)
           /\ \A k \in 1 .. Len(a) : (a \o b)[k] = a[k]
           /\ \A k \in 1 .. Len(b) : (a \o b)[Len(a) + k] = b[k]
<1> DEFINE T == ToSet(a) \cup ToSet(b)
<1>1. a \in Seq(T) /\ b \in Seq(T)
  BY SeqMonotonic DEF IsSeq
<1>2. Len(a) \in Nat /\ Len(b) \in Nat
  BY SeqElements
<1>3. /\ a \o b \in Seq(T)
      /\ Len(a \o b) = Len(a) + Len(b)
      /\ \A k \in 1 .. Len(a) + Len(b) :
             (a \o b)[k] = IF k <= Len(a) THEN a[k] ELSE b[k - Len(a)]
  <2> HIDE DEF T
  <2> QED BY <1>1, ConcatProperties
<1>4. /\ \A k \in 1 .. Len(a) : (a \o b)[k] = a[k]
      /\ \A k \in 1 .. Len(b) : (a \o b)[Len(a) + k] = b[k]
  BY <1>2, <1>3
<1>5. IsSeq(a \o b) /\ DOMAIN (a \o b) = 1 .. Len(a) + Len(b)
  <2> HIDE DEF T
  <2> QED BY <1>3, SeqFacts
<1>6. ASSUME NEW x \in ToSet(a \o b) PROVE x \in T
  <2>1. PICK k \in 1 .. Len(a) + Len(b) : x = (a \o b)[k]
    BY <1>5 DEF ToSet
  <2> QED BY <1>2, <1>3, <2>1, SeqElements
<1>7. ASSUME NEW x \in T PROVE x \in ToSet(a \o b)
  <2>1. CASE x \in ToSet(a)
    <3>1. PICK k \in 1 .. Len(a) : x = a[k]
      BY <2>1, SeqElements
    <3>2. k \in DOMAIN (a \o b) /\ x = (a \o b)[k]
      BY <1>2, <1>4, <1>5, <3>1
    <3> QED BY <3>2 DEF ToSet
  <2>2. CASE x \in ToSet(b)
    <3>1. PICK k \in 1 .. Len(b) : x = b[k]
      BY <2>2, SeqElements
    <3>2. Len(a) + k \in DOMAIN (a \o b) /\ x = (a \o b)[Len(a) + k]
      BY <1>2, <1>4, <1>5, <3>1
    <3> QED BY <3>2 DEF ToSet
  <2> QED BY <2>1, <2>2
<1> QED BY <1>3, <1>4, <1>5, <1>6, <1>7

\* One element more.
LEMMA Appended ==
    ASSUME NEW a, IsSeq(a), NEW x
    PROVE  /\ Append(a, x) = a \o <<x>>
           /\ IsSeq(Append(a, x)) /\ ToSet(Append(a, x)) = ToSet(a) \cup {x}
           /\ Len(Append(a, x)) = Len(a) + 1
           /\ \A k \in 1 .. Len(a) : Append(a, x)[k] = a[k]
           /\ Append(a, x)[Len(a) + 1] = x
<1> DEFINE T == ToSet(a) \cup {x}
<1>1. a \in Seq(T) /\ x \in T
  BY SeqMonotonic DEF IsSeq
<1>2. Append(a, x) = a \o <<x>>
  <2> HIDE DEF T
  <2> QED BY <1>1, AppendIsConcat
<1>3. IsSeq(<<x>>) /\ ToSet(<<x>>) = {x} /\ Len(<<x>>) = 1 /\ <<x>>[1] = x
  BY Shortest
<1>4. Append(a, x)[Len(a) + 1] = x
  <2> HIDE DEF T
  <2> QED BY <1>1, AppendProperties
<1> QED BY <1>2, <1>3, <1>4, Joined

\* A function on the first numbers is a sequence.
LEMMA FunctionIsSeq ==
    ASSUME NEW n \in Nat, NEW T, NEW b \in [1 .. n -> T]
    PROVE  IsSeq(b) /\ Len(b) = n
<1>1. b \in Seq(T)
  BY SeqDef
<1>2. Len(b) \in Nat /\ DOMAIN b = 1 .. Len(b) /\ DOMAIN b = 1 .. n
  BY <1>1, SeqFacts
<1> QED BY <1>1, <1>2, SeqFacts

-----------------------------------------------------------------------------
(***************************************************************************)
(* The loop that applies the patches.                                      *)
(***************************************************************************)

\* It defines a function.
LEMMA LoopDefined ==
    ASSUME NEW base, NEW patches, NEW m \in Nat
    PROVE  \E pod : pod = [k \in 0 .. m |->
               IF k = 0 THEN base ELSE Apply(pod[k - 1], patches[k])]
<1> DEFINE S == {n \in Nat : \E pod : pod = [k \in 0 .. n |->
               IF k = 0 THEN base ELSE Apply(pod[k - 1], patches[k])]}
<1>1. 0 \in S
  <2> DEFINE pod == [k \in 0 .. 0 |-> base]
  <2>1. pod = [k \in 0 .. 0 |-> IF k = 0 THEN base ELSE Apply(pod[k - 1], patches[k])]
    OBVIOUS
  <2> QED BY <2>1
<1>2. ASSUME NEW n \in Nat, n \in S PROVE n + 1 \in S
  <2>1. PICK f : f = [k \in 0 .. n |->
                         IF k = 0 THEN base ELSE Apply(f[k - 1], patches[k])]
    BY <1>2
  <2> DEFINE g == [k \in 0 .. n + 1 |->
                      IF k = n + 1 THEN Apply(f[n], patches[n + 1]) ELSE f[k]]
  <2>2. ASSUME NEW k \in 0 .. n + 1
        PROVE  g[k] = IF k = 0 THEN base ELSE Apply(g[k - 1], patches[k])
    <3>1. CASE k = n + 1
      <4>1. g[k - 1] = f[n]
        BY <3>1
      <4> QED BY <3>1, <4>1
    <3>2. CASE k # n + 1
      <4>1. k \in 0 .. n /\ g[k] = f[k] /\ (k # 0 => g[k - 1] = f[k - 1])
        BY <3>2
      <4>2. f[k] = IF k = 0 THEN base ELSE Apply(f[k - 1], patches[k])
        BY <2>1, <4>1
      <4> QED BY <4>1, <4>2
    <3> QED BY <3>1, <3>2
  <2>3. g = [k \in 0 .. n + 1 |-> IF k = 0 THEN base ELSE Apply(g[k - 1], patches[k])]
    BY <2>2
  <2> HIDE DEF g
  <2> QED BY <2>3
<1> HIDE DEF S
<1>3. Nat \subseteq S
  BY <1>1, <1>2, SetInduction
<1> QED BY <1>3 DEF S

\* A patch more is one that is applied to what the others make.
LEMMA AppliedAppend ==
    ASSUME NEW base, NEW patches, IsSeq(patches), NEW x
    PROVE  Applied(base, Append(patches, x)) = Apply(Applied(base, patches), x)
<1> DEFINE more == Append(patches, x)
           f == CHOOSE pod : pod = [k \in 0 .. Len(patches) |->
                    IF k = 0 THEN base ELSE Apply(pod[k - 1], patches[k])]
           g == CHOOSE pod : pod = [k \in 0 .. Len(more) |->
                    IF k = 0 THEN base ELSE Apply(pod[k - 1], more[k])]
           S == {n \in Nat : n <= Len(patches) => f[n] = g[n]}
<1>1. /\ Len(patches) \in Nat /\ Len(more) = Len(patches) + 1
      /\ \A k \in 1 .. Len(patches) : more[k] = patches[k]
      /\ more[Len(patches) + 1] = x
  BY Appended, SeqElements
<1>2. Applied(base, patches) = f[Len(patches)] /\ Applied(base, more) = g[Len(more)]
  BY DEF Applied
<1> HIDE DEF more
<1>3. f = [k \in 0 .. Len(patches) |->
              IF k = 0 THEN base ELSE Apply(f[k - 1], patches[k])]
  BY <1>1, LoopDefined
<1>4. g = [k \in 0 .. Len(more) |-> IF k = 0 THEN base ELSE Apply(g[k - 1], more[k])]
  BY <1>1, LoopDefined
<1> HIDE DEF f, g
<1>5. 0 \in S
  BY <1>1, <1>3, <1>4
<1>6. ASSUME NEW n \in Nat, n \in S PROVE n + 1 \in S
  <2> SUFFICES ASSUME n + 1 <= Len(patches) PROVE f[n + 1] = g[n + 1]
    OBVIOUS
  <2>1. f[n + 1] = Apply(f[n], patches[n + 1]) /\ g[n + 1] = Apply(g[n], more[n + 1])
    BY <1>1, <1>3, <1>4
  <2> QED BY <1>1, <1>6, <2>1
<1> HIDE DEF S
<1>7. Nat \subseteq S
  BY <1>5, <1>6, SetInduction
<1>8. f[Len(patches)] = g[Len(patches)]
  <2>1. Len(patches) \in S /\ Len(patches) <= Len(patches)
    BY <1>1, <1>7
  <2> QED BY <2>1 DEF S
<1>9. g[Len(more)] = Apply(g[Len(patches)], x)
  BY <1>1, <1>4
<1> QED BY <1>2, <1>8, <1>9 DEF more

\* Without patches all stays as it is.
LEMMA AppliedNone == ASSUME NEW base PROVE Applied(base, <<>>) = base
<1> DEFINE f == CHOOSE pod : pod = [k \in 0 .. Len(<<>>) |->
                    IF k = 0 THEN base ELSE Apply(pod[k - 1], <<>>[k])]
<1>1. Len(<<>>) = 0 /\ Len(<<>>) \in Nat
  OBVIOUS
<1>2. Applied(base, <<>>) = f[Len(<<>>)]
  BY DEF Applied
<1>3. f = [k \in 0 .. Len(<<>>) |-> IF k = 0 THEN base ELSE Apply(f[k - 1], <<>>[k])]
  BY <1>1, LoopDefined
<1> HIDE DEF f
<1> QED BY <1>1, <1>2, <1>3

-----------------------------------------------------------------------------
(***************************************************************************)
(* Pods that are well built.                                               *)
(***************************************************************************)

AuthEnv == {<<"ALLOW_UNVERIFIED_EMAIL", "config">>,
            <<"OAUTH2_PROXY_PROVIDER_CA_FILES", EtcCerts>>}

ProxyEnv(s) == {<<"PROVIDERS", ProvidersOf(s)>>, <<"REPOSITORIES", s.repositories>>}

\* What git_clone gives its container, and what the storages add to it.
CloneEnv(s) == {<<"IS_GIT_PROXY_ENABLED", s.registered>>,
                <<"GIT_PROVIDERS", RequiredProviders(s)>>,
                <<"REPOSITORIES", s.repositories>>}

StorageEnv(s) == {<<MountVariable[i], s.storages[i]>> : i \in DOMAIN s.storages}

\* The variables that a container of this name may have.
Env(name, s) ==
    CASE name = "jupyter-server" -> ToSet(BuiltIn \o s.env)
      [] name = Auth(s) -> AuthEnv
      [] name = "git-clone" -> CloneEnv(s) \cup StorageEnv(s)
      [] name = "git-proxy" -> ProxyEnv(s)
      [] name = "git-sidecar" -> {<<"RENKU_USERNAME", "user">>}
      [] name = "init-user-secrets" -> {<<"RENKU_ACCESS_TOKEN", "token">>}
      [] OTHER -> {}

\* The containers that patches add to by their index.
Extensible(s) == {"jupyter-server", Auth(s), "git-clone"}

\* A container as its patch makes it, whatever was added to it; it mounts
\* nothing but the volumes V.
Good(c, s, V) ==
    /\ "env" \in DOMAIN c => c.env \subseteq Env(c.name, s)
    /\ "mounts" \in DOMAIN c => c.mounts \subseteq V
    /\ c.name \in Extensible(s) => DOMAIN c = {"name", "mounts", "env"}
    /\ c.name = "git-clone" => s.repositories # <<>> /\ CloneEnv(s) \subseteq c.env
    /\ c.name = "git-proxy" => NeedsGit(s) /\ c.env = ProxyEnv(s)
    /\ c.name = "init-user-secrets" => EtcCerts \notin c.mounts
    /\ c.name = "download-image" => "env" \notin DOMAIN c

\* A list of such containers.
GoodList(cs, s, V) == IsSeq(cs) /\ \A k \in DOMAIN cs : Good(cs[k], s, V)

\* The names of containers, in their order.
Named(cs, names) ==
    /\ Len(cs) = Len(names)
    /\ \A k \in 1 .. Len(names) : cs[k].name = names[k]

\* The pod has the containers that indices mean, and these init containers.
WellBuilt(p, s, V, inits) ==
    /\ DOMAIN p = {"initContainers", "containers", "volumes"}
    /\ GoodList(p.containers, s, V)
    /\ GoodList(p.initContainers, s, V)
    /\ Len(p.containers) >= 2
    /\ p.containers[1].name = "jupyter-server"
    /\ p.containers[2].name = Auth(s)
    /\ \A k \in DOMAIN p.containers : p.containers[k].name # "git-clone"
    /\ IsSeq(inits) /\ Named(p.initContainers, inits)
    /\ "workspace" \in p.volumes

-----------------------------------------------------------------------------
(***************************************************************************)
(* Patches that keep a pod well built.                                     *)
(***************************************************************************)

\* It does not touch a container.
Aside(x, s) ==
    \/ x.op = "set"
    \/ x.op = "test" /\ x.i = 0 /\ x.value = "jupyter-server"
    \/ x.op = "test" /\ x.i = 1 /\ x.value = Auth(s)
    \/ x.op = "append" /\ x.list = "volumes"

\* It adds a container; git-clone is an init container.
Adds(x, s, V) ==
    /\ x.op = "append" /\ x.list \in {"containers", "initContainers"}
    /\ Good(x.value, s, V)
    /\ x.list = "containers" => x.value.name # "git-clone"

\* It adds to one of the first two containers.
Extends(x, s, V) ==
    /\ x.op = "extend" /\ x.list = "containers"
    /\ \/ x.i = 0 /\ x.meant = "jupyter-server"
       \/ x.i = 1 /\ x.meant = Auth(s)
    /\ \/ x.field = "args"
       \/ x.field = "mounts" /\ x.value \in V
       \/ x.field = "env" /\ x.value \in Env(x.meant, s)

\* It tells git-clone of a storage, or would have done so.
Tells(x, s, inits) ==
    /\ x.op = "extend" /\ x.list = "initContainers" /\ x.i = 2 /\ x.field = "env"
    /\ x.meant = "git-clone" /\ x.value \in StorageEnv(s)
    /\ s.storages # <<>> /\ s.repositories # <<>>
    /\ Len(inits) >= 3
    /\ inits[3] = IF s.secrets THEN "download-image" ELSE "git-clone"

\* A patch that leaves the init containers the ones they are.
Quiet(x, s, V, inits) ==
    \/ Aside(x, s) \/ Extends(x, s, V) \/ Tells(x, s, inits)
    \/ Adds(x, s, V) /\ x.list = "containers"

\* The init containers after it.
InitsAfter(inits, x) ==
    IF x.op = "append" /\ x.list = "initContainers"
        THEN Append(inits, x.value.name) ELSE inits

\* The same container, with all that it had.
Larger(c, d) ==
    /\ d.name = c.name
    /\ \A field \in {"mounts", "env"} : field \in DOMAIN c =>
           field \in DOMAIN d /\ c[field] \subseteq d[field]

\* What there was is still there.
Grows(p, q) ==
    /\ p.volumes \subseteq q.volumes
    /\ \A list \in {"containers", "initContainers"} : \A k \in DOMAIN p[list] :
           k \in DOMAIN q[list] /\ Larger(p[list][k], q[list][k])

\* A container has what the patch adds to it.
Has(c, x) ==
    x.field # "args" =>
        /\ x.field \in {"mounts", "env"} /\ x.field \in DOMAIN c
        /\ x.value \in c[x.field]

\* A patch has done what it was meant to do.
Done(p, x) ==
    /\ x.op = "append" /\ x.list = "volumes" => x.value \in p.volumes
    /\ x.op = "append" /\ x.list = "containers" =>
           \E k \in DOMAIN p.containers : p.containers[k].name = x.value.name
    /\ x.op = "extend" =>
           /\ x.list \in {"containers", "initContainers"}
           /\ x.i + 1 \in DOMAIN p[x.list]
           /\ p[x.list][x.i + 1].name = x.meant
           /\ Has(p[x.list][x.i + 1], x)

\* The containers of a well-built pod are numbered.
LEMMA GoodListFacts ==
    ASSUME NEW cs, NEW s, NEW V, GoodList(cs, s, V)
    PROVE  Len(cs) \in Nat /\ DOMAIN cs = 1 .. Len(cs)
BY SeqElements DEF GoodList

\* There are no containers in the pod that failed.
LEMMA NotFailed ==
    ASSUME NEW p, NEW s, NEW V, NEW inits, WellBuilt(p, s, V, inits)
    PROVE  p # Failed
<1>1. Len(Failed.containers) = 0
  BY DEF Failed
<1> QED BY <1>1 DEF WellBuilt

\* A container has what it has.
LEMMA LargerSelf == \A c : Larger(c, c)
BY DEF Larger

\* More in one of its fields leaves a container good.
LEMMA ExtendedGood ==
    ASSUME NEW c, NEW s, NEW V, Good(c, s, V), c.name \in Extensible(s), NEW x,
           \/ x.field = "mounts" /\ x.value \in V
           \/ x.field = "env" /\ x.value \in Env(c.name, s)
    PROVE  /\ Good(Extended(c, x), s, V)
           /\ Larger(c, Extended(c, x)) /\ Has(Extended(c, x), x)
<1>0. Auth(s) \in {"oauth2-proxy", "passthrough-proxy"}
  BY DEF Auth
<1>1. DOMAIN c = {"name", "mounts", "env"} /\ c.env \subseteq Env(c.name, s)
      /\ c.mounts \subseteq V
  BY DEF Good
<1>2. CASE x.field = "mounts" /\ x.value \in V
  <2> DEFINE d == [c EXCEPT !["mounts"] = @ \cup {x.value}]
  <2>1. Extended(c, x) = d
    BY <1>2 DEF Extended
  <2>2. /\ DOMAIN d = {"name", "mounts", "env"} /\ d.name = c.name /\ d.env = c.env
        /\ d.mounts = c.mounts \cup {x.value}
    BY <1>1
  <2>3. d["env"] = d.env /\ c["env"] = c.env /\ d["mounts"] = d.mounts /\ c["mounts"] = c.mounts
    OBVIOUS
  <2> HIDE DEF d
  <2>4. Good(d, s, V)
    BY <1>0, <1>1, <1>2, <2>2 DEF Good, Extensible
  <2>5. Larger(c, d) /\ Has(d, x)
    BY <1>2, <2>2, <2>3 DEF Larger, Has
  <2> QED BY <2>1, <2>4, <2>5
<1>3. CASE x.field = "env" /\ x.value \in Env(c.name, s)
  <2> DEFINE d == [c EXCEPT !["env"] = @ \cup {x.value}]
  <2>1. Extended(c, x) = d
    BY <1>3 DEF Extended
  <2>2. /\ DOMAIN d = {"name", "mounts", "env"} /\ d.name = c.name /\ d.mounts = c.mounts
        /\ d.env = c.env \cup {x.value}
    BY <1>1
  <2>3. d["env"] = d.env /\ c["env"] = c.env /\ d["mounts"] = d.mounts /\ c["mounts"] = c.mounts
    OBVIOUS
  <2> HIDE DEF d
  <2>4. Good(d, s, V)
    BY <1>0, <1>1, <1>3, <2>2 DEF Good, Extensible
  <2>5. Larger(c, d) /\ Has(d, x)
    BY <1>3, <2>2, <2>3 DEF Larger, Has
  <2> QED BY <2>1, <2>4, <2>5
<1> QED BY <1>2, <1>3

\* The same in its list.
LEMMA ExtendedList ==
    ASSUME NEW cs, NEW s, NEW V, GoodList(cs, s, V), NEW j \in 1 .. Len(cs),
           NEW d, Good(d, s, V)
    PROVE  /\ GoodList([cs EXCEPT ![j] = d], s, V)
           /\ Len([cs EXCEPT ![j] = d]) = Len(cs)
           /\ \A k \in 1 .. Len(cs) :
                  [cs EXCEPT ![j] = d][k] = IF k = j THEN d ELSE cs[k]
<1> DEFINE ds == [cs EXCEPT ![j] = d]
           n == Len(cs)
           T == ToSet(cs) \cup {d}
<1>0. n \in Nat /\ DOMAIN cs = 1 .. n /\ \A k \in 1 .. n : cs[k] \in T
  BY SeqElements DEF GoodList
<1> HIDE DEF T
<1>1. /\ IsSeq(ds) /\ Len(ds) = Len(cs)
      /\ \A k \in 1 .. Len(cs) : ds[k] = IF k = j THEN d ELSE cs[k]
  <2>1. \A k \in 1 .. n : ds[k] = IF k = j THEN d ELSE cs[k]
    BY <1>0
  <2>2. d \in T
    BY DEF T
  <2>3. DOMAIN ds = 1 .. n /\ ds = [k \in 1 .. n |-> ds[k]]
    BY <1>0
  <2> HIDE DEF ds
  <2>4. ds \in [1 .. n -> T]
    <3>1. \A k \in 1 .. n : ds[k] \in T
      BY <1>0, <2>1, <2>2
    <3> HIDE DEF n
    <3> QED BY <2>3, <3>1
  <2>5. IsSeq(ds) /\ Len(ds) = n
    <3> HIDE DEF n
    <3> QED BY <1>0, <2>4, FunctionIsSeq
  <2> QED BY <2>1, <2>5
<1> HIDE DEF ds
<1>2. DOMAIN ds = 1 .. Len(cs)
  BY <1>1, SeqElements
<1>3. \A k \in DOMAIN ds : Good(ds[k], s, V)
  BY <1>1, <1>2, GoodListFacts DEF GoodList
<1> QED BY <1>1, <1>3 DEF GoodList, ds

\* A list with a container more.
LEMMA LongerList ==
    ASSUME NEW cs, NEW s, NEW V, GoodList(cs, s, V), NEW d, Good(d, s, V)
    PROVE  /\ GoodList(Append(cs, d), s, V)
           /\ Len(Append(cs, d)) = Len(cs) + 1
           /\ \A k \in 1 .. Len(cs) : Append(cs, d)[k] = cs[k]
           /\ Append(cs, d)[Len(cs) + 1] = d
<1> DEFINE ds == Append(cs, d)
<1>1. /\ IsSeq(ds) /\ Len(ds) = Len(cs) + 1
      /\ \A k \in 1 .. Len(cs) : ds[k] = cs[k]
      /\ ds[Len(cs) + 1] = d
  BY Appended DEF GoodList
<1> HIDE DEF ds
<1>2. DOMAIN ds = 1 .. Len(cs) + 1 /\ Len(cs) \in Nat
  BY <1>1, SeqElements, GoodListFacts
<1>3. \A k \in DOMAIN ds : Good(ds[k], s, V)
  BY <1>1, <1>2, GoodListFacts DEF GoodList
<1> QED BY <1>1, <1>3 DEF GoodList, ds

\* What a patch makes of a well-built pod.
Builds(p, x, s, V, inits) ==
    /\ WellBuilt(Apply(p, x), s, V, InitsAfter(inits, x))
    /\ Grows(p, Apply(p, x))
    /\ Done(Apply(p, x), x)

\* Patches that touch no container.
LEMMA AsideBuilds ==
    ASSUME NEW p, NEW s, NEW V, NEW inits, WellBuilt(p, s, V, inits),
           NEW x, Aside(x, s)
    PROVE  Builds(p, x, s, V, inits)
<1>1. p # Failed
  BY NotFailed
<1>2. CASE x.op = "set" \/ x.op = "test"
  <2>1. Fits(p, x) /\ Patched(p, x) = p
    BY <1>2 DEF Fits, Patched, Aside, WellBuilt
  <2>2. Apply(p, x) = p
    BY <1>1, <2>1 DEF Apply
  <2>3. Grows(p, p) /\ Done(p, x) /\ InitsAfter(inits, x) = inits
    BY <1>2, LargerSelf DEF Grows, Done, InitsAfter
  <2> QED BY <2>2, <2>3 DEF Builds
<1>3. CASE x.op = "append" /\ x.list = "volumes"
  <2> DEFINE q == [p EXCEPT !.volumes = @ \cup {x.value}]
  <2>1. Fits(p, x) /\ Patched(p, x) = q
    BY <1>3 DEF Fits, Patched
  <2>2. Apply(p, x) = q
    BY <1>1, <2>1 DEF Apply
  <2>3. /\ DOMAIN q = {"initContainers", "containers", "volumes"}
        /\ q.containers = p.containers /\ q.initContainers = p.initContainers
        /\ q.volumes = p.volumes \cup {x.value}
    BY DEF WellBuilt
  <2> HIDE DEF q
  <2>4. WellBuilt(q, s, V, inits)
    BY <2>3 DEF WellBuilt
  <2>5. q["containers"] = p["containers"] /\ q["initContainers"] = p["initContainers"]
    BY <2>3
  <2>6. Grows(p, q) /\ Done(q, x) /\ InitsAfter(inits, x) = inits
    BY <1>3, <2>3, <2>5, LargerSelf DEF Grows, Done, InitsAfter
  <2> QED BY <2>2, <2>4, <2>6 DEF Builds
<1> QED BY <1>2, <1>3 DEF Aside

\* Patches that add a container.
LEMMA AddsBuilds ==
    ASSUME NEW p, NEW s, NEW V, NEW inits, WellBuilt(p, s, V, inits),
           NEW x, Adds(x, s, V)
    PROVE  Builds(p, x, s, V, inits)
<1>1. p # Failed
  BY NotFailed
<1>2. CASE x.list = "containers"
  <2> DEFINE cs == p.containers
             ds == Append(cs, x.value)
             q == [p EXCEPT !["containers"] = Append(@, x.value)]
  <2>1. Fits(p, x) /\ Patched(p, x) = q
    BY <1>2 DEF Fits, Patched, Adds
  <2>2. Apply(p, x) = q
    BY <1>1, <2>1 DEF Apply
  <2>3. /\ DOMAIN q = {"initContainers", "containers", "volumes"}
        /\ q.containers = ds /\ q.initContainers = p.initContainers
        /\ q.volumes = p.volumes
    BY DEF WellBuilt
  <2>4. /\ GoodList(ds, s, V) /\ Len(ds) = Len(cs) + 1
        /\ \A k \in 1 .. Len(cs) : ds[k] = cs[k]
        /\ ds[Len(cs) + 1] = x.value
    BY LongerList DEF WellBuilt, Adds
  <2>5. Len(cs) \in Nat /\ DOMAIN cs = 1 .. Len(cs) /\ DOMAIN ds = 1 .. Len(cs) + 1
    BY <2>4, GoodListFacts DEF WellBuilt
  <2> HIDE DEF q, ds
  <2>6. WellBuilt(q, s, V, inits)
    <3>1. \A k \in DOMAIN ds : ds[k].name # "git-clone"
      <4>1. \A k \in 1 .. Len(cs) : cs[k].name # "git-clone"
        BY <2>5 DEF WellBuilt
      <4>2. x.value.name # "git-clone"
        BY <1>2 DEF Adds
      <4> QED BY <2>4, <2>5, <4>1, <4>2
    <3> QED BY <2>3, <2>4, <2>5, <3>1 DEF WellBuilt
  <2>7. q["containers"] = ds /\ q["initContainers"] = p["initContainers"]
        /\ p["containers"] = cs
    BY <2>3
  <2>8. Grows(p, q)
    BY <2>3, <2>4, <2>5, <2>7, LargerSelf DEF Grows
  <2>9. Done(q, x) /\ InitsAfter(inits, x) = inits
    BY <1>2, <2>3, <2>4, <2>5 DEF Adds, Done, InitsAfter
  <2> QED BY <2>2, <2>6, <2>8, <2>9 DEF Builds
<1>3. CASE x.list = "initContainers"
  <2> DEFINE cs == p.initContainers
             ds == Append(cs, x.value)
             q == [p EXCEPT !["initContainers"] = Append(@, x.value)]
             names == Append(inits, x.value.name)
  <2>1. Fits(p, x) /\ Patched(p, x) = q
    BY <1>3 DEF Fits, Patched, Adds
  <2>2. Apply(p, x) = q
    BY <1>1, <2>1 DEF Apply
  <2>3. /\ DOMAIN q = {"initContainers", "containers", "volumes"}
        /\ q.initContainers = ds /\ q.containers = p.containers
        /\ q.volumes = p.volumes
    BY DEF WellBuilt
  <2>4. /\ GoodList(ds, s, V) /\ Len(ds) = Len(cs) + 1
        /\ \A k \in 1 .. Len(cs) : ds[k] = cs[k]
        /\ ds[Len(cs) + 1] = x.value
    BY LongerList DEF WellBuilt, Adds
  <2>5. Len(cs) \in Nat /\ DOMAIN cs = 1 .. Len(cs) /\ DOMAIN ds = 1 .. Len(cs) + 1
    BY <2>4, GoodListFacts DEF WellBuilt
  <2>6. /\ IsSeq(names) /\ Len(names) = Len(inits) + 1
        /\ \A k \in 1 .. Len(inits) : names[k] = inits[k]
        /\ names[Len(inits) + 1] = x.value.name
    <3>1. IsSeq(inits)
      BY DEF WellBuilt
    <3> QED BY <3>1, Appended
  <2>7. Len(cs) = Len(inits) /\ \A k \in 1 .. Len(inits) : cs[k].name = inits[k]
    BY DEF WellBuilt, Named
  <2> HIDE DEF q, ds, names
  <2>8. Named(ds, names)
    BY <2>4, <2>5, <2>6, <2>7 DEF Named
  <2>9. WellBuilt(q, s, V, names)
    BY <2>3, <2>4, <2>6, <2>8 DEF WellBuilt
  <2>10. q["initContainers"] = ds /\ q["containers"] = p["containers"]
         /\ p["initContainers"] = cs
    BY <2>3
  <2>11. Grows(p, q)
    BY <2>3, <2>4, <2>5, <2>10, LargerSelf DEF Grows
  <2>12. Done(q, x) /\ InitsAfter(inits, x) = names
    BY <1>3 DEF Adds, Done, InitsAfter, names
  <2> QED BY <2>2, <2>9, <2>11, <2>12 DEF Builds
<1> QED BY <1>2, <1>3 DEF Adds

\* Patches that add to one of the first two containers.
LEMMA ExtendsBuilds ==
    ASSUME NEW p, NEW s, NEW V, NEW inits, WellBuilt(p, s, V, inits),
           NEW x, Extends(x, s, V)
    PROVE  Builds(p, x, s, V, inits)
<1> DEFINE cs == p.containers
           j == x.i + 1
<1>1. p # Failed
  BY NotFailed
<1>2. Len(cs) \in Nat /\ DOMAIN cs = 1 .. Len(cs) /\ j \in 1 .. Len(cs)
      /\ p[x.list] = cs /\ p["containers"] = cs /\ cs[j].name = x.meant
      /\ x.list = "containers"
  BY GoodListFacts DEF WellBuilt, Extends
<1>3. InitsAfter(inits, x) = inits
  BY DEF InitsAfter, Extends
<1>4. CASE x.field = "args"
  <2>1. Fits(p, x) /\ Patched(p, x) = p
    BY <1>4 DEF Fits, Patched, Extends
  <2>2. Apply(p, x) = p
    BY <1>1, <2>1 DEF Apply
  <2>3. Grows(p, p) /\ Done(p, x)
    BY <1>2, <1>4, LargerSelf DEF Grows, Done, Has, Extends
  <2> QED BY <1>3, <2>2, <2>3 DEF Builds
<1>5. CASE x.field # "args"
  <2> DEFINE d == Extended(cs[j], x)
             ds == [cs EXCEPT ![j] = d]
             q == [p EXCEPT !["containers"] = ds]
  <2>1. Good(cs[j], s, V) /\ cs[j].name \in Extensible(s)
    BY <1>2 DEF WellBuilt, GoodList, Extends, Extensible
  <2>2. Good(d, s, V) /\ Larger(cs[j], d) /\ Has(d, x)
    BY <1>2, <1>5, <2>1, ExtendedGood DEF Extends
  <2>3. x.field \in DOMAIN cs[j]
    BY <1>5, <2>1 DEF Good, Extends
  <2>4. Fits(p, x)
    BY <1>2, <1>5, <2>3 DEF Fits, Extends
  <2>5. Patched(p, x) = [p EXCEPT !["containers"][j] = Extended(@, x)]
    BY <1>2, <1>5 DEF Patched, Extends
  <2>6. /\ GoodList(ds, s, V) /\ Len(ds) = Len(cs) /\ ds[j] = d
        /\ \A k \in 1 .. Len(cs) : Larger(cs[k], ds[k])
    <3>1. /\ GoodList(ds, s, V) /\ Len(ds) = Len(cs)
          /\ \A k \in 1 .. Len(cs) : ds[k] = IF k = j THEN d ELSE cs[k]
      BY <1>2, <2>2, ExtendedList DEF WellBuilt
    <3> HIDE DEF ds, d, j
    <3> QED BY <1>2, <2>2, <3>1, LargerSelf
  <2>7. [p EXCEPT !["containers"][j] = Extended(@, x)] = q
    BY <1>2
  <2>8. Apply(p, x) = q
    BY <1>1, <2>4, <2>5, <2>7 DEF Apply
  <2>9. /\ DOMAIN q = {"initContainers", "containers", "volumes"}
        /\ q.containers = ds /\ q.initContainers = p.initContainers
        /\ q.volumes = p.volumes
    BY DEF WellBuilt
  <2>10. DOMAIN ds = 1 .. Len(cs)
    BY <2>6, GoodListFacts
  <2> HIDE DEF q, ds, d, j
  <2>11. WellBuilt(q, s, V, inits)
    BY <1>2, <2>6, <2>9 DEF WellBuilt, Larger
  <2>12. q["containers"] = ds /\ q["initContainers"] = p["initContainers"]
         /\ q[x.list] = ds
    BY <1>2, <2>9
  <2>13. Grows(p, q)
    BY <1>2, <2>6, <2>9, <2>10, <2>12, LargerSelf DEF Grows
  <2>14. Done(q, x)
    BY <1>2, <2>2, <2>6, <2>10, <2>12 DEF Done, Larger, Extends, j
  <2> QED BY <1>3, <2>8, <2>11, <2>13, <2>14 DEF Builds
<1> QED BY <1>4, <1>5

\* Patches that tell git-clone of a storage: they reach it, or the container
\* that has its index in its place has no variables and the pod fails.
LEMMA TellsBuilds ==
    ASSUME NEW p, NEW s, NEW V, NEW inits, WellBuilt(p, s, V, inits),
           NEW x, Tells(x, s, inits)
    PROVE  IF s.secrets THEN Apply(p, x) = Failed ELSE Builds(p, x, s, V, inits)
<1> DEFINE cs == p.initContainers
           c == cs[3]
<1>1. p # Failed
  BY NotFailed
<1>2. Len(cs) \in Nat /\ DOMAIN cs = 1 .. Len(cs) /\ 3 \in 1 .. Len(cs)
      /\ c.name = inits[3] /\ Good(c, s, V)
  <2>1. Len(cs) \in Nat /\ DOMAIN cs = 1 .. Len(cs)
    BY GoodListFacts DEF WellBuilt
  <2>2. Len(inits) >= 3 /\ Len(cs) = Len(inits)
    BY DEF Tells, WellBuilt, Named
  <2>3. 3 \in 1 .. Len(cs) /\ 3 \in 1 .. Len(inits) /\ 3 \in DOMAIN cs
    BY <2>1, <2>2
  <2> QED BY <2>1, <2>3 DEF WellBuilt, Named, GoodList
<1>3. x.i + 1 = 3 /\ p[x.list] = cs /\ p["initContainers"] = cs
      /\ x.list = "initContainers" /\ x.field = "env" /\ x.op = "extend"
  BY DEF Tells
<1>4. CASE s.secrets
  <2>1. "env" \notin DOMAIN c
    BY <1>2, <1>4 DEF Tells, Good
  <2>2. ~ Fits(p, x)
    BY <1>3, <2>1 DEF Fits
  <2> QED BY <1>4, <2>2 DEF Apply
<1>5. CASE ~ s.secrets
  <2> DEFINE d == Extended(c, x)
             ds == [cs EXCEPT ![3] = d]
             q == [p EXCEPT !["initContainers"] = ds]
  <2>1. c.name = "git-clone" /\ c.name \in Extensible(s)
    BY <1>2, <1>5 DEF Tells, Extensible
  <2>2. x.value \in Env(c.name, s)
    <3>1. Auth(s) # "git-clone"
      BY DEF Auth
    <3> QED BY <2>1, <3>1 DEF Env, Tells
  <2>3. Good(d, s, V) /\ Larger(c, d) /\ Has(d, x)
    BY <1>2, <1>3, <2>1, <2>2, ExtendedGood
  <2>4. "env" \in DOMAIN c
    BY <1>2, <2>1 DEF Good
  <2>5. Fits(p, x)
    BY <1>2, <1>3, <2>4 DEF Fits
  <2>6. Patched(p, x) = [p EXCEPT !["initContainers"][3] = Extended(@, x)]
    BY <1>3 DEF Patched
  <2>7. [p EXCEPT !["initContainers"][3] = Extended(@, x)] = q
    BY <1>3
  <2>8. /\ GoodList(ds, s, V) /\ Len(ds) = Len(cs) /\ ds[3] = d
        /\ \A k \in 1 .. Len(cs) : Larger(cs[k], ds[k])
    <3>1. /\ GoodList(ds, s, V) /\ Len(ds) = Len(cs)
          /\ \A k \in 1 .. Len(cs) : ds[k] = IF k = 3 THEN d ELSE cs[k]
      BY <1>2, <2>3, ExtendedList DEF WellBuilt
    <3> HIDE DEF ds, d
    <3> QED BY <1>2, <2>3, <3>1, LargerSelf
  <2>9. Apply(p, x) = q
    BY <1>1, <2>5, <2>6, <2>7 DEF Apply
  <2>10. /\ DOMAIN q = {"initContainers", "containers", "volumes"}
         /\ q.initContainers = ds /\ q.containers = p.containers
         /\ q.volumes = p.volumes
    BY DEF WellBuilt
  <2>11. DOMAIN ds = 1 .. Len(cs)
    BY <2>8, GoodListFacts
  <2> HIDE DEF q, ds, d
  <2>12. Named(ds, inits)
    BY <1>2, <2>8 DEF WellBuilt, Named, Larger
  <2>13. WellBuilt(q, s, V, inits)
    BY <2>8, <2>10, <2>12 DEF WellBuilt
  <2>14. q["initContainers"] = ds /\ q["containers"] = p["containers"]
         /\ q[x.list] = ds
    BY <1>3, <2>10
  <2>15. Grows(p, q)
    BY <1>2, <1>3, <2>8, <2>10, <2>11, <2>14, LargerSelf DEF Grows
  <2>16. Done(q, x)
    BY <1>2, <1>3, <2>1, <2>3, <2>8, <2>11, <2>14 DEF Done, Larger, Tells
  <2>17. InitsAfter(inits, x) = inits
    BY <1>3 DEF InitsAfter
  <2> QED BY <1>5, <2>9, <2>13, <2>15, <2>16, <2>17 DEF Builds
<1> QED BY <1>4, <1>5

\* What was done stays done.
LEMMA DoneStays ==
    ASSUME NEW p, NEW q, Grows(p, q), NEW x, Done(p, x)
    PROVE  Done(q, x)
<1>1. p["containers"] = p.containers /\ q["containers"] = q.containers
  OBVIOUS
<1>2. x.op = "append" => Done(q, x)
  BY <1>1 DEF Done, Grows, Larger
<1>3. x.op = "extend" => Done(q, x)
  <2> SUFFICES ASSUME x.op = "extend" PROVE Done(q, x)
    OBVIOUS
  <2> DEFINE c == p[x.list][x.i + 1]
             d == q[x.list][x.i + 1]
  <2>1. x.list \in {"containers", "initContainers"} /\ x.i + 1 \in DOMAIN p[x.list]
        /\ c.name = x.meant /\ Has(c, x)
    BY DEF Done
  <2>2. x.i + 1 \in DOMAIN q[x.list] /\ Larger(c, d)
    BY <2>1 DEF Grows
  <2> HIDE DEF c, d
  <2>3. Has(d, x) /\ d.name = x.meant
    BY <2>1, <2>2 DEF Has, Larger
  <2> QED BY <2>1, <2>2, <2>3 DEF Done, d
<1>4. x.op \notin {"append", "extend"} => Done(q, x)
  BY DEF Done
<1> QED BY <1>2, <1>3, <1>4

-----------------------------------------------------------------------------
(***************************************************************************)
(* The patches so far.                                                     *)
(***************************************************************************)

\* The patches that tell git-clone of the storages reach another container.
Unreachable(s) == s.secrets /\ s.storages # <<>> /\ s.repositories # <<>>

\* They have made a well-built pod in which all of them are done, or failed
\* for the one reason there is.
Stage(a, s, V, inits) ==
    /\ IsSeq(a)
    /\ \/ Applied(Base(s), a) = Failed /\ Unreachable(s)
       \/ /\ WellBuilt(Applied(Base(s), a), s, V, inits)
          /\ \A x \in ToSet(a) : Done(Applied(Base(s), a), x)

\* Before the first patch.
LEMMA BaseStage ==
    ASSUME NEW s, NEW V, "workspace" \in V
    PROVE  Stage(<<>>, s, V, <<>>)
<1> DEFINE jupyter == Container("jupyter-server", {"workspace"}, {})
           auth == Container(Auth(s), {}, {})
           p == Base(s)
<1>1. Auth(s) \in {"oauth2-proxy", "passthrough-proxy"}
  BY DEF Auth
<1>2. /\ DOMAIN jupyter = {"name", "mounts", "env"} /\ jupyter.name = "jupyter-server"
      /\ jupyter.mounts = {"workspace"} /\ jupyter.env = {}
      /\ DOMAIN auth = {"name", "mounts", "env"} /\ auth.name = Auth(s)
      /\ auth.mounts = {} /\ auth.env = {}
  BY DEF Container
<1>3. /\ DOMAIN p = {"initContainers", "containers", "volumes"}
      /\ p.initContainers = <<>> /\ p.containers = <<jupyter, auth>>
      /\ "workspace" \in p.volumes
  BY DEF Base
<1> HIDE DEF jupyter, auth, p
<1>4. Good(jupyter, s, V) /\ Good(auth, s, V)
  BY <1>1, <1>2 DEF Good
<1>5. GoodList(<<jupyter, auth>>, s, V) /\ Len(<<jupyter, auth>>) = 2
  <2>1. <<jupyter, auth>> \in Seq({jupyter, auth}) /\ DOMAIN <<jupyter, auth>> = 1 .. 2
        /\ <<jupyter, auth>>[1] = jupyter /\ <<jupyter, auth>>[2] = auth
    OBVIOUS
  <2>2. IsSeq(<<jupyter, auth>>)
    BY <2>1, SeqFacts
  <2> QED BY <1>4, <2>1, <2>2 DEF GoodList
<1>6. IsSeq(<<>>) /\ ToSet(<<>>) = {} /\ DOMAIN <<>> = {} /\ Len(<<>>) = 0
  <2>1. IsSeq(<<>>) /\ ToSet(<<>>) = {}
    BY Shortest
  <2>2. DOMAIN <<>> = {} /\ Len(<<>>) = 0
    OBVIOUS
  <2> QED BY <2>1, <2>2
<1>7. GoodList(<<>>, s, V) /\ Named(<<>>, <<>>)
  BY <1>6 DEF GoodList, Named
<1>8. WellBuilt(p, s, V, <<>>)
  <2>1. /\ <<jupyter, auth>>[1] = jupyter /\ <<jupyter, auth>>[2] = auth
        /\ DOMAIN <<jupyter, auth>> = 1 .. 2
    OBVIOUS
  <2>2. \A k \in DOMAIN <<jupyter, auth>> : <<jupyter, auth>>[k].name # "git-clone"
    <3>1. jupyter.name # "git-clone" /\ auth.name # "git-clone"
      BY <1>1, <1>2
    <3>2. \A k \in 1 .. 2 : k = 1 \/ k = 2
      OBVIOUS
    <3> QED BY <2>1, <3>1, <3>2
  <2> QED BY <1>2, <1>3, <1>5, <1>6, <1>7, <2>1, <2>2 DEF WellBuilt
<1>9. Applied(Base(s), <<>>) = p
  BY AppliedNone DEF p
<1> QED BY <1>6, <1>8, <1>9 DEF Stage

\* A patch more, which adds an init container or leaves them as they are.
LEMMA StageStep ==
    ASSUME NEW a, NEW s, NEW V, NEW inits, Stage(a, s, V, inits),
           NEW x, Quiet(x, s, V, inits) \/ Adds(x, s, V)
    PROVE  Stage(Append(a, x), s, V, InitsAfter(inits, x))
<1> DEFINE p == Applied(Base(s), a)
           b == Append(a, x)
<1>1. IsSeq(b) /\ ToSet(b) = ToSet(a) \cup {x}
  BY Appended DEF Stage
<1>2. Applied(Base(s), b) = Apply(p, x)
  BY AppliedAppend DEF Stage
<1> HIDE DEF b
<1>3. CASE p = Failed /\ Unreachable(s)
  <2>1. Apply(p, x) = Failed
    BY <1>3 DEF Apply
  <2> QED BY <1>1, <1>2, <1>3, <2>1 DEF Stage, b
<1>4. CASE WellBuilt(p, s, V, inits) /\ \A y \in ToSet(a) : Done(p, y)
  <2>1. Builds(p, x, s, V, inits) \/ (Apply(p, x) = Failed /\ Unreachable(s))
    <3>1. Tells(x, s, inits) => s.storages # <<>> /\ s.repositories # <<>>
      BY DEF Tells
    <3> HIDE DEF p
    <3> QED BY <1>4, <3>1, AsideBuilds, AddsBuilds, ExtendsBuilds, TellsBuilds
            DEF Quiet, Unreachable
  <2>2. CASE Apply(p, x) = Failed /\ Unreachable(s)
    BY <1>1, <1>2, <2>2 DEF Stage, b
  <2>3. CASE Builds(p, x, s, V, inits)
    <3>1. \A y \in ToSet(a) : Done(Apply(p, x), y)
      <4> HIDE DEF p
      <4> QED BY <1>4, <2>3, DoneStays DEF Builds
    <3>2. WellBuilt(Apply(p, x), s, V, InitsAfter(inits, x)) /\ Done(Apply(p, x), x)
      BY <2>3 DEF Builds
    <3> HIDE DEF p
    <3> QED BY <1>1, <1>2, <3>1, <3>2 DEF Stage, b
  <2> QED BY <2>1, <2>2, <2>3
<1> QED BY <1>3, <1>4 DEF Stage

\* Patches that leave the init containers the ones they are.
Part(b, s, V, inits) == IsSeq(b) /\ \A x \in ToSet(b) : Quiet(x, s, V, inits)

\* A patch of a part leaves the names of the init containers alone.
LEMMA QuietInits ==
    ASSUME NEW x, NEW s, NEW V, NEW inits, Quiet(x, s, V, inits)
    PROVE  InitsAfter(inits, x) = inits
BY DEF InitsAfter, Quiet, Aside, Adds, Extends, Tells

\* A part more.
LEMMA StagePart ==
    ASSUME NEW a, NEW s, NEW V, NEW inits, Stage(a, s, V, inits),
           NEW b, Part(b, s, V, inits)
    PROVE  Stage(a \o b, s, V, inits)
<1> DEFINE T == ToSet(a) \cup ToSet(b)
           upTo(n) == a \o SubSeq(b, 1, n)
           S == {n \in Nat : n <= Len(b) => Stage(upTo(n), s, V, inits)}
<1>1. /\ a \in Seq(T) /\ b \in Seq(T) /\ Len(b) \in Nat
      /\ \A k \in 1 .. Len(b) : b[k] \in ToSet(b) /\ b[k] \in T
  <2>1. IsSeq(a) /\ IsSeq(b)
    BY DEF Stage, Part
  <2> QED BY <2>1, SeqElements, SeqMonotonic DEF IsSeq
<1> HIDE DEF T
<1>2. \A n \in 0 .. Len(b) : SubSeq(b, 1, n) \in Seq(T)
  BY <1>1, SubSeqProperties
<1>3. 0 \in S
  <2>1. SubSeq(b, 1, 0) = <<>>
    BY SubSeqEmpty
  <2>2. a \o <<>> = a
    BY <1>1, ConcatEmptySeq
  <2> QED BY <2>1, <2>2
<1>4. ASSUME NEW n \in Nat, n \in S PROVE n + 1 \in S
  <2> SUFFICES ASSUME n + 1 <= Len(b) PROVE Stage(upTo(n + 1), s, V, inits)
    OBVIOUS
  <2> DEFINE u == SubSeq(b, 1, n)
             x == b[n + 1]
  <2>1. n + 1 \in 1 .. Len(b) /\ n \in 0 .. Len(b) /\ 1 \in 1 .. Len(b)
        /\ n + 1 \in 1 .. Len(b) /\ (n + 1) - 1 = n
    BY <1>1
  <2>2. u \in Seq(T) /\ <<x>> \in Seq(T) /\ x \in ToSet(b)
    BY <1>1, <1>2, <2>1
  <2>3. SubSeq(b, 1, n + 1) = u \o <<x>>
    <3>1. SubSeq(b, 1, n + 1) = SubSeq(b, 1, (n + 1) - 1) \o <<b[n + 1]>>
      BY <1>1, <2>1, SubSeqRecursiveSecond
    <3> QED BY <2>1, <3>1
  <2>4. Stage(a \o u, s, V, inits)
    BY <1>4, <2>1
  <2> HIDE DEF u
  <2>5. a \o (u \o <<x>>) = (a \o u) \o <<x>>
    BY <1>1, <2>2, ConcatAssociative
  <2>6. (a \o u) \o <<x>> = Append(a \o u, x)
    <3>1. IsSeq(a \o u)
      BY <2>4 DEF Stage
    <3> QED BY <3>1, Appended
  <2>7. Quiet(x, s, V, inits)
    BY <2>2 DEF Part
  <2> HIDE DEF x
  <2>8. Stage(Append(a \o u, x), s, V, inits)
    BY <2>4, <2>7, StageStep, QuietInits
  <2> QED BY <2>3, <2>5, <2>6, <2>8
<1> HIDE DEF S
<1>5. Nat \subseteq S
  BY <1>3, <1>4, SetInduction
<1>6. SubSeq(b, 1, Len(b)) = b
  BY <1>1, SubSeqFull
<1>7. Stage(upTo(Len(b)), s, V, inits)
  <2>1. Len(b) \in S /\ Len(b) <= Len(b)
    BY <1>1, <1>5
  <2> QED BY <2>1 DEF S
<1> QED BY <1>6, <1>7

\* An init container more, and then patches of a part.
LEMMA StageInit ==
    ASSUME NEW a, NEW s, NEW V, NEW inits, Stage(a, s, V, inits),
           NEW c, Good(c, s, V),
           NEW b, Part(b, s, V, Append(inits, c.name))
    PROVE  Stage(a \o (AddTo("initContainers", c) \o b), s, V, Append(inits, c.name))
<1> DEFINE x == [op |-> "append", list |-> "initContainers", value |-> c]
           names == Append(inits, c.name)
<1>1. AddTo("initContainers", c) = <<x>>
  BY DEF AddTo
<1>2. Adds(x, s, V) /\ InitsAfter(inits, x) = names
  BY DEF Adds, InitsAfter
<1> HIDE DEF x
<1>3. Stage(Append(a, x), s, V, names)
  BY <1>2, StageStep
<1> HIDE DEF names
<1>4. Stage(Append(a, x) \o b, s, V, names)
  BY <1>3, StagePart DEF names
<1>5. Append(a, x) \o b = a \o (<<x>> \o b)
  <2> DEFINE T == (ToSet(a) \cup ToSet(b)) \cup {x}
  <2>1. a \in Seq(T) /\ b \in Seq(T) /\ <<x>> \in Seq(T) /\ IsSeq(a)
    <3>1. IsSeq(a) /\ IsSeq(b)
      BY DEF Stage, Part
    <3>2. a \in Seq(T) /\ b \in Seq(T)
      BY <3>1, SeqMonotonic DEF IsSeq
    <3> QED BY <3>1, <3>2
  <2> HIDE DEF T
  <2>2. Append(a, x) = a \o <<x>>
    BY <2>1, Appended
  <2> QED BY <2>1, <2>2, ConcatAssociative
<1> QED BY <1>1, <1>4, <1>5 DEF names

-----------------------------------------------------------------------------
(***************************************************************************)
(* The patches of each component are such a part.                          *)
(***************************************************************************)

\* No patches, and those of two components.
LEMMA PartConcat ==
    ASSUME NEW s, NEW V, NEW inits
    PROVE  /\ Part(<<>>, s, V, inits)
           /\ \A a, b : Part(a, s, V, inits) /\ Part(b, s, V, inits) =>
                  Part(a \o b, s, V, inits)
<1>1. Part(<<>>, s, V, inits)
  BY Shortest DEF Part
<1>2. ASSUME NEW a, NEW b, Part(a, s, V, inits), Part(b, s, V, inits)
      PROVE  Part(a \o b, s, V, inits)
  BY <1>2, Joined DEF Part
<1> QED BY <1>1, <1>2

\* One patch.
LEMMA PartOne ==
    ASSUME NEW s, NEW V, NEW inits, NEW x, Quiet(x, s, V, inits)
    PROVE  Part(<<x>>, s, V, inits)
BY Shortest DEF Part

\* Patches that touch no container.
LEMMA PartAside ==
    ASSUME NEW s, NEW V, NEW inits
    PROVE  /\ \A path : Part(Set(path), s, V, inits)
           /\ \A v : Part(AddTo("volumes", v), s, V, inits)
           /\ Part(Test(0, "jupyter-server"), s, V, inits)
           /\ Part(Test(1, Auth(s)), s, V, inits)
<1>1. ASSUME NEW path PROVE Part(Set(path), s, V, inits)
  <2> DEFINE x == [op |-> "set", path |-> path]
  <2>1. Quiet(x, s, V, inits)
    BY DEF Quiet, Aside
  <2> QED BY <2>1, PartOne DEF Set
<1>2. ASSUME NEW v PROVE Part(AddTo("volumes", v), s, V, inits)
  <2> DEFINE x == [op |-> "append", list |-> "volumes", value |-> v]
  <2>1. Quiet(x, s, V, inits)
    BY DEF Quiet, Aside
  <2> QED BY <2>1, PartOne DEF AddTo
<1>3. Part(Test(0, "jupyter-server"), s, V, inits)
  <2> DEFINE x == [op |-> "test", i |-> 0, value |-> "jupyter-server"]
  <2>1. Quiet(x, s, V, inits)
    BY DEF Quiet, Aside
  <2> QED BY <2>1, PartOne DEF Test
<1>4. Part(Test(1, Auth(s)), s, V, inits)
  <2> DEFINE x == [op |-> "test", i |-> 1, value |-> Auth(s)]
  <2>1. Quiet(x, s, V, inits)
    BY DEF Quiet, Aside
  <2> QED BY <2>1, PartOne DEF Test
<1> QED BY <1>1, <1>2, <1>3, <1>4

\* A container.
LEMMA PartContainer ==
    ASSUME NEW s, NEW V, NEW inits, NEW c, Good(c, s, V), c.name # "git-clone"
    PROVE  Part(AddTo("containers", c), s, V, inits)
<1> DEFINE x == [op |-> "append", list |-> "containers", value |-> c]
<1>1. Quiet(x, s, V, inits)
  BY DEF Quiet, Adds
<1> QED BY <1>1, PartOne DEF AddTo

\* A mount or a variable of one of the first two containers.
LEMMA PartExtends ==
    ASSUME NEW s, NEW V, NEW inits, NEW i, NEW meant, NEW field, NEW value,
           (i = 0 /\ meant = "jupyter-server") \/ (i = 1 /\ meant = Auth(s)),
           \/ field = "args"
           \/ field = "mounts" /\ value \in V
           \/ field = "env" /\ value \in Env(meant, s)
    PROVE  /\ Quiet(Extend("containers", i, field, value, meant), s, V, inits)
           /\ Part(AddIn("containers", i, field, value, meant), s, V, inits)
<1> DEFINE x == Extend("containers", i, field, value, meant)
<1>1. Quiet(x, s, V, inits)
  BY DEF Quiet, Extends, Extend
<1> QED BY <1>1, PartOne DEF AddIn

\* What is known of a server: the variables, and the storages.
IsServer(s) == IsSeq(s.env) /\ IsSeq(s.storages)

\* The same for mounts and variables.
LEMMA PartMount ==
    ASSUME NEW s, NEW V, NEW inits
    PROVE  /\ \A v \in V : Part(Mount(0, v, "jupyter-server"), s, V, inits)
           /\ \A v \in V : Part(Mount(1, v, Auth(s)), s, V, inits)
           /\ \A v \in AuthEnv : Part(AddEnv(1, v, Auth(s)), s, V, inits)
<1>1. Env(Auth(s), s) = AuthEnv
  BY DEF Env, Auth
<1> QED BY <1>1, PartExtends DEF Mount, AddEnv

\* test and the patches for scheduling.
LEMMA PartGeneral ==
    ASSUME NEW s, NEW V, NEW inits, "shm" \in V
    PROVE  /\ Part(TestPatches(s), s, V, inits)
           /\ Part(SchedulingPatches(s), s, V, inits)
           /\ Part(DevShm(s), s, V, inits)
           /\ Part(PullSecret(s), s, V, inits)
           /\ Part(OidcUnverifiedEmail(s), s, V, inits)
<1>1. Part(TestPatches(s), s, V, inits)
  <2>1. s.registered => Auth(s) = "oauth2-proxy"
    BY DEF Auth
  <2>2. CASE s.registered
    BY <2>1, <2>2, PartAside, PartConcat DEF TestPatches
  <2>3. CASE ~ s.registered
    BY <2>3, PartAside, PartConcat DEF TestPatches
  <2> QED BY <2>2, <2>3
<1>2. Part(SchedulingPatches(s), s, V, inits)
  BY PartAside, PartConcat DEF SchedulingPatches
<1>3. Part(DevShm(s), s, V, inits)
  BY PartAside, PartConcat, PartMount DEF DevShm
<1>4. Part(PullSecret(s), s, V, inits)
  BY PartAside, PartConcat DEF PullSecret
<1>5. Part(OidcUnverifiedEmail(s), s, V, inits)
  <2>1. <<"ALLOW_UNVERIFIED_EMAIL", "config">> \in AuthEnv
    BY DEF AuthEnv
  <2> QED BY <2>1, PartConcat, PartMount DEF OidcUnverifiedEmail
<1> QED BY <1>1, <1>2, <1>3, <1>4, <1>5

\* The variables of the session.
LEMMA PartEnv ==
    ASSUME NEW s, IsServer(s), NEW V, NEW inits
    PROVE  Part(EnvPatches(s), s, V, inits)
<1> DEFINE env == BuiltIn \o s.env
           patch(k) == Extend("containers", 0, "env", env[k], "jupyter-server")
<1>1. IsSeq(env)
  <2>1. IsSeq(BuiltIn)
    <3>1. BuiltIn \in Seq({<<"RENKU_USERNAME", "user">>, <<"MOUNT_PATH", "work_dir">>})
      BY DEF BuiltIn
    <3> QED BY <3>1, SeqFacts
  <2> QED BY <2>1, Joined DEF IsServer
<1>2. Len(env) \in Nat /\ DOMAIN env = 1 .. Len(env)
      /\ \A k \in DOMAIN env : env[k] \in ToSet(env)
  BY <1>1, SeqElements
<1>3. Env("jupyter-server", s) = ToSet(env)
  BY DEF Env, Auth
<1> HIDE DEF env
<1>4. ASSUME NEW k \in DOMAIN env PROVE Quiet(patch(k), s, V, inits)
  BY <1>2, <1>3, PartExtends
<1>5. EnvPatches(s) = [k \in DOMAIN env |-> patch(k)]
  BY DEF EnvPatches, env
<1> HIDE DEF patch
<1>6. EnvPatches(s) \in Seq({patch(k) : k \in DOMAIN env})
  <2>1. EnvPatches(s) \in [1 .. Len(env) -> {patch(k) : k \in DOMAIN env}]
    BY <1>2, <1>5
  <2> QED BY <1>2, <2>1, SeqDef
<1>7. IsSeq(EnvPatches(s))
  BY <1>6, SeqFacts
<1>8. \A x \in ToSet(EnvPatches(s)) : \E k \in DOMAIN env : x = patch(k)
  BY <1>5 DEF ToSet
<1> QED BY <1>4, <1>7, <1>8 DEF Part

\* The other patches that add no init container.
LEMMA PartComponents ==
    ASSUME NEW s, NEW V, NEW inits, {"workspace", EtcCerts} \subseteq V,
           s.env # <<>> => "renviron" \in V,
           SshEnabled /\ HostKey => "ssh-host-keys" \in V
    PROVE  /\ Part(Renviron(s), s, V, inits)
           /\ Part(GitProxy(s), s, V, inits)
           /\ Part(GitSidecar(s), s, V, inits)
           /\ Part(Ssh, s, V, inits)
           /\ Part(InjectCertificates(s), s, V, inits)
<1>0. Auth(s) \in {"oauth2-proxy", "passthrough-proxy"}
  BY DEF Auth
<1>1. Part(Renviron(s), s, V, inits)
  <2>1. CASE s.env = <<>>
    BY <2>1, PartConcat DEF Renviron
  <2>2. CASE s.env # <<>>
    BY <2>2, PartAside, PartConcat, PartMount DEF Renviron
  <2> QED BY <2>1, <2>2
<1>2. Part(GitProxy(s), s, V, inits)
  <2>1. CASE ~ NeedsGit(s)
    BY <2>1, PartConcat DEF GitProxy
  <2>2. CASE NeedsGit(s)
    <3> DEFINE c == Container("git-proxy", {EtcCerts}, ProxyEnv(s))
    <3>1. /\ DOMAIN c = {"name", "mounts", "env"} /\ c.name = "git-proxy"
          /\ c.mounts = {EtcCerts} /\ c.env = ProxyEnv(s)
      BY DEF Container
    <3>2. GitProxy(s) = AddTo("containers", c)
      BY <2>2 DEF GitProxy, ProxyEnv
    <3> HIDE DEF c
    <3>3. Env("git-proxy", s) = ProxyEnv(s)
      BY <1>0 DEF Env
    <3>4. Good(c, s, V)
      BY <1>0, <2>2, <3>1, <3>3 DEF Good, Extensible
    <3> QED BY <3>1, <3>2, <3>4, PartContainer
  <2> QED BY <2>1, <2>2
<1>3. Part(GitSidecar(s), s, V, inits)
  <2>1. CASE ~ NeedsGit(s)
    BY <2>1, PartConcat DEF GitSidecar
  <2>2. CASE NeedsGit(s)
    <3> DEFINE c == Container("git-sidecar", {"workspace"}, {<<"RENKU_USERNAME", "user">>})
               args == AddIn("containers", 1, "args", "--upstream", Auth(s))
    <3>1. /\ DOMAIN c = {"name", "mounts", "env"} /\ c.name = "git-sidecar"
          /\ c.mounts = {"workspace"} /\ c.env = {<<"RENKU_USERNAME", "user">>}
      BY DEF Container
    <3>2. GitSidecar(s) = (AddTo("containers", c) \o args) \o Set("serviceRpcServer")
      BY <2>2 DEF GitSidecar
    <3>3. Part(args, s, V, inits)
      BY PartExtends
    <3> HIDE DEF c, args
    <3>4. Env("git-sidecar", s) = {<<"RENKU_USERNAME", "user">>}
      BY <1>0 DEF Env
    <3>5. Good(c, s, V)
      BY <1>0, <3>1, <3>4 DEF Good, Extensible
    <3>6. Part(AddTo("containers", c), s, V, inits)
      BY <3>1, <3>5, PartContainer
    <3> QED BY <3>2, <3>3, <3>6, PartAside, PartConcat
  <2> QED BY <2>1, <2>2
<1>4. Part(Ssh, s, V, inits)
  <2>1. CASE ~ SshEnabled
    BY <2>1, PartConcat DEF Ssh
  <2>2. CASE SshEnabled /\ ~ HostKey
    BY <2>2, PartAside, PartConcat DEF Ssh
  <2>3. CASE SshEnabled /\ HostKey
    BY <2>3, PartAside, PartConcat, PartMount DEF Ssh
  <2> QED BY <2>1, <2>2, <2>3
<1>5. Part(InjectCertificates(s), s, V, inits)
  <2>1. <<"OAUTH2_PROXY_PROVIDER_CA_FILES", EtcCerts>> \in AuthEnv
    BY DEF AuthEnv
  <2> QED BY <2>1, PartConcat, PartMount DEF InjectCertificates
<1> QED BY <1>1, <1>2, <1>3, <1>4, <1>5

\* The loop over the storages defines a function.
LEMMA StorageLoopDefined ==
    ASSUME NEW s, NEW m \in Nat
    PROVE  \E upTo : upTo = [i \in 0 .. m |->
               IF i = 0 THEN <<>> ELSE upTo[i - 1] \o CloudStoragePatch(s, i)]
<1> DEFINE S == {n \in Nat : \E upTo : upTo = [i \in 0 .. n |->
               IF i = 0 THEN <<>> ELSE upTo[i - 1] \o CloudStoragePatch(s, i)]}
<1>1. 0 \in S
  <2> DEFINE upTo == [i \in 0 .. 0 |-> <<>>]
  <2>1. upTo = [i \in 0 .. 0 |->
                   IF i = 0 THEN <<>> ELSE upTo[i - 1] \o CloudStoragePatch(s, i)]
    OBVIOUS
  <2> QED BY <2>1
<1>2. ASSUME NEW n \in Nat, n \in S PROVE n + 1 \in S
  <2>1. PICK f : f = [i \in 0 .. n |->
                         IF i = 0 THEN <<>> ELSE f[i - 1] \o CloudStoragePatch(s, i)]
    BY <1>2
  <2> DEFINE g == [i \in 0 .. n + 1 |->
                      IF i = n + 1 THEN f[n] \o CloudStoragePatch(s, n + 1) ELSE f[i]]
  <2>2. ASSUME NEW i \in 0 .. n + 1
        PROVE  g[i] = IF i = 0 THEN <<>> ELSE g[i - 1] \o CloudStoragePatch(s, i)
    <3>1. CASE i = n + 1
      <4>1. g[i - 1] = f[n] /\ i # 0
        BY <3>1
      <4>2. g[i] = f[n] \o CloudStoragePatch(s, i)
        BY <3>1, Zenon
      <4> QED BY <4>1, <4>2, Zenon
    <3>2. CASE i # n + 1
      <4>1. i \in 0 .. n /\ g[i] = f[i] /\ (i # 0 => g[i - 1] = f[i - 1])
        BY <3>2
      <4>2. f[i] = IF i = 0 THEN <<>> ELSE f[i - 1] \o CloudStoragePatch(s, i)
        BY <2>1, <4>1
      <4> QED BY <4>1, <4>2
    <3> QED BY <3>1, <3>2
  <2>3. g = [i \in 0 .. n + 1 |->
                IF i = 0 THEN <<>> ELSE g[i - 1] \o CloudStoragePatch(s, i)]
    BY <2>2
  <2> HIDE DEF g
  <2>4. n + 1 \in Nat
    OBVIOUS
  <2> QED BY <2>3, <2>4, Zenon
<1> HIDE DEF S
<1>3. Nat \subseteq S
  BY <1>1, <1>2, SetInduction
<1> QED BY <1>3 DEF S

\* The patches of one storage.
LEMMA StoragePatchIsSeq ==
    ASSUME NEW s, NEW i
    PROVE  IsSeq(CloudStoragePatch(s, i))
<1>1. \A x : IsSeq(<<x>>)
  BY Shortest
<1>2. IsSeq(<<>>)
  BY Shortest
<1> QED BY <1>1, <1>2, Joined DEF CloudStoragePatch, Set, Mount, AddTo, AddIn

\* Those of all storages.
LEMMA StoragesJoined ==
    ASSUME NEW s, IsServer(s)
    PROVE  /\ IsSeq(CloudStorage(s))
           /\ \A x : x \in ToSet(CloudStorage(s)) <=>
                  \E i \in 1 .. Len(s.storages) : x \in ToSet(CloudStoragePatch(s, i))
<1> DEFINE m == Len(s.storages)
           f == CHOOSE upTo : upTo = [i \in 0 .. m |->
                    IF i = 0 THEN <<>> ELSE upTo[i - 1] \o CloudStoragePatch(s, i)]
           Right(n) ==
               /\ IsSeq(f[n])
               /\ \A x : x \in ToSet(f[n]) <=>
                      \E i \in 1 .. n : x \in ToSet(CloudStoragePatch(s, i))
           S == {n \in Nat : n <= m => Right(n)}
<1>1. m \in Nat
  BY SeqElements DEF IsServer
<1>2. f = [i \in 0 .. m |->
              IF i = 0 THEN <<>> ELSE f[i - 1] \o CloudStoragePatch(s, i)]
  BY <1>1, StorageLoopDefined
<1>3. CloudStorage(s) = f[m]
  BY DEF CloudStorage
<1> HIDE DEF f, m
<1>4. 0 \in S
  <2>1. f[0] = <<>>
    BY <1>1, <1>2
  <2>2. IsSeq(<<>>) /\ ToSet(<<>>) = {}
    BY Shortest
  <2>3. Right(0)
    BY <2>1, <2>2
  <2> HIDE DEF Right
  <2> QED BY <2>3
<1>5. ASSUME NEW n \in Nat, n \in S PROVE n + 1 \in S
  <2> SUFFICES ASSUME n + 1 <= m PROVE Right(n + 1)
    OBVIOUS
  <2>1. f[n + 1] = f[n] \o CloudStoragePatch(s, n + 1)
    <3>1. n + 1 \in 0 .. m /\ n + 1 # 0 /\ (n + 1) - 1 = n
      BY <1>1
    <3>2. f[n + 1] = f[(n + 1) - 1] \o CloudStoragePatch(s, n + 1)
      BY <1>2, <3>1, Zenon
    <3> QED BY <3>1, <3>2
  <2>2. Right(n)
    BY <1>1, <1>5
  <2>3. IsSeq(f[n + 1])
        /\ ToSet(f[n + 1]) = ToSet(f[n]) \cup ToSet(CloudStoragePatch(s, n + 1))
    BY <2>1, <2>2, StoragePatchIsSeq, Joined
  <2>4. 1 .. n + 1 = (1 .. n) \cup {n + 1}
    OBVIOUS
  <2> QED BY <2>2, <2>3, <2>4
<1> HIDE DEF S
<1>6. Nat \subseteq S
  BY <1>4, <1>5, SetInduction
<1>7. Right(m)
  <2>1. m \in S /\ m <= m
    BY <1>1, <1>6
  <2> QED BY <2>1 DEF S
<1> QED BY <1>3, <1>7 DEF m

\* The patches of cloud storages.
LEMMA PartStorage ==
    ASSUME NEW s, IsServer(s), NEW V,
           \A i \in 1 .. Len(s.storages) : ToString(i) \in V,
           NEW inits,
           s.storages # <<>> /\ s.repositories # <<>> =>
               /\ Len(inits) >= 3
               /\ inits[3] = IF s.secrets THEN "download-image" ELSE "git-clone"
    PROVE  Part(CloudStorage(s), s, V, inits)
<1>1. ASSUME NEW i \in 1 .. Len(s.storages)
      PROVE  Part(CloudStoragePatch(s, i), s, V, inits)
  <2> DEFINE x == Extend("initContainers", 2, "env", <<MountVariable[i], s.storages[i]>>,
                         "git-clone")
  <2>1. CASE s.repositories = <<>>
    BY <1>1, <2>1, PartAside, PartConcat, PartMount DEF CloudStoragePatch
  <2>2. CASE s.repositories # <<>>
    <3>1. i \in DOMAIN s.storages
      BY SeqElements DEF IsServer
    <3>2. s.storages # <<>>
      <4>1. DOMAIN <<>> = {}
        OBVIOUS
      <4> QED BY <3>1, <4>1
    <3>3. Quiet(x, s, V, inits)
      BY <2>2, <3>1, <3>2 DEF Quiet, Tells, Extend, StorageEnv
    <3>4. Part(AddIn("initContainers", 2, "env", <<MountVariable[i], s.storages[i]>>,
                     "git-clone"), s, V, inits)
      BY <3>3, PartOne DEF AddIn
    <3> QED BY <1>1, <2>2, <3>4, PartAside, PartConcat, PartMount DEF CloudStoragePatch
  <2> QED BY <2>1, <2>2
<1> QED BY <1>1, StoragesJoined DEF Part

-----------------------------------------------------------------------------
(***************************************************************************)
(* All patches.                                                            *)
(***************************************************************************)

\* The volumes of the pod: those that a patch adds, and the workspace.
Volumes(s) ==
    {"workspace"} \cup {x.value : x \in {x \in ToSet(Patches(s)) : x.op = "append"
                                                              /\ x.list = "volumes"}}

\* The init containers, in their order.
SecretsInits(s) == IF s.secrets THEN Append(<<>>, "init-user-secrets") ELSE <<>>

ImageInits(s) == Append(Append(SecretsInits(s), "init-certificates"), "download-image")

Inits(s) ==
    IF s.repositories = <<>> THEN ImageInits(s) ELSE Append(ImageInits(s), "git-clone")

\* What user_secrets and certificates add after their init containers.
SecretsRest ==
    (AddTo("volumes", "user-secrets-volume") \o AddTo("volumes", "k8s-secret-volume"))
        \o Mount(0, "user-secrets-volume", "jupyter-server")

CertificatesRest == AddTo("volumes", EtcCerts) \o AddTo("volumes", "custom-ca-certs")

\* The init containers as their patches make them.
SecretsContainer ==
    Container("init-user-secrets", {"k8s-secret-volume", "user-secrets-volume"},
              {<<"RENKU_ACCESS_TOKEN", "token">>})

CertificatesContainer ==
    [name |-> "init-certificates", mounts |-> {EtcCerts, "custom-ca-certs"}]

ImageContainer == [name |-> "download-image"]

CloneContainer(s) == Container("git-clone", {"workspace", EtcCerts}, CloneEnv(s))

\* The order of joining does not matter.
LEMMA JoinedTwice ==
    ASSUME NEW a, NEW b, NEW c, IsSeq(a), IsSeq(b), IsSeq(c)
    PROVE  (a \o b) \o c = a \o (b \o c)
<1> DEFINE T == (ToSet(a) \cup ToSet(b)) \cup ToSet(c)
<1>1. a \in Seq(T) /\ b \in Seq(T) /\ c \in Seq(T)
  BY SeqMonotonic DEF IsSeq
<1> HIDE DEF T
<1> QED BY <1>1, ConcatAssociative

\* One patch is a sequence.
LEMMA OneIsSeq ==
    /\ \A list, v : IsSeq(AddTo(list, v)) /\ AddTo(list, v) \o <<>> = AddTo(list, v)
    /\ \A i, v, meant : IsSeq(Mount(i, v, meant))
<1>1. \A x : IsSeq(<<x>>)
  BY Shortest
<1>2. ASSUME NEW x PROVE <<x>> \o <<>> = <<x>>
  <2>1. <<x>> \in Seq({x})
    OBVIOUS
  <2> QED BY <2>1, ConcatEmptySeq
<1> QED BY <1>1, <1>2 DEF AddTo, Mount, AddIn

\* The patches that add init containers, with these first.
LEMMA InitsFirst ==
    ASSUME NEW s
    PROVE  /\ UserSecrets(s) = IF s.secrets
                  THEN AddTo("initContainers", SecretsContainer) \o SecretsRest
                  ELSE <<>>
           /\ Certificates = AddTo("initContainers", CertificatesContainer)
                                 \o CertificatesRest
           /\ DownloadImage(s) = AddTo("initContainers", ImageContainer) \o <<>>
           /\ GitClone(s) = IF s.repositories = <<>> THEN <<>>
                  ELSE AddTo("initContainers", CloneContainer(s)) \o <<>>
<1>1. UserSecrets(s) = IF s.secrets
          THEN AddTo("initContainers", SecretsContainer) \o SecretsRest ELSE <<>>
  <2> DEFINE a == AddTo("initContainers", SecretsContainer)
             b == AddTo("volumes", "user-secrets-volume")
             c == AddTo("volumes", "k8s-secret-volume")
             d == Mount(0, "user-secrets-volume", "jupyter-server")
  <2>1. IsSeq(a) /\ IsSeq(b) /\ IsSeq(c) /\ IsSeq(d)
    BY OneIsSeq
  <2>2. UserSecrets(s) = IF s.secrets THEN ((a \o b) \o c) \o d ELSE <<>>
    BY DEF UserSecrets, SecretsContainer
  <2>3. SecretsRest = (b \o c) \o d
    BY DEF SecretsRest
  <2> HIDE DEF a, b, c, d
  <2>4. IsSeq(b \o c)
    BY <2>1, Joined
  <2>5. ((a \o b) \o c) \o d = (a \o (b \o c)) \o d
    BY <2>1, JoinedTwice
  <2>6. (a \o (b \o c)) \o d = a \o ((b \o c) \o d)
    <3>1. \A e : IsSeq(e) => (a \o e) \o d = a \o (e \o d)
      BY <2>1, JoinedTwice
    <3> QED BY <2>4, <3>1
  <2> QED BY <2>2, <2>3, <2>5, <2>6 DEF a
<1>2. Certificates = AddTo("initContainers", CertificatesContainer) \o CertificatesRest
  BY OneIsSeq, JoinedTwice DEF Certificates, CertificatesRest, CertificatesContainer
<1>3. DownloadImage(s) = AddTo("initContainers", ImageContainer) \o <<>>
  BY OneIsSeq DEF DownloadImage, ImageContainer
<1>4. GitClone(s) = IF s.repositories = <<>> THEN <<>>
          ELSE AddTo("initContainers", CloneContainer(s)) \o <<>>
  BY OneIsSeq DEF GitClone, CloneContainer, CloneEnv
<1> QED BY <1>1, <1>2, <1>3, <1>4

\* The init containers are good.
LEMMA InitsGood ==
    ASSUME NEW s, NEW V
    PROVE  /\ {"k8s-secret-volume", "user-secrets-volume"} \subseteq V
                  => Good(SecretsContainer, s, V)
           /\ {EtcCerts, "custom-ca-certs"} \subseteq V => Good(CertificatesContainer, s, V)
           /\ Good(ImageContainer, s, V)
           /\ s.repositories # <<>> /\ {"workspace", EtcCerts} \subseteq V
                  => Good(CloneContainer(s), s, V)
<1>0. Auth(s) \in {"oauth2-proxy", "passthrough-proxy"}
  BY DEF Auth
<1>1. {"k8s-secret-volume", "user-secrets-volume"} \subseteq V => Good(SecretsContainer, s, V)
  <2> DEFINE c == SecretsContainer
  <2>1. /\ DOMAIN c = {"name", "mounts", "env"} /\ c.name = "init-user-secrets"
        /\ c.mounts = {"k8s-secret-volume", "user-secrets-volume"}
        /\ c.env = {<<"RENKU_ACCESS_TOKEN", "token">>}
    BY DEF SecretsContainer, Container
  <2> HIDE DEF c
  <2>2. Env("init-user-secrets", s) = {<<"RENKU_ACCESS_TOKEN", "token">>}
    BY <1>0 DEF Env
  <2>3. EtcCerts \notin c.mounts
    BY <2>1 DEF EtcCerts
  <2>4. {"k8s-secret-volume", "user-secrets-volume"} \subseteq V => Good(c, s, V)
    BY <1>0, <2>1, <2>2, <2>3 DEF Good, Extensible
  <2> QED BY <2>4 DEF c
<1>2. {EtcCerts, "custom-ca-certs"} \subseteq V => Good(CertificatesContainer, s, V)
  <2> DEFINE c == CertificatesContainer
  <2>1. /\ DOMAIN c = {"name", "mounts"} /\ c.name = "init-certificates"
        /\ c.mounts = {EtcCerts, "custom-ca-certs"}
    BY DEF CertificatesContainer
  <2> HIDE DEF c
  <2>2. {EtcCerts, "custom-ca-certs"} \subseteq V => Good(c, s, V)
    BY <1>0, <2>1 DEF Good, Extensible
  <2> QED BY <2>2 DEF c
<1>3. Good(ImageContainer, s, V)
  <2> DEFINE c == ImageContainer
  <2>1. DOMAIN c = {"name"} /\ c.name = "download-image"
    BY DEF ImageContainer
  <2> HIDE DEF c
  <2>2. Good(c, s, V)
    BY <1>0, <2>1 DEF Good, Extensible
  <2> QED BY <2>2 DEF c
<1>4. s.repositories # <<>> /\ {"workspace", EtcCerts} \subseteq V
          => Good(CloneContainer(s), s, V)
  <2> DEFINE c == CloneContainer(s)
  <2>1. /\ DOMAIN c = {"name", "mounts", "env"} /\ c.name = "git-clone"
        /\ c.mounts = {"workspace", EtcCerts} /\ c.env = CloneEnv(s)
    BY DEF CloneContainer, Container
  <2> HIDE DEF c
  <2>2. CloneEnv(s) \subseteq Env("git-clone", s)
    BY <1>0 DEF Env
  <2>3. s.repositories # <<>> /\ {"workspace", EtcCerts} \subseteq V => Good(c, s, V)
    BY <1>0, <2>1, <2>2 DEF Good, Extensible
  <2> QED BY <2>3 DEF c
<1> QED BY <1>1, <1>2, <1>3, <1>4

\* All volumes that there can be.
AnyVolumes(s) ==
    {"workspace", "shm", "renviron", "ssh-host-keys", "user-secrets-volume",
     "k8s-secret-volume", EtcCerts, "custom-ca-certs"}
        \cup {ToString(i) : i \in 1 .. Len(s.storages)}

\* The init containers where the patches find them.
LEMMA InitsFacts ==
    ASSUME NEW s
    PROVE  /\ s.repositories # <<>> =>
                  /\ Len(Inits(s)) >= 3
                  /\ Inits(s)[3] = IF s.secrets THEN "download-image" ELSE "git-clone"
           /\ \A k \in 1 .. Len(Inits(s)) :
                  Inits(s)[k] = "git-clone" => k = IF s.secrets THEN 4 ELSE 3
           /\ \A k \in 1 .. Len(Inits(s)) :
                  \/ Inits(s)[k] = "init-user-secrets"
                  \/ \E l \in 1 .. k : Inits(s)[l] = "init-certificates"
<1> DEFINE n == IF s.secrets THEN 1 ELSE 0
           i1 == SecretsInits(s)
           i2 == Append(i1, "init-certificates")
           i3 == ImageInits(s)
           i4 == Inits(s)
<1>1. IsSeq(i1) /\ Len(i1) = n /\ \A k \in 1 .. n : i1[k] = "init-user-secrets"
  <2>1. IsSeq(<<>>) /\ Len(<<>>) = 0
    <3>1. Len(<<>>) = 0
      OBVIOUS
    <3> QED BY <3>1, Shortest
  <2>2. CASE s.secrets
    <3> DEFINE x == "init-user-secrets"
    <3>1. i1 = <<x>> /\ n = 1
      BY <2>2 DEF SecretsInits
    <3>2. Len(<<x>>) = 1 /\ <<x>>[1] = x
      OBVIOUS
    <3> QED BY <3>1, <3>2, Shortest
  <2>3. CASE ~ s.secrets
    <3>1. i1 = <<>> /\ n = 0
      BY <2>3 DEF SecretsInits
    <3> QED BY <2>1, <3>1
  <2> QED BY <2>2, <2>3
<1>2. n \in {0, 1} /\ (n = 1 <=> s.secrets)
  OBVIOUS
<1>3. i3 = Append(i2, "download-image")
  BY DEF ImageInits
<1>4. i4 = IF s.repositories = <<>> THEN i3 ELSE Append(i3, "git-clone")
  BY DEF Inits
<1> HIDE DEF n, i1, i3, i4
<1>5. /\ IsSeq(i2) /\ Len(i2) = n + 1 /\ i2[n + 1] = "init-certificates"
      /\ \A k \in 1 .. n : i2[k] = "init-user-secrets"
  <2> DEFINE x == "init-certificates"
  <2>1. i2 = Append(i1, x)
    OBVIOUS
  <2> HIDE DEF x, i2
  <2>2. /\ IsSeq(Append(i1, x)) /\ Len(Append(i1, x)) = Len(i1) + 1
        /\ Append(i1, x)[Len(i1) + 1] = x
        /\ \A k \in 1 .. Len(i1) : Append(i1, x)[k] = i1[k]
    BY <1>1, Appended
  <2> QED BY <1>1, <2>1, <2>2 DEF x
<1> HIDE DEF i2
<1>6. /\ IsSeq(i3) /\ Len(i3) = n + 2 /\ i3[n + 2] = "download-image"
      /\ \A k \in 1 .. n + 1 : i3[k] = i2[k]
  <2> DEFINE x == "download-image"
  <2>1. i3 = Append(i2, x)
    BY <1>3
  <2> HIDE DEF x
  <2>2. /\ IsSeq(Append(i2, x)) /\ Len(Append(i2, x)) = Len(i2) + 1
        /\ Append(i2, x)[Len(i2) + 1] = x
        /\ \A k \in 1 .. Len(i2) : Append(i2, x)[k] = i2[k]
    <3>1. IsSeq(i2)
      BY <1>5
    <3> QED BY <3>1, Appended
  <2>3. (n + 1) + 1 = n + 2
    BY <1>2
  <2> QED BY <1>5, <2>1, <2>2, <2>3 DEF x
<1>7. /\ Len(i4) = IF s.repositories = <<>> THEN n + 2 ELSE n + 3
      /\ s.repositories # <<>> => i4[n + 3] = "git-clone"
      /\ i4[n + 2] = "download-image" /\ i4[n + 1] = "init-certificates"
      /\ \A k \in 1 .. n : i4[k] = "init-user-secrets"
  <2> DEFINE x == "git-clone"
  <2>1. i4 = IF s.repositories = <<>> THEN i3 ELSE Append(i3, x)
    BY <1>4
  <2> HIDE DEF x
  <2>3. (n + 2) + 1 = n + 3
    BY <1>2
  <2>4. /\ n + 2 \in 1 .. n + 2 /\ n + 1 \in 1 .. n + 1 /\ n + 1 \in 1 .. n + 2
        /\ \A k \in 1 .. n : k \in 1 .. n + 1 /\ k \in 1 .. n + 2
    BY <1>2
  <2>5. s.repositories # <<>> => /\ Len(i4) = n + 3 /\ i4[n + 3] = x
                                /\ \A k \in 1 .. n + 2 : i4[k] = i3[k]
    BY <1>6, <2>1, <2>3, Appended
  <2>6. s.repositories = <<>> => i4 = i3
    BY <2>1
  <2> QED BY <1>5, <1>6, <2>4, <2>5, <2>6 DEF x
<1>8. s.repositories # <<>> =>
          /\ Len(i4) >= 3
          /\ i4[3] = IF s.secrets THEN "download-image" ELSE "git-clone"
  BY <1>2, <1>7
<1>9. ASSUME NEW k \in 1 .. Len(i4)
      PROVE  \/ i4[k] = "init-user-secrets"
             \/ \E l \in 1 .. k : i4[l] = "init-certificates"
  <2>1. k \in 1 .. n \/ n + 1 \in 1 .. k
    BY <1>2, <1>7
  <2> QED BY <1>7, <2>1
<1>10. ASSUME NEW k \in 1 .. Len(i4), i4[k] = "git-clone"
       PROVE  k = IF s.secrets THEN 4 ELSE 3
  <2>1. k \in 1 .. n \/ k \in {n + 1, n + 2, n + 3}
    BY <1>2, <1>7
  <2>2. k = n + 3
    BY <1>7, <1>10, <2>1
  <2> QED BY <1>2, <2>2
<1> QED BY <1>8, <1>9, <1>10 DEF i4

\* The stages of _get_patches, one component after the other.
LEMMA AllStages ==
    ASSUME NEW s, IsServer(s), NEW V,
           {"workspace", "shm", EtcCerts, "custom-ca-certs"} \subseteq V,
           s.secrets => {"user-secrets-volume", "k8s-secret-volume"} \subseteq V,
           s.env # <<>> => "renviron" \in V,
           SshEnabled /\ HostKey => "ssh-host-keys" \in V,
           \A i \in 1 .. Len(s.storages) : ToString(i) \in V
    PROVE  Stage(Patches(s), s, V, Inits(s))
<1> DEFINE a1 == TestPatches(s)
           a2 == a1 \o SchedulingPatches(s)
           a3 == a2 \o DevShm(s)
           a4 == a3 \o EnvPatches(s)
           a5 == a4 \o PullSecret(s)
           a6 == a5 \o Renviron(s)
           a7 == a6 \o UserSecrets(s)
           a8 == a7 \o GitProxy(s)
           a9 == a8 \o GitSidecar(s)
           a10 == a9 \o OidcUnverifiedEmail(s)
           a11 == a10 \o Ssh
           a12 == a11 \o Certificates
           a13 == a12 \o DownloadImage(s)
           a14 == a13 \o GitClone(s)
           a15 == a14 \o InjectCertificates(s)
           a16 == a15 \o CloudStorage(s)
           i1 == SecretsInits(s)
           i2 == Append(i1, "init-certificates")
           i3 == ImageInits(s)
           i4 == Inits(s)
<1>1. Patches(s) = a16
  BY DEF Patches
<1>2. i3 = Append(i2, "download-image")
  BY DEF ImageInits
<1> HIDE DEF a1, a2, a3, a4, a5, a6, a7, a8, a9, a10, a11, a12, a13, a14, a15, a16,
             i1, i2, i3, i4
<1>3. Stage(a6, s, V, <<>>)
  <2>1. Stage(<<>>, s, V, <<>>)
    BY BaseStage
  <2>2. Part(a1, s, V, <<>>) /\ a1 = <<>> \o a1
    <3>1. Part(a1, s, V, <<>>)
      BY PartGeneral DEF a1
    <3>2. IsSeq(a1)
      BY <3>1 DEF Part
    <3> QED BY <3>1, <3>2, ConcatEmptySeq DEF IsSeq
  <2>3. Stage(a1, s, V, <<>>)
    BY <2>1, <2>2, StagePart
  <2>4. Stage(a2, s, V, <<>>)
    BY <2>3, PartGeneral, StagePart DEF a2
  <2>5. Stage(a3, s, V, <<>>)
    BY <2>4, PartGeneral, StagePart DEF a3
  <2>6. Stage(a4, s, V, <<>>)
    BY <2>5, PartEnv, StagePart DEF a4
  <2>7. Stage(a5, s, V, <<>>)
    BY <2>6, PartGeneral, StagePart DEF a5
  <2> QED BY <2>7, PartComponents, StagePart DEF a6
<1>4. Stage(a7, s, V, i1)
  <2>1. CASE s.secrets
    <3>1. Good(SecretsContainer, s, V)
      BY <2>1, InitsGood
    <3>2. SecretsContainer.name = "init-user-secrets"
      BY DEF SecretsContainer, Container
    <3>3. Part(SecretsRest, s, V, Append(<<>>, SecretsContainer.name))
      BY <2>1, PartAside, PartMount, PartConcat DEF SecretsRest
    <3>4. i1 = Append(<<>>, SecretsContainer.name)
      BY <2>1, <3>2 DEF i1, SecretsInits
    <3> QED BY <1>3, <2>1, <3>1, <3>3, <3>4, InitsFirst, StageInit DEF a7
  <2>2. CASE ~ s.secrets
    <3>1. UserSecrets(s) = <<>> /\ i1 = <<>>
      BY <2>2, InitsFirst DEF i1, SecretsInits
    <3> QED BY <1>3, <3>1, PartConcat, StagePart DEF a7
  <2> QED BY <2>1, <2>2
<1>5. Stage(a11, s, V, i1)
  <2>1. Stage(a8, s, V, i1)
    BY <1>4, PartComponents, StagePart DEF a8
  <2>2. Stage(a9, s, V, i1)
    BY <2>1, PartComponents, StagePart DEF a9
  <2>3. Stage(a10, s, V, i1)
    BY <2>2, PartGeneral, StagePart DEF a10
  <2> QED BY <2>3, PartComponents, StagePart DEF a11
<1>6. Stage(a12, s, V, i2)
  <2>1. Good(CertificatesContainer, s, V)
    BY InitsGood
  <2>2. i2 = Append(i1, CertificatesContainer.name)
    BY DEF i2, CertificatesContainer
  <2>3. Part(CertificatesRest, s, V, i2)
    BY PartAside, PartConcat DEF CertificatesRest
  <2> QED BY <1>5, <2>1, <2>2, <2>3, InitsFirst, StageInit DEF a12
<1>7. Stage(a13, s, V, i3)
  <2>1. Good(ImageContainer, s, V)
    BY InitsGood
  <2>2. i3 = Append(i2, ImageContainer.name)
    BY <1>2 DEF ImageContainer
  <2>3. Part(<<>>, s, V, i3)
    BY PartConcat
  <2> QED BY <1>6, <2>1, <2>2, <2>3, InitsFirst, StageInit DEF a13
<1>8. Stage(a14, s, V, i4)
  <2>1. CASE s.repositories = <<>>
    <3>1. GitClone(s) = <<>> /\ i4 = i3
      BY <2>1, InitsFirst DEF i4, i3, Inits
    <3> QED BY <1>7, <3>1, PartConcat, StagePart DEF a14
  <2>2. CASE s.repositories # <<>>
    <3>1. Good(CloneContainer(s), s, V)
      BY <2>2, InitsGood
    <3>2. CloneContainer(s).name = "git-clone"
      BY DEF CloneContainer, Container
    <3>3. i4 = Append(i3, CloneContainer(s).name)
      BY <2>2, <3>2 DEF i4, i3, Inits
    <3>4. Part(<<>>, s, V, i4)
      BY PartConcat
    <3> QED BY <1>7, <2>2, <3>1, <3>3, <3>4, InitsFirst, StageInit DEF a14
  <2> QED BY <2>1, <2>2
<1>9. Stage(a15, s, V, i4)
  BY <1>8, PartComponents, StagePart DEF a15
<1>10. Stage(a16, s, V, i4)
  <2>1. Part(CloudStorage(s), s, V, i4)
    BY InitsFacts, PartStorage DEF i4
  <2> QED BY <1>9, <2>1, StagePart DEF a16
<1> QED BY <1>1, <1>10 DEF i4

\* The patch for a volume.
NewVolume(v) == [op |-> "append", list |-> "volumes", value |-> v]

\* The patches are those of the components.
LEMMA PatchesJoined ==
    ASSUME NEW s, IsServer(s)
    PROVE  /\ IsSeq(Patches(s))
           /\ ToSet(DevShm(s)) \subseteq ToSet(Patches(s))
           /\ IsSeq(EnvPatches(s)) /\ ToSet(EnvPatches(s)) \subseteq ToSet(Patches(s))
           /\ ToSet(Renviron(s)) \subseteq ToSet(Patches(s))
           /\ ToSet(UserSecrets(s)) \subseteq ToSet(Patches(s))
           /\ ToSet(GitProxy(s)) \subseteq ToSet(Patches(s))
           /\ ToSet(Ssh) \subseteq ToSet(Patches(s))
           /\ ToSet(Certificates) \subseteq ToSet(Patches(s))
           /\ ToSet(CloudStorage(s)) \subseteq ToSet(Patches(s))
<1> DEFINE V == AnyVolumes(s)
           a1 == TestPatches(s)
           a2 == a1 \o SchedulingPatches(s)
           a3 == a2 \o DevShm(s)
           a4 == a3 \o EnvPatches(s)
           a5 == a4 \o PullSecret(s)
           a6 == a5 \o Renviron(s)
           a7 == a6 \o UserSecrets(s)
           a8 == a7 \o GitProxy(s)
           a9 == a8 \o GitSidecar(s)
           a10 == a9 \o OidcUnverifiedEmail(s)
           a11 == a10 \o Ssh
           a12 == a11 \o Certificates
           a13 == a12 \o DownloadImage(s)
           a14 == a13 \o GitClone(s)
           a15 == a14 \o InjectCertificates(s)
           a16 == a15 \o CloudStorage(s)
<1>1. Patches(s) = a16
  BY DEF Patches
<1>2. /\ {"workspace", "shm", EtcCerts, "custom-ca-certs"} \subseteq V
      /\ "renviron" \in V /\ "ssh-host-keys" \in V
      /\ \A i \in 1 .. Len(s.storages) : ToString(i) \in V
  BY DEF AnyVolumes
<1> HIDE DEF V
<1>3. /\ Part(TestPatches(s), s, V, <<>>) /\ Part(SchedulingPatches(s), s, V, <<>>)
      /\ Part(DevShm(s), s, V, <<>>) /\ Part(EnvPatches(s), s, V, <<>>)
      /\ Part(PullSecret(s), s, V, <<>>) /\ Part(OidcUnverifiedEmail(s), s, V, <<>>)
  BY <1>2, PartGeneral, PartEnv
<1>4. /\ Part(Renviron(s), s, V, <<>>) /\ Part(GitProxy(s), s, V, <<>>)
      /\ Part(GitSidecar(s), s, V, <<>>) /\ Part(Ssh, s, V, <<>>)
      /\ Part(InjectCertificates(s), s, V, <<>>)
  BY <1>2, PartComponents
<1>5. IsSeq(UserSecrets(s)) /\ IsSeq(Certificates) /\ IsSeq(DownloadImage(s))
      /\ IsSeq(GitClone(s))
  <2>1. IsSeq(<<>>)
    BY Shortest
  <2>2. \A list, v : IsSeq(AddTo(list, v))
    BY OneIsSeq
  <2>3. \A i, v, meant : IsSeq(Mount(i, v, meant))
    BY OneIsSeq
  <2>4. IsSeq(SecretsRest) /\ IsSeq(CertificatesRest)
    BY <2>2, <2>3, Joined DEF SecretsRest, CertificatesRest
  <2>5. \A list, v, b : IsSeq(b) => IsSeq(AddTo(list, v) \o b)
    BY <2>2, Joined
  <2> QED BY <2>1, <2>4, <2>5, InitsFirst
<1>6. IsSeq(CloudStorage(s))
  BY StoragesJoined
<1> HIDE DEF a1, a2, a3, a4, a5, a6, a7, a8, a9, a10, a11, a12, a13, a14, a15, a16
<1>7. /\ IsSeq(a2)
      /\ IsSeq(a3) /\ ToSet(DevShm(s)) \subseteq ToSet(a3)
      /\ IsSeq(a4) /\ ToSet(a3) \cup ToSet(EnvPatches(s)) \subseteq ToSet(a4)
  <2>1. IsSeq(a2)
    BY <1>3, Joined DEF Part, a1, a2
  <2>2. IsSeq(a3) /\ ToSet(DevShm(s)) \subseteq ToSet(a3)
    BY <1>3, <2>1, Joined DEF Part, a3
  <2> QED BY <1>3, <2>1, <2>2, Joined DEF Part, a4
<1>8. /\ IsSeq(a5) /\ ToSet(a4) \subseteq ToSet(a5)
      /\ IsSeq(a6) /\ ToSet(a5) \cup ToSet(Renviron(s)) \subseteq ToSet(a6)
  <2>1. IsSeq(a5) /\ ToSet(a4) \subseteq ToSet(a5)
    BY <1>3, <1>7, Joined DEF Part, a5
  <2> QED BY <1>4, <2>1, Joined DEF Part, a6
<1>9. /\ IsSeq(a7) /\ ToSet(a6) \cup ToSet(UserSecrets(s)) \subseteq ToSet(a7)
      /\ IsSeq(a8) /\ ToSet(a7) \cup ToSet(GitProxy(s)) \subseteq ToSet(a8)
  <2>1. IsSeq(a7) /\ ToSet(a6) \cup ToSet(UserSecrets(s)) \subseteq ToSet(a7)
    BY <1>5, <1>8, Joined DEF a7
  <2> QED BY <1>4, <2>1, Joined DEF Part, a8
<1>10. /\ IsSeq(a9) /\ ToSet(a8) \subseteq ToSet(a9)
       /\ IsSeq(a10) /\ ToSet(a9) \subseteq ToSet(a10)
  <2>1. IsSeq(a9) /\ ToSet(a8) \subseteq ToSet(a9)
    BY <1>4, <1>9, Joined DEF Part, a9
  <2> QED BY <1>3, <2>1, Joined DEF Part, a10
<1>11. /\ IsSeq(a11) /\ ToSet(a10) \cup ToSet(Ssh) \subseteq ToSet(a11)
       /\ IsSeq(a12) /\ ToSet(a11) \cup ToSet(Certificates) \subseteq ToSet(a12)
  <2>1. IsSeq(a11) /\ ToSet(a10) \cup ToSet(Ssh) \subseteq ToSet(a11)
    BY <1>4, <1>10, Joined DEF Part, a11
  <2> QED BY <1>5, <2>1, Joined DEF a12
<1>12. /\ IsSeq(a13) /\ ToSet(a12) \subseteq ToSet(a13)
       /\ IsSeq(a14) /\ ToSet(a13) \subseteq ToSet(a14)
  <2>1. IsSeq(a13) /\ ToSet(a12) \subseteq ToSet(a13)
    BY <1>5, <1>11, Joined DEF a13
  <2> QED BY <1>5, <2>1, Joined DEF a14
<1>13. /\ IsSeq(a15) /\ ToSet(a14) \subseteq ToSet(a15)
       /\ IsSeq(a16) /\ ToSet(a15) \cup ToSet(CloudStorage(s)) \subseteq ToSet(a16)
  <2>1. IsSeq(a15) /\ ToSet(a14) \subseteq ToSet(a15)
    BY <1>4, <1>12, Joined DEF Part, a15
  <2> QED BY <1>6, <2>1, Joined DEF a16
<1> QED BY <1>1, <1>3, <1>7, <1>8, <1>9, <1>10, <1>11, <1>12, <1>13 DEF Part

\* An element of two sequences joined is one of either.
LEMMA JoinedHas ==
    ASSUME NEW a, NEW b, IsSeq(a), IsSeq(b)
    PROVE  /\ \A x \in ToSet(a) : x \in ToSet(a \o b)
           /\ \A x \in ToSet(b) : x \in ToSet(a \o b)
BY Joined

\* The patches declare the volumes that the others need.
LEMMA VolumesNeeded ==
    ASSUME NEW s, IsServer(s)
    PROVE  /\ {"workspace", "shm", EtcCerts, "custom-ca-certs"} \subseteq Volumes(s)
           /\ s.secrets =>
                  {"user-secrets-volume", "k8s-secret-volume"} \subseteq Volumes(s)
           /\ s.env # <<>> => "renviron" \in Volumes(s)
           /\ SshEnabled /\ HostKey => "ssh-host-keys" \in Volumes(s)
           /\ \A i \in 1 .. Len(s.storages) : ToString(i) \in Volumes(s)
<1> DEFINE One(v) == AddTo("volumes", v)
<1>1. \A v : NewVolume(v) \in ToSet(Patches(s)) => v \in Volumes(s)
  BY DEF NewVolume, Volumes
<1>2. \A v : IsSeq(One(v)) /\ NewVolume(v) \in ToSet(One(v))
  BY Shortest DEF AddTo, NewVolume
<1>3. \A path : IsSeq(Set(path))
  BY Shortest DEF Set
<1>4. \A i, v, meant : IsSeq(Mount(i, v, meant))
  BY OneIsSeq
<1>5. \A i, field, v, meant : IsSeq(AddIn("initContainers", i, field, v, meant))
  BY Shortest DEF AddIn
<1>6. \A list, v : IsSeq(AddTo(list, v))
  BY OneIsSeq
<1>7. IsSeq(<<>>)
  BY Shortest
<1> HIDE DEF One
<1>8. NewVolume("shm") \in ToSet(Patches(s))
  <2>1. NewVolume("shm") \in ToSet(DevShm(s))
    BY <1>2, <1>4, JoinedHas DEF DevShm, One
  <2> QED BY <2>1, PatchesJoined
<1>9. NewVolume(EtcCerts) \in ToSet(Patches(s))
      /\ NewVolume("custom-ca-certs") \in ToSet(Patches(s))
  <2> DEFINE a == AddTo("initContainers", CertificatesContainer)
             b == One(EtcCerts)
             c == One("custom-ca-certs")
  <2>1. Certificates = a \o (b \o c)
    BY InitsFirst DEF CertificatesRest, One
  <2>2. IsSeq(a) /\ IsSeq(b) /\ IsSeq(c) /\ NewVolume(EtcCerts) \in ToSet(b)
        /\ NewVolume("custom-ca-certs") \in ToSet(c)
    BY <1>2, <1>6
  <2> HIDE DEF a, b, c
  <2>3. IsSeq(b \o c) /\ NewVolume(EtcCerts) \in ToSet(b \o c)
        /\ NewVolume("custom-ca-certs") \in ToSet(b \o c)
    BY <2>2, Joined
  <2>4. NewVolume(EtcCerts) \in ToSet(Certificates)
        /\ NewVolume("custom-ca-certs") \in ToSet(Certificates)
    BY <2>1, <2>2, <2>3, Joined
  <2> QED BY <2>4, PatchesJoined
<1>10. s.secrets => NewVolume("user-secrets-volume") \in ToSet(Patches(s))
                    /\ NewVolume("k8s-secret-volume") \in ToSet(Patches(s))
  <2> DEFINE a == AddTo("initContainers", SecretsContainer)
             b == One("user-secrets-volume")
             c == One("k8s-secret-volume")
             d == Mount(0, "user-secrets-volume", "jupyter-server")
  <2>1. s.secrets => UserSecrets(s) = a \o ((b \o c) \o d)
    BY InitsFirst DEF SecretsRest, One
  <2>2. IsSeq(a) /\ IsSeq(b) /\ IsSeq(c) /\ IsSeq(d)
        /\ NewVolume("user-secrets-volume") \in ToSet(b)
        /\ NewVolume("k8s-secret-volume") \in ToSet(c)
    BY <1>2, <1>4, <1>6
  <2> HIDE DEF a, b, c, d
  <2>3. IsSeq(b \o c) /\ ToSet(b \o c) = ToSet(b) \cup ToSet(c)
    BY <2>2, Joined
  <2>4. IsSeq((b \o c) \o d) /\ ToSet(b) \cup ToSet(c) \subseteq ToSet((b \o c) \o d)
    BY <2>2, <2>3, Joined
  <2>5. ToSet(b) \cup ToSet(c) \subseteq ToSet(a \o ((b \o c) \o d))
    BY <2>2, <2>4, Joined
  <2> QED BY <2>1, <2>2, <2>5, PatchesJoined
<1>11. s.env # <<>> => NewVolume("renviron") \in ToSet(Patches(s))
  <2> DEFINE a == Set("renviron")
             b == One("renviron")
             c == Mount(0, "renviron", "jupyter-server")
  <2>1. s.env # <<>> => Renviron(s) = (a \o b) \o c
    BY DEF Renviron, One
  <2>2. IsSeq(a) /\ IsSeq(b) /\ IsSeq(c) /\ NewVolume("renviron") \in ToSet(b)
    BY <1>2, <1>3, <1>4
  <2> HIDE DEF a, b, c
  <2>3. IsSeq(a \o b) /\ NewVolume("renviron") \in ToSet(a \o b)
    BY <2>2, Joined
  <2>4. NewVolume("renviron") \in ToSet((a \o b) \o c)
    BY <2>2, <2>3, Joined
  <2> QED BY <2>1, <2>4, PatchesJoined
<1>12. SshEnabled /\ HostKey => NewVolume("ssh-host-keys") \in ToSet(Patches(s))
  <2> DEFINE a == Set("service/ports")
             b == Set("containers/0/ports")
             c == Mount(0, "ssh-host-keys", "jupyter-server")
             d == One("ssh-host-keys")
  <2>1. SshEnabled /\ HostKey => Ssh = (a \o b) \o (c \o d)
    BY DEF Ssh, One
  <2>2. IsSeq(a) /\ IsSeq(b) /\ IsSeq(c) /\ IsSeq(d)
        /\ NewVolume("ssh-host-keys") \in ToSet(d)
    BY <1>2, <1>3, <1>4
  <2> HIDE DEF a, b, c, d
  <2>3. IsSeq(a \o b) /\ IsSeq(c \o d) /\ NewVolume("ssh-host-keys") \in ToSet(c \o d)
    BY <2>2, Joined
  <2>4. NewVolume("ssh-host-keys") \in ToSet((a \o b) \o (c \o d))
    BY <2>3, Joined
  <2> QED BY <2>1, <2>4, PatchesJoined
<1>13. ASSUME NEW i \in 1 .. Len(s.storages)
       PROVE  NewVolume(ToString(i)) \in ToSet(Patches(s))
  <2> DEFINE a == Set("pv")
             b == Set("secret")
             c == Mount(0, ToString(i), "jupyter-server")
             d == One(ToString(i))
             e == IF s.repositories = <<>> THEN <<>>
                  ELSE AddIn("initContainers", 2, "env",
                             <<MountVariable[i], s.storages[i]>>, "git-clone")
  <2>1. CloudStoragePatch(s, i) = (((a \o b) \o c) \o d) \o e
    BY DEF CloudStoragePatch, One
  <2>2. IsSeq(a) /\ IsSeq(b) /\ IsSeq(c) /\ IsSeq(d) /\ IsSeq(e)
        /\ NewVolume(ToString(i)) \in ToSet(d)
    BY <1>2, <1>3, <1>4, <1>5, <1>7
  <2> HIDE DEF a, b, c, d, e
  <2>3. IsSeq(a \o b)
    BY <2>2, Joined
  <2>4. IsSeq((a \o b) \o c)
    BY <2>2, <2>3, Joined
  <2>5. IsSeq(((a \o b) \o c) \o d) /\ NewVolume(ToString(i)) \in ToSet(((a \o b) \o c) \o d)
    BY <2>2, <2>4, Joined
  <2>6. NewVolume(ToString(i)) \in ToSet(CloudStoragePatch(s, i))
    BY <2>1, <2>2, <2>5, Joined
  <2> QED BY <2>6, StoragesJoined, PatchesJoined
<1>14. "workspace" \in Volumes(s)
  BY DEF Volumes
<1> QED BY <1>1, <1>8, <1>9, <1>10, <1>11, <1>12, <1>13, <1>14

\* The patch that tells git-clone of a storage.
Tell(s, i) ==
    Extend("initContainers", 2, "env", <<MountVariable[i], s.storages[i]>>, "git-clone")

\* There is one for each storage.
LEMMA StoragesTold ==
    ASSUME NEW s, IsServer(s), s.repositories # <<>>, NEW i \in 1 .. Len(s.storages)
    PROVE  Tell(s, i) \in ToSet(Patches(s))
<1> DEFINE a == Set("pv") \o Set("secret")
           c == Mount(0, ToString(i), "jupyter-server")
           d == AddTo("volumes", ToString(i))
           e == AddIn("initContainers", 2, "env", <<MountVariable[i], s.storages[i]>>,
                      "git-clone")
<1>1. CloudStoragePatch(s, i) = ((a \o c) \o d) \o e
  BY DEF CloudStoragePatch
<1>2. e = <<Tell(s, i)>>
  BY DEF AddIn, Tell
<1>3. IsSeq(c) /\ IsSeq(d)
  BY OneIsSeq
<1>4. IsSeq(a)
  BY Shortest, Joined DEF Set
<1>5. IsSeq(e) /\ Tell(s, i) \in ToSet(e)
  BY <1>2, Shortest
<1> HIDE DEF a, c, d, e
<1>6. IsSeq((a \o c) \o d)
  BY <1>3, <1>4, Joined
<1>7. Tell(s, i) \in ToSet(CloudStoragePatch(s, i))
  BY <1>1, <1>5, <1>6, Joined
<1> QED BY <1>7, StoragesJoined, PatchesJoined

\* More volumes do not make a container worse.
LEMMA GoodListGrows ==
    ASSUME NEW cs, NEW s, NEW V, GoodList(cs, s, V), NEW W, V \subseteq W
    PROVE  GoodList(cs, s, W)
BY DEF GoodList, Good

\* The pod of a session, whatever its server.  A patch cannot be applied if
\* and only if cloud storages and user secrets are mounted into a session
\* with repositories: finding 4 is not a matter of bounds.  Otherwise
\* containers are as their patches make them and mount only volumes of the
\* pod, the certificates are there before all but the container of the user
\* secrets, every patch that names a container by its index adds to the one
\* that was meant, and what it adds is there in the end, there is a git proxy if
\* one is needed, and no more than one git-clone (_get_patches).
THEOREM PodOfPatches ==
    ASSUME NEW s, IsServer(s)
    PROVE  LET p == Applied(Base(s), Patches(s)) IN
           /\ p = Failed <=> Unreachable(s)
           /\ p # Failed =>
              /\ GoodList(p.containers, s, p.volumes)
              /\ GoodList(p.initContainers, s, p.volumes)
              /\ \A k \in DOMAIN p.initContainers :
                     \/ p.initContainers[k].name = "init-user-secrets"
                     \/ \E l \in 1 .. k : /\ l \in DOMAIN p.initContainers
                                          /\ p.initContainers[l].name = "init-certificates"
              /\ \A x \in ToSet(Patches(s)) : x.op = "extend" =>
                     /\ x.list \in {"containers", "initContainers"}
                     /\ x.i + 1 \in DOMAIN p[x.list]
                     /\ p[x.list][x.i + 1].name = x.meant
                     /\ Has(p[x.list][x.i + 1], x)
              /\ NeedsGit(s) => \E k \in DOMAIN p.containers :
                                    p.containers[k].name = "git-proxy"
              /\ \A k \in DOMAIN p.containers : p.containers[k].name # "git-clone"
              /\ \A k \in DOMAIN p.initContainers :
                     p.initContainers[k].name = "git-clone" =>
                         k = IF s.secrets THEN 4 ELSE 3
<1> DEFINE p == Applied(Base(s), Patches(s))
           V == Volumes(s)
           inits == Inits(s)
<1>1. Stage(Patches(s), s, V, inits)
  BY VolumesNeeded, AllStages
<1> HIDE DEF V, inits
<1>2. CASE p = Failed /\ Unreachable(s)
  BY <1>2, Zenon
<1>3. CASE WellBuilt(p, s, V, inits) /\ \A x \in ToSet(Patches(s)) : Done(p, x)
  <2> HIDE DEF p
  <2>1. p # Failed
    BY <1>3, NotFailed
  <2>2. V \subseteq p.volumes
    <3>1. "workspace" \in p.volumes
      BY <1>3 DEF WellBuilt
    <3>2. \A x \in ToSet(Patches(s)) : x.op = "append" /\ x.list = "volumes" =>
              x.value \in p.volumes
      BY <1>3 DEF Done
    <3> QED BY <3>1, <3>2 DEF V, Volumes
  <2>3. GoodList(p.containers, s, p.volumes) /\ GoodList(p.initContainers, s, p.volumes)
    BY <1>3, <2>2, GoodListGrows DEF WellBuilt
  <2>4. ASSUME NEW k \in DOMAIN p.initContainers
        PROVE  \/ p.initContainers[k].name = "init-user-secrets"
               \/ \E l \in 1 .. k : /\ l \in DOMAIN p.initContainers
                                    /\ p.initContainers[l].name = "init-certificates"
    <3> DEFINE cs == p.initContainers
    <3>1. DOMAIN cs = 1 .. Len(cs) /\ Len(cs) = Len(inits) /\ Len(cs) \in Nat
          /\ \A l \in 1 .. Len(inits) : cs[l].name = inits[l]
      BY <1>3, GoodListFacts DEF WellBuilt, Named
    <3>2. inits[k] = "init-user-secrets" \/ \E l \in 1 .. k : inits[l] = "init-certificates"
      BY <3>1, InitsFacts DEF inits
    <3> HIDE DEF cs
    <3>3. \A l \in 1 .. k : l \in DOMAIN cs /\ cs[l].name = inits[l]
      BY <2>4, <3>1 DEF cs
    <3>4. k \in 1 .. k
      BY <2>4, <3>1 DEF cs
    <3> QED BY <3>2, <3>3, <3>4 DEF cs
  <2>5. \A x \in ToSet(Patches(s)) : x.op = "extend" =>
            /\ x.list \in {"containers", "initContainers"}
            /\ x.i + 1 \in DOMAIN p[x.list]
            /\ p[x.list][x.i + 1].name = x.meant
            /\ Has(p[x.list][x.i + 1], x)
    BY <1>3 DEF Done
  <2>6. ASSUME NeedsGit(s)
        PROVE  \E k \in DOMAIN p.containers : p.containers[k].name = "git-proxy"
    <3> DEFINE c == Container("git-proxy", {EtcCerts}, ProxyEnv(s))
               x == [op |-> "append", list |-> "containers", value |-> c]
    <3>1. GitProxy(s) = <<x>>
      BY <2>6 DEF GitProxy, AddTo, ProxyEnv
    <3>2. x.op = "append" /\ x.list = "containers" /\ x.value.name = "git-proxy"
      BY DEF Container
    <3> HIDE DEF x
    <3>3. x \in ToSet(Patches(s))
      BY <3>1, PatchesJoined, Shortest
    <3>4. Done(p, x)
      BY <1>3, <3>3
    <3> QED BY <3>2, <3>4 DEF Done
  <2>7. ASSUME Unreachable(s) PROVE FALSE
    <3> DEFINE x == Tell(s, 1)
    <3>1. s.storages # <<>> /\ s.repositories # <<>> /\ s.secrets
      BY <2>7 DEF Unreachable
    <3>2. 1 \in 1 .. Len(s.storages)
      <4>1. s.storages \in Seq(ToSet(s.storages))
        BY DEF IsServer, IsSeq
      <4> QED BY <3>1, <4>1, EmptySeq
    <3>3. x \in ToSet(Patches(s))
      BY <3>1, <3>2, StoragesTold
    <3>4. x.op = "extend" /\ x.list = "initContainers" /\ x.i + 1 = 3
          /\ x.meant = "git-clone"
      BY DEF Tell, Extend
    <3> HIDE DEF x
    <3>5. p["initContainers"][3].name = "git-clone"
      BY <2>5, <3>3, <3>4
    <3>6. p.initContainers[3].name = inits[3]
      <4>1. 3 \in 1 .. Len(inits)
        <5>1. Len(inits) \in Nat
          BY <1>3, SeqElements DEF WellBuilt
        <5> QED BY <3>1, <5>1, InitsFacts DEF inits
      <4> QED BY <1>3, <4>1 DEF WellBuilt, Named
    <3>7. inits[3] = "download-image"
      BY <3>1, InitsFacts DEF inits
    <3>8. p["initContainers"] = p.initContainers
      OBVIOUS
    <3> QED BY <3>5, <3>6, <3>7, <3>8
  <2>8. \A k \in DOMAIN p.containers : p.containers[k].name # "git-clone"
    BY <1>3 DEF WellBuilt
  <2>9. ASSUME NEW k \in DOMAIN p.initContainers, p.initContainers[k].name = "git-clone"
        PROVE  k = IF s.secrets THEN 4 ELSE 3
    <3>1. k \in 1 .. Len(inits) /\ inits[k] = "git-clone"
      BY <1>3, <2>9, GoodListFacts DEF WellBuilt, Named
    <3> QED BY <3>1, InitsFacts DEF inits
  <2> QED BY <2>1, <2>3, <2>4, <2>5, <2>6, <2>7, <2>8, <2>9 DEF p
<1> QED BY <1>1, <1>2, <1>3 DEF Stage

-----------------------------------------------------------------------------
(***************************************************************************)
(* Variables.                                                              *)
(***************************************************************************)

\* No variable with two values.
Agree(env) == \A v, w \in env : v[1] = w[1] => v[2] = w[2]

\* The variables that a container may have agree: those of the session
\* because the launch looks at them, those of git-clone because a storage
\* has a name of its own.
LEMMA EnvAgrees ==
    ASSUME NEW s, IsServer(s), ~ EnvClash(Patches(s)),
           1 .. Len(s.storages) \subseteq DOMAIN MountVariable, NEW name
    PROVE  Agree(Env(name, s))
<1>0. Auth(s) \in {"oauth2-proxy", "passthrough-proxy"}
  BY DEF Auth
<1>1. CASE name = "jupyter-server"
  <2> DEFINE env == BuiltIn \o s.env
             ps == Patches(s)
             patch(k) == Extend("containers", 0, "env", env[k], "jupyter-server")
  <2>1. Env(name, s) = ToSet(env)
    BY <1>0, <1>1 DEF Env
  <2>2. EnvPatches(s) = [k \in DOMAIN env |-> patch(k)]
    BY DEF EnvPatches
  <2>3. ASSUME NEW v \in ToSet(env)
        PROVE  \E j \in DOMAIN ps : /\ ps[j].op = "extend" /\ ps[j].field = "env"
                                    /\ ps[j].list = "containers" /\ ps[j].i = 0
                                    /\ ps[j].value = v
    <3>1. PICK k \in DOMAIN env : v = env[k]
      BY <2>3 DEF ToSet
    <3> HIDE DEF env, ps
    <3>2. patch(k) \in ToSet(EnvPatches(s))
      BY <2>2, <3>1 DEF ToSet
    <3>3. patch(k) \in ToSet(ps)
      BY <3>2, PatchesJoined DEF ps
    <3>4. PICK j \in DOMAIN ps : patch(k) = ps[j]
      BY <3>3 DEF ToSet
    <3>5. /\ patch(k).op = "extend" /\ patch(k).field = "env"
          /\ patch(k).list = "containers" /\ patch(k).i = 0 /\ patch(k).value = v
      BY <3>1 DEF Extend
    <3> QED BY <3>4, <3>5
  <2>4. ASSUME NEW v \in ToSet(env), NEW w \in ToSet(env), v[1] = w[1]
        PROVE  v[2] = w[2]
    <3>1. PICK j \in DOMAIN ps : /\ ps[j].op = "extend" /\ ps[j].field = "env"
                                 /\ ps[j].list = "containers" /\ ps[j].i = 0
                                 /\ ps[j].value = v
      BY <2>3
    <3>2. PICK k \in DOMAIN ps : /\ ps[k].op = "extend" /\ ps[k].field = "env"
                                 /\ ps[k].list = "containers" /\ ps[k].i = 0
                                 /\ ps[k].value = w
      BY <2>3
    <3> HIDE DEF env, ps
    <3>3. ~ EnvClash(ps)
      BY DEF ps
    <3> QED BY <2>4, <3>1, <3>2, <3>3 DEF EnvClash
  <2> QED BY <2>1, <2>4 DEF Agree
<1>2. CASE name = Auth(s)
  <2>1. Env(name, s) = AuthEnv
    BY <1>0, <1>2 DEF Env
  <2> QED BY <2>1 DEF Agree, AuthEnv
<1>3. CASE name = "git-clone"
  <2>1. Env(name, s) = CloneEnv(s) \cup StorageEnv(s)
    BY <1>0, <1>3 DEF Env
  <2>2. \A i \in DOMAIN s.storages : i \in DOMAIN MountVariable
    BY SeqElements DEF IsServer
  <2>3. ASSUME NEW v \in CloneEnv(s), NEW w \in CloneEnv(s), v[1] = w[1]
        PROVE  v[2] = w[2]
    BY <2>3 DEF CloneEnv
  <2>4. ASSUME NEW v \in CloneEnv(s), NEW w \in StorageEnv(s)
        PROVE  v[1] # w[1]
    <3>1. v[1] \in {"IS_GIT_PROXY_ENABLED", "GIT_PROVIDERS", "REPOSITORIES"}
      BY DEF CloneEnv
    <3>2. PICK i \in DOMAIN s.storages : w = <<MountVariable[i], s.storages[i]>>
      BY DEF StorageEnv
    <3>3. w[1] = MountVariable[i]
      BY <3>2
    <3> QED BY <2>2, <3>1, <3>3, MountVariablesAssumption
  <2>5. ASSUME NEW v \in StorageEnv(s), NEW w \in StorageEnv(s), v[1] = w[1]
        PROVE  v[2] = w[2]
    <3>1. PICK i \in DOMAIN s.storages : v = <<MountVariable[i], s.storages[i]>>
      BY DEF StorageEnv
    <3>2. PICK j \in DOMAIN s.storages : w = <<MountVariable[j], s.storages[j]>>
      BY DEF StorageEnv
    <3>3. i = j
      BY <2>2, <2>5, <3>1, <3>2, MountVariablesAssumption
    <3> QED BY <3>1, <3>2, <3>3
  <2> QED BY <2>1, <2>3, <2>4, <2>5 DEF Agree
<1>4. CASE name = "git-proxy"
  <2>1. Env(name, s) = ProxyEnv(s)
    BY <1>0, <1>4 DEF Env
  <2> QED BY <2>1 DEF Agree, ProxyEnv
<1>5. CASE name \notin {"jupyter-server", Auth(s), "git-clone", "git-proxy"}
  <2>1. \/ Env(name, s) = {<<"RENKU_USERNAME", "user">>}
        \/ Env(name, s) = {<<"RENKU_ACCESS_TOKEN", "token">>}
        \/ Env(name, s) = {}
    BY <1>5 DEF Env
  <2> QED BY <2>1 DEF Agree
<1> QED BY <1>1, <1>2, <1>3, <1>4, <1>5

=============================================================================
