------------------------ MODULE LaunchRequestProofs -------------------------
(***************************************************************************)
(* Proofs about the launch of a session in LaunchRequest, for any          *)
(* registries, pools, requests and cloud storages.                         *)
(***************************************************************************)
EXTENDS LaunchRequest, ResourceClassesProofs, SessionManifestProofs

-----------------------------------------------------------------------------
(***************************************************************************)
(* The inductive invariant.                                                *)
(***************************************************************************)

\* After its lookup the image is there, a private one has a pull secret, and
\* a pull secret is for the registry of Renku.
ImageChosen ==
    pc \in {"options", "workdir", "storage", "start", "created", "applied"} =>
        /\ image.visibility # "missing"
        /\ image.visibility = "private" => private
        /\ private => image.host = GitlabRegistry

\* Only for the registry of Renku the token is used.
TokenForRegistry ==
    /\ DOMAIN repo = {"host", "token"}
    /\ repo.token => repo.host = GitlabRegistry

\* The folders are those that the checks let through.
MountsChecked ==
    /\ workdir \in Seq(PathNames)
    /\ pc \in {"start", "created", "applied"} =>
           mounts \in Seq(Seq(PathNames)) /\ MountsAllowed(mounts)

\* The server has what was found out about the image.
ServerOfLaunch ==
    server # Nothing => pc \in {"created", "applied"} /\ server.private = private

LaunchInv ==
    /\ TokenForRegistry /\ TokenStaysAtRegistry
    /\ ImageChosen /\ MountsChecked /\ ServerOfLaunch

\* Nothing changes the answer of the data service before it is used.
PoolsAnswered == pc \in {"image", "options"} => pools \in PoolLists

ResourcesInv == PoolsAnswered /\ OptionsHonourRequest

\* The providers of the repositories are known.
ProvidersKnown(s) ==
    \A k \in DOMAIN s.repositories :
        s.repositories[k].provider \in ProvidersOf(s) \cup {NoProvider}

\* A server is what start makes of the user and the mount folders.
ServerBuilt ==
    /\ user \in Users
    /\ pc \in {"start", "created", "applied"} => Len(mounts) <= MaxStorages
    /\ pc \in {"created", "applied"} =>
           /\ server.registered = user.registered
           /\ IsServer(server) /\ ~ EnvClash(Patches(server))
           /\ server.storages = mounts
           /\ ProvidersKnown(server)

\* The pod is what the patches make of the server.
PodBuilt == pc = "applied" => pod = Applied(Base(server), Patches(server))

ManifestInv == ServerBuilt /\ PodBuilt

IInv == LaunchInv /\ ResourcesInv /\ ManifestInv

-----------------------------------------------------------------------------
(***************************************************************************)
(* It holds in every reachable state.                                      *)
(***************************************************************************)

\* A launch starts without an image, options and a server.
LEMMA InitEstablishes == Init => IInv
BY DEF Init, IInv, LaunchInv, ResourcesInv, ManifestInv, TokenForRegistry,
       TokenStaysAtRegistry, ImageChosen, MountsChecked, ServerOfLaunch, PoolsAnswered,
       OptionsHonourRequest, ServerBuilt, PodBuilt

\* Sequences of a set, joined.
LEMMA ConcatType ==
    ASSUME NEW S, NEW s \in Seq(S), NEW t \in Seq(S)
    PROVE  s \o t \in Seq(S)
OBVIOUS

\* The shortest sequences.
LEMMA SingletonType ==
    ASSUME NEW S, NEW x \in S
    PROVE  <<x>> \in Seq(S) /\ <<>> \in Seq(S)
OBVIOUS

\* The names of folders that the code has of its own.
LEMMA NamesType ==
    <<>> \in Seq(PathNames) /\ <<"home">> \in Seq(PathNames)
    /\ <<"work">> \in Seq(PathNames) /\ <<"project">> \in Seq(PathNames)
BY PathsAssumption, SingletonType

\* The mount folders are paths, whether the target is absolute or not.
LEMMA FoldersType ==
    ASSUME NEW n \in Nat, NEW targets \in [1 .. n -> Targets], workdir \in Seq(PathNames)
    PROVE  [k \in 1 .. n |-> MountFolder(targets[k])] \in Seq(Seq(PathNames))
<1>1. ASSUME NEW k \in 1 .. n PROVE MountFolder(targets[k]) \in Seq(PathNames)
  <2>1. targets[k].path \in Seq(PathNames)
    BY PathsAssumption
  <2>2. workdir \o targets[k].path \in Seq(PathNames)
    BY <2>1, ConcatType
  <2> QED BY <2>1, <2>2 DEF MountFolder
<1> QED BY <1>1

\* Every step of the launch keeps what holds of image, mounts and server.
LEMMA LaunchKeeps == ASSUME LaunchInv, [Next]_vars PROVE LaunchInv'
<1> USE DEF LaunchInv
<1>1. CASE RequestedImage
  <2>1. PICK h \in Hosts, visibility \in {"public", "private", "missing"} :
          LET i == Image(h, visibility)
               anyone == [host |-> h, token |-> FALSE]
               tries == ~ Readable(anyone, i) /\ TriesToken(h)
               r == [anyone EXCEPT !.token = tries]
           IN  /\ repo' = r
               /\ sent' = {anyone, r}
               /\ image' = IF Readable(r, i) THEN i ELSE DefaultImage
               /\ private' = (tries /\ Readable(r, i))
    BY <1>1 DEF RequestedImage
  <2> DEFINE i == Image(h, visibility)
             anyone == [host |-> h, token |-> FALSE]
             tries == ~ Readable(anyone, i) /\ TriesToken(h)
             r == [anyone EXCEPT !.token = tries]
  <2>2. r = [host |-> h, token |-> tries]
    OBVIOUS
  <2>3. TokenForRegistry' /\ TokenStaysAtRegistry'
    BY <2>1, <2>2 DEF TokenForRegistry, TokenStaysAtRegistry, TriesToken
  <2>4. ImageChosen'
    BY <2>1, <2>2 DEF ImageChosen, Image, DefaultImage, Readable, TriesToken
  <2>5. MountsChecked' /\ ServerOfLaunch'
    BY <1>1 DEF RequestedImage, MountsChecked, ServerOfLaunch, Goto
  <2> QED BY <2>3, <2>4, <2>5
<1>2. CASE CommitImage
  <2>1. PICK public \in BOOLEAN, visibility \in {"public", "private", "missing"} :
            LET i == Image(GitlabRegistry, visibility)
                r == [host |-> GitlabRegistry, token |-> ~ public /\ user.gitToken]
            IN  /\ ~ public => visibility # "public"
                /\ private' = ~ public
                /\ repo' = r
                /\ sent' = {r}
                /\ image' = i
                /\ IF Readable(r, i) THEN Goto("options") ELSE Refuse
    BY <1>2 DEF CommitImage
  <2>2. TokenForRegistry' /\ TokenStaysAtRegistry'
    BY <2>1 DEF TokenForRegistry, TokenStaysAtRegistry
  <2>3. ImageChosen'
    BY <2>1 DEF ImageChosen, Image, Readable, Refuse, Goto
  <2>4. pc' \in {"options", "refused"}
    BY <2>1 DEF Refuse, Goto
  <2>5. MountsChecked' /\ ServerOfLaunch'
    BY <1>2, <2>4 DEF CommitImage, MountsChecked, ServerOfLaunch
  <2> QED BY <2>2, <2>3, <2>5
<1>3. CASE NoImageForRequest \/ NoOptions \/ NoStorages \/ NotStarted
  BY <1>3 DEF NoImageForRequest, NoOptions, NoStorages, NotStarted, Refuse, Goto,
     TokenForRegistry, TokenStaysAtRegistry, ImageChosen, MountsChecked, ServerOfLaunch
<1>4. CASE ChooseOptions
  <2>1. pc = "options" /\ pc' \in {"workdir", "refused"} /\ sent' = {}
        /\ UNCHANGED <<image, repo, private, workdir, mounts, server>>
    BY <1>4 DEF ChooseOptions, Resources, Refuse, Goto
  <2> QED BY <2>1 DEF TokenForRegistry, TokenStaysAtRegistry, ImageChosen, MountsChecked,
                      ServerOfLaunch
<1>5. CASE ReadWorkdir
  <2>1. /\ pc = "workdir" /\ pc' \in {"storage", "refused"}
        /\ UNCHANGED <<image, repo, private, mounts, server>>
    BY <1>5 DEF ReadWorkdir, Refuse, Goto
  <2>2. sent' = {} \/ (image.host = repo.host /\ sent' = {[repo EXCEPT !.host = image.host]})
    BY <1>5 DEF ReadWorkdir, ChecksHost
  <2>3. [repo EXCEPT !.host = repo.host].token = repo.token
        /\ [repo EXCEPT !.host = repo.host].host = repo.host
    BY DEF TokenForRegistry
  <2>4. TokenStaysAtRegistry'
    BY <2>2, <2>3 DEF TokenForRegistry, TokenStaysAtRegistry
  <2>5. workdir' \in Seq(PathNames)
    <3>1. workdir' = workdir \/ \E dir \in {<<>>, <<"home">>} :
                       workdir' = dir \o <<"work">>
                                    \o IF version = 1 THEN <<"project">>
                                                      ELSE <<>>
      BY <1>5 DEF ReadWorkdir
    <3>2. /\ <<>> \in Seq(PathNames) /\ <<"home">> \in Seq(PathNames)
          /\ <<"work">> \in Seq(PathNames) /\ <<"project">> \in Seq(PathNames)
      BY NamesType
    <3>3. ASSUME NEW dir \in {<<>>, <<"home">>}
          PROVE  dir \o <<"work">> \o (IF version = 1 THEN <<"project">> ELSE <<>>) \in Seq(PathNames)
      <4>1. dir \o <<"work">> \in Seq(PathNames)
        BY <3>2, ConcatType
      <4> QED BY <4>1, <3>2, ConcatType
    <3> QED BY <3>1, <3>3 DEF MountsChecked
  <2> QED BY <2>1, <2>4, <2>5 DEF TokenForRegistry, ImageChosen, MountsChecked, ServerOfLaunch
<1>6. CASE AddStorages
  <2>1. PICK n \in 0 .. MaxStorages : \E targets \in [1 .. n -> Targets] :
            LET folders == [k \in 1 .. n |-> MountFolder(targets[k])]
            IN  MountsAllowed(folders) /\ mounts' = folders
    BY <1>6 DEF AddStorages
  <2>2. n \in Nat
    BY LaunchBoundsAssumption
  <2>3. mounts' \in Seq(Seq(PathNames)) /\ MountsAllowed(mounts')
    BY <2>1, <2>2, FoldersType DEF MountsChecked
  <2>4. /\ pc = "storage" /\ pc' = "start" /\ sent' = {}
        /\ UNCHANGED <<image, repo, private, workdir, server>>
    BY <1>6 DEF AddStorages, Goto
  <2>5. MountsChecked'
    BY <2>3, <2>4 DEF MountsChecked, MountsAllowed, Nested, StartsWith
  <2> QED BY <2>4, <2>5 DEF TokenForRegistry, TokenStaysAtRegistry, ImageChosen, ServerOfLaunch
<1>7. CASE StartServer
  <2>1. /\ pc = "start" /\ sent' = {}
        /\ UNCHANGED <<image, repo, private, workdir, mounts>>
    BY <1>7 DEF StartServer
  <2>2. \/ pc' = "refused" /\ server' = server
        \/ pc' = "created" /\ server'.private = private
    BY <1>7 DEF StartServer, Refuse, Goto, NewServer
  <2>3. MountsChecked'
    BY <2>1, <2>2 DEF MountsChecked
  <2> QED BY <2>1, <2>2, <2>3 DEF TokenForRegistry, TokenStaysAtRegistry, ImageChosen, ServerOfLaunch
<1>8. CASE Amalthea
  BY <1>8 DEF Amalthea, Goto, 
     TokenForRegistry, TokenStaysAtRegistry, ImageChosen, MountsChecked, ServerOfLaunch
<1>9. CASE UNCHANGED vars
  BY <1>9 DEF vars, 
     TokenForRegistry, TokenStaysAtRegistry, ImageChosen, MountsChecked, ServerOfLaunch
<1> QED BY <1>1, <1>2, <1>3, <1>4, <1>5, <1>6, <1>7, <1>8, <1>9 DEF Next

\* The checks of launch_notebook_helper, a count of different folders that
\* are not the root and comparisons of strings, keep mount points apart: a
\* list of as many folders as there are different ones has no other in it,
\* and a path inside of another starts with its string.
LEMMA AllowedApart ==
    ASSUME NEW ms \in Seq(Seq(PathNames)), MountsAllowed(ms)
    PROVE  /\ \A k \in DOMAIN ms : ms[k] # <<>>
           /\ \A i, j \in DOMAIN ms : i # j => ~ IsPrefix(ms[i], ms[j])
<1>1. ASSUME NEW k \in DOMAIN ms, ms[k] = <<>> PROVE FALSE
  <2> DEFINE T == ToSet(ms)
  <2>0. DOMAIN ms = 1 .. Len(ms) /\ Len(ms) \in Nat /\ ms = [l \in 1 .. Len(ms) |-> ms[l]]
    OBVIOUS
  <2>1. ms \in Surjection(1 .. Len(ms), T)
    <3>1. ms \in [1 .. Len(ms) -> T] /\ T = {ms[l] : l \in 1 .. Len(ms)}
      BY <2>0 DEF ToSet
    <3> QED BY <3>1 DEF Surjection
  <2>2. IsFiniteSet(1 .. Len(ms)) /\ Cardinality(1 .. Len(ms)) = Len(ms)
    <3>1. Len(ms) \in Int /\ Len(ms) >= 0
      OBVIOUS
    <3>2. 1 \in Int /\ (IF 1 > Len(ms) THEN 0 ELSE Len(ms) - 1 + 1) = Len(ms)
      BY <3>1
    <3> QED BY <3>1, <3>2, FS_Interval
  <2> HIDE DEF T
  <2>3. IsFiniteSet(T) /\ Cardinality(T) <= Len(ms)
    BY <2>1, <2>2, FS_Surjection
  <2>4. <<>> \in T
    BY <1>1 DEF T, ToSet
  <2>5. Cardinality(T \ {<<>>}) = Cardinality(T) - 1 /\ Cardinality(T) \in Nat
    BY <2>3, <2>4, FS_RemoveElement, FS_CardinalityType
  <2> QED BY <2>3, <2>5 DEF MountsAllowed, T
<1>2. ASSUME NEW i \in DOMAIN ms, NEW j \in DOMAIN ms, i # j, IsPrefix(ms[i], ms[j])
      PROVE  FALSE
  <2> DEFINE n == ms[i]
             m == ms[j]
  <2>1. n \in Seq(PathNames) /\ m \in Seq(PathNames)
    OBVIOUS
  <2>2. Len(n) <= Len(m) /\ SubSeq(n, 1, Len(n)) = SubSeq(m, 1, Len(n))
    BY <1>2 DEF IsPrefix
  <2> HIDE DEF n, m
  <2>3. ASSUME NEW k \in 1 .. Len(n) PROVE m[k] = n[k]
    <3>1. SubSeq(n, 1, Len(n))[k] = n[k] /\ SubSeq(m, 1, Len(n))[k] = m[k]
      BY <2>1, <2>2
    <3> QED BY <2>2, <3>1
  <2>4. StartsWith(m, n)
    BY <2>1, <2>2, <2>3 DEF StartsWith
  <2> QED BY <1>2, <2>4 DEF MountsAllowed, Nested, n, m
<1> QED BY <1>1, <1>2

\* The three kinds of requests, each with its theorem about the classes.
LEMMA OptionsChosen == ASSUME PoolsAnswered, ChooseOptions PROVE OptionsHonourRequest'
<1> SUFFICES ASSUME asked' # Nothing, options' # Nothing
             PROVE  CASE asked'.kind = "class" -> ClassHonoured(asked.what)'
                      [] asked'.kind = "old" -> OldRequestHonoured(asked.what)'
                      [] asked'.kind = "default" -> DefaultHonoured(asked.what)'
  BY DEF OptionsHonourRequest
<1>1. pools' = pools /\ ArePools(pools)
  BY ResourcesAssumption DEF ChooseOptions, PoolsAnswered
<1>2. ASSUME NEW id \in ClassIds, NEW g \in StorageSizes,
             Resources("class", [id |-> id, storage |-> g], ValidateClassStorage(pools, id, g))
      PROVE  asked'.kind = "class" /\ ClassHonoured(asked.what)'
  <2>1. asked' = [kind |-> "class", what |-> [id |-> id, storage |-> g]]
        /\ options' = ValidateClassStorage(pools, id, g)
    BY <1>2 DEF Resources
  <2>2. g \in Int
    BY ResourcesAssumption
  <2>3. /\ options'.class = id /\ options'.storage = g * Giga /\ g >= 1
        /\ \E pool \in ToSet(pools) :
                  /\ HasClass(pool, id)
                  /\ options'.priority = pool.quota
                  /\ options'.idle = pool.idle
                  /\ options'.hibernation = pool.hibernation
                  /\ ClassOf(pool, id).max_storage >= g
    BY <1>1, <2>1, <2>2, ClassWithStorage
  <2> QED BY <1>1, <2>1, <2>3 DEF ClassHonoured, PoolsOfClass
<1>3. ASSUME NEW o \in OldRequests, Resources("old", o, FindAcceptableClass(pools, o))
      PROVE  asked'.kind = "old" /\ OldRequestHonoured(asked.what)'
  <2>1. asked' = [kind |-> "old", what |-> o] /\ options' = FindAcceptableClass(pools, o)
    BY <1>3 DEF Resources
  <2>2. \A s \in Sizes : o[s] \in Int
    BY ResourcesAssumption
  <2>3. /\ NotNegative(Diff(options', o))
        /\ \E pool \in ToSet(pools) :
               HasClass(pool, options'.class) /\ options'.priority = pool.quota
        /\ \A pool \in ToSet(pools) : \A c \in ToSet(pool.classes) :
               Matching(c, o) /\ NotNegative(Diff(FromResourceClass(c), o))
                   => ~ Smaller(FromResourceClass(c), options')
    BY <1>1, <2>1, <2>2, AcceptableClass
  <2> QED BY <1>1, <2>1, <2>3 DEF OldRequestHonoured, PoolsOfClass
<1>4. ASSUME HasDefaultClass(pools), NEW g \in StorageSizes,
             Resources("default", [storage |-> g], DefaultOptions(pools, g))
      PROVE  asked'.kind = "default" /\ DefaultHonoured(asked.what)'
  <2>1. asked' = [kind |-> "default", what |-> [storage |-> g]]
        /\ options' = DefaultOptions(pools, g)
    BY <1>4 DEF Resources
  <2>2. g \in Int
    BY ResourcesAssumption
  <2>3. \E pool \in ToSet(pools) : \E c \in ToSet(pool.classes) :
            c.id = options'.class /\ c.default /\ options'.storage <= c.max_storage * Giga
    BY <1>1, <1>4, <2>1, <2>2, DefaultClassOfPools
  <2> QED BY <1>1, <2>1, <2>3 DEF DefaultHonoured, AllClasses
<1> QED BY <1>2, <1>3, <1>4 DEF ChooseOptions

\* Only ChooseOptions asks for resources, and the checks that follow forget
\* what was asked.
LEMMA ResourcesKeep == ASSUME ResourcesInv, [Next]_vars PROVE ResourcesInv'
<1>1. CASE ChooseOptions
  <2>1. PoolsAnswered'
    BY <1>1 DEF ChooseOptions, Resources, Refuse, Goto, PoolsAnswered
  <2> QED BY <1>1, <2>1, OptionsChosen DEF ResourcesInv
<1>2. CASE ReadWorkdir
  BY <1>2 DEF ReadWorkdir, Goto, Refuse, ResourcesInv, PoolsAnswered, OptionsHonourRequest
<1>3. CASE UNCHANGED <<pools, asked, options>>
           /\ (pc' \in {"image", "options"} => pc \in {"image", "options"})
  <2>1. PoolsAnswered'
    BY <1>3 DEF ResourcesInv, PoolsAnswered
  <2>2. OptionsHonourRequest'
    BY <1>3 DEF ResourcesInv, OptionsHonourRequest, ClassHonoured, OldRequestHonoured,
                DefaultHonoured, PoolsOfClass, AllClasses
  <2> QED BY <2>1, <2>2 DEF ResourcesInv
<1>4. CASE RequestedImage \/ CommitImage \/ NoImageForRequest \/ NoOptions
  BY <1>3, <1>4 DEF RequestedImage, CommitImage, NoImageForRequest, NoOptions, Refuse, Goto
<1>5. CASE AddStorages \/ NoStorages \/ StartServer \/ NotStarted \/ Amalthea
  BY <1>3, <1>5 DEF AddStorages, NoStorages, StartServer, NotStarted, Amalthea, Refuse, Goto
<1>6. CASE UNCHANGED vars
  BY <1>3, <1>6 DEF vars
<1> QED BY <1>1, <1>2, <1>4, <1>5, <1>6 DEF Next

\* get_providers gives a list.
LEMMA ProvidersAreSeq ==
    ASSUME NEW connected \in SUBSET GitHosts
    PROVE  IsSeq(Providers(connected))
<1> DEFINE S == {[id |-> "external", host |-> h] : h \in connected}
           first == <<[id |-> "INTERNAL_GITLAB", host |-> InternalGitlab]>>
<1>1. IsFiniteSet(S)
  <2>1. IsFiniteSet(connected)
    BY GitAssumption, FS_Subset
  <2> DEFINE f == [h \in connected |-> [id |-> "external", host |-> h]]
  <2>2. f \in Surjection(connected, S)
    BY DEF Surjection
  <2> HIDE DEF f, S
  <2> QED BY <2>1, <2>2, FS_Surjection
<1> HIDE DEF S
<1>2. IsSeq(SetToSeq(S))
  <2> DEFINE n == Cardinality(S)
  <2>1. n \in Nat
    BY <1>1, FS_CardinalityType
  <2>2. \E f \in [1 .. n -> S] : IsInjective(f)
    <3>1. ExistsBijection(1 .. n, S)
      BY <1>1, FS_CardinalityType
    <3> QED BY <3>1 DEF ExistsBijection, Bijection, Injection, IsInjective
  <2>3. SetToSeq(S) \in [1 .. n -> S]
    BY <2>2 DEF SetToSeq
  <2>4. SetToSeq(S) \in Seq(S)
    BY <2>1, <2>3, SeqDef
  <2> QED BY <2>4, SeqFacts
<1>3. IsSeq(<<>>) /\ IsSeq(first)
  BY Shortest
<1>4. IsSeq(first \o SetToSeq(S))
  BY <1>2, <1>3, Joined
<1> QED BY <1>3, <1>4 DEF Providers, S

\* The provider of a repository is one of the list, if it has one.
LEMMA ProviderOfRepository ==
    ASSUME NEW host, NEW providers, IsSeq(providers)
    PROVE  Repository(host, providers).provider
               \in {providers[k].id : k \in DOMAIN providers} \cup {NoProvider}
<1> DEFINE found == {k \in DOMAIN providers : providers[k].host = host}
<1>1. found \in SUBSET Nat /\ found \subseteq DOMAIN providers
  BY SeqElements
<1>2. Repository(host, providers).provider
          = IF found = {} THEN NoProvider ELSE providers[Min(found)].id
  BY DEF Repository
<1> HIDE DEF found
<1>3. found # {} => Min(found) \in DOMAIN providers
  BY <1>1, MinIsLeast
<1> QED BY <1>2, <1>3

\* What start creates.
LEMMA NewServerBuilt ==
    ASSUME NEW hosts, NEW connected \in SUBSET GitHosts, NEW secrets,
           NEW env \in UserEnvs, mounts \in Seq(Seq(PathNames)),
           NEW s, s = NewServer(hosts, connected, secrets, env)
    PROVE  /\ s.registered = user.registered /\ s.private = private
           /\ IsServer(s) /\ s.storages = mounts /\ ProvidersKnown(s)
<1> DEFINE ps == Providers(connected)
<1>1. /\ s.registered = user.registered /\ s.private = private
      /\ s.env = env /\ s.storages = mounts /\ s.providers = ps
      /\ s.repositories = [k \in DOMAIN hosts |-> Repository(hosts[k], ps)]
  BY DEF NewServer
<1> HIDE DEF ps
<1>2. IsServer(s)
  <2>1. IsSeq(env)
    BY EnvsAssumption DEF IsSeq
  <2>2. IsSeq(mounts)
    BY SeqFacts
  <2> QED BY <1>1, <2>1, <2>2 DEF IsServer
<1>3. ProvidersKnown(s)
  BY <1>1, ProvidersAreSeq, ProviderOfRepository DEF ProvidersKnown, ProvidersOf, ps
<1> QED BY <1>1, <1>2, <1>3

\* Only AddStorages, StartServer and Amalthea lead to states with mount
\* folders, a server and a pod to speak of.
LEMMA ManifestKeeps == ASSUME LaunchInv, ManifestInv, [Next]_vars PROVE ManifestInv'
<1> USE DEF ManifestInv
<1>1. CASE AddStorages
  <2>1. PICK n \in 0 .. MaxStorages : \E targets \in [1 .. n -> Targets] :
            mounts' = [k \in 1 .. n |-> MountFolder(targets[k])]
    BY <1>1 DEF AddStorages
  <2>2. Len(mounts') <= MaxStorages
    <3>1. n \in Nat /\ n <= MaxStorages
      BY LaunchBoundsAssumption
    <3>2. PICK targets \in [1 .. n -> Targets] :
              mounts' = [k \in 1 .. n |-> MountFolder(targets[k])]
      BY <2>1
    <3> QED BY <3>1, <3>2
  <2>3. pc' = "start" /\ user' = user
    BY <1>1 DEF AddStorages, Goto
  <2> QED BY <2>2, <2>3 DEF ServerBuilt, PodBuilt
<1>2. CASE StartServer
  <2>1. pc = "start" /\ UNCHANGED <<user, mounts>> /\ pc' \in {"created", "refused"}
    BY <1>2 DEF StartServer, Refuse, Goto
  <2>2. mounts \in Seq(Seq(PathNames))
    BY <2>1 DEF LaunchInv, MountsChecked
  <2>3. ASSUME pc' = "created"
        PROVE  /\ server'.registered = user.registered
               /\ IsServer(server') /\ ~ EnvClash(Patches(server'))
               /\ server'.storages = mounts /\ ProvidersKnown(server')
    <3>1. PICK hosts \in RepositoryHosts, connected \in SUBSET (GitHosts \ {InternalGitlab}),
               secrets \in BOOLEAN, env \in UserEnvs :
              LET s == NewServer(hosts, connected, secrets, env) IN
              IF Overrides(s) \/ EnvClash(Patches(s))
                  THEN Refuse /\ UNCHANGED server
                  ELSE Goto("created") /\ server' = s
      BY <1>2 DEF StartServer
    <3> DEFINE s == NewServer(hosts, connected, secrets, env)
    <3>2. server' = s /\ ~ EnvClash(Patches(s))
      BY <2>3, <3>1 DEF Refuse, Goto
    <3> HIDE DEF s
    <3>3. connected \in SUBSET GitHosts
      OBVIOUS
    <3>4. /\ s.registered = user.registered
          /\ IsServer(s) /\ s.storages = mounts /\ ProvidersKnown(s)
      BY <2>2, <3>3, NewServerBuilt DEF s
    <3> QED BY <3>2, <3>4
  <2>4. ServerBuilt'
    BY <2>1, <2>3 DEF ServerBuilt, ProvidersKnown
  <2> QED BY <2>1, <2>4 DEF PodBuilt
<1>3. CASE Amalthea
  <2>1. /\ pc = "created" /\ pc' = "applied" /\ UNCHANGED <<user, mounts, server>>
        /\ pod' = Applied(Base(server), Patches(server))
    BY <1>3 DEF Amalthea, Goto
  <2>2. ServerBuilt'
    BY <2>1 DEF ServerBuilt, ProvidersKnown
  <2> QED BY <2>1, <2>2 DEF PodBuilt
<1>4. CASE user' = user /\ pc' \notin {"start", "created", "applied"}
  BY <1>4 DEF ServerBuilt, PodBuilt
<1>5. CASE RequestedImage \/ CommitImage \/ NoImageForRequest
  BY <1>4, <1>5 DEF RequestedImage, CommitImage, NoImageForRequest, Refuse, Goto
<1>6. CASE ChooseOptions \/ NoOptions \/ ReadWorkdir \/ NoStorages \/ NotStarted
  BY <1>4, <1>6 DEF ChooseOptions, Resources, NoOptions, ReadWorkdir, NoStorages,
                    NotStarted, Refuse, Goto
<1>7. CASE UNCHANGED vars
  BY <1>7 DEF vars, ServerBuilt, PodBuilt, ProvidersKnown
<1> QED BY <1>1, <1>2, <1>3, <1>5, <1>6, <1>7 DEF Next

\* The invariant of the launch, for any registries, pools, sizes, targets,
\* providers and variables.
THEOREM Invariance == Spec => []IInv
<1>1. IInv /\ [Next]_vars => IInv'
  BY LaunchKeeps, ResourcesKeep, ManifestKeeps DEF IInv
<1> QED BY InitEstablishes, <1>1, PTL DEF Spec

\* The GitLab token goes to the registry of Renku only, also while the
\* default image of another registry is taken (launch_notebook_helper).
THEOREM TokenStays == Spec => []TokenStaysAtRegistry
<1>1. IInv => TokenStaysAtRegistry
  BY DEF IInv, LaunchInv
<1> QED BY Invariance, <1>1, PTL

\* Private images have a pull secret and pull secrets are for the registry of
\* Renku; no session has an image that is not there (is_image_private).
THEOREM RightSecret == Spec => []PulledWithRightSecret
<1>1. IInv => PulledWithRightSecret
  BY DEF IInv, LaunchInv, ImageChosen, ServerOfLaunch, PulledWithRightSecret
<1> QED BY Invariance, <1>1, PTL

\* Cloud storages are mounted neither at the root nor inside of one another
\* (the checks of launch_notebook_helper).
THEOREM Apart == Spec => []MountsApart
<1>1. IInv => MountsApart
  BY AllowedApart DEF IInv, LaunchInv, MountsChecked, ServerOfLaunch, MountsApart
<1> QED BY Invariance, <1>1, PTL

\* The resources of a session honour its request, of each of the three kinds
\* (CRCValidator).
THEOREM OptionsRight == Spec => []OptionsHonourRequest
<1>1. IInv => OptionsHonourRequest
  BY DEF IInv, ResourcesInv
<1> QED BY Invariance, <1>1, PTL

\* The pod that was built, if it was.
LEMMA PodFacts ==
    ASSUME ManifestInv, pc = "applied"
    PROVE  /\ pod = Failed <=> Misplaced
           /\ pod # Failed =>
                  /\ GoodList(pod.containers, server, pod.volumes)
                  /\ GoodList(pod.initContainers, server, pod.volumes)
                  /\ \A k \in DOMAIN pod.initContainers :
                         \/ pod.initContainers[k].name = "init-user-secrets"
                         \/ \E l \in 1 .. k :
                                /\ l \in DOMAIN pod.initContainers
                                /\ pod.initContainers[l].name = "init-certificates"
                  /\ IndicesRight
                  /\ NeedsGit(server) => \E k \in DOMAIN pod.containers :
                                             pod.containers[k].name = "git-proxy"
                  /\ \A x \in ToSet(Patches(server)) : x.op = "extend" =>
                         Has(pod[x.list][x.i + 1], x)
                  /\ \A k \in DOMAIN pod.containers :
                         pod.containers[k].name # "git-clone"
                  /\ \A k \in DOMAIN pod.initContainers :
                         pod.initContainers[k].name = "git-clone" =>
                             k = IF server.secrets THEN 4 ELSE 3
<1>1. IsServer(server) /\ server.storages = mounts
      /\ pod = Applied(Base(server), Patches(server))
  BY DEF ManifestInv, ServerBuilt, PodBuilt
<1>2. Unreachable(server) <=> Misplaced
  BY <1>1 DEF Unreachable, Misplaced
<1>3. \A k \in DOMAIN Patches(server) : Patches(server)[k] \in ToSet(Patches(server))
  BY DEF ToSet
<1>4. (\A x \in ToSet(Patches(server)) : x.op = "extend" =>
           /\ x.list \in {"containers", "initContainers"}
           /\ x.i + 1 \in DOMAIN pod[x.list]
           /\ pod[x.list][x.i + 1].name = x.meant)
      => IndicesRight
  BY <1>3 DEF IndicesRight
<1> QED BY <1>1, <1>2, <1>4, PodOfPatches

\* The containers of the pod are good.
LEMMA ContainersGood ==
    ASSUME ManifestInv, pc = "applied", pod # Failed, NEW c \in Containers(pod)
    PROVE  Good(c, server, pod.volumes)
<1>1. GoodList(pod.containers, server, pod.volumes)
      /\ GoodList(pod.initContainers, server, pod.volumes)
  BY PodFacts
<1> QED BY <1>1 DEF GoodList, Containers, ToSet

\* The patches fit together, for any server that a launch can create, but
\* for cloud storages next to user secrets (_get_patches).
THEOREM PodFits == Spec => []PodWellFormed
<1>1. ASSUME IInv PROVE PodWellFormed
  <2> SUFFICES ASSUME pc = "applied", ~ Misplaced
               PROVE  /\ pod # Failed
                      /\ \A c \in Containers(pod) : OneValue(c) /\ VolumesDeclared(c)
                      /\ CertificatesBeforeUse
                      /\ IndicesRight
    BY DEF PodWellFormed
  <2>1. ManifestInv
    BY <1>1 DEF IInv
  <2>2. pod # Failed /\ IndicesRight
    BY <2>1, PodFacts
  <2>3. ASSUME NEW c \in Containers(pod) PROVE OneValue(c) /\ VolumesDeclared(c)
    <3>1. Good(c, server, pod.volumes)
      BY <2>1, <2>2, ContainersGood
    <3>2. 1 .. Len(server.storages) \subseteq DOMAIN MountVariable
      <4>1. server.storages = mounts /\ Len(mounts) <= MaxStorages
        BY <2>1 DEF ManifestInv, ServerBuilt
      <4>2. Len(server.storages) \in Nat
        BY <2>1, SeqElements DEF ManifestInv, ServerBuilt, IsServer
      <4> QED BY <4>1, <4>2, LaunchBoundsAssumption
    <3>3. Agree(Env(c.name, server))
      <4>1. IsServer(server) /\ ~ EnvClash(Patches(server))
        BY <2>1 DEF ManifestInv, ServerBuilt
      <4> QED BY <3>2, <4>1, EnvAgrees
    <3>4. OneValue(c)
      BY <3>1, <3>3 DEF Good, Agree, OneValue
    <3>5. VolumesDeclared(c)
      BY <3>1 DEF Good, VolumesDeclared
    <3> QED BY <3>4, <3>5
  <2>4. CertificatesBeforeUse
    <3> SUFFICES ASSUME NEW k \in DOMAIN pod.initContainers,
                        "mounts" \in DOMAIN pod.initContainers[k],
                        EtcCerts \in pod.initContainers[k].mounts
                 PROVE  \E l \in InitIndex("init-certificates") : l <= k
      BY DEF CertificatesBeforeUse
    <3>1. Good(pod.initContainers[k], server, pod.volumes)
      BY <2>1, <2>2, PodFacts DEF GoodList
    <3>2. pod.initContainers[k].name # "init-user-secrets"
      BY <3>1 DEF Good
    <3>3. PICK l \in 1 .. k : /\ l \in DOMAIN pod.initContainers
                              /\ pod.initContainers[l].name = "init-certificates"
      BY <2>1, <2>2, <3>2, PodFacts
    <3> QED BY <3>3 DEF InitIndex
  <2> QED BY <2>2, <2>3, <2>4
<1> QED BY Invariance, <1>1, PTL

\* git-clone is told of a git proxy if and only if there is one, and the
\* proxy knows the providers of all repositories (git_clone, git_proxy).
THEOREM CloneUsesProxy == Spec => []CloneThroughProxy
<1>1. ASSUME IInv PROVE CloneThroughProxy
  <2> SUFFICES ASSUME pc = "applied", pod # Failed,
                      NEW c \in ContainerNamed("git-clone")
               PROVE  /\ Value(c, "IS_GIT_PROXY_ENABLED")
                             = {ContainerNamed("git-proxy") # {}}
                      /\ \A p \in ContainerNamed("git-proxy") :
                             \A known \in Value(p, "PROVIDERS") :
                                 \A k \in DOMAIN server.repositories :
                                     server.repositories[k].provider
                                         \in known \cup {NoProvider}
    BY DEF CloneThroughProxy
  <2> DEFINE told == "IS_GIT_PROXY_ENABLED"
             proxies == ContainerNamed("git-proxy")
  <2>1. ManifestInv /\ server.registered \in BOOLEAN /\ ProvidersKnown(server)
    BY <1>1 DEF IInv, ManifestInv, ServerBuilt, Users
  <2>2. \A d \in Containers(pod) : Good(d, server, pod.volumes)
    BY <2>1, ContainersGood
  <2>3. c.name = "git-clone" /\ c \in Containers(pod)
    BY DEF ContainerNamed
  <2>4. /\ server.repositories # <<>> /\ CloneEnv(server) \subseteq c.env
        /\ c.env \subseteq CloneEnv(server) \cup StorageEnv(server)
    <3>1. Good(c, server, pod.volumes)
      BY <2>2, <2>3
    <3>2. "env" \in DOMAIN c
      BY <2>3, <3>1 DEF Good, Extensible
    <3>3. Env("git-clone", server) = CloneEnv(server) \cup StorageEnv(server)
      <4>1. Auth(server) \in {"oauth2-proxy", "passthrough-proxy"}
        BY DEF Auth
      <4> QED BY <4>1 DEF Env
    <3> QED BY <2>3, <3>1, <3>2, <3>3 DEF Good
  <2>5. Value(c, told) = {server.registered}
    <3>1. <<told, server.registered>> \in c.env
      BY <2>4 DEF CloneEnv
    <3>2. ASSUME NEW w \in c.env, w[1] = told PROVE w[2] = server.registered
      <4>1. CASE w \in CloneEnv(server)
        BY <3>2, <4>1 DEF CloneEnv
      <4>2. CASE w \in StorageEnv(server)
        <5>1. PICK i \in DOMAIN server.storages :
                  w = <<MountVariable[i], server.storages[i]>>
          BY <4>2 DEF StorageEnv
        <5>2. i \in DOMAIN MountVariable
          <6>1. server.storages = mounts /\ Len(mounts) <= MaxStorages
                /\ IsSeq(server.storages)
            BY <2>1 DEF ManifestInv, ServerBuilt, IsServer
          <6>2. i \in 1 .. MaxStorages
            BY <6>1, SeqElements, LaunchBoundsAssumption
          <6> QED BY <6>2, LaunchBoundsAssumption
        <5>3. w[1] = MountVariable[i]
          BY <5>1
        <5> QED BY <3>2, <5>2, <5>3, MountVariablesAssumption
      <4> QED BY <2>4, <4>1, <4>2
    <3>3. <<told, server.registered>>[1] = told
          /\ <<told, server.registered>>[2] = server.registered
      OBVIOUS
    <3> QED BY <3>1, <3>2, <3>3 DEF Value
  <2>6. ASSUME NEW p \in proxies
        PROVE  NeedsGit(server) /\ p.env = ProxyEnv(server)
    <3>1. p.name = "git-proxy" /\ Good(p, server, pod.volumes)
      BY <2>2 DEF ContainerNamed
    <3> QED BY <3>1 DEF Good
  <2>7. server.registered <=> proxies # {}
    <3>1. ASSUME server.registered PROVE proxies # {}
      <4>1. NeedsGit(server)
        BY <2>4, <3>1 DEF NeedsGit
      <4>2. PICK k \in DOMAIN pod.containers : pod.containers[k].name = "git-proxy"
        BY <2>1, <4>1, PodFacts
      <4> QED BY <4>2 DEF ContainerNamed, Containers, ToSet
    <3> QED BY <2>6, <3>1 DEF NeedsGit
  <2>8. Value(c, told) = {proxies # {}}
    BY <2>1, <2>5, <2>7
  <2>9. ASSUME NEW p \in proxies, NEW known \in Value(p, "PROVIDERS"),
               NEW k \in DOMAIN server.repositories
        PROVE  server.repositories[k].provider \in known \cup {NoProvider}
    <3>1. known = ProvidersOf(server)
      BY <2>6 DEF ProxyEnv, Value
    <3> QED BY <2>1, <3>1 DEF ProvidersKnown
  <2> QED BY <2>8, <2>9
<1> QED BY Invariance, <1>1, PTL

\* A pod is not made exactly when cloud storages and user secrets are mounted
\* into a session with repositories, and in every other pod git-clone, if the
\* session has it, is there and told of all storages (cloudstorage, and the
\* order of the patches in _get_patches).
ToldOfStorages ==
    pc = "applied" =>
        /\ pod = Failed <=> Misplaced
        /\ ~ Misplaced => StorageReachesGitClone
        /\ ~ Misplaced /\ mounts # <<>> /\ server.repositories # <<>> =>
               ContainerNamed("git-clone") # {}

\* StorageReachesGitClone but for the order of the user secrets: the one
\* combination in which it fails always fails (cloudstorage, _get_patches).
THEOREM StoragesReach == Spec => []ToldOfStorages
<1>1. ASSUME IInv PROVE ToldOfStorages
  <2> SUFFICES ASSUME pc = "applied", ~ Misplaced,
                      mounts # <<>>, server.repositories # <<>>
               PROVE  /\ ContainerNamed("git-clone") # {}
                      /\ \A c \in ContainerNamed("git-clone"), k \in DOMAIN mounts :
                             <<MountVariable[k], mounts[k]>> \in c.env
    <3>1. pc = "applied" => (pod = Failed <=> Misplaced)
      BY <1>1, PodFacts DEF IInv
    <3> QED BY <3>1 DEF ToldOfStorages, StorageReachesGitClone
  <2> DEFINE inits == pod.initContainers
  <2>1. ManifestInv
    BY <1>1 DEF IInv
  <2>2. pod # Failed /\ ~ server.secrets
    BY <2>1, PodFacts DEF Misplaced
  <2>3. IsServer(server) /\ server.storages = mounts
        /\ DOMAIN mounts = 1 .. Len(mounts) /\ 1 \in DOMAIN mounts
    <3>1. IsServer(server) /\ server.storages = mounts
      BY <2>1 DEF ManifestInv, ServerBuilt
    <3>2. mounts \in Seq(ToSet(mounts))
      BY <3>1 DEF IsServer, IsSeq
    <3> QED BY <3>1, <3>2, EmptySeq
  <2>4. ASSUME NEW k \in DOMAIN mounts
        PROVE  /\ 3 \in DOMAIN inits /\ inits[3].name = "git-clone"
               /\ <<MountVariable[k], mounts[k]>> \in inits[3].env
    <3> DEFINE x == Tell(server, k)
    <3>1. x \in ToSet(Patches(server))
      BY <2>3, StoragesTold
    <3>2. /\ x.op = "extend" /\ x.list = "initContainers" /\ x.i + 1 = 3
          /\ x.meant = "git-clone" /\ x.field = "env"
          /\ x.value = <<MountVariable[k], mounts[k]>>
      BY <2>3 DEF Tell, Extend
    <3> HIDE DEF x
    <3>3. pod["initContainers"] = inits
      OBVIOUS
    <3>4. Has(inits[3], x)
      BY <2>1, <2>2, <3>1, <3>2, <3>3, PodFacts
    <3>5. 3 \in DOMAIN inits /\ inits[3].name = "git-clone"
      <4>1. pod = Applied(Base(server), Patches(server)) /\ pod # Failed
        BY <2>1, <2>2 DEF ManifestInv, PodBuilt
      <4>2. x.i + 1 \in DOMAIN pod[x.list] /\ pod[x.list][x.i + 1].name = x.meant
        BY <2>3, <3>1, <3>2, <4>1, PodOfPatches
      <4> QED BY <3>2, <3>3, <4>2
    <3>6. inits[3]["env"] = inits[3].env
      OBVIOUS
    <3> QED BY <3>2, <3>4, <3>5, <3>6 DEF Has
  <2>5. ASSUME NEW c \in ContainerNamed("git-clone") PROVE c = inits[3]
    <3>1. c.name = "git-clone" /\ c \in Containers(pod)
      BY DEF ContainerNamed
    <3>2. c \notin ToSet(pod.containers)
      BY <2>1, <2>2, <3>1, PodFacts DEF ToSet
    <3>3. PICK k \in DOMAIN inits : c = inits[k]
      BY <3>1, <3>2 DEF Containers, ToSet
    <3>4. k = 3
      BY <2>1, <2>2, <3>1, <3>3, PodFacts
    <3> QED BY <3>3, <3>4
  <2>6. inits[3] \in ContainerNamed("git-clone")
    <3>1. 3 \in DOMAIN inits /\ inits[3].name = "git-clone"
      BY <2>3, <2>4
    <3> QED BY <3>1 DEF ContainerNamed, Containers, ToSet
  <2> QED BY <2>4, <2>5, <2>6
<1> QED BY Invariance, <1>1, PTL

=============================================================================
