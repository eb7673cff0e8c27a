--------------------------- MODULE LaunchRequest ---------------------------
(***************************************************************************)
(* One launch of a session (launch_notebook_helper in api/notebooks.py),   *)
(* from the request to the pod: the image is looked for in its registry,   *)
(* the resources are checked against the resource classes, the mount       *)
(* points of cloud storages against each other, and the manifest is        *)
(* patched.  SessionApi has these checks as the single step                *)
(* ValidateLaunch; here each of them chooses its part of the request and   *)
(* the answers of the services it calls.                                   *)
(***************************************************************************)
EXTENDS ResourceClasses, SessionManifest

CONSTANTS
    Hosts,           \* the registries
    GitlabRegistry,  \* config.git.registry
    DefaultHost,     \* the registry of config.sessions.default_image
    PoolLists,       \* what the data service may say of the resource pools
    StorageSizes,    \* gigabytes a request asks for
    OldRequests,     \* what the old API asks for, in bytes
    PathNames,       \* names of folders
    Targets,         \* mount points of cloud storages in requests
    MaxStorages,     \* bound: cloud storages of a request
    NamePrefix,      \* the names of files of which another is a prefix
    InternalGitlab,  \* the host of the provider INTERNAL_GITLAB
    GitHosts,        \* hosts of repositories, which may have a provider
    MaxRepositories, \* bound: repositories of a request
    UserEnvs,        \* the environment variables of requests
    NoProvider,
    NoPod

ASSUME HostsAssumption == {GitlabRegistry, DefaultHost} \subseteq Hosts

ASSUME ResourcesAssumption ==
    /\ \A ps \in PoolLists : ArePools(ps)
    /\ StorageSizes \subseteq Int
    /\ \A o \in OldRequests : \A s \in Sizes : o[s] \in Int

ASSUME PathsAssumption ==
    /\ {"home", "work", "project"} \subseteq PathNames
    /\ \A t \in Targets : t.path \in Seq(PathNames)

ASSUME GitAssumption ==
    /\ IsFiniteSet(GitHosts) /\ InternalGitlab \in GitHosts
    /\ NoProvider \notin {"INTERNAL_GITLAB", "external"}

\* The variables of a request are in an order.
ASSUME EnvsAssumption == \A e \in UserEnvs : e \in Seq(ToSet(e))

ASSUME LaunchBoundsAssumption ==
    /\ {MaxStorages, MaxRepositories} \subseteq Nat
    /\ 1 .. MaxStorages \subseteq DOMAIN MountVariable

VARIABLES
    pc,
    user,      \* registered, and whether there is a token for GitLab
    version,   \* of Renku: 1 with a GitLab project, 2 with repositories
    image,     \* parsed_image
    repo,      \* image_repo: the registry and whether it is given the token
    private,   \* is_image_private
    sent,      \* the requests that the last step sent to registries
    pools,     \* what the data service said; local to the CRCValidator
    asked,     \* the resources asked for, until the options are there
    options,   \* parsed_server_options
    workdir,   \* server_work_dir
    mounts,    \* the mount folders of the cloud storages
    server,    \* the server that was created
    pod        \* what Amalthea made of it

vars == <<pc, user, version, image, repo, private, sent, pools, asked,
          options, workdir, mounts, server, pod>>

Users == {u \in [registered : BOOLEAN, gitToken : BOOLEAN] :
              u.gitToken => u.registered}

Image(h, visibility) == [host |-> h, visibility |-> visibility]

DefaultImage == Image(DefaultHost, "public")

NoImage == Image(DefaultHost, "missing")

Init ==
    /\ pc = "image"
    /\ user \in Users
    /\ version \in {1, 2}
    /\ image = NoImage
    /\ repo = [host |-> DefaultHost, token |-> FALSE]
    /\ private = FALSE
    /\ sent = {}
    /\ pools \in PoolLists
    /\ asked = Nothing
    /\ options = Nothing
    /\ workdir = <<>>
    /\ mounts = <<>>
    /\ server = Nothing
    /\ pod = NoPod

Goto(l) == pc' = l

\* Every error is answered by the error handler, and nothing was created.
Refuse == Goto("refused")

-----------------------------------------------------------------------------
(***************************************************************************)
(* The image.                                                              *)
(***************************************************************************)

\* get_image_manifest: the image is there for these credentials, with a
\* manifest for linux/amd64.
Readable(r, i) ==
    i.visibility = "public" \/ (i.visibility = "private" /\ r.token)

TriesTokenEverywhere(h) == user.gitToken

TriesToken(h) == h = GitlabRegistry /\ user.gitToken

\* The image of the request: with the token of the user only if it is not
\* public, and only in the registry of Renku.
RequestedImage ==
    /\ pc = "image"
    /\ \E h \in Hosts, visibility \in {"public", "private", "missing"} :
           LET i == Image(h, visibility)
               anyone == [host |-> h, token |-> FALSE]
               tries == ~ Readable(anyone, i) /\ TriesToken(h)
               r == [anyone EXCEPT !.token = tries]
           IN  /\ repo' = r
               /\ sent' = {anyone, r}
               /\ image' = IF Readable(r, i) THEN i ELSE DefaultImage
               /\ private' = (tries /\ Readable(r, i))
    /\ Goto("options")
    /\ UNCHANGED <<user, version, pools, asked, options, workdir, mounts,
                   server, pod>>

\* No image in the request: the one built for the commit.  A project that
\* is not public has no public image.
CommitImage ==
    /\ pc = "image"
    /\ version = 1
    /\ \E public \in BOOLEAN, visibility \in {"public", "private", "missing"} :
           LET i == Image(GitlabRegistry, visibility)
               r == [host |-> GitlabRegistry,
                     token |-> ~ public /\ user.gitToken]
           IN  /\ ~ public => visibility # "public"
               /\ private' = ~ public
               /\ repo' = r
               /\ sent' = {r}
               /\ image' = i
               /\ IF Readable(r, i) THEN Goto("options") ELSE Refuse
    /\ UNCHANGED <<user, version, pools, asked, options, workdir, mounts,
                   server, pod>>

\* No project with this name for the user, or an image that cannot be
\* parsed, or none.
NoImageForRequest ==
    /\ pc = "image"
    /\ Refuse
    /\ sent' = {}
    /\ UNCHANGED <<user, version, image, repo, private, pools, asked, options,
                   workdir, mounts, server, pod>>

ChecksNoHost == TRUE

ChecksHost == image.host = repo.host

\* image_workdir, which raises an ImageParseError when the image is not in
\* the registry of image_repo: so ends the fall back to the default image
\* of another registry.
ReadWorkdir ==
    /\ pc = "workdir"
    /\ IF ChecksHost
           THEN /\ sent' = {[repo EXCEPT !.host = image.host]}
                /\ \E dir \in {<<>>, <<"home">>} :
                       workdir' = dir \o <<"work">>
                                    \o IF version = 1 THEN <<"project">>
                                                      ELSE <<>>
                /\ Goto("storage")
           ELSE Refuse /\ sent' = {} /\ UNCHANGED workdir
    /\ pools' = <<>>
    /\ asked' = Nothing
    /\ UNCHANGED <<user, version, image, repo, private, options, mounts,
                   server, pod>>

-----------------------------------------------------------------------------
(***************************************************************************)
(* The resources.                                                          *)
(***************************************************************************)

ClassIds == {c.id : c \in UNION {UNION {ToSet(p.classes) : p \in ToSet(ps)} :
                                     ps \in PoolLists}}

\* The three kinds of requests, each with the options they lead to.
Resources(kind, what, result) ==
    /\ asked' = [kind |-> kind, what |-> what]
    /\ options' = result
    /\ IF result = Nothing THEN Refuse ELSE Goto("workdir")

ChooseOptions ==
    /\ pc = "options"
    /\ \/ \E id \in ClassIds, g \in StorageSizes :
              Resources("class", [id |-> id, storage |-> g],
                        ValidateClassStorage(pools, id, g))
       \/ \E o \in OldRequests :
              Resources("old", o, FindAcceptableClass(pools, o))
       \/ /\ HasDefaultClass(pools)
          /\ \E g \in StorageSizes :
                 Resources("default", [storage |-> g],
                           DefaultOptions(pools, g))
    /\ sent' = {}
    /\ UNCHANGED <<user, version, image, repo, private, pools, workdir, mounts,
                   server, pod>>

\* The data service does not answer, or has no default class.
NoOptions ==
    /\ pc = "options"
    /\ Refuse
    /\ sent' = {}
    /\ UNCHANGED <<user, version, image, repo, private, pools, asked, options,
                   workdir, mounts, server, pod>>

-----------------------------------------------------------------------------
(***************************************************************************)
(* Cloud storage.                                                          *)
(***************************************************************************)

\* work_dir / target_path.
MountFolder(target) ==
    IF target.absolute THEN target.path ELSE workdir \o target.path

\* str.startswith of two paths, name by name.
StartsWith(m, n) ==
    /\ Len(n) <= Len(m)
    /\ \A k \in 1 .. Len(n) - 1 : m[k] = n[k]
    /\ n # <<>> =>
           LET l == Len(n) IN n[l] = m[l] \/ <<n[l], m[l]>> \in NamePrefix

NestedOneWay(ms) == \E i, j \in DOMAIN ms : i < j /\ StartsWith(ms[i], ms[j])

Nested(ms) == \E i, j \in DOMAIN ms : i # j /\ StartsWith(ms[i], ms[j])

MountsAllowed(ms) ==
    /\ Cardinality(ToSet(ms) \ {<<>>}) = Len(ms)
    /\ ~ Nested(ms)

\* storage_from_schema of each storage, and the checks of the mount points.
\* A storage that is stored needs a user who is logged in, and the data
\* service to know it.
AddStorages ==
    /\ pc = "storage"
    /\ \E n \in 0 .. MaxStorages :
       \E targets \in [1 .. n -> Targets] :
           LET folders == [k \in 1 .. n |-> MountFolder(targets[k])] IN
           /\ MountsAllowed(folders)
           /\ \A k \in 1 .. n : targets[k].stored => user.registered
           /\ mounts' = folders
    /\ Goto("start")
    /\ sent' = {}
    /\ UNCHANGED <<user, version, image, repo, private, pools, asked, options,
                   workdir, server, pod>>

\* The mount points of the request are refused, or one of its storages is.
NoStorages ==
    /\ pc = "storage"
    /\ Refuse
    /\ sent' = {}
    /\ UNCHANGED <<user, version, image, repo, private, pools, asked, options,
                   workdir, mounts, server, pod>>

-----------------------------------------------------------------------------
(***************************************************************************)
(* The server.                                                             *)
(***************************************************************************)

\* get_providers: the internal GitLab first, then those with a connection.
Providers(connected) ==
    IF ~ user.registered
        THEN <<>>
        ELSE <<[id |-> "INTERNAL_GITLAB", host |-> InternalGitlab]>>
                 \o SetToSeq({[id |-> "external", host |-> h] : h \in connected})

\* The first provider with the host of the repository.
Repository(host, providers) ==
    LET found == {k \in DOMAIN providers : providers[k].host = host}
    IN  [host |-> host,
         provider |-> IF found = {} THEN NoProvider ELSE providers[Min(found)].id]

\* The repositories: the one of the project, or those of the request.
RepositoryHosts ==
    IF version = 1
        THEN {<<InternalGitlab>>}
        ELSE UNION {[1 .. n -> GitHosts] : n \in 0 .. MaxRepositories}

NewServer(hosts, connected, secrets, env) ==
    LET providers == Providers(connected)
    IN  [registered |-> user.registered,
         private |-> private,
         secrets |-> secrets,
         env |-> env,
         repositories |-> [k \in DOMAIN hosts |->
                               Repository(hosts[k], providers)],
         providers |-> providers,
         storages |-> mounts,
         options |-> options]

\* start: an environment variable of the user may not change one of the
\* server.
StartServer ==
    /\ pc = "start"
    /\ \E hosts \in RepositoryHosts,
          connected \in SUBSET (GitHosts \ {InternalGitlab}),
          secrets \in BOOLEAN,
          env \in UserEnvs :
           LET s == NewServer(hosts, connected, secrets, env) IN
           IF Overrides(s) \/ EnvClash(Patches(s))
               THEN Refuse /\ UNCHANGED server
               ELSE Goto("created") /\ server' = s
    /\ sent' = {}
    /\ UNCHANGED <<user, version, image, repo, private, pools, asked, options,
                   workdir, mounts, pod>>

\* The branch, the commit or the username is refused, or a service fails.
NotStarted ==
    /\ pc = "start"
    /\ Refuse
    /\ sent' = {}
    /\ UNCHANGED <<user, version, image, repo, private, pools, asked, options,
                   workdir, mounts, server, pod>>

Amalthea ==
    /\ pc = "created"
    /\ pod' = Applied(Base(server), Patches(server))
    /\ Goto("applied")
    /\ sent' = {}
    /\ UNCHANGED <<user, version, image, repo, private, pools, asked, options,
                   workdir, mounts, server>>

Next ==
    \/ RequestedImage \/ CommitImage \/ NoImageForRequest
    \/ ChooseOptions \/ NoOptions
    \/ ReadWorkdir
    \/ AddStorages \/ NoStorages
    \/ StartServer \/ NotStarted
    \/ Amalthea

Spec == Init /\ [][Next]_vars

-----------------------------------------------------------------------------
(***************************************************************************)
(* Properties.                                                             *)
(***************************************************************************)

\* The GitLab token of a user goes to the registry of Renku and to no other,
\* also when the default image is taken in the place of a private one
\* (launch_notebook_helper, get_image_manifest).
TokenStaysAtRegistry ==
    \A r \in sent : r.token => r.host = GitlabRegistry

\* A session whose image is not public has a pull secret, and the pull
\* secret, which is made for the registry of Renku, is for its image; an
\* image that is not there is never the image of a session (is_image_private
\* and using_default_image over the whole handler).
PulledWithRightSecret ==
    server # Nothing =>
        /\ image.visibility # "missing"
        /\ image.visibility = "private" => server.private
        /\ server.private => image.host = GitlabRegistry

PoolsOfClass(id) == {p \in ToSet(pools) : HasClass(p, id)}

AllClasses == UNION {ToSet(p.classes) : p \in ToSet(pools)}

\* A class asked for by id is the class of the session, with the storage
\* asked for, between one gigabyte and its maximum, and the quota and the
\* thresholds of the pool it is in.
ClassHonoured(what) ==
    /\ options.class = what.id
    /\ options.storage = what.storage * Giga
    /\ \E p \in PoolsOfClass(what.id) :
           /\ options.priority = p.quota
           /\ options.idle = p.idle
           /\ options.hibernation = p.hibernation
           /\ ClassOf(p, what.id).max_storage >= what.storage
           /\ what.storage >= 1

\* A request of the old API gets a class that is at least what it asks for
\* in every size, with the quota of its pool, and no class that would do is
\* smaller in all of them.
OldRequestHonoured(what) ==
    /\ NotNegative(Diff(options, what))
    /\ \E p \in PoolsOfClass(options.class) : options.priority = p.quota
    /\ ~ \E p \in ToSet(pools) : \E c \in ToSet(p.classes) :
             /\ Matching(c, what)
             /\ NotNegative(Diff(FromResourceClass(c), what))
             /\ Smaller(FromResourceClass(c), options)

\* What the default class allows at most is allowed at most.
DefaultHonoured(what) ==
    \E c \in AllClasses : /\ c.id = options.class /\ c.default
                          /\ options.storage <= c.max_storage * Giga

\* The resources of a session are those of its request (CRCValidator).
OptionsHonourRequest ==
    asked # Nothing /\ options # Nothing =>
        CASE asked.kind = "class" -> ClassHonoured(asked.what)
          [] asked.kind = "old" -> OldRequestHonoured(asked.what)
          [] asked.kind = "default" -> DefaultHonoured(asked.what)

\* No cloud storage is mounted at the root, where another one is or inside
\* of another one (the checks of launch_notebook_helper, on strings).
MountsApart ==
    server # Nothing =>
        /\ \A k \in DOMAIN mounts : mounts[k] # <<>>
        /\ \A i, j \in DOMAIN mounts :
               i # j => ~ IsPrefix(mounts[i], mounts[j])

Misplaced == server.secrets /\ mounts # <<>> /\ server.repositories # <<>>

Containers(p) == ToSet(p.initContainers) \cup ToSet(p.containers)

\* A variable has one value in a container.
OneValue(c) ==
    "env" \in DOMAIN c => \A v, w \in c.env : v[1] = w[1] => v[2] = w[2]

VolumesDeclared(c) == "mounts" \in DOMAIN c => c.mounts \subseteq pod.volumes

InitIndex(name) ==
    {k \in DOMAIN pod.initContainers : pod.initContainers[k].name = name}

\* Init containers that mount the certificates run after the one that
\* writes them.
CertificatesBeforeUse ==
    \A k \in DOMAIN pod.initContainers :
        LET c == pod.initContainers[k] IN
        "mounts" \in DOMAIN c /\ EtcCerts \in c.mounts =>
            \E l \in InitIndex("init-certificates") : l <= k

\* Patches that name a container by its index reach the one they mean.
IndicesRight ==
    LET patches == Patches(server) IN
    \A k \in DOMAIN patches :
        LET p == patches[k] IN
        p.op = "extend" => pod[p.list][p.i + 1].name = p.meant

\* The patches of all the components fit together in the pod: all of them
\* apply, to the containers they mean, what is mounted is declared, and the
\* certificates are written before they are used.  The one combination that
\* StorageReachesGitClone is about is left out (_get_patches).
PodWellFormed ==
    pc = "applied" /\ ~ Misplaced =>
        /\ pod # Failed
        /\ \A c \in Containers(pod) : OneValue(c) /\ VolumesDeclared(c)
        /\ CertificatesBeforeUse
        /\ IndicesRight

ContainerNamed(name) == {c \in Containers(pod) : c.name = name}

Value(c, variable) == {v[2] : v \in {w \in c.env : w[1] = variable}}

\* git-clone is told to use the git proxy exactly when there is one, and
\* then the proxy knows the provider of every repository that has one
\* (git_clone and git_proxy, on users, repositories and providers).
CloneThroughProxy ==
    pc = "applied" /\ pod # Failed =>
        \A c \in ContainerNamed("git-clone") :
            /\ Value(c, "IS_GIT_PROXY_ENABLED")
                   = {ContainerNamed("git-proxy") # {}}
            /\ \A p \in ContainerNamed("git-proxy") :
                   \A known \in Value(p, "PROVIDERS") :
                       \A k \in DOMAIN server.repositories :
                           server.repositories[k].provider
                               \in known \cup {NoProvider}

\* git-clone is told of every cloud storage, so that it keeps the mount
\* points out of git (the comment on cloudstorage_patches in _get_patches).
\* It is not when user secrets are mounted as well: their init container
\* comes first and the index 2 is another container.
StorageReachesGitClone ==
    pc = "applied" /\ mounts # <<>> /\ server.repositories # <<>> =>
        /\ pod # Failed
        /\ \A c \in ContainerNamed("git-clone"), k \in DOMAIN mounts :
               <<MountVariable[k], mounts[k]>> \in c.env

=============================================================================
