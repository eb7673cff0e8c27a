-------------------------- MODULE SessionManifest --------------------------
(***************************************************************************)
(* The JSON patches with which a launch turns the statefulset that         *)
(* Amalthea makes of a JupyterServer into the pod of a session             *)
(* (UserServer._get_patches in api/classes/server.py and                   *)
(* api/amalthea_patches/).  Most patches append to a list or name a        *)
(* container by its index, so that their order decides where they land.    *)
(*                                                                         *)
(* A server is a record: registered, private (the image), secrets (user    *)
(* secrets are mounted), env (the user's variables, in their order),       *)
(* repositories, each with its host and provider, providers, storages and  *)
(* options.  A container is its name, the volumes it mounts and its        *)
(* variables, where it has such lists; what else the patches say of it is  *)
(* left out.                                                               *)
(***************************************************************************)
EXTENDS Integers, Sequences, SequencesExt, FiniteSets

CONSTANTS
    SshEnabled,   \* config.sessions.ssh.enabled
    HostKey,      \* config.sessions.ssh.host_key_secret is set
    NoPriority,   \* no priority class
    MountVariable \* GIT_CLONE_STORAGE_MOUNTS_0 and so on

ASSUME SshAssumption == SshEnabled \in BOOLEAN /\ HostKey \in BOOLEAN

\* A name for each storage, and none of those that git_clone uses.
ASSUME MountVariablesAssumption ==
    \A i \in DOMAIN MountVariable :
        /\ MountVariable[i] \notin {"IS_GIT_PROXY_ENABLED", "GIT_PROVIDERS",
                                   "REPOSITORIES"}
        /\ \A j \in DOMAIN MountVariable : MountVariable[i] = MountVariable[j] => i = j

Container(name, mounts, env) == [name |-> name, mounts |-> mounts, env |-> env]

-----------------------------------------------------------------------------
(***************************************************************************)
(* The patches.  Indices count from 0, as in the paths.  "meant" is the    *)
(* container that the code means by an index.                              *)
(***************************************************************************)

Test(i, name) == <<[op |-> "test", i |-> i, value |-> name]>>

\* A field of the pod or an object of its own, which no other patch needs.
Set(path) == <<[op |-> "set", path |-> path]>>

AddTo(list, value) == <<[op |-> "append", list |-> list, value |-> value]>>

Extend(list, i, field, value, meant) ==
    [op |-> "extend", list |-> list, i |-> i, field |-> field,
     value |-> value, meant |-> meant]

AddIn(list, i, field, value, meant) == <<Extend(list, i, field, value, meant)>>

AddEnv(i, value, meant) == AddIn("containers", i, "env", value, meant)

Mount(i, volume, meant) == AddIn("containers", i, "mounts", volume, meant)

Auth(s) == IF s.registered THEN "oauth2-proxy" ELSE "passthrough-proxy"

EtcCerts == "etc-ssl-certs"

TestPatches(s) ==
    Test(0, "jupyter-server")
        \o IF s.registered THEN Test(1, "oauth2-proxy") ELSE <<>>

\* The affinity of the resource class takes the place of the node selector.
SchedulingPatches(s) ==
    Set("tolerations") \o Set("affinity")
        \o (IF s.options.affinities = {} THEN Set("nodeSelector") ELSE <<>>)
        \o (IF s.options.priority = NoPriority
                THEN <<>> ELSE Set("priorityClassName"))

DevShm(s) == AddTo("volumes", "shm") \o Mount(0, "shm", "jupyter-server")

\* The variables that env sets before those of the user.
BuiltIn == <<<<"RENKU_USERNAME", "user">>, <<"MOUNT_PATH", "work_dir">>>>

Overrides(s) ==
    \E j \in DOMAIN s.env, k \in DOMAIN BuiltIn :
        s.env[j][1] = BuiltIn[k][1] /\ s.env[j][2] # BuiltIn[k][2]

EnvPatches(s) ==
    LET env == BuiltIn \o s.env
    IN  [k \in DOMAIN env |-> Extend("containers", 0, "env", env[k], "jupyter-server")]

PullSecret(s) ==
    IF s.private THEN Set("image_pull_secret") \o Set("imagePullSecrets")
                 ELSE <<>>

Renviron(s) ==
    IF s.env = <<>>
        THEN <<>>
        ELSE Set("renviron") \o AddTo("volumes", "renviron")
                 \o Mount(0, "renviron", "jupyter-server")

UserSecrets(s) ==
    IF ~ s.secrets
        THEN <<>>
        ELSE AddTo("initContainers",
                   Container("init-user-secrets",
                             {"k8s-secret-volume", "user-secrets-volume"},
                             {<<"RENKU_ACCESS_TOKEN", "token">>}))
                 \o AddTo("volumes", "user-secrets-volume")
                 \o AddTo("volumes", "k8s-secret-volume")
                 \o Mount(0, "user-secrets-volume", "jupyter-server")

ProvidersOf(s) == {s.providers[k].id : k \in DOMAIN s.providers}

ProxyForRepositories(s) == s.repositories # <<>>

\* main of git_proxy and of git_sidecar.
NeedsGit(s) == s.registered /\ s.repositories # <<>>

\* The proxy is given all the providers of the user.
GitProxy(s) ==
    IF ~ NeedsGit(s)
        THEN <<>>
        ELSE AddTo("containers",
                   Container("git-proxy", {EtcCerts},
                             {<<"PROVIDERS", ProvidersOf(s)>>,
                              <<"REPOSITORIES", s.repositories>>}))

GitSidecar(s) ==
    IF ~ NeedsGit(s)
        THEN <<>>
        ELSE AddTo("containers",
                   Container("git-sidecar", {"workspace"},
                             {<<"RENKU_USERNAME", "user">>}))
                 \o AddIn("containers", 1, "args", "--upstream", Auth(s))
                 \o Set("serviceRpcServer")

OidcUnverifiedEmail(s) ==
    IF s.registered
        THEN AddEnv(1, <<"ALLOW_UNVERIFIED_EMAIL", "config">>, Auth(s))
        ELSE <<>>

Ssh ==
    IF ~ SshEnabled
        THEN <<>>
        ELSE Set("service/ports") \o Set("containers/0/ports")
                 \o IF HostKey
                        THEN Mount(0, "ssh-host-keys", "jupyter-server")
                                 \o AddTo("volumes", "ssh-host-keys")
                        ELSE <<>>

Certificates ==
    AddTo("initContainers",
          [name |-> "init-certificates", mounts |-> {EtcCerts, "custom-ca-certs"}])
        \o AddTo("volumes", EtcCerts)
        \o AddTo("volumes", "custom-ca-certs")

DownloadImage(s) ==
    AddTo("initContainers", [name |-> "download-image"])

\* required_git_providers: those of the repositories.
RequiredProviders(s) ==
    {p \in ProvidersOf(s) :
        \E k \in DOMAIN s.repositories : s.repositories[k].provider = p}

GitClone(s) ==
    IF s.repositories = <<>>
        THEN <<>>
        ELSE AddTo("initContainers",
                   Container("git-clone", {"workspace", EtcCerts},
                             {<<"IS_GIT_PROXY_ENABLED", s.registered>>,
                              <<"GIT_PROVIDERS", RequiredProviders(s)>>,
                              <<"REPOSITORIES", s.repositories>>}))

InjectCertificates(s) ==
    Mount(1, EtcCerts, Auth(s))
        \o IF s.registered
               THEN AddEnv(1, <<"OAUTH2_PROXY_PROVIDER_CA_FILES", EtcCerts>>,
                           Auth(s))
               ELSE <<>>

\* get_manifest_patch of a storage, and the variable by which git-clone
\* knows of its mount point, in the container that has the index 2 if
\* certificates and download_image are all that comes before.
CloudStoragePatch(s, i) ==
    Set("pv") \o Set("secret")
        \o Mount(0, ToString(i), "jupyter-server")
        \o AddTo("volumes", ToString(i))
        \o IF s.repositories = <<>>
               THEN <<>>
               ELSE AddIn("initContainers", 2, "env",
                          <<MountVariable[i], s.storages[i]>>,
                          "git-clone")

CloudStorage(s) ==
    LET upTo[i \in 0 .. Len(s.storages)] ==
            IF i = 0 THEN <<>> ELSE upTo[i - 1] \o CloudStoragePatch(s, i)
    IN  upTo[Len(s.storages)]

\* _get_patches, with the certificates after the containers that need them.
PatchesCertificatesLast(s) ==
    TestPatches(s) \o SchedulingPatches(s) \o DevShm(s) \o EnvPatches(s)
        \o PullSecret(s) \o Renviron(s) \o UserSecrets(s) \o GitProxy(s)
        \o GitSidecar(s) \o OidcUnverifiedEmail(s) \o Ssh
        \o DownloadImage(s) \o GitClone(s) \o Certificates
        \o InjectCertificates(s) \o CloudStorage(s)

Patches(s) ==
    TestPatches(s) \o SchedulingPatches(s) \o DevShm(s) \o EnvPatches(s)
        \o PullSecret(s) \o Renviron(s) \o UserSecrets(s) \o GitProxy(s)
        \o GitSidecar(s) \o OidcUnverifiedEmail(s) \o Ssh
        \o Certificates \o DownloadImage(s) \o GitClone(s)
        \o InjectCertificates(s) \o CloudStorage(s)

\* _check_environment_variables_overrides: one path and name, two values.
EnvClash(patches) ==
    LET env == {k \in DOMAIN patches : /\ patches[k].op = "extend"
                                      /\ patches[k].field = "env"}
    IN  \E j, k \in env :
            /\ patches[j].list = patches[k].list
            /\ patches[j].i = patches[k].i
            /\ patches[j].value[1] = patches[k].value[1]
            /\ patches[j].value[2] # patches[k].value[2]

-----------------------------------------------------------------------------
(***************************************************************************)
(* Amalthea applies the patches in their order and gives up when one of    *)
(* them cannot be applied.                                                 *)
(***************************************************************************)

\* The statefulset before the patches.
Base(s) ==
    [initContainers |-> <<>>,
     containers |-> <<Container("jupyter-server", {"workspace"}, {}),
                      Container(Auth(s), {}, {})>>,
     volumes |-> {"workspace"}]

\* No pod: a patch could not be applied.
Failed == [initContainers |-> <<>>, containers |-> <<>>, volumes |-> {}]

Fits(pod, p) ==
    CASE p.op = "test" -> pod.containers[p.i + 1].name = p.value
      [] p.op = "extend" /\ p.field # "args" ->
            /\ p.i + 1 \in DOMAIN pod[p.list]
            /\ p.field \in DOMAIN pod[p.list][p.i + 1]
      [] OTHER -> TRUE

Extended(c, p) == [c EXCEPT ![p.field] = @ \cup {p.value}]

Patched(pod, p) ==
    CASE p.op = "append" /\ p.list = "volumes" ->
            [pod EXCEPT !.volumes = @ \cup {p.value}]
      [] p.op = "append" /\ p.list # "volumes" ->
            [pod EXCEPT ![p.list] = Append(@, p.value)]
      [] p.op = "extend" /\ p.field # "args" ->
            [pod EXCEPT ![p.list][p.i + 1] = Extended(@, p)]
      [] OTHER -> pod

Apply(pod, p) == IF pod # Failed /\ Fits(pod, p) THEN Patched(pod, p) ELSE Failed

Applied(base, patches) ==
    LET pod[k \in 0 .. Len(patches)] ==
            IF k = 0 THEN base ELSE Apply(pod[k - 1], patches[k])
    IN  pod[Len(patches)]

=============================================================================
