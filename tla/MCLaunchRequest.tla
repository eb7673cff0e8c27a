-------------------------- MODULE MCLaunchRequest --------------------------
(***************************************************************************)
(* The instance of LaunchRequest that TLC checks: a pool of the deployment *)
(* with two classes and one for a group of users whose classes cross them  *)
(* in size, the registry of Renku and another one, one external provider   *)
(* of repositories, and mount points that alias, nest in or share a string *)
(* prefix with one another.                                                *)
(***************************************************************************)
EXTENDS LaunchRequest

CONSTANTS gitlabRegistry, docker, gitlab, github

Class(id, cpu, memory, gpu, storage, max) ==
    [id |-> id, cpu |-> cpu, memory |-> memory, gpu |-> gpu,
     default_storage |-> storage, max_storage |-> max,
     default |-> id = "small",
     affinities |-> IF gpu > 0 THEN {"gpu"} ELSE {}]

DeploymentPool ==
    [default |-> TRUE, quota |-> Nothing, idle |-> Nothing,
     hibernation |-> Nothing,
     classes |-> <<Class("large", 4, 8, 1, 4, 8), Class("small", 1, 2, 0, 1, 4)>>]

GroupPool ==
    [default |-> FALSE, quota |-> "group", idle |-> 60, hibernation |-> 600,
     classes |-> <<Class("wide", 2, 16, 2, 2, 2), Class("medium", 3, 7, 1, 3, 3)>>]

Pools == {<<DeploymentPool, GroupPool>>, <<GroupPool, DeploymentPool>>}

OldRequest(cpu, memory, gpu, storage) ==
    [cpu |-> cpu, memory |-> memory, gpu |-> gpu, storage |-> storage]

\* In bytes: at a size, half a gigabyte off it, and above all classes.
OldRequestsInBytes ==
    {OldRequest(cpu, memory, gpu, storage) :
        cpu \in {0, 2}, memory \in {0, 2 * Giga + Giga \div 2, 8 * Giga},
        gpu \in {0, 1}, storage \in {Giga, 3 * Giga + Giga \div 2}}

Target(stored, absolute, path) ==
    [stored |-> stored, absolute |-> absolute, path |-> path]

MountTargets ==
    {Target(TRUE, FALSE, <<"data">>),
     Target(FALSE, FALSE, <<"data2">>), Target(FALSE, FALSE, <<"data", "raw">>),
     Target(FALSE, FALSE, <<>>), Target(FALSE, TRUE, <<>>),
     Target(FALSE, TRUE, <<"work", "data">>)}

NamePrefixes == {<<"data", "data2">>}

Envs == {<<>>, <<<<"RENKU_USERNAME", "user">>>>, <<<<"RENKU_USERNAME", "someone">>>>}

MountVariables == <<"GIT_CLONE_STORAGE_MOUNTS_0", "GIT_CLONE_STORAGE_MOUNTS_1">>

=============================================================================
