------------------------------ MODULE Install ------------------------------
(***************************************************************************)
(* What `a8 local-install` does to the directories of a host               *)
(* (devops/install.go), with the nix store and its garbage collector.      *)
(*                                                                         *)
(* An installation is built in .build/<name>-<second> beside the install   *)
(* directory; then the install directory is renamed into .backups, and     *)
(* the new one takes its place.  nix-build links its result from the new   *)
(* directory, and so keeps it from the collector as long as the directory  *)
(* stays where it was built; after that only the link in the gcroots of    *)
(* the user does, on a host that has such a directory.                     *)
(*                                                                         *)
(* There is one host to an application.  A build is known by its version,  *)
(* and a directory by the second it was made in.                           *)
(***************************************************************************)
EXTENDS Naturals, FiniteSets

CONSTANTS
    App, Version,
    NoVersion,
    NoDir,
    Job,            \* runs of local-install
    NoApp,
    Gcrooted,       \* applications on hosts with gcroots for the user
    Known,          \* applications installed from the start,
    First,          \* at this version
    MaxTime,        \* bound: seconds
    MaxFaults       \* bound: calls that fail, processes killed, answers lost

ASSUME InstallAssumption ==
    /\ NoVersion \notin Version /\ NoApp \notin App /\ First \in Version
    /\ Gcrooted \subseteq App /\ Known \subseteq App
    /\ MaxTime \in Nat \ {0} /\ MaxFaults \in Nat

VARIABLES
    now,          \* the time in seconds
    staged,       \* the version that each staging directory of the host asks for
    temp,         \* .build: what is being built
    installed,    \* the install directory
    backups,      \* .backups
    gcLink,       \* applications whose install directory is linked from the gcroots
    store,        \* builds in the nix store
    repoProps,    \* ~/.a8/repo.properties
    job,          \* the runs of local-install
    (* history *)
    installs,     \* the directories that became the install directory
    hurt,         \* runs that suffered a fault or met another of their application
    faults

host == <<staged, temp, installed, backups, gcLink, store, repoProps>>
installVars == <<now, host, job, installs, hurt, faults>>

Second == 0..MaxTime
VersionOrNone == Version \cup {NoVersion}

\* A directory with the files of a build description, the link that nix-build makes,
\* and the specification that is copied into it.
Dir == [made : Second, files : VersionOrNone, build : VersionOrNone, spec : VersionOrNone]

ASSUME DirAssumption == NoDir \notin Dir

NewDir(s) == [made |-> s, files |-> NoVersion, build |-> NoVersion, spec |-> NoVersion]
Whole(v, s) == [made |-> s, files |-> v, build |-> v, spec |-> v]

Steps == {"off", "start", "props", "create", "fetch", "build", "root", "setup", "backup",
          "rename", "done", "failed"}
Ended == {"off", "done", "failed"}

InstallInit ==
    /\ now = 1
    /\ staged = [a \in App |-> [s \in Second |-> NoVersion]]
    /\ temp = [a \in App |-> [s \in Second |-> NoDir]]
    /\ installed = [a \in App |-> IF a \in Known THEN Whole(First, 0) ELSE NoDir]
    /\ backups = [a \in App |-> [s \in Second |-> NoDir]]
    /\ gcLink = Gcrooted \cap Known
    /\ store = [a \in App |-> IF a \in Known THEN {First} ELSE {}]
    /\ repoProps = [a \in App |-> IF a \in Known THEN "good" ELSE "none"]
    /\ job = [j \in Job |-> [at |-> "off", app |-> NoApp, staging |-> 0, made |-> 0,
                             version |-> NoVersion]]
    /\ installs = [a \in App |-> IF a \in Known THEN {0} ELSE {}]
    /\ hurt = {} /\ faults = 0

Fault == faults < MaxFaults /\ faults' = faults + 1

Active(a) == {j \in Job : job[j].app = a /\ job[j].at \notin Ended}

\* The run's application, and the directory it builds.
AppOf(j) == job[j].app
Temp(j) == temp[AppOf(j)][job[j].made]
HasTemp(j) == Temp(j) # NoDir

\* What is required of a descriptor, of the properties, and of a directory to be set up:
\* the names of its links must be free.
Valid(v) == v # NoVersion
HasUrl(a) == repoProps[a] = "good"
LinksFree(j) == Temp(j).spec = NoVersion
Copied(j) == staged[AppOf(j)][job[j].staging]

Go(j, next) == job' = [job EXCEPT ![j].at = next]
Goes(j, here, next) == job[j].at = here /\ Go(j, next)
SetTemp(j, d) == temp' = [temp EXCEPT ![AppOf(j)][job[j].made] = d]
-----------------------------------------------------------------------------
\* Install, started by ssh with a staging directory.  Runs of one application at the same
\* time hurt each other.
Install(j, a, s) ==
    /\ job[j].at = "off"
    /\ job' = [job EXCEPT ![j] = [at |-> "start", app |-> a, staging |-> s, made |-> 0,
                                  version |-> NoVersion]]
    /\ hurt' = IF Active(a) = {} THEN hurt ELSE hurt \cup Active(a) \cup {j}
    /\ UNCHANGED <<now, host, installs, faults>>

\* Wrong variant of ResolveDirectories: the directory has no second in its name.
ResolveDirectoriesNoTime(j) ==
    LET a == AppOf(j)  v == staged[a][job[j].staging]
    IN  /\ job[j].at = "start"
        /\ Valid(v)
        /\ job' = [job EXCEPT ![j].at = "props", ![j].version = v]
        /\ temp' = [temp EXCEPT ![a][0] = IF @ = NoDir THEN NewDir(now) ELSE @]
        /\ hurt' = IF {temp[a][now], backups[a][now]} = {NoDir} THEN hurt ELSE hurt \cup {j}
        /\ UNCHANGED <<now, staged, installed, backups, gcLink, store, repoProps, installs, faults>>

\* The descriptor is read and valid, and the directory to build in exists afterwards.  A run
\* that comes in the second of another is hurt by it.
ResolveDirectories(j) ==
    LET a == AppOf(j)  v == staged[a][job[j].staging]
    IN  /\ job[j].at = "start"
        /\ Valid(v)
        /\ job' = [job EXCEPT ![j].at = "props", ![j].made = now, ![j].version = v]
        /\ temp' = [temp EXCEPT ![a][now] = IF @ = NoDir THEN NewDir(now) ELSE @]
        /\ hurt' = IF {temp[a][now], backups[a][now]} = {NoDir} THEN hurt ELSE hurt \cup {j}
        /\ UNCHANGED <<now, staged, installed, backups, gcLink, store, repoProps, installs, faults>>

\* readRepoDotProps: a file that is not there is created, and then filled.
CreateRepoDotProps(j) ==
    /\ Goes(j, "props", "create") /\ repoProps[AppOf(j)] = "none"
    /\ repoProps' = [repoProps EXCEPT ![AppOf(j)] = "empty"]
    /\ UNCHANGED <<now, staged, temp, installed, backups, gcLink, store, installs, hurt, faults>>

FillRepoDotProps(j) ==
    /\ Goes(j, "create", "fetch")
    /\ repoProps' = [repoProps EXCEPT ![AppOf(j)] = "good"]
    /\ UNCHANGED <<now, staged, temp, installed, backups, gcLink, store, installs, hurt, faults>>

ReadRepoDotProps(j) ==
    /\ job[j].at = "props" /\ repoProps[AppOf(j)] # "none"
    /\ Go(j, IF HasUrl(AppOf(j)) THEN "fetch" ELSE "failed")
    /\ UNCHANGED <<now, host, installs, hurt, faults>>

\* FetchBuildDescription, and the first part of runNixBuild: the files are written.
FetchBuildDescription(j) ==
    /\ Goes(j, "fetch", "build") /\ HasTemp(j)
    /\ SetTemp(j, [Temp(j) EXCEPT !.files = job[j].version])
    /\ UNCHANGED <<now, staged, installed, backups, gcLink, store, repoProps, installs, hurt, faults>>

\* nix-build makes the build that the files describe, and the link to it.
RunNixBuild(j) ==
    /\ Goes(j, "build", "root") /\ HasTemp(j)
    /\ SetTemp(j, [Temp(j) EXCEPT !.build = Temp(j).files])
    /\ store' = [store EXCEPT ![AppOf(j)] = @ \cup {Temp(j).files}]
    /\ UNCHANGED <<now, staged, installed, backups, gcLink, repoProps, installs, hurt, faults>>

\* Wrong variant of CreateNixGcroot: only an install directory that is there is linked.
CreateNixGcrootLate(j) ==
    LET a == AppOf(j)
    IN  /\ Goes(j, "root", IF a \in gcLink THEN "failed" ELSE "setup")
        /\ gcLink' = IF installed[a] = NoDir THEN gcLink ELSE gcLink \cup ({a} \cap Gcrooted)
        /\ UNCHANGED <<now, staged, temp, installed, backups, store, repoProps, installs, hurt, faults>>

\* FileExists follows the link: it leads to the directory of a build or to nothing, so that
\* an old link is never seen nor removed, and cannot be made again.
CreateNixGcroot(j) ==
    LET a == AppOf(j)
    IN  /\ Goes(j, "root", IF a \in gcLink THEN "failed" ELSE "setup")
        /\ gcLink' = gcLink \cup ({a} \cap Gcrooted)
        /\ UNCHANGED <<now, staged, temp, installed, backups, store, repoProps, installs, hurt, faults>>

\* The links into the build must not exist yet; then the staging directory is copied.
SetupInstallDir(j) ==
    /\ Goes(j, "setup", "backup")
    /\ HasTemp(j) /\ LinksFree(j)
    /\ SetTemp(j, [Temp(j) EXCEPT !.spec = Copied(j)])
    /\ UNCHANGED <<now, staged, installed, backups, gcLink, store, repoProps, installs, hurt, faults>>

\* Wrong variant of BackupInstallDir: a backup of the same second is replaced.
BackupInstallDirOver(j) ==
    LET a == AppOf(j)
    IN  /\ Goes(j, "backup", "rename")
        /\ backups' = [backups EXCEPT ![a][now] = IF installed[a] # NoDir THEN installed[a] ELSE @]
        /\ installed' = [installed EXCEPT ![a] = NoDir]
        /\ UNCHANGED <<now, staged, temp, gcLink, store, repoProps, installs, hurt, faults>>

\* Deploy names a backup directory; a backup of the same second is in the way.
BackupInstallDir(j) ==
    LET a == AppOf(j)
    IN  /\ Goes(j, "backup", "rename")
        /\ installed[a] # NoDir => backups[a][now] = NoDir
        /\ backups' = [backups EXCEPT ![a][now] = IF installed[a] # NoDir THEN installed[a] ELSE @]
        /\ installed' = [installed EXCEPT ![a] = NoDir]
        /\ UNCHANGED <<now, staged, temp, gcLink, store, repoProps, installs, hurt, faults>>

\* The last step of InstallJavaProcess; it fails over an install directory.
RenameTempInstallDir(j) ==
    LET a == AppOf(j)
    IN  /\ Goes(j, "rename", "done")
        /\ HasTemp(j) /\ installed[a] = NoDir
        /\ installed' = [installed EXCEPT ![a] = Temp(j)]
        /\ installs' = [installs EXCEPT ![a] = @ \cup {Temp(j).made}]
        /\ SetTemp(j, NoDir)
        /\ UNCHANGED <<now, staged, backups, gcLink, store, repoProps, hurt, faults>>

\* A step that finds the directories in another state than it needs returns its error.
CannotGoOn(j) ==
    /\ \/ job[j].at = "start" /\ ~Valid(Copied(j))
       \/ job[j].at \in {"fetch", "build", "setup", "rename"} /\ ~HasTemp(j)
       \/ job[j].at = "setup" /\ HasTemp(j) /\ ~LinksFree(j)
       \/ job[j].at = "backup" /\ installed[AppOf(j)] # NoDir /\ backups[AppOf(j)][now] # NoDir
       \/ job[j].at = "rename" /\ installed[AppOf(j)] # NoDir
    /\ Go(j, "failed")
    /\ UNCHANGED <<now, host, installs, hurt, faults>>

\* A call fails, or the process is killed.
CallFails(j) ==
    /\ job[j].at \notin Ended /\ Fault /\ Go(j, "failed")
    /\ hurt' = hurt \cup {j}
    /\ UNCHANGED <<now, host, installs>>

Step(j) ==
    \/ ResolveDirectories(j) \/ CreateRepoDotProps(j) \/ FillRepoDotProps(j) \/ ReadRepoDotProps(j)
    \/ FetchBuildDescription(j) \/ RunNixBuild(j) \/ CreateNixGcroot(j) \/ SetupInstallDir(j)
    \/ BackupInstallDir(j) \/ RenameTempInstallDir(j) \/ CannotGoOn(j)
-----------------------------------------------------------------------------
(* The host *)

Tick ==
    /\ now < MaxTime /\ now' = now + 1
    /\ UNCHANGED <<host, job, installs, hurt, faults>>

\* The builds that the collector must leave: nix-build roots its result where it was built.
Roots(a) ==
    {temp[a][s].build : s \in {t \in Second : temp[a][t] # NoDir}}
        \cup (IF a \in gcLink /\ installed[a] # NoDir THEN {installed[a].build} ELSE {})

CollectGarbage(a) ==
    /\ ~(store[a] \subseteq Roots(a))
    /\ store' = [store EXCEPT ![a] = @ \cap Roots(a)]
    /\ UNCHANGED <<now, staged, temp, installed, backups, gcLink, repoProps, job, installs, hurt, faults>>
=============================================================================
