---------------------------- MODULE DeployProofs ----------------------------
(***************************************************************************)
(* Theorems about Deploy and Install, for any number of applications,      *)
(* commands and arguments, and any times and faults.                       *)
(***************************************************************************)
EXTENDS Deploy, TLAPS
-----------------------------------------------------------------------------
(* The constants *)

LEMMA Jobs ==
    /\ \A c \in Command : \A i \in DOMAIN Args[c] :
           <<c, i>> \in Job /\ Args[c][i][1] \in App /\ Args[c][i][2] \in Version \cup {Current}
    /\ \A j \in Job : /\ j[1] \in Command /\ j[2] \in DOMAIN Args[j[1]] /\ j = <<j[1], j[2]>>
                      /\ Args[j[1]][j[2]][1] \in App
    /\ \A c \in Command : /\ DOMAIN Args[c] = 1..Len(Args[c]) /\ Len(Args[c]) \in Nat
                          /\ 1 \in DOMAIN Args[c]
<1>1. ASSUME NEW c \in Command
      PROVE  /\ DOMAIN Args[c] = 1..Len(Args[c]) /\ Len(Args[c]) \in Nat
             /\ 1 \in DOMAIN Args[c]
  BY DeployAssumption
<1>2. ASSUME NEW c \in Command, NEW i \in DOMAIN Args[c]
      PROVE  /\ <<c, i>> \in Job /\ Args[c][i][1] \in App
             /\ Args[c][i][2] \in Version \cup {Current}
  <2>1. Args[c][i] \in App \X (Version \cup {Current})
    BY DeployAssumption
  <2>2. <<c, i>> \in Job
    BY DeployAssumption
  <2> QED BY <2>1, <2>2
<1>3. ASSUME NEW j \in Job
      PROVE  j[1] \in Command /\ j[2] \in DOMAIN Args[j[1]] /\ j = <<j[1], j[2]>>
  <2>1. PICK c \in Command : j \in {c} \X DOMAIN Args[c]
    BY DeployAssumption
  <2> QED BY <2>1
<1> QED BY <1>1, <1>2, <1>3

LEMMA Names ==
    /\ NoVersion \notin Version /\ NoApp \notin App /\ First \in Version
    /\ Gcrooted \subseteq App /\ Known \subseteq App
    /\ MaxTime \in Nat \ {0} /\ MaxFaults \in Nat
    /\ Current \notin Version /\ Torn \notin Version /\ Torn # NoVersion
    /\ NoDir \notin Dir
    /\ 0 \in Second /\ 1 \in Second
BY InstallAssumption, DeployAssumption, DirAssumption DEF Second

LEMMA Dirs ==
    /\ \A s \in Second : NewDir(s) \in Dir
    /\ \A s \in Second, v \in VersionOrNone : Whole(v, s) \in Dir
    /\ \A d \in Dir : /\ d.made \in Second /\ d.files \in VersionOrNone
                       /\ d.build \in VersionOrNone /\ d.spec \in VersionOrNone
    /\ \A d \in Dir, v \in VersionOrNone :
           /\ [d EXCEPT !.files = v] \in Dir /\ [d EXCEPT !.build = v] \in Dir
           /\ [d EXCEPT !.spec = v] \in Dir
BY DEF Dir, NewDir, Whole, VersionOrNone
-----------------------------------------------------------------------------
(* Types *)

DirOrNone == Dir \cup {NoDir}
JobRecord == [at : Steps, app : App \cup {NoApp}, staging : Second, made : Second,
              version : VersionOrNone]
CmdSteps == {"load", "stage", "copy", "ssh", "install", "record", "write",
             "commit", "done", "failed", "hung"}
Deploys == {"copy", "ssh", "install", "record", "write"}
Loaded == Deploys \cup {"stage"}

HostType ==
    /\ now \in Second /\ faults \in 0..MaxFaults /\ hurt \subseteq Job
    /\ temp \in [App -> [Second -> DirOrNone]]
    /\ installed \in [App -> DirOrNone]
    /\ backups \in [App -> [Second -> DirOrNone]]
    /\ gcLink \subseteq Gcrooted
    /\ store \in [App -> SUBSET VersionOrNone] /\ installs \in [App -> SUBSET Second]
    /\ repoProps \in [App -> {"none", "empty", "good"}]

\* A run is one of the arguments of its command.
JobType ==
    /\ job \in [Job -> JobRecord]
    /\ \A j \in Job : job[j].at # "off" => job[j].app = Args[j[1]][j[2]][1]

TreeType ==
    /\ staged \in [App -> [Second -> VersionOrNone]]
    /\ local \in [App -> [Second -> VersionOrNone]]
    /\ broken \subseteq Unreadable /\ dirty \subseteq App /\ muddled \subseteq App
    /\ record \in [App -> Record]

\* What a command deploys has a version: a tree with a torn record was not loaded.
CmdType ==
    /\ loaded \in [Command -> [App -> Record]]
    /\ cmd \in [Command -> [at : CmdSteps, arg : Nat, failed : BOOLEAN, staging : Second,
                            version : VersionOrNone]]
    /\ \A c \in Command :
        /\ cmd[c].arg \in DOMAIN Args[c]
        /\ cmd[c].at \in Loaded => \A a \in Apps(c) : loaded[c][a] # Torn
        /\ cmd[c].at \in Deploys => cmd[c].version \in Version

Types == HostType /\ JobType /\ TreeType /\ CmdType

LEMMA TypesOK == Types => TypeOK
BY DEF Types, HostType, JobType, TreeType, CmdType, TypeOK, DirOrNone, JobRecord, CmdSteps

\* A run that has begun, and its application.
LEMMA AppType ==
    ASSUME JobType, NEW j \in Job
    PROVE  /\ job[j].at \in Steps /\ job[j].staging \in Second /\ job[j].made \in Second
           /\ job[j].version \in VersionOrNone
           /\ job[j].at # "off" => AppOf(j) \in App
BY Jobs DEF JobType, JobRecord, AppOf

LEMMA CmdFields ==
    ASSUME CmdType, NEW c \in Command
    PROVE  /\ cmd[c].at \in CmdSteps /\ cmd[c].arg \in Nat /\ cmd[c].failed \in BOOLEAN
           /\ cmd[c].staging \in Second /\ cmd[c].version \in VersionOrNone
           /\ cmd[c].arg \in DOMAIN Args[c]
           /\ JobOf(c) \in Job /\ Target(c) \in App /\ Target(c) \in Apps(c)
           /\ Goal(c)[2] \in Version \cup {Current}
           /\ Target(c) = Args[JobOf(c)[1]][JobOf(c)[2]][1]
<1>1. /\ cmd[c].at \in CmdSteps /\ cmd[c].arg \in Nat /\ cmd[c].failed \in BOOLEAN
      /\ cmd[c].staging \in Second /\ cmd[c].version \in VersionOrNone
      /\ cmd[c].arg \in DOMAIN Args[c]
  BY DEF CmdType
<1> QED BY <1>1, Jobs DEF JobOf, Target, Goal, Apps

\* A run goes on: only its step changes.
LEMMA GoOn ==
    ASSUME JobType, NEW j \in Job, job[j].at # "off", NEW n \in Steps, Go(j, n)
    PROVE  /\ JobType'
           /\ job'[j].at = n
           /\ \A k \in Job : /\ job'[k].app = job[k].app /\ job'[k].staging = job[k].staging
                             /\ job'[k].made = job[k].made /\ job'[k].version = job[k].version
                             /\ k # j => job'[k] = job[k]
<1>1. job' = [job EXCEPT ![j] = [job[j] EXCEPT !.at = n]] /\ job[j] \in JobRecord
  BY DEF Go, JobType
<1>2. [job[j] EXCEPT !.at = n] \in JobRecord
  BY <1>1 DEF JobRecord
<1>3. /\ job'[j].at = n
      /\ \A k \in Job : /\ job'[k].app = job[k].app /\ job'[k].staging = job[k].staging
                        /\ job'[k].made = job[k].made /\ job'[k].version = job[k].version
                        /\ k # j => job'[k] = job[k]
  BY <1>1 DEF JobType, JobRecord
<1>4. job' \in [Job -> JobRecord]
  BY <1>1, <1>2 DEF JobType
<1> QED BY <1>3, <1>4 DEF JobType

\* A directory that is being built becomes another.
LEMMA Built ==
    ASSUME HostType, JobType, NEW j \in Job, job[j].at # "off", NEW d \in DirOrNone, SetTemp(j, d)
    PROVE  /\ temp' \in [App -> [Second -> DirOrNone]]
           /\ temp'[AppOf(j)][job[j].made] = d
           /\ \A a \in App, s \in Second :
                  a # AppOf(j) \/ s # job[j].made => temp'[a][s] = temp[a][s]
<1>1. AppOf(j) \in App /\ job[j].made \in Second
  BY AppType
<1>2. temp' = [temp EXCEPT ![AppOf(j)] = [temp[AppOf(j)] EXCEPT ![job[j].made] = d]]
  BY DEF SetTemp
<1>3. temp[AppOf(j)] \in [Second -> DirOrNone]
  BY <1>1 DEF HostType
<1>4. [temp[AppOf(j)] EXCEPT ![job[j].made] = d] \in [Second -> DirOrNone]
  BY <1>3
<1> QED BY <1>1, <1>2, <1>3, <1>4 DEF HostType

\* Install starts a run.
LEMMA Started ==
    ASSUME JobType, NEW j \in Job, NEW a \in App, NEW s \in Second, Install(j, a, s),
           a = Args[j[1]][j[2]][1]
    PROVE  /\ JobType'
           /\ job[j].at = "off"
           /\ job'[j] = [at |-> "start", app |-> a, staging |-> s, made |-> 0,
                         version |-> NoVersion]
           /\ \A k \in Job : k # j => job'[k] = job[k]
<1> DEFINE r == [at |-> "start", app |-> a, staging |-> s, made |-> 0, version |-> NoVersion]
<1>1. r \in JobRecord /\ job' = [job EXCEPT ![j] = r] /\ job[j].at = "off"
  BY Names DEF Install, JobRecord, Steps, VersionOrNone
<1>2. r.app = a
  OBVIOUS
<1> HIDE DEF r
<1> QED BY <1>1, <1>2 DEF JobType, r

\* ResolveDirectories finds a directory, or makes one that is new.
LEMMA Resolved ==
    ASSUME Types, NEW j \in Job, ResolveDirectories(j)
    PROVE  LET a == AppOf(j)  v == Copied(j)
           IN  /\ job[j].at = "start" /\ Valid(v) /\ JobType'
               /\ job'[j].at = "props" /\ job'[j].version = v /\ job'[j].made = now
               /\ \A k \in Job : /\ job'[k].app = job[k].app /\ job'[k].staging = job[k].staging
                                 /\ k # j => job'[k] = job[k]
               /\ temp' \in [App -> [Second -> DirOrNone]]
               /\ temp'[a][now] = IF temp[a][now] = NoDir THEN NewDir(now) ELSE temp[a][now]
               /\ \A b \in App, s \in Second : b # a \/ s # now => temp'[b][s] = temp[b][s]
               /\ hurt' = IF {temp[a][now], backups[a][now]} = {NoDir} THEN hurt
                          ELSE hurt \cup {j}
<1> DEFINE a == AppOf(j)
           v == Copied(j)
           d == IF temp[a][now] = NoDir THEN NewDir(now) ELSE temp[a][now]
<1>1. /\ job[j].at = "start" /\ Valid(v)
      /\ job' = [job EXCEPT ![j].at = "props", ![j].made = now, ![j].version = v]
      /\ temp' = [temp EXCEPT ![a][now] = d]
      /\ hurt' = IF {temp[a][now], backups[a][now]} = {NoDir} THEN hurt ELSE hurt \cup {j}
  BY DEF ResolveDirectories, Copied
<1>2. /\ a \in App /\ now \in Second /\ v \in VersionOrNone /\ job[j] \in JobRecord
      /\ temp[a] \in [Second -> DirOrNone] /\ d \in DirOrNone
  <2>1. a \in App /\ now \in Second /\ job[j] \in JobRecord /\ job[j].staging \in Second
    BY <1>1, AppType DEF Types, HostType, JobType
  <2>2. v \in VersionOrNone
    BY <2>1 DEF Types, TreeType, Copied
  <2>3. temp[a] \in [Second -> DirOrNone]
    BY <2>1 DEF Types, HostType
  <2>4. d \in DirOrNone
    BY <2>1, <2>3, Dirs DEF DirOrNone
  <2> QED BY <2>1, <2>2, <2>3, <2>4
<1> HIDE DEF d, a, v
<1>3. LET r == [job[j] EXCEPT !.at = "props", !.made = now, !.version = v]
      IN  r \in JobRecord /\ job' = [job EXCEPT ![j] = r]
  BY <1>1, <1>2 DEF JobRecord, Steps
<1>4. /\ job'[j].at = "props" /\ job'[j].version = v /\ job'[j].made = now
      /\ \A k \in Job : /\ job'[k].app = job[k].app /\ job'[k].staging = job[k].staging
                        /\ k # j => job'[k] = job[k]
  BY <1>2, <1>3 DEF JobRecord, Types, JobType
<1>5. job' \in [Job -> JobRecord]
  BY <1>3 DEF Types, JobType
<1>6. JobType'
  BY <1>1, <1>4, <1>5 DEF Types, JobType
<1>7. LET t == [temp[a] EXCEPT ![now] = d]
      IN  t \in [Second -> DirOrNone] /\ temp' = [temp EXCEPT ![a] = t]
  BY <1>1, <1>2
<1>8. /\ temp' \in [App -> [Second -> DirOrNone]]
      /\ temp'[a][now] = d
      /\ \A b \in App, s \in Second : b # a \/ s # now => temp'[b][s] = temp[b][s]
  BY <1>2, <1>7 DEF Types, HostType
<1> QED BY <1>1, <1>4, <1>6, <1>8 DEF d, a, v

\* BackupInstallDir moves the install directory to a place of the backups that is free.
LEMMA BackedUp ==
    ASSUME Types, NEW j \in Job, BackupInstallDir(j)
    PROVE  LET a == AppOf(j)
           IN  /\ backups' \in [App -> [Second -> DirOrNone]]
               /\ installed' \in [App -> DirOrNone]
               /\ installed[a] # NoDir => backups[a][now] = NoDir
               /\ backups'[a][now] = IF installed[a] # NoDir THEN installed[a]
                                     ELSE backups[a][now]
               /\ \A b \in App, s \in Second : b # a \/ s # now => backups'[b][s] = backups[b][s]
               /\ installed'[a] = NoDir
               /\ \A b \in App : b # a => installed'[b] = installed[b]
<1> DEFINE a == AppOf(j)
           d == IF installed[a] # NoDir THEN installed[a] ELSE backups[a][now]
<1>1. /\ a \in App /\ now \in Second /\ d \in DirOrNone /\ backups[a] \in [Second -> DirOrNone]
      /\ backups' = [backups EXCEPT ![a] = [backups[a] EXCEPT ![now] = d]]
      /\ installed' = [installed EXCEPT ![a] = NoDir]
      /\ installed[a] # NoDir => backups[a][now] = NoDir
  BY AppType DEF BackupInstallDir, Goes, Types, HostType
<1>2. [backups[a] EXCEPT ![now] = d] \in [Second -> DirOrNone] /\ NoDir \in DirOrNone
  BY <1>1 DEF DirOrNone
<1> HIDE DEF d, a
<1>3. /\ backups' \in [App -> [Second -> DirOrNone]]
      /\ installed' \in [App -> DirOrNone]
  BY <1>1, <1>2 DEF Types, HostType
<1>4. /\ backups'[a][now] = d /\ installed'[a] = NoDir
      /\ \A b \in App, s \in Second : b # a \/ s # now => backups'[b][s] = backups[b][s]
      /\ \A b \in App : b # a => installed'[b] = installed[b]
  BY <1>1, <1>2 DEF Types, HostType
<1> QED BY <1>1, <1>3, <1>4 DEF a, d

\* RenameTempInstallDir moves what was built to the install directory, which is not there.
LEMMA Renamed ==
    ASSUME Types, NEW j \in Job, RenameTempInstallDir(j)
    PROVE  LET a == AppOf(j)
           IN  /\ Temp(j) \in Dir /\ installed[a] = NoDir
               /\ installed' \in [App -> DirOrNone] /\ installed'[a] = Temp(j)
               /\ \A b \in App : b # a => installed'[b] = installed[b]
               /\ installs' \in [App -> SUBSET Second]
               /\ installs'[a] = installs[a] \cup {Temp(j).made}
               /\ \A b \in App : b # a => installs'[b] = installs[b]
               /\ SetTemp(j, NoDir)
<1> DEFINE a == AppOf(j)
           d == Temp(j)
<1>1. /\ a \in App /\ d # NoDir /\ installed[a] = NoDir /\ SetTemp(j, NoDir)
      /\ installed' = [installed EXCEPT ![a] = d]
      /\ installs' = [installs EXCEPT ![a] = @ \cup {d.made}]
  BY AppType DEF RenameTempInstallDir, HasTemp, Goes, Types
<1>2. temp \in [App -> [Second -> DirOrNone]] /\ job[j].made \in Second
  BY AppType DEF Types, HostType
<1>3. d \in Dir
  BY <1>1, <1>2 DEF Temp, DirOrNone
<1>4. d.made \in Second
  BY <1>3, Dirs DEF VersionOrNone
<1> HIDE DEF a, d
<1>5. d \in DirOrNone
  BY <1>3 DEF DirOrNone
<1>6. installed' \in [App -> DirOrNone] /\ installed'[a] = d
      /\ \A b \in App : b # a => installed'[b] = installed[b]
  BY <1>1, <1>5 DEF Types, HostType
<1>7. installs' \in [App -> SUBSET Second] /\ installs'[a] = installs[a] \cup {d.made}
      /\ \A b \in App : b # a => installs'[b] = installs[b]
  BY <1>1, <1>4 DEF Types, HostType
<1> QED BY <1>1, <1>3, <1>6, <1>7 DEF a, d

\* What a run builds, when it is there.
LEMMA TempType ==
    ASSUME Types, NEW j \in Job, job[j].at # "off"
    PROVE  /\ Temp(j) \in DirOrNone
           /\ HasTemp(j) => Temp(j) \in Dir
<1>1. AppOf(j) \in App /\ job[j].made \in Second
  BY AppType DEF Types
<1> QED BY <1>1 DEF Types, HostType, Temp, HasTemp, DirOrNone

\* A run touches neither the tree nor the commands.
LEMMA StepTypes ==
    ASSUME Types, NEW j \in Job, Step(j)
    PROVE  HostType' /\ JobType' /\ UNCHANGED staged
<1>1. CASE ResolveDirectories(j)
  <2>1. JobType' /\ temp' \in [App -> [Second -> DirOrNone]]
    BY <1>1, Resolved
  <2>2. hurt' \subseteq Job
    BY <1>1 DEF ResolveDirectories, Types, HostType
  <2> QED BY <1>1, <2>1, <2>2 DEF ResolveDirectories, Types, HostType
<1>2. CASE CreateRepoDotProps(j)
  <2>1. JobType'
    BY <1>2, GoOn DEF CreateRepoDotProps, Goes, Types, Steps
  <2> QED BY <1>2, <2>1 DEF CreateRepoDotProps, Types, HostType
<1>3. CASE FillRepoDotProps(j)
  <2>1. JobType'
    BY <1>3, GoOn DEF FillRepoDotProps, Goes, Types, Steps
  <2> QED BY <1>3, <2>1 DEF FillRepoDotProps, Types, HostType
<1>4. CASE ReadRepoDotProps(j)
  <2>1. JobType'
    BY <1>4, GoOn DEF ReadRepoDotProps, Types, Steps
  <2> QED BY <1>4, <2>1 DEF ReadRepoDotProps, Types, HostType, host
<1>5. CASE FetchBuildDescription(j)
  <2>1. JobType' /\ job[j].at # "off"
    BY <1>5, GoOn DEF FetchBuildDescription, Goes, Types, Steps
  <2>2. [Temp(j) EXCEPT !.files = job[j].version] \in DirOrNone
    BY <1>5, <2>1, TempType, AppType, Dirs DEF FetchBuildDescription, Types, DirOrNone
  <2>3. temp' \in [App -> [Second -> DirOrNone]]
    BY <1>5, <2>1, <2>2, Built DEF FetchBuildDescription, Types
  <2> QED BY <1>5, <2>1, <2>3 DEF FetchBuildDescription, Types, HostType
<1>6. CASE RunNixBuild(j)
  <2>1. JobType' /\ job[j].at # "off" /\ AppOf(j) \in App
    BY <1>6, GoOn, AppType DEF RunNixBuild, Goes, Types, Steps
  <2>2. Temp(j) \in Dir
    BY <1>6, <2>1, TempType DEF RunNixBuild
  <2>3. Temp(j).files \in VersionOrNone
    BY <2>2, Dirs
  <2>4. [Temp(j) EXCEPT !.build = Temp(j).files] \in DirOrNone
    BY <2>2, <2>3, Dirs DEF DirOrNone
  <2>5. temp' \in [App -> [Second -> DirOrNone]]
    BY <1>6, <2>1, <2>4, Built DEF RunNixBuild, Types
  <2>6. store' \in [App -> SUBSET VersionOrNone]
    BY <1>6, <2>3 DEF RunNixBuild, Types, HostType
  <2> QED BY <1>6, <2>1, <2>5, <2>6 DEF RunNixBuild, Types, HostType
<1>7. CASE CreateNixGcroot(j)
  <2>1. JobType'
    BY <1>7, GoOn DEF CreateNixGcroot, Goes, Types, Steps
  <2>2. gcLink' \subseteq Gcrooted
    BY <1>7 DEF CreateNixGcroot, Types, HostType
  <2> QED BY <1>7, <2>1, <2>2 DEF CreateNixGcroot, Types, HostType
<1>8. CASE SetupInstallDir(j)
  <2>1. JobType' /\ job[j].at # "off" /\ AppOf(j) \in App
    BY <1>8, GoOn, AppType DEF SetupInstallDir, Goes, Types, Steps
  <2>2. Copied(j) \in VersionOrNone
    BY <2>1, AppType DEF Copied, Types, TreeType
  <2>3. [Temp(j) EXCEPT !.spec = Copied(j)] \in DirOrNone
    BY <1>8, <2>1, <2>2, TempType, Dirs DEF SetupInstallDir, Types, DirOrNone
  <2>4. temp' \in [App -> [Second -> DirOrNone]]
    BY <1>8, <2>1, <2>3, Built DEF SetupInstallDir, Types
  <2> QED BY <1>8, <2>1, <2>4 DEF SetupInstallDir, Types, HostType
<1>9. CASE BackupInstallDir(j)
  <2>1. JobType'
    BY <1>9, GoOn DEF BackupInstallDir, Goes, Types, Steps
  <2>2. /\ backups' \in [App -> [Second -> DirOrNone]]
        /\ installed' \in [App -> DirOrNone]
    BY <1>9, BackedUp
  <2> QED BY <1>9, <2>1, <2>2 DEF BackupInstallDir, Types, HostType
<1>10. CASE RenameTempInstallDir(j)
  <2>1. JobType' /\ job[j].at # "off"
    BY <1>10, GoOn DEF RenameTempInstallDir, Goes, Types, Steps
  <2>2. installed' \in [App -> DirOrNone] /\ installs' \in [App -> SUBSET Second]
        /\ SetTemp(j, NoDir)
    BY <1>10, Renamed
  <2>3. temp' \in [App -> [Second -> DirOrNone]]
    BY <2>1, <2>2, Built DEF Types, DirOrNone
  <2> QED BY <1>10, <2>1, <2>2, <2>3 DEF RenameTempInstallDir, Types, HostType
<1>11. CASE CannotGoOn(j)
  <2>1. JobType'
    BY <1>11, GoOn DEF CannotGoOn, Types, Steps
  <2> QED BY <1>11, <2>1 DEF CannotGoOn, Types, HostType, host
<1> QED BY <1>1, <1>2, <1>3, <1>4, <1>5, <1>6, <1>7, <1>8, <1>9, <1>10, <1>11 DEF Step

LEMMA TypesInit == Init => Types
<1> SUFFICES ASSUME Init PROVE Types
  OBVIOUS
<1> USE Names
<1>1. HostType
  <2>1. /\ now \in Second /\ faults \in 0..MaxFaults /\ hurt \subseteq Job
        /\ temp \in [App -> [Second -> DirOrNone]]
        /\ backups \in [App -> [Second -> DirOrNone]]
        /\ gcLink \subseteq Gcrooted
        /\ installs \in [App -> SUBSET Second]
        /\ repoProps \in [App -> {"none", "empty", "good"}]
    BY DEF Init, InstallInit, DirOrNone
  <2>2. store \in [App -> SUBSET VersionOrNone]
    BY DEF Init, InstallInit, VersionOrNone
  <2>3. installed \in [App -> DirOrNone]
    <3>1. Whole(First, 0) \in DirOrNone
      BY Dirs DEF DirOrNone, VersionOrNone
    <3> QED BY <3>1 DEF Init, InstallInit, DirOrNone
  <2> QED BY <2>1, <2>2, <2>3 DEF HostType
<1>2. JobType
  BY DEF Init, InstallInit, JobType, JobRecord, Steps, VersionOrNone
<1>3. TreeType
  BY DEF Init, InstallInit, TreeType, VersionOrNone, Record
<1>4. CmdType
  <2>1. /\ loaded \in [Command -> [App -> Record]]
        /\ cmd \in [Command -> [at : CmdSteps, arg : Nat, failed : BOOLEAN, staging : Second,
                                version : VersionOrNone]]
    BY DEF Init, CmdSteps, VersionOrNone, Record
  <2>2. \A c \in Command : cmd[c].arg \in DOMAIN Args[c] /\ cmd[c].at = "load"
    BY Jobs DEF Init
  <2> QED BY <2>1, <2>2 DEF CmdType, Loaded, Deploys
<1> QED BY <1>1, <1>2, <1>3, <1>4 DEF Types

\* A command takes another step with the same argument.
LEMMA CmdOn ==
    ASSUME CmdType, NEW c \in Command, NEW n \in CmdSteps, CmdGoes(c, n)
    PROVE  /\ cmd' \in [Command -> [at : CmdSteps, arg : Nat, failed : BOOLEAN, staging : Second,
                                    version : VersionOrNone]]
           /\ cmd'[c].at = n
           /\ \A d \in Command : /\ cmd'[d].arg = cmd[d].arg /\ cmd'[d].failed = cmd[d].failed
                                 /\ cmd'[d].staging = cmd[d].staging
                                 /\ cmd'[d].version = cmd[d].version
                                 /\ d # c => cmd'[d] = cmd[d]
<1>1. [cmd[c] EXCEPT !.at = n] \in [at : CmdSteps, arg : Nat, failed : BOOLEAN,
                                    staging : Second, version : VersionOrNone]
      /\ cmd' = [cmd EXCEPT ![c] = [cmd[c] EXCEPT !.at = n]]
  BY DEF CmdGoes, CmdType
<1> QED BY <1>1 DEF CmdType

\* The next argument of a command, or its end.
LEMMA CmdNext ==
    ASSUME CmdType, NEW c \in Command, NEW f \in BOOLEAN, NextArg(c, f), cmd[c].at \in Loaded
    PROVE  /\ cmd' \in [Command -> [at : CmdSteps, arg : Nat, failed : BOOLEAN, staging : Second,
                                    version : VersionOrNone]]
           /\ cmd'[c].at \in {"stage", "commit", "failed"}
           /\ cmd'[c].arg \in DOMAIN Args[c]
           /\ \A d \in Command : d # c => cmd'[d] = cmd[d]
           /\ cmd'[c].arg = cmd[c].arg => cmd'[c].at # "stage"
<1>1. /\ cmd[c] \in [at : CmdSteps, arg : Nat, failed : BOOLEAN, staging : Second,
                     version : VersionOrNone]
      /\ cmd[c].arg \in DOMAIN Args[c]
  BY DEF CmdType
<1> DEFINE g == f \/ cmd[c].failed
<1>2. /\ cmd' = [cmd EXCEPT ![c] =
                IF cmd[c].arg < Len(Args[c])
                THEN [cmd[c] EXCEPT !.at = "stage", !.arg = cmd[c].arg + 1, !.failed = g]
                ELSE [cmd[c] EXCEPT !.at = IF g THEN "failed" ELSE "commit", !.failed = g]]
  BY Zenon DEF NextArg
<1>3a. g \in BOOLEAN
  OBVIOUS
<1> HIDE DEF g
<1>3. CASE cmd[c].arg < Len(Args[c])
  <2> DEFINE r == [cmd[c] EXCEPT !.at = "stage", !.arg = cmd[c].arg + 1, !.failed = g]
  <2>1. /\ r \in [at : CmdSteps, arg : Nat, failed : BOOLEAN, staging : Second,
                  version : VersionOrNone]
        /\ r.at = "stage" /\ r.arg = cmd[c].arg + 1 /\ cmd[c].arg \in Nat
    <3>1. cmd[c].arg \in Nat /\ cmd[c].arg + 1 \in Nat /\ "stage" \in CmdSteps
      BY <1>1 DEF CmdSteps
    <3> QED BY <1>1, <1>3a, <3>1
  <2>2. cmd' = [cmd EXCEPT ![c] = r]
    BY <1>2, <1>3
  <2> HIDE DEF r
  <2>3. r.arg \in DOMAIN Args[c] /\ r.arg # cmd[c].arg
    BY <1>1, <1>3, <2>1, Jobs
  <2> QED BY <2>1, <2>2, <2>3 DEF CmdType
<1>4. CASE ~(cmd[c].arg < Len(Args[c]))
  <2> DEFINE r == [cmd[c] EXCEPT !.at = IF g THEN "failed" ELSE "commit", !.failed = g]
  <2>1. /\ r \in [at : CmdSteps, arg : Nat, failed : BOOLEAN, staging : Second,
                  version : VersionOrNone]
        /\ r.at \in {"failed", "commit"} /\ r.arg = cmd[c].arg
    BY <1>1, <1>3a DEF CmdSteps
  <2>2. cmd' = [cmd EXCEPT ![c] = r]
    BY <1>2, <1>4
  <2> HIDE DEF r
  <2> QED BY <1>1, <2>1, <2>2 DEF CmdType
<1> QED BY <1>3, <1>4

\* What is known of the commands when one of them goes on.
LEMMA CmdTypeOn ==
    ASSUME CmdType, NEW c \in Command, UNCHANGED loaded,
           \/ \E f \in BOOLEAN : NextArg(c, f) /\ cmd[c].at \in Loaded
           \/ \E n \in CmdSteps : /\ CmdGoes(c, n)
                                  /\ n \in Deploys => cmd[c].at \in Deploys
                                  /\ n # "stage"
    PROVE  CmdType'
<1>1. CASE \E f \in BOOLEAN : NextArg(c, f) /\ cmd[c].at \in Loaded
  <2>1. PICK f \in BOOLEAN : NextArg(c, f) /\ cmd[c].at \in Loaded
    BY <1>1
  <2> QED BY <2>1, CmdNext DEF CmdType, Loaded, Deploys
<1>2. CASE \E n \in CmdSteps : /\ CmdGoes(c, n)
                               /\ n \in Deploys => cmd[c].at \in Deploys
                               /\ n # "stage"
  <2>1. PICK n \in CmdSteps : /\ CmdGoes(c, n)
                              /\ n \in Deploys => cmd[c].at \in Deploys
                              /\ n # "stage"
    BY <1>2
  <2> QED BY <2>1, CmdOn DEF CmdType, Loaded, Deploys
<1> QED BY <1>1, <1>2

\* A staging directory has the version of the label.
LEMMA Staged ==
    ASSUME Types, NEW c \in Command, StageApp(c)
    PROVE  /\ CmdType' /\ TreeType'
           /\ Settled(c) = NoVersion => NextArg(c, TRUE) /\ UNCHANGED <<local, muddled>>
           /\ Settled(c) # NoVersion =>
                /\ Settled(c) \in Version
                /\ cmd'[c].at = "copy" /\ cmd'[c].staging = now /\ cmd'[c].version = Settled(c)
                /\ cmd'[c].arg = cmd[c].arg
                /\ \A d \in Command : d # c => cmd'[d] = cmd[d]
                /\ local'[Target(c)][now] = Settled(c)
                /\ \A a \in App, s \in Second :
                       a # Target(c) \/ s # now => local'[a][s] = local[a][s]
                /\ IF Deploying(Target(c)) \cup Active(Target(c)) = {} THEN UNCHANGED muddled
                   ELSE Muddle(Target(c))
<1> DEFINE a == Target(c)
           v == Settled(c)
           r == [cmd[c] EXCEPT !.at = "copy", !.staging = now, !.version = v]
<1>1. /\ cmd[c].at = "stage" /\ UNCHANGED <<installVars, broken, record, dirty, loaded>>
      /\ IF v = NoVersion THEN NextArg(c, TRUE) /\ UNCHANGED <<local, muddled>>
         ELSE /\ local' = [local EXCEPT ![a][now] = v]
              /\ cmd' = [cmd EXCEPT ![c].at = "copy", ![c].staging = now, ![c].version = v]
              /\ IF Deploying(a) \cup Active(a) = {} THEN UNCHANGED muddled ELSE Muddle(a)
  BY DEF StageApp, CmdAt
<1>2. a \in App /\ a \in Apps(c) /\ Goal(c)[2] \in Version \cup {Current} /\ now \in Second
  BY CmdFields DEF Types, HostType
<1>3. loaded[c][a] \in Version \cup {NoVersion}
  BY <1>1, <1>2 DEF Types, CmdType, Loaded, Record
<1>4. v \in VersionOrNone
  BY <1>2, <1>3 DEF Settled, VersionOrNone
<1>5. staged' = staged
  BY <1>1 DEF installVars, host
<1> HIDE DEF a, v
<1>6. CASE v = NoVersion
  <2>1. CmdType'
    BY <1>1, <1>6, CmdTypeOn DEF Types, Loaded
  <2>2. TreeType'
    BY <1>1, <1>5, <1>6 DEF Types, TreeType
  <2> QED BY <1>1, <1>6, <2>1, <2>2 DEF v, a
<1>7. CASE v # NoVersion
  <2>1. v \in Version
    BY <1>4, <1>7 DEF VersionOrNone
  <2>2. /\ r \in [at : CmdSteps, arg : Nat, failed : BOOLEAN, staging : Second,
                  version : VersionOrNone]
        /\ r.at = "copy" /\ r.staging = now /\ r.version = v /\ r.arg = cmd[c].arg
    BY <1>2, <1>4 DEF Types, CmdType, CmdSteps
  <2>3. cmd' = [cmd EXCEPT ![c] = r]
    BY <1>1, <1>7
  <2> HIDE DEF r
  <2>4. /\ cmd'[c].at = "copy" /\ cmd'[c].staging = now /\ cmd'[c].version = v
        /\ cmd'[c].arg = cmd[c].arg
        /\ \A d \in Command : d # c => cmd'[d] = cmd[d]
    BY <2>2, <2>3 DEF Types, CmdType
  <2>5. CmdType'
    <3>1. cmd' \in [Command -> [at : CmdSteps, arg : Nat, failed : BOOLEAN, staging : Second,
                                version : VersionOrNone]]
      BY <2>2, <2>3 DEF Types, CmdType
    <3>2. loaded' = loaded
      BY <1>1
    <3>3. \A b \in Apps(c) : loaded[c][b] # Torn
      BY <1>1 DEF Types, CmdType, Loaded
    <3> QED BY <2>1, <2>4, <3>1, <3>2, <3>3 DEF Types, CmdType
  <2>6. /\ local' \in [App -> [Second -> VersionOrNone]]
        /\ local'[a][now] = v
        /\ \A b \in App, s \in Second : b # a \/ s # now => local'[b][s] = local[b][s]
    <3>1. local' = [local EXCEPT ![a] = [local[a] EXCEPT ![now] = v]]
      BY <1>1, <1>7
    <3>2. [local[a] EXCEPT ![now] = v] \in [Second -> VersionOrNone]
      BY <1>2, <1>4 DEF Types, TreeType
    <3> QED BY <1>2, <3>1, <3>2 DEF Types, TreeType
  <2>7. muddled' \subseteq App
    BY <1>1, <1>2, <1>7 DEF Types, TreeType, Muddle
  <2>8. TreeType'
    BY <1>1, <1>5, <2>6, <2>7 DEF Types, TreeType
  <2> QED BY <1>1, <1>7, <2>1, <2>4, <2>5, <2>6, <2>8 DEF v, a
<1> QED BY <1>6, <1>7

LEMMA HostSame == HostType /\ UNCHANGED <<now, faults, hurt, temp, installed, backups, gcLink,
                                          store, installs, repoProps>> => HostType'
BY DEF HostType

LEMMA JobSame == JobType /\ UNCHANGED job => JobType'
BY DEF JobType

LEMMA TreeSame == TreeType /\ UNCHANGED <<staged, tree, muddled>> => TreeType'
BY DEF TreeType, tree

LEMMA CmdSame == CmdType /\ UNCHANGED <<cmd, loaded>> => CmdType'
BY DEF CmdType

LEMMA FailsTypes ==
    ASSUME Types, NEW j \in Job, CallFails(j)
    PROVE  HostType' /\ JobType' /\ UNCHANGED staged /\ AppOf(j) \in App
<1>1. JobType' /\ AppOf(j) \in App
  BY GoOn, AppType DEF CallFails, Types, Steps, Ended
<1>2. faults' \in 0..MaxFaults /\ hurt' \subseteq Job
  BY Names DEF CallFails, Fault, Types, HostType
<1> QED BY <1>1, <1>2 DEF CallFails, host, Types, HostType

LEMMA HostTypes == ASSUME Types, Host PROVE Types'
<1>1. UNCHANGED <<tree, cmd, loaded>>
  BY DEF Host
<1>2. CmdType'
  BY <1>1, CmdSame DEF Types
<1>3. CASE \E j \in Job : Step(j) /\ UNCHANGED muddled
  BY <1>1, <1>2, <1>3, StepTypes, TreeSame DEF Types
<1>4. CASE \E j \in Job : CallFails(j) /\ Muddle(AppOf(j))
  <2>1. PICK j \in Job : CallFails(j) /\ Muddle(AppOf(j))
    BY <1>4
  <2>2. HostType' /\ JobType' /\ UNCHANGED staged /\ AppOf(j) \in App
    BY <2>1, FailsTypes
  <2>3. TreeType'
    BY <1>1, <2>1, <2>2 DEF Types, TreeType, Muddle, tree
  <2> QED BY <1>2, <2>2, <2>3 DEF Types
<1>5. CASE \E a \in App : CollectGarbage(a) /\ UNCHANGED muddled
  <2>1. PICK a \in App : CollectGarbage(a) /\ UNCHANGED muddled
    BY <1>5
  <2>2. store' \in [App -> SUBSET VersionOrNone]
    BY <2>1 DEF CollectGarbage, Types, HostType
  <2>3. HostType' /\ JobType'
    BY <2>1, <2>2, JobSame DEF CollectGarbage, Types, HostType
  <2> QED BY <1>1, <1>2, <2>1, <2>3, TreeSame DEF Types, CollectGarbage
<1>6. CASE Tick /\ UNCHANGED muddled
  <2>1. now' \in Second
    BY <1>6, Names DEF Tick, Types, HostType, Second
  <2>2. HostType' /\ JobType' /\ UNCHANGED staged
    BY <1>6, <2>1, JobSame DEF Tick, Types, HostType, host
  <2> QED BY <1>1, <1>2, <1>6, <2>2, TreeSame DEF Types
<1> QED BY <1>3, <1>4, <1>5, <1>6 DEF Host

LEMMA FaultType ==
    ASSUME Types, Fault, UNCHANGED <<now, host, job, installs, hurt>>
    PROVE  HostType' /\ JobType' /\ UNCHANGED staged
<1>1. faults' \in 0..MaxFaults
  BY Names DEF Fault, Types, HostType
<1> QED BY <1>1, JobSame DEF Types, HostType, host

LEMMA QuietTypes ==
    ASSUME Types, UNCHANGED installVars
    PROVE  HostType' /\ JobType' /\ UNCHANGED staged
BY HostSame, JobSame DEF Types, installVars, host

LEMMA CommandTypes == ASSUME Types, NEW c \in Command, RunsCommand(c) PROVE Types'
<1> USE CmdFields
<1>0. Target(c) \in App
  BY DEF Types
<1>1. CASE LoadRoot(c)
  <2>1. /\ UNCHANGED <<installVars, tree, muddled>>
        /\ loaded' = [loaded EXCEPT ![c] = record]
        /\ CmdGoes(c, IF \E a \in Apps(c) : Panics(a) THEN "hung"
                      ELSE IF \A a \in Apps(c) : Loads(a) THEN "stage" ELSE "failed")
    BY <1>1 DEF LoadRoot
  <2>2. PICK n \in {"hung", "stage", "failed"} :
            CmdGoes(c, n) /\ (n = "stage" => \A a \in Apps(c) : Loads(a))
    BY <2>1
  <2>3. loaded' \in [Command -> [App -> Record]] /\ loaded'[c] = record
        /\ \A d \in Command : d # c => loaded'[d] = loaded[d]
    BY <2>1 DEF Types, TreeType, CmdType
  <2>4. CmdType'
    BY <2>2, <2>3, CmdOn DEF Types, CmdType, CmdSteps, Loads, Loaded, Deploys
  <2> QED BY <2>1, <2>4, QuietTypes, TreeSame DEF Types
<1>2. CASE StageApp(c)
  <2>1. UNCHANGED installVars
    BY <1>2 DEF StageApp
  <2> QED BY <1>2, <2>1, Staged, QuietTypes DEF Types
<1>3. CASE CopyToHost(c)
  <2>1. CmdType'
    <3>1. cmd[c].at = "copy" /\ CmdGoes(c, "ssh") /\ UNCHANGED loaded
      BY <1>3 DEF CopyToHost, CmdAt
    <3> QED BY <3>1, CmdTypeOn DEF Types, CmdSteps, Deploys
  <2>2. HostType' /\ JobType'
    BY <1>3, HostSame, JobSame DEF CopyToHost, Types
  <2>3. staged' \in [App -> [Second -> VersionOrNone]]
    <3> DEFINE a == Target(c)
               s == cmd[c].staging
               t == [staged[a] EXCEPT ![s] = local[a][s]]
    <3>1. staged' = [staged EXCEPT ![a] = t]
      BY <1>3 DEF CopyToHost
    <3>2. t \in [Second -> VersionOrNone]
      BY <1>0 DEF Types, TreeType
    <3> QED BY <3>1, <3>2 DEF Types, TreeType
  <2>4. TreeType'
    BY <1>3, <2>3 DEF CopyToHost, Types, TreeType, tree
  <2> QED BY <2>1, <2>2, <2>4 DEF Types
<1>4. CASE SshLocalInstall(c)
  <2>1. CmdType'
    <3>1. cmd[c].at = "ssh" /\ CmdGoes(c, "install") /\ UNCHANGED loaded
      BY <1>4 DEF SshLocalInstall, CmdAt
    <3> QED BY <3>1, CmdTypeOn DEF Types, CmdSteps, Deploys
  <2>2. Install(JobOf(c), Target(c), cmd[c].staging) /\ UNCHANGED <<tree, muddled>>
    BY <1>4 DEF SshLocalInstall
  <2>3. JobType'
    BY <2>2, Started DEF Types
  <2>4. hurt' \subseteq Job
    BY <2>2 DEF Install, Types, HostType, Active
  <2>5. HostType' /\ UNCHANGED staged
    BY <2>2, <2>4 DEF Install, Types, HostType, host
  <2> QED BY <2>1, <2>2, <2>3, <2>5, TreeSame DEF Types
<1>5. CASE InstallAnswers(c)
  <2>1. cmd[c].at = "install" /\ (CmdGoes(c, "record") \/ NextArg(c, TRUE))
        /\ UNCHANGED <<installVars, tree, loaded, muddled>>
    BY <1>5 DEF InstallAnswers, CmdAt
  <2>2. CmdType'
    BY <2>1, CmdTypeOn DEF Types, CmdSteps, Deploys, Loaded
  <2> QED BY <2>1, <2>2, QuietTypes, TreeSame DEF Types
<1>6. CASE CommandFails(c)
  <2>1. CmdType'
    BY <1>6, CmdTypeOn DEF CommandFails, Types, Deploys, Loaded
  <2>2. HostType' /\ JobType' /\ UNCHANGED staged
    BY <1>6, FaultType DEF CommandFails
  <2>3. TreeType'
    BY <1>0, <1>6, <2>2 DEF CommandFails, Types, TreeType, tree, Muddle
  <2> QED BY <2>1, <2>2, <2>3 DEF Types
<1>7. CASE TruncateRecord(c)
  <2>1. cmd[c].at = "record" /\ CmdGoes(c, "write") /\ UNCHANGED <<installVars, loaded>>
    BY <1>7 DEF TruncateRecord, CmdAt
  <2>2. CmdType'
    BY <2>1, CmdTypeOn DEF Types, CmdSteps, Deploys
  <2>3. HostType' /\ JobType' /\ UNCHANGED staged
    BY <2>1, QuietTypes
  <2>4. TreeType'
    BY <1>0, <1>7, <2>3 DEF TruncateRecord, Types, TreeType, Record
  <2> QED BY <2>2, <2>3, <2>4 DEF Types
<1>8. CASE WriteRecord(c)
  <2>1. cmd[c].at = "write" /\ NextArg(c, FALSE) /\ UNCHANGED <<installVars, loaded>>
    BY <1>8 DEF WriteRecord, CmdAt
  <2>2. CmdType'
    BY <2>1, CmdTypeOn DEF Types, Deploys, Loaded
  <2>3. HostType' /\ JobType' /\ UNCHANGED staged
    BY <2>1, QuietTypes
  <2>4. cmd[c].version \in Record
    BY <2>1 DEF Types, CmdType, Deploys, Record
  <2>5. TreeType'
    BY <1>0, <1>8, <2>3, <2>4 DEF WriteRecord, Types, TreeType
  <2> QED BY <2>2, <2>3, <2>5 DEF Types
<1>9. CASE WriteFails(c)
  <2>1. CmdType'
    BY <1>9, CmdTypeOn DEF WriteFails, Types, Deploys, Loaded
  <2>2. HostType' /\ JobType' /\ UNCHANGED staged
    BY <1>9, FaultType DEF WriteFails
  <2>3. TreeType'
    BY <1>0, <1>9, <2>2 DEF WriteFails, Types, TreeType, tree, Muddle
  <2> QED BY <2>1, <2>2, <2>3 DEF Types
<1>10. CASE Commit(c)
  <2>1. CmdGoes(c, "done") \/ CmdGoes(c, "failed")
    BY <1>10 DEF Commit
  <2>2. CmdType'
    BY <1>10, <2>1, CmdTypeOn DEF Commit, Types, CmdSteps, Deploys
  <2>3. HostType' /\ JobType' /\ UNCHANGED staged
    BY <1>10, QuietTypes DEF Commit
  <2>4. TreeType'
    BY <1>10, <2>3 DEF Commit, Types, TreeType
  <2> QED BY <2>2, <2>3, <2>4 DEF Types
<1>11. CASE Kill(c)
  <2>1. CmdGoes(c, "failed") /\ UNCHANGED loaded
    BY <1>11 DEF Kill
  <2>2. CmdType'
    BY <2>1, CmdTypeOn DEF Types, CmdSteps, Deploys
  <2>3. HostType' /\ JobType' /\ UNCHANGED staged
    BY <1>11, FaultType DEF Kill
  <2>4. muddled' \subseteq App
    BY <1>0, <1>11 DEF Kill, Muddle, Types, TreeType
  <2>5. TreeType'
    BY <1>11, <2>3, <2>4 DEF Kill, Types, TreeType, tree
  <2> QED BY <2>2, <2>3, <2>5 DEF Types
<1> QED BY <1>1, <1>2, <1>3, <1>4, <1>5, <1>6, <1>7, <1>8, <1>9, <1>10, <1>11 DEF RunsCommand

LEMMA TypesNext == Types /\ [Next]_vars => Types'
<1> SUFFICES ASSUME Types, [Next]_vars PROVE Types'
  OBVIOUS
<1>1. CASE Host
  BY <1>1, HostTypes
<1>2. CASE \E c \in Command : RunsCommand(c)
  BY <1>2, CommandTypes
<1>3. CASE UNCHANGED vars
  <2>1. UNCHANGED <<installVars, tree, cmd, loaded, muddled>>
    BY <1>3 DEF vars, deployVars
  <2> QED BY <2>1, QuietTypes, TreeSame, CmdSame DEF Types
<1> QED BY <1>1, <1>2, <1>3 DEF Next

LEMMA TypesAlways == Spec => []Types
BY TypesInit, TypesNext, PTL DEF Spec

\* Every variable of a deployment has its type; what a command stages has a version, because
\* it does not go on with a tree whose record was torn when it was read (loadApp, DeployApp).
THEOREM TypeCorrect == Spec => []TypeOK
BY TypesAlways, TypesOK, PTL
-----------------------------------------------------------------------------
(* Install directories and their backups *)

LEMMA DirectoriesMove ==
    ASSUME [Next]_vars
    PROVE  \/ \E j \in Job : BackupInstallDir(j) \/ RenameTempInstallDir(j)
           \/ UNCHANGED <<installed, backups, installs>>
<1>1. CASE \E j \in Job : Step(j)
  BY <1>1 DEF Step, ResolveDirectories, CreateRepoDotProps, FillRepoDotProps, ReadRepoDotProps,
              FetchBuildDescription, RunNixBuild, CreateNixGcroot, SetupInstallDir, CannotGoOn,
              host
<1>2. CASE \E j \in Job : CallFails(j)
  BY <1>2 DEF CallFails, host
<1>3. CASE \E a \in App : CollectGarbage(a)
  BY <1>3 DEF CollectGarbage
<1>4. CASE Tick
  BY <1>4 DEF Tick, host
<1>5. CASE \E c \in Command : RunsCommand(c)
  <2>1. PICK c \in Command : RunsCommand(c)
    BY <1>5
  <2>2. UNCHANGED <<installed, backups, installs>>
    BY <2>1 DEF RunsCommand, LoadRoot, StageApp, CopyToHost, SshLocalInstall, Install,
                InstallAnswers, CommandFails, TruncateRecord, WriteRecord, WriteFails, Commit,
                Kill, installVars, host
  <2> QED BY <2>2
<1>6. CASE UNCHANGED vars
  BY <1>6 DEF vars, installVars, host
<1> QED BY <1>1, <1>2, <1>3, <1>4, <1>5, <1>6 DEF Next, Host

\* The directories that were installed and are still there.
Kept(a) == ({installed[a]} \cup {backups[a][s] : s \in Second}) \ {NoDir}

LEMMA KeptType == ASSUME Types, NEW a \in App PROVE Kept(a) \subseteq Dir
BY DEF Types, HostType, DirOrNone, Kept

LEMMA NothingOverwrittenNext ==
    ASSUME Types, NothingOverwritten, [Next]_vars
    PROVE  NothingOverwritten'
<1> SUFFICES ASSUME NEW a \in App
             PROVE  installs'[a] = {d.made : d \in Kept(a)'}
  BY DEF NothingOverwritten, Kept
<1>0. installs[a] = {d.made : d \in Kept(a)}
  BY DEF NothingOverwritten, Kept
<1>1. CASE \E j \in Job : BackupInstallDir(j)
  <2>1. PICK j \in Job : BackupInstallDir(j)
    BY <1>1
  <2>2. installs' = installs
    BY <2>1 DEF BackupInstallDir
  <2> DEFINE b == AppOf(j)
  <2>3. b \in App /\ now \in Second
    BY <2>1, AppType DEF BackupInstallDir, Goes, Types, HostType
  <2>4. /\ installed[b] # NoDir => backups[b][now] = NoDir
        /\ backups'[b][now] = IF installed[b] # NoDir THEN installed[b] ELSE backups[b][now]
        /\ \A x \in App, s \in Second : x # b \/ s # now => backups'[x][s] = backups[x][s]
        /\ installed'[b] = NoDir
        /\ \A x \in App : x # b => installed'[x] = installed[x]
    BY <2>1, BackedUp
  <2> HIDE DEF b
  <2>5. Kept(a)' = Kept(a)
    <3>1. CASE a = b
      <4>1. ASSUME NEW d \in Kept(a) PROVE d \in Kept(a)'
        BY <2>3, <2>4, <3>1 DEF Kept
      <4>2. ASSUME NEW d \in Kept(a)' PROVE d \in Kept(a)
        BY <2>3, <2>4, <3>1 DEF Kept
      <4> QED BY <4>1, <4>2
    <3>2. CASE a # b
      BY <2>4, <3>2 DEF Kept
    <3> QED BY <3>1, <3>2
  <2> QED BY <1>0, <2>2, <2>5
<1>2. CASE \E j \in Job : RenameTempInstallDir(j)
  <2>1. PICK j \in Job : RenameTempInstallDir(j)
    BY <1>2
  <2>2. backups' = backups
    BY <2>1 DEF RenameTempInstallDir
  <2> DEFINE b == AppOf(j)
             t == Temp(j)
  <2>3. /\ t \in Dir /\ installed[b] = NoDir /\ installed'[b] = t
        /\ \A x \in App : x # b => installed'[x] = installed[x] /\ installs'[x] = installs[x]
        /\ installs'[b] = installs[b] \cup {t.made}
    BY <2>1, Renamed
  <2> HIDE DEF b, t
  <2>4. CASE a = b
    <3>1. Kept(a)' = Kept(a) \cup {t}
      BY <2>2, <2>3, <2>4, Names DEF Kept
    <3> QED BY <1>0, <2>3, <2>4, <3>1
  <2>5. CASE a # b
    <3>1. Kept(a)' = Kept(a)
      BY <2>2, <2>3, <2>5 DEF Kept
    <3> QED BY <1>0, <2>3, <2>5, <3>1
  <2> QED BY <2>4, <2>5
<1>3. CASE UNCHANGED <<installed, backups, installs>>
  BY <1>0, <1>3 DEF Kept
<1> QED BY <1>1, <1>2, <1>3, DirectoriesMove

LEMMA NothingOverwrittenInit == Init => NothingOverwritten
<1> SUFFICES ASSUME Init, NEW a \in App
             PROVE  installs[a] = {d.made : d \in Kept(a)}
  BY DEF NothingOverwritten, Kept
<1>1. /\ installed[a] = IF a \in Known THEN Whole(First, 0) ELSE NoDir
      /\ \A s \in Second : backups[a][s] = NoDir
      /\ installs[a] = IF a \in Known THEN {0} ELSE {}
  BY DEF Init, InstallInit
<1>2. Whole(First, 0) # NoDir /\ Whole(First, 0).made = 0
  <2>1. Whole(First, 0) \in Dir
    BY Names, Dirs DEF VersionOrNone
  <2> QED BY <2>1, Names DEF Whole
<1>3. Kept(a) = IF a \in Known THEN {Whole(First, 0)} ELSE {}
  BY <1>1, <1>2 DEF Kept
<1> QED BY <1>1, <1>2, <1>3

\* However many runs of local-install meet in one application, and wherever they fail, no
\* directory that was ever installed is overwritten or lost: a backup is made only where none
\* is, and nothing is renamed over an install directory (backupInstallDir, os.Rename).
THEOREM BackupsSurvive == Spec => []NothingOverwritten
<1>1. Types /\ NothingOverwritten /\ [Next]_vars => NothingOverwritten'
  BY NothingOverwrittenNext
<1> QED BY <1>1, TypesAlways, NothingOverwrittenInit, PTL DEF Spec
-----------------------------------------------------------------------------
(* Roots of the collector *)

Going == {"props", "create", "fetch", "build", "root", "setup", "backup", "rename"}
Linked == {"setup", "backup", "rename"}

\* A run installs a version.
VersionsOK == \A j \in Job : job[j].at \in Going => Valid(job[j].version)

\* An installed application has its link and its build.
InstalledOK ==
    \A a \in Gcrooted :
        installed[a] # NoDir => a \in gcLink /\ installed[a].build \in store[a]

\* What is being built keeps its build.
BuildsOK ==
    \A a \in App, s \in Second :
        temp[a][s] # NoDir => temp[a][s].build \in store[a] \cup {NoVersion}

\* A run that is past createNixGcroot has made the link, and has its build; as long as there
\* is no link nobody has taken the directory of another.
RunOK(k) ==
    AppOf(k) \in Gcrooted =>
        /\ job[k].at \in Linked => /\ AppOf(k) \in gcLink /\ HasTemp(k)
                                   /\ Valid(Temp(k).files) /\ Valid(Temp(k).build)
        /\ AppOf(k) \notin gcLink =>
               /\ job[k].at \in Going => HasTemp(k)
               /\ job[k].at \in {"build", "root"} => Valid(Temp(k).files)
               /\ job[k].at = "root" => Valid(Temp(k).build)

RunsOK == \A k \in Job : RunOK(k)

\* The link is made once: only one run gets past it.
OneLinked ==
    \A j, k \in Job :
        /\ AppOf(j) = AppOf(k) /\ AppOf(j) \in Gcrooted
        /\ job[j].at \in Linked /\ job[k].at \in Linked
        => j = k

RootInv == VersionsOK /\ InstalledOK /\ BuildsOK /\ RunsOK /\ OneLinked

\* A step of a run that only takes it further, or ends it.
QuietMove(j) ==
    /\ job[j].at \notin Ended
    /\ \/ Go(j, "failed")
       \/ job[j].at \in {"props", "create"} /\ (Go(j, "create") \/ Go(j, "fetch"))
    /\ UNCHANGED <<temp, installed, gcLink, store, backups, staged, now>>

\* What a step can be to the directories, the link and the store.
LEMMA Kinds ==
    ASSUME [Next]_vars
    PROVE  \/ \E j \in Job :
                 \/ ResolveDirectories(j) \/ FetchBuildDescription(j) \/ RunNixBuild(j)
                 \/ CreateNixGcroot(j) \/ SetupInstallDir(j) \/ BackupInstallDir(j)
                 \/ RenameTempInstallDir(j) \/ QuietMove(j)
           \/ \E a \in App : CollectGarbage(a)
           \/ \E c \in Command : SshLocalInstall(c)
           \/ UNCHANGED <<temp, installed, gcLink, store, job>>
<1>1. CASE \E j \in Job : Step(j)
  <2>1. PICK j \in Job : Step(j)
    BY <1>1
  <2>2. CreateRepoDotProps(j) => QuietMove(j)
    BY DEF CreateRepoDotProps, Goes, QuietMove, Ended
  <2>3. FillRepoDotProps(j) => QuietMove(j)
    BY DEF FillRepoDotProps, Goes, QuietMove, Ended
  <2>4. ReadRepoDotProps(j) => QuietMove(j)
    BY DEF ReadRepoDotProps, QuietMove, Ended, host
  <2>5. CannotGoOn(j) => QuietMove(j)
    BY DEF CannotGoOn, QuietMove, Ended, host
  <2> QED BY <2>1, <2>2, <2>3, <2>4, <2>5 DEF Step
<1>2. CASE \E j \in Job : CallFails(j)
  BY <1>2 DEF CallFails, QuietMove, host
<1>3. CASE \E a \in App : CollectGarbage(a)
  BY <1>3
<1>4. CASE Tick
  BY <1>4 DEF Tick, host
<1>5. CASE \E c \in Command : RunsCommand(c)
  <2>1. PICK c \in Command : RunsCommand(c)
    BY <1>5
  <2>2. SshLocalInstall(c) \/ UNCHANGED <<temp, installed, gcLink, store, job>>
    BY <2>1 DEF RunsCommand, LoadRoot, StageApp, CopyToHost, InstallAnswers, CommandFails,
                TruncateRecord, WriteRecord, WriteFails, Commit, Kill, installVars, host
  <2> QED BY <2>2
<1>6. CASE UNCHANGED vars
  BY <1>6 DEF vars, installVars, host
<1> QED BY <1>1, <1>2, <1>3, <1>4, <1>5, <1>6 DEF Next, Host

LEMMA RootInit == Init => RootInv
<1> SUFFICES ASSUME Init PROVE RootInv
  OBVIOUS
<1>1. \A j \in Job : job[j].at = "off"
  BY DEF Init, InstallInit
<1>2. VersionsOK /\ RunsOK /\ OneLinked
  BY <1>1 DEF VersionsOK, RunsOK, RunOK, OneLinked, Going, Linked
<1>3. InstalledOK
  BY Names DEF Init, InstallInit, InstalledOK, Whole
<1>4. BuildsOK
  BY DEF Init, InstallInit, BuildsOK
<1> QED BY <1>2, <1>3, <1>4 DEF RootInv

\* What a run moves when it goes on.
LEMMA Moves ==
    ASSUME Types, NEW j \in Job, job[j].at # "off", NEW n \in Steps, Go(j, n)
    PROVE  /\ job'[j].at = n
           /\ \A k \in Job : /\ AppOf(k)' = AppOf(k) /\ job'[k].made = job[k].made
                             /\ job'[k].version = job[k].version
                             /\ job'[k].staging = job[k].staging
                             /\ k # j => job'[k].at = job[k].at
                             /\ Temp(k)' = temp'[AppOf(k)][job[k].made]
                             /\ HasTemp(k)' = (temp'[AppOf(k)][job[k].made] # NoDir)
<1>1. /\ job'[j].at = n
      /\ \A k \in Job : /\ job'[k].app = job[k].app /\ job'[k].staging = job[k].staging
                        /\ job'[k].made = job[k].made /\ job'[k].version = job[k].version
                        /\ k # j => job'[k] = job[k]
  BY GoOn DEF Types
<1>2. \A k \in Job : AppOf(k)' = AppOf(k)
  BY <1>1 DEF AppOf
<1>3. \A k \in Job : Temp(k)' = temp'[AppOf(k)][job[k].made]
  BY <1>1, <1>2 DEF Temp
<1>4. \A k \in Job : HasTemp(k)' = (temp'[AppOf(k)][job[k].made] # NoDir)
  BY <1>3 DEF HasTemp
<1> QED BY <1>1, <1>2, <1>3, <1>4

LEMMA RootQuiet == ASSUME Types, RootInv, NEW j \in Job, QuietMove(j) PROVE RootInv'
<1>1. PICK n \in {"failed", "create", "fetch"} :
          Go(j, n) /\ (n # "failed" => job[j].at \in {"props", "create"})
  BY DEF QuietMove
<1>2. /\ job'[j].at = n
      /\ \A k \in Job : /\ AppOf(k)' = AppOf(k) /\ job'[k].made = job[k].made
                        /\ job'[k].version = job[k].version
                        /\ k # j => job'[k].at = job[k].at
                        /\ Temp(k)' = Temp(k) /\ HasTemp(k)' = HasTemp(k)
  BY <1>1, Moves DEF QuietMove, Ended, Steps, Temp, HasTemp
<1>3. UNCHANGED <<temp, installed, gcLink, store>>
  BY DEF QuietMove
<1>4. VersionsOK'
  BY <1>1, <1>2 DEF VersionsOK, RootInv, Going, Valid
<1>5. InstalledOK' /\ BuildsOK'
  BY <1>3 DEF InstalledOK, BuildsOK, RootInv
<1>6. RunsOK'
  <2> SUFFICES ASSUME NEW k \in Job PROVE RunOK(k)'
    BY DEF RunsOK
  <2>1. RunOK(k)
    BY DEF RootInv, RunsOK
  <2> QED BY <1>1, <1>2, <1>3, <2>1 DEF RunOK, Going, Linked, Valid
<1>7. OneLinked'
  BY <1>1, <1>2 DEF OneLinked, RootInv, Linked
<1> QED BY <1>4, <1>5, <1>6, <1>7 DEF RootInv

LEMMA RootResolve == ASSUME Types, RootInv, NEW j \in Job, ResolveDirectories(j) PROVE RootInv'
<1> DEFINE a == AppOf(j)
<1>1. /\ job[j].at = "start" /\ Valid(Copied(j))
      /\ job'[j].at = "props" /\ job'[j].version = Copied(j) /\ job'[j].made = now
      /\ \A k \in Job : job'[k].app = job[k].app /\ (k # j => job'[k] = job[k])
      /\ temp'[a][now] = IF temp[a][now] = NoDir THEN NewDir(now) ELSE temp[a][now]
      /\ \A b \in App, s \in Second : b # a \/ s # now => temp'[b][s] = temp[b][s]
  BY Resolved
<1>2. a \in App /\ now \in Second /\ NewDir(now) # NoDir /\ NewDir(now).build = NoVersion
  <2>1. a \in App /\ now \in Second
    BY <1>1, AppType DEF Types, HostType
  <2>2. NewDir(now) # NoDir
    BY <2>1, Dirs, Names
  <2> QED BY <2>1, <2>2 DEF NewDir
<1>3. UNCHANGED <<installed, gcLink, store>>
  BY DEF ResolveDirectories
<1>4. VersionsOK'
  BY <1>1 DEF VersionsOK, RootInv, Going, Valid
<1>5. InstalledOK' /\ BuildsOK'
  BY <1>1, <1>2, <1>3 DEF InstalledOK, BuildsOK, RootInv
<1>6. RunsOK'
  <2> SUFFICES ASSUME NEW k \in Job PROVE RunOK(k)'
    BY DEF RunsOK
  <2>1. RunOK(k) /\ job'[k].app = job[k].app
    BY <1>1 DEF RootInv, RunsOK
  <2>2. CASE k = j
    <3>1. temp'[a][now] # NoDir
      BY <1>1, <1>2
    <3>2. Temp(j)' = temp'[a][now]
      BY <1>1 DEF Temp, AppOf
    <3>3. HasTemp(j)'
      BY <3>1, <3>2 DEF HasTemp
    <3> QED BY <1>1, <2>2, <3>3 DEF RunOK, Linked
  <2>3. CASE k # j /\ job[k].at \in Going
    <3>1. job'[k] = job[k] /\ AppOf(k) \in App /\ job[k].made \in Second /\ AppOf(k)' = AppOf(k)
      BY <1>1, <2>3, AppType DEF Types, Going, AppOf
    <3>2. HasTemp(k) => Temp(k)' = Temp(k) /\ HasTemp(k)'
      BY <1>1, <3>1 DEF Temp, HasTemp
    <3> QED BY <1>3, <2>1, <3>1, <3>2 DEF RunOK, Valid, Linked, Going
  <2>4. CASE k # j /\ job[k].at \notin Going
    BY <1>1, <2>4 DEF RunOK, Going, Linked
  <2> QED BY <2>2, <2>3, <2>4
<1>7. OneLinked'
  <2> SUFFICES ASSUME NEW i \in Job, NEW k \in Job, AppOf(i)' = AppOf(k)',
                      AppOf(i)' \in Gcrooted, job'[i].at \in Linked, job'[k].at \in Linked
               PROVE  i = k
    BY DEF OneLinked
  <2>1. i # j /\ k # j
    BY <1>1 DEF Linked
  <2>2. job'[i] = job[i] /\ job'[k] = job[k]
    BY <1>1, <2>1
  <2> QED BY <2>2 DEF OneLinked, RootInv, AppOf
<1> QED BY <1>4, <1>5, <1>6, <1>7 DEF RootInv

\* A run writes into the directory that it builds.
LEMMA RootBuilds ==
    ASSUME Types, RootInv, NEW j \in Job, NEW n, NEW d \in Dir,
           \/ job[j].at = "fetch" /\ n = "build" /\ Valid(d.files)
           \/ job[j].at = "build" /\ n = "root" /\ (Valid(Temp(j).files) => Valid(d.build))
           \/ job[j].at = "setup" /\ n = "backup",
           Go(j, n), SetTemp(j, d),
           Valid(Temp(j).files) => Valid(d.files),
           Valid(Temp(j).files) /\ Valid(Temp(j).build) => Valid(d.build),
           d.build \in store'[AppOf(j)] \cup {NoVersion},
           \A a \in App : store[a] \subseteq store'[a],
           UNCHANGED <<installed, gcLink>>
    PROVE  RootInv'
<1> DEFINE a == AppOf(j)
           m == job[j].made
<1>1. /\ job'[j].at = n
      /\ \A k \in Job : /\ AppOf(k)' = AppOf(k) /\ job'[k].made = job[k].made
                        /\ job'[k].version = job[k].version
                        /\ k # j => job'[k].at = job[k].at
                        /\ Temp(k)' = temp'[AppOf(k)][job[k].made]
                        /\ HasTemp(k)' = (temp'[AppOf(k)][job[k].made] # NoDir)
  BY Moves DEF Steps
<1>2. /\ temp'[a][m] = d /\ d # NoDir
      /\ \A b \in App, s \in Second : b # a \/ s # m => temp'[b][s] = temp[b][s]
  <2>1. d \in DirOrNone /\ d # NoDir
    BY Names DEF DirOrNone
  <2> QED BY <2>1, Built DEF Types
<1>3. a \in App /\ m \in Second /\ Temp(j) = temp[a][m]
  BY AppType DEF Types, Temp
<1>4. VersionsOK'
  BY <1>1 DEF VersionsOK, RootInv, Going, Valid
<1>5. InstalledOK'
  BY Names DEF InstalledOK, RootInv
<1>6. BuildsOK'
  BY <1>2 DEF BuildsOK, RootInv
<1>7. RunsOK'
  <2> SUFFICES ASSUME NEW k \in Job PROVE RunOK(k)'
    BY DEF RunsOK
  <2>1. RunOK(k) /\ RunOK(j)
    BY DEF RootInv, RunsOK
  <2>2. CASE k = j
    <3>1. Temp(k)' = d /\ HasTemp(k)' /\ AppOf(k)' = AppOf(k)
      BY <1>1, <1>2, <2>2
    <3>2. CASE job[j].at = "fetch"
      BY <1>1, <2>2, <3>1, <3>2 DEF RunOK, Linked, Valid
    <3>3. CASE job[j].at = "build"
      BY <1>1, <2>1, <2>2, <3>1, <3>3 DEF RunOK, Linked, Valid, Going
    <3>4. CASE job[j].at = "setup"
      BY <1>1, <2>1, <2>2, <3>1, <3>4 DEF RunOK, Linked, Valid, Going
    <3> QED BY <3>2, <3>3, <3>4
  <2>3. CASE k # j /\ job[k].at \in Going
    <3>1. AppOf(k) \in App /\ job[k].made \in Second /\ job'[k].at = job[k].at
          /\ AppOf(k)' = AppOf(k)
      BY <1>1, <2>3, AppType DEF Types, Going
    <3>2. CASE AppOf(k) = a /\ job[k].made = m
      <4>1. Temp(k)' = d /\ HasTemp(k)' /\ Temp(k) = Temp(j)
        BY <1>1, <1>2, <3>2 DEF Temp
      <4> QED BY <2>1, <2>3, <3>1, <4>1 DEF RunOK, Valid, Linked, Going
    <3>3. CASE ~(AppOf(k) = a /\ job[k].made = m)
      <4>1. Temp(k)' = Temp(k) /\ HasTemp(k)' = HasTemp(k)
        BY <1>1, <1>2, <3>1, <3>3 DEF Temp, HasTemp
      <4> QED BY <2>1, <2>3, <3>1, <4>1 DEF RunOK, Valid, Linked, Going
    <3> QED BY <3>2, <3>3
  <2>4. CASE k # j /\ job[k].at \notin Going
    BY <1>1, <2>4 DEF RunOK, Going, Linked
  <2> QED BY <2>2, <2>3, <2>4
<1>8. OneLinked'
  BY <1>1 DEF OneLinked, RootInv, Linked
<1> QED BY <1>4, <1>5, <1>6, <1>7, <1>8 DEF RootInv

LEMMA RootFetch == ASSUME Types, RootInv, NEW j \in Job, FetchBuildDescription(j) PROVE RootInv'
<1> DEFINE t == Temp(j)
           d == [t EXCEPT !.files = job[j].version]
<1>1. /\ job[j].at = "fetch" /\ Go(j, "build") /\ HasTemp(j) /\ SetTemp(j, d)
      /\ UNCHANGED <<installed, gcLink, store>>
  BY DEF FetchBuildDescription, Goes
<1>2. t \in Dir /\ job[j].version \in VersionOrNone /\ AppOf(j) \in App
  BY <1>1, TempType, AppType DEF Types
<1>3. d \in Dir /\ d.files = job[j].version /\ d.build = t.build
  <2>1. d \in Dir
    BY <1>2, Dirs
  <2>2. t \in [made : Second, files : VersionOrNone, build : VersionOrNone,
               spec : VersionOrNone]
    BY <1>2 DEF Dir
  <2> HIDE DEF t
  <2>3. d.files = job[j].version /\ d.build = t.build
    BY <2>2
  <2> QED BY <2>1, <2>3
<1>4. Valid(d.files)
  BY <1>1, <1>3 DEF RootInv, VersionsOK, Going
<1>5. t.build \in store[AppOf(j)] \cup {NoVersion}
  <2>1. t # NoDir /\ job[j].made \in Second
    BY <1>1, AppType DEF HasTemp, Types
  <2> QED BY <1>2, <2>1 DEF RootInv, BuildsOK, Temp
<1> HIDE DEF d
<1>6. /\ d.build \in store'[AppOf(j)] \cup {NoVersion}
      /\ \A a \in App : store[a] \subseteq store'[a]
      /\ Valid(t.files) => Valid(d.files)
      /\ Valid(t.files) /\ Valid(t.build) => Valid(d.build)
  BY <1>1, <1>3, <1>4, <1>5
<1> QED BY <1>1, <1>3, <1>4, <1>6, RootBuilds

LEMMA RootBuild == ASSUME Types, RootInv, NEW j \in Job, RunNixBuild(j) PROVE RootInv'
<1> DEFINE t == Temp(j)
           d == [t EXCEPT !.build = t.files]
<1>1. /\ job[j].at = "build" /\ Go(j, "root") /\ HasTemp(j) /\ SetTemp(j, d)
      /\ store' = [store EXCEPT ![AppOf(j)] = @ \cup {t.files}]
      /\ UNCHANGED <<installed, gcLink>>
  BY DEF RunNixBuild, Goes
<1>2. t \in Dir /\ AppOf(j) \in App
  BY <1>1, TempType, AppType DEF Types
<1>3. d \in Dir /\ d.files = t.files /\ d.build = t.files
  <2>1. t.files \in VersionOrNone
    BY <1>2, Dirs
  <2>2. d \in Dir
    BY <1>2, <2>1, Dirs
  <2>3. t \in [made : Second, files : VersionOrNone, build : VersionOrNone,
               spec : VersionOrNone]
    BY <1>2 DEF Dir
  <2> HIDE DEF t
  <2>4. d.files = t.files /\ d.build = t.files
    BY <2>3
  <2> QED BY <2>2, <2>4
<1> HIDE DEF d, t
<1>4. /\ d.build \in store'[AppOf(j)] \cup {NoVersion}
      /\ \A a \in App : store[a] \subseteq store'[a]
  BY <1>1, <1>2, <1>3 DEF Types, HostType
<1>5. /\ Valid(t.files) => Valid(d.files) /\ Valid(d.build)
  BY <1>3
<1> QED BY <1>1, <1>3, <1>4, <1>5, RootBuilds DEF t

LEMMA RootSetup == ASSUME Types, RootInv, NEW j \in Job, SetupInstallDir(j) PROVE RootInv'
<1> DEFINE t == Temp(j)
           d == [t EXCEPT !.spec = Copied(j)]
<1>1. /\ job[j].at = "setup" /\ Go(j, "backup") /\ HasTemp(j) /\ SetTemp(j, d)
      /\ UNCHANGED <<installed, gcLink, store>>
  BY DEF SetupInstallDir, Goes
<1>2. t \in Dir /\ Copied(j) \in VersionOrNone /\ AppOf(j) \in App
  <2>1. AppOf(j) \in App /\ job[j].staging \in Second
    BY <1>1, AppType DEF Types
  <2>2. Copied(j) \in VersionOrNone
    BY <2>1 DEF Copied, Types, TreeType
  <2> QED BY <1>1, <2>1, <2>2, TempType
<1>3. d \in Dir /\ d.files = t.files /\ d.build = t.build
  <2>1. d \in Dir
    BY <1>2, Dirs
  <2>2. t \in [made : Second, files : VersionOrNone, build : VersionOrNone,
               spec : VersionOrNone]
    BY <1>2 DEF Dir
  <2> HIDE DEF t
  <2>3. d.files = t.files /\ d.build = t.build
    BY <2>2
  <2> QED BY <2>1, <2>3
<1>4. t.build \in store[AppOf(j)] \cup {NoVersion}
  <2>1. t # NoDir /\ job[j].made \in Second
    BY <1>1, AppType DEF HasTemp, Types
  <2> QED BY <1>2, <2>1 DEF RootInv, BuildsOK, Temp
<1> HIDE DEF d
<1>5. /\ d.build \in store'[AppOf(j)] \cup {NoVersion}
      /\ \A a \in App : store[a] \subseteq store'[a]
      /\ Valid(t.files) => Valid(d.files)
      /\ Valid(t.files) /\ Valid(t.build) => Valid(d.build)
  BY <1>1, <1>3, <1>4
<1> QED BY <1>1, <1>3, <1>5, RootBuilds

LEMMA RootLink == ASSUME Types, RootInv, NEW j \in Job, CreateNixGcroot(j) PROVE RootInv'
<1> DEFINE a == AppOf(j)
           n == IF a \in gcLink THEN "failed" ELSE "setup"
<1>1. /\ job[j].at = "root" /\ Go(j, n) /\ n \in Steps
      /\ gcLink' = gcLink \cup ({a} \cap Gcrooted)
      /\ UNCHANGED <<temp, installed, store>>
  BY DEF CreateNixGcroot, Goes, Steps
<1>2. /\ job'[j].at = n
      /\ \A k \in Job : /\ AppOf(k)' = AppOf(k) /\ job'[k].made = job[k].made
                        /\ job'[k].version = job[k].version
                        /\ k # j => job'[k].at = job[k].at
                        /\ Temp(k)' = Temp(k) /\ HasTemp(k)' = HasTemp(k)
  BY <1>1, Moves DEF Temp, HasTemp
<1>3. VersionsOK'
  BY <1>1, <1>2 DEF VersionsOK, RootInv, Going, Valid
<1>4. InstalledOK' /\ BuildsOK'
  BY <1>1 DEF InstalledOK, BuildsOK, RootInv
<1>5. RunsOK'
  <2> SUFFICES ASSUME NEW k \in Job PROVE RunOK(k)'
    BY DEF RunsOK
  <2>1. RunOK(k)
    BY DEF RootInv, RunsOK
  <2>2. CASE k = j
    BY <1>1, <1>2, <2>1, <2>2 DEF RunOK, Going, Linked, Valid
  <2>3. CASE k # j
    BY <1>1, <1>2, <2>1, <2>3 DEF RunOK, Going, Linked, Valid
  <2> QED BY <2>2, <2>3
<1>6. OneLinked'
  <2>1. ASSUME NEW k \in Job, k # j, AppOf(k) = a, a \in Gcrooted, job[k].at \in Linked
        PROVE  a \in gcLink
    BY <2>1 DEF RootInv, RunsOK, RunOK
  <2> SUFFICES ASSUME NEW i \in Job, NEW k \in Job, AppOf(i)' = AppOf(k)',
                      AppOf(i)' \in Gcrooted, job'[i].at \in Linked, job'[k].at \in Linked
               PROVE  i = k
    BY DEF OneLinked
  <2>2. CASE i # j /\ k # j
    BY <1>2, <2>2 DEF OneLinked, RootInv
  <2>3. CASE i = j /\ k # j
    BY <1>2, <2>1, <2>3 DEF Linked
  <2>4. CASE i # j /\ k = j
    BY <1>2, <2>1, <2>4 DEF Linked
  <2> QED BY <2>2, <2>3, <2>4
<1> QED BY <1>3, <1>4, <1>5, <1>6 DEF RootInv

LEMMA RootBackup == ASSUME Types, RootInv, NEW j \in Job, BackupInstallDir(j) PROVE RootInv'
<1>1. /\ job[j].at = "backup" /\ Go(j, "rename")
      /\ UNCHANGED <<temp, gcLink, store>>
  BY DEF BackupInstallDir, Goes
<1>2. /\ job'[j].at = "rename"
      /\ \A k \in Job : /\ AppOf(k)' = AppOf(k) /\ job'[k].made = job[k].made
                        /\ job'[k].version = job[k].version
                        /\ k # j => job'[k].at = job[k].at
                        /\ Temp(k)' = Temp(k) /\ HasTemp(k)' = HasTemp(k)
  BY <1>1, Moves DEF Temp, HasTemp, Steps
<1>3. VersionsOK'
  BY <1>1, <1>2 DEF VersionsOK, RootInv, Going, Valid
<1>4. InstalledOK'
  BY <1>1, BackedUp, Names DEF InstalledOK, RootInv
<1>5. BuildsOK'
  BY <1>1 DEF BuildsOK, RootInv
<1>6. RunsOK'
  <2> SUFFICES ASSUME NEW k \in Job PROVE RunOK(k)'
    BY DEF RunsOK
  <2>1. RunOK(k)
    BY DEF RootInv, RunsOK
  <2> QED BY <1>1, <1>2, <2>1 DEF RunOK, Going, Linked, Valid
<1>7. OneLinked'
  BY <1>1, <1>2 DEF OneLinked, RootInv, Linked
<1> QED BY <1>3, <1>4, <1>5, <1>6, <1>7 DEF RootInv

LEMMA RootRename == ASSUME Types, RootInv, NEW j \in Job, RenameTempInstallDir(j) PROVE RootInv'
<1> DEFINE a == AppOf(j)
           m == job[j].made
<1>1. /\ job[j].at = "rename" /\ Go(j, "done")
      /\ UNCHANGED <<gcLink, store>>
  BY DEF RenameTempInstallDir, Goes
<1>2. /\ job'[j].at = "done"
      /\ \A k \in Job : /\ AppOf(k)' = AppOf(k) /\ job'[k].made = job[k].made
                        /\ job'[k].version = job[k].version
                        /\ k # j => job'[k].at = job[k].at
                        /\ Temp(k)' = temp'[AppOf(k)][job[k].made]
                        /\ HasTemp(k)' = (temp'[AppOf(k)][job[k].made] # NoDir)
  BY <1>1, Moves DEF Steps
<1>3. /\ Temp(j) \in Dir /\ installed'[a] = Temp(j)
      /\ \A b \in App : b # a => installed'[b] = installed[b]
      /\ SetTemp(j, NoDir)
  BY Renamed
<1>4. /\ temp'[a][m] = NoDir
      /\ \A b \in App, s \in Second : b # a \/ s # m => temp'[b][s] = temp[b][s]
  BY <1>1, <1>3, Built DEF Types, DirOrNone
<1>5. a \in App /\ m \in Second /\ Temp(j) = temp[a][m] /\ Temp(j) # NoDir
  BY <1>1, <1>3, AppType, Names DEF Types, Temp
<1>6. VersionsOK'
  BY <1>1, <1>2 DEF VersionsOK, RootInv, Going, Valid
<1>7. InstalledOK'
  <2>1. a \in Gcrooted => a \in gcLink /\ Valid(Temp(j).build)
    BY <1>1 DEF RootInv, RunsOK, RunOK, Linked
  <2>2. Temp(j).build \in store[a] \cup {NoVersion}
    BY <1>5 DEF RootInv, BuildsOK
  <2> QED BY <1>1, <1>3, <2>1, <2>2, Names DEF InstalledOK, RootInv, Valid
<1>8. BuildsOK'
  BY <1>1, <1>4 DEF BuildsOK, RootInv
<1>9. RunsOK'
  <2> SUFFICES ASSUME NEW k \in Job PROVE RunOK(k)'
    BY DEF RunsOK
  <2>1. RunOK(k) /\ RunOK(j)
    BY DEF RootInv, RunsOK
  <2>2. CASE k = j
    BY <1>2, <2>2 DEF RunOK, Going, Linked
  <2>3. CASE k # j /\ AppOf(k) = a
    <3>1. a \in Gcrooted => a \in gcLink /\ job[k].at \notin Linked
      BY <1>1, <2>1, <2>3 DEF RunOK, Linked, OneLinked, RootInv
    <3> QED BY <1>1, <1>2, <2>3, <3>1 DEF RunOK
  <2>4. CASE AppOf(k) # a /\ job[k].at \in Going
    <3>1. AppOf(k) \in App /\ job[k].made \in Second /\ k # j
      BY <2>4, AppType DEF Types, Going
    <3>2. Temp(k)' = Temp(k) /\ HasTemp(k)' = HasTemp(k)
      BY <1>2, <1>4, <2>4, <3>1 DEF Temp, HasTemp
    <3> QED BY <1>1, <1>2, <2>1, <3>1, <3>2 DEF RunOK, Valid
  <2>5. CASE AppOf(k) # a /\ job[k].at \notin Going
    BY <1>2, <2>5 DEF RunOK, Going, Linked
  <2> QED BY <2>2, <2>3, <2>4, <2>5
<1>10. OneLinked'
  BY <1>1, <1>2 DEF OneLinked, RootInv, Linked
<1> QED BY <1>6, <1>7, <1>8, <1>9, <1>10 DEF RootInv

LEMMA RootCollect == ASSUME Types, RootInv, NEW a \in App, CollectGarbage(a) PROVE RootInv'
<1>1. /\ store' = [store EXCEPT ![a] = store[a] \cap Roots(a)]
      /\ UNCHANGED <<temp, installed, gcLink, job>>
  BY DEF CollectGarbage
<1>2. store'[a] = store[a] \cap Roots(a) /\ \A b \in App : b # a => store'[b] = store[b]
  BY <1>1 DEF Types, HostType
<1>3. InstalledOK'
  BY <1>1, <1>2, Names DEF InstalledOK, RootInv, Roots
<1>4. BuildsOK'
  <2> SUFFICES ASSUME NEW b \in App, NEW s \in Second, temp[b][s] # NoDir
               PROVE  temp[b][s].build \in store'[b] \cup {NoVersion}
    BY <1>1 DEF BuildsOK
  <2>1. temp[b][s].build \in store[b] \cup {NoVersion}
    BY DEF BuildsOK, RootInv
  <2>2. temp[b][s].build \in Roots(b)
    BY DEF Roots
  <2> QED BY <1>2, <2>1, <2>2
<1>5. VersionsOK' /\ RunsOK' /\ OneLinked'
  BY <1>1 DEF RootInv, VersionsOK, RunsOK, RunOK, OneLinked, AppOf, HasTemp, Temp
<1> QED BY <1>3, <1>4, <1>5 DEF RootInv

LEMMA RootStart == ASSUME Types, RootInv, NEW c \in Command, SshLocalInstall(c) PROVE RootInv'
<1> DEFINE j == JobOf(c)
<1>1. Install(j, Target(c), cmd[c].staging) /\ j \in Job
  BY CmdFields DEF SshLocalInstall, Types
<1>2. job'[j].at = "start" /\ \A k \in Job : k # j => job'[k] = job[k]
  <2>1. Target(c) \in App /\ cmd[c].staging \in Second /\ Target(c) = Args[j[1]][j[2]][1]
    BY CmdFields DEF Types
  <2>2. job'[j] = [at |-> "start", app |-> Target(c), staging |-> cmd[c].staging, made |-> 0,
                   version |-> NoVersion]
        /\ \A k \in Job : k # j => job'[k] = job[k]
    BY <1>1, <2>1, Started DEF Types
  <2> QED BY <2>2
<1>3. UNCHANGED <<temp, installed, gcLink, store>>
  BY <1>1 DEF Install, host
<1> HIDE DEF j
<1>4. VersionsOK'
  BY <1>2 DEF VersionsOK, RootInv, Going, Valid
<1>5. InstalledOK' /\ BuildsOK'
  BY <1>3 DEF InstalledOK, BuildsOK, RootInv
<1>6. RunsOK'
  <2> SUFFICES ASSUME NEW k \in Job PROVE RunOK(k)'
    BY DEF RunsOK
  <2>1. RunOK(k)
    BY DEF RootInv, RunsOK
  <2>2. CASE k = j
    BY <1>2, <2>2 DEF RunOK, Going, Linked
  <2>3. CASE k # j
    BY <1>2, <1>3, <2>1, <2>3 DEF RunOK, AppOf, Temp, HasTemp, Valid
  <2> QED BY <2>2, <2>3
<1>7. OneLinked'
  BY <1>2 DEF OneLinked, RootInv, Linked, AppOf
<1> QED BY <1>4, <1>5, <1>6, <1>7 DEF RootInv

LEMMA RootNext == ASSUME Types, RootInv, [Next]_vars PROVE RootInv'
<1>1. CASE UNCHANGED <<temp, installed, gcLink, store, job>>
  BY <1>1 DEF RootInv, VersionsOK, InstalledOK, BuildsOK, RunsOK, RunOK, OneLinked, AppOf,
              HasTemp, Temp
<1> QED BY <1>1, Kinds, RootQuiet, RootResolve, RootFetch, RootBuild, RootLink, RootSetup,
           RootBackup, RootRename, RootCollect, RootStart

\* On a host with gcroots the collector never takes the build of an installed application: the
\* run that installs it has made the link before, as only one run of an application ever gets
\* that far, and before that what is being built is kept by the link of nix-build
\* (createNixGcroot, runNixBuild).
THEOREM InstalledIsRooted == Spec => []Rooted
<1>1. Types /\ RootInv /\ [Next]_vars => RootInv'
  BY RootNext
<1>2. RootInv => Rooted
  BY DEF RootInv, InstalledOK, Rooted
<1> QED BY <1>1, <1>2, TypesAlways, RootInit, PTL DEF Spec
-----------------------------------------------------------------------------
(* Runs that nothing has hurt *)

\* What is staged for a run is a version.
StagedOK ==
    /\ \A c \in Command : cmd[c].at = "copy" => Valid(local[Target(c)][cmd[c].staging])
    /\ \A c \in Command : cmd[c].at = "ssh" => Valid(staged[Target(c)][cmd[c].staging])
    /\ \A j \in Job : job[j].at # "off" => Valid(Copied(j))

\* A step of a run is one of its application only.
RunStep(j) == Step(j) \/ CallFails(j)

LEMMA RunMoves ==
    ASSUME Types, NEW j \in Job, RunStep(j)
    PROVE  /\ job[j].at \notin Ended /\ job'[j].at # "off" /\ AppOf(j) \in App
           /\ AppOf(j)' = AppOf(j) /\ job'[j].staging = job[j].staging
           /\ \A k \in Job : k # j => job'[k] = job[k]
           /\ \A b \in App : b # AppOf(j) => /\ temp'[b] = temp[b] /\ backups'[b] = backups[b]
                                             /\ installed'[b] = installed[b]
                                             /\ repoProps'[b] = repoProps[b]
           /\ gcLink \subseteq gcLink' /\ hurt \subseteq hurt' /\ UNCHANGED <<now, staged>>
           /\ repoProps'[AppOf(j)] # repoProps[AppOf(j)] =>
                  repoProps[AppOf(j)] = "none" \/ job[j].at = "create"
           /\ job'[j].at = "create" => repoProps[AppOf(j)] = "none"
<1> DEFINE a == AppOf(j)
           Frame == /\ \A b \in App : b # a => /\ temp'[b] = temp[b] /\ backups'[b] = backups[b]
                                               /\ installed'[b] = installed[b]
                                               /\ repoProps'[b] = repoProps[b]
                    /\ gcLink \subseteq gcLink' /\ hurt \subseteq hurt' /\ UNCHANGED <<now, staged>>
                    /\ repoProps'[a] # repoProps[a] => repoProps[a] = "none" \/ job[j].at = "create"
<1>1. job[j].at \notin Ended
  BY DEF RunStep, Step, ResolveDirectories, CreateRepoDotProps, FillRepoDotProps,
         ReadRepoDotProps, FetchBuildDescription, RunNixBuild, CreateNixGcroot,
         SetupInstallDir, BackupInstallDir, RenameTempInstallDir, CannotGoOn, CallFails,
         Goes, Ended
<1>2. a \in App /\ job[j].made \in Second /\ now \in Second
  BY <1>1, AppType DEF Ended, Types, HostType
<1>3. /\ job'[j].at # "off" /\ AppOf(j)' = a /\ job'[j].staging = job[j].staging
      /\ \A k \in Job : k # j => job'[k] = job[k]
      /\ job'[j].at = "create" => repoProps[a] = "none"
  <2>1. CASE ResolveDirectories(j)
    BY <2>1, Resolved DEF AppOf
  <2>2. CASE \E n \in Steps : Go(j, n) /\ n # "off" /\ (n = "create" => repoProps[a] = "none")
    BY <1>1, <2>2, GoOn DEF Types, Ended, AppOf
  <2> QED BY <2>1, <2>2 DEF RunStep, Step, CreateRepoDotProps, FillRepoDotProps,
             ReadRepoDotProps, FetchBuildDescription, RunNixBuild, CreateNixGcroot,
             SetupInstallDir, BackupInstallDir, RenameTempInstallDir, CannotGoOn, CallFails,
             Goes, Steps
<1>4. Frame
  <2> USE <1>2 DEF Types, HostType
  <2>1. CASE ResolveDirectories(j)
    BY <2>1 DEF ResolveDirectories
  <2>2. CASE CreateRepoDotProps(j)
    BY <2>2 DEF CreateRepoDotProps
  <2>3. CASE FillRepoDotProps(j)
    BY <2>3 DEF FillRepoDotProps, Goes
  <2>4. CASE ReadRepoDotProps(j) \/ CannotGoOn(j) \/ CallFails(j)
    BY <2>4 DEF ReadRepoDotProps, CannotGoOn, CallFails, host
  <2>5. CASE FetchBuildDescription(j) \/ RunNixBuild(j) \/ SetupInstallDir(j)
    BY <2>5 DEF FetchBuildDescription, RunNixBuild, SetupInstallDir, SetTemp
  <2>6. CASE CreateNixGcroot(j)
    BY <2>6 DEF CreateNixGcroot
  <2>7. CASE BackupInstallDir(j)
    BY <2>7 DEF BackupInstallDir
  <2>8. CASE RenameTempInstallDir(j)
    BY <2>8 DEF RenameTempInstallDir, SetTemp
  <2> QED BY <2>1, <2>2, <2>3, <2>4, <2>5, <2>6, <2>7, <2>8 DEF RunStep, Step
<1> QED BY <1>1, <1>2, <1>3, <1>4

\* The steps of a host.
LEMMA HostKinds ==
    ASSUME Types, Host
    PROVE  /\ UNCHANGED <<tree, cmd, loaded>>
           /\ \/ \E j \in Job : RunStep(j)
              \/ UNCHANGED <<staged, temp, installed, backups, gcLink, repoProps, job, hurt>>
<1>1. CASE \E a \in App : CollectGarbage(a)
  BY <1>1 DEF CollectGarbage, Host
<1>2. CASE Tick
  BY <1>2 DEF Tick, host, Host
<1>3. CASE \E j \in Job : RunStep(j)
  BY <1>3 DEF Host
<1> QED BY <1>1, <1>2, <1>3 DEF Host, RunStep

\* The steps of a command that do not start a run leave the host alone.
LEMMA CommandKinds ==
    ASSUME Types, NEW c \in Command, RunsCommand(c)
    PROVE  /\ SshLocalInstall(c) \/ UNCHANGED <<now, temp, installed, backups, gcLink, repoProps,
                                                job, hurt>>
           /\ CopyToHost(c) \/ UNCHANGED staged
           /\ StageApp(c) \/ UNCHANGED local
BY DEF RunsCommand, LoadRoot, StageApp, CopyToHost, SshLocalInstall, Install, InstallAnswers,
       CommandFails, TruncateRecord, WriteRecord, WriteFails, Commit, Kill, installVars, host,
       tree

\* A command that does not go on with the argument it stages: where it goes.
LEMMA CommandMoves ==
    ASSUME Types, NEW c \in Command, RunsCommand(c)
    PROVE  /\ \A d \in Command : d # c => cmd'[d] = cmd[d] /\ Target(d)' = Target(d)
           /\ cmd'[c].at = "copy" => StageApp(c) /\ Settled(c) # NoVersion
           /\ cmd'[c].at = "ssh" => CopyToHost(c)
           /\ cmd'[c].at = "install" => SshLocalInstall(c)
           /\ cmd'[c].at = "record" => InstallAnswers(c)
           /\ cmd'[c].at = "write" => TruncateRecord(c)
           /\ cmd'[c].at \in Deploys => cmd'[c].arg = cmd[c].arg /\ Target(c)' = Target(c)
<1> DEFINE Rest == /\ \A d \in Command : d # c => cmd'[d] = cmd[d]
                   /\ cmd'[c].at \in Deploys => cmd'[c].arg = cmd[c].arg
           Where == /\ cmd'[c].at = "copy" => StageApp(c) /\ Settled(c) # NoVersion
                    /\ cmd'[c].at = "ssh" => CopyToHost(c)
                    /\ cmd'[c].at = "install" => SshLocalInstall(c)
                    /\ cmd'[c].at = "record" => InstallAnswers(c)
                    /\ cmd'[c].at = "write" => TruncateRecord(c)
<1>1. ASSUME NEW f \in BOOLEAN, NextArg(c, f), cmd[c].at \in Loaded PROVE Rest /\ Where
  BY <1>1, CmdNext DEF Types, Deploys
<1>2. ASSUME NEW n \in CmdSteps, CmdGoes(c, n) PROVE Rest /\ cmd'[c].at = n
  BY <1>2, CmdOn DEF Types
<1>3. Rest /\ Where
  <2>1. CASE LoadRoot(c)
    <3>1. \E n \in {"hung", "stage", "failed"} : CmdGoes(c, n)
      BY <2>1 DEF LoadRoot
    <3> QED BY <1>2, <3>1 DEF CmdSteps
  <2>2. CASE StageApp(c)
    <3>1. CASE Settled(c) = NoVersion
      BY <1>1, <2>2, <3>1, Staged DEF StageApp, CmdAt, Loaded
    <3>2. CASE Settled(c) # NoVersion
      BY <2>2, <3>2, Staged
    <3> QED BY <3>1, <3>2
  <2>3. CASE CopyToHost(c)
    BY <1>2, <2>3 DEF CopyToHost, CmdSteps
  <2>4. CASE SshLocalInstall(c)
    BY <1>2, <2>4 DEF SshLocalInstall, CmdSteps
  <2>5. CASE InstallAnswers(c)
    <3>1. cmd[c].at = "install" /\ (CmdGoes(c, "record") \/ NextArg(c, TRUE))
      BY <2>5 DEF InstallAnswers, CmdAt
    <3> QED BY <1>1, <1>2, <2>5, <3>1 DEF CmdSteps, Loaded, Deploys
  <2>6. CASE CommandFails(c)
    BY <1>1, <2>6 DEF CommandFails, Loaded, Deploys
  <2>7. CASE TruncateRecord(c)
    BY <1>2, <2>7 DEF TruncateRecord, CmdSteps
  <2>8. CASE WriteRecord(c) \/ WriteFails(c)
    BY <1>1, <2>8 DEF WriteRecord, WriteFails, CmdAt, Loaded, Deploys
  <2>9. CASE Commit(c)
    <3>1. CmdGoes(c, "done") \/ CmdGoes(c, "failed")
      BY <2>9 DEF Commit
    <3> QED BY <1>2, <3>1 DEF CmdSteps
  <2>10. CASE Kill(c)
    BY <1>2, <2>10 DEF Kill, CmdSteps
  <2> QED BY <2>1, <2>2, <2>3, <2>4, <2>5, <2>6, <2>7, <2>8, <2>9, <2>10 DEF RunsCommand
<1>4. \A d \in Command : cmd'[d].arg = cmd[d].arg => Target(d)' = Target(d)
  BY DEF Target, Goal
<1> QED BY <1>3, <1>4

LEMMA StagedInit == Init => StagedOK
BY DEF Init, InstallInit, StagedOK

LEMMA CopiedType ==
    ASSUME Types, NEW c \in Command, CopyToHost(c)
    PROVE  /\ UNCHANGED <<job, local>>
           /\ staged'[Target(c)][cmd[c].staging] = local[Target(c)][cmd[c].staging]
           /\ \A a \in App, s \in Second :
                  a # Target(c) \/ s # cmd[c].staging => staged'[a][s] = staged[a][s]
           /\ cmd[c].at = "copy" /\ cmd'[c].at = "ssh" /\ cmd'[c].staging = cmd[c].staging
           /\ cmd'[c].version = cmd[c].version /\ cmd'[c].arg = cmd[c].arg
<1> DEFINE a == Target(c)
           s == cmd[c].staging
<1>1. a \in App /\ s \in Second
  BY CmdFields DEF Types
<1>2. /\ staged' = [staged EXCEPT ![a] = [staged[a] EXCEPT ![s] = local[a][s]]]
      /\ cmd[c].at = "copy" /\ CmdGoes(c, "ssh") /\ UNCHANGED <<job, local>>
  BY DEF CopyToHost, CmdAt, tree
<1> HIDE DEF a, s
<1>3. /\ staged'[a][s] = local[a][s]
      /\ \A b \in App, t \in Second : b # a \/ t # s => staged'[b][t] = staged[b][t]
  BY <1>1, <1>2 DEF Types, TreeType
<1>4. /\ cmd'[c].at = "ssh" /\ cmd'[c].staging = s
      /\ cmd'[c].version = cmd[c].version /\ cmd'[c].arg = cmd[c].arg
  BY <1>2, CmdOn DEF Types, CmdSteps, s
<1> QED BY <1>2, <1>3, <1>4 DEF a, s

\* The run that a command starts.
LEMMA Starts ==
    ASSUME Types, NEW c \in Command, SshLocalInstall(c)
    PROVE  LET j == JobOf(c)
           IN  /\ j \in Job /\ job[j].at = "off" /\ Target(c) \in App
               /\ job'[j].at = "start" /\ job'[j].app = Target(c) /\ job'[j].made = 0
               /\ job'[j].staging = cmd[c].staging
               /\ \A k \in Job : k # j => job'[k] = job[k]
               /\ cmd[c].at = "ssh" /\ cmd'[c].at = "install" /\ cmd'[c].staging = cmd[c].staging
               /\ cmd'[c].version = cmd[c].version /\ cmd'[c].arg = cmd[c].arg
               /\ hurt' = IF Active(Target(c)) = {} THEN hurt
                          ELSE hurt \cup Active(Target(c)) \cup {j}
               /\ UNCHANGED <<now, host, tree, loaded, muddled>>
<1> DEFINE j == JobOf(c)
           a == Target(c)
           s == cmd[c].staging
<1>1. j \in Job /\ a \in App /\ s \in Second /\ a = Args[j[1]][j[2]][1]
  BY CmdFields DEF Types
<1>2. Install(j, a, s) /\ cmd[c].at = "ssh" /\ CmdGoes(c, "install")
      /\ UNCHANGED <<tree, loaded, muddled>>
  BY DEF SshLocalInstall, CmdAt
<1>3. /\ cmd'[c].at = "install" /\ cmd'[c].staging = s
      /\ cmd'[c].version = cmd[c].version /\ cmd'[c].arg = cmd[c].arg
  BY <1>2, CmdOn DEF Types, CmdSteps
<1>4. /\ hurt' = IF Active(a) = {} THEN hurt ELSE hurt \cup Active(a) \cup {j}
      /\ UNCHANGED <<now, host>>
  BY <1>2 DEF Install
<1>5. /\ job[j].at = "off"
      /\ job'[j] = [at |-> "start", app |-> a, staging |-> s, made |-> 0, version |-> NoVersion]
      /\ \A k \in Job : k # j => job'[k] = job[k]
  <2> HIDE DEF j, a, s
  <2> QED BY <1>1, <1>2, Started DEF Types
<1>6. job'[j].at = "start" /\ job'[j].app = a /\ job'[j].made = 0 /\ job'[j].staging = s
  BY <1>5
<1> QED BY <1>1, <1>2, <1>3, <1>4, <1>5, <1>6

LEMMA StagedNext == ASSUME Types, StagedOK, [Next]_vars PROVE StagedOK'
<1>1. CASE Host
  <2>1. UNCHANGED <<cmd, local, staged>>
    BY <1>1, HostKinds, RunMoves DEF tree
  <2>2. ASSUME NEW k \in Job, job'[k].at # "off" PROVE Valid(Copied(k)')
    <3>1. CASE \E j \in Job : RunStep(j)
      BY <2>1, <2>2, <3>1, RunMoves DEF StagedOK, Copied, AppOf, Ended
    <3>2. CASE UNCHANGED job
      BY <2>1, <2>2, <3>2 DEF StagedOK, Copied, AppOf
    <3> QED BY <1>1, <3>1, <3>2, HostKinds
  <2>3. \A c \in Command : Target(c)' = Target(c)
    BY <2>1 DEF Target, Goal
  <2> QED BY <2>1, <2>2, <2>3 DEF StagedOK, Valid
<1>2. CASE \E c \in Command : RunsCommand(c)
  <2>1. PICK c \in Command : RunsCommand(c)
    BY <1>2
  <2>2. ASSUME NEW d \in Command, cmd'[d].at = "copy"
        PROVE  Valid(local'[Target(d)'][cmd'[d].staging])
    <3>1. CASE StageApp(c) /\ Settled(c) # NoVersion
      <4>1. /\ cmd'[c].staging = now /\ cmd'[c].at = "copy" /\ now \in Second
            /\ local'[Target(c)][now] = Settled(c)
            /\ \A a \in App, s \in Second :
                   a # Target(c) \/ s # now => local'[a][s] = local[a][s]
        BY <3>1, Staged DEF Types, HostType
      <4>2. CASE d = c
        BY <2>1, <3>1, <4>1, <4>2, CommandMoves DEF Valid, Deploys
      <4>3. CASE d # c
        <5>1. cmd'[d] = cmd[d] /\ Target(d)' = Target(d) /\ Target(d) \in App
              /\ cmd[d].staging \in Second
          BY <2>1, <4>3, CommandMoves, CmdFields DEF Types
        <5>2. Valid(local[Target(d)][cmd[d].staging])
          BY <2>2, <5>1 DEF StagedOK
        <5> QED BY <3>1, <4>1, <5>1, <5>2 DEF Valid
      <4> QED BY <4>2, <4>3
    <3>2. CASE ~(StageApp(c) /\ Settled(c) # NoVersion)
      <4>1. d # c /\ UNCHANGED local
        BY <2>1, <2>2, <3>2, CommandMoves, CommandKinds, Staged
      <4>2. cmd'[d] = cmd[d] /\ Target(d)' = Target(d)
        BY <2>1, <4>1, CommandMoves
      <4> QED BY <2>2, <4>1, <4>2 DEF StagedOK
    <3> QED BY <3>1, <3>2
  <2>3. CASE CopyToHost(c)
    <3>1. /\ UNCHANGED <<job, local>>
          /\ staged'[Target(c)][cmd[c].staging] = local[Target(c)][cmd[c].staging]
          /\ \A a \in App, s \in Second :
                 a # Target(c) \/ s # cmd[c].staging => staged'[a][s] = staged[a][s]
          /\ cmd[c].at = "copy" /\ cmd'[c].at = "ssh" /\ cmd'[c].staging = cmd[c].staging
      BY <2>3, CopiedType
    <3>2. Valid(local[Target(c)][cmd[c].staging])
      BY <3>1 DEF StagedOK
    <3>3. \A a \in App, s \in Second : Valid(staged[a][s]) => Valid(staged'[a][s])
      BY <3>1, <3>2
    <3>4. ASSUME NEW d \in Command, cmd'[d].at = "ssh"
          PROVE  Valid(staged'[Target(d)'][cmd'[d].staging])
      <4>1. CASE d = c
        BY <2>1, <3>1, <3>2, <4>1, CommandMoves DEF Deploys
      <4>2. CASE d # c
        <5>1. cmd'[d] = cmd[d] /\ Target(d)' = Target(d) /\ Target(d) \in App
              /\ cmd[d].staging \in Second
          BY <2>1, <4>2, CommandMoves, CmdFields DEF Types
        <5> QED BY <3>3, <3>4, <5>1 DEF StagedOK
      <4> QED BY <4>1, <4>2
    <3>5. ASSUME NEW k \in Job, job'[k].at # "off" PROVE Valid(Copied(k)')
      <4>1. job'[k] = job[k] /\ Valid(Copied(k)) /\ AppOf(k) \in App /\ job[k].staging \in Second
        BY <3>1, <3>5, AppType DEF StagedOK, Types
      <4> QED BY <3>3, <4>1 DEF Copied, AppOf
    <3> QED BY <2>2, <3>4, <3>5 DEF StagedOK, Valid
  <2>4. CASE ~CopyToHost(c)
    <3>1. UNCHANGED staged
      BY <2>1, <2>4, CommandKinds
    <3>2. ASSUME NEW d \in Command, cmd'[d].at = "ssh"
          PROVE  Valid(staged'[Target(d)'][cmd'[d].staging])
      <4>1. d # c
        BY <2>1, <2>4, <3>2, CommandMoves
      <4> QED BY <2>1, <3>1, <3>2, <4>1, CommandMoves DEF StagedOK
    <3>3. ASSUME NEW k \in Job, job'[k].at # "off" PROVE Valid(Copied(k)')
      <4>1. CASE SshLocalInstall(c) /\ k = JobOf(c)
        <5>1. AppOf(k)' = Target(c) /\ job'[k].staging = cmd[c].staging /\ cmd[c].at = "ssh"
          BY <4>1, Starts DEF AppOf
        <5>2. Valid(staged[Target(c)][cmd[c].staging])
          BY <5>1 DEF StagedOK
        <5>3. Copied(k)' = staged[Target(c)][cmd[c].staging]
          BY <3>1, <5>1 DEF Copied
        <5> QED BY <5>2, <5>3
      <4>2. CASE ~(SshLocalInstall(c) /\ k = JobOf(c))
        <5>1. job'[k] = job[k]
          BY <2>1, <4>2, Starts, CommandKinds
        <5> QED BY <3>1, <3>3, <5>1 DEF StagedOK, Copied, AppOf
      <4> QED BY <4>1, <4>2
    <3> QED BY <2>2, <3>2, <3>3 DEF StagedOK, Valid
  <2> QED BY <2>3, <2>4
<1>3. CASE UNCHANGED vars
  BY <1>3 DEF vars, installVars, host, deployVars, tree, StagedOK, Copied, AppOf, Target, Goal
<1> QED BY <1>1, <1>2, <1>3 DEF Next

\* No backup and no run is of a later second.
ClockOK ==
    /\ \A a \in App, s \in Second : s > now => backups[a][s] = NoDir
    /\ \A j \in Job : job[j].made <= now

\* A run that nothing has hurt is alone with its application as long as it goes on, and finds
\* all the names free that it needs; if it has failed, what made it fail is there to stay.
UnhurtOK(j) ==
    LET a == AppOf(j)  here == job[j].at
    IN  /\ here \notin Ended => \A k \in Job : AppOf(k) = a /\ job[k].at \notin Ended => k = j
        /\ here \in Going => HasTemp(j)
        /\ here \in Going \ {"backup", "rename"} => LinksFree(j)
        /\ here \in Going \ {"rename"} =>
               \A s \in Second : s >= job[j].made => backups[a][s] = NoDir
        /\ here = "rename" => installed[a] = NoDir
        /\ here = "failed" =>
               \/ a \in gcLink
               \/ repoProps[a] = "empty" /\ \A k \in Job : AppOf(k) = a => job[k].at # "create"

CauseInv == ClockOK /\ \A j \in Job \ hurt : UnhurtOK(j)

LEMMA CauseInit == Init => CauseInv
<1> SUFFICES ASSUME Init PROVE CauseInv
  OBVIOUS
<1>1. ClockOK
  BY DEF Init, InstallInit, ClockOK
<1>2. \A j \in Job : UnhurtOK(j)
  BY DEF Init, InstallInit, UnhurtOK, Ended, Going
<1> QED BY <1>1, <1>2 DEF CauseInv

LEMMA ClockSame ==
    ASSUME ClockOK, UNCHANGED <<now, backups, job>> PROVE ClockOK'
BY DEF ClockOK

LEMMA ClockRun == ASSUME Types, ClockOK, NEW j \in Job, RunStep(j) PROVE ClockOK'
<1>1. now' = now /\ AppOf(j) \in App /\ now \in Second /\ now \in Nat /\ Second \subseteq Nat
  BY RunMoves DEF Types, HostType, Second
<1>2. \A a \in App, s \in Second : s > now => backups'[a][s] = NoDir
  <2>1. CASE BackupInstallDir(j)
    <3>1. \A a \in App, s \in Second : a # AppOf(j) \/ s # now => backups'[a][s] = backups[a][s]
      BY <2>1, BackedUp
    <3> QED BY <1>1, <3>1 DEF ClockOK
  <2>2. CASE ~BackupInstallDir(j)
    <3>1. backups' = backups
      BY <2>2 DEF RunStep, Step, ResolveDirectories, CreateRepoDotProps, FillRepoDotProps,
                  ReadRepoDotProps, FetchBuildDescription, RunNixBuild, CreateNixGcroot,
                  SetupInstallDir, RenameTempInstallDir, CannotGoOn, CallFails, host
    <3> QED BY <3>1 DEF ClockOK
  <2> QED BY <2>1, <2>2
<1>3. \A k \in Job : job'[k].made <= now
  <2>1. CASE ResolveDirectories(j)
    BY <1>1, <2>1, Resolved DEF ClockOK
  <2>2. CASE \E n \in Steps : Go(j, n)
    <3>1. \A k \in Job : job'[k].made = job[k].made
      BY <2>2, GoOn, RunMoves DEF Types, Ended
    <3> QED BY <3>1 DEF ClockOK
  <2> QED BY <2>1, <2>2 DEF RunStep, Step, CreateRepoDotProps, FillRepoDotProps,
             ReadRepoDotProps, FetchBuildDescription, RunNixBuild, CreateNixGcroot,
             SetupInstallDir, BackupInstallDir, RenameTempInstallDir, CannotGoOn, CallFails,
             Goes, Steps
<1> QED BY <1>1, <1>2, <1>3 DEF ClockOK

\* A run does nothing to another that is not hurt.
LEMMA OthersKeep ==
    ASSUME Types, CauseInv, NEW j \in Job, RunStep(j), NEW k \in Job, k # j, k \notin hurt
    PROVE  UnhurtOK(k)'
<1>1. UnhurtOK(k)
  BY DEF CauseInv
<1>2. /\ job[j].at \notin Ended /\ AppOf(j) \in App
      /\ AppOf(j)' = AppOf(j)
      /\ \A i \in Job : i # j => job'[i] = job[i] /\ AppOf(i)' = AppOf(i)
      /\ \A b \in App : b # AppOf(j) => /\ temp'[b] = temp[b] /\ backups'[b] = backups[b]
                                        /\ installed'[b] = installed[b]
                                        /\ repoProps'[b] = repoProps[b]
      /\ gcLink \subseteq gcLink'
      /\ repoProps'[AppOf(j)] # repoProps[AppOf(j)] =>
             repoProps[AppOf(j)] = "none" \/ job[j].at = "create"
      /\ job'[j].at = "create" => repoProps[AppOf(j)] = "none"
  BY RunMoves DEF AppOf
<1>3. job'[k] = job[k] /\ AppOf(k)' = AppOf(k)
  BY <1>2
<1>4. CASE job[k].at = "off" \/ job[k].at = "done"
  BY <1>3, <1>4 DEF UnhurtOK, Ended, Going
<1>5. CASE AppOf(k) = AppOf(j) /\ job[k].at \notin {"off", "done"}
  <2>1. job[k].at = "failed"
    BY <1>1, <1>2, <1>5 DEF UnhurtOK, Ended
  <2> QED BY <1>1, <1>2, <1>3, <1>5, <2>1 DEF UnhurtOK, Ended, Going
<1>6. CASE AppOf(k) # AppOf(j) /\ job[k].at \notin {"off", "done"}
  <2>1. AppOf(k) \in App
    BY <1>6, AppType DEF Types
  <2>2. /\ temp'[AppOf(k)] = temp[AppOf(k)] /\ backups'[AppOf(k)] = backups[AppOf(k)]
        /\ installed'[AppOf(k)] = installed[AppOf(k)]
        /\ repoProps'[AppOf(k)] = repoProps[AppOf(k)]
    BY <1>2, <1>6, <2>1
  <2>3. Temp(k)' = Temp(k)
    BY <1>3, <2>2 DEF Temp
  <2>4. HasTemp(k)' = HasTemp(k) /\ LinksFree(k)' = LinksFree(k)
    BY <2>3 DEF HasTemp, LinksFree
  <2>5. \A i \in Job : AppOf(i)' = AppOf(k) => i # j /\ AppOf(i) = AppOf(k) /\ job'[i] = job[i]
    BY <1>2, <1>6
  <2> QED BY <1>1, <1>2, <1>3, <2>2, <2>4, <2>5 DEF UnhurtOK
<1> QED BY <1>4, <1>5, <1>6

\* A run that is not hurt stays alone.
LEMMA StaysAlone ==
    ASSUME Types, CauseInv, NEW j \in Job, j \notin hurt, RunStep(j)
    PROVE  \A k \in Job : AppOf(k)' = AppOf(j) /\ job'[k].at \notin Ended => k = j
<1>1. /\ job[j].at \notin Ended /\ \A i \in Job : i # j => job'[i] = job[i]
  BY RunMoves
<1>2. UnhurtOK(j)
  BY DEF CauseInv
<1> QED BY <1>1, <1>2 DEF UnhurtOK, AppOf

\* It finds what it needs, except for the two causes of a failure that stay.
LEMMA UnhurtGoesOn ==
    ASSUME Types, StagedOK, CauseInv, NEW j \in Job, Step(j), j \notin hurt'
    PROVE  UnhurtOK(j)'
<1> DEFINE a == AppOf(j)
           m == job[j].made
<1>1. /\ job[j].at \notin Ended /\ a \in App /\ AppOf(j)' = a /\ j \notin hurt /\ now' = now
      /\ gcLink \subseteq gcLink'
  BY RunMoves DEF RunStep
<1>2. UnhurtOK(j) /\ ClockOK
  BY <1>1 DEF CauseInv
<1>3. \A k \in Job : AppOf(k)' = a /\ job'[k].at \notin Ended => k = j
  BY <1>1, StaysAlone DEF RunStep
<1>4. m \in Second /\ now \in Second /\ now \in Nat /\ Second \subseteq Nat
  BY <1>1, AppType DEF Types, Ended, HostType, Second
\* A move that leaves the directories alone.
<1>5. ASSUME NEW n \in {"create", "fetch", "setup"}, Go(j, n), UNCHANGED <<temp, backups>>,
             job[j].at \in Going \ {"backup", "rename"}
      PROVE  UnhurtOK(j)'
  <2>1. /\ job'[j].at = n /\ job'[j].made = m /\ Temp(j)' = Temp(j) /\ HasTemp(j)' = HasTemp(j)
    BY <1>1, <1>5, Moves DEF Ended, Steps, Temp, HasTemp
  <2>2. LinksFree(j)' = LinksFree(j)
    BY <2>1 DEF LinksFree
  <2> QED BY <1>1, <1>2, <1>3, <1>5, <2>1, <2>2 DEF UnhurtOK, Going
\* One that writes into the directory.
<1>6. ASSUME NEW n \in {"build", "root", "backup"}, Go(j, n), NEW d \in Dir, SetTemp(j, d),
             UNCHANGED backups, n # "backup" => d.spec = Temp(j).spec,
             job[j].at \in Going \ {"backup", "rename"}
      PROVE  UnhurtOK(j)'
  <2>1. temp'[a][m] = d /\ d # NoDir
    <3>1. d \in DirOrNone /\ d # NoDir
      BY Names DEF DirOrNone
    <3> QED BY <1>1, <1>6, <3>1, Built DEF Types, Ended
  <2>2. /\ job'[j].at = n /\ job'[j].made = m /\ Temp(j)' = d /\ HasTemp(j)'
    BY <1>1, <1>6, <2>1, Moves DEF Ended, Steps
  <2>3. n # "backup" => LinksFree(j)'
    BY <1>2, <1>6, <2>2 DEF UnhurtOK, LinksFree
  <2> QED BY <1>1, <1>2, <1>3, <1>6, <2>2, <2>3 DEF UnhurtOK, Going
\* A failure.
<1>7. ASSUME Go(j, "failed"), a \in gcLink \/ repoProps'[a] = "empty"
      PROVE  UnhurtOK(j)'
  <2>1. job'[j].at = "failed"
    BY <1>1, <1>7, Moves DEF Ended, Steps
  <2>2. \A k \in Job : AppOf(k)' = a => job'[k].at # "create"
    BY <1>3, <2>1 DEF Ended
  <2> QED BY <1>1, <1>7, <2>1, <2>2 DEF UnhurtOK, Going, Ended
<1>8. CASE ResolveDirectories(j)
  <2>1. /\ job'[j].at = "props" /\ job'[j].made = now
        /\ temp'[a][now] = IF temp[a][now] = NoDir THEN NewDir(now) ELSE temp[a][now]
        /\ hurt' = IF {temp[a][now], backups[a][now]} = {NoDir} THEN hurt ELSE hurt \cup {j}
    BY <1>8, Resolved
  <2>2. temp[a][now] = NoDir /\ backups[a][now] = NoDir
    BY <2>1
  <2>3. Temp(j)' = NewDir(now)
    BY <1>1, <2>1, <2>2 DEF Temp
  <2>4. NewDir(now) # NoDir /\ NewDir(now).spec = NoVersion
    <3>1. NewDir(now) \in Dir
      BY <1>4, Dirs
    <3> QED BY <3>1, Names DEF NewDir
  <2>5. HasTemp(j)' /\ LinksFree(j)'
    BY <2>3, <2>4 DEF HasTemp, LinksFree
  <2>6. backups' = backups
    BY <1>8 DEF ResolveDirectories
  <2>7. \A s \in Second : s >= now => backups'[a][s] = NoDir
    BY <1>1, <1>2, <1>4, <2>2, <2>6 DEF ClockOK
  <2> QED BY <1>1, <1>3, <2>1, <2>5, <2>7 DEF UnhurtOK
<1>9. CASE CreateRepoDotProps(j)
  BY <1>5, <1>9 DEF CreateRepoDotProps, Goes, Going
<1>10. CASE FillRepoDotProps(j)
  BY <1>5, <1>10 DEF FillRepoDotProps, Goes, Going
<1>11. CASE ReadRepoDotProps(j)
  <2>1. /\ job[j].at = "props" /\ repoProps[a] # "none" /\ UNCHANGED <<temp, backups, repoProps>>
        /\ Go(j, IF HasUrl(a) THEN "fetch" ELSE "failed")
    BY <1>11 DEF ReadRepoDotProps, host
  <2>2. CASE HasUrl(a)
    BY <1>5, <2>1, <2>2 DEF Going
  <2>3. CASE ~HasUrl(a)
    <3>1. repoProps[a] = "empty"
      BY <1>1, <2>1, <2>3 DEF HasUrl, Types, HostType
    <3> QED BY <1>7, <2>1, <2>3, <3>1
  <2> QED BY <2>2, <2>3
<1>12. CASE FetchBuildDescription(j)
  <2> DEFINE t == Temp(j)
             d == [t EXCEPT !.files = job[j].version]
  <2>1. /\ job[j].at = "fetch" /\ Go(j, "build") /\ HasTemp(j) /\ SetTemp(j, d)
        /\ UNCHANGED backups
    BY <1>12 DEF FetchBuildDescription, Goes
  <2>2. t \in Dir /\ job[j].version \in VersionOrNone
    BY <2>1, TempType, AppType DEF Types
  <2>3. d \in Dir
    BY <2>2, Dirs
  <2>4. d.spec = t.spec
    <3> HIDE DEF t
    <3> QED BY <2>2 DEF Dir
  <2> HIDE DEF d
  <2> QED BY <1>6, <2>1, <2>3, <2>4 DEF Going
<1>13. CASE RunNixBuild(j)
  <2> DEFINE t == Temp(j)
             d == [t EXCEPT !.build = t.files]
  <2>1. /\ job[j].at = "build" /\ Go(j, "root") /\ HasTemp(j) /\ SetTemp(j, d)
        /\ UNCHANGED backups
    BY <1>13 DEF RunNixBuild, Goes
  <2>2. t \in Dir /\ t.files \in VersionOrNone
    <3>1. t \in Dir
      BY <2>1, TempType DEF Types
    <3> QED BY <3>1, Dirs
  <2>3. d \in Dir
    BY <2>2, Dirs
  <2>4. d.spec = t.spec
    <3> HIDE DEF t
    <3> QED BY <2>2 DEF Dir
  <2> HIDE DEF d
  <2> QED BY <1>6, <2>1, <2>3, <2>4 DEF Going
<1>14. CASE CreateNixGcroot(j)
  <2>1. /\ job[j].at = "root" /\ UNCHANGED <<temp, backups>>
        /\ Go(j, IF a \in gcLink THEN "failed" ELSE "setup")
    BY <1>14 DEF CreateNixGcroot, Goes
  <2> QED BY <1>5, <1>7, <2>1 DEF Going
<1>15. CASE SetupInstallDir(j)
  <2> DEFINE t == Temp(j)
             d == [t EXCEPT !.spec = Copied(j)]
  <2>1. /\ job[j].at = "setup" /\ Go(j, "backup") /\ HasTemp(j) /\ SetTemp(j, d)
        /\ UNCHANGED backups
    BY <1>15 DEF SetupInstallDir, Goes
  <2>2. t \in Dir /\ Copied(j) \in VersionOrNone
    <3>1. job[j].staging \in Second
      BY AppType DEF Types
    <3> QED BY <1>1, <2>1, <3>1, TempType DEF Types, TreeType, Copied
  <2>3. d \in Dir
    BY <2>2, Dirs
  <2> HIDE DEF d
  <2> QED BY <1>6, <2>1, <2>3 DEF Going
<1>16. CASE BackupInstallDir(j)
  <2>1. job[j].at = "backup" /\ Go(j, "rename") /\ UNCHANGED temp /\ installed'[a] = NoDir
    BY <1>16, BackedUp DEF BackupInstallDir, Goes
  <2>2. job'[j].at = "rename" /\ HasTemp(j)' = HasTemp(j)
    BY <2>1, Moves DEF Steps, HasTemp, Temp
  <2> QED BY <1>1, <1>2, <1>3, <2>1, <2>2 DEF UnhurtOK, Going
<1>17. CASE RenameTempInstallDir(j)
  <2>1. job[j].at = "rename" /\ Go(j, "done")
    BY <1>17 DEF RenameTempInstallDir, Goes
  <2>2. job'[j].at = "done"
    BY <2>1, Moves DEF Steps
  <2> QED BY <2>2 DEF UnhurtOK, Going, Ended
<1>18. CASE CannotGoOn(j)
  <2>1. Valid(Copied(j)) /\ m <= now
    BY <1>1, <1>2 DEF StagedOK, Ended, ClockOK
  <2>2. job[j].at = "backup" => backups[a][now] = NoDir
    BY <1>2, <1>4, <2>1 DEF UnhurtOK, Going
  <2> QED BY <1>2, <1>18, <2>1, <2>2 DEF CannotGoOn, UnhurtOK, Going
<1> QED BY <1>8, <1>9, <1>10, <1>11, <1>12, <1>13, <1>14, <1>15, <1>16, <1>17, <1>18 DEF Step

LEMMA CauseRun == ASSUME Types, StagedOK, CauseInv, NEW j \in Job, RunStep(j) PROVE CauseInv'
<1>1. ClockOK'
  BY ClockRun DEF CauseInv
<1>2. ASSUME NEW k \in Job, k \notin hurt' PROVE UnhurtOK(k)'
  <2>1. hurt \subseteq hurt'
    BY RunMoves
  <2>2. CASE k # j
    BY <1>2, <2>1, <2>2, OthersKeep
  <2>3. CASE k = j
    <3>1. Step(j)
      BY <1>2, <2>3 DEF RunStep, CallFails
    <3> QED BY <1>2, <2>3, <3>1, UnhurtGoesOn
  <2> QED BY <2>2, <2>3
<1> QED BY <1>1, <1>2 DEF CauseInv

LEMMA CauseTick == ASSUME Types, CauseInv, Tick PROVE CauseInv'
<1>1. UNCHANGED <<backups, temp, installed, gcLink, repoProps, job, hurt>> /\ now' = now + 1
  BY DEF Tick, host
<1>2. now \in Nat /\ Second \subseteq Nat /\ \A j \in Job : job[j].made \in Nat
  BY AppType DEF Types, HostType, Second
<1>3. ClockOK'
  <2>1. ASSUME NEW a \in App, NEW s \in Second, s > now' PROVE backups[a][s] = NoDir
    <3>1. s > now
      BY <1>1, <1>2, <2>1
    <3> QED BY <3>1 DEF CauseInv, ClockOK
  <2>2. \A j \in Job : job[j].made <= now'
    BY <1>1, <1>2 DEF CauseInv, ClockOK
  <2> QED BY <1>1, <2>1, <2>2 DEF ClockOK
<1>4. \A j \in Job \ hurt : UnhurtOK(j)'
  BY <1>1 DEF CauseInv, UnhurtOK, AppOf, HasTemp, LinksFree, Temp
<1> QED BY <1>1, <1>3, <1>4 DEF CauseInv

LEMMA CauseSame ==
    ASSUME CauseInv, UNCHANGED <<now, backups, temp, installed, gcLink, repoProps, job, hurt>>
    PROVE  CauseInv'
<1>1. \A j \in Job \ hurt : UnhurtOK(j)'
  BY DEF CauseInv, UnhurtOK, AppOf, HasTemp, LinksFree, Temp
<1> QED BY <1>1, ClockSame DEF CauseInv

\* A new run is alone, or it and those that it meets are hurt.
LEMMA CauseStart ==
    ASSUME Types, CauseInv, NEW c \in Command, SshLocalInstall(c) PROVE CauseInv'
<1> DEFINE j == JobOf(c)
           a == Target(c)
<1>1. /\ j \in Job /\ job[j].at = "off" /\ a \in App
      /\ job'[j].at = "start" /\ job'[j].app = a /\ job'[j].made = 0
      /\ \A k \in Job : k # j => job'[k] = job[k]
      /\ hurt' = IF Active(a) = {} THEN hurt ELSE hurt \cup Active(a) \cup {j}
      /\ UNCHANGED <<now, backups, temp, installed, gcLink, repoProps>>
  BY Starts DEF host
<1> HIDE DEF j, a
<1>2. ClockOK'
  <2>1. 0 <= now
    BY DEF Types, HostType, Second
  <2> QED BY <1>1, <2>1 DEF CauseInv, ClockOK
<1>3. ASSUME NEW k \in Job, k \notin hurt' PROVE UnhurtOK(k)'
  <2>1. UnhurtOK(k)
    BY <1>1, <1>3 DEF CauseInv
  <2>2. CASE k = j
    <3>1. Active(a) = {}
      BY <1>1, <1>3, <2>2
    <3>2. \A i \in Job : job'[i].app = a /\ job'[i].at \notin Ended => i = j
      BY <1>1, <3>1 DEF Active
    <3>3. job'[k].at = "start" /\ job'[k].app = a
      BY <1>1, <2>2
    <3> QED BY <2>2, <3>2, <3>3 DEF UnhurtOK, AppOf, Going
  <2>3. CASE k # j
    <3>1. job'[k] = job[k] /\ AppOf(k)' = AppOf(k) /\ HasTemp(k)' = HasTemp(k)
          /\ LinksFree(k)' = LinksFree(k)
      BY <1>1, <2>3 DEF AppOf, HasTemp, LinksFree, Temp
    <3>2. AppOf(k) = a => job[k].at \in Ended
      BY <1>1, <1>3 DEF Active, AppOf
    <3>3. \A i \in Job : IF i = j THEN job'[i].app = a /\ job'[i].at = "start"
                         ELSE job'[i] = job[i]
      BY <1>1
    <3>4. job[k].at \notin Ended =>
              \A i \in Job : job'[i].app = AppOf(k) /\ job'[i].at \notin Ended => i = k
      BY <2>1, <3>2, <3>3 DEF UnhurtOK, AppOf
    <3>5. \A i \in Job : job'[i].app = AppOf(k) /\ job'[i].at = "create" =>
              AppOf(i) = AppOf(k) /\ job[i].at = "create"
      BY <3>3 DEF AppOf
    <3>6. \A i \in Job : AppOf(i)' = job'[i].app
      BY DEF AppOf
    <3> QED BY <1>1, <2>1, <3>1, <3>4, <3>5, <3>6 DEF UnhurtOK
  <2> QED BY <2>2, <2>3
<1> QED BY <1>2, <1>3 DEF CauseInv

LEMMA CauseNext == ASSUME Types, StagedOK, CauseInv, [Next]_vars PROVE CauseInv'
<1>1. CASE \E j \in Job : RunStep(j)
  BY <1>1, CauseRun
<1>2. CASE \E a \in App : CollectGarbage(a)
  BY <1>2, CauseSame DEF CollectGarbage
<1>3. CASE Tick
  BY <1>3, CauseTick
<1>4. CASE \E c \in Command : RunsCommand(c)
  BY <1>4, CauseStart, CauseSame, CommandKinds
<1>5. CASE UNCHANGED vars
  BY <1>5, CauseSame DEF vars, installVars, host
<1> QED BY <1>1, <1>2, <1>3, <1>4, <1>5 DEF Next, Host, RunStep

\* What a run that failed leaves behind makes no other one fail, except for a link in the
\* gcroots and a repo.properties that was created and not filled: a run that no fault and no
\* other run has met finds every name free that it needs (InstallJavaProcess).
THEOREM FailuresAreCaused == Spec => []FailureHasCause
<1>1. Types /\ StagedOK /\ [Next]_vars => StagedOK'
  BY StagedNext
<1>2. Types /\ StagedOK /\ CauseInv /\ [Next]_vars => CauseInv'
  BY CauseNext
<1>3. CauseInv => FailureHasCause
  BY DEF CauseInv, UnhurtOK, FailureHasCause
<1> QED BY <1>1, <1>2, <1>3, TypesAlways, StagedInit, CauseInit, PTL DEF Spec
-----------------------------------------------------------------------------
(* What the record tells *)

Deployed(a, v) == installed[a] # NoDir /\ installed[a].build = v /\ installed[a].spec = v
Matches(a) == record[a] # NoVersion => Deployed(a, record[a])

\* How far a run is that installs v.
RunPhase(j, v) ==
    LET a == AppOf(j)  here == job[j].at
    IN  /\ here # "off" /\ Copied(j) = v
        /\ here \in Going => job[j].version = v
        /\ here \notin {"rename", "done"} => Matches(a)
        /\ here = "build" => HasTemp(j) /\ Temp(j).files = v
        /\ here \in {"root", "setup"} => HasTemp(j) /\ Temp(j).build = v
        /\ here \in {"backup", "rename"} => HasTemp(j) /\ Temp(j).build = v /\ Temp(j).spec = v
        /\ here = "rename" => installed[a] = NoDir
        /\ here = "done" => Deployed(a, v)

\* How far a command is that deploys v with the run j.
Phase(c, a, j, v) ==
    /\ cmd[c].at = "copy" => local[a][cmd[c].staging] = v
    /\ cmd[c].at = "ssh" => staged[a][cmd[c].staging] = v
    /\ cmd[c].at \in {"copy", "ssh"} => Active(a) = {} /\ Matches(a)
    /\ cmd[c].at = "install" => Active(a) \subseteq {j} /\ AppOf(j) = a /\ RunPhase(j, v)
    /\ cmd[c].at \in {"record", "write"} => Active(a) = {} /\ Deployed(a, v)

\* An application that is not muddled: one command deploys it at a time, and no run goes on
\* without its command.
Tell(a) ==
    /\ \A c, d \in Deploying(a) : c = d
    /\ Deploying(a) = {} => Active(a) = {} /\ Matches(a)
    /\ \A c \in Deploying(a), j \in Job, v \in Version :
           j = JobOf(c) /\ v = cmd[c].version => Phase(c, a, j, v)

TellInv == \A a \in App \ muddled : Tell(a)

LEMMA DeployingIs ==
    \A a, c : c \in Deploying(a) <=> /\ c \in Command /\ cmd[c].at \in Deploys
                                             /\ Target(c) = a
BY DEF Deploying, Deploys, Target, Goal

LEMMA TellInit == Init => TellInv
<1> SUFFICES ASSUME Init, NEW a \in App PROVE Tell(a)
  BY DEF TellInv
<1>1. Deploying(a) = {} /\ Active(a) = {}
  BY DEF Init, InstallInit, Deploying, Active, Ended
<1>2. Matches(a)
  <2>1. Whole(First, 0) # NoDir
    BY Names, Dirs DEF VersionOrNone
  <2> QED BY <2>1 DEF Init, InstallInit, Matches, Deployed, Whole
<1> QED BY <1>1, <1>2 DEF Tell

\* Nothing that concerns an application has changed.
LEMMA TellSame ==
    ASSUME Types, NEW a \in App, Tell(a),
           installed'[a] = installed[a], temp'[a] = temp[a], staged'[a] = staged[a],
           local'[a] = local[a], record'[a] = record[a],
           \A c \in Command : c \in Deploying(a) \/ c \in Deploying(a)' => cmd'[c] = cmd[c],
           \A j \in Job : \/ job[j].at # "off" /\ job[j].app = a
                          \/ job'[j].at # "off" /\ job'[j].app = a
                          => job'[j] = job[j]
    PROVE  Tell(a)'
<1>1. Active(a)' = Active(a)
  BY DEF Active, Ended
<1>2. Matches(a)' = Matches(a) /\ \A v : Deployed(a, v)' = Deployed(a, v)
  BY DEF Matches, Deployed
<1>3. Deploying(a)' = Deploying(a)
  <2>1. \A c \in Command : c \in Deploying(a) \/ c \in Deploying(a)' =>
                               (c \in Deploying(a)' <=> c \in Deploying(a))
    BY DEF Deploying
  <2> QED BY <2>1 DEF Deploying
<1>4. ASSUME NEW c \in Deploying(a)', NEW j \in Job, NEW v \in Version, j = JobOf(c)',
             v = cmd'[c].version
      PROVE  Phase(c, a, j, v)'
  <2>1. c \in Deploying(a) /\ c \in Command /\ cmd'[c] = cmd[c]
    BY <1>3, <1>4 DEF Deploying
  <2>2. j = JobOf(c) /\ v = cmd[c].version
    BY <1>4, <2>1 DEF JobOf
  <2>3. Phase(c, a, j, v)
    BY <2>1, <2>2 DEF Tell
  <2>4. ASSUME AppOf(j) = a, RunPhase(j, v) PROVE AppOf(j)' = a /\ RunPhase(j, v)'
    <3>1. job'[j] = job[j]
      BY <2>4 DEF RunPhase, AppOf
    <3>2. AppOf(j)' = a /\ Copied(j)' = Copied(j) /\ Temp(j)' = Temp(j)
          /\ HasTemp(j)' = HasTemp(j)
      BY <2>4, <3>1 DEF AppOf, Copied, Temp, HasTemp
    <3> QED BY <1>2, <2>4, <3>1, <3>2 DEF RunPhase
  <2> QED BY <1>1, <1>2, <2>1, <2>3, <2>4 DEF Phase
<1> QED BY <1>1, <1>2, <1>3, <1>4 DEF Tell

\* A run takes a step of its installation.
LEMMA PhaseStep ==
    ASSUME Types, NEW j \in Job, NEW v \in Version, Step(j), RunPhase(j, v), record' = record
    PROVE  RunPhase(j, v)'
<1> DEFINE a == AppOf(j)
           m == job[j].made
<1>1. /\ job[j].at \notin Ended /\ a \in App /\ AppOf(j)' = a
      /\ job'[j].staging = job[j].staging /\ staged' = staged
  BY RunMoves DEF RunStep
<1>2. Copied(j)' = v
  BY <1>1 DEF Copied, RunPhase
<1>3. m \in Second /\ now \in Second
  BY AppType DEF Types, HostType
\* A move that leaves the directories alone.
<1>4. ASSUME NEW n \in {"create", "fetch", "setup", "failed"}, Go(j, n),
             UNCHANGED <<temp, installed>>, job[j].at \notin {"rename", "done"},
             n \in {"create", "fetch"} => job[j].at \in {"props", "create"},
             n = "setup" => job[j].at = "root"
      PROVE  RunPhase(j, v)'
  <2>1. /\ job'[j].at = n /\ job'[j].version = job[j].version
        /\ Temp(j)' = Temp(j) /\ HasTemp(j)' = HasTemp(j)
    BY <1>1, <1>4, Moves DEF Ended, Steps, Temp, HasTemp
  <2> QED BY <1>1, <1>2, <1>4, <2>1 DEF RunPhase, Going, Matches, Deployed
\* One that writes into the directory.
<1>5. ASSUME NEW n \in {"build", "root", "backup"}, Go(j, n), NEW d \in Dir, SetTemp(j, d),
             UNCHANGED installed, job[j].at \in Going \ {"rename"},
             n = "build" => d.files = v, n = "root" => d.build = v,
             n = "backup" => d.build = v /\ d.spec = v
      PROVE  RunPhase(j, v)'
  <2>1. temp'[a][m] = d /\ d # NoDir
    <3>1. d \in DirOrNone /\ d # NoDir
      BY Names DEF DirOrNone
    <3> QED BY <1>1, <1>5, <3>1, Built DEF Types, Ended
  <2>2. /\ job'[j].at = n /\ job'[j].version = job[j].version /\ Temp(j)' = d /\ HasTemp(j)'
    BY <1>1, <1>5, <2>1, Moves DEF Ended, Steps
  <2> QED BY <1>1, <1>2, <1>5, <2>2 DEF RunPhase, Going, Matches, Deployed
<1>6. CASE ResolveDirectories(j)
  <2>1. /\ job'[j].at = "props" /\ job'[j].version = v /\ job[j].at = "start"
        /\ installed' = installed
    BY <1>6, Resolved DEF ResolveDirectories, RunPhase
  <2> QED BY <1>1, <1>2, <2>1 DEF RunPhase, Going, Matches, Deployed
<1>7. CASE CreateRepoDotProps(j)
  BY <1>4, <1>7 DEF CreateRepoDotProps, Goes
<1>8. CASE FillRepoDotProps(j)
  BY <1>4, <1>8 DEF FillRepoDotProps, Goes
<1>9. CASE ReadRepoDotProps(j)
  BY <1>4, <1>9 DEF ReadRepoDotProps, host
<1>10. CASE FetchBuildDescription(j)
  <2> DEFINE t == Temp(j)
             d == [t EXCEPT !.files = job[j].version]
  <2>1. /\ job[j].at = "fetch" /\ Go(j, "build") /\ HasTemp(j) /\ SetTemp(j, d)
        /\ UNCHANGED installed
    BY <1>10 DEF FetchBuildDescription, Goes
  <2>2. t \in Dir /\ job[j].version \in VersionOrNone /\ job[j].version = v
    BY <2>1, TempType, AppType DEF Types, RunPhase, Going
  <2>3. d \in Dir
    BY <2>2, Dirs
  <2>4. d.files = v
    <3> HIDE DEF t
    <3> QED BY <2>2 DEF Dir
  <2> HIDE DEF d
  <2> QED BY <1>5, <2>1, <2>3, <2>4 DEF Going
<1>11. CASE RunNixBuild(j)
  <2> DEFINE t == Temp(j)
             d == [t EXCEPT !.build = t.files]
  <2>1. /\ job[j].at = "build" /\ Go(j, "root") /\ HasTemp(j) /\ SetTemp(j, d)
        /\ UNCHANGED installed
    BY <1>11 DEF RunNixBuild, Goes
  <2>2. t \in Dir /\ t.files = v
    BY <2>1, TempType DEF Types, RunPhase
  <2>3. d \in Dir
    <3>1. v \in VersionOrNone
      BY DEF VersionOrNone
    <3> QED BY <2>2, <3>1, Dirs
  <2>4. d.build = v
    <3> HIDE DEF t
    <3> QED BY <2>2 DEF Dir
  <2> HIDE DEF d
  <2> QED BY <1>5, <2>1, <2>3, <2>4 DEF Going
<1>12. CASE CreateNixGcroot(j)
  BY <1>4, <1>12 DEF CreateNixGcroot, Goes
<1>13. CASE SetupInstallDir(j)
  <2> DEFINE t == Temp(j)
             d == [t EXCEPT !.spec = Copied(j)]
  <2>1. /\ job[j].at = "setup" /\ Go(j, "backup") /\ HasTemp(j) /\ SetTemp(j, d)
        /\ UNCHANGED installed
    BY <1>13 DEF SetupInstallDir, Goes
  <2>2. t \in Dir /\ t.build = v /\ Copied(j) = v /\ v \in VersionOrNone
    BY <2>1, TempType DEF Types, RunPhase, VersionOrNone
  <2>3. d \in Dir
    BY <2>2, Dirs
  <2>4. d.build = v /\ d.spec = v
    <3> HIDE DEF t
    <3> QED BY <2>2 DEF Dir
  <2> HIDE DEF d
  <2> QED BY <1>5, <2>1, <2>3, <2>4 DEF Going
<1>14. CASE BackupInstallDir(j)
  <2>1. job[j].at = "backup" /\ Go(j, "rename") /\ UNCHANGED temp /\ installed'[a] = NoDir
    BY <1>14, BackedUp DEF BackupInstallDir, Goes
  <2>2. /\ job'[j].at = "rename" /\ job'[j].version = job[j].version
        /\ HasTemp(j)' = HasTemp(j) /\ Temp(j)' = Temp(j)
    BY <2>1, Moves DEF Steps, HasTemp, Temp
  <2> QED BY <1>1, <1>2, <2>1, <2>2 DEF RunPhase, Going
<1>15. CASE RenameTempInstallDir(j)
  <2>1. job[j].at = "rename" /\ Go(j, "done") /\ installed'[a] = Temp(j) /\ Temp(j) \in Dir
    BY <1>15, Renamed DEF RenameTempInstallDir, Goes
  <2>2. job'[j].at = "done"
    BY <2>1, Moves DEF Steps
  <2> QED BY <1>1, <1>2, <2>1, <2>2, Names DEF RunPhase, Going, Deployed
<1>16. CASE CannotGoOn(j)
  <2>1. Go(j, "failed") /\ UNCHANGED <<temp, installed>> /\ job[j].at \notin {"rename", "done"}
    BY <1>16 DEF CannotGoOn, host, RunPhase
  <2> QED BY <1>4, <2>1
<1> QED BY <1>6, <1>7, <1>8, <1>9, <1>10, <1>11, <1>12, <1>13, <1>14, <1>15, <1>16 DEF Step

\* The run that goes on is the one of the command that deploys its application.
LEMMA TellRun ==
    ASSUME Types, TellInv, NEW j \in Job, Step(j), UNCHANGED <<tree, cmd, muddled>>
    PROVE  TellInv'
<1> DEFINE b == AppOf(j)
<1>1. /\ job[j].at \notin Ended /\ b \in App /\ AppOf(j)' = b /\ job'[j].app = job[j].app
      /\ job[j].app = b
      /\ \A k \in Job : k # j => job'[k] = job[k]
      /\ \A a \in App : a # b => temp'[a] = temp[a] /\ installed'[a] = installed[a]
      /\ staged' = staged /\ UNCHANGED <<local, record>>
  BY RunMoves DEF RunStep, AppOf, tree
<1> SUFFICES ASSUME NEW a \in App, a \notin muddled PROVE Tell(a)'
  BY DEF TellInv
<1>2. Tell(a)
  BY DEF TellInv
<1>3. CASE a # b
  <2> HIDE DEF b
  <2>1. /\ installed'[a] = installed[a] /\ temp'[a] = temp[a] /\ staged'[a] = staged[a]
        /\ local'[a] = local[a] /\ record'[a] = record[a]
        /\ \A c \in Command : cmd'[c] = cmd[c]
    BY <1>1, <1>3
  <2>2. \A k \in Job : k = j => job[k].app # a /\ job'[k].app # a
    BY <1>1, <1>3
  <2> QED BY <1>1, <1>2, <2>1, <2>2, TellSame
<1>4. CASE a = b
  <2>1. j \in Active(a)
    BY <1>1, <1>4 DEF Active
  <2>2. Deploying(a) # {}
    BY <1>2, <2>1 DEF Tell
  <2>3. /\ Deploying(a)' = Deploying(a)
        /\ \A c \in Command : JobOf(c)' = JobOf(c) /\ cmd'[c] = cmd[c]
    BY DEF Deploying, JobOf
  <2>4. Active(a)' \subseteq Active(a)
    <3> HIDE DEF b
    <3> QED BY <1>1, <1>4 DEF Active
  <2>5. ASSUME NEW c \in Deploying(a), NEW i \in Job, NEW v \in Version, i = JobOf(c),
               v = cmd[c].version
        PROVE  Phase(c, a, i, v)'
    <3>1. c \in Command /\ cmd[c].at \in Deploys /\ Phase(c, a, i, v)
      BY <1>2, <2>5, DeployingIs DEF Tell
    <3>2. cmd[c].at = "install" /\ Active(a) \subseteq {i} /\ RunPhase(i, v)
      BY <2>1, <3>1 DEF Phase, Deploys
    <3>3. i = j
      BY <2>1, <3>2
    <3>4. RunPhase(i, v)'
      BY <1>1, <3>2, <3>3, PhaseStep
    <3>5. cmd'[c].at = "install" /\ AppOf(i)' = a
      BY <1>1, <1>4, <2>3, <3>1, <3>2, <3>3
    <3> QED BY <2>4, <3>2, <3>4, <3>5 DEF Phase
  <2>6. \A c \in Deploying(a) : c \in Command
    BY DeployingIs
  <2> QED BY <1>2, <2>2, <2>3, <2>5, <2>6 DEF Tell
<1> QED BY <1>3, <1>4

LEMMA TellQuiet ==
    ASSUME Types, TellInv, muddled \subseteq muddled',
           \A a \in App \ muddled' :
               /\ installed'[a] = installed[a] /\ temp'[a] = temp[a] /\ staged'[a] = staged[a]
               /\ local'[a] = local[a] /\ record'[a] = record[a]
               /\ \A j \in Job : \/ job[j].at # "off" /\ job[j].app = a
                                 \/ job'[j].at # "off" /\ job'[j].app = a
                                 => job'[j] = job[j]
               /\ \A c \in Command : c \in Deploying(a) \/ c \in Deploying(a)' =>
                      cmd'[c] = cmd[c]
    PROVE  TellInv'
BY TellSame DEF TellInv

LEMMA TellHost == ASSUME Types, TellInv, Host PROVE TellInv'
<1>1. UNCHANGED <<tree, cmd, loaded>>
  BY DEF Host
<1>2. CASE \E j \in Job : Step(j) /\ UNCHANGED muddled
  BY <1>1, <1>2, TellRun
<1>3. CASE \E j \in Job : CallFails(j) /\ Muddle(AppOf(j))
  <2>1. PICK j \in Job : CallFails(j) /\ Muddle(AppOf(j))
    BY <1>3
  <2> DEFINE b == AppOf(j)
  <2>2. /\ job[j].app = b /\ job'[j].app = b /\ \A k \in Job : k # j => job'[k] = job[k]
        /\ UNCHANGED <<installed, temp, staged, local, record, cmd>>
        /\ muddled' = muddled \cup {b}
    <3>1. AppOf(j)' = b /\ \A k \in Job : k # j => job'[k] = job[k]
      BY <2>1, RunMoves DEF RunStep
    <3> QED BY <1>1, <2>1, <3>1 DEF CallFails, host, tree, Muddle, AppOf
  <2> HIDE DEF b
  <2>3. \A a \in App \ muddled' : a # b
    BY <2>2
  <2> QED BY <2>2, <2>3, TellQuiet
<1>4. CASE \E a \in App : CollectGarbage(a) /\ UNCHANGED muddled
  BY <1>1, <1>4, TellQuiet DEF CollectGarbage, tree
<1>5. CASE Tick /\ UNCHANGED muddled
  BY <1>1, <1>5, TellQuiet DEF Tick, host, tree
<1> QED BY <1>2, <1>3, <1>4, <1>5 DEF Host

\* What a command changes is of the application it deploys.
LEMMA TellElsewhere ==
    ASSUME Types, NEW c \in Command, RunsCommand(c), NEW a \in App, a # Target(c), Tell(a)
    PROVE  Tell(a)'
<1>1. Target(c) \in App
  BY CmdFields DEF Types
<1>2. UNCHANGED <<installed, temp>>
  BY DEF RunsCommand, LoadRoot, StageApp, CopyToHost, SshLocalInstall, Install, InstallAnswers,
         CommandFails, TruncateRecord, WriteRecord, WriteFails, Commit, Kill, installVars, host
<1>3. staged'[a] = staged[a]
  <2>1. CASE CopyToHost(c)
    BY <1>1, <2>1 DEF CopyToHost, Types, TreeType
  <2> QED BY <2>1, CommandKinds
<1>4. local'[a] = local[a]
  <2>1. CASE StageApp(c)
    BY <1>1, <2>1 DEF StageApp, Types, TreeType
  <2> QED BY <2>1, CommandKinds
<1>5. record'[a] = record[a]
  <2>1. CASE TruncateRecord(c) \/ WriteRecord(c)
    BY <1>1, <2>1 DEF TruncateRecord, WriteRecord, Types, TreeType
  <2>2. CASE ~(TruncateRecord(c) \/ WriteRecord(c))
    BY <2>2 DEF RunsCommand, LoadRoot, StageApp, CopyToHost, SshLocalInstall, InstallAnswers,
                CommandFails, WriteFails, Commit, Kill, tree
  <2> QED BY <2>1, <2>2
<1>6. ASSUME NEW d \in Command, d \in Deploying(a) \/ d \in Deploying(a)'
      PROVE  cmd'[d] = cmd[d]
  <2>1. d \in Deploying(a)' => cmd'[d].at \in Deploys /\ Target(d)' = a
    BY DEF Deploying, Deploys, Target, Goal
  <2>2. d # c
    BY <1>6, <2>1, DeployingIs, CommandMoves
  <2> QED BY <2>2, CommandMoves
<1>7. ASSUME NEW j \in Job, \/ job[j].at # "off" /\ job[j].app = a
                            \/ job'[j].at # "off" /\ job'[j].app = a
      PROVE  job'[j] = job[j]
  <2>1. CASE SshLocalInstall(c)
    <3>1. /\ JobOf(c) \in Job /\ job[JobOf(c)].at = "off" /\ job'[JobOf(c)].app = Target(c)
          /\ \A k \in Job : k # JobOf(c) => job'[k] = job[k]
      BY <2>1, Starts
    <3> QED BY <1>7, <3>1
  <2> QED BY <2>1, CommandKinds
<1> QED BY <1>2, <1>3, <1>4, <1>5, <1>6, <1>7, TellSame

\* A command that neither deploys before the step nor after it.
LEMMA TellAside ==
    ASSUME Types, NEW c \in Command, NEW a \in App, Tell(a),
           UNCHANGED <<installed, temp, staged, local, record, job>>,
           \A d \in Command : d # c => cmd'[d] = cmd[d],
           cmd[c].at \notin Deploys, cmd'[c].at \notin Deploys
    PROVE  Tell(a)'
<1>1. ASSUME NEW d \in Command, d \in Deploying(a) \/ d \in Deploying(a)'
      PROVE  cmd'[d] = cmd[d]
  <2>1. d \in Deploying(a)' => cmd'[d].at \in Deploys
    BY DEF Deploying, Deploys
  <2>2. d # c
    BY <1>1, <2>1, DeployingIs
  <2> QED BY <2>2
<1> QED BY <1>1, TellSame

\* Only the command deploys its application when it is the only one that may.
LEMMA OwnDeploying ==
    ASSUME Types, NEW c \in Command, RunsCommand(c), NEW a \in App, a = Target(c), Tell(a),
           Deploying(a) = {} \/ cmd[c].at \in Deploys
    PROVE  Deploying(a)' = IF cmd'[c].at \in Deploys THEN {c} ELSE {}
<1>1. ASSUME NEW d \in Command, d # c PROVE d \notin Deploying(a)'
  <2>1. cmd'[d] = cmd[d]
    BY <1>1, CommandMoves
  <2>2. d \in Deploying(a)' => d \in Deploying(a)
    BY <2>1 DEF Deploying
  <2>3. cmd[c].at \in Deploys => c \in Deploying(a)
    BY DeployingIs
  <2> QED BY <1>1, <2>2, <2>3 DEF Tell
<1>2. c \in Deploying(a)' <=> cmd'[c].at \in Deploys
  <2>1. cmd'[c].at \in Deploys => cmd'[c].arg = cmd[c].arg
    BY CommandMoves
  <2> QED BY <2>1 DEF Deploying, Deploys, Target, Goal
<1>3. Deploying(a)' \subseteq Command
  BY DEF Deploying
<1> QED BY <1>1, <1>2, <1>3

\* A command goes on with its deployment.
LEMMA TellOn ==
    ASSUME Types, NEW c \in Command, RunsCommand(c), NEW a \in App, a = Target(c), Tell(a),
           Deploying(a) = {} \/ cmd[c].at \in Deploys, cmd'[c].at \in Deploys,
           NEW i \in Job, i = JobOf(c),
           \A v \in Version : v = cmd'[c].version => Phase(c, a, i, v)'
    PROVE  Tell(a)'
<1>1. Deploying(a)' = {c}
  BY OwnDeploying
<1>2. i = JobOf(c)'
  BY CommandMoves DEF JobOf
<1> QED BY <1>1, <1>2 DEF Tell

\* It is through with it.
LEMMA TellEnds ==
    ASSUME Types, NEW c \in Command, RunsCommand(c), NEW a \in App, a = Target(c), Tell(a),
           Deploying(a) = {} \/ cmd[c].at \in Deploys, cmd'[c].at \notin Deploys,
           (Active(a) = {})', Matches(a)'
    PROVE  Tell(a)'
<1>1. Deploying(a)' = {}
  BY OwnDeploying
<1> QED BY <1>1 DEF Tell

\* The phase of a command that deploys.
LEMMA PhaseOf ==
    ASSUME Types, NEW c \in Command, cmd[c].at \in Deploys, NEW a \in App, a = Target(c), Tell(a)
    PROVE  \E v \in Version, i \in Job : v = cmd[c].version /\ i = JobOf(c) /\ Phase(c, a, i, v)
<1>1. cmd[c].version \in Version /\ JobOf(c) \in Job
  BY CmdFields DEF Types, CmdType
<1>2. c \in Deploying(a)
  BY DeployingIs
<1> QED BY <1>1, <1>2 DEF Tell

LEMMA TellStage ==
    ASSUME Types, NEW c \in Command, StageApp(c), NEW a \in App, a = Target(c), Tell(a),
           a \notin muddled'
    PROVE  Tell(a)'
<1>0. RunsCommand(c) /\ cmd[c].at = "stage" /\ UNCHANGED <<installed, temp, staged, record, job>>
  BY DEF RunsCommand, StageApp, CmdAt, installVars, host
<1>1. CASE Settled(c) = NoVersion
  <2>1. NextArg(c, TRUE) /\ local' = local
    BY <1>1, Staged
  <2>2. cmd'[c].at \notin Deploys /\ \A d \in Command : d # c => cmd'[d] = cmd[d]
    BY <1>0, <2>1, CmdNext DEF Types, Loaded, Deploys
  <2> QED BY <1>0, <2>1, <2>2, TellAside DEF Deploys
<1>2. CASE Settled(c) # NoVersion
  <2>1. /\ cmd'[c].at = "copy" /\ cmd'[c].staging = now /\ cmd'[c].version = Settled(c)
        /\ local'[a][now] = Settled(c)
        /\ IF Deploying(a) \cup Active(a) = {} THEN UNCHANGED muddled ELSE Muddle(a)
    BY <1>2, Staged
  <2>2. Deploying(a) = {} /\ Active(a) = {}
    BY <2>1 DEF Muddle
  <2>3. Matches(a) /\ (Active(a) = {})' /\ Matches(a)'
    BY <1>0, <2>2 DEF Tell, Active, Matches, Deployed
  <2>4. PICK i : i = JobOf(c)
    OBVIOUS
  <2>5. i \in Job
    BY <2>4, CmdFields DEF Types
  <2>6. \A v \in Version : v = cmd'[c].version => Phase(c, a, i, v)'
    BY <2>1, <2>3 DEF Phase
  <2> QED BY <1>0, <2>1, <2>2, <2>4, <2>5, <2>6, TellOn DEF Deploys
<1> QED BY <1>1, <1>2

LEMMA TellCopy ==
    ASSUME Types, NEW c \in Command, CopyToHost(c), NEW a \in App, a = Target(c), Tell(a)
    PROVE  Tell(a)'
<1>1. /\ RunsCommand(c) /\ UNCHANGED <<installed, temp, record, job>>
      /\ cmd[c].at = "copy" /\ cmd'[c].at = "ssh"
      /\ cmd'[c].staging = cmd[c].staging /\ cmd'[c].version = cmd[c].version
      /\ staged'[a][cmd[c].staging] = local[a][cmd[c].staging]
  BY CopiedType DEF RunsCommand, CopyToHost, tree
<1>2. PICK v \in Version, i \in Job :
          v = cmd[c].version /\ i = JobOf(c) /\ Phase(c, a, i, v)
  BY <1>1, PhaseOf DEF Deploys
<1>3. (Active(a) = {})' /\ Matches(a)'
  BY <1>1, <1>2 DEF Phase, Active, Matches, Deployed
<1>4. Phase(c, a, i, v)'
  BY <1>1, <1>2, <1>3 DEF Phase
<1> QED BY <1>1, <1>2, <1>4, TellOn DEF Deploys

LEMMA TellSsh ==
    ASSUME Types, NEW c \in Command, SshLocalInstall(c), NEW a \in App, a = Target(c), Tell(a)
    PROVE  Tell(a)'
<1>0. RunsCommand(c) /\ cmd[c].at = "ssh"
  BY DEF RunsCommand, SshLocalInstall, CmdAt
<1>1. PICK v \in Version, i \in Job :
          v = cmd[c].version /\ i = JobOf(c) /\ Phase(c, a, i, v)
  BY <1>0, PhaseOf DEF Deploys
<1>2. /\ job'[i].at = "start" /\ job'[i].app = a /\ job'[i].staging = cmd[c].staging
      /\ \A k \in Job : k # i => job'[k] = job[k]
      /\ cmd'[c].at = "install" /\ cmd'[c].version = v
      /\ UNCHANGED <<installed, staged, record>>
  BY <1>1, Starts DEF host, tree
<1>3. Active(a) = {} /\ Matches(a) /\ staged[a][cmd[c].staging] = v
  BY <1>0, <1>1 DEF Phase
<1>4. Active(a)' \subseteq {i}
  BY <1>2, <1>3 DEF Active
<1>5. AppOf(i)' = a /\ Copied(i)' = v
  BY <1>2, <1>3 DEF AppOf, Copied
<1>6. Matches(a)'
  BY <1>2, <1>3 DEF Matches, Deployed
<1>7. RunPhase(i, v)'
  BY <1>2, <1>5, <1>6 DEF RunPhase, Going
<1>8. Phase(c, a, i, v)'
  BY <1>2, <1>4, <1>5, <1>7 DEF Phase
<1> QED BY <1>0, <1>1, <1>2, <1>8, TellOn DEF Deploys

LEMMA TellAnswer ==
    ASSUME Types, NEW c \in Command, InstallAnswers(c), NEW a \in App, a = Target(c), Tell(a)
    PROVE  Tell(a)'
<1>0. RunsCommand(c) /\ cmd[c].at = "install" /\ UNCHANGED <<installed, staged, record, job, temp>>
  BY DEF RunsCommand, InstallAnswers, CmdAt, installVars, host, tree
<1>1. PICK v \in Version, i \in Job :
          v = cmd[c].version /\ i = JobOf(c) /\ Phase(c, a, i, v)
  BY <1>0, PhaseOf DEF Deploys
<1>2. Active(a) \subseteq {i} /\ AppOf(i) = a /\ RunPhase(i, v)
  BY <1>0, <1>1 DEF Phase
<1>3. CASE job[i].at = "done" /\ CmdGoes(c, "record")
  <2>1. cmd'[c].at = "record" /\ cmd'[c].version = v
    BY <1>1, <1>3, CmdOn DEF Types, CmdSteps
  <2>2. (Active(a) = {})' /\ Deployed(a, v)'
    BY <1>0, <1>2, <1>3 DEF RunPhase, Active, Ended, Deployed, AppOf
  <2>3. Phase(c, a, i, v)'
    BY <2>1, <2>2 DEF Phase
  <2> QED BY <1>0, <1>1, <2>1, <2>3, TellOn DEF Deploys
<1>4. CASE job[i].at = "failed" /\ NextArg(c, TRUE)
  <2>1. cmd'[c].at \notin Deploys
    BY <1>0, <1>4, CmdNext DEF Types, Loaded, Deploys
  <2>2. (Active(a) = {})' /\ Matches(a)'
    BY <1>0, <1>2, <1>4 DEF RunPhase, Active, Ended, Deployed, Matches, AppOf
  <2> QED BY <1>0, <2>1, <2>2, TellEnds DEF Deploys
<1> QED BY <1>1, <1>3, <1>4 DEF InstallAnswers

LEMMA TellTruncate ==
    ASSUME Types, NEW c \in Command, TruncateRecord(c), NEW a \in App, a = Target(c), Tell(a)
    PROVE  Tell(a)'
<1>1. /\ RunsCommand(c) /\ UNCHANGED <<installed, job>>
      /\ cmd[c].at = "record" /\ cmd'[c].at = "write" /\ cmd'[c].version = cmd[c].version
  BY CmdOn DEF RunsCommand, TruncateRecord, CmdAt, installVars, host, Types, CmdSteps
<1>2. PICK v \in Version, i \in Job :
          v = cmd[c].version /\ i = JobOf(c) /\ Phase(c, a, i, v)
  BY <1>1, PhaseOf DEF Deploys
<1>3. (Active(a) = {})' /\ Deployed(a, v)'
  BY <1>1, <1>2 DEF Phase, Active, Deployed
<1>4. Phase(c, a, i, v)'
  BY <1>1, <1>2, <1>3 DEF Phase
<1> QED BY <1>1, <1>2, <1>4, TellOn DEF Deploys

LEMMA TellWrite ==
    ASSUME Types, NEW c \in Command, WriteRecord(c), NEW a \in App, a = Target(c), Tell(a)
    PROVE  Tell(a)'
<1>1. /\ RunsCommand(c) /\ UNCHANGED <<installed, job>>
      /\ cmd[c].at = "write" /\ NextArg(c, FALSE) /\ record'[a] = cmd[c].version
  BY DEF RunsCommand, WriteRecord, CmdAt, installVars, host, Types, TreeType
<1>2. PICK v \in Version, i \in Job :
          v = cmd[c].version /\ i = JobOf(c) /\ Phase(c, a, i, v)
  BY <1>1, PhaseOf DEF Deploys
<1>3. (Active(a) = {})' /\ Matches(a)'
  BY <1>1, <1>2 DEF Phase, Active, Deployed, Matches
<1>4. cmd'[c].at \notin Deploys
  BY <1>1, CmdNext DEF Types, Loaded, Deploys
<1> QED BY <1>1, <1>3, <1>4, TellEnds DEF Deploys

\* The steps that deploy nothing.
LEMMA TellNothing ==
    ASSUME Types, NEW c \in Command, NEW a \in App, a = Target(c), Tell(a),
           LoadRoot(c) \/ Commit(c) \/ Kill(c), a \notin muddled'
    PROVE  Tell(a)'
<1>1. UNCHANGED <<installed, temp, staged, local, record, job>>
  BY DEF LoadRoot, Commit, Kill, installVars, host, tree
<1>2. PICK n \in CmdSteps : CmdGoes(c, n) /\ n \notin Deploys
  BY DEF LoadRoot, Commit, Kill, CmdSteps, Deploys
<1>3. cmd'[c].at \notin Deploys /\ \A d \in Command : d # c => cmd'[d] = cmd[d]
  BY <1>2, CmdOn DEF Types
<1>4. cmd[c].at \notin Deploys
  BY DEF LoadRoot, Commit, Kill, CmdAt, Muddle, Deploys
<1> QED BY <1>1, <1>3, <1>4, TellAside

LEMMA TellCommand == ASSUME Types, TellInv, NEW c \in Command, RunsCommand(c) PROVE TellInv'
<1>1. muddled \subseteq muddled'
  BY DEF RunsCommand, LoadRoot, StageApp, CopyToHost, SshLocalInstall, InstallAnswers,
         CommandFails, TruncateRecord, WriteRecord, WriteFails, Commit, Kill, Muddle
<1> SUFFICES ASSUME NEW a \in App, a \notin muddled' PROVE Tell(a)'
  BY DEF TellInv
<1>2. Tell(a)
  BY <1>1 DEF TellInv
<1>3. CASE a # Target(c)
  BY <1>2, <1>3, TellElsewhere
<1>4. CASE a = Target(c)
  <2>1. ~CommandFails(c) /\ ~WriteFails(c)
    BY <1>4 DEF CommandFails, WriteFails, Muddle
  <2> QED BY <1>2, <1>4, <2>1, TellStage, TellCopy, TellSsh, TellAnswer, TellTruncate,
             TellWrite, TellNothing DEF RunsCommand
<1> QED BY <1>3, <1>4

LEMMA TellNext == ASSUME Types, TellInv, [Next]_vars PROVE TellInv'
<1>1. CASE Host
  BY <1>1, TellHost
<1>2. CASE \E c \in Command : RunsCommand(c)
  BY <1>2, TellCommand
<1>3. CASE UNCHANGED vars
  BY <1>3, TellQuiet DEF vars, installVars, host, deployVars, tree
<1> QED BY <1>1, <1>2, <1>3 DEF Next

\* As long as no fault has met an application and nobody has deployed it at the same time, its
\* last-deploy.json names what is installed: a command writes down a version only after its
\* own run has installed it, and a run that fails has not yet touched the install directory
\* (DeployApp, InstallJavaProcess).
THEOREM RecordsAreTrue == Spec => []RecordTells
<1>1. Types /\ TellInv /\ [Next]_vars => TellInv'
  BY TellNext
<1>2. TellInv => RecordTells
  BY DEF TellInv, Tell, RecordTells, Matches, Deployed
<1> QED BY <1>1, <1>2, TypesAlways, TellInit, PTL DEF Spec
=============================================================================
