------------------------------- MODULE Deploy -------------------------------
(***************************************************************************)
(* `a8 deploy name[:version] ...` (devops/deploy.go): operators deploy     *)
(* applications from one working copy of the server-app-configs, at the    *)
(* same time if they like.                                                 *)
(*                                                                         *)
(* A command reads the whole tree first.  For each argument it makes a     *)
(* staging directory, copies it to the host, runs `a8 local-install` there *)
(* over ssh (Install), and writes down the version in last-deploy.json.    *)
(* When all have succeeded, it commits the working copy.                   *)
(*                                                                         *)
(* os.WriteFile truncates a file before it writes it: in between, the      *)
(* record of an application is torn.  An application with such a record is *)
(* not loaded.                                                             *)
(***************************************************************************)
EXTENDS Install, Sequences

CONSTANTS
    Command,
    Args,         \* the arguments of each command: an application and a label
    Current,      \* the label that stands for the version deployed last
    Torn,         \* what a record is between the two parts of a write
    Tree,         \* the order in which the tree is read
    Unreadable    \* applications that may have an application.hocon that cannot be parsed

ASSUME DeployAssumption ==
    /\ Current \notin Version /\ Torn \notin Version /\ Torn # NoVersion
    /\ Args \in [Command -> Seq(App \X (Version \cup {Current}))]
    /\ \A c \in Command : Args[c] # <<>>
    /\ Job = UNION {{c} \X DOMAIN Args[c] : c \in Command}
    /\ Tree \in Seq(App) /\ \A a \in App : \E i \in DOMAIN Tree : Tree[i] = a
    /\ Unreadable \subseteq App

VARIABLES
    broken,       \* applications whose application.hocon cannot be parsed
    record,       \* the last-deploy.json of each application
    dirty,        \* applications whose record was written after the last commit
    local,        \* the staging directories of the working copy
    cmd,          \* the commands
    loaded,       \* the records that each command has read
    muddled       \* history: applications with a fault, or deployed by two at a time

tree == <<broken, record, dirty, local>>
deployVars == <<tree, cmd, loaded, muddled>>
vars == <<installVars, deployVars>>

Record == Version \cup {NoVersion, Torn}
Tracked == Known

\* A command deploys an application from its staging directory to its record.
Deploying(a) ==
    {c \in Command : /\ cmd[c].at \in {"copy", "ssh", "install", "record", "write"}
                     /\ Args[c][cmd[c].arg][1] = a}

\* What each variable holds.
TypeOK ==
    /\ now \in Second /\ faults \in 0..MaxFaults /\ hurt \subseteq Job
    /\ staged \in [App -> [Second -> VersionOrNone]] /\ local \in [App -> [Second -> VersionOrNone]]
    /\ temp \in [App -> [Second -> Dir \cup {NoDir}]]
    /\ installed \in [App -> Dir \cup {NoDir}]
    /\ backups \in [App -> [Second -> Dir \cup {NoDir}]]
    /\ gcLink \subseteq Gcrooted
    /\ store \in [App -> SUBSET VersionOrNone] /\ installs \in [App -> SUBSET Second]
    /\ repoProps \in [App -> {"none", "empty", "good"}]
    /\ job \in [Job -> [at : Steps, app : App \cup {NoApp}, staging : Second, made : Second,
                        version : VersionOrNone]]
    /\ broken \subseteq Unreadable /\ dirty \subseteq App /\ muddled \subseteq App
    /\ record \in [App -> Record] /\ loaded \in [Command -> [App -> Record]]
    /\ cmd \in [Command -> [at : {"load", "stage", "copy", "ssh", "install", "record", "write",
                                  "commit", "done", "failed", "hung"},
                            arg : Nat, failed : BOOLEAN, staging : Second, version : VersionOrNone]]

Init ==
    /\ InstallInit
    /\ broken \in SUBSET Unreadable
    /\ record = [a \in App |-> IF a \in Known THEN First ELSE NoVersion]
    /\ dirty = {} /\ muddled = {}
    /\ local = [a \in App |-> [s \in Second |-> NoVersion]]
    /\ cmd = [c \in Command |-> [at |-> "load", arg |-> 1, failed |-> FALSE, staging |-> 0,
                                 version |-> NoVersion]]
    /\ loaded = [c \in Command |-> [a \in App |-> NoVersion]]

Apps(c) == {Args[c][i][1] : i \in DOMAIN Args[c]}
Goal(c) == Args[c][cmd[c].arg]
Target(c) == Goal(c)[1]
JobOf(c) == <<c, cmd[c].arg>>
CmdAt(c, here) == cmd[c].at = here
CmdGoes(c, next) == cmd' = [cmd EXCEPT ![c].at = next]
Muddle(a) == muddled' = muddled \cup {a}

\* The loop of Deploy goes on with the next argument, whether this one succeeded or not.
NextArg(c, failed) ==
    LET f == failed \/ cmd[c].failed
    IN  cmd' = [cmd EXCEPT ![c] =
            IF @.arg < Len(Args[c]) THEN [cmd[c] EXCEPT !.at = "stage", !.arg = @ + 1, !.failed = f]
            ELSE [cmd[c] EXCEPT !.at = IF f THEN "failed" ELSE "commit", !.failed = f]]
-----------------------------------------------------------------------------
\* loadApp: an error of last-deploy.json leaves the application out, one of
\* application.hocon is forgotten.
Loads(a) == record[a] # Torn
Parses(a) == a \notin broken

\* FindApp looks at one application after the other, and panics at one without a configuration.
Place(a) == CHOOSE i \in DOMAIN Tree : Tree[i] = a
Passed(a) == {Tree[i] : i \in IF Loads(a) THEN 1..Place(a) ELSE DOMAIN Tree}
Panics(a) == \E b \in Passed(a) : Loads(b) /\ ~Parses(b)

\* The tree is read.  A panic is caught by the application, which then waits for ever.
LoadRoot(c) ==
    /\ CmdAt(c, "load")
    /\ CmdGoes(c, IF \E a \in Apps(c) : Panics(a) THEN "hung"
                  ELSE IF \A a \in Apps(c) : Loads(a) THEN "stage" ELSE "failed")
    /\ loaded' = [loaded EXCEPT ![c] = record]
    /\ UNCHANGED <<installVars, tree, muddled>>

\* The version that a label stands for.
Settled(c) == IF Goal(c)[2] = Current THEN loaded[c][Target(c)] ELSE Goal(c)[2]

\* DeployApp, up to the descriptor.  A staging directory of the same second is replaced.
StageApp(c) ==
    LET a == Target(c)  v == Settled(c)
    IN  /\ CmdAt(c, "stage")
        /\ IF v = NoVersion THEN NextArg(c, TRUE) /\ UNCHANGED <<local, muddled>>
           ELSE /\ local' = [local EXCEPT ![a][now] = v]
                /\ cmd' = [cmd EXCEPT ![c].at = "copy", ![c].staging = now, ![c].version = v]
                /\ IF Deploying(a) \cup Active(a) = {} THEN UNCHANGED muddled ELSE Muddle(a)
        /\ UNCHANGED <<installVars, broken, record, dirty, loaded>>

\* mkdir over ssh, and rsync.
CopyToHost(c) ==
    /\ CmdAt(c, "copy") /\ CmdGoes(c, "ssh")
    /\ staged' = [staged EXCEPT ![Target(c)][cmd[c].staging] = local[Target(c)][cmd[c].staging]]
    /\ UNCHANGED <<now, temp, installed, backups, gcLink, store, repoProps, job, installs, hurt,
                   faults, tree, loaded, muddled>>

SshLocalInstall(c) ==
    /\ CmdAt(c, "ssh") /\ CmdGoes(c, "install")
    /\ Install(JobOf(c), Target(c), cmd[c].staging)
    /\ UNCHANGED <<tree, loaded, muddled>>

\* Wrong variant of InstallAnswers: the exit code of local-install is ignored.
InstallAnswersAnyhow(c) ==
    /\ CmdAt(c, "install") /\ job[JobOf(c)].at \in {"done", "failed"} /\ CmdGoes(c, "record")
    /\ UNCHANGED <<installVars, tree, loaded, muddled>>

InstallAnswers(c) ==
    /\ CmdAt(c, "install")
    /\ \/ job[JobOf(c)].at = "done" /\ CmdGoes(c, "record")
       \/ job[JobOf(c)].at = "failed" /\ NextArg(c, TRUE)
    /\ UNCHANGED <<installVars, tree, loaded, muddled>>

\* A step of the command fails, or the connection is lost while local-install goes on.
CommandFails(c) ==
    /\ cmd[c].at \in {"stage", "copy", "ssh", "install"} /\ Fault /\ NextArg(c, TRUE)
    /\ Muddle(Target(c))
    /\ UNCHANGED <<now, host, job, installs, hurt, tree, loaded>>

\* os.WriteFile of last-deploy.json.  An error of either part is only logged.
TruncateRecord(c) ==
    /\ CmdAt(c, "record") /\ CmdGoes(c, "write")
    /\ record' = [record EXCEPT ![Target(c)] = Torn] /\ dirty' = dirty \cup {Target(c)}
    /\ UNCHANGED <<installVars, broken, local, loaded, muddled>>

WriteRecord(c) ==
    /\ CmdAt(c, "write") /\ NextArg(c, FALSE)
    /\ record' = [record EXCEPT ![Target(c)] = cmd[c].version] /\ dirty' = dirty \cup {Target(c)}
    /\ UNCHANGED <<installVars, broken, local, loaded, muddled>>

WriteFails(c) ==
    /\ cmd[c].at \in {"record", "write"} /\ Fault /\ NextArg(c, FALSE) /\ Muddle(Target(c))
    /\ UNCHANGED <<now, host, job, installs, hurt, tree, loaded>>

\* git commit -am: files that are tracked and have changed, or an error.
Commit(c) ==
    /\ CmdAt(c, "commit")
    /\ CmdGoes(c, IF dirty \cap Tracked # {} THEN "done" ELSE "failed")
    /\ dirty' = dirty \ Tracked
    /\ UNCHANGED <<installVars, broken, record, local, loaded, muddled>>

\* The operator ends a command; what runs on the host goes on.
Kill(c) ==
    /\ cmd[c].at \notin {"done", "failed"} /\ Fault /\ CmdGoes(c, "failed")
    /\ IF cmd[c].at \in {"load", "commit", "hung"} THEN UNCHANGED muddled ELSE Muddle(Target(c))
    /\ UNCHANGED <<now, host, job, installs, hurt, tree, loaded>>

RunsCommand(c) ==
    \/ LoadRoot(c) \/ StageApp(c) \/ CopyToHost(c) \/ SshLocalInstall(c) \/ InstallAnswers(c)
    \/ CommandFails(c) \/ TruncateRecord(c) \/ WriteRecord(c) \/ WriteFails(c) \/ Commit(c) \/ Kill(c)

\* A step of a host; what a fault hurts is muddled.
Host ==
    /\ \/ \E j \in Job : Step(j) /\ UNCHANGED muddled
       \/ \E j \in Job : CallFails(j) /\ Muddle(AppOf(j))
       \/ \E a \in App : CollectGarbage(a) /\ UNCHANGED muddled
       \/ Tick /\ UNCHANGED muddled
    /\ UNCHANGED <<tree, cmd, loaded>>

Next == Host \/ \E c \in Command : RunsCommand(c)

Spec == Init /\ [][Next]_vars
-----------------------------------------------------------------------------
(* Properties *)

\* Whichever runs meet and wherever they are cut short, no directory that was ever installed
\* is overwritten or lost: it is in its place or among the backups (backupInstallDir,
\* os.Rename).
NothingOverwritten ==
    \A a \in App :
        installs[a] = {d.made : d \in ({installed[a]} \cup {backups[a][s] : s \in Second}) \ {NoDir}}

\* As long as no fault has met an application and nobody has deployed it at the same time,
\* its last-deploy.json names what is installed, as often as it is deployed and however many
\* deployments have ended without an installation (DeployApp).
RecordTells ==
    \A a \in App \ muddled :
        (Deploying(a) = {} /\ record[a] # NoVersion) =>
            installed[a] # NoDir /\ installed[a].build = record[a] /\ installed[a].spec = record[a]

\* On a host with gcroots the collector never takes the build of an installed application,
\* in whichever step of an installation it comes (createNixGcroot).
Rooted ==
    \A a \in Gcrooted : installed[a] # NoDir => installed[a].build \in store[a]

\* What is left over by a run that failed does not make another one fail, except for a link
\* in the gcroots and a repo.properties that was created and not filled (InstallJavaProcess).
FailureHasCause ==
    \A j \in Job \ hurt :
        job[j].at = "failed" => AppOf(j) \in gcLink \/ repoProps[AppOf(j)] = "empty"
=============================================================================
