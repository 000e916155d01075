------------------------------- MODULE Builds -------------------------------
(***************************************************************************)
(* Building a project on the gateway (dashboard.rs): the archive becomes a *)
(* directory of the build's own, its dependencies are restored from a      *)
(* cache that all builds share, installed, and saved to the cache again,   *)
(* the cache is cut down to its limit, and the build command runs.         *)
(*                                                                         *)
(* Deployments of a dashboard stream their output; redeployments and web   *)
(* hooks use an older variant, which has no cache and reads the output of  *)
(* a command once it has ended.  Nothing locks the cache: copies and       *)
(* removals of different builds interleave file by file.                   *)
(***************************************************************************)
EXTENDS Integers, Sequences, FiniteSets, SequencesExt

CONSTANTS
    Build, Key, Pkg,    \* builds, hashes of lockfiles, packages of a project
    Absent,
    Project,        \* what an archive may hold (see Start)
    Streaming,      \* the builds that stream, SUBSET Build
    Slow,           \* the builds whose commands do not end by themselves
    Heirs,          \* whether a command leaves a program behind, SUBSET BOOLEAN
    Output,         \* what a command prints, in fills of a pipe
    PipeSize,       \* what a pipe holds
    Limit,          \* build_cache_max_gb, in packages
    Cached,         \* the entries of the cache at first, oldest first
    Rivals          \* bound: the builds that work at a time

\* What the cache holds at first is within its limit.
ASSUME BuildsAssumption ==
    /\ IsFiniteSet(Key) /\ IsFiniteSet(Pkg)
    /\ Project \subseteq [package : BOOLEAN, script : BOOLEAN, command : BOOLEAN,
                          key : Key \cup {Absent}]
    /\ Heirs \subseteq BOOLEAN /\ Output \in Nat
    /\ Cached \in Seq(Key) /\ IsInjective(Cached)
    /\ Limit \in Nat /\ Cardinality(ToSet(Cached) \X Pkg) <= Limit

VARIABLES
    work,       \* what each build does, and on which project
    own,        \* node_modules in the directory of each build
    cached,     \* node_modules of each entry of the cache
    opened,     \* the entries that have a node_modules directory
    ages,       \* the directories of the entries, by their time of change
    child,      \* the command of each build
    killed      \* history: the builds of which a command was killed

buildVars == <<work, own, cached, opened, ages, child, killed>>
cache == <<cached, opened, ages>>

\* A package is not there, or an empty directory, or a directory with its file.
Nothing == [p \in Pkg |-> "none"]
Whole == [p \in Pkg |-> "full"]
Present(tree) == {p \in Pkg : tree[p] # "none"}
SizeOf(tree) == Cardinality({p \in Pkg : tree[p] = "full"})

NoChild == [state |-> "none", left |-> 0, pipe |-> 0, heir |-> FALSE]
Waiting == [step |-> "idle", project |-> Absent, todo |-> {}, inside |-> Absent,
            victims |-> <<>>, sizes |-> [k \in Key |-> 0], total |-> 0]

BuildsInit ==
    /\ work = [b \in Build |-> Waiting]
    /\ own = [b \in Build |-> Nothing]
    /\ cached = [k \in Key |-> IF k \in ToSet(Cached) THEN Whole ELSE Nothing]
    /\ opened = ToSet(Cached) /\ ages = Cached
    /\ child = [b \in Build |-> NoChild]
    /\ killed = {}

Outcomes == {"built", "failed", "panicked"}
Ended == Outcomes \cup {"static"}
KeyOf(b) == work[b].project.key
Goes(b, step) == work' = [work EXCEPT ![b].step = step]

-----------------------------------------------------------------------------
(* The archive and the project in it.                                       *)

\* The project has package.json, a build script or a build command of the
\* deployment, a lockfile or Absent.  An archive that is too large, or leads out
\* of its directory, fails (extract_github_zip).
NeedsBuild(project) == (project.package /\ project.script) \/ project.command
HasCache(b, project) == b \in Streaming /\ project.key # Absent

Start(b) ==
    /\ work[b].step = "idle"
    /\ Cardinality({c \in Build : work[c].step \notin Ended \cup {"idle"}}) < Rivals
    /\ \/ \E project \in Project :
            work' = [work EXCEPT
                ![b].project = project,
                ![b].step = CASE ~NeedsBuild(project) -> "static"
                              [] NeedsBuild(project) /\ HasCache(b, project) -> "restore"
                              [] OTHER -> "install"]
       \/ Goes(b, "failed")
    /\ UNCHANGED <<own, cache, child, killed>>

-----------------------------------------------------------------------------
(* restore_build_cache.                                                     *)

Without(s, k) ==
    IF k \notin ToSet(s) THEN s
    ELSE LET at == CHOOSE i \in DOMAIN s : s[i] = k
         IN  [i \in 1..(Len(s) - 1) |-> IF i < at THEN s[i] ELSE s[i + 1]]

Touched(k) == Append(Without(ages, k), k)

\* Mutant: dependencies that were restored are not installed.
InstallUnlessRestored(b, restored) == IF restored THEN "build" ELSE "install"

\* What comes after the restoration: whether it succeeded is not looked at.
AfterRestore(b, restored) == "install"

RestoreOpen(b) ==
    /\ work[b].step = "restore"
    /\ IF KeyOf(b) \in opened
       THEN work' = [work EXCEPT ![b].step = "restoring",
                                 ![b].todo = Present(cached[KeyOf(b)])]
       ELSE Goes(b, AfterRestore(b, FALSE))
    /\ UNCHANGED <<own, cache, child, killed>>

\* A copy that fails is removed again, and the build goes on without.
RestoreFails(b) ==
    /\ own' = [own EXCEPT ![b] = Nothing]
    /\ work' = [work EXCEPT ![b].step = AfterRestore(b, FALSE), ![b].todo = {},
                            ![b].inside = Absent]
    /\ UNCHANGED <<cache, child, killed>>

RestorePackage(b, p) ==
    /\ work[b].step = "restoring" /\ work[b].inside = Absent /\ p \in work[b].todo
    /\ IF cached[KeyOf(b)][p] = "none" THEN RestoreFails(b)
       ELSE /\ own' = [own EXCEPT ![b][p] = "dir"]
            /\ work' = [work EXCEPT ![b].todo = @ \ {p},
                          ![b].inside = IF cached[KeyOf(b)][p] = "full" THEN p ELSE Absent]
            /\ UNCHANGED <<cache, child, killed>>

RestoreFile(b) ==
    /\ work[b].step = "restoring" /\ work[b].inside # Absent
    /\ IF cached[KeyOf(b)][work[b].inside] # "full" THEN RestoreFails(b)
       ELSE /\ own' = [own EXCEPT ![b][work[b].inside] = "full"]
            /\ work' = [work EXCEPT ![b].inside = Absent]
            /\ UNCHANGED <<cache, child, killed>>

Restored(b) ==
    /\ work[b].step = "restoring" /\ work[b].inside = Absent /\ work[b].todo = {}
    /\ Goes(b, AfterRestore(b, TRUE))
    /\ ages' = IF KeyOf(b) \in ToSet(ages) THEN Touched(KeyOf(b)) ELSE ages
    /\ UNCHANGED <<own, cached, opened, child, killed>>

-----------------------------------------------------------------------------
(* Commands: run_cmd_streaming reads the pipe all along; run_cmd_with_timeout *)
(* reads it once the command has ended.                                     *)

HasCommand(b) == \/ work[b].step = "install" /\ work[b].project.package
                 \/ work[b].step = "build"

\* A build command that is not one of the allowed programs is refused.
Spawn(b) ==
    /\ HasCommand(b) /\ child[b].state = "none"
    /\ \/ \E heir \in Heirs :
            /\ child' = [child EXCEPT ![b] = [state |-> "runs", left |-> Output,
                                              pipe |-> 0, heir |-> heir]]
            /\ UNCHANGED work
       \/ Goes(b, "failed") /\ UNCHANGED child
    /\ UNCHANGED <<own, cache, killed>>

\* Without package.json nothing is installed.
NoInstall(b) ==
    /\ work[b].step = "install" /\ ~work[b].project.package
    /\ Goes(b, "build")
    /\ UNCHANGED <<own, cache, child, killed>>

Writes(b) ==
    /\ child[b].state = "runs" /\ child[b].left > 0 /\ child[b].pipe < PipeSize
    /\ child' = [child EXCEPT ![b].left = @ - 1, ![b].pipe = @ + 1]
    /\ UNCHANGED <<work, own, cache, killed>>

\* The command ends, and may leave a program behind that holds its pipe.
Exits(b) ==
    /\ child[b].state = "runs" /\ child[b].left = 0 /\ b \notin Slow
    /\ child' = [child EXCEPT ![b].state = "exited"]
    /\ UNCHANGED <<work, own, cache, killed>>

HeirEnds(b) ==
    /\ child[b].state # "none" /\ child[b].heir
    /\ child' = [child EXCEPT ![b].heir = FALSE]
    /\ UNCHANGED <<work, own, cache, killed>>

\* Mutant: the output is read when the command has ended.
ReadsAtEnd(b) == child[b].state = "exited"

\* When the output is read: by threads of their own, or by wait_with_output.
Reads(b) == b \in Streaming \/ child[b].state = "exited"

Read(b) ==
    /\ child[b].pipe > 0 /\ Reads(b)
    /\ child' = [child EXCEPT ![b].pipe = @ - 1]
    /\ UNCHANGED <<work, own, cache, killed>>

\* A package manager that succeeds leaves all that the lockfile names.
Installed(b) ==
    /\ work[b].step = "install"
    /\ own' = [own EXCEPT ![b] = Whole]
    /\ Goes(b, IF HasCache(b, work[b].project) THEN "save" ELSE "build")

\* The first of the known output directories is the one that gets deployed, and
\* there may be none; the log is cut to its last bytes, which panics inside of a
\* character.
Built(b) ==
    /\ work[b].step = "build"
    /\ \E step \in Outcomes : Goes(b, step)
    /\ UNCHANGED own

\* The command has ended and its pipe is closed and empty.
Joined(b) ==
    /\ child[b].state = "exited" /\ child[b].pipe = 0 /\ ~child[b].heir
    /\ child' = [child EXCEPT ![b] = NoChild]
    /\ \/ Installed(b) \/ Built(b)
       \/ Goes(b, "failed") /\ UNCHANGED own
    /\ UNCHANGED <<cache, killed>>

\* Five minutes are over.  A command that ends by itself takes longer only if
\* it waits for a pipe that nobody reads.
Kill(b) ==
    /\ child[b].state = "runs"
    /\ b \in Slow \/ (child[b].left > 0 /\ child[b].pipe = PipeSize /\ ~Reads(b))
    /\ child' = [child EXCEPT ![b] = NoChild]
    /\ killed' = killed \cup {b}
    /\ Goes(b, "failed")
    /\ UNCHANGED <<own, cache>>

-----------------------------------------------------------------------------
(* save_build_cache.                                                        *)

\* The entry gets a directory; a node_modules that it has is removed.
SaveOpen(b) ==
    /\ work[b].step = "save"
    /\ cached' = [cached EXCEPT ![KeyOf(b)] = Nothing]
    /\ opened' = opened \ {KeyOf(b)}
    /\ ages' = IF KeyOf(b) \in opened \/ KeyOf(b) \notin ToSet(ages)
               THEN Touched(KeyOf(b)) ELSE ages
    /\ work' = [work EXCEPT ![b].step = "saving", ![b].todo = Pkg]
    /\ UNCHANGED <<own, child, killed>>

\* create_dir_all makes every directory on the way that is missing.
SavePackage(b, p) ==
    /\ work[b].step = "saving" /\ work[b].inside = Absent /\ p \in work[b].todo
    /\ cached' = [cached EXCEPT ![KeyOf(b)][p] = IF @ = "none" THEN "dir" ELSE @]
    /\ opened' = opened \cup {KeyOf(b)}
    /\ ages' = IF KeyOf(b) \in opened THEN ages ELSE Touched(KeyOf(b))
    /\ work' = [work EXCEPT ![b].todo = @ \ {p}, ![b].inside = p]
    /\ UNCHANGED <<own, child, killed>>

\* The copy fails in a directory that another build has removed meanwhile, and
\* at a link that another build has copied already; what there is gets removed,
\* and only a copy that succeeds goes on to evict.
SaveFails(b) ==
    /\ cached' = [cached EXCEPT ![KeyOf(b)] = Nothing]
    /\ opened' = opened \ {KeyOf(b)}
    /\ ages' = IF KeyOf(b) \in opened THEN Touched(KeyOf(b)) ELSE ages
    /\ work' = [work EXCEPT ![b].step = "build", ![b].todo = {}, ![b].inside = Absent]

SaveFile(b) ==
    /\ work[b].step = "saving" /\ work[b].inside # Absent
    /\ LET there == cached[KeyOf(b)][work[b].inside] IN
         \/ there \in {"none", "full"} /\ SaveFails(b)
         \/ /\ there # "none"
            /\ cached' = [cached EXCEPT ![KeyOf(b)][work[b].inside] = "full"]
            /\ work' = [work EXCEPT ![b].inside = Absent]
            /\ UNCHANGED <<opened, ages>>
    /\ UNCHANGED <<own, child, killed>>

-----------------------------------------------------------------------------
(* evict_build_cache.                                                       *)

Total(sizes) == Cardinality(UNION { {k} \X (1..sizes[k]) : k \in ToSet(ages) })

\* The entries, oldest first.
Victims == ages

EvictScan(b) ==
    /\ work[b].step = "saving" /\ work[b].inside = Absent /\ work[b].todo = {}
    /\ LET sizes == [k \in Key |-> SizeOf(cached[k])] IN
         work' = [work EXCEPT ![b].step = "evict", ![b].victims = Victims,
                              ![b].sizes = sizes, ![b].total = Total(sizes)]
    /\ UNCHANGED <<own, cache, child, killed>>

EvictDone(b) == work[b].total <= Limit \/ work[b].victims = <<>>

EvictEnd(b) ==
    /\ work[b].step = "evict" /\ EvictDone(b)
    /\ work' = [work EXCEPT ![b].step = "build", ![b].victims = <<>>,
                            ![b].sizes = [k \in Key |-> 0], ![b].total = 0]
    /\ UNCHANGED <<own, cache, child, killed>>

\* The oldest entry is removed; that fails if another build has removed it, or
\* puts files into it at the time, and then its size stays counted.
Evict(b) ==
    /\ work[b].step = "evict" /\ ~EvictDone(b)
    /\ LET k == Head(work[b].victims) IN
         \/ /\ k \in ToSet(ages)
            /\ cached' = [cached EXCEPT ![k] = Nothing]
            /\ opened' = opened \ {k}
            /\ ages' = Without(ages, k)
            /\ work' = [work EXCEPT ![b].victims = Tail(@), ![b].total = @ - work[b].sizes[k]]
         \/ /\ \/ k \notin ToSet(ages)
               \/ \E c \in Build \ {b} : work[c].step = "saving" /\ KeyOf(c) = k
            /\ work' = [work EXCEPT ![b].victims = Tail(@)]
            /\ UNCHANGED cache
    /\ UNCHANGED <<own, child, killed>>

-----------------------------------------------------------------------------
BuildsStep(b) ==
    \/ Start(b) \/ RestoreOpen(b) \/ RestoreFile(b) \/ Restored(b) \/ NoInstall(b)
    \/ Spawn(b) \/ Writes(b) \/ Exits(b) \/ HeirEnds(b) \/ Read(b) \/ Joined(b) \/ Kill(b)
    \/ SaveOpen(b) \/ SaveFile(b) \/ EvictScan(b) \/ Evict(b) \/ EvictEnd(b)
    \/ \E p \in Pkg : RestorePackage(b, p) \/ SavePackage(b, p)

-----------------------------------------------------------------------------
BuildsNext == \E b \in Build : BuildsStep(b)
BuildsSpec == /\ BuildsInit /\ [][BuildsNext]_buildVars
              /\ \A b \in Build : WF_buildVars(BuildsStep(b))

-----------------------------------------------------------------------------
BuildsTypeOK ==
    /\ \A b \in Build : own[b] \in [Pkg -> {"none", "dir", "full"}]
    /\ \A k \in Key : cached[k] \in [Pkg -> {"none", "dir", "full"}]
    /\ opened \subseteq ToSet(ages) /\ IsInjective(ages)

(* A build command runs on all of the dependencies, although what the cache *)
(* has given the build may lack some: another build may have been removing  *)
(* or writing the entry at the time (dashboard.rs:2440, 2483).              *)
BuiltOnWhole ==
    \A b \in Build :
        work[b].step = "build" /\ work[b].project.package => own[b] = Whole

(* While no build saves its dependencies, the cache is within its limit,    *)
(* although builds cut it down at the same time, from sizes that are old by *)
(* the time they are used (dashboard.rs:2541).                              *)
CacheUnderLimit ==
    (\A b \in Build : work[b].step \notin {"save", "saving", "evict"})
        => Total([k \in Key |-> SizeOf(cached[k])]) <= Limit

(* What builds do to the cache at the same time harms neither a build nor   *)
(* the limit.                                                               *)
CacheHolds == BuiltOnWhole /\ CacheUnderLimit

(* A build ends, and one that streams does not lose a command that would    *)
(* have ended by itself, however much that prints (dashboard.rs:3019).      *)
BuildsEnd ==
    \A b \in Build :
        work[b].project # Absent ~>
            /\ work[b].step \in Ended
            /\ b \in killed => b \in Slow \/ b \notin Streaming
=============================================================================
