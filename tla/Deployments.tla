---------------------------- MODULE Deployments ----------------------------
(***************************************************************************)
(* Deployments at a gateway (gateway/src/dashboard.rs, deploy.rs): the     *)
(* list in memory and its copy in Redis, one key for each deployment and   *)
(* a sorted set that orders them.  The sessions of the builds are in       *)
(* BuildSessions.                                                          *)
(*                                                                         *)
(* A deployment is named by the hash of its content, so two repositories,  *)
(* or one that did not change, may yield the same deployment.  Abstracted: *)
(* what is downloaded and built (a step that succeeds or fails), owners    *)
(* and tenants (a refused request changes nothing).                        *)
(***************************************************************************)
EXTENDS Naturals, FiniteSets

CONSTANTS
    Job,           \* deploys and deletions that can be in progress at once
    Cid,            \* contents
    Repo,           \* repositories on GitHub
    ByUpload,       \* where a deployment comes from that is not a repository
    None,           \* no deployment, no content
    Faults,         \* whether calls of Redis fail and clients disconnect
    MaxJobs         \* bound: requests started in a behaviour

Origin == Repo \cup {ByUpload}

ASSUME DeployAssumption == None \notin Cid \cup Origin /\ MaxJobs \in Nat

VARIABLES
    head,           \* what a build of each repository yields (GitHub)
    listed,         \* deployments: Cid -> where it comes from, or None
    json,           \* the keys deployment:<cid> of Redis
    order,          \* the sorted set "deployments" of Redis
    domain,         \* owned names: a name for each origin -> its content
    serving,        \* contents with a process or a route manifest
    at, kind,       \* the next step of each task, and what it was asked for
    origin, new,    \* where its build comes from, what it yields
    old,            \* the deployment it removes
    clean,          \* history: no call of Redis failed for the task, and
                    \* nobody undid what it did
    kept,           \* history: deployments answered with success, not removed
    gone,           \* history: deployments removed, not deployed again
    jobs            \* requests started so far

store   == <<head, listed, json, order, domain, serving>>
task    == <<at, kind, origin, new, old>>
history == <<clean, kept, gone>>
deployVars == <<store, task, history, jobs>>

Kinds == {"stream", "zip", "redeploy", "webhook", "delete"}

BuildSteps  == {"download", "store", "domain", "serve"}
RedisSteps  == {"setJson", "zadd", "insert"}
RemoveSteps == {"remove", "del", "zrem"}

DeployTypeOK ==
    /\ head \in [Repo -> Cid]
    /\ listed \in [Cid -> Origin \cup {None}] /\ json \in [Cid -> Origin \cup {None}]
    /\ order \in SUBSET Cid /\ serving \in SUBSET Cid
    /\ domain \in [Origin -> Cid \cup {None}]
    /\ at \in [Job -> {"idle"} \cup BuildSteps \cup RedisSteps \cup RemoveSteps]
    /\ kind \in [Job -> Kinds] /\ origin \in [Job -> Origin \cup {None}]
    /\ new \in [Job -> Cid \cup {None}] /\ old \in [Job -> Cid \cup {None}]
    /\ clean \in [Job -> BOOLEAN] /\ kept \in SUBSET Cid /\ gone \in SUBSET Cid
    /\ jobs \in 0..MaxJobs

DeployInit ==
    /\ head \in [Repo -> Cid]
    /\ listed = [c \in Cid |-> None] /\ json = [c \in Cid |-> None]
    /\ order = {} /\ serving = {}
    /\ domain = [o \in Origin |-> None]
    /\ at = [t \in Job |-> "idle"] /\ kind = [t \in Job |-> "stream"]
    /\ origin = [t \in Job |-> None]
    /\ new = [t \in Job |-> None] /\ old = [t \in Job |-> None]
    /\ clean = [t \in Job |-> TRUE] /\ kept = {} /\ gone = {}
    /\ jobs = 0

Move(t, step) == at' = [at EXCEPT ![t] = step]

\* Where a task is: it has saved content c, or begun to remove it.
HasSaved(u, c) ==
    new[u] = c /\ at[u] \notin {"idle", "setJson"} \cup BuildSteps
HasRemoved(u, c) == old[u] = c /\ at[u] \in {"del", "zrem"}

\* Task t touches content c: others that are at work on c see it undone.
Undone(t, c) == { u \in Job \ {t} : HasSaved(u, c) \/ HasRemoved(u, c) }

Touch(t, c) == clean' = [u \in Job |-> clean[u] /\ u \notin Undone(t, c)]

-----------------------------------------------------------------------------
(* Requests.                                                               *)

BeginJob(t, k, o, n, c, step) ==
    /\ at[t] = "idle" /\ jobs < MaxJobs
    /\ jobs' = jobs + 1
    /\ kind' = [kind EXCEPT ![t] = k]
    /\ origin' = [origin EXCEPT ![t] = o]
    /\ new' = [new EXCEPT ![t] = n]
    /\ old' = [old EXCEPT ![t] = c]
    /\ clean' = [clean EXCEPT ![t] = TRUE]
    /\ Move(t, step)
    /\ UNCHANGED <<store, kept, gone>>

\* deploy_from_github spawns the build.
DeployFromGithub(t, r) == BeginJob(t, "stream", r, None, None, "download")

\* deploy_zip stores what the client sends.
DeployZip(t, c) ==
    BeginJob(t, "zip", ByUpload, c, None, "store")

\* redeploy_github builds the deployment's repository in the request itself.
Redeploy(t, c) ==
    /\ listed[c] \in Repo
    /\ BeginJob(t, "redeploy", listed[c], None, c, "download")

\* github_webhook takes a deployment of the repository, if there is one.
Webhook(t, r) ==
    /\ \/ \E c \in Cid : listed[c] = r /\ BeginJob(t, "webhook", r, None, c, "download")
       \/ /\ \A c \in Cid : listed[c] # r
          /\ BeginJob(t, "webhook", r, None, None, "download")

DeleteDeployment(t, c) ==
    BeginJob(t, "delete", None, None, c, "remove")

\* Somebody pushes to the repository.
Push(r, c) ==
    /\ head' = [head EXCEPT ![r] = c]
    /\ UNCHANGED <<listed, json, order, domain, serving, task, history, jobs>>

-----------------------------------------------------------------------------
(* Building: deploy_github_project, deploy_github_project_streaming.       *)

DownloadZip(t) ==
    /\ at[t] = "download"
    /\ new' = [new EXCEPT ![t] = head[origin[t]]]
    /\ Move(t, "store")
    /\ UNCHANGED <<store, kind, origin, old, history, jobs>>

\* Builds the project and stores the files: the content has its name.
StoreFiles(t) ==
    /\ at[t] = "store" /\ Move(t, "domain")
    /\ UNCHANGED <<store, kind, origin, new, old, history, jobs>>

\* Forgets what a task was about.
Rest(t) ==
    /\ Move(t, "idle")
    /\ kind' = [kind EXCEPT ![t] = "stream"]
    /\ origin' = [origin EXCEPT ![t] = None]
    /\ new' = [new EXCEPT ![t] = None]
    /\ old' = [old EXCEPT ![t] = None]

\* Nothing is listed when the download, the build or the store fails.
BuildFails(t) ==
    /\ at[t] \in {"download", "store"} /\ Rest(t)
    /\ UNCHANGED <<store, history, jobs>>

\* auto_assign_domain registers a name for the content.  The update of a name
\* that is owned is signed and published, and not kept (see Naming).  It may
\* find no name at all.
AssignDomain(t) ==
    /\ at[t] = "domain"
    /\ \/ /\ domain[origin[t]] = None
          /\ domain' = [domain EXCEPT ![origin[t]] = new[t]]
       \/ UNCHANGED domain
    /\ Move(t, IF kind[t] = "stream" THEN "serve" ELSE "setJson")
    /\ UNCHANGED <<head, listed, json, order, serving, kind, origin, new, old,
                   history, jobs>>

\* A dynamic deployment gets a process, unless it does not start; one with
\* edge functions gets a manifest.
Serve(t) ==
    /\ at[t] = "serve"
    /\ \/ serving' = serving \cup {new[t]}
       \/ UNCHANGED serving
    /\ Move(t, "setJson")
    /\ UNCHANGED <<head, listed, json, order, domain, kind, origin, new, old,
                   history, jobs>>

-----------------------------------------------------------------------------
(* Saving: save_to_redis, then the list in memory.  Redis gets the calls   *)
(* in the order they are made; one that fails may have been carried out,   *)
(* and is only logged.                                                     *)

SetJson(t) ==
    /\ at[t] = "setJson"
    /\ json' = [json EXCEPT ![new[t]] = origin[t]]
    /\ Touch(t, new[t])
    /\ gone' = gone \ {new[t]}
    /\ Move(t, "zadd")
    /\ UNCHANGED <<head, listed, order, domain, serving, kind, origin, new, old,
                   kept, jobs>>

Zadd(t) ==
    /\ at[t] = "zadd"
    /\ order' = order \cup {new[t]}
    /\ Touch(t, new[t])
    /\ Move(t, "insert")
    /\ UNCHANGED <<head, listed, json, domain, serving, kind, origin, new, old,
                   kept, gone, jobs>>

\* A call of Redis fails, and the rest of the saving or removing is left out.
RedisFails(t) ==
    /\ Faults
    /\ LET c == IF at[t] \in RedisSteps THEN new[t] ELSE old[t] IN
          clean' = [u \in Job |-> clean[u] /\ u # t /\ u \notin Undone(t, c)]
    /\ \/ /\ at[t] \in {"setJson", "zadd"} /\ Move(t, "insert")
          /\ UNCHANGED <<kind, origin, new, old>>
          /\ \/ UNCHANGED <<json, order>>
             \/ /\ at[t] = "setJson" /\ UNCHANGED order
                /\ json' = [json EXCEPT ![new[t]] = origin[t]]
             \/ /\ at[t] = "zadd" /\ UNCHANGED json
                /\ order' = order \cup {new[t]}
       \/ /\ at[t] \in {"del", "zrem"} /\ Rest(t)
          /\ \/ UNCHANGED <<json, order>>
             \/ /\ at[t] = "del" /\ UNCHANGED order
                /\ json' = [json EXCEPT ![old[t]] = None]
             \/ /\ at[t] = "zrem" /\ UNCHANGED json
                /\ order' = order \ {old[t]}
    /\ gone' = gone \ {new[t]}
    /\ UNCHANGED <<head, listed, domain, serving, kept, jobs>>

\* The task is answered with success.  Unless somebody undid what it did, or
\* is about to, its deployment is there to stay, and the one it removed is not.
Succeeds(t) ==
    /\ kept' = kept \cup
          { c \in {new[t]} \ {old[t], None} :
                clean[t] /\ \A u \in Job \ {t} : ~HasRemoved(u, c) }
    /\ gone' = (gone \ {new[t]}) \cup
          { c \in {old[t]} \ {new[t], None} :
                clean[t] /\ \A u \in Job \ {t} : ~HasSaved(u, c) }

Insert(t) ==
    /\ at[t] = "insert"
    /\ listed' = [listed EXCEPT ![new[t]] = origin[t]]
    /\ Touch(t, new[t])
    /\ IF old[t] = None
       THEN Rest(t) /\ Succeeds(t)
       ELSE /\ gone' = gone \ {new[t]} /\ Move(t, "remove")
            /\ UNCHANGED <<kind, origin, new, old, kept>>
    /\ UNCHANGED <<head, json, order, domain, serving, jobs>>

-----------------------------------------------------------------------------
(* Removing: delete_deployment, and redeploy_github and github_webhook     *)
(* after their build.  What serves the content is left alone.              *)

Remove(t) ==
    /\ at[t] = "remove"
    /\ listed' = [listed EXCEPT ![old[t]] = None]
    /\ kept' = kept \ {old[t]}
    /\ Touch(t, old[t])
    /\ IF kind[t] = "delete" /\ listed[old[t]] = None
       THEN Rest(t)
       ELSE Move(t, "del") /\ UNCHANGED <<kind, origin, new, old>>
    /\ UNCHANGED <<head, json, order, domain, serving, gone, jobs>>

\* Mutant: Redis is not told.
DelNever(t) ==
    /\ at[t] = "del" /\ Rest(t) /\ Succeeds(t)
    /\ UNCHANGED <<store, clean, jobs>>

Del(t) ==
    /\ at[t] = "del"
    /\ json' = [json EXCEPT ![old[t]] = None]
    /\ Touch(t, old[t])
    /\ Move(t, "zrem")
    /\ UNCHANGED <<head, listed, order, domain, serving, kind, origin, new, old,
                   kept, gone, jobs>>

Zrem(t) ==
    /\ at[t] = "zrem"
    /\ order' = order \ {old[t]}
    /\ Touch(t, old[t]) /\ Succeeds(t)
    /\ Rest(t)
    /\ UNCHANGED <<head, listed, json, domain, serving, jobs>>

-----------------------------------------------------------------------------
(* Interruptions.                                                          *)

\* axum drops the handler of a client that disconnects, at an await; builds
\* that were spawned go on.
ClientLeaves(t) ==
    /\ Faults
    /\ kind[t] # "stream" /\ at[t] \notin {"idle", "serve", "remove"}
    /\ Rest(t)
    /\ UNCHANGED <<store, history, jobs>>

\* load_all_from_redis: what the sorted set lists and has a key.
Loaded == [c \in Cid |-> IF c \in order THEN json[c] ELSE None]

\* The gateway ends and starts again.  Where Redis does not answer at the
\* start, the list is empty.
Restart ==
    /\ \/ listed' = Loaded /\ UNCHANGED kept
       \/ Faults /\ listed' = [c \in Cid |-> None] /\ kept' = {}
    /\ domain' = [o \in Origin |-> None] /\ serving' = {}
    /\ at' = [t \in Job |-> "idle"] /\ kind' = [t \in Job |-> "stream"]
    /\ origin' = [t \in Job |-> None]
    /\ new' = [t \in Job |-> None] /\ old' = [t \in Job |-> None]
    /\ clean' = [t \in Job |-> TRUE]
    /\ UNCHANGED <<head, json, order, gone, jobs>>

-----------------------------------------------------------------------------

JobStep(t) ==
    \/ DownloadZip(t) \/ StoreFiles(t) \/ BuildFails(t) \/ AssignDomain(t) \/ Serve(t)
    \/ SetJson(t) \/ Zadd(t) \/ RedisFails(t) \/ Insert(t)
    \/ Remove(t) \/ Del(t) \/ Zrem(t)

NewJob(t) ==
    \/ \E r \in Repo : DeployFromGithub(t, r) \/ Webhook(t, r)
    \/ \E c \in Cid : DeployZip(t, c) \/ Redeploy(t, c) \/ DeleteDeployment(t, c)

DeployNext ==
    \/ \E t \in Job : NewJob(t) \/ JobStep(t) \/ ClientLeaves(t)
    \/ \E r \in Repo, c \in Cid : Push(r, c)
    \/ Restart

DeploySpec == DeployInit /\ [][DeployNext]_deployVars

-----------------------------------------------------------------------------
(* Properties.                                                             *)

(* A deployment that was answered with success, and that nobody removed    *)
(* then or was removing at that moment, is listed and would be after a     *)
(* restart, whatever other deploys, deletions, redeploys and failures come *)
(* after it ("Persistent state across restarts", hosting-guide.md:251).    *)
KeptSurvives == \A c \in kept : listed[c] # None /\ Loaded[c] # None

(* A deployment that was removed with success, which nobody deployed again *)
(* then or later, is not listed, and no restart brings it back.            *)
GoneStaysGone == \A c \in gone : listed[c] = None /\ Loaded[c] = None

(* What a client was told last of a deployment holds, now and after a       *)
(* restart, whichever calls of Redis fail (dashboard.rs:1289, 3421).        *)
OutcomesLast == KeptSurvives /\ GoneStaysGone

(* What a redeploy or a webhook answers with success for is listed ("Clean *)
(* old deployment from Redis", "Remove old deployment if exists",          *)
(* dashboard.rs:1067 and 1190: the old one, not the new one).              *)
RedeployedIsListed ==
    [][\A t \in Job : Zrem(t) /\ kind[t] \in {"redeploy", "webhook"} /\ clean[t]
           => listed[new[t]] # None]_deployVars

(* A name that a deploy assigned leads to what it deployed ("Did the       *)
(* domain auto-update to the new CID?", testing-guide-phase2.md:104).      *)
DomainFollows ==
    [][\A t \in Job : Insert(t) /\ domain[origin[t]] # None
           => domain[origin[t]] = new[t]]_deployVars

Idle == \A t \in Job : at[t] = "idle"

(* Without faults, what is listed in memory is what a restart would load,  *)
(* when nobody deploys or deletes.                                         *)
RestMeansSaved == Idle => \A c \in Cid : listed[c] = None <=> Loaded[c] = None

(* What is served by a process or a manifest is a deployment, when nobody  *)
(* deploys or deletes.                                                     *)
IdleMeansListed == Idle => \A c \in serving : listed[c] # None

=============================================================================
