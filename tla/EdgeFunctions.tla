--------------------------- MODULE EdgeFunctions ---------------------------
(***************************************************************************)
(* Edge functions of deployments (gateway/src/wasm_runtime.rs,             *)
(* route_manifest.rs, and their callers in dashboard.rs and main.rs): a    *)
(* deploy loads the handlers of its manifest one after the other into a    *)
(* bounded cache and then publishes the manifest; a request looks for a    *)
(* route, for its module, and executes it.  The order of eviction is kept  *)
(* under a mutex, the modules in a map beside it.                          *)
(***************************************************************************)
EXTENDS Integers, Sequences, FiniteSets, Functions

CONSTANTS Deploy, Caller, Handler,
          Routes,      \* [Deploy -> Seq(Handler)]: the handlers of a manifest
          MaxCached,   \* max_cached_modules
          MaxDeploys   \* bound of the model

\* Several routes may have the same handler.
ASSUME FunctionsAssumption ==
    /\ Routes \in [Deploy -> Seq(Handler)] /\ "none" \notin Deploy
    /\ MaxCached \in Nat \ {0} /\ MaxDeploys \in Nat

VARIABLES cached,     \* module_cache
          loadOrder,  \* module_order
          manifests,  \* deployments whose manifest is published
          load,       \* per deploy: handlers still to load, and whether the
                      \* first of them has had its turn with the mutex
          run,        \* per request: the handler it looks for
          overlapped, \* history: two deploys were loading at once
          latest,     \* history: the deploy that loaded last
          deploys

evars == <<cached, loadOrder, manifests, load, run, overlapped, latest, deploys>>

NotLoading == [left |-> <<>>, ordered |-> FALSE]
Loading(d) == load[d].left # <<>>
\* The handlers that a request to a deployment may be routed to.
Routed(d)  == Range(Routes[d])

EInit ==
    /\ cached = {} /\ loadOrder = <<>> /\ manifests = {}
    /\ load = [d \in Deploy |-> NotLoading]
    /\ run = [r \in Caller |-> "idle"]
    /\ overlapped = FALSE /\ latest = "none" /\ deploys = 0

StartDeploy(d) ==
    /\ ~Loading(d) /\ deploys < MaxDeploys
    /\ deploys' = deploys + 1
    /\ load' = [load EXCEPT ![d] = [left |-> Routes[d], ordered |-> FALSE]]
    /\ latest' = d
    /\ overlapped' = (overlapped \/ \E o \in Deploy : Loading(o))
    /\ UNCHANGED <<cached, loadOrder, manifests, run>>

Full    == Cardinality(cached) >= MaxCached /\ loadOrder # <<>>
\* The order after the eviction of the oldest module, if one is due.
Evicted == IF Full THEN Tail(loadOrder) ELSE loadOrder

\* load_module under the mutex: evict the oldest when full, become the newest.
Reordered(d, others) ==
    /\ Loading(d) /\ ~load[d].ordered
    /\ cached' = IF Full THEN cached \ {Head(loadOrder)} ELSE cached
    /\ loadOrder' = Append(others, Head(load[d].left))
    /\ load' = [load EXCEPT ![d].ordered = TRUE]
    /\ UNCHANGED <<manifests, run, overlapped, latest, deploys>>

\* Mutant: a module that is loaded again is in the order twice.
OrderTwice(d) == Reordered(d, Evicted)

\* A sequence without an element that it has at most once.
Without(s, k) ==
    IF k \notin Range(s) THEN s
    ELSE LET at == CHOOSE i \in DOMAIN s : s[i] = k
         IN  [i \in 1..(Len(s) - 1) |-> IF i < at THEN s[i] ELSE s[i + 1]]

Order(d) == Reordered(d, Without(Evicted, Head(load[d].left)))

\* load_module after the mutex; the manifest is published after the last.
Insert(d) ==
    /\ Loading(d) /\ load[d].ordered
    /\ cached' = cached \cup {Head(load[d].left)}
    /\ load' = [load EXCEPT ![d] = [left |-> Tail(@.left), ordered |-> FALSE]]
    /\ manifests' = IF Len(load[d].left) = 1 THEN manifests \cup {d} ELSE manifests
    /\ UNCHANGED <<loadOrder, run, overlapped, latest, deploys>>

\* A handler that is missing, too large or does not compile is passed over.
Skip(d) ==
    /\ Loading(d) /\ ~load[d].ordered
    /\ load' = [load EXCEPT ![d].left = Tail(@)]
    /\ manifests' = IF Len(load[d].left) = 1 THEN manifests \cup {d} ELSE manifests
    /\ latest' = "none"
    /\ UNCHANGED <<cached, loadOrder, run, overlapped, deploys>>

\* try_wasm_execute up to has_module: no route and no module fall through to
\* the static content.
Match(r) ==
    /\ run[r] = "idle"
    /\ \E d \in manifests : \E k \in Routed(d) \cap cached :
         run' = [run EXCEPT ![r] = k]
    /\ UNCHANGED <<cached, loadOrder, manifests, load, overlapped, latest, deploys>>

\* execute looks for the module again; it answers with what it printed, or
\* with an error, also when the module has been evicted in between.
Execute(r) ==
    /\ run[r] # "idle"
    /\ run' = [run EXCEPT ![r] = "idle"]
    /\ UNCHANGED <<cached, loadOrder, manifests, load, overlapped, latest, deploys>>

ENext == \/ \E d \in Deploy : StartDeploy(d) \/ Order(d) \/ Insert(d) \/ Skip(d)
         \/ \E r \in Caller : Match(r) \/ Execute(r)

ESpec == EInit /\ [][ENext]_evars

-----------------------------------------------------------------------------
(* Deploys that load one after the other keep the cache within its limit,  *)
(* reloads of a module that is cached included.  (Loads that overlap leave *)
(* modules that the order has forgotten, and no limit: section 5 of        *)
(* README.)                                                                *)
ModulesBounded == ~overlapped => Cardinality(cached) <= MaxCached

(* Nothing can be cached that eviction will never find (wasm_runtime.rs:91). *)
OrderCovers ==
    ~overlapped =>
      /\ IsInjective(loadOrder)
      /\ cached \subseteq Range(loadOrder)
      /\ \A i \in DOMAIN loadOrder :
            \/ loadOrder[i] \in cached
            \/ \E d \in Deploy : Loading(d) /\ load[d].ordered
                                  /\ Head(load[d].left) = loadOrder[i]

(* What was deployed last has its functions, if the cache has room for a   *)
(* module for each of its routes.  (Room for its handlers is not enough: a *)
(* second route to a handler evicts a module and adds none.)               *)
DeployedIsLoaded ==
    /\ latest # "none" /\ ~overlapped
    /\ ~Loading(latest) /\ Len(Routes[latest]) <= MaxCached
    => Routed(latest) \subseteq cached

(* The cache of modules and its order of eviction stay in step.            *)
FunctionsKept == ModulesBounded /\ OrderCovers /\ DeployedIsLoaded
=============================================================================
