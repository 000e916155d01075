----------------------------- MODULE MCNetwork -----------------------------
(* What gateways and clients tell each other and keep of it, in parts that  *)
(* share no state, side by side: the names of two gateways, the signaling   *)
(* server, the connections it helps to make, the fetches over one of them,  *)
(* the store and the caches of the JavaScript SDK.  A behaviour exercises   *)
(* the part it has chosen, the others keep their initial state.             *)
EXTENDS Naming, Signaling, BrowserFetch, SdkStorage, SdkCache, TLC

CONSTANTS g1, g2, pub, site, s1, s2, s3, b1, b2, page

VARIABLE part

\* The public key of the client is between those of the gateways.
KeyOrder == g1 :> 1 @@ pub :> 2 @@ g2 :> 3

\* One of the two browsers connects a second time.
BrowserOf == s1 :> b1 @@ s2 :> b1 @@ s3 :> b2

\* The number of fragments of each content.
PiecesOf == site :> 2 @@ page :> 1

\* What the calls of the preloader load.
Lists == s1 :> <<>> @@ s2 :> <<>> @@ s3 :> <<b1, b2>>

\* Bound: three calls of the preloader, or one beside two of the cached fetch.
Preloads == reading' = reading
Reads == \A p \in {s1, s2} : preload'[p].step = "new"

\* Bound: the records that the client signs are an update or the revocation.
ClientRecords ==
    \A r \in dht' \cup UNION { offered'[g] : g \in Gateway } :
        r.owner = pub => r.seq = 2 \/ Revoked(r)

\* Bound: the messages on the three connections together.
FewMessages == sent'[s1] + sent'[s2] + sent'[s3] <= 3

Symmetry == Permutations({s1, s2})

others == <<svars, bvars, fvars, storeVars, cacheVars>>

PartsInit ==
    /\ part \in {"names", "signaling", "browsers", "fetches", "store", "caches",
                "reads"}
    /\ Init /\ SInit /\ BInit /\ FInit /\ StorageInit /\ CacheInit
    /\ part # "fetches" => /\ wants = [f \in Fetch |-> site]
                           /\ link = "none"

PartsNext ==
    /\ UNCHANGED part
    /\ \/ part = "names" /\ Next /\ ClientRecords /\ UNCHANGED others
       \/ /\ part = "signaling" /\ SNext /\ FewMessages
          /\ UNCHANGED <<vars, bvars, fvars, storeVars, cacheVars>>
       \/ part = "browsers" /\ BNext /\ UNCHANGED <<vars, svars, fvars, storeVars, cacheVars>>
       \/ part = "fetches" /\ FNext /\ UNCHANGED <<vars, svars, bvars, storeVars, cacheVars>>
       \/ part = "store" /\ StorageNext /\ UNCHANGED <<vars, svars, bvars, fvars, cacheVars>>
       \/ part = "caches" /\ CacheNext /\ Preloads /\ UNCHANGED <<vars, svars, bvars, fvars, storeVars>>
       \/ part = "reads" /\ CacheNext /\ Reads /\ UNCHANGED <<vars, svars, bvars, fvars, storeVars>>

PartsSpec == PartsInit /\ [][PartsNext]_<<part, vars, others>>
=============================================================================
