--------------------------- MODULE MCGatewayParts ---------------------------
(* Parts of the gateway that share no state, side by side: a behaviour      *)
(* exercises the part it has chosen, the others keep their initial state.   *)
EXTENDS CircuitBreaker, ApiKeys, ConfigReload, EdgeFunctions, KvStore,
        RateLimits, TLC

CONSTANTS t1, t2, t3,
          w1, w2, n1, n2, k1, k2, h1, h2, h3, d1, d2, d3, q1,
          g1, g2, c1, c2, a1, a2, b1, b2, b3, u1, u2,
          v1, v2

VARIABLES part,
          withSecret, stateAge, phase, codeAge, session, drawn, given

Lg == INSTANCE Login WITH
        Attempt <- {a1, a2}, Callback <- {b1, b2, b3},
        LoginOf <- b1 :> a1 @@ b2 :> a1 @@ b3 :> a2, User <- {u1, u2},
        StateLife <- 1, CodeLife <- 1, MaxCodes <- 1, Unset <- None

KeysInUse == {<<n1, k1>>, <<n1, k2>>, <<n2, k1>>}

\* Two contents, one of which routes two paths to one handler; the other one
\* may be deployed twice at once.
HandlersOf == d1 :> <<h1, h2>> @@ d2 :> <<h1, h2>> @@ d3 :> <<h3, h3>>

lvars == <<withSecret, stateAge, phase, codeAge, session, drawn, given>>

Parts == {"breaker", "kv", "functions", "rates", "keys", "login", "config"}

PartsInit == /\ part \in Parts
             /\ Init /\ KvInit /\ EInit /\ RInit
             /\ KeysInit /\ Lg!LoginInit /\ ConfInit
             /\ part # "kv" => service = "kv"
             /\ part # "rates" => backend = "local"
             /\ part # "keys" => withRedis
             /\ part # "login" => withSecret
             /\ part # "config" => file = v1

PartsNext ==
    \/ /\ part = "breaker" /\ Next
       /\ UNCHANGED <<part, kvars, evars, rvars, keyVars, lvars, confVars>>
    \/ /\ part = "kv" /\ KvNext
       /\ UNCHANGED <<part, vars, evars, rvars, keyVars, lvars, confVars>>
    \/ /\ part = "functions" /\ ENext
       /\ UNCHANGED <<part, vars, kvars, rvars, keyVars, lvars, confVars>>
    \/ /\ part = "rates" /\ RNext
       /\ UNCHANGED <<part, vars, kvars, evars, keyVars, lvars, confVars>>
    \/ /\ part = "keys" /\ KeysNext
       /\ UNCHANGED <<part, vars, kvars, evars, rvars, lvars, confVars>>
    \/ /\ part = "login" /\ Lg!LoginNext
       /\ UNCHANGED <<part, vars, kvars, evars, rvars, keyVars, confVars>>
    \/ /\ part = "config" /\ ConfNext
       /\ UNCHANGED <<part, vars, kvars, evars, rvars, keyVars, lvars>>

\* The fairness of the breaker's own specification, and of Login's.
PartsFairness ==
    /\ \A t \in Task :
         WF_vars(part = "breaker" /\ pc[t] # "idle"
                   /\ (Allow(t) \/ GiveUp(t) \/ Record(t)))
    /\ WF_vars(part = "breaker" /\ CoolDown)
    /\ WF_lvars(part = "login" /\ Lg!Sweep) /\ WF_lvars(part = "login" /\ Lg!Grow)

PartsSpec == /\ PartsInit
             /\ [][PartsNext]_<<part, vars, kvars, evars, rvars, keyVars, lvars, confVars>>
             /\ PartsFairness

LoginsOnce == Lg!LoginsOnce
=============================================================================
