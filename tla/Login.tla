-------------------------------- MODULE Login --------------------------------
(***************************************************************************)
(* Logging in to a gateway with GitHub (gateway/src/dashboard.rs): a login *)
(* draws a state token; GitHub sends the browser back with it, perhaps     *)
(* several times; the callback gets the user from GitHub and leaves a code *)
(* that the dashboard exchanges for the JWT.  GitHub is external.  Ages    *)
(* count up to one more than a lifetime.                                   *)
(***************************************************************************)
EXTENDS Integers, FiniteSets

CONSTANTS Attempt,      \* logins that are begun
          Callback,     \* requests of callbacks, each with the login it belongs to
          LoginOf,      \* the login whose state token a callback brings
          User,
          StateLife,    \* lifetime of a state token (10 minutes)
          CodeLife,     \* lifetime of a code (60 s)
          MaxCodes,     \* a callback evicts old codes once there are so many
          Unset

VARIABLES withSecret,   \* whether SHADOWMESH_AUTH_SECRET is set
          stateAge,     \* github_oauth_states: the age of each login's token, or Unset
          phase,        \* the next step of each callback
          codeAge,      \* auth_codes: the age of the code a callback left, or Unset
          session,      \* github_auth: the user of the gateway, or Unset
          drawn,        \* the logins that have been begun
          given         \* history: how often each callback's JWT was given out

loginVars == <<withSecret, stateAge, phase, codeAge, session, drawn, given>>

LoginInit ==
    /\ withSecret \in BOOLEAN
    /\ stateAge = [a \in Attempt |-> Unset]
    /\ phase = [b \in Callback |-> "new"]
    /\ codeAge = [b \in Callback |-> Unset]
    /\ session = Unset /\ drawn = {}
    /\ given = [b \in Callback |-> 0]

\* What retain leaves of a map.
Kept(ages, life) ==
    [x \in DOMAIN ages |-> IF ages[x] # Unset /\ ages[x] > life THEN Unset ELSE ages[x]]

\* github_login: old tokens are evicted, and a new one is drawn.
GithubLogin(a) ==
    /\ a \notin drawn /\ drawn' = drawn \cup {a}
    /\ stateAge' = [Kept(stateAge, StateLife) EXCEPT ![a] = 0]
    /\ UNCHANGED <<withSecret, phase, codeAge, session, given>>

\* Mutant: the token is looked up and not removed.
ConsumeNot(a) == UNCHANGED stateAge

Consume(a) == stateAge' = [stateAge EXCEPT ![a] = Unset]

\* github_callback: an unknown token is refused, one that is known is removed,
\* and refused if it is too old.
GithubCallback(b) ==
    LET a == LoginOf[b] IN
    /\ phase[b] = "new" /\ a \in drawn
    /\ \/ /\ stateAge[a] = Unset
          /\ phase' = [phase EXCEPT ![b] = "refused"] /\ UNCHANGED stateAge
       \/ /\ stateAge[a] # Unset /\ stateAge[a] > StateLife
          /\ phase' = [phase EXCEPT ![b] = "refused"] /\ Consume(a)
       \/ /\ stateAge[a] # Unset /\ stateAge[a] <= StateLife
          /\ phase' = [phase EXCEPT ![b] = "token"] /\ Consume(a)
    /\ UNCHANGED <<withSecret, codeAge, session, drawn, given>>

\* GitHub gives an access token for the callback's code.  A call to GitHub may
\* fail, and the browser may leave: the login has to be begun again.
AccessToken(b) ==
    /\ phase[b] = "token"
    /\ phase' = [phase EXCEPT ![b] = "user"]
    /\ UNCHANGED <<withSecret, stateAge, codeAge, session, drawn, given>>

Fails(b) ==
    /\ phase[b] \in {"token", "user"}
    /\ phase' = [phase EXCEPT ![b] = "refused"]
    /\ UNCHANGED <<withSecret, stateAge, codeAge, session, drawn, given>>

\* GitHub names the user, who becomes the gateway's; with a secret there is a
\* JWT, and a code for it.
FetchUser(b, u) ==
    LET codes == { d \in Callback : codeAge[d] # Unset }
        old == IF Cardinality(codes) >= MaxCodes THEN Kept(codeAge, CodeLife) ELSE codeAge
    IN  /\ phase[b] = "user"
        /\ phase' = [phase EXCEPT ![b] = "redirected"]
        /\ session' = u
        /\ IF withSecret
           THEN codeAge' = [old EXCEPT ![b] = 0] ELSE UNCHANGED codeAge
        /\ UNCHANGED <<withSecret, stateAge, drawn, given>>

\* exchange_auth_code: old codes are evicted, and the code is removed and
\* answered with its JWT, if it is still there.
ExchangeAuthCode(b) ==
    LET codes == Kept(codeAge, CodeLife) IN
    /\ phase[b] = "redirected"
    /\ codeAge' = [codes EXCEPT ![b] = Unset]
    /\ given' = [given EXCEPT ![b] = IF codes[b] = Unset THEN @ ELSE @ + 1]
    /\ UNCHANGED <<withSecret, stateAge, phase, session, drawn>>

\* The clean-up task of main.rs.
Sweep ==
    /\ stateAge' = Kept(stateAge, StateLife) /\ codeAge' = Kept(codeAge, CodeLife)
    /\ UNCHANGED <<withSecret, phase, session, drawn, given>>

Grow ==
    LET Older(ages, life) ==
          [x \in DOMAIN ages |-> IF ages[x] # Unset /\ ages[x] <= life
                                 THEN ages[x] + 1 ELSE ages[x]]
    IN  /\ stateAge' = Older(stateAge, StateLife) /\ codeAge' = Older(codeAge, CodeLife)
        /\ UNCHANGED <<withSecret, phase, session, drawn, given>>

LoginNext ==
    \/ \E a \in Attempt : GithubLogin(a)
    \/ \E b \in Callback :
         \/ GithubCallback(b) \/ AccessToken(b) \/ Fails(b) \/ ExchangeAuthCode(b)
         \/ \E u \in User : FetchUser(b, u)
    \/ Sweep \/ Grow

\* The clean-up runs every minute, and time goes on.
LoginSpec == /\ LoginInit /\ [][LoginNext]_loginVars
             /\ WF_loginVars(Sweep) /\ WF_loginVars(Grow)

-----------------------------------------------------------------------------
(* "The code is single-use" (dashboard.rs:1640), and so is the state token: *)
(* however often the browser repeats a callback or the dashboard an         *)
(* exchange, before, during or after the calls to GitHub, one login gives   *)
(* one JWT at most.                                                         *)
GivenOnce ==
    \A b, c \in Callback :
        given[b] # 0 /\ given[c] # 0 /\ LoginOf[b] = LoginOf[c] => b = c /\ given[b] = 1

(* What nobody asks for is forgotten ("bound memory growth",                *)
(* dashboard.rs:1647): the maps become empty again after the last login.    *)
Forgotten ==
    []<>(/\ \A a \in Attempt : stateAge[a] = Unset
         /\ \A b \in Callback : codeAge[b] = Unset)

(* Both: what GivenOnce says of each step, and what Forgotten says of every *)
(* behaviour.                                                               *)
LoginsOnce == [][GivenOnce']_loginVars /\ Forgotten
=============================================================================
