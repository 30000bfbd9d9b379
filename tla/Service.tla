------------------------------ MODULE Service ------------------------------
(***************************************************************************)
(* The service around the agent: a deployment boots or is refused, callers *)
(* are authenticated and rate limited, users connect their Google and      *)
(* Slack accounts by OAuth, and tools act with the stored credentials,     *)
(* through the egress policy when a schema defines them.                   *)
(*                                                                         *)
(* A request is one step up to the first call that leaves the process, and *)
(* then one step per call to the vault, a provider, a resolver or an API;  *)
(* a call that fails ends it.  Requests answered without touching shared   *)
(* state leave a trace in the rate limiter only.  A principal is a record  *)
(* [user_id, org_id]; the roles play no part here.  Codes, states and      *)
(* tokens are unforgeable, and named by a number.                          *)
(***************************************************************************)
EXTENDS Settings

CONSTANTS
    Configs,        \* the environments a deployment may be started with
    People,         \* principals, each with a browser of his own
    EmailOf,        \* their "email" claim, or None
    AccountsOf,     \* the provider accounts (by email) each can sign in to
    ScopesOf,       \* the sets of scopes one may consent to at a provider
    IpOf,           \* the client address of a browser: [ip |-> ...]
    Rotating,       \* providers that replace a refresh token when it is used
    Addresses,      \* what a host name may resolve to
    Slots,          \* requests under way at once
    Nobody, Refused,
    MaxRequests, MaxConsents, MaxEvents   \* bounds on what the environment does

(* Principals are their user and organisation, and no address is one.      *)
ASSUME PeopleRecords == \A p \in People : p = [user_id |-> p.user_id, org_id |-> p.org_id]
ASSUME AddressRecords == \A b \in People : IpOf[b] = [ip |-> IpOf[b].ip] /\ IpOf[b] \notin People
ASSUME ConfigFields == \A c \in Configs : c.db \in {"unset", "blank", "set"} /\ c.rate_limit_requests \in Int

VARIABLES
    env,       \* Settings
    app,       \* "off", "up" or "refused"
    vault,     \* the credential vault: key -> credential
    issued,    \* the providers: how many refresh tokens were issued,
    accepted,  \* and those still accepted
    states,    \* OAuth states issued,
    expired,   \* the nonces of those that are too old,
    cookie,    \* per browser: the nonce in the pending cookie, or 0,
    codes,     \* codes the providers issued,
    redeemed,  \* and those exchanged
    req,       \* per slot: the request under way
    hits,      \* the rate limiter's window: key -> requests
    requests, events   \* how much of each bound is used

(* For the properties.                                                     *)
VARIABLES
    asked, passed,  \* per caller: requests of the window, and those let through
    down,      \* the limiter failed in this window
    acked,     \* connections acknowledged,
    revoked,   \* and revoked since,
    raced,     \* those a refresh brought back,
    lost,      \* those whose refreshed token never got stored
    overtaken  \* slots whose refresh was overtaken by a revocation

idpVars == <<issued, accepted>>
flowVars == <<states, expired, cookie, codes, redeemed>>
limitVars == <<hits, asked, passed, down>>
connVars == <<acked, revoked, raced, lost, overtaken>>
bounds == <<requests, events>>
vars == <<env, app, vault, idpVars, flowVars, req, limitVars, connVars, bounds>>

Providers == {"google", "slack"}
Anonymous == [user_id |-> "anonymous", org_id |-> None]
Idle == [pc |-> "idle", who |-> None, key |-> None, code |-> None, cred |-> None, tool |-> None,
         ip |-> None]
-----------------------------------------------------------------------------
(* ---------------------- authentication and limiting -------------------- *)

(* as is whom the bearer token or the headers name, or Nobody.             *)
_principal_from_headers(as) == IF as \in People THEN as ELSE Anonymous
principal_from_token(as) == IF as \in People THEN as ELSE Refused
get_request_principal(as) ==
    IF build_authenticator(env) THEN principal_from_token(as) ELSE _principal_from_headers(as)

(* A caller is a principal, or an address.                                 *)
_identified_principal_key(principal) == <<"u", principal.org_id, principal.user_id>>

(* Fault: the organisation is not part of the key.                         *)
rate_limit_key_NoOrg(caller) ==
    IF caller \in People THEN <<"u", caller.user_id>> ELSE <<"ip", caller.ip>>

rate_limit_key(caller) ==
    IF caller \in People THEN _identified_principal_key(caller) ELSE <<"ip", caller.ip>>

CallerOf(principal, b) == IF principal = Anonymous THEN IpOf[b] ELSE principal
Callers == People \cup {IpOf[b] : b \in People}

(* What the environment does is bounded: requests sent, and failures,      *)
(* crashes, expiries and window changes.                                   *)
Request == app = "up" /\ requests < MaxRequests /\ requests' = requests + 1
Event == events < MaxEvents /\ events' = events + 1

(* One unit of the fixed window of a key; a refused request uses one too.  *)
acquire(caller) ==
    LET key == rate_limit_key(caller) IN
    /\ hits' = [k \in DOMAIN hits \cup {key} |->
                  IF k \notin DOMAIN hits THEN 1 ELSE IF k = key THEN hits[k] + 1 ELSE hits[k]]
    /\ asked' = [asked EXCEPT ![caller] = @ + 1]

allowed(caller) == hits'[rate_limit_key(caller)] <= env.rate_limit_requests

(* enforce_rate_limit lets the request through.                            *)
Pass(caller) ==
    /\ Request
    /\ IF build_rate_limiter(env)
       THEN /\ acquire(caller) /\ allowed(caller)
            /\ passed' = [passed EXCEPT ![caller] = @ + 1]
            /\ UNCHANGED down
       ELSE UNCHANGED limitVars

(* The answer is 429.                                                      *)
TooMany(caller) ==
    /\ Request /\ build_rate_limiter(env)
    /\ acquire(caller) /\ ~allowed(caller)
    /\ UNCHANGED <<env, app, vault, idpVars, flowVars, req, passed, down, connVars, events>>

(* The limiter's backend fails, and the request (one that asks for nothing *)
(* else) is let through.                                                   *)
FailOpen(caller) ==
    /\ Request /\ build_rate_limiter(env) /\ Event
    /\ asked' = [asked EXCEPT ![caller] = @ + 1]
    /\ passed' = [passed EXCEPT ![caller] = @ + 1]
    /\ down' = TRUE
    /\ UNCHANGED <<env, app, vault, idpVars, flowVars, req, hits, connVars>>

NextWindow ==
    /\ hits # <<>> /\ Event
    /\ hits' = <<>> /\ down' = FALSE
    /\ asked' = [c \in Callers |-> 0] /\ passed' = [c \in Callers |-> 0]
    /\ UNCHANGED <<env, app, vault, idpVars, flowVars, req, connVars, requests>>
-----------------------------------------------------------------------------
(* --------------------------- the credential vault ---------------------- *)

require_org_id(principal) == principal # Anonymous /\ principal.org_id # None
_key(principal, provider) == <<principal.org_id, principal.user_id, provider>>

put(key, credential) == vault' = [k \in DOMAIN vault \cup {key} |-> IF k = key THEN credential ELSE vault[k]]
delete(key) == vault' = [k \in DOMAIN vault \ {key} |-> vault[k]]
list_connected(principal) == {p \in Providers : _key(principal, p) \in DOMAIN vault}

Refreshing(key) == {s \in Slots : req[s].pc \in {"refresh", "store"} /\ req[s].key = key}

Revoked(key) ==
    /\ revoked' = revoked \cup {key}
    /\ overtaken' = overtaken \cup Refreshing(key)

(* Fault: an unavailable vault is taken for one without the credential.    *)
Revoke_Swallows(p, provider) ==
    LET key == _key(p, provider) IN
    /\ Pass(p) /\ require_org_id(p)
    /\ Revoked(key) /\ acked' = acked \ {key}
    /\ delete(key) \/ UNCHANGED vault
    /\ UNCHANGED <<env, app, idpVars, flowVars, req, raced, lost, events>>

(* DELETE /oauth/{provider}, answered once the vault has deleted; or 503,  *)
(* whether it has or not.  Also revoke of scripts/manage_credentials.      *)
Revoke(p, provider) ==
    LET key == _key(p, provider) IN
    /\ Pass(p) /\ require_org_id(p)
    /\ \/ delete(key) /\ Revoked(key) /\ UNCHANGED events
       \/ /\ Event
          /\ delete(key) \/ UNCHANGED vault
          /\ UNCHANGED <<revoked, overtaken>>
    /\ acked' = acked \ {key}
    /\ UNCHANGED <<env, app, idpVars, flowVars, req, raced, lost>>
-----------------------------------------------------------------------------
(* -------------------------- connecting an account ---------------------- *)

(* resolve_binding_email and issue_oauth_state: the state names the caller *)
(* and his email; the browser keeps its nonce in the pending cookie, where *)
(* that of a later connect replaces it.                                    *)
Connect(p, provider) ==
    LET nonce == Cardinality(states) + 1
        state == [nonce |-> nonce, user_id |-> p.user_id, org_id |-> p.org_id, provider |-> provider,
                  binding_email |-> EmailOf[p]]
    IN /\ Pass(p)
       /\ IF p.org_id # None /\ EmailOf[p] # None /\ oauth_configured(env, provider)
          THEN states' = states \cup {state} /\ cookie' = [cookie EXCEPT ![p] = nonce]
          ELSE UNCHANGED <<states, cookie>>
       /\ UNCHANGED <<env, app, vault, idpVars, expired, codes, redeemed, req, connVars, events>>

(* External: in some browser the authorization URL is opened, and consent  *)
(* given by one of the accounts at hand, to some of the scopes (Slack: to  *)
(* all).  The provider issues a code.                                      *)
Consent(b, state, account, scopes) ==
    /\ Cardinality(codes) < MaxConsents
    /\ account \in AccountsOf[b]
    /\ codes' = codes \cup {[state |-> state, by |-> b, account |-> account, scopes |-> scopes]}
    /\ UNCHANGED <<env, app, vault, idpVars, states, expired, cookie, redeemed, req, limitVars, connVars, bounds>>

(* The ten minutes of a state, and of its cookie, are over.                *)
Expire(state) ==
    /\ Event /\ state.nonce \notin expired
    /\ expired' = expired \cup {state.nonce}
    /\ cookie' = [b \in People |-> IF cookie[b] = state.nonce THEN 0 ELSE cookie[b]]
    /\ UNCHANGED <<env, app, vault, idpVars, states, codes, redeemed, req, limitVars, connVars, requests>>

consume_oauth_state(state) == state.nonce \notin expired
verify_oauth_pending_cookie(b, state) == cookie[b] = state.nonce
principal_from_payload(state) == [user_id |-> state.user_id, org_id |-> state.org_id]

principal_from_state(state, caller) ==
    IF caller \notin {Anonymous, Refused} /\ caller = principal_from_payload(state) THEN caller ELSE Refused

(* A bearer token decides; else the cookie of the browser; else, and only  *)
(* without OIDC, the headers.                                              *)
_resolve_callback_principal(b, state, as) ==
    IF as # Nobody /\ build_authenticator(env) THEN principal_from_state(state, principal_from_token(as))
    ELSE IF verify_oauth_pending_cookie(b, state) THEN principal_from_payload(state)
    ELSE IF build_authenticator(env) THEN Refused
    ELSE principal_from_state(state, _principal_from_headers(as))

(* _complete_oauth_callback up to the exchange.                            *)
Callback(s, code, provider, bound) ==
    /\ req[s] = Idle
    /\ IF /\ consume_oauth_state(code.state) /\ bound # Refused
          /\ code.state.provider = provider
          /\ principal_from_payload(code.state) = bound
       THEN req' = [req EXCEPT ![s] = [Idle EXCEPT !.pc = "exchange", !.who = bound,
                                                   !.key = _key(bound, provider), !.code = code]]
       ELSE UNCHANGED req
    /\ UNCHANGED <<env, app, vault, idpVars, flowVars, connVars, events>>

(* The provider's redirect, limited by address.                            *)
CallbackGet(s, code, provider, as) ==
    /\ Pass(IpOf[code.by])
    /\ Callback(s, code, provider, _resolve_callback_principal(code.by, code.state, as))

(* The same code and state posted by a client.                             *)
CallbackPost(s, code, provider, as) ==
    /\ get_request_principal(as) # Refused
    /\ Pass(CallerOf(get_request_principal(as), code.by))
    /\ Callback(s, code, provider, principal_from_state(code.state, get_request_principal(as)))

Release(s) == req' = [req EXCEPT ![s] = Idle]

(* Fault: the account that consented is not compared.                      *)
assert_provider_email_binding_Any(state, account) == TRUE

assert_provider_email_binding(state, account) == state.binding_email = account

(* The code is exchanged, once; then the account is compared with the      *)
(* email of the state.                                                     *)
ExchangeCode(s) ==
    LET code == req[s].code
        token == issued + 1
    IN /\ req[s].pc = "exchange"
       /\ \/ /\ code \notin redeemed
             /\ redeemed' = redeemed \cup {code}
             /\ issued' = token /\ accepted' = accepted \cup {token}
             /\ IF assert_provider_email_binding(code.state, code.account)
                THEN req' = [req EXCEPT ![s].pc = "put",
                          ![s].cred = [account |-> code.account, scopes |-> code.scopes, refresh |-> token]]
                ELSE Release(s)
             /\ UNCHANGED events
          \/ code \in redeemed /\ Release(s) /\ UNCHANGED <<redeemed, idpVars, events>>
          \/ Event /\ Release(s) /\ UNCHANGED <<redeemed, idpVars>>
          \/ /\ Event /\ Release(s)                   \* the account cannot be looked up
             /\ redeemed' = redeemed \cup {code}
             /\ UNCHANGED idpVars
       /\ UNCHANGED <<env, app, vault, states, expired, cookie, codes, limitVars, connVars, requests>>

(* vault.put and the redirect, which clears the pending cookie; or 503,    *)
(* whether the vault has stored the credential or not.                     *)
PutCredential(s) ==
    LET key == req[s].key
        store == put(key, req[s].cred) /\ revoked' = revoked \ {key} /\ lost' = lost \ {key}
    IN /\ req[s].pc = "put"
       /\ \/ /\ store
             /\ cookie' = [cookie EXCEPT ![req[s].code.by] = 0]
             /\ acked' = acked \cup {key}
             /\ UNCHANGED events
          \/ Event /\ store /\ UNCHANGED <<cookie, acked>>
          \/ Event /\ UNCHANGED <<vault, revoked, lost, cookie, acked>>
       /\ Release(s)
       /\ UNCHANGED <<env, app, idpVars, states, expired, codes, redeemed, limitVars, raced, overtaken, requests>>
-----------------------------------------------------------------------------
(* ------------------------- a tool with credentials --------------------- *)

(* A tool of the registry is executed for a principal.  get_access_token   *)
(* reads the vault; whether the token has expired is a matter of time.     *)
CallTool(s, p, t) ==
    LET key == _key(p, t.provider)
        call(pc, cred) == [pc |-> pc, who |-> p, key |-> key, code |-> None, cred |-> cred, tool |-> t,
                           ip |-> None]
    IN /\ req[s] = Idle /\ t.live /\ t.endpoint # None /\ Pass(p)
       /\ \/ t.provider = None /\ req' = [req EXCEPT ![s] = call("post", None)]
          \/ /\ t.provider # None /\ require_org_id(p) /\ key \in DOMAIN vault
             /\ t.scopes \subseteq vault[key].scopes
             /\ \E pc \in {"post", "refresh"} : req' = [req EXCEPT ![s] = call(pc, vault[key])]
       /\ overtaken' = overtaken \ {s}
       /\ UNCHANGED <<env, app, vault, idpVars, flowVars, acked, revoked, raced, lost, events>>

(* Fault: what the provider leaves out is not carried over.                *)
Refreshed_Drops(provider, cred, token) ==
    [cred EXCEPT !.refresh = IF provider \in Rotating THEN token ELSE 0]

(* The provider answers with a new refresh token, or without one; scopes   *)
(* it does not repeat are kept.                                            *)
Refreshed(provider, cred, token) ==
    [cred EXCEPT !.refresh = IF provider \in Rotating THEN token ELSE @]

(* The refresh token of a provider that rotates is replaced.               *)
Rotate(provider, old) ==
    IF provider \in Rotating
    THEN issued' = issued + 1 /\ accepted' = (accepted \ {old}) \cup {issued + 1}
    ELSE UNCHANGED idpVars

(* Fault: a refresh that was refused is tried again.                       *)
Refresh_Retries(s) ==
    LET old == req[s].cred.refresh IN
    /\ req[s].pc = "refresh"
    /\ IF old \in accepted
       THEN /\ Rotate(req[s].key[3], old)
            /\ req' = [req EXCEPT ![s].pc = "store", ![s].cred = Refreshed(req[s].key[3], @, issued + 1)]
       ELSE UNCHANGED <<idpVars, req>>
    /\ UNCHANGED <<env, app, vault, flowVars, limitVars, connVars, bounds>>

(* The refresh token is used; the provider refuses one it no longer knows. *)
(* A call that fails may have replaced the token all the same.             *)
Refresh(s) ==
    LET old == req[s].cred.refresh IN
    /\ req[s].pc = "refresh"
    /\ \/ /\ old \in accepted /\ Rotate(req[s].key[3], old)
          /\ req' = [req EXCEPT ![s].pc = "store", ![s].cred = Refreshed(req[s].key[3], @, issued + 1)]
          /\ UNCHANGED <<lost, events>>
       \/ old \notin accepted /\ Release(s) /\ UNCHANGED <<idpVars, lost, events>>
       \/ Event /\ Release(s) /\ UNCHANGED <<idpVars, lost>>
       \/ /\ Event /\ old \in accepted /\ Rotate(req[s].key[3], old)
          /\ Release(s) /\ lost' = lost \cup {req[s].key}
    /\ UNCHANGED <<env, app, vault, flowVars, limitVars, acked, revoked, raced, overtaken, requests>>

(* vault.put of the refreshed credential, whatever the vault holds by now; *)
(* when the vault fails the call fails, whether it has stored or not.      *)
StoreRefreshed(s) ==
    LET key == req[s].key
        store == /\ put(key, req[s].cred)
                 /\ raced' = IF s \in overtaken THEN raced \cup {key} ELSE raced
                 /\ UNCHANGED lost
    IN /\ req[s].pc = "store"
       /\ \/ store /\ req' = [req EXCEPT ![s].pc = "post"] /\ UNCHANGED events
          \/ Event /\ store /\ Release(s)
          \/ Event /\ lost' = lost \cup {key} /\ Release(s) /\ UNCHANGED <<vault, raced>>
       /\ UNCHANGED <<env, app, idpVars, flowVars, limitVars, acked, revoked, overtaken, requests>>

(* A hand-written sender posts to its fixed address.  A schema tool goes   *)
(* through the transport: the url is checked against the policy, and for a *)
(* direct connection the host is resolved, once, and the address pinned.   *)
Post(s) ==
    LET t == req[s].tool
        reach(ip) == req' = [req EXCEPT ![s].pc = "sent", ![s].ip = ip]
    IN /\ req[s].pc = "post"
       /\ IF ~t.schema THEN reach("fixed")
          ELSE IF ~assert_allowed(build_egress_policy(env), t.endpoint) THEN Release(s)
          ELSE IF make_adapter_transport(env) = "proxy" THEN reach("proxy")
          ELSE \E addresses \in SUBSET Addresses :
                  LET usable == resolve_safe_ip(addresses) IN
                  IF usable = {} THEN Release(s) ELSE \E ip \in usable : reach(ip)
       /\ UNCHANGED <<env, app, vault, idpVars, flowVars, limitVars, connVars, bounds>>

(* The answer, a redirect or an error: none leads to another request.      *)
Answered(s) ==
    /\ req[s].pc = "sent"
    /\ Release(s)
    /\ UNCHANGED <<env, app, vault, idpVars, flowVars, limitVars, connVars, bounds>>
-----------------------------------------------------------------------------
Boot ==
    /\ app = "off"
    /\ app' = IF Boots(env) THEN "up" ELSE "refused"
    /\ UNCHANGED <<env, vault, idpVars, flowVars, req, limitVars, connVars, bounds>>

(* The process dies: requests under way end, a vault in memory is gone,    *)
(* and a refreshed token that was not stored is lost.                      *)
Crash ==
    /\ app = "up" /\ Event
    /\ app' = "off"
    /\ vault' = IF make_credential_vault(env) = "memory" THEN <<>> ELSE vault
    /\ req' = [s \in Slots |-> Idle]
    /\ lost' = lost \cup {req[s].key : s \in {x \in Slots : req[x].pc = "store"}}
    /\ UNCHANGED <<env, idpVars, flowVars, limitVars, acked, revoked, raced, overtaken, requests>>

RequestStep(s) ==
    ExchangeCode(s) \/ PutCredential(s) \/ Refresh(s) \/ StoreRefreshed(s) \/ Post(s) \/ Answered(s)

Init ==
    /\ env \in Configs
    /\ app = "off" /\ vault = <<>> /\ req = [s \in Slots |-> Idle]
    /\ issued = 0 /\ accepted = {}
    /\ states = {} /\ expired = {} /\ codes = {} /\ redeemed = {} /\ cookie = [b \in People |-> 0]
    /\ hits = <<>> /\ down = FALSE
    /\ asked = [c \in Callers |-> 0] /\ passed = [c \in Callers |-> 0]
    /\ acked = {} /\ revoked = {} /\ raced = {} /\ lost = {} /\ overtaken = {}
    /\ requests = 0 /\ events = 0

Next ==
    \/ Boot \/ Crash \/ NextWindow
    \/ \E c \in Callers : TooMany(c) \/ FailOpen(c)
    \/ \E p \in People, provider \in Providers : Connect(p, provider) \/ Revoke(p, provider)
    \/ \E state \in states :
          \/ Expire(state)
          \/ \E b \in People : \E account \in AccountsOf[b], scopes \in ScopesOf[state.provider] :
                Consent(b, state, account, scopes)
    \/ \E s \in Slots :
          \/ RequestStep(s)
          \/ \E code \in codes, provider \in Providers : \E as \in {code.by, Nobody} :
                CallbackGet(s, code, provider, as) \/ CallbackPost(s, code, provider, as)
          \/ \E p \in People : \E t \in Registry(env) : CallTool(s, p, t)

Spec == Init /\ [][Next]_vars

(* Every call that leaves the process has a timeout.                       *)
Fairness == \A s \in Slots : WF_vars(RequestStep(s))

FairSpec == Spec /\ Fairness
-----------------------------------------------------------------------------
(* ------------------------------ properties ----------------------------- *)

Person(key) == CHOOSE p \in People : key \in {_key(p, provider) : provider \in Providers}

(* A stored credential is of the account with the email its owner had when *)
(* he connected, in whichever browser the authorization URL was opened, by *)
(* whichever account it was consented to, and wherever the callback came;  *)
(* and a tool acts with the account of the principal it runs for.          *)
BoundAccount ==
    /\ \A key \in DOMAIN vault : vault[key].account = EmailOf[Person(key)]
    /\ \A s \in Slots : req[s].pc = "sent" /\ req[s].tool.provider # None
                            => req[s].cred.account = EmailOf[req[s].who]

(* Once DELETE /oauth/{provider} is answered the vault is without the      *)
(* credential until the user connects again: through failures, restarts    *)
(* and other requests.  The one way out is a refresh that had read the     *)
(* credential before it was deleted, and stores what it got.               *)
RevokedStaysRevoked == revoked \cap DOMAIN vault \subseteq raced

(* A stored credential can be refreshed: with tool calls, reconnections    *)
(* and revocations interleaved, the vault ends up with a refresh token the *)
(* provider still accepts, unless its answer was lost, or the vault or the *)
(* process failed, after the provider had replaced the token.              *)
RotationKept ==
    \A key \in DOMAIN vault \ lost :
        \/ \E s \in Slots : req[s].pc = "store" /\ req[s].key = key
        \/ vault[key].refresh \in accepted

(* A schema tool's request, which carries a user's token, goes to a route  *)
(* of a loaded schema on an allowed host, over https, and to a public      *)
(* address or the proxy, whatever the host name resolves to.               *)
EgressContained ==
    \A s \in Slots : req[s].pc = "sent" /\ req[s].tool.schema =>
        LET url == req[s].tool.endpoint IN
        /\ url.scheme = "https" /\ url.host \in env.allowlist
        /\ \E x \in env.schemas : x.endpoint = url /\ x.name = req[s].tool.name /\ x.required_permission # None
        /\ req[s].ip = IF env.proxy_url = None THEN "global" ELSE "proxy"

(* In a window every caller gets his own budget and no more, whatever the  *)
(* others do: users of the same name in different organisations, and       *)
(* callers without a name behind different addresses.  An outage of the    *)
(* limiter lets everyone through.                                          *)
BudgetPerCaller ==
    app = "up" /\ ~down => \A c \in Callers :
        passed[c] = IF asked[c] < env.rate_limit_requests THEN asked[c] ELSE env.rate_limit_requests

(* A deployment that is up agrees on what outlives it.  Tools that act     *)
(* with a user's account are live only where the audit log, which knows    *)
(* what was done, is durable.  Where it is, so are the checkpoints, the    *)
(* policy and the knowledge, and an acknowledged connection outlives a     *)
(* crash.                                                                  *)
DurabilityAgrees ==
    app = "up" =>
        /\ \A t \in Registry(env) : t.live /\ t.provider # None => make_audit_log(env) = "postgres"
        /\ make_audit_log(env) = "postgres" =>
              /\ {make_checkpointer(env), make_policy_store(env), make_knowledge_graph(env)} = {"postgres"}
              /\ \A key \in acked : key[3] \in list_connected(Person(key))

(* "Return a real sender only when email is configured and audit is        *)
(* durable (Postgres)": no action leaves the process unless the log that   *)
(* records it is durable.  A DATABASE_URL that is present and empty, as in *)
(* .env.example, makes the senders of the deployment live over a log in    *)
(* memory.                                                                 *)
LiveSendsAudited ==
    app = "up" =>
        \A t \in Registry(env) : t.live /\ t.endpoint # None => make_audit_log(env) = "postgres"

(* A request is answered, or dies with the process.                        *)
RequestEnds == \A s \in Slots : req[s].pc # "idle" ~> req[s].pc = "idle"
=============================================================================
