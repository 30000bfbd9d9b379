------------------------------ MODULE MCService ------------------------------
(* Many environments are booted; requests run in a few of them.            *)
EXTENDS Service, TLC

CONSTANT MaxConnects

A == [user_id |-> "ana", org_id |-> "acme"]
B == [user_id |-> "ana", org_id |-> "globex"]     \* of the same name, in another organisation
C == [user_id |-> "cy", org_id |-> None]

MCPeople == {A, B, C}
MCEmailOf == A :> "ana@acme" @@ B :> "ana@globex" @@ C :> "cy@home"
MCAccountsOf == A :> {"ana@acme", "ana@home"} @@ B :> {"ana@globex"} @@ C :> {}
MCScopesOf == "slack" :> {{"chat:write"}} @@ "google" :> {{"gmail.send"}}     \* no calendar
MCIpOf == A :> [ip |-> "office"] @@ B :> [ip |-> "office"] @@ C :> [ip |-> "home"]

Url(scheme, host, path) ==
    [scheme |-> scheme, userinfo |-> FALSE, host |-> host, port |-> None, path |-> path]
Args == {[name |-> "channel", type |-> "str", required |-> TRUE], [name |-> "text", type |-> "str", required |-> TRUE]}
Schema(name, path) ==
    [name |-> name, risk_tier |-> "send", required_permission |-> <<"tool", name>>,
     resource_permission_arg |-> "channel", provider |-> "slack", required_scopes |-> {"chat:write"},
     endpoint |-> Url("https", "slack.com", path), args |-> Args, payload |-> {"channel", "text"}]
PostAsUser == Schema("slack_post_as_user", "/api/chat.postMessage")

Base ==
    [db |-> "unset", sqlite_path |-> FALSE, vault |-> {}, vault_token |-> "unset",
     google |-> {}, slack |-> {}, oauth_state_secret |-> TRUE, oauth_allow_insecure_state |-> FALSE,
     oidc |-> {}, oidc_scheme |-> "https", oidc_allow_insecure_http |-> FALSE,
     rate_limit_enabled |-> TRUE, upstash |-> {}, rate_limit_requests |-> 1, rate_limit_window_seconds |-> 60,
     email |-> {}, slack_bot_token |-> FALSE, openrouter |-> FALSE, kg_extraction_enabled |-> FALSE,
     extraction_model |-> "m", extraction_max_entities |-> 20, extraction_max_relations |-> 20,
     responder_llm_enabled |-> FALSE, responder_model |-> "m",
     voyage |-> FALSE, embedding_model |-> "voyage-3", embedding_dim |-> 1024,
     adapter_engine_enabled |-> FALSE, schemas |-> {PostAsUser}, allowlist |-> {"slack.com"},
     proxy_url |-> None, proxy_auth |-> {}]

Production(p) == [Base EXCEPT !.db = "set", !.vault = {"addr"}, !.vault_token = "set", !.oidc = OIDC,
                              !.google = IF p = "google" THEN OAUTH_CLIENT ELSE {},
                              !.slack = IF p = "slack" THEN OAUTH_CLIENT ELSE {}]
Proxy == [scheme |-> "https", userinfo |-> FALSE, host |-> "egress.internal"]

(* Where requests run: production with Google; production with Slack by    *)
(* schema; behind a proxy and a limiter; a laptop; and, were it to start,  *)
(* production without a vault.                                             *)
Busy ==
    { Production("google"),
      [Production("slack") EXCEPT !.adapter_engine_enabled = TRUE],
      [Production("slack") EXCEPT !.adapter_engine_enabled = TRUE, !.proxy_url = Proxy, !.upstash = UPSTASH],
      [Base EXCEPT !.google = OAUTH_CLIENT, !.upstash = UPSTASH],
      [Production("google") EXCEPT !.vault = {}, !.vault_token = "unset"] }

(* What is only started: every mixture of the variables that the factories *)
(* look at together, and each validator's cases.                           *)
Mixed ==
    {[Base EXCEPT !.db = db, !.sqlite_path = sq, !.vault = v, !.vault_token = vt, !.google = g, !.email = e,
                  !.slack_bot_token = bot, !.adapter_engine_enabled = engine] :
        db \in {"unset", "blank", "set"}, sq \in BOOLEAN,
        v \in {{}, {"addr"}, {"addr"} \cup APPROLE, {"addr", "role_id"}}, vt \in {"unset", "blank", "set"},
        g \in {{}, {"client_id"}, OAUTH_CLIENT}, e \in {{}, {"key"}, EMAIL}, bot \in BOOLEAN, engine \in BOOLEAN}

Odd ==
    {[Base EXCEPT !.oidc = o, !.oidc_scheme = sc, !.oidc_allow_insecure_http = i] :
        o \in SUBSET OIDC, sc \in {"https", "local", "http"}, i \in BOOLEAN}
    \cup {[Base EXCEPT !.adapter_engine_enabled = TRUE, !.schemas = x, !.allowlist = l] :
        x \in {{}, {PostAsUser}, {[PostAsUser EXCEPT !.risk_tier = "read"]},
               {[PostAsUser EXCEPT !.required_permission = None]}, {[PostAsUser EXCEPT !.payload = {"ts"}]},
               {[PostAsUser EXCEPT !.resource_permission_arg = "ts"]},
               {[PostAsUser EXCEPT !.endpoint.scheme = "http"]}},
        l \in {{}, {"slack.com"}}}
    \cup {[Base EXCEPT !.adapter_engine_enabled = TRUE, !.proxy_url = [Proxy EXCEPT !.scheme = sc, !.host = h],
                       !.proxy_auth = a] :
        sc \in {"http", "https", "socks"}, h \in {"", "egress.internal", "loopback"}, a \in SUBSET PROXY_AUTH}
    \cup {[Base EXCEPT !.rate_limit_requests = n, !.upstash = u] : n \in {0, 1}, u \in SUBSET UPSTASH}
    \cup {[Base EXCEPT !.slack = OAUTH_CLIENT, !.oauth_state_secret = x, !.oauth_allow_insecure_state = i] :
        x \in BOOLEAN, i \in BOOLEAN}
    \cup {[Base EXCEPT !.openrouter = k, !.kg_extraction_enabled = x, !.responder_llm_enabled = r] :
        k \in BOOLEAN, x \in BOOLEAN, r \in BOOLEAN}
    \cup {[Base EXCEPT !.voyage = v, !.embedding_dim = d] : v \in BOOLEAN, d \in {0, 512, 1024}}

MCConfigs == Busy \cup Mixed \cup Odd

(* Requests that only the counter of requests would remember are left out. *)
Matters == requests' = requests \/ <<vault, flowVars, req, limitVars>>' # <<vault, flowVars, req, limitVars>>

(* A request takes the first free slot.                                    *)
FirstFree ==
    \A s \in Slots : req[s] = Idle /\ req'[s] # Idle => \A x \in Slots : x < s => req[x] # Idle

MCNext ==
    /\ app = "off" \/ env \in Busy
    /\ Next
    /\ Cardinality(states') <= MaxConnects
    /\ Matters /\ FirstFree

MCSpec == Init /\ [][MCNext]_vars /\ Fairness
=============================================================================
