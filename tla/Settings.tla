------------------------------ MODULE Settings ------------------------------
(***************************************************************************)
(* The environment of a deployment (atlas.config.Settings), the validators *)
(* that refuse one, and what build_graph and create_app make of it         *)
(* (atlas.orchestration.graph, atlas.tools, atlas.adapter_engine).         *)
(*                                                                         *)
(* A configuration s is a record.  Variables that belong together are the  *)
(* set of those with content (s.vault, s.google, s.slack, s.oidc, s.email, *)
(* s.upstash, s.proxy_auth); s.db and s.vault_token are "unset", "blank"   *)
(* (present and empty, as in .env.example) or "set", because the code asks *)
(* both whether they are None and whether they are empty.  An address is   *)
(* the range it belongs to, an IPv4-mapped one that of the IPv4 address.   *)
(***************************************************************************)
EXTENDS Integers, FiniteSets

CONSTANT None

AllOrNone(have, all) == have \cap all \in {{}, all}

APPROLE == {"role_id", "secret_id"}
OAUTH_CLIENT == {"client_id", "client_secret", "redirect_uri"}
OIDC == {"issuer", "audience", "jwks_uri"}
UPSTASH == {"url", "token"}
EMAIL == {"key", "from"}
PROXY_AUTH == {"username", "password"}
-----------------------------------------------------------------------------
(* ------------------------------ properties ----------------------------- *)

oidc_enabled(s) == s.oidc = OIDC
rate_limit_configured(s) == s.rate_limit_enabled /\ s.upstash = UPSTASH
email_configured(s) == s.email = EMAIL

vault_configured(s) ==
    /\ "addr" \in s.vault
    /\ s.vault_token = "set" \/ APPROLE \subseteq s.vault

oauth_configured(s, provider) ==
    (IF provider = "google" THEN s.google ELSE s.slack) = OAUTH_CLIENT

oauth_routes_enabled(s) == oauth_configured(s, "google") \/ oauth_configured(s, "slack")
-----------------------------------------------------------------------------
(* ------------------------------ validators ----------------------------- *)

validate_vault_config(s) ==
    /\ AllOrNone(s.vault, APPROLE)
    /\ "addr" \in s.vault => s.vault_token = "set" \/ APPROLE \subseteq s.vault

(* Only an address that is not a name is judged.                           *)
assert_proxy_host_not_blocked(host) ==
    host \notin {"loopback", "link_local", "multicast", "unspecified"}

ProxyUrlAllowed(url, auth) ==
    /\ url.scheme \in {"http", "https"}
    /\ url.host # "" /\ ~url.userinfo
    /\ auth => url.scheme = "https"
    /\ assert_proxy_host_not_blocked(url.host)

validate_adapter_egress_proxy(s) ==
    /\ AllOrNone(s.proxy_auth, PROXY_AUTH)
    /\ s.proxy_auth # {} => s.proxy_url # None
    /\ s.proxy_url # None => ProxyUrlAllowed(s.proxy_url, s.proxy_auth # {})

validate_google_oauth_config(s) == AllOrNone(s.google, OAUTH_CLIENT)
validate_slack_oauth_config(s) == AllOrNone(s.slack, OAUTH_CLIENT)

(* No partial OIDC configuration falls back to the header shim.            *)
validate_oidc_config(s) ==
    /\ AllOrNone(s.oidc, OIDC)
    /\ oidc_enabled(s) => s.oidc_scheme \in {"https", "local"} \/ s.oidc_allow_insecure_http

validate_rate_limit_config(s) ==
    /\ s.rate_limit_requests > 0 /\ s.rate_limit_window_seconds > 0
    /\ s.rate_limit_enabled => AllOrNone(s.upstash, UPSTASH)

validate_embedding_config(s) ==
    /\ s.embedding_dim > 0 /\ s.embedding_model # ""
    /\ s.embedding_model = "voyage-3" => s.embedding_dim = 1024
    /\ s.voyage => s.embedding_model = "voyage-3"

validate_extraction_config(s) ==
    /\ s.extraction_max_entities > 0 /\ s.extraction_max_relations > 0
    /\ s.kg_extraction_enabled => s.openrouter /\ s.extraction_model # ""

validate_responder_llm_config(s) ==
    s.responder_llm_enabled => s.openrouter /\ s.responder_model # ""

validate_email_config(s) == AllOrNone(s.email, EMAIL)

validate_oauth_state_secret(s) ==
    oauth_routes_enabled(s) => s.oauth_state_secret \/ s.oauth_allow_insecure_state

(* Fault: the validator is missing.                                        *)
validate_oauth_vault_config_Missing(s) == TRUE

(* A database does not go with a vault that forgets.                       *)
validate_oauth_vault_config(s) ==
    oauth_routes_enabled(s) /\ s.db = "set" => vault_configured(s)

Valid(s) ==
    /\ validate_vault_config(s) /\ validate_adapter_egress_proxy(s)
    /\ validate_google_oauth_config(s) /\ validate_slack_oauth_config(s)
    /\ validate_oidc_config(s) /\ validate_rate_limit_config(s)
    /\ validate_embedding_config(s) /\ validate_extraction_config(s)
    /\ validate_responder_llm_config(s) /\ validate_email_config(s)
    /\ validate_oauth_state_secret(s) /\ validate_oauth_vault_config(s)
-----------------------------------------------------------------------------
(* ---------------------------- the factories ---------------------------- *)

(* "if settings.database_url": an empty secret is false, and not None.     *)
make_checkpointer(s) ==
    IF s.db = "set" THEN "postgres" ELSE IF s.sqlite_path THEN "sqlite" ELSE "memory"
make_audit_log(s) == IF s.db = "set" THEN "postgres" ELSE "memory"
make_policy_store(s) == IF s.db = "set" THEN "postgres" ELSE "memory"
make_knowledge_graph(s) == IF s.db = "set" THEN "postgres" ELSE "memory"
make_credential_vault(s) == IF vault_configured(s) THEN "hashicorp" ELSE "memory"
build_credential_resolver(s) == s.db = "set"

(* A token that is not None is used, were it empty, before an AppRole.     *)
_build_client(s) == s.vault_token = "set" \/ (s.vault_token = "unset" /\ APPROLE \subseteq s.vault)

build_authenticator(s) == oidc_enabled(s)
build_rate_limiter(s) == rate_limit_configured(s)
-----------------------------------------------------------------------------
(* -------------------- schemas and the egress policy -------------------- *)

(* A schema is well formed: what it copies is declared, and a permission   *)
(* taken from an argument is taken from one that is always there.          *)
ToolSchema(x) ==
    /\ x.payload \subseteq {a.name : a \in x.args}
    /\ x.resource_permission_arg # None =>
          \E a \in x.args : a.name = x.resource_permission_arg /\ a.type = "str" /\ a.required

(* A directory that is missing or empty has no schemas.                    *)
load_schema_dir(s) == s.schemas # {} /\ \A x \in s.schemas : ToolSchema(x)

assert_host_allowed(url, allowlist) ==
    url.scheme = "https" /\ ~url.userinfo /\ url.host # "" /\ url.host \in allowlist

_READ_TIER_ALLOWLIST == {}

_validate_security(x, allowlist) ==
    /\ x.risk_tier = "read" => x.name \in _READ_TIER_ALLOWLIST
    /\ x.risk_tier # "read" => x.required_permission # None
    /\ assert_host_allowed(x.endpoint, allowlist)

EgressRoute(url) == [host |-> url.host, port |-> IF url.port = None THEN 443 ELSE url.port, path |-> url.path]
build_egress_policy(s) ==
    [hosts |-> s.allowlist, routes |-> {EgressRoute(x.endpoint) : x \in s.schemas}]

assert_allowed(policy, url) ==
    assert_host_allowed(url, policy.hosts) /\ EgressRoute(url) \in policy.routes

make_adapter_transport(s) == IF s.proxy_url # None THEN "proxy" ELSE "direct"

(* Fault: the first usable address will do.                                *)
resolve_safe_ip_AnyUsable(addresses) ==
    IF "global" \in addresses THEN addresses ELSE {}

(* The addresses a host may be reached at: none, unless all are public.    *)
resolve_safe_ip(addresses) ==
    IF addresses \subseteq {"global"} THEN addresses ELSE {}
-----------------------------------------------------------------------------
(* ------------------------------ the tools ------------------------------ *)

(* The fixed addresses the hand-written senders post to.                   *)
Api(host) == [scheme |-> "https", userinfo |-> FALSE, host |-> host, port |-> None, path |-> "/api"]

Tool(name, provider, scopes, live, endpoint) ==
    [name |-> name, provider |-> provider, scopes |-> scopes, live |-> live, schema |-> FALSE,
     endpoint |-> endpoint]

_resolve_email_sender(s) == email_configured(s) /\ s.db # "unset"
_resolve_slack_sender(s) == s.slack_bot_token /\ s.db # "unset"
_resolve_oauth_tools(s) == build_credential_resolver(s) /\ s.db # "unset"

SearchTool == Tool("search", None, {}, TRUE, None)
SendEmailTool(s) == Tool("send_email", None, {}, _resolve_email_sender(s), Api("api.resend.com"))
SlackPostTool(s) == Tool("slack_post", None, {}, _resolve_slack_sender(s), Api("slack.com"))
GmailSendTool(live) == Tool("gmail_send", "google", {"gmail.send"}, live, Api("gmail.googleapis.com"))
CalendarCreateEventTool(live) ==
    Tool("calendar_create_event", "google", {"calendar.events"}, live, Api("www.googleapis.com"))
SlackPostAsUserTool(live) == Tool("slack_post_as_user", "slack", {"chat:write"}, live, Api("slack.com"))

(* Without a resolver the user's tools are registered, and not live.       *)
_register_oauth_tools(live) ==
    {GmailSendTool(live), CalendarCreateEventTool(live), SlackPostAsUserTool(live)}

default_registry(s) ==
    {SearchTool, SendEmailTool(s), SlackPostTool(s)} \cup _register_oauth_tools(_resolve_oauth_tools(s))

_SchemaTool(s, x) ==
    [name |-> x.name, provider |-> x.provider, scopes |-> x.required_scopes,
     live |-> build_credential_resolver(s), schema |-> TRUE, endpoint |-> x.endpoint]

(* A schema takes the place of the hand-written tool of its name.          *)
_apply_adapter_engine(s, registry) ==
    {t \in registry : t.name \notin {x.name : x \in s.schemas}} \cup {_SchemaTool(s, x) : x \in s.schemas}

Registry(s) ==
    IF s.adapter_engine_enabled THEN _apply_adapter_engine(s, default_registry(s)) ELSE default_registry(s)

(* build_graph and create_app come to an end without an exception.         *)
Boots(s) ==
    /\ Valid(s)
    /\ vault_configured(s) => _build_client(s)
    /\ s.adapter_engine_enabled =>
          /\ load_schema_dir(s)
          /\ make_adapter_transport(s) = "proxy" => ProxyUrlAllowed(s.proxy_url, s.proxy_auth # {})
          /\ \A x \in s.schemas : _validate_security(x, s.allowlist)
=============================================================================
