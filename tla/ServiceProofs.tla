--------------------------- MODULE ServiceProofs ---------------------------
(***************************************************************************)
(* Proofs about the service: every safety property of Service, for any     *)
(* number of users, browsers, accounts, requests and configurations.       *)
(*                                                                         *)
(* BaseInv says what the requests under way and the vault are made of; on  *)
(* it rests one inductive invariant for each property.  The effect of each *)
(* step of a request on the slots is a lemma of its own, which the proofs  *)
(* of the properties share.                                                *)
(***************************************************************************)
EXTENDS Service, TLAPS

(* The stages of a request.                                                *)
Pcs == {"idle", "exchange", "put", "refresh", "store", "post", "sent"}

(* Every slot holds a request, with all its fields.                        *)
Fields ==
    /\ req = [s \in Slots |-> req[s]]
    /\ \A s \in Slots :
          /\ req[s] = [pc |-> req[s].pc, who |-> req[s].who, key |-> req[s].key, code |-> req[s].code,
                       cred |-> req[s].cred, tool |-> req[s].tool, ip |-> req[s].ip]
          /\ req[s].pc \in Pcs

(* A process that is up has passed the checks of its start, and nothing is *)
(* under way without one.                                                  *)
Booted ==
    /\ env \in Configs
    /\ app = "up" => Boots(env)
    /\ \A s \in Slots : req[s].pc # "idle" => app = "up"

(* An OAuth state names a principal and his email, and was issued by a     *)
(* deployment that is configured for its provider.                         *)
StateOf(state) ==
    /\ principal_from_payload(state) \in People
    /\ state.provider \in Providers
    /\ state.binding_email = EmailOf[principal_from_payload(state)]
    /\ oauth_configured(env, state.provider) /\ Boots(env)

(* A credential of the account with the email of p.                        *)
CredOf(cred, p) ==
    /\ cred = [account |-> EmailOf[p], scopes |-> cred.scopes, refresh |-> cred.refresh]
    /\ cred.refresh \in Nat

(* States are issued to principals, and codes answer them.                 *)
Consents ==
    /\ \A state \in states : StateOf(state)
    /\ \A code \in codes : code.state \in states /\ code.by \in People

(* A callback acts for the principal of its state.                         *)
Connecting(r) ==
    /\ r.code \in codes
    /\ r.who = principal_from_payload(r.code.state)
    /\ r.key = _key(r.who, r.code.state.provider)
    /\ r.pc = "put" => CredOf(r.cred, r.who)

(* A call is of a tool of the registry, with a credential of the principal *)
(* it runs for.                                                            *)
Calling(r) ==
    /\ r.who \in People /\ r.tool \in Registry(env)
    /\ r.pc \in {"refresh", "store"} => r.tool.provider # None
    /\ r.tool.provider # None =>
          /\ CredOf(r.cred, r.who)
          /\ r.key \in {_key(r.who, provider) : provider \in Providers}

(* The requests under way.                                                 *)
Under ==
    \A s \in Slots :
       /\ req[s].pc \in {"exchange", "put"} => Connecting(req[s])
       /\ req[s].pc \in {"refresh", "store", "post", "sent"} => Calling(req[s])

(* The vault holds credentials of the principals of its keys.              *)
Stored ==
    \A key \in DOMAIN vault : \E p \in People, provider \in Providers :
        key = _key(p, provider) /\ CredOf(vault[key], p)

(* The inductive invariant under all the theorems of this module.          *)
BaseInv == issued \in Nat /\ Fields /\ Booted /\ Consents /\ Under /\ Stored

(* A vault key has one owner and one provider.                             *)
LEMMA KeyPerson ==
    ASSUME NEW p \in People, NEW q \in People, NEW v, NEW w, _key(p, v) = _key(q, w)
    PROVE  p = q /\ v = w
  BY PeopleRecords DEF _key

(* The invariant holds at the start.                                       *)
LEMMA BaseInit == Init => BaseInv
  BY DEF Init, BaseInv, Fields, Booted, Consents, Under, Stored, Idle, Pcs, Boots

(* What setting two fields of a request makes of it.                       *)
LEMMA WithCred ==
    ASSUME Fields, NEW s \in Slots, NEW a, NEW b, req' = [req EXCEPT ![s].pc = a, ![s].cred = b]
    PROVE  req' = [req EXCEPT ![s] =
                      [pc |-> a, who |-> req[s].who, key |-> req[s].key, code |-> req[s].code,
                       cred |-> b, tool |-> req[s].tool, ip |-> req[s].ip]]
<1>1. req' = [req EXCEPT ![s] = [req[s] EXCEPT !.pc = a, !.cred = b]]
  BY DEF Fields
<1>2. ASSUME NEW r, NEW R, R = [r EXCEPT !.pc = a, !.cred = b],
             r = [pc |-> r.pc, who |-> r.who, key |-> r.key, code |-> r.code, cred |-> r.cred,
                  tool |-> r.tool, ip |-> r.ip]
      PROVE  R = [pc |-> a, who |-> r.who, key |-> r.key, code |-> r.code, cred |-> b,
                  tool |-> r.tool, ip |-> r.ip]
  BY <1>2
<1> QED
  BY <1>1, <1>2 DEF Fields

(* The same for the address.                                               *)
LEMMA WithIp ==
    ASSUME Fields, NEW s \in Slots, NEW a, NEW b, req' = [req EXCEPT ![s].pc = a, ![s].ip = b]
    PROVE  req' = [req EXCEPT ![s] =
                      [pc |-> a, who |-> req[s].who, key |-> req[s].key, code |-> req[s].code,
                       cred |-> req[s].cred, tool |-> req[s].tool, ip |-> b]]
<1>1. req' = [req EXCEPT ![s] = [req[s] EXCEPT !.pc = a, !.ip = b]]
  BY DEF Fields
<1>2. ASSUME NEW r, NEW R, R = [r EXCEPT !.pc = a, !.ip = b],
             r = [pc |-> r.pc, who |-> r.who, key |-> r.key, code |-> r.code, cred |-> r.cred,
                  tool |-> r.tool, ip |-> r.ip]
      PROVE  R = [pc |-> a, who |-> r.who, key |-> r.key, code |-> r.code, cred |-> r.cred,
                  tool |-> r.tool, ip |-> b]
  BY <1>2
<1> QED
  BY <1>1, <1>2 DEF Fields

(* A step that changes one request, given what it becomes.                 *)
LEMMA OneRequest ==
    ASSUME BaseInv, NEW s \in Slots, NEW r, req' = [req EXCEPT ![s] = r],
           r = [pc |-> r.pc, who |-> r.who, key |-> r.key, code |-> r.code, cred |-> r.cred,
                tool |-> r.tool, ip |-> r.ip],
           r.pc \in Pcs, r.pc # "idle" => app = "up",
           r.pc \in {"exchange", "put"} => Connecting(r),
           r.pc \in {"refresh", "store", "post", "sent"} => Calling(r),
           UNCHANGED <<env, app, states, codes>>
    PROVE  Fields' /\ Booted' /\ Consents' /\ Under'
<1>1. \A x \in Slots : req'[x] = IF x = s THEN r ELSE req[x]
  BY DEF BaseInv, Fields
<1>2. Fields' /\ Booted'
  BY <1>1 DEF BaseInv, Fields, Booted
<1>3. Consents'
  BY DEF BaseInv, Consents, StateOf
<1>4. \A x \in Slots : /\ (Connecting(req[x]))' <=> Connecting(req'[x])
                       /\ (Calling(req[x]))' <=> Calling(req'[x])
  BY DEF Connecting, Calling, CredOf
<1>5. Under'
  BY <1>1, <1>4 DEF BaseInv, Under
<1> QED
  BY <1>2, <1>3, <1>5

(* Steps that leave the requests and what they rest on alone.              *)
LEMMA BaseFrame ==
    ASSUME BaseInv, UNCHANGED <<env, app, vault, issued, states, codes, req>>
    PROVE  BaseInv'
  BY DEF BaseInv, Fields, Booted, Consents, StateOf, Under, Connecting, Calling, CredOf, Stored

(* What starts has passed Boots.                                           *)
LEMMA BaseBoot == ASSUME BaseInv, Boot PROVE BaseInv'
  BY DEF BaseInv, Fields, Booted, Consents, Under, Stored, Boot, Connecting, Calling, StateOf, CredOf,
         idpVars, flowVars

(* A crash ends all requests, and empties the vault or leaves it.          *)
LEMMA BaseCrash == ASSUME BaseInv, Crash PROVE BaseInv'
<1> USE DEF BaseInv, Crash, idpVars, flowVars
<1>1. \A s \in Slots : req'[s] = Idle
  OBVIOUS
<1>2. Fields' /\ Booted'
  BY <1>1 DEF Fields, Booted, Idle, Pcs
<1>3. Consents'
  BY DEF Consents, StateOf
<1>4. Under'
  BY <1>1 DEF Under, Idle
<1>5. Stored'
  BY DEF Stored, CredOf
<1> QED
  BY <1>2, <1>3, <1>4, <1>5

(* The state that Connect issues carries the email of its caller.          *)
LEMMA BaseConnect ==
    ASSUME BaseInv, NEW p \in People, NEW provider \in Providers, Connect(p, provider)
    PROVE  BaseInv'
<1> USE DEF BaseInv, Connect, idpVars
<1> DEFINE state == [nonce |-> Cardinality(states) + 1, user_id |-> p.user_id, org_id |-> p.org_id,
                     provider |-> provider, binding_email |-> EmailOf[p]]
<1>1. Fields' /\ Booted'
  BY DEF Fields, Booted
<1>2. states' = states \/ (states' = states \cup {state} /\ oauth_configured(env, provider))
  OBVIOUS
<1>3. principal_from_payload(state) = p
  BY PeopleRecords DEF principal_from_payload
<1>4. Boots(env)
  BY DEF Pass, Request, Booted
<1>5. Consents'
  BY <1>2, <1>3, <1>4 DEF Consents, StateOf
<1>6. Under' /\ Stored'
  BY DEF Under, Connecting, Calling, CredOf, Stored
<1> QED
  BY <1>1, <1>5, <1>6

(* Whoever consents, the code is one for the state.                        *)
LEMMA BaseConsent ==
    ASSUME BaseInv, NEW b \in People, NEW state \in states, NEW account, NEW scopes,
           Consent(b, state, account, scopes)
    PROVE  BaseInv'
<1> USE DEF BaseInv, Consent, idpVars
<1>1. Fields' /\ Booted' /\ Stored'
  BY DEF Fields, Booted, Stored, CredOf
<1>2. Consents'
  BY DEF Consents, StateOf
<1>3. Under'
  BY DEF Under, Connecting, Calling, CredOf
<1> QED
  BY <1>1, <1>2, <1>3

(* DELETE /oauth/{provider} takes entries out of the vault only.           *)
LEMMA BaseRevoke ==
    ASSUME BaseInv, NEW p \in People, NEW provider \in Providers, Revoke(p, provider)
    PROVE  BaseInv'
<1> USE DEF BaseInv, Revoke, idpVars, flowVars
<1>1. Fields' /\ Booted' /\ Consents'
  BY DEF Fields, Booted, Consents, StateOf
<1>2. Under'
  BY DEF Under, Connecting, Calling, CredOf
<1>3. Stored'
  BY DEF Stored, CredOf, delete
<1> QED
  BY <1>1, <1>2, <1>3

(* A callback goes on for the principal of the state, or not at all.       *)
LEMMA BaseCallback ==
    ASSUME BaseInv, NEW s \in Slots, NEW code \in codes, NEW provider \in Providers, NEW bound,
           Callback(s, code, provider, bound), app = "up"
    PROVE  BaseInv'
<1> DEFINE r == [pc |-> "exchange", who |-> bound, key |-> _key(bound, provider), code |-> code,
                 cred |-> None, tool |-> None, ip |-> None]
<1>1. CASE UNCHANGED req
  BY <1>1, BaseFrame DEF Callback, idpVars, flowVars
<1>2. CASE ~UNCHANGED req
  <2>1. /\ req' = [req EXCEPT ![s] = r]
        /\ code.state.provider = provider /\ principal_from_payload(code.state) = bound
    BY <1>2 DEF Callback, Idle
  <2>2. Connecting(r)
    BY <2>1 DEF Connecting
  <2> HIDE DEF r
  <2>3. r.pc = "exchange" /\ r = [pc |-> r.pc, who |-> r.who, key |-> r.key, code |-> r.code,
                                  cred |-> r.cred, tool |-> r.tool, ip |-> r.ip]
    BY DEF r
  <2>4. Fields' /\ Booted' /\ Consents' /\ Under'
    BY <2>1, <2>2, <2>3, OneRequest DEF Callback, Pcs, idpVars, flowVars
  <2> QED
    BY <2>4 DEF BaseInv, Stored, CredOf, Callback, idpVars, flowVars
<1> QED
  BY <1>1, <1>2

(* The account of the credential is the one the state is bound to.         *)
LEMMA BaseExchangeCode == ASSUME BaseInv, NEW s \in Slots, ExchangeCode(s) PROVE BaseInv'
<1> DEFINE r == [pc |-> "put", who |-> req[s].who, key |-> req[s].key, code |-> req[s].code,
                 cred |-> [account |-> req[s].code.account, scopes |-> req[s].code.scopes,
                           refresh |-> issued + 1],
                 tool |-> req[s].tool, ip |-> req[s].ip]
<1>1. issued' \in Nat /\ Stored'
  BY DEF BaseInv, ExchangeCode, Stored, CredOf, idpVars
<1>2. CASE Release(s)
  <2>1. Fields' /\ Booted' /\ Consents' /\ Under'
    BY <1>2, OneRequest DEF ExchangeCode, Release, Idle, Pcs
  <2> QED
    BY <1>1, <2>1 DEF BaseInv
<1>3. CASE ~Release(s)
  <2>1. /\ req' = [req EXCEPT ![s].pc = "put", ![s].cred = r.cred]
        /\ assert_provider_email_binding(req[s].code.state, req[s].code.account)
        /\ req[s].pc = "exchange" /\ UNCHANGED <<env, app, states, codes>>
    BY <1>3 DEF ExchangeCode
  <2>2. req' = [req EXCEPT ![s] = r]
    BY <2>1, WithCred DEF BaseInv
  <2>3. Connecting(req[s]) /\ app = "up" /\ issued + 1 \in Nat
    BY <2>1 DEF BaseInv, Under, Booted
  <2>4. req[s].code.account = EmailOf[req[s].who]
    BY <2>1, <2>3 DEF BaseInv, Connecting, Consents, StateOf, assert_provider_email_binding
  <2>5. Connecting(r)
    BY <2>3, <2>4 DEF Connecting, CredOf
  <2> HIDE DEF r
  <2>6. r.pc = "put" /\ r = [pc |-> r.pc, who |-> r.who, key |-> r.key, code |-> r.code,
                             cred |-> r.cred, tool |-> r.tool, ip |-> r.ip]
    BY DEF r
  <2>7. Fields' /\ Booted' /\ Consents' /\ Under'
    BY <2>1, <2>2, <2>3, <2>5, <2>6, OneRequest DEF Pcs
  <2> QED
    BY <1>1, <2>7 DEF BaseInv
<1> QED
  BY <1>2, <1>3

(* What is put into the vault is of the owner of its key.                  *)
LEMMA BasePutCredential == ASSUME BaseInv, NEW s \in Slots, PutCredential(s) PROVE BaseInv'
<1>1. Fields' /\ Booted' /\ Consents' /\ Under'
  BY OneRequest DEF PutCredential, Release, Idle, Pcs
<1>2. Connecting(req[s]) /\ CredOf(req[s].cred, req[s].who)
  BY DEF BaseInv, Under, Connecting, PutCredential
<1>3. req[s].who \in People /\ \E provider \in Providers : req[s].key = _key(req[s].who, provider)
  BY <1>2 DEF BaseInv, Connecting, Consents, StateOf
<1>4. Stored'
  BY <1>2, <1>3 DEF BaseInv, Stored, CredOf, put, PutCredential
<1> QED
  BY <1>1, <1>4 DEF BaseInv, PutCredential, idpVars

(* What a call reads from the vault is of the principal it runs for.       *)
LEMMA BaseCallTool ==
    ASSUME BaseInv, NEW s \in Slots, NEW p \in People, NEW t \in Registry(env), CallTool(s, p, t)
    PROVE  BaseInv'
<1> DEFINE key == _key(p, t.provider)
           r(pc, cred) == [pc |-> pc, who |-> p, key |-> key, code |-> None, cred |-> cred, tool |-> t,
                           ip |-> None]
<1>1. /\ app = "up" /\ UNCHANGED <<env, app, vault, issued, states, codes>>
      /\ \/ t.provider = None /\ req' = [req EXCEPT ![s] = r("post", None)]
         \/ /\ t.provider # None /\ key \in DOMAIN vault
            /\ \E pc \in {"post", "refresh"} : req' = [req EXCEPT ![s] = r(pc, vault[key])]
  BY DEF CallTool, Pass, Request, idpVars, flowVars
<1>2. PICK pc, cred :
         /\ pc \in {"post", "refresh"}
         /\ req' = [req EXCEPT ![s] = r(pc, cred)]
         /\ t.provider = None => pc = "post"
         /\ t.provider # None => key \in DOMAIN vault /\ cred = vault[key]
  BY <1>1
<1>3. t.provider # None => CredOf(cred, p) /\ key \in {_key(p, provider) : provider \in Providers}
  BY <1>2, KeyPerson DEF BaseInv, Stored
<1>4. Calling(r(pc, cred))
  BY <1>2, <1>3 DEF Calling
<1>5. Fields' /\ Booted' /\ Consents' /\ Under'
  BY <1>1, <1>2, <1>4, OneRequest DEF Pcs
<1> QED
  BY <1>1, <1>5 DEF BaseInv, Stored, CredOf

(* A refresh changes the token of a credential, and not its account.       *)
LEMMA BaseRefresh == ASSUME BaseInv, NEW s \in Slots, Refresh(s) PROVE BaseInv'
<1> USE DEF BaseInv, Refresh, Release, idpVars, flowVars
<1>1. Fields' /\ Booted'
  BY DEF Fields, Booted, Idle, Pcs, Refreshed
<1>2. Consents'
  BY DEF Consents, StateOf
<1>3. Under'
  BY DEF Fields, Under, Connecting, Calling, Idle, Refreshed, CredOf
<1>4. Stored' /\ issued' \in Nat
  BY DEF Stored, Rotate, CredOf
<1> QED
  BY <1>1, <1>2, <1>3, <1>4

(* A refreshed credential is stored under the key it was read from.        *)
LEMMA BaseStoreRefreshed == ASSUME BaseInv, NEW s \in Slots, StoreRefreshed(s) PROVE BaseInv'
<1>1. Fields' /\ Booted' /\ Consents'
  BY DEF BaseInv, StoreRefreshed, Release, flowVars, Fields, Booted, Idle, Pcs, Consents, StateOf
<1>2. Under'
  <2>1. req' = [req EXCEPT ![s].pc = "post"] \/ Release(s)
    BY DEF StoreRefreshed
  <2>2. req[s].pc = "store" /\ UNCHANGED <<env, codes>>
    BY DEF StoreRefreshed, flowVars
  <2> QED
    BY <2>1, <2>2 DEF BaseInv, Release, Under, Connecting, Calling, CredOf, Fields, Idle
<1>3. Calling(req[s]) /\ req[s].tool.provider # None
  BY DEF BaseInv, StoreRefreshed, Under, Calling
<1>4. req[s].who \in People /\ CredOf(req[s].cred, req[s].who)
      /\ \E provider \in Providers : req[s].key = _key(req[s].who, provider)
  BY <1>3 DEF Calling
<1>5. UNCHANGED vault \/ put(req[s].key, req[s].cred)
  BY DEF StoreRefreshed
<1>6. Stored'
  BY <1>4, <1>5 DEF BaseInv, Stored, CredOf, put
<1> QED
  BY <1>1, <1>2, <1>6 DEF BaseInv, StoreRefreshed, idpVars

(* What Post and Answered do to the requests.                              *)
LEMMA Posting ==
    ASSUME NEW s \in Slots, Post(s) \/ Answered(s)
    PROVE  \/ Release(s)
           \/ \E ip : req[s].pc = "post" /\ req' = [req EXCEPT ![s].pc = "sent", ![s].ip = ip]
  BY DEF Post, Answered

(* Sending and answering change neither principal nor credential.          *)
LEMMA BaseAnswer == ASSUME BaseInv, NEW s \in Slots, Post(s) \/ Answered(s) PROVE BaseInv'
<1>1. /\ UNCHANGED <<env, app, vault, issued, states, codes>>
      /\ Release(s) \/ \E ip : req[s].pc = "post" /\ req' = [req EXCEPT ![s].pc = "sent", ![s].ip = ip]
  BY Posting DEF Post, Answered, idpVars, flowVars
<1>2. Fields' /\ Booted' /\ Consents' /\ Under'
  <2>1. CASE Release(s)
    BY <1>1, <2>1, OneRequest DEF Release, Idle, Pcs
  <2>2. ASSUME NEW ip, req[s].pc = "post", req' = [req EXCEPT ![s].pc = "sent", ![s].ip = ip]
        PROVE  Fields' /\ Booted' /\ Consents' /\ Under'
    <3> DEFINE r == [pc |-> "sent", who |-> req[s].who, key |-> req[s].key, code |-> req[s].code,
                     cred |-> req[s].cred, tool |-> req[s].tool, ip |-> ip]
    <3>1. req' = [req EXCEPT ![s] = r]
      BY <2>2, WithIp DEF BaseInv
    <3>2. Calling(r) /\ app = "up"
      BY <2>2 DEF BaseInv, Under, Calling, Booted
    <3> HIDE DEF r
    <3>3. r.pc = "sent" /\ r = [pc |-> r.pc, who |-> r.who, key |-> r.key, code |-> r.code,
                                cred |-> r.cred, tool |-> r.tool, ip |-> r.ip]
      BY DEF r
    <3> QED
      BY <1>1, <3>1, <3>2, <3>3, OneRequest DEF Pcs
  <2> QED
    BY <1>1, <2>1, <2>2
<1> QED
  BY <1>1, <1>2 DEF BaseInv, Stored, CredOf

(* Every step keeps the invariant.                                         *)
LEMMA BaseStep == BaseInv /\ [Next]_vars => BaseInv'
<1> SUFFICES ASSUME BaseInv, [Next]_vars PROVE BaseInv'
  OBVIOUS
<1>1. CASE UNCHANGED vars
  BY <1>1, BaseFrame DEF vars, idpVars, flowVars
<1>2. CASE NextWindow
  BY <1>2, BaseFrame DEF NextWindow, idpVars, flowVars
<1>3. ASSUME NEW c \in Callers, TooMany(c) \/ FailOpen(c)
      PROVE  BaseInv'
  BY <1>3, BaseFrame DEF TooMany, FailOpen, idpVars, flowVars
<1>4. ASSUME NEW state \in states, Expire(state)
      PROVE  BaseInv'
  BY <1>4, BaseFrame DEF Expire, idpVars
<1>5. ASSUME NEW s \in Slots, RequestStep(s)
      PROVE  BaseInv'
  BY <1>5, BaseExchangeCode, BasePutCredential, BaseRefresh, BaseStoreRefreshed, BaseAnswer DEF RequestStep
<1>6. ASSUME NEW s \in Slots, NEW code \in codes, NEW provider \in Providers, NEW as,
             CallbackGet(s, code, provider, as) \/ CallbackPost(s, code, provider, as)
      PROVE  BaseInv'
  BY <1>6, BaseCallback DEF CallbackGet, CallbackPost, Pass, Request
<1> QED
  BY <1>1, <1>2, <1>3, <1>4, <1>5, <1>6, BaseBoot, BaseCrash, BaseConnect, BaseRevoke, BaseConsent,
     BaseCallTool DEF Next
-----------------------------------------------------------------------------
(* Every stored credential is of the account with its owner's email, and   *)
(* every tool acts with the account of the principal it runs for           *)
(* (assert_provider_email_binding, principal_from_state): for any number   *)
(* of users, browsers, accounts and requests.                              *)
THEOREM BoundAccountHolds == Spec => []BoundAccount
<1>1. BaseInv => BoundAccount
  <2> SUFFICES ASSUME BaseInv PROVE BoundAccount
    OBVIOUS
  <2>1. ASSUME NEW key \in DOMAIN vault
        PROVE  vault[key].account = EmailOf[Person(key)]
    <3>1. PICK p \in People, provider \in Providers : key = _key(p, provider) /\ CredOf(vault[key], p)
      BY DEF BaseInv, Stored
    <3>2. Person(key) = p
      BY <3>1, KeyPerson DEF Person
    <3> QED
      BY <3>1, <3>2 DEF CredOf
  <2>2. ASSUME NEW s \in Slots, req[s].pc = "sent", req[s].tool.provider # None
        PROVE  req[s].cred.account = EmailOf[req[s].who]
    <3>1. CredOf(req[s].cred, req[s].who)
      BY <2>2 DEF BaseInv, Under, Calling
    <3> QED
      BY <3>1 DEF CredOf
  <2> QED
    BY <2>1, <2>2 DEF BoundAccount
<1> QED
  BY <1>1, BaseInit, BaseStep, PTL DEF Spec
-----------------------------------------------------------------------------
(* --------------------- what a step does to the requests ---------------- *)

(* The request of slot s becomes r, and no other changes.                  *)
Becomes(s, r) == \A x \in Slots : req'[x] = IF x = s THEN r ELSE req[x]

(* A request that has moved on.                                            *)
Moved(r, pc, cred, ip) ==
    [pc |-> pc, who |-> r.who, key |-> r.key, code |-> r.code, cred |-> cred, tool |-> r.tool, ip |-> ip]

(* The credential an exchange builds.                                      *)
NewCred(code, token) == [account |-> code.account, scopes |-> code.scopes, refresh |-> token]

(* The fields of a request that has moved on.                              *)
LEMMA MovedFields ==
    ASSUME NEW r, NEW pc, NEW cred, NEW ip, NEW m, m = Moved(r, pc, cred, ip)
    PROVE  /\ m.pc = pc /\ m.who = r.who /\ m.key = r.key /\ m.code = r.code
           /\ m.cred = cred /\ m.tool = r.tool /\ m.ip = ip
  BY DEF Moved

(* An idle slot is at no stage.                                            *)
LEMMA IdleFields == Idle.pc = "idle"
  BY DEF Idle

(* Giving a slot a new request changes no other.                           *)
LEMMA Others ==
    ASSUME Fields, NEW s \in Slots, NEW r, req' = [req EXCEPT ![s] = r]
    PROVE  Becomes(s, r)
  BY DEF Fields, Becomes

(* The exchange: the request ends, or holds the credential of the code.    *)
LEMMA ExchangeEffect ==
    ASSUME Fields, NEW s \in Slots, ExchangeCode(s)
    PROVE  \/ Becomes(s, Idle) /\ UNCHANGED idpVars
           \/ /\ issued' = issued + 1 /\ accepted' = accepted \cup {issued + 1}
              /\ \/ Becomes(s, Idle)
                 \/ Becomes(s, Moved(req[s], "put", NewCred(req[s].code, issued + 1), req[s].ip))
<1>1. CASE Release(s)
  <2>1. Becomes(s, Idle)
    BY <1>1, Others DEF Release
  <2> QED
    BY <2>1 DEF ExchangeCode
<1>2. CASE ~Release(s)
  <2>1. /\ issued' = issued + 1 /\ accepted' = accepted \cup {issued + 1}
        /\ req' = [req EXCEPT ![s].pc = "put", ![s].cred = NewCred(req[s].code, issued + 1)]
    BY <1>2 DEF ExchangeCode, NewCred
  <2>2. req' = [req EXCEPT ![s] = Moved(req[s], "put", NewCred(req[s].code, issued + 1), req[s].ip)]
    BY <2>1, WithCred DEF Moved
  <2> QED
    BY <2>1, <2>2, Others
<1> QED
  BY <1>1, <1>2

(* The refresh: the request ends, or holds what the provider answered.     *)
LEMMA RefreshEffect ==
    ASSUME Fields, NEW s \in Slots, Refresh(s)
    PROVE  LET old == req[s].cred.refresh
               new == Refreshed(req[s].key[3], req[s].cred, issued + 1)
           IN \/ Becomes(s, Idle) /\ UNCHANGED <<idpVars, lost>>
              \/ /\ old \in accepted /\ Rotate(req[s].key[3], old)
                 /\ \/ Becomes(s, Idle) /\ lost' = lost \cup {req[s].key}
                    \/ Becomes(s, Moved(req[s], "store", new, req[s].ip)) /\ UNCHANGED lost
<1> DEFINE new == Refreshed(req[s].key[3], req[s].cred, issued + 1)
<1>1. CASE Release(s)
  <2>1. Becomes(s, Idle)
    BY <1>1, Others DEF Release
  <2>2. \A r : r.pc = "store" => r # Idle
    BY DEF Idle
  <2>3. ASSUME req' = [req EXCEPT ![s].pc = "store", ![s].cred = Refreshed(req[s].key[3], @, issued + 1)]
        PROVE  FALSE
    <3>1. req'[s].pc = "store"
      BY <2>3 DEF Fields
    <3> QED
      BY <2>1, <2>2, <3>1 DEF Becomes
  <2> QED
    BY <2>1, <2>3 DEF Refresh
<1>2. CASE ~Release(s)
  <2>1. /\ req[s].cred.refresh \in accepted /\ Rotate(req[s].key[3], req[s].cred.refresh)
        /\ req' = [req EXCEPT ![s].pc = "store", ![s].cred = Refreshed(req[s].key[3], @, issued + 1)]
        /\ UNCHANGED lost
    BY <1>2 DEF Refresh
  <2>2. req' = [req EXCEPT ![s].pc = "store", ![s].cred = new]
    BY <2>1 DEF Fields
  <2>3. req' = [req EXCEPT ![s] = Moved(req[s], "store", new, req[s].ip)]
    BY <2>2, WithCred DEF Moved
  <2>4. Becomes(s, Moved(req[s], "store", new, req[s].ip))
    BY <2>3, Others
  <2> QED
    BY <2>1, <2>4
<1> QED
  BY <1>1, <1>2

(* The vault's answer to a refresh: the call goes on, or ends.             *)
LEMMA StoreEffect ==
    ASSUME Fields, NEW s \in Slots, StoreRefreshed(s)
    PROVE  \/ Becomes(s, Idle) /\ lost' = lost \cup {req[s].key} /\ UNCHANGED <<vault, raced>>
           \/ /\ \/ Becomes(s, Moved(req[s], "post", req[s].cred, req[s].ip))
                 \/ Becomes(s, Idle)
              /\ put(req[s].key, req[s].cred)
              /\ raced' = IF s \in overtaken THEN raced \cup {req[s].key} ELSE raced
              /\ UNCHANGED lost
<1>1. Release(s) => Becomes(s, Idle)
  BY Others DEF Release
<1>2. ASSUME req' = [req EXCEPT ![s].pc = "post"]
      PROVE  Becomes(s, Moved(req[s], "post", req[s].cred, req[s].ip))
  <2>1. req' = [req EXCEPT ![s] = [req[s] EXCEPT !.pc = "post"]]
    BY <1>2 DEF Fields
  <2>2. [req[s] EXCEPT !.pc = "post"] = Moved(req[s], "post", req[s].cred, req[s].ip)
    BY DEF Fields, Moved
  <2> QED
    BY <2>1, <2>2, Others
<1> QED
  BY <1>1, <1>2 DEF StoreRefreshed

(* Post and the answer.                                                    *)
LEMMA PostEffect ==
    ASSUME Fields, NEW s \in Slots, Post(s) \/ Answered(s)
    PROVE  \/ Becomes(s, Idle)
           \/ \E ip : Becomes(s, Moved(req[s], "sent", req[s].cred, ip))
<1>1. CASE Release(s)
  BY <1>1, Others DEF Release
<1>2. ASSUME NEW ip, req' = [req EXCEPT ![s].pc = "sent", ![s].ip = ip]
      PROVE  Becomes(s, Moved(req[s], "sent", req[s].cred, ip))
  <2>1. req' = [req EXCEPT ![s] = Moved(req[s], "sent", req[s].cred, ip)]
    BY <1>2, WithIp DEF Moved
  <2> QED
    BY <2>1, Others
<1> QED
  BY <1>1, <1>2, Posting
-----------------------------------------------------------------------------
(* A refresh of a credential that was revoked since is known to be         *)
(* overtaken, or has been before.                                          *)
Overtaken ==
    \A s \in Slots : req[s].pc \in {"refresh", "store"} /\ req[s].key \in revoked
                        => s \in overtaken \/ req[s].key \in raced

(* RevokedStaysRevoked, made inductive.                                    *)
RevokedInv == Overtaken /\ RevokedStaysRevoked

(* Only the store of an overtaken refresh brings a revoked credential      *)
(* back.                                                                   *)
LEMMA RevokedStep == BaseInv /\ RevokedInv /\ [Next]_vars => RevokedInv'
<1> SUFFICES ASSUME BaseInv, RevokedInv, [Next]_vars PROVE RevokedInv'
  OBVIOUS
<1> USE DEF RevokedInv, Overtaken, RevokedStaysRevoked
<1>1. ASSUME UNCHANGED <<vault, connVars>>,
             \A s \in Slots : req'[s] = req[s] \/ req'[s].pc \notin {"refresh", "store"}
      PROVE  RevokedInv'
  BY <1>1 DEF connVars
<1>2. CASE UNCHANGED vars
  BY <1>1, <1>2 DEF vars
<1>3. CASE Boot \/ NextWindow
  BY <1>1, <1>3 DEF Boot, NextWindow
<1>4. CASE Crash
  BY <1>4 DEF Crash, Idle
<1>5. ASSUME NEW c \in Callers, TooMany(c) \/ FailOpen(c)
      PROVE  RevokedInv'
  BY <1>1, <1>5 DEF TooMany, FailOpen
<1>6. ASSUME NEW p \in People, NEW provider \in Providers, Connect(p, provider)
      PROVE  RevokedInv'
  BY <1>1, <1>6 DEF Connect
<1>7. ASSUME NEW p \in People, NEW provider \in Providers, Revoke(p, provider)
      PROVE  RevokedInv'
  <2>1. UNCHANGED <<req, raced>>
    BY <1>7 DEF Revoke
  <2>2. CASE delete(_key(p, provider)) /\ Revoked(_key(p, provider))
    BY <2>1, <2>2 DEF delete, Revoked, Refreshing
  <2>3. CASE UNCHANGED <<revoked, overtaken>>
    BY <1>7, <2>1, <2>3 DEF Revoke, delete
  <2> QED
    BY <1>7, <2>2, <2>3 DEF Revoke
<1>8. ASSUME NEW state \in states, Expire(state)
      PROVE  RevokedInv'
  BY <1>1, <1>8 DEF Expire
<1>9. ASSUME NEW b, NEW state, NEW account, NEW scopes, Consent(b, state, account, scopes)
      PROVE  RevokedInv'
  BY <1>1, <1>9 DEF Consent
<1>10. ASSUME NEW s \in Slots, NEW code, NEW provider, NEW bound, Callback(s, code, provider, bound)
       PROVE  UNCHANGED <<vault, connVars>>
              /\ \A x \in Slots : req'[x] = req[x] \/ req'[x].pc \notin {"refresh", "store"}
  BY <1>10 DEF Callback, Idle, BaseInv, Fields
<1>11. ASSUME NEW s \in Slots, NEW p \in People, NEW t \in Registry(env), CallTool(s, p, t)
       PROVE  RevokedInv'
  <2>1. UNCHANGED <<vault, revoked, raced>> /\ overtaken' = overtaken \ {s}
    BY <1>11 DEF CallTool
  <2>2. \A x \in Slots : x # s => req'[x] = req[x]
    BY <1>11 DEF CallTool, BaseInv, Fields
  <2>3. req'[s].pc = "post" \/ req'[s].key \in DOMAIN vault
    BY <1>11 DEF CallTool, BaseInv, Fields
  <2> QED
    BY <2>1, <2>2, <2>3
<1>12. ASSUME NEW s \in Slots, ExchangeCode(s) \/ Post(s) \/ Answered(s)
       PROVE  RevokedInv'
  <2>1. \A x \in Slots : x # s => req'[x] = req[x]
    BY <1>12, ExchangeEffect, PostEffect DEF Becomes, BaseInv
  <2>2. req'[s].pc \in {"idle", "put", "sent"}
    BY <1>12, ExchangeEffect, PostEffect, MovedFields, IdleFields DEF Becomes, BaseInv
  <2>3. UNCHANGED <<vault, connVars>>
    BY <1>12 DEF ExchangeCode, Post, Answered
  <2> QED
    BY <1>1, <2>1, <2>2, <2>3
<1>13. ASSUME NEW s \in Slots, PutCredential(s)
       PROVE  RevokedInv'
  <2>1. Becomes(s, Idle)
    BY <1>13, Others DEF PutCredential, Release, BaseInv
  <2>2. /\ UNCHANGED <<raced, overtaken>>
        /\ \/ put(req[s].key, req[s].cred) /\ revoked' = revoked \ {req[s].key}
           \/ UNCHANGED <<vault, revoked>>
    BY <1>13 DEF PutCredential
  <2> QED
    BY <2>1, <2>2 DEF put, Idle, Becomes
<1>14. ASSUME NEW s \in Slots, Refresh(s)
       PROVE  RevokedInv'
  <2>1. \A x \in Slots : x # s => req'[x] = req[x]
    BY <1>14, RefreshEffect DEF Becomes, BaseInv
  <2>2. req[s].pc = "refresh" /\ (req'[s].pc = "idle" \/ req'[s].key = req[s].key)
    BY <1>14, RefreshEffect, MovedFields, IdleFields DEF Becomes, BaseInv, Refresh
  <2>3. UNCHANGED <<vault, revoked, raced, overtaken>>
    BY <1>14 DEF Refresh
  <2> QED
    BY <2>1, <2>2, <2>3
<1>15. ASSUME NEW s \in Slots, StoreRefreshed(s)
       PROVE  RevokedInv'
  <2>1. \A x \in Slots : x # s => req'[x] = req[x]
    BY <1>15, StoreEffect DEF Becomes, BaseInv
  <2>2. req[s].pc = "store" /\ req'[s].pc \in {"idle", "post"}
    BY <1>15, StoreEffect, MovedFields, IdleFields DEF Becomes, BaseInv, StoreRefreshed
  <2>3. /\ UNCHANGED <<revoked, overtaken>>
        /\ \/ UNCHANGED <<vault, raced>>
           \/ /\ put(req[s].key, req[s].cred)
              /\ raced' = IF s \in overtaken THEN raced \cup {req[s].key} ELSE raced
    BY <1>15 DEF StoreRefreshed
  <2> QED
    BY <2>1, <2>2, <2>3 DEF put
<1> QED
  BY <1>1, <1>2, <1>3, <1>4, <1>5, <1>6, <1>7, <1>8, <1>9, <1>10, <1>11, <1>12, <1>13, <1>14, <1>15
     DEF Next, RequestStep, CallbackGet, CallbackPost

(* Once DELETE /oauth/{provider} is answered the vault is without the      *)
(* credential until the user connects again, unless a refresh that had     *)
(* read it before stores what it got (CredentialResolver).                 *)
THEOREM RevokedStaysRevokedHolds == Spec => []RevokedStaysRevoked
<1>1. Init => RevokedInv
  BY DEF Init, RevokedInv, Overtaken, RevokedStaysRevoked, Idle
<1>2. RevokedInv => RevokedStaysRevoked
  BY DEF RevokedInv
<1> QED
  BY <1>1, <1>2, BaseInit, BaseStep, RevokedStep, PTL DEF Spec
-----------------------------------------------------------------------------
(* Where the request of a schema tool has gone.                            *)
Reached ==
    \A s \in Slots : req[s].pc = "sent" /\ req[s].tool.schema
                        => req[s].ip = IF env.proxy_url = None THEN "global" ELSE "proxy"

(* A tool of the registry that a schema defines is one of a loaded schema, *)
(* which the security checks of the start have passed.                     *)
LEMMA SchemaTool ==
    ASSUME Boots(env), NEW t \in Registry(env), t.schema
    PROVE  /\ t.endpoint.scheme = "https" /\ t.endpoint.host \in env.allowlist
           /\ \E x \in env.schemas : x.endpoint = t.endpoint /\ x.name = t.name /\ x.required_permission # None
<1>1. t \notin default_registry(env)
  BY DEF default_registry, SearchTool, SendEmailTool, SlackPostTool, _register_oauth_tools, GmailSendTool,
         CalendarCreateEventTool, SlackPostAsUserTool, Tool
<1>2. env.adapter_engine_enabled /\ \E x \in env.schemas : t = _SchemaTool(env, x)
  BY <1>1 DEF Registry, _apply_adapter_engine
<1>3. PICK x \in env.schemas : t = _SchemaTool(env, x)
  BY <1>2
<1>4. t.endpoint = x.endpoint /\ t.name = x.name
  BY <1>3 DEF _SchemaTool
<1>5. _validate_security(x, env.allowlist)
  BY <1>2 DEF Boots
<1> QED
  BY <1>4, <1>5 DEF _validate_security, _READ_TIER_ALLOWLIST, assert_host_allowed

(* A schema tool's request is sent to a public address, or to the proxy.   *)
LEMMA PostReaches ==
    ASSUME Fields, NEW s \in Slots, Post(s), req[s].tool.schema
    PROVE  \/ Becomes(s, Idle)
           \/ Becomes(s, Moved(req[s], "sent", req[s].cred, IF env.proxy_url = None THEN "global" ELSE "proxy"))
<1> DEFINE to == IF env.proxy_url = None THEN "global" ELSE "proxy"
<1>1. Release(s) \/ req' = [req EXCEPT ![s].pc = "sent", ![s].ip = to]
  BY DEF Post, resolve_safe_ip, make_adapter_transport
<1>2. CASE Release(s)
  BY <1>2, Others DEF Release
<1>3. CASE req' = [req EXCEPT ![s].pc = "sent", ![s].ip = to]
  <2>1. req' = [req EXCEPT ![s] = Moved(req[s], "sent", req[s].cred, to)]
    BY <1>3, WithIp DEF Moved
  <2>2. Becomes(s, Moved(req[s], "sent", req[s].cred, to))
    BY <2>1, Others
  <2> QED
    BY <2>2
<1> QED
  BY <1>1, <1>2, <1>3

(* Only Post sends a request.                                              *)
LEMMA ReachedStep == BaseInv /\ Reached /\ [Next]_vars => Reached'
<1> SUFFICES ASSUME BaseInv, Reached, [Next]_vars PROVE Reached'
  OBVIOUS
<1> USE DEF Reached
<1>1. ASSUME UNCHANGED env, \A s \in Slots : req'[s] = req[s] \/ req'[s].pc # "sent"
      PROVE  Reached'
  BY <1>1
<1>2. CASE UNCHANGED vars
  BY <1>1, <1>2 DEF vars
<1>3. CASE Boot \/ NextWindow
  BY <1>1, <1>3 DEF Boot, NextWindow
<1>4. CASE Crash
  BY <1>1, <1>4 DEF Crash, Idle
<1>5. ASSUME NEW c, TooMany(c) \/ FailOpen(c)
      PROVE  Reached'
  BY <1>1, <1>5 DEF TooMany, FailOpen
<1>6. ASSUME NEW p, NEW provider, Connect(p, provider) \/ Revoke(p, provider)
      PROVE  Reached'
  BY <1>1, <1>6 DEF Connect, Revoke
<1>7. ASSUME NEW state, Expire(state)
      PROVE  Reached'
  BY <1>1, <1>7 DEF Expire
<1>8. ASSUME NEW b, NEW state, NEW account, NEW scopes, Consent(b, state, account, scopes)
      PROVE  Reached'
  BY <1>1, <1>8 DEF Consent
<1>9. ASSUME NEW s \in Slots, NEW code, NEW provider, NEW bound, Callback(s, code, provider, bound)
      PROVE  Reached'
  <2>1. \A x \in Slots : req'[x] = req[x] \/ req'[x].pc # "sent"
    BY <1>9 DEF Callback, Idle, BaseInv, Fields
  <2> QED
    BY <1>1, <1>9, <2>1 DEF Callback
<1>10. ASSUME NEW s \in Slots, NEW p, NEW t, CallTool(s, p, t)
       PROVE  Reached'
  <2>1. \A x \in Slots : req'[x] = req[x] \/ req'[x].pc \in {"post", "refresh"}
    BY <1>10 DEF CallTool, BaseInv, Fields
  <2> QED
    BY <1>1, <1>10, <2>1 DEF CallTool
<1>11. ASSUME NEW s \in Slots, ExchangeCode(s) \/ PutCredential(s) \/ Refresh(s) \/ StoreRefreshed(s)
       PROVE  Reached'
  <2> DEFINE Elsewhere == \A x \in Slots : req'[x] = req[x] \/ req'[x].pc # "sent"
  <2>1. ExchangeCode(s) => Elsewhere
    BY ExchangeEffect, MovedFields, IdleFields DEF Becomes, BaseInv
  <2>2. PutCredential(s) => Elsewhere
    BY Others, IdleFields DEF PutCredential, Release, Becomes, BaseInv
  <2>3. Refresh(s) => Elsewhere
    BY RefreshEffect, MovedFields, IdleFields DEF Becomes, BaseInv
  <2>4. StoreRefreshed(s) => Elsewhere
    BY StoreEffect, MovedFields, IdleFields DEF Becomes, BaseInv
  <2>5. Elsewhere
    BY <1>11, <2>1, <2>2, <2>3, <2>4
  <2>6. UNCHANGED env
    BY <1>11 DEF ExchangeCode, PutCredential, Refresh, StoreRefreshed
  <2> QED
    BY <1>1, <2>5, <2>6
<1>12. ASSUME NEW s \in Slots, Post(s) \/ Answered(s)
       PROVE  Reached'
  <2> DEFINE to == IF env.proxy_url = None THEN "global" ELSE "proxy"
  <2>1. UNCHANGED env
    BY <1>12 DEF Post, Answered
  <2>2. \A x \in Slots : x # s => req'[x] = req[x]
    BY <1>12, PostEffect DEF Becomes, BaseInv
  <2>3. req'[s].pc = "idle" \/ req'[s].tool = req[s].tool
    BY <1>12, PostEffect, MovedFields, IdleFields DEF Becomes, BaseInv
  <2>4. CASE Post(s) /\ req[s].tool.schema
    <3>1. req'[s].pc = "idle" \/ req'[s].ip = to
      BY <2>4, PostReaches, MovedFields, IdleFields DEF Becomes, BaseInv
    <3> QED
      BY <2>1, <2>2, <3>1
  <2>5. CASE Post(s) /\ ~req[s].tool.schema
    BY <2>1, <2>2, <2>3, <2>5
  <2>6. CASE Answered(s)
    BY <2>1, <2>2, <2>6, Others, IdleFields DEF Answered, Release, Becomes, BaseInv
  <2> QED
    BY <1>12, <2>4, <2>5, <2>6
<1> QED
  BY <1>2, <1>3, <1>4, <1>5, <1>6, <1>7, <1>8, <1>9, <1>10, <1>11, <1>12
     DEF Next, RequestStep, CallbackGet, CallbackPost

(* The request of a schema tool goes to a route of a loaded schema on an   *)
(* allowed host, over https, and to a public address or the proxy          *)
(* (EgressPolicy, resolve_safe_ip, _validate_security): for every          *)
(* configuration that boots, every set of schemas and every answer of the  *)
(* resolver.                                                               *)
THEOREM EgressContainedHolds == Spec => []EgressContained
<1>1. Init => Reached
  BY DEF Init, Reached, Idle
<1>2. BaseInv /\ Reached => EgressContained
  <2> SUFFICES ASSUME BaseInv, Reached, NEW s \in Slots, req[s].pc = "sent", req[s].tool.schema
               PROVE  LET url == req[s].tool.endpoint IN
                      /\ url.scheme = "https" /\ url.host \in env.allowlist
                      /\ \E x \in env.schemas : /\ x.endpoint = url /\ x.name = req[s].tool.name
                                              /\ x.required_permission # None
                      /\ req[s].ip = IF env.proxy_url = None THEN "global" ELSE "proxy"
    BY DEF EgressContained
  <2>1. Boots(env) /\ req[s].tool \in Registry(env)
    BY DEF BaseInv, Booted, Under, Calling
  <2> QED
    BY <2>1, SchemaTool DEF Reached
<1> QED
  BY <1>1, <1>2, BaseInit, BaseStep, ReachedStep, PTL DEF Spec
-----------------------------------------------------------------------------
(* While the limiter works its window counts what each caller asked for,   *)
(* and what passed is that, up to the budget.                              *)
Counted ==
    /\ asked = [c \in Callers |-> asked[c]] /\ passed = [c \in Callers |-> passed[c]]
    /\ \A c \in Callers : asked[c] \in Nat
    /\ \A k \in DOMAIN hits : hits[k] \in Nat
    /\ ~build_rate_limiter(env) => \A c \in Callers : asked[c] = 0 /\ passed[c] = 0
    /\ ~down => \A c \in Callers :
          /\ asked[c] = IF rate_limit_key(c) \in DOMAIN hits THEN hits[rate_limit_key(c)] ELSE 0
          /\ Boots(env) =>
                passed[c] = IF asked[c] < env.rate_limit_requests THEN asked[c] ELSE env.rate_limit_requests

(* No two callers share a key.                                             *)
LEMMA KeyCaller ==
    ASSUME NEW c \in Callers, NEW d \in Callers, rate_limit_key(c) = rate_limit_key(d)
    PROVE  c = d
<1>1. ASSUME NEW x \in Callers
      PROVE  \/ x \in People /\ x = [user_id |-> x.user_id, org_id |-> x.org_id]
             \/ x \notin People /\ x = [ip |-> x.ip]
  BY PeopleRecords, AddressRecords DEF Callers
<1>2. \A a, b, x, y : <<"u", a, b>> # <<"ip", x>> /\ (<<"u", a, b>> = <<"u", x, y>> => a = x /\ b = y)
                     /\ (<<"ip", a>> = <<"ip", b>> => a = b)
  OBVIOUS
<1> QED
  BY <1>1, <1>2 DEF rate_limit_key, _identified_principal_key

(* enforce_rate_limit, whether it lets the request through or not.         *)
LEMMA CountedAcquire ==
    ASSUME BaseInv, Counted, NEW caller \in Callers, app = "up", UNCHANGED <<env, down>>,
           build_rate_limiter(env), acquire(caller),
           passed' = IF allowed(caller) THEN [passed EXCEPT ![caller] = @ + 1] ELSE passed
    PROVE  Counted'
<1> DEFINE key == rate_limit_key(caller)
<1>1. Boots(env) /\ env.rate_limit_requests \in Int /\ env.rate_limit_requests > 0
  BY ConfigFields DEF BaseInv, Booted, Boots, Valid, validate_rate_limit_config
<1>2. /\ DOMAIN hits' = DOMAIN hits \cup {key}
      /\ hits'[key] = IF key \in DOMAIN hits THEN hits[key] + 1 ELSE 1
      /\ \A k \in DOMAIN hits : k # key => hits'[k] = hits[k]
  BY DEF acquire
<1>3. /\ asked' = [c \in Callers |-> asked'[c]]
      /\ asked'[caller] = asked[caller] + 1
      /\ \A c \in Callers : c # caller => asked'[c] = asked[c]
  BY DEF Counted, acquire
<1>4. /\ passed' = [c \in Callers |-> passed'[c]]
      /\ passed'[caller] = IF allowed(caller) THEN passed[caller] + 1 ELSE passed[caller]
      /\ \A c \in Callers : c # caller => passed'[c] = passed[c]
  BY DEF Counted
<1>5. \A c \in Callers : c # caller => rate_limit_key(c) # key
  BY KeyCaller
<1> HIDE DEF key
<1>6. \A c \in Callers : rate_limit_key(c)' = rate_limit_key(c)
  BY DEF rate_limit_key, _identified_principal_key
<1>7. build_rate_limiter(env)' /\ (Boots(env)' <=> Boots(env))
  BY DEF build_rate_limiter
<1>8. \A k \in DOMAIN hits' : hits'[k] \in Nat
  BY <1>2 DEF Counted
<1>9. \A c \in Callers : asked'[c] \in Nat
  BY <1>3 DEF Counted
<1>10. ASSUME ~down, NEW c \in Callers
       PROVE  /\ asked'[c] = IF rate_limit_key(c) \in DOMAIN hits' THEN hits'[rate_limit_key(c)] ELSE 0
              /\ passed'[c] = IF asked'[c] < env.rate_limit_requests THEN asked'[c] ELSE env.rate_limit_requests
  <2>1. /\ asked[c] = IF rate_limit_key(c) \in DOMAIN hits THEN hits[rate_limit_key(c)] ELSE 0
        /\ passed[c] = IF asked[c] < env.rate_limit_requests THEN asked[c] ELSE env.rate_limit_requests
        /\ asked[c] \in Nat
    BY <1>1, <1>10 DEF Counted
  <2>2. CASE c # caller
    BY <1>2, <1>3, <1>4, <1>5, <2>1, <2>2
  <2>3. CASE c = caller
    <3>1. asked'[c] = hits'[key] /\ key \in DOMAIN hits' /\ rate_limit_key(c) = key
      BY <1>2, <1>3, <2>1, <2>3 DEF key
    <3>2. allowed(caller) <=> asked'[c] <= env.rate_limit_requests
      BY <2>3, <3>1 DEF allowed, key
    <3>3. asked'[c] = asked[c] + 1
      BY <1>3, <2>3
    <3> QED
      BY <1>1, <1>4, <2>1, <2>3, <3>1, <3>2, <3>3
  <2> QED
    BY <2>2, <2>3
<1> QED
  BY <1>3, <1>4, <1>6, <1>7, <1>8, <1>9, <1>10 DEF Counted

(* The same where the limiter may not be configured.                       *)
LEMMA CountedPass ==
    ASSUME BaseInv, Counted, NEW caller \in Callers, Pass(caller), UNCHANGED <<env, app>>
    PROVE  Counted'
<1>1. CASE build_rate_limiter(env)
  BY <1>1, CountedAcquire DEF Pass, Request
<1>2. CASE ~build_rate_limiter(env)
  BY <1>2 DEF Pass, limitVars, Counted, rate_limit_key, _identified_principal_key
<1> QED
  BY <1>1, <1>2

(* Every step keeps the count.                                             *)
LEMMA CountedStep == BaseInv /\ Counted /\ [Next]_vars => Counted'
<1> SUFFICES ASSUME BaseInv, Counted, [Next]_vars PROVE Counted'
  OBVIOUS
<1>1. ASSUME UNCHANGED <<env, limitVars>>
      PROVE  Counted'
  BY <1>1 DEF Counted, limitVars, rate_limit_key, _identified_principal_key
<1>2. CASE UNCHANGED vars
  BY <1>1, <1>2 DEF vars
<1>3. CASE Boot \/ Crash
  BY <1>1, <1>3 DEF Boot, Crash
<1>4. CASE NextWindow
  <2>1. /\ hits' = <<>> /\ UNCHANGED <<env, app>>
        /\ asked' = [c \in Callers |-> 0] /\ passed' = [c \in Callers |-> 0]
    BY <1>4 DEF NextWindow
  <2>2. Boots(env) => 0 < env.rate_limit_requests
    BY DEF Boots, Valid, validate_rate_limit_config
  <2> QED
    BY <2>1, <2>2 DEF Counted
<1>5. ASSUME NEW c \in Callers, TooMany(c)
      PROVE  Counted'
  BY <1>5, CountedAcquire DEF TooMany, Request
<1>6. ASSUME NEW c \in Callers, FailOpen(c)
      PROVE  Counted'
  <2>1. /\ asked' = [asked EXCEPT ![c] = @ + 1] /\ passed' = [passed EXCEPT ![c] = @ + 1]
        /\ down' = TRUE /\ build_rate_limiter(env) /\ UNCHANGED <<env, hits>>
    BY <1>6 DEF FailOpen
  <2>2. build_rate_limiter(env)'
    BY <2>1
  <2>3. asked' = [x \in Callers |-> asked'[x]] /\ \A x \in Callers : asked'[x] \in Nat
    BY <2>1 DEF Counted
  <2>4. passed' = [x \in Callers |-> passed'[x]]
    BY <2>1 DEF Counted
  <2> QED
    BY <2>1, <2>2, <2>3, <2>4 DEF Counted
<1>7. ASSUME NEW p \in People, NEW provider, Connect(p, provider) \/ Revoke(p, provider)
      PROVE  Counted'
  BY <1>7, CountedPass DEF Connect, Revoke, Callers
<1>8. ASSUME NEW state, Expire(state)
      PROVE  Counted'
  BY <1>1, <1>8 DEF Expire
<1>9. ASSUME NEW b, NEW state, NEW account, NEW scopes, Consent(b, state, account, scopes)
      PROVE  Counted'
  BY <1>1, <1>9 DEF Consent
<1>10. ASSUME NEW s, RequestStep(s)
       PROVE  Counted'
  BY <1>1, <1>10 DEF RequestStep, ExchangeCode, PutCredential, Refresh, StoreRefreshed, Post, Answered
<1>11. ASSUME NEW s, NEW p \in People, NEW t, CallTool(s, p, t)
       PROVE  Counted'
  BY <1>11, CountedPass DEF CallTool, Callers
<1>12. ASSUME NEW s, NEW code \in codes, NEW provider, NEW as, CallbackGet(s, code, provider, as)
       PROVE  Counted'
  <2>1. IpOf[code.by] \in Callers
    BY DEF BaseInv, Consents, Callers
  <2> QED
    BY <1>12, <2>1, CountedPass DEF CallbackGet, Callback
<1>13. ASSUME NEW s, NEW code \in codes, NEW provider, NEW as \in {code.by, Nobody},
              CallbackPost(s, code, provider, as)
       PROVE  Counted'
  <2>1. code.by \in People
    BY DEF BaseInv, Consents
  <2>2. CallerOf(get_request_principal(as), code.by) \in Callers
    BY <1>13, <2>1 DEF CallbackPost, CallerOf, Callers, get_request_principal, principal_from_token,
                       _principal_from_headers
  <2> QED
    BY <1>13, <2>2, CountedPass DEF CallbackPost, Callback
<1> QED
  BY <1>2, <1>3, <1>4, <1>5, <1>6, <1>7, <1>8, <1>9, <1>10, <1>11, <1>12, <1>13 DEF Next

(* In a window every caller gets his own budget and no more, whatever the  *)
(* others do, while the limiter's backend answers (rate_limit_key,         *)
(* RateLimiter.acquire): for any number of callers and any budget.         *)
THEOREM BudgetPerCallerHolds == Spec => []BudgetPerCaller
<1>1. Init => Counted
  BY DEF Init, Counted, Boots, Valid, validate_rate_limit_config
<1>2. BaseInv /\ Counted => BudgetPerCaller
  BY DEF BaseInv, Booted, Counted, BudgetPerCaller
<1> QED
  BY <1>1, <1>2, BaseInit, BaseStep, CountedStep, PTL DEF Spec
-----------------------------------------------------------------------------
(* Who is acknowledged has gone through a state; with a database, his      *)
(* credential is in the vault.                                             *)
Durable ==
    /\ acked # {} => states # {}
    /\ env.db = "set" => acked \subseteq DOMAIN vault

(* A tool that acts with a user's account is live over a durable audit     *)
(* log.                                                                    *)
LEMMA LiveTools ==
    ASSUME NEW t \in Registry(env), t.live, t.provider # None
    PROVE  make_audit_log(env) = "postgres"
<1>1. t \in default_registry(env) \/ \E x \in env.schemas : t = _SchemaTool(env, x)
  BY DEF Registry, _apply_adapter_engine
<1>2. ASSUME NEW x \in env.schemas, t = _SchemaTool(env, x)
      PROVE  env.db = "set"
  BY <1>2 DEF _SchemaTool, build_credential_resolver
<1>3. CASE env.db = "set"
  BY <1>3 DEF make_audit_log
<1>4. CASE env.db # "set"
  <2>1. _resolve_oauth_tools(env) = FALSE
    BY <1>4 DEF _resolve_oauth_tools, build_credential_resolver
  <2>2. t \notin _register_oauth_tools(FALSE)
    BY DEF _register_oauth_tools, GmailSendTool, CalendarCreateEventTool, SlackPostAsUserTool, Tool
  <2>3. t # SearchTool
    BY DEF SearchTool, Tool
  <2>4. t \in {SendEmailTool(env), SlackPostTool(env)}
    <3>1. t \in default_registry(env)
      BY <1>1, <1>2, <1>4
    <3>2. _register_oauth_tools(_resolve_oauth_tools(env)) = _register_oauth_tools(FALSE)
      BY <2>1, Zenon
    <3> QED
      BY <2>2, <2>3, <3>1, <3>2, Zenon DEF default_registry
  <2>5. _resolve_email_sender(env) \in BOOLEAN /\ _resolve_slack_sender(env) \in BOOLEAN
    BY Zenon DEF _resolve_email_sender, _resolve_slack_sender
  <2>6. \E b \in BOOLEAN : \E n, e : t = Tool(n, None, {}, b, e)
    BY <2>4, <2>5, Zenon DEF SendEmailTool, SlackPostTool
  <2>7. t.provider = None
    BY <2>6 DEF Tool
  <2> QED
    BY <2>7
<1> QED
  BY <1>3, <1>4

(* With a database, the vault of a deployment someone has connected to     *)
(* outlives a crash.                                                       *)
LEMMA VaultDurable ==
    ASSUME BaseInv, states # {}, env.db = "set"
    PROVE  make_credential_vault(env) # "memory"
<1>1. PICK state \in states : StateOf(state)
  BY DEF BaseInv, Consents
<1>2. oauth_routes_enabled(env) /\ Boots(env)
  BY <1>1 DEF StateOf, Providers, oauth_routes_enabled
<1> QED
  BY <1>2 DEF Boots, Valid, validate_oauth_vault_config, make_credential_vault

(* Every step keeps acknowledged connections in a durable vault.           *)
LEMMA DurableStep == BaseInv /\ Durable /\ [Next]_vars => Durable'
<1> SUFFICES ASSUME BaseInv, Durable, [Next]_vars PROVE Durable'
  OBVIOUS
<1> USE DEF Durable
<1>1. ASSUME UNCHANGED <<env, vault, acked>>, states \subseteq states'
      PROVE  Durable'
  BY <1>1
<1>2. CASE UNCHANGED vars
  BY <1>1, <1>2 DEF vars, flowVars, connVars
<1>3. CASE Boot \/ NextWindow
  BY <1>1, <1>3 DEF Boot, NextWindow, flowVars, connVars
<1>4. CASE Crash
  <2>1. UNCHANGED <<env, states, acked>> /\ vault' = IF make_credential_vault(env) = "memory" THEN <<>> ELSE vault
    BY <1>4 DEF Crash, flowVars
  <2> QED
    BY <2>1, VaultDurable
<1>5. ASSUME NEW c, TooMany(c) \/ FailOpen(c)
      PROVE  Durable'
  BY <1>1, <1>5 DEF TooMany, FailOpen, flowVars, connVars
<1>6. ASSUME NEW p, NEW provider, Connect(p, provider)
      PROVE  Durable'
  BY <1>1, <1>6 DEF Connect, connVars
<1>7. ASSUME NEW p, NEW provider, Revoke(p, provider)
      PROVE  Durable'
  BY <1>7 DEF Revoke, delete, flowVars
<1>8. ASSUME NEW state, Expire(state)
      PROVE  Durable'
  BY <1>1, <1>8 DEF Expire, connVars
<1>9. ASSUME NEW b, NEW state, NEW account, NEW scopes, Consent(b, state, account, scopes)
      PROVE  Durable'
  BY <1>1, <1>9 DEF Consent, connVars
<1>10. ASSUME NEW s, NEW code, NEW provider, NEW bound, Callback(s, code, provider, bound)
       PROVE  Durable'
  BY <1>1, <1>10 DEF Callback, flowVars, connVars
<1>11. ASSUME NEW s, NEW p, NEW t, CallTool(s, p, t)
       PROVE  Durable'
  BY <1>1, <1>11 DEF CallTool, flowVars
<1>12. ASSUME NEW s \in Slots, PutCredential(s)
       PROVE  Durable'
  <2>1. /\ UNCHANGED <<env, states>>
        /\ \/ put(req[s].key, req[s].cred) /\ acked' \in {acked, acked \cup {req[s].key}}
           \/ UNCHANGED <<vault, acked>>
    BY <1>12 DEF PutCredential
  <2>2. states # {}
    BY <1>12 DEF PutCredential, BaseInv, Under, Connecting, Consents
  <2> QED
    BY <2>1, <2>2 DEF put
<1>13. ASSUME NEW s, StoreRefreshed(s)
       PROVE  Durable'
  BY <1>13 DEF StoreRefreshed, put, flowVars
<1>14. ASSUME NEW s, ExchangeCode(s) \/ Refresh(s) \/ Post(s) \/ Answered(s)
       PROVE  Durable'
  BY <1>1, <1>14 DEF ExchangeCode, Refresh, Post, Answered, flowVars, connVars
<1> QED
  BY <1>2, <1>3, <1>4, <1>5, <1>6, <1>7, <1>8, <1>9, <1>10, <1>11, <1>12, <1>13, <1>14
     DEF Next, RequestStep, CallbackGet, CallbackPost

(* Tools that act with a user's account are live only where the audit log  *)
(* is durable; where it is, so is every other store, and an acknowledged   *)
(* connection outlives a crash (the validators of Settings,                *)
(* default_registry): for every configuration.                             *)
THEOREM DurabilityAgreesHolds == Spec => []DurabilityAgrees
<1>1. Init => Durable
  BY DEF Init, Durable
<1>2. BaseInv /\ Durable => DurabilityAgrees
  <2> SUFFICES ASSUME BaseInv, Durable, app = "up" PROVE DurabilityAgrees
    BY DEF DurabilityAgrees
  <2>1. \A t \in Registry(env) : t.live /\ t.provider # None => make_audit_log(env) = "postgres"
    BY LiveTools
  <2>2. make_audit_log(env) = "postgres" =>
           {make_checkpointer(env), make_policy_store(env), make_knowledge_graph(env)} = {"postgres"}
    BY DEF make_audit_log, make_checkpointer, make_policy_store, make_knowledge_graph
  <2>3. ASSUME make_audit_log(env) = "postgres", NEW key \in acked
        PROVE  key[3] \in list_connected(Person(key))
    <3>1. key \in DOMAIN vault
      BY <2>3 DEF Durable, make_audit_log
    <3>2. PICK p \in People, provider \in Providers : key = _key(p, provider)
      BY <3>1 DEF BaseInv, Stored
    <3>3. Person(key) = p /\ key[3] = provider
      BY <3>2, KeyPerson DEF Person, _key
    <3> QED
      BY <3>1, <3>2, <3>3 DEF list_connected
  <2> QED
    BY <2>1, <2>2, <2>3 DEF DurabilityAgrees
<1> QED
  BY <1>1, <1>2, BaseInit, BaseStep, DurableStep, PTL DEF Spec
-----------------------------------------------------------------------------
(* The requests that hold a refresh token to be used or stored, the token, *)
(* and those that are its only holders: a new token is, until it is        *)
(* stored.                                                                 *)
Has(s) == req[s].pc \in {"put", "refresh", "store"}
Token(s) == req[s].cred.refresh
Fresh(s) == req[s].pc = "put" \/ (req[s].pc = "store" /\ req[s].key[3] \in Rotating)

(* Tokens in use have been issued.                                         *)
Bounded ==
    /\ \A k \in DOMAIN vault : vault[k].refresh \in Nat /\ vault[k].refresh <= issued
    /\ \A s \in Slots : Has(s) => Token(s) \in Nat /\ Token(s) <= issued

(* What is about to be stored is accepted by the provider.                 *)
Accepted == \A s \in Slots : req[s].pc \in {"put", "store"} => Token(s) \in accepted

(* Two holders of a token hold it for one key, and neither is fresh: in    *)
(* the vault,                                                              *)
OneVault == \A k, l \in DOMAIN vault : vault[k].refresh = vault[l].refresh => k = l

(* in a request and the vault,                                             *)
SlotVault ==
    \A s \in Slots, k \in DOMAIN vault :
        Has(s) /\ Token(s) = vault[k].refresh => req[s].key = k /\ ~Fresh(s)

(* and in two requests.                                                    *)
SlotSlot ==
    \A s, x \in Slots :
        Has(s) /\ Has(x) /\ s # x /\ Token(s) = Token(x) => req[s].key = req[x].key /\ ~Fresh(s)

(* RotationKept, made inductive.                                           *)
TokenInv == Bounded /\ Accepted /\ OneVault /\ SlotVault /\ SlotSlot /\ RotationKept

(* A step that leaves the tokens alone, but may end requests.              *)
LEMMA TokenFrame ==
    ASSUME BaseInv, TokenInv,
           \A s \in Slots : req'[s] = req[s] \/ (req'[s].pc \notin {"put", "refresh", "store"}),
           \A s \in Slots : req[s].pc = "store" => req'[s] = req[s] \/ req[s].key \in lost',
           issued' \in Nat, issued <= issued', accepted \subseteq accepted', lost \subseteq lost',
           \A k \in DOMAIN vault' : k \in DOMAIN vault /\ vault'[k] = vault[k]
    PROVE  TokenInv'
<1> USE DEF TokenInv
<1>1. \A k \in DOMAIN vault' : k \in DOMAIN vault /\ vault'[k] = vault[k]
  OBVIOUS
<1>2. \A s \in Slots : Has(s)' => req'[s] = req[s]
  BY DEF Has
<1>3. Bounded'
  BY <1>1, <1>2 DEF Bounded, Has, Token, BaseInv
<1>4. Accepted'
  BY <1>2 DEF Accepted, Has, Token
<1>5. OneVault'
  BY <1>1 DEF OneVault
<1>6. SlotVault'
  BY <1>1, <1>2 DEF SlotVault, Has, Token, Fresh
<1>7. SlotSlot'
  BY <1>2 DEF SlotSlot, Has, Token, Fresh
<1>8. RotationKept'
  BY <1>1 DEF RotationKept
<1> QED
  BY <1>3, <1>4, <1>5, <1>6, <1>7, <1>8

(* A new token is held by the request that got it, and by nothing else.    *)
LEMMA TokenExchange ==
    ASSUME BaseInv, TokenInv, NEW s \in Slots, ExchangeCode(s)
    PROVE  TokenInv'
<1> DEFINE m == Moved(req[s], "put", NewCred(req[s].code, issued + 1), req[s].ip)
<1>1. UNCHANGED <<vault, lost>> /\ req[s].pc = "exchange"
  BY DEF ExchangeCode, connVars
<1>2. CASE Becomes(s, Idle)
  <2>1. issued' \in Nat /\ issued <= issued' /\ accepted \subseteq accepted'
    BY ExchangeEffect DEF BaseInv, idpVars
  <2>2. \A x \in Slots : req'[x] = req[x] \/ req'[x].pc = "idle"
    BY <1>2, IdleFields DEF Becomes
  <2>3. \A x \in Slots : req[x].pc = "store" => req'[x] = req[x]
    BY <1>1, <1>2 DEF Becomes
  <2> QED
    BY <1>1, <2>1, <2>2, <2>3, TokenFrame
<1>3. CASE Becomes(s, m) /\ issued' = issued + 1 /\ accepted' = accepted \cup {issued + 1}
  <2> USE DEF TokenInv
  <2>0. issued \in Nat
    BY DEF BaseInv
  <2>1. \A x \in Slots : x # s => req'[x] = req[x]
    BY <1>3 DEF Becomes
  <2>2. /\ req'[s].pc = "put" /\ req'[s].key = req[s].key
        /\ req'[s].cred = NewCred(req[s].code, issued + 1)
    BY <1>3, MovedFields DEF Becomes
  <2>3. req'[s].cred.refresh = issued + 1
    BY <2>2 DEF NewCred
  <2> HIDE DEF m
  <2>4. Bounded'
    BY <1>1, <1>3, <2>0, <2>1, <2>3 DEF Bounded, Has, Token
  <2>5. Accepted'
    BY <1>3, <2>1, <2>3 DEF Accepted, Token
  <2>6. OneVault'
    BY <1>1 DEF OneVault
  <2>7. SlotVault'
    BY <1>1, <2>0, <2>1, <2>3 DEF SlotVault, Has, Token, Fresh, Bounded
  <2>8. SlotSlot'
    BY <2>0, <2>1, <2>3 DEF SlotSlot, Has, Token, Fresh, Bounded
  <2>9. RotationKept'
    BY <1>1, <1>3, <2>1 DEF RotationKept
  <2> QED
    BY <2>4, <2>5, <2>6, <2>7, <2>8, <2>9
<1> QED
  BY <1>2, <1>3, ExchangeEffect DEF BaseInv

(* A token that is accepted is stored, by a request that holds it no more. *)
LEMMA TokenPut ==
    ASSUME BaseInv, TokenInv, NEW s \in Slots, req[s].pc \in {"put", "store"},
           put(req[s].key, req[s].cred), UNCHANGED idpVars,
           \A x \in Slots : x # s => req'[x] = req[x],
           req'[s].pc \notin {"put", "refresh", "store"},
           lost \ {req[s].key} \subseteq lost'
    PROVE  TokenInv'
<1> USE DEF TokenInv
<1> DEFINE key == req[s].key
<1>1. /\ DOMAIN vault' = DOMAIN vault \cup {key}
      /\ vault'[key] = req[s].cred
      /\ \A k \in DOMAIN vault : k # key => vault'[k] = vault[k]
  BY DEF put
<1>2. Has(s) /\ Token(s) \in accepted /\ vault'[key].refresh = Token(s)
  BY <1>1 DEF Has, Accepted, Token
<1> HIDE DEF key
<1>3. Bounded'
  BY <1>1, <1>2 DEF Bounded, Has, Token, idpVars
<1>4. Accepted'
  BY DEF Accepted, Token, idpVars
<1>5. OneVault'
  BY <1>1, <1>2 DEF OneVault, SlotVault, key
<1>6. SlotVault'
  <2> SUFFICES ASSUME NEW x \in Slots, NEW k \in DOMAIN vault', Has(x)', Token(x)' = vault'[k].refresh
               PROVE  req'[x].key = k /\ ~Fresh(x)'
    BY DEF SlotVault
  <2>1. x # s /\ req'[x] = req[x] /\ Has(x) /\ Token(x)' = Token(x) /\ (Fresh(x)' <=> Fresh(x))
    BY DEF Has, Token, Fresh
  <2>2. CASE k = key
    BY <1>2, <2>1, <2>2 DEF SlotSlot, key
  <2>3. CASE k # key
    BY <1>1, <2>1, <2>3 DEF SlotVault
  <2> QED
    BY <2>2, <2>3
<1>7. SlotSlot'
  BY DEF SlotSlot, Has, Token, Fresh
<1>8. RotationKept'
  <2> SUFFICES ASSUME NEW k \in DOMAIN vault' \ lost'
               PROVE  \/ \E x \in Slots : req'[x].pc = "store" /\ req'[x].key = k
                      \/ vault'[k].refresh \in accepted'
    BY DEF RotationKept
  <2>1. CASE k = key
    BY <1>2, <2>1 DEF idpVars
  <2>2. CASE k # key
    <3>1. k \in DOMAIN vault \ lost /\ vault'[k] = vault[k]
      BY <1>1, <2>2 DEF key
    <3> QED
      BY <2>2, <3>1 DEF RotationKept, idpVars, key
  <2> QED
    BY <2>1, <2>2
<1> QED
  BY <1>3, <1>4, <1>5, <1>6, <1>7, <1>8

(* A call reads the vault: its token is the one of its key.                *)
LEMMA TokenCall ==
    ASSUME BaseInv, TokenInv, NEW s \in Slots, NEW p \in People, NEW t, CallTool(s, p, t)
    PROVE  TokenInv'
<1> USE DEF TokenInv
<1> DEFINE key == _key(p, t.provider)
<1>1. UNCHANGED <<vault, issued, accepted, lost>> /\ req[s].pc = "idle"
  BY DEF CallTool, idpVars, Idle
<1>2. \A x \in Slots : x # s => req'[x] = req[x]
  BY DEF CallTool, BaseInv, Fields
<1>3. \/ req'[s].pc = "post"
      \/ req'[s].pc = "refresh" /\ req'[s].key = key /\ key \in DOMAIN vault /\ req'[s].cred = vault[key]
  BY DEF CallTool, BaseInv, Fields
<1> HIDE DEF key
<1>4. Bounded'
  BY <1>1, <1>2, <1>3 DEF Bounded, Has, Token
<1>5. Accepted'
  BY <1>1, <1>2, <1>3 DEF Accepted, Token
<1>6. OneVault'
  BY <1>1 DEF OneVault
<1>7. SlotVault'
  BY <1>1, <1>2, <1>3 DEF SlotVault, OneVault, Has, Token, Fresh
<1>8. SlotSlot'
  BY <1>1, <1>2, <1>3 DEF SlotSlot, SlotVault, Has, Token, Fresh
<1>9. RotationKept'
  BY <1>1, <1>2 DEF RotationKept
<1> QED
  BY <1>4, <1>5, <1>6, <1>7, <1>8, <1>9

(* A refresh: the token used is that of one key, and while the new one is  *)
(* not stored the request that holds it answers for the key.               *)
LEMMA TokenRefresh ==
    ASSUME BaseInv, TokenInv, NEW s \in Slots, Refresh(s)
    PROVE  TokenInv'
<1> USE DEF TokenInv
<1> DEFINE key == req[s].key
           old == req[s].cred.refresh
           new == Refreshed(key[3], req[s].cred, issued + 1)
<1>1. UNCHANGED vault /\ req[s].pc = "refresh" /\ issued \in Nat /\ Has(s) /\ Token(s) = old
  BY DEF Refresh, BaseInv, Has, Token
<1>2. CASE Becomes(s, Idle) /\ UNCHANGED <<idpVars, lost>>
  <2>1. \A x \in Slots : req'[x] = req[x] \/ req'[x].pc = "idle"
    BY <1>2, IdleFields DEF Becomes
  <2>2. \A x \in Slots : req[x].pc = "store" => req'[x] = req[x]
    BY <1>1, <1>2 DEF Becomes
  <2> QED
    BY <1>1, <1>2, <2>1, <2>2, TokenFrame DEF idpVars
<1>3. CASE /\ old \in accepted /\ Rotate(key[3], old)
           /\ \/ Becomes(s, Idle) /\ lost' = lost \cup {key}
              \/ Becomes(s, Moved(req[s], "store", new, req[s].ip)) /\ UNCHANGED lost
  <2>1. \A x \in Slots : x # s => req'[x] = req[x]
    BY <1>3 DEF Becomes
  <2>2. \/ req'[s].pc = "idle" /\ lost' = lost \cup {key}
        \/ req'[s].pc = "store" /\ req'[s].key = key /\ req'[s].cred = new /\ UNCHANGED lost
    BY <1>3, MovedFields, IdleFields DEF Becomes
  <2>3. new.refresh = IF key[3] \in Rotating THEN issued + 1 ELSE old
    <3>1. CredOf(req[s].cred, req[s].who)
      BY <1>1 DEF BaseInv, Under, Calling
    <3> QED
      BY <3>1 DEF CredOf, Refreshed
  <2> HIDE DEF key, old, new
  <2>4. \/ key[3] \in Rotating /\ issued' = issued + 1 /\ accepted' = (accepted \ {old}) \cup {issued + 1}
        \/ key[3] \notin Rotating /\ UNCHANGED <<issued, accepted>>
    BY <1>3 DEF Rotate, idpVars
  <2>5. \A x \in Slots : x # s /\ Has(x) /\ Token(x) = old => req[x].key = key /\ ~Fresh(x)
    BY <1>1 DEF SlotSlot, key
  <2>6. \A k \in DOMAIN vault : vault[k].refresh = old => k = key
    BY <1>1 DEF SlotVault, key
  <2>7. old \in Nat /\ old <= issued
    BY <1>1 DEF Bounded
  <2>8. Bounded'
    BY <1>1, <2>1, <2>2, <2>3, <2>4, <2>7 DEF Bounded, Has, Token
  <2>9. Accepted'
    <3> SUFFICES ASSUME NEW x \in Slots, req'[x].pc \in {"put", "store"}
                 PROVE  Token(x)' \in accepted'
      BY DEF Accepted
    <3>1. CASE x = s
      BY <1>3, <2>2, <2>3, <2>4, <3>1 DEF Token
    <3>2. CASE x # s
      <4>1. req'[x] = req[x] /\ Token(x) \in accepted /\ Has(x)
        BY <2>1, <3>2 DEF Accepted, Has
      <4>2. key[3] \in Rotating => Token(x) # old
        BY <2>5, <3>2, <4>1 DEF Fresh
      <4> QED
        BY <2>4, <4>1, <4>2 DEF Token
    <3> QED
      BY <3>1, <3>2
  <2>10. OneVault'
    BY <1>1 DEF OneVault
  <2>11. SlotVault'
    BY <1>1, <2>1, <2>2, <2>3, <2>4, <2>6 DEF SlotVault, Has, Token, Fresh, Bounded
  <2>12. SlotSlot'
    <3> SUFFICES ASSUME NEW x \in Slots, NEW y \in Slots, Has(x)', Has(y)', x # y, Token(x)' = Token(y)'
                 PROVE  req'[x].key = req'[y].key /\ ~Fresh(x)'
      BY DEF SlotSlot
    <3>1. CASE x # s /\ y # s
      BY <2>1, <3>1 DEF SlotSlot, Has, Token, Fresh
    <3>2. CASE x = s
      BY <1>1, <2>1, <2>2, <2>3, <2>4, <2>5, <3>2 DEF Has, Token, Fresh, Bounded
    <3>3. CASE y = s
      BY <1>1, <2>1, <2>2, <2>3, <2>4, <2>5, <3>3 DEF Has, Token, Fresh, Bounded
    <3> QED
      BY <3>1, <3>2, <3>3
  <2>13. RotationKept'
    BY <1>1, <2>1, <2>2, <2>4, <2>6 DEF RotationKept
  <2> QED
    BY <2>8, <2>9, <2>10, <2>11, <2>12, <2>13
<1> QED
  BY <1>2, <1>3, RefreshEffect DEF BaseInv

(* Every step keeps the tokens in order.                                   *)
LEMMA TokenStep == BaseInv /\ TokenInv /\ [Next]_vars => TokenInv'
<1> SUFFICES ASSUME BaseInv, TokenInv, [Next]_vars PROVE TokenInv'
  OBVIOUS
<1>1. ASSUME UNCHANGED <<issued, accepted, lost>>,
             \A k \in DOMAIN vault' : k \in DOMAIN vault /\ vault'[k] = vault[k],
             \A s \in Slots :
                req'[s] = req[s] \/ (req'[s].pc \notin {"put", "refresh", "store"} /\ req[s].pc # "store")
      PROVE  TokenInv'
  <2>1. issued' \in Nat /\ issued <= issued' /\ accepted \subseteq accepted' /\ lost \subseteq lost'
    BY <1>1 DEF idpVars, BaseInv
  <2> QED
    BY <1>1, <2>1, TokenFrame
<1>2. CASE UNCHANGED vars
  BY <1>1, <1>2 DEF vars, connVars, idpVars
<1>3. CASE Boot \/ NextWindow
  BY <1>1, <1>3 DEF Boot, NextWindow, connVars, idpVars
<1>4. CASE Crash
  <2>1. /\ \A s \in Slots : req'[s].pc = "idle"
        /\ \A s \in Slots : req[s].pc = "store" => req[s].key \in lost'
        /\ lost \subseteq lost'
    BY <1>4 DEF Crash, Idle
  <2>2. UNCHANGED idpVars /\ \A k \in DOMAIN vault' : k \in DOMAIN vault /\ vault'[k] = vault[k]
    BY <1>4 DEF Crash
  <2>3. issued' \in Nat /\ issued <= issued' /\ accepted \subseteq accepted'
    BY <2>2 DEF idpVars, BaseInv
  <2> QED
    BY <2>1, <2>2, <2>3, TokenFrame
<1>5. ASSUME NEW c, TooMany(c) \/ FailOpen(c)
      PROVE  TokenInv'
  BY <1>1, <1>5 DEF TooMany, FailOpen, connVars, idpVars
<1>6. ASSUME NEW p, NEW provider, Connect(p, provider)
      PROVE  TokenInv'
  BY <1>1, <1>6 DEF Connect, connVars, idpVars
<1>7. ASSUME NEW p, NEW provider, Revoke(p, provider)
      PROVE  TokenInv'
  <2>1. UNCHANGED <<issued, accepted, lost, req>>
    BY <1>7 DEF Revoke, idpVars
  <2>2. \A k \in DOMAIN vault' : k \in DOMAIN vault /\ vault'[k] = vault[k]
    BY <1>7 DEF Revoke, delete
  <2> QED
    BY <1>1, <2>1, <2>2
<1>8. ASSUME NEW state, Expire(state)
      PROVE  TokenInv'
  BY <1>1, <1>8 DEF Expire, connVars, idpVars
<1>9. ASSUME NEW b, NEW state, NEW account, NEW scopes, Consent(b, state, account, scopes)
      PROVE  TokenInv'
  BY <1>1, <1>9 DEF Consent, connVars, idpVars
<1>10. ASSUME NEW s \in Slots, NEW code, NEW provider, NEW bound, Callback(s, code, provider, bound)
       PROVE  TokenInv'
  <2>0. req[s].pc = "idle" /\ \A x \in Slots : x # s => req'[x] = req[x]
    BY <1>10, IdleFields DEF Callback, BaseInv, Fields
  <2>1. req'[s] = req[s] \/ req'[s].pc = "exchange"
    BY <1>10 DEF Callback, Idle, BaseInv, Fields
  <2>2. UNCHANGED <<issued, accepted, lost, vault>>
    BY <1>10 DEF Callback, connVars, idpVars
  <2> QED
    BY <1>1, <2>0, <2>1, <2>2
<1>11. ASSUME NEW s \in Slots, PutCredential(s)
       PROVE  TokenInv'
  <2>1. Becomes(s, Idle) /\ req[s].pc = "put" /\ UNCHANGED idpVars
    BY <1>11, Others DEF PutCredential, Release, BaseInv
  <2>2. CASE UNCHANGED <<vault, lost>>
    BY <1>1, <2>1, <2>2, IdleFields DEF Becomes, idpVars
  <2>3. CASE put(req[s].key, req[s].cred) /\ lost' = lost \ {req[s].key}
    BY <2>1, <2>3, IdleFields, TokenPut DEF Becomes
  <2> QED
    BY <1>11, <2>2, <2>3 DEF PutCredential
<1>12. ASSUME NEW s \in Slots, StoreRefreshed(s)
       PROVE  TokenInv'
  <2>1. req[s].pc = "store" /\ UNCHANGED idpVars
    BY <1>12 DEF StoreRefreshed
  <2>2. CASE Becomes(s, Idle) /\ lost' = lost \cup {req[s].key} /\ UNCHANGED vault
    <3>1. issued' \in Nat /\ issued <= issued' /\ accepted \subseteq accepted' /\ lost \subseteq lost'
      BY <2>1, <2>2 DEF idpVars, BaseInv
    <3>2. /\ \A x \in Slots : req'[x] = req[x] \/ req'[x].pc = "idle"
          /\ \A x \in Slots : req[x].pc = "store" => req'[x] = req[x] \/ req[x].key \in lost'
      BY <2>2, IdleFields DEF Becomes
    <3> QED
      BY <2>2, <3>1, <3>2, TokenFrame
  <2>3. CASE /\ \/ Becomes(s, Moved(req[s], "post", req[s].cred, req[s].ip))
                \/ Becomes(s, Idle)
             /\ put(req[s].key, req[s].cred) /\ UNCHANGED lost
    <3>1. req'[s].pc \in {"post", "idle"} /\ \A x \in Slots : x # s => req'[x] = req[x]
      BY <2>3, MovedFields, IdleFields DEF Becomes
    <3> QED
      BY <2>1, <2>3, <3>1, TokenPut
  <2> QED
    BY <1>12, <2>2, <2>3, StoreEffect DEF BaseInv
<1>13. ASSUME NEW s \in Slots, Post(s) \/ Answered(s)
       PROVE  TokenInv'
  <2>1. UNCHANGED <<issued, accepted, lost, vault>> /\ req[s].pc \in {"post", "sent"}
    BY <1>13 DEF Post, Answered, connVars, idpVars
  <2>2. \A x \in Slots : IF x = s THEN req'[x].pc \in {"idle", "sent"} ELSE req'[x] = req[x]
    BY <1>13, PostEffect, MovedFields, IdleFields DEF Becomes, BaseInv
  <2> QED
    BY <1>1, <2>1, <2>2
<1> QED
  BY <1>2, <1>3, <1>4, <1>5, <1>6, <1>7, <1>8, <1>9, <1>10, <1>11, <1>12, <1>13, TokenExchange, TokenRefresh,
     TokenCall DEF Next, RequestStep, CallbackGet, CallbackPost

(* A stored credential can be refreshed, with tool calls, reconnections    *)
(* and revocations interleaved, unless an answer was lost, or the vault or *)
(* the process failed, after the provider had replaced the token           *)
(* (CredentialResolver.get_access_token, vault.put).                       *)
THEOREM RotationKeptHolds == Spec => []RotationKept
<1>1. Init => TokenInv
  BY DEF Init, TokenInv, Bounded, Accepted, OneVault, SlotVault, SlotSlot, RotationKept, Has, Idle
<1>2. TokenInv => RotationKept
  BY DEF TokenInv
<1> QED
  BY <1>1, <1>2, BaseInit, BaseStep, TokenStep, PTL DEF Spec
=============================================================================
