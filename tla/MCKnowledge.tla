---------------------------- MODULE MCKnowledge ----------------------------
(* One organisation document, ingested, and two later versions of it sent  *)
(* at the same time, one to fewer readers; the notes of two people whose   *)
(* ids, joined with their sources, are the same; and, where a cfg names it *)
(* in Docs, a document whose source is named like an entity of the first.  *)
EXTENDS Knowledge

admin == [user_id |-> "root", roles |-> {"admin"}]
alice == [user_id |-> "alice", roles |-> {"member"}]
alice_b == [user_id |-> "alice:b", roles |-> {}]
bob == [user_id |-> "bob", roles |-> {"member", "guest"}]

org(source, len, acl, names, edges) ==
    [by |-> admin, scope |-> "org", org_acl |-> acl, source |-> source, len |-> len,
     names |-> names, edges |-> edges]
note(by, source, names) ==
    [by |-> by, scope |-> "personal", org_acl |-> None, source |-> source, len |-> 1,
     names |-> names, edges |-> <<>>]

MCDocs == {"v1", "v2", "v3", "note", "memo"}
MCDocOf ==
    "v1" :> org(<<"wiki">>, 3, None, <<"Ada">>, <<>>) @@
    "v2" :> org(<<"wiki">>, 5, {<<"kg", "read", "team">>}, <<"acme", "Acme", "Bell">>,
                << <<"Bell", "Acme">>, <<"Bell", "Ghost">> >>) @@
    "v3" :> org(<<"wiki">>, 2, {}, <<"Ada">>, <<>>) @@
    "sub" :> org(<<"wiki", "entity", "x">>, 1, None, <<>>, <<>>) @@
    "note" :> note(alice, <<"b", "log">>, <<"Ada", "Bell">>) @@
    "memo" :> note(alice_b, <<"log">>, <<"Bell", "Ada">>)
MCSegments == "root" :> <<"root">> @@ "alice" :> <<"alice">> @@ "alice:b" :> <<"alice", "b">>
MCDigits == <<"0000", "0001">>
MCKeyOf ==
    [Ada |-> <<"person", "ada">>, Acme |-> <<"org", "acme">>, acme |-> <<"org", "acme">>,
     Bell |-> <<"org", "bell">>, Ghost |-> <<"person", "ghost">>]

MCPrincipals == {alice, bob}
MCPolicy0 == {<<"admin", WILDCARD>>, <<"member", <<"kg", "read", "org">>>>}
MCGrantable == {<<"member", <<"kg", "read", "*">>>>, <<"member", <<"kg", "read", "org">>>>,
                <<"guest", identity_acl("alice")>>}

(* A query or a backfill runs while at most one ingest does, and not both  *)
(* at once; the caller takes an answer before anything else happens: only  *)
(* Consume looks at it.                                                    *)
MCNext ==
    /\ Next
    /\ asked'.pc # "idle" \/ fill'.pc # "off" => Cardinality(InFlight') <= 1
    /\ asked'.pc = "idle" \/ fill'.pc = "off"
    /\ asked.pc = "answered" => asked'.pc = "idle"
MCSpec == Init /\ [][MCNext]_vars /\ Fairness
=============================================================================
