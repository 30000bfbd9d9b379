-------------------------------- MODULE Rbac --------------------------------
(***************************************************************************)
(* Permission matching (atlas.governance.rbac, .policy), the read filter   *)
(* of the knowledge graph (atlas.knowledge.interfaces) and its SQL twin    *)
(* (atlas.persistence.knowledge_store).  A permission "a:b:c" is the       *)
(* sequence of its segments, so that "begins with the prefix a:b:" is a    *)
(* statement about segments.  A principal is a record [user_id, roles];    *)
(* a policy is the set of the rows <<role, permission>> of the table       *)
(* atlas_role_permissions.                                                 *)
(***************************************************************************)
EXTENDS Naturals, Sequences, SequencesExt

WILDCARD == <<"*">>

(* "kg:read:user:<user_id>", the entry that admits exactly one user.       *)
IDENTITY_ACL_PREFIX == <<"kg", "read", "user">>

identity_acl(uid) == Append(IDENTITY_ACL_PREFIX, uid)

IsIdentity(perm) ==
    Len(perm) > Len(IDENTITY_ACL_PREFIX) /\ IsPrefix(IDENTITY_ACL_PREFIX, perm)

(* g ends with ":*".                                                       *)
IsHierarchical(g) == Len(g) > 1 /\ Last(g) = "*"

(* perm begins with g[:-1], the prefix with its trailing colon.            *)
Covers(g, perm) == Len(perm) >= Len(g) /\ IsPrefix(Front(g), perm)

Granted(policy, roles) == {row[2] : row \in {x \in policy : x[1] \in roles}}

(* The wildcard of any role swallows every other grant.                    *)
expand_roles(policy, roles) ==
    IF WILDCARD \in Granted(policy, roles) THEN {WILDCARD} ELSE Granted(policy, roles)

permission_satisfied(granted, required) ==
    \/ WILDCARD \in granted
    \/ required \in granted
    \/ \E g \in granted : IsHierarchical(g) /\ Covers(g, required)

can(policy, principal, perm) ==
    permission_satisfied(expand_roles(policy, principal.roles), perm)

can_read(policy, principal, acl) ==
    \/ acl = {}
    \/ \E perm \in acl :
          IF IsIdentity(perm) THEN perm = identity_acl(principal.user_id)
                              ELSE can(policy, principal, perm)

-----------------------------------------------------------------------------
(* The SQL predicate shared by the full-text and the vector query, over    *)
(* the permissions that query() expanded before the statement ran.         *)
ExactGrants(permissions, principal) ==
    {p \in permissions : p # WILDCARD /\ ~IsHierarchical(p)} \cup {identity_acl(principal.user_id)}

(* Fault: hierarchical grants are matched against identity entries too.    *)
sql_readable_WildIdentity(permissions, principal, acl) ==
    \/ acl = {}
    \/ acl \cap ExactGrants(permissions, principal) # {}
    \/ \E a \in acl : \E g \in permissions : IsHierarchical(g) /\ Covers(g, a)
    \/ WILDCARD \in permissions

sql_readable(permissions, principal, acl) ==
    \/ acl = {}
    \/ acl \cap ExactGrants(permissions, principal) # {}
    \/ \E a \in acl : /\ ~IsIdentity(a)
                      /\ \E g \in permissions : IsHierarchical(g) /\ Covers(g, a)
    \/ /\ WILDCARD \in permissions
       /\ \E a \in acl : ~IsIdentity(a)
=============================================================================
