---------------------------- MODULE MCMeshStore ----------------------------
(***************************************************************************)
(* Small instances of MeshStore and MeshQueries: two services with         *)
(* relationships between them and bodies one check each refuses; for the   *)
(* queries three services that depend on each other in a circle.           *)
(* Some names have white space around them.                                *)
(***************************************************************************)
EXTENDS MeshQueries, TLC

MCServiceIds == {"web", "db"}
QueryServiceIds == {"web", "db", "app"}
QueryRelationshipIds == {"r1"}
MCRelationshipIds == {"r1", "r2"}

MCPadded == (" web" :> "web") @@ (" sql" :> "sql") @@ (" " :> "")

Svc(id, health, capabilities, dependencies) ==
    [id |-> id, named |-> TRUE, health |-> health,
     capabilities |-> capabilities, dependencies |-> dependencies]

Rel(id, from, to, enabled, capability) ==
    [id |-> id, typed |-> TRUE, from |-> from, to |-> to, required |-> TRUE,
     enabled |-> enabled, capability |-> capability]

\* Enough for every decision: the target comes and goes.  The dependencies
\* web -> db, app -> web and db -> app close a circle; one name is unknown.
FewServices == {Svc("web", "", <<>>, <<"db", "cache", "db">>),
                Svc("app", "healthy", <<>>, <<" web", " ">>),
                Svc("db", "degraded", <<"sql", " ", " sql">>, <<"app">>),
                Svc("db", "unavailable", <<"sql">>, <<"app">>)}
FewRelationships == {Rel("r1", "web", "db", TRUE, ""),
                     Rel("r1", "web", "db", FALSE, " sql")}

\* One body per service and relationship, with those that are refused:
\* unknown ends, equal ends, an absent id, name, type or health state.
ManyServices == {Svc(" web", "", <<>>, <<"db">>), Svc("db", "healthy", <<"sql">>, <<>>),
                 Svc(" ", "healthy", <<>>, <<>>), Svc("db", "broken", <<>>, <<>>),
                 [Svc("db", "healthy", <<>>, <<>>) EXCEPT !.named = FALSE]}
ManyRelationships == {Rel("r1", " web", "db", TRUE, ""),
                      Rel("r2", "db", "web", TRUE, "sql"),
                      Rel("r2", "web", "cache", TRUE, ""),
                      Rel("r2", "cache", "web", TRUE, ""),
                      Rel("r2", "web", " web", TRUE, ""),
                      Rel(" ", "web", "db", TRUE, ""),
                      [Rel("r2", "web", "db", TRUE, "") EXCEPT !.typed = FALSE]}

QueryRequests == {[source |-> " web", target |-> "db", capability |-> "sql"],
                  [source |-> "web", target |-> "db", capability |-> " sql"]}
MCCapabilities == {"sql", " sql"}
MCRequests == {[source |-> " web", target |-> "db", capability |-> "sql"],
               [source |-> "cache", target |-> "db", capability |-> "sql"]}

Operator == [verified |-> TRUE, serviceID |-> "web", subject |-> "s",
             issuer |-> TrustedIdentityIssuer,
             scopes |-> {ScopeServicesWrite, ScopeRelationshipsWrite, ScopePolicyEvaluate}]

OnePrincipal == {Operator}
MCPrincipals == {Operator, [Operator EXCEPT !.verified = FALSE],
                 [Operator EXCEPT !.scopes = {ScopePolicyEvaluate}]}
=============================================================================
