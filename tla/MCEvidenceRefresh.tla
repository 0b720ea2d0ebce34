------------------------- MODULE MCEvidenceRefresh --------------------------
(***************************************************************************)
(* EvidenceRefresh with a producer that is asked about two assertions on a *)
(* subject, has evidence of one of them in two scopes, and a target that   *)
(* Mesh may not ask.                                                       *)
(***************************************************************************)
EXTENDS SubjectView

Subject(of, scope) == [of |-> of, scope |-> scope]
Wardveil(subject, assertion) ==
    [system |-> "wardveil-security", domain |-> "security",
     subject |-> subject, assertion |-> assertion]

Web == Subject("web", "")
WebEU == Subject("web", "eu")

MCQueries == {[kind |-> "view", of |-> "web", scope |-> "", current |-> ""],
              [kind |-> "list", of |-> "", scope |-> "", current |-> "true"]}
MCTargets == {Wardveil(Web, "scan"), Wardveil(Web, "patch"),
              [system |-> "goreecloud-mesh", domain |-> "governance",
               subject |-> Web, assertion |-> "audit"]}
MCContents == {[subject |-> s, assertion |-> "scan", revision |-> "r"] : s \in {Web, WebEU}}

Scan(id, subject, assertion, observedAt, validUntil) ==
    [id |-> id,
     content |-> [subject |-> subject, assertion |-> assertion, revision |-> "r"],
     system |-> "wardveil-security",
     repository |-> "GoreeCloud/goreecloud-wardveil-security",
     contract |-> "contracts/wardveil.", domain |-> "security",
     observedAt |-> observedAt, validUntil |-> validUntil,
     wellFormed |-> TRUE, minimized |-> TRUE, form |-> "normal"]

MCAtStart == {{Scan(2, WebEU, "scan", 1, 3)}}
=============================================================================
