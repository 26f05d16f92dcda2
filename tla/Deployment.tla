------------------------------ MODULE Deployment ------------------------------
(***************************************************************************)
(* What the Gateway may be started with: loadConfig admits the settings of *)
(* the environment or throws, and createPortalServer, which loads what it  *)
(* is given a second time, creates the parts of the server they ask for.   *)
(*                                                                         *)
(* Secrets are compared and measured, identifiers only compared with the   *)
(* ones this Gateway is registered under; the rest of a setting is one     *)
(* choice.  Names are those of the loaded configuration, shortened.        *)
(***************************************************************************)
EXTENDS Naturals, Sequences

CONSTANT NoSettings   \* the process has read its environment

VARIABLE settings   \* the environment it is to be started with

Absent == ""
Short  == "short"      \* shorter than any secret may be
UnusedSecret == "disabled-session-secret-not-used"
Strong(secret) == secret \notin {Absent, Short}

MaxSessionLifetime   == 3600
MaxAssertionLifetime == 60
MaxProviderLifetime  == 86400
Service == "command-portal-experience-gateway"
Client  == "nexus-web"

(* The settings that matter together, each as a deployment would have it.  *)
(* https: of the Runtime; bindings: the public identities of Mission 1;    *)
(* accepted: the identities, policy and references of Mission 3; managed:  *)
(* the provider's issuer, with the REPL_ID as audience.                    *)
Alice == [binding |-> "a", principal |-> "alice", sound |-> TRUE, ours |-> TRUE,
          active |-> TRUE, methods |-> "password"]
Bob == [Alice EXCEPT !.binding = "b", !.principal = "bob"]

Local ==
    [https |-> TRUE, bindings |-> TRUE, trust |-> FALSE,
     runtimeToken |-> "runtime", tokenRef |-> TRUE,
     contextSecret |-> "context", contextRef |-> TRUE,
     local |-> TRUE, replay |-> FALSE, operational |-> FALSE, mode |-> "access_key",
     operationalToken |-> Absent, operationalSecret |-> Absent, accessKey |-> Absent,
     secure |-> TRUE, deployed |-> FALSE, domains |-> FALSE, replitId |-> FALSE,
     interactive |-> FALSE, providerSecret |-> Absent, providerRef |-> FALSE,
     providerLifetime |-> 3600, managed |-> FALSE, jwks |-> FALSE,
     executive |-> FALSE, cookieSecret |-> Absent, assertionSecret |-> Absent,
     sessionLifetime |-> 3600, assertionLifetime |-> 60, accepted |-> FALSE,
     registrations |-> <<>>]

Hosted ==
    [Local EXCEPT !.local = FALSE, !.operational = TRUE, !.operationalToken = "operational",
                  !.operationalSecret = "session", !.accessKey = "key"]

(* Registered Executive sessions outside Replit, with tokens, and on it.   *)
Executive ==
    [Hosted EXCEPT !.trust = TRUE, !.executive = TRUE, !.cookieSecret = "cookie",
                   !.assertionSecret = "assertion", !.accepted = TRUE, !.replitId = TRUE,
                   !.jwks = TRUE, !.registrations = <<Alice, Bob>>]
Published ==
    [Executive EXCEPT !.deployed = TRUE, !.domains = TRUE, !.managed = TRUE, !.jwks = FALSE,
                      !.mode = "automatic_private_workspace",
                      !.interactive = TRUE, !.providerSecret = "provider", !.providerRef = TRUE]

(* Every way a setting may be off, or only different.                      *)
SecretNames == {"runtimeToken", "contextSecret", "operationalToken", "operationalSecret",
                "accessKey", "providerSecret", "cookieSecret", "assertionSecret"}
Lifetimes == {"sessionLifetime", "assertionLifetime", "providerLifetime"}

Values(name) ==
    CASE name \in SecretNames -> {Absent, Short, "runtime", "session", "cookie", "provider"}
      [] name \in Lifetimes -> {0, 60, 300, 3600, 3601, 86401}
      [] name = "mode" -> {"access_key", "automatic_private_workspace", "other"}
      [] name = "registrations" ->
           {<<>>, <<Alice, Alice>>} \cup
           {<<Alice, other>> : other \in
              {[Bob EXCEPT !.binding = "a"], [Bob EXCEPT !.principal = "alice"],
               [Bob EXCEPT !.principal = Service], [Bob EXCEPT !.principal = Client],
               [Bob EXCEPT !.sound = FALSE], [Bob EXCEPT !.ours = FALSE],
               [Bob EXCEPT !.active = FALSE], [Bob EXCEPT !.methods = "passkey"]}}
      [] OTHER -> BOOLEAN

Off(ds) ==
    ds \cup UNION {{[d EXCEPT ![name] = v] : v \in Values(name)} :
                     d \in ds, name \in DOMAIN Local}

(* All settings that differ from those of a deployment in at most two.     *)
Settings == Off(Off({Local, Hosted, Executive, Published}))

-----------------------------------------------------------------------------
(* integer: what is below the minimum is not refused but the fallback.     *)
Integer(value, fallback, minimum) == IF value >= minimum THEN value ELSE fallback

(* The configuration that settings are loaded into: the parts that are not *)
(* enabled lose their secrets, and the operational session gets one that   *)
(* only stands for it.                                                     *)
Loaded(d) ==
    [d EXCEPT
       !.operationalToken  = IF d.operational THEN @ ELSE Absent,
       !.operationalSecret = IF d.operational THEN @ ELSE UnusedSecret,
       !.accessKey = IF d.operational /\ d.mode = "access_key" THEN @
                     ELSE "automatic-session-no-access-key",
       !.providerSecret  = IF d.interactive THEN @ ELSE Absent,
       !.cookieSecret    = IF d.executive THEN @ ELSE Absent,
       !.assertionSecret = IF d.executive THEN @ ELSE Absent,
       !.managed         = (d.executive \/ d.interactive) /\ @,
       !.registrations   = IF d.executive THEN @ ELSE <<>>,
       !.sessionLifetime   = Integer(@, MaxSessionLifetime, 300),
       !.assertionLifetime = Integer(@, MaxAssertionLifetime, 1),
       !.providerLifetime  = Integer(@, 3600, 60)]

Distinct(d, names) == \A m, n \in names : d[m] = d[n] => m = n

(* The Runtime's credential and the context assertions; trust bootstrap.   *)
TrustHolds(d) ==
    /\ d.runtimeToken # Absent
    /\ d.contextSecret = Absent \/ (Strong(d.contextSecret) /\ d.contextSecret # d.runtimeToken)
    /\ d.trust =>
         /\ Strong(d.runtimeToken) /\ Strong(d.contextSecret)
         /\ d.tokenRef /\ d.contextRef /\ d.https /\ d.bindings

(* Local capabilities, Replay and hosted operations with their sessions.   *)
OperationsHold(d) ==
    /\ d.mode \in {"access_key", "automatic_private_workspace"}
    /\ d.operational =>
         /\ ~d.local /\ ~d.replay
         /\ Strong(d.operationalToken) /\ Strong(d.operationalSecret)
         /\ d.mode = "access_key" => Strong(d.accessKey)
         /\ d.mode = "automatic_private_workspace" => d.deployed /\ d.secure /\ d.domains

(* The lifetimes are looked at in every deployment.                        *)
LifetimesHold(d) ==
    /\ Integer(d.sessionLifetime, MaxSessionLifetime, 300) <= MaxSessionLifetime
    /\ Integer(d.assertionLifetime, MaxAssertionLifetime, 1) <= MaxAssertionLifetime

\* Variant: the operational secrets are left out.
PurposesOfSignIn(d) ==
    {"runtimeToken", "contextSecret", "providerSecret"}
      \cup IF d.executive THEN {"cookieSecret", "assertionSecret"} ELSE {}

(* purposeBoundSecrets *)
PurposeBound(d) ==
    {"runtimeToken", "contextSecret", "providerSecret"}
      \cup (IF d.operational THEN {"operationalToken", "operationalSecret"} ELSE {})
      \cup (IF d.executive THEN {"cookieSecret", "assertionSecret"} ELSE {})

(* Replit Auth: the identifiers of the provider, and interactive sign-in.  *)
ProviderHolds(d) ==
    /\ d.managed /\ (d.executive \/ d.interactive) => d.replitId
    /\ d.interactive =>
         /\ Strong(d.providerSecret) /\ d.providerRef
         /\ d.replitId /\ d.managed
         /\ Integer(d.providerLifetime, 3600, 60) <= MaxProviderLifetime
         /\ Distinct(d, PurposeBound(d))

(* createExecutiveRegistrationMapper, and that the registrations are for   *)
(* this deployment: its provider, tenant, workspace and policy.            *)
RegistrationsHold(d) ==
    LET item == d.registrations IN
    /\ item # <<>>
    /\ \A i \in DOMAIN item :
         /\ item[i].sound /\ item[i].ours
         /\ item[i].principal \notin {Service, Client}
    /\ \A i, j \in DOMAIN item :
         item[i].binding = item[j].binding \/ item[i].principal = item[j].principal => i = j

(* Executive sessions that are published need the interactive sign-in, and *)
(* a secret for their cookie and for their assertions.                     *)
ExecutiveSecretsHold(d) ==
    d.executive =>
        /\ d.deployed => d.interactive /\ d.replitId
        /\ Strong(d.cookieSecret) /\ Strong(d.assertionSecret)

ExecutiveHolds(d) ==
    d.executive =>
        /\ d.trust /\ d.accepted
        /\ Distinct(d, {"runtimeToken", "contextSecret", "cookieSecret", "assertionSecret"})
        /\ d.secure
        /\ d.deployed => d.managed /\ d.domains
        /\ RegistrationsHold(d)

(* loadConfig does not throw. *)
Admits(d) ==
    /\ TrustHolds(d) /\ OperationsHold(d) /\ LifetimesHold(d)
    /\ ExecutiveSecretsHold(d) /\ ProviderHolds(d) /\ ExecutiveHolds(d)

(* What createPortalServer asks who a request comes from. *)
VerifierOf(d) ==
    CASE d.interactive -> "session"
      [] d.executive /\ ~d.interactive /\ d.deployed -> "header"
      [] d.executive /\ ~d.interactive /\ ~d.deployed /\ d.jwks -> "token"
      [] OTHER -> "none"

(* index.mjs loads the environment and creates the server, which loads the *)
(* result again; the adapter throws without a verifier or keys to ask.     *)
Starting ==
    LET config == Loaded(settings)
    IN /\ Admits(settings) /\ Admits(config)
       /\ config.executive => VerifierOf(config) # "none"

-----------------------------------------------------------------------------
(* resolve: the registrations an identity of the provider is mapped to.    *)
Resolved(d, identity) ==
    {i \in DOMAIN d.registrations :
        /\ d.registrations[i].binding = identity.binding
        /\ d.registrations[i].active
        /\ d.registrations[i].methods = identity.methods}

(* publicTrustBootstrap, which every answer of the Gateway shows.          *)
PublicTrust(d) ==
    CASE ~d.trust -> "disabled"
      [] d.trust /\ ~(d.https /\ d.bindings) -> "invalid"
      [] d.trust /\ d.https /\ d.bindings /\ d.tokenRef /\ d.contextRef
           /\ d.runtimeToken # Absent /\ d.contextSecret # Absent -> "configured_not_verified"
      [] OTHER -> "awaiting_operator_provisioning"

-----------------------------------------------------------------------------
(* What loadConfig admits it admits again, to the same effect: the server  *)
(* does not fail to start, or start as another, on the configuration the   *)
(* process has already accepted.                                           *)
LoadsAgain(d) == Admits(Loaded(d)) /\ Loaded(Loaded(d)) = Loaded(d)

(* Published Registered Executive sessions have a secret for each purpose, *)
(* also for the purposes that the two lists of the code name apart, and    *)
(* are verified by the interactive sign-in and nothing a request carries.  *)
PublishedSessionsAreApart(d) ==
    d.deployed /\ d.executive =>
        /\ Distinct(Loaded(d), SecretNames \ {"accessKey"})
        /\ VerifierOf(Loaded(d)) = "session"

(* An identity is one Executive at most, and no two identities the same;   *)
(* none is a service or a client.                                          *)
ExecutivesAreApart(d) ==
    LET identities == [binding : {"a", "b"}, methods : {"password", "passkey"}]
        Principals(identity) == {d.registrations[i].principal : i \in Resolved(d, identity)}
    IN \A one, two \in identities :
          /\ \A p, q \in Principals(one) : p = q /\ p \notin {Service, Client}
          /\ Principals(one) \intersect Principals(two) # {} => one = two

(* The deployments that are admitted: they load again to the same, what    *)
(* the Gateway says of its trust is never that it is invalid or not yet    *)
(* provisioned, secrets have one purpose and identities one principal.     *)
AdmittedDeploymentsAreSound ==
    settings # NoSettings /\ Admits(settings) =>
        /\ LoadsAgain(settings)
        /\ PublicTrust(Loaded(settings)) \in {"disabled", "configured_not_verified"}
        /\ PublishedSessionsAreApart(settings)
        /\ ExecutivesAreApart(Loaded(settings))
=============================================================================
