--------------------------- MODULE SecurityPolicy ---------------------------
(***************************************************************************)
(* The replicated security policy (light-stream-core security.rs): who     *)
(* holds which grants, the token generations that prove who a caller is,   *)
(* and the certificates that prove which node a peer is.                   *)
(*                                                                         *)
(* A token is presented by its id and generation; a digest that does not   *)
(* match is a generation the policy does not know.  A fingerprint is the   *)
(* generation of the certificate.                                          *)
(***************************************************************************)
EXTENDS Integers, FiniteSets, FiniteSetsExt

CONSTANTS
    MaxPrincipals, MaxGrants,       \* MAX_SECURITY_PRINCIPALS, MAX_SECURITY_GRANTS
    MaxVerifiers, MaxCertificates   \* MAX_TOKEN_VERIFIERS, MAX_PEER_CERTIFICATES

Grant(permission, scope) == [permission |-> permission, scope |-> scope]
Token(id, generation, principal) ==
    [id |-> id, generation |-> generation, principal |-> principal, status |-> "active"]
Certificate(node, generation) ==
    [node |-> node, generation |-> generation, status |-> "active"]

(* What the code's types say of a policy and of a token in it.             *)
IsToken(t) == DOMAIN t = {"id", "generation", "principal", "status"} /\ t.generation \in Nat
IsPolicy(p) ==
    /\ DOMAIN p = {"revision", "grants", "tokens", "certificates"}
    /\ \A t \in p.tokens : IsToken(t)

ChangeKinds == {"ReplacePrincipalGrants", "AddTokenGeneration", "RevokeTokenGeneration",
                "AddPeerCertificate", "RevokePeerCertificate"}

(* All streams cover each one; the cluster is a resource of its own.       *)
ScopeCovers(held, asked) == held = asked \/ (held = "all" /\ asked # "cluster")

Active(entries) == {e \in entries : e.status = "active"}
SameToken(t, cred) == t.id = cred.id /\ t.generation = cred.generation

(* authenticate: the principals the credential proves, none or one.        *)
Authenticate(p, cred) == {t.principal : t \in {u \in Active(p.tokens) : SameToken(u, cred)}}

Held(p, principal) == IF principal \in DOMAIN p.grants THEN p.grants[principal] ELSE {}

Authorize(p, principal, permission, scope) ==
    \E g \in Held(p, principal) : g.permission = permission /\ ScopeCovers(g.scope, scope)

(* validate_active_credential_binding.                                     *)
StillBound(p, cred, principal) == principal \in Authenticate(p, cred)

AuthenticatePeer(p, cert) ==
    \E c \in Active(p.certificates) : c.node = cert.node /\ c.generation = cert.generation

-----------------------------------------------------------------------------
Administers(p, principal) == Grant("SecurityAdmin", "cluster") \in Held(p, principal)
Administrable(p) == \E t \in Active(p.tokens) : Administers(p, t.principal)

(* A bug: the policy may lose its last administrator.                      *)
Validate_NoAdmin(p) == Cardinality(p.tokens) <= MaxVerifiers

(* validate: the limits, one verifier for each credential, and someone who *)
(* can still change the policy.                                            *)
Validate(p) ==
    /\ Cardinality(DOMAIN p.grants) <= MaxPrincipals
    /\ MapThenSumSet(LAMBDA x : Cardinality(p.grants[x]), DOMAIN p.grants) <= MaxGrants
    /\ Cardinality(p.tokens) <= MaxVerifiers
    /\ Cardinality(p.certificates) <= MaxCertificates
    /\ \A t, u \in p.tokens : SameToken(t, u) => t = u
    /\ Administrable(p)

(* A generation is added only when it is newer than all of its id.         *)
Newest(entry, others) == \A o \in others : o.generation < entry.generation

Withdraw(entries, gone) == (entries \ gone) \cup {[e EXCEPT !.status = "revoked"] : e \in gone}

(* The match of apply: what the change asks of the policy, and its result. *)
Possible(p, c) ==
    CASE c.kind = "ReplacePrincipalGrants" -> TRUE
      [] c.kind = "AddTokenGeneration" ->
            Newest(c.token, {t \in p.tokens : t.id = c.token.id})
      [] c.kind = "RevokeTokenGeneration" -> \E t \in p.tokens : SameToken(t, c.token)
      [] c.kind = "AddPeerCertificate" ->
            Newest(c.cert, {d \in p.certificates : d.node = c.cert.node})
      [] c.kind = "RevokePeerCertificate" ->
            \E d \in p.certificates : d.node = c.cert.node /\ d.generation = c.cert.generation

Changed(p, c) ==
    CASE c.kind = "ReplacePrincipalGrants" ->
            [p EXCEPT !.grants = [x \in DOMAIN @ \cup {c.principal} |->
                                     IF x = c.principal THEN c.grants ELSE p.grants[x]]]
      [] c.kind = "AddTokenGeneration" -> [p EXCEPT !.tokens = @ \cup {c.token}]
      [] c.kind = "RevokeTokenGeneration" ->
            [p EXCEPT !.tokens = Withdraw(@, {t \in @ : SameToken(t, c.token)})]
      [] c.kind = "AddPeerCertificate" -> [p EXCEPT !.certificates = @ \cup {c.cert}]
      [] c.kind = "RevokePeerCertificate" ->
            [p EXCEPT !.certificates =
                Withdraw(@, {d \in @ : d.node = c.cert.node /\ d.generation = c.cert.generation})]

(* apply: compare and set on the revision, then the change, then validate. *)
Succeeding(p, c) == [Changed(p, c) EXCEPT !.revision = @ + 1]
Accepts(p, m) ==
    m.expected = p.revision /\ Possible(p, m.change) /\ Validate(Succeeding(p, m.change))
=============================================================================
