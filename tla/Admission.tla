------------------------------- MODULE Admission -------------------------------
(***************************************************************************)
(* The way of an HTTP request to its handler: the log_requests middleware  *)
(* and the trusted hosts (main.py), the parsing of the body, the           *)
(* dependencies of its route in FastAPI's order (those of the router, then *)
(* the parameters from left to right, each once), the schema.  Tokens are  *)
(* verified by identity/, with a fixed key or with the keys an issuer      *)
(* publishes, which it may replace, or fail to deliver, at any time.  The  *)
(* trusted hosts are checked when there is a list of them.                 *)
(*                                                                         *)
(* A route is the class of routes with the same dependencies.  A token has *)
(* the key that signed it, its roles, and whether its other claims hold.   *)
(* What a handler does is in the other modules: here it ends in one of the *)
(* errors the table of statuses tells apart.  CORS, unknown paths, request *)
(* ids and the wording of errors are left out.                             *)
(*                                                                         *)
(* A definition introduced by "Faulty variant" is the definition after it  *)
(* with a plausible mistake; the specification does not use it.            *)
(***************************************************************************)
EXTENDS Naturals, Sequences

CONSTANTS
    SigningKeys,    \* of the issuer, and AUTH_JWT_VERIFICATION_KEY
    FixedKey,       \* the latter
    RoleClaims,     \* sets of values of the claim roles
    MaxRequests,    \* requests to one process
    MaxRotations    \* changes of the issuer's keys

VARIABLES
    server,     \* [auth, connector, hosts]: settings; whether hosts are listed
    issuer,     \* [keys, rotations]: what the JWKS endpoint publishes
    resolver,   \* keys held by the PyJWKClient of the verifier
    delivered,  \* keys the verifiers of earlier requests were given: a history
    http        \* the request under way

admissionVars == <<server, issuer, resolver, delivered, http>>

Role == {"analyst", "reviewer", "admin"}

Token == [key : SigningKeys, roles : RoleClaims, claims : BOOLEAN]

NoToken == [key |-> "none", roles |-> {}, claims |-> FALSE]

(* published: what the issuer publishes between the making of the verifier  *)
(* and its verdict, a history.                                              *)
NoRequest ==
    [pc |-> "idle", number |-> 0, route |-> "public", token |-> NoToken, flaw |-> "none",
     checks |-> <<>>, fetches |-> 0, published |-> {}, roles |-> {}, handled |-> FALSE,
     actor |-> {}, status |-> 0]

(* public: health; session: session, evaluation summary; read, write: the   *)
(* knowledge base and assessments, without and with a JSON body;            *)
(* review_read, review: what reviewers see and decide; sync: the connector. *)
Routes == {"public", "session", "read", "write", "review_read", "review", "sync"}

(* The dependencies of a route that can refuse it, in their order. *)
Dependencies(route) ==
    CASE route = "public" -> <<>>
      [] route = "session" -> <<"principal">>
      [] route \in {"read", "write"} -> <<"principal", "service">>
      [] route \in {"review_read", "review"} -> <<"principal", "service", "reviewer">>
      [] route = "sync" -> <<"principal", "admin", "connector", "service">>

HasBody(route) == route \in {"write", "review", "sync"}

(* What is wrong with a request, apart from its token.  large: JSON         *)
(* declared above the limit, or with a length that is no number; foreign:   *)
(* a host that is not trusted; malformed: no JSON; invalid: not the schema  *)
(* of the route.                                                            *)
Flaws == {"none", "large", "foreign", "malformed", "invalid"}

-----------------------------------------------------------------------------
Receive ==
    /\ http.pc = "idle" /\ http.number < MaxRequests
    /\ \E route \in Routes, token \in Token \cup {NoToken}, flaw \in Flaws :
        http' = [NoRequest EXCEPT !.pc = "size", !.number = http.number + 1, !.route = route,
                    !.token = token, !.flaw = flaw]
    /\ UNCHANGED <<server, issuer, resolver, delivered>>

Advances(to) == http' = [http EXCEPT !.pc = to]

Responds(status) == http' = [http EXCEPT !.pc = "answered", !.status = status]

log_requests ==
    /\ http.pc = "size"
    /\ IF http.flaw = "large" THEN Responds(413) ELSE Advances("host")
    /\ UNCHANGED <<server, issuer, resolver, delivered>>

TrustedHost ==
    /\ http.pc = "host"
    /\ IF server.hosts /\ http.flaw = "foreign" THEN Responds(400) ELSE Advances("body")
    /\ UNCHANGED <<server, issuer, resolver, delivered>>

ParseBody ==
    /\ http.pc = "body"
    /\ IF HasBody(http.route) /\ http.flaw = "malformed" THEN Responds(422)
       ELSE http' = [http EXCEPT !.pc = "dependencies", !.checks = Dependencies(http.route)]
    /\ UNCHANGED <<server, issuer, resolver, delivered>>

Solving(dependency) ==
    /\ http.pc = "dependencies"
    /\ http.checks # <<>> /\ Head(http.checks) = dependency

Solved(r) == http' = [r EXCEPT !.pc = "dependencies", !.checks = Tail(@)]

-----------------------------------------------------------------------------
(* get_authenticated_principal. *)

(* The verifier is a dependency: every request gets a new one, hence a new  *)
(* PyJWKClient, which holds no key yet, whatever AUTH_JWKS_CACHE_SECONDS.   *)
get_token_verifier ==
    /\ Solving("principal")
    /\ http' = [http EXCEPT !.pc = "verify", !.published = issuer.keys]
    /\ resolver' = {}
    /\ UNCHANGED <<server, issuer, delivered>>

LocalDevelopment ==
    /\ http.pc = "verify" /\ server.auth = "disabled"
    /\ Solved([http EXCEPT !.roles = {"admin"}])
    /\ UNCHANGED <<server, issuer, resolver, delivered>>

Verifies == http.pc = "verify" /\ server.auth # "disabled"

NoCredentials ==
    /\ Verifies /\ http.token = NoToken
    /\ Responds(401)
    /\ UNCHANGED <<server, issuer, resolver, delivered>>

(* Faulty variant: a role that is not known is passed over. *)
principal_from_claims_lenient ==
    LET t == http.token
    IN  IF t.claims /\ t.roles \cap Role # {}
        THEN Solved([http EXCEPT !.roles = t.roles \cap Role])
        ELSE Responds(401)

(* principal_from_claims of a token whose signature is right: every role is *)
(* a known one, and there is one.                                           *)
principal_from_claims ==
    LET t == http.token
    IN  IF t.claims /\ t.roles # {} /\ t.roles \subseteq Role
        THEN Solved([http EXCEPT !.roles = t.roles])
        ELSE Responds(401)

LocalJWTVerifier ==
    /\ Verifies /\ server.auth = "fixed" /\ http.token # NoToken
    /\ IF http.token.key = FixedKey THEN principal_from_claims ELSE Responds(401)
    /\ UNCHANGED <<server, issuer, resolver, delivered>>

Resolving == Verifies /\ server.auth = "jwks" /\ http.token # NoToken

(* get_signing_key_from_jwt fetches the keys when it has none, and once     *)
(* more when the key of the token is not among them.                        *)
FetchKeys ==
    /\ Resolving /\ http.token.key \notin resolver /\ http.fetches < 2
    /\ \/ resolver' = issuer.keys /\ http' = [http EXCEPT !.fetches = @ + 1]
       \/ Responds(401) /\ UNCHANGED resolver
    /\ UNCHANGED <<server, issuer, delivered>>

UnknownKey ==
    /\ Resolving /\ http.token.key \notin resolver /\ http.fetches = 2
    /\ Responds(401)
    /\ UNCHANGED <<server, issuer, resolver, delivered>>

OIDCJWKSVerifier ==
    /\ Resolving /\ http.token.key \in resolver
    /\ principal_from_claims
    /\ UNCHANGED <<server, issuer, resolver, delivered>>

-----------------------------------------------------------------------------
(* The other dependencies. *)

Requires(dependency, condition, status) ==
    /\ Solving(dependency)
    /\ IF condition THEN Solved(http) ELSE Responds(status)
    /\ UNCHANGED <<server, issuer, resolver, delivered>>

can_review(roles) == roles \cap {"reviewer", "admin"} # {}

require_reviewer_or_admin == Requires("reviewer", can_review(http.roles), 403)

require_admin == Requires("admin", "admin" \in http.roles, 403)

require_policy_repository_settings == Requires("connector", server.connector, 503)

(* Every service needs a session; without a database, or when its engine    *)
(* cannot be made, there is none.  All but the services of the reviewers    *)
(* need providers, which cannot be made with some settings (Execution).     *)
get_db_session ==
    \/ \E made \in BOOLEAN : Requires("service", made, 503)
    \/ http.route \in {"read", "write", "sync"} /\ Requires("service", FALSE, 500)

Validate ==
    /\ http.pc = "dependencies" /\ http.checks = <<>>
    /\ IF http.flaw = "invalid" THEN Responds(422) ELSE Advances("handler")
    /\ UNCHANGED <<server, issuer, resolver, delivered>>

audit_role(roles) ==
    IF "admin" \in roles THEN "admin" ELSE IF "reviewer" \in roles THEN "reviewer" ELSE "analyst"

(* Statuses of the errors a handler of the route may raise; 500 stands for  *)
(* an error that is no ApplicationError.                                    *)
Statuses(route) ==
    CASE route = "public" -> {200, 503}
      [] route = "session" -> {200}
      [] route \in {"read", "review_read"} -> {200, 404, 503}
      [] route = "write" -> {200, 201, 404, 413, 415, 422, 502, 503}
      [] route = "review" -> {200, 404, 409, 503}
      [] route = "sync" -> {200, 422, 502, 503}

(* A review that succeeds records its actor. *)
Handle ==
    /\ http.pc = "handler"
    /\ \E status \in Statuses(http.route) \cup {500} :
        http' = [http EXCEPT !.pc = "answered", !.handled = TRUE, !.status = status,
                    !.actor = IF http.route = "review" /\ status = 200
                              THEN {audit_role(http.roles)} ELSE {}]
    /\ UNCHANGED <<server, issuer, resolver, delivered>>

Close ==
    /\ http.pc = "answered"
    /\ http' = [NoRequest EXCEPT !.number = http.number]
    /\ delivered' = delivered \cup resolver
    /\ UNCHANGED <<server, issuer, resolver>>

(* The issuer publishes other keys. *)
Rotate ==
    /\ issuer.rotations < MaxRotations
    /\ \E keys \in SUBSET (SigningKeys \ {FixedKey}) \ {{}, issuer.keys} :
        /\ issuer' = [keys |-> keys, rotations |-> issuer.rotations + 1]
        /\ http' = [http EXCEPT !.published = IF http.pc = "verify" THEN @ \cup keys ELSE @]
    /\ UNCHANGED <<server, resolver, delivered>>

-----------------------------------------------------------------------------
AdmissionIdle ==
    /\ server = [auth |-> "disabled", connector |-> FALSE, hosts |-> TRUE]
    /\ issuer = [keys |-> {}, rotations |-> MaxRotations]
    /\ resolver = {} /\ delivered = {}
    /\ http = [NoRequest EXCEPT !.number = MaxRequests]

AdmissionBegin ==
    /\ server \in [auth : {"disabled", "fixed", "jwks"}, connector : BOOLEAN, hosts : BOOLEAN]
    /\ issuer \in [keys : SUBSET (SigningKeys \ {FixedKey}) \ {{}}, rotations : {0}]
    /\ resolver = {} /\ delivered = {}
    /\ http = NoRequest

AdmissionNext ==
    \/ Receive \/ log_requests \/ TrustedHost \/ ParseBody
    \/ get_token_verifier \/ LocalDevelopment \/ NoCredentials \/ LocalJWTVerifier
    \/ FetchKeys \/ UnknownKey \/ OIDCJWKSVerifier
    \/ require_reviewer_or_admin \/ require_admin
    \/ require_policy_repository_settings \/ get_db_session
    \/ Validate \/ Handle \/ Close \/ Rotate

-----------------------------------------------------------------------------
(* Properties. *)

Suffices(route, roles) ==
    CASE route = "public" -> TRUE
      [] route \in {"review_read", "review"} -> can_review(roles)
      [] route = "sync" -> "admin" \in roles
      [] OTHER -> roles # {}

Authority(role) == CASE role = "analyst" -> 1 [] role = "reviewer" -> 2 [] role = "admin" -> 3

Strongest(roles) == {r \in roles : \A q \in roles : Authority(q) <= Authority(r)}

(***************************************************************************)
(* Whatever the issuer does meanwhile, a handler runs only for a request   *)
(* whose token is signed with a key (the fixed key, or one the issuer      *)
(* published at some time between the making of the verifier and its       *)
(* verdict), whose roles are those of the token, all of them, and suffice  *)
(* for the route, and whose body and host passed every check that is on; a *)
(* review that succeeds, and nothing else, is recorded, under the          *)
(* strongest of those roles; and who is told 401 or 403 did not reach the  *)
(* handler.                                                                *)
(***************************************************************************)
AdmissionIsSound ==
    /\ http.handled =>
        /\ \/ http.flaw = "none"
           \/ http.flaw = "malformed" /\ ~HasBody(http.route)
           \/ http.flaw = "foreign" /\ ~server.hosts
        /\ Suffices(http.route, http.roles)
        /\ (server.auth # "disabled" /\ http.route # "public") =>
                /\ http.token.claims /\ http.roles = http.token.roles
                /\ http.token.key \in IF server.auth = "jwks" THEN http.published ELSE {FixedKey}
        /\ http.actor = IF http.route = "review" /\ http.status = 200
                        THEN Strongest(http.roles) ELSE {}
    /\ http.status \in {401, 403} => ~http.handled

(***************************************************************************)
(* "Signing keys are cached" (README.md:136, as tokens.py:65, ADR-008 and  *)
(* AUTH_JWKS_CACHE_SECONDS have it): a request whose token is signed with  *)
(* a key that was delivered to an earlier request does not fetch the keys. *)
(***************************************************************************)
KeysAreCached == http.fetches > 0 => http.token.key \notin delivered
=============================================================================
