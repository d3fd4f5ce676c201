---------------------------- MODULE TenancyProofs ----------------------------
(***************************************************************************)
(* For any requests, configurations and inputs: requests with one contract *)
(* are one principal, a request evaluates its own module only, what runs   *)
(* is entitled to, and what is recorded is the tenant's own.  At the end,  *)
(* the connection over which the broker's sessions are opened, for every   *)
(* number of sessions and of connections.                                  *)
(***************************************************************************)
EXTENDS Tenancy, QuicClient, TLAPS

-----------------------------------------------------------------------------
(* The contract decides                                                    *)

\* What a verified contract is answered with, from its claims alone: the code, and the
\* principal a refusal or the run is attributed to (resolve_identity_contract).
ClaimsCode(claims) ==
    IF claims.suspended = "yes" THEN "SUSPENDED_FORBIDDEN"
    ELSE IF claims.suspended = None THEN "SUSPENDED_UNKNOWN"
    ELSE IF claims.workspace_id = None THEN "TENANT_REQUIRED"
    ELSE None

ClaimsPrincipal(claims) ==
    <<claims.workspace_id, claims.sub, claims.roles \cup UNION claims.entitlements,
      claims.plan, claims.principal_kind, claims.on_behalf_of, FALSE, FALSE>>

\* No header has a say in the answer to a verified contract (resolve_identity_contract,
\* apply_contract).
LEMMA ContractAnswer ==
    ASSUME NEW h, NEW token, token.is # "missing", NEW verdict \in Verdicts,
           ResolveContract(h, token, verdict).code \notin ContractCodes
    PROVE  LET answer == ResolveContract(h, token, verdict)
           IN /\ answer.code = ClaimsCode(token.claims)
              /\ Sensitive(answer.who) = ClaimsPrincipal(token.claims)
              /\ answer.code = None => answer.identity = answer.who
                                      /\ answer.identity.kind = token.claims.principal_kind
<1> DEFINE claims == token.claims
           id == ApplyContract(FromHeaders(h), IntoVerified(claims))
           answer == ResolveContract(h, token, verdict)
<1>1. verdict = None
    BY DEF ResolveContract, Refuse, Verdicts
<1>2. /\ id.tenant = claims.workspace_id
      /\ id.kind = claims.principal_kind
      /\ Sensitive(id) = ClaimsPrincipal(claims)
    BY DEF Sensitive, ClaimsPrincipal, ApplyContract, FromHeaders, IntoVerified, Nobody
<1>3. IntoVerified(claims).suspended = claims.suspended
    BY DEF IntoVerified
<1>4. answer = CASE claims.suspended = "yes" -> Refuse("SUSPENDED_FORBIDDEN", id)
                 [] claims.suspended = None -> Refuse("SUSPENDED_UNKNOWN", id)
                 [] OTHER -> IF claims.workspace_id = None THEN Refuse("TENANT_REQUIRED", id)
                             ELSE Accept(id)
    BY <1>1, <1>2, <1>3 DEF ResolveContract
<1>5. \/ answer = Refuse(ClaimsCode(claims), id) /\ ClaimsCode(claims) # None
      \/ answer = Accept(id) /\ ClaimsCode(claims) = None
    BY <1>4 DEF ClaimsCode, None
<1> HIDE DEF id, answer, claims
<1>6. answer.code = ClaimsCode(claims) /\ answer.who = id
    BY <1>5 DEF Refuse, Accept
<1>7. answer.code = None => answer.identity = id
    BY <1>5, <1>6 DEF Accept
<1> QED BY <1>2, <1>6, <1>7 DEF answer, claims

\* The same of the whole of resolve_identity: the list of admitted kinds comes after.
LEMMA VerifiedAnswer ==
    ASSUME NEW c, c.trusted, c.contract, NEW h, NEW token, token.is # "missing",
           NEW verdict \in Verdicts,
           ResolveIdentity(c, h, token, verdict).code \notin ContractCodes
    PROVE  LET answer == ResolveIdentity(c, h, token, verdict)
               refused == ~PrincipalKindAdmitted(c.allowed_principal_kinds,
                                                 token.claims.principal_kind)
           IN /\ answer.code = IF ClaimsCode(token.claims) = None /\ refused
                              THEN "PRINCIPAL_KIND_FORBIDDEN" ELSE ClaimsCode(token.claims)
              /\ Sensitive(answer.who) = ClaimsPrincipal(token.claims)
<1> DEFINE first == ResolveContract(h, token, verdict)
           answer == ResolveIdentity(c, h, token, verdict)
<1>1. answer = IF first.code = None
                    /\ ~PrincipalKindAdmitted(c.allowed_principal_kinds, first.identity.kind)
               THEN Refuse("PRINCIPAL_KIND_FORBIDDEN", first.identity) ELSE first
    BY DEF ResolveIdentity
<1>2. first.code \notin ContractCodes
    <2>1. CASE first.code = None
        BY <2>1 DEF ContractCodes, None
    <2>2. CASE first.code # None
        BY <2>2, <1>1
    <2> QED BY <2>1, <2>2
<1>3. /\ first.code = ClaimsCode(token.claims)
      /\ Sensitive(first.who) = ClaimsPrincipal(token.claims)
      /\ first.code = None => /\ first.identity = first.who
                             /\ first.identity.kind = token.claims.principal_kind
    BY <1>2, ContractAnswer
<1> HIDE DEF first, answer
<1>4. CASE first.code = None
           /\ ~PrincipalKindAdmitted(c.allowed_principal_kinds, first.identity.kind)
    <2>1. answer.code = "PRINCIPAL_KIND_FORBIDDEN" /\ answer.who = first.who
        BY <1>1, <1>3, <1>4 DEF Refuse
    <2> QED BY <2>1, <1>3, <1>4 DEF answer
<1>5. CASE ~(first.code = None
             /\ ~PrincipalKindAdmitted(c.allowed_principal_kinds, first.identity.kind))
    <2>1. answer = first
        BY <1>1, <1>5
    <2> QED BY <2>1, <1>3, <1>5 DEF answer
<1> QED BY <1>4, <1>5

\* Each variable the proofs look into has a value for every request.
Shape ==
    /\ DOMAIN input = Requests /\ DOMAIN pc = Requests /\ DOMAIN gate = Requests
    /\ DOMAIN partition = Requests /\ DOMAIN code = Requests /\ DOMAIN ran = Requests
    /\ DOMAIN session = Requests /\ DOMAIN mirrored = Requests /\ DOMAIN events = Requests
    /\ DOMAIN owed = Requests

\* What is kept about the identity of r: a request that goes on was not turned away at the
\* door, and past the identity gate it holds what resolve_identity answered.
Resolved(r) ==
    /\ pc[r] \notin {"emit", "done"} => code[r] # "UNAUTHORIZED"
    /\ pc[r] \notin {"new", "identity"} /\ code[r] # "UNAUTHORIZED" =>
          \E verdict \in Verdicts :
              gate[r] = ResolveIdentity(box, input[r].headers, input[r].token, verdict)

ContractInv == Shape /\ \A r \in Requests : Resolved(r)

\* The steps after the identity gate leave the request and the answer as they are.
Onward(r) ==
    /\ pc[r] \notin {"new", "identity", "done"}
    /\ \E step : /\ step \notin {"new", "identity"}
                 /\ pc' = [pc EXCEPT ![r] = step]
                 /\ \/ code' = code
                    \/ /\ pc[r] # "emit" /\ step = "emit"
                       /\ \E c : code' = [code EXCEPT ![r] = c]
    /\ pc[r] = "emit" => pc' = [pc EXCEPT ![r] = "done"]
    /\ UNCHANGED <<box, input, gate>>

\* Every gate, the load and the response are such steps.
LEMMA LaterSteps ==
    ASSUME NEW r \in Requests,
           \/ ReadBody(r) \/ OpenSession(r) \/ Admit(r)
           \/ LoadModule(r) \/ Declare(r) \/ Respond(r) \/ Answer(r)
    PROVE  Onward(r)
<1>1. ASSUME ReadBody(r) PROVE Onward(r)
    BY <1>1 DEF ReadBody, At, Onward, Goto, Deny
<1>2. ASSUME OpenSession(r) PROVE Onward(r)
    BY <1>2 DEF OpenSession, At, Onward, Goto, Deny
<1>3. ASSUME Admit(r) PROVE Onward(r)
    BY <1>3 DEF Admit, At, Onward, Goto, Deny
<1>4. ASSUME LoadModule(r) PROVE Onward(r)
    BY <1>4 DEF LoadModule, Onward, Goto
<1>5. ASSUME Declare(r) PROVE Onward(r)
    BY <1>5, Zenon DEF Declare, Onward, Goto
<1>6. ASSUME Respond(r) PROVE Onward(r)
    BY <1>6, Zenon DEF Respond, At, Onward, Goto
<1>7. ASSUME Answer(r) PROVE Onward(r)
    BY <1>7, Zenon DEF Answer, At, Onward, Goto
<1> QED BY <1>1, <1>2, <1>3, <1>4, <1>5, <1>6, <1>7

\* No step gives a request up or adds one.
LEMMA ShapeStep == Shape /\ [Next]_vars => Shape'
<1> SUFFICES ASSUME Shape, [Next]_vars PROVE Shape'
    OBVIOUS
<1>1. ASSUME NEW r \in Requests, Arrive(r) PROVE Shape'
    BY <1>1 DEF Arrive, Goto, Shape
<1>2. ASSUME NEW r \in Requests, Resolve(r) PROVE Shape'
    BY <1>2 DEF Resolve, Goto, Deny, Shape
<1>3. ASSUME NEW r \in Requests, ReadBody(r) PROVE Shape'
    BY <1>3 DEF ReadBody, Goto, Deny, Shape
<1>4. ASSUME NEW r \in Requests, OpenSession(r) PROVE Shape'
    BY <1>4 DEF OpenSession, Goto, Deny, Shape
<1>5. ASSUME NEW r \in Requests, Admit(r) PROVE Shape'
    BY <1>5 DEF Admit, Goto, Deny, Shape
<1>6. ASSUME NEW r \in Requests, LoadModule(r) PROVE Shape'
    BY <1>6 DEF LoadModule, Goto, Shape
<1>7. ASSUME NEW r \in Requests, Declare(r) PROVE Shape'
    BY <1>7 DEF Declare, Goto, Shape
<1>8. ASSUME NEW r \in Requests, Respond(r) PROVE Shape'
    BY <1>8, Zenon DEF Respond, Goto, Shape
<1>9. ASSUME NEW r \in Requests, Emit(r) \/ Answer(r) \/ Disconnect(r) PROVE Shape'
    BY <1>9, Zenon DEF Emit, Answer, Disconnect, Goto, Shape
<1>10. CASE Evict \/ UNCHANGED vars
    BY <1>10 DEF Evict, vars, Shape
<1> QED BY <1>1, <1>2, <1>3, <1>4, <1>5, <1>6, <1>7, <1>8, <1>9, <1>10 DEF Next

\* Only Arrive sets the request, and only resolve_identity the answer.
LEMMA ContractStep == ContractInv /\ [Next]_vars => ContractInv'
<1> SUFFICES ASSUME ContractInv, [Next]_vars PROVE \A s \in Requests : Resolved(s)'
    BY ShapeStep DEF ContractInv
<1> USE DEF ContractInv
<1>1. ASSUME NEW r \in Requests, Arrive(r), NEW s \in Requests PROVE Resolved(s)'
    <2>1. CASE s = r
        BY <1>1, <2>1 DEF Arrive, Goto, Shape, Resolved
    <2>2. CASE s # r
        <3>1. /\ input'[s] = input[s] /\ pc'[s] = pc[s] /\ code'[s] = code[s]
              /\ gate'[s] = gate[s] /\ box' = box
            BY <1>1, <2>2 DEF Arrive, Goto, Shape
        <3> QED BY <3>1 DEF Resolved
    <2> QED BY <2>1, <2>2
<1>2. ASSUME NEW r \in Requests, Resolve(r), NEW s \in Requests PROVE Resolved(s)'
    <2>1. CASE s = r
        <3>1. PICK verdict \in Verdicts :
                 gate' = [gate EXCEPT ![r] =
                    ResolveIdentity(box, input[r].headers, input[r].token, verdict)]
            BY <1>2, Zenon DEF Resolve
        <3>2. gate'[r] = ResolveIdentity(box, input[r].headers, input[r].token, verdict)
            BY <3>1 DEF Shape
        <3>3. box' = box /\ input' = input
            BY <1>2 DEF Resolve
        <3>4. pc'[r] \notin {"emit", "done"} => code'[r] = code[r]
            BY <1>2 DEF Resolve, Goto, Deny, Shape
        <3>5. pc[r] = "identity"
            BY <1>2 DEF Resolve, At
        <3> QED BY <2>1, <3>2, <3>3, <3>4, <3>5 DEF Resolved
    <2>2. CASE s # r
        <3>1. /\ input'[s] = input[s] /\ pc'[s] = pc[s] /\ code'[s] = code[s]
              /\ gate'[s] = gate[s] /\ box' = box
            BY <1>2, <2>2 DEF Resolve, Goto, Deny, Shape
        <3> QED BY <3>1 DEF Resolved
    <2> QED BY <2>1, <2>2
<1>3. ASSUME NEW r \in Requests, Onward(r), NEW s \in Requests PROVE Resolved(s)'
    <2>1. /\ input'[s] = input[s] /\ gate'[s] = gate[s] /\ box' = box
          /\ pc'[s] \notin {"emit", "done"} => code'[s] = code[s]
          /\ pc'[s] \notin {"new", "identity"} => pc[s] \notin {"new", "identity"}
          /\ \/ pc'[s] = pc[s] /\ code'[s] = code[s]
             \/ pc[s] \notin {"emit", "done"}
             \/ pc[s] = "emit" /\ code'[s] = code[s] /\ pc'[s] \in {"emit", "done"}
        BY <1>3 DEF Onward, Shape
    <2> QED BY <2>1 DEF Resolved
<1>4. ASSUME Evict \/ UNCHANGED vars \/ \E r \in Requests : Emit(r) \/ Disconnect(r),
             NEW s \in Requests
      PROVE  Resolved(s)'
    <2>1. UNCHANGED <<box, input, pc, gate, code>>
        BY <1>4 DEF Evict, vars, Emit, Disconnect
    <2> QED BY <2>1 DEF Resolved
<1> QED BY <1>1, <1>2, <1>3, <1>4, LaterSteps DEF Next

\* Whatever the headers say, two requests whose contract was verified and makes the same
\* claims get the same answer and act as the same principal (resolve_identity_contract,
\* apply_contract).
THEOREM TenancyContract == Spec => []ContractDecides
<1>1. Init => ContractInv
    BY DEF Init, ContractInv, Shape, Resolved, None
<1>2. ContractInv => ContractDecides
    <2> SUFFICES ASSUME ContractInv, NEW r \in Requests, NEW s \in Requests,
                        Verified(r), Verified(s),
                        input[r].token.claims = input[s].token.claims
                 PROVE  /\ gate[r].code = gate[s].code
                        /\ Sensitive(gate[r].who) = Sensitive(gate[s].who)
        BY DEF ContractDecides
    <2> DEFINE Settled(q) ==
            LET claims == input[q].token.claims
                refused == ~PrincipalKindAdmitted(box.allowed_principal_kinds,
                                                  claims.principal_kind)
            IN /\ gate[q].code = IF ClaimsCode(claims) = None /\ refused
                                 THEN "PRINCIPAL_KIND_FORBIDDEN" ELSE ClaimsCode(claims)
               /\ Sensitive(gate[q].who) = ClaimsPrincipal(claims)
    <2>1. ASSUME NEW q \in Requests, Verified(q) PROVE Settled(q)
        <3>1. PICK verdict \in Verdicts :
                 gate[q] = ResolveIdentity(box, input[q].headers, input[q].token, verdict)
            BY <2>1 DEF Verified, ContractInv, Resolved
        <3> QED BY <3>1, <2>1, VerifiedAnswer DEF Verified
    <2> QED BY <2>1
<1> QED BY <1>1, <1>2, ContractStep, PTL DEF Spec

-----------------------------------------------------------------------------
(* The bytecode cache                                                      *)

\* Sequences that agree everywhere are equal.
LEMMA SameSeq ==
    ASSUME NEW S, NEW s \in Seq(S), NEW t \in Seq(S),
           Len(s) = Len(t), \A i \in 1 .. Len(s) : s[i] = t[i]
    PROVE  s = t
    OBVIOUS

\* The length in front makes the namespace and the source part of the key: digests agree
\* only when both do (bytecode.rs, digest).
LEMMA DigestInjective ==
    ASSUME NEW n \in Seq(Nat), NEW s \in Seq(Nat), NEW m \in Seq(Nat), NEW t \in Seq(Nat),
           Digest(n, s) = Digest(m, t)
    PROVE  n = m /\ s = t
<1> DEFINE a == Digest(n, s)
           b == Digest(m, t)
<1>1. /\ a \in Seq(Nat) /\ Len(a) = 1 + Len(n) + Len(s) /\ a[1] = Len(n)
      /\ \A i \in 1 .. Len(n) : a[1 + i] = n[i]
      /\ \A i \in 1 .. Len(s) : a[1 + Len(n) + i] = s[i]
    BY DEF Digest
<1>2. /\ b \in Seq(Nat) /\ Len(b) = 1 + Len(m) + Len(t) /\ b[1] = Len(m)
      /\ \A i \in 1 .. Len(m) : b[1 + i] = m[i]
      /\ \A i \in 1 .. Len(t) : b[1 + Len(m) + i] = t[i]
    BY SMTT(30) DEF Digest
<1>3. a = b OBVIOUS
<1> HIDE DEF a, b
<1>4. Len(n) \in Nat /\ Len(m) \in Nat /\ Len(s) \in Nat /\ Len(t) \in Nat
    OBVIOUS
<1>5. Len(n) = Len(m)
    BY <1>1, <1>2, <1>3
<1>6. Len(s) = Len(t)
    <2>1. 1 + Len(n) + Len(s) = 1 + Len(n) + Len(t)
        BY <1>1, <1>2, <1>3, <1>5, Zenon
    <2> QED BY <2>1, <1>4
<1>7. \A i \in 1 .. Len(n) : n[i] = m[i]
    BY <1>1, <1>2, <1>3, <1>5
<1>8. \A i \in 1 .. Len(s) : s[i] = t[i]
    BY <1>1, <1>2, <1>3, <1>5, <1>6
<1>9. n = m
    BY <1>5, <1>7, SameSeq
<1>10. s = t
    BY <1>6, <1>8, SameSeq
<1> QED BY <1>9, <1>10

\* What is kept about r and the cache: r sent one of its inputs, evaluated nothing before
\* the load, and what it evaluated is its own; an entry is filed under the digest of what
\* it was compiled from.
Own(r) ==
    /\ pc[r] # "new" => input[r] \in Inputs[r]
    /\ pc[r] \notin {"respond", "emit", "done"} => ran[r] = <<>>
    /\ \A i \in DOMAIN ran[r] :
          ran[r][i] = [source |-> Source(r), namespace |-> Namespace(r)]

Filed(entry) ==
    /\ entry.module \in [source : Seq(Nat), namespace : Seq(Nat)]
    /\ entry.key = Digest(entry.module.namespace, entry.module.source)

ModuleInv ==
    /\ Shape
    /\ \A r \in Requests : Own(r)
    /\ \A entry \in cache : Filed(entry)

\* A script and its namespace are bytes.
LEMMA ScriptBytes ==
    ASSUME NEW r \in Requests, Own(r), pc[r] # "new"
    PROVE  Source(r) \in Seq(Nat) /\ Namespace(r) \in Seq(Nat)
<1>1. input[r].body.source \in Texts
    BY TenancyAssumption DEF Own
<1>2. Source(r) \in Seq(Nat)
    BY <1>1, TenancyAssumption DEF Source
<1>3. Namespace(r) \in Seq(Nat)
    BY TenancyAssumption DEF Namespace
<1> QED BY <1>2, <1>3

\* A step of another request leaves what is kept about s alone.
LEMMA OwnUntouched ==
    ASSUME NEW s \in Requests, Own(s), input'[s] = input[s], partition'[s] = partition[s],
           pc'[s] = pc[s], ran'[s] = ran[s]
    PROVE  Own(s)'
BY DEF Own, Source, Namespace

\* A hit takes an entry filed under its own digest, and a store files what was compiled.
LEMMA ModuleStep == ModuleInv /\ [Next]_vars => ModuleInv'
<1> SUFFICES ASSUME ModuleInv, [Next]_vars
             PROVE  (\A s \in Requests : Own(s)') /\ (\A entry \in cache' : Filed(entry))
    BY ShapeStep DEF ModuleInv, Filed
<1> USE DEF ModuleInv
<1> DEFINE Kept == (\A s \in Requests : Own(s)') /\ (\A entry \in cache' : Filed(entry))
<1>1. ASSUME NEW r \in Requests, Arrive(r) PROVE Kept
    <2>1. ASSUME NEW s \in Requests, s # r PROVE Own(s)'
        BY <1>1, <2>1, OwnUntouched DEF Arrive, Goto, Shape
    <2>2. Own(r)'
        <3>1. ran'[r] = <<>> /\ input'[r] \in Inputs[r]
            BY <1>1, Zenon DEF Arrive, Shape, Own
        <3> QED BY <3>1 DEF Own
    <2> QED BY <1>1, <2>1, <2>2 DEF Arrive
<1>2. ASSUME NEW r \in Requests, Resolve(r) PROVE Kept
    <2>1. ASSUME NEW s \in Requests, s # r PROVE Own(s)'
        BY <1>2, <2>1, OwnUntouched DEF Resolve, Goto, Deny, Shape
    <2>2. Own(r)'
        <3>1. ran'[r] = <<>> /\ input'[r] \in Inputs[r]
            BY <1>2, Zenon DEF Resolve, At, Own
        <3> QED BY <3>1 DEF Own
    <2> QED BY <1>2, <2>1, <2>2 DEF Resolve
<1>3. ASSUME NEW r \in Requests, ReadBody(r) PROVE Kept
    <2>1. ASSUME NEW s \in Requests, s # r PROVE Own(s)'
        BY <1>3, <2>1, OwnUntouched DEF ReadBody, Goto, Deny, Shape
    <2>2. Own(r)'
        <3>1. ran'[r] = <<>> /\ input'[r] \in Inputs[r]
            BY <1>3, Zenon DEF ReadBody, At, Own
        <3> QED BY <3>1 DEF Own
    <2> QED BY <1>3, <2>1, <2>2, Zenon DEF ReadBody
<1>4. ASSUME NEW r \in Requests, OpenSession(r) PROVE Kept
    <2>1. ASSUME NEW s \in Requests, s # r PROVE Own(s)'
        BY <1>4, <2>1, OwnUntouched DEF OpenSession, Goto, Deny, Shape
    <2>2. Own(r)'
        <3>1. ran'[r] = <<>> /\ input'[r] \in Inputs[r]
            BY <1>4, Zenon DEF OpenSession, At, Own
        <3> QED BY <3>1 DEF Own
    <2> QED BY <1>4, <2>1, <2>2 DEF OpenSession
<1>5. ASSUME NEW r \in Requests, Admit(r) PROVE Kept
    <2>1. ASSUME NEW s \in Requests, s # r PROVE Own(s)'
        BY <1>5, <2>1, OwnUntouched DEF Admit, Goto, Deny, Shape
    <2>2. Own(r)'
        <3>1. ran'[r] = <<>> /\ input'[r] \in Inputs[r]
            BY <1>5, Zenon DEF Admit, At, Own
        <3> QED BY <3>1 DEF Own
    <2> QED BY <1>5, <2>1, <2>2, Zenon DEF Admit
<1>6. ASSUME NEW r \in Requests, LoadModule(r) PROVE Kept
    <2>1. ASSUME NEW s \in Requests, s # r PROVE Own(s)'
        BY <1>6, <2>1, OwnUntouched DEF LoadModule, Goto, Shape
    <2>2. UNCHANGED <<input, partition, cache>> /\ pc[r] = "load"
        BY <1>6 DEF LoadModule
    <2>3. CASE ran' = ran
        <3>1. ran'[r] = <<>> /\ input'[r] \in Inputs[r]
            BY <2>2, <2>3, Zenon DEF Own
        <3> QED BY <3>1, <2>1, <2>2 DEF Own
    <2>4. CASE \E entry \in cache : /\ entry.key = SourceHash(r)
                                    /\ ran' = [ran EXCEPT ![r] = <<entry.module>>]
                                    /\ Goto(r, "respond")
        <3>1. PICK entry \in cache : /\ entry.key = SourceHash(r)
                                     /\ ran' = [ran EXCEPT ![r] = <<entry.module>>]
                                     /\ Goto(r, "respond")
            BY <2>4, Zenon
        <3>2. Source(r) \in Seq(Nat) /\ Namespace(r) \in Seq(Nat)
            BY <2>2, ScriptBytes
        <3>3. /\ entry.module \in [source : Seq(Nat), namespace : Seq(Nat)]
              /\ Digest(entry.module.namespace, entry.module.source)
                    = Digest(Namespace(r), Source(r))
            BY <3>1 DEF Filed, SourceHash
        <3>4. entry.module.namespace = Namespace(r) /\ entry.module.source = Source(r)
            BY <3>2, <3>3, DigestInjective
        <3>5. entry.module = [source |-> Source(r), namespace |-> Namespace(r)]
            BY <3>3, <3>4
        <3>6. ran'[r] = <<[source |-> Source(r), namespace |-> Namespace(r)]>>
            BY <3>1, <3>5 DEF Shape
        <3>7. Source(r)' = Source(r) /\ Namespace(r)' = Namespace(r)
            BY <2>2 DEF Source, Namespace
        <3>8. pc'[r] = "respond" /\ input'[r] \in Inputs[r]
            BY <2>2, <3>1 DEF Goto, Shape, Own
        <3>9. Own(r)'
            BY <3>6, <3>7, <3>8 DEF Own
        <3> QED BY <2>1, <2>2, <3>9
    <2> QED BY <1>6, <2>3, <2>4 DEF LoadModule
<1>7. ASSUME NEW r \in Requests, Declare(r) PROVE Kept
    <2> DEFINE module == [source |-> Source(r), namespace |-> Namespace(r)]
    <2>1. ASSUME NEW s \in Requests, s # r PROVE Own(s)'
        BY <1>7, <2>1, OwnUntouched DEF Declare, Goto, Shape
    <2>2. UNCHANGED <<input, partition>> /\ pc[r] = "declare" /\ Goto(r, "respond")
        BY <1>7 DEF Declare
    <2>3. ran' = ran \/ ran' = [ran EXCEPT ![r] = <<module>>]
        BY <1>7 DEF Declare
    <2>4. \A entry \in cache' : entry \in cache \/ entry = [key |-> SourceHash(r), module |-> module]
        BY <1>7 DEF Declare
    <2>5. Source(r) \in Seq(Nat) /\ Namespace(r) \in Seq(Nat)
        BY <2>2, ScriptBytes
    <2>6. Filed([key |-> SourceHash(r), module |-> module])
        BY <2>5 DEF Filed, SourceHash
    <2>7. Source(r)' = Source(r) /\ Namespace(r)' = Namespace(r)
        BY <2>2 DEF Source, Namespace
    <2>8. ran'[r] = <<>> \/ ran'[r] = <<module>>
        BY <2>2, <2>3 DEF Own, Shape
    <2>9. pc'[r] = "respond" /\ input'[r] \in Inputs[r]
        BY <2>2, Zenon DEF Goto, Shape, Own
    <2>10. Own(r)'
        BY <2>7, <2>8, <2>9 DEF Own
    <2>11. \A entry \in cache' : Filed(entry)
        BY <2>4, <2>6
    <2> QED BY <2>1, <2>10, <2>11
<1>8. ASSUME NEW r \in Requests, Respond(r) PROVE Kept
    <2>1. ASSUME NEW s \in Requests, s # r PROVE Own(s)'
        BY <1>8, <2>1, OwnUntouched DEF Respond, Goto, Shape
    <2>2. /\ UNCHANGED <<input, partition, ran, cache>> /\ pc[r] = "respond"
          /\ pc'[r] = "emit"
        BY <1>8, Zenon DEF Respond, At, Goto, Shape
    <2>3. Own(r)'
        BY <2>2 DEF Own, Source, Namespace
    <2> QED BY <2>1, <2>2, <2>3, ZenonT(30)
<1>9. ASSUME Evict \/ UNCHANGED vars \/ \E r \in Requests : Emit(r) \/ Disconnect(r) PROVE Kept
    <2>1. UNCHANGED <<input, partition, pc, ran>> /\ cache' \subseteq cache
        BY <1>9 DEF Evict, vars, Emit, Disconnect
    <2> QED BY <2>1, OwnUntouched
<1>10. ASSUME NEW r \in Requests, Answer(r) PROVE Kept
    <2>1. ASSUME NEW s \in Requests, s # r PROVE Own(s)'
        BY <1>10, <2>1, OwnUntouched DEF Answer, Goto, Shape
    <2>2. /\ UNCHANGED <<input, partition, ran, cache>> /\ pc[r] = "emit"
          /\ pc'[r] = "done"
        BY <1>10, Zenon DEF Answer, At, Goto, Shape
    <2>3. Own(r)'
        BY <2>2 DEF Own, Source, Namespace
    <2> QED BY <2>1, <2>2, <2>3, ZenonT(30)
<1> QED BY <1>1, <1>2, <1>3, <1>4, <1>5, <1>6, <1>7, <1>8, <1>9, <1>10, Zenon DEF Next

\* Whatever the tenants, the sources and the order of their loads, compiles and stores: a
\* request evaluates the module of its own source, compiled in its own namespace (digest,
\* obtain_declared).
THEOREM TenancyModules == Spec => []ModuleIsOwn
<1>1. Init => ModuleInv
    BY DEF Init, ModuleInv, Shape, Own
<1>2. ModuleInv => ModuleIsOwn
    BY DEF ModuleInv, Own, ModuleIsOwn
<1> QED BY <1>1, <1>2, ModuleStep, PTL DEF Spec

-----------------------------------------------------------------------------
(* The guards and the record                                               *)

\* The answers of resolve_identity: it never answers for the door, whom it lets by in
\* trusted mode is a principal the gates admit, with the mode and the capture of the
\* edge, and a contract that is missing or refused is booked on nobody.
LEMMA AnswerFacts ==
    ASSUME NEW c, NEW h, NEW token, NEW verdict \in Verdicts
    PROVE  LET answer == ResolveIdentity(c, h, token, verdict)
           IN /\ answer.code # "UNAUTHORIZED"
              /\ c.trusted /\ answer.code = None =>
                    /\ answer.identity.tenant # None
                    /\ ~answer.identity.suspended /\ ~answer.identity.anonymous
                    /\ PrincipalKindAdmitted(c.allowed_principal_kinds, answer.identity.kind)
                    /\ answer.identity.mode = HeaderMode(h.mode)
                    /\ answer.identity.capture = HeaderFlag(h.capture)
              /\ c.trusted /\ c.contract
                 /\ (token.is = "missing" \/ answer.code \in ContractCodes) =>
                    answer.code # None /\ answer.who = Nobody
<1> DEFINE first == IF c.contract THEN ResolveContract(h, token, verdict) ELSE ResolvePlain(h)
           answer == ResolveIdentity(c, h, token, verdict)
           id == FromHeaders(h)
           signed == ApplyContract(id, IntoVerified(token.claims))
<1>1. CASE ~c.trusted
    <2>1. answer = Accept(Nobody)
        BY <1>1 DEF ResolveIdentity
    <2>2. answer.code # "UNAUTHORIZED"
        BY <2>1 DEF Accept, None
    <2> QED BY <1>1, <2>2
<1>2. CASE c.trusted
    <2>1. /\ id.mode = HeaderMode(h.mode) /\ id.capture = HeaderFlag(h.capture)
          /\ signed.mode = id.mode /\ signed.capture = id.capture
          /\ ~signed.suspended /\ ~signed.anonymous
        BY DEF FromHeaders, Nobody, ApplyContract
    <2> HIDE DEF id, signed
    <2>2. /\ first.code \notin {"UNAUTHORIZED", "PRINCIPAL_KIND_FORBIDDEN"}
          /\ first.code = None =>
                /\ first.identity.tenant # None
                /\ ~first.identity.suspended /\ ~first.identity.anonymous
                /\ first.identity.mode = HeaderMode(h.mode)
                /\ first.identity.capture = HeaderFlag(h.capture)
          /\ c.contract /\ (token.is = "missing" \/ first.code \in ContractCodes) =>
                first.code # None /\ first.who = Nobody
        <3>1. CASE c.contract
            <4>1. first = ResolveContract(h, token, verdict)
                BY <3>1
            <4>2. CASE token.is = "missing"
                <5>1. first = Refuse("CONTRACT_MISSING", Nobody)
                    BY <4>1, <4>2 DEF ResolveContract
                <5> QED BY <5>1 DEF Refuse, None
            <4>3. CASE token.is # "missing" /\ verdict # None
                <5>1. first = Refuse(verdict, Nobody)
                    BY <4>1, <4>3 DEF ResolveContract
                <5> QED BY <4>3, <5>1 DEF Refuse, None, Verdicts, ContractCodes
            <4>4. CASE token.is # "missing" /\ verdict = None
                <5>1. \/ \E k \in {"SUSPENDED_FORBIDDEN", "SUSPENDED_UNKNOWN", "TENANT_REQUIRED"} :
                            first = Refuse(k, signed)
                      \/ first = Accept(signed) /\ signed.tenant # None
                    BY <4>1, <4>4 DEF ResolveContract, signed, id
                <5>2. CASE \E k \in {"SUSPENDED_FORBIDDEN", "SUSPENDED_UNKNOWN",
                                     "TENANT_REQUIRED"} : first = Refuse(k, signed)
                    BY <4>4, <5>2, SMTT(30) DEF Refuse, None, ContractCodes
                <5>3. CASE first = Accept(signed) /\ signed.tenant # None
                    BY <2>1, <4>4, <5>3 DEF Accept, None, ContractCodes
                <5> QED BY <5>1, <5>2, <5>3, Zenon
            <4> QED BY <4>2, <4>3, <4>4, Zenon
        <3>2. CASE ~c.contract
            <4>1. first = ResolvePlain(h)
                BY <3>2
            <4>2. \/ \E k \in {"ANONYMOUS_FORBIDDEN", "SUSPENDED_FORBIDDEN", "TENANT_REQUIRED",
                               "ACTING_SCOPE_REQUIRED"} : first = Refuse(k, id)
                  \/ first = Accept(id) /\ id.tenant # None /\ ~id.suspended /\ ~id.anonymous
                BY <4>1 DEF ResolvePlain, id
            <4> QED BY <2>1, <3>2, <4>2 DEF Refuse, Accept, None
        <3> QED BY <3>1, <3>2, Zenon
    <2>3. answer = IF first.code = None
                      /\ ~PrincipalKindAdmitted(c.allowed_principal_kinds, first.identity.kind)
                   THEN Refuse("PRINCIPAL_KIND_FORBIDDEN", first.identity) ELSE first
        BY <1>2, SMTT(30) DEF ResolveIdentity
    <2> HIDE DEF first, answer
    <2>4. CASE first.code = None
               /\ ~PrincipalKindAdmitted(c.allowed_principal_kinds, first.identity.kind)
        <3>1. answer.code = "PRINCIPAL_KIND_FORBIDDEN"
            BY <2>3, <2>4 DEF Refuse
        <3>2. token.is # "missing" \/ ~c.contract
            BY <2>2, <2>4, Zenon
        <3> QED BY <3>1, <3>2 DEF answer, None, ContractCodes
    <2>5. CASE ~(first.code = None
                 /\ ~PrincipalKindAdmitted(c.allowed_principal_kinds, first.identity.kind))
        <3>1. answer = first
            BY <2>3, <2>5
        <3> QED BY <2>2, <2>5, <3>1 DEF answer
    <2> QED BY <2>4, <2>5, Zenon
<1> QED BY <1>1, <1>2, Zenon

\* r is past the gates that look at it.
Past(r) ==
    \/ pc[r] \in {"session", "admit", "load", "declare", "respond"}
    \/ pc[r] \in {"emit", "done"} /\ code[r] = None

\* What the gates left behind: the door and its token, the identity, the entitlements
\* and the partition.
Admitted(r) ==
    /\ pc[r] \notin {"emit", "done"} => code[r] = None
    /\ pc[r] # "new" => input[r] \in Inputs[r]
    /\ pc[r] # "new" /\ code[r] # "UNAUTHORIZED" => Authorized(box, input[r].bearer)
    /\ pc[r] = "body" \/ Past(r) => gate[r].code = None
    /\ Past(r) =>
          /\ Authorize(box, RequestedCapabilities(input[r].body), gate[r].identity)
          /\ box.trusted => partition[r] = gate[r].identity.tenant

\* The session is the identity's.
SessionOwn(r) ==
    /\ pc[r] \in {"new", "identity", "body", "session"} => session[r] = <<>>
    /\ \A i \in DOMAIN session[r] :
          /\ session[r][i].tenant = gate[r].identity.tenant
          /\ session[r][i].actor = gate[r].identity.user
          /\ box.trusted => partition[r] = gate[r].identity.tenant

\* Whom r is booked on.
Booked(r) == IF gate[r].code = None THEN gate[r].identity ELSE gate[r].who

Edge(r) == box.trusted /\ HeaderMode(input[r].headers.mode) = "test"

\* What was sent and what is owed of a refusal, and of a run.
DenialOf(sent, rest, who) ==
    \E reason : LET denied == Event("denied", reason, who)
                IN \/ sent = <<>> /\ rest = <<denied>>
                   \/ sent = <<denied>> /\ rest = <<>>

RunOf(sent, rest, who, edge) ==
    LET log == Event("log", None, who)
        usage == Event("usage", None, who)
        allowed == Event("allowed", None, who)
    IN \/ sent = <<>> /\ rest = <<usage, allowed>>
       \/ sent = <<usage>> /\ rest = <<allowed>>
       \/ sent = <<usage, allowed>> /\ rest = <<>>
       \/ ~edge /\ sent = <<log>> /\ rest = <<usage, allowed>>
       \/ ~edge /\ sent = <<log, usage>> /\ rest = <<allowed>>
       \/ ~edge /\ sent = <<log, usage, allowed>> /\ rest = <<>>

\* The record of r: nothing before it is decided, and then its decision, sent or owed.
Trail(r) ==
    /\ pc[r] \notin {"emit", "done"} \/ ~box.events \/ code[r] = "UNAUTHORIZED" =>
          events[r] = <<>> /\ owed[r] = <<>>
    /\ pc[r] \in {"emit", "done"} /\ box.events /\ code[r] \notin {None, "UNAUTHORIZED"} =>
          DenialOf(events[r], owed[r], Booked(r))
    /\ pc[r] \in {"emit", "done"} /\ box.events /\ code[r] = None =>
          RunOf(events[r], owed[r], Booked(r), Edge(r))
    /\ pc[r] = "done" => owed[r] = <<>>
    /\ mirrored[r] =>
          pc[r] \in {"emit", "done"} /\ box.trusted /\ HeaderFlag(input[r].headers.capture)

RecordInv ==
    /\ ContractInv /\ CheckExposure(box)
    /\ \A r \in Requests : Admitted(r) /\ SessionOwn(r) /\ Trail(r)

\* A step of another request leaves the record of s alone.
LEMMA RecordUntouched ==
    ASSUME NEW s \in Requests, Admitted(s), SessionOwn(s), Trail(s), box' = box,
           input'[s] = input[s], pc'[s] = pc[s], gate'[s] = gate[s],
           partition'[s] = partition[s], session'[s] = session[s], code'[s] = code[s],
           mirrored'[s] = mirrored[s], events'[s] = events[s], owed'[s] = owed[s]
    PROVE  Admitted(s)' /\ SessionOwn(s)' /\ Trail(s)'
<1>1. Past(s)' <=> Past(s)
    BY Zenon DEF Past
<1>2. Admitted(s)'
    BY <1>1, Zenon DEF Admitted
<1>3. SessionOwn(s)'
    BY Zenon DEF SessionOwn
<1>4. Booked(s)' = Booked(s) /\ (Edge(s)' = Edge(s))
    BY Zenon DEF Booked, Edge
<1>5. Trail(s)'
    BY <1>4, Zenon DEF Trail
<1> QED BY <1>2, <1>3, <1>5

\* Deny decides a request with its code and one event, on whom it was told.
LEMMA Denied ==
    ASSUME Shape, NEW r \in Requests, NEW c, NEW reason, NEW who, Deny(r, c, reason, who)
    PROVE  /\ pc'[r] = "emit" /\ code'[r] = c
           /\ box.events => owed'[r] = <<Event("denied", reason, who)>>
           /\ ~box.events => owed'[r] = <<>>
BY Zenon DEF Deny, Goto, ToSink, Shape

\* And so it leaves the record of a refusal.
LEMMA DeniedTrail ==
    ASSUME Shape, NEW r \in Requests, Trail(r), pc[r] \notin {"emit", "done"},
           NEW c, NEW reason, NEW who, Deny(r, c, reason, who),
           c \notin {None, "UNAUTHORIZED"}, UNCHANGED <<box, mirrored, input, events>>,
           who = Booked(r)'
    PROVE  Trail(r)'
<1>1. events'[r] = <<>>
    BY Zenon DEF Trail
<1>2. /\ pc'[r] = "emit" /\ code'[r] = c
      /\ box.events => owed'[r] = <<Event("denied", reason, who)>>
      /\ ~box.events => owed'[r] = <<>>
    BY Denied, Zenon
<1>3. box.events => DenialOf(events'[r], owed'[r], Booked(r)')
    BY <1>1, <1>2, Zenon DEF DenialOf
<1>4. mirrored'[r] => box.trusted /\ HeaderFlag(input[r].headers.capture)
    BY Zenon DEF Trail
<1> QED BY <1>1, <1>2, <1>3, <1>4, Zenon DEF Trail

\* The record of r after one of its steps; those of the others are RecordUntouched's.
Kept(r) == Admitted(r)' /\ SessionOwn(r)' /\ Trail(r)'

\* The door.
LEMMA ArriveKeeps ==
    ASSUME RecordInv, NEW r \in Requests, Arrive(r) PROVE Kept(r)
<1>0. Shape /\ Admitted(r) /\ SessionOwn(r) /\ Trail(r)
    BY DEF RecordInv, ContractInv
<1>1. PICK i \in Inputs[r] :
         /\ input' = [input EXCEPT ![r] = i]
         /\ \/ Authorized(box, i.bearer) /\ Goto(r, "identity") /\ UNCHANGED code
            \/ /\ ~Authorized(box, i.bearer)
               /\ Goto(r, "done")
               /\ code' = [code EXCEPT ![r] = "UNAUTHORIZED"]
    BY Zenon DEF Arrive
<1>2. /\ pc[r] = "new" /\ UNCHANGED <<box, gate, partition, session, mirrored, events, owed>>
      /\ input'[r] = i
    BY <1>0, <1>1, Zenon DEF Arrive, Shape
<1>3. /\ session[r] = <<>> /\ events[r] = <<>> /\ owed[r] = <<>> /\ code[r] = None
      /\ ~mirrored[r]
    BY <1>0, <1>2 DEF Admitted, SessionOwn, Trail
<1>4. \/ Authorized(box, i.bearer) /\ pc'[r] = "identity" /\ code'[r] = None
      \/ pc'[r] = "done" /\ code'[r] = "UNAUTHORIZED"
    BY <1>0, <1>1, <1>3, Zenon DEF Goto, Shape
<1>5. Admitted(r)'
    BY <1>2, <1>4, Zenon DEF Admitted, Past, None, Authorized
<1>6. SessionOwn(r)'
    BY <1>2, <1>3 DEF SessionOwn
<1>7. Trail(r)'
    BY <1>2, <1>3, <1>4 DEF Trail, None
<1> QED BY <1>5, <1>6, <1>7 DEF Kept

\* The identity gate.
LEMMA ResolveKeeps ==
    ASSUME RecordInv, NEW r \in Requests, Resolve(r) PROVE Kept(r)
<1>0. Shape /\ Admitted(r) /\ SessionOwn(r) /\ Trail(r)
    BY DEF RecordInv, ContractInv
<1>1. PICK verdict \in Verdicts :
         LET answer == ResolveIdentity(box, input[r].headers, input[r].token, verdict)
         IN /\ gate' = [gate EXCEPT ![r] = answer]
            /\ IF answer.code = None
               THEN Goto(r, "body") /\ UNCHANGED <<code, owed>>
               ELSE Deny(r, answer.code, answer.code, answer.who)
    BY Zenon DEF Resolve
<1> DEFINE answer == ResolveIdentity(box, input[r].headers, input[r].token, verdict)
<1>2. /\ pc[r] = "identity" /\ UNCHANGED <<box, input, partition, session, mirrored, events>>
      /\ gate'[r] = answer
    BY <1>0, <1>1, Zenon DEF Resolve, At, Shape
<1>3. answer.code # "UNAUTHORIZED"
    BY AnswerFacts, Zenon
<1>4. IF answer.code = None
      THEN Goto(r, "body") /\ UNCHANGED <<code, owed>>
      ELSE Deny(r, answer.code, answer.code, answer.who)
    BY <1>1
<1> HIDE DEF answer
<1>5. /\ session[r] = <<>> /\ events[r] = <<>> /\ owed[r] = <<>> /\ code[r] = None
      /\ ~mirrored[r] /\ Authorized(box, input[r].bearer) /\ input[r] \in Inputs[r]
    BY <1>0, <1>2, ZenonT(30) DEF Admitted, SessionOwn, Trail, None
<1>6. SessionOwn(r)'
    BY <1>2, <1>5 DEF SessionOwn
<1>7. CASE answer.code = None
    <2>1. pc'[r] = "body" /\ code'[r] = None /\ owed' = owed
        BY <1>0, <1>4, <1>5, <1>7 DEF Goto, Shape
    <2>2. Admitted(r)'
        BY <1>2, <1>5, <1>7, <2>1, Zenon DEF Admitted, Past, Authorized
    <2>3. Trail(r)'
        BY <1>2, <1>5, <2>1 DEF Trail
    <2> QED BY <1>6, <2>2, <2>3, Zenon DEF Kept
<1>8. CASE answer.code # None
    <2>1. Deny(r, answer.code, answer.code, answer.who)
        BY <1>4, <1>8
    <2>2. pc'[r] = "emit" /\ code'[r] = answer.code
        BY <1>0, <2>1, Denied, Zenon
    <2>3. Admitted(r)'
        BY <1>2, <1>5, <1>8, <2>2 DEF Admitted, Past, Authorized
    <2>4. Booked(r)' = answer.who
        BY <1>2, <1>8 DEF Booked
    <2>5. answer.code \notin {None, "UNAUTHORIZED"}
        BY <1>3, <1>8, Zenon
    <2>6. Trail(r)'
        BY <1>0, <1>2, <2>1, <2>4, <2>5, DeniedTrail, Zenon
    <2> QED BY <1>6, <2>3, <2>6 DEF Kept
<1> QED BY <1>7, <1>8

\* A refusal past the identity gate keeps the record.
LEMMA RefusalKeeps ==
    ASSUME RecordInv, NEW r \in Requests, pc[r] \in {"body", "session", "admit"},
           NEW c, NEW reason, c \notin {None, "UNAUTHORIZED"},
           Deny(r, c, reason, gate[r].identity), UNCHANGED <<box, input, gate, session, mirrored, events>>,
           session[r] = <<>> \/ partition' = partition
    PROVE  Kept(r)
<1>0. Shape /\ Admitted(r) /\ SessionOwn(r) /\ Trail(r)
    BY ZenonT(30) DEF RecordInv, ContractInv
<1>1. /\ gate[r].code = None /\ events[r] = <<>> /\ code[r] = None
      /\ Authorized(box, input[r].bearer) /\ input[r] \in Inputs[r]
    BY <1>0 DEF Admitted, Past, Trail, None
<1>2. pc'[r] = "emit" /\ code'[r] = c
    BY <1>0, Denied, Zenon
<1>3. Admitted(r)'
    BY <1>1, <1>2, Zenon DEF Admitted, Past, Authorized
<1>4. SessionOwn(r)'
    BY <1>0, <1>2 DEF SessionOwn
<1>5. Booked(r)' = gate[r].identity
    BY <1>1, Zenon DEF Booked
<1>6. Trail(r)'
    BY <1>0, <1>5, DeniedTrail
<1> QED BY <1>3, <1>4, <1>6 DEF Kept

\* What the gates that look at the body answer.
LEMMA BodyGateFacts ==
    ASSUME NEW r \in Requests, input[r] \in Inputs[r]
    PROVE  /\ BodyGate(r)[1] # "UNAUTHORIZED"
           /\ BodyGate(r)[1] = None =>
                 /\ input[r].body.parses
                 /\ Authorize(box, RequestedCapabilities(input[r].body), gate[r].identity)
<1> DEFINE body == input[r].body
           entitled == Authorize(box, RequestedCapabilities(body), gate[r].identity)
<1>1. body.oversize \in {None, "SCRIPT_TOO_LARGE", "CONTEXT_TOO_LARGE"}
    BY TenancyAssumption
<1>2. BodyGate(r) =
         CASE ~body.parses -> <<"MALFORMED_REQUEST", "MALFORMED_REQUEST">>
           [] ~entitled -> <<"ENTITLEMENT_REQUIRED", "ENTITLEMENT_REQUIRED">>
           [] body.names = "neither_or_both" -> <<"SCRIPT_XOR_KEY", "SCRIPT_NOT_FOUND">>
           [] body.names = "unknown_key" -> <<"SCRIPT_NOT_FOUND", "SCRIPT_NOT_FOUND">>
           [] body.oversize # None -> <<body.oversize, "INPUT_TOO_LARGE">>
           [] OTHER -> <<None, None>>
    BY DEF BodyGate
<1> HIDE DEF body, entitled
<1>3. BodyGate(r)[1] # "UNAUTHORIZED" /\ (BodyGate(r)[1] = None => body.parses /\ entitled)
    BY <1>1, <1>2 DEF None
<1> QED BY <1>3 DEF body, entitled

\* The gates on the body, and the quota.
LEMMA ReadBodyKeeps ==
    ASSUME RecordInv, NEW r \in Requests, ReadBody(r) PROVE Kept(r)
<1>0. Shape /\ Admitted(r) /\ SessionOwn(r) /\ Trail(r)
    BY DEF RecordInv, ContractInv
<1>1. /\ pc[r] = "body" /\ UNCHANGED <<box, input, gate, session, mirrored, events>>
      /\ partition'[r] = IF input[r].body.parses
                         THEN ResolvePartition(box, gate[r].identity,
                                               Asserted(input[r].headers, input[r].body))
                         ELSE partition[r]
    BY <1>0, Zenon DEF ReadBody, At, Shape
<1>2. /\ gate[r].code = None /\ events[r] = <<>> /\ owed[r] = <<>> /\ code[r] = None
      /\ session[r] = <<>>
      /\ Authorized(box, input[r].bearer) /\ input[r] \in Inputs[r] /\ ~mirrored[r]
    BY <1>0, <1>1, Zenon DEF Admitted, SessionOwn, Trail, None
<1>3. \/ BodyGate(r)[1] # None
         /\ Deny(r, BodyGate(r)[1], BodyGate(r)[2], gate[r].identity)
      \/ BodyGate(r)[1] = None /\ Goto(r, "session") /\ UNCHANGED <<code, owed>>
      \/ Deny(r, "QUOTA_EXCEEDED", "QUOTA_EXCEEDED", gate[r].identity)
    BY DEF ReadBody
<1>4. CASE BodyGate(r)[1] # None
           /\ Deny(r, BodyGate(r)[1], BodyGate(r)[2], gate[r].identity)
    <2>1. BodyGate(r)[1] \notin {None, "UNAUTHORIZED"}
        BY <1>2, <1>4, BodyGateFacts
    <2> QED BY <1>1, <1>2, <1>4, <2>1, RefusalKeeps, ZenonT(30)
<1>5. CASE Deny(r, "QUOTA_EXCEEDED", "QUOTA_EXCEEDED", gate[r].identity)
    <2>1. "QUOTA_EXCEEDED" \notin {None, "UNAUTHORIZED"}
        BY DEF None
    <2> QED BY <1>1, <1>2, <1>5, <2>1, RefusalKeeps, Zenon
<1>6. CASE BodyGate(r)[1] = None /\ Goto(r, "session") /\ UNCHANGED <<code, owed>>
    <2>1. pc'[r] = "session" /\ code'[r] = None /\ events'[r] = <<>> /\ owed'[r] = <<>>
        BY <1>0, <1>1, <1>2, <1>6, Zenon DEF Goto, Shape
    <2>2. /\ input[r].body.parses
          /\ Authorize(box, RequestedCapabilities(input[r].body), gate[r].identity)
        BY <1>2, <1>6, BodyGateFacts, Zenon
    <2>3. box.trusted => partition'[r] = gate[r].identity.tenant
        BY <1>1, <2>2, Zenon DEF ResolvePartition
    <2>4. Admitted(r)'
        <3>1. Past(r)' /\ pc'[r] # "new" /\ code'[r] # "UNAUTHORIZED"
            BY <2>1 DEF Past, None
        <3>2. /\ Authorize(box, RequestedCapabilities(input[r].body), gate[r].identity)'
              /\ Authorized(box, input[r].bearer)'
            BY <1>1, <1>2, <2>2, Zenon DEF Authorized, Authorize
        <3> QED BY <1>1, <1>2, <2>1, <2>3, <3>1, <3>2, Zenon DEF Admitted
    <2>5. SessionOwn(r)'
        <3>1. session'[r] = <<>>
            BY <1>1, <1>2, Zenon
        <3>2. \A i : i \notin DOMAIN session'[r]
            <4>1. DOMAIN <<>> = {}
                OBVIOUS
            <4> QED BY <3>1, <4>1, Zenon
        <3> QED BY <3>1, <3>2, Zenon DEF SessionOwn
    <2>6. Trail(r)'
        BY <1>1, <1>2, <2>1, Zenon DEF Trail
    <2> QED BY <2>4, <2>5, <2>6 DEF Kept
<1> QED BY <1>3, <1>4, <1>5, <1>6

\* A step from one gate to the next keeps what the gates before it left.
LEMMA OnwardKeeps ==
    ASSUME RecordInv, NEW r \in Requests, pc[r] \in {"session", "admit", "load", "declare"},
           NEW step \in {"admit", "load", "declare", "respond"}, Goto(r, step),
           UNCHANGED <<box, input, gate, partition, code, mirrored, events, owed>>
    PROVE  Admitted(r)' /\ Trail(r)'
<1>0. Shape /\ Admitted(r) /\ Trail(r)
    BY DEF RecordInv, ContractInv
<1>1. pc'[r] = step
    BY <1>0 DEF Goto, Shape
<1>2. /\ Past(r) /\ Past(r)' /\ pc[r] # "new"
      /\ pc[r] \notin {"emit", "done"} /\ pc'[r] \notin {"emit", "done"}
    BY <1>1 DEF Past
<1>3. Admitted(r)'
    BY <1>0, <1>2, ZenonT(30) DEF Admitted
<1>4. Trail(r)'
    BY <1>0, <1>2, Zenon DEF Trail
<1> QED BY <1>3, <1>4

\* Who a session is opened for (wire_init).
LEMMA WireInitIs ==
    ASSUME NEW names, NEW id
    PROVE  WireInit(names, id).tenant = id.tenant /\ WireInit(names, id).actor = id.user
BY DEF WireInit

\* connect_session
LEMMA OpenSessionKeeps ==
    ASSUME RecordInv, NEW r \in Requests, OpenSession(r) PROVE Kept(r)
<1>0. Shape /\ Admitted(r) /\ SessionOwn(r)
    BY DEF RecordInv, ContractInv
<1>1. /\ pc[r] = "session" /\ UNCHANGED <<box, input, gate, partition, mirrored, events>>
      /\ \/ Goto(r, "admit") /\ UNCHANGED <<session, code, owed>>
         \/ /\ session' = [session EXCEPT ![r] =
                              <<WireInit(BrokerNames(box, input[r].body), gate[r].identity)>>]
            /\ Goto(r, "admit") /\ UNCHANGED <<code, owed>>
         \/ /\ \E c \in {"RESOURCE_NOT_FOUND", "EGRESS_UNAVAILABLE", "EGRESS_PROTOCOL"} :
                  Deny(r, c, "EGRESS_UNAVAILABLE", gate[r].identity)
            /\ UNCHANGED session
    BY Zenon DEF OpenSession, At
<1>2. /\ session[r] = <<>> /\ (box.trusted => partition[r] = gate[r].identity.tenant)
    BY <1>0, <1>1, Zenon DEF SessionOwn, Admitted, Past
<1>3. CASE Goto(r, "admit") /\ UNCHANGED <<session, code, owed>>
    <2>1. Admitted(r)' /\ Trail(r)'
        BY <1>1, <1>3, OnwardKeeps, Zenon
    <2>2. SessionOwn(r)'
        BY <1>2, <1>3 DEF SessionOwn
    <2> QED BY <2>1, <2>2 DEF Kept
<1>4. CASE /\ session' = [session EXCEPT ![r] =
                             <<WireInit(BrokerNames(box, input[r].body), gate[r].identity)>>]
           /\ Goto(r, "admit") /\ UNCHANGED <<code, owed>>
    <2>1. Admitted(r)' /\ Trail(r)'
        BY <1>1, <1>4, OnwardKeeps, Zenon
    <2>2. session'[r] = <<WireInit(BrokerNames(box, input[r].body), gate[r].identity)>>
        BY <1>0, <1>4, Zenon DEF Shape
    <2>3. pc'[r] = "admit"
        BY <1>0, <1>4, Zenon DEF Goto, Shape
    <2>4. SessionOwn(r)'
        <3> DEFINE w == WireInit(BrokerNames(box, input[r].body), gate[r].identity)
        <3>1. w.tenant = gate[r].identity.tenant /\ w.actor = gate[r].identity.user
            BY WireInitIs, Zenon
        <3> HIDE DEF w
        <3>2. session'[r] = <<w>>
            BY <2>2, Zenon DEF w
        <3>3. \A i \in DOMAIN session'[r] : session'[r][i] = w
            BY <3>2
        <3>4. box' = box /\ gate' = gate /\ partition' = partition
            BY <1>1, Zenon
        <3>5. pc'[r] \notin {"new", "identity", "body", "session"}
            BY <2>3
        <3> QED BY <1>2, <3>1, <3>3, <3>4, <3>5, Zenon DEF SessionOwn
    <2> QED BY <2>1, <2>4 DEF Kept
<1>5. ASSUME NEW c \in {"RESOURCE_NOT_FOUND", "EGRESS_UNAVAILABLE", "EGRESS_PROTOCOL"},
             Deny(r, c, "EGRESS_UNAVAILABLE", gate[r].identity), UNCHANGED session
      PROVE  Kept(r)
    <2>1. c \notin {None, "UNAUTHORIZED"}
        BY DEF None
    <2> QED BY <1>1, <1>5, <2>1, RefusalKeeps, Zenon
<1> QED BY <1>1, <1>3, <1>4, <1>5, Zenon

\* admit, and the load and the compile of the module.
LEMMA MiddleKeeps ==
    ASSUME RecordInv, NEW r \in Requests, Admit(r) \/ LoadModule(r) \/ Declare(r)
    PROVE  Kept(r)
<1>0. Shape /\ SessionOwn(r)
    BY DEF RecordInv, ContractInv
<1>1. /\ UNCHANGED <<box, input, gate, partition, session, mirrored, events>>
      /\ \/ /\ pc[r] \in {"admit", "load", "declare"} /\ UNCHANGED <<code, owed>>
            /\ \E step \in {"load", "declare", "respond"} : Goto(r, step)
         \/ /\ pc[r] = "admit"
            /\ \E c \in {"PARTITION_OVERLOADED", "OVERLOADED"} :
                  Deny(r, c, "OVERLOADED", gate[r].identity)
    BY Zenon DEF Admit, At, LoadModule, Declare
<1>2. ASSUME NEW step \in {"load", "declare", "respond"}, Goto(r, step),
             pc[r] \in {"admit", "load", "declare"}, UNCHANGED <<code, owed>>
      PROVE  Kept(r)
    <2>1. Admitted(r)' /\ Trail(r)'
        BY <1>1, <1>2, OnwardKeeps
    <2>2. pc'[r] = step
        BY <1>0, <1>2 DEF Goto, Shape
    <2>3. SessionOwn(r)'
        BY <1>0, <1>1, <2>2, Zenon DEF SessionOwn
    <2> QED BY <2>1, <2>3, Zenon DEF Kept
<1>3. ASSUME NEW c \in {"PARTITION_OVERLOADED", "OVERLOADED"}, pc[r] = "admit",
             Deny(r, c, "OVERLOADED", gate[r].identity)
      PROVE  Kept(r)
    <2>1. c \notin {None, "UNAUTHORIZED"}
        BY ZenonT(30) DEF None
    <2> QED BY <1>1, <1>3, <2>1, RefusalKeeps, Zenon
<1> QED BY <1>1, <1>2, <1>3, Zenon

\* A request past the identity gate holds an answer of resolve_identity.
LEMMA AnswerOf ==
    ASSUME ContractInv, NEW r \in Requests, pc[r] \notin {"new", "identity"},
           code[r] # "UNAUTHORIZED"
    PROVE  /\ box.trusted /\ gate[r].code = None =>
                 /\ gate[r].identity.tenant # None
                 /\ ~gate[r].identity.suspended /\ ~gate[r].identity.anonymous
                 /\ PrincipalKindAdmitted(box.allowed_principal_kinds, gate[r].identity.kind)
                 /\ gate[r].identity.mode = HeaderMode(input[r].headers.mode)
                 /\ gate[r].identity.capture = HeaderFlag(input[r].headers.capture)
           /\ box.trusted /\ box.contract
              /\ (input[r].token.is = "missing" \/ gate[r].code \in ContractCodes) =>
                 gate[r].code # None /\ gate[r].who = Nobody
<1>1. PICK verdict \in Verdicts :
         gate[r] = ResolveIdentity(box, input[r].headers, input[r].token, verdict)
    BY Zenon DEF ContractInv, Resolved
<1> QED BY <1>1, AnswerFacts

\* build_response: the record of a run.
LEMMA RespondKeeps ==
    ASSUME RecordInv, NEW r \in Requests, Respond(r) PROVE Kept(r)
<1> DEFINE who == gate[r].identity
           policy == LogPolicy(box, who)
           logs == ran[r] # <<>> /\ input[r].body.logs
<1>0. ContractInv /\ Shape /\ Admitted(r) /\ SessionOwn(r) /\ Trail(r)
    BY DEF RecordInv, ContractInv
<1>1. /\ pc[r] = "respond" /\ Goto(r, "emit")
      /\ mirrored' = [mirrored EXCEPT ![r] = policy.capture]
      /\ UNCHANGED <<box, input, gate, partition, session, code>>
    BY Zenon DEF Respond, At
<1>2. pc'[r] = "emit" /\ mirrored'[r] = policy.capture
    BY <1>0, <1>1, Zenon DEF Goto, Shape
<1>3. gate[r].code = None /\ events[r] = <<>> /\ code[r] = None /\ Past(r) /\ Past(r)'
    BY <1>0, <1>1, <1>2, Zenon DEF Admitted, Trail, Past
<1>4. Admitted(r)'
    BY <1>0, <1>1, <1>2, <1>3, Zenon DEF Admitted
<1>5. SessionOwn(r)'
    BY <1>0, <1>1, <1>2, Zenon DEF SessionOwn
<1>6. Booked(r)' = who
    BY <1>1, <1>3, Zenon DEF Booked
<1>7. box.trusted => /\ who.mode = HeaderMode(input[r].headers.mode)
                     /\ who.capture = HeaderFlag(input[r].headers.capture)
    <2>1. code[r] # "UNAUTHORIZED" /\ pc[r] \notin {"new", "identity"}
        BY <1>1, <1>3, Zenon DEF None
    <2> QED BY <1>0, <1>3, <2>1, AnswerOf
<1>8. /\ policy.mode = IF box.trusted THEN HeaderMode(input[r].headers.mode) ELSE "live"
      /\ policy.capture = IF box.trusted THEN HeaderFlag(input[r].headers.capture) ELSE FALSE
    BY <1>7, Zenon DEF LogPolicy
<1>9. mirrored'[r] => box.trusted /\ HeaderFlag(input[r].headers.capture)
    BY <1>2, <1>8, Zenon
<1>10. /\ owed'[r] = ToSink(EmitExecuted(who))
       /\ events'[r] = <<>> \/ events'[r] = ToSink(StreamLogs(policy, logs, who))
    BY <1>0, <1>3, Zenon DEF Respond, Shape
<1> HIDE DEF who, policy, logs
<1>11. /\ box.events => owed'[r] = <<Event("usage", None, who), Event("allowed", None, who)>>
       /\ ~box.events => events'[r] = <<>> /\ owed'[r] = <<>>
       /\ \/ events'[r] = <<>>
          \/ policy.mode # "test" /\ events'[r] = <<Event("log", None, who)>>
    BY <1>10, Zenon DEF ToSink, StreamLogs, EmitExecuted
<1>12. policy.mode # "test" => ~Edge(r)'
    BY <1>1, <1>8 DEF Edge
<1>13. box.events => RunOf(events'[r], owed'[r], Booked(r)', Edge(r)')
    BY <1>6, <1>11, <1>12, Zenon DEF RunOf
<1>14. Trail(r)'
    BY <1>1, <1>2, <1>3, <1>9, <1>11, <1>13, Zenon DEF Trail, None
<1> QED BY <1>4, <1>5, <1>14 DEF Kept

\* The first event that is owed becomes the last that was sent.
LEMMA SentNext ==
    ASSUME NEW x, NEW y, NEW z
    PROVE  /\ Append(<<>>, Head(<<x>>)) = <<x>> /\ Tail(<<x>>) = <<>>
           /\ Append(<<>>, Head(<<x, y>>)) = <<x>> /\ Tail(<<x, y>>) = <<y>>
           /\ Append(<<x>>, Head(<<y>>)) = <<x, y>>
           /\ Append(<<x>>, Head(<<y, z>>)) = <<x, y>>
           /\ Append(<<x, y>>, Head(<<z>>)) = <<x, y, z>>
<1>1. /\ Head(<<x>>) = x /\ Head(<<x, y>>) = x /\ Head(<<y>>) = y /\ Head(<<y, z>>) = y
      /\ Head(<<z>>) = z
    OBVIOUS
<1>2. Tail(<<x>>) = <<>>
    OBVIOUS
<1>3. Tail(<<x, y>>) = <<y>>
    OBVIOUS
<1> DEFINE S == {x, y, z}
<1>0. <<>> \in Seq(S) /\ <<x>> \in Seq(S) /\ <<x, y>> \in Seq(S) /\ <<x, y, z>> \in Seq(S)
    OBVIOUS
<1>4. Append(<<>>, x) = <<x>> /\ Append(<<x>>, y) = <<x, y>>
    <2>1. Append(<<>>, x) \in Seq(S) /\ Append(<<x>>, y) \in Seq(S)
        BY <1>0
    <2>2. Len(Append(<<>>, x)) = 1 /\ Append(<<>>, x)[1] = x
        BY <1>0
    <2>3. Len(Append(<<x>>, y)) = 2 /\ Append(<<x>>, y)[1] = x /\ Append(<<x>>, y)[2] = y
        BY <1>0
    <2>4. Append(<<>>, x) = <<x>>
        <3>1. Len(<<x>>) = 1 /\ \A i \in 1..1 : Append(<<>>, x)[i] = <<x>>[i]
            BY <2>2
        <3> QED BY <1>0, <2>1, <2>2, <3>1, SameSeq
    <2>5. Append(<<x>>, y) = <<x, y>>
        <3>1. Len(<<x, y>>) = 2 /\ \A i \in 1..2 : Append(<<x>>, y)[i] = <<x, y>>[i]
            BY <2>3
        <3> QED BY <1>0, <2>1, <2>3, <3>1, SameSeq
    <2> QED BY <2>4, <2>5
<1>5. Append(<<x, y>>, z) = <<x, y, z>>
    <2>1. /\ Append(<<x, y>>, z) \in Seq(S) /\ Len(Append(<<x, y>>, z)) = 3
          /\ Append(<<x, y>>, z)[1] = x /\ Append(<<x, y>>, z)[2] = y
          /\ Append(<<x, y>>, z)[3] = z
        BY <1>0
    <2>2. Len(<<x, y, z>>) = 3 /\ \A i \in 1..3 : Append(<<x, y>>, z)[i] = <<x, y, z>>[i]
        BY <2>1
    <2> QED BY <1>0, <2>1, <2>2, SameSeq
<1> QED BY <1>1, <1>2, <1>3, <1>4, <1>5, Zenon

LEMMA DenialMoves ==
    ASSUME NEW sent, NEW rest, NEW who, DenialOf(sent, rest, who), rest # <<>>
    PROVE  DenialOf(Append(sent, Head(rest)), Tail(rest), who)
<1>1. PICK reason : LET denied == Event("denied", reason, who)
                    IN sent = <<>> /\ rest = <<denied>>
    BY Zenon DEF DenialOf
<1> QED BY <1>1, SentNext, Zenon DEF DenialOf

LEMMA RunMoves ==
    ASSUME NEW sent, NEW rest, NEW who, NEW edge, RunOf(sent, rest, who, edge), rest # <<>>
    PROVE  RunOf(Append(sent, Head(rest)), Tail(rest), who, edge)
<1> DEFINE log == Event("log", None, who)
           usage == Event("usage", None, who)
           allowed == Event("allowed", None, who)
<1>1. \/ sent = <<>> /\ rest = <<usage, allowed>>
      \/ sent = <<usage>> /\ rest = <<allowed>>
      \/ ~edge /\ sent = <<log>> /\ rest = <<usage, allowed>>
      \/ ~edge /\ sent = <<log, usage>> /\ rest = <<allowed>>
    BY Zenon DEF RunOf
<1>2. \/ Append(sent, Head(rest)) = <<usage>> /\ Tail(rest) = <<allowed>>
      \/ Append(sent, Head(rest)) = <<usage, allowed>> /\ Tail(rest) = <<>>
      \/ ~edge /\ Append(sent, Head(rest)) = <<log, usage>> /\ Tail(rest) = <<allowed>>
      \/ ~edge /\ Append(sent, Head(rest)) = <<log, usage, allowed>> /\ Tail(rest) = <<>>
    <2> HIDE DEF log, usage, allowed
    <2>1. CASE sent = <<>> /\ rest = <<usage, allowed>>
        <3>1. Append(<<>>, Head(<<usage, allowed>>)) = <<usage>> /\ Tail(<<usage, allowed>>) = <<allowed>>
            BY SentNext, Zenon
        <3> QED BY <2>1, <3>1, Zenon
    <2>2. CASE sent = <<usage>> /\ rest = <<allowed>>
        <3>1. Append(<<usage>>, Head(<<allowed>>)) = <<usage, allowed>> /\ Tail(<<allowed>>) = <<>>
            BY SentNext, Zenon
        <3> QED BY <2>2, <3>1, Zenon
    <2>3. CASE ~edge /\ sent = <<log>> /\ rest = <<usage, allowed>>
        <3>1. /\ Append(<<log>>, Head(<<usage, allowed>>)) = <<log, usage>>
              /\ Tail(<<usage, allowed>>) = <<allowed>>
            BY SentNext, Zenon
        <3> QED BY <2>3, <3>1, Zenon
    <2>4. CASE ~edge /\ sent = <<log, usage>> /\ rest = <<allowed>>
        <3>1. /\ Append(<<log, usage>>, Head(<<allowed>>)) = <<log, usage, allowed>>
              /\ Tail(<<allowed>>) = <<>>
            BY SentNext, Zenon
        <3> QED BY <2>4, <3>1, Zenon
    <2> QED BY <1>1, <2>1, <2>2, <2>3, <2>4, Zenon
<1> QED BY <1>2, Zenon DEF RunOf

\* The sends, the answer and the client's departure.
LEMMA EmitKeeps ==
    ASSUME RecordInv, NEW r \in Requests, Emit(r) PROVE Kept(r)
<1>0. Shape /\ Admitted(r) /\ SessionOwn(r) /\ Trail(r)
    BY DEF RecordInv, ContractInv
<1>1. /\ UNCHANGED <<box, input, pc, gate, partition, session, code, mirrored>>
      /\ pc[r] = "emit" /\ owed[r] # <<>>
      /\ events'[r] = Append(events[r], Head(owed[r])) /\ owed'[r] = Tail(owed[r])
    BY <1>0, Zenon DEF Emit, At, Shape
<1>2. Admitted(r)' /\ SessionOwn(r)'
    BY <1>0, <1>1, Zenon DEF Admitted, Past, SessionOwn
<1>3. Booked(r)' = Booked(r) /\ (Edge(r)' = Edge(r))
    BY <1>1, Zenon DEF Booked, Edge
<1>4. box.events /\ code[r] # "UNAUTHORIZED"
    BY <1>0, <1>1, Zenon DEF Trail
<1>5. code[r] # None => DenialOf(events'[r], owed'[r], Booked(r)')
    BY <1>0, <1>1, <1>3, <1>4, DenialMoves, Zenon DEF Trail
<1>6. code[r] = None => RunOf(events'[r], owed'[r], Booked(r)', Edge(r)')
    BY <1>0, <1>1, <1>3, <1>4, RunMoves, Zenon DEF Trail
<1>7. Trail(r)'
    BY <1>0, <1>1, <1>4, <1>5, <1>6, Zenon DEF Trail
<1> QED BY <1>2, <1>7 DEF Kept

LEMMA AnswerKeeps ==
    ASSUME RecordInv, NEW r \in Requests, Answer(r) PROVE Kept(r)
<1>0. Shape /\ Admitted(r) /\ SessionOwn(r) /\ Trail(r)
    BY DEF RecordInv, ContractInv
<1>1. /\ UNCHANGED <<box, input, gate, partition, session, code, mirrored, events, owed>>
      /\ pc[r] = "emit" /\ pc'[r] = "done" /\ owed[r] = <<>>
    BY <1>0, Zenon DEF Answer, At, Goto, Shape
<1>2. Past(r)' <=> Past(r)
    BY <1>1, Zenon DEF Past
<1>3. Admitted(r)' /\ SessionOwn(r)'
    BY <1>0, <1>1, <1>2, Zenon DEF Admitted, SessionOwn
<1>4. Booked(r)' = Booked(r) /\ (Edge(r)' = Edge(r))
    BY <1>1, Zenon DEF Booked, Edge
<1>5. Trail(r)'
    BY <1>0, <1>1, <1>4, Zenon DEF Trail
<1> QED BY <1>3, <1>5 DEF Kept

\* The steps of a request leave the rest of another alone.
LEMMA OthersUntouched ==
    ASSUME Shape, NEW r \in Requests, NEW s \in Requests, s # r,
           \/ Arrive(r) \/ Resolve(r) \/ ReadBody(r) \/ OpenSession(r)
           \/ Admit(r) \/ LoadModule(r) \/ Declare(r) \/ Respond(r) \/ Emit(r) \/ Answer(r)
    PROVE  /\ box' = box /\ input'[s] = input[s] /\ pc'[s] = pc[s] /\ gate'[s] = gate[s]
           /\ partition'[s] = partition[s] /\ session'[s] = session[s] /\ code'[s] = code[s]
           /\ mirrored'[s] = mirrored[s] /\ events'[s] = events[s] /\ owed'[s] = owed[s]
<1>1. CASE Arrive(r)
    BY <1>1, Zenon DEF Arrive, Goto, Shape
<1>2. CASE Resolve(r)
    BY <1>2, ZenonT(30) DEF Resolve, Goto, Deny, Shape
<1>3. CASE ReadBody(r)
    BY <1>3, ZenonT(30) DEF ReadBody, Goto, Deny, Shape
<1>4. CASE OpenSession(r)
    BY <1>4, Zenon DEF OpenSession, Goto, Deny, Shape
<1>5. CASE Admit(r)
    BY <1>5, Zenon DEF Admit, Goto, Deny, Shape
<1>6. CASE LoadModule(r)
    BY <1>6, Zenon DEF LoadModule, Goto, Shape
<1>7. CASE Declare(r)
    BY <1>7, Zenon DEF Declare, Goto, Shape
<1>8. CASE Respond(r)
    BY <1>8, Zenon DEF Respond, Goto, Shape
<1>9. CASE Emit(r) \/ Answer(r)
    BY <1>9, Zenon DEF Emit, Answer, Goto, Shape
<1> QED BY <1>1, <1>2, <1>3, <1>4, <1>5, <1>6, <1>7, <1>8, <1>9, Zenon

\* Each step keeps what the gates and the record left of every request.
LEMMA RecordStep == RecordInv /\ [Next]_vars => RecordInv'
<1> SUFFICES ASSUME RecordInv, [Next]_vars PROVE RecordInv'
    OBVIOUS
<1>0. Shape /\ ContractInv /\ CheckExposure(box)
    BY DEF RecordInv, ContractInv
<1>1. ContractInv'
    BY <1>0, ContractStep
<1>2. ASSUME NEW r \in Requests,
             \/ Arrive(r) \/ Resolve(r) \/ ReadBody(r) \/ OpenSession(r)
             \/ Admit(r) \/ LoadModule(r) \/ Declare(r) \/ Respond(r) \/ Emit(r) \/ Answer(r)
      PROVE  RecordInv'
    <2>1. Kept(r)
        BY <1>2, ArriveKeeps, ResolveKeeps, ReadBodyKeeps, OpenSessionKeeps, MiddleKeeps,
           RespondKeeps, EmitKeeps, AnswerKeeps, Zenon
    <2>2. ASSUME NEW s \in Requests, s # r PROVE Admitted(s)' /\ SessionOwn(s)' /\ Trail(s)'
        <3>1. Admitted(s) /\ SessionOwn(s) /\ Trail(s)
            BY Zenon DEF RecordInv
        <3>2. /\ box' = box /\ input'[s] = input[s] /\ pc'[s] = pc[s] /\ gate'[s] = gate[s]
              /\ partition'[s] = partition[s] /\ session'[s] = session[s]
              /\ code'[s] = code[s] /\ mirrored'[s] = mirrored[s] /\ events'[s] = events[s]
              /\ owed'[s] = owed[s]
            BY <1>0, <1>2, <2>2, OthersUntouched
        <3> QED BY <3>1, <3>2, RecordUntouched
    <2>3. box' = box
        BY <1>2, Zenon
           DEF Arrive, Resolve, ReadBody, OpenSession, Admit, LoadModule, Declare, Respond,
               Emit, Answer
    <2>4. CheckExposure(box)'
        BY <1>0, <2>3
    <2>5. ASSUME NEW s \in Requests PROVE Admitted(s)' /\ SessionOwn(s)' /\ Trail(s)'
        BY <2>1, <2>2 DEF Kept
    <2> QED BY <1>1, <2>4, <2>5 DEF RecordInv
<1>3. ASSUME Evict \/ UNCHANGED vars \/ \E r \in Requests : Disconnect(r) PROVE RecordInv'
    <2>1. UNCHANGED <<box, input, pc, gate, partition, session, code, mirrored, events, owed>>
        BY <1>3 DEF Evict, Disconnect, vars
    <2>2. CheckExposure(box)'
        BY <1>0, <2>1, Zenon
    <2>3. ASSUME NEW s \in Requests PROVE Admitted(s)' /\ SessionOwn(s)' /\ Trail(s)'
        <3>1. Admitted(s) /\ SessionOwn(s) /\ Trail(s)
            BY DEF RecordInv
        <3> QED BY <2>1, <3>1, RecordUntouched
    <2> QED BY <1>1, <2>2, <2>3 DEF RecordInv
<1> QED BY <1>2, <1>3 DEF Next

LEMMA RecordInit == Init => RecordInv
<1> SUFFICES ASSUME Init PROVE RecordInv
    OBVIOUS
<1>1. ContractInv /\ CheckExposure(box)
    BY DEF Init, ContractInv, Shape, Resolved, None
<1>2. ASSUME NEW r \in Requests PROVE Admitted(r) /\ SessionOwn(r) /\ Trail(r)
    <2>1. /\ pc[r] = "new" /\ code[r] = None /\ session[r] = <<>> /\ ~mirrored[r]
          /\ events[r] = <<>> /\ owed[r] = <<>>
        BY DEF Init
    <2>2. Admitted(r)
        BY <2>1, ZenonT(30) DEF Admitted, Past
    <2>3. SessionOwn(r)
        BY <2>1 DEF SessionOwn
    <2>4. Trail(r)
        BY <2>1 DEF Trail
    <2> QED BY <2>2, <2>3, <2>4
<1> QED BY <1>1, <1>2 DEF RecordInv

\* Whatever its headers, token and body, and whatever the other requests do, a request
\* executes only past every guard the box was started with: the bearer token, an isolated
\* edge, an admitted kind of principal, neither suspended nor anonymous, and the
\* entitlement of each gated capability (check_exposure, run_execute).
THEOREM TenancyEntitled == Spec => []ExecutedIsEntitled
<1>1. RecordInv => ExecutedIsEntitled
    <2> SUFFICES ASSUME RecordInv, NEW r \in Requests, Executes(r)
                 PROVE  /\ box.exposed =>
                              box.allow_unauthenticated \/ input[r].bearer = box.access_token
                        /\ box.trusted =>
                             /\ box.exposed => box.assert_network_isolation
                             /\ ~gate[r].identity.suspended /\ ~gate[r].identity.anonymous
                             /\ box.allowed_principal_kinds # {} =>
                                   gate[r].identity.kind \in box.allowed_principal_kinds
                             /\ \A name \in RequestedCapabilities(input[r].body) :
                                   name \in DOMAIN box.entitlements =>
                                       box.entitlements[name] \in gate[r].identity.grants
        BY DEF ExecutedIsEntitled
    <2>1. ContractInv /\ Admitted(r) /\ CheckExposure(box)
        BY DEF RecordInv
    <2>2. /\ Past(r) /\ pc[r] \notin {"new", "identity"} /\ code[r] = None
          /\ code[r] # "UNAUTHORIZED"
        BY <2>1, Zenon DEF Executes, Past, Admitted, None
    <2>3. /\ gate[r].code = None /\ Authorized(box, input[r].bearer)
          /\ Authorize(box, RequestedCapabilities(input[r].body), gate[r].identity)
        BY <2>1, <2>2, Zenon DEF Admitted
    <2>4. box.exposed => box.allow_unauthenticated \/ input[r].bearer = box.access_token
        BY <2>1, <2>3, Zenon DEF CheckExposure, Authorized
    <2>5. box.trusted /\ box.exposed => box.assert_network_isolation
        BY <2>1 DEF CheckExposure, TrustedIsolation
    <2>6. box.trusted =>
             /\ ~gate[r].identity.suspended /\ ~gate[r].identity.anonymous
             /\ box.allowed_principal_kinds # {} =>
                   gate[r].identity.kind \in box.allowed_principal_kinds
        BY <2>1, <2>2, <2>3, AnswerOf, Zenon DEF PrincipalKindAdmitted
    <2>7. box.trusted =>
             \A name \in RequestedCapabilities(input[r].body) :
                name \in DOMAIN box.entitlements =>
                    box.entitlements[name] \in gate[r].identity.grants
        BY <2>3, Zenon DEF Authorize
    <2> QED BY <2>4, <2>5, <2>6, <2>7
<1> QED BY <1>1, RecordInit, RecordStep, PTL DEF Spec

\* What a request used and what it left in the record are those of one tenant and one
\* decision, of which a client that leaves cuts off the end; for any mix of requests (resolve_partition, wire_init, emit_denied,
\* emit_executed).
THEOREM TenancyRecord == Spec => []RecordedForTenant
<1>1. RecordInv => TenantThroughout
    <2> SUFFICES ASSUME RecordInv, box.trusted, NEW r \in Requests
                 PROVE  /\ Executes(r) => /\ gate[r].identity.tenant # None
                                         /\ partition[r] = gate[r].identity.tenant
                        /\ \A i \in DOMAIN session[r] :
                              /\ session[r][i].tenant = partition[r]
                              /\ session[r][i].actor = gate[r].identity.user
                        /\ \A i \in DOMAIN events[r] :
                              /\ events[r][i].tenant = Booked(r).tenant
                              /\ events[r][i].user = Booked(r).user
                              /\ ~Verified(r) /\ box.contract => Booked(r) = Nobody
        BY Zenon DEF TenantThroughout, Booked
    <2>1. ContractInv /\ Admitted(r) /\ SessionOwn(r) /\ Trail(r)
        BY DEF RecordInv
    <2>2. ASSUME Executes(r)
          PROVE  gate[r].identity.tenant # None /\ partition[r] = gate[r].identity.tenant
        <3>1. /\ Past(r) /\ pc[r] \notin {"new", "identity"} /\ code[r] # "UNAUTHORIZED"
            BY <2>1, <2>2 DEF Executes, Past, Admitted, None
        <3>2. gate[r].code = None /\ partition[r] = gate[r].identity.tenant
            BY <2>1, <3>1, Zenon DEF Admitted
        <3> QED BY <2>1, <3>1, <3>2, AnswerOf, Zenon
    <2>3. \A i \in DOMAIN session[r] :
             session[r][i].tenant = partition[r] /\ session[r][i].actor = gate[r].identity.user
        BY <2>1, Zenon DEF SessionOwn
    <2>4. ASSUME NEW i \in DOMAIN events[r]
          PROVE  /\ events[r][i].tenant = Booked(r).tenant
                 /\ events[r][i].user = Booked(r).user
                 /\ ~Verified(r) /\ box.contract => Booked(r) = Nobody
        <3>1. events[r] # <<>>
            BY <2>4, SMTT(30)
        <3>2. pc[r] \in {"emit", "done"} /\ box.events /\ code[r] # "UNAUTHORIZED"
            BY <2>1, <3>1, Zenon DEF Trail
        <3>3. \/ DenialOf(events[r], owed[r], Booked(r))
              \/ RunOf(events[r], owed[r], Booked(r), Edge(r))
            BY <2>1, <3>2, Zenon DEF Trail
        <3>4. \E kind, reason : events[r][i] = Event(kind, reason, Booked(r))
            <4>1. CASE DenialOf(events[r], owed[r], Booked(r))
                <5>1. PICK reason : events[r] = <<Event("denied", reason, Booked(r))>>
                    BY <3>1, <4>1, Zenon DEF DenialOf
                <5>2. events[r][i] = Event("denied", reason, Booked(r))
                    BY <2>4, <5>1
                <5> QED BY <5>2, Zenon
            <4>2. CASE RunOf(events[r], owed[r], Booked(r), Edge(r))
                <5> DEFINE log == Event("log", None, Booked(r))
                           usage == Event("usage", None, Booked(r))
                           allowed == Event("allowed", None, Booked(r))
                <5>1. \/ events[r] = <<usage>> \/ events[r] = <<usage, allowed>>
                      \/ events[r] = <<log>> \/ events[r] = <<log, usage>>
                      \/ events[r] = <<log, usage, allowed>>
                    BY <3>1, <4>2, Zenon DEF RunOf
                <5> HIDE DEF log, usage, allowed
                <5>2. events[r][i] \in {log, usage, allowed}
                    BY <2>4, <5>1
                <5> QED BY <5>2, Zenon DEF log, usage, allowed
            <4> QED BY <3>3, <4>1, <4>2, Zenon
        <3>8. events[r][i].tenant = Booked(r).tenant /\ events[r][i].user = Booked(r).user
            BY <3>4 DEF Event
        <3>5. pc[r] \notin {"new", "identity"}
            BY <3>2
        <3>6. ~Verified(r) /\ box.contract =>
                 input[r].token.is = "missing" \/ gate[r].code \in ContractCodes
            BY <3>2, <3>5 DEF Verified
        <3>7. ~Verified(r) /\ box.contract => gate[r].code # None /\ gate[r].who = Nobody
            BY <2>1, <3>2, <3>5, <3>6, AnswerOf, Zenon
        <3> QED BY <3>8, <3>7 DEF Booked
    <2> QED BY <2>2, <2>3, <2>4
<1>2. RecordInv => RecordsMatch
    <2> SUFFICES ASSUME RecordInv, NEW r \in Requests
                 PROVE  LET kinds == [i \in DOMAIN events[r] |-> events[r][i].kind]
                        IN /\ pc[r] \notin {"emit", "done"} => kinds = <<>>
                           /\ pc[r] \in {"emit", "done"} =>
                                 \E whole \in Decision(r) :
                                    /\ Len(kinds) <= Len(whole)
                                    /\ \A i \in DOMAIN kinds : kinds[i] = whole[i]
                                    /\ pc[r] = "done" => kinds = whole
                           /\ mirrored[r] => box.trusted /\ HeaderFlag(input[r].headers.capture)
        BY Zenon DEF RecordsMatch
    <2> DEFINE kinds == [i \in DOMAIN events[r] |-> events[r][i].kind]
               Begins(whole) ==
                   /\ Len(kinds) <= Len(whole)
                   /\ \A i \in DOMAIN kinds : kinds[i] = whole[i]
                   /\ pc[r] = "done" => kinds = whole
    <2>1. Trail(r)
        BY DEF RecordInv
    <2>2. events[r] = <<>> => kinds = <<>>
        OBVIOUS
    <2>3. ASSUME pc[r] \in {"emit", "done"} PROVE \E whole \in Decision(r) : Begins(whole)
        <3>1. CASE code[r] = "UNAUTHORIZED" \/ ~box.events
            <4>1. <<>> \in Decision(r)
                BY <3>1 DEF Decision
            <4>2. events[r] = <<>>
                BY <2>1, <3>1, Zenon DEF Trail
            <4>3. Begins(<<>>)
                BY <2>2, <4>2
            <4> QED BY <4>1, <4>3, Zenon
        <3>2. CASE box.events /\ code[r] \notin {None, "UNAUTHORIZED"}
            <4>1. <<"denied">> \in Decision(r)
                BY <3>2 DEF Decision
            <4>2. DenialOf(events[r], owed[r], Booked(r)) /\ (pc[r] = "done" => owed[r] = <<>>)
                BY <2>1, <2>3, <3>2, Zenon DEF Trail
            <4>3. PICK reason :
                     \/ events[r] = <<>> /\ owed[r] = <<Event("denied", reason, Booked(r))>>
                     \/ events[r] = <<Event("denied", reason, Booked(r))>>
                BY <4>2, Zenon DEF DenialOf
            <4>4. CASE events[r] = <<>> /\ owed[r] = <<Event("denied", reason, Booked(r))>>
                <5>1. pc[r] # "done"
                    BY <4>2, <4>4
                <5>2. Begins(<<"denied">>)
                    BY <2>2, <4>4, <5>1
                <5> QED BY <4>1, <5>2, Zenon
            <4>5. CASE events[r] = <<Event("denied", reason, Booked(r))>>
                <5>1. kinds = <<"denied">>
                    BY <4>5 DEF Event
                <5> HIDE DEF kinds
                <5>2. Begins(<<"denied">>)
                    BY <5>1
                <5> QED BY <4>1, <5>2, Zenon
            <4> QED BY <4>3, <4>4, <4>5
        <3>3. CASE box.events /\ code[r] = None
            <4>1. /\ <<"usage", "allowed">> \in Decision(r)
                  /\ ~Edge(r) => <<"log", "usage", "allowed">> \in Decision(r)
                BY <3>3 DEF Decision, Edge, None
            <4>2. /\ RunOf(events[r], owed[r], Booked(r), Edge(r))
                  /\ pc[r] = "done" => owed[r] = <<>>
                BY <2>1, <2>3, <3>3, Zenon DEF Trail
            <4> DEFINE log == Event("log", None, Booked(r))
                       usage == Event("usage", None, Booked(r))
                       allowed == Event("allowed", None, Booked(r))
            <4>3. \/ events[r] = <<>> /\ owed[r] = <<usage, allowed>>
                  \/ events[r] = <<usage>> /\ owed[r] = <<allowed>>
                  \/ events[r] = <<usage, allowed>>
                  \/ ~Edge(r) /\ \/ events[r] = <<log>> /\ owed[r] = <<usage, allowed>>
                                 \/ events[r] = <<log, usage>> /\ owed[r] = <<allowed>>
                                 \/ events[r] = <<log, usage, allowed>>
                BY <4>2, Zenon DEF RunOf
            <4>4. log.kind = "log" /\ usage.kind = "usage" /\ allowed.kind = "allowed"
                BY DEF Event
            <4> HIDE DEF log, usage, allowed
            <4>5. \/ kinds = <<>> /\ pc[r] # "done"
                  \/ kinds = <<"usage">> /\ pc[r] # "done"
                  \/ kinds = <<"usage", "allowed">>
                  \/ ~Edge(r) /\ \/ kinds = <<"log">> /\ pc[r] # "done"
                                 \/ kinds = <<"log", "usage">> /\ pc[r] # "done"
                                 \/ kinds = <<"log", "usage", "allowed">>
                <5>1. owed[r] = <<allowed>> \/ owed[r] = <<usage, allowed>> => pc[r] # "done"
                    <6>1. <<allowed>> # <<>> /\ <<usage, allowed>> # <<>>
                        OBVIOUS
                    <6> QED BY <4>2, <6>1, Zenon
                <5>2. /\ events[r] = <<usage>> => kinds = <<"usage">>
                      /\ events[r] = <<usage, allowed>> => kinds = <<"usage", "allowed">>
                    BY <4>4
                <5>3. /\ events[r] = <<log>> => kinds = <<"log">>
                      /\ events[r] = <<log, usage>> => kinds = <<"log", "usage">>
                    BY <4>4
                <5>4. events[r] = <<log, usage, allowed>> => kinds = <<"log", "usage", "allowed">>
                    BY <4>4
                <5> HIDE DEF kinds
                <5> QED BY <2>2, <4>3, <5>1, <5>2, <5>3, <5>4, Zenon
            <4> HIDE DEF kinds
            <4>6. CASE \/ kinds = <<>> /\ pc[r] # "done"
                       \/ kinds = <<"usage">> /\ pc[r] # "done"
                       \/ kinds = <<"usage", "allowed">>
                <5>1. kinds = <<>> /\ pc[r] # "done" => Begins(<<"usage", "allowed">>)
                    OBVIOUS
                <5>2. kinds = <<"usage">> /\ pc[r] # "done" => Begins(<<"usage", "allowed">>)
                    OBVIOUS
                <5>3. kinds = <<"usage", "allowed">> => Begins(<<"usage", "allowed">>)
                    OBVIOUS
                <5> QED BY <4>1, <4>6, <5>1, <5>2, <5>3, Zenon
            <4>7. CASE ~Edge(r) /\ \/ kinds = <<"log">> /\ pc[r] # "done"
                                   \/ kinds = <<"log", "usage">> /\ pc[r] # "done"
                                   \/ kinds = <<"log", "usage", "allowed">>
                <5>1. kinds = <<"log">> /\ pc[r] # "done" => Begins(<<"log", "usage", "allowed">>)
                    OBVIOUS
                <5>2. kinds = <<"log", "usage">> /\ pc[r] # "done"
                         => Begins(<<"log", "usage", "allowed">>)
                    OBVIOUS
                <5>3. kinds = <<"log", "usage", "allowed">> => Begins(<<"log", "usage", "allowed">>)
                    OBVIOUS
                <5> QED BY <4>1, <4>7, <5>1, <5>2, <5>3, Zenon
            <4> QED BY <4>5, <4>6, <4>7, Zenon
        <3> QED BY <3>1, <3>2, <3>3, Zenon
    <2> HIDE DEF kinds
    <2>4. pc[r] \notin {"emit", "done"} => kinds = <<>>
        BY <2>1, <2>2, Zenon DEF Trail
    <2>5. mirrored[r] => box.trusted /\ HeaderFlag(input[r].headers.capture)
        BY <2>1 DEF Trail
    <2> QED BY <2>3, <2>4, <2>5, Zenon DEF kinds
<1> QED BY <1>1, <1>2, RecordInit, RecordStep, PTL DEF Spec, RecordedForTenant

-----------------------------------------------------------------------------
(* The QUIC client                                                         *)

\* While a session is opened, what has died since it began.
Opened(s) ==
    /\ deathsAt[s] <= deaths
    /\ conn[s] # NoConn => state[conn[s]] # "unused"
    /\ at[s] \in {"open1", "open2"} => conn[s] # NoConn
    /\ at[s] = "open1" /\ state[conn[s]] = "closed" => deathsAt[s] + 1 <= deaths
    /\ at[s] \in {"lock_inval", "inval", "lock2", "live2", "dial2", "open2", "failed_open"} =>
          deathsAt[s] + 1 <= deaths
    /\ at[s] = "open2" /\ state[conn[s]] = "closed" => deathsAt[s] + 2 <= deaths
    /\ at[s] = "failed_open" => deathsAt[s] + 2 <= deaths

\* Before any has died, a connection that was dialled is the one cached, and the session
\* that dials found none.
FirstLife ==
    deaths = 0 =>
        /\ \A c \in Conns : state[c] # "unused" => c = cached /\ state[c] = "open"
        /\ \A s \in Sessions : at[s] = "dial1" => cached = NoConn

QuicInv ==
    /\ QuicTypeOK /\ FirstLife
    /\ cached # NoConn => state[cached] # "unused"
    /\ \A s \in Sessions : Opened(s)

\* The types and the mutex.
LEMMA QuicTypeStep == QuicTypeOK /\ [QuicNext]_quicVars => QuicTypeOK'
<1> SUFFICES ASSUME QuicTypeOK, [QuicNext]_quicVars PROVE QuicTypeOK'
    OBVIOUS
<1> USE QuicAssumption DEF QuicTypeOK, QuicSteps, StepTo
<1>1. ASSUME NEW s \in Sessions, Begin(s) PROVE QuicTypeOK'
    BY <1>1 DEF Begin
<1>2. ASSUME NEW s \in Sessions, Lock(s) PROVE QuicTypeOK'
    BY <1>2 DEF Lock, Locks
<1>3. ASSUME NEW s \in Sessions, ReuseConnection(s) PROVE QuicTypeOK'
    BY <1>3 DEF ReuseConnection, OpenStep
<1>4. ASSUME NEW s \in Sessions, NeedsConnection(s) PROVE QuicTypeOK'
    BY <1>4 DEF NeedsConnection
<1>5. ASSUME NEW s \in Sessions, Connect(s) PROVE QuicTypeOK'
    BY <1>5 DEF Connect, OpenStep
<1>6. ASSUME NEW s \in Sessions, ConnectFails(s) PROVE QuicTypeOK'
    BY <1>6 DEF ConnectFails
<1>7. ASSUME NEW s \in Sessions, OpenStream(s) PROVE QuicTypeOK'
    BY <1>7 DEF OpenStream
<1>8. ASSUME NEW s \in Sessions, OpenFails(s) PROVE QuicTypeOK'
    BY <1>8 DEF OpenFails
<1>9. ASSUME NEW s \in Sessions, Invalidate(s) PROVE QuicTypeOK'
    BY <1>9 DEF Invalidate
<1>10. ASSUME NEW s \in Sessions, Finish(s) PROVE QuicTypeOK'
    BY <1>10 DEF Finish
<1>11. ASSUME NEW s \in Sessions, Drop(s) PROVE QuicTypeOK'
    BY <1>11 DEF Drop
<1>12. ASSUME NEW c \in Conns, Dies(c) \/ Unreferenced(c) PROVE QuicTypeOK'
    BY <1>12 DEF Dies, Unreferenced
<1>13. CASE UNCHANGED quicVars
    BY <1>13 DEF quicVars
<1> QED BY <1>1, <1>2, <1>3, <1>4, <1>5, <1>6, <1>7, <1>8, <1>9, <1>10, <1>11, <1>12, <1>13, Zenon
        DEF QuicNext, SessionStep, Scheduled

\* The steps that neither dial, nor drop what is cached, nor close a connection.
QuicRest(s) ==
    \/ Begin(s) \/ Lock(s) \/ ReuseConnection(s) \/ ConnectFails(s)
    \/ OpenStream(s) \/ OpenFails(s) \/ Finish(s) \/ Drop(s)

\* The steps at which a session has seen its first connection fail.
Retrying == {"lock_inval", "inval", "lock2", "live2", "dial2", "open2", "failed_open"}

\* A session that is not at work is as it was, whether or not another dials.
LEMMA OpenedStands ==
    ASSUME QuicTypeOK, NEW t \in Sessions, Opened(t), at'[t] = at[t], conn'[t] = conn[t],
           deathsAt'[t] = deathsAt[t], deaths' = deaths,
           \A c \in Conns : state'[c] = state[c] \/ (state[c] = "unused" /\ state'[c] = "open")
    PROVE  Opened(t)'
<1>1. conn[t] \in Conns \cup {NoConn}
    BY DEF QuicTypeOK
<1> QED BY <1>1, Zenon DEF Opened

\* A session that is at work and does not open a stream.
LEMMA OpenedMoves ==
    ASSUME NEW t \in Sessions, Opened(t), state' = state, deaths' = deaths,
           deathsAt'[t] = deathsAt[t], conn'[t] \in {conn[t], NoConn},
           at'[t] \notin {"open1", "open2", "failed_open"},
           at'[t] \in Retrying => at[t] \in Retrying
    PROVE  Opened(t)'
    BY Zenon DEF Opened, Retrying

\* What a session knows of the deaths since it began.
LEMMA QuicOpenedStep ==
    QuicInv /\ [QuicNext]_quicVars => \A t \in Sessions : Opened(t)'
<1> SUFFICES ASSUME QuicInv, [QuicNext]_quicVars, NEW t \in Sessions PROVE Opened(t)'
    OBVIOUS
<1>0. QuicTypeOK /\ Opened(t) /\ (cached # NoConn => state[cached] # "unused")
    BY Zenon DEF QuicInv
<1>a. /\ deaths \in Nat /\ deathsAt[t] \in Nat /\ conn[t] \in Conns \cup {NoConn}
      /\ at[t] \in QuicSteps /\ cached \in Conns \cup {NoConn}
    BY <1>0 DEF QuicTypeOK
<1> DEFINE Works(s) == QuicRest(s) \/ NeedsConnection(s) \/ Connect(s) \/ Invalidate(s)
<1>1. ASSUME NEW s \in Sessions, s # t, Works(s) PROVE Opened(t)'
    <2>1. at'[t] = at[t] /\ conn'[t] = conn[t] /\ deathsAt'[t] = deathsAt[t] /\ deaths' = deaths
        BY <1>0, <1>1, Zenon DEF QuicRest, Begin, Lock, Locks, ReuseConnection, ConnectFails,
           OpenStream, OpenFails, Finish, Drop, NeedsConnection, Connect, Invalidate, StepTo, QuicTypeOK
    <2>2. \A c \in Conns : state'[c] = state[c] \/ (state[c] = "unused" /\ state'[c] = "open")
        BY <1>0, <1>1, Zenon DEF QuicRest, Begin, Lock, Locks, ReuseConnection, ConnectFails,
           OpenStream, OpenFails, Finish, Drop, NeedsConnection, Connect, Invalidate, QuicTypeOK
    <2> QED BY <1>0, <2>1, <2>2, OpenedStands, Zenon
<1>2. CASE Begin(t)
    <2>1. /\ at'[t] = "lock1" /\ deathsAt'[t] = deaths /\ deaths' = deaths
          /\ conn' = conn /\ state' = state
        BY <1>0, <1>2, Zenon DEF Begin, StepTo, QuicTypeOK
    <2> QED BY <1>0, <1>a, <2>1 DEF Opened
<1>3. CASE \/ Lock(t) \/ NeedsConnection(t) \/ ConnectFails(t) \/ OpenStream(t)
           \/ Finish(t) \/ Drop(t) \/ Invalidate(t)
    <2>1. /\ state' = state /\ deaths' = deaths /\ deathsAt' = deathsAt
          /\ conn'[t] \in {conn[t], NoConn}
        BY <1>0, <1>3, Zenon DEF Lock, Locks, NeedsConnection, ConnectFails, OpenStream, Finish,
           Drop, Invalidate, QuicTypeOK
    <2>2. /\ at'[t] \notin {"open1", "open2", "failed_open"}
          /\ at'[t] \in Retrying => at[t] \in Retrying
        BY <1>0, <1>3, ZenonT(30)
           DEF Lock, Locks, NeedsConnection, ConnectFails, OpenStream, Finish,
           Drop, Invalidate, StepTo, QuicTypeOK, Retrying
    <2> QED BY <1>0, <2>1, <2>2, OpenedMoves, Zenon
<1>4. CASE ReuseConnection(t) \/ Connect(t)
    <2>1. /\ deaths' = deaths /\ deathsAt' = deathsAt
          /\ \/ at'[t] = "open1"
             \/ at'[t] = "open2" /\ at[t] \in {"live2", "dial2"}
        BY <1>0, <1>4, Zenon DEF ReuseConnection, Connect, OpenStep, StepTo, QuicTypeOK
    <2>2. conn'[t] \in Conns /\ state'[conn'[t]] = "open"
        BY <1>0, <1>a, <1>4, ZenonT(30) DEF ReuseConnection, Connect, Live, QuicTypeOK
    <2>3. conn'[t] # NoConn
        BY <2>2, QuicAssumption
    <2> QED BY <1>0, <2>1, <2>2, <2>3, Zenon DEF Opened
<1>5. CASE OpenFails(t)
    <2>1. /\ conn'[t] = NoConn /\ deaths' = deaths /\ deathsAt' = deathsAt /\ state' = state
          /\ \/ at[t] = "open1" /\ at'[t] = "lock_inval"
             \/ at[t] = "open2" /\ at'[t] = "failed_open"
        BY <1>0, <1>5, Zenon DEF OpenFails, StepTo, QuicTypeOK
    <2>2. conn[t] \in Conns /\ state[conn[t]] = "closed"
        BY <1>0, <1>a, <1>5, <2>1, Zenon DEF OpenFails, Live, Opened, QuicTypeOK
    <2> QED BY <1>0, <1>a, <2>1, <2>2 DEF Opened
<1>6. ASSUME NEW c \in Conns, Dies(c) PROVE Opened(t)'
    <2>1. /\ at' = at /\ conn' = conn /\ deathsAt' = deathsAt /\ deaths' = deaths + 1
          /\ \A d \in Conns : state[d] # "unused" => state'[d] # "unused"
        BY <1>0, <1>6 DEF Dies, QuicTypeOK
    <2> QED BY <1>0, <1>a, <2>1 DEF Opened
<1>7. ASSUME NEW c \in Conns, Unreferenced(c) PROVE Opened(t)'
    <2>1. /\ at' = at /\ conn' = conn /\ deathsAt' = deathsAt /\ deaths' = deaths
          /\ conn[t] # c /\ \A d \in Conns : d # c => state'[d] = state[d]
        BY <1>0, <1>7, Zenon DEF Unreferenced, QuicTypeOK
    <2> QED BY <1>0, <1>a, <2>1, Zenon DEF Opened
<1>8. CASE UNCHANGED quicVars
    BY <1>0, <1>8, OpenedStands, Zenon DEF quicVars
<1> QED BY <1>1, <1>2, <1>3, <1>4, <1>5, <1>6, <1>7, <1>8, Zenon
        DEF QuicNext, SessionStep, Scheduled, QuicRest

\* They leave the connections as they are.
LEMMA QuicRestKeeps ==
    ASSUME QuicTypeOK, NEW s \in Sessions, QuicRest(s)
    PROVE  /\ cached' = cached /\ state' = state /\ deaths' = deaths
           /\ \A t \in Sessions : at'[t] = "dial1" => at[t] = "dial1"
<1>1. /\ cached' = cached /\ state' = state /\ deaths' = deaths
      /\ \E step \in QuicSteps \ {"dial1"} : StepTo(s, step)
    BY Zenon DEF QuicRest, QuicSteps, Begin, Lock, Locks, ReuseConnection, OpenStep, ConnectFails,
                 OpenStream, OpenFails, Finish, Drop
<1> QED BY <1>1 DEF StepTo, QuicTypeOK

\* What is cached has been dialled.  The first connection, until it dies, is the one that
\* is cached: the mutex keeps a second session from dialling, and nothing is invalidated.
LEMMA QuicFirstStep ==
    QuicInv /\ [QuicNext]_quicVars => (cached # NoConn => state[cached] # "unused")' /\ FirstLife'
<1> DEFINE Goal == (cached # NoConn => state[cached] # "unused") /\ FirstLife
<1> SUFFICES ASSUME QuicInv, [QuicNext]_quicVars PROVE Goal'
    OBVIOUS
<1>0. QuicTypeOK /\ Goal /\ \A s \in Sessions : Opened(s)
    BY Zenon DEF QuicInv
<1>1. ASSUME NEW s \in Sessions, QuicRest(s) PROVE Goal'
    BY <1>0, <1>1, QuicRestKeeps, Zenon DEF FirstLife
<1>2. ASSUME NEW s \in Sessions, NeedsConnection(s) PROVE Goal'
    <2>1. deaths = 0 => cached = NoConn
        BY <1>0, <1>2 DEF NeedsConnection, Live, FirstLife, QuicTypeOK
    <2> QED BY <1>0, <1>2, <2>1, Zenon DEF NeedsConnection, FirstLife
<1>3. ASSUME NEW s \in Sessions, Connect(s) PROVE Goal'
    <2>1. deaths = 0 => at[s] = "dial1"
        BY <1>0, <1>3 DEF Connect, Opened, QuicTypeOK
    <2>2. deaths = 0 => cached = NoConn /\ \A c \in Conns : state[c] = "unused"
        BY <1>0, <2>1, QuicAssumption, Zenon DEF FirstLife
    <2>3. ASSUME NEW t \in Sessions PROVE at'[t] # "dial1" \/ (t # s /\ at[t] = "dial1")
        BY <1>0, <1>3 DEF Connect, OpenStep, StepTo, QuicTypeOK
    <2>4. ASSUME NEW t \in Sessions, t # s, at[t] = "dial1" PROVE FALSE
        BY <1>0, <1>3, <2>4, Zenon DEF Connect, QuicTypeOK
    <2>5. PICK c \in Conns : cached' = c /\ state' = [state EXCEPT ![c] = "open"]
        BY <1>3, Zenon DEF Connect
    <2>6. state'[c] = "open" /\ \A d \in Conns : d # c => state'[d] = state[d]
        BY <1>0, <2>5 DEF QuicTypeOK
    <2>7. deaths' = deaths
        BY <1>3, Zenon DEF Connect
    <2> QED BY <2>2, <2>3, <2>4, <2>5, <2>6, <2>7, SMTT(30) DEF FirstLife
<1>4. ASSUME NEW s \in Sessions, Invalidate(s) PROVE Goal'
    <2>1. deaths # 0 /\ deaths' = deaths /\ cached' = NoConn
        BY <1>0, <1>4 DEF Invalidate, Opened, QuicTypeOK
    <2> QED BY <2>1, Zenon DEF FirstLife
<1>5. ASSUME NEW c \in Conns, Dies(c) \/ Unreferenced(c) PROVE Goal'
    <2>1. cached' = cached /\ \A d \in Conns : state[d] # "unused" => state'[d] # "unused"
        BY <1>0, <1>5 DEF Dies, Unreferenced, QuicTypeOK
    <2>2. deaths' # 0
        BY <1>0, <1>5 DEF Dies, Unreferenced, QuicTypeOK, FirstLife
    <2> QED BY <1>0, <2>1, <2>2, Zenon DEF FirstLife, QuicTypeOK
<1>6. CASE UNCHANGED quicVars
    BY <1>0, <1>6, Zenon DEF quicVars, FirstLife
<1> HIDE DEF Goal
<1> QED BY <1>1, <1>2, <1>3, <1>4, <1>5, <1>6, Zenon DEF QuicNext, SessionStep, Scheduled, QuicRest

\* QuicInv is inductive.
LEMMA QuicInductive == QuicSpec => []QuicInv
<1>1. QuicInit => QuicInv
    BY QuicAssumption
    DEF QuicInit, QuicInv, QuicTypeOK, QuicSteps, FirstLife, Opened
<1>2. QuicInv /\ [QuicNext]_quicVars => QuicInv'
    BY QuicTypeStep, QuicOpenedStep, QuicFirstStep, Zenon DEF QuicInv
<1> QED BY <1>1, <1>2, PTL DEF QuicSpec

\* For every number of sessions and of connections, the death of the shared connection
\* costs a session at most its retry, and while the first one lives no second is dialled
\* (QuicClient::open, live_connection and invalidate).
THEOREM QuicShares == QuicSpec => []ConnectionShared
<1>1. QuicInv => RetryAbsorbsOneDeath
    BY DEF QuicInv, QuicTypeOK, Opened, RetryAbsorbsOneDeath
<1>2. QuicInv => OneDialWhileAlive
    BY DEF QuicInv, FirstLife, OneDialWhileAlive
<1> QED BY <1>1, <1>2, QuicInductive, PTL DEF ConnectionShared
=============================================================================
