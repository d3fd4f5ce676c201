------------------------------- MODULE Script -------------------------------
(***************************************************************************)
(* One execution of a script with what it finds under $std: the surface,   *)
(* and the http and s3 capabilities, which call out of the engine.  The    *)
(* script is arbitrary code and does one thing at a time; the bucket is    *)
(* shared with others.  What they do between two calls is covered by the   *)
(* buckets an execution may start with.                                    *)
(***************************************************************************)
EXTENDS HttpClient, ObjectStore, StdSurface

CONSTANTS
    Internal,   \* the addresses among those in use that are not public
    MaxTurns(_) \* bound: things a script that is offered some capabilities does

VARIABLE turns

\* A URL that can be requested has a port, given or of its scheme; a bucket name in front of an
\* endpoint's host makes a name, not an address; and the addresses called internal are those of
\* the classifier.
ASSUME ScriptAssumption ==
    /\ OpLimit \in Nat /\ MAX_REDIRECTS \in Nat \ {0}
    /\ S3Limit \in Nat /\ Lifetimes \subseteq Int
    /\ {"decimal", "money", "sys", "datetime"} \subseteq StdUnits
    /\ \A u \in Urls : IsSchemeAllowed(u.scheme) => u.port # 0
    /\ \A a \in Internal : IsPrivateIp(a)
    /\ \A c \in S3Configs :
          /\ c.path_style \/ VirtualHost[c.endpoint] \notin DOMAIN Literal
          /\ c.expires \in Nat /\ c.max_expires \in Nat /\ c.max_upload_size \in Nat

scriptVars == <<httpVars, s3Vars, surfaceVars, turns>>

\* The same server setting reaches both capabilities; http is offered with a list of hosts.
ScriptInit ==
    /\ HttpInit /\ S3Init /\ SurfaceInit /\ turns = 0
    /\ s3Config.allow_private = policy.allow_private
    /\ ("http" \in offered) = (policy.allowed # {})

\* No call of the script is in progress.
Calm == request.step = "idle" /\ scan.step = "idle"

\* A capability can be called if the engine has put it there: a script may keep a reference to
\* a member that it replaces.
Has(name) == name \in DOMAIN std

ScriptTurn ==
    /\ turns < MaxTurns(offered) /\ Runs /\ Calm
    /\ turns' = turns + 1
    /\ \/ Has("http") /\ HttpStart /\ UNCHANGED <<s3Vars, surfaceVars>>
       \/ Has("s3") /\ S3Start /\ UNCHANGED <<httpVars, surfaceVars>>
       \/ SurfaceStart /\ UNCHANGED <<httpVars, s3Vars>>

ScriptNext ==
    \/ ScriptTurn
    \/ Calm /\ SurfaceStep /\ UNCHANGED <<httpVars, s3Vars, turns>>
    \/ HttpStep /\ UNCHANGED <<s3Vars, surfaceVars, turns>>
    \/ S3Step /\ UNCHANGED <<httpVars, surfaceVars, turns>>
    \/ scan.step # "idle" /\ Others /\ UNCHANGED <<httpVars, surfaceVars, turns>>

ScriptSpec == ScriptInit /\ [][ScriptNext]_scriptVars

-----------------------------------------------------------------------------

\* No connection leaves for a host that the list does not name, and none for an internal
\* address unless the server runs in debug mode, the operator has listed the host with a
\* port, or the host is an IPv6 literal, which the check does not read: whatever redirects
\* say, and whatever DNS answers between the check and the connect.  The store is never at an
\* internal address outside debug mode, however its endpoint is written (validate_url,
\* validate_redirect, SsrfResolver, resolve_host).
ConnectsWhereAllowed ==
    /\ conn # NoConn =>
          /\ conn.url.scheme \in {"http", "https"}
          /\ \/ policy.wildcard_allowed /\ AnyHost \in policy.allowed
             \/ \E e \in policy.allowed : e.host = conn.url.host /\ e.port \in {0, conn.url.port}
          /\ conn.addr \in Internal =>
                \/ policy.allow_private
                \/ \E e \in policy.allowed : e.host = conn.url.host /\ e.port # 0
                \/ InBrackets(conn.url.host)
    /\ s3Conn # Nothing => (s3Conn.addr \in Internal => s3Config.allow_private)

\* The script gets an error for an answer.
IsError(code) == code # ""

\* Every http call that passes the limit is recorded once, in order and with the status the
\* script was answered, and the refused calls come after them all; a call that sent nothing,
\* or whose answer the script does not get, has status 0; and a call follows a bounded number
\* of redirects (inject_http, MetricCtx::finish).
HttpMetered ==
    /\ Len(httpMetrics) <= Len(httpAnswers)
    /\ \A i \in DOMAIN httpAnswers :
          IF i <= Len(httpMetrics)
          THEN /\ httpAnswers[i].code # "HTTP_OP_LIMIT" /\ httpAnswers[i].status = httpMetrics[i]
               /\ IsError(httpAnswers[i].code) => httpMetrics[i] = 0
          ELSE httpAnswers[i].code = "HTTP_OP_LIMIT"
    /\ request.step \in {"send", "reply"} => request.previous <= MAX_REDIRECTS

Refusals(answers, code) == Cardinality({i \in DOMAIN answers : answers[i].code = code})

HttpBudget == INSTANCE OpBudget WITH
    Limit <- OpLimit, used <- Len(httpMetrics), refused <- Refusals(httpAnswers, "HTTP_OP_LIMIT")

S3Budget == INSTANCE OpBudget WITH
    Limit <- S3Limit, used <- Len(s3Metrics), refused <- Refusals(s3Answers, "S3_OP_LIMIT")

\* Each capability implements the operation budget: in every order of calls, failures and
\* pages of a listing it records one operation at a time and none past the limit, and refuses
\* a call, or the next page, only when all are used (check_op_limit).
BudgetsKept == HttpBudget!BudgetSpec /\ S3Budget!BudgetSpec

\* A total that usage answers counts every object that was left alone during the listing once
\* and with its size, and nothing that was not there at some time during it; so it is exact
\* when nobody wrote.  A listing cut short by the limit, an error or an overflow answers no
\* total (do_usage).
TotalsHold ==
    usage # Nothing =>
        LET keys == {p[1] : p \in usage.ever}
            most(k) == Max({p[2] : p \in {q \in usage.ever : q[1] = k}})
        IN  /\ usage.objects \in Cardinality(DOMAIN usage.stable) .. Cardinality(keys)
            /\ usage.bytes >= MapThenSumSet(LAMBDA k : usage.stable[k], DOMAIN usage.stable)
            /\ usage.bytes <= MapThenSumSet(most, keys)
            /\ usage.bytes <= U64_MAX

\* What the store accepts of a request that carries what was signed (external).
SignatureFits(s, method, host, key) ==
    \/ /\ s.is = "url"
       /\ s.signature = <<s3Config.secret_key, method, host, key, s.expires>>
    \/ /\ s.is = "form" /\ method = "POST"
       /\ s.signature = <<s3Config.secret_key, key, s.expires, s.max_bytes>>

SizeFits(s, size) == s.is = "form" => size <= s.max_bytes

Accepts(s, method, host, key, size, age) ==
    age < s.expires /\ SignatureFits(s, method, host, key) /\ SizeFits(s, size)

\* A link or form works when it is handed out, for the object, method and host it names and
\* no other, for no longer than the operator allows; it deletes only with the operator's
\* consent, and a form takes no upload beyond the operator's size (do_presign,
\* do_presign_post).
SignedWithinPolicy ==
    signed # Nothing =>
        /\ Accepts(signed, signed.method, S3Host, signed.key, 0, 0)
        /\ \A age \in Lifetimes \cup {s3Config.expires, s3Config.max_expires} :
              age < signed.expires =>
                 \A method \in Methods \cup {"POST"}, key \in Keys :
                    SignatureFits(signed, method, S3Host, key) =>
                       /\ key = signed.key /\ method = signed.method
                       /\ age < Max({s3Config.max_expires, 1})
                       /\ method = "DELETE" => s3Config.allow_delete
                       /\ method = "POST" => \A size \in 0 .. U64_MAX :
                             SizeFits(signed, size) => size <= s3Config.max_upload_size

\* Whatever order units are read and fail in, and whatever the script replaces: a getter keeps
\* and returns the members of its own unit, built for the profile, and a deterministic run finds
\* no clock, no random source and no capability in $std, at the top level or in the handler.  To
\* a script that replaces neither $std nor the functions of Object that the engine uses, a
\* getter returns the same members every time, and its handler runs with the surface locked;
\* and once that is locked the exposed globals are the members of $std, whatever the handler
\* replaces then (std_lazy.js, inject_apis, std_freeze.js).
SurfaceSound ==
    /\ \A m \in handed \cup {cache[u] : u \in {v \in StdUnits : cache[v] # Undefined}} :
          m.ambient = IF profile = "full" THEN Ambient(m.unit) ELSE {}
    /\ \A u \in StdUnits : cache[u] # Undefined => cache[u].unit = u
    /\ profile = "deterministic" =>
          (\A h \in handed : h.ambient = {}) /\ ~\E c \in {"io", "http", "s3"} : Has(c)
    /\ replaced = {} => \A a, b \in handed : a.unit = b.unit => a = b
    /\ replaced = {} /\ stage = "handler" => locked /\ pinned
    /\ locked /\ pinned => \A g \in DOMAIN globals : globals[g] = std[g]

-----------------------------------------------------------------------------
(* Claims of comments and specifications that the code does not meet; the   *)
(* README describes the counterexamples                                     *)

\* http.rs:243, "blocks private/internal IPs", and the http specification, "The system SHALL
\* block requests that resolve to private or internal IP addresses, unless the server runs in
\* debug mode": also when the URL has an IPv6 literal.
InternalBlocked ==
    conn # NoConn /\ conn.addr \in Internal =>
        policy.allow_private \/ \E e \in policy.allowed : e.host = conn.url.host /\ e.port # 0

\* The std-namespace specification, "a handler cannot mutate, replace, or extend any `$std`
\* member, [...] nor reassign an exposed global": the handler runs with the surface locked.
HandlerFindsLock == stage = "handler" => locked /\ pinned

\* std_lazy.js:4, "its build-unit is built exactly once", and 9-10, "a handler that reassigns
\* `Object.*` at top level [...] cannot subvert a later build": a getter returns one thing.
BuiltOnce == \A a, b \in handed : a.unit = b.unit => a = b
=============================================================================
