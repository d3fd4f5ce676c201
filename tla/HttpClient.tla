----------------------------- MODULE HttpClient -----------------------------
(***************************************************************************)
(* The http capability of a script (runlet-core/src/http.rs): one call     *)
(* from the operation limit through the URL check, the connections of the  *)
(* redirects it follows and the reading of the body to what is answered    *)
(* and recorded.  Names are looked up anew by the check and by each        *)
(* connection, and DNS may change its answer in between.                   *)
(***************************************************************************)
EXTENDS Ssrf

CONSTANTS
    Urls,            \* [scheme, host, port]; the scheme "" stands for text that is no URL
    AllowLists,      \* values of allowed_hosts: sets of [host, port], port 0 for a bare host
    OpLimit,         \* max_ops
    MAX_REDIRECTS

VARIABLES
    policy,          \* what inject_http is given: allowed, allow_private, wildcard_allowed
    request,         \* the call in progress
    conn,            \* the connection made last
    httpMetrics,     \* the collector: the status of each recorded request
    httpAnswers      \* what the script was answered (history)

httpVars == <<policy, request, conn, httpMetrics, httpAnswers>>

NoRequest == [step |-> "idle"]
NoConn == [url |-> "none"]
AnyHost == [host |-> "*", port |-> 0]

HttpInit ==
    /\ policy \in [allowed : AllowLists, allow_private : BOOLEAN, wildcard_allowed : BOOLEAN]
    /\ request = NoRequest /\ conn = NoConn
    /\ httpMetrics = <<>> /\ httpAnswers = <<>>

-----------------------------------------------------------------------------

IsSchemeAllowed(scheme) == scheme \in {"http", "https"}

\* A bare entry is good for every port.
IsHostAllowed(url) ==
    \/ policy.wildcard_allowed /\ AnyHost \in policy.allowed
    \/ \E entry \in policy.allowed : entry.host = url.host /\ entry.port \in {0, url.port}

\* A host:port entry exempts its target from the private-address block.
IsLocalBypass(url) == [host |-> url.host, port |-> url.port] \in policy.allowed

\* ... and its host, on any port, in the resolver, which is not told the port.
BypassHostSet == {entry.host : entry \in {e \in policy.allowed : e.port # 0}}

\* The checks that a URL and a redirect target share; found is what block_private_ip finds
\* for the host as host_str writes it, the brackets of an IPv6 literal included.
TargetPasses(url, found) ==
    /\ IsSchemeAllowed(url.scheme)
    /\ IsHostAllowed(url)
    /\ IsLocalBypass(url) \/ BlockPrivateIp(found, policy.allow_private)

ValidateUrl(url, found) == TargetPasses(url, found)

\* Mutant: a redirect is followed without looking at where it leads.
ValidateRedirectCountOnly(url, previous, found) == previous < MAX_REDIRECTS

\* previous counts the URLs requested so far, the one of the call included.
ValidateRedirect(url, previous, found) ==
    previous < MAX_REDIRECTS /\ TargetPasses(url, found)

\* The addresses a connection may be made to.
ConnectsTo(url, found) ==
    ResolveFiltered(url.host, found, policy.allow_private, BypassHostSet)

-----------------------------------------------------------------------------

\* Mutant: only requests that got a response are recorded.
FinishHttpAnswered(code, status) ==
    /\ httpMetrics' = IF status = 0 THEN httpMetrics ELSE Append(httpMetrics, status)
    /\ httpAnswers' = Append(httpAnswers, [code |-> code, status |-> status])
    /\ request' = NoRequest

\* Every way out of the closure after the limit records one metric and answers in band.
FinishHttp(code, status) ==
    /\ httpMetrics' = Append(httpMetrics, status)
    /\ httpAnswers' = Append(httpAnswers, [code |-> code, status |-> status])
    /\ request' = NoRequest

\* Mutant: one call too many passes the limit.
HttpLimitOffByOne == Len(httpMetrics) > OpLimit

\* check_op_limit.
HttpLimitReached == Len(httpMetrics) >= OpLimit

\* __http: the limit is looked at first, and a refusal is not recorded.
HttpRefused ==
    /\ request.step = "idle" /\ HttpLimitReached
    /\ httpAnswers' = Append(httpAnswers, [code |-> "HTTP_OP_LIMIT", status |-> 0])
    /\ UNCHANGED <<policy, request, conn, httpMetrics>>

\* __http: validate_url.
HttpCall(url) ==
    /\ request.step = "idle" /\ ~HttpLimitReached
    /\ \E found \in ResolveText(url.host) :
          \/ /\ ValidateUrl(url, found)
             /\ request' = [step |-> "send", url |-> url, previous |-> 1]
             /\ UNCHANGED <<httpMetrics, httpAnswers>>
          \/ /\ ~ValidateUrl(url, found)
             /\ FinishHttp("HTTP_SSRF_BLOCKED", 0)
    /\ UNCHANGED <<policy, conn>>

\* execute_http: the client connects to one of the addresses the resolver lets through.
HttpConnect ==
    /\ request.step = "send"
    /\ \E found \in Resolve(request.url.host) : \E addr \in ConnectsTo(request.url, found) :
          conn' = [url |-> request.url, addr |-> addr]
    /\ request' = [request EXCEPT !.step = "reply"]
    /\ UNCHANGED <<policy, httpMetrics, httpAnswers>>

\* classify: a request that cannot be built or sent, a refused or filtered connection, a timeout.
HttpFails ==
    /\ request.step \in {"send", "reply"}
    /\ \E code \in {"HTTP_TIMEOUT", "HTTP_CONNECT", "HTTP_ERROR"} : FinishHttp(code, 0)
    /\ UNCHANGED <<policy, conn>>

\* The redirect policy follows the hop or stops with the redirect as the response.
HttpRedirected(url) ==
    /\ request.step = "reply"
    /\ \E found \in ResolveText(url.host) :
          request' = IF ValidateRedirect(url, request.previous, found)
                     THEN [step |-> "send", url |-> url, previous |-> request.previous + 1]
                     ELSE [step |-> "body", status |-> 302]
    /\ UNCHANGED <<policy, conn, httpMetrics, httpAnswers>>

\* Any other response.
HttpResponds ==
    /\ request.step = "reply"
    /\ \E status \in {200, 503} : request' = [step |-> "body", status |-> status]
    /\ UNCHANGED <<policy, conn, httpMetrics, httpAnswers>>

\* execute_http: the declared and the real length are capped, a broken body is an error.
HttpBody ==
    /\ request.step = "body"
    /\ \/ FinishHttp("", request.status)
       \/ FinishHttp("HTTP_BODY_TOO_LARGE", 0)
       \/ FinishHttp("HTTP_ERROR", 0)
    /\ UNCHANGED <<policy, conn>>

HttpStep == HttpConnect \/ HttpFails \/ (\E url \in Urls : HttpRedirected(url)) \/ HttpResponds \/ HttpBody

HttpStart == HttpRefused \/ (\E url \in Urls : HttpCall(url))
=============================================================================
