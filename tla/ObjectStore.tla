----------------------------- MODULE ObjectStore -----------------------------
(***************************************************************************)
(* The s3 capability of a script (runlet-core/src/s3.rs): signing links    *)
(* and upload forms, which sends nothing, and the two operations that      *)
(* connect to the store, the paged listing behind usage and delete.        *)
(*                                                                         *)
(* The store is shared: others write and delete objects between the pages  *)
(* of a listing.  A signature is the tuple of what went into it.           *)
(***************************************************************************)
EXTENDS Ssrf, FiniteSets, FiniteSetsExt, Functions, TLC

CONSTANTS
    S3Configs,      \* values of S3Config, allow_private of the server included
    VirtualHost,    \* endpoint host -> the host with the bucket in front
    Keys,           \* object keys, as numbers in the order of the listing
    CallKeys,       \* the keys calls name, the empty one, 0, among them
    KeyPrefixes,    \* key prefixes, as the sets of keys they stand for
    Sizes,          \* sizes of objects
    Lifetimes,      \* values of expires in a call; negative ones are no u64
    PageSize,       \* max-keys
    U64_MAX,        \* the largest u64
    S3Limit,        \* max_ops
    MaxWrites       \* bound: what others do to the bucket during an execution

VARIABLES
    s3Config,       \* the configuration of this execution
    objects,        \* key -> size, for the objects in the bucket (external)
    writes,         \* what others did so far
    scan,           \* the usage or delete in progress
    signed,         \* what was signed last, with the call it was signed for
    s3Conn,         \* the connection made last
    s3Metrics,      \* the collector: the action of each recorded operation
    s3Answers,      \* what the script was answered (history)
    usage           \* the last total answered, with what it may be compared to (history)

s3Vars == <<s3Config, objects, writes, scan, signed, s3Conn, s3Metrics, s3Answers, usage>>

Idle == [step |-> "idle"]
Nothing == [is |-> "nothing"]
NoKey == 0

S3Init ==
    /\ s3Config \in S3Configs
    /\ \E present \in SUBSET Keys : objects \in [present -> Sizes]
    /\ writes = 0 /\ scan = Idle /\ signed = Nothing /\ s3Conn = Nothing
    /\ s3Metrics = <<>> /\ s3Answers = <<>> /\ usage = Nothing

S3Answer(action, code) ==
    s3Answers' = Append(s3Answers, [action |-> action, code |-> code])

S3Record(action) == s3Metrics' = Append(s3Metrics, action)

-----------------------------------------------------------------------------

\* The endpoint is http or https and its host is not, and resolves to nothing, internal.
ResolveHostOk(found) ==
    /\ s3Config.scheme \in {"http", "https"}
    /\ BlockPrivateIp(found, s3Config.allow_private)

\* The host that is signed and connected to.
S3Host == IF s3Config.path_style THEN s3Config.endpoint ELSE VirtualHost[s3Config.endpoint]

\* The client of usage and delete: no redirects, and no host is exempt from the filter.
S3Addresses(found) == ResolveFiltered(S3Host, found, s3Config.allow_private, {})

Methods == {"", "PUT", "GET", "HEAD", "DELETE", "PATCH"}

\* Empty defaults to PUT.
NormalizeMethod(raw) == IF raw = "" THEN "PUT" ELSE raw

\* Mutant: the cap is not applied to the configured default.
ClampExpiresDefault(requested) ==
    IF requested = 0 THEN s3Config.expires
    ELSE Max({1, Min({requested, Max({s3Config.max_expires, 1})})})

ClampExpires(requested) ==
    LET base == IF requested = 0 THEN s3Config.expires ELSE requested
    IN  Max({1, Min({base, Max({s3Config.max_expires, 1})})})

\* Canonical request, string to sign and derived key.
Sign(method, host, key, expires) == <<s3Config.secret_key, method, host, key, expires>>

\* The POST policy: what the form may upload, until when, and how much.
SignPolicy(key, expires, max_bytes) == <<s3Config.secret_key, key, expires, max_bytes>>

PresignedUrl(method, key, expires) ==
    [is |-> "url", method |-> method, host |-> S3Host, key |-> key, expires |-> expires,
     signature |-> Sign(method, S3Host, key, expires)]

PresignedForm(key, expires) ==
    [is |-> "form", method |-> "POST", host |-> S3Host, key |-> key, expires |-> expires,
     max_bytes |-> s3Config.max_upload_size,
     signature |-> SignPolicy(key, expires, s3Config.max_upload_size)]

-----------------------------------------------------------------------------

\* check_op_limit.
S3LimitReached == Len(s3Metrics) >= S3Limit

S3Refused(action) ==
    /\ scan.step = "idle" /\ S3LimitReached
    /\ S3Answer(action, "S3_OP_LIMIT")
    /\ UNCHANGED <<s3Config, objects, writes, scan, signed, s3Conn, s3Metrics, usage>>

\* dispatch: an operation that only signs is recorded, whatever comes of it.
SignOnly(action, code, result) ==
    /\ scan.step = "idle" /\ ~S3LimitReached
    /\ S3Record(action) /\ S3Answer(action, code)
    /\ signed' = IF code = "" THEN result ELSE signed
    /\ UNCHANGED <<s3Config, objects, writes, scan, s3Conn, usage>>

\* do_presign: a DELETE link needs the operator's consent.
DeletesForbidden(method) == method = "DELETE" /\ ~s3Config.allow_delete

\* do_presign.
Presign(raw, key, requested) ==
    \E found \in Resolve(s3Config.endpoint) :
        LET method == NormalizeMethod(raw)
            code == CASE requested < 0 \/ method = "PATCH" -> "S3_ERROR"
                      [] DeletesForbidden(method) -> "S3_FORBIDDEN"
                      [] key = NoKey \/ ~ResolveHostOk(found) -> "S3_ERROR"
                      [] OTHER -> ""
        IN  SignOnly("presign", code, PresignedUrl(method, key, ClampExpires(requested)))

\* do_presign_post.
PresignPost(key, requested) ==
    \E found \in Resolve(s3Config.endpoint) :
        LET code == IF requested < 0 \/ key = NoKey \/ s3Config.max_upload_size = 0
                       \/ ~ResolveHostOk(found)
                    THEN "S3_ERROR" ELSE ""
        IN  SignOnly("presign_post", code, PresignedForm(key, ClampExpires(requested)))

-----------------------------------------------------------------------------

\* The call ends with an error, which records nothing.
S3Fails(action, code) ==
    /\ S3Answer(action, code) /\ scan' = Idle
    /\ UNCHANGED <<s3Config, objects, writes, signed, s3Conn, s3Metrics, usage>>

\* do_usage, up to the loop.
UsageStart(prefix) ==
    /\ scan.step = "idle" /\ ~S3LimitReached
    /\ \E found \in Resolve(s3Config.endpoint) :
          \/ ~ResolveHostOk(found) /\ S3Fails("usage", "S3_ERROR")
          \/ /\ ResolveHostOk(found)
             /\ scan' = [step |-> "limit", prefix |-> prefix, token |-> NoKey,
                         bytes |-> 0, objects |-> 0,
                         stable |-> Restrict(objects, DOMAIN objects \cap prefix),
                         ever |-> {<<k, objects[k]>> : k \in DOMAIN objects \cap prefix}]
             /\ UNCHANGED <<s3Config, objects, writes, signed, s3Conn, s3Metrics, s3Answers, usage>>

\* The head of the loop: the limit again, before each page.
UsageLimit ==
    /\ scan.step = "limit" /\ S3LimitReached
    /\ S3Fails("usage", "S3_OP_LIMIT")

\* The page of the listing after a token: the next keys in order (external).
Listed(token) ==
    LET left == {k \in DOMAIN objects \cap scan.prefix : k > token}
    IN  {k \in left : Cardinality({j \in left : j < k}) < PageSize}

\* fetch_list_page: NextContinuationToken, if there are more.
NextToken(page) ==
    IF \E k \in DOMAIN objects \cap scan.prefix : \A j \in page : k > j
    THEN Max(page \cup {NoKey}) ELSE NoKey

\* sum_sizes; a page whose sum is no u64 is an error.
SumSizes(page) == MapThenSumSet(LAMBDA k : objects[k], page)

\* Mutant: the total of an earlier page is lost.
AddPageLast(total, page) == page

\* checked_add, but for the overflow.
AddPage(total, page) == total + page

\* One turn of the loop: the page is fetched, recorded and added.
UsagePage ==
    /\ scan.step = "limit" /\ ~S3LimitReached
    /\ \E found \in Resolve(S3Host) : \E addr \in S3Addresses(found) :
          s3Conn' = [is |-> "conn", addr |-> addr]
    /\ LET page == Listed(scan.token)
           bytes == AddPage(scan.bytes, SumSizes(page))
           counted == [scan EXCEPT !.bytes = bytes, !.objects = AddPage(@, Cardinality(page)),
                                   !.token = NextToken(page)]
       IN  \/ /\ SumSizes(page) > U64_MAX
              /\ S3Answer("usage", "S3_UPSTREAM") /\ scan' = Idle
              /\ UNCHANGED <<s3Metrics, usage>>
           \/ /\ SumSizes(page) <= U64_MAX /\ bytes > U64_MAX
              /\ S3Record("usage") /\ S3Answer("usage", "S3_ERROR") /\ scan' = Idle
              /\ UNCHANGED usage
           \/ /\ bytes <= U64_MAX /\ NextToken(page) # NoKey
              /\ S3Record("usage") /\ scan' = counted
              /\ UNCHANGED <<s3Answers, usage>>
           \/ /\ bytes <= U64_MAX /\ NextToken(page) = NoKey
              /\ S3Record("usage") /\ S3Answer("usage", "") /\ scan' = Idle
              /\ usage' = [is |-> "total", bytes |-> bytes, objects |-> counted.objects,
                           stable |-> scan.stable, ever |-> scan.ever]
    /\ UNCHANGED <<s3Config, objects, writes, signed>>

\* The store cannot be reached, or the filter leaves no address, or its answer is an error or
\* makes no sense.
UsageFails ==
    /\ scan.step = "limit" /\ ~S3LimitReached
    /\ S3Fails("usage", "S3_UPSTREAM")

-----------------------------------------------------------------------------

\* do_delete, up to the request.
DeleteStart(key) ==
    /\ scan.step = "idle" /\ ~S3LimitReached
    /\ \E found \in Resolve(s3Config.endpoint) :
          \/ DeletesForbidden("DELETE") /\ S3Fails("delete", "S3_FORBIDDEN")
          \/ /\ ~DeletesForbidden("DELETE") /\ (key = NoKey \/ ~ResolveHostOk(found))
             /\ S3Fails("delete", "S3_ERROR")
          \/ /\ ~DeletesForbidden("DELETE") /\ key # NoKey /\ ResolveHostOk(found)
             /\ scan' = [step |-> "delete", key |-> key]
             /\ UNCHANGED <<s3Config, objects, writes, signed, s3Conn, s3Metrics, s3Answers, usage>>

\* The store carries the request out or refuses it; the answer tells which.
DeleteSent ==
    /\ scan.step = "delete"
    /\ \E found \in Resolve(S3Host) : \E addr \in S3Addresses(found) :
          s3Conn' = [is |-> "conn", addr |-> addr]
    /\ S3Record("delete") /\ scan' = Idle
    /\ \/ objects' = Restrict(objects, DOMAIN objects \ {scan.key}) /\ S3Answer("delete", "")
       \/ objects' = objects /\ S3Answer("delete", "S3_UPSTREAM")
    /\ UNCHANGED <<s3Config, writes, signed, usage>>

\* No connection, or none in time: the store may have deleted the object all the same.
DeleteFails ==
    /\ scan.step = "delete"
    /\ objects' \in {objects, Restrict(objects, DOMAIN objects \ {scan.key})}
    /\ S3Answer("delete", "S3_UPSTREAM") /\ scan' = Idle
    /\ UNCHANGED <<s3Config, writes, signed, s3Conn, s3Metrics, usage>>

\* Others use the bucket; a key they touch during a listing is no longer a stable one.
OthersWrite(key) ==
    /\ writes < MaxWrites /\ writes' = writes + 1
    /\ \/ \E size \in Sizes : objects' = (key :> size) @@ objects
       \/ key \in DOMAIN objects /\ objects' = Restrict(objects, DOMAIN objects \ {key})
    /\ scan' = IF scan.step # "limit" \/ key \notin scan.prefix THEN scan
               ELSE [scan EXCEPT !.stable = Restrict(@, DOMAIN @ \ {key}),
                                 !.ever = @ \cup {<<k, objects'[k]>> : k \in DOMAIN objects' \cap {key}}]
    /\ UNCHANGED <<s3Config, signed, s3Conn, s3Metrics, s3Answers, usage>>

S3Start ==
    \/ \E action \in {"presign", "presign_post", "usage", "delete"} : S3Refused(action)
    \/ \E raw \in Methods, key \in CallKeys, n \in Lifetimes : Presign(raw, key, n)
    \/ \E key \in CallKeys, n \in Lifetimes : PresignPost(key, n)
    \/ \E prefix \in KeyPrefixes : UsageStart(prefix)
    \/ \E key \in CallKeys : DeleteStart(key)

S3Step ==
    \/ UsageLimit \/ UsagePage \/ UsageFails \/ DeleteSent \/ DeleteFails

Others == \E key \in Keys : OthersWrite(key)
=============================================================================
