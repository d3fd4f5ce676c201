---------------------------- MODULE ScriptProofs ----------------------------
(***************************************************************************)
(* What a script can do with $std and the capabilities in it, for every    *)
(* list of hosts, DNS, bucket, limit and order of calls: each capability   *)
(* implements the operation budget, connections go where the operator      *)
(* allows, signatures stay within the policy, and the surface is sound.    *)
(***************************************************************************)
EXTENDS Script, FiniteSetTheorems, TLAPS

\* A step of an execution is, for each part, a step of that part or leaves it alone.
LEMMA ScriptParts ==
    ASSUME [ScriptNext]_scriptVars
    PROVE  /\ HttpStart \/ HttpStep \/ UNCHANGED httpVars
           /\ S3Start \/ S3Step \/ Others \/ UNCHANGED s3Vars
           /\ SurfaceStart \/ SurfaceStep \/ UNCHANGED surfaceVars
  BY Zenon DEF ScriptNext, ScriptTurn, scriptVars

-----------------------------------------------------------------------------
(* The operation budgets                                                   *)

\* Limits and lifetimes are numbers.
LEMMA Limits == OpLimit \in Nat /\ S3Limit \in Nat /\ Lifetimes \subseteq Int
  BY ScriptAssumption

HttpCodes ==
    {"", "HTTP_OP_LIMIT", "HTTP_SSRF_BLOCKED", "HTTP_TIMEOUT", "HTTP_CONNECT", "HTTP_ERROR",
     "HTTP_BODY_TOO_LARGE"}
Answers == [code : HttpCodes, status : Nat]

\* The shape of a call in progress, and that it was let in below the limit.
HttpInv ==
    /\ httpMetrics \in Seq(Nat) /\ Len(httpMetrics) <= OpLimit
    /\ httpAnswers \in Seq(Answers)
    /\ request \in {NoRequest} \cup [step : {"send", "reply"}, url : Urls, previous : Nat]
                              \cup [step : {"body"}, status : Nat]
    /\ request.step # "idle" => Len(httpMetrics) < OpLimit

\* What is appended comes last, and the rest keeps its place.
LEMMA Appended ==
    ASSUME NEW S, NEW s \in Seq(S), NEW e \in S
    PROVE  /\ Append(s, e) \in Seq(S) /\ Len(Append(s, e)) = Len(s) + 1
           /\ \A i \in 1 .. Len(s) : Append(s, e)[i] = s[i]
           /\ Append(s, e)[Len(s) + 1] = e
  OBVIOUS

\* Sequences with the same elements are the same.
LEMMA SameElements ==
    ASSUME NEW S, NEW s \in Seq(S), NEW t \in Seq(S), Len(s) = Len(t),
           \A i \in 1 .. Len(s) : s[i] = t[i]
    PROVE  s = t
  OBVIOUS

\* One more answer is one more refusal if it has the code of one.
LEMMA RefusalsAppend ==
    ASSUME NEW S, NEW s \in Seq(S), NEW e \in S, NEW c
    PROVE  /\ Refusals(s, c) \in Nat
           /\ Refusals(Append(s, e), c) = IF e.code = c THEN Refusals(s, c) + 1 ELSE Refusals(s, c)
<1> DEFINE R(t) == {i \in DOMAIN t : t[i].code = c}
<1>1. DOMAIN s = 1 .. Len(s) /\ Len(s) \in Nat
  OBVIOUS
<1>2. /\ DOMAIN Append(s, e) = 1 .. Len(s) + 1
      /\ \A i \in 1 .. Len(s) : Append(s, e)[i] = s[i]
      /\ Append(s, e)[Len(s) + 1] = e
  BY Appended
<1>3. IsFiniteSet(R(s)) /\ Cardinality(R(s)) \in Nat
  <2>1. IsFiniteSet(1 .. Len(s))
    BY <1>1, FS_Interval
  <2>2. R(s) \subseteq 1 .. Len(s)
    BY <1>1
  <2> QED BY <2>1, <2>2, FS_Subset, FS_CardinalityType
<1>4. CASE e.code = c
  <2>1. R(Append(s, e)) = R(s) \cup {Len(s) + 1}
    BY <1>1, <1>2, <1>4
  <2>2. Len(s) + 1 \notin R(s)
    BY <1>1
  <2> QED BY <2>1, <2>2, <1>3, <1>4, FS_AddElement, Zenon DEF Refusals
<1>5. CASE e.code # c
  <2>1. R(Append(s, e)) = R(s)
    BY <1>1, <1>2, <1>5
  <2> QED BY <2>1, <1>3, <1>5, Zenon DEF Refusals
<1> QED BY <1>4, <1>5

\* FinishHttp records one operation and refuses none.
LEMMA FinishUses ==
    ASSUME HttpInv, request.step # "idle" \/ ~HttpLimitReached,
           NEW code \in HttpCodes, NEW status \in Nat, code # "HTTP_OP_LIMIT",
           FinishHttp(code, status)
    PROVE  HttpInv' /\ HttpBudget!Use
<1> USE Limits
<1>1. Len(httpMetrics) \in Nat /\ Len(httpMetrics) < OpLimit
  BY DEF HttpInv, HttpLimitReached
<1>2. httpMetrics' \in Seq(Nat) /\ Len(httpMetrics') = Len(httpMetrics) + 1
  BY Appended DEF HttpInv, FinishHttp
<1>3. [code |-> code, status |-> status] \in Answers
  BY Zenon DEF Answers, HttpCodes
<1>4. httpAnswers' \in Seq(Answers)
  BY <1>3, Appended DEF HttpInv, FinishHttp
<1>5. Refusals(httpAnswers', "HTTP_OP_LIMIT") = Refusals(httpAnswers, "HTTP_OP_LIMIT")
  BY <1>3, RefusalsAppend DEF HttpInv, FinishHttp
<1>6. request' = NoRequest /\ request'.step = "idle"
  BY DEF FinishHttp, NoRequest
<1> QED BY <1>1, <1>2, <1>4, <1>5, <1>6 DEF HttpInv, HttpBudget!Use

HttpRefusals == Refusals(httpAnswers, "HTTP_OP_LIMIT")
S3Refusals == Refusals(s3Answers, "S3_OP_LIMIT")

\* Every step of the http capability keeps the shape and is a step of the budget, or leaves the
\* budget alone.
LEMMA HttpImplementsStep ==
    ASSUME HttpInv, HttpStart \/ HttpStep \/ UNCHANGED httpVars
    PROVE  /\ HttpInv'
           /\ [HttpBudget!Use \/ HttpBudget!Refuse]_<<Len(httpMetrics), HttpRefusals>>
<1> USE Limits
<1>1. CASE HttpRefused
  <2>1. [code |-> "HTTP_OP_LIMIT", status |-> 0] \in Answers
    BY DEF Answers, HttpCodes
  <2>2. httpAnswers' \in Seq(Answers) /\ HttpRefusals' = HttpRefusals + 1
    BY <1>1, <2>1, RefusalsAppend, Appended DEF HttpInv, HttpRefused, HttpRefusals
  <2>3. Len(httpMetrics) = OpLimit
    BY <1>1 DEF HttpInv, HttpRefused, HttpLimitReached
  <2> QED BY <1>1, <2>2, <2>3 DEF HttpInv, HttpRefused, HttpBudget!Refuse, HttpRefusals
<1>2. ASSUME NEW url \in Urls, HttpCall(url) PROVE HttpInv' /\ (HttpBudget!Use \/ UNCHANGED <<httpMetrics, httpAnswers>>)
  <2>1. CASE FinishHttp("HTTP_SSRF_BLOCKED", 0)
    <3>1. ~HttpLimitReached /\ 0 \in Nat /\ "HTTP_SSRF_BLOCKED" \in HttpCodes
      BY <1>2 DEF HttpCall, HttpCodes
    <3> QED BY <2>1, <3>1, FinishUses
  <2>2. CASE /\ request' = [step |-> "send", url |-> url, previous |-> 1]
             /\ UNCHANGED <<httpMetrics, httpAnswers>>
    BY <1>2, <2>2 DEF HttpInv, HttpCall, HttpLimitReached
  <2> QED BY <1>2, <2>1, <2>2 DEF HttpCall
<1>3. CASE HttpConnect
  <2>1. request \in [step : {"send", "reply"}, url : Urls, previous : Nat]
    BY <1>3 DEF HttpInv, HttpConnect, NoRequest
  <2>2. request' \in [step : {"send", "reply"}, url : Urls, previous : Nat]
    BY <1>3, <2>1 DEF HttpConnect
  <2> QED BY <1>3, <2>1, <2>2 DEF HttpInv, HttpConnect, HttpRefusals
<1>4. CASE HttpFails
  <2>1. PICK code \in {"HTTP_TIMEOUT", "HTTP_CONNECT", "HTTP_ERROR"} : FinishHttp(code, 0)
    BY <1>4 DEF HttpFails
  <2>2. request.step # "idle" /\ code \in HttpCodes /\ code # "HTTP_OP_LIMIT" /\ 0 \in Nat
    BY <1>4, Zenon DEF HttpFails, HttpCodes
  <2>3. HttpInv' /\ HttpBudget!Use
    BY <2>1, <2>2, FinishUses
  <2> QED BY <2>3
<1>5. ASSUME NEW url \in Urls, HttpRedirected(url) PROVE HttpInv' /\ UNCHANGED <<httpMetrics, httpAnswers>>
  <2>1. request \in [step : {"send", "reply"}, url : Urls, previous : Nat]
    BY <1>5 DEF HttpInv, HttpRedirected, NoRequest
  <2>2. \/ request' = [step |-> "send", url |-> url, previous |-> request.previous + 1]
        \/ request' = [step |-> "body", status |-> 302]
    BY <1>5 DEF HttpRedirected
  <2> QED BY <1>5, <2>1, <2>2 DEF HttpInv, HttpRedirected
<1>6. CASE HttpResponds
  <2>1. PICK status \in {200, 503} : request' = [step |-> "body", status |-> status]
    BY <1>6 DEF HttpResponds
  <2> QED BY <1>6, <2>1 DEF HttpInv, HttpResponds, HttpRefusals
<1>7. CASE HttpBody
  <2>1. request \in [step : {"body"}, status : Nat]
    <3>1. request.step = "body"
      BY <1>7, Zenon DEF HttpBody
    <3>2. request \notin [step : {"send", "reply"}, url : Urls, previous : Nat]
      BY <3>1
    <3> QED BY <3>1, <3>2 DEF HttpInv, NoRequest
  <2>2. PICK code \in {"", "HTTP_BODY_TOO_LARGE", "HTTP_ERROR"}, status \in Nat : FinishHttp(code, status)
    BY <1>7, <2>1, Zenon DEF HttpBody
  <2>3. request.step # "idle" /\ code \in HttpCodes /\ code # "HTTP_OP_LIMIT"
    BY <1>7, Zenon DEF HttpBody, HttpCodes
  <2>4. HttpInv' /\ HttpBudget!Use
    BY <2>2, <2>3, FinishUses, Zenon
  <2> QED BY <2>4, Zenon
<1>8. CASE UNCHANGED httpVars
  BY <1>8 DEF httpVars, HttpInv, HttpRefusals
<1> QED
  BY <1>1, <1>2, <1>3, <1>4, <1>5, <1>6, <1>7, <1>8 DEF HttpStart, HttpStep, HttpRefusals

S3Actions == {"presign", "presign_post", "usage", "delete"}
S3Codes == {"", "S3_OP_LIMIT", "S3_ERROR", "S3_UPSTREAM", "S3_FORBIDDEN"}
S3Answered == [action : S3Actions, code : S3Codes]

\* The records, and that a deletion on its way was let in below the limit.
S3Inv ==
    /\ s3Metrics \in Seq(S3Actions) /\ Len(s3Metrics) <= S3Limit
    /\ s3Answers \in Seq(S3Answered)
    /\ "step" \in DOMAIN scan
    /\ scan.step = "delete" => Len(s3Metrics) < S3Limit

\* What S3Record does to the budget.
LEMMA RecordUses ==
    ASSUME S3Inv, NEW action \in S3Actions, S3Record(action)
    PROVE  s3Metrics' \in Seq(S3Actions) /\ Len(s3Metrics') = Len(s3Metrics) + 1
  BY Appended DEF S3Inv, S3Record

\* What S3Answer does to the refusals.
LEMMA AnswerRefuses ==
    ASSUME S3Inv, NEW action \in S3Actions, NEW code \in S3Codes, S3Answer(action, code)
    PROVE  /\ s3Answers' \in Seq(S3Answered)
           /\ S3Refusals' = IF code = "S3_OP_LIMIT" THEN S3Refusals + 1 ELSE S3Refusals
<1>1. [action |-> action, code |-> code] \in S3Answered
  BY DEF S3Answered
<1> QED BY <1>1, RefusalsAppend, Appended DEF S3Inv, S3Answer, S3Refusals

\* An operation that only signs is one use.
LEMMA SignOnlyUses ==
    ASSUME S3Inv, NEW action \in S3Actions, NEW code \in S3Codes, code # "S3_OP_LIMIT", NEW result,
           SignOnly(action, code, result)
    PROVE  S3Inv' /\ S3Budget!Use
<1>1. Len(s3Metrics) < S3Limit
  <2>1. ~S3LimitReached
    BY Zenon DEF SignOnly
  <2>2. Len(s3Metrics) \in Nat
    BY DEF S3Inv
  <2> QED BY <2>1, <2>2, Limits DEF S3LimitReached
<1>2. s3Metrics' \in Seq(S3Actions) /\ Len(s3Metrics') = Len(s3Metrics) + 1
  BY RecordUses, Zenon DEF SignOnly
<1>3. s3Answers' \in Seq(S3Answered) /\ S3Refusals' = S3Refusals
  BY AnswerRefuses, Zenon DEF SignOnly
<1>4. scan' = scan /\ scan.step = "idle"
  BY Zenon DEF SignOnly
<1> QED BY <1>1, <1>2, <1>3, <1>4, Limits DEF S3Inv, S3Budget!Use, S3Refusals

\* A call that ends in an error leaves the records alone; it is a refusal if it says so.
LEMMA FailureKeeps ==
    ASSUME S3Inv, NEW action \in S3Actions, NEW code \in S3Codes, S3Fails(action, code),
           code = "S3_OP_LIMIT" => S3LimitReached
    PROVE  S3Inv' /\ (S3Budget!Refuse \/ UNCHANGED <<Len(s3Metrics), S3Refusals>>)
<1>1. /\ s3Answers' \in Seq(S3Answered)
      /\ S3Refusals' = IF code = "S3_OP_LIMIT" THEN S3Refusals + 1 ELSE S3Refusals
  BY AnswerRefuses DEF S3Fails
<1>2. S3Inv'
  BY <1>1 DEF S3Inv, S3Fails, Idle
<1>3. S3LimitReached => Len(s3Metrics) = S3Limit
  BY Limits DEF S3Inv, S3LimitReached
<1> QED BY <1>1, <1>2, <1>3 DEF S3Budget!Refuse, S3Fails, S3Refusals

\* Every step of the s3 capability, and what others do to the bucket, keeps the records and is a
\* step of the budget, or leaves the budget alone.
LEMMA S3ImplementsStep ==
    ASSUME S3Inv, S3Start \/ S3Step \/ Others \/ UNCHANGED s3Vars
    PROVE  /\ S3Inv'
           /\ [S3Budget!Use \/ S3Budget!Refuse]_<<Len(s3Metrics), S3Refusals>>
<1> DEFINE Goal == S3Inv' /\ [S3Budget!Use \/ S3Budget!Refuse]_<<Len(s3Metrics), S3Refusals>>
<1>1. ASSUME NEW action \in S3Actions, S3Refused(action) PROVE Goal
  <2>1. S3Answer(action, "S3_OP_LIMIT") /\ "S3_OP_LIMIT" \in S3Codes
    BY <1>1 DEF S3Refused, S3Codes
  <2>2. s3Answers' \in Seq(S3Answered) /\ S3Refusals' = S3Refusals + 1
    BY <2>1, AnswerRefuses
  <2>3. Len(s3Metrics) = S3Limit
    BY <1>1, Limits DEF S3Inv, S3Refused, S3LimitReached
  <2>4. UNCHANGED <<scan, s3Metrics>>
    BY <1>1 DEF S3Refused
  <2> QED BY <2>2, <2>3, <2>4 DEF S3Inv, S3Budget!Refuse, S3Refusals
<1>2. ASSUME NEW raw, NEW key, NEW n, Presign(raw, key, n) PROVE Goal
  <2>1. PICK code \in {"", "S3_ERROR", "S3_FORBIDDEN"} : \E result : SignOnly("presign", code, result)
    BY <1>2, Zenon DEF Presign
  <2>2. "presign" \in S3Actions /\ code \in S3Codes /\ code # "S3_OP_LIMIT"
    BY Zenon DEF S3Actions, S3Codes
  <2>3. S3Inv' /\ S3Budget!Use
    BY <2>1, <2>2, SignOnlyUses, Zenon
  <2> QED BY <2>3, Zenon
<1>3. ASSUME NEW key, NEW n, PresignPost(key, n) PROVE Goal
  <2>1. PICK code \in {"", "S3_ERROR"} : \E result : SignOnly("presign_post", code, result)
    BY <1>3, Zenon DEF PresignPost
  <2>2. "presign_post" \in S3Actions /\ code \in S3Codes /\ code # "S3_OP_LIMIT"
    BY Zenon DEF S3Actions, S3Codes
  <2>3. S3Inv' /\ S3Budget!Use
    BY <2>1, <2>2, SignOnlyUses, Zenon
  <2> QED BY <2>3, Zenon
<1>4. ASSUME NEW action \in S3Actions, NEW code \in S3Codes, S3Fails(action, code),
             code = "S3_OP_LIMIT" => S3LimitReached
      PROVE  Goal
  BY <1>4, FailureKeeps
<1>5. ASSUME NEW prefix, UsageStart(prefix) PROVE Goal
  <2>1. CASE S3Fails("usage", "S3_ERROR")
    BY <2>1, <1>4, Zenon DEF S3Actions, S3Codes
  <2>2. CASE ~S3Fails("usage", "S3_ERROR")
    BY <1>5, <2>2 DEF UsageStart, S3Inv, S3Refusals
  <2> QED BY <2>1, <2>2
<1>6. CASE UsageLimit
  BY <1>6, <1>4, Zenon DEF UsageLimit, S3Actions, S3Codes
<1>7. CASE UsageFails
  BY <1>7, <1>4, Zenon DEF UsageFails, S3Actions, S3Codes
<1>8. CASE UsagePage
  <2>1. Len(s3Metrics) \in Nat /\ Len(s3Metrics) < S3Limit /\ scan.step = "limit"
    <3>1. ~S3LimitReached /\ scan.step = "limit"
      BY <1>8, Zenon DEF UsagePage
    <3>2. Len(s3Metrics) \in Nat
      BY DEF S3Inv
    <3> QED BY <3>1, <3>2, Limits DEF S3LimitReached
  <2>2. "usage" \in S3Actions /\ \A c \in {"", "S3_ERROR", "S3_UPSTREAM"} : c \in S3Codes /\ c # "S3_OP_LIMIT"
    BY DEF S3Actions, S3Codes
  <2>3. \/ UNCHANGED s3Answers
        \/ \E c \in {"", "S3_ERROR", "S3_UPSTREAM"} : S3Answer("usage", c)
    BY <1>8, Zenon DEF UsagePage
  <2>4. s3Answers' \in Seq(S3Answered) /\ S3Refusals' = S3Refusals
    BY <2>2, <2>3, AnswerRefuses, Zenon DEF S3Inv, S3Refusals
  <2>5. UNCHANGED s3Metrics \/ S3Record("usage")
    BY <1>8, Zenon DEF UsagePage
  <2>6. "step" \in DOMAIN scan' /\ scan'.step \in {"idle", "limit"}
    <3>1. \/ scan' = Idle
          \/ \E b, o, t : scan' = [scan EXCEPT !.bytes = b, !.objects = o, !.token = t]
      BY <1>8, Zenon DEF UsagePage
    <3>2. "step" \in DOMAIN scan
      BY DEF S3Inv
    <3>3. ASSUME NEW b, NEW o, NEW t, scan' = [scan EXCEPT !.bytes = b, !.objects = o, !.token = t]
          PROVE  DOMAIN scan' = DOMAIN scan /\ scan'.step = scan.step
      <4>1. "step" # "bytes" /\ "step" # "objects" /\ "step" # "token"
        OBVIOUS
      <4> QED BY <3>2, <3>3, <4>1, Zenon
    <3>4. CASE scan' = Idle
      BY <3>4 DEF Idle
    <3> QED BY <2>1, <3>1, <3>2, <3>3, <3>4, Zenon
  <2>7. /\ s3Metrics' \in Seq(S3Actions)
        /\ Len(s3Metrics') = Len(s3Metrics) + 1 \/ UNCHANGED s3Metrics
    BY <2>2, <2>5, RecordUses, Zenon DEF S3Inv
  <2> QED BY <2>1, <2>4, <2>6, <2>7, Limits DEF S3Inv, S3Budget!Use, S3Refusals
<1>9. ASSUME NEW key, DeleteStart(key) PROVE Goal
  <2>1. CASE \E c \in {"S3_ERROR", "S3_FORBIDDEN"} : S3Fails("delete", c)
    BY <2>1, <1>4, Zenon DEF S3Actions, S3Codes
  <2>2. CASE /\ scan' = [step |-> "delete", key |-> key]
             /\ UNCHANGED <<s3Metrics, s3Answers>>
    BY <1>9, <2>2, Limits DEF DeleteStart, S3LimitReached, S3Inv, S3Refusals
  <2> QED BY <1>9, <2>1, <2>2 DEF DeleteStart
<1>10. CASE DeleteSent
  <2>1. Len(s3Metrics) \in Nat /\ Len(s3Metrics) < S3Limit
    <3>1. scan.step = "delete"
      BY <1>10, Zenon DEF DeleteSent
    <3> QED BY <3>1 DEF S3Inv
  <2>2. "delete" \in S3Actions /\ \A c \in {"", "S3_UPSTREAM"} : c \in S3Codes /\ c # "S3_OP_LIMIT"
    BY DEF S3Actions, S3Codes
  <2>3. S3Record("delete") /\ scan' = Idle /\ \E c \in {"", "S3_UPSTREAM"} : S3Answer("delete", c)
    BY <1>10, Zenon DEF DeleteSent
  <2>4. s3Answers' \in Seq(S3Answered) /\ S3Refusals' = S3Refusals
    BY <2>2, <2>3, AnswerRefuses, Zenon
  <2>5. s3Metrics' \in Seq(S3Actions) /\ Len(s3Metrics') = Len(s3Metrics) + 1
    BY <2>2, <2>3, RecordUses, Zenon
  <2>6. S3Inv'
    <3>1. "step" \in DOMAIN scan' /\ scan'.step # "delete"
      BY <2>3, Zenon DEF Idle
    <3> QED BY <2>1, <2>4, <2>5, <3>1, Limits DEF S3Inv
  <2>7. S3Budget!Use
    BY <2>1, <2>4, <2>5, SMTT(30) DEF S3Budget!Use, S3Refusals
  <2> QED BY <2>6, <2>7
<1>11. CASE DeleteFails
  <2>1. "delete" \in S3Actions /\ "S3_UPSTREAM" \in S3Codes /\ S3Answer("delete", "S3_UPSTREAM")
    BY <1>11 DEF S3Actions, S3Codes, DeleteFails
  <2>2. s3Answers' \in Seq(S3Answered) /\ S3Refusals' = S3Refusals
    BY <2>1, AnswerRefuses
  <2> QED BY <1>11, <2>2 DEF DeleteFails, S3Inv, S3Refusals, Idle
<1>12. CASE Others
  BY <1>12, Zenon DEF Others, OthersWrite, S3Inv, S3Refusals
<1>13. CASE UNCHANGED s3Vars
  BY <1>13 DEF s3Vars, S3Inv, S3Refusals
<1> QED
  BY <1>1, <1>2, <1>3, <1>5, <1>6, <1>7, <1>8, <1>9, <1>10, <1>11, <1>12, <1>13, SMTT(30)
  DEF S3Start, S3Step, S3Actions

\* At the start nothing is recorded and nothing refused.
LEMMA BudgetsStart == ScriptInit => /\ HttpInv /\ S3Inv
                                    /\ HttpBudget!BudgetInit /\ S3Budget!BudgetInit
<1> SUFFICES ASSUME ScriptInit PROVE /\ HttpInv /\ S3Inv
                                     /\ HttpBudget!BudgetInit /\ S3Budget!BudgetInit
  OBVIOUS
<1>1. httpMetrics = <<>> /\ httpAnswers = <<>> /\ request = NoRequest
  BY DEF ScriptInit, HttpInit
<1>2. s3Metrics = <<>> /\ s3Answers = <<>> /\ scan = Idle
  BY DEF ScriptInit, S3Init
<1>3. \A c : Refusals(<<>>, c) = 0
  BY FS_EmptySet DEF Refusals
<1>4. HttpInv
  BY <1>1, Limits DEF HttpInv, NoRequest
<1>5. S3Inv
  BY <1>2, Limits DEF S3Inv, Idle
<1> QED BY <1>1, <1>2, <1>3, <1>4, <1>5 DEF HttpBudget!BudgetInit, S3Budget!BudgetInit

\* The shape of both capabilities' state holds throughout.
LEMMA CapabilitiesInv == ScriptSpec => [](HttpInv /\ S3Inv)
<1>1. HttpInv /\ S3Inv /\ [ScriptNext]_scriptVars => (HttpInv /\ S3Inv)'
  BY ScriptParts, HttpImplementsStep, S3ImplementsStep
<1> QED BY <1>1, BudgetsStart, PTL DEF ScriptSpec

\* The http and s3 capabilities implement the operation budget, each for itself, with any limit
\* and whatever the script, the servers and other users of the bucket do (check_op_limit).
THEOREM ScriptBudgets == ScriptSpec => BudgetsKept
<1>1. HttpInv /\ S3Inv /\ [ScriptNext]_scriptVars =>
         /\ [HttpBudget!Use \/ HttpBudget!Refuse]_<<Len(httpMetrics), Refusals(httpAnswers, "HTTP_OP_LIMIT")>>
         /\ [S3Budget!Use \/ S3Budget!Refuse]_<<Len(s3Metrics), Refusals(s3Answers, "S3_OP_LIMIT")>>
  BY ScriptParts, HttpImplementsStep, S3ImplementsStep, SMTT(30) DEF HttpRefusals, S3Refusals
<1> QED
  BY <1>1, BudgetsStart, CapabilitiesInv, PTL
  DEF ScriptSpec, BudgetsKept, HttpBudget!BudgetSpec, S3Budget!BudgetSpec

-----------------------------------------------------------------------------
(* The collector of the http capability                                    *)

\* Nothing was refused while the limit was not reached, so what is recorded next is also
\* answered next.
MeterInv ==
    /\ HttpMetered
    /\ Len(httpMetrics) < OpLimit => Len(httpAnswers) = Len(httpMetrics)

\* A call that ends is recorded and answered at the same place.
LEMMA FinishMeters ==
    ASSUME HttpInv, MeterInv, Len(httpMetrics) < OpLimit,
           NEW code \in HttpCodes, NEW status \in Nat, code # "HTTP_OP_LIMIT",
           IsError(code) => status = 0, FinishHttp(code, status)
    PROVE  MeterInv'
<1> DEFINE e == [code |-> code, status |-> status]
           n == Len(httpMetrics)
<1>1. n \in Nat /\ Len(httpAnswers) = n /\ httpMetrics \in Seq(Nat) /\ httpAnswers \in Seq(Answers)
  BY DEF HttpInv, MeterInv
<1>2. e \in Answers /\ e.code = code /\ e.status = status
  BY Zenon DEF Answers
<1>3. httpMetrics' = Append(httpMetrics, status) /\ httpAnswers' = Append(httpAnswers, e)
      /\ request' = NoRequest
  BY Zenon DEF FinishHttp
<1>4. /\ Len(httpMetrics') = n + 1 /\ httpMetrics'[n + 1] = status
      /\ \A i \in 1 .. n : httpMetrics'[i] = httpMetrics[i]
  BY <1>1, <1>3, Appended
<1> HIDE DEF e
<1>5. /\ Len(httpAnswers') = n + 1 /\ DOMAIN httpAnswers' = 1 .. n + 1
      /\ httpAnswers'[n + 1] = e
      /\ \A i \in 1 .. n : httpAnswers'[i] = httpAnswers[i]
  BY <1>1, <1>2, <1>3, Appended
<1>6. \A i \in 1 .. n : /\ httpAnswers[i].code # "HTTP_OP_LIMIT"
                        /\ httpAnswers[i].status = httpMetrics[i]
                        /\ IsError(httpAnswers[i].code) => httpMetrics[i] = 0
  BY <1>1 DEF MeterInv, HttpMetered
<1> HIDE DEF n
<1>7. ASSUME NEW i \in 1 .. n + 1
      PROVE  /\ httpAnswers'[i].code # "HTTP_OP_LIMIT"
             /\ httpAnswers'[i].status = httpMetrics'[i]
             /\ IsError(httpAnswers'[i].code) => httpMetrics'[i] = 0
  <2>1. CASE i = n + 1
    BY <1>2, <1>4, <1>5, <2>1, Zenon
  <2>2. CASE i \in 1 .. n
    BY <1>4, <1>5, <1>6, <2>2, Zenon
  <2> QED BY <1>1, <2>1, <2>2
<1>8. request'.step = "idle"
  BY <1>3 DEF NoRequest
<1> QED BY <1>1, <1>4, <1>5, <1>7, <1>8 DEF MeterInv, HttpMetered

\* Every step of the http capability keeps the collector and the answers in step.
LEMMA MeterStep ==
    ASSUME HttpInv, MeterInv, HttpStart \/ HttpStep \/ UNCHANGED httpVars PROVE MeterInv'
<1>0. /\ HttpMetered /\ Len(httpMetrics) \in Nat /\ Len(httpAnswers) \in Nat
      /\ DOMAIN httpAnswers = 1 .. Len(httpAnswers)
      /\ OpLimit \in Nat /\ MAX_REDIRECTS \in Nat \ {0}
  BY ScriptAssumption DEF HttpInv, MeterInv
<1>a. ~HttpLimitReached => Len(httpMetrics) < OpLimit
  BY <1>0 DEF HttpLimitReached
<1>b. request.step # "idle" => Len(httpMetrics) < OpLimit
  BY Zenon DEF HttpInv
\* A step within a call, whose next request is within the redirects.
<1>c. ASSUME UNCHANGED <<httpMetrics, httpAnswers>>,
             request'.step \in {"send", "reply"} => request'.previous <= MAX_REDIRECTS
      PROVE  MeterInv'
  BY <1>c, ZenonT(30) DEF MeterInv, HttpMetered
<1>1. CASE HttpRefused
  <2> DEFINE e == [code |-> "HTTP_OP_LIMIT", status |-> 0]
  <2>1. /\ httpAnswers' = Append(httpAnswers, e) /\ UNCHANGED <<httpMetrics, request>>
        /\ Len(httpMetrics) >= OpLimit
    BY <1>1, Zenon DEF HttpRefused, HttpLimitReached
  <2>2. e \in Answers /\ e.code = "HTTP_OP_LIMIT"
    BY Zenon DEF Answers, HttpCodes
  <2> HIDE DEF e
  <2>3. /\ DOMAIN httpAnswers' = 1 .. Len(httpAnswers) + 1 /\ Len(httpAnswers') = Len(httpAnswers) + 1
        /\ httpAnswers'[Len(httpAnswers) + 1] = e
        /\ \A i \in 1 .. Len(httpAnswers) : httpAnswers'[i] = httpAnswers[i]
    BY <2>1, <2>2, Appended DEF HttpInv
  <2> QED BY <1>0, <2>1, <2>2, <2>3 DEF MeterInv, HttpMetered
<1>2. ASSUME NEW url \in Urls, HttpCall(url) PROVE MeterInv'
  <2>1. CASE FinishHttp("HTTP_SSRF_BLOCKED", 0)
    <3>1. ~HttpLimitReached
      BY <1>2, Zenon DEF HttpCall
    <3>2. "HTTP_SSRF_BLOCKED" \in HttpCodes /\ "HTTP_SSRF_BLOCKED" # "HTTP_OP_LIMIT" /\ 0 \in Nat
      BY DEF HttpCodes
    <3> QED BY <1>a, <2>1, <3>1, <3>2, FinishMeters
  <2>2. CASE /\ request' = [step |-> "send", url |-> url, previous |-> 1]
             /\ UNCHANGED <<httpMetrics, httpAnswers>>
    BY <1>0, <1>c, <2>2
  <2> QED BY <1>2, <2>1, <2>2, Zenon DEF HttpCall
<1>3. CASE HttpConnect
  <2>1. request \in [step : {"send", "reply"}, url : Urls, previous : Nat]
    BY <1>3 DEF HttpInv, HttpConnect, NoRequest
  <2>2. request'.previous = request.previous /\ request.step = "send"
    BY <1>3, <2>1 DEF HttpConnect
  <2> QED BY <1>0, <1>3, <1>c, <2>2, Zenon DEF HttpConnect, HttpMetered
<1>4. CASE HttpFails
  <2>1. PICK code \in {"HTTP_TIMEOUT", "HTTP_CONNECT", "HTTP_ERROR"} : FinishHttp(code, 0)
    BY <1>4, Zenon DEF HttpFails
  <2>2. request.step # "idle" /\ code \in HttpCodes /\ code # "HTTP_OP_LIMIT" /\ 0 \in Nat
    BY <1>4, Zenon DEF HttpFails, HttpCodes
  <2> QED BY <1>b, <2>1, <2>2, FinishMeters
<1>5. ASSUME NEW url \in Urls, HttpRedirected(url) PROVE MeterInv'
  <2>1. request \in [step : {"send", "reply"}, url : Urls, previous : Nat]
    BY <1>5 DEF HttpInv, HttpRedirected, NoRequest
  <2>2. \/ /\ request.previous < MAX_REDIRECTS
           /\ request' = [step |-> "send", url |-> url, previous |-> request.previous + 1]
        \/ request' = [step |-> "body", status |-> 302]
    BY <1>5, Zenon DEF HttpRedirected, ValidateRedirect
  <2>3. request'.step \in {"send", "reply"} => request'.previous <= MAX_REDIRECTS
    BY <1>0, <2>1, <2>2
  <2> QED BY <1>5, <1>c, <2>3, Zenon DEF HttpRedirected
<1>6. CASE HttpResponds
  <2>1. request'.step = "body"
    BY <1>6 DEF HttpResponds
  <2> QED BY <1>6, <1>c, <2>1, Zenon DEF HttpResponds
<1>7. CASE HttpBody
  <2>1. request \in [step : {"body"}, status : Nat]
    <3>1. request.step = "body"
      BY <1>7, Zenon DEF HttpBody
    <3>2. request \notin [step : {"send", "reply"}, url : Urls, previous : Nat]
      BY <3>1
    <3> QED BY <3>1, <3>2 DEF HttpInv, NoRequest
  <2>2. PICK code \in {"", "HTTP_BODY_TOO_LARGE", "HTTP_ERROR"}, status \in Nat :
           FinishHttp(code, status) /\ (IsError(code) => status = 0)
    BY <1>7, <2>1, Zenon DEF HttpBody, IsError
  <2>3. request.step # "idle" /\ code \in HttpCodes /\ code # "HTTP_OP_LIMIT"
    BY <1>7, Zenon DEF HttpBody, HttpCodes
  <2> QED BY <1>b, <2>2, <2>3, FinishMeters, Zenon
<1>8. CASE UNCHANGED httpVars
  BY <1>0, <1>8, <1>c, Zenon DEF httpVars, HttpMetered
<1> QED
  BY <1>1, <1>2, <1>3, <1>4, <1>5, <1>6, <1>7, <1>8, ZenonT(30) DEF HttpStart, HttpStep

\* For every limit, list of hosts and order of calls: what the collector has is what the
\* script was answered, call by call, with the refusals after it (MetricCtx::finish).
THEOREM ScriptMetered == ScriptSpec => []HttpMetered
<1>1. ScriptInit => MeterInv
  BY DEF ScriptInit, HttpInit, NoRequest, MeterInv, HttpMetered
<1>2. HttpInv /\ MeterInv /\ [ScriptNext]_scriptVars => MeterInv'
  BY ScriptParts, MeterStep, Zenon
<1>3. MeterInv => HttpMetered
  BY DEF MeterInv
<1> QED BY <1>1, <1>2, <1>3, CapabilitiesInv, PTL DEF ScriptSpec

-----------------------------------------------------------------------------
(* Where connections go                                                    *)

\* What the check of a URL leaves for its connection: the resolver filters the names, so only
\* an address given literally has to have passed before; one in brackets has not.
Reachable(url) ==
    /\ IsSchemeAllowed(url.scheme) /\ IsHostAllowed(url) /\ url.port # 0
    /\ url.host \in DOMAIN Literal /\ ~InBrackets(url.host) =>
          IsLocalBypass(url) \/ policy.allow_private \/ ~IsPrivateIp(Literal[url.host])

HttpConnInv ==
    /\ request.step \in {"send", "reply"} => Reachable(request.url)
    /\ conn # NoConn =>
          /\ IsSchemeAllowed(conn.url.scheme) /\ IsHostAllowed(conn.url)
          /\ conn.addr \in Internal =>
                \/ policy.allow_private
                \/ \E e \in policy.allowed : e.host = conn.url.host /\ e.port # 0
                \/ InBrackets(conn.url.host)

S3ConnInv ==
    /\ s3Config \in S3Configs
    /\ scan.step \in {"limit", "delete"} /\ s3Config.endpoint \in DOMAIN Literal =>
          s3Config.allow_private \/ ~IsPrivateIp(Literal[s3Config.endpoint])
    /\ s3Conn # Nothing /\ s3Conn.addr \in Internal => s3Config.allow_private

\* A target that passes the checks is reachable in that sense.
LEMMA TargetReachable ==
    ASSUME NEW url \in Urls, NEW found \in ResolveText(url.host), TargetPasses(url, found)
    PROVE  Reachable(url)
<1>1. IsSchemeAllowed(url.scheme) /\ IsHostAllowed(url) /\ url.port # 0
  BY ScriptAssumption DEF TargetPasses
<1>2. ASSUME url.host \in DOMAIN Literal, ~InBrackets(url.host)
      PROVE  IsLocalBypass(url) \/ policy.allow_private \/ ~IsPrivateIp(Literal[url.host])
  <2>1. found = {Literal[url.host]}
    BY <1>2, Zenon DEF ResolveText, Resolve
  <2> QED BY <2>1 DEF TargetPasses, BlockPrivateIp
<1> QED BY <1>1, <1>2 DEF Reachable

\* A connection to a reachable target is allowed, whatever its name resolves to by then.
LEMMA ConnectAllowed ==
    ASSUME NEW url, Reachable(url), NEW found \in Resolve(url.host), NEW addr \in ConnectsTo(url, found),
           addr \in Internal, ~InBrackets(url.host)
    PROVE  policy.allow_private \/ \E e \in policy.allowed : e.host = url.host /\ e.port # 0
<1>1. IsPrivateIp(addr)
  BY ScriptAssumption
<1>2. CASE url.host \in DOMAIN Literal
  <2>1. addr = Literal[url.host]
    BY <1>2 DEF Resolve, ConnectsTo, ResolveFiltered
  <2>2. CASE IsLocalBypass(url)
    <3>1. PICK e \in policy.allowed : e = [host |-> url.host, port |-> url.port]
      BY <2>2 DEF IsLocalBypass
    <3>2. e.host = url.host /\ e.port # 0
      BY <3>1 DEF Reachable
    <3> QED BY <3>2
  <2> QED BY <1>1, <1>2, <2>1, <2>2 DEF Reachable
<1>3. CASE url.host \notin DOMAIN Literal
  BY <1>1, <1>3, Zenon DEF ConnectsTo, ResolveFiltered, BypassHostSet
<1> QED BY <1>2, <1>3

\* The http capability connects where it may.
LEMMA HttpConnStep ==
    ASSUME HttpInv, HttpConnInv, HttpStart \/ HttpStep \/ UNCHANGED httpVars
    PROVE  HttpConnInv'
<1> USE DEF HttpConnInv
<1>1. CASE HttpRefused
  BY <1>1, Zenon DEF HttpRefused, Reachable, IsHostAllowed, IsLocalBypass
<1>2. ASSUME NEW code, NEW status, FinishHttp(code, status), UNCHANGED <<policy, conn>>
      PROVE  HttpConnInv'
  BY <1>2 DEF FinishHttp, NoRequest, IsHostAllowed
<1>3. ASSUME NEW url \in Urls, HttpCall(url) PROVE HttpConnInv'
  <2>1. CASE FinishHttp("HTTP_SSRF_BLOCKED", 0)
    BY <1>3, <2>1, <1>2, Zenon DEF HttpCall
  <2>2. CASE ~FinishHttp("HTTP_SSRF_BLOCKED", 0)
    <3>1. Reachable(url)
      BY <1>3, <2>2, TargetReachable, Zenon DEF HttpCall, ValidateUrl
    <3>2. request' = [step |-> "send", url |-> url, previous |-> 1] /\ UNCHANGED <<policy, conn>>
      BY <1>3, <2>2, Zenon DEF HttpCall
    <3>3. request'.url = url
      BY <3>2, Zenon
    <3> QED BY <3>1, <3>2, <3>3, Zenon DEF Reachable, IsHostAllowed, IsLocalBypass
  <2> QED BY <2>1, <2>2, Zenon
<1>4. CASE HttpConnect
  <2>1. request \in [step : {"send", "reply"}, url : Urls, previous : Nat]
    BY <1>4 DEF HttpInv, HttpConnect, NoRequest
  <2>2. request'.url = request.url /\ UNCHANGED policy /\ Reachable(request.url)
    BY <1>4, <2>1 DEF HttpConnect
  <2>3. PICK found \in Resolve(request.url.host) : \E addr \in ConnectsTo(request.url, found) :
           conn' = [url |-> request.url, addr |-> addr]
    BY <1>4 DEF HttpConnect
  <2>4. PICK addr \in ConnectsTo(request.url, found) : conn' = [url |-> request.url, addr |-> addr]
    BY <2>3, Zenon
  <2>5. addr \in Internal =>
           \/ policy.allow_private
           \/ \E e \in policy.allowed : e.host = request.url.host /\ e.port # 0
           \/ InBrackets(request.url.host)
    BY <2>2, ConnectAllowed, Zenon
  <2>6. conn'.url = request.url /\ conn'.addr = addr
    BY <2>4
  <2> QED BY <2>2, <2>5, <2>6, Zenon DEF Reachable, IsHostAllowed, IsLocalBypass
<1>5. CASE HttpFails
  BY <1>5, <1>2, ZenonT(30) DEF HttpFails
<1>6. ASSUME NEW url \in Urls, HttpRedirected(url) PROVE HttpConnInv'
  <2>1. CASE request' = [step |-> "body", status |-> 302]
    BY <1>6, <2>1, ZenonT(30) DEF HttpRedirected, IsHostAllowed
  <2>2. CASE request' # [step |-> "body", status |-> 302]
    <3>1. request'.url = url /\ UNCHANGED <<policy, conn>>
      <4>1. request' = [step |-> "send", url |-> url, previous |-> request.previous + 1]
        BY <1>6, <2>2, Zenon DEF HttpRedirected
      <4>2. request'.url = url
        BY <4>1, Zenon
      <4> QED BY <1>6, <4>2, Zenon DEF HttpRedirected
    <3>2. Reachable(url)
      BY <1>6, <2>2, TargetReachable, ZenonT(30) DEF HttpRedirected, ValidateRedirect
    <3> QED BY <3>1, <3>2, Zenon DEF Reachable, IsHostAllowed, IsLocalBypass
  <2> QED BY <2>1, <2>2
<1>7. CASE HttpResponds
  <2>1. PICK status : request' = [step |-> "body", status |-> status]
    BY <1>7, Zenon DEF HttpResponds
  <2>2. UNCHANGED <<policy, conn>>
    BY <1>7, Zenon DEF HttpResponds
  <2> QED BY <2>1, <2>2, ZenonT(30) DEF IsHostAllowed
<1>8. CASE HttpBody
  BY <1>8, <1>2, Zenon DEF HttpBody
<1>9. CASE UNCHANGED httpVars
  BY <1>9, Zenon DEF httpVars, Reachable, IsHostAllowed, IsLocalBypass
<1> QED
  BY <1>1, <1>3, <1>4, <1>5, <1>6, <1>7, <1>8, <1>9, Zenon DEF HttpStart, HttpStep

\* The store is connected to at an address that is not internal, unless the server allows it.
LEMMA S3ConnectAllowed ==
    ASSUME S3ConnInv, scan.step \in {"limit", "delete"},
           NEW found \in Resolve(S3Host), NEW addr \in S3Addresses(found), addr \in Internal
    PROVE  s3Config.allow_private
<1>1. IsPrivateIp(addr)
  BY ScriptAssumption
<1>2. CASE S3Host \in DOMAIN Literal
  <2>1. S3Host = s3Config.endpoint
    BY <1>2, ScriptAssumption DEF S3Host, S3ConnInv
  <2>2. addr = Literal[S3Host]
    BY <1>2 DEF Resolve, S3Addresses, ResolveFiltered
  <2> QED BY <1>1, <1>2, <2>1, <2>2, Zenon DEF S3ConnInv
<1>3. CASE S3Host \notin DOMAIN Literal
  BY <1>1, <1>3 DEF S3Addresses, ResolveFiltered
<1> QED BY <1>2, <1>3, Zenon

\* An endpoint that passes the check is not an internal address given literally.
LEMMA EndpointPasses ==
    ASSUME NEW found \in Resolve(s3Config.endpoint), ResolveHostOk(found),
           s3Config.endpoint \in DOMAIN Literal
    PROVE  s3Config.allow_private \/ ~IsPrivateIp(Literal[s3Config.endpoint])
  BY DEF Resolve, ResolveHostOk, BlockPrivateIp

\* The s3 capability connects where it may.
LEMMA S3ConnStep ==
    ASSUME S3Inv, S3ConnInv, S3Start \/ S3Step \/ Others \/ UNCHANGED s3Vars
    PROVE  S3ConnInv'
<1> USE DEF S3ConnInv
<1>1. ASSUME UNCHANGED <<s3Config, s3Conn>>, scan' = Idle \/ scan'.step = scan.step PROVE S3ConnInv'
  BY <1>1, SMTT(30) DEF Idle
<1>2. ASSUME NEW action, S3Refused(action) PROVE S3ConnInv'
  BY <1>2, <1>1 DEF S3Refused
<1>3. ASSUME NEW action, NEW code, NEW result, SignOnly(action, code, result) PROVE S3ConnInv'
  BY <1>3, <1>1, Zenon DEF SignOnly
<1>4. ASSUME NEW raw, NEW key, NEW n, Presign(raw, key, n) PROVE S3ConnInv'
  BY <1>4, <1>3, Zenon DEF Presign
<1>5. ASSUME NEW key, NEW n, PresignPost(key, n) PROVE S3ConnInv'
  BY <1>5, <1>3, Zenon DEF PresignPost
<1>6. ASSUME NEW action, NEW code, S3Fails(action, code) PROVE S3ConnInv'
  BY <1>6, <1>1 DEF S3Fails
<1>7. ASSUME NEW prefix, UsageStart(prefix) PROVE S3ConnInv'
  <2>1. CASE S3Fails("usage", "S3_ERROR")
    BY <2>1, <1>6
  <2>2. CASE ~S3Fails("usage", "S3_ERROR")
    <3>1. UNCHANGED <<s3Config, s3Conn>>
      BY <1>7, <2>2, ZenonT(30) DEF UsageStart
    <3>2. s3Config.endpoint \in DOMAIN Literal =>
             s3Config.allow_private \/ ~IsPrivateIp(Literal[s3Config.endpoint])
      BY <1>7, <2>2, EndpointPasses DEF UsageStart
    <3> QED BY <3>1, <3>2, Zenon
  <2> QED BY <2>1, <2>2, Zenon
<1>8. CASE UsageLimit \/ UsageFails
  BY <1>8, <1>6, Zenon DEF UsageLimit, UsageFails
<1>9. ASSUME scan.step \in {"limit", "delete"}, UNCHANGED s3Config,
             \E found \in Resolve(S3Host) : \E addr \in S3Addresses(found) :
                s3Conn' = [is |-> "conn", addr |-> addr]
      PROVE  S3ConnInv'
  <2>1. s3Conn'.addr \in Internal => s3Config.allow_private
    BY <1>9, S3ConnectAllowed
  <2> QED BY <1>9, <2>1, Zenon
<1>10. CASE UsagePage \/ DeleteSent
  BY <1>10, <1>9, Zenon DEF UsagePage, DeleteSent
<1>11. ASSUME NEW key, DeleteStart(key) PROVE S3ConnInv'
  <2>1. CASE \E c \in {"S3_ERROR", "S3_FORBIDDEN"} : S3Fails("delete", c)
    BY <2>1, <1>6
  <2>2. CASE ~\E c \in {"S3_ERROR", "S3_FORBIDDEN"} : S3Fails("delete", c)
    <3>1. UNCHANGED <<s3Config, s3Conn>>
      BY <1>11, <2>2 DEF DeleteStart
    <3>2. s3Config.endpoint \in DOMAIN Literal =>
             s3Config.allow_private \/ ~IsPrivateIp(Literal[s3Config.endpoint])
      BY <1>11, <2>2, EndpointPasses, Zenon DEF DeleteStart
    <3> QED BY <3>1, <3>2
  <2> QED BY <2>1, <2>2, SMTT(30)
<1>12. CASE DeleteFails
  BY <1>12, <1>1 DEF DeleteFails
<1>13. ASSUME NEW key, OthersWrite(key) PROVE S3ConnInv'
  <2>1. scan'.step = scan.step
    BY <1>13, Zenon DEF OthersWrite, S3Inv
  <2> QED BY <1>13, <2>1, <1>1 DEF OthersWrite
<1>14. CASE UNCHANGED s3Vars
  BY <1>14 DEF s3Vars
<1> QED
  BY <1>2, <1>4, <1>5, <1>7, <1>8, <1>10, <1>11, <1>12, <1>13, <1>14, Zenon
     DEF S3Start, S3Step, Others

\* Connections of both capabilities go only to listed hosts, and to an internal address only
\* where the operator allows it or the URL has an IPv6 literal, for every list of hosts, every
\* chain of redirects and every answer DNS may give between the check and the connect
\* (validate_url, validate_redirect, SsrfResolver, resolve_host).
THEOREM ScriptConnects == ScriptSpec => []ConnectsWhereAllowed
<1>1. ScriptInit => HttpConnInv /\ S3ConnInv
  BY DEF ScriptInit, HttpInit, S3Init, HttpConnInv, S3ConnInv, NoRequest, Idle
<1>2. HttpInv /\ S3Inv /\ HttpConnInv /\ S3ConnInv /\ [ScriptNext]_scriptVars => (HttpConnInv /\ S3ConnInv)'
  BY ScriptParts, HttpConnStep, S3ConnStep, Zenon
<1>3. HttpConnInv /\ S3ConnInv => ConnectsWhereAllowed
  BY DEF HttpConnInv, S3ConnInv, ConnectsWhereAllowed, IsSchemeAllowed, IsHostAllowed
<1> QED BY <1>1, <1>2, <1>3, CapabilitiesInv, PTL DEF ScriptSpec

-----------------------------------------------------------------------------
(* What is signed                                                          *)

\* The larger and the smaller of two numbers.
LEMMA MaxMinPair ==
    ASSUME NEW a \in Int, NEW b \in Int
    PROVE  /\ Max({a, b}) = IF a >= b THEN a ELSE b
           /\ Min({a, b}) = IF a =< b THEN a ELSE b
  BY DEF Max, Min

\* A number cut to what lies between one and a cap.
LEMMA ClampPair ==
    ASSUME NEW base \in Int, NEW cap \in Int, 1 <= cap
    PROVE  /\ Max({1, Min({base, cap})}) \in Int
           /\ 1 <= Max({1, Min({base, cap})}) /\ Max({1, Min({base, cap})}) <= cap
<1>1. Min({base, cap}) = IF base =< cap THEN base ELSE cap
  BY MaxMinPair
<1>2. PICK m \in Int : m = Min({base, cap})
  BY <1>1
<1>3. Max({1, m}) = IF 1 >= m THEN 1 ELSE m
  BY MaxMinPair
<1> QED BY <1>1, <1>2, <1>3

\* A lifetime is at least a second and at most what the operator allows.
LEMMA ClampBounds ==
    ASSUME s3Config \in S3Configs, NEW n \in Int, n >= 0
    PROVE  /\ ClampExpires(n) \in Int /\ 1 <= ClampExpires(n)
           /\ ClampExpires(n) <= Max({s3Config.max_expires, 1})
<1>1. s3Config.expires \in Nat /\ s3Config.max_expires \in Nat
  BY ScriptAssumption
<1>2. PICK cap \in Int : cap = Max({s3Config.max_expires, 1}) /\ 1 <= cap
  BY <1>1, MaxMinPair
<1>3. PICK base \in Int : base = IF n = 0 THEN s3Config.expires ELSE n
  BY <1>1
<1>4. ClampExpires(n) = Max({1, Min({base, cap})})
  BY <1>2, <1>3, Zenon DEF ClampExpires
<1> QED BY <1>2, <1>4, ClampPair, Zenon

\* What was signed last was signed for a valid call: a link of a method that the operator allows,
\* or a form, with a lifetime within bounds.
LinkOf(s, method, key, n) ==
    /\ s = PresignedUrl(method, key, n)
    /\ method \in {"PUT", "GET", "HEAD", "DELETE"} /\ ~DeletesForbidden(method)

FormOf(s, key, n) == s = PresignedForm(key, n)

WithinLife(n) == 1 <= n /\ n <= Max({s3Config.max_expires, 1})

SignedInv ==
    /\ s3Config \in S3Configs
    /\ signed = Nothing
       \/ \E key \in CallKeys, n \in Int :
             /\ WithinLife(n)
             /\ FormOf(signed, key, n) \/ \E method \in Methods : LinkOf(signed, method, key, n)

\* Only the operations that sign change what was signed, and none the configuration.
LEMMA SignedStep ==
    ASSUME SignedInv, S3Start \/ S3Step \/ Others \/ UNCHANGED s3Vars
    PROVE  SignedInv'
<1> USE DEF SignedInv
<1>1. ASSUME UNCHANGED <<s3Config, signed>> PROVE SignedInv'
  BY <1>1, ZenonT(30)
     DEF LinkOf, FormOf, WithinLife, PresignedUrl, PresignedForm, Sign, SignPolicy, S3Host,
              DeletesForbidden
<1>2. ASSUME NEW key \in CallKeys, NEW n \in Int, WithinLife(n), UNCHANGED s3Config,
             FormOf(signed', key, n) \/ \E method \in Methods : LinkOf(signed', method, key, n)
      PROVE  SignedInv'
  BY <1>2, ZenonT(30)
     DEF LinkOf, FormOf, WithinLife, PresignedUrl, PresignedForm, Sign, SignPolicy, S3Host,
              DeletesForbidden
<1>3. ASSUME NEW raw \in Methods, NEW key \in CallKeys, NEW n \in Lifetimes, Presign(raw, key, n)
      PROVE  SignedInv'
  <2> DEFINE method == NormalizeMethod(raw)
  <2>1. UNCHANGED s3Config
    BY <1>3, Zenon DEF Presign, SignOnly
  <2>2. CASE n < 0 \/ method = "PATCH" \/ DeletesForbidden(method)
    BY <1>3, <2>1, <2>2, <1>1, Zenon DEF Presign, SignOnly
  <2>3. CASE ~(n < 0 \/ method = "PATCH" \/ DeletesForbidden(method))
    <3>1. n \in Int /\ n >= 0
      BY <2>3, Limits, SMTT(30)
    <3>2. ClampExpires(n) \in Int /\ WithinLife(ClampExpires(n))
      BY <3>1, ClampBounds DEF WithinLife
    <3>3. method \in {"PUT", "GET", "HEAD", "DELETE"}
      BY <2>3, Zenon DEF NormalizeMethod, Methods
    <3>4. signed' = signed \/ signed' = PresignedUrl(method, key, ClampExpires(n))
      BY <1>3, Zenon DEF Presign, SignOnly
    <3>5. signed' = signed \/ LinkOf(signed', method, key, ClampExpires(n))
      BY <2>3, <3>3, <3>4 DEF LinkOf
    <3>6. method \in Methods
      BY <3>3, Zenon DEF Methods
    <3> HIDE DEF method
    <3> QED BY <2>1, <3>2, <3>5, <3>6, <1>1, <1>2, SMTT(30)
  <2> QED BY <2>2, <2>3
<1>4. ASSUME NEW key \in CallKeys, NEW n \in Lifetimes, PresignPost(key, n) PROVE SignedInv'
  <2>1. UNCHANGED s3Config
    BY <1>4, Zenon DEF PresignPost, SignOnly
  <2>2. CASE n < 0
    BY <1>4, <2>1, <2>2, <1>1, SMTT(30) DEF PresignPost, SignOnly
  <2>3. CASE ~(n < 0)
    <3>1. n \in Int /\ n >= 0
      BY <2>3, Limits
    <3>2. ClampExpires(n) \in Int /\ WithinLife(ClampExpires(n))
      BY <3>1, ClampBounds DEF WithinLife
    <3>3. signed' = signed \/ FormOf(signed', key, ClampExpires(n))
      BY <1>4, Zenon DEF PresignPost, SignOnly, FormOf
    <3> QED BY <2>1, <3>2, <3>3, <1>1, <1>2, SMTT(30)
  <2> QED BY <2>2, <2>3
<1>5. ASSUME NEW action, S3Refused(action) PROVE SignedInv'
  BY <1>5, <1>1 DEF S3Refused
<1>6. ASSUME NEW prefix, UsageStart(prefix) PROVE SignedInv'
  BY <1>6, <1>1, Zenon DEF UsageStart, S3Fails
<1>7. ASSUME NEW key, DeleteStart(key) PROVE SignedInv'
  BY <1>7, <1>1 DEF DeleteStart, S3Fails
<1>8. CASE S3Step
  BY <1>8, <1>1, Zenon
     DEF S3Step, UsageLimit, UsagePage, UsageFails, DeleteSent, DeleteFails, S3Fails
<1>9. CASE Others
  BY <1>9, <1>1, Zenon DEF Others, OthersWrite
<1>10. CASE UNCHANGED s3Vars
  BY <1>10, <1>1 DEF s3Vars
<1> QED
  BY <1>3, <1>4, <1>5, <1>6, <1>7, <1>8, <1>9, <1>10, SMTT(30) DEF S3Start

\* What a link or a form so signed is accepted for.
LEMMA SignedSound ==
    ASSUME SignedInv
    PROVE  SignedWithinPolicy
<1> SUFFICES ASSUME signed # Nothing PROVE SignedWithinPolicy
  BY DEF SignedWithinPolicy
<1>1. PICK k \in CallKeys, n \in Int :
          /\ WithinLife(n)
          /\ FormOf(signed, k, n) \/ \E method \in Methods : LinkOf(signed, method, k, n)
  BY ZenonT(30) DEF SignedInv
<1>2. s3Config.expires \in Nat /\ s3Config.max_expires \in Nat /\ s3Config.max_upload_size \in Nat
  BY ScriptAssumption, ZenonT(30) DEF SignedInv
<1>3. PICK cap \in Int : cap = Max({s3Config.max_expires, 1})
  BY <1>2, MaxMinPair
<1>4. 1 <= n /\ n <= cap
  BY <1>1, <1>3 DEF WithinLife
<1>5. \A age \in Lifetimes \cup {s3Config.expires, s3Config.max_expires} : age \in Int
  BY <1>2, Limits
<1>6. CASE FormOf(signed, k, n)
  <2>1. /\ signed.is = "form" /\ signed.method = "POST" /\ signed.key = k /\ signed.expires = n
        /\ signed.max_bytes = s3Config.max_upload_size
        /\ signed.signature = <<s3Config.secret_key, k, n, s3Config.max_upload_size>>
    BY <1>6, Zenon DEF FormOf, PresignedForm, SignPolicy
  <2>2. Accepts(signed, signed.method, S3Host, signed.key, 0, 0)
    BY <1>2, <1>4, <2>1, SMTT(30) DEF Accepts, SignatureFits, SizeFits
  <2>3. ASSUME NEW method, NEW key, NEW age \in Int, age < signed.expires,
               SignatureFits(signed, method, S3Host, key)
        PROVE  /\ key = signed.key /\ method = signed.method
               /\ age < cap
               /\ method = "DELETE" => s3Config.allow_delete
               /\ method = "POST" => \A size \in 0 .. U64_MAX :
                     SizeFits(signed, size) => size <= s3Config.max_upload_size
    BY <1>4, <2>1, <2>3, SMTT(30) DEF SignatureFits, SizeFits
  <2> QED BY <1>3, <1>5, <2>2, <2>3, Zenon DEF SignedWithinPolicy
<1>7. ASSUME NEW m \in Methods, LinkOf(signed, m, k, n) PROVE SignedWithinPolicy
  <2>1. /\ signed.is = "url" /\ signed.method = m /\ signed.key = k /\ signed.expires = n
        /\ signed.signature = <<s3Config.secret_key, m, S3Host, k, n>>
    BY <1>7, Zenon DEF LinkOf, PresignedUrl, Sign
  <2>2. Accepts(signed, signed.method, S3Host, signed.key, 0, 0)
    BY <1>4, <2>1, SMTT(30) DEF Accepts, SignatureFits, SizeFits
  <2>3. ASSUME NEW method, NEW key, NEW age \in Int, age < signed.expires,
               SignatureFits(signed, method, S3Host, key)
        PROVE  /\ key = signed.key /\ method = signed.method
               /\ age < cap
               /\ method = "DELETE" => s3Config.allow_delete
               /\ method = "POST" => \A size \in 0 .. U64_MAX :
                     SizeFits(signed, size) => size <= s3Config.max_upload_size
    BY <1>4, <1>7, <2>1, <2>3 DEF SignatureFits, LinkOf, DeletesForbidden
  <2> QED BY <1>3, <1>5, <2>2, <2>3 DEF SignedWithinPolicy
<1> QED BY <1>1, <1>6, <1>7, SMTT(30)

\* Whatever a script asks for, what is signed stays within what the operator allows, for every
\* configuration, key and lifetime (do_presign, do_presign_post, clamp_expires).
THEOREM ScriptSigned == ScriptSpec => []SignedWithinPolicy
<1>1. ScriptInit => SignedInv
  BY DEF ScriptInit, S3Init, SignedInv
<1>2. SignedInv /\ [ScriptNext]_scriptVars => SignedInv'
  BY ScriptParts, SignedStep, ZenonT(30)
<1> QED BY <1>1, <1>2, SignedSound, PTL DEF ScriptSpec

-----------------------------------------------------------------------------
(* The surface                                                             *)

\* What does not depend on the units: the capabilities of a profile, and the lock.
StageInv ==
    /\ profile \in {"full", "deterministic"}
    /\ profile = "deterministic" => DOMAIN std \cap {"io", "http", "s3"} = {}
    /\ stage \notin {"handler", "done"} => ~locked /\ ~pinned
    /\ replaced = {} /\ stage = "handler" => locked /\ pinned
    /\ locked /\ pinned => \A g \in DOMAIN globals : globals[g] = std[g]

\* The lock keeps the exposed globals and the members of $std together.
LEMMA StageStep ==
    ASSUME StageInv, SurfaceStart \/ SurfaceStep \/ UNCHANGED surfaceVars
    PROVE  StageInv'
<1> USE DEF StageInv
<1>1. CASE Inject
  <2>1. stage' \notin {"handler", "done"} /\ stage \notin {"handler", "done"}
    BY <1>1, SMTT(30) DEF Inject
  <2>2. UNCHANGED <<profile, locked, pinned>>
    BY <1>1, Zenon DEF Inject, inputVars
  <2>3. ~locked' /\ ~pinned'
    BY <2>1, <2>2, Zenon
  <2>4. profile = "deterministic" => DOMAIN std' \cap {"io", "http", "s3"} = {}
    BY <1>1 DEF Inject, With, Registry, Apis, Deterministic
  <2>5. stage' # "handler"
    BY <2>1
  <2> QED BY <2>2, <2>3, <2>4, <2>5, Zenon
<1>2. ASSUME UNCHANGED <<profile, std, stage, globals, replaced, locked, pinned>> PROVE StageInv'
  BY <1>2, Zenon
<1>3. ASSUME NEW unit, ReadUnbuilt(unit) \/ ReadBuilt(unit) PROVE StageInv'
  BY <1>2, <1>3, Zenon DEF ReadUnbuilt, ReadBuilt, inputVars, spaceVars
<1>4. CASE BuildNeeded \/ BuildBody \/ BuildTake \/ BuildFails
  BY <1>2, <1>4, Zenon DEF BuildNeeded, BuildBody, BuildTake, BuildFails, inputVars, spaceVars
<1>5. ASSUME NEW name \in DOMAIN std, AssignMember(name) PROVE StageInv'
  <2>1. UNCHANGED <<profile, stage, globals, replaced, locked, pinned>> /\ ~locked
    BY <1>5, Zenon DEF AssignMember, inputVars
  <2>2. DOMAIN std' = DOMAIN std
    BY <1>5, Zenon DEF AssignMember
  <2> QED BY <2>1, <2>2, Zenon
<1>6. ASSUME NEW name \in DOMAIN globals, AssignGlobal(name) PROVE StageInv'
  <2>1. UNCHANGED <<profile, stage, std, replaced, locked, pinned>> /\ ~pinned
    BY <1>6, Zenon DEF AssignGlobal, inputVars
  <2> QED BY <2>1, Zenon
<1>7. ASSUME NEW what, Reassign(what) PROVE StageInv'
  <2>1. UNCHANGED <<profile, stage, std, globals, locked, pinned>> /\ replaced' # {}
    BY <1>7, Zenon DEF Reassign, inputVars
  <2> QED BY <2>1, Zenon
<1>8. CASE FreezeStd
  <2>1. UNCHANGED <<profile, std, replaced>> /\ stage' = "handler"
    BY <1>8, Zenon DEF FreezeStd, inputVars
  <2>2. replaced = {} => locked' /\ pinned'
    BY <1>8, Zenon DEF FreezeStd
  <2>3. ASSUME locked', pinned' PROVE \A g \in DOMAIN globals' : globals'[g] = std'[g]
    <3>1. "$std" \notin replaced
      BY <1>8, <2>3, Zenon DEF FreezeStd
    <3>2. globals' = Repinned
      BY <1>8, <2>3, Zenon DEF FreezeStd
    <3> QED BY <2>1, <3>1, <3>2, Zenon DEF Repinned
  <2>4. stage' \in {"handler", "done"}
    BY <2>1
  <2> QED BY <2>1, <2>2, <2>3, <2>4, Zenon
<1>9. CASE InjectFails \/ RunEnds
  <2>1. UNCHANGED <<profile, std, globals, replaced, locked, pinned>> /\ stage' = "done"
    BY <1>9, Zenon DEF InjectFails, RunEnds, inputVars
  <2>2. stage' # "handler" /\ stage' \in {"handler", "done"}
    BY <2>1
  <2> QED BY <2>1, <2>2, Zenon
<1>10. CASE UNCHANGED surfaceVars
  BY <1>2, <1>10, Zenon DEF surfaceVars, inputVars, spaceVars
<1> QED
  BY <1>1, <1>3, <1>4, <1>5, <1>6, <1>7, <1>8, <1>9, <1>10, Zenon DEF SurfaceStart, SurfaceStep

-----------------------------------------------------------------------------

\* Members have the authorities of their unit that the profile leaves it.
Right(m) == m.ambient = IF profile = "full" THEN Ambient(m.unit) ELSE {}

\* A build in progress.
Frames == [unit : StdUnits, at : {"body", "take"}]

\* Whatever the script has put into the builds: all but the innermost one are in their bodies,
\* the slot holds what the innermost one is about to take, and what is kept and handed out was
\* built for the profile.
FrameInv ==
    /\ profile \in {"full", "deterministic"}
    /\ DOMAIN cache = StdUnits
    /\ building \in Seq(Frames)
    /\ \A i \in 1 .. Len(building) - 1 : building[i].at = "body"
    /\ building # <<>> /\ Top.at = "take" => Right(stash) /\ stash.unit = Top.unit
    /\ \A u \in StdUnits : cache[u] # Undefined => Right(cache[u]) /\ cache[u].unit = u
    /\ \A h \in handed : Right(h)

\* The source and the bytecode of a unit give it the same members.
LEMMA BuiltForProfile ==
    ASSUME profile \in {"full", "deterministic"}, NEW u \in StdUnits
    PROVE  StdBuild(u).ambient = IF profile = "full" THEN Ambient(u) ELSE {}
  BY DEF StdBuild, UnitBlobs, UnitSource, Deterministic, Ambient

\* The first builds of those in progress.
LEMMA FirstFrames ==
    ASSUME NEW s \in Seq(Frames), NEW k \in 0 .. Len(s)
    PROVE  /\ SubSeq(s, 1, k) \in Seq(Frames) /\ Len(SubSeq(s, 1, k)) = k
           /\ \A i \in 1 .. k : SubSeq(s, 1, k)[i] = s[i]
  OBVIOUS

\* The innermost build, and those around it.
LEMMA TopFrame ==
    ASSUME building \in Seq(Frames), building # <<>>
    PROVE  /\ Len(building) \in Nat \ {0} /\ Top = building[Len(building)] /\ Top \in Frames
           /\ Below \in Seq(Frames) /\ Len(Below) = Len(building) - 1
           /\ \A i \in 1 .. Len(Below) : Below[i] = building[i]
<1>1. Len(building) \in Nat \ {0}
  OBVIOUS
<1>2. Top = building[Len(building)] /\ Top \in Frames
  BY <1>1 DEF Top
<1>3. Len(building) - 1 \in 0 .. Len(building)
  BY <1>1
<1>4. /\ Below \in Seq(Frames) /\ Len(Below) = Len(building) - 1
      /\ \A i \in 1 .. Len(building) - 1 : Below[i] = building[i]
  BY <1>3, FirstFrames, Zenon DEF Below
<1> QED BY <1>1, <1>2, <1>4, Zenon

\* A build that starts when the builds in progress are in their bodies.
LEMMA FrameStarts ==
    ASSUME FrameInv, NEW u \in StdUnits, building # <<>> => Top.at = "body",
           building' = Append(building, [unit |-> u, at |-> "body"]),
           UNCHANGED <<profile, cache, handed>>
    PROVE  FrameInv'
<1> DEFINE f == [unit |-> u, at |-> "body"]
<1>1. building \in Seq(Frames) /\ f \in Frames
  BY DEF FrameInv, Frames
<1>2. f.at = "body"
  OBVIOUS
<1> HIDE DEF f
<1>3. /\ building' \in Seq(Frames) /\ Len(building') = Len(building) + 1
      /\ \A i \in 1 .. Len(building) : building'[i] = building[i]
      /\ building'[Len(building) + 1] = f
  BY <1>1, Appended DEF f
<1>4. \A i \in 1 .. Len(building) : building[i].at = "body"
  <2>1. CASE building = <<>>
    BY <2>1
  <2>2. CASE building # <<>>
    <3>1. building[Len(building)].at = "body" /\ Len(building) \in Nat
      BY <1>1, <2>2, TopFrame
    <3>2. \A i \in 1 .. Len(building) - 1 : building[i].at = "body"
      BY DEF FrameInv
    <3> QED BY <3>1, <3>2
  <2> QED BY <2>1, <2>2
<1>5. Len(building) \in Nat
  BY <1>1
<1>6. \A i \in 1 .. Len(building') - 1 : building'[i].at = "body"
  BY <1>3, <1>4, <1>5
<1>7. Top' = f
  BY <1>3 DEF Top
<1>8. Top'.at # "take"
  BY <1>2, <1>7
<1> QED BY <1>3, <1>6, <1>8, Zenon DEF FrameInv, Right

\* Builds that end, with or without their members.
LEMMA FramesEnd ==
    ASSUME FrameInv, NEW k \in 0 .. Len(building), k < Len(building) \/ k = 0,
           building' = SubSeq(building, 1, k), UNCHANGED profile, DOMAIN cache' = StdUnits,
           \A u \in StdUnits : cache'[u] # Undefined => Right(cache'[u]) /\ cache'[u].unit = u,
           \A h \in handed' : Right(h)
    PROVE  FrameInv'
<1>1. building \in Seq(Frames) /\ \A i \in 1 .. Len(building) - 1 : building[i].at = "body"
  BY DEF FrameInv
<1>2. /\ building' \in Seq(Frames) /\ Len(building') = k
      /\ \A i \in 1 .. k : building'[i] = building[i]
  BY <1>1, FirstFrames
<1>3. \A i \in 1 .. k : building'[i].at = "body"
  BY <1>1, <1>2
<1>4. building' # <<>> => Top'.at = "body"
  BY <1>2, <1>3 DEF Top
<1>5. building' # <<>> => Top'.at # "take"
  BY <1>4
<1>6. \A i \in 1 .. Len(building') - 1 : building'[i].at = "body"
  BY <1>2, <1>3
<1> QED BY <1>2, <1>5, <1>6, Zenon DEF FrameInv, Right

\* Nothing but the build of a unit for the profile ever reaches the slot, the cache or the script.
LEMMA FrameStep ==
    ASSUME FrameInv, SurfaceStart \/ SurfaceStep \/ UNCHANGED surfaceVars
    PROVE  FrameInv'
<1>1. ASSUME UNCHANGED <<profile, cache, building, stash, handed>> PROVE FrameInv'
  BY <1>1, Zenon DEF FrameInv, Right, Top
<1>2. ASSUME NEW unit \in StdUnits, ReadUnbuilt(unit) PROVE FrameInv'
  <2>1. building # <<>> => Top.at = "body"
    BY <1>2, Zenon DEF ReadUnbuilt, Runs
  <2>2. /\ building' = Append(building, [unit |-> unit, at |-> "body"])
        /\ UNCHANGED <<profile, cache, handed>>
    BY <1>2, Zenon DEF ReadUnbuilt, inputVars
  <2> QED BY <2>1, <2>2, FrameStarts, Zenon
<1>3. ASSUME NEW unit \in StdUnits, ReadBuilt(unit) PROVE FrameInv'
  <2>1. UNCHANGED <<profile, cache, building, stash>> /\ handed' = handed \cup {cache[unit]}
    BY <1>3, Zenon DEF ReadBuilt, inputVars
  <2>2. Right(cache[unit])
    BY <1>3, Zenon DEF ReadBuilt, FrameInv
  <2>3. \A h \in handed' : Right(h)
    BY <2>1, <2>2, Zenon DEF FrameInv
  <2> QED BY <2>1, <2>3, Zenon DEF FrameInv, Right, Top
<1>4. CASE BuildNeeded
  <2>1. PICK unit \in Needs(Top.unit) : building' = Append(building, [unit |-> unit, at |-> "body"])
    BY <1>4, Zenon DEF BuildNeeded
  <2>2. unit \in StdUnits
    BY <2>1, ScriptAssumption DEF Needs
  <2>3. Top.at = "body" /\ UNCHANGED <<profile, cache, handed>>
    BY <1>4, Zenon DEF BuildNeeded, inputVars
  <2> QED BY <2>1, <2>2, <2>3, FrameStarts, Zenon
<1>5. CASE BuildBody
  <2> DEFINE f == [Top EXCEPT !.at = "take"]
  <2>1. /\ building # <<>> /\ building' = Append(Below, f)
        /\ UNCHANGED <<profile, cache, handed>>
        /\ stash' = [unit |-> Top.unit, build |-> builds[Top.unit] + 1,
                     ambient |-> StdBuild(Top.unit).ambient]
    BY <1>5, Zenon DEF BuildBody, inputVars
  <2>2. /\ Top \in Frames /\ Below \in Seq(Frames) /\ Len(Below) = Len(building) - 1
        /\ \A i \in 1 .. Len(Below) : Below[i] = building[i]
    BY <2>1, TopFrame, Zenon DEF FrameInv
  <2>3. f \in Frames /\ f.unit = Top.unit /\ Top.unit \in StdUnits
    BY <2>2 DEF Frames
  <2> HIDE DEF f
  <2>4. /\ building' \in Seq(Frames) /\ Len(building') = Len(Below) + 1
        /\ \A i \in 1 .. Len(Below) : building'[i] = Below[i]
        /\ building'[Len(Below) + 1] = f
    BY <2>1, <2>2, <2>3, Appended
  <2>5. \A i \in 1 .. Len(building') - 1 : building'[i].at = "body"
    <3>1. \A i \in 1 .. Len(building) - 1 : building[i].at = "body"
      BY Zenon DEF FrameInv
    <3>2. Len(Below) \in Nat
      BY <2>2
    <3> QED BY <2>2, <2>4, <3>1, <3>2
  <2>6. Top' = f
    BY <2>4 DEF Top
  <2>7. stash'.unit = Top.unit /\ stash'.ambient = StdBuild(Top.unit).ambient
    BY <2>1
  <2>8. Right(stash)' /\ stash'.unit = Top'.unit
    BY <2>1, <2>3, <2>6, <2>7, BuiltForProfile, Zenon DEF Right, FrameInv
  <2> QED BY <2>1, <2>4, <2>5, <2>8, Zenon DEF FrameInv, Right
<1>6. CASE BuildTake
  <2>1. /\ building # <<>> /\ Top.at = "take" /\ UNCHANGED profile /\ building' = Below
        /\ cache' = [cache EXCEPT ![Top.unit] = stash]
        /\ handed' = handed \/ handed' = handed \cup {stash}
    BY <1>6, Zenon DEF BuildTake, inputVars
  <2>2. Len(building) \in Nat \ {0} /\ Top \in Frames
    BY <2>1, TopFrame, Zenon DEF FrameInv
  <2>3. Top.unit \in StdUnits
    BY <2>2 DEF Frames
  <2>4. Right(stash) /\ stash.unit = Top.unit
    BY <2>1, Zenon DEF FrameInv
  <2>5. DOMAIN cache' = StdUnits
    BY <2>1, Zenon DEF FrameInv
  <2>6. cache'[Top.unit] = stash /\ \A u \in StdUnits \ {Top.unit} : cache'[u] = cache[u]
    BY <2>1, <2>3, SMTT(30) DEF FrameInv
  <2>7. ASSUME NEW u \in StdUnits, cache'[u] # Undefined PROVE Right(cache'[u]) /\ cache'[u].unit = u
    <3>1. CASE u = Top.unit
      BY <2>4, <2>6, <3>1, Zenon
    <3>2. CASE u # Top.unit
      BY <2>6, <2>7, <3>2, Zenon DEF FrameInv
    <3> QED BY <3>1, <3>2, Zenon
  <2>8. \A h \in handed' : Right(h)
    BY <2>1, <2>4, Zenon DEF FrameInv
  <2>9. /\ Len(building) - 1 \in 0 .. Len(building) /\ Len(building) - 1 < Len(building)
        /\ building' = SubSeq(building, 1, Len(building) - 1)
    BY <2>1, <2>2 DEF Below
  <2> QED BY <2>1, <2>5, <2>7, <2>8, <2>9, FramesEnd, Zenon
<1>7. ASSUME UNCHANGED <<profile, cache, handed>>,
             NEW k \in 0 .. Len(building), k < Len(building) \/ k = 0, building' = SubSeq(building, 1, k)
      PROVE  FrameInv'
  BY <1>7, FramesEnd, Zenon DEF FrameInv
<1>8. CASE BuildFails
  <2>1. PICK k \in Callers : k < Len(building) /\ building' = SubSeq(building, 1, k)
    BY <1>8, Zenon DEF BuildFails
  <2>2. k \in 0 .. Len(building)
    BY Zenon DEF Callers
  <2> QED BY <1>7, <1>8, <2>1, <2>2, Zenon DEF BuildFails, inputVars
<1>9. CASE RunEnds
  <2>1. 0 \in 0 .. Len(building) /\ SubSeq(building, 1, 0) = <<>>
    <3>1. building \in Seq(Frames)
      BY DEF FrameInv
    <3> QED BY <3>1
  <2> QED BY <1>7, <1>9, <2>1, Zenon DEF RunEnds, inputVars
<1>10. ASSUME NEW name, AssignMember(name) \/ AssignGlobal(name) \/ Reassign(name) PROVE FrameInv'
  BY <1>1, <1>10, Zenon DEF AssignMember, AssignGlobal, Reassign, inputVars, unitVars
<1>11. CASE Inject \/ InjectFails \/ FreezeStd \/ UNCHANGED surfaceVars
  BY <1>1, <1>11, ZenonT(30) DEF Inject, InjectFails, FreezeStd, surfaceVars, inputVars, unitVars
<1> QED
  BY <1>2, <1>3, <1>4, <1>5, <1>6, <1>8, <1>9, <1>10, <1>11, ZenonT(30) DEF SurfaceStart, SurfaceStep

-----------------------------------------------------------------------------

\* The members of a unit that was built for the profile, the last time it was.
Members(u) ==
    [unit |-> u, build |-> builds[u], ambient |-> IF profile = "full" THEN Ambient(u) ELSE {}]

\* A build in progress: its unit is not kept yet, and between the end of its body and the
\* getter's taking them its members, and no other's, are in the slot.
Building(u, at) ==
    /\ at \in {"body", "take"} /\ cache[u] = Undefined
    /\ at = "take" => stash = Members(u)

UnitInv ==
    /\ profile \in {"full", "deterministic"}
    /\ builds \in [StdUnits -> Nat]
    /\ DOMAIN cache = StdUnits /\ cache = [u \in StdUnits |-> cache[u]]
    /\ \/ building = <<>>
       \/ \E u \in StdUnits, at \in {"body", "take"} :
             Building(u, at) /\ building = <<[unit |-> u, at |-> at]>>
       \/ \E at \in {"body", "take"} :
             /\ Building("decimal", at) /\ cache["money"] = Undefined
             /\ building = <<[unit |-> "money", at |-> "body"], [unit |-> "decimal", at |-> at]>>
    /\ \A u \in StdUnits : cache[u] # Undefined => cache[u] = Members(u)
    /\ \A h \in handed : h.unit \in StdUnits /\ h = Members(h.unit) /\ h = cache[h.unit]

\* Members are something.
LEMMA MembersDefined == \A u : Members(u) # Undefined
<1> SUFFICES ASSUME NEW u, Members(u) = Undefined PROVE FALSE
  BY Zenon
<1>1. "unit" \in DOMAIN Members(u)
  BY DEF Members
<1>2. "unit" \notin DOMAIN Undefined
  BY DEF Undefined
<1> QED BY <1>1, <1>2

\* The innermost build, and those around it.
LEMMA Innermost ==
    /\ \A x : building = <<x>> => Top = x /\ Below = <<>>
    /\ \A x, y : building = <<x, y>> => Top = y /\ Below = <<x>>
<1>1. ASSUME NEW x PROVE SubSeq(<<x>>, 1, 0) = <<>>
  OBVIOUS
<1>2. ASSUME NEW x, NEW y PROVE SubSeq(<<x, y>>, 1, 1) = <<x>>
  <2> DEFINE sub == SubSeq(<<x, y>>, 1, 1)
  <2>1. \A i \in 1 .. 1 : <<x, y>>[i] \in {x, y}
    OBVIOUS
  <2>2. sub \in Seq({x, y}) /\ Len(sub) = 1 /\ sub[1] = x
    BY <2>1
  <2> HIDE DEF sub
  <2>3. <<x>> \in Seq({x, y}) /\ Len(<<x>>) = 1 /\ <<x>>[1] = x
    OBVIOUS
  <2>4. \A i \in 1 .. Len(sub) : sub[i] = <<x>>[i]
    BY <2>2, <2>3
  <2>5. sub = <<x>>
    BY <2>2, <2>3, <2>4, SameElements
  <2> QED BY <2>5 DEF sub
<1>3. ASSUME NEW x, building = <<x>> PROVE Top = x /\ Below = <<>>
  BY <1>1, <1>3 DEF Top, Below
<1>4. ASSUME NEW x, NEW y, building = <<x, y>> PROVE Top = y /\ Below = <<x>>
  BY <1>2, <1>4 DEF Top, Below
<1> QED BY <1>3, <1>4

\* A build inside another one.
LEMMA Nested ==
    ASSUME NEW x, NEW y
    PROVE  Append(<<x>>, y) = <<x, y>>
<1> DEFINE app == Append(<<x>>, y)
<1>1. <<x>> \in Seq({x, y}) /\ <<x, y>> \in Seq({x, y})
  OBVIOUS
<1>2. app \in Seq({x, y}) /\ Len(app) = 2 /\ app[1] = x /\ app[2] = y
  BY <1>1, Appended
<1> HIDE DEF app
<1>3. \A i \in 1 .. Len(app) : app[i] = <<x, y>>[i]
  BY <1>2
<1>4. app = <<x, y>>
  BY <1>1, <1>2, <1>3, SameElements, Zenon
<1> QED BY <1>4 DEF app

\* When the body of a unit has run, the members of the other units are what they were, and its
\* own are in the slot.
LEMMA BodyKeeps ==
    ASSUME UnitInv, NEW u \in StdUnits, cache[u] = Undefined, UNCHANGED <<profile, cache, handed>>,
           stash' = [unit |-> u, build |-> builds[u] + 1, ambient |-> StdBuild(u).ambient],
           builds' = [builds EXCEPT ![u] = @ + 1]
    PROVE  /\ builds' \in [StdUnits -> Nat] /\ Building(u, "take")'
           /\ \A w \in StdUnits : cache[w] # Undefined => cache[w] = Members(w)'
           /\ \A h \in handed : h = Members(h.unit)'
<1>1. builds' \in [StdUnits -> Nat] /\ \A w \in StdUnits \ {u} : builds'[w] = builds[w]
  BY DEF UnitInv
<1>2. builds'[u] = builds[u] + 1
  BY Zenon DEF UnitInv
<1>3. \A w \in StdUnits \ {u} : Members(w)' = Members(w)
  BY <1>1 DEF Members
<1>4. stash' = Members(u)'
  <2>1. StdBuild(u).ambient = IF profile' = "full" THEN Ambient(u) ELSE {}
    BY BuiltForProfile, Zenon DEF UnitInv
  <2> QED BY <1>2, <2>1, Zenon DEF Members, Ambient
<1>5. Building(u, "take")'
  BY <1>4, Zenon DEF Building
<1>6. \A w \in StdUnits : cache[w] # Undefined => cache[w] = Members(w)'
  BY <1>3, Zenon DEF UnitInv
<1>7. ASSUME NEW h \in handed PROVE h = Members(h.unit)'
  <2>1. h.unit \in StdUnits /\ h = Members(h.unit) /\ h = cache[h.unit]
    BY ZenonT(30) DEF UnitInv
  <2>2. h.unit # u
    BY <2>1, MembersDefined, Zenon
  <2> QED BY <1>3, <2>1, <2>2, Zenon
<1> QED BY <1>1, <1>5, <1>6, <1>7, Zenon

\* When a getter takes the members of its unit, they are kept for it.
LEMMA TakeKeeps ==
    ASSUME UnitInv, NEW u \in StdUnits, Building(u, "take"), UNCHANGED <<profile, builds>>,
           cache' = [cache EXCEPT ![u] = stash], handed' \in {handed, handed \cup {stash}}
    PROVE  /\ DOMAIN cache' = StdUnits /\ cache' = [w \in StdUnits |-> cache'[w]]
           /\ \A w \in StdUnits \ {u} : cache'[w] = cache[w]
           /\ \A w \in StdUnits : cache'[w] # Undefined => cache'[w] = Members(w)'
           /\ \A h \in handed' : h.unit \in StdUnits /\ h = Members(h.unit)' /\ h = cache'[h.unit]
<1>1. DOMAIN cache' = StdUnits /\ cache' = [w \in StdUnits |-> cache'[w]]
  BY Zenon DEF UnitInv
<1>2. cache'[u] = stash /\ \A w \in StdUnits \ {u} : cache'[w] = cache[w]
  BY SMTT(30) DEF UnitInv
<1>3. stash = Members(u) /\ stash.unit = u
  BY DEF Building, Members
<1>4. \A w : Members(w)' = Members(w)
  BY Zenon DEF Members
<1>5. \A w \in StdUnits : cache'[w] # Undefined => cache'[w] = Members(w)'
  BY <1>2, <1>3, <1>4 DEF UnitInv
<1>6. ASSUME NEW h \in handed PROVE h.unit \in StdUnits /\ h = Members(h.unit)' /\ h = cache'[h.unit]
  <2>1. h.unit \in StdUnits /\ h = Members(h.unit) /\ h = cache[h.unit]
    BY Zenon DEF UnitInv
  <2>2. h.unit # u
    BY <2>1, MembersDefined, Zenon DEF Building
  <2> QED BY <1>2, <1>4, <2>1, <2>2, Zenon
<1> QED BY <1>1, <1>2, <1>3, <1>4, <1>5, <1>6, SMTT(30)

\* As long as the script has replaced nothing, none of its code runs in a build.
LEMMA NothingInterposed ==
    ASSUME replaced = {}
    PROVE  Callers \subseteq {0} /\ (Runs => building = <<>>)
<1>1. \A u : ~Interposed(u)
  BY DEF Interposed
<1> QED BY <1>1, Zenon DEF Callers, Runs

\* In every order of reads, nested builds and failures the slot and the kept members belong to
\* the right unit, and to its last build, as long as the script has replaced nothing.
LEMMA UnitStep ==
    ASSUME UnitInv, SurfaceStart \/ SurfaceStep \/ UNCHANGED surfaceVars, replaced = {}, replaced' = {}
    PROVE  UnitInv'
<1> USE DEF inputVars, spaceVars, unitVars
<1> DEFINE One(u, at) == <<[unit |-> u, at |-> at]>>
           Two(at) == <<[unit |-> "money", at |-> "body"], [unit |-> "decimal", at |-> at]>>
<1>1. "decimal" \in StdUnits /\ "money" \in StdUnits
  BY ScriptAssumption
<1>2. ASSUME UNCHANGED <<profile, builds, cache, building, stash, handed>> PROVE UnitInv'
  BY <1>2, Zenon DEF UnitInv, Building, Members
<1>3. ASSUME UNCHANGED <<profile, builds, cache, handed>>, building' = <<>> PROVE UnitInv'
  BY <1>3, Zenon DEF UnitInv, Members
<1>4. ASSUME NEW u \in StdUnits, NEW at \in {"body", "take"}, UNCHANGED <<profile, builds, cache, handed>>,
             Building(u, at)', building' = One(u, at)
      PROVE  UnitInv'
  BY <1>4, Zenon DEF UnitInv, Members
<1>5. ASSUME NEW unit \in StdUnits, ReadUnbuilt(unit) PROVE UnitInv'
  <2>1. Building(unit, "body")'
    BY <1>5, Zenon DEF ReadUnbuilt, Building
  <2>2. building = <<>>
    BY <1>5, NothingInterposed, Zenon DEF ReadUnbuilt
  <2>3. building' = One(unit, "body")
    <3>1. \A x : Append(<<>>, x) = <<x>>
      OBVIOUS
    <3> QED BY <1>5, <2>2, <3>1, Zenon DEF ReadUnbuilt
  <2> QED BY <1>4, <1>5, <2>1, <2>3, Zenon DEF ReadUnbuilt
<1>6. ASSUME NEW unit \in StdUnits, ReadBuilt(unit) PROVE UnitInv'
  <2>1. cache[unit] = Members(unit) /\ cache[unit].unit = unit
    BY <1>6 DEF UnitInv, ReadBuilt, Members
  <2>2. \A w : Members(w)' = Members(w)
    BY <1>6, Zenon DEF ReadBuilt, Members
  <2>3. \A h \in handed' : h.unit \in StdUnits /\ h = Members(h.unit)' /\ h = cache'[h.unit]
    BY <1>6, <2>1, <2>2, Zenon DEF UnitInv, ReadBuilt
  <2>4. UNCHANGED <<profile, builds, cache, building, stash>> /\ building = <<>>
    BY <1>6, NothingInterposed, Zenon DEF ReadBuilt
  <2> QED BY <2>2, <2>3, <2>4, ZenonT(30) DEF UnitInv
<1>7. CASE BuildNeeded
  <2>1. PICK need \in Needs(Top.unit) : /\ cache[need] = Undefined
                                        /\ building' = Append(building, [unit |-> need, at |-> "body"])
    BY <1>7 DEF BuildNeeded
  <2>2. Top.unit = "money" /\ need = "decimal"
    BY <2>1, ZenonT(30) DEF Needs
  <2>3. PICK u \in StdUnits, at \in {"body", "take"} : Building(u, at) /\ building = One(u, at)
    <3>1. ASSUME NEW at, building = Two(at) PROVE FALSE
      BY <2>2, <3>1, Innermost, SMTT(30)
    <3> QED BY <1>7, <3>1, SMTT(30) DEF UnitInv, BuildNeeded
  <2>4. u = "money" /\ at = "body"
    BY <1>7, <2>2, <2>3, Innermost DEF BuildNeeded
  <2>5. building' = Two("body")
    BY <2>1, <2>2, <2>3, <2>4, Nested, Zenon
  <2>6. Building("decimal", "body")' /\ cache'["money"] = Undefined
    BY <1>7, <2>1, <2>2, <2>3, <2>4, ZenonT(30) DEF Building, BuildNeeded
  <2>7. UNCHANGED <<profile, builds, cache, handed>> /\ \A w : Members(w)' = Members(w)
    BY <1>7 DEF BuildNeeded, Members
  <2> QED BY <2>5, <2>6, <2>7, Zenon DEF UnitInv
<1>8. CASE BuildBody
  <2>1. ASSUME NEW u \in StdUnits, NEW at \in {"body", "take"}, Building(u, at), building = One(u, at)
        PROVE  UnitInv'
    <3>1. Top = [unit |-> u, at |-> at] /\ Below = <<>>
      BY <2>1, Innermost
    <3>2. building' = One(u, "take")
      <4>1. [Top EXCEPT !.at = "take"] = [unit |-> u, at |-> "take"]
        BY <3>1
      <4> QED BY <1>8, <3>1, <4>1 DEF BuildBody
    <3>3. UNCHANGED <<profile, cache, handed>> /\ cache[u] = Undefined
      BY <1>8, <2>1, ZenonT(30) DEF BuildBody, Building
    <3>4. /\ stash' = [unit |-> u, build |-> builds[u] + 1, ambient |-> StdBuild(u).ambient]
          /\ builds' = [builds EXCEPT ![u] = @ + 1]
      BY <1>8, <3>1 DEF BuildBody
    <3>5. /\ builds' \in [StdUnits -> Nat] /\ Building(u, "take")'
          /\ \A w \in StdUnits : cache[w] # Undefined => cache[w] = Members(w)'
          /\ \A h \in handed : h = Members(h.unit)'
      BY <3>3, <3>4, BodyKeeps, ZenonT(30)
    <3> QED BY <3>2, <3>3, <3>5, Zenon DEF UnitInv
  <2>2. ASSUME NEW at \in {"body", "take"}, Building("decimal", at), cache["money"] = Undefined,
               building = Two(at)
        PROVE  UnitInv'
    <3>1. Top = [unit |-> "decimal", at |-> at] /\ Below = One("money", "body")
      BY <2>2, Innermost
    <3>2. building' = Two("take")
      <4>1. [Top EXCEPT !.at = "take"] = [unit |-> "decimal", at |-> "take"]
        BY <3>1
      <4> QED BY <1>8, <3>1, <4>1, Nested DEF BuildBody
    <3>3. UNCHANGED <<profile, cache, handed>> /\ cache["decimal"] = Undefined
      BY <1>8, <2>2, ZenonT(30) DEF BuildBody, Building
    <3>4. /\ stash' = [unit |-> "decimal", build |-> builds["decimal"] + 1,
                       ambient |-> StdBuild("decimal").ambient]
          /\ builds' = [builds EXCEPT !["decimal"] = @ + 1]
      BY <1>8, <3>1 DEF BuildBody
    <3>5. /\ builds' \in [StdUnits -> Nat] /\ Building("decimal", "take")'
          /\ \A w \in StdUnits : cache[w] # Undefined => cache[w] = Members(w)'
          /\ \A h \in handed : h = Members(h.unit)'
      BY <1>1, <3>3, <3>4, BodyKeeps, Zenon
    <3> QED BY <2>2, <3>2, <3>3, <3>5, SMTT(30) DEF UnitInv
  <2> QED BY <1>8, <2>1, <2>2, ZenonT(30) DEF UnitInv, BuildBody
<1>9. CASE BuildTake
  <2>1. ASSUME NEW u \in StdUnits, NEW at \in {"body", "take"}, Building(u, at), building = One(u, at)
        PROVE  UnitInv'
    <3>1. Top = [unit |-> u, at |-> at] /\ Below = <<>>
      BY <2>1, Innermost
    <3>2. Building(u, "take") /\ building' = <<>>
      BY <1>9, <2>1, <3>1, Zenon DEF BuildTake
    <3>3. /\ UNCHANGED <<profile, builds>> /\ cache' = [cache EXCEPT ![u] = stash]
          /\ handed' \in {handed, handed \cup {stash}}
      BY <1>9, <3>1 DEF BuildTake
    <3>4. /\ DOMAIN cache' = StdUnits /\ cache' = [w \in StdUnits |-> cache'[w]]
          /\ \A w \in StdUnits : cache'[w] # Undefined => cache'[w] = Members(w)'
          /\ \A h \in handed' : h.unit \in StdUnits /\ h = Members(h.unit)' /\ h = cache'[h.unit]
      BY <3>2, <3>3, TakeKeeps, Zenon
    <3> QED BY <3>2, <3>3, <3>4, Zenon DEF UnitInv
  <2>2. ASSUME NEW at \in {"body", "take"}, Building("decimal", at), cache["money"] = Undefined,
               building = Two(at)
        PROVE  UnitInv'
    <3>1. Top = [unit |-> "decimal", at |-> at] /\ Below = One("money", "body")
      BY <2>2, Innermost
    <3>2. Building("decimal", "take") /\ building' = One("money", "body")
      BY <1>9, <2>2, <3>1, SMTT(30) DEF BuildTake
    <3>3. /\ UNCHANGED <<profile, builds>> /\ cache' = [cache EXCEPT !["decimal"] = stash]
          /\ handed' \in {handed, handed \cup {stash}}
      BY <1>9, <3>1 DEF BuildTake
    <3>4. /\ DOMAIN cache' = StdUnits /\ cache' = [w \in StdUnits |-> cache'[w]]
          /\ \A w \in StdUnits \ {"decimal"} : cache'[w] = cache[w]
          /\ \A w \in StdUnits : cache'[w] # Undefined => cache'[w] = Members(w)'
          /\ \A h \in handed' : h.unit \in StdUnits /\ h = Members(h.unit)' /\ h = cache'[h.unit]
      BY <1>1, <3>2, <3>3, TakeKeeps, Zenon
    <3>5. Building("money", "body")'
      BY <1>1, <2>2, <3>4 DEF Building
    <3> QED BY <1>1, <3>2, <3>3, <3>4, <3>5, ZenonT(30) DEF UnitInv
  <2> QED BY <1>9, <2>1, <2>2, ZenonT(30) DEF UnitInv, BuildTake
<1>10. CASE BuildFails \/ RunEnds
  <2>1. ASSUME BuildFails PROVE building' = <<>>
    <3>1. building' = SubSeq(building, 1, 0)
      BY <2>1, NothingInterposed, Zenon DEF BuildFails
    <3> QED BY <3>1
  <2> QED BY <1>3, <1>10, <2>1, Zenon DEF BuildFails, RunEnds
<1>11. ASSUME NEW name, AssignMember(name) \/ AssignGlobal(name) \/ Reassign(name) PROVE UnitInv'
  BY <1>2, <1>11, ZenonT(30) DEF AssignMember, AssignGlobal, Reassign
<1>12. CASE Inject \/ InjectFails \/ FreezeStd \/ UNCHANGED surfaceVars
  BY <1>2, <1>12 DEF Inject, InjectFails, FreezeStd, surfaceVars
<1> QED
  BY <1>5, <1>6, <1>7, <1>8, <1>9, <1>10, <1>11, <1>12, ZenonT(30) DEF SurfaceStart, SurfaceStep

\* What a script has replaced stays so.
LEMMA ReplacedGrows ==
    ASSUME SurfaceStart \/ SurfaceStep \/ UNCHANGED surfaceVars, replaced' = {}
    PROVE  replaced = {}
<1> USE DEF inputVars, spaceVars
<1>1. ASSUME NEW unit, ReadUnbuilt(unit) \/ ReadBuilt(unit) PROVE UNCHANGED replaced
  BY <1>1, Zenon DEF ReadUnbuilt, ReadBuilt
<1>2. ASSUME NEW name, AssignMember(name) \/ AssignGlobal(name) PROVE UNCHANGED replaced
  BY <1>2, Zenon DEF AssignMember, AssignGlobal
<1>3. ASSUME NEW what, Reassign(what) PROVE FALSE
  BY <1>3, Zenon DEF Reassign
<1>4. CASE BuildNeeded \/ BuildBody \/ BuildTake \/ BuildFails
  BY <1>4, Zenon DEF BuildNeeded, BuildBody, BuildTake, BuildFails
<1>5. CASE Inject \/ InjectFails \/ FreezeStd \/ RunEnds
  BY <1>5, Zenon DEF Inject, InjectFails, FreezeStd, RunEnds
<1>6. CASE UNCHANGED surfaceVars
  BY <1>6, Zenon DEF surfaceVars
<1> QED BY <1>1, <1>2, <1>3, <1>4, <1>5, <1>6, Zenon DEF SurfaceStart, SurfaceStep

\* Whatever a script replaces, and for any set of units: what getters return was built for the
\* profile, a unit's getter keeps members of its own unit, a deterministic run finds no
\* capability, and where the lock is on no global differs from $std.  As long as it replaces
\* nothing, getters return the same members every time, and the handler finds the lock on
\* (std_lazy.js, inject_apis, std_freeze.js).
THEOREM ScriptSurface == ScriptSpec => []SurfaceSound
<1> DEFINE Inv == StageInv /\ FrameInv /\ (replaced = {} => UnitInv)
<1>1. ScriptInit => Inv
  <2> SUFFICES ASSUME SurfaceInit PROVE Inv
    BY DEF ScriptInit
  <2>1. StageInv
    BY DEF SurfaceInit, StageInv
  <2>2. /\ builds \in [StdUnits -> Nat] /\ DOMAIN cache = StdUnits
        /\ \A u \in StdUnits : cache[u] = Undefined
    BY DEF SurfaceInit
  <2>3. cache = [u \in StdUnits |-> cache[u]]
    BY DEF SurfaceInit
  <2>4. building = <<>> /\ handed = {} /\ profile \in {"full", "deterministic"}
    BY DEF SurfaceInit
  <2>5. <<>> \in Seq(Frames) /\ \A i \in 1 .. Len(<<>>) - 1 : FALSE
    OBVIOUS
  <2>6. FrameInv
    BY <2>2, <2>4, <2>5, Zenon DEF FrameInv
  <2> QED BY <2>1, <2>2, <2>3, <2>4, <2>6, Zenon DEF UnitInv
<1>2. Inv /\ [ScriptNext]_scriptVars => Inv'
  BY ScriptParts, StageStep, FrameStep, UnitStep, ReplacedGrows, Zenon
<1>3. ASSUME Inv PROVE SurfaceSound
  <2>1. \A m \in handed \cup {cache[u] : u \in {v \in StdUnits : cache[v] # Undefined}} : Right(m)
    BY <1>3, Zenon DEF FrameInv
  <2>2. \A u \in StdUnits : cache[u] # Undefined => cache[u].unit = u
    BY <1>3, Zenon DEF FrameInv
  <2>3. replaced = {} => \A a, b \in handed : a.unit = b.unit => a = b
    BY <1>3, Zenon DEF UnitInv
  <2>4. profile = "deterministic" =>
          (\A h \in handed : h.ambient = {}) /\ ~\E c \in {"io", "http", "s3"} : Has(c)
    <3>1. ASSUME NEW h \in handed, profile = "deterministic" PROVE h.ambient = {}
      <4>1. Right(h) /\ profile # "full"
        BY <1>3, <3>1 DEF FrameInv
      <4> QED BY <4>1, Zenon DEF Right
    <3> QED BY <1>3, <3>1, Zenon DEF StageInv, Has
  <2> QED BY <1>3, <2>1, <2>2, <2>3, <2>4, Zenon DEF SurfaceSound, StageInv, Right
<1> QED BY <1>1, <1>2, <1>3, PTL DEF ScriptSpec
=============================================================================
