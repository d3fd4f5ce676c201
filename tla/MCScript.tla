------------------------------ MODULE MCScript ------------------------------
(***************************************************************************)
(* A script and what it finds under $std: the surface and the capabilities *)
(* that call out, amounts of money, or dates.  A behaviour has to do with  *)
(* one of the three, which share no state.                                 *)
(***************************************************************************)
EXTENDS Script, MCValues

Public == <<9, 9, 9, 9>>
Private == <<10, 0, 0, 8>>
\* 64:ff9b::10.0.0.8, ::ffff:10.0.0.8, 2002:a00:8::, fd00::1 and 2600::1
Translated == <<0, 100, 255, 155, 0, 0, 0, 0, 0, 0, 0, 0, 10, 0, 0, 8>>
Mapped == <<0, 0, 0, 0, 0, 0, 0, 0, 0, 0, 255, 255, 10, 0, 0, 8>>
SixToFourPrivate == <<32, 2, 10, 0, 0, 8, 0, 0, 0, 0, 0, 0, 0, 0, 0, 0>>
UniqueLocal == <<253, 0, 0, 0, 0, 0, 0, 0, 0, 0, 0, 0, 0, 0, 0, 1>>
PublicV6 == <<38, 0, 0, 0, 0, 0, 0, 0, 0, 0, 0, 0, 0, 0, 0, 1>>
MCInternal == {Private, Translated, Mapped, SixToFourPrivate, UniqueLocal}

\* Boundaries of the blocks that are internal.
ASSUME ClassifierAgrees ==
    /\ ~IsPrivateIp(Public) /\ ~IsPrivateIp(PublicV6)
    /\ \A a \in {<<172, 16, 0, 0>>, <<172, 31, 255, 255>>, <<100, 64, 0, 0>>, <<100, 127, 255, 255>>,
                 <<192, 168, 0, 0>>, <<169, 254, 169, 254>>, <<127, 0, 0, 1>>, <<0, 0, 0, 0>>,
                 <<224, 0, 0, 1>>, <<255, 255, 255, 255>>} : IsPrivateIp(a)
    /\ \A a \in {<<172, 15, 255, 255>>, <<172, 32, 0, 0>>, <<100, 63, 255, 255>>, <<100, 128, 0, 0>>,
                 <<192, 167, 0, 1>>, <<11, 0, 0, 1>>, <<223, 255, 255, 255>>} : ~IsPrivateIp(a)

MCLiteral ==
    [h \in {"10.0.0.8", "9.9.9.9", "[fd00::1]"} |->
        CASE h = "9.9.9.9" -> Public [] h = "10.0.0.8" -> Private [] h = "[fd00::1]" -> UniqueLocal]
MCLookups ==
    [h \in {"api", "web", "box", "bucket.web", "bucket.box"} |->
        CASE h \in {"api", "bucket.web"} -> {{Public}, {Private}, {PublicV6, Translated}, {}}
          [] h = "web" -> {{Public, PublicV6}}
          [] h \in {"box", "bucket.box"} -> {{Private}, {Mapped, UniqueLocal}, {SixToFourPrivate}}]

Url(scheme, host, port) == [scheme |-> scheme, host |-> host, port |-> port]
MCUrls ==
    {Url("https", "api", 443), Url("http", "web", 80), Url("http", "box", 80), Url("http", "box", 8000),
     Url("http", "10.0.0.8", 80), Url("http", "9.9.9.9", 80), Url("http", "[fd00::1]", 80),
     Url("ftp", "web", 21), Url("", "web", 0)}

Entry(host, port) == [host |-> host, port |-> port]
MCAllowLists ==
    {{}, {Entry("api", 0)}, {Entry("web", 0), Entry("box", 8000)}, {Entry("*", 0)},
     {Entry("10.0.0.8", 0), Entry("api", 443)}}

MCS3Configs ==
    [scheme : {"https"}, endpoint : {"web"}, path_style : BOOLEAN, expires : {9}, max_expires : {0, 5},
     max_upload_size : {0, 2}, allow_delete : BOOLEAN, secret_key : {"k"}, allow_private : {FALSE}]
    \cup
    [scheme : {"http", "file"}, endpoint : {"box"}, path_style : BOOLEAN, expires : {3},
     max_expires : {5}, max_upload_size : {2}, allow_delete : {TRUE}, secret_key : {"k"},
     allow_private : BOOLEAN]
MCVirtualHost == [h \in {"web", "box"} |-> IF h = "web" THEN "bucket.web" ELSE "bucket.box"]

MCKeys == 1 .. 3
MCPrefixes == {MCKeys, {2, 3}}
MCLifetimes == {-1, 0, 7}
MCReplaceable(o) == IF o = {} THEN {"freeze", "defineProperty", "$std"} ELSE {}
MCTurns(o) == IF "s3" \in o THEN 2 ELSE 3
MCUnits == {"decimal", "money", "sys", "datetime"}

-----------------------------------------------------------------------------
\* A capability that is not offered has nothing to vary; a bucket with objects is met with one
\* configuration, and together with http with none.
PlainConfig ==
    /\ s3Config.path_style /\ s3Config.scheme # "file"
    /\ s3Config.endpoint = (IF policy.allow_private THEN "box" ELSE "web")
    /\ s3Config.max_expires = 5 /\ s3Config.max_upload_size = 2 /\ s3Config.allow_delete

MCScriptInit ==
    /\ ScriptInit
    /\ offered \cap {"http", "s3"} # {} => precompiled /\ "io" \notin offered
    /\ policy.wildcard_allowed => AnyHost \in policy.allowed
    /\ policy.allow_private => policy.allowed \in {{}, {Entry("api", 0)}}
    /\ "s3" \notin offered => objects = <<>> /\ PlainConfig
    /\ objects # <<>> => PlainConfig /\ ~policy.allow_private /\ policy.allowed = {}
    /\ {"http", "s3"} \subseteq offered => policy.allowed = {Entry("api", 0)} /\ PlainConfig

\* An execution of the script, or work with values, beside one that has not begun.
Values == <<vars, datetimeVars>>

OneDate == value = DateTime(LeapDay.day * Day, "")

NotBegun ==
    /\ policy = [allowed |-> {}, allow_private |-> FALSE, wildcard_allowed |-> FALSE]
    /\ profile = "full" /\ precompiled = TRUE /\ offered = {} /\ objects = <<>>

ProgramInit ==
    \/ OneDate /\ ValuesInit /\ MCScriptInit
    \/ NotBegun /\ MCScriptInit /\ ValuesInit

ProgramNext ==
    \/ calls = 0 /\ ops = 0 /\ OneDate /\ ScriptNext /\ UNCHANGED Values
    \/ stage = "bootstrap" /\ NotBegun /\ ValuesNext /\ UNCHANGED scriptVars

ProgramSpec == ProgramInit /\ [][ProgramNext]_<<scriptVars, Values>>
=============================================================================
