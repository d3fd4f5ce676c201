----------------------------- MODULE StdSurface -----------------------------
(***************************************************************************)
(* What a script finds under $std: the order in which the engine injects   *)
(* it (engine/mod.rs, engine/inject.rs), the members that are built when   *)
(* they are first read (js/std_lazy.js), and the lock before the handler   *)
(* runs (js/std_freeze.js).                                                *)
(*                                                                         *)
(* A unit is built by native code that leaves its members in one global    *)
(* slot, from where the getter takes them; building a unit may read, and   *)
(* so build, another one.  A build can fail when memory runs out, which a  *)
(* script may catch, and try again.                                        *)
(*                                                                         *)
(* A script may replace Object.freeze, Object.defineProperty and $std      *)
(* itself, whose binding is an ordinary one.  The lock then does not do    *)
(* its work, and some builds call code of the script, which may do what    *)
(* the script may do elsewhere.  Scripts leave the other intrinsics, and   *)
(* the engine's own globals, whose names start with two underscores,       *)
(* alone.                                                                  *)
(***************************************************************************)
EXTENDS Integers, Sequences

CONSTANTS
    StdUnits,       \* the units of value utilities, "decimal", "money", "sys", "datetime" in them
    Replaceable(_)  \* bound: what a script that is offered some capabilities may replace

VARIABLES
    profile,        \* ExecParams.profile
    precompiled,    \* ExecParams.surface is Some
    offered,        \* the capabilities the invocation configures, of "io", "http", "s3"
    stage,          \* where engine::run is
    std,            \* eager member of $std -> who it comes from
    accessors,      \* the lazy getters are installed
    globals,        \* exposed global -> who it comes from
    replaced,       \* what the script has replaced, of "freeze", "defineProperty" and "$std"
    locked,         \* the engine's $std is frozen
    pinned,         \* the exposed globals are locked
    building,       \* the builds in progress, the innermost last
    stash,          \* globalThis.__stdBuilt
    cache,          \* unit -> what its getters return
    makers,         \* globalThis.__sysMakeSecrets is defined
    builds,         \* unit -> builds that ran to their end (history)
    handed          \* what the script was given by a getter (history)

inputVars == <<profile, precompiled, offered>>
spaceVars == <<stage, std, accessors, globals, replaced, locked, pinned>>
unitVars == <<building, stash, cache, makers, builds, handed>>
surfaceVars == <<inputVars, spaceVars, unitVars>>

Undefined == [is |-> "undefined"]

SurfaceInit ==
    /\ profile \in {"full", "deterministic"} /\ precompiled \in BOOLEAN
    /\ offered \in SUBSET {"io", "http", "s3"}
    /\ stage = "bootstrap" /\ std = <<>> /\ accessors = FALSE /\ globals = <<>>
    /\ replaced = {} /\ locked = FALSE /\ pinned = FALSE /\ building = <<>> /\ stash = Undefined
    /\ cache = [u \in StdUnits |-> Undefined] /\ makers = FALSE
    /\ builds = [u \in StdUnits |-> 0] /\ handed = {}

Deterministic == profile = "deterministic"

-----------------------------------------------------------------------------

\* Adds eager members to a table of them.
With(table, names) ==
    [n \in DOMAIN table \cup names |-> IF n \in names THEN "engine" ELSE table[n]]

\* inject_apis: the profile decides, whatever the invocation configures.
Apis == IF Deterministic THEN {} ELSE offered \cap {"http", "s3"}

\* inject_registry, called for the full profile only.
Registry == IF Deterministic THEN {} ELSE offered \cap {"io"}

\* One injection of engine::run after the other.
Inject ==
    /\ \/ stage = "bootstrap" /\ stage' = "bridge" /\ UNCHANGED <<std, accessors, globals>>
       \/ /\ stage = "bridge" /\ stage' = "lazy"
          /\ std' = With(std, {"json"}) /\ UNCHANGED <<accessors, globals>>
       \/ /\ stage = "lazy" /\ stage' = "channels"
          /\ accessors' = TRUE /\ UNCHANGED <<std, globals>>
       \/ /\ stage = "channels" /\ stage' = "capabilities"
          /\ std' = With(std, {"emit", "log"}) /\ UNCHANGED <<accessors, globals>>
       \/ /\ stage = "capabilities" /\ stage' = "project"
          /\ std' = With(std, Registry \cup Apis) /\ UNCHANGED <<accessors, globals>>
       \/ /\ stage = "project" /\ stage' = "eval"
          /\ globals' = [g \in {"json", "log", "emit"} |-> std[g]] /\ UNCHANGED <<std, accessors>>
    /\ UNCHANGED <<inputVars, replaced, locked, pinned, unitVars>>

\* An injection fails: the run ends with an internal error, and no code of the script has run.
InjectFails ==
    /\ stage \in {"bootstrap", "bridge", "lazy", "channels", "capabilities", "project"}
    /\ stage' = "done"
    /\ UNCHANGED <<inputVars, std, accessors, globals, replaced, locked, pinned, unitVars>>

-----------------------------------------------------------------------------

\* The authorities that a unit has on top of its pure functions.
Ambient(unit) == CASE unit = "datetime" -> {"now"} [] unit = "sys" -> {"uuid"} [] OTHER -> {}

\* Mutant: the source of a unit is built for every profile alike.
UnitSourceUnpruned(unit) == [unit |-> unit, ambient |-> Ambient(unit)]

\* build_unit_sources: the prune is part of the source.
UnitSource(unit) == [unit |-> unit, ambient |-> IF Deterministic THEN {} ELSE Ambient(unit)]

\* build_unit_blobs: compiled once for both profiles, datetime once for each; sys never is.
UnitBlobs ==
    [u \in IF precompiled THEN StdUnits \ {"sys"} ELSE {} |->
        [unit |-> u, ambient |-> IF u = "datetime" /\ Deterministic THEN {} ELSE Ambient(u)]]

\* __stdBuild: the bytecode if there is one for the key, else the source.
StdBuild(unit) == IF unit \in DOMAIN UnitBlobs THEN UnitBlobs[unit] ELSE UnitSource(unit)

\* js/money.js reads $std.decimal while it is built.
Needs(unit) == IF unit = "money" /\ "$std" \notin replaced THEN {"decimal"} ELSE {}

\* Code of the script runs in the body of a unit: sys calls defineProperty, and freeze for the
\* secrets, and what the script has bound to $std may have a getter for decimal.
Interposed(unit) ==
    \/ unit = "sys" /\ replaced \cap {"freeze", "defineProperty"} # {}
    \/ unit = "money" /\ "$std" \in replaced

Top == building[Len(building)]
Below == SubSeq(building, 1, Len(building) - 1)

\* The depths of nesting at which code of the script has called a getter.
Callers == {k \in 0 .. Len(building) : k = 0 \/ Interposed(building[k].unit)}

\* Script code runs: the top level, then the handler, or what either has put into a build.
Runs ==
    /\ stage \in {"eval", "handler"}
    /\ building # <<>> => Top.at = "body" /\ Interposed(Top.unit)

\* A getter of a unit that is not built yet starts its build.
ReadUnbuilt(unit) ==
    /\ Runs /\ cache[unit] = Undefined
    /\ building' = Append(building, [unit |-> unit, at |-> "body"])
    /\ UNCHANGED <<inputVars, spaceVars, stash, cache, makers, builds, handed>>

\* ... and returns the memoized members of one that is.
ReadBuilt(unit) ==
    /\ Runs /\ cache[unit] # Undefined
    /\ handed' = handed \cup {cache[unit]}
    /\ UNCHANGED <<inputVars, spaceVars, building, stash, cache, makers, builds>>

\* The body of a unit reads one that it needs.
BuildNeeded ==
    /\ building # <<>> /\ Top.at = "body"
    /\ \E unit \in Needs(Top.unit) :
          /\ cache[unit] = Undefined
          /\ building' = Append(building, [unit |-> unit, at |-> "body"])
    /\ UNCHANGED <<inputVars, spaceVars, stash, cache, makers, builds, handed>>

\* The body of a unit can end: what it needs is built, and a property it defines on the global
\* object, which can be defined once, is not there yet.
BodyEnds(unit) ==
    /\ \A n \in Needs(unit) : cache[n] # Undefined
    /\ unit = "sys" /\ "defineProperty" \notin replaced => ~makers

\* The property is there when the body has run, if it was really defined.
Defines(unit) ==
    IF unit # "sys" THEN {makers}
    ELSE IF "defineProperty" \in replaced THEN {makers, TRUE} ELSE {TRUE}

\* shadow_src: the members go to the slot when the body has run.
BuildBody ==
    /\ building # <<>> /\ Top.at = "body" /\ BodyEnds(Top.unit)
    /\ stash' = [unit |-> Top.unit, build |-> builds[Top.unit] + 1,
                 ambient |-> StdBuild(Top.unit).ambient]
    /\ makers' \in Defines(Top.unit)
    /\ builds' = [builds EXCEPT ![Top.unit] = @ + 1]
    /\ building' = Append(Below, [Top EXCEPT !.at = "take"])
    /\ UNCHANGED <<inputVars, spaceVars, cache, handed>>

\* ensure: the slot is read and cleared, its members are frozen and kept, over those that a
\* build of the unit inside this one has kept.  The getter that the script called hands them out.
BuildTake ==
    /\ building # <<>> /\ Top.at = "take"
    /\ cache' = [cache EXCEPT ![Top.unit] = stash]
    /\ stash' = Undefined
    /\ building' = Below
    /\ handed' = IF Len(Below) \in Callers THEN handed \cup {stash} ELSE handed
    /\ UNCHANGED <<inputVars, spaceVars, makers, builds>>

\* An exception in a build leaves the builds in progress, up to code of the script that catches
\* it; it may come before or after the body has defined its global, and before or after the slot
\* is cleared.
BuildFails ==
    /\ building # <<>>
    /\ \E k \in Callers : k < Len(building) /\ building' = SubSeq(building, 1, k)
    /\ stash' \in IF Top.at = "take" THEN {stash, Undefined} ELSE {stash}
    /\ makers' \in IF Top.at = "body" THEN {makers} \cup Defines(Top.unit) ELSE {makers}
    /\ UNCHANGED <<inputVars, spaceVars, cache, builds, handed>>

-----------------------------------------------------------------------------

\* Assignments to eager members of $std and to exposed globals, which the lock turns into errors.
AssignMember(name) ==
    /\ Runs /\ ~locked /\ std[name] # "script"
    /\ std' = [std EXCEPT ![name] = "script"]
    /\ UNCHANGED <<inputVars, stage, accessors, globals, replaced, locked, pinned, unitVars>>

AssignGlobal(name) ==
    /\ Runs /\ ~pinned /\ globals[name] # "script"
    /\ globals' = [globals EXCEPT ![name] = "script"]
    /\ UNCHANGED <<inputVars, stage, std, accessors, replaced, locked, pinned, unitVars>>

\* Assignments that nothing turns into errors, before the lock or after.
Reassign(what) ==
    /\ Runs /\ what \notin replaced
    /\ replaced' = replaced \cup {what}
    /\ UNCHANGED <<inputVars, stage, std, accessors, globals, locked, pinned, unitVars>>

\* std_freeze.js: the exposed globals are bound to the members of $std again, whatever that is now.
Repinned == [g \in DOMAIN globals |-> IF "$std" \in replaced THEN "script" ELSE std[g]]

\* The top level ends; harden and freeze_std, with freeze and defineProperty as they are now.
FreezeStd ==
    /\ stage = "eval" /\ building = <<>>
    /\ stage' = "handler"
    /\ locked' = (replaced \cap {"freeze", "$std"} = {})
    /\ pinned' = ("defineProperty" \notin replaced)
    /\ globals' = IF pinned' THEN Repinned ELSE globals
    /\ UNCHANGED <<inputVars, std, accessors, replaced, unitVars>>

\* The handler returns, or the top level or the handler throws or is interrupted, in a build or
\* not; or what the lock calls throws.
RunEnds ==
    /\ stage \in {"eval", "handler"} /\ stage' = "done"
    /\ building' = <<>>
    /\ UNCHANGED <<inputVars, std, accessors, globals, replaced, locked, pinned,
                   stash, cache, makers, builds, handed>>

\* What a script does by itself, and what follows from it.
SurfaceStart ==
    \/ \E unit \in StdUnits : ReadUnbuilt(unit) \/ ReadBuilt(unit)
    \/ \E name \in DOMAIN std : AssignMember(name)
    \/ \E name \in DOMAIN globals : AssignGlobal(name)
    \/ \E what \in Replaceable(offered) : Reassign(what)

SurfaceStep ==
    \/ Inject \/ InjectFails \/ FreezeStd \/ RunEnds
    \/ BuildNeeded \/ BuildBody \/ BuildTake \/ BuildFails
=============================================================================
