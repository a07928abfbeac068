----------------------------- MODULE Registries -----------------------------
(***************************************************************************)
(* The registries that services and the SDK read through copies of what    *)
(* they hold, side by side: memory fields, rules, capability definitions,  *)
(* the change log and the catalog of an SDK process.  No step of one       *)
(* touches the state of another, so one of them runs from the start and    *)
(* the others do not: every state of every component is reached as it      *)
(* would be beside the others.                                             *)
(*                                                                         *)
(* A variable of a component has its own name here, or the component's     *)
(* name for short before it where another one has a variable of that name. *)
(***************************************************************************)
EXTENDS SchemaRegistry

CONSTANTS
    \* rules
    Txn, RuleOp, MaxFields,
    \* capabilities, whose requests are those of the fields
    Body,
    \* change log, under the canal_enabled of the fields
    Forward, ApiPublish, MaxChanges, MaxCrashes, MaxErrors, Batch, MaxLen,
    \* SDK
    Thread, Name, Calls, PageSize, MaxRows, MaxDeletes

VARIABLES
    part,   \* the component that runs, from the start
    rows, ruleField, step, ruleOp, snap, bound, crowded,
    capRows, capCache, capStep, capOp, cached, capSnap, cur,
    topic, offset, pos, phase, marks, logCache, stream, client, changes, crashes,
    errors, failed, expired,
    sdkRows, ids, deletes, newest, ruleVersions, sdkEvents, sdkCache, catalog, sdkPc, call,
    got, acc, sdkOffset, seen, refused, torn, steady

Rules == INSTANCE RuleStore WITH Op <- RuleOp, field <- ruleField, op <- ruleOp

Caps == INSTANCE CapabilityStore WITH
    rows <- capRows, cache <- capCache, step <- capStep, op <- capOp, snap <- capSnap

Log == INSTANCE SchemaChangelog WITH cache <- logCache

Sdk == INSTANCE SdkCatalog WITH
    rows <- sdkRows, rules <- ruleVersions, events <- sdkEvents, cache <- sdkCache,
    pc <- sdkPc, offset <- sdkOffset

ASSUME RegistriesOK == Rules!OpsOK /\ Log!LogOK /\ Sdk!SdkOK

ruleVars == <<rows, ruleField, step, ruleOp, snap, bound, crowded>>
capVars  == <<capRows, capCache, capStep, capOp, cached, capSnap, cur>>
logVars  == <<topic, offset, pos, phase, marks, logCache, stream, client, changes,
              crashes, errors, failed, expired>>
sdkVars  == <<sdkRows, ids, deletes, newest, ruleVersions, sdkEvents, sdkCache, catalog,
              sdkPc, call, got, acc, sdkOffset, seen, refused, torn, steady>>
allVars  == <<part, vars, ruleVars, capVars, logVars, sdkVars>>

-----------------------------------------------------------------------------
\* A component that does not run has no state.
RulesIdle ==
    /\ rows = None /\ ruleField = None /\ step = None /\ ruleOp = None /\ snap = None
    /\ bound = None /\ crowded = None

CapabilitiesIdle ==
    /\ capRows = None /\ capCache = None /\ capStep = None /\ capOp = None
    /\ cached = None /\ capSnap = None /\ cur = None

LogIdle ==
    /\ topic = None /\ offset = None /\ pos = None /\ phase = None /\ marks = None
    /\ logCache = None /\ stream = None /\ client = None /\ changes = None
    /\ crashes = None /\ errors = None /\ failed = None /\ expired = None

SdkIdle ==
    /\ sdkRows = None /\ ids = None /\ deletes = None /\ newest = None
    /\ ruleVersions = None /\ sdkEvents = None /\ sdkCache = None /\ catalog = None /\ sdkPc = None
    /\ call = None /\ got = None /\ acc = None /\ sdkOffset = None /\ seen = None
    /\ refused = None /\ torn = None /\ steady = None

RegistriesInit ==
    /\ part \in {"fields", "rules", "capabilities", "log", "sdk"}
    /\ Init
    /\ IF part = "rules" THEN Rules!Init ELSE RulesIdle
    /\ IF part = "capabilities" THEN Caps!Init ELSE CapabilitiesIdle
    /\ IF part = "log" THEN Log!Init ELSE LogIdle
    /\ IF part = "sdk" THEN Sdk!Init ELSE SdkIdle

RegistriesNext ==
    /\ UNCHANGED part
    /\ \/ part = "fields" /\ Next /\ UNCHANGED <<ruleVars, capVars, logVars, sdkVars>>
       \/ part = "rules" /\ Rules!Next /\ UNCHANGED <<vars, capVars, logVars, sdkVars>>
       \/ part = "capabilities" /\ Caps!Next
          /\ UNCHANGED <<vars, ruleVars, logVars, sdkVars>>
       \/ part = "log" /\ Log!Next /\ UNCHANGED <<vars, ruleVars, capVars, sdkVars>>
       \/ part = "sdk" /\ Sdk!Next /\ UNCHANGED <<vars, ruleVars, capVars, logVars>>

RegistriesSpec == RegistriesInit /\ [][RegistriesNext]_allVars

-----------------------------------------------------------------------------
(* Properties, each of the component that it names *)

\* Every variable of the component that runs stays in its domain.
RegistriesTypeOK ==
    /\ TypeOK
    /\ part = "rules" => Rules!TypeOK
    /\ part = "capabilities" => Caps!TypeOK
    /\ part = "log" => Log!TypeOK
    /\ part = "sdk" => Sdk!TypeOK

OneActive          == part = "rules" => Rules!OneActive
OneRetrieveRule    == part = "rules" => Rules!OneRetrieveRule
CapabilityServed   == part = "capabilities" => Caps!CapabilityServed
ChangesArrive      == part = "log" => Log!ChangesArrive
SubscribersInOrder == part = "log" => Log!SubscribersInOrder
CacheFollows       == part = "sdk" => Sdk!CacheFollows
CallersAgree       == part = "sdk" => Sdk!CallersAgree

LoneWriteServed == [][part = "rules" => Rules!LoneWriteStep]_ruleVars
=============================================================================
