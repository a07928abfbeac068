------------------------------ MODULE Services ------------------------------
(***************************************************************************)
(* The services that share nothing but their stores: governance, retrieval *)
(* bundles, the AML adapter, metering, accounts and keys, and the requests *)
(* that ask a model.  No step of one touches the state of another, so one  *)
(* of them runs from the start and the others do not: every state of every *)
(* component is reached as it would be beside the others.                  *)
(*                                                                         *)
(* A variable or constant of a component has its own name here, unless     *)
(* another component has one of that name.                                 *)
(***************************************************************************)
EXTENDS Governance

CONSTANTS
    \* bundles
    BundleRequest, Claim, Initial, Identity, Relation, Signature, Group, Tokens, NoLLM,
    Sensitive, BundleTop, ProfileMax, ExpandedMax, MaxTokens, PerGroup,
    AggregationRerank, CandidateLimit, CallLimit, MaxClaimChanges,
    \* AML
    Add, Id, Payload, IdOf, PayloadOf, Size, RequireVector, Listed, TopK, PerSession,
    MaxTries, MaxClears,
    \* billing
    Emit, Metered, Issuer, Amount, Limit, Enforce,
    \* accounts
    Application, Extra, Account, Email, Prefix, AccountOf, EmailOf, Slug, Admin, MaxUsers,
    \* requests that ask a model
    Field, Value, Item, Door, MaxWrites

VARIABLES
    part,   \* the component that runs, from the start
    usable, recent, bundleChanges, granted, bundlePc, req, found, dropped, facet,
    ranked, sent, bundle, caller, live,
    ledger, units, points, step, next, tries, clears, clearing, searching, byId,
    hits, result, torn, half, alive,
    event, quota, emitStep, quotaRead, topic, consuming, issue, seen, invoice,
    consumed, overlapped,
    tenants, users, keys, reqPc, user, taken, drawn, returned, mixed, twice,
    fields, docs, items, askPc, question, text, reply, answer, spent, billed,
    cutOff, was, wasCurrent, askChanges

Bundle == INSTANCE MemoryBundle WITH
    Request <- BundleRequest, TopK <- BundleTop, MaxChanges <- MaxClaimChanges,
    status <- usable, changes <- bundleChanges, pc <- bundlePc

Aml == INSTANCE AmlAdapter

Bill == INSTANCE Billing WITH
    step <- emitStep, read <- quotaRead, raced <- overlapped

Onb == INSTANCE Onboarding WITH
    pc <- reqPc, seen <- taken, torn <- mixed

Ask == INSTANCE MemoryAsk WITH
    MaxChanges <- MaxWrites, active <- fields, pc <- askPc, req <- question,
    read <- text, cut <- cutOff, held <- wasCurrent, changes <- askChanges

ASSUME ServicesOK ==
    Bundle!RequestsOK /\ Aml!AmlConstantsOK /\ Bill!BillingConstantsOK
        /\ Onb!OnboardingOK /\ Ask!AskOK

bundleVars     == <<usable, recent, bundleChanges, granted, bundlePc, req, found,
                    dropped, facet, ranked, sent, bundle, caller, live>>
amlVars        == <<ledger, units, points, step, next, tries, clears, clearing,
                    searching, byId, hits, result, torn, half, alive>>
billingVars    == <<event, quota, emitStep, quotaRead, topic, consuming, issue,
                    seen, invoice, consumed, overlapped>>
onboardingVars == <<tenants, users, keys, reqPc, user, taken, drawn, returned,
                    mixed, twice>>
askVars        == <<fields, docs, items, askPc, question, text, reply, answer,
                    spent, billed, cutOff, was, wasCurrent, askChanges>>
allVars        == <<part, vars, bundleVars, amlVars, billingVars, onboardingVars, askVars>>

-----------------------------------------------------------------------------
\* A component that does not run has no state.
BundleIdle ==
    /\ usable = None /\ recent = None /\ bundleChanges = None /\ granted = None
    /\ bundlePc = None /\ req = None /\ found = None /\ dropped = None
    /\ facet = None /\ ranked = None /\ sent = None /\ bundle = None
    /\ caller = None /\ live = None

AmlIdle ==
    /\ ledger = None /\ units = None /\ points = None /\ step = None
    /\ next = None /\ tries = None /\ clears = None /\ clearing = None
    /\ searching = None /\ byId = None /\ hits = None /\ result = None
    /\ torn = None /\ half = None /\ alive = None

BillingIdle ==
    /\ event = None /\ quota = None /\ emitStep = None /\ quotaRead = None
    /\ topic = None /\ consuming = None /\ issue = None /\ seen = None
    /\ invoice = None /\ consumed = None /\ overlapped = None

OnboardingIdle ==
    /\ tenants = None /\ users = None /\ keys = None /\ reqPc = None
    /\ user = None /\ taken = None /\ drawn = None /\ returned = None
    /\ mixed = None /\ twice = None

AskIdle ==
    /\ fields = None /\ docs = None /\ items = None /\ askPc = None
    /\ question = None /\ text = None /\ reply = None /\ answer = None
    /\ spent = None /\ billed = None /\ cutOff = None /\ was = None
    /\ wasCurrent = None /\ askChanges = None

ServicesInit ==
    /\ part \in {"governance", "bundle", "aml", "billing", "onboarding", "ask"}
    /\ Init
    /\ part # "governance" => target = CHOOSE t \in Target : TRUE
    /\ IF part = "bundle" THEN Bundle!Init ELSE BundleIdle
    /\ IF part = "aml" THEN Aml!Init ELSE AmlIdle
    /\ IF part = "billing" THEN Bill!Init ELSE BillingIdle
    /\ IF part = "onboarding" THEN Onb!Init ELSE OnboardingIdle
    /\ IF part = "ask" THEN Ask!Init ELSE AskIdle

ServicesNext ==
    /\ UNCHANGED part
    /\ \/ /\ part = "governance" /\ Next
          /\ UNCHANGED <<bundleVars, amlVars, billingVars, onboardingVars, askVars>>
       \/ /\ part = "bundle" /\ Bundle!Next
          /\ UNCHANGED <<vars, amlVars, billingVars, onboardingVars, askVars>>
       \/ /\ part = "aml" /\ Aml!Next
          /\ UNCHANGED <<vars, bundleVars, billingVars, onboardingVars, askVars>>
       \/ /\ part = "billing" /\ Bill!Next
          /\ UNCHANGED <<vars, bundleVars, amlVars, onboardingVars, askVars>>
       \/ /\ part = "onboarding" /\ Onb!Next
          /\ UNCHANGED <<vars, bundleVars, amlVars, billingVars, askVars>>
       \/ /\ part = "ask" /\ Ask!Next
          /\ UNCHANGED <<vars, bundleVars, amlVars, billingVars, onboardingVars>>

ServicesSpec == ServicesInit /\ [][ServicesNext]_allVars

-----------------------------------------------------------------------------
(* Properties, each of the component that it names *)

\* Every variable of the component that runs stays in its domain.
ServicesTypeOK ==
    /\ TypeOK
    /\ part = "bundle" => Bundle!TypeOK
    /\ part = "aml" => Aml!TypeOK
    /\ part = "billing" => Bill!TypeOK
    /\ part = "onboarding" => Onb!TypeOK
    /\ part = "ask" => Ask!TypeOK

BundleSound        == part = "bundle" => Bundle!BundleSound
CallSound          == part = "bundle" => Bundle!CallSound
NoConflictInjected == part = "bundle" => Bundle!NoConflictInjected
SearchServesStored == part = "aml" => Aml!SearchServesStored
MeteringSound      == part = "billing" => Bill!MeteringSound
AccountsSound      == part = "onboarding" => Onb!AccountsSound
AnswersGrounded    == part = "ask" => Ask!AnswersGrounded
CompletionsBilled  == part = "ask" => Ask!CompletionsBilled

AckedIsStored == [][part = "aml" => Aml!AckedStep]_amlVars
LinkStands    == [][part = "onboarding" => Onb!LinkStep]_onboardingVars
=============================================================================
