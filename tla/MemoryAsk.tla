----------------------------- MODULE MemoryAsk ------------------------------
(***************************************************************************)
(* The requests that read a user's memory and may ask a model about it:    *)
(* V1 get, search, retrieve and call (memory_retrieve.py, data_search.py), *)
(* the extraction and comparison of candidates (memory_candidate.py) and   *)
(* the parsing of an input (memory_parse.py).                              *)
(*                                                                         *)
(* None of them writes memory, so they share nothing but the stores: one   *)
(* request at a time runs here against writers that run at any moment, in  *)
(* particular between its reads and while the model is thinking.  An item  *)
(* is one version of a claim, a door the source a document is filed under. *)
(***************************************************************************)
EXTENDS Naturals, FiniteSets

CONSTANTS
    Field, Value, Item, None,
    Door,           \* sources, None among them: a document filed without one
    MaxChanges      \* bound on the writers' steps in one request

AskOK == None \in Door /\ None \notin Value \cup Field \cup Item /\ MaxChanges \in Nat

VARIABLES
    active,     \* memory fields that are not deleted
    docs,       \* value of each live document, by field and door
    items,      \* current claims of the user
    pc,
    req,        \* the request: operation, field, door, method
    read,       \* value or items it has read
    reply,      \* what the model said
    answer,     \* what the request answers
    spent, billed,  \* completions of the request, and its billing events
    cut,        \* history: the request was cut off or failed at the meter
    was,        \* history: documents that were there during the request
    held,       \* history: claims that were current during it
    changes

request == <<pc, req, read, reply, answer, spent, billed, cut>>
stores  == <<active, docs, items>>
history == <<was, held, changes>>
vars    == <<request, stores, history>>

Methods  == {"EXACT", "REGEX", "SEMANTIC", "LLM"}
Ops      == {"get", "search", "explicit", "implicit", "call", "compare", "extract", "parse"}
Verdicts == {"NEW", "DUPLICATE", "MERGE", "CONFLICT", "REJECT"}
Matching == {"DUPLICATE", "MERGE", "CONFLICT"}
Kinds    == {"good", "malformed", "disallowed"}     \* of extracted candidates

Filed(d) == {<<k[1], d[k]>> : k \in {j \in DOMAIN d : d[j] # None}}

Unusable == [ok |-> FALSE]      \* not the JSON object that is asked for
Says(x)  == [ok |-> TRUE, said |-> x]

Goto(l)  == pc' = l
Answer(a) == answer' = a /\ Goto("ended") /\ read' = {} /\ reply' = None
Refuse   == Answer([op |-> "error"])
Nothing  == Answer([op |-> "none"])
Serve(f, v, basis) == Answer([op |-> "doc", field |-> f, value |-> v, basis |-> basis])

-----------------------------------------------------------------------------
(* Writers: V1 memory, the schema, the claims *)

Change ==
    /\ pc # "ended" /\ changes < MaxChanges
    /\ \/ \E k \in Field \X Door, v \in Value \cup {None} :
            docs' = [docs EXCEPT ![k] = v] /\ UNCHANGED <<active, items>>
       \/ \E f \in Field :
            active' = active \ {f} /\ f \in active /\ UNCHANGED <<docs, items>>
       \/ \E i \in Item :
            /\ items' = IF i \in items THEN items \ {i} ELSE items \cup {i}
            /\ UNCHANGED <<docs, active>>
    /\ was' = was \cup Filed(docs')
    /\ held' = held \cup items'
    /\ changes' = changes + 1
    /\ UNCHANGED request

-----------------------------------------------------------------------------
(* The request *)

First == [get |-> "field", search |-> "field", explicit |-> "rule", implicit |-> "rule",
          call |-> "field", compare |-> "items", extract |-> "llm", parse |-> "rule"]

Begin(op, f, d, m) ==
    /\ pc = "ended" /\ answer = None
    /\ op # "get" => d = None
    /\ op \in {"implicit", "compare", "extract"} <=> f = None
    /\ op \notin {"search", "explicit", "implicit"} => m = "EXACT"
    /\ req' = [op |-> op, field |-> f, door |-> d, method |-> m]
    /\ Goto(First[op])
    /\ read' = {} /\ reply' = None /\ answer' = None
    /\ spent' = 0 /\ billed' = 0 /\ cut' = FALSE
    /\ was' = Filed(docs) /\ held' = items /\ changes' = 0
    /\ UNCHANGED stores

\* The route returns the answer, or the error, and nothing of the request stays.
Leave ==
    /\ pc = "ended" /\ answer # None
    /\ req' = None /\ answer' = None
    /\ spent' = 0 /\ billed' = 0 /\ cut' = FALSE
    /\ was' = {} /\ held' = {} /\ changes' = 0
    /\ UNCHANGED <<pc, read, reply, stores>>

\* _resolve_retrieve_rule: a named rule may bring the method.
RetrieveRule ==
    /\ req.op \in {"explicit", "implicit"}
    /\ \/ /\ Goto(IF req.op = "explicit" THEN "field" ELSE "list")
          /\ \E m \in IF req.method = "EXACT" THEN Methods ELSE {req.method} :
                req' = [req EXCEPT !.method = m]
          /\ UNCHANGED <<read, reply, answer>>
       \/ Refuse /\ UNCHANGED req

CallRule ==
    /\ req.op = "call"
    /\ \/ Goto("fill") /\ UNCHANGED <<read, reply, answer>>
       \/ Refuse
    /\ UNCHANGED req

\* parse_with_rule: without its rule an input is only translated, if there is any.
ParseRule ==
    /\ req.op = "parse"
    /\ \/ Goto("llm") /\ UNCHANGED <<read, reply, answer>>
       \/ Answer([op |-> "text"])
    /\ UNCHANGED req

Rule ==
    /\ pc = "rule"
    /\ RetrieveRule \/ CallRule \/ ParseRule
    /\ UNCHANGED <<spent, billed, cut, stores, history>>

\* get_active_by_name, in a statement of its own.
CheckField ==
    /\ pc = "field"
    /\ IF req.field \notin active THEN Refuse
       ELSE /\ \/ Goto(IF req.op = "call" THEN "fill" ELSE "doc")
               \/ req.op = "call" /\ Goto("rule")
            /\ UNCHANGED <<read, reply, answer>>
    /\ UNCHANGED <<req, spent, billed, cut, stores, history>>

\* A get names the door, the others read that of documents without a source.
ReadGet ==
    /\ req.op = "get"
    /\ LET v == docs[<<req.field, req.door>>] IN
       IF v = None THEN Refuse ELSE Serve(req.field, v, None)

Ask(v) == Goto("llm") /\ read' = {v} /\ UNCHANGED <<reply, answer>>

\* search_memory_data: a value that does not match is an error of the caller's.
ReadSearch ==
    /\ req.op = "search"
    /\ LET v == docs[<<req.field, None>>] IN
       IF v = None THEN Refuse
       ELSE IF req.method = "LLM" THEN Ask(v)
       ELSE \/ Serve(req.field, v, None)
            \/ req.method \in {"EXACT", "REGEX"} /\ Refuse

\* _retrieve_explicit: one that does not match is no answer.
ReadExplicit ==
    /\ req.op = "explicit"
    /\ LET v == docs[<<req.field, None>>] IN
       IF v = None THEN Nothing
       ELSE IF req.method = "LLM" THEN Ask(v)
       ELSE \/ Serve(req.field, v, None)
            \/ req.method = "REGEX" /\ Nothing

ReadDoc ==
    /\ pc = "doc"
    /\ ReadGet \/ ReadSearch \/ ReadExplicit
    /\ UNCHANGED <<req, spent, billed, cut, stores, history>>

\* _retrieve_implicit reads every document of the user, whatever its door.
List ==
    /\ pc = "list"
    /\ LET all == Filed(docs) IN
       IF all = {} THEN Nothing
       ELSE CASE req.method = "EXACT" -> \E x \in all : Serve(x[1], x[2], None)
              [] req.method = "REGEX" -> Nothing \/ \E x \in all : Serve(x[1], x[2], None)
              [] req.method = "SEMANTIC" ->
                    Goto("hits") /\ read' = all /\ UNCHANGED <<reply, answer>>
              [] OTHER -> Goto("llm") /\ read' = all /\ UNCHANGED <<reply, answer>>
    /\ UNCHANGED <<req, spent, billed, cut, stores, history>>

\* search_vectors: the index may be behind, so a hit only names a field.
Hits ==
    /\ pc = "hits"
    /\ \/ \E f \in Field : reply' = Says(f) /\ Goto("reread") /\ UNCHANGED <<read, answer>>
       \/ \E x \in read : Serve(x[1], x[2], None)
    /\ UNCHANGED <<req, spent, billed, cut, stores, history>>

\* Mutant of Reread: what the hit or the model quotes is served.
RereadTrusts ==
    /\ pc = "reread"
    /\ \E v \in Value : Serve(reply.said, v, None)
    /\ UNCHANGED <<req, spent, billed, cut, stores, history>>

\* The document that a hit or the model names is read anew, from the legacy door.
Reread ==
    /\ pc = "reread"
    /\ LET v == docs[<<reply.said, None>>] IN
       IF v # None THEN Serve(reply.said, v, None)
       ELSE IF req.method = "SEMANTIC" THEN \E x \in read : Serve(x[1], x[2], None)
       ELSE Nothing
    /\ UNCHANGED <<req, spent, billed, cut, stores, history>>

\* call_memory fills the slot with what the caller sent.
Fill ==
    /\ pc = "fill"
    /\ \/ Answer([op |-> "text"])
       \/ Goto("llm") /\ UNCHANGED <<read, reply, answer>>
    /\ UNCHANGED <<req, spent, billed, cut, stores, history>>

\* compare_candidate reads the claims; prohibited content, no claims and an equal
\* text are decided without the model.
Items ==
    /\ pc = "items"
    /\ \/ Answer([op |-> "verdict", result |-> "REJECT", matched |-> {}, base |-> None])
       \/ /\ items = {}
          /\ Answer([op |-> "verdict", result |-> "NEW", matched |-> {}, base |-> None])
       \/ \E i \in items :
            Answer([op |-> "verdict", result |-> "DUPLICATE", matched |-> {i}, base |-> None])
       \/ /\ items # {} /\ Goto("llm")
          /\ read' = items /\ UNCHANGED <<reply, answer>>
    /\ UNCHANGED <<req, spent, billed, cut, stores, history>>

\* What a model may say, well formed or not; it invents fields and items.
Replies ==
    CASE req.op = "compare" ->
            [result : Verdicts, matched : SUBSET Item, base : Item \cup {None}]
      [] req.op = "extract" -> SUBSET Kinds
      [] req.op = "implicit" -> Field \cup {None}
      [] OTHER -> {"text"}

\* chat_completion; data_search.py does not meter its call.
Complete ==
    /\ pc = "llm"
    /\ \/ reply' = Unusable
       \/ \E x \in Replies : reply' = Says(x)
    /\ spent' = spent + 1
    /\ Goto(IF req.op = "search" THEN "use" ELSE "bill")
    /\ UNCHANGED <<req, read, answer, billed, cut, stores, history>>

\* Mutant of Bill: only what can be used is billed.
BillUsable ==
    /\ pc = "bill"
    /\ billed' = IF ~reply.ok THEN billed ELSE billed + 1
    /\ Goto("use")
    /\ UNCHANGED <<req, read, reply, answer, spent, cut, stores, history>>

\* emit_llm_completion: the event is committed, then the quota may refuse.
Bill ==
    /\ pc = "bill"
    /\ billed' = billed + 1
    /\ \/ Goto("use") /\ UNCHANGED <<read, reply, answer>>
       \/ Refuse
    /\ UNCHANGED <<req, spent, cut, stores, history>>

\* compare_candidate's checks of the model's verdict.
Valid(c) ==
    /\ c.matched \subseteq read
    /\ c.result \in Matching => c.matched # {}
    /\ c.result = "MERGE" => c.base \in c.matched

Verdict(c) == [op |-> "verdict", result |-> c.result, matched |-> c.matched,
               base |-> IF c.result = "MERGE" THEN c.base ELSE None]

\* compare_candidate also refuses a confidence or a preview of no use.
UseVerdict ==
    /\ req.op = "compare"
    /\ \/ reply.ok /\ Valid(reply.said) /\ Answer(Verdict(reply.said))
       \/ Refuse

\* extract_candidates skips what is malformed or of another category.
UseCandidates ==
    /\ req.op = "extract"
    /\ IF reply.ok THEN Answer([op |-> "candidates", kept |-> reply.said \cap {"good"}])
       ELSE Refuse

UseName ==
    /\ req.op = "implicit"
    /\ IF reply.ok /\ reply.said # None
       THEN Goto("reread") /\ UNCHANGED <<read, reply, answer>>
       ELSE Nothing \/ Refuse

UseAnswer ==
    /\ req.op \in {"explicit", "search"}
    /\ \E v \in read : Serve(req.field, v, v)

\* A text, parsed or translated; one that cannot be used is wrapped or left as it was.
UseText ==
    /\ req.op \in {"call", "parse"}
    /\ Answer([op |-> "text"])

Use ==
    /\ pc = "use"
    /\ UseVerdict \/ UseCandidates \/ UseName \/ UseAnswer \/ UseText
    /\ UNCHANGED <<req, spent, billed, cut, stores, history>>

\* A store, the model or the meter fails, or the process stops.
Fail ==
    /\ pc # "ended"
    /\ Refuse
    /\ cut' = TRUE
    /\ UNCHANGED <<req, spent, billed, stores, history>>

Init ==
    /\ active = Field
    /\ docs \in [Field \X Door -> Value \cup {None}]
    /\ items = {}
    /\ pc = "ended" /\ req = None /\ read = {} /\ reply = None /\ answer = None
    /\ spent = 0 /\ billed = 0 /\ cut = FALSE
    /\ was = {} /\ held = {} /\ changes = 0

Next ==
    \/ Change
    \/ \E op \in Ops, f \in Field \cup {None}, d \in Door, m \in Methods :
            Begin(op, f, d, m)
    \/ Leave \/ Rule \/ CheckField \/ ReadDoc \/ List \/ Hits \/ Reread \/ Fill \/ Items
    \/ Complete \/ Bill \/ Use \/ Fail

Spec == Init /\ [][Next]_vars

-----------------------------------------------------------------------------
(* Properties *)

\* Every variable stays in its domain.
TypeOK ==
    /\ active \subseteq Field /\ docs \in [Field \X Door -> Value \cup {None}]
    /\ items \subseteq Item
    /\ pc \in {"ended", "rule", "field", "doc", "list", "hits", "reread", "fill", "items",
               "llm", "bill", "use"}
    /\ spent \in 0 .. 1 /\ billed \in 0 .. spent /\ cut \in BOOLEAN
    /\ was \subseteq Field \X Value /\ held \subseteq Item /\ changes \in 0 .. MaxChanges

\* Whatever the vector index and the model name or invent, and whoever writes
\* meanwhile: a document that is served was in the store during the request and a
\* model's text about it is about the value served with it; a verdict names only
\* claims that were current during the request, at least one if it relates the
\* candidate to memory, and a merge starts from one of them.
AnswersGrounded ==
    pc = "ended" /\ answer # None =>
        /\ answer.op = "doc" =>
            <<answer.field, answer.value>> \in was /\ answer.basis \in {None, answer.value}
        /\ answer.op = "verdict" =>
            /\ answer.matched \subseteq held
            /\ answer.result \in Matching => answer.matched # {}
            /\ answer.base # None => answer.base \in answer.matched

\* What a model was paid for is billed once, also when its reply is of no use or the
\* quota refuses the call, unless the request is cut off (data_search.py bills nothing).
CompletionsBilled ==
    pc = "ended" /\ ~cut /\ answer # None => billed = IF req.op = "search" THEN 0 ELSE spent
=============================================================================
