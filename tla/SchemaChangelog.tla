--------------------------- MODULE SchemaChangelog ---------------------------
(***************************************************************************)
(* The way of a schema change to the SDKs: integrations/schema_sync.py and *)
(* Canal publish the changes of one memory field to two Kafka topics, the  *)
(* consumers in consumers/ deduplicate them, write the field cache and     *)
(* append to a Redis stream, services/schema_changelog.py lets clients     *)
(* poll the stream or follow it, and changelog.py of the Python SDK polls. *)
(*                                                                         *)
(* A change is its number; the Canal event and the API event of one change *)
(* have different ids.  A consumer that crashes starts again from the last *)
(* offset it committed, a dedup mark expires, and Redis may refuse a       *)
(* handler, whose message is then logged and passed over.                  *)
(***************************************************************************)
EXTENDS Integers, Sequences, SequencesExt

CONSTANTS
    Canal,      \* canal_enabled
    Forward,    \* canal_forward_to_schema_topic
    ApiPublish, \* schema_sync_api_publish
    MaxChanges, MaxCrashes, MaxErrors,      \* bounds on changes and faults
    Batch,      \* count of a poll
    MaxLen      \* entries the stream keeps, 10000 in the code

LogOK == MaxChanges \in Nat /\ Batch \in Nat /\ MaxLen \in Nat

Consumer == {"canal", "schema"}
Event    == [source : Consumer, change : 1 .. MaxChanges]

VARIABLES
    topic,      \* what each consumer's topic holds
    offset,     \* where each consumer started
    pos,        \* messages each consumer is through with
    phase,      \* where its handler is
    marks,      \* dedup marks there are
    cache,      \* the change the field's cache entry shows, 0 when none
    stream,     \* all entries appended, of which the last MaxLen are kept
    client,     \* a poller or a follower: its cursor and the events it was given
    changes, crashes, errors,
    failed,     \* history: changes whose Canal event met an error of Redis
    expired     \* history: a mark expired

consumers == <<topic, offset, pos, phase>>
redis     == <<marks, cache, stream>>
counts    == <<changes, crashes, errors>>
vars      == <<consumers, redis, client, counts, failed, expired>>

Least(a, b)   == IF a < b THEN a ELSE b
Largest(a, b) == IF a < b THEN b ELSE a

-----------------------------------------------------------------------------
(* Publishing *)

\* A write commits; Canal reads it from the binlog, and the API publishes it after
\* its commit, which it does without waiting for long and may fail to.
Change ==
    /\ changes < MaxChanges
    /\ changes' = changes + 1
    /\ \E api \in SUBSET {"schema"} :
        /\ ApiPublish \/ api = {}
        /\ topic' = [c \in Consumer |->
             IF (c = "canal" /\ Canal) \/ c \in api
             THEN Append(topic[c], [source |-> c, change |-> changes + 1]) ELSE topic[c]]
    /\ UNCHANGED <<offset, pos, phase, redis, client, crashes, errors, failed, expired>>

-----------------------------------------------------------------------------
(* The consumers *)

Message(c) == topic[c][pos[c] + 1]

Waiting(c) == phase[c] = "idle" /\ pos[c] < Len(topic[c])

Goto(c, p) == phase' = [phase EXCEPT ![c] = p]

Finish(c) ==
    /\ pos' = [pos EXCEPT ![c] = @ + 1]
    /\ Goto(c, "idle")

Skip(c) ==
    /\ Waiting(c) /\ Message(c) \in marks
    /\ pos' = [pos EXCEPT ![c] = @ + 1]
    /\ UNCHANGED <<topic, offset, phase, redis, client, counts, failed, expired>>

\* Mutant of Take: the Canal consumer marks first, as the other one does.
TakeMarked(c) ==
    /\ Waiting(c) /\ Message(c) \notin marks
    /\ marks' = marks \cup {Message(c)}
    /\ Goto(c, "cache")
    /\ UNCHANGED <<topic, offset, pos, cache, stream, client, counts, failed, expired>>

\* handle_schema_changelog_message marks an event before it handles it, the Canal
\* consumer afterwards.
Take(c) ==
    /\ Waiting(c) /\ Message(c) \notin marks
    /\ marks' = IF c = "schema" THEN marks \cup {Message(c)} ELSE marks
    /\ Goto(c, "cache")
    /\ UNCHANGED <<topic, offset, pos, cache, stream, client, counts, failed, expired>>

\* handle_changelog_event: the cache entry.
WriteCache(c) ==
    /\ phase[c] = "cache"
    /\ cache' = Message(c).change
    /\ Goto(c, "stream")
    /\ UNCHANGED <<topic, offset, pos, marks, stream, client, counts, failed, expired>>

\* append_changelog_event, which ends the handler of the schema topic.
AppendStream(c) ==
    /\ phase[c] = "stream"
    /\ stream' = Append(stream, Message(c))
    /\ IF c = "schema" THEN Finish(c)
       ELSE /\ Goto(c, "mark")
            /\ UNCHANGED pos
    /\ UNCHANGED <<topic, offset, marks, cache, client, counts, failed, expired>>

Mark ==
    /\ phase["canal"] = "mark"
    /\ marks' = marks \cup {Message("canal")}
    /\ IF Forward THEN /\ Goto("canal", "forward")
                       /\ UNCHANGED pos
       ELSE Finish("canal")
    /\ UNCHANGED <<topic, offset, cache, stream, client, counts, failed, expired>>

\* publish swallows what goes wrong.
ForwardEvent ==
    /\ phase["canal"] = "forward"
    /\ \/ topic' = [topic EXCEPT !["schema"] = Append(@, Message("canal"))]
       \/ UNCHANGED topic
    /\ Finish("canal")
    /\ UNCHANGED <<offset, redis, client, counts, failed, expired>>

\* _consume_loop logs the exception of a handler and goes on.
HandlerFails(c) ==
    /\ phase[c] \in {"cache", "stream", "mark"} /\ errors < MaxErrors
    /\ errors' = errors + 1
    /\ failed' = IF c = "canal" THEN failed \cup {Message(c).change} ELSE failed
    /\ Finish(c)
    /\ UNCHANGED <<topic, offset, redis, client, changes, crashes, expired>>

\* One process runs both consumers.  enable_auto_commit has committed some of the
\* messages whose handlers ended.
Crash ==
    /\ crashes < MaxCrashes
    /\ crashes' = crashes + 1
    /\ \E k \in [Consumer -> 0 .. Largest(Len(topic["canal"]), Len(topic["schema"]))] :
        /\ \A c \in Consumer : k[c] \in offset[c] .. pos[c]
        /\ offset' = k /\ pos' = k
    /\ phase' = [c \in Consumer |-> "idle"]
    /\ UNCHANGED <<topic, redis, client, changes, errors, failed, expired>>

\* schema_changelog_dedup_ttl_seconds; one mark expires, which bounds the faults.
Expire ==
    /\ ~expired
    /\ \E e \in marks : marks' = marks \ {e}
    /\ expired' = TRUE
    /\ UNCHANGED <<consumers, cache, stream, client, counts, failed>>

-----------------------------------------------------------------------------
(* Clients *)

First == IF Len(stream) > MaxLen THEN Len(stream) - MaxLen + 1 ELSE 1

\* Mutant of Polled: the next cursor is the end of the stream.
PolledToEnd(cursor) ==
    LET from == Largest(cursor + 1, First) IN
    [ids |-> [i \in 1 .. Largest(0, Least(Batch, Len(stream) - from + 1)) |-> from + i - 1],
     cursor |-> Len(stream)]

\* poll_changelog: entries after the cursor, and the id of the last one returned.
Polled(cursor) ==
    LET from == Largest(cursor + 1, First)
        n    == Largest(0, Least(Batch, Len(stream) - from + 1)) IN
    [ids |-> [i \in 1 .. n |-> from + i - 1], cursor |-> IF n = 0 THEN cursor ELSE from + n - 1]

\* SchemaChangelogWatcher._run; a poll that fails is repeated from the same cursor.
Watch ==
    /\ client.kind = "poller"
    /\ LET p == Polled(client.cursor) IN
       /\ p.ids # <<>>
       /\ client' = [client EXCEPT !.cursor = p.cursor, !.seen = @ \o p.ids]
    /\ UNCHANGED <<consumers, redis, counts, failed, expired>>

\* stream_changelog: every event of a batch carries the cursor behind the batch.
Follow ==
    /\ client.kind = "follower" /\ client.unsent = <<>>
    /\ LET p == Polled(client.cursor) IN
       /\ p.ids # <<>>
       /\ client' = [client EXCEPT !.cursor = p.cursor, !.unsent = p.ids]
    /\ UNCHANGED <<consumers, redis, counts, failed, expired>>

Push ==
    /\ client.unsent # <<>>
    /\ client' = [client EXCEPT !.unsent = Tail(@), !.seen = Append(@, Head(client.unsent)),
                                !.known = client.cursor]
    /\ UNCHANGED <<consumers, redis, counts, failed, expired>>

\* The stream ends after timeout_seconds, or breaks; the client resumes with the
\* cursor of the last event it got.
Reconnect ==
    /\ client.unsent # <<>>
    /\ client' = [client EXCEPT !.cursor = client.known, !.unsent = <<>>]
    /\ UNCHANGED <<consumers, redis, counts, failed, expired>>

Init ==
    /\ topic = [c \in Consumer |-> <<>>]
    /\ offset = [c \in Consumer |-> 0] /\ pos = [c \in Consumer |-> 0]
    /\ phase = [c \in Consumer |-> "idle"]
    /\ marks = {} /\ cache = 0 /\ stream = <<>>
    /\ client \in [kind : {"poller", "follower"}, cursor : {0}, known : {0}, seen : {<<>>},
                   unsent : {<<>>}]
    /\ changes = 0 /\ crashes = 0 /\ errors = 0
    /\ failed = {} /\ expired = FALSE

Handle(c) ==
    \/ Skip(c) \/ Take(c) \/ WriteCache(c) \/ AppendStream(c) \/ HandlerFails(c)

Next ==
    \/ Change \/ Crash \/ Expire
    \/ \E c \in Consumer : Handle(c)
    \/ Mark \/ ForwardEvent
    \/ Watch \/ Follow \/ Push \/ Reconnect

Spec == Init /\ [][Next]_vars
-----------------------------------------------------------------------------
(* Properties *)

\* Every variable stays in its domain.
TypeOK ==
    /\ topic \in [Consumer -> Seq(Event)]
    /\ offset \in [Consumer -> Nat] /\ pos \in [Consumer -> Nat]
    /\ phase \in [Consumer -> {"idle", "cache", "stream", "mark", "forward"}]
    /\ marks \subseteq Event /\ cache \in 0 .. MaxChanges /\ stream \in Seq(Event)
    /\ client \in [kind : {"poller", "follower"}, cursor : Nat, known : Nat, seen : Seq(Nat),
                   unsent : Seq(Nat)]
    /\ changes \in Nat /\ crashes \in Nat /\ errors \in Nat
    /\ failed \subseteq 1 .. MaxChanges /\ expired \in BOOLEAN

Through == {topic["canal"][i].change : i \in 1 .. pos["canal"]}

\* Crashes, redelivery and expired marks lose no change on the way through Canal:
\* one that the consumer is through with is in the stream unless Redis refused it.
\* Unless the API publishes too or a mark expired, the cache then shows the last of
\* them, however often older ones were delivered again.
ChangesArrive ==
    /\ Through \ failed \subseteq {stream[i].change : i \in DOMAIN stream}
    /\ (/\ ~ApiPublish /\ ~expired
        /\ phase["canal"] = "idle" /\ pos["canal"] = Len(topic["canal"])
        /\ pos["canal"] > 0 /\ failed = {})
       => cache = pos["canal"]

\* A client is given no entry twice and every one in order, reconnections included.
\* What its cursor is past was given to it or is about to be, unless the stream dropped
\* it; only a follower whose connection broke within a batch misses the rest of that
\* batch, behind an entry of it that it was given.
SubscribersInOrder ==
    /\ \A i, j \in DOMAIN client.seen : i < j => client.seen[i] < client.seen[j]
    /\ \A k \in First .. client.cursor :
        \/ k \in ToSet(client.seen) \cup ToSet(client.unsent)
        \/ /\ client.kind = "follower"
           /\ \E s \in ToSet(client.seen) : s < k /\ k < s + Batch
=============================================================================
