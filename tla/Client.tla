-------------------------------- MODULE Client --------------------------------
(***************************************************************************)
(* ojs::Client: a caller builds a job, a batch of jobs or a workflow call  *)
(* by call, the client validates, converts and posts it, and the steps run.*)
(*                                                                         *)
(* External: the server.  It starts a step when the steps it depends on    *)
(* are over and, as the documentation of chain and BatchCallbacks has it,  *)
(* when they have ended the way the step asks for; the request carries no  *)
(* workflow type, so callbacks can only be told by their ids.              *)
(***************************************************************************)
EXTENDS Requests

CONSTANTS
    FirstItems,     \* FirstItems[kind]: what the first item of a request may be, before
                    \* any option
    MoreItems,      \* the items after it
    CallbackItems,  \* the steps given to BatchCallbacks, with their options
    QueueNames, Timeouts, Delays, Dates, Policies,  \* values of the options
    Metas, Schemas, \* what meta and schema are called with
    Times,          \* readings of the clock when a request is made
    MaxCalls        \* bound on items, callbacks and, twice, options, meta and schema

\* Character classes of names, see Requests.
Classes == {"a", "d", ".", "x"}

Kinds == {"enqueue", "batch", "chain", "group", "callbacks"}

BareItems(items) ==
    \A item \in items : item = NewItem(item.type, item.args) /\ item.type \in Seq(Classes)

\* The calls for an option, by the kind of value they take.
OptionSet ==
    UNION {[kind : {"Queue"}, value : QueueNames],
           [kind : {"Timeout", "VisibilityTimeout"}, value : Timeouts],
           [kind : {"Delay"}, value : Delays],
           [kind : {"ScheduledAt", "ExpiresAt"}, value : Dates],
           [kind : {"Priority", "Retry", "Unique", "Tags"}, value : Policies],
           [kind : {"Meta"}, value : Metas]}

ASSUME ItemsAssumption ==
    /\ BareItems(MoreItems)
    /\ \A kind \in Kinds : BareItems(FirstItems[kind])
    /\ \A item \in CallbackItems : item.options \in Seq(OptionSet)

ASSUME RangesAssumption ==
    /\ Timeouts \subseteq Nat /\ Delays \subseteq Nat /\ Times \subseteq Int
    /\ MaxDuration \in Nat /\ MillisRange \in Nat \ {0}

ASSUME NamesAssumption ==
    QueueNames \subseteq Seq(Classes) /\ MAX_TYPE_LENGTH \in Nat /\ MAX_QUEUE_LENGTH \in Nat

ASSUME NoneAssumption == None \notin Kinds \cup {"Builder", "panic", "Ok", "Err"}

VARIABLES
    draft,      \* the request under construction: kind, items, callbacks
    sent,       \* what the server has accepted, and the time it was made
    outcome,    \* what the call returned
    run         \* run[i]: the state of the i-th job or step of the request

vars == <<draft, sent, outcome, run>>

NoCallbacks == [c \in {} |-> None]
NoDraft == [kind |-> None, items |-> <<>>, callbacks |-> NoCallbacks]

Init ==
    /\ draft = NoDraft
    /\ sent = [wire |-> <<>>, at |-> 0]
    /\ outcome = None
    /\ run = <<>>

-----------------------------------------------------------------------------
(* Building *)

\* Client::enqueue, the Vec of an enqueue_batch, chain, group or batch.
Begin(kind, callbacks) ==
    /\ draft = NoDraft
    /\ kind # "callbacks" => callbacks = NoCallbacks
    /\ draft' = [draft EXCEPT !.kind = kind, !.callbacks = callbacks]
    /\ UNCHANGED <<sent, outcome, run>>

Calls ==
    LET Set(field) == IF field = None THEN 0 ELSE 1
        Cost(item) == 1 + 2 * (Len(item.options) + Set(item.meta) + Set(item.schema))
    IN FoldLeft(LAMBDA n, item : n + Cost(item), Cardinality(DOMAIN draft.callbacks), draft.items)

Building(cost) == draft.kind # None /\ outcome = None /\ Calls + cost <= MaxCalls

\* JobRequest::new, Step::new; an EnqueueBuilder is for one job.
AddItem(item) ==
    /\ Building(1)
    /\ draft.kind = "enqueue" => draft.items = <<>>
    /\ item \in IF draft.items = <<>> THEN FirstItems[draft.kind] ELSE MoreItems
    /\ draft' = [draft EXCEPT !.items = Append(@, item)]
    /\ UNCHANGED <<sent, outcome, run>>

Newest == Len(draft.items)

PushOption(kind, value) ==
    /\ Building(2)
    /\ Newest > 0
    /\ draft' = [draft EXCEPT
                    !.items[Newest].options = Append(@, [kind |-> kind, value |-> value])]
    /\ UNCHANGED <<sent, outcome, run>>

\* The setters of EnqueueBuilder: there is none for these two.
BuilderSetter(kind, value) ==
    /\ draft.kind = "enqueue"
    /\ kind \notin {"VisibilityTimeout", "Meta"}
    /\ PushOption(kind, value)

\* JobRequest::with_option, Step::with_option: any option.
WithOption(kind, value) ==
    /\ draft.kind # "enqueue"
    /\ PushOption(kind, value)

With(kind, value) == BuilderSetter(kind, value) \/ WithOption(kind, value)

\* EnqueueBuilder::meta, JobRequest::meta: a later call replaces what an earlier one set.
SetMeta(meta) ==
    /\ Building(IF Newest > 0 /\ draft.items[Newest].meta # None THEN 0 ELSE 2)
    /\ Newest > 0
    /\ draft.kind \in {"enqueue", "batch"}
    /\ draft' = [draft EXCEPT !.items[Newest].meta = meta]
    /\ UNCHANGED <<sent, outcome, run>>

\* EnqueueBuilder::schema
SetSchema(schema) ==
    /\ Building(IF Newest > 0 /\ draft.items[Newest].schema # None THEN 0 ELSE 2)
    /\ Newest > 0
    /\ draft.kind = "enqueue"
    /\ draft' = [draft EXCEPT !.items[Newest].schema = schema]
    /\ UNCHANGED <<sent, outcome, run>>

-----------------------------------------------------------------------------
(* Sending *)

Invalid(item) ==
    \/ ~ValidateJobType(item.type)
    \/ \E i \in DOMAIN item.options :
          item.options[i].kind = "Queue" /\ ~ValidateQueueName(item.options[i].value)

\* Only send() validates; the batch and the workflow are posted as they are.
Refused ==
    /\ draft.kind = "enqueue"
    /\ draft.items # <<>>
    /\ outcome = None
    /\ Invalid(draft.items[1])
    /\ outcome' = "Builder"
    /\ UNCHANGED <<draft, sent, run>>

\* A delay beyond the calendar, of an item or of a callback.
ToWirePanics(now) ==
    \/ \E i \in DOMAIN draft.items : Panics(draft.items[i].options, now)
    \/ \E c \in DOMAIN draft.callbacks : Panics(draft.callbacks[c].options, now)

SendPanics(now) ==
    /\ draft.kind # None
    /\ outcome = None
    /\ draft.kind = "enqueue" => draft.items # <<>> /\ ~Invalid(draft.items[1])
    /\ ToWirePanics(now)
    /\ outcome' = "panic"
    /\ UNCHANGED <<draft, sent, run>>

Body(now) ==
    LET Items == draft.items
    IN CASE draft.kind = "enqueue"   -> [i \in DOMAIN Items |-> EnqueueRequest(Items[i], now)]
         [] draft.kind = "batch"     -> [i \in DOMAIN Items |-> BatchedRequest(Items[i], now)]
         [] draft.kind = "chain"     -> ChainSteps(Items, now)
         [] draft.kind = "group"     -> ParallelSteps(Items, now)
         [] draft.kind = "callbacks" ->
                ParallelSteps(Items, now) \o CallbackSteps(draft.callbacks, Items, now)

Ready(now) ==
    /\ draft.kind # None
    /\ outcome = None
    /\ draft.kind = "enqueue" => draft.items # <<>> /\ ~Invalid(draft.items[1])
    /\ ~ToWirePanics(now)

\* What becomes of a reply: it may get lost, be empty, or not decode.
Replies == {"Ok", "Err"}

\* send, enqueue_batch and create_workflow: the server accepts all of it.
Post(now, reply) ==
    /\ Ready(now)
    /\ sent' = [wire |-> Body(now), at |-> now]
    /\ run' = [i \in DOMAIN sent'.wire |-> "waiting"]
    /\ outcome' = reply
    /\ UNCHANGED draft

\* The transport gives up, or the server refuses: nothing of it is stored.
PostFails(now) ==
    /\ Ready(now)
    /\ outcome' = "Err"
    /\ UNCHANGED <<draft, sent, run>>

-----------------------------------------------------------------------------
(* The server and the workers (external). *)

Over == {"completed", "failed", "skipped", "cancelled"}

\* The positions of the steps that step i depends on; an id that no step has is
\* never over.
Awaited(i) == {j \in DOMAIN sent.wire : sent.wire[j].id \in sent.wire[i].depends_on}

DepsOver(i) ==
    /\ \A id \in sent.wire[i].depends_on : \E j \in DOMAIN sent.wire : sent.wire[j].id = id
    /\ \A j \in Awaited(i) : run[j] \in Over

Wanted(i) ==
    LET Id == sent.wire[i].id
    IN CASE Id = <<"on-complete", 0>> -> TRUE
         [] Id = <<"on-failure", 0>>  -> \E j \in Awaited(i) : run[j] = "failed"
         [] OTHER                     -> \A j \in Awaited(i) : run[j] = "completed"

StepStarts(i) ==
    /\ run[i] = "waiting"
    /\ DepsOver(i)
    /\ run' = [run EXCEPT ![i] = IF Wanted(i) THEN "running" ELSE "skipped"]
    /\ UNCHANGED <<draft, sent, outcome>>

StepEnds(i, state) ==
    /\ run[i] = "running"
    /\ run' = [run EXCEPT ![i] = state]
    /\ UNCHANGED <<draft, sent, outcome>>

\* cancel_job, cancel_workflow: what has not started is not started any more.  The
\* ids are in the reply.
CancelSent ==
    /\ outcome = "Ok"
    /\ \E i \in DOMAIN run : run[i] = "waiting"
    /\ run' = [i \in DOMAIN run |-> IF run[i] = "waiting" THEN "cancelled" ELSE run[i]]
    /\ UNCHANGED <<draft, sent, outcome>>

ServerStep(i) == StepStarts(i) \/ \E state \in {"completed", "failed"} : StepEnds(i, state)

Next ==
    \/ \E kind \in Kinds, set \in SUBSET CallbackNames :
          \E callbacks \in [set -> CallbackItems] : Begin(kind, callbacks)
    \/ \E item \in MoreItems \cup UNION {FirstItems[kind] : kind \in Kinds} : AddItem(item)
    \/ \E q \in QueueNames : With("Queue", q)
    \/ \E t \in Timeouts : With("Timeout", t) \/ With("VisibilityTimeout", t)
    \/ \E d \in Delays : With("Delay", d)
    \/ \E t \in Dates : With("ScheduledAt", t) \/ With("ExpiresAt", t)
    \/ \E p \in Policies : \/ With("Priority", p) \/ With("Retry", p)
                           \/ With("Unique", p) \/ With("Tags", p)
    \/ \E m \in Metas : With("Meta", m) \/ SetMeta(m)
    \/ \E schema \in Schemas : SetSchema(schema)
    \/ Refused
    \/ \E now \in Times : \/ SendPanics(now)
                           \/ \E reply \in Replies : Post(now, reply)
                           \/ PostFails(now)
    \/ \E i \in DOMAIN run : ServerStep(i)
    \/ CancelSent

\* The server goes on with what it has accepted, and handlers return.
Spec == Init /\ [][Next]_vars /\ \A i \in 1..MaxCalls : WF_vars(i \in DOMAIN run /\ ServerStep(i))

-----------------------------------------------------------------------------
(* Properties *)

Accepted == sent.wire # <<>>

\* The grammars of the error messages of validate_job_type and validate_queue_name:
\* segments [a-z][a-z0-9_]* joined by dots; alphanumeric runs joined by single
\* hyphens or dots.
IsJobType(s) ==
    /\ Len(s) \in 1..MAX_TYPE_LENGTH
    /\ \A i \in DOMAIN s : /\ s[i] \in {"a", "d", "."}
                           /\ i = 1 \/ s[i - 1] = "." => s[i] = "a"
    /\ s[Len(s)] # "."

IsQueueName(s) ==
    /\ Len(s) \in 1..MAX_QUEUE_LENGTH
    /\ \A i \in DOMAIN s :
          \/ s[i] \in {"a", "d"}
          \/ s[i] = "." /\ i \in 2..(Len(s) - 1) /\ {s[i - 1], s[i + 1]} \subseteq {"a", "d"}

\* A value of the request is the one an option asks for: a Delay counts from the time of
\* the request, everything else goes as it is given.  What the types of the wire cannot
\* hold is lost (a Delay longer than chrono's longest is no delay, a timeout keeps its low
\* 64 bits), but a job never comes later nor runs longer than was asked for.
Honours(option, value) ==
    LET Asked == option.value
    IN CASE option.kind = "Delay" ->
                /\ value \in sent.at..(sent.at + Asked)
                /\ Asked <= MaxDuration => value = sent.at + Asked
         [] option.kind \in {"Timeout", "VisibilityTimeout"} ->
                /\ value \in 0..Asked
                /\ Asked < MillisRange => value = Asked
         [] OTHER -> value = Asked

\* Of several calls for one field the last counts, a Delay and a ScheduledAt being calls
\* for the same; a field nobody called for is absent.
OptionsAsSaid(options, wire) ==
    \A f \in Fields :
        LET Says  == {i \in DOMAIN options :
                         options[i].kind # "Meta" /\ FieldOf[options[i].kind] = f}
            Value == IF f \in DOMAIN wire THEN wire[f] ELSE None
        IN /\ Says = {} => Value = None
           /\ \A i \in Says : (\A j \in Says : j <= i) => Honours(options[i], Value)

AsGiven(item, request) ==
    /\ request.type = item.type
    /\ OptionsAsSaid(item.options, request.options)
    /\ item.args.tag # "array" \/ Len(item.args.in) # 1 => ArgsAs(request.args) = item.args
    /\ item.args.tag = "object" => Arg(request.args) = item.args.in[1]

\* What the caller built is what the server gets and the handler sees, job by job, step by
\* step and callback by callback: of several calls for one field, metadata and schema
\* included, the last counts; the arguments that args_as and arg return are the ones given
\* to enqueue or Step::new, unless these were an array of one element, which args_as
\* unwraps; and send() posts a job exactly when its type and every queue it was ever given
\* follow the grammar.  (A Meta option of a JobRequest or a Step is lost.)
RequestAsBuilt ==
    /\ Accepted =>
          LET N == Len(draft.items)
              Callbacks == (N + 1)..Len(sent.wire)
          IN /\ \A i \in 1..N :
                   /\ AsGiven(draft.items[i], sent.wire[i])
                   /\ draft.kind \in {"enqueue", "batch"} =>
                         sent.wire[i].meta = draft.items[i].meta
                   /\ draft.kind = "enqueue" => sent.wire[i].schema = draft.items[i].schema
             /\ \A c \in DOMAIN draft.callbacks : \E k \in Callbacks : sent.wire[k].id = <<c, 0>>
             /\ \A k \in Callbacks : \E c \in DOMAIN draft.callbacks :
                   sent.wire[k].id = <<c, 0>> /\ AsGiven(draft.callbacks[c], sent.wire[k])
    /\ draft.kind = "enqueue" /\ outcome # None =>
          (outcome = "Builder" <=>
              ~ /\ IsJobType(draft.items[1].type)
                /\ \A i \in DOMAIN draft.items[1].options :
                      draft.items[1].options[i].kind = "Queue" =>
                          IsQueueName(draft.items[1].options[i].value))

Started(i) == run[i] \in {"running", "completed", "failed"}

\* Steps run in the documented order.  "Each step depends on the previous one
\* completing successfully" (workflow.rs:231); the jobs of a group or a batch wait
\* for nobody; a callback starts when all jobs are over, on_success "only if ALL
\* jobs succeeded" and on_failure "if ANY job failed" (workflow.rs:152-156).
WorkflowOrder ==
    Accepted =>
        LET N == Len(draft.items)
        IN /\ draft.kind = "chain" => \A i \in 2..N : Started(i) => run[i - 1] = "completed"
           /\ draft.kind # "chain" => \A i \in 1..N : run[i] = "waiting" => DepsOver(i)
           /\ \A c \in (N + 1)..Len(sent.wire) : Started(c) =>
                 /\ \A i \in 1..N : run[i] \in Over
                 /\ sent.wire[c].id[1] = "on-success" => \A i \in 1..N : run[i] = "completed"
                 /\ sent.wire[c].id[1] = "on-failure" => \E i \in 1..N : run[i] = "failed"

\* Every dependency to_wire names is the id of a step that will be over: an accepted
\* workflow comes to its end, whichever steps fail or are cancelled.
WorkflowCompletes ==
    Accepted ~> (\A i \in DOMAIN run : run[i] \in Over)
=============================================================================
