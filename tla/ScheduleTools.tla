---------------------------- MODULE ScheduleTools ----------------------------
(***************************************************************************)
(* The tools an agent may call, in a composed and in a realtime session    *)
(* that share the process: a call's way from its arguments to the worker   *)
(* thread that runs the service, to the client that is handed the result   *)
(* and to the model that is answered, when the call may be cancelled at    *)
(* any await on the way.                                                   *)
(*                                                                         *)
(* One step of a call ends at the await where its task may be cancelled.   *)
(* What the service does with a command is ScheduleService; whether the    *)
(* client still has a connection is ConnectionManager.                     *)
(***************************************************************************)
EXTENDS Sequences, ToolArguments

CONSTANTS
    Calls,       \* the calls, numbered in the order a session makes them
    Composed,    \* those the composed session makes; the others are realtime
    Asks,        \* [Calls -> SUBSET requests] what a model may ask for
    Workers,     \* threads of the default executor
    MaxCancels   \* bound: cancellations of one call

ASSUME CallsAssumption == Calls \subseteq Nat /\ IsFiniteSet(Calls) /\ Composed \subseteq Calls
ASSUME BoundsAssumption == Workers \in Nat \ {0} /\ MaxCancels \in Nat

Sessions == {"composed", "realtime"}
ScheduleToolNames == {"schedule_create", "schedule_query", "schedule_update", "schedule_delete"}
(* request_user_input and end_conversation never reach the composed         *)
(* registry's tools: Dialogue has what the agent does with them.            *)
Registered == ScheduleToolNames \cup {"location_search"}
QuestionKinds == {"missing_field", "ambiguous_target", "recurrence_scope", "confirmation"}
Ends == {"answered", "cancelled", "failed"}

(* A request: the tool, its arguments and changes; the kind of a question   *)
(* and whether it says anything; the place that is looked for.              *)
Request(tool, args, changes, kind, says, place) ==
    [tool |-> tool, args |-> args, changes |-> changes,
     kind |-> kind, says |-> says, place |-> place]
NoRequest == Request("none", Blank, Blank, "none", FALSE, "words")

VARIABLES
    pc,             \* [Calls -> where the call is]
    request,        \* [Calls -> what was asked for]
    thread,         \* [Calls -> the worker thread's side of the call]
    answer,         \* [Calls -> what the model is to be told]
    reports,        \* [Calls -> the operations handed to the client]
    cancels,        \* [Calls -> how often the call was cancelled]
    authorization,  \* ToolBox._delete_authorization of the realtime session
    put,            \* history: the kind of the last question the client was sent
    context         \* [Sessions -> what is known of the place to search around]

vars == <<pc, request, thread, answer, reports, cancels, authorization, put, context>>
callVars == <<request, cancels>>
toolboxVars == <<authorization, put, context>>

(* "none" where the client has not shared its place or no provider is       *)
(* configured.  Which sessions that is stays open until they first look.    *)
Contexts == {"open", "none", "prepared"}

Session(c) == IF c \in Composed THEN "composed" ELSE "realtime"

Init ==
    /\ pc = [c \in Calls |-> "new"]
    /\ request = [c \in Calls |-> NoRequest]
    /\ thread = [c \in Calls |-> "none"]
    /\ answer = [c \in Calls |-> "nothing"]
    /\ reports = [c \in Calls |-> <<>>]
    /\ cancels = [c \in Calls |-> 0]
    /\ authorization = "none" /\ put = "none"
    /\ context = [s \in Sessions |-> "open"]

(* A session awaits one tool call at a time.                                *)
Asked(c, r) ==
    /\ pc[c] = "new"
    /\ \A d \in Calls : Session(d) = Session(c) /\ d < c => pc[d] \in Ends
    /\ request' = [request EXCEPT ![c] = r]

Goto(c, where) == pc' = [pc EXCEPT ![c] = where]
Answering(c, what) == Goto(c, "replying") /\ answer' = [answer EXCEPT ![c] = what]

(***************************************************************************)
(* The composed agent's registry and its schedule tools.                   *)
(***************************************************************************)

(* Everything, the mapping of the arguments too, is left to the thread.     *)
Execute(c, r) ==
    /\ c \in Composed /\ Asked(c, r) /\ r.tool \in ScheduleToolNames
    /\ Goto(c, "waiting")
    /\ thread' = [thread EXCEPT ![c] = "queued"]
    /\ UNCHANGED <<answer, reports, cancels, toolboxVars>>

UnknownTool(c, r) ==
    /\ c \in Composed /\ Asked(c, r) /\ r.tool \notin Registered
    /\ Goto(c, "failed")
    /\ UNCHANGED <<thread, answer, reports, cancels, toolboxVars>>

(* What the thread makes of its call: what the service says of the command, *)
(* or nothing the service could be called with.                             *)
Results(c) ==
    IF c \in Composed /\ ComposedCommand(request[c]) = NoCommand
    THEN {"invalid"} ELSE {"applied", "refused", "crashed"}

(* A plausible bug: the call's thread is awaited without a shield. *)
CancelExecuteUnshielded(c) ==
    /\ pc[c] \in {"waiting", "draining"} /\ Goto(c, "cancelled")
    /\ thread' = [thread EXCEPT ![c] = IF @ = "queued" THEN "dropped" ELSE @]

(* The shield keeps the thread from a first cancellation, which then waits  *)
(* for what the service says; a second one does not, and leaves a thread    *)
(* that runs to itself.                                                     *)
CancelExecute(c) ==
    \/ /\ pc[c] = "waiting" /\ Goto(c, "draining") /\ UNCHANGED thread
    \/ /\ pc[c] = "draining" /\ Goto(c, "cancelled")
       /\ thread' = [thread EXCEPT ![c] = IF @ = "queued" THEN "dropped" ELSE @]

(* What the text for the model says: done, refused by the service, or not   *)
(* usable and worth another try.                                            *)
ResultJson == [applied |-> "applied", refused |-> "refused", invalid |-> "invalid"]

ExecuteReturns(c) ==
    /\ c \in Composed /\ pc[c] = "waiting"
    /\ \/ /\ thread[c] = "applied"
          /\ Goto(c, "notifying") /\ UNCHANGED answer
       \/ /\ thread[c] \in {"refused", "invalid"}
          /\ Answering(c, ResultJson[thread[c]])
       \/ /\ thread[c] = "crashed"
          /\ Goto(c, "failed") /\ UNCHANGED answer
    /\ UNCHANGED <<thread, reports, callVars, toolboxVars>>

(* A plausible bug: what is not a refusal of the service is waited for on. *)
DrainedRefused(c) ==
    /\ pc[c] = "draining" /\ thread[c] \in {"applied", "refused"}
    /\ Goto(c, IF thread[c] = "applied" THEN "notifying" ELSE "cancelled")
    /\ UNCHANGED <<thread, answer, reports, callVars, toolboxVars>>

(* Only a refusal of the service turns into the cancellation it waited out; *)
(* arguments that could not be mapped, and a crash, are errors of the tool. *)
Drained(c) ==
    /\ pc[c] = "draining" /\ thread[c] \in {"applied", "refused", "invalid", "crashed"}
    /\ Goto(c, CASE thread[c] = "applied" -> "notifying"
                 [] thread[c] = "refused" -> "cancelled"
                 [] OTHER -> "failed")
    /\ UNCHANGED <<thread, answer, reports, callVars, toolboxVars>>

Operation(tool) ==
    CASE tool = "schedule_query"  -> "list_schedules"
      [] tool = "schedule_create" -> "create_schedule"
      [] tool = "schedule_update" -> "update_schedule"
      [] tool = "schedule_delete" -> "delete_schedule"

(* A plausible bug: the call forgets that it was cancelled. *)
NotifiedAnyway(c) ==
    /\ c \in Composed /\ pc[c] \in {"notifying", "unwinding"}
    /\ reports' = [reports EXCEPT ![c] = Append(@, Operation(request[c].tool))]
    /\ Answering(c, "applied")
    /\ UNCHANGED <<thread, callVars, toolboxVars>>

(* The result is handed to the client whether or not the call was given up. *)
Notified(c) ==
    /\ c \in Composed /\ pc[c] \in {"notifying", "unwinding"}
    /\ reports' = [reports EXCEPT ![c] = Append(@, Operation(request[c].tool))]
    /\ IF cancels[c] = 0 THEN Answering(c, ResultJson.applied)
       ELSE Goto(c, "cancelled") /\ UNCHANGED answer
    /\ UNCHANGED <<thread, callVars, toolboxVars>>

(* The observer has its own shield, good for one cancellation.              *)
CancelNotify(c) ==
    \/ pc[c] = "notifying" /\ Goto(c, "unwinding")
    \/ pc[c] = "unwinding" /\ Goto(c, "cancelled")

CancelComposed(c) ==
    /\ c \in Composed /\ pc[c] \notin {"new"} \cup Ends /\ cancels[c] < MaxCancels
    /\ cancels' = [cancels EXCEPT ![c] = @ + 1]
    /\ \/ CancelExecute(c)
       \/ CancelNotify(c) /\ UNCHANGED thread
       \/ pc[c] \in {"preparing", "searching", "replying"} /\ Goto(c, "cancelled") /\ UNCHANGED thread
    /\ UNCHANGED <<request, answer, reports, toolboxVars>>

(***************************************************************************)
(* The realtime agent's tool box.                                          *)
(***************************************************************************)

Unconfirmed(r) == r.tool = "schedule_delete" /\ authorization = "none"

(* The arguments are mapped before the thread is asked for.                 *)
RunTool(c, r) ==
    /\ c \notin Composed /\ Asked(c, r)
    /\ ~Unconfirmed(r) /\ RealtimeCommand(r) # NoCommand
    /\ Goto(c, "waiting")
    /\ thread' = [thread EXCEPT ![c] = "queued"]
    /\ UNCHANGED <<answer, reports, cancels, toolboxVars>>

RefuseTool(c, r) ==
    /\ c \notin Composed /\ Asked(c, r)
    /\ r.tool \notin {"location_search", "request_user_input", "end_conversation"}
    /\ Unconfirmed(r) \/ RealtimeCommand(r) = NoCommand
    /\ Answering(c, "refused")
    /\ UNCHANGED <<thread, reports, cancels, toolboxVars>>

EndConversation(c, r) ==
    /\ c \notin Composed /\ Asked(c, r) /\ r.tool = "end_conversation"
    /\ Answering(c, "ended")
    /\ UNCHANGED <<thread, reports, cancels, toolboxVars>>

(* The authorisation is moved before the question is on its way.            *)
Ask(c, r) ==
    /\ c \notin Composed /\ Asked(c, r) /\ r.tool = "request_user_input"
    /\ IF r.kind \in QuestionKinds /\ r.says
       THEN /\ authorization' = IF r.kind \in {"recurrence_scope", "confirmation"}
                                THEN r.kind ELSE "none"
            /\ Goto(c, "asking") /\ UNCHANGED answer
       ELSE Answering(c, "refused") /\ UNCHANGED authorization
    /\ UNCHANGED <<thread, reports, cancels, put, context>>

QuestionDelivered(c) ==
    /\ pc[c] = "asking"
    /\ put' = request[c].kind
    /\ Answering(c, "asked")
    /\ UNCHANGED <<thread, reports, callVars, authorization, context>>

(* The session is closed with its tool box; the next call finds a new one.  *)
Renewed == authorization' = "none" /\ put' = "none" /\ context' = [context EXCEPT !["realtime"] = "open"]

(* What the model is answered, and whether the client is handed anything:   *)
(* a refusal has nothing for it.                                            *)
ToolResult ==
    [applied |-> [output |-> "applied", outcome |-> TRUE],
     refused |-> [output |-> "refused", outcome |-> FALSE]]

RunReturns(c) ==
    /\ c \notin Composed /\ pc[c] = "waiting"
    /\ \/ /\ thread[c] \in DOMAIN ToolResult
          /\ IF ToolResult[thread[c]].outcome THEN Goto(c, "notifying") /\ UNCHANGED answer
             ELSE Answering(c, ToolResult[thread[c]].output)
          /\ UNCHANGED toolboxVars
       \/ /\ thread[c] = "crashed"
          /\ Goto(c, "failed") /\ UNCHANGED answer
          /\ Renewed \/ UNCHANGED toolboxVars
    /\ UNCHANGED <<thread, reports, callVars>>

ResultDelivered(c) ==
    /\ c \notin Composed /\ pc[c] = "notifying"
    /\ reports' = [reports EXCEPT ![c] = Append(@, Operation(request[c].tool))]
    /\ Answering(c, ToolResult.applied.output)
    /\ UNCHANGED <<thread, callVars, toolboxVars>>

(* The pump is cancelled where it stands: for good with the turn, or with   *)
(* the microphone of a continuous call, whose session is kept.              *)
CancelRealtime(c) ==
    /\ c \notin Composed /\ pc[c] \notin {"new"} \cup Ends /\ cancels[c] < MaxCancels
    /\ cancels' = [cancels EXCEPT ![c] = @ + 1]
    /\ Goto(c, "cancelled")
    /\ thread' = [thread EXCEPT ![c] = IF @ = "queued" THEN "dropped" ELSE @]
    /\ Renewed \/ UNCHANGED toolboxVars
    /\ UNCHANGED <<request, answer, reports>>

(***************************************************************************)
(* Looking for a place, and answering the model.                           *)
(***************************************************************************)

(* Without a place there is no search.  The composed agent's tool looks at  *)
(* the words before it asks a provider; the realtime agent's prepares the   *)
(* search first.                                                            *)
Rejected(r) == r.place \in {"home", "blank"}
RejectedAs(r) == IF r.place = "home" THEN "ambiguous" ELSE "invalid"

LookFor(c, r) ==
    /\ Asked(c, r) /\ r.tool = "location_search"
    /\ LET place == context[Session(c)] IN
       \/ /\ place \in {"open", "none"} /\ Answering(c, "unavailable")
          /\ context' = [context EXCEPT ![Session(c)] = "none"]
       \/ /\ place # "none" /\ Rejected(r) /\ (c \in Composed \/ place = "prepared")
          /\ Answering(c, RejectedAs(r)) /\ UNCHANGED context
       \/ /\ place = "open" /\ ~(c \in Composed /\ Rejected(r))
          /\ Goto(c, "preparing") /\ UNCHANGED <<answer, context>>
       \/ /\ place = "prepared" /\ ~Rejected(r)
          /\ Goto(c, "searching") /\ UNCHANGED <<answer, context>>
    /\ UNCHANGED <<thread, reports, cancels, authorization, put>>

(* A search area that could not be had is asked for again by the next call. *)
Prepared(c) ==
    /\ pc[c] = "preparing"
    /\ \/ /\ context' = [context EXCEPT ![Session(c)] = "prepared"]
          /\ IF Rejected(request[c]) THEN Answering(c, RejectedAs(request[c]))
             ELSE Goto(c, "searching") /\ UNCHANGED answer
       \/ Answering(c, "unavailable") /\ UNCHANGED context
    /\ UNCHANGED <<thread, reports, callVars, authorization, put>>

Found(c) ==
    /\ pc[c] = "searching"
    /\ \E what \in {"found", "unavailable"} : Answering(c, what)
    /\ UNCHANGED <<thread, reports, callVars, toolboxVars>>

(* The vendor's socket may refuse the output of a realtime call; the        *)
(* composed agent appends it to the messages of its next request.           *)
Reply(c) ==
    /\ pc[c] = "replying"
    /\ \/ Goto(c, "answered") /\ UNCHANGED toolboxVars
       \/ c \notin Composed /\ Goto(c, "failed") /\ (Renewed \/ UNCHANGED toolboxVars)
    /\ UNCHANGED <<thread, answer, reports, callVars>>

(***************************************************************************)
(* The worker threads.                                                     *)
(***************************************************************************)

Running == {c \in Calls : thread[c] = "running"}

(* A plausible bug: a thread for every call. *)
ThreadStartsAtOnce(c) ==
    /\ thread[c] = "queued"
    /\ thread' = [thread EXCEPT ![c] = "running"]
    /\ UNCHANGED <<pc, answer, reports, callVars, toolboxVars>>

ThreadStarts(c) ==
    /\ thread[c] = "queued" /\ Cardinality(Running) < Workers
    /\ thread' = [thread EXCEPT ![c] = "running"]
    /\ UNCHANGED <<pc, answer, reports, callVars, toolboxVars>>

ThreadEnds(c) ==
    /\ thread[c] = "running"
    /\ \E result \in Results(c) : thread' = [thread EXCEPT ![c] = result]
    /\ UNCHANGED <<pc, answer, reports, callVars, toolboxVars>>

Begins(c) == \E r \in Asks[c] :
    \/ Execute(c, r) \/ UnknownTool(c, r)
    \/ RunTool(c, r) \/ RefuseTool(c, r) \/ EndConversation(c, r) \/ Ask(c, r)
    \/ LookFor(c, r)
Continues(c) ==
    \/ ExecuteReturns(c) \/ Drained(c) \/ Notified(c)
    \/ QuestionDelivered(c) \/ RunReturns(c) \/ ResultDelivered(c)
    \/ Prepared(c) \/ Found(c) \/ Reply(c)
Works(c) == ThreadStarts(c) \/ ThreadEnds(c)
Cancel(c) == CancelComposed(c) \/ CancelRealtime(c)

Next == \E c \in Calls : Begins(c) \/ Continues(c) \/ Works(c) \/ Cancel(c)

(* The loop runs what is ready, the executor runs what is queued, and the   *)
(* database, the provider and the sockets answer or fail: each has its own  *)
(* timeouts.  A model need not call, and nobody need cancel.                *)
Fairness == \A c \in Calls : WF_vars(Continues(c)) /\ WF_vars(Works(c))
Spec == Init /\ [][Next]_vars /\ Fairness

-----------------------------------------------------------------------------
(* Every call is somewhere the code can await, with no more threads at work *)
(* than there are workers.                                                  *)
TypeOK ==
    /\ pc \in [Calls -> {"new", "waiting", "draining", "notifying", "unwinding", "asking",
                         "preparing", "searching", "replying"} \cup Ends]
    /\ thread \in [Calls -> {"none", "queued", "running", "dropped",
                             "applied", "refused", "invalid", "crashed"}]
    /\ answer \in [Calls -> {"nothing", "applied", "refused", "invalid", "asked", "ended",
                             "ambiguous", "unavailable", "found"}]
    /\ cancels \in [Calls -> 0..MaxCancels]
    /\ authorization \in {"none", "recurrence_scope", "confirmation"}
    /\ put \in QuestionKinds \cup {"none"}
    /\ context \in [Sessions -> Contexts]
    /\ \A c \in Calls : request[c] \in Asks[c] \cup {NoRequest}
    /\ Cardinality(Running) <= Workers

(* What a call means to those who made it: whether its command is applied,  *)
(* and what the model has heard of it.                                      *)
Outcome(c) ==
    CASE pc[c] = "new" -> "new"
      [] pc[c] # "new" /\ thread[c] \in {"queued", "running"} -> "open"
      [] pc[c] # "new" /\ thread[c] = "applied" -> "applied"
      [] OTHER -> "void"
Told(c) ==
    CASE pc[c] # "answered" -> "nothing"
      [] pc[c] = "answered" /\ answer[c] = "applied" -> "applied"
      [] OTHER -> "other"

(* Both agents keep the promise a call makes its client and its model.      *)
Promise == INSTANCE CommandPromise WITH
    outcome <- [c \in Calls |-> Outcome(c)],
    reported <- {c \in Calls : reports[c] # <<>>},
    told <- [c \in Calls |-> Told(c)],
    withdrawn <- {c \in Calls : cancels[c] > 0}
ImplementsPromise == Promise!Spec

(* conversation/schedule_tools.py:134-170: a command the composed agent has *)
(* applied is in the client's hands when the call is over, once and as what *)
(* it was, even though the call was cancelled in the middle of it.          *)
AppliedIsReported == \A c \in Composed :
    /\ pc[c] \in Ends /\ thread[c] = "applied" /\ cancels[c] <= 1
    => reports[c] = <<Operation(request[c].tool)>>

(* Whatever is asked and whenever it is cancelled, a call comes to an end:  *)
(* no cancellation leaves it waiting for a thread or a client.              *)
CallsEnd == \A c \in Calls : pc[c] # "new" ~> pc[c] \in Ends

(* realtime/schedule_tools.py:306 "Still closes the gap this was added for: *)
(* the model calling schedule_delete straight off a command with no         *)
(* question in between at all": a delete is begun only when the last        *)
(* question the client was sent is one that may authorise it.               *)
DeletesWereAsked == [][\A c \in Calls \ Composed :
    /\ pc[c] = "new" /\ pc'[c] = "waiting" /\ request'[c].tool = "schedule_delete"
    => put \in {"recurrence_scope", "confirmation"}]_vars

(* location/tools.py:142: words that name a personal place are turned away  *)
(* before any call of a provider, "so the model always sees a stable        *)
(* ambiguous_reference" (in translation).                                   *)
VagueIsStable == \A c \in Calls :
    pc[c] = "answered" /\ request[c].tool = "location_search" /\ request[c].place = "home"
    => answer[c] = "ambiguous"
=============================================================================
