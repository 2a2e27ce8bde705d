------------------------- MODULE RealtimeCallProofs -------------------------
(***************************************************************************)
(* Proofs about the calls of a session: the realtime model's continuous    *)
(* mode (ContinuousCall), for any number of responses, barge-ins, calls    *)
(* and events in flight, and the tool calls of both agents (ScheduleTools), *)
(* for every number of calls, workers and cancellations.                   *)
(***************************************************************************)
EXTENDS ScheduleTools, ContinuousCall, FiniteSetTheorems, TLAPS

(***************************************************************************)
(* The tool calls: the type invariant, the promise of a call as            *)
(* CommandPromise states it, and what the client of a composed session is  *)
(* handed.                                                                 *)
(***************************************************************************)
(* Where one call can be, taken together: what its thread, its answer and   *)
(* the client know of each other at every await.                            *)
Untouched(c) == pc[c] = "new" =>
    thread[c] = "none" /\ cancels[c] = 0 /\ reports[c] = <<>> /\ answer[c] = "nothing"
AtWork(c) ==
    /\ pc[c] \in {"waiting", "draining"} =>
        reports[c] = <<>> /\ thread[c] \notin {"none", "dropped"}
    /\ pc[c] \in {"notifying", "unwinding"} => thread[c] = "applied" /\ reports[c] = <<>>
    /\ pc[c] \in {"asking", "preparing", "searching"} => thread[c] = "none"
    /\ pc[c] = "asking" => request[c].kind \in QuestionKinds
    /\ pc[c] = "waiting" => cancels[c] = 0
    /\ pc[c] \in {"draining", "unwinding"} => cancels[c] > 0 /\ c \in Composed
(* An answer that is on its way was not withdrawn, and says applied of what *)
(* was applied and reported only.                                           *)
Spoken(c) == pc[c] \in {"replying", "answered"} =>
    /\ cancels[c] = 0
    /\ answer[c] = "applied" => thread[c] = "applied" /\ reports[c] # <<>>
    /\ answer[c] # "applied" => thread[c] \in {"none", "refused", "invalid"}
Withdrawn(c) ==
    /\ cancels[c] > 0 => pc[c] \in {"draining", "notifying", "unwinding", "cancelled", "failed"}
    /\ c \notin Composed /\ pc[c] # "cancelled" => cancels[c] = 0
Reported(c) ==
    /\ reports[c] \in {<<>>, <<Operation(request[c].tool)>>}
    /\ reports[c] # <<>> => thread[c] = "applied"
(* A composed call that is over left its thread to itself only when it was  *)
(* cancelled twice.                                                         *)
Finished(c) ==
    /\ c \in Composed /\ pc[c] \in Ends /\ cancels[c] <= 1
    /\ thread[c] \in {"queued", "running", "applied"}
    => thread[c] = "applied" /\ reports[c] # <<>>

CallInv(c) ==
    Untouched(c) /\ AtWork(c) /\ Spoken(c) /\ Withdrawn(c) /\ Reported(c) /\ Finished(c)
Domains == DOMAIN request = Calls /\ DOMAIN reports = Calls
IInv == TypeOK /\ Domains /\ \A c \in Calls : CallInv(c)

(* A step is one call's: nothing of another call changes.                   *)
Same(d) ==
    /\ pc'[d] = pc[d] /\ request'[d] = request[d] /\ thread'[d] = thread[d]
    /\ answer'[d] = answer[d] /\ reports'[d] = reports[d] /\ cancels'[d] = cancels[d]
Others(c) == \A d \in Calls \ {c} : Same(d)

Step(c) == Begins(c) \/ Continues(c) \/ Works(c) \/ Cancel(c)

(* The variables but the toolbox's keep their shape over a step.            *)
Shape ==
    /\ pc \in [Calls -> {"new", "waiting", "draining", "notifying", "unwinding", "asking",
                         "preparing", "searching", "replying"} \cup Ends]
    /\ thread \in [Calls -> {"none", "queued", "running", "dropped",
                             "applied", "refused", "invalid", "crashed"}]
    /\ answer \in [Calls -> {"nothing", "applied", "refused", "invalid", "asked", "ended",
                             "ambiguous", "unavailable", "found"}]
    /\ cancels \in [Calls -> 0..MaxCancels]
    /\ \A c \in Calls : request[c] \in Asks[c] \cup {NoRequest}
    /\ Domains
Toolbox ==
    /\ authorization \in {"none", "recurrence_scope", "confirmation"}
    /\ put \in QuestionKinds \cup {"none"}
    /\ context \in [Sessions -> Contexts]

(* The client of a call is handed a first operation.                        *)
LEMMA AppendsOne == \A x : Append(<<>>, x) = <<x>> /\ <<x>> # <<>>
  OBVIOUS

LEMMA BeginsCall ==
    ASSUME IInv, NEW c \in Calls, Begins(c)
    PROVE  Shape' /\ Others(c) /\ CallInv(c)'
<1> USE DEF IInv, TypeOK, Domains, Goto, Answering, callVars, toolboxVars, Ends
<1>1. ASSUME NEW r \in Asks[c], Execute(c, r) PROVE Shape' /\ Others(c) /\ CallInv(c)'
  BY <1>1 DEF Execute, Asked, ScheduleToolNames, Shape, Others, Same, Untouched, AtWork,
        Spoken, Withdrawn, Reported, Finished, CallInv
<1>2. ASSUME NEW r \in Asks[c], UnknownTool(c, r) PROVE Shape' /\ Others(c) /\ CallInv(c)'
  BY <1>2 DEF UnknownTool, Asked, Shape, Others, Same, Untouched, AtWork, Spoken,
        Withdrawn, Reported, Finished, CallInv
<1>3. ASSUME NEW r \in Asks[c], RunTool(c, r) PROVE Shape' /\ Others(c) /\ CallInv(c)'
  BY <1>3 DEF RunTool, Asked, Shape, Others, Same, Untouched, AtWork, Spoken, Withdrawn,
        Reported, Finished, CallInv
<1>4. ASSUME NEW r \in Asks[c], RefuseTool(c, r) PROVE Shape' /\ Others(c) /\ CallInv(c)'
  BY <1>4 DEF RefuseTool, Asked, Shape, Others, Same, Untouched, AtWork, Spoken,
        Withdrawn, Reported, Finished, CallInv
<1>5. ASSUME NEW r \in Asks[c], EndConversation(c, r) PROVE Shape' /\ Others(c) /\ CallInv(c)'
  BY <1>5 DEF EndConversation, Asked, Shape, Others, Same, Untouched, AtWork, Spoken,
        Withdrawn, Reported, Finished, CallInv
<1>6. ASSUME NEW r \in Asks[c], Ask(c, r) PROVE Shape' /\ Others(c) /\ CallInv(c)'
  <2>1. CASE r.kind \in QuestionKinds /\ r.says
    <3>1. Shape'
      BY <1>6, <2>1 DEF Ask, Asked, Shape
    <3>2. Others(c)
      BY <1>6, <2>1 DEF Ask, Asked, Others, Same
    <3>3. CallInv(c)'
      BY <1>6, <2>1 DEF Ask, Asked, Untouched, AtWork, Spoken, Withdrawn, Reported,
            Finished, CallInv
    <3> QED BY <3>1, <3>2, <3>3
  <2>2. CASE ~(r.kind \in QuestionKinds /\ r.says)
    <3>1. Shape'
      BY <1>6, <2>2 DEF Ask, Asked, Shape
    <3>2. Others(c)
      BY <1>6, <2>2 DEF Ask, Asked, Others, Same
    <3>3. CallInv(c)'
      BY <1>6, <2>2 DEF Ask, Asked, Untouched, AtWork, Spoken, Withdrawn, Reported,
            Finished, CallInv
    <3> QED BY <3>1, <3>2, <3>3
  <2> QED BY <1>6, <2>1, <2>2 DEF Ask, Asked
<1>7. ASSUME NEW r \in Asks[c], LookFor(c, r) PROVE Shape' /\ Others(c) /\ CallInv(c)'
  <2>1. /\ pc[c] = "new" /\ request' = [request EXCEPT ![c] = r]
        /\ UNCHANGED <<thread, reports, cancels>>
        /\ \/ /\ pc' = [pc EXCEPT ![c] = "replying"]
              /\ \E what \in {"unavailable", "ambiguous", "invalid"} :
                    answer' = [answer EXCEPT ![c] = what]
           \/ /\ \E where \in {"preparing", "searching"} : pc' = [pc EXCEPT ![c] = where]
              /\ UNCHANGED answer
    BY <1>7 DEF LookFor, Asked, RejectedAs
  <2>2. Shape'
    BY <2>1 DEF Shape
  <2>3. Others(c)
    BY <2>1 DEF Others, Same
  <2>4. CallInv(c)'
    BY <2>1 DEF Untouched, AtWork, Spoken, Withdrawn, Reported, Finished, CallInv
  <2> QED BY <2>2, <2>3, <2>4
<1> QED BY <1>1, <1>2, <1>3, <1>4, <1>5, <1>6, <1>7 DEF Begins

LEMMA ContinuesCall ==
    ASSUME IInv, NEW c \in Calls, Continues(c)
    PROVE  Shape' /\ Others(c) /\ CallInv(c)'
<1> USE DEF IInv, TypeOK, Domains, Goto, Answering, callVars, toolboxVars, Ends
<1>1. CASE ExecuteReturns(c)
  <2>1. CASE thread[c] = "applied"
    <3>1. Shape'
      BY <1>1, <2>1 DEF ExecuteReturns, ResultJson, Shape
    <3>2. Others(c)
      BY <1>1, <2>1 DEF ExecuteReturns, ResultJson, Others, Same
    <3>3. CallInv(c)'
      BY <1>1, <2>1 DEF ExecuteReturns, ResultJson, Untouched, AtWork, Spoken,
            Withdrawn, Reported, Finished, CallInv
    <3> QED BY <3>1, <3>2, <3>3
  <2>2. CASE thread[c] = "refused"
    <3>1. Shape'
      BY <1>1, <2>2 DEF ExecuteReturns, ResultJson, Shape
    <3>2. Others(c)
      BY <1>1, <2>2 DEF ExecuteReturns, ResultJson, Others, Same
    <3>3. CallInv(c)'
      BY <1>1, <2>2 DEF ExecuteReturns, ResultJson, Untouched, AtWork, Spoken,
            Withdrawn, Reported, Finished, CallInv
    <3> QED BY <3>1, <3>2, <3>3
  <2>3. CASE thread[c] = "invalid"
    <3>1. Shape'
      BY <1>1, <2>3 DEF ExecuteReturns, ResultJson, Shape
    <3>2. Others(c)
      BY <1>1, <2>3 DEF ExecuteReturns, ResultJson, Others, Same
    <3>3. CallInv(c)'
      BY <1>1, <2>3 DEF ExecuteReturns, ResultJson, Untouched, AtWork, Spoken,
            Withdrawn, Reported, Finished, CallInv
    <3> QED BY <3>1, <3>2, <3>3
  <2>4. CASE thread[c] = "crashed"
    <3>1. Shape'
      BY <1>1, <2>4 DEF ExecuteReturns, ResultJson, Shape
    <3>2. Others(c)
      BY <1>1, <2>4 DEF ExecuteReturns, ResultJson, Others, Same
    <3>3. CallInv(c)'
      BY <1>1, <2>4 DEF ExecuteReturns, ResultJson, Untouched, AtWork, Spoken,
            Withdrawn, Reported, Finished, CallInv
    <3> QED BY <3>1, <3>2, <3>3
  <2> QED BY <1>1, <2>1, <2>2, <2>3, <2>4 DEF ExecuteReturns, ResultJson
<1>2. CASE Drained(c)
  BY <1>2 DEF Drained, Shape, Others, Same, Untouched, AtWork, Spoken, Withdrawn,
        Reported, Finished, CallInv
<1>3. CASE Notified(c)
  <2>1. CASE cancels[c] = 0
    <3>1. Shape'
      BY <1>3, <2>1 DEF Notified, ResultJson, Shape
    <3>2. Others(c)
      BY <1>3, <2>1 DEF Notified, ResultJson, Others, Same
    <3>3. CallInv(c)'
      <4>1. request'[c] = request[c] /\ reports'[c] = Append(reports[c], Operation(request[c].tool))
        BY <1>3, <2>1 DEF Notified
      <4>2. reports[c] = <<>>
        BY <1>3, <2>1 DEF Notified, CallInv, AtWork
      <4>3. reports'[c] = <<Operation(request'[c].tool)>> /\ reports'[c] # <<>>
        BY <4>1, <4>2, AppendsOne
      <4> HIDE DEF Operation
      <4> QED BY <1>3, <2>1, <4>3 DEF Notified, ResultJson, Untouched, AtWork, Spoken,
            Withdrawn, Reported, Finished, CallInv
    <3> QED BY <3>1, <3>2, <3>3
  <2>2. CASE cancels[c] # 0
    <3>1. Shape'
      BY <1>3, <2>2 DEF Notified, ResultJson, Shape
    <3>2. Others(c)
      BY <1>3, <2>2 DEF Notified, ResultJson, Others, Same
    <3>3. CallInv(c)'
      <4>1. request'[c] = request[c] /\ reports'[c] = Append(reports[c], Operation(request[c].tool))
        BY <1>3, <2>2 DEF Notified
      <4>2. reports[c] = <<>>
        BY <1>3, <2>2 DEF Notified, CallInv, AtWork
      <4>3. reports'[c] = <<Operation(request'[c].tool)>> /\ reports'[c] # <<>>
        BY <4>1, <4>2, AppendsOne
      <4> HIDE DEF Operation
      <4> QED BY <1>3, <2>2, <4>3 DEF Notified, ResultJson, Untouched, AtWork, Spoken,
            Withdrawn, Reported, Finished, CallInv
    <3> QED BY <3>1, <3>2, <3>3
  <2> QED BY <1>3, <2>1, <2>2 DEF Notified, ResultJson
<1>4. CASE QuestionDelivered(c)
  <2>1. Shape'
    BY <1>4 DEF QuestionDelivered, Shape
  <2>2. Others(c)
    BY <1>4 DEF QuestionDelivered, Others, Same
  <2>3. CallInv(c)'
    <3>0. pc[c] = "asking" /\ CallInv(c)
      BY <1>4 DEF QuestionDelivered
    <3>4. thread[c] = "none" /\ ~(cancels[c] > 0)
      BY <3>0 DEF CallInv, AtWork, Withdrawn
    <3>5. cancels[c] = 0
      BY <3>4
    <3>6. pc'[c] = "replying" /\ answer'[c] = "asked"
      BY <1>4 DEF QuestionDelivered
    <3>1. /\ pc'[c] = "replying" /\ answer'[c] = "asked" /\ thread'[c] = "none" /\ cancels'[c] = 0
          /\ request'[c] = request[c] /\ reports'[c] = reports[c]
      BY <1>4, <3>4, <3>5, <3>6 DEF QuestionDelivered
    <3>2. Reported(c)
      BY DEF CallInv
    <3>3. Reported(c)'
      <4> HIDE DEF Operation
      <4> QED BY <3>1, <3>2, <3>4 DEF Reported
    <3> QED BY <3>1, <3>3 DEF Untouched, AtWork, Spoken, Withdrawn, Finished, CallInv
  <2> QED BY <2>1, <2>2, <2>3
<1>5. CASE RunReturns(c)
  <2>1. CASE thread[c] = "applied"
    <3>1. Shape'
      BY <1>5, <2>1 DEF RunReturns, ToolResult, Shape
    <3>2. Others(c)
      BY <1>5, <2>1 DEF RunReturns, ToolResult, Others, Same
    <3>3. CallInv(c)'
      BY <1>5, <2>1 DEF RunReturns, ToolResult, Untouched, AtWork, Spoken, Withdrawn,
            Reported, Finished, CallInv
    <3> QED BY <3>1, <3>2, <3>3
  <2>2. CASE thread[c] = "refused"
    <3>1. Shape'
      BY <1>5, <2>2 DEF RunReturns, ToolResult, Shape
    <3>2. Others(c)
      BY <1>5, <2>2 DEF RunReturns, ToolResult, Others, Same
    <3>3. CallInv(c)'
      BY <1>5, <2>2 DEF RunReturns, ToolResult, Untouched, AtWork, Spoken, Withdrawn,
            Reported, Finished, CallInv
    <3> QED BY <3>1, <3>2, <3>3
  <2>3. CASE thread[c] = "crashed"
    <3>1. Shape'
      BY <1>5, <2>3 DEF RunReturns, ToolResult, Shape
    <3>2. Others(c)
      BY <1>5, <2>3 DEF RunReturns, ToolResult, Others, Same
    <3>3. CallInv(c)'
      BY <1>5, <2>3 DEF RunReturns, ToolResult, Untouched, AtWork, Spoken, Withdrawn,
            Reported, Finished, CallInv
    <3> QED BY <3>1, <3>2, <3>3
  <2> QED BY <1>5, <2>1, <2>2, <2>3 DEF RunReturns, ToolResult
<1>6. CASE ResultDelivered(c)
  <2>1. Shape'
    BY <1>6 DEF ResultDelivered, ToolResult, Shape
  <2>2. Others(c)
    BY <1>6 DEF ResultDelivered, ToolResult, Others, Same
  <2>3. CallInv(c)'
    <3>1. request'[c] = request[c] /\ reports'[c] = Append(reports[c], Operation(request[c].tool))
      BY <1>6 DEF ResultDelivered
    <3>2. reports[c] = <<>>
      BY <1>6 DEF ResultDelivered, CallInv, AtWork
    <3>3. reports'[c] = <<Operation(request'[c].tool)>> /\ reports'[c] # <<>>
      BY <3>1, <3>2, AppendsOne
    <3> HIDE DEF Operation
    <3> QED BY <1>6, <3>3 DEF ResultDelivered, ToolResult, Untouched, AtWork,
          Spoken, Withdrawn, Reported, Finished, CallInv
  <2> QED BY <2>1, <2>2, <2>3
<1>7. CASE Prepared(c)
  <2>1. CASE pc'[c] = "searching"
    <3>1. Shape'
      BY <1>7, <2>1 DEF Prepared, RejectedAs, Shape
    <3>2. Others(c)
      BY <1>7, <2>1 DEF Prepared, RejectedAs, Others, Same
    <3>3. CallInv(c)'
      BY <1>7, <2>1 DEF Prepared, RejectedAs, Untouched, AtWork, Spoken, Withdrawn,
            Reported, Finished, CallInv
    <3> QED BY <3>1, <3>2, <3>3
  <2>2. CASE pc'[c] = "replying"
    <3>1. Shape'
      BY <1>7, <2>2 DEF Prepared, RejectedAs, Shape
    <3>2. Others(c)
      BY <1>7, <2>2 DEF Prepared, RejectedAs, Others, Same
    <3>3. CallInv(c)'
      BY <1>7, <2>2 DEF Prepared, RejectedAs, Untouched, AtWork, Spoken, Withdrawn,
            Reported, Finished, CallInv
    <3> QED BY <3>1, <3>2, <3>3
  <2> QED BY <1>7, <2>1, <2>2 DEF Prepared, RejectedAs
<1>8. CASE Found(c)
  <2>1. Shape'
    BY <1>8 DEF Found, Shape
  <2>2. Others(c)
    BY <1>8 DEF Found, Others, Same
  <2>3. CallInv(c)'
    <3>1. /\ pc[c] = "searching" /\ pc'[c] = "replying" /\ answer'[c] \in {"found", "unavailable"}
          /\ thread' = thread /\ reports' = reports /\ request' = request /\ cancels' = cancels
      BY <1>8 DEF Found, Shape
    <3>2. thread[c] = "none" /\ cancels[c] = 0
      BY <1>8, <3>1 DEF CallInv, AtWork, Withdrawn
    <3> QED BY <1>8, <3>1, <3>2 DEF Untouched, AtWork, Spoken, Withdrawn, Reported, Finished,
          CallInv
  <2> QED BY <2>1, <2>2, <2>3
<1>9. CASE Reply(c)
  <2>1. CASE pc'[c] = "answered"
    <3>1. Shape'
      BY <1>9, <2>1 DEF Reply, Shape
    <3>2. Others(c)
      BY <1>9, <2>1 DEF Reply, Others, Same
    <3>3. CallInv(c)'
      BY <1>9, <2>1 DEF Reply, Untouched, AtWork, Spoken, Withdrawn, Reported, Finished,
            CallInv
    <3> QED BY <3>1, <3>2, <3>3
  <2>2. CASE pc'[c] = "failed"
    <3>1. Shape'
      BY <1>9, <2>2 DEF Reply, Shape
    <3>2. Others(c)
      BY <1>9, <2>2 DEF Reply, Others, Same
    <3>3. CallInv(c)'
      BY <1>9, <2>2 DEF Reply, Untouched, AtWork, Spoken, Withdrawn, Reported, Finished,
            CallInv
    <3> QED BY <3>1, <3>2, <3>3
  <2> QED BY <1>9, <2>1, <2>2 DEF Reply
<1> QED BY <1>1, <1>2, <1>3, <1>4, <1>5, <1>6, <1>7, <1>8, <1>9 DEF Continues

LEMMA WorksCall ==
    ASSUME IInv, NEW c \in Calls, Works(c)
    PROVE  Shape' /\ Others(c) /\ CallInv(c)'
<1> USE DEF IInv, TypeOK, Domains, Goto, Answering, callVars, toolboxVars, Ends
<1>1. CASE ThreadStarts(c)
  BY <1>1 DEF ThreadStarts, Shape, Others, Same, Untouched, AtWork, Spoken, Withdrawn,
        Reported, Finished, CallInv
<1>2. CASE ThreadEnds(c)
  <2>1. PICK result \in Results(c) : thread' = [thread EXCEPT ![c] = result]
    BY <1>2 DEF ThreadEnds
  <2>2. result \in {"applied", "refused", "invalid", "crashed"}
    BY <2>1 DEF Results
  <2>3. thread[c] = "running" /\ UNCHANGED <<pc, answer, reports, callVars, toolboxVars>>
    BY <1>2 DEF ThreadEnds
  <2>4. Shape'
    BY <2>1, <2>2, <2>3 DEF Shape
  <2>5. Others(c)
    BY <2>1, <2>3 DEF Others, Same
  <2>6. CallInv(c)'
    BY <2>1, <2>2, <2>3 DEF Untouched, AtWork, Spoken, Withdrawn, Reported, Finished,
          CallInv
  <2> QED BY <2>4, <2>5, <2>6
<1> QED BY <1>1, <1>2 DEF Works

LEMMA CancelCall ==
    ASSUME IInv, NEW c \in Calls, Cancel(c)
    PROVE  Shape' /\ Others(c) /\ CallInv(c)'
<1> USE DEF IInv, TypeOK, Domains, Goto, Answering, callVars, toolboxVars, Ends
<1>1. CASE CancelComposed(c)
  <2>1. CASE pc[c] = "waiting"
    <3>1. Shape'
      BY <1>1, <2>1, BoundsAssumption DEF CancelComposed, CancelExecute, CancelNotify,
            Shape
    <3>2. Others(c)
      BY <1>1, <2>1 DEF CancelComposed, CancelExecute, CancelNotify, Others, Same
    <3>3. CallInv(c)'
      BY <1>1, <2>1, BoundsAssumption DEF CancelComposed, CancelExecute, CancelNotify,
            Untouched, AtWork, Spoken, Withdrawn, Reported, Finished, CallInv
    <3> QED BY <3>1, <3>2, <3>3
  <2>2. CASE pc[c] = "draining"
    <3>1. Shape'
      BY <1>1, <2>2, BoundsAssumption DEF CancelComposed, CancelExecute, CancelNotify,
            Shape
    <3>2. Others(c)
      BY <1>1, <2>2 DEF CancelComposed, CancelExecute, CancelNotify, Others, Same
    <3>3. CallInv(c)'
      BY <1>1, <2>2, BoundsAssumption DEF CancelComposed, CancelExecute, CancelNotify,
            Untouched, AtWork, Spoken, Withdrawn, Reported, Finished, CallInv
    <3> QED BY <3>1, <3>2, <3>3
  <2>3. CASE pc[c] = "notifying"
    <3>1. Shape'
      BY <1>1, <2>3, BoundsAssumption DEF CancelComposed, CancelExecute, CancelNotify,
            Shape
    <3>2. Others(c)
      BY <1>1, <2>3 DEF CancelComposed, CancelExecute, CancelNotify, Others, Same
    <3>3. CallInv(c)'
      BY <1>1, <2>3, BoundsAssumption DEF CancelComposed, CancelExecute, CancelNotify,
            Untouched, AtWork, Spoken, Withdrawn, Reported, Finished, CallInv
    <3> QED BY <3>1, <3>2, <3>3
  <2>4. CASE pc[c] = "unwinding"
    <3>1. Shape'
      BY <1>1, <2>4, BoundsAssumption DEF CancelComposed, CancelExecute, CancelNotify,
            Shape
    <3>2. Others(c)
      BY <1>1, <2>4 DEF CancelComposed, CancelExecute, CancelNotify, Others, Same
    <3>3. CallInv(c)'
      BY <1>1, <2>4, BoundsAssumption DEF CancelComposed, CancelExecute, CancelNotify,
            Untouched, AtWork, Spoken, Withdrawn, Reported, Finished, CallInv
    <3> QED BY <3>1, <3>2, <3>3
  <2>5. CASE pc[c] \in {"preparing", "searching", "replying"}
    <3>1. Shape'
      BY <1>1, <2>5, BoundsAssumption DEF CancelComposed, CancelExecute, CancelNotify,
            Shape
    <3>2. Others(c)
      BY <1>1, <2>5 DEF CancelComposed, CancelExecute, CancelNotify, Others, Same
    <3>3. CallInv(c)'
      BY <1>1, <2>5, BoundsAssumption DEF CancelComposed, CancelExecute, CancelNotify,
            Untouched, AtWork, Spoken, Withdrawn, Reported, Finished, CallInv
    <3> QED BY <3>1, <3>2, <3>3
  <2> QED BY <1>1, <2>1, <2>2, <2>3, <2>4, <2>5 DEF CancelComposed, CancelExecute,
        CancelNotify
<1>2. CASE CancelRealtime(c)
  <2>1. CASE thread[c] = "queued"
    <3>1. Shape'
      BY <1>2, <2>1, BoundsAssumption DEF CancelRealtime, Shape
    <3>2. Others(c)
      BY <1>2, <2>1 DEF CancelRealtime, Others, Same
    <3>3. CallInv(c)'
      BY <1>2, <2>1, BoundsAssumption DEF CancelRealtime, Untouched, AtWork, Spoken,
            Withdrawn, Reported, Finished, CallInv
    <3> QED BY <3>1, <3>2, <3>3
  <2>2. CASE thread[c] # "queued"
    <3>1. Shape'
      BY <1>2, <2>2, BoundsAssumption DEF CancelRealtime, Shape
    <3>2. Others(c)
      BY <1>2, <2>2 DEF CancelRealtime, Others, Same
    <3>3. CallInv(c)'
      BY <1>2, <2>2, BoundsAssumption DEF CancelRealtime, Untouched, AtWork, Spoken,
            Withdrawn, Reported, Finished, CallInv
    <3> QED BY <3>1, <3>2, <3>3
  <2> QED BY <1>2, <2>1, <2>2 DEF CancelRealtime
<1> QED BY <1>1, <1>2 DEF Cancel

(* What a tool box remembers between its calls keeps its type.              *)
LEMMA ToolboxStep ==
    ASSUME IInv, NEW c \in Calls, Step(c)
    PROVE  Toolbox'
<1> USE DEF IInv, TypeOK, Toolbox, toolboxVars
<1>1. CASE Begins(c)
  BY <1>1 DEF Begins, Execute, UnknownTool, RunTool, RefuseTool, EndConversation, Ask,
        LookFor, QuestionKinds, Contexts, Sessions, Session
<1>2. CASE Continues(c)
  <2>1. ASSUME Renewed PROVE Toolbox'
    BY <2>1 DEF Renewed, Contexts, Sessions
  <2>2. CASE ExecuteReturns(c) \/ Drained(c) \/ Notified(c) \/ ResultDelivered(c) \/ Found(c)
    BY <2>2 DEF ExecuteReturns, Drained, Notified, ResultDelivered, Found
  <2>3. CASE QuestionDelivered(c)
    <3>1. request[c].kind \in QuestionKinds
      BY <2>3 DEF QuestionDelivered, CallInv, AtWork
    <3> QED BY <2>3, <3>1 DEF QuestionDelivered
  <2>4. CASE RunReturns(c)
    BY <2>4, <2>1 DEF RunReturns
  <2>5. CASE Prepared(c)
    BY <2>5 DEF Prepared, Contexts, Sessions, Session
  <2>6. CASE Reply(c)
    BY <2>6, <2>1 DEF Reply
  <2> QED BY <1>2, <2>2, <2>3, <2>4, <2>5, <2>6 DEF Continues
<1>3. CASE Works(c)
  BY <1>3 DEF Works, ThreadStarts, ThreadEnds
<1>4. CASE Cancel(c)
  BY <1>4 DEF Cancel, CancelComposed, CancelRealtime, Renewed, Contexts, Sessions
<1> QED BY <1>1, <1>2, <1>3, <1>4 DEF Step

(* A thread starts only where one is free.                                  *)
LEMMA RunningStep ==
    ASSUME IInv, NEW c \in Calls, Step(c)
    PROVE  Cardinality(Running') <= Workers
<1>1. /\ IsFiniteSet(Running) /\ Cardinality(Running) \in Nat
      /\ Cardinality(Running) <= Workers
  BY CallsAssumption, FS_Subset, FS_CardinalityType DEF Running, IInv, TypeOK
<1>2. CASE ThreadStarts(c)
  <2>1. Running' \subseteq Running \cup {c}
    BY <1>2 DEF ThreadStarts, Running, IInv, TypeOK
  <2>2. IsFiniteSet(Running \cup {c}) /\ Cardinality(Running \cup {c}) <= Cardinality(Running) + 1
    BY <1>1, FS_AddElement
  <2>3. Cardinality(Running') <= Cardinality(Running \cup {c}) /\ Cardinality(Running') \in Nat
    BY <2>1, <2>2, FS_Subset, FS_CardinalityType
  <2>4. Cardinality(Running) < Workers
    BY <1>2 DEF ThreadStarts
  <2>5. Cardinality(Running \cup {c}) \in Nat
    BY <2>2, FS_CardinalityType
  <2> QED BY <1>1, <2>2, <2>3, <2>4, <2>5, BoundsAssumption
<1>3. CASE ~ThreadStarts(c)
  <2>1. Running' \subseteq Running
    <3>1. CASE Begins(c)
      BY <3>1 DEF Begins, Execute, UnknownTool, RunTool, RefuseTool, EndConversation,
            Ask, LookFor, Running, IInv, TypeOK
    <3>2. CASE Continues(c)
      BY <3>2 DEF Continues, ExecuteReturns, Drained, Notified, QuestionDelivered,
            RunReturns, ResultDelivered, Prepared, Found, Reply, Running
    <3>3. CASE ThreadEnds(c)
      BY <3>3 DEF ThreadEnds, Results, Running, IInv, TypeOK
    <3>4. CASE Cancel(c)
      BY <3>4 DEF Cancel, CancelComposed, CancelExecute, CancelRealtime, Running, IInv,
            TypeOK
    <3> QED BY <1>3, <3>1, <3>2, <3>3, <3>4 DEF Step, Works
  <2> QED BY <1>1, <2>1, FS_Subset, FS_CardinalityType, BoundsAssumption
<1> QED BY <1>2, <1>3

LEMMA InitInv == Init => IInv
<1> SUFFICES ASSUME Init PROVE IInv
  OBVIOUS
<1>1. Running = {}
  BY DEF Init, Running
<1>2. Cardinality(Running) <= Workers
  BY <1>1, FS_EmptySet, BoundsAssumption
<1>3. TypeOK
  BY <1>2, BoundsAssumption DEF Init, TypeOK, Contexts, Sessions
<1>4. \A c \in Calls : CallInv(c)
  BY DEF Init, CallInv, Untouched, AtWork, Spoken, Withdrawn, Reported, Finished, Ends
<1> QED BY <1>3, <1>4 DEF IInv, Domains, Init

LEMMA StepInv ==
    ASSUME IInv, NEW c \in Calls, Step(c)
    PROVE  IInv' /\ Others(c)
<1>1. Shape' /\ Others(c) /\ CallInv(c)'
  BY BeginsCall, ContinuesCall, WorksCall, CancelCall DEF Step
<1>2. TypeOK' /\ Domains'
  BY <1>1, ToolboxStep, RunningStep DEF Shape, Toolbox, TypeOK, Running
<1>3. ASSUME NEW d \in Calls \ {c} PROVE CallInv(d)'
  <2>1. CallInv(d) /\ Same(d)
    BY <1>1 DEF IInv, Others
  <2> HIDE DEF Operation
  <2> QED BY <2>1 DEF Same, CallInv, Untouched, AtWork, Spoken, Withdrawn, Reported,
        Finished
<1> QED BY <1>1, <1>2, <1>3 DEF IInv

LEMMA NextInv == IInv /\ [Next]_vars => IInv'
<1> SUFFICES ASSUME IInv, [Next]_vars PROVE IInv'
  OBVIOUS
<1>1. CASE Next
  <2>1. PICK c \in Calls : Step(c)
    BY <1>1 DEF Next, Step
  <2> QED BY <2>1, StepInv
<1>2. CASE UNCHANGED vars
  <2>1. TypeOK' /\ Domains'
    BY <1>2 DEF IInv, TypeOK, Domains, Running, vars, callVars, toolboxVars
  <2>2. \A c \in Calls : CallInv(c)'
    BY <1>2 DEF IInv, vars, CallInv, Untouched, AtWork, Spoken, Withdrawn, Reported,
          Finished
  <2> QED BY <2>1, <2>2 DEF IInv
<1> QED BY <1>1, <1>2

LEMMA InvCorrect == Spec => []IInv
BY InitInv, NextInv, PTL DEF Spec

(* Every call is somewhere the code can await, and no more threads are at   *)
(* work than there are workers, for any number of either.                   *)
THEOREM TypeCorrect == Spec => []TypeOK
<1>1. IInv => TypeOK
  BY DEF IInv
<1> QED BY InvCorrect, <1>1, PTL

(* schedule_tools.py:134-170: what a composed call applied has been handed  *)
(* to the client, once and as what it was, when the call is over, unless it *)
(* was cancelled a second time.                                             *)
THEOREM ReportsCorrect == Spec => []AppliedIsReported
<1>1. IInv => AppliedIsReported
  BY CallsAssumption DEF IInv, AppliedIsReported, CallInv, Reported, Finished
<1> QED BY InvCorrect, <1>1, PTL

-----------------------------------------------------------------------------
(* The refinement: a step of a call is one step of its promise, or none.    *)
(* What another call's outcome is, and what it told, stays as it was.       *)
LEMMA OthersKept ==
    ASSUME NEW c \in Calls, Others(c), NEW d \in Calls \ {c}
    PROVE  /\ Outcome(d)' = Outcome(d) /\ Told(d)' = Told(d)
           /\ reports'[d] = reports[d] /\ cancels'[d] = cancels[d]
BY DEF Others, Same, Outcome, Told

LEMMA MapsBegin ==
    ASSUME NEW c \in Calls, Others(c), Outcome(c) = "new", Outcome(c)' \in {"open", "void"},
           Told(c)' = Told(c), reports'[c] = reports[c], cancels'[c] = cancels[c]
    PROVE  Promise!Begin(c)
BY OthersKept DEF Promise!Begin

LEMMA MapsDecide ==
    ASSUME NEW c \in Calls, Others(c), Outcome(c) = "open", Outcome(c)' \in {"applied", "void"},
           Told(c)' = Told(c), reports'[c] = reports[c], cancels'[c] = cancels[c]
    PROVE  Promise!Decide(c)
BY OthersKept DEF Promise!Decide

LEMMA MapsReport ==
    ASSUME NEW c \in Calls, Others(c), Outcome(c) = "applied", Outcome(c)' = Outcome(c),
           Told(c)' = Told(c), reports[c] = <<>>, reports'[c] # <<>>, cancels'[c] = cancels[c]
    PROVE  Promise!Report(c)
BY OthersKept DEF Promise!Report

LEMMA MapsTell ==
    ASSUME NEW c \in Calls, Others(c), Outcome(c)' = Outcome(c), Told(c) = "nothing",
           \/ reports[c] # <<>> /\ Told(c)' = "applied"
           \/ Outcome(c) = "void" /\ Told(c)' = "other",
           reports'[c] = reports[c], cancels'[c] = cancels[c], ~(cancels[c] > 0)
    PROVE  Promise!Tell(c)
BY OthersKept DEF Promise!Tell

LEMMA MapsWithdraw ==
    ASSUME NEW c \in Calls, Others(c), Told(c) = "nothing", Told(c)' = "nothing",
           Outcome(c) # "new",
           \/ Outcome(c)' = Outcome(c)
           \/ Outcome(c) = "open" /\ Outcome(c)' = "void",
           reports'[c] = reports[c], cancels'[c] > 0
    PROVE  Promise!Withdraw(c)
BY OthersKept DEF Promise!Withdraw

LEMMA MapsNothing ==
    ASSUME NEW c \in Calls, Others(c), Outcome(c)' = Outcome(c), Told(c)' = Told(c),
           reports'[c] = reports[c], cancels'[c] = cancels[c]
    PROVE  UNCHANGED Promise!vars
BY OthersKept DEF Promise!vars

(* What a step leaves of its own call, in the promise's words.              *)
LEMMA BeginSteps ==
    ASSUME IInv, NEW c \in Calls, Begins(c)
    PROVE  Promise!Begin(c)
<1>1. Others(c) /\ Step(c) /\ CallInv(c)
  BY StepInv DEF Step, IInv
<1>2. /\ pc[c] = "new"
      /\ pc'[c] \in {"waiting", "failed", "replying", "asking", "preparing", "searching"}
      /\ reports'[c] = reports[c] /\ cancels'[c] = cancels[c]
      /\ thread'[c] \in {"queued", thread[c]}
  BY DEF Begins, Execute, UnknownTool, RunTool, RefuseTool, EndConversation, Ask, LookFor,
         Asked, Goto, Answering, toolboxVars, IInv, TypeOK
<1>3. Outcome(c) = "new" /\ Told(c) = "nothing" /\ Told(c)' = "nothing"
  BY <1>2 DEF Outcome, Told
<1>4. Outcome(c)' \in {"open", "void"}
  BY <1>1, <1>2 DEF Outcome, CallInv, Untouched
<1> QED BY <1>1, <1>2, <1>3, <1>4, MapsBegin

LEMMA WorkSteps ==
    ASSUME IInv, NEW c \in Calls, Works(c)
    PROVE  Promise!Decide(c) \/ UNCHANGED Promise!vars
<1>1. Others(c) /\ CallInv(c)
  BY StepInv DEF Step, IInv
<1>2. /\ pc'[c] = pc[c] /\ answer'[c] = answer[c]
      /\ reports'[c] = reports[c] /\ cancels'[c] = cancels[c]
      /\ thread[c] \in {"queued", "running"}
  BY DEF Works, ThreadStarts, ThreadEnds, callVars
<1>3. pc[c] # "new"
  BY <1>1, <1>2 DEF CallInv, Untouched
<1>4. Told(c)' = Told(c) /\ Outcome(c) = "open"
  BY <1>2, <1>3 DEF Told, Outcome
<1>5. CASE ThreadStarts(c)
  <2>1. thread'[c] = "running"
    BY <1>5 DEF ThreadStarts, IInv, TypeOK
  <2> QED BY <1>1, <1>2, <1>3, <1>4, <2>1, MapsNothing DEF Outcome
<1>6. CASE ThreadEnds(c)
  <2>1. thread'[c] \in {"applied", "refused", "invalid", "crashed"}
    BY <1>6 DEF ThreadEnds, Results, IInv, TypeOK
  <2>2. Outcome(c)' \in {"applied", "void"}
    BY <1>2, <1>3, <2>1 DEF Outcome
  <2> QED BY <1>1, <1>2, <1>4, <2>2, MapsDecide
<1> QED BY <1>5, <1>6 DEF Works

LEMMA CancelSteps ==
    ASSUME IInv, NEW c \in Calls, Cancel(c)
    PROVE  Promise!Withdraw(c)
<1>1. Others(c)
  BY StepInv DEF Step
<1>2. /\ pc[c] \notin {"new"} \cup Ends /\ reports'[c] = reports[c]
      /\ cancels'[c] = cancels[c] + 1 /\ cancels[c] \in 0..MaxCancels
  BY DEF Cancel, CancelComposed, CancelRealtime, IInv, TypeOK
<1>3. pc'[c] \in {"draining", "cancelled", "unwinding"}
  BY DEF Cancel, CancelComposed, CancelRealtime, CancelExecute, CancelNotify, Goto,
        IInv, TypeOK
<1>4. \/ thread'[c] = thread[c]
      \/ thread[c] = "queued" /\ thread'[c] = "dropped"
  <2>1. CASE UNCHANGED thread
    BY <2>1
  <2>2. CASE thread' = [thread EXCEPT ![c] = IF @ = "queued" THEN "dropped" ELSE @]
    <3>1. thread'[c] = IF thread[c] = "queued" THEN "dropped" ELSE thread[c]
      BY <2>2 DEF IInv, TypeOK
    <3> QED BY <3>1
  <2>3. CASE CancelComposed(c)
    BY <2>1, <2>2, <2>3 DEF CancelComposed, CancelExecute
  <2>4. CASE CancelRealtime(c)
    BY <2>2, <2>4 DEF CancelRealtime
  <2> QED BY <2>3, <2>4 DEF Cancel
<1>5. Told(c) = "nothing" /\ Told(c)' = "nothing" /\ Outcome(c) # "new"
  BY <1>2, <1>3 DEF Told, Outcome, Ends
<1>6. \/ Outcome(c)' = Outcome(c)
      \/ Outcome(c) = "open" /\ Outcome(c)' = "void"
  BY <1>2, <1>3, <1>4 DEF Outcome
<1>7. cancels'[c] > 0
  BY <1>2, BoundsAssumption
<1> QED BY <1>1, <1>2, <1>5, <1>6, <1>7, MapsWithdraw

LEMMA ContinueSteps ==
    ASSUME IInv, NEW c \in Calls, Continues(c)
    PROVE  Promise!Report(c) \/ Promise!Tell(c) \/ UNCHANGED Promise!vars
<1>1. Others(c) /\ CallInv(c)
  BY StepInv DEF Step, IInv
<1>2. /\ thread'[c] = thread[c] /\ cancels'[c] = cancels[c]
      /\ pc[c] \notin {"new", "answered"} /\ pc'[c] # "new"
  BY DEF Continues, ExecuteReturns, Drained, Notified, QuestionDelivered, RunReturns,
         ResultDelivered, Prepared, Found, Reply, Goto, Answering, callVars, IInv, TypeOK
<1>3. Outcome(c)' = Outcome(c) /\ Told(c) = "nothing"
  BY <1>2 DEF Outcome, Told
<1>4. CASE Notified(c) \/ ResultDelivered(c)
  <2>1. thread[c] = "applied" /\ reports[c] = <<>>
    BY <1>1, <1>4 DEF CallInv, AtWork, Notified, ResultDelivered
  <2>2. reports'[c] = Append(reports[c], Operation(request[c].tool))
    BY <1>4 DEF Notified, ResultDelivered, IInv, Domains
  <2>3. reports'[c] # <<>>
    BY <2>1, <2>2, AppendsOne
  <2>4. pc'[c] # "answered"
    BY <1>4 DEF Notified, ResultDelivered, Goto, Answering, IInv, TypeOK
  <2> QED BY <1>1, <1>2, <1>3, <2>1, <2>3, <2>4, MapsReport DEF Outcome, Told
<1>5. CASE Reply(c) /\ pc'[c] = "answered"
  <2>1. /\ reports'[c] = reports[c] /\ answer'[c] = answer[c] /\ pc[c] = "replying"
    BY <1>5 DEF Reply, callVars
  <2>2. cancels[c] = 0
        /\ (answer[c] = "applied" => reports[c] # <<>>)
        /\ (answer[c] # "applied" => thread[c] \in {"none", "refused", "invalid"})
    BY <1>1, <2>1 DEF CallInv, Spoken
  <2>3. \/ reports[c] # <<>> /\ Told(c)' = "applied"
        \/ Outcome(c) = "void" /\ Told(c)' = "other"
    BY <1>5, <2>1, <2>2 DEF Outcome, Told
  <2> QED BY <1>1, <1>2, <1>3, <2>1, <2>2, <2>3, MapsTell
<1>6. CASE ~(Notified(c) \/ ResultDelivered(c)) /\ ~(Reply(c) /\ pc'[c] = "answered")
  <2>1. reports'[c] = reports[c] /\ pc'[c] # "answered"
    BY <1>6 DEF Continues, ExecuteReturns, Drained, QuestionDelivered, RunReturns,
                Prepared, Found, Reply, Goto, Answering, callVars, IInv, TypeOK
  <2> QED BY <1>1, <1>2, <1>3, <2>1, MapsNothing DEF Told
<1> QED BY <1>4, <1>5, <1>6

LEMMA InitMaps == Init => Promise!Init
BY DEF Init, Promise!Init, Outcome, Told

LEMMA NextMaps == IInv /\ [Next]_vars => [Promise!Next]_(Promise!vars)
<1> SUFFICES ASSUME IInv, [Next]_vars PROVE Promise!Next \/ UNCHANGED Promise!vars
  OBVIOUS
<1>1. CASE Next
  <2>1. PICK c \in Calls : Step(c)
    BY <1>1 DEF Next, Step
  <2> QED BY <2>1, BeginSteps, WorkSteps, CancelSteps, ContinueSteps DEF Step,
        Promise!Next
<1>2. CASE UNCHANGED vars
  BY <1>2 DEF vars, Promise!vars, Outcome, Told
<1> QED BY <1>1, <1>2

(* Both agents keep the promise of a call, whenever it is cancelled: the    *)
(* client is handed what was applied, once, the model is told of it only    *)
(* then, and nothing more once the call is withdrawn.                       *)
THEOREM PromiseKept == Spec => ImplementsPromise
BY InitMaps, NextMaps, InvCorrect, PTL DEF Spec, ImplementsPromise, Promise!Spec

(***************************************************************************)
(* The continuous call.                                                    *)
(***************************************************************************)
(* The next start or end of a response after the first i events of w is an *)
(* end, when the vendor is at response run.                                *)
DoneAt(w, i, j) ==
    /\ j > i /\ w[j].kind = "done"
    /\ \A k \in 1 .. Len(w) : i < k /\ k < j => w[k].kind # "created"
EndAfter(w, run, i) ==
    \/ \E j \in 1 .. Len(w) : DoneAt(w, i, j)
    \/ run # 0 /\ \A j \in 1 .. Len(w) : j > i => w[j].kind # "created"

OfResponse == {"created"} \cup Items

(* What belongs to a response is followed by its end.                      *)
Ended(w, run) == \A i \in 1 .. Len(w) : w[i].kind \in OfResponse => EndAfter(w, run, i)

(* Responses are numbered in the order in which they start.                *)
Rises(e, f) ==
    /\ f.kind \in Items => f.response >= e.response
    /\ f.kind = "created" => f.response > e.response
Rising(w, run, started) ==
    /\ \A i \in 1 .. Len(w) : /\ w[i].response <= started
                              /\ w[i].kind \in OfResponse => w[i].response >= 1
    /\ \A i, j \in 1 .. Len(w) : i < j /\ w[i].kind = "created" => Rises(w[i], w[j])
    /\ run # 0 => \A i \in 1 .. Len(w) : w[i].kind = "created" => run >= w[i].response
    /\ run <= started

(* What was cut was started before, and is passed over.                    *)
Past(r) == /\ r <= vendor.started
           /\ \A i \in 1 .. Len(wire) : wire[i].kind = "created" => wire[i].response > r
CutIsPast ==
    /\ Past(log.reading) /\ \A r \in log.cut : Past(r)
    /\ ~suppressed =>
           /\ vendor.running \notin log.cut
           /\ \A i \in 1 .. Len(wire) : wire[i].kind \in Items => wire[i].response \notin log.cut

EndFirst == EndAfter(wire, vendor.running, 0)

(* What the pump holds is of a response whose end is still to come.        *)
HeldIsOpen ==
    /\ mode # "dead" /\ flags.followup => EndFirst
    /\ mode = "open" /\ awaiting \in {"call", "end"} => EndFirst
    /\ mode = "open" /\ turn.ends /\ awaiting # "settle" => EndFirst /\ flags.stop
    /\ mode # "open" => ~turn.ends

(* Whoever expects a reply is owed one, or is being given it.              *)
Owed ==
    /\ log.owed >= 0
    /\ mode = "open" /\ flags.followup => log.owed >= 1
    /\ mode = "open" /\ flags.expecting => log.owed >= 1 \/ (~suppressed /\ EndFirst)

(* Every request in flight is of a start or an end of its own.             *)
Marks(w) == {i \in 1 .. Len(w) : w[i].kind \in {"created", "done"}}
Flag(b) == IF b THEN 1 ELSE 0
RequestsBounded ==
    Len(up) + Cardinality(Marks(wire)) + Flag(flags.responding) + Flag(vendor.running # 0)
        <= 2 * vendor.started

PumpInv ==
    /\ CallTypeOK
    /\ Ended(wire, vendor.running) /\ Rising(wire, vendor.running, vendor.started)
    /\ CutIsPast /\ HeldIsOpen /\ Owed /\ RequestsBounded /\ RespondingIsReal

(***************************************************************************)
(* The wire: what one more event, or one less, changes.                    *)
(***************************************************************************)

LEMMA AppendEvent ==
  ASSUME NEW w \in Seq(Events), NEW e \in Events
  PROVE  /\ Append(w, e) \in Seq(Events) /\ Len(w) \in Nat /\ Len(Append(w, e)) = Len(w) + 1
         /\ \A i \in 1 .. Len(w) : Append(w, e)[i] = w[i]
         /\ Append(w, e)[Len(w) + 1] = e
         /\ \A i \in 1 .. Len(w) : w[i] \in Events
  OBVIOUS

LEMMA TailEvent ==
  ASSUME NEW w \in Seq(Events), w # <<>>
  PROVE  /\ Tail(w) \in Seq(Events) /\ Len(w) \in Nat \ {0} /\ Len(Tail(w)) = Len(w) - 1
         /\ \A i \in 1 .. Len(Tail(w)) : i + 1 \in 1 .. Len(w) /\ Tail(w)[i] = w[i + 1]
         /\ Head(w) = w[1] /\ Head(w) \in Events
         /\ \A i \in 1 .. Len(w) : w[i] \in Events
  OBVIOUS

(* How the vendor's next event goes with the responses it has running.      *)
Fits(e, run, next) ==
    \/ e.kind = "created" /\ run = 0
    \/ e.kind = "done"
    \/ e.kind # "created" /\ next = run

LEMMA EndStays ==
  ASSUME NEW w \in Seq(Events), NEW e \in Events, NEW run \in Nat, NEW next \in Nat,
         NEW i \in 0 .. Len(w), EndAfter(w, run, i), Fits(e, run, next)
  PROVE  EndAfter(Append(w, e), next, i)
<1> DEFINE v == Append(w, e)
<1>0. /\ Len(w) \in Nat /\ Len(v) = Len(w) + 1 /\ v[Len(w) + 1] = e
      /\ \A j \in 1 .. Len(w) : v[j] = w[j]
  BY AppendEvent
<1> HIDE DEF v
<1>1. CASE \E j \in 1 .. Len(w) : DoneAt(w, i, j)
  <2>1. PICK j \in 1 .. Len(w) : DoneAt(w, i, j)
    BY <1>1
  <2>2. j \in 1 .. Len(v) /\ DoneAt(v, i, j)
    BY <1>0, <2>1 DEF DoneAt
  <2> QED BY <2>2 DEF EndAfter, v
<1>2. CASE run # 0 /\ \A j \in 1 .. Len(w) : j > i => w[j].kind # "created"
  <2>1. CASE e.kind = "done"
    <3>1. Len(v) \in 1 .. Len(v) /\ DoneAt(v, i, Len(v))
      BY <1>0, <1>2, <2>1 DEF DoneAt
    <3> QED BY <3>1 DEF EndAfter, v
  <2>2. CASE e.kind # "created" /\ next = run
    <3>1. next # 0 /\ \A j \in 1 .. Len(v) : j > i => v[j].kind # "created"
      BY <1>0, <1>2, <2>2
    <3> QED BY <3>1 DEF EndAfter, v
  <2> QED BY <1>2, <2>1, <2>2 DEF Fits
<1> QED BY <1>1, <1>2 DEF EndAfter

LEMMA EndedAppends ==
  ASSUME NEW w \in Seq(Events), NEW e \in Events, NEW run \in Nat, NEW next \in Nat,
         Ended(w, run), Fits(e, run, next), e.kind \in OfResponse => next # 0
  PROVE  Ended(Append(w, e), next)
<1> DEFINE v == Append(w, e)
<1>0. /\ Len(w) \in Nat /\ Len(v) = Len(w) + 1 /\ v[Len(w) + 1] = e
      /\ \A j \in 1 .. Len(w) : v[j] = w[j]
  BY AppendEvent
<1> HIDE DEF v
<1>1. ASSUME NEW i \in 1 .. Len(v), v[i].kind \in OfResponse PROVE EndAfter(v, next, i)
  <2>1. CASE i \in 1 .. Len(w)
    <3>1. EndAfter(w, run, i) /\ i \in 0 .. Len(w)
      BY <1>0, <1>1, <2>1 DEF Ended
    <3> QED BY <3>1, EndStays DEF v
  <2>2. CASE i = Len(w) + 1
    BY <1>0, <1>1, <2>2 DEF EndAfter
  <2> QED BY <1>0, <2>1, <2>2
<1> QED BY <1>1 DEF Ended, v

LEMMA EndShifts ==
  ASSUME NEW w \in Seq(Events), w # <<>>, NEW run \in Nat, NEW i \in Nat,
         EndAfter(w, run, i + 1)
  PROVE  EndAfter(Tail(w), run, i)
<1> DEFINE v == Tail(w)
<1>0. /\ Len(w) \in Nat \ {0} /\ Len(v) = Len(w) - 1
      /\ \A j \in 1 .. Len(v) : j + 1 \in 1 .. Len(w) /\ v[j] = w[j + 1]
  BY TailEvent
<1> HIDE DEF v
<1>1. CASE \E j \in 1 .. Len(w) : DoneAt(w, i + 1, j)
  <2>1. PICK j \in 1 .. Len(w) : DoneAt(w, i + 1, j)
    BY <1>1
  <2>2. PICK k \in 1 .. Len(v) : j = k + 1
    BY <1>0, <2>1 DEF DoneAt
  <2>3. k > i /\ v[k].kind = "done"
    BY <1>0, <2>1, <2>2 DEF DoneAt
  <2>4. ASSUME NEW h \in 1 .. Len(v), i < h, h < k PROVE v[h].kind # "created"
    <3>1. h + 1 \in 1 .. Len(w) /\ i + 1 < h + 1 /\ h + 1 < j /\ v[h] = w[h + 1]
      BY <1>0, <2>2, <2>4
    <3> QED BY <2>1, <3>1 DEF DoneAt
  <2>5. DoneAt(v, i, k)
    BY <2>3, <2>4 DEF DoneAt
  <2> QED BY <2>5 DEF EndAfter, v
<1>2. CASE run # 0 /\ \A j \in 1 .. Len(w) : j > i + 1 => w[j].kind # "created"
  <2>1. ASSUME NEW j \in 1 .. Len(v), j > i PROVE v[j].kind # "created"
    <3>1. j + 1 \in 1 .. Len(w) /\ j + 1 > i + 1 /\ v[j] = w[j + 1]
      BY <1>0, <2>1
    <3> QED BY <1>2, <3>1
  <2> QED BY <1>2, <2>1 DEF EndAfter, v
<1> QED BY <1>1, <1>2 DEF EndAfter

LEMMA EndHolds ==
  ASSUME NEW w \in Seq(Events), w # <<>>, NEW run \in Nat, EndAfter(w, run, 0)
  PROVE  /\ Head(w).kind # "created"
         /\ Head(w).kind # "done" => EndAfter(Tail(w), run, 0)
<1>0. Len(w) \in Nat \ {0} /\ Head(w) = w[1] /\ 1 \in 1 .. Len(w)
  BY TailEvent
<1>1. CASE \E j \in 1 .. Len(w) : DoneAt(w, 0, j)
  <2>1. PICK j \in 1 .. Len(w) : DoneAt(w, 0, j)
    BY <1>1
  <2>2. w[1].kind # "created"
    BY <1>0, <2>1 DEF DoneAt
  <2>3. w[1].kind # "done" => DoneAt(w, 1, j)
    BY <1>0, <2>1 DEF DoneAt
  <2> QED BY <1>0, <2>2, <2>3, EndShifts DEF EndAfter
<1>2. CASE run # 0 /\ \A j \in 1 .. Len(w) : j > 0 => w[j].kind # "created"
  <2>1. EndAfter(w, run, 0 + 1)
    BY <1>2 DEF EndAfter
  <2> QED BY <1>0, <1>2, <2>1, EndShifts
<1> QED BY <1>1, <1>2 DEF EndAfter

LEMMA EndedShifts ==
  ASSUME NEW w \in Seq(Events), w # <<>>, NEW run \in Nat, Ended(w, run)
  PROVE  /\ Ended(Tail(w), run)
         /\ Head(w).kind \in OfResponse => EndAfter(Tail(w), run, 0)
<1> DEFINE v == Tail(w)
<1>0. /\ Len(w) \in Nat \ {0} /\ Head(w) = w[1] /\ Len(v) = Len(w) - 1
      /\ \A j \in 1 .. Len(v) : j + 1 \in 1 .. Len(w) /\ v[j] = w[j + 1]
  BY TailEvent
<1> HIDE DEF v
<1>1. ASSUME NEW i \in 1 .. Len(v), v[i].kind \in OfResponse PROVE EndAfter(v, run, i)
  <2>1. i + 1 \in 1 .. Len(w) /\ v[i] = w[i + 1] /\ i \in Nat
    BY <1>0
  <2>2. EndAfter(w, run, i + 1)
    BY <1>1, <2>1 DEF Ended
  <2> QED BY <2>1, <2>2, EndShifts DEF v
<1>2. w[1].kind \in OfResponse => EndAfter(w, run, 0 + 1)
  BY <1>0 DEF Ended
<1> QED BY <1>0, <1>1, <1>2, EndShifts DEF Ended, v

LEMMA EndIsDue ==
  ASSUME wire \in Seq(Events), EndFirst PROVE DoneComing
BY DEF EndFirst, EndAfter, DoneAt, DoneComing

LEMMA EndIsDueNext ==
  ASSUME wire' \in Seq(Events), EndFirst' PROVE DoneComing'
BY DEF EndFirst, EndAfter, DoneAt, DoneComing

LEMMA RisesOn ==
  ASSUME NEW w \in Seq(Events), NEW e \in Events, NEW run \in Nat, NEW next \in Nat,
         NEW started \in Nat, NEW starts \in Nat, started <= starts, next <= starts,
         Rising(w, run, started), e.response <= starts,
         next = run \/ next = 0 \/ next > started,
         e.kind \in OfResponse => e.response >= 1,
         e.kind = "created" => e.response > started /\ next = e.response,
         e.kind \in Items => run # 0 /\ e.response = run
  PROVE  Rising(Append(w, e), next, starts)
<1> DEFINE v == Append(w, e)
<1>0. /\ Len(w) \in Nat /\ Len(v) = Len(w) + 1 /\ v[Len(w) + 1] = e
      /\ \A j \in 1 .. Len(w) : v[j] = w[j] /\ w[j] \in Events
  BY AppendEvent
<1> HIDE DEF v
<1>a. /\ \A j \in 1 .. Len(w) : w[j].response \in Nat
      /\ e.response \in Nat
  BY <1>0, ContinuousCallAssumption DEF Events
<1>b. \A j \in 1 .. Len(w) : w[j].response <= started
  BY DEF Rising
<1>1. ASSUME NEW i \in 1 .. Len(v)
      PROVE  v[i].response <= starts /\ (v[i].kind \in OfResponse => v[i].response >= 1)
  <2>1. CASE i \in 1 .. Len(w)
    <3>1. v[i] = w[i] /\ w[i].response <= started /\ w[i].response \in Nat
      BY <1>0, <1>a, <1>b, <2>1
    <3>2. w[i].kind \in OfResponse => w[i].response >= 1
      BY <2>1 DEF Rising
    <3> QED BY <3>1, <3>2
  <2>2. CASE i = Len(w) + 1
    BY <1>0, <2>2
  <2> QED BY <1>0, <2>1, <2>2
<1>2. ASSUME NEW i \in 1 .. Len(v), NEW j \in 1 .. Len(v), i < j, v[i].kind = "created"
      PROVE  Rises(v[i], v[j])
  <2>1. i \in 1 .. Len(w) /\ v[i] = w[i]
    BY <1>0, <1>2
  <2>2. CASE j \in 1 .. Len(w)
    <3>1. Rises(w[i], w[j]) /\ v[j] = w[j]
      BY <1>0, <1>2, <2>1, <2>2 DEF Rising
    <3> QED BY <2>1, <3>1 DEF Rises
  <2>3. CASE j = Len(w) + 1
    <3>1. w[i].kind = "created" /\ w[i].response <= started /\ w[i].response \in Nat
      BY <1>2, <1>a, <1>b, <2>1
    <3>2. run # 0 => run >= w[i].response
      BY <2>1, <3>1 DEF Rising
    <3>3. e.kind = "created" => e.response > w[i].response
      BY <1>a, <3>1
    <3>4. e.kind \in Items => e.response >= w[i].response
      BY <3>2
    <3> QED BY <1>0, <2>1, <2>3, <3>3, <3>4 DEF Rises
  <2> QED BY <1>0, <2>2, <2>3
<1>3. ASSUME next # 0, NEW i \in 1 .. Len(v), v[i].kind = "created" PROVE next >= v[i].response
  <2>1. CASE i \in 1 .. Len(w)
    <3>1. v[i] = w[i] /\ w[i].response <= started /\ w[i].response \in Nat /\ w[i].kind = "created"
      BY <1>0, <1>3, <1>a, <1>b, <2>1
    <3>2. run # 0 => run >= w[i].response
      BY <2>1, <3>1 DEF Rising
    <3> QED BY <1>3, <3>1, <3>2
  <2>2. CASE i = Len(w) + 1
    BY <1>0, <1>3, <1>a, <2>2
  <2> QED BY <1>0, <2>1, <2>2
<1> QED BY <1>1, <1>2, <1>3 DEF Rising, v

LEMMA RisesOff ==
  ASSUME NEW w \in Seq(Events), w # <<>>, NEW run \in Nat, NEW started \in Nat,
         Rising(w, run, started)
  PROVE  /\ Rising(Tail(w), run, started)
         /\ Head(w).response <= started
         /\ Head(w).kind \in OfResponse => Head(w).response >= 1
         /\ Head(w).kind = "created" =>
               /\ \A i \in 1 .. Len(Tail(w)) : Rises(Head(w), Tail(w)[i])
               /\ run # 0 => run >= Head(w).response
<1> DEFINE v == Tail(w)
<1>0. /\ Len(w) \in Nat \ {0} /\ Head(w) = w[1] /\ Len(v) = Len(w) - 1 /\ 1 \in 1 .. Len(w)
      /\ \A j \in 1 .. Len(v) : j + 1 \in 1 .. Len(w) /\ v[j] = w[j + 1]
  BY TailEvent
<1> HIDE DEF v
<1>1. ASSUME NEW i \in 1 .. Len(v)
      PROVE  v[i].response <= started /\ (v[i].kind \in OfResponse => v[i].response >= 1)
  BY <1>0 DEF Rising
<1>2. ASSUME NEW i \in 1 .. Len(v), NEW j \in 1 .. Len(v), i < j, v[i].kind = "created"
      PROVE  Rises(v[i], v[j])
  <2>1. /\ i + 1 \in 1 .. Len(w) /\ j + 1 \in 1 .. Len(w) /\ i + 1 < j + 1
        /\ v[i] = w[i + 1] /\ v[j] = w[j + 1]
    BY <1>0, <1>2
  <2>2. Rises(w[i + 1], w[j + 1])
    BY <1>2, <2>1 DEF Rising
  <2> QED BY <2>1, <2>2 DEF Rises
<1>3. ASSUME run # 0, NEW i \in 1 .. Len(v), v[i].kind = "created" PROVE run >= v[i].response
  BY <1>0, <1>3 DEF Rising
<1>4. ASSUME NEW i \in 1 .. Len(v), w[1].kind = "created" PROVE Rises(w[1], v[i])
  <2>1. i + 1 \in 1 .. Len(w) /\ 1 < i + 1 /\ v[i] = w[i + 1]
    BY <1>0, <1>4
  <2>2. Rises(w[1], w[i + 1])
    BY <1>0, <1>4, <2>1 DEF Rising
  <2> QED BY <2>1, <2>2 DEF Rises
<1>5. /\ w[1].response <= started /\ (w[1].kind \in OfResponse => w[1].response >= 1)
      /\ w[1].kind = "created" /\ run # 0 => run >= w[1].response
  BY <1>0 DEF Rising
<1>6. run <= started
  BY DEF Rising
<1> QED BY <1>0, <1>1, <1>2, <1>3, <1>4, <1>5, <1>6 DEF Rising, v

LEMMA MarksFinite ==
  ASSUME NEW w \in Seq(Events)
  PROVE  IsFiniteSet(Marks(w)) /\ Cardinality(Marks(w)) \in Nat
<1>1. Marks(w) \subseteq 1 .. Len(w) /\ Len(w) \in Nat
  BY DEF Marks
<1>2. IsFiniteSet(1 .. Len(w))
  BY <1>1, FS_Interval
<1> QED BY <1>1, <1>2, FS_Subset, FS_CardinalityType

LEMMA MarksAppend ==
  ASSUME NEW w \in Seq(Events), NEW e \in Events
  PROVE  /\ e.kind \in {"created", "done"} =>
                Cardinality(Marks(Append(w, e))) = Cardinality(Marks(w)) + 1
         /\ e.kind \notin {"created", "done"} => Marks(Append(w, e)) = Marks(w)
<1>1. e.kind \in {"created", "done"} => Marks(Append(w, e)) = Marks(w) \cup {Len(w) + 1}
  BY AppendEvent DEF Marks
<1>2. e.kind \notin {"created", "done"} => Marks(Append(w, e)) = Marks(w)
  BY AppendEvent DEF Marks
<1>3. Len(w) + 1 \notin Marks(w)
  BY DEF Marks
<1> QED BY <1>1, <1>2, <1>3, MarksFinite, FS_AddElement

LEMMA MarksTail ==
  ASSUME NEW w \in Seq(Events), w # <<>>
  PROVE  Cardinality(Marks(Tail(w))) = Cardinality(Marks(w))
             - (IF Head(w).kind \in {"created", "done"} THEN 1 ELSE 0)
<1> DEFINE v == Tail(w)
           Rest == Marks(w) \ {1}
           shift == [i \in Marks(v) |-> i + 1]
<1>0. /\ Len(w) \in Nat \ {0} /\ Head(w) = w[1] /\ Len(v) = Len(w) - 1 /\ v \in Seq(Events)
      /\ \A j \in 1 .. Len(v) : j + 1 \in 1 .. Len(w) /\ v[j] = w[j + 1]
  BY TailEvent
<1> HIDE DEF v
<1>1. \A i \in Marks(v) : i + 1 \in Rest
  BY <1>0 DEF Marks
<1>2. \A k \in Rest : \E i \in Marks(v) : k = i + 1
  <2> SUFFICES ASSUME NEW k \in Rest PROVE \E i \in Marks(v) : k = i + 1
    OBVIOUS
  <2>1. PICK i \in 1 .. Len(v) : k = i + 1
    BY <1>0 DEF Marks
  <2> QED BY <1>0, <2>1 DEF Marks
<1>3. shift \in Bijection(Marks(v), Rest)
  <2>1. shift \in [Marks(v) -> Rest]
    BY <1>1
  <2>2. \A i, j \in Marks(v) : shift[i] = shift[j] => i = j
    BY DEF Marks
  <2>3. \A k \in Rest : \E i \in Marks(v) : shift[i] = k
    BY <1>2
  <2> QED BY <2>1, <2>2, <2>3 DEF Bijection, Injection, Surjection, IsInjective
<1>4. IsFiniteSet(Marks(v)) /\ IsFiniteSet(Marks(w)) /\ Cardinality(Marks(w)) \in Nat
  BY <1>0, MarksFinite
<1>5. Cardinality(Marks(v)) = Cardinality(Rest)
  BY <1>3, <1>4, FS_Bijection DEF ExistsBijection
<1>6. 1 \in Marks(w) <=> w[1].kind \in {"created", "done"}
  BY <1>0 DEF Marks
<1>7. Cardinality(Rest) = Cardinality(Marks(w)) - (IF 1 \in Marks(w) THEN 1 ELSE 0)
  <2>1. Cardinality(Marks(w) \ {1}) =
            IF 1 \in Marks(w) THEN Cardinality(Marks(w)) - 1 ELSE Cardinality(Marks(w))
    BY <1>4, FS_RemoveElement
  <2> QED BY <1>4, <2>1
<1> QED BY <1>0, <1>5, <1>6, <1>7 DEF v

(***************************************************************************)
(* The vendor's steps.                                                     *)
(***************************************************************************)

Vendors == [running : 0 .. MaxResponses, started : 0 .. MaxResponses,
            answers : SUBSET Responses, given : SUBSET Items,
            voice : {"quiet", "talking", "due"}, heard : 0 .. MaxSpeech]
Requests == {"create", "cancel"}

(* What sending e goes with.                                               *)
Sends(e) ==
    /\ e \in Events /\ wire' = Append(wire, e) /\ Len(wire) < MaxWire
    /\ e.kind = "created" =>
           /\ vendor.running = 0 /\ vendor.started < MaxResponses
           /\ e.response = vendor.started + 1
           /\ vendor'.started = vendor.started + 1 /\ vendor'.running = vendor.started + 1
    /\ e.kind # "created" => vendor'.started = vendor.started
    /\ e.kind = "done" => vendor.running # 0 /\ vendor'.running = 0 /\ e.response = vendor.running
    /\ e.kind \in Items => vendor.running # 0 /\ e.response = vendor.running
    /\ e.kind \notin {"created", "done"} => vendor'.running = vendor.running
    /\ e.kind \in {"speech", "idle", "error"} => e.response = 0
Keeps == wire' = wire /\ vendor'.running = vendor.running /\ vendor'.started = vendor.started

Serves ==
    /\ vendor' \in Vendors
    /\ UNCHANGED <<stream, mode, awaiting, flags, suppressed, turn, log>>
    /\ \/ up' = up
       \/ up # <<>> /\ up' = Tail(up) /\ (Head(up) = "create" => vendor'.running # 0)
    /\ Keeps \/ \E e \in Events : Sends(e)

LEMMA EventFacts ==
  /\ \A k \in {"speech", "created", "done", "idle", "error"} \cup Items :
        \A r \in 0 .. MaxResponses : /\ Event(k, r) \in Events
                                     /\ Event(k, r).kind = k /\ Event(k, r).response = r
  /\ 0 \in 0 .. MaxResponses /\ MaxResponses \in Nat /\ MaxWire \in Nat /\ MaxSpeech \in Nat
BY ContinuousCallAssumption DEF Event, Events

LEMMA Responds ==
  ASSUME CallTypeOK, Room, NEW origin \in {"speech", "vendor", "followup"}, Respond(origin)
  PROVE  /\ vendor' \in Vendors /\ vendor'.running # 0
         /\ \E e \in Events : Sends(e)
<1>0. /\ vendor \in Vendors /\ vendor.running = 0 /\ vendor.started \in Nat
      /\ vendor.started + 1 \in 1 .. MaxResponses /\ Len(wire) < MaxWire
  BY ContinuousCallAssumption DEF CallTypeOK, Vendors, Respond, Room
<1>1. PICK r \in 1 .. MaxResponses : r = vendor.started + 1
  BY <1>0
<1>2. /\ vendor' \in Vendors
      /\ vendor'.running = vendor.started + 1 /\ vendor'.started = vendor.started + 1
  <2>1. vendor.answers \cup {r} \in SUBSET Responses /\ r \in 0 .. MaxResponses
    BY <1>0 DEF Vendors, Responses
  <2>2. \/ vendor' = [vendor EXCEPT !.running = r, !.started = r, !.voice = "quiet",
                                   !.answers = @ \cup {r}]
        \/ vendor' = [vendor EXCEPT !.running = r, !.started = r]
    BY <1>1 DEF Respond
  <2>3. PICK A \in SUBSET Responses : A = vendor.answers \cup {r}
    BY <2>1
  <2>4. CASE vendor' = [vendor EXCEPT !.running = r, !.started = r, !.voice = "quiet",
                                      !.answers = A]
    BY <1>0, <1>1, <2>1, <2>4 DEF Vendors
  <2>5. CASE vendor' = [vendor EXCEPT !.running = r, !.started = r]
    BY <1>0, <1>1, <2>1, <2>5 DEF Vendors
  <2> QED BY <1>0, <2>2, <2>3, <2>4, <2>5 DEF Vendors
<1>3. wire' = Append(wire, Event("created", vendor.started + 1))
  BY DEF Respond, Emit
<1>4. Sends(Event("created", vendor.started + 1))
  BY <1>0, <1>2, <1>3, EventFacts DEF Sends, Items
<1> QED BY <1>0, <1>2, <1>4 DEF Sends

LEMMA VendorServes == CallTypeOK /\ Vendor => Serves
<1> SUFFICES ASSUME CallTypeOK, Vendor PROVE Serves
  OBVIOUS
<1>0. /\ vendor \in Vendors /\ up \in Seq(Requests) /\ wire \in Seq(Events)
      /\ vendor.running \in 0 .. MaxResponses
  BY DEF CallTypeOK, Vendors, Requests
<1>1. CASE SpeechStarts
  <2>1. /\ vendor' = [vendor EXCEPT !.voice = "talking", !.heard = @ + 1]
        /\ vendor.heard < MaxSpeech /\ Len(wire) < MaxWire
        /\ wire' = Append(wire, Event("speech", 0))
        /\ UNCHANGED <<up, stream, mode, awaiting, flags, suppressed, turn, log>>
    BY <1>1 DEF SpeechStarts, Emit, Room, Ours
  <2>2. vendor' \in Vendors /\ vendor'.running = vendor.running /\ vendor'.started = vendor.started
    <3>1. vendor.heard + 1 \in 0 .. MaxSpeech
      BY <1>0, <2>1, EventFacts DEF Vendors
    <3> QED BY <1>0, <2>1, <3>1 DEF Vendors
  <2>3. Sends(Event("speech", 0))
    BY <2>1, <2>2, EventFacts DEF Sends, Items
  <2> QED BY <2>1, <2>2, <2>3 DEF Serves, Sends
<1>2. CASE SpeechStops
  <2>1. /\ vendor' = [vendor EXCEPT !.voice = "due"] /\ wire' = wire /\ up' = up
        /\ UNCHANGED <<stream, mode, awaiting, flags, suppressed, turn, log>>
    BY <1>2 DEF SpeechStops, Ours
  <2>2. vendor' \in Vendors /\ Keeps
    BY <1>0, <2>1 DEF Vendors, Keeps
  <2> QED BY <2>1, <2>2 DEF Serves
<1>3. CASE AnswerSpeech \/ Volunteer
  <2>1. PICK origin \in {"speech", "vendor"} : Room /\ Respond(origin) /\ UNCHANGED <<up, Ours>>
    BY <1>3 DEF AnswerSpeech, Volunteer
  <2> QED BY <2>1, Responds DEF Serves, Ours
<1>4. CASE Say
  <2>1. PICK item \in Items \ vendor.given :
            /\ Emit(item, vendor.running)
            /\ vendor' = [vendor EXCEPT !.given = @ \cup {item}]
    BY <1>4 DEF Say
  <2>2. vendor' \in Vendors /\ vendor'.running = vendor.running /\ vendor'.started = vendor.started
    BY <1>0, <2>1 DEF Vendors
  <2>3. Sends(Event(item, vendor.running))
    <3>1. /\ wire' = Append(wire, Event(item, vendor.running)) /\ vendor.running # 0
          /\ Len(wire) < MaxWire /\ item \in Items
      BY <1>4, <2>1 DEF Say, Emit, Room
    <3>2. item \notin {"created", "done", "speech", "idle", "error"}
      BY <3>1 DEF Items
    <3> QED BY <1>0, <2>2, <3>1, <3>2, EventFacts DEF Sends
  <2> QED BY <1>4, <2>2, <2>3 DEF Serves, Say, Ours, Sends
<1>5. CASE FinishResponse \/ (TakeCancel /\ vendor.running # 0)
  <2>1. /\ vendor' = [vendor EXCEPT !.running = 0, !.given = {}] /\ vendor.running # 0
        /\ wire' = Append(wire, Event("done", vendor.running)) /\ Len(wire) < MaxWire
        /\ UNCHANGED <<stream, mode, awaiting, flags, suppressed, turn, log>>
    BY <1>5 DEF FinishResponse, TakeCancel, Emit, Room, Ours
  <2>2. vendor' \in Vendors /\ vendor'.running = 0 /\ vendor'.started = vendor.started
    BY <1>0, <2>1, EventFacts DEF Vendors
  <2>3. Sends(Event("done", vendor.running))
    BY <1>0, <2>1, <2>2, EventFacts DEF Sends, Items
  <2>4. up' = up \/ (up # <<>> /\ up' = Tail(up) /\ Head(up) = "cancel")
    BY <1>5 DEF FinishResponse, TakeCancel
  <2> QED BY <2>1, <2>2, <2>3, <2>4 DEF Serves, Sends
<1>6. CASE TakeCancel /\ vendor.running = 0
  <2>1. /\ vendor' = [vendor EXCEPT !.running = 0, !.given = {}] /\ Len(wire) < MaxWire
        /\ wire' = Append(wire, Event("idle", 0))
        /\ up # <<>> /\ up' = Tail(up) /\ Head(up) = "cancel"
        /\ UNCHANGED <<stream, mode, awaiting, flags, suppressed, turn, log>>
    BY <1>6 DEF TakeCancel, Emit, Room, Ours
  <2>2. vendor' \in Vendors /\ vendor'.running = vendor.running /\ vendor'.started = vendor.started
    BY <1>0, <1>6, <2>1, EventFacts DEF Vendors
  <2>3. Sends(Event("idle", 0))
    BY <2>1, <2>2, EventFacts DEF Sends, Items
  <2> QED BY <2>1, <2>2, <2>3 DEF Serves, Sends
<1>7. CASE TakeCreate /\ vendor.running = 0
  <2>1. /\ Room /\ Respond("followup") /\ up # <<>> /\ up' = Tail(up)
        /\ UNCHANGED <<stream, mode, awaiting, flags, suppressed, turn, log>>
    BY <1>7 DEF TakeCreate, Ours
  <2> QED BY <2>1, Responds DEF Serves
<1>8. CASE (TakeCreate /\ vendor.running # 0) \/ VendorFails
  <2>1. /\ vendor' = vendor /\ Len(wire) < MaxWire /\ wire' = Append(wire, Event("error", 0))
        /\ UNCHANGED <<stream, mode, awaiting, flags, suppressed, turn, log>>
        /\ up' = up \/ (up # <<>> /\ up' = Tail(up) /\ vendor.running # 0)
    BY <1>8 DEF TakeCreate, VendorFails, Emit, Room, Ours
  <2>2. Sends(Event("error", 0))
    BY <2>1, EventFacts DEF Sends, Items
  <2> QED BY <1>0, <2>1, <2>2 DEF Serves, Sends
<1> QED BY <1>1, <1>2, <1>3, <1>4, <1>5, <1>6, <1>7, <1>8 DEF Vendor

LEMMA CallTypes ==
  ASSUME CallTypeOK
  PROVE  /\ wire \in Seq(Events) /\ up \in Seq(Requests) /\ vendor \in Vendors
         /\ vendor.running \in Nat /\ vendor.started \in Nat /\ vendor.started <= MaxResponses
         /\ Len(wire) \in Nat /\ Len(wire) <= MaxWire /\ MaxWire \in Nat /\ MaxResponses \in Nat
         /\ \A i \in 1 .. Len(wire) : wire[i] \in Events /\ wire[i].response \in Nat
         /\ log.reading \in Nat /\ log.cut \subseteq Responses /\ Responses \subseteq Nat \ {0}
         /\ suppressed \in BOOLEAN /\ flags.responding \in BOOLEAN
         /\ log.owed \in Int
<1>1. wire \in Seq(Events) /\ \A i \in 1 .. Len(wire) : wire[i] \in Events
  BY DEF CallTypeOK
<1>2. \A e \in Events : e.response \in Nat
  BY ContinuousCallAssumption DEF Events
<1> QED BY <1>1, <1>2, ContinuousCallAssumption DEF CallTypeOK, Vendors, Requests, Responses

LEMMA SendsFits ==
  ASSUME CallTypeOK, vendor' \in Vendors, NEW e \in Events, Sends(e)
  PROVE  /\ Fits(e, vendor.running, vendor'.running)
         /\ vendor'.running \in Nat /\ vendor'.started \in Nat
         /\ e.kind \in OfResponse => vendor'.running # 0
         /\ vendor.started <= vendor'.started
<1>1. vendor'.running \in Nat /\ vendor'.started \in Nat
  BY ContinuousCallAssumption DEF Vendors
<1>2. e.kind \in {"speech", "created", "done", "idle", "error"} \cup Items
  BY DEF Events
<1>3. Fits(e, vendor.running, vendor'.running)
  BY <1>2 DEF Sends, Fits, Items
<1>4. e.kind \in OfResponse => vendor'.running # 0
  BY CallTypes, <1>1 DEF Sends, OfResponse, Items
<1> QED BY <1>1, <1>3, <1>4, CallTypes DEF Sends

LEMMA VendorWire ==
  ASSUME PumpInv, Serves
  PROVE  /\ wire' \in Seq(Events) /\ Len(wire') <= MaxWire
         /\ (Ended(wire, vendor.running))' /\ (Rising(wire, vendor.running, vendor.started))'
         /\ EndFirst => EndFirst'
<1>0. CallTypeOK /\ Ended(wire, vendor.running) /\ Rising(wire, vendor.running, vendor.started)
  BY DEF PumpInv
<1>1. CASE Keeps
  BY <1>0, <1>1, CallTypes DEF Keeps, EndFirst
<1>2. CASE \E e \in Events : Sends(e)
  <2>1. PICK e \in Events : Sends(e)
    BY <1>2
  <2>2. /\ Fits(e, vendor.running, vendor'.running)
        /\ vendor'.running \in Nat /\ vendor'.started \in Nat
        /\ e.kind \in OfResponse => vendor'.running # 0
        /\ vendor.started <= vendor'.started /\ wire' = Append(wire, e) /\ Len(wire) < MaxWire
    BY <1>0, <2>1, SendsFits DEF Serves, Sends
  <2>3. wire' \in Seq(Events) /\ Len(wire') <= MaxWire
    BY <1>0, <2>2, CallTypes, AppendEvent
  <2>4. Ended(Append(wire, e), vendor'.running)
    BY <1>0, <2>2, CallTypes, EndedAppends
  <2>5. EndAfter(wire, vendor.running, 0) => EndAfter(Append(wire, e), vendor'.running, 0)
    <3>1. 0 \in 0 .. Len(wire)
      BY <1>0, CallTypes
    <3> QED BY <1>0, <2>2, <3>1, CallTypes, EndStays
  <2>6. Rising(Append(wire, e), vendor'.running, vendor'.started)
    <3>1. e.kind \in {"speech", "created", "done", "idle", "error"} \cup Items
      BY DEF Events
    <3>2. vendor.running <= vendor.started
      BY <1>0 DEF Rising
    <3>3. /\ vendor'.running <= vendor'.started /\ e.response <= vendor'.started
          /\ vendor'.running = vendor.running \/ vendor'.running = 0
                \/ vendor'.running > vendor.started
      BY <1>0, <2>1, <2>2, <3>1, <3>2, CallTypes DEF Sends, Items
    <3>4. /\ e.kind \in OfResponse => e.response >= 1
          /\ e.kind = "created" => e.response > vendor.started /\ vendor'.running = e.response
          /\ e.kind \in Items => vendor.running # 0 /\ e.response = vendor.running
      BY <1>0, <2>1, CallTypes DEF Sends, OfResponse
    <3> QED BY <1>0, <2>2, <3>3, <3>4, CallTypes, RisesOn
  <2> QED BY <2>2, <2>3, <2>4, <2>5, <2>6 DEF EndFirst
<1> QED BY <1>1, <1>2 DEF Serves

LEMMA VendorCut == ASSUME PumpInv, Serves PROVE CutIsPast'
<1>0. /\ CallTypeOK /\ CutIsPast /\ Rising(wire, vendor.running, vendor.started)
      /\ UNCHANGED <<suppressed, log>>
  BY DEF PumpInv, Serves
<1>1. CASE Keeps
  BY <1>0, <1>1 DEF Keeps, CutIsPast, Past
<1>2. CASE \E e \in Events : Sends(e)
  <2>1. PICK e \in Events : Sends(e)
    BY <1>2
  <2>2. /\ vendor'.running \in Nat /\ vendor'.started \in Nat
        /\ vendor.started <= vendor'.started /\ wire' = Append(wire, e)
    BY <1>0, <2>1, SendsFits DEF Serves, Sends
  <2>3. /\ Len(wire) \in Nat /\ Len(wire') = Len(wire) + 1 /\ wire'[Len(wire) + 1] = e
        /\ \A j \in 1 .. Len(wire) : wire'[j] = wire[j]
    BY <1>0, <2>2, CallTypes, AppendEvent
  <2>4. ASSUME NEW r \in Nat, Past(r) PROVE Past(r)'
    <3>1. r <= vendor.started
      BY <2>4 DEF Past
    <3>2. ASSUME NEW i \in 1 .. Len(wire'), wire'[i].kind = "created" PROVE wire'[i].response > r
      <4>1. CASE i \in 1 .. Len(wire)
        BY <2>3, <2>4, <3>2, <4>1 DEF Past
      <4>2. CASE i = Len(wire) + 1
        BY <1>0, <2>1, <2>3, <3>1, <3>2, <4>2, CallTypes DEF Sends
      <4> QED BY <2>3, <4>1, <4>2
    <3> QED BY <1>0, <2>2, <3>1, <3>2, CallTypes DEF Past
  <2>5. ASSUME ~suppressed PROVE vendor'.running \notin log.cut
    <3>1. vendor.running \notin log.cut /\ \A r \in log.cut : r <= vendor.started /\ r # 0
      BY <1>0, <2>5, CallTypes DEF CutIsPast, Past
    <3>2. \/ vendor'.running = vendor.running \/ vendor'.running = 0
          \/ vendor'.running = vendor.started + 1
      BY <2>1 DEF Sends
    <3> QED BY <1>0, <3>1, <3>2, CallTypes
  <2>6. ASSUME ~suppressed, NEW i \in 1 .. Len(wire'), wire'[i].kind \in Items
        PROVE  wire'[i].response \notin log.cut
    <3>1. CASE i \in 1 .. Len(wire)
      BY <1>0, <2>3, <2>6, <3>1 DEF CutIsPast
    <3>2. CASE i = Len(wire) + 1
      BY <1>0, <2>1, <2>3, <2>6, <3>2 DEF CutIsPast, Sends
    <3> QED BY <2>3, <3>1, <3>2
  <2>7. Past(log.reading)' /\ \A r \in log.cut : Past(r)'
    BY <1>0, <2>4, CallTypes DEF CutIsPast
  <2> QED BY <1>0, <2>5, <2>6, <2>7 DEF CutIsPast
<1> QED BY <1>1, <1>2 DEF Serves

LEMMA FewerRequests ==
  ASSUME up \in Seq(Requests), up' = up \/ (up # <<>> /\ up' = Tail(up))
  PROVE  up' \in Seq(Requests) /\ Len(up') \in Nat /\ Len(up) \in Nat /\ Len(up') <= Len(up)
OBVIOUS

(* The bound, with the number of marks and the two flags named.            *)
LEMMA BoundAs ==
  ASSUME NEW n \in Nat, n = Cardinality(Marks(wire))
  PROVE  RequestsBounded <=> Len(up) + n + Flag(flags.responding) + Flag(vendor.running # 0)
                                 <= 2 * vendor.started
BY DEF RequestsBounded

LEMMA BoundAsNext ==
  ASSUME NEW n \in Nat, n = Cardinality(Marks(wire)')
  PROVE  RequestsBounded' <=> Len(up') + n + Flag(flags'.responding) + Flag(vendor'.running # 0)
                                  <= 2 * vendor'.started
BY DEF RequestsBounded, Flag

LEMMA VendorBound == ASSUME PumpInv, Serves PROVE RequestsBounded'
<1>0. CallTypeOK /\ RequestsBounded /\ flags' = flags
  BY DEF PumpInv, Serves
<1>1. /\ Len(up') \in Nat /\ Len(up) \in Nat /\ Len(up') <= Len(up)
  BY <1>0, CallTypes, FewerRequests DEF Serves
<1>2. PICK n \in Nat : n = Cardinality(Marks(wire))
  BY <1>0, CallTypes, MarksFinite
<1>3. Len(up) + n + Flag(flags.responding) + Flag(vendor.running # 0) <= 2 * vendor.started
  BY <1>0, <1>2, BoundAs
<1>4. flags.responding \in BOOLEAN /\ vendor.running \in Nat /\ vendor.started \in Nat
  BY <1>0, CallTypes
<1>5. CASE Keeps
  <2>1. n = Cardinality(Marks(wire)')
    BY <1>2, <1>5 DEF Keeps, Marks
  <2>2. Len(up') + n + Flag(flags'.responding) + Flag(vendor'.running # 0) <= 2 * vendor'.started
    BY <1>0, <1>1, <1>3, <1>4, <1>5 DEF Keeps, Flag
  <2> QED BY <2>1, <2>2, BoundAsNext
<1>6. CASE \E e \in Events : Sends(e)
  <2>1. PICK e \in Events : Sends(e)
    BY <1>6
  <2>2. vendor'.running \in Nat /\ vendor'.started \in Nat /\ wire' = Append(wire, e)
    BY <1>0, <2>1, SendsFits DEF Serves, Sends
  <2>3. PICK m \in Nat : /\ m = Cardinality(Marks(wire)')
                         /\ e.kind \in {"created", "done"} => m = n + 1
                         /\ e.kind \notin {"created", "done"} => m = n
    <3>1. Marks(wire)' = Marks(Append(wire, e))
      BY <2>2 DEF Marks
    <3>2. /\ e.kind \in {"created", "done"} => Cardinality(Marks(Append(wire, e))) = n + 1
          /\ e.kind \notin {"created", "done"} => Cardinality(Marks(Append(wire, e))) = n
      BY <1>0, <1>2, CallTypes, MarksAppend
    <3> QED BY <3>1, <3>2
  <2>4. Len(up') + m + Flag(flags'.responding) + Flag(vendor'.running # 0) <= 2 * vendor'.started
    <3>1. CASE e.kind = "created"
      <4>1. /\ vendor.running = 0 /\ vendor'.started = vendor.started + 1 /\ m = n + 1
        BY <2>1, <2>3, <3>1 DEF Sends
      <4> QED BY <1>0, <1>1, <1>3, <1>4, <4>1 DEF Flag
    <3>2. CASE e.kind = "done"
      <4>1. /\ vendor.running # 0 /\ vendor'.running = 0 /\ vendor'.started = vendor.started
            /\ m = n + 1
        BY <2>1, <2>3, <3>2 DEF Sends
      <4> QED BY <1>0, <1>1, <1>3, <1>4, <4>1 DEF Flag
    <3>3. CASE e.kind \notin {"created", "done"}
      <4>1. vendor'.running = vendor.running /\ vendor'.started = vendor.started /\ m = n
        BY <2>1, <2>3, <3>3 DEF Sends
      <4> QED BY <1>0, <1>1, <1>3, <1>4, <4>1 DEF Flag
    <3> QED BY <3>1, <3>2, <3>3
  <2> QED BY <2>3, <2>4, BoundAsNext
<1> QED BY <1>5, <1>6 DEF Serves

LEMMA VendorReal == ASSUME PumpInv, Serves PROVE RespondingIsReal'
<1>0. CallTypeOK /\ RespondingIsReal /\ mode' = mode /\ flags' = flags
  BY DEF PumpInv, Serves
<1> SUFFICES ASSUME mode = "open", flags.responding
             PROVE  DoneComing' \/ \E i \in DOMAIN up' : up'[i] = "create"
  BY <1>0 DEF RespondingIsReal
<1>1. /\ wire \in Seq(Events) /\ up \in Seq(Requests) /\ Len(wire) \in Nat
      /\ vendor.running \in Nat /\ vendor'.running \in Nat
  BY <1>0, CallTypes, ContinuousCallAssumption DEF Serves, Vendors
<1>2. CASE DoneComing
  <2>1. CASE Keeps
    BY <1>2, <2>1 DEF Keeps, DoneComing
  <2>2. CASE \E e \in Events : Sends(e)
    <3>1. PICK e \in Events : Sends(e)
      BY <2>2
    <3>2. /\ wire' = Append(wire, e) /\ Len(wire') = Len(wire) + 1 /\ wire'[Len(wire) + 1] = e
          /\ \A j \in 1 .. Len(wire) : wire'[j] = wire[j]
          /\ DOMAIN wire = 1 .. Len(wire) /\ DOMAIN wire' = 1 .. Len(wire) + 1
      BY <1>1, <3>1, AppendEvent DEF Sends
    <3>3. CASE vendor.running = 0
      BY <1>1, <1>2, <3>2, <3>3 DEF DoneComing
    <3>4. CASE vendor.running # 0
      <4>1. CASE e.kind = "done"
        BY <1>1, <3>2, <4>1 DEF DoneComing
      <4>2. CASE e.kind # "done"
        BY <3>1, <3>4, <4>2 DEF DoneComing, Sends
      <4> QED BY <4>1, <4>2
    <3> QED BY <3>3, <3>4
  <2> QED BY <2>1, <2>2 DEF Serves
<1>3. CASE \E i \in DOMAIN up : up[i] = "create"
  <2>1. PICK i \in 1 .. Len(up) : up[i] = "create"
    BY <1>1, <1>3
  <2>2. CASE up' = up
    BY <1>3, <2>2
  <2>3. CASE up # <<>> /\ up' = Tail(up) /\ (Head(up) = "create" => vendor'.running # 0)
    <3>1. CASE i = 1
      BY <1>1, <2>1, <2>3, <3>1 DEF DoneComing
    <3>2. CASE i # 1
      <4>1. i - 1 \in DOMAIN up' /\ up'[i - 1] = up[i]
        BY <1>1, <2>1, <2>3, <3>2
      <4> QED BY <2>1, <4>1
    <3> QED BY <3>1, <3>2
  <2> QED BY <2>2, <2>3 DEF Serves
<1> QED BY <1>0, <1>2, <1>3 DEF RespondingIsReal

LEMMA VendorInv == ASSUME PumpInv, Vendor PROVE PumpInv'
<1>0. Serves /\ CallTypeOK
  BY VendorServes DEF PumpInv
<1>1. /\ wire' \in Seq(Events) /\ Len(wire') <= MaxWire
      /\ (Ended(wire, vendor.running))' /\ (Rising(wire, vendor.running, vendor.started))'
      /\ EndFirst => EndFirst'
  BY <1>0, VendorWire
<1>2. CutIsPast' /\ RequestsBounded' /\ RespondingIsReal'
  BY <1>0, VendorCut, VendorBound, VendorReal
<1>3. HeldIsOpen' /\ Owed'
  BY <1>0, <1>1 DEF PumpInv, HeldIsOpen, Owed, Serves
<1>4. CallTypeOK'
  <2>1. up' \in Seq(Requests) /\ Len(up') <= 2 * MaxResponses
    <3>1. /\ up' \in Seq(Requests) /\ Len(up') \in Nat /\ Len(up) \in Nat /\ Len(up') <= Len(up)
      BY <1>0, CallTypes, FewerRequests DEF Serves
    <3>2. Len(up) <= 2 * MaxResponses /\ MaxResponses \in Nat
      BY <1>0, ContinuousCallAssumption DEF CallTypeOK
    <3> QED BY <3>1, <3>2
  <2>2. UNCHANGED <<stream, mode, awaiting, flags, suppressed, turn, log>> /\ vendor' \in Vendors
    BY <1>0 DEF Serves
  <2> QED BY <1>0, <1>1, <2>1, <2>2 DEF CallTypeOK, Vendors, Requests
<1> QED BY <1>1, <1>2, <1>3, <1>4 DEF PumpInv

(***************************************************************************)
(* The session's steps: the vendor is as it was, and at most the first     *)
(* event is taken off the wire.                                            *)
(***************************************************************************)

Takes == wire # <<>> /\ wire' = Tail(wire)
Hears == vendor' = vendor /\ (wire' = wire \/ Takes)
(* What the step leaves is not past the end of a response.                  *)
Before == wire' = wire \/ (Takes /\ Head(wire).kind # "done")

LEMMA HearsWire ==
  ASSUME PumpInv, Hears
  PROVE  /\ wire' \in Seq(Events) /\ Len(wire') <= MaxWire
         /\ (Ended(wire, vendor.running))' /\ (Rising(wire, vendor.running, vendor.started))'
         /\ EndFirst /\ Before => EndFirst'
         /\ Takes /\ Head(wire).kind \in OfResponse => EndFirst'
         /\ Takes /\ Head(wire).kind = "created" => ~EndFirst
<1>0. /\ CallTypeOK /\ Ended(wire, vendor.running)
      /\ Rising(wire, vendor.running, vendor.started)
  BY DEF PumpInv
<1>1. CASE wire' = wire
  <2>1. wire' = wire /\ vendor' = vendor
    BY <1>1 DEF Hears
  <2>2. wire # <<>> => Tail(wire) # wire
    BY <1>0, CallTypes, TailEvent
  <2> QED BY <1>0, <2>1, <2>2, CallTypes DEF EndFirst, Takes
<1>2. CASE Takes
  <2>1. wire # <<>> /\ wire' = Tail(wire) /\ vendor' = vendor
    BY <1>2 DEF Hears, Takes
  <2>2. Tail(wire) \in Seq(Events) /\ Len(Tail(wire)) <= MaxWire
    BY <1>0, <2>1, CallTypes, TailEvent
  <2>3. /\ Ended(Tail(wire), vendor.running)
        /\ Head(wire).kind \in OfResponse => EndAfter(Tail(wire), vendor.running, 0)
    BY <1>0, <2>1, CallTypes, EndedShifts
  <2>4. Rising(Tail(wire), vendor.running, vendor.started)
    BY <1>0, <2>1, CallTypes, RisesOff
  <2>5. EndAfter(wire, vendor.running, 0) =>
          /\ Head(wire).kind # "created"
          /\ Head(wire).kind # "done" => EndAfter(Tail(wire), vendor.running, 0)
    BY <1>0, <2>1, CallTypes, EndHolds
  <2>6. Before => Head(wire).kind # "done"
    BY <1>0, <2>1, CallTypes, TailEvent DEF Before
  <2> QED BY <2>1, <2>2, <2>3, <2>4, <2>5, <2>6 DEF EndFirst
<1> QED BY <1>1, <1>2 DEF Hears

LEMMA HearsPast ==
  ASSUME CallTypeOK, Hears, NEW r \in Nat, Past(r)
  PROVE  Past(r)'
<1>1. CASE wire' = wire
  BY <1>1 DEF Past, Hears
<1>2. CASE Takes
  <2>1. /\ vendor' = vendor
        /\ \A i \in 1 .. Len(wire') : i + 1 \in 1 .. Len(wire) /\ wire'[i] = wire[i + 1]
    BY <1>2, CallTypes, TailEvent DEF Hears, Takes
  <2> QED BY <2>1 DEF Past
<1> QED BY <1>1, <1>2 DEF Hears

LEMMA HearsCut ==
  ASSUME PumpInv, Hears, log'.cut \subseteq log.cut \cup {log.reading},
         ~suppressed' => ~suppressed /\ log'.cut = log.cut,
         log'.reading \in {log.reading, 0}
  PROVE  CutIsPast'
<1>0. /\ CallTypeOK /\ CutIsPast /\ log.reading \in Nat /\ log.cut \subseteq Nat
      /\ vendor' = vendor
  BY CallTypes DEF PumpInv, Hears
<1>1. Past(log.reading)' /\ \A r \in log'.cut : Past(r)'
  <2>1. Past(log.reading) /\ (\A r \in log.cut : Past(r)) /\ Past(0)
    BY <1>0, CallTypes DEF CutIsPast, Past
  <2>2. ASSUME NEW r \in log.cut \cup {log.reading, 0} PROVE Past(r)'
    BY <1>0, <2>1, <2>2, HearsPast
  <2>3. log'.reading = log.reading => Past(log.reading)'
    BY <2>2 DEF Past
  <2>4. log'.reading = 0 => Past(log.reading)'
    BY <2>2 DEF Past
  <2> QED BY <2>2, <2>3, <2>4
<1>2. ASSUME ~suppressed', NEW i \in 1 .. Len(wire'), wire'[i].kind \in Items
      PROVE  wire'[i].response \notin log'.cut
  <2>1. ~suppressed /\ log'.cut = log.cut
    BY <1>2
  <2>2. CASE wire' = wire
    BY <1>0, <1>2, <2>1, <2>2 DEF CutIsPast
  <2>3. CASE Takes
    <3>1. i + 1 \in 1 .. Len(wire) /\ wire'[i] = wire[i + 1]
      BY <1>0, <2>3, CallTypes, TailEvent DEF Takes
    <3> QED BY <1>0, <1>2, <2>1, <3>1 DEF CutIsPast
  <2> QED BY <2>2, <2>3 DEF Hears
<1>3. ~suppressed' => vendor'.running \notin log'.cut
  BY <1>0 DEF CutIsPast
<1> QED BY <1>1, <1>2, <1>3 DEF CutIsPast

LEMMA HearsBound ==
  ASSUME PumpInv, Hears, flags'.responding \in BOOLEAN, up' \in Seq(Requests),
         Len(up') + Flag(flags'.responding) <= Len(up) + Flag(flags.responding)
              + (IF Takes /\ Head(wire).kind \in {"created", "done"} THEN 1 ELSE 0)
  PROVE  RequestsBounded'
<1>0. CallTypeOK /\ RequestsBounded /\ vendor' = vendor
  BY DEF PumpInv, Hears
<1>1. PICK n \in Nat : n = Cardinality(Marks(wire))
  BY <1>0, CallTypes, MarksFinite
<1>2. Len(up) + n + Flag(flags.responding) + Flag(vendor.running # 0) <= 2 * vendor.started
  BY <1>0, <1>1, BoundAs
<1>3. PICK m \in Nat : /\ m = Cardinality(Marks(wire)')
                       /\ Takes /\ Head(wire).kind \in {"created", "done"} => m = n - 1
                       /\ ~(Takes /\ Head(wire).kind \in {"created", "done"}) => m = n
  <2>1. CASE Takes
    <3>1. Cardinality(Marks(Tail(wire))) =
             n - (IF Head(wire).kind \in {"created", "done"} THEN 1 ELSE 0)
      BY <1>0, <1>1, <2>1, CallTypes, MarksTail DEF Takes
    <3>2. Marks(wire)' = Marks(Tail(wire)) /\ Cardinality(Marks(Tail(wire))) \in Nat
      BY <1>0, <2>1, CallTypes, TailEvent, MarksFinite DEF Takes, Marks
    <3> QED BY <1>1, <2>1, <3>1, <3>2
  <2>2. CASE ~Takes
    <3>1. Marks(wire)' = Marks(wire)
      BY <2>2 DEF Hears, Marks
    <3> QED BY <1>1, <2>2, <3>1
  <2> QED BY <2>1, <2>2
<1>4. PICK a \in Nat, b \in Nat, c \in Nat :
          a = Flag(flags.responding) /\ b = Flag(flags'.responding) /\ c = Flag(vendor.running # 0)
  BY DEF Flag
<1>5. PICK u \in Nat, v \in Nat, s \in Nat : u = Len(up) /\ v = Len(up') /\ s = vendor.started
  BY <1>0, CallTypes
<1>6. u + n + a + c <= 2 * s
  BY <1>2, <1>4, <1>5
<1>7. v + m + b + c <= 2 * s
  <2>1. CASE Takes /\ Head(wire).kind \in {"created", "done"}
    <3>1. v + b <= u + a + 1 /\ m = n - 1
      BY <1>3, <1>4, <1>5, <2>1
    <3> QED BY <1>6, <3>1
  <2>2. CASE ~(Takes /\ Head(wire).kind \in {"created", "done"})
    <3>1. v + b <= u + a + 0 /\ m = n
      BY <1>3, <1>4, <1>5, <2>2
    <3> QED BY <1>6, <3>1
  <2> QED BY <2>1, <2>2
<1> QED BY <1>0, <1>3, <1>4, <1>5, <1>7, BoundAsNext

Flags == [responding : BOOLEAN, followup : BOOLEAN, stop : BOOLEAN, expecting : BOOLEAN,
          pending : BOOLEAN, playing : BOOLEAN, bytes : BOOLEAN]
TurnFields == [spoken : BOOLEAN, called : BOOLEAN, ends : BOOLEAN]
Logs == [owed : Int, reading : 0 .. MaxResponses, said : SUBSET Responses,
         cut : SUBSET Responses, stray : BOOLEAN]

(* A step that asks for no more than the reply in progress.                 *)
LEMMA SameBound ==
  ASSUME PumpInv, Hears, flags' \in Flags, up' \in Seq(Requests),
         \/ ~flags'.responding /\ Len(up') <= Len(up) + Flag(flags.responding)
         \/ up' = up /\ (flags'.responding => flags.responding)
  PROVE  RequestsBounded'
<1>0. CallTypeOK
  BY DEF PumpInv
<1>1. /\ flags'.responding \in BOOLEAN /\ flags.responding \in BOOLEAN
      /\ Len(up) \in Nat /\ Len(up') \in Nat
  BY <1>0, CallTypes DEF Flags
<1>2. Len(up') + Flag(flags'.responding) <= Len(up) + Flag(flags.responding)
  BY <1>1 DEF Flag
<1>3. PICK n \in Nat : n = (IF Takes /\ Head(wire).kind \in {"created", "done"} THEN 1 ELSE 0)
  OBVIOUS
<1>4. Flag(flags'.responding) \in Nat /\ Flag(flags.responding) \in Nat
  BY DEF Flag
<1>5. Len(up') + Flag(flags'.responding) <= Len(up) + Flag(flags.responding) + n
  BY <1>1, <1>2, <1>4
<1> QED BY <1>1, <1>3, <1>5, HearsBound

LEMMA HearsReal ==
  ASSUME PumpInv, Hears, Before,
         mode' = "open" /\ flags'.responding => mode = "open" /\ flags.responding,
         up' = up \/ \E x \in Requests : up' = Append(up, x)
  PROVE  RespondingIsReal'
<1>0. CallTypeOK /\ RespondingIsReal /\ vendor' = vendor
  BY DEF PumpInv, Hears
<1> SUFFICES ASSUME mode = "open", flags.responding
             PROVE  DoneComing' \/ \E i \in DOMAIN up' : up'[i] = "create"
  BY DEF RespondingIsReal
<1>1. wire \in Seq(Events) /\ up \in Seq(Requests)
  BY <1>0, CallTypes
<1>2. CASE DoneComing
  <2>1. CASE wire' = wire
    BY <1>0, <1>2, <2>1 DEF DoneComing
  <2>2. CASE Takes /\ Head(wire).kind # "done"
    <3>1. CASE vendor.running # 0
      BY <1>0, <3>1 DEF DoneComing
    <3>2. ASSUME NEW i \in DOMAIN wire, wire[i].kind = "done" PROVE DoneComing'
      <4>1. /\ i \in 1 .. Len(wire) /\ i # 1 /\ wire' = Tail(wire) /\ wire # <<>>
            /\ Len(wire) \in Nat
        BY <1>1, <2>2, <3>2, TailEvent DEF Takes
      <4>2. i - 1 \in DOMAIN wire' /\ wire'[i - 1] = wire[i]
        BY <1>1, <4>1
      <4> QED BY <3>2, <4>2 DEF DoneComing
    <3> QED BY <1>2, <3>1, <3>2 DEF DoneComing
  <2> QED BY <2>1, <2>2 DEF Before
<1>3. CASE \E i \in DOMAIN up : up[i] = "create"
  <2>1. PICK i \in 1 .. Len(up) : up[i] = "create"
    BY <1>1, <1>3
  <2>2. i \in DOMAIN up' /\ up'[i] = up[i]
    <3>1. ASSUME NEW x \in Requests, up' = Append(up, x) PROVE i \in DOMAIN up' /\ up'[i] = up[i]
      BY <1>1, <2>1, <3>1
    <3> QED BY <1>1, <2>1, <3>1
  <2> QED BY <2>1, <2>2
<1> QED BY <1>0, <1>2, <1>3 DEF RespondingIsReal

(* The types of what the session keeps.                                    *)
SessionFields ==
    /\ up \in Seq(Requests) /\ stream \in 1 .. MaxStreams /\ mode \in {"open", "idle", "dead"}
    /\ awaiting \in {"read", "call", "end", "settle"} /\ suppressed \in BOOLEAN
    /\ flags \in Flags /\ turn \in TurnFields /\ log \in Logs

LEMMA FieldsTyped == CallTypeOK => SessionFields
BY DEF CallTypeOK, SessionFields, Requests, Flags, TurnFields, Logs

LEMMA SessionInv ==
  ASSUME PumpInv, Hears, SessionFields', CutIsPast', HeldIsOpen', Owed', RequestsBounded',
         RespondingIsReal'
  PROVE  PumpInv'
<1>0. CallTypeOK /\ vendor' = vendor
  BY DEF PumpInv, Hears
<1>1. /\ wire' \in Seq(Events) /\ Len(wire') <= MaxWire
      /\ (Ended(wire, vendor.running))' /\ (Rising(wire, vendor.running, vendor.started))'
  BY HearsWire
<1>2. Len(up') <= 2 * MaxResponses
  <2>1. PICK n \in Nat : n = Cardinality(Marks(wire)')
    <3>1. Cardinality(Marks(wire')) \in Nat
      BY <1>1, MarksFinite
    <3> QED BY <3>1 DEF Marks
  <2>2. Len(up') + n + Flag(flags'.responding) + Flag(vendor'.running # 0) <= 2 * vendor'.started
    BY <2>1, BoundAsNext
  <2>3. /\ Flag(flags'.responding) \in Nat /\ Flag(vendor'.running # 0) \in Nat
        /\ Len(up') \in Nat /\ vendor'.started \in Nat /\ vendor'.started <= MaxResponses
        /\ MaxResponses \in Nat
    BY <1>0, CallTypes DEF Flag, SessionFields
  <2> QED BY <2>2, <2>3
<1>3. CallTypeOK'
  BY <1>0, <1>1, <1>2 DEF CallTypeOK, SessionFields, Requests, Flags, TurnFields, Logs
<1> QED BY <1>1, <1>3 DEF PumpInv

LEMMA CancelFacts ==
  ASSUME up \in Seq(Requests), NEW f \in Flags
  PROVE  /\ Cancelled(f) \in Flags /\ ~Cancelled(f).responding
         /\ Cancelled(f).followup => f.followup
         /\ Cancelled(f).expecting = f.expecting
         /\ CancelRequest(f) \in Seq(Requests)
         /\ CancelRequest(f) = up \/ \E x \in Requests : CancelRequest(f) = Append(up, x)
         /\ Len(CancelRequest(f)) <= Len(up) + Flag(f.responding)
<1>1. /\ Cancelled(f) \in Flags /\ ~Cancelled(f).responding
      /\ Cancelled(f).followup => f.followup
      /\ Cancelled(f).expecting = f.expecting
  BY DEF Cancelled, Flags
<1>2. "cancel" \in Requests
  BY DEF Requests
<1>3. CASE f.responding
  BY <1>1, <1>2, <1>3 DEF CancelRequest, Flag
<1>4. CASE ~f.responding
  BY <1>1, <1>4 DEF CancelRequest, Flag
<1> QED BY <1>1, <1>3, <1>4

LEMMA ReadFacts ==
  ASSUME PumpInv, NEW kind, Receive(kind), vendor' = vendor
  PROVE  /\ mode = "open" /\ awaiting = "read" /\ Takes /\ Hears /\ Head(wire).kind = kind
         /\ kind # "done" => Before
         /\ Now \in Nat /\ Now <= vendor.started /\ Now \in 0 .. MaxResponses
         /\ kind \in OfResponse => Now \in Responses
<1>0. CallTypeOK /\ Rising(wire, vendor.running, vendor.started) /\ wire \in Seq(Events)
  BY CallTypes DEF PumpInv
<1>1. mode = "open" /\ awaiting = "read" /\ Takes /\ Hears /\ Head(wire).kind = kind
  BY DEF Receive, Takes, Hears
<1>2. /\ Head(wire).response <= vendor.started
      /\ kind \in OfResponse => Head(wire).response >= 1
  BY <1>0, <1>1, CallTypes, RisesOff DEF Takes
<1>3. Head(wire).response \in 0 .. MaxResponses
  BY <1>0, <1>1, TailEvent DEF Takes, Events
<1> QED BY <1>0, <1>1, <1>2, <1>3, CallTypes DEF Now, Before, Responses

LEMMA SpeechInv == ASSUME PumpInv, ReadSpeech PROVE PumpInv'
<1> DEFINE f == [flags EXCEPT !.expecting = TRUE]
           bargeIn == ~suppressed /\ (flags.responding \/ flags.playing)
<1>0. CallTypeOK /\ SessionFields /\ HeldIsOpen /\ Owed
  BY FieldsTyped DEF PumpInv
<1>1. /\ mode = "open" /\ awaiting = "read" /\ Takes /\ Hears /\ Before
      /\ vendor' = vendor /\ stream' = stream /\ mode' = mode
  BY ReadFacts DEF ReadSpeech
<1>2. f \in Flags /\ f.responding = flags.responding /\ f.followup = flags.followup /\ f.expecting
      /\ f.stop = flags.stop
  BY <1>0 DEF SessionFields, Flags
<1>3. /\ log' \in Logs /\ log'.owed = log.owed + 1 /\ log'.reading = log.reading
      /\ log'.cut \subseteq log.cut \cup {log.reading}
      /\ ~bargeIn => log'.cut = log.cut
  <2>1. log \in Logs /\ log.owed + 1 \in Int /\ Responses = 1 .. MaxResponses
    BY <1>0 DEF SessionFields, Logs, Responses
  <2>2. PICK C \in SUBSET Responses :
            /\ log' = [log EXCEPT !.owed = log.owed + 1, !.cut = C]
            /\ C \subseteq log.cut \cup {log.reading} /\ (~bargeIn => C = log.cut)
    <3>1. CASE bargeIn /\ log.reading # 0
      <4>1. log' = [log EXCEPT !.owed = log.owed + 1, !.cut = log.cut \cup {log.reading}]
        BY <3>1 DEF ReadSpeech
      <4>2. log.cut \cup {log.reading} \in SUBSET Responses
        BY <2>1, <3>1 DEF Logs
      <4> QED BY <3>1, <4>1, <4>2
    <3>2. CASE ~(bargeIn /\ log.reading # 0)
      <4>1. log' = [log EXCEPT !.owed = log.owed + 1, !.cut = log.cut]
        BY <3>2 DEF ReadSpeech
      <4> QED BY <2>1, <4>1 DEF Logs
    <3> QED BY <3>1, <3>2
  <2> QED BY <2>1, <2>2 DEF Logs
<1>4. CASE bargeIn
  <2>1. /\ suppressed' /\ flags' = Cancelled(f) /\ up' = CancelRequest(f)
        /\ awaiting' = "settle" /\ turn' = [turn EXCEPT !.ends = turn.ends]
        /\ suppressed' = TRUE
    BY <1>4 DEF ReadSpeech, Settle, Endings
  <2>2. /\ flags' \in Flags /\ ~flags'.responding /\ (flags'.followup => flags.followup)
        /\ up' \in Seq(Requests)
        /\ up' = up \/ \E x \in Requests : up' = Append(up, x)
        /\ Len(up') <= Len(up) + Flag(flags.responding)
    BY <1>0, <1>2, <2>1, CancelFacts DEF SessionFields
  <2>3. SessionFields'
    BY <1>0, <1>1, <1>3, <2>1, <2>2 DEF SessionFields, TurnFields
  <2>4. CutIsPast'
    BY <1>1, <1>3, <2>1, HearsCut
  <2>5. HeldIsOpen' /\ Owed'
    BY <1>0, <1>1, <1>3, <2>1, <2>2, HearsWire DEF HeldIsOpen, Owed, SessionFields, Logs
  <2>6. RequestsBounded'
    BY <1>1, <2>2, SameBound
  <2>7. RespondingIsReal'
    BY <1>1, <2>2, HearsReal
  <2> QED BY <1>1, <2>3, <2>4, <2>5, <2>6, <2>7, SessionInv
<1>5. CASE ~bargeIn
  <2>1. /\ suppressed' = suppressed /\ flags' = f /\ up' = up /\ awaiting' = awaiting
        /\ turn' = turn
    BY <1>0, <1>5 DEF ReadSpeech, SessionFields
  <2>2. SessionFields'
    BY <1>0, <1>1, <1>2, <1>3, <2>1 DEF SessionFields
  <2>3. CutIsPast'
    BY <1>1, <1>3, <1>5, <2>1, HearsCut
  <2>4. HeldIsOpen' /\ Owed'
    BY <1>0, <1>1, <1>2, <1>3, <2>1, HearsWire DEF HeldIsOpen, Owed, SessionFields, Logs
  <2>5. RequestsBounded'
    BY <1>1, <1>2, <2>1, <2>2, SameBound DEF SessionFields
  <2>6. RespondingIsReal'
    BY <1>1, <1>2, <2>1, HearsReal
  <2> QED BY <1>1, <2>2, <2>3, <2>4, <2>5, <2>6, SessionInv
<1> QED BY <1>4, <1>5

(* What the response just started is not: cut.                             *)
LEMMA CreatedCut ==
  ASSUME PumpInv, Receive("created"), vendor' = vendor, log'.reading = Now,
         \/ log'.cut = log.cut
         \/ suppressed' = TRUE /\ log'.cut = log.cut \cup {Now}
  PROVE  CutIsPast'
<1>0. /\ CallTypeOK /\ CutIsPast /\ Rising(wire, vendor.running, vendor.started)
      /\ Hears /\ Takes /\ Head(wire).kind = "created" /\ Now \in Responses /\ Now \in Nat
      /\ Now <= vendor.started
  BY ReadFacts DEF PumpInv, OfResponse
<1>1. /\ \A i \in 1 .. Len(wire') : i + 1 \in 1 .. Len(wire) /\ wire'[i] = wire[i + 1]
      /\ Head(wire) = wire[1] /\ Len(wire) \in Nat \ {0} /\ wire' = Tail(wire)
      /\ 1 \in 1 .. Len(wire)
  BY <1>0, CallTypes, TailEvent DEF Takes
<1>2. /\ \A i \in 1 .. Len(wire') : Rises(Head(wire), wire'[i])
      /\ vendor.running # 0 => vendor.running >= Now
  BY <1>0, <1>1, CallTypes, RisesOff DEF Takes, Now
<1>3. \A r \in log.cut : r \in Nat \ {0} /\ r < Now
  BY <1>0, <1>1, CallTypes DEF CutIsPast, Past, Now
<1>4. PICK n \in Nat : n = Now
  BY <1>0
<1>5. Past(n)'
  BY <1>0, <1>2, <1>4 DEF Past, Rises, Now
<1>6. Past(log.reading)'
  BY <1>4, <1>5 DEF Past
<1>7. \A r \in log.cut : Past(r)'
  BY <1>0, <1>3, HearsPast DEF CutIsPast
<1>8. ASSUME log'.cut = log.cut PROVE vendor'.running \notin log'.cut
  BY <1>0, <1>2, <1>3, <1>8, CallTypes
<1>9. ASSUME log'.cut = log.cut, NEW i \in 1 .. Len(wire'), wire'[i].kind \in Items
      PROVE  wire'[i].response \notin log'.cut
  <2>1. wire'[i].response >= Now /\ wire'[i].response \in Nat
    BY <1>0, <1>1, <1>2, <1>9, CallTypes DEF Rises, Now
  <2> QED BY <1>0, <1>3, <1>9, <2>1
<1>10. \A c \in log'.cut : Past(c)'
  BY <1>4, <1>5, <1>7
<1> QED BY <1>6, <1>8, <1>9, <1>10 DEF CutIsPast

LEMMA CreatedInv == ASSUME PumpInv, ReadCreated PROVE PumpInv'
<1> DEFINE f == [flags EXCEPT !.pending = FALSE, !.responding = TRUE]
<1>0. CallTypeOK /\ SessionFields /\ HeldIsOpen /\ Owed /\ Receive("created")
  BY FieldsTyped DEF PumpInv, ReadCreated
<1>1. /\ mode = "open" /\ awaiting = "read" /\ Takes /\ Hears /\ Before
      /\ Head(wire).kind = "created" /\ Now \in Responses /\ Now \in 0 .. MaxResponses
      /\ UNCHANGED <<vendor, stream, mode, awaiting, turn>>
  BY ReadFacts DEF ReadCreated, OfResponse
<1>2. ~EndFirst /\ EndFirst' /\ wire' \in Seq(Events)
  BY <1>1, HearsWire DEF OfResponse
<1>3. ~flags.followup /\ ~turn.ends
  BY <1>0, <1>1, <1>2 DEF HeldIsOpen
<1>4. f \in Flags /\ f.responding /\ f.followup = flags.followup /\ f.expecting = flags.expecting
  BY <1>0 DEF SessionFields, Flags
<1>5. DoneComing'
  BY <1>2, EndIsDueNext
<1>6. CASE flags.expecting
  <2>1. /\ flags' = [f EXCEPT !.bytes = FALSE] /\ suppressed' = FALSE /\ up' = up
        /\ log' = [log EXCEPT !.reading = Now, !.owed = @ - 1]
    BY <1>6 DEF ReadCreated
  <2>2. flags' \in Flags /\ flags'.responding /\ ~flags'.followup
    BY <1>3, <1>4, <2>1 DEF Flags
  <2>3. log' \in Logs /\ log'.reading = Now /\ log'.owed = log.owed - 1 /\ log'.cut = log.cut
    <3>1. PICK n \in Int : n = log.owed - 1
      BY <1>0 DEF SessionFields, Logs
    <3>2. log' = [log EXCEPT !.reading = Now, !.owed = n]
      BY <2>1, <3>1
    <3> QED BY <1>0, <1>1, <3>1, <3>2 DEF SessionFields, Logs
  <2>4. SessionFields'
    BY <1>0, <1>1, <2>1, <2>2, <2>3 DEF SessionFields
  <2>5. CutIsPast'
    BY <1>0, <1>1, <2>3, CreatedCut
  <2>6. HeldIsOpen'
    BY <1>1, <1>2, <1>3, <2>2 DEF HeldIsOpen
  <2>7. Owed'
    <3>1. log.owed \in Int /\ log.owed >= 1
      BY <1>0, <1>1, <1>2, <1>6 DEF Owed, SessionFields, Logs
    <3> QED BY <1>2, <2>1, <2>2, <2>3, <3>1 DEF Owed
  <2>8. RequestsBounded'
    <3>1. Len(up) \in Nat
      BY <1>0, CallTypes
    <3>2. Len(up') + Flag(flags'.responding) <= Len(up) + Flag(flags.responding) + 1
      BY <2>1, <3>1 DEF Flag
    <3> QED BY <1>0, <1>1, <2>1, <2>2, <3>2, HearsBound DEF SessionFields, Flags
  <2>9. RespondingIsReal'
    BY <1>5 DEF RespondingIsReal
  <2> QED BY <1>1, <2>4, <2>5, <2>6, <2>7, <2>8, <2>9, SessionInv
<1>7. CASE ~flags.expecting
  <2>1. /\ flags' = Cancelled(f) /\ suppressed' = TRUE /\ up' = CancelRequest(f)
        /\ log' = [log EXCEPT !.reading = Now, !.cut = @ \cup {Now}]
    BY <1>7 DEF ReadCreated
  <2>2. /\ flags' \in Flags /\ ~flags'.responding /\ ~flags'.followup /\ ~flags'.expecting
        /\ up' \in Seq(Requests) /\ Len(up') <= Len(up) + 1
    BY <1>0, <1>3, <1>4, <1>7, <2>1, CancelFacts DEF SessionFields, Flag
  <2>3. log' \in Logs /\ log'.reading = Now /\ log'.owed = log.owed /\ log'.cut = log.cut \cup {Now}
    BY <1>0, <1>1, <2>1 DEF SessionFields, Logs
  <2>4. SessionFields'
    BY <1>0, <1>1, <2>1, <2>2, <2>3 DEF SessionFields
  <2>5. CutIsPast'
    BY <1>0, <1>1, <2>1, <2>3, CreatedCut
  <2>6. HeldIsOpen'
    BY <1>1, <1>2, <1>3, <2>2 DEF HeldIsOpen
  <2>7. Owed'
    BY <1>0, <2>2, <2>3 DEF Owed
  <2>8. RequestsBounded'
    <3>1. Len(up) \in Nat /\ Len(up') \in Nat /\ Flag(flags.responding) \in Nat
      BY <1>0, <2>2, CallTypes DEF Flag
    <3>2. Len(up') + Flag(flags'.responding) <= Len(up) + Flag(flags.responding) + 1
      BY <2>2, <3>1 DEF Flag
    <3> QED BY <1>0, <1>1, <2>1, <2>2, <3>2, HearsBound DEF SessionFields, Flags
  <2>9. RespondingIsReal'
    BY <1>5 DEF RespondingIsReal
  <2> QED BY <1>1, <2>4, <2>5, <2>6, <2>7, <2>8, <2>9, SessionInv
<1> QED BY <1>6, <1>7

(* A step that asks for nothing and cuts nothing.                          *)
LEMMA PlainInv ==
  ASSUME PumpInv, Hears, Before, SessionFields', up' = up, suppressed' = suppressed,
         log'.cut = log.cut, log'.reading = log.reading,
         flags'.responding => flags.responding, mode' = mode, HeldIsOpen', Owed'
  PROVE  PumpInv'
<1>1. flags' \in Flags /\ up' \in Seq(Requests)
  BY DEF SessionFields
<1>2. CutIsPast'
  BY HearsCut
<1>3. RequestsBounded'
  BY <1>1, SameBound
<1>4. RespondingIsReal'
  BY HearsReal
<1> QED BY <1>2, <1>3, <1>4, SessionInv

LEMMA WordsInv == ASSUME PumpInv, ReadWords PROVE PumpInv'
<1>0. SessionFields /\ HeldIsOpen /\ Owed
  BY FieldsTyped DEF PumpInv
<1>1. /\ Hears /\ Before /\ Now \in Responses /\ EndFirst'
      /\ UNCHANGED <<up, vendor, stream, mode, awaiting, suppressed>>
  BY ReadFacts, HearsWire DEF ReadWords, OfResponse, Items
<1>2. CASE suppressed
  <2>1. UNCHANGED <<turn, flags, log>>
    BY <1>2 DEF ReadWords
  <2> QED BY <1>0, <1>1, <2>1, PlainInv DEF SessionFields, HeldIsOpen, Owed
<1>3. CASE ~suppressed
  <2>1. /\ turn' = [turn EXCEPT !.spoken = TRUE] /\ flags' = [flags EXCEPT !.bytes = TRUE]
        /\ log' = [log EXCEPT !.said = @ \cup {Now}]
    BY <1>3 DEF ReadWords
  <2>2. /\ turn' \in TurnFields /\ turn'.ends = turn.ends
        /\ flags' \in Flags /\ flags'.responding = flags.responding
        /\ flags'.followup = flags.followup /\ flags'.stop = flags.stop
        /\ flags'.expecting = flags.expecting
    BY <1>0, <2>1 DEF SessionFields, TurnFields, Flags
  <2>3. log' \in Logs /\ log'.cut = log.cut /\ log'.reading = log.reading /\ log'.owed = log.owed
    BY <1>0, <1>1, <2>1 DEF SessionFields, Logs
  <2>4. SessionFields' /\ HeldIsOpen' /\ Owed'
    BY <1>0, <1>1, <2>2, <2>3 DEF SessionFields, HeldIsOpen, Owed
  <2> QED BY <1>1, <2>2, <2>3, <2>4, PlainInv
<1> QED BY <1>2, <1>3

LEMMA ToolReadInv == ASSUME PumpInv, ReadCall \/ ReadEnd PROVE PumpInv'
<1>0. SessionFields /\ HeldIsOpen /\ Owed
  BY FieldsTyped DEF PumpInv
<1>1. /\ Hears /\ Before /\ EndFirst' /\ awaiting = "read" /\ mode = "open"
      /\ UNCHANGED <<up, vendor, stream, mode, flags, suppressed, log>>
      /\ awaiting' \in {"call", "end"} /\ turn' = [turn EXCEPT !.called = TRUE]
  <2>1. CASE ReadCall
    BY <2>1, ReadFacts, HearsWire DEF ReadCall, OfResponse, Items
  <2>2. CASE ReadEnd
    BY <2>2, ReadFacts, HearsWire DEF ReadEnd, OfResponse, Items
  <2> QED BY <2>1, <2>2
<1>2. turn' \in TurnFields /\ turn'.ends = turn.ends
  BY <1>0, <1>1 DEF SessionFields, TurnFields
<1>3. SessionFields' /\ HeldIsOpen' /\ Owed'
  BY <1>0, <1>1, <1>2 DEF SessionFields, HeldIsOpen, Owed
<1> QED BY <1>1, <1>3, PlainInv

(* The steps that read nothing.                                            *)
LEMMA StillHears ==
  ASSUME PumpInv, wire' = wire, vendor' = vendor
  PROVE  Hears /\ Before /\ EndFirst' = EndFirst
BY DEF Hears, Before, EndFirst

LEMMA CallDoneInv == ASSUME PumpInv, CallDone PROVE PumpInv'
<1>0. SessionFields /\ HeldIsOpen /\ Owed
  BY FieldsTyped DEF PumpInv
<1>1. /\ mode = "open" /\ awaiting = "call" /\ awaiting' = "read"
      /\ UNCHANGED <<wire, up, vendor, stream, mode, suppressed, turn>>
      /\ Hears /\ Before /\ EndFirst'
  BY <1>0, StillHears DEF CallDone, HeldIsOpen
<1>2. /\ flags' \in Flags /\ flags'.responding = flags.responding /\ flags'.stop = flags.stop
      /\ flags'.followup
  BY <1>0 DEF CallDone, SessionFields, Flags
<1>3. log' \in Logs /\ log'.cut = log.cut /\ log'.reading = log.reading /\ log'.owed = log.owed + 1
  <2>1. PICK n \in Int : n = log.owed + 1
    BY <1>0 DEF SessionFields, Logs
  <2>2. log' = [log EXCEPT !.owed = n]
    BY <2>1 DEF CallDone
  <2> QED BY <1>0, <2>1, <2>2 DEF SessionFields, Logs
<1>4. log.owed \in Int
  BY <1>0 DEF SessionFields, Logs
<1>5. SessionFields' /\ HeldIsOpen' /\ Owed'
  BY <1>0, <1>1, <1>2, <1>3, <1>4 DEF SessionFields, HeldIsOpen, Owed
<1> QED BY <1>1, <1>2, <1>3, <1>5, PlainInv

LEMMA EndDoneInv == ASSUME PumpInv, EndDone PROVE PumpInv'
<1>0. SessionFields /\ HeldIsOpen /\ Owed
  BY FieldsTyped DEF PumpInv
<1>1. /\ mode = "open" /\ awaiting = "end" /\ awaiting' = "read"
      /\ UNCHANGED <<wire, up, vendor, stream, mode, suppressed, log>>
      /\ Hears /\ Before /\ EndFirst /\ EndFirst'
  BY <1>0, StillHears DEF EndDone, HeldIsOpen
<1>2. /\ flags' \in Flags /\ flags'.responding = flags.responding /\ flags'.stop
      /\ flags'.followup = flags.followup /\ flags'.expecting = flags.expecting
      /\ turn' \in TurnFields
  BY <1>0 DEF EndDone, SessionFields, Flags, TurnFields
<1>3. SessionFields' /\ HeldIsOpen' /\ Owed'
  BY <1>0, <1>1, <1>2 DEF SessionFields, HeldIsOpen, Owed
<1> QED BY <1>1, <1>2, <1>3, PlainInv

LEMMA SettledInv == ASSUME PumpInv, Settled \/ PlayedOut PROVE PumpInv'
<1>0. SessionFields /\ HeldIsOpen /\ Owed
  BY FieldsTyped DEF PumpInv
<1>1. /\ UNCHANGED <<wire, up, vendor, stream, mode, suppressed, log>>
      /\ Hears /\ Before /\ EndFirst' = EndFirst
  BY StillHears DEF Settled, PlayedOut
<1>2. CASE Settled
  <2>1. turn' \in TurnFields /\ ~turn'.ends /\ awaiting' = "read" /\ flags' = flags
    BY <1>2 DEF Settled, NewTurn, TurnFields
  <2>2. SessionFields' /\ HeldIsOpen' /\ Owed'
    BY <1>0, <1>1, <2>1 DEF SessionFields, HeldIsOpen, Owed
  <2> QED BY <1>1, <2>1, <2>2, PlainInv
<1>3. CASE PlayedOut
  <2>1. /\ flags' \in Flags /\ flags'.responding = flags.responding /\ flags'.stop = flags.stop
        /\ flags'.followup = flags.followup /\ flags'.expecting = flags.expecting
        /\ UNCHANGED <<turn, awaiting>>
    BY <1>0, <1>3 DEF PlayedOut, SessionFields, Flags
  <2>2. SessionFields' /\ HeldIsOpen' /\ Owed'
    BY <1>0, <1>1, <2>1 DEF SessionFields, HeldIsOpen, Owed
  <2> QED BY <1>1, <2>1, <2>2, PlainInv
<1> QED BY <1>2, <1>3

LEMMA FailsInv == ASSUME PumpInv, ReadIdle \/ ReadError PROVE PumpInv'
<1>0. SessionFields /\ HeldIsOpen /\ Owed
  BY FieldsTyped DEF PumpInv
<1>1. /\ Hears /\ Before /\ UNCHANGED <<up, vendor, stream, awaiting, suppressed, log>>
      /\ mode = "open"
  <2>1. CASE ReadIdle
    BY <2>1, ReadFacts DEF ReadIdle, CallFails
  <2>2. CASE ReadError
    BY <2>2, ReadFacts DEF ReadError, CallFails
  <2> QED BY <2>1, <2>2
<1>2. CASE ReadIdle /\ flags.pending
  <2>1. flags' = [flags EXCEPT !.pending = FALSE] /\ UNCHANGED <<mode, turn>>
    BY <1>2 DEF ReadIdle
  <2>2. /\ flags' \in Flags /\ flags'.responding = flags.responding /\ flags'.stop = flags.stop
        /\ flags'.followup = flags.followup /\ flags'.expecting = flags.expecting
    BY <1>0, <2>1 DEF SessionFields, Flags
  <2>3. EndFirst => EndFirst'
    BY <1>1, HearsWire
  <2>4. SessionFields' /\ HeldIsOpen' /\ Owed'
    BY <1>0, <1>1, <2>1, <2>2, <2>3 DEF SessionFields, HeldIsOpen, Owed
  <2> QED BY <1>1, <2>1, <2>2, <2>4, PlainInv
<1>3. CASE CallFails
  <2>1. mode' = "dead" /\ flags' = flags /\ turn' \in TurnFields /\ ~turn'.ends
    BY <1>3 DEF CallFails, NewTurn, TurnFields
  <2>2. SessionFields' /\ HeldIsOpen' /\ Owed'
    BY <1>0, <1>1, <2>1 DEF SessionFields, HeldIsOpen, Owed
  <2>3. CutIsPast'
    BY <1>1, HearsCut
  <2>4. RequestsBounded'
    BY <1>0, <1>1, <2>1, SameBound DEF SessionFields
  <2>5. RespondingIsReal'
    BY <2>1 DEF RespondingIsReal
  <2> QED BY <1>1, <2>2, <2>3, <2>4, <2>5, SessionInv
<1> QED BY <1>2, <1>3 DEF ReadIdle, ReadError

LEMMA DoneInv == ASSUME PumpInv, ReadDone PROVE PumpInv'
<1>0. CallTypeOK /\ SessionFields /\ HeldIsOpen /\ Owed
  BY FieldsTyped DEF PumpInv
<1>1. /\ Hears /\ Takes /\ Head(wire).kind = "done" /\ mode = "open" /\ awaiting = "read"
      /\ UNCHANGED <<vendor, stream, mode, suppressed>>
      /\ log' = [log EXCEPT !.reading = 0]
  BY ReadFacts DEF ReadDone
<1>2. /\ log' \in Logs /\ log'.cut = log.cut /\ log'.reading = 0 /\ log'.owed = log.owed
  BY <1>0, <1>1, EventFacts DEF SessionFields, Logs
<1>3. CutIsPast'
  BY <1>1, <1>2, HearsCut
<1>4. /\ Consumed \in Flags /\ Consumed.responding = flags.responding
      /\ ~Consumed.followup /\ Consumed.expecting = flags.expecting
  BY <1>0 DEF Consumed, SessionFields, Flags
<1>5. CASE WantsFollowUp
  <2>1. flags' = Consumed /\ up' = Append(up, "create") /\ UNCHANGED <<awaiting, turn>>
    BY <1>5 DEF ReadDone
  <2>2. flags.followup /\ ~flags.stop /\ ~turn.ends
    BY <1>0, <1>1, <1>5 DEF WantsFollowUp, HeldIsOpen
  <2>3. up \in Seq(Requests) /\ Len(up) \in Nat /\ "create" \in Requests
    BY <1>0, CallTypes DEF Requests
  <2>4. /\ up' \in Seq(Requests) /\ Len(up') = Len(up) + 1
        /\ Len(up) + 1 \in DOMAIN up' /\ up'[Len(up) + 1] = "create"
    BY <2>1, <2>3
  <2>5. SessionFields'
    BY <1>0, <1>1, <1>2, <1>4, <2>1, <2>4 DEF SessionFields
  <2>6. HeldIsOpen' /\ Owed'
    BY <1>0, <1>1, <1>2, <1>4, <2>1, <2>2 DEF HeldIsOpen, Owed
  <2>7. RequestsBounded'
    <3>1. Len(up') + Flag(flags'.responding) <= Len(up) + Flag(flags.responding) + 1
      BY <1>4, <2>1, <2>3, <2>4 DEF Flag
    <3> QED BY <1>1, <1>4, <2>1, <2>4, <3>1, HearsBound DEF Flags
  <2>8. RespondingIsReal'
    BY <2>4 DEF RespondingIsReal
  <2> QED BY <1>1, <1>3, <2>5, <2>6, <2>7, <2>8, SessionInv
<1>6. CASE ~WantsFollowUp
  <2>1. flags' = Answered /\ Settle(FALSE) /\ up' = up
    BY <1>6 DEF ReadDone
  <2>2. /\ flags' \in Flags /\ ~flags'.responding /\ ~flags'.followup
        /\ flags'.expecting = (flags.expecting /\ suppressed)
    BY <1>0, <1>4, <2>1 DEF Answered, SessionFields, Flags
  <2>3. turn' \in TurnFields /\ awaiting' = "settle"
    BY <1>0, <2>1 DEF Settle, Endings, SessionFields, TurnFields
  <2>4. SessionFields'
    BY <1>0, <1>1, <1>2, <2>1, <2>2, <2>3 DEF SessionFields
  <2>5. HeldIsOpen'
    BY <1>1, <2>2, <2>3 DEF HeldIsOpen
  <2>6. Owed'
    BY <1>0, <1>1, <1>2, <2>2 DEF Owed
  <2>7. RequestsBounded'
    BY <1>0, <1>1, <2>1, <2>2, SameBound DEF SessionFields
  <2>8. RespondingIsReal'
    BY <2>2 DEF RespondingIsReal
  <2> QED BY <1>1, <1>3, <2>4, <2>5, <2>6, <2>7, <2>8, SessionInv
<1> QED BY <1>5, <1>6

LEMMA HangUpInv == ASSUME PumpInv, HangUp \/ Disconnect PROVE PumpInv'
<1>0. SessionFields /\ HeldIsOpen /\ Owed
  BY FieldsTyped DEF PumpInv
<1>1. /\ mode = "open" /\ mode' \in {"idle", "dead"} /\ awaiting' = "read" /\ turn' = NewTurn
      /\ UNCHANGED <<wire, vendor, stream, suppressed>>
      /\ Hears /\ Before /\ EndFirst' = EndFirst
  BY StillHears DEF HangUp, Disconnect
<1>2. /\ flags' \in Flags /\ (flags'.followup => flags.followup)
      /\ up' \in Seq(Requests)
      /\ \/ ~flags'.responding /\ Len(up') <= Len(up) + Flag(flags.responding)
         \/ up' = up /\ flags' = flags
  <2>1. CASE HangUp
    BY <1>0, <2>1, CancelFacts DEF HangUp, SessionFields
  <2>2. CASE Disconnect
    BY <1>0, <2>2 DEF Disconnect, SessionFields
  <2> QED BY <2>1, <2>2
<1>3. log' \in Logs /\ log'.cut = log.cut /\ log'.reading = log.reading /\ log'.owed = log.owed
  <2>1. PICK b \in BOOLEAN : log' = [log EXCEPT !.stray = b]
    <3>1. CASE HangUp
      BY <3>1 DEF HangUp
    <3>2. CASE Disconnect
      BY <3>2 DEF Disconnect
    <3> QED BY <3>1, <3>2
  <2> QED BY <1>0, <2>1 DEF SessionFields, Logs
<1>4. turn' \in TurnFields /\ ~turn'.ends
  BY <1>1 DEF NewTurn, TurnFields
<1>5. SessionFields'
  BY <1>0, <1>1, <1>2, <1>3, <1>4 DEF SessionFields
<1>6. HeldIsOpen' /\ Owed'
  BY <1>0, <1>1, <1>2, <1>3, <1>4 DEF HeldIsOpen, Owed
<1>7. CutIsPast'
  BY <1>1, <1>3, HearsCut
<1>8. RequestsBounded'
  BY <1>1, <1>2, SameBound
<1>9. RespondingIsReal'
  BY <1>1 DEF RespondingIsReal
<1> QED BY <1>1, <1>5, <1>6, <1>7, <1>8, <1>9, SessionInv

LEMMA NextCallInv == ASSUME PumpInv, NextCall PROVE PumpInv'
<1>0. CallTypeOK /\ SessionFields /\ HeldIsOpen /\ Owed /\ CutIsPast
  BY FieldsTyped DEF PumpInv
<1>1. /\ mode = "idle" /\ mode' = "open" /\ awaiting' = "read" /\ suppressed' = FALSE
      /\ stream' = stream + 1 /\ stream < MaxStreams
      /\ UNCHANGED <<wire, up, vendor, turn>>
      /\ Hears /\ Before /\ EndFirst' = EndFirst
  BY StillHears DEF NextCall
<1>2. /\ flags' \in Flags /\ flags'.followup = flags.followup /\ ~flags'.responding
      /\ flags'.expecting = flags.followup
  BY <1>0 DEF NextCall, Fresh, SessionFields, Flags
<1>3. /\ log' \in Logs /\ log'.cut = {} /\ log'.reading = 0
      /\ log'.owed = IF flags.followup THEN 1 ELSE 0
  BY <1>0, EventFacts DEF NextCall, NewLog, SessionFields, Logs
<1>4. stream' \in 1 .. MaxStreams
  BY <1>0, <1>1, ContinuousCallAssumption DEF SessionFields
<1>5. SessionFields'
  BY <1>0, <1>1, <1>2, <1>3, <1>4 DEF SessionFields
<1>6. HeldIsOpen' /\ Owed'
  BY <1>0, <1>1, <1>2, <1>3 DEF HeldIsOpen, Owed
<1>7. CutIsPast'
  <2>1. Past(0)
    BY <1>0, CallTypes DEF CutIsPast, Past
  <2>2. Past(0)'
    BY <1>1, <2>1 DEF Past
  <2>3. Past(log.reading)'
    BY <1>3, <2>2 DEF Past
  <2> QED BY <1>3, <2>3 DEF CutIsPast
<1>8. RequestsBounded'
  BY <1>0, <1>1, <1>2, SameBound DEF SessionFields
<1>9. RespondingIsReal'
  BY <1>2 DEF RespondingIsReal
<1> QED BY <1>1, <1>5, <1>6, <1>7, <1>8, <1>9, SessionInv

LEMMA InitCall == CallInit => PumpInv
<1> SUFFICES ASSUME CallInit PROVE PumpInv
  OBVIOUS
<1>1. /\ wire = <<>> /\ wire \in Seq(Events) /\ Len(wire) = 0 /\ up = <<>> /\ Len(up) = 0
      /\ up \in Seq(Requests) /\ vendor \in Vendors /\ vendor.running = 0 /\ vendor.started = 0
  BY EventFacts DEF CallInit, Vendors
<1>2. /\ SessionFields /\ log.owed = 0 /\ log.reading = 0 /\ log.cut = {}
      /\ ~turn.ends /\ mode = "open"
      /\ awaiting = "read" /\ ~flags.followup /\ ~flags.expecting /\ ~flags.responding
  <2>1. flags \in Flags /\ ~flags.followup /\ ~flags.expecting /\ ~flags.responding
    BY DEF CallInit, Flags
  <2>2. log \in Logs /\ log.owed = 0 /\ log.reading = 0 /\ log.cut = {}
    BY EventFacts DEF CallInit, Logs
  <2>3. turn \in TurnFields /\ ~turn.ends
    BY DEF CallInit, NewTurn, TurnFields
  <2>4. stream \in 1 .. MaxStreams
    BY ContinuousCallAssumption DEF CallInit
  <2>5. mode = "open" /\ awaiting = "read" /\ suppressed = FALSE
    BY DEF CallInit
  <2> QED BY <1>1, <2>1, <2>2, <2>3, <2>4, <2>5 DEF SessionFields
<1>3. CallTypeOK
  BY <1>1, <1>2, EventFacts
  DEF CallTypeOK, Vendors, SessionFields, Requests, Flags, TurnFields, Logs
<1>4. Ended(wire, vendor.running) /\ Rising(wire, vendor.running, vendor.started)
  BY <1>1 DEF Ended, Rising
<1>5. CutIsPast
  BY <1>1, <1>2 DEF CutIsPast, Past
<1>6. HeldIsOpen /\ Owed /\ RespondingIsReal
  BY <1>2 DEF HeldIsOpen, Owed, RespondingIsReal
<1>7. RequestsBounded
  <2>1. Marks(wire) = {} /\ Cardinality({}) = 0
    BY <1>1, FS_EmptySet DEF Marks
  <2>2. Len(up) + 0 + Flag(flags.responding) + Flag(vendor.running # 0) <= 2 * vendor.started
    BY <1>1, <1>2 DEF Flag
  <2> QED BY <2>1, <2>2, BoundAs
<1> QED BY <1>3, <1>4, <1>5, <1>6, <1>7 DEF PumpInv

LEMMA StutterCall == ASSUME PumpInv, UNCHANGED continuousVars PROVE PumpInv'
<1>1. /\ UNCHANGED <<wire, up, vendor, stream, mode, awaiting, flags, suppressed, turn, log>>
      /\ Hears /\ Before /\ EndFirst' = EndFirst
  BY StillHears DEF continuousVars
<1>2. SessionFields /\ HeldIsOpen /\ Owed
  BY FieldsTyped DEF PumpInv
<1>3. SessionFields' /\ HeldIsOpen' /\ Owed'
  BY <1>1, <1>2 DEF SessionFields, HeldIsOpen, Owed
<1> QED BY <1>1, <1>3, PlainInv

LEMMA StepCall == PumpInv /\ [CallNext]_continuousVars => PumpInv'
<1> SUFFICES ASSUME PumpInv, [CallNext]_continuousVars PROVE PumpInv'
  OBVIOUS
<1>1. CASE Vendor
  BY <1>1, VendorInv
<1>2. CASE Pump
  BY <1>2, SpeechInv, CreatedInv, WordsInv, ToolReadInv, CallDoneInv, EndDoneInv, DoneInv,
     FailsInv, SettledInv DEF Pump
<1>3. CASE PlayedOut \/ HangUp \/ Disconnect \/ NextCall
  BY <1>3, SettledInv, HangUpInv, NextCallInv
<1>4. CASE UNCHANGED continuousVars
  BY <1>4, StutterCall
<1> QED BY <1>1, <1>2, <1>3, <1>4 DEF CallNext

(* ContinuousCall keeps its inductive invariant. *)
THEOREM PumpInductive == CallSpec => []PumpInv
BY InitCall, StepCall, PTL DEF CallSpec

(* The types, and with them the bound on the requests in flight: the        *)
(* session never cancels what it has not taken to be in progress.          *)
THEOREM CallTypeCorrect == CallSpec => []CallTypeOK
<1>1. PumpInv => CallTypeOK
  BY DEF PumpInv
<1> QED BY <1>1, PumpInductive, PTL

LEMMA BooksAgree == PumpInv => RepliesAreDue
<1> SUFFICES ASSUME PumpInv PROVE RepliesAreDue
  OBVIOUS
<1>1. wire \in Seq(Events) /\ HeldIsOpen /\ Owed /\ RespondingIsReal
  BY CallTypes DEF PumpInv
<1>2. EndFirst => DoneComing
  BY <1>1, EndIsDue
<1>3. awaiting \in {"read", "call", "end", "settle"}
  BY DEF PumpInv, CallTypeOK
<1> QED BY <1>1, <1>2, <1>3
        DEF RepliesAreDue, RepliesAskedFor, OwedIsDue, EndIsComing, FollowUpComes, HeldIsOpen, Owed

LEMMA CutStaysSilent ==
  ASSUME PumpInv, [CallNext]_continuousVars, NEW r \in log.cut, stream' = stream, r \in log'.said
  PROVE  r \in log.said
<1>0. CallTypeOK /\ CutIsPast /\ SessionFields
  BY FieldsTyped DEF PumpInv
<1>1. CASE log'.said = log.said
  BY <1>1
<1>2. CASE ReadWords /\ ~suppressed
  <2>1. log'.said = log.said \cup {Now}
    BY <1>0, <1>2 DEF ReadWords, SessionFields, Logs
  <2>2. Head(wire).kind = "words" /\ wire # <<>>
    BY <1>2 DEF ReadWords, Receive
  <2>3. Now \notin log.cut
    BY <1>0, <1>2, <2>2, CallTypes, TailEvent DEF CutIsPast, Now, Items
  <2> QED BY <2>1, <2>3
<1>3. ASSUME CallNext, ~(ReadWords /\ ~suppressed) PROVE log'.said = log.said
  <2>1. CASE Vendor
    BY <1>0, <2>1, VendorServes DEF Serves
  <2>2. CASE Pump
    <3>1. CASE ReadSpeech
      BY <1>0, <3>1 DEF ReadSpeech, SessionFields, Logs
    <3>2. CASE ReadCreated
      BY <1>0, <3>2 DEF ReadCreated, SessionFields, Logs
    <3>3. CASE ReadWords
      BY <1>3, <3>3 DEF ReadWords
    <3>4. CASE CallDone \/ ReadDone
      BY <1>0, <3>4 DEF CallDone, ReadDone, SessionFields, Logs
    <3>5. CASE ReadCall \/ ReadEnd \/ EndDone \/ Settled
      BY <3>5 DEF ReadCall, ReadEnd, EndDone, Settled
    <3>6. CASE ReadIdle \/ ReadError
      BY <3>6 DEF ReadIdle, ReadError, CallFails
    <3> QED BY <2>2, <3>1, <3>2, <3>3, <3>4, <3>5, <3>6 DEF Pump
  <2>3. CASE PlayedOut \/ HangUp \/ Disconnect
    BY <1>0, <2>3 DEF PlayedOut, HangUp, Disconnect, SessionFields, Logs
  <2>4. CASE NextCall
    <3>1. stream \in Nat /\ stream' = stream + 1
      BY <1>0, <2>4, ContinuousCallAssumption DEF NextCall, SessionFields
    <3> QED BY <3>1
  <2> QED BY <1>3, <2>1, <2>2, <2>3, <2>4 DEF CallNext
<1>4. CASE UNCHANGED continuousVars
  BY <1>4 DEF continuousVars
<1> QED BY <1>1, <1>2, <1>3, <1>4

(* What reaches the client is due to it, and nothing of what it refused: the *)
(* pump never gives more replies than were asked for, never waits for an     *)
(* end of a response that is not coming, and passes nothing on of a reply    *)
(* it has cut off, however events and requests cross.                        *)
THEOREM RepliesCorrect == CallSpec => RepliesInOrder
<1>1. PumpInv /\ [CallNext]_continuousVars =>
          [\A r \in log.cut : stream' = stream /\ r \in log'.said => r \in log.said]_continuousVars
  BY CutStaysSilent
<1> QED BY <1>1, BooksAgree, PumpInductive, PTL
        DEF RepliesInOrder, CancelledStaysSilent, CallSpec

=============================================================================
