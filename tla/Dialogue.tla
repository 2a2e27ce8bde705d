------------------------------ MODULE Dialogue ------------------------------
(***************************************************************************)
(* One retained conversation of the composed agent and the turns           *)
(* (Agent.run_turn) that work on it: model rounds, tool calls, structured  *)
(* questions the next utterance answers, and the guard on deletions.       *)
(*                                                                         *)
(* What is said is not modelled: a message is its kind and the number of   *)
(* the tool call it carries or answers.  The model is external: it answers *)
(* what it likes.  A turn may be cancelled wherever it awaits or yields;   *)
(* the next one starts when it is over.                                    *)
(***************************************************************************)
EXTENDS Integers, Sequences

CONSTANTS
    MaxTurns,   \* bound: utterances of the conversation
    MaxRounds,  \* max_tool_rounds of a turn
    Kinds       \* kinds of question a model may ask

ASSUME DialogueAssumption ==
    /\ MaxTurns \in Nat /\ MaxRounds \in Nat \ {0}
    /\ "none" \notin Kinds

VARIABLES
    messages,   \* AgentConversation.messages
    pending,    \* pending_question: its call and kind
    answered,   \* answered_question_kind and confirmation_affirmed
    turns,      \* the turns, by utterance
    calls,      \* tool calls the model has made
    seen        \* history: questions delivered, conversation ends, deletions

vars == <<messages, pending, answered, turns, calls, seen>>

Utterances == 1 .. MaxTurns
NoQuestion == [call |-> 0, kind |-> "none"]
NotAnswered == [kind |-> "none", affirmed |-> FALSE]
Fresh == [at |-> "unsaid", rounds |-> 0, corrected |-> FALSE, call |-> 0,
          answers |-> NoQuestion, yes |-> FALSE]

User == [kind |-> "user", call |-> 0]
Reply == [kind |-> "reply", call |-> 0]
Call(c) == [kind |-> "call", call |-> c]
Result(c) == [kind |-> "result", call |-> c]

Init ==
    /\ messages = <<>> /\ pending = NoQuestion /\ answered = NotAnswered /\ calls = 0
    /\ turns = [n \in Utterances |-> Fresh]
    /\ seen = [asked |-> {}, ended |-> {}, deleted |-> {}]

Move(n, r) == turns' = [turns EXCEPT ![n] = r]
At(n, where) == Move(n, [turns[n] EXCEPT !.at = where])

(* _prepare_turn: the utterance answers the pending question, whatever was *)
(* said, or is a fresh command.                                            *)
Answers(q, yes) == [kind |-> q.kind, affirmed |-> q.kind = "confirmation" /\ yes]
(* A plausible bug: an answer authorises until the next question.          *)
UtterKeeping(n) ==
    /\ turns[n].at = "unsaid" /\ \A m \in 1 .. n - 1 : turns[m].at = "over"
    /\ \E yes \in BOOLEAN :
        /\ Move(n, [turns[n] EXCEPT !.at = "model", !.answers = pending, !.yes = yes])
        /\ answered' = IF pending = NoQuestion THEN answered ELSE Answers(pending, yes)
    /\ messages' = Append(messages, IF pending = NoQuestion THEN User ELSE Result(pending.call))
    /\ pending' = NoQuestion
    /\ UNCHANGED <<calls, seen>>

Utter(n) ==
    /\ turns[n].at = "unsaid" /\ \A m \in 1 .. n - 1 : turns[m].at = "over"
    /\ \E yes \in BOOLEAN :
        /\ Move(n, [turns[n] EXCEPT !.at = "model", !.answers = pending, !.yes = yes])
        /\ answered' = IF pending = NoQuestion THEN NotAnswered ELSE Answers(pending, yes)
    /\ messages' = Append(messages, IF pending = NoQuestion THEN User ELSE Result(pending.call))
    /\ pending' = NoQuestion
    /\ UNCHANGED <<calls, seen>>

(* A reply without a tool call ends the turn, unless it claims to have     *)
(* done what no tool was called for: that is corrected once.               *)
SayReply(n) ==
    /\ turns[n].at = "model"
    /\ messages' = Append(messages, Reply)
    /\ At(n, "over")
    /\ UNCHANGED <<pending, answered, calls, seen>>

Correct(n) ==
    /\ turns[n].at = "model" /\ turns[n].rounds = 0 /\ ~turns[n].corrected
    /\ messages' = messages \o <<Reply, User>>
    /\ Move(n, [turns[n] EXCEPT !.corrected = TRUE])
    /\ UNCHANGED <<pending, answered, calls, seen>>

(* A call counts as a round before it is looked at.                        *)
NextCall == calls + 1
Called(n) == [turns[n] EXCEPT !.rounds = @ + 1, !.call = NextCall]
(* A plausible bug: the limit is compared one round late.                  *)
CallsOnceMore(n) == turns[n].at = "model" /\ turns[n].rounds <= MaxRounds /\ calls' = NextCall

Calls(n) == turns[n].at = "model" /\ turns[n].rounds < MaxRounds /\ calls' = NextCall

Ask(n) ==
    /\ Calls(n)
    /\ messages' = Append(messages, Call(NextCall))
    /\ \E kind \in Kinds : pending' = [call |-> NextCall, kind |-> kind]
    /\ Move(n, [Called(n) EXCEPT !.at = "asking"])
    /\ UNCHANGED <<answered, seen>>

Deliver(n) ==
    /\ turns[n].at = "asking"
    /\ seen' = [seen EXCEPT !.asked = @ \cup {pending.call}]
    /\ At(n, "over")
    /\ UNCHANGED <<messages, pending, answered, calls>>

EndConversation(n) ==
    /\ Calls(n)
    /\ messages' = Append(messages, Call(NextCall))
    /\ seen' = [seen EXCEPT !.ended = @ \cup {NextCall}]
    /\ Move(n, [Called(n) EXCEPT !.at = "over"])
    /\ UNCHANGED <<pending, answered>>

(* A malformed question and a deletion nobody was asked about are answered *)
(* by the agent itself, for the model to try again.                        *)
DeleteAuthorized == answered.kind = "recurrence_scope"
                    \/ (answered.kind = "confirmation" /\ answered.affirmed)
Refuse(n) ==
    /\ Calls(n)
    /\ messages' = messages \o <<Call(NextCall), Result(NextCall)>>
    /\ Move(n, Called(n))
    /\ UNCHANGED <<pending, answered, seen>>

(* A tool runs; its call and its result are recorded once it has returned. *)
(* A plausible bug: the call is recorded before the tool has returned.     *)
RunToolRecorded(n) ==
    /\ Calls(n)
    /\ messages' = Append(messages, Call(NextCall))
    /\ Move(n, [Called(n) EXCEPT !.at = "tool"])
    /\ UNCHANGED <<pending, answered, seen>>

RunTool(n) ==
    /\ Calls(n)
    /\ Move(n, [Called(n) EXCEPT !.at = "tool"])
    /\ UNCHANGED <<messages, pending, answered, seen>>

Delete(n) ==
    /\ Calls(n) /\ DeleteAuthorized
    /\ seen' = [seen EXCEPT !.deleted = @ \cup {n}]
    /\ Move(n, [Called(n) EXCEPT !.at = "tool"])
    /\ UNCHANGED <<messages, pending, answered>>

ToolReturns(n) ==
    /\ turns[n].at = "tool"
    /\ messages' = messages \o <<Call(turns[n].call), Result(turns[n].call)>>
    /\ At(n, "model")
    /\ UNCHANGED <<pending, answered, calls, seen>>

(* The model, a tool or the protocol fails, the rounds are used up, or the *)
(* turn is interrupted: no message is made up for it.                      *)
Stop(n) ==
    /\ turns[n].at \in {"model", "tool", "asking"}
    /\ At(n, "over")
    /\ UNCHANGED <<messages, pending, answered, calls, seen>>

Turn(n) == \/ Utter(n) \/ SayReply(n) \/ Correct(n) \/ Ask(n) \/ Deliver(n)
           \/ EndConversation(n) \/ Refuse(n) \/ RunTool(n) \/ Delete(n)
           \/ ToolReturns(n) \/ Stop(n)
Next == \E n \in Utterances : Turn(n)
Spec == Init /\ [][Next]_vars

-----------------------------------------------------------------------------
(* Properties *)

Questions == [call : Nat, kind : Kinds \cup {"none"}]

(* Every variable stays in its domain.                                     *)
TypeOK ==
    /\ messages \in Seq([kind : {"user", "reply", "call", "result"}, call : Nat])
    /\ pending \in Questions
    /\ answered \in [kind : Kinds \cup {"none"}, affirmed : BOOLEAN]
    /\ turns \in [Utterances -> [at : {"unsaid", "model", "asking", "tool", "over"},
                            rounds : 0 .. MaxRounds, corrected : BOOLEAN, call : Nat,
                            answers : Questions, yes : BOOLEAN]]
    /\ calls \in Nat
    /\ seen \in [asked : SUBSET Nat, ended : SUBSET Nat, deleted : SUBSET Utterances]

(* The history a provider is sent is well formed: a tool call is followed  *)
(* by its own result, or it is the pending question and the last message.  *)
(* Turns that fail or are interrupted between the two leave neither.  What *)
(* ends the conversation stays without a result.                           *)
WellPaired ==
    \A i \in 1 .. Len(messages) :
        /\ messages[i].kind = "result" => i > 1 /\ messages[i - 1] = Call(messages[i].call)
        /\ messages[i].kind = "call" =>
            \/ i < Len(messages) /\ messages[i + 1] = Result(messages[i].call)
            \/ i = Len(messages) /\ pending.call = messages[i].call
            \/ messages[i].call \in seen.ended

(* A turn deletes only if its own utterance answered a question that may   *)
(* authorise it: not a question of an earlier turn, not a disambiguation,  *)
(* not a confirmation that was declined.                                   *)
DeleteIsAnswered ==
    \A n \in seen.deleted :
        \/ turns[n].answers.kind = "recurrence_scope"
        \/ turns[n].answers.kind = "confirmation" /\ turns[n].yes

(* "A delete is only authorized right after the user answered a            *)
(* confirmation or recurrence-scope question, never from a fresh command": *)
(* the question was put to the user.                                       *)
DeleteWasAsked == \A n \in seen.deleted : turns[n].answers.call \in seen.asked
=============================================================================
