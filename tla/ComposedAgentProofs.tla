------------------------ MODULE ComposedAgentProofs ------------------------
(***************************************************************************)
(* The composed agent: its conversation (Dialogue) and the turns of one    *)
(* session (ComposedTurns), for any number of utterances, rounds, kinds of *)
(* question, streams, finals, replies and for any size of the queues.      *)
(***************************************************************************)
EXTENDS ComposedTurns, Dialogue, FiniteSetTheorems, TLAPS

(***************************************************************************)
(* The conversation.  Its invariant says that the fields the guard on      *)
(* deletions reads are those of the one turn at work.                      *)
(***************************************************************************)
AtWork == {"model", "asking", "tool"}

(* A turn starts when all before it are over.                              *)
Serial == \A n \in Utterances : turns[n].at # "unsaid" => \A m \in 1 .. n - 1 : turns[m].at = "over"

(* What the conversation holds as answered is what the turn at work was    *)
(* given.                                                                  *)
AnswerKnown ==
    \A n \in Utterances : turns[n].at \in AtWork =>
        answered.kind = turns[n].answers.kind /\ (answered.affirmed => turns[n].yes)

DeletersBegan == \A n \in seen.deleted : turns[n].at # "unsaid"

IInv == TypeOK /\ Serial /\ AnswerKnown /\ DeletersBegan /\ DeleteIsAnswered

Messages == [kind : {"user", "reply", "call", "result"}, call : Nat]

TurnStates == [at : {"unsaid", "model", "asking", "tool", "over"},
               rounds : 0 .. MaxRounds, corrected : BOOLEAN, call : Nat,
               answers : Questions, yes : BOOLEAN]

LEMMA MessageFacts ==
    /\ User \in Messages /\ Reply \in Messages
    /\ \A c \in Nat : Call(c) \in Messages /\ Result(c) \in Messages
    /\ \A q \in Seq(Messages), x, y \in Messages :
        Append(q, x) \in Seq(Messages) /\ q \o <<x, y>> \in Seq(Messages)
BY DEF Messages, User, Reply, Call, Result

LEMMA InitIInv == Init => IInv
BY DialogueAssumption
DEF Init, IInv, TypeOK, Serial, AnswerKnown, DeletersBegan, DeleteIsAnswered, Fresh, AtWork,
    NoQuestion, NotAnswered, Questions, Utterances

LEMMA StepIInv == IInv /\ [Next]_vars => IInv'
<1> SUFFICES ASSUME IInv, [Next]_vars PROVE IInv'
  OBVIOUS
<1> USE DialogueAssumption
<1>1. ASSUME NEW n \in Utterances, Turn(n) PROVE TypeOK'
  <2>1. /\ messages \in Seq(Messages) /\ calls \in Nat /\ NextCall \in Nat
        /\ turns[n].call \in Nat /\ pending.call \in Nat /\ pending \in Questions
    BY DEF IInv, TypeOK, Messages, NextCall, Questions
  <2>2. messages' \in Seq(Messages)
    BY <1>1, <2>1, MessageFacts
    DEF Turn, Utter, SayReply, Correct, Ask, Deliver, EndConversation, Refuse, RunTool, Delete,
        ToolReturns, Stop
  <2>3. /\ turns' \in [Utterances -> TurnStates] /\ calls' \in Nat
        /\ pending' \in Questions /\ answered' \in [kind : Kinds \cup {"none"}, affirmed : BOOLEAN]
        /\ seen' \in [asked : SUBSET Nat, ended : SUBSET Nat, deleted : SUBSET Utterances]
    <3>0. /\ turns \in [Utterances -> TurnStates] /\ turns[n] \in TurnStates
          /\ answered \in [kind : Kinds \cup {"none"}, affirmed : BOOLEAN]
          /\ seen \in [asked : SUBSET Nat, ended : SUBSET Nat, deleted : SUBSET Utterances]
      BY DEF IInv, TypeOK, TurnStates
    <3>a. ASSUME Calls(n)
          PROVE  /\ calls' \in Nat /\ Called(n) \in TurnStates
                 /\ \A w \in {"asking", "tool", "over"} : [Called(n) EXCEPT !.at = w] \in TurnStates
      <4>1. turns[n].rounds + 1 \in 0 .. MaxRounds
        BY <3>0, <3>a DEF Calls, TurnStates
      <4>2. Called(n) \in TurnStates
        BY <2>1, <3>0, <4>1 DEF Called, TurnStates
      <4> QED
        BY <2>1, <3>a, <4>2 DEF Calls, TurnStates
    <3>1. CASE Utter(n)
      <4>1. PICK yes \in BOOLEAN :
                /\ turns' = [turns EXCEPT ![n] =
                        [turns[n] EXCEPT !.at = "model", !.answers = pending, !.yes = yes]]
                /\ answered' = IF pending = NoQuestion THEN NotAnswered ELSE Answers(pending, yes)
        BY <3>1 DEF Utter, Move
      <4>2. [turns[n] EXCEPT !.at = "model", !.answers = pending, !.yes = yes] \in TurnStates
        BY <2>1, <3>0 DEF TurnStates
      <4>3. answered' \in [kind : Kinds \cup {"none"}, affirmed : BOOLEAN]
        BY <2>1, <4>1 DEF NotAnswered, Answers, Questions
      <4>4. pending' \in Questions /\ calls' = calls /\ seen' = seen
        BY <3>1 DEF Utter, NoQuestion, Questions
      <4> QED
        BY <2>1, <3>0, <4>1, <4>2, <4>3, <4>4
    <3>2. CASE SayReply(n)
      BY <2>1, <3>0, <3>2 DEF SayReply, At, Move, TurnStates
    <3>3. CASE Correct(n)
      BY <2>1, <3>0, <3>3 DEF Correct, Move, TurnStates
    <3>4. CASE Ask(n)
      <4>1. Calls(n) /\ turns' = [turns EXCEPT ![n] = [Called(n) EXCEPT !.at = "asking"]]
        BY <3>4 DEF Ask, Move
      <4>2. pending' \in Questions /\ answered' = answered /\ seen' = seen
        BY <2>1, <3>4 DEF Ask, Questions
      <4> QED
        BY <3>0, <3>a, <4>1, <4>2
    <3>5. CASE Deliver(n)
      BY <2>1, <3>0, <3>5 DEF Deliver, At, Move, TurnStates
    <3>6. CASE EndConversation(n)
      BY <2>1, <3>0, <3>a, <3>6 DEF EndConversation, Move, Calls, NextCall, TurnStates
    <3>7. CASE Refuse(n)
      BY <2>1, <3>0, <3>a, <3>7 DEF Refuse, Move, Calls, TurnStates
    <3>8. CASE RunTool(n)
      BY <2>1, <3>0, <3>a, <3>8 DEF RunTool, Move, Calls, TurnStates
    <3>9. CASE Delete(n)
      BY <2>1, <3>0, <3>a, <3>9 DEF Delete, Move, Calls, TurnStates
    <3>10. CASE ToolReturns(n)
      BY <2>1, <3>0, <3>10 DEF ToolReturns, At, Move, TurnStates
    <3>11. CASE Stop(n)
      BY <2>1, <3>0, <3>11 DEF Stop, At, Move, TurnStates
    <3> QED
      BY <1>1, <3>1, <3>2, <3>3, <3>4, <3>5, <3>6, <3>7, <3>8, <3>9, <3>10, <3>11 DEF Turn
  <2> QED
    BY <2>2, <2>3 DEF TypeOK, Messages, TurnStates
<1>2. ASSUME NEW n \in Utterances, Utter(n) PROVE (Serial /\ AnswerKnown /\ DeletersBegan /\ DeleteIsAnswered)'
  <2>1. \A m \in Utterances \ {n} : turns'[m] = turns[m]
    BY <1>2 DEF Utter, Move, IInv, TypeOK
  <2>2. PICK yes \in BOOLEAN :
            /\ turns'[n] = [turns[n] EXCEPT !.at = "model", !.answers = pending, !.yes = yes]
            /\ answered' = IF pending = NoQuestion THEN NotAnswered ELSE Answers(pending, yes)
    BY <1>2 DEF Utter, Move, IInv, TypeOK
  <2>3. turns'[n].at = "model" /\ turns'[n].answers = pending /\ turns'[n].yes = yes
    BY <2>2 DEF IInv, TypeOK
  <2>4. n \in Nat /\ \A m \in Utterances : m \in Nat
    BY DEF Utterances
  <2>5. \A m \in Utterances : m > n => turns[m].at = "unsaid"
    BY <1>2, <2>4 DEF IInv, Serial, Utter, Utterances
  <2>6. \A m \in Utterances : m < n => turns[m].at = "over"
    BY <1>2, <2>4 DEF Utter, Utterances
  <2>7. Serial'
    BY <2>1, <2>3, <2>4, <2>5, <2>6 DEF IInv, Serial, Utterances
  <2>8. answered'.kind = pending.kind /\ (answered'.affirmed => yes)
    BY <2>2 DEF NoQuestion, NotAnswered, Answers
  <2>9. AnswerKnown'
    BY <2>1, <2>3, <2>4, <2>5, <2>6, <2>8 DEF AnswerKnown, AtWork
  <2>10. n \notin seen.deleted /\ seen' = seen
    BY <1>2 DEF Utter, IInv, DeletersBegan
  <2>11. DeletersBegan'
    <3>1. seen.deleted \subseteq Utterances
      BY DEF IInv, TypeOK
    <3> QED
      BY <2>1, <2>10, <3>1 DEF IInv, DeletersBegan
  <2>12. DeleteIsAnswered'
    BY <2>1, <2>10 DEF IInv, TypeOK, DeletersBegan, DeleteIsAnswered
  <2> QED
    BY <2>7, <2>9, <2>11, <2>12
(* Every other step leaves the answer and the other turns as they are.     *)
<1>3. ASSUME NEW n \in Utterances, Turn(n), ~Utter(n)
      PROVE  /\ answered' = answered /\ \A m \in Utterances \ {n} : turns'[m] = turns[m]
             /\ turns[n].at \in AtWork /\ turns'[n].at \in AtWork \cup {"over"}
             /\ turns'[n].answers = turns[n].answers /\ turns'[n].yes = turns[n].yes
             /\ seen'.deleted \in {seen.deleted, seen.deleted \cup {n}}
             /\ seen'.deleted # seen.deleted => DeleteAuthorized
  <2>0. turns \in [Utterances -> TurnStates] /\ turns[n] \in TurnStates
        /\ seen \in [asked : SUBSET Nat, ended : SUBSET Nat, deleted : SUBSET Utterances]
    BY DEF IInv, TypeOK, TurnStates
  <2>1. CASE SayReply(n)
    BY <2>0, <2>1 DEF SayReply, At, Move, TurnStates, AtWork
  <2>2. CASE Correct(n)
    BY <2>0, <2>2 DEF Correct, Move, TurnStates, AtWork
  <2>3. CASE Ask(n)
    BY <2>0, <2>3 DEF Ask, Calls, Called, Move, TurnStates, AtWork
  <2>4. CASE Deliver(n)
    BY <2>0, <2>4 DEF Deliver, At, Move, TurnStates, AtWork
  <2>5. CASE EndConversation(n)
    BY <2>0, <2>5 DEF EndConversation, Calls, Called, Move, TurnStates, AtWork
  <2>6. CASE Refuse(n)
    BY <2>0, <2>6 DEF Refuse, Calls, Called, Move, TurnStates, AtWork
  <2>7. CASE RunTool(n)
    BY <2>0, <2>7 DEF RunTool, Calls, Called, Move, TurnStates, AtWork
  <2>8. CASE Delete(n)
    BY <2>0, <2>8 DEF Delete, Calls, Called, Move, TurnStates, AtWork
  <2>9. CASE ToolReturns(n)
    BY <2>0, <2>9 DEF ToolReturns, At, Move, TurnStates, AtWork
  <2>10. CASE Stop(n)
    BY <2>0, <2>10 DEF Stop, At, Move, TurnStates, AtWork
  <2> QED
    BY <1>3, <2>1, <2>2, <2>3, <2>4, <2>5, <2>6, <2>7, <2>8, <2>9, <2>10 DEF Turn
<1>4. ASSUME NEW n \in Utterances, Turn(n), ~Utter(n)
      PROVE  (Serial /\ AnswerKnown /\ DeletersBegan /\ DeleteIsAnswered)'
  <2>1. /\ answered' = answered /\ \A m \in Utterances \ {n} : turns'[m] = turns[m]
        /\ turns[n].at \in AtWork /\ turns'[n].at \in AtWork \cup {"over"}
        /\ turns'[n].answers = turns[n].answers /\ turns'[n].yes = turns[n].yes
        /\ seen'.deleted \in {seen.deleted, seen.deleted \cup {n}}
        /\ seen'.deleted # seen.deleted => DeleteAuthorized
    BY <1>3, <1>4
  <2>5. \A m \in Utterances : turns'[m].at = "unsaid" <=> turns[m].at = "unsaid"
    BY <2>1 DEF AtWork
  <2>6. \A m \in Utterances : turns[m].at = "over" => turns'[m].at = "over"
    BY <2>1 DEF AtWork
  <2>7. Serial'
    BY <2>5, <2>6 DEF IInv, Serial, Utterances
  <2>8. DeletersBegan'
    BY <2>1, <2>5 DEF IInv, TypeOK, DeletersBegan, AtWork
  <2>2. AnswerKnown'
    BY <2>1 DEF IInv, AnswerKnown, AtWork
  <2>3. ASSUME DeleteAuthorized
        PROVE  \/ turns[n].answers.kind = "recurrence_scope"
               \/ turns[n].answers.kind = "confirmation" /\ turns[n].yes
    BY <2>1, <2>3, Zenon DEF IInv, AnswerKnown, DeleteAuthorized
  <2>9. DeleteIsAnswered'
    <3>1. \A m \in Utterances : turns'[m].answers = turns[m].answers /\ turns'[m].yes = turns[m].yes
      BY <2>1
    <3>2. seen'.deleted \subseteq Utterances
      BY <2>1 DEF IInv, TypeOK
    <3> SUFFICES ASSUME NEW m \in seen'.deleted
                 PROVE  \/ turns[m].answers.kind = "recurrence_scope"
                        \/ turns[m].answers.kind = "confirmation" /\ turns[m].yes
      BY <3>1, <3>2 DEF DeleteIsAnswered
    <3>3. CASE m \in seen.deleted
      BY <3>3, Zenon DEF IInv, DeleteIsAnswered
    <3>4. CASE m \notin seen.deleted
      BY <2>1, <2>3, <3>4, Zenon
    <3> QED
      BY <3>3, <3>4
  <2> QED
    BY <2>2, <2>7, <2>8, <2>9
<1>5. CASE UNCHANGED vars
  BY <1>5 DEF vars, IInv, TypeOK, Serial, AnswerKnown, DeletersBegan, DeleteIsAnswered
<1> QED
  BY <1>1, <1>2, <1>4, <1>5 DEF Next, IInv, Turn

(* The conversation's state keeps its type, whatever the model answers and *)
(* wherever a turn is stopped.                                             *)
THEOREM TypeCorrect == Spec => []TypeOK
<1>1. IInv => TypeOK
  BY DEF IInv
<1> QED
  BY <1>1, InitIInv, StepIInv, PTL DEF Spec

(* A turn deletes only when its own utterance answered a question that may *)
(* authorise a deletion.                                                   *)
THEOREM DeletesCorrect == Spec => []DeleteIsAnswered
<1>1. IInv => DeleteIsAnswered
  BY DEF IInv
<1> QED
  BY <1>1, InitIInv, StepIInv, PTL DEF Spec
-----------------------------------------------------------------------------
(* The history.  Nothing is open while a turn asks its model or runs a     *)
(* tool, and a pending question is the last message, so that whatever is   *)
(* appended finds the history paired.                                      *)

Numbered(q) == \A i \in 1 .. Len(q) : q[i].kind = "call" => q[i].call >= 1

(* WellPaired of a history q, when p is the call of the pending question   *)
(* and e are the calls that ended the conversation.                        *)
Paired(q, p, e) ==
    \A i \in 1 .. Len(q) :
        /\ q[i].kind = "result" => i > 1 /\ q[i - 1] = Call(q[i].call)
        /\ q[i].kind = "call" => \/ i < Len(q) /\ q[i + 1] = Result(q[i].call)
                                 \/ i = Len(q) /\ p = q[i].call
                                 \/ q[i].call \in e

QuestionIsLast ==
    pending # NoQuestion => Len(messages) > 0 /\ messages[Len(messages)] = Call(pending.call)

NothingPending == \A n \in Utterances : turns[n].at \in {"model", "tool"} => pending = NoQuestion

CallsNumbered ==
    Numbered(messages) /\ \A n \in Utterances : turns[n].at = "tool" => turns[n].call >= 1

History == WellPaired /\ QuestionIsLast /\ NothingPending /\ CallsNumbered

LEMMA AppendFacts ==
    ASSUME NEW q \in Seq(Messages), NEW x \in Messages
    PROVE  /\ Append(q, x) \in Seq(Messages) /\ Len(q) \in Nat
           /\ Len(Append(q, x)) = Len(q) + 1
           /\ Append(q, x)[Len(q) + 1] = x
           /\ \A i \in 1 .. Len(q) : Append(q, x)[i] = q[i] /\ q[i] \in Messages
OBVIOUS

LEMMA AppendTwo ==
    ASSUME NEW q \in Seq(Messages), NEW x \in Messages, NEW y \in Messages
    PROVE  q \o <<x, y>> = Append(Append(q, x), y)
OBVIOUS

LEMMA AppendNumbered ==
    ASSUME NEW q \in Seq(Messages), NEW x \in Messages, Numbered(q),
           x.kind = "call" => x.call >= 1
    PROVE  Numbered(Append(q, x))
<1>1. \A i \in 1 .. Len(q) + 1 : i = Len(q) + 1 \/ i \in 1 .. Len(q)
  BY AppendFacts
<1> QED
  BY <1>1, AppendFacts DEF Numbered

(* What is neither a call nor a result, when nothing is pending.           *)
LEMMA AppendPlain ==
    ASSUME NEW q \in Seq(Messages), NEW x \in Messages, NEW p, NEW e,
           Paired(q, 0, e), Numbered(q), x.kind \in {"user", "reply"}
    PROVE  Paired(Append(q, x), p, e)
<1> DEFINE r == Append(q, x)
<1>1. /\ Len(r) = Len(q) + 1 /\ Len(q) \in Nat /\ r[Len(q) + 1] = x
      /\ \A i \in 1 .. Len(q) : r[i] = q[i] /\ q[i] \in Messages
  BY AppendFacts
<1> HIDE DEF r
<1> SUFFICES ASSUME NEW i \in 1 .. Len(r)
             PROVE  /\ r[i].kind = "result" => i > 1 /\ r[i - 1] = Call(r[i].call)
                    /\ r[i].kind = "call" => \/ i < Len(r) /\ r[i + 1] = Result(r[i].call)
                                             \/ i = Len(r) /\ p = r[i].call
                                             \/ r[i].call \in e
  BY DEF Paired, r
<1>2. CASE i = Len(q) + 1
  BY <1>1, <1>2
<1>3. CASE i \in 1 .. Len(q)
  <2>1. /\ q[i].kind = "result" => i > 1 /\ q[i - 1] = Call(q[i].call)
        /\ q[i].kind = "call" => \/ i < Len(q) /\ q[i + 1] = Result(q[i].call)
                                 \/ i = Len(q) /\ 0 = q[i].call
                                 \/ q[i].call \in e
    BY <1>3 DEF Paired
  <2>2. q[i].kind = "call" => q[i].call # 0
    BY <1>1, <1>3 DEF Numbered, Messages
  <2>3. /\ i > 1 => r[i - 1] = q[i - 1]
        /\ i < Len(q) => r[i + 1] = q[i + 1]
    BY <1>1, <1>3
  <2> QED
    BY <1>1, <1>3, <2>1, <2>2, <2>3
<1> QED
  BY <1>1, <1>2, <1>3

(* The answer to the pending question.                                     *)
LEMMA AppendAnswer ==
    ASSUME NEW q \in Seq(Messages), NEW c \in Nat, NEW p, NEW e,
           Paired(q, c, e), Len(q) > 0, q[Len(q)] = Call(c)
    PROVE  Paired(Append(q, Result(c)), p, e)
<1> DEFINE r == Append(q, Result(c))
<1>1. /\ Len(r) = Len(q) + 1 /\ Len(q) \in Nat /\ r[Len(q) + 1] = Result(c)
      /\ \A i \in 1 .. Len(q) : r[i] = q[i]
  BY AppendFacts, MessageFacts
<1> HIDE DEF r
<1> SUFFICES ASSUME NEW i \in 1 .. Len(r)
             PROVE  /\ r[i].kind = "result" => i > 1 /\ r[i - 1] = Call(r[i].call)
                    /\ r[i].kind = "call" => \/ i < Len(r) /\ r[i + 1] = Result(r[i].call)
                                             \/ i = Len(r) /\ p = r[i].call
                                             \/ r[i].call \in e
  BY DEF Paired, r
<1>2. CASE i = Len(q) + 1
  BY <1>1, <1>2 DEF Result
<1>3. CASE i \in 1 .. Len(q)
  <2>1. /\ q[i].kind = "result" => i > 1 /\ q[i - 1] = Call(q[i].call)
        /\ q[i].kind = "call" => \/ i < Len(q) /\ q[i + 1] = Result(q[i].call)
                                 \/ i = Len(q) /\ c = q[i].call
                                 \/ q[i].call \in e
    BY <1>3 DEF Paired
  <2>2. /\ i > 1 => r[i - 1] = q[i - 1]
        /\ i < Len(q) => r[i + 1] = q[i + 1]
    BY <1>1, <1>3
  <2> QED
    BY <1>1, <1>3, <2>1, <2>2
<1> QED
  BY <1>1, <1>2, <1>3

(* A call that stays open: a question, or the end of the conversation.     *)
LEMMA AppendCall ==
    ASSUME NEW q \in Seq(Messages), NEW c \in Nat, NEW p, NEW e, NEW f,
           Paired(q, 0, e), Numbered(q), e \subseteq f, p = c \/ c \in f
    PROVE  Paired(Append(q, Call(c)), p, f)
<1> DEFINE r == Append(q, Call(c))
<1>1. /\ Len(r) = Len(q) + 1 /\ Len(q) \in Nat /\ r[Len(q) + 1] = Call(c)
      /\ \A i \in 1 .. Len(q) : r[i] = q[i] /\ q[i] \in Messages
  BY AppendFacts, MessageFacts
<1> HIDE DEF r
<1> SUFFICES ASSUME NEW i \in 1 .. Len(r)
             PROVE  /\ r[i].kind = "result" => i > 1 /\ r[i - 1] = Call(r[i].call)
                    /\ r[i].kind = "call" => \/ i < Len(r) /\ r[i + 1] = Result(r[i].call)
                                             \/ i = Len(r) /\ p = r[i].call
                                             \/ r[i].call \in f
  BY DEF Paired, r
<1>2. CASE i = Len(q) + 1
  BY <1>1, <1>2 DEF Call
<1>3. CASE i \in 1 .. Len(q)
  <2>1. /\ q[i].kind = "result" => i > 1 /\ q[i - 1] = Call(q[i].call)
        /\ q[i].kind = "call" => \/ i < Len(q) /\ q[i + 1] = Result(q[i].call)
                                 \/ i = Len(q) /\ 0 = q[i].call
                                 \/ q[i].call \in e
    BY <1>3 DEF Paired
  <2>2. q[i].kind = "call" => q[i].call # 0
    BY <1>1, <1>3 DEF Numbered, Messages
  <2>3. /\ i > 1 => r[i - 1] = q[i - 1]
        /\ i < Len(q) => r[i + 1] = q[i + 1]
    BY <1>1, <1>3
  <2> QED
    BY <1>1, <1>3, <2>1, <2>2, <2>3
<1> QED
  BY <1>1, <1>2, <1>3

(* A call and its result, both at once.                                    *)
LEMMA AppendPair ==
    ASSUME NEW q \in Seq(Messages), NEW c \in Nat, NEW e,
           Paired(q, 0, e), Numbered(q), c >= 1
    PROVE  LET r == q \o <<Call(c), Result(c)>> IN Paired(r, 0, e) /\ Numbered(r)
<1>1. Call(c) \in Messages /\ Result(c) \in Messages
      /\ Call(c).kind = "call" /\ Call(c).call = c /\ Result(c).kind = "result"
  BY MessageFacts DEF Call, Result
<1> DEFINE s == Append(q, Call(c))
<1>2. Paired(s, c, e) /\ Numbered(s) /\ s \in Seq(Messages) /\ Len(s) > 0 /\ s[Len(s)] = Call(c)
  BY <1>1, AppendCall, AppendNumbered, AppendFacts
<1>3. q \o <<Call(c), Result(c)>> = Append(s, Result(c))
  BY <1>1, AppendTwo
<1> HIDE DEF s
<1>4. Paired(Append(s, Result(c)), 0, e) /\ Numbered(Append(s, Result(c)))
  BY <1>1, <1>2, AppendAnswer, AppendNumbered
<1> QED
  BY <1>3, <1>4

LEMMA InitHistory == Init => History
BY DialogueAssumption
DEF Init, History, WellPaired, QuestionIsLast, NothingPending, CallsNumbered, Numbered, Fresh,
    Utterances

LEMMA StepHistory == IInv /\ History /\ [Next]_vars => History'
<1> SUFFICES ASSUME IInv, History, [Next]_vars PROVE History'
  OBVIOUS
<1> USE DialogueAssumption
<1>0. /\ messages \in Seq(Messages) /\ calls \in Nat /\ NextCall \in Nat /\ NextCall >= 1
      /\ turns \in [Utterances -> TurnStates] /\ pending.call \in Nat
      /\ seen \in [asked : SUBSET Nat, ended : SUBSET Nat, deleted : SUBSET Utterances]
      /\ Paired(messages, pending.call, seen.ended) /\ Numbered(messages)
  <2>1. /\ messages \in Seq(Messages) /\ calls \in Nat /\ pending.call \in Nat
        /\ turns \in [Utterances -> TurnStates]
        /\ seen \in [asked : SUBSET Nat, ended : SUBSET Nat, deleted : SUBSET Utterances]
    BY DEF IInv, TypeOK, Messages, TurnStates, Questions
  <2>2. NextCall \in Nat /\ NextCall >= 1
    BY <2>1 DEF NextCall
  <2>3. Paired(messages, pending.call, seen.ended) /\ Numbered(messages)
    BY DEF History, WellPaired, Paired, CallsNumbered
  <2> QED BY <2>1, <2>2, <2>3
<1>1. /\ User \in Messages /\ User.kind = "user" /\ Reply \in Messages /\ Reply.kind = "reply"
      /\ \A c \in Nat : /\ Call(c) \in Messages /\ Call(c).kind = "call" /\ Call(c).call = c
                        /\ Result(c) \in Messages /\ Result(c).kind = "result"
      /\ NoQuestion.call = 0
  BY MessageFacts DEF User, Reply, Call, Result, NoQuestion
(* While a turn is at work no other is, so what it leaves pending is its   *)
(* own.                                                                    *)
<1>2. ASSUME NEW n \in Utterances, turns[n].at \in AtWork, NEW m \in Utterances \ {n}
      PROVE  turns[m].at \notin AtWork
  <2>1. n \in Nat /\ m \in Nat /\ (m < n \/ n < m)
    BY DEF Utterances
  <2>2. m < n => turns[m].at = "over"
    BY <1>2, <2>1 DEF IInv, Serial, AtWork, Utterances
  <2>3. n < m => turns[m].at = "unsaid"
    BY <1>2, <2>1 DEF IInv, Serial, AtWork, Utterances
  <2> QED
    BY <2>1, <2>2, <2>3 DEF AtWork
<1>3. ASSUME NEW n \in Utterances, turns[n].at \in {"model", "tool"}
      PROVE  pending = NoQuestion /\ Paired(messages, 0, seen.ended)
  BY <1>0, <1>1, <1>3 DEF History, NothingPending
(* The conclusion, for a step that leaves nothing pending.                 *)
<1>4. ASSUME NEW n \in Utterances, \A m \in Utterances \ {n} : turns'[m] = turns[m],
             turns'[n].at = "tool" => turns'[n].call >= 1,
             pending' = NoQuestion, Paired(messages', 0, seen'.ended), Numbered(messages')
      PROVE  History'
  BY <1>1, <1>4 DEF History, WellPaired, Paired, QuestionIsLast, NothingPending, CallsNumbered
<1>5. ASSUME NEW n \in Utterances, Utter(n) PROVE History'
  <2>0. /\ turns'[n].at = "model" /\ \A m \in Utterances \ {n} : turns'[m] = turns[m]
        /\ pending' = NoQuestion /\ seen' = seen
        /\ messages' = Append(messages, IF pending = NoQuestion THEN User ELSE Result(pending.call))
    BY <1>0, <1>5 DEF Utter, Move, TurnStates
  <2>1. CASE pending = NoQuestion
    <3>1. Paired(messages', 0, seen'.ended) /\ Numbered(messages')
      <4>1. Paired(messages, 0, seen.ended) /\ messages' = Append(messages, User)
        BY <1>0, <1>1, <2>0, <2>1
      <4> QED
        BY <1>0, <1>1, <2>0, <4>1, AppendPlain, AppendNumbered
    <3> QED
      BY <1>4, <2>0, <3>1
  <2>2. CASE pending # NoQuestion
    <3>1. Paired(messages', 0, seen'.ended)
      BY <1>0, <2>0, <2>2, AppendAnswer DEF History, QuestionIsLast
    <3>2. Numbered(messages')
      BY <1>0, <1>1, <2>0, <2>2, AppendNumbered
    <3> QED
      BY <1>4, <2>0, <3>1, <3>2
  <2> QED
    BY <2>1, <2>2
<1>6. CASE \E n \in Utterances : SayReply(n) \/ Correct(n)
  <2> PICK n \in Utterances : SayReply(n) \/ Correct(n)
    BY <1>6
  <2>1. /\ turns[n].at = "model" /\ \A m \in Utterances \ {n} : turns'[m] = turns[m]
        /\ turns'[n].at \in {"model", "over"} /\ pending' = pending /\ seen' = seen
        /\ \/ messages' = Append(messages, Reply)
           \/ messages' = messages \o <<Reply, User>>
    <3>1. turns \in [Utterances -> TurnStates] /\ turns[n] \in TurnStates
      BY <1>0
    <3>2. CASE SayReply(n)
      BY <3>1, <3>2 DEF SayReply, At, Move, TurnStates
    <3>3. CASE Correct(n)
      BY <3>1, <3>3 DEF Correct, At, Move, TurnStates
    <3> QED BY <3>2, <3>3
  <2>2. Paired(messages', 0, seen'.ended) /\ Numbered(messages')
    <3>1. /\ Paired(messages, 0, seen.ended) /\ Numbered(messages)
          /\ messages \in Seq(Messages)
      BY <1>0, <1>3, <2>1
    <3>2. /\ Paired(Append(messages, Reply), 0, seen.ended) /\ Numbered(Append(messages, Reply))
          /\ Append(messages, Reply) \in Seq(Messages)
      BY <1>1, <3>1, AppendPlain, AppendNumbered, AppendFacts
    <3>3. /\ Paired(Append(Append(messages, Reply), User), 0, seen.ended)
          /\ Numbered(Append(Append(messages, Reply), User))
      BY <1>1, <3>2, AppendPlain, AppendNumbered
    <3>4. messages \o <<Reply, User>> = Append(Append(messages, Reply), User)
      BY <1>1, <3>1, AppendTwo
    <3> QED
      BY <2>1, <3>2, <3>3, <3>4
  <2> QED
    BY <1>3, <1>4, <2>1, <2>2
<1>7. CASE \E n \in Utterances : Ask(n)
  <2> PICK n \in Utterances : Ask(n)
    BY <1>7
  <2>1. /\ turns[n].at = "model" /\ \A m \in Utterances \ {n} : turns'[m] = turns[m]
        /\ turns'[n].at = "asking" /\ pending'.call = NextCall /\ seen' = seen
        /\ messages' = Append(messages, Call(NextCall))
    BY <1>0 DEF Ask, Calls, Called, Move, TurnStates
  <2>2. Paired(messages', NextCall, seen'.ended) /\ Numbered(messages')
        /\ Len(messages') > 0 /\ messages'[Len(messages')] = Call(NextCall)
    BY <1>0, <1>1, <1>3, <2>1, AppendCall, AppendNumbered, AppendFacts
  <2>3. \A m \in Utterances : turns'[m].at \notin {"model", "tool"}
    BY <1>2, <2>1 DEF AtWork
  <2> QED
    BY <2>1, <2>2, <2>3
    DEF History, WellPaired, Paired, QuestionIsLast, NothingPending, CallsNumbered
<1>8. CASE \E n \in Utterances : EndConversation(n)
  <2> PICK n \in Utterances : EndConversation(n)
    BY <1>8
  <2>1. /\ turns[n].at = "model" /\ \A m \in Utterances \ {n} : turns'[m] = turns[m]
        /\ turns'[n].at = "over" /\ pending' = pending
        /\ seen'.ended = seen.ended \cup {NextCall}
        /\ messages' = Append(messages, Call(NextCall))
    BY <1>0 DEF EndConversation, Calls, Called, Move, TurnStates
  <2>2. Paired(messages', 0, seen'.ended) /\ Numbered(messages')
    BY <1>0, <1>1, <1>3, <2>1, AppendCall, AppendNumbered
  <2> QED
    BY <1>3, <1>4, <2>1, <2>2
<1>9. CASE \E n \in Utterances : Refuse(n) \/ ToolReturns(n)
  <2> PICK n \in Utterances : Refuse(n) \/ ToolReturns(n)
    BY <1>9
  <2>1. /\ turns[n].at \in {"model", "tool"} /\ \A m \in Utterances \ {n} : turns'[m] = turns[m]
        /\ turns'[n].at = "model" /\ pending' = pending /\ seen' = seen
        /\ \E c \in Nat : c >= 1 /\ messages' = messages \o <<Call(c), Result(c)>>
    <3>1. turns[n] \in TurnStates
      BY <1>0
    <3>2. CASE Refuse(n)
      BY <1>0, <3>1, <3>2 DEF Refuse, Calls, Called, Move, TurnStates
    <3>3. CASE ToolReturns(n)
      BY <1>0, <3>1, <3>3 DEF ToolReturns, At, Move, TurnStates, History, CallsNumbered
    <3> QED
      BY <3>2, <3>3
  <2>2. Paired(messages', 0, seen'.ended) /\ Numbered(messages')
    BY <1>0, <1>3, <2>1, AppendPair
  <2> QED
    BY <1>3, <1>4, <2>1, <2>2
<1>10. CASE \E n \in Utterances : RunTool(n) \/ Delete(n)
  <2> PICK n \in Utterances : RunTool(n) \/ Delete(n)
    BY <1>10
  <2>1. /\ turns[n].at = "model" /\ \A m \in Utterances \ {n} : turns'[m] = turns[m]
        /\ turns'[n].call = NextCall /\ pending' = pending /\ seen'.ended = seen.ended
        /\ messages' = messages
    <3>1. turns[n] \in TurnStates /\ Called(n).call = NextCall
      BY <1>0 DEF Called, TurnStates
    <3>2. CASE RunTool(n)
      BY <1>0, <3>1, <3>2 DEF RunTool, Calls, Called, Move, TurnStates
    <3>3. CASE Delete(n)
      BY <1>0, <3>1, <3>3 DEF Delete, Calls, Called, Move, TurnStates
    <3> QED
      BY <3>2, <3>3
  <2> QED
    BY <1>0, <1>3, <1>4, <2>1
(* A question that is delivered, or a turn that stops, leaves the history. *)
<1>11. CASE \E n \in Utterances : Deliver(n) \/ Stop(n)
  <2> PICK n \in Utterances : Deliver(n) \/ Stop(n)
    BY <1>11
  <2>1. /\ turns'[n].at = "over" /\ \A m \in Utterances \ {n} : turns'[m] = turns[m]
        /\ pending' = pending /\ messages' = messages /\ seen'.ended = seen.ended
    BY <1>0 DEF Deliver, Stop, At, Move, TurnStates
  <2> QED
    BY <2>1 DEF History, WellPaired, QuestionIsLast, NothingPending, CallsNumbered
<1>12. CASE UNCHANGED vars
  BY <1>12 DEF vars, History, WellPaired, QuestionIsLast, NothingPending, CallsNumbered
<1> QED
  BY <1>5, <1>6, <1>7, <1>8, <1>9, <1>10, <1>11, <1>12 DEF Next, Turn

(* The history a provider is sent is well formed, wherever turns failed or *)
(* were interrupted: every call is followed by its result, waits for the   *)
(* next utterance, or ended the conversation.                              *)
THEOREM HistoryCorrect == Spec => []WellPaired
<1>1. Init => IInv /\ History
  BY InitIInv, InitHistory
<1>2. IInv /\ History /\ [Next]_vars => IInv' /\ History'
  BY StepIInv, StepHistory
<1>3. History => WellPaired
  BY DEF History
<1> QED
  BY <1>1, <1>2, <1>3, PTL DEF Spec

------------------------------------------------------------------------------
(***************************************************************************)
(* The turns of a session.  That the session knows of its one voice does   *)
(* not follow from the step before alone: it needs that a call has one     *)
(* turn under way, that generations are begun once and in the order of the *)
(* streams, and that a turn its call has left behind is stale before       *)
(* another call may start.                                                 *)
(***************************************************************************)

(* What a turn's own fields say of each other.                              *)
Unspoken == {"idle", "called", "heard"}
Shape(r) ==
    /\ r.at \in Unspoken => r.maker = "idle" /\ r.text = "reading" /\ r.speech = "quiet"
    /\ r.at \in {"running", "joining"} => r.maker # "idle"
    /\ r.at \notin {"running", "joining"} =>
           r.maker \in {"idle", "done"} /\ \A c \in Outputs : r.queue[c] = 0
    /\ r.maker \in {"idle", "done"} => r.due = {}
    /\ r.maker = "busy" => r.at = "running"
    /\ r.speech \in {"fed", "playing"} => r.at = "running"
    /\ r.at = "joining" => r.text # "reading" /\ r.speech \in {"through", "gone"}
    /\ r.at = "farewell" => r.text = "through" /\ r.speech = "through"

UnderWay(t) == turn[t].at \in {"called", "heard", "running", "joining"}
WithTurn == {"turn", "settle", "barging", "barged", "ended"}
Waits(s) == call[s].at \in {"armed", "queued"}
Begun(s) == call[s].generation # 0

TurnsInShape == \A t \in Turns : Shape(turn[t])

(* A call has one turn under way at most, the one of its last final.        *)
OneTurn == \A t \in Turns :
    /\ UnderWay(t) => t[2] = call[t[1]].final /\ call[t[1]].at \in WithTurn
    /\ turn[t].at # "idle" => t[2] <= call[t[1]].final /\ Begun(t[1])

(* A stale turn never becomes current again.                                *)
CutIsStale == \A t \in Turns :
    turn[t].at = "running" /\ "gone" \in {turn[t].text, turn[t].speech} => ~IsCurrent(t)

(* Generations are begun once, in the order of the streams.                 *)
GenerationsRise ==
    /\ \A s \in Streams : call[s].generation <= session.generation
    /\ \A s, o \in Streams : Begun(s) /\ call[s].generation = call[o].generation => s = o
    /\ \A s \in Streams : call[s].at \in {"off", "armed", "queued"} => ~Begun(s)
    /\ \A s \in Running : Begun(s)
    /\ \A s, o \in Streams : Begun(s) /\ o < s => ~Waits(o)

(* The microphone's stream is the newest.                                   *)
NewestHasMic ==
    /\ \E n \in 0 .. LastStream : Opened = 1 .. n
    /\ \A s \in Streams : call[s].at = "armed" => mic = s
    /\ mic # 0 => mic \in Opened /\ \A s \in Opened : s <= mic

(* What the receive loop waits for.                                         *)
ReceiverKnows ==
    /\ session.turn # 0 => Begun(session.turn)
    /\ receiver.at \in {"interrupting", "cancelling"} =>
        /\ mic = 0 /\ New \in Streams
        /\ receiver.of # 0 => /\ Begun(receiver.of)
                              /\ call[receiver.of].generation < session.generation
    /\ receiver.at \in {"leaving", "gone"} => mic = 0 /\ \A s \in Streams : ~Waits(s)
    /\ receiver.at = "gone" => \A s \in Streams : call[s].generation < session.generation

(* A current turn its call has left behind: no other call waits its turn.   *)
NobodyBehind == \A t \in Turns :
    UnderWay(t) /\ IsCurrent(t) /\ t[1] \notin Running =>
        receiver.at \notin {"interrupting", "cancelling"} /\ \A s \in Streams : ~Waits(s)

(* The calls and the receive loop, the turns, and all of it.                *)
CallInv == GenerationsRise /\ NewestHasMic /\ ReceiverKnows
TurnInv == TurnsInShape /\ OneTurn /\ CutIsStale /\ NobodyBehind /\ VoiceIsKnown
ComposedInv == ComposedTypeOK /\ CallInv /\ TurnInv

------------------------------------------------------------------------------
(* Types by name.                                                           *)
CallRecord ==
    [at : {"off", "armed", "queued", "next", "turn", "settle", "barging", "barged", "ended"},
     generation : Nat, final : 0 .. MaxFinals, ending : BOOLEAN]
TurnRecord ==
    [at : {"idle", "called", "heard", "running", "joining"} \cup Ended,
     maker : {"idle", "busy", "parting", "done"}, left : Nat, due : SUBSET Outputs,
     queue : [Outputs -> 0 .. QueueSize], text : {"reading", "through", "gone"},
     speech : {"quiet", "fed", "playing", "through", "gone"}, failed : BOOLEAN]
SessionRecord ==
    [mode : Modes, generation : Nat, turn : {0} \cup Streams, audio : {NoTurn} \cup Turns]

LEMMA Types ==
    ASSUME ComposedTypeOK
    PROVE  /\ session \in SessionRecord /\ mic \in {0} \cup Streams
           /\ call \in [Streams -> CallRecord] /\ turn \in [Turns -> TurnRecord]
           /\ \A s \in Streams : call[s] \in CallRecord
           /\ \A t \in Turns : turn[t] \in TurnRecord
BY DEF ComposedTypeOK, SessionRecord, CallRecord, TurnRecord

LEMMA TurnPair ==
    ASSUME NEW t \in Turns
    PROVE  /\ t[1] \in Streams /\ t[2] \in 1 .. MaxFinals /\ t = <<t[1], t[2]>>
           /\ t # NoTurn /\ t[1] \in Nat /\ t[1] # 0 /\ t[2] \in Nat
BY DEF Turns, Streams, NoTurn

LEMMA OfferedFacts ==
    ASSUME NEW r \in TurnRecord
    PROVE  /\ Offered(r) \in TurnRecord
           /\ Offered(r).at = r.at /\ Offered(r).maker = r.maker /\ Offered(r).left = r.left
           /\ Offered(r).text = r.text /\ Offered(r).speech = r.speech
           /\ Offered(r).failed = r.failed
<1> DEFINE full == {c \in Outputs : r.queue[c] = QueueSize}
           q == [c \in Outputs |-> IF c \in full THEN r.queue[c] ELSE r.queue[c] + 1]
<1>1. full \in SUBSET Outputs
  OBVIOUS
<1>2. q \in [Outputs -> 0 .. QueueSize]
  <2>1. \A c \in Outputs : r.queue[c] \in 0 .. QueueSize
    BY DEF TurnRecord
  <2> QED BY <2>1, ComposedTurnsAssumption
<1>3. Offered(r) = [r EXCEPT !.due = full, !.queue = q]
  BY DEF Offered
<1> HIDE DEF full, q
<1> QED BY <1>1, <1>2, <1>3 DEF TurnRecord

LEMMA PartingFacts ==
    ASSUME NEW r \in TurnRecord
    PROVE  /\ Parting(r) \in TurnRecord /\ Parting(r).maker = "parting"
           /\ Parting(r).at = r.at /\ Parting(r).left = r.left
           /\ Parting(r).text = r.text /\ Parting(r).speech = r.speech
           /\ Parting(r).failed = r.failed
<1> DEFINE o == Offered(r)
<1>1. o \in TurnRecord /\ o.at = r.at /\ o.left = r.left /\ o.text = r.text /\ o.speech = r.speech
      /\ o.failed = r.failed
  BY OfferedFacts
<1>2. Parting(r) = [o EXCEPT !.maker = "parting"]
  BY DEF Parting
<1> HIDE DEF o
<1> QED BY <1>1, <1>2 DEF TurnRecord

LEMMA AbandonedFacts ==
    ASSUME NEW r \in TurnRecord, r.at \in {"running", "joining"}, r.maker # "idle"
    PROVE  /\ Abandoned(r) \in TurnRecord /\ Shape(Abandoned(r))
           /\ Abandoned(r).at = "joining" /\ Abandoned(r).speech # "playing"
<1> DEFINE m == IF r.maker = "busy" THEN Parting(r) ELSE [r EXCEPT !.maker = "done", !.due = {}]
           reads == {"reading", "quiet", "fed", "playing"}
<1>1. /\ m \in TurnRecord /\ m.maker \in {"parting", "done"} /\ (m.maker = "done" => m.due = {})
  <2>1. CASE r.maker = "busy"
    BY <2>1, PartingFacts
  <2>2. CASE r.maker # "busy"
    BY <2>2 DEF TurnRecord
  <2> QED BY <2>1, <2>2
<1>2. Abandoned(r) = [m EXCEPT !.at = "joining",
                              !.text = IF @ \in reads THEN "gone" ELSE @,
                              !.speech = IF @ \in reads THEN "gone" ELSE @]
  BY DEF Abandoned
<1> HIDE DEF m
<1>3. /\ Abandoned(r) \in TurnRecord /\ Abandoned(r).at = "joining"
      /\ Abandoned(r).maker = m.maker /\ Abandoned(r).due = m.due
      /\ Abandoned(r).text # "reading" /\ Abandoned(r).speech \in {"through", "gone"}
  <2>1. m.text \in {"reading", "through", "gone"}
        /\ m.speech \in {"quiet", "fed", "playing", "through", "gone"}
    BY <1>1 DEF TurnRecord
  <2>2. PICK x \in {"through", "gone"} : x = IF m.text \in reads THEN "gone" ELSE m.text
    BY <2>1
  <2>3. PICK y \in {"through", "gone"} : y = IF m.speech \in reads THEN "gone" ELSE m.speech
    BY <2>1
  <2>4. Abandoned(r) = [m EXCEPT !.at = "joining", !.text = x, !.speech = y]
    BY <1>2, <2>2, <2>3
  <2> QED BY <1>1, <2>4 DEF TurnRecord
<1> QED BY <1>1, <1>3 DEF Shape, Unspoken

LEMMA CancelledFacts ==
    ASSUME NEW r \in TurnRecord, Shape(r)
    PROVE  /\ Cancelled(r) \in TurnRecord /\ Shape(Cancelled(r)) /\ Cancelled(r).speech # "playing"
           /\ r.at \in {"idle"} \cup Ended => Cancelled(r) = r
           /\ r.at \in {"called", "heard", "running", "joining"} =>
                  Cancelled(r).at \in {"over", "joining"}
<1>1. CASE r.at \in {"called", "heard"}
  <2>1. Cancelled(r) = [r EXCEPT !.at = "over"]
    BY <1>1 DEF Cancelled
  <2> QED BY <1>1, <2>1 DEF TurnRecord, Shape, Unspoken, Ended
<1>2. CASE r.at \in {"running", "joining"}
  <2>1. r.maker # "idle"
    BY <1>2 DEF Shape
  <2> QED BY <1>2, <2>1, AbandonedFacts DEF Cancelled, Ended
<1>3. CASE r.at \in {"idle"} \cup Ended
  BY <1>3 DEF Cancelled, Shape, Ended, Unspoken
<1> QED BY <1>1, <1>2, <1>3 DEF TurnRecord

------------------------------------------------------------------------------
(* One turn goes on. *)

(* What a turn's step may do to the voice the session knows of.             *)
VoiceStep(t, r) ==
    /\ session' = [session EXCEPT !.audio = session'.audio]
    /\ \/ session'.audio = session.audio /\ (turn[t].speech = "playing" <=> r.speech = "playing")
       \/ /\ session'.audio = IF session.audio = t THEN NoTurn ELSE session.audio
          /\ r.speech # "playing"
       \/ session'.audio = t /\ r.speech = "playing" /\ IsCurrent(t)

(* A voice is of a turn under way, the only one of its call.                *)
LEMMA VoiceUnderWay ==
    ASSUME ComposedInv, NEW t \in Turns, turn[t].speech = "playing"
    PROVE  UnderWay(t) /\ t = <<t[1], call[t[1]].final>>
<1>1. UnderWay(t)
  BY DEF ComposedInv, TurnInv, TurnsInShape, Shape, UnderWay
<1> QED BY <1>1, TurnPair DEF ComposedInv, TurnInv, OneTurn

LEMMA SilenceFacts ==
    ASSUME ComposedInv, NEW t \in Turns, UnderWay(t)
    PROVE  /\ Silence(t) = [session EXCEPT !.audio = IF session.audio = t THEN NoTurn
                                                     ELSE session.audio]
           /\ Silence(t) \in SessionRecord
<1>1. session \in SessionRecord /\ session.audio \in {NoTurn} \cup Turns
  BY Types DEF ComposedInv, SessionRecord
<1>2. t[1] # 0 /\ t = <<t[1], call[t[1]].final>>
  BY TurnPair DEF ComposedInv, TurnInv, OneTurn
<1>3. CASE session.audio = NoTurn
  BY <1>1, <1>2, <1>3, TurnPair DEF Silence, NoTurn, SessionRecord
<1>4. CASE session.audio # NoTurn
  <2>1. PICK u \in Turns : u = session.audio
    BY <1>1, <1>4
  <2>2. u = <<u[1], call[u[1]].final>>
    BY <1>4, <2>1, VoiceUnderWay DEF ComposedInv, TurnInv, VoiceIsKnown, AudioIsPlaying
  <2>3. u[1] = t[1] <=> u = t
    BY <1>2, <2>2
  <2> QED BY <1>1, <2>1, <2>3 DEF Silence, SessionRecord
<1> QED BY <1>3, <1>4

LEMMA TurnSteps ==
    ASSUME ComposedInv, NEW t \in Turns, NEW r \in TurnRecord, UnderWay(t), Shape(r), r.at # "idle",
           turn' = [turn EXCEPT ![t] = r], UNCHANGED <<receiver, mic, call, asr>>,
           VoiceStep(t, r),
           r.at = "running" /\ "gone" \in {r.text, r.speech} => ~IsCurrent(t)
    PROVE  ComposedInv'
<1>0. /\ ComposedTypeOK /\ CallInv /\ TurnsInShape /\ OneTurn /\ CutIsStale /\ NobodyBehind /\ VoiceIsKnown
      /\ session \in SessionRecord /\ turn \in [Turns -> TurnRecord]
  BY Types DEF ComposedInv, TurnInv
<1>1. /\ turn' \in [Turns -> TurnRecord] /\ turn'[t] = r
      /\ \A u \in Turns \ {t} : turn'[u] = turn[u]
  BY <1>0
<1>2. /\ session'.mode = session.mode /\ session'.generation = session.generation
      /\ session'.turn = session.turn /\ session' \in SessionRecord
  BY <1>0 DEF VoiceStep, SessionRecord
<1>3. /\ receiver' = receiver /\ mic' = mic /\ call' = call /\ asr' = asr
      /\ \A u : IsCurrent(u)' <=> IsCurrent(u)
  BY <1>2 DEF IsCurrent
<1>4. ComposedTypeOK'
  BY <1>0, <1>1, <1>2, <1>3 DEF ComposedTypeOK, SessionRecord, TurnRecord
<1>5. CallInv'
  BY <1>0, <1>2, <1>3 DEF CallInv, GenerationsRise, NewestHasMic, ReceiverKnows, Begun, Waits,
     Running, Opened, New
<1>6. TurnsInShape' /\ CutIsStale'
  BY <1>0, <1>1, <1>3 DEF TurnsInShape, CutIsStale
<1>7. \A u \in Turns : UnderWay(u)' => UnderWay(u)
  BY <1>1 DEF UnderWay
<1>8. OneTurn'
  BY <1>0, <1>1, <1>3, <1>7 DEF OneTurn, Begun, UnderWay
<1>9. NobodyBehind'
  BY <1>0, <1>3, <1>7 DEF NobodyBehind, Waits, Running
<1>10. VoiceIsKnown'
  <2>1. session.audio \in {NoTurn} \cup Turns /\ t # NoTurn
    BY <1>0, TurnPair DEF SessionRecord
  <2>2. AudioIsPlaying'
    BY <1>0, <1>1, <1>3, <2>1 DEF VoiceIsKnown, AudioIsPlaying, VoiceStep
  <2>3. OneVoice'
    <3> SUFFICES ASSUME NEW u \in Turns, turn'[u].speech = "playing", IsCurrent(u)
                 PROVE  session'.audio = u
      BY <1>3 DEF OneVoice
    <3>1. CASE u = t
      BY <1>0, <1>1, <3>1 DEF VoiceStep, VoiceIsKnown, OneVoice
    <3>2. CASE u # t
      <4>1. turn[u].speech = "playing" /\ session.audio = u
        BY <1>0, <1>1, <3>2 DEF VoiceIsKnown, OneVoice
      <4>2. CASE session'.audio = t /\ IsCurrent(t)
        <5>1. u[1] \in Streams /\ t[1] \in Streams /\ t = <<t[1], call[t[1]].final>>
              /\ u = <<u[1], call[u[1]].final>>
          BY <1>0, <4>1, VoiceUnderWay, TurnPair DEF OneTurn
        <5>2. Begun(u[1]) /\ call[u[1]].generation = call[t[1]].generation
          BY <1>0, <4>1, <4>2, VoiceUnderWay DEF OneTurn, UnderWay, IsCurrent
        <5>3. u[1] = t[1]
          BY <1>0, <5>1, <5>2 DEF CallInv, GenerationsRise
        <5> QED BY <3>2, <5>1, <5>3
      <4> QED BY <3>2, <4>1, <4>2 DEF VoiceStep
    <3> QED BY <3>1, <3>2
  <2> QED BY <2>2, <2>3 DEF VoiceIsKnown
<1> QED BY <1>4, <1>5, <1>6, <1>8, <1>9, <1>10 DEF ComposedInv, TurnInv

LEMMA TurnFacts ==
    ASSUME ComposedInv, NEW t \in Turns
    PROVE  /\ turn[t] \in TurnRecord /\ Shape(turn[t]) /\ session \in SessionRecord
           /\ turn[t].at = "running" /\ "gone" \in {turn[t].text, turn[t].speech} => ~IsCurrent(t)
BY Types DEF ComposedInv, TurnInv, TurnsInShape, CutIsStale

LEMMA QuietSteps ==
    ASSUME ComposedInv, NEW t \in Turns, NEW r \in TurnRecord, UnderWay(t), Shape(r), r.at # "idle",
           Quietly(t, r), turn[t].speech = "playing" <=> r.speech = "playing",
           r.at = "running" /\ "gone" \in {r.text, r.speech} => ~IsCurrent(t)
    PROVE  ComposedInv'
<1>1. VoiceStep(t, r)
  BY TurnFacts DEF VoiceStep, Quietly, SessionRecord
<1> QED BY <1>1, TurnSteps DEF Quietly, Step

LEMMA MutedSteps ==
    ASSUME ComposedInv, NEW t \in Turns, NEW r \in TurnRecord, UnderWay(t), Shape(r), r.at # "idle",
           Muted(t, r), r.speech # "playing",
           r.at = "running" /\ "gone" \in {r.text, r.speech} => ~IsCurrent(t)
    PROVE  ComposedInv'
<1>1. VoiceStep(t, r)
  BY SilenceFacts, TurnFacts DEF VoiceStep, Muted, SessionRecord
<1> QED BY <1>1, TurnSteps DEF Muted, Step

LEMMA HearSteps == ASSUME ComposedInv, NEW t \in Turns, Hear(t) PROVE ComposedInv'
<1> DEFINE r == [turn[t] EXCEPT !.at = IF IsCurrent(t) THEN "heard" ELSE "over"]
<1>1. /\ r \in TurnRecord /\ UnderWay(t) /\ Shape(r) /\ r.at \in {"heard", "over"}
      /\ r.speech = turn[t].speech
  BY TurnFacts DEF Hear, TurnRecord, UnderWay, Shape, Unspoken, Ended
<1>2. Quietly(t, r)
  BY DEF Hear
<1> HIDE DEF r
<1> QED BY <1>1, <1>2, QuietSteps

LEMMA ThinkSteps == ASSUME ComposedInv, NEW t \in Turns, Think(t) PROVE ComposedInv'
<1>0. turn[t] \in TurnRecord /\ Shape(turn[t]) /\ turn[t].at = "heard" /\ UnderWay(t)
  BY TurnFacts DEF Think, UnderWay
<1>1. CASE IsCurrent(t)
  <2>1. PICK n \in Replies :
            Quietly(t, [turn[t] EXCEPT !.at = "running", !.maker = "busy", !.left = n])
    BY <1>1 DEF Think
  <2> DEFINE r == [turn[t] EXCEPT !.at = "running", !.maker = "busy", !.left = n]
  <2>2. n \in Nat
    BY <2>1, ComposedTurnsAssumption
  <2>3. r \in TurnRecord /\ Shape(r) /\ r.at = "running" /\ r.speech = "quiet" /\ r.text = "reading"
    BY <1>0, <2>2 DEF TurnRecord, Shape, Unspoken
  <2>4. turn[t].speech = "quiet"
    BY <1>0 DEF Shape, Unspoken
  <2>5. Quietly(t, r)
    BY <2>1
  <2> HIDE DEF r
  <2> QED BY <1>0, <2>3, <2>4, <2>5, QuietSteps
<1>2. CASE ~IsCurrent(t)
  <2> DEFINE r == [turn[t] EXCEPT !.at = "over"]
  <2>1. r \in TurnRecord /\ Shape(r) /\ r.at = "over" /\ r.speech = turn[t].speech
    BY <1>0 DEF TurnRecord, Shape, Unspoken, Ended
  <2>2. Quietly(t, r)
    BY <1>2 DEF Think
  <2> HIDE DEF r
  <2> QED BY <1>0, <2>1, <2>2, QuietSteps
<1> QED BY <1>1, <1>2

(* A producer at work is of a turn that runs. *)
LEMMA BusyRuns ==
    ASSUME ComposedInv, NEW t \in Turns, turn[t].maker \in {"busy", "parting"}
    PROVE  /\ turn[t].at \in {"running", "joining"} /\ UnderWay(t)
           /\ turn[t].maker = "busy" => turn[t].at = "running"
BY TurnFacts DEF Shape, UnderWay

LEMMA PartingSteps ==
    ASSUME ComposedInv, NEW t \in Turns, turn[t].maker = "busy", NEW f \in BOOLEAN,
           Quietly(t, [Parting(turn[t]) EXCEPT !.failed = f])
    PROVE  ComposedInv'
<1> DEFINE p == Parting(turn[t])
           r == [p EXCEPT !.failed = f]
<1>1. turn[t] \in TurnRecord /\ turn[t].at = "running" /\ UnderWay(t)
  BY TurnFacts, BusyRuns
<1>2. /\ p \in TurnRecord /\ p.maker = "parting" /\ p.at = "running"
      /\ p.text = turn[t].text /\ p.speech = turn[t].speech
  BY <1>1, PartingFacts
<1>3. Quietly(t, r)
  OBVIOUS
<1> HIDE DEF p
<1>4. /\ r \in TurnRecord /\ r.maker = "parting" /\ r.at = "running"
      /\ r.text = turn[t].text /\ r.speech = turn[t].speech
  BY <1>2 DEF TurnRecord
<1> HIDE DEF r
<1>5. Shape(r)
  BY <1>4 DEF Shape, Unspoken
<1> QED BY <1>1, <1>3, <1>4, <1>5, TurnFacts, QuietSteps

LEMMA ProduceSteps == ASSUME ComposedInv, NEW t \in Turns, Produce(t) PROVE ComposedInv'
<1>0. /\ turn[t] \in TurnRecord /\ turn[t].maker = "busy" /\ turn[t].at = "running" /\ UnderWay(t)
  BY TurnFacts, BusyRuns DEF Produce
<1>1. CASE turn[t].left = 0 \/ ~IsCurrent(t)
  <2>1. Quietly(t, Parting(turn[t]))
    BY <1>1 DEF Produce
  <2>2. Parting(turn[t]) \in TurnRecord
    BY <1>0, PartingFacts
  <2>3. Parting(turn[t]) = [Parting(turn[t]) EXCEPT !.failed = Parting(turn[t]).failed]
        /\ Parting(turn[t]).failed \in BOOLEAN
    BY <2>2 DEF TurnRecord
  <2>4. PICK f \in BOOLEAN : f = Parting(turn[t]).failed
    BY <2>3
  <2>5. Quietly(t, [Parting(turn[t]) EXCEPT !.failed = f])
    BY <2>1, <2>3, <2>4
  <2> QED BY <1>0, <2>5, PartingSteps
<1>2. CASE ~(turn[t].left = 0 \/ ~IsCurrent(t))
  <2> DEFINE p == Offered(turn[t])
             r == [p EXCEPT !.left = @ - 1]
  <2>1. Quietly(t, r)
    BY <1>2 DEF Produce
  <2>2. /\ p \in TurnRecord /\ p.maker = "busy" /\ p.at = "running" /\ p.left = turn[t].left
        /\ p.text = turn[t].text /\ p.speech = turn[t].speech
    BY <1>0, OfferedFacts
  <2>3. p.left - 1 \in Nat
    BY <1>0, <1>2, <2>2 DEF TurnRecord
  <2> HIDE DEF p
  <2>4. /\ r \in TurnRecord /\ r.maker = "busy" /\ r.at = "running"
        /\ r.text = turn[t].text /\ r.speech = turn[t].speech
    BY <2>2, <2>3 DEF TurnRecord
  <2> HIDE DEF r
  <2>5. Shape(r)
    BY <2>4, <1>0, TurnFacts DEF Shape, Unspoken
  <2> QED BY <1>0, <2>1, <2>4, <2>5, TurnFacts, QuietSteps
<1> QED BY <1>1, <1>2

LEMMA AgentFailsSteps == ASSUME ComposedInv, NEW t \in Turns, AgentFails(t) PROVE ComposedInv'
BY PartingSteps DEF AgentFails

LEMMA PutSteps == ASSUME ComposedInv, NEW t \in Turns, NEW c \in Outputs, Put(t, c) PROVE ComposedInv'
<1> DEFINE r == [turn[t] EXCEPT !.queue[c] = @ + 1, !.due = @ \ {c}]
<1>1. /\ turn[t] \in TurnRecord /\ Shape(turn[t]) /\ Quietly(t, r) /\ turn[t].queue[c] < QueueSize
      /\ turn[t].maker \in {"busy", "parting"}
  BY TurnFacts DEF Put, Shape, TurnRecord
<1>2. turn[t].queue[c] + 1 \in 0 .. QueueSize
  BY <1>1, ComposedTurnsAssumption DEF TurnRecord
<1>3. /\ r \in TurnRecord /\ r.maker = turn[t].maker /\ r.at = turn[t].at
      /\ r.text = turn[t].text /\ r.speech = turn[t].speech
  BY <1>1, <1>2 DEF TurnRecord
<1> HIDE DEF r
<1>4. Shape(r) /\ UnderWay(t)
  BY <1>1, <1>3, BusyRuns DEF Shape
<1> QED BY <1>1, <1>3, <1>4, BusyRuns, TurnFacts, QuietSteps

LEMMA PartedSteps == ASSUME ComposedInv, NEW t \in Turns, Parted(t) PROVE ComposedInv'
<1> DEFINE d == [turn[t] EXCEPT !.maker = "done"]
           r == Abandoned(d)
<1>0. /\ turn[t] \in TurnRecord /\ Shape(turn[t]) /\ turn[t].maker = "parting" /\ turn[t].due = {}
      /\ UnderWay(t) /\ turn[t].at \in {"running", "joining"}
  BY TurnFacts, BusyRuns DEF Parted
<1>1. /\ d \in TurnRecord /\ d.maker = "done" /\ d.at = turn[t].at /\ d.text = turn[t].text
      /\ d.speech = turn[t].speech /\ Shape(d)
  BY <1>0 DEF TurnRecord, Shape, Unspoken
<1>2. CASE turn[t].failed /\ turn[t].at = "running"
  <2>1. Muted(t, r)
    BY <1>2 DEF Parted
  <2> HIDE DEF d
  <2>2. r \in TurnRecord /\ Shape(r) /\ r.at = "joining" /\ r.speech # "playing"
    BY <1>1, <1>2, AbandonedFacts
  <2> HIDE DEF r
  <2> QED BY <1>0, <2>1, <2>2, MutedSteps
<1>3. CASE ~(turn[t].failed /\ turn[t].at = "running")
  <2>1. Quietly(t, d)
    BY <1>3 DEF Parted
  <2> HIDE DEF d
  <2> QED BY <1>0, <1>1, <2>1, TurnFacts, QuietSteps
<1> QED BY <1>2, <1>3

(* A queue that holds something is of a turn at work. *)
LEMMA QueueRuns ==
    ASSUME ComposedInv, NEW t \in Turns, NEW c \in Outputs, turn[t].queue[c] # 0
    PROVE  turn[t].at \in {"running", "joining"} /\ UnderWay(t)
BY TurnFacts DEF Shape, UnderWay

LEMMA ReadTextSteps == ASSUME ComposedInv, NEW t \in Turns, ReadText(t) PROVE ComposedInv'
<1> DEFINE r == [turn[t] EXCEPT !.queue["text"] = @ - 1,
                                !.text = IF AtEnd(turn[t], "text") THEN "through"
                                         ELSE IF IsCurrent(t) THEN "reading" ELSE "gone"]
<1>1. /\ turn[t] \in TurnRecord /\ Shape(turn[t]) /\ turn[t].text = "reading"
      /\ Quietly(t, r) /\ turn[t].queue["text"] > 0
  BY TurnFacts DEF ReadText
<1>2. turn[t].queue["text"] \in 0 .. QueueSize /\ "text" \in Outputs
  BY <1>1 DEF TurnRecord, Outputs
<1>3. turn[t].queue["text"] - 1 \in 0 .. QueueSize /\ turn[t].queue["text"] # 0
  BY <1>1, <1>2, ComposedTurnsAssumption
<1>4. turn[t].at = "running" /\ UnderWay(t)
  BY <1>1, <1>2, <1>3, QueueRuns DEF Shape
<1>5. /\ r \in TurnRecord /\ r.maker = turn[t].maker /\ r.at = turn[t].at /\ r.due = turn[t].due
      /\ r.speech = turn[t].speech /\ (r.text = "gone" => ~IsCurrent(t))
  BY <1>1, <1>2, <1>3 DEF TurnRecord
<1> HIDE DEF r
<1>6. Shape(r)
  BY <1>1, <1>4, <1>5 DEF Shape, Unspoken
<1> QED BY <1>1, <1>4, <1>5, <1>6, TurnFacts, QuietSteps

LEMMA ReadSpeechSteps == ASSUME ComposedInv, NEW t \in Turns, ReadSpeech(t) PROVE ComposedInv'
<1> DEFINE r == [turn[t] EXCEPT !.queue["speech"] = @ - 1,
                                !.speech = IF @ = "quiet" THEN "fed" ELSE @]
<1>1. /\ turn[t] \in TurnRecord /\ Shape(turn[t]) /\ turn[t].speech \in {"quiet", "fed", "playing"}
      /\ Quietly(t, r) /\ turn[t].queue["speech"] > 0
  BY TurnFacts DEF ReadSpeech
<1>2. turn[t].queue["speech"] \in 0 .. QueueSize /\ "speech" \in Outputs
  BY <1>1 DEF TurnRecord, Outputs
<1>3. turn[t].queue["speech"] - 1 \in 0 .. QueueSize /\ turn[t].queue["speech"] # 0
  BY <1>1, <1>2, ComposedTurnsAssumption
<1>4. turn[t].at = "running" /\ UnderWay(t)
  BY <1>1, <1>2, <1>3, QueueRuns DEF Shape
<1>5. /\ r \in TurnRecord /\ r.maker = turn[t].maker /\ r.at = turn[t].at /\ r.due = turn[t].due
      /\ r.text = turn[t].text /\ r.speech # "gone"
      /\ (r.speech = "playing" <=> turn[t].speech = "playing")
  BY <1>1, <1>2, <1>3 DEF TurnRecord
<1> HIDE DEF r
<1>6. Shape(r)
  BY <1>1, <1>4, <1>5 DEF Shape, Unspoken
<1> QED BY <1>1, <1>4, <1>5, <1>6, TurnFacts, QuietSteps

(* The speech of a turn that runs comes to its end, or leaves. *)
Spoken(t, q, v) == [turn[t] EXCEPT !.queue["speech"] = q, !.speech = v]

LEMMA SpeechMoves ==
    ASSUME ComposedInv, NEW t \in Turns, turn[t].at = "running", NEW q \in 0 .. QueueSize,
           NEW v \in {"playing", "through", "gone"}, v = "gone" => ~IsCurrent(t)
    PROVE  /\ Spoken(t, q, v) \in TurnRecord /\ Shape(Spoken(t, q, v)) /\ UnderWay(t)
           /\ Spoken(t, q, v).at = "running" /\ Spoken(t, q, v).speech = v
           /\ "gone" \in {Spoken(t, q, v).text, v} => ~IsCurrent(t)
<1> DEFINE r == Spoken(t, q, v)
<1>1. turn[t] \in TurnRecord /\ Shape(turn[t]) /\ UnderWay(t) /\ "speech" \in Outputs
  BY TurnFacts DEF UnderWay, Outputs
<1>2. /\ r \in TurnRecord /\ r.maker = turn[t].maker /\ r.at = "running" /\ r.due = turn[t].due
      /\ r.text = turn[t].text /\ r.speech = v
  BY <1>1 DEF TurnRecord, Spoken
<1> HIDE DEF r
<1>3. Shape(r)
  BY <1>1, <1>2 DEF Shape, Unspoken
<1>4. "gone" \in {r.text, v} => ~IsCurrent(t)
  BY <1>1, <1>2, TurnFacts
<1> QED BY <1>1, <1>2, <1>3, <1>4 DEF r

LEMMA SpokenSteps ==
    ASSUME ComposedInv, NEW t \in Turns, turn[t].at = "running", NEW q \in 0 .. QueueSize,
           NEW v \in {"through", "gone"}, v = "gone" => ~IsCurrent(t),
           Muted(t, Spoken(t, q, v))
    PROVE  ComposedInv'
<1> DEFINE r == Spoken(t, q, v)
<1>1. v \in {"playing", "through", "gone"} /\ v # "playing"
  OBVIOUS
<1>2. /\ r \in TurnRecord /\ Shape(r) /\ UnderWay(t) /\ r.at = "running" /\ r.speech = v
      /\ "gone" \in {r.text, v} => ~IsCurrent(t)
  BY <1>1, SpeechMoves
<1>3. Muted(t, r)
  OBVIOUS
<1> HIDE DEF r
<1> QED BY <1>1, <1>2, <1>3, MutedSteps

(* Its queue stays as it is. *)
LEMMA SpeechStays ==
    ASSUME ComposedInv, NEW t \in Turns, NEW v
    PROVE  \E q \in 0 .. QueueSize : [turn[t] EXCEPT !.speech = v] = Spoken(t, q, v)
<1>1. turn[t].queue["speech"] \in 0 .. QueueSize
  BY TurnFacts DEF TurnRecord, Outputs
<1>2. [turn[t] EXCEPT !.speech = v] = Spoken(t, turn[t].queue["speech"], v)
  BY TurnFacts DEF TurnRecord, Outputs, Spoken
<1> QED BY <1>1, <1>2

LEMMA SpeechRuns ==
    ASSUME ComposedInv, NEW t \in Turns, turn[t].speech \in {"fed", "playing"}
    PROVE  turn[t].at = "running"
BY TurnFacts DEF Shape

LEMMA NothingToSaySteps == ASSUME ComposedInv, NEW t \in Turns, NothingToSay(t) PROVE ComposedInv'
<1> DEFINE r == Spoken(t, 0, "through")
<1>1. /\ turn[t] \in TurnRecord /\ Shape(turn[t]) /\ turn[t].speech = "quiet" /\ Quietly(t, r)
      /\ "speech" \in Outputs /\ turn[t].queue["speech"] # 0
  BY TurnFacts DEF NothingToSay, AtEnd, Outputs, Spoken
<1>2. turn[t].at = "running"
  BY <1>1, QueueRuns DEF Shape
<1>3. 0 \in 0 .. QueueSize
  BY ComposedTurnsAssumption
<1>4. /\ r \in TurnRecord /\ Shape(r) /\ UnderWay(t) /\ r.at = "running" /\ r.speech = "through"
      /\ "gone" \in {r.text, "through"} => ~IsCurrent(t)
  BY <1>2, <1>3, SpeechMoves
<1> HIDE DEF r
<1> QED BY <1>1, <1>4, QuietSteps

LEMMA StartAudioSteps == ASSUME ComposedInv, NEW t \in Turns, StartAudio(t) PROVE ComposedInv'
<1>1. turn[t].speech = "fed" /\ turn[t].at = "running" /\ session \in SessionRecord
  BY SpeechRuns, TurnFacts DEF StartAudio
<1>2. CASE IsCurrent(t)
  <2>1. PICK q \in 0 .. QueueSize :
            [turn[t] EXCEPT !.speech = "playing"] = Spoken(t, q, "playing")
    BY SpeechStays
  <2> DEFINE r == Spoken(t, q, "playing")
  <2>2. Step(t, r) /\ session' = [session EXCEPT !.audio = t]
    BY <1>2, <2>1 DEF StartAudio
  <2>3. /\ r \in TurnRecord /\ Shape(r) /\ UnderWay(t) /\ r.at = "running" /\ r.speech = "playing"
        /\ "gone" \in {r.text, "playing"} => ~IsCurrent(t)
    BY <1>1, SpeechMoves
  <2> HIDE DEF r
  <2>4. VoiceStep(t, r)
    BY <1>1, <1>2, <2>2, <2>3 DEF VoiceStep, SessionRecord
  <2> QED BY <2>2, <2>3, <2>4, TurnSteps DEF Step
<1>3. CASE ~IsCurrent(t)
  <2>1. PICK q \in 0 .. QueueSize : [turn[t] EXCEPT !.speech = "gone"] = Spoken(t, q, "gone")
    BY SpeechStays
  <2>2. Muted(t, Spoken(t, q, "gone"))
    BY <1>3, <2>1 DEF StartAudio
  <2> QED BY <1>1, <1>3, <2>2, SpokenSteps
<1> QED BY <1>2, <1>3

LEMMA EndAudioSteps == ASSUME ComposedInv, NEW t \in Turns, EndAudio(t) PROVE ComposedInv'
<1>1. PICK v \in {"through", "gone"} : v = IF IsCurrent(t) THEN "through" ELSE "gone"
  OBVIOUS
<1>2. turn[t].at = "running" /\ Muted(t, Spoken(t, 0, v))
  BY <1>1, SpeechRuns DEF EndAudio, Spoken
<1>3. 0 \in 0 .. QueueSize /\ (v = "gone" => ~IsCurrent(t))
  BY <1>1, ComposedTurnsAssumption
<1> QED BY <1>2, <1>3, SpokenSteps

LEMMA LeaveAudioSteps == ASSUME ComposedInv, NEW t \in Turns, LeaveAudio(t) PROVE ComposedInv'
<1>1. PICK q \in 0 .. QueueSize : [turn[t] EXCEPT !.speech = "gone"] = Spoken(t, q, "gone")
  BY SpeechStays
<1>2. turn[t].at = "running" /\ Muted(t, Spoken(t, q, "gone")) /\ ~IsCurrent(t)
  BY <1>1, SpeechRuns DEF LeaveAudio
<1> QED BY <1>2, SpokenSteps

LEMMA SpeechFailsSteps == ASSUME ComposedInv, NEW t \in Turns, SpeechFails(t) PROVE ComposedInv'
<1> DEFINE d == [turn[t] EXCEPT !.speech = "gone"]
           r == Abandoned(d)
<1>1. turn[t].at = "running" /\ UnderWay(t) /\ Muted(t, r) /\ turn[t] \in TurnRecord
      /\ turn[t].maker # "idle"
  BY TurnFacts DEF SpeechFails, UnderWay, Shape
<1>2. d \in TurnRecord /\ d.at = "running" /\ d.maker # "idle"
  BY <1>1 DEF TurnRecord
<1> HIDE DEF d
<1>3. r \in TurnRecord /\ Shape(r) /\ r.at = "joining" /\ r.speech # "playing"
  BY <1>2, AbandonedFacts
<1> HIDE DEF r
<1> QED BY <1>1, <1>3, MutedSteps

(* A turn ends when its three tasks are done. *)
LEMMA FinishedSteps ==
    ASSUME ComposedInv, NEW t \in Turns, UnderWay(t), turn[t].maker = "done", NEW how \in Ended,
           turn[t].speech \in {"through", "gone"},
           how = "farewell" => turn[t].text = "through" /\ turn[t].speech = "through",
           Quietly(t, Finished(turn[t], how))
    PROVE  ComposedInv'
<1> DEFINE r == Finished(turn[t], how)
           q == [c \in Outputs |-> 0]
<1>1. turn[t] \in TurnRecord /\ Shape(turn[t])
  BY TurnFacts
<1>2. q \in [Outputs -> 0 .. QueueSize] /\ \A c \in Outputs : q[c] = 0
  BY ComposedTurnsAssumption
<1>3. r = [turn[t] EXCEPT !.at = how, !.queue = q, !.left = 0, !.failed = FALSE]
  BY DEF Finished
<1> HIDE DEF q, r
<1>4. /\ r \in TurnRecord /\ r.at = how /\ r.queue = q /\ r.maker = "done" /\ r.due = turn[t].due
      /\ r.text = turn[t].text /\ r.speech = turn[t].speech
  BY <1>1, <1>2, <1>3 DEF TurnRecord, Ended
<1>5. Shape(r)
  BY <1>1, <1>2, <1>4 DEF Shape, Unspoken, Ended
<1>6. Quietly(t, r)
  BY DEF r
<1> QED BY <1>4, <1>5, <1>6, QuietSteps DEF Ended

LEMMA CloseSteps == ASSUME ComposedInv, NEW t \in Turns, Close(t) PROVE ComposedInv'
<1>1. /\ turn[t].at = "running" /\ turn[t].maker = "done" /\ UnderWay(t)
      /\ {turn[t].text, turn[t].speech} \subseteq {"through", "gone"}
  BY DEF Close, AllDone, UnderWay
<1>2. PICK how \in IF session.mode = "continuous" /\ IsCurrent(t) THEN Ended ELSE {"over"} :
          Quietly(t, Finished(turn[t], how))
  BY DEF Close
<1>3. how \in Ended /\ (how = "farewell" => IsCurrent(t))
  BY <1>2 DEF Ended
<1>4. how = "farewell" => turn[t].text = "through" /\ turn[t].speech = "through"
  BY <1>1, <1>3, TurnFacts
<1> QED BY <1>1, <1>2, <1>3, <1>4, FinishedSteps

LEMMA JoinSteps == ASSUME ComposedInv, NEW t \in Turns, Join(t) PROVE ComposedInv'
<1>1. /\ turn[t].at = "joining" /\ turn[t].maker = "done" /\ UnderWay(t)
      /\ Quietly(t, Finished(turn[t], "over")) /\ "over" \in Ended
      /\ turn[t].speech \in {"through", "gone"}
  BY TurnFacts DEF Join, UnderWay, Shape, Ended
<1> QED BY <1>1, FinishedSteps

LEMMA TurnActions == ASSUME ComposedInv, NEW t \in Turns, Speaking(t) \/ Failing(t) PROVE ComposedInv'
BY HearSteps, ThinkSteps, ProduceSteps, PartedSteps, PutSteps, ReadTextSteps, ReadSpeechSteps,
   NothingToSaySteps, StartAudioSteps, EndAudioSteps, LeaveAudioSteps, CloseSteps, JoinSteps,
   AgentFailsSteps, SpeechFailsSteps DEF Speaking, Failing

------------------------------------------------------------------------------
(* The calls go on. *)

(* A call moves on, its generation is what it was.                          *)
MovesOn(s) ==
    /\ call'[s].generation = call[s].generation
    /\ call'[s].at = "off" <=> call[s].at = "off"
    /\ call'[s].at = "armed" => call[s].at = "armed"
    /\ call'[s].at = "queued" => call[s].at \in {"armed", "queued"}
    /\ call[s].at \in {"armed", "queued"} => call'[s].at \in {"armed", "queued", "ended"}
    /\ call[s].at = "ended" => call'[s].at = "ended"
CallsMoveOn == \A s \in Streams : MovesOn(s)

LEMMA CallsMove ==
    ASSUME ComposedInv, CallsMoveOn, session'.generation \in Nat,
           session'.generation >= session.generation
    PROVE  /\ GenerationsRise' /\ Opened' = Opened /\ New' = New /\ Running' \subseteq Running
           /\ \A s \in Streams : (Begun(s)' <=> Begun(s)) /\ (Waits(s)' => Waits(s))
<1>1. /\ GenerationsRise /\ session.generation \in Nat
      /\ \A s \in Streams : call[s].generation \in Nat
  BY Types DEF ComposedInv, CallInv, SessionRecord, CallRecord
<1>2. \A s \in Streams : (Begun(s)' <=> Begun(s)) /\ (Waits(s)' => Waits(s))
  BY DEF CallsMoveOn, MovesOn, Begun, Waits
<1>3. Opened' = Opened /\ Running' \subseteq Running
  BY DEF CallsMoveOn, MovesOn, Opened, Running
<1>4. New' = New
  BY <1>3 DEF New
<1>5. \A s \in Streams : call'[s].generation = call[s].generation
  BY DEF CallsMoveOn, MovesOn
<1>6. \A s \in Streams : call'[s].generation <= session'.generation
  BY <1>1, <1>5 DEF GenerationsRise
<1>7. \A s, o \in Streams : Begun(s)' /\ call'[s].generation = call'[o].generation => s = o
  BY <1>1, <1>2, <1>5 DEF GenerationsRise
<1>8. \A s \in Streams : call'[s].at \in {"off", "armed", "queued"} => ~Begun(s)'
  BY <1>1, <1>2 DEF GenerationsRise, CallsMoveOn, MovesOn
<1>9. \A s \in Running' : Begun(s)'
  BY <1>1, <1>2, <1>3 DEF GenerationsRise, Running
<1>10. \A s, o \in Streams : Begun(s)' /\ o < s => ~Waits(o)'
  BY <1>1, <1>2 DEF GenerationsRise
<1> QED BY <1>2, <1>3, <1>4, <1>6, <1>7, <1>8, <1>9, <1>10 DEF GenerationsRise

(* The microphone is let go of, if at all. *)
LEMMA MicStays ==
    ASSUME ComposedInv, CallsMoveOn, Opened' = Opened, mic' \in {0, mic},
           \A s \in Streams : call'[s].at = "armed" => mic' = s
    PROVE  NewestHasMic'
<1>1. NewestHasMic
  BY DEF ComposedInv, CallInv
<1>2. mic' # 0 => mic' \in Opened /\ \A s \in Opened : s <= mic'
  BY <1>1 DEF NewestHasMic
<1> QED BY <1>1, <1>2 DEF NewestHasMic

LEMMA ReceiverStays ==
    ASSUME ComposedInv, CallsMoveOn, session'.generation = session.generation,
           session'.turn \in {0, session.turn}, mic' \in {0, mic},
           receiver'.of = receiver.of,
           \/ receiver'.at = receiver.at
           \/ receiver.at = "interrupting" /\ receiver'.at = "cancelling"
    PROVE  ReceiverKnows'
<1>1. /\ ReceiverKnows /\ session \in SessionRecord /\ receiver.of \in {0} \cup Streams
      /\ session.turn \in {0} \cup Streams /\ session.generation \in Nat
  BY Types DEF ComposedInv, CallInv, SessionRecord, ComposedTypeOK
<1>2. /\ New' = New
      /\ \A s \in Streams : (Begun(s)' <=> Begun(s)) /\ (Waits(s)' => Waits(s))
  BY <1>1, CallsMove
<1>3. \A s \in Streams : call'[s].generation = call[s].generation
  BY DEF CallsMoveOn, MovesOn
<1>4. session'.turn # 0 => Begun(session.turn)'
  <2>1. CASE session'.turn = 0
    BY <2>1
  <2>2. CASE session'.turn # 0
    <3>1. PICK s \in Streams : s = session.turn
      BY <1>1, <2>2
    <3>2. Begun(s)' /\ session'.turn = s
      BY <1>1, <1>2, <2>2, <3>1 DEF ReceiverKnows
    <3>3. call'[session'.turn].generation # 0
      BY <3>2 DEF Begun
    <3> QED BY <3>3 DEF Begun
  <2> QED BY <2>1, <2>2
<1>5. receiver'.at \in {"interrupting", "cancelling"} =>
        /\ mic' = 0 /\ New' \in Streams
        /\ receiver.of # 0 => /\ Begun(receiver.of)'
                              /\ call'[receiver.of].generation < session'.generation
  <2>1. CASE receiver'.at \notin {"interrupting", "cancelling"} \/ receiver.of = 0
    BY <1>1, <1>2, <2>1 DEF ReceiverKnows
  <2>2. CASE receiver'.at \in {"interrupting", "cancelling"} /\ receiver.of # 0
    <3>1. PICK o \in Streams : o = receiver.of
      BY <1>1, <2>2
    <3>2. /\ mic = 0 /\ New \in Streams /\ Begun(o)
          /\ call[o].generation < session.generation
      BY <1>1, <2>2, <3>1 DEF ReceiverKnows
    <3>3. call'[o].generation # 0 /\ call'[o].generation < session'.generation
      BY <1>3, <3>2 DEF Begun
    <3>4. call'[receiver'.of].generation # 0 /\ call'[receiver.of].generation # 0
      BY <3>1, <3>3
    <3> QED BY <1>2, <3>1, <3>2, <3>3, <3>4 DEF Begun
  <2> QED BY <2>1, <2>2
<1>6. receiver'.at \in {"leaving", "gone"} => mic' = 0 /\ \A s \in Streams : ~Waits(s)'
  BY <1>1, <1>2 DEF ReceiverKnows
<1>7. receiver'.at = "gone" => \A s \in Streams : call'[s].generation < session'.generation
  BY <1>1, <1>3 DEF ReceiverKnows
<1> QED BY <1>4, <1>5, <1>6, <1>7 DEF ReceiverKnows

LEMMA CallInvStays ==
    ASSUME ComposedInv, CallsMoveOn, session'.generation = session.generation,
           session'.turn \in {0, session.turn}, mic' \in {0, mic}, receiver' = receiver,
           \A s \in Streams : call'[s].at = "armed" => mic' = s
    PROVE  CallInv'
<1>1. session.generation \in Nat
  BY Types DEF ComposedInv, SessionRecord
<1> QED BY <1>1, CallsMove, MicStays, ReceiverStays DEF CallInv

------------------------------------------------------------------------------
(* What the calls' steps leave of the turns. *)

(* A step keeps what a turn's call says of it, the call where it was, a     *)
(* call that runs running, and lets nobody wait who did not; and it cuts    *)
(* these turns short.                                                       *)
KeepsCalls == \A t \in Turns :
    turn[t].at # "idle" => /\ call'[t[1]].generation = call[t[1]].generation
                           /\ call'[t[1]].final = call[t[1]].final
StaysInCall == \A t \in Turns : UnderWay(t) => call'[t[1]].at \in WithTurn
StaysAhead == \A t \in Turns : UnderWay(t) => t[1] \in Running' \/ t[1] \notin Running
NobodyWaits == \A s \in Streams : Waits(s)' => Waits(s) \/ receiver.at = "cancelling"
Cut(cut) == \A t \in Turns : turn'[t] = IF t \in cut THEN Cancelled(turn[t]) ELSE turn[t]

LEMMA CutFacts ==
    ASSUME ComposedInv, NEW cut, Cut(cut), NEW t \in Turns
    PROVE  /\ turn'[t] \in TurnRecord /\ Shape(turn'[t]) /\ (UnderWay(t)' => UnderWay(t))
           /\ turn'[t].at = "idle" <=> turn[t].at = "idle"
           /\ t \in cut => turn'[t].speech # "playing" /\ turn'[t].at # "running"
           /\ t \notin cut => turn'[t] = turn[t]
<1>1. turn[t] \in TurnRecord /\ Shape(turn[t])
  BY TurnFacts
<1>2. turn'[t] = IF t \in cut THEN Cancelled(turn[t]) ELSE turn[t]
  BY DEF Cut
<1>3. CASE t \notin cut
  BY <1>1, <1>2, <1>3 DEF UnderWay
<1>4. CASE t \in cut
  <2>1. turn'[t] = Cancelled(turn[t])
    BY <1>2, <1>4
  <2>2. /\ Cancelled(turn[t]) \in TurnRecord /\ Shape(Cancelled(turn[t]))
        /\ Cancelled(turn[t]).speech # "playing"
        /\ turn[t].at \in {"idle"} \cup Ended => Cancelled(turn[t]) = turn[t]
        /\ turn[t].at \in {"called", "heard", "running", "joining"} =>
               Cancelled(turn[t]).at \in {"over", "joining"}
    BY <1>1, CancelledFacts
  <2>3. turn[t].at \in {"idle"} \cup Ended \cup {"called", "heard", "running", "joining"}
    BY <1>1 DEF TurnRecord
  <2> QED BY <1>4, <2>1, <2>2, <2>3 DEF UnderWay, Ended
<1> QED BY <1>3, <1>4

LEMMA SameCurrent ==
    ASSUME KeepsCalls, session'.generation = session.generation,
           NEW t \in Turns, turn[t].at # "idle"
    PROVE  IsCurrent(t)' <=> IsCurrent(t)
BY DEF KeepsCalls, IsCurrent

(* Turns are cut short, or none is. *)
LEMMA TurnsCut ==
    ASSUME ComposedInv, NEW cut, Cut(cut), KeepsCalls, StaysInCall, NobodyBehind',
           session'.generation = session.generation,
           session'.audio = IF session.audio \in cut THEN NoTurn ELSE session.audio,
           receiver.at = "gone" => receiver'.at = "gone"
    PROVE  TurnInv'
<1>0. /\ TurnsInShape /\ OneTurn /\ CutIsStale /\ VoiceIsKnown
      /\ session \in SessionRecord /\ session.audio \in {NoTurn} \cup Turns
  BY Types DEF ComposedInv, TurnInv, SessionRecord
<1>1. TurnsInShape'
  BY CutFacts DEF TurnsInShape
<1>2. OneTurn'
  <2> SUFFICES ASSUME NEW t \in Turns
               PROVE  /\ UnderWay(t)' => t[2] = call'[t[1]].final /\ call'[t[1]].at \in WithTurn
                      /\ turn'[t].at # "idle" => t[2] <= call'[t[1]].final /\ Begun(t[1])'
    BY DEF OneTurn
  <2>1. CASE turn[t].at = "idle"
    BY <2>1, CutFacts DEF UnderWay
  <2>2. CASE turn[t].at # "idle"
    <3>1. /\ call'[t[1]].generation = call[t[1]].generation
          /\ call'[t[1]].final = call[t[1]].final
      BY <2>2 DEF KeepsCalls
    <3> QED BY <1>0, <2>2, <3>1, CutFacts DEF OneTurn, StaysInCall, Begun
  <2> QED BY <2>1, <2>2
<1>3. CutIsStale'
  <2> SUFFICES ASSUME NEW t \in Turns, turn'[t].at = "running",
                      "gone" \in {turn'[t].text, turn'[t].speech}
               PROVE  ~IsCurrent(t)'
    BY DEF CutIsStale
  <2>1. turn'[t] = turn[t]
    BY CutFacts
  <2>2. ~IsCurrent(t) /\ turn[t].at # "idle"
    BY <1>0, <2>1 DEF CutIsStale
  <2> QED BY <2>2, SameCurrent
<1>4. OneVoice'
  <2> SUFFICES ASSUME NEW t \in Turns, turn'[t].speech = "playing", IsCurrent(t)'
               PROVE  session'.audio = t
    BY DEF OneVoice
  <2>1. turn'[t] = turn[t] /\ t \notin cut
    BY CutFacts
  <2>2. turn[t].at # "idle" /\ turn[t].speech = "playing"
    BY <2>1, TurnFacts DEF Shape
  <2>3. session.audio = t
    BY <1>0, <2>2, SameCurrent DEF VoiceIsKnown, OneVoice
  <2> QED BY <2>1, <2>3
<1>5. AudioIsPlaying'
  <2> SUFFICES ASSUME session'.audio # NoTurn
               PROVE  /\ turn'[session'.audio].speech = "playing"
                      /\ receiver'.at # "gone" => IsCurrent(session.audio)'
    BY DEF AudioIsPlaying
  <2>1. PICK t \in Turns : t = session.audio /\ t \notin cut /\ t = session'.audio
    BY <1>0
  <2>2. turn[t].speech = "playing" /\ (receiver.at # "gone" => IsCurrent(t))
    BY <1>0, <2>1, TurnPair DEF VoiceIsKnown, AudioIsPlaying
  <2>3. turn'[t] = turn[t] /\ turn[t].at # "idle"
    BY <2>1, <2>2, CutFacts, TurnFacts DEF Shape
  <2>4. receiver'.at # "gone" => IsCurrent(t)'
    BY <2>2, <2>3, SameCurrent
  <2> QED BY <2>1, <2>2, <2>3, <2>4 DEF IsCurrent
<1> QED BY <1>1, <1>2, <1>3, <1>4, <1>5 DEF TurnInv, VoiceIsKnown

LEMMA BehindStays ==
    ASSUME ComposedInv, NEW cut, Cut(cut), KeepsCalls, StaysAhead, NobodyWaits,
           session'.generation = session.generation,
           receiver'.at \in {"interrupting", "cancelling"} => receiver'.at = receiver.at
    PROVE  NobodyBehind'
<1> SUFFICES ASSUME NEW t \in Turns, UnderWay(t)', IsCurrent(t)', t[1] \notin Running'
             PROVE  /\ receiver'.at \notin {"interrupting", "cancelling"}
                    /\ \A s \in Streams : ~Waits(s)'
  BY DEF NobodyBehind
<1>1. UnderWay(t) /\ turn[t].at # "idle"
  BY CutFacts DEF UnderWay
<1>2. IsCurrent(t) /\ t[1] \notin Running
  BY <1>1, SameCurrent DEF StaysAhead
<1>3. receiver.at \notin {"interrupting", "cancelling"} /\ \A s \in Streams : ~Waits(s)
  BY <1>1, <1>2 DEF ComposedInv, TurnInv, NobodyBehind
<1> QED BY <1>3 DEF NobodyWaits

LEMMA TurnsStay ==
    ASSUME ComposedInv, turn' = turn, KeepsCalls, StaysInCall, StaysAhead, NobodyWaits,
           session'.generation = session.generation, session'.audio = session.audio,
           receiver.at = "gone" => receiver'.at = "gone",
           receiver'.at \in {"interrupting", "cancelling"} => receiver'.at = receiver.at
    PROVE  TurnInv'
<1>1. Cut({})
  BY DEF Cut
<1>2. NobodyBehind'
  BY <1>1, BehindStays
<1> QED BY <1>1, <1>2, TurnsCut

(* A generation is left behind: what was current is so no more. *)
LeftBehind == \A t \in Turns : turn[t].at # "idle" =>
    call'[t[1]] = call[t[1]] /\ call'[t[1]].generation # session'.generation

LEMMA TurnsStale ==
    ASSUME ComposedInv, turn' = turn, LeftBehind,
           \/ session'.audio = NoTurn
           \/ session'.audio = session.audio /\ receiver'.at = "gone"
    PROVE  TurnInv'
<1>0. /\ TurnsInShape /\ OneTurn /\ VoiceIsKnown
      /\ session \in SessionRecord /\ session.audio \in {NoTurn} \cup Turns
  BY Types DEF ComposedInv, TurnInv, SessionRecord
<1>1. TurnsInShape'
  BY <1>0 DEF TurnsInShape
<1>2. \A t \in Turns : turn[t].at # "idle" => ~IsCurrent(t)'
  BY DEF LeftBehind, IsCurrent
<1>3. OneTurn'
  <2> SUFFICES ASSUME NEW t \in Turns
               PROVE  /\ UnderWay(t)' => t[2] = call'[t[1]].final /\ call'[t[1]].at \in WithTurn
                      /\ turn'[t].at # "idle" => t[2] <= call'[t[1]].final /\ Begun(t[1])'
    BY DEF OneTurn
  <2>1. CASE turn[t].at = "idle"
    BY <2>1 DEF UnderWay
  <2>2. CASE turn[t].at # "idle"
    <3>1. call'[t[1]] = call[t[1]]
      BY <2>2 DEF LeftBehind
    <3> QED BY <1>0, <2>2, <3>1 DEF OneTurn, UnderWay, Begun
  <2> QED BY <2>1, <2>2
<1>4. CutIsStale' /\ NobodyBehind'
  BY <1>2 DEF CutIsStale, NobodyBehind, UnderWay
<1>5. OneVoice'
  <2>1. \A t \in Turns : turn[t].speech = "playing" => turn[t].at # "idle"
    BY TurnFacts DEF Shape
  <2> QED BY <1>2, <2>1 DEF OneVoice
<1>6. AudioIsPlaying'
  BY <1>0 DEF VoiceIsKnown, AudioIsPlaying
<1> QED BY <1>1, <1>3, <1>4, <1>5, <1>6 DEF TurnInv, VoiceIsKnown

------------------------------------------------------------------------------
(* The steps of the calls. *)

AsrRecord == [finals : 0 .. MaxFinals, over : BOOLEAN]
Places == {"off", "armed", "queued", "next", "turn", "settle", "barging", "barged", "ended"}

LEMMA AtFacts ==
    ASSUME ComposedInv, NEW s \in Streams, NEW where \in Places, call' = CallAt(s, where)
    PROVE  /\ call' \in [Streams -> CallRecord] /\ KeepsCalls
           /\ call'[s].at = where /\ call'[s].generation = call[s].generation
           /\ \A o \in Streams : o # s => call'[o] = call[o]
<1>1. call \in [Streams -> CallRecord] /\ call[s] \in CallRecord
  BY Types DEF ComposedInv
<1>2. call' = [call EXCEPT ![s] = [call[s] EXCEPT !.at = where]]
  BY DEF CallAt
<1>3. /\ [call[s] EXCEPT !.at = where] \in CallRecord
      /\ [call[s] EXCEPT !.at = where].at = where
      /\ [call[s] EXCEPT !.at = where].generation = call[s].generation
      /\ [call[s] EXCEPT !.at = where].final = call[s].final
  BY <1>1 DEF CallRecord, Places
<1>4. /\ call' \in [Streams -> CallRecord] /\ call'[s] = [call[s] EXCEPT !.at = where]
      /\ \A o \in Streams : o # s => call'[o] = call[o]
  BY <1>1, <1>2, <1>3
<1>5. KeepsCalls
  BY <1>3, <1>4, TurnPair DEF KeepsCalls
<1> QED BY <1>3, <1>4, <1>5

LEMMA UnheardFacts ==
    ASSUME ComposedInv, NEW s \in Streams
    PROVE  Unheard(s) \in AsrRecord /\ [asr EXCEPT ![s] = Unheard(s)] \in [Streams -> AsrRecord]
<1>1. asr \in [Streams -> AsrRecord] /\ call[s] \in CallRecord
  BY Types DEF ComposedInv, ComposedTypeOK, AsrRecord
<1>2. Unheard(s) \in AsrRecord
  BY <1>1 DEF Unheard, AsrRecord, CallRecord
<1> QED BY <1>1, <1>2

LEMMA RunsOn ==
    ASSUME ComposedInv, NEW s \in Running, NEW where \in {"next", "turn", "settle", "barging", "barged", "ended"},
           call' = CallAt(s, where), session' \in SessionRecord,
           session'.generation = session.generation, session'.audio = session.audio,
           session'.turn \in {0, session.turn}, mic' = mic \/ (mic' = 0 /\ mic = s),
           UNCHANGED <<receiver, turn>>, asr' \in [Streams -> AsrRecord],
           \A t \in Turns : UnderWay(t) /\ t[1] = s => where \in WithTurn \ {"ended"}
    PROVE  ComposedInv'
<1>0. s \in Streams /\ where \in Places /\ s \in Running /\ ComposedTypeOK
  BY DEF Running, Places, ComposedInv
<1>1. /\ call' \in [Streams -> CallRecord] /\ KeepsCalls
      /\ call'[s].at = where /\ call'[s].generation = call[s].generation
      /\ \A o \in Streams : o # s => call'[o] = call[o]
  BY <1>0, AtFacts
<1>2. CallsMoveOn
  BY <1>0, <1>1 DEF CallsMoveOn, MovesOn, Running
<1>3. mic \in {0} \cup Streams /\ mic' \in {0, mic}
  BY <1>0 DEF ComposedTypeOK
<1>4. ComposedTypeOK'
  BY <1>0, <1>1, <1>3 DEF ComposedTypeOK, SessionRecord, CallRecord, AsrRecord
<1>5. \A o \in Streams : call'[o].at = "armed" => mic' = o
  <2> SUFFICES ASSUME NEW o \in Streams, call'[o].at = "armed"
               PROVE  mic' = o
    OBVIOUS
  <2>1. call[o].at = "armed" /\ o # s
    BY <1>1, <1>2 DEF CallsMoveOn, MovesOn
  <2> QED BY <2>1 DEF ComposedInv, CallInv, NewestHasMic
<1>6. CallInv'
  BY <1>2, <1>3, <1>5, CallInvStays
<1>7. StaysInCall
  <2> SUFFICES ASSUME NEW t \in Turns, UnderWay(t) PROVE call'[t[1]].at \in WithTurn
    BY DEF StaysInCall
  <2>1. call[t[1]].at \in WithTurn /\ t[1] \in Streams
    BY TurnPair DEF ComposedInv, TurnInv, OneTurn
  <2> QED BY <1>1, <2>1 DEF WithTurn
<1>8. StaysAhead
  <2> SUFFICES ASSUME NEW t \in Turns, UnderWay(t), t[1] \in Running PROVE t[1] \in Running'
    BY DEF StaysAhead
  <2> QED BY <1>1, TurnPair DEF Running, WithTurn
<1>9. NobodyWaits
  BY <1>2 DEF CallsMoveOn, MovesOn, NobodyWaits, Waits
<1>10. TurnInv'
  BY <1>1, <1>7, <1>8, <1>9, TurnsStay
<1> QED BY <1>4, <1>6, <1>10 DEF ComposedInv

LEMMA LeaveSteps ==
    ASSUME ComposedInv, NEW s \in Running, Leave(s), \A t \in Turns : UnderWay(t) => t[1] # s
    PROVE  ComposedInv'
<1>1. session \in SessionRecord /\ s \in Streams
  BY Types DEF ComposedInv, Running
<1>2. /\ session' \in SessionRecord /\ session'.generation = session.generation
      /\ session'.audio = session.audio /\ session'.turn \in {0, session.turn}
  BY <1>1 DEF Leave, SessionRecord
<1>3. call' = CallAt(s, "ended") /\ (mic' = mic \/ (mic' = 0 /\ mic = s)) /\ UNCHANGED <<receiver, turn>>
  BY DEF Leave
<1>4. asr' \in [Streams -> AsrRecord]
  BY <1>1, UnheardFacts DEF Leave
<1> QED BY <1>2, <1>3, <1>4, RunsOn

LEMMA NoMoreFinalsSteps == ASSUME ComposedInv, NEW s \in Streams, NoMoreFinals(s) PROVE ComposedInv'
<1>1. s \in Running /\ Leave(s) /\ call[s].at = "next"
  BY DEF NoMoreFinals, Running
<1>2. \A t \in Turns : UnderWay(t) => t[1] # s
  BY <1>1 DEF ComposedInv, TurnInv, OneTurn, WithTurn
<1> QED BY <1>1, <1>2, LeaveSteps

LEMMA TurnDoneSteps == ASSUME ComposedInv, NEW s \in Streams, TurnDone(s) PROVE ComposedInv'
<1>1. s \in Running /\ turn[Current(s)].at \in Ended
  BY DEF TurnDone, Running
<1>2. \A t \in Turns : UnderWay(t) => t[1] # s
  <2> SUFFICES ASSUME NEW t \in Turns, UnderWay(t), t[1] = s PROVE FALSE
    OBVIOUS
  <2>1. t = Current(s)
    BY TurnPair DEF ComposedInv, TurnInv, OneTurn, Current
  <2> QED BY <1>1, <2>1 DEF UnderWay, Ended
<1>3. CASE Leave(s)
  BY <1>1, <1>2, <1>3, LeaveSteps
<1>4. CASE call' = CallAt(s, "next") /\ UNCHANGED <<session, receiver, mic, asr, turn>>
  <2>1. /\ session' \in SessionRecord /\ asr' \in [Streams -> AsrRecord]
        /\ session'.generation = session.generation /\ session'.audio = session.audio
        /\ session'.turn \in {0, session.turn}
    BY <1>4, Types DEF ComposedInv, ComposedTypeOK, AsrRecord
  <2> QED BY <1>1, <1>2, <1>4, <2>1, RunsOn
<1> QED BY <1>3, <1>4 DEF TurnDone

LEMMA BargeInSteps == ASSUME ComposedInv, NEW s \in Streams, BargeIn(s) PROVE ComposedInv'
<1>1. s \in Running
  BY DEF BargeIn, Running
<1>2. PICK where \in {"settle", "barging"} : call' = CallAt(s, where)
  BY DEF BargeIn
<1>3. /\ session' \in SessionRecord /\ asr' \in [Streams -> AsrRecord]
      /\ session'.generation = session.generation /\ session'.audio = session.audio
      /\ session'.turn \in {0, session.turn} /\ UNCHANGED <<receiver, mic, turn>>
  BY Types DEF ComposedInv, ComposedTypeOK, AsrRecord, BargeIn
<1>4. where \in WithTurn \ {"ended"}
  BY <1>2 DEF WithTurn
<1> QED BY <1>1, <1>2, <1>3, <1>4, RunsOn

(* The calls stand as they are: a final is heard, or the microphone closes. *)
LEMMA CallsStand ==
    ASSUME ComposedInv, UNCHANGED <<session, call, turn>>, asr' \in [Streams -> AsrRecord],
           mic' \in {0, mic}, \A s \in Streams : call[s].at = "armed" => mic' = s,
           receiver' = receiver \/ (receiver' = [at |-> "idle", of |-> 0] /\ receiver.at # "gone")
    PROVE  ComposedInv'
<1>1. /\ ComposedTypeOK /\ CallInv /\ session \in SessionRecord /\ session.generation \in Nat
      /\ \A s \in Streams : call[s] \in CallRecord
  BY Types DEF ComposedInv, SessionRecord
<1>2. CallsMoveOn
  BY DEF CallsMoveOn, MovesOn
<1>3. KeepsCalls /\ StaysAhead /\ NobodyWaits
  BY DEF KeepsCalls, StaysAhead, NobodyWaits, Running, Waits
<1>4. StaysInCall
  BY DEF StaysInCall, ComposedInv, TurnInv, OneTurn
<1>5. ComposedTypeOK'
  BY <1>1 DEF ComposedTypeOK, AsrRecord
<1>6. GenerationsRise' /\ NewestHasMic'
  BY <1>1, <1>2, CallsMove, MicStays
<1>7. ReceiverKnows'
  <2>1. CASE receiver' = receiver
    BY <1>2, <2>1, ReceiverStays
  <2>2. CASE receiver'.at = "idle"
    BY <1>1, <2>2 DEF CallInv, ReceiverKnows, Begun
  <2> QED BY <2>1, <2>2
<1>8. TurnInv'
  BY <1>3, <1>4, TurnsStay
<1> QED BY <1>5, <1>6, <1>7, <1>8 DEF ComposedInv, CallInv

LEMMA HearingEndsSteps == ASSUME ComposedInv, NEW s \in Streams, HearingEnds(s) PROVE ComposedInv'
<1>1. asr \in [Streams -> AsrRecord] /\ asr[s] \in AsrRecord
  BY DEF ComposedInv, ComposedTypeOK, AsrRecord
<1>2. asr' \in [Streams -> AsrRecord]
  <2>1. [asr[s] EXCEPT !.over = TRUE] \in AsrRecord
    BY <1>1 DEF AsrRecord
  <2> QED BY <1>1, <2>1 DEF HearingEnds
<1>3. mic' = mic /\ UNCHANGED <<session, call, turn>> /\ receiver' = receiver
  BY DEF HearingEnds
<1>4. \A o \in Streams : call[o].at = "armed" => mic' = o
  BY <1>3 DEF ComposedInv, CallInv, NewestHasMic
<1> QED BY <1>2, <1>3, <1>4, CallsStand

(* All finals of one stream are heard when it has as many as there may be.  *)
LEMMA RoomForOne ==
    ASSUME ComposedInv, NEW s \in Streams, Cardinality(Heard) < MaxFinals
    PROVE  asr[s].finals + 1 \in 0 .. MaxFinals
<1>1. asr[s].finals \in 0 .. MaxFinals
  BY DEF ComposedInv, ComposedTypeOK
<1>2. ASSUME asr[s].finals = MaxFinals PROVE FALSE
  <2> DEFINE own == {s} \X (1 .. MaxFinals)
  <2>1. own \subseteq Heard
    BY <1>2, ComposedTurnsAssumption DEF Heard, Turns
  <2>2. IsFiniteSet(Streams) /\ IsFiniteSet(1 .. MaxFinals)
    BY FS_Interval, ComposedTurnsAssumption DEF Streams
  <2>3. IsFiniteSet(Turns)
    BY <2>2, FS_Product DEF Turns
  <2>4. IsFiniteSet(Heard)
    BY <2>3, FS_Subset DEF Heard
  <2>5. IsFiniteSet({s}) /\ Cardinality({s}) = 1
    BY FS_Singleton
  <2>6. Cardinality(1 .. MaxFinals) = MaxFinals
    BY FS_Interval, ComposedTurnsAssumption
  <2>7. Cardinality(own) = MaxFinals
    <3>1. Cardinality({s} \X (1 .. MaxFinals)) = Cardinality({s}) * Cardinality(1 .. MaxFinals)
      BY <2>2, <2>5, FS_Product
    <3>2. Cardinality(own) = 1 * MaxFinals
      BY <2>5, <2>6, <3>1
    <3> QED BY <3>2, ComposedTurnsAssumption
  <2>8. Cardinality(own) <= Cardinality(Heard)
    BY <2>1, <2>4, FS_Subset
  <2>9. Cardinality(Heard) \in Nat
    BY <2>4, FS_CardinalityType
  <2> QED BY <2>7, <2>8, <2>9, ComposedTurnsAssumption
<1> QED BY <1>1, <1>2, ComposedTurnsAssumption

LEMMA FinalHeardSteps == ASSUME ComposedInv, NEW s \in Streams, FinalHeard(s) PROVE ComposedInv'
<1>1. asr \in [Streams -> AsrRecord] /\ asr[s] \in AsrRecord /\ asr[s].finals + 1 \in 0 .. MaxFinals
  BY RoomForOne DEF ComposedInv, ComposedTypeOK, AsrRecord, FinalHeard
<1>2. asr' \in [Streams -> AsrRecord]
  <2>1. [asr[s] EXCEPT !.finals = asr[s].finals + 1] \in AsrRecord
    BY <1>1 DEF AsrRecord
  <2>2. asr' = [asr EXCEPT ![s] = [asr[s] EXCEPT !.finals = asr[s].finals + 1]]
    BY DEF FinalHeard
  <2> QED BY <1>1, <2>1, <2>2
<1>3. mic' = mic /\ UNCHANGED <<session, call, turn>> /\ receiver' = receiver
  BY DEF FinalHeard
<1>4. \A o \in Streams : call[o].at = "armed" => mic' = o
  BY <1>3 DEF ComposedInv, CallInv, NewestHasMic
<1> QED BY <1>2, <1>3, <1>4, CallsStand

LEMMA EndStreamSteps == ASSUME ComposedInv, EndStream PROVE ComposedInv'
<1>1. /\ UNCHANGED <<session, call, turn>> /\ receiver' = receiver
      /\ asr' \in [Streams -> AsrRecord] /\ mic' \in {0, mic}
  BY DEF EndStream, ComposedInv, ComposedTypeOK, AsrRecord
<1>2. \A o \in Streams : call[o].at # "armed"
  BY DEF EndStream, ComposedInv, CallInv, NewestHasMic
<1> QED BY <1>1, <1>2, CallsStand

LEMMA AbortedSteps == ASSUME ComposedInv, Aborted PROVE ComposedInv'
<1>1. /\ UNCHANGED <<session, call, turn>> /\ asr' \in [Streams -> AsrRecord] /\ mic' \in {0, mic}
      /\ receiver' = [at |-> "idle", of |-> 0] /\ receiver.at # "gone"
  BY DEF Aborted, Wait, ComposedInv, ComposedTypeOK, AsrRecord
<1>2. \A o \in Streams : call[o].at = "armed" => mic' = o
  BY DEF Aborted, ComposedInv, CallInv, NewestHasMic
<1> QED BY <1>1, <1>2, CallsStand

LEMMA FirstFrameSteps == ASSUME ComposedInv, FirstFrame PROVE ComposedInv'
<1>0. /\ ComposedTypeOK /\ session \in SessionRecord /\ mic \in {0} \cup Streams /\ "queued" \in Places
  BY Types DEF ComposedInv, Places
<1>1. PICK s \in Streams : s = mic /\ call[s].at = "armed"
  BY <1>0 DEF FirstFrame
<1>2. call' = CallAt(s, "queued") /\ UNCHANGED <<session, receiver, mic, asr, turn>>
  BY <1>1 DEF FirstFrame
<1>3. /\ call' \in [Streams -> CallRecord] /\ KeepsCalls
      /\ call'[s].at = "queued" /\ call'[s].generation = call[s].generation
      /\ \A o \in Streams : o # s => call'[o] = call[o]
  BY <1>0, <1>2, AtFacts
<1>4. CallsMoveOn
  BY <1>1, <1>3 DEF CallsMoveOn, MovesOn
<1>5. ComposedTypeOK'
  BY <1>0, <1>2, <1>3 DEF ComposedTypeOK, CallRecord
<1>6. \A o \in Streams : call'[o].at = "armed" => mic' = o
  BY <1>2, <1>3 DEF ComposedInv, CallInv, NewestHasMic
<1>7. CallInv'
  BY <1>2, <1>4, <1>6, CallInvStays
<1>8. StaysInCall /\ StaysAhead
  <2> SUFFICES ASSUME NEW t \in Turns, UnderWay(t)
               PROVE  /\ call'[t[1]].at \in WithTurn
                      /\ t[1] \in Running' \/ t[1] \notin Running
    BY DEF StaysInCall, StaysAhead
  <2>1. call[t[1]].at \in WithTurn /\ t[1] \in Streams
    BY TurnPair DEF ComposedInv, TurnInv, OneTurn
  <2>2. call'[t[1]] = call[t[1]]
    BY <1>1, <1>3, <2>1 DEF WithTurn
  <2> QED BY <2>1, <2>2 DEF Running
<1>9. NobodyWaits
  BY <1>4 DEF CallsMoveOn, MovesOn, NobodyWaits, Waits
<1>10. TurnInv'
  BY <1>2, <1>3, <1>8, <1>9, TurnsStay
<1> QED BY <1>5, <1>7, <1>10 DEF ComposedInv

------------------------------------------------------------------------------
(* The steps that start a generation. *)

(* A turn that was begun is of a call that was. *)
LEMMA TurnBegun ==
    ASSUME ComposedInv, NEW t \in Turns, turn[t].at # "idle"
    PROVE  /\ t[1] \in Streams /\ Begun(t[1]) /\ call[t[1]].generation \in Nat
           /\ call[t[1]].generation <= session.generation
           /\ call[t[1]].at \notin {"off", "armed", "queued"}
BY TurnPair, Types DEF ComposedInv, TurnInv, OneTurn, CallInv, GenerationsRise, CallRecord

LEMMA InterruptSteps == ASSUME ComposedInv, Interrupt PROVE ComposedInv'
<1>0. /\ ComposedTypeOK /\ CallInv /\ session \in SessionRecord /\ session.generation \in Nat
      /\ session.turn \in {0} \cup Streams /\ session.audio \in {NoTurn} \cup Turns
      /\ \A s \in Streams : call[s].generation \in Nat
  BY Types DEF ComposedInv, SessionRecord, CallRecord
<1>1. /\ receiver' = [at |-> "interrupting", of |-> session.turn] /\ mic = 0 /\ New \in Streams
      /\ UNCHANGED <<mic, call, asr, turn>>
  BY DEF Interrupt, Wait
<1>2. /\ session' \in SessionRecord /\ session'.generation \in Nat
      /\ session'.generation >= session.generation
      /\ session.turn # 0 => session'.generation > session.generation
      /\ \A s \in Streams : Begun(s) => call[s].generation < session'.generation
      /\ session'.turn = 0 /\ session'.audio = NoTurn
  <2>1. CASE session.generation = 0
    <3>1. \A s \in Streams : ~Begun(s)
      BY <1>0, <2>1 DEF Begun, CallInv, GenerationsRise
    <3>2. session.turn = 0
      BY <1>0, <3>1 DEF CallInv, ReceiverKnows
    <3>3. session.audio = NoTurn
      BY <1>0, <3>1, VoiceUnderWay, TurnBegun DEF UnderWay, ComposedInv, TurnInv, VoiceIsKnown, AudioIsPlaying
    <3> QED BY <1>0, <2>1, <3>1, <3>2, <3>3 DEF Interrupt
  <2>2. CASE session.generation # 0
    <3>1. session' = [session EXCEPT !.generation = @ + 1, !.turn = 0, !.audio = NoTurn]
      BY <2>2 DEF Interrupt
    <3>g. PICK g \in Nat : g = session.generation + 1
      BY <1>0
    <3>2. /\ session' \in SessionRecord /\ session'.generation = session.generation + 1
          /\ session'.turn = 0 /\ session'.audio = NoTurn
      <4>1. session' = [session EXCEPT !.generation = g, !.turn = 0, !.audio = NoTurn]
        BY <3>1, <3>g
      <4>2. session' \in SessionRecord /\ session'.generation = g /\ session'.turn = 0
            /\ session'.audio = NoTurn
        BY <1>0, <4>1 DEF SessionRecord
      <4> QED BY <3>g, <4>2
    <3>3. \A s \in Streams : call[s].generation <= session.generation
      BY <1>0 DEF CallInv, GenerationsRise
    <3> QED BY <1>0, <3>2, <3>3
  <2> QED BY <2>1, <2>2
<1>3. CallsMoveOn
  BY <1>1 DEF CallsMoveOn, MovesOn
<1>4. ComposedTypeOK'
  BY <1>0, <1>1, <1>2 DEF ComposedTypeOK, SessionRecord
<1>5. GenerationsRise' /\ NewestHasMic' /\ New' = New
  <2>1. \A s \in Streams : call'[s].at = "armed" => mic' = s
    BY <1>0, <1>1 DEF CallInv, NewestHasMic
  <2> QED BY <1>1, <1>2, <1>3, <2>1, CallsMove, MicStays
<1>6. ReceiverKnows'
  <2>1. receiver'.of # 0 => /\ Begun(session.turn)
                            /\ call[session.turn].generation < session'.generation
    BY <1>0, <1>1, <1>2 DEF CallInv, ReceiverKnows
  <2> QED BY <1>1, <1>2, <1>5, <2>1 DEF ReceiverKnows, Begun
<1>7. LeftBehind
  BY <1>0, <1>1, <1>2, TurnBegun DEF LeftBehind
<1>8. TurnInv'
  BY <1>1, <1>2, <1>7, TurnsStale
<1> QED BY <1>4, <1>5, <1>6, <1>8 DEF ComposedInv, CallInv

LEMMA CloseSessionSteps == ASSUME ComposedInv, CloseSession PROVE ComposedInv'
<1>0. /\ ComposedTypeOK /\ CallInv /\ session \in SessionRecord /\ session.generation \in Nat
      /\ \A s \in Streams : call[s].generation \in Nat
  BY Types DEF ComposedInv, SessionRecord, CallRecord
<1>1. /\ receiver' = [at |-> "gone", of |-> 0] /\ receiver.at = "leaving"
      /\ session' = [session EXCEPT !.generation = @ + 1, !.turn = 0]
      /\ UNCHANGED <<mic, call, asr, turn>>
  BY DEF CloseSession, Wait
<1>2. /\ session' \in SessionRecord /\ session'.generation = session.generation + 1
      /\ session'.turn = 0 /\ session'.audio = session.audio
  <2>1. PICK g \in Nat : g = session.generation + 1
    BY <1>0
  <2>2. session' = [session EXCEPT !.generation = g, !.turn = 0]
    BY <1>1, <2>1
  <2>3. /\ session' \in SessionRecord /\ session'.generation = g
        /\ session'.turn = 0 /\ session'.audio = session.audio
    BY <1>0, <2>2 DEF SessionRecord
  <2> QED BY <2>1, <2>3
<1>3. \A s \in Streams : call[s].generation < session'.generation
  BY <1>0, <1>2 DEF CallInv, GenerationsRise
<1>4. CallsMoveOn
  BY <1>1 DEF CallsMoveOn, MovesOn
<1>5. ComposedTypeOK'
  BY <1>0, <1>1, <1>2 DEF ComposedTypeOK, SessionRecord
<1>6. GenerationsRise' /\ NewestHasMic'
  <2>1. \A s \in Streams : call'[s].at = "armed" => mic' = s
    BY <1>0, <1>1 DEF CallInv, NewestHasMic
  <2>2. mic' \in {0, mic} /\ session'.generation \in Nat
        /\ session'.generation >= session.generation
    BY <1>0, <1>1, <1>2
  <2> QED BY <1>4, <2>1, <2>2, CallsMove, MicStays
<1>7. ReceiverKnows'
  BY <1>0, <1>1, <1>2, <1>3 DEF CallInv, ReceiverKnows, Waits
<1>8. LeftBehind
  <2> SUFFICES ASSUME NEW t \in Turns, turn[t].at # "idle"
               PROVE  call'[t[1]] = call[t[1]] /\ call'[t[1]].generation # session'.generation
    BY DEF LeftBehind
  <2>1. t[1] \in Streams
    BY TurnPair
  <2>2. call[t[1]].generation < session'.generation /\ session'.generation \in Nat
    BY <1>0, <1>2, <1>3, <2>1
  <2> QED BY <1>0, <1>1, <2>1, <2>2
<1>9. TurnInv'
  BY <1>1, <1>2, <1>8, TurnsStale
<1> QED BY <1>5, <1>6, <1>7, <1>9 DEF ComposedInv, CallInv

(* What is opened is 1 .. n, and the next is n + 1.                         *)
LEMMA OpenedSoFar ==
    ASSUME ComposedInv
    PROVE  \E n \in 0 .. LastStream : Opened = 1 .. n /\ New = n + 1
<1>1. PICK n \in 0 .. LastStream : Opened = 1 .. n
  BY DEF ComposedInv, CallInv, NewestHasMic
<1>2. n \in Nat
  BY <1>1, ComposedTurnsAssumption
<1>3. Cardinality(1 .. n) = n
  BY <1>2, FS_Interval
<1> QED BY <1>1, <1>2, <1>3 DEF New

LEMMA RegisterSteps == ASSUME ComposedInv, Register PROVE ComposedInv'
<1>0. /\ ComposedTypeOK /\ CallInv /\ session \in SessionRecord /\ session.turn \in {0} \cup Streams
      /\ call \in [Streams -> CallRecord] /\ "armed" \in Places
  BY Types DEF ComposedInv, SessionRecord, Places
<1>1. PICK n \in 0 .. LastStream : Opened = 1 .. n /\ New = n + 1
  BY OpenedSoFar
<1>2. receiver.at = "cancelling" /\ mic = 0 /\ New \in Streams
  BY <1>0 DEF Register, CallInv, ReceiverKnows
<1>3. PICK s \in Streams : s = New
  BY <1>2
<1>4. /\ receiver' = [at |-> "idle", of |-> 0] /\ mic' = s /\ call' = CallAt(s, "armed")
      /\ UNCHANGED <<session, asr, turn>>
  BY <1>3 DEF Register, Wait
<1>5. n \in Nat /\ s = n + 1 /\ s \notin Opened /\ Streams \subseteq Nat
  BY <1>1, <1>3, ComposedTurnsAssumption DEF Streams
<1>6. call[s].at = "off" /\ ~Begun(s)
  BY <1>0, <1>5 DEF Opened, CallInv, GenerationsRise
<1>7. /\ call' \in [Streams -> CallRecord] /\ KeepsCalls
      /\ call'[s].at = "armed" /\ call'[s].generation = call[s].generation
      /\ \A o \in Streams : o # s => call'[o] = call[o]
  BY <1>0, <1>4, AtFacts
<1>8. ComposedTypeOK'
  BY <1>0, <1>4, <1>7 DEF ComposedTypeOK, CallRecord
<1>9. \A o \in Streams : /\ Begun(o)' <=> Begun(o)
                         /\ call'[o].generation = call[o].generation
  BY <1>7 DEF Begun
<1>10. GenerationsRise'
  <2>1. \A o \in Streams : call'[o].generation <= session'.generation
    BY <1>0, <1>4, <1>9 DEF CallInv, GenerationsRise
  <2>2. \A x, o \in Streams : Begun(x)' /\ call'[x].generation = call'[o].generation => x = o
    BY <1>0, <1>9 DEF CallInv, GenerationsRise
  <2>3. \A o \in Streams : call'[o].at \in {"off", "armed", "queued"} => ~Begun(o)'
    BY <1>0, <1>6, <1>7, <1>9 DEF CallInv, GenerationsRise
  <2>4. \A o \in Running' : Begun(o)'
    BY <1>0, <1>7, <1>9 DEF CallInv, GenerationsRise, Running
  <2>5. ASSUME NEW x \in Streams, NEW o \in Streams, Begun(x)', o < x PROVE ~Waits(o)'
    <3>1. Begun(x) /\ x \in Opened
      BY <1>0, <1>9, <2>5 DEF CallInv, GenerationsRise, Opened
    <3>2. o # s
      BY <1>1, <1>5, <2>5, <3>1
    <3> QED BY <1>0, <1>7, <2>5, <3>1, <3>2 DEF CallInv, GenerationsRise, Waits
  <2> QED BY <2>1, <2>2, <2>3, <2>4, <2>5 DEF GenerationsRise
<1>11. NewestHasMic'
  <2>1. Opened' = Opened \cup {s}
    BY <1>7 DEF Opened
  <2>2. Opened' = 1 .. s /\ s \in 0 .. LastStream
    BY <1>1, <1>3, <1>5, <2>1 DEF Streams
  <2>3. \A o \in Streams : call'[o].at = "armed" => mic' = o
    <3>1. 0 \notin Streams
      BY DEF Streams
    <3>2. \A o \in Streams : call[o].at # "armed"
      BY <1>0, <1>2, <3>1 DEF CallInv, NewestHasMic
    <3> QED BY <1>4, <1>7, <3>2
  <2>4. mic' \in Opened' /\ \A o \in Opened' : o <= mic'
    BY <1>4, <1>5, <2>1, <2>2
  <2> QED BY <2>2, <2>3, <2>4 DEF NewestHasMic
<1>12. ReceiverKnows'
  BY <1>0, <1>4, <1>9 DEF CallInv, ReceiverKnows, Begun
<1>13. StaysInCall /\ StaysAhead
  <2> SUFFICES ASSUME NEW t \in Turns, UnderWay(t)
               PROVE  /\ call'[t[1]].at \in WithTurn
                      /\ t[1] \in Running' \/ t[1] \notin Running
    BY DEF StaysInCall, StaysAhead
  <2>1. call[t[1]].at \in WithTurn /\ t[1] \in Streams
    BY TurnPair DEF ComposedInv, TurnInv, OneTurn
  <2>2. call'[t[1]] = call[t[1]]
    BY <1>6, <1>7, <2>1 DEF WithTurn
  <2> QED BY <2>1, <2>2 DEF Running
<1>14. NobodyWaits
  BY <1>2 DEF NobodyWaits
<1>15. TurnInv'
  BY <1>2, <1>4, <1>7, <1>13, <1>14, TurnsStay
<1> QED BY <1>8, <1>10, <1>11, <1>12, <1>15 DEF ComposedInv, CallInv

LEMMA BeginSteps == ASSUME ComposedInv, NEW s \in Streams, Begin(s) PROVE ComposedInv'
<1>0. /\ ComposedTypeOK /\ CallInv /\ session \in SessionRecord /\ session.generation \in Nat
      /\ session.audio \in {NoTurn} \cup Turns
      /\ call \in [Streams -> CallRecord] /\ call[s] \in CallRecord
      /\ \A o \in Streams : call[o].generation \in Nat
      /\ \A o \in Streams : call[o].generation <= session.generation
  BY Types DEF ComposedInv, SessionRecord, CallRecord, CallInv, GenerationsRise
<1>1. /\ call[s].at = "queued" /\ Running = {} /\ UNCHANGED <<receiver, mic, asr, turn>>
      /\ \A o \in 1 .. s - 1 : call[o].at # "queued"
  BY DEF Begin
<1>2. PICK g \in Nat : g = session.generation + 1
  BY <1>0
<1>3. /\ session' \in SessionRecord /\ session'.generation = g /\ session'.turn = s
      /\ session'.audio = session.audio
  <2>1. session' = [session EXCEPT !.generation = g, !.turn = s]
    BY <1>2 DEF Begin
  <2> QED BY <1>0, <2>1 DEF SessionRecord
<1>4. /\ call' \in [Streams -> CallRecord] /\ call'[s].at = "next" /\ call'[s].generation = g
      /\ \A o \in Streams : o # s => call'[o] = call[o]
  <2>1. call' = [call EXCEPT ![s] = [call[s] EXCEPT !.at = "next", !.generation = g]]
    BY <1>2 DEF Begin
  <2>2. /\ [call[s] EXCEPT !.at = "next", !.generation = g] \in CallRecord
        /\ [call[s] EXCEPT !.at = "next", !.generation = g].at = "next"
        /\ [call[s] EXCEPT !.at = "next", !.generation = g].generation = g
    BY <1>0 DEF CallRecord
  <2> QED BY <1>0, <2>1, <2>2
<1>5. g # 0 /\ \A o \in Streams : call[o].generation < g
  BY <1>0, <1>2
<1>6. ~Begun(s) /\ Begun(s)' /\ Waits(s) /\ \A o \in Streams : o # s => (Begun(o)' <=> Begun(o))
  BY <1>0, <1>1, <1>4, <1>5 DEF CallInv, GenerationsRise, Begun, Waits
<1>7. ComposedTypeOK'
  BY <1>0, <1>1, <1>3, <1>4 DEF ComposedTypeOK, SessionRecord, CallRecord
<1>8. Opened' = Opened /\ New' = New
  <2>1. Opened' = Opened
    BY <1>1, <1>4 DEF Opened
  <2> QED BY <2>1 DEF New
<1>9. GenerationsRise'
  <2>1. \A o \in Streams : call'[o].generation <= session'.generation
    <3> SUFFICES ASSUME NEW o \in Streams PROVE call'[o].generation <= g
      BY <1>3
    <3>1. CASE o = s
      BY <1>4, <3>1
    <3>2. CASE o # s
      BY <1>0, <1>4, <1>5, <3>2
    <3> QED BY <3>1, <3>2
  <2>2. ASSUME NEW x \in Streams, NEW o \in Streams, Begun(x)',
               call'[x].generation = call'[o].generation
        PROVE  x = o
    <3>1. CASE x # s /\ o # s
      BY <1>0, <1>4, <1>6, <2>2, <3>1 DEF CallInv, GenerationsRise
    <3>2. CASE x = s /\ o # s
      BY <1>0, <1>4, <1>5, <2>2, <3>2
    <3>3. CASE x # s /\ o = s
      BY <1>0, <1>4, <1>5, <2>2, <3>3
    <3> QED BY <3>1, <3>2, <3>3
  <2>3. \A o \in Streams : call'[o].at \in {"off", "armed", "queued"} => ~Begun(o)'
    BY <1>0, <1>4, <1>6 DEF CallInv, GenerationsRise
  <2>4. \A o \in Running' : Begun(o)'
    BY <1>1, <1>4, <1>6 DEF Running
  <2>5. ASSUME NEW x \in Streams, NEW o \in Streams, Begun(x)', o < x PROVE ~Waits(o)'
    <3>1. CASE o = s
      BY <1>4, <3>1 DEF Waits
    <3>2. CASE o # s /\ x # s
      BY <1>0, <1>4, <1>6, <2>5, <3>2 DEF CallInv, GenerationsRise, Waits
    <3>3. CASE o # s /\ x = s
      <4>1. o \in 1 .. s - 1
        BY <2>5, <3>3 DEF Streams
      <4>2. call[o].at # "queued"
        BY <1>1, <4>1
      <4>3. ASSUME call[o].at = "armed" PROVE FALSE
        <5>1. mic = o /\ s \in Opened
          BY <1>0, <1>1, <4>3 DEF CallInv, NewestHasMic, Opened
        <5>2. o # 0 /\ o \in Nat /\ s \in Nat
          BY ComposedTurnsAssumption DEF Streams
        <5>3. s <= o
          BY <1>0, <5>1, <5>2 DEF CallInv, NewestHasMic
        <5> QED BY <2>5, <3>3, <5>2, <5>3
      <4> QED BY <1>4, <3>3, <4>2, <4>3 DEF Waits
    <3> QED BY <3>1, <3>2, <3>3
  <2> QED BY <2>1, <2>2, <2>3, <2>4, <2>5 DEF GenerationsRise
<1>10. NewestHasMic'
  BY <1>0, <1>1, <1>4, <1>8 DEF CallInv, NewestHasMic
<1>11. ReceiverKnows'
  <2>1. receiver.at \notin {"leaving", "gone"}
    BY <1>0, <1>6 DEF CallInv, ReceiverKnows
  <2>2. session'.turn # 0 => Begun(session.turn)'
    <3>1. call'[session'.turn].generation # 0
      BY <1>3, <1>4, <1>5
    <3> QED BY <3>1 DEF Begun
  <2>3. receiver.at \in {"interrupting", "cancelling"} =>
          /\ mic' = 0 /\ New' \in Streams
          /\ receiver.of # 0 => /\ Begun(receiver.of)'
                                /\ call'[receiver.of].generation < session'.generation
    <3>1. CASE receiver.at \notin {"interrupting", "cancelling"} \/ receiver.of = 0
      BY <1>0, <1>1, <1>8, <3>1 DEF CallInv, ReceiverKnows
    <3>2. CASE receiver.at \in {"interrupting", "cancelling"} /\ receiver.of # 0
      <4>1. PICK o \in Streams : o = receiver.of
        BY <1>0, <3>2 DEF ComposedTypeOK
      <4>2. mic = 0 /\ New \in Streams /\ Begun(o)
        BY <1>0, <3>2, <4>1 DEF CallInv, ReceiverKnows
      <4>3. o # s /\ call'[o] = call[o]
        BY <1>4, <1>6, <4>2
      <4>4. call'[receiver'.of].generation # 0 /\ call'[receiver.of].generation < session'.generation
        BY <1>1, <1>3, <1>5, <4>1, <4>2, <4>3 DEF Begun
      <4> QED BY <1>1, <1>8, <4>2, <4>4 DEF Begun
    <3> QED BY <3>1, <3>2
  <2> QED BY <1>1, <2>1, <2>2, <2>3 DEF ReceiverKnows
<1>12. session.audio = NoTurn
  <2> SUFFICES ASSUME session.audio # NoTurn PROVE FALSE
    OBVIOUS
  <2>1. PICK t \in Turns : t = session.audio
    BY <1>0
  <2>2. receiver.at # "gone"
    BY <1>0, <1>6 DEF CallInv, ReceiverKnows
  <2>3. turn[t].speech = "playing" /\ IsCurrent(t)
    BY <2>1, <2>2 DEF ComposedInv, TurnInv, VoiceIsKnown, AudioIsPlaying
  <2>4. UnderWay(t) /\ t[1] \notin Running
    BY <1>1, <2>3, VoiceUnderWay
  <2> QED BY <1>6, <2>3, <2>4 DEF ComposedInv, TurnInv, NobodyBehind
<1>13. LeftBehind
  <2> SUFFICES ASSUME NEW t \in Turns, turn[t].at # "idle"
               PROVE  call'[t[1]] = call[t[1]] /\ call'[t[1]].generation # session'.generation
    BY DEF LeftBehind
  <2>1. t[1] \in Streams /\ t[1] # s
    BY <1>1, TurnBegun
  <2> QED BY <1>0, <1>3, <1>4, <1>5, <2>1
<1>14. TurnInv'
  BY <1>1, <1>3, <1>12, <1>13, TurnsStale
<1> QED BY <1>7, <1>9, <1>10, <1>11, <1>14 DEF ComposedInv, CallInv

------------------------------------------------------------------------------
(* The steps that start a turn or cut it short. *)

(* The next final of a call becomes a turn, or is passed over. *)
LEMMA TurnTaken ==
    ASSUME ComposedInv, NEW s \in Streams, NEW t \in Turns, t[1] = s, t[2] = call[s].final + 1,
           call[s].at = "next", NEW where \in {"next", "turn"}, NEW goal \in {"called", "over"},
           goal = "called" => where = "turn",
           call' = [call EXCEPT ![s].at = where, ![s].final = @ + 1],
           turn' = [turn EXCEPT ![t].at = goal],
           UNCHANGED <<session, receiver, mic, asr>>
    PROVE  ComposedInv'
<1>0. /\ ComposedTypeOK /\ CallInv /\ session \in SessionRecord /\ session.audio \in {NoTurn} \cup Turns
      /\ call \in [Streams -> CallRecord] /\ call[s] \in CallRecord /\ turn \in [Turns -> TurnRecord]
      /\ TurnsInShape /\ OneTurn /\ CutIsStale /\ NobodyBehind /\ VoiceIsKnown
  BY Types DEF ComposedInv, SessionRecord, TurnInv
<1>1. \A u \in Turns : u[1] = s => ~UnderWay(u)
  BY <1>0 DEF OneTurn, WithTurn
<1>2. turn[t].at = "idle" /\ turn[t] \in TurnRecord /\ Shape(turn[t])
  <2>1. ~(t[2] <= call[s].final)
    BY <1>0 DEF CallRecord
  <2> QED BY <1>0, <2>1 DEF OneTurn, TurnsInShape
<1>3. PICK f \in 1 .. MaxFinals : f = call[s].final + 1
  BY TurnPair
<1>4. /\ call' \in [Streams -> CallRecord] /\ call'[s].at = where /\ call'[s].final = f
      /\ call'[s].generation = call[s].generation
      /\ \A o \in Streams : o # s => call'[o] = call[o]
  <2>0. PICK c : c = [call[s] EXCEPT !.at = where, !.final = f]
    OBVIOUS
  <2>1. call' = [call EXCEPT ![s] = c]
    BY <1>3, <2>0
  <2>2. f \in 0 .. MaxFinals
    BY <1>3, ComposedTurnsAssumption
  <2>3. c \in CallRecord /\ c.at = where /\ c.final = f /\ c.generation = call[s].generation
    BY <1>0, <2>0, <2>2 DEF CallRecord
  <2>4. /\ call' \in [Streams -> CallRecord] /\ call'[s] = c
        /\ \A o \in Streams : o # s => call'[o] = call[o]
    <3>1. call \in [Streams -> CallRecord] /\ c \in CallRecord
      BY <1>0, <2>3
    <3>2. call' \in [Streams -> CallRecord]
      BY <2>1, <3>1
    <3>3. s \in DOMAIN call
      BY <3>1
    <3>4. call'[s] = c
      BY <2>1, <3>3
    <3>5. \A o \in Streams : o # s => call'[o] = call[o]
      BY <2>1, <3>1
    <3> QED BY <3>2, <3>4, <3>5
  <2> QED BY <2>3, <2>4
<1>5. /\ turn' \in [Turns -> TurnRecord] /\ turn'[t].at = goal /\ turn'[t].text = "reading"
      /\ turn'[t].speech = "quiet" /\ Shape(turn'[t])
      /\ \A u \in Turns : u # t => turn'[u] = turn[u]
  <2> DEFINE r == [turn[t] EXCEPT !.at = goal]
  <2>1. r \in TurnRecord /\ r.at = goal /\ Shape(r) /\ r.text = "reading" /\ r.speech = "quiet"
    BY <1>2 DEF TurnRecord, Shape, Unspoken, Ended
  <2>2. turn' = [turn EXCEPT ![t] = r]
    OBVIOUS
  <2> HIDE DEF r
  <2> QED BY <1>0, <2>1, <2>2
<1>6. CallsMoveOn /\ s \in Running /\ s \in Running'
  <2>1. s \in Running
    BY DEF Running
  <2>2. s \in Running'
    BY <1>4 DEF Running
  <2>3. CallsMoveOn
    BY <1>4 DEF CallsMoveOn, MovesOn
  <2> QED BY <2>1, <2>2, <2>3
<1>7. CallInv'
  <2>1. \A o \in Streams : call'[o].at = "armed" => mic' = o
    BY <1>0, <1>4 DEF CallInv, NewestHasMic
  <2> QED BY <1>6, <2>1, CallInvStays
<1>8. ComposedTypeOK'
  BY <1>0, <1>4, <1>5 DEF ComposedTypeOK, CallRecord, TurnRecord
<1>9. TurnsInShape'
  BY <1>0, <1>5 DEF TurnsInShape
<1>10. OneTurn'
  <2> SUFFICES ASSUME NEW u \in Turns
               PROVE  /\ UnderWay(u)' => u[2] = call'[u[1]].final /\ call'[u[1]].at \in WithTurn
                      /\ turn'[u].at # "idle" => u[2] <= call'[u[1]].final /\ Begun(u[1])'
    BY DEF OneTurn
  <2>1. CASE u = t
    <3>1. Begun(s)'
      BY <1>0, <1>4, <1>6 DEF Begun, CallInv, GenerationsRise
    <3>2. UnderWay(t)' => where = "turn"
      BY <1>5 DEF UnderWay
    <3>3. t[2] = f /\ f <= f
      BY <1>3
    <3> QED BY <1>4, <2>1, <3>1, <3>2, <3>3 DEF WithTurn
  <2>2. CASE u # t /\ u[1] = s
    <3>1. turn'[u] = turn[u] /\ ~UnderWay(u)'
      BY <1>1, <1>5, <2>2 DEF UnderWay
    <3>2. turn[u].at # "idle" => u[2] <= call[s].final /\ Begun(s)
      BY <1>0, <2>2 DEF OneTurn
    <3>3. u[2] <= call[s].final => u[2] <= f
      BY <1>0, <1>3, TurnPair DEF CallRecord
    <3> QED BY <1>4, <2>2, <3>1, <3>2, <3>3 DEF Begun
  <2>3. CASE u # t /\ u[1] # s
    <3>1. turn'[u] = turn[u] /\ call'[u[1]] = call[u[1]]
      BY <1>4, <1>5, <2>3, TurnPair
    <3> QED BY <1>0, <3>1 DEF OneTurn, UnderWay, Begun
  <2> QED BY <2>1, <2>2, <2>3
<1>11. \A u \in Turns : IsCurrent(u)' <=> IsCurrent(u)
  BY <1>4, TurnPair DEF IsCurrent
<1>12. CutIsStale'
  BY <1>0, <1>5, <1>11 DEF CutIsStale
<1>13. NobodyBehind'
  <2> SUFFICES ASSUME NEW u \in Turns, UnderWay(u)', IsCurrent(u)', u[1] \notin Running'
               PROVE  /\ receiver.at \notin {"interrupting", "cancelling"}
                      /\ \A o \in Streams : ~Waits(o)'
    BY DEF NobodyBehind
  <2>1. u[1] # s /\ u # t /\ u[1] \in Streams
    BY <1>6, TurnPair
  <2>2. UnderWay(u) /\ IsCurrent(u) /\ u[1] \notin Running
    BY <1>4, <1>5, <1>11, <2>1 DEF UnderWay, Running
  <2> QED BY <1>0, <1>4, <2>2 DEF NobodyBehind, Waits
<1>14. VoiceIsKnown'
  BY <1>0, <1>2, <1>5, <1>11 DEF VoiceIsKnown, AudioIsPlaying, OneVoice, Shape, Unspoken
<1> QED BY <1>7, <1>8, <1>9, <1>10, <1>12, <1>13, <1>14 DEF ComposedInv, TurnInv

LEMMA TakeFinalSteps == ASSUME ComposedInv, NEW s \in Streams, TakeFinal(s) PROVE ComposedInv'
<1>1. /\ call[s].at = "next" /\ call[s].final < asr[s].finals /\ call[s] \in CallRecord
      /\ asr[s].finals \in 0 .. MaxFinals /\ UNCHANGED <<session, receiver, mic, asr>>
  BY Types DEF TakeFinal, ComposedInv, ComposedTypeOK
<1>2. call[s].final + 1 \in 1 .. MaxFinals
  BY <1>1, ComposedTurnsAssumption DEF CallRecord
<1>3. PICK t \in Turns : t = <<s, call[s].final + 1>>
  BY <1>2 DEF Turns
<1>4. t[1] = s /\ t[2] = call[s].final + 1
  BY <1>3
<1>5. CASE /\ call' = [call EXCEPT ![s].at = "turn", ![s].final = @ + 1]
           /\ turn' = [turn EXCEPT ![t].at = "called"]
  BY <1>1, <1>4, <1>5, TurnTaken
<1>6. CASE /\ call' = [call EXCEPT ![s].final = @ + 1]
           /\ turn' = [turn EXCEPT ![t].at = "over"]
  <2>1. call' = [call EXCEPT ![s].at = "next", ![s].final = @ + 1]
    <3>1. PICK f : f = call[s].final + 1
      OBVIOUS
    <3>2. [call[s] EXCEPT !.final = f] = [call[s] EXCEPT !.at = "next", !.final = f]
      BY <1>1 DEF CallRecord
    <3>3. call' = [call EXCEPT ![s] = [call[s] EXCEPT !.final = f]]
      BY <1>6, <3>1
    <3> QED BY <3>1, <3>2, <3>3
  <2> QED BY <1>1, <1>4, <1>6, <2>1, TurnTaken
<1> QED BY <1>3, <1>5, <1>6 DEF TakeFinal

LEMMA CancelBargedSteps == ASSUME ComposedInv, NEW s \in Streams, CancelBarged(s) PROVE ComposedInv'
<1>0. /\ ComposedTypeOK /\ session \in SessionRecord /\ session.audio \in {NoTurn} \cup Turns
      /\ turn \in [Turns -> TurnRecord] /\ "barged" \in Places
  BY Types DEF ComposedInv, SessionRecord, Places
<1>1. /\ call[s].at = "barging" /\ CancelTurn(s) /\ call' = CallAt(s, "barged")
      /\ UNCHANGED <<receiver, mic, asr>>
  BY DEF CancelBarged
<1>2. PICK c : c = Current(s)
  OBVIOUS
<1>3. /\ call' \in [Streams -> CallRecord] /\ KeepsCalls
      /\ call'[s].at = "barged" /\ call'[s].generation = call[s].generation
      /\ \A o \in Streams : o # s => call'[o] = call[o]
  BY <1>0, <1>1, AtFacts
<1>4. turn' = [turn EXCEPT ![c] = Cancelled(turn[c])]
  BY <1>1, <1>2 DEF CancelTurn
<1>5. turn' \in [Turns -> TurnRecord] /\ Cut({c})
  <2>1. c \in Turns => Cancelled(turn[c]) \in TurnRecord
    BY TurnFacts, CancelledFacts
  <2> QED BY <1>0, <1>4, <2>1 DEF Cut
<1>6. session.audio # NoTurn => /\ session.audio \in Turns
                                /\ turn[session.audio].speech = "playing"
                                /\ (session.audio[1] = s <=> session.audio = c)
  <2> SUFFICES ASSUME NEW t \in Turns, t = session.audio
               PROVE  turn[t].speech = "playing" /\ (t[1] = s <=> t = c)
    BY <1>0
  <2>1. turn[t].speech = "playing"
    BY TurnPair DEF ComposedInv, TurnInv, VoiceIsKnown, AudioIsPlaying
  <2>2. t = <<t[1], call[t[1]].final>>
    BY <2>1, VoiceUnderWay
  <2> QED BY <1>2, <2>1, <2>2 DEF Current
<1>7. /\ session' = [session EXCEPT !.audio = IF session.audio = c THEN NoTurn ELSE session.audio]
  <2>0. c # NoTurn /\ NoTurn[1] # s
    BY <1>2 DEF Current, NoTurn, Streams
  <2>1. CASE turn[c].at \in Ended
    <3>1. session' = session
      BY <1>1, <1>2, <2>1 DEF CancelTurn
    <3>2. session.audio # c
      <4> SUFFICES ASSUME session.audio = c PROVE FALSE
        OBVIOUS
      <4>1. PICK t \in Turns : t = c
        BY <1>6, <2>0
      <4>2. turn[t].speech = "playing" /\ turn[t].at \in Ended
        BY <1>6, <2>0, <2>1, <4>1
      <4> QED BY <4>2, TurnFacts DEF Shape, Ended
    <3> QED BY <1>0, <3>1, <3>2 DEF SessionRecord
  <2>2. CASE turn[c].at \notin Ended
    <3>1. session' = Silence(c) /\ c[1] = s
      BY <1>1, <1>2, <2>2 DEF CancelTurn, Current
    <3> QED BY <1>0, <1>6, <2>0, <3>1 DEF Silence, SessionRecord
  <2> QED BY <2>1, <2>2
<1>8. /\ session' \in SessionRecord /\ session'.generation = session.generation
      /\ session'.turn = session.turn
      /\ session'.audio = IF session.audio \in {c} THEN NoTurn ELSE session.audio
  BY <1>0, <1>7 DEF SessionRecord
<1>9. ComposedTypeOK'
  BY <1>0, <1>1, <1>3, <1>5, <1>8 DEF ComposedTypeOK, SessionRecord, CallRecord, TurnRecord
<1>10. CallsMoveOn
  BY <1>1, <1>3 DEF CallsMoveOn, MovesOn
<1>11. CallInv'
  <2>1. \A o \in Streams : call'[o].at = "armed" => mic' = o
    BY <1>1, <1>3 DEF ComposedInv, CallInv, NewestHasMic
  <2> QED BY <1>1, <1>8, <1>10, <2>1, CallInvStays
<1>12. StaysInCall /\ StaysAhead
  <2> SUFFICES ASSUME NEW t \in Turns, UnderWay(t)
               PROVE  /\ call'[t[1]].at \in WithTurn
                      /\ t[1] \in Running' \/ t[1] \notin Running
    BY DEF StaysInCall, StaysAhead
  <2>1. call[t[1]].at \in WithTurn /\ t[1] \in Streams
    BY TurnPair DEF ComposedInv, TurnInv, OneTurn
  <2> QED BY <1>3, <2>1 DEF Running, WithTurn
<1>13. NobodyWaits
  BY <1>10 DEF CallsMoveOn, MovesOn, NobodyWaits, Waits
<1>14. NobodyBehind'
  BY <1>1, <1>3, <1>5, <1>8, <1>12, <1>13, BehindStays
<1>15. TurnInv'
  BY <1>1, <1>3, <1>5, <1>8, <1>12, <1>14, TurnsCut
<1> QED BY <1>9, <1>11, <1>15 DEF ComposedInv

------------------------------------------------------------------------------
(* Calls are cancelled. *)

(* The calls of S are cancelled: some are left, where they wait.            *)
Left(S) == \A s \in Streams :
    /\ call'[s].generation = call[s].generation /\ call'[s].final = call[s].final
    /\ IF s \in S /\ Detaches(s) THEN call'[s].at = "ended" ELSE call'[s].at = call[s].at

LEMMA CancelledCalls ==
    ASSUME ComposedInv, NEW S \in SUBSET Streams, CancelCalls(S)
    PROVE  /\ call' \in [Streams -> CallRecord] /\ asr' \in [Streams -> AsrRecord] /\ Left(S)
<1> DEFINE leaving == {s \in S : Detaches(s)}
<1>1. /\ \A s \in Streams : call[s] \in CallRecord /\ asr[s] \in AsrRecord /\ Unheard(s) \in AsrRecord
  BY Types, UnheardFacts DEF ComposedInv, ComposedTypeOK, AsrRecord
<1>2. /\ call' = [s \in Streams |-> CASE s \in leaving -> [call[s] EXCEPT !.at = "ended"]
                                      [] s \in S \ leaving -> [call[s] EXCEPT !.ending = TRUE]
                                      [] OTHER -> call[s]]
      /\ asr' = [s \in Streams |-> IF s \in leaving THEN Unheard(s) ELSE asr[s]]
  BY DEF CancelCalls
<1>3. asr' \in [Streams -> AsrRecord]
  BY <1>1, <1>2
<1>4. ASSUME NEW s \in Streams
      PROVE  /\ call'[s] \in CallRecord
             /\ call'[s].generation = call[s].generation /\ call'[s].final = call[s].final
             /\ IF s \in S /\ Detaches(s) THEN call'[s].at = "ended"
                ELSE call'[s].at = call[s].at
  <2>1. CASE s \in leaving
    <3>1. call'[s] = [call[s] EXCEPT !.at = "ended"]
      BY <1>2, <2>1
    <3> QED BY <1>1, <2>1, <3>1 DEF CallRecord
  <2>2. CASE s \in S \ leaving
    <3>1. call'[s] = [call[s] EXCEPT !.ending = TRUE]
      BY <1>2, <2>2
    <3> QED BY <1>1, <2>2, <3>1 DEF CallRecord
  <2>3. CASE s \notin S
    <3>1. call'[s] = call[s]
      BY <1>2, <2>3
    <3> QED BY <1>1, <2>3, <3>1
  <2> QED BY <2>1, <2>2, <2>3
<1>5. Left(S)
  BY <1>4 DEF Left
<1>6. call' \in [Streams -> CallRecord]
  <2> DEFINE C(s) == CASE s \in leaving -> [call[s] EXCEPT !.at = "ended"]
                       [] s \in S \ leaving -> [call[s] EXCEPT !.ending = TRUE]
                       [] OTHER -> call[s]
  <2>1. call' = [s \in Streams |-> C(s)]
    BY <1>2
  <2> HIDE DEF C
  <2>2. \A s \in Streams : C(s) \in CallRecord
    BY <1>4, <2>1
  <2> QED BY <2>1, <2>2
<1> QED BY <1>3, <1>5, <1>6

(* The turns that are cut, and the audio that goes with them. *)
LEMMA CancelledTurns ==
    ASSUME ComposedInv, NEW S \in SUBSET Streams, CancelCalls(S)
    PROVE  /\ turn' \in [Turns -> TurnRecord] /\ session' \in SessionRecord
           /\ session'.generation = session.generation
           /\ session'.turn \in {0, session.turn}
           /\ \E cut : /\ Cut(cut)
                       /\ session'.audio = IF session.audio \in cut THEN NoTurn ELSE session.audio
<1> DEFINE leaving == {s \in S : Detaches(s)}
<1>0. PICK cut : cut = {Current(s) : s \in S \ leaving}
  OBVIOUS
<1>1. /\ session \in SessionRecord /\ session.audio \in {NoTurn} \cup Turns
      /\ session.turn \in {0} \cup Streams
  BY Types DEF ComposedInv, SessionRecord
<1>2. /\ turn' = [t \in Turns |-> IF t \in cut THEN Cancelled(turn[t]) ELSE turn[t]]
      /\ session' = [session EXCEPT !.turn = IF @ \in leaving THEN 0 ELSE @,
                                    !.audio = IF @[1] \in {t[1] : t \in cut} THEN NoTurn ELSE @]
  BY <1>0 DEF CancelCalls
<1>3. Cut(cut)
  BY <1>2 DEF Cut
<1>4. turn' \in [Turns -> TurnRecord]
  <2>1. \A t \in Turns : Cancelled(turn[t]) \in TurnRecord /\ turn[t] \in TurnRecord
    BY TurnFacts, CancelledFacts
  <2> QED BY <1>2, <2>1
<1>5. {t[1] : t \in cut} = S \ leaving
  <2>1. \A s : Current(s)[1] = s
    BY DEF Current
  <2> HIDE DEF leaving
  <2>2. ASSUME NEW s \in S \ leaving PROVE s \in {t[1] : t \in cut}
    <3>1. Current(s) \in cut
      BY <1>0
    <3>2. Current(s)[1] = s
      BY <2>1
    <3> QED BY <3>1, <3>2
  <2>3. ASSUME NEW t \in cut PROVE t[1] \in S \ leaving
    <3>1. PICK s \in S \ leaving : t = Current(s)
      BY <1>0
    <3> QED BY <2>1, <3>1
  <2> QED BY <2>2, <2>3
<1>6. PICK a : a = IF session.audio[1] \in S \ leaving THEN NoTurn ELSE session.audio
  OBVIOUS
<1>7. a = IF session.audio \in cut THEN NoTurn ELSE session.audio
  <2>1. CASE session.audio = NoTurn
    BY <1>6, <2>1
  <2>2. CASE session.audio # NoTurn
    <3>1. PICK t \in Turns : t = session.audio
      BY <1>1, <2>2
    <3>2. turn[t].speech = "playing"
      BY <2>2, <3>1 DEF ComposedInv, TurnInv, VoiceIsKnown, AudioIsPlaying
    <3>3. t = Current(t[1])
      BY <3>2, VoiceUnderWay DEF Current
    <3>4. \A s : t = Current(s) => s = t[1]
      BY DEF Current
    <3>5. t \in cut <=> t[1] \in S \ leaving
      BY <1>0, <3>3, <3>4
    <3> QED BY <1>6, <3>1, <3>5
  <2> QED BY <2>1, <2>2
<1>8. PICK o \in {0, session.turn} : o = IF session.turn \in leaving THEN 0 ELSE session.turn
  OBVIOUS
<1>9. session' = [session EXCEPT !.turn = o, !.audio = a]
  BY <1>2, <1>5, <1>6, <1>8
<1>10. a \in {NoTurn} \cup Turns /\ o \in {0} \cup Streams
  BY <1>1, <1>6, <1>8
<1>11. /\ session' \in SessionRecord /\ session'.generation = session.generation
       /\ session'.turn = o /\ session'.audio = a
  BY <1>1, <1>9, <1>10 DEF SessionRecord
<1> QED BY <1>3, <1>4, <1>7, <1>8, <1>11

LEMMA LeftFacts ==
    ASSUME ComposedInv, NEW S \in SUBSET Streams, Left(S)
    PROVE  CallsMoveOn /\ KeepsCalls /\ StaysInCall
<1>1. CallsMoveOn
  BY DEF Left, CallsMoveOn, MovesOn, Detaches
<1>2. KeepsCalls
  BY TurnPair DEF Left, KeepsCalls
<1>3. StaysInCall
  <2> SUFFICES ASSUME NEW t \in Turns, UnderWay(t) PROVE call'[t[1]].at \in WithTurn
    BY DEF StaysInCall
  <2>1. call[t[1]].at \in WithTurn /\ t[1] \in Streams
    BY TurnPair DEF ComposedInv, TurnInv, OneTurn
  <2> QED BY <2>1 DEF Left, WithTurn
<1> QED BY <1>1, <1>2, <1>3

LEMMA CancelSteps ==
    ASSUME ComposedInv, NEW S \in SUBSET Streams, CancelCalls(S), NobodyBehind', ReceiverKnows',
           receiver.at # "gone", mic' \in {0, mic},
           \A s \in Streams : call'[s].at = "armed" => mic' = s,
           receiver' \in [at : {"cancelling", "aborting", "leaving"}, of : {0} \cup Streams]
    PROVE  ComposedInv'
<1>0. /\ ComposedTypeOK /\ mic \in {0} \cup Streams /\ session \in SessionRecord /\ session.generation \in Nat
  BY Types DEF ComposedInv, ComposedTypeOK, SessionRecord
<1>1. /\ call' \in [Streams -> CallRecord] /\ asr' \in [Streams -> AsrRecord]
      /\ CallsMoveOn /\ KeepsCalls /\ StaysInCall
  BY CancelledCalls, LeftFacts
<1>2. /\ turn' \in [Turns -> TurnRecord] /\ session' \in SessionRecord
      /\ session'.generation = session.generation
  BY CancelledTurns
<1>3. PICK cut : /\ Cut(cut)
                 /\ session'.audio = IF session.audio \in cut THEN NoTurn ELSE session.audio
  BY CancelledTurns
<1>4. ComposedTypeOK'
  <2>1. mic' \in {0} \cup Streams
    BY <1>0
  <2> QED BY <1>1, <1>2, <2>1 DEF ComposedTypeOK, SessionRecord, CallRecord, TurnRecord, AsrRecord
<1>5. GenerationsRise' /\ NewestHasMic'
  BY <1>0, <1>1, <1>2, CallsMove, MicStays
<1>6. TurnInv'
  BY <1>1, <1>2, <1>3, TurnsCut
<1> QED BY <1>4, <1>5, <1>6 DEF ComposedInv, CallInv

(* What is under way of the current generation when calls are cancelled. *)
LEMMA BehindCancelled ==
    ASSUME ComposedInv, NEW S \in SUBSET Streams, CancelCalls(S),
           NEW t \in Turns, UnderWay(t)', IsCurrent(t)', t[1] \notin Running'
    PROVE  /\ UnderWay(t) /\ IsCurrent(t) /\ t[1] \in Streams
           /\ t[1] \notin Running \/ (t[1] \in S /\ Detaches(t[1]))
<1>1. PICK cut : Cut(cut)
  BY CancelledTurns
<1>2. UnderWay(t) /\ turn[t].at # "idle" /\ t[1] \in Streams
  BY <1>1, CutFacts, TurnPair DEF UnderWay
<1>3. KeepsCalls /\ Left(S) /\ session'.generation = session.generation
  BY CancelledCalls, CancelledTurns, LeftFacts
<1>4. IsCurrent(t)
  BY <1>2, <1>3, SameCurrent
<1>5. t[1] \notin Running \/ (t[1] \in S /\ Detaches(t[1]))
  BY <1>2, <1>3 DEF Left, Running
<1> QED BY <1>2, <1>4, <1>5

LEMMA CancelActiveSteps == ASSUME ComposedInv, CancelActive PROVE ComposedInv'
<1>0. /\ receiver \in [at : {"idle", "interrupting", "cancelling", "aborting", "leaving", "gone"},
                       of : {0} \cup Streams]
      /\ receiver.of \in {0} \cup Streams
  BY DEF ComposedInv, ComposedTypeOK
<1>1. PICK S : S = {receiver.of} \cap Running
  OBVIOUS
<1>2. /\ receiver.at = "interrupting" /\ CancelCalls(S) /\ mic' = mic /\ S \in SUBSET Streams
      /\ receiver' = [at |-> "cancelling", of |-> receiver.of]
  BY <1>1 DEF CancelActive, Wait, Running
<1>3. /\ CallsMoveOn /\ Left(S) /\ session'.generation = session.generation
      /\ session'.turn \in {0, session.turn}
  BY <1>2, CancelledCalls, CancelledTurns, LeftFacts
<1>4. ReceiverKnows'
  BY <1>2, <1>3, ReceiverStays
<1>5. NobodyBehind'
  <2> SUFFICES ASSUME NEW t \in Turns, UnderWay(t)', IsCurrent(t)', t[1] \notin Running'
               PROVE  FALSE
    BY DEF NobodyBehind
  <2>1. /\ UnderWay(t) /\ IsCurrent(t) /\ t[1] \in Streams
        /\ t[1] \notin Running \/ (t[1] \in S /\ Detaches(t[1]))
    BY <1>2, BehindCancelled
  <2>2. t[1] \in Running
    BY <1>2, <2>1 DEF ComposedInv, TurnInv, NobodyBehind
  <2>3. t[1] = receiver.of /\ receiver.of # 0
    BY <1>1, <2>1, <2>2, TurnPair
  <2>4. call[t[1]].generation < session.generation
    BY <1>2, <2>3 DEF ComposedInv, CallInv, ReceiverKnows
  <2>5. session.generation \in Nat
    BY Types DEF ComposedInv, SessionRecord
  <2> QED BY <2>1, <2>4, <2>5 DEF IsCurrent
<1>6. \A s \in Streams : call'[s].at = "armed" => mic' = s
  BY <1>2, <1>3 DEF CallsMoveOn, MovesOn, ComposedInv, CallInv, NewestHasMic
<1>7. /\ receiver.at # "gone" /\ mic' \in {0, mic}
      /\ receiver' \in [at : {"cancelling", "aborting", "leaving"}, of : {0} \cup Streams]
  BY <1>0, <1>2
<1> QED BY <1>2, <1>4, <1>5, <1>6, <1>7, CancelSteps

(* A receiver that waits for no stream's turn knows what it must. *)
LEMMA ReceiverTurns ==
    ASSUME ComposedInv, CallsMoveOn, session'.generation = session.generation,
           session'.turn \in {0, session.turn},
           \/ receiver'.at = "aborting"
           \/ receiver'.at = "leaving" /\ mic' = 0 /\ \A s \in Streams : ~Waits(s)'
    PROVE  ReceiverKnows'
<1>1. session.turn \in {0} \cup Streams /\ session.generation \in Nat
  BY Types DEF ComposedInv, SessionRecord
<1>2. session'.turn # 0 => Begun(session.turn)'
  <2>1. CASE session'.turn = 0
    BY <2>1
  <2>2. CASE session'.turn # 0
    <3>1. PICK s \in Streams : s = session.turn
      BY <1>1, <2>2
    <3>2. call[s].generation # 0 /\ session'.turn = s
      BY <2>2, <3>1 DEF ComposedInv, CallInv, ReceiverKnows, Begun
    <3>3. call'[session'.turn].generation # 0
      BY <3>2 DEF CallsMoveOn, MovesOn
    <3> QED BY <3>3 DEF Begun
  <2> QED BY <2>1, <2>2
<1> QED BY <1>2 DEF ReceiverKnows

LEMMA AbortSteps == ASSUME ComposedInv, Abort PROVE ComposedInv'
<1>0. mic \in {0} \cup Streams
  BY DEF ComposedInv, ComposedTypeOK
<1>1. PICK m \in Streams : m = mic
  BY <1>0 DEF Abort
<1>2. /\ receiver.at = "idle" /\ CancelCalls({m}) /\ mic' = 0 /\ {m} \in SUBSET Streams
      /\ receiver' = [at |-> "aborting", of |-> m]
  BY <1>1 DEF Abort, Wait
<1>3. /\ CallsMoveOn /\ Left({m}) /\ session'.generation = session.generation
      /\ session'.turn \in {0, session.turn}
  BY <1>2, CancelledCalls, CancelledTurns, LeftFacts
<1>4. ReceiverKnows'
  BY <1>2, <1>3, ReceiverTurns
<1>5. NobodyBehind'
  <2> SUFFICES ASSUME NEW t \in Turns, UnderWay(t)', IsCurrent(t)', t[1] \notin Running',
                      NEW o \in Streams, Waits(o)'
               PROVE  FALSE
    BY <1>2 DEF NobodyBehind
  <2>1. /\ UnderWay(t) /\ IsCurrent(t) /\ t[1] \in Streams
        /\ t[1] \notin Running \/ (t[1] \in {m} /\ Detaches(t[1]))
    BY <1>2, BehindCancelled
  <2>2. Waits(o)
    BY <1>3 DEF CallsMoveOn, MovesOn, Waits
  <2>3. t[1] = m /\ Detaches(m) /\ Begun(m)
    BY <2>1, <2>2, TurnBegun DEF ComposedInv, TurnInv, NobodyBehind, UnderWay
  <2>4. o # m
    BY <1>3, <2>3 DEF Left, Waits
  <2>5. o \in Opened
    BY <2>2 DEF Waits, Opened
  <2>6. o <= m /\ o \in Nat /\ m \in Nat
    BY <1>0, <1>1, <2>5, ComposedTurnsAssumption DEF ComposedInv, CallInv, NewestHasMic, Streams
  <2>7. o < m
    BY <2>4, <2>6
  <2> QED BY <2>2, <2>3, <2>7 DEF ComposedInv, CallInv, GenerationsRise
<1>6. \A s \in Streams : call'[s].at # "armed"
  <2> SUFFICES ASSUME NEW s \in Streams, call'[s].at = "armed" PROVE FALSE
    OBVIOUS
  <2>1. call[s].at = "armed"
    BY <1>3 DEF CallsMoveOn, MovesOn
  <2>2. s = m
    BY <1>1, <2>1 DEF ComposedInv, CallInv, NewestHasMic
  <2> QED BY <1>3, <2>1, <2>2 DEF Left, Detaches
<1>7. /\ receiver.at # "gone" /\ mic' \in {0, mic}
      /\ receiver' \in [at : {"cancelling", "aborting", "leaving"}, of : {0} \cup Streams]
  BY <1>2
<1> QED BY <1>2, <1>4, <1>5, <1>6, <1>7, CancelSteps

LEMMA DisconnectSteps == ASSUME ComposedInv, Disconnect PROVE ComposedInv'
<1>1. PICK S : S = Live
  OBVIOUS
<1>2. /\ receiver.at = "idle" /\ CancelCalls(S) /\ mic' = 0 /\ S \in SUBSET Streams
      /\ receiver' = [at |-> "leaving", of |-> 0]
  BY <1>1 DEF Disconnect, Wait, Live, Opened
<1>3. /\ CallsMoveOn /\ Left(S) /\ session'.generation = session.generation
      /\ session'.turn \in {0, session.turn}
  BY <1>2, CancelledCalls, CancelledTurns, LeftFacts
<1>4. \A s \in Streams : ~Waits(s)'
  <2> SUFFICES ASSUME NEW s \in Streams, Waits(s)' PROVE FALSE
    OBVIOUS
  <2>1. Waits(s)
    BY <1>3 DEF CallsMoveOn, MovesOn, Waits
  <2>2. s \in S /\ Detaches(s)
    BY <1>1, <2>1 DEF Waits, Live, Opened, Detaches
  <2> QED BY <1>3, <2>2 DEF Left, Waits
<1>5. ReceiverKnows'
  BY <1>2, <1>3, <1>4, ReceiverTurns
<1>6. NobodyBehind'
  BY <1>2, <1>4 DEF NobodyBehind
<1>7. \A s \in Streams : call'[s].at # "armed"
  BY <1>4 DEF Waits
<1>8. /\ receiver.at # "gone" /\ mic' \in {0, mic}
      /\ receiver' \in [at : {"cancelling", "aborting", "leaving"}, of : {0} \cup Streams]
  BY <1>2
<1> QED BY <1>2, <1>5, <1>6, <1>7, <1>8, CancelSteps

------------------------------------------------------------------------------
(* The invariant *)

LEMMA ComposedBeginning == ASSUME ComposedInit PROVE ComposedInv
<1>1. PICK mode \in Modes :
          session = [mode |-> mode, generation |-> 0, turn |-> 0, audio |-> NoTurn]
  BY DEF ComposedInit
<1>2. /\ receiver = [at |-> "idle", of |-> 0] /\ mic = 0
      /\ call = [s \in Streams |-> [at |-> "off", generation |-> 0, final |-> 0, ending |-> FALSE]]
      /\ asr = [s \in Streams |-> [finals |-> 0, over |-> FALSE]]
  BY DEF ComposedInit
<1>3. 0 \in 0 .. MaxFinals /\ 0 \in 0 .. QueueSize /\ 0 \in 0 .. LastStream
  BY ComposedTurnsAssumption
<1>4. PICK q : q = [c \in Outputs |-> 0]
  OBVIOUS
<1>5. PICK r : r = [at |-> "idle", maker |-> "idle", left |-> 0, due |-> {}, queue |-> q,
                    text |-> "reading", speech |-> "quiet", failed |-> FALSE]
  OBVIOUS
<1>6. turn = [t \in Turns |-> r]
  BY <1>4, <1>5 DEF ComposedInit
<1>7. q \in [Outputs -> 0 .. QueueSize] /\ \A c \in Outputs : q[c] = 0
  BY <1>3, <1>4
<1>8. r \in TurnRecord /\ r.at = "idle" /\ r.speech = "quiet" /\ Shape(r)
  BY <1>5, <1>7 DEF TurnRecord, Shape, Unspoken, Ended
<1>9. \A t \in Turns : turn[t] = r
  BY <1>6
<1>10. ComposedTypeOK
  <2>1. session \in SessionRecord
    BY <1>1 DEF SessionRecord
  <2>2. turn \in [Turns -> TurnRecord]
    BY <1>6, <1>8
  <2>3. asr \in [Streams -> [finals : 0 .. MaxFinals, over : BOOLEAN]]
    BY <1>2, <1>3
  <2>4. call \in [Streams -> CallRecord]
    BY <1>2, <1>3 DEF CallRecord
  <2> QED BY <1>2, <2>1, <2>2, <2>3, <2>4 DEF ComposedTypeOK, SessionRecord, TurnRecord, CallRecord
<1>11. GenerationsRise
  BY <1>1, <1>2 DEF GenerationsRise, Begun, Running
<1>12. NewestHasMic
  <2>1. Opened = 1 .. 0
    BY <1>2 DEF Opened
  <2> QED BY <1>2, <1>3, <2>1 DEF NewestHasMic
<1>13. ReceiverKnows
  BY <1>1, <1>2 DEF ReceiverKnows
<1>14. TurnsInShape /\ OneTurn /\ CutIsStale /\ NobodyBehind
  BY <1>8, <1>9 DEF TurnsInShape, OneTurn, CutIsStale, NobodyBehind, UnderWay
<1>15. VoiceIsKnown
  BY <1>1, <1>8, <1>9 DEF VoiceIsKnown, AudioIsPlaying, OneVoice
<1> QED BY <1>10, <1>11, <1>12, <1>13, <1>14, <1>15 DEF ComposedInv, CallInv, TurnInv

LEMMA ComposedSteps == ASSUME ComposedInv, [ComposedNext]_composedVars PROVE ComposedInv'
<1>1. CASE Client
  BY <1>1, InterruptSteps, FirstFrameSteps, EndStreamSteps, AbortSteps, DisconnectSteps DEF Client
<1>2. CASE Returning
  BY <1>2, CancelActiveSteps, RegisterSteps, AbortedSteps, CloseSessionSteps DEF Returning
<1>3. CASE \E s \in Streams : Calling(s) \/ FinalHeard(s) \/ HearingEnds(s)
  BY <1>3, BeginSteps, TakeFinalSteps, NoMoreFinalsSteps, BargeInSteps, CancelBargedSteps,
     TurnDoneSteps, FinalHeardSteps, HearingEndsSteps DEF Calling
<1>4. CASE \E t \in Turns : Speaking(t) \/ Failing(t)
  BY <1>4, TurnActions
<1>5. CASE UNCHANGED composedVars
  BY <1>5 DEF composedVars, ComposedInv, ComposedTypeOK, CallInv, GenerationsRise, NewestHasMic, ReceiverKnows, Begun,
     Waits, Running, Opened, New, TurnInv, TurnsInShape, OneTurn, CutIsStale, NobodyBehind,
     VoiceIsKnown, AudioIsPlaying, OneVoice, UnderWay, IsCurrent
<1> QED BY <1>1, <1>2, <1>3, <1>4, <1>5 DEF ComposedNext

(* Whatever the streams, the finals, the replies and the queues' size: the  *)
(* invariant of the composed session holds.                                 *)
THEOREM ComposedInductive == ComposedSpec => []ComposedInv
BY ComposedBeginning, ComposedSteps, PTL DEF ComposedSpec

(* Every variable stays in its domain: no more finals are recognised than   *)
(* the bound, no queue outgrows its size, no call leaves its states.        *)
THEOREM ComposedTypeCorrect == ComposedSpec => []ComposedTypeOK
<1>1. ComposedInv => ComposedTypeOK
  BY DEF ComposedInv
<1> QED BY <1>1, ComposedInductive, PTL

(* The session knows of the one voice that speaks, and the client is told   *)
(* to end the session only after the farewell was delivered whole.          *)
THEOREM SpeechCorrect == ComposedSpec => []SpeechIsSound
<1>1. ComposedInv => SpeechIsSound
  BY DEF ComposedInv, TurnInv, TurnsInShape, Shape, SpeechIsSound, FarewellFirst
<1> QED BY <1>1, ComposedInductive, PTL
=============================================================================
