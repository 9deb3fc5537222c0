------------------------------- MODULE AgentProofs -------------------------------
(*****************************************************************************)
(* Proofs about Agent, for every schema, any commands served at the same     *)
(* time, any providers and conversations to start from, and any number of    *)
(* rounds.                                                                   *)
(*****************************************************************************)
EXTENDS Agent, TLAPS, SequenceTheorems, FiniteSetTheorems, WellFoundedInduction

(* States of a request *)

Stages == {"start", "open", "recall", "ask", "model", "stream", "fallback", "call", "save", "done"}
BeforeAsk == {"start", "open", "recall", "ask"}
Answering == {"model", "stream", "fallback", "call", "save"}
Outcomes == {None, "ok", "403", "404", "500", "502", "503", "broken"}
Ids == UNION {DOMAIN s : s \in Scenarios}
Commands == UNION {{s[r] : r \in DOMAIN s} : s \in Scenarios}
AnyName == ToolNames \union Invented
Convs == {None} \union Ids \union {c.conv : c \in Commands}
Message == [conv : Convs, role : {"user", "assistant"}, of : Ids]
Saying == [role : {"user", "assistant", "tool", "model"}, ids : SUBSET (Nat \X Nat)]
Called == [name : AnyName, ran : BOOLEAN]
Request ==
  [cmd : Commands, pc : Stages, type : KnownTypes \union {None}, conv : Convs, given : SUBSET ToolNames,
   sees : Seq(Message), round : 0..MaxRounds, reply : Seq(AnyName), at : Nat, exchange : Seq(Saying),
   sent : Seq(Saying), api : {None, "chat", "chat_stream"}, calls : SUBSET Called, text : BOOLEAN, out : Outcomes]

TypeOK ==
  /\ \E s \in Scenarios : DOMAIN rq = DOMAIN s /\ \A r \in DOMAIN rq : cmd(r) = s[r]
  /\ rq \in [DOMAIN rq -> Request]
  /\ messages \in Seq(Message)
  /\ \A r \in DOMAIN rq :
       /\ rq[r].pc \notin {"start", "done"} => rq[r].type # None
       /\ rq[r].pc = "fallback" => rq[r].round # MaxRounds

\* Nobody else talks in the conversation that a request made, or will make.
Apart ==
  \A r \in DOMAIN rq :
    /\ \A q \in DOMAIN rq : q # r => rq[r].conv # q
    /\ rq[r].pc \notin {"start", "done"} => cmd(r).kind \in Chats
    /\ rq[r].pc # "done" => rq[r].out = None

\* Whether the question or the answer of a request is in its conversation.
Has(r, role) == \E i \in DOMAIN messages : messages[i].of = r /\ messages[i].role = role

\* What stands in the conversations, and what must stand there.
Asked(i) == \E j \in 1..(i - 1) : messages[j].of = messages[i].of /\ messages[j].role = "user"
Stands(i) ==
  /\ messages[i].conv \in DOMAIN conversations /\ messages[i].of \in DOMAIN rq
  /\ messages[i].conv = rq[messages[i].of].conv
  /\ rq[messages[i].of].pc \in Answering \union {"done"}
  /\ messages[i].role = "assistant" => rq[messages[i].of].pc = "done" /\ Asked(i)
Replied(r) == cmd(r).kind \in Chats /\ rq[r].out = "ok"
Turn(r) ==
  rq[r].conv \in DOMAIN conversations =>
    /\ rq[r].pc \in Answering \/ Replied(r) => Has(r, "user")
    /\ Replied(r) /\ (cmd(r).kind = "chat" \/ rq[r].text) => Has(r, "assistant")
Kept ==
  /\ \A i \in DOMAIN messages : Stands(i)
  /\ \A i, j \in DOMAIN messages :
       messages[i].of = messages[j].of /\ messages[i].role = messages[j].role => i = j
  /\ \A r \in DOMAIN rq : Turn(r)

\* Results follow the message that made the call; all calls but some are answered.
Follows(x) ==
  \A i \in DOMAIN x : x[i].role = "tool" =>
    \E j \in 1..(i - 1) : /\ x[j].role = "assistant" /\ x[i].ids # {} /\ x[i].ids \subseteq x[j].ids
                          /\ \A k \in (j + 1)..i : x[k].role = "tool"
Answered(x, pending) ==
  \A j \in DOMAIN x : \A id \in x[j].ids \ pending : x[j].role = "assistant" =>
    \E i \in DOMAIN x : x[i].role = "tool" /\ x[i].ids = {id}

\* The calls of the round under way that are still to be run.
Pending(r) == {rq[r].round} \X (rq[r].at..Len(rq[r].reply))
LastCalls(x, j, ids) ==
  j \in DOMAIN x /\ x[j] = Said("assistant", ids) /\ \A k \in (j + 1)..Len(x) : x[k].role = "tool"
RoundOpen(r) ==
  /\ rq[r].at \in DOMAIN rq[r].reply
  /\ Answered(rq[r].exchange, Pending(r))
  /\ \E j \in DOMAIN rq[r].exchange : LastCalls(rq[r].exchange, j, {rq[r].round} \X DOMAIN rq[r].reply)
BetweenRounds == BeforeAsk \union {"model", "stream", "fallback"}
RoundsOf(r) ==
  /\ Follows(rq[r].exchange)
  /\ rq[r].pc \in BetweenRounds => Answered(rq[r].exchange, {}) /\ (rq[r].calls = {} => rq[r].exchange = <<>>)
  /\ rq[r].pc = "call" => RoundOpen(r)
  /\ rq[r].pc = "start" => rq[r].sent = <<>>
  /\ rq[r].type \in OpenAITypes /\ ~Unattached(r) => Follows(rq[r].sent) /\ Answered(rq[r].sent, {})
Rounds == \A r \in DOMAIN rq : RoundsOf(r)

-----------------------------------------------------------------------------
(* Places in a sequence *)

\* Counting some places up to each of them numbers them in their order.
LEMMA PlacesAreNumbered ==
  ASSUME NEW n \in Nat, NEW T, T \subseteq 1..n
  PROVE  /\ IsFiniteSet(T) /\ Cardinality(T) \in Nat
         /\ \A i \in T : UpTo(T, i) \in 1..Cardinality(T)
         /\ \A i, j \in T : i < j => UpTo(T, i) < UpTo(T, j)
         /\ \A k \in 1..Cardinality(T) : \E i \in T : UpTo(T, i) = k
<1> DEFINE Below(i) == {j \in T : j <= i}
<1>1. IsFiniteSet(T) /\ Cardinality(T) \in Nat
  BY FS_Interval, FS_Subset, FS_CardinalityType, 1 \in Int, n \in Int
<1>2. \A i \in T : IsFiniteSet(Below(i)) /\ Cardinality(Below(i)) \in 1..Cardinality(T)
  <2> TAKE i \in T
  <2>1. Below(i) \in SUBSET T /\ i \in Below(i)
    OBVIOUS
  <2> HIDE DEF Below
  <2>2. IsFiniteSet(Below(i)) /\ Cardinality(Below(i)) <= Cardinality(T)
    BY <1>1, <2>1, FS_Subset
  <2>3. Cardinality(Below(i)) \in Nat /\ Cardinality(Below(i)) # 0
    BY <2>1, <2>2, FS_CardinalityType, FS_EmptySet
  <2> QED  BY <1>1, <2>2, <2>3
<1>3. \A i, j \in T : i < j => Cardinality(Below(i)) < Cardinality(Below(j))
  <2> SUFFICES ASSUME NEW i \in T, NEW j \in T, i < j
               PROVE  Cardinality(Below(i)) < Cardinality(Below(j))
    OBVIOUS
  <2>1. Below(i) \in SUBSET Below(j) /\ j \in Below(j) /\ j \notin Below(i)
    <3>1. i \in Int /\ j \in Int /\ \A x \in T : x \in Int
      OBVIOUS
    <3>2. \A x \in T : x <= i => x <= j
      BY <3>1
    <3>3. j <= j /\ ~(j <= i)
      BY <3>1
    <3> QED  BY <3>2, <3>3
  <2>2. Below(i) # Below(j)
    BY <2>1
  <2> HIDE DEF Below
  <2>3. Cardinality(Below(i)) <= Cardinality(Below(j)) /\ Cardinality(Below(i)) # Cardinality(Below(j))
    BY <1>2, <2>1, <2>2, FS_Subset
  <2> QED  BY <1>2, <2>3
<1>4. \A k \in 1..Cardinality(T) : \E i \in T : Cardinality(Below(i)) = k
  <2> HIDE DEF Below
  <2> DEFINE count == [i \in T |-> Cardinality(Below(i))]
  <2>1. count \in Injection(T, 1..Cardinality(T))
    <3>1. count \in [T -> 1..Cardinality(T)]
      BY <1>2
    <3>2. \A i, j \in T : i # j => i < j \/ j < i
      OBVIOUS
    <3>3. \A i, j \in T : count[i] = count[j] => i = j
      BY <1>2, <1>3, <3>2
    <3> QED  BY <3>1, <3>3 DEF Injection, IsInjective
  <2>2. IsFiniteSet(1..Cardinality(T)) /\ Cardinality(1..Cardinality(T)) = Cardinality(T)
    BY <1>1, FS_Interval
  <2>3. count \in Surjection(T, 1..Cardinality(T))
    BY <2>1, <2>2, FS_Injection
  <2> QED  BY <2>3 DEF Surjection
<1> QED  BY <1>1, <1>2, <1>3, <1>4 DEF UpTo

\* Chosen has the elements at those places, each at its number.
LEMMA ChosenFacts ==
  ASSUME NEW M, NEW s \in Seq(M), NEW T, T \subseteq DOMAIN s
  PROVE  /\ Chosen(s, T) \in Seq(M)
         /\ \A i \in T : UpTo(T, i) \in DOMAIN Chosen(s, T) /\ Chosen(s, T)[UpTo(T, i)] = s[i]
         /\ \A i, j \in T : i < j => UpTo(T, i) < UpTo(T, j)
         /\ \A k \in DOMAIN Chosen(s, T) : \E i \in T : k = UpTo(T, i)
<1> DEFINE n == Cardinality(T)
           pick(k) == CHOOSE i \in T : UpTo(T, i) = k
<1>1. Len(s) \in Nat /\ DOMAIN s = 1..Len(s) /\ T \subseteq 1..Len(s)
  OBVIOUS
<1>2. /\ n \in Nat
      /\ \A i \in T : UpTo(T, i) \in 1..n
      /\ \A i, j \in T : i < j => UpTo(T, i) < UpTo(T, j)
      /\ \A k \in 1..n : \E i \in T : UpTo(T, i) = k
  BY <1>1, PlacesAreNumbered
<1>3. \A i, j \in T : UpTo(T, i) = UpTo(T, j) => i = j
  BY <1>1, <1>2
<1>4. \A i \in T : pick(UpTo(T, i)) = i
  BY <1>3
<1>5. \A k \in 1..n : pick(k) \in T
  BY <1>2
<1>6. Chosen(s, T) = [k \in 1..n |-> s[pick(k)]]
  BY DEF Chosen
<1>7. Chosen(s, T) \in [1..n -> M]
  BY <1>1, <1>5, <1>6
<1>8. Chosen(s, T) \in Seq(M) /\ DOMAIN Chosen(s, T) = 1..n
  BY <1>2, <1>6, <1>7, SeqDef
<1>9. \A i \in T : Chosen(s, T)[UpTo(T, i)] = s[i]
  BY <1>2, <1>4, <1>6
<1> QED  BY <1>2, <1>8, <1>9
-----------------------------------------------------------------------------
(* Types *)

LEMMA CommandFacts ==
  ASSUME TypeOK, NEW r \in DOMAIN rq
  PROVE  /\ cmd(r) \in Commands /\ cmd(r).conv \in Convs /\ r \in Ids /\ r \in Convs /\ rq[r] \in Request
         /\ r # None
         /\ cmd(r).kind \in Chats => cmd(r).conv \notin DOMAIN rq
         /\ \A n \in 0..(MaxRounds - 1) : \A reply \in cmd(r).replies[n] : reply \in Seq(AnyName)
<1>1. PICK s \in Scenarios : DOMAIN rq = DOMAIN s /\ \A q \in DOMAIN rq : cmd(q) = s[q]
  BY DEF TypeOK
<1>2. rq[r] \in Request
  BY DEF TypeOK
<1>3. r \in Ids /\ cmd(r) \in Commands
  BY <1>1, <1>2 DEF Ids, Commands
<1>4. r # None /\ (cmd(r).kind \in Chats => cmd(r).conv \notin DOMAIN rq)
  BY <1>1, ScenarioAssumption DEF Chats
<1>5. \A n \in 0..(MaxRounds - 1) : \A reply \in cmd(r).replies[n] : reply \in Seq(AnyName)
  BY <1>1, ScenarioAssumption DEF AnyName
<1> QED  BY <1>2, <1>3, <1>4, <1>5 DEF Convs

\* What one request becomes is well typed, and it is the only one to move.
LEMMA OneMoves ==
  ASSUME TypeOK, NEW r \in DOMAIN rq, NEW x \in Request, rq' = [rq EXCEPT ![r] = x],
         x.cmd = cmd(r), x.pc = "fallback" => x.round # MaxRounds,
         x.pc \notin {"start", "done"} => x.type # None, messages' \in Seq(Message)
  PROVE  TypeOK'
<1>1. /\ DOMAIN rq' = DOMAIN rq /\ rq'[r] = x /\ \A q \in DOMAIN rq : q # r => rq'[q] = rq[q]
      /\ rq' \in [DOMAIN rq' -> Request]
  BY DEF TypeOK
<1>2. \A q \in DOMAIN rq : cmd(q)' = cmd(q)
  BY <1>1 DEF cmd
<1> QED  BY <1>1, <1>2 DEF TypeOK

LEMMA AddedType ==
  ASSUME TypeOK, NEW r \in DOMAIN rq, NEW role \in {"user", "assistant"}
  PROVE  Added(r, role) \in Seq(Message)
<1>1. rq[r] \in Request /\ r \in Ids
  BY CommandFacts
<1>2. [conv |-> rq[r].conv, role |-> role, of |-> r] \in Message
  BY <1>1 DEF Message, Request
<1> QED  BY <1>2 DEF Added, TypeOK

LEMMA EarlyTypes ==
  ASSUME TypeOK, NEW r \in DOMAIN rq, Start(r) \/ Open(r) \/ Recall(r) \/ Ask(r)
  PROVE  TypeOK'
<1>1. rq[r] \in Request /\ rq[r].cmd = cmd(r) /\ r \in Convs /\ cmd(r).conv \in Convs
  BY CommandFacts DEF cmd
<1>2. messages \in Seq(Message) /\ (rq[r].pc \notin {"start", "done"} => rq[r].type # None)
  BY DEF TypeOK
<1>3. CASE Start(r)
  <2>1. messages' = messages
    BY <1>3 DEF Start
  <2>2. CASE \E out \in {"503", "500"} : Done(r, out)
    <3>1. PICK out \in {"503", "500"} : Done(r, out)
      BY <2>2
    <3> DEFINE x == [rq[r] EXCEPT !.pc = "done", !.out = out]
    <3>2. rq' = [rq EXCEPT ![r] = x]
      BY <3>1 DEF Done
    <3>3. x \in Request /\ x.cmd = cmd(r) /\ x.pc = "done"
      BY <1>1 DEF Request, Stages, Outcomes
    <3> QED  BY <1>2, <2>1, <3>2, <3>3, OneMoves
  <2>3. CASE \E type \in KnownTypes, names \in Given :
               rq' = [rq EXCEPT ![r].pc = "open", ![r].type = type, ![r].given = names]
    <3>1. PICK type \in KnownTypes, names \in Given :
               rq' = [rq EXCEPT ![r].pc = "open", ![r].type = type, ![r].given = names]
      BY <2>3
    <3> DEFINE x == [rq[r] EXCEPT !.pc = "open", !.type = type, !.given = names]
    <3>2. rq' = [rq EXCEPT ![r] = x]
      BY <3>1
    <3>3. names \in SUBSET ToolNames
      BY DEF Given
    <3>4. x \in Request /\ x.cmd = cmd(r) /\ x.pc = "open" /\ x.type # None
      BY <1>1, <3>3 DEF Request, Stages, KnownTypes, None
    <3> QED  BY <1>2, <2>1, <3>2, <3>4, OneMoves
  <2> DEFINE enabled == {p \in DOMAIN providers : providers[p].enabled}
             first == CHOOSE p \in enabled : \A q \in enabled : providers[p].rank <= providers[q].rank
             type == IF enabled = {} THEN cmd(r).env ELSE providers[first].type
  <2>4. CASE type = None
    <3>1. Done(r, "503")
      BY <1>3, <2>4 DEF Start
    <3> QED  BY <2>2, <3>1
  <2>5. CASE type \notin KnownTypes \union {None}
    <3>1. Done(r, "500")
      BY <1>3, <2>5 DEF Start
    <3> QED  BY <2>2, <3>1
  <2>6. CASE type # None /\ type \in KnownTypes
    <3>1. \E names \in Given : rq' = [rq EXCEPT ![r].pc = "open", ![r].type = type, ![r].given = names]
      BY <1>3, <2>6 DEF Start
    <3> HIDE DEF type
    <3> QED  BY <2>3, <2>6, <3>1
  <2> QED  BY <2>4, <2>5, <2>6
<1>4. CASE Open(r)
  <2>1. PICK conv \in Convs : rq' = [rq EXCEPT ![r].pc = "recall", ![r].conv = conv]
    BY <1>1, <1>4 DEF Open
  <2> DEFINE x == [rq[r] EXCEPT !.pc = "recall", !.conv = conv]
  <2>2. rq' = [rq EXCEPT ![r] = x]
    BY <2>1
  <2>3. x \in Request /\ x.cmd = cmd(r) /\ x.pc = "recall" /\ x.type # None
    BY <1>1, <1>2, <1>4 DEF Request, Stages, Open
  <2> QED  BY <1>2, <1>4, <2>2, <2>3, OneMoves DEF Open
<1>5. CASE Recall(r)
  <2>1. PICK T : T \subseteq DOMAIN messages /\ rq' = [rq EXCEPT ![r].pc = "ask", ![r].sees = Chosen(messages, T)]
    BY <1>5 DEF Recall, Stored
  <2>2. Chosen(messages, T) \in Seq(Message)
    BY <1>2, <2>1, ChosenFacts
  <2> DEFINE x == [rq[r] EXCEPT !.pc = "ask", !.sees = Chosen(messages, T)]
  <2>3. rq' = [rq EXCEPT ![r] = x]
    BY <2>1
  <2>4. x \in Request /\ x.cmd = cmd(r) /\ x.pc = "ask" /\ x.type # None
    BY <1>1, <1>2, <1>5, <2>2 DEF Request, Stages, Recall
  <2> QED  BY <1>2, <1>5, <2>3, <2>4, OneMoves DEF Recall
<1>6. CASE Ask(r)
  <2>1. PICK stage \in {"model", "stream"} : Go(r, stage)
    BY <1>6 DEF Ask
  <2> DEFINE x == [rq[r] EXCEPT !.pc = stage]
  <2>2. rq' = [rq EXCEPT ![r] = x]
    BY <2>1 DEF Go
  <2>3. x \in Request /\ x.cmd = cmd(r) /\ x.pc = stage /\ x.type # None
    BY <1>1, <1>2, <1>6 DEF Request, Stages, Ask
  <2> QED  BY <1>6, <2>2, <2>3, OneMoves, AddedType DEF Ask
<1> QED  BY <1>3, <1>4, <1>5, <1>6

LEMMA SentType ==
  ASSUME TypeOK, NEW r \in DOMAIN rq, rq[r].type # None
  PROVE  Conversation(r) \in Seq(Saying) /\ Sent(r) \in Seq(Saying) /\ Streamed(r) \in Seq(Saying)
<1>1. rq[r] \in Request
  BY CommandFacts
<1> DEFINE plain == [i \in DOMAIN rq[r].sees |-> Said(rq[r].sees[i].role, {})]
<1>2. plain \in Seq(Saying)
  <2>1. rq[r].sees \in Seq(Message)
    BY <1>1 DEF Request
  <2>2. Len(rq[r].sees) \in Nat /\ DOMAIN rq[r].sees = 1..Len(rq[r].sees)
    BY <2>1
  <2>3. \A i \in DOMAIN rq[r].sees : rq[r].sees[i] \in Message
    BY <2>1
  <2>4. \A i \in DOMAIN rq[r].sees : Said(rq[r].sees[i].role, {}) \in Saying
    BY <2>3 DEF Said, Saying, Message
  <2>5. plain \in [1..Len(rq[r].sees) -> Saying]
    BY <2>2, <2>4
  <2> HIDE DEF plain
  <2> QED  BY <2>2, <2>5, SeqDef
<1>3. <<Said("user", {})>> \in Seq(Saying) /\ rq[r].exchange \in Seq(Saying)
  BY <1>1 DEF Said, Saying, Request
<1>4. Conversation(r) \in Seq(Saying)
  <2> HIDE DEF plain
  <2>1. plain \o <<Said("user", {})>> \in Seq(Saying)
    BY <1>2, <1>3
  <2>2. (plain \o <<Said("user", {})>>) \o rq[r].exchange \in Seq(Saying)
    BY <1>3, <2>1
  <2> QED  BY <2>2 DEF Conversation, plain
<1>5. rq[r].type \in KnownTypes
  BY <1>1 DEF Request
<1>6. \A m \in Saying :
        /\ ToOpenAI(m) \in Saying /\ ToAnthropic(m) \in Saying
        /\ ToVertex(m) \in Saying /\ ToBedrock(m) \in Saying
  BY DEF ToOpenAI, ToAnthropic, ToVertex, ToBedrock, Said, Saying
<1> DEFINE all == Conversation(r)
           type == rq[r].type
           as(i) == CASE type \in OpenAITypes -> ToOpenAI(all[i])
                      [] type = "anthropic" -> ToAnthropic(all[i])
                      [] type = "vertex" -> ToVertex(all[i])
                      [] type = "bedrock" -> ToBedrock(all[i])
<1>7. \A i \in DOMAIN all : as(i) \in Saying
  BY <1>4, <1>5, <1>6 DEF KnownTypes, OpenAITypes
<1>8. Sent(r) = [i \in DOMAIN all |-> as(i)]
  BY DEF Sent
<1> HIDE DEF all, as
<1>9. Sent(r) \in Seq(Saying)
  <2>1. all \in Seq(Saying)
    BY <1>4 DEF all
  <2>2. Len(all) \in Nat /\ DOMAIN all = 1..Len(all)
    BY <2>1
  <2>3. Sent(r) \in [1..Len(all) -> Saying]
    BY <1>7, <1>8, <2>2
  <2> QED  BY <2>2, <2>3, SeqDef
<1>10. Streamed(r) \in Seq(Saying)
  <2>1. all \in Seq(Saying)
    BY <1>4 DEF all
  <2>2. Len(all) \in Nat /\ DOMAIN all = 1..Len(all) /\ \A i \in DOMAIN all : all[i] \in Saying
    BY <2>1
  <2>3. \A i \in DOMAIN all : Said(all[i].role, {}) \in Saying
    BY <2>2 DEF Said, Saying
  <2> DEFINE plainly == [i \in DOMAIN all |-> Said(all[i].role, {})]
  <2>4. plainly \in [1..Len(all) -> Saying]
    BY <2>2, <2>3
  <2>5. Streamed(r) = plainly \/ Streamed(r) = Sent(r)
    BY DEF Streamed, all
  <2> HIDE DEF plainly
  <2>6. plainly \in Seq(Saying)
    BY <2>2, <2>4, SeqDef
  <2> QED  BY <1>9, <2>5, <2>6
<1> QED  BY <1>4, <1>9, <1>10

LEMMA TakeTypes ==
  ASSUME TypeOK, NEW r \in DOMAIN rq, NEW reply \in Replies(r), Take(r, reply), messages' = messages,
         rq[r].round # MaxRounds, rq[r].pc \notin {"start", "done"}
  PROVE  TypeOK'
<1>1. /\ rq[r] \in Request /\ rq[r].cmd = cmd(r) /\ messages' \in Seq(Message) /\ rq[r].type # None
      /\ Sent(r) \in Seq(Saying)
  BY CommandFacts, SentType DEF TypeOK, cmd
<1>2. CASE reply = <<>>
  <2> DEFINE x == [rq[r] EXCEPT !.pc = "save", !.text = TRUE, !.sent = Sent(r), !.api = "chat"]
  <2>1. rq' = [rq EXCEPT ![r] = x]
    BY <1>2 DEF Take, AfterText
  <2>2. x \in Request /\ x.cmd = cmd(r) /\ x.pc = "save" /\ x.type # None
    BY <1>1 DEF Request, Stages
  <2> QED  BY <1>1, <2>1, <2>2, OneMoves
<1>3. CASE reply # <<>>
  <2>1. rq[r].round \in 0..(MaxRounds - 1) /\ Round(rq[r].round) \in 0..MaxRounds
    BY <1>1, BoundsAssumption DEF Request, Round
  <2>2. reply \in Seq(AnyName)
    BY <1>3, <2>1, CommandFacts DEF Replies
  <2> DEFINE said == Said("assistant", {Round(rq[r].round)} \X DOMAIN reply)
             x == [rq[r] EXCEPT !.pc = "call", !.reply = reply, !.at = 1, !.round = Round(@),
                   !.exchange = Append(@, said), !.sent = Sent(r), !.api = "chat"]
  <2>3. said \in Saying
    BY <2>1, <2>2 DEF Said, Saying
  <2>4. Append(rq[r].exchange, said) \in Seq(Saying)
    <3> HIDE DEF said
    <3> QED  BY <1>1, <2>3 DEF Request
  <2>5. rq' = [rq EXCEPT ![r] = x]
    BY <1>3 DEF Take, AfterText
  <2> HIDE DEF said
  <2>6. x \in Request /\ x.cmd = cmd(r) /\ x.pc = "call" /\ x.type # None
    BY <1>1, <2>1, <2>2, <2>4 DEF Request, Stages
  <2> QED  BY <1>1, <2>5, <2>6, OneMoves
<1> QED  BY <1>2, <1>3

LEMMA DoneTypes ==
  ASSUME TypeOK, NEW r \in DOMAIN rq, NEW out \in Outcomes, Done(r, out), messages' \in Seq(Message)
  PROVE  TypeOK'
<1> DEFINE x == [rq[r] EXCEPT !.pc = "done", !.out = out]
<1>1. rq' = [rq EXCEPT ![r] = x]
  BY DEF Done
<1>2. x \in Request /\ x.cmd = cmd(r) /\ x.pc = "done"
  <2>1. rq[r] \in Request /\ rq[r].cmd = cmd(r)
    BY CommandFacts DEF cmd
  <2> QED  BY <2>1 DEF Request, Stages
<1> QED  BY <1>1, <1>2, OneMoves

LEMMA LoopTypes ==
  ASSUME TypeOK, NEW r \in DOMAIN rq, Model(r) \/ Stream(r) \/ Fallback(r)
  PROVE  TypeOK'
<1>1. /\ rq[r] \in Request /\ rq[r].cmd = cmd(r) /\ messages' = messages /\ messages' \in Seq(Message)
      /\ rq[r].pc \in {"model", "stream", "fallback"} /\ rq[r].type # None
  BY CommandFacts DEF TypeOK, cmd, Model, Stream, Fallback
<1>2. CASE \E reply \in Replies(r) : Take(r, reply) /\ rq[r].round # MaxRounds
  BY <1>1, <1>2, TakeTypes
<1>3. CASE \E out \in {"502", "503", "broken"} : Done(r, out)
  BY <1>1, <1>3, DoneTypes DEF Outcomes
<1>4. CASE Go(r, "save")
  <2> DEFINE x == [rq[r] EXCEPT !.pc = "save"]
  <2>1. rq' = [rq EXCEPT ![r] = x]
    BY <1>4 DEF Go
  <2>2. x \in Request /\ x.cmd = cmd(r) /\ x.pc = "save" /\ x.type # None
    BY <1>1 DEF Request, Stages
  <2> QED  BY <1>1, <2>1, <2>2, OneMoves
<1>5. CASE Stream(r) /\ rq[r].round # MaxRounds
  <2>1. rq[r].round \in 0..(MaxRounds - 1) /\ Round(rq[r].round) \in 0..MaxRounds
    BY <1>1, <1>5, BoundsAssumption DEF Request, Round
  <2>2. PICK text \in BOOLEAN :
          LET state == [rq[r] EXCEPT !.text = @ \/ text, !.sent = Streamed(r), !.api = "chat_stream"]
          IN \/ rq' = [rq EXCEPT ![r] = [state EXCEPT !.pc = "save"]]
             \/ rq' = [rq EXCEPT ![r] = [state EXCEPT !.round = Round(@)]]
             \/ rq' = [rq EXCEPT ![r] = [state EXCEPT !.pc = "fallback"]]
    BY <1>5 DEF Stream
  <2> DEFINE said == rq[r].text \/ text
             state == [rq[r] EXCEPT !.text = said, !.sent = Streamed(r), !.api = "chat_stream"]
  <2>3. state \in Request /\ state.cmd = cmd(r) /\ state.type # None /\ state.pc = "stream"
        /\ state.round = rq[r].round
    <3>1. said \in BOOLEAN /\ Streamed(r) \in Seq(Saying)
      BY <1>1, SentType DEF Request
    <3> HIDE DEF said
    <3> QED  BY <1>1, <1>5, <3>1 DEF Request, Stream
  <2>4. \E x \in {[state EXCEPT !.pc = "save"], [state EXCEPT !.round = Round(@)],
                  [state EXCEPT !.pc = "fallback"]} : rq' = [rq EXCEPT ![r] = x]
    BY <2>2
  <2> HIDE DEF state
  <2>5. \A x \in {[state EXCEPT !.pc = "save"], [state EXCEPT !.round = Round(@)],
                  [state EXCEPT !.pc = "fallback"]} :
          /\ x \in Request /\ x.cmd = cmd(r) /\ x.type # None
          /\ x.pc = "fallback" => x.round # MaxRounds
    <3>1. [state EXCEPT !.pc = "save"] \in Request
      BY <2>3 DEF Request, Stages
    <3>2. [state EXCEPT !.pc = "fallback"] \in Request
      BY <2>3 DEF Request, Stages
    <3>3. [state EXCEPT !.round = Round(@)] \in Request
      BY <2>1, <2>3 DEF Request
    <3>4. DOMAIN state = DOMAIN [state EXCEPT !.pc = "save"] /\ {"cmd", "type", "pc", "round"} \subseteq DOMAIN state
      BY <2>3 DEF Request
    <3> QED  BY <1>5, <2>3, <3>1, <3>2, <3>3, <3>4
  <2> QED  BY <1>1, <2>4, <2>5, OneMoves
<1>6. CASE Model(r)
  BY <1>2, <1>3, <1>4, <1>6 DEF Model
<1>7. CASE Stream(r)
  BY <1>4, <1>5, <1>7 DEF Stream
<1>8. CASE Fallback(r)
  <2>1. rq[r].round # MaxRounds
    BY <1>8 DEF TypeOK, Fallback
  <2> QED  BY <1>2, <1>3, <1>8, <2>1 DEF Fallback
<1> QED  BY <1>6, <1>7, <1>8

LEMMA CallTypes ==
  ASSUME TypeOK, Rounds, NEW r \in DOMAIN rq, Call(r)
  PROVE  TypeOK'
<1>1. /\ rq[r] \in Request /\ rq[r].cmd = cmd(r) /\ messages' \in Seq(Message)
      /\ rq[r].pc = "call" /\ rq[r].type # None
  BY CommandFacts DEF TypeOK, cmd, Call
<1> DEFINE name == rq[r].reply[rq[r].at]
           last == rq[r].at = Len(rq[r].reply)
           ran == Granted(cmd(r), MeaningOf(name).required)
           called == [name |-> name, ran |-> ran]
           answer == Said("tool", {<<rq[r].round, rq[r].at>>})
           next == IF ~last THEN "call" ELSE IF cmd(r).kind = "chat" THEN "model" ELSE "stream"
<1>2. CASE MustConfirm(r, name)
  <2> DEFINE x == [rq[r] EXCEPT !.pc = "save", !.text = TRUE]
  <2>1. rq' = [rq EXCEPT ![r] = x]
    BY <1>2 DEF Call
  <2>2. x \in Request /\ x.cmd = cmd(r) /\ x.pc = "save" /\ x.type # None
    BY <1>1 DEF Request, Stages
  <2> QED  BY <1>1, <2>1, <2>2, OneMoves
<1>3. CASE ~MustConfirm(r, name)
  <2>1. rq[r].at \in DOMAIN rq[r].reply /\ rq[r].reply \in Seq(AnyName) /\ rq[r].round \in Nat /\ rq[r].at \in Nat
    <3>1. rq[r].at \in DOMAIN rq[r].reply
      BY <1>1 DEF Rounds, RoundsOf, RoundOpen
    <3>2. rq[r].reply \in Seq(AnyName) /\ rq[r].round \in 0..MaxRounds /\ rq[r].at \in Nat
      BY <1>1 DEF Request
    <3> QED  BY <3>1, <3>2, BoundsAssumption
  <2>2. called \in Called
    BY <2>1 DEF Called, Granted, Allowed, RoleAllows
  <2>3. answer \in Saying
    BY <2>1 DEF Said, Saying
  <2>4. Append(rq[r].exchange, answer) \in Seq(Saying)
    <3> HIDE DEF answer
    <3> QED  BY <1>1, <2>3 DEF Request
  <2> DEFINE x == [rq[r] EXCEPT !.calls = @ \union {called}, !.exchange = Append(@, answer),
                     !.at = IF last THEN 0 ELSE @ + 1, !.reply = IF last THEN <<>> ELSE @, !.pc = next]
  <2>5. rq' = [rq EXCEPT ![r] = x]
    BY <1>3 DEF Call
  <2>6. next \in Stages \ {"fallback"}
    BY DEF Stages
  <2> HIDE DEF answer, called, next, last
  <2>7. x \in Request /\ x.cmd = cmd(r) /\ x.pc # "fallback" /\ x.type # None
    <3> DEFINE calls == rq[r].calls \union {called}
               at == IF last THEN 0 ELSE rq[r].at + 1
               reply == IF last THEN <<>> ELSE rq[r].reply
    <3>1. calls \in SUBSET Called /\ at \in Nat /\ reply \in Seq(AnyName)
      BY <1>1, <2>1, <2>2 DEF Request
    <3>2. x = [rq[r] EXCEPT !.calls = calls, !.exchange = Append(rq[r].exchange, answer),
                 !.at = at, !.reply = reply, !.pc = next]
      OBVIOUS
    <3> HIDE DEF calls, at, reply, x
    <3> QED  BY <1>1, <2>4, <2>6, <3>1, <3>2 DEF Request
  <2> QED  BY <1>1, <2>5, <2>7, OneMoves
<1> QED  BY <1>2, <1>3

LEMMA LateTypes ==
  ASSUME TypeOK, NEW r \in DOMAIN rq, Save(r) \/ DeleteConversation(r) \/ SetProvider(r) \/ Break(r)
  PROVE  TypeOK'
<1>1. \E out \in Outcomes : Done(r, out)
  BY DEF Save, DeleteConversation, SetProvider, Break, Outcomes
<1>2. messages' \in Seq(Message)
  <2>1. messages \in Seq(Message)
    BY DEF TypeOK
  <2>2. messages' = messages \/ messages' = Added(r, "assistant")
        \/ \E T : T \subseteq DOMAIN messages /\ messages' = Chosen(messages, T)
    BY DEF Save, DeleteConversation, SetProvider, Break
  <2> QED  BY <2>1, <2>2, AddedType, ChosenFacts
<1> QED  BY <1>1, <1>2, DoneTypes

LEMMA StepTypes == TypeOK /\ Rounds /\ [Next]_vars => TypeOK'
<1>1. ASSUME TypeOK, UNCHANGED vars  PROVE TypeOK'
  BY <1>1 DEF TypeOK, vars, cmd
<1> QED  BY <1>1, EarlyTypes, LoopTypes, CallTypes, LateTypes DEF Next, Progress, Step

-----------------------------------------------------------------------------
(* The conversations kept *)

\* What a step does to its request, and that it does nothing to others.
Alone(r) ==
  /\ DOMAIN rq' = DOMAIN rq /\ \A q \in DOMAIN rq : q # r => rq'[q] = rq[q]
  /\ \A q \in DOMAIN rq : cmd(q)' = cmd(q)

\* A step that leaves the conversations and what is said in them alone.
Quiet(r) ==
  /\ Alone(r) /\ messages' = messages /\ conversations' = conversations /\ rq'[r].conv = rq[r].conv
  /\ \/ /\ cmd(r).kind \in Chats /\ rq'[r].out = rq[r].out
        /\ \/ rq[r].pc \in BeforeAsk /\ rq'[r].pc \in BeforeAsk
           \/ rq[r].pc \in Answering /\ rq'[r].pc \in Answering
     \/ /\ rq[r].pc # "done" /\ rq'[r].pc = "done" /\ (rq'[r].out # "ok" \/ cmd(r).kind \notin Chats)

LEMMA AloneFacts ==
  ASSUME TypeOK, NEW r \in DOMAIN rq, NEW x, rq' = [rq EXCEPT ![r] = x], x.cmd = cmd(r)
  PROVE  Alone(r) /\ rq'[r] = x
  BY DEF TypeOK, Alone, cmd

LEMMA QuietDone ==
  ASSUME TypeOK, NEW r \in DOMAIN rq, NEW out, Done(r, out), out # "ok" \/ cmd(r).kind \notin Chats,
         rq[r].pc # "done", messages' = messages, conversations' = conversations
  PROVE  Quiet(r)
<1> DEFINE x == [rq[r] EXCEPT !.pc = "done", !.out = out]
<1>1. rq[r] \in Request /\ rq[r].cmd = cmd(r)
  BY CommandFacts DEF cmd
<1>2. rq' = [rq EXCEPT ![r] = x]
  BY DEF Done
<1>3. x.cmd = cmd(r) /\ x.pc = "done" /\ x.out = out /\ x.conv = rq[r].conv
  BY <1>1 DEF Request
<1> HIDE DEF x
<1> QED  BY <1>2, <1>3, AloneFacts DEF Quiet

LEMMA QuietSteps ==
  ASSUME TypeOK, Apart, NEW r \in DOMAIN rq,
         Start(r) \/ Recall(r) \/ Model(r) \/ Stream(r) \/ Fallback(r) \/ Call(r) \/ SetProvider(r) \/ Break(r)
  PROVE  Quiet(r)
<1>1. rq[r] \in Request /\ rq[r].cmd = cmd(r)
  BY CommandFacts DEF cmd
<1>2. messages' = messages /\ conversations' = conversations
  BY DEF Start, Recall, Model, Stream, Fallback, Call, SetProvider, Break
<1>3. CASE \E out : Done(r, out) /\ (out # "ok" \/ cmd(r).kind \notin Chats) /\ rq[r].pc # "done"
  BY <1>2, <1>3, QuietDone
<1>4. ASSUME NEW x, rq' = [rq EXCEPT ![r] = x], x.cmd = rq[r].cmd, x.out = rq[r].out, x.conv = rq[r].conv,
             cmd(r).kind \in Chats,
             \/ rq[r].pc \in BeforeAsk /\ x.pc \in BeforeAsk
             \/ rq[r].pc \in Answering /\ x.pc \in Answering
      PROVE  Quiet(r)
  BY <1>1, <1>2, <1>4, AloneFacts DEF Quiet
<1>5. CASE Start(r)
  <2>1. CASE \E out \in {"503", "500"} : Done(r, out)
    BY <1>3, <1>5, <2>1 DEF Start
  <2>2. ASSUME NEW t, NEW names, rq' = [rq EXCEPT ![r].pc = "open", ![r].type = t, ![r].given = names]
        PROVE  Quiet(r)
    <3> DEFINE x == [rq[r] EXCEPT !.pc = "open", !.type = t, !.given = names]
    <3>1. rq' = [rq EXCEPT ![r] = x]
      BY <2>2
    <3>2. x.cmd = rq[r].cmd /\ x.out = rq[r].out /\ x.conv = rq[r].conv /\ x.pc = "open"
      BY <1>1 DEF Request
    <3> HIDE DEF x
    <3> QED  BY <1>4, <1>5, <3>1, <3>2 DEF Start, BeforeAsk, x
  <2> DEFINE enabled == {p \in DOMAIN providers : providers[p].enabled}
             first == CHOOSE p \in enabled : \A q \in enabled : providers[p].rank <= providers[q].rank
             type == IF enabled = {} THEN cmd(r).env ELSE providers[first].type
  <2>3. CASE type = None \/ type \notin KnownTypes \union {None}
    <3>1. Done(r, "503") \/ Done(r, "500")
      BY <1>5, <2>3 DEF Start
    <3> QED  BY <2>1, <3>1
  <2>4. CASE type # None /\ type \in KnownTypes
    <3>1. PICK names \in Given : rq' = [rq EXCEPT ![r].pc = "open", ![r].type = type, ![r].given = names]
      BY <1>5, <2>4 DEF Start
    <3> HIDE DEF type
    <3> QED  BY <2>2, <3>1
  <2> QED  BY <2>3, <2>4
<1>6. CASE Recall(r)
  <2>1. PICK sees : rq' = [rq EXCEPT ![r] = [rq[r] EXCEPT !.pc = "ask", !.sees = sees]]
    BY <1>6 DEF Recall
  <2> DEFINE x == [rq[r] EXCEPT !.pc = "ask", !.sees = sees]
  <2>2. x.cmd = rq[r].cmd /\ x.out = rq[r].out /\ x.conv = rq[r].conv /\ x.pc = "ask"
    BY <1>1 DEF Request
  <2> HIDE DEF x
  <2> QED  BY <1>4, <1>6, <2>1, <2>2 DEF Apart, Recall, BeforeAsk, x
<1>7. CASE \E reply : Take(r, reply) /\ rq[r].pc \in Answering
  <2>1. PICK reply : Take(r, reply)
    BY <1>7
  <2>2. PICK x : /\ rq' = [rq EXCEPT ![r] = x] /\ x.pc \in {"save", "call"}
                 /\ x.cmd = rq[r].cmd /\ x.out = rq[r].out /\ x.conv = rq[r].conv
    <3>1. CASE reply = <<>>
      <4> DEFINE x == [rq[r] EXCEPT !.pc = "save", !.text = TRUE, !.sent = Sent(r), !.api = "chat"]
      <4>1. x.pc = "save" /\ x.cmd = rq[r].cmd /\ x.out = rq[r].out /\ x.conv = rq[r].conv
        BY <1>1 DEF Request
      <4>2. rq' = [rq EXCEPT ![r] = x]
        BY <2>1, <3>1 DEF Take, AfterText
      <4> QED  BY <4>1, <4>2
    <3>2. CASE reply # <<>>
      <4> DEFINE said == Said("assistant", {Round(rq[r].round)} \X DOMAIN reply)
                 x == [rq[r] EXCEPT !.pc = "call", !.reply = reply, !.at = 1, !.round = Round(@),
                       !.exchange = Append(@, said), !.sent = Sent(r), !.api = "chat"]
      <4>1. x.pc = "call" /\ x.cmd = rq[r].cmd /\ x.out = rq[r].out /\ x.conv = rq[r].conv
        <5> HIDE DEF said
        <5> QED  BY <1>1 DEF Request
      <4>2. rq' = [rq EXCEPT ![r] = x]
        BY <2>1, <3>2 DEF Take, AfterText
      <4> QED  BY <4>1, <4>2
    <3> QED  BY <3>1, <3>2
  <2> QED  BY <1>4, <1>7, <2>2 DEF Apart, Answering
<1>8. CASE Go(r, "save") /\ rq[r].pc \in {"model", "stream"}
  <2> DEFINE x == [rq[r] EXCEPT !.pc = "save"]
  <2>1. x.cmd = rq[r].cmd /\ x.out = rq[r].out /\ x.conv = rq[r].conv /\ x.pc = "save"
    BY <1>1 DEF Request
  <2>2. rq' = [rq EXCEPT ![r] = x]
    BY <1>8 DEF Go
  <2> HIDE DEF x
  <2> QED  BY <1>4, <1>8, <2>1, <2>2 DEF Apart, Answering
<1>9. CASE Stream(r) /\ rq[r].round # MaxRounds
  <2>1. PICK text \in BOOLEAN :
          LET state == [rq[r] EXCEPT !.text = @ \/ text, !.sent = Streamed(r), !.api = "chat_stream"]
          IN \/ rq' = [rq EXCEPT ![r] = [state EXCEPT !.pc = "save"]]
             \/ rq' = [rq EXCEPT ![r] = [state EXCEPT !.round = Round(@)]]
             \/ rq' = [rq EXCEPT ![r] = [state EXCEPT !.pc = "fallback"]]
    BY <1>9 DEF Stream
  <2> DEFINE state == [rq[r] EXCEPT !.text = @ \/ text, !.sent = Streamed(r), !.api = "chat_stream"]
  <2>2. \E x \in {[state EXCEPT !.pc = "save"], [state EXCEPT !.round = Round(@)],
                  [state EXCEPT !.pc = "fallback"]} : rq' = [rq EXCEPT ![r] = x]
    BY <2>1
  <2>3. \A x \in {[state EXCEPT !.pc = "save"], [state EXCEPT !.round = Round(@)],
                  [state EXCEPT !.pc = "fallback"]} :
          x.cmd = rq[r].cmd /\ x.out = rq[r].out /\ x.conv = rq[r].conv /\ x.pc \in {"save", "stream", "fallback"}
    BY <1>1, <1>9 DEF Request, Stream
  <2> HIDE DEF state
  <2> QED  BY <1>4, <1>9, <2>2, <2>3 DEF Apart, Answering, Stream
<1>10. CASE Call(r)
  <2> DEFINE name == rq[r].reply[rq[r].at]
             last == rq[r].at = Len(rq[r].reply)
             called == [name |-> name, ran |-> Granted(cmd(r), MeaningOf(name).required)]
             answer == Said("tool", {<<rq[r].round, rq[r].at>>})
             next == IF ~last THEN "call" ELSE IF cmd(r).kind = "chat" THEN "model" ELSE "stream"
             x == [rq[r] EXCEPT !.pc = "save", !.text = TRUE]
             y == [rq[r] EXCEPT !.calls = @ \union {called}, !.exchange = Append(@, answer),
                     !.at = IF last THEN 0 ELSE @ + 1, !.reply = IF last THEN <<>> ELSE @, !.pc = next]
  <2>1. next \in Answering
    BY DEF Answering
  <2>2. rq' = [rq EXCEPT ![r] = x] \/ rq' = [rq EXCEPT ![r] = y]
    BY <1>10 DEF Call
  <2> HIDE DEF answer, called, next, last
  <2>3. \A z \in {x, y} : z.cmd = rq[r].cmd /\ z.out = rq[r].out /\ z.conv = rq[r].conv /\ z.pc \in Answering
    BY <1>1, <2>1 DEF Request, Answering
  <2> HIDE DEF x, y
  <2> QED  BY <1>4, <1>10, <2>2, <2>3 DEF Apart, Call, Answering
<1>11. CASE SetProvider(r)
  BY <1>3, <1>11 DEF SetProvider, Chats
<1>12. CASE Break(r)
  BY <1>3, <1>12 DEF Break
<1>13. CASE Model(r)
  BY <1>3, <1>7, <1>8, <1>13 DEF Model, Answering
<1>14. CASE Stream(r)
  BY <1>8, <1>9, <1>14 DEF Stream
<1>15. CASE Fallback(r)
  BY <1>3, <1>7, <1>15 DEF Fallback, Answering
<1> QED  BY <1>5, <1>6, <1>10, <1>11, <1>12, <1>13, <1>14, <1>15

\* A request that stays as it is in the conversation it has.
LEMMA OthersKeep ==
  ASSUME NEW q \in DOMAIN rq, Turn(q), rq'[q].conv = rq[q].conv, cmd(q)' = cmd(q),
         rq'[q].conv \in DOMAIN conversations' => rq[q].conv \in DOMAIN conversations,
         rq'[q].conv \in DOMAIN conversations' => \A role : Has(q, role) => Has(q, role)',
         rq'[q].pc \in Answering => rq[q].pc \in Answering,
         Replied(q)' => rq'[q] = rq[q]
  PROVE  Turn(q)'
  BY DEF Turn, Replied

LEMMA QuietKeeps ==
  ASSUME TypeOK, Apart, Kept, NEW r \in DOMAIN rq, Quiet(r)
  PROVE  Apart' /\ Kept'
<1>1. Alone(r) /\ messages' = messages /\ conversations' = conversations /\ rq'[r].conv = rq[r].conv
      /\ DOMAIN rq' = DOMAIN rq
  BY DEF Quiet, Alone
<1>2. ASSUME NEW q \in DOMAIN rq
      PROVE  /\ rq'[q].conv = rq[q].conv /\ cmd(q)' = cmd(q)
             /\ rq[q].pc \in Answering \union {"done"} => rq'[q].pc \in Answering \union {"done"}
             /\ rq[q].pc = "done" => rq'[q].pc = "done"
             /\ rq'[q].pc \in Answering => rq[q].pc \in Answering
             /\ rq'[q].pc \notin {"start", "done"} => cmd(q).kind \in Chats
             /\ rq'[q].pc # "done" => rq'[q].out = None
             /\ rq'[q].out = "ok" /\ cmd(q).kind \in Chats => rq'[q] = rq[q]
  <2>1. CASE q = r
    BY <1>1, <2>1 DEF Quiet, Alone, Apart, BeforeAsk, Answering, None
  <2>2. CASE q # r
    BY <1>1, <2>2 DEF Alone, Apart
  <2> QED  BY <2>1, <2>2
<1>3. Apart'
  BY <1>1, <1>2 DEF Apart
<1>4. \A q, role : Has(q, role)' = Has(q, role)
  BY <1>1 DEF Has
<1>5. ASSUME NEW i \in DOMAIN messages  PROVE Stands(i)'
  BY <1>1, <1>2 DEF Kept, Stands, Asked
<1>6. ASSUME NEW q \in DOMAIN rq  PROVE Turn(q)'
  <2>1. Replied(q)' => rq'[q] = rq[q]
    BY <1>2 DEF Replied
  <2> QED  BY <1>1, <1>2, <1>4, <2>1, OthersKeep DEF Kept
<1>7. \A i, j \in DOMAIN messages' :
        messages'[i].of = messages'[j].of /\ messages'[i].role = messages'[j].role => i = j
  BY <1>1 DEF Kept
<1> QED  BY <1>1, <1>3, <1>5, <1>6, <1>7 DEF Kept

LEMMA OpenKeeps ==
  ASSUME TypeOK, Apart, Kept, NEW r \in DOMAIN rq, Open(r)
  PROVE  Apart' /\ Kept'
<1>1. rq[r] \in Request /\ rq[r].cmd = cmd(r) /\ r # None /\ rq[r].pc = "open" /\ cmd(r).kind \in Chats
      /\ cmd(r).conv \notin DOMAIN rq /\ rq[r].out = None
  BY CommandFacts DEF cmd, Open, Apart
<1>2. PICK conv : /\ rq' = [rq EXCEPT ![r].pc = "recall", ![r].conv = conv]
                  /\ \/ conv = r /\ DOMAIN conversations' = DOMAIN conversations \union {r}
                     \/ conv = cmd(r).conv /\ conversations' = conversations
  BY DEF Open
<1> DEFINE x == [rq[r] EXCEPT !.pc = "recall", !.conv = conv]
<1>3. x.cmd = cmd(r) /\ x.conv = conv /\ x.pc = "recall" /\ x.out = None
  BY <1>1 DEF Request
<1>4. Alone(r) /\ rq'[r] = x /\ messages' = messages
  BY <1>2, <1>3, AloneFacts DEF Open
<1> HIDE DEF x
<1>5. \A q \in DOMAIN rq : q # r => rq[q].conv # r
  BY DEF Apart
<1>6. \A i \in DOMAIN messages : messages[i].of # r
  BY <1>1 DEF Kept, Stands, Answering
<1>7. /\ DOMAIN rq' = DOMAIN rq /\ DOMAIN conversations \subseteq DOMAIN conversations'
      /\ \A q \in DOMAIN rq : cmd(q)' = cmd(q) /\ (q # r => rq'[q] = rq[q])
      /\ \A q \in DOMAIN rq : q # r => (rq[q].conv \in DOMAIN conversations' => rq[q].conv \in DOMAIN conversations)
  BY <1>2, <1>4, <1>5 DEF Alone
<1>8. Apart'
  <2>1. ASSUME NEW q \in DOMAIN rq
        PROVE  /\ \A p \in DOMAIN rq : p # q => rq'[q].conv # p
               /\ rq'[q].pc \notin {"start", "done"} => cmd(q).kind \in Chats
               /\ rq'[q].pc # "done" => rq'[q].out = None
    <3>1. CASE q = r
      BY <1>1, <1>2, <1>3, <1>4, <3>1
    <3>2. CASE q # r
      BY <1>7, <3>2 DEF Apart
    <3> QED  BY <3>1, <3>2
  <2> QED  BY <1>7, <2>1 DEF Apart
<1>9. \A q, role : Has(q, role)' = Has(q, role)
  BY <1>4 DEF Has
<1>10. ASSUME NEW i \in DOMAIN messages  PROVE Stands(i)'
  BY <1>4, <1>6, <1>7 DEF Kept, Stands, Asked
<1>11. ASSUME NEW q \in DOMAIN rq  PROVE Turn(q)'
  <2>1. CASE q = r
    BY <1>3, <1>4, <2>1 DEF Turn, Replied, Answering, None
  <2>2. CASE q # r
    BY <1>7, <1>9, <2>2, OthersKeep DEF Kept, Replied
  <2> QED  BY <2>1, <2>2
<1>12. \A i, j \in DOMAIN messages' :
        messages'[i].of = messages'[j].of /\ messages'[i].role = messages'[j].role => i = j
  BY <1>4 DEF Kept
<1> QED  BY <1>4, <1>7, <1>8, <1>10, <1>11, <1>12 DEF Kept

\* A question or an answer is added at the end, unless the conversation is gone.
LEMMA Adds ==
  ASSUME TypeOK, NEW r \in DOMAIN rq, NEW role, messages' = Added(r, role)
  PROVE  /\ rq[r].conv \notin DOMAIN conversations <=> messages' = messages
         /\ rq[r].conv \in DOMAIN conversations =>
              /\ DOMAIN messages' = 1..(Len(messages) + 1) /\ DOMAIN messages = 1..Len(messages)
              /\ Len(messages) \in Nat
              /\ \A i \in DOMAIN messages : messages'[i] = messages[i]
              /\ messages'[Len(messages) + 1] = [conv |-> rq[r].conv, role |-> role, of |-> r]
<1>1. messages \in Seq(Message)
  BY DEF TypeOK
<1> DEFINE m == [conv |-> rq[r].conv, role |-> role, of |-> r]
<1>2. rq[r].conv \in DOMAIN conversations => messages' = Append(messages, m)
  BY DEF Added
<1> HIDE DEF m
<1>3. Append(messages, m) # messages
  <2>1. Len(Append(messages, m)) = Len(messages) + 1 /\ Len(messages) \in Nat
    BY <1>1
  <2> QED  BY <2>1
<1>4. rq[r].conv \in DOMAIN conversations =>
              /\ DOMAIN messages' = 1..(Len(messages) + 1) /\ DOMAIN messages = 1..Len(messages)
              /\ Len(messages) \in Nat
              /\ \A i \in DOMAIN messages : messages'[i] = messages[i]
              /\ messages'[Len(messages) + 1] = m
  BY <1>1, <1>2
<1> QED  BY <1>2, <1>3, <1>4 DEF Added, m

\* What adding the question or the answer of r does to the conversations kept.
LEMMA AddKeeps ==
  ASSUME TypeOK, Apart, Kept, NEW r \in DOMAIN rq, NEW role \in {"user", "assistant"},
         \/ messages' = Added(r, role)
         \/ messages' = messages /\ cmd(r).kind # "chat" /\ ~rq[r].text /\ role = "assistant",
         Alone(r), conversations' = conversations, rq'[r].conv = rq[r].conv, rq'[r].text = rq[r].text,
         cmd(r).kind \in Chats,
         IF role = "user" THEN rq[r].pc = "ask" /\ rq'[r].pc \in Answering /\ rq'[r].out = None
                          ELSE rq[r].pc = "save" /\ rq'[r].pc = "done" /\ rq'[r].out = "ok"
  PROVE  Apart' /\ Kept'
<1>1. /\ DOMAIN rq' = DOMAIN rq
      /\ \A q \in DOMAIN rq : cmd(q)' = cmd(q) /\ rq'[q].conv = rq[q].conv
      /\ \A q \in DOMAIN rq : q # r => rq'[q] = rq[q]
  BY DEF Alone
<1>2. Apart'
  <2>1. rq'[r].pc # "done" => rq'[r].out = None
    OBVIOUS
  <2> QED  BY <1>1, <2>1 DEF Apart
<1>3. \A q \in DOMAIN rq : /\ rq[q].pc \in Answering \union {"done"} => rq'[q].pc \in Answering \union {"done"}
                          /\ rq[q].pc = "done" => rq'[q].pc = "done"
  BY <1>1 DEF Answering
<1>4. CASE messages' = messages
  <2>1. rq[r].conv \notin DOMAIN conversations \/ (role = "assistant" /\ cmd(r).kind # "chat" /\ ~rq[r].text)
    BY <1>4, Adds
  <2>2. \A q, a : Has(q, a)' = Has(q, a)
    BY <1>4 DEF Has
  <2>3. ASSUME NEW i \in DOMAIN messages  PROVE Stands(i)'
    BY <1>1, <1>3, <1>4 DEF Kept, Stands, Asked
  <2>4. ASSUME NEW q \in DOMAIN rq  PROVE Turn(q)'
    <3>1. CASE q = r /\ rq[r].conv \notin DOMAIN conversations
      BY <1>1, <3>1 DEF Turn
    <3>2. CASE q = r /\ rq[r].conv \in DOMAIN conversations
      <4>1. rq[r].pc = "save" /\ cmd(r).kind # "chat" /\ ~rq'[r].text
        BY <2>1, <3>2
      <4>2. Has(r, "user")
        BY <3>2, <4>1 DEF Kept, Turn, Answering
      <4> QED  BY <1>1, <2>2, <3>2, <4>1, <4>2 DEF Turn
    <3>3. CASE q # r
      BY <1>1, <2>2, <3>3, OthersKeep DEF Kept
    <3> QED  BY <3>1, <3>2, <3>3
  <2>5. \A i, j \in DOMAIN messages' :
          messages'[i].of = messages'[j].of /\ messages'[i].role = messages'[j].role => i = j
    BY <1>4 DEF Kept
  <2> QED  BY <1>1, <1>2, <1>4, <2>3, <2>4, <2>5 DEF Kept
<1>5. CASE messages' # messages
  <2> DEFINE n == Len(messages)
  <2>1. /\ rq[r].conv \in DOMAIN conversations /\ n \in Nat
        /\ DOMAIN messages' = 1..(n + 1) /\ DOMAIN messages = 1..n
        /\ \A i \in DOMAIN messages : messages'[i] = messages[i]
        /\ messages'[n + 1] = [conv |-> rq[r].conv, role |-> role, of |-> r]
    BY <1>5, Adds
  <2> HIDE DEF n
  <2>2. \A i \in DOMAIN messages' : i \in DOMAIN messages \/ i = n + 1
    BY <2>1
  <2>3. \A i \in DOMAIN messages : i \in DOMAIN messages' /\ i # n + 1
    BY <2>1
  <2>4. \A i \in DOMAIN messages : ~(messages[i].of = r /\ messages[i].role = role)
    BY DEF Kept, Stands, Answering
  <2>5. role = "assistant" => \E j \in DOMAIN messages : messages[j].of = r /\ messages[j].role = "user"
    BY <2>1 DEF Kept, Turn, Has, Answering
  <2>6. ASSUME NEW i \in DOMAIN messages'  PROVE Stands(i)'
    <3>1. CASE i = n + 1
      <4>1. \A j \in DOMAIN messages : j \in 1..(i - 1)
        BY <2>1, <3>1
      <4>2. messages'[i].role = "assistant" => Asked(i)'
        BY <2>1, <2>5, <3>1, <4>1 DEF Asked
      <4> QED  BY <1>1, <2>1, <3>1, <4>2 DEF Stands
    <3>2. CASE i \in DOMAIN messages
      <4>1. \A j \in 1..(i - 1) : j \in DOMAIN messages
        BY <2>1, <3>2
      <4>2. messages'[i] = messages[i] /\ Asked(i) = Asked(i)'
        BY <2>1, <3>2, <4>1 DEF Asked
      <4>3. Stands(i)
        BY <3>2 DEF Kept
      <4> QED  BY <1>1, <1>3, <4>2, <4>3 DEF Stands
    <3> QED  BY <2>2, <3>1, <3>2
  <2>7. \A i, j \in DOMAIN messages' :
          messages'[i].of = messages'[j].of /\ messages'[i].role = messages'[j].role => i = j
    BY <2>1, <2>2, <2>4 DEF Kept
  <2>8. Has(r, role)' /\ \A q, a : Has(q, a) => Has(q, a)'
    BY <2>1, <2>3 DEF Has
  <2>9. ASSUME NEW q \in DOMAIN rq  PROVE Turn(q)'
    <3>1. CASE q = r
      <4>1. role = "assistant" => Has(r, "user")
        BY <2>5 DEF Has
      <4>2. Has(r, "user")'
        BY <2>8, <4>1
      <4>3. role = "user" => rq'[r].out # "ok"
        BY DEF None
      <4> QED  BY <1>1, <2>8, <3>1, <4>2, <4>3 DEF Turn, Replied
    <3>2. CASE q # r
      BY <1>1, <2>8, <3>2, OthersKeep DEF Kept
    <3> QED  BY <3>1, <3>2
  <2> QED  BY <1>1, <1>2, <2>6, <2>7, <2>9 DEF Kept
<1> QED  BY <1>4, <1>5

LEMMA AskSaveKeep ==
  ASSUME TypeOK, Apart, Kept, NEW r \in DOMAIN rq, Ask(r) \/ Save(r)
  PROVE  Apart' /\ Kept'
<1>1. rq[r] \in Request /\ rq[r].cmd = cmd(r)
  BY CommandFacts DEF cmd
<1>2. CASE Ask(r)
  <2>1. PICK stage \in {"model", "stream"} : Go(r, stage)
    BY <1>2 DEF Ask
  <2> DEFINE x == [rq[r] EXCEPT !.pc = stage]
  <2>2. rq' = [rq EXCEPT ![r] = x]
    BY <2>1 DEF Go
  <2>3. x.cmd = cmd(r) /\ x.pc = stage /\ x.conv = rq[r].conv /\ x.text = rq[r].text /\ x.out = rq[r].out
    BY <1>1 DEF Request
  <2> HIDE DEF x
  <2>4. Alone(r) /\ rq'[r] = x
    BY <2>2, <2>3, AloneFacts
  <2>5. rq[r].pc = "ask" /\ rq[r].out = None /\ cmd(r).kind \in Chats
        /\ messages' = Added(r, "user") /\ conversations' = conversations
    BY <1>2 DEF Ask, Apart
  <2>6. stage \in Answering
    BY DEF Answering
  <2> QED  BY <2>3, <2>4, <2>5, <2>6, AddKeeps
<1>3. CASE Save(r)
  <2> DEFINE x == [rq[r] EXCEPT !.pc = "done", !.out = "ok"]
  <2>1. rq' = [rq EXCEPT ![r] = x]
    BY <1>3 DEF Save, Done
  <2>2. x.cmd = cmd(r) /\ x.pc = "done" /\ x.conv = rq[r].conv /\ x.text = rq[r].text /\ x.out = "ok"
    BY <1>1 DEF Request
  <2> HIDE DEF x
  <2>3. Alone(r) /\ rq'[r] = x
    BY <2>1, <2>2, AloneFacts
  <2>4. rq[r].pc = "save" /\ cmd(r).kind \in Chats /\ conversations' = conversations
        /\ \/ messages' = Added(r, "assistant")
           \/ messages' = messages /\ cmd(r).kind # "chat" /\ ~rq[r].text
    BY <1>3 DEF Save, Apart
  <2> QED  BY <2>2, <2>3, <2>4, AddKeeps
<1> QED  BY <1>2, <1>3

\* With a conversation all that was said in it goes, and nothing else.
LEMMA DeleteKeeps ==
  ASSUME TypeOK, Apart, Kept, NEW r \in DOMAIN rq, DeleteConversation(r)
  PROVE  Apart' /\ Kept'
<1>1. rq[r] \in Request /\ rq[r].cmd = cmd(r) /\ rq[r].pc = "start" /\ cmd(r).kind \notin Chats
  BY CommandFacts DEF cmd, DeleteConversation, Chats
<1>2. CASE Done(r, "404") /\ UNCHANGED <<conversations, messages>>
  BY <1>1, <1>2, QuietDone, QuietKeeps
<1> DEFINE conv == cmd(r).conv
           T == DOMAIN messages \ Stored(conv)
           x == [rq[r] EXCEPT !.pc = "done", !.out = "ok"]
<1>3. CASE /\ conversations' = Restrict(conversations, DOMAIN conversations \ {conv})
           /\ messages' = Chosen(messages, T) /\ Done(r, "ok")
  <2>1. rq' = [rq EXCEPT ![r] = x]
    BY <1>3 DEF Done
  <2>2. x.cmd = cmd(r) /\ x.pc = "done" /\ x.conv = rq[r].conv /\ x.out = "ok"
    BY <1>1 DEF Request
  <2> HIDE DEF x
  <2>3. Alone(r) /\ rq'[r] = x
    BY <2>1, <2>2, AloneFacts
  <2>4. /\ DOMAIN rq' = DOMAIN rq
        /\ \A q \in DOMAIN rq : cmd(q)' = cmd(q) /\ rq'[q].conv = rq[q].conv
        /\ \A q \in DOMAIN rq : q # r => rq'[q] = rq[q]
    BY <2>2, <2>3 DEF Alone
  <2>5. DOMAIN conversations' = DOMAIN conversations \ {conv}
    BY <1>3 DEF Restrict
  <2>6. T \subseteq DOMAIN messages /\ messages \in Seq(Message)
        /\ \A i \in DOMAIN messages : i \in T <=> messages[i].conv # conv
    BY DEF Stored, TypeOK
  <2> HIDE DEF T
  <2> DEFINE at(i) == UpTo(T, i)
  <2>7. /\ \A i \in T : at(i) \in DOMAIN messages' /\ messages'[at(i)] = messages[i]
        /\ \A i, j \in T : i < j => at(i) < at(j)
        /\ \A k \in DOMAIN messages' : \E i \in T : k = at(i)
    BY <1>3, <2>6, ChosenFacts
  <2>8. messages' \in Seq(Message)
    BY <1>3, <2>6, ChosenFacts
  <2> HIDE DEF at
  <2>9. Apart'
    BY <1>1, <2>2, <2>3, <2>4 DEF Apart
  <2>10. \A i \in T : messages[i].of # r
    BY <1>1, <2>6 DEF Kept, Stands, Answering
  <2>11. ASSUME NEW k \in DOMAIN messages'  PROVE Stands(k)'
    <3>1. PICK i \in T : k = at(i)
      BY <2>7
    <3>2. messages'[k] = messages[i] /\ i \in DOMAIN messages /\ messages[i].conv # conv /\ Stands(i)
      BY <2>6, <2>7, <3>1 DEF Kept
    <3>3. ASSUME Asked(i)  PROVE Asked(k)'
      <4>1. PICK j \in 1..(i - 1) : messages[j].of = messages[i].of /\ messages[j].role = "user"
        BY <3>3 DEF Asked
      <4>2. i \in 1..Len(messages) /\ Len(messages) \in Nat /\ DOMAIN messages = 1..Len(messages)
        BY <2>6, <3>2
      <4>3. j \in DOMAIN messages /\ j < i
        BY <4>2
      <4>4. messages[j].conv = messages[i].conv
        BY <3>2, <4>1, <4>3 DEF Kept, Stands
      <4>5. j \in T
        BY <2>6, <3>2, <4>3, <4>4
      <4>6. at(j) < k /\ at(j) \in DOMAIN messages' /\ messages'[at(j)] = messages[j]
        BY <2>7, <3>1, <4>3, <4>5
      <4>7. at(j) \in 1..(k - 1)
        <5>1. DOMAIN messages' = 1..Len(messages') /\ Len(messages') \in Nat
          BY <2>8
        <5> QED  BY <4>6, <5>1
      <4> QED  BY <3>2, <4>1, <4>6, <4>7 DEF Asked
    <3>4. messages[i].of # r
      BY <2>10, <3>1
    <3> QED  BY <2>4, <2>5, <3>2, <3>3, <3>4 DEF Stands
  <2>12. ASSUME NEW j \in DOMAIN messages', NEW k \in DOMAIN messages',
                messages'[j].of = messages'[k].of, messages'[j].role = messages'[k].role
         PROVE  j = k
    BY <2>6, <2>7, <2>12 DEF Kept
  <2>13. ASSUME NEW q \in DOMAIN rq  PROVE Turn(q)'
    <3>1. CASE q = r
      BY <1>1, <2>2, <2>3, <2>4, <3>1 DEF Turn, Replied, Answering
    <3>2. CASE q # r
      <4>1. ASSUME rq[q].conv # conv, NEW role, Has(q, role)  PROVE Has(q, role)'
        <5>1. PICK i \in DOMAIN messages : messages[i].of = q /\ messages[i].role = role
          BY <4>1 DEF Has
        <5>2. messages[i].conv # conv
          BY <4>1, <5>1 DEF Kept, Stands
        <5> QED  BY <2>6, <2>7, <5>1, <5>2 DEF Has
      <4> QED  BY <2>4, <2>5, <3>2, <4>1, OthersKeep DEF Kept
    <3> QED  BY <3>1, <3>2
  <2> QED  BY <2>4, <2>9, <2>11, <2>12, <2>13 DEF Kept
<1> QED  BY <1>2, <1>3 DEF DeleteConversation

LEMMA StepKeeps == TypeOK /\ Apart /\ Kept /\ [Next]_vars => Apart' /\ Kept'
<1>1. ASSUME Apart, Kept, UNCHANGED vars  PROVE Apart' /\ Kept'
  BY <1>1 DEF Apart, Kept, Stands, Asked, Turn, Replied, Has, vars, cmd
<1> QED  BY <1>1, QuietSteps, QuietKeeps, OpenKeeps, AskSaveKeep, DeleteKeeps DEF Next, Progress, Step

-----------------------------------------------------------------------------
(* What is sent *)

\* An assistant message with calls opens a round.
LEMMA OpensRound ==
  ASSUME NEW x \in Seq(Saying), Follows(x), Answered(x, {}), NEW ids \in SUBSET (Nat \X Nat)
  PROVE  LET y == Append(x, Said("assistant", ids))
         IN /\ Follows(y) /\ Answered(y, ids)
            /\ Len(x) + 1 \in DOMAIN y /\ Len(y) = Len(x) + 1 /\ y[Len(x) + 1] = Said("assistant", ids)
<1> DEFINE m == Said("assistant", ids)
           y == Append(x, m)
           n == Len(x)
<1>1. m \in Saying /\ m.role = "assistant" /\ m.ids = ids
  BY DEF Said, Saying
<1> HIDE DEF m
<1>2. /\ n \in Nat /\ DOMAIN x = 1..n /\ DOMAIN y = 1..(n + 1) /\ y[n + 1] = m /\ Len(y) = n + 1
      /\ \A i \in 1..n : y[i] = x[i]
  OBVIOUS
<1> HIDE DEF y, n
<1>3. \A i \in DOMAIN y : i \in DOMAIN x \/ i = n + 1
  BY <1>2
<1>4. \A i \in DOMAIN x : i \in DOMAIN y
  BY <1>2
<1>5. Follows(y)
  <2> SUFFICES ASSUME NEW i \in DOMAIN y, y[i].role = "tool"
               PROVE  \E j \in 1..(i - 1) :
                        /\ y[j].role = "assistant" /\ y[i].ids # {} /\ y[i].ids \subseteq y[j].ids
                        /\ \A k \in (j + 1)..i : y[k].role = "tool"
    BY DEF Follows
  <2>1. i \in DOMAIN x
    BY <1>1, <1>2, <1>3
  <2>2. \A k \in 1..i : k \in 1..n /\ y[k] = x[k]
    BY <1>2, <2>1
  <2>3. PICK j \in 1..(i - 1) : /\ x[j].role = "assistant" /\ x[i].ids # {} /\ x[i].ids \subseteq x[j].ids
                               /\ \A k \in (j + 1)..i : x[k].role = "tool"
    BY <1>2, <2>1, <2>2 DEF Follows
  <2>4. j \in 1..i /\ i \in 1..i /\ \A k \in (j + 1)..i : k \in 1..i
    BY <1>2, <2>1
  <2> QED  BY <2>2, <2>3, <2>4
<1>6. Answered(y, ids)
  <2> SUFFICES ASSUME NEW j \in DOMAIN y, NEW id \in y[j].ids \ ids, y[j].role = "assistant"
               PROVE  \E i \in DOMAIN y : y[i].role = "tool" /\ y[i].ids = {id}
    BY DEF Answered
  <2>1. j \in DOMAIN x
    BY <1>1, <1>2, <1>3
  <2>2. PICK i \in DOMAIN x : x[i].role = "tool" /\ x[i].ids = {id}
    BY <1>2, <2>1 DEF Answered
  <2> QED  BY <1>2, <1>4, <2>2
<1>7. n + 1 \in DOMAIN y
  BY <1>2
<1> QED  BY <1>2, <1>5, <1>6, <1>7 DEF y, m, n

\* The result of a call that is pending goes after the last assistant message.
LEMMA AnswersCall ==
  ASSUME NEW x \in Seq(Saying), Follows(x), NEW pending, Answered(x, pending),
         NEW ids, NEW id \in ids, NEW l, LastCalls(x, l, ids)
  PROVE  LET y == Append(x, Said("tool", {id}))
         IN Follows(y) /\ Answered(y, pending \ {id}) /\ LastCalls(y, l, ids)
<1> DEFINE m == Said("tool", {id})
           y == Append(x, m)
           n == Len(x)
<1>1. m.role = "tool" /\ m.ids = {id} /\ Said("assistant", ids).role = "assistant" /\ Said("assistant", ids).ids = ids
  BY DEF Said
<1> HIDE DEF m
<1>2. /\ n \in Nat /\ DOMAIN x = 1..n /\ DOMAIN y = 1..(n + 1) /\ y[n + 1] = m /\ Len(y) = n + 1
      /\ \A i \in 1..n : y[i] = x[i]
  OBVIOUS
<1> HIDE DEF y, n
<1>3. \A i \in DOMAIN y : i \in DOMAIN x \/ i = n + 1
  BY <1>2
<1>4. \A i \in DOMAIN x : i \in DOMAIN y
  BY <1>2
<1>5. l \in DOMAIN y /\ y[l] = Said("assistant", ids) /\ l \in 1..n /\ \A k \in (l + 1)..(n + 1) : y[k].role = "tool"
  <2>1. l \in 1..n /\ x[l] = Said("assistant", ids) /\ \A k \in (l + 1)..n : x[k].role = "tool"
    BY <1>2 DEF LastCalls, n
  <2>2. \A k \in (l + 1)..(n + 1) : k = n + 1 \/ (k \in (l + 1)..n /\ k \in 1..n)
    BY <1>2, <2>1
  <2> QED  BY <1>1, <1>2, <1>4, <2>1, <2>2
<1>6. Follows(y)
  <2> SUFFICES ASSUME NEW i \in DOMAIN y, y[i].role = "tool"
               PROVE  \E j \in 1..(i - 1) :
                        /\ y[j].role = "assistant" /\ y[i].ids # {} /\ y[i].ids \subseteq y[j].ids
                        /\ \A k \in (j + 1)..i : y[k].role = "tool"
    BY DEF Follows
  <2>1. CASE i \in DOMAIN x
    <3>1. \A k \in 1..i : k \in 1..n /\ y[k] = x[k]
      BY <1>2, <2>1
    <3>2. PICK j \in 1..(i - 1) : /\ x[j].role = "assistant" /\ x[i].ids # {} /\ x[i].ids \subseteq x[j].ids
                                 /\ \A k \in (j + 1)..i : x[k].role = "tool"
      BY <1>2, <2>1, <3>1 DEF Follows
    <3>3. j \in 1..i /\ i \in 1..i /\ \A k \in (j + 1)..i : k \in 1..i
      BY <1>2, <2>1
    <3> QED  BY <3>1, <3>2, <3>3
  <2>2. CASE i = n + 1
    <3>1. l \in 1..(i - 1)
      BY <1>2, <1>5, <2>2
    <3> QED  BY <1>1, <1>2, <1>5, <2>2, <3>1
  <2> QED  BY <1>3, <2>1, <2>2
<1>7. Answered(y, pending \ {id})
  <2> SUFFICES ASSUME NEW j \in DOMAIN y, NEW c \in y[j].ids \ (pending \ {id}), y[j].role = "assistant"
               PROVE  \E i \in DOMAIN y : y[i].role = "tool" /\ y[i].ids = {c}
    BY DEF Answered
  <2>1. CASE c = id
    <3>1. n + 1 \in DOMAIN y
      BY <1>2
    <3> QED  BY <1>1, <1>2, <2>1, <3>1
  <2>2. CASE c # id
    <3>1. j \in DOMAIN x
      BY <1>1, <1>2, <1>3
    <3>2. PICK i \in DOMAIN x : x[i].role = "tool" /\ x[i].ids = {c}
      BY <1>2, <2>2, <3>1 DEF Answered
    <3> QED  BY <1>2, <1>4, <3>2
  <2> QED  BY <2>1, <2>2
<1>8. LastCalls(y, l, ids)
  BY <1>2, <1>5 DEF LastCalls
<1> QED  BY <1>6, <1>7, <1>8 DEF y, m

\* Messages without calls or results may stand before an exchange.
LEMMA PlainBefore ==
  ASSUME NEW p \in Seq(Saying), \A i \in DOMAIN p : p[i].role # "tool" /\ p[i].ids = {},
         NEW x \in Seq(Saying), Follows(x), Answered(x, {})
  PROVE  Follows(p \o x) /\ Answered(p \o x, {})
<1> DEFINE y == p \o x
           n == Len(p)
<1>1. /\ n \in Nat /\ DOMAIN p = 1..n /\ Len(x) \in Nat /\ DOMAIN x = 1..Len(x) /\ DOMAIN y = 1..(n + Len(x))
      /\ \A i \in 1..n : y[i] = p[i]
      /\ \A i \in DOMAIN y : i > n => y[i] = x[i - n]
  OBVIOUS
<1> HIDE DEF y, n
<1>2. \A i \in DOMAIN y : i \in 1..n \/ (i > n /\ i - n \in DOMAIN x)
  BY <1>1
<1>3. \A i \in DOMAIN x : i + n \in DOMAIN y /\ y[i + n] = x[i]
  <2> TAKE i \in DOMAIN x
  <2>1. i + n \in DOMAIN y /\ i + n > n /\ (i + n) - n = i
    BY <1>1
  <2> QED  BY <1>1, <2>1
<1>4. Follows(y)
  <2> SUFFICES ASSUME NEW i \in DOMAIN y, y[i].role = "tool"
               PROVE  \E j \in 1..(i - 1) :
                        /\ y[j].role = "assistant" /\ y[i].ids # {} /\ y[i].ids \subseteq y[j].ids
                        /\ \A k \in (j + 1)..i : y[k].role = "tool"
    BY DEF Follows
  <2>1. i > n /\ i - n \in DOMAIN x /\ y[i] = x[i - n] /\ i \in Nat
    BY <1>1, <1>2
  <2>2. PICK j \in 1..((i - n) - 1) :
          /\ x[j].role = "assistant" /\ x[i - n].ids # {} /\ x[i - n].ids \subseteq x[j].ids
          /\ \A k \in (j + 1)..(i - n) : x[k].role = "tool"
    BY <2>1 DEF Follows
  <2>3. j \in DOMAIN x /\ j + n \in 1..(i - 1)
    BY <1>1, <2>1
  <2>4. \A k \in ((j + n) + 1)..i : k - n \in (j + 1)..(i - n) /\ k \in DOMAIN y /\ k > n
    BY <1>1, <2>1, <2>3
  <2>5. y[j + n] = x[j]
    BY <1>3, <2>3
  <2>6. \A k \in ((j + n) + 1)..i : y[k].role = "tool"
    BY <1>1, <2>2, <2>4
  <2> QED  BY <2>1, <2>2, <2>3, <2>5, <2>6
<1>5. Answered(y, {})
  <2> SUFFICES ASSUME NEW j \in DOMAIN y, NEW id \in y[j].ids, y[j].role = "assistant"
               PROVE  \E i \in DOMAIN y : y[i].role = "tool" /\ y[i].ids = {id}
    BY DEF Answered
  <2>1. j > n /\ j - n \in DOMAIN x /\ y[j] = x[j - n]
    BY <1>1, <1>2
  <2>2. PICK i \in DOMAIN x : x[i].role = "tool" /\ x[i].ids = {id}
    BY <2>1 DEF Answered
  <2> QED  BY <1>3, <2>2
<1> QED  BY <1>4, <1>5 DEF y

\* What a chat begins with: what was said before, and the question.
Opening(r) == [i \in DOMAIN rq[r].sees |-> Said(rq[r].sees[i].role, {})] \o <<Said("user", {})>>
LEMMA OpeningIsPlain ==
  ASSUME TypeOK, NEW r \in DOMAIN rq
  PROVE  /\ Opening(r) \in Seq(Saying) /\ \A i \in DOMAIN Opening(r) : Opening(r)[i].role # "tool" /\ Opening(r)[i].ids = {}
         /\ Conversation(r) = Opening(r) \o rq[r].exchange
<1>1. rq[r] \in Request
  BY CommandFacts
<1> DEFINE plain == [i \in DOMAIN rq[r].sees |-> Said(rq[r].sees[i].role, {})]
           p == Opening(r)
<1>5. plain \in Seq(Saying) /\ \A i \in DOMAIN plain : plain[i].role # "tool" /\ plain[i].ids = {}
  <2>1. rq[r].sees \in Seq(Message)
    BY <1>1 DEF Request
  <2>2. Len(rq[r].sees) \in Nat /\ DOMAIN rq[r].sees = 1..Len(rq[r].sees)
    BY <2>1
  <2>3. \A i \in DOMAIN rq[r].sees : rq[r].sees[i] \in Message
    BY <2>1
  <2>4. \A i \in DOMAIN rq[r].sees :
          LET m == Said(rq[r].sees[i].role, {}) IN m \in Saying /\ m.role # "tool" /\ m.ids = {}
    BY <2>3 DEF Said, Saying, Message
  <2>5. plain \in [1..Len(rq[r].sees) -> Saying]
    BY <2>2, <2>4
  <2>6. \A i \in DOMAIN plain : plain[i].role # "tool" /\ plain[i].ids = {}
    BY <2>4
  <2> HIDE DEF plain
  <2> QED  BY <2>2, <2>5, <2>6, SeqDef
<1>6. Said("user", {}) \in Saying /\ Said("user", {}).role = "user" /\ Said("user", {}).ids = {}
  BY DEF Said, Saying
<1> HIDE DEF plain
<1>7. p \in Seq(Saying) /\ \A i \in DOMAIN p : p[i].role # "tool" /\ p[i].ids = {}
  <2> DEFINE u == Said("user", {})
  <2>1. u \in Saying /\ u.role # "tool" /\ u.ids = {}
    BY <1>6
  <2> HIDE DEF u
  <2>2. plain \o <<u>> \in Seq(Saying)
    BY <1>5, <2>1
  <2>3. \A i \in DOMAIN (plain \o <<u>>) :
          (i \in DOMAIN plain /\ (plain \o <<u>>)[i] = plain[i]) \/ (plain \o <<u>>)[i] = u
    BY <1>5, <2>1
  <2>4. \A i \in DOMAIN (plain \o <<u>>) : (plain \o <<u>>)[i].role # "tool" /\ (plain \o <<u>>)[i].ids = {}
    BY <1>5, <2>1, <2>3
  <2> QED  BY <2>2, <2>4 DEF u, Opening, plain
<1>8. Conversation(r) = p \o rq[r].exchange
  BY DEF Conversation, Opening
<1> QED  BY <1>7, <1>8

\* What is sent to an OpenAI-compatible provider between two rounds is whole.
LEMMA SentWhole ==
  ASSUME TypeOK, NEW r \in DOMAIN rq, Follows(rq[r].exchange), Answered(rq[r].exchange, {}),
         rq[r].type \in OpenAITypes
  PROVE  Follows(Sent(r)) /\ Answered(Sent(r), {})
<1>1. rq[r] \in Request
  BY CommandFacts
<1>2. rq[r].type # None
  BY DEF OpenAITypes, None
<1>3. Conversation(r) \in Seq(Saying)
  BY <1>2, SentType
<1>4. Sent(r) = Conversation(r)
  <2>1. rq[r].type \notin {"anthropic", "vertex", "bedrock"}
    BY DEF OpenAITypes
  <2>2. Sent(r) = [i \in DOMAIN Conversation(r) |-> ToOpenAI(Conversation(r)[i])]
    BY <2>1 DEF Sent
  <2>3. Sent(r) = [i \in DOMAIN Conversation(r) |-> Conversation(r)[i]]
    BY <2>2 DEF ToOpenAI
  <2> QED  BY <1>3, <2>3
<1>5. rq[r].exchange \in Seq(Saying)
  BY <1>1 DEF Request
<1> DEFINE p == Opening(r)
<1>6. p \in Seq(Saying) /\ (\A i \in DOMAIN p : p[i].role # "tool" /\ p[i].ids = {}) /\ Conversation(r) = p \o rq[r].exchange
  BY OpeningIsPlain
<1> HIDE DEF p
<1> QED  BY <1>4, <1>5, <1>6, PlainBefore

\* A stream before its first call sends nothing but what the chat began with.
LEMMA StreamedWhole ==
  ASSUME TypeOK, NEW r \in DOMAIN rq, rq[r].exchange = <<>>, rq[r].type \in OpenAITypes
  PROVE  Follows(Streamed(r)) /\ Answered(Streamed(r), {})
<1> DEFINE p == Opening(r)
<1>1. p \in Seq(Saying) /\ (\A i \in DOMAIN p : p[i].role # "tool") /\ Conversation(r) = p
  <2>1. p \in Seq(Saying) /\ (\A i \in DOMAIN p : p[i].role # "tool") /\ Conversation(r) = p \o <<>>
    BY OpeningIsPlain
  <2> HIDE DEF p
  <2> QED  BY <2>1
<1>2. Streamed(r) = [i \in DOMAIN p |-> Said(p[i].role, {})]
  BY <1>1 DEF Streamed
<1> HIDE DEF p
<1>3. \A i \in DOMAIN Streamed(r) : Streamed(r)[i].role # "tool" /\ Streamed(r)[i].ids = {}
  BY <1>1, <1>2 DEF Said
<1> QED  BY <1>3 DEF Follows, Answered

\* The round of a request that keeps its exchange and what it sent, or is new.
LEMMA RoundsStay ==
  ASSUME NEW r \in DOMAIN rq, RoundsOf(r), rq'[r].exchange = rq[r].exchange, rq'[r].sent = rq[r].sent,
         rq'[r].calls = rq[r].calls, rq'[r].api = rq[r].api, rq'[r].pc \notin {"start", "call"},
         rq'[r].pc \in BetweenRounds => rq[r].pc \in BetweenRounds,
         rq'[r].type = rq[r].type \/ rq[r].pc = "start"
  PROVE  RoundsOf(r)'
<1>1. rq[r].sent = <<>> => Follows(rq[r].sent) /\ Answered(rq[r].sent, {})
  BY DEF Follows, Answered
<1> QED  BY <1>1 DEF RoundsOf, Unattached

LEMMA OthersRounds ==
  ASSUME NEW q, RoundsOf(q), rq'[q] = rq[q]
  PROVE  RoundsOf(q)'
  BY DEF RoundsOf, RoundOpen, Pending, Unattached

LEMMA OneRound ==
  ASSUME TypeOK, Rounds, NEW r \in DOMAIN rq, NEW x, rq' = [rq EXCEPT ![r] = x], RoundsOf(r)'
  PROVE  Rounds'
<1>1. DOMAIN rq' = DOMAIN rq /\ \A q \in DOMAIN rq : q # r => rq'[q] = rq[q]
  BY DEF TypeOK
<1> QED  BY <1>1, OthersRounds DEF Rounds

\* Steps that neither begin a round nor run a call.
LEMMA NoRound ==
  ASSUME TypeOK, Rounds, NEW r \in DOMAIN rq, NEW x, rq' = [rq EXCEPT ![r] = x],
         x.exchange = rq[r].exchange, x.calls = rq[r].calls, x.api = rq[r].api, x.sent = rq[r].sent, x.pc \notin {"start", "call"},
         x.pc \in BetweenRounds => rq[r].pc \in BetweenRounds,
         x.type = rq[r].type \/ rq[r].pc = "start"
  PROVE  Rounds'
<1>1. rq'[r] = x /\ RoundsOf(r)
  BY DEF TypeOK, Rounds
<1> QED  BY <1>1, RoundsStay, OneRound

LEMMA TakeRound ==
  ASSUME TypeOK, Rounds, NEW r \in DOMAIN rq, NEW reply \in Replies(r), Take(r, reply),
         rq[r].round # MaxRounds, rq[r].pc \in {"model", "fallback"}
  PROVE  Rounds'
<1>1. rq[r] \in Request /\ rq[r].exchange \in Seq(Saying) /\ RoundsOf(r)
  BY CommandFacts DEF Request, Rounds
<1>2. Follows(rq[r].exchange) /\ Answered(rq[r].exchange, {})
  BY <1>1 DEF RoundsOf, BetweenRounds
<1>3. rq[r].type \in OpenAITypes => Follows(Sent(r)) /\ Answered(Sent(r), {})
  BY <1>2, SentWhole
<1>4. CASE reply = <<>>
  <2> DEFINE x == [rq[r] EXCEPT !.pc = "save", !.text = TRUE, !.sent = Sent(r), !.api = "chat"]
  <2>1. rq' = [rq EXCEPT ![r] = x]
    BY <1>4 DEF Take, AfterText
  <2>2. x.pc = "save" /\ x.sent = Sent(r) /\ x.exchange = rq[r].exchange /\ x.type = rq[r].type
    BY <1>1 DEF Request
  <2> HIDE DEF x
  <2>3. rq'[r] = x
    BY <2>1 DEF TypeOK
  <2>4. RoundsOf(r)'
    BY <1>2, <1>3, <2>2, <2>3 DEF RoundsOf, BetweenRounds, BeforeAsk
  <2> QED  BY <2>1, <2>4, OneRound
<1>5. CASE reply # <<>>
  <2>1. rq[r].round \in 0..(MaxRounds - 1) /\ Round(rq[r].round) \in Nat
    BY <1>1, BoundsAssumption DEF Request, Round
  <2>2. reply \in Seq(AnyName)
    BY <1>5, <2>1, CommandFacts DEF Replies
  <2> DEFINE ids == {Round(rq[r].round)} \X DOMAIN reply
             said == Said("assistant", ids)
             x == [rq[r] EXCEPT !.pc = "call", !.reply = reply, !.at = 1, !.round = Round(@),
                   !.exchange = Append(@, said), !.sent = Sent(r), !.api = "chat"]
  <2>3. rq' = [rq EXCEPT ![r] = x]
    BY <1>5 DEF Take, AfterText
  <2>4. ids \in SUBSET (Nat \X Nat) /\ 1 \in DOMAIN reply /\ DOMAIN reply = 1..Len(reply)
    BY <1>5, <2>1, <2>2
  <2> DEFINE y == Append(rq[r].exchange, said)
             l == Len(rq[r].exchange) + 1
  <2>5. /\ Follows(y) /\ Answered(y, ids) /\ l \in DOMAIN y /\ Len(y) = l /\ y[l] = said
        /\ l \in Nat
    <3> HIDE DEF ids
    <3> QED  BY <1>1, <1>2, <2>4, OpensRound
  <2> HIDE DEF said, y
  <2>6. x.pc = "call" /\ x.sent = Sent(r) /\ x.exchange = y /\ x.type = rq[r].type
        /\ x.round = Round(rq[r].round) /\ x.at = 1 /\ x.reply = reply
    BY <1>1 DEF Request, y
  <2> HIDE DEF x
  <2>7. rq'[r] = x
    BY <2>3 DEF TypeOK
  <2>8. RoundOpen(r)'
    <3>1. Pending(r)' = ids
      BY <2>4, <2>6, <2>7 DEF Pending
    <3>2. LastCalls(y, l, ids)
      BY <2>5 DEF LastCalls, said
    <3> HIDE DEF l
    <3> QED  BY <2>4, <2>5, <2>6, <2>7, <3>1, <3>2 DEF RoundOpen
  <2>9. RoundsOf(r)'
    BY <1>3, <2>5, <2>6, <2>7, <2>8 DEF RoundsOf, BetweenRounds, BeforeAsk
  <2> QED  BY <2>3, <2>9, OneRound
<1> QED  BY <1>4, <1>5

LEMMA CallRound ==
  ASSUME TypeOK, Rounds, NEW r \in DOMAIN rq, Call(r)
  PROVE  Rounds'
<1>1. rq[r] \in Request /\ rq[r].exchange \in Seq(Saying) /\ rq[r].reply \in Seq(AnyName) /\ RoundsOf(r)
      /\ rq[r].pc = "call" /\ rq[r].round \in 0..MaxRounds
  BY CommandFacts DEF Request, Rounds, Call
<1>2. RoundOpen(r) /\ Follows(rq[r].exchange)
  BY <1>1 DEF RoundsOf
<1> DEFINE name == rq[r].reply[rq[r].at]
           last == rq[r].at = Len(rq[r].reply)
           called == [name |-> name, ran |-> Granted(cmd(r), MeaningOf(name).required)]
           id == <<rq[r].round, rq[r].at>>
           answer == Said("tool", {id})
           next == IF ~last THEN "call" ELSE IF cmd(r).kind = "chat" THEN "model" ELSE "stream"
           x == [rq[r] EXCEPT !.pc = "save", !.text = TRUE]
           y == [rq[r] EXCEPT !.calls = @ \union {called}, !.exchange = Append(@, answer),
                   !.at = IF last THEN 0 ELSE @ + 1, !.reply = IF last THEN <<>> ELSE @, !.pc = next]
<1>3. rq' = [rq EXCEPT ![r] = x] \/ rq' = [rq EXCEPT ![r] = y]
  BY DEF Call
<1>4. CASE rq' = [rq EXCEPT ![r] = x]
  <2>1. x.exchange = rq[r].exchange /\ x.calls = rq[r].calls /\ x.api = rq[r].api /\ x.sent = rq[r].sent /\ x.pc = "save" /\ x.type = rq[r].type
    BY <1>1 DEF Request
  <2> HIDE DEF x
  <2> QED  BY <1>4, <2>1, NoRound DEF BetweenRounds, BeforeAsk
<1>5. CASE rq' = [rq EXCEPT ![r] = y]
  <2> DEFINE ids == {rq[r].round} \X DOMAIN rq[r].reply
             z == Append(rq[r].exchange, answer)
  <2>1. PICK l \in DOMAIN rq[r].exchange : LastCalls(rq[r].exchange, l, ids)
    BY <1>2 DEF RoundOpen
  <2>2. /\ rq[r].at \in 1..Len(rq[r].reply) /\ rq[r].round \in Nat /\ DOMAIN rq[r].reply = 1..Len(rq[r].reply)
        /\ Len(rq[r].reply) \in Nat
    BY <1>1, <1>2, BoundsAssumption DEF RoundOpen
  <2>3. id \in ids /\ Pending(r) \in SUBSET (Nat \X Nat) /\ Answered(rq[r].exchange, Pending(r))
    BY <1>2, <2>2 DEF RoundOpen, Pending
  <2>4. Follows(z) /\ Answered(z, Pending(r) \ {id}) /\ LastCalls(z, l, ids) /\ l \in DOMAIN z
    <3>1. Follows(z) /\ Answered(z, Pending(r) \ {id}) /\ LastCalls(z, l, ids)
      <4> HIDE DEF ids, id
      <4> QED  BY <1>1, <1>2, <2>1, <2>3, AnswersCall
    <3> QED  BY <3>1 DEF LastCalls
  <2> DEFINE at == IF last THEN 0 ELSE rq[r].at + 1
             reply == IF last THEN <<>> ELSE rq[r].reply
  <2>5. y.exchange = z /\ y.sent = rq[r].sent /\ y.api = rq[r].api /\ y.calls # {} /\ y.pc = next /\ y.type = rq[r].type
        /\ y.round = rq[r].round /\ y.at = at /\ y.reply = reply
    <3> HIDE DEF answer, called, next, last
    <3> QED  BY <1>1 DEF Request
  <2> HIDE DEF y, z
  <2>6. rq'[r] = y
    BY <1>5 DEF TypeOK
  <2>7. CASE last
    <3>1. next \in {"model", "stream"}
      BY <2>7
    <3>2. Pending(r) = {id}
      BY <2>2, <2>7 DEF Pending
    <3>3. Answered(z, {})
      <4>1. Pending(r) \ {id} = {}
        BY <3>2
      <4> QED  BY <2>4, <4>1
    <3> HIDE DEF next
    <3>4. RoundsOf(r)'
      BY <1>1, <2>4, <2>5, <2>6, <3>1, <3>3 DEF RoundsOf, Unattached
    <3> QED  BY <1>5, <3>4, OneRound
  <2>8. CASE ~last
    <3>1. next = "call" /\ at = rq[r].at + 1 /\ reply = rq[r].reply
      BY <2>8
    <3>2. at \in DOMAIN reply
      BY <2>2, <2>8, <3>1
    <3>3. Pending(r)' = Pending(r) \ {id}
      <4>1. (rq[r].at + 1)..Len(rq[r].reply) = (rq[r].at..Len(rq[r].reply)) \ {rq[r].at}
        BY <2>2
      <4>2. Pending(r)' = {rq[r].round} \X ((rq[r].at + 1)..Len(rq[r].reply))
        BY <2>5, <2>6, <3>1 DEF Pending
      <4> QED  BY <4>1, <4>2 DEF Pending
    <3> HIDE DEF next, at, reply, id
    <3>4. RoundOpen(r)'
      BY <2>4, <2>5, <2>6, <3>1, <3>2, <3>3 DEF RoundOpen
    <3>5. RoundsOf(r)'
      BY <1>1, <2>4, <2>5, <2>6, <3>1, <3>4 DEF RoundsOf, Unattached, BetweenRounds, BeforeAsk
    <3> QED  BY <1>5, <3>5, OneRound
  <2> QED  BY <2>7, <2>8
<1> QED  BY <1>3, <1>4, <1>5

LEMMA StepRounds ==
  ASSUME TypeOK, Rounds, NEW r \in DOMAIN rq, Step(r) \/ Break(r)
  PROVE  Rounds'
<1>1. rq[r] \in Request
  BY CommandFacts
<1>2. CASE \E out : Done(r, out)
  <2>1. PICK out : Done(r, out)
    BY <1>2
  <2> DEFINE x == [rq[r] EXCEPT !.pc = "done", !.out = out]
  <2>2. rq' = [rq EXCEPT ![r] = x]
    BY <2>1 DEF Done
  <2>3. x.exchange = rq[r].exchange /\ x.calls = rq[r].calls /\ x.api = rq[r].api /\ x.sent = rq[r].sent /\ x.pc = "done" /\ x.type = rq[r].type
    BY <1>1 DEF Request
  <2> HIDE DEF x
  <2> QED  BY <2>2, <2>3, NoRound DEF BetweenRounds, BeforeAsk
<1>3. CASE Start(r)
  <2>1. ASSUME NEW t, NEW names, rq' = [rq EXCEPT ![r].pc = "open", ![r].type = t, ![r].given = names]
        PROVE  Rounds'
    <3> DEFINE x == [rq[r] EXCEPT !.pc = "open", !.type = t, !.given = names]
    <3>1. rq' = [rq EXCEPT ![r] = x]
      BY <2>1
    <3>2. x.exchange = rq[r].exchange /\ x.calls = rq[r].calls /\ x.api = rq[r].api /\ x.sent = rq[r].sent /\ x.pc = "open" /\ rq[r].pc = "start"
      BY <1>1, <1>3 DEF Request, Start
    <3> HIDE DEF x
    <3> QED  BY <3>1, <3>2, NoRound DEF BetweenRounds, BeforeAsk
  <2> DEFINE enabled == {p \in DOMAIN providers : providers[p].enabled}
             first == CHOOSE p \in enabled : \A q \in enabled : providers[p].rank <= providers[q].rank
             type == IF enabled = {} THEN cmd(r).env ELSE providers[first].type
  <2>2. CASE type = None \/ type \notin KnownTypes \union {None}
    <3>1. Done(r, "503") \/ Done(r, "500")
      BY <1>3, <2>2 DEF Start
    <3> QED  BY <1>2, <3>1
  <2>3. CASE type # None /\ type \in KnownTypes
    <3>1. PICK names \in Given : rq' = [rq EXCEPT ![r].pc = "open", ![r].type = type, ![r].given = names]
      BY <1>3, <2>3 DEF Start
    <3> HIDE DEF type
    <3> QED  BY <2>1, <3>1
  <2> QED  BY <2>2, <2>3
<1>4. CASE Open(r)
  <2>1. PICK conv : rq' = [rq EXCEPT ![r].pc = "recall", ![r].conv = conv]
    BY <1>4 DEF Open
  <2> DEFINE x == [rq[r] EXCEPT !.pc = "recall", !.conv = conv]
  <2>2. rq' = [rq EXCEPT ![r] = x]
    BY <2>1
  <2>3. x.exchange = rq[r].exchange /\ x.calls = rq[r].calls /\ x.api = rq[r].api /\ x.sent = rq[r].sent /\ x.pc = "recall" /\ x.type = rq[r].type
    BY <1>1 DEF Request
  <2> HIDE DEF x
  <2> QED  BY <1>4, <2>2, <2>3, NoRound DEF BetweenRounds, BeforeAsk, Open
<1>5. CASE Recall(r)
  <2>1. PICK sees : rq' = [rq EXCEPT ![r].pc = "ask", ![r].sees = sees]
    BY <1>5 DEF Recall
  <2> DEFINE x == [rq[r] EXCEPT !.pc = "ask", !.sees = sees]
  <2>2. rq' = [rq EXCEPT ![r] = x]
    BY <2>1
  <2>3. x.exchange = rq[r].exchange /\ x.calls = rq[r].calls /\ x.api = rq[r].api /\ x.sent = rq[r].sent /\ x.pc = "ask" /\ x.type = rq[r].type
    BY <1>1 DEF Request
  <2> HIDE DEF x
  <2> QED  BY <1>5, <2>2, <2>3, NoRound DEF BetweenRounds, BeforeAsk, Recall
<1>6. CASE \E stage \in {"model", "stream", "save"} : Go(r, stage) /\ rq[r].pc \in {"ask", "model", "stream"}
  <2>1. PICK stage \in {"model", "stream", "save"} : Go(r, stage)
    BY <1>6
  <2> DEFINE x == [rq[r] EXCEPT !.pc = stage]
  <2>2. rq' = [rq EXCEPT ![r] = x]
    BY <2>1 DEF Go
  <2>3. x.exchange = rq[r].exchange /\ x.calls = rq[r].calls /\ x.api = rq[r].api /\ x.sent = rq[r].sent /\ x.pc = stage /\ x.type = rq[r].type
    BY <1>1 DEF Request
  <2> HIDE DEF x
  <2> QED  BY <1>6, <2>2, <2>3, NoRound DEF BetweenRounds, BeforeAsk
<1>7. CASE Stream(r) /\ rq[r].round # MaxRounds
  <2>1. PICK text \in BOOLEAN :
          LET state == [rq[r] EXCEPT !.text = @ \/ text, !.sent = Streamed(r), !.api = "chat_stream"]
          IN \/ rq' = [rq EXCEPT ![r] = [state EXCEPT !.pc = "save"]]
             \/ rq' = [rq EXCEPT ![r] = [state EXCEPT !.round = Round(@)]]
             \/ rq' = [rq EXCEPT ![r] = [state EXCEPT !.pc = "fallback"]]
    BY <1>7 DEF Stream
  <2> DEFINE state == [rq[r] EXCEPT !.text = @ \/ text, !.sent = Streamed(r), !.api = "chat_stream"]
  <2>2. \E x \in {[state EXCEPT !.pc = "save"], [state EXCEPT !.round = Round(@)],
                  [state EXCEPT !.pc = "fallback"]} : rq' = [rq EXCEPT ![r] = x]
    BY <2>1
  <2>3. RoundsOf(r) /\ rq[r].pc = "stream"
    BY <1>7 DEF Rounds, Stream
  <2>4. \A x \in {[state EXCEPT !.pc = "save"], [state EXCEPT !.round = Round(@)],
                  [state EXCEPT !.pc = "fallback"]} :
          /\ x.exchange = rq[r].exchange /\ x.calls = rq[r].calls /\ x.api = "chat_stream" /\ x.sent = Streamed(r)
          /\ x.type = rq[r].type /\ x.pc \in {"save", "stream", "fallback"}
    BY <1>1, <2>3 DEF Request
  <2> HIDE DEF state
  <2>5. PICK x : /\ rq' = [rq EXCEPT ![r] = x] /\ x.pc \in {"save", "stream", "fallback"} /\ x.type = rq[r].type
                 /\ x.exchange = rq[r].exchange /\ x.calls = rq[r].calls /\ x.api = "chat_stream" /\ x.sent = Streamed(r)
    BY <2>2, <2>4
  <2>6. Follows(rq[r].exchange) /\ Answered(rq[r].exchange, {}) /\ (rq[r].calls = {} => rq[r].exchange = <<>>)
    BY <2>3 DEF RoundsOf, BetweenRounds
  <2>7. rq[r].calls = {} /\ rq[r].type \in OpenAITypes => Follows(Streamed(r)) /\ Answered(Streamed(r), {})
    BY <2>6, StreamedWhole
  <2>8. rq'[r] = x
    BY <2>5 DEF TypeOK
  <2>9. RoundsOf(r)'
    BY <2>5, <2>6, <2>7, <2>8 DEF RoundsOf, Unattached
  <2> QED  BY <2>5, <2>9, OneRound
<1>8. CASE \E reply \in Replies(r) : Take(r, reply) /\ rq[r].round # MaxRounds /\ rq[r].pc \in {"model", "fallback"}
  BY <1>8, TakeRound
<1>9. CASE Model(r)
  BY <1>2, <1>6, <1>8, <1>9 DEF Model
<1>10. CASE Stream(r)
  BY <1>6, <1>7, <1>10 DEF Stream
<1>11. CASE Fallback(r)
  <2>1. rq[r].round # MaxRounds
    BY <1>11 DEF TypeOK, Fallback
  <2> QED  BY <1>2, <1>8, <1>11, <2>1 DEF Fallback
<1>12. CASE Ask(r)
  BY <1>6, <1>12 DEF Ask
<1>13. CASE Save(r) \/ DeleteConversation(r) \/ SetProvider(r) \/ Break(r)
  BY <1>2, <1>13 DEF Save, DeleteConversation, SetProvider, Break
<1>14. CASE Call(r)
  BY <1>14, CallRound
<1> QED  BY <1>3, <1>4, <1>5, <1>9, <1>10, <1>11, <1>12, <1>13, <1>14 DEF Step

-----------------------------------------------------------------------------

TalkInv == TypeOK /\ Apart /\ Kept /\ Rounds

LEMMA TalkInit == Init => TalkInv
<1> SUFFICES ASSUME Init  PROVE TalkInv
  OBVIOUS
<1> DEFINE fresh(c) ==
             [cmd |-> c, pc |-> "start", type |-> None, conv |-> None, given |-> {},
              sees |-> <<>>, round |-> 0, reply |-> <<>>, at |-> 0, exchange |-> <<>>, sent |-> <<>>,
              api |-> None, calls |-> {}, text |-> FALSE, out |-> None]
<1>1. PICK s \in Scenarios : rq = [r \in DOMAIN s |-> fresh(s[r])]
  BY DEF Init
<1>2. messages = <<>>
  BY DEF Init
<1>3. \A r \in DOMAIN s : s[r] \in Commands /\ fresh(s[r]) \in Request
  <2> TAKE r \in DOMAIN s
  <2>1. s[r] \in Commands
    BY DEF Commands
  <2>2. <<>> \in Seq(Message) /\ <<>> \in Seq(AnyName) /\ <<>> \in Seq(Saying) /\ 0 \in 0..MaxRounds
    BY BoundsAssumption
  <2> QED  BY <2>1, <2>2 DEF Request, Stages, Convs, Outcomes, None
<1>4. \A r \in DOMAIN s : /\ rq[r].cmd = s[r] /\ rq[r].pc = "start" /\ rq[r].conv = None /\ rq[r].out = None
                         /\ rq[r].exchange = <<>> /\ rq[r].sent = <<>> /\ rq[r].type = None
  BY <1>1
<1>5. DOMAIN rq = DOMAIN s /\ rq \in [DOMAIN rq -> Request]
  <2> HIDE DEF fresh
  <2> QED  BY <1>1, <1>3
<1>6. TypeOK
  BY <1>2, <1>4, <1>5 DEF TypeOK, cmd
<1>7. Apart
  BY <1>4, <1>5, ScenarioAssumption DEF Apart
<1>8. Kept
  BY <1>2, <1>4, <1>5 DEF Kept, Turn, Replied, Answering, None
<1>9. Follows(<<>>) /\ Answered(<<>>, {})
  BY DEF Follows, Answered
<1>10. Rounds
  BY <1>4, <1>5, <1>9 DEF Rounds, RoundsOf, BetweenRounds, BeforeAsk
<1> QED  BY <1>6, <1>7, <1>8, <1>10 DEF TalkInv

LEMMA TalkStep == TalkInv /\ [Next]_vars => TalkInv'
<1> SUFFICES ASSUME TalkInv, [Next]_vars  PROVE TalkInv'
  OBVIOUS
<1>1. Rounds'
  <2>1. CASE UNCHANGED vars
    BY <2>1 DEF TalkInv, Rounds, RoundsOf, RoundOpen, Pending, Unattached, vars
  <2> QED  BY <2>1, StepRounds DEF TalkInv, Next, Progress
<1> QED  BY <1>1, StepTypes, StepKeeps DEF TalkInv

\* The cardinalities of TurnSaved say that a request has one question and one answer.
LEMMA AtMostOne ==
  ASSUME NEW S, \A x, y \in S : x = y
  PROVE  Cardinality(S) <= 1
<1>1. CASE S = {}
  BY <1>1, FS_EmptySet
<1>2. CASE S # {}
  <2>1. PICK x \in S : S = {x}
    BY <1>2
  <2> QED  BY <2>1, FS_Singleton
<1> QED  BY <1>1, <1>2

LEMMA TalkTells == TalkInv => TranscriptWhole
<1> SUFFICES ASSUME TalkInv  PROVE TranscriptWhole
  OBVIOUS
<1> DEFINE At(r, role) == {i \in DOMAIN messages : messages[i].of = r /\ messages[i].role = role}
<1>1. \A i \in DOMAIN messages : messages[i].conv \in DOMAIN conversations
  BY DEF TalkInv, Kept, Stands
<1>2. ASSUME NEW r \in DOMAIN rq
      PROVE  /\ Cardinality(At(r, "user")) <= 1 /\ Cardinality(At(r, "assistant")) <= 1
             /\ \A j \in At(r, "assistant") : \E i \in At(r, "user") : i < j
             /\ cmd(r).kind \in Chats /\ rq[r].out = "ok" /\ rq[r].conv \in DOMAIN conversations =>
                  At(r, "user") # {} /\ (cmd(r).kind = "chat" \/ rq[r].text => At(r, "assistant") # {})
  <2>1. \A role : \A x, y \in At(r, role) : x = y
    BY DEF TalkInv, Kept
  <2>2. ASSUME NEW j \in At(r, "assistant")  PROVE \E i \in At(r, "user") : i < j
    <3>1. Asked(j) /\ messages \in Seq(Message) /\ j \in DOMAIN messages /\ messages[j].of = r
      BY DEF TalkInv, Kept, Stands, TypeOK
    <3>2. PICK i \in 1..(j - 1) : messages[i].of = r /\ messages[i].role = "user"
      BY <3>1 DEF Asked
    <3>3. i \in DOMAIN messages /\ i < j
      BY <3>1
    <3> QED  BY <3>2, <3>3
  <2>3. \A role : Has(r, role) <=> At(r, role) # {}
    BY DEF Has
  <2>4. Turn(r)
    BY DEF TalkInv, Kept
  <2> HIDE DEF At
  <2>5. Cardinality(At(r, "user")) <= 1 /\ Cardinality(At(r, "assistant")) <= 1
    BY <2>1, AtMostOne
  <2> QED  BY <2>2, <2>3, <2>4, <2>5 DEF Turn, Replied
<1>3. TurnSaved
  BY <1>1, <1>2 DEF TurnSaved
<1>4. ResultsFollowCalls
  <2> SUFFICES ASSUME NEW r \in DOMAIN rq, rq[r].type \in OpenAITypes, ~Unattached(r)
               PROVE  LET s == rq[r].sent
                      IN /\ \A i \in DOMAIN s : s[i].role = "tool" =>
                              \E j \in 1..(i - 1) : /\ s[j].role = "assistant" /\ s[i].ids # {} /\ s[i].ids \subseteq s[j].ids
                                                    /\ \A k \in (j + 1)..i : s[k].role = "tool"
                         /\ \A j \in DOMAIN s : \A id \in s[j].ids : s[j].role = "assistant" =>
                              \E i \in DOMAIN s : s[i].role = "tool" /\ s[i].ids = {id}
    BY DEF ResultsFollowCalls
  <2>1. Follows(rq[r].sent) /\ Answered(rq[r].sent, {})
    BY DEF TalkInv, Rounds, RoundsOf
  <2> QED  BY <2>1 DEF Follows, Answered
<1> QED  BY <1>3, <1>4 DEF TranscriptWhole

\* Whatever chats, streams and deletions of one conversation interleave and
\* wherever they break, the conversation kept has each question before its
\* answer, once, and the conversation sent has a result for every call, and the
\* call of every result, but in a stream that goes on after a round with calls.
THEOREM TranscriptsAreWhole == Spec => []TranscriptWhole
<1> QED  BY TalkInit, TalkStep, TalkTells, PTL DEF Spec

-----------------------------------------------------------------------------
(* What the generators make of the schema *)

\* A set of natural numbers has a least element: of the intervals that end in
\* its members, one has no other as a proper subset.
LEMMA Least ==
  ASSUME NEW T, T \subseteq Nat, T # {}
  PROVE  \E x \in T : \A y \in T : x <= y
<1> DEFINE Ends == {0..k : k \in T}
<1>1. Ends \subseteq FiniteSubsetsOf(Nat) /\ Ends # {}
  <2>1. \A k \in T : IsFiniteSet(0..k) /\ 0..k \subseteq Nat
    BY FS_Interval
  <2> QED  BY <2>1 DEF FiniteSubsetsOf
<1> HIDE DEF Ends
<1>2. PICK X \in Ends : \A Y \in Ends : ~(<<Y, X>> \in StrictSubsetOrdering(Nat))
  BY <1>1, WFMin, FS_StrictSubsetOrderingWellFounded
<1>3. PICK x \in T : X = 0..x
  BY DEF Ends
<1>4. ASSUME NEW y \in T, y < x  PROVE FALSE
  <2>1. 0..y \in Ends /\ 0..y \subseteq 0..x /\ 0..y # 0..x
    BY <1>4 DEF Ends
  <2> QED  BY <1>1, <1>2, <1>3, <2>1 DEF StrictSubsetOrdering, FiniteSubsetsOf
<1> QED  BY <1>4

\* A set that has zero, and with a number below n the next one, has all up to n.
LEMMA UpToAll ==
  ASSUME NEW n \in Nat, NEW K, 0 \in K, \A k \in 0..(n - 1) : k \in K => k + 1 \in K
  PROVE  \A k \in 0..n : k \in K
<1> DEFINE Out == {k \in 0..n : k \notin K}
<1>1. CASE Out = {}
  BY <1>1
<1>2. CASE Out # {}
  <2>1. Out \subseteq Nat
    OBVIOUS
  <2>2. PICK x \in Out : \A y \in Out : x <= y
    BY <1>2, <2>1, Least
  <2>3. x \in 1..n /\ x - 1 \notin Out
    BY <2>2
  <2>4. x - 1 \in 0..(n - 1) /\ x - 1 \in K
    BY <2>3
  <2> QED  BY <2>2, <2>4
<1> QED  BY <1>1, <1>2

\* FlattenSeq puts sequences one after another.
LEMMA FlattenIs ==
  ASSUME NEW S, NEW seqs \in Seq(Seq(S))
  PROVE  /\ seqs = <<>> => FlattenSeq(seqs) = <<>>
         /\ \E f : /\ f \in [1..Len(seqs) -> Seq(S)]
                   /\ \A i \in 1..Len(seqs) : f[i] = IF i = 1 THEN seqs[1] ELSE f[i - 1] \o seqs[i]
                   /\ seqs # <<>> => FlattenSeq(seqs) = f[Len(seqs)]
<1> DEFINE n == Len(seqs)
           Body(f, k) == [i \in 1..k |-> IF i = 1 THEN seqs[i] ELSE f[i - 1] \o seqs[i]]
           K == {k \in 0..n : \E f : f \in [1..k -> Seq(S)] /\ f = Body(f, k)}
<1>1. n \in Nat /\ \A i \in 1..n : seqs[i] \in Seq(S)
  OBVIOUS
<1>2. 0 \in K
  <2> DEFINE e == [i \in 1..0 |-> <<>>]
  <2>1. e \in [1..0 -> Seq(S)] /\ e = Body(e, 0)
    OBVIOUS
  <2> HIDE DEF e
  <2>2. 0 \in 0..n
    BY <1>1
  <2> QED  BY <2>1, <2>2
<1>3. ASSUME NEW k \in 0..(n - 1), k \in K  PROVE k + 1 \in K
  <2>1. PICK f : f \in [1..k -> Seq(S)] /\ f = Body(f, k)
    BY <1>3
  <2>5. \A i \in 1..k : f[i] = IF i = 1 THEN seqs[i] ELSE f[i - 1] \o seqs[i]
    BY <2>1
  <2> DEFINE g == [i \in 1..(k + 1) |-> IF i <= k THEN f[i] ELSE IF i = 1 THEN seqs[i] ELSE f[i - 1] \o seqs[i]]
  <2>2. g \in [1..(k + 1) -> Seq(S)]
    <3>1. \A i \in 1..(k + 1) : i <= k \/ i = 1 \/ i - 1 \in 1..k
      BY <1>1
    <3>2. \A i \in 1..(k + 1) : i \in 1..n
      BY <1>1
    <3>3. ASSUME NEW i \in 1..(k + 1)  PROVE g[i] \in Seq(S)
      <4>1. CASE i <= k
        <5>1. i \in 1..k /\ g[i] = f[i]
          BY <4>1
        <5> QED  BY <2>1, <5>1
      <4>2. CASE ~(i <= k) /\ i = 1
        BY <1>1, <3>2, <4>2
      <4>3. CASE ~(i <= k) /\ i # 1
        <5>1. f[i - 1] \in Seq(S) /\ seqs[i] \in Seq(S)
          BY <1>1, <2>1, <3>1, <3>2, <4>3
        <5> QED  BY <4>3, <5>1
      <4> QED  BY <4>1, <4>2, <4>3
    <3> HIDE DEF g
    <3>4. g = [i \in 1..(k + 1) |-> g[i]]
      BY DEF g
    <3> QED  BY <3>3, <3>4
  <2>3. g = Body(g, k + 1)
    <3>1. ASSUME NEW i \in 1..(k + 1)  PROVE g[i] = IF i = 1 THEN seqs[i] ELSE g[i - 1] \o seqs[i]
      <4>1. CASE i <= k
        <5>0. i \in 1..k
          BY <4>1
        <5>1. g[i] = f[i] /\ (i # 1 => i - 1 \in 1..k /\ g[i - 1] = f[i - 1])
          BY <4>1
        <5>2. f[i] = IF i = 1 THEN seqs[i] ELSE f[i - 1] \o seqs[i]
          BY <2>5, <5>0
        <5> QED  BY <5>1, <5>2
      <4>2. CASE ~(i <= k)
        <5>1. i # 1 => i - 1 \in 1..k /\ g[i - 1] = f[i - 1]
          BY <4>2
        <5> QED  BY <4>2, <5>1
      <4> QED  BY <4>1, <4>2
    <3> HIDE DEF g
    <3>2. DOMAIN g = 1..(k + 1)
      BY DEF g
    <3> QED  BY <2>2, <3>1, <3>2
  <2> HIDE DEF g
  <2>4. k + 1 \in 0..n
    BY <1>1
  <2> QED  BY <2>2, <2>3, <2>4
<1> HIDE DEF K
<1>4. n \in K
  <2> HIDE DEF n
  <2>1. \A k \in 0..(n - 1) : k \in K => k + 1 \in K
    BY <1>3
  <2>2. \A k \in 0..n : k \in K
    BY <1>1, <1>2, <2>1, UpToAll
  <2> QED  BY <1>1, <2>2
<1>5. \E f : f = Body(f, n)
  BY <1>4 DEF K
<1> DEFINE h == CHOOSE f : f = Body(f, n)
<1>6. h = Body(h, n)
  BY <1>5
<1>7. h \in [1..n -> Seq(S)]
  <2> DEFINE T == {k \in 0..n : k = 0 \/ h[k] \in Seq(S)}
  <2>1. 0 \in T
    BY <1>1
  <2>2. \A i \in 1..n : h[i] = IF i = 1 THEN seqs[i] ELSE h[i - 1] \o seqs[i]
    BY <1>6
  <2> HIDE DEF h
  <2>3. ASSUME NEW k \in 0..(n - 1), k \in T  PROVE k + 1 \in T
    <3>1. k + 1 \in 1..n /\ (k + 1) - 1 = k /\ seqs[k + 1] \in Seq(S)
      BY <1>1
    <3>2. h[k + 1] = IF k + 1 = 1 THEN seqs[k + 1] ELSE h[k] \o seqs[k + 1]
      BY <2>2, <3>1
    <3>3. h[k + 1] \in Seq(S)
      <4>1. CASE k = 0
        BY <3>1, <3>2, <4>1
      <4>2. CASE k # 0
        <5>1. h[k] \in Seq(S) /\ k + 1 # 1
          BY <2>3, <4>2
        <5> QED  BY <3>1, <3>2, <5>1
      <4> QED  BY <4>1, <4>2
    <3> QED  BY <3>1, <3>3
  <2>4. \A k \in 0..n : k \in T
    <3> HIDE DEF T
    <3> QED  BY <1>1, <2>1, <2>3, UpToAll
  <2>5. \A i \in 1..n : h[i] \in Seq(S)
    BY <1>1, <2>4
  <2>6. DOMAIN h = 1..n /\ h = [i \in 1..n |-> h[i]]
    BY <1>6
  <2> QED  BY <2>5, <2>6
<1>8. seqs # <<>> => FlattenSeq(seqs) = h[n]
  BY DEF FlattenSeq
<1>9. seqs = <<>> => FlattenSeq(seqs) = <<>>
  BY DEF FlattenSeq
<1>10. \A i \in 1..n : h[i] = IF i = 1 THEN seqs[1] ELSE h[i - 1] \o seqs[i]
  BY <1>6
<1> HIDE DEF h
<1> QED  BY <1>7, <1>8, <1>9, <1>10
\* The elements of two sequences, one after the other.
LEMMA RangeOfTwo ==
  ASSUME NEW S, NEW s \in Seq(S), NEW t \in Seq(S)
  PROVE  s \o t \in Seq(S) /\ Range(s \o t) = Range(s) \union Range(t)
<1>1. /\ s \o t \in Seq(S) /\ Len(s) \in Nat /\ Len(t) \in Nat /\ Len(s \o t) = Len(s) + Len(t)
      /\ \A i \in 1..Len(s) : (s \o t)[i] = s[i]
      /\ \A i \in 1..Len(t) : (s \o t)[Len(s) + i] = t[i]
      /\ DOMAIN s = 1..Len(s) /\ DOMAIN t = 1..Len(t) /\ DOMAIN (s \o t) = 1..Len(s \o t)
  OBVIOUS
<1> DEFINE st == s \o t
<1> HIDE DEF st
<1>2. ASSUME NEW x \in Range(s) \union Range(t)  PROVE x \in Range(st)
  <2>1. CASE x \in Range(s)
    <3>1. PICK i \in 1..Len(s) : x = s[i]
      BY <1>1, <2>1 DEF Range
    <3>2. i \in DOMAIN st /\ st[i] = x
      BY <1>1, <3>1 DEF st
    <3> QED  BY <3>2 DEF Range
  <2>2. CASE x \in Range(t)
    <3>1. PICK i \in 1..Len(t) : x = t[i]
      BY <1>1, <2>2 DEF Range
    <3>2. Len(s) + i \in DOMAIN st /\ st[Len(s) + i] = x
      BY <1>1, <3>1 DEF st
    <3> QED  BY <3>2 DEF Range
  <2> QED  BY <1>2, <2>1, <2>2
<1>3. ASSUME NEW x \in Range(st)  PROVE x \in Range(s) \union Range(t)
  <2>1. PICK i \in 1..(Len(s) + Len(t)) : x = st[i]
    BY <1>1, <1>3 DEF Range, st
  <2>2. CASE i <= Len(s)
    <3>1. i \in DOMAIN s /\ x = s[i]
      BY <1>1, <2>1, <2>2 DEF st
    <3> QED  BY <3>1 DEF Range
  <2>3. CASE i > Len(s)
    <3>1. i - Len(s) \in 1..Len(t) /\ Len(s) + (i - Len(s)) = i
      BY <1>1, <2>1, <2>3
    <3>2. x = t[i - Len(s)]
      BY <1>1, <2>1, <3>1 DEF st
    <3> QED  BY <1>1, <3>1, <3>2 DEF Range
  <2> QED  BY <1>1, <2>1, <2>2, <2>3
<1> QED  BY <1>1, <1>2, <1>3 DEF st

\* What FlattenSeq gives has the elements of all the sequences.
LEMMA FlattenFacts ==
  ASSUME NEW S, NEW seqs \in Seq(Seq(S))
  PROVE  /\ FlattenSeq(seqs) \in Seq(S)
         /\ \A i \in DOMAIN seqs : Range(seqs[i]) \subseteq Range(FlattenSeq(seqs))
<1>1. CASE seqs = <<>>
  <2>1. FlattenSeq(seqs) = <<>>
    BY <1>1, FlattenIs
  <2>2. <<>> \in Seq(S) /\ DOMAIN seqs = {}
    BY <1>1
  <2> QED  BY <2>1, <2>2
<1>2. CASE seqs # <<>>
  <2> DEFINE n == Len(seqs)
  <2>1. n \in Nat \ {0} /\ DOMAIN seqs = 1..n /\ \A i \in 1..n : seqs[i] \in Seq(S)
    BY <1>2
  <2>2. PICK f : /\ f \in [1..n -> Seq(S)]
                 /\ \A i \in 1..n : f[i] = IF i = 1 THEN seqs[1] ELSE f[i - 1] \o seqs[i]
                 /\ FlattenSeq(seqs) = f[n]
    BY <1>2, FlattenIs
  <2> HIDE DEF n
  <2> DEFINE K == {k \in 0..n : \A i \in 1..k : Range(seqs[i]) \subseteq Range(f[k])}
  <2>3. 0 \in K
    BY <2>1
  <2>4. ASSUME NEW k \in 0..(n - 1), k \in K  PROVE k + 1 \in K
    <3>1. k + 1 \in 1..n /\ seqs[k + 1] \in Seq(S) /\ (k + 1) - 1 = k
      BY <2>1
    <3>2. CASE k = 0
      <4>1. f[1] = seqs[1]
        BY <2>1, <2>2
      <4>2. k + 1 = 1 /\ \A i \in 1..1 : i = 1
        BY <3>2
      <4>3. \A i \in 1..(k + 1) : Range(seqs[i]) \subseteq Range(f[k + 1])
        BY <4>1, <4>2
      <4> QED  BY <3>1, <4>3 DEF K
    <3>3. CASE k # 0
      <4>0. k \in 1..n /\ k + 1 # 1
        BY <2>1, <3>3
      <4>1. k \in 1..n /\ f[k] \in Seq(S) /\ f[k + 1] = f[k] \o seqs[k + 1]
        BY <2>2, <3>1, <4>0
      <4>2. Range(f[k + 1]) = Range(f[k]) \union Range(seqs[k + 1])
        BY <3>1, <4>1, RangeOfTwo
      <4>3. \A i \in 1..(k + 1) : i \in 1..k \/ i = k + 1
        BY <4>1
      <4>4. \A i \in 1..k : Range(seqs[i]) \subseteq Range(f[k])
        BY <2>4
      <4>5. \A i \in 1..(k + 1) : Range(seqs[i]) \subseteq Range(f[k + 1])
        BY <4>2, <4>3, <4>4
      <4> QED  BY <3>1, <4>5
    <3> QED  BY <3>2, <3>3
  <2> HIDE DEF K
  <2>5. \A k \in 0..n : k \in K
    BY <2>1, <2>3, <2>4, UpToAll
  <2>6. n \in K /\ n \in 1..n
    BY <2>1, <2>5
  <2> QED  BY <2>1, <2>2, <2>6 DEF K
<1> QED  BY <1>1, <1>2


\* A set of places has a last one, which Max finds.
LEMMA MaxIsThere ==
  ASSUME NEW n \in Nat, NEW T, T \subseteq 1..n, T # {}
  PROVE  Max(T) \in T
<1> DEFINE Back == {n - i : i \in T}
<1>1. \A i \in T : i \in 1..n /\ n - i \in Nat
  OBVIOUS
<1>2. Back \subseteq Nat /\ Back # {}
  BY <1>1
<1>5. PICK x \in Back : \A y \in Back : x <= y
  <2> HIDE DEF Back
  <2> QED  BY <1>2, Least
<1>3. PICK i \in T : x = n - i
  BY <1>5
<1>4. ASSUME NEW j \in T  PROVE i >= j
  <2>1. n - j \in Back
    OBVIOUS
  <2>2. n - i <= n - j
    BY <1>3, <1>5, <2>1
  <2> QED  BY <1>1, <2>2
<1> QED  BY <1>3, <1>4 DEF Max

LEMMA ListOfSet ==
  ASSUME NEW S, NEW T, T \subseteq S, IsFiniteSet(T)
  PROVE  SetToSeq(T) \in Seq(S)
<1> DEFINE n == Cardinality(T)
<1>1. n \in Nat /\ ExistsBijection(1..n, T)
  BY FS_CardinalityType
<1>2. PICK f : f \in [1..Cardinality(T) -> T] /\ IsInjective(f)
  BY <1>1 DEF ExistsBijection, Bijection, Injection
<1>3. SetToSeq(T) \in [1..Cardinality(T) -> T]
  BY <1>2 DEF SetToSeq
<1>4. SetToSeq(T) \in [1..n -> S]
  BY <1>1, <1>3
<1> DEFINE q == SetToSeq(T)
<1> HIDE DEF n, q
<1>5. q \in [1..n -> S] /\ n \in Nat
  BY <1>1, <1>4 DEF q
<1>6. q \in Seq(S)
  BY <1>5
<1> QED  BY <1>6 DEF q

-----------------------------------------------------------------------------
(* Names of tools *)

Changes == {"create", "update", "delete"}
ChangeOf(op, i) == <<op>> \o Under(NodeTypes[i].slug)
WellNamed(name) ==
  /\ name \in Text /\ name # <<>>
  /\ name[1] \in Changes =>
       \E i \in DOMAIN NodeTypes :
         /\ name = ChangeOf(name[1], i) /\ NodeTypes[i].exposed
         /\ name[1] = "delete" => NodeTypes[i].delete
Categories == {"crud", "query", "lookup", "aggregate", "relationship", "traversal"}
Operations == {"create", "get", "update", "delete", "query", "find", "lookup", "count", "connect", "disconnect", "get_related"}

\* Where a tool comes from, and what it is called then.
Permits(nt, op) ==
  (op = "create" => nt.create) /\ (op = "update" => nt.update) /\ (op = "delete" => nt.delete)
LookupFields(nt) == ({nt.primary} \union nt.keys) \intersect nt.attrs
NodeMade(t, nt) ==
  /\ t.type = nt.name
  /\ \/ /\ t.category = "crud" /\ t.op \in {"create", "get", "update", "delete"} /\ nt.exposed /\ Permits(nt, t.op)
        /\ t.name = nt.prefix \o <<t.op>> \o Under(nt.slug)
     \/ /\ \/ t.category = "query" /\ t.op = "query"
           \/ t.category = "aggregate" /\ t.op = "count"
        /\ t.name = nt.prefix \o <<t.op>> \o Under(PluralSlug(nt))
     \/ /\ t.category = "query" /\ t.op = "find"
        /\ \E to \in TypeNames :
             t.name = nt.prefix \o <<"find">> \o Under(PluralSlug(nt)) \o <<"_", "by">> \o Under(SlugOf(to))
     \/ /\ t.category = "lookup" /\ t.op = "lookup"
        /\ \E f \in LookupFields(nt) :
             t.name = nt.prefix \o <<"get">> \o Under(nt.slug) \o <<"_", "by">> \o Under(f)
Joining(op, pair) ==
  <<op>> \o Under(SlugOf(pair[1])) \o <<"_", IF op = "connect" THEN "to" ELSE "from">> \o Under(SlugOf(pair[2]))
EdgeMade(t, et) ==
  /\ t.type = et.name
  /\ \/ t.category = "traversal"
     \/ /\ t.category = "relationship" /\ t.op \in {"connect", "disconnect"}
        /\ \E pair \in Range(PairsOf(et)) : t.name = Joining(t.op, pair)
Made(t) ==
  \/ \E i \in DOMAIN NodeTypes : NodeMade(t, NodeTypes[i])
  \/ \E i \in DOMAIN EdgeTypes : EdgeMade(t, EdgeTypes[i])
GoodTools ==
  {t \in [name : Text, category : Categories, op : Operations, type : Pieces] : WellNamed(t.name) /\ Made(t)}

LEMMA TypeFacts ==
  ASSUME NEW i \in DOMAIN NodeTypes
  PROVE  /\ NodeTypes[i].name \in Pieces \ {None}
         /\ NodeTypes[i].slug \in Text /\ NodeTypes[i].plural \in Text /\ NodeTypes[i].prefix \in Text
         /\ NodeTypes[i].primary \in Text /\ NodeTypes[i].keys \subseteq Text /\ IsFiniteSet(NodeTypes[i].keys)
         /\ NodeTypes[i].attrs \subseteq Text
<1> DEFINE R == [name : Pieces \ {None}, slug : Text, plural : Text, prefix : Text, exposed : BOOLEAN,
                 create : BOOLEAN, update : BOOLEAN, delete : BOOLEAN, filters : BOOLEAN, primary : Text,
                 keys : SUBSET Text, attrs : SUBSET Text, orphans : BOOLEAN, shown : BOOLEAN, hidden : BOOLEAN]
<1>1. NodeTypes \in Seq(R)
  BY SchemaAssumption
<1>2. NodeTypes[i] \in R
  <2> HIDE DEF R
  <2> QED  BY <1>1
<1>3. IsFiniteSet(NodeTypes[i].keys)
  BY SchemaAssumption
<1> QED  BY <1>2, <1>3

LEMMA EdgeFacts ==
  ASSUME NEW i \in DOMAIN EdgeTypes
  PROVE  /\ EdgeTypes[i].name \in Pieces \ {None} /\ EdgeTypes[i].slug \in Text /\ EdgeTypes[i].alias \in Text
         /\ EdgeTypes[i].source \in Seq(TypeNames) /\ EdgeTypes[i].target \in Seq(TypeNames)
<1> DEFINE R == [name : Pieces \ {None}, slug : Text, alias : Text, traversable : BOOLEAN, source : Seq(TypeNames),
                 target : Seq(TypeNames), exposed : BOOLEAN, create : BOOLEAN, delete : BOOLEAN, agent : BOOLEAN]
<1>1. EdgeTypes \in Seq(R)
  BY SchemaAssumption
<1>2. EdgeTypes[i] \in R
  <2> HIDE DEF R
  <2> QED  BY <1>1
<1> QED  BY <1>2

LEMMA SlugIsText ==
  ASSUME NEW name \in TypeNames
  PROVE  SlugOf(name) \in Text
<1>1. PICK i \in DOMAIN NodeTypes : NodeTypes[i].name = name
  BY DEF TypeNames
<1>2. (CHOOSE j \in DOMAIN NodeTypes : NodeTypes[j].name = name) \in DOMAIN NodeTypes
  BY <1>1
<1> QED  BY <1>2, TypeFacts DEF SlugOf, NamedNode

\* Pieces put together: the first of them is the first of the name.
LEMMA PieceFacts ==
  /\ \A s, t \in Text : s \o t \in Text /\ (s # <<>> => s \o t # <<>> /\ (s \o t)[1] = s[1])
  /\ \A s \in Text : <<>> \o s = s
  /\ \A s \in Text : Under(s) \in Text
  /\ \A p \in Pieces : <<p>> \in Text /\ <<p>> # <<>> /\ <<p>>[1] = p
  /\ \A p, q \in Pieces : <<p, q>> \in Text
  /\ <<>> \in Text
<1>1. ASSUME NEW s \in Text, NEW t \in Text
      PROVE  s \o t \in Text /\ (s # <<>> => s \o t # <<>> /\ (s \o t)[1] = s[1])
  <2>1. s \in Seq(Pieces) /\ t \in Seq(Pieces) /\ Len(s) \in Nat /\ Len(t) \in Nat
    BY DEF Text
  <2>2. s \o t \in Seq(Pieces) /\ Len(s \o t) = Len(s) + Len(t) /\ \A i \in 1..Len(s) : (s \o t)[i] = s[i]
    BY <2>1
  <2>3. s # <<>> => 1 \in 1..Len(s) /\ Len(s) # 0
    BY <2>1
  <2> QED  BY <2>1, <2>2, <2>3 DEF Text
<1>2. ASSUME NEW s \in Text  PROVE <<>> \o s = s
  BY DEF Text
<1>3. ASSUME NEW p \in Pieces  PROVE <<p>> \in Text /\ <<p>> # <<>> /\ <<p>>[1] = p
  BY DEF Text
<1>4. \A p, q \in Pieces : <<p, q>> \in Text
  BY DEF Text
<1>5. <<>> \in Text
  BY DEF Text
<1>6. ASSUME NEW s \in Text  PROVE Under(s) \in Text
  BY <1>1, <1>3, SchemaAssumption DEF Under
<1> QED  BY <1>1, <1>2, <1>3, <1>4, <1>5, <1>6

LEMMA PluralIsText ==
  ASSUME NEW i \in DOMAIN NodeTypes
  PROVE  PluralSlug(NodeTypes[i]) \in Text
<1>1. NodeTypes[i].slug \in Seq(Pieces) /\ NodeTypes[i].plural \in Text
  BY TypeFacts DEF Text
<1>2. Append(NodeTypes[i].slug, "s") \in Text
  <2>1. "s" \in Pieces
    BY SchemaAssumption
  <2> QED  BY <1>1, <2>1 DEF Text
<1> QED  BY <1>1, <1>2 DEF PluralSlug, WithS

\* Names that do not begin with one of the operations that write: those of a
\* prefix or of another operation, whatever follows.
Reads(name) == name \in Text /\ name # <<>> /\ name[1] \notin Changes

LEMMA ReadsOn ==
  ASSUME NEW s, Reads(s), NEW t \in Text
  PROVE  Reads(s \o t)
BY PieceFacts DEF Reads

LEMMA ReadsFirst ==
  ASSUME NEW i \in DOMAIN NodeTypes, NEW op \in Pieces, op \notin Changes \/ NodeTypes[i].prefix # <<>>
  PROVE  Reads(NodeTypes[i].prefix \o <<op>>)
<1> DEFINE p == NodeTypes[i].prefix
           o == <<op>>
<1>1. p \in Text /\ (p # <<>> => p[1] \notin Changes) /\ o \in Text /\ o # <<>> /\ o[1] = op
  BY TypeFacts, NamesAssumption, PieceFacts DEF Changes
<1> HIDE DEF p, o
<1>2. CASE p = <<>>
  <2>1. p \o o = o /\ op \notin Changes
    BY <1>1, <1>2, PieceFacts DEF p
  <2> QED  BY <1>1, <2>1 DEF Reads, p, o
<1>3. CASE p # <<>>
  <2>1. Reads(p)
    BY <1>1, <1>3 DEF Reads
  <2>2. Reads(p \o o)
    BY <1>1, <2>1, ReadsOn
  <2> QED  BY <2>2 DEF p, o
<1> QED  BY <1>2, <1>3

LEMMA ReadsWell ==
  ASSUME NEW s, Reads(s)
  PROVE  WellNamed(s)
BY DEF Reads, WellNamed

LEMMA GoodTool ==
  ASSUME NEW name, WellNamed(name), NEW category \in Categories, NEW op \in Operations, NEW type \in Pieces,
         Made(Tool(name, category, op, type))
  PROVE  Tool(name, category, op, type) \in GoodTools
<1>1. WellNamed(name) => name \in Text
  BY DEF WellNamed
<1>2. Tool(name, category, op, type).name = name
  BY DEF Tool
<1>3. Tool(name, category, op, type) \in [name : Text, category : Categories, op : Operations, type : Pieces]
  BY <1>1 DEF Tool
<1> HIDE DEF Tool
<1> QED  BY <1>2, <1>3 DEF GoodTools

\* Sequences of tools, or of anything, put together from shorter ones.
LEMMA Together ==
  ASSUME NEW S
  PROVE  /\ <<>> \in Seq(S)
         /\ \A x \in S : <<x>> \in Seq(S)
         /\ \A s, t \in Seq(S) : s \o t \in Seq(S)
         /\ \A cond : \A s \in Seq(S) : When(cond, s) \in Seq(S)
<1>1. ASSUME NEW cond, NEW s \in Seq(S)  PROVE When(cond, s) \in Seq(S)
  <2>1. CASE cond
    BY <2>1 DEF When
  <2>2. CASE ~cond
    BY <2>2 DEF When
  <2> QED  BY <2>1, <2>2
<1> QED  BY <1>1

LEMMA OneWhen ==
  ASSUME NEW S, NEW cond, NEW x, cond => x \in S
  PROVE  When(cond, <<x>>) \in Seq(S)
<1>1. CASE cond
  BY <1>1, Together
<1>2. CASE ~cond
  BY <1>2, Together DEF When
<1> QED  BY <1>1, <1>2

LEMMA CrudToolsGood ==
  ASSUME NEW i \in DOMAIN NodeTypes, NodeTypes[i].exposed
  PROVE  CrudTools(NodeTypes[i]) \in Seq(GoodTools)
<1> DEFINE nt == NodeTypes[i]
           T(op) == Tool(nt.prefix \o <<op>> \o Under(nt.slug), "crud", op, nt.name)
<1>0. nt.prefix \in Text /\ nt.slug \in Text /\ Under(nt.slug) \in Text /\ nt.name \in Pieces
  BY TypeFacts, PieceFacts
<1>1. ASSUME NEW op \in {"create", "get", "update", "delete"}, Permits(nt, op)
      PROVE  T(op) \in GoodTools
  <2> DEFINE u == Under(nt.slug)
             o == <<op>>
  <2>1. u \in Text /\ op \in Pieces /\ o \in Text /\ o # <<>> /\ o[1] = op
    BY <1>0, PieceFacts, SchemaAssumption
  <2>2. WellNamed(nt.prefix \o o \o u)
    <3>1. CASE op \notin Changes \/ nt.prefix # <<>>
      <4>1. Reads(nt.prefix \o o)
        BY <2>1, <3>1, ReadsFirst
      <4> HIDE DEF o, u
      <4>2. Reads((nt.prefix \o o) \o u)
        BY <2>1, <4>1, ReadsOn
      <4> QED  BY <4>2, ReadsWell
    <3>2. CASE nt.prefix = <<>>
      <4>1. nt.prefix \o o = o
        BY <2>1, <3>2, PieceFacts
      <4> DEFINE x == o \o u
      <4>2. x = ChangeOf(op, i)
        BY DEF ChangeOf
      <4>3. x \in Text /\ x # <<>> /\ x[1] = op
        <5> HIDE DEF o, u
        <5> QED  BY <2>1, PieceFacts
      <4> HIDE DEF x
      <4>4. WellNamed(x)
        BY <1>1, <4>2, <4>3 DEF WellNamed, Permits
      <4> QED  BY <4>1, <4>4 DEF x
    <3> QED  BY <3>1, <3>2
  <2>3. op \in Operations /\ "crud" \in Categories
    BY DEF Operations, Categories
  <2>4. Made(T(op))
    <3>1. NodeMade(T(op), nt)
      BY <1>1 DEF NodeMade, Tool
    <3> QED  BY <3>1 DEF Made
  <2> QED  BY <1>0, <2>2, <2>3, <2>4, GoodTool
<1> HIDE DEF T
<1>2. /\ nt.create => T("create") \in GoodTools
      /\ T("get") \in GoodTools
      /\ nt.update => T("update") \in GoodTools
      /\ nt.delete => T("delete") \in GoodTools
  BY <1>1 DEF Permits
<1>3. /\ When(nt.create, <<T("create")>>) \in Seq(GoodTools) /\ <<T("get")>> \in Seq(GoodTools)
      /\ When(nt.update, <<T("update")>>) \in Seq(GoodTools) /\ When(nt.delete, <<T("delete")>>) \in Seq(GoodTools)
  BY <1>2, OneWhen, Together
<1>4. CrudTools(nt) = When(nt.create, <<T("create")>>) \o <<T("get")>> \o
                      When(nt.update, <<T("update")>>) \o When(nt.delete, <<T("delete")>>)
  BY DEF CrudTools, T
<1> QED  BY <1>3, <1>4, Together

LEMMA ReadingTool ==
  ASSUME NEW i \in DOMAIN NodeTypes, NEW name, Reads(name), NEW category \in Categories, NEW op \in Operations,
         NodeMade(Tool(name, category, op, NodeTypes[i].name), NodeTypes[i])
  PROVE  Tool(name, category, op, NodeTypes[i].name) \in GoodTools
<1>1. Made(Tool(name, category, op, NodeTypes[i].name))
  BY DEF Made
<1> QED  BY <1>1, GoodTool, ReadsWell, TypeFacts

LEMMA AliasesGood ==
  ASSUME NEW nt
  PROVE  Aliases(nt) \in Seq([alias : Text, target : TypeNames])
<1> DEFINE A == [alias : Text, target : TypeNames]
           To(et, types) == [i \in DOMAIN types |-> [alias |-> et.alias, target |-> types[i]]]
           Of(et) == When(et.traversable /\ Contains(et.source, nt.name), To(et, et.target)) \o
                     When(et.traversable /\ Contains(et.target, nt.name), To(et, et.source))
           seqs == [i \in DOMAIN EdgeTypes |-> Of(EdgeTypes[i])]
<1>1. ASSUME NEW i \in DOMAIN EdgeTypes, NEW types \in Seq(TypeNames)  PROVE To(EdgeTypes[i], types) \in Seq(A)
  <2>1. \A k \in 1..Len(types) : types[k] \in TypeNames
    OBVIOUS
  <2>2. To(EdgeTypes[i], types) \in [1..Len(types) -> A] /\ Len(types) \in Nat
    BY <2>1, EdgeFacts
  <2> QED  BY <2>2
<1>2. ASSUME NEW i \in DOMAIN EdgeTypes  PROVE Of(EdgeTypes[i]) \in Seq(A)
  <2>1. To(EdgeTypes[i], EdgeTypes[i].target) \in Seq(A) /\ To(EdgeTypes[i], EdgeTypes[i].source) \in Seq(A)
    BY <1>1, EdgeFacts
  <2> HIDE DEF To, A
  <2> QED  BY <2>1, Together
<1>3. Len(EdgeTypes) \in Nat /\ DOMAIN EdgeTypes = 1..Len(EdgeTypes)
  <2>1. PICK R : EdgeTypes \in Seq(R)
    BY SchemaAssumption
  <2> QED  BY <2>1
<1> HIDE DEF Of
<1>4. seqs \in [1..Len(EdgeTypes) -> Seq(A)]
  BY <1>2, <1>3
<1>5. seqs \in Seq(Seq(A))
  <2> HIDE DEF seqs, A
  <2> QED  BY <1>3, <1>4
<1>6. Aliases(nt) = FlattenSeq(seqs)
  BY DEF Aliases, Of
<1> HIDE DEF seqs, A
<1>7. Aliases(nt) \in Seq(A)
  BY <1>5, <1>6, FlattenFacts
<1> QED  BY <1>7 DEF A

LEMMA FindToolsGood ==
  ASSUME NEW i \in DOMAIN NodeTypes
  PROVE  FindTools(NodeTypes[i]) \in Seq(GoodTools)
<1> DEFINE nt == NodeTypes[i]
           all == Aliases(nt)
           firsts == {k \in DOMAIN all : \A j \in 1..(k - 1) : all[j].alias # all[k].alias}
           T(k) == Tool(nt.prefix \o <<"find">> \o Under(PluralSlug(nt)) \o <<"_", "by">> \o
                        Under(SlugOf(all[k].target)), "query", "find", nt.name)
           seqs == [k \in DOMAIN all |-> When(k \in firsts, <<T(k)>>)]
<1>1. Len(all) \in Nat /\ DOMAIN all = 1..Len(all) /\ \A k \in DOMAIN all : all[k].target \in TypeNames
  <2> DEFINE A == [alias : Text, target : TypeNames]
  <2>1. all \in Seq(A)
    BY AliasesGood
  <2> HIDE DEF all
  <2>2. Len(all) \in Nat /\ DOMAIN all = 1..Len(all) /\ \A k \in DOMAIN all : all[k] \in A
    <3> HIDE DEF A
    <3> QED  BY <2>1
  <2> QED  BY <2>2
<1>2. ASSUME NEW k \in DOMAIN all  PROVE T(k) \in GoodTools
  <2> DEFINE f == nt.prefix \o <<"find">>
             a == Under(PluralSlug(nt))
             c == Under(SlugOf(all[k].target))
             by == <<"_", "by">>
  <2>1. a \in Text /\ c \in Text /\ by \in Text
    BY <1>1, TypeFacts, PluralIsText, SlugIsText, PieceFacts, SchemaAssumption
  <2>2. Reads(f)
    BY ReadsFirst, SchemaAssumption DEF Changes
  <2>3. T(k) = Tool(f \o a \o by \o c, "query", "find", nt.name)
    OBVIOUS
  <2>6. NodeMade(T(k), nt)
    BY <1>1 DEF NodeMade, Tool
  <2> HIDE DEF f, a, c, by
  <2>4. Reads(f \o a \o by \o c)
    BY <2>1, <2>2, ReadsOn
  <2>5. "query" \in Categories /\ "find" \in Operations
    BY DEF Categories, Operations
  <2> HIDE DEF T
  <2> QED  BY <2>3, <2>4, <2>5, <2>6, ReadingTool
<1> HIDE DEF T, all, firsts
<1>3. seqs \in [1..Len(all) -> Seq(GoodTools)]
  BY <1>1, <1>2, Together
<1>4. seqs \in Seq(Seq(GoodTools))
  <2> HIDE DEF seqs
  <2> QED  BY <1>1, <1>3
<1>5. FindTools(nt) = When(nt.filters, FlattenSeq(seqs))
  BY DEF FindTools, T, all, firsts
<1> HIDE DEF seqs
<1> QED  BY <1>4, <1>5, FlattenFacts, Together

LEMMA OtherToolsGood ==
  ASSUME NEW i \in DOMAIN NodeTypes
  PROVE  /\ QueryTools(NodeTypes[i]) \in Seq(GoodTools) /\ CountTools(NodeTypes[i]) \in Seq(GoodTools)
         /\ LookupTools(NodeTypes[i]) \in Seq(GoodTools)
<1> DEFINE nt == NodeTypes[i]
           p == nt.prefix
           a == Under(PluralSlug(nt))
           u == Under(nt.slug)
           by == <<"_", "by">>
           get == p \o <<"get">>
           query == p \o <<"query">>
           count == p \o <<"count">>
<1>1. a \in Text /\ u \in Text /\ by \in Text
  BY TypeFacts, PluralIsText, PieceFacts, SchemaAssumption
<1>2. /\ "query" \in Categories /\ "query" \in Operations /\ "aggregate" \in Categories
      /\ "count" \in Operations /\ "lookup" \in Categories /\ "lookup" \in Operations
  BY DEF Categories, Operations
<1>3. Reads(get) /\ Reads(query) /\ Reads(count)
  BY ReadsFirst, SchemaAssumption DEF Changes
<1>4. QueryTools(nt) = <<Tool(query \o a, "query", "query", nt.name)>>
  BY DEF QueryTools
<1>5. CountTools(nt) = <<Tool(count \o a, "aggregate", "count", nt.name)>>
  BY DEF CountTools
<1> DEFINE fields == ({nt.primary} \union nt.keys) \intersect nt.attrs
           T(f) == Tool(get \o u \o by \o Under(f), "lookup", "lookup", nt.name)
           tools == {T(f) : f \in fields}
<1>6. LookupTools(nt) = SetToSeq(tools)
  BY DEF LookupTools
<1>14. NodeMade(Tool(query \o a, "query", "query", nt.name), nt) /\ NodeMade(Tool(count \o a, "aggregate", "count", nt.name), nt)
  BY DEF NodeMade, Tool
<1>15. ASSUME NEW f \in fields  PROVE NodeMade(T(f), nt)
  BY DEF NodeMade, Tool, LookupFields
<1>7. fields \subseteq Text /\ IsFiniteSet(fields)
  <2>1. IsFiniteSet({nt.primary} \union nt.keys)
    BY TypeFacts, FS_Singleton, FS_Union
  <2>2. fields \subseteq {nt.primary} \union nt.keys
    OBVIOUS
  <2> QED  BY <2>1, <2>2, FS_Subset, TypeFacts
<1> HIDE DEF get, query, count, a, u, by, fields
<1>8. Tool(query \o a, "query", "query", nt.name) \in GoodTools
  BY <1>1, <1>2, <1>3, <1>14, ReadsOn, ReadingTool
<1>9. Tool(count \o a, "aggregate", "count", nt.name) \in GoodTools
  BY <1>1, <1>2, <1>3, <1>14, ReadsOn, ReadingTool
<1>10. ASSUME NEW f \in fields  PROVE T(f) \in GoodTools
  <2> DEFINE v == Under(f)
  <2>1. v \in Text
    BY <1>7, PieceFacts
  <2> HIDE DEF v
  <2>2. Reads(get \o u \o by \o v)
    BY <1>1, <1>3, <2>1, ReadsOn
  <2>4. T(f) = Tool(get \o u \o by \o v, "lookup", "lookup", nt.name)
    BY DEF v
  <2>5. NodeMade(Tool(get \o u \o by \o v, "lookup", "lookup", nt.name), nt)
    BY <1>15, <2>4
  <2>3. Tool(get \o u \o by \o v, "lookup", "lookup", nt.name) \in GoodTools
    BY <1>2, <2>2, <2>5, ReadingTool
  <2> QED  BY <2>3 DEF v
<1> HIDE DEF T
<1>11. tools \subseteq GoodTools
  BY <1>10
<1>12. IsFiniteSet(tools)
  <2> DEFINE named == [f \in fields |-> T(f)]
  <2>1. named \in Surjection(fields, tools)
    BY DEF Surjection
  <2> HIDE DEF named, tools
  <2> QED  BY <1>7, <2>1, FS_Surjection
<1> HIDE DEF tools
<1>13. LookupTools(nt) \in Seq(GoodTools)
  BY <1>6, <1>11, <1>12, ListOfSet
<1> QED  BY <1>4, <1>5, <1>8, <1>9, <1>13, Together

LEMMA PairsGood ==
  ASSUME NEW i \in DOMAIN EdgeTypes
  PROVE  PairsOf(EdgeTypes[i]) \in Seq(TypeNames \X TypeNames)
<1> DEFINE et == EdgeTypes[i]
           row(k) == [j \in DOMAIN et.target |-> <<et.source[k], et.target[j]>>]
           seqs == [k \in DOMAIN et.source |-> row(k)]
<1>1. /\ Len(et.source) \in Nat /\ DOMAIN et.source = 1..Len(et.source)
      /\ Len(et.target) \in Nat /\ DOMAIN et.target = 1..Len(et.target)
      /\ \A k \in DOMAIN et.source : et.source[k] \in TypeNames
      /\ \A k \in DOMAIN et.target : et.target[k] \in TypeNames
  BY EdgeFacts
<1>2. ASSUME NEW k \in DOMAIN et.source  PROVE row(k) \in Seq(TypeNames \X TypeNames)
  <2>1. row(k) \in [1..Len(et.target) -> TypeNames \X TypeNames]
    BY <1>1
  <2> QED  BY <1>1, <2>1
<1> HIDE DEF row
<1>3. seqs \in [1..Len(et.source) -> Seq(TypeNames \X TypeNames)]
  BY <1>1, <1>2
<1>4. seqs \in Seq(Seq(TypeNames \X TypeNames))
  <2> HIDE DEF seqs
  <2> QED  BY <1>1, <1>3
<1>5. PairsOf(et) = FlattenSeq(seqs)
  BY DEF PairsOf, row
<1> HIDE DEF seqs
<1> QED  BY <1>4, <1>5, FlattenFacts

LEMMA EdgeToolsGood ==
  ASSUME NEW i \in DOMAIN EdgeTypes
  PROVE  EdgeTools(EdgeTypes[i]) \in Seq(GoodTools)
<1> DEFINE et == EdgeTypes[i]
           pairs == PairsOf(et)
           T(op, pair, link) == Tool(<<op>> \o Under(SlugOf(pair[1])) \o <<"_", link>> \o Under(SlugOf(pair[2])),
                                     "relationship", op, et.name)
           V(pair) == Tool(<<"get">> \o Under(SlugOf(pair[1])) \o Under(SlugOf(pair[2])) \o <<"_", "via">> \o Under(et.slug),
                           "traversal", "get_related", et.name)
           Of(pair) == When(et.create, <<T("connect", pair, "to")>>) \o
                       When(et.delete, <<T("disconnect", pair, "from")>>) \o <<V(pair)>>
           seqs == [k \in DOMAIN pairs |-> Of(pairs[k])]
<1>1. /\ "relationship" \in Categories /\ "traversal" \in Categories
      /\ {"connect", "disconnect", "get_related"} \subseteq Operations
  BY DEF Categories, Operations
<1>2. ASSUME NEW op \in {"connect", "disconnect", "get"}  PROVE Reads(<<op>>)
  <2>1. op \in Pieces /\ op \notin Changes
    BY SchemaAssumption DEF Changes
  <2> QED  BY <2>1, PieceFacts DEF Reads
<1>3. ASSUME NEW pair \in TypeNames \X TypeNames, pair \in Range(pairs)  PROVE Of(pair) \in Seq(GoodTools)
  <2> DEFINE a == Under(SlugOf(pair[1]))
             b == Under(SlugOf(pair[2]))
             c == Under(et.slug)
  <2>1. a \in Text /\ b \in Text /\ c \in Text
    BY EdgeFacts, SlugIsText, PieceFacts
  <2>2. et.name \in Pieces
    BY EdgeFacts
  <2>3. ASSUME NEW op \in {"connect", "disconnect"}, NEW link, link = IF op = "connect" THEN "to" ELSE "from"
        PROVE  T(op, pair, link) \in GoodTools
    <3> DEFINE o == <<op>>
               l == <<"_", link>>
    <3>1. Reads(o) /\ l \in Text
      BY <1>2, <2>3, PieceFacts, SchemaAssumption
    <3>2. T(op, pair, link) = Tool(o \o a \o l \o b, "relationship", op, et.name)
      OBVIOUS
    <3>4. Made(T(op, pair, link))
      <4>1. EdgeMade(T(op, pair, link), et)
        BY <1>3, <2>3 DEF EdgeMade, Tool, Joining
      <4> QED  BY <4>1 DEF Made
    <3> HIDE DEF o, l, a, b
    <3>3. Reads(o \o a \o l \o b)
      BY <2>1, <3>1, ReadsOn
    <3> HIDE DEF T
    <3> QED  BY <1>1, <2>2, <3>2, <3>3, <3>4, ReadsWell, GoodTool
  <2>4. V(pair) \in GoodTools
    <3> DEFINE o == <<"get">>
               l == <<"_", "via">>
    <3>1. Reads(o) /\ l \in Text
      BY <1>2, PieceFacts, SchemaAssumption
    <3>2. V(pair) = Tool(o \o a \o b \o l \o c, "traversal", "get_related", et.name)
      OBVIOUS
    <3>4. Made(V(pair))
      <4>1. EdgeMade(V(pair), et)
        BY DEF EdgeMade, Tool
      <4> QED  BY <4>1 DEF Made
    <3> HIDE DEF o, l, a, b, c
    <3>3. Reads(o \o a \o b \o l \o c)
      BY <2>1, <3>1, ReadsOn
    <3> HIDE DEF V
    <3> QED  BY <1>1, <2>2, <3>2, <3>3, <3>4, ReadsWell, GoodTool
  <2>5. /\ T("connect", pair, "to") \in GoodTools /\ T("disconnect", pair, "from") \in GoodTools
    BY <2>3
  <2> HIDE DEF T, V, a, b, c
  <2> QED  BY <2>4, <2>5, Together
<1> HIDE DEF Of
<1>4. pairs \in Seq(TypeNames \X TypeNames)
  BY PairsGood
<1>5. /\ Len(pairs) \in Nat /\ DOMAIN pairs = 1..Len(pairs)
      /\ \A k \in DOMAIN pairs : pairs[k] \in TypeNames \X TypeNames /\ pairs[k] \in Range(pairs)
  <2> HIDE DEF pairs
  <2> QED  BY <1>4 DEF Range
<1>6. seqs \in Seq(Seq(GoodTools))
  <2>1. seqs \in [1..Len(pairs) -> Seq(GoodTools)]
    BY <1>3, <1>5
  <2> HIDE DEF seqs, pairs
  <2> QED  BY <1>5, <2>1
<1>7. EdgeTools(et) = When(et.exposed, FlattenSeq(seqs))
  BY DEF EdgeTools, Of, T, V
<1> HIDE DEF seqs
<1> QED  BY <1>6, <1>7, FlattenFacts, Together

LEMMA AllToolsGood ==
  AllTools \in Seq(GoodTools)
<1> DEFINE ns == [i \in DOMAIN NodeTypes |-> NodeTools(NodeTypes[i])]
           es == [i \in DOMAIN EdgeTypes |-> EdgeTools(EdgeTypes[i])]
<1>1. Len(NodeTypes) \in Nat /\ DOMAIN NodeTypes = 1..Len(NodeTypes)
  <2>1. PICK R : NodeTypes \in Seq(R)
    BY SchemaAssumption
  <2> QED  BY <2>1
<1>2. Len(EdgeTypes) \in Nat /\ DOMAIN EdgeTypes = 1..Len(EdgeTypes)
  <2>1. PICK R : EdgeTypes \in Seq(R)
    BY SchemaAssumption
  <2> QED  BY <2>1
<1>3. ASSUME NEW i \in DOMAIN NodeTypes  PROVE NodeTools(NodeTypes[i]) \in Seq(GoodTools)
  <2>1. CASE NodeTypes[i].exposed
    BY <2>1, CrudToolsGood, FindToolsGood, OtherToolsGood, Together DEF NodeTools
  <2>2. CASE ~NodeTypes[i].exposed
    BY <2>2, Together DEF NodeTools, When
  <2> QED  BY <2>1, <2>2
<1>4. ns \in Seq(Seq(GoodTools))
  <2>1. ns \in [1..Len(NodeTypes) -> Seq(GoodTools)]
    BY <1>1, <1>3
  <2> HIDE DEF ns
  <2> QED  BY <1>1, <2>1
<1>5. es \in Seq(Seq(GoodTools))
  <2>1. es \in [1..Len(EdgeTypes) -> Seq(GoodTools)]
    BY <1>2, EdgeToolsGood
  <2> HIDE DEF es
  <2> QED  BY <1>2, <2>1
<1>6. AllTools = FlattenSeq(ns) \o FlattenSeq(es)
  BY DEF AllTools
<1> HIDE DEF ns, es
<1> QED  BY <1>4, <1>5, <1>6, FlattenFacts, Together

LEMMA NamesGood ==
  ASSUME NEW name \in ToolNames
  PROVE  WellNamed(name)
<1>1. PICK i \in DOMAIN AllTools : name = AllTools[i].name
  BY DEF ToolNames
<1>2. AllTools[i] \in GoodTools
  BY <1>1, AllToolsGood
<1> QED  BY <1>1, <1>2 DEF GoodTools

-----------------------------------------------------------------------------
(* An operation and a slug *)

LEMMA InFront ==
  ASSUME NEW S, NEW s \in Seq(S), NEW a \in S, NEW n, n = <<a>> \o s
  PROVE  n \in Seq(S) /\ Len(n) = Len(s) + 1 /\ n[1] = a /\ \A k \in 1..Len(s) : n[k + 1] = s[k]
<1> DEFINE o == <<a>>
<1>1. o \in Seq(S) /\ Len(o) = 1 /\ o[1] = a
  OBVIOUS
<1>2. n = o \o s
  OBVIOUS
<1> HIDE DEF o
<1>3. Len(s) \in Nat
  OBVIOUS
<1>4. /\ o \o s \in Seq(S) /\ Len(o \o s) = Len(o) + Len(s)
      /\ \A k \in 1..(Len(o) + Len(s)) : (o \o s)[k] = IF k <= Len(o) THEN o[k] ELSE s[k - Len(o)]
  BY <1>1, ConcatProperties
<1>5. n \in Seq(S) /\ Len(n) = 1 + Len(s) /\ \A k \in 1..(1 + Len(s)) : n[k] = IF k <= 1 THEN o[k] ELSE s[k - 1]
  BY <1>1, <1>2, <1>4
<1>6. Len(n) = Len(s) + 1 /\ n[1] = a
  BY <1>1, <1>3, <1>5
<1>7. ASSUME NEW k \in 1..Len(s)  PROVE n[k + 1] = s[k]
  <2>1. k + 1 \in 1..(1 + Len(s)) /\ ~(k + 1 <= 1) /\ (k + 1) - 1 = k
    BY <1>3
  <2> QED  BY <1>5, <2>1
<1> QED  BY <1>5, <1>6, <1>7

LEMMA WithoutTwo ==
  ASSUME NEW S, NEW s \in Seq(S), NEW n \in Seq(S), Len(n) = Len(s) + 2, \A k \in 1..Len(s) : n[k + 2] = s[k]
  PROVE  SubSeq(n, 3, Len(n)) = s
<1> DEFINE t == SubSeq(n, 3, Len(n))
<1>1. Len(s) \in Nat /\ Len(n) \in Int /\ Len(n) = Len(s) + 2
  OBVIOUS
<1>2. \A i \in 3..Len(n) : n[i] \in S
  OBVIOUS
<1>3. /\ t \in Seq(S)
      /\ Len(t) = IF 3 <= Len(n) THEN Len(n) - 3 + 1 ELSE 0
      /\ \A i \in 1..(Len(n) - 3 + 1) : t[i] = n[3 + i - 1]
  BY <1>1, <1>2, SubSeqProperties
<1> HIDE DEF t
<1>4. Len(t) = Len(s)
  BY <1>1, <1>3
<1>5. ASSUME NEW k \in 1..Len(s)  PROVE t[k] = s[k]
  <2>1. k \in 1..(Len(n) - 3 + 1) /\ 3 + k - 1 = k + 2
    BY <1>1
  <2> QED  BY <1>3, <2>1
<1>6. t = s
  BY <1>3, <1>4, <1>5, SeqEqual
<1> QED  BY <1>6 DEF t

LEMMA TwoInFront ==
  ASSUME NEW S, NEW s \in Seq(S), NEW a \in S, NEW b \in S, NEW n, n = <<a>> \o (<<b>> \o s)
  PROVE  Len(n) > 1 /\ n[1] = a /\ n[2] = b /\ SubSeq(n, 3, Len(n)) = s
<1>1. PICK t : t = <<b>> \o s /\ n = <<a>> \o t
  OBVIOUS
<1>2. t \in Seq(S) /\ Len(t) = Len(s) + 1 /\ t[1] = b /\ \A k \in 1..Len(s) : t[k + 1] = s[k]
  BY <1>1, InFront
<1>3. n \in Seq(S) /\ Len(n) = Len(t) + 1 /\ n[1] = a /\ \A k \in 1..Len(t) : n[k + 1] = t[k]
  BY <1>1, <1>2, InFront
<1>4. Len(s) \in Nat
  OBVIOUS
<1>5. Len(n) = Len(s) + 2 /\ n[2] = b
  <2>1. 1 \in 1..Len(t) /\ 1 + 1 = 2
    BY <1>2, <1>4
  <2>2. n[1 + 1] = t[1]
    BY <1>3, <2>1
  <2> QED  BY <1>2, <1>3, <1>4, <2>1, <2>2
<1>6. ASSUME NEW k \in 1..Len(s)  PROVE n[k + 2] = s[k]
  <2>1. k + 1 \in 1..Len(t) /\ (k + 1) + 1 = k + 2
    BY <1>2, <1>4
  <2> QED  BY <1>2, <1>3, <2>1
<1>7. SubSeq(n, 3, Len(n)) = s
  BY <1>3, <1>5, <1>6, WithoutTwo
<1> QED  BY <1>3, <1>4, <1>5, <1>7

\* A name that is put together of an operation and a slug comes apart again.
LEMMA ChangeNames ==
  ASSUME NEW i \in DOMAIN NodeTypes, NEW op \in Changes
  PROVE  LET n == ChangeOf(op, i)
         IN Starts(n, op) /\ n[1] = op /\ Rest(n) = NodeTypes[i].slug
<1> DEFINE s == NodeTypes[i].slug
           n == ChangeOf(op, i)
<1>1. s \in Seq(Pieces)
  BY TypeFacts DEF Text
<1>2. PICK b : b = "_"
  OBVIOUS
<1>3. op \in Pieces /\ b \in Pieces
  BY <1>2, SchemaAssumption DEF Changes
<1>4. n = <<op>> \o (<<b>> \o s)
  BY <1>2 DEF ChangeOf, Under
<1>5. Len(n) > 1 /\ n[1] = op /\ n[2] = b /\ SubSeq(n, 3, Len(n)) = s
  <2> HIDE DEF n, s
  <2> QED  BY <1>1, <1>3, <1>4, TwoInFront
<1> QED  BY <1>2, <1>5 DEF Starts, Rest

-----------------------------------------------------------------------------
(* Rules of tools *)

Words == Pieces \union {"read", "write", "node", "edge"}
Writing(x, i) == x.tool = ChangeOf(x.tool[1], i) /\ x.required = <<"write", "node", NodeTypes[i].name>>
Guards(x) ==
  /\ x.tool # <<>>
  /\ x.tool[1] = "delete" => x.confirm /\ x.destructive
  /\ x.tool[1] \in Changes => \E i \in DOMAIN NodeTypes : Writing(x, i)
GoodRules ==
  {x \in [tool : Text, required : Seq(Words), destructive : BOOLEAN, confirm : BOOLEAN, agent : BOOLEAN] : Guards(x)}

LEMMA GoodRule ==
  ASSUME NEW op \in Pieces, NEW s \in Text, NEW required \in Seq(Words), NEW destructive \in BOOLEAN,
         NEW confirm \in BOOLEAN, NEW agent \in BOOLEAN, op = "delete" => confirm /\ destructive,
         op \in Changes => \E i \in DOMAIN NodeTypes :
                             s = Under(NodeTypes[i].slug) /\ required = <<"write", "node", NodeTypes[i].name>>
  PROVE  Rule(<<op>> \o s, required, destructive, confirm, agent) \in GoodRules
<1> DEFINE name == <<op>> \o s
<1>1. name \in Text /\ name # <<>> /\ name[1] = op
  BY PieceFacts
<1>3. op \in Changes => \E i \in DOMAIN NodeTypes :
                          name = ChangeOf(op, i) /\ required = <<"write", "node", NodeTypes[i].name>>
  BY DEF ChangeOf
<1> HIDE DEF name
<1>2. Rule(name, required, destructive, confirm, agent) \in GoodRules
  BY <1>1, <1>3 DEF GoodRules, Guards, Writing, Rule
<1> QED  BY <1>2 DEF name

LEMMA NodeRulesGood ==
  ASSUME NEW i \in DOMAIN NodeTypes
  PROVE  /\ NodeRules(NodeTypes[i]) \in Seq(GoodRules)
         /\ \A op \in Changes : NodeTypes[i].exposed /\ Permits(NodeTypes[i], op) =>
              \E x \in Range(NodeRules(NodeTypes[i])) : x.tool = ChangeOf(op, i)
<1> DEFINE nt == NodeTypes[i]
           u == Under(nt.slug)
           w == Under(PluralSlug(nt))
           Write(op, danger) == Rule(<<op>> \o u, <<"write", "node", nt.name>>, danger, danger, nt.shown /\ ~nt.hidden)
           Read(name) == Rule(name, <<"read", "node", nt.name>>, FALSE, FALSE, nt.shown)
           made == When(nt.create, <<Write("create", FALSE)>>)
           reads == <<Read(<<"get">> \o u), Read(<<"list">> \o w), Read(<<"search">> \o w)>>
           changed == When(nt.update, <<Write("update", FALSE)>>)
           last == When(nt.delete, <<Write("delete", TRUE)>>)
<1>1. u \in Text /\ w \in Text /\ nt.name \in Pieces
  BY TypeFacts, PluralIsText, PieceFacts
<1>2. nt.shown \in BOOLEAN
  <2> DEFINE R == [name : Pieces \ {None}, slug : Text, plural : Text, prefix : Text, exposed : BOOLEAN,
                   create : BOOLEAN, update : BOOLEAN, delete : BOOLEAN, filters : BOOLEAN, primary : Text,
                   keys : SUBSET Text, attrs : SUBSET Text, orphans : BOOLEAN, shown : BOOLEAN, hidden : BOOLEAN]
  <2>1. NodeTypes \in Seq(R)
    BY SchemaAssumption
  <2>2. NodeTypes[i] \in R
    <3> HIDE DEF R
    <3> QED  BY <2>1
  <2> QED  BY <2>2
<1>3. <<"write", "node", nt.name>> \in Seq(Words) /\ <<"read", "node", nt.name>> \in Seq(Words)
  BY <1>1 DEF Words
<1>4. {"create", "get", "list", "search", "update", "delete"} \subseteq Pieces
  BY SchemaAssumption
<1> HIDE DEF u, w
<1>5. Write("create", FALSE) \in GoodRules /\ Write("update", FALSE) \in GoodRules /\ Write("delete", TRUE) \in GoodRules
  <2>1. \E j \in DOMAIN NodeTypes :
          u = Under(NodeTypes[j].slug) /\ <<"write", "node", nt.name>> = <<"write", "node", NodeTypes[j].name>>
    BY DEF u
  <2> QED  BY <1>1, <1>3, <1>4, <2>1, GoodRule
<1>6. \A op \in {"get", "list", "search"} : Read(<<op>> \o u) \in GoodRules /\ Read(<<op>> \o w) \in GoodRules
  BY <1>1, <1>2, <1>3, <1>4, GoodRule DEF Changes
<1>7. \A op, danger : Write(op, danger).tool = ChangeOf(op, i)
  BY DEF Rule, ChangeOf, u
<1>8. NodeRules(nt) = When(nt.exposed, (made \o reads) \o changed \o last)
  <2>1. NodeRules(nt) =
          When(nt.exposed,
            When(nt.create, <<Write("create", FALSE)>>) \o
            <<Read(<<"get">> \o u), Read(<<"list">> \o w), Read(<<"search">> \o w)>> \o
            When(nt.update, <<Write("update", FALSE)>>) \o
            When(nt.delete, <<Write("delete", TRUE)>>))
    BY DEF NodeRules, u, w
  <2> QED  BY <2>1
<1> HIDE DEF Write, Read
<1>9. made \in Seq(GoodRules) /\ reads \in Seq(GoodRules) /\ changed \in Seq(GoodRules) /\ last \in Seq(GoodRules)
  <2>1. reads \in Seq(GoodRules)
    BY <1>6
  <2> HIDE DEF reads
  <2> QED  BY <1>5, <2>1, Together
<1>11. ASSUME NEW x, NEW cond, cond  PROVE x \in Range(When(cond, <<x>>))
  <2> DEFINE o == <<x>>
  <2>1. 1 \in DOMAIN o /\ o[1] = x
    OBVIOUS
  <2>2. When(cond, <<x>>) = o
    BY <1>11 DEF When
  <2> HIDE DEF o
  <2> QED  BY <2>1, <2>2 DEF Range
<1>10. ASSUME NEW op \in Changes, nt.exposed, Permits(nt, op)
       PROVE  \E x \in Range(NodeRules(nt)) : x.tool = ChangeOf(op, i)
  <2>1. PICK x : x.tool = ChangeOf(op, i) /\ x \in Range(made) \union Range(changed) \union Range(last)
    <3>1. CASE op = "create"
      <4>1. Write("create", FALSE) \in Range(made)
        BY <1>10, <1>11, <3>1 DEF Permits
      <4> QED  BY <1>7, <3>1, <4>1
    <3>2. CASE op = "update"
      <4>1. Write("update", FALSE) \in Range(changed)
        BY <1>10, <1>11, <3>2 DEF Permits
      <4> QED  BY <1>7, <3>2, <4>1
    <3>3. CASE op = "delete"
      <4>1. Write("delete", TRUE) \in Range(last)
        BY <1>10, <1>11, <3>3 DEF Permits
      <4> QED  BY <1>7, <3>3, <4>1
    <3> QED  BY <3>1, <3>2, <3>3 DEF Changes
  <2> HIDE DEF made, reads, changed, last
  <2>2. made \o reads \in Seq(GoodRules) /\ (made \o reads) \o changed \in Seq(GoodRules)
    BY <1>9, Together
  <2>3. Range(((made \o reads) \o changed) \o last) =
          ((Range(made) \union Range(reads)) \union Range(changed)) \union Range(last)
    <3>1. Range(made \o reads) = Range(made) \union Range(reads)
      BY <1>9, RangeOfTwo
    <3>2. Range((made \o reads) \o changed) = Range(made \o reads) \union Range(changed)
      BY <1>9, <2>2, RangeOfTwo
    <3>3. Range(((made \o reads) \o changed) \o last) = Range((made \o reads) \o changed) \union Range(last)
      BY <1>9, <2>2, RangeOfTwo
    <3> QED  BY <3>1, <3>2, <3>3
  <2>4. NodeRules(nt) = ((made \o reads) \o changed) \o last
    BY <1>8, <1>10 DEF When
  <2>5. x \in Range(NodeRules(nt))
    BY <2>1, <2>3, <2>4
  <2> QED  BY <2>1, <2>5
<1> HIDE DEF made, reads, changed, last
<1>12. (made \o reads) \o changed \o last \in Seq(GoodRules)
  BY <1>9, Together
<1> QED  BY <1>8, <1>10, <1>12, Together

LEMMA EdgeRulesGood ==
  ASSUME NEW i \in DOMAIN EdgeTypes
  PROVE  EdgeRules(EdgeTypes[i]) \in Seq(GoodRules)
<1> DEFINE et == EdgeTypes[i]
           pairs == PairsOf(et)
           Write(op, pair, link, danger) ==
             Rule(<<op>> \o Under(SlugOf(pair[1])) \o <<"_", link>> \o Under(SlugOf(pair[2])),
                  <<"write", "edge", et.name>>, danger, FALSE, et.agent)
           Of(pair) == When(et.create, <<Write("connect", pair, "to", FALSE)>>) \o
                       When(et.delete, <<Write("disconnect", pair, "from", TRUE)>>)
           seqs == [k \in DOMAIN pairs |-> Of(pairs[k])]
<1>1. et.agent \in BOOLEAN /\ et.name \in Pieces
  <2> DEFINE R == [name : Pieces \ {None}, slug : Text, alias : Text, traversable : BOOLEAN, source : Seq(TypeNames),
                   target : Seq(TypeNames), exposed : BOOLEAN, create : BOOLEAN, delete : BOOLEAN, agent : BOOLEAN]
  <2>1. EdgeTypes \in Seq(R)
    BY SchemaAssumption
  <2>2. EdgeTypes[i] \in R
    <3> HIDE DEF R
    <3> QED  BY <2>1
  <2> QED  BY <2>2
<1>2. <<"write", "edge", et.name>> \in Seq(Words)
  BY <1>1 DEF Words
<1>3. ASSUME NEW pair \in TypeNames \X TypeNames  PROVE Of(pair) \in Seq(GoodRules)
  <2> DEFINE a == Under(SlugOf(pair[1]))
             b == Under(SlugOf(pair[2]))
  <2>1. a \in Text /\ b \in Text
    BY SlugIsText, PieceFacts
  <2>2. ASSUME NEW op \in {"connect", "disconnect"}, NEW link \in {"to", "from"}, NEW danger \in BOOLEAN
        PROVE  Write(op, pair, link, danger) \in GoodRules
    <3> DEFINE o == <<op>>
               l == <<"_", link>>
               name == o \o a \o l \o b
    <3>1. op \in Pieces /\ op \notin Changes /\ l \in Text
      BY PieceFacts, SchemaAssumption DEF Changes
    <3>2. Reads(o)
      BY <3>1, PieceFacts DEF Reads
    <3>3. Reads(name)
      <4> HIDE DEF o, a, l, b
      <4> QED  BY <2>1, <3>1, <3>2, ReadsOn
    <3>4. Write(op, pair, link, danger) = Rule(name, <<"write", "edge", et.name>>, danger, FALSE, et.agent)
      OBVIOUS
    <3> HIDE DEF name
    <3>5. name \in Text /\ name # <<>> /\ name[1] \notin Changes /\ name[1] # "delete"
      BY <3>3 DEF Reads, Changes
    <3>6. Rule(name, <<"write", "edge", et.name>>, danger, FALSE, et.agent) \in GoodRules
      BY <1>1, <1>2, <3>5 DEF GoodRules, Guards, Rule
    <3> QED  BY <3>4, <3>6
  <2> HIDE DEF Write
  <2> QED  BY <2>2, Together
<1> HIDE DEF Of
<1>4. pairs \in Seq(TypeNames \X TypeNames)
  BY PairsGood
<1>5. Len(pairs) \in Nat /\ DOMAIN pairs = 1..Len(pairs) /\ \A k \in DOMAIN pairs : pairs[k] \in TypeNames \X TypeNames
  <2> HIDE DEF pairs
  <2> QED  BY <1>4
<1>6. seqs \in Seq(Seq(GoodRules))
  <2>1. seqs \in [1..Len(pairs) -> Seq(GoodRules)]
    BY <1>3, <1>5
  <2> HIDE DEF seqs, pairs
  <2> QED  BY <1>5, <2>1
<1>7. EdgeRules(et) = When(et.exposed, FlattenSeq(seqs))
  BY DEF EdgeRules, Of, Write
<1> HIDE DEF seqs
<1> QED  BY <1>6, <1>7, FlattenFacts, Together

LEMMA AllRulesGood ==
  /\ AllRules \in Seq(GoodRules)
  /\ \A i \in DOMAIN NodeTypes : \A op \in Changes : NodeTypes[i].exposed /\ Permits(NodeTypes[i], op) =>
       \E x \in Range(AllRules) : x.tool = ChangeOf(op, i)
<1> DEFINE ns == [i \in DOMAIN NodeTypes |-> NodeRules(NodeTypes[i])]
           es == [i \in DOMAIN EdgeTypes |-> EdgeRules(EdgeTypes[i])]
<1>1. Len(NodeTypes) \in Nat /\ DOMAIN NodeTypes = 1..Len(NodeTypes)
  <2>1. PICK R : NodeTypes \in Seq(R)
    BY SchemaAssumption
  <2> QED  BY <2>1
<1>2. Len(EdgeTypes) \in Nat /\ DOMAIN EdgeTypes = 1..Len(EdgeTypes)
  <2>1. PICK R : EdgeTypes \in Seq(R)
    BY SchemaAssumption
  <2> QED  BY <2>1
<1>3. ns \in Seq(Seq(GoodRules))
  <2>1. ns \in [1..Len(NodeTypes) -> Seq(GoodRules)]
    BY <1>1, NodeRulesGood
  <2> HIDE DEF ns
  <2> QED  BY <1>1, <2>1
<1>4. es \in Seq(Seq(GoodRules))
  <2>1. es \in [1..Len(EdgeTypes) -> Seq(GoodRules)]
    BY <1>2, EdgeRulesGood
  <2> HIDE DEF es
  <2> QED  BY <1>2, <2>1
<1>5. AllRules = FlattenSeq(ns) \o FlattenSeq(es)
  BY DEF AllRules
<1>6. \A i \in DOMAIN NodeTypes : i \in DOMAIN ns /\ ns[i] = NodeRules(NodeTypes[i])
  OBVIOUS
<1> HIDE DEF ns, es
<1>7. FlattenSeq(ns) \in Seq(GoodRules) /\ FlattenSeq(es) \in Seq(GoodRules)
  BY <1>3, <1>4, FlattenFacts
<1>8. ASSUME NEW i \in DOMAIN NodeTypes, NEW op \in Changes, NodeTypes[i].exposed, Permits(NodeTypes[i], op)
      PROVE  \E x \in Range(AllRules) : x.tool = ChangeOf(op, i)
  <2>1. PICK x \in Range(NodeRules(NodeTypes[i])) : x.tool = ChangeOf(op, i)
    BY <1>8, NodeRulesGood
  <2>2. x \in Range(FlattenSeq(ns))
    BY <1>3, <1>6, <2>1, FlattenFacts
  <2>3. x \in Range(AllRules)
    BY <1>5, <1>7, <2>2, RangeOfTwo
  <2> QED  BY <2>1, <2>3
<1> QED  BY <1>5, <1>7, <1>8, Together

\* The rule joined with a tool is one for its name; what deletes is confirmed,
\* and what changes a node needs the permission to write its type.
LEMMA AuthFacts ==
  ASSUME NEW name \in ToolNames
  PROVE  /\ AuthOf(name).tool = name
         /\ name[1] = "delete" => AuthOf(name).confirm /\ AuthOf(name).destructive
         /\ \A i \in DOMAIN NodeTypes : \A op \in Changes :
              name = ChangeOf(op, i) /\ NodeTypes[i].exposed /\ Permits(NodeTypes[i], op) =>
                AuthOf(name).required = <<"write", "node", NodeTypes[i].name>>
<1>1. AllRules \in Seq(GoodRules) /\ Len(AllRules) \in Nat /\ DOMAIN AllRules = 1..Len(AllRules)
      /\ \A k \in DOMAIN AllRules : AllRules[k] \in GoodRules
  BY AllRulesGood
<1>2. ASSUME NEW n, RulesFor(n) # {}  PROVE Max(RulesFor(n)) \in RulesFor(n)
  <2>1. RulesFor(n) \subseteq 1..Len(AllRules)
    BY <1>1 DEF RulesFor
  <2> QED  BY <1>1, <1>2, <2>1, MaxIsThere
<1>3. \A n : RuleFor(n).tool = n
  BY <1>2 DEF RuleFor, RulesFor, Rule
<1>4. AuthOf(name) = RuleFor(name)
  <2>1. RuleFor(name) \in Auths /\ \A x \in Auths : x.tool = name => x = RuleFor(name)
    BY <1>3 DEF Auths
  <2> QED  BY <1>3, <2>1 DEF AuthOf
<1>5. ASSUME NEW i \in DOMAIN NodeTypes, NEW op \in Changes, name = ChangeOf(op, i), NodeTypes[i].exposed,
             Permits(NodeTypes[i], op)
      PROVE  AuthOf(name) \in GoodRules /\ AuthOf(name).tool = name
  <2>1. PICK x \in Range(AllRules) : x.tool = name
    BY <1>5, AllRulesGood
  <2>2. RulesFor(name) # {}
    BY <2>1 DEF RulesFor, Range
  <2> QED  BY <1>1, <1>2, <1>4, <2>2 DEF RuleFor, RulesFor
<1>6. ASSUME name[1] = "delete"  PROVE AuthOf(name).confirm /\ AuthOf(name).destructive
  <2>1. PICK i \in DOMAIN NodeTypes : name = ChangeOf("delete", i) /\ NodeTypes[i].exposed /\ NodeTypes[i].delete
    BY <1>6, NamesGood DEF WellNamed, Changes
  <2>2. AuthOf(name) \in GoodRules /\ AuthOf(name).tool = name
    BY <1>5, <2>1 DEF Changes, Permits
  <2> QED  BY <1>6, <2>2 DEF GoodRules, Guards
<1>7. ASSUME NEW i \in DOMAIN NodeTypes, NEW op \in Changes, name = ChangeOf(op, i), NodeTypes[i].exposed,
             Permits(NodeTypes[i], op)
      PROVE  AuthOf(name).required = <<"write", "node", NodeTypes[i].name>>
  <2>1. AuthOf(name) \in GoodRules /\ AuthOf(name).tool = name
    BY <1>5, <1>7
  <2>2. name[1] = op /\ Rest(name) = NodeTypes[i].slug
    BY <1>7, ChangeNames
  <2>3. PICK j \in DOMAIN NodeTypes : Writing(AuthOf(name), j)
    BY <2>1, <2>2 DEF GoodRules, Guards
  <2>4. name = ChangeOf(op, j)
    BY <2>1, <2>2, <2>3 DEF Writing
  <2>5. NodeTypes[i].slug = NodeTypes[j].slug
    BY <2>2, <2>4, ChangeNames
  <2>6. i = j
    BY <2>5, NamesAssumption
  <2> QED  BY <2>3, <2>6 DEF Writing
<1> QED  BY <1>3, <1>4, <1>6, <1>7

-----------------------------------------------------------------------------
(* What a name means *)

\* A set of places with one member, or with none.
LEMMA OneType ==
  ASSUME NEW i \in DOMAIN NodeTypes, NEW P, P \subseteq {i}
  PROVE  FirstType(P) = IF P = {} THEN None ELSE NodeTypes[i].name
<1>1. CASE P = {}
  BY <1>1 DEF FirstType
<1>2. CASE P # {}
  <2>1. P = {i}
    BY <1>2
  <2>2. i \in Int
    <3>1. PICK R : NodeTypes \in Seq(R)
      BY SchemaAssumption
    <3> QED  BY <3>1
  <2>3. Min({i}) = i
    BY <2>2 DEF Min
  <2> QED  BY <2>1, <2>3 DEF FirstType
<1> QED  BY <1>1, <1>2

\* The slug of a type is that of no other, to the executor and to the look-up.
LEMMA SlugNames ==
  ASSUME NEW i \in DOMAIN NodeTypes
  PROVE  /\ FromPlural(NodeTypes[i].slug) = NodeTypes[i].name
         /\ (IF ByPlural(NodeTypes[i].slug) # None THEN ByPlural(NodeTypes[i].slug)
             ELSE ByLetters(NodeTypes[i].slug)) = NodeTypes[i].name
<1> DEFINE s == NodeTypes[i].slug
           name == NodeTypes[i].name
<1>1. name # None
  BY TypeFacts
<1>2. FromPlural(s) = name
  <2> DEFINE P == {j \in DOMAIN NodeTypes : s \in {PluralSlug(NodeTypes[j]), NodeTypes[j].slug}}
  <2>1. P \subseteq {i} /\ i \in P
    BY NamesAssumption
  <2> HIDE DEF P
  <2>2. FirstType(P) = name
    BY <2>1, OneType
  <2> QED  BY <1>1, <2>2 DEF FromPlural, P
<1>3. ByLetters(s) = name
  <2> DEFINE P == {j \in DOMAIN NodeTypes : Letters(NodeTypes[j].slug) = Letters(s)}
  <2>1. P \subseteq {i} /\ i \in P
    BY NamesAssumption
  <2> HIDE DEF P
  <2>2. FirstType(P) = name
    BY <2>1, OneType
  <2> QED  BY <2>2 DEF ByLetters, P
<1>4. ByLetters(Stripped(s)) \in {None, name}
  <2> DEFINE P == {j \in DOMAIN NodeTypes : Letters(NodeTypes[j].slug) = Letters(Stripped(s))}
  <2>1. P \subseteq {i}
    BY NamesAssumption
  <2> HIDE DEF P
  <2>2. FirstType(P) \in {None, name}
    BY <2>1, OneType
  <2> QED  BY <2>2 DEF ByLetters, P
<1>5. ByPlural(s) \in {None, name}
  <2> DEFINE P == {j \in DOMAIN NodeTypes : LowerPlural(NodeTypes[j]) = s}
  <2>1. P \subseteq {i}
    BY NamesAssumption
  <2> HIDE DEF P
  <2>2. FirstType(P) \in {None, name}
    BY <2>1, OneType
  <2>3. ByPlural(s) = IF FirstType(P) # None THEN FirstType(P) ELSE ByLetters(Stripped(s))
    BY DEF ByPlural, P
  <2> QED  BY <1>4, <2>2, <2>3
<1> QED  BY <1>2, <1>3, <1>5

LEMMA MeaningFacts ==
  ASSUME NEW name \in ToolNames \union Invented
  PROVE  MeaningOf(name).required = Required(name) /\ MeaningOf(name).act = Acts(name)
<1> DEFINE m == [tool |-> name, required |-> Required(name), act |-> Acts(name)]
<1>1. m \in Meanings /\ \A x \in Meanings : x.tool = name => x = m
  BY DEF Meanings
<1>2. MeaningOf(name) = m
  BY <1>1 DEF MeaningOf
<1> QED  BY <1>2

\* What the executor is about to write is what the permission was looked up for.
LEMMA ChangesNamed ==
  ASSUME NEW name, Acts(name).op \in Changes
  PROVE  name[1] \in Changes /\ Acts(name).on # None
<1>1. name[1] \in Changes
  BY DEF Acts, Starts, Act, Refused, Changes
<1>2. ASSUME Acts(name).on = None  PROVE Acts(name) = Refused
  BY <1>2, SMTT(60) DEF Acts
<1> QED  BY <1>1, <1>2 DEF Refused, Act, Changes

LEMMA WritesAsked ==
  ASSUME NEW name \in ToolNames, Acts(name).op \in Changes
  PROVE  Required(name) = <<"write", "node", Acts(name).on>>
<1>1. name[1] \in Changes
  BY DEF Acts, Starts, Act, Refused, Changes
<1>2. PICK i \in DOMAIN NodeTypes : name = ChangeOf(name[1], i)
  BY <1>1, NamesGood DEF WellNamed
<1> DEFINE op == name[1]
<1>3. Starts(name, op) /\ Rest(name) = NodeTypes[i].slug
  BY <1>1, <1>2, ChangeNames
<1>4. FromPlural(Rest(name)) = NodeTypes[i].name /\ NodeTypes[i].name # None
  BY <1>3, SlugNames, TypeFacts
<1>5. Acts(name) = Act(op, NodeTypes[i].name)
  BY <1>1, <1>3, <1>4 DEF Acts, Starts, Act, Changes
<1>6. TypeOfTool(name) = NodeTypes[i].name
  <2>1. op # "find" /\ \E p \in KnownPrefixes : Starts(name, p)
    BY <1>1, <1>3 DEF Changes, KnownPrefixes
  <2> QED  BY <1>3, <2>1, SlugNames DEF TypeOfTool
<1>7. Required(name) = <<"write", "node", NodeTypes[i].name>>
  BY <1>1, <1>4, <1>6 DEF Required, Changes
<1> QED  BY <1>5, <1>7 DEF Act

-----------------------------------------------------------------------------
(* Calls stay within bounds *)

\* A call ran when its look-up let it; one that must be confirmed did not run.
FairCalls(c, given, calls) ==
  \A x \in calls :
    /\ x.ran = Granted(c, MeaningOf(x.name).required)
    /\ c.kind = "chat" /\ x.name \in given => ~(AuthOf(x.name).confirm /\ AuthOf(x.name).destructive)
Fair ==
  \A r \in DOMAIN rq :
    /\ rq[r].pc = "start" => rq[r].calls = {}
    /\ FairCalls(cmd(r), rq[r].given, rq[r].calls)

LEMMA FairStays ==
  ASSUME TypeOK, Fair, NEW r \in DOMAIN rq, NEW x, rq' = [rq EXCEPT ![r] = x], x.cmd = cmd(r), x.pc # "start",
         x.given = rq[r].given \/ rq[r].pc = "start", x.calls = rq[r].calls
  PROVE  Fair'
<1>1. DOMAIN rq' = DOMAIN rq /\ rq'[r] = x /\ \A q \in DOMAIN rq : q # r => rq'[q] = rq[q]
  BY DEF TypeOK
<1>2. FairCalls(x.cmd, x.given, x.calls)
  <2>1. CASE rq[r].pc = "start"
    BY <2>1 DEF Fair, FairCalls
  <2>2. CASE x.given = rq[r].given
    BY <2>2 DEF Fair
  <2> QED  BY <2>1, <2>2
<1> QED  BY <1>1, <1>2 DEF Fair, cmd

LEMMA FairDone ==
  ASSUME TypeOK, Fair, NEW r \in DOMAIN rq, NEW out, Done(r, out)
  PROVE  Fair'
<1> DEFINE x == [rq[r] EXCEPT !.pc = "done", !.out = out]
<1>1. rq' = [rq EXCEPT ![r] = x]
  BY DEF Done
<1>2. x.cmd = cmd(r) /\ x.pc # "start" /\ x.given = rq[r].given /\ x.calls = rq[r].calls
  BY CommandFacts DEF TypeOK, cmd, Request
<1> HIDE DEF x
<1> QED  BY <1>1, <1>2, FairStays

LEMMA FairGo ==
  ASSUME TypeOK, Fair, NEW r \in DOMAIN rq, NEW stage \in Stages \ {"start"}, Go(r, stage)
  PROVE  Fair'
<1> DEFINE x == [rq[r] EXCEPT !.pc = stage]
<1>1. rq' = [rq EXCEPT ![r] = x]
  BY DEF Go
<1>2. x.cmd = cmd(r) /\ x.pc # "start" /\ x.given = rq[r].given /\ x.calls = rq[r].calls
  BY CommandFacts DEF TypeOK, cmd, Request
<1> HIDE DEF x
<1> QED  BY <1>1, <1>2, FairStays

LEMMA FairTake ==
  ASSUME TypeOK, Fair, NEW r \in DOMAIN rq, NEW reply, Take(r, reply)
  PROVE  Fair'
<1>1. rq[r] \in Request
  BY DEF TypeOK
<1>2. CASE reply = <<>>
  <2> DEFINE x == [rq[r] EXCEPT !.pc = AfterText(r), !.text = TRUE, !.sent = Sent(r), !.api = "chat"]
  <2>1. rq' = [rq EXCEPT ![r] = x]
    BY <1>2 DEF Take
  <2>2. x.cmd = cmd(r) /\ x.pc # "start" /\ x.given = rq[r].given /\ x.calls = rq[r].calls
    BY <1>1 DEF cmd, Request, AfterText
  <2> HIDE DEF x
  <2> QED  BY <2>1, <2>2, FairStays
<1>3. CASE reply # <<>>
  <2> DEFINE asked == Append(rq[r].exchange, Said("assistant", {Round(rq[r].round)} \X DOMAIN reply))
             x == [rq[r] EXCEPT !.pc = "call", !.reply = reply, !.at = 1, !.round = Round(rq[r].round),
                     !.exchange = asked, !.sent = Sent(r), !.api = "chat"]
  <2>1. rq' = [rq EXCEPT ![r] = x]
    BY <1>3 DEF Take
  <2> HIDE DEF asked
  <2>2. x.cmd = cmd(r) /\ x.pc # "start" /\ x.given = rq[r].given /\ x.calls = rq[r].calls
    BY <1>1 DEF cmd, Request
  <2> HIDE DEF x
  <2> QED  BY <2>1, <2>2, FairStays
<1> QED  BY <1>2, <1>3

LEMMA FairEarly ==
  ASSUME TypeOK, Fair, NEW r \in DOMAIN rq, Start(r) \/ Open(r) \/ Recall(r) \/ Ask(r)
  PROVE  Fair'
<1>1. rq[r] \in Request
  BY DEF TypeOK
<1>2. CASE Start(r)
  <2>1. CASE \E out : Done(r, out)
    BY <2>1, FairDone
  <2>2. ASSUME NEW p, NEW names, rq' = [rq EXCEPT ![r].pc = "open", ![r].type = p, ![r].given = names]
        PROVE  Fair'
    <3> DEFINE x == [rq[r] EXCEPT !.pc = "open", !.type = p, !.given = names]
    <3>1. rq' = [rq EXCEPT ![r] = x]
      BY <2>2
    <3>2. x.cmd = cmd(r) /\ x.pc # "start" /\ rq[r].pc = "start" /\ x.calls = rq[r].calls
      BY <1>1, <1>2 DEF cmd, Request, Start
    <3> HIDE DEF x
    <3> QED  BY <3>1, <3>2, FairStays
  <2> DEFINE enabled == {p \in DOMAIN providers : providers[p].enabled}
             first == CHOOSE p \in enabled : \A q \in enabled : providers[p].rank <= providers[q].rank
             type == IF enabled = {} THEN cmd(r).env ELSE providers[first].type
  <2>3. CASE type = None
    BY <1>2, <2>1, <2>3 DEF Start
  <2>4. CASE type \notin KnownTypes \union {None}
    BY <1>2, <2>1, <2>4 DEF Start
  <2>5. CASE type # None /\ type \in KnownTypes \union {None}
    <3>1. PICK names \in Given : rq' = [rq EXCEPT ![r].pc = "open", ![r].type = type, ![r].given = names]
      BY <1>2, <2>5 DEF Start
    <3> HIDE DEF type
    <3> QED  BY <2>2, <3>1
  <2> QED  BY <2>3, <2>4, <2>5
<1>3. CASE Open(r)
  <2>1. PICK conv : rq' = [rq EXCEPT ![r].pc = "recall", ![r].conv = conv]
    BY <1>3 DEF Open
  <2> DEFINE x == [rq[r] EXCEPT !.pc = "recall", !.conv = conv]
  <2>2. rq' = [rq EXCEPT ![r] = x]
    BY <2>1
  <2>3. x.cmd = cmd(r) /\ x.pc # "start" /\ x.given = rq[r].given /\ x.calls = rq[r].calls
    BY <1>1 DEF cmd, Request
  <2> HIDE DEF x
  <2> QED  BY <2>2, <2>3, FairStays
<1>4. CASE Recall(r)
  <2>1. PICK sees : rq' = [rq EXCEPT ![r].pc = "ask", ![r].sees = sees]
    BY <1>4 DEF Recall
  <2> DEFINE x == [rq[r] EXCEPT !.pc = "ask", !.sees = sees]
  <2>2. rq' = [rq EXCEPT ![r] = x]
    BY <2>1
  <2>3. x.cmd = cmd(r) /\ x.pc # "start" /\ x.given = rq[r].given /\ x.calls = rq[r].calls
    BY <1>1 DEF cmd, Request
  <2> HIDE DEF x
  <2> QED  BY <2>2, <2>3, FairStays
<1>5. CASE Ask(r)
  BY <1>5, FairGo DEF Ask, Stages
<1> QED  BY <1>2, <1>3, <1>4, <1>5

LEMMA FairStream ==
  ASSUME TypeOK, Fair, NEW r \in DOMAIN rq, Stream(r)
  PROVE  Fair'
<1>1. rq[r] \in Request
  BY DEF TypeOK
<1>2. CASE rq[r].round = MaxRounds
  BY <1>2, FairGo DEF Stream, Stages
<1>3. CASE rq[r].round # MaxRounds
  <2>1. PICK text \in BOOLEAN :
          LET state == [rq[r] EXCEPT !.text = @ \/ text, !.sent = Streamed(r), !.api = "chat_stream"]
          IN \/ rq' = [rq EXCEPT ![r] = [state EXCEPT !.pc = "save"]]
             \/ rq' = [rq EXCEPT ![r] = [state EXCEPT !.round = Round(@)]]
             \/ rq' = [rq EXCEPT ![r] = [state EXCEPT !.pc = "fallback"]]
    BY <1>3 DEF Stream
  <2> DEFINE state == [rq[r] EXCEPT !.text = @ \/ text, !.sent = Streamed(r), !.api = "chat_stream"]
  <2>2. state.cmd = cmd(r) /\ state.pc = "stream" /\ state.given = rq[r].given
        /\ state.calls = rq[r].calls /\ DOMAIN state = DOMAIN rq[r]
    BY <1>1 DEF cmd, Request, Stream
  <2>3. PICK x : /\ rq' = [rq EXCEPT ![r] = x]
                 /\ x \in {[state EXCEPT !.pc = "save"], [state EXCEPT !.round = Round(@)], [state EXCEPT !.pc = "fallback"]}
    BY <2>1
  <2> HIDE DEF state
  <2>4. x.cmd = cmd(r) /\ x.pc # "start" /\ x.given = rq[r].given /\ x.calls = rq[r].calls
    BY <1>1, <2>2, <2>3 DEF Request
  <2> QED  BY <2>3, <2>4, FairStays
<1> QED  BY <1>2, <1>3

LEMMA FairCall ==
  ASSUME TypeOK, Rounds, Fair, NEW r \in DOMAIN rq, Call(r)
  PROVE  Fair'
<1>1. rq[r] \in Request /\ rq[r].pc = "call"
  BY DEF TypeOK, Call
<1> DEFINE name == rq[r].reply[rq[r].at]
           last == rq[r].at = Len(rq[r].reply)
           ran == Granted(cmd(r), MeaningOf(name).required)
           called == [name |-> name, ran |-> ran]
           answer == Said("tool", {<<rq[r].round, rq[r].at>>})
           next == IF ~last THEN "call" ELSE IF cmd(r).kind = "chat" THEN "model" ELSE "stream"
<1>2. CASE MustConfirm(r, name)
  <2> DEFINE x == [rq[r] EXCEPT !.pc = "save", !.text = TRUE]
  <2>1. rq' = [rq EXCEPT ![r] = x]
    BY <1>2 DEF Call
  <2>2. x.cmd = cmd(r) /\ x.pc # "start" /\ x.given = rq[r].given /\ x.calls = rq[r].calls
    BY <1>1 DEF cmd, Request
  <2> HIDE DEF x
  <2> QED  BY <2>1, <2>2, FairStays
<1>3. CASE ~MustConfirm(r, name)
  <2> DEFINE x == [rq[r] EXCEPT !.calls = @ \union {called}, !.exchange = Append(@, answer),
                     !.at = IF last THEN 0 ELSE @ + 1, !.reply = IF last THEN <<>> ELSE @, !.pc = next]
  <2>1. rq' = [rq EXCEPT ![r] = x]
    BY <1>3 DEF Call
  <2>2. next # "start"
    OBVIOUS
  <2>3. FairCalls(cmd(r), rq[r].given, {called})
    BY <1>3 DEF FairCalls, MustConfirm
  <2> HIDE DEF answer, called, next, last
  <2>4. x.cmd = cmd(r) /\ x.pc # "start" /\ x.given = rq[r].given /\ x.calls = rq[r].calls \union {called}
    BY <1>1, <2>2 DEF cmd, Request
  <2> HIDE DEF x
  <2>5. DOMAIN rq' = DOMAIN rq /\ rq'[r] = x /\ \A q \in DOMAIN rq : q # r => rq'[q] = rq[q]
    BY <2>1 DEF TypeOK
  <2>6. FairCalls(x.cmd, x.given, x.calls)
    BY <2>3, <2>4 DEF Fair, FairCalls
  <2> QED  BY <2>4, <2>5, <2>6 DEF Fair, cmd
<1> QED  BY <1>2, <1>3

LEMMA StepFair == TypeOK /\ Rounds /\ Fair /\ [Next]_vars => Fair'
<1> SUFFICES ASSUME TypeOK, Rounds, Fair, [Next]_vars  PROVE Fair'
  OBVIOUS
<1>1. CASE UNCHANGED vars
  BY <1>1 DEF Fair, vars, cmd
<1>2. ASSUME NEW r \in DOMAIN rq, Model(r) \/ Fallback(r)  PROVE Fair'
  <2>1. \/ Go(r, "save") \/ \E reply : Take(r, reply) \/ \E out : Done(r, out)
    BY <1>2 DEF Model, Fallback
  <2> QED  BY <2>1, FairGo, FairTake, FairDone DEF Stages
<1>3. ASSUME NEW r \in DOMAIN rq, Save(r) \/ DeleteConversation(r) \/ SetProvider(r) \/ Break(r)  PROVE Fair'
  <2>1. \E out : Done(r, out)
    BY <1>3 DEF Save, DeleteConversation, SetProvider, Break
  <2> QED  BY <2>1, FairDone
<1> QED  BY <1>1, <1>2, <1>3, FairEarly, FairStream, FairCall DEF Next, Progress, Step

LEMMA FairInit == Init => Fair
<1> SUFFICES ASSUME Init, NEW r \in DOMAIN rq  PROVE rq[r].calls = {}
  BY DEF Fair, FairCalls
<1> QED  BY DEF Init

\* The tools that the boundaries or a destructive capability name delete.
LEMMA ConfirmedNames ==
  ASSUME NEW name \in ConfirmationRequired \union UNION {cap.tools : cap \in {x \in AllCapabilities : x.safety = "destructive"}}
  PROVE  name[1] = "delete"
<1>1. CASE name \in ConfirmationRequired
  <2>1. PICK i \in DOMAIN NodeTypes : name = ChangeOf("delete", i)
    BY <1>1 DEF ConfirmationRequired, ChangeOf
  <2> QED  BY <2>1, ChangeNames DEF Changes
<1>2. ASSUME NEW cap \in AllCapabilities, cap.safety = "destructive", name \in cap.tools  PROVE name[1] = "delete"
  <2>1. PICK i \in DOMAIN NodeTypes : cap \in Capabilities(NodeTypes[i])
    BY <1>2 DEF AllCapabilities
  <2>2. cap = [safety |-> "destructive", tools |-> {ChangeOf("delete", i)}]
    <3> DEFINE nt == NodeTypes[i]
               Cap(safety, tools) == [safety |-> safety, tools |-> tools]
               On(op) == {<<op>> \o Under(nt.slug)}
               Listing == {<<"list">> \o Under(PluralSlug(nt)), <<"search">> \o Under(PluralSlug(nt))}
               Links == {l \in Range(EdgeTypes) \X {NodeTypes[j].name : j \in DOMAIN NodeTypes} :
                           Contains(l[1].source, nt.name) /\ Contains(l[1].target, l[2])}
               Link(et, to) ==
                 {Cap("write", {<<"connect">> \o Under(nt.slug) \o <<"_", "to">> \o Under(SlugOf(to))}),
                  Cap("read", {<<"get">> \o Under(nt.slug) \o Under(SlugOf(to)) \o <<"_", "via">> \o Under(et.slug)})}
    <3>1. cap \in (IF ~nt.shown THEN {}
                   ELSE {Cap("read", Listing)} \union
                        (IF nt.create THEN {Cap("write", On("create"))} ELSE {}) \union
                        (IF nt.update THEN {Cap("write", On("update"))} ELSE {}) \union
                        (IF nt.delete THEN {Cap("destructive", On("delete"))} ELSE {}) \union
                        (IF nt.orphans THEN {Cap("read", {})} ELSE {}) \union
                        UNION {Link(l[1], l[2]) : l \in Links})
      BY <2>1 DEF Capabilities
    <3>2. ASSUME NEW et, NEW to, NEW c \in Link(et, to)  PROVE c.safety # "destructive"
      <4> DEFINE a == {<<"connect">> \o Under(nt.slug) \o <<"_", "to">> \o Under(SlugOf(to))}
                 b == {<<"get">> \o Under(nt.slug) \o Under(SlugOf(to)) \o <<"_", "via">> \o Under(et.slug)}
      <4>1. c \in {Cap("write", a), Cap("read", b)}
        OBVIOUS
      <4> HIDE DEF a, b, Link
      <4> QED  BY <4>1
    <3> HIDE DEF Link, Links, Listing
    <3>3. cap \notin UNION {Link(l[1], l[2]) : l \in Links}
      BY <1>2, <3>2
    <3> HIDE DEF nt
    <3>4. cap = Cap("destructive", On("delete"))
      BY <1>2, <3>1, <3>3
    <3> QED  BY <3>4 DEF ChangeOf, nt
  <2> QED  BY <1>2, <2>2, ChangeNames DEF Changes
<1> QED  BY <1>1, <1>2

LEMMA FairTells == TypeOK /\ Fair => ToolsWithinBounds
<1> SUFFICES ASSUME TypeOK, Fair, NEW r \in DOMAIN rq, NEW c \in rq[r].calls
             PROVE  /\ c.ran /\ MeaningOf(c.name).act.op \in Changes \union {"connect", "disconnect"} =>
                         Granted(cmd(r), <<"write", "node", MeaningOf(c.name).act.on>>) \/ Unasked(c.name)
                    /\ cmd(r).kind = "chat" /\ c.name \in rq[r].given =>
                         c.name \notin ConfirmationRequired \union
                           UNION {cap.tools : cap \in {x \in AllCapabilities : x.safety = "destructive"}}
  BY DEF ToolsWithinBounds, WritesEntitled, ConfirmedFirst, Changes
<1>1. /\ c.ran = Granted(cmd(r), MeaningOf(c.name).required) /\ rq[r].given \subseteq ToolNames
      /\ c.name \in ToolNames \union Invented
  BY DEF Fair, FairCalls, TypeOK, Request, Called, AnyName
<1>2. ASSUME c.ran, MeaningOf(c.name).act.op \in Changes, ~Unasked(c.name)
      PROVE  Granted(cmd(r), <<"write", "node", MeaningOf(c.name).act.on>>)
  <2>1. MeaningOf(c.name).required = Required(c.name) /\ MeaningOf(c.name).act = Acts(c.name)
    BY <1>1, MeaningFacts
  <2>2. Required(c.name) = <<"write", "node", Acts(c.name).on>>
    <3>1. CASE c.name \in ToolNames
      BY <1>2, <2>1, <3>1, WritesAsked
    <3>2. CASE c.name \notin ToolNames
      <4>1. TypeOfTool(c.name) = Acts(c.name).on
        BY <1>2, <2>1, <3>2 DEF Unasked
      <4>2. c.name[1] \in Changes /\ Acts(c.name).on # None
        BY <1>2, <2>1, ChangesNamed
      <4> QED  BY <4>1, <4>2 DEF Required, Changes
    <3> QED  BY <3>1, <3>2
  <2> QED  BY <1>1, <1>2, <2>1, <2>2
<1>3. ASSUME cmd(r).kind = "chat", c.name \in rq[r].given  PROVE c.name[1] # "delete"
  <2>1. ~(AuthOf(c.name).confirm /\ AuthOf(c.name).destructive)
    BY <1>3 DEF Fair, FairCalls
  <2> QED  BY <1>1, <1>3, <2>1, AuthFacts
<1> QED  BY <1>2, <1>3, ConfirmedNames DEF Unasked

\* Whatever a model calls in any of the chats served together, a write runs only
\* for a user who may write the type it is done on, unless it joins or parts nodes or
\* has a name that no tool has and that the agent and the executor read differently;
\* and POST /chat runs nothing it was given that deletes.  For the tools that create,
\* update and delete, the generators, the look-up and the executor agree on a name.
THEOREM ToolsStayWithinBounds == Spec => []ToolsWithinBounds
<1>1. Init => TalkInv /\ Fair
  BY TalkInit, FairInit
<1>2. TalkInv /\ Fair /\ [Next]_vars => TalkInv' /\ Fair'
  BY TalkStep, StepFair DEF TalkInv
<1>3. TalkInv /\ Fair => ToolsWithinBounds
  BY FairTells DEF TalkInv
<1> QED  BY <1>1, <1>2, <1>3, PTL DEF Spec

-----------------------------------------------------------------------------
(* Names that come apart again *)

Bar == "_"
LEMMA BarFacts == Bar \in Pieces /\ Bar \notin JoiningWords
BY SchemaAssumption DEF Bar, JoiningWords

\* The places of a word in a name, piece by piece.
LEMMA PlacesAre ==
  ASSUME NEW n \in Text, NEW w \in Pieces, NEW i
  PROVE  i \in Places(n, w) <=> i \in 2..(Len(n) - 3) /\ n[i] = Bar /\ n[i + 1] = w /\ n[i + 2] = Bar
<1> DEFINE t(j) == SubSeq(n, j, j + 2)
           b == <<Bar, w, Bar>>
<1>1. Places(n, w) = {j \in 2..(Len(n) - 3) : t(j) = b}
  BY DEF Places, Bar
<1>2. n \in Seq(Pieces) /\ Len(n) \in Nat
  BY DEF Text
<1>3. ASSUME NEW j \in 2..(Len(n) - 3)
      PROVE  t(j) = b <=> n[j] = Bar /\ n[j + 1] = w /\ n[j + 2] = Bar
  <2>1. j \in Int /\ j + 2 \in Int /\ (\A k \in j..(j + 2) : n[k] \in Pieces) /\ (j + 2) - j + 1 = 3 /\ j <= j + 2
    BY <1>2
  <2>2. t(j) \in Seq(Pieces) /\ Len(t(j)) = (j + 2) - j + 1 /\ \A k \in 1..((j + 2) - j + 1) : t(j)[k] = n[j + k - 1]
    BY <2>1, SubSeqProperties
  <2> HIDE DEF t
  <2>3. Len(t(j)) = 3 /\ t(j)[1] = n[j] /\ t(j)[2] = n[j + 1] /\ t(j)[3] = n[j + 2]
    <3>1. 1 \in 1..((j + 2) - j + 1) /\ 2 \in 1..((j + 2) - j + 1) /\ 3 \in 1..((j + 2) - j + 1)
      BY <2>1
    <3>2. j + 1 - 1 = j /\ j + 2 - 1 = j + 1 /\ j + 3 - 1 = j + 2
      BY <2>1
    <3> QED  BY <2>1, <2>2, <3>1, <3>2
  <2>4. b \in Seq(Pieces) /\ Len(b) = 3 /\ b[1] = Bar /\ b[2] = w /\ b[3] = Bar
    BY BarFacts
  <2> HIDE DEF b
  <2>5. ASSUME n[j] = Bar, n[j + 1] = w, n[j + 2] = Bar  PROVE t(j) = b
    <3>1. \A k \in 1..Len(t(j)) : t(j)[k] = b[k]
      BY <2>3, <2>4, <2>5
    <3> QED  BY <2>2, <2>3, <2>4, <3>1, SeqEqual
  <2> QED  BY <2>3, <2>4, <2>5
<1> HIDE DEF t, b
<1> QED  BY <1>1, <1>3

\* A name that begins with an operation.
Opens(n, op, a) ==
  /\ n \in Text /\ Len(n) = Len(a) + 2 /\ n[1] = op /\ n[2] = Bar
  /\ \A k \in 1..Len(a) : n[k + 2] = a[k]
  /\ Rest(n) = a
  /\ \A w : Starts(n, w) <=> w = op

LEMMA Opened ==
  ASSUME NEW op \in Pieces, NEW a \in Text, NEW n
  PROVE  n = <<op>> \o Under(a) => Opens(n, op, a)
<1>a. SUFFICES ASSUME n = <<op>> \o Under(a)
               PROVE  Opens(n, op, a)
  OBVIOUS
<1>0. a \in Seq(Pieces) /\ Len(a) \in Nat /\ Bar \in Pieces
  BY BarFacts DEF Text
<1>1. PICK t : t = <<Bar>> \o a
  OBVIOUS
<1>2. n = <<op>> \o t
  BY <1>a, <1>1 DEF Under, Bar
<1>3. t \in Seq(Pieces) /\ Len(t) = Len(a) + 1 /\ t[1] = Bar /\ \A k \in 1..Len(a) : t[k + 1] = a[k]
  BY <1>0, <1>1, InFront
<1>4. n \in Seq(Pieces) /\ Len(n) = Len(t) + 1 /\ n[1] = op /\ \A k \in 1..Len(t) : n[k + 1] = t[k]
  BY <1>2, <1>3, InFront
<1>5. Len(n) = Len(a) + 2 /\ n[2] = Bar /\ \A k \in 1..Len(a) : n[k + 2] = a[k]
  <2>1. 1 \in 1..Len(t) /\ 1 + 1 = 2 /\ \A k \in 1..Len(a) : k + 1 \in 1..Len(t) /\ (k + 1) + 1 = k + 2
    BY <1>0, <1>3
  <2>2. n[1 + 1] = t[1]
    BY <1>4, <2>1
  <2> QED  BY <1>0, <1>3, <1>4, <2>1, <2>2
<1>6. Rest(n) = a
  BY <1>0, <1>4, <1>5, WithoutTwo DEF Rest
<1>7. ASSUME NEW w  PROVE Starts(n, w) <=> w = op
  <2>1. Len(n) > 1
    BY <1>0, <1>5
  <2>2. Starts(n, w) <=> n[1] = w /\ n[2] = Bar
    BY <2>1 DEF Starts, Bar
  <2> QED  BY <1>4, <1>5, <2>2
<1> QED  BY <1>4, <1>5, <1>6, <1>7 DEF Text, Opens

\* Two names with a word between them.
Between(r, a, w, b) ==
  /\ r \in Text /\ Len(r) = Len(a) + Len(b) + 3
  /\ \A k \in 1..Len(a) : r[k] = a[k]
  /\ r[Len(a) + 1] = Bar /\ r[Len(a) + 2] = w /\ r[Len(a) + 3] = Bar
  /\ \A k \in 1..Len(b) : r[Len(a) + 3 + k] = b[k]

Joins(n, op, a, w, b) ==
  /\ n \in Text /\ n[1] = op
  /\ Len(n) = Len(Rest(n)) + 2 /\ \A k \in 1..Len(Rest(n)) : n[k + 2] = Rest(n)[k]
  /\ \A v : Starts(n, v) <=> v = op
  /\ Between(Rest(n), a, w, b)

LEMMA Joined ==
  ASSUME NEW op \in Pieces, NEW w \in Pieces, NEW a \in Text, NEW b \in Text,
         NEW n
  PROVE  n = <<op>> \o Under(a) \o <<"_", w>> \o Under(b) => Joins(n, op, a, w, b)
<1>a. SUFFICES ASSUME n = <<op>> \o Under(a) \o <<"_", w>> \o Under(b)
               PROVE  Joins(n, op, a, w, b)
  OBVIOUS
<1>0. /\ a \in Seq(Pieces) /\ Len(a) \in Nat /\ b \in Seq(Pieces) /\ Len(b) \in Nat
      /\ op \in Pieces /\ w \in Pieces /\ Bar \in Pieces
  BY BarFacts DEF Text
<1>1. PICK h : h = <<op>> \o Under(a)
  OBVIOUS
<1>2. h \in Seq(Pieces) /\ Len(h) = Len(a) + 2 /\ h[1] = op /\ h[2] = Bar /\ \A k \in 1..Len(a) : h[k + 2] = a[k]
  <2>1. Opens(h, op, a)
    BY <1>1, Opened
  <2> QED  BY <2>1 DEF Opens, Text
<1>3. PICK m : m = <<Bar, w>>
  OBVIOUS
<1>4. m \in Seq(Pieces) /\ Len(m) = 2 /\ m[1] = Bar /\ m[2] = w
  BY <1>0, <1>3
<1>5. PICK t : t = <<Bar>> \o b
  OBVIOUS
<1>6. t \in Seq(Pieces) /\ Len(t) = Len(b) + 1 /\ t[1] = Bar /\ \A k \in 1..Len(b) : t[k + 1] = b[k]
  BY <1>0, <1>5, InFront
<1>7. n = (h \o m) \o t
  BY <1>a, <1>1, <1>3, <1>5 DEF Under, Bar
<1>8. PICK g : g = h \o m
  OBVIOUS
<1>9. /\ g \in Seq(Pieces) /\ Len(g) = Len(a) + 4
      /\ \A k \in 1..(Len(a) + 4) : g[k] = IF k <= Len(a) + 2 THEN h[k] ELSE m[k - (Len(a) + 2)]
  <2>1. /\ h \o m \in Seq(Pieces) /\ Len(h \o m) = Len(h) + Len(m)
        /\ \A k \in 1..(Len(h) + Len(m)) : (h \o m)[k] = IF k <= Len(h) THEN h[k] ELSE m[k - Len(h)]
    BY <1>2, <1>4, ConcatProperties
  <2>2. Len(h) + Len(m) = Len(a) + 4
    BY <1>0, <1>2, <1>4
  <2> QED  BY <1>2, <1>8, <2>1, <2>2
<1>10. /\ n \in Seq(Pieces) /\ Len(n) = Len(a) + Len(b) + 5
       /\ \A k \in 1..(Len(a) + Len(b) + 5) : n[k] = IF k <= Len(a) + 4 THEN g[k] ELSE t[k - (Len(a) + 4)]
  <2>1. /\ g \o t \in Seq(Pieces) /\ Len(g \o t) = Len(g) + Len(t)
        /\ \A k \in 1..(Len(g) + Len(t)) : (g \o t)[k] = IF k <= Len(g) THEN g[k] ELSE t[k - Len(g)]
    BY <1>6, <1>9, ConcatProperties
  <2>2. Len(g) + Len(t) = Len(a) + Len(b) + 5
    BY <1>0, <1>6, <1>9
  <2> QED  BY <1>7, <1>8, <1>9, <2>1, <2>2
<1>11. \A k \in 1..(Len(a) + 2) : n[k] = h[k]
  BY <1>0, <1>9, <1>10
<1>12. n[1] = op /\ n[2] = Bar /\ \A k \in 1..Len(a) : n[k + 2] = a[k]
  <2>1. 1 \in 1..(Len(a) + 2) /\ 2 \in 1..(Len(a) + 2) /\ \A k \in 1..Len(a) : k + 2 \in 1..(Len(a) + 2)
    BY <1>0
  <2> QED  BY <1>2, <1>11, <2>1
<1>13. n[Len(a) + 3] = Bar /\ n[Len(a) + 4] = w
  <2>1. /\ Len(a) + 3 \in 1..(Len(a) + 4) /\ Len(a) + 3 \in 1..(Len(a) + Len(b) + 5)
        /\ Len(a) + 4 \in 1..(Len(a) + 4) /\ Len(a) + 4 \in 1..(Len(a) + Len(b) + 5)
        /\ ~(Len(a) + 3 <= Len(a) + 2) /\ ~(Len(a) + 4 <= Len(a) + 2)
        /\ (Len(a) + 3) - (Len(a) + 2) = 1 /\ (Len(a) + 4) - (Len(a) + 2) = 2
        /\ Len(a) + 3 <= Len(a) + 4 /\ Len(a) + 4 <= Len(a) + 4
    BY <1>0
  <2> QED  BY <1>4, <1>9, <1>10, <2>1
<1>14. n[Len(a) + 5] = Bar /\ \A k \in 1..Len(b) : n[Len(a) + 5 + k] = b[k]
  <2>1. /\ Len(a) + 5 \in 1..(Len(a) + Len(b) + 5) /\ ~(Len(a) + 5 <= Len(a) + 4) /\ (Len(a) + 5) - (Len(a) + 4) = 1
    BY <1>0
  <2>2. ASSUME NEW k \in 1..Len(b)  PROVE n[Len(a) + 5 + k] = b[k]
    <3>1. /\ Len(a) + 5 + k \in 1..(Len(a) + Len(b) + 5) /\ ~(Len(a) + 5 + k <= Len(a) + 4)
          /\ (Len(a) + 5 + k) - (Len(a) + 4) = k + 1
      BY <1>0
    <3> QED  BY <1>6, <1>10, <3>1
  <2> QED  BY <1>6, <1>10, <2>1, <2>2
<1> DEFINE r == SubSeq(n, 3, Len(n))
<1>15. r = Rest(n)
  BY DEF Rest
<1>16. /\ r \in Seq(Pieces) /\ Len(r) = Len(a) + Len(b) + 3
       /\ \A k \in 1..(Len(a) + Len(b) + 3) : r[k] = n[k + 2]
  <2>1. 3 \in Int /\ Len(n) \in Int /\ (\A i \in 3..Len(n) : n[i] \in Pieces) /\ 3 <= Len(n)
        /\ Len(n) - 3 + 1 = Len(a) + Len(b) + 3
    BY <1>0, <1>10
  <2>2. /\ r \in Seq(Pieces) /\ Len(r) = IF 3 <= Len(n) THEN Len(n) - 3 + 1 ELSE 0
        /\ \A k \in 1..(Len(n) - 3 + 1) : r[k] = n[3 + k - 1]
    BY <2>1, SubSeqProperties
  <2> HIDE DEF r
  <2>3. \A k \in 1..(Len(a) + Len(b) + 3) : 3 + k - 1 = k + 2
    OBVIOUS
  <2> QED  BY <2>1, <2>2, <2>3
<1> HIDE DEF r
<1>17. Between(r, a, w, b)
  <2>1. \A k \in 1..Len(a) : k \in 1..(Len(a) + Len(b) + 3)
    BY <1>0
  <2>2. /\ Len(a) + 1 \in 1..(Len(a) + Len(b) + 3) /\ Len(a) + 2 \in 1..(Len(a) + Len(b) + 3)
        /\ Len(a) + 3 \in 1..(Len(a) + Len(b) + 3)
        /\ (Len(a) + 1) + 2 = Len(a) + 3 /\ (Len(a) + 2) + 2 = Len(a) + 4 /\ (Len(a) + 3) + 2 = Len(a) + 5
    BY <1>0
  <2>3. \A k \in 1..Len(b) : Len(a) + 3 + k \in 1..(Len(a) + Len(b) + 3) /\ (Len(a) + 3 + k) + 2 = Len(a) + 5 + k
    BY <1>0
  <2>4. \A k \in 1..Len(a) : r[k] = a[k]
    BY <1>12, <1>16, <2>1
  <2>5. r[Len(a) + 1] = Bar /\ r[Len(a) + 2] = w /\ r[Len(a) + 3] = Bar
    BY <1>13, <1>14, <1>16, <2>2
  <2>6. \A k \in 1..Len(b) : r[Len(a) + 3 + k] = b[k]
    BY <1>14, <1>16, <2>3
  <2> QED  BY <1>16, <2>4, <2>5, <2>6 DEF Between, Text
<1>18. ASSUME NEW v  PROVE Starts(n, v) <=> v = op
  <2>1. Len(n) > 1
    BY <1>0, <1>10
  <2>2. Starts(n, v) <=> n[1] = v /\ n[2] = Bar
    BY <2>1 DEF Starts, Bar
  <2> QED  BY <1>12, <2>2
<1>19. Len(n) = Len(r) + 2 /\ \A k \in 1..Len(r) : n[k + 2] = r[k]
  BY <1>0, <1>10, <1>16
<1> QED  BY <1>10, <1>12, <1>15, <1>17, <1>18, <1>19 DEF Text, Joins

\* The last place of the word is the one between them.
LEMMA Parted ==
  ASSUME NEW a \in Text, NEW b \in Text, NEW w \in JoiningWords, NEW r, Between(r, a, w, b),
         a # <<>>, b # <<>>, w \notin Range(b), w \in Pieces
  PROVE  Len(a) + 1 \in Places(r, w) /\ Split(r, w) = <<a, b>>
<1>0. /\ a \in Seq(Pieces) /\ Len(a) \in Nat /\ b \in Seq(Pieces) /\ Len(b) \in Nat /\ Len(a) >= 1 /\ Len(b) >= 1
      /\ w # Bar
  BY BarFacts DEF Text
<1>1. r \in Text /\ r \in Seq(Pieces) /\ Len(r) = Len(a) + Len(b) + 3
  BY DEF Between, Text
<1>2. Len(a) + 1 \in Places(r, w)
  <2>1. Len(a) + 1 \in 2..(Len(r) - 3) /\ (Len(a) + 1) + 1 = Len(a) + 2 /\ (Len(a) + 1) + 2 = Len(a) + 3
    BY <1>0, <1>1
  <2>2. r[Len(a) + 1] = Bar /\ r[Len(a) + 2] = w /\ r[Len(a) + 3] = Bar
    BY DEF Between
  <2>3. r[(Len(a) + 1) + 1] = w /\ r[(Len(a) + 1) + 2] = Bar
    BY <2>1, <2>2
  <2> QED  BY <1>1, <2>1, <2>2, <2>3, PlacesAre
<1>3. ASSUME NEW i \in Places(r, w)  PROVE Len(a) + 1 >= i
  <2>1. i \in 2..(Len(r) - 3) /\ r[i + 1] = w
    BY <1>1, PlacesAre
  <2>2. ASSUME i > Len(a) + 1  PROVE FALSE
    <3>1. CASE i = Len(a) + 2
      <4>1. i + 1 = Len(a) + 3
        BY <1>0, <3>1
      <4> QED  BY <1>0, <2>1, <4>1 DEF Between
    <3>2. CASE i > Len(a) + 2
      <4>1. i - (Len(a) + 2) \in 1..Len(b) /\ Len(a) + 3 + (i - (Len(a) + 2)) = i + 1
        BY <1>0, <1>1, <2>1, <3>2
      <4>2. r[i + 1] = b[i - (Len(a) + 2)]
        BY <4>1 DEF Between
      <4>3. b[i - (Len(a) + 2)] \in Range(b)
        BY <1>0, <4>1 DEF Range
      <4> QED  BY <2>1, <4>2, <4>3
    <3> QED  BY <1>0, <2>1, <2>2, <3>1, <3>2
  <2> QED  BY <1>0, <2>1, <2>2
<1>4. Max(Places(r, w)) = Len(a) + 1
  <2>1. \A i \in Places(r, w) : i \in Int
    BY <1>1, PlacesAre
  <2>2. \A x \in Places(r, w) : (\A y \in Places(r, w) : x >= y) => x = Len(a) + 1
    BY <1>0, <1>2, <1>3, <2>1
  <2> QED  BY <1>2, <1>3, <2>2 DEF Max
<1>5. Before(r, Len(a) + 1) = a
  <2> DEFINE t == SubSeq(r, 1, (Len(a) + 1) - 1)
  <2>1. 1 \in Int /\ (Len(a) + 1) - 1 \in Int /\ (Len(a) + 1) - 1 = Len(a) /\ (\A i \in 1..((Len(a) + 1) - 1) : r[i] \in Pieces)
    BY <1>0, <1>1
  <2>2. t \in Seq(Pieces) /\ Len(t) = Len(a) /\ \A k \in 1..Len(a) : t[k] = r[k]
    <3>1. /\ t \in Seq(Pieces) /\ Len(t) = IF 1 <= (Len(a) + 1) - 1 THEN ((Len(a) + 1) - 1) - 1 + 1 ELSE 0
          /\ \A k \in 1..(((Len(a) + 1) - 1) - 1 + 1) : t[k] = r[1 + k - 1]
      BY <2>1, SubSeqProperties
    <3> HIDE DEF t
    <3>2. ((Len(a) + 1) - 1) - 1 + 1 = Len(a) /\ 1 <= (Len(a) + 1) - 1 /\ \A k \in 1..Len(a) : 1 + k - 1 = k
      BY <1>0
    <3> QED  BY <3>1, <3>2
  <2> HIDE DEF t
  <2>3. \A k \in 1..Len(t) : t[k] = a[k]
    BY <2>2 DEF Between
  <2>4. t = a
    BY <1>0, <2>2, <2>3, SeqEqual
  <2> QED  BY <2>4 DEF Before, t
<1>6. After(r, Len(a) + 1) = b
  <2> DEFINE t == SubSeq(r, (Len(a) + 1) + 3, Len(r))
  <2>1. /\ (Len(a) + 1) + 3 \in Int /\ Len(r) \in Int /\ (\A i \in ((Len(a) + 1) + 3)..Len(r) : r[i] \in Pieces)
        /\ (Len(a) + 1) + 3 <= Len(r) /\ Len(r) - ((Len(a) + 1) + 3) + 1 = Len(b)
    BY <1>0, <1>1
  <2>2. t \in Seq(Pieces) /\ Len(t) = Len(b) /\ \A k \in 1..Len(b) : t[k] = r[Len(a) + 3 + k]
    <3>1. /\ t \in Seq(Pieces) /\ Len(t) = IF (Len(a) + 1) + 3 <= Len(r) THEN Len(r) - ((Len(a) + 1) + 3) + 1 ELSE 0
          /\ \A k \in 1..(Len(r) - ((Len(a) + 1) + 3) + 1) : t[k] = r[((Len(a) + 1) + 3) + k - 1]
      BY <2>1, SubSeqProperties
    <3> HIDE DEF t
    <3>2. \A k \in 1..Len(b) : ((Len(a) + 1) + 3) + k - 1 = Len(a) + 3 + k
      BY <1>0
    <3> QED  BY <2>1, <3>1, <3>2
  <2> HIDE DEF t
  <2>3. \A k \in 1..Len(t) : t[k] = b[k]
    BY <2>2 DEF Between
  <2>4. t = b
    BY <1>0, <2>2, <2>3, SeqEqual
  <2> QED  BY <2>4 DEF After, t
<1> QED  BY <1>2, <1>4, <1>5, <1>6 DEF Split

-----------------------------------------------------------------------------
(* What the executor makes of a generated name *)

LEMMA PluralNames ==
  ASSUME NEW i \in DOMAIN NodeTypes
  PROVE  FromPlural(PluralSlug(NodeTypes[i])) = NodeTypes[i].name
<1> DEFINE s == PluralSlug(NodeTypes[i])
           P == {j \in DOMAIN NodeTypes : s \in {PluralSlug(NodeTypes[j]), NodeTypes[j].slug}}
<1>1. P \subseteq {i} /\ i \in P
  BY NamesAssumption, WordsAssumption
<1> HIDE DEF P
<1>2. FirstType(P) = NodeTypes[i].name /\ NodeTypes[i].name # None
  BY <1>1, OneType, TypeFacts
<1> QED  BY <1>2 DEF FromPlural, P

LEMMA ExactSlug ==
  ASSUME NEW i \in DOMAIN NodeTypes
  PROVE  FromSlug(NodeTypes[i].slug) = NodeTypes[i].name
<1> DEFINE s == NodeTypes[i].slug
           P == {j \in DOMAIN NodeTypes : NodeTypes[j].slug = s}
<1>1. P \subseteq {i} /\ i \in P
  BY NamesAssumption
<1> HIDE DEF P
<1>2. FirstType(P) = NodeTypes[i].name /\ NodeTypes[i].name # None
  BY <1>1, OneType, TypeFacts
<1> QED  BY <1>2 DEF FromSlug, P

\* A type is found by its name, and its slug tells it from every other.
LEMMA NamedOnce ==
  ASSUME NEW i \in DOMAIN NodeTypes
  PROVE  NamedNode(NodeTypes[i].name) = NodeTypes[i] /\ SlugOf(NodeTypes[i].name) = NodeTypes[i].slug
<1>1. \A j \in DOMAIN NodeTypes : NodeTypes[j].name = NodeTypes[i].name => j = i
  BY WordsAssumption
<1>2. (CHOOSE j \in DOMAIN NodeTypes : NodeTypes[j].name = NodeTypes[i].name) = i
  BY <1>1
<1> QED  BY <1>2 DEF NamedNode, SlugOf

LEMMA SlugsDiffer ==
  ASSUME NEW x \in TypeNames, NEW y \in TypeNames, SlugOf(x) = SlugOf(y)
  PROVE  x = y
<1>1. PICK i \in DOMAIN NodeTypes : x = NodeTypes[i].name
  BY DEF TypeNames
<1>2. PICK j \in DOMAIN NodeTypes : y = NodeTypes[j].name
  BY DEF TypeNames
<1>3. NodeTypes[i].slug = NodeTypes[j].slug
  BY <1>1, <1>2, NamedOnce
<1>4. i = j
  BY <1>3, NamesAssumption
<1> QED  BY <1>1, <1>2, <1>4

\* No word that joins names is in a slug or a plural.
LEMMA SlugWords ==
  ASSUME NEW i \in DOMAIN NodeTypes, NEW w \in JoiningWords
  PROVE  /\ NodeTypes[i].slug # <<>> /\ w \notin Range(NodeTypes[i].slug)
         /\ PluralSlug(NodeTypes[i]) # <<>> /\ w \notin Range(PluralSlug(NodeTypes[i]))
<1> DEFINE s == NodeTypes[i].slug
           p == NodeTypes[i].plural
<1>1. s \in Seq(Pieces) /\ p \in Seq(Pieces)
  BY TypeFacts DEF Text
<1>2. s # <<>> /\ w \notin Range(s) /\ w \notin Range(p)
  BY WordsAssumption
<1>3. w # "s"
  BY DEF JoiningWords
<1> HIDE DEF s, p
<1>4. WithS(s) # <<>> /\ w \notin Range(WithS(s))
  <2> DEFINE t == Append(s, "s")
  <2>1. Len(s) \in Nat /\ Len(t) = Len(s) + 1 /\ DOMAIN t = 1..(Len(s) + 1)
        /\ \A k \in 1..(Len(s) + 1) : t[k] = IF k = Len(s) + 1 THEN "s" ELSE s[k]
    BY <1>1
  <2>2. \A k \in 1..Len(s) : s[k] \in Range(s)
    BY <1>1 DEF Range
  <2> HIDE DEF t
  <2>3. t # <<>>
    BY <2>1
  <2>4. \A k \in DOMAIN t : t[k] # w
    BY <1>2, <1>3, <2>1, <2>2
  <2> QED  BY <2>3, <2>4 DEF WithS, t, Range
<1>5. PluralSlug(NodeTypes[i]) = IF p = <<>> THEN WithS(s) ELSE p
  BY DEF PluralSlug, p, s
<1> QED  BY <1>2, <1>4, <1>5 DEF s

\* The same of a type that goes by its name.
LEMMA EndWords ==
  ASSUME NEW x \in TypeNames, NEW w \in JoiningWords
  PROVE  SlugOf(x) \in Text /\ SlugOf(x) # <<>> /\ w \notin Range(SlugOf(x))
<1>1. PICK i \in DOMAIN NodeTypes : x = NodeTypes[i].name
  BY DEF TypeNames
<1> QED  BY <1>1, NamedOnce, SlugWords, TypeFacts

Settled(op, on) == IF on = None THEN Refused ELSE Act(op, on)

LEMMA ActsWhen ==
  ASSUME NEW name, NEW op, name[1] = op, \A w : Starts(name, w) <=> w = op
  PROVE  LET s == Rest(name)
         IN /\ op \in {"query", "count"} => Acts(name) = Settled(op, FromPlural(s))
            /\ op = "find" => Acts(name) = Settled("find", FromPlural(PartBefore(s, "by")))
            /\ op = "get" /\ Places(name, "by") # {} => Acts(name) = Settled("lookup", FromSlug(PartBefore(s, "by")))
            /\ op = "get" /\ Places(name, "by") = {} => Acts(name) = Settled("get", FromPlural(s))
            /\ op = "list" => Acts(name).op \in {"query", "error"}
            /\ op \in Changes => Acts(name) = Settled(op, FromPlural(s))
            /\ op = "connect" => Acts(name) = Settled("connect", EdgeAcross(s, "to"))
            /\ op = "disconnect" => Acts(name) = Settled("disconnect", EdgeAcross(s, "from"))
            /\ op = "search" => Acts(name) = Refused
<1>1. CASE op \in {"query", "count"}
  BY <1>1 DEF Acts, Settled, Act, Refused, Changes
<1>2. CASE op = "find"
  BY <1>2 DEF Acts, Settled, Act, Refused, Changes
<1>3. CASE op = "get"
  BY <1>3 DEF Acts, Settled, Act, Refused, Changes
<1>4. CASE op = "list"
  BY <1>4 DEF Acts, Settled, Act, Refused, Changes
<1>5. CASE op \in Changes
  BY <1>5 DEF Acts, Settled, Act, Refused, Changes
<1>6. CASE op = "connect"
  BY <1>6 DEF Acts, Settled, Act, Refused, Changes
<1>7. CASE op = "disconnect"
  BY <1>7 DEF Acts, Settled, Act, Refused, Changes
<1>8. CASE op = "search"
  BY <1>8 DEF Acts, Settled, Act, Refused, Changes
<1> QED  BY <1>1, <1>2, <1>3, <1>4, <1>5, <1>6, <1>7, <1>8 DEF Changes

LEMMA WordFacts == /\ JoiningWords \subseteq Pieces
                   /\ \A op \in Operations : op \notin JoiningWords
                   /\ Operations \ {"lookup", "get_related"} \subseteq Pieces
BY SchemaAssumption DEF JoiningWords, Operations

\* Where a word stands in a name, both parts of it are not empty, and in the
\* whole name it stands two places further.
LEMMA PlaceInside ==
  ASSUME NEW n \in Text, NEW w \in Pieces, NEW i, Rest(n) \in Text, i \in Places(Rest(n), w),
         Len(n) = Len(Rest(n)) + 2, \A k \in 1..Len(Rest(n)) : n[k + 2] = Rest(n)[k]
  PROVE  i + 2 \in Places(n, w)
<1> DEFINE r == Rest(n)
<1>1. i \in 2..(Len(r) - 3) /\ r[i] = Bar /\ r[i + 1] = w /\ r[i + 2] = Bar
  BY PlacesAre
<1>2. Len(r) \in Nat
  BY DEF Text
<1>3. \A k \in 1..Len(r) : n[k + 2] = r[k]
  OBVIOUS
<1>4. Len(n) = Len(r) + 2
  OBVIOUS
<1> HIDE DEF r
<1>5. /\ i \in 1..Len(r) /\ i + 1 \in 1..Len(r) /\ i + 2 \in 1..Len(r)
      /\ (i + 1) + 2 = (i + 2) + 1 /\ i + 2 \in 2..(Len(n) - 3)
  BY <1>1, <1>2, <1>4
<1>6. n[i + 2] = Bar /\ n[(i + 2) + 1] = w /\ n[(i + 2) + 2] = Bar
  BY <1>1, <1>3, <1>5
<1> QED  BY <1>5, <1>6, PlacesAre

\* A word that is not in a name has no place there.
LEMMA NoPlace ==
  ASSUME NEW n \in Text, NEW w \in Pieces, w \notin Range(n)
  PROVE  Places(n, w) = {}
<1> SUFFICES ASSUME NEW i \in Places(n, w)  PROVE FALSE
  OBVIOUS
<1>1. i \in 2..(Len(n) - 3) /\ n[i + 1] = w
  BY PlacesAre
<1>2. n \in Seq(Pieces) /\ Len(n) \in Nat /\ DOMAIN n = 1..Len(n)
  BY DEF Text
<1>3. i + 1 \in DOMAIN n
  BY <1>1, <1>2
<1> QED  BY <1>1, <1>3 DEF Range

LEMMA NoPlaceOpened ==
  ASSUME NEW op \in Pieces, NEW a \in Text, NEW n, Opens(n, op, a), NEW w \in JoiningWords, w # op, w \notin Range(a)
  PROVE  Places(n, w) = {}
<1>1. n \in Seq(Pieces) /\ Len(n) \in Nat /\ DOMAIN n = 1..Len(n) /\ Len(a) \in Nat /\ DOMAIN a = 1..Len(a)
  BY DEF Opens, Text
<1>2. Len(n) = Len(a) + 2 /\ n[1] = op /\ n[2] = Bar /\ \A k \in 1..Len(a) : n[k + 2] = a[k]
  BY DEF Opens
<1>3. w # Bar /\ w \in Pieces
  BY BarFacts, WordFacts
<1>4. ASSUME NEW k \in DOMAIN n  PROVE n[k] # w
  <2>1. CASE k = 1 \/ k = 2
    BY <1>2, <1>3, <2>1
  <2>2. CASE k # 1 /\ k # 2
    <3>1. k - 2 \in 1..Len(a) /\ (k - 2) + 2 = k
      BY <1>1, <1>2, <2>2
    <3>2. n[k] = a[k - 2]
      BY <1>2, <3>1
    <3> QED  BY <1>1, <3>1, <3>2 DEF Range
  <2> QED  BY <2>1, <2>2
<1>5. w \notin Range(n)
  BY <1>4 DEF Range
<1> QED  BY <1>3, <1>5, NoPlace DEF Opens

\* A tool of a type without a prefix does its operation on its type.
LEMMA CrudActs ==
  ASSUME NEW i \in DOMAIN NodeTypes, NEW op \in {"create", "get", "update", "delete"}, NEW n
  PROVE  n = <<op>> \o Under(NodeTypes[i].slug) => Acts(n) = Act(op, NodeTypes[i].name)
<1>a. SUFFICES ASSUME n = <<op>> \o Under(NodeTypes[i].slug)
               PROVE  Acts(n) = Act(op, NodeTypes[i].name)
  OBVIOUS
<1> DEFINE a == NodeTypes[i].slug
<1>1. op \in Pieces /\ op \notin JoiningWords /\ a \in Text
  BY WordFacts, TypeFacts DEF Operations
<1>2. Opens(n, op, a)
  BY <1>a, <1>1, Opened
<1>3. n[1] = op /\ Rest(n) = a /\ \A w : Starts(n, w) <=> w = op
  BY <1>2 DEF Opens
<1>4. FromPlural(Rest(n)) = NodeTypes[i].name /\ NodeTypes[i].name # None
  BY <1>3, SlugNames, TypeFacts
<1>5. Places(n, "by") = {}
  <2>1. "by" \in JoiningWords /\ "by" \notin Range(a)
    BY SlugWords DEF JoiningWords
  <2> QED  BY <1>1, <1>2, <2>1, NoPlaceOpened
<1>6. Acts(n) = Settled(op, FromPlural(Rest(n)))
  BY <1>3, <1>5, ActsWhen DEF Changes
<1> QED  BY <1>4, <1>6 DEF Settled

LEMMA PluralActs ==
  ASSUME NEW i \in DOMAIN NodeTypes, NEW op \in {"query", "count"}, NEW n
  PROVE  n = <<op>> \o Under(PluralSlug(NodeTypes[i])) => Acts(n) = Act(op, NodeTypes[i].name)
<1>a. SUFFICES ASSUME n = <<op>> \o Under(PluralSlug(NodeTypes[i]))
               PROVE  Acts(n) = Act(op, NodeTypes[i].name)
  OBVIOUS
<1> DEFINE a == PluralSlug(NodeTypes[i])
<1>1. op \in Pieces /\ a \in Text
  BY WordFacts, PluralIsText DEF Operations
<1> HIDE DEF a
<1>2. Opens(n, op, a)
  BY <1>a, <1>1, Opened DEF a
<1>3. n[1] = op /\ Rest(n) = a /\ \A w : Starts(n, w) <=> w = op
  BY <1>2 DEF Opens
<1>4. FromPlural(Rest(n)) = NodeTypes[i].name /\ NodeTypes[i].name # None
  BY <1>3, PluralNames, TypeFacts DEF a
<1>5. Acts(n) = Settled(op, FromPlural(Rest(n)))
  BY <1>3, ActsWhen
<1> QED  BY <1>4, <1>5 DEF Settled

\* Two names joined by a word: the first is found again, and the second.
Linked(op, a, w, b) == <<op>> \o Under(a) \o <<"_", w>> \o Under(b)

LEMMA JoinedSplits ==
  ASSUME NEW op \in Pieces, NEW w \in JoiningWords, NEW a \in Text, NEW b \in Text, a # <<>>, b # <<>>,
         w \notin Range(b), NEW n
  PROVE  n = Linked(op, a, w, b) =>
           /\ n[1] = op /\ (\A v : Starts(n, v) <=> v = op)
           /\ Split(Rest(n), w) = <<a, b>> /\ Places(n, w) # {}
<1>a. SUFFICES ASSUME n = Linked(op, a, w, b)
               PROVE  /\ n[1] = op /\ (\A v : Starts(n, v) <=> v = op)
                      /\ Split(Rest(n), w) = <<a, b>> /\ Places(n, w) # {}
  OBVIOUS
<1>1. w \in Pieces
  BY WordFacts
<1>2. Joins(n, op, a, w, b)
  BY <1>a, <1>1, Joined DEF Linked
<1>3. Between(Rest(n), a, w, b)
  BY <1>2 DEF Joins
<1>4. Len(a) + 1 \in Places(Rest(n), w) /\ Split(Rest(n), w) = <<a, b>>
  BY <1>1, <1>3, Parted
<1>5. n \in Text /\ Rest(n) \in Text /\ Len(n) = Len(Rest(n)) + 2 /\ \A k \in 1..Len(Rest(n)) : n[k + 2] = Rest(n)[k]
  BY <1>2, <1>3 DEF Joins, Between
<1>6. (Len(a) + 1) + 2 \in Places(n, w)
  BY <1>1, <1>4, <1>5, PlaceInside
<1> QED  BY <1>2, <1>4, <1>6 DEF Joins

LEMMA FindActs ==
  ASSUME NEW i \in DOMAIN NodeTypes, NEW to \in TypeNames, NEW n
  PROVE  n = <<"find">> \o Under(PluralSlug(NodeTypes[i])) \o <<"_", "by">> \o Under(SlugOf(to)) =>
           Acts(n) = Act("find", NodeTypes[i].name)
<1>a. SUFFICES ASSUME n = <<"find">> \o Under(PluralSlug(NodeTypes[i])) \o <<"_", "by">> \o Under(SlugOf(to))
               PROVE  Acts(n) = Act("find", NodeTypes[i].name)
  OBVIOUS
<1> DEFINE a == PluralSlug(NodeTypes[i])
           b == SlugOf(to)
<1>1. "by" \in JoiningWords /\ "find" \in Pieces
  BY WordFacts DEF JoiningWords, Operations
<1>2. a \in Text /\ b \in Text /\ a # <<>> /\ b # <<>> /\ "by" \notin Range(b)
  BY <1>1, PluralIsText, SlugWords, EndWords
<1> HIDE DEF a, b
<1>6. n = Linked("find", a, "by", b)
  BY <1>a DEF Linked, a, b
<1>3. /\ n[1] = "find" /\ (\A v : Starts(n, v) <=> v = "find")
      /\ Split(Rest(n), "by") = <<a, b>>
  BY <1>1, <1>2, <1>6, JoinedSplits
<1>4. PartBefore(Rest(n), "by") = a
  BY <1>3 DEF PartBefore
<1>5. Acts(n) = Settled("find", FromPlural(a))
  BY <1>3, <1>4, ActsWhen
<1> QED  BY <1>5, PluralNames, TypeFacts DEF Settled, a

LEMMA LookupActs ==
  ASSUME NEW i \in DOMAIN NodeTypes, NEW f \in LookupFields(NodeTypes[i]), NEW n
  PROVE  n = <<"get">> \o Under(NodeTypes[i].slug) \o <<"_", "by">> \o Under(f) =>
           Acts(n) = Act("lookup", NodeTypes[i].name)
<1>a. SUFFICES ASSUME n = <<"get">> \o Under(NodeTypes[i].slug) \o <<"_", "by">> \o Under(f)
               PROVE  Acts(n) = Act("lookup", NodeTypes[i].name)
  OBVIOUS
<1> DEFINE a == NodeTypes[i].slug
<1>1. "by" \in JoiningWords /\ "get" \in Pieces
  BY WordFacts DEF JoiningWords, Operations
<1>2. a \in Text /\ a # <<>>
  BY <1>1, TypeFacts, SlugWords
<1>3. f \in Text /\ f # <<>> /\ "by" \notin Range(f)
  BY TypeFacts, WordsAssumption DEF LookupFields
<1>7. n = Linked("get", a, "by", f)
  BY <1>a DEF Linked
<1> HIDE DEF a
<1>4. /\ n[1] = "get" /\ (\A v : Starts(n, v) <=> v = "get")
      /\ Split(Rest(n), "by") = <<a, f>> /\ Places(n, "by") # {}
  BY <1>1, <1>2, <1>3, <1>7, JoinedSplits
<1>5. PartBefore(Rest(n), "by") = a
  BY <1>4 DEF PartBefore
<1>6. Acts(n) = Settled("lookup", FromSlug(a))
  BY <1>4, <1>5, ActsWhen
<1> QED  BY <1>6, ExactSlug, TypeFacts DEF Settled, a

\* An edge type is found between the types it joins, if no other joins them.
OneEdge ==
  \A i, j \in DOMAIN EdgeTypes :
    i # j => Range(PairsOf(EdgeTypes[i])) \intersect Range(PairsOf(EdgeTypes[j])) = {}

LEMMA PairFacts ==
  ASSUME NEW i \in DOMAIN EdgeTypes, NEW pair \in Range(PairsOf(EdgeTypes[i]))
  PROVE  pair[1] \in TypeNames /\ pair[2] \in TypeNames /\ pair = <<pair[1], pair[2]>>
<1> DEFINE s == PairsOf(EdgeTypes[i])
<1>1. s \in Seq(TypeNames \X TypeNames)
  BY PairsGood
<1> HIDE DEF s
<1>2. pair \in TypeNames \X TypeNames
  <2>1. pair \in Range(s)
    BY DEF s
  <2> QED  BY <1>1, <2>1 DEF Range
<1> QED  BY <1>2

LEMMA EdgeFound ==
  ASSUME OneEdge, NEW i \in DOMAIN EdgeTypes, NEW pair \in Range(PairsOf(EdgeTypes[i]))
  PROVE  EdgeBetween(SlugOf(pair[1]), SlugOf(pair[2])) = EdgeTypes[i].name
<1> DEFINE from == SlugOf(pair[1])
           to == SlugOf(pair[2])
           P == {j \in DOMAIN EdgeTypes :
                   \E q \in Range(PairsOf(EdgeTypes[j])) : SlugOf(q[1]) = from /\ SlugOf(q[2]) = to}
<1>1. i \in P
  OBVIOUS
<1>2. ASSUME NEW j \in P  PROVE j = i
  <2>1. PICK q \in Range(PairsOf(EdgeTypes[j])) : SlugOf(q[1]) = from /\ SlugOf(q[2]) = to
    BY <1>2
  <2>2. q = pair
    <3>1. q[1] \in TypeNames /\ q[2] \in TypeNames /\ q = <<q[1], q[2]>>
      BY <1>2, PairFacts
    <3>2. pair[1] \in TypeNames /\ pair[2] \in TypeNames /\ pair = <<pair[1], pair[2]>>
      BY PairFacts
    <3>3. q[1] = pair[1] /\ q[2] = pair[2]
      BY <2>1, <3>1, <3>2, SlugsDiffer
    <3> QED  BY <3>1, <3>2, <3>3
  <2> QED  BY <1>2, <2>2 DEF OneEdge
<1>3. P = {i}
  BY <1>1, <1>2
<1> HIDE DEF P
<1>4. i \in Int
  <2>1. PICK R : EdgeTypes \in Seq(R)
    BY SchemaAssumption
  <2> QED  BY <2>1
<1>5. Min({i}) = i
  BY <1>4 DEF Min
<1> QED  BY <1>3, <1>5 DEF EdgeBetween, P

LEMMA EdgeActs ==
  ASSUME OneEdge, NEW i \in DOMAIN EdgeTypes, NEW op \in {"connect", "disconnect"},
         NEW pair \in Range(PairsOf(EdgeTypes[i]))
  PROVE  /\ Acts(Joining(op, pair)) = Act(op, EdgeTypes[i].name)
         /\ Required(Joining(op, pair)) = <<>>
<1> DEFINE n == Joining(op, pair)
           w == IF op = "connect" THEN "to" ELSE "from"
           a == SlugOf(pair[1])
           b == SlugOf(pair[2])
<1>1. w \in JoiningWords /\ op \in Pieces
  BY WordFacts DEF JoiningWords, Operations
<1>2. a \in Text /\ b \in Text /\ a # <<>> /\ b # <<>> /\ w \notin Range(b)
  BY <1>1, PairFacts, EndWords
<1>3. n = Linked(op, a, w, b)
  BY DEF Joining, Linked
<1>4. EdgeBetween(a, b) = EdgeTypes[i].name /\ EdgeTypes[i].name # None
  BY EdgeFound, EdgeFacts
<1> HIDE DEF n, a, b, w
<1>5. n[1] = op /\ (\A v : Starts(n, v) <=> v = op) /\ Split(Rest(n), w) = <<a, b>>
  BY <1>1, <1>2, <1>3, JoinedSplits
<1>6. EdgeAcross(Rest(n), w) = EdgeTypes[i].name
  <2> DEFINE s == Split(Rest(n), w)
  <2>1. EdgeAcross(Rest(n), w) = IF s = <<>> THEN None ELSE EdgeBetween(s[1], s[2])
    BY DEF EdgeAcross
  <2>2. s = <<a, b>>
    BY <1>5
  <2> HIDE DEF s
  <2>3. s # <<>> /\ s[1] = a /\ s[2] = b
    BY <2>2
  <2> QED  BY <1>4, <2>1, <2>3
<1>7. Acts(n) = Settled(op, EdgeTypes[i].name)
  BY <1>5, <1>6, ActsWhen DEF w
<1>8. TypeOfTool(n) = None
  <2>1. ~\E p \in KnownPrefixes : Starts(n, p)
    BY <1>5 DEF KnownPrefixes
  <2> QED  BY <2>1 DEF TypeOfTool
<1> QED  BY <1>4, <1>7, <1>8 DEF Settled, Required, n

-----------------------------------------------------------------------------
(* What a read needs *)

LEMMA ReadersRead ==
  ASSUME NEW c, c.role \in Roles, NEW x
  PROVE  Granted(c, <<"read", "node", x>>)
<1> DEFINE required == <<"read", "node", x>>
<1>1. \E p \in RolePermissions(c.role) : Matches(p, required)
  <2> DEFINE p == <<"read", "node", "*">>
  <2>1. p \in Own["viewer"]
    BY DEF Own
  <2>2. Rank(c.role) \in 1..5
    <3>1. PICK k \in DOMAIN RoleOrder : RoleOrder[k] = c.role
      BY DEF Roles
    <3>2. Rank(c.role) \in DOMAIN RoleOrder
      BY <3>1 DEF Rank
    <3>3. DOMAIN RoleOrder = 1..5
      BY DEF RoleOrder
    <3> QED  BY <3>2, <3>3
  <2>3. 1 \in 1..Rank(c.role) /\ RoleOrder[1] = "viewer"
    BY <2>2 DEF RoleOrder
  <2>4. p \in RolePermissions(c.role)
    <3> HIDE DEF p
    <3> QED  BY <2>1, <2>3 DEF RolePermissions
  <2>5. Matches(p, required)
    <3>1. Len(p) = 3 /\ p[3] = "*" /\ Len(required) = 3
      OBVIOUS
    <3>2. SubSeq(required, 1, 2) = SubSeq(p, 1, 2)
      OBVIOUS
    <3> HIDE DEF p, required
    <3> QED  BY <3>1, <3>2 DEF Matches
  <2> QED  BY <2>4, <2>5
<1> HIDE DEF required
<1>2. Allowed(c.role, c.grants, required)
  BY <1>1 DEF Allowed, RoleAllows
<1> QED  BY <1>2 DEF Granted, required

\* Whoever calls a name that begins with an operation that reads may do it.
LEMMA ReadsGranted ==
  ASSUME NEW c, c.role \in Roles, NEW n, n[1] \notin Changes \union {"connect", "disconnect"}
  PROVE  Granted(c, Required(n))
<1>1. Required(n) = IF TypeOfTool(n) = None THEN <<>> ELSE <<"read", "node", TypeOfTool(n)>>
  BY DEF Required, Changes
<1>2. CASE TypeOfTool(n) = None
  BY <1>1, <1>2 DEF Granted
<1>3. CASE TypeOfTool(n) # None
  BY <1>1, <1>3, ReadersRead
<1> QED  BY <1>2, <1>3

-----------------------------------------------------------------------------
(* Tools behind a capability that reads *)

LEMMA LettersFacts ==
  ASSUME NEW s \in Text, NEW w \in Pieces
  PROVE  /\ w # Bar /\ w \in Range(s) => w \in Range(Letters(s))
         /\ w \notin Range(s) => w \notin Range(Letters(s))
<1> DEFINE q == [k \in DOMAIN s |-> When(s[k] # "_", <<s[k]>>)]
<1>1. s \in Seq(Pieces) /\ Len(s) \in Nat /\ DOMAIN s = 1..Len(s) /\ \A k \in DOMAIN s : s[k] \in Pieces
  BY DEF Text
<1>2. Letters(s) = FlattenSeq(q)
  BY DEF Letters
<1>3. \A k \in DOMAIN s : k \in DOMAIN q /\ q[k] = When(s[k] # Bar, <<s[k]>>)
  BY DEF Bar
<1>4. DOMAIN q = DOMAIN s /\ q = [k \in DOMAIN s |-> q[k]]
  OBVIOUS
<1> HIDE DEF q
<1>5. ASSUME NEW S, \A k \in DOMAIN s : s[k] \in S  PROVE q \in Seq(Seq(S))
  <2>1. \A k \in DOMAIN s : q[k] \in Seq(S)
    BY <1>3, <1>5, OneWhen
  <2>2. q \in [1..Len(s) -> Seq(S)]
    BY <1>1, <1>4, <2>1
  <2> QED  BY <1>1, <2>2
<1>6. ASSUME w # Bar, w \in Range(s)  PROVE w \in Range(Letters(s))
  <2>1. PICK k \in DOMAIN s : s[k] = w
    BY <1>6 DEF Range
  <2>2. q[k] = <<w>>
    BY <1>3, <1>6, <2>1 DEF When
  <2>3. w \in Range(q[k])
    <3> DEFINE o == <<w>>
    <3>1. 1 \in DOMAIN o /\ o[1] = w
      OBVIOUS
    <3>2. q[k] = o
      BY <2>2
    <3> HIDE DEF o
    <3> QED  BY <3>1, <3>2 DEF Range
  <2>4. q \in Seq(Seq(Pieces))
    BY <1>1, <1>5
  <2> QED  BY <1>2, <1>4, <2>1, <2>3, <2>4, FlattenFacts
<1>7. ASSUME w \notin Range(s)  PROVE w \notin Range(Letters(s))
  <2> DEFINE S == Pieces \ {w}
  <2>1. \A k \in DOMAIN s : s[k] \in S
    BY <1>1, <1>7 DEF Range
  <2> HIDE DEF S
  <2>2. q \in Seq(Seq(S))
    BY <1>5, <2>1
  <2>3. FlattenSeq(q) \in Seq(S)
    BY <2>2, FlattenFacts
  <2>4. \A x \in Range(FlattenSeq(q)) : x \in S
    <3> DEFINE f == FlattenSeq(q)
    <3>1. f \in Seq(S)
      BY <2>3
    <3> HIDE DEF f
    <3>2. \A x \in Range(f) : x \in S
      BY <3>1 DEF Range
    <3> QED  BY <3>2 DEF f
  <2> QED  BY <1>2, <2>4 DEF S
<1> QED  BY <1>6, <1>7

\* What has a joining word in it is the slug of no type.
LEMMA NoSlug ==
  ASSUME NEW s \in Text, NEW w \in JoiningWords, w \in Range(s)
  PROVE  FromSlug(s) = None
<1>1. w \in Pieces /\ w # Bar
  BY WordFacts, BarFacts
<1>2. {i \in DOMAIN NodeTypes : NodeTypes[i].slug = s} = {}
  BY SlugWords
<1>3. {i \in DOMAIN NodeTypes : Letters(NodeTypes[i].slug) = Letters(s)} = {}
  <2>1. ASSUME NEW i \in DOMAIN NodeTypes  PROVE Letters(NodeTypes[i].slug) # Letters(s)
    <3>1. NodeTypes[i].slug \in Text /\ w \notin Range(NodeTypes[i].slug)
      BY SlugWords, TypeFacts
    <3>2. w \in Range(Letters(s)) /\ w \notin Range(Letters(NodeTypes[i].slug))
      BY <1>1, <3>1, LettersFacts
    <3> QED  BY <3>2
  <2> QED  BY <2>1
<1>4. FirstType({}) = None
  BY DEF FirstType
<1> QED  BY <1>2, <1>3, <1>4 DEF FromSlug, ByLetters

\* get_<a>_<b>_via_<edge>: whatever the slug of the edge type, nothing is written.
LEMMA ViaReads ==
  ASSUME NEW a \in Text, NEW e \in Text, a # <<>>, "by" \notin Range(a), NEW n
  PROVE  n = Linked("get", a, "via", e) => Acts(n).op \in {"get", "error"}
<1>a. SUFFICES ASSUME n = Linked("get", a, "via", e)
               PROVE  Acts(n).op \in {"get", "error"}
  OBVIOUS
<1> DEFINE r == Rest(n)
           v == Len(a) + 2
<1>1. "get" \in Pieces /\ "via" \in Pieces /\ "by" \in Pieces /\ "via" \in JoiningWords /\ "by" \in JoiningWords
  BY WordFacts DEF JoiningWords, Operations
<1>2. Joins(n, "get", a, "via", e)
  BY <1>a, <1>1, Joined DEF Linked
<1>3. n[1] = "get" /\ \A w : Starts(n, w) <=> w = "get"
  BY <1>2 DEF Joins
<1>4. CASE Places(n, "by") = {}
  <2>1. Acts(n) = Settled("get", FromPlural(r))
    BY <1>3, <1>4, ActsWhen
  <2> QED  BY <2>1 DEF Settled, Refused, Act
<1>5. CASE Places(n, "by") # {}
  <2>1. /\ Len(a) \in Nat /\ Len(a) >= 1 /\ Len(e) \in Nat /\ a \in Seq(Pieces) /\ DOMAIN a = 1..Len(a)
        /\ Bar # "by"
    BY BarFacts, <1>1 DEF Text
  <2>2. n \in Text /\ Len(n) = Len(r) + 2 /\ \A k \in 1..Len(r) : n[k + 2] = r[k]
    BY <1>2 DEF Joins
  <2>3. /\ r \in Text /\ Len(r) = Len(a) + Len(e) + 3
        /\ \A k \in 1..Len(a) : r[k] = a[k]
        /\ r[Len(a) + 1] = Bar /\ r[Len(a) + 2] = "via" /\ r[Len(a) + 3] = Bar
    BY <1>2 DEF Joins, Between
  <2> HIDE DEF r
  <2>4. ASSUME NEW k \in 1..Len(r), r[k] = "by"  PROVE k > Len(a) + 3
    <3>1. CASE k \in 1..Len(a)
      <4>1. a[k] = "by" /\ k \in DOMAIN a
        BY <2>1, <2>3, <2>4, <3>1
      <4> QED  BY <4>1 DEF Range
    <3>2. k # Len(a) + 1 /\ k # Len(a) + 2 /\ k # Len(a) + 3
      BY <2>1, <2>3, <2>4
    <3> QED  BY <2>1, <2>3, <3>1, <3>2
  <2>5. Places(r, "by") # {}
    <3>1. PICK i \in Places(n, "by") : TRUE
      BY <1>5
    <3>2. i \in 2..(Len(n) - 3) /\ n[i] = Bar /\ n[i + 1] = "by" /\ n[i + 2] = Bar
      BY <1>1, <2>2, PlacesAre
    <3>3. i - 1 \in 1..Len(r) /\ (i - 1) + 2 = i + 1 /\ i \in 1..Len(r) /\ i \in Int
      BY <2>1, <2>2, <2>3, <3>2
    <3>4. r[i - 1] = "by" /\ r[i] = Bar
      BY <2>2, <3>2, <3>3
    <3>5. i - 1 > Len(a) + 3
      BY <2>4, <3>3, <3>4
    <3>6. i - 2 \in 2..(Len(r) - 3) /\ i - 2 \in 1..Len(r) /\ (i - 2) + 2 = i /\ (i - 2) + 1 = i - 1
      BY <2>1, <2>2, <2>3, <3>2, <3>5
    <3>7. r[i - 2] = Bar
      BY <2>2, <3>2, <3>6
    <3>8. r[(i - 2) + 1] = "by" /\ r[(i - 2) + 2] = Bar
      BY <3>4, <3>6
    <3>9. i - 2 \in Places(r, "by")
      BY <1>1, <2>3, <3>6, <3>7, <3>8, PlacesAre
    <3> QED  BY <3>9
  <2> DEFINE m == Max(Places(r, "by"))
             b == Before(r, m)
  <2>6. m \in Places(r, "by")
    <3>1. Places(r, "by") \subseteq 1..Len(r) /\ Len(r) \in Nat
      BY <1>1, <2>1, <2>3, PlacesAre
    <3> QED  BY <2>5, <3>1, MaxIsThere
  <2> HIDE DEF m
  <2>7. m \in 2..(Len(r) - 3) /\ r[m + 1] = "by"
    BY <1>1, <2>3, <2>6, PlacesAre
  <2>8. m - 1 \in Int /\ m - 1 >= Len(a) + 2 /\ m - 1 <= Len(r)
    <3>1. m + 1 \in 1..Len(r)
      BY <2>1, <2>3, <2>7
    <3> QED  BY <2>1, <2>3, <2>4, <2>7, <3>1
  <2>9. b \in Text /\ "via" \in Range(b)
    <3> DEFINE t == SubSeq(r, 1, m - 1)
    <3>1. 1 \in Int /\ m - 1 \in Int /\ 1 <= m - 1 /\ (m - 1) - 1 + 1 = m - 1 /\ \A i \in 1..(m - 1) : r[i] \in Pieces
      BY <2>1, <2>3, <2>8 DEF Text
    <3>2. /\ t \in Seq(Pieces) /\ Len(t) = IF 1 <= m - 1 THEN (m - 1) - 1 + 1 ELSE 0
          /\ \A k \in 1..((m - 1) - 1 + 1) : t[k] = r[1 + k - 1]
      BY <3>1, SubSeqProperties
    <3> HIDE DEF t
    <3>3. Len(a) + 2 \in 1..(m - 1) /\ 1 + (Len(a) + 2) - 1 = Len(a) + 2
      BY <2>1, <2>8
    <3>4. Len(a) + 2 \in DOMAIN t /\ t[Len(a) + 2] = "via"
      BY <2>3, <3>1, <3>2, <3>3
    <3>5. t \in Text /\ "via" \in Range(t)
      BY <3>2, <3>4 DEF Text, Range
    <3> QED  BY <3>5 DEF t, Before
  <2> HIDE DEF b
  <2>10. FromSlug(b) = None
    BY <1>1, <2>9, NoSlug
  <2>11. PartBefore(r, "by") = b
    <3> DEFINE s == Split(r, "by")
    <3>1. s = <<b, After(r, m)>>
      BY <2>5 DEF Split, b, m
    <3>2. PartBefore(r, "by") = IF s = <<>> THEN <<>> ELSE s[1]
      BY DEF PartBefore
    <3> HIDE DEF s
    <3>3. s # <<>> /\ s[1] = b
      BY <3>1
    <3> QED  BY <3>2, <3>3
  <2>12. Acts(n) = Settled("lookup", FromSlug(PartBefore(r, "by")))
    BY <1>3, <1>5, ActsWhen DEF r
  <2> QED  BY <2>10, <2>11, <2>12 DEF Settled, Refused, Act
<1> QED  BY <1>4, <1>5

-----------------------------------------------------------------------------
(* What is offered works *)

LEMMA PlainNode ==
  ASSUME NEW i \in DOMAIN NodeTypes, NEW t, NodeMade(t, NodeTypes[i]), NodeTypes[i].prefix = <<>>
  PROVE  /\ Acts(t.name) = Act(t.op, t.type)
         /\ t.op \in Changes => t.name = ChangeOf(t.op, i) /\ NodeTypes[i].exposed /\ Permits(NodeTypes[i], t.op)
         /\ t.op \notin Changes => t.name[1] \notin Changes \union {"connect", "disconnect"}
<1> DEFINE nt == NodeTypes[i]
<1>1. t.type = nt.name /\ \A s \in Text : nt.prefix \o s = s
  BY PieceFacts DEF NodeMade
<1>2. \A op \in {"create", "get", "update", "delete", "query", "count", "find"} : <<op>> \in Text
  BY PieceFacts, SchemaAssumption
<1>3. CASE /\ t.op \in {"create", "get", "update", "delete"} /\ nt.exposed /\ Permits(nt, t.op)
           /\ t.name = nt.prefix \o <<t.op>> \o Under(nt.slug)
  <2>1. t.name = <<t.op>> \o Under(nt.slug)
    <3> DEFINE o == <<t.op>>
    <3>1. o \in Text /\ t.name = nt.prefix \o o \o Under(nt.slug)
      BY <1>2, <1>3
    <3> HIDE DEF o
    <3>2. t.name = o \o Under(nt.slug)
      BY <1>1, <3>1
    <3> QED  BY <3>2 DEF o
  <2>2. Acts(t.name) = Act(t.op, t.type)
    <3>1. t.op \in {"create", "get", "update", "delete"}
      BY <1>3
    <3>2. Acts(t.name) = Act(t.op, nt.name)
      BY <2>1, <3>1, CrudActs
    <3> QED  BY <1>1, <3>2
  <2>3. t.op \in Changes => t.name = ChangeOf(t.op, i)
    BY <2>1 DEF ChangeOf
  <2>4. t.name[1] = t.op
    <3>1. t.op \in Pieces /\ Under(nt.slug) \in Text
      BY <1>3, SchemaAssumption, TypeFacts, PieceFacts
    <3> QED  BY <2>1, <3>1, PieceFacts
  <2>5. t.op \notin {"connect", "disconnect"}
    BY <1>3
  <2> QED  BY <1>3, <2>2, <2>3, <2>4, <2>5
<1>4. CASE t.op \in {"query", "count"} /\ t.name = nt.prefix \o <<t.op>> \o Under(PluralSlug(nt))
  <2>1. t.name = <<t.op>> \o Under(PluralSlug(nt))
    <3> DEFINE o == <<t.op>>
    <3>1. o \in Text /\ t.name = nt.prefix \o o \o Under(PluralSlug(nt))
      BY <1>2, <1>4
    <3> HIDE DEF o
    <3>2. t.name = o \o Under(PluralSlug(nt))
      BY <1>1, <3>1
    <3> QED  BY <3>2 DEF o
  <2>2. Acts(t.name) = Act(t.op, t.type)
    BY <1>1, <1>4, <2>1, PluralActs
  <2>3. t.name[1] = t.op
    <3>1. t.op \in Pieces /\ Under(PluralSlug(nt)) \in Text
      BY <1>4, SchemaAssumption, PluralIsText, PieceFacts
    <3> QED  BY <2>1, <3>1, PieceFacts
  <2>4. t.op \notin Changes \union {"connect", "disconnect"}
    BY <1>4 DEF Changes
  <2> QED  BY <2>2, <2>3, <2>4
<1>5. ASSUME t.op = "find", NEW to \in TypeNames,
             t.name = nt.prefix \o <<"find">> \o Under(PluralSlug(nt)) \o <<"_", "by">> \o Under(SlugOf(to))
      PROVE  Acts(t.name) = Act(t.op, t.type) /\ t.name[1] = "find"
  <2>1. t.name = <<"find">> \o Under(PluralSlug(nt)) \o <<"_", "by">> \o Under(SlugOf(to))
    <3> DEFINE o == <<"find">>
               l == <<"_", "by">>
    <3>1. o \in Text /\ t.name = nt.prefix \o o \o Under(PluralSlug(nt)) \o l \o Under(SlugOf(to))
      BY <1>2, <1>5
    <3> HIDE DEF o, l
    <3>2. t.name = o \o Under(PluralSlug(nt)) \o l \o Under(SlugOf(to))
      BY <1>1, <3>1
    <3> QED  BY <3>2 DEF o, l
  <2>2. Acts(t.name) = Act("find", nt.name)
    BY <2>1, FindActs
  <2>3. t.name[1] = "find"
    <3> DEFINE l == <<"_", "by">>
               o == <<"find">>
    <3>1. l \in Text /\ o \in Text /\ o # <<>> /\ o[1] = "find" /\ Under(PluralSlug(nt)) \in Text /\ Under(SlugOf(to)) \in Text
      BY SchemaAssumption, PieceFacts, PluralIsText, SlugIsText
    <3>2. t.name = o \o Under(PluralSlug(nt)) \o l \o Under(SlugOf(to))
      BY <2>1
    <3> HIDE DEF l, o
    <3>3. o \o Under(PluralSlug(nt)) \in Text /\ o \o Under(PluralSlug(nt)) # <<>> /\ (o \o Under(PluralSlug(nt)))[1] = "find"
      BY <3>1, PieceFacts
    <3>4. /\ o \o Under(PluralSlug(nt)) \o l \in Text /\ o \o Under(PluralSlug(nt)) \o l # <<>>
          /\ (o \o Under(PluralSlug(nt)) \o l)[1] = "find"
      BY <3>1, <3>3, PieceFacts
    <3> QED  BY <3>1, <3>2, <3>4, PieceFacts
  <2> QED  BY <1>1, <1>5, <2>2, <2>3
<1>6. ASSUME t.op = "lookup", NEW f \in LookupFields(nt),
             t.name = nt.prefix \o <<"get">> \o Under(nt.slug) \o <<"_", "by">> \o Under(f)
      PROVE  Acts(t.name) = Act(t.op, t.type) /\ t.name[1] = "get"
  <2>1. t.name = <<"get">> \o Under(nt.slug) \o <<"_", "by">> \o Under(f)
    <3> DEFINE o == <<"get">>
               l == <<"_", "by">>
    <3>1. o \in Text /\ t.name = nt.prefix \o o \o Under(nt.slug) \o l \o Under(f)
      BY <1>2, <1>6
    <3> HIDE DEF o, l
    <3>2. t.name = o \o Under(nt.slug) \o l \o Under(f)
      BY <1>1, <3>1
    <3> QED  BY <3>2 DEF o, l
  <2>2. Acts(t.name) = Act("lookup", nt.name)
    BY <2>1, LookupActs
  <2>3. t.name[1] = "get"
    <3> DEFINE l == <<"_", "by">>
               o == <<"get">>
    <3>1. l \in Text /\ o \in Text /\ o # <<>> /\ o[1] = "get" /\ Under(nt.slug) \in Text /\ Under(f) \in Text
      BY SchemaAssumption, PieceFacts, TypeFacts DEF LookupFields
    <3>2. t.name = o \o Under(nt.slug) \o l \o Under(f)
      BY <2>1
    <3> HIDE DEF l, o
    <3>3. o \o Under(nt.slug) \in Text /\ o \o Under(nt.slug) # <<>> /\ (o \o Under(nt.slug))[1] = "get"
      BY <3>1, PieceFacts
    <3>4. /\ o \o Under(nt.slug) \o l \in Text /\ o \o Under(nt.slug) \o l # <<>>
          /\ (o \o Under(nt.slug) \o l)[1] = "get"
      BY <3>1, <3>3, PieceFacts
    <3> QED  BY <3>1, <3>2, <3>4, PieceFacts
  <2> QED  BY <1>1, <1>6, <2>2, <2>3
<1>7. CASE t.op = "find" /\ \E to \in TypeNames :
             t.name = nt.prefix \o <<"find">> \o Under(PluralSlug(nt)) \o <<"_", "by">> \o Under(SlugOf(to))
  BY <1>5, <1>7 DEF Changes
<1>8. CASE t.op = "lookup" /\ \E f \in LookupFields(nt) :
             t.name = nt.prefix \o <<"get">> \o Under(nt.slug) \o <<"_", "by">> \o Under(f)
  BY <1>6, <1>8 DEF Changes
<1> QED  BY <1>3, <1>4, <1>7, <1>8 DEF NodeMade

\* A plain tool that was offered is let through, and does what it is for.
LEMMA PlainRuns ==
  ASSUME NEW t \in PlainTools, NEW c, c.role \in Roles, t.name \in ToolNames, Offers(c, t.name)
  PROVE  Granted(c, Required(t.name)) /\ Acts(t.name) = Act(t.op, t.type)
<1>1. t \in GoodTools /\ t.category # "traversal"
  <2>1. \A x \in Range(AllTools) : x \in GoodTools
    BY AllToolsGood DEF Range
  <2> QED  BY <2>1 DEF PlainTools
<1>2. IF t.category = "relationship" THEN OneEdge ELSE NamedNode(t.type).prefix = <<>>
  BY DEF PlainTools, OneEdge
<1>3. ASSUME NEW i \in DOMAIN NodeTypes, NodeMade(t, NodeTypes[i])
      PROVE  Granted(c, Required(t.name)) /\ Acts(t.name) = Act(t.op, t.type)
  <2>1. t.category # "relationship" /\ t.type = NodeTypes[i].name
    BY <1>3 DEF NodeMade
  <2>2. NodeTypes[i].prefix = <<>>
    BY <1>2, <2>1, NamedOnce
  <2>3. /\ Acts(t.name) = Act(t.op, t.type)
        /\ t.op \in Changes => t.name = ChangeOf(t.op, i) /\ NodeTypes[i].exposed /\ Permits(NodeTypes[i], t.op)
        /\ t.op \notin Changes => t.name[1] \notin Changes \union {"connect", "disconnect"}
    BY <1>3, <2>2, PlainNode
  <2>4. CASE t.op \in Changes
    <3>1. AuthOf(t.name).required = <<"write", "node", NodeTypes[i].name>>
      BY <2>3, <2>4, AuthFacts
    <3>2. Acts(t.name).op \in Changes /\ Acts(t.name).on = NodeTypes[i].name
      BY <2>1, <2>3, <2>4 DEF Act
    <3>3. Required(t.name) = <<"write", "node", NodeTypes[i].name>>
      BY <3>2, WritesAsked
    <3>4. Granted(c, AuthOf(t.name).required)
      BY DEF Offers
    <3> QED  BY <2>3, <3>1, <3>3, <3>4
  <2>5. CASE t.op \notin Changes
    BY <2>3, <2>5, ReadsGranted
  <2> QED  BY <2>4, <2>5
<1>4. ASSUME NEW i \in DOMAIN EdgeTypes, EdgeMade(t, EdgeTypes[i])
      PROVE  Granted(c, Required(t.name)) /\ Acts(t.name) = Act(t.op, t.type)
  <2>1. t.category = "relationship" /\ t.op \in {"connect", "disconnect"} /\ t.type = EdgeTypes[i].name
    BY <1>1, <1>4 DEF EdgeMade
  <2>2. PICK pair \in Range(PairsOf(EdgeTypes[i])) : t.name = Joining(t.op, pair)
    BY <1>1, <1>4 DEF EdgeMade
  <2>3. Acts(t.name) = Act(t.op, t.type) /\ Required(t.name) = <<>>
    BY <1>2, <2>1, <2>2, EdgeActs
  <2> QED  BY <2>3 DEF Granted
<1> QED  BY <1>1, <1>3, <1>4 DEF GoodTools, Made

\* Slugs one after the other are a name like one slug, without the joining words.
\* Names put together of four parts, grouped one way or the other.
Cat(a, b) == a \o b
LEMMA CatFacts ==
  /\ \A a, b \in Text : Cat(a, b) \in Text
  /\ \A a, b, c \in Text : Cat(Cat(a, b), c) = Cat(a, Cat(b, c))
<1>1. \A a, b \in Text : Cat(a, b) \in Text
  BY PieceFacts DEF Cat
<1>2. ASSUME NEW a \in Text, NEW b \in Text, NEW c \in Text  PROVE Cat(Cat(a, b), c) = Cat(a, Cat(b, c))
  BY ConcatAssociative DEF Text, Cat
<1> QED  BY <1>1, <1>2

LEMMA Regrouped ==
  ASSUME NEW a \in Text, NEW b \in Text, NEW c \in Text, NEW d \in Text
  PROVE  Cat(Cat(a, Cat(b, c)), d) = Cat(a, Cat(b, Cat(c, d)))
<1>1. Cat(b, c) \in Text
  BY CatFacts
<1>2. Cat(Cat(a, Cat(b, c)), d) = Cat(a, Cat(Cat(b, c), d))
  BY <1>1, CatFacts
<1>3. Cat(Cat(b, c), d) = Cat(b, Cat(c, d))
  BY CatFacts
<1> QED  BY <1>2, <1>3

ViaName(s, to, e) == <<"get">> \o Under(s) \o Under(SlugOf(to)) \o <<"_", "via">> \o Under(e)

LEMMA TwoSlugs ==
  ASSUME NEW i \in DOMAIN NodeTypes, NEW to \in TypeNames, NEW e \in Text, NEW n
  PROVE  n = ViaName(NodeTypes[i].slug, to, e) =>
           \E a \in Text : a # <<>> /\ "by" \notin Range(a) /\ n = Linked("get", a, "via", e)
<1>a. SUFFICES ASSUME n = ViaName(NodeTypes[i].slug, to, e)
               PROVE  \E a \in Text : a # <<>> /\ "by" \notin Range(a) /\ n = Linked("get", a, "via", e)
  OBVIOUS
<1> DEFINE g == <<"get">>
           u == <<Bar>>
           s == NodeTypes[i].slug
           q == u \o SlugOf(to)
           a == s \o q
           l == <<"_", "via">>
<1>1. /\ g \in Text /\ u \in Text /\ s \in Text /\ SlugOf(to) \in Text /\ q = Under(SlugOf(to))
      /\ Under(s) = u \o s /\ Under(a) = u \o a /\ "by" \in JoiningWords /\ "by" # Bar
  BY SchemaAssumption, BarFacts, PieceFacts, TypeFacts, SlugIsText DEF Bar, Under, JoiningWords
<1>2. s # <<>> /\ "by" \notin Range(s) /\ "by" \notin Range(SlugOf(to))
  BY <1>1, SlugWords, EndWords
<1>3. u[1] = Bar /\ DOMAIN u = {1}
  OBVIOUS
<1>4. n = ((g \o (u \o s)) \o q) \o l \o Under(e)
  BY <1>a, <1>1 DEF ViaName
<1>5. Linked("get", a, "via", e) = (g \o (u \o a)) \o l \o Under(e)
  BY <1>1 DEF Linked
<1> HIDE DEF g, u, s, l
<1>6. q \in Text /\ Range(q) = Range(u) \union Range(SlugOf(to))
  <2>1. u \in Seq(Pieces) /\ SlugOf(to) \in Seq(Pieces)
    BY <1>1 DEF Text
  <2> QED  BY <2>1, RangeOfTwo DEF Text
<1>7. "by" \notin Range(q)
  BY <1>1, <1>2, <1>3, <1>6 DEF Range
<1> HIDE DEF q
<1>8. a \in Text /\ Range(a) = Range(s) \union Range(q)
  <2>1. q \in Seq(Pieces) /\ s \in Seq(Pieces)
    BY <1>1, <1>6 DEF Text
  <2> QED  BY <2>1, RangeOfTwo DEF Text
<1>9. a # <<>>
  BY <1>1, <1>2, <1>6, PieceFacts
<1>10. (g \o (u \o s)) \o q = g \o (u \o a)
  <2>1. g \in Text /\ u \in Text /\ s \in Text /\ q \in Text
    BY <1>1, <1>6
  <2>2. Cat(Cat(g, Cat(u, s)), q) = Cat(g, Cat(u, Cat(s, q)))
    BY <2>1, Regrouped
  <2> QED  BY <2>2 DEF Cat
<1> HIDE DEF a
<1>11. n = Linked("get", a, "via", e)
  BY <1>4, <1>5, <1>10
<1> QED  BY <1>2, <1>7, <1>8, <1>9, <1>11

LEMMA ListingReads ==
  ASSUME NEW op \in {"list", "search"}, NEW s \in Text, NEW n
  PROVE  n = <<op>> \o Under(s) => Acts(n).op \in {"query", "error"}
<1>a. SUFFICES ASSUME n = <<op>> \o Under(s)
               PROVE  Acts(n).op \in {"query", "error"}
  OBVIOUS
<1>1. op \in Pieces
  BY SchemaAssumption
<1>2. Opens(n, op, s)
  BY <1>a, <1>1, Opened
<1>3. n[1] = op /\ \A w : Starts(n, w) <=> w = op
  BY <1>2 DEF Opens
<1> QED  BY <1>3, ActsWhen DEF Refused, Act

LEMMA CapabilitiesRead ==
  ASSUME NEW cap \in AllCapabilities, cap.safety = "read", NEW n \in cap.tools
  PROVE  Acts(n).op \in {"query", "get", "error"}
<1>1. PICK i \in DOMAIN NodeTypes : cap \in Capabilities(NodeTypes[i])
  BY DEF AllCapabilities
<1> DEFINE nt == NodeTypes[i]
           Cap(safety, tools) == [safety |-> safety, tools |-> tools]
           On(op) == {<<op>> \o Under(nt.slug)}
           Listing == {<<"list">> \o Under(PluralSlug(nt)), <<"search">> \o Under(PluralSlug(nt))}
           Links == {l \in Range(EdgeTypes) \X {NodeTypes[j].name : j \in DOMAIN NodeTypes} :
                       Contains(l[1].source, nt.name) /\ Contains(l[1].target, l[2])}
           Via(et, to) == {<<"get">> \o Under(nt.slug) \o Under(SlugOf(to)) \o <<"_", "via">> \o Under(et.slug)}
           Link(et, to) ==
             {Cap("write", {<<"connect">> \o Under(nt.slug) \o <<"_", "to">> \o Under(SlugOf(to))}),
              Cap("read", {<<"get">> \o Under(nt.slug) \o Under(SlugOf(to)) \o <<"_", "via">> \o Under(et.slug)})}
<1>2. cap \in (IF ~nt.shown THEN {}
               ELSE {Cap("read", Listing)} \union
                    (IF nt.create THEN {Cap("write", On("create"))} ELSE {}) \union
                    (IF nt.update THEN {Cap("write", On("update"))} ELSE {}) \union
                    (IF nt.delete THEN {Cap("destructive", On("delete"))} ELSE {}) \union
                    (IF nt.orphans THEN {Cap("read", {})} ELSE {}) \union
                    UNION {Link(l[1], l[2]) : l \in Links})
  BY <1>1 DEF Capabilities
<1>3. ASSUME NEW et, NEW to, NEW c \in Link(et, to), c.safety = "read"  PROVE c.tools = Via(et, to)
  <2> DEFINE a == {<<"connect">> \o Under(nt.slug) \o <<"_", "to">> \o Under(SlugOf(to))}
             b == Via(et, to)
  <2>1. c \in {Cap("write", a), Cap("read", b)}
    OBVIOUS
  <2> HIDE DEF a, b, Link, Via
  <2>2. c.tools = b
    BY <1>3, <2>1
  <2> QED  BY <2>2 DEF b
<1> HIDE DEF Link, Links, Listing, Via
<1>4. cap.tools = Listing \/ \E l \in Links : cap.tools = Via(l[1], l[2])
  <2> HIDE DEF nt
  <2>1. \/ cap \in {Cap("read", Listing), Cap("read", {})}
        \/ cap \in {Cap("write", On("create")), Cap("write", On("update")), Cap("destructive", On("delete"))}
        \/ \E l \in Links : cap \in Link(l[1], l[2])
    BY <1>2
  <2> HIDE DEF On
  <2> QED  BY <1>3, <2>1
<1>5. CASE cap.tools = Listing
  <2>1. PICK op \in {"list", "search"} : n = <<op>> \o Under(PluralSlug(nt))
    BY <1>5 DEF Listing
  <2> QED  BY <2>1, ListingReads, PluralIsText
<1>6. ASSUME NEW l \in Links, cap.tools = Via(l[1], l[2])  PROVE Acts(n).op \in {"get", "error"}
  <2>1. l[1] \in Range(EdgeTypes) /\ l[2] \in TypeNames
    BY <1>6 DEF Links, TypeNames
  <2>2. l[1].slug \in Text
    BY <2>1, EdgeFacts DEF Range
  <2>3. n = ViaName(nt.slug, l[2], l[1].slug)
    BY <1>6 DEF Via, ViaName
  <2>4. PICK a \in Text : a # <<>> /\ "by" \notin Range(a) /\ n = Linked("get", a, "via", l[1].slug)
    BY <2>1, <2>2, <2>3, TwoSlugs
  <2> QED  BY <2>2, <2>4, ViaReads
<1> QED  BY <1>4, <1>5, <1>6

LEMMA HonestTells == TypeOK /\ Fair => OffersHonest
<1> SUFFICES ASSUME TypeOK, Fair  PROVE OffersHonest
  OBVIOUS
<1>1. ASSUME NEW r \in DOMAIN rq, NEW c \in rq[r].calls
      PROVE  /\ c.ran = Granted(cmd(r), Required(c.name)) /\ MeaningOf(c.name).act = Acts(c.name)
             /\ rq[r].given \subseteq ToolNames /\ cmd(r).role \in Roles
  <2>1. c.ran = Granted(cmd(r), MeaningOf(c.name).required)
    BY DEF Fair, FairCalls
  <2>2. rq[r].given \subseteq ToolNames /\ c.name \in ToolNames \union Invented
    BY DEF TypeOK, Request, Called, AnyName
  <2>3. cmd(r).role \in Roles
    BY ScenarioAssumption DEF TypeOK
  <2> QED  BY <2>1, <2>2, <2>3, MeaningFacts
<1>2. ASSUME NEW r \in DOMAIN rq, NEW c \in rq[r].calls, NEW t \in PlainTools, t.name = c.name,
             c.name \in rq[r].given, Offers(cmd(r), c.name)
      PROVE  c.ran /\ MeaningOf(c.name).act = Act(t.op, t.type)
  <2>1. t.name \in ToolNames /\ cmd(r).role \in Roles
    BY <1>1, <1>2
  <2>2. Granted(cmd(r), Required(t.name)) /\ Acts(t.name) = Act(t.op, t.type)
    BY <1>2, <2>1, PlainRuns
  <2> QED  BY <1>1, <1>2, <2>2
<1>3. ASSUME NEW r \in DOMAIN rq, NEW c \in rq[r].calls, NEW cap \in AllCapabilities, cap.safety = "read",
             c.name \in cap.tools
      PROVE  MeaningOf(c.name).act.op \in {"query", "get", "error"}
  BY <1>1, <1>3, CapabilitiesRead
<1>4. OfferedToolsRun
  BY <1>2, <1>3 DEF OfferedToolsRun
<1>5. OffersAsListed
  <2>1. ASSUME NEW c  PROVE Listed(c) = {n \in ToolNames : Offers(c, n)}
    <3> DEFINE Verdict(n) == [tool |-> n, callable |-> AuthOf(n).agent /\ Granted(c, AuthOf(n).required)]
    <3>1. Listed(c) = {v.tool : v \in {w \in {Verdict(n) : n \in ToolNames} : w.callable}}
      BY DEF Listed
    <3>2. \A n : Verdict(n).tool = n /\ Verdict(n).callable = Offers(c, n)
      BY DEF Offers
    <3> HIDE DEF Verdict
    <3> QED  BY <3>1, <3>2
  <2>2. \A r \in DOMAIN rq : rq[r].given \subseteq ToolNames
    BY DEF TypeOK, Request
  <2> QED  BY <2>1, <2>2 DEF OffersAsListed
<1> QED  BY <1>4, <1>5 DEF OffersHonest

\* What the model is offered is what the user may use: a plain tool that was
\* offered is let through whenever it is called, and its name makes the executor
\* do the operation it was generated for on the type it was generated for; what a
\* capability that reads names writes nothing, and GET /permissions/effective
\* lists the same tools.
THEOREM OffersAreHonest == Spec => []OffersHonest
<1>1. Init => TalkInv /\ Fair
  BY TalkInit, FairInit
<1>2. TalkInv /\ Fair /\ [Next]_vars => TalkInv' /\ Fair'
  BY TalkStep, StepFair DEF TalkInv
<1>3. TalkInv /\ Fair => OffersHonest
  BY HonestTells DEF TalkInv
<1> QED  BY <1>1, <1>2, <1>3, PTL DEF Spec
================================================================================
