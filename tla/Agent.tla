---------------------------------- MODULE Agent ----------------------------------
(* The assistant: POST /chat and POST /chat/stream (routers/chat.py), the     *)
(* agent loop between the model and the tools (ai/agent.py), the providers    *)
(* (ai/providers.py) and the stored conversations (ai/conversations.py).      *)
(*                                                                            *)
(* A request runs from one await to the next.  What a tool does to the graph  *)
(* is the subject of GraphCrud and Queries: here a call is run or denied, and *)
(* Tools says what its name makes of it.  The model may answer anything.      *)
EXTENDS Tools, Permissions, Selection

CONSTANTS
  Scenarios,     \* set of functions, the command of each request served at the same time
  Selections,    \* the sets of tools a message may select when there are too many
  MaxTools,      \* MAX_TOOLS
  MaxRounds,     \* MAX_TOOL_ROUNDS
  HistoryLimit,  \* the limit of get_messages
  Providers0, Conversations0

ASSUME BoundsAssumption == MaxRounds \in Nat \ {0} /\ HistoryLimit \in Nat /\ MaxTools \in Nat

\* An identifier that a request draws for its conversation is none that a chat
\* of the same time could name.  The model calls tools by their names or others.  A
\* role is one of the five (RoleType).
ASSUME ScenarioAssumption ==
  \A s \in Scenarios : \A r \in DOMAIN s :
    /\ r # None /\ s[r].role \in Roles /\ (s[r].kind \in {"chat", "stream"} => s[r].conv \notin DOMAIN s)
    /\ \A n \in 0..(MaxRounds - 1) : \A reply \in s[r].replies[n] : reply \in Seq(ToolNames \union Invented)

VARIABLES
  providers,      \* function: id -> [rank, type, enabled], rank for the order of the names
  conversations,  \* function: id -> user
  messages,       \* sequence of [conv, role, of], in the order of created_at
  rq              \* function: request -> its state; sent is what the provider was last given,
                  \*   by its chat or its chat_stream (api)
vars == <<providers, conversations, messages, rq>>

KnownTypes == {"anthropic", "openai", "azure", "vllm", "ollama", "openai_compatible", "vertex", "bedrock"}
OpenAITypes == {"openai", "azure", "vllm", "ollama", "openai_compatible"}
Toolless == {"vertex", "bedrock"}

cmd(r) == rq[r].cmd
Chats == {"chat", "stream"}
Go(r, stage) == rq' = [rq EXCEPT ![r].pc = stage]
Done(r, out) == rq' = [rq EXCEPT ![r].pc = "done", ![r].out = out]

Init ==
  /\ providers = Providers0 /\ conversations = Conversations0 /\ messages = <<>>
  /\ \E s \in Scenarios :
       rq = [r \in DOMAIN s |->
              [cmd |-> s[r], pc |-> "start", type |-> None, conv |-> None, given |-> {},
               sees |-> <<>>, round |-> 0, reply |-> <<>>, at |-> 0, exchange |-> <<>>, sent |-> <<>>,
               api |-> None, calls |-> {}, text |-> FALSE, out |-> None]]

----------------------------------------------------------------------------
(* Tools for a request *)

Granted(c, required) == required = <<>> \/ Allowed(c.role, c.grants, required)

\* _get_tools_for_user: all of them, or those that score best for the message.
Given == IF Len(AllTools) <= MaxTools THEN {ToolNames}
         ELSE {s \in Selections : Cardinality(s) <= MaxTools /\ s \subseteq ToolNames}

\* _filter_tools_by_permissions: whether a tool is one for the model to see.
Offers(c, n) == AuthOf(n).agent /\ Granted(c, AuthOf(n).required)

\* GET /permissions/effective: the tools an agent of this user may call.
Listed(c) ==
  LET Verdict(n) == [tool |-> n, callable |-> AuthOf(n).agent /\ Granted(c, AuthOf(n).required)]
  IN {v.tool : v \in {w \in {Verdict(n) : n \in ToolNames} : w.callable}}

----------------------------------------------------------------------------
(* A chat up to the agent loop *)

\* _get_provider_and_model: the first enabled provider by name, or the one that
\* the environment names (env); the tools follow without an await.
Start(r) ==
  LET enabled == {p \in DOMAIN providers : providers[p].enabled}
      first == CHOOSE p \in enabled : \A q \in enabled : providers[p].rank <= providers[q].rank
      type == IF enabled = {} THEN cmd(r).env ELSE providers[first].type
  IN /\ rq[r].pc = "start" /\ cmd(r).kind \in Chats
     /\ CASE type = None -> Done(r, "503")
          [] type \notin KnownTypes \union {None} -> Done(r, "500")
          [] OTHER -> \E names \in Given :
               rq' = [rq EXCEPT ![r].pc = "open", ![r].type = type, ![r].given = names]
     /\ UNCHANGED <<providers, conversations, messages>>

\* A conversation is made unless the caller names one; nobody looks for that one.
Open(r) ==
  /\ rq[r].pc = "open"
  /\ IF cmd(r).conv = None
     THEN /\ conversations' = [c \in DOMAIN conversations \union {r} |->
                                 IF c = r THEN cmd(r).user ELSE conversations[c]]
          /\ rq' = [rq EXCEPT ![r].pc = "recall", ![r].conv = r]
     ELSE rq' = [rq EXCEPT ![r].pc = "recall", ![r].conv = cmd(r).conv] /\ UNCHANGED conversations
  /\ UNCHANGED <<providers, messages>>

\* get_messages: the oldest ones, up to the limit.
Stored(conv) == {i \in DOMAIN messages : messages[i].conv = conv}
Recall(r) ==
  LET all == Stored(rq[r].conv)
      oldest == {i \in all : UpTo(all, i) <= HistoryLimit}
  IN /\ rq[r].pc = "recall"
     /\ rq' = [rq EXCEPT ![r].pc = "ask",
               ![r].sees = Chosen(messages, {i \in oldest : messages[i].role \in {"user", "assistant"}})]
     /\ UNCHANGED <<providers, conversations, messages>>

\* add_message: no conversation, no message.
Added(r, role) ==
  IF rq[r].conv \in DOMAIN conversations
  THEN Append(messages, [conv |-> rq[r].conv, role |-> role, of |-> r]) ELSE messages

Ask(r) ==
  /\ rq[r].pc = "ask"
  /\ messages' = Added(r, "user")
  /\ Go(r, IF cmd(r).kind = "chat" THEN "model" ELSE "stream")
  /\ UNCHANGED <<providers, conversations>>

----------------------------------------------------------------------------
(* The providers: what of the conversation reaches the model.  ids are those  *)
(* of the calls an assistant message makes or a tool message answers: a call  *)
(* is known by its round and its place in the reply.                          *)

Said(role, ids) == [role |-> role, ids |-> ids]
Conversation(r) ==
  [i \in DOMAIN rq[r].sees |-> Said(rq[r].sees[i].role, {})] \o <<Said("user", {})>> \o rq[r].exchange

\* Slip: role and content only, as in its chat_stream.
ToOpenAI_Plain(m) == Said(m.role, {})
ToOpenAI(m) == m
ToAnthropic(m) == IF m.role = "tool" THEN Said("user", m.ids) ELSE Said(m.role, {})
ToVertex(m) == Said(IF m.role = "user" THEN "user" ELSE "model", {})
ToBedrock(m) == Said(m.role, {})
Sent(r) ==
  LET all == Conversation(r)
      type == rq[r].type
  IN [i \in DOMAIN all |-> CASE type \in OpenAITypes -> ToOpenAI(all[i])
                             [] type = "anthropic" -> ToAnthropic(all[i])
                             [] type = "vertex" -> ToVertex(all[i])
                             [] type = "bedrock" -> ToBedrock(all[i])]

\* chat_stream: the OpenAI-compatible one sends role and content only.
Streamed(r) ==
  IF rq[r].type \in OpenAITypes
  THEN [i \in DOMAIN Conversation(r) |-> Said(Conversation(r)[i].role, {})] ELSE Sent(r)

\* chat: text alone, or calls, which Vertex and Bedrock never return.
Replies(r) == {<<>>} \union (IF rq[r].type \in Toolless THEN {} ELSE cmd(r).replies[rq[r].round])

----------------------------------------------------------------------------
(* The agent loop *)

Round(n) == n + 1

\* Slip: an answer without calls does not end the loop.
AfterText_Again(r) == IF cmd(r).kind = "chat" THEN "model" ELSE "stream"
AfterText(r) == "save"

\* A reply with calls begins a round; one without ends the loop.
Take(r, reply) ==
  IF reply = <<>>
  THEN rq' = [rq EXCEPT ![r].pc = AfterText(r), ![r].text = TRUE, ![r].sent = Sent(r), ![r].api = "chat"]
  ELSE rq' = [rq EXCEPT ![r].pc = "call", ![r].reply = reply, ![r].at = 1, ![r].round = Round(@),
              ![r].exchange = Append(@, Said("assistant", {Round(rq[r].round)} \X DOMAIN reply)),
              ![r].sent = Sent(r), ![r].api = "chat"]

\* run, one round: at most MaxRounds of them, then an answer without content.
Model(r) ==
  /\ rq[r].pc = "model"
  /\ IF rq[r].round = MaxRounds THEN Go(r, "save")
     ELSE \/ \E reply \in Replies(r) : Take(r, reply)
          \/ \E out \in {"502", "503"} : Done(r, out)
  /\ UNCHANGED <<providers, conversations, messages>>

\* run_stream, one round: some text or none, and then the end of the answer,
\* the end of the stream without one, or an exception.
Stream(r) ==
  /\ rq[r].pc = "stream"
  /\ IF rq[r].round = MaxRounds THEN Go(r, "save")
     ELSE \E text \in BOOLEAN :
            LET state == [rq[r] EXCEPT !.text = @ \/ text, !.sent = Streamed(r), !.api = "chat_stream"]
            IN \/ rq' = [rq EXCEPT ![r] = [state EXCEPT !.pc = "save"]]
               \/ rq' = [rq EXCEPT ![r] = [state EXCEPT !.round = Round(@)]]
               \/ rq' = [rq EXCEPT ![r] = [state EXCEPT !.pc = "fallback"]]
  /\ UNCHANGED <<providers, conversations, messages>>

Fallback(r) ==
  /\ rq[r].pc = "fallback"
  /\ \/ \E reply \in Replies(r) : Take(r, reply)
     \/ Done(r, "broken")
  /\ UNCHANGED <<providers, conversations, messages>>

MustConfirm(r, name) ==
  cmd(r).kind = "chat" /\ name \in rq[r].given /\ AuthOf(name).confirm /\ AuthOf(name).destructive

\* The next call of the reply: it stops the run for a confirmation, or it is
\* run or denied, and its result goes back to the model.
Call(r) ==
  LET name == rq[r].reply[rq[r].at]
      last == rq[r].at = Len(rq[r].reply)
  IN /\ rq[r].pc = "call"
     /\ rq' = IF MustConfirm(r, name)
              THEN [rq EXCEPT ![r].pc = "save", ![r].text = TRUE]
              ELSE [rq EXCEPT ![r].calls = @ \union {[name |-> name, ran |-> Granted(cmd(r), MeaningOf(name).required)]},
                              ![r].exchange = Append(@, Said("tool", {<<rq[r].round, rq[r].at>>})),
                              ![r].at = IF last THEN 0 ELSE @ + 1,
                              ![r].reply = IF last THEN <<>> ELSE @,
                              ![r].pc = IF ~last THEN "call"
                                        ELSE IF cmd(r).kind = "chat" THEN "model" ELSE "stream"]
     /\ UNCHANGED <<providers, conversations, messages>>

\* The answer is saved; that of a stream only if there is any.
Save(r) ==
  /\ rq[r].pc = "save"
  /\ messages' = IF cmd(r).kind = "chat" \/ rq[r].text THEN Added(r, "assistant") ELSE messages
  /\ Done(r, "ok")
  /\ UNCHANGED <<providers, conversations>>

----------------------------------------------------------------------------
(* The other requests: one database call each *)

DeleteConversation(r) ==
  LET conv == cmd(r).conv
  IN /\ rq[r].pc = "start" /\ cmd(r).kind = "delete"
     /\ IF conv \in DOMAIN conversations /\ conversations[conv] = cmd(r).user
        THEN /\ conversations' = Restrict(conversations, DOMAIN conversations \ {conv})
             /\ messages' = Chosen(messages, DOMAIN messages \ Stored(conv))
             /\ Done(r, "ok")
        ELSE Done(r, "404") /\ UNCHANGED <<conversations, messages>>
     /\ UNCHANGED providers

MayManage(r) == Allowed(cmd(r).role, cmd(r).grants, <<"manage", "user", "*">>)

\* POST, PATCH and DELETE /providers; conv is the id of the provider.
SetProvider(r) ==
  LET id == cmd(r).conv
  IN /\ rq[r].pc = "start" /\ cmd(r).kind \in {"create_provider", "update_provider", "delete_provider"}
     /\ CASE ~MayManage(r) -> Done(r, "403") /\ UNCHANGED providers
          [] MayManage(r) /\ cmd(r).kind = "create_provider" ->
               /\ providers' = [p \in DOMAIN providers \union {r} |->
                                  IF p = r THEN cmd(r).value ELSE providers[p]]
               /\ Done(r, "ok")
          [] MayManage(r) /\ cmd(r).kind = "update_provider" ->
               IF id \in DOMAIN providers
               THEN providers' = [providers EXCEPT ![id] = cmd(r).value] /\ Done(r, "ok")
               ELSE Done(r, "404") /\ UNCHANGED providers
          [] MayManage(r) /\ cmd(r).kind = "delete_provider" ->
               providers' = Restrict(providers, DOMAIN providers \ {id}) /\ Done(r, "ok")
     /\ UNCHANGED <<conversations, messages>>

\* A database call raises; the reader of a stream goes away.
Break(r) ==
  /\ \/ rq[r].pc \in {"start", "open", "recall", "ask", "save"} /\ Done(r, "500")
     \/ rq[r].pc \in {"stream", "fallback", "call"} /\ cmd(r).kind = "stream" /\ Done(r, "broken")
  /\ UNCHANGED <<providers, conversations, messages>>

Step(r) ==
  \/ Start(r) \/ Open(r) \/ Recall(r) \/ Ask(r) \/ Model(r) \/ Stream(r) \/ Fallback(r) \/ Call(r) \/ Save(r)
  \/ DeleteConversation(r) \/ SetProvider(r)
Progress == \E r \in DOMAIN rq : Step(r)
Next == Progress \/ \E r \in DOMAIN rq : Break(r)

Spec == Init /\ [][Next]_vars /\ WF_vars(Progress)

----------------------------------------------------------------------------
(* Properties *)

\* The tools whose name is their own: their type has no prefix, no other tool is
\* called the same, and no other edge type joins the same two types.
PlainTools ==
  LET OneEdge == \A i, j \in DOMAIN EdgeTypes :
        i # j => Range(PairsOf(EdgeTypes[i])) \intersect Range(PairsOf(EdgeTypes[j])) = {}
      Named(t) == {i \in DOMAIN AllTools : AllTools[i].name = t.name}
  IN {t \in Range(AllTools) :
        /\ t.category # "traversal" /\ Cardinality(Named(t)) = 1
        /\ IF t.category = "relationship" THEN OneEdge ELSE NamedNode(t.type).prefix = <<>>}

\* A call of a tool that was offered is never denied, and does the operation the
\* tool was generated for on the type it was generated for, although the name is
\* all that the generators, the policy and the executor share.  Tools behind a
\* "read" capability write nothing.
OfferedToolsRun ==
  \A r \in DOMAIN rq : \A c \in rq[r].calls :
    /\ \A t \in PlainTools :
         t.name = c.name /\ c.name \in rq[r].given /\ Offers(cmd(r), c.name) =>
           c.ran /\ MeaningOf(c.name).act = Act(t.op, t.type)
    /\ \A cap \in AllCapabilities :
         cap.safety = "read" /\ c.name \in cap.tools => MeaningOf(c.name).act.op \in {"query", "get", "error"}

\* A write that the model calls runs only for a user who may write the type it is
\* done on, but for two kinds that are run for everybody: edges, for which nothing
\* is looked up, and names that no tool has and that mean a type to the executor,
\* none or another to the agent.
Unasked(name) ==
  \/ MeaningOf(name).act.op \in {"connect", "disconnect"}
  \/ name \notin ToolNames /\ TypeOfTool(name) # MeaningOf(name).act.on
WritesEntitled ==
  \A r \in DOMAIN rq : \A c \in rq[r].calls :
    LET act == MeaningOf(c.name).act
    IN c.ran /\ act.op \in {"create", "update", "delete", "connect", "disconnect"} =>
         Granted(cmd(r), <<"write", "node", act.on>>) \/ Unasked(c.name)

\* POST /chat runs no tool it was given that the boundaries, or a capability
\* called destructive, say needs a confirmation.
ConfirmedFirst ==
  \A r \in DOMAIN rq : cmd(r).kind = "chat" =>
    \A c \in rq[r].calls :
      c.name \in rq[r].given =>
        c.name \notin ConfirmationRequired \union UNION {cap.tools : cap \in {x \in AllCapabilities : x.safety = "destructive"}}

\* What the model calls stays within the user's permissions, as far as they are
\* looked up, and waits for the confirmations.
ToolsWithinBounds == WritesEntitled /\ ConfirmedFirst

\* The model is offered what GET /permissions/effective lists for its user.
OffersAsListed ==
  \A r \in DOMAIN rq : rq[r].pc = "open" =>
    {n \in rq[r].given : Offers(cmd(r), n)} = rq[r].given \intersect Listed(cmd(r))

\* What the model is offered is what the user may use, and works.
OffersHonest == OfferedToolsRun /\ OffersAsListed

\* A chat that was answered has its question and then its answer in the
\* conversation, unless that was deleted; an answer never stands without its
\* question, and no message outlives its conversation.
TurnSaved ==
  LET At(r, role) == {i \in DOMAIN messages : messages[i].of = r /\ messages[i].role = role}
  IN /\ \A i \in DOMAIN messages : messages[i].conv \in DOMAIN conversations
     /\ \A r \in DOMAIN rq :
          /\ Cardinality(At(r, "user")) <= 1 /\ Cardinality(At(r, "assistant")) <= 1
          /\ \A j \in At(r, "assistant") : \E i \in At(r, "user") : i < j
          /\ cmd(r).kind \in Chats /\ rq[r].out = "ok" /\ rq[r].conv \in DOMAIN conversations =>
               At(r, "user") # {} /\ (cmd(r).kind = "chat" \/ rq[r].text => At(r, "assistant") # {})

\* What is sent to an OpenAI-compatible provider has every result after the message
\* that made the call, and a result for every call, whatever chats of the same
\* conversation were interrupted before.  The exception is a stream that goes on
\* after a round with calls: chat_stream sends the results without their calls.
Unattached(r) == rq[r].api = "chat_stream" /\ rq[r].calls # {}
ResultsFollowCalls ==
  \A r \in DOMAIN rq : rq[r].type \in OpenAITypes /\ ~Unattached(r) =>
    LET s == rq[r].sent
    IN /\ \A i \in DOMAIN s : s[i].role = "tool" =>
            \E j \in 1..(i - 1) : /\ s[j].role = "assistant" /\ s[i].ids # {} /\ s[i].ids \subseteq s[j].ids
                                  /\ \A k \in (j + 1)..i : s[k].role = "tool"
       /\ \A j \in DOMAIN s : \A id \in s[j].ids : s[j].role = "assistant" =>
            \E i \in DOMAIN s : s[i].role = "tool" /\ s[i].ids = {id}

\* The conversation kept is whole, and the one that is sent, as far as stated above.
TranscriptWhole == TurnSaved /\ ResultsFollowCalls

\* Every request is answered, however often the model asks for tools.
EveryChatEnds == <>(\A r \in DOMAIN rq : rq[r].pc = "done")
================================================================================
