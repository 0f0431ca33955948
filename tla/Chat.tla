-------------------------------- MODULE Chat --------------------------------
(***************************************************************************)
(* Chat about a repository: conversations and their messages, and the      *)
(* handler SendMessage, which stores the question, reads the history,      *)
(* streams the model's answer to the client, reads files the model asks    *)
(* for and asks it again, and stores the answer.                           *)
(*                                                                         *)
(* A stream passes two goroutines and two channels: the provider's reads   *)
(* the model's chunks into a buffered channel, the adapter's moves them to *)
(* an unbuffered one, from which the handler writes them to the client.    *)
(* The client may leave at any time, which cancels the request's context;  *)
(* the conversation may be deleted by another request.                     *)
(***************************************************************************)
EXTENDS Common, FiniteSets, Sequences

CONSTANTS
    Convs,             \* conversation ids
    Replies,           \* requests to SendMessage, each made once
    HasLLM,            \* whether a provider is configured
    BufferSize,        \* of the provider's channel, 64 in the code
    MaxChunks,         \* bound: chunks of text in a stream
    MaxToolIterations  \* maxToolIterations, 5 in the code

ASSUME ChatAssumption ==
    /\ HasLLM \in BOOLEAN
    /\ BufferSize \in Nat \ {0}
    /\ MaxChunks \in Nat
    /\ MaxToolIterations \in Nat

VARIABLES
    conv,     \* the chat_conversations rows: the owner, or None
    messages, \* the chat_messages rows of a conversation, by created_at
    reply,    \* the SendMessage requests
    pipe      \* their streams

chatVars == <<left, conv, messages, reply, pipe>>
-----------------------------------------------------------------------------
\* informed: the history it has read holds its question.
NewReply == [at |-> "new", conv |-> None, gone |-> FALSE, informed |-> FALSE,
             rounds |-> 0, text |-> "empty"]

\* buffer counts the chunks in the provider's channel.
NoPipe == [provider |-> "closed", sent |-> 0, buffer |-> 0, adapter |-> "closed"]

ChatInit ==
    /\ LoadInit
    /\ conv = [v \in Convs |-> None]
    /\ messages = [v \in Convs |-> <<>>]
    /\ reply = [r \in Replies |-> NewReply]
    /\ pipe = [r \in Replies |-> NoPipe]
-----------------------------------------------------------------------------
(* Helpers *)

Set(r, fields) ==
    reply' = [reply EXCEPT ![r] = [x \in DOMAIN NewReply |->
                 IF x \in DOMAIN fields THEN fields[x] ELSE reply[r][x]]]

Ended(r) == [NewReply EXCEPT !.at = "ended", !.conv = reply[r].conv]

Question(r) == [role |-> "user", of |-> r]

\* AddMessage: the INSERT fails when the context is cancelled or the
\* conversation is gone.
CanAdd(r) == ~reply[r].gone /\ conv[reply[r].conv] # None

AddMessage(r, role) ==
    messages' = [messages EXCEPT ![reply[r].conv] = Append(@, [role |-> role, of |-> r])]
-----------------------------------------------------------------------------
(* Conversations *)

CreateConversation(v, u) ==
    /\ conv[v] = None
    /\ messages[v] = <<>>
    /\ \A r \in Replies : reply[r].conv # v
    /\ Spend("chat")
    /\ conv' = [conv EXCEPT ![v] = u]
    /\ UNCHANGED <<messages, reply, pipe>>

\* Only the owner can; the messages go with the conversation.  Ownership cannot
\* change between the look-up and the DELETE.
DeleteConversation(v, u) ==
    /\ conv[v] = u
    /\ Spend("chat")
    /\ conv' = [conv EXCEPT ![v] = None]
    /\ messages' = [messages EXCEPT ![v] = <<>>]
    /\ UNCHANGED <<reply, pipe>>
-----------------------------------------------------------------------------
(* SendMessage *)

\* The conversation exists and is the caller's, the message is not empty.
SendMessage(r, v, u) ==
    /\ reply[r] = NewReply
    /\ conv[v] = u
    /\ Spend("chat")
    /\ Set(r, [at |-> "accepted", conv |-> v])
    /\ UNCHANGED <<conv, messages, pipe>>

\* The question is kept back, to be saved with the answer.
SaveQuestionLater(r) ==
    /\ reply[r].at = "accepted"
    /\ Set(r, [at |-> "saved"])
    /\ UNCHANGED <<left, conv, messages, pipe>>

\* 1. Save the user's message, or answer with an error.
SaveQuestion(r) ==
    /\ reply[r].at = "accepted"
    /\ IF CanAdd(r)
       THEN AddMessage(r, "user") /\ Set(r, [at |-> "saved"])
       ELSE Set(r, Ended(r)) /\ UNCHANGED messages
    /\ UNCHANGED <<left, conv, pipe>>

\* 5. Read the history; a deleted conversation has none, a cancelled read ends
\* the request.
ReadHistory(r) ==
    /\ reply[r].at = "saved"
    /\ IF reply[r].gone
       THEN Set(r, Ended(r))
       ELSE Set(r, [at |-> IF HasLLM THEN "asking" ELSE "generated",
                    informed |-> \E i \in 1..Len(messages[reply[r].conv]) :
                                    messages[reply[r].conv][i] = Question(r),
                    text |-> IF HasLLM THEN "empty" ELSE "plain"])
    /\ UNCHANGED <<left, conv, messages, pipe>>

\* streamLLMResponse starts a stream; the provider may refuse.  A refusal is
\* answered with an apology, unless it comes in the tool loop.
AskModel(r) ==
    /\ reply[r].at = "asking"
    /\ \/ /\ ~reply[r].gone
          /\ Set(r, [at |-> "streaming", rounds |-> reply[r].rounds + 1, text |-> "empty"])
          /\ pipe' = [pipe EXCEPT ![r] = [provider |-> "reading", sent |-> 0,
                                          buffer |-> 0, adapter |-> "empty"]]
       \/ /\ Set(r, [at |-> "generated", rounds |-> reply[r].rounds + 1,
                     text |-> IF reply[r].rounds = 0 THEN "plain" ELSE "empty"])
          /\ UNCHANGED pipe
    /\ UNCHANGED <<left, conv, messages>>

\* The handler leaves the loop when its client has gone.
ReceiveWhileThere(r) ==
    /\ reply[r].at = "streaming"
    /\ \/ /\ pipe[r].adapter \in {"plain", "tool"}
          /\ Set(r, [text |-> IF reply[r].text = "tool" THEN "tool" ELSE pipe[r].adapter])
          /\ pipe' = [pipe EXCEPT ![r].adapter = "empty"]
       \/ /\ pipe[r].adapter = "closed" \/ reply[r].gone
          /\ Set(r, [at |-> "generated"])
          /\ UNCHANGED pipe
    /\ UNCHANGED <<left, conv, messages>>

\* The handler takes a chunk from the unbuffered channel, until it is closed.
Receive(r) ==
    /\ reply[r].at = "streaming"
    /\ \/ /\ pipe[r].adapter \in {"plain", "tool"}
          /\ Set(r, [text |-> IF reply[r].text = "tool" THEN "tool" ELSE pipe[r].adapter])
          /\ pipe' = [pipe EXCEPT ![r].adapter = "empty"]
       \/ /\ pipe[r].adapter = "closed"
          /\ Set(r, [at |-> "generated"])
          /\ pipe' = [pipe EXCEPT ![r] = NoPipe]
    /\ UNCHANGED <<left, conv, messages>>

\* The tool loop: read the files the text asks for and ask again, at most
\* MaxToolIterations times; what is left of the requests is stripped.
ReadFiles(r) ==
    /\ reply[r].at = "generated"
    /\ IF reply[r].text = "tool" /\ reply[r].rounds <= MaxToolIterations
       THEN Set(r, [at |-> "asking"])
       ELSE \E stripped \in {"plain", "empty"} :
               /\ reply[r].text # "tool" => stripped = reply[r].text
               /\ Set(r, [at |-> "answered", text |-> stripped])
    /\ UNCHANGED <<left, conv, messages, pipe>>

\* 7. Save the answer; an empty one is refused.
SaveAnswer(r) ==
    /\ reply[r].at = "answered"
    /\ IF CanAdd(r) /\ reply[r].text # "empty"
       THEN AddMessage(r, "assistant")
       ELSE UNCHANGED messages
    /\ Set(r, Ended(r))
    /\ UNCHANGED <<left, conv, pipe>>

Handle(r) ==
    \/ SaveQuestion(r) \/ ReadHistory(r) \/ AskModel(r)
    \/ Receive(r) \/ ReadFiles(r) \/ SaveAnswer(r)

\* The client disconnects.
Disconnect(r) ==
    /\ reply[r].at \notin {"new", "ended"}
    /\ ~reply[r].gone
    /\ Set(r, [gone |-> TRUE])
    /\ UNCHANGED <<left, conv, messages, pipe>>
-----------------------------------------------------------------------------
(* The two goroutines of a stream *)

\* The provider's goroutine reads a chunk of text, the final one, the end of the
\* body or an error; chunks are sent when the buffer has room, or given up when
\* the context is cancelled.  The final one holds no text and is not counted.
Scan(r) ==
    /\ \/ /\ pipe[r].provider = "reading"
          /\ \/ /\ pipe[r].sent < MaxChunks
                /\ pipe' = [pipe EXCEPT ![r].provider = "sending", ![r].sent = @ + 1]
             \/ \E then \in {"final", "closed"} : pipe' = [pipe EXCEPT ![r].provider = then]
       \/ /\ pipe[r].provider = "sending"
          /\ pipe[r].buffer < BufferSize
          /\ pipe' = [pipe EXCEPT ![r].provider = "reading", ![r].buffer = @ + 1]
       \/ /\ pipe[r].provider = "final"
          /\ pipe[r].buffer < BufferSize
          /\ pipe' = [pipe EXCEPT ![r].provider = "closed"]
       \/ /\ pipe[r].provider \in {"sending", "final"}
          /\ reply[r].gone
          /\ pipe' = [pipe EXCEPT ![r].provider = "closed"]
    /\ UNCHANGED <<left, conv, messages, reply>>

\* The adapter's goroutine takes a chunk, which it holds until the handler has
\* received it, or closes its channel after the provider's.
Adapt(r) ==
    /\ pipe[r].adapter = "empty"
    /\ \/ /\ pipe[r].buffer > 0
          /\ \E chunk \in {"plain", "tool"} :
                pipe' = [pipe EXCEPT ![r].buffer = @ - 1, ![r].adapter = chunk]
       \/ /\ pipe[r].buffer = 0
          /\ pipe[r].provider = "closed"
          /\ pipe' = [pipe EXCEPT ![r].adapter = "closed"]
    /\ UNCHANGED <<left, conv, messages, reply>>

\* The process ends, and with it every request.
Cut ==
    /\ reply' = [r \in Replies |->
                    IF reply[r].at = "new" THEN reply[r] ELSE Ended(r)]
    /\ pipe' = [r \in Replies |-> NoPipe]
    /\ UNCHANGED <<conv, messages>>
-----------------------------------------------------------------------------
ChatNext ==
    \/ \E v \in Convs, u \in Users : CreateConversation(v, u) \/ DeleteConversation(v, u)
    \/ \E r \in Replies, v \in Convs, u \in Users : SendMessage(r, v, u)
    \/ \E r \in Replies : Handle(r) \/ Disconnect(r) \/ Scan(r) \/ Adapt(r)

ChatSpec == ChatInit /\ [][ChatNext]_chatVars

\* Handlers and goroutines run; the model sends a chunk, an end or an error.
ChatFairness ==
    \A r \in Replies :
        WF_chatVars(Handle(r)) /\ WF_chatVars(Scan(r)) /\ WF_chatVars(Adapt(r))
-----------------------------------------------------------------------------
(* Properties *)

\* Every answer stands behind the question it answers, in the same conversation,
\* and a question has one answer at most; the model is asked only with a history
\* that holds the question, unless the conversation was deleted meanwhile.
AnswersFollowQuestions ==
    /\ \A v \in Convs : \A i, j \in 1..Len(messages[v]) :
          messages[v][i].role = "assistant" /\ messages[v][j].role = "assistant"
          /\ messages[v][i].of = messages[v][j].of => i = j
    /\ \A v \in Convs : \A i \in 1..Len(messages[v]) :
          messages[v][i].role = "assistant" =>
             \E j \in 1..i - 1 : messages[v][j] = Question(messages[v][i].of)
    /\ \A r \in Replies : reply[r].at = "streaming" =>
          reply[r].informed \/ conv[reply[r].conv] = None

\* Every request ends, and so do both goroutines of its stream, whether the
\* client stays or leaves and however often the model asks for files.
RepliesEnd ==
    \A r \in Replies :
        reply[r].at = "accepted" ~>
            /\ reply[r].at = "ended"
            /\ pipe[r].provider = "closed"
            /\ pipe[r].adapter = "closed"
=============================================================================
