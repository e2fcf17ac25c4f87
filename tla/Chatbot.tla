------------------------------- MODULE Chatbot -------------------------------
(***************************************************************************)
(* The assistant's chat: the page (SecurityAssistant.qml), the event       *)
(* page's "Ask Chatbot to Help Resolve", the bridge that makes the chat's  *)
(* object on first use (api/backend_bridge.py), and ChatbotBridge with its *)
(* one worker thread (ai/security_chatbot_v4.py).                          *)
(*                                                                         *)
(* A message is a number; the memory sent along with the next request is   *)
(* kept, the bubbles on the page are not.  Left out: the texts, the        *)
(* snapshot of the machine that goes with a request, and the sessions and  *)
(* signals of tools, which nothing uses.                                   *)
(***************************************************************************)
EXTENDS Naturals, Sequences

CONSTANT MaxMessages    \* bound: messages sent

ASSUME ChatBounds == MaxMessages \in Nat

VARIABLES
    thinking,   \* isThinking
    settling,   \* Qt.callLater will end it
    key,        \* GROQ_API_KEY is set
    chat,       \* _chatbot_bridge: "none", "ready"; "refused": it was asked
                \* for without a key, _chatbot_initialized is set
    memory,     \* chat_history
    guard,      \* _worker_running
    worker,     \* the thread: "none", "asks", "answered"
    question,   \* the message it works on, 0 if none
    chatPosts,  \* its signals to the UI thread: "reply", "done"
    \* history
    sent,       \* messages sent so far
    forgotten,  \* messages whose answer was awaited when the memory was cleared
    ignored,    \* messages the guard refused while an answer was awaited
    late,       \* the page's last message was refused after that answer
    fromEvents  \* the event page has sent one

pageChatVars == <<thinking, settling>>
workerVars   == <<worker, question, chatPosts>>
pastVars     == <<sent, forgotten, ignored, late, fromEvents>>
chatVars == <<pageChatVars, key, chat, memory, guard, workerVars, pastVars>>

Entry(role, n) == [role |-> role, to |-> n]

ReplyComing == worker = "asks" \/ \E i \in DOMAIN chatPosts : chatPosts[i] = "reply"

ChatInit ==
    /\ thinking = FALSE /\ settling = FALSE
    /\ key \in BOOLEAN /\ chat = "none"
    /\ memory = <<>> /\ guard = FALSE
    /\ worker = "none" /\ question = 0 /\ chatPosts = <<>>
    /\ sent = 0 /\ forgotten = {} /\ ignored = {} /\ late = FALSE
    /\ fromEvents = FALSE

------------------------------------------------------------------------------
(* sendChatMessage, called by a click or by the event page; before is the  *)
(* memory by then.  The object is made once: with no key at the first      *)
(* message, a key saved later does not help.                               *)
Ensured == IF chat # "none" THEN chat ELSE IF key THEN "ready" ELSE "refused"

(* A mutant: the guard is not asked. *)
SendUnguarded(before) ==
    /\ sent < MaxMessages /\ sent' = sent + 1
    /\ chat' = Ensured
    /\ IF Ensured = "refused"
       THEN settling' = TRUE /\ memory' = before
            /\ UNCHANGED <<guard, worker, question, ignored>>
       ELSE /\ guard' = TRUE /\ memory' = Append(before, Entry("user", sent'))
            /\ worker' = "asks" /\ question' = sent'
            /\ UNCHANGED <<settling, ignored>>
    /\ UNCHANGED <<key, chatPosts, forgotten>>

SendMessage(before) ==
    /\ sent < MaxMessages /\ sent' = sent + 1
    /\ chat' = Ensured
    /\ IF Ensured = "refused"               \* _emit_ai_config_required
       THEN settling' = TRUE /\ memory' = before
            /\ UNCHANGED <<guard, worker, question, ignored>>
       ELSE IF guard                        \* ignored in silence
       THEN /\ memory' = before
            /\ ignored' = IF ReplyComing THEN ignored \cup {sent'} ELSE ignored
            /\ UNCHANGED <<settling, guard, worker, question>>
       ELSE /\ guard' = TRUE /\ memory' = Append(before, Entry("user", sent'))
            /\ worker' = "asks" /\ question' = sent'
            /\ UNCHANGED <<settling, ignored>>
    /\ UNCHANGED <<key, chatPosts, forgotten>>

ComesLate == late' = (Ensured = "ready" /\ guard /\ ~ReplyComing)

(* The field, or a suggestion: thinking is set before the call, so that the *)
(* error of a missing key ends it.                                          *)
ClickSend ==
    /\ ~thinking /\ thinking' = (Ensured # "refused")
    /\ SendMessage(memory) /\ ComesLate
    /\ UNCHANGED fromEvents

(* "Explain Events" sets it behind the call: callLater ends it then. *)
ClickExplainEvents ==
    /\ ~thinking /\ thinking' = TRUE
    /\ SendMessage(memory) /\ ComesLate
    /\ UNCHANGED fromEvents

(* setEventContextForChat: the event goes into the memory, in the place of a *)
(* context that is its last entry, also when the message is then refused.    *)
WithContext(n) ==
    IF memory # <<>> /\ memory[Len(memory)].role = "context"
    THEN [memory EXCEPT ![Len(memory)] = Entry("context", n)]
    ELSE Append(memory, Entry("context", n))

AskAboutEvent ==
    /\ SendMessage(IF chat = "ready" THEN WithContext(sent + 1) ELSE memory)
    /\ fromEvents' = TRUE
    /\ UNCHANGED <<thinking, late>>

(* The bin: also while an answer is awaited. *)
ClearChat ==
    /\ chat = "ready" /\ memory # <<>> /\ memory' = <<>>
    /\ forgotten' = IF ReplyComing THEN forgotten \cup {question} ELSE forgotten
    /\ UNCHANGED <<pageChatVars, key, chat, guard, workerVars, sent, ignored,
                   late, fromEvents>>

ChangeKey ==
    /\ key' = ~key
    /\ UNCHANGED <<pageChatVars, chat, memory, guard, workerVars, pastVars>>

(* The deferred call of onChatMessageAdded. *)
Settle ==
    /\ settling /\ settling' = FALSE /\ thinking' = FALSE
    /\ UNCHANGED <<key, chat, memory, guard, workerVars, pastVars>>

------------------------------------------------------------------------------
(* GroqChatWorker.run: a reply, or the text of an error, is posted once;   *)
(* then the thread ends.                                                   *)
RunWorker ==
    /\ \/ worker = "asks" /\ worker' = "answered" /\ chatPosts' = Append(chatPosts, "reply")
       \/ worker = "answered" /\ worker' = "none" /\ chatPosts' = Append(chatPosts, "done")
    /\ UNCHANGED <<pageChatVars, key, chat, memory, guard, question, pastVars>>

(* A mutant: the field is not given back. *)
ShowReplyThinks ==
    /\ chatPosts # <<>> /\ Head(chatPosts) = "reply" /\ chatPosts' = Tail(chatPosts)
    /\ memory' = Append(memory, Entry("reply", question))
    /\ UNCHANGED <<pageChatVars, key, chat, guard, worker, question, pastVars>>

(* _on_response and _on_error. *)
ShowReply ==
    /\ chatPosts # <<>> /\ Head(chatPosts) = "reply" /\ chatPosts' = Tail(chatPosts)
    /\ memory' = Append(memory, Entry("reply", question))
    /\ settling' = TRUE
    /\ UNCHANGED <<thinking, key, chat, guard, worker, question, pastVars>>

(* _on_worker_done. *)
WorkerDone ==
    /\ chatPosts # <<>> /\ Head(chatPosts) = "done" /\ chatPosts' = Tail(chatPosts)
    /\ guard' = FALSE /\ question' = 0
    /\ UNCHANGED <<pageChatVars, key, chat, memory, worker, pastVars>>

ChatNext ==
    \/ ClickSend \/ ClickExplainEvents \/ AskAboutEvent \/ ClearChat \/ ChangeKey
    \/ Settle \/ RunWorker \/ ShowReply \/ WorkerDone

(* The event loop runs what is posted and deferred; a request has a timeout *)
(* of 12 s.                                                                 *)
ChatFairness ==
    /\ WF_chatVars(Settle) /\ WF_chatVars(RunWorker)
    /\ WF_chatVars(ShowReply) /\ WF_chatVars(WorkerDone)

ChatSpec == ChatInit /\ [][ChatNext]_chatVars /\ ChatFairness

------------------------------------------------------------------------------
(* Properties. *)

ChatTypeOK ==
    /\ {thinking, settling, key, guard, late, fromEvents} \subseteq BOOLEAN
    /\ chat \in {"none", "ready", "refused"}
    /\ worker \in {"none", "asks", "answered"}
    /\ memory \in Seq([role : {"user", "context", "reply"}, to : 1 .. MaxMessages])
    /\ question \in 0 .. MaxMessages /\ sent \in 0 .. MaxMessages
    /\ forgotten \subseteq 1 .. MaxMessages /\ ignored \subseteq 1 .. MaxMessages
    /\ chatPosts \in Seq({"reply", "done"})

(* The guard is on exactly while a request is underway: from its start until *)
(* the end of its thread has been handled.                                   *)
GuardIsTruthful ==
    /\ guard <=> worker # "none" \/ chatPosts # <<>>
    /\ guard <=> question # 0
    /\ guard => chat = "ready"

(* What goes to the model with the next request is a conversation: between a *)
(* question and its answer stand contexts of events only, every question but *)
(* the one underway has its answer, and an answer without its question is    *)
(* that of a question cleared away while it was awaited.                     *)
OnlyContextBetween(i, j) == \A k \in i + 1 .. j - 1 : memory[k].role = "context"
ConversationIsWhole ==
    /\ \A i \in DOMAIN memory : memory[i].role = "user" =>
          \/ \E j \in i + 1 .. Len(memory) :
                memory[j] = Entry("reply", memory[i].to) /\ OnlyContextBetween(i, j)
          \/ /\ question = memory[i].to /\ ReplyComing
             /\ OnlyContextBetween(i, Len(memory) + 1)
    /\ \A j \in DOMAIN memory : memory[j].role = "reply" =>
          \/ memory[j].to \in forgotten
          \/ \E i \in 1 .. j - 1 : memory[i] = Entry("user", memory[j].to)
    /\ \A i \in 1 .. Len(memory) - 1 :
          ~(memory[i].role = "context" /\ memory[i + 1].role = "context")

(* The page thinks only while something will end it, unless its message came *)
(* between an answer and the end of the thread that had sent it: the guard   *)
(* refuses such a message in silence, and the field stays locked.            *)
ThinkingIsFounded == thinking => settling \/ ReplyComing \/ late

(* Without the event page, no message is refused while another one's answer *)
(* is awaited: only thinking keeps the page from sending.                   *)
OnlyEventsOverlap == ignored # {} => fromEvents

ChatInv ==
    /\ ChatTypeOK /\ GuardIsTruthful /\ ConversationIsWhole
    /\ ThinkingIsFounded /\ OnlyEventsOverlap

(* The field is to be given back, unless the last message came too late. *)
ChatWaits == thinking /\ ~late
==============================================================================
