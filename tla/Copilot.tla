------------------------------- MODULE Copilot -------------------------------
(***************************************************************************)
(* CopilotService.chat on one conversation: what it remembers, the model   *)
(* that answers (external, behind an adapter that may throw), and what the *)
(* page that sent the prompt shows.  Chats of one conversation may         *)
(* overlap, and any call may fail.                                         *)
(*                                                                         *)
(* The operators named Bug... are faulty variants of definitions after     *)
(* them; no specification uses them.                                       *)
(***************************************************************************)
EXTENDS Naturals, Sequences, FiniteSets

CONSTANTS
    Chats,      \* prompts in progress at the same time
    Recall,     \* messages that a prompt carries along (12 in chat, an even number)
    MaxTalk     \* bound: messages of the conversation

ASSUME CopilotAssumption == Recall \in Nat /\ Recall % 2 = 0 /\ MaxTalk \in Nat

VARIABLES
    talk,       \* the messages of the conversation, in the order of createdAt
    chat,       \* what each chat is doing and what it read
    shown,      \* the messages that the page shows
    disturbed   \* ghost: chats overlapped, or one was cut off

copilotVars == <<talk, chat, shown, disturbed>>

TalkRole == {"USER", "ASSISTANT"}
TalkMessage == [role : TalkRole, on : Nat]   \* on: the place of the question
ChatPc == {"idle", "recall", "context", "question", "generate", "answer"}
Chat == [pc : ChatPc, recalled : Seq(TalkMessage), question : Nat]
NoChat == [pc |-> "idle", recalled |-> <<>>, question |-> 0]

CopilotTypeOK ==
    /\ talk \in Seq(TalkMessage)
    /\ chat \in [Chats -> Chat]
    /\ shown \in Seq(TalkMessage)
    /\ disturbed \in BOOLEAN

CopilotInit ==
    /\ talk = <<>>
    /\ chat = [c \in Chats |-> NoChat]
    /\ shown = <<>>
    /\ disturbed = FALSE

-----------------------------------------------------------------------------

ChatGoes(c, from, to) ==
    /\ chat[c].pc = from
    /\ chat' = [chat EXCEPT ![c].pc = to]
    /\ UNCHANGED <<talk, shown, disturbed>>
Waiting(c) == chat[c].pc # "idle"

(* onSubmit of the page, and the check of the feature. *)
SendPrompt(c) ==
    /\ chat[c].pc = "idle" /\ Len(talk) < MaxTalk
    /\ chat' = [chat EXCEPT ![c].pc = "recall"]
    /\ disturbed' = (disturbed \/ \E other \in Chats : Waiting(other))
    /\ UNCHANGED <<talk, shown>>

BugOneMessageLess == SubSeq(talk, 1, IF Len(talk) < Recall THEN Len(talk) ELSE Recall - 1)

(* The oldest messages of the conversation, oldest first. *)
Recalled == SubSeq(talk, 1, IF Len(talk) < Recall THEN Len(talk) ELSE Recall)
RecallTalk(c) ==
    /\ chat[c].pc = "recall"
    /\ chat' = [chat EXCEPT ![c].pc = "context", ![c].recalled = Recalled]
    /\ UNCHANGED <<talk, shown, disturbed>>

(* The executive summary, the newest recommendations, the growth graph. *)
ReadContext(c) == ChatGoes(c, "context", "question")

StoreQuestion(c) ==
    /\ chat[c].pc = "question"
    /\ talk' = Append(talk, [role |-> "USER", on |-> Len(talk) + 1])
    /\ chat' = [chat EXCEPT ![c].pc = "generate", ![c].question = Len(talk) + 1]
    /\ UNCHANGED <<shown, disturbed>>

(* What the model is asked, without the system's messages. *)
Prompt(c) == Append(chat[c].recalled, talk[chat[c].question])

BugNoStandIn == "idle"

(* adapter.generate: a text that is put in form, or that stands in for the *)
(* model's if the adapter throws; the chat goes on either way.             *)
AfterThrow == "answer"
GenerateAnswer(c) ==
    \E answered \in BOOLEAN :
        ChatGoes(c, "generate", IF answered THEN "answer" ELSE AfterThrow)

BugNewestShown(c) == <<talk[Len(talk)], [role |-> "ASSISTANT", on |-> chat[c].question]>>

Additions(c) == <<talk[chat[c].question], [role |-> "ASSISTANT", on |-> chat[c].question]>>
(* The answer is stored, and the page appends what it does not show yet. *)
StoreAnswer(c) ==
    /\ chat[c].pc = "answer"
    /\ talk' = Append(talk, [role |-> "ASSISTANT", on |-> chat[c].question])
    /\ chat' = [chat EXCEPT ![c] = NoChat]
    /\ shown' = shown \o Additions(c)
    /\ UNCHANGED disturbed

(* A call to the database fails or the API restarts; what is stored stays. *)
ChatThrows(c) ==
    /\ Waiting(c)
    /\ chat' = [chat EXCEPT ![c] = NoChat]
    /\ disturbed' = TRUE
    /\ UNCHANGED <<talk, shown>>

CopilotStep(c) ==
    \/ SendPrompt(c) \/ RecallTalk(c) \/ ReadContext(c) \/ StoreQuestion(c)
    \/ GenerateAnswer(c) \/ StoreAnswer(c) \/ ChatThrows(c)

CopilotNext == \E c \in Chats : CopilotStep(c)
CopilotSpec == CopilotInit /\ [][CopilotNext]_copilotVars

-----------------------------------------------------------------------------
(* Safety *)

(* What the model is asked alternates between the user and the assistant,  *)
(* as the API of Anthropic wants it, unless chats overlapped or one was   *)
(* cut off: the messages that are recalled end with an answer, however     *)
(* long the conversation is (copilot.service.ts:73-92, 143-169).           *)
PromptAlternates ==
    \A c \in Chats : chat[c].pc = "generate" /\ ~disturbed =>
        \A k \in DOMAIN Prompt(c) :
            Prompt(c)[k].role = IF k % 2 = 1 THEN "USER" ELSE "ASSISTANT"

(* A question stays without an answer only if its chat was cut off, never  *)
(* because the model did not answer (copilot.service.ts:171-190).          *)
QuestionsAreAnswered ==
    ~disturbed => \A k \in DOMAIN talk : talk[k].role = "USER" =>
        \/ \E n \in DOMAIN talk : talk[n] = [role |-> "ASSISTANT", on |-> k]
        \/ \E c \in Chats : chat[c].question = k

(* The page shows questions with their answers, whatever was stored        *)
(* between them and however many attempts failed: never an answer to       *)
(* another question (copilot.service.ts:192-210, copilot/page.tsx:57-75).  *)
ShownInPairs ==
    \A k \in DOMAIN shown : k % 2 = 1 =>
        /\ k + 1 \in DOMAIN shown
        /\ shown[k].role = "USER" /\ shown[k + 1].role = "ASSISTANT"
        /\ shown[k].on = shown[k + 1].on

(* The conversation that is stored, shown and sent to the model is one of  *)
(* questions and answers (copilot.service.ts:70-211).                      *)
TalkIsKept == PromptAlternates /\ QuestionsAreAnswered /\ ShownInPairs
===============================================================================
