------------------------------ MODULE ChatModal -----------------------------
(***************************************************************************)
(* The chatbot window (components/erp/chatbot-modal.tsx) with the          *)
(* conversations the server keeps (ChatSessionService) and the index of    *)
(* the AI server in which attached files are put for one question.         *)
(*                                                                         *)
(* The window is part of the header of every page: going to another page   *)
(* unmounts it and mounts a new one, while its calls go on. It reads the   *)
(* conversations when it is mounted and whenever the token changes. Each   *)
(* call is made with the token of its moment.                              *)
(*                                                                         *)
(* Left out: titles, the order of the list, what is folded or unfolded.    *)
(***************************************************************************)
EXTENDS Integers, Sequences

CONSTANTS
    ChatUsers,     \* users who log in
    MaxChats,      \* bound: conversations
    MaxQuestions,  \* bound: questions
    MaxChatRuns,   \* bound: logins, pages visited, conversations begun and deleted
    MaxChatFaults  \* bound: calls that fail or whose answer is lost

NoChatUser == "nobody"

ASSUME ChatAssumption ==
    /\ NoChatUser \notin ChatUsers
    /\ {MaxChats, MaxQuestions, MaxChatRuns, MaxChatFaults} \subseteq Nat

VARIABLES
    chats,       \* the conversations of the server
    indexed,     \* questions whose file is in the index
    strays,      \* those whose file stays there: the upload's answer was lost or the deletion failed
    asked,       \* asked[q]: the conversation a question was asked in
    chatCalls,   \* what the window has begun and not ended
    chat,        \* the window
    chatRuns, chatFaults

chatVars == <<chats, indexed, strays, asked, chatCalls, chat, chatRuns, chatFaults>>

ChatRun == chatRuns < MaxChatRuns /\ chatRuns' = chatRuns + 1
\* A call fails without a token, and may fail with one.
ChatFault(ok) ==
    IF ok \/ chat.user = NoChatUser THEN UNCHANGED chatFaults
    ELSE chatFaults < MaxChatFaults /\ chatFaults' = chatFaults + 1
ChatStore == <<chats, indexed, strays, asked>>

Said(q, as) == [q |-> q, as |-> as]

\* getOwnedSession: those the current token may read and write.
Owned == {i \in 1..Len(chats) : chats[i].live /\ chats[i].owner = chat.user}

-----------------------------------------------------------------------------
(* The window: said[i] is what it shows of the conversation i, attached    *)
(* are the conversations with a file to send.                              *)

ChatWindow(user, mount, gen) ==
    [user |-> user, mount |-> mount, gen |-> gen, said |-> << >>, active |-> 0,
     attached |-> {}, loading |-> FALSE, asking |-> FALSE, typing |-> FALSE]

ChatCall(kind, of, sess, q) ==
    [kind |-> kind, of |-> of, sess |-> sess, q |-> q, stage |-> "begun", list |-> {}, said |-> << >>,
     last |-> FALSE, front |-> FALSE, up |-> FALSE, out |-> "answer"]

LoadCall(gen) == ChatCall("load", gen, 0, 0)

Shows == DOMAIN chat.said
Here(call) == call.of = chat.mount
ChatGoesOn(call, next) == chatCalls' = (chatCalls \ {call}) \union {next}
ChatEnds(call) == chatCalls' = chatCalls \ {call}

\* The effect of another token: logged out, everything is cleared; logged in, the conversations
\* are read. Those shown remain until then.
LogIn(u) ==
    /\ u # chat.user /\ ChatRun
    /\ IF u = NoChatUser
       THEN /\ chat' = [ChatWindow(u, chat.mount, chat.gen + 1) EXCEPT !.asking = chat.asking]
            /\ UNCHANGED chatCalls
       ELSE /\ chat' = [chat EXCEPT !.user = u, !.gen = @ + 1, !.loading = TRUE]
            /\ chatCalls' = chatCalls \union {LoadCall(chat.gen + 1)}
    /\ UNCHANGED <<ChatStore, chatFaults>>

\* A refreshed token has the same effect.
TokenRenewed ==
    /\ chat.user # NoChatUser /\ ChatRun
    /\ chat' = [chat EXCEPT !.gen = @ + 1, !.loading = TRUE]
    /\ chatCalls' = chatCalls \union {LoadCall(chat.gen + 1)}
    /\ UNCHANGED <<ChatStore, chatFaults>>

GoToPage ==
    /\ chat.user # NoChatUser /\ ChatRun
    /\ chat' = [ChatWindow(chat.user, chat.mount + 1, chat.gen + 1) EXCEPT !.loading = TRUE]
    /\ chatCalls' = chatCalls \union {LoadCall(chat.gen + 1)}
    /\ UNCHANGED <<ChatStore, chatFaults>>

-----------------------------------------------------------------------------
(* Reading the conversations: the list, or a new one when there is none;   *)
(* then the messages of each, all of them or nothing.                      *)

NewChat == [owner |-> chat.user, live |-> TRUE, said |-> << >>]

LoadList(call, ok) ==
    /\ call.kind = "load" /\ call.stage = "begun" /\ (chat.user = NoChatUser => ~ok)
    /\ IF ~ok \/ Owned # {}
       THEN /\ ChatGoesOn(call, IF ok THEN [call EXCEPT !.stage = "listed", !.list = Owned] ELSE [call EXCEPT !.stage = "failed"])
            /\ UNCHANGED chats
       ELSE /\ Len(chats) < MaxChats /\ chats' = Append(chats, NewChat)
            /\ ChatGoesOn(call, [call EXCEPT !.stage = "listed", !.list = {Len(chats) + 1}])
    /\ ChatFault(ok)
    /\ UNCHANGED <<indexed, strays, asked, chat, chatRuns>>

LoadMessages(call) ==
    /\ call.kind = "load" /\ call.stage = "listed"
    /\ ChatGoesOn(call, IF call.list \subseteq Owned
                        THEN [call EXCEPT !.stage = "read", !.said = [i \in call.list |-> chats[i].said]]
                        ELSE [call EXCEPT !.stage = "failed"])
    /\ UNCHANGED <<ChatStore, chat, chatRuns, chatFaults>>

\* Mutant: an answer is not dropped when the token has changed since.
LoadDropped_Never(call) == FALSE

\* cancelled: by another token, or on another page.
LoadDropped(call) == call.of # chat.gen

\* The conversation that was shown remains so, else the first of the list is.
LoadArrives(call, first) ==
    /\ call.kind = "load" /\ call.stage \in {"read", "failed"}
    /\ IF LoadDropped(call) THEN first = 0 /\ UNCHANGED chat
       ELSE IF call.stage = "failed" THEN first = 0 /\ chat' = [chat EXCEPT !.loading = FALSE]
       ELSE /\ first \in call.list /\ (chat.active \in call.list => first = chat.active)
            /\ chat' = [chat EXCEPT !.said = call.said, !.active = first, !.attached = {}, !.loading = FALSE]
    /\ ChatEnds(call)
    /\ UNCHANGED <<ChatStore, chatRuns, chatFaults>>

-----------------------------------------------------------------------------
(* A new conversation, and the deletion of one.                            *)

NoneBegun(kind) == \A call \in chatCalls : call.kind # kind

BeginChat ==
    /\ chat.user # NoChatUser /\ Len(chats) < MaxChats /\ NoneBegun("create") /\ ChatRun
    /\ chatCalls' = chatCalls \union {ChatCall("create", chat.mount, 0, 0)}
    /\ UNCHANGED <<ChatStore, chat, chatFaults>>

\* createChatbotSession, and what it answers taken up.
ChatCreated(call) ==
    /\ call.kind = "create" /\ call.stage = "begun" /\ Len(chats) < MaxChats
    /\ IF chat.user = NoChatUser THEN ChatEnds(call) /\ UNCHANGED chats
       ELSE /\ chats' = Append(chats, NewChat)
            /\ ChatGoesOn(call, [call EXCEPT !.stage = "made", !.sess = Len(chats) + 1])
    /\ UNCHANGED <<indexed, strays, asked, chat, chatRuns, chatFaults>>

CreatedShown(call) ==
    /\ call.kind = "create" /\ call.stage = "made"
    /\ chat' = IF Here(call)
               THEN [chat EXCEPT !.said = [i \in Shows \union {call.sess} |-> IF i = call.sess THEN << >> ELSE @[i]],
                                 !.active = call.sess, !.typing = FALSE]
               ELSE chat
    /\ ChatEnds(call)
    /\ UNCHANGED <<ChatStore, chatRuns, chatFaults>>

\* deleteConversation, confirmed. The number of conversations, and which one is shown, are
\* those of now.
BeginDeletion(i) ==
    /\ i \in Shows /\ NoneBegun("delete") /\ ChatRun
    /\ chatCalls' = chatCalls \union
         {[ChatCall("delete", chat.mount, i, 0) EXCEPT !.last = (Shows = {i}), !.front = (chat.active = i)]}
    /\ UNCHANGED <<ChatStore, chat, chatFaults>>

ChatDeleted(call) ==
    /\ call.kind = "delete" /\ call.stage = "begun"
    /\ IF call.sess \in Owned
       THEN /\ chats' = [chats EXCEPT ![call.sess].live = FALSE]
            /\ ChatGoesOn(call, [call EXCEPT !.stage = IF call.last THEN "replace" ELSE "made"])
       ELSE ChatEnds(call) /\ UNCHANGED chats
    /\ UNCHANGED <<indexed, strays, asked, chat, chatRuns, chatFaults>>

\* The last one is replaced by a new one; when this fails the deleted one remains shown.
ChatReplaced(call, ok) ==
    /\ call.kind = "delete" /\ call.stage = "replace" /\ Len(chats) < MaxChats
    /\ (chat.user = NoChatUser => ~ok)
    /\ IF ok THEN /\ chats' = Append(chats, NewChat)
                  /\ ChatGoesOn(call, [call EXCEPT !.stage = "made", !.q = Len(chats) + 1])
             ELSE ChatEnds(call) /\ UNCHANGED chats
    /\ ChatFault(ok)
    /\ UNCHANGED <<indexed, strays, asked, chat, chatRuns>>

DeletionShown(call, first) ==
    LET left == Shows \ {call.sess} IN
    /\ call.kind = "delete" /\ call.stage = "made"
    /\ IF ~Here(call) THEN first = 0 /\ UNCHANGED chat
       ELSE IF left = {} /\ call.q # 0
       THEN first = 0 /\ chat' = [chat EXCEPT !.said = [i \in {call.q} |-> << >>], !.active = call.q, !.attached = @ \ {call.sess}]
       ELSE /\ first \in IF call.front /\ left # {} THEN left ELSE {0}
            /\ chat' = [chat EXCEPT !.said = [i \in left |-> @[i]], !.attached = @ \ {call.sess},
                                    !.active = IF call.front THEN first ELSE @,
                                    !.typing = @ /\ ~call.front]
    /\ ChatEnds(call)
    /\ UNCHANGED <<ChatStore, chatRuns, chatFaults>>

ChooseChat(i) ==
    /\ i \in Shows /\ i # chat.active
    /\ chat' = [chat EXCEPT !.active = i]
    /\ UNCHANGED <<ChatStore, chatCalls, chatRuns, chatFaults>>

\* handleUploadFiles, removePendingAttachment: a file waits with its conversation.
AttachToChat(i) ==
    /\ chat.user # NoChatUser /\ i \in Shows /\ i = chat.active
    /\ chat' = [chat EXCEPT !.attached = IF i \in @ THEN @ \ {i} ELSE @ \union {i}]
    /\ UNCHANGED <<ChatStore, chatCalls, chatRuns, chatFaults>>

-----------------------------------------------------------------------------
(* A question: the files are indexed, the answer is generated, both are    *)
(* stored, the answer is shown, the files are taken out of the index.      *)

\* The one shown, or the first of the list when it is gone.
ActiveChat == IF chat.active \in Shows THEN {chat.active} ELSE Shows

SendMessage(i) ==
    LET q == Len(asked) + 1 IN
    /\ chat.user # NoChatUser /\ i \in ActiveChat /\ ~chat.asking /\ ~chat.typing /\ q <= MaxQuestions
    /\ asked' = Append(asked, i)
    /\ chat' = [chat EXCEPT !.said[i] = Append(@, Said(q, "question")), !.asking = TRUE]
    /\ chatCalls' = chatCalls \union {[ChatCall("ask", chat.mount, i, q) EXCEPT
                        !.stage = IF i \in chat.attached THEN "upload" ELSE "answer"]}
    /\ UNCHANGED <<chats, indexed, strays, chatRuns, chatFaults>>

\* The file may be indexed though the answer is an error.
UploadToIndex(call, ok, kept) ==
    /\ call.kind = "ask" /\ call.stage = "upload" /\ (ok => kept) /\ (chat.user = NoChatUser => ~kept)
    /\ indexed' = IF kept THEN indexed \union {call.q} ELSE indexed
    /\ strays' = IF kept /\ ~ok THEN strays \union {call.q} ELSE strays
    /\ ChatGoesOn(call, IF ok THEN [call EXCEPT !.stage = "answer", !.up = TRUE]
                              ELSE [call EXCEPT !.stage = "store", !.out = "error"])
    /\ ChatFault(ok)
    /\ UNCHANGED <<chats, asked, chat, chatRuns>>

Answered(call, ok) ==
    /\ call.kind = "ask" /\ call.stage = "answer" /\ (chat.user = NoChatUser => ~ok)
    /\ ChatGoesOn(call, [call EXCEPT !.stage = "store", !.out = IF ok THEN "answer" ELSE "error"])
    /\ ChatFault(ok)
    /\ UNCHANGED <<ChatStore, chat, chatRuns>>

\* Mutant: storing is part of what is caught as an error of the answer.
AfterStore_SameTry(call, ok) ==
    IF ok \/ call.out = "error" THEN [call EXCEPT !.stage = "show"] ELSE [call EXCEPT !.out = "error"]

\* Whether or not it is stored, the answer is shown.
AfterStore(call, ok) == [call EXCEPT !.stage = "show"]

\* Mutant: the answer is stored by itself.
StoredPair_AnswerOnly(call) == <<Said(call.q, call.out)>>

\* The two messages of one question.
StoredPair(call) == <<Said(call.q, "question"), Said(call.q, call.out)>>

\* addMessages: question and answer in one transaction, in a conversation that is the caller's.
StoreAnswer(call, ok, kept) ==
    /\ call.kind = "ask" /\ call.stage = "store" /\ (ok => kept) /\ (kept => call.sess \in Owned)
    /\ chats' = IF kept THEN [chats EXCEPT ![call.sess].said = @ \o StoredPair(call)]
                ELSE chats
    /\ ChatGoesOn(call, AfterStore(call, ok))
    /\ IF call.sess \in Owned THEN ChatFault(ok) ELSE UNCHANGED chatFaults
    /\ UNCHANGED <<indexed, strays, asked, chat, chatRuns>>

\* Mutant: the answer is added to the conversation that is shown.
AnsweredIn_Active(call) == chat.active

\* appendAssistantMessage: the conversation the question was asked in.
AnsweredIn(call) == call.sess

\* Mutant: the files are taken out after an answer only.
Cleans_Answered(call) == call.up /\ call.out = "answer"

\* finally: the files that were indexed.
Cleans(call) == call.up

ShowAnswer(call) ==
    LET i == AnsweredIn(call) IN
    /\ call.kind = "ask" /\ call.stage = "show"
    /\ chat' = IF ~Here(call) THEN chat
               ELSE [chat EXCEPT !.said = [j \in Shows |-> IF j = i THEN Append(@[j], Said(call.q, call.out)) ELSE @[j]],
                                 !.typing = i \in Shows, !.asking = Cleans(call)]
    /\ IF Cleans(call) THEN ChatGoesOn(call, [call EXCEPT !.stage = "clean"]) ELSE ChatEnds(call)
    /\ UNCHANGED <<ChatStore, chatRuns, chatFaults>>

CleanIndex(call, ok) ==
    /\ call.kind = "ask" /\ call.stage = "clean" /\ (chat.user = NoChatUser => ~ok)
    /\ indexed' = IF ok THEN indexed \ {call.q} ELSE indexed
    /\ strays' = IF ok THEN strays ELSE strays \union {call.q}
    /\ chat' = IF Here(call) THEN [chat EXCEPT !.asking = FALSE] ELSE chat
    /\ ChatEnds(call)
    /\ ChatFault(ok)
    /\ UNCHANGED <<chats, asked, chatRuns>>

\* The answer is written out, or is no longer among what is shown.
TypingEnds ==
    /\ chat.typing /\ chat' = [chat EXCEPT !.typing = FALSE]
    /\ UNCHANGED <<ChatStore, chatCalls, chatRuns, chatFaults>>

-----------------------------------------------------------------------------

ChatInit ==
    /\ chats = << >> /\ indexed = {} /\ strays = {} /\ asked = << >>
    /\ chatCalls = {} /\ chat = ChatWindow(NoChatUser, 0, 0)
    /\ chatRuns = 0 /\ chatFaults = 0

ChatNext ==
    \/ TokenRenewed \/ GoToPage \/ BeginChat \/ TypingEnds
    \/ \E u \in ChatUsers \union {NoChatUser} : LogIn(u)
    \/ \E i \in 1..Len(chats) : BeginDeletion(i) \/ ChooseChat(i) \/ AttachToChat(i) \/ SendMessage(i)
    \/ \E call \in chatCalls :
         \/ LoadMessages(call) \/ ChatCreated(call) \/ CreatedShown(call) \/ ChatDeleted(call) \/ ShowAnswer(call)
         \/ \E first \in 0..Len(chats) : LoadArrives(call, first) \/ DeletionShown(call, first)
         \/ \E ok \in BOOLEAN : LoadList(call, ok) \/ ChatReplaced(call, ok) \/ Answered(call, ok) \/ CleanIndex(call, ok)
         \/ \E ok, kept \in BOOLEAN : UploadToIndex(call, ok, kept) \/ StoreAnswer(call, ok, kept)

-----------------------------------------------------------------------------
(* Properties.                                                             *)

\* What is stored comes in pairs, a question and its answer; what waits for an answer is in the
\* window of the page.
ChatTypeOK ==
    /\ strays \subseteq indexed /\ indexed \subseteq 1..Len(asked)
    /\ \A i \in 1..Len(chats) : \A n \in 1..Len(chats[i].said) :
         n % 2 = 1 => /\ chats[i].said[n].as = "question" /\ n < Len(chats[i].said)
                      /\ chats[i].said[n + 1].q = chats[i].said[n].q /\ chats[i].said[n + 1].as # "question"
    /\ chat.asking => \E call \in chatCalls : call.kind = "ask" /\ Here(call)

\* A question is stored once, however its answer and the storing itself fail.
QuestionStoredOnce ==
    \A i \in 1..Len(chats) : \A m, n \in 1..Len(chats[i].said) :
        (m # n /\ chats[i].said[m].q = chats[i].said[n].q) => chats[i].said[m].as # chats[i].said[n].as /\ m - n \in {1, -1}

\* An answer is shown in the conversation its question was asked in, wherever the user has gone
\* while it was generated.
AnswerInItsChat ==
    \A i \in Shows : \A n \in 1..Len(chat.said[i]) : asked[chat.said[i][n].q] = i

\* Once nothing is being answered the index holds no attached file, those excepted whose upload
\* was not answered or whose deletion failed.
FilesOutOfIndex ==
    \A q \in indexed \ strays : \E call \in chatCalls : call.kind = "ask" /\ call.q = q

\* The conversations that arrive are those of who is logged in: a slow answer to an earlier
\* login is not shown to the next one.
LoadOfThisLogin ==
    [][(\E call \in chatCalls \ chatCalls' : call.kind = "load") /\ chat'.said # chat.said
          => \A i \in DOMAIN chat'.said : chats[i].owner = chat.user]_chatVars

=============================================================================
