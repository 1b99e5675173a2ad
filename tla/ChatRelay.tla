------------------------------ MODULE ChatRelay ------------------------------
(***************************************************************************)
(* Chat windows of the web portal talk with a bot of a Discord channel     *)
(* through the back end (web-portal/backend/src/routes/discord.ts,         *)
(* web-portal/src/components/ChatWindow): a request posts its question in  *)
(* the channel, listens to the bot until it has been silent for three      *)
(* seconds, and answers with all that it heard.                            *)
(*                                                                         *)
(* All requests listen on one client.  Messages are numbered as they come  *)
(* into the channel.  Time is left out: a timer may run out as long as it  *)
(* is set, and which requests heard their last message less than five      *)
(* seconds before another is a free choice.                                *)
(***************************************************************************)
EXTENDS Naturals, Sequences, SequencesExt

CONSTANTS
    Chats,              \* windows, each with a request at a time
    MaxMessages,        \* bound: messages of the channel
    MaxChatFaults       \* bound: requests to Discord and answers that fail

ASSUME ChatAssumption == MaxMessages \in Nat /\ MaxChatFaults \in Nat

VARIABLES
    channel,            \* who posted a message: a chat, or the bot
    chatAt,             \* where a window's request is
    asked,              \* message with the question of a request
    responses,          \* what a request has taken from the bot
    listeners,          \* requests with a handler of messageCreate
    initialTimer, sequentialTimer,  \* requests with these timers set
    shown,              \* what a window got: messages, or the error (0)
    heard,              \* history: replies to its question a request listened to
    chatFaults

chatVars == <<channel, chatAt, asked, responses, listeners, initialTimer,
              sequentialTimer, shown, heard, chatFaults>>
timers == <<initialTimer, sequentialTimer>>

ChatPlaces == {"typing", "fetching", "sent", "listening", "resolved", "rejected", "failed"}
Earthlink == 0

ChatInit ==
    /\ channel = <<>> /\ chatAt = [c \in Chats |-> "typing"]
    /\ asked = [c \in Chats |-> 0]
    /\ responses = [c \in Chats |-> <<>>] /\ heard = [c \in Chats |-> {}]
    /\ listeners = {} /\ initialTimer = {} /\ sequentialTimer = {}
    /\ shown = [c \in Chats |-> <<>>] /\ chatFaults = 0

ChatFault == chatFaults < MaxChatFaults /\ chatFaults' = chatFaults + 1

ChatGoes(c, p) == chatAt' = [chatAt EXCEPT ![c] = p]
Messages == 1 .. Len(channel)

-----------------------------------------------------------------------------
(* handleSubmit: nothing is sent while a request is loading. *)
HandleSubmit(c) ==
    /\ chatAt[c] = "typing" /\ Len(channel) < MaxMessages
    /\ ChatGoes(c, "fetching")
    /\ UNCHANGED <<channel, asked, responses, listeners, timers, shown, heard, chatFaults>>

(* channel.send, up to the moment Discord has the message. *)
PostQuestion(c) ==
    /\ chatAt[c] = "fetching" /\ Len(channel) < MaxMessages
    /\ channel' = Append(channel, c)
    /\ asked' = [asked EXCEPT ![c] = Len(channel) + 1]
    /\ \/ ChatGoes(c, "sent") /\ UNCHANGED chatFaults
       \/ ChatGoes(c, "failed") /\ ChatFault
    /\ UNCHANGED <<responses, listeners, timers, shown, heard>>

(* The bot is not ready, or there is no such channel. *)
CannotPost(c) ==
    /\ chatAt[c] = "fetching"
    /\ \/ Len(channel) = MaxMessages /\ UNCHANGED chatFaults
       \/ ChatFault
    /\ ChatGoes(c, "failed")
    /\ UNCHANGED <<channel, asked, responses, listeners, timers, shown, heard>>

(* waitForBotResponses, only after the send has been answered: what the bot
   replied before is missed. *)
WaitForBotResponses(c) ==
    /\ chatAt[c] = "sent"
    /\ ChatGoes(c, "listening")
    /\ responses' = [responses EXCEPT ![c] = <<>>] /\ heard' = [heard EXCEPT ![c] = {}]
    /\ listeners' = listeners \cup {c} /\ initialTimer' = initialTimer \cup {c}
    /\ UNCHANGED <<channel, asked, sequentialTimer, shown, chatFaults>>

-----------------------------------------------------------------------------
(* messageHandler, for a message of the bot with reference r. *)

InitialResponse(c, r) == responses[c] = <<>> /\ r = asked[c]

(* Mutant: the original message is forgotten after the first response. *)
SequentialMessage_Chain(c, r, recent) ==
    /\ responses[c] # <<>>
    /\ r = Last(responses[c]) \/ c \in recent

SequentialMessage(c, r, recent) ==
    /\ responses[c] # <<>>
    /\ r \in {asked[c], Last(responses[c])} \/ c \in recent

Awaited(r) == {c \in initialTimer : ~InitialResponse(c, r)}

BotPosts(r, recent) ==
    LET taken == {c \in listeners : InitialResponse(c, r) \/ SequentialMessage(c, r, recent)} IN
    /\ Len(channel) < MaxMessages
    /\ channel' = Append(channel, "bot")
    /\ responses' = [c \in Chats |-> IF c \in taken THEN Append(responses[c], Len(channel) + 1)
                                                   ELSE responses[c]]
    /\ initialTimer' = Awaited(r)
    /\ sequentialTimer' = sequentialTimer \cup taken
    /\ heard' = [c \in Chats |-> IF c \in listeners /\ r = asked[c]
                                 THEN heard[c] \cup {Len(channel) + 1} ELSE heard[c]]
    /\ UNCHANGED <<chatAt, asked, listeners, shown, chatFaults>>

(* Once a promise is settled, settling it again has no effect. *)
Settles(c, p) == IF chatAt[c] = "listening" THEN ChatGoes(c, p) ELSE UNCHANGED chatAt

InitialTimeout(c) ==
    /\ c \in initialTimer /\ initialTimer' = initialTimer \ {c}
    /\ listeners' = listeners \ {c}
    /\ Settles(c, "rejected")
    /\ UNCHANGED <<channel, asked, responses, sequentialTimer, shown, heard, chatFaults>>

FinalizeResponses(c) ==
    /\ c \in sequentialTimer /\ sequentialTimer' = sequentialTimer \ {c}
    /\ listeners' = listeners \ {c}
    /\ Settles(c, "resolved")
    /\ UNCHANGED <<channel, asked, responses, initialTimer, shown, heard, chatFaults>>

-----------------------------------------------------------------------------
(* The window shows the responses, or its error; fetch fails for a status 500
   and when the answer is lost. *)
Shows(c, m) ==
    /\ shown' = [shown EXCEPT ![c] = @ \o m]
    /\ ChatGoes(c, "typing")
    /\ UNCHANGED <<channel, asked, responses, listeners, timers, heard>>

ShowResponses(c) ==
    /\ chatAt[c] = "resolved" /\ Shows(c, responses[c])
    /\ UNCHANGED chatFaults

ShowError(c) ==
    /\ \/ chatAt[c] \in {"rejected", "failed"} /\ UNCHANGED chatFaults
       \/ chatAt[c] = "resolved" /\ ChatFault
    /\ Shows(c, <<Earthlink>>)

-----------------------------------------------------------------------------
ChatStep(c) ==
    \/ PostQuestion(c) \/ CannotPost(c) \/ WaitForBotResponses(c)
    \/ InitialTimeout(c) \/ FinalizeResponses(c) \/ ShowResponses(c) \/ ShowError(c)

ChatNext ==
    \/ \E c \in Chats : HandleSubmit(c) \/ ChatStep(c)
    \/ \E r \in {0} \cup Messages, recent \in SUBSET listeners : BotPosts(r, recent)

ChatSpec == ChatInit /\ [][ChatNext]_chatVars

-----------------------------------------------------------------------------
(* Properties *)

(* Types of the windows and of the state of waitForBotResponses. *)
ChatTypeOK ==
    /\ channel \in Seq(Chats \cup {"bot"}) /\ Len(channel) <= MaxMessages
    /\ chatAt \in [Chats -> ChatPlaces] /\ asked \in [Chats -> 0 .. MaxMessages]
    /\ responses \in [Chats -> Seq(Messages)] /\ shown \in [Chats -> Seq({Earthlink} \cup Messages)]
    /\ listeners \subseteq Chats /\ initialTimer \subseteq listeners
    /\ sequentialTimer \subseteq listeners
    /\ heard \in [Chats -> SUBSET Messages] /\ chatFaults \in 0 .. MaxChatFaults

(* Exactly the requests that wait have a handler on the one client, and each of
   them has one timer set that will end it (waitForBotResponses). *)
WaitingListens ==
    /\ listeners = {c \in Chats : chatAt[c] = "listening"}
    /\ initialTimer \cup sequentialTimer = listeners
    /\ initialTimer \cap sequentialTimer = {}

(* A request times out only when the bot did not reply to its question while it
   listened, and what the bot did reply is among the responses. *)
HeardIsTaken ==
    \A c \in Chats :
        /\ chatAt[c] = "rejected" => heard[c] = {}
        /\ chatAt[c] = "resolved" => heard[c] \subseteq ToSet(responses[c])

(* A window shows what follows its question: none of the messages that a
   request takes is older than the question it asked, although all requests
   hear all messages. *)
AnswersFollow ==
    \A c \in Chats : chatAt[c] = "resolved" =>
        /\ responses[c] # <<>> /\ \A i \in DOMAIN responses[c] : responses[c][i] > asked[c]
        /\ heard[c] # {}

(* Every submitted question comes back to its window, answered or not. *)
ChatReturns == \A c \in Chats : (chatAt[c] # "typing") ~> (chatAt[c] = "typing")

(* A request hears the bot while it waits, answers with what it heard, and
   leaves nothing behind. *)
RelayInv == WaitingListens /\ HeardIsTaken /\ AnswersFollow
=============================================================================
