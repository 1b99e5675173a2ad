--------------------------- MODULE NetworkSession ---------------------------
(***************************************************************************)
(* Requests of one node to another over libp2p: the streams and sessions   *)
(* of the network module on both sides (modules/network), the RPC          *)
(* controllers, and the commands that handle a request                     *)
(* (commands/protocols/*/receiver).                                        *)
(*                                                                         *)
(* A session is the stream cached under the peer and the operation id: on  *)
(* both sides a later stream of the operation replaces the earlier one,    *)
(* and whoever is done first removes whatever is there.  An operation is   *)
(* asked for more than once when its request command is retried or its     *)
(* node was scheduled twice (PublishOperation).                            *)
(*                                                                         *)
(* Requests are numbered by their streams.  BUSY is not an answer of this  *)
(* code: isBusy is asked for PROTOCOL_INIT only, and every request is a    *)
(* PROTOCOL_REQUEST.  The update protocol is disabled (NETWORK_PROTOCOLS). *)
(***************************************************************************)
EXTENDS Naturals, Sequences, FiniteSets

CONSTANTS
    StoreOps, GetOps, AskOps, FinalityOps,  \* operations, by protocol
    V6Stored, V8Stored,     \* those whose assertion the asked node holds
    HandlerRetries,         \* retries of the command of a store request
    MaxStreams,             \* bound: requests
    MaxSessionFaults        \* bound: exceptions, refusals and crashes

Ops == StoreOps \cup GetOps \cup AskOps \cup FinalityOps
Streams == 1 .. MaxStreams
NoStream == 0

ASSUME SessionAssumption ==
    /\ MaxStreams \in Nat \ {0} /\ HandlerRetries \in Nat \ {0}
    /\ MaxSessionFaults \in Nat
    /\ V6Stored \subseteq Ops /\ V8Stored \subseteq Ops
    /\ "none" \notin Ops

VARIABLES
    dialed,         \* the operations of the streams, in order of dialling
    senderSession,  \* sessions of the asking node: operation -> stream
    got,            \* what sendMessage returned for a stream
    cut,            \* streams the asking node aborted or closed
    session,        \* sessions of the asked node
    answer,         \* what the asked node wrote to a stream
    place,          \* where the handling of a stream's request is
    prepared,       \* the answer prepareMessage returned
    tries,          \* command.retries of the handling command
    cacheMemory, cacheFile,     \* operation id cache of the asked node
    pendingStorage, finalityAcks,   \* its datasets and acknowledgements
    blackListed,    \* whether it blocks the asking node
    sessionFaults

asking == <<dialed, senderSession, got, cut>>
kept == <<cacheMemory, cacheFile, pendingStorage, finalityAcks>>
sessionVars == <<dialed, senderSession, got, cut, session, answer, place,
                 prepared, tries, cacheMemory, cacheFile, pendingStorage,
                 finalityAcks, blackListed, sessionFaults>>

Waiting == {s \in 1 .. Len(dialed) : got[s] = "none"}
Over == {"unsent", "done", "lost"}
Places == Over \cup {"wire", "caching", "queued", "validated", "kept", "ready",
                     "told", "refused", "failing"}

SessionInit ==
    /\ dialed = <<>> /\ cut = {}
    /\ senderSession = [o \in Ops |-> NoStream]
    /\ session = [o \in Ops |-> NoStream]
    /\ got = [s \in Streams |-> "none"] /\ answer = [s \in Streams |-> "none"]
    /\ place = [s \in Streams |-> "unsent"]
    /\ prepared = [s \in Streams |-> "none"]
    /\ tries = [s \in Streams |-> HandlerRetries]
    /\ cacheMemory = {} /\ cacheFile = {}
    /\ pendingStorage = {} /\ finalityAcks = {}
    /\ blackListed = FALSE /\ sessionFaults = 0

SessionFault ==
    /\ sessionFaults < MaxSessionFaults
    /\ sessionFaults' = sessionFaults + 1

At(s, p) == place' = [place EXCEPT ![s] = p]

-----------------------------------------------------------------------------
(* The asking node *)

(* sendMessage up to the await of the answer; sending may fail. *)
SendMessage(o) ==
    /\ Len(dialed) < MaxStreams
    /\ dialed' = Append(dialed, o)
    /\ senderSession' = [senderSession EXCEPT ![o] = Len(dialed) + 1]
    /\ \/ At(Len(dialed) + 1, "wire") /\ UNCHANGED sessionFaults
       \/ At(Len(dialed) + 1, "lost") /\ SessionFault
    /\ UNCHANGED <<got, cut, session, answer, prepared, tries, kept, blackListed>>

(* Mutant: the session is removed only after a positive answer. *)
Removed_OnAck(o, a) ==
    IF a = "ACK" THEN [senderSession EXCEPT ![o] = NoStream] ELSE senderSession

Removed(o, a) == [senderSession EXCEPT ![o] = NoStream]

(* removeCachedSession closes the stream it finds, not the one it is about. *)
Release(o, a) ==
    /\ senderSession' = Removed(o, a)
    /\ cut' = cut \cup ({senderSession[o]} \ {NoStream})

DialFails(o) ==
    /\ SessionFault
    /\ senderSession[o] # NoStream /\ Release(o, "NACK")
    /\ UNCHANGED <<dialed, got, session, answer, place, prepared, tries, kept, blackListed>>

(* Mutant: the timeout does not abort the stream. *)
MessageReturns_Untimed(s, a) ==
    /\ s \in Waiting
    /\ (a = "NACK" /\ s \in cut) \/ (answer[s] = a /\ s \notin cut)
    /\ got' = [got EXCEPT ![s] = a]
    /\ senderSession' = Removed(dialed[s], a)
    /\ cut' = cut \cup ({s, senderSession[dialed[s]]} \ {NoStream})
    /\ UNCHANGED <<dialed, session, answer, place, prepared, tries, kept,
                   blackListed, sessionFaults>>

(* sendMessage returns the answer, or a NACK of its own after a timeout and
   when the stream was closed by the request it shares its session with;
   sendProtocolMessage removes the session. *)
MessageReturns(s, a) ==
    /\ s \in Waiting
    /\ a = "NACK" \/ (answer[s] = a /\ s \notin cut)
    /\ got' = [got EXCEPT ![s] = a]
    /\ senderSession' = Removed(dialed[s], a)
    /\ cut' = cut \cup ({s, senderSession[dialed[s]]} \ {NoStream})
    /\ UNCHANGED <<dialed, session, answer, place, prepared, tries, kept,
                   blackListed, sessionFaults>>

-----------------------------------------------------------------------------
(* The asked node: streams and sessions *)

Fresh(t) == t # NoStream /\ t \notin cut /\ answer[t] = "none"
Used(t) == t # NoStream /\ ~Fresh(t)

(* What comes of writing an answer to the session of o.  On a stream that was
   written to or closed, libp2p may or may not throw. *)
Writes(o, a) ==
    /\ session[o] # NoStream
    /\ answer' = IF Fresh(session[o]) THEN [answer EXCEPT ![session[o]] = a] ELSE answer

CannotWrite(o) == session[o] = NoStream \/ Used(session[o])

Unregistered(o) == session' = [session EXCEPT ![o] = NoStream]

(* limitRequest: spammers are blocked for a while, then forgotten. *)
Limited ==
    \/ blackListed /\ UNCHANGED <<blackListed, sessionFaults>>
    \/ SessionFault /\ blackListed' \in {TRUE, FALSE}
Admitted == blackListed' = FALSE /\ UNCHANGED sessionFaults

(* The handler handleMessage registers: the stream becomes the session before
   anything else is looked at; an invalid request gets a NACK at once. *)
Refuse(s) ==
    /\ place[s] = "wire" /\ s \notin cut
    /\ Limited
    /\ session' = [session EXCEPT ![dialed[s]] = s]
    /\ answer' = [answer EXCEPT ![s] = "NACK"]
    /\ At(s, "refused")
    /\ UNCHANGED <<asking, prepared, tries, kept>>

(* v1_0_0HandleRequest of the controllers; that of publish caches the dataset
   in memory and in a file, the others only add their command. *)
HandleRequest(s) ==
    /\ place[s] = "wire" /\ s \notin cut
    /\ Admitted
    /\ session' = [session EXCEPT ![dialed[s]] = s]
    /\ \/ /\ dialed[s] \in StoreOps
          /\ cacheMemory' = cacheMemory \cup {dialed[s]}
          /\ At(s, "caching")
       \/ /\ dialed[s] \notin StoreOps
          /\ At(s, "queued") /\ UNCHANGED cacheMemory
    /\ UNCHANGED <<asking, answer, prepared, tries, cacheFile, pendingStorage, finalityAcks>>

CacheToFile(s) ==
    /\ place[s] = "caching"
    /\ cacheFile' = cacheFile \cup {dialed[s]}
    /\ At(s, "queued")
    /\ UNCHANGED <<asking, session, answer, prepared, tries, cacheMemory,
                   pendingStorage, finalityAcks, blackListed, sessionFaults>>

(* A request whose stream was aborted or reset before it was read. *)
Unread(s) ==
    /\ place[s] = "wire" /\ s \in cut
    /\ At(s, "lost")
    /\ UNCHANGED <<asking, session, answer, prepared, tries, kept, blackListed, sessionFaults>>

-----------------------------------------------------------------------------
(* The asked node: HandleProtocolMessageCommand *)

Handling(s, p, q, a) ==
    /\ place[s] = p /\ At(s, q)
    /\ prepared' = [prepared EXCEPT ![s] = a]
    /\ UNCHANGED <<asking, session, answer, tries, blackListed, sessionFaults>>

(* An exception in the try block.  The command of a store request has retries,
   and with the last one it is completed (_handleRetry); the others answer with
   a NACK (handleError). *)
Thrown(s) ==
    \/ /\ dialed[s] \in StoreOps /\ tries[s] > 1
       /\ tries' = [tries EXCEPT ![s] = @ - 1]
       /\ At(s, "queued")
    \/ /\ dialed[s] \in StoreOps /\ tries[s] = 1
       /\ At(s, "done") /\ UNCHANGED tries
    \/ /\ dialed[s] \notin StoreOps
       /\ At(s, "failing") /\ UNCHANGED tries

(* prepareMessage of a store request reads the dataset from the cache ... *)
CachedDataset(s) == dialed[s] \in cacheMemory \cup cacheFile

ValidateReceivedData(s) ==
    /\ dialed[s] \in StoreOps /\ CachedDataset(s)
    /\ \/ Handling(s, "queued", "validated", "none")
       \/ Handling(s, "queued", "ready", "NACK")
    /\ UNCHANGED kept

(* ... keeps it in the pending storage ... *)
(* Mutant: the dataset is kept after it was signed. *)
CacheDataset_Later(s) ==
    /\ Handling(s, "validated", "kept", "none")
    /\ UNCHANGED kept

CacheDataset(s) ==
    /\ Handling(s, "validated", "kept", "none")
    /\ pendingStorage' = pendingStorage \cup {dialed[s]}
    /\ UNCHANGED <<cacheMemory, cacheFile, finalityAcks>>

(* ... and signs its root. *)
SignMessage(s) ==
    /\ Handling(s, "kept", "ready", "ACK")
    /\ UNCHANGED kept

(* prepareMessage of a get: the assertion of version 6, or that of version 8. *)
Held == (GetOps \cup AskOps) \cap (V6Stored \cup V8Stored)

GetAssertion(s) ==
    /\ dialed[s] \in GetOps
    /\ Handling(s, "queued", "ready", IF dialed[s] \in Held THEN "ACK" ELSE "NACK")
    /\ UNCHANGED kept

(* prepareMessage of an ask: the unified graph. *)
CheckExists(s) ==
    LET exists == dialed[s] \in V8Stored IN
    /\ dialed[s] \in AskOps
    /\ Handling(s, "queued", "ready", IF exists THEN "ACK" ELSE "NACK")
    /\ cacheMemory' = IF exists THEN cacheMemory \cup {dialed[s]} ELSE cacheMemory
    /\ cacheFile' = IF exists THEN cacheFile \cup {dialed[s]} ELSE cacheFile
    /\ UNCHANGED <<pendingStorage, finalityAcks>>

(* PublishFinalitySaveAckCommand: the acknowledgement is saved, or not, and the
   operation marked as completed with the result.  The controller adds it with
   an empty sequence, so that the command that would answer never runs. *)
SaveFinalityAck(s) ==
    /\ dialed[s] \in FinalityOps /\ place[s] = "queued"
    /\ \/ finalityAcks' = finalityAcks \cup {dialed[s]} /\ UNCHANGED sessionFaults
       \/ SessionFault /\ UNCHANGED finalityAcks
    /\ cacheMemory' = cacheMemory \cup {dialed[s]}
    /\ cacheFile' = cacheFile \cup {dialed[s]}
    /\ At(s, "done")
    /\ UNCHANGED <<asking, session, answer, prepared, tries, pendingStorage, blackListed>>

SendResponse(s) ==
    /\ place[s] = "ready"
    /\ \/ Writes(dialed[s], prepared[s]) /\ At(s, "told") /\ UNCHANGED tries
       \/ CannotWrite(dialed[s]) /\ Thrown(s) /\ UNCHANGED answer
    /\ UNCHANGED <<asking, session, prepared, kept, blackListed, sessionFaults>>

(* The session is removed, whoever's it is; a refused request does the same. *)
RemoveSession(s) ==
    /\ place[s] \in {"told", "refused"}
    /\ Unregistered(dialed[s])
    /\ At(s, "done")
    /\ UNCHANGED <<asking, answer, prepared, tries, kept, blackListed, sessionFaults>>

(* An exception of prepareMessage, the one for a missing dataset included. *)
PrepareFails(s) ==
    /\ \/ /\ dialed[s] \in StoreOps /\ ~CachedDataset(s) /\ place[s] = "queued"
          /\ UNCHANGED sessionFaults
       \/ dialed[s] \in StoreOps /\ place[s] \in {"queued", "validated", "kept"} /\ SessionFault
       \/ dialed[s] \in GetOps \cup AskOps /\ place[s] = "queued" /\ SessionFault
    /\ Thrown(s)
    /\ UNCHANGED <<asking, session, answer, prepared, kept, blackListed>>

(* handleError: the status, which removes the cached data, and a NACK.  If that
   cannot be written the error leaves execute; the command fails, and its
   recover throws, since handleError has other parameters here. *)
HandleError(s) ==
    /\ place[s] = "failing"
    /\ cacheMemory' = cacheMemory \ {dialed[s]} /\ cacheFile' = cacheFile \ {dialed[s]}
    /\ \/ Writes(dialed[s], "NACK") /\ Unregistered(dialed[s])
       \/ CannotWrite(dialed[s]) /\ UNCHANGED <<answer, session>>
    /\ At(s, "done")
    /\ UNCHANGED <<asking, prepared, tries, pendingStorage, finalityAcks,
                   blackListed, sessionFaults>>

(* The asked node dies and starts again: its streams, sessions, cache in memory
   and the commands, which are all root commands, are gone. *)
Restart ==
    /\ SessionFault
    /\ session' = [o \in Ops |-> NoStream]
    /\ cacheMemory' = {} /\ blackListed' = FALSE
    /\ place' = [s \in Streams |-> IF place[s] \in Over THEN place[s] ELSE "lost"]
    /\ UNCHANGED <<asking, answer, prepared, tries, cacheFile, pendingStorage, finalityAcks>>

-----------------------------------------------------------------------------
Handle(s) ==
    \/ CacheToFile(s) \/ ValidateReceivedData(s) \/ CacheDataset(s) \/ SignMessage(s)
    \/ GetAssertion(s) \/ CheckExists(s) \/ SaveFinalityAck(s)
    \/ SendResponse(s) \/ RemoveSession(s) \/ PrepareFails(s) \/ HandleError(s)

Accept(s) == Refuse(s) \/ HandleRequest(s) \/ Unread(s)

Returns(s) == \E a \in {"ACK", "NACK"} : MessageReturns(s, a)

SessionNext ==
    \/ \E o \in Ops : SendMessage(o) \/ DialFails(o)
    \/ \E s \in 1 .. Len(dialed) : Returns(s) \/ Accept(s) \/ Handle(s)
    \/ Restart

SessionSpec == SessionInit /\ [][SessionNext]_sessionVars

(* A stream is read and a command runs; a request times out. *)
HandlerStep(s) == s \in 1 .. Len(dialed) /\ (Accept(s) \/ Handle(s))
ReturnStep(s) == s \in 1 .. Len(dialed) /\ Returns(s)

-----------------------------------------------------------------------------
(* Properties *)

(* Types of the sessions, streams and caches of libp2p-service.js and
   operation-id-service.js. *)
SessionTypeOK ==
    /\ dialed \in Seq(Ops) /\ Len(dialed) <= MaxStreams
    /\ senderSession \in [Ops -> Streams \cup {NoStream}]
    /\ session \in [Ops -> Streams \cup {NoStream}]
    /\ got \in [Streams -> {"none", "ACK", "NACK"}]
    /\ answer \in [Streams -> {"none", "ACK", "NACK"}]
    /\ prepared \in [Streams -> {"none", "ACK", "NACK"}]
    /\ place \in [Streams -> Places]
    /\ tries \in [Streams -> 1 .. HandlerRetries]
    /\ cut \subseteq Streams
    /\ cacheMemory \subseteq Ops /\ cacheFile \subseteq Ops
    /\ pendingStorage \subseteq StoreOps /\ finalityAcks \subseteq FinalityOps
    /\ blackListed \in BOOLEAN /\ sessionFaults \in 0 .. MaxSessionFaults

(* A session of the asking node belongs to a request that is still waiting,
   although requests of one operation remove each other's sessions
   (sendProtocolMessage, protocol-message-command.js:66). *)
NoStaleSession ==
    \A o \in Ops : senderSession[o] # NoStream
        => \E s \in Waiting : dialed[s] = o

Answered(s) ==
    \/ answer[s] # "none" \/ s \in cut
    \/ \E t \in 1 .. Len(dialed) : t # s /\ dialed[t] = dialed[s]

(* Without exceptions and refusals, a publish, get or ask request whose handling
   is over was answered, unless it was given up before or its session was taken
   by a later request of the operation (updateSessionStream,
   removeCachedSession). *)
HandledIsAnswered ==
    \A s \in 1 .. Len(dialed) :
        place[s] = "done" /\ sessionFaults = 0 /\ dialed[s] \notin FinalityOps
            => Answered(s)

(* What publish-finality-save-ack-command.js:44 prepares: a finality request is
   answered with "Acknowledged storing of ...".  It never is. *)
FinalityIsAnswered ==
    \A s \in 1 .. Len(dialed) :
        place[s] = "done" /\ sessionFaults = 0 /\ dialed[s] \in FinalityOps
            => Answered(s)

(* Once the handling of a publish, get or ask is over its session is removed,
   except when the asking node had given up or something was thrown: then
   sendMessageResponse throws for the second time and removeCachedSession
   (handle-protocol-message-command.js:86 and 170) is not reached. *)
SessionRemoved ==
    \A o \in Ops \ FinalityOps :
        (\A s \in 1 .. Len(dialed) : dialed[s] = o => place[s] \in Over)
            => \/ session[o] = NoStream
               \/ \E s \in cut : dialed[s] = o
               \/ sessionFaults > 0

(* The exchange implements a request with one answer at most, of which a
   positive one is true: the dataset is in the pending storage, the
   acknowledgement is in the table, the assertion is held. *)
Requested == [s \in Streams |-> IF s <= Len(dialed) THEN dialed[s] ELSE "none"]
Abstract == INSTANCE RequestAnswer WITH
    Requests <- Streams, Subjects <- Ops,
    subject <- Requested, fulfilled <- pendingStorage \cup finalityAcks \cup Held, reply <- got
ImplementsAnswer == Abstract!AnswerSpec

(* Every request returns, with an answer or a NACK of the network module. *)
EveryRequestReturns ==
    \A s \in Streams : (s \in Waiting) ~> (got[s] # "none")

(* Every request that arrives is dealt with to the end, also over a restart. *)
EveryHandlerEnds ==
    \A s \in Streams : (place[s] = "wire") ~> (place[s] \in Over)

(* A session lives as long as its request, and answers it. *)
SessionInv == NoStaleSession /\ HandledIsAnswered /\ SessionRemoved
=============================================================================
