--------------------------------- MODULE Chat ---------------------------------
(***************************************************************************)
(* ChatService (src/src/modules/chat/chat.service.ts): rooms and messages  *)
(* in PostgreSQL, the unread counters unread:<user> and the answers stored *)
(* under idempotency:chat:<key> in Redis.  No transaction ties the calls   *)
(* of a request: every await that reads or writes shared state is a step.  *)
(* Left out: contents, lastMessageAt, and the events published for         *)
(* sockets, which nobody reads back.                                       *)
(***************************************************************************)
EXTENDS Slots, Integers, FiniteSets

CONSTANTS
    Users,
    Talks,      \* who sends to whom: pairs of users, one with oneself allowed
    Topics,     \* the vehicles a room can be about; or it is about nothing (None)
    Keys,       \* idempotency keys; a request without one has None
    Rooms,      \* ids of chat_rooms: a bound on the rooms ever created
    Messages    \* ids of chat_messages: the same

Room == [pair : {{u, v} : u \in Users, v \in Users}, about : Topics \cup {None}]

Message == [room : Rooms, from : Users, key : Keys \cup {None}, read : BOOLEAN]

ASSUME ChatAssumption ==
    /\ None \notin Users \cup Topics \cup Keys \cup Rooms \cup Messages \cup Room \cup Message
    /\ Talks \subseteq Users \X Users
    /\ IsFiniteSet(Messages) /\ IsFiniteSet(Requests)

VARIABLES
    room,       \* chat_rooms: the pair of users and what the room is about
    message,    \* chat_messages: room, sender, key of the request, readAt set
    unread,     \* the hash unread:<user>: a counter per room
    stored,     \* idempotency:chat:<key>
    chatCall,       \* what each request in flight is doing
    chatDisturbed   \* history: keys and rooms that met a failure or an overlap

chatVars == <<room, message, unread, stored, chatCall, chatDisturbed>>

-----------------------------------------------------------------------------
ChatPc == {"idle", "findRoom", "createRoom", "createMessage", "count", "remember",
           "clearUnread"}

ChatIdle == [pc |-> "idle", user |-> None, other |-> None, about |-> None, key |-> None,
             room |-> None, message |-> None]

ChatBecome(r, c) == chatCall' = [chatCall EXCEPT ![r] = c]

Goto(r, pc) == ChatBecome(r, [chatCall[r] EXCEPT !.pc = pc])

ChatEnd(r) == ChatBecome(r, ChatIdle)

Free(rows) == {i \in DOMAIN rows : rows[i] = None}

ChatDisturb(S) == chatDisturbed' = chatDisturbed \cup (S \ {None})

At(pc) == {r \in Requests : chatCall[r].pc = pc}

ChatInit ==
    /\ room = [i \in Rooms |-> None]
    /\ message = [i \in Messages |-> None]
    /\ unread = [u \in Users |-> [i \in Rooms |-> 0]]
    /\ stored = [k \in Keys |-> None]
    /\ chatCall = [r \in Requests |-> ChatIdle]
    /\ chatDisturbed = {}

-----------------------------------------------------------------------------
(* sendMessage *)

(* A request of the same key in flight has no answer yet: they overlap.    *)
BeginSend(r, u, v, a, k) ==
    /\ chatCall[r] = ChatIdle
    /\ ChatBecome(r, [ChatIdle EXCEPT !.pc = "findRoom", !.user = u, !.other = v,
                                     !.about = a, !.key = k])
    /\ ChatDisturb({chatCall[q].key : q \in Requests} \cap {k})
    /\ UNCHANGED <<room, message, unread, stored>>

(* A request whose key has an answer gets that answer and changes nothing. *)
Send(r, u, v, a, k) ==
    /\ k # None => stored[k] = None
    /\ BeginSend(r, u, v, a, k)

(* The rooms findFirst may return for request r.                           *)
Matching(r) ==
    {i \in Rooms :
        room[i] = [pair |-> {chatCall[r].user, chatCall[r].other}, about |-> chatCall[r].about]}

(* From here on the room stands for what it is about.                      *)
Found(r, i) ==
    ChatBecome(r, [chatCall[r] EXCEPT !.pc = "createMessage", !.room = i, !.about = None])

FindRoom(r) ==
    /\ chatCall[r].pc = "findRoom"
    /\ IF Matching(r) = {}
       THEN Goto(r, "createRoom")
       ELSE \E i \in Matching(r) : Found(r, i)
    /\ UNCHANGED <<room, message, unread, stored, chatDisturbed>>

InsertRoom(r) ==
    /\ chatCall[r].pc = "createRoom"
    /\ \E i \in Free(room) :
          /\ room' = [room EXCEPT ![i] = [pair |-> {chatCall[r].user, chatCall[r].other},
                                          about |-> chatCall[r].about]]
          /\ Found(r, i)
    /\ UNCHANGED <<message, unread, stored, chatDisturbed>>

(* The unique constraint refuses a second room about the same vehicle, and *)
(* the request ends with its error (ChatFail); NULLs are distinct, so it   *)
(* not refuse a second room about nothing.                                 *)
CreateRoom(r) ==
    /\ chatCall[r].about # None => Matching(r) = {}
    /\ InsertRoom(r)

(* A reader of the room who has marked it but not yet cleared the counter  *)
(* will clear the count of this message too.                               *)
CreateMessage(r) ==
    LET i == chatCall[r].room IN
    /\ chatCall[r].pc = "createMessage"
    /\ \E m \in Free(message) :
          /\ message' = [message EXCEPT ![m] = [room |-> i, from |-> chatCall[r].user,
                                                key |-> chatCall[r].key, read |-> FALSE]]
          /\ ChatBecome(r, [chatCall[r] EXCEPT !.pc = "count", !.message = m])
    /\ ChatDisturb({i} \cap {chatCall[q].room : q \in
                             {p \in At("clearUnread") : chatCall[p].user = chatCall[r].other}})
    /\ UNCHANGED <<room, unread, stored>>

(* After the counter comes the answer to remember, when there is a key.    *)
Counted(r) == IF chatCall[r].key = None THEN ChatEnd(r) ELSE Goto(r, "remember")

(* Slip: an increment that seems to have failed is repeated.               *)
CountUnreadTwice(r) ==
    /\ chatCall[r].pc = "count"
    /\ unread' = [unread EXCEPT ![chatCall[r].other][chatCall[r].room] = @ + 2]
    /\ Counted(r)
    /\ UNCHANGED <<room, message, stored, chatDisturbed>>

(* HINCRBY, and its failure, which is logged and passed over.              *)
CountUnread(r) ==
    LET i == chatCall[r].room IN
    /\ chatCall[r].pc = "count"
    /\ \/ /\ unread' = [unread EXCEPT ![chatCall[r].other][i] = @ + 1]
          /\ UNCHANGED chatDisturbed
       \/ /\ ChatDisturb({i})
          /\ UNCHANGED unread
    /\ Counted(r)
    /\ UNCHANGED <<room, message, stored>>

(* SET, and its failure, which is passed over.                             *)
Remember(r) ==
    LET k == chatCall[r].key IN
    /\ chatCall[r].pc = "remember"
    /\ \/ /\ stored' = [stored EXCEPT ![k] = chatCall[r].message]
          /\ UNCHANGED chatDisturbed
       \/ /\ ChatDisturb({k})
          /\ UNCHANGED stored
    /\ ChatEnd(r)
    /\ UNCHANGED <<room, message, unread>>

-----------------------------------------------------------------------------
(* markAsRead: one UPDATE of the other's messages, then HDEL.              *)

MarkAsRead(r, u, i) ==
    /\ chatCall[r] = ChatIdle
    /\ room[i] # None
    /\ u \in room[i].pair
    /\ message' = [m \in Messages |->
          IF message[m] # None /\ message[m].room = i /\ message[m].from # u
          THEN [message[m] EXCEPT !.read = TRUE]
          ELSE message[m]]
    /\ ChatBecome(r, [ChatIdle EXCEPT !.pc = "clearUnread", !.user = u, !.room = i])
    /\ ChatDisturb({i} \cap {chatCall[q].room : q \in {p \in At("count") : chatCall[p].other = u}})
    /\ UNCHANGED <<room, unread, stored>>

(* Slip: the counter of the room is cleared for its whole pair.            *)
ClearUnreadOfPair(r) ==
    LET i == chatCall[r].room IN
    /\ chatCall[r].pc = "clearUnread"
    /\ unread' = [u \in Users |->
                     [unread[u] EXCEPT ![i] = IF u \in room[i].pair THEN 0 ELSE @]]
    /\ ChatEnd(r)
    /\ UNCHANGED <<room, message, stored, chatDisturbed>>

ClearUnread(r) ==
    /\ chatCall[r].pc = "clearUnread"
    /\ unread' = [unread EXCEPT ![chatCall[r].user][chatCall[r].room] = 0]
    /\ ChatEnd(r)
    /\ UNCHANGED <<room, message, stored, chatDisturbed>>

-----------------------------------------------------------------------------
(* A call throws (a constraint is violated, a service is down) or the      *)
(* instance crashes: what was done stays done.  A message is then without  *)
(* its count or without its answer.                                        *)
ChatFail(r) ==
    /\ chatCall[r] # ChatIdle
    /\ ChatEnd(r)
    /\ ChatDisturb({IF chatCall[r].message # None THEN chatCall[r].key ELSE None,
                    IF chatCall[r].pc \in {"count", "clearUnread"} THEN chatCall[r].room
                    ELSE None})
    /\ UNCHANGED <<room, message, unread, stored>>

(* The answer is kept for 24 hours.                                        *)
AnswerExpires(k) ==
    /\ stored[k] # None
    /\ stored' = [stored EXCEPT ![k] = None]
    /\ ChatDisturb({k})
    /\ UNCHANGED <<room, message, unread, chatCall>>

ChatArrive(r) ==
    \/ \E t \in Talks, a \in Topics \cup {None}, k \in Keys \cup {None} :
          Send(r, t[1], t[2], a, k)
    \/ \E u \in Users, i \in Rooms : MarkAsRead(r, u, i)

ChatProceed(r) ==
    \/ FindRoom(r) \/ CreateRoom(r) \/ CreateMessage(r) \/ CountUnread(r) \/ Remember(r)
    \/ ClearUnread(r)

ChatNext ==
    \/ \E r \in Requests : ChatArrive(r) \/ ChatProceed(r) \/ ChatFail(r)
    \/ \E k \in Keys : AnswerExpires(k)

ChatSpec == ChatInit /\ [][ChatNext]_chatVars

-----------------------------------------------------------------------------
ChatCallRow == [pc : ChatPc, user : Users \cup {None}, other : Users \cup {None},
                about : Topics \cup {None}, key : Keys \cup {None}, room : Rooms \cup {None},
            message : Messages \cup {None}]

ChatTypeOK ==
    /\ room \in [Rooms -> Room \cup {None}]
    /\ message \in [Messages -> Message \cup {None}]
    /\ unread \in [Users -> [Rooms -> 0 .. Cardinality(Messages)]]
    /\ stored \in [Keys -> Messages \cup {None}]
    /\ chatCall \in [Requests -> ChatCallRow]
    /\ chatDisturbed \subseteq Keys \cup Rooms

(* A vehicle is talked about by two users in one room, although two first  *)
(* messages may both find none (chat.service.ts:170-186).                  *)
OneRoomPerVehicle ==
    \A i, j \in Rooms :
        (room[i] # None /\ room[i] = room[j] /\ room[i].about # None) => i = j

MessagesOf(k) == {m \in Messages : message[m] # None /\ message[m].key = k}

(* A key has a second message only if its requests overlapped, an answer   *)
(* was lost, or a day went by: one retry after another, however many and   *)
(* by whomever, is answered with the first message                         *)
(* (chat.service.ts:16-21, 63-68).                                         *)
OnlyDisturbedKeysRepeat ==
    \A k \in Keys : Cardinality(MessagesOf(k)) > 1 => k \in chatDisturbed

(* What u has to read in room i, and what is about to be counted there.    *)
ToRead(u, i) ==
    {m \in Messages : /\ message[m] # None
                      /\ message[m].room = i /\ message[m].from # u /\ ~message[m].read}

ToCount(u, i) == {r \in At("count") : chatCall[r].room = i /\ chatCall[r].other = u}

(* The counter in Redis and the rows agree, up to messages that are being  *)
(* counted, as long as no reading overlapped a sending to the reader in    *)
(* the room and none failed (chat.service.ts:45, :139-149); nothing else   *)
(* disturbs it, sendings that overlap or the partner's readings included.  *)
CountersAreExact ==
    \A u \in Users, i \in Rooms :
        (/\ room[i] # None /\ i \notin chatDisturbed
         /\ u \in room[i].pair /\ room[i].pair # {u}
         /\ \A r \in At("clearUnread") : chatCall[r].room = i => chatCall[r].user # u)
        => unread[u][i] + Cardinality(ToCount(u, i)) = Cardinality(ToRead(u, i))

-----------------------------------------------------------------------------
(* Why the invariants hold.                                                *)

(* What a request carries from step to step.                               *)
Justified(c) ==
    /\ c.pc \in {"createMessage", "count"} =>
          /\ c.user \in Users /\ c.other \in Users /\ c.room \in Rooms
          /\ room[c.room] # None /\ room[c.room].pair = {c.user, c.other}
    /\ c.pc \in {"findRoom", "createRoom"} => c.user \in Users /\ c.other \in Users
    /\ c.pc = "clearUnread" =>
          /\ c.user \in Users /\ c.room \in Rooms
          /\ room[c.room] # None /\ c.user \in room[c.room].pair
    /\ c.pc \in {"count", "remember"} <=> c.message # None
    /\ c.pc \in {"idle", "clearUnread"} => c.key = None
    /\ c.pc = "remember" => c.key # None

CallsAreJustified == \A r \in Requests : Justified(chatCall[r])

(* A message is in a room of its sender.                                   *)
MessagesFit ==
    \A m \in Messages : message[m] # None =>
        room[message[m].room] # None /\ message[m].from \in room[message[m].room].pair

MessagesIn(i) == {m \in Messages : message[m] # None /\ message[m].room = i}

(* A message is counted once at most.                                      *)
CountsAreBounded ==
    \A u \in Users, i \in Rooms :
        unread[u][i] + Cardinality(ToCount(u, i)) <= Cardinality(MessagesIn(i))

(* Who is about to clear a counter has read what there is.                 *)
ClearingIsClean ==
    \A r \in At("clearUnread") : chatCall[r].room \notin chatDisturbed =>
        /\ ToRead(chatCall[r].user, chatCall[r].room) = {}
        /\ ToCount(chatCall[r].user, chatCall[r].room) = {}

(* One request at a time carries an undisturbed key, and it has no message *)
(* yet unless that request made it or its answer is stored.                *)
CarriersOf(k) == {r \in Requests : chatCall[r].key = k}

KeysAreAlone ==
    \A k \in Keys \ chatDisturbed :
        /\ \A r, q \in CarriersOf(k) : r = q
        /\ \A r \in CarriersOf(k) : chatCall[r].message = None => MessagesOf(k) = {}
        /\ MessagesOf(k) # {} => stored[k] # None \/ CarriersOf(k) # {}

(* The inductive invariant.                                                *)
ChatInv ==
    /\ ChatTypeOK
    /\ CallsAreJustified
    /\ MessagesFit
    /\ OneRoomPerVehicle
    /\ CountsAreBounded
    /\ ClearingIsClean
    /\ CountersAreExact
    /\ KeysAreAlone
    /\ OnlyDisturbedKeysRepeat
=============================================================================
