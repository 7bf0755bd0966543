------------------------------ MODULE ChatProofs ------------------------------
(***************************************************************************)
(* Theorems about ChatService, for any users, rooms, messages, keys and    *)
(* requests: one room for two users and a vehicle, one message for a key,  *)
(* and unread counters that agree with the rows.  The sets whose sizes are *)
(* compared gain or lose one element per step, so no induction over them   *)
(* is needed.                                                              *)
(***************************************************************************)
EXTENDS Chat, FiniteSetTheorems, TLAPS

-----------------------------------------------------------------------------
(* What a step does to the calls.                                          *)

LEMMA IdleFacts ==
    /\ ChatIdle \in ChatCallRow
    /\ ChatIdle.pc = "idle" /\ ChatIdle.user = None /\ ChatIdle.other = None /\ ChatIdle.about = None
    /\ ChatIdle.key = None /\ ChatIdle.room = None /\ ChatIdle.message = None
BY DEF ChatIdle, ChatCallRow, ChatPc

LEMMA BecomeFacts ==
    ASSUME chatCall \in [Requests -> ChatCallRow], NEW r \in Requests,
           NEW c \in ChatCallRow, ChatBecome(r, c)
    PROVE  /\ chatCall' \in [Requests -> ChatCallRow]
           /\ chatCall'[r] = c
           /\ \A q \in Requests \ {r} : chatCall'[q] = chatCall[q]
BY DEF ChatBecome

LEMMA GotoFacts ==
    ASSUME chatCall \in [Requests -> ChatCallRow], NEW r \in Requests, NEW pc \in ChatPc, Goto(r, pc)
    PROVE  /\ chatCall' \in [Requests -> ChatCallRow]
           /\ \A q \in Requests \ {r} : chatCall'[q] = chatCall[q]
           /\ chatCall'[r].pc = pc /\ chatCall'[r].user = chatCall[r].user
           /\ chatCall'[r].other = chatCall[r].other /\ chatCall'[r].about = chatCall[r].about
           /\ chatCall'[r].key = chatCall[r].key /\ chatCall'[r].room = chatCall[r].room
           /\ chatCall'[r].message = chatCall[r].message
<1>1. PICK c : c = [chatCall[r] EXCEPT !.pc = pc]
  OBVIOUS
<1>2. /\ c \in ChatCallRow
      /\ c.pc = pc /\ c.user = chatCall[r].user /\ c.other = chatCall[r].other
      /\ c.about = chatCall[r].about /\ c.key = chatCall[r].key /\ c.room = chatCall[r].room
      /\ c.message = chatCall[r].message
  BY <1>1 DEF ChatCallRow
<1>3. ChatBecome(r, c)
  BY <1>1 DEF Goto
<1> QED  BY <1>2, <1>3, BecomeFacts

LEMMA EndFacts ==
    ASSUME chatCall \in [Requests -> ChatCallRow], NEW r \in Requests, ChatEnd(r)
    PROVE  /\ chatCall' \in [Requests -> ChatCallRow]
           /\ chatCall'[r] = ChatIdle
           /\ \A q \in Requests \ {r} : chatCall'[q] = chatCall[q]
BY IdleFacts DEF ChatEnd, ChatBecome

(* The request has its room.                                               *)
LEMMA FoundFacts ==
    ASSUME chatCall \in [Requests -> ChatCallRow], NEW r \in Requests, NEW i \in Rooms, Found(r, i)
    PROVE  /\ chatCall' \in [Requests -> ChatCallRow]
           /\ \A q \in Requests \ {r} : chatCall'[q] = chatCall[q]
           /\ chatCall'[r].pc = "createMessage" /\ chatCall'[r].user = chatCall[r].user
           /\ chatCall'[r].other = chatCall[r].other /\ chatCall'[r].key = chatCall[r].key
           /\ chatCall'[r].room = i /\ chatCall'[r].message = chatCall[r].message
<1>1. PICK c : c = [chatCall[r] EXCEPT !.pc = "createMessage", !.room = i, !.about = None]
  OBVIOUS
<1>2. /\ c \in ChatCallRow
      /\ c.pc = "createMessage" /\ c.user = chatCall[r].user /\ c.other = chatCall[r].other
      /\ c.key = chatCall[r].key /\ c.room = i /\ c.message = chatCall[r].message
  BY <1>1 DEF ChatCallRow, ChatPc
<1>3. ChatBecome(r, c)
  BY <1>1 DEF Found
<1> QED  BY <1>2, <1>3, BecomeFacts

(* Rooms are never changed, so what the others rely on stays.              *)
LEMMA JustifiedStep ==
    ASSUME ChatTypeOK, CallsAreJustified, NEW r \in Requests,
           \A q \in Requests \ {r} : chatCall'[q] = chatCall[q],
           \A i \in Rooms : room[i] # None => room'[i] = room[i],
           Justified(chatCall[r])'
    PROVE  CallsAreJustified'
<1> SUFFICES ASSUME NEW q \in Requests PROVE Justified(chatCall[q])'
  BY DEF CallsAreJustified
<1>1. CASE q = r
  BY <1>1
<1>2. CASE q # r
  <2>1. PICK c \in ChatCallRow : c = chatCall[q] /\ c = chatCall'[q] /\ Justified(c)
    BY <1>2 DEF ChatTypeOK, CallsAreJustified
  <2>2. Justified(c)'
    BY <2>1 DEF Justified
  <2> QED  BY <2>1, <2>2
<1> QED  BY <1>1, <1>2

LEMMA IdleIsJustified == ASSUME NEW r \in Requests, chatCall'[r] = ChatIdle PROVE Justified(chatCall[r])'
BY IdleFacts DEF Justified

-----------------------------------------------------------------------------
(* Sets that are compared by their sizes.                                  *)

LEMMA FiniteSubsets ==
    ASSUME NEW S, S \subseteq Messages \/ S \subseteq Requests
    PROVE  IsFiniteSet(S) /\ Cardinality(S) \in Nat
BY ChatAssumption, FS_Subset, FS_CardinalityType

LEMMA BoundedByMessages ==
    ASSUME NEW S \in SUBSET Messages
    PROVE  Cardinality(S) <= Cardinality(Messages)
BY ChatAssumption, FS_Subset

LEMMA SizesOfCounts ==
    ASSUME NEW u \in Users, NEW i \in Rooms
    PROVE  /\ Cardinality(ToCount(u, i)) \in Nat
           /\ Cardinality(ToRead(u, i)) \in Nat
           /\ Cardinality(MessagesIn(i)) \in Nat
           /\ Cardinality(MessagesIn(i)) <= Cardinality(Messages)
           /\ Cardinality(Messages) \in Nat
<1>1. ToCount(u, i) \subseteq Requests /\ ToRead(u, i) \in SUBSET Messages
      /\ MessagesIn(i) \in SUBSET Messages
  BY DEF ToCount, ToRead, MessagesIn, At
<1> QED  BY <1>1, FiniteSubsets, BoundedByMessages

LEMMA OneMore ==
    ASSUME NEW S, S \subseteq Messages \/ S \subseteq Requests, NEW x, x \notin S
    PROVE  Cardinality(S \cup {x}) = Cardinality(S) + 1
BY FiniteSubsets, FS_AddElement

LEMMA OneLess ==
    ASSUME NEW S, S \subseteq Messages \/ S \subseteq Requests, NEW x, x \in S
    PROVE  Cardinality(S \ {x}) = Cardinality(S) - 1
BY FiniteSubsets, FS_RemoveElement

-----------------------------------------------------------------------------
(* Steps that leave the counters alone, but may end a request on its way   *)
(* to one or make a room.                                                  *)

(* A room that is not there has no messages and nothing to count.          *)
LEMMA NewRoomIsEmpty ==
    ASSUME ChatTypeOK, MessagesFit, CountsAreBounded,
           NEW u \in Users, NEW i \in Rooms, room[i] = None
    PROVE  /\ unread[u][i] = 0
           /\ Cardinality(ToCount(u, i)) = 0
           /\ Cardinality(ToRead(u, i)) = 0
<1>1. MessagesIn(i) = {} /\ ToRead(u, i) = {}
  BY DEF MessagesFit, MessagesIn, ToRead
<1>2. Cardinality(MessagesIn(i)) = 0 /\ Cardinality(ToRead(u, i)) = 0
  BY <1>1, FS_EmptySet
<1>3. unread[u][i] \in Nat /\ unread[u][i] + Cardinality(ToCount(u, i)) <= 0
  BY <1>2, SizesOfCounts DEF ChatTypeOK, CountsAreBounded
<1> QED  BY <1>2, <1>3, SizesOfCounts

LEMMA CountersKept ==
    ASSUME ChatInv, ChatTypeOK',
           UNCHANGED <<message, unread>>, chatDisturbed \subseteq chatDisturbed',
           \A i \in Rooms : room[i] # None => room'[i] = room[i],
           \A u \in Users, i \in Rooms :
              /\ ToCount(u, i)' \subseteq ToCount(u, i)
              /\ i \notin chatDisturbed' => ToCount(u, i)' = ToCount(u, i),
           \A q \in Requests :
              /\ chatCall'[q].pc = "clearUnread" => chatCall'[q] = chatCall[q]
              /\ chatCall[q].pc = "clearUnread" /\ chatCall[q].room \notin chatDisturbed' => chatCall'[q] = chatCall[q]
    PROVE  CountsAreBounded' /\ ClearingIsClean' /\ CountersAreExact'
<1> USE DEF ChatInv
<1>1. \A u \in Users, i \in Rooms :
         /\ ToRead(u, i)' = ToRead(u, i)
         /\ MessagesIn(i)' = MessagesIn(i)
  BY DEF ToRead, MessagesIn
<1>2. CountsAreBounded'
  <2> SUFFICES ASSUME NEW u \in Users, NEW i \in Rooms
               PROVE  unread'[u][i] + Cardinality(ToCount(u, i)') <= Cardinality(MessagesIn(i)')
    BY DEF CountsAreBounded
  <2>0. ToCount(u, i) \subseteq Requests
    BY DEF ToCount, At
  <2>1. PICK S, T : /\ S = ToCount(u, i)' /\ T = ToCount(u, i) /\ S \subseteq T
                    /\ T \subseteq Requests
    BY <2>0
  <2>2. Cardinality(S) \in Nat /\ Cardinality(T) \in Nat /\ Cardinality(S) <= Cardinality(T)
    BY <2>1, FiniteSubsets, FS_Subset
  <2>3. unread[u][i] \in Nat /\ unread[u][i] + Cardinality(T) <= Cardinality(MessagesIn(i))
    BY <2>1 DEF ChatTypeOK, CountsAreBounded
  <2> QED  BY <1>1, <2>1, <2>2, <2>3, SizesOfCounts
<1>3. ClearingIsClean'
  <2> SUFFICES ASSUME NEW q \in Requests, chatCall'[q].pc = "clearUnread",
                      chatCall'[q].room \notin chatDisturbed'
               PROVE  /\ ToRead(chatCall[q].user, chatCall[q].room)' = {}
                      /\ ToCount(chatCall[q].user, chatCall[q].room)' = {}
    BY DEF ClearingIsClean, At
  <2>1. PICK u \in Users, i \in Rooms :
           /\ u = chatCall[q].user /\ i = chatCall[q].room /\ u = chatCall'[q].user /\ i = chatCall'[q].room
    BY DEF CallsAreJustified, Justified
  <2>2. ToRead(u, i) = {} /\ ToCount(u, i) = {}
    BY <2>1 DEF ClearingIsClean, At
  <2>3. ToRead(u, i)' = {} /\ ToCount(u, i)' = {}
    BY <1>1, <2>1, <2>2
  <2> QED  BY <2>1, <2>3
<1>4. CountersAreExact'
  <2> SUFFICES ASSUME NEW u \in Users, NEW i \in Rooms,
                      room'[i] # None, i \notin chatDisturbed',
                      u \in room'[i].pair, room'[i].pair # {u},
                      \A r \in At("clearUnread")' : chatCall'[r].room = i => chatCall'[r].user # u
               PROVE  unread'[u][i] + Cardinality(ToCount(u, i)') = Cardinality(ToRead(u, i)')
    BY DEF CountersAreExact
  <2>1. /\ unread'[u][i] = unread[u][i] /\ ToCount(u, i)' = ToCount(u, i)
        /\ ToRead(u, i)' = ToRead(u, i)
    BY <1>1
  <2>2. \A r \in At("clearUnread") : chatCall[r].room = i => chatCall[r].user # u
    BY DEF At
  <2>3. unread[u][i] + Cardinality(ToCount(u, i)) = Cardinality(ToRead(u, i))
    <3>1. CASE room[i] = None
      BY <3>1, NewRoomIsEmpty
    <3>2. CASE room[i] # None
      BY <3>2, <2>2 DEF CountersAreExact
    <3> QED  BY <3>1, <3>2
  <2> QED  BY <2>1, <2>3
<1> QED  BY <1>2, <1>3, <1>4

(* Such is a step of one request that is not on its way to a counter.      *)
LEMMA QuietCounters ==
    ASSUME ChatInv, ChatTypeOK', NEW r \in Requests,
           UNCHANGED <<message, unread>>, chatDisturbed \subseteq chatDisturbed',
           \A i \in Rooms : room[i] # None => room'[i] = room[i],
           \A q \in Requests \ {r} : chatCall'[q] = chatCall[q],
           chatCall'[r].pc \notin {"count", "clearUnread"},
           chatCall[r].pc \in {"count", "clearUnread"} => chatCall[r].room \in chatDisturbed'
    PROVE  CountsAreBounded' /\ ClearingIsClean' /\ CountersAreExact'
<1>1. ASSUME NEW u \in Users, NEW i \in Rooms
      PROVE  /\ ToCount(u, i)' \subseteq ToCount(u, i)
             /\ i \notin chatDisturbed' => ToCount(u, i)' = ToCount(u, i)
  BY DEF ToCount, At
<1>2. ASSUME NEW q \in Requests
      PROVE  /\ chatCall'[q].pc = "clearUnread" => chatCall'[q] = chatCall[q]
             /\ chatCall[q].pc = "clearUnread" /\ chatCall[q].room \notin chatDisturbed'
                  => chatCall'[q] = chatCall[q]
  OBVIOUS
<1> QED  BY <1>1, <1>2, CountersKept

-----------------------------------------------------------------------------
(* The steps that change a counter or what it counts.                      *)

(* A message for o is made: it is unread and about to be counted.          *)
LEMMA MadeIsToCount ==
    ASSUME ChatInv, ChatTypeOK', NEW r \in Requests, NEW s \in Users, NEW o \in Users,
           NEW i \in Rooms, NEW m \in Messages,
           room[i] # None, room[i].pair = {s, o}, UNCHANGED <<room, unread>>,
           message[m] = None, message'[m] # None,
           message'[m].room = i, message'[m].from = s, ~message'[m].read,
           \A n \in Messages \ {m} : message'[n] = message[n],
           chatCall[r].pc = "createMessage", chatCall'[r].pc = "count",
           chatCall'[r].room = i, chatCall'[r].other = o,
           \A q \in Requests \ {r} : chatCall'[q] = chatCall[q],
           chatDisturbed \subseteq chatDisturbed',
           \A q \in At("clearUnread") :
              chatCall[q].room = i /\ chatCall[q].user = o => i \in chatDisturbed'
    PROVE  CountsAreBounded' /\ ClearingIsClean' /\ CountersAreExact'
<1> USE DEF ChatInv
<1>1. ASSUME NEW u \in Users, NEW j \in Rooms
      PROVE  /\ ~(u = o /\ j = i) => ToCount(u, j)' = ToCount(u, j)
             /\ u = o /\ j = i => /\ ToCount(u, j)' = ToCount(u, j) \cup {r}
                                  /\ Cardinality(ToCount(u, j)') = Cardinality(ToCount(u, j)) + 1
  <2>1. ~(u = o /\ j = i) => ToCount(u, j)' = ToCount(u, j)
    BY DEF ToCount, At
  <2>2. u = o /\ j = i => ToCount(u, j)' = ToCount(u, j) \cup {r}
    BY DEF ToCount, At
  <2>3. r \notin ToCount(u, j) /\ ToCount(u, j) \subseteq Requests
    BY DEF ToCount, At
  <2> QED  BY <2>1, <2>2, <2>3, OneMore
<1>2. ASSUME NEW j \in Rooms
      PROVE  /\ j # i => MessagesIn(j)' = MessagesIn(j)
             /\ j = i => Cardinality(MessagesIn(j)') = Cardinality(MessagesIn(j)) + 1
  <2>1. j # i => MessagesIn(j)' = MessagesIn(j)
    BY DEF MessagesIn
  <2>2. j = i => MessagesIn(j)' = MessagesIn(j) \cup {m}
    BY DEF MessagesIn
  <2>3. m \notin MessagesIn(j) /\ MessagesIn(j) \subseteq Messages
    BY DEF MessagesIn
  <2> QED  BY <2>1, <2>2, <2>3, OneMore
<1>3. ASSUME NEW u \in Users, NEW j \in Rooms
      PROVE  /\ j # i \/ u = s => ToRead(u, j)' = ToRead(u, j)
             /\ j = i /\ u # s => Cardinality(ToRead(u, j)') = Cardinality(ToRead(u, j)) + 1
  <2>1. j # i \/ u = s => ToRead(u, j)' = ToRead(u, j)
    BY DEF ToRead
  <2>2. j = i /\ u # s => ToRead(u, j)' = ToRead(u, j) \cup {m}
    BY DEF ToRead
  <2>3. m \notin ToRead(u, j) /\ ToRead(u, j) \subseteq Messages
    BY DEF ToRead
  <2> QED  BY <2>1, <2>2, <2>3, OneMore
<1>4. CountsAreBounded'
  <2> SUFFICES ASSUME NEW u \in Users, NEW j \in Rooms
               PROVE  unread[u][j] + Cardinality(ToCount(u, j)') <= Cardinality(MessagesIn(j)')
    BY DEF CountsAreBounded
  <2>1. unread[u][j] \in Nat
    BY SizesOfCounts DEF ChatTypeOK
  <2>2. unread[u][j] + Cardinality(ToCount(u, j)) <= Cardinality(MessagesIn(j))
    BY DEF CountsAreBounded
  <2>3. j = i \/ Cardinality(ToCount(u, j)') = Cardinality(ToCount(u, j))
    BY <1>1
  <2> QED  BY <1>1, <1>2, <2>1, <2>2, <2>3, SizesOfCounts
<1>5. ClearingIsClean'
  <2> SUFFICES ASSUME NEW q \in Requests, chatCall'[q].pc = "clearUnread",
                      chatCall'[q].room \notin chatDisturbed'
               PROVE  /\ ToRead(chatCall[q].user, chatCall[q].room)' = {}
                      /\ ToCount(chatCall[q].user, chatCall[q].room)' = {}
    BY DEF ClearingIsClean, At
  <2>0. chatCall'[q] = chatCall[q]
    OBVIOUS
  <2>1. PICK u \in Users, j \in Rooms :
           /\ u = chatCall[q].user /\ j = chatCall[q].room /\ u = chatCall'[q].user /\ j = chatCall'[q].room
           /\ u \in room[j].pair
    BY <2>0 DEF CallsAreJustified, Justified
  <2>2. q \in At("clearUnread")
    BY <2>0 DEF At
  <2>3. ToRead(u, j) = {} /\ ToCount(u, j) = {} /\ (j = i => u # o)
    BY <2>0, <2>1, <2>2 DEF ClearingIsClean
  <2>4. ToRead(u, j)' = {}
    <3>1. CASE j # i \/ u = s
      BY <3>1, <1>3, <2>3
    <3>2. CASE j = i /\ u # s
      BY <3>2, <2>1, <2>3
    <3> QED  BY <3>1, <3>2
  <2>5. ToCount(u, j)' = {}
    BY <1>1, <2>3
  <2> QED  BY <2>1, <2>4, <2>5
<1>6. CountersAreExact'
  <2> SUFFICES ASSUME NEW u \in Users, NEW j \in Rooms,
                      room[j] # None, j \notin chatDisturbed', u \in room[j].pair,
                      room[j].pair # {u},
                      \A q \in At("clearUnread")' : chatCall'[q].room = j => chatCall'[q].user # u
               PROVE  unread[u][j] + Cardinality(ToCount(u, j)') = Cardinality(ToRead(u, j)')
    BY DEF CountersAreExact
  <2>1. \A q \in At("clearUnread") : chatCall[q].room = j => chatCall[q].user # u
    BY DEF At
  <2>2. unread[u][j] + Cardinality(ToCount(u, j)) = Cardinality(ToRead(u, j))
    BY <2>1 DEF CountersAreExact
  <2>3. unread[u][j] \in Nat
    BY SizesOfCounts DEF ChatTypeOK
  <2>4. CASE j # i
    BY <2>4, <2>2, <1>1, <1>3
  <2>5. CASE j = i /\ u = o
    BY <2>5, <2>2, <2>3, <1>1, <1>3, SizesOfCounts
  <2>6. CASE j = i /\ u # o
    BY <2>6, <2>2, <1>1, <1>3
  <2> QED  BY <2>4, <2>5, <2>6
<1> QED  BY <1>4, <1>5, <1>6

(* HINCRBY: the message leaves what is to be counted for the counter.      *)
LEMMA CountedOnce ==
    ASSUME ChatInv, NEW r \in Requests, NEW o \in Users, NEW i \in Rooms,
           chatCall[r].pc = "count", chatCall[r].room = i, chatCall[r].other = o,
           chatCall'[r].pc \notin {"count", "clearUnread"},
           \A q \in Requests \ {r} : chatCall'[q] = chatCall[q],
           UNCHANGED <<room, message, chatDisturbed>>,
           unread' = [unread EXCEPT ![o][i] = @ + 1]
    PROVE  /\ unread' \in [Users -> [Rooms -> 0 .. Cardinality(Messages)]]
           /\ CountsAreBounded' /\ ClearingIsClean' /\ CountersAreExact'
<1> USE DEF ChatInv
<1>1. /\ ToCount(o, i)' = ToCount(o, i) \ {r}
      /\ Cardinality(ToCount(o, i)') = Cardinality(ToCount(o, i)) - 1
      /\ Cardinality(ToCount(o, i)') \in Nat
  <2>1. ToCount(o, i)' = ToCount(o, i) \ {r}
    BY DEF ToCount, At
  <2>2. r \in ToCount(o, i) /\ ToCount(o, i) \subseteq Requests
    BY DEF ToCount, At
  <2>3. ToCount(o, i) \ {r} \subseteq Requests
    BY <2>2
  <2> QED  BY <2>1, <2>2, <2>3, OneLess, FiniteSubsets
<1>2. ASSUME NEW u \in Users, NEW j \in Rooms, ~(u = o /\ j = i)
      PROVE  ToCount(u, j)' = ToCount(u, j)
  BY <1>2 DEF ToCount, At
<1>3. unread[o][i] \in Nat /\ unread[o][i] + 1 \in 0 .. Cardinality(Messages)
  <2>1. unread[o][i] \in Nat
    BY SizesOfCounts DEF ChatTypeOK
  <2>2. unread[o][i] + Cardinality(ToCount(o, i)) <= Cardinality(MessagesIn(i))
    BY DEF CountsAreBounded
  <2> QED  BY <1>1, <2>1, <2>2, SizesOfCounts
<1>4. /\ unread' \in [Users -> [Rooms -> 0 .. Cardinality(Messages)]]
      /\ unread'[o][i] = unread[o][i] + 1
      /\ \A u \in Users, j \in Rooms : ~(u = o /\ j = i) => unread'[u][j] = unread[u][j]
  BY <1>3 DEF ChatTypeOK
<1>5. \A u \in Users, j \in Rooms :
         unread'[u][j] + Cardinality(ToCount(u, j)') = unread[u][j] + Cardinality(ToCount(u, j))
  <2> TAKE u \in Users, j \in Rooms
  <2>1. CASE u = o /\ j = i
    BY <2>1, <1>1, <1>3, <1>4, SizesOfCounts
  <2>2. CASE ~(u = o /\ j = i)
    BY <2>2, <1>2, <1>4
  <2> QED  BY <2>1, <2>2
<1>6. \A u \in Users, j \in Rooms :
         MessagesIn(j)' = MessagesIn(j) /\ ToRead(u, j)' = ToRead(u, j)
  BY DEF MessagesIn, ToRead
<1>7. At("clearUnread")' = At("clearUnread")
  BY DEF At
<1>8. \A q \in At("clearUnread") : chatCall'[q] = chatCall[q]
  BY DEF At
<1>9. CountsAreBounded'
  BY <1>5, <1>6 DEF CountsAreBounded
<1>10. ClearingIsClean'
  <2> SUFFICES ASSUME NEW q \in At("clearUnread"), chatCall[q].room \notin chatDisturbed
               PROVE  /\ ToRead(chatCall[q].user, chatCall[q].room)' = {}
                      /\ ToCount(chatCall[q].user, chatCall[q].room)' = {}
    BY <1>7, <1>8 DEF ClearingIsClean
  <2>1. PICK u \in Users, j \in Rooms :
           /\ u = chatCall[q].user /\ j = chatCall[q].room /\ u = chatCall'[q].user /\ j = chatCall'[q].room
    BY <1>8 DEF CallsAreJustified, Justified, At
  <2>2. ToRead(u, j) = {} /\ ToCount(u, j) = {}
    BY <2>1 DEF ClearingIsClean
  <2>3. ToRead(u, j)' = {} /\ ToCount(u, j)' \subseteq ToCount(u, j)
    BY <2>2, <1>1, <1>2, <1>6
  <2> QED  BY <2>1, <2>2, <2>3
<1>11. CountersAreExact'
  BY <1>5, <1>6, <1>7, <1>8 DEF CountersAreExact
<1> QED  BY <1>4, <1>9, <1>10, <1>11

(* UPDATE of what u has to read in room i; the counter is still to clear.  *)
LEMMA MarkedIsClean ==
    ASSUME ChatInv, NEW r \in Requests, NEW u \in Users, NEW i \in Rooms,
           room[i] # None, u \in room[i].pair, UNCHANGED <<room, unread>>,
           message' \in [Messages -> Message \cup {None}],
           \A m \in Messages :
              /\ message[m] = None => message'[m] = None
              /\ message[m] # None =>
                    /\ message'[m] # None /\ message'[m].room = message[m].room
                    /\ message'[m].from = message[m].from
                    /\ message'[m].read =
                          (message[m].read \/ (message[m].room = i /\ message[m].from # u)),
           chatCall[r].pc = "idle", chatCall'[r].pc = "clearUnread",
           chatCall'[r].user = u, chatCall'[r].room = i,
           \A q \in Requests \ {r} : chatCall'[q] = chatCall[q],
           chatDisturbed \subseteq chatDisturbed', ToCount(u, i) # {} => i \in chatDisturbed'
    PROVE  CountsAreBounded' /\ ClearingIsClean' /\ CountersAreExact'
<1> USE DEF ChatInv
<1>1. \A v \in Users, j \in Rooms :
         MessagesIn(j)' = MessagesIn(j) /\ ToCount(v, j)' = ToCount(v, j)
  BY DEF MessagesIn, ToCount, At
<1>2. \A v \in Users, j \in Rooms : ToRead(v, j)' \subseteq ToRead(v, j)
  BY DEF ToRead
<1>3. ToRead(u, i)' = {}
  BY DEF ToRead
<1>4. \A v \in Users, j \in Rooms :
         j # i \/ (v # u /\ v \in room[i].pair) => ToRead(v, j)' = ToRead(v, j)
  <2> SUFFICES ASSUME NEW v \in Users, NEW j \in Rooms, j # i \/ (v # u /\ v \in room[i].pair),
                      NEW m \in ToRead(v, j)
               PROVE  m \in ToRead(v, j)'
    BY <1>2
  <2>1. /\ m \in Messages /\ message[m] # None /\ message[m].room = j
        /\ message[m].from # v /\ ~message[m].read
    BY DEF ToRead
  <2>2. j = i => message[m].from = u
    BY <2>1 DEF MessagesFit, ChatTypeOK, Room
  <2>3. ~message'[m].read
    BY <2>1, <2>2
  <2> QED  BY <2>1, <2>3 DEF ToRead
<1>5. CountsAreBounded'
  BY <1>1 DEF CountsAreBounded
<1>6. ClearingIsClean'
  <2> SUFFICES ASSUME NEW q \in Requests, chatCall'[q].pc = "clearUnread",
                      chatCall'[q].room \notin chatDisturbed'
               PROVE  /\ ToRead(chatCall[q].user, chatCall[q].room)' = {}
                      /\ ToCount(chatCall[q].user, chatCall[q].room)' = {}
    BY DEF ClearingIsClean, At
  <2>1. CASE q = r
    BY <2>1, <1>1, <1>3
  <2>2. CASE q # r
    <3>1. PICK v \in Users, j \in Rooms :
             /\ v = chatCall[q].user /\ j = chatCall[q].room /\ v = chatCall'[q].user /\ j = chatCall'[q].room
      BY <2>2 DEF CallsAreJustified, Justified
    <3>2. ToRead(v, j) = {} /\ ToCount(v, j) = {}
      BY <2>2, <3>1 DEF ClearingIsClean, At
    <3>3. ToRead(v, j)' = {} /\ ToCount(v, j)' = {}
      BY <1>1, <1>2, <3>2
    <3> QED  BY <3>1, <3>3
  <2> QED  BY <2>1, <2>2
<1>7. CountersAreExact'
  <2> SUFFICES ASSUME NEW v \in Users, NEW j \in Rooms,
                      room[j] # None, j \notin chatDisturbed', v \in room[j].pair,
                      room[j].pair # {v},
                      \A q \in At("clearUnread")' : chatCall'[q].room = j => chatCall'[q].user # v
               PROVE  unread[v][j] + Cardinality(ToCount(v, j)') = Cardinality(ToRead(v, j)')
    BY DEF CountersAreExact
  <2>1. r \in At("clearUnread")' /\ (j = i => v # u)
    BY DEF At
  <2>2. \A q \in At("clearUnread") : chatCall[q].room = j => chatCall[q].user # v
    BY DEF At
  <2>3. unread[v][j] + Cardinality(ToCount(v, j)) = Cardinality(ToRead(v, j))
    BY <2>2 DEF CountersAreExact
  <2> QED  BY <1>1, <1>4, <2>1, <2>3
<1> QED  BY <1>5, <1>6, <1>7

(* HDEL: what was read had been counted, and nothing came since.           *)
LEMMA ClearedIsExact ==
    ASSUME ChatInv, NEW r \in Requests, NEW u \in Users, NEW i \in Rooms,
           chatCall[r].pc = "clearUnread", chatCall[r].user = u, chatCall[r].room = i,
           chatCall'[r].pc = "idle", \A q \in Requests \ {r} : chatCall'[q] = chatCall[q],
           UNCHANGED <<room, message, chatDisturbed>>,
           unread' = [unread EXCEPT ![u][i] = 0]
    PROVE  /\ unread' \in [Users -> [Rooms -> 0 .. Cardinality(Messages)]]
           /\ CountsAreBounded' /\ ClearingIsClean' /\ CountersAreExact'
<1> USE DEF ChatInv
<1>1. 0 \in 0 .. Cardinality(Messages)
  BY SizesOfCounts
<1>2. /\ unread' \in [Users -> [Rooms -> 0 .. Cardinality(Messages)]]
      /\ unread'[u][i] = 0
      /\ \A v \in Users, j \in Rooms : ~(v = u /\ j = i) => unread'[v][j] = unread[v][j]
  BY <1>1 DEF ChatTypeOK
<1>3. \A v \in Users, j \in Rooms :
         /\ MessagesIn(j)' = MessagesIn(j) /\ ToCount(v, j)' = ToCount(v, j)
         /\ ToRead(v, j)' = ToRead(v, j)
  BY DEF MessagesIn, ToCount, ToRead, At
<1>4. CountsAreBounded'
  <2> SUFFICES ASSUME NEW v \in Users, NEW j \in Rooms
               PROVE  unread'[v][j] + Cardinality(ToCount(v, j)) <= Cardinality(MessagesIn(j))
    BY <1>3 DEF CountsAreBounded
  <2>1. unread[v][j] \in Nat /\ unread'[v][j] \in Nat /\ unread'[v][j] <= unread[v][j]
    BY <1>2, SizesOfCounts DEF ChatTypeOK
  <2>2. unread[v][j] + Cardinality(ToCount(v, j)) <= Cardinality(MessagesIn(j))
    BY DEF CountsAreBounded
  <2> QED  BY <2>1, <2>2, SizesOfCounts
<1>5. ClearingIsClean'
  <2> SUFFICES ASSUME NEW q \in Requests \ {r}, chatCall[q].pc = "clearUnread",
                      chatCall[q].room \notin chatDisturbed
               PROVE  /\ ToRead(chatCall[q].user, chatCall[q].room)' = {}
                      /\ ToCount(chatCall[q].user, chatCall[q].room)' = {}
    BY DEF ClearingIsClean, At
  <2>1. PICK v \in Users, j \in Rooms :
           /\ v = chatCall[q].user /\ j = chatCall[q].room /\ v = chatCall'[q].user /\ j = chatCall'[q].room
    BY DEF CallsAreJustified, Justified
  <2>2. ToRead(v, j) = {} /\ ToCount(v, j) = {}
    BY <2>1 DEF ClearingIsClean, At
  <2>3. ToRead(v, j)' = {} /\ ToCount(v, j)' = {}
    BY <1>3, <2>2
  <2> QED  BY <2>1, <2>3
<1>6. CountersAreExact'
  <2> SUFFICES ASSUME NEW v \in Users, NEW j \in Rooms,
                      room[j] # None, j \notin chatDisturbed, v \in room[j].pair,
                      room[j].pair # {v},
                      \A q \in At("clearUnread")' : chatCall'[q].room = j => chatCall'[q].user # v
               PROVE  unread'[v][j] + Cardinality(ToCount(v, j)) = Cardinality(ToRead(v, j))
    BY <1>3 DEF CountersAreExact
  <2>1. CASE v = u /\ j = i
    <3>1. ToRead(v, j) = {} /\ ToCount(v, j) = {}
      BY <2>1 DEF ClearingIsClean, At
    <3>2. Cardinality(ToRead(v, j)) = 0 /\ Cardinality(ToCount(v, j)) = 0
      BY <3>1, FS_EmptySet
    <3> QED  BY <2>1, <3>2, <1>2
  <2>2. CASE ~(v = u /\ j = i)
    <3>1. \A q \in At("clearUnread") : chatCall[q].room = j => chatCall[q].user # v
      BY <2>2 DEF At
    <3> QED  BY <2>2, <3>1, <1>2 DEF CountersAreExact
  <2> QED  BY <2>1, <2>2
<1> QED  BY <1>2, <1>4, <1>5, <1>6

-----------------------------------------------------------------------------
(* Keys.                                                                   *)

(* A step of a request that keeps its key and message, or leaves with both *)
(* when the key has no message or has its answer.                          *)
LEMMA KeysKept ==
    ASSUME KeysAreAlone, OnlyDisturbedKeysRepeat, NEW r \in Requests,
           \A q \in Requests \ {r} : chatCall'[q] = chatCall[q],
           chatDisturbed \subseteq chatDisturbed',
           \A k \in Keys : MessagesOf(k)' = MessagesOf(k),
           \A k \in Keys \ chatDisturbed' : stored[k] # None => stored'[k] # None,
           \/ chatCall'[r].key = chatCall[r].key /\ chatCall'[r].message = chatCall[r].message
           \/ /\ chatCall'[r].key \notin Keys
              /\ \A k \in Keys \ chatDisturbed' :
                    chatCall[r].key = k => MessagesOf(k) = {} \/ stored'[k] # None
    PROVE  KeysAreAlone' /\ OnlyDisturbedKeysRepeat'
<1>1. OnlyDisturbedKeysRepeat'
  BY DEF OnlyDisturbedKeysRepeat
<1>2. KeysAreAlone'
  <2> SUFFICES ASSUME NEW k \in Keys \ chatDisturbed'
               PROVE  /\ \A p, q \in CarriersOf(k)' : p = q
                      /\ \A q \in CarriersOf(k)' : chatCall'[q].message = None => MessagesOf(k)' = {}
                      /\ MessagesOf(k)' # {} => stored'[k] # None \/ CarriersOf(k)' # {}
    BY DEF KeysAreAlone
  <2>1. /\ k \in Keys \ chatDisturbed /\ MessagesOf(k)' = MessagesOf(k)
        /\ \A p, q \in CarriersOf(k) : p = q
        /\ \A q \in CarriersOf(k) : chatCall[q].message = None => MessagesOf(k) = {}
        /\ MessagesOf(k) # {} => stored[k] # None \/ CarriersOf(k) # {}
    BY DEF KeysAreAlone
  <2>2. CarriersOf(k)' \subseteq CarriersOf(k)
    BY DEF CarriersOf
  <2>3. \A q \in CarriersOf(k)' : chatCall'[q].message = chatCall[q].message
    BY DEF CarriersOf
  <2>4. ASSUME MessagesOf(k) # {}, stored'[k] = None
        PROVE  CarriersOf(k)' # {}
    <3>1. PICK q \in CarriersOf(k) : TRUE
      BY <2>1, <2>4
    <3>2. q \in CarriersOf(k)'
      BY <3>1, <2>4 DEF CarriersOf
    <3> QED  BY <3>2
  <2> QED  BY <2>1, <2>2, <2>3, <2>4
<1> QED  BY <1>1, <1>2

(* A request arrives with a key that has no answer.                        *)
LEMMA KeyTaken ==
    ASSUME KeysAreAlone, OnlyDisturbedKeysRepeat, NEW r \in Requests, NEW k,
           \A q \in Requests \ {r} : chatCall'[q] = chatCall[q],
           chatCall[r].key = None, chatCall'[r].key = k, chatCall'[r].message = None,
           UNCHANGED <<message, stored>>,
           k \in Keys => stored[k] = None,
           chatDisturbed' = chatDisturbed \cup (({chatCall[q].key : q \in Requests} \cap {k}) \ {None})
    PROVE  KeysAreAlone' /\ OnlyDisturbedKeysRepeat'
<1>1. \A j \in Keys : MessagesOf(j)' = MessagesOf(j)
  BY DEF MessagesOf
<1>2. OnlyDisturbedKeysRepeat'
  BY <1>1 DEF OnlyDisturbedKeysRepeat
<1>3. KeysAreAlone'
  <2> SUFFICES ASSUME NEW j \in Keys \ chatDisturbed'
               PROVE  /\ \A p, q \in CarriersOf(j)' : p = q
                      /\ \A q \in CarriersOf(j)' : chatCall'[q].message = None => MessagesOf(j)' = {}
                      /\ MessagesOf(j)' # {} => stored'[j] # None \/ CarriersOf(j)' # {}
    BY DEF KeysAreAlone
  <2>0. None \notin Keys
    BY ChatAssumption
  <2>1. /\ j \in Keys \ chatDisturbed /\ MessagesOf(j)' = MessagesOf(j)
        /\ \A p, q \in CarriersOf(j) : p = q
        /\ \A q \in CarriersOf(j) : chatCall[q].message = None => MessagesOf(j) = {}
        /\ MessagesOf(j) # {} => stored[j] # None \/ CarriersOf(j) # {}
    BY <1>1 DEF KeysAreAlone
  <2>2. CASE j = k
    <3>1. CarriersOf(j) = {}
      BY <2>0, <2>2 DEF CarriersOf
    <3>2. CarriersOf(j)' = {r}
      BY <2>2, <3>1 DEF CarriersOf
    <3>3. MessagesOf(j) = {}
      BY <2>1, <2>2, <3>1
    <3> QED  BY <2>1, <3>2, <3>3
  <2>3. CASE j # k
    <3>1. CarriersOf(j)' = CarriersOf(j) /\ r \notin CarriersOf(j)
      BY <2>0, <2>3 DEF CarriersOf
    <3>2. \A q \in CarriersOf(j) : chatCall'[q] = chatCall[q]
      BY <3>1 DEF CarriersOf
    <3> QED  BY <2>1, <3>1, <3>2
  <2> QED  BY <2>2, <2>3
<1> QED  BY <1>2, <1>3

(* The first message of a key is made by the only request that carries it. *)
LEMMA KeyUsed ==
    ASSUME KeysAreAlone, OnlyDisturbedKeysRepeat, NEW r \in Requests, NEW m \in Messages,
           \A q \in Requests \ {r} : chatCall'[q] = chatCall[q],
           chatCall[r].message = None, chatCall'[r].key = chatCall[r].key, chatCall'[r].message # None,
           message[m] = None, message'[m] # None, message'[m].key = chatCall[r].key,
           \A n \in Messages \ {m} : message'[n] = message[n],
           UNCHANGED stored, chatDisturbed \subseteq chatDisturbed'
    PROVE  KeysAreAlone' /\ OnlyDisturbedKeysRepeat'
<1>1. \A k \in Keys : CarriersOf(k)' = CarriersOf(k)
  BY DEF CarriersOf
<1>2. \A k \in Keys : chatCall[r].key # k => MessagesOf(k)' = MessagesOf(k)
  BY DEF MessagesOf
<1>3. ASSUME NEW k \in Keys \ chatDisturbed, chatCall[r].key = k
      PROVE  /\ CarriersOf(k) = {r} /\ MessagesOf(k) = {}
             /\ MessagesOf(k)' = {m} /\ Cardinality(MessagesOf(k)') = 1
  <2>1. r \in CarriersOf(k)
    BY <1>3 DEF CarriersOf
  <2>2. CarriersOf(k) = {r} /\ MessagesOf(k) = {}
    BY <2>1 DEF KeysAreAlone
  <2>3. MessagesOf(k)' = {m}
    BY <1>3, <2>2 DEF MessagesOf
  <2> QED  BY <2>2, <2>3, FS_Singleton
<1>4. OnlyDisturbedKeysRepeat'
  <2> SUFFICES ASSUME NEW k \in Keys \ chatDisturbed' PROVE ~(Cardinality(MessagesOf(k)') > 1)
    BY DEF OnlyDisturbedKeysRepeat
  <2>1. CASE chatCall[r].key = k
    <3>1. Cardinality(MessagesOf(k)') = 1
      BY <2>1, <1>3
    <3> QED  BY <3>1
  <2>2. CASE chatCall[r].key # k
    BY <2>2, <1>2 DEF OnlyDisturbedKeysRepeat
  <2> QED  BY <2>1, <2>2
<1>5. KeysAreAlone'
  <2> SUFFICES ASSUME NEW k \in Keys \ chatDisturbed'
               PROVE  /\ \A p, q \in CarriersOf(k)' : p = q
                      /\ \A q \in CarriersOf(k)' : chatCall'[q].message = None => MessagesOf(k)' = {}
                      /\ MessagesOf(k)' # {} => stored'[k] # None \/ CarriersOf(k)' # {}
    BY DEF KeysAreAlone
  <2>1. k \in Keys \ chatDisturbed
    OBVIOUS
  <2>2. CASE chatCall[r].key = k
    BY <2>1, <2>2, <1>1, <1>3
  <2>3. CASE chatCall[r].key # k
    <3>1. /\ \A p, q \in CarriersOf(k) : p = q
          /\ \A q \in CarriersOf(k) : chatCall[q].message = None => MessagesOf(k) = {}
          /\ MessagesOf(k) # {} => stored[k] # None \/ CarriersOf(k) # {}
      BY <2>1 DEF KeysAreAlone
    <3>2. \A q \in CarriersOf(k) : chatCall'[q] = chatCall[q]
      BY <2>3 DEF CarriersOf
    <3> QED  BY <2>3, <3>1, <3>2, <1>1, <1>2
  <2> QED  BY <2>2, <2>3
<1> QED  BY <1>4, <1>5

-----------------------------------------------------------------------------
(* The actions.                                                            *)

LEMMA ChatInitInv == ChatInit => ChatInv
<1> SUFFICES ASSUME ChatInit PROVE ChatInv
  OBVIOUS
<1> USE DEF ChatInit
<1>1. ChatTypeOK
  <2>1. Cardinality(Messages) \in Nat
    BY ChatAssumption, FS_CardinalityType
  <2> QED  BY <2>1, IdleFacts DEF ChatTypeOK
<1>2. CallsAreJustified
  BY IdleFacts DEF CallsAreJustified, Justified
<1>3. MessagesFit /\ OneRoomPerVehicle
  BY DEF MessagesFit, OneRoomPerVehicle
<1>4. At("clearUnread") = {} /\ At("count") = {}
  BY IdleFacts DEF At
<1>5. ASSUME NEW u \in Users, NEW i \in Rooms
      PROVE  /\ unread[u][i] = 0 /\ Cardinality(ToCount(u, i)) = 0
             /\ Cardinality(ToRead(u, i)) = 0 /\ Cardinality(MessagesIn(i)) = 0
  <2>1. ToCount(u, i) = {} /\ ToRead(u, i) = {} /\ MessagesIn(i) = {}
    BY <1>4 DEF ToCount, ToRead, MessagesIn
  <2> QED  BY <2>1, FS_EmptySet
<1>6. CountsAreBounded /\ ClearingIsClean /\ CountersAreExact
  BY <1>4, <1>5 DEF CountsAreBounded, ClearingIsClean, CountersAreExact
<1>7. \A k \in Keys : MessagesOf(k) = {} /\ CarriersOf(k) = {}
  BY IdleFacts, ChatAssumption DEF MessagesOf, CarriersOf
<1>8. KeysAreAlone /\ OnlyDisturbedKeysRepeat
  BY <1>7, FS_EmptySet DEF KeysAreAlone, OnlyDisturbedKeysRepeat
<1> QED  BY <1>1, <1>2, <1>3, <1>6, <1>8 DEF ChatInv

LEMMA SendInv ==
    ASSUME ChatInv, NEW r \in Requests, NEW u \in Users, NEW v \in Users,
           NEW a \in Topics \cup {None}, NEW k \in Keys \cup {None}, Send(r, u, v, a, k)
    PROVE  ChatInv'
<1> USE DEF ChatInv, Send, BeginSend
<1>1. PICK c : c = [ChatIdle EXCEPT !.pc = "findRoom", !.user = u, !.other = v, !.about = a,
                                !.key = k]
  OBVIOUS
<1>2. /\ c \in ChatCallRow
      /\ c.pc = "findRoom" /\ c.user = u /\ c.other = v /\ c.key = k /\ c.message = None
  BY <1>1 DEF ChatIdle, ChatCallRow, ChatPc
<1>3. /\ chatCall' \in [Requests -> ChatCallRow] /\ chatCall'[r] = c
      /\ \A q \in Requests \ {r} : chatCall'[q] = chatCall[q]
  BY <1>1, <1>2, BecomeFacts DEF ChatTypeOK
<1>4. /\ chatCall[r].pc = "idle" /\ chatCall[r].key = None
      /\ chatDisturbed' = chatDisturbed \cup (({chatCall[q].key : q \in Requests} \cap {k}) \ {None})
  BY IdleFacts DEF ChatDisturb
<1>5. ChatTypeOK'
  BY <1>3, <1>4 DEF ChatTypeOK
<1>6. Justified(chatCall[r])'
  BY <1>2, <1>3 DEF Justified
<1>7. CallsAreJustified' /\ MessagesFit' /\ OneRoomPerVehicle'
  BY <1>3, <1>6, JustifiedStep DEF MessagesFit, OneRoomPerVehicle
<1>8. CountsAreBounded' /\ ClearingIsClean' /\ CountersAreExact'
  BY <1>2, <1>3, <1>4, <1>5, QuietCounters
<1>9. KeysAreAlone' /\ OnlyDisturbedKeysRepeat'
  BY <1>2, <1>3, <1>4, KeyTaken, ChatAssumption
<1> QED  BY <1>5, <1>7, <1>8, <1>9

(* The row that a request looks for or makes.                              *)
LEMMA WantedRoom ==
    ASSUME NEW u \in Users, NEW v \in Users, NEW a \in Topics \cup {None}, NEW row,
           row = [pair |-> {u, v}, about |-> a]
    PROVE  row \in Room /\ row.pair = {u, v} /\ row.about = a /\ row # None
<1>1. row \in Room /\ row.pair = {u, v} /\ row.about = a
  BY DEF Room
<1>2. None \notin Room
  BY ChatAssumption
<1> QED  BY <1>1, <1>2

LEMMA FindRoomInv ==
    ASSUME ChatInv, NEW r \in Requests, FindRoom(r)
    PROVE  ChatInv'
<1> USE DEF ChatInv, FindRoom
<1>1. /\ chatCall' \in [Requests -> ChatCallRow]
      /\ \A q \in Requests \ {r} : chatCall'[q] = chatCall[q]
      /\ chatCall'[r].key = chatCall[r].key /\ chatCall'[r].message = chatCall[r].message
      /\ chatCall'[r].pc \in {"createRoom", "createMessage"}
      /\ Justified(chatCall[r])'
  <2>1. chatCall[r].user \in Users /\ chatCall[r].other \in Users /\ chatCall[r].message = None
    BY DEF CallsAreJustified, Justified
  <2>2. CASE Matching(r) = {}
    <3>1. Goto(r, "createRoom")
      BY <2>2
    <3> QED  BY <2>1, <3>1, GotoFacts DEF ChatTypeOK, Justified, ChatPc
  <2>3. CASE Matching(r) # {}
    <3>1. PICK i \in Matching(r) : Found(r, i)
      BY <2>3
    <3>2. /\ i \in Rooms
          /\ room[i] = [pair |-> {chatCall[r].user, chatCall[r].other}, about |-> chatCall[r].about]
      BY DEF Matching
    <3>3. chatCall[r].about \in Topics \cup {None}
      BY DEF ChatTypeOK, ChatCallRow
    <3>4. room[i] # None /\ room[i].pair = {chatCall[r].user, chatCall[r].other}
      BY ONLY <2>1, <3>2, <3>3, WantedRoom
    <3> QED  BY <2>1, <3>1, <3>2, <3>4, FoundFacts DEF ChatTypeOK, Justified
  <2> QED  BY <2>2, <2>3
<1>2. ChatTypeOK'
  BY <1>1 DEF ChatTypeOK
<1>3. CallsAreJustified' /\ MessagesFit' /\ OneRoomPerVehicle'
  BY <1>1, JustifiedStep DEF MessagesFit, OneRoomPerVehicle
<1>4. CountsAreBounded' /\ ClearingIsClean' /\ CountersAreExact'
  BY <1>1, <1>2, QuietCounters
<1>5. \A k \in Keys : MessagesOf(k)' = MessagesOf(k)
  BY DEF MessagesOf
<1>6. KeysAreAlone' /\ OnlyDisturbedKeysRepeat'
  BY <1>1, <1>5, KeysKept
<1> QED  BY <1>2, <1>3, <1>4, <1>6

(* The one step that makes a room: the constraint refuses a second one.    *)
LEMMA CreateRoomInv ==
    ASSUME ChatInv, NEW r \in Requests, CreateRoom(r)
    PROVE  ChatInv'
<1> USE DEF ChatInv, CreateRoom, InsertRoom
<1>1. PICK i \in Rooms : /\ room[i] = None
                         /\ room' = [room EXCEPT ![i] = [pair |-> {chatCall[r].user, chatCall[r].other},
                                                         about |-> chatCall[r].about]]
                         /\ Found(r, i)
  BY DEF Free, ChatTypeOK
<1>2. /\ chatCall[r].user \in Users /\ chatCall[r].other \in Users /\ chatCall[r].message = None
      /\ chatCall[r].about \in Topics \cup {None}
  BY DEF CallsAreJustified, Justified, ChatTypeOK, ChatCallRow
<1>3. PICK new : /\ new = [pair |-> {chatCall[r].user, chatCall[r].other}, about |-> chatCall[r].about]
                 /\ new \in Room /\ new.pair = {chatCall[r].user, chatCall[r].other}
                 /\ new.about = chatCall[r].about /\ new # None
  <2>1. PICK u \in Users, v \in Users, a \in Topics \cup {None} :
           u = chatCall[r].user /\ v = chatCall[r].other /\ a = chatCall[r].about
    BY <1>2
  <2>2. PICK row : row = [pair |-> {u, v}, about |-> a]
    OBVIOUS
  <2>3. row \in Room /\ row.pair = {u, v} /\ row.about = a /\ row # None
    BY <2>2, WantedRoom
  <2> QED  BY <2>1, <2>2, <2>3
<1>4. /\ room' \in [Rooms -> Room \cup {None}] /\ room'[i] = new
      /\ \A j \in Rooms \ {i} : room'[j] = room[j]
  BY <1>1, <1>3 DEF ChatTypeOK
<1>5. /\ chatCall' \in [Requests -> ChatCallRow]
      /\ \A q \in Requests \ {r} : chatCall'[q] = chatCall[q]
      /\ chatCall'[r].key = chatCall[r].key /\ chatCall'[r].message = chatCall[r].message
      /\ chatCall'[r].pc = "createMessage"
      /\ Justified(chatCall[r])'
  BY <1>1, <1>2, <1>3, <1>4, FoundFacts DEF ChatTypeOK, Justified
<1>6. ChatTypeOK'
  BY <1>4, <1>5 DEF ChatTypeOK
<1>7. CallsAreJustified'
  BY <1>1, <1>4, <1>5, JustifiedStep
<1>8. MessagesFit'
  <2> SUFFICES ASSUME NEW m \in Messages, message[m] # None
               PROVE  /\ room'[message[m].room] # None
                      /\ message[m].from \in room'[message[m].room].pair
    BY DEF MessagesFit
  <2>1. PICK j \in Rooms : j = message[m].room /\ room[j] # None /\ message[m].from \in room[j].pair
    BY DEF MessagesFit, ChatTypeOK, Message
  <2> QED  BY <2>1, <1>1, <1>4
<1>9. OneRoomPerVehicle'
  <2> SUFFICES ASSUME NEW j \in Rooms, NEW k \in Rooms, room'[j] # None, room'[j] = room'[k],
                      room'[j].about # None, j # k
               PROVE  FALSE
    BY DEF OneRoomPerVehicle
  <2>1. CASE j # i /\ k # i
    BY <2>1, <1>4 DEF OneRoomPerVehicle
  <2>2. CASE j = i \/ k = i
    <3>1. PICK l \in Rooms : room[l] = new /\ new.about # None
      BY <2>2, <1>4
    <3>2. l \in Matching(r)
      BY <3>1, <1>3 DEF Matching
    <3> QED  BY <3>1, <3>2, <1>3
  <2> QED  BY <2>1, <2>2
<1>10. CountsAreBounded' /\ ClearingIsClean' /\ CountersAreExact'
  BY <1>1, <1>4, <1>5, <1>6, QuietCounters
<1>11. \A k \in Keys : MessagesOf(k)' = MessagesOf(k)
  BY DEF MessagesOf
<1>12. KeysAreAlone' /\ OnlyDisturbedKeysRepeat'
  BY <1>5, <1>11, KeysKept
<1> QED  BY <1>6, <1>7, <1>8, <1>9, <1>10, <1>12

LEMMA CreateMessageInv ==
    ASSUME ChatInv, NEW r \in Requests, CreateMessage(r)
    PROVE  ChatInv'
<1> USE DEF ChatInv
<1>1. PICK m \in Messages :
         /\ message[m] = None
         /\ message' = [message EXCEPT ![m] = [room |-> chatCall[r].room, from |-> chatCall[r].user,
                                               key |-> chatCall[r].key, read |-> FALSE]]
         /\ ChatBecome(r, [chatCall[r] EXCEPT !.pc = "count", !.message = m])
  BY DEF CreateMessage, Free, ChatTypeOK
<1>2. PICK s \in Users, o \in Users, i \in Rooms, k \in Keys \cup {None} :
         /\ s = chatCall[r].user /\ o = chatCall[r].other /\ i = chatCall[r].room /\ k = chatCall[r].key
         /\ room[i] # None /\ room[i].pair = {s, o}
         /\ chatCall[r].pc = "createMessage" /\ chatCall[r].message = None
  BY DEF CreateMessage, CallsAreJustified, Justified, ChatTypeOK, ChatCallRow
<1>3. PICK new : new = [room |-> i, from |-> s, key |-> k, read |-> FALSE]
  OBVIOUS
<1>4. /\ new \in Message /\ new # None
      /\ new.room = i /\ new.from = s /\ new.key = k /\ new.read = FALSE
  <2>1. /\ new \in Message
        /\ new.room = i /\ new.from = s /\ new.key = k /\ new.read = FALSE
    BY <1>3 DEF Message
  <2>2. None \notin Message
    BY ChatAssumption
  <2> QED  BY <2>1, <2>2
<1>5. /\ message' \in [Messages -> Message \cup {None}] /\ message'[m] = new
      /\ \A n \in Messages \ {m} : message'[n] = message[n]
  BY <1>1, <1>2, <1>3, <1>4 DEF ChatTypeOK
<1>6. PICK c : c = [chatCall[r] EXCEPT !.pc = "count", !.message = m]
  OBVIOUS
<1>7. /\ c \in ChatCallRow /\ c.pc = "count" /\ c.message = m
      /\ c.user = s /\ c.other = o /\ c.room = i /\ c.key = k
  <2>1. PICK half : half = [chatCall[r] EXCEPT !.pc = "count"]
    OBVIOUS
  <2>2. chatCall[r] \in ChatCallRow
    BY DEF ChatTypeOK
  <2>3. c = [half EXCEPT !.message = m]
    BY <1>6, <2>1
  <2>4. /\ half \in ChatCallRow /\ half.pc = "count" /\ half.user = chatCall[r].user
        /\ half.other = chatCall[r].other /\ half.room = chatCall[r].room /\ half.key = chatCall[r].key
    BY <2>1, <2>2 DEF ChatCallRow, ChatPc
  <2>5. /\ c \in ChatCallRow /\ c.pc = "count" /\ c.message = m /\ c.user = half.user
        /\ c.other = half.other /\ c.room = half.room /\ c.key = half.key
    BY <2>3, <2>4 DEF ChatCallRow
  <2> QED  BY <1>2, <2>4, <2>5
<1>8. /\ chatCall' \in [Requests -> ChatCallRow] /\ chatCall'[r] = c
      /\ \A q \in Requests \ {r} : chatCall'[q] = chatCall[q]
  BY <1>1, <1>6, <1>7, BecomeFacts DEF ChatTypeOK
<1>9. /\ UNCHANGED <<room, unread, stored>>
      /\ chatDisturbed \subseteq chatDisturbed' /\ chatDisturbed' \subseteq chatDisturbed \cup {i}
      /\ \A q \in At("clearUnread") :
            chatCall[q].room = i /\ chatCall[q].user = o => i \in chatDisturbed'
  <2>1. i # None
    BY ChatAssumption
  <2>2. chatDisturbed' = chatDisturbed \cup
           (({i} \cap {chatCall[q].room : q \in {p \in At("clearUnread") : chatCall[p].user = o}})
              \ {None})
    BY <1>2 DEF CreateMessage, ChatDisturb
  <2> QED  BY <2>1, <2>2 DEF CreateMessage
<1>10. ChatTypeOK'
  BY <1>5, <1>8, <1>9 DEF ChatTypeOK
<1>11. m # None
  BY ChatAssumption
<1>12. Justified(chatCall[r])'
  BY <1>2, <1>7, <1>8, <1>9, <1>11 DEF Justified
<1>13. CallsAreJustified'
  BY <1>8, <1>9, <1>12, JustifiedStep
<1>14. MessagesFit'
  BY <1>2, <1>4, <1>5, <1>9 DEF MessagesFit
<1>15. OneRoomPerVehicle'
  BY <1>9 DEF OneRoomPerVehicle
<1>16. CountsAreBounded' /\ ClearingIsClean' /\ CountersAreExact'
  <2>1. /\ message[m] = None /\ message'[m] # None /\ message'[m].room = i
        /\ message'[m].from = s /\ ~message'[m].read
    BY <1>1, <1>4, <1>5
  <2>2. chatCall'[r].pc = "count" /\ chatCall'[r].room = i /\ chatCall'[r].other = o
    BY <1>7, <1>8
  <2> QED  BY <2>1, <2>2, <1>2, <1>5, <1>8, <1>9, <1>10, MadeIsToCount
<1>17. KeysAreAlone' /\ OnlyDisturbedKeysRepeat'
  <2>1. /\ message[m] = None /\ message'[m] # None /\ message'[m].key = chatCall[r].key
        /\ chatCall'[r].key = chatCall[r].key /\ chatCall'[r].message # None
    BY <1>1, <1>2, <1>4, <1>5, <1>7, <1>8, <1>11
  <2> QED  BY <2>1, <1>2, <1>5, <1>8, <1>9, KeyUsed
<1> QED  BY <1>10, <1>13, <1>14, <1>15, <1>16, <1>17

(* What the request does after its attempt to count.                       *)
LEMMA CountedFacts ==
    ASSUME ChatInv, NEW r \in Requests, chatCall[r].pc = "count", Counted(r),
           UNCHANGED <<room, message, stored>>, chatDisturbed \subseteq chatDisturbed'
    PROVE  /\ chatCall' \in [Requests -> ChatCallRow]
           /\ \A q \in Requests \ {r} : chatCall'[q] = chatCall[q]
           /\ chatCall'[r].pc \in {"idle", "remember"}
           /\ CallsAreJustified' /\ MessagesFit' /\ OneRoomPerVehicle'
           /\ KeysAreAlone' /\ OnlyDisturbedKeysRepeat'
<1> USE DEF ChatInv
<1>1. chatCall[r].message # None
  BY DEF CallsAreJustified, Justified
<1>2. /\ chatCall' \in [Requests -> ChatCallRow]
      /\ \A q \in Requests \ {r} : chatCall'[q] = chatCall[q]
      /\ chatCall'[r].pc \in {"idle", "remember"}
      /\ Justified(chatCall[r])'
      /\ chatCall'[r].key = chatCall[r].key
      /\ chatCall[r].key # None => chatCall'[r].message = chatCall[r].message
  <2>1. CASE chatCall[r].key = None
    <3>1. ChatEnd(r)
      BY <2>1 DEF Counted
    <3> QED  BY <2>1, <3>1, EndFacts, IdleFacts, IdleIsJustified DEF ChatTypeOK
  <2>2. CASE chatCall[r].key # None
    <3>1. Goto(r, "remember")
      BY <2>2 DEF Counted
    <3> QED  BY <1>1, <2>2, <3>1, GotoFacts DEF ChatTypeOK, Justified, ChatPc
  <2> QED  BY <2>1, <2>2
<1>3. \A k \in Keys : MessagesOf(k)' = MessagesOf(k)
  BY DEF MessagesOf
<1>4. CallsAreJustified' /\ MessagesFit' /\ OneRoomPerVehicle'
  BY <1>2, JustifiedStep DEF MessagesFit, OneRoomPerVehicle
<1>5. None \notin Keys
  BY ChatAssumption
<1>6. KeysAreAlone' /\ OnlyDisturbedKeysRepeat'
  <2>1. CASE chatCall[r].key = None
    BY <2>1, <1>2, <1>3, <1>5, KeysKept
  <2>2. CASE chatCall[r].key # None
    BY <2>2, <1>2, <1>3, KeysKept
  <2> QED  BY <2>1, <2>2
<1> QED  BY <1>2, <1>4, <1>6

LEMMA CountUnreadInv ==
    ASSUME ChatInv, NEW r \in Requests, CountUnread(r)
    PROVE  ChatInv'
<1> USE DEF ChatInv
<1>1. PICK o \in Users, i \in Rooms :
         /\ o = chatCall[r].other /\ i = chatCall[r].room /\ chatCall[r].pc = "count"
  BY DEF CountUnread, CallsAreJustified, Justified
<1>2. CASE UNCHANGED chatDisturbed /\ unread' = [unread EXCEPT ![chatCall[r].other][chatCall[r].room] = @ + 1]
  <2>1. /\ chatCall' \in [Requests -> ChatCallRow]
        /\ \A q \in Requests \ {r} : chatCall'[q] = chatCall[q]
        /\ chatCall'[r].pc \in {"idle", "remember"}
        /\ CallsAreJustified' /\ MessagesFit' /\ OneRoomPerVehicle'
        /\ KeysAreAlone' /\ OnlyDisturbedKeysRepeat'
    BY <1>1, <1>2, CountedFacts DEF CountUnread
  <2>2. unread' = [unread EXCEPT ![o][i] = @ + 1]
    BY <1>1, <1>2
  <2>3. /\ unread' \in [Users -> [Rooms -> 0 .. Cardinality(Messages)]]
        /\ CountsAreBounded' /\ ClearingIsClean' /\ CountersAreExact'
    <3>1. /\ UNCHANGED <<room, message, chatDisturbed>>
          /\ chatCall'[r].pc \notin {"count", "clearUnread"}
          /\ chatCall[r].pc = "count" /\ chatCall[r].room = i /\ chatCall[r].other = o
          /\ \A q \in Requests \ {r} : chatCall'[q] = chatCall[q]
      BY <1>1, <1>2, <2>1 DEF CountUnread
    <3> HIDE DEF ChatInv
    <3> QED  BY <2>2, <3>1, CountedOnce, Zenon
  <2>4. ChatTypeOK'
    BY <1>2, <2>1, <2>3 DEF ChatTypeOK, CountUnread
  <2> QED  BY <2>1, <2>3, <2>4
<1>3. CASE ChatDisturb({chatCall[r].room}) /\ UNCHANGED unread
  <2>1. chatDisturbed' = chatDisturbed \cup {i}
    BY <1>1, <1>3, ChatAssumption DEF ChatDisturb
  <2>2. /\ chatCall' \in [Requests -> ChatCallRow]
        /\ \A q \in Requests \ {r} : chatCall'[q] = chatCall[q]
        /\ chatCall'[r].pc \in {"idle", "remember"}
        /\ CallsAreJustified' /\ MessagesFit' /\ OneRoomPerVehicle'
        /\ KeysAreAlone' /\ OnlyDisturbedKeysRepeat'
    BY <1>1, <2>1, CountedFacts DEF CountUnread
  <2>3. ChatTypeOK'
    BY <1>3, <2>1, <2>2 DEF ChatTypeOK, CountUnread
  <2>4. CountsAreBounded' /\ ClearingIsClean' /\ CountersAreExact'
    BY <1>1, <1>3, <2>1, <2>2, <2>3, QuietCounters DEF CountUnread
  <2> QED  BY <2>2, <2>3, <2>4
<1> QED  BY <1>2, <1>3 DEF CountUnread

LEMMA RememberInv ==
    ASSUME ChatInv, NEW r \in Requests, Remember(r)
    PROVE  ChatInv'
<1> USE DEF ChatInv
<1>1. PICK k \in Keys, m \in Messages :
         /\ k = chatCall[r].key /\ m = chatCall[r].message /\ chatCall[r].pc = "remember"
         /\ m # None
  BY DEF Remember, CallsAreJustified, Justified, ChatTypeOK, ChatCallRow
<1>2. /\ chatCall' \in [Requests -> ChatCallRow] /\ chatCall'[r] = ChatIdle
      /\ \A q \in Requests \ {r} : chatCall'[q] = chatCall[q]
  BY EndFacts DEF Remember, ChatTypeOK
<1>3. /\ stored' \in [Keys -> Messages \cup {None}]
      /\ \A j \in Keys : stored[j] # None => stored'[j] # None
      /\ chatDisturbed \subseteq chatDisturbed' /\ chatDisturbed' \subseteq chatDisturbed \cup {k}
      /\ k \notin chatDisturbed' => stored'[k] # None
  <2>1. CASE stored' = [stored EXCEPT ![k] = m] /\ UNCHANGED chatDisturbed
    BY <1>1, <2>1 DEF ChatTypeOK
  <2>2. CASE ChatDisturb({k}) /\ UNCHANGED stored
    BY <1>1, <2>2, ChatAssumption DEF ChatTypeOK, ChatDisturb
  <2> QED  BY <1>1, <2>1, <2>2 DEF Remember
<1>4. ChatTypeOK'
  BY <1>2, <1>3 DEF ChatTypeOK, Remember
<1>5. CallsAreJustified' /\ MessagesFit' /\ OneRoomPerVehicle'
  <2>1. Justified(chatCall[r])'
    BY <1>2, IdleIsJustified
  <2> QED  BY <1>2, <2>1, JustifiedStep DEF Remember, MessagesFit, OneRoomPerVehicle
<1>6. CountsAreBounded' /\ ClearingIsClean' /\ CountersAreExact'
  BY <1>1, <1>2, <1>3, <1>4, IdleFacts, QuietCounters DEF Remember
<1>7. \A j \in Keys : MessagesOf(j)' = MessagesOf(j)
  BY DEF MessagesOf, Remember
<1>8. chatCall'[r].key \notin Keys
  BY <1>2, IdleFacts, ChatAssumption
<1>9. KeysAreAlone' /\ OnlyDisturbedKeysRepeat'
  BY <1>1, <1>2, <1>3, <1>7, <1>8, KeysKept
<1> QED  BY <1>4, <1>5, <1>6, <1>9

LEMMA MarkAsReadInv ==
    ASSUME ChatInv, NEW r \in Requests, NEW u \in Users, NEW i \in Rooms, MarkAsRead(r, u, i)
    PROVE  ChatInv'
<1> USE DEF ChatInv
<1>1. PICK c : c = [ChatIdle EXCEPT !.pc = "clearUnread", !.user = u, !.room = i]
  OBVIOUS
<1>2. /\ c \in ChatCallRow /\ c.pc = "clearUnread" /\ c.user = u /\ c.room = i
      /\ c.key = None /\ c.message = None
  BY <1>1 DEF ChatIdle, ChatCallRow, ChatPc
<1>3. /\ chatCall' \in [Requests -> ChatCallRow] /\ chatCall'[r] = c
      /\ \A q \in Requests \ {r} : chatCall'[q] = chatCall[q]
  BY <1>1, <1>2, BecomeFacts DEF ChatTypeOK, MarkAsRead
<1>4. /\ chatCall[r].pc = "idle" /\ chatCall[r].key = None /\ chatCall[r].message = None
      /\ room[i] # None /\ u \in room[i].pair /\ UNCHANGED <<room, unread, stored>>
  BY IdleFacts DEF MarkAsRead
<1>5. /\ chatDisturbed \subseteq chatDisturbed' /\ chatDisturbed' \subseteq chatDisturbed \cup {i}
      /\ ToCount(u, i) # {} => i \in chatDisturbed'
  <2>1. i # None
    BY ChatAssumption
  <2> QED  BY <2>1 DEF MarkAsRead, ChatDisturb, ToCount
<1>6. ASSUME NEW m \in Messages
      PROVE  /\ message'[m] \in Message \cup {None}
             /\ message[m] = None => message'[m] = None
             /\ message[m] # None =>
                   /\ message'[m] # None /\ message'[m].room = message[m].room
                   /\ message'[m].from = message[m].from /\ message'[m].key = message[m].key
                   /\ message'[m].read =
                         (message[m].read \/ (message[m].room = i /\ message[m].from # u))
  <2>1. message'[m] = IF message[m] # None /\ message[m].room = i /\ message[m].from # u
                      THEN [message[m] EXCEPT !.read = TRUE]
                      ELSE message[m]
    BY DEF MarkAsRead
  <2>2. CASE message[m] # None /\ message[m].room = i /\ message[m].from # u
    <3>1. message[m] \in Message /\ message'[m] = [message[m] EXCEPT !.read = TRUE]
      BY <2>1, <2>2 DEF ChatTypeOK
    <3>2. /\ message'[m] \in Message /\ message'[m].room = message[m].room
          /\ message'[m].from = message[m].from /\ message'[m].key = message[m].key
          /\ message'[m].read = TRUE
      BY <3>1 DEF Message
    <3>3. message'[m] # None
      BY <3>2, ChatAssumption
    <3> QED  BY <2>2, <3>2, <3>3
  <2>3. CASE ~(message[m] # None /\ message[m].room = i /\ message[m].from # u)
    <3>1. message'[m] = message[m]
      BY <2>1, <2>3
    <3>2. message[m] # None => message[m].read \in BOOLEAN
      BY DEF ChatTypeOK, Message
    <3> QED  BY <2>3, <3>1, <3>2 DEF ChatTypeOK
  <2> QED  BY <2>2, <2>3
<1>7. message' \in [Messages -> Message \cup {None}]
  <2>1. message' = [m \in Messages |-> message'[m]]
    BY DEF MarkAsRead
  <2> QED  BY <1>6, <2>1
<1>8. ChatTypeOK'
  BY <1>3, <1>4, <1>5, <1>7 DEF ChatTypeOK
<1>9. Justified(chatCall[r])'
  BY <1>2, <1>3, <1>4 DEF Justified
<1>10. CallsAreJustified' /\ OneRoomPerVehicle'
  BY <1>3, <1>4, <1>9, JustifiedStep DEF OneRoomPerVehicle
<1>11. MessagesFit'
  BY <1>4, <1>6 DEF MessagesFit
<1>12. CountsAreBounded' /\ ClearingIsClean' /\ CountersAreExact'
  BY <1>2, <1>3, <1>4, <1>5, <1>6, <1>7, MarkedIsClean
<1>13. \A k \in Keys : MessagesOf(k)' = MessagesOf(k)
  BY <1>6 DEF MessagesOf
<1>14. KeysAreAlone' /\ OnlyDisturbedKeysRepeat'
  BY <1>2, <1>3, <1>4, <1>5, <1>13, KeysKept
<1> QED  BY <1>8, <1>10, <1>11, <1>12, <1>14

LEMMA ClearUnreadInv ==
    ASSUME ChatInv, NEW r \in Requests, ClearUnread(r)
    PROVE  ChatInv'
<1>1. PICK u \in Users, i \in Rooms :
         u = chatCall[r].user /\ i = chatCall[r].room /\ chatCall[r].pc = "clearUnread"
  BY DEF ClearUnread, ChatInv, CallsAreJustified, Justified
<1>2. /\ chatCall' \in [Requests -> ChatCallRow] /\ chatCall'[r] = ChatIdle
      /\ \A q \in Requests \ {r} : chatCall'[q] = chatCall[q]
  BY EndFacts DEF ClearUnread, ChatInv, ChatTypeOK
<1>3. /\ UNCHANGED <<room, message, stored, chatDisturbed>>
      /\ unread' = [unread EXCEPT ![u][i] = 0] /\ chatCall'[r].pc = "idle"
  BY <1>1, <1>2, IdleFacts DEF ClearUnread
<1>4. /\ unread' \in [Users -> [Rooms -> 0 .. Cardinality(Messages)]]
      /\ CountsAreBounded' /\ ClearingIsClean' /\ CountersAreExact'
  BY <1>1, <1>2, <1>3, ClearedIsExact, Zenon
<1>5. ChatTypeOK'
  BY <1>2, <1>3, <1>4 DEF ChatInv, ChatTypeOK
<1>6. CallsAreJustified' /\ MessagesFit' /\ OneRoomPerVehicle'
  <2>1. Justified(chatCall[r])'
    BY <1>2, IdleIsJustified
  <2> QED  BY <1>2, <1>3, <2>1, JustifiedStep DEF ChatInv, MessagesFit, OneRoomPerVehicle
<1>7. \A k \in Keys : MessagesOf(k)' = MessagesOf(k)
  BY <1>3 DEF MessagesOf
<1>8. chatCall[r].key = None /\ chatCall'[r].key = None /\ None \notin Keys
  BY <1>1, <1>2, IdleFacts, ChatAssumption DEF ChatInv, CallsAreJustified, Justified
<1>9. KeysAreAlone' /\ OnlyDisturbedKeysRepeat'
  BY <1>2, <1>3, <1>7, <1>8, KeysKept DEF ChatInv
<1> QED  BY <1>4, <1>5, <1>6, <1>9 DEF ChatInv

(* Whatever a failed request leaves half done is marked.                   *)
LEMMA ChatFailInv ==
    ASSUME ChatInv, NEW r \in Requests, ChatFail(r)
    PROVE  ChatInv'
<1> USE DEF ChatInv
<1>1. /\ chatCall' \in [Requests -> ChatCallRow] /\ chatCall'[r] = ChatIdle
      /\ \A q \in Requests \ {r} : chatCall'[q] = chatCall[q]
  BY EndFacts DEF ChatFail, ChatTypeOK
<1>2. chatCall[r] \in ChatCallRow /\ UNCHANGED <<room, message, unread, stored>>
  BY DEF ChatFail, ChatTypeOK
<1>3. /\ chatDisturbed \subseteq chatDisturbed' /\ chatDisturbed' \subseteq Keys \cup Rooms
      /\ chatCall[r].pc \in {"count", "clearUnread"} => chatCall[r].room \in chatDisturbed'
      /\ chatCall[r].message # None /\ chatCall[r].key # None => chatCall[r].key \in chatDisturbed'
  <2>1. chatCall[r].pc \in {"count", "clearUnread"} => chatCall[r].room \in Rooms /\ chatCall[r].room # None
    BY ChatAssumption DEF CallsAreJustified, Justified
  <2>2. chatCall[r].key \in Keys \cup {None} /\ chatCall[r].room \in Rooms \cup {None}
    BY <1>2 DEF ChatCallRow
  <2> QED  BY <2>1, <2>2 DEF ChatFail, ChatDisturb, ChatTypeOK
<1>4. ChatTypeOK'
  BY <1>1, <1>2, <1>3 DEF ChatTypeOK
<1>5. CallsAreJustified' /\ MessagesFit' /\ OneRoomPerVehicle'
  <2>1. Justified(chatCall[r])'
    BY <1>1, IdleIsJustified
  <2> QED  BY <1>1, <1>2, <2>1, JustifiedStep DEF MessagesFit, OneRoomPerVehicle
<1>6. CountsAreBounded' /\ ClearingIsClean' /\ CountersAreExact'
  BY <1>1, <1>2, <1>3, <1>4, IdleFacts, QuietCounters
<1>7. \A k \in Keys : MessagesOf(k)' = MessagesOf(k)
  BY <1>2 DEF MessagesOf
<1>8. /\ chatCall'[r].key \notin Keys
      /\ \A k \in Keys \ chatDisturbed' : chatCall[r].key = k => MessagesOf(k) = {}
  <2>1. None \notin Keys
    BY ChatAssumption
  <2>2. ASSUME NEW k \in Keys \ chatDisturbed', chatCall[r].key = k
        PROVE  MessagesOf(k) = {}
    BY <1>3, <2>1, <2>2 DEF KeysAreAlone, CarriersOf
  <2> QED  BY <1>1, <2>1, <2>2, IdleFacts
<1>9. KeysAreAlone' /\ OnlyDisturbedKeysRepeat'
  BY <1>1, <1>2, <1>3, <1>7, <1>8, KeysKept
<1> QED  BY <1>4, <1>5, <1>6, <1>9

LEMMA AnswerExpiresInv ==
    ASSUME ChatInv, NEW k \in Keys, AnswerExpires(k)
    PROVE  ChatInv'
<1> USE DEF ChatInv
<1>1. /\ UNCHANGED <<room, message, unread, chatCall>>
      /\ stored' \in [Keys -> Messages \cup {None}]
      /\ \A j \in Keys \ {k} : stored'[j] = stored[j]
      /\ chatDisturbed' = chatDisturbed \cup {k}
  BY ChatAssumption DEF AnswerExpires, ChatDisturb, ChatTypeOK
<1>2. ChatTypeOK'
  BY <1>1 DEF ChatTypeOK
<1>3. CallsAreJustified' /\ MessagesFit' /\ OneRoomPerVehicle'
  BY <1>1 DEF CallsAreJustified, Justified, MessagesFit, OneRoomPerVehicle
<1>4. \A u \in Users, i \in Rooms : ToCount(u, i)' = ToCount(u, i)
  BY <1>1 DEF ToCount, At
<1>5. CountsAreBounded' /\ ClearingIsClean' /\ CountersAreExact'
  BY <1>1, <1>2, <1>4, CountersKept
<1>6. ASSUME NEW j \in Keys
      PROVE  MessagesOf(j)' = MessagesOf(j) /\ CarriersOf(j)' = CarriersOf(j)
  BY <1>1 DEF MessagesOf, CarriersOf
<1>7. OnlyDisturbedKeysRepeat'
  BY <1>1, <1>6 DEF OnlyDisturbedKeysRepeat
<1>8. KeysAreAlone'
  <2> SUFFICES ASSUME NEW j \in Keys \ chatDisturbed'
               PROVE  /\ \A p, q \in CarriersOf(j)' : p = q
                      /\ \A q \in CarriersOf(j)' : chatCall'[q].message = None => MessagesOf(j)' = {}
                      /\ MessagesOf(j)' # {} => stored'[j] # None \/ CarriersOf(j)' # {}
    BY DEF KeysAreAlone
  <2>1. j \in Keys \ chatDisturbed /\ stored'[j] = stored[j]
    BY <1>1
  <2> QED  BY <1>1, <1>6, <2>1 DEF KeysAreAlone
<1> QED  BY <1>2, <1>3, <1>5, <1>7, <1>8

LEMMA ChatStutterInv ==
    ASSUME ChatInv, UNCHANGED chatVars
    PROVE  ChatInv'
<1>1. UNCHANGED <<room, message, unread, stored, chatCall, chatDisturbed>>
  BY DEF chatVars
<1>2. /\ ChatTypeOK' = ChatTypeOK /\ MessagesFit' = MessagesFit
      /\ OneRoomPerVehicle' = OneRoomPerVehicle
  BY <1>1 DEF ChatTypeOK, MessagesFit, OneRoomPerVehicle
<1>3. CallsAreJustified' = CallsAreJustified
  BY <1>1 DEF CallsAreJustified, Justified
<1>4. CountsAreBounded' = CountsAreBounded
  BY <1>1 DEF CountsAreBounded, ToCount, MessagesIn, At
<1>5. ClearingIsClean' = ClearingIsClean
  BY <1>1 DEF ClearingIsClean, ToRead, ToCount, At
<1>6. CountersAreExact' = CountersAreExact
  BY <1>1 DEF CountersAreExact, ToRead, ToCount, At
<1>7. KeysAreAlone' = KeysAreAlone /\ OnlyDisturbedKeysRepeat' = OnlyDisturbedKeysRepeat
  BY <1>1 DEF KeysAreAlone, OnlyDisturbedKeysRepeat, MessagesOf, CarriersOf
<1> QED  BY <1>2, <1>3, <1>4, <1>5, <1>6, <1>7 DEF ChatInv

LEMMA ChatNextInv ==
    ASSUME ChatInv, ChatNext
    PROVE  ChatInv'
<1>1. ASSUME NEW r \in Requests, ChatArrive(r)
      PROVE  ChatInv'
  <2>1. ASSUME NEW t \in Talks, NEW a \in Topics \cup {None}, NEW k \in Keys \cup {None},
               Send(r, t[1], t[2], a, k)
        PROVE  ChatInv'
    <3>1. t[1] \in Users /\ t[2] \in Users
      BY ChatAssumption
    <3> QED  BY <2>1, <3>1, SendInv
  <2>2. ASSUME NEW u \in Users, NEW i \in Rooms, MarkAsRead(r, u, i)
        PROVE  ChatInv'
    BY <2>2, MarkAsReadInv
  <2> QED  BY <1>1, <2>1, <2>2 DEF ChatArrive
<1>2. ASSUME NEW r \in Requests, ChatProceed(r)
      PROVE  ChatInv'
  BY <1>2, FindRoomInv, CreateRoomInv, CreateMessageInv, CountUnreadInv, RememberInv,
     ClearUnreadInv DEF ChatProceed
<1> QED  BY <1>1, <1>2, ChatFailInv, AnswerExpiresInv DEF ChatNext

-----------------------------------------------------------------------------
(* The inductive invariant holds of ChatService in every state, for any    *)
(* number of overlapping requests, failures and expiries                   *)
(* (chat.service.ts:14-74, :127-159, :166-188).                            *)
THEOREM ChatInvariant == ChatSpec => []ChatInv
<1>1. ChatInv /\ [ChatNext]_chatVars => ChatInv'
  BY ChatNextInv, ChatStutterInv
<1> QED  BY ChatInitInv, <1>1, PTL DEF ChatSpec

(* Rows, counters, stored answers and calls are what their types say: a    *)
(* counter never exceeds the number of messages there are.                 *)
THEOREM ChatTypeCorrect == ChatSpec => []ChatTypeOK
<1>1. ChatInv => ChatTypeOK
  BY DEF ChatInv
<1> QED  BY <1>1, ChatInvariant, PTL

(* Two users talk about a vehicle in one room, however many first messages *)
(* found none (chat.service.ts:170-186).                                   *)
THEOREM AlwaysOneRoom == ChatSpec => []OneRoomPerVehicle
<1>1. ChatInv => OneRoomPerVehicle
  BY DEF ChatInv
<1> QED  BY <1>1, ChatInvariant, PTL

(* A key whose requests do not overlap and whose answer is not lost has    *)
(* one message, however often it is repeated (chat.service.ts:16-21,       *)
(* :63-68).                                                                *)
THEOREM KeysRepeatOnlyDisturbed == ChatSpec => []OnlyDisturbedKeysRepeat
<1>1. ChatInv => OnlyDisturbedKeysRepeat
  BY DEF ChatInv
<1> QED  BY <1>1, ChatInvariant, PTL

(* The unread counters in Redis are the numbers of unread rows, up to the  *)
(* messages still to be counted, unless a reading overlapped a sending or  *)
(* a call failed (chat.service.ts:45, :139-149).                           *)
THEOREM CountersStayExact == ChatSpec => []CountersAreExact
<1>1. ChatInv => CountersAreExact
  BY DEF ChatInv
<1> QED  BY <1>1, ChatInvariant, PTL
=============================================================================
