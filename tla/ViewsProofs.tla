----------------------------- MODULE ViewsProofs -----------------------------
(***************************************************************************)
(* No view of a vehicle is lost or counted again outside the windows the   *)
(* history variables lossy and twice name: for any vehicles, requests and  *)
(* flushes in flight.  The invariant says what a flush may rely on from    *)
(* HGETALL to HDEL: nobody else reads the counter, and none comes to it.   *)
(***************************************************************************)
EXTENDS Views, TLAPS

LEMMA ZeroType == Zero \in [Vehicles -> Nat] /\ \A v \in Vehicles : Zero[v] = 0
BY DEF Zero

(* The invariant holds before the first view.                              *)
LEMMA ViewInitially == ViewInit => ViewInv
BY ViewAssumption, ZeroType DEF ViewInit, ViewInv, ViewTypeOK, ViewsAreCounted,
   CallHasVehicle, NothingCameMeanwhile, CounterIsMine, Deleting, NoCall, NoFlush

(* A counter that nobody flushes.                                          *)
LEMMA NotInFlush ==
    ASSUME ViewTypeOK, NEW v \in Vehicles, InFlush(v) = {}, NEW f \in Flushes
    PROVE  flush[f].counts[v] = 0 /\ ~Deleting(f, v)
<1>1. flush[f].counts[v] = 0
  BY DEF ViewTypeOK, InFlush
<1>2. ~Deleting(f, v)
  BY <1>1 DEF ViewTypeOK, Deleting
<1> QED  BY <1>1, <1>2

LEMMA FindOneStep ==
    ASSUME ViewInv, NEW r \in Requests, NEW v \in Vehicles, FindOne(r, v)
    PROVE  ViewInv'
BY ViewAssumption DEF FindOne, ViewInv, ViewTypeOK, ViewsAreCounted, CallHasVehicle,
   NothingCameMeanwhile, CounterIsMine, Deleting, NoCall

LEMMA FindOneFailsStep ==
    ASSUME ViewInv, NEW r \in Requests, FindOneFails(r)
    PROVE  ViewInv'
BY ViewAssumption DEF FindOneFails, ViewInv, ViewTypeOK, ViewsAreCounted, CallHasVehicle,
   NothingCameMeanwhile, CounterIsMine, Deleting, NoCall

(* HINCRBY and its answer: both sides grow, unless the counter is being    *)
(* flushed.                                                                *)
LEMMA CountViewStep ==
    ASSUME ViewInv, NEW r \in Requests, CountView(r)
    PROVE  ViewInv'
<1> DEFINE v == call[r].vehicle
<1>v. v \in Vehicles
  BY DEF ViewInv, CallHasVehicle, CountView
<1>1. ViewTypeOK'
  BY <1>v, ViewAssumption DEF CountView, Increment, Answer, ViewInv, ViewTypeOK, NoCall
<1>2. CallHasVehicle'
  BY <1>v DEF CountView, Answer, ViewInv, ViewTypeOK, CallHasVehicle, NoCall
<1>3. ASSUME NEW w \in Vehicles, w # v
      PROVE  /\ redis'[w] = redis[w] /\ seen'[w] = seen[w]
             /\ w \in lossy' <=> w \in lossy
  BY <1>3, <1>v DEF CountView, Increment, Answer, ViewInv, ViewTypeOK
<1>4. redis'[v] = redis[v] + 1 /\ seen'[v] = seen[v] + 1
  BY <1>v DEF CountView, Increment, Answer, ViewInv, ViewTypeOK
<1>5. v \notin lossy' => v \notin lossy /\ InFlush(v) = {}
  BY DEF CountView, Increment
<1>6. UNCHANGED <<viewCount, flush, twice>>
  BY DEF CountView
<1>7. ViewsAreCounted'
  <2> SUFFICES ASSUME NEW w \in Vehicles
               PROVE  /\ w \notin lossy' => viewCount'[w] + redis'[w] >= seen'[w]
                      /\ w \notin twice' =>
                            \/ viewCount'[w] + redis'[w] <= seen'[w]
                            \/ \E f \in Flushes : /\ Deleting(f, w)'
                                                  /\ viewCount'[w] + redis'[w] <= seen'[w] + flush'[f].counts[w]
    BY DEF ViewsAreCounted
  <2>1. CASE w # v
    BY <2>1, <1>3, <1>6 DEF ViewInv, ViewsAreCounted, Deleting
  <2>2. CASE w = v
    BY <2>2, <1>4, <1>5, <1>6 DEF ViewInv, ViewsAreCounted, Deleting, ViewTypeOK
  <2> QED  BY <2>1, <2>2
<1>8. ASSUME NEW f \in Flushes, NEW w \in Vehicles
      PROVE  NothingCameMeanwhile(f, w)' /\ CounterIsMine(f, w)'
  <2>1. CASE w # v
    BY <2>1, <1>3, <1>6 DEF ViewInv, NothingCameMeanwhile, CounterIsMine, Deleting
  <2>2. CASE w = v
    <3>1. NothingCameMeanwhile(f, w)'
      BY <2>2, <1>5, <1>6, <1>v, NotInFlush DEF ViewInv, NothingCameMeanwhile
    <3>2. CounterIsMine(f, w)'
      BY <2>2, <1>4, <1>6, <1>v DEF ViewInv, CounterIsMine, Deleting, ViewTypeOK
    <3> QED  BY <3>1, <3>2
  <2> QED  BY <2>1, <2>2
<1> QED  BY <1>1, <1>2, <1>7, <1>8 DEF ViewInv

(* A failed HINCRBY may have counted: then the vehicle is counted twice.   *)
LEMMA CountFailsStep ==
    ASSUME ViewInv, NEW r \in Requests, CountFails(r)
    PROVE  ViewInv'
<1> DEFINE v == call[r].vehicle
<1>v. v \in Vehicles
  BY DEF ViewInv, CallHasVehicle, CountFails
<1>t. ViewTypeOK
  BY DEF ViewInv
<1>c. CallHasVehicle'
  BY <1>v, <1>t DEF CountFails, ViewInv, ViewTypeOK, CallHasVehicle
<1>1. CASE UNCHANGED <<redis, lossy, twice>>
  BY <1>1, <1>c, <1>t DEF CountFails, ViewInv, ViewTypeOK, ViewsAreCounted,
     NothingCameMeanwhile, CounterIsMine, Deleting
<1>2. CASE Increment(v) /\ twice' = twice \cup {v}
  <2>1. ViewTypeOK'
    BY <1>2, <1>v, <1>t DEF CountFails, Increment, ViewTypeOK
  <2>2. ASSUME NEW w \in Vehicles, w # v
        PROVE  redis'[w] = redis[w] /\ (w \in lossy' <=> w \in lossy) /\ (w \in twice' <=> w \in twice)
    BY <2>2, <1>2, <1>v, <1>t DEF Increment, ViewTypeOK
  <2>3. redis'[v] = redis[v] + 1 /\ v \in twice'
    BY <1>2, <1>v, <1>t DEF Increment, ViewTypeOK
  <2>4. v \notin lossy' => v \notin lossy /\ InFlush(v) = {}
    BY <1>2 DEF Increment
  <2>5. UNCHANGED <<viewCount, flush, seen>>
    BY DEF CountFails
  <2>6. ViewsAreCounted'
    <3> SUFFICES ASSUME NEW w \in Vehicles
                 PROVE  /\ w \notin lossy' => viewCount'[w] + redis'[w] >= seen'[w]
                        /\ w \notin twice' =>
                              \/ viewCount'[w] + redis'[w] <= seen'[w]
                              \/ \E f \in Flushes : /\ Deleting(f, w)'
                                                    /\ viewCount'[w] + redis'[w] <= seen'[w] + flush'[f].counts[w]
      BY DEF ViewsAreCounted
    <3>1. CASE w # v
      BY <3>1, <2>2, <2>5 DEF ViewInv, ViewsAreCounted, Deleting
    <3>2. CASE w = v
      BY <3>2, <2>3, <2>4, <2>5, <1>t DEF ViewInv, ViewsAreCounted, ViewTypeOK
    <3> QED  BY <3>1, <3>2
  <2>7. ASSUME NEW f \in Flushes, NEW w \in Vehicles
        PROVE  NothingCameMeanwhile(f, w)' /\ CounterIsMine(f, w)'
    <3>1. CASE w # v
      BY <3>1, <2>2, <2>5 DEF ViewInv, NothingCameMeanwhile, CounterIsMine, Deleting
    <3>2. CASE w = v
      <4>1. NothingCameMeanwhile(f, w)'
        BY <3>2, <2>4, <2>5, <1>v, <1>t, NotInFlush DEF NothingCameMeanwhile
      <4>2. CounterIsMine(f, w)'
        BY <3>2, <2>3 DEF CounterIsMine
      <4> QED  BY <4>1, <4>2
    <3> QED  BY <3>1, <3>2
  <2> QED  BY <2>1, <1>c, <2>6, <2>7 DEF ViewInv
<1> QED  BY <1>1, <1>2 DEF CountFails

(* The fallback counts in the table, and answers or marks the vehicle.     *)
LEMMA CountInTableStep ==
    ASSUME ViewInv, NEW r \in Requests, CountInTable(r)
    PROVE  ViewInv'
<1> DEFINE v == call[r].vehicle
<1>v. v \in Vehicles
  BY DEF ViewInv, CallHasVehicle, CountInTable
<1>t. ViewTypeOK
  BY DEF ViewInv
<1>0. call' = [call EXCEPT ![r] = NoCall] /\ UNCHANGED <<rows, redis, flush, lossy>>
  BY DEF CountInTable, Answer
<1>a. call' \in [Requests -> [pc : {"idle", "count", "fallback"}, vehicle : Vehicles \cup {None}]]
  BY <1>0, <1>t DEF ViewTypeOK, NoCall
<1>b. viewCount' \in [Vehicles -> Nat]
  BY <1>v, <1>t DEF CountInTable, ViewTypeOK
<1>c. seen' \in [Vehicles -> Nat] /\ twice' \subseteq Vehicles
  BY <1>v, <1>t DEF CountInTable, Answer, ViewTypeOK
<1>1. ViewTypeOK'
  BY <1>t, <1>0, <1>a, <1>b, <1>c DEF ViewTypeOK
<1>2. CallHasVehicle'
  BY <1>v DEF CountInTable, Answer, ViewInv, ViewTypeOK, CallHasVehicle, NoCall
<1>3. ASSUME NEW w \in Vehicles
      PROVE  \/ w # v /\ viewCount'[w] = viewCount[w] /\ seen'[w] = seen[w]
             \/ w = v /\ viewCount'[w] = viewCount[w] + 1 /\ seen'[w] = seen[w] + 1
             \/ w = v /\ viewCount'[w] = viewCount[w] + 1 /\ seen'[w] = seen[w] /\ w \in twice'
  BY <1>v DEF CountInTable, Answer, ViewInv, ViewTypeOK
<1>4. UNCHANGED <<redis, flush, lossy>> /\ twice \subseteq twice'
  BY DEF CountInTable
<1>5. ViewsAreCounted'
  BY <1>3, <1>4 DEF ViewInv, ViewTypeOK, ViewsAreCounted, Deleting
<1>6. ASSUME NEW f \in Flushes, NEW w \in Vehicles
      PROVE  NothingCameMeanwhile(f, w)' /\ CounterIsMine(f, w)'
  BY <1>3, <1>4 DEF ViewInv, ViewTypeOK, NothingCameMeanwhile, CounterIsMine, Deleting
<1> QED  BY <1>1, <1>2, <1>5, <1>6 DEF ViewInv

(* A flush reads all counters; it owns those that no other one has read.   *)
LEMMA ReadCountsStep ==
    ASSUME ViewInv, NEW f \in Flushes, ReadCounts(f)
    PROVE  ViewInv'
<1>t. ViewTypeOK
  BY DEF ViewInv
<1>1. ViewTypeOK'
  BY <1>t, ViewAssumption DEF ReadCounts, ViewTypeOK, NoFlush
<1>2. UNCHANGED <<rows, viewCount, redis, call, seen, lossy>>
  BY DEF ReadCounts
<1>3. CallHasVehicle'
  BY <1>2 DEF ViewInv, CallHasVehicle
<1>4. flush'[f].counts = redis /\ flush'[f].pc = "write" /\ flush[f].pc = "idle"
  BY <1>t DEF ReadCounts, ViewTypeOK, NoFlush
<1>5. \A g \in Flushes : g # f => flush'[g] = flush[g]
  BY <1>t DEF ReadCounts, ViewTypeOK
<1>6. \A w \in Vehicles : w \notin twice' => w \notin twice /\ (redis[w] > 0 => InFlush(w) = {})
  BY DEF ReadCounts
<1>7. \A g \in Flushes, w \in Vehicles : Deleting(g, w)' <=> Deleting(g, w)
  BY <1>4, <1>5 DEF Deleting
<1>8. ViewsAreCounted'
  BY <1>2, <1>4, <1>5, <1>6, <1>7 DEF ViewInv, ViewsAreCounted, Deleting
<1>9. ASSUME NEW g \in Flushes, NEW w \in Vehicles
      PROVE  NothingCameMeanwhile(g, w)' /\ CounterIsMine(g, w)'
  <2>1. NothingCameMeanwhile(g, w)'
    <3>1. CASE g = f
      BY <3>1, <1>2, <1>4, <1>7, <1>t DEF NothingCameMeanwhile, Deleting, ViewTypeOK
    <3>2. CASE g # f
      BY <3>2, <1>2, <1>5, <1>7 DEF ViewInv, NothingCameMeanwhile
    <3> QED  BY <3>1, <3>2
  <2>2. ASSUME w \notin twice', flush'[g].counts[w] > 0
        PROVE  /\ redis'[w] >= flush'[g].counts[w]
               /\ \A h \in Flushes : flush'[h].counts[w] > 0 => h = g
               /\ ~Deleting(g, w)' => viewCount'[w] + redis'[w] <= seen'[w]
    <3>1. g = f
      BY <2>2, <1>5, <1>6, <1>t, NotInFlush DEF ViewInv, CounterIsMine, ViewTypeOK
    <3>2. InFlush(w) = {}
      BY <2>2, <3>1, <1>4, <1>6
    <3>3. \A h \in Flushes : flush[h].counts[w] = 0 /\ ~Deleting(h, w)
      BY <3>2, <1>t, NotInFlush
    <3>4. viewCount[w] + redis[w] <= seen[w]
      BY <2>2, <3>3, <1>6 DEF ViewInv, ViewsAreCounted
    <3> QED  BY <3>1, <3>3, <3>4, <1>2, <1>4, <1>5, <1>t DEF ViewTypeOK
  <2> QED  BY <2>1, <2>2 DEF CounterIsMine
<1> QED  BY <1>1, <1>3, <1>8, <1>9 DEF ViewInv

(* Adding a counter to the table: for now both hold it.                    *)
LEMMA AddCountStep ==
    ASSUME ViewInv, NEW f \in Flushes, NEW v \in Vehicles, AddCount(f, v)
    PROVE  ViewInv'
<1>t. ViewTypeOK
  BY DEF ViewInv
<1>f. flush' = [flush EXCEPT ![f] = [pc |-> "delete", vehicle |-> v, counts |-> flush[f].counts]]
  BY <1>t DEF AddCount, Turn, ViewTypeOK
<1>1. ViewTypeOK'
  <2>1. /\ viewCount' \in [Vehicles -> Nat] /\ lossy' \subseteq Vehicles
        /\ UNCHANGED <<rows, redis, call, seen, twice>>
    BY <1>t DEF AddCount, ViewTypeOK
  <2>2. flush' \in [Flushes -> [pc : {"idle", "write", "delete"}, vehicle : Vehicles \cup {None},
                                counts : [Vehicles -> Nat]]]
    BY <1>f, <1>t DEF ViewTypeOK
  <2>3. \A g \in Flushes : flush'[g].pc = "delete" =>
           flush'[g].vehicle \in Vehicles /\ flush'[g].counts[flush'[g].vehicle] > 0
    BY <1>f, <1>t DEF AddCount, ViewTypeOK
  <2> QED  BY <2>1, <2>2, <2>3, <1>t DEF ViewTypeOK
<1>2. UNCHANGED <<rows, redis, call, seen, twice>>
  BY DEF AddCount
<1>3. CallHasVehicle'
  BY <1>2 DEF ViewInv, CallHasVehicle
<1>4. /\ \A g \in Flushes : flush'[g].counts = flush[g].counts
      /\ \A g \in Flushes, w \in Vehicles : Deleting(g, w)' <=> Deleting(g, w) \/ (g = f /\ w = v)
      /\ flush[f].counts[v] > 0 /\ ~Deleting(f, v)
  BY <1>t DEF AddCount, Turn, ViewTypeOK, Deleting
<1>5. \A w \in Vehicles : w # v => viewCount'[w] = viewCount[w] /\ (w \in lossy' <=> w \in lossy)
  BY <1>t DEF AddCount, ViewTypeOK
<1>6. \/ viewCount'[v] = viewCount[v] + flush[f].counts[v] /\ lossy' = lossy
      \/ viewCount'[v] = viewCount[v] /\ v \in lossy'
  BY <1>t DEF AddCount, ViewTypeOK
<1>n. /\ viewCount[v] \in Nat /\ redis[v] \in Nat /\ seen[v] \in Nat
      /\ \A g \in Flushes : flush[g].counts[v] \in Nat
  BY <1>t DEF ViewTypeOK
<1>7. ViewsAreCounted'
  <2> SUFFICES ASSUME NEW w \in Vehicles
               PROVE  /\ w \notin lossy' => viewCount'[w] + redis'[w] >= seen'[w]
                      /\ w \notin twice' =>
                            \/ viewCount'[w] + redis'[w] <= seen'[w]
                            \/ \E g \in Flushes : /\ Deleting(g, w)'
                                                  /\ viewCount'[w] + redis'[w] <= seen'[w] + flush'[g].counts[w]
    BY DEF ViewsAreCounted
  <2>1. CASE w # v
    BY <2>1, <1>2, <1>4, <1>5 DEF ViewInv, ViewsAreCounted
  <2>2. CASE w = v
    <3>1. v \notin lossy' => viewCount'[v] + redis'[v] >= seen'[v]
      BY <1>2, <1>6, <1>n, <1>4 DEF ViewInv, ViewsAreCounted
    <3>2. v \notin twice => viewCount[v] + redis[v] <= seen[v]
      BY <1>4 DEF ViewInv, CounterIsMine
    <3>3. v \notin twice => viewCount'[v] + redis'[v] <= seen'[v] + flush'[f].counts[v]
      BY <3>2, <1>2, <1>4, <1>6, <1>n
    <3> QED  BY <2>2, <3>1, <3>3, <1>2, <1>4
  <2> QED  BY <2>1, <2>2
<1>8. ASSUME NEW g \in Flushes, NEW w \in Vehicles
      PROVE  NothingCameMeanwhile(g, w)' /\ CounterIsMine(g, w)'
  <2>1. CASE w # v
    BY <2>1, <1>2, <1>4, <1>5 DEF ViewInv, NothingCameMeanwhile, CounterIsMine
  <2>2. CASE w = v
    <3>1. NothingCameMeanwhile(g, w)'
      <4> SUFFICES ASSUME v \notin lossy', flush'[g].counts[v] > 0
                   PROVE  /\ redis'[v] <= flush'[g].counts[v]
                          /\ Deleting(g, v)' => viewCount'[v] >= seen'[v]
        BY <2>2 DEF NothingCameMeanwhile
      <4>1. v \notin lossy /\ viewCount'[v] = viewCount[v] + flush[f].counts[v]
        BY <1>6
      <4>2. redis[v] <= flush[f].counts[v] /\ redis[v] <= flush[g].counts[v]
        BY <4>1, <1>4 DEF ViewInv, NothingCameMeanwhile
      <4>3. viewCount[v] + redis[v] >= seen[v]
        BY <4>1 DEF ViewInv, ViewsAreCounted
      <4> QED  BY <4>1, <4>2, <4>3, <1>2, <1>4, <1>n
    <3>2. CounterIsMine(g, w)'
      BY <2>2, <1>2, <1>4 DEF ViewInv, CounterIsMine
    <3> QED  BY <3>1, <3>2
  <2> QED  BY <2>1, <2>2
<1> QED  BY <1>1, <1>3, <1>7, <1>8 DEF ViewInv

(* Deleting a counter: the table alone holds what was flushed.             *)
LEMMA DeleteCountStep ==
    ASSUME ViewInv, NEW f \in Flushes, NEW v \in Vehicles, DeleteCount(f, v)
    PROVE  ViewInv'
<1> DEFINE rest == [flush[f].counts EXCEPT ![v] = 0]
<1>t. ViewTypeOK
  BY DEF ViewInv
<1>d. Deleting(f, v) /\ flush[f].counts[v] > 0 /\ flush[f].counts \in [Vehicles -> Nat]
  BY <1>t DEF DeleteCount, Forget, Deleting, ViewTypeOK
<1>r. rest \in [Vehicles -> Nat] /\ rest[v] = 0 /\ \A w \in Vehicles : w # v => rest[w] = flush[f].counts[w]
  BY <1>d
<1>2. UNCHANGED <<rows, viewCount, call, seen, lossy, twice>>
  BY DEF DeleteCount, Forget
<1>3. redis' = [redis EXCEPT ![v] = 0]
  BY DEF DeleteCount, Forget
<1>4. \A g \in Flushes : g # f => flush'[g] = flush[g]
  BY <1>t DEF DeleteCount, Forget, ViewTypeOK
<1>5. flush'[f] \in {NoFlush, [pc |-> "write", vehicle |-> None, counts |-> rest]} /\ flush'[f].counts = rest
  BY <1>t DEF DeleteCount, Forget, ViewTypeOK, NoFlush
<1>6. flush'[f].pc # "delete" /\ flush'[f] \in [pc : {"idle", "write", "delete"}, vehicle : Vehicles \cup {None},
                                                  counts : [Vehicles -> Nat]]
  BY <1>5, <1>r, ZeroType DEF NoFlush
<1>1. ViewTypeOK'
  <2>1. redis' \in [Vehicles -> Nat]
    BY <1>3, <1>t DEF ViewTypeOK
  <2>2. flush' \in [Flushes -> [pc : {"idle", "write", "delete"}, vehicle : Vehicles \cup {None},
                                counts : [Vehicles -> Nat]]]
    <3>1. flush' = [flush EXCEPT ![f] = flush'[f]]
      BY <1>t DEF DeleteCount, Forget, ViewTypeOK
    <3> QED  BY <3>1, <1>6, <1>t DEF ViewTypeOK
  <2>3. \A g \in Flushes : flush'[g].pc = "delete" =>
           flush'[g].vehicle \in Vehicles /\ flush'[g].counts[flush'[g].vehicle] > 0
    BY <1>4, <1>6, <1>t DEF ViewTypeOK
  <2> QED  BY <2>1, <2>2, <2>3, <1>2, <1>t DEF ViewTypeOK
<1>7. CallHasVehicle'
  BY <1>2 DEF ViewInv, CallHasVehicle
<1>8. /\ \A g \in Flushes, w \in Vehicles : Deleting(g, w)' <=> Deleting(g, w) /\ g # f
      /\ \A w \in Vehicles : w # v => ~Deleting(f, w)
  BY <1>4, <1>6, <1>d DEF Deleting
<1>9. /\ redis'[v] = 0
      /\ \A w \in Vehicles : w # v => redis'[w] = redis[w]
      /\ \A g \in Flushes, w \in Vehicles : w # v => flush'[g].counts[w] = flush[g].counts[w]
      /\ flush'[f].counts[v] = 0
      /\ \A g \in Flushes : g # f => flush'[g].counts[v] = flush[g].counts[v]
  BY <1>3, <1>4, <1>5, <1>r, <1>t DEF ViewTypeOK
<1>n. /\ viewCount[v] \in Nat /\ redis[v] \in Nat /\ seen[v] \in Nat
      /\ \A g \in Flushes : flush[g].counts[v] \in Nat
  BY <1>t DEF ViewTypeOK
<1>m. v \notin twice => /\ redis[v] >= flush[f].counts[v]
                        /\ \A g \in Flushes : flush[g].counts[v] > 0 => g = f
  BY <1>d DEF ViewInv, CounterIsMine
<1>10. ViewsAreCounted'
  <2> SUFFICES ASSUME NEW w \in Vehicles
               PROVE  /\ w \notin lossy' => viewCount'[w] + redis'[w] >= seen'[w]
                      /\ w \notin twice' =>
                            \/ viewCount'[w] + redis'[w] <= seen'[w]
                            \/ \E g \in Flushes : /\ Deleting(g, w)'
                                                  /\ viewCount'[w] + redis'[w] <= seen'[w] + flush'[g].counts[w]
    BY DEF ViewsAreCounted
  <2>1. CASE w # v
    BY <2>1, <1>2, <1>8, <1>9 DEF ViewInv, ViewsAreCounted
  <2>2. CASE w = v
    <3>1. v \notin lossy => viewCount[v] >= seen[v]
      BY <1>d DEF ViewInv, NothingCameMeanwhile
    <3>2. ASSUME v \notin twice
          PROVE  viewCount[v] <= seen[v]
      <4>1. CASE viewCount[v] + redis[v] <= seen[v]
        BY <4>1, <1>n
      <4>2. CASE \E g \in Flushes : Deleting(g, v) /\ viewCount[v] + redis[v] <= seen[v] + flush[g].counts[v]
        <5>1. PICK g \in Flushes : Deleting(g, v) /\ viewCount[v] + redis[v] <= seen[v] + flush[g].counts[v]
          BY <4>2
        <5>2. g = f
          BY <5>1, <3>2, <1>m, <1>t DEF Deleting, ViewTypeOK
        <5> QED  BY <5>1, <5>2, <3>2, <1>m, <1>n
      <4> QED  BY <3>2, <4>1, <4>2 DEF ViewInv, ViewsAreCounted
    <3> QED  BY <2>2, <3>1, <3>2, <1>2, <1>9, <1>n
  <2> QED  BY <2>1, <2>2
<1>11. ASSUME NEW g \in Flushes, NEW w \in Vehicles
       PROVE  NothingCameMeanwhile(g, w)' /\ CounterIsMine(g, w)'
  <2>1. CASE w # v
    BY <2>1, <1>2, <1>8, <1>9 DEF ViewInv, NothingCameMeanwhile, CounterIsMine
  <2>2. CASE w = v
    <3>1. NothingCameMeanwhile(g, w)'
      BY <2>2, <1>2, <1>8, <1>9, <1>n DEF ViewInv, NothingCameMeanwhile
    <3>2. CounterIsMine(g, w)'
      BY <2>2, <1>2, <1>9, <1>m DEF CounterIsMine
    <3> QED  BY <3>1, <3>2
  <2> QED  BY <2>1, <2>2
<1> QED  BY <1>1, <1>7, <1>10, <1>11 DEF ViewInv

(* A flush that ends between UPDATE and HDEL leaves a counter counted      *)
(* twice; elsewhere it leaves things as they were.                         *)
LEMMA FlushFailsStep ==
    ASSUME ViewInv, NEW f \in Flushes, FlushFails(f)
    PROVE  ViewInv'
<1>t. ViewTypeOK
  BY DEF ViewInv
<1>2. UNCHANGED <<rows, viewCount, redis, call, seen, lossy>>
  BY DEF FlushFails
<1>1. ViewTypeOK'
  BY <1>2, <1>t, ZeroType DEF FlushFails, ViewTypeOK, NoFlush
<1>3. CallHasVehicle'
  BY <1>2 DEF ViewInv, CallHasVehicle
<1>4. /\ \A g \in Flushes : g # f => flush'[g] = flush[g]
      /\ flush'[f].pc = "idle" /\ \A w \in Vehicles : flush'[f].counts[w] = 0
  BY <1>t, ZeroType DEF FlushFails, ViewTypeOK, NoFlush
<1>5. \A w \in Vehicles : w \notin twice' => w \notin twice /\ ~Deleting(f, w)
  BY <1>t DEF FlushFails, ViewTypeOK, Deleting
<1>6. ViewsAreCounted'
  BY <1>2, <1>4, <1>5 DEF ViewInv, ViewsAreCounted, Deleting
<1>7. ASSUME NEW g \in Flushes, NEW w \in Vehicles
      PROVE  NothingCameMeanwhile(g, w)' /\ CounterIsMine(g, w)'
  BY <1>2, <1>4, <1>5 DEF ViewInv, NothingCameMeanwhile, CounterIsMine, Deleting
<1> QED  BY <1>1, <1>3, <1>6, <1>7 DEF ViewInv

LEMMA DeleteVehicleStep ==
    ASSUME ViewInv, NEW v \in Vehicles, DeleteVehicle(v)
    PROVE  ViewInv'
BY DEF DeleteVehicle, ViewInv, ViewTypeOK, ViewsAreCounted, CallHasVehicle,
   NothingCameMeanwhile, CounterIsMine, Deleting

LEMMA ViewStutter ==
    ASSUME ViewInv, UNCHANGED viewVars
    PROVE  ViewInv'
BY DEF viewVars, ViewInv, ViewTypeOK, ViewsAreCounted, CallHasVehicle,
   NothingCameMeanwhile, CounterIsMine, Deleting

-----------------------------------------------------------------------------
(* Every state keeps what a flush relies on (vehicles.service.ts:109-147). *)
THEOREM ViewInvariant == ViewSpec => []ViewInv
<1>1. ViewInv /\ [ViewNext]_viewVars => ViewInv'
  BY FindOneStep, CountViewStep, CountFailsStep, CountInTableStep, FindOneFailsStep,
     ReadCountsStep, AddCountStep, DeleteCountStep, FlushFailsStep, DeleteVehicleStep,
     ViewStutter DEF ViewNext
<1> QED  BY ViewInitially, <1>1, PTL DEF ViewSpec

(* Rows, counters, calls and flushes keep their types.                     *)
THEOREM ViewsTypeCorrect == ViewSpec => []ViewTypeOK
<1>1. ViewInv => ViewTypeOK
  BY DEF ViewInv
<1> QED  BY ViewInvariant, <1>1, PTL

(* Every answered view is counted once, outside the windows of findOne and *)
(* flushViewCounts that lossy and twice name.                              *)
THEOREM ViewsCounted == ViewSpec => []ViewsAreCounted
<1>1. ViewInv => ViewsAreCounted
  BY DEF ViewInv
<1> QED  BY ViewInvariant, <1>1, PTL
=============================================================================
