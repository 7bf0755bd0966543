-------------------------------- MODULE Views --------------------------------
(***************************************************************************)
(* How often a vehicle was viewed (src/src/modules/vehicles/               *)
(* vehicles.service.ts:95-150): findOne counts a view in the Redis hash    *)
(* vehicle:views, or in the table when Redis refuses; every five minutes   *)
(* the cron of every API instance (vehicles-cron.service.ts) adds the      *)
(* counters to the table and deletes them, one vehicle after the other.    *)
(* None of this is a transaction: every call to Redis or PostgreSQL is a   *)
(* step, and each of them may fail.                                        *)
(***************************************************************************)
EXTENDS Integers

CONSTANTS
    Vehicles,
    Requests,   \* slots for findOne in flight
    Flushes,    \* slots for flushes in flight, of one instance or several
    MaxViews,   \* bound: views of a vehicle, and its count before it is
                \* counted twice once more
    None

ASSUME ViewAssumption == MaxViews \in Nat /\ None \notin Vehicles

VARIABLES
    rows,       \* the vehicles with a row
    viewCount,  \* vehicles.view_count
    redis,      \* vehicle:views
    call,       \* what each findOne in flight is about to do
    flush,      \* what each flush in flight has read and still has to do
    seen,       \* history: views of each vehicle that were answered
    lossy,      \* history: vehicles viewed or not updated while being flushed
    twice       \* history: vehicles flushed by two at once or not deleted
                \* afterwards, or counted without an answer: Redis reported
                \* an error, or the instance died after the fallback

viewVars == <<rows, viewCount, redis, call, flush, seen, lossy, twice>>

-----------------------------------------------------------------------------
Zero == [v \in Vehicles |-> 0]

NoCall == [pc |-> "idle", vehicle |-> None]

(* counts: the entries of HGETALL that are not dealt with yet.             *)
NoFlush == [pc |-> "idle", vehicle |-> None, counts |-> Zero]

InFlush(v) == {f \in Flushes : flush[f].counts[v] > 0}

ViewInit ==
    /\ rows = Vehicles
    /\ viewCount = Zero
    /\ redis = Zero
    /\ call = [r \in Requests |-> NoCall]
    /\ flush = [f \in Flushes |-> NoFlush]
    /\ seen = Zero
    /\ lossy = {} /\ twice = {}

-----------------------------------------------------------------------------
(* findOne                                                                 *)

FindOne(r, v) ==
    /\ call[r] = NoCall
    /\ v \in rows
    /\ seen[v] < MaxViews
    /\ call' = [call EXCEPT ![r] = [pc |-> "count", vehicle |-> v]]
    /\ UNCHANGED <<rows, viewCount, redis, flush, seen, lossy, twice>>

Answer(r) ==
    /\ call' = [call EXCEPT ![r] = NoCall]
    /\ seen' = [seen EXCEPT ![call[r].vehicle] = @ + 1]

(* HINCRBY.  A flush that has read this counter will delete it.            *)
Increment(v) ==
    /\ redis' = [redis EXCEPT ![v] = @ + 1]
    /\ lossy' = IF InFlush(v) = {} THEN lossy ELSE lossy \cup {v}

CountView(r) ==
    /\ call[r].pc = "count"
    /\ Increment(call[r].vehicle)
    /\ Answer(r)
    /\ UNCHANGED <<rows, viewCount, flush, twice>>

(* Bound on the failures that count views again.                           *)
MayCountTwice(v) == viewCount[v] + redis[v] < MaxViews

(* Redis is down, or its answer was lost after it had counted (or there is *)
(* nobody any more to hear it: FindOneFails is next).                      *)
CountFails(r) ==
    /\ call[r].pc = "count"
    /\ call' = [call EXCEPT ![r].pc = "fallback"]
    /\ \/ UNCHANGED <<redis, lossy, twice>>
       \/ /\ MayCountTwice(call[r].vehicle)
          /\ Increment(call[r].vehicle)
          /\ twice' = twice \cup {call[r].vehicle}
    /\ UNCHANGED <<rows, viewCount, flush, seen>>

(* The fallback, and the answer, unless the instance dies in between.      *)
CountInTable(r) ==
    /\ call[r].pc = "fallback"
    /\ call[r].vehicle \in rows
    /\ viewCount' = [viewCount EXCEPT ![call[r].vehicle] = @ + 1]
    /\ \/ Answer(r) /\ UNCHANGED twice
       \/ /\ MayCountTwice(call[r].vehicle)
          /\ call' = [call EXCEPT ![r] = NoCall]
          /\ twice' = twice \cup {call[r].vehicle}
          /\ UNCHANGED seen
    /\ UNCHANGED <<rows, redis, flush, lossy>>

(* The vehicle is gone, PostgreSQL refuses, or the instance dies.          *)
FindOneFails(r) ==
    /\ call[r] # NoCall
    /\ call' = [call EXCEPT ![r] = NoCall]
    /\ UNCHANGED <<rows, viewCount, redis, flush, seen, lossy, twice>>

-----------------------------------------------------------------------------
(* flushViewCounts                                                         *)

(* Slip: the counters are deleted as they are read, to lose no late view.  *)
TakeCounts(f) ==
    /\ flush[f] = NoFlush /\ redis # Zero
    /\ flush' = [flush EXCEPT ![f] = [NoFlush EXCEPT !.pc = "write", !.counts = redis]]
    /\ redis' = Zero
    /\ UNCHANGED <<rows, viewCount, call, seen, lossy, twice>>

(* HGETALL                                                                 *)
ReadCounts(f) ==
    /\ flush[f] = NoFlush /\ redis # Zero
    /\ flush' = [flush EXCEPT ![f] = [NoFlush EXCEPT !.pc = "write", !.counts = redis]]
    /\ twice' = twice \cup {v \in Vehicles : redis[v] > 0 /\ InFlush(v) # {}}
    /\ UNCHANGED <<rows, viewCount, redis, call, seen, lossy>>

Turn(f, pc, v) == flush' = [flush EXCEPT ![f] = [pc |-> pc, vehicle |-> v, counts |-> @.counts]]

(* Slip: no catch, so that a deleted vehicle ends the flush.               *)
AddCountOrThrow(f, v) ==
    /\ flush[f].pc = "write" /\ flush[f].counts[v] > 0
    /\ IF v \in rows
       THEN Turn(f, "delete", v) /\ viewCount' = [viewCount EXCEPT ![v] = @ + flush[f].counts[v]]
       ELSE flush' = [flush EXCEPT ![f] = NoFlush] /\ UNCHANGED viewCount
    /\ UNCHANGED <<rows, redis, call, seen, lossy, twice>>

(* The entries come in any order; whatever error the UPDATE meets, of a    *)
(* vehicle that is there or is not, is taken for a deleted vehicle.        *)
AddCount(f, v) ==
    /\ flush[f].pc = "write" /\ flush[f].counts[v] > 0
    /\ Turn(f, "delete", v)
    /\ \/ /\ v \in rows
          /\ viewCount' = [viewCount EXCEPT ![v] = @ + flush[f].counts[v]]
          /\ UNCHANGED lossy
       \/ UNCHANGED viewCount /\ lossy' = lossy \cup {v}
    /\ UNCHANGED <<rows, redis, call, seen, twice>>

Forget(f, v, remaining) ==
    LET rest == [flush[f].counts EXCEPT ![v] = 0] IN
    /\ flush[f].pc = "delete" /\ flush[f].vehicle = v
    /\ redis' = [redis EXCEPT ![v] = remaining]
    /\ flush' = [flush EXCEPT ![f] = IF rest = Zero THEN NoFlush
                                     ELSE [pc |-> "write", vehicle |-> None, counts |-> rest]]
    /\ UNCHANGED <<rows, viewCount, call, seen, lossy, twice>>

(* Slip: HINCRBY by what was added, negative, to keep what came meanwhile. *)
SubtractCount(f, v) == Forget(f, v, redis[v] - flush[f].counts[v])

(* HDEL, and on to the next entry.                                         *)
DeleteCount(f, v) == Forget(f, v, 0)

(* Redis refuses the HDEL, or the instance dies.                           *)
FlushFails(f) ==
    /\ flush[f] # NoFlush
    /\ \/ flush[f].pc = "write" /\ UNCHANGED twice
       \/ /\ flush[f].pc = "delete" /\ MayCountTwice(flush[f].vehicle)
          /\ twice' = twice \cup {flush[f].vehicle}
    /\ flush' = [flush EXCEPT ![f] = NoFlush]
    /\ UNCHANGED <<rows, viewCount, redis, call, seen, lossy>>

-----------------------------------------------------------------------------
DeleteVehicle(v) ==
    /\ v \in rows
    /\ rows' = rows \ {v}
    /\ UNCHANGED <<viewCount, redis, call, flush, seen, lossy, twice>>

ViewNext ==
    \/ \E v \in Vehicles : DeleteVehicle(v)
    \/ \E r \in Requests : \/ \E v \in Vehicles : FindOne(r, v)
                           \/ CountView(r) \/ CountFails(r) \/ CountInTable(r) \/ FindOneFails(r)
    \/ \E f \in Flushes : \/ ReadCounts(f) \/ FlushFails(f)
                          \/ \E v \in Vehicles : AddCount(f, v) \/ DeleteCount(f, v)

ViewSpec == ViewInit /\ [][ViewNext]_viewVars

(* The cron comes again every five minutes, and what a flush does next     *)
(* does not fail every time.                                               *)
ViewFairSpec ==
    /\ ViewSpec
    /\ \A f \in Flushes :
          /\ SF_viewVars(ReadCounts(f))
          /\ \A v \in Vehicles : SF_viewVars(AddCount(f, v)) /\ SF_viewVars(DeleteCount(f, v))

-----------------------------------------------------------------------------
ViewTypeOK ==
    /\ rows \subseteq Vehicles /\ lossy \subseteq Vehicles /\ twice \subseteq Vehicles
    /\ viewCount \in [Vehicles -> Nat] /\ redis \in [Vehicles -> Nat] /\ seen \in [Vehicles -> Nat]
    /\ call \in [Requests -> [pc : {"idle", "count", "fallback"}, vehicle : Vehicles \cup {None}]]
    /\ flush \in [Flushes -> [pc : {"idle", "write", "delete"}, vehicle : Vehicles \cup {None},
                              counts : [Vehicles -> Nat]]]
    /\ \A f \in Flushes : flush[f].pc = "delete" =>
          flush[f].vehicle \in Vehicles /\ flush[f].counts[flush[f].vehicle] > 0

Deleting(f, v) == flush[f].pc = "delete" /\ flush[f].vehicle = v

(* Table and counter together hold every view that was answered, once: one *)
(* is only lost when it came (or the UPDATE failed) during a flush of its  *)
(* vehicle, and only counted again when two flushes read the same counter, *)
(* one ended between UPDATE and HDEL, or a view was counted that Redis     *)
(* reported as an error or nobody was there to answer.  Between UPDATE and *)
(* HDEL both hold what is flushed (vehicles.service.ts:109-147).           *)
ViewsAreCounted ==
    \A v \in Vehicles :
        /\ v \notin lossy => viewCount[v] + redis[v] >= seen[v]
        /\ v \notin twice =>
              \/ viewCount[v] + redis[v] <= seen[v]
              \/ \E f \in Flushes : /\ Deleting(f, v)
                                    /\ viewCount[v] + redis[v] <= seen[v] + flush[f].counts[v]

(* No counter stays in Redis, a deleted vehicle's included, although it is *)
(* no error of the flush when there is no row to add it to (:141-146).     *)
CountersAreFlushed == \A v \in Vehicles : []<>(redis[v] = 0)

-----------------------------------------------------------------------------
(* Why: what a flush may rely on from HGETALL to HDEL.                     *)

(* No view is added to a counter while it is flushed (or it is lossy), and *)
(* once the table has been updated it holds all views.                     *)
NothingCameMeanwhile(f, v) ==
    v \notin lossy /\ flush[f].counts[v] > 0 =>
        /\ redis[v] <= flush[f].counts[v]
        /\ Deleting(f, v) => viewCount[v] >= seen[v]

(* Nobody else flushes the counter (or it is counted twice), so what was   *)
(* read is still there to be deleted.                                      *)
CounterIsMine(f, v) ==
    v \notin twice /\ flush[f].counts[v] > 0 =>
        /\ redis[v] >= flush[f].counts[v]
        /\ \A g \in Flushes : flush[g].counts[v] > 0 => g = f
        /\ ~Deleting(f, v) => viewCount[v] + redis[v] <= seen[v]

CallHasVehicle == \A r \in Requests : call[r].pc # "idle" => call[r].vehicle \in Vehicles

ViewInv ==
    /\ ViewTypeOK /\ ViewsAreCounted /\ CallHasVehicle
    /\ \A f \in Flushes, v \in Vehicles : NothingCameMeanwhile(f, v) /\ CounterIsMine(f, v)
=============================================================================
