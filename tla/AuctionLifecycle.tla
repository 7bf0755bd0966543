-------------------------- MODULE AuctionLifecycle --------------------------
(***************************************************************************)
(* The life of an auction around its bids: AuctionsService.create,         *)
(* endAuction and cancelAuction, the Bull jobs that start and end it       *)
(* (auction.processor.ts), the vehicle's status and the passing of time.   *)
(*                                                                         *)
(* Auctions and vehicles share identifiers: Auction.vehicleId is unique    *)
(* (schema.prisma:210), so a vehicle is auctioned once.  A handler's row   *)
(* reads and its transaction are steps of their own; the statements of one *)
(* $transaction([...]) take effect together, once the auction's row is     *)
(* free.                                                                   *)
(***************************************************************************)
EXTENDS Bidding

CONSTANTS
    Handlers,   \* HTTP requests and job workers that can run at a time
    Edits       \* what sellers and admins set a vehicle's status to

VehicleStatus == {"DRAFT", "PUBLISHED", "IN_AUCTION", "SOLD", "ARCHIVED"}

ASSUME LifecycleAssumption == None \notin Handlers /\ Edits \subseteq VehicleStatus

VARIABLES
    started,   \* the auctions whose start time has passed
    vehicle,   \* the status of the auctioned vehicle
    job,       \* the start-auction and the end-auction job of each auction
    task,      \* what each handler is doing
    edited     \* history: vehicles whose status was set by other hands since
               \* their auction last set it

lifecycleVars == <<started, vehicle, job, task, edited>>
allVars == <<biddingVars, lifecycleVars>>

-----------------------------------------------------------------------------
(* A job is in the queue until a worker takes it; runs counts how often it *)
(* was taken, owner is the worker that has its lock.  Bull's defaults: no   *)
(* retry after a failure (attempts is not set), but a job whose worker     *)
(* stalled is taken again, once.                                           *)
NoJob == [state |-> "none", runs |-> 0, owner |-> None]
Queued == [NoJob EXCEPT !.state = "queued"]

NoTask == [pc |-> "idle", auction |-> None, winner |-> None]
Task(pc, a) == [NoTask EXCEPT !.pc = pc, !.auction = a]

LifecycleInit ==
    /\ InitWith(NewAuction("NONE"))
    /\ started = {}
    /\ vehicle = [a \in Auctions |-> "PUBLISHED"]
    /\ job = [a \in Auctions |-> [k \in {"start", "end"} |-> NoJob]]
    /\ task = [h \in Handlers |-> NoTask]
    /\ edited = {}

StartTimePasses(a) ==
    /\ a \notin started
    /\ started' = started \cup {a}
    /\ UNCHANGED <<biddingVars, vehicle, job, task, edited>>

EndTimePasses(a) ==
    /\ a \in started /\ a \notin over
    /\ over' = over \cup {a}
    /\ UNCHANGED <<walletVars, auction, bids, held, auctionLock, bid, announced,
                   lifecycleVars>>

-----------------------------------------------------------------------------
(* create: five calls, no transaction around them.                         *)

Become(h, t) == task' = [task EXCEPT ![h] = t]

(* The vehicle is published and has no running auction.                    *)
CreateAuction(h, a) ==
    /\ task[h] = NoTask
    /\ vehicle[a] = "PUBLISHED"
    /\ auction[a].status \in {"NONE", "ENDED", "CANCELLED"}
    /\ Become(h, Task("insert", a))
    /\ UNCHANGED <<biddingVars, started, vehicle, job, edited>>

(* auction.create; a second row for the vehicle violates the constraint.   *)
InsertAuction(h) ==
    LET a == task[h].auction IN
    /\ task[h].pc = "insert"
    /\ \/ /\ auction[a].status = "NONE"
          /\ auction' = [auction EXCEPT ![a] =
                NewAuction(IF a \in started THEN "ACTIVE" ELSE "SCHEDULED")]
          /\ Become(h, Task("vehicle", a))
       \/ /\ auction[a].status # "NONE"
          /\ Become(h, NoTask)
          /\ UNCHANGED auction
    /\ UNCHANGED <<walletVars, bids, held, over, auctionLock, bid, announced,
                   started, vehicle, job, edited>>

(* The auction's own write of the vehicle's status.                        *)
SetVehicle(a, status) ==
    /\ vehicle' = [vehicle EXCEPT ![a] = status]
    /\ edited' = edited \ {a}

MarkVehicle(h) ==
    LET a == task[h].auction IN
    /\ task[h].pc = "vehicle"
    /\ SetVehicle(a, "IN_AUCTION")
    /\ Become(h, Task("queueStart", a))
    /\ UNCHANGED <<biddingVars, started, job>>

(* The clock is looked at again: no job when the start has passed by now.  *)
QueueStart(h) ==
    LET a == task[h].auction IN
    /\ task[h].pc = "queueStart"
    /\ job' = IF a \in started THEN job ELSE [job EXCEPT ![a]["start"] = Queued]
    /\ Become(h, Task("queueEnd", a))
    /\ UNCHANGED <<biddingVars, started, vehicle, edited>>

QueueEnd(h) ==
    LET a == task[h].auction IN
    /\ task[h].pc = "queueEnd"
    /\ job' = [job EXCEPT ![a]["end"] = Queued]
    /\ Become(h, NoTask)
    /\ UNCHANGED <<biddingVars, started, vehicle, edited>>

-----------------------------------------------------------------------------
(* The jobs, once their delay is over.                                     *)

Take(h, a, k) ==
    job' = [job EXCEPT ![a][k] = [state |-> "running", runs |-> @.runs + 1, owner |-> h]]

(* The worker h is through with the job.  A worker whose job was given to  *)
(* another one in the meantime has no say in what becomes of it.           *)
Leave(h, a, k, state) ==
    job' = IF job[a][k].owner = h
           THEN [job EXCEPT ![a][k] = [state |-> state, runs |-> @.runs, owner |-> None]]
           ELSE job

TakeStartJob(h, a) ==
    /\ task[h] = NoTask
    /\ job[a]["start"].state = "queued" /\ a \in started
    /\ Take(h, a, "start")
    /\ Become(h, Task("activate", a))
    /\ UNCHANGED <<biddingVars, started, vehicle, edited>>

(* handleStartAuction sets ACTIVE whatever the status is.                  *)
ActivateAuction(h) ==
    LET a == task[h].auction IN
    /\ task[h].pc = "activate"
    /\ auctionLock[a] = None
    /\ auction' = [auction EXCEPT ![a].status = "ACTIVE"]
    /\ Leave(h, a, "start", "done")
    /\ Become(h, NoTask)
    /\ UNCHANGED <<walletVars, bids, held, over, auctionLock, bid, announced,
                   started, vehicle, edited>>

(* Slip: an auction whose row is taken is passed over (SKIP LOCKED).       *)
TakeEndJobIfFree(h, a) ==
    /\ task[h] = NoTask
    /\ job[a]["end"].state = "queued" /\ a \in over
    /\ \/ /\ auction[a].status = "ACTIVE" /\ auctionLock[a] = None
          /\ Take(h, a, "end")
          /\ Become(h, [Task("settle", a) EXCEPT !.winner = TopBid(a).bidder])
       \/ /\ auction[a].status # "ACTIVE" \/ auctionLock[a] # None
          /\ job' = [job EXCEPT ![a]["end"].state = "done"]
          /\ UNCHANGED task
    /\ UNCHANGED <<biddingVars, started, vehicle, edited>>

(* endAuction reads the auction and its top bid, outside the transaction.  *)
TakeEndJob(h, a) ==
    /\ task[h] = NoTask
    /\ job[a]["end"].state = "queued" /\ a \in over
    /\ \/ /\ auction[a].status = "ACTIVE"
          /\ Take(h, a, "end")
          /\ Become(h, [Task("settle", a) EXCEPT !.winner = TopBid(a).bidder])
       \/ /\ auction[a].status # "ACTIVE"
          /\ job' = [job EXCEPT ![a]["end"].state = "done"]
          /\ UNCHANGED task
    /\ UNCHANGED <<biddingVars, started, vehicle, edited>>

(* Slip: the auction's row is written while a bid's transaction has it.    *)
SettleAuctionAtOnce(h) ==
    LET a == task[h].auction
        winner == task[h].winner
    IN
    /\ task[h].pc = "settle"
    /\ auction' = [auction EXCEPT ![a].status = "ENDED", ![a].winner = winner]
    /\ SetVehicle(a, IF winner = None THEN "PUBLISHED" ELSE "SOLD")
    /\ Become(h, Task("publish", a))
    /\ UNCHANGED <<walletVars, bids, held, over, auctionLock, bid, announced,
                   started, job>>

(* Slip: the vehicle's status follows the bids, the winner what was read.  *)
SettleAuctionReadingAgain(h) ==
    LET a == task[h].auction IN
    /\ task[h].pc = "settle"
    /\ auctionLock[a] = None
    /\ auction' = [auction EXCEPT ![a].status = "ENDED", ![a].winner = task[h].winner]
    /\ SetVehicle(a, IF bids[a] = {} THEN "PUBLISHED" ELSE "SOLD")
    /\ Become(h, Task("publish", a))
    /\ UNCHANGED <<walletVars, bids, held, over, auctionLock, bid, announced,
                   started, job>>

(* The transaction of endAuction waits for a bid that has the row, then    *)
(* writes what was decided before.                                         *)
SettleAuction(h) ==
    LET a == task[h].auction
        winner == task[h].winner
    IN
    /\ task[h].pc = "settle"
    /\ auctionLock[a] = None
    /\ auction' = [auction EXCEPT ![a].status = "ENDED", ![a].winner = winner]
    /\ SetVehicle(a, IF winner = None THEN "PUBLISHED" ELSE "SOLD")
    /\ Become(h, Task("publish", a))
    /\ UNCHANGED <<walletVars, bids, held, over, auctionLock, bid, announced,
                   started, job>>

(* Whether or not the event can be published, the job completes.           *)
PublishEnd(h) ==
    LET a == task[h].auction IN
    /\ task[h].pc = "publish"
    /\ Leave(h, a, "end", "done")
    /\ Become(h, NoTask)
    /\ UNCHANGED <<biddingVars, started, vehicle, edited>>

JobOf(h) == IF task[h].pc = "activate" THEN "start" ELSE "end"

(* Slip: a stalled job is queued again without end.                        *)
StallJobForever(h) ==
    LET a == task[h].auction
        k == JobOf(h)
    IN
    /\ task[h].pc \in {"activate", "settle", "publish"}
    /\ job[a][k].owner = h
    /\ Leave(h, a, k, "queued")
    /\ Become(h, NoTask) \/ UNCHANGED task
    /\ UNCHANGED <<biddingVars, started, vehicle, edited>>

(* The worker of a job stalls: its process died, or was blocked for so     *)
(* long that the job's lock expired and goes on later.                     *)
StallJob(h) ==
    LET a == task[h].auction
        k == JobOf(h)
    IN
    /\ task[h].pc \in {"activate", "settle", "publish"}
    /\ job[a][k].owner = h
    /\ Leave(h, a, k, IF job[a][k].runs < 2 THEN "queued" ELSE "failed")
    /\ Become(h, NoTask) \/ UNCHANGED task
    /\ UNCHANGED <<biddingVars, started, vehicle, edited>>

-----------------------------------------------------------------------------
(* cancelAuction, by the seller or an admin.                               *)

CancelAuction(h, a) ==
    /\ task[h] = NoTask
    /\ auction[a].status \notin {"NONE", "ENDED"}
    /\ Become(h, Task("cancel", a))
    /\ UNCHANGED <<biddingVars, started, vehicle, job, edited>>

CommitCancel(h) ==
    LET a == task[h].auction IN
    /\ task[h].pc = "cancel"
    /\ auctionLock[a] = None
    /\ auction' = [auction EXCEPT ![a].status = "CANCELLED"]
    /\ SetVehicle(a, "PUBLISHED")
    /\ Become(h, NoTask)
    /\ UNCHANGED <<walletVars, bids, held, over, auctionLock, bid, announced,
                   started, job>>

(* update, publish, approveVehicle and rejectVehicle write the status      *)
(* without looking at the auction, the middle two some time after they     *)
(* read DRAFT.                                                             *)
EditVehicle(a) ==
    /\ \E status \in Edits \ {vehicle[a]} : vehicle' = [vehicle EXCEPT ![a] = status]
    /\ edited' = edited \cup {a}
    /\ UNCHANGED <<biddingVars, started, job, task>>

-----------------------------------------------------------------------------
(* A call to the database or to Redis fails and the handler gives up where *)
(* it is; a job that fails is not tried again.                             *)
FailTask(h) ==
    LET a == task[h].auction
        k == JobOf(h)
    IN
    /\ task[h] # NoTask
    /\ \/ /\ task[h].pc \in {"activate", "settle"}
          /\ Leave(h, a, k, "failed")
       \/ /\ task[h].pc \in {"insert", "vehicle", "queueStart", "queueEnd", "cancel"}
          /\ UNCHANGED job
    /\ Become(h, NoTask)
    /\ UNCHANGED <<biddingVars, started, vehicle, edited>>

ProceedTask(h) ==
    \/ InsertAuction(h)
    \/ MarkVehicle(h)
    \/ QueueStart(h)
    \/ QueueEnd(h)
    \/ ActivateAuction(h)
    \/ SettleAuction(h)
    \/ PublishEnd(h)
    \/ CommitCancel(h)

TakeJob(h, a) == TakeStartJob(h, a) \/ TakeEndJob(h, a)

TaskStep(h) ==
    \/ \E a \in Auctions : CreateAuction(h, a) \/ CancelAuction(h, a) \/ TakeJob(h, a)
    \/ ProceedTask(h)
    \/ StallJob(h)
    \/ FailTask(h)

LifecycleNext ==
    \/ \E a \in Auctions : StartTimePasses(a) \/ EndTimePasses(a) \/ EditVehicle(a)
    \/ \E h \in Handlers : TaskStep(h)
    \/ \E r \in Requests : (BidStep(r) \/ WalletStep(r)) /\ UNCHANGED lifecycleVars

LifecycleSpec == LifecycleInit /\ [][LifecycleNext]_allVars

(* Handlers and bids go on while the system is up, a free row is given to  *)
(* whoever waits for it, and workers take jobs that are due.  Nothing is   *)
(* asked of StallJob and FailTask.                                         *)
LifecycleFairSpec ==
    /\ LifecycleSpec
    /\ \A h \in Handlers : SF_allVars(ProceedTask(h))
    /\ \A a \in Auctions : SF_allVars(\E h \in Handlers : TakeJob(h, a))
    /\ \A r \in Requests : SF_allVars(ProceedBid(r) /\ UNCHANGED lifecycleVars)

-----------------------------------------------------------------------------
TaskPc == {"idle", "insert", "vehicle", "queueStart", "queueEnd", "activate", "settle",
           "publish", "cancel"}

JobRow == [state : {"none", "queued", "running", "done", "failed"}, runs : 0 .. 2,
           owner : Handlers \cup {None}]

TaskRow == [pc : TaskPc, auction : Auctions \cup {None}, winner : Users \cup {None}]

LifecycleTypeOK ==
    /\ BiddingTypeOK
    /\ started \in SUBSET Auctions /\ over \subseteq started
    /\ vehicle \in [Auctions -> VehicleStatus]
    /\ job \in [Auctions -> [{"start", "end"} -> JobRow]]
    /\ task \in [Handlers -> TaskRow]
    /\ edited \in SUBSET Auctions

(* A bid is recorded only while the auction is ACTIVE: whoever ends or     *)
(* cancels it waits for the bid that has its row, and a bid that gets the  *)
(* row afterwards is refused (auctions.service.ts:151-161, :304-309).      *)
BidsOnlyWhileActive ==
    [][\A a \in Auctions : bids'[a] # bids[a] =>
          auction[a].status = "ACTIVE" /\ auction'[a].status = "ACTIVE"]_allVars

Best(a, u) == {b \in bids[a] : b.bidder = u /\ \A c \in bids[a] : c.bidder = u => c.amount <= b.amount}

(* endAuction may miss a bid that was in its transaction while the top bid *)
(* was read, but no more than one: after the end time no further bid gets  *)
(* past the check of end_time (auctions.service.ts:163, :293-302).         *)
AtMostOneBidMissed ==
    \A a \in Auctions : auction[a].status = "ENDED" =>
        IF auction[a].winner = None THEN Cardinality(bids[a]) <= 1
        ELSE \E best \in Best(a, auction[a].winner) :
                Cardinality({b \in bids[a] : b.amount > best.amount}) <= 1

(* The vehicle of an ended auction is SOLD exactly when there is a winner, *)
(* whatever is created, cancelled or run twice around it, and whatever its *)
(* status was set to before; what sets it afterwards does not ask          *)
(* (auctions.service.ts:304-316, vehicles.service.ts:178).                 *)
SoldMeansWon ==
    \A a \in Auctions \ edited : auction[a].status = "ENDED" =>
        (vehicle[a] = "SOLD" <=> auction[a].winner # None)

(* "Auto-closes auction" (ARCHITECTURE.md:145): an auction that is ACTIVE  *)
(* when its end job is due is closed, however long bids have its row and   *)
(* whichever of its workers stall; only a job that fails leaves it open.   *)
OverAuctionsClose ==
    \A a \in Auctions :
        (auction[a].status = "ACTIVE" /\ a \in over /\ job[a]["end"].state = "queued")
            ~> (auction[a].status # "ACTIVE" \/ job[a]["end"].state = "failed")

(* "Automatic retries on failure" (ARCHITECTURE.md:139): an end job that   *)
(* failed when it was run first is run again, or something else closes the *)
(* auction.  (A job run twice may have used up Bull's patience with its    *)
(* stalled workers.)                                                       *)
FailedJobIsRetried ==
    \A a \in Auctions :
        (auction[a].status = "ACTIVE" /\ job[a]["end"].state = "failed" /\ job[a]["end"].runs = 1)
            ~> (auction[a].status # "ACTIVE" \/ job[a]["end"].runs > 1)

(* "Auto-closes auction, determines winner" (ARCHITECTURE.md:145).         *)
WinnerIsHighestBidder ==
    \A a \in Auctions : auction[a].status = "ENDED" => auction[a].winner = TopBid(a).bidder

(* "start-auction: Transitions auction from SCHEDULED to ACTIVE"           *)
(* (ARCHITECTURE.md:144).                                                  *)
StartsFromScheduled ==
    [][\A a \in Auctions :
          auction[a].status \notin {"NONE", "ACTIVE"} /\ auction'[a].status = "ACTIVE"
              => auction[a].status = "SCHEDULED"]_allVars

(* "Cannot cancel an ended auction" (auctions.service.ts:347).             *)
EndedIsNotCancelled ==
    [][\A a \in Auctions : auction[a].status = "ENDED" =>
          auction'[a].status # "CANCELLED"]_allVars

-----------------------------------------------------------------------------
(* Why the invariants hold.                                                *)

(* Whoever changes an auction's status waits for the bid that has its row. *)
LockedIsActive == \A a \in Auctions : auctionLock[a] # None => auction[a].status = "ACTIVE"

(* A job that is queued may be taken once more.                            *)
JobsAreBounded ==
    \A a \in Auctions, k \in {"start", "end"} :
        /\ job[a][k].state = "queued" => job[a][k].runs < 2
        /\ job[a][k].state = "none" => job[a][k].owner = None

(* Before its row is there an auction has no bids and no end job.          *)
UnbornIsEmpty ==
    \A a \in Auctions : auction[a].status = "NONE" =>
        bids[a] = {} /\ job[a]["end"].state = "none"

Creating(h) == task[h].pc \in {"vehicle", "queueStart", "queueEnd"}

(* One handler at most is past the insert of an auction's row, and nothing *)
(* ends the auction before that handler has queued the job.                *)
CreationIsAlone ==
    \A h \in Handlers : Creating(h) =>
        /\ auction[task[h].auction].status \notin {"NONE", "ENDED"}
        /\ job[task[h].auction]["end"].state = "none"
        /\ \A g \in Handlers : Creating(g) /\ task[g].auction = task[h].auction => g = h

(* What was read as the winner w of auction a: its best bid was the top,   *)
(* and one bid at most was in its transaction meanwhile; once that one is  *)
(* in the table nobody has the auction's row any more.                     *)
DecidedOn(a, w) ==
    /\ a \in over
    /\ \E best \in IF w = None THEN {NoTop} ELSE Best(a, w) :
          LET missed == {b \in bids[a] : b.amount > best.amount} IN
          missed = {} \/ (auctionLock[a] = None /\ \E b \in missed : missed = {b})

TasksAreJustified ==
    \A h \in Handlers :
        /\ task[h].pc # "idle" => task[h].auction \in Auctions
        /\ task[h].pc = "settle" => /\ DecidedOn(task[h].auction, task[h].winner)
                                    /\ job[task[h].auction]["end"].state # "none"

EndedIsDecided ==
    \A a \in Auctions : auction[a].status = "ENDED" => DecidedOn(a, auction[a].winner)

(* The inductive invariant.                                                *)
LifecycleInv ==
    /\ BiddingInv
    /\ LifecycleTypeOK
    /\ LockedIsActive
    /\ JobsAreBounded
    /\ UnbornIsEmpty
    /\ CreationIsAlone
    /\ TasksAreJustified
    /\ EndedIsDecided
    /\ SoldMeansWon
=============================================================================
