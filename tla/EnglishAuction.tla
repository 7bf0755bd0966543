--------------------------- MODULE EnglishAuction ---------------------------
(***************************************************************************)
(* What bidding promises, in one step per bid: on every auction the offers *)
(* come one after the other, each is made by somebody else than the seller *)
(* and is at least the increment above the price that stands, and only an  *)
(* offer that stands or has stood is announced.  With the offer, in the    *)
(* same step, go its money and that of the one it tops: the offer's amount *)
(* leaves its bidder's funds, and what another bidder had offered comes    *)
(* back.  No locks, no statements and no transactions: module Bidding is   *)
(* shown to implement this.                                                *)
(***************************************************************************)
EXTENDS Integers

CONSTANTS Auctions, Owners, Bidders, Amounts, StartingPrice, BidIncrement, Deposit, NoTop

VARIABLES
    top,        \* the highest offer on each auction, or NoTop
    offers,     \* how many offers were made on it
    announced,  \* the offers its audience was told of
    funds       \* the money everybody can dispose of

auctionVars == <<top, offers, announced, funds>>

Init ==
    /\ top = [a \in Auctions |-> NoTop]
    /\ offers = [a \in Auctions |-> 0]
    /\ announced = [a \in Auctions |-> {}]
    /\ funds = [v \in Owners |-> Deposit]

Price(a) == IF top[a] = NoTop THEN StartingPrice ELSE top[a].amount

(* A bidder who tops an own offer does not get the money back.             *)
FundsAfter(a, u, amount) ==
    [v \in Owners |-> CASE v = u                      -> funds[v] - amount
                        [] v # u /\ v = top[a].bidder -> funds[v] + top[a].amount
                        [] OTHER                      -> funds[v]]

Offer(a, u, amount) ==
    /\ amount >= Price(a) + BidIncrement
    /\ top' = [top EXCEPT ![a] = [bidder |-> u, amount |-> amount]]
    /\ offers' = [offers EXCEPT ![a] = @ + 1]
    /\ funds' = FundsAfter(a, u, amount)
    /\ UNCHANGED announced

(* An announcement tells of an offer that was made, the standing one or an *)
(* earlier one: announcements may be late, out of order or missing.        *)
Announce(a, u, amount) ==
    /\ top[a] # NoTop
    /\ amount <= top[a].amount
    /\ amount = top[a].amount => u = top[a].bidder
    /\ announced' = [announced EXCEPT ![a] = @ \cup {[bidder |-> u, amount |-> amount]}]
    /\ UNCHANGED <<top, offers, funds>>

(* Money comes and goes for other reasons, one purse at a time.            *)
Move(v) ==
    /\ funds' = [funds EXCEPT ![v] = funds'[v]]
    /\ UNCHANGED <<top, offers, announced>>

Next ==
    \/ \E a \in Auctions, u \in Bidders, amount \in Amounts :
          Offer(a, u, amount) \/ Announce(a, u, amount)
    \/ \E v \in Owners : Move(v)

Spec == Init /\ [][Next]_auctionVars
=============================================================================
