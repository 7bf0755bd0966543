---------------------------- MODULE ListingsProofs ----------------------------
(***************************************************************************)
(* Vehicles, their images and the objects in the store agree whatever the  *)
(* number of vehicles, of images and of requests at a time: proofs of the  *)
(* properties of Listings.  An image is uploaded by one request, then      *)
(* referred to, then removed; what a step may do to one image is one of    *)
(* five things (Untouched, Lost, Born, Held, Kept), and each of them keeps *)
(* files and rows in agreement.                                            *)
(***************************************************************************)
EXTENDS Listings, FiniteSetTheorems, WellFoundedInduction, TLAPS

-----------------------------------------------------------------------------
(* The greatest of a set of bounded numbers.                               *)
LEMMA MaxFacts ==
    ASSUME NEW n \in Nat, NEW S \in SUBSET (0 .. n), S # {}
    PROVE  Max(S) \in S /\ \A x \in S : x <= Max(S)
<1> DEFINE Above(x) == {y \in S : y > x}
           T == {Above(x) : x \in S}
<1>1. IsFiniteSet(S)
  <2>1. IsFiniteSet(0 .. n)
    BY FS_Interval
  <2> QED  BY <2>1, FS_Subset
<1>2. IsWellFoundedOn(StrictSubsetOrdering(S), FiniteSubsetsOf(S))
  BY FS_StrictSubsetOrderingWellFounded
<1>3. T \subseteq FiniteSubsetsOf(S) /\ T # {}
  <2>1. \A x \in S : IsFiniteSet(Above(x))
    BY <1>1, FS_Subset
  <2> QED  BY <2>1 DEF FiniteSubsetsOf
<1>4. PICK least \in T : \A A \in T : <<A, least>> \notin StrictSubsetOrdering(S)
  <2> HIDE DEF T
  <2> QED  BY <1>2, <1>3, WFMin
<1>5. PICK m \in S : least = Above(m)
  BY <1>4
<1>6. \A x \in S : x <= m
  <2> SUFFICES ASSUME NEW x \in S, x > m
               PROVE  FALSE
    OBVIOUS
  <2>1. Above(x) \in T
    OBVIOUS
  <2>2. Above(x) \subseteq Above(m)
    <3>1. \A y \in S : y > x => y > m
      BY <1>5
    <3> QED  BY <3>1
  <2>3. x \in Above(m) /\ x \notin Above(x)
    OBVIOUS
  <2>4. <<Above(x), Above(m)>> \in StrictSubsetOrdering(S)
    BY <2>2, <2>3 DEF StrictSubsetOrdering
  <2> QED  BY <1>4, <1>5, <2>1, <2>4
<1> QED  BY <1>6 DEF Max

-----------------------------------------------------------------------------
(* Types of calls.                                                         *)

LEMMA CallIsTyped ==
    ASSUME NEW pc \in Pc, NEW v \in Vehicles \cup {None}, NEW files \in SUBSET Images
    PROVE  LET c == NewCall(pc, v, files) IN
           c \in CallRow /\ c.pc = pc /\ c.vehicle = v /\ c.files = files
<1>1. 0 \in 0 .. Cardinality(Images) /\ 0 \in 0 .. MaxFiles
  BY FS_CardinalityType, ListingAssumption
<1> QED  BY <1>1 DEF NewCall, CallRow

LEMMA IdleIsTyped == Idle \in CallRow /\ Idle.pc = "idle" /\ Idle.files = {}
BY CallIsTyped DEF Idle, Pc

LEMMA CallFields ==
    ASSUME ListingTypeOK, NEW r \in Requests
    PROVE  /\ call[r] \in CallRow /\ call[r].pc \in Pc
           /\ call[r].vehicle \in Vehicles \cup {None}
           /\ call[r].status \in VehicleStatus \cup {None} /\ call[r].files \in SUBSET Images
           /\ call[r].left \in 0 .. MaxFiles /\ call[r].first \in 0 .. Cardinality(Images)
           /\ call[r].fresh \in BOOLEAN
<1>1. call[r] \in CallRow
  BY DEF ListingTypeOK
<1> QED  BY <1>1 DEF CallRow

(* Only the call of the request that takes the step changes.               *)
LEMMA CallChange ==
    ASSUME ListingTypeOK, NEW r \in Requests, NEW c \in CallRow, Become(r, c)
    PROVE  /\ call' \in [Requests -> CallRow]
           /\ call'[r] = c
           /\ \A q \in Requests \ {r} : call'[q] = call[q]
BY DEF ListingTypeOK, Become

-----------------------------------------------------------------------------
(* Files.                                                                  *)

FilesInv == ListingTypeOK /\ UploadsAreOwn /\ RemovalsAreKnown /\ FilesMatchRows

Holds(c, i) == Uploads(c) /\ i \in c.files

LEMMA UploadingIsHeld ==
    \A i \in Images : i \in Uploading <=> \E r \in Requests : Holds(call[r], i)
BY DEF Uploading, Holds

(* What a step of the request r, left with call c, may do to image i.      *)
Untouched(r, c, i) ==
    /\ i \in objects' <=> i \in objects
    /\ image'[i] = None <=> image[i] = None
    /\ avatar' = i <=> avatar = i
    /\ i \in disturbed' <=> i \in disturbed
    /\ Holds(c, i) <=> Holds(call[r], i)

Lost(r, c, i) ==
    /\ i \in disturbed' /\ ~Holds(c, i)
    /\ i \in disturbed \/ image[i] # None \/ avatar = i \/ Holds(call[r], i)

Born(c, i) == i \in NewImages /\ Holds(c, i) /\ i \in objects' /\ i \notin disturbed'
              /\ image'[i] = None /\ avatar' # i

Kept(r, c, i) == Holds(call[r], i) /\ ~Holds(c, i) /\ i \in objects'
                 /\ (image'[i] # None \/ avatar' = i)

LEMMA FilesStep ==
    ASSUME FilesInv, ListingTypeOK', NEW r \in Requests, NEW c \in CallRow, Become(r, c),
           \A i \in Images : Untouched(r, c, i) \/ Lost(r, c, i) \/ Born(c, i) \/ Kept(r, c, i),
           disturbed \subseteq disturbed', ~Uploads(c) => c.files \subseteq disturbed'
    PROVE  UploadsAreOwn' /\ RemovalsAreKnown' /\ FilesMatchRows'
<1> USE DEF FilesInv
<1>1. call'[r] = c /\ \A q \in Requests \ {r} : call'[q] = call[q]
  BY CallChange
<1>2. \A q \in Requests, i \in Images : Holds(call[q], i) =>
          /\ i \in objects /\ i \notin disturbed /\ image[i] = None /\ avatar # i
          /\ \A p \in Requests \ {q} : ~Holds(call[p], i)
  BY DEF UploadsAreOwn, Holds
<1>3. \A i \in Images : Born(c, i) => /\ \A q \in Requests : ~Holds(call[q], i)
                                      /\ i \notin disturbed
  BY UploadingIsHeld DEF Born, NewImages
<1>4. ASSUME NEW q \in Requests, NEW i \in Images, Holds(call[q], i)'
      PROVE  /\ i \in objects' /\ i \notin disturbed' /\ image'[i] = None /\ avatar' # i
             /\ \A p \in Requests \ {q} : ~Holds(call[p], i)'
  <2>1. CASE q = r
    <3>1. Holds(c, i)
      BY <1>1, <1>4, <2>1 DEF Holds, Uploads
    <3>2. Untouched(r, c, i) \/ Born(c, i)
      BY <3>1 DEF Lost, Kept
    <3>3. \A p \in Requests \ {r} : ~Holds(call[p], i)'
      BY <1>1, <1>2, <1>3, <3>1, <3>2 DEF Untouched, Holds, Uploads
    <3> QED  BY <1>2, <2>1, <3>1, <3>2, <3>3 DEF Untouched, Born
  <2>2. CASE q # r
    <3>1. Holds(call[q], i) /\ ~Holds(call[r], i)
      BY <1>1, <1>2, <1>4, <2>2 DEF Holds, Uploads
    <3>2. Untouched(r, c, i)
      BY <1>2, <1>3, <3>1 DEF Lost, Kept
    <3>3. ~Holds(c, i)
      BY <3>1, <3>2 DEF Untouched
    <3>4. \A p \in Requests \ {q} : ~Holds(call[p], i)'
      BY <1>1, <1>2, <3>1, <3>3 DEF Holds, Uploads
    <3> QED  BY <1>2, <3>1, <3>2, <3>4 DEF Untouched
  <2> QED  BY <2>1, <2>2
<1>5. UploadsAreOwn'
  <2> SUFFICES ASSUME NEW q \in Requests, Uploads(call[q])', NEW i \in call'[q].files
               PROVE  /\ i \in objects' /\ i \notin disturbed' /\ image'[i] = None /\ avatar' # i
                      /\ \A p \in Requests \ {q} : Uploads(call[p])' => i \notin call'[p].files
    BY DEF UploadsAreOwn
  <2>1. i \in Images
    BY CallChange, CallFields DEF ListingTypeOK, CallRow
  <2>2. Holds(call[q], i)'
    BY DEF Holds
  <2> QED  BY <1>4, <2>1, <2>2 DEF Holds
<1>6. RemovalsAreKnown'
  BY <1>1 DEF RemovalsAreKnown, Uploads
<1>7. FilesMatchRows'
  <2> SUFFICES ASSUME NEW i \in Images, i \notin disturbed', i \notin Uploading'
               PROVE  i \in objects' <=> image'[i] # None \/ avatar' = i
    BY DEF FilesMatchRows
  <2>1. \A q \in Requests : ~Holds(call[q], i)'
    BY DEF Uploading, Holds
  <2>2. ~Holds(c, i) /\ \A q \in Requests \ {r} : ~Holds(call[q], i)
    BY <1>1, <2>1 DEF Holds, Uploads
  <2>3. CASE Untouched(r, c, i)
    <3>1. i \notin Uploading /\ i \notin disturbed
      BY <2>2, <2>3, UploadingIsHeld DEF Untouched
    <3> QED  BY <2>3, <3>1 DEF Untouched, FilesMatchRows
  <2>4. CASE Kept(r, c, i)
    BY <2>4 DEF Kept
  <2> QED  BY <2>2, <2>3, <2>4 DEF Lost, Born
<1> QED  BY <1>5, <1>6, <1>7

-----------------------------------------------------------------------------
(* Orders.                                                                 *)

OrdersInv == ListingTypeOK /\ OrdersAreBounded /\ ReadsAreFresh /\ GalleryIsOrdered

LEMMA SettledIsFinite ==
    /\ IsFiniteSet(Settled) /\ Cardinality(Settled) \in Nat
    /\ Cardinality(Settled) <= Cardinality(Images) /\ Cardinality(Images) \in Nat
<1>1. Settled \in SUBSET Images
  BY DEF Settled
<1> QED  BY <1>1, FS_Subset, FS_CardinalityType, ListingAssumption

LEMMA SettledGrows ==
    ASSUME Settled \subseteq Settled'
    PROVE  /\ Cardinality(Settled) \in Nat /\ Cardinality(Settled') \in Nat
           /\ Cardinality(Settled) <= Cardinality(Settled')
<1>1. Settled' \in SUBSET Images
  BY DEF Settled
<1>2. IsFiniteSet(Settled')
  BY <1>1, FS_Subset, ListingAssumption
<1>3. Cardinality(Settled) <= Cardinality(Settled')
  BY <1>2, FS_Subset
<1>4. Cardinality(Settled') \in Nat
  BY <1>2, FS_CardinalityType
<1> QED  BY <1>3, <1>4, SettledIsFinite

(* Rows go, never to be seen again, and none comes.                        *)
RowsOnlyGo ==
    /\ disturbed \subseteq disturbed'
    /\ \A i \in Images : image'[i] = image[i] \/ (image'[i] = None /\ i \in disturbed')

LEMMA ReadStaysFresh ==
    ASSUME ListingTypeOK, ListingTypeOK', RowsOnlyGo, NEW c \in CallRow, ReadIsFresh(c)
    PROVE  ReadIsFresh(c)'
<1>1. Settled \subseteq Settled'
  BY DEF RowsOnlyGo, Settled
<1>2. c.first \in Nat
  BY FS_CardinalityType, ListingAssumption DEF CallRow
<1>3. c.first <= Cardinality(Settled')
  BY <1>1, <1>2, SettledGrows DEF ReadIsFresh
<1>4. c.vehicle \notin disturbed' =>
         \A i \in ImagesOf(c.vehicle)' : image'[i].order < c.first /\ ~c.fresh
  BY DEF ReadIsFresh, RowsOnlyGo, ImagesOf
<1> QED  BY <1>3, <1>4 DEF ReadIsFresh

LEMMA OrdersStep ==
    ASSUME OrdersInv, ListingTypeOK', NEW r \in Requests, NEW c \in CallRow, Become(r, c),
           RowsOnlyGo, c.pc = "insertImages" => ReadIsFresh(c)
    PROVE  OrdersAreBounded' /\ ReadsAreFresh' /\ GalleryIsOrdered'
<1> USE DEF OrdersInv
<1>1. call'[r] = c /\ \A q \in Requests \ {r} : call'[q] = call[q]
  BY CallChange
<1>2. OrdersAreBounded'
  <2> SUFFICES ASSUME NEW i \in Images, image'[i] # None
               PROVE  image'[i].order < Cardinality(Settled')
    BY DEF OrdersAreBounded
  <2>1. image'[i] = image[i] /\ image[i] \in Image
    BY DEF RowsOnlyGo, ListingTypeOK
  <2>2. Settled \subseteq Settled'
    BY DEF RowsOnlyGo, Settled
  <2>3. image[i].order \in Int /\ image[i].order < Cardinality(Settled)
    BY <2>1 DEF OrdersAreBounded, Image
  <2> QED  BY <2>1, <2>2, <2>3, SettledGrows
<1>3. ReadsAreFresh'
  <2> SUFFICES ASSUME NEW q \in Requests, call'[q].pc = "insertImages"
               PROVE  ReadIsFresh(call[q])'
    BY DEF ReadsAreFresh
  <2>1. PICK d \in CallRow : d = call'[q] /\ ReadIsFresh(d)
    BY <1>1, CallFields DEF ReadsAreFresh
  <2>2. ReadIsFresh(d)'
    BY <2>1, ReadStaysFresh
  <2> QED  BY <2>1, <2>2
<1>4. GalleryIsOrdered'
  <2>1. \A i \in Images : image'[i] # None => image'[i] = image[i]
    BY DEF RowsOnlyGo
  <2>2. disturbed \subseteq disturbed'
    BY DEF RowsOnlyGo
  <2> QED  BY <2>1, <2>2 DEF GalleryIsOrdered
<1> QED  BY <1>2, <1>3, <1>4

-----------------------------------------------------------------------------
(* The steps of requests that add no row.                                  *)

LEMMA RequestStepKeepsInv ==
    ASSUME ListingInv, NEW r \in Requests, NEW c \in CallRow, Become(r, c), Filled(c),
           vehicle' \in [Vehicles -> VehicleStatus \cup {"NONE", "GONE"}],
           auction' \in [Vehicles -> {"NONE", "OPEN", "OVER"}],
           image' \in [Images -> Image \cup {None}], avatar' \in Images \cup {None},
           objects' \subseteq Images, disturbed' \subseteq Images \cup Vehicles,
           RowsOnlyGo, c.pc = "insertImages" => ReadIsFresh(c),
           \A i \in Images : Untouched(r, c, i) \/ Lost(r, c, i) \/ Born(c, i) \/ Kept(r, c, i),
           ~Uploads(c) => c.files \subseteq disturbed',
           NoDanglingRow', AuctionedIsKept'
    PROVE  ListingInv'
<1> USE DEF ListingInv
<1>1. call' \in [Requests -> CallRow] /\ call'[r] = c
      /\ \A q \in Requests \ {r} : call'[q] = call[q]
  BY CallChange
<1>2. ListingTypeOK'
  BY <1>1 DEF ListingTypeOK
<1>3. CallsAreFilled'
  BY <1>1 DEF CallsAreFilled, Filled
<1>4. UploadsAreOwn' /\ RemovalsAreKnown' /\ FilesMatchRows'
  BY <1>2, FilesStep DEF FilesInv, RowsOnlyGo
<1>5. OrdersAreBounded' /\ ReadsAreFresh' /\ GalleryIsOrdered'
  BY <1>2, OrdersStep DEF OrdersInv
<1> QED  BY <1>2, <1>3, <1>4, <1>5

(* The images, the avatar and the store are left alone; what the request   *)
(* holds stays, unless it is given up.                                     *)
LEMMA QuietStepKeepsInv ==
    ASSUME ListingInv, NEW r \in Requests, NEW c \in CallRow, Become(r, c), Filled(c),
           vehicle' \in [Vehicles -> VehicleStatus \cup {"NONE", "GONE"}],
           auction' \in [Vehicles -> {"NONE", "OPEN", "OVER"}],
           \A v \in Vehicles : /\ Exists(v) => Exists(v)'
                               /\ auction'[v] # "NONE" => auction[v] # "NONE" \/ Exists(v)',
           UNCHANGED <<image, avatar, objects, disturbed>>,
           c.pc = "insertImages" => ReadIsFresh(c),
           \/ c.files = {} /\ ~Uploads(call[r])
           \/ c.files = {} /\ call[r].files = {}
           \/ c.files = call[r].files /\ Uploads(call[r]) /\ Uploads(c)
    PROVE  ListingInv'
<1> USE DEF ListingInv
<1>1. \A i \in Images : Untouched(r, c, i)
  BY DEF Untouched, Holds
<1>2. RowsOnlyGo
  BY DEF RowsOnlyGo
<1>3. NoDanglingRow'
  BY DEF NoDanglingRow, ListingTypeOK, Image
<1>4. AuctionedIsKept'
  BY DEF AuctionedIsKept
<1>5. ~Uploads(c) => c.files \subseteq disturbed'
  OBVIOUS
<1> QED  BY <1>1, <1>2, <1>3, <1>4, <1>5, RequestStepKeepsInv DEF ListingTypeOK

(* The status of a vehicle is decided, and written later.                  *)
LEMMA DecideStatusKeepsInv ==
    ASSUME ListingInv, NEW r \in Requests, NEW v \in Vehicles, NEW s \in VehicleStatus,
           DecideStatus(r, v, s)
    PROVE  ListingInv'
<1> DEFINE plain == NewCall("writeStatus", v, {})
           c == [plain EXCEPT !.status = s]
<1>1. plain \in CallRow /\ plain.pc = "writeStatus" /\ plain.vehicle = v /\ plain.files = {}
  BY CallIsTyped DEF Pc
<1>2. /\ call[r] = Idle /\ Become(r, c)
      /\ UNCHANGED <<vehicle, auction, image, avatar, objects, disturbed>>
  BY DEF DecideStatus
<1> HIDE DEF plain
<1>3. c \in CallRow /\ c.pc = "writeStatus" /\ c.vehicle = v /\ c.files = {} /\ c.status = s
  BY <1>1 DEF CallRow
<1> HIDE DEF c
<1> QED  BY <1>2, <1>3, IdleIsTyped, QuietStepKeepsInv
         DEF Filled, Uploads, ListingInv, ListingTypeOK, Exists

LEMMA WriteStatusKeepsInv ==
    ASSUME ListingInv, NEW r \in Requests, WriteStatus(r)
    PROVE  ListingInv'
<1> PICK v \in Vehicles : v = call[r].vehicle
  BY DEF WriteStatus, ListingInv, CallsAreFilled, Filled
<1>1. /\ Become(r, Idle) /\ call[r].pc = "writeStatus" /\ call[r].status \in VehicleStatus
      /\ vehicle' = [vehicle EXCEPT ![v] = IF Exists(v) THEN call[r].status ELSE @]
      /\ UNCHANGED <<auction, image, avatar, objects, disturbed>>
  BY DEF WriteStatus, End, ListingInv, CallsAreFilled, Filled
<1>2. vehicle' \in [Vehicles -> VehicleStatus \cup {"NONE", "GONE"}]
      /\ \A w \in Vehicles : Exists(w) => Exists(w)'
  BY <1>1 DEF ListingInv, ListingTypeOK, Exists
<1> QED  BY <1>1, <1>2, IdleIsTyped, QuietStepKeepsInv
         DEF Filled, Uploads, ListingInv, ListingTypeOK

LEMMA UploadImagesKeepsInv ==
    ASSUME ListingInv, NEW r \in Requests, NEW v \in Vehicles, NEW n \in 1 .. MaxFiles,
           UploadImages(r, v, n)
    PROVE  ListingInv'
<1> DEFINE plain == NewCall("upload", v, {})
           c == [plain EXCEPT !.left = n]
<1>1. plain \in CallRow /\ plain.pc = "upload" /\ plain.vehicle = v /\ plain.files = {}
  BY CallIsTyped DEF Pc
<1>2. /\ call[r] = Idle /\ Become(r, c)
      /\ UNCHANGED <<vehicle, auction, image, avatar, objects, disturbed>>
  BY DEF UploadImages
<1> HIDE DEF plain
<1>3. c \in CallRow /\ c.pc = "upload" /\ c.vehicle = v /\ c.files = {} /\ c.left = n
  BY <1>1, ListingAssumption DEF CallRow
<1> HIDE DEF c
<1> QED  BY <1>2, <1>3, IdleIsTyped, QuietStepKeepsInv
         DEF Filled, Uploads, ListingInv, ListingTypeOK, Exists

(* The next order is above those of the vehicle's images.                  *)
LEMMA ReadOrderKeepsInv ==
    ASSUME ListingInv, NEW r \in Requests, ReadOrder(r)
    PROVE  ListingInv'
<1> PICK v \in Vehicles : v = call[r].vehicle
  BY DEF ReadOrder, ListingInv, CallsAreFilled, Filled
<1> PICK files \in SUBSET Images : files = call[r].files
  BY CallFields DEF ListingInv
<1> DEFINE orders == {image[i].order : i \in ImagesOf(v)}
           first == IF orders = {} THEN 0 ELSE Max(orders) + 1
           fresh == orders = {}
           plain == NewCall("insertImages", v, files)
           half == [plain EXCEPT !.fresh = fresh]
           c == [half EXCEPT !.first = first]
<1>1. /\ call[r].pc = "readOrder"
      /\ UNCHANGED <<vehicle, auction, image, avatar, objects, disturbed>>
  BY DEF ReadOrder
<1>2. plain \in CallRow /\ plain.pc = "insertImages" /\ plain.vehicle = v /\ plain.files = files
  BY CallIsTyped DEF Pc
<1>3. Become(r, c)
  BY DEF ReadOrder
<1>4. Cardinality(Settled) \in Nat
  BY SettledIsFinite
<1>5. \A i \in ImagesOf(v) : image[i].order \in Nat /\ image[i].order < Cardinality(Settled)
  BY DEF ImagesOf, ListingInv, ListingTypeOK, Image, OrdersAreBounded
<1>6. first \in 0 .. Cardinality(Settled) /\ \A i \in ImagesOf(v) : image[i].order < first
  <2>1. CASE orders = {}
    BY <1>4, <2>1
  <2>2. CASE orders # {}
    <3>1. orders \in SUBSET (0 .. Cardinality(Settled))
      BY <1>4, <1>5
    <3>2. Max(orders) \in orders /\ \A x \in orders : x <= Max(orders)
      BY <1>4, <2>2, <3>1, MaxFacts
    <3>3. Max(orders) \in Nat /\ Max(orders) < Cardinality(Settled)
      BY <1>5, <3>2
    <3>4. first = Max(orders) + 1
      BY <2>2
    <3>5. \A i \in ImagesOf(v) : image[i].order <= Max(orders)
      BY <3>2
    <3>6. PICK m \in Nat : m = Max(orders)
      BY <3>3
    <3> HIDE DEF first, orders
    <3> QED  BY <1>4, <1>5, <3>3, <3>4, <3>5, <3>6
  <2> QED  BY <2>1, <2>2
<1>7. first \in 0 .. Cardinality(Images)
  BY <1>4, <1>6, SettledIsFinite
<1>8. \A i \in ImagesOf(v) : ~fresh
  OBVIOUS
<1>9. fresh \in BOOLEAN
  OBVIOUS
<1> HIDE DEF plain, first, fresh
<1>10. half \in CallRow /\ half.pc = "insertImages" /\ half.vehicle = v /\ half.files = files
  BY <1>2, <1>9 DEF CallRow
<1>11. half.fresh = fresh
  BY <1>2 DEF CallRow
<1> HIDE DEF half
<1>12. c \in CallRow /\ c.pc = "insertImages" /\ c.vehicle = v /\ c.files = files
       /\ c.first = first
  BY <1>7, <1>10 DEF CallRow
<1>13. c.fresh = fresh
  BY <1>10, <1>11 DEF CallRow
<1> HIDE DEF c
<1>14. ReadIsFresh(c)
  BY <1>4, <1>6, <1>8, <1>12, <1>13 DEF ReadIsFresh
<1> QED  BY <1>1, <1>3, <1>12, <1>14, QuietStepKeepsInv
         DEF Filled, Uploads, ListingInv, ListingTypeOK, Exists

(* An auction begins: its row comes before the vehicle's status.           *)
LEMMA CreateAuctionKeepsInv ==
    ASSUME ListingInv, NEW r \in Requests, NEW v \in Vehicles, CreateAuction(r, v)
    PROVE  ListingInv'
<1> DEFINE c == NewCall("insertAuction", v, {})
<1>1. c \in CallRow /\ c.pc = "insertAuction" /\ c.vehicle = v /\ c.files = {}
  BY CallIsTyped DEF Pc
<1>2. /\ call[r] = Idle /\ Become(r, c)
      /\ UNCHANGED <<vehicle, auction, image, avatar, objects, disturbed>>
  BY DEF CreateAuction
<1> HIDE DEF c
<1> QED  BY <1>1, <1>2, IdleIsTyped, QuietStepKeepsInv
         DEF Filled, Uploads, ListingInv, ListingTypeOK, Exists

LEMMA InsertAuctionKeepsInv ==
    ASSUME ListingInv, NEW r \in Requests, InsertAuction(r)
    PROVE  ListingInv'
<1> PICK v \in Vehicles : v = call[r].vehicle
  BY DEF InsertAuction, ListingInv, CallsAreFilled, Filled
<1> DEFINE c == NewCall("markVehicle", v, {})
<1>1. c \in CallRow /\ c.pc = "markVehicle" /\ c.vehicle = v /\ c.files = {}
  BY CallIsTyped DEF Pc
<1>2. /\ call[r].pc = "insertAuction" /\ Become(r, c) /\ Exists(v)
      /\ auction' = [auction EXCEPT ![v] = "OPEN"]
      /\ UNCHANGED <<vehicle, image, avatar, objects, disturbed>>
  BY DEF InsertAuction
<1> HIDE DEF c
<1>3. /\ auction' \in [Vehicles -> {"NONE", "OPEN", "OVER"}]
      /\ \A w \in Vehicles : auction'[w] # "NONE" => auction[w] # "NONE" \/ Exists(w)'
      /\ \A w \in Vehicles : Exists(w) => Exists(w)'
  BY <1>2 DEF ListingInv, ListingTypeOK, Exists
<1> QED  BY <1>1, <1>2, <1>3, QuietStepKeepsInv
         DEF Filled, Uploads, ListingInv, ListingTypeOK

LEMMA MarkVehicleKeepsInv ==
    ASSUME ListingInv, NEW r \in Requests, MarkVehicle(r)
    PROVE  ListingInv'
<1>1. /\ call[r].pc = "markVehicle" /\ Become(r, Idle)
      /\ vehicle' = [vehicle EXCEPT ![call[r].vehicle] = "IN_AUCTION"]
      /\ UNCHANGED <<auction, image, avatar, objects, disturbed>>
  BY DEF MarkVehicle, End
<1>2. vehicle' \in [Vehicles -> VehicleStatus \cup {"NONE", "GONE"}]
      /\ \A w \in Vehicles : Exists(w) => Exists(w)'
  BY <1>1 DEF ListingInv, ListingTypeOK, Exists, VehicleStatus
<1> QED  BY <1>1, <1>2, IdleIsTyped, QuietStepKeepsInv
         DEF Filled, Uploads, ListingInv, ListingTypeOK

-----------------------------------------------------------------------------
(* The steps that store or remove an object.                               *)

(* A file is stored under a name nobody uses.                              *)
LEMMA UploadFileKeepsInv ==
    ASSUME ListingInv, NEW r \in Requests, UploadFile(r)
    PROVE  ListingInv'
<1> PICK v \in Vehicles : v = call[r].vehicle
  BY DEF UploadFile, StoreFile, ListingInv, CallsAreFilled, Filled
<1> PICK files \in SUBSET Images : files = call[r].files
  BY CallFields DEF ListingInv
<1> PICK left \in 1 .. MaxFiles : left = call[r].left
  BY CallFields, ListingAssumption
     DEF UploadFile, StoreFile, ListingInv, CallsAreFilled, Filled
<1> PICK pc \in {"readOrder", "upload"} : pc = IF left = 1 THEN "readOrder" ELSE "upload"
  OBVIOUS
<1>1. PICK new \in NewImages :
         /\ objects' = objects \cup {new}
         /\ Become(r, [NewCall(pc, v, files \cup {new}) EXCEPT !.left = left - 1])
  BY DEF UploadFile, StoreFile
<1>2. new \in Images /\ new \notin objects /\ new \notin disturbed /\ new \notin Uploading
      /\ image[new] = None
  BY DEF NewImages
<1> DEFINE plain == NewCall(pc, v, files \cup {new})
           c == [plain EXCEPT !.left = left - 1]
<1>3. call[r].pc = "upload" /\ Become(r, c)
      /\ UNCHANGED <<vehicle, auction, image, avatar, disturbed>>
  BY <1>1 DEF UploadFile, StoreFile
<1>4. plain \in CallRow /\ plain.pc = pc /\ plain.vehicle = v /\ plain.files = files \cup {new}
  BY <1>2, CallIsTyped DEF Pc
<1> HIDE DEF plain
<1>5. c \in CallRow /\ c.pc = pc /\ c.vehicle = v /\ c.files = files \cup {new}
      /\ c.left = left - 1
  BY <1>4, ListingAssumption DEF CallRow
<1> HIDE DEF c
<1>6. avatar # new
  BY <1>2 DEF ListingInv, FilesMatchRows
<1>7. \A i \in Images : Untouched(r, c, i) \/ Born(c, i)
  <2> TAKE i \in Images
  <2>1. CASE i = new
    BY <1>1, <1>2, <1>3, <1>5, <1>6, <2>1 DEF Born, Holds, Uploads
  <2>2. CASE i # new
    BY <1>1, <1>3, <1>5, <2>2 DEF Untouched, Holds, Uploads
  <2> QED  BY <2>1, <2>2
<1>8. Filled(c) /\ RowsOnlyGo /\ Uploads(c) /\ c.pc # "insertImages"
  BY <1>3, <1>5 DEF Filled, RowsOnlyGo, Uploads
<1>9. NoDanglingRow' /\ AuctionedIsKept'
  BY <1>3 DEF ListingInv, NoDanglingRow, AuctionedIsKept, Exists
<1> QED  BY <1>1, <1>2, <1>3, <1>5, <1>7, <1>8, <1>9, RequestStepKeepsInv
         DEF ListingInv, ListingTypeOK

LEMMA StoreAvatarKeepsInv ==
    ASSUME ListingInv, NEW r \in Requests, StoreAvatar(r)
    PROVE  ListingInv'
<1>1. PICK new \in NewImages :
         /\ objects' = objects \cup {new}
         /\ Become(r, NewCall("writeAvatar", None, {new}))
  BY DEF StoreAvatar
<1>2. new \in Images /\ new \notin objects /\ new \notin disturbed /\ new \notin Uploading
      /\ image[new] = None
  BY DEF NewImages
<1> DEFINE c == NewCall("writeAvatar", None, {new})
<1>3. call[r].pc = "storeAvatar" /\ Become(r, c)
      /\ UNCHANGED <<vehicle, auction, image, avatar, disturbed>>
  BY <1>1 DEF StoreAvatar
<1>4. c \in CallRow /\ c.pc = "writeAvatar" /\ c.files = {new}
  BY <1>2, CallIsTyped DEF Pc
<1> HIDE DEF c
<1>5. avatar # new
  BY <1>2 DEF ListingInv, FilesMatchRows
<1>6. \A i \in Images : Untouched(r, c, i) \/ Born(c, i)
  <2> TAKE i \in Images
  <2>1. CASE i = new
    BY <1>1, <1>2, <1>3, <1>4, <1>5, <2>1 DEF Born, Holds, Uploads
  <2>2. CASE i # new
    BY <1>1, <1>3, <1>4, <2>2 DEF Untouched, Holds, Uploads
  <2> QED  BY <2>1, <2>2
<1>7. Filled(c) /\ RowsOnlyGo /\ Uploads(c) /\ c.pc # "insertImages"
  BY <1>2, <1>3, <1>4 DEF Filled, RowsOnlyGo, Uploads
<1>8. NoDanglingRow' /\ AuctionedIsKept'
  BY <1>3 DEF ListingInv, NoDanglingRow, AuctionedIsKept, Exists
<1> QED  BY <1>1, <1>2, <1>3, <1>4, <1>6, <1>7, <1>8, RequestStepKeepsInv
         DEF ListingInv, ListingTypeOK

(* Removals take away what is known to be removed.                         *)
LEMMA RemovalStepKeepsInv ==
    ASSUME ListingInv, NEW r \in Requests, NEW c \in CallRow, Become(r, c), Filled(c),
           ~Uploads(call[r]), ~Uploads(c), c.files \subseteq call[r].files,
           objects' \subseteq objects, objects \subseteq objects' \cup call[r].files,
           UNCHANGED <<vehicle, auction, image, avatar, disturbed>>
    PROVE  ListingInv'
<1>1. call[r].files \subseteq disturbed
  BY DEF ListingInv, RemovalsAreKnown
<1>2. \A i \in Images : Untouched(r, c, i) \/ Lost(r, c, i)
  BY <1>1 DEF Untouched, Lost, Holds
<1>3. RowsOnlyGo /\ c.pc # "insertImages" /\ c.files \subseteq disturbed'
  BY <1>1 DEF RowsOnlyGo, Uploads
<1>4. NoDanglingRow' /\ AuctionedIsKept'
  BY DEF ListingInv, NoDanglingRow, AuctionedIsKept, Exists
<1> QED  BY <1>2, <1>3, <1>4, RequestStepKeepsInv DEF ListingInv, ListingTypeOK

LEMMA RemoveObjectKeepsInv ==
    ASSUME ListingInv, NEW r \in Requests, RemoveObject(r)
    PROVE  ListingInv'
<1> PICK v \in Vehicles : v = call[r].vehicle
  BY DEF RemoveObject, ListingInv, CallsAreFilled, Filled
<1> PICK files \in SUBSET Images : files = call[r].files
  BY CallFields DEF ListingInv
<1> DEFINE c == NewCall("deleteImageRow", v, files)
<1>1. c \in CallRow /\ c.pc = "deleteImageRow" /\ c.vehicle = v /\ c.files = files
  BY CallIsTyped DEF Pc
<1>2. /\ call[r].pc = "removeObject" /\ Become(r, c) /\ objects' = objects \ files
      /\ UNCHANGED <<vehicle, auction, image, avatar, disturbed>>
  BY DEF RemoveObject
<1> HIDE DEF c
<1> QED  BY <1>1, <1>2, RemovalStepKeepsInv DEF Filled, Uploads

LEMMA DropFileKeepsInv ==
    ASSUME ListingInv, NEW r \in Requests, DropFile(r)
    PROVE  ListingInv'
<1> PICK v \in Vehicles : v = call[r].vehicle
  BY DEF DropFile, ListingInv, CallsAreFilled, Filled
<1> PICK files \in SUBSET Images : files = call[r].files
  BY CallFields DEF ListingInv
<1>1. PICK i \in files :
         /\ objects' \in {objects, objects \ {i}}
         /\ Become(r, NewCall(IF files = {i} THEN "deleteRow" ELSE "dropFiles", v, files \ {i}))
  BY DEF DropFile
<1> PICK pc \in {"deleteRow", "dropFiles"} : pc = IF files = {i} THEN "deleteRow" ELSE "dropFiles"
  OBVIOUS
<1> DEFINE c == NewCall(pc, v, files \ {i})
<1>2. c \in CallRow /\ c.pc = pc /\ c.vehicle = v /\ c.files = files \ {i}
  BY CallIsTyped DEF Pc
<1>3. /\ call[r].pc = "dropFiles" /\ Become(r, c)
      /\ UNCHANGED <<vehicle, auction, image, avatar, disturbed>>
  BY <1>1 DEF DropFile
<1> HIDE DEF c
<1> QED  BY <1>1, <1>2, <1>3, RemovalStepKeepsInv DEF Filled, Uploads

LEMMA DropAvatarKeepsInv ==
    ASSUME ListingInv, NEW r \in Requests, DropAvatar(r)
    PROVE  ListingInv'
<1> PICK files \in SUBSET Images : files = call[r].files
  BY CallFields DEF ListingInv
<1> DEFINE c == NewCall("storeAvatar", None, {})
<1>1. c \in CallRow /\ c.pc = "storeAvatar" /\ c.files = {}
  BY CallIsTyped DEF Pc
<1>2. /\ call[r].pc = "dropAvatar" /\ Become(r, c) /\ objects' \in {objects, objects \ files}
      /\ UNCHANGED <<vehicle, auction, image, avatar, disturbed>>
  BY DEF DropAvatar
<1> HIDE DEF c
<1> QED  BY <1>1, <1>2, RemovalStepKeepsInv DEF Filled, Uploads

(* What a request sets out to remove is marked; the rest is left alone.    *)
LEMMA MarkStepKeepsInv ==
    ASSUME ListingInv, NEW r \in Requests, NEW c \in CallRow, Become(r, c), Filled(c),
           NEW files \in SUBSET Images, disturbed' = disturbed \cup files,
           ~Uploads(c), c.files \subseteq files,
           \A i \in Images : Holds(call[r], i) => i \in files,
           \A i \in files : i \in disturbed \/ image[i] # None \/ avatar = i \/ Holds(call[r], i),
           UNCHANGED <<vehicle, auction, image, avatar, objects>>
    PROVE  ListingInv'
<1>1. \A i \in Images : Untouched(r, c, i) \/ Lost(r, c, i)
  BY DEF Untouched, Lost, Holds
<1>2. RowsOnlyGo /\ c.pc # "insertImages" /\ c.files \subseteq disturbed'
  BY DEF RowsOnlyGo, Uploads
<1>3. NoDanglingRow' /\ AuctionedIsKept'
  BY DEF ListingInv, NoDanglingRow, AuctionedIsKept, Exists
<1> QED  BY <1>1, <1>2, <1>3, RequestStepKeepsInv DEF ListingInv, ListingTypeOK

LEMMA DeleteImageKeepsInv ==
    ASSUME ListingInv, NEW r \in Requests, NEW i \in Images, DeleteImage(r, i)
    PROVE  ListingInv'
<1> PICK v \in Vehicles : v = image[i].vehicle
  BY DEF DeleteImage, ListingInv, ListingTypeOK, Image
<1> DEFINE c == NewCall("removeObject", v, {i})
<1>1. c \in CallRow /\ c.pc = "removeObject" /\ c.vehicle = v /\ c.files = {i}
  BY CallIsTyped DEF Pc
<1>2. /\ call[r] = Idle /\ Become(r, c) /\ image[i] # None /\ disturbed' = disturbed \cup {i}
      /\ UNCHANGED <<vehicle, auction, image, avatar, objects>>
  BY DEF DeleteImage, Disturb
<1> HIDE DEF c
<1> QED  BY <1>1, <1>2, IdleIsTyped, MarkStepKeepsInv DEF Filled, Uploads, Holds

LEMMA DeleteKeepsInv ==
    ASSUME ListingInv, NEW r \in Requests, NEW v \in Vehicles, Delete(r, v)
    PROVE  ListingInv'
<1> PICK files \in SUBSET Images : files = ImagesOf(v)
  BY DEF ImagesOf
<1> PICK pc \in {"deleteRow", "dropFiles"} : pc = IF files = {} THEN "deleteRow" ELSE "dropFiles"
  OBVIOUS
<1> DEFINE c == NewCall(pc, v, files)
<1>1. c \in CallRow /\ c.pc = pc /\ c.vehicle = v /\ c.files = files
  BY CallIsTyped DEF Pc
<1>2. /\ call[r] = Idle /\ Become(r, c) /\ disturbed' = disturbed \cup files
      /\ UNCHANGED <<vehicle, auction, image, avatar, objects>>
  BY DEF Delete, Disturb
<1>3. \A i \in files : image[i] # None
  BY DEF ImagesOf
<1> HIDE DEF c
<1> QED  BY <1>1, <1>2, <1>3, IdleIsTyped, MarkStepKeepsInv DEF Filled, Uploads, Holds

LEMMA UploadAvatarKeepsInv ==
    ASSUME ListingInv, NEW r \in Requests, UploadAvatar(r)
    PROVE  ListingInv'
<1> PICK files \in SUBSET Images : files = {avatar} \ {None}
  BY DEF ListingInv, ListingTypeOK
<1> PICK pc \in {"storeAvatar", "dropAvatar"} : pc = IF files = {} THEN "storeAvatar" ELSE "dropAvatar"
  OBVIOUS
<1> DEFINE c == NewCall(pc, None, files)
<1>1. c \in CallRow /\ c.pc = pc /\ c.files = files
  BY CallIsTyped DEF Pc
<1>2. /\ call[r] = Idle /\ Become(r, c) /\ disturbed' = disturbed \cup files
      /\ UNCHANGED <<vehicle, auction, image, avatar, objects>>
  BY DEF UploadAvatar, Disturb
<1> HIDE DEF c
<1> QED  BY <1>1, <1>2, IdleIsTyped, MarkStepKeepsInv DEF Filled, Uploads, Holds

(* Whatever a failing request held is lost.                                *)
LEMMA FailKeepsInv ==
    ASSUME ListingInv, NEW r \in Requests, Fail(r)
    PROVE  ListingInv'
<1> PICK files \in SUBSET Images : files = call[r].files
  BY CallFields DEF ListingInv
<1>1. /\ Become(r, Idle) /\ disturbed' = disturbed \cup files
      /\ UNCHANGED <<vehicle, auction, image, avatar, objects>>
  BY DEF Fail, End, Disturb
<1>2. \A i \in files : i \in disturbed \/ Holds(call[r], i)
  BY DEF ListingInv, RemovalsAreKnown, Holds
<1> QED  BY <1>1, <1>2, IdleIsTyped, MarkStepKeepsInv DEF Filled, Uploads, Holds

-----------------------------------------------------------------------------
(* The steps that write rows.                                              *)

LEMMA DeleteImageRowKeepsInv ==
    ASSUME ListingInv, NEW r \in Requests, DeleteImageRow(r)
    PROVE  ListingInv'
<1> PICK files \in SUBSET Images : files = call[r].files
  BY CallFields DEF ListingInv
<1>1. /\ call[r].pc = "deleteImageRow" /\ Become(r, Idle)
      /\ image' = [i \in Images |-> IF i \in files THEN None ELSE image[i]]
      /\ UNCHANGED <<vehicle, auction, avatar, objects, disturbed>>
  BY DEF DeleteImageRow, End
<1>2. files \subseteq disturbed
  BY <1>1 DEF ListingInv, RemovalsAreKnown, Uploads
<1>3. \A i \in Images : Untouched(r, Idle, i) \/ Lost(r, Idle, i)
  BY <1>1, <1>2, IdleIsTyped DEF Untouched, Lost, Holds, Uploads
<1>4. RowsOnlyGo /\ image' \in [Images -> Image \cup {None}]
  BY <1>1, <1>2 DEF RowsOnlyGo, ListingInv, ListingTypeOK
<1>5. NoDanglingRow' /\ AuctionedIsKept'
  BY <1>1 DEF ListingInv, NoDanglingRow, AuctionedIsKept, Exists
<1> QED  BY <1>1, <1>3, <1>4, <1>5, IdleIsTyped, RequestStepKeepsInv
         DEF Filled, Uploads, ListingInv, ListingTypeOK

(* The vehicle goes with its rows; it was never auctioned.                 *)
LEMMA DeleteVehicleKeepsInv ==
    ASSUME ListingInv, NEW r \in Requests, DeleteVehicle(r)
    PROVE  ListingInv'
<1> PICK v \in Vehicles : v = call[r].vehicle
  BY DEF DeleteVehicle, DeleteWithImages, ListingInv, CallsAreFilled, Filled
<1> PICK files \in SUBSET Images : files = ImagesOf(v)
  BY DEF ImagesOf
<1>1. /\ call[r].pc = "deleteRow" /\ Become(r, Idle) /\ auction[v] = "NONE"
      /\ vehicle' = [vehicle EXCEPT ![v] = "GONE"]
      /\ image' = [i \in Images |-> IF i \in files THEN None ELSE image[i]]
      /\ disturbed' = disturbed \cup files
      /\ UNCHANGED <<auction, avatar, objects>>
  BY DEF DeleteVehicle, DeleteWithImages, Disturb, End
<1>2. \A i \in files : image[i] # None
  BY DEF ImagesOf
<1>3. \A i \in Images : Untouched(r, Idle, i) \/ Lost(r, Idle, i)
  BY <1>1, <1>2, IdleIsTyped DEF Untouched, Lost, Holds, Uploads
<1>4. RowsOnlyGo /\ image' \in [Images -> Image \cup {None}]
      /\ vehicle' \in [Vehicles -> VehicleStatus \cup {"NONE", "GONE"}]
  BY <1>1 DEF RowsOnlyGo, ListingInv, ListingTypeOK
<1>5. \A w \in Vehicles \ {v} : Exists(w) => Exists(w)'
  BY <1>1 DEF Exists, ListingInv, ListingTypeOK
<1>6. NoDanglingRow'
  <2> SUFFICES ASSUME NEW i \in Images, image'[i] # None
               PROVE  Exists(image[i].vehicle)'
    BY DEF NoDanglingRow
  <2>1. image'[i] = image[i] /\ image[i] # None /\ i \notin files
    BY <1>1
  <2>2. PICK w \in Vehicles \ {v} : w = image[i].vehicle
    BY <2>1 DEF ImagesOf, ListingInv, ListingTypeOK, Image
  <2>3. Exists(w)'
    BY <1>5, <2>1, <2>2 DEF ListingInv, NoDanglingRow
  <2> QED  BY <2>1, <2>2, <2>3 DEF Exists
<1>7. AuctionedIsKept'
  BY <1>1, <1>5 DEF ListingInv, AuctionedIsKept
<1> QED  BY <1>1, <1>3, <1>4, <1>6, <1>7, IdleIsTyped, RequestStepKeepsInv
         DEF Filled, Uploads, ListingInv, ListingTypeOK

LEMMA WriteAvatarKeepsInv ==
    ASSUME ListingInv, NEW r \in Requests, WriteAvatar(r)
    PROVE  ListingInv'
<1>1. PICK new \in Images : call[r].files = {new}
  BY DEF WriteAvatar, ListingInv, CallsAreFilled, Filled
<1> PICK old \in SUBSET Images : old = {avatar} \ {None}
  BY DEF ListingInv, ListingTypeOK
<1>2. /\ call[r].pc = "writeAvatar" /\ Become(r, Idle) /\ avatar' = new
      /\ disturbed' = disturbed \cup old
      /\ UNCHANGED <<vehicle, auction, image, objects>>
  BY <1>1 DEF WriteAvatar, Disturb, End
<1>3. new \in objects /\ avatar # new /\ Holds(call[r], new)
  BY <1>1, <1>2 DEF ListingInv, UploadsAreOwn, Uploads, Holds
<1>4. \A i \in Images : Untouched(r, Idle, i) \/ Lost(r, Idle, i) \/ Kept(r, Idle, i)
  <2> TAKE i \in Images
  <2>1. ~Holds(Idle, i)
    BY IdleIsTyped DEF Holds, Uploads
  <2>2. CASE i = new
    BY <1>2, <1>3, <2>1, <2>2 DEF Kept
  <2>3. CASE i # new /\ avatar = i
    BY <1>2, <2>1, <2>3, ListingAssumption DEF Lost
  <2>4. CASE i # new /\ avatar # i
    BY <1>1, <1>2, <2>1, <2>4 DEF Untouched, Holds
  <2> QED  BY <2>2, <2>3, <2>4
<1>5. RowsOnlyGo
  BY <1>2 DEF RowsOnlyGo
<1>6. NoDanglingRow' /\ AuctionedIsKept'
  BY <1>2 DEF ListingInv, NoDanglingRow, AuctionedIsKept, Exists
<1> QED  BY <1>2, <1>4, <1>5, <1>6, IdleIsTyped, RequestStepKeepsInv
         DEF Filled, Uploads, ListingInv, ListingTypeOK

(* The rows of an upload: their orders are different, and above those the  *)
(* vehicle's images have unless another upload came in between.            *)
LEMMA InsertImagesKeepsInv ==
    ASSUME ListingInv, NEW r \in Requests, InsertImages(r)
    PROVE  ListingInv'
<1> PICK v \in Vehicles : v = call[r].vehicle
  BY DEF InsertImages, InsertRows, ListingInv, CallsAreFilled, Filled
<1> PICK files \in SUBSET Images : files = call[r].files
  BY CallFields DEF ListingInv
<1> PICK first \in Nat : first = call[r].first
  BY CallFields, FS_CardinalityType, ListingAssumption DEF ListingInv
<1> PICK fresh \in BOOLEAN : fresh = call[r].fresh
  BY CallFields DEF ListingInv
<1> DEFINE n == Cardinality(files)
<1>1. PICK rows \in Batch(r) :
         image' = [i \in Images |-> IF i \in files THEN rows[i] ELSE image[i]]
  BY DEF InsertImages, InsertRows
<1>2. PICK place \in [files -> 0 .. n - 1] :
         /\ \A i, j \in files : place[i] = place[j] => i = j
         /\ rows = [i \in files |-> [vehicle |-> v, order |-> first + place[i],
                                     isPrimary |-> fresh /\ place[i] = 0]]
  BY DEF Batch
<1>3. /\ call[r].pc = "insertImages" /\ Become(r, Idle) /\ Exists(v)
      /\ disturbed' = disturbed \cup (IF Overlapped(r) THEN {v} ELSE {})
      /\ UNCHANGED <<vehicle, auction, avatar, objects>>
  BY DEF InsertImages, InsertRows, Disturb, End
<1>4. \A i \in files : /\ i \in objects /\ i \notin disturbed /\ image[i] = None
                      /\ Holds(call[r], i)
  BY <1>3 DEF ListingInv, UploadsAreOwn, Uploads, Holds
<1>5. n \in Nat /\ IsFiniteSet(files)
  BY FS_Subset, FS_CardinalityType, ListingAssumption
<1> HIDE DEF n
<1>6. first <= Cardinality(Settled)
      /\ (v \notin disturbed => \A i \in ImagesOf(v) : image[i].order < first /\ ~fresh)
  BY <1>3 DEF ListingInv, ReadsAreFresh, ReadIsFresh
<1>7. \A i \in Images \ files : image'[i] = image[i]
  BY <1>1
<1>8. /\ Cardinality(Settled) \in Nat
      /\ Cardinality(Settled \cup files) = Cardinality(Settled) + n
      /\ Cardinality(Settled \cup files) <= Cardinality(Images)
  <2>1. Settled \cap files = {} /\ Settled \cup files \in SUBSET Images
    BY <1>4 DEF Settled
  <2>2. Cardinality(Settled \cup files) <= Cardinality(Images)
    BY <2>1, FS_Subset, ListingAssumption
  <2>3. Cardinality(Settled \cup files) = Cardinality(Settled) + n
    <3>1. Cardinality(Settled \cup files) =
             Cardinality(Settled) + Cardinality(files) - Cardinality(Settled \cap files)
      BY <1>5, FS_Union, SettledIsFinite
    <3>2. Cardinality(Settled \cap files) = 0
      BY <2>1, FS_EmptySet
    <3>3. Cardinality(files) = n
      BY DEF n
    <3> QED  BY <1>5, <3>1, <3>2, <3>3, SettledIsFinite
  <2> QED  BY <2>2, <2>3, SettledIsFinite
<1>9. ASSUME NEW i \in files
      PROVE  /\ image'[i] \in Image /\ image'[i] # None /\ image'[i].vehicle = v
             /\ place[i] \in 0 .. n - 1 /\ image'[i].order = first + place[i]
             /\ first + place[i] < Cardinality(Settled) + n
             /\ image'[i].isPrimary => fresh /\ place[i] = 0
  <2> PICK primary \in BOOLEAN : primary = (fresh /\ place[i] = 0)
    OBVIOUS
  <2> DEFINE row == [vehicle |-> v, order |-> first + place[i], isPrimary |-> primary]
  <2>1. image'[i] = row
    BY <1>1, <1>2
  <2>2. place[i] \in 0 .. n - 1
    BY <1>2
  <2>3. first + place[i] \in Nat /\ first + place[i] < Cardinality(Settled) + n
    BY <1>5, <1>6, <1>8, <2>2
  <2>4. first + place[i] \in 0 .. Cardinality(Images)
    BY <1>5, <1>8, <2>3, SettledIsFinite
  <2>5. row \in Image
    BY <2>4 DEF Image
  <2>6. row.vehicle = v /\ row.order = first + place[i] /\ row.isPrimary = primary
    OBVIOUS
  <2> HIDE DEF row
  <2>7. row # None
    BY <2>5, ListingAssumption
  <2> QED  BY <2>1, <2>2, <2>3, <2>5, <2>6, <2>7
<1>10. Settled' = Settled \cup files
  BY <1>3, <1>4, <1>7, <1>9, ListingAssumption DEF Settled
<1>11. ListingTypeOK'
  <2>1. image' \in [Images -> Image \cup {None}]
    BY <1>1, <1>7, <1>9 DEF ListingInv, ListingTypeOK
  <2>2. call' \in [Requests -> CallRow]
    BY <1>3, IdleIsTyped, CallChange DEF ListingInv
  <2> QED  BY <1>3, <2>1, <2>2 DEF ListingInv, ListingTypeOK
<1>12. call'[r] = Idle /\ \A q \in Requests \ {r} : call'[q] = call[q]
  BY <1>3, IdleIsTyped, CallChange DEF ListingInv
<1>13. CallsAreFilled'
  BY <1>12, IdleIsTyped DEF ListingInv, CallsAreFilled, Filled
<1>14. UploadsAreOwn' /\ RemovalsAreKnown' /\ FilesMatchRows'
  <2>1. \A i \in Images : Untouched(r, Idle, i) \/ Kept(r, Idle, i)
    <3> TAKE i \in Images
    <3>1. ~Holds(Idle, i)
      BY IdleIsTyped DEF Holds, Uploads
    <3>2. CASE i \in files
      BY <1>3, <1>4, <1>9, <3>1, <3>2 DEF Kept
    <3>3. CASE i \notin files
      BY <1>3, <1>7, <3>1, <3>3, ListingAssumption DEF Untouched, Holds
    <3> QED  BY <3>2, <3>3
  <2>2. disturbed \subseteq disturbed' /\ Idle.files = {}
    BY <1>3, IdleIsTyped
  <2> QED  BY <1>3, <1>11, <2>1, <2>2, IdleIsTyped, FilesStep DEF ListingInv, FilesInv
<1>15. OrdersAreBounded'
  <2> SUFFICES ASSUME NEW i \in Images, image'[i] # None
               PROVE  image'[i].order < Cardinality(Settled')
    BY DEF OrdersAreBounded
  <2>1. CASE i \in files
    BY <1>8, <1>9, <1>10, <2>1
  <2>2. CASE i \notin files
    <3>1. image'[i] = image[i] /\ image[i].order \in Nat
          /\ image[i].order < Cardinality(Settled)
      BY <1>7, <2>2 DEF ListingInv, ListingTypeOK, Image, OrdersAreBounded
    <3> QED  BY <1>5, <1>8, <1>10, <3>1
  <2> QED  BY <2>1, <2>2
<1>16. ReadsAreFresh'
  <2> SUFFICES ASSUME NEW q \in Requests, call'[q].pc = "insertImages"
               PROVE  ReadIsFresh(call[q])'
    BY DEF ReadsAreFresh
  <2>1. q # r /\ call'[q] = call[q]
    BY <1>12, IdleIsTyped
  <2>2. PICK w \in Vehicles : w = call[q].vehicle
    BY <2>1 DEF ListingInv, CallsAreFilled, Filled
  <2>3. PICK c \in CallRow : c = call[q] /\ ReadIsFresh(c)
    BY <2>1, CallFields DEF ListingInv, ReadsAreFresh
  <2>4. c.first <= Cardinality(Settled') /\ c.vehicle = w
    <3>1. c.first \in Nat
      BY FS_CardinalityType, ListingAssumption DEF CallRow
    <3> QED  BY <1>5, <1>8, <1>10, <2>2, <2>3, <3>1 DEF ReadIsFresh
  <2>5. w = v => v \in disturbed'
    BY <1>3, <2>1, <2>2 DEF Overlapped
  <2>6. w # v => ImagesOf(w)' = ImagesOf(w)
    BY <1>4, <1>7, <1>9 DEF ImagesOf
  <2>7. w \notin disturbed' => \A i \in ImagesOf(w)' : image'[i].order < c.first /\ ~c.fresh
    <3> SUFFICES ASSUME w \notin disturbed', NEW i \in ImagesOf(w)'
                 PROVE  image'[i].order < c.first /\ ~c.fresh
      OBVIOUS
    <3>1. w # v /\ w \notin disturbed /\ i \in ImagesOf(w)
      BY <1>3, <2>5, <2>6
    <3>2. i \in Images \ files
      BY <1>4, <3>1 DEF ImagesOf
    <3> QED  BY <1>7, <2>3, <2>4, <3>1, <3>2 DEF ReadIsFresh
  <2>8. ReadIsFresh(c)'
    BY <2>4, <2>7 DEF ReadIsFresh
  <2> QED  BY <2>1, <2>3, <2>8
<1>17. GalleryIsOrdered'
  <2> SUFFICES ASSUME NEW i \in Images, NEW j \in Images, i # j,
                      image'[i] # None, image'[j] # None,
                      image'[i].vehicle = image'[j].vehicle, image'[i].vehicle \notin disturbed'
               PROVE  /\ image'[i].order # image'[j].order
                      /\ ~(image'[i].isPrimary /\ image'[j].isPrimary)
    BY DEF GalleryIsOrdered
  <2>1. CASE i \notin files /\ j \notin files
    BY <1>3, <1>7, <2>1 DEF ListingInv, GalleryIsOrdered
  <2>2. CASE i \in files /\ j \in files
    <3>1. place[i] # place[j] /\ place[i] \in Nat /\ place[j] \in Nat
      BY <1>2, <1>9, <2>2
    <3> QED  BY <1>9, <2>2, <3>1
  <2>3. ASSUME NEW new \in files, NEW old \in Images \ files,
               image'[old] # None, image'[old].vehicle = v, v \notin disturbed'
        PROVE  image'[old].order # image'[new].order /\ ~image'[new].isPrimary
    <3>1. old \in ImagesOf(v) /\ image'[old] = image[old] /\ v \notin disturbed
      BY <1>3, <1>7, <2>3 DEF ImagesOf
    <3>2. image[old].order \in Nat /\ image[old].order < first /\ ~fresh
      BY <1>6, <2>3, <3>1 DEF ListingInv, ListingTypeOK, Image
    <3> QED  BY <1>9, <3>1, <3>2
  <2>4. CASE i \in files /\ j \notin files
    BY <1>9, <2>3, <2>4
  <2>5. CASE i \notin files /\ j \in files
    BY <1>9, <2>3, <2>5
  <2> QED  BY <2>1, <2>2, <2>4, <2>5
<1>18. NoDanglingRow'
  <2> SUFFICES ASSUME NEW i \in Images, image'[i] # None
               PROVE  Exists(image[i].vehicle)'
    BY DEF NoDanglingRow
  <2>1. CASE i \in files
    BY <1>3, <1>9, <2>1 DEF Exists
  <2>2. CASE i \notin files
    BY <1>3, <1>7, <2>2 DEF Exists, ListingInv, NoDanglingRow
  <2> QED  BY <2>1, <2>2
<1>19. AuctionedIsKept'
  BY <1>3 DEF ListingInv, AuctionedIsKept, Exists
<1> QED  BY <1>11, <1>13, <1>14, <1>15, <1>16, <1>17, <1>18, <1>19 DEF ListingInv

-----------------------------------------------------------------------------
(* The invariant.                                                          *)

LEMMA ListingInitInv ==
    ASSUME ListingInit
    PROVE  ListingInv
<1> USE DEF ListingInit
<1>1. ListingTypeOK
  BY IdleIsTyped DEF ListingTypeOK
<1>2. CallsAreFilled /\ UploadsAreOwn /\ RemovalsAreKnown /\ ReadsAreFresh
  BY IdleIsTyped DEF CallsAreFilled, Filled, UploadsAreOwn, RemovalsAreKnown, ReadsAreFresh,
     Uploads
<1>3. FilesMatchRows
  BY ListingAssumption DEF FilesMatchRows
<1>4. OrdersAreBounded /\ GalleryIsOrdered /\ NoDanglingRow /\ AuctionedIsKept
  BY DEF OrdersAreBounded, GalleryIsOrdered, NoDanglingRow, AuctionedIsKept
<1> QED  BY <1>1, <1>2, <1>3, <1>4 DEF ListingInv

(* No image and no request is touched.                                     *)
LEMMA VehicleStepKeepsInv ==
    ASSUME ListingInv, UNCHANGED <<image, avatar, objects, call, disturbed>>,
           vehicle' \in [Vehicles -> VehicleStatus \cup {"NONE", "GONE"}],
           auction' \in [Vehicles -> {"NONE", "OPEN", "OVER"}],
           \A v \in Vehicles : /\ Exists(v) => Exists(v)'
                               /\ auction'[v] # "NONE" => auction[v] # "NONE"
    PROVE  ListingInv'
<1> USE DEF ListingInv
<1>1. ListingTypeOK'
  BY DEF ListingTypeOK
<1>2. CallsAreFilled' /\ UploadsAreOwn' /\ RemovalsAreKnown' /\ FilesMatchRows'
  BY DEF CallsAreFilled, Filled, UploadsAreOwn, RemovalsAreKnown, FilesMatchRows, Uploads,
     Uploading
<1>3. OrdersAreBounded' /\ ReadsAreFresh' /\ GalleryIsOrdered'
  BY DEF OrdersAreBounded, ReadsAreFresh, ReadIsFresh, GalleryIsOrdered, Settled, ImagesOf
<1>4. NoDanglingRow'
  BY DEF NoDanglingRow, ListingTypeOK, Image
<1>5. AuctionedIsKept'
  BY DEF AuctionedIsKept
<1> QED  BY <1>1, <1>2, <1>3, <1>4, <1>5

LEMMA CreateAndCloseKeepInv ==
    ASSUME ListingInv, NEW v \in Vehicles, Create(v) \/ CloseAuction(v)
    PROVE  ListingInv'
<1>1. CASE Create(v)
  <2>1. vehicle' \in [Vehicles -> VehicleStatus \cup {"NONE", "GONE"}]
        /\ \A w \in Vehicles : Exists(w) => Exists(w)'
    BY <1>1 DEF Create, Exists, VehicleStatus, ListingInv, ListingTypeOK
  <2> QED  BY <1>1, <2>1, VehicleStepKeepsInv DEF Create, ListingInv, ListingTypeOK
<1>2. CASE CloseAuction(v)
  <2>1. PICK s \in {"SOLD", "PUBLISHED"} : vehicle' = [vehicle EXCEPT ![v] = s]
    BY <1>2 DEF CloseAuction
  <2>2. vehicle' \in [Vehicles -> VehicleStatus \cup {"NONE", "GONE"}]
        /\ \A w \in Vehicles : Exists(w) => Exists(w)'
    BY <2>1 DEF Exists, VehicleStatus, ListingInv, ListingTypeOK
  <2>3. /\ auction' \in [Vehicles -> {"NONE", "OPEN", "OVER"}]
        /\ \A w \in Vehicles : auction'[w] # "NONE" => auction[w] # "NONE"
    BY <1>2 DEF CloseAuction, ListingInv, ListingTypeOK
  <2> QED  BY <1>2, <2>2, <2>3, VehicleStepKeepsInv DEF CloseAuction
<1> QED  BY <1>1, <1>2

LEMMA ArriveKeepsInv ==
    ASSUME ListingInv, NEW r \in Requests, Arrive(r)
    PROVE  ListingInv'
<1>1. CASE \E v \in Vehicles : Publish(r, v) \/ RejectVehicle(r, v) \/ Update(r, v)
  <2>1. \E v \in Vehicles, s \in VehicleStatus : DecideStatus(r, v, s)
    BY <1>1 DEF Publish, RejectVehicle, Update, VehicleStatus
  <2> QED  BY <2>1, DecideStatusKeepsInv
<1>2. CASE \E v \in Vehicles, n \in 1 .. MaxFiles : UploadImages(r, v, n)
  BY <1>2, UploadImagesKeepsInv
<1>3. CASE \E v \in Vehicles : Delete(r, v)
  BY <1>3, DeleteKeepsInv
<1>4. CASE \E v \in Vehicles : CreateAuction(r, v)
  BY <1>4, CreateAuctionKeepsInv
<1>5. CASE \E i \in Images : DeleteImage(r, i)
  BY <1>5, DeleteImageKeepsInv
<1>6. CASE UploadAvatar(r)
  BY <1>6, UploadAvatarKeepsInv
<1> QED  BY <1>1, <1>2, <1>3, <1>4, <1>5, <1>6 DEF Arrive

LEMMA ProceedKeepsInv ==
    ASSUME ListingInv, NEW r \in Requests, Proceed(r)
    PROVE  ListingInv'
<1>1. CASE WriteStatus(r)
  BY <1>1, WriteStatusKeepsInv
<1>2. CASE UploadFile(r)
  BY <1>2, UploadFileKeepsInv
<1>3. CASE ReadOrder(r)
  BY <1>3, ReadOrderKeepsInv
<1>4. CASE InsertImages(r)
  BY <1>4, InsertImagesKeepsInv
<1>5. CASE RemoveObject(r)
  BY <1>5, RemoveObjectKeepsInv
<1>6. CASE DeleteImageRow(r)
  BY <1>6, DeleteImageRowKeepsInv
<1>7. CASE DropFile(r)
  BY <1>7, DropFileKeepsInv
<1>8. CASE DeleteVehicle(r)
  BY <1>8, DeleteVehicleKeepsInv
<1>9. CASE DropAvatar(r)
  BY <1>9, DropAvatarKeepsInv
<1>10. CASE StoreAvatar(r)
  BY <1>10, StoreAvatarKeepsInv
<1>11. CASE WriteAvatar(r)
  BY <1>11, WriteAvatarKeepsInv
<1>12. CASE InsertAuction(r)
  BY <1>12, InsertAuctionKeepsInv
<1>13. CASE MarkVehicle(r)
  BY <1>13, MarkVehicleKeepsInv
<1> QED  BY <1>1, <1>2, <1>3, <1>4, <1>5, <1>6, <1>7, <1>8, <1>9, <1>10, <1>11, <1>12, <1>13
         DEF Proceed

LEMMA ListingNextInv ==
    ASSUME ListingInv, [ListingNext]_listingVars
    PROVE  ListingInv'
<1>1. CASE UNCHANGED listingVars
  BY <1>1, VehicleStepKeepsInv DEF listingVars, Exists, ListingInv, ListingTypeOK
<1> QED  BY <1>1, CreateAndCloseKeepInv, ArriveKeepsInv, ProceedKeepsInv, FailKeepsInv
         DEF ListingNext

(* The inductive invariant: an upload's files are its own until they have  *)
(* rows, what is removed is known to be, and no order reaches the number   *)
(* of images there ever were (vehicles.service.ts:187-297,                 *)
(* users.service.ts:82-106).                                               *)
THEOREM ListingInvariant == ListingSpec => []ListingInv
<1>1. ListingInv /\ [ListingNext]_listingVars => ListingInv'
  BY ListingNextInv
<1> QED  BY <1>1, ListingInitInv, PTL DEF ListingSpec

(* Every variable keeps its type.                                          *)
THEOREM ListingTypeCorrect == ListingSpec => []ListingTypeOK
<1>1. ListingInv => ListingTypeOK
  BY DEF ListingInv
<1> QED  BY <1>1, ListingInvariant, PTL

(* An image that nobody removes or loses has both its object and a row or  *)
(* profile that names it, or neither, whatever the other requests do       *)
(* (vehicles.service.ts:206-214, 235-272, 293-294).                        *)
THEOREM FilesAlwaysMatchRows == ListingSpec => []FilesMatchRows
<1>1. ListingInv => FilesMatchRows
  BY DEF ListingInv
<1> QED  BY <1>1, ListingInvariant, PTL

(* No image row outlives its vehicle                                       *)
(* (vehicles-cleanup.service.ts:25-30 looks for such rows).                *)
THEOREM RowsNeverDangle == ListingSpec => []NoDanglingRow
<1>1. ListingInv => NoDanglingRow
  BY DEF ListingInv
<1> QED  BY <1>1, ListingInvariant, PTL

(* A vehicle that was ever auctioned is never deleted                      *)
(* (vehicles.service.ts:201, auctions.service.ts:61).                      *)
THEOREM AuctionedIsAlwaysKept == ListingSpec => []AuctionedIsKept
<1>1. ListingInv => AuctionedIsKept
  BY DEF ListingInv
<1> QED  BY <1>1, ListingInvariant, PTL

(* Uploads that do not overlap leave a vehicle's images in different       *)
(* places, one of them at most the primary one, whatever was removed in    *)
(* between (vehicles.service.ts:247-272).                                  *)
THEOREM GalleryIsAlwaysOrdered == ListingSpec => []GalleryIsOrdered
<1>1. ListingInv => GalleryIsOrdered
  BY DEF ListingInv
<1> QED  BY <1>1, ListingInvariant, PTL
=============================================================================
