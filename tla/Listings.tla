------------------------------- MODULE Listings -------------------------------
(***************************************************************************)
(* Vehicles and their images: VehiclesService                              *)
(* (src/src/modules/vehicles/vehicles.service.ts), what admins do to a     *)
(* vehicle's status (admin.service.ts) and what auctions do to it          *)
(* (auctions.service.ts; AuctionLifecycle has the details).  An image is a *)
(* row of vehicle_images and an object in MinIO, under the same name here. *)
(* The avatar of a user (users.service.ts) is an object of the same store, *)
(* referred to by a column.  Every await that reads or writes shared state *)
(* is a step.  Left out: the other columns, the owner's checks, and the    *)
(* counting of views (module Views).                                       *)
(***************************************************************************)
EXTENDS Slots, Integers, FiniteSets, FiniteSetsExt

CONSTANTS
    Vehicles,
    Images,     \* a bound on the images ever uploaded
    MaxFiles    \* MAX_FILES of an upload

Image == [vehicle : Vehicles, order : 0 .. Cardinality(Images), isPrimary : BOOLEAN]

ASSUME ListingAssumption ==
    /\ None \notin Vehicles \cup Images \cup Requests \cup Image
    /\ Vehicles \cap Images = {}
    /\ IsFiniteSet(Images)
    /\ MaxFiles \in Nat \ {0}

VARIABLES
    vehicle,    \* the status of each vehicle; NONE before, GONE after its row
    auction,    \* the auction row of each vehicle
    image,      \* vehicle_images
    avatar,     \* users.avatar, of one user
    objects,    \* the images stored in MinIO
    call,       \* what each request in flight is doing
    disturbed   \* history: images whose removal began or whose upload failed,
                \* avatars a second upload of one replaced unseen, and
                \* vehicles two of whose uploads overlapped

listingVars == <<vehicle, auction, image, avatar, objects, call, disturbed>>

-----------------------------------------------------------------------------
VehicleStatus == {"DRAFT", "PUBLISHED", "IN_AUCTION", "SOLD", "ARCHIVED"}

Pc == {"idle", "writeStatus", "upload", "readOrder", "insertImages", "dropFiles",
       "deleteRow", "removeObject", "deleteImageRow", "insertAuction", "markVehicle",
       "dropAvatar", "storeAvatar", "writeAvatar"}

(* files: what an upload has stored or a deletion has still to remove (an  *)
(* avatar's upload: first the old one, then the new one);                  *)
(* first: the order the first new image gets; fresh: there were none.      *)
NewCall(pc, v, files) == [pc |-> pc, vehicle |-> v, status |-> None, files |-> files,
                          left |-> 0, first |-> 0, fresh |-> FALSE]

Idle == NewCall("idle", None, {})

Become(r, c) == call' = [call EXCEPT ![r] = c]

End(r) == Become(r, Idle)

Disturb(S) == disturbed' = disturbed \cup S

Exists(v) == vehicle[v] \in VehicleStatus

ImagesOf(v) == {i \in Images : image[i] # None /\ image[i].vehicle = v}

Uploads(c) == c.pc \in {"upload", "readOrder", "insertImages", "writeAvatar"}

Uploading == UNION {call[r].files : r \in {q \in Requests : Uploads(call[q])}}

(* Names are drawn with uuid() and never again.                            *)
NewImages == {i \in Images \ (objects \cup disturbed \cup Uploading) : image[i] = None}

ListingInit ==
    /\ vehicle = [v \in Vehicles |-> "NONE"]
    /\ auction = [v \in Vehicles |-> "NONE"]
    /\ image = [i \in Images |-> None]
    /\ avatar = None
    /\ objects = {}
    /\ call = [r \in Requests |-> Idle]
    /\ disturbed = {}

-----------------------------------------------------------------------------
Create(v) ==
    /\ vehicle[v] = "NONE"
    /\ vehicle' = [vehicle EXCEPT ![v] = "DRAFT"]
    /\ UNCHANGED <<auction, image, avatar, objects, call, disturbed>>

(* The status to write is decided on the row as it is read.                *)
DecideStatus(r, v, s) ==
    /\ call[r] = Idle
    /\ Become(r, [NewCall("writeStatus", v, {}) EXCEPT !.status = s])
    /\ UNCHANGED <<vehicle, auction, image, avatar, objects, disturbed>>

(* The seller's publish and the admin's approveVehicle.                    *)
Publish(r, v) == vehicle[v] = "DRAFT" /\ DecideStatus(r, v, "PUBLISHED")

RejectVehicle(r, v) == Exists(v) /\ DecideStatus(r, v, "ARCHIVED")

(* update takes any status.                                                *)
Update(r, v) == Exists(v) /\ \E s \in VehicleStatus : DecideStatus(r, v, s)

(* UPDATE WHERE id: whatever the status is by now, an error if none.       *)
WriteStatus(r) ==
    LET v == call[r].vehicle IN
    /\ call[r].pc = "writeStatus"
    /\ vehicle' = [vehicle EXCEPT ![v] = IF Exists(v) THEN call[r].status ELSE @]
    /\ End(r)
    /\ UNCHANGED <<auction, image, avatar, objects, disturbed>>

-----------------------------------------------------------------------------
(* uploadImages of n files.                                                *)

UploadImages(r, v, n) ==
    /\ call[r] = Idle
    /\ Exists(v)
    /\ Become(r, [NewCall("upload", v, {}) EXCEPT !.left = n])
    /\ UNCHANGED <<vehicle, auction, image, avatar, objects, disturbed>>

(* putObject of the next file, done when it was the last one.              *)
StoreFile(r, done) ==
    /\ call[r].pc = "upload"
    /\ \E i \in NewImages :
          /\ objects' = objects \cup {i}
          /\ Become(r, [NewCall(IF done THEN "readOrder" ELSE "upload", call[r].vehicle,
                                call[r].files \cup {i}) EXCEPT !.left = call[r].left - 1])
    /\ UNCHANGED <<vehicle, auction, image, avatar, disturbed>>

(* Slip: one file too many.                                                *)
UploadFileTooMany(r) == StoreFile(r, call[r].left = 0)

UploadFile(r) == StoreFile(r, call[r].left = 1)

(* The transaction begins with MAX(order), which locks nothing.            *)
ReadOrder(r) ==
    LET orders == {image[i].order : i \in ImagesOf(call[r].vehicle)} IN
    /\ call[r].pc = "readOrder"
    /\ Become(r, [NewCall("insertImages", call[r].vehicle, call[r].files)
                     EXCEPT !.fresh = orders = {},
                            !.first = IF orders = {} THEN 0 ELSE Max(orders) + 1])
    /\ UNCHANGED <<vehicle, auction, image, avatar, objects, disturbed>>

(* The rows of a batch, in one of the orders its files may have.           *)
Batch(r) ==
    LET files == call[r].files
        places == {f \in [files -> 0 .. Cardinality(files) - 1] :
                      \A i, j \in files : f[i] = f[j] => i = j}
    IN
    {[i \in files |-> [vehicle |-> call[r].vehicle, order |-> call[r].first + place[i],
                       isPrimary |-> call[r].fresh /\ place[i] = 0]] : place \in places}

(* Another upload for the vehicle that has read the same MAX(order).       *)
Overlapped(r) ==
    \E q \in Requests \ {r} : call[q].pc = "insertImages" /\ call[q].vehicle = call[r].vehicle

(* The INSERTs and their COMMIT.                                           *)
InsertRows(r) ==
    /\ call[r].pc = "insertImages"
    /\ \E rows \in Batch(r) :
        image' = [i \in Images |-> IF i \in call[r].files THEN rows[i] ELSE image[i]]
    /\ Disturb(IF Overlapped(r) THEN {call[r].vehicle} ELSE {})
    /\ End(r)
    /\ UNCHANGED <<vehicle, auction, avatar, objects>>

(* vehicle_id refers to a vehicle: once it is gone the transaction fails   *)
(* (Fail), and the files stay.                                             *)
InsertImages(r) ==
    /\ call[r].pc = "insertImages"
    /\ Exists(call[r].vehicle)
    /\ InsertRows(r)

-----------------------------------------------------------------------------
(* deleteImage: the object first, then the row.                            *)

DeleteImage(r, i) ==
    /\ call[r] = Idle
    /\ image[i] # None
    /\ Become(r, NewCall("removeObject", image[i].vehicle, {i}))
    /\ Disturb({i})
    /\ UNCHANGED <<vehicle, auction, image, avatar, objects>>

RemoveObject(r) ==
    /\ call[r].pc = "removeObject"
    /\ objects' = objects \ call[r].files
    /\ Become(r, NewCall("deleteImageRow", call[r].vehicle, call[r].files))
    /\ UNCHANGED <<vehicle, auction, image, avatar, disturbed>>

DeleteImageRow(r) ==
    /\ call[r].pc = "deleteImageRow"
    /\ image' = [i \in Images |-> IF i \in call[r].files THEN None ELSE image[i]]
    /\ End(r)
    /\ UNCHANGED <<vehicle, auction, avatar, objects, disturbed>>

(* delete: the objects one by one, then the vehicle with its rows.         *)

Delete(r, v) ==
    LET files == ImagesOf(v) IN
    /\ call[r] = Idle
    /\ Exists(v) /\ vehicle[v] # "IN_AUCTION"
    /\ Become(r, NewCall(IF files = {} THEN "deleteRow" ELSE "dropFiles", v, files))
    /\ Disturb(files)
    /\ UNCHANGED <<vehicle, auction, image, avatar, objects>>

(* Slip: the directory of the vehicle is removed instead.                  *)
DropFileOfVehicle(r) ==
    /\ call[r].pc = "dropFiles"
    /\ objects' = objects \ ImagesOf(call[r].vehicle)
    /\ Become(r, NewCall("deleteRow", call[r].vehicle, {}))
    /\ UNCHANGED <<vehicle, auction, image, avatar, disturbed>>

(* A removal that fails is passed over.                                    *)
DropFile(r) ==
    /\ call[r].pc = "dropFiles"
    /\ \E i \in call[r].files :
          /\ objects' \in {objects, objects \ {i}}
          /\ Become(r, NewCall(IF call[r].files = {i} THEN "deleteRow" ELSE "dropFiles",
                               call[r].vehicle, call[r].files \ {i}))
    /\ UNCHANGED <<vehicle, auction, image, avatar, disturbed>>

(* Images are deleted with their vehicle, those added since the read       *)
(* included, whose objects stay.                                           *)
DeleteWithImages(r) ==
    LET v == call[r].vehicle IN
    /\ call[r].pc = "deleteRow"
    /\ vehicle' = [vehicle EXCEPT ![v] = "GONE"]
    /\ image' = [i \in Images |-> IF i \in ImagesOf(v) THEN None ELSE image[i]]
    /\ Disturb(ImagesOf(v))
    /\ End(r)
    /\ UNCHANGED <<auction, avatar, objects>>

(* An auction refers to its vehicle for good: the DELETE then fails, and   *)
(* so it does when the row is gone (Fail).                                 *)
DeleteVehicle(r) ==
    /\ call[r].pc = "deleteRow"
    /\ Exists(call[r].vehicle) /\ auction[call[r].vehicle] = "NONE"
    /\ DeleteWithImages(r)

-----------------------------------------------------------------------------
(* uploadAvatar: the old object first, then the new one, then the column.  *)

UploadAvatar(r) ==
    LET old == {avatar} \ {None} IN
    /\ call[r] = Idle
    /\ Become(r, NewCall(IF old = {} THEN "storeAvatar" ELSE "dropAvatar", None, old))
    /\ Disturb(old)
    /\ UNCHANGED <<vehicle, auction, image, avatar, objects>>

DropAvatar(r) ==
    /\ call[r].pc = "dropAvatar"
    /\ objects' \in {objects, objects \ call[r].files}
    /\ Become(r, NewCall("storeAvatar", None, {}))
    /\ UNCHANGED <<vehicle, auction, image, avatar, disturbed>>

StoreAvatar(r) ==
    /\ call[r].pc = "storeAvatar"
    /\ \E i \in NewImages :
          /\ objects' = objects \cup {i}
          /\ Become(r, NewCall("writeAvatar", None, {i}))
    /\ UNCHANGED <<vehicle, auction, image, avatar, disturbed>>

(* An avatar stored by another upload meanwhile is left behind.            *)
WriteAvatar(r) ==
    /\ call[r].pc = "writeAvatar"
    /\ avatar' \in call[r].files
    /\ Disturb({avatar} \ {None})
    /\ End(r)
    /\ UNCHANGED <<vehicle, auction, image, objects>>

-----------------------------------------------------------------------------
(* What auctions do to a vehicle: create, then endAuction or cancelAuction.*)

CreateAuction(r, v) ==
    /\ call[r] = Idle
    /\ vehicle[v] = "PUBLISHED" /\ auction[v] # "OPEN"
    /\ Become(r, NewCall("insertAuction", v, {}))
    /\ UNCHANGED <<vehicle, auction, image, avatar, objects, disturbed>>

(* vehicle_id is unique and refers to a vehicle: or else the INSERT fails. *)
InsertAuction(r) ==
    LET v == call[r].vehicle IN
    /\ call[r].pc = "insertAuction"
    /\ Exists(v) /\ auction[v] = "NONE"
    /\ auction' = [auction EXCEPT ![v] = "OPEN"]
    /\ Become(r, NewCall("markVehicle", v, {}))
    /\ UNCHANGED <<vehicle, image, avatar, objects, disturbed>>

MarkVehicle(r) ==
    /\ call[r].pc = "markVehicle"
    /\ vehicle' = [vehicle EXCEPT ![call[r].vehicle] = "IN_AUCTION"]
    /\ End(r)
    /\ UNCHANGED <<auction, image, avatar, objects, disturbed>>

CloseAuction(v) ==
    /\ auction[v] = "OPEN"
    /\ auction' = [auction EXCEPT ![v] = "OVER"]
    /\ \E s \in {"SOLD", "PUBLISHED"} : vehicle' = [vehicle EXCEPT ![v] = s]
    /\ UNCHANGED <<image, avatar, objects, call, disturbed>>

-----------------------------------------------------------------------------
(* A call throws (a constraint is violated, the row is gone, a service is  *)
(* down) or the instance crashes: what was done stays done.                *)
Fail(r) ==
    /\ call[r] # Idle
    /\ End(r)
    /\ Disturb(call[r].files)
    /\ UNCHANGED <<vehicle, auction, image, avatar, objects>>

Arrive(r) ==
    \/ \E v \in Vehicles :
          \/ Publish(r, v) \/ RejectVehicle(r, v) \/ Update(r, v)
          \/ \E n \in 1 .. MaxFiles : UploadImages(r, v, n)
          \/ Delete(r, v) \/ CreateAuction(r, v)
    \/ \E i \in Images : DeleteImage(r, i)
    \/ UploadAvatar(r)

Proceed(r) ==
    \/ WriteStatus(r)
    \/ UploadFile(r) \/ ReadOrder(r) \/ InsertImages(r)
    \/ RemoveObject(r) \/ DeleteImageRow(r) \/ DropFile(r) \/ DeleteVehicle(r)
    \/ DropAvatar(r) \/ StoreAvatar(r) \/ WriteAvatar(r)
    \/ InsertAuction(r) \/ MarkVehicle(r)

ListingNext ==
    \/ \E v \in Vehicles : Create(v) \/ CloseAuction(v)
    \/ \E r \in Requests : Arrive(r) \/ Proceed(r) \/ Fail(r)

ListingSpec == ListingInit /\ [][ListingNext]_listingVars

-----------------------------------------------------------------------------
CallRow == [pc : Pc, vehicle : Vehicles \cup {None}, status : VehicleStatus \cup {None},
            files : SUBSET Images, left : 0 .. MaxFiles, first : 0 .. Cardinality(Images),
            fresh : BOOLEAN]

ListingTypeOK ==
    /\ vehicle \in [Vehicles -> VehicleStatus \cup {"NONE", "GONE"}]
    /\ auction \in [Vehicles -> {"NONE", "OPEN", "OVER"}]
    /\ image \in [Images -> Image \cup {None}]
    /\ avatar \in Images \cup {None}
    /\ objects \subseteq Images
    /\ call \in [Requests -> CallRow]
    /\ disturbed \subseteq Images \cup Vehicles

(* An image that nobody set out to remove, whose upload did not fail and   *)
(* which no overlapping upload replaced has both its object and a row or   *)
(* profile that refers to it, or neither, whatever happens to other images *)
(* (vehicles.service.ts:206-214, 235-272, 293-294, users.service.ts:89-104).*)
FilesMatchRows ==
    \A i \in Images \ (disturbed \cup Uploading) :
        i \in objects <=> image[i] # None \/ avatar = i

(* Every image row has its vehicle, an upload that overlaps the vehicle's  *)
(* deletion included: the rows the weekly clean-up looks for               *)
(* (vehicles-cleanup.service.ts:25-30) do not exist.                       *)
NoDanglingRow == \A i \in Images : image[i] # None => Exists(image[i].vehicle)

(* A vehicle that was ever auctioned is not deleted, whatever its status   *)
(* was overwritten with and whenever the deletion was checked              *)
(* (vehicles.service.ts:201, auctions.service.ts:61).                      *)
AuctionedIsKept == \A v \in Vehicles : auction[v] # "NONE" => Exists(v)

(* Unless uploads for a vehicle overlapped, its images have different      *)
(* orders and one of them at most is the primary one, whatever was removed *)
(* in between (vehicles.service.ts:247-272).                               *)
GalleryIsOrdered ==
    \A i, j \in Images :
        (/\ i # j /\ image[i] # None /\ image[j] # None
         /\ image[i].vehicle = image[j].vehicle /\ image[i].vehicle \notin disturbed)
        => /\ image[i].order # image[j].order
           /\ ~(image[i].isPrimary /\ image[j].isPrimary)

(* "Use transaction with MAX(order) to prevent ordering race condition"    *)
(* (vehicles.service.ts:247): no two images of a vehicle have one order.   *)
OrdersDiffer ==
    \A i, j \in Images :
        i # j /\ image[i] # None /\ image[j] # None /\ image[i].vehicle = image[j].vehicle
            => image[i].order # image[j].order

-----------------------------------------------------------------------------
(* Why the invariants hold.                                                *)

(* What an upload has stored is nobody else's until it is referred to.     *)
UploadsAreOwn ==
    \A r \in Requests : Uploads(call[r]) =>
        \A i \in call[r].files :
            /\ i \in objects /\ i \notin disturbed /\ image[i] = None /\ avatar # i
            /\ \A q \in Requests \ {r} : Uploads(call[q]) => i \notin call[q].files

(* What is being removed is known to be.                                   *)
RemovalsAreKnown == \A r \in Requests : ~Uploads(call[r]) => call[r].files \subseteq disturbed

(* A call is about a vehicle, except that of an avatar, which is one file; *)
(* an upload has files left.                                               *)
Filled(c) ==
    /\ c.pc \notin {"idle", "dropAvatar", "storeAvatar", "writeAvatar"} => c.vehicle \in Vehicles
    /\ c.pc = "writeStatus" => c.status \in VehicleStatus
    /\ c.pc = "upload" => c.left > 0
    /\ c.pc = "writeAvatar" => \E i \in Images : c.files = {i}

CallsAreFilled == \A r \in Requests : Filled(call[r])

(* The images that have, had or lost a row: no order reaches their number. *)
Settled == {i \in Images : image[i] # None \/ i \in disturbed}

OrdersAreBounded == \A i \in Images : image[i] # None => image[i].order < Cardinality(Settled)

(* What the upload c has read as the next order is above the orders there  *)
(* are, unless another upload came in between.                             *)
ReadIsFresh(c) ==
    /\ c.first <= Cardinality(Settled)
    /\ c.vehicle \notin disturbed =>
          \A i \in ImagesOf(c.vehicle) : image[i].order < c.first /\ ~c.fresh

ReadsAreFresh == \A r \in Requests : call[r].pc = "insertImages" => ReadIsFresh(call[r])

(* The inductive invariant.                                                *)
ListingInv ==
    /\ ListingTypeOK
    /\ CallsAreFilled
    /\ UploadsAreOwn
    /\ RemovalsAreKnown
    /\ FilesMatchRows
    /\ OrdersAreBounded
    /\ ReadsAreFresh
    /\ GalleryIsOrdered
    /\ NoDanglingRow
    /\ AuctionedIsKept
=============================================================================
