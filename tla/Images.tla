------------------------------- MODULE Images -------------------------------
(***************************************************************************)
(* Images of posts and blogs: an object in the S3 storage (external, used  *)
(* through src/src/infrastructure/adapters) and a row that names it, for   *)
(* each size or kind.  An upload writes the object, finds the row and      *)
(* saves it, for one size after the other.                                 *)
(***************************************************************************)
EXTENDS Integers, Sequences

CONSTANTS
    Owners,    \* posts and blogs that exist; while it has images, none can be deleted
    Sizes,     \* of an owner, in the order of their upload: three for a post; a blog has
               \* main and wallpaper, each uploaded alone
    Formats,   \* png, jpeg: part of the object's key
    MaxImage,  \* bound on the uploaded images
    MaxPhoto,  \* bound on the ids of PostPhotos and BlogPhotos
    Requests,  \* uploads in flight at once
    Faulty,    \* uploads whose statements or calls of the storage may fail
    None       \* no object; no row

ImagesConstants ==
    /\ MaxImage \in Nat \ {0} /\ MaxPhoto \in Nat \ {0}
    /\ Faulty \subseteq Requests
    /\ Sizes \in [Owners -> Seq(STRING)]
    /\ None \notin Owners \cup Formats \cup Int

VARIABLES
    objects,    \* the storage: which image each key holds
    photos,     \* rows of the photo tables, by id
    lastPhoto,  \* last id of the tables
    lastImage,  \* how many images were uploaded
    req         \* handler state of each upload

tables == <<objects, photos, lastPhoto, lastImage>>
vars == <<tables, req>>

SizeOf(o) == {Sizes[o][i] : i \in DOMAIN Sizes[o]}
SizeNames == UNION {SizeOf(o) : o \in Owners}
Image == 1..MaxImage
PhotoId == 1..MaxPhoto
\* The row names the object's key, and what the storage and the file said of the image.
PhotoRow == [owner: Owners, size: SizeNames, format: Formats, image: Image]
NoPhoto == [owner |-> None, size |-> None, format |-> None, image |-> None]

Request ==
    [pc: {"idle"}]
    \cup [pc: {"put", "findPhoto"}, owner: Owners, format: Formats, image: Image, step: 1..3]
    \cup [pc: {"savePhoto"}, owner: Owners, format: Formats, image: Image, step: 1..3,
          id: PhotoId \cup {None}]
Idle == [pc |-> "idle"]

TypeOK ==
    /\ objects \in [Owners \X SizeNames \X Formats -> Image \cup {None}]
    /\ photos \in [PhotoId -> PhotoRow \cup {NoPhoto}]
    /\ lastPhoto \in 0..MaxPhoto /\ lastImage \in 0..MaxImage
    /\ req \in [Requests -> Request]

Init ==
    /\ objects = [key \in Owners \X SizeNames \X Formats |-> None]
    /\ photos = [i \in PhotoId |-> NoPhoto]
    /\ lastPhoto = 0 /\ lastImage = 0
    /\ req = [r \in Requests |-> Idle]

At(r, pc) == req[r].pc = pc
Size(r) == Sizes[req[r].owner][req[r].step]
Goes(r, pc) == req' = [req EXCEPT ![r].pc = pc]

\* The image has been validated, and the owner found.
UploadImage(r, o, format) ==
    /\ At(r, "idle") /\ lastImage < MaxImage
    /\ lastImage' = lastImage + 1
    /\ req' = [req EXCEPT ![r] =
                [pc |-> "put", owner |-> o, format |-> format, image |-> lastImage', step |-> 1]]
    /\ UNCHANGED <<objects, photos, lastPhoto>>

PutObject(r) ==
    /\ At(r, "put")
    /\ objects' = [objects EXCEPT ![<<req[r].owner, Size(r), req[r].format>>] = req[r].image]
    /\ Goes(r, "findPhoto")
    /\ UNCHANGED <<photos, lastPhoto, lastImage>>

FindImageOfOwner(o, size) == {i \in PhotoId : photos[i].owner = o}  \* mutant: of any size
FindImage(o, size) == {i \in PhotoId : photos[i].owner = o /\ photos[i].size = size}

FindPhoto(r) ==
    LET found == FindImage(req[r].owner, Size(r)) IN
    /\ At(r, "findPhoto")
    /\ \E i \in IF found = {} THEN {None} ELSE found :
        req' = [req EXCEPT ![r] = [pc |-> "savePhoto", owner |-> req[r].owner, format |-> req[r].format,
                                   image |-> req[r].image, step |-> req[r].step, id |-> i]]
    /\ UNCHANGED tables

AfterSize(r) ==
    IF req[r].step = Len(Sizes[req[r].owner]) THEN Idle
    ELSE [pc |-> "put", owner |-> req[r].owner, format |-> req[r].format,
          image |-> req[r].image, step |-> req[r].step + 1]

SavePhoto(r) ==
    LET i == IF req[r].id = None THEN lastPhoto + 1 ELSE req[r].id IN
    /\ At(r, "savePhoto") /\ i <= MaxPhoto
    /\ photos' = [photos EXCEPT ![i] = [owner |-> req[r].owner, size |-> Size(r),
                                        format |-> req[r].format, image |-> req[r].image]]
    /\ lastPhoto' = IF i > lastPhoto THEN i ELSE lastPhoto
    /\ req' = [req EXCEPT ![r] = AfterSize(r)]
    /\ UNCHANGED <<objects, lastImage>>

\* The storage or a statement fails: the sizes already written stay.
Fail(r) ==
    /\ ~At(r, "idle") /\ r \in Faulty
    /\ req' = [req EXCEPT ![r] = Idle]
    /\ UNCHANGED tables

Begin(r) == \E o \in Owners, format \in Formats : UploadImage(r, o, format)
Proceed(r) == PutObject(r) \/ FindPhoto(r) \/ SavePhoto(r)

Next == \E r \in Requests : Begin(r) \/ Proceed(r) \/ Fail(r)

Spec == Init /\ [][Next]_vars

(***************************************************************************)
(* What the answer to an upload, and every view of the owner, shows.       *)
(***************************************************************************)
\* The object that the row's url names, with the measures in the row.
PhotoSizeView(i) ==
    [size |-> photos[i].size,
     url |-> objects[<<photos[i].owner, photos[i].size, photos[i].format>>],
     measures |-> photos[i].image]

PhotosOf(o) == {i \in PhotoId : photos[i].owner = o}

\* All rows of the post, whatever their size.
PostImageView(o) == [main |-> PhotosOf(o)]

\* The main images of a blog; of its wallpapers the last that is read.
BlogImageView(o) ==
    [main |-> {i \in PhotosOf(o) : photos[i].size = "main"},
     wallpaper |-> {i \in PhotosOf(o) : photos[i].size = "wallpaper"}]

Uploading(o) == {r \in Requests : req[r].pc # "idle" /\ req[r].owner = o}

\* One row for each size, which shows the image.
Shows(view, sizes, image) ==
    \A size \in sizes : \E i \in view :
        /\ {k \in view : photos[k].size = size} = {i}
        /\ PhotoSizeView(i) = [size |-> size, url |-> image, measures |-> image]

=============================================================================
