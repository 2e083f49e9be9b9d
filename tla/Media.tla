-------------------------------- MODULE Media --------------------------------
(***************************************************************************)
(* Attachments and the cover of a trip: files that the browser puts into   *)
(* object storage itself (internal/service/attachment.go, trip_cover.go,   *)
(* repository/attachment.go, trip_cover.go, storage/).                     *)
(*                                                                         *)
(* The database and the storage have no transaction in common. A request   *)
(* first checks the caller's capability, then takes its steps; what an     *)
(* attachment hangs off (a slot, an option, a ledger entry) is taken to be *)
(* there. A signed URL can be used for a while, and again; an attachment   *)
(* still pending an hour later is stale, and the sweep may reclaim it.     *)
(***************************************************************************)
EXTENDS Membership

CONSTANTS Attachments, Covers   \* identifiers of attachments and cover uploads, given out once


VARIABLES
    attachment,   \* attachments: [kind, status, deleted, stale, swept], or Nil
    upload,       \* trip_cover_uploads: [status, again], or Nil
    cover,        \* trips.cover_*: [source, key, overtaken]
    object,       \* object[k]: what storage holds under a key: "good", "bad" or Nil
    opSeq,        \* trips.op_seq, counting the operations on attachments
    replica       \* [seq, t]: a fold of the operations

mediaVars == <<attachment, upload, cover, object, opSeq, replica>>

Log == INSTANCE Ops

AttachmentRows ==
    [kind : {"link", "file"}, status : {"pending", "ready", "failed"}, deleted : BOOLEAN,
     stale : BOOLEAN, swept : BOOLEAN]

UploadRows == [status : {"pending", "ready", "failed"}, again : BOOLEAN]

CoverColumns ==
    [source : {"neutral", "suggested", "uploaded"}, key : Covers \cup {Nil},
     overtaken : SUBSET Goroutines]

(* A row of the fold: one it has seen is ready, under its own key.         *)
FoldedRows == [status : {"ready"}, storage_key : Attachments, deleted_at : {Nil, TRUE}]

(* What a request is about, by the step it takes next.                     *)
MediaCalls ==
    [op : {"media"}, pc : {"link", "reserve", "reserve_cover", "search", "apply"}, subject : {Nil}]

FileCalls == [op : {"media"}, pc : {"stat", "confirm", "reject", "remove"}, subject : Attachments]

CoverCalls ==
    [op : {"media"}, pc : {"stat_cover", "confirm_cover", "reject_cover"}, subject : Covers]

DiscardCalls == [op : {"media"}, pc : {"discard"}, subject : Attachments \cup Covers]

SweepCalls ==
    [op : {"media"}, pc : {"sweep"}, subject : Attachments \cup {Nil}, todo : SUBSET Attachments]

TombstoneCalls ==
    [op : {"media"}, pc : {"tombstone"}, subject : Attachments, todo : SUBSET Attachments]

ASSUME MediaAssumption ==
    /\ Attachments \cap Covers = {}
    /\ Nil \notin Attachments /\ Nil \notin Covers /\ Nil \notin {"good", "bad"} /\ Nil # TRUE
    /\ Nil \notin AttachmentRows \cup UploadRows \cup FoldedRows
    /\ Nil \notin MediaCalls \cup FileCalls \cup CoverCalls \cup DiscardCalls \cup SweepCalls
                     \cup TombstoneCalls

MediaInit ==
    /\ attachment = [a \in Attachments |-> Nil]
    /\ upload = [c \in Covers |-> Nil]
    /\ cover = [source |-> "neutral", key |-> Nil, overtaken |-> {}]
    /\ object = [k \in Attachments \cup Covers |-> Nil]
    /\ opSeq = 0
    /\ replica = [seq |-> 0, t |-> [attachments |-> [a \in Attachments |-> Nil]]]

(* GetByID                                                                 *)
Live(a) == attachment[a] # Nil /\ ~attachment[a].deleted

InsertAttachment(kind, status) ==
    [kind |-> kind, status |-> status, deleted |-> FALSE, stale |-> FALSE, swept |-> FALSE]

(* Confirm and MarkFailed: the status of a row that is pending and live.   *)
SetStatus(a, status) == [attachment EXCEPT ![a].status = status]

SoftDelete(a) == [attachment EXCEPT ![a].deleted = TRUE]

(* SetUploaded, SetSuggested and SetNeutral: the cover columns of a trip,  *)
(* whose version counts it. overtaken remembers the goroutines that found  *)
(* no upload in place and are about to assign a cover of their own.        *)
SetCover(source, key, overtaken) ==
    /\ cover' = [source |-> source, key |-> key, overtaken |-> overtaken]
    /\ trip' = [trip EXCEPT !.version = @ + 1]

(* oplog.write: the trip is locked, and there to be locked.                *)
TripLocked == trip # Nil /\ ~trip.deleted

(* recorder.attachment on the row as persisted, and a client's fold of it. *)
Record(kind, a, row, mask) ==
    LET op == [kind |-> kind, entity |-> a, seq |-> opSeq + 1, actor |-> Nil, version |-> 0,
               fields |-> Log!BuildPayload(row, mask)]
    IN /\ opSeq' = opSeq + 1
       /\ replica' = Log!Apply(replica, op)

Row(a, status, deleted) == [status |-> status, storage_key |-> a, deleted_at |-> deleted]

Announce(a) == Record("attachment_add", a, Row(a, "ready", Nil), {"status", "storage_key"})

Retract(a) == Record("attachment_remove", a, Row(a, attachment[a].status, TRUE), {"deleted_at"})

(* A request passes authz.require; what it is about comes with it.         *)
Enter(g, u, cap, pc, subject) ==
    /\ Idle(g)
    /\ Require(u, cap)
    /\ call' = [call EXCEPT ![g] = [op |-> "media", pc |-> pc, subject |-> subject]]
    /\ UNCHANGED <<account, session, refreshToken, userToken, rosterVars, mediaVars>>

-----------------------------------------------------------------------------
(* Attachments                                                             *)

CreateLink(g, a) ==
    /\ At(g, "link")
    /\ a \in Free(attachment)
    /\ IF TripLocked
       THEN /\ attachment' = [attachment EXCEPT ![a] = InsertAttachment("link", "ready")]
            /\ Announce(a)
       ELSE UNCHANGED <<attachment, opSeq, replica>>
    /\ Done(g)
    /\ UNCHANGED <<account, session, refreshToken, userToken, rosterVars, upload, cover, object>>

(* The row first, then the signed URL: without one the browser puts        *)
(* nothing.                                                                *)
RequestUpload(g, a) ==
    /\ At(g, "reserve")
    /\ a \in Free(attachment)
    /\ attachment' = [attachment EXCEPT ![a] = InsertAttachment("file", "pending")]
    /\ Done(g)
    /\ UNCHANGED <<account, session, refreshToken, userToken, rosterVars, upload, cover, object,
                   opSeq, replica>>

(* ConfirmUpload up to Stat: a link, a ready or deleted attachment and a   *)
(* missing object end it; what Stat finds decides how it goes on.          *)
StatUpload(g) ==
    LET a == call[g].subject
    IN /\ At(g, "stat")
       /\ IF /\ Live(a) /\ attachment[a].kind = "file" /\ attachment[a].status # "ready"
             /\ object[a] # Nil
          THEN Goto(g, IF object[a] = "good" THEN "confirm" ELSE "reject")
          ELSE Done(g)
       /\ UNCHANGED <<account, session, refreshToken, userToken, rosterVars, mediaVars>>

(* Mutant: the row is confirmed whatever became of it.                     *)
ConfirmUnguarded(g) ==
    LET a == call[g].subject
    IN /\ At(g, "confirm")
       /\ TripLocked
       /\ attachment' = SetStatus(a, "ready")
       /\ Announce(a)
       /\ Done(g)
       /\ UNCHANGED <<account, session, refreshToken, userToken, rosterVars, upload, cover, object>>

(* The transaction: only a pending, live row becomes ready and is told.    *)
ConfirmUpload(g) ==
    LET a == call[g].subject
    IN /\ At(g, "confirm")
       /\ IF TripLocked /\ Live(a) /\ attachment[a].status = "pending"
          THEN /\ attachment' = SetStatus(a, "ready")
               /\ Announce(a)
          ELSE UNCHANGED <<attachment, opSeq, replica>>
       /\ Done(g)
       /\ UNCHANGED <<account, session, refreshToken, userToken, rosterVars, upload, cover, object>>

(* Mutant: the object goes whether or not the row could be marked.         *)
RejectBlindly(g) ==
    LET a == call[g].subject
    IN /\ At(g, "reject")
       /\ attachment' = IF Live(a) /\ attachment[a].status = "pending"
                        THEN SetStatus(a, "failed") ELSE attachment
       /\ Goto(g, "discard")
       /\ UNCHANGED <<account, session, refreshToken, userToken, rosterVars, upload, cover, object,
                      opSeq, replica>>

(* rejectUpload: the object is discarded only if the row could be marked.  *)
RejectUpload(g) ==
    LET a == call[g].subject
    IN /\ At(g, "reject")
       /\ IF Live(a) /\ attachment[a].status = "pending"
          THEN attachment' = SetStatus(a, "failed") /\ Goto(g, "discard")
          ELSE UNCHANGED attachment /\ Done(g)
       /\ UNCHANGED <<account, session, refreshToken, userToken, rosterVars, upload, cover, object,
                      opSeq, replica>>

(* Delete: the object stays; an attachment that is not pending is taken    *)
(* for one that was announced.                                             *)
DeleteAttachment(g) ==
    LET a == call[g].subject
    IN /\ At(g, "remove")
       /\ IF TripLocked /\ Live(a)
          THEN /\ attachment' = SoftDelete(a)
               /\ IF attachment[a].status = "pending" THEN UNCHANGED <<opSeq, replica>> ELSE Retract(a)
          ELSE UNCHANGED <<attachment, opSeq, replica>>
       /\ Done(g)
       /\ UNCHANGED <<account, session, refreshToken, userToken, rosterVars, upload, cover, object>>

-----------------------------------------------------------------------------
(* The sweep of abandoned uploads                                          *)

Stale == {a \in Attachments : Live(a) /\ attachment[a].status = "pending" /\ attachment[a].stale}

ListStalePending(g) ==
    /\ Idle(g)
    /\ Stale # {}
    /\ call' = [call EXCEPT ![g] = [op |-> "media", pc |-> "sweep", subject |-> Nil, todo |-> Stale]]
    /\ UNCHANGED <<account, session, refreshToken, userToken, rosterVars, mediaVars>>

(* One object after the other; one that cannot be deleted keeps its row.   *)
SweepObject(g) ==
    /\ At(g, "sweep")
    /\ IF call[g].todo = {}
       THEN Done(g) /\ UNCHANGED <<object, attachment>>
       ELSE \E a \in call[g].todo :
              \/ /\ object' = [object EXCEPT ![a] = Nil]
                 /\ attachment' = [attachment EXCEPT ![a].swept = TRUE]
                 /\ call' = [call EXCEPT ![g].pc = "tombstone", ![g].subject = a, ![g].todo = @ \ {a}]
              \/ /\ call' = [call EXCEPT ![g].todo = @ \ {a}]
                 /\ UNCHANGED <<object, attachment>>
    /\ UNCHANGED <<account, session, refreshToken, userToken, rosterVars, upload, cover, opSeq, replica>>

(* The row is deleted whatever its status; one already deleted ends the    *)
(* sweep with an error.                                                    *)
SweepRow(g) ==
    LET a == call[g].subject
    IN /\ At(g, "tombstone")
       /\ IF Live(a)
          THEN attachment' = SoftDelete(a) /\ Goto(g, "sweep")
          ELSE UNCHANGED attachment /\ Done(g)
       /\ UNCHANGED <<account, session, refreshToken, userToken, rosterVars, upload, cover, object,
                      opSeq, replica>>

-----------------------------------------------------------------------------
(* The cover                                                               *)

RequestCoverUpload(g, c) ==
    /\ At(g, "reserve_cover")
    /\ c \in Free(upload)
    /\ upload' = [upload EXCEPT ![c] = [status |-> "pending", again |-> FALSE]]
    /\ Done(g)
    /\ UNCHANGED <<account, session, refreshToken, userToken, rosterVars, attachment, cover, object,
                   opSeq, replica>>

StatCover(g) ==
    LET c == call[g].subject
    IN /\ At(g, "stat_cover")
       /\ IF upload[c] # Nil /\ upload[c].status # "ready" /\ object[c] # Nil
          THEN Goto(g, IF object[c] = "good" THEN "confirm_cover" ELSE "reject_cover")
          ELSE Done(g)
       /\ UNCHANGED <<account, session, refreshToken, userToken, rosterVars, mediaVars>>

(* MarkUploadFailed's answer is ignored: the object is discarded anyway.   *)
RejectCover(g) ==
    LET c == call[g].subject
    IN /\ At(g, "reject_cover")
       /\ upload' = IF upload[c].status = "pending" THEN [upload EXCEPT ![c].status = "failed"] ELSE upload
       /\ Goto(g, "discard")
       /\ UNCHANGED <<account, session, refreshToken, userToken, rosterVars, attachment, cover, object,
                      opSeq, replica>>

(* The goroutines of AutoAssign or ApplySuggestion before their apply.     *)
Assigning == {g \in Goroutines : At(g, "apply")}

(* The transaction: the upload becomes the cover, and the object of the    *)
(* one it replaces is discarded afterwards.                                *)
ConfirmCover(g) ==
    LET c == call[g].subject
    IN /\ At(g, "confirm_cover")
       /\ IF TripLocked /\ upload[c].status = "pending"
          THEN /\ upload' = [upload EXCEPT ![c].status = "ready"]
               /\ SetCover("uploaded", c, Assigning)
               /\ IF cover.source = "uploaded"
                  THEN call' = [call EXCEPT ![g].pc = "discard", ![g].subject = cover.key]
                  ELSE Done(g)
          ELSE Done(g) /\ UNCHANGED <<upload, cover, trip>>
       /\ UNCHANGED <<account, session, refreshToken, userToken, member, invite, joined,
                      attachment, object, opSeq, replica>>

(* storage.Delete, of a refused object or of the replaced cover: a failure *)
(* is logged.                                                              *)
Discard(g) ==
    /\ At(g, "discard")
    /\ object' \in {object, [object EXCEPT ![call[g].subject] = Nil]}
    /\ Done(g)
    /\ UNCHANGED <<account, session, refreshToken, userToken, rosterVars, attachment, upload, cover,
                   opSeq, replica>>

(* What the trip handler goes on with: AutoAssign, or ApplySuggestion.     *)
ChooseCover(g) ==
    \E pc \in {"search", "apply"} :
        call' = [call EXCEPT ![g] = [op |-> "media", pc |-> pc, subject |-> Nil]]

(* Mutant: an uploaded cover is not asked for.                             *)
AutoAssignAlways(g) ==
    /\ At(g, "search")
    /\ TripLocked
    /\ Goto(g, "apply")
    /\ UNCHANGED <<account, session, refreshToken, userToken, rosterVars, mediaVars>>

(* AutoAssign: the cover is read before the photos are searched, which may *)
(* fail.                                                                   *)
AutoAssign(g) ==
    /\ At(g, "search")
    /\ \/ TripLocked /\ cover.source # "uploaded" /\ Goto(g, "apply")
       \/ Done(g)
    /\ UNCHANGED <<account, session, refreshToken, userToken, rosterVars, mediaVars>>

(* The handler of a new trip: the trip and its owner's membership are one  *)
(* transaction; a cover is then searched, or the one suggested applied.    *)
TripCreate(g, u) ==
    /\ Idle(g)
    /\ trip = Nil
    /\ trip' = InsertTrip
    /\ member' = [member EXCEPT ![u] = InsertMember("owner")]
    /\ ChooseCover(g)
    /\ UNCHANGED <<account, session, refreshToken, userToken, invite, joined, mediaVars>>

(* The handler of an edit: under a new name, or with a suggestion, a cover *)
(* that no member uploaded is chosen again.                                *)
TripUpdate(g, u) ==
    /\ Idle(g)
    /\ TripLocked
    /\ Require(u, "edit_trip")
    /\ trip' = [trip EXCEPT !.version = @ + 1]
    /\ UNCHANGED call \/ (cover.source # "uploaded" /\ ChooseCover(g))
    /\ UNCHANGED <<account, session, refreshToken, userToken, member, invite, joined, mediaVars>>

(* apply: a photo was found, or none; the cover is not read again.         *)
ApplyCover(g) ==
    /\ At(g, "apply")
    /\ IF TripLocked
       THEN \E source \in {"suggested", "neutral"} : SetCover(source, Nil, {})
       ELSE UNCHANGED <<cover, trip>>
    /\ Done(g)
    /\ UNCHANGED <<account, session, refreshToken, userToken, member, invite, joined,
                   attachment, upload, object, opSeq, replica>>

-----------------------------------------------------------------------------
(* Browsers and time                                                       *)

Open(k) ==
    IF k \in Attachments
    THEN attachment[k] # Nil /\ attachment[k].kind = "file" /\ ~attachment[k].stale
    ELSE upload[k] # Nil

(* A browser puts an object under a key, a good one or one that is too     *)
(* large or of another type; it may do so again.                           *)
PutObject(k, quality) ==
    /\ Open(k)
    /\ object[k] # quality
    /\ object' = [object EXCEPT ![k] = quality]
    /\ upload' = IF k \in Covers /\ object[k] # Nil THEN [upload EXCEPT ![k].again = TRUE] ELSE upload
    /\ UNCHANGED <<accountVars, rosterVars, attachment, cover, opSeq, replica>>

(* The URL expires; an hour after its request an upload is abandoned.      *)
GrowOld(a) ==
    /\ Open(a)
    /\ attachment' = [attachment EXCEPT ![a].stale = TRUE]
    /\ UNCHANGED <<accountVars, rosterVars, upload, cover, object, opSeq, replica>>

MediaRequest ==
    \/ \E g \in Goroutines, u \in People :
          \/ \E pc \in {"link", "reserve"} : Enter(g, u, "upload_attachments", pc, Nil)
          \/ \E a \in Attachments, pc \in {"stat", "remove"} :
                attachment[a] # Nil /\ Enter(g, u, "upload_attachments", pc, a)
          \/ Enter(g, u, "edit_trip", "reserve_cover", Nil)
          \/ TripUpdate(g, u)
          \/ \E c \in Covers : upload[c] # Nil /\ Enter(g, u, "edit_trip", "stat_cover", c)
    \/ \E g \in Goroutines : ListStalePending(g)

MediaStep(g) ==
    \/ \E a \in Attachments : CreateLink(g, a) \/ RequestUpload(g, a)
    \/ StatUpload(g) \/ ConfirmUpload(g) \/ RejectUpload(g) \/ DeleteAttachment(g)
    \/ SweepObject(g) \/ SweepRow(g)
    \/ \E c \in Covers : RequestCoverUpload(g, c)
    \/ StatCover(g) \/ RejectCover(g) \/ ConfirmCover(g) \/ Discard(g)
    \/ AutoAssign(g) \/ ApplyCover(g)

MediaTime ==
    \/ \E a \in Attachments : GrowOld(a)
    \/ \E k \in Attachments \cup Covers, quality \in {"good", "bad"} : PutObject(k, quality)

-----------------------------------------------------------------------------
MediaTypeOK ==
    /\ attachment \in [Attachments -> AttachmentRows \cup {Nil}]
    /\ upload \in [Covers -> UploadRows \cup {Nil}]
    /\ cover \in CoverColumns
    /\ object \in [Attachments \cup Covers -> {"good", "bad", Nil}]
    /\ opSeq \in Nat
    /\ replica \in [seq : Nat, t : [attachments : [Attachments -> FoldedRows \cup {Nil}]]]

(***************************************************************************)
(* What members see is in storage (service/attachment.go, ConfirmUpload;   *)
(* trip_cover.go, ConfirmUpload): a ready file and an uploaded cover have  *)
(* their object. A file the sweep had already listed may lose it, and a    *)
(* cover whose browser put a second object may, because the cover service  *)
(* discards an object it refuses without asking whether it was confirmed.  *)
(***************************************************************************)
ObjectsKept ==
    /\ \A a \in Attachments :
          (Live(a) /\ attachment[a].kind = "file" /\ attachment[a].status = "ready")
              => object[a] # Nil \/ attachment[a].swept
    /\ (cover.source = "uploaded") => object[cover.key] # Nil \/ upload[cover.key].again

(***************************************************************************)
(* A client that folds the log shows the attachments the database has      *)
(* (service/attachment.go): none that was not confirmed, none that was     *)
(* deleted, unless a sweep overtook its confirmation; as long as the fold  *)
(* was not stopped by an operation it had to refuse.                       *)
(***************************************************************************)
AnnouncementsMatch ==
    LET shown(a) == replica.t.attachments[a] # Nil /\ replica.t.attachments[a].deleted_at = Nil
    IN replica.seq = opSeq =>
         \A a \in Attachments :
             \/ shown(a) <=> Live(a) /\ attachment[a].status = "ready"
             \/ attachment[a] # Nil /\ attachment[a].swept

(***************************************************************************)
(* AutoAssign replaces no upload it could have seen (trip_cover.go): when  *)
(* an uploaded cover gives way to a suggestion, the request had read the   *)
(* cover before the upload was confirmed.                                  *)
(***************************************************************************)
UploadReplacedOnlyByRace ==
    [][(cover.source = "uploaded" /\ cover'.source # "uploaded")
          => \E g \in cover.overtaken : At(g, "apply") /\ call'[g] = Nil]_cover

(***************************************************************************)
(* Every operation on an attachment can be folded: its log never removes   *)
(* what no client has seen (service/attachment.go, the comment in Delete). *)
(***************************************************************************)
RemovalsKnown == replica.seq = opSeq
=============================================================================
