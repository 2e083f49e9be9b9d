----------------------------- MODULE Itinerary -----------------------------
(***************************************************************************)
(* The itinerary and ledger services of one trip: days, slots, options,    *)
(* votes, comments and budget entries (internal/service), written through  *)
(* the HTTP handlers and through socket intents, beside a replica that     *)
(* knows the trip only from its operations.                                *)
(*                                                                         *)
(* One action is one service call: the transaction that oplog.write runs   *)
(* under the trip's lock (OpLog shows that those are serial), from the row *)
(* it reads to the operations it records. A call that is refused changes   *)
(* nothing and is not an action. Who may call is Membership's subject;     *)
(* here every user may write. A new position is any key: Positions says    *)
(* which.                                                                  *)
(***************************************************************************)
EXTENDS Tables

CONSTANTS
    SeedTables,   \* the tables the run starts from
    Statuses,     \* the statuses a member sets
    MaxSeq,       \* bound: operations committed in a run
    MaxTables,    \* bound: tables a run changes
    MaxBehind     \* bound: operations the replica lags behind when the trip is written

VARIABLES
    db,        \* the tables
    opSeq,     \* trips.op_seq
    feed,      \* the operations the replica has not folded yet, in order
    replica,   \* [seq, t]: the fold
    seen       \* seen[u][e]: budget entry e as member u last read it

vars == <<db, opSeq, feed, replica, seen>>

OrNil(S) == S \cup {Nil}
ExpectedVersions == OrNil(1..(MaxSeq + 1))   \* what a request states, or nothing

SplitSets == UNION {[S -> Amounts] : S \in SUBSET Users}

(***************************************************************************)
(* The rows each table may hold.                                           *)
(***************************************************************************)
Versions == Nat \ {0}
Tombstone == {Nil, "set"}

DayRows == [date : OrNil(Dates), position : Keys, version : Versions, deleted_at : Tombstone]

SlotRows ==
    [day_id : OrNil(Days), start_time : OrNil(Times), end_time : OrNil(Times), position : Keys,
     selected_option_id : OrNil(Options), status : Statuses \cup {"planned"},
     status_changed_by : OrNil(Users), version : Versions, deleted_at : Tombstone]

OptionRows ==
    [slot_id : Slots, place_lat : OrNil(Coordinates), place_lng : OrNil(Coordinates),
     version : Versions, deleted_at : Tombstone]

VoteRows == [slot_id : Slots, user_id : Users, option_id : OrNil(Options), version : Versions]

BudgetRows ==
    [amount_minor : Amounts, splits : SplitSets, version : Versions, deleted_at : Tombstone]

CommentRows == [slot_id : Slots, author_id : Users, deleted_at : Tombstone]

AllTables ==
    [days     : [Days -> OrNil(DayRows)],
     slots    : [Slots -> OrNil(SlotRows)],
     options  : [Options -> OrNil(OptionRows)],
     votes    : [Slots \X Users -> OrNil(VoteRows)],
     budgets  : [Entries -> OrNil(BudgetRows)],
     comments : [Comments -> OrNil(CommentRows)]]

(* Slot.Validate, and the constraint slots_times.                          *)
TimesValid(row) ==
    (row.start_time # Nil /\ row.end_time # Nil) => row.start_time <= row.end_time

(* What the constraints and triggers of migrations/ keep true of a row.    *)
TimesHold(t) == \A s \in Slots : t.slots[s] # Nil => TimesValid(t.slots[s])

SplitsHold(t) == \A e \in Entries : t.budgets[e] # Nil => SplitSumChecked(t.budgets[e])

SelectionsHold(t) ==
    \A s \in Slots : t.slots[s] # Nil => OptionOfSlot(t, t.slots[s].selected_option_id, s)

(***************************************************************************)
(* NULL is no row and no identifier, and the seed is one the database      *)
(* accepts.                                                                *)
(***************************************************************************)
ASSUME ItineraryAssumption ==
    /\ MaxSeq \in Nat
    /\ Nil \notin DayRows \cup SlotRows \cup OptionRows \cup VoteRows \cup BudgetRows \cup CommentRows
    /\ Nil \notin Options
    /\ SeedTables \in AllTables
    /\ TimesHold(SeedTables) /\ SplitsHold(SeedTables) /\ SelectionsHold(SeedTables)

(***************************************************************************)
(* A trip whose operations so far have all been folded.                    *)
(***************************************************************************)
Init ==
    /\ db = SeedTables
    /\ opSeq = 0
    /\ feed = <<>>
    /\ replica = [seq |-> 0, t |-> SeedTables]
    /\ seen = [u \in Users |-> [e \in Entries |-> Nil]]

(***************************************************************************)
(* recorder.slot, option, day, ...: an operation on a row as persisted.    *)
(***************************************************************************)
Record(u, kind, id, row, fields) ==
    [kind |-> kind, entity |-> id, actor |-> u,
     fields |-> BuildPayload(row, MaskFor(kind, fields)),
     version |-> PayloadVersion(row)]

Numbered(op, seq) ==
    [seq |-> seq, kind |-> op.kind, entity |-> op.entity, actor |-> op.actor,
     fields |-> op.fields, version |-> op.version]

(***************************************************************************)
(* oplog.write: the mutated tables and the recorded operations commit      *)
(* together; a mask its kind does not allow rolls everything back.         *)
(***************************************************************************)
Write(t, ops) ==
    /\ \A i \in DOMAIN ops : MaskValid(ops[i].kind, DOMAIN ops[i].fields)
    /\ opSeq + Len(ops) <= MaxSeq
    /\ Cardinality({n \in DOMAIN t : t[n] # SeedTables[n]}) <= MaxTables
    /\ db' = t
    /\ opSeq' = opSeq + Len(ops)
    /\ feed' = feed \o [i \in DOMAIN ops |-> Numbered(ops[i], opSeq + i)]
    /\ UNCHANGED replica

Unseen == UNCHANGED seen

-----------------------------------------------------------------------------
(* Days                                                                    *)

DayCreateRequests == [date : OrNil(Dates)]

(* An empty field list replaces every field.                               *)
DayUpdateRequests ==
    [fields : SUBSET AllowedFields.day_edit, date : OrNil(Dates), version : ExpectedVersions]

DayEditIntents == {r \in DayUpdateRequests : MaskValid("day_edit", r.fields)}

DayMoveRequests == [key : Keys, version : ExpectedVersions]

DayDeleteRequests == [version : ExpectedVersions]

DayCreate(u, d, in, key) ==
    LET row == CreateDay(in.date, key)
    IN /\ db.days[d] = Nil
       /\ DatesUnique(PutDay(db, d, row))
       /\ Write(PutDay(db, d, row), <<Record(u, "day_create", d, row, {})>>)
       /\ Unseen

DayUpdate(u, d, in) ==
    LET old  == db.days[d]
        mask == MaskFor("day_edit", in.fields)
        date == IF "date" \in mask THEN in.date ELSE old.date
        row  == UpdateDay(old, date, old.position)
    IN /\ DayLive(db, d)
       /\ Matches(old, VersionOrCurrent(in.version, old))
       /\ DatesUnique(PutDay(db, d, row))
       /\ Write(PutDay(db, d, row), <<Record(u, "day_edit", d, row, mask)>>)
       /\ Unseen

DayMove(u, d, in) ==
    LET old == db.days[d]
        row == UpdateDay(old, old.date, in.key)
    IN /\ DayLive(db, d)
       /\ Matches(old, VersionOrCurrent(in.version, old))
       /\ Write(PutDay(db, d, row), <<Record(u, "day_move", d, row, {"position"})>>)
       /\ Unseen

(* The slots of a deleted day keep naming it.                              *)
DayDelete(u, d, in) ==
    LET old == db.days[d]
        row == SoftDeleteDay(old)
    IN /\ DayLive(db, d)
       /\ Matches(old, VersionOrCurrent(in.version, old))
       /\ Write(PutDay(db, d, row), <<Record(u, "day_delete", d, row, {"deleted_at"})>>)
       /\ Unseen

DayStep(u, d) ==
    \/ \E in \in DayCreateRequests, key \in Keys : DayCreate(u, d, in, key)
    \/ \E in \in DayUpdateRequests \cup DayEditIntents : DayUpdate(u, d, in)
    \/ \E in \in DayMoveRequests : DayMove(u, d, in)
    \/ \E in \in DayDeleteRequests : DayDelete(u, d, in)

-----------------------------------------------------------------------------
(* Slots                                                                   *)

SlotCreateRequests == [day_id : OrNil(Days), start : OrNil(Times), end : OrNil(Times)]

SlotUpdateRequests ==
    [fields : SUBSET AllowedFields.slot_edit, start : OrNil(Times), end : OrNil(Times),
     version : ExpectedVersions]

(* A value outside the mask is not read, so the intent leaves it out.      *)
SlotEditIntents ==
    {r \in SlotUpdateRequests :
        /\ MaskValid("slot_edit", r.fields)
        /\ "start_time" \notin r.fields => r.start = Nil
        /\ "end_time" \notin r.fields => r.end = Nil}

SlotMoveRequests == [day_id : OrNil(Days), key : Keys, version : ExpectedVersions]

SelectOptionRequests == [option_id : OrNil(Options), version : ExpectedVersions]

SetStatusRequests == [status : Statuses, version : ExpectedVersions]

SlotDeleteRequests == [version : ExpectedVersions]

SlotCreate(u, s, in, key) ==
    LET row == CreateSlot(in.day_id, in.start, in.end, key)
    IN /\ db.slots[s] = Nil
       /\ TimesValid(row)
       /\ DayReferenced(db, in.day_id)
       /\ Write(PutSlot(db, s, row), <<Record(u, "slot_create", s, row, {})>>)
       /\ Unseen

(* Mutant: the request is validated, not the slot it is merged into.       *)
SlotUpdateUnmerged(u, s, in) ==
    LET old  == db.slots[s]
        mask == MaskFor("slot_edit", in.fields)
        row  == UpdateSlot(old, IF "start_time" \in mask THEN in.start ELSE old.start_time,
                                IF "end_time" \in mask THEN in.end ELSE old.end_time)
    IN /\ SlotLive(db, s)
       /\ TimesValid([start_time |-> in.start, end_time |-> in.end])
       /\ Matches(old, VersionOrCurrent(in.version, old))
       /\ Write(PutSlot(db, s, row), <<Record(u, "slot_edit", s, row, mask)>>)
       /\ Unseen

(* The fields outside the mask are taken from the row just read; the       *)
(* merged slot is validated, not the request.                              *)
SlotUpdate(u, s, in) ==
    LET old  == db.slots[s]
        mask == MaskFor("slot_edit", in.fields)
        row  == UpdateSlot(old, IF "start_time" \in mask THEN in.start ELSE old.start_time,
                                IF "end_time" \in mask THEN in.end ELSE old.end_time)
    IN /\ SlotLive(db, s)
       /\ TimesValid(row)
       /\ Matches(old, VersionOrCurrent(in.version, old))
       /\ Write(PutSlot(db, s, row), <<Record(u, "slot_edit", s, row, mask)>>)
       /\ Unseen

(* Mutant: the move is recorded without its day.                           *)
SlotMoveForgetsDay(u, s, in) ==
    LET old == db.slots[s]
        row == MoveSlot(old, in.day_id, in.key)
    IN /\ SlotLive(db, s)
       /\ Matches(old, VersionOrCurrent(in.version, old))
       /\ DayReferenced(db, in.day_id)
       /\ Write(PutSlot(db, s, row), <<Record(u, "slot_move", s, row, {"position"})>>)
       /\ Unseen

SlotMove(u, s, in) ==
    LET old == db.slots[s]
        row == MoveSlot(old, in.day_id, in.key)
    IN /\ SlotLive(db, s)
       /\ Matches(old, VersionOrCurrent(in.version, old))
       /\ DayReferenced(db, in.day_id)
       /\ Write(PutSlot(db, s, row), <<Record(u, "slot_move", s, row, {"day_id", "position"})>>)
       /\ Unseen

(* Nothing asks whether the option still lives.                            *)
SetSelectedOption(u, s, in) ==
    LET old == db.slots[s]
        row == SetSlotSelectedOption(old, in.option_id)
    IN /\ SlotLive(db, s)
       /\ Matches(old, VersionOrCurrent(in.version, old))
       /\ OptionOfSlot(db, in.option_id, s)
       /\ Write(PutSlot(db, s, row),
                <<Record(u, "slot_select_option", s, row, {"selected_option_id"})>>)
       /\ Unseen

SetStatus(u, s, in) ==
    LET old == db.slots[s]
        row == SetSlotStatus(old, in.status, u)
    IN /\ SlotLive(db, s)
       /\ Matches(old, VersionOrCurrent(in.version, old))
       /\ Write(PutSlot(db, s, row),
                <<Record(u, "slot_set_status", s, row, {"status", "status_changed_by"})>>)
       /\ Unseen

(* Only the slot is tombstoned: its options and votes stay.                *)
SlotDelete(u, s, in) ==
    LET old == db.slots[s]
        row == SoftDeleteSlot(old)
    IN /\ SlotLive(db, s)
       /\ Matches(old, VersionOrCurrent(in.version, old))
       /\ Write(PutSlot(db, s, row), <<Record(u, "slot_delete", s, row, {"deleted_at"})>>)
       /\ Unseen

SlotStep(u, s) ==
    \/ \E in \in SlotCreateRequests, key \in Keys : SlotCreate(u, s, in, key)
    \/ \E in \in SlotUpdateRequests \cup SlotEditIntents : SlotUpdate(u, s, in)
    \/ \E in \in SlotMoveRequests : SlotMove(u, s, in)
    \/ \E in \in SelectOptionRequests : SetSelectedOption(u, s, in)
    \/ \E in \in SetStatusRequests : SetStatus(u, s, in)
    \/ \E in \in SlotDeleteRequests : SlotDelete(u, s, in)

-----------------------------------------------------------------------------
(* Options and votes                                                       *)

OptionCreateRequests == [lat : OrNil(Coordinates), lng : OrNil(Coordinates)]

OptionUpdateRequests ==
    [fields : SUBSET AllowedFields.option_edit,
     lat : OrNil(Coordinates), lng : OrNil(Coordinates), version : ExpectedVersions]

OptionEditIntents ==
    {r \in OptionUpdateRequests :
        /\ MaskValid("option_edit", r.fields)
        /\ "place_lat" \notin r.fields => r.lat = Nil
        /\ "place_lng" \notin r.fields => r.lng = Nil}

OptionDeleteRequests == [version : ExpectedVersions]

(* SlotOption.Validate, and slot_options_latlng: both or neither.          *)
PlaceValid(row) == (row.place_lat = Nil) <=> (row.place_lng = Nil)

OptionCreate(u, o, s, in) ==
    LET row == CreateSlotOption(s, in.lat, in.lng)
    IN /\ db.options[o] = Nil
       /\ SlotLive(db, s)
       /\ PlaceValid(row)
       /\ Write(PutOption(db, o, row), <<Record(u, "option_create", o, row, {})>>)
       /\ Unseen

(* The slot of the option is not looked at.                                *)
OptionUpdate(u, o, in) ==
    LET old  == db.options[o]
        mask == MaskFor("option_edit", in.fields)
        row  == UpdateSlotOption(old, IF "place_lat" \in mask THEN in.lat ELSE old.place_lat,
                                      IF "place_lng" \in mask THEN in.lng ELSE old.place_lng)
    IN /\ OptionLive(db, o)
       /\ PlaceValid(row)
       /\ Matches(old, VersionOrCurrent(in.version, old))
       /\ Write(PutOption(db, o, row), <<Record(u, "option_edit", o, row, mask)>>)
       /\ Unseen

(* Mutant: the selection of the deleted option stays.                      *)
OptionDeleteAlone(u, o, in) ==
    LET old == db.options[o]
        row == SoftDeleteSlotOption(old)
    IN /\ OptionLive(db, o)
       /\ Matches(old, VersionOrCurrent(in.version, old))
       /\ Write(PutOption(db, o, row), <<Record(u, "option_delete", o, row, {"deleted_at"})>>)
       /\ Unseen

(* The tombstone and, when the slot had selected the option, a second      *)
(* operation that clears the selection. The slot is read first, so the     *)
(* options of a deleted slot cannot be deleted.                            *)
OptionDelete(u, o, in) ==
    LET old     == db.options[o]
        row     == SoftDeleteSlotOption(old)
        s       == old.slot_id
        cleared == SetSlotSelectedOption(db.slots[s], Nil)
        deleted == Record(u, "option_delete", o, row, {"deleted_at"})
        cleanup == Record(u, "slot_select_option", s, cleared, {"selected_option_id"})
    IN /\ OptionLive(db, o)
       /\ Matches(old, VersionOrCurrent(in.version, old))
       /\ SlotLive(db, s)
       /\ IF db.slots[s].selected_option_id = o
          THEN Write(PutSlot(PutOption(db, o, row), s, cleared), <<deleted, cleanup>>)
          ELSE Write(PutOption(db, o, row), <<deleted>>)
       /\ Unseen

OptionStep(u, o) ==
    \/ \E s \in Slots, in \in OptionCreateRequests : OptionCreate(u, o, s, in)
    \/ \E in \in OptionUpdateRequests \cup OptionEditIntents : OptionUpdate(u, o, in)
    \/ \E in \in OptionDeleteRequests : OptionDelete(u, o, in)

VoteRequests == OrNil(Options)

(* A last-writer-wins register: no version is asked for, and a vote may    *)
(* name a tombstoned option of the slot.                                   *)
VoteCast(u, s, o) ==
    LET row == CastVote(db.votes[<<s, u>>], s, u, o)
    IN /\ SlotLive(db, s)
       /\ OptionOfSlot(db, o, s)
       /\ Write(PutVote(db, <<s, u>>, row), <<Record(u, "vote_set", <<s, u>>, row, {})>>)
       /\ Unseen

-----------------------------------------------------------------------------
(* Comments                                                                *)

CommentCreate(u, c, s) ==
    LET row == CreateComment(s, u)
    IN /\ db.comments[c] = Nil
       /\ SlotLive(db, s)
       /\ Write(PutComment(db, c, row), <<Record(u, "comment_create", c, row, {})>>)
       /\ Unseen

(* Only its author may delete a comment, also once the slot is gone.       *)
CommentDelete(u, c) ==
    LET row == SoftDeleteComment(db.comments[c])
    IN /\ CommentLive(db, c)
       /\ db.comments[c].author_id = u
       /\ Write(PutComment(db, c, row), <<Record(u, "comment_delete", c, row, {"deleted_at"})>>)
       /\ Unseen

CommentStep(u, c) ==
    \/ \E s \in Slots : CommentCreate(u, c, s)
    \/ CommentDelete(u, c)

-----------------------------------------------------------------------------
(* Budget                                                                  *)

BudgetRequests == [amount : Amounts, splits : SplitSets]

(* BudgetEntry.Validate and BudgetService.validate: no splits, or splits   *)
(* between members that sum to the amount.                                 *)
EntryValid(in) ==
    /\ in.amount >= 0
    /\ \A u \in DOMAIN in.splits : in.splits[u] >= 0 /\ u \in Users
    /\ DOMAIN in.splits # {} => SplitTotal(in.splits) = in.amount

(* An entry written or read is what the member then has on the screen.     *)
See(u, e, row) == seen' = [seen EXCEPT ![u][e] = row]

(* Mutant: saving an entry whose identifier is taken overwrites a tombstone.*)
BudgetCreateUpsert(u, e, in) ==
    LET row == ReplaceSplits(CreateBudgetEntry(in.amount), in.splits)
    IN /\ ~EntryLive(db, e)
       /\ EntryValid(in)
       /\ SplitSumChecked(row)
       /\ Write(PutEntry(db, e, row), <<Record(u, "budget_set", e, row, {})>>)
       /\ See(u, e, row)

BudgetCreate(u, e, in) ==
    LET row == ReplaceSplits(CreateBudgetEntry(in.amount), in.splits)
    IN /\ db.budgets[e] = Nil
       /\ EntryValid(in)
       /\ SplitSumChecked(row)
       /\ Write(PutEntry(db, e, row), <<Record(u, "budget_set", e, row, {})>>)
       /\ See(u, e, row)

(* Mutant: an edit without a version is taken at the version just read.    *)
BudgetUpdateCurrent(u, e, in) ==
    LET old == db.budgets[e]
        row == ReplaceSplits(UpdateBudgetEntry(old, in.amount), in.splits)
    IN /\ EntryLive(db, e)
       /\ EntryValid(in)
       /\ SplitSumChecked(row)
       /\ Write(PutEntry(db, e, row), <<Record(u, "budget_set", e, row, {})>>)
       /\ See(u, e, row)

(* The version is required, and a client states that of the entry it shows.*)
BudgetUpdate(u, e, in) ==
    LET old == db.budgets[e]
        row == ReplaceSplits(UpdateBudgetEntry(old, in.amount), in.splits)
    IN /\ EntryLive(db, e)
       /\ seen[u][e] # Nil
       /\ EntryValid(in)
       /\ Matches(old, seen[u][e].version)
       /\ SplitSumChecked(row)
       /\ Write(PutEntry(db, e, row), <<Record(u, "budget_set", e, row, {})>>)
       /\ See(u, e, row)

(* The split set stays with the tombstone.                                 *)
BudgetDelete(u, e) ==
    LET old == db.budgets[e]
        row == SoftDeleteBudgetEntry(old)
    IN /\ EntryLive(db, e)
       /\ seen[u][e] # Nil
       /\ Matches(old, seen[u][e].version)
       /\ Write(PutEntry(db, e, row), <<Record(u, "budget_delete", e, row, {"deleted_at"})>>)
       /\ Unseen

BudgetGet(u, e) ==
    /\ EntryLive(db, e)
    /\ See(u, e, db.budgets[e])
    /\ UNCHANGED <<db, opSeq, feed, replica>>

(* A set without a version is a create, with one an update.                *)
BudgetSetIntent(u, e, in) ==
    IF seen[u][e] = Nil THEN BudgetCreate(u, e, in) ELSE BudgetUpdate(u, e, in)

BudgetStep(u, e) ==
    \/ \E in \in BudgetRequests : BudgetCreate(u, e, in)
    \/ \E in \in BudgetRequests : BudgetUpdate(u, e, in)
    \/ \E in \in BudgetRequests : BudgetSetIntent(u, e, in)
    \/ BudgetDelete(u, e)
    \/ BudgetGet(u, e)

-----------------------------------------------------------------------------
(***************************************************************************)
(* The replica is handed any operation it has not folded: the next one, or *)
(* one that leaves a gap. What it has folded leaves the feed.              *)
(***************************************************************************)
Deliver ==
    \E i \in DOMAIN feed :
        /\ replica' = Apply(replica, feed[i])
        /\ feed' = SubSeq(feed, 1 + replica'.seq - replica.seq, Len(feed))
        /\ UNCHANGED <<db, opSeq, seen>>

Next ==
    \/ /\ opSeq < MaxSeq /\ Len(feed) <= MaxBehind
       /\ \E u \in Users :
             \/ \E d \in Days : DayStep(u, d)
             \/ \E s \in Slots : SlotStep(u, s)
             \/ \E o \in Options : OptionStep(u, o)
             \/ \E s \in Slots, o \in VoteRequests : VoteCast(u, s, o)
             \/ \E c \in Comments : CommentStep(u, c)
             \/ \E e \in Entries : BudgetStep(u, e)
    \/ Deliver

Spec == Init /\ [][Next]_vars

-----------------------------------------------------------------------------
(***************************************************************************)
(* Type invariant: every row of the tables and of the replica has the      *)
(* columns and the values its table allows (service and domain structs),   *)
(* and the feed is what the log has beyond the replica.                    *)
(***************************************************************************)
TypeOK ==
    /\ db \in AllTables
    /\ replica \in [seq : 0..MaxSeq, t : AllTables]
    /\ opSeq \in 0..MaxSeq
    /\ seen \in [Users -> [Entries -> OrNil(BudgetRows)]]
    /\ \A i \in DOMAIN feed : feed[i].seq = replica.seq + i
    /\ replica.seq + Len(feed) = opSeq

(***************************************************************************)
(* fold(trip_ops) == database state (op.go, Replica): the replica, once it *)
(* folds what it has not seen, has every row the tables have, column by    *)
(* column and with the same version. The latitude of an option is the      *)
(* exception: the fold reads both coordinates through one pointer, so the  *)
(* two only agree on whether there is one.                                 *)
(***************************************************************************)
ExceptLatitude(row) ==
    IF row = Nil THEN Nil ELSE [row EXCEPT !.place_lat = IF @ = Nil THEN Nil ELSE "some"]

FoldMatchesTables ==
    LET folded == Fold(replica, feed)
    IN /\ folded.seq = opSeq
       /\ [folded.t EXCEPT !.options = [o \in Options |-> ExceptLatitude(@[o])]]
            = [db EXCEPT !.options = [o \in Options |-> ExceptLatitude(@[o])]]

(***************************************************************************)
(* Two members who each edit one time of a slot never leave it, in the     *)
(* tables or at any point of the fold, with an end before its start: the   *)
(* merged slot is what is validated (service/slot.go, Update).             *)
(***************************************************************************)
TimesOrdered == TimesHold(db) /\ TimesHold(replica.t)

(***************************************************************************)
(* At every point a client can show, the splits of a budget entry that has *)
(* any sum to its amount (domain/budget.go): also in a replica that has    *)
(* folded only a part of the log.                                          *)
(***************************************************************************)
SplitsSumToTotal == SplitsHold(db) /\ SplitsHold(replica.t)

(***************************************************************************)
(* Nobody's number vanishes (service/oplog.go, requireVersion): an entry   *)
(* is replaced or deleted only by a member whose last reading of it is the *)
(* row that is replaced.                                                   *)
(***************************************************************************)
NoBlindOverwrite ==
    [][\A e \in Entries :
          (db.budgets[e] # Nil /\ db'.budgets[e] # db.budgets[e])
              => seen[Last(feed').actor][e] = db.budgets[e]]_vars

(***************************************************************************)
(* Deleting an option leaves no slot that is alive and has it selected     *)
(* (service/option.go, Delete), whatever selections and moves came before. *)
(***************************************************************************)
DeleteClearsSelection ==
    [][\A o \in Options, s \in Slots :
          (OptionLive(db, o) /\ ~OptionLive(db', o) /\ SlotLive(db', s))
              => db'.slots[s].selected_option_id # o]_vars

(***************************************************************************)
(* What is deleted stays deleted, in the tables and in the replica: no     *)
(* edit, move, selection or cascade that was under way, and no operation   *)
(* that is folded late, brings the row back, nor does a create that names  *)
(* it again.                                                               *)
(***************************************************************************)
Tombstoned(table, id) == table[id] # Nil /\ table[id].deleted_at # Nil

DeletedStaysDeleted ==
    [][\A n \in {"days", "slots", "options", "budgets", "comments"} :
          /\ \A i \in DOMAIN db[n] : Tombstoned(db[n], i) => Tombstoned(db'[n], i)
          /\ \A i \in DOMAIN replica.t[n] :
                Tombstoned(replica.t[n], i) => Tombstoned(replica'.t[n], i)]_vars
=============================================================================
