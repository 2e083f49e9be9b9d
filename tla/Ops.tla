-------------------------------- MODULE Ops --------------------------------
(***************************************************************************)
(* The vocabulary of operations, their payloads, and the reference fold    *)
(* (internal/domain/op.go).                                                *)
(*                                                                         *)
(* A row is a record from column names to values. Columns that no rule     *)
(* relates to another column (titles, notes, urls, labels, categories,     *)
(* timestamps other than tombstones) are left out: they are carried by the *)
(* mask exactly as the columns that stay. The wire forms that stay are     *)
(* faithful: an identifier, a time of day (hours and minutes) and a        *)
(* position key come back from their string form as they went in, and a    *)
(* column that is NULL is a JSON null, Nil here.                           *)
(***************************************************************************)
EXTENDS Integers, Sequences, FiniteSets, TLC, Functions, SequencesExt

CONSTANT Nil   \* NULL

(***************************************************************************)
(* What each kind of operation may name. A day keeps its date, an option   *)
(* its coordinates, a budget entry its amount and split set, an attachment *)
(* its status and the key of its object.                                   *)
(***************************************************************************)
AllowedFields ==
    [day_create         |-> {"date", "position"},
     day_edit           |-> {"date"},
     day_move           |-> {"position"},
     day_delete         |-> {"deleted_at"},
     slot_create        |-> {"day_id", "start_time", "end_time", "position", "status"},
     slot_edit          |-> {"start_time", "end_time"},
     slot_move          |-> {"day_id", "position"},
     slot_select_option |-> {"selected_option_id"},
     slot_set_status    |-> {"status", "status_changed_by"},
     slot_delete        |-> {"deleted_at"},
     option_create      |-> {"slot_id", "place_lat", "place_lng"},
     option_edit        |-> {"place_lat", "place_lng"},
     option_delete      |-> {"deleted_at"},
     vote_set           |-> {"slot_id", "user_id", "option_id"},
     budget_set         |-> {"amount_minor", "splits"},
     budget_delete      |-> {"deleted_at"},
     attachment_add     |-> {"status", "storage_key"},
     attachment_remove  |-> {"deleted_at"},
     comment_create     |-> {"slot_id"},
     comment_delete     |-> {"deleted_at"}]

OpKinds == DOMAIN AllowedFields

(***************************************************************************)
(* The kinds that are applied whole: a mask must name all their fields.    *)
(***************************************************************************)
TotalMaskKinds == {"budget_set", "attachment_add", "comment_create", "comment_delete"}

MaskValid(kind, mask) ==
    /\ kind \in OpKinds
    /\ mask # {}
    /\ mask \subseteq AllowedFields[kind]
    /\ kind \in TotalMaskKinds => mask = AllowedFields[kind]

(***************************************************************************)
(* An explicit field list, or everything the kind may change.              *)
(***************************************************************************)
MaskFor(kind, fields) == IF fields = {} THEN AllowedFields[kind] ELSE fields

Entity(kind) ==
    CASE kind \in {"day_create", "day_edit", "day_move", "day_delete"} -> "days"
      [] kind \in {"slot_create", "slot_edit", "slot_move", "slot_select_option",
                   "slot_set_status", "slot_delete"} -> "slots"
      [] kind \in {"option_create", "option_edit", "option_delete"} -> "options"
      [] kind = "vote_set" -> "votes"
      [] kind \in {"budget_set", "budget_delete"} -> "budgets"
      [] kind \in {"attachment_add", "attachment_remove"} -> "attachments"
      [] kind \in {"comment_create", "comment_delete"} -> "comments"

(***************************************************************************)
(* The encoder of a row as persisted: the masked columns, and the version  *)
(* the row has (0 for comments and attachments, which have none).          *)
(***************************************************************************)
BuildPayload(row, mask) == Restrict(row, mask)

PayloadVersion(row) == IF "version" \in DOMAIN row THEN row.version ELSE 0

(***************************************************************************)
(* The columns of each table, at the values Go gives a row the fold has    *)
(* not seen yet.                                                           *)
(***************************************************************************)
DayRow == [date |-> Nil, position |-> Nil, version |-> 0, deleted_at |-> Nil]

SlotRow == [day_id |-> Nil, start_time |-> Nil, end_time |-> Nil, position |-> Nil,
            selected_option_id |-> Nil, status |-> Nil, status_changed_by |-> Nil,
            version |-> 0, deleted_at |-> Nil]

OptionRow == [slot_id |-> Nil, place_lat |-> Nil, place_lng |-> Nil,
              version |-> 0, deleted_at |-> Nil]

VoteRow == [slot_id |-> Nil, user_id |-> Nil, option_id |-> Nil, version |-> 0]

BudgetRow == [amount_minor |-> 0, splits |-> <<>>, version |-> 0, deleted_at |-> Nil]

AttachmentRow == [status |-> Nil, storage_key |-> Nil, deleted_at |-> Nil]

CommentRow == [slot_id |-> Nil, author_id |-> Nil, deleted_at |-> Nil]

-----------------------------------------------------------------------------
(***************************************************************************)
(* The fold. Decode is decodeInto: a column the payload does not carry     *)
(* keeps its value.                                                        *)
(***************************************************************************)
Decode(row, op, f) == IF f \in DOMAIN op.fields THEN op.fields[f] ELSE row[f]

DecodeAll(row, op) == [f \in DOMAIN row |-> Decode(row, op, f)]

applySlot(row, op) == [DecodeAll(row, op) EXCEPT !.version = op.version]

applyDay(row, op) == [DecodeAll(row, op) EXCEPT !.version = op.version]

(***************************************************************************)
(* Latitude and longitude are decoded through one pointer variable. When   *)
(* both are present and neither is null, decoding the longitude writes     *)
(* through the pointer the latitude was just given, so both end up with    *)
(* the longitude; a null longitude only resets the pointer.                *)
(***************************************************************************)
SharedPointer(op) ==
    /\ {"place_lat", "place_lng"} \subseteq DOMAIN op.fields
    /\ op.fields.place_lat # Nil
    /\ op.fields.place_lng # Nil

applyOption(row, op) ==
    [DecodeAll(row, op) EXCEPT
        !.place_lat = IF SharedPointer(op) THEN op.fields.place_lng ELSE @,
        !.version   = op.version]

applyVote(row, op) == [DecodeAll(row, op) EXCEPT !.version = op.version]

(***************************************************************************)
(* Mutant: the shares are merged member by member.                         *)
(***************************************************************************)
applyBudgetMerged(row, op) ==
    [DecodeAll(row, op) EXCEPT
        !.splits  = IF "splits" \in DOMAIN op.fields THEN op.fields.splits @@ row.splits ELSE @,
        !.version = op.version]

(***************************************************************************)
(* The split set is replaced whole, never merged per member.               *)
(***************************************************************************)
applyBudget(row, op) == [DecodeAll(row, op) EXCEPT !.version = op.version]

(***************************************************************************)
(* Attachments and comments have no version to take.                       *)
(***************************************************************************)
applyAttachment(row, op) == DecodeAll(row, op)

applyComment(row, op) == DecodeAll(row, op)

(***************************************************************************)
(* A row the fold has not seen starts as a blank one, if the operation may *)
(* create it; any other operation on it is an error. The author of a       *)
(* comment is the actor of the operation that creates it.                  *)
(***************************************************************************)
Creating == {"day_create", "slot_create", "option_create", "vote_set", "budget_set",
             "attachment_add", "comment_create"}

Known(t, op) == t[Entity(op.kind)][op.entity] # Nil \/ op.kind \in Creating

Blank(op) ==
    CASE Entity(op.kind) = "days" -> DayRow
      [] Entity(op.kind) = "slots" -> SlotRow
      [] Entity(op.kind) = "options" -> OptionRow
      [] Entity(op.kind) = "votes" -> VoteRow
      [] Entity(op.kind) = "budgets" -> BudgetRow
      [] Entity(op.kind) = "attachments" -> AttachmentRow
      [] Entity(op.kind) = "comments" -> [CommentRow EXCEPT !.author_id = op.actor]

ApplyTo(row, op) ==
    CASE Entity(op.kind) = "days" -> applyDay(row, op)
      [] Entity(op.kind) = "slots" -> applySlot(row, op)
      [] Entity(op.kind) = "options" -> applyOption(row, op)
      [] Entity(op.kind) = "votes" -> applyVote(row, op)
      [] Entity(op.kind) = "budgets" -> applyBudget(row, op)
      [] Entity(op.kind) = "attachments" -> applyAttachment(row, op)
      [] Entity(op.kind) = "comments" -> applyComment(row, op)

(***************************************************************************)
(* One operation folded into a replica [seq, t]: one already folded does   *)
(* nothing; a gap, or an operation on an unknown row, is refused and       *)
(* leaves the replica as it was.                                           *)
(***************************************************************************)
Apply(r, op) ==
    LET entity == Entity(op.kind)
        old    == r.t[entity][op.entity]
    IN IF op.seq # r.seq + 1 \/ ~Known(r.t, op)
       THEN r
       ELSE [seq |-> op.seq,
             t   |-> [r.t EXCEPT ![entity][op.entity] =
                        ApplyTo(IF old = Nil THEN Blank(op) ELSE old, op)]]

Fold(r, ops) ==
    LET folded[i \in 0..Len(ops)] == IF i = 0 THEN r ELSE Apply(folded[i - 1], ops[i])
    IN folded[Len(ops)]
=============================================================================
