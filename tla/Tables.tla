------------------------------- MODULE Tables -------------------------------
(***************************************************************************)
(* The tables of one trip's itinerary and ledger, and the statements the   *)
(* services run on them (internal/repository, its generated queries, and   *)
(* the constraints of migrations/). A table maps an identifier to its row, *)
(* or to Nil while no row has that primary key. Identifiers of other trips *)
(* are not modelled: every service answers them like a row that is not     *)
(* there (checkTrip).                                                      *)
(*                                                                         *)
(* Each UPDATE is a function from the row it finds to the row it leaves;   *)
(* the WHERE clause, which is the same in all of them, is Matches.         *)
(***************************************************************************)
EXTENDS Ops

CONSTANTS
    Days, Slots, Options, Comments, Entries,   \* primary keys
    Users,                                     \* members of the trip
    Times, Dates, Coordinates, Amounts, Keys   \* column values

EmptyTables ==
    [days     |-> [d \in Days |-> Nil],
     slots    |-> [s \in Slots |-> Nil],
     options  |-> [o \in Options |-> Nil],
     votes    |-> [v \in Slots \X Users |-> Nil],
     budgets  |-> [e \in Entries |-> Nil],
     comments |-> [c \in Comments |-> Nil]]

(***************************************************************************)
(* GetByID reads rows that are not tombstoned; a missing one is not_found. *)
(***************************************************************************)
DayLive(t, d) == t.days[d] # Nil /\ t.days[d].deleted_at = Nil

SlotLive(t, s) == t.slots[s] # Nil /\ t.slots[s].deleted_at = Nil

OptionLive(t, o) == t.options[o] # Nil /\ t.options[o].deleted_at = Nil

CommentLive(t, c) == t.comments[c] # Nil /\ t.comments[c].deleted_at = Nil

EntryLive(t, e) == t.budgets[e] # Nil /\ t.budgets[e].deleted_at = Nil

(***************************************************************************)
(* The expected version of a request: Nil asks for no precondition.        *)
(***************************************************************************)
VersionOrCurrent(expected, row) == IF expected = Nil THEN row.version ELSE expected

(***************************************************************************)
(* WHERE id = .. AND version = .. AND deleted_at IS NULL. A statement that *)
(* hits no row is a version conflict and rolls the transaction back.       *)
(***************************************************************************)
Matches(row, version) == row.version = version /\ row.deleted_at = Nil

-----------------------------------------------------------------------------
(* days                                                                    *)

CreateDay(date, position) ==
    [DayRow EXCEPT !.date = date, !.position = position, !.version = 1]

UpdateDay(row, date, position) ==
    [row EXCEPT !.date = date, !.position = position, !.version = @ + 1]

SoftDeleteDay(row) == [row EXCEPT !.deleted_at = "set", !.version = @ + 1]

PutDay(t, d, row) == [t EXCEPT !.days[d] = row]

(* No two live days of a trip have one date (index days_trip_date_uq).     *)
DatesUnique(t) ==
    \A d, e \in Days : (DayLive(t, d) /\ DayLive(t, e) /\ d # e /\ t.days[d].date # Nil)
                           => t.days[d].date # t.days[e].date

-----------------------------------------------------------------------------
(* slots                                                                   *)

CreateSlot(day, start, end, position) ==
    [SlotRow EXCEPT !.day_id = day, !.start_time = start, !.end_time = end,
                    !.position = position, !.status = "planned", !.version = 1]

UpdateSlot(row, start, end) ==
    [row EXCEPT !.start_time = start, !.end_time = end, !.version = @ + 1]

(* Day and position change together, under one version.                    *)
MoveSlot(row, day, position) ==
    [row EXCEPT !.day_id = day, !.position = position, !.version = @ + 1]

SetSlotSelectedOption(row, option) ==
    [row EXCEPT !.selected_option_id = option, !.version = @ + 1]

(* Mutant: the two parameters are bound in the wrong order.                *)
SetSlotStatusSwapped(row, status, by) ==
    [row EXCEPT !.status = by, !.status_changed_by = status, !.version = @ + 1]

SetSlotStatus(row, status, by) ==
    [row EXCEPT !.status = status, !.status_changed_by = by, !.version = @ + 1]

SoftDeleteSlot(row) == [row EXCEPT !.deleted_at = "set", !.version = @ + 1]

PutSlot(t, s, row) == [t EXCEPT !.slots[s] = row]

(* slots_day_fk: the day's row exists; a tombstoned day still does.        *)
DayReferenced(t, day) == day # Nil => t.days[day] # Nil

(* slots_selected_option_fk and option_votes_option_fk: the option's row   *)
(* exists and belongs to the slot; a tombstoned option still does.         *)
OptionOfSlot(t, option, s) ==
    option # Nil => t.options[option] # Nil /\ t.options[option].slot_id = s

-----------------------------------------------------------------------------
(* slot_options                                                            *)

CreateSlotOption(s, lat, lng) ==
    [OptionRow EXCEPT !.slot_id = s, !.place_lat = lat, !.place_lng = lng, !.version = 1]

UpdateSlotOption(row, lat, lng) ==
    [row EXCEPT !.place_lat = lat, !.place_lng = lng, !.version = @ + 1]

SoftDeleteSlotOption(row) == [row EXCEPT !.deleted_at = "set", !.version = @ + 1]

PutOption(t, o, row) == [t EXCEPT !.options[o] = row]

-----------------------------------------------------------------------------
(* option_votes: one row per slot and member, made or overwritten in one   *)
(* statement; a retracted vote is a row whose option is NULL.              *)

CastVote(old, s, u, option) ==
    [slot_id |-> s, user_id |-> u, option_id |-> option,
     version |-> IF old = Nil THEN 1 ELSE old.version + 1]

PutVote(t, v, row) == [t EXCEPT !.votes[v] = row]

-----------------------------------------------------------------------------
(* comments                                                                *)

CreateComment(s, author) ==
    [CommentRow EXCEPT !.slot_id = s, !.author_id = author]

SoftDeleteComment(row) == [row EXCEPT !.deleted_at = "set"]

PutComment(t, c, row) == [t EXCEPT !.comments[c] = row]

-----------------------------------------------------------------------------
(* budget_entries with their budget_splits, a function from the members    *)
(* that share the entry to their shares                                    *)

SplitTotal(splits) == FoldFunction(+, 0, splits)

CreateBudgetEntry(amount) == [BudgetRow EXCEPT !.amount_minor = amount, !.version = 1]

UpdateBudgetEntry(row, amount) == [row EXCEPT !.amount_minor = amount, !.version = @ + 1]

SoftDeleteBudgetEntry(row) == [row EXCEPT !.deleted_at = "set", !.version = @ + 1]

(* DELETE of the split set, then one INSERT per member.                    *)
ReplaceSplits(row, splits) == [row EXCEPT !.splits = splits]

PutEntry(t, e, row) == [t EXCEPT !.budgets[e] = row]

(* The deferred triggers: at COMMIT, the splits of an entry that has any   *)
(* sum to its amount.                                                      *)
SplitSumChecked(row) ==
    DOMAIN row.splits # {} => SplitTotal(row.splits) = row.amount_minor

=============================================================================
