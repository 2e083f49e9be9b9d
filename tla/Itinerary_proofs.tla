-------------------------- MODULE Itinerary_proofs --------------------------
(***************************************************************************)
(* What holds of the itinerary and the ledger of a trip. Every call is     *)
(* shown to write its rows with operations that carry all that moved; the  *)
(* fold of such operations goes, state by state, to the tables.            *)
(***************************************************************************)
EXTENDS Itinerary, WellFoundedInduction, SequenceTheorems, TLAPS

(* Tables as a function from the name of a table.                           *)
TableNames == {"days", "slots", "options", "votes", "budgets", "comments"}

Ids == [days |-> Days, slots |-> Slots, options |-> Options, votes |-> Slots \X Users,
        budgets |-> Entries, comments |-> Comments]

Rows == [days |-> DayRows, slots |-> SlotRows, options |-> OptionRows, votes |-> VoteRows,
         budgets |-> BudgetRows, comments |-> CommentRows]

(* A set of natural numbers has a least member.                             *)
LEMMA Least ==
  ASSUME NEW T, T \subseteq Nat, T # {}
  PROVE  \E n \in T : \A m \in T : n <= m
<1> DEFINE R == OpToRel(<, Nat)
<1>1. IsWellFoundedOn(R, Nat)
  BY NatLessThanWellFounded
<1>2. \A m, n \in Nat : <<m, n>> \in R <=> m < n
  BY DEF OpToRel
<1> HIDE DEF R
<1>3. PICK n \in T : \A m \in T : ~ (<<m, n>> \in R)
  BY <1>1, WFMin
<1>4. \A m \in T : ~(m < n) /\ m \in Nat /\ n \in Nat
  BY <1>2, <1>3
<1> QED
  BY <1>4

(* Typed tables, name by name.                                              *)
LEMMA TablesByName ==
  ASSUME NEW t
  PROVE  t \in AllTables <=> /\ t = [n \in TableNames |-> t[n]]
                             /\ \A n \in TableNames : t[n] \in [Ids[n] -> OrNil(Rows[n])]
<1>1. ASSUME t \in AllTables
      PROVE  /\ t = [n \in TableNames |-> t[n]]
             /\ \A n \in TableNames : t[n] \in [Ids[n] -> OrNil(Rows[n])]
  <2>1. /\ t.days \in [Days -> OrNil(DayRows)]
        /\ t.slots \in [Slots -> OrNil(SlotRows)]
        /\ t.options \in [Options -> OrNil(OptionRows)]
        /\ t.votes \in [Slots \X Users -> OrNil(VoteRows)]
        /\ t.budgets \in [Entries -> OrNil(BudgetRows)]
        /\ t.comments \in [Comments -> OrNil(CommentRows)]
    BY <1>1 DEF AllTables
  <2>2. \A n \in TableNames : t[n] \in [Ids[n] -> OrNil(Rows[n])]
    <3>1. \A n \in TableNames : \/ n = "days" \/ n = "slots" \/ n = "options"
                               \/ n = "votes" \/ n = "budgets" \/ n = "comments"
      BY DEF TableNames
    <3>2. /\ Ids["days"] = Days /\ Ids["slots"] = Slots /\ Ids["options"] = Options
          /\ Ids["votes"] = Slots \X Users /\ Ids["budgets"] = Entries /\ Ids["comments"] = Comments
          /\ Rows["days"] = DayRows /\ Rows["slots"] = SlotRows /\ Rows["options"] = OptionRows
          /\ Rows["votes"] = VoteRows /\ Rows["budgets"] = BudgetRows /\ Rows["comments"] = CommentRows
      BY DEF Ids, Rows
    <3> QED
      BY <2>1, <3>1, <3>2, Zenon
  <2>3. t = [n \in TableNames |-> t[n]]
    BY <1>1 DEF AllTables, TableNames
  <2> QED
    BY <2>2, <2>3
<1>2. ASSUME t = [n \in TableNames |-> t[n]],
             \A n \in TableNames : t[n] \in [Ids[n] -> OrNil(Rows[n])]
      PROVE  t \in AllTables
  <2>1. /\ t.days \in [Days -> OrNil(DayRows)]
        /\ t.slots \in [Slots -> OrNil(SlotRows)]
        /\ t.options \in [Options -> OrNil(OptionRows)]
        /\ t.votes \in [Slots \X Users -> OrNil(VoteRows)]
        /\ t.budgets \in [Entries -> OrNil(BudgetRows)]
        /\ t.comments \in [Comments -> OrNil(CommentRows)]
    BY <1>2 DEF Ids, Rows, TableNames
  <2>2. t = [days |-> t.days, slots |-> t.slots, options |-> t.options, votes |-> t.votes,
             budgets |-> t.budgets, comments |-> t.comments]
    BY <1>2 DEF TableNames
  <2> QED
    BY <2>1, <2>2 DEF AllTables
<1> QED
  BY <1>1, <1>2

(* One row written.                                                         *)
Put(t, n, id, row) == [t EXCEPT ![n][id] = row]

(* The others stay, and the tables stay typed.                              *)
LEMMA RowPut ==
  ASSUME NEW t \in AllTables, NEW n \in TableNames, NEW id \in Ids[n], NEW row \in Rows[n],
         NEW u, u = Put(t, n, id, row)
  PROVE  /\ u \in AllTables
         /\ \A m \in TableNames : \A i \in Ids[m] :
               u[m][i] = IF m = n /\ i = id THEN row ELSE t[m][i]
<1>1. t = [m \in TableNames |-> t[m]] /\ \A m \in TableNames : t[m] \in [Ids[m] -> OrNil(Rows[m])]
  BY TablesByName
<1>2. \A m \in TableNames : u[m] = IF m = n THEN [t[n] EXCEPT ![id] = row] ELSE t[m]
  BY <1>1 DEF Put
<1>3. u = [m \in TableNames |-> u[m]]
  BY <1>1 DEF Put
<1>4. \A m \in TableNames : \A i \in Ids[m] : u[m][i] = IF m = n /\ i = id THEN row ELSE t[m][i]
  BY <1>1, <1>2
<1>5. \A m \in TableNames : u[m] \in [Ids[m] -> OrNil(Rows[m])]
  BY <1>1, <1>2 DEF OrNil
<1>6. u \in AllTables
  BY <1>3, <1>5, TablesByName
<1> QED
  BY <1>4, <1>6

-----------------------------------------------------------------------------
(* The columns of each table.                                               *)
Columns ==
    [days     |-> {"date", "position", "version", "deleted_at"},
     slots    |-> {"day_id", "start_time", "end_time", "position", "selected_option_id", "status",
                   "status_changed_by", "version", "deleted_at"},
     options  |-> {"slot_id", "place_lat", "place_lng", "version", "deleted_at"},
     votes    |-> {"slot_id", "user_id", "option_id", "version"},
     budgets  |-> {"amount_minor", "splits", "version", "deleted_at"},
     comments |-> {"slot_id", "author_id", "deleted_at"}]

HasColumns(n, row) == row = [f \in Columns[n] |-> row[f]]

(* The kind of an operation tells its table.                                *)
LEMMA NameCases ==
  /\ \A n \in TableNames : \/ n = "days" \/ n = "slots" \/ n = "options"
                           \/ n = "votes" \/ n = "budgets" \/ n = "comments"
  /\ Ids["days"] = Days /\ Ids["slots"] = Slots /\ Ids["options"] = Options
  /\ Ids["votes"] = Slots \X Users /\ Ids["budgets"] = Entries /\ Ids["comments"] = Comments
  /\ Rows["days"] = DayRows /\ Rows["slots"] = SlotRows /\ Rows["options"] = OptionRows
  /\ Rows["votes"] = VoteRows /\ Rows["budgets"] = BudgetRows /\ Rows["comments"] = CommentRows
  BY DEF TableNames, Ids, Rows

(* A row has the columns of its table.                                      *)
LEMMA RowColumns ==
  ASSUME NEW n \in TableNames, NEW row \in Rows[n]
  PROVE  HasColumns(n, row) /\ row # Nil
<1>1. CASE n = "days"
  <2>1. row \in DayRows
    BY <1>1, NameCases
  <2>2. row = [f \in {"date", "position", "version", "deleted_at"} |-> row[f]]
    BY <2>1 DEF DayRows
  <2>3. Columns[n] = {"date", "position", "version", "deleted_at"}
    BY <1>1 DEF Columns
  <2> QED
    BY <2>1, <2>2, <2>3, ItineraryAssumption DEF HasColumns
<1>2. CASE n = "slots"
  <2>1. row \in SlotRows
    BY <1>2, NameCases
  <2>2. row = [f \in {"day_id", "start_time", "end_time", "position", "selected_option_id", "status",
                      "status_changed_by", "version", "deleted_at"} |-> row[f]]
    BY <2>1 DEF SlotRows
  <2>3. Columns[n] = {"day_id", "start_time", "end_time", "position", "selected_option_id", "status",
                      "status_changed_by", "version", "deleted_at"}
    BY <1>2 DEF Columns
  <2> QED
    BY <2>1, <2>2, <2>3, ItineraryAssumption DEF HasColumns
<1>3. CASE n = "options"
  <2>1. row \in OptionRows
    BY <1>3, NameCases
  <2>2. row = [f \in {"slot_id", "place_lat", "place_lng", "version", "deleted_at"} |-> row[f]]
    BY <2>1 DEF OptionRows
  <2>3. Columns[n] = {"slot_id", "place_lat", "place_lng", "version", "deleted_at"}
    BY <1>3 DEF Columns
  <2> QED
    BY <2>1, <2>2, <2>3, ItineraryAssumption DEF HasColumns
<1>4. CASE n = "votes"
  <2>1. row \in VoteRows
    BY <1>4, NameCases
  <2>2. row = [f \in {"slot_id", "user_id", "option_id", "version"} |-> row[f]]
    BY <2>1 DEF VoteRows
  <2>3. Columns[n] = {"slot_id", "user_id", "option_id", "version"}
    BY <1>4 DEF Columns
  <2> QED
    BY <2>1, <2>2, <2>3, ItineraryAssumption DEF HasColumns
<1>5. CASE n = "budgets"
  <2>1. row \in BudgetRows
    BY <1>5, NameCases
  <2>2. row = [f \in {"amount_minor", "splits", "version", "deleted_at"} |-> row[f]]
    BY <2>1 DEF BudgetRows
  <2>3. Columns[n] = {"amount_minor", "splits", "version", "deleted_at"}
    BY <1>5 DEF Columns
  <2> QED
    BY <2>1, <2>2, <2>3, ItineraryAssumption DEF HasColumns
<1>6. CASE n = "comments"
  <2>1. row \in CommentRows
    BY <1>6, NameCases
  <2>2. row = [f \in {"slot_id", "author_id", "deleted_at"} |-> row[f]]
    BY <2>1 DEF CommentRows
  <2>3. Columns[n] = {"slot_id", "author_id", "deleted_at"}
    BY <1>6 DEF Columns
  <2> QED
    BY <2>1, <2>2, <2>3, ItineraryAssumption DEF HasColumns
<1> QED
  BY <1>1, <1>2, <1>3, <1>4, <1>5, <1>6, NameCases

(* So does the blank row the fold starts a new one from.                    *)
LEMMA BlankColumns ==
  ASSUME NEW op, NEW n \in TableNames, Entity(op.kind) = n
  PROVE  HasColumns(n, Blank(op))
<1>1. CASE n = "days"
  BY <1>1 DEF Blank, HasColumns, Columns, DayRow
<1>2. CASE n = "slots"
  BY <1>2 DEF Blank, HasColumns, Columns, SlotRow
<1>3. CASE n = "options"
  BY <1>3 DEF Blank, HasColumns, Columns, OptionRow
<1>4. CASE n = "votes"
  BY <1>4 DEF Blank, HasColumns, Columns, VoteRow
<1>5. CASE n = "budgets"
  BY <1>5 DEF Blank, HasColumns, Columns, BudgetRow
<1>6. CASE n = "comments"
  BY <1>6 DEF Blank, HasColumns, Columns, CommentRow
<1> QED
  BY <1>1, <1>2, <1>3, <1>4, <1>5, <1>6, NameCases

(* Decoding the payload of a row over one that differs from it only in what *)
(* the payload carries.                                                     *)
LEMMA Decoded ==
  ASSUME NEW base, NEW new, NEW op, NEW cols,
         base = [f \in cols |-> base[f]], new = [f \in cols |-> new[f]],
         DOMAIN op.fields \subseteq cols,
         op.fields = Restrict(new, DOMAIN op.fields),
         \A f \in cols \ DOMAIN op.fields : f # "version" => new[f] = base[f]
  PROVE  /\ DecodeAll(base, op) = [f \in cols |-> DecodeAll(base, op)[f]]
         /\ \A f \in cols : f # "version" => DecodeAll(base, op)[f] = new[f]
         /\ "version" \notin cols => DecodeAll(base, op) = new
         /\ "version" \in cols /\ op.version = new.version
               => [DecodeAll(base, op) EXCEPT !.version = op.version] = new
<1> DEFINE d == DecodeAll(base, op)
<1>1. d = [f \in cols |-> Decode(base, op, f)]
  BY DEF DecodeAll
<1>2. \A f \in DOMAIN op.fields : op.fields[f] = new[f]
  BY DEF Restrict
<1>3. \A f \in cols : f # "version" => d[f] = new[f]
  BY <1>1, <1>2 DEF Decode
<1>4. d = [f \in cols |-> d[f]]
  BY <1>1
<1> HIDE DEF d
<1>5. "version" \notin cols => d = new
  BY <1>3, <1>4
<1>6. ASSUME "version" \in cols, op.version = new.version
      PROVE  [d EXCEPT !.version = op.version] = new
  <2> DEFINE e == [d EXCEPT !.version = op.version]
  <2>1. e = [f \in cols |-> e[f]] /\ \A f \in cols : e[f] = new[f]
    BY <1>3, <1>4, <1>6
  <2> QED
    BY <2>1
<1> QED
  BY <1>3, <1>4, <1>5, <1>6 DEF d

(* Two rows that are the same, but for which latitude an option has.        *)
Alike(n, a, b) ==
    \/ a = b
    \/ /\ n = "options" /\ a # Nil /\ b # Nil
       /\ \A f \in Columns.options : f # "place_lat" => a[f] = b[f]
       /\ a.place_lat = Nil <=> b.place_lat = Nil

(* An operation that carries what a write changed: the row had been old, or *)
(* is new to the fold, and a column outside the payload has not moved.      *)
Carries(n, op, old, new) ==
    /\ Entity(op.kind) = n
    /\ old = Nil => op.kind \in Creating
    /\ DOMAIN op.fields \subseteq Columns[n]
    /\ op.fields = Restrict(new, DOMAIN op.fields)
    /\ op.version = PayloadVersion(new)
    /\ \A f \in Columns[n] \ DOMAIN op.fields :
          f # "version" => new[f] = (IF old = Nil THEN Blank(op) ELSE old)[f]

(* Folding it gives the row as persisted.                                   *)
LEMMA RowFolds ==
  ASSUME NEW n \in TableNames, n # "options", NEW op, NEW old \in OrNil(Rows[n]), NEW new \in Rows[n],
         Carries(n, op, old, new)
  PROVE  ApplyTo(IF old = Nil THEN Blank(op) ELSE old, op) = new
<1> DEFINE base == IF old = Nil THEN Blank(op) ELSE old
           cols == Columns[n]
<1>1. base = [f \in cols |-> base[f]]
  BY RowColumns, BlankColumns DEF HasColumns, Carries, OrNil
<1>2. new = [f \in cols |-> new[f]]
  BY RowColumns DEF HasColumns
<1>3. /\ DOMAIN op.fields \subseteq cols
      /\ op.fields = Restrict(new, DOMAIN op.fields)
      /\ \A f \in cols \ DOMAIN op.fields : f # "version" => new[f] = base[f]
      /\ op.version = PayloadVersion(new)
      /\ Entity(op.kind) = n
  BY DEF Carries
<1>4. "version" \in cols => op.version = new.version
  BY <1>2, <1>3 DEF PayloadVersion
<1>5. "version" \notin cols <=> n = "comments"
  BY NameCases DEF Columns
<1> HIDE DEF base, cols
<1>6. /\ "version" \notin cols => DecodeAll(base, op) = new
      /\ "version" \in cols => [DecodeAll(base, op) EXCEPT !.version = op.version] = new
  BY <1>1, <1>2, <1>3, <1>4, Decoded
<1>7. CASE n = "comments"
  BY <1>3, <1>5, <1>6, <1>7 DEF ApplyTo, applyComment, base
<1>8. CASE n # "comments"
  <2>1. ApplyTo(base, op) = [DecodeAll(base, op) EXCEPT !.version = op.version]
    BY <1>3, <1>8, NameCases DEF ApplyTo, applyDay, applySlot, applyVote, applyBudget
  <2> QED
    BY <1>5, <1>6, <1>8, <2>1 DEF base
<1> QED
  BY <1>7, <1>8

(* An option is folded into one that is alike.                              *)
LEMMA OptionFolds ==
  ASSUME NEW op, NEW a \in OrNil(OptionRows), NEW b \in OrNil(OptionRows), Alike("options", a, b),
         NEW new \in OptionRows, Carries("options", op, b, new)
  PROVE  LET x == ApplyTo(IF a = Nil THEN Blank(op) ELSE a, op)
         IN x \in OptionRows /\ Alike("options", x, new)
<1> DEFINE base == IF a = Nil THEN Blank(op) ELSE a
           cols == Columns["options"]
           d == DecodeAll(base, op)
           x == [d EXCEPT !.place_lat = IF SharedPointer(op) THEN op.fields.place_lng ELSE @,
                          !.version   = op.version]
<1>0. /\ cols = {"slot_id", "place_lat", "place_lng", "version", "deleted_at"}
      /\ cols = Columns.options
      /\ "options" \in TableNames /\ Rows["options"] = OptionRows
  BY DEF Columns, TableNames, Rows
<1>1. base = [f \in cols |-> base[f]]
  BY <1>0, RowColumns, BlankColumns DEF HasColumns, Carries, OrNil
<1>2. new = [f \in cols |-> new[f]] /\ new # Nil
  BY <1>0, RowColumns DEF HasColumns
<1>3. ApplyTo(base, op) = x
  BY DEF ApplyTo, applyOption, Carries
<1>4. /\ DOMAIN op.fields \subseteq cols
      /\ \A f \in DOMAIN op.fields : op.fields[f] = new[f]
      /\ op.version = new.version
  BY <1>0, <1>2 DEF Carries, Restrict, PayloadVersion
<1>5. \A f \in cols \ DOMAIN op.fields : f \notin {"version", "place_lat"} => new[f] = base[f]
  BY <1>0 DEF Carries, Alike
<1>6. "place_lat" \in DOMAIN op.fields \/ (new.place_lat = Nil <=> base.place_lat = Nil)
  BY <1>0 DEF Carries, Alike
<1>7. base.place_lat \in OrNil(Coordinates)
  BY DEF Blank, Carries, OptionRow, OptionRows, OrNil
<1> HIDE DEF base, cols
<1>8. d = [f \in cols |-> IF f \in DOMAIN op.fields THEN op.fields[f] ELSE base[f]]
  BY <1>1 DEF DecodeAll, Decode
<1>9. /\ \A f \in cols : f \notin {"version", "place_lat"} => d[f] = new[f]
      /\ d["place_lat"] \in OrNil(Coordinates)
      /\ d["place_lat"] = Nil <=> new.place_lat = Nil
  BY <1>0, <1>4, <1>5, <1>6, <1>7, <1>8 DEF OptionRows
<1>10. SharedPointer(op) => /\ op.fields.place_lng \in OrNil(Coordinates)
                            /\ op.fields.place_lng # Nil /\ new.place_lat # Nil
  BY <1>4 DEF SharedPointer, OptionRows
<1>11. /\ x = [f \in cols |-> x[f]]
       /\ \A f \in cols : f # "place_lat" => x[f] = new[f]
       /\ x["place_lat"] \in OrNil(Coordinates)
       /\ x["place_lat"] = Nil <=> new.place_lat = Nil
  BY <1>0, <1>4, <1>8, <1>9, <1>10
<1> HIDE DEF x
<1>12. x \in OptionRows
  <2>1. x = [slot_id |-> x.slot_id, place_lat |-> x.place_lat, place_lng |-> x.place_lng,
             version |-> x.version, deleted_at |-> x.deleted_at]
    BY <1>0, <1>11
  <2>2. /\ x.slot_id = new.slot_id /\ x.place_lng = new.place_lng /\ x.version = new.version
        /\ x.deleted_at = new.deleted_at
    BY <1>0, <1>11
  <2> QED
    BY <1>11, <2>1, <2>2 DEF OptionRows
<1>13. x # Nil
  BY <1>12, ItineraryAssumption
<1>14. Alike("options", x, new)
  BY <1>0, <1>2, <1>11, <1>13 DEF Alike
<1> QED
  BY <1>3, <1>12, <1>14 DEF base

-----------------------------------------------------------------------------
Replicas == [seq : Nat, t : AllTables]

(* Tables that are the same, but for which latitude an option has.          *)
LikeTables(s, t) == \A n \in TableNames : \A i \in Ids[n] : Alike(n, s[n][i], t[n][i])

(* What the checks of the services keep true of a row, and of all.          *)
RowSound(n, row) ==
    /\ n = "slots" => TimesValid(row)
    /\ n = "budgets" => SplitSumChecked(row)

Sound(t) == TimesHold(t) /\ SplitsHold(t)

KeepsTombstones(s, t) ==
    \A n \in TableNames \ {"votes"} : \A i \in Ids[n] :
        Tombstoned(s[n], i) => t[n][i] = s[n][i]

(* Row new of table n is written over one that is not deleted, and op is    *)
(* its operation.                                                           *)
Follows(t, n, id, new, op) ==
    /\ n \in TableNames /\ id \in Ids[n] /\ new \in Rows[n]
    /\ op.entity = id
    /\ Carries(n, op, t[n][id], new)
    /\ RowSound(n, new)
    /\ n # "votes" => t[n][id] = Nil \/ t[n][id].deleted_at = Nil

(* A sound row keeps tables sound.                                          *)
LEMMA PutSound ==
  ASSUME NEW t \in AllTables, Sound(t), NEW n \in TableNames, NEW id \in Ids[n], NEW row \in Rows[n],
         RowSound(n, row), NEW u, u = Put(t, n, id, row)
  PROVE  Sound(u)
<1>1. \A m \in TableNames : \A i \in Ids[m] : u[m][i] = IF m = n /\ i = id THEN row ELSE t[m][i]
  BY RowPut
<1>2. "slots" \in TableNames /\ "budgets" \in TableNames
  BY DEF TableNames
<1>3. \A s \in Slots : u["slots"][s] # Nil => TimesValid(u["slots"][s])
  BY <1>1, <1>2, NameCases DEF Sound, TimesHold, RowSound
<1>4. \A e \in Entries : u["budgets"][e] # Nil => SplitSumChecked(u["budgets"][e])
  BY <1>1, <1>2, NameCases DEF Sound, SplitsHold, RowSound
<1> QED
  BY <1>3, <1>4 DEF Sound, TimesHold, SplitsHold

(* A write over a row that is not deleted keeps the deleted ones.           *)
LEMMA PutKeeps ==
  ASSUME NEW t \in AllTables, NEW n \in TableNames, NEW id \in Ids[n], NEW row \in Rows[n],
         n # "votes" => t[n][id] = Nil \/ t[n][id].deleted_at = Nil,
         NEW u, u = Put(t, n, id, row)
  PROVE  KeepsTombstones(t, u)
<1>1. \A m \in TableNames : \A i \in Ids[m] : u[m][i] = IF m = n /\ i = id THEN row ELSE t[m][i]
  BY RowPut
<1> QED
  BY <1>1 DEF KeepsTombstones, Tombstoned

(* The row the fold has is deleted when the table's is.                     *)
LEMMA AlikeDeleted ==
  ASSUME NEW n \in TableNames, NEW a \in OrNil(Rows[n]), NEW b \in OrNil(Rows[n]), Alike(n, a, b)
  PROVE  /\ a = Nil <=> b = Nil
         /\ a # Nil /\ n # "votes" => a.deleted_at = b.deleted_at
  BY DEF Alike, Columns

(* One operation folded into a replica that is like the tables it is about. *)
LEMMA ApplyFollows ==
  ASSUME NEW r \in Replicas, NEW t \in AllTables, LikeTables(r.t, t),
         NEW n, NEW id, NEW new, NEW op, Follows(t, n, id, new, op), op.seq = r.seq + 1
  PROVE  \E x \in Rows[n] : /\ Apply(r, op) = [seq |-> r.seq + 1, t |-> Put(r.t, n, id, x)]
                            /\ Alike(n, x, new)
<1>1. /\ n \in TableNames /\ id \in Ids[n] /\ new \in Rows[n]
      /\ op.entity = id /\ Carries(n, op, t[n][id], new) /\ Entity(op.kind) = n
  BY DEF Follows, Carries
<1> DEFINE a == r.t[n][id]
           b == t[n][id]
           x == ApplyTo(IF a = Nil THEN Blank(op) ELSE a, op)
<1>2. a \in OrNil(Rows[n]) /\ b \in OrNil(Rows[n]) /\ Alike(n, a, b)
  BY <1>1, TablesByName DEF LikeTables, Replicas
<1>3. a = Nil <=> b = Nil
  BY <1>1, <1>2, AlikeDeleted
<1>4. Known(r.t, op)
  BY <1>1, <1>3 DEF Known, Carries
<1>5. r.seq \in Nat
  BY DEF Replicas
<1>6. Apply(r, op) = [seq |-> op.seq, t |-> Put(r.t, n, id, x)]
  BY <1>1, <1>4, <1>5 DEF Apply, Put
<1>7. x \in Rows[n] /\ Alike(n, x, new)
  <2>1. CASE n = "options"
    <3> HIDE DEF a, b
    <3>1. Rows[n] = OptionRows
      BY <2>1, NameCases
    <3>2. /\ a \in OrNil(OptionRows) /\ b \in OrNil(OptionRows) /\ Alike("options", a, b)
          /\ new \in OptionRows /\ Carries("options", op, b, new)
      BY <1>1, <1>2, <2>1, <3>1 DEF b
    <3> QED
      BY <2>1, <3>1, <3>2, OptionFolds
  <2>2. CASE n # "options"
    <3>1. a = b
      BY <1>2, <2>2 DEF Alike
    <3> HIDE DEF a, b
    <3>2. Carries(n, op, b, new)
      BY <1>1 DEF b
    <3>3. x = new
      BY <1>1, <1>2, <2>2, <3>1, <3>2, RowFolds
    <3> QED
      BY <1>1, <3>3 DEF Alike
  <2> QED
    BY <2>1, <2>2
<1> HIDE DEF x
<1> QED
  BY <1>6, <1>7

(* So the replica stays like the tables, sound, and keeps what is deleted.  *)
LEMMA FoldStep ==
  ASSUME NEW r \in Replicas, NEW t \in AllTables, LikeTables(r.t, t), Sound(r.t),
         NEW n, NEW id, NEW new, NEW op, Follows(t, n, id, new, op), op.seq = r.seq + 1,
         NEW q, q = Apply(r, op), NEW u, u = Put(t, n, id, new)
  PROVE  /\ q \in Replicas /\ q.seq = r.seq + 1
         /\ u \in AllTables /\ LikeTables(q.t, u)
         /\ Sound(q.t) /\ KeepsTombstones(r.t, q.t)
<1>1. PICK x \in Rows[n] : /\ Apply(r, op) = [seq |-> r.seq + 1, t |-> Put(r.t, n, id, x)]
                           /\ Alike(n, x, new)
  BY ApplyFollows
<1>2. /\ n \in TableNames /\ id \in Ids[n] /\ new \in Rows[n] /\ RowSound(n, new)
      /\ n # "votes" => t[n][id] = Nil \/ t[n][id].deleted_at = Nil
  BY DEF Follows
<1>3. r.t \in AllTables /\ r.seq \in Nat
  BY DEF Replicas
<1>4. /\ Put(r.t, n, id, x) \in AllTables
      /\ \A m \in TableNames : \A i \in Ids[m] :
            Put(r.t, n, id, x)[m][i] = IF m = n /\ i = id THEN x ELSE r.t[m][i]
  BY <1>2, <1>3, RowPut
<1>5. /\ u \in AllTables
      /\ \A m \in TableNames : \A i \in Ids[m] : u[m][i] = IF m = n /\ i = id THEN new ELSE t[m][i]
  BY <1>2, RowPut
<1>6. q.seq = r.seq + 1 /\ q.t = Put(r.t, n, id, x) /\ q \in Replicas
  BY <1>1, <1>3, <1>4 DEF Replicas
<1>7. LikeTables(q.t, u)
  BY <1>1, <1>4, <1>5, <1>6 DEF LikeTables
<1>8. RowSound(n, x)
  <2>1. n # "options" => x = new
    BY <1>1 DEF Alike
  <2> QED
    BY <1>2, <2>1 DEF RowSound
<1>9. Sound(q.t)
  BY <1>2, <1>3, <1>6, <1>8, PutSound
<1>10. /\ r.t[n][id] \in OrNil(Rows[n]) /\ t[n][id] \in OrNil(Rows[n])
       /\ Alike(n, r.t[n][id], t[n][id])
  BY <1>2, <1>3, TablesByName DEF LikeTables
<1>11. n # "votes" => r.t[n][id] = Nil \/ r.t[n][id].deleted_at = Nil
  BY <1>2, <1>10, AlikeDeleted
<1>12. KeepsTombstones(r.t, q.t)
  BY <1>2, <1>3, <1>6, <1>11, PutKeeps
<1> QED
  BY <1>5, <1>6, <1>7, <1>9, <1>12

-----------------------------------------------------------------------------
(***************************************************************************)
(* The states the fold is going to go through: from the replica, over each *)
(* operation it has not folded, to one like the tables.                    *)
(***************************************************************************)
Chain(h, S, ops, r, seq, t) ==
    /\ ops \in Seq(S) /\ seq = r.seq + Len(ops)
    /\ h \in [0..Len(ops) -> Replicas]
    /\ h[0] = r
    /\ \A i \in 0..Len(ops) : h[i].seq = r.seq + i /\ Sound(h[i].t)
    /\ \A i \in 1..Len(ops) : /\ ops[i].seq = r.seq + i
                              /\ h[i] = Apply(h[i - 1], ops[i])
                              /\ KeepsTombstones(h[i - 1].t, h[i].t)
    /\ LikeTables(h[Len(ops)].t, t)

(* A write and its operation add one state to it.                           *)
LEMMA ChainGrows ==
  ASSUME NEW h, NEW S, NEW ops, NEW r, NEW seq, NEW t \in AllTables, Chain(h, S, ops, r, seq, t),
         NEW n, NEW id, NEW new, NEW op, Follows(t, n, id, new, op), op.seq = seq + 1
  PROVE  /\ Put(t, n, id, new) \in AllTables
         /\ \E k, T : Chain(k, T, Append(ops, op), r, seq + 1, Put(t, n, id, new))
<1> DEFINE L == Len(ops)
           q == Apply(h[L], op)
           k == [i \in 0..(L + 1) |-> IF i <= L THEN h[i] ELSE q]
           T == S \cup {op}
           more == Append(ops, op)
           u == Put(t, n, id, new)
<1>1. /\ ops \in Seq(S) /\ L \in Nat /\ seq = r.seq + L
      /\ h \in [0..L -> Replicas] /\ h[0] = r
      /\ \A i \in 0..L : h[i].seq = r.seq + i /\ Sound(h[i].t)
      /\ \A i \in 1..L : /\ ops[i].seq = r.seq + i
                         /\ h[i] = Apply(h[i - 1], ops[i])
                         /\ KeepsTombstones(h[i - 1].t, h[i].t)
      /\ LikeTables(h[L].t, t)
  BY DEF Chain
<1>2. more \in Seq(T) /\ Len(more) = L + 1 /\ more[L + 1] = op /\ \A i \in 1..L : more[i] = ops[i]
  BY <1>1
<1>3. h[L] \in Replicas /\ h[L].seq = seq /\ Sound(h[L].t) /\ r.seq \in Nat
  BY <1>1 DEF Replicas
<1>4. /\ q \in Replicas /\ q.seq = seq + 1 /\ u \in AllTables /\ LikeTables(q.t, u)
      /\ Sound(q.t) /\ KeepsTombstones(h[L].t, q.t)
  BY <1>1, <1>3, FoldStep
<1>5. /\ k[L + 1] = q /\ \A i \in 0..L : k[i] = h[i]
  BY <1>1
<1>6. k \in [0..(L + 1) -> Replicas]
  BY <1>1, <1>4
<1>10. q = Apply(h[L], op)
  OBVIOUS
<1> HIDE DEF k, q, more, T, u, L
<1>7. \A i \in 0..(L + 1) : k[i].seq = r.seq + i /\ Sound(k[i].t)
  <2>1. \A i \in 0..L : k[i].seq = r.seq + i /\ Sound(k[i].t)
    BY <1>1, <1>5
  <2>2. k[L + 1].seq = r.seq + (L + 1) /\ Sound(k[L + 1].t)
    <3>0. seq = r.seq + L /\ r.seq \in Nat /\ L \in Nat
      BY <1>1, <1>3
    <3>1. seq + 1 = r.seq + (L + 1)
      BY <3>0
    <3>2. k[L + 1] = q /\ q.seq = seq + 1 /\ Sound(q.t)
      BY <1>4, <1>5
    <3> QED
      BY <3>1, <3>2
  <2>3. \A i \in 0..(L + 1) : i \in 0..L \/ i = L + 1
    BY <1>1
  <2> QED
    BY <2>1, <2>2, <2>3
<1>8. \A i \in 1..(L + 1) : /\ more[i].seq = r.seq + i
                            /\ k[i] = Apply(k[i - 1], more[i])
                            /\ KeepsTombstones(k[i - 1].t, k[i].t)
  <2> SUFFICES ASSUME NEW i \in 1..(L + 1)
               PROVE  /\ more[i].seq = r.seq + i
                      /\ k[i] = Apply(k[i - 1], more[i])
                      /\ KeepsTombstones(k[i - 1].t, k[i].t)
    OBVIOUS
  <2>1. CASE i \in 1..L
    <3>1. k[i] = h[i] /\ k[i - 1] = h[i - 1] /\ more[i] = ops[i]
      BY <1>1, <1>2, <1>5, <2>1
    <3> QED
      BY <1>1, <2>1, <3>1
  <2>2. CASE i = L + 1
    <3>1. k[i] = q /\ k[i - 1] = h[L] /\ more[i] = op
      BY <1>1, <1>2, <1>5, <2>2
    <3>2. more[i].seq = r.seq + i
      BY <1>1, <1>3, <2>2, <3>1
    <3>3. k[i] = Apply(k[i - 1], more[i])
      BY <3>1, <1>10
    <3> QED
      BY <1>4, <3>1, <3>2, <3>3
  <2> QED
    BY <1>1, <2>1, <2>2
<1>9. Chain(k, T, more, r, seq + 1, u)
  BY <1>1, <1>2, <1>3, <1>4, <1>5, <1>6, <1>7, <1>8 DEF Chain, L
<1> QED
  BY <1>4, <1>9 DEF more, u

(* The next operation folded takes one state from it.                       *)
LEMMA ChainShrinks ==
  ASSUME NEW h, NEW S, NEW ops, NEW r, NEW seq, NEW t, Chain(h, S, ops, r, seq, t), Len(ops) > 0
  PROVE  /\ Apply(r, ops[1]) = h[1] /\ h[1] \in Replicas /\ h[1].seq = r.seq + 1
         /\ KeepsTombstones(r.t, h[1].t) /\ Sound(h[1].t)
         /\ \E k : Chain(k, S, SubSeq(ops, 2, Len(ops)), h[1], seq, t)
<1> DEFINE L == Len(ops)
           k == [i \in 0..(L - 1) |-> h[i + 1]]
           less == SubSeq(ops, 2, L)
<1>1. /\ ops \in Seq(S) /\ L \in Nat /\ seq = r.seq + L
      /\ h \in [0..L -> Replicas] /\ h[0] = r
      /\ \A i \in 0..L : h[i].seq = r.seq + i /\ Sound(h[i].t)
      /\ \A i \in 1..L : /\ ops[i].seq = r.seq + i
                         /\ h[i] = Apply(h[i - 1], ops[i])
                         /\ KeepsTombstones(h[i - 1].t, h[i].t)
      /\ LikeTables(h[L].t, t)
  BY DEF Chain
<1>2. less \in Seq(S) /\ Len(less) = L - 1 /\ \A i \in 1..(L - 1) : less[i] = ops[i + 1]
  <2>1. 2 \in Int /\ L \in Int /\ \A i \in 2..L : ops[i] \in S
    BY <1>1
  <2>2. /\ less \in Seq(S) /\ Len(less) = IF 2 <= L THEN L - 2 + 1 ELSE 0
        /\ \A i \in 1..(L - 2 + 1) : less[i] = ops[2 + i - 1]
    BY <1>1, <2>1, SubSeqProperties
  <2>3. \A i \in 1..(L - 1) : 2 + i - 1 = i + 1 /\ i \in 1..(L - 2 + 1)
    BY <1>1
  <2>4. \A i \in 1..(L - 1) : less[i] = ops[i + 1]
    BY <2>2, <2>3
  <2>5. L \in Nat /\ L > 0
    BY <1>1
  <2>6. Len(less) = L - 1
    <3> HIDE DEF L, less
    <3> QED
      BY <2>2, <2>5
  <2> QED
    BY <2>2, <2>4, <2>6
<1>3. /\ Apply(r, ops[1]) = h[1] /\ h[1] \in Replicas /\ h[1].seq = r.seq + 1
      /\ KeepsTombstones(r.t, h[1].t) /\ Sound(h[1].t) /\ r.seq \in Nat
  BY <1>1 DEF Replicas
<1>4. k \in [0..(L - 1) -> Replicas] /\ \A i \in 0..(L - 1) : k[i] = h[i + 1]
  BY <1>1
<1> HIDE DEF k, less
<1>5. \A i \in 0..(L - 1) : k[i].seq = h[1].seq + i /\ Sound(k[i].t)
  <2> SUFFICES ASSUME NEW i \in 0..(L - 1)
               PROVE  k[i].seq = h[1].seq + i /\ Sound(k[i].t)
    OBVIOUS
  <2>1. i + 1 \in 0..L /\ k[i] = h[i + 1]
    BY <1>1, <1>4
  <2>2. h[i + 1].seq = r.seq + (i + 1) /\ Sound(h[i + 1].t)
    BY <1>1, <2>1
  <2> QED
    BY <1>3, <2>1, <2>2
<1>6. \A i \in 1..(L - 1) : /\ less[i].seq = h[1].seq + i
                            /\ k[i] = Apply(k[i - 1], less[i])
                            /\ KeepsTombstones(k[i - 1].t, k[i].t)
  <2> SUFFICES ASSUME NEW i \in 1..(L - 1)
               PROVE  /\ less[i].seq = h[1].seq + i
                      /\ k[i] = Apply(k[i - 1], less[i])
                      /\ KeepsTombstones(k[i - 1].t, k[i].t)
    OBVIOUS
  <2>1. i + 1 \in 1..L /\ (i + 1) - 1 = i
    BY <1>1
  <2>2. k[i] = h[i + 1] /\ k[i - 1] = h[i] /\ less[i] = ops[i + 1]
    BY <1>1, <1>2, <1>4
  <2>3. /\ ops[i + 1].seq = r.seq + (i + 1)
        /\ h[i + 1] = Apply(h[i], ops[i + 1])
        /\ KeepsTombstones(h[i].t, h[i + 1].t)
    BY <1>1, <2>1
  <2> QED
    BY <1>3, <2>2, <2>3
<1>7. k[0] = h[1] /\ k[L - 1] = h[L] /\ seq = h[1].seq + (L - 1)
  BY <1>1, <1>3, <1>4
<1>8. Chain(k, S, less, h[1], seq, t)
  BY <1>1, <1>2, <1>4, <1>5, <1>6, <1>7 DEF Chain
<1> QED
  BY <1>3, <1>8 DEF less

(* It is what Fold computes: two ways to fold the same operations can first *)
(* differ nowhere.                                                          *)
LEMMA FoldIsChain ==
  ASSUME NEW h, NEW S, NEW ops, NEW r, NEW seq, NEW t, Chain(h, S, ops, r, seq, t)
  PROVE  Fold(r, ops) = h[Len(ops)]
<1> DEFINE L == Len(ops)
           f == CHOOSE f : f = [i \in 0..L |-> IF i = 0 THEN r ELSE Apply(f[i - 1], ops[i])]
<1>1. /\ L \in Nat /\ h \in [0..L -> Replicas] /\ h[0] = r
      /\ \A i \in 1..L : h[i] = Apply(h[i - 1], ops[i])
  BY DEF Chain
<1>2. Fold(r, ops) = f[L]
  BY DEF Fold
<1>3. h = [i \in 0..L |-> IF i = 0 THEN r ELSE Apply(h[i - 1], ops[i])]
  <2>1. \A i \in 0..L : h[i] = IF i = 0 THEN r ELSE Apply(h[i - 1], ops[i])
    BY <1>1
  <2> QED
    BY <1>1, <2>1
<1>4. f = [i \in 0..L |-> IF i = 0 THEN r ELSE Apply(f[i - 1], ops[i])]
  BY <1>3
<1> HIDE DEF f, L
<1> DEFINE T == {i \in 0..L : f[i] # h[i]}
<1>5. T = {}
  <2> SUFFICES ASSUME T # {} PROVE FALSE
    OBVIOUS
  <2>1. T \subseteq Nat
    BY <1>1
  <2>2. PICK n \in T : \A m \in T : n <= m
    <3> HIDE DEF T
    <3> QED
      BY <2>1, Least
  <2>3. n \in 0..L /\ f[n] # h[n]
    OBVIOUS
  <2>4. f[n] = IF n = 0 THEN r ELSE Apply(f[n - 1], ops[n])
    BY <1>4, <2>3
  <2>5. h[n] = IF n = 0 THEN r ELSE Apply(h[n - 1], ops[n])
    BY <1>3, <2>3
  <2>6. n # 0
    BY <2>3, <2>4, <2>5
  <2>7. n - 1 \in 0..L /\ ~(n <= n - 1)
    BY <1>1, <2>3, <2>6
  <2>8. n - 1 \notin T
    <3> HIDE DEF T
    <3> QED
      BY <2>2, <2>7
  <2>9. f[n - 1] = h[n - 1]
    BY <2>7, <2>8
  <2> QED
    BY <2>3, <2>4, <2>5, <2>6, <2>9
<1>6. L \in 0..L /\ L \notin T
  BY <1>1, <1>5
<1>7. f[L] = h[L]
  BY <1>6
<1> QED
  BY <1>2, <1>7 DEF L

-----------------------------------------------------------------------------
(***************************************************************************)
(* The inductive invariant.                                                *)
(***************************************************************************)
FoldFollows == \E h, S : Chain(h, S, feed, replica, opSeq, db)

(* What a member has on the screen of a ledger entry is an older row of it, *)
(* or the row, and the version tells which.                                 *)
SeenInv ==
    \A u \in Users, e \in Entries :
        seen[u][e] # Nil =>
            /\ db.budgets[e] # Nil
            /\ seen[u][e].version <= db.budgets[e].version
            /\ seen[u][e].version = db.budgets[e].version => seen[u][e] = db.budgets[e]

Typed ==
    /\ db \in AllTables
    /\ opSeq \in 0..MaxSeq
    /\ seen \in [Users -> [Entries -> OrNil(BudgetRows)]]

Inv == Typed /\ Sound(db) /\ SelectionsHold(db) /\ SeenInv /\ FoldFollows

(* A row written with the one operation that says so.                       *)
Writes(u, n, id, new, op) ==
    /\ Follows(db, n, id, new, op)
    /\ op.seq = opSeq + 1 /\ op.actor = u
    /\ db' = Put(db, n, id, new)
    /\ opSeq' = opSeq + 1 /\ opSeq' <= MaxSeq
    /\ feed' = Append(feed, op)
    /\ UNCHANGED replica

(* The numbered operation that records a row.                               *)
LEMMA Recorded ==
  ASSUME NEW u, NEW kind, NEW id, NEW row, NEW fields, NEW q,
         NEW op, op = Numbered(Record(u, kind, id, row, fields), q)
  PROVE  /\ op.seq = q /\ op.kind = kind /\ op.entity = id /\ op.actor = u
         /\ DOMAIN op.fields = MaskFor(kind, fields)
         /\ op.fields = Restrict(row, DOMAIN op.fields)
         /\ op.version = PayloadVersion(row)
  BY DEF Numbered, Record, BuildPayload, Restrict

(* A call that records one row writes it, when the row is what the kind of  *)
(* operation is about.                                                      *)
LEMMA OneRecorded ==
  ASSUME Inv, NEW u, NEW kind, NEW n \in TableNames, NEW id \in Ids[n], NEW row \in Rows[n], NEW fields,
         Write(Put(db, n, id, row), <<Record(u, kind, id, row, fields)>>),
         Entity(kind) = n, AllowedFields[kind] \subseteq Columns[n],
         db[n][id] = Nil => kind \in Creating,
         RowSound(n, row),
         n # "votes" => db[n][id] = Nil \/ db[n][id].deleted_at = Nil,
         \A op : op.kind = kind /\ op.actor = u =>
            \A f \in Columns[n] \ MaskFor(kind, fields) :
               f # "version" => row[f] = (IF db[n][id] = Nil THEN Blank(op) ELSE db[n][id])[f]
  PROVE  \E op : op.kind = kind /\ Writes(u, n, id, row, op)
<1> DEFINE rec == Record(u, kind, id, row, fields)
           op == Numbered(rec, opSeq + 1)
           ops == <<rec>>
<1>1. PICK h, S : Chain(h, S, feed, replica, opSeq, db)
  BY DEF Inv, FoldFollows
<1>2. feed \in Seq(S) /\ opSeq \in Nat
  BY <1>1, ItineraryAssumption DEF Chain, Inv, Typed
<1>3. /\ op.seq = opSeq + 1 /\ op.kind = kind /\ op.entity = id /\ op.actor = u
      /\ DOMAIN op.fields = MaskFor(kind, fields)
      /\ op.fields = Restrict(row, DOMAIN op.fields)
      /\ op.version = PayloadVersion(row)
  BY Recorded
<1>4. rec.kind = kind /\ DOMAIN rec.fields = MaskFor(kind, fields)
  BY DEF Record, BuildPayload, Restrict
<1> HIDE DEF rec
<1>5. Len(ops) = 1 /\ DOMAIN ops = {1} /\ ops[1] = rec
  OBVIOUS
<1>6. /\ MaskValid(kind, MaskFor(kind, fields)) /\ opSeq + 1 <= MaxSeq
      /\ db' = Put(db, n, id, row) /\ opSeq' = opSeq + 1 /\ UNCHANGED replica
      /\ feed' = feed \o [i \in {1} |-> Numbered(ops[i], opSeq + i)]
  BY <1>4, <1>5 DEF Write, rec
<1>7. feed' = Append(feed, op)
  <2>1. [i \in {1} |-> Numbered(ops[i], opSeq + i)] = <<op>>
    <3>1. Numbered(ops[1], opSeq + 1) = op
      BY <1>5
    <3> HIDE DEF op
    <3> QED
      BY <3>1
  <2> HIDE DEF op
  <2>2. feed \in Seq(S \cup {op})
    BY <1>2
  <2>3. Append(feed, op) = feed \o <<op>>
    BY <2>2, AppendIsConcat
  <2> QED
    BY <1>6, <2>1, <2>3
<1>8. DOMAIN op.fields \subseteq Columns[n]
  BY <1>3, <1>6 DEF MaskValid
<1> HIDE DEF op
<1>9. Carries(n, op, db[n][id], row)
  BY <1>3, <1>8 DEF Carries
<1>10. Follows(db, n, id, row, op)
  BY <1>3, <1>9 DEF Follows
<1> QED
  BY <1>3, <1>6, <1>7, <1>10 DEF Writes

-----------------------------------------------------------------------------
(* What each kind of operation is about.                                    *)
LEMMA Kinds ==
  /\ \A k \in {"day_create", "day_edit", "day_move", "day_delete"} :
        Entity(k) = "days" /\ AllowedFields[k] \subseteq Columns["days"]
  /\ \A k \in {"slot_create", "slot_edit", "slot_move", "slot_select_option", "slot_set_status",
               "slot_delete"} :
        Entity(k) = "slots" /\ AllowedFields[k] \subseteq Columns["slots"]
  /\ \A k \in {"option_create", "option_edit", "option_delete"} :
        Entity(k) = "options" /\ AllowedFields[k] \subseteq Columns["options"]
  /\ Entity("vote_set") = "votes" /\ AllowedFields["vote_set"] \subseteq Columns["votes"]
  /\ \A k \in {"budget_set", "budget_delete"} :
        Entity(k) = "budgets" /\ AllowedFields[k] \subseteq Columns["budgets"]
  /\ \A k \in {"comment_create", "comment_delete"} :
        Entity(k) = "comments" /\ AllowedFields[k] \subseteq Columns["comments"]
<1>1. \A k \in {"day_create", "day_edit", "day_move", "day_delete"} :
        Entity(k) = "days" /\ AllowedFields[k] \subseteq Columns["days"]
  BY DEF Entity, AllowedFields, Columns
<1>2. \A k \in {"slot_create", "slot_edit", "slot_move", "slot_select_option", "slot_set_status",
               "slot_delete"} :
        Entity(k) = "slots" /\ AllowedFields[k] \subseteq Columns["slots"]
  BY DEF Entity, AllowedFields, Columns
<1>3. \A k \in {"option_create", "option_edit", "option_delete"} :
        Entity(k) = "options" /\ AllowedFields[k] \subseteq Columns["options"]
  BY DEF Entity, AllowedFields, Columns
<1>4. Entity("vote_set") = "votes" /\ AllowedFields["vote_set"] \subseteq Columns["votes"]
  BY DEF Entity, AllowedFields, Columns
<1>5. \A k \in {"budget_set", "budget_delete"} :
        Entity(k) = "budgets" /\ AllowedFields[k] \subseteq Columns["budgets"]
  BY DEF Entity, AllowedFields, Columns
<1>6. \A k \in {"comment_create", "comment_delete"} :
        Entity(k) = "comments" /\ AllowedFields[k] \subseteq Columns["comments"]
  BY DEF Entity, AllowedFields, Columns
<1> QED
  BY <1>1, <1>2, <1>3, <1>4, <1>5, <1>6

(* The rows a call finds.                                                   *)
LEMMA RowsFound ==
  ASSUME Inv
  PROVE  /\ \A d \in Days : db.days[d] # Nil => db.days[d] \in DayRows
         /\ \A s \in Slots : db.slots[s] # Nil => db.slots[s] \in SlotRows
         /\ \A o \in Options : db.options[o] # Nil => db.options[o] \in OptionRows
         /\ \A v \in Slots \X Users : db.votes[v] # Nil => db.votes[v] \in VoteRows
         /\ \A e \in Entries : db.budgets[e] # Nil => db.budgets[e] \in BudgetRows
         /\ \A c \in Comments : db.comments[c] # Nil => db.comments[c] \in CommentRows
  BY DEF Inv, Typed, AllTables, OrNil

(* A row with the columns of its table and values they allow.               *)
LEMMA DayRowIs ==
  ASSUME NEW x, HasColumns("days", x), x.date \in OrNil(Dates), x.position \in Keys,
         x.version \in Versions, x.deleted_at \in Tombstone
  PROVE  x \in DayRows
<1>1. x = [date |-> x.date, position |-> x.position, version |-> x.version, deleted_at |-> x.deleted_at]
  BY DEF HasColumns, Columns
<1> QED
  BY <1>1 DEF DayRows

(* The rows the statements on days leave.                                   *)
LEMMA DayStatements ==
  /\ \A date \in OrNil(Dates), key \in Keys : CreateDay(date, key) \in DayRows
  /\ \A row \in DayRows, date \in OrNil(Dates), key \in Keys : UpdateDay(row, date, key) \in DayRows
  /\ \A row \in DayRows : SoftDeleteDay(row) \in DayRows
<1>1. 1 \in Versions /\ Nil \in Tombstone /\ "set" \in Tombstone
  BY DEF Versions, Tombstone
<1>2. ASSUME NEW date \in OrNil(Dates), NEW key \in Keys
      PROVE  CreateDay(date, key) \in DayRows
  <2> DEFINE x == CreateDay(date, key)
  <2>0. HasColumns("days", DayRow)
    BY DEF DayRow, HasColumns, Columns
  <2>3. \A b : HasColumns("days", b)
                => HasColumns("days", [b EXCEPT !.date = date, !.position = key, !.version = 1])
    BY DEF HasColumns
  <2>1. HasColumns("days", x)
    BY <2>0, <2>3, Zenon DEF CreateDay
  <2>2. x.date = date /\ x.position = key /\ x.version = 1 /\ x.deleted_at = Nil
    BY DEF CreateDay, DayRow
  <2> HIDE DEF x
  <2> QED
    BY <1>1, <2>1, <2>2, DayRowIs DEF x
<1>3. ASSUME NEW row \in DayRows
      PROVE  /\ HasColumns("days", row)
             /\ row.version + 1 \in Versions /\ row.deleted_at \in Tombstone
             /\ row.date \in OrNil(Dates) /\ row.position \in Keys
  <2>1. "days" \in TableNames /\ Rows["days"] = DayRows
    BY NameCases DEF TableNames
  <2>2. HasColumns("days", row)
    BY <2>1, RowColumns
  <2>3. /\ row.version + 1 \in Versions /\ row.deleted_at \in Tombstone
        /\ row.date \in OrNil(Dates) /\ row.position \in Keys
    BY DEF DayRows, Versions
  <2> QED
    BY <2>2, <2>3
<1>4. ASSUME NEW row \in DayRows, NEW date \in OrNil(Dates), NEW key \in Keys
      PROVE  UpdateDay(row, date, key) \in DayRows
  <2> DEFINE x == UpdateDay(row, date, key)
  <2>1. HasColumns("days", x)
    BY <1>3 DEF UpdateDay, HasColumns
  <2>2. /\ x.date = date /\ x.position = key /\ x.version = row.version + 1
        /\ x.deleted_at = row.deleted_at
    BY <1>3 DEF UpdateDay, HasColumns, Columns
  <2> HIDE DEF x
  <2> QED
    BY <1>3, <2>1, <2>2, DayRowIs DEF x
<1>5. ASSUME NEW row \in DayRows
      PROVE  SoftDeleteDay(row) \in DayRows
  <2> DEFINE x == SoftDeleteDay(row)
  <2>1. HasColumns("days", x)
    BY <1>3 DEF SoftDeleteDay, HasColumns
  <2>2. /\ x.date = row.date /\ x.position = row.position /\ x.version = row.version + 1
        /\ x.deleted_at = "set"
    BY <1>3 DEF SoftDeleteDay, HasColumns, Columns
  <2> HIDE DEF x
  <2> QED
    BY <1>1, <1>3, <2>1, <2>2, DayRowIs DEF x
<1> QED
  BY <1>2, <1>4, <1>5

(* One row outside the ledger is written: a slot that selects one of its    *)
(* options, or an option that stays with its slot and, if it is deleted, is *)
(* not selected by it.                                                      *)
RowStep(u) ==
    \E n \in TableNames \ {"budgets"} : \E id, new, op :
        /\ Writes(u, n, id, new, op) /\ UNCHANGED seen
        /\ n = "slots" => OptionOfSlot(db, new.selected_option_id, id)
        /\ n = "options" =>
              /\ db.options[id] # Nil => new.slot_id = db.options[id].slot_id
              /\ new.deleted_at = Nil \/ db.slots[new.slot_id].selected_option_id # id

(* Only columns of the mask moved.                                          *)
Unmoved(cols, mask, row, base) == \A f \in cols : f \in mask \/ row[f] = base[f]

(* Days.                                                                    *)
LEMMA DayWritten ==
  ASSUME Inv, NEW u, NEW d \in Days, NEW row \in DayRows, NEW kind, NEW fields,
         kind \in {"day_create", "day_edit", "day_move", "day_delete"},
         Write(PutDay(db, d, row), <<Record(u, kind, d, row, fields)>>), UNCHANGED seen,
         db.days[d] = Nil => kind = "day_create",
         db.days[d] = Nil \/ db.days[d].deleted_at = Nil,
         NEW base, base = IF db.days[d] = Nil THEN DayRow ELSE db.days[d],
         Unmoved({"date", "position", "deleted_at"}, MaskFor(kind, fields), row, base)
  PROVE  RowStep(u)
<1>1. /\ "days" \in TableNames \ {"budgets"} /\ d \in Ids["days"] /\ row \in Rows["days"]
  BY NameCases DEF TableNames
<1>2. Entity(kind) = "days" /\ AllowedFields[kind] \subseteq Columns["days"]
  BY Kinds
<1>3. Put(db, "days", d, row) = PutDay(db, d, row)
  BY DEF Put, PutDay
<1>4. db["days"][d] = Nil => kind \in Creating
  BY DEF Creating
<1>5. RowSound("days", row)
  BY DEF RowSound
<1>6. \A op : op.kind = kind => Blank(op) = DayRow
  BY <1>2 DEF Blank
<1>7. \A op : op.kind = kind /\ op.actor = u =>
         \A f \in Columns["days"] \ MaskFor(kind, fields) :
            f # "version" => row[f] = (IF db["days"][d] = Nil THEN Blank(op) ELSE db["days"][d])[f]
  BY <1>6 DEF Columns, Unmoved
<1>8. \E op : Writes(u, "days", d, row, op)
  BY <1>1, <1>2, <1>3, <1>4, <1>5, <1>7, OneRecorded
<1> QED
  BY <1>1, <1>8 DEF RowStep

(* A day is created, edited, moved, deleted.                                *)
LEMMA DayCreateWrites ==
  ASSUME Inv, NEW u, NEW d \in Days, NEW in \in DayCreateRequests, NEW key \in Keys,
         DayCreate(u, d, in, key)
  PROVE  RowStep(u)
<1> DEFINE row == CreateDay(in.date, key)
<1>1. row \in DayRows
  BY DayStatements DEF DayCreateRequests
<1>2. MaskFor("day_create", {}) = {"date", "position"}
  BY DEF MaskFor, AllowedFields
<1>3. Unmoved({"date", "position", "deleted_at"}, MaskFor("day_create", {}), row, DayRow)
  BY <1>2 DEF CreateDay, DayRow, Unmoved
<1>4. /\ db.days[d] = Nil /\ UNCHANGED seen
      /\ Write(PutDay(db, d, row), <<Record(u, "day_create", d, row, {})>>)
  BY DEF DayCreate, Unseen
<1>5. DayRow = IF db.days[d] = Nil THEN DayRow ELSE db.days[d]
  BY <1>4
<1>6. "day_create" \in {"day_create", "day_edit", "day_move", "day_delete"}
  OBVIOUS
<1> HIDE DEF row
<1> QED
  BY <1>1, <1>3, <1>4, <1>5, <1>6, DayWritten

(* An edit of a day carries the columns of its mask.                        *)
LEMMA DayUpdateWrites ==
  ASSUME Inv, NEW u, NEW d \in Days, NEW in \in DayUpdateRequests, DayUpdate(u, d, in)
  PROVE  RowStep(u)
<1> DEFINE old == db.days[d]
           mask == MaskFor("day_edit", in.fields)
           row == UpdateDay(old, IF "date" \in mask THEN in.date ELSE old.date, old.position)
<1>1. old \in DayRows /\ old # Nil /\ old.deleted_at = Nil
  BY RowsFound DEF DayUpdate, DayLive
<1>2. row \in DayRows
  BY <1>1, DayStatements DEF DayRows, DayUpdateRequests
<1>3. Unmoved({"date", "position", "deleted_at"}, mask, row, old)
  BY <1>1 DEF UpdateDay, DayRows, Unmoved
<1>4. /\ UNCHANGED seen
      /\ Write(PutDay(db, d, row), <<Record(u, "day_edit", d, row, mask)>>)
  BY DEF DayUpdate, Unseen
<1>5. MaskFor("day_edit", mask) = mask
  BY DEF MaskFor
<1>6. old = IF db.days[d] = Nil THEN DayRow ELSE db.days[d]
  BY <1>1
<1> HIDE DEF row, mask
<1> QED
  BY <1>1, <1>2, <1>3, <1>4, <1>5, <1>6, DayWritten

(* A move of a day carries its position.                                    *)
LEMMA DayMoveWrites ==
  ASSUME Inv, NEW u, NEW d \in Days, NEW in \in DayMoveRequests, DayMove(u, d, in)
  PROVE  RowStep(u)
<1> DEFINE old == db.days[d]
           row == UpdateDay(old, old.date, in.key)
<1>1. old \in DayRows /\ old # Nil /\ old.deleted_at = Nil
  BY RowsFound DEF DayMove, DayLive
<1>2. row \in DayRows
  BY <1>1, DayStatements DEF DayRows, DayMoveRequests
<1>3. Unmoved({"date", "position", "deleted_at"}, {"position"}, row, old)
  BY <1>1 DEF UpdateDay, DayRows, Unmoved
<1>4. /\ UNCHANGED seen
      /\ Write(PutDay(db, d, row), <<Record(u, "day_move", d, row, {"position"})>>)
  BY DEF DayMove, Unseen
<1>5. MaskFor("day_move", {"position"}) = {"position"}
  BY DEF MaskFor
<1>6. old = IF db.days[d] = Nil THEN DayRow ELSE db.days[d]
  BY <1>1
<1> HIDE DEF row
<1> QED
  BY <1>1, <1>2, <1>3, <1>4, <1>5, <1>6, DayWritten

(* A deletion of a day carries its tombstone.                               *)
LEMMA DayDeleteWrites ==
  ASSUME Inv, NEW u, NEW d \in Days, NEW in, DayDelete(u, d, in)
  PROVE  RowStep(u)
<1> DEFINE old == db.days[d]
           row == SoftDeleteDay(old)
<1>1. old \in DayRows /\ old # Nil /\ old.deleted_at = Nil
  BY RowsFound DEF DayDelete, DayLive
<1>2. row \in DayRows
  BY <1>1, DayStatements
<1>3. Unmoved({"date", "position", "deleted_at"}, {"deleted_at"}, row, old)
  BY <1>1 DEF SoftDeleteDay, DayRows, Unmoved
<1>4. /\ UNCHANGED seen
      /\ Write(PutDay(db, d, row), <<Record(u, "day_delete", d, row, {"deleted_at"})>>)
  BY DEF DayDelete, Unseen
<1>5. MaskFor("day_delete", {"deleted_at"}) = {"deleted_at"}
  BY DEF MaskFor
<1>6. old = IF db.days[d] = Nil THEN DayRow ELSE db.days[d]
  BY <1>1
<1> HIDE DEF row
<1> QED
  BY <1>1, <1>2, <1>3, <1>4, <1>5, <1>6, DayWritten

(* Every call on a day writes one row.                                      *)
LEMMA DayStepWrites ==
  ASSUME Inv, NEW u, NEW d \in Days, DayStep(u, d)
  PROVE  RowStep(u)
<1>1. DayUpdateRequests \cup DayEditIntents = DayUpdateRequests
  BY DEF DayEditIntents
<1> QED
  BY <1>1, DayCreateWrites, DayUpdateWrites, DayMoveWrites, DayDeleteWrites DEF DayStep

-----------------------------------------------------------------------------
(* Slots.                                                                   *)
SlotData == {"day_id", "start_time", "end_time", "position", "selected_option_id", "status",
             "status_changed_by", "deleted_at"}

(* A record with the columns of a slot and values they allow is a row.      *)
LEMMA SlotRowIs ==
  ASSUME NEW x, HasColumns("slots", x), x.day_id \in OrNil(Days), x.start_time \in OrNil(Times),
         x.end_time \in OrNil(Times), x.position \in Keys, x.selected_option_id \in OrNil(Options),
         x.status \in Statuses \cup {"planned"}, x.status_changed_by \in OrNil(Users),
         x.version \in Versions, x.deleted_at \in Tombstone
  PROVE  x \in SlotRows
<1>1. x = [day_id |-> x.day_id, start_time |-> x.start_time, end_time |-> x.end_time,
           position |-> x.position, selected_option_id |-> x.selected_option_id,
           status |-> x.status, status_changed_by |-> x.status_changed_by,
           version |-> x.version, deleted_at |-> x.deleted_at]
  BY DEF HasColumns, Columns
<1> QED
  BY <1>1 DEF SlotRows

(* A row whose columns keep their values, but for some the table allows.    *)
LEMMA SlotKept ==
  ASSUME NEW row \in SlotRows, NEW x, HasColumns("slots", x),
         NEW moved, Unmoved(SlotData, moved, x, row), x.version = row.version + 1,
         "day_id" \in moved => x.day_id \in OrNil(Days),
         "start_time" \in moved => x.start_time \in OrNil(Times),
         "end_time" \in moved => x.end_time \in OrNil(Times),
         "position" \in moved => x.position \in Keys,
         "selected_option_id" \in moved => x.selected_option_id \in OrNil(Options),
         "status" \in moved => x.status \in Statuses \cup {"planned"},
         "status_changed_by" \in moved => x.status_changed_by \in OrNil(Users),
         "deleted_at" \in moved => x.deleted_at \in Tombstone
  PROVE  x \in SlotRows
<1>1. /\ row.day_id \in OrNil(Days) /\ row.start_time \in OrNil(Times)
      /\ row.end_time \in OrNil(Times) /\ row.position \in Keys
      /\ row.selected_option_id \in OrNil(Options)
      /\ row.status \in Statuses \cup {"planned"} /\ row.status_changed_by \in OrNil(Users)
      /\ row.version + 1 \in Versions /\ row.deleted_at \in Tombstone
  BY DEF SlotRows, Versions
<1>2. /\ "day_id" \in moved \/ x.day_id = row.day_id
      /\ "start_time" \in moved \/ x.start_time = row.start_time
      /\ "end_time" \in moved \/ x.end_time = row.end_time
      /\ "position" \in moved \/ x.position = row.position
      /\ "selected_option_id" \in moved \/ x.selected_option_id = row.selected_option_id
      /\ "status" \in moved \/ x.status = row.status
      /\ "status_changed_by" \in moved \/ x.status_changed_by = row.status_changed_by
      /\ "deleted_at" \in moved \/ x.deleted_at = row.deleted_at
  BY DEF Unmoved, SlotData
<1>3. /\ x.day_id \in OrNil(Days) /\ x.start_time \in OrNil(Times)
      /\ x.end_time \in OrNil(Times) /\ x.position \in Keys
      /\ x.selected_option_id \in OrNil(Options)
      /\ x.status \in Statuses \cup {"planned"} /\ x.status_changed_by \in OrNil(Users)
      /\ x.version \in Versions /\ x.deleted_at \in Tombstone
  BY <1>1, <1>2, Zenon
<1> QED
  BY <1>3, SlotRowIs

(* What the statements on slots change, and that they leave rows.           *)
LEMMA SlotCreated ==
  ASSUME NEW day \in OrNil(Days), NEW start \in OrNil(Times), NEW end \in OrNil(Times),
         NEW key \in Keys
  PROVE  /\ CreateSlot(day, start, end, key) \in SlotRows
         /\ Unmoved(SlotData, {"day_id", "start_time", "end_time", "position", "status"},
                    CreateSlot(day, start, end, key), SlotRow)
         /\ CreateSlot(day, start, end, key).selected_option_id = Nil
<1> DEFINE x == CreateSlot(day, start, end, key)
<1>1. 1 \in Versions /\ Nil \in Tombstone /\ Nil \in OrNil(Options) /\ Nil \in OrNil(Users)
  BY DEF Versions, Tombstone, OrNil
<1>2. HasColumns("slots", SlotRow)
  BY DEF SlotRow, HasColumns, Columns
<1>3. \A b : HasColumns("slots", b)
        => HasColumns("slots", [b EXCEPT !.day_id = day, !.start_time = start, !.end_time = end,
                                         !.position = key, !.status = "planned", !.version = 1])
  BY DEF HasColumns
<1>4. HasColumns("slots", x)
  BY <1>2, <1>3, Zenon DEF CreateSlot
<1>5. /\ x.day_id = day /\ x.start_time = start /\ x.end_time = end /\ x.position = key
      /\ x.selected_option_id = Nil /\ x.status = "planned" /\ x.status_changed_by = Nil
      /\ x.version = 1 /\ x.deleted_at = Nil
  BY DEF CreateSlot, SlotRow
<1>6. /\ SlotRow.selected_option_id = Nil /\ SlotRow.status_changed_by = Nil
      /\ SlotRow.deleted_at = Nil
  BY DEF SlotRow
<1> HIDE DEF x
<1>7. x \in SlotRows
  BY <1>1, <1>4, <1>5, SlotRowIs
<1>8. Unmoved(SlotData, {"day_id", "start_time", "end_time", "position", "status"}, x, SlotRow)
  BY <1>5, <1>6 DEF Unmoved, SlotData
<1> QED
  BY <1>5, <1>7, <1>8 DEF x

(* A slot has the columns of its table.                                     *)
LEMMA SlotColumns ==
  ASSUME NEW row \in SlotRows
  PROVE  HasColumns("slots", row)
<1>1. "slots" \in TableNames /\ Rows["slots"] = SlotRows
  BY NameCases DEF TableNames
<1> QED
  BY <1>1, RowColumns

(* UPDATE of the times.                                                     *)
LEMMA SlotUpdated ==
  ASSUME NEW row \in SlotRows, NEW start \in OrNil(Times), NEW end \in OrNil(Times),
         NEW x, x = UpdateSlot(row, start, end)
  PROVE  /\ x \in SlotRows /\ x.start_time = start /\ x.end_time = end
         /\ Unmoved(SlotData, {"start_time", "end_time"}, x, row)
<1>1. HasColumns("slots", row)
  BY SlotColumns
<1>2. HasColumns("slots", x)
  BY <1>1 DEF UpdateSlot, HasColumns
<1>3. /\ Unmoved(SlotData, {"start_time", "end_time"}, x, row)
      /\ x.start_time = start /\ x.end_time = end /\ x.version = row.version + 1
  BY <1>1 DEF UpdateSlot, HasColumns, Columns, Unmoved, SlotData
<1>4. x \in SlotRows
  BY <1>2, <1>3, SlotKept
<1> QED
  BY <1>3, <1>4

(* UPDATE of day and position.                                              *)
LEMMA SlotMoved ==
  ASSUME NEW row \in SlotRows, NEW day \in OrNil(Days), NEW key \in Keys,
         NEW x, x = MoveSlot(row, day, key)
  PROVE  x \in SlotRows /\ Unmoved(SlotData, {"day_id", "position"}, x, row)
<1>1. HasColumns("slots", row)
  BY SlotColumns
<1>2. HasColumns("slots", x)
  BY <1>1 DEF MoveSlot, HasColumns
<1>3. /\ Unmoved(SlotData, {"day_id", "position"}, x, row)
      /\ x.day_id = day /\ x.position = key /\ x.version = row.version + 1
  BY <1>1 DEF MoveSlot, HasColumns, Columns, Unmoved, SlotData
<1>4. x \in SlotRows
  BY <1>2, <1>3, SlotKept
<1> QED
  BY <1>3, <1>4

(* UPDATE of the selected option.                                           *)
LEMMA SlotSelected ==
  ASSUME NEW row \in SlotRows, NEW option \in OrNil(Options),
         NEW x, x = SetSlotSelectedOption(row, option)
  PROVE  /\ x \in SlotRows /\ x.selected_option_id = option
         /\ Unmoved(SlotData, {"selected_option_id"}, x, row)
<1>1. HasColumns("slots", row)
  BY SlotColumns
<1>2. HasColumns("slots", x)
  BY <1>1 DEF SetSlotSelectedOption, HasColumns
<1>3. /\ Unmoved(SlotData, {"selected_option_id"}, x, row)
      /\ x.selected_option_id = option /\ x.version = row.version + 1
  BY <1>1 DEF SetSlotSelectedOption, HasColumns, Columns, Unmoved, SlotData
<1>4. x \in SlotRows
  BY <1>2, <1>3, SlotKept
<1> QED
  BY <1>3, <1>4

(* UPDATE of the status and who set it.                                     *)
LEMMA SlotStatusSet ==
  ASSUME NEW row \in SlotRows, NEW status \in Statuses, NEW by \in Users,
         NEW x, x = SetSlotStatus(row, status, by)
  PROVE  x \in SlotRows /\ Unmoved(SlotData, {"status", "status_changed_by"}, x, row)
<1>1. HasColumns("slots", row)
  BY SlotColumns
<1>2. HasColumns("slots", x)
  BY <1>1 DEF SetSlotStatus, HasColumns
<1>3. /\ Unmoved(SlotData, {"status", "status_changed_by"}, x, row)
      /\ x.status = status /\ x.status_changed_by = by /\ x.version = row.version + 1
  BY <1>1 DEF SetSlotStatus, HasColumns, Columns, Unmoved, SlotData
<1>4. x.status \in Statuses \cup {"planned"} /\ x.status_changed_by \in OrNil(Users)
  BY <1>3 DEF OrNil
<1>5. x \in SlotRows
  BY <1>2, <1>3, <1>4, SlotKept
<1> QED
  BY <1>3, <1>5

(* UPDATE of the tombstone.                                                 *)
LEMMA SlotDeleted ==
  ASSUME NEW row \in SlotRows, NEW x, x = SoftDeleteSlot(row)
  PROVE  x \in SlotRows /\ Unmoved(SlotData, {"deleted_at"}, x, row)
<1>1. HasColumns("slots", row)
  BY SlotColumns
<1>2. HasColumns("slots", x)
  BY <1>1 DEF SoftDeleteSlot, HasColumns
<1>3. /\ Unmoved(SlotData, {"deleted_at"}, x, row)
      /\ x.deleted_at = "set" /\ x.version = row.version + 1
  BY <1>1 DEF SoftDeleteSlot, HasColumns, Columns, Unmoved, SlotData
<1>4. x.deleted_at \in Tombstone
  BY <1>3 DEF Tombstone
<1>5. x \in SlotRows
  BY <1>2, <1>3, <1>4, SlotKept
<1> QED
  BY <1>3, <1>5

(* A call that records one slot writes it, when the operation carries all   *)
(* that moved.                                                              *)
LEMMA SlotWritten ==
  ASSUME Inv, NEW u, NEW s \in Slots, NEW row \in SlotRows, NEW kind, NEW fields,
         kind \in {"slot_create", "slot_edit", "slot_move", "slot_select_option", "slot_set_status",
                   "slot_delete"},
         Write(PutSlot(db, s, row), <<Record(u, kind, s, row, fields)>>), UNCHANGED seen,
         db.slots[s] = Nil => kind = "slot_create",
         db.slots[s] = Nil \/ db.slots[s].deleted_at = Nil,
         TimesValid(row), OptionOfSlot(db, row.selected_option_id, s),
         NEW base, base = IF db.slots[s] = Nil THEN SlotRow ELSE db.slots[s],
         Unmoved(SlotData, MaskFor(kind, fields), row, base)
  PROVE  RowStep(u)
<1>1. /\ "slots" \in TableNames \ {"budgets"} /\ s \in Ids["slots"] /\ row \in Rows["slots"]
  BY NameCases DEF TableNames
<1>2. Entity(kind) = "slots" /\ AllowedFields[kind] \subseteq Columns["slots"]
  BY Kinds
<1>3. Put(db, "slots", s, row) = PutSlot(db, s, row)
  BY DEF Put, PutSlot
<1>4. db["slots"][s] = Nil => kind \in Creating
  BY DEF Creating
<1>5. RowSound("slots", row)
  BY DEF RowSound
<1>6. \A op : op.kind = kind => Blank(op) = SlotRow
  BY <1>2 DEF Blank
<1>7. \A op : op.kind = kind /\ op.actor = u =>
         \A f \in Columns["slots"] \ MaskFor(kind, fields) :
            f # "version" => row[f] = (IF db["slots"][s] = Nil THEN Blank(op) ELSE db["slots"][s])[f]
  BY <1>6 DEF Columns, Unmoved, SlotData
<1>8. \E op : Writes(u, "slots", s, row, op)
  BY <1>1, <1>2, <1>3, <1>4, <1>5, <1>7, OneRecorded
<1> QED
  BY <1>1, <1>8 DEF RowStep

(* A slot whose times and selection a call leaves alone.                    *)
LEMMA SlotKeeps ==
  ASSUME Inv, NEW s \in Slots, db.slots[s] # Nil, NEW row, NEW moved, 
         Unmoved(SlotData, moved, row, db.slots[s])
  PROVE  /\ "start_time" \notin moved /\ "end_time" \notin moved => TimesValid(row)
         /\ "selected_option_id" \notin moved => OptionOfSlot(db, row.selected_option_id, s)
<1>1. TimesValid(db.slots[s]) /\ OptionOfSlot(db, db.slots[s].selected_option_id, s)
  BY DEF Inv, Sound, TimesHold, SelectionsHold
<1>2. /\ "start_time" \notin moved => row.start_time = db.slots[s].start_time
      /\ "end_time" \notin moved => row.end_time = db.slots[s].end_time
      /\ "selected_option_id" \notin moved => row.selected_option_id = db.slots[s].selected_option_id
  BY DEF Unmoved, SlotData
<1> QED
  BY <1>1, <1>2 DEF TimesValid

(* A slot is created, edited, moved, given an option or a status, deleted.  *)
LEMMA SlotCreateWrites ==
  ASSUME Inv, NEW u, NEW s \in Slots, NEW in \in SlotCreateRequests, NEW key \in Keys,
         SlotCreate(u, s, in, key)
  PROVE  RowStep(u)
<1> DEFINE row == CreateSlot(in.day_id, in.start, in.end, key)
<1>1. in.day_id \in OrNil(Days) /\ in.start \in OrNil(Times) /\ in.end \in OrNil(Times)
  BY DEF SlotCreateRequests
<1>2. MaskFor("slot_create", {}) = {"day_id", "start_time", "end_time", "position", "status"}
  BY DEF MaskFor, AllowedFields
<1>3. /\ row \in SlotRows /\ Unmoved(SlotData, MaskFor("slot_create", {}), row, SlotRow)
      /\ row.selected_option_id = Nil
  BY <1>1, <1>2, SlotCreated
<1>4. /\ db.slots[s] = Nil /\ UNCHANGED seen /\ TimesValid(row)
      /\ Write(PutSlot(db, s, row), <<Record(u, "slot_create", s, row, {})>>)
  BY DEF SlotCreate, Unseen
<1>5. SlotRow = IF db.slots[s] = Nil THEN SlotRow ELSE db.slots[s]
  BY <1>4
<1>6. OptionOfSlot(db, row.selected_option_id, s)
  BY <1>3 DEF OptionOfSlot
<1>7. "slot_create" \in {"slot_create", "slot_edit", "slot_move", "slot_select_option",
                         "slot_set_status", "slot_delete"}
  OBVIOUS
<1> HIDE DEF row
<1> QED
  BY <1>3, <1>4, <1>5, <1>6, <1>7, SlotWritten

(* An edit: the merged slot was validated, and the columns outside the mask *)
(* stayed.                                                                  *)
LEMMA SlotUpdateWrites ==
  ASSUME Inv, NEW u, NEW s \in Slots, NEW in \in SlotUpdateRequests, SlotUpdate(u, s, in)
  PROVE  RowStep(u)
<1> DEFINE old == db.slots[s]
           mask == MaskFor("slot_edit", in.fields)
           start == IF "start_time" \in mask THEN in.start ELSE old.start_time
           end == IF "end_time" \in mask THEN in.end ELSE old.end_time
           row == UpdateSlot(old, start, end)
<1>1. old \in SlotRows /\ old # Nil /\ old.deleted_at = Nil
  BY RowsFound DEF SlotUpdate, SlotLive
<1>2. start \in OrNil(Times) /\ end \in OrNil(Times)
  BY <1>1 DEF SlotRows, SlotUpdateRequests
<1>3. /\ UNCHANGED seen /\ TimesValid(row)
      /\ Write(PutSlot(db, s, row), <<Record(u, "slot_edit", s, row, mask)>>)
  BY DEF SlotUpdate, Unseen
<1>4. /\ "start_time" \notin mask => start = old.start_time
      /\ "end_time" \notin mask => end = old.end_time
  OBVIOUS
<1> HIDE DEF start, end
<1>5. /\ row \in SlotRows /\ row.start_time = start /\ row.end_time = end
      /\ Unmoved(SlotData, {"start_time", "end_time"}, row, old)
  BY <1>1, <1>2, SlotUpdated
<1>6. MaskFor("slot_edit", mask) = mask
  BY DEF MaskFor
<1>7. old = IF db.slots[s] = Nil THEN SlotRow ELSE db.slots[s]
  BY <1>1
<1> HIDE DEF row, mask
<1>8. Unmoved(SlotData, mask, row, old)
  BY <1>4, <1>5 DEF Unmoved, SlotData
<1>9. OptionOfSlot(db, row.selected_option_id, s)
  BY <1>1, <1>5, SlotKeeps
<1> QED
  BY <1>1, <1>3, <1>5, <1>6, <1>7, <1>8, <1>9, SlotWritten

(* A move carries the day with the position.                                *)
LEMMA SlotMoveWrites ==
  ASSUME Inv, NEW u, NEW s \in Slots, NEW in \in SlotMoveRequests, SlotMove(u, s, in)
  PROVE  RowStep(u)
<1> DEFINE old == db.slots[s]
           row == MoveSlot(old, in.day_id, in.key)
<1>1. old \in SlotRows /\ old # Nil /\ old.deleted_at = Nil
  BY RowsFound DEF SlotMove, SlotLive
<1>2. in.day_id \in OrNil(Days) /\ in.key \in Keys
  BY DEF SlotMoveRequests
<1>3. /\ row \in SlotRows /\ Unmoved(SlotData, {"day_id", "position"}, row, old)
  BY <1>1, <1>2, SlotMoved
<1>4. /\ UNCHANGED seen
      /\ Write(PutSlot(db, s, row),
               <<Record(u, "slot_move", s, row, {"day_id", "position"})>>)
  BY DEF SlotMove, Unseen
<1>5. MaskFor("slot_move", {"day_id", "position"}) = {"day_id", "position"}
  BY DEF MaskFor
<1>6. old = IF db.slots[s] = Nil THEN SlotRow ELSE db.slots[s]
  BY <1>1
<1> HIDE DEF row
<1>7. TimesValid(row) /\ OptionOfSlot(db, row.selected_option_id, s)
  BY <1>1, <1>3, SlotKeeps
<1> QED
  BY <1>1, <1>3, <1>4, <1>5, <1>6, <1>7, SlotWritten

(* A selection is of an option of the slot.                                 *)
LEMMA SetSelectedOptionWrites ==
  ASSUME Inv, NEW u, NEW s \in Slots, NEW in \in SelectOptionRequests, SetSelectedOption(u, s, in)
  PROVE  RowStep(u)
<1> DEFINE old == db.slots[s]
           row == SetSlotSelectedOption(old, in.option_id)
<1>1. old \in SlotRows /\ old # Nil /\ old.deleted_at = Nil
  BY RowsFound DEF SetSelectedOption, SlotLive
<1>2. in.option_id \in OrNil(Options) /\ OptionOfSlot(db, in.option_id, s)
  BY DEF SelectOptionRequests, SetSelectedOption
<1>3. /\ row \in SlotRows /\ Unmoved(SlotData, {"selected_option_id"}, row, old)
      /\ row.selected_option_id = in.option_id
  BY <1>1, <1>2, SlotSelected
<1>4. /\ UNCHANGED seen
      /\ Write(PutSlot(db, s, row),
               <<Record(u, "slot_select_option", s, row, {"selected_option_id"})>>)
  BY DEF SetSelectedOption, Unseen
<1>5. MaskFor("slot_select_option", {"selected_option_id"}) = {"selected_option_id"}
  BY DEF MaskFor
<1>6. old = IF db.slots[s] = Nil THEN SlotRow ELSE db.slots[s]
  BY <1>1
<1> HIDE DEF row
<1>7. TimesValid(row) /\ OptionOfSlot(db, row.selected_option_id, s)
  BY <1>1, <1>2, <1>3, SlotKeeps
<1> QED
  BY <1>1, <1>3, <1>4, <1>5, <1>6, <1>7, SlotWritten

(* A status carries who set it.                                             *)
LEMMA SetStatusWrites ==
  ASSUME Inv, NEW u \in Users, NEW s \in Slots, NEW in \in SetStatusRequests, SetStatus(u, s, in)
  PROVE  RowStep(u)
<1> DEFINE old == db.slots[s]
           row == SetSlotStatus(old, in.status, u)
<1>1. old \in SlotRows /\ old # Nil /\ old.deleted_at = Nil
  BY RowsFound DEF SetStatus, SlotLive
<1>2. in.status \in Statuses
  BY DEF SetStatusRequests
<1>3. /\ row \in SlotRows /\ Unmoved(SlotData, {"status", "status_changed_by"}, row, old)
  BY <1>1, <1>2, SlotStatusSet
<1>4. /\ UNCHANGED seen
      /\ Write(PutSlot(db, s, row),
               <<Record(u, "slot_set_status", s, row, {"status", "status_changed_by"})>>)
  BY DEF SetStatus, Unseen
<1>5. MaskFor("slot_set_status", {"status", "status_changed_by"}) = {"status", "status_changed_by"}
  BY DEF MaskFor
<1>6. old = IF db.slots[s] = Nil THEN SlotRow ELSE db.slots[s]
  BY <1>1
<1> HIDE DEF row
<1>7. TimesValid(row) /\ OptionOfSlot(db, row.selected_option_id, s)
  BY <1>1, <1>3, SlotKeeps
<1> QED
  BY <1>1, <1>3, <1>4, <1>5, <1>6, <1>7, SlotWritten

(* A deletion carries its tombstone.                                        *)
LEMMA SlotDeleteWrites ==
  ASSUME Inv, NEW u, NEW s \in Slots, NEW in, SlotDelete(u, s, in)
  PROVE  RowStep(u)
<1> DEFINE old == db.slots[s]
           row == SoftDeleteSlot(old)
<1>1. old \in SlotRows /\ old # Nil /\ old.deleted_at = Nil
  BY RowsFound DEF SlotDelete, SlotLive
<1>3. /\ row \in SlotRows /\ Unmoved(SlotData, {"deleted_at"}, row, old)
  BY <1>1, SlotDeleted
<1>4. /\ UNCHANGED seen
      /\ Write(PutSlot(db, s, row),
               <<Record(u, "slot_delete", s, row, {"deleted_at"})>>)
  BY DEF SlotDelete, Unseen
<1>5. MaskFor("slot_delete", {"deleted_at"}) = {"deleted_at"}
  BY DEF MaskFor
<1>6. old = IF db.slots[s] = Nil THEN SlotRow ELSE db.slots[s]
  BY <1>1
<1> HIDE DEF row
<1>7. TimesValid(row) /\ OptionOfSlot(db, row.selected_option_id, s)
  BY <1>1, <1>3, SlotKeeps
<1> QED
  BY <1>1, <1>3, <1>4, <1>5, <1>6, <1>7, SlotWritten

(* Every call on a slot writes one row.                                     *)
LEMMA SlotStepWrites ==
  ASSUME Inv, NEW u \in Users, NEW s \in Slots, SlotStep(u, s)
  PROVE  RowStep(u)
<1>1. SlotUpdateRequests \cup SlotEditIntents = SlotUpdateRequests
  BY DEF SlotEditIntents
<1> QED
  BY <1>1, SlotCreateWrites, SlotUpdateWrites, SlotMoveWrites, SetSelectedOptionWrites,
     SetStatusWrites, SlotDeleteWrites DEF SlotStep

-----------------------------------------------------------------------------
(* Options.                                                                 *)
OptionData == {"slot_id", "place_lat", "place_lng", "deleted_at"}

(* A record with the columns of an option and values they allow is a row.   *)
LEMMA OptionRowIs ==
  ASSUME NEW x, HasColumns("options", x), x.slot_id \in Slots, x.place_lat \in OrNil(Coordinates),
         x.place_lng \in OrNil(Coordinates), x.version \in Versions, x.deleted_at \in Tombstone
  PROVE  x \in OptionRows
<1>1. x = [slot_id |-> x.slot_id, place_lat |-> x.place_lat, place_lng |-> x.place_lng,
           version |-> x.version, deleted_at |-> x.deleted_at]
  BY DEF HasColumns, Columns
<1> QED
  BY <1>1 DEF OptionRows

(* An option has the columns of its table.                                  *)
LEMMA OptionColumns ==
  ASSUME NEW row \in OptionRows
  PROVE  HasColumns("options", row)
<1>1. "options" \in TableNames /\ Rows["options"] = OptionRows
  BY NameCases DEF TableNames
<1> QED
  BY <1>1, RowColumns

(* INSERT of an option.                                                     *)
LEMMA OptionCreated ==
  ASSUME NEW s \in Slots, NEW lat \in OrNil(Coordinates), NEW lng \in OrNil(Coordinates),
         NEW x, x = CreateSlotOption(s, lat, lng)
  PROVE  /\ x \in OptionRows /\ x.deleted_at = Nil
         /\ Unmoved(OptionData, {"slot_id", "place_lat", "place_lng"}, x, OptionRow)
<1>1. 1 \in Versions /\ Nil \in Tombstone
  BY DEF Versions, Tombstone
<1>2. HasColumns("options", OptionRow)
  BY DEF OptionRow, HasColumns, Columns
<1>3. \A b : HasColumns("options", b)
        => HasColumns("options", [b EXCEPT !.slot_id = s, !.place_lat = lat, !.place_lng = lng,
                                           !.version = 1])
  BY DEF HasColumns
<1>4. HasColumns("options", x)
  BY <1>2, <1>3, Zenon DEF CreateSlotOption
<1>5. /\ x.slot_id = s /\ x.place_lat = lat /\ x.place_lng = lng /\ x.version = 1
      /\ x.deleted_at = Nil
  BY DEF CreateSlotOption, OptionRow
<1>6. OptionRow.deleted_at = Nil
  BY DEF OptionRow
<1>7. x \in OptionRows
  BY <1>1, <1>4, <1>5, OptionRowIs
<1>8. Unmoved(OptionData, {"slot_id", "place_lat", "place_lng"}, x, OptionRow)
  BY <1>5, <1>6 DEF Unmoved, OptionData
<1> QED
  BY <1>5, <1>7, <1>8

(* UPDATE of the coordinates.                                               *)
LEMMA OptionUpdated ==
  ASSUME NEW row \in OptionRows, NEW lat \in OrNil(Coordinates), NEW lng \in OrNil(Coordinates),
         NEW x, x = UpdateSlotOption(row, lat, lng)
  PROVE  /\ x \in OptionRows /\ x.place_lat = lat /\ x.place_lng = lng
         /\ Unmoved(OptionData, {"place_lat", "place_lng"}, x, row)
<1>1. HasColumns("options", row)
  BY OptionColumns
<1>2. HasColumns("options", x)
  BY <1>1 DEF UpdateSlotOption, HasColumns
<1>3. /\ Unmoved(OptionData, {"place_lat", "place_lng"}, x, row)
      /\ x.place_lat = lat /\ x.place_lng = lng /\ x.version = row.version + 1
  BY <1>1 DEF UpdateSlotOption, HasColumns, Columns, Unmoved, OptionData
<1>4. /\ row.slot_id \in Slots /\ row.version + 1 \in Versions /\ row.deleted_at \in Tombstone
  BY DEF OptionRows, Versions
<1>5. x.slot_id = row.slot_id /\ x.deleted_at = row.deleted_at
  BY <1>3 DEF Unmoved, OptionData
<1>6. x \in OptionRows
  BY <1>2, <1>3, <1>4, <1>5, OptionRowIs
<1> QED
  BY <1>3, <1>6

(* UPDATE of the tombstone.                                                 *)
LEMMA OptionDeleted ==
  ASSUME NEW row \in OptionRows, NEW x, x = SoftDeleteSlotOption(row)
  PROVE  x \in OptionRows /\ Unmoved(OptionData, {"deleted_at"}, x, row)
<1>1. HasColumns("options", row)
  BY OptionColumns
<1>2. HasColumns("options", x)
  BY <1>1 DEF SoftDeleteSlotOption, HasColumns
<1>3. /\ Unmoved(OptionData, {"deleted_at"}, x, row)
      /\ x.deleted_at = "set" /\ x.version = row.version + 1
  BY <1>1 DEF SoftDeleteSlotOption, HasColumns, Columns, Unmoved, OptionData
<1>4. /\ row.slot_id \in Slots /\ row.version + 1 \in Versions /\ "set" \in Tombstone
      /\ row.place_lat \in OrNil(Coordinates) /\ row.place_lng \in OrNil(Coordinates)
  BY DEF OptionRows, Versions, Tombstone
<1>5. x.slot_id = row.slot_id /\ x.place_lat = row.place_lat /\ x.place_lng = row.place_lng
  BY <1>3 DEF Unmoved, OptionData
<1>6. x \in OptionRows
  BY <1>2, <1>3, <1>4, <1>5, OptionRowIs
<1> QED
  BY <1>3, <1>6

(* A call that records one option writes it, when the operation carries all *)
(* that moved.                                                              *)
LEMMA OptionWritten ==
  ASSUME Inv, NEW u, NEW o \in Options, NEW row \in OptionRows, NEW kind, NEW fields,
         kind \in {"option_create", "option_edit", "option_delete"},
         Write(PutOption(db, o, row), <<Record(u, kind, o, row, fields)>>), UNCHANGED seen,
         db.options[o] = Nil => kind = "option_create",
         db.options[o] = Nil \/ db.options[o].deleted_at = Nil,
         db.options[o] # Nil => row.slot_id = db.options[o].slot_id,
         row.deleted_at = Nil \/ db.slots[row.slot_id].selected_option_id # o,
         NEW base, base = IF db.options[o] = Nil THEN OptionRow ELSE db.options[o],
         Unmoved(OptionData, MaskFor(kind, fields), row, base)
  PROVE  RowStep(u)
<1>1. /\ "options" \in TableNames \ {"budgets"} /\ o \in Ids["options"] /\ row \in Rows["options"]
  BY NameCases DEF TableNames
<1>2. Entity(kind) = "options" /\ AllowedFields[kind] \subseteq Columns["options"]
  BY Kinds
<1>3. Put(db, "options", o, row) = PutOption(db, o, row)
  BY DEF Put, PutOption
<1>4. db["options"][o] = Nil => kind \in Creating
  BY DEF Creating
<1>5. RowSound("options", row)
  BY DEF RowSound
<1>6. \A op : op.kind = kind => Blank(op) = OptionRow
  BY <1>2 DEF Blank
<1>7. \A op : op.kind = kind /\ op.actor = u =>
         \A f \in Columns["options"] \ MaskFor(kind, fields) :
            f # "version" =>
               row[f] = (IF db["options"][o] = Nil THEN Blank(op) ELSE db["options"][o])[f]
  BY <1>6 DEF Columns, Unmoved, OptionData
<1>8. \E op : Writes(u, "options", o, row, op)
  BY <1>1, <1>2, <1>3, <1>4, <1>5, <1>7, OneRecorded
<1> QED
  BY <1>1, <1>8 DEF RowStep

(* A new option is written whole.                                           *)
LEMMA OptionCreateWrites ==
  ASSUME Inv, NEW u, NEW o \in Options, NEW s \in Slots, NEW in \in OptionCreateRequests,
         OptionCreate(u, o, s, in)
  PROVE  RowStep(u)
<1> DEFINE row == CreateSlotOption(s, in.lat, in.lng)
<1>1. in.lat \in OrNil(Coordinates) /\ in.lng \in OrNil(Coordinates)
  BY DEF OptionCreateRequests
<1>2. MaskFor("option_create", {}) = {"slot_id", "place_lat", "place_lng"}
  BY DEF MaskFor, AllowedFields
<1>3. /\ row \in OptionRows /\ row.deleted_at = Nil
      /\ Unmoved(OptionData, MaskFor("option_create", {}), row, OptionRow)
  BY <1>1, <1>2, OptionCreated
<1>4. /\ db.options[o] = Nil /\ UNCHANGED seen
      /\ Write(PutOption(db, o, row), <<Record(u, "option_create", o, row, {})>>)
  BY DEF OptionCreate, Unseen
<1>5. OptionRow = IF db.options[o] = Nil THEN OptionRow ELSE db.options[o]
  BY <1>4
<1>6. "option_create" \in {"option_create", "option_edit", "option_delete"}
  OBVIOUS
<1> HIDE DEF row
<1> QED
  BY <1>3, <1>4, <1>5, <1>6, OptionWritten

(* An edit of an option keeps its slot.                                     *)
LEMMA OptionUpdateWrites ==
  ASSUME Inv, NEW u, NEW o \in Options, NEW in \in OptionUpdateRequests, OptionUpdate(u, o, in)
  PROVE  RowStep(u)
<1> DEFINE old == db.options[o]
           mask == MaskFor("option_edit", in.fields)
           lat == IF "place_lat" \in mask THEN in.lat ELSE old.place_lat
           lng == IF "place_lng" \in mask THEN in.lng ELSE old.place_lng
           row == UpdateSlotOption(old, lat, lng)
<1>1. old \in OptionRows /\ old # Nil /\ old.deleted_at = Nil
  BY RowsFound DEF OptionUpdate, OptionLive
<1>2. lat \in OrNil(Coordinates) /\ lng \in OrNil(Coordinates)
  BY <1>1 DEF OptionRows, OptionUpdateRequests
<1>3. /\ UNCHANGED seen
      /\ Write(PutOption(db, o, row), <<Record(u, "option_edit", o, row, mask)>>)
  BY DEF OptionUpdate, Unseen
<1>4. /\ "place_lat" \notin mask => lat = old.place_lat
      /\ "place_lng" \notin mask => lng = old.place_lng
  OBVIOUS
<1> HIDE DEF lat, lng
<1>5. /\ row \in OptionRows /\ row.place_lat = lat /\ row.place_lng = lng
      /\ Unmoved(OptionData, {"place_lat", "place_lng"}, row, old)
  BY <1>1, <1>2, OptionUpdated
<1>6. MaskFor("option_edit", mask) = mask
  BY DEF MaskFor
<1>7. old = IF db.options[o] = Nil THEN OptionRow ELSE db.options[o]
  BY <1>1
<1> HIDE DEF row, mask
<1>8. Unmoved(OptionData, mask, row, old)
  BY <1>4, <1>5 DEF Unmoved, OptionData
<1>9. row.slot_id = old.slot_id /\ row.deleted_at = Nil
  BY <1>1, <1>5 DEF Unmoved, OptionData
<1> QED
  BY <1>1, <1>3, <1>5, <1>6, <1>7, <1>8, <1>9, OptionWritten

(* A selected option is deleted: two rows are written, with an operation    *)
(* each.                                                                    *)
Cascades(u, o, s, row, cleared, first, second) ==
    /\ Follows(db, "options", o, row, first)
    /\ Follows(Put(db, "options", o, row), "slots", s, cleared, second)
    /\ first.seq = opSeq + 1 /\ second.seq = opSeq + 2
    /\ first.actor = u /\ second.actor = u
    /\ db' = Put(Put(db, "options", o, row), "slots", s, cleared)
    /\ opSeq' = opSeq + 2 /\ opSeq' <= MaxSeq
    /\ feed' = Append(Append(feed, first), second)
    /\ UNCHANGED <<replica, seen>>
    /\ db.options[o] # Nil /\ row.slot_id = s /\ db.options[o].slot_id = s
    /\ cleared.selected_option_id = Nil

CascadeStep(u) ==
    \E o \in Options, s \in Slots : \E row, cleared, first, second :
        Cascades(u, o, s, row, cleared, first, second)

(* The two operations carry what the two rows changed.                      *)
LEMMA CascadeRecorded ==
  ASSUME Inv, NEW u, NEW o \in Options, NEW s \in Slots, NEW row \in OptionRows,
         NEW cleared \in SlotRows,
         NEW a, a = Record(u, "option_delete", o, row, {"deleted_at"}),
         NEW b, b = Record(u, "slot_select_option", s, cleared, {"selected_option_id"}),
         Write(PutSlot(PutOption(db, o, row), s, cleared), <<a, b>>), UNCHANGED seen,
         db.options[o] # Nil, db.options[o].deleted_at = Nil, db.options[o].slot_id = s,
         Unmoved(OptionData, {"deleted_at"}, row, db.options[o]),
         db.slots[s] # Nil, db.slots[s].deleted_at = Nil,
         Unmoved(SlotData, {"selected_option_id"}, cleared, db.slots[s]),
         cleared.selected_option_id = Nil
  PROVE  CascadeStep(u)
<1> DEFINE first == Numbered(a, opSeq + 1)
           second == Numbered(b, opSeq + 2)
           ops == <<a, b>>
           mid == Put(db, "options", o, row)
<1>1. PICK h, S : Chain(h, S, feed, replica, opSeq, db)
  BY DEF Inv, FoldFollows
<1>2. feed \in Seq(S) /\ opSeq \in Nat /\ db \in AllTables
  BY <1>1, ItineraryAssumption DEF Chain, Inv, Typed
<1>3. /\ MaskFor("option_delete", {"deleted_at"}) = {"deleted_at"}
      /\ MaskFor("slot_select_option", {"selected_option_id"}) = {"selected_option_id"}
  BY DEF MaskFor
<1>4. /\ first.seq = opSeq + 1 /\ first.kind = "option_delete" /\ first.entity = o
      /\ first.actor = u /\ DOMAIN first.fields = {"deleted_at"}
      /\ first.fields = Restrict(row, DOMAIN first.fields)
      /\ first.version = PayloadVersion(row)
  BY <1>3, Recorded
<1>5. /\ second.seq = opSeq + 2 /\ second.kind = "slot_select_option" /\ second.entity = s
      /\ second.actor = u /\ DOMAIN second.fields = {"selected_option_id"}
      /\ second.fields = Restrict(cleared, DOMAIN second.fields)
      /\ second.version = PayloadVersion(cleared)
  BY <1>3, Recorded
<1>6. Len(ops) = 2 /\ DOMAIN ops = {1, 2} /\ ops[1] = a /\ ops[2] = b
  OBVIOUS
<1>7. PutSlot(PutOption(db, o, row), s, cleared) = Put(mid, "slots", s, cleared)
  BY DEF Put, PutSlot, PutOption
<1>8. /\ opSeq + 2 <= MaxSeq /\ db' = Put(mid, "slots", s, cleared) /\ opSeq' = opSeq + 2
      /\ UNCHANGED replica
      /\ feed' = feed \o [i \in {1, 2} |-> Numbered(ops[i], opSeq + i)]
  BY <1>6, <1>7 DEF Write
<1>9. feed' = Append(Append(feed, first), second)
  <2>1. [i \in {1, 2} |-> Numbered(ops[i], opSeq + i)] = <<first, second>>
    <3>1. Numbered(ops[1], opSeq + 1) = first /\ Numbered(ops[2], opSeq + 2) = second
      BY <1>6
    <3> HIDE DEF first, second
    <3> QED
      BY <3>1
  <2> HIDE DEF first, second
  <2>2. feed \in Seq(S \cup {first, second})
    BY <1>2
  <2>3. Append(Append(feed, first), second) = feed \o <<first, second>>
    BY <2>2
  <2> QED
    BY <1>8, <2>1, <2>3
<1> HIDE DEF first, second, ops
<1>10. /\ "options" \in TableNames /\ o \in Ids["options"] /\ row \in Rows["options"]
       /\ "slots" \in TableNames /\ s \in Ids["slots"] /\ cleared \in Rows["slots"]
  BY NameCases DEF TableNames
<1>11. Follows(db, "options", o, row, first)
  <2>1. Entity("option_delete") = "options"
    BY Kinds
  <2>2. /\ {"deleted_at"} \subseteq Columns["options"]
        /\ \A f \in Columns["options"] \ {"deleted_at"} :
              f # "version" => row[f] = db["options"][o][f]
    BY DEF Columns, Unmoved, OptionData
  <2>3. Carries("options", first, db["options"][o], row)
    BY <1>4, <2>1, <2>2 DEF Carries
  <2>4. RowSound("options", row)
    BY DEF RowSound
  <2> QED
    BY <1>4, <1>10, <2>3, <2>4 DEF Follows
<1>12. mid["slots"][s] = db["slots"][s]
  BY <1>2, <1>10, RowPut
<1> HIDE DEF mid
<1>13. Follows(mid, "slots", s, cleared, second)
  <2>1. Entity("slot_select_option") = "slots"
    BY Kinds
  <2>2. /\ {"selected_option_id"} \subseteq Columns["slots"]
        /\ \A f \in Columns["slots"] \ {"selected_option_id"} :
              f # "version" => cleared[f] = mid["slots"][s][f]
    BY <1>12 DEF Columns, Unmoved, SlotData
  <2>3. Carries("slots", second, mid["slots"][s], cleared)
    BY <1>5, <1>12, <2>1, <2>2 DEF Carries
  <2>4. RowSound("slots", cleared)
    BY SlotKeeps DEF RowSound
  <2> QED
    BY <1>5, <1>10, <1>12, <2>3, <2>4 DEF Follows
<1>14. row.slot_id = s
  BY DEF Unmoved, OptionData
<1> QED
  BY <1>4, <1>5, <1>8, <1>9, <1>11, <1>13, <1>14 DEF CascadeStep, Cascades, mid

(* A deletion writes the option, and the slot that had selected it.         *)
LEMMA OptionDeleteWrites ==
  ASSUME Inv, NEW u, NEW o \in Options, NEW in, OptionDelete(u, o, in)
  PROVE  RowStep(u) \/ CascadeStep(u)
<1> DEFINE old == db.options[o]
           row == SoftDeleteSlotOption(old)
           s == old.slot_id
           cleared == SetSlotSelectedOption(db.slots[s], Nil)
<1>1. old \in OptionRows /\ old # Nil /\ old.deleted_at = Nil /\ s \in Slots
  BY RowsFound DEF OptionDelete, OptionLive, OptionRows
<1>2. db.slots[s] \in SlotRows /\ db.slots[s] # Nil /\ db.slots[s].deleted_at = Nil
  BY <1>1, RowsFound DEF OptionDelete, SlotLive
<1>3. row \in OptionRows /\ Unmoved(OptionData, {"deleted_at"}, row, old)
  BY <1>1, OptionDeleted
<1>4. row.slot_id = s
  BY <1>3 DEF Unmoved, OptionData
<1>5. Nil \in OrNil(Options)
  BY DEF OrNil
<1>6. /\ cleared \in SlotRows /\ cleared.selected_option_id = Nil
      /\ Unmoved(SlotData, {"selected_option_id"}, cleared, db.slots[s])
  BY <1>2, <1>5, SlotSelected
<1>7. /\ UNCHANGED seen
      /\ IF db.slots[s].selected_option_id = o
         THEN Write(PutSlot(PutOption(db, o, row), s, cleared),
                    <<Record(u, "option_delete", o, row, {"deleted_at"}),
                      Record(u, "slot_select_option", s, cleared, {"selected_option_id"})>>)
         ELSE Write(PutOption(db, o, row), <<Record(u, "option_delete", o, row, {"deleted_at"})>>)
  BY DEF OptionDelete, Unseen
<1> HIDE DEF row, cleared
<1>8. CASE db.slots[s].selected_option_id = o
  BY <1>1, <1>2, <1>3, <1>6, <1>7, <1>8, CascadeRecorded
<1>9. CASE db.slots[s].selected_option_id # o
  <2>1. MaskFor("option_delete", {"deleted_at"}) = {"deleted_at"}
    BY DEF MaskFor
  <2>2. old = IF db.options[o] = Nil THEN OptionRow ELSE db.options[o]
    BY <1>1
  <2> QED
    BY <1>1, <1>3, <1>4, <1>7, <1>9, <2>1, <2>2, OptionWritten
<1> QED
  BY <1>8, <1>9

(* Every call on an option writes one row, or two.                          *)
LEMMA OptionStepWrites ==
  ASSUME Inv, NEW u, NEW o \in Options, OptionStep(u, o)
  PROVE  RowStep(u) \/ CascadeStep(u)
<1>1. OptionUpdateRequests \cup OptionEditIntents = OptionUpdateRequests
  BY DEF OptionEditIntents
<1> QED
  BY <1>1, OptionCreateWrites, OptionUpdateWrites, OptionDeleteWrites DEF OptionStep

-----------------------------------------------------------------------------
(* Votes: whatever the row was, the operation carries all of it.            *)
LEMMA VoteCastWrites ==
  ASSUME Inv, NEW u \in Users, NEW s \in Slots, NEW o \in VoteRequests, VoteCast(u, s, o)
  PROVE  RowStep(u)
<1> DEFINE old == db.votes[<<s, u>>]
           row == CastVote(old, s, u, o)
           v == <<s, u>>
<1>1. v \in Slots \X Users
  OBVIOUS
<1>2. old # Nil => old \in VoteRows
  BY <1>1, RowsFound
<1>3. (IF old = Nil THEN 1 ELSE old.version + 1) \in Versions
  BY <1>2 DEF VoteRows, Versions
<1>4. row \in VoteRows
  BY <1>3 DEF CastVote, VoteRows, VoteRequests
<1>5. /\ UNCHANGED seen
      /\ Write(PutVote(db, v, row), <<Record(u, "vote_set", v, row, {})>>)
  BY DEF VoteCast, Unseen
<1>6. MaskFor("vote_set", {}) = {"slot_id", "user_id", "option_id"}
  BY DEF MaskFor, AllowedFields
<1>7. \A op : op.kind = "vote_set" /\ op.actor = u =>
         \A f \in Columns["votes"] \ MaskFor("vote_set", {}) :
            f # "version" => row[f] = (IF db["votes"][v] = Nil THEN Blank(op) ELSE db["votes"][v])[f]
  BY <1>6 DEF Columns
<1>8. Entity("vote_set") = "votes" /\ AllowedFields["vote_set"] \subseteq Columns["votes"]
  BY Kinds
<1> HIDE DEF row, v
<1>9. /\ "votes" \in TableNames \ {"budgets"} /\ v \in Ids["votes"] /\ row \in Rows["votes"]
  BY <1>1, <1>4, NameCases DEF TableNames
<1>10. Put(db, "votes", v, row) = PutVote(db, v, row)
  BY DEF Put, PutVote
<1>11. "vote_set" \in Creating /\ RowSound("votes", row)
  BY DEF Creating, RowSound
<1>12. \E op : Writes(u, "votes", v, row, op)
  BY <1>5, <1>7, <1>8, <1>9, <1>10, <1>11, OneRecorded
<1> QED
  BY <1>5, <1>9, <1>12 DEF RowStep

-----------------------------------------------------------------------------
(* Comments: the fold takes the author from the operation.                  *)
LEMMA CommentRowIs ==
  ASSUME NEW x, HasColumns("comments", x), x.slot_id \in Slots, x.author_id \in Users,
         x.deleted_at \in Tombstone
  PROVE  x \in CommentRows
<1>1. x = [slot_id |-> x.slot_id, author_id |-> x.author_id, deleted_at |-> x.deleted_at]
  BY DEF HasColumns, Columns
<1> QED
  BY <1>1 DEF CommentRows

(* A call that records one comment writes it.                               *)
LEMMA CommentWritten ==
  ASSUME Inv, NEW u, NEW c \in Comments, NEW row \in CommentRows, NEW kind, NEW fields,
         kind \in {"comment_create", "comment_delete"},
         Write(PutComment(db, c, row), <<Record(u, kind, c, row, fields)>>), UNCHANGED seen,
         db.comments[c] = Nil => kind = "comment_create" /\ row.author_id = u /\ row.deleted_at = Nil,
         db.comments[c] = Nil \/ db.comments[c].deleted_at = Nil,
         db.comments[c] = Nil => "slot_id" \in MaskFor(kind, fields),
         db.comments[c] # Nil => Unmoved({"slot_id", "author_id", "deleted_at"},
                                         MaskFor(kind, fields), row, db.comments[c])
  PROVE  RowStep(u)
<1>1. /\ "comments" \in TableNames \ {"budgets"} /\ c \in Ids["comments"] /\ row \in Rows["comments"]
  BY NameCases DEF TableNames
<1>2. Entity(kind) = "comments" /\ AllowedFields[kind] \subseteq Columns["comments"]
  BY Kinds
<1>3. Put(db, "comments", c, row) = PutComment(db, c, row)
  BY DEF Put, PutComment
<1>4. db["comments"][c] = Nil => kind \in Creating
  BY DEF Creating
<1>5. RowSound("comments", row)
  BY DEF RowSound
<1>6. \A op : op.kind = kind /\ op.actor = u => Blank(op).author_id = u /\ Blank(op).deleted_at = Nil
  BY <1>2 DEF Blank, CommentRow
<1>7. \A op : op.kind = kind /\ op.actor = u =>
         \A f \in Columns["comments"] \ MaskFor(kind, fields) :
            f # "version" =>
               row[f] = (IF db["comments"][c] = Nil THEN Blank(op) ELSE db["comments"][c])[f]
  BY <1>6 DEF Columns, Unmoved
<1>8. \E op : Writes(u, "comments", c, row, op)
  BY <1>1, <1>2, <1>3, <1>4, <1>5, <1>7, OneRecorded
<1> QED
  BY <1>1, <1>8 DEF RowStep

(* Every call on a comment writes one row.                                  *)
LEMMA CommentStepWrites ==
  ASSUME Inv, NEW u \in Users, NEW c \in Comments, CommentStep(u, c)
  PROVE  RowStep(u)
<1>1. Nil \in Tombstone /\ "set" \in Tombstone
  BY DEF Tombstone
<1>2. ASSUME NEW s \in Slots, CommentCreate(u, c, s)
      PROVE  RowStep(u)
  <2> DEFINE row == CreateComment(s, u)
  <2>0. HasColumns("comments", CommentRow)
    BY DEF CommentRow, HasColumns, Columns
  <2>7. \A b : HasColumns("comments", b)
               => HasColumns("comments", [b EXCEPT !.slot_id = s, !.author_id = u])
    BY DEF HasColumns
  <2>1. HasColumns("comments", row)
    BY <2>0, <2>7, Zenon DEF CreateComment
  <2>3. row.slot_id = s /\ row.author_id = u /\ row.deleted_at = Nil
    BY DEF CreateComment, CommentRow
  <2>4. /\ db.comments[c] = Nil /\ UNCHANGED seen
        /\ Write(PutComment(db, c, row), <<Record(u, "comment_create", c, row, {})>>)
    BY <1>2 DEF CommentCreate, Unseen
  <2>5. "slot_id" \in MaskFor("comment_create", {})
    BY DEF MaskFor, AllowedFields
  <2>6. "comment_create" \in {"comment_create", "comment_delete"}
    OBVIOUS
  <2> HIDE DEF row
  <2>2. row \in CommentRows
    BY <1>1, <2>1, <2>3, CommentRowIs
  <2> QED
    BY <2>2, <2>3, <2>4, <2>5, <2>6, CommentWritten
<1>3. ASSUME CommentDelete(u, c)
      PROVE  RowStep(u)
  <2> DEFINE old == db.comments[c]
             row == SoftDeleteComment(old)
  <2>1. old \in CommentRows /\ old # Nil /\ old.deleted_at = Nil
    BY <1>3, RowsFound DEF CommentDelete, CommentLive
  <2>2. "comments" \in TableNames /\ Rows["comments"] = CommentRows
    BY NameCases DEF TableNames
  <2>3. HasColumns("comments", old)
    BY <2>1, <2>2, RowColumns
  <2>4. HasColumns("comments", row)
    BY <2>3 DEF SoftDeleteComment, HasColumns
  <2>5. row.slot_id = old.slot_id /\ row.author_id = old.author_id /\ row.deleted_at = "set"
    BY <2>3 DEF SoftDeleteComment, HasColumns, Columns
  <2>6. old.slot_id \in Slots /\ old.author_id \in Users
    BY <2>1 DEF CommentRows
  <2>7. /\ UNCHANGED seen
        /\ Write(PutComment(db, c, row), <<Record(u, "comment_delete", c, row, {"deleted_at"})>>)
    BY <1>3 DEF CommentDelete, Unseen
  <2>8. MaskFor("comment_delete", {"deleted_at"}) = {"deleted_at"}
    BY DEF MaskFor
  <2> HIDE DEF row
  <2>9. row \in CommentRows
    BY <1>1, <2>4, <2>5, <2>6, CommentRowIs
  <2>10. Unmoved({"slot_id", "author_id", "deleted_at"},
                 MaskFor("comment_delete", {"deleted_at"}), row, old)
    BY <2>5, <2>8 DEF Unmoved
  <2>11. "comment_delete" \in {"comment_create", "comment_delete"}
    OBVIOUS
  <2> QED
    BY <2>1, <2>7, <2>9, <2>10, <2>11, CommentWritten
<1> QED
  BY <1>2, <1>3 DEF CommentStep

-----------------------------------------------------------------------------
(* The ledger.                                                              *)
BudgetData == {"amount_minor", "splits", "deleted_at"}

(* An entry is written: a new one, or over the row its writer had read. The *)
(* writer sees what it wrote, or an entry it deleted as it was.             *)
LedgerWrites(u, e, new, op) ==
    /\ Writes(u, "budgets", e, new, op)
    /\ db.budgets[e] # Nil => /\ seen[u][e] = db.budgets[e]
                              /\ new.version = db.budgets[e].version + 1
    /\ UNCHANGED seen \/ seen' = [seen EXCEPT ![u][e] = new]

LedgerStep(u) == \E e \in Entries : \E new, op : LedgerWrites(u, e, new, op)

(* A record with the columns of an entry and values they allow is a row.    *)
LEMMA BudgetRowIs ==
  ASSUME NEW x, HasColumns("budgets", x), x.amount_minor \in Amounts, x.splits \in SplitSets,
         x.version \in Versions, x.deleted_at \in Tombstone
  PROVE  x \in BudgetRows
<1>1. x = [amount_minor |-> x.amount_minor, splits |-> x.splits, version |-> x.version,
           deleted_at |-> x.deleted_at]
  BY DEF HasColumns, Columns
<1> QED
  BY <1>1 DEF BudgetRows

(* An entry has the columns of its table.                                   *)
LEMMA BudgetColumns ==
  ASSUME NEW row \in BudgetRows
  PROVE  HasColumns("budgets", row)
<1>1. "budgets" \in TableNames /\ Rows["budgets"] = BudgetRows
  BY NameCases DEF TableNames
<1> QED
  BY <1>1, RowColumns

(* What the statements on the ledger leave.                                 *)
LEMMA EntryCreated ==
  ASSUME NEW amount \in Amounts, NEW splits \in SplitSets,
         NEW x, x = ReplaceSplits(CreateBudgetEntry(amount), splits)
  PROVE  x \in BudgetRows /\ x.deleted_at = Nil
<1>1. 1 \in Versions /\ Nil \in Tombstone
  BY DEF Versions, Tombstone
<1>2. HasColumns("budgets", BudgetRow)
  BY DEF BudgetRow, HasColumns, Columns
<1>3. \A b : HasColumns("budgets", b)
               => HasColumns("budgets", [b EXCEPT !.amount_minor = amount, !.version = 1])
  BY DEF HasColumns
<1>4. HasColumns("budgets", CreateBudgetEntry(amount))
  BY <1>2, <1>3, Zenon DEF CreateBudgetEntry
<1>5. /\ CreateBudgetEntry(amount).amount_minor = amount /\ CreateBudgetEntry(amount).version = 1
      /\ CreateBudgetEntry(amount).deleted_at = Nil
  BY DEF CreateBudgetEntry, BudgetRow
<1> DEFINE b == CreateBudgetEntry(amount)
<1>6. x = [b EXCEPT !.splits = splits]
  BY DEF ReplaceSplits
<1> HIDE DEF b
<1>7. HasColumns("budgets", b) /\ b.amount_minor = amount /\ b.version = 1 /\ b.deleted_at = Nil
  BY <1>4, <1>5 DEF b
<1>8. HasColumns("budgets", x)
  BY <1>6, <1>7 DEF HasColumns
<1>9. x.amount_minor = amount /\ x.splits = splits /\ x.version = 1 /\ x.deleted_at = Nil
  BY <1>6, <1>7 DEF HasColumns, Columns
<1> QED
  BY <1>1, <1>8, <1>9, BudgetRowIs

(* UPDATE of an entry, and its splits replaced.                             *)
LEMMA EntryUpdated ==
  ASSUME NEW row \in BudgetRows, NEW amount \in Amounts, NEW splits \in SplitSets,
         NEW x, x = ReplaceSplits(UpdateBudgetEntry(row, amount), splits)
  PROVE  x \in BudgetRows /\ x.deleted_at = row.deleted_at /\ x.version = row.version + 1
<1>1. HasColumns("budgets", row)
  BY BudgetColumns
<1> DEFINE b == UpdateBudgetEntry(row, amount)
<1>2. HasColumns("budgets", b)
  BY <1>1 DEF UpdateBudgetEntry, HasColumns
<1>3. b.amount_minor = amount /\ b.version = row.version + 1 /\ b.deleted_at = row.deleted_at
  BY <1>1 DEF UpdateBudgetEntry, HasColumns, Columns
<1>4. x = [b EXCEPT !.splits = splits]
  BY DEF ReplaceSplits
<1> HIDE DEF b
<1>5. HasColumns("budgets", x)
  BY <1>2, <1>4 DEF HasColumns
<1>6. /\ x.amount_minor = amount /\ x.splits = splits /\ x.version = row.version + 1
      /\ x.deleted_at = row.deleted_at
  BY <1>2, <1>3, <1>4 DEF HasColumns, Columns
<1>7. row.version + 1 \in Versions /\ row.deleted_at \in Tombstone
  BY DEF BudgetRows, Versions
<1> QED
  BY <1>5, <1>6, <1>7, BudgetRowIs

(* UPDATE of the tombstone; the splits stay.                                *)
LEMMA EntryDeleted ==
  ASSUME NEW row \in BudgetRows, NEW x, x = SoftDeleteBudgetEntry(row)
  PROVE  /\ x \in BudgetRows /\ x.version = row.version + 1
         /\ x.amount_minor = row.amount_minor /\ x.splits = row.splits
<1>1. HasColumns("budgets", row)
  BY BudgetColumns
<1>2. HasColumns("budgets", x)
  BY <1>1 DEF SoftDeleteBudgetEntry, HasColumns
<1>3. /\ x.amount_minor = row.amount_minor /\ x.splits = row.splits
      /\ x.version = row.version + 1 /\ x.deleted_at = "set"
  BY <1>1 DEF SoftDeleteBudgetEntry, HasColumns, Columns
<1>4. /\ row.amount_minor \in Amounts /\ row.splits \in SplitSets /\ row.version + 1 \in Versions
      /\ "set" \in Tombstone
  BY DEF BudgetRows, Versions, Tombstone
<1> QED
  BY <1>2, <1>3, <1>4, BudgetRowIs

(* A call that records one entry writes it, when the operation carries all  *)
(* that moved.                                                              *)
LEMMA EntryWritten ==
  ASSUME Inv, NEW u, NEW e \in Entries, NEW row \in BudgetRows, NEW kind, NEW fields,
         kind \in {"budget_set", "budget_delete"},
         Write(PutEntry(db, e, row), <<Record(u, kind, e, row, fields)>>),
         UNCHANGED seen \/ See(u, e, row),
         db.budgets[e] = Nil => kind = "budget_set",
         db.budgets[e] = Nil \/ db.budgets[e].deleted_at = Nil,
         SplitSumChecked(row),
         db.budgets[e] # Nil => seen[u][e] = db.budgets[e] /\ row.version = db.budgets[e].version + 1,
         NEW base, base = IF db.budgets[e] = Nil THEN BudgetRow ELSE db.budgets[e],
         Unmoved(BudgetData, MaskFor(kind, fields), row, base)
  PROVE  LedgerStep(u)
<1>1. "budgets" \in TableNames /\ e \in Ids["budgets"] /\ row \in Rows["budgets"]
  BY NameCases DEF TableNames
<1>2. Entity(kind) = "budgets" /\ AllowedFields[kind] \subseteq Columns["budgets"]
  BY Kinds
<1>3. Put(db, "budgets", e, row) = PutEntry(db, e, row)
  BY DEF Put, PutEntry
<1>4. db["budgets"][e] = Nil => kind \in Creating
  BY DEF Creating
<1>5. RowSound("budgets", row)
  BY DEF RowSound
<1>6. \A op : op.kind = kind => Blank(op) = BudgetRow
  BY <1>2 DEF Blank
<1>7. \A op : op.kind = kind /\ op.actor = u =>
         \A f \in Columns["budgets"] \ MaskFor(kind, fields) :
            f # "version" =>
               row[f] = (IF db["budgets"][e] = Nil THEN Blank(op) ELSE db["budgets"][e])[f]
  BY <1>6 DEF Columns, Unmoved, BudgetData
<1>8. PICK op : Writes(u, "budgets", e, row, op)
  BY <1>1, <1>2, <1>3, <1>4, <1>5, <1>7, OneRecorded
<1>9. UNCHANGED seen \/ seen' = [seen EXCEPT ![u][e] = row]
  BY DEF See
<1> QED
  BY <1>8, <1>9 DEF LedgerStep, LedgerWrites

(* The version that a member states is that of the row it read.             *)
LEMMA SeenIsCurrent ==
  ASSUME Inv, NEW u \in Users, NEW e \in Entries, seen[u][e] # Nil,
         Matches(db.budgets[e], seen[u][e].version)
  PROVE  seen[u][e] = db.budgets[e]
  BY DEF Inv, SeenInv, Matches

(* What the two kinds of ledger operations carry.                           *)
LEMMA EntryMasks ==
  /\ MaskFor("budget_set", {}) = {"amount_minor", "splits"}
  /\ MaskFor("budget_delete", {"deleted_at"}) = {"deleted_at"}
  /\ "budget_set" \in {"budget_set", "budget_delete"}
  /\ "budget_delete" \in {"budget_set", "budget_delete"}
  BY DEF MaskFor, AllowedFields

(* A new entry has been checked and replaces no row.                        *)
LEMMA BudgetCreateWrites ==
  ASSUME Inv, NEW u \in Users, NEW e \in Entries, NEW in \in BudgetRequests, BudgetCreate(u, e, in)
  PROVE  LedgerStep(u)
<1> DEFINE row == ReplaceSplits(CreateBudgetEntry(in.amount), in.splits)
<1>1. in.amount \in Amounts /\ in.splits \in SplitSets
  BY DEF BudgetRequests
<1>2. row \in BudgetRows /\ row.deleted_at = Nil
  BY <1>1, EntryCreated
<1>3. /\ db.budgets[e] = Nil /\ SplitSumChecked(row) /\ See(u, e, row)
      /\ Write(PutEntry(db, e, row), <<Record(u, "budget_set", e, row, {})>>)
  BY DEF BudgetCreate
<1>4. BudgetRow = IF db.budgets[e] = Nil THEN BudgetRow ELSE db.budgets[e]
  BY <1>3
<1>5. BudgetRow.deleted_at = Nil
  BY DEF BudgetRow
<1> HIDE DEF row
<1>6. Unmoved(BudgetData, MaskFor("budget_set", {}), row, BudgetRow)
  BY <1>2, <1>5, EntryMasks DEF Unmoved, BudgetData
<1>7. "budget_set" \in {"budget_set", "budget_delete"}
  OBVIOUS
<1> QED
  BY <1>2, <1>3, <1>4, <1>6, <1>7, EntryWritten

(* An edit replaces the row its writer has read.                            *)
LEMMA BudgetUpdateWrites ==
  ASSUME Inv, NEW u \in Users, NEW e \in Entries, NEW in \in BudgetRequests, BudgetUpdate(u, e, in)
  PROVE  LedgerStep(u)
<1> DEFINE old == db.budgets[e]
           row == ReplaceSplits(UpdateBudgetEntry(old, in.amount), in.splits)
<1>1. in.amount \in Amounts /\ in.splits \in SplitSets
  BY DEF BudgetRequests
<1>2. old \in BudgetRows /\ old # Nil /\ old.deleted_at = Nil
  BY RowsFound DEF BudgetUpdate, EntryLive
<1>3. row \in BudgetRows /\ row.deleted_at = old.deleted_at /\ row.version = old.version + 1
  BY <1>1, <1>2, EntryUpdated
<1>4. /\ SplitSumChecked(row) /\ See(u, e, row)
      /\ Write(PutEntry(db, e, row), <<Record(u, "budget_set", e, row, {})>>)
      /\ seen[u][e] # Nil /\ Matches(old, seen[u][e].version)
  BY DEF BudgetUpdate
<1>5. seen[u][e] = old
  BY <1>4, SeenIsCurrent
<1>6. old = IF db.budgets[e] = Nil THEN BudgetRow ELSE db.budgets[e]
  BY <1>2
<1> HIDE DEF row
<1>7. Unmoved(BudgetData, MaskFor("budget_set", {}), row, old)
  BY <1>3, EntryMasks DEF Unmoved, BudgetData
<1> QED
  BY <1>2, <1>3, <1>4, <1>5, <1>6, <1>7, EntryMasks, EntryWritten

(* A deletion is of the row its writer has read.                            *)
LEMMA BudgetDeleteWrites ==
  ASSUME Inv, NEW u \in Users, NEW e \in Entries, BudgetDelete(u, e)
  PROVE  LedgerStep(u)
<1> DEFINE old == db.budgets[e]
           row == SoftDeleteBudgetEntry(old)
<1>1. old \in BudgetRows /\ old # Nil /\ old.deleted_at = Nil
  BY RowsFound DEF BudgetDelete, EntryLive
<1>2. /\ row \in BudgetRows /\ row.version = old.version + 1
      /\ row.amount_minor = old.amount_minor /\ row.splits = old.splits
  BY <1>1, EntryDeleted
<1>3. /\ UNCHANGED seen
      /\ Write(PutEntry(db, e, row), <<Record(u, "budget_delete", e, row, {"deleted_at"})>>)
      /\ seen[u][e] # Nil /\ Matches(old, seen[u][e].version)
  BY DEF BudgetDelete, Unseen
<1>4. seen[u][e] = old
  BY <1>3, SeenIsCurrent
<1>5. SplitSumChecked(old)
  BY <1>1 DEF Inv, Sound, SplitsHold
<1>6. old = IF db.budgets[e] = Nil THEN BudgetRow ELSE db.budgets[e]
  BY <1>1
<1> HIDE DEF row
<1>7. SplitSumChecked(row)
  BY <1>2, <1>5 DEF SplitSumChecked
<1>8. Unmoved(BudgetData, MaskFor("budget_delete", {"deleted_at"}), row, old)
  BY <1>2, EntryMasks DEF Unmoved, BudgetData
<1> QED
  BY <1>1, <1>2, <1>3, <1>4, <1>6, <1>7, <1>8, EntryMasks, EntryWritten

(* Every call on the ledger writes one row, or reads one.                   *)
LEMMA BudgetStepWrites ==
  ASSUME Inv, NEW u \in Users, NEW e \in Entries, BudgetStep(u, e)
  PROVE  LedgerStep(u) \/ BudgetGet(u, e)
<1>1. ASSUME NEW in \in BudgetRequests, BudgetSetIntent(u, e, in)
      PROVE  BudgetCreate(u, e, in) \/ BudgetUpdate(u, e, in)
  BY <1>1 DEF BudgetSetIntent
<1> QED
  BY <1>1, BudgetCreateWrites, BudgetUpdateWrites, BudgetDeleteWrites DEF BudgetStep

-----------------------------------------------------------------------------
(* Every call is one of four kinds of step.                                 *)
LEMMA NextIs ==
  ASSUME Inv, Next
  PROVE  \/ \E u \in Users : RowStep(u) \/ CascadeStep(u) \/ LedgerStep(u)
         \/ \E u \in Users, e \in Entries : BudgetGet(u, e)
         \/ Deliver
  BY DayStepWrites, SlotStepWrites, OptionStepWrites, VoteCastWrites, CommentStepWrites,
     BudgetStepWrites DEF Next

(* What one row written leaves true.                                        *)
LEMMA WritesKeep ==
  ASSUME Inv, NEW u, NEW n, NEW id, NEW new, NEW op, Writes(u, n, id, new, op)
  PROVE  /\ db' \in AllTables /\ opSeq' \in 0..MaxSeq
         /\ Sound(db') /\ FoldFollows' /\ KeepsTombstones(db, db')
         /\ n \in TableNames /\ id \in Ids[n] /\ new \in Rows[n]
         /\ \A m \in TableNames : \A i \in Ids[m] :
               db'[m][i] = IF m = n /\ i = id THEN new ELSE db[m][i]
<1>1. /\ Follows(db, n, id, new, op) /\ op.seq = opSeq + 1
      /\ db' = Put(db, n, id, new) /\ opSeq' = opSeq + 1 /\ opSeq' <= MaxSeq
      /\ feed' = Append(feed, op) /\ replica' = replica
  BY DEF Writes
<1>2. /\ db \in AllTables /\ opSeq \in 0..MaxSeq /\ MaxSeq \in Nat /\ Sound(db)
  BY ItineraryAssumption DEF Inv, Typed
<1>3. PICK h, S : Chain(h, S, feed, replica, opSeq, db)
  BY DEF Inv, FoldFollows
<1>4. \E k, T : Chain(k, T, Append(feed, op), replica, opSeq + 1, Put(db, n, id, new))
  BY <1>1, <1>2, <1>3, ChainGrows
<1>5. FoldFollows'
  BY <1>1, <1>4 DEF FoldFollows
<1>6. opSeq' \in 0..MaxSeq
  BY <1>1, <1>2
<1>7. /\ n \in TableNames /\ id \in Ids[n] /\ new \in Rows[n] /\ RowSound(n, new)
      /\ n # "votes" => db[n][id] = Nil \/ db[n][id].deleted_at = Nil
  BY <1>1 DEF Follows
<1>8. /\ db' \in AllTables
      /\ \A m \in TableNames : \A i \in Ids[m] :
            db'[m][i] = IF m = n /\ i = id THEN new ELSE db[m][i]
  BY <1>1, <1>2, <1>7, RowPut
<1>9. Sound(db')
  BY <1>1, <1>2, <1>7, PutSound
<1>10. KeepsTombstones(db, db')
  BY <1>1, <1>2, <1>7, PutKeeps
<1> QED
  BY <1>5, <1>6, <1>7, <1>8, <1>9, <1>10

(* A call that writes one row keeps the invariant, and what is deleted.     *)
LEMMA RowStepKeeps ==
  ASSUME Inv, NEW u, RowStep(u)
  PROVE  Inv' /\ KeepsTombstones(db, db')
<1>1. PICK n, id, new, op :
        /\ n \in TableNames \ {"budgets"}
        /\ Writes(u, n, id, new, op) /\ UNCHANGED seen
        /\ n = "slots" => OptionOfSlot(db, new.selected_option_id, id)
        /\ n = "options" =>
              /\ db.options[id] # Nil => new.slot_id = db.options[id].slot_id
              /\ new.deleted_at = Nil \/ db.slots[new.slot_id].selected_option_id # id
  BY DEF RowStep
<1>2. /\ db' \in AllTables /\ opSeq' \in 0..MaxSeq
      /\ Sound(db') /\ FoldFollows' /\ KeepsTombstones(db, db')
      /\ n \in TableNames /\ id \in Ids[n] /\ new \in Rows[n]
      /\ \A m \in TableNames : \A i \in Ids[m] :
            db'[m][i] = IF m = n /\ i = id THEN new ELSE db[m][i]
  BY <1>1, WritesKeep
<1>3. Typed'
  BY <1>1, <1>2 DEF Inv, Typed
<1>4. "budgets" \in TableNames /\ "slots" \in TableNames /\ "options" \in TableNames
  BY DEF TableNames
<1>5. \A e \in Entries : db'.budgets[e] = db.budgets[e]
  BY <1>1, <1>2, <1>4, NameCases
<1>6. SeenInv'
  BY <1>1, <1>5 DEF Inv, SeenInv
<1>7. SelectionsHold(db')
  <2> SUFFICES ASSUME NEW s \in Slots, db'.slots[s] # Nil, db'.slots[s].selected_option_id # Nil
               PROVE  LET o == db'.slots[s].selected_option_id
                      IN db'.options[o] # Nil /\ db'.options[o].slot_id = s
    BY DEF SelectionsHold, OptionOfSlot
  <2> DEFINE o == db'.slots[s].selected_option_id
  <2>1. o \in Options
    BY <1>2 DEF AllTables, SlotRows, OrNil
  <2>2. db.options[o] # Nil /\ db.options[o].slot_id = s
    <3>1. CASE n = "slots" /\ s = id
      <4>1. db'.slots[s] = new
        BY <1>2, <1>4, <3>1, NameCases
      <4> QED
        BY <1>1, <3>1, <4>1 DEF OptionOfSlot
    <3>2. CASE ~(n = "slots" /\ s = id)
      <4>1. db'.slots[s] = db.slots[s]
        BY <1>2, <1>4, <3>2, NameCases
      <4> QED
        BY <4>1 DEF Inv, SelectionsHold, OptionOfSlot
    <3> QED
      BY <3>1, <3>2
  <2>3. CASE n = "options" /\ o = id
    <3>1. db'.options[o] = new
      BY <1>2, <1>4, <2>1, <2>3, NameCases
    <3>2. new # Nil
      BY <1>2, RowColumns
    <3> QED
      BY <1>1, <2>2, <2>3, <3>1, <3>2
  <2>4. CASE ~(n = "options" /\ o = id)
    <3>1. db'.options[o] = db.options[o]
      BY <1>2, <1>4, <2>1, <2>4, NameCases
    <3> QED
      BY <2>2, <3>1
  <2> QED
    BY <2>3, <2>4
<1> QED
  BY <1>2, <1>3, <1>6, <1>7 DEF Inv

(* A call on the ledger keeps the invariant: older readings stay behind the *)
(* row.                                                                     *)
LEMMA LedgerStepKeeps ==
  ASSUME Inv, NEW u \in Users, LedgerStep(u)
  PROVE  Inv' /\ KeepsTombstones(db, db')
<1>1. PICK e, new, op : e \in Entries /\ LedgerWrites(u, e, new, op)
  BY DEF LedgerStep
<1>2. /\ db' \in AllTables /\ opSeq' \in 0..MaxSeq
      /\ Sound(db') /\ FoldFollows' /\ KeepsTombstones(db, db')
      /\ new \in Rows["budgets"]
      /\ \A m \in TableNames : \A i \in Ids[m] :
            db'[m][i] = IF m = "budgets" /\ i = e THEN new ELSE db[m][i]
  BY <1>1, WritesKeep DEF LedgerWrites
<1>3. new \in BudgetRows /\ new # Nil
  BY <1>2, NameCases, ItineraryAssumption
<1>4. "budgets" \in TableNames /\ "slots" \in TableNames /\ "options" \in TableNames
  BY DEF TableNames
<1>5. /\ \A s \in Slots : db'.slots[s] = db.slots[s]
      /\ \A o \in Options : db'.options[o] = db.options[o]
      /\ \A i \in Entries : db'.budgets[i] = IF i = e THEN new ELSE db.budgets[i]
  BY <1>2, <1>4, NameCases
<1>6. seen \in [Users -> [Entries -> OrNil(BudgetRows)]]
  BY DEF Inv, Typed
<1>7. \A v \in Users, i \in Entries :
         \/ seen'[v][i] = seen[v][i]
         \/ v = u /\ i = e /\ seen'[v][i] = new
  BY <1>1, <1>6 DEF LedgerWrites
<1>8. seen' \in [Users -> [Entries -> OrNil(BudgetRows)]]
  BY <1>1, <1>3, <1>6 DEF LedgerWrites, OrNil
<1>9. Typed'
  BY <1>2, <1>8 DEF Typed
<1>10. SelectionsHold(db')
  <2>1. \A s \in Slots : db.slots[s] # Nil => db.slots[s].selected_option_id \in OrNil(Options)
    BY DEF Inv, Typed, AllTables, SlotRows, OrNil
  <2> QED
    BY <1>5, <2>1 DEF Inv, SelectionsHold, OptionOfSlot, OrNil
<1>11. SeenInv'
  <2> SUFFICES ASSUME NEW v \in Users, NEW i \in Entries, seen'[v][i] # Nil
               PROVE  /\ db'.budgets[i] # Nil
                      /\ seen'[v][i].version <= db'.budgets[i].version
                      /\ seen'[v][i].version = db'.budgets[i].version
                           => seen'[v][i] = db'.budgets[i]
    BY DEF SeenInv
  <2>1. CASE seen'[v][i] = new /\ i = e
    <3>1. new.version \in Nat /\ db'.budgets[i] = new
      BY <1>3, <1>5, <2>1 DEF BudgetRows, Versions
    <3>2. new.version <= new.version
      BY <3>1
    <3> QED
      BY <1>3, <2>1, <3>1, <3>2
  <2>2. CASE seen'[v][i] = seen[v][i]
    <3>1. /\ db.budgets[i] # Nil
          /\ seen[v][i].version <= db.budgets[i].version
          /\ seen[v][i].version = db.budgets[i].version => seen[v][i] = db.budgets[i]
      BY <2>2 DEF Inv, SeenInv
    <3>2. CASE i # e
      BY <1>5, <2>2, <3>1, <3>2
    <3>3. CASE i = e
      <4>1. new.version = db.budgets[e].version + 1
        BY <1>1, <3>1, <3>3 DEF LedgerWrites
      <4>2. seen[v][i] \in BudgetRows /\ db.budgets[e] \in BudgetRows
        BY <1>6, <2>2, <3>1, <3>3, RowsFound DEF OrNil
      <4>3. seen[v][i].version \in Nat /\ db.budgets[e].version \in Nat
        BY <4>2 DEF BudgetRows, Versions
      <4>4. seen[v][i].version < new.version
        BY <3>1, <3>3, <4>1, <4>3
      <4>5. db'.budgets[i] = new /\ new.version \in Nat
        BY <1>3, <1>5, <3>3 DEF BudgetRows, Versions
      <4> QED
        BY <1>3, <2>2, <4>3, <4>4, <4>5
    <3> QED
      BY <3>2, <3>3
  <2> QED
    BY <1>7, <2>1, <2>2
<1> QED
  BY <1>2, <1>9, <1>10, <1>11 DEF Inv

(* The rows a cascade leaves.                                               *)
CascadeRows(o, s, row, cleared) ==
    /\ \A i \in Slots : db'.slots[i] = IF i = s THEN cleared ELSE db.slots[i]
    /\ \A i \in Options : db'.options[i] = IF i = o THEN row ELSE db.options[i]
    /\ \A e \in Entries : db'.budgets[e] = db.budgets[e]
    /\ row.slot_id = s /\ cleared.selected_option_id = Nil

(* They are the option, deleted, and its slot, cleared.                     *)
LEMMA CascadeLeaves ==
  ASSUME Inv, NEW u, NEW o, NEW s, NEW row, NEW cleared, NEW first, NEW second,
         Cascades(u, o, s, row, cleared, first, second)
  PROVE  CascadeRows(o, s, row, cleared)
<1> DEFINE mid == Put(db, "options", o, row)
<1>1. /\ "options" \in TableNames /\ o \in Ids["options"] /\ row \in Rows["options"]
      /\ "slots" \in TableNames /\ s \in Ids["slots"] /\ cleared \in Rows["slots"]
      /\ "budgets" \in TableNames /\ db \in AllTables
      /\ db' = Put(mid, "slots", s, cleared)
      /\ row.slot_id = s /\ cleared.selected_option_id = Nil
  BY DEF Cascades, Follows, Inv, Typed, TableNames
<1>2. /\ mid \in AllTables
      /\ \A m \in TableNames : \A i \in Ids[m] :
            mid[m][i] = IF m = "options" /\ i = o THEN row ELSE db[m][i]
  BY <1>1, RowPut
<1> HIDE DEF mid
<1>3. \A m \in TableNames : \A i \in Ids[m] :
         db'[m][i] = IF m = "slots" /\ i = s THEN cleared ELSE mid[m][i]
  BY <1>1, <1>2, RowPut
<1> QED
  BY <1>1, <1>2, <1>3, NameCases DEF CascadeRows

(* The cascade keeps the invariant: the fold takes two steps.               *)
LEMMA CascadeStepKeeps ==
  ASSUME Inv, NEW u, CascadeStep(u)
  PROVE  Inv' /\ KeepsTombstones(db, db')
<1>1. PICK o, s, row, cleared, first, second :
        o \in Options /\ s \in Slots /\ Cascades(u, o, s, row, cleared, first, second)
  BY DEF CascadeStep
<1> DEFINE mid == Put(db, "options", o, row)
           last == Put(mid, "slots", s, cleared)
<1>2. /\ Follows(db, "options", o, row, first) /\ Follows(mid, "slots", s, cleared, second)
      /\ first.seq = opSeq + 1 /\ second.seq = opSeq + 2
      /\ db' = last /\ opSeq' = opSeq + 2 /\ opSeq' <= MaxSeq
      /\ feed' = Append(Append(feed, first), second)
      /\ replica' = replica /\ seen' = seen
      /\ db.options[o] # Nil /\ row.slot_id = s /\ db.options[o].slot_id = s
      /\ cleared.selected_option_id = Nil
  BY <1>1 DEF Cascades
<1>3. /\ db \in AllTables /\ opSeq \in 0..MaxSeq /\ MaxSeq \in Nat /\ Sound(db)
  BY ItineraryAssumption DEF Inv, Typed
<1>4. /\ "options" \in TableNames /\ o \in Ids["options"] /\ row \in Rows["options"]
      /\ RowSound("options", row)
      /\ db["options"][o] = Nil \/ db["options"][o].deleted_at = Nil
      /\ "slots" \in TableNames /\ s \in Ids["slots"] /\ cleared \in Rows["slots"]
      /\ RowSound("slots", cleared)
      /\ mid["slots"][s] = Nil \/ mid["slots"][s].deleted_at = Nil
  BY <1>2 DEF Follows
<1>5. PICK h, S : Chain(h, S, feed, replica, opSeq, db)
  BY DEF Inv, FoldFollows
<1>6. /\ mid \in AllTables
      /\ \E k, T : Chain(k, T, Append(feed, first), replica, opSeq + 1, mid)
  BY <1>2, <1>3, <1>5, ChainGrows
<1>7. PICK k, T : Chain(k, T, Append(feed, first), replica, opSeq + 1, mid)
  BY <1>6
<1>8. opSeq + 2 = (opSeq + 1) + 1 /\ opSeq' \in 0..MaxSeq
  BY <1>2, <1>3
<1>10. Sound(mid)
  BY <1>3, <1>4, PutSound
<1>11. KeepsTombstones(db, mid)
  BY <1>3, <1>4, PutKeeps
<1> HIDE DEF mid
<1>12. second.seq = (opSeq + 1) + 1
  BY <1>2, <1>8
<1>13. \E g, R : Chain(g, R, Append(Append(feed, first), second), replica, (opSeq + 1) + 1, last)
  BY <1>2, <1>6, <1>7, <1>12, ChainGrows
<1>14. FoldFollows'
  BY <1>2, <1>8, <1>13 DEF FoldFollows
<1>15. last \in AllTables
  BY <1>4, <1>6, RowPut
<1>16. Sound(last)
  BY <1>4, <1>6, <1>10, PutSound
<1>17. KeepsTombstones(mid, last)
  BY <1>4, <1>6, PutKeeps
<1> HIDE DEF last
<1>18. KeepsTombstones(db, db')
  BY <1>2, <1>11, <1>17 DEF KeepsTombstones, Tombstoned
<1>19. Typed'
  BY <1>2, <1>8, <1>15 DEF Typed, Inv
<1>20. /\ \A i \in Slots : db'.slots[i] = IF i = s THEN cleared ELSE db.slots[i]
       /\ \A i \in Options : db'.options[i] = IF i = o THEN row ELSE db.options[i]
       /\ \A e \in Entries : db'.budgets[e] = db.budgets[e]
  BY <1>1, CascadeLeaves DEF CascadeRows
<1>21. SeenInv'
  BY <1>2, <1>20 DEF Inv, SeenInv
<1>22. row # Nil
  BY <1>4, RowColumns
<1>23. SelectionsHold(db')
  <2>1. \A i \in Slots : db.slots[i] # Nil => db.slots[i].selected_option_id \in OrNil(Options)
    BY DEF Inv, Typed, AllTables, SlotRows, OrNil
  <2> SUFFICES ASSUME NEW i \in Slots, db'.slots[i] # Nil, db'.slots[i].selected_option_id # Nil
               PROVE  LET x == db'.slots[i].selected_option_id
                      IN db'.options[x] # Nil /\ db'.options[x].slot_id = i
    BY DEF SelectionsHold, OptionOfSlot
  <2> DEFINE x == db'.slots[i].selected_option_id
  <2>2. i # s /\ db'.slots[i] = db.slots[i]
    BY <1>2, <1>20
  <2>3. x \in Options /\ db.options[x] # Nil /\ db.options[x].slot_id = i
    BY <2>1, <2>2 DEF Inv, SelectionsHold, OptionOfSlot, OrNil
  <2>4. x # o
    BY <1>2, <2>2, <2>3
  <2> QED
    BY <1>20, <2>3, <2>4
<1> QED
  BY <1>2, <1>14, <1>15, <1>16, <1>18, <1>19, <1>21, <1>23 DEF Inv

(* A reading keeps the invariant: it is of the row as it is.                *)
LEMMA BudgetGetKeeps ==
  ASSUME Inv, NEW u \in Users, NEW e \in Entries, BudgetGet(u, e)
  PROVE  Inv'
<1>1. /\ db.budgets[e] # Nil /\ seen' = [seen EXCEPT ![u][e] = db.budgets[e]]
      /\ db' = db /\ opSeq' = opSeq /\ feed' = feed /\ replica' = replica
  BY DEF BudgetGet, See, EntryLive
<1>2. db.budgets[e] \in BudgetRows
  BY <1>1, RowsFound
<1>3. seen \in [Users -> [Entries -> OrNil(BudgetRows)]]
  BY DEF Inv, Typed
<1>4. seen' \in [Users -> [Entries -> OrNil(BudgetRows)]]
  BY <1>1, <1>2, <1>3 DEF OrNil
<1>5. \A v \in Users, i \in Entries :
         \/ seen'[v][i] = seen[v][i]
         \/ i = e /\ seen'[v][i] = db.budgets[e]
  BY <1>1, <1>3
<1>6. db.budgets[e].version <= db.budgets[e].version
  BY <1>2 DEF BudgetRows, Versions
<1>7. SeenInv'
  BY <1>1, <1>5, <1>6 DEF Inv, SeenInv
<1>8. Typed' /\ FoldFollows'
  BY <1>1, <1>4 DEF Inv, Typed, FoldFollows
<1> QED
  BY <1>1, <1>7, <1>8 DEF Inv

(* The replica folds the next operation, or refuses one that leaves a gap.  *)
LEMMA DeliverKeeps ==
  ASSUME Inv, Deliver
  PROVE  Inv' /\ KeepsTombstones(replica.t, replica'.t)
<1>1. PICK i \in DOMAIN feed :
        /\ replica' = Apply(replica, feed[i])
        /\ feed' = SubSeq(feed, 1 + replica'.seq - replica.seq, Len(feed))
        /\ UNCHANGED <<db, opSeq, seen>>
  BY DEF Deliver
<1>2. PICK h, S : Chain(h, S, feed, replica, opSeq, db)
  BY DEF Inv, FoldFollows
<1>3. /\ feed \in Seq(S) /\ h[0] = replica /\ h \in [0..Len(feed) -> Replicas]
      /\ \A j \in 1..Len(feed) : feed[j].seq = replica.seq + j
  BY <1>2 DEF Chain
<1>4. /\ i \in 1..Len(feed) /\ Len(feed) \in Nat /\ Len(feed) > 0
      /\ replica.seq \in Nat /\ feed[i].seq = replica.seq + i
  BY <1>1, <1>3 DEF Replicas
<1>5. FoldFollows' /\ KeepsTombstones(replica.t, replica'.t)
  <2>1. CASE i = 1
    <3>1. /\ Apply(replica, feed[1]) = h[1] /\ h[1].seq = replica.seq + 1
          /\ KeepsTombstones(replica.t, h[1].t)
          /\ \E k : Chain(k, S, SubSeq(feed, 2, Len(feed)), h[1], opSeq, db)
      BY <1>2, <1>4, ChainShrinks
    <3>2. replica' = h[1] /\ replica'.seq = replica.seq + 1
      BY <1>1, <2>1, <3>1
    <3>3. 1 + replica'.seq - replica.seq = 2
      BY <1>4, <3>2
    <3>4. feed' = SubSeq(feed, 2, Len(feed)) /\ db' = db /\ opSeq' = opSeq
      BY <1>1, <3>3
    <3>5. FoldFollows'
      BY <3>1, <3>2, <3>4 DEF FoldFollows
    <3> QED
      BY <3>1, <3>2, <3>5
  <2>2. CASE i # 1
    <3>1. feed[i].seq # replica.seq + 1
      BY <1>4, <2>2
    <3>2. replica' = replica
      BY <1>1, <3>1 DEF Apply
    <3>3. 1 + replica'.seq - replica.seq = 1
      BY <1>4, <3>2
    <3>4. SubSeq(feed, 1, Len(feed)) = feed
      BY <1>3
    <3>5. feed' = feed /\ db' = db /\ opSeq' = opSeq
      BY <1>1, <3>3, <3>4
    <3>6. FoldFollows'
      BY <3>2, <3>5 DEF Inv, FoldFollows
    <3>7. KeepsTombstones(replica.t, replica'.t)
      BY <3>2 DEF KeepsTombstones
    <3> QED
      BY <3>6, <3>7
  <2> QED
    BY <2>1, <2>2
<1>6. db' = db /\ opSeq' = opSeq /\ seen' = seen
  BY <1>1
<1>7. Typed' /\ SeenInv'
  BY <1>6 DEF Inv, Typed, SeenInv
<1> QED
  BY <1>5, <1>6, <1>7 DEF Inv

-----------------------------------------------------------------------------
(* The invariant holds at first: nothing is left to fold.                   *)
LEMMA InitInv ==
  ASSUME Init
  PROVE  Inv
<1>1. /\ db = SeedTables /\ opSeq = 0 /\ feed = <<>> /\ replica = [seq |-> 0, t |-> SeedTables]
      /\ seen = [u \in Users |-> [e \in Entries |-> Nil]]
  BY DEF Init
<1>2. /\ MaxSeq \in Nat /\ SeedTables \in AllTables
      /\ TimesHold(SeedTables) /\ SplitsHold(SeedTables) /\ SelectionsHold(SeedTables)
  BY ItineraryAssumption
<1>3. Typed
  BY <1>1, <1>2 DEF Typed, OrNil
<1>4. SeenInv
  BY <1>1 DEF SeenInv
<1>5. Sound(db) /\ SelectionsHold(db)
  BY <1>1, <1>2 DEF Sound
<1>6. FoldFollows
  <2> DEFINE h == [i \in 0..0 |-> replica]
  <2>1. feed \in Seq({}) /\ Len(feed) = 0
    BY <1>1
  <2>2. replica \in Replicas /\ replica.seq = 0 /\ replica.t = db
    BY <1>1, <1>2 DEF Replicas
  <2>3. h \in [0..0 -> Replicas] /\ h[0] = replica
    BY <2>2
  <2>4. \A i \in 0..0 : h[i].seq = replica.seq + i /\ Sound(h[i].t)
    BY <1>5, <2>2, <2>3
  <2>5. LikeTables(h[0].t, db)
    BY <2>2, <2>3 DEF LikeTables, Alike
  <2> HIDE DEF h
  <2>6. opSeq = replica.seq + Len(feed) /\ 1..Len(feed) = {}
    BY <1>1, <2>1, <2>2
  <2>7. Chain(h, {}, feed, replica, opSeq, db)
    BY <2>1, <2>3, <2>4, <2>5, <2>6 DEF Chain
  <2> QED
    BY <2>7 DEF FoldFollows
<1> QED
  BY <1>3, <1>4, <1>5, <1>6 DEF Inv

(* Every step keeps it, and what is deleted, in the tables and the replica. *)
LEMMA StepInv ==
  ASSUME Inv, [Next]_vars
  PROVE  Inv' /\ KeepsTombstones(db, db') /\ KeepsTombstones(replica.t, replica'.t)
<1>1. \A t : KeepsTombstones(t, t)
  BY DEF KeepsTombstones
<1>2. ASSUME NEW u \in Users, RowStep(u) \/ CascadeStep(u) \/ LedgerStep(u)
      PROVE  Inv' /\ KeepsTombstones(db, db') /\ replica' = replica
  <2>1. Inv' /\ KeepsTombstones(db, db')
    BY <1>2, RowStepKeeps, CascadeStepKeeps, LedgerStepKeeps
  <2>2. replica' = replica
    BY <1>2 DEF RowStep, CascadeStep, LedgerStep, LedgerWrites, Writes, Cascades
  <2> QED
    BY <2>1, <2>2
<1>3. ASSUME NEW u \in Users, NEW e \in Entries, BudgetGet(u, e)
      PROVE  Inv' /\ db' = db /\ replica' = replica
  BY <1>3, BudgetGetKeeps DEF BudgetGet
<1>4. ASSUME Deliver
      PROVE  Inv' /\ db' = db /\ KeepsTombstones(replica.t, replica'.t)
  BY <1>4, DeliverKeeps DEF Deliver
<1>5. ASSUME UNCHANGED vars
      PROVE  Inv' /\ db' = db /\ replica' = replica
  BY <1>5 DEF vars, Inv, Typed, SeenInv, FoldFollows
<1> QED
  BY <1>1, <1>2, <1>3, <1>4, <1>5, NextIs

(* So it holds throughout.                                                  *)
THEOREM ItineraryInv == Spec => []Inv
<1>1. Init => Inv
  BY InitInv
<1>2. Inv /\ [Next]_vars => Inv'
  BY StepInv
<1> QED
  BY <1>1, <1>2, PTL DEF Spec

(* The invariant says where the replica is.                                 *)
LEMMA ReplicaPlace ==
  ASSUME Inv
  PROVE  /\ replica \in [seq : 0..MaxSeq, t : AllTables] /\ Sound(replica.t)
         /\ \A i \in DOMAIN feed : feed[i].seq = replica.seq + i
         /\ replica.seq + Len(feed) = opSeq
<1>1. PICK h, S : Chain(h, S, feed, replica, opSeq, db)
  BY DEF Inv, FoldFollows
<1>2. /\ feed \in Seq(S) /\ h[0] = replica /\ h \in [0..Len(feed) -> Replicas]
      /\ opSeq = replica.seq + Len(feed)
      /\ \A j \in 0..Len(feed) : Sound(h[j].t)
      /\ \A j \in 1..Len(feed) : feed[j].seq = replica.seq + j
  BY <1>1 DEF Chain
<1>3. Len(feed) \in Nat /\ DOMAIN feed = 1..Len(feed)
  BY <1>2
<1>4. replica \in Replicas /\ Sound(replica.t)
  BY <1>2, <1>3
<1>5. replica.seq \in Nat /\ replica.t \in AllTables
      /\ replica = [seq |-> replica.seq, t |-> replica.t]
  BY <1>4 DEF Replicas
<1>6. replica.seq \in 0..MaxSeq
  <2>1. opSeq \in 0..MaxSeq /\ MaxSeq \in Nat
    BY ItineraryAssumption DEF Inv, Typed
  <2>2. opSeq = replica.seq + Len(feed)
    BY <1>2
  <2> QED
    BY <1>3, <1>5, <2>1, <2>2
<1> QED
  BY <1>2, <1>3, <1>4, <1>5, <1>6

(***************************************************************************)
(* The tables, the replica and what members have read are typed, and the   *)
(* feed numbers the operations between the replica and the log without a   *)
(* gap (TypeOK).                                                           *)
(***************************************************************************)
THEOREM ItineraryTyped == Spec => []TypeOK
<1>1. Inv => TypeOK
  BY ReplicaPlace DEF Inv, Typed, TypeOK
<1> QED
  BY <1>1, ItineraryInv, PTL

(***************************************************************************)
(* No slot ends before it starts, in the tables or in any state the fold   *)
(* goes through (service/slot.go, Update).                                 *)
(***************************************************************************)
THEOREM TimesStayOrdered == Spec => []TimesOrdered
<1>1. Inv => TimesOrdered
  BY ReplicaPlace DEF Inv, Sound, TimesOrdered
<1> QED
  BY <1>1, ItineraryInv, PTL

(***************************************************************************)
(* The splits of an entry sum to its amount, in the tables and in any      *)
(* state the fold goes through (domain/budget.go).                         *)
(***************************************************************************)
THEOREM SplitsStaySummed == Spec => []SplitsSumToTotal
<1>1. Inv => SplitsSumToTotal
  BY ReplicaPlace DEF Inv, Sound, SplitsSumToTotal
<1> QED
  BY <1>1, ItineraryInv, PTL

(* Tables that are alike are the same but for the latitudes.                *)
LEMMA AlikeButLatitude ==
  ASSUME NEW s \in AllTables, NEW t \in AllTables, LikeTables(s, t)
  PROVE  [s EXCEPT !.options = [o \in Options |-> ExceptLatitude(@[o])]]
           = [t EXCEPT !.options = [o \in Options |-> ExceptLatitude(@[o])]]
<1>1. /\ s = [n \in TableNames |-> s[n]] /\ \A n \in TableNames : s[n] \in [Ids[n] -> OrNil(Rows[n])]
      /\ t = [n \in TableNames |-> t[n]] /\ \A n \in TableNames : t[n] \in [Ids[n] -> OrNil(Rows[n])]
  BY TablesByName
<1>2. \A n \in TableNames \ {"options"} : s[n] = t[n]
  <2> SUFFICES ASSUME NEW n \in TableNames \ {"options"} PROVE s[n] = t[n]
    OBVIOUS
  <2>1. \A i \in Ids[n] : s[n][i] = t[n][i]
    BY DEF LikeTables, Alike
  <2> QED
    BY <1>1, <2>1
<1>3. "options" \in TableNames /\ Ids["options"] = Options /\ Rows["options"] = OptionRows
  BY NameCases DEF TableNames
<1>4. ASSUME NEW o \in Options
      PROVE  ExceptLatitude(s.options[o]) = ExceptLatitude(t.options[o])
  <2> DEFINE a == s.options[o]
             b == t.options[o]
  <2>1. a \in OrNil(OptionRows) /\ b \in OrNil(OptionRows) /\ Alike("options", a, b)
    BY <1>1, <1>3 DEF LikeTables
  <2> HIDE DEF a, b
  <2>2. CASE a = b
    BY <2>2 DEF a, b
  <2>3. CASE a # b
    <3>1. /\ a # Nil /\ b # Nil /\ a \in OptionRows /\ b \in OptionRows
          /\ \A f \in Columns["options"] : f # "place_lat" => a[f] = b[f]
          /\ a.place_lat = Nil <=> b.place_lat = Nil
      BY <2>1, <2>3 DEF Alike, OrNil
    <3>2. HasColumns("options", a) /\ HasColumns("options", b)
      BY <3>1, OptionColumns
    <3> DEFINE x == [a EXCEPT !.place_lat = IF @ = Nil THEN Nil ELSE "some"]
               y == [b EXCEPT !.place_lat = IF @ = Nil THEN Nil ELSE "some"]
    <3>3. /\ x = [f \in Columns["options"] |-> x[f]] /\ y = [f \in Columns["options"] |-> y[f]]
          /\ \A f \in Columns["options"] : x[f] = y[f]
      BY <3>1, <3>2 DEF HasColumns
    <3>4. x = y
      BY <3>3
    <3> QED
      BY <3>1, <3>4 DEF ExceptLatitude, a, b
  <2> QED
    BY <2>2, <2>3
<1>5. [o \in Options |-> ExceptLatitude(s.options[o])] = [o \in Options |-> ExceptLatitude(t.options[o])]
  BY <1>4
<1> DEFINE p == [o \in Options |-> ExceptLatitude(s.options[o])]
           q == [o \in Options |-> ExceptLatitude(t.options[o])]
<1>6. p = q
  BY <1>5
<1> HIDE DEF p, q
<1>7. [s EXCEPT !.options = p] = [t EXCEPT !.options = q]
  BY <1>1, <1>2, <1>6
<1> QED
  BY <1>7 DEF p, q

(***************************************************************************)
(* fold(trip_ops) == database state (domain/op.go, Replica): whatever was  *)
(* written, and however far the replica has come, folding the operations   *)
(* it has not seen gives the tables as they are.                           *)
(***************************************************************************)
THEOREM FoldIsTheDatabase == Spec => []FoldMatchesTables
<1>1. ASSUME Inv PROVE FoldMatchesTables
  <2>1. PICK h, S : Chain(h, S, feed, replica, opSeq, db)
    BY <1>1 DEF Inv, FoldFollows
  <2>2. Fold(replica, feed) = h[Len(feed)]
    BY <2>1, FoldIsChain
  <2>3. /\ feed \in Seq(S) /\ opSeq = replica.seq + Len(feed)
        /\ h \in [0..Len(feed) -> Replicas]
        /\ \A i \in 0..Len(feed) : h[i].seq = replica.seq + i
        /\ LikeTables(h[Len(feed)].t, db)
    BY <2>1 DEF Chain
  <2>4. Len(feed) \in 0..Len(feed)
    BY <2>3
  <2> DEFINE folded == Fold(replica, feed)
  <2>5. folded.seq = opSeq /\ folded \in Replicas /\ LikeTables(folded.t, db)
    BY <2>2, <2>3, <2>4
  <2> HIDE DEF folded
  <2>6. folded.t \in AllTables /\ db \in AllTables
    BY <1>1, <2>5 DEF Replicas, Inv, Typed
  <2>7. [folded.t EXCEPT !.options = [o \in Options |-> ExceptLatitude(@[o])]]
          = [db EXCEPT !.options = [o \in Options |-> ExceptLatitude(@[o])]]
    BY <2>5, <2>6, AlikeButLatitude
  <2> QED
    BY <2>5, <2>7 DEF FoldMatchesTables, folded
<1> QED
  BY <1>1, ItineraryInv, PTL

(***************************************************************************)
(* No edit, move, selection, cascade, create or late operation brings a    *)
(* deleted row back, in the tables or in the replica.                      *)
(***************************************************************************)
THEOREM DeletedRowsStayDeleted == Spec => DeletedStaysDeleted
<1>1. ASSUME Inv, [Next]_vars
      PROVE  \A n \in {"days", "slots", "options", "budgets", "comments"} :
                /\ \A i \in DOMAIN db[n] : Tombstoned(db[n], i) => Tombstoned(db'[n], i)
                /\ \A i \in DOMAIN replica.t[n] :
                      Tombstoned(replica.t[n], i) => Tombstoned(replica'.t[n], i)
  <2>1. KeepsTombstones(db, db') /\ KeepsTombstones(replica.t, replica'.t)
    BY <1>1, StepInv
  <2>2. db \in AllTables /\ replica.t \in AllTables
    BY <1>1, ReplicaPlace DEF Inv, Typed
  <2>3. \A n \in TableNames : DOMAIN db[n] = Ids[n] /\ DOMAIN replica.t[n] = Ids[n]
    BY <2>2, TablesByName
  <2>4. {"days", "slots", "options", "budgets", "comments"} = TableNames \ {"votes"}
    BY DEF TableNames
  <2> QED
    BY <2>1, <2>3, <2>4 DEF KeepsTombstones, Tombstoned
<1> QED
  BY <1>1, ItineraryInv, PTL DEF Spec, DeletedStaysDeleted

(* What one call changes in the ledger.                                     *)
LEMMA LedgerKept ==
  ASSUME Inv, [Next]_vars, ~\E u \in Users : LedgerStep(u)
  PROVE  \A e \in Entries : db'.budgets[e] = db.budgets[e]
<1>0. "budgets" \in TableNames /\ Ids["budgets"] = Entries
  BY NameCases DEF TableNames
<1>1. ASSUME NEW u \in Users, RowStep(u)
      PROVE  \A e \in Entries : db'.budgets[e] = db.budgets[e]
  <2>1. PICK n, id, new, op : n \in TableNames \ {"budgets"} /\ Writes(u, n, id, new, op)
    BY <1>1 DEF RowStep
  <2>2. \A m \in TableNames : \A i \in Ids[m] :
           db'[m][i] = IF m = n /\ i = id THEN new ELSE db[m][i]
    BY <2>1, WritesKeep
  <2> QED
    BY <1>0, <2>1, <2>2
<1>2. ASSUME NEW u \in Users, CascadeStep(u)
      PROVE  \A e \in Entries : db'.budgets[e] = db.budgets[e]
  BY <1>2, CascadeLeaves DEF CascadeStep, CascadeRows
<1> QED
  BY <1>1, <1>2, NextIs DEF BudgetGet, Deliver, vars

(***************************************************************************)
(* An entry of the ledger is only ever replaced or deleted by a member     *)
(* whose last reading is the row that goes (service/oplog.go,              *)
(* requireVersion).                                                        *)
(***************************************************************************)
THEOREM NobodyOverwritesBlindly == Spec => NoBlindOverwrite
<1>1. ASSUME Inv, [Next]_vars, NEW e \in Entries, db.budgets[e] # Nil,
             db'.budgets[e] # db.budgets[e]
      PROVE  seen[Last(feed').actor][e] = db.budgets[e]
  <2>1. PICK u, i, new, op : u \in Users /\ i \in Entries /\ LedgerWrites(u, i, new, op)
    BY <1>1, LedgerKept DEF LedgerStep
  <2>2. \A m \in TableNames : \A j \in Ids[m] :
           db'[m][j] = IF m = "budgets" /\ j = i THEN new ELSE db[m][j]
    BY <1>1, <2>1, WritesKeep DEF LedgerWrites
  <2>3. "budgets" \in TableNames /\ Ids["budgets"] = Entries
    BY NameCases DEF TableNames
  <2>4. i = e
    BY <1>1, <2>2, <2>3
  <2>5. seen[u][e] = db.budgets[e] /\ op.actor = u /\ feed' = Append(feed, op)
    BY <1>1, <2>1, <2>4 DEF LedgerWrites, Writes
  <2>6. PICK h, S : Chain(h, S, feed, replica, opSeq, db)
    BY <1>1 DEF Inv, FoldFollows
  <2>7. feed \in Seq(S)
    BY <2>6 DEF Chain
  <2>8. Last(feed') = op
    BY <2>5, <2>7 DEF Last
  <2> QED
    BY <2>5, <2>8
<1>2. ASSUME Inv, [Next]_vars
      PROVE  \A e \in Entries : (db.budgets[e] # Nil /\ db'.budgets[e] # db.budgets[e])
                                    => seen[Last(feed').actor][e] = db.budgets[e]
  BY <1>1, <1>2
<1> QED
  BY <1>2, ItineraryInv, PTL DEF Spec, NoBlindOverwrite

(***************************************************************************)
(* Deleting an option leaves no live slot that has it selected             *)
(* (service/option.go, Delete).                                            *)
(***************************************************************************)
THEOREM DeletesClearSelections == Spec => DeleteClearsSelection
<1>1. ASSUME Inv, [Next]_vars, NEW o \in Options, NEW s \in Slots,
             OptionLive(db, o), ~OptionLive(db', o), SlotLive(db', s),
             db'.slots[s].selected_option_id = o
      PROVE  FALSE
  <2>1. Inv'
    BY <1>1, StepInv
  <2>2. o # Nil
    BY ItineraryAssumption
  <2>3. db'.slots[s] # Nil /\ db'.options[o] # Nil /\ db'.options[o].slot_id = s
    BY <1>1, <2>1, <2>2 DEF Inv, SelectionsHold, OptionOfSlot, SlotLive
  <2>4. db.options[o] # Nil /\ db'.options[o] # db.options[o] /\ db'.options[o].deleted_at # Nil
    BY <1>1, <2>3 DEF OptionLive
  <2>5. "options" \in TableNames /\ Ids["options"] = Options
        /\ "slots" \in TableNames /\ Ids["slots"] = Slots
    BY NameCases DEF TableNames
  <2>6. ASSUME NEW u \in Users, RowStep(u) PROVE FALSE
    <3>1. PICK n, id, new, op :
            /\ n \in TableNames \ {"budgets"}
            /\ Writes(u, n, id, new, op)
            /\ n = "options" => new.deleted_at = Nil \/ db.slots[new.slot_id].selected_option_id # id
      BY <2>6 DEF RowStep
    <3>2. \A m \in TableNames : \A i \in Ids[m] :
             db'[m][i] = IF m = n /\ i = id THEN new ELSE db[m][i]
      BY <1>1, <3>1, WritesKeep
    <3>3. n = "options" /\ id = o /\ db'.options[o] = new
      BY <2>4, <2>5, <3>2
    <3>4. db'.slots[s] = db.slots[s]
      BY <2>5, <3>2, <3>3
    <3> QED
      BY <1>1, <2>3, <2>4, <3>1, <3>3, <3>4
  <2>7. ASSUME NEW u \in Users, CascadeStep(u) PROVE FALSE
    <3>1. PICK x, i, row, cleared, first, second :
            x \in Options /\ i \in Slots /\ Cascades(u, x, i, row, cleared, first, second)
      BY <2>7 DEF CascadeStep
    <3>2. CascadeRows(x, i, row, cleared)
      BY <1>1, <3>1, CascadeLeaves
    <3>3. x = o /\ db'.options[o] = row
      BY <2>4, <3>2 DEF CascadeRows
    <3>4. i = s
      BY <2>3, <3>2, <3>3 DEF CascadeRows
    <3>5. db'.slots[s].selected_option_id = Nil
      BY <3>2, <3>4 DEF CascadeRows
    <3> QED
      BY <1>1, <2>2, <3>5
  <2>8. ASSUME NEW u \in Users, LedgerStep(u) PROVE FALSE
    <3>1. PICK e, new, op : e \in Entries /\ Writes(u, "budgets", e, new, op)
      BY <2>8 DEF LedgerStep, LedgerWrites
    <3>2. \A m \in TableNames : \A i \in Ids[m] :
             db'[m][i] = IF m = "budgets" /\ i = e THEN new ELSE db[m][i]
      BY <1>1, <3>1, WritesKeep
    <3> QED
      BY <2>4, <2>5, <3>2
  <2>9. db' # db
    BY <2>4
  <2> QED
    BY <1>1, <2>6, <2>7, <2>8, <2>9, NextIs DEF BudgetGet, Deliver, vars
<1>2. ASSUME Inv, [Next]_vars
      PROVE  \A o \in Options, s \in Slots :
                (OptionLive(db, o) /\ ~OptionLive(db', o) /\ SlotLive(db', s))
                    => db'.slots[s].selected_option_id # o
  BY <1>1, <1>2
<1> QED
  BY <1>2, ItineraryInv, PTL DEF Spec, DeleteClearsSelection
=============================================================================
