# Junto: a verification project

Junto is a collaborative trip planner: a Go server (REST and WebSocket, any
number of instances, Postgres, Redis) and a Next.js client. Its core promise is
that all members of a trip see the same itinerary, live. Every mutation of a
trip appends operations to a per-trip log in the same transaction, and every
client follows that log. This directory models that path, from a request to
another member's screen, and around it what the log carries (the itinerary and
the ledger, their order), who may use it (accounts, sessions, sockets, members)
and the files that live outside the database, in TLA+. TLC checks the models and
TLAPS proves their safety for every value of the constants.

## 1. The system

| Component | State | Operations | Hard because |
|---|---|---|---|
| Operation log and sequencer (`service/oplog.go`, `repository/oplog.go`, `repository/db.go`, `queries/ops.sql`) | `trips.op_seq`, `trip_ops`, the trip's row lock | `oplog.write`: lock, mutate, number, append, commit, publish | concurrent writers, rollback of numbers, lost commit answers, crashes between commit and publication |
| Intent submission (`syncengine/engine.go`) | none of its own | `Submit`: look the client op id up, dispatch to a service, look again on a conflict | retries concurrent with their first attempt |
| Broker and rooms (`syncengine/broker.go`, `room.go`) | per instance and trip: subscribers, `next`, `pending`, inbox, reorder timer | `Publish`, `Subscribe`, `Close`, the dispatch goroutine | publications reordered, lost, dropped; reads that fail; joins at a stale head |
| Redis fan-out (`pubsub/redis.go`) | channels joined | `Publish`, `Join`, `Leave`, `Run` | no order across publishers, no delivery guarantee |
| Replay and gate (`syncengine/engine.go`, `gate.go`) | gate buffer, replay cursor | `Engine.Subscribe`, `replayFrom`, `release` | live events arrive while the log is replayed; the replay can fail half way |
| Connection (`transport/ws/conn.go`) | bounded send buffer, one subscription per trip | subscribe, unsubscribe, op, `Deliver`, `Dropped`, shutdown | drops run in their own goroutines and race the handlers |
| Client socket (`web/lib/socket.ts`) | per trip: followed or not, last sequence number | subscribe, unsubscribe, resume, resync | its cursor decides what a resume asks for |
| Trip page (`TripSocketContext.tsx`, `CommentThread.tsx`) | what it shows, the load under way | mount, load over REST, apply an operation, load again on a resync | loads and the socket's stream are two channels with no order between them |
| Itinerary services (`service/slot.go`, `option.go`, `day.go`, `vote.go`, `comment.go`) | entity tables with versions and tombstones | create, edit, move, select, vote, delete | selection against deletion, field-level merges, positions |
| Position keys (`pkg/fracdex`, `NeighbourPositions` of slots and days) | a key per slot and day | a key between two neighbours | anchors that moved, ends of the digit range |
| Fold (`domain/op.go`) | `Replica` | `Apply` | must reproduce the tables exactly |
| Budget (`service/budget.go`) | entries, splits | create, update, delete | shares must add up |
| Sessions, tickets, revocation (`service/auth.go`, `ws/ticket.go`, `ws/registry.go`, `pubsub/revocation.go`) | sessions, refresh tokens, tickets, live connections | login, refresh, logout, reset, redeem, revoke | rotation races, revocation against handshake |
| Membership (`service/membership.go`, `authz.go`) | members, invitations | role change, removal, redeem | checks outside the write they guard |
| Attachments, covers (`service/attachment.go`, `trip_cover.go`) | rows with a status, stored objects | request, confirm, reject, delete, sweep | three parties, no common transaction |

How they interact: a service call runs `oplog.write`, which calls
`Broker.Publish` after its commit. `Publish` enqueues the operations into the
local room and sends them to the peers through Redis. The room broadcasts them, in
order, to its subscriptions, each a gate in front of a connection; the
connection's write pump sends them to the browser, which moves its cursor and
sends that cursor when it subscribes again. Nothing on the way is reliable: the
log is the delivery guarantee, and rooms, replays and resyncs read it when
notifications fail.

What makes them correct: the log is gapless, append-only and holds each intent
once and whole; tables and log agree; nothing uncommitted is published; a room
offers its subscribers the log, in order and without a gap; a client's
socket hands on every operation between the head it was told and its cursor, and its
page shows those and what it loaded; everything waiting is
eventually served. The fold of the log is the tables; merged edits stay valid;
a list has one order. A revoked session keeps no socket, a refresh token one
successor, an invitation its limit; a file that is shown is in storage.

Around that path, `service/auth.go` revokes sessions and tells `ws/registry.go`
of every instance through Redis; `authz.require` reads the member's role before
each service call; attachments and covers write rows in Postgres while the
browser writes the object, and only a confirmed file is announced in the log.

## 2. The modules

**`OpLog`** models one trip's write path. `Procs` are request goroutines on any
instance; `pc` says where each one is: `check` (Submit's pre-check), `lock` (waiting in
`LockTripForWrite`), `fn` (the service's mutation), `record` (one
`recorder.record` per operation), `commit`, `publish`, `recheck` (the look-up
after `ErrAlreadyExists`). `ops[p]` is `recorder.ops`; the uncommitted rows
live there, so a rollback is forgetting them. A client op id stands for a
fixed intent; the same one may be in several goroutines at once. A `cascade` is the
deletion of a slot's selected option, which commits as two operations.
`trip_ops` is a set of rows so that holes, duplicates and late insertions can
be expressed. Other failures are `Fail` (anything before the commit),
`CommitUnacknowledged` and `Crash`. Entities are `absent`, `live` or `deleted`.
Votes, which are upserts and never conflict, behave as edits of a live slot.

**`OrderedStream`** is what the broker promises: the log grows; a subscriber joins
no later than the operation after the head, and is offered every operation from
there on, in order, once, until it leaves.

**`RoomDispatch`** models the rooms of one trip on several instances, one
action per case of `dispatch`'s select, and one turn of `drain` per step so
that everything can happen between two broadcasts. Redis (external) loses any
message and orders nothing; a publisher may die before it publishes; an inbox
drops what does not fit; `ListSince` and `CurrentOpSeq` may fail. `armed` is the
reorder timer. A closed room keeps canonical values, since the next subscriber
makes a new one. It is shown to implement `OrderedStream` with
`due` the room's `next` for its members and `offered` the last broadcast.

**`Session`** composes `OrderedStream` with one connection and its browser.
The read pump serves one frame at a time (`rp.pc`): `Engine.Subscribe` with its
checks, joining, announcing, replacing the old subscription, the `subscribed`
frame, the replay page by page with back pressure, and the gate's release, which
holds the gate's lock (a broadcast waits meanwhile). A sink that refuses an event starts
a drop goroutine, modelled in two steps (`DropClose`, `Dropped`), as in
`room.broadcast`. The client keeps a cursor, resumes from it on `Connect`, and
subscribes afresh after a resync. A fresh `subscribed` frame only tells it
the head; the ghost `base` is the newest head it was told that way. `seen` and
`withheld` are ghosts too: the operations beyond `base` the socket has handed to its
listeners, and those refused or left out on an open connection. A broadcast is one step: in the code a subscription closed while one
is under way may still be handed that event.

**`TripPage`** puts a page above `Session`'s socket. A mount or a resync starts a load
(`StartLoad`), which cancels the one under way; the server reads the tables for it
(`ReadTables`), its answer replaces what is shown (`Loaded`), or it fails. Nothing
orders these steps with the socket's, as in the code: the socket emits
`resync` and sends the fresh subscribe at once, and nobody waits for the load. The page
applies what the socket hands it (`ReadFrame`), as a slot's discussion does. `shown` is
what the screen reflects; `renewed` (the head when the page last began to load) and
`overtaken` (operations applied between a load's reading and its arrival, which
it erases) say by which race an operation can be missing.

**`Ops`** is `domain/op.go`: which fields each kind of operation may carry, how a
row and a mask become a payload, and `Replica.Apply` for every entity. **`Tables`**
has the SQL statements as operators from row to row, with the version guard, the
foreign keys, the unique dates and the deferred trigger on the sum of the shares.
**`Itinerary`** composes them: one action per service call, which is a transaction
under the trip's lock (`OpLog` shows those to be serial), with the requests of
the HTTP handlers and the intents of `syncengine/dispatch.go` as inputs
(`...Requests`, `...Intents`), beside a replica that knows only the operations.
`seen` is what each member last read of a ledger entry. A call that is refused
changes nothing and is no action.

**`Fracdex`** is `pkg/fracdex` over a base and a number of heads that are
parameters (62 and 26 on either side of zero in the code): a key is a head, the digits
of the integer part the head announces, and a fraction. `Midpoint` and `NKeys` are
recursive functions. **`Positions`** extends it and says which key
a created or moved slot or day gets: the queries for the anchor's position and
the next one in the bucket, `KeyBetween` of the two, and the write, which checks
a key's length and nothing else. `MCPositions` gives the parameters values and
evaluates `BetweenStrict` on keys one symbol longer than those the run stores.

**`Accounts`** (users, sessions, refresh tokens, mailed links), **`Sockets`**
(tickets, handshakes, the registries of the instances, the revocation channel),
**`Membership`** (roles, invitations) and **`Media`** (the trip with its cover,
attachments, uploads, object storage) share one pool of goroutines: `call[g]` is
what goroutine `g` has read and the step it takes next, and each statement or
transaction is a step, so whatever was read may be stale when it is used.
Operators named after statements (`CreateSession`, `MarkRefreshTokenUsed`,
`CountUse`, `SetCover`) are the rows they leave. **`Server`** composes the four. Ghosts: a session remembers the
password it was opened with and whether the account had another one by then (`straddles`), a
connection whether its session was already revoked when it was registered
(`late`), `lost` the revocations an instance never hears of, an attachment whether a
sweep has deleted its object (`swept`), an upload whether its browser put a
second object (`again`), the cover which goroutines are about to overwrite it
(`overtaken`), `joined` who came in by which invitation. `Media` folds
its operations with `Ops`.

`MCOpLog`, `MCRoomDispatch`, `MCSession`, `MCTripPage`, `MCItinerary`, `MCPositions` and
`MCServer` give the constants values. The theorems are in `OpLog_proofs`,
`RoomDispatch_proofs`, `Session_proofs`, `Itinerary_proofs`, `Positions_proofs`,
`Server_proofs` (types, and which tables each kind of step can touch), and on top of
that `Accounts_proofs` (accounts and sockets) and `Trip_proofs` (roster and files).
Definitions marked "Mutant" are
the plausible bugs that the properties are known to catch; no specification uses
them.

## 3. The runs

| Run | Checks | Shows |
|---|---|---|
| `oplog` | `TypeOK`, `LogGapless`, `IntentExactlyOnce`, `PublishedIsCommitted`, `TableMatchesLog`, `AnswerTruthful`, `NoLateVisibility`, `EveryRequestEnds` | the write path is correct under retries, failures and crashes |
| `oplog_retry` | `RetryReceivesOriginal` (violated) | a retry can be told `not_found` for a committed operation |
| `rooms` | `TypeOK`, `NeverAheadOfLog`, `SinkSeesContiguous`, `TimerRunsWhileHolding`, `ImplementsOrderedStream`, `EveryOpOffered` | rooms implement `OrderedStream` and need no publication to do so eventually |
| `session` | `TypeOK`, `SeenUpToCursor`, `GateHoldsStream` | replay, gate and cursor fit together: what was committed between the head last told and the cursor was handed on, or withheld |
| `trip_page` | `PageMissesOnlyRaces`, `SubscriberCatchesUp` | what a loaded page misses is what three named races explain, nothing from before it was opened or told to resync; a subscription that stays delivers what was committed after the head the client was told |
| `session_resume` | `ResumeLosesNothing` (violated) | a client can resume from a cursor beyond an operation it never got |
| `session_release` | `WithheldIsTold` (violated) | `gate.release` loses an operation silently |
| `session_orphan` | `OneSubscription` (violated) | a late drop notice orphans the new subscription |
| `itinerary` | `TypeOK`, `FoldMatchesTables`, `TimesOrdered`, `SplitsSumToTotal`, `NoBlindOverwrite`, `DeleteClearsSelection`, `DeletedStaysDeleted` | the operations say what the tables say, and concurrent edits keep rows valid |
| `positions` | `TypeOK`, `OrderUnambiguous`, `PlacedAfterAnchor`, `EveryGapOpen`, `BulkKeysInside` | lists have one order, rows land where they were dropped, there is always a key left but beside the reserved bound, and bulk keys ascend inside their gap |
| `server` | `TypeOK`, `RotationLinear`, `ResetSeversSessions`, `RevokedSocketsExcused`, `InvitationsHonoured`, `ObjectsKept`, `AnnouncementsMatch`, `RevocationReaches`, `UploadReplacedOnlyByRace` | tokens, sockets, invitations and files survive the races between their statements, but for the exceptions the properties name |
| `media_removal` | `RemovalsKnown` (violated) | deleting a refused upload writes an operation that no fold accepts |

The five violations are disagreements between the code and its own comments;
`PROJECT.json` quotes them.

**Bounds.** `oplog`: two goroutines and one entity are the smallest instance
with a race; three intents cover a create, an edit and a cascade, each
retried; four sequence numbers let a two-operation intent follow others.
Deadlock is not checked there because `MaxOpSeq` stops new requests. `rooms`: two
subscribers on one instance (one opens the room, the other joins it open), a peer
instance that writes, three operations in batches of up to two, an inbox of one
and a page of two, so that overflow and a repair that does not reach the end both
happen. `session`: two handles are two subscriptions of one connection at once;
send buffer, page and resync limit of one make refusal, paging and giving
up happen within two operations. Handles are symmetric; symmetry is used
only in the run without liveness. `trip_page` has one handle, one operation and buffers of one: the
races between a load, a fresh start and the stream are about one operation, which can also be
refused and force a resync; that keeps the liveness property within reach of TLC. `itinerary`: two members, a trip with a slot and its option, three
operations on at most two of the tables: enough for two edits and the deletion
they race, a cascade (two operations) after a selection, and an edit after a
concurrent one. The fold follows each write, since a fold is
deterministic and what it folds depends on nothing else; `SplitsSumToTotal` and
`TimesOrdered` also look at it between the operations of one write. Members are
symmetric. `positions`: three slots, two days and the backlog, five writes, base 3,
one head on either side of zero, keys of up to three symbols and up to four bulk keys: both ends of
the digit range, carries, the last head, the reserved bound and bulk requests that run
out all happen. A key longer than three symbols is refused, as one longer than 128
characters is by the column's check; `EveryGapOpen` asks that a key exists, however long. `server`: two goroutines and two instances
are the smallest with a race and a peer. A behaviour is given a budget of requests: four about the account
and its sockets, three about the roster, four about files, or one roster request with
two about files. Accounts share no rows with the roster and the files, so they are not
mixed; the roster and the files share the trip and the members' roles, which the last budget is for.
Longer sequences of requests are not explored.
Deadlock is not checked where a bound ends the run.

**Fairness.** `OpLog`: a goroutine that can run does, and a waiter for the row lock
is served (strong fairness; Postgres queues lock waiters). Failures and crashes are
not fair. `RoomDispatch`: the dispatcher runs, its ticker fires, and a
reconcile that is always possible eventually reads the log; nothing is assumed of publishers,
Redis or the reorder timer. `Session`: the two pumps run, and the room offers
what it owes, which is `RoomDispatch!EveryOpOffered`. `Server`: a goroutine that can go on
does, a handshake ends (it has a deadline), a closing connection drains or its
timer fires, and the subscriber of the revocation channel reads what Redis
delivers; nothing is assumed of clients or of time.

## 4. What is proved

`OpLog_proofs` proves, for any sets of goroutines, client op ids and entities and
any bound, from `ConstantsAssumption` alone: `TypeCorrect`, `Gapless`,
`Idempotent`, `PublishSafe`, `TableAgrees`, `AnswersTruthful` (each
`Spec => []P` for the property of the run), and `LogAppendOnly`
(`Spec => NoLateVisibility`).

None of these is inductive alone. The invariant `Inv` adds: `LockInv` (the
lock's holder is exactly the goroutine in a transaction), `ReqInv` (a request
asks for what its client op id stands for), `RowsInv` (the rows appended so far
are the expected ones, numbered from the committed counter), `ChecksInv` (what
the mutation read and what the unique index was checked against still holds)
and `PublishInv` (a transaction past its commit has its rows in the log). The
argument is that the row lock serializes transactions: `CommitsAlone` says
nobody else is in a transaction while one commits, so no other transaction's expectations
move; `CommitAdds` says the log changes only by a commit, which adds exactly the
expected rows; the rest follows property by property.

`RoomDispatch_proofs` proves, for any sets of instances and subscribers and any
capacities, from `RoomAssumption`: `TypeCorrect`, `BehindTheLog`
(`NeverAheadOfLog`), `Contiguous` (`SinkSeesContiguous`), `TimerRuns`
(`TimerRunsWhileHolding`) and `Refinement` (`Spec => ImplementsOrderedStream`).
Its invariant adds: `ClosedInv` (a room without subscribers holds nothing),
`MemberInv` (who is not in the room has been offered nothing, and a subscribe
under way carries a head that is not beyond the log), and `HeldInv` (nothing
already offered is held, and the timer runs whenever drain is going to leave
something behind, which is what survives the single turns of drain). The
refinement maps Subscribe to a join, a turn of drain to an offer to the room's
members, and Close and Crash to leaving; every other step is a stutter. It
rests on `RemoveProps`: a room that keeps a subscriber keeps its position.

`Positions_proofs` proves, for any sets of slots and days, any base of at least two,
any number of heads and any bound on the length of a key, from
`FracdexAssumption` and `PositionsAssumption`: `TypeCorrect`, `PositionsDistinct`
(`OrderUnambiguous`), `PlacementCorrect` (`PlacedAfterAnchor`), `GapsStayOpen`
(`EveryGapOpen`) and `BulkKeysCorrect` (`BulkKeysInside`); and of `pkg/fracdex` itself
`KeyBetweenIsStrict` (between two keys, or beside one, `KeyBetween` answers a key strictly inside)
and `NKeysBetweenAscend` (`NKeysBetween` answers n ascending keys strictly inside,
or fails for the one reason `Exhausted` names).

- *The algorithm.* What a recursive function computes for every argument
  needs induction, which the library states with an operator parameter. Here
  the claim is a set instead: `RankInduction` says that a set which contains every argument
  whose smaller ones it contains is everything, and `RecursionHolds` that a function
  which asks only for arguments of smaller rank satisfies its own definition; both come from
  a least counterexample (`WFMin`). `MidpointIs` then says that the midpoint of
  two fractions lies strictly between them and ends in no zero, by induction on their lengths. `KeyParts`
  and `LessIntegers` take the order of keys apart into that of their integer parts and that
  of their fractions, which with the lemmas on increment and decrement gives
  `KeyBetweenIs`. `BulkIs` does the same for `NKeys`, by induction on the number of keys asked for.
- *The lists.* The two bounds a call reads are neighbours in the bucket (`SlotGap`,
  `DayGap`), so a key strictly between them lies on a definite side of every row of the
  bucket: it differs from all of them, and nothing stands between the row and its anchor. That rows
  of a bucket never share a key is what makes the neighbours unique, which is why
  the invariant is the conjunction of the first three. `SlotBounds` and `DayBounds` say that
  the bounds of every gap exist and are in order (`HasFirst`: a finite list has a first
  row), from which the last two follow.

`Session_proofs` proves, for any number of subscriptions and any capacities, page
size and resync limit, from `SessionAssumption`: `SessionTyped`,
`CursorIsHonest` (`SeenUpToCursor`) and `GateKeepsOrder` (`GateHoldsStream`); and
of `TripPage` under the same assumption `PageIsHonest` (`PageMissesOnlyRaces`).
Whether a cursor is honest depends on everything under way to the client, so `Inv`
says of each place what a client that reads on from there will have. `Stock` is what the
client need not be sent any more: it was handed it, or is recorded as denied it, or
a fresh start took it for granted (`1..base`). `Got` adds what is in `conn.send`.
`SendInv`: the send buffer can be read in order (`Sound`). `OpenInv`: behind an open gate,
`Got` reaches up to where the room stands. `ReplayInv`: during a replay `Got`
reaches up to the replay's cursor, and once the last page is read, that page and
the gate's buffer reach up to where the room stands, so that `OpenInv` holds when
the gate opens. `StockInv`: a subscribe under way asks for no more than the
client has. `RoomInv`: at most one gate is shut, the subscriptions of a connection
stand at one place, and no room is ahead of the log. The crux is `ListPageKeeps`
with `WholeLog`: a page that is not full ends at the head, and nothing in the gate
lies beyond the head. TLC checked the parts of `Inv` on the instance of `session`.
For the page, `PageInv` says that a load reflects no less than the log held when the page
began it, that what the socket handed on beyond a load being answered is recorded as
overtaken, and that once it is shown, the screen has all of the log up to `renewed`, and of what
was handed on since all that was not overtaken. `CursorIsHonest` then leaves
only the operations up to `base`. Each step of the page is a step of `Session` or leaves the
socket alone (`PageStepsAreSessionSteps`).

`Itinerary_proofs` proves, for any sets of rows, members and field values, from
`ItineraryAssumption` (`Nil` is no row and no option, and the trip one starts with
is consistent): `ItineraryTyped`, `FoldIsTheDatabase` (`FoldMatchesTables`),
`TimesStayOrdered`, `SplitsStaySummed`, and the action properties
`DeletedRowsStayDeleted` (`DeletedStaysDeleted`), `NobodyOverwritesBlindly` (`NoBlindOverwrite`) and
`DeletesClearSelections`. The run lets the replica follow each write at once
(`MaxBehind = 0`); the theorems let it fall behind as far as it likes. `Inv` adds to the types:
rows are sound; a selected option has a row, tombstoned or not, and belongs to
the slot (`SelectionsHold`); what a member has read of an entry is no
newer than the row, and is the row when the versions agree (`SeenInv`); and
`FoldFollows`: there is a chain of replica states, one per operation of the feed, each the
application of that operation to the one before and each sound, from the replica to
tables that agree with the database. Every call is shown to be one of a few shapes: a
row written with the operation that says so, the cascade of two, a ledger write, a
reading, a delivery; a row written with such an operation makes the chain
longer by one. `FoldFollows` is what makes the property inductive: `Fold` speaks of the
last state only. `FoldIsChain` shows that the recursive function
`Fold` ends where a chain ends, by a least counterexample
on the natural numbers (`WFMin`). `FoldFollows` is quantified over unbounded sequences, so
TLC checks only what follows from it.

`Server_proofs`, `Accounts_proofs` and `Trip_proofs` prove, for any number of
goroutines, instances, people, sessions, tokens, sockets and files, from
`AccountsAssumption`, `SocketsAssumption`, `MembershipAssumption` and
`MediaAssumption` (in essence that `Nil` is no row, that attachments and covers
have different keys, and that every user is a person):

- `ServerTyped` (`TypeOK`). It is inductive because it includes what rows
  and requests under way refer to: a session's account, a token's session,
  a socket's session, the invitation a redemption has found
  exist (`AccountReferences`, `SocketReferences`, `RosterReferences`,
  `CallReferences`, `MediaReferences`). `SocketEffects`,
  `RosterEffects` and `MediaEffects` say which tables each kind of step
  can touch, so that the proofs about one do not look at the steps of the others.
- `RotationNeverForks` (`RotationLinear`), inductive with the types alone: only a
  rotation that finds its token unused adds a successor.
- `ResetSevers` (`ResetSeversSessions`). `PasswordInv` adds that a login about to upgrade
  the hash read a version no newer than the account's, and that as long as this is
  still the account's version the password it compared is still the account's.
- `RevokedExcused` (`RevokedSocketsExcused`). It is inductive over the types: the proof
  follows a revocation from the statement to the registry, through the goroutine that
  is going to announce it and the message under way or lost.
- `InvitationsAreHonoured`. `RosterInv`: no more came in with an invitation than its
  use count says, that count is within its maximum, and an addressed one let in its
  addressee only (`InvitesCounted`); a redemption between its count and its commit
  is alone on the invitation, the use it counts is still free, and the invitation is
  for it (`RedemptionsLocked`); and a trip has exactly one owner (`OneOwner`).
- `ObjectsAreKept`. `FilesInv` adds what a confirmation under way has seen of
  the object (`RequestsKnow`) and that a cover shown is a confirmed one (`CoverReady`).
- `AnnouncementsAgree` (`AnnouncementsMatch`). `FoldInv` adds that the fold is never
  ahead of the log and knows only files that became ready.
- `OnlyRacesReplaceUploads` (`UploadReplacedOnlyByRace`), an action property:
  `OvertakenInv` says that whoever is about to apply a photo while an upload is shown is known to have
  begun before.

Only model-checked: liveness (`EveryRequestEnds`, `EveryOpOffered`,
`SubscriberCatchesUp`, `RevocationReaches`), which the prover does not handle. Every
invariant and every action property of a passing run is a theorem.

## 5. What is not modelled

`PROJECT.json` lists every component with its status. Left out for good: routing,
decoding and rate limits, cryptography, configuration and start-up, lists for
display, the user interface, mail and photo search (whose outcomes appear).
Within the modelled parts: free text, currencies and categories, pings, presence
lists, the client's pending operations, nested transactions, the cache of photo
searches, the deletion of expired rows, and the versions that edits of a trip and
of a role state (a refused request leaves no trace). `Itinerary` lets every member
write, and `Media` takes what an attachment hangs off to be there.

Behaviour met on the way that a property names as its exception, or that no run is about:

- `applyOption` (`domain/op.go:944`) reads both coordinates through one pointer, so the
  folded latitude may be the longitude. `Ops!SharedPointer` models it
  and `FoldMatchesTables` leaves the latitude out: with it, the claim of `domain/op.go:679` that
  the fold is the database state is false for an option created with both coordinates.
- `KeyBetween` can answer `smallestInteger` (before the key that follows it), which it rejects as a
  bound (`pkg/fracdex/fracdex.go`, `validateOrderKey`): no row can then be put beside that row.
- A login that compared the old password before a reset and opens its session after it
  keeps that session (`service/auth.go`, `Login`, `ResetPassword`).
- A socket whose ticket was redeemed before the revocation and registered after it stays
  open until its lifetime ends; so does one whose instance missed the message.
- A user-wide revocation that arrives late also closes sockets of sessions opened after the reset.
- The sweep can tombstone a file that was confirmed, and announced, after the sweep had listed it:
  `service/attachment.go:403` says "these rows were never announced to anybody".
- `TripCoverService.ConfirmUpload` ignores what `MarkUploadFailed` answers and deletes the object
  of a cover that was confirmed meanwhile, if the browser put a second, bad object.
- `service/trip_cover.go:138` says of AutoAssign "It never replaces a user upload"; one confirmed
  while the photos are searched is replaced, and its object stays behind.
- A removed member's live subscription goes on receiving the trip's operations: membership is
  asked when a subscription is made.
- An edit of a slot that was deleted meanwhile is answered `not_found` and not recorded, though
  `service/slot.go:312` says "the editor's change is recorded rather than silently dropped":
  every edit reads its slot through `getInTrip`, which leaves deleted rows out. `Replica.Apply` would
  fold such an operation, as `TestTombstoneIsItsOwnRegister` (`domain/op_test.go:137`) has it, but no
  service makes one. `DeletedStaysDeleted` says only that no write revives a row.
- A slot may select an option that is already deleted; `DeleteClearsSelection` speaks of selections
  that the deletion finds.
- `web/lib/socket.ts:314` says of a resync that the refetch "re-establishes the baseline this resumes",
  and `ws/conn.go:302` asks to re-fetch "then subscribe again". The client does both at once: the
  load may be read, then an operation commit, and then the head be read, so that the operation is in
  neither although the cursor is past it. `PageMissesOnlyRaces` names this exception
  (`renewed < n /\ n <= base`); `web/README.md:118` speaks of it as a small window.
- `FoldMatchesTables` is about a fold from the start of the trip. The page of `TripPage` is about sets of
  operations: components that load again on an operation, and what they
  do with operations they apply twice, are not modelled.
- A client that was never answered before its connection ended has no cursor, and starts at
  the head when it reconnects, without another load: what was committed in between is missing. In
  `PageMissesOnlyRaces` it falls under the operations committed after the load began.
- A revocation whose commit answer is lost, or whose process dies before it publishes, is announced to
  nobody (`AnnounceFails`); its sockets stay open as those of a lost message do.

## 6. What could come next

1. A proof that the serial transactions of `Itinerary` are what `OpLog` commits (now an argument in its comment).
2. The client's pending operations, and components that load again on an operation.
