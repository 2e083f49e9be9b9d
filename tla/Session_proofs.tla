--------------------------- MODULE Session_proofs ---------------------------
(***************************************************************************)
(* The cursor of the web client is honest, the gate keeps its order, and   *)
(* the page misses no more than its races, whatever the capacities, the    *)
(* page size, the resync limit and the number of subscriptions of the      *)
(* connection.                                                             *)
(*                                                                         *)
(* The argument follows an operation from the room to the client.  Behind  *)
(* an open gate the client has, or is denied, what the room has offered    *)
(* (OpenInv), so the next operation may follow in conn.send (SendInv).     *)
(* While a gate is shut the replay brings the log up to its cursor, and    *)
(* once the last page is read, the page and the gate's buffer together     *)
(* reach up to where the room stands (ReplayInv): a page that is not full  *)
(* ends at the head, and no room is ahead of it (RoomInv).  When the gate  *)
(* is flushed, ReplayInv has become OpenInv.  A resume asks for what the   *)
(* client has (StockInv).  What came before the last fresh start counts as *)
(* had here; what the page shows of it is settled at the end (PageInv).    *)
(***************************************************************************)
EXTENDS TripPage, TLAPS, FiniteSetTheorems, SequenceTheorems

(* What the socket has handed over, is known to withhold, or leaves to the  *)
(* load over REST.  It never shrinks.                                       *)
Stock == 1..base \cup seen \cup withheld

(* What a frame adds to it.                                                 *)
Brings(f) ==
    CASE f.type = "op" -> {f.seq}
      [] f.type = "fresh" -> 1..f.seq
      [] OTHER -> {}

(* What the first k frames of q bring.                                      *)
Carried(q, k) == UNION {Brings(q[i]) : i \in 1..k}

(* What the client has, is about to read from conn.send, or is denied.  It  *)
(* shrinks only when the connection closes.                                 *)
Got == Stock \cup Carried(send, Len(send))

(* The frames of q can be read in order by a client that has X: whenever    *)
(* one of them moves the cursor, everything up to there is in X or has come *)
(* with q.                                                                  *)
Sound(X, q) ==
    \A k \in 1..Len(q) :
        /\ q[k].type = "op" => 1..q[k].seq \subseteq X \cup Carried(q, k)
        /\ q[k].type = "subscribed" => 1..q[k].seq \subseteq X

(* The subscriptions of the connection stand at one place in the room, and  *)
(* the only one whose gate is shut is the one the read pump sets up.        *)
RoomInv ==
    /\ \A s \in Subs : due[s] <= head + 1
    /\ \A s, t \in Live : due[s] = due[t]
    /\ open \subseteq Live
    /\ Live \ open \subseteq {rp.sub}
    /\ rp.sub \notin open
    /\ rp.pc \in {"idle", "bye", "join"} => rp.sub = NoSub /\ buf = <<>>

(* The replay does not pass the head, nor the page it has read.             *)
PumpInv ==
    /\ rp.from <= head /\ rp.cursor <= head /\ rp.end <= head
    /\ rp.pc = "replay" => rp.cursor <= rp.end

(* conn.send can be read in order, and a closed connection has nothing in   *)
(* it.                                                                      *)
SendInv ==
    /\ \A k \in 1..Len(send) : Brings(send[k]) \subseteq 1..head
    /\ Sound(Stock, send)
    /\ ~up => send = <<>>

(* The gate holds operations of the log, and presence.                      *)
BufInv ==
    \A k \in 1..Len(buf) :
        Brings(buf[k]) \subseteq 1..head /\ buf[k].type \in {"op", "other"}

(* What a client asks to resume from, and what Engine.Subscribe was asked,  *)
(* is what the client has.                                                  *)
StockInv ==
    /\ Stock \subseteq 1..head
    /\ \A k \in 1..Len(asks) : asks[k].since # Null => 1..asks[k].since \subseteq Stock
    /\ rp.pc \in {"join", "announce", "replace", "hello"} /\ ~rp.fresh
          => 1..rp.from \subseteq Stock

(* What the client will have when the page that was read is delivered.      *)
Promised == Got \cup (IF rp.pc = "replay" THEN 1..rp.end ELSE {})

(* While the log is replayed the client has it up to the replay's cursor.   *)
(* From the last page on, what the gate holds can be read after the page,   *)
(* and the two reach up to where the room stands.                           *)
ReplayInv ==
    /\ up /\ rp.pc \in {"list", "replay"} => 1..rp.cursor \subseteq Got
    /\ up /\ (rp.pc = "flush" \/ (rp.pc = "replay" /\ ~rp.more)) =>
          /\ Sound(Promised, buf)
          /\ rp.sub \in Live =>
                1..due[rp.sub] - 1 \subseteq Promised \cup Carried(buf, Len(buf))

(* A client behind an open gate has what the room has offered.              *)
OpenInv == up => \A s \in open : 1..due[s] - 1 \subseteq Got

(* The client's cursor does not pass what it has.                           *)
CursorInv == wants /\ cursor # Null => 1..cursor \subseteq Stock

(* The inductive invariant.                                                 *)
Inv ==
    /\ TypeOK /\ RoomInv /\ PumpInv /\ SendInv /\ BufInv /\ StockInv
    /\ ReplayInv /\ OpenInv /\ GateHoldsStream /\ CursorInv
-----------------------------------------------------------------------------
(* Membership in Carried.                                                   *)
LEMMA CarriedElem ==
  ASSUME NEW q, NEW k, NEW n
  PROVE  n \in Carried(q, k) <=> \E i \in 1..k : n \in Brings(q[i])
BY DEF Carried

(* r is q and then some copies of f, none included: what appends to         *)
(* conn.send and to the gate do.                                            *)
Extends(r, q, f) ==
    /\ r \in Seq(Frames)
    /\ Len(r) >= Len(q)
    /\ \A k \in 1..Len(r) : r[k] = IF k <= Len(q) THEN q[k] ELSE f

(* Append extends by one.                                                   *)
LEMMA AppendExtends ==
  ASSUME NEW q \in Seq(Frames), NEW f \in Frames
  PROVE  Extends(Append(q, f), q, f) /\ Len(Append(q, f)) = Len(q) + 1
BY DEF Extends

(* A sequence extends itself.                                               *)
LEMMA SameExtends ==
  ASSUME NEW q \in Seq(Frames), NEW f
  PROVE  Extends(q, q, f)
BY DEF Extends

(* The copies of an event that a broadcast puts into conn.send.             *)
Copies(f, n) == [k \in 1..n |-> f]

(* A broadcast extends conn.send by the copies.                             *)
LEMMA CopiesExtend ==
  ASSUME NEW q \in Seq(Frames), NEW f \in Frames, NEW n \in Nat,
         NEW r, r = q \o Copies(f, n)
  PROVE  Extends(r, q, f) /\ Len(r) = Len(q) + n
<1> DEFINE c == Copies(f, n)
<1>1. c \in Seq(Frames) /\ Len(c) = n /\ \A k \in 1..n : c[k] = f
  BY DEF Copies
<1> HIDE DEF c
<1>2. /\ q \o c \in Seq(Frames) /\ Len(q \o c) = Len(q) + n
      /\ \A k \in 1..Len(q) + n : (q \o c)[k] = IF k <= Len(q) THEN q[k] ELSE c[k - Len(q)]
  BY <1>1, ConcatProperties
<1>3. r = q \o c
  BY DEF c
<1>4. \A k \in 1..Len(q) + n : ~(k <= Len(q)) => k - Len(q) \in 1..n
  BY LenProperties
<1> QED
  BY <1>1, <1>2, <1>3, <1>4, LenProperties DEF Extends

(* What an extended sequence brings.                                        *)
LEMMA CarriedExtends ==
  ASSUME NEW q \in Seq(Frames), NEW f, NEW r, Extends(r, q, f)
  PROVE  /\ \A k \in 1..Len(q) : Carried(r, k) = Carried(q, k)
         /\ Carried(q, Len(q)) \subseteq Carried(r, Len(r))
         /\ \A k \in Len(q) + 1..Len(r) :
               Carried(q, Len(q)) \cup Brings(f) \subseteq Carried(r, k)
         /\ Carried(r, Len(r)) \subseteq Carried(q, Len(q)) \cup Brings(f)
<1>1. Len(q) \in Nat /\ Len(r) \in Nat /\ Len(q) <= Len(r)
  BY DEF Extends
<1>2. \A k \in 1..Len(r) : Brings(r[k]) = IF k <= Len(q) THEN Brings(q[k]) ELSE Brings(f)
  BY DEF Extends
<1> DEFINE B(k) == Brings(q[k])
           C(k) == Brings(r[k])
           F == Brings(f)
<1>3. /\ \A k, n : n \in Carried(q, k) <=> \E i \in 1..k : n \in B(i)
      /\ \A k, n : n \in Carried(r, k) <=> \E i \in 1..k : n \in C(i)
  BY CarriedElem
<1>4. \A k \in 1..Len(r) : C(k) = IF k <= Len(q) THEN B(k) ELSE F
  BY <1>2
<1> HIDE DEF B, C, F
<1>5. \A k \in 1..Len(q) : Carried(r, k) = Carried(q, k)
  <2> SUFFICES ASSUME NEW k \in 1..Len(q), NEW n
               PROVE  n \in Carried(r, k) <=> n \in Carried(q, k)
    OBVIOUS
  <2>1. \A i \in 1..k : C(i) = B(i)
    BY <1>1, <1>4
  <2> QED
    BY <1>3, <2>1
<1>6. Carried(q, Len(q)) \subseteq Carried(r, Len(r))
  BY <1>1, <1>3, <1>4
<1>7. \A k \in Len(q) + 1..Len(r) : Carried(q, Len(q)) \cup F \subseteq Carried(r, k)
  BY <1>1, <1>3, <1>4
<1>8. Carried(r, Len(r)) \subseteq Carried(q, Len(q)) \cup F
  BY <1>1, <1>3, <1>4
<1> QED
  BY <1>5, <1>6, <1>7, <1>8 DEF F

(* Who has more can read as much.                                           *)
LEMMA SoundGrows ==
  ASSUME NEW q, NEW X, NEW Y, X \subseteq Y, Sound(X, q)
  PROVE  Sound(Y, q)
BY DEF Sound

(* A frame may follow q when a client that has read q has everything before *)
(* it.                                                                      *)
LEMMA SoundExtends ==
  ASSUME NEW q \in Seq(Frames), NEW f \in Frames, NEW r, Extends(r, q, f), NEW X, Sound(X, q),
         Len(r) > Len(q) /\ f.type = "op" => 1..f.seq - 1 \subseteq X \cup Carried(q, Len(q)),
         Len(r) > Len(q) /\ f.type = "subscribed" => 1..f.seq \subseteq X
  PROVE  Sound(X, r)
<1>1. Len(q) \in Nat /\ Len(r) \in Nat /\ f.seq \in Nat
  BY DEF Extends, Frames
<1>2. f.type = "op" => Brings(f) = {f.seq}
  BY DEF Brings
<1> SUFFICES ASSUME NEW k \in 1..Len(r)
             PROVE  /\ r[k].type = "op" => 1..r[k].seq \subseteq X \cup Carried(r, k)
                    /\ r[k].type = "subscribed" => 1..r[k].seq \subseteq X
  BY DEF Sound
<1>3. CASE k <= Len(q)
  <2>1. k \in 1..Len(q) /\ r[k] = q[k]
    BY <1>1, <1>3 DEF Extends
  <2>2. Carried(r, k) = Carried(q, k)
    BY <2>1, CarriedExtends
  <2> QED
    BY <2>1, <2>2 DEF Sound
<1>4. CASE k > Len(q)
  <2>1. r[k] = f /\ k \in Len(q) + 1..Len(r)
    BY <1>1, <1>4 DEF Extends
  <2>3. Carried(q, Len(q)) \cup Brings(f) \subseteq Carried(r, k)
    BY <2>1, CarriedExtends
  <2>2. f.type = "op" => \A n \in 1..f.seq : n \in 1..f.seq - 1 \/ n = f.seq
    BY <1>1
  <2> QED
    BY <1>1, <1>2, <1>4, <2>1, <2>2, <2>3
<1> QED
  BY <1>1, <1>3, <1>4

(* The tail of a sequence, element by element.                              *)
LEMMA TailProps ==
  ASSUME NEW T, NEW q \in Seq(T), q # <<>>
  PROVE  /\ Tail(q) \in Seq(T) /\ Len(q) \in Nat \ {0} /\ Len(Tail(q)) = Len(q) - 1
         /\ \A k \in 1..Len(q) - 1 : Tail(q)[k] = q[k + 1]
         /\ Head(q) = q[1] /\ Head(q) \in T
BY EmptySeq, HeadTailProperties, LenProperties, ElementOfSeq

(* What a sequence brings is what its head and its tail bring.              *)
LEMMA CarriedTail ==
  ASSUME NEW q \in Seq(Frames), q # <<>>
  PROVE  /\ \A k \in 1..Len(q) - 1 : Carried(q, k + 1) = Brings(Head(q)) \cup Carried(Tail(q), k)
         /\ Carried(q, Len(q)) = Brings(Head(q)) \cup Carried(Tail(q), Len(Tail(q)))
<1> DEFINE B(k) == Brings(q[k])
           C(k) == Brings(Tail(q)[k])
           F == Brings(Head(q))
           n == Len(q)
           t == Len(Tail(q))
<1>1. /\ n \in Nat \ {0} /\ t = n - 1
      /\ \A k \in 1..n - 1 : C(k) = B(k + 1)
      /\ F = B(1)
  BY TailProps
<1>2. /\ \A k, x : x \in Carried(q, k) <=> \E i \in 1..k : x \in B(i)
      /\ \A k, x : x \in Carried(Tail(q), k) <=> \E i \in 1..k : x \in C(i)
  BY CarriedElem
<1> HIDE DEF B, C, F, n, t
<1>3. \A k \in 0..n - 1 : Carried(q, k + 1) = F \cup Carried(Tail(q), k)
  <2> SUFFICES ASSUME NEW k \in 0..n - 1, NEW x
               PROVE  x \in Carried(q, k + 1) <=> x \in F \cup Carried(Tail(q), k)
    OBVIOUS
  <2>1. (\E i \in 1..k + 1 : x \in B(i)) <=> x \in B(1) \/ \E i \in 1..k : x \in B(i + 1)
    <3>1. ASSUME NEW i \in 1..k + 1, x \in B(i) PROVE x \in B(1) \/ \E j \in 1..k : x \in B(j + 1)
      <4>1. CASE i = 1
        BY <3>1, <4>1
      <4>2. CASE i # 1
        <5>1. i - 1 \in 1..k /\ (i - 1) + 1 = i
          BY <1>1, <4>2
        <5> QED
          BY <3>1, <5>1
      <4> QED
        BY <4>1, <4>2
    <3> QED
      BY <1>1, <3>1
  <2>2. \A i \in 1..k : C(i) = B(i + 1)
    BY <1>1
  <2>3. /\ x \in Carried(q, k + 1) <=> \E i \in 1..k + 1 : x \in B(i)
        /\ x \in Carried(Tail(q), k) <=> \E i \in 1..k : x \in C(i)
    BY <1>2
  <2> QED
    BY <1>1, <2>1, <2>2, <2>3
<1>4. /\ \A k \in 1..n - 1 : Carried(q, k + 1) = F \cup Carried(Tail(q), k)
      /\ Carried(q, n) = F \cup Carried(Tail(q), t)
  <2>1. t \in 0..n - 1 /\ t + 1 = n
    BY <1>1
  <2> QED
    BY <1>1, <1>3, <2>1
<1> QED
  BY <1>4 DEF F, n, t

(* After the first frame is read, the rest can be.                          *)
LEMMA SoundTail ==
  ASSUME NEW q \in Seq(Frames), q # <<>>, NEW X, NEW Y, Sound(X, q),
         X \cup Brings(Head(q)) \subseteq Y
  PROVE  Sound(Y, Tail(q))
<1>1. /\ Len(q) \in Nat \ {0} /\ Len(Tail(q)) = Len(q) - 1
      /\ \A k \in 1..Len(q) - 1 : Tail(q)[k] = q[k + 1]
  BY TailProps
<1> SUFFICES ASSUME NEW k \in 1..Len(q) - 1
             PROVE  /\ q[k + 1].type = "op" => 1..q[k + 1].seq \subseteq Y \cup Carried(Tail(q), k)
                    /\ q[k + 1].type = "subscribed" => 1..q[k + 1].seq \subseteq Y
  BY <1>1 DEF Sound
<1>2. k + 1 \in 1..Len(q)
  BY <1>1
<1>3. Carried(q, k + 1) = Brings(Head(q)) \cup Carried(Tail(q), k)
  BY CarriedTail
<1> QED
  BY <1>2, <1>3 DEF Sound

-----------------------------------------------------------------------------
(* The three states of a gate.                                              *)
LEMMA GateCases ==
  ASSUME NEW s
  PROVE  /\ Gate(s) = "open" <=> s \in open
         /\ Gate(s) = "locked" <=> s \notin open /\ rp.pc = "flush" /\ rp.sub = s
         /\ Gate(s) = "shut" <=> s \notin open /\ ~(rp.pc = "flush" /\ rp.sub = s)
BY DEF Gate

(* Who is in the room is a subscription.                                    *)
LEMMA LiveIsSubs == Live \subseteq Subs
BY DEF Live

(* A queued operation is carried.                                           *)
LEMMA ComingIsGot ==
  ASSUME TypeOK
  PROVE  Coming \subseteq Got
<1> SUFFICES ASSUME NEW n \in Coming PROVE n \in Got
  OBVIOUS
<1>1. CASE n \in 1..base \cup seen
  BY <1>1 DEF Got, Stock
<1>2. CASE n \notin 1..base \cup seen
  <2>1. PICK k \in 1..Len(send) : send[k].type = "op" /\ n = send[k].seq
    BY <1>2 DEF Coming
  <2>2. n \in Brings(send[k])
    BY <2>1 DEF Brings
  <2>3. n \in Carried(send, Len(send))
    BY <2>2, CarriedElem
  <2> QED
    BY <2>3 DEF Got
<1> QED
  BY <1>1, <1>2

(* A broadcast changes nothing for a closed connection.                     *)
LEMMA BroadcastDown ==
  ASSUME TypeOK, NEW S \in SUBSET Live, NEW f \in Frames,
         Broadcast(S, f), ~up, UNCHANGED <<up, base, seen>>
  PROVE  UNCHANGED <<send, buf, drops, withheld>>
BY DEF Broadcast

(* What a broadcast of f to S does, in the terms of the invariant: f goes   *)
(* to conn.send only behind an open gate; a gate that is shut appends it,   *)
(* or drops its subscription; and nobody misses it who is not recorded as   *)
(* denied.                                                                  *)
Delivers(S, f) ==
    /\ Extends(send', send, f) /\ Len(send') <= SendBuf
    /\ \/ buf' = buf
       \/ /\ buf' = Append(buf, f) /\ up /\ Len(buf) < GateCap
          /\ \E s \in S : s \notin open
    /\ drops' \in [Subs -> 0..MaxDrops] /\ \A s \in Subs : drops'[s] >= drops[s]
    /\ Stock \subseteq Stock' /\ Stock' \subseteq Stock \cup Brings(f)
    /\ withheld \subseteq withheld'
    /\ Len(send') > Len(send) => up /\ \E s \in S : s \in open
    /\ up => \A s \in S : s \notin open => ~(rp.pc = "flush" /\ rp.sub = s)
    /\ up => \A s \in S : s \in open => Brings(f) \subseteq Got'
    /\ up => \A s \in S : s \notin open =>
                 buf' = Append(buf, f) \/ (Brings(f) \subseteq Got' /\ drops'[s] > 0)

(* room.broadcast does what Delivers says.                                  *)
LEMMA BroadcastDelivers ==
  ASSUME TypeOK, NEW S \in SUBSET Live, NEW f \in Frames, f.type \in {"op", "other"},
         Broadcast(S, f), UNCHANGED <<up, base, seen>>
  PROVE  Delivers(S, f)
<1>1. CASE ~up
  <2>1. UNCHANGED <<send, buf, drops, withheld>>
    BY <1>1, BroadcastDown
  <2>2. Extends(send', send, f) /\ Len(send') <= SendBuf
    BY <2>1, SameExtends DEF TypeOK
  <2>3. Stock' = Stock
    BY <2>1 DEF Stock
  <2>4. drops' \in [Subs -> 0..MaxDrops] /\ \A s \in Subs : drops'[s] >= drops[s]
    BY <2>1, SessionAssumption DEF TypeOK
  <2>5. Len(send') = Len(send) /\ Len(send) \in Nat
    BY <2>1 DEF TypeOK
  <2> QED
    BY <1>1, <2>1, <2>2, <2>3, <2>4, <2>5 DEF Delivers
<1>2. CASE up
  <2> DEFINE through == {s \in S : Gate(s) = "open"}
             room == SendBuf - Len(send)
             buffered == {s \in S : Gate(s) = "shut" /\ Len(buf) < GateCap}
  <2>1. /\ \A s \in S : Gate(s) # "locked"
        /\ buf' = IF buffered # {} THEN Append(buf, f) ELSE buf
        /\ \E sent \in SUBSET through :
              /\ Cardinality(sent) = IF Cardinality(through) <= room
                                       THEN Cardinality(through) ELSE room
              /\ send' = send \o [k \in 1..Cardinality(sent) |-> f]
              /\ drops' = [s \in Subs |->
                              IF s \in S \ (sent \cup buffered) /\ drops[s] < MaxDrops
                                THEN drops[s] + 1 ELSE drops[s]]
              /\ withheld' = IF S \ (sent \cup buffered) # {} /\ f.type = "op"
                               THEN withheld \cup ({f.seq} \ Coming) ELSE withheld
    BY <1>2 DEF Broadcast
  <2>2. PICK sent \in SUBSET through :
              /\ Cardinality(sent) = IF Cardinality(through) <= room
                                       THEN Cardinality(through) ELSE room
              /\ send' = send \o [k \in 1..Cardinality(sent) |-> f]
              /\ drops' = [s \in Subs |->
                              IF s \in S \ (sent \cup buffered) /\ drops[s] < MaxDrops
                                THEN drops[s] + 1 ELSE drops[s]]
              /\ withheld' = IF S \ (sent \cup buffered) # {} /\ f.type = "op"
                               THEN withheld \cup ({f.seq} \ Coming) ELSE withheld
    BY <2>1
  <2>3. S \subseteq Subs /\ IsFiniteSet(Subs)
    BY LiveIsSubs, SessionAssumption
  <2>4. /\ \A s : s \in through <=> s \in S /\ s \in open
        /\ \A s : s \in buffered <=> s \in S /\ s \notin open /\ ~(rp.pc = "flush" /\ rp.sub = s)
                                    /\ Len(buf) < GateCap
        /\ \A s \in S : s \notin open => ~(rp.pc = "flush" /\ rp.sub = s)
    BY <2>1, GateCases
  <2>5. IsFiniteSet(sent) /\ IsFiniteSet(through)
    BY <2>3, FS_Subset
  <2>6. /\ Cardinality(sent) \in Nat /\ Cardinality(through) \in Nat
        /\ sent # {} => Cardinality(sent) > 0
        /\ sent = {} => Cardinality(sent) = 0
    BY <2>5, FS_CardinalityType, FS_EmptySet
  <2> HIDE DEF through, room, buffered
  <2>7. Extends(send', send, f) /\ Len(send') = Len(send) + Cardinality(sent)
    <3> DEFINE n == Cardinality(sent)
    <3>1. send' = send \o Copies(f, n) /\ n \in Nat /\ send \in Seq(Frames)
      BY <2>2, <2>6 DEF TypeOK, Copies
    <3> HIDE DEF n
    <3>2. Extends(send', send, f) /\ Len(send') = Len(send) + n
      BY <3>1, CopiesExtend
    <3> QED
      BY <3>2 DEF n
  <2>8. Len(send) \in Nat /\ SendBuf \in Nat /\ Len(send) <= SendBuf
    BY SessionAssumption DEF TypeOK
  <2>9. Len(send') <= SendBuf
    BY <2>2, <2>6, <2>7, <2>8 DEF room
  <2>10. \/ buf' = buf
         \/ /\ buf' = Append(buf, f) /\ up /\ Len(buf) < GateCap
            /\ \E s \in S : s \notin open
    BY <1>2, <2>1, <2>4
  <2>11. drops' \in [Subs -> 0..MaxDrops] /\ \A s \in Subs : drops'[s] >= drops[s]
    <3> DEFINE no == S \ (sent \cup buffered)
    <3>1. /\ drops' = [s \in Subs |-> IF s \in no /\ drops[s] < MaxDrops
                                         THEN drops[s] + 1 ELSE drops[s]]
          /\ drops \in [Subs -> 0..MaxDrops] /\ MaxDrops \in Nat
      BY <2>2, SessionAssumption DEF TypeOK
    <3> HIDE DEF no
    <3> QED
      BY <3>1
  <2>12. withheld \subseteq withheld' /\ withheld' \subseteq withheld \cup Brings(f)
    BY <2>2 DEF Brings
  <2>13. Stock \subseteq Stock' /\ Stock' \subseteq Stock \cup Brings(f)
    BY <2>12 DEF Stock
  <2>14. Len(send') > Len(send) => up /\ \E s \in S : s \in open
    BY <1>2, <2>2, <2>4, <2>6, <2>7, <2>8
  <2>15. /\ Carried(send, Len(send)) \subseteq Carried(send', Len(send'))
         /\ \A k \in Len(send) + 1..Len(send') : Brings(f) \subseteq Carried(send', k)
    BY <2>7, CarriedExtends DEF TypeOK
  <2>16. sent # {} => Brings(f) \subseteq Got'
    BY <2>6, <2>7, <2>8, <2>15 DEF Got
  <2>17. S \ (sent \cup buffered) # {} => Brings(f) \subseteq Got'
    <3>1. f.type # "op" => Brings(f) = {}
      BY DEF Brings
    <3>2. f.type = "op" => Brings(f) = {f.seq}
      BY DEF Brings
    <3>3. Coming \subseteq Got
      BY ComingIsGot
    <3> QED
      BY <2>2, <2>13, <2>15, <3>1, <3>2, <3>3 DEF Got, Stock
  <2>18. \A s \in S : s \in open => Brings(f) \subseteq Got'
    BY <2>4, <2>16, <2>17
  <2>19. ASSUME NEW s \in S, s \notin open
         PROVE  buf' = Append(buf, f) \/ (Brings(f) \subseteq Got' /\ drops'[s] > 0)
    <3>1. CASE s \in buffered
      BY <2>1, <3>1
    <3>2. CASE s \notin buffered
      <4>1. s \in S \ (sent \cup buffered)
        BY <2>2, <2>4, <2>19, <3>2
      <4>2. drops'[s] > 0
        <5>1. /\ drops'[s] = IF drops[s] < MaxDrops THEN drops[s] + 1 ELSE drops[s]
              /\ s \in Subs
          BY <2>2, <2>3, <4>1
        <5>2. drops[s] \in 0..MaxDrops /\ MaxDrops \in Nat \ {0}
          BY <5>1, SessionAssumption DEF TypeOK
        <5> QED
          BY <5>1, <5>2
      <4> QED
        BY <2>17, <4>1, <4>2
    <3> QED
      BY <3>1, <3>2
  <2> QED
    BY <1>2, <2>4, <2>7, <2>9, <2>10, <2>11, <2>12, <2>13, <2>14, <2>18, <2>19 DEF Delivers
<1> QED
  BY <1>1, <1>2

-----------------------------------------------------------------------------
(* What is sent is got.                                                     *)
LEMMA GotGrows ==
  ASSUME TypeOK, NEW f, Extends(send', send, f), Stock \subseteq Stock'
  PROVE  /\ Got \subseteq Got'
         /\ Len(send') > Len(send) => Brings(f) \subseteq Got'
<1>1. /\ Carried(send, Len(send)) \subseteq Carried(send', Len(send'))
      /\ \A k \in Len(send) + 1..Len(send') : Brings(f) \subseteq Carried(send', k)
  BY CarriedExtends DEF TypeOK
<1>2. Len(send) \in Nat /\ Len(send') \in Nat
  BY DEF TypeOK, Extends
<1>3. Len(send') > Len(send) => Len(send') \in Len(send) + 1..Len(send')
  BY <1>2
<1> QED
  BY <1>1, <1>3 DEF Got

(* SendInv survives a frame that may follow conn.send.                      *)
LEMMA SendGrows ==
  ASSUME TypeOK, SendInv, NEW f \in Frames, Extends(send', send, f), Stock \subseteq Stock',
         head' \in Nat, head <= head', ~up' => send' = <<>>,
         Len(send') > Len(send) =>
            /\ Brings(f) \subseteq 1..head'
            /\ f.type = "op" => 1..f.seq - 1 \subseteq Got
            /\ f.type = "subscribed" => 1..f.seq \subseteq Stock
  PROVE  SendInv'
<1>1. send \in Seq(Frames) /\ Len(send) \in Nat /\ Len(send') \in Nat /\ head \in Nat
  BY DEF TypeOK, Extends
<1>2. Sound(Stock', send)
  BY SoundGrows DEF SendInv
<1>3. Len(send') > Len(send) /\ f.type = "op"
         => 1..f.seq - 1 \subseteq Stock' \cup Carried(send, Len(send))
  BY DEF Got
<1>4. Len(send') > Len(send) /\ f.type = "subscribed" => 1..f.seq \subseteq Stock'
  OBVIOUS
<1>5. Sound(Stock', send')
  BY <1>1, <1>2, <1>3, <1>4, SoundExtends
<1>6. \A k \in 1..Len(send') : Brings(send'[k]) \subseteq 1..head'
  <2> SUFFICES ASSUME NEW k \in 1..Len(send') PROVE Brings(send'[k]) \subseteq 1..head'
    OBVIOUS
  <2>1. CASE k <= Len(send)
    <3>1. send'[k] = send[k] /\ k \in 1..Len(send)
      BY <1>1, <2>1 DEF Extends
    <3>2. 1..head \subseteq 1..head'
      BY <1>1
    <3> QED
      BY <3>1, <3>2 DEF SendInv
  <2>2. CASE ~(k <= Len(send))
    <3>1. send'[k] = f /\ Len(send') > Len(send)
      BY <1>1, <2>2 DEF Extends
    <3> QED
      BY <3>1
  <2> QED
    BY <2>1, <2>2
<1> QED
  BY <1>5, <1>6 DEF SendInv

(* conn.queueRaw sends a frame or closes the connection.                    *)
LEMMA Queued ==
  ASSUME TypeOK, SendInv, NEW f \in Frames, Queue(f), UNCHANGED <<head, base, seen, withheld>>,
         f.type # "op", Brings(f) \subseteq 1..head,
         f.type = "subscribed" => 1..f.seq \subseteq Stock
  PROVE  /\ SendInv' /\ send' \in Seq(Frames) /\ Len(send') <= SendBuf /\ up' \in BOOLEAN
         /\ Stock' = Stock
         /\ up' => up /\ Got \subseteq Got' /\ Brings(f) \subseteq Got'
<1>0. Stock' = Stock /\ head' \in Nat /\ head' = head /\ head \in Nat
  BY DEF Stock, TypeOK
<1>1. send \in Seq(Frames) /\ Len(send) \in Nat /\ SendBuf \in Nat \ {0} /\ up' \in BOOLEAN
  BY SessionAssumption DEF TypeOK, Queue
<1>2. CASE up'
  <2>1. up /\ Len(send) < SendBuf /\ send' = Append(send, f)
    BY <1>2 DEF Queue
  <2>2. Extends(send', send, f) /\ Len(send') = Len(send) + 1
    BY <1>1, <2>1, AppendExtends
  <2>3. Got \subseteq Got' /\ Brings(f) \subseteq Got'
    BY <1>0, <1>1, <2>2, GotGrows
  <2>4. SendInv'
    BY <1>0, <1>2, <2>2, SendGrows
  <2>5. send' \in Seq(Frames) /\ Len(send') <= SendBuf
    BY <1>1, <2>1, <2>2 DEF Extends
  <2> QED
    BY <1>0, <1>1, <2>1, <2>3, <2>4, <2>5
<1>3. CASE ~up'
  <2>1. send' = <<>>
    BY <1>3 DEF Queue
  <2>2. send' \in Seq(Frames) /\ Len(send') = 0
    BY <2>1
  <2>3. SendInv'
    BY <2>1, <2>2 DEF SendInv, Sound
  <2> QED
    BY <1>0, <1>1, <1>3, <2>2, <2>3
<1> QED
  BY <1>2, <1>3

(* Steps that leave the room, the gate and the read pump alone.             *)
LEMMA PumpKept ==
  ASSUME Inv, UNCHANGED <<due, open, buf, rp>>, \A t \in Live : drops'[t] = drops[t],
         head' \in Nat, head <= head',
         up' => up /\ Got \subseteq Got'
  PROVE  RoomInv' /\ PumpInv' /\ BufInv' /\ ReplayInv' /\ OpenInv' /\ GateHoldsStream'
<1>0. Live' = Live
  BY DEF Live
<1>1. RoomInv'
  BY <1>0 DEF Inv, RoomInv, TypeOK
<1>2. PumpInv'
  BY DEF Inv, PumpInv, TypeOK, Pumps
<1>3. BufInv'
  <2>1. 1..head \subseteq 1..head'
    BY DEF Inv, TypeOK
  <2> QED
    BY <2>1 DEF Inv, BufInv
<1>4. OpenInv'
  BY DEF Inv, OpenInv
<1>5. GateHoldsStream'
  BY <1>0 DEF Inv, GateHoldsStream
<1>6. ReplayInv'
  <2> SUFFICES ASSUME up' PROVE ReplayInv'
    BY DEF ReplayInv
  <2>1. up /\ Got \subseteq Got' /\ Promised \subseteq Promised'
    BY DEF Promised
  <2>2. Sound(Promised, buf) => Sound(Promised', buf)
    BY <2>1, SoundGrows
  <2> QED
    BY <1>0, <2>1, <2>2 DEF Inv, ReplayInv
<1> QED
  BY <1>1, <1>2, <1>3, <1>4, <1>5, <1>6

-----------------------------------------------------------------------------
(* The constants, one by one.                                               *)
LEMMA Bounds ==
  /\ SendBuf \in Nat \ {0} /\ GateCap \in Nat \ {0} /\ Page \in Nat \ {0}
  /\ MaxDrops \in Nat \ {0} /\ MaxOps \in Nat /\ MaxResync \in Nat /\ NoSub \notin Subs
BY SessionAssumption

(* Each action keeps the invariant, in the lemmas named after the actions.  *)
(* A commit:                                                                *)
LEMMA CommitKeeps ==
  ASSUME Inv, Commit
  PROVE  Inv'
<1>1. /\ head' = head + 1 /\ head' \in 0..MaxOps
      /\ UNCHANGED <<due, offered, open, buf, drops, connSub, send, up, rp, asks, wants, cursor,
                     base, seen, withheld>>
  BY SessionAssumption DEF Inv, TypeOK, Commit, Stream!Commit, clientVars
<1>2. head \in Nat /\ head' \in Nat /\ head <= head' /\ 1..head \subseteq 1..head'
  BY <1>1 DEF Inv, TypeOK
<1>3. Got' = Got /\ Stock' = Stock
  BY <1>1 DEF Got, Stock
<1>4. RoomInv' /\ PumpInv' /\ BufInv' /\ ReplayInv' /\ OpenInv' /\ GateHoldsStream'
  BY <1>1, <1>2, <1>3, PumpKept
<1>5. TypeOK'
  BY <1>1 DEF Inv, TypeOK
<1>6. SendInv' /\ StockInv' /\ CursorInv'
  BY <1>1, <1>2, <1>3 DEF Inv, SendInv, StockInv, CursorInv, Stock
<1> QED
  BY <1>4, <1>5, <1>6 DEF Inv

(* The connection ends.                                                     *)
LEMMA DisconnectKeeps ==
  ASSUME Inv, Disconnect
  PROVE  Inv'
<1>1. /\ up' = FALSE /\ send' = <<>>
      /\ UNCHANGED <<head, due, offered, open, buf, drops, connSub, rp, asks, wants, cursor,
                     base, seen, withheld>>
  BY DEF Disconnect, clientVars, streamVars
<1>2. Stock' = Stock /\ head' \in Nat /\ head <= head' /\ Len(send') = 0
  BY <1>1 DEF Stock, Inv, TypeOK
<1>3. RoomInv' /\ PumpInv' /\ BufInv' /\ ReplayInv' /\ OpenInv' /\ GateHoldsStream'
  BY <1>1, <1>2, PumpKept
<1>4. TypeOK'
  <2>1. send' \in Seq(Frames) /\ Len(send') <= SendBuf /\ up' \in BOOLEAN
    <3>1. send' \in Seq(Frames) /\ Len(send') <= SendBuf
      BY <1>1, <1>2, Bounds
    <3> QED
      BY <1>1, <3>1
  <2> QED
    BY <1>1, <2>1 DEF Inv, TypeOK
<1>5. SendInv'
  BY <1>1, <1>2 DEF SendInv, Sound
<1>6. StockInv' /\ CursorInv'
  <2>1. CursorInv'
    BY <1>1, <1>2 DEF Inv, CursorInv
  <2> QED
    BY <1>1, <1>2, <2>1 DEF Inv, StockInv
<1> QED
  BY <1>3, <1>4, <1>5, <1>6 DEF Inv

(* The browser reads a frame and moves its cursor: SendInv says that it     *)
(* may.                                                                     *)
LEMMA WriteFrameKeeps ==
  ASSUME Inv, WriteFrame
  PROVE  Inv'
<1> DEFINE f == Head(send)
<1>0. /\ up /\ send # <<>> /\ send' = Tail(send)
      /\ seen' = {n \in seen \cup Handed(f) : n > base'}
      /\ withheld' = {n \in withheld \ Handed(f) : n > base'}
      /\ UNCHANGED <<head, due, offered, open, buf, drops, connSub, up, rp>>
  BY DEF WriteFrame, streamVars
<1>1. /\ send \in Seq(Frames) /\ send' \in Seq(Frames) /\ Len(send') = Len(send) - 1
      /\ Len(send) \in Nat \ {0} /\ f = send[1] /\ f \in Frames
      /\ \A k \in 1..Len(send) - 1 : send'[k] = send[k + 1]
      /\ 1 \in 1..Len(send)
  BY <1>0, TailProps DEF Inv, TypeOK
<1>2. Brings(f) \subseteq 1..head
  BY <1>1 DEF Inv, SendInv
<1>3. /\ f.type = "fresh" => base' = IF f.seq > base THEN f.seq ELSE base
      /\ f.type # "fresh" => base' = base
      /\ f.type = "op" => Handed(f) = {f.seq} /\ Brings(f) = {f.seq}
      /\ f.type = "fresh" => Handed(f) = {} /\ Brings(f) = 1..f.seq
      /\ f.type \notin {"op", "fresh"} => Handed(f) = {} /\ Brings(f) = {}
  <2>1. /\ f.type = "fresh" => base' = IF f.seq > base THEN f.seq ELSE base
        /\ f.type # "fresh" => base' = base
    BY DEF WriteFrame
  <2> HIDE DEF f
  <2> QED
    BY <2>1 DEF Brings, Handed
<1>4. /\ \/ UNCHANGED asks
         \/ asks' = Append(asks, SubscribeAsk(Null))
      /\ \/ UNCHANGED <<wants, cursor>>
         \/ cursor' = Null
         \/ /\ f.type \in {"op", "subscribed", "fresh"} /\ cursor' = f.seq
      /\ wants' \in BOOLEAN
  BY <1>1 DEF WriteFrame, clientVars, Inv, TypeOK
<1> HIDE DEF f
<1>5. Stock' = Stock \cup Brings(f) /\ head \in Nat /\ head' = head /\ Stock' \subseteq 1..head
  <2>1. head \in Nat /\ head' = head /\ base \in Nat /\ f.seq \in Nat
    BY <1>0, <1>1, SessionAssumption DEF Inv, TypeOK, Frames
  <2>2. seen \subseteq Nat \ {0} /\ withheld \subseteq Nat \ {0}
    BY SessionAssumption DEF Inv, TypeOK, Seqs
  <2>3. base' \in Nat /\ base' >= base /\ 1..base' \subseteq 1..base \cup Brings(f)
    BY <1>3, <2>1
  <2>4. f.type = "fresh" => Brings(f) \subseteq 1..base'
    BY <1>3, <2>1
  <2>5. f.type # "fresh" => Brings(f) = Handed(f)
    BY <1>3
  <2>6. Brings(f) \subseteq Nat \ {0} /\ Handed(f) \subseteq Brings(f)
    BY <1>2, <1>3, <2>1
  <2>7. Stock' = Stock \cup Brings(f)
    <3>1. \A n \in Nat \ {0} : n \in seen' \cup withheld'
              <=> n > base' /\ n \in seen \cup withheld \cup Handed(f)
      BY <1>0, <2>2
    <3>2. \A n \in Nat \ {0} : n \in Stock' <=> n <= base' \/ n \in seen' \cup withheld'
      BY <2>3 DEF Stock
    <3>3. \A n \in Nat \ {0} : n \in Stock <=> n <= base \/ n \in seen \cup withheld
      BY <2>1 DEF Stock
    <3>4. \A n \in Nat \ {0} : n \in Stock' <=> n \in Stock \cup Brings(f)
      <4>1. \A n \in Nat \ {0} : n <= base' <=> n \in 1..base'
        BY <2>3
      <4>2. \A n \in Nat \ {0} : n <= base <=> n \in 1..base
        BY <2>1
      <4> SUFFICES ASSUME NEW n \in Nat \ {0} PROVE n \in Stock' <=> n \in Stock \cup Brings(f)
        OBVIOUS
      <4>3. n <= base => n <= base'
        BY <2>1, <2>3
      <4>4. n > base' <=> ~(n <= base')
        BY <2>3
      <4>5. CASE f.type = "fresh"
        BY <2>3, <2>4, <2>6, <3>1, <3>2, <3>3, <4>1, <4>2, <4>3, <4>4, <4>5
      <4>6. CASE f.type # "fresh"
        BY <1>3, <2>5, <3>1, <3>2, <3>3, <4>3, <4>4, <4>6
      <4> QED
        BY <4>5, <4>6
    <3>5. Stock' \subseteq Nat \ {0} /\ Stock \subseteq Nat \ {0}
      <4>1. 1..base \subseteq Nat \ {0} /\ 1..base' \subseteq Nat \ {0}
        BY <2>1, <2>3
      <4>2. seen' \subseteq Nat \ {0} /\ withheld' \subseteq Nat \ {0}
        BY <1>0, <2>2, <2>6
      <4> QED
        BY <2>2, <4>1, <4>2 DEF Stock
    <3> QED
      BY <2>6, <3>4, <3>5
  <2> QED
    BY <1>2, <2>1, <2>7 DEF Inv, StockInv
<1>6. Got' = Got
  <2>1. Carried(send, Len(send)) = Brings(f) \cup Carried(send', Len(send'))
    BY <1>0, <1>1, CarriedTail DEF f
  <2> QED
    BY <1>5, <2>1 DEF Got
<1>7. RoomInv' /\ PumpInv' /\ BufInv' /\ ReplayInv' /\ OpenInv' /\ GateHoldsStream'
  BY <1>0, <1>5, <1>6, PumpKept
<1>8. SendInv'
  <2>1. Sound(Stock', send')
    BY <1>0, <1>1, <1>5, SoundTail DEF f, Inv, SendInv
  <2>2. \A k \in 1..Len(send') : Brings(send'[k]) \subseteq 1..head'
    BY <1>1, <1>5 DEF Inv, SendInv
  <2> QED
    BY <1>0, <2>1, <2>2 DEF SendInv
<1>9. f.type \in {"op", "subscribed", "fresh"} => 1..f.seq \subseteq Stock'
  <2>1. Sound(Stock, send)
    BY DEF Inv, SendInv
  <2>2. f.type = "op" => 1..f.seq \subseteq Stock \cup Carried(send, 1)
    BY <1>1, <2>1 DEF Sound
  <2>3. f.type = "subscribed" => 1..f.seq \subseteq Stock
    BY <1>1, <2>1 DEF Sound
  <2>4. f.type = "fresh" => 1..f.seq \subseteq Brings(f)
    BY DEF Brings
  <2>5. Carried(send, 1) \subseteq Brings(f)
    <3>1. \A n : n \in Carried(send, 1) <=> \E i \in 1..1 : n \in Brings(send[i])
      BY CarriedElem
    <3>2. \A i \in 1..1 : send[i] = f
      BY <1>1
    <3> QED
      BY <3>1, <3>2
  <2> QED
    BY <1>5, <2>2, <2>3, <2>4, <2>5
<1>10. CursorInv'
  <2>1. UNCHANGED <<wants, cursor>> => CursorInv'
    BY <1>5 DEF Inv, CursorInv, Stock
  <2> QED
    BY <1>4, <1>9, <2>1 DEF CursorInv, Stock, Null
<1>11. asks' \in Seq(Asks) /\ \A k \in 1..Len(asks') :
                asks'[k].since # Null => 1..asks'[k].since \subseteq Stock'
  <2>1. asks \in Seq(Asks) /\ \A k \in 1..Len(asks) :
                asks[k].since # Null => 1..asks[k].since \subseteq Stock'
    BY <1>5 DEF Inv, StockInv, TypeOK
  <2>2. SubscribeAsk(Null) \in Asks /\ SubscribeAsk(Null).since = Null
    BY SessionAssumption DEF SubscribeAsk, Asks, Null
  <2>3. CASE UNCHANGED asks
    BY <2>1, <2>3
  <2>4. CASE asks' = Append(asks, SubscribeAsk(Null))
    <3> DEFINE a == SubscribeAsk(Null)
    <3>1. asks' = Append(asks, a) /\ a \in Asks /\ a.since = Null
      BY <2>2, <2>4
    <3> HIDE DEF a
    <3>2. /\ asks' \in Seq(Asks) /\ Len(asks') = Len(asks) + 1
          /\ \A k \in 1..Len(asks') : asks'[k] = IF k <= Len(asks) THEN asks[k] ELSE a
      BY <2>1, <3>1
    <3> QED
      BY <2>1, <3>1, <3>2
  <2> QED
    BY <1>4, <2>3, <2>4
<1>12. StockInv'
  BY <1>0, <1>5, <1>11 DEF Inv, StockInv
<1>13. TypeOK'
  <2>1. cursor' \in 0..Null
    <3>1. MaxOps \in Nat /\ Null = MaxOps + 1 /\ cursor \in 0..Null
      BY SessionAssumption DEF Inv, TypeOK, Null
    <3>2. f.seq \in 0..MaxOps
      BY <1>1 DEF Frames
    <3> QED
      BY <1>4, <3>1, <3>2
  <2>2. seen' \subseteq Seqs /\ withheld' \subseteq Seqs /\ base' \in 0..MaxOps
    <3>1. 1..head \subseteq Seqs
      BY SessionAssumption DEF Inv, TypeOK, Seqs
    <3>2. f.seq \in 0..MaxOps /\ base \in 0..MaxOps
      BY <1>1 DEF Frames, Inv, TypeOK
    <3>3. Handed(f) \subseteq Seqs
      BY <1>2, <1>3, <3>1
    <3> QED
      BY <1>0, <1>3, <3>2, <3>3 DEF Inv, TypeOK
  <2>3. Len(send') <= SendBuf
    BY <1>1, SessionAssumption DEF Inv, TypeOK
  <2> QED
    BY <1>0, <1>1, <1>4, <1>11, <2>1, <2>2, <2>3 DEF Inv, TypeOK
<1> QED
  BY <1>7, <1>8, <1>10, <1>12, <1>13 DEF Inv

(* The client sends a frame that asks for no more than it has.              *)
LEMMA AskAppended ==
  ASSUME Inv, NEW since \in 0..Null, NEW X, Stock \subseteq X,
         since # Null => 1..since \subseteq X,
         NEW a \in Asks, a.since = since, NEW more, more = Append(asks, a)
  PROVE  /\ more \in Seq(Asks)
         /\ \A k \in 1..Len(more) : more[k].since # Null => 1..more[k].since \subseteq X
<1>1. asks \in Seq(Asks) /\ \A k \in 1..Len(asks) :
                asks[k].since # Null => 1..asks[k].since \subseteq X
  BY DEF Inv, StockInv, TypeOK
<1>2. /\ more \in Seq(Asks) /\ Len(more) = Len(asks) + 1
      /\ \A k \in 1..Len(more) : more[k] = IF k <= Len(asks) THEN asks[k] ELSE a
  BY <1>1
<1> QED
  BY <1>1, <1>2

(* The frames of the client.                                                *)
LEMMA AskTypes ==
  /\ \A since \in 0..Null : SubscribeAsk(since) \in Asks /\ SubscribeAsk(since).since = since
  /\ UnsubscribeAsk \in Asks /\ UnsubscribeAsk.since = Null
  /\ Null \in 0..Null
BY SessionAssumption DEF SubscribeAsk, UnsubscribeAsk, Asks, Null

(* The log fits the bound of the model.                                     *)
LEMMA SeqsUpToHead ==
  ASSUME TypeOK
  PROVE  head \in Nat /\ 1..head \subseteq Seqs
BY SessionAssumption DEF TypeOK, Seqs

(* A page subscribes.                                                       *)
LEMMA OpenPageKeeps ==
  ASSUME Inv, OpenPage
  PROVE  Inv'
<1>1. /\ wants' = TRUE
      /\ cursor' = (IF wants THEN cursor ELSE Null)
      /\ asks' = IF up THEN Append(asks, SubscribeAsk(cursor')) ELSE asks
      /\ UNCHANGED <<head, due, offered, open, buf, drops, connSub, send, up, rp,
                     base, seen, withheld>>
  BY DEF OpenPage, streamVars
<1>2. Stock' = Stock
  BY <1>1 DEF Stock
<1>3. Got \subseteq Got'
  BY <1>1, <1>2 DEF Got
<1>4. head' \in Nat /\ head <= head' /\ head' = head
  BY <1>1 DEF Inv, TypeOK
<1>5. RoomInv' /\ PumpInv' /\ BufInv' /\ ReplayInv' /\ OpenInv' /\ GateHoldsStream'
  BY <1>1, <1>3, <1>4, PumpKept
<1>6. SendInv'
  <2>1. Sound(Stock', send)
    BY <1>2, SoundGrows DEF Inv, SendInv
  <2> QED
    BY <1>1, <2>1 DEF Inv, SendInv
<1>7. cursor' \in 0..Null /\ (cursor' # Null => 1..cursor' \subseteq Stock')
  BY <1>1, <1>2, AskTypes DEF Inv, TypeOK, CursorInv, Stock
<1>8. CursorInv'
  BY <1>7 DEF CursorInv, Stock
<1>9. asks' \in Seq(Asks) /\ \A k \in 1..Len(asks') :
                asks'[k].since # Null => 1..asks'[k].since \subseteq Stock'
  <2>1. CASE up
    <3>1. asks' = Append(asks, SubscribeAsk(cursor'))
      BY <1>1, <2>1
    <3>2. SubscribeAsk(cursor') \in Asks /\ SubscribeAsk(cursor').since = cursor'
      BY <1>7, AskTypes
    <3> QED
      BY <1>2, <1>7, <3>1, <3>2, AskAppended
  <2>2. CASE ~up
    BY <1>1, <1>2, <2>2 DEF Inv, StockInv, TypeOK
  <2> QED
    BY <2>1, <2>2
<1>10. StockInv'
  BY <1>1, <1>2, <1>9 DEF Inv, StockInv
<1>11. TypeOK'
  <2>1. wants' \in BOOLEAN
    BY <1>1
  <2> QED
    BY <1>1, <1>7, <1>9, <2>1 DEF Inv, TypeOK
<1> QED
  BY <1>5, <1>6, <1>8, <1>10, <1>11 DEF Inv

(* The last page of the trip is left.                                       *)
LEMMA LeavePageKeeps ==
  ASSUME Inv, LeavePage
  PROVE  Inv'
<1>1. /\ wants' = FALSE /\ cursor' = Null
      /\ asks' = IF up THEN Append(asks, UnsubscribeAsk) ELSE asks
      /\ UNCHANGED <<head, due, offered, open, buf, drops, connSub, send, up, rp, base, seen, withheld>>
  BY DEF LeavePage, streamVars
<1>2. Stock' = Stock /\ Got' = Got /\ head' = head /\ head' \in Nat /\ head <= head'
  BY <1>1 DEF Stock, Got, Inv, TypeOK
<1>3. RoomInv' /\ PumpInv' /\ BufInv' /\ ReplayInv' /\ OpenInv' /\ GateHoldsStream'
  BY <1>1, <1>2, PumpKept
<1>4. SendInv' /\ CursorInv'
  BY <1>1, <1>2 DEF Inv, SendInv, CursorInv
<1>5. asks' \in Seq(Asks) /\ \A k \in 1..Len(asks') :
                asks'[k].since # Null => 1..asks'[k].since \subseteq Stock'
  <2>1. CASE up
    <3>1. asks' = Append(asks, UnsubscribeAsk)
      BY <1>1, <2>1
    <3> DEFINE a == UnsubscribeAsk
    <3>2. asks' = Append(asks, a) /\ a \in Asks /\ a.since = Null /\ Null \in 0..Null
      BY <3>1, AskTypes
    <3> HIDE DEF a
    <3> QED
      BY <1>2, <3>2, AskAppended
  <2>2. CASE ~up
    BY <1>1, <1>2, <2>2 DEF Inv, StockInv, TypeOK
  <2> QED
    BY <2>1, <2>2
<1>6. StockInv'
  BY <1>1, <1>2, <1>5 DEF Inv, StockInv
<1>7. TypeOK'
  <2>1. cursor' \in 0..Null /\ wants' \in BOOLEAN
    BY <1>1, AskTypes
  <2> QED
    BY <1>1, <1>5, <2>1 DEF Inv, TypeOK
<1> QED
  BY <1>3, <1>4, <1>6, <1>7 DEF Inv

(* The browser resumes from its cursor.                                     *)
LEMMA ConnectKeeps ==
  ASSUME Inv, Connect
  PROVE  Inv'
<1>1. /\ ~up /\ rp.pc = "idle" /\ Live = {} /\ wants /\ up' = TRUE
      /\ asks' = <<SubscribeAsk(cursor)>>
      /\ UNCHANGED <<head, due, offered, open, buf, drops, connSub, send, rp, wants, cursor,
                     base, seen, withheld>>
  BY DEF Connect, streamVars, clientVars
<1>2. Stock' = Stock /\ Live' = {} /\ open = {} /\ send = <<>>
  BY <1>1 DEF Stock, Live, Inv, RoomInv, SendInv
<1>3. RoomInv' /\ PumpInv' /\ BufInv' /\ ReplayInv' /\ OpenInv' /\ GateHoldsStream'
  <2>1. RoomInv' /\ PumpInv' /\ BufInv'
    BY <1>1, <1>2 DEF Inv, RoomInv, PumpInv, BufInv, Live
  <2>2. ReplayInv' /\ OpenInv' /\ GateHoldsStream'
    BY <1>1, <1>2 DEF ReplayInv, OpenInv, GateHoldsStream
  <2> QED
    BY <2>1, <2>2
<1>4. SendInv' /\ CursorInv'
  BY <1>1, <1>2 DEF Inv, SendInv, CursorInv
<1>5. cursor \in 0..Null /\ (cursor # Null => 1..cursor \subseteq Stock)
  BY <1>1 DEF Inv, TypeOK, CursorInv, Stock
<1>6. asks' \in Seq(Asks) /\ \A k \in 1..Len(asks') :
                asks'[k].since # Null => 1..asks'[k].since \subseteq Stock'
  <2> DEFINE a == SubscribeAsk(cursor)
  <2>1. a \in Asks /\ a.since = cursor /\ asks' = <<a>>
    BY <1>1, <1>5, AskTypes
  <2> HIDE DEF a
  <2>2. asks' \in Seq(Asks) /\ Len(asks') = 1 /\ asks'[1] = a
    BY <2>1
  <2>3. \A k \in 1..Len(asks') : asks'[k] = a
    BY <2>2
  <2> QED
    BY <1>2, <1>5, <2>1, <2>2, <2>3
<1>7. StockInv'
  BY <1>1, <1>2, <1>6 DEF Inv, StockInv
<1>8. TypeOK'
  BY <1>1, <1>6 DEF Inv, TypeOK
<1> QED
  BY <1>3, <1>4, <1>7, <1>8 DEF Inv

(* A closed connection leaves the room.                                     *)
LEMMA ShutdownKeeps ==
  ASSUME Inv, Shutdown
  PROVE  Inv'
<1>1. /\ ~up /\ rp.pc = "idle" /\ connSub' = NoSub /\ asks' = <<>> /\ open' = {}
      /\ drops' = [s \in Subs |-> 0]
      /\ UNCHANGED <<head, buf, send, up, rp, wants, cursor, base, seen, withheld>>
      /\ due' = [s \in Subs |-> IF s \in Live THEN 0 ELSE due[s]]
      /\ offered' = [s \in Subs |-> IF s \in Live THEN 0 ELSE offered[s]]
  BY DEF Shutdown, clientVars, Stream!Leave
<1>2. /\ Stock' = Stock /\ asks' \in Seq(Asks) /\ Len(asks') = 0
      /\ MaxOps \in Nat /\ MaxDrops \in Nat
  BY <1>1, SessionAssumption DEF Stock
<1>3. /\ due' \in [Subs -> 0..MaxOps + 1] /\ offered' \in [Subs -> 0..MaxOps]
      /\ drops' \in [Subs -> 0..MaxDrops]
  BY <1>1, <1>2 DEF Inv, TypeOK
<1>4. \A s \in Subs : due'[s] = 0
  <2>1. \A s \in Subs : due[s] \in 0..MaxOps + 1
    BY DEF Inv, TypeOK
  <2> QED
    BY <1>1, <1>2, <2>1 DEF Live
<1>5. Live' = {} /\ head \in Nat
  BY <1>4 DEF Live, Inv, TypeOK
<1>6. RoomInv'
  BY <1>1, <1>4, <1>5 DEF Inv, RoomInv
<1>7. PumpInv' /\ BufInv' /\ SendInv' /\ StockInv' /\ CursorInv'
  BY <1>1, <1>2 DEF Inv, PumpInv, BufInv, SendInv, StockInv, CursorInv
<1>8. ReplayInv' /\ OpenInv' /\ GateHoldsStream'
  BY <1>1 DEF ReplayInv, OpenInv, GateHoldsStream
<1>9. TypeOK'
  BY <1>1, <1>2, <1>3 DEF Inv, TypeOK
<1> QED
  BY <1>6, <1>7, <1>8, <1>9 DEF Inv

(* The frames that the actions make.                                        *)
LEMMA FrameTypes ==
  /\ Other \in Frames /\ Other.type = "other" /\ Brings(Other) = {}
  /\ Resync \in Frames /\ Resync.type = "resync" /\ Brings(Resync) = {}
  /\ \A n \in 0..MaxOps : /\ OpFrame(n) \in Frames /\ OpFrame(n).type = "op"
                          /\ OpFrame(n).seq = n /\ Brings(OpFrame(n)) = {n}
BY SessionAssumption DEF Other, Resync, OpFrame, Frames, Brings

(* Queueing a frame that brings nothing.                                    *)
LEMMA QueueKeeps ==
  ASSUME Inv, NEW f \in {Other, Resync}, Queue(f),
         UNCHANGED <<head, due, open, buf, base, seen, withheld>>
  PROVE  /\ SendInv' /\ send' \in Seq(Frames) /\ Len(send') <= SendBuf /\ up' \in BOOLEAN
         /\ Stock' = Stock
         /\ up' => up /\ Got \subseteq Got'
<1>1. f \in Frames /\ f.type # "op" /\ f.type # "subscribed" /\ Brings(f) \subseteq 1..head
  BY FrameTypes
<1> QED
  BY <1>1, Queued DEF Inv

(* A drop notice sends a resync frame.  Its subscription has left the room, *)
(* so the gate that GateHoldsStream is about is another one.                *)
LEMMA DroppedKeeps ==
  ASSUME Inv, NEW s \in Subs, Dropped(s)
  PROVE  Inv'
<1>1. /\ drops[s] > 0 /\ s \notin Live /\ drops' = [drops EXCEPT ![s] = @ - 1]
      /\ connSub' = NoSub /\ Queue(Resync)
      /\ UNCHANGED <<head, due, offered, open, buf, rp, asks, wants, cursor, base, seen, withheld>>
  BY DEF Dropped, streamVars, clientVars
<1>2. /\ SendInv' /\ send' \in Seq(Frames) /\ Len(send') <= SendBuf /\ up' \in BOOLEAN
      /\ Stock' = Stock
      /\ up' => up /\ Got \subseteq Got'
  BY <1>1, QueueKeeps
<1>3. Live' = Live /\ head' \in Nat /\ head <= head'
  BY <1>1 DEF Live, Inv, TypeOK
<1>4. drops' \in [Subs -> 0..MaxDrops]
  <2>1. drops \in [Subs -> 0..MaxDrops] /\ drops[s] - 1 \in 0..MaxDrops
    BY <1>1, Bounds DEF Inv, TypeOK
  <2> QED
    BY <1>1, <2>1
<1>5. \A t \in Live : drops'[t] = drops[t]
  BY <1>1, LiveIsSubs DEF Inv, TypeOK

<1>6. RoomInv' /\ PumpInv' /\ BufInv' /\ ReplayInv' /\ OpenInv' /\ GateHoldsStream'
  BY <1>1, <1>2, <1>3, <1>5, PumpKept
<1>7. StockInv' /\ CursorInv'
  BY <1>1, <1>2 DEF Inv, StockInv, CursorInv
<1>8. TypeOK'
  BY <1>1, <1>2, <1>4 DEF Inv, TypeOK
<1> QED
  BY <1>2, <1>6, <1>7, <1>8 DEF Inv

(* The read pump takes the next frame of the client.                        *)
LEMMA AsksTail ==
  ASSUME Inv, asks # <<>>, NEW a, a = Head(asks)
  PROVE  /\ Tail(asks) \in Seq(Asks) /\ a \in Asks
         /\ a.since # Null => 1..a.since \subseteq Stock
         /\ \A k \in 1..Len(Tail(asks)) :
               Tail(asks)[k].since # Null => 1..Tail(asks)[k].since \subseteq Stock
<1>1. /\ Tail(asks) \in Seq(Asks) /\ Len(asks) \in Nat \ {0} /\ Len(Tail(asks)) = Len(asks) - 1
      /\ \A k \in 1..Len(asks) - 1 : Tail(asks)[k] = asks[k + 1]
      /\ a = asks[1] /\ a \in Asks
  BY TailProps DEF Inv, TypeOK
<1> QED
  BY <1>1 DEF Inv, StockInv

(* The answer to an unsubscribe.                                            *)
LEMMA UnsubscribedKeeps ==
  ASSUME Inv, Unsubscribed
  PROVE  Inv'
<1>1. /\ rp.pc = "bye" /\ Queue(Other) /\ rp' = Idle
      /\ UNCHANGED <<head, due, offered, open, buf, drops, connSub, asks, wants, cursor,
                     base, seen, withheld>>
  BY DEF Unsubscribed, streamVars, clientVars
<1>2. /\ SendInv' /\ send' \in Seq(Frames) /\ Len(send') <= SendBuf /\ up' \in BOOLEAN
      /\ Stock' = Stock
      /\ up' => up /\ Got \subseteq Got'
  BY <1>1, QueueKeeps
<1>3. /\ Live' = Live /\ head \in Nat /\ rp'.sub = NoSub /\ rp'.pc = "idle" /\ rp' \in Pumps
      /\ rp'.from = 0 /\ rp'.cursor = 0 /\ rp'.end = 0
  BY <1>1, SessionAssumption DEF Live, Inv, TypeOK, Idle, Pumps
<1>4. RoomInv' /\ PumpInv' /\ BufInv'
  BY <1>1, <1>3 DEF Inv, RoomInv, PumpInv, BufInv
<1>5. ReplayInv' /\ OpenInv' /\ GateHoldsStream'
  <2>1. NoSub \notin Live
    BY LiveIsSubs, SessionAssumption
  <2> QED
    BY <1>1, <1>2, <1>3, <2>1 DEF Inv, ReplayInv, OpenInv, GateHoldsStream
<1>6. StockInv' /\ CursorInv'
  BY <1>1, <1>2, <1>3 DEF Inv, StockInv, CursorInv
<1>7. TypeOK'
  BY <1>1, <1>2, <1>3 DEF Inv, TypeOK
<1> QED
  BY <1>2, <1>4, <1>5, <1>6, <1>7 DEF Inv

(* A subscribe that is answered without a subscription.                     *)
LEMMA RefusedKeeps ==
  ASSUME Inv, asks # <<>>, asks' = Tail(asks), NEW f \in {Other, Resync}, Queue(f), rp' = rp,
         UNCHANGED <<head, due, offered, open, buf, drops, connSub, wants, cursor, base, seen, withheld>>
  PROVE  Inv'
<1>1. /\ SendInv' /\ send' \in Seq(Frames) /\ Len(send') <= SendBuf /\ up' \in BOOLEAN
      /\ Stock' = Stock
      /\ up' => up /\ Got \subseteq Got'
  BY QueueKeeps
<1>2. head' \in Nat /\ head <= head'
  BY DEF Inv, TypeOK
<1>3. RoomInv' /\ PumpInv' /\ BufInv' /\ ReplayInv' /\ OpenInv' /\ GateHoldsStream'
  BY <1>1, <1>2, PumpKept
<1>4. /\ asks' \in Seq(Asks)
      /\ \A k \in 1..Len(asks') : asks'[k].since # Null => 1..asks'[k].since \subseteq Stock
  BY AsksTail
<1>5. StockInv' /\ CursorInv'
  BY <1>1, <1>4 DEF Inv, StockInv, CursorInv
<1>6. TypeOK'
  BY <1>1, <1>4 DEF Inv, TypeOK
<1> QED
  BY <1>1, <1>3, <1>5, <1>6 DEF Inv

(* A subscribe that fails.                                                  *)
LEMMA SubscribeFailsKeeps ==
  ASSUME Inv, SubscribeFails
  PROVE  Inv'
BY RefusedKeeps DEF SubscribeFails, Asked, streamVars, clientVars

(* Engine.Subscribe accepts a cursor, which the client has, or the head.    *)
LEMMA HandleSubscribeKeeps ==
  ASSUME Inv, HandleSubscribe
  PROVE  Inv'
<1> DEFINE a == Head(asks)
<1>1. /\ rp.pc = "idle" /\ asks # <<>> /\ asks' = Tail(asks)
      /\ UNCHANGED <<head, due, offered, open, buf, drops, connSub, wants, cursor,
                     base, seen, withheld>>
      /\ \/ Queue(Resync) /\ rp' = rp
         \/ /\ ~(a.since # Null /\ (a.since > head \/ head - a.since > MaxResync))
            /\ rp' = [Idle EXCEPT !.pc = "join", !.fresh = (a.since = Null),
                                  !.from = IF a.since = Null THEN head ELSE a.since]
            /\ UNCHANGED <<send, up>>
  BY DEF HandleSubscribe, Asked, streamVars, clientVars
<1>2. /\ Tail(asks) \in Seq(Asks) /\ a \in Asks
      /\ a.since # Null => 1..a.since \subseteq Stock
      /\ \A k \in 1..Len(Tail(asks)) :
            Tail(asks)[k].since # Null => 1..Tail(asks)[k].since \subseteq Stock
  BY <1>1, AsksTail
<1> HIDE DEF a
<1>3. CASE Queue(Resync) /\ rp' = rp
  BY <1>1, <1>3, RefusedKeeps
<1>4. CASE /\ ~(a.since # Null /\ (a.since > head \/ head - a.since > MaxResync))
           /\ rp' = [Idle EXCEPT !.pc = "join", !.fresh = (a.since = Null),
                                 !.from = IF a.since = Null THEN head ELSE a.since]
           /\ UNCHANGED <<send, up>>
  <2>1. /\ Stock' = Stock /\ Got' = Got /\ Live' = Live /\ head \in 0..MaxOps
        /\ a.since \in 0..Null /\ MaxOps \in Nat
    BY <1>1, <1>2, <1>4, SessionAssumption DEF Stock, Got, Live, Inv, TypeOK, Asks
  <2>2. /\ rp'.pc = "join" /\ rp'.sub = NoSub /\ rp'.from \in 0..head /\ rp'.cursor = 0
        /\ rp'.end = 0 /\ rp' \in Pumps
        /\ ~rp'.fresh => a.since # Null /\ rp'.from = a.since
    <3>1. (IF a.since = Null THEN head ELSE a.since) \in 0..head
      BY <1>4, <2>1
    <3> DEFINE x == IF a.since = Null THEN head ELSE a.since
               y == (a.since = Null)
    <3>2. /\ rp' = [pc |-> "join", sub |-> NoSub, from |-> x, fresh |-> y,
                    cursor |-> 0, end |-> 0, more |-> FALSE, err |-> FALSE]
          /\ ~y => a.since # Null /\ x = a.since
          /\ x \in 0..head /\ y \in BOOLEAN
      BY <1>4, <3>1 DEF Idle
    <3> HIDE DEF x, y
    <3>3. x \in 0..MaxOps /\ 0 \in 0..MaxOps
      BY <2>1, <3>2
    <3>4. rp' \in Pumps
      BY <3>2, <3>3 DEF Pumps
    <3> QED
      BY <3>2, <3>4
  <2>3. RoomInv' /\ PumpInv' /\ BufInv'
    BY <1>1, <2>1, <2>2 DEF Inv, RoomInv, PumpInv, BufInv
  <2>4. SendInv' /\ CursorInv'
    BY <1>1, <1>4, <2>1 DEF Inv, SendInv, CursorInv
  <2>5. ReplayInv' /\ OpenInv' /\ GateHoldsStream'
    <3>1. NoSub \notin Live
      BY LiveIsSubs, SessionAssumption
    <3> QED
      BY <1>1, <1>4, <2>1, <2>2, <3>1 DEF Inv, ReplayInv, OpenInv, GateHoldsStream
  <2>6. StockInv'
    BY <1>1, <1>2, <2>1, <2>2 DEF Inv, StockInv
  <2>7. TypeOK'
    BY <1>1, <1>2, <1>4, <2>2 DEF Inv, TypeOK
  <2> QED
    BY <2>3, <2>4, <2>5, <2>6, <2>7 DEF Inv
<1> QED
  BY <1>1, <1>3, <1>4

-----------------------------------------------------------------------------
(* The gate's buffer stays within its capacity.                             *)
LEMMA BufTyped ==
  ASSUME Inv, NEW f \in Frames,
         \/ buf' = buf
         \/ buf' = Append(buf, f) /\ Len(buf) < GateCap
  PROVE  /\ buf' \in Seq(Frames) /\ Len(buf') <= GateCap
         /\ buf' = Append(buf, f) => Extends(buf', buf, f) /\ Len(buf') = Len(buf) + 1
<1>1. buf \in Seq(Frames) /\ Len(buf) \in Nat /\ Len(buf) <= GateCap /\ GateCap \in Nat
  BY Bounds DEF Inv, TypeOK
<1>2. Extends(Append(buf, f), buf, f) /\ Len(Append(buf, f)) = Len(buf) + 1
  BY <1>1, AppendExtends
<1>3. Append(buf, f) \in Seq(Frames)
  BY <1>2 DEF Extends
<1> DEFINE r == Append(buf, f)
<1>4. /\ r \in Seq(Frames) /\ Len(r) = Len(buf) + 1 /\ Extends(r, buf, f)
      /\ buf' = buf \/ (buf' = r /\ Len(buf) < GateCap)
  BY <1>2, <1>3
<1>5. (buf' = r => Extends(buf', buf, f) /\ Len(buf') = Len(buf) + 1)
  BY <1>4
<1> HIDE DEF r
<1>6. buf' \in Seq(Frames) /\ Len(buf') <= GateCap
  BY <1>1, <1>4
<1> QED
  BY <1>5, <1>6 DEF r

(* What Inv says of the stream of one subscription, when an event that is   *)
(* no operation is broadcast.                                               *)
LEMMA TellKeeps ==
  ASSUME Inv, NEW gone, NEW S, S = Live \ gone, Delivers(S, Other),
         UNCHANGED <<up, base, seen, head>>,
         \A t \in Subs : due'[t] = IF t \in gone THEN 0 ELSE due[t],
         open' = open \ gone, rp' \in Pumps,
         rp'.sub = rp.sub, rp'.cursor = rp.cursor, rp'.end = rp.end, rp'.more = rp.more,
         \/ rp'.pc = rp.pc
         \/ /\ rp'.pc \notin {"list", "replay", "flush"} /\ rp.pc \notin {"list", "replay", "flush"}
            /\ rp'.pc \in {"idle", "bye", "join"} => rp.pc \in {"idle", "bye", "join"}
  PROVE  /\ RoomInv' /\ SendInv' /\ BufInv' /\ ReplayInv' /\ OpenInv' /\ GateHoldsStream'
         /\ Stock' = Stock /\ withheld' \subseteq Seqs
         /\ send' \in Seq(Frames) /\ Len(send') <= SendBuf
         /\ buf' \in Seq(Frames) /\ Len(buf') <= GateCap /\ drops' \in [Subs -> 0..MaxDrops]
<1>0. Other \in Frames /\ Other.type = "other" /\ Brings(Other) = {}
  BY FrameTypes
<1>1. /\ Stock' = Stock /\ head' \in Nat /\ head <= head' /\ head' = head
      /\ Extends(send', send, Other) /\ Len(send') <= SendBuf /\ send' \in Seq(Frames)
  <2>1. Stock \subseteq Stock' /\ Stock' \subseteq Stock \cup Brings(Other)
    BY DEF Delivers
  <2>2. Extends(send', send, Other) /\ Len(send') <= SendBuf
    BY DEF Delivers
  <2>3. send' \in Seq(Frames)
    BY <2>2 DEF Extends
  <2>4. head' \in Nat /\ head <= head' /\ head' = head
    BY DEF Inv, TypeOK
  <2> QED
    BY <1>0, <2>1, <2>2, <2>3, <2>4
<1>2. withheld' \subseteq Seqs
  <2>1. withheld' \subseteq Stock' /\ Stock \subseteq 1..head /\ 1..head \subseteq Seqs
    BY SeqsUpToHead DEF Stock, Inv, StockInv
  <2> QED
    BY <1>1, <2>1
<1>3. Live' = Live \ gone
  BY DEF Live
<1>4. SendInv'
  <2>1. ~up' => send' = <<>>
    <3> SUFFICES ASSUME ~up PROVE send' = <<>>
      OBVIOUS
    <3>1. send = <<>> /\ Len(send) = 0 /\ Len(send') \in Nat
      BY <1>1 DEF Inv, SendInv
    <3>2. ~(Len(send') > Len(send))
      BY DEF Delivers
    <3> QED
      BY <1>1, <3>1, <3>2, EmptySeq
  <2> QED
    BY <1>0, <1>1, <2>1, SendGrows DEF Inv
<1>5. Got \subseteq Got'
  BY <1>1, GotGrows DEF Inv
<1>6. /\ \/ buf' = buf
         \/ /\ buf' = Append(buf, Other) /\ up /\ Len(buf) < GateCap
            /\ \E s \in S : s \notin open
      /\ drops' \in [Subs -> 0..MaxDrops] /\ \A s \in Subs : drops'[s] >= drops[s]
  BY DEF Delivers
<1>7. /\ buf' \in Seq(Frames) /\ Len(buf') <= GateCap
      /\ buf' = Append(buf, Other) => Extends(buf', buf, Other) /\ Len(buf') = Len(buf) + 1
  BY <1>0, <1>6, BufTyped
<1>8. Extends(buf', buf, Other) /\ buf \in Seq(Frames)
  BY <1>6, <1>7, SameExtends DEF Inv, TypeOK
<1>9. RoomInv'
  <2>1. rp.pc \in {"idle", "bye", "join"} => buf' = <<>>
    BY <1>6, Bounds, LiveIsSubs DEF Inv, RoomInv
  <2>2. \A t \in Subs : due[t] \in Nat
    BY DEF Inv, TypeOK
  <2>3. \A t \in Subs : due'[t] <= head' + 1
    BY <1>1, <2>2 DEF Inv, RoomInv
  <2> QED
    BY <1>3, <2>1, <2>3, LiveIsSubs DEF Inv, RoomInv
<1>10. BufInv'
  <2> SUFFICES ASSUME NEW k \in 1..Len(buf')
               PROVE  Brings(buf'[k]) \subseteq 1..head /\ buf'[k].type \in {"op", "other"}
    BY <1>1 DEF BufInv
  <2>1. Len(buf) \in Nat /\ Len(buf') \in Nat
    BY <1>7, <1>8
  <2>2. CASE k <= Len(buf)
    BY <1>8, <2>1, <2>2 DEF Extends, Inv, BufInv
  <2>3. CASE ~(k <= Len(buf))
    BY <1>0, <1>8, <2>3 DEF Extends
  <2> QED
    BY <2>2, <2>3
<1>11. OpenInv'
  <2> SUFFICES ASSUME up, NEW s \in open, s \notin gone PROVE 1..due'[s] - 1 \subseteq Got'
    BY DEF OpenInv
  <2>1. due'[s] = due[s]
    BY DEF Inv, TypeOK
  <2> QED
    BY <1>5, <2>1 DEF Inv, OpenInv
<1>12. GateHoldsStream'

<2> SUFFICES ASSUME up, rp.sub \in Live, rp.sub \notin gone, drops'[rp.sub] = 0,
                      NEW i \in 1..Len(buf'), buf'[i].type = "op"
               PROVE  /\ buf'[i].seq < due'[rp.sub]
                      /\ \A j \in i + 1..Len(buf') :
                            buf'[j].type = "op" => buf'[j].seq > buf'[i].seq
                      /\ \A n \in buf'[i].seq + 1..due'[rp.sub] - 1 :
                            \E j \in i + 1..Len(buf') : buf'[j] = OpFrame(n)
    BY <1>3 DEF GateHoldsStream
  <2>1. rp.sub \in Subs /\ due'[rp.sub] = due[rp.sub]
    BY LiveIsSubs
  <2>2. drops[rp.sub] = 0
    <3>1. drops[rp.sub] \in Nat /\ drops'[rp.sub] >= drops[rp.sub]
      BY <1>6, <2>1 DEF Inv, TypeOK
    <3> QED
      BY <3>1
  <2>3. /\ Len(buf) \in Nat /\ Len(buf') \in Nat /\ Len(buf) <= Len(buf')
        /\ \A k \in 1..Len(buf') : buf'[k] = IF k <= Len(buf) THEN buf[k] ELSE Other
    BY <1>8 DEF Extends
  <2>4. i \in 1..Len(buf) /\ buf'[i] = buf[i] /\ buf[i].type = "op"
    BY <1>0, <2>3
  <2>5. /\ buf[i].seq < due[rp.sub]
        /\ \A j \in i + 1..Len(buf) : buf[j].type = "op" => buf[j].seq > buf[i].seq
        /\ \A n \in buf[i].seq + 1..due[rp.sub] - 1 :
              \E j \in i + 1..Len(buf) : buf[j] = OpFrame(n)
    BY <2>2, <2>4 DEF Inv, GateHoldsStream
  <2>6. \A j \in i + 1..Len(buf) : j \in i + 1..Len(buf') /\ buf'[j] = buf[j]
    BY <2>3, <2>4
  <2>7. \A j \in i + 1..Len(buf') : buf'[j].type = "op" => j \in i + 1..Len(buf) /\ buf'[j] = buf[j]
    BY <1>0, <2>3, <2>4
  <2> QED
    BY <2>1, <2>4, <2>5, <2>6, <2>7
<1>13. ReplayInv'
  <2> SUFFICES ASSUME up, rp'.pc = rp.pc PROVE ReplayInv'
    BY DEF ReplayInv
  <2>1. Promised \subseteq Promised'
    BY <1>5 DEF Promised
  <2>2. rp.pc \in {"list", "replay"} => 1..rp'.cursor \subseteq Got'
    BY <1>5 DEF Inv, ReplayInv
  <2>3. Sound(Promised, buf) => Sound(Promised', buf')
    <3> SUFFICES ASSUME Sound(Promised, buf) PROVE Sound(Promised', buf')
      OBVIOUS
    <3>1. Sound(Promised', buf)
      BY <2>1, SoundGrows
    <3> QED
      BY <1>0, <1>8, <3>1, SoundExtends
  <2>4. Carried(buf, Len(buf)) \subseteq Carried(buf', Len(buf'))
    BY <1>8, CarriedExtends
  <2>5. rp.sub \in Live' => rp.sub \in Live /\ due'[rp.sub] = due[rp.sub]
    BY <1>3, LiveIsSubs
  <2> QED
    BY <2>1, <2>2, <2>3, <2>4, <2>5 DEF Inv, ReplayInv
<1> QED
  BY <1>1, <1>2, <1>4, <1>6, <1>7, <1>9, <1>10, <1>11, <1>12, <1>13

(* The read pump moves to r, and its other registers stay.                  *)
Moved(r) ==
    /\ rp' \in Pumps
    /\ rp'.sub = rp.sub /\ rp'.cursor = rp.cursor /\ rp'.end = rp.end /\ rp'.more = rp.more
    /\ rp'.from = rp.from /\ rp'.fresh = rp.fresh
    /\ rp'.pc = r
    /\ \/ r = rp.pc
       \/ /\ r \in {"bye", "replace", "hello"} /\ rp.pc \notin {"list", "replay", "flush"}
          /\ r = "bye" <=> rp.pc = "idle"
          /\ r # "bye" => rp.pc \in {"announce", "replace"}

(* The moves of the read pump around a broadcast.                           *)
LEMMA PcMoves ==
  ASSUME Inv, NEW r, rp' = [rp EXCEPT !.pc = r],
         \/ r = "bye" /\ rp.pc = "idle"
         \/ r = "replace" /\ rp.pc = "announce"
         \/ r = "hello" /\ rp.pc = "replace"
  PROVE  Moved(r)
<1>1. rp \in Pumps
  BY DEF Inv, TypeOK
<1>2. rp' \in Pumps /\ rp'.pc = r
  BY <1>1 DEF Pumps
<1>3. /\ rp'.sub = rp.sub /\ rp'.cursor = rp.cursor /\ rp'.end = rp.end /\ rp'.more = rp.more
      /\ rp'.from = rp.from /\ rp'.fresh = rp.fresh
  BY <1>1 DEF Pumps
<1> QED
  BY <1>2, <1>3 DEF Moved

(* Staying is a move.                                                       *)
LEMMA PcStays ==
  ASSUME Inv, rp' = rp
  PROVE  Moved(rp.pc)
BY DEF Inv, TypeOK, Moved

(* The whole invariant, when presence is broadcast and the subscriptions in *)
(* gone leave.                                                              *)
LEMMA ToldKeeps ==
  ASSUME Inv, NEW gone, Broadcast(Live \ gone, Other), UNCHANGED <<up, base, seen, head, wants, cursor>>,
         due' = [t \in Subs |-> IF t \in gone THEN 0 ELSE due[t]],
         offered' \in [Subs -> 0..MaxOps], connSub' \in Subs \cup {NoSub},
         open' = open \ gone, NEW r, Moved(r),
         asks' \in Seq(Asks),
         \A k \in 1..Len(asks') : asks'[k].since # Null => 1..asks'[k].since \subseteq Stock
  PROVE  Inv'
<1>0. Other \in Frames /\ Other.type \in {"op", "other"} /\ Live \ gone \in SUBSET Live
  BY FrameTypes
<1>1. Delivers(Live \ gone, Other)
  BY <1>0, BroadcastDelivers DEF Inv
<1>2. /\ due' \in [Subs -> 0..MaxOps + 1]
      /\ \A t \in Subs : due'[t] = IF t \in gone THEN 0 ELSE due[t]
  <2>1. due \in [Subs -> 0..MaxOps + 1] /\ 0 \in 0..MaxOps + 1
    BY Bounds DEF Inv, TypeOK
  <2> QED
    BY <2>1
<1>3. /\ rp' \in Pumps
      /\ rp'.sub = rp.sub /\ rp'.cursor = rp.cursor /\ rp'.end = rp.end /\ rp'.more = rp.more
      /\ rp'.from = rp.from /\ rp'.fresh = rp.fresh
      /\ \/ rp'.pc = rp.pc
         \/ /\ rp'.pc \notin {"list", "replay", "flush"} /\ rp.pc \notin {"list", "replay", "flush"}
            /\ rp'.pc \in {"idle", "bye", "join"} => rp.pc \in {"idle", "bye", "join"}
            /\ rp'.pc \in {"join", "announce", "replace", "hello"} =>
                  rp.pc \in {"join", "announce", "replace", "hello"}
  BY DEF Moved
<1>4. /\ RoomInv' /\ SendInv' /\ BufInv' /\ ReplayInv' /\ OpenInv' /\ GateHoldsStream'
      /\ Stock' = Stock /\ withheld' \subseteq Seqs
      /\ send' \in Seq(Frames) /\ Len(send') <= SendBuf
      /\ buf' \in Seq(Frames) /\ Len(buf') <= GateCap /\ drops' \in [Subs -> 0..MaxDrops]
  <2> DEFINE S == Live \ gone
  <2>1. S = Live \ gone /\ Delivers(S, Other)
    BY <1>1
  <2> HIDE DEF S
  <2> QED
    BY <1>2, <1>3, <2>1, TellKeeps
<1>5. PumpInv'
  BY <1>3 DEF Inv, PumpInv
<1>6. StockInv' /\ CursorInv'
  <2>1. CursorInv'
    BY <1>4 DEF Inv, CursorInv, Stock
  <2>2. StockInv'
    BY <1>3, <1>4 DEF Inv, StockInv
  <2> QED
    BY <2>1, <2>2
<1>7. TypeOK'
  <2>1. open' \subseteq Subs
    BY DEF Inv, TypeOK
  <2> QED
    BY <1>2, <1>3, <1>4, <2>1 DEF Inv, TypeOK
<1> QED
  BY <1>4, <1>5, <1>6, <1>7 DEF Inv

(* The frames of the client when none is read.                              *)
LEMMA AsksKept ==
  ASSUME Inv, UNCHANGED asks
  PROVE  /\ asks' \in Seq(Asks)
         /\ \A k \in 1..Len(asks') : asks'[k].since # Null => 1..asks'[k].since \subseteq Stock
BY DEF Inv, TypeOK, StockInv

(* Presence is broadcast and nobody leaves.                                 *)
LEMMA PresentKeeps ==
  ASSUME Inv, Broadcast(Live, Other), NEW r, Moved(r),
         UNCHANGED <<streamVars, open, connSub, up, asks, clientVars>>
  PROVE  Inv'
<1>1. UNCHANGED <<head, due, offered, open, connSub, up, asks, wants, cursor, base, seen>>
  BY DEF streamVars, clientVars
<1>2. Live = Live \ {} /\ open' = open \ {}
  BY <1>1
<1>3. due' = [t \in Subs |-> IF t \in {} THEN 0 ELSE due[t]]
  BY <1>1 DEF Inv, TypeOK
<1>4. Broadcast(Live \ {}, Other)
  BY <1>2
<1>5. offered' \in [Subs -> 0..MaxOps] /\ connSub' \in Subs \cup {NoSub}
  BY <1>1 DEF Inv, TypeOK
<1> QED
  BY <1>1, <1>2, <1>3, <1>4, <1>5, AsksKept, ToldKeeps

(* Subscription.Close.                                                      *)
LEMMA ClosedKeeps ==
  ASSUME Inv, NEW s \in Live, CloseSub(s), NEW r, Moved(r), UNCHANGED <<up, clientVars>>,
         connSub' \in Subs \cup {NoSub}, asks' \in Seq(Asks),
         \A k \in 1..Len(asks') : asks'[k].since # Null => 1..asks'[k].since \subseteq Stock
  PROVE  Inv'
<1>1. /\ UNCHANGED <<head, up, wants, cursor, base, seen>> /\ open' = open \ {s}
      /\ due' = [t \in Subs |-> IF t \in {s} THEN 0 ELSE due[t]]
      /\ offered' = [t \in Subs |-> IF t \in {s} THEN 0 ELSE offered[t]]
      /\ Broadcast(Live \ {s}, Other)
  BY DEF CloseSub, Stream!Leave, clientVars
<1>2. offered' \in [Subs -> 0..MaxOps]
  <2>1. offered \in [Subs -> 0..MaxOps] /\ 0 \in 0..MaxOps
    BY Bounds DEF Inv, TypeOK
  <2> QED
    BY <1>1, <2>1
<1> QED
  BY <1>1, <1>2, ToldKeeps

(* Another connection enters or leaves the room.                            *)
LEMMA PresenceKeeps ==
  ASSUME Inv, NEW m, Presence(m)
  PROVE  Inv'
BY PcStays, PresentKeeps DEF Presence

(* The arrival of the new subscription is announced.                        *)
LEMMA AnnounceKeeps ==
  ASSUME Inv, Announce
  PROVE  Inv'
<1>1. Moved("replace")
  BY PcMoves DEF Announce
<1> QED
  BY <1>1, PresentKeeps DEF Announce

(* A drop goroutine closes its subscription.                                *)
LEMMA DropCloseKeeps ==
  ASSUME Inv, NEW s \in Subs, DropClose(s)
  PROVE  Inv'
<1>1. s \in Live /\ CloseSub(s) /\ UNCHANGED <<connSub, up, rp, asks, clientVars>>
  BY DEF DropClose
<1>2. connSub' \in Subs \cup {NoSub}
  BY <1>1 DEF Inv, TypeOK
<1> QED
  BY <1>1, <1>2, PcStays, AsksKept, ClosedKeeps

(* A step of the read pump that closes nothing.                             *)
LEMMA NothingClosedKeeps ==
  ASSUME Inv, UNCHANGED <<streamVars, open, buf, send, drops, withheld, up, clientVars>>,
         NEW r, Moved(r), connSub' \in Subs \cup {NoSub}, asks' \in Seq(Asks),
         \A k \in 1..Len(asks') : asks'[k].since # Null => 1..asks'[k].since \subseteq Stock
  PROVE  Inv'
<1>1. UNCHANGED <<head, due, offered, open, buf, send, drops, withheld, up, wants, cursor, base, seen>>
  BY DEF streamVars, clientVars
<1>2. Stock' = Stock /\ Got' = Got /\ Live' = Live
  BY <1>1 DEF Stock, Got, Live
<1>3. /\ rp' \in Pumps
      /\ rp'.sub = rp.sub /\ rp'.cursor = rp.cursor /\ rp'.end = rp.end /\ rp'.more = rp.more
      /\ rp'.from = rp.from /\ rp'.fresh = rp.fresh
      /\ \/ rp'.pc = rp.pc
         \/ /\ rp'.pc \notin {"list", "replay", "flush"} /\ rp.pc \notin {"list", "replay", "flush"}
            /\ rp'.pc \in {"idle", "bye", "join"} => rp.pc \in {"idle", "bye", "join"}
            /\ rp'.pc \in {"join", "announce", "replace", "hello"} =>
                  rp.pc \in {"join", "announce", "replace", "hello"}
  BY DEF Moved
<1>4. RoomInv' /\ PumpInv' /\ BufInv' /\ SendInv'
  BY <1>1, <1>2, <1>3 DEF Inv, RoomInv, PumpInv, BufInv, SendInv
<1>5. ReplayInv'
  <2> SUFFICES ASSUME rp'.pc = rp.pc PROVE ReplayInv'
    BY <1>3 DEF ReplayInv
  <2>1. Promised' = Promised
    BY <1>2, <1>3 DEF Promised
  <2> QED
    BY <1>1, <1>2, <1>3, <2>1 DEF Inv, ReplayInv
<1>6. OpenInv' /\ GateHoldsStream' /\ CursorInv'
  <2>1. OpenInv' /\ CursorInv'
    BY <1>1, <1>2 DEF Inv, OpenInv, CursorInv
  <2>2. GateHoldsStream'
    BY <1>1, <1>2, <1>3 DEF Inv, GateHoldsStream
  <2> QED
    BY <2>1, <2>2
<1>7. StockInv'
  BY <1>1, <1>2, <1>3 DEF Inv, StockInv
<1>8. TypeOK'
  BY <1>1, <1>3 DEF Inv, TypeOK
<1> QED
  BY <1>4, <1>5, <1>6, <1>7, <1>8 DEF Inv

(* handleUnsubscribe.                                                       *)
LEMMA HandleUnsubscribeKeeps ==
  ASSUME Inv, HandleUnsubscribe
  PROVE  Inv'
<1>1. /\ rp.pc = "idle" /\ asks # <<>> /\ asks' = Tail(asks) /\ connSub' \in Subs \cup {NoSub}
      /\ rp' = [rp EXCEPT !.pc = "bye"] /\ UNCHANGED <<up, clientVars>>
      /\ \/ connSub \in Live /\ CloseSub(connSub)
         \/ UNCHANGED <<streamVars, open, buf, send, drops, withheld>>
  BY DEF HandleUnsubscribe, Asked
<1>2. /\ asks' \in Seq(Asks)
      /\ \A k \in 1..Len(asks') : asks'[k].since # Null => 1..asks'[k].since \subseteq Stock
  BY <1>1, AsksTail
<1>3. Moved("bye")
  BY <1>1, PcMoves
<1>4. CASE connSub \in Live /\ CloseSub(connSub)
  BY <1>1, <1>2, <1>3, <1>4, ClosedKeeps
<1>5. CASE UNCHANGED <<streamVars, open, buf, send, drops, withheld>>
  BY <1>1, <1>2, <1>3, <1>5, NothingClosedKeeps
<1> QED
  BY <1>1, <1>4, <1>5

(* The new subscription replaces the old one.                               *)
LEMMA ReplaceKeeps ==
  ASSUME Inv, Replace
  PROVE  Inv'
<1>1. /\ rp.pc = "replace" /\ connSub' = rp.sub /\ UNCHANGED <<up, asks, clientVars>>
      /\ rp' = [rp EXCEPT !.pc = "hello"]
      /\ \/ connSub \in Live /\ CloseSub(connSub)
         \/ UNCHANGED <<streamVars, open, buf, send, drops, withheld>>
  BY DEF Replace
<1>2. /\ asks' \in Seq(Asks)
      /\ \A k \in 1..Len(asks') : asks'[k].since # Null => 1..asks'[k].since \subseteq Stock
  BY <1>1, AsksKept
<1>3. Moved("hello") /\ connSub' \in Subs \cup {NoSub}
  <2>1. connSub' \in Subs \cup {NoSub}
    BY <1>1 DEF Inv, TypeOK, Pumps
  <2> QED
    BY <1>1, <2>1, PcMoves
<1>4. CASE connSub \in Live /\ CloseSub(connSub)
  BY <1>1, <1>2, <1>3, <1>4, ClosedKeeps
<1>5. CASE UNCHANGED <<streamVars, open, buf, send, drops, withheld>>
  BY <1>1, <1>2, <1>3, <1>5, NothingClosedKeeps
<1> QED
  BY <1>1, <1>4, <1>5

-----------------------------------------------------------------------------
(* The offer of the next operation.                                         *)
LEMMA OfferKeeps ==
  ASSUME Inv, Offer
  PROVE  Inv'
<1> DEFINE d == due[CHOOSE s \in Live : TRUE]
           f == OpFrame(d)
<1>1. /\ \A s \in Live : due[s] > 0 /\ due[s] <= head
      /\ due' = [s \in Subs |-> IF s \in Live THEN due[s] + 1 ELSE due[s]]
      /\ offered' = [s \in Subs |-> IF s \in Live THEN due[s] ELSE offered[s]]
      /\ Broadcast(Live, f)
      /\ UNCHANGED <<head, open, connSub, up, rp, asks, wants, cursor, base, seen>>
      /\ Live # {}
  BY DEF Offer, Stream!Offer, clientVars
<1>2. PICK t \in Live : d = due[t]
  BY <1>1
<1> HIDE DEF d
<1>3. /\ \A s \in Live : due[s] = d
      /\ d \in 1..head /\ head \in 0..MaxOps /\ MaxOps \in Nat /\ d \in 0..MaxOps
  <2>1. \A s \in Live : due[s] = d
    BY <1>2 DEF Inv, RoomInv
  <2>2. t \in Subs /\ due[t] \in 0..MaxOps + 1 /\ head \in 0..MaxOps /\ MaxOps \in Nat
    BY LiveIsSubs, Bounds DEF Inv, TypeOK
  <2>3. due[t] > 0 /\ due[t] <= head
    BY <1>1
  <2> QED
    BY <1>2, <2>1, <2>2, <2>3
<1>4. f \in Frames /\ f.type = "op" /\ f.seq = d /\ Brings(f) = {d}
  BY <1>3, FrameTypes
<1>5. Delivers(Live, f)
  BY <1>1, <1>4, BroadcastDelivers DEF Inv
<1>f. f = OpFrame(d)
  OBVIOUS
<1> HIDE DEF f
<1>6. /\ Extends(send', send, f) /\ Len(send') <= SendBuf /\ send' \in Seq(Frames)
      /\ Stock \subseteq Stock' /\ Stock' \subseteq Stock \cup {d}
      /\ drops' \in [Subs -> 0..MaxDrops] /\ \A s \in Subs : drops'[s] >= drops[s]
      /\ withheld \subseteq withheld'
      /\ Len(send') > Len(send) => up /\ \E s \in Live : s \in open
  <2>1. Extends(send', send, f) => send' \in Seq(Frames)
    BY DEF Extends
  <2> QED
    BY <1>4, <1>5, <2>1 DEF Delivers
<1>7. /\ up => \A s \in Live : s \notin open => ~(rp.pc = "flush" /\ rp.sub = s)
      /\ up => \A s \in Live : s \in open => d \in Got'
      /\ up => \A s \in Live : s \notin open =>
                 buf' = Append(buf, f) \/ (d \in Got' /\ drops'[s] > 0)
      /\ \/ buf' = buf
         \/ /\ buf' = Append(buf, f) /\ up /\ Len(buf) < GateCap
            /\ \E s \in Live : s \notin open
  BY <1>4, <1>5 DEF Delivers
<1>8. /\ due' \in [Subs -> 0..MaxOps + 1] /\ offered' \in [Subs -> 0..MaxOps]
      /\ \A s \in Live : due'[s] = d + 1
      /\ \A s \in Subs : s \notin Live => due'[s] = due[s]
  <2>1. \A s \in Subs : /\ due[s] \in 0..MaxOps + 1 /\ offered[s] \in 0..MaxOps
                        /\ s \in Live => due[s] + 1 \in 0..MaxOps + 1 /\ due[s] \in 0..MaxOps
    BY <1>3 DEF Inv, TypeOK
  <2> QED
    BY <1>1, <1>3, <2>1, LiveIsSubs
<1>9. Live' = Live
  <2>1. \A s \in Subs : due'[s] > 0 <=> due[s] > 0
    <3>1. \A s \in Subs : due[s] \in Nat /\ due'[s] = IF s \in Live THEN due[s] + 1 ELSE due[s]
      BY <1>1 DEF Inv, TypeOK
    <3>2. \A s \in Subs : s \in Live <=> due[s] > 0
      BY DEF Live
    <3> QED
      BY <3>1, <3>2
  <2> QED
    BY <2>1 DEF Live
<1>10. Got \subseteq Got'
  BY <1>6, GotGrows DEF Inv
<1>11. \A n \in 1..(d + 1) - 1 : n \in 1..d - 1 \/ n = d
  BY <1>3
<1>12. \A s \in Live : due[s] - 1 = d - 1 /\ due'[s] - 1 = (d + 1) - 1
  BY <1>3, <1>8
<1>13. SendInv'
  <2>1. ~up' => send' = <<>>
    <3> SUFFICES ASSUME ~up PROVE send' = <<>>
      BY <1>1
    <3>1. send = <<>> /\ Len(send) = 0 /\ Len(send') \in Nat
      BY <1>6 DEF Inv, SendInv
    <3>2. ~(Len(send') > Len(send))
      BY <1>6
    <3> QED
      BY <1>6, <3>1, <3>2, EmptySeq
  <2>2. Len(send') > Len(send) => 1..d - 1 \subseteq Got
    BY <1>3, <1>6 DEF Inv, OpenInv
  <2>3. head' = head /\ head' \in Nat /\ head <= head' /\ {d} \subseteq 1..head'
    BY <1>1, <1>3
  <2> QED
    BY <1>4, <1>6, <2>1, <2>2, <2>3, SendGrows DEF Inv
<1>14. /\ buf' \in Seq(Frames) /\ Len(buf') <= GateCap
       /\ buf' = Append(buf, f) => Extends(buf', buf, f) /\ Len(buf') = Len(buf) + 1
  BY <1>4, <1>7, BufTyped
<1>15. Extends(buf', buf, f) /\ buf \in Seq(Frames) /\ Len(buf) \in Nat /\ Len(buf') \in Nat
  <2>1. buf \in Seq(Frames)
    BY DEF Inv, TypeOK
  <2> QED
    BY <1>7, <1>14, <2>1, SameExtends
<1>16. RoomInv'
  <2>1. rp.pc \in {"idle", "bye", "join"} => buf' = <<>>
    BY <1>7, Bounds, LiveIsSubs DEF Inv, RoomInv
  <2>2. \A s \in Subs : due'[s] <= head' + 1
    BY <1>1, <1>3, <1>8 DEF Inv, RoomInv
  <2> QED
    BY <1>1, <1>8, <1>9, <2>1, <2>2 DEF Inv, RoomInv
<1>17. BufInv'
  <2> SUFFICES ASSUME NEW k \in 1..Len(buf')
               PROVE  Brings(buf'[k]) \subseteq 1..head /\ buf'[k].type \in {"op", "other"}
    BY <1>1 DEF BufInv
  <2>1. CASE k <= Len(buf)
    BY <1>15, <2>1 DEF Extends, Inv, BufInv
  <2>2. CASE ~(k <= Len(buf))
    BY <1>3, <1>4, <1>15, <2>2 DEF Extends
  <2> QED
    BY <2>1, <2>2
<1>18. OpenInv'
  <2> SUFFICES ASSUME up, NEW s \in open PROVE 1..due'[s] - 1 \subseteq Got'
    BY <1>1 DEF OpenInv
  <2>1. s \in Live
    BY DEF Inv, RoomInv
  <2>2. 1..d - 1 \subseteq Got /\ d \in Got'
    BY <1>7, <1>12, <2>1 DEF Inv, OpenInv
  <2> QED
    BY <1>10, <1>11, <1>12, <2>1, <2>2
<1>19. PumpInv'
  BY <1>1 DEF Inv, PumpInv
<1>20. StockInv' /\ CursorInv'
  <2>1. Stock' \subseteq 1..head'
    BY <1>1, <1>3, <1>6 DEF Inv, StockInv
  <2>2. StockInv'
    BY <1>1, <1>6, <2>1 DEF Inv, StockInv
  <2>3. CursorInv'
    BY <1>1, <1>6 DEF Inv, CursorInv
  <2> QED
    BY <2>2, <2>3
<1>21. TypeOK'
  <2>1. withheld' \subseteq Seqs
    <3>1. withheld' \subseteq Stock' /\ Stock \subseteq 1..head /\ 1..head \subseteq Seqs
      BY SeqsUpToHead DEF Stock, Inv, StockInv
    <3> QED
      BY <1>3, <1>6, <3>1
  <2> QED
    BY <1>1, <1>6, <1>8, <1>14, <2>1 DEF Inv, TypeOK
<1>22. GateHoldsStream'
  <2> SUFFICES ASSUME up, rp.sub \in Live, drops'[rp.sub] = 0,
                      NEW i \in 1..Len(buf'), buf'[i].type = "op"
               PROVE  /\ buf'[i].seq < due'[rp.sub]
                      /\ \A j \in i + 1..Len(buf') :
                            buf'[j].type = "op" => buf'[j].seq > buf'[i].seq
                      /\ \A n \in buf'[i].seq + 1..due'[rp.sub] - 1 :
                            \E j \in i + 1..Len(buf') : buf'[j] = OpFrame(n)
    BY <1>1, <1>9 DEF GateHoldsStream
  <2>1. rp.sub \in Subs /\ rp.sub \notin open /\ due[rp.sub] = d /\ due'[rp.sub] = d + 1
    BY <1>3, <1>8, LiveIsSubs DEF Inv, RoomInv
  <2>2. drops[rp.sub] = 0
    <3>1. drops[rp.sub] \in Nat /\ drops'[rp.sub] >= drops[rp.sub]
      BY <1>6, <2>1 DEF Inv, TypeOK
    <3> QED
      BY <3>1
  <2>3. Len(buf') = Len(buf) + 1
    <3>1. buf' = Append(buf, f)
      BY <1>7, <2>1
    <3> QED
      BY <1>14, <3>1
  <2>4. \A k \in 1..Len(buf') : buf'[k] = IF k <= Len(buf) THEN buf[k] ELSE f
    BY <1>15 DEF Extends
  <2>5. buf'[Len(buf')] = OpFrame(d) /\ buf'[Len(buf')].seq = d
    BY <1>f, <1>4, <1>15, <2>3, <2>4
  <2>6. CASE i = Len(buf')
    <3>1. buf'[i].seq = d /\ (i + 1)..Len(buf') = {} /\ (d + 1)..(d + 1) - 1 = {}
      BY <1>3, <1>15, <2>5, <2>6
    <3> QED
      BY <1>3, <2>1, <3>1
  <2>7. CASE i # Len(buf')
    <3>1. i \in 1..Len(buf) /\ buf'[i] = buf[i]
      BY <1>15, <2>3, <2>4, <2>7
    <3>2. /\ buf[i].seq < d
          /\ \A j \in i + 1..Len(buf) : buf[j].type = "op" => buf[j].seq > buf[i].seq
          /\ \A n \in buf[i].seq + 1..d - 1 :
                \E j \in i + 1..Len(buf) : buf[j] = OpFrame(n)
      BY <2>1, <2>2, <3>1 DEF Inv, GateHoldsStream
    <3>3. buf[i].seq \in Nat
      <4>1. buf[i] \in Frames
        BY <1>15, <3>1, ElementOfSeq
      <4> QED
        BY <4>1, Bounds DEF Frames
    <3>4. \A j \in i + 1..Len(buf') : j = Len(buf') \/ (j \in i + 1..Len(buf) /\ buf'[j] = buf[j])
      BY <1>15, <2>3, <2>4, <3>1
    <3>5. \A j \in i + 1..Len(buf) : j \in i + 1..Len(buf') /\ buf'[j] = buf[j]
      BY <1>15, <2>3, <2>4, <3>1
    <3>6. Len(buf') \in i + 1..Len(buf')
      BY <1>15, <2>3, <3>1
    <3>7. \A n \in buf[i].seq + 1..(d + 1) - 1 : n = d \/ n \in buf[i].seq + 1..d - 1
      BY <1>3, <3>3
    <3>8. buf[i].seq < d + 1 /\ d > buf[i].seq
      BY <1>3, <3>2, <3>3
    <3> QED
      BY <2>1, <2>5, <3>1, <3>2, <3>4, <3>5, <3>6, <3>7, <3>8
  <2> QED
    BY <2>6, <2>7
<1>23. ReplayInv'
  <2> SUFFICES ASSUME up PROVE ReplayInv'
    BY <1>1 DEF ReplayInv
  <2>1. Promised \subseteq Promised' /\ Got' \subseteq Promised'
    BY <1>1, <1>10 DEF Promised
  <2>2. rp.pc \in {"list", "replay"} => 1..rp.cursor \subseteq Got'
    BY <1>10 DEF Inv, ReplayInv
  <2> SUFFICES ASSUME rp.pc = "flush" \/ (rp.pc = "replay" /\ ~rp.more)
               PROVE  /\ Sound(Promised', buf')
                      /\ rp.sub \in Live =>
                            1..due'[rp.sub] - 1 \subseteq Promised' \cup Carried(buf', Len(buf'))
    BY <1>1, <1>9, <2>2 DEF ReplayInv
  <2>3. /\ Sound(Promised, buf)
        /\ rp.sub \in Live => 1..due[rp.sub] - 1 \subseteq Promised \cup Carried(buf, Len(buf))
    BY DEF Inv, ReplayInv
  <2>4. Sound(Promised', buf)
    BY <2>1, <2>3, SoundGrows
  <2>5. CASE rp.sub \in Live
    <3>1. rp.sub \notin open
      BY DEF Inv, RoomInv
    <3>2. 1..d - 1 \subseteq Promised \cup Carried(buf, Len(buf))
      BY <1>12, <2>3, <2>5
    <3>3. Sound(Promised', buf')
      <4>1. 1..f.seq - 1 \subseteq Promised' \cup Carried(buf, Len(buf)) /\ f.type # "subscribed"
        BY <1>4, <2>1, <3>2
      <4> QED
        BY <1>4, <1>15, <2>4, <4>1, SoundExtends
    <3>4. Carried(buf, Len(buf)) \subseteq Carried(buf', Len(buf'))
      BY <1>15, CarriedExtends
    <3>5. d \in Promised' \cup Carried(buf', Len(buf'))
      <4>1. CASE buf' = Append(buf, f)
        <5>1. Len(buf') \in Len(buf) + 1..Len(buf')
          BY <1>14, <1>15, <4>1
        <5>2. Brings(f) \subseteq Carried(buf', Len(buf'))
          BY <1>15, <5>1, CarriedExtends
        <5> QED
          BY <1>4, <5>2
      <4>2. CASE d \in Got'
        BY <2>1, <4>2
      <4> QED
        BY <1>7, <2>5, <3>1, <4>1, <4>2
    <3> QED
      BY <1>11, <1>12, <2>1, <2>5, <3>2, <3>3, <3>4, <3>5
  <2>6. CASE rp.sub \notin Live
    <3>1. buf' = buf
      BY <1>7, <2>6 DEF Inv, RoomInv
    <3> QED
      BY <2>4, <2>6, <3>1
  <2> QED
    BY <2>5, <2>6
<1> QED
  BY <1>13, <1>16, <1>17, <1>18, <1>19, <1>20, <1>21, <1>22, <1>23 DEF Inv

-----------------------------------------------------------------------------
(* The new subscription joins the room behind an empty gate.                *)
LEMMA JoinKeeps ==
  ASSUME Inv, NEW s \in Subs, Join(s)
  PROVE  Inv'
<1>1. /\ rp.pc = "join" /\ due[s] = 0
      /\ \A t \in Live : due'[s] = due[t]
      /\ rp' = [rp EXCEPT !.pc = "announce", !.sub = s]
      /\ UNCHANGED <<head, offered, open, buf, drops, connSub, send, up, asks, wants, cursor,
                     base, seen, withheld>>
      /\ \E n \in 1..head + 1 : due' = [due EXCEPT ![s] = n]
  BY DEF Join, Unused, Stream!Join, clientVars
<1>2. PICK n \in 1..head + 1 : due' = [due EXCEPT ![s] = n]
  BY <1>1
<1>3. /\ due \in [Subs -> 0..MaxOps + 1] /\ head \in 0..MaxOps /\ MaxOps \in Nat
      /\ n \in 0..MaxOps + 1 /\ n > 0 /\ n <= head + 1
  <2>1. due \in [Subs -> 0..MaxOps + 1] /\ head \in 0..MaxOps /\ MaxOps \in Nat
    BY Bounds DEF Inv, TypeOK
  <2> QED
    BY <1>2, <2>1
<1>4. /\ due' \in [Subs -> 0..MaxOps + 1] /\ due'[s] = n
      /\ \A t \in Subs : t # s => due'[t] = due[t]
  BY <1>2, <1>3
<1>5. Live' = Live \cup {s} /\ s \notin Live
  BY <1>1, <1>3, <1>4 DEF Live
<1>6. /\ rp' \in Pumps /\ rp'.pc = "announce" /\ rp'.sub = s
      /\ rp'.from = rp.from /\ rp'.fresh = rp.fresh /\ rp'.cursor = rp.cursor /\ rp'.end = rp.end
  <2>1. rp \in Pumps
    BY DEF Inv, TypeOK
  <2>2. rp' \in Pumps
    BY <1>1, <2>1 DEF Pumps
  <2> QED
    BY <1>1, <2>1, <2>2 DEF Pumps
<1>7. Stock' = Stock /\ Got' = Got
  BY <1>1 DEF Stock, Got
<1>8. buf = <<>> /\ Live \subseteq open /\ open \subseteq Live
  BY <1>1, LiveIsSubs, Bounds DEF Inv, RoomInv
<1>9. RoomInv'
  <2>1. \A t \in Subs : due'[t] <= head' + 1
    BY <1>1, <1>3, <1>4 DEF Inv, RoomInv
  <2>2. \A t, u \in Live' : due'[t] = due'[u]
    <3>1. \A t \in Live : due'[t] = due[t]
      BY <1>4, <1>5, LiveIsSubs
    <3> QED
      BY <1>1, <1>5, <3>1 DEF Inv, RoomInv
  <2> QED
    BY <1>1, <1>5, <1>6, <1>8, <2>1, <2>2 DEF RoomInv
<1>10. PumpInv' /\ BufInv' /\ SendInv' /\ CursorInv'
  <2>1. PumpInv'
    BY <1>1, <1>6 DEF Inv, PumpInv
  <2> QED
    BY <1>1, <1>7, <2>1 DEF Inv, BufInv, SendInv, CursorInv
<1>11. StockInv'
  BY <1>1, <1>6, <1>7 DEF Inv, StockInv
<1>12. ReplayInv' /\ GateHoldsStream'
  <2>1. Len(buf') = 0
    BY <1>1, <1>8
  <2>2. GateHoldsStream'
    BY <2>1 DEF GateHoldsStream
  <2> QED
    BY <1>6, <2>2 DEF ReplayInv
<1>13. OpenInv'
  <2>1. \A t \in open : due'[t] = due[t]
    BY <1>4, <1>5, <1>8, LiveIsSubs
  <2> QED
    BY <1>1, <1>7, <2>1 DEF Inv, OpenInv
<1>14. TypeOK'
  BY <1>1, <1>4, <1>6 DEF Inv, TypeOK
<1> QED
  BY <1>9, <1>10, <1>11, <1>12, <1>13, <1>14 DEF Inv

(* A step of the read pump that only moves on, and may queue or withhold.   *)
LEMMA ReplayStepKeeps ==
  ASSUME Inv, UNCHANGED <<head, due, offered, open, buf, drops, connSub, asks, wants, cursor, base, seen>>,
         rp' \in Pumps, rp'.sub = rp.sub,
         rp.pc \notin {"idle", "bye", "join"}, rp'.pc \in {"list", "replay", "flush"},
         SendInv', send' \in Seq(Frames), Len(send') <= SendBuf, up' \in BOOLEAN,
         Stock \subseteq Stock', Stock' \subseteq 1..head, up' => up /\ Got \subseteq Got',
         PumpInv', ReplayInv'
  PROVE  Inv'
<1>1. Live' = Live
  BY DEF Live
<1>2. RoomInv'
  BY <1>1 DEF Inv, RoomInv
<1>3. BufInv' /\ OpenInv'
  BY DEF Inv, BufInv, OpenInv
<1>4. StockInv'
  BY DEF Inv, StockInv
<1>5. CursorInv'
  BY DEF Inv, CursorInv, Stock
<1>6. GateHoldsStream'
  BY <1>1 DEF Inv, GateHoldsStream
<1>7. TypeOK'
  <2>1. withheld' \subseteq Seqs
    BY SeqsUpToHead DEF Inv, Stock
  <2> QED
    BY <2>1 DEF Inv, TypeOK
<1> QED
  BY <1>2, <1>3, <1>4, <1>5, <1>6, <1>7 DEF Inv

(* The `subscribed` frame: either it brings everything up to its number, or *)
(* the client had it.                                                       *)
LEMMA HelloKeeps ==
  ASSUME Inv, Hello
  PROVE  Inv'
<1> DEFINE f == [type |-> IF rp.fresh THEN "fresh" ELSE "subscribed", seq |-> rp.from]
<1>1. /\ rp.pc = "hello" /\ Queue(f)
      /\ rp' = [rp EXCEPT !.pc = "list", !.cursor = rp.from]
      /\ UNCHANGED <<head, due, offered, open, buf, drops, connSub, asks, wants, cursor,
                     base, seen, withheld>>
  BY DEF Hello, streamVars, clientVars
<1>2. rp \in Pumps /\ rp.from \in 0..MaxOps /\ rp.fresh \in BOOLEAN /\ rp.from <= head
  BY DEF Inv, TypeOK, Pumps, PumpInv
<1>3. /\ f \in Frames /\ f.type \in {"fresh", "subscribed"} /\ f.seq = rp.from
      /\ f.type = "fresh" <=> rp.fresh
  BY <1>2 DEF Frames
<1>4. /\ rp' \in Pumps /\ rp'.pc = "list" /\ rp'.cursor = rp.from /\ rp'.sub = rp.sub
      /\ rp'.from = rp.from /\ rp'.end = rp.end
  <2>1. rp' \in Pumps
    BY <1>1, <1>2 DEF Pumps
  <2> QED
    BY <1>1, <1>2, <2>1 DEF Pumps
<1> HIDE DEF f
<1>5. Brings(f) = IF rp.fresh THEN 1..rp.from ELSE {}
  BY <1>3 DEF Brings
<1>6. Brings(f) \subseteq 1..head /\ head \in Nat
  <2>1. head \in Nat /\ 1..rp.from \subseteq 1..head
    BY <1>2 DEF Inv, TypeOK
  <2> QED
    BY <1>5, <2>1
<1>7. ~rp.fresh => 1..rp.from \subseteq Stock
  BY <1>1 DEF Inv, StockInv
<1>8. /\ SendInv' /\ send' \in Seq(Frames) /\ Len(send') <= SendBuf /\ up' \in BOOLEAN
      /\ Stock' = Stock
      /\ up' => up /\ Got \subseteq Got' /\ Brings(f) \subseteq Got'
  BY <1>1, <1>3, <1>6, <1>7, Queued DEF Inv
<1>9. ReplayInv'
  <2>1. up' => 1..rp.from \subseteq Got'
    BY <1>5, <1>7, <1>8 DEF Got
  <2> QED
    BY <1>4, <2>1 DEF ReplayInv
<1>10. PumpInv'
  BY <1>1, <1>2, <1>4 DEF Inv, PumpInv
<1>11. Stock' \subseteq 1..head
  BY <1>8 DEF Inv, StockInv
<1> QED
  BY <1>1, <1>4, <1>8, <1>9, <1>10, <1>11, ReplayStepKeeps

(* Nothing in the gate's buffer, or that the room has offered, lies beyond  *)
(* the head: once a client has been promised all of the log, the buffer is  *)
(* sound.                                                                   *)
LEMMA WholeLog ==
  ASSUME Inv, NEW X, 1..head \subseteq X
  PROVE  /\ Sound(X, buf)
         /\ \A s \in Subs : 1..due[s] - 1 \subseteq X
<1>1. Sound(X, buf)
  <2> SUFFICES ASSUME NEW k \in 1..Len(buf)
               PROVE  /\ buf[k].type = "op" => 1..buf[k].seq \subseteq X
                      /\ buf[k].type # "subscribed"
    BY DEF Sound
  <2>1. Brings(buf[k]) \subseteq 1..head /\ buf[k].type \in {"op", "other"}
    BY DEF Inv, BufInv
  <2>2. buf[k].type = "op" => buf[k].seq \in 1..head
    BY <2>1 DEF Brings
  <2>3. head \in Nat
    BY DEF Inv, TypeOK
  <2>4. buf[k].type = "op" => 1..buf[k].seq \subseteq 1..head
    BY <2>2, <2>3
  <2> QED
    BY <2>1, <2>4
<1>2. \A s \in Subs : 1..due[s] - 1 \subseteq X
  <2> SUFFICES ASSUME NEW s \in Subs PROVE 1..due[s] - 1 \subseteq 1..head
    OBVIOUS
  <2>1. due[s] <= head + 1 /\ due[s] \in Nat /\ head \in Nat
    BY DEF Inv, TypeOK, RoomInv
  <2> QED
    BY <2>1
<1> QED
  BY <1>1, <1>2

(* A page is read.  If it is the last one it ends at the head, so it covers *)
(* all that the gate has missed.                                            *)
LEMMA ListPageKeeps ==
  ASSUME Inv, ListPage
  PROVE  Inv'
<1> DEFINE got == IF head - rp.cursor < Page THEN head - rp.cursor ELSE Page
           e == rp.cursor + got
<1>1. /\ rp.pc = "list"
      /\ rp' = [rp EXCEPT !.pc = "replay", !.end = e, !.more = (got = Page)]
      /\ UNCHANGED <<head, due, offered, open, buf, drops, connSub, send, up, asks, wants, cursor,
                     base, seen, withheld>>
  BY DEF ListPage, streamVars, clientVars
<1>2. /\ rp \in Pumps /\ rp.cursor \in Nat /\ rp.cursor <= head /\ head \in 0..MaxOps
      /\ MaxOps \in Nat /\ Page \in Nat
  BY Bounds DEF Inv, TypeOK, Pumps, PumpInv
<1>3. e \in 0..MaxOps /\ e <= head /\ rp.cursor <= e /\ (got # Page => e = head)
  BY <1>2
<1> HIDE DEF e
<1>4. /\ rp' \in Pumps /\ rp'.pc = "replay" /\ rp'.end = e /\ rp'.sub = rp.sub
      /\ rp'.cursor = rp.cursor /\ rp'.from = rp.from /\ (~rp'.more => e = head)
  <2>1. rp' \in Pumps
    BY <1>1, <1>2, <1>3 DEF Pumps
  <2>2. rp'.more = (got = Page)
    BY <1>1, <1>2 DEF Pumps
  <2> QED
    BY <1>1, <1>2, <1>3, <2>1, <2>2 DEF Pumps
<1>5. Stock' = Stock /\ Got' = Got /\ Live' = Live
  BY <1>1 DEF Stock, Got, Live
<1>6. PumpInv'
  BY <1>1, <1>3, <1>4 DEF Inv, PumpInv
<1>7. SendInv' /\ send' \in Seq(Frames) /\ Len(send') <= SendBuf /\ up' \in BOOLEAN
  BY <1>1, <1>5 DEF Inv, SendInv, TypeOK
<1>8. ReplayInv'
  <2>1. up /\ rp'.pc \in {"list", "replay"} => 1..rp'.cursor \subseteq Got'
    BY <1>1, <1>4, <1>5 DEF Inv, ReplayInv
  <2>2. ASSUME ~rp'.more
        PROVE  /\ Sound(Promised', buf')
               /\ rp'.sub \in Live' =>
                     1..due'[rp'.sub] - 1 \subseteq Promised' \cup Carried(buf', Len(buf'))
    <3>1. 1..head \subseteq Promised'
      BY <1>4, <2>2 DEF Promised
    <3>2. Sound(Promised', buf) /\ \A s \in Subs : 1..due[s] - 1 \subseteq Promised'
      BY <3>1, WholeLog
    <3> QED
      BY <1>1, <1>4, <1>5, <3>2, LiveIsSubs
  <2> QED
    BY <1>1, <1>4, <2>1, <2>2 DEF ReplayInv
<1>9. Stock' \subseteq 1..head
  BY <1>5 DEF Inv, StockInv
<1> QED
  BY <1>1, <1>4, <1>5, <1>6, <1>7, <1>8, <1>9, ReplayStepKeeps

(* A replay that is given up denies the client the rest of the log, and the *)
(* gate's buffer is sound after that.                                       *)
LEMMA AbandonKeeps ==
  ASSUME Inv, NEW n \in Nat, AbandonReplay(n), rp.pc \in {"list", "replay"},
         UNCHANGED <<head, due, offered, open, buf, drops, connSub, up, asks, wants, cursor, base, seen>>,
         NEW f \in Frames, Extends(send', send, f), Len(send') <= SendBuf,
         Len(send') > Len(send) =>
            /\ up /\ Brings(f) \subseteq 1..head /\ f.type = "op"
            /\ 1..f.seq - 1 \subseteq Got,
         up => 1..n \subseteq Got'
  PROVE  Inv'
<1>1. /\ rp' = [rp EXCEPT !.pc = "flush", !.err = TRUE]
      /\ withheld' = IF up THEN withheld \cup ((n + 1)..head \ Coming) ELSE withheld
  BY DEF AbandonReplay
<1>2. rp \in Pumps /\ head \in Nat /\ send \in Seq(Frames)
  BY DEF Inv, TypeOK
<1>3. /\ rp' \in Pumps /\ rp'.pc = "flush" /\ rp'.sub = rp.sub /\ rp'.cursor = rp.cursor
      /\ rp'.from = rp.from /\ rp'.end = rp.end
  <2>1. rp' \in Pumps
    BY <1>1, <1>2 DEF Pumps
  <2> QED
    BY <1>1, <1>2, <2>1 DEF Pumps
<1>4. Stock \subseteq Stock' /\ Stock' \subseteq 1..head
  <2>1. (n + 1)..head \subseteq 1..head
    BY <1>2
  <2> QED
    BY <1>1, <2>1 DEF Stock, Inv, StockInv
<1>5. Got \subseteq Got'
  BY <1>4, GotGrows DEF Inv
<1>6. send' \in Seq(Frames) /\ up' \in BOOLEAN
  BY DEF Extends, Inv, TypeOK
<1>7. SendInv'
  <2>1. ~up' => send' = <<>>
    <3> SUFFICES ASSUME ~up PROVE send' = <<>>
      OBVIOUS
    <3>1. send = <<>> /\ Len(send) = 0 /\ Len(send') \in Nat
      BY <1>6 DEF Inv, SendInv
    <3>2. Len(send') = 0
      BY <3>1
    <3> QED
      BY <1>6, <3>2, EmptySeq
  <2>2. head' = head /\ head' \in Nat /\ head <= head'
    BY <1>2
  <2>3. Len(send') > Len(send) =>
            /\ Brings(f) \subseteq 1..head'
            /\ f.type = "op" => 1..f.seq - 1 \subseteq Got
            /\ f.type = "subscribed" => 1..f.seq \subseteq Stock
    BY <2>2
  <2> QED
    BY <1>4, <2>1, <2>2, <2>3, SendGrows DEF Inv
<1>8. PumpInv'
  BY <1>3 DEF Inv, PumpInv
<1>9. up => 1..head \subseteq Got'
  <2> SUFFICES ASSUME up, NEW x \in 1..head, x \notin 1..n PROVE x \in Got'
    OBVIOUS
  <2>1. x \in (n + 1)..head
    BY <1>2
  <2>2. Coming \subseteq Got
    BY ComingIsGot DEF Inv
  <2>3. x \in withheld' \/ x \in Coming
    BY <1>1, <2>1
  <2> QED
    BY <1>5, <2>2, <2>3 DEF Got, Stock
<1>10. ReplayInv'
  <2> SUFFICES ASSUME up
               PROVE  /\ Sound(Promised', buf)
                      /\ rp.sub \in Live' =>
                            1..due[rp.sub] - 1 \subseteq Promised' \cup Carried(buf, Len(buf))
    BY <1>3 DEF ReplayInv
  <2>1. 1..head \subseteq Promised'
    BY <1>9 DEF Promised
  <2>2. Live' \subseteq Subs
    BY DEF Live
  <2>3. Sound(Promised', buf) /\ \A s \in Subs : 1..due[s] - 1 \subseteq Promised'
    BY <2>1, WholeLog
  <2> QED
    BY <2>2, <2>3
<1> QED
  BY <1>3, <1>4, <1>5, <1>6, <1>7, <1>8, <1>10, ReplayStepKeeps

(* A replay that fails.                                                     *)
LEMMA ReplayFailsKeeps ==
  ASSUME Inv, ReplayFails
  PROVE  Inv'
<1>1. /\ rp.pc \in {"list", "replay"} /\ AbandonReplay(rp.cursor)
      /\ UNCHANGED <<head, due, offered, open, buf, drops, connSub, send, up, asks, wants, cursor,
                     base, seen>>
  BY DEF ReplayFails, streamVars, clientVars
<1>2. rp.cursor \in Nat /\ send \in Seq(Frames) /\ Len(send) \in Nat /\ Len(send) <= SendBuf
  BY DEF Inv, TypeOK, Pumps
<1>3. Extends(send', send, Other) /\ Other \in Frames /\ Len(send') = Len(send)
  BY <1>1, <1>2, SameExtends, FrameTypes
<1>4. up => 1..rp.cursor \subseteq Got'
  <2>1. Stock \subseteq Stock'
    BY <1>1 DEF AbandonReplay, Stock
  <2>2. Got \subseteq Got'
    BY <1>3, <2>1, GotGrows DEF Inv
  <2> QED
    BY <1>1, <2>2 DEF Inv, ReplayInv
<1>5. Len(send') <= SendBuf /\ ~(Len(send') > Len(send))
  BY <1>2, <1>3
<1> QED
  BY <1>1, <1>2, <1>3, <1>4, <1>5, AbandonKeeps

(* The replay delivers an operation, gives up, or is through with its page. *)
LEMMA ReplayOneKeeps ==
  ASSUME Inv, ReplayOne
  PROVE  Inv'
<1> DEFINE c == rp.cursor + 1
           f == OpFrame(c)
<1>1. /\ rp.pc = "replay"
      /\ UNCHANGED <<head, due, offered, open, buf, drops, connSub, up, asks, wants, cursor, base, seen>>
      /\ \/ /\ rp.cursor < rp.end /\ up /\ Len(send) < SendBuf /\ send' = Append(send, f)
            /\ \/ AbandonReplay(c)
               \/ rp' = [rp EXCEPT !.cursor = c] /\ UNCHANGED withheld
         \/ /\ ~(rp.cursor < rp.end)
            /\ rp' = [rp EXCEPT !.pc = IF rp.more THEN "list" ELSE "flush"]
            /\ UNCHANGED <<send, withheld>>
  BY DEF ReplayOne, streamVars, clientVars
<1>2. /\ rp \in Pumps /\ rp.cursor \in 0..MaxOps /\ rp.end \in 0..MaxOps /\ rp.more \in BOOLEAN
      /\ rp.cursor <= rp.end /\ rp.end <= head /\ head \in 0..MaxOps /\ MaxOps \in Nat
  BY <1>1, Bounds DEF Inv, TypeOK, Pumps, PumpInv
<1>3. /\ send \in Seq(Frames) /\ Len(send) \in Nat /\ Len(send) <= SendBuf /\ SendBuf \in Nat
      /\ up \in BOOLEAN
  BY Bounds DEF Inv, TypeOK
<1>4. CASE /\ rp.cursor < rp.end /\ up /\ Len(send) < SendBuf /\ send' = Append(send, f)
           /\ \/ AbandonReplay(c)
              \/ rp' = [rp EXCEPT !.cursor = c] /\ UNCHANGED withheld
  <2>1. c \in 0..MaxOps /\ c \in 1..head /\ c <= rp.end /\ c \in Nat
    BY <1>2, <1>4
  <2>2. f \in Frames /\ f.type = "op" /\ f.seq = c /\ Brings(f) = {c}
    BY <2>1, FrameTypes
  <2>3. f.seq - 1 = rp.cursor
    BY <1>2, <2>2
  <2>4. 1..f.seq - 1 \subseteq Got
    BY <1>1, <1>4, <2>3 DEF Inv, ReplayInv
  <2>5. \A n \in 1..c : n \in 1..f.seq - 1 \/ n = c
    BY <1>2, <2>3
  <2> HIDE DEF f, c
  <2>6. Extends(send', send, f) /\ Len(send') = Len(send) + 1
    BY <1>3, <1>4, <2>2, AppendExtends
  <2>7. Len(send') <= SendBuf /\ Len(send') > Len(send) /\ send' \in Seq(Frames)
    BY <1>3, <1>4, <2>6 DEF Extends
  <2>8. Stock \subseteq Stock' => Got \subseteq Got' /\ 1..c \subseteq Got'
    <3> SUFFICES ASSUME Stock \subseteq Stock' PROVE Got \subseteq Got' /\ 1..c \subseteq Got'
      OBVIOUS
    <3>1. Got \subseteq Got' /\ Brings(f) \subseteq Got'
      BY <2>6, <2>7, GotGrows DEF Inv
    <3> QED
      BY <2>2, <2>4, <2>5, <3>1
  <2>9. CASE AbandonReplay(c)
    <3>1. Stock \subseteq Stock'
      BY <1>1, <2>9 DEF AbandonReplay, Stock
    <3>2. Brings(f) \subseteq 1..head
      BY <2>1, <2>2
    <3> QED
      BY <1>1, <1>4, <2>1, <2>2, <2>4, <2>6, <2>7, <2>8, <2>9, <3>1, <3>2, AbandonKeeps
  <2>10. CASE rp' = [rp EXCEPT !.cursor = c] /\ UNCHANGED withheld
    <3>1. /\ rp' \in Pumps /\ rp'.pc = "replay" /\ rp'.sub = rp.sub /\ rp'.cursor = c
          /\ rp'.from = rp.from /\ rp'.end = rp.end /\ rp'.more = rp.more
      <4>1. rp' \in Pumps
        BY <1>2, <2>1, <2>10 DEF Pumps
      <4> QED
        BY <1>1, <1>2, <2>10, <4>1 DEF Pumps
    <3>2. Stock' = Stock /\ Stock' \subseteq 1..head
      BY <1>1, <2>10 DEF Stock, Inv, StockInv
    <3>3. Got \subseteq Got' /\ 1..c \subseteq Got'
      BY <2>8, <3>2
    <3>4. SendInv'
      <4>1. head' = head /\ head' \in Nat /\ head <= head' /\ Brings(f) \subseteq 1..head'
        BY <1>1, <1>2, <2>1, <2>2
      <4> QED
        BY <1>1, <1>4, <2>2, <2>4, <2>6, <3>2, <4>1, SendGrows DEF Inv
    <3>5. PumpInv'
      <4>1. c <= head
        BY <1>2, <2>1
      <4> QED
        BY <1>1, <2>1, <3>1, <4>1 DEF Inv, PumpInv
    <3>6. ReplayInv'
      <4>1. Promised \subseteq Promised' /\ Live' = Live
        BY <1>1, <3>1, <3>3 DEF Promised, Live
      <4>2. Sound(Promised, buf) => Sound(Promised', buf)
        BY <4>1, SoundGrows
      <4> QED
        BY <1>1, <3>1, <3>3, <4>1, <4>2 DEF Inv, ReplayInv
    <3> QED
      BY <1>1, <1>3, <2>7, <3>1, <3>2, <3>3, <3>4, <3>5, <3>6, ReplayStepKeeps
  <2> QED
    BY <1>4, <2>9, <2>10
<1>5. CASE /\ ~(rp.cursor < rp.end)
           /\ rp' = [rp EXCEPT !.pc = IF rp.more THEN "list" ELSE "flush"]
           /\ UNCHANGED <<send, withheld>>
  <2>1. rp.cursor = rp.end
    BY <1>2, <1>5
  <2>2. /\ rp' \in Pumps /\ rp'.pc = (IF rp.more THEN "list" ELSE "flush") /\ rp'.sub = rp.sub
        /\ rp'.cursor = rp.cursor /\ rp'.from = rp.from /\ rp'.end = rp.end
    <3>1. rp' \in Pumps
      BY <1>2, <1>5 DEF Pumps
    <3> QED
      BY <1>2, <1>5, <3>1 DEF Pumps
  <2>3. Stock' = Stock /\ Got' = Got /\ Live' = Live /\ Stock' \subseteq 1..head
    BY <1>1, <1>5 DEF Stock, Got, Live, Inv, StockInv
  <2>4. SendInv' /\ PumpInv'
    <3>1. SendInv'
      BY <1>1, <1>5, <2>3 DEF Inv, SendInv
    <3>2. PumpInv'
      BY <1>1, <2>2 DEF Inv, PumpInv
    <3> QED
      BY <3>1, <3>2
  <2>5. ReplayInv'
    <3> SUFFICES ASSUME up PROVE ReplayInv'
      BY <1>1 DEF ReplayInv
    <3>1. 1..rp.cursor \subseteq Got /\ Promised \subseteq Got
      BY <1>1, <2>1 DEF Inv, ReplayInv, Promised
    <3>2. Promised' = Got /\ Promised = Got
      BY <1>1, <2>2, <2>3, <3>1 DEF Promised
    <3>3. CASE rp.more
      BY <2>2, <2>3, <3>1, <3>3 DEF ReplayInv
    <3>4. CASE ~rp.more
      BY <1>1, <2>2, <2>3, <3>2, <3>4 DEF Inv, ReplayInv
    <3> QED
      BY <3>3, <3>4
  <2> QED
    BY <1>1, <1>3, <1>5, <2>2, <2>3, <2>4, <2>5, ReplayStepKeeps
<1> QED
  BY <1>1, <1>4, <1>5

(* release passes an event on or loses it.                                  *)
LEMMA FlushOneKeeps ==
  ASSUME Inv, FlushOne
  PROVE  Inv'
<1> DEFINE f == Head(buf)
<1>1. /\ rp.pc = "flush" /\ buf # <<>> /\ buf' = Tail(buf)
      /\ UNCHANGED <<head, due, offered, open, drops, connSub, up, rp, asks, wants, cursor, base, seen>>
      /\ \/ up /\ Len(send) < SendBuf /\ send' = Append(send, f) /\ UNCHANGED withheld
         \/ /\ withheld' = IF up /\ f.type = "op" THEN withheld \cup ({f.seq} \ Coming)
                                                  ELSE withheld
            /\ UNCHANGED send
  BY DEF FlushOne, streamVars, clientVars
<1>2. /\ buf \in Seq(Frames) /\ buf' \in Seq(Frames) /\ Len(buf) \in Nat \ {0}
      /\ Len(buf') = Len(buf) - 1 /\ \A k \in 1..Len(buf) - 1 : buf'[k] = buf[k + 1]
      /\ f = buf[1] /\ f \in Frames
  BY <1>1, TailProps DEF Inv, TypeOK
<1>3. Brings(f) \subseteq 1..head /\ f.type \in {"op", "other"}
  <2>1. 1 \in 1..Len(buf)
    BY <1>2
  <2> QED
    BY <1>2, <2>1 DEF Inv, BufInv
<1>4. up => Sound(Got, buf)
  BY <1>1 DEF Inv, ReplayInv, Promised
<1>t. Carried(buf, Len(buf)) = Brings(f) \cup Carried(buf', Len(buf'))
  BY <1>1, <1>2, CarriedTail
<1>s. \A X, Y : Sound(X, buf) /\ X \cup Brings(f) \subseteq Y => Sound(Y, buf')
  BY <1>1, <1>2, SoundTail
<1> HIDE DEF f
<1>5. up /\ f.type = "op" => 1..f.seq - 1 \subseteq Got
  <2> SUFFICES ASSUME up, f.type = "op" PROVE 1..f.seq - 1 \subseteq Got
    OBVIOUS
  <2>1. 1 \in 1..Len(buf)
    BY <1>2
  <2>2. 1..f.seq \subseteq Got \cup Carried(buf, 1)
    BY <1>2, <1>4, <2>1 DEF Sound
  <2>3. Carried(buf, 1) \subseteq {f.seq}
    <3>1. \A n : n \in Carried(buf, 1) <=> \E i \in 1..1 : n \in Brings(buf[i])
      BY CarriedElem
    <3>2. \A i \in 1..1 : buf[i] = f
      BY <1>2
    <3>3. Brings(f) = {f.seq}
      BY DEF Brings
    <3> QED
      BY <3>1, <3>2, <3>3
  <2>4. f.seq \in Nat
    BY <1>2, Bounds DEF Frames
  <2>5. \A n \in 1..f.seq - 1 : n \in 1..f.seq /\ n # f.seq
    BY <2>4
  <2> QED
    BY <2>2, <2>3, <2>5
<1>6. /\ send \in Seq(Frames) /\ Len(send) \in Nat /\ Len(send) <= SendBuf /\ SendBuf \in Nat
      /\ head \in Nat
  BY Bounds DEF Inv, TypeOK
<1>7. Stock \subseteq Stock' /\ Stock' \subseteq 1..head
  <2>1. withheld \subseteq withheld' /\ withheld' \subseteq withheld \cup Brings(f)
    BY <1>1 DEF Brings
  <2> QED
    BY <1>1, <1>3, <2>1 DEF Stock, Inv, StockInv
<1>8. /\ Extends(send', send, f) /\ Len(send') <= SendBuf /\ send' \in Seq(Frames)
      /\ ~up => send' = send
  <2>1. CASE up /\ Len(send) < SendBuf /\ send' = Append(send, f)
    <3>1. Extends(send', send, f) /\ Len(send') = Len(send) + 1
      BY <1>2, <1>6, <2>1, AppendExtends
    <3>2. send' \in Seq(Frames)
      BY <3>1 DEF Extends
    <3> QED
      BY <1>6, <2>1, <3>1, <3>2
  <2>2. CASE UNCHANGED send
    BY <1>6, <2>2, SameExtends
  <2> QED
    BY <1>1, <2>1, <2>2
<1>9. SendInv'
  <2>1. ~up' => send' = <<>>
    BY <1>1, <1>8 DEF Inv, SendInv
  <2>2. head' = head /\ head' \in Nat /\ head <= head'
    BY <1>1, <1>6
  <2>3. CASE up
    BY <1>2, <1>3, <1>5, <1>7, <1>8, <2>1, <2>2, <2>3, SendGrows DEF Inv
  <2>4. CASE ~up
    <3>1. ~(Len(send') > Len(send))
      BY <1>6, <1>8, <2>4
    <3> QED
      BY <1>2, <1>7, <1>8, <2>1, <2>2, <3>1, SendGrows DEF Inv
  <2> QED
    BY <2>3, <2>4
<1>10. Got \subseteq Got'
  BY <1>7, <1>8, GotGrows DEF Inv
<1>11. up => Brings(f) \subseteq Got'
  <2> SUFFICES ASSUME up PROVE Brings(f) \subseteq Got'
    OBVIOUS
  <2>1. CASE send' = Append(send, f)
    <3>1. Len(send') > Len(send)
      BY <1>2, <1>6, <2>1, AppendExtends
    <3> QED
      BY <1>7, <1>8, <3>1, GotGrows DEF Inv
  <2>2. CASE withheld' = IF up /\ f.type = "op" THEN withheld \cup ({f.seq} \ Coming) ELSE withheld
    <3>1. Brings(f) = IF f.type = "op" THEN {f.seq} ELSE {}
      BY <1>3 DEF Brings
    <3>2. Coming \subseteq Got
      BY ComingIsGot DEF Inv
    <3>3. Coming \subseteq Got' /\ withheld' \subseteq Got'
      BY <1>10, <3>2 DEF Got, Stock
    <3> QED
      BY <2>2, <3>1, <3>3
  <2> QED
    BY <1>1, <2>1, <2>2
<1>12. Live' = Live
  BY <1>1 DEF Live
<1>13. RoomInv' /\ PumpInv'
  BY <1>1, <1>12 DEF Inv, RoomInv, PumpInv
<1>14. BufInv'
  <2>1. \A k \in 1..Len(buf') : k + 1 \in 1..Len(buf) /\ buf'[k] = buf[k + 1]
    BY <1>2
  <2> QED
    BY <1>1, <2>1 DEF Inv, BufInv
<1>15. StockInv' /\ CursorInv' /\ OpenInv'
  <2>1. StockInv'
    BY <1>1, <1>7 DEF Inv, StockInv
  <2>2. CursorInv'
    BY <1>1, <1>7 DEF Inv, CursorInv, Stock
  <2>3. OpenInv'
    BY <1>1, <1>10 DEF Inv, OpenInv
  <2> QED
    BY <2>1, <2>2, <2>3
<1>16. ReplayInv'
  <2> SUFFICES ASSUME up
               PROVE  /\ Sound(Got', buf')
                      /\ rp.sub \in Live => 1..due[rp.sub] - 1 \subseteq Got' \cup Carried(buf', Len(buf'))
    BY <1>1, <1>12 DEF ReplayInv, Promised
  <2>1. Sound(Got', buf')
    BY <1>4, <1>10, <1>11, <1>s
  <2>2. rp.sub \in Live => 1..due[rp.sub] - 1 \subseteq Got \cup Carried(buf, Len(buf))
    BY <1>1 DEF Inv, ReplayInv, Promised
  <2> QED
    BY <1>10, <1>11, <1>t, <2>1, <2>2
<1>17. TypeOK'
  <2>1. withheld' \subseteq Seqs
    BY <1>7, SeqsUpToHead DEF Inv, Stock
  <2>2. Len(buf') <= GateCap
    BY <1>2, Bounds DEF Inv, TypeOK
  <2> QED
    BY <1>1, <1>2, <1>8, <2>1, <2>2 DEF Inv, TypeOK
<1>18. GateHoldsStream'
  <2> SUFFICES ASSUME up, rp.sub \in Live, drops[rp.sub] = 0,
                      NEW i \in 1..Len(buf'), buf'[i].type = "op"
               PROVE  /\ buf'[i].seq < due[rp.sub]
                      /\ \A j \in i + 1..Len(buf') :
                            buf'[j].type = "op" => buf'[j].seq > buf'[i].seq
                      /\ \A n \in buf'[i].seq + 1..due[rp.sub] - 1 :
                            \E j \in i + 1..Len(buf') : buf'[j] = OpFrame(n)
    BY <1>1, <1>12 DEF GateHoldsStream
  <2>1. i + 1 \in 1..Len(buf) /\ buf'[i] = buf[i + 1]
    BY <1>2
  <2>2. /\ buf[i + 1].seq < due[rp.sub]
        /\ \A j \in (i + 1) + 1..Len(buf) : buf[j].type = "op" => buf[j].seq > buf[i + 1].seq
        /\ \A n \in buf[i + 1].seq + 1..due[rp.sub] - 1 :
              \E j \in (i + 1) + 1..Len(buf) : buf[j] = OpFrame(n)
    BY <2>1 DEF Inv, GateHoldsStream
  <2>3. \A j \in i + 1..Len(buf') : j + 1 \in (i + 1) + 1..Len(buf) /\ buf'[j] = buf[j + 1]
    BY <1>2
  <2>4. \A j \in (i + 1) + 1..Len(buf) : j - 1 \in i + 1..Len(buf') /\ buf'[j - 1] = buf[j]
    <3> SUFFICES ASSUME NEW j \in (i + 1) + 1..Len(buf)
                 PROVE  j - 1 \in i + 1..Len(buf') /\ buf'[j - 1] = buf[j]
      OBVIOUS
    <3>1. j - 1 \in i + 1..Len(buf') /\ j - 1 \in 1..Len(buf) - 1 /\ (j - 1) + 1 = j
      BY <1>2
    <3>2. buf'[j - 1] = buf[(j - 1) + 1]
      BY <1>2, <3>1
    <3> QED
      BY <3>1, <3>2
  <2>5. \A n \in buf'[i].seq + 1..due[rp.sub] - 1 :
           \E j \in i + 1..Len(buf') : buf'[j] = OpFrame(n)
    <3> SUFFICES ASSUME NEW n \in buf[i + 1].seq + 1..due[rp.sub] - 1
                 PROVE  \E j \in i + 1..Len(buf') : buf'[j] = OpFrame(n)
      BY <2>1
    <3>1. PICK j \in (i + 1) + 1..Len(buf) : buf[j] = OpFrame(n)
      BY <2>2
    <3> QED
      BY <2>4, <3>1
  <2> QED
    BY <2>1, <2>2, <2>3, <2>5
<1> QED
  BY <1>9, <1>13, <1>14, <1>15, <1>16, <1>17, <1>18 DEF Inv

(* The gate opens: its buffer is empty, so the client has what the room has *)
(* offered.                                                                 *)
LEMMA ReleasedKeeps ==
  ASSUME Inv, Released
  PROVE  Inv'
<1>1. /\ rp.pc = "flush" /\ buf = <<>> /\ rp' = Idle
      /\ open' = IF rp.sub \in Live THEN open \cup {rp.sub} ELSE open
      /\ IF rp.err THEN Queue(Resync) ELSE UNCHANGED <<send, up>>
      /\ UNCHANGED <<head, due, offered, buf, drops, connSub, asks, wants, cursor, base, seen, withheld>>
  BY DEF Released, streamVars, clientVars
<1>2. /\ SendInv' /\ send' \in Seq(Frames) /\ Len(send') <= SendBuf /\ up' \in BOOLEAN
      /\ Stock' = Stock
      /\ up' => up /\ Got \subseteq Got'
  <2>1. CASE rp.err
    <3>1. Queue(Resync) /\ Resync \in Frames /\ Resync.type = "resync" /\ Brings(Resync) = {}
      BY <1>1, <2>1, FrameTypes
    <3> QED
      BY <1>1, <3>1, Queued DEF Inv
  <2>2. CASE ~rp.err
    BY <1>1, <2>2 DEF Inv, SendInv, TypeOK, Stock, Got
  <2> QED
    BY <2>1, <2>2
<1>3. /\ Live' = Live /\ head \in Nat /\ rp'.sub = NoSub /\ rp'.pc = "idle" /\ rp' \in Pumps
      /\ rp'.from = 0 /\ rp'.cursor = 0 /\ rp'.end = 0 /\ NoSub \notin Live /\ NoSub \notin Subs
  <2>1. rp' \in Pumps
    BY <1>1, Bounds DEF Idle, Pumps
  <2> QED
    BY <1>1, <2>1, LiveIsSubs, Bounds DEF Live, Inv, TypeOK, Idle
<1>4. open' \subseteq Live /\ Live \subseteq open' /\ open' \subseteq Subs
  BY <1>1, LiveIsSubs DEF Inv, RoomInv
<1>5. RoomInv'
  BY <1>1, <1>3, <1>4 DEF Inv, RoomInv
<1>6. PumpInv' /\ BufInv' /\ ReplayInv' /\ GateHoldsStream'
  BY <1>1, <1>3 DEF Inv, PumpInv, BufInv, ReplayInv, GateHoldsStream
<1>7. StockInv' /\ CursorInv'
  BY <1>1, <1>2, <1>3 DEF Inv, StockInv, CursorInv
<1>8. OpenInv'
  <2> SUFFICES ASSUME up', NEW s \in open' PROVE 1..due[s] - 1 \subseteq Got
    BY <1>1, <1>2 DEF OpenInv
  <2>1. CASE s \in open
    BY <1>2, <2>1 DEF Inv, OpenInv
  <2>2. CASE s = rp.sub /\ rp.sub \in Live
    <3>1. 1..due[s] - 1 \subseteq Got \cup Carried(buf, Len(buf))
      BY <1>1, <1>2, <2>2 DEF Inv, ReplayInv, Promised
    <3>2. Carried(buf, Len(buf)) = {}
      <4>1. Len(buf) = 0
        BY <1>1
      <4> QED
        BY <4>1 DEF Carried
    <3> QED
      BY <3>1, <3>2
  <2> QED
    BY <1>1, <2>1, <2>2
<1>9. TypeOK'
  BY <1>1, <1>2, <1>3, <1>4 DEF Inv, TypeOK
<1> QED
  BY <1>2, <1>5, <1>6, <1>7, <1>8, <1>9 DEF Inv
-----------------------------------------------------------------------------
(* The invariant holds initially.                                           *)
LEMMA InitInv == Init => Inv
<1> SUFFICES ASSUME Init PROVE Inv
  OBVIOUS
<1>1. /\ head = 0 /\ due = [s \in Subs |-> 0] /\ offered = [s \in Subs |-> 0]
      /\ open = {} /\ buf = <<>> /\ drops = [s \in Subs |-> 0] /\ connSub = NoSub /\ send = <<>>
      /\ up = FALSE /\ rp = Idle /\ asks = <<>> /\ wants = FALSE /\ cursor = Null
      /\ base = 0 /\ seen = {} /\ withheld = {}
  BY DEF Init, Stream!Init
<1>2. /\ rp \in Pumps /\ rp.pc = "idle" /\ rp.sub = NoSub /\ rp.from = 0 /\ rp.cursor = 0
      /\ rp.end = 0
  <2>1. rp \in Pumps
    BY <1>1, Bounds DEF Idle, Pumps
  <2> QED
    BY <1>1, <2>1 DEF Idle
<1>3. /\ buf \in Seq(Frames) /\ Len(buf) = 0 /\ send \in Seq(Frames) /\ Len(send) = 0
      /\ asks \in Seq(Asks) /\ Len(asks) = 0
  BY <1>1
<1>4. TypeOK
  <2>1. /\ head \in 0..MaxOps /\ due \in [Subs -> 0..MaxOps + 1] /\ offered \in [Subs -> 0..MaxOps]
        /\ drops \in [Subs -> 0..MaxDrops] /\ Len(buf) <= GateCap /\ Len(send) <= SendBuf
    BY <1>1, <1>3, Bounds
  <2>2. open \subseteq Subs /\ up \in BOOLEAN /\ wants \in BOOLEAN /\ connSub \in Subs \cup {NoSub}
    BY <1>1
  <2>3. /\ cursor \in 0..Null /\ base \in 0..MaxOps
        /\ seen \subseteq Seqs /\ withheld \subseteq Seqs
    BY <1>1, Bounds, AskTypes
  <2> QED
    BY <1>2, <1>3, <2>1, <2>2, <2>3 DEF TypeOK
<1>5. Live = {} /\ Stock = {}
  BY <1>1 DEF Live, Stock
<1>6. RoomInv /\ PumpInv /\ SendInv /\ BufInv /\ StockInv
  BY <1>1, <1>2, <1>3, <1>5, Bounds DEF RoomInv, PumpInv, SendInv, BufInv, StockInv, Sound
<1>7. ReplayInv /\ OpenInv /\ GateHoldsStream /\ CursorInv
  BY <1>1 DEF ReplayInv, OpenInv, GateHoldsStream, CursorInv
<1> QED
  BY <1>4, <1>6, <1>7 DEF Inv

(* A step that changes nothing.                                             *)
LEMMA StutterKeeps ==
  ASSUME Inv, UNCHANGED vars
  PROVE  Inv'
<1>1. UNCHANGED <<head, due, offered, open, buf, drops, connSub, send, up, rp, asks, wants, cursor,
                  base, seen, withheld>>
  BY DEF vars, streamVars, clientVars
<1>2. Live' = Live /\ Stock' = Stock /\ Got' = Got /\ head' \in Nat /\ head <= head'
  BY <1>1 DEF Live, Stock, Got, Inv, TypeOK
<1>3. RoomInv' /\ PumpInv' /\ BufInv' /\ ReplayInv' /\ OpenInv' /\ GateHoldsStream'
  BY <1>1, <1>2, PumpKept
<1>4. TypeOK'
  BY <1>1 DEF Inv, TypeOK
<1>5. SendInv' /\ StockInv' /\ CursorInv'
  BY <1>1, <1>2 DEF Inv, SendInv, StockInv, CursorInv
<1> QED
  BY <1>3, <1>4, <1>5 DEF Inv

(* Every step keeps the invariant.                                          *)
LEMMA NextInv == Inv /\ [Next]_vars => Inv'
<1> SUFFICES ASSUME Inv, [Next]_vars PROVE Inv'
  OBVIOUS
<1>1. CASE Commit
  BY <1>1, CommitKeeps
<1>2. CASE Offer
  BY <1>2, OfferKeeps
<1>3. CASE \E m \in Others : Presence(m)
  BY <1>3, PresenceKeeps
<1>4. CASE \E s \in Subs : DropClose(s) \/ Dropped(s)
  BY <1>4, DropCloseKeeps, DroppedKeeps
<1>5. CASE WriteFrame
  BY <1>5, WriteFrameKeeps
<1>6. CASE Disconnect
  BY <1>6, DisconnectKeeps
<1>7. CASE Shutdown
  BY <1>7, ShutdownKeeps
<1>8. CASE Connect
  BY <1>8, ConnectKeeps
<1>9. CASE OpenPage
  BY <1>9, OpenPageKeeps
<1>10. CASE LeavePage
  BY <1>10, LeavePageKeeps
<1>11. CASE HandleUnsubscribe
  BY <1>11, HandleUnsubscribeKeeps
<1>12. CASE Unsubscribed
  BY <1>12, UnsubscribedKeeps
<1>13. CASE HandleSubscribe
  BY <1>13, HandleSubscribeKeeps
<1>14. CASE SubscribeFails
  BY <1>14, SubscribeFailsKeeps
<1>15. CASE \E s \in Subs : Join(s)
  BY <1>15, JoinKeeps
<1>16. CASE Announce
  BY <1>16, AnnounceKeeps
<1>17. CASE Replace
  BY <1>17, ReplaceKeeps
<1>18. CASE Hello
  BY <1>18, HelloKeeps
<1>19. CASE ListPage
  BY <1>19, ListPageKeeps
<1>20. CASE ReplayOne
  BY <1>20, ReplayOneKeeps
<1>21. CASE ReplayFails
  BY <1>21, ReplayFailsKeeps
<1>22. CASE FlushOne
  BY <1>22, FlushOneKeeps
<1>23. CASE Released
  BY <1>23, ReleasedKeeps
<1>24. CASE UNCHANGED vars
  BY <1>24, StutterKeeps
<1> QED
  BY <1>1, <1>2, <1>3, <1>4, <1>5, <1>6, <1>7, <1>8, <1>9, <1>10, <1>11, <1>12, <1>13, <1>14,
     <1>15, <1>16, <1>17, <1>18, <1>19, <1>20, <1>21, <1>22, <1>23, <1>24 DEF Next, Unnoticed, ReadPump

(* The inductive invariant holds in every state a connection, its rooms and *)
(* its browser can reach.                                                   *)
THEOREM SessionInv == Spec => []Inv
BY InitInv, NextInv, PTL DEF Spec

(* Buffers stay within their capacities (conn.send, gateBuffer), and the    *)
(* connection's state is well formed.                                       *)
THEOREM SessionTyped == Spec => []TypeOK
<1>1. Inv => TypeOK
  BY DEF Inv
<1> QED
  BY <1>1, SessionInv, PTL

(* The web client's cursor never passes an operation after its last fresh   *)
(* start that the socket has not handed to it and that was not refused or   *)
(* left out: Engine.Subscribe, replayFrom, the gate, conn.queueRaw and      *)
(* handleFrame fit together, for every capacity, page size and resync limit.*)
THEOREM CursorIsHonest == Spec => []SeenUpToCursor
<1>1. Inv => SeenUpToCursor
  <2> SUFFICES ASSUME Inv, wants, cursor # Null, NEW n \in base + 1..cursor
               PROVE  n \in seen \cup withheld
    BY DEF SeenUpToCursor
  <2>1. base \in Nat /\ cursor \in Nat
    BY SessionAssumption DEF Inv, TypeOK, Null
  <2>2. n \in Stock /\ n \notin 1..base
    BY <2>1 DEF Inv, CursorInv
  <2> QED
    BY <2>2 DEF Stock
<1> QED
  BY <1>1, SessionInv, PTL

(* The gate's buffer (gate.go) is contiguous and ends where the room is,    *)
(* for every capacity of the gate, until its subscription is dropped.       *)
THEOREM GateKeepsOrder == Spec => []GateHoldsStream
<1>1. Inv => GateHoldsStream
  BY DEF Inv
<1> QED
  BY <1>1, SessionInv, PTL
-----------------------------------------------------------------------------
(* The page above the socket.  What the socket has handed over since a load *)
(* that counts was read was applied on top of it, or will be erased by its  *)
(* arrival and is then overtaken; a load reflects what was there when the   *)
(* page began to load.                                                      *)
Loads ==
    [pc : {"none", "asked", "read", "shown", "failed"}, seq : Nat]

PageInv ==
    /\ load \in Loads
    /\ renewed \in Nat /\ renewed <= head
    /\ load.pc \in {"read", "shown"} => renewed <= load.seq
    /\ load.pc = "read" => \A n \in seen : n > load.seq => n \in overtaken
    /\ load.pc = "shown" => /\ 1..renewed \subseteq shown
                            /\ \A n \in seen : n > renewed => n \in shown \cup overtaken

(* No step removes an operation from the log, and only the client's own     *)
(* steps tell what the socket has handed over.                              *)
LEMMA UnnoticedKeepsSeen ==
  ASSUME Inv, Unnoticed
  PROVE  head' \in Nat /\ head <= head' /\ seen' = seen
<1> USE DEF streamVars, clientVars, Stream!Leave
<1>0. head \in Nat
  BY DEF Inv, TypeOK
<1>1. CASE Commit
  BY <1>0, <1>1 DEF Commit
<1>2. CASE Offer \/ \E m \in Others : Presence(m)
  BY <1>0, <1>2 DEF Offer, Stream!Offer, Presence
<1>3. CASE \E s \in Subs : DropClose(s) \/ Dropped(s)
  BY <1>0, <1>3 DEF DropClose, CloseSub, Dropped
<1>4. CASE Disconnect \/ Shutdown \/ Connect
  BY <1>0, <1>4 DEF Disconnect, Shutdown, Connect
<1>5. CASE HandleUnsubscribe \/ Unsubscribed \/ HandleSubscribe \/ SubscribeFails
  BY <1>0, <1>5 DEF HandleUnsubscribe, CloseSub, Unsubscribed, HandleSubscribe, SubscribeFails
<1>6. CASE \E s \in Subs : Join(s)
  BY <1>0, <1>6 DEF Join, Stream!Join
<1>7. CASE Announce \/ Replace \/ Hello \/ ListPage
  BY <1>0, <1>7 DEF Announce, Replace, CloseSub, Hello, ListPage
<1>8. CASE ReplayOne \/ ReplayFails \/ FlushOne \/ Released
  BY <1>0, <1>8 DEF ReplayOne, ReplayFails, FlushOne, Released
<1> QED
  BY <1>1, <1>2, <1>3, <1>4, <1>5, <1>6, <1>7, <1>8 DEF Unnoticed, ReadPump

(* The page's steps are steps of the socket, or leave it alone.             *)
LEMMA PageStepsAreSessionSteps ==
  ASSUME [PageNext]_allVars
  PROVE  [Next]_vars
BY DEF PageNext, Mount, SubscribeAgain, Unmount, ReadFrame, ReadTables, Loaded, LoadFails, Next,
       allVars

(* Beginning to load forgets what an earlier load reflected.                *)
LEMMA StartLoadKeeps ==
  ASSUME Inv, StartLoad, UNCHANGED head
  PROVE  PageInv'
<1>1. head' = head /\ head \in Nat
  BY DEF Inv, TypeOK
<1>2. load' = [pc |-> "asked", seq |-> 0] /\ renewed' = head
  BY DEF StartLoad
<1>3. load' \in Loads /\ load'.pc = "asked"
  BY <1>2 DEF Loads
<1> QED
  BY <1>1, <1>2, <1>3 DEF PageInv

(* Every step keeps PageInv, given what the socket keeps.                   *)
LEMMA PageKeeps ==
  ASSUME Inv, PageInv, [PageNext]_allVars
  PROVE  PageInv'
<1>1. head \in Nat /\ renewed \in Nat /\ renewed <= head /\ seen \subseteq 1..head
  BY DEF Inv, TypeOK, StockInv, Stock, PageInv
<1>2. CASE Unnoticed /\ UNCHANGED pageVars
  <2>1. head' \in Nat /\ head <= head' /\ seen' = seen
    BY <1>2, UnnoticedKeepsSeen
  <2>2. UNCHANGED <<shown, load, renewed, overtaken>> /\ renewed <= head'
    BY <1>1, <1>2, <2>1 DEF pageVars
  <2> QED
    BY <2>1, <2>2 DEF PageInv
<1>3. CASE Mount
  BY <1>3, StartLoadKeeps DEF Mount, OpenPage, streamVars
<1>4. CASE SubscribeAgain
  BY <1>4 DEF SubscribeAgain, OpenPage, streamVars, pageVars, PageInv
<1>5. CASE Unmount
  <2>1. load' \in Loads /\ load'.pc = "none"
    BY <1>5 DEF Unmount, NoLoad, Loads
  <2> QED
    BY <1>1, <1>5, <2>1 DEF Unmount, LeavePage, streamVars, PageInv
<1>6. CASE ReadFrame
  <2> DEFINE f == Head(send)
  <2>1. /\ head' = head
        /\ \A n \in seen' : n \in seen \/ (f.type = "op" /\ n = f.seq)
    BY <1>6 DEF ReadFrame, WriteFrame, Handed, streamVars
  <2>2. CASE Mounted /\ f.type = "op" /\ shown' = shown \cup {f.seq}
             /\ overtaken' = (IF load.pc = "read" THEN overtaken \cup {f.seq} ELSE overtaken)
             /\ UNCHANGED <<load, renewed>>
    <3> HIDE DEF f
    <3> QED
      BY <2>1, <2>2 DEF PageInv
  <2>3. CASE StartLoad
    BY <2>1, <2>3, StartLoadKeeps
  <2>4. CASE Mounted /\ f.type # "op" /\ UNCHANGED pageVars
    <3> HIDE DEF f
    <3> QED
      BY <2>1, <2>4 DEF PageInv, pageVars
  <2>5. CASE ~Mounted /\ UNCHANGED pageVars
    BY <2>1, <2>5 DEF PageInv, pageVars, Mounted
  <2> QED
    BY <1>6, <2>2, <2>3, <2>4, <2>5 DEF ReadFrame
<1>7. CASE ReadTables
  <2>1. load' = [load EXCEPT !.pc = "read", !.seq = head] /\ UNCHANGED <<head, seen, renewed>>
    BY <1>7 DEF ReadTables, vars, streamVars, clientVars
  <2>2. load' \in Loads /\ load'.pc = "read" /\ load'.seq = head
    BY <1>1, <2>1 DEF PageInv, Loads
  <2>3. \A n \in seen : ~(n > head)
    BY <1>1
  <2> QED
    BY <1>1, <2>1, <2>2, <2>3 DEF PageInv
<1>8. CASE Loaded
  <2>1. /\ load.pc = "read" /\ load' = [load EXCEPT !.pc = "shown"] /\ shown' = 1..load.seq
        /\ UNCHANGED <<head, seen, renewed, overtaken>>
    BY <1>8 DEF Loaded, vars, streamVars, clientVars
  <2>2. load' \in Loads /\ load'.pc = "shown" /\ load'.seq = load.seq /\ load.seq \in Nat
    BY <2>1 DEF PageInv, Loads
  <2>3. renewed <= load.seq /\ 1..renewed \subseteq shown'
    BY <1>1, <2>1, <2>2 DEF PageInv
  <2>4. \A n \in seen : n \in shown' \/ n \in overtaken
    <3> SUFFICES ASSUME NEW n \in seen, n \notin 1..load.seq PROVE n \in overtaken
      BY <2>1
    <3>1. n > load.seq
      BY <1>1, <2>2
    <3> QED
      BY <2>1, <3>1 DEF PageInv
  <2> QED
    BY <1>1, <2>1, <2>2, <2>3, <2>4 DEF PageInv
<1>9. CASE LoadFails
  <2>1. load' = [load EXCEPT !.pc = "failed"] /\ UNCHANGED <<head, renewed>>
    BY <1>9 DEF LoadFails, vars, streamVars
  <2>2. load' \in Loads /\ load'.pc = "failed"
    BY <2>1 DEF PageInv, Loads
  <2> QED
    BY <1>1, <2>1, <2>2 DEF PageInv
<1>10. CASE UNCHANGED allVars
  BY <1>10 DEF allVars, vars, streamVars, clientVars, pageVars, PageInv
<1> QED
  BY <1>2, <1>3, <1>4, <1>5, <1>6, <1>7, <1>8, <1>9, <1>10 DEF PageNext

(* What a page that has loaded does not show, though the cursor of the      *)
(* client is past it, was withheld from the socket, was overtaken by the    *)
(* load, or was committed between the beginning of the load and the head of *)
(* the fresh start (TripSocketContext.tsx and socket.ts together, on top of *)
(* what the server does), for every capacity, page size and resync limit.   *)
THEOREM PageIsHonest == PageSpec => []PageMissesOnlyRaces
<1>1. PageInit => Inv /\ PageInv
  <2> SUFFICES ASSUME PageInit PROVE Inv /\ PageInv
    OBVIOUS
  <2>1. Inv /\ head = 0
    BY InitInv DEF PageInit, Init, Stream!Init
  <2>2. load \in Loads /\ load.pc = "none" /\ renewed = 0
    BY DEF PageInit, NoLoad, Loads
  <2> QED
    BY <2>1, <2>2 DEF PageInv
<1>2. Inv /\ PageInv /\ [PageNext]_allVars => Inv' /\ PageInv'
  BY PageStepsAreSessionSteps, NextInv, PageKeeps
<1>3. Inv /\ PageInv => PageMissesOnlyRaces
  <2> SUFFICES ASSUME Inv, PageInv, load.pc = "shown", wants, cursor # Null, NEW n \in 1..cursor,
                      n \notin withheld, ~(renewed < n /\ n <= base)
               PROVE  n \in shown \cup overtaken
    BY DEF PageMissesOnlyRaces
  <2>1. n \in Stock
    BY DEF Inv, CursorInv
  <2>2. n \in Nat \ {0} /\ renewed \in Nat /\ base \in Nat
    BY <2>1, SessionAssumption DEF Inv, TypeOK, PageInv, Stock, Seqs
  <2>3. CASE n <= renewed
    BY <2>2, <2>3 DEF PageInv
  <2>4. CASE ~(n <= renewed)
    <3>1. n > renewed /\ n \in seen
      BY <2>1, <2>2, <2>4 DEF Stock
    <3> QED
      BY <3>1 DEF PageInv
  <2> QED
    BY <2>3, <2>4
<1> QED
  BY <1>1, <1>2, <1>3, PTL DEF PageSpec
=============================================================================
