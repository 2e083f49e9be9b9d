------------------------------ MODULE TripPage ------------------------------
(***************************************************************************)
(* The trip page above the socket (context/TripSocketContext.tsx and the   *)
(* components below it): it loads what it shows over REST when it is       *)
(* opened and whenever the socket has to resync, and applies the           *)
(* operations the socket hands it. Nothing orders the two channels: the    *)
(* load is read from the tables at one moment and arrives at a later one,  *)
(* while Session subscribes and delivers.                                  *)
(*                                                                         *)
(* The page stands for one that applies operations itself, as the comments *)
(* of a slot do (CommentThread.tsx); others load again on an operation.    *)
(***************************************************************************)
EXTENDS Session

VARIABLES
    shown,      \* the operations that what is on the screen reflects
    load,       \* the load over REST that counts: its state, and what it reflects
    renewed,    \* the head when the page last began to load
    overtaken   \* ghost: operations applied between that load's reading and its arrival

pageVars == <<shown, load, renewed, overtaken>>
allVars == <<vars, pageVars>>

NoLoad == [pc |-> "none", seq |-> 0]

(* There is a page: mounted, and not yet unmounted.                          *)
Mounted == load.pc # "none"

PageInit ==
    /\ Init
    /\ shown = {}
    /\ load = NoLoad
    /\ renewed = 0
    /\ overtaken = {}

(* Mutant: a load under way is taken for the new one.                        *)
StartLoadOnce ==
    /\ load' = IF load.pc = "read" THEN load ELSE [pc |-> "asked", seq |-> 0]
    /\ renewed' = head
    /\ overtaken' = {}

(* The effect of a mount or of a new resyncSignal: a load under way is       *)
(* cancelled, and another begins.                                            *)
StartLoad ==
    /\ load' = [pc |-> "asked", seq |-> 0]
    /\ renewed' = head
    /\ overtaken' = {}

(* Its effect subscribes and its components load, in no order.               *)
Mount ==
    /\ ~Mounted
    /\ OpenPage
    /\ StartLoad
    /\ shown' = {}

(* A subscribe for a trip whose page is open already (TripSocket.subscribe). *)
SubscribeAgain ==
    /\ Mounted
    /\ OpenPage
    /\ UNCHANGED pageVars

Unmount ==
    /\ Mounted
    /\ LeavePage
    /\ shown' = {}
    /\ load' = NoLoad
    /\ overtaken' = {}
    /\ UNCHANGED renewed

(* The page's listeners: an operation is applied, a resync starts a load.    *)
ReadFrame ==
    /\ WriteFrame
    /\ LET f == Head(send) IN
       \/ /\ Mounted /\ f.type = "op"
          /\ shown' = shown \cup {f.seq}
          /\ overtaken' = IF load.pc = "read" THEN overtaken \cup {f.seq} ELSE overtaken
          /\ UNCHANGED <<load, renewed>>
       \/ /\ Mounted /\ f.type = "resync"
          /\ StartLoad
          /\ UNCHANGED shown
       \/ /\ ~Mounted \/ f.type \notin {"op", "resync"}
          /\ UNCHANGED pageVars

(* The server reads the tables for the load.                                 *)
ReadTables ==
    /\ load.pc = "asked"
    /\ load' = [load EXCEPT !.pc = "read", !.seq = head]
    /\ UNCHANGED <<vars, shown, renewed, overtaken>>

(* The answer arrives, and replaces what was shown.                          *)
Loaded ==
    /\ load.pc = "read"
    /\ load' = [load EXCEPT !.pc = "shown"]
    /\ shown' = 1..load.seq
    /\ UNCHANGED <<vars, renewed, overtaken>>

(* It fails: the page says so, and keeps what it had.                        *)
LoadFails ==
    /\ load.pc \in {"asked", "read"}
    /\ load' = [load EXCEPT !.pc = "failed"]
    /\ UNCHANGED <<vars, shown, renewed, overtaken>>

PageNext ==
    \/ Unnoticed /\ UNCHANGED pageVars
    \/ Mount \/ SubscribeAgain \/ Unmount \/ ReadFrame
    \/ ReadTables \/ Loaded \/ LoadFails

PageSpec == PageInit /\ [][PageNext]_allVars

FairPageSpec == PageSpec /\ Fairness
-----------------------------------------------------------------------------
(***************************************************************************)
(* Properties                                                              *)
(***************************************************************************)

(* A page whose last load has arrived shows everything up to its cursor but  *)
(* for three kinds of operations: those withheld from the socket, those the  *)
(* load overtook (applied after it was read and erased when it arrived), and *)
(* those committed after it began but no later than the head the fresh start *)
(* was told, which may be in neither answer. In particular no operation from *)
(* before the page was opened, or told to resync, is missing.                *)
(* The last kind is where "a REST refetch by the caller" does not "re-estab- *)
(* lish the baseline this resumes" (socket.ts, resync_required).             *)
PageMissesOnlyRaces ==
    load.pc = "shown" /\ wants /\ cursor # Null
        => \A n \in 1..cursor :
              n \in shown \cup withheld \cup overtaken \/ (renewed < n /\ n <= base)
=============================================================================
