----------------------------- MODULE OfflinePos -----------------------------
(***************************************************************************)
(* The offline point of sale as a whole: browser passes calling            *)
(* /tijara/offline-pos/capture, whose requests are transactions of         *)
(* OfflineQueue.  An answer may be lost on its way, a request may die with *)
(* its worker, and the pass goes on in either case.                        *)
(***************************************************************************)
EXTENDS OfflineQueue

CONSTANTS Passes,        \* bound: passes running at the same time
          SellDuringPass \* whether a sale may be captured while a pass runs

VARIABLES local, pass,   \* the browser (see OfflineBrowser)
          client,        \* client[w]: the pass that waits for worker w's answer
          known          \* history: the sales captured so far

Browser == INSTANCE OfflineBrowser

ASSUME PosAssumption == /\ SellDuringPass \in BOOLEAN
                      /\ None \notin Passes

serverVars == vars
netVars    == <<local, pass, client, known>>
posVars    == <<queue, orders, reopened, lock, txn, local, pass, client, known>>

Clients(k) == {w \in Workers : client[w] = k}
Hangup(k)  == client' = [w \in Workers |-> IF client[w] = k THEN None ELSE client[w]]

Sell(p) ==
    /\ SellDuringPass \/ Browser!Resting
    /\ Browser!CaptureOrder(p)
    /\ known' = known \cup {UidOf[p]}
    /\ UNCHANGED <<serverVars, client>>

Start(k) == Browser!StartPass(k) /\ UNCHANGED <<serverVars, client, known>>

Send(k, p) == Browser!Send(k, p) /\ UNCHANGED <<serverVars, client, known>>

(* A thread takes up the request pass k waits for. *)
Accept(k, w) ==
    /\ client[w] = None
    /\ Browser!Waits(k) /\ Clients(k) = {}
    /\ BeginCapture(w, pass[k].cur, TRUE)
    /\ client' = [client EXCEPT ![w] = k]
    /\ UNCHANGED <<local, pass, known>>

(* A failed fetch whose answer is still listened to (a fault). *)
LoseLate(k) == Browser!Keep(k) /\ UNCHANGED <<serverVars, client, known>>

(* The fetch throws: the request was lost, its answer will be, or the       *)
(* browser gave up; the server may still be at work on it.                  *)
Lose(k) == Browser!Keep(k) /\ Hangup(k) /\ UNCHANGED <<serverVars, known>>

Finished(k) == Browser!EndPass(k) /\ UNCHANGED <<serverVars, client, known>>

Close(k) == Browser!ClosePage(k) /\ Hangup(k) /\ UNCHANGED <<serverVars, known>>

(* What worker w does before its transaction ends. *)
Serve(w) ==
    /\ CaptureUpsert(w) \/ SelectPending(w) \/ Replay(w) \/ SerializationFailure(w)
    /\ UNCHANGED netVars

(* The cron, or a manager's call of /tijara/offline-pos/replay. *)
ReplayPending(w) == BeginPending(w) /\ UNCHANGED netVars

Answer(w) ==
    /\ Commit(w)
    /\ client' = [client EXCEPT ![w] = None]
    /\ IF client[w] = None THEN UNCHANGED <<local, pass>>
       ELSE IF Acknowledges(w) THEN Browser!Drop(client[w]) ELSE Browser!Keep(client[w])
    /\ UNCHANGED known

(* The worker dies: an HTTP error, if somebody still listens. *)
Crash(w) ==
    /\ Abort(w)
    /\ client' = [client EXCEPT ![w] = None]
    /\ IF client[w] = None THEN UNCHANGED <<local, pass>> ELSE Browser!Keep(client[w])
    /\ UNCHANGED known

PosInit == /\ Init /\ Browser!Init
           /\ client = [w \in Workers |-> None] /\ known = {}

PosNext ==
    \/ \E p \in Payloads : Sell(p)
    \/ \E k \in Passes : Start(k) \/ Lose(k) \/ Finished(k) \/ Close(k)
    \/ \E k \in Passes, p \in Payloads : Send(k, p)
    \/ \E k \in Passes, w \in Workers : Accept(k, w)
    \/ \E w \in Workers : Serve(w) \/ ReplayPending(w) \/ Answer(w) \/ Crash(w)

PosSpec == PosInit /\ [][PosNext]_posVars

-----------------------------------------------------------------------------
(* Fairness.  The timer keeps starting passes, and a started pass and a     *)
(* started request keep running.  Failures of the network, the database and *)
(* the replay do not go on for ever: a step towards the booking of a sale   *)
(* that gets its chance again and again is taken in the end.                *)
Fairness ==
    /\ \A k \in Passes : WF_posVars(Start(k)) /\ WF_posVars(Finished(k))
    /\ \A w \in Workers : WF_posVars(Serve(w)) /\ WF_posVars(Answer(w))
    /\ \A k \in Passes, p \in Payloads :
          /\ SF_posVars(Send(k, p))
          /\ SF_posVars(pass[k].cur = p /\ \E w \in Workers : Accept(k, w))
    /\ \A w \in Workers, p \in Payloads :
          SF_posVars(txn[w].job.payload = p /\ CaptureUpsert(w) /\ UNCHANGED netVars)
    /\ \A w \in Workers, r \in Rows :
          /\ SF_posVars(ReplayBook(w, r) /\ UNCHANGED netVars)
          /\ SF_posVars(r \in txn[w].made /\ Answer(w))

FairPosSpec == PosSpec /\ Fairness

-----------------------------------------------------------------------------
(* Properties *)

(* The browser and the connections stay in their domains. *)
PosTypeOK == /\ Browser!BrowserTypeOK
             /\ client \in [Workers -> Passes \cup {None}]
             /\ known \subseteq Uids
             /\ \A w \in Workers : client[w] # None =>
                   /\ Running(w) /\ txn[w].job.op = "capture"
                   /\ pass[client[w]].cur = txn[w].job.payload

Booked(u) == \E r \in Rows : queue[r].uid = u /\ queue[r].state = "replayed"

(* A sale made offline is in the browser's list or booked: lost answers,    *)
(* aborted requests, reloads and overlapping passes never lose one.         *)
NothingLost == \A u \in known : Booked(u) \/ \E p \in local : UidOf[p] = u

(* A sale made offline is booked in the end, when the server has one thread *)
(* for requests and only captures arrive; two abandoned requests of one     *)
(* sale, or a capture and a pending run, may abort each other's             *)
(* transactions for ever.                                                   *)
EventuallyBooked == \A u \in Uids : u \in known ~> Booked(u)
=============================================================================
