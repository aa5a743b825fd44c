--------------------------- MODULE OfflineBrowser ---------------------------
(***************************************************************************)
(* The browser's half of the offline queue: the list of captured sales in  *)
(* localStorage and the passes that send it to the server.  A pass reads   *)
(* the list once, awaits an answer for each entry, and writes the entries  *)
(* it keeps over whatever the list has become meanwhile.  The ten-second   *)
(* timer, the "online" event, syncAllOrders and the button all start       *)
(* passes, nothing keeps two of them apart, and two tabs share the list.   *)
(* Entries are sent in list order; no property depends on it, so the list  *)
(* is a set here.                                                          *)
(***************************************************************************)
EXTENDS Naturals

CONSTANTS Payloads,   \* what an entry holds; a capture never repeats one
          Uids,       \* sales: (source_device_id, source_order_uid)
          UidOf,      \* the sale a payload describes
          Passes,     \* bound: passes running at the same time
          None

VARIABLES local,      \* the payloads of the entries in localStorage
          pass        \* pass[k]: the k-th call of tijaraReplayOfflineQueue

browserVars == <<local, pass>>

NoPass == [phase |-> "idle", todo |-> {}, keep |-> {}, cur |-> None]
Pass   == [phase : {"idle", "run"}, todo : SUBSET Payloads,
           keep : SUBSET Payloads, cur : Payloads \cup {None}]

Waits(k)  == pass[k].cur # None
Resting   == \A k \in Passes : pass[k] = NoPass

Init == local = {} /\ pass = [k \in Passes |-> NoPass]

(* tijaraCaptureOfflineOrder: the entry of the same sale is replaced. *)
CaptureOrder(p) ==
    /\ local' = {q \in local : UidOf[q] # UidOf[p]} \cup {p}
    /\ UNCHANGED pass

StartPass(k) ==
    /\ pass[k].phase = "idle" /\ local # {}
    /\ pass' = [pass EXCEPT ![k] = [NoPass EXCEPT !.phase = "run", !.todo = local]]
    /\ UNCHANGED local

Send(k, p) ==
    /\ ~Waits(k) /\ p \in pass[k].todo
    /\ pass' = [pass EXCEPT ![k] = [pass[k] EXCEPT !.cur = p, !.todo = @ \ {p}]]
    /\ UNCHANGED local

(* The answer says replayed or duplicate: the entry is not carried over. *)
Drop(k) ==
    /\ Waits(k)
    /\ pass' = [pass EXCEPT ![k] = [pass[k] EXCEPT !.cur = None]]
    /\ UNCHANGED local

(* A failed fetch that forgets to carry the entry over (a fault). *)
Forget(k) == Drop(k)

(* Any other answer, or the fetch throws: the entry is carried over. *)
Keep(k) ==
    /\ Waits(k)
    /\ pass' = [pass EXCEPT ![k] = [pass[k] EXCEPT !.cur = None, !.keep = @ \cup {pass[k].cur}]]
    /\ UNCHANGED local

EndPass(k) ==
    /\ pass[k].phase = "run" /\ pass[k].todo = {} /\ ~Waits(k)
    /\ local' = pass[k].keep
    /\ pass' = [pass EXCEPT ![k] = NoPass]

(* The page is reloaded or closed: the pass is gone, the list stays. *)
ClosePage(k) ==
    /\ pass[k].phase = "run"
    /\ pass' = [pass EXCEPT ![k] = NoPass]
    /\ UNCHANGED local

BrowserTypeOK == local \subseteq Payloads /\ pass \in [Passes -> Pass]
=============================================================================
