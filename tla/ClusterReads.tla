---------------------------- MODULE ClusterReads ----------------------------
(***************************************************************************)
(* What the agent knows of a cluster: one informer per kind that lists and *)
(* watches it, the lists that are answered from its store or live, and the *)
(* stream of changes to a subscriber whose buffer is bounded.              *)
(*                                                                         *)
(* The objects of a kind are represented by a version that every change    *)
(* raises; the store of an informer holds the version it has seen, 0 while *)
(* it has seen none.  The store and the delivery of its events belong to   *)
(* different goroutines, as do those of two informers.                     *)
(***************************************************************************)
EXTENDS Naturals, Sequences

CONSTANTS
  InfKinds,  \* kinds of objects with an informer
  MaxSeen,   \* versions of a kind
  Buffer     \* events that wait for a subscriber

VARIABLES
  truth,       \* the version of each kind in the cluster
  store,       \* the version in the store of each informer
  told,        \* the version up to which its events were published
  healthy,     \* the watch of the informer has never failed
  failedAt,    \* the version of the kind when its watch failed first, or when the agent stopped
  stopped,     \* the informers were stopped
  publishing,  \* publications in progress: of object events, and of failures
  buf,         \* the buffer of the subscriber; its filter has the one kind that is watched
  lost,        \* events were dropped since it was last told to read everything again
  overlapped,  \* two publications to a full buffer overlapped since then
  list         \* a list request

vars == <<truth, store, told, healthy, failedAt, stopped, publishing, buf, lost, overlapped, list>>
sub == <<publishing, buf, lost, overlapped>>
inf == <<truth, store, told, healthy, failedAt, stopped>>

Publishers == {"objects", "failure"} \X InfKinds
NoList == [pc |-> "idle", kind |-> "none", floor |-> 0, answer |-> 0]
Resync == {"error", "reset"}

Init ==
  /\ truth = [k \in InfKinds |-> 1]
  /\ store = [k \in InfKinds |-> 0]
  /\ told = [k \in InfKinds |-> 0]
  /\ healthy = [k \in InfKinds |-> TRUE]
  /\ failedAt = [k \in InfKinds |-> 0]
  /\ stopped = FALSE
  /\ publishing = [p \in Publishers |-> "no"]
  /\ buf = <<>> /\ lost = FALSE /\ overlapped = FALSE
  /\ list = NoList

-----------------------------------------------------------------------------
(* The informers.                                                          *)

ClusterChanges(k) ==
  /\ truth[k] < MaxSeen
  /\ truth' = [truth EXCEPT ![k] = @ + 1]
  /\ UNCHANGED <<store, told, healthy, failedAt, stopped, sub, list>>

\* The first list, or one after the watch failed, brings the store up to date at once.
InformerLists(k) ==
  /\ ~stopped
  /\ store[k] = 0 \/ ~healthy[k]
  /\ store' = [store EXCEPT ![k] = truth[k]]
  /\ UNCHANGED <<truth, told, healthy, failedAt, stopped, sub, list>>

InformerSees(k) ==
  /\ ~stopped /\ store[k] \in 1..truth[k] - 1
  /\ store' = [store EXCEPT ![k] = @ + 1]
  /\ UNCHANGED <<truth, told, healthy, failedAt, stopped, sub, list>>

\* From now on the store of the kind is not read: it cannot be known that a new list
\* reached it.
WatchFails(k) ==
  /\ ~stopped /\ healthy[k] /\ store[k] # 0 /\ publishing[<<"failure", k>>] = "no"
  /\ healthy' = [healthy EXCEPT ![k] = FALSE]
  /\ failedAt' = [failedAt EXCEPT ![k] = truth[k]]
  /\ publishing' = [publishing EXCEPT ![<<"failure", k>>] = "send"]
  /\ UNCHANGED <<truth, store, told, stopped, buf, lost, overlapped, list>>

StopInformers ==
  /\ ~stopped
  /\ stopped' = TRUE
  /\ failedAt' = truth
  /\ UNCHANGED <<truth, store, told, healthy, sub, list>>

-----------------------------------------------------------------------------
(* Lists.                                                                  *)

\* Mutant: an informer whose watch failed is trusted as long as it has synced.
SyncedOnce(k) == ~stopped /\ store[k] # 0

\* Mutant: the store is read whether the first list has reached it or not.
AnyStore(k) == ~stopped /\ healthy[k]

\* cachedResourceItems: the store answers for an informer that is running, has synced and
\* never failed.
Cached(k) == ~stopped /\ store[k] # 0 /\ healthy[k]

ListBegins(k) ==
  /\ list.pc = "idle"
  /\ list' = [pc |-> IF Cached(k) THEN "cached" ELSE "live", kind |-> k,
              floor |-> IF failedAt[k] > 1 THEN failedAt[k] ELSE 1, answer |-> 0]
  /\ UNCHANGED <<inf, sub>>

\* The store is read after it was found usable.
ListFromStore ==
  /\ list.pc = "cached"
  /\ list' = [list EXCEPT !.pc = "answered", !.answer = store[list.kind]]
  /\ UNCHANGED <<inf, sub>>

\* listTable: page after page of one snapshot, until there is no more; a token that repeats,
\* an error or the deadline of 8 seconds end the request with an error.
ListLive ==
  /\ list.pc = "live"
  /\ list' = [list EXCEPT !.pc = "answered", !.answer = truth[list.kind]] \/ list' = NoList
  /\ UNCHANGED <<inf, sub>>

ListTaken ==
  /\ list.pc = "answered"
  /\ list' = NoList
  /\ UNCHANGED <<inf, sub>>

-----------------------------------------------------------------------------
(* Publication to the subscriber: a full buffer loses its oldest event, and *)
(* is told to resynchronise if there is room then.                         *)

\* What is to be announced: an object's next version; a version that was seen already, by a
\* list that brings nothing new, is not.
PublishObject(k) ==
  /\ publishing[<<"objects", k>>] = "no" /\ told[k] < store[k]
  /\ told' = [told EXCEPT ![k] = @ + 1]
  /\ publishing' = [publishing EXCEPT ![<<"objects", k>>] = "send"]
  /\ UNCHANGED <<truth, store, healthy, failedAt, stopped, buf, lost, overlapped, list>>

Event(p) == [type |-> IF p[1] = "objects" THEN "object" ELSE "error", kind |-> p[2]]

\* Another publication is at the full buffer.
Crowded(p) == \E q \in Publishers \ {p} : publishing[q] \in {"full", "reset"}

\* An event that tells of a resynchronisation makes up for what was lost before it.
Enqueue(p, e) ==
  /\ buf' = Append(buf, e)
  /\ lost' = (lost /\ e.type \notin Resync)
  /\ overlapped' = ((overlapped \/ Crowded(p)) /\ e.type \notin Resync)

Send(p) ==
  /\ publishing[p] = "send"
  /\ IF Len(buf) < Buffer
     THEN Enqueue(p, Event(p)) /\ publishing' = [publishing EXCEPT ![p] = "no"]
     ELSE /\ publishing' = [publishing EXCEPT ![p] = "full"]
          /\ lost' = TRUE
          /\ overlapped' = (overlapped \/ Crowded(p))
          /\ UNCHANGED buf
  /\ UNCHANGED <<inf, list>>

DropOldest(p) ==
  /\ publishing[p] = "full"
  /\ buf' = IF buf = <<>> THEN buf ELSE Tail(buf)
  /\ lost' = TRUE
  /\ publishing' = [publishing EXCEPT ![p] = "reset"]
  /\ overlapped' = (overlapped \/ Crowded(p))
  /\ UNCHANGED <<inf, list>>

\* Mutant: the new event is sent again instead.
SendAgain(p) == Event(p)

Reset(p) == [type |-> "reset", kind |-> p[2]]

SendReset(p) ==
  /\ publishing[p] = "reset"
  /\ IF Len(buf) < Buffer THEN Enqueue(p, Reset(p)) ELSE UNCHANGED <<buf, lost, overlapped>>
  /\ publishing' = [publishing EXCEPT ![p] = "no"]
  /\ UNCHANGED <<inf, list>>

\* The handler writes the next event to the subscriber's connection.
Deliver ==
  /\ buf # <<>>
  /\ buf' = Tail(buf)
  /\ UNCHANGED <<inf, publishing, lost, overlapped, list>>

Next ==
  \/ \E k \in InfKinds :
       \/ ClusterChanges(k) \/ InformerLists(k) \/ InformerSees(k) \/ WatchFails(k)
       \/ ListBegins(k) \/ PublishObject(k)
  \/ \E p \in Publishers : Send(p) \/ DropOldest(p) \/ SendReset(p)
  \/ StopInformers \/ ListFromStore \/ ListLive \/ ListTaken \/ Deliver

Spec == Init /\ [][Next]_vars

-----------------------------------------------------------------------------
\* A list shows the kind as it was no earlier than the first failure of its watch, if that
\* came before the request, and never before the first list arrived ("A failed/unsynced/
\* stopped informer must never look like an empty list").
ListsAreTrue == list.pc = "answered" => list.answer >= list.floor

\* A subscriber that lost events is told to read everything again, once the publication
\* that found its buffer full is over.  Two publications that overlap may take the room from
\* each other, and then nothing tells it.
LossIsAnnounced ==
  lost /\ ~overlapped => \E p \in Publishers : publishing[p] \in {"full", "reset"}

=============================================================================
