----------------------------- MODULE MasterVNID -----------------------------
(***************************************************************************)
(* The master's VNID lifecycle (src/ksdn/vnids_master.go) over the etcd    *)
(* NetNamespace directory (src/pkg/etcdmanager/etcdv2) and the master's    *)
(* NetNamespace watcher (src/pkg/etcdmanager/watch.go).                    *)
(*                                                                         *)
(* Actors:                                                                 *)
(*  - Kubernetes: namespaces appear and disappear; the master's event     *)
(*    queue holds one pending delta per namespace (RunEventQueue).         *)
(*  - an administrator writes Action/Namespace into a NetNamespace record  *)
(*    (the write-then-clear protocol, spec 4.G);                           *)
(*  - the master's Namespace handler (assignVNID / revokeVNID);            *)
(*  - the master's NetNamespace watcher goroutine (WatchNetNamespaces) and *)
(*    the handler goroutine (masterHandleNetnsEvent / updateVNID), joined  *)
(*    by an unbuffered channel;                                            *)
(*  - the process crashing and being restarted (populateVNIDs).            *)
(* Every masterVNIDMap method holds vmap.lock for its whole body, registry *)
(* write included, so each of them is one atomic step here.                *)
(***************************************************************************)
EXTENDS Naturals, Sequences, FiniteSets, FiniteSetsExt, SequencesExt

CONSTANTS
    Namespaces,        \* namespace names (model values)
    AdminNamespaces,   \* vmap.adminNamespaces (utils.SdnNamespace)
    MinVNID, MaxVNID,  \* vnid.MinVNID, vnid.MaxVNID
    Nil,               \* absent registry key / absent map entry
    None,              \* empty Namespace field of a NetNamespace
    MaxNsEvents,       \* bound: namespace creations + deletions in Kubernetes
    MaxActionWrites,   \* bound: Action writes by the administrator
    MaxRestarts,       \* bound: master process restarts
    MaxResets,         \* bound: watch falls out of etcd's history window
    WriteFailures,     \* may an etcd write return an error without applying?
    SelfJoin,          \* may the administrator write Join with its own name?
    AdminActions       \* may the administrator write Actions on admin namespaces?

ASSUME AdminNamespaces \subseteq Namespaces
ASSUME MinVNID \in Nat \ {0} /\ MaxVNID \in Nat /\ MinVNID <= MaxVNID
ASSUME {WriteFailures, SelfJoin, AdminActions} \subseteq BOOLEAN

\* vnid.GlobalVNID: the unisolated tenant, never taken from the allocator.
GlobalVNID == 0
VNIDRange == MinVNID..MaxVNID
NetIDs == {GlobalVNID} \cup VNIDRange

\* vnid.GlobalPodNetwork, JoinPodNetwork, IsolatePodNetwork; "" = no action.
Actions == {"", "global", "join", "isolate"}

NetNamespace == [netid: NetIDs, action: Actions, peer: Namespaces \cup {None}]

\* Raw etcd watch events (parseNetNamespaceWatchResponse). A delete event
\* carries only the full etcd key as NetName, so it names no namespace of
\* the watcher's list: its key field is Nil. Removed events of a snapshot
\* diff carry the cached record, hence a real key.
Event == [type: {"added"}, key: Namespaces, val: NetNamespace]
         \cup [type: {"removed"}, key: Namespaces \cup {Nil}]

VARIABLES
    kns,        \* namespaces that exist in Kubernetes
    nsQueue,    \* FIFO of namespaces with their newest delta (RunEventQueue)
    reg,        \* etcd <prefix>/<network>/netnamespaces/<name>
    wq,         \* etcd events after the watcher's cursor, not yet fetched
    wcache,     \* netnamespaceWatcher.netnss, keyed by NetName
    inflight,   \* batch sent on the unbuffered receiver channel
    handling,   \* rest of the batch masterHandleNetnsEvent is working on
    vmap,       \* masterVNIDMap: ids and the netIDManager bitmap
    budget      \* counters for the named bounds

vars == <<kns, nsQueue, reg, wq, wcache, inflight, handling, vmap, budget>>

-----------------------------------------------------------------------------
(* Helpers of masterVNIDMap and of the NetID allocator.                    *)

\* The outcomes of one etcd write: it may fail without being applied.
Outcomes == IF WriteFailures THEN BOOLEAN ELSE {TRUE}

\* getVNIDCount: the number of namespaces mapped to id.
VNIDCount(ids, id) == Quantify(Namespaces, LAMBDA n : ids[n] = id)

isAdminNamespace(n) == n \in AdminNamespaces

\* netIDManager.AllocateNext: the smallest free id of the range.
FreeIDs(m) == VNIDRange \ m.bitmap
AllocateNext(m) == Min(FreeIDs(m))

\* Mutant: releaseNetID without the getVNIDCount check, so an id shared by
\* joined namespaces is released when the first of them leaves it.
releaseNetIDNoCount(m, n) ==
    LET id   == m.ids[n]
        rest == [m.ids EXCEPT ![n] = Nil]
    IN  IF id = Nil THEN [ids |-> m.ids, bitmap |-> m.bitmap, ok |-> FALSE]
        ELSE [ids |-> rest, bitmap |-> m.bitmap \ {id}, ok |-> TRUE]

\* releaseNetID: unset the name, then release its id when nobody else uses
\* it. "ok" is FALSE when the name is unknown or Release fails; the entry
\* is unset in the latter case all the same.
releaseNetID(m, n) ==
    LET id   == m.ids[n]
        rest == [m.ids EXCEPT ![n] = Nil]
    IN  IF id = Nil THEN [ids |-> m.ids, bitmap |-> m.bitmap, ok |-> FALSE]
        ELSE IF id = GlobalVNID \/ VNIDCount(rest, id) > 0
             THEN [ids |-> rest, bitmap |-> m.bitmap, ok |-> TRUE]
        ELSE IF id \in m.bitmap
             THEN [ids |-> rest, bitmap |-> m.bitmap \ {id}, ok |-> TRUE]
        ELSE [ids |-> rest, bitmap |-> m.bitmap, ok |-> FALSE]

\* The map without the helper's result flag.
Map(r) == [ids |-> r.ids, bitmap |-> r.bitmap]

\* The event queue keeps a namespace's place while it has a delta queued
\* and replaces the delta by the newest one; others join the tail.
Enqueue(q, n, kind) ==
    LET d  == [ns |-> n, kind |-> kind]
        is == {i \in 1..Len(q) : q[i].ns = n}
    IN  IF is = {} THEN Append(q, d) ELSE [q EXCEPT ![Min(is)] = d]

Queued(q) == {q[i].ns : i \in 1..Len(q)}

\* Sync deltas for the given namespaces, in the order of a listing.
SyncDeltas(ns) ==
    {[i \in 1..Len(o) |-> [ns |-> o[i], kind |-> "sync"]] : o \in SetToSeqs(ns)}

AddedEvent(n, rec) == [type |-> "added", key |-> n, val |-> rec]
RawRemovedEvent == [type |-> "removed", key |-> Nil]

-----------------------------------------------------------------------------
\* A fresh cluster: etcd is empty and only the admin namespaces exist; the
\* reflector's first list queues them.
Init ==
    /\ kns = AdminNamespaces
    /\ nsQueue \in SyncDeltas(AdminNamespaces)
    /\ reg = [n \in Namespaces |-> Nil]
    /\ wq = <<>>
    /\ wcache = [n \in Namespaces |-> Nil]
    /\ inflight = <<>>
    /\ handling = <<>>
    /\ vmap = [ids |-> [n \in Namespaces |-> Nil], bitmap |-> {}]
    /\ budget = [ns |-> 0, act |-> 0, restart |-> 0, reset |-> 0]

-----------------------------------------------------------------------------
(* Environment: Kubernetes namespaces and the administrator.               *)

\* A namespace is created; its queued delta becomes Added.
CreateNamespace(n) ==
    /\ n \notin kns
    /\ budget.ns < MaxNsEvents
    /\ kns' = kns \cup {n}
    /\ nsQueue' = Enqueue(nsQueue, n, "sync")
    /\ budget' = [budget EXCEPT !.ns = @ + 1]
    /\ UNCHANGED <<reg, wq, wcache, inflight, handling, vmap>>

\* A namespace is deleted; its queued delta becomes Deleted.
DeleteNamespace(n) ==
    /\ n \in kns
    /\ budget.ns < MaxNsEvents
    /\ kns' = kns \ {n}
    /\ nsQueue' = Enqueue(nsQueue, n, "deleted")
    /\ budget' = [budget EXCEPT !.ns = @ + 1]
    /\ UNCHANGED <<reg, wq, wcache, inflight, handling, vmap>>

\* The reflector's relist (every 30 minutes) re-delivers every existing
\* namespace that has no delta queued.
Relist ==
    /\ \E ds \in SyncDeltas(kns \ Queued(nsQueue)) : nsQueue' = nsQueue \o ds
    /\ UNCHANGED <<kns, reg, wq, wcache, inflight, handling, vmap, budget>>

\* The administrator sets Action (and Namespace for Join) on a record,
\* keeping its NetID: a read-modify-write of the etcd key.
WriteAction(n, act, peer) ==
    /\ reg[n] # Nil
    /\ budget.act < MaxActionWrites
    /\ act # ""
    /\ (act = "join") = (peer # None)
    /\ SelfJoin \/ peer # n
    /\ AdminActions \/ ~isAdminNamespace(n)
    /\ LET rec == [reg[n] EXCEPT !.action = act, !.peer = peer]
       IN  /\ reg' = [reg EXCEPT ![n] = rec]
           /\ wq' = Append(wq, AddedEvent(n, rec))
    /\ budget' = [budget EXCEPT !.act = @ + 1]
    /\ UNCHANGED <<kns, nsQueue, wcache, inflight, handling, vmap>>

-----------------------------------------------------------------------------
(* The master's Namespace handler (watchNamespaces).                       *)

\* allocateNetID: the existing id if the name is mapped ("exists"), else 0
\* for an admin namespace or the next free id, set in the map. "ok" is
\* FALSE when AllocateNext is exhausted.
allocateNetID(m, n) ==
    LET admin == isAdminNamespace(n)
        id    == IF admin THEN GlobalVNID ELSE AllocateNext(m)
    IN  IF m.ids[n] # Nil
        THEN [ids |-> m.ids, bitmap |-> m.bitmap, id |-> m.ids[n],
              exists |-> TRUE, ok |-> TRUE]
        ELSE IF ~admin /\ FreeIDs(m) = {}
        THEN [ids |-> m.ids, bitmap |-> m.bitmap, id |-> Nil,
              exists |-> FALSE, ok |-> FALSE]
        ELSE [ids |-> [m.ids EXCEPT ![n] = id],
              bitmap |-> IF admin THEN m.bitmap ELSE m.bitmap \cup {id},
              id |-> id, exists |-> FALSE, ok |-> TRUE]

\* createNetNamespace: an etcd Set with PrevNoExist, which fails when the
\* key exists; ok is the outcome of the request itself.
CreateSucceeds(n, ok) == ok /\ reg[n] = Nil

\* deleteNetNamespace: an etcd Delete, which fails when the key is absent.
DeleteSucceeds(n, ok) == ok /\ reg[n] # Nil

\* assignVNID: allocateNetID, then create the NetNamespace unless the name
\* was already mapped; on a failed create the id is given back with
\* releaseNetID.
assignVNID(n) ==
    LET a   == allocateNetID(vmap, n)
        rec == [netid |-> a.id, action |-> "", peer |-> None]
    IN  IF ~a.ok \/ a.exists
        THEN UNCHANGED <<vmap, reg, wq>>
        ELSE \E ok \in Outcomes :
               IF CreateSucceeds(n, ok)
               THEN /\ vmap' = Map(a)
                    /\ reg' = [reg EXCEPT ![n] = rec]
                    /\ wq' = Append(wq, AddedEvent(n, rec))
               ELSE /\ vmap' = Map(releaseNetID(Map(a), n))
                    /\ UNCHANGED <<reg, wq>>

\* Mutant: revokeVNID that only releases the id and never deletes the
\* NetNamespace from etcd.
revokeVNIDMemoryOnly(n) ==
    /\ vmap' = Map(releaseNetID(vmap, n))
    /\ UNCHANGED <<reg, wq>>

\* revokeVNID: delete the NetNamespace, then releaseNetID. A failed delete
\* (error, or the key is already gone) returns before the release.
revokeVNID(n) ==
    \E ok \in Outcomes :
        IF DeleteSucceeds(n, ok)
        THEN /\ reg' = [reg EXCEPT ![n] = Nil]
             /\ wq' = Append(wq, RawRemovedEvent)
             /\ vmap' = Map(releaseNetID(vmap, n))
        ELSE UNCHANGED <<vmap, reg, wq>>

\* One delta popped from the event queue; on error the object's queued
\* changes are dropped, so the delta is consumed either way.
HandleNamespace ==
    /\ nsQueue # <<>>
    /\ LET n == Head(nsQueue).ns IN
       IF Head(nsQueue).kind = "sync" THEN assignVNID(n) ELSE revokeVNID(n)
    /\ nsQueue' = Tail(nsQueue)
    /\ UNCHANGED <<kns, wcache, inflight, handling, budget>>

-----------------------------------------------------------------------------
(* The master's NetNamespace watcher (WatchNetNamespaces, netnamespace-    *)
(* Watcher) and the handler goroutine (RunNetnsWatch) that receives its    *)
(* batches on an unbuffered channel.                                       *)

\* netnamespaceWatcher.reset: diff a snapshot against the cached list.
\* Keys absent from the cache become Added, cached keys absent from the
\* snapshot become Removed; a key in both yields no event, whatever its
\* value. The batch lists the Added events in the snapshot's (unspecified)
\* order, then the Removed ones.
ResetBatches(snap, cache) ==
    LET added   == {k \in Namespaces : snap[k] # Nil /\ cache[k] = Nil}
        removed == {k \in Namespaces : cache[k] # Nil /\ snap[k] = Nil}
    IN  {[i \in 1..Len(a) |-> AddedEvent(a[i], snap[a[i]])]
           \o [i \in 1..Len(r) |-> [type |-> "removed", key |-> r[i]]] :
            a \in SetToSeqs(added), r \in SetToSeqs(removed)}

\* netnamespaceWatcher.add upserts by NetName; remove looks the raw event's
\* NetName (the full etcd key) up in the list, never finds it, and leaves
\* the list unchanged.
CacheUpdate(cache, e) ==
    IF e.type = "added" THEN [cache EXCEPT ![e.key] = e.val] ELSE cache

\* Mutant: the cursor is advanced one index too far (AfterIndex off by
\* one), so the event after each fetched one is skipped.
WatcherFetchSkipNext ==
    /\ inflight = <<>>
    /\ wq # <<>>
    /\ wcache' = CacheUpdate(wcache, Head(wq))
    /\ inflight' = <<Head(wq)>>
    /\ wq' = IF Len(wq) > 1 THEN Tail(Tail(wq)) ELSE Tail(wq)
    /\ UNCHANGED <<kns, nsQueue, reg, handling, vmap, budget>>

\* A watch returns the next event after the cursor; the watcher updates its
\* list and blocks sending the one-event batch until the handler takes it.
WatcherFetch ==
    /\ inflight = <<>>
    /\ wq # <<>>
    /\ wcache' = CacheUpdate(wcache, Head(wq))
    /\ inflight' = <<Head(wq)>>
    /\ wq' = Tail(wq)
    /\ UNCHANGED <<kns, nsQueue, reg, handling, vmap, budget>>

\* The cursor fell out of etcd's history window (EventIndexCleared): the
\* events after it are lost, the watcher lists the directory and sends the
\* diff against its cached list, if non-empty.
\* Writes elsewhere in etcd also move its history window, so the cursor
\* may be cleared while no event of this directory is pending.
WatcherReset ==
    /\ inflight = <<>>
    /\ budget.reset < MaxResets
    /\ wq' = <<>>
    /\ \E b \in ResetBatches(reg, wcache) : inflight' = b
    /\ wcache' = reg
    /\ budget' = [budget EXCEPT !.reset = @ + 1]
    /\ UNCHANGED <<kns, nsQueue, reg, handling, vmap>>

\* The handler goroutine receives a batch once it is done with the last.
HandlerReceive ==
    /\ handling = <<>>
    /\ inflight # <<>>
    /\ handling' = inflight
    /\ inflight' = <<>>
    /\ UNCHANGED <<kns, nsQueue, reg, wq, wcache, vmap, budget>>

\* Mutant: updateVNID persists the event's record without setting
\* netns.NetID, i.e. with the NetID etcd already holds.
RenewNetNamespaceStaleID(n, id) ==
    LET rec == [netid |-> reg[n].netid, action |-> "", peer |-> None]
    IN  /\ reg' = [reg EXCEPT ![n] = rec]
        /\ wq' = Append(wq, AddedEvent(n, rec))

\* RenewNetNamespace: an unconditional Set of the record with the new id
\* and Action and Namespace cleared.
RenewNetNamespace(n, id) ==
    LET rec == [netid |-> id, action |-> "", peer |-> None]
    IN  \E ok \in Outcomes :
            IF ok THEN /\ reg' = [reg EXCEPT ![n] = rec]
                       /\ wq' = Append(wq, AddedEvent(n, rec))
                  ELSE UNCHANGED <<reg, wq>>

\* updateVNID: updateNetID on the in-memory map, then RenewNetNamespace.
\* updateNetID returns early, map untouched, when the name or the Join peer
\* is unknown, when AllocateNext fails, and (returning the old id, which is
\* then persisted) when an Isolate finds the namespace already alone.
updateVNID(n, rec) ==
    LET old   == vmap.ids[n]
        act   == rec.action
        alone == VNIDCount(vmap.ids, old) = 1
    IN
    \/ /\ \/ old = Nil
          \/ act = "join" /\ vmap.ids[rec.peer] = Nil
          \/ act = "isolate" /\ ~alone /\ FreeIDs(vmap) = {}
       /\ UNCHANGED <<vmap, reg, wq>>
    \/ /\ old # Nil /\ act = "isolate" /\ alone
       /\ RenewNetNamespace(n, old)
       /\ UNCHANGED vmap
    \/ /\ old # Nil
       /\ \/ act = "global"
          \/ act = "join" /\ vmap.ids[rec.peer] # Nil
          \/ act = "isolate" /\ ~alone /\ FreeIDs(vmap) # {}
       /\ LET allocated == act = "isolate"
              new == CASE act = "global"  -> GlobalVNID
                       [] act = "join"    -> vmap.ids[rec.peer]
                       [] act = "isolate" -> AllocateNext(vmap)
              m1  == [ids |-> vmap.ids,
                      bitmap |-> IF allocated THEN vmap.bitmap \cup {new}
                                 ELSE vmap.bitmap]
              r   == releaseNetID(m1, n)
          IN  IF r.ok
              THEN /\ vmap' = [ids |-> [r.ids EXCEPT ![n] = new],
                               bitmap |-> r.bitmap]
                   /\ RenewNetNamespace(n, new)
              ELSE /\ vmap' = [ids |-> r.ids,
                               bitmap |-> IF allocated THEN r.bitmap \ {new}
                                          ELSE r.bitmap]
                   /\ UNCHANGED <<reg, wq>>

\* masterHandleNetnsEvent, one event of the batch: only an Added event with
\* a non-empty Action means anything to the master.
HandleNetnsEvent ==
    /\ handling # <<>>
    /\ LET e == Head(handling)
       IN  IF e.type = "added" /\ e.val.action # ""
           THEN updateVNID(e.key, e.val)
           ELSE UNCHANGED <<vmap, reg, wq>>
    /\ handling' = Tail(handling)
    /\ UNCHANGED <<kns, nsQueue, wcache, inflight, budget>>

-----------------------------------------------------------------------------
(* The master process restarts: memory is lost, populateVNIDs rebuilds the *)
(* map from a listing, the event queue is refilled by the reflector's      *)
(* first list, and the new watcher starts from a nil cursor, i.e. a reset  *)
(* against an empty list.                                                  *)

\* Mutant: populateVNIDs without the GlobalVNID skip, so 0 is allocated.
populateVNIDsKeepsGlobal ==
    [ids |-> [n \in Namespaces |-> IF reg[n] = Nil THEN Nil ELSE reg[n].netid],
     bitmap |-> {reg[n].netid : n \in {k \in Namespaces : reg[k] # Nil}}]

populateVNIDs ==
    [ids |-> [n \in Namespaces |-> IF reg[n] = Nil THEN Nil ELSE reg[n].netid],
     bitmap |-> {reg[n].netid : n \in {k \in Namespaces : reg[k] # Nil}}
                    \ {GlobalVNID}]

MasterRestart ==
    /\ budget.restart < MaxRestarts
    /\ vmap' = populateVNIDs
    /\ nsQueue' \in SyncDeltas(kns)
    /\ wq' = <<>>
    /\ \E b \in ResetBatches(reg, [n \in Namespaces |-> Nil]) : inflight' = b
    /\ wcache' = reg
    /\ handling' = <<>>
    /\ budget' = [budget EXCEPT !.restart = @ + 1]
    /\ UNCHANGED <<kns, reg>>

-----------------------------------------------------------------------------
Next ==
    \/ \E n \in Namespaces :
          \/ CreateNamespace(n)
          \/ DeleteNamespace(n)
          \/ \E act \in Actions, peer \in Namespaces \cup {None} :
                WriteAction(n, act, peer)
    \/ HandleNamespace
    \/ Relist
    \/ WatcherFetch
    \/ WatcherReset
    \/ HandlerReceive
    \/ HandleNetnsEvent
    \/ MasterRestart

\* The handlers and the watcher run in goroutines started with
\* utilwait.Forever and never give up on an available event.
Fairness ==
    /\ WF_vars(HandleNamespace)
    /\ WF_vars(WatcherFetch)
    /\ WF_vars(HandlerReceive)
    /\ WF_vars(HandleNetnsEvent)

Spec == Init /\ [][Next]_vars /\ Fairness

-----------------------------------------------------------------------------
(* Properties                                                              *)

TypeOK ==
    /\ kns \subseteq Namespaces
    /\ nsQueue \in Seq([ns: Namespaces, kind: {"sync", "deleted"}])
    /\ Len(nsQueue) <= Cardinality(Namespaces)
    /\ reg \in [Namespaces -> NetNamespace \cup {Nil}]
    /\ wq \in Seq(Event)
    /\ wcache \in [Namespaces -> NetNamespace \cup {Nil}]
    /\ inflight \in Seq(Event) /\ handling \in Seq(Event)
    /\ vmap \in [ids: [Namespaces -> NetIDs \cup {Nil}],
                 bitmap: SUBSET VNIDRange]

\* Spec 8.2, the reference count of NetIDs as seen in etcd: every id the
\* master's allocator holds is the NetID of some NetNamespace, and every
\* non-global NetID of a NetNamespace is held by the allocator, so that
\* AllocateNext (assignVNID, Isolate in updateNetID) never hands out an id
\* a live tenant still uses. releaseNetID's count check, Join and Isolate
\* in updateNetID, and populateVNIDs after a restart must all keep it.
NetIDRefCount ==
    /\ \A id \in vmap.bitmap : \E n \in Namespaces :
          reg[n] # Nil /\ reg[n].netid = id
    /\ \A n \in Namespaces :
          reg[n] # Nil /\ reg[n].netid # GlobalVNID
             => reg[n].netid \in vmap.bitmap

\* The master's vnid map and etcd name the same namespaces with the same
\* NetIDs: assignVNID, revokeVNID and updateVNID change memory and etcd
\* together, the administrator's writes keep NetID, and a restart rebuilds
\* the map from etcd. Node-side VNID caches are fed from etcd, so a
\* difference here is a tenant the master and the nodes disagree on.
RegistryMatchesMaster ==
    \A n \in Namespaces :
        /\ (reg[n] = Nil) = (vmap.ids[n] = Nil)
        /\ reg[n] # Nil => reg[n].netid = vmap.ids[n]

\* Spec 3, NetNamespace invariant (iii): an admin namespace always has the
\* global NetID 0, in etcd and in the master's map. allocateNetID gives it
\* GlobalVNID, populateVNIDs keeps it, and updateVNID must not move it.
AdminIsGlobal ==
    \A n \in AdminNamespaces :
        /\ vmap.ids[n] \in {Nil, GlobalVNID}
        /\ reg[n] # Nil => reg[n].netid = GlobalVNID

\* The write-then-clear protocol (spec 4.G): a Global or Isolate Action
\* written into a NetNamespace is eventually applied and cleared by the
\* master (or the namespace is deleted). It needs the watcher to deliver
\* the write and updateVNID to persist the cleared record.
ActionEventuallyCleared ==
    \A n \in Namespaces :
        (reg[n] # Nil /\ reg[n].action \in {"global", "isolate"})
            ~> (reg[n] = Nil \/ reg[n].action = "")

\* A NetNamespace keeps its NetID until the master applies an Action
\* written into that very record (spec 4.G: the NetID changes only through
\* the write-then-clear protocol), whatever the batch the handler is
\* working on says: updateVNID takes the Action from the watch event, not
\* from etcd, and RenewNetNamespace is an unconditional Set.
NetIDChangesOnlyByAction ==
    [][\A n \in Namespaces :
         reg[n] # Nil /\ reg'[n] # Nil /\ reg'[n].netid # reg[n].netid
             => reg[n].action # ""]_reg

\* Once Kubernetes stops changing namespaces, etcd holds a NetNamespace
\* exactly for the namespaces that exist: assignVNID creates them and
\* revokeVNID deletes them, through the event queue and any restart.
NamespacesConverge ==
    \A n \in Namespaces : <>[]((n \in kns) = (reg[n] # Nil))

=============================================================================
