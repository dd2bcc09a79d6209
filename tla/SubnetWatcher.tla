---------------------------- MODULE SubnetWatcher ----------------------------
(***************************************************************************)
(* subnetWatcher (src/pkg/etcdmanager/watch.go): the list cache that turns *)
(* raw etcd subnet events, or a listing after the watch fell behind, into  *)
(* the EventAdded/EventRemoved batches handed to a handler. The master and *)
(* every node run the same watcher, so both MasterSubnet and NodeSubnet    *)
(* use these operators. A record is [host, ip, subnet, assign]; the cache  *)
(* is a sequence, compared by Host as the code does.                       *)
(***************************************************************************)
EXTENDS Naturals, Sequences, FiniteSetsExt

Added(s) == [type |-> "added", sub |-> s]
Removed(s) == [type |-> "removed", sub |-> s]

\* deleteSubnet: swap the i-th element with the last and drop the last.
DeleteAt(s, i) == SubSeq([s EXCEPT ![i] = s[Len(s)]], 1, Len(s) - 1)

\* The first index of a list entry with the given Host, or 0.
IndexOfHost(l, h) ==
    LET is == {i \in 1..Len(l) : l[i].host = h} IN IF is = {} THEN 0 ELSE Min(is)

\* Mutant: add appends without looking the Host up.
CacheAddAlwaysAppend(c, sub) == Append(c, sub)

\* add: replace the first cached subnet with the same Host, else append.
CacheAdd(c, sub) ==
    LET i == IndexOfHost(c, sub.host)
    IN  IF i = 0 THEN Append(c, sub) ELSE [c EXCEPT ![i] = sub]

\* remove: drop the first cached subnet with the same Host and report it;
\* if there is none, report the event's own record.
CacheRemove(c, sub) ==
    LET i == IndexOfHost(c, sub.host)
    IN  IF i = 0 THEN [cache |-> c, ev |-> Removed(sub)]
                 ELSE [cache |-> DeleteAt(c, i), ev |-> Removed(c[i])]

\* Mutant: update handles every event as EventAdded.
CacheUpdateAddsAll(c, e) == [cache |-> CacheAdd(c, e.sub), ev |-> Added(e.sub)]

\* update of one watch event.
CacheUpdate(c, e) ==
    IF e.type = "added" THEN [cache |-> CacheAdd(c, e.sub), ev |-> Added(e.sub)]
                        ELSE CacheRemove(c, e.sub)

\* Mutant: reset finds the cached entry but does not delete it from the list.
RECURSIVE ResetScanKeepsCached(_, _, _)
ResetScanKeepsCached(snap, c, batch) ==
    IF snap = <<>> THEN [cache |-> c, batch |-> batch]
    ELSE IF IndexOfHost(c, Head(snap).host) = 0
         THEN ResetScanKeepsCached(Tail(snap), c, Append(batch, Added(Head(snap))))
         ELSE ResetScanKeepsCached(Tail(snap), c, batch)

\* reset: each snapshot subnet whose Host is cached consumes that entry,
\* the others are Added; what is left of the cache is Removed.
RECURSIVE ResetScan(_, _, _)
ResetScan(snap, c, batch) ==
    IF snap = <<>> THEN [cache |-> c, batch |-> batch]
    ELSE LET i == IndexOfHost(c, Head(snap).host)
         IN  IF i = 0 THEN ResetScan(Tail(snap), c, Append(batch, Added(Head(snap))))
                      ELSE ResetScan(Tail(snap), DeleteAt(c, i), batch)

ResetBatch(snap, c) ==
    LET r == ResetScan(snap, c, <<>>)
    IN  r.batch \o [i \in 1..Len(r.cache) |-> Removed(r.cache[i])]

=============================================================================
