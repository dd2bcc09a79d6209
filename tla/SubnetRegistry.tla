--------------------------- MODULE SubnetRegistry ---------------------------
(***************************************************************************)
(* What the etcd subnets directory promises to one subnet watcher: the     *)
(* abstract specification of the registry (spec 4.D) as the HostSubnet     *)
(* writers use it.                                                         *)
(*  - reg: the records, keyed by HostIP.                                   *)
(*  - wq:  the events after the watcher's cursor, in etcd index order.     *)
(* Every change of a key is one etcd write and is appended to the watch    *)
(* as its event: a set as EventAdded with the whole record, a delete as    *)
(* EventRemoved carrying only the key (parseSubnetWatchResponse). No write *)
(* gives a subnet that another HostSubnet holds (spec 3, invariant ii),   *)
(* and no set changes the subnet of a live key.                           *)
(* The watch hands events out in order, or its history is cleared and the *)
(* watcher starts again from a listing (EventIndexCleared).               *)
(*                                                                         *)
(* MasterSubnet is checked to implement this specification; NodeSubnet    *)
(* uses it as the node's environment.                                     *)
(***************************************************************************)
EXTENDS Sequences, SequencesExt, SubnetWatcher

CONSTANTS
    IPs,        \* HostIPs, the keys of the directory
    Records,    \* the HostSubnet records a writer may store
    Nil         \* an absent key, or a field a key-only record lacks

VARIABLES reg, wq

\* A record decoded from a delete event: only the key, no node fields.
KeyOnly == [host |-> Nil, ip |-> Nil, subnet |-> Nil, assign |-> FALSE]

Live == {ip \in IPs : reg[ip] # Nil}

\* getSubnets: the listing of the directory, in any order.
Snapshots == SetToSeqs({reg[ip] : ip \in Live})

\* No other key holds subnet s.
SubnetFree(ip, s) == s = Nil \/ \A o \in Live \ {ip} : reg[o].subnet # s

\* A set of a live key keeps its subnet (RenewSubnet writes back the
\* record it read); only a create gives a key a subnet, or a set of a
\* record that has none yet (an Assign=true request).
KeepsSubnet(ip, s) == reg[ip] # Nil => reg[ip].subnet \in {s, Nil}

Init ==
    /\ reg = [ip \in IPs |-> Nil]
    /\ wq = <<>>

\* A create or a set of the key ip.
Write(ip, rec) ==
    /\ rec \in Records
    /\ rec.ip = ip
    /\ SubnetFree(ip, rec.subnet)
    /\ KeepsSubnet(ip, rec.subnet)
    /\ reg' = [reg EXCEPT ![ip] = rec]
    /\ wq' = Append(wq, Added(rec))

\* A delete of an existing key.
Delete(ip) ==
    /\ reg[ip] # Nil
    /\ reg' = [reg EXCEPT ![ip] = Nil]
    /\ wq' = Append(wq, Removed(KeyOnly))

\* The watcher takes the next event.
Deliver ==
    /\ wq # <<>>
    /\ wq' = Tail(wq)
    /\ UNCHANGED reg

\* The watcher's cursor leaves etcd's history, or a new watcher starts
\* without one: it continues after the current index.
Compact ==
    /\ wq' = <<>>
    /\ UNCHANGED reg

Next ==
    \/ \E ip \in IPs, rec \in Records : Write(ip, rec)
    \/ \E ip \in IPs : Delete(ip)
    \/ Deliver
    \/ Compact

Spec == Init /\ [][Next]_<<reg, wq>>

=============================================================================
