----------------------------- MODULE PodManager -----------------------------
(***************************************************************************)
(* The node's CNI request serialiser (src/ksdn/pod.go, pod_linux.go) and   *)
(* the end of StartNode that drives it (src/ksdn/node.go).                  *)
(* Kubelet's CNI calls, and the UpdatePod calls StartNode makes after the   *)
(* bridge was re-created, are sent on one channel and handled by a single  *)
(* worker, processCNIRequests, one request at a time. The worker is the    *)
(* only writer of the host-local IPAM store and of the pod flows (tables   *)
(* 2, 6 and 7), so each request is one step: its handler (setup, update or *)
(* teardown) with every failure point it can stop at, and its reply.       *)
(*   lease: host-local's store on disk, pod IP -> container.               *)
(*   flows: the per-pod flows the k8s-sdn-ovs script writes, keyed by the  *)
(*          pod IP (nw_dst) as the spec's tables 6 and 7 are.              *)
(*   veth:  the address of the container side of the pod's veth, or Nil.   *)
(* A pod has one sandbox; its container id is the pod. The single-tenant   *)
(* plugin is modelled: the VNID is always 0 and is left out.               *)
(***************************************************************************)
EXTENDS Naturals, Sequences, FiniteSets, SequencesExt

CONSTANTS
    Pods,         \* pods of this node (model values)
    PodIPs,       \* the addresses of the node's subnet host-local hands out
    Nil,
    AddFailAt,    \* steps of setup that may fail: "config", "ipam", "veth", "script"
    RollbackFails, \* may setup's deferred ipamDel fail?
    TeardownFails, \* may teardown's script or its ipamDel fail?
    UpdateFails,  \* may update's getPodConfig or script fail?
    StatusLag,    \* may the API phase stay Pending after a successful ADD?
    MaxFailures,  \* bound: injected failures
    MaxRestarts,  \* bound: node process restarts
    MaxNetnsLoss, \* bound: sandboxes whose netns vanishes before DEL
    MaxRecreates  \* bound: new sandboxes for pods whose sandbox was removed

ASSUME AddFailAt \subseteq {"config", "ipam", "veth", "script"}
ASSUME {RollbackFails, TeardownFails, UpdateFails, StatusLag} \subseteq BOOLEAN

Results == {"ok", "err"}
Request == [cmd: {"ADD", "UPDATE", "DEL"}, pod: Pods]

VARIABLES
    kubelet,    \* kubelet's view of each sandbox (see Kubelet* below)
    running,    \* the pod's API phase is Running
    netns,      \* the sandbox's network namespace exists
    veth,       \* the address configured on the container's eth0, or Nil
    requests,   \* podManager.requests
    reply,      \* the Result of a kubelet call, not yet read
    nodeReply,  \* the Result of StartNode's UpdatePod call, not yet read
    lease,      \* host-local IPAM: pod IP -> container
    flows,      \* pod flows: pod IP -> the pod they deliver to
    phase,      \* "down" or "running": the node process
    toUpdate,   \* pods StartNode still has to UpdatePod
    ready,      \* podNetworkReady has been closed
    setUp,      \* br0 has the version flow and tun0 the local gateway (alreadySetUp)
    budget

vars == <<kubelet, running, netns, veth, requests, reply, nodeReply,
          lease, flows, phase, toUpdate, ready, setUp, budget>>

-----------------------------------------------------------------------------
(* Helpers of the handlers.                                                *)

\* The outcomes of a call that may fail when `enabled`, after n failures
\* earlier in the same request (TRUE: it succeeds).
Outcomes(enabled, n) ==
    IF enabled /\ budget.fail + n < MaxFailures THEN BOOLEAN ELSE {TRUE}

FreeIPs == {ip \in PodIPs : lease[ip] = Nil}

\* Mutant: host-local's release ignores the container id.
ipamDelAll(l, p) == [ip \in PodIPs |-> Nil]

\* ipamDel(id): host-local releases every address held by the container id.
ipamDel(l, p) == [ip \in PodIPs |-> IF l[ip] = p THEN Nil ELSE l[ip]]

\* getVethInfo: the netns exists and its eth0 carries an address.
getVethInfo(p) == netns[p] /\ veth[p] \in PodIPs

\* processCNIRequests: pop the request and send its result to the caller.
Respond(r, res) ==
    /\ requests' = Tail(requests)
    /\ IF r.cmd = "UPDATE"
       THEN nodeReply' = res /\ UNCHANGED reply
       ELSE reply' = [reply EXCEPT ![r.pod] = res] /\ UNCHANGED nodeReply

\* handleCNIRequest / addRequest: the caller sends on the channel.
Send(cmd, p) == requests' = Append(requests, [cmd |-> cmd, pod |-> p])

CountFailure(n) == budget' = [budget EXCEPT !.fail = @ + n]

-----------------------------------------------------------------------------
Init ==
    /\ kubelet = [p \in Pods |-> "new"]
    /\ running = [p \in Pods |-> FALSE]
    /\ netns = [p \in Pods |-> FALSE]
    /\ veth = [p \in Pods |-> Nil]
    /\ requests = <<>>
    /\ reply = [p \in Pods |-> Nil]
    /\ nodeReply = Nil
    /\ lease = [ip \in PodIPs |-> Nil]
    /\ flows = [ip \in PodIPs |-> Nil]
    /\ phase = "down"
    /\ toUpdate = <<>>
    /\ ready = FALSE
    /\ setUp = FALSE
    /\ budget = [fail |-> 0, restart |-> 0, loss |-> 0, sandbox |-> 0]

-----------------------------------------------------------------------------
(* The worker: processCNIRequests and the handler of the request's command. *)

\* setup (CNI_ADD). getPodConfig and ipamAdd fail before anything is
\* allocated; ipamAdd also fails when the subnet has no free address. After
\* ipamAdd, SetupVeth/ConfigureIface may fail before eth0 has its address,
\* or the script may fail after it; the deferred ipamDel then releases the
\* lease, unless it fails too. On success the script adds the pod's flows.
ProcessAdd ==
    /\ phase = "running"
    /\ requests # <<>>
    /\ Head(requests).cmd = "ADD"
    /\ LET r == Head(requests)
           p == r.pod
       IN
       \/ /\ \/ \E ok \in Outcomes(AddFailAt \cap {"config", "ipam"} # {}, 0) :
                    ~ok /\ CountFailure(1)
             \/ FreeIPs = {} /\ UNCHANGED budget
          /\ Respond(r, "err")
          /\ UNCHANGED <<veth, lease, flows>>
       \/ \E ip \in FreeIPs :
            \/ /\ veth' = [veth EXCEPT ![p] = ip]
               /\ lease' = [lease EXCEPT ![ip] = p]
               /\ flows' = [flows EXCEPT ![ip] = p]
               /\ Respond(r, "ok")
               /\ UNCHANGED budget
            \/ \E at \in AddFailAt \cap {"veth", "script"},
                  rollbackOk \in Outcomes(RollbackFails, 1) :
                 /\ budget.fail < MaxFailures
                 /\ veth' = [veth EXCEPT ![p] = IF at = "script" THEN ip ELSE Nil]
                 /\ lease' = IF rollbackOk THEN lease ELSE [lease EXCEPT ![ip] = p]
                 /\ Respond(r, "err")
                 /\ CountFailure(IF rollbackOk THEN 1 ELSE 2)
                 /\ UNCHANGED flows
    /\ UNCHANGED <<kubelet, running, netns, phase, toUpdate, ready, setUp>>

\* update (CNI_UPDATE, from UpdatePod, without a netns): the netns path is
\* read from docker, then getPodConfig, getVethInfo and the script, which
\* rewrites the flows of the address on eth0. A missing sandbox or eth0
\* without an address is an error. getPodConfig's read of the pod succeeds
\* while the sandbox exists: a deleted pod's API object stays until kubelet
\* has torn its sandbox down (graceful deletion); UpdateFails covers its
\* transient errors.
ProcessUpdate ==
    /\ phase = "running"
    /\ requests # <<>>
    /\ Head(requests).cmd = "UPDATE"
    /\ LET r == Head(requests)
           p == r.pod
       IN
       \/ /\ ~getVethInfo(p)
          /\ Respond(r, "err")
          /\ UNCHANGED <<flows, budget>>
       \/ /\ getVethInfo(p)
          /\ \E ok \in Outcomes(UpdateFails, 0) :
               /\ flows' = IF ok THEN [flows EXCEPT ![veth[p]] = p] ELSE flows
               /\ Respond(r, IF ok THEN "ok" ELSE "err")
               /\ CountFailure(IF ok THEN 0 ELSE 1)
    /\ UNCHANGED <<kubelet, running, netns, veth, lease, phase, toUpdate, ready,
                   setUp>>

\* Mutant: teardown returns on any IsNSorErr error, a vanished netns too.
ProcessDelNeedsNetns ==
    /\ phase = "running"
    /\ requests # <<>>
    /\ Head(requests).cmd = "DEL"
    /\ LET r == Head(requests)
           p == r.pod
       IN
       \/ /\ ~getVethInfo(p)
          /\ Respond(r, "err")
          /\ UNCHANGED <<lease, flows, budget>>
       \/ /\ getVethInfo(p)
          /\ \E scriptOk, ipamOk \in Outcomes(TeardownFails, 0) :
               /\ flows' = IF scriptOk THEN [flows EXCEPT ![veth[p]] = Nil] ELSE flows
               /\ lease' = IF scriptOk /\ ipamOk THEN ipamDel(lease, p) ELSE lease
               /\ Respond(r, IF scriptOk /\ ipamOk THEN "ok" ELSE "err")
               /\ CountFailure(IF scriptOk /\ ipamOk THEN 0 ELSE 1)
    /\ UNCHANGED <<kubelet, running, netns, veth, phase, toUpdate, ready, setUp>>

\* teardown (CNI_DEL). If the netns is gone, only ipamDel runs. Otherwise
\* getVethInfo must succeed, then the script deletes the flows of the
\* address on eth0 (any VNID); an error of either returns before ipamDel.
ProcessDel ==
    /\ phase = "running"
    /\ requests # <<>>
    /\ Head(requests).cmd = "DEL"
    /\ LET r == Head(requests)
           p == r.pod
           netnsValid == netns[p]
       IN
       \/ /\ netnsValid
          /\ ~getVethInfo(p)
          /\ Respond(r, "err")
          /\ UNCHANGED <<lease, flows, budget>>
       \/ /\ netnsValid => getVethInfo(p)
          /\ \E scriptOk \in IF netnsValid THEN Outcomes(TeardownFails, 0) ELSE {TRUE},
                ipamOk \in Outcomes(TeardownFails, 0) :
               LET done == scriptOk /\ ipamOk IN
               /\ flows' = IF netnsValid /\ scriptOk
                           THEN [flows EXCEPT ![veth[p]] = Nil] ELSE flows
               /\ lease' = IF done THEN ipamDel(lease, p) ELSE lease
               /\ Respond(r, IF done THEN "ok" ELSE "err")
               /\ CountFailure(IF done THEN 0 ELSE 1)
    /\ UNCHANGED <<kubelet, running, netns, veth, phase, toUpdate, ready, setUp>>

-----------------------------------------------------------------------------
(* The node process: StartNode from podManager.Start on.                   *)

\* GetLocalPods: the node's pods whose API phase is Running.
GetLocalPods == {p \in Pods : running[p]}

\* SetupSDN's result: FALSE when alreadySetUp finds the version flow of
\* this build and tun0's gateway and route; otherwise br0 is re-created
\* (without any pod flow) and the version flow is written last.
networkChanged == ~setUp

\* SetupSDN, podManager.Start, then, if br0 was re-created, an UpdatePod
\* for every running pod, one after the other, and at last
\* markPodNetworkReady. Whether the pass is done is kept nowhere: once the
\* version flow is written, a restarted node finds br0 set up.
NodeStart ==
    /\ phase = "down"
    /\ flows' = IF networkChanged THEN [ip \in PodIPs |-> Nil] ELSE flows
    /\ toUpdate' \in IF networkChanged THEN SetToSeqs(GetLocalPods) ELSE {<<>>}
    /\ setUp' = TRUE
    /\ ready' = (toUpdate' = <<>>)
    /\ phase' = "running"
    /\ UNCHANGED <<kubelet, running, netns, veth, requests, reply, nodeReply,
                   lease, budget>>

\* UpdatePod: send CNI_UPDATE for the next pod and wait for its result.
UpdatePod ==
    /\ phase = "running"
    /\ toUpdate # <<>>
    /\ nodeReply = Nil
    /\ Send("UPDATE", Head(toUpdate))
    /\ nodeReply' = "wait"
    /\ UNCHANGED <<kubelet, running, netns, veth, reply, lease, flows, phase,
                   toUpdate, ready, budget, setUp>>

\* The result is only logged; the loop goes on, and closes podNetworkReady
\* after the last pod.
UpdatePodDone ==
    /\ nodeReply \in Results
    /\ nodeReply' = Nil
    /\ toUpdate' = Tail(toUpdate)
    /\ ready' = (Tail(toUpdate) = <<>>)
    /\ UNCHANGED <<kubelet, running, netns, veth, requests, reply, lease,
                   flows, phase, budget, setUp>>

\* The node process exits: the channel and StartNode's loop are lost, and
\* every kubelet call in progress fails. IPAM leases (on disk), OVS flows
\* and the sandboxes survive. The new process may be an upgrade whose
\* VERSION differs from the version flow on br0 (spec S6).
NodeRestart ==
    /\ phase = "running"
    /\ budget.restart < MaxRestarts
    /\ phase' = "down"
    /\ requests' = <<>>
    /\ reply' = [p \in Pods |-> IF kubelet[p] \in {"adding", "deleting"}
                                THEN "err" ELSE reply[p]]
    /\ nodeReply' = Nil
    /\ toUpdate' = <<>>
    /\ ready' = FALSE
    /\ setUp' \in {setUp, FALSE}
    /\ budget' = [budget EXCEPT !.restart = @ + 1]
    /\ UNCHANGED <<kubelet, running, netns, veth, lease, flows>>

-----------------------------------------------------------------------------
(* Kubelet, the CNI client. kubelet[p]: "new"; "adding" (ADD in flight);   *)
(* "up"; "teardown" (the sandbox must be torn down); "deleting" (DEL in    *)
(* flight); "gone" (DEL succeeded and the sandbox was removed). A call can *)
(* only reach the pod manager while the node process serves the socket.    *)

\* A new pod's sandbox, or a new sandbox for a pod whose last one was torn
\* down and removed (a failed start is retried this way).
KubeletAdd(p) ==
    /\ phase = "running"
    /\ \/ kubelet[p] = "new" /\ UNCHANGED budget
       \/ /\ kubelet[p] = "gone"
          /\ budget.sandbox < MaxRecreates
          /\ budget' = [budget EXCEPT !.sandbox = @ + 1]
    /\ kubelet' = [kubelet EXCEPT ![p] = "adding"]
    /\ netns' = [netns EXCEPT ![p] = TRUE]
    /\ Send("ADD", p)
    /\ UNCHANGED <<running, veth, reply, nodeReply, lease, flows, phase,
                   toUpdate, ready, setUp>>

\* A failed ADD makes kubelet tear the sandbox down. Without a status lag
\* the API phase is Running as soon as the ADD returns.
KubeletAddDone(p) ==
    /\ kubelet[p] = "adding"
    /\ reply[p] \in Results
    /\ kubelet' = [kubelet EXCEPT ![p] = IF reply[p] = "ok" THEN "up" ELSE "teardown"]
    /\ running' = IF reply[p] = "ok" /\ ~StatusLag
                  THEN [running EXCEPT ![p] = TRUE] ELSE running
    /\ reply' = [reply EXCEPT ![p] = Nil]
    /\ UNCHANGED <<netns, veth, requests, nodeReply, lease, flows, phase,
                   toUpdate, ready, budget, setUp>>

\* The status manager reports the pod Running.
StatusSync(p) ==
    /\ kubelet[p] = "up"
    /\ ~running[p]
    /\ running' = [running EXCEPT ![p] = TRUE]
    /\ UNCHANGED <<kubelet, netns, veth, requests, reply, nodeReply, lease,
                   flows, phase, toUpdate, ready, budget, setUp>>

\* The pod is deleted.
KubeletDelete(p) ==
    /\ kubelet[p] = "up"
    /\ kubelet' = [kubelet EXCEPT ![p] = "teardown"]
    /\ UNCHANGED <<running, netns, veth, requests, reply, nodeReply, lease,
                   flows, phase, toUpdate, ready, budget, setUp>>

\* The sandbox dies and its netns, with the veth, is gone; kubelet then
\* tears it down.
NetnsLost(p) ==
    /\ kubelet[p] = "up"
    /\ budget.loss < MaxNetnsLoss
    /\ netns' = [netns EXCEPT ![p] = FALSE]
    /\ veth' = [veth EXCEPT ![p] = Nil]
    /\ kubelet' = [kubelet EXCEPT ![p] = "teardown"]
    /\ budget' = [budget EXCEPT !.loss = @ + 1]
    /\ UNCHANGED <<running, requests, reply, nodeReply, lease, flows, phase,
                   toUpdate, ready, setUp>>

KubeletTeardown(p) ==
    /\ phase = "running"
    /\ kubelet[p] = "teardown"
    /\ kubelet' = [kubelet EXCEPT ![p] = "deleting"]
    /\ Send("DEL", p)
    /\ UNCHANGED <<running, netns, veth, reply, nodeReply, lease, flows, phase,
                   toUpdate, ready, budget, setUp>>

\* A failed DEL is retried; a successful one removes the sandbox.
KubeletDelDone(p) ==
    /\ kubelet[p] = "deleting"
    /\ reply[p] \in Results
    /\ kubelet' = [kubelet EXCEPT ![p] = IF reply[p] = "ok" THEN "gone" ELSE "teardown"]
    /\ netns' = IF reply[p] = "ok" THEN [netns EXCEPT ![p] = FALSE] ELSE netns
    /\ veth' = IF reply[p] = "ok" THEN [veth EXCEPT ![p] = Nil] ELSE veth
    /\ running' = IF reply[p] = "ok" THEN [running EXCEPT ![p] = FALSE] ELSE running
    /\ reply' = [reply EXCEPT ![p] = Nil]
    /\ UNCHANGED <<requests, nodeReply, lease, flows, phase, toUpdate, ready,
                   budget, setUp>>

-----------------------------------------------------------------------------
Next ==
    \/ ProcessAdd
    \/ ProcessUpdate
    \/ ProcessDel
    \/ NodeStart
    \/ UpdatePod
    \/ UpdatePodDone
    \/ NodeRestart
    \/ \E p \in Pods :
         \/ KubeletAdd(p)
         \/ KubeletAddDone(p)
         \/ StatusSync(p)
         \/ KubeletDelete(p)
         \/ NetnsLost(p)
         \/ KubeletTeardown(p)
         \/ KubeletDelDone(p)

\* The worker and StartNode are goroutines that loop until they block; the
\* node process is restarted by its supervisor; kubelet reads every result,
\* retries a failed teardown in its sync loop and reports pod status.
\* Creating and deleting pods, restarts and faults are not fair.
Fairness ==
    /\ WF_vars(ProcessAdd) /\ WF_vars(ProcessUpdate) /\ WF_vars(ProcessDel)
    /\ WF_vars(NodeStart) /\ WF_vars(UpdatePod) /\ WF_vars(UpdatePodDone)
    /\ \A p \in Pods :
         /\ WF_vars(KubeletAddDone(p))
         /\ WF_vars(KubeletTeardown(p))
         /\ WF_vars(KubeletDelDone(p))
         /\ WF_vars(StatusSync(p))

Spec == Init /\ [][Next]_vars /\ Fairness

-----------------------------------------------------------------------------
(* Properties                                                              *)

TypeOK ==
    /\ kubelet \in [Pods -> {"new", "adding", "up", "teardown", "deleting", "gone"}]
    /\ running \in [Pods -> BOOLEAN]
    /\ netns \in [Pods -> BOOLEAN]
    /\ veth \in [Pods -> PodIPs \cup {Nil}]
    /\ requests \in Seq(Request)
    /\ reply \in [Pods -> Results \cup {Nil}]
    /\ nodeReply \in Results \cup {"wait", Nil}
    /\ lease \in [PodIPs -> Pods \cup {Nil}]
    /\ flows \in [PodIPs -> Pods \cup {Nil}]
    /\ phase \in {"down", "running"}
    /\ toUpdate \in Seq(Pods)
    /\ ready \in BOOLEAN
    /\ setUp \in BOOLEAN

\* No two pods kubelet runs have the same address on eth0: host-local only
\* hands out an address that teardown's ipamDel released, and a pod's lease
\* is released only by its own successful DEL, across failed setups,
\* failed teardowns, lost replies of a restart and vanished sandboxes.
UniqueAddresses ==
    \A p, q \in Pods :
        p # q /\ kubelet[p] = "up" /\ kubelet[q] = "up" /\ veth[p] # Nil
            => veth[p] # veth[q]

\* Once pods stop being created and deleted, the node is serving, and every
\* pod kubelet runs has the flows of the address on its eth0 (spec 3: the
\* flow tables are a function of the OVS port map): setup's flows, the
\* UpdatePod pass after SetupSDN re-created br0, and other pods' teardowns
\* never leave a running pod unreachable.
PodsHaveFlows ==
    <>[](/\ ready
         /\ \A p \in Pods : kubelet[p] = "up" =>
                veth[p] \in PodIPs /\ flows[veth[p]] = p)

\* Once pods stop being created and deleted, every address host-local has
\* leased belongs to a pod kubelet is adding or running (spec 7: a failed
\* request leaks no lease): setup's rollback and teardown's ipamDel, with
\* kubelet's retries, release the lease of every sandbox torn down.
LeasesReleased ==
    <>[](\A ip \in PodIPs : lease[ip] # Nil => kubelet[lease[ip]] \in {"adding", "up"})

====
