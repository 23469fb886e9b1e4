---------------------------- MODULE PortMapping ----------------------------
(***************************************************************************)
(* The mapping of the worker's port on a router (UPnP) or a VPN gateway    *)
(* (NAT-PMP): a bootstrap task that discovers and maps in a thread, a      *)
(* renewal loop against the lease, a watch of the external address, and    *)
(* the stop at shutdown.  main.py starts at most one of the two services.  *)
(*                                                                         *)
(* Source: src/src/services/upnp_service.py, natpmp_service.py, main.py.   *)
(*                                                                         *)
(* Time passes in units, Lease of them to a lease; a call in a thread      *)
(* takes less than a unit, and cancelling the task that waits for a thread *)
(* does not stop the thread.                                               *)
(***************************************************************************)
EXTENDS Integers, FiniteSets

CONSTANTS
    Ports,   \* the rungs of the conflict ladder (the code has five)
    Lease    \* a granted lease, in units; a loop renews after half of it

ASSUME PortAssumption ==
    /\ Ports \subseteq Nat \ {0}
    /\ Lease \in Nat \ {0} /\ Lease % 2 = 0

VARIABLES
    proto,    \* "upnp" or "natpmp"
    foreign,  \* the rungs other hosts have mapped
    router,   \* units left of our mapping of a port; Forever for a lease of zero
    wan,      \* the router's external address
    svc,      \* the service's state record
    boot,     \* the bootstrap task, and what its thread found
    threads,  \* the blocking calls in progress
    renewal,  \* the renewal loop
    watch,    \* the address watch
    stop      \* the stop() of the shutdown

portVars == <<proto, foreign, router, wan, svc, boot, threads, renewal, watch, stop>>

Forever == -1
MaxRenewalFailures == 3
\* Mutant: the loop waits for the whole lease.
WholeLease == Lease
\* (The code's floors of 30 and 15 seconds concern leases shorter than twice that.)
Interval == Lease \div 2
\* After a failed renewal the loop sleeps for a minute (upnp) or for at most the
\* interval (natpmp), and then for the interval again.
Pause == IF proto = "upnp" THEN 1 ELSE Interval

Thread(call, p) == [call |-> call, port |-> p]
NoLoop == [pc |-> "none", left |-> 0, fails |-> 0, got |-> 0]
Sleeping(fails) == [pc |-> "sleep", left |-> Interval, fails |-> fails, got |-> 0]

PortTypeOK ==
    /\ proto \in {"upnp", "natpmp"}
    /\ foreign \subseteq Ports
    /\ router \in [Ports -> {Forever} \cup 0 .. Lease]
    /\ wan \in 1 .. 2
    /\ svc \in [status : {"disabled", "discovering", "mapped", "failed", "closing"},
                port : {0} \cup Ports, ip : 0 .. 2]
    /\ boot \in [pc : {"none", "thread", "back"}, port : {0} \cup Ports,
                 lease : {Forever, Lease}, ip : 0 .. 2]
    /\ threads \subseteq [call : {"discover", "renew", "release"}, port : {0} \cup Ports]
    /\ renewal \in [pc : {"none", "sleep", "call", "back", "pause"}, left : 0 .. Lease,
                    fails : 0 .. MaxRenewalFailures - 1, got : {0} \cup Ports]
    /\ watch \in {"none", "sleep", "call"}
    /\ stop \in [pc : {"no", "release", "done", "late"}, port : {0} \cup Ports]

PortInit ==
    /\ proto \in {"upnp", "natpmp"}
    /\ foreign \in SUBSET Ports
    /\ router = [p \in Ports |-> 0]
    /\ wan = 1
    /\ svc = [status |-> "disabled", port |-> 0, ip |-> 0]
    /\ boot = [pc |-> "none", port |-> 0, lease |-> Lease, ip |-> 0]
    /\ threads = {}
    /\ renewal = NoLoop
    /\ watch = "none"
    /\ stop = [pc |-> "no", port |-> 0]

\* The lifespan starts the service once.
Start ==
    /\ svc.status = "disabled" /\ stop.pc = "no"
    /\ svc' = [svc EXCEPT !.status = "discovering"]
    /\ boot' = [boot EXCEPT !.pc = "thread"]
    /\ threads' = threads \cup {Thread("discover", 0)}
    /\ UNCHANGED <<proto, foreign, router, wan, renewal, watch, stop>>

\* _mark_failed writes the state from the thread, without the lock.
MarkFailed == svc' = [svc EXCEPT !.status = "failed"]

\* A thread that comes back wakes its task if that is still there.
Found(p, lease, ip) ==
    /\ threads' = threads \ {Thread("discover", 0)}
    /\ boot' = IF boot.pc = "thread"
               THEN [pc |-> "back", port |-> p, lease |-> lease, ip |-> ip]
               ELSE boot

\* The ports addportmapping may end at: a conflict or a refusal leads to the next.
Ladder == Ports \ foreign

\* No router, or one that maps nothing.
UpnpNoRouter ==
    /\ proto = "upnp" /\ Thread("discover", 0) \in threads
    /\ MarkFailed
    /\ threads' = threads \ {Thread("discover", 0)}
    /\ boot' = IF boot.pc = "thread" THEN [boot EXCEPT !.pc = "none"] ELSE boot
    /\ UNCHANGED <<proto, foreign, router, wan, renewal, watch, stop>>

\* The router maps a port for the lease, or, if it takes no leases, for good.
UpnpMaps ==
    /\ proto = "upnp" /\ Thread("discover", 0) \in threads
    /\ \E p \in Ladder, lease \in {Lease, Forever}, ip \in {0, wan} :
          /\ router' = [router EXCEPT ![p] = lease]
          /\ Found(p, lease, ip)
    /\ UNCHANGED <<proto, foreign, wan, svc, renewal, watch, stop>>

NatNoGateway ==
    /\ proto = "natpmp" /\ Thread("discover", 0) \in threads
    /\ MarkFailed
    /\ threads' = threads \ {Thread("discover", 0)}
    /\ boot' = IF boot.pc = "thread" THEN [boot EXCEPT !.pc = "none"] ELSE boot
    /\ UNCHANGED <<proto, foreign, router, wan, renewal, watch, stop>>

\* The thread itself writes MAPPED.
NatMaps ==
    /\ proto = "natpmp" /\ Thread("discover", 0) \in threads
    /\ \E p \in Ladder, ip \in {0, wan} :
          /\ router' = [router EXCEPT ![p] = Lease]
          /\ svc' = [status |-> "mapped", port |-> p, ip |-> ip]
          /\ Found(p, Lease, ip)
    /\ UNCHANGED <<proto, foreign, wan, renewal, watch, stop>>

UpnpBootstrapped ==
    /\ proto = "upnp" /\ boot.pc = "back"
    /\ boot' = [boot EXCEPT !.pc = "none"]
    /\ \/ svc.status = "closing" /\ UNCHANGED <<svc, renewal, watch>>
       \/ /\ svc.status # "closing"
          /\ svc' = [status |-> "mapped", port |-> boot.port, ip |-> boot.ip]
          /\ renewal' = IF boot.lease = Forever THEN NoLoop ELSE Sleeping(0)
          /\ watch' = "sleep"
    /\ UNCHANGED <<proto, foreign, router, wan, threads, stop>>

NatBootstrapped ==
    /\ proto = "natpmp" /\ boot.pc = "back"
    /\ boot' = [boot EXCEPT !.pc = "none"]
    /\ IF svc.status = "mapped" THEN renewal' = Sleeping(0) /\ watch' = "sleep"
                                ELSE UNCHANGED <<renewal, watch>>
    /\ UNCHANGED <<proto, foreign, router, wan, svc, threads, stop>>

\* The loop wakes; it ends if the mapping is no longer there to renew.
RenewalWakes ==
    /\ renewal.pc = "sleep" /\ renewal.left = 0
    /\ IF svc.status # "mapped" \/ svc.port = 0
       THEN renewal' = NoLoop /\ UNCHANGED threads
       ELSE /\ renewal' = [renewal EXCEPT !.pc = "call"]
            /\ threads' = threads \cup {Thread("renew", svc.port)}
    /\ UNCHANGED <<proto, foreign, router, wan, svc, boot, watch, stop>>

RenewalAnswer(p) ==
    renewal' = IF renewal.pc = "call" THEN [renewal EXCEPT !.pc = "back", !.got = p]
               ELSE renewal

\* The thread of a renewal gives the mapping a new lease; a NAT-PMP gateway may
\* move it to another port.
RenewalGranted ==
    \E t \in threads, p \in Ladder :
        /\ t.call = "renew" /\ (proto = "upnp" => p = t.port)
        /\ threads' = threads \ {t}
        /\ router' = [router EXCEPT ![t.port] = 0, ![p] = Lease]
        /\ RenewalAnswer(p)
        /\ UNCHANGED <<proto, foreign, wan, svc, boot, watch, stop>>

RenewalRefused ==
    \E t \in threads :
        /\ t.call = "renew"
        /\ threads' = threads \ {t}
        /\ RenewalAnswer(0)
        /\ UNCHANGED <<proto, foreign, router, wan, svc, boot, watch, stop>>

Renewed ==
    /\ renewal.pc = "back" /\ renewal.got # 0
    /\ svc' = IF proto = "natpmp" THEN [svc EXCEPT !.port = renewal.got] ELSE svc
    /\ renewal' = Sleeping(0)
    /\ UNCHANGED <<proto, foreign, router, wan, boot, threads, watch, stop>>

\* Mutant: the loop gives up one failure later.
GivesUpLater(fails) == fails > MaxRenewalFailures
GivesUp(fails) == fails >= MaxRenewalFailures
NotRenewed ==
    /\ renewal.pc = "back" /\ renewal.got = 0
    /\ LET fails == renewal.fails + 1 IN
       IF GivesUp(fails)
       THEN MarkFailed /\ renewal' = NoLoop
       ELSE /\ renewal' = [renewal EXCEPT !.pc = "pause", !.left = Pause, !.fails = fails]
            /\ UNCHANGED svc
    /\ UNCHANGED <<proto, foreign, router, wan, boot, threads, watch, stop>>

RenewalPaused ==
    /\ renewal.pc = "pause" /\ renewal.left = 0
    /\ renewal' = Sleeping(renewal.fails)
    /\ UNCHANGED <<proto, foreign, router, wan, svc, boot, threads, watch, stop>>

\* Every five minutes, whatever a lease is.
WatchWakes ==
    /\ watch = "sleep"
    /\ watch' = IF svc.status = "mapped" THEN "call" ELSE "none"
    /\ UNCHANGED <<proto, foreign, router, wan, svc, boot, threads, renewal, stop>>

WatchReads ==
    /\ watch = "call"
    /\ watch' = "sleep"
    /\ svc' \in {svc, [svc EXCEPT !.ip = wan]}
    /\ UNCHANGED <<proto, foreign, router, wan, boot, threads, renewal, stop>>

\* stop() takes the port it will release, and cancels the tasks.
Stop ==
    /\ stop.pc = "no" /\ svc.status # "disabled"
    /\ svc' = [svc EXCEPT !.status = "closing"]
    /\ renewal' = NoLoop /\ watch' = "none" /\ boot' = [boot EXCEPT !.pc = "none"]
    /\ stop' = [pc |-> "release", port |-> svc.port]
    /\ threads' = threads \cup IF svc.port = 0 THEN {} ELSE {Thread("release", svc.port)}
    /\ UNCHANGED <<proto, foreign, router, wan>>

ReleaseThread ==
    \E t \in threads, deleted \in BOOLEAN :
        /\ t.call = "release"
        /\ threads' = threads \ {t}
        /\ router' = IF deleted THEN [router EXCEPT ![t.port] = 0] ELSE router
        /\ UNCHANGED <<proto, foreign, wan, svc, boot, renewal, watch, stop>>

Stopped ==
    /\ stop.pc = "release" /\ \A t \in threads : t.call # "release"
    /\ svc' = [status |-> "disabled", port |-> 0, ip |-> svc.ip]
    /\ stop' = [stop EXCEPT !.pc = "done"]
    /\ UNCHANGED <<proto, foreign, router, wan, boot, threads, renewal, watch>>

\* The shutdown waits five seconds for stop() and no longer.
StopTooSlow ==
    /\ stop.pc = "release"
    /\ stop' = [stop EXCEPT !.pc = "late"]
    /\ UNCHANGED <<proto, foreign, router, wan, svc, boot, threads, renewal, watch>>

WanChanges ==
    /\ wan' = 3 - wan
    /\ UNCHANGED <<proto, foreign, router, svc, boot, threads, renewal, watch, stop>>

\* A unit of time passes once everything due has been done.
Left(n) == IF n > 0 THEN n - 1 ELSE n
PortTick ==
    /\ \A t \in threads : t.call = "discover"
    /\ boot.pc # "back" /\ watch # "call"
    /\ ~ (renewal.pc = "back" \/ (renewal.pc \in {"sleep", "pause"} /\ renewal.left = 0))
    /\ router' = [p \in Ports |-> Left(router[p])]
    /\ renewal' = [renewal EXCEPT !.left = Left(@)]
    /\ UNCHANGED <<proto, foreign, wan, svc, boot, threads, watch, stop>>

PortNext ==
    \/ Start \/ UpnpNoRouter \/ UpnpMaps \/ NatNoGateway \/ NatMaps
    \/ UpnpBootstrapped \/ NatBootstrapped
    \/ RenewalWakes \/ RenewalGranted \/ RenewalRefused \/ Renewed \/ NotRenewed
    \/ RenewalPaused \/ WatchWakes \/ WatchReads
    \/ Stop \/ ReleaseThread \/ Stopped \/ StopTooSlow \/ WanChanges \/ PortTick

PortSpec == PortInit /\ [][PortNext]_portVars

(***************************************************************************)
(* Properties                                                              *)
(***************************************************************************)
Mapped(p) == router[p] # 0

\* A service that says it is mapped, and whose last renewal did not fail, is mapped
\* at the port it shows, whatever the gateway did to the port and however often
\* renewals failed before.
MappedIsLive ==
    svc.status = "mapped" /\ stop.pc = "no" /\ renewal.fails = 0 /\ renewal.pc # "back"
    => Mapped(svc.port)

(***************************************************************************)
(* Claims of the repository that the code does not keep (README, section 6).*)
(***************************************************************************)
\* "Periodically refresh the port mapping before the router's lease expires"
\* (upnp_service.py:980), three failures tolerated.
LeaseKept ==
    svc.status = "mapped" /\ stop.pc = "no" /\ renewal.pc # "back" => Mapped(svc.port)

\* "If stop() ran during discovery, honour the teardown request"
\* (upnp_service.py:595): a stop leaves nothing mapped for good.
StopUnmaps == stop.pc = "done" /\ threads = {} => \A p \in Ports : router[p] # Forever

\* A stopped service stays disabled.
StaysDisabled == [][stop.pc = "done" => svc'.status = "disabled"]_portVars
=============================================================================
