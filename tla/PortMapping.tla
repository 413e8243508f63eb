---------------------------- MODULE PortMapping ----------------------------
(***************************************************************************)
(* The gateway mapping of a Realm socket (hysteria-realm/src/portmap.rs),  *)
(* as start_realm_port_mapping of crates/hysteria/src/runtime.rs uses it.  *)
(* A server has one lease; a client with a fixed local port has one per    *)
(* connection, all of them for the same port, and a lease may still be     *)
(* removing its mapping when the next one asks for its own.                *)
(*                                                                         *)
(* Every request to the gateway runs under a timeout.  A request that was  *)
(* given up may have been carried out, may be lost, or may be carried out  *)
(* later.  The process may end at any moment, and its tasks end with it.   *)
(***************************************************************************)
EXTENDS Naturals

CONSTANT MaxLeases  \* bound: connections of the process

ASSUME MappingAssumption == MaxLeases \in Nat

Leases == 1..MaxLeases

(* What a mapping is asked for with: UPnP is tried first. *)
Mappers == {"upnp", "natpmp"}

VARIABLES
  lease,     \* [stage, by] of each lease.  stage: "idle", "upnp", "natpmp",
             \* "initial", "refused", "without", "active", "renewing",
             \* "closing", "ended"; by: the mapper it found
  dropped,   \* leases whose owner dropped them: the stop signal is sent
  forwards,  \* gateway: mappers whose mapping of the port is in force
  late,      \* requests for a mapping that nobody waits for any more
  process    \* "running", "exited"

mapVars == <<lease, dropped, forwards, late, process>>

MappingInit ==
  /\ lease = [l \in Leases |-> [stage |-> "idle", by |-> "upnp"]]
  /\ dropped = {} /\ forwards = {} /\ late = {} /\ process = "running"

Moves(l, from, to) == lease[l].stage = from /\ lease' = [lease EXCEPT ![l].stage = to]

(* A request for a mapping is answered, or given up. *)
Mapped(by) == forwards' = forwards \cup {by} /\ UNCHANGED late
GivenUp(by) ==
  \/ UNCHANGED <<forwards, late>>
  \/ Mapped(by)
  \/ late' = late \cup {by} /\ UNCHANGED forwards

-----------------------------------------------------------------------------
(* PortMappingLease::start; a client starts again when it has dropped its  *)
(* last connection, or had no lease.                                       *)
Open(l) ==
  /\ \A k \in Leases : k < l => k \in dropped \/ lease[k].stage = "without"
  /\ Moves(l, "idle", "upnp")
  /\ UNCHANGED <<dropped, forwards, late>>

(* Mapper::discover: UPnP, then NAT-PMP, each with its own timeout.  What  *)
(* a discovery that fails has mapped is not removed.                       *)
Discover(l) ==
  /\ \E by \in Mappers :
       \/ /\ lease[l].stage = by
          /\ lease' = [lease EXCEPT ![l] = [stage |-> "initial", by |-> by]]
          /\ Mapped(by)
       \/ Moves(l, by, IF by = "upnp" THEN "natpmp" ELSE "without") /\ GivenUp(by)
  /\ UNCHANGED dropped

(* The first renewal decides whether there is a lease. *)
Initial(l) ==
  /\ \/ Moves(l, "initial", "active") /\ Mapped(lease[l].by)
     \/ Moves(l, "initial", "refused") /\ GivenUp(lease[l].by)
  /\ UNCHANGED dropped

(* Mapper::close, best effort: the removal may not reach the gateway. *)
Close(l) ==
  /\ Moves(l, "refused", "without") \/ Moves(l, "closing", "ended")
  /\ forwards' \in {forwards \ {lease[l].by}, forwards}
  /\ UNCHANGED <<dropped, late>>

(* select! in the lease's task: a renewal is due, or the task is told to   *)
(* stop.  The signal is looked at between renewals only.                   *)
RenewalDue(l) == Moves(l, "active", "renewing") /\ UNCHANGED <<dropped, forwards, late>>

RenewalEnds(l) ==
  /\ Moves(l, "renewing", "active")
  /\ Mapped(lease[l].by) \/ GivenUp(lease[l].by)
  /\ UNCHANGED dropped

Stopped(l) ==
  /\ l \in dropped /\ Moves(l, "active", "closing")
  /\ UNCHANGED <<dropped, forwards, late>>

(* Mutant: the task is aborted with its lease. *)
DropAborts(l) ==
  /\ lease[l].stage \in {"active", "renewing"} /\ dropped' = dropped \cup {l}
  /\ lease' = [lease EXCEPT ![l].stage = "aborted"]
  /\ UNCHANGED <<forwards, late>>

(* PortMappingLease::drop: the task is told to stop and detached. *)
DropLease(l) ==
  /\ lease[l].stage \in {"active", "renewing"} /\ l \notin dropped
  /\ dropped' = dropped \cup {l}
  /\ UNCHANGED <<lease, forwards, late>>

(* The runtime ends: serve_server returned, and main after it, or the      *)
(* process was killed.                                                     *)
ProcessExits ==
  /\ process = "running" /\ process' = "exited"
  /\ UNCHANGED <<lease, dropped, forwards, late>>

-----------------------------------------------------------------------------
(* The gateway: a late request arrives or is lost, and a mapping that is   *)
(* not renewed runs out, for lease_seconds is finite and not zero.         *)
Arrives(by) ==
  /\ by \in late /\ late' = late \ {by}
  /\ forwards' \in {forwards \cup {by}, forwards}
  /\ UNCHANGED <<lease, dropped, process>>

Renewed(by) ==
  process = "running" /\ \E l \in Leases :
    lease[l].by = by /\ lease[l].stage \in {"initial", "refused", "active", "renewing", "closing"}

Expires(by) ==
  /\ by \in forwards /\ forwards' = forwards \ {by}
  /\ UNCHANGED <<lease, dropped, late, process>>

LeaseTask(l) == Discover(l) \/ Initial(l) \/ Close(l) \/ RenewalEnds(l)

MappingNext ==
  \/ /\ process = "running" /\ UNCHANGED process
     /\ \E l \in Leases :
          Open(l) \/ LeaseTask(l) \/ RenewalDue(l) \/ Stopped(l) \/ DropLease(l)
  \/ ProcessExits
  \/ \E by \in Mappers : Arrives(by) \/ Expires(by)

(* While the process runs its requests end by their timeouts.  Stopped is  *)
(* enabled again after every renewal and select! takes a ready branch at   *)
(* random.  A mapping nobody renews runs out.  Nobody has to drop a lease, *)
(* and the process need not end.                                           *)
MappingFairness ==
  /\ \A l \in Leases :
       /\ WF_mapVars(process = "running" /\ LeaseTask(l) /\ UNCHANGED process)
       /\ SF_mapVars(process = "running" /\ Stopped(l) /\ UNCHANGED process)
  /\ \A by \in Mappers : WF_mapVars(~Renewed(by) /\ Expires(by))

-----------------------------------------------------------------------------
(* "Owns a maintained UDP gateway mapping and removes it when dropped":    *)
(* the task of a dropped lease gets as far as its removal, unless the      *)
(* process ends first, also when it was dropped in the middle of a         *)
(* renewal.  And when no lease is left, by whichever way they ended - a    *)
(* discovery that was cut off, a first renewal that failed, a removal that *)
(* was lost, a process that exited - the port is, after a while, closed    *)
(* for good: no task goes on renewing it and no request comes back later.  *)
MappingRemoved ==
  /\ \A l \in Leases : (l \in dropped) ~> (process = "exited" \/ lease[l].stage = "ended")
  /\ (process = "exited" \/ \A l \in Leases : l \in dropped \/ lease[l].stage = "without")
       ~> [](forwards = {})
=============================================================================
