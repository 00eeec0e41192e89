---------------------------- MODULE NodeIdentity ----------------------------
(***************************************************************************)
(* How a Riak container starts (images/riak/scripts/entrypoint.sh): which  *)
(* node name it takes, whether the ring on its data volume belongs to that *)
(* name, and what it leaves behind when Riak does not come up.             *)
(*                                                                         *)
(* The kubelet rewrites /etc/hosts (truncate, then write) whenever it      *)
(* starts another container of the pod, so a lookup may find it empty; the *)
(* container may be killed between any two steps and is started again on   *)
(* the same volume; the volume may hold a ring from an image that took     *)
(* another name.  A ring is the set of its members' names.  "fqdn" is the  *)
(* pod's own, whether read from /etc/hosts or put together from            *)
(* /etc/resolv.conf.                                                       *)
(***************************************************************************)
EXTENDS Integers, FiniteSets

CONSTANTS Retries,      \* RIAK_HOSTS_RETRIES
          Keep,         \* RIAK_CRASH_LOG_KEEP
          Rings,        \* what the volume may hold at first
          MaxRewrites,  \* rewrites of /etc/hosts
          MaxFailures   \* times that Riak or the container dies

VARIABLES
    env,        \* [managed: RIAK_CLUSTER_NAME is set, given: RIAK_NODE is set,
                \*  named: POD_NAME is set, search: resolv.conf has the namespace's domain]
    hosts,      \* /etc/hosts holds the pod's line
    readable,   \* the ring file can be read by the script
    ring,       \* the newest ring file: its members, {} without one
    aside,      \* rings moved aside
    logs,       \* saved crash logs
    pc,         \* "down", "lookup", "check", "start", "wait", "up", "prune"
    name,       \* RIAK_NODE
    tries,      \* reads of /etc/hosts so far
    stopping,   \* TERMINATING
    rewrites, failures

bootVars == <<pc, name, tries, stopping>>
vars == <<env, hosts, readable, ring, aside, logs, bootVars, rewrites, failures>>

NodeNames == {"fqdn", "short", "ip", "given"}
Members == NodeNames \cup {"peer"}

ASSUME IdentityAssumption ==
    /\ Retries \in Nat /\ Keep \in Nat /\ MaxRewrites \in Nat /\ MaxFailures \in Nat
    /\ Rings \subseteq SUBSET Members

\* One type invariant; Keep crash logs are on the volume at most, and one more
\* while a save goes on and for each failure that may have cut one off.
TypeOK ==
    /\ env \in [managed: BOOLEAN, given: BOOLEAN, named: BOOLEAN, search: BOOLEAN]
    /\ {hosts, readable, stopping} \subseteq BOOLEAN
    /\ ring \subseteq Members
    /\ aside \subseteq SUBSET Members
    /\ logs \in 0 .. Keep + failures + 1 /\ (pc # "prune" => logs <= Keep + failures)
    /\ pc \in {"down", "lookup", "check", "start", "wait", "up", "prune"}
    /\ name \in NodeNames \cup {""} /\ tries \in 0 .. Retries
    /\ rewrites \in 0 .. MaxRewrites /\ failures \in 0 .. MaxFailures

Init ==
    /\ env \in [managed: BOOLEAN, given: BOOLEAN, named: BOOLEAN, search: BOOLEAN]
    /\ env.managed => env.named
    /\ hosts \in BOOLEAN /\ readable \in BOOLEAN
    /\ ring \in Rings /\ aside = {} /\ logs = 0
    /\ pc = "down" /\ name = "" /\ tries = 0 /\ stopping = FALSE
    /\ rewrites = 0 /\ failures = 0

-----------------------------------------------------------------------------
(* Node identity *)

MustBeFQDN == env.managed /\ ~env.given

MutFallbackName == IF env.named THEN "short" ELSE "ip"
\* The default name when /etc/hosts has none; "" refuses the start.
FallbackName ==
    CASE env.managed /\ env.named /\ env.search -> "fqdn"
      [] ~(env.managed /\ env.named /\ env.search) /\ MustBeFQDN -> ""
      [] OTHER -> IF env.named THEN "short" ELSE "ip"

Exit == pc' = "down" /\ name' = "" /\ tries' = 0 /\ stopping' = FALSE
Take(n) == /\ pc' = "check" /\ name' = IF env.given THEN "given" ELSE n
           /\ UNCHANGED <<tries, stopping>>

StartContainer ==
    /\ pc = "down"
    /\ pc' = "lookup" /\ UNCHANGED <<name, tries, stopping>>
    /\ UNCHANGED <<env, hosts, readable, ring, aside, logs, rewrites, failures>>

\* lookup_hosts_fqdn, read again after a pause while a managed pod finds nothing
Lookup ==
    /\ pc = "lookup"
    /\ IF hosts THEN Take("fqdn")
       ELSE IF MustBeFQDN /\ tries + 1 < Retries
            THEN tries' = tries + 1 /\ UNCHANGED <<pc, name, stopping>>
            ELSE IF FallbackName # "" THEN Take(FallbackName) ELSE Exit
    /\ UNCHANGED <<env, hosts, readable, ring, aside, logs, rewrites, failures>>

-----------------------------------------------------------------------------
(* The persisted ring *)

Continue == pc' = "start" /\ UNCHANGED <<name, tries, stopping>>

MutCheckRingIdentityKeeps ==
    /\ pc = "check" /\ Continue
    /\ UNCHANGED <<env, hosts, readable, ring, aside, logs, rewrites, failures>>
MutCheckRingIdentityRefuses ==
    /\ pc = "check"
    /\ IF ring = {} \/ ~readable \/ name \in ring THEN Continue ELSE Exit
    /\ UNCHANGED <<env, hosts, readable, ring, aside, logs, rewrites, failures>>
MutCheckRingIdentity ==
    /\ pc = "check"
    /\ \/ /\ ring = {} \/ ~readable \/ name \in ring
          /\ Continue /\ UNCHANGED <<ring, aside>>
       \/ /\ ring # {} /\ readable /\ name \notin ring
          /\ Continue /\ ring' = {} /\ aside' = aside \cup {ring}
    /\ UNCHANGED <<env, hosts, readable, logs, rewrites, failures>>
\* check_ring_identity: another node's standalone ring is moved aside, its
\* membership in a cluster is not touched.
CheckRingIdentity ==
    /\ pc = "check"
    /\ \/ /\ ring = {} \/ ~readable \/ name \in ring
          /\ Continue /\ UNCHANGED <<ring, aside>>
       \/ /\ ring # {} /\ readable /\ name \notin ring /\ Cardinality(ring) <= 1
          /\ Continue /\ ring' = {} /\ aside' = aside \cup {ring}
       \/ /\ readable /\ name \notin ring /\ Cardinality(ring) > 1
          /\ Exit /\ UNCHANGED <<ring, aside>>
    /\ UNCHANGED <<env, hosts, readable, logs, rewrites, failures>>

-----------------------------------------------------------------------------
(* Riak *)

\* External: Riak boots from the ring on disk, or makes a ring of its own, and
\* cannot boot from one that does not list it.
CanBoot == ring = {} \/ name \in ring

StartRiak ==
    /\ pc = "start"
    /\ pc' = "wait" /\ UNCHANGED <<name, tries, stopping>>
    /\ ring' = IF ring = {} THEN {name} ELSE ring
    /\ UNCHANGED <<env, hosts, readable, aside, logs, rewrites, failures>>

\* save_crash_logs makes a directory for this run, or gives up when it cannot ...
save_crash_logs ==
    \/ logs' = logs + 1 /\ pc' = "prune" /\ UNCHANGED <<name, tries, stopping>>
    \/ Exit /\ UNCHANGED logs

MutPruneCrashLogs ==
    /\ pc = "prune" /\ Exit
    /\ UNCHANGED <<env, hosts, readable, ring, aside, logs, rewrites, failures>>
\* ... and then removes the oldest over Keep, and the script exits.
PruneCrashLogs ==
    /\ pc = "prune" /\ Exit
    /\ logs' = IF logs > Keep THEN Keep ELSE logs
    /\ UNCHANGED <<env, hosts, readable, ring, aside, rewrites, failures>>

Ready ==
    /\ pc = "wait" /\ CanBoot /\ ~stopping
    /\ pc' = "up" /\ UNCHANGED <<name, tries, stopping>>
    /\ UNCHANGED <<env, hosts, readable, ring, aside, logs, rewrites, failures>>

\* Riak exits before it is ready, also when it was told to: the logs are kept.
BootFails ==
    /\ pc = "wait" /\ (stopping \/ ~CanBoot)
    /\ save_crash_logs
    /\ UNCHANGED <<env, hosts, readable, ring, aside, rewrites, failures>>

\* External: the operator joins the node to its peers.
Join ==
    /\ pc = "up" /\ "peer" \notin ring
    /\ ring' = ring \cup {"peer"}
    /\ UNCHANGED <<env, hosts, readable, aside, logs, bootVars, rewrites, failures>>

Failure == failures < MaxFailures /\ failures' = failures + 1

\* Riak crashes, or RIAK_START_TIMEOUT passes before it is ready.
Crash ==
    /\ Failure /\ pc \in {"wait", "up"} /\ ~stopping
    /\ save_crash_logs
    /\ UNCHANGED <<env, hosts, readable, ring, aside, rewrites>>

\* The container is killed, or its machine fails.
Kill ==
    /\ Failure /\ pc # "down" /\ Exit
    /\ UNCHANGED <<env, hosts, readable, ring, aside, logs, rewrites>>

\* SIGTERM: the trap stops Riak.
Terminate ==
    /\ Failure /\ pc \in {"wait", "up"} /\ ~stopping
    /\ stopping' = TRUE /\ UNCHANGED <<pc, name, tries>>
    /\ UNCHANGED <<env, hosts, readable, ring, aside, logs, rewrites>>

Stopped ==
    /\ pc = "up" /\ stopping /\ Exit
    /\ UNCHANGED <<env, hosts, readable, ring, aside, logs, rewrites, failures>>

\* External: the kubelet truncates and writes /etc/hosts.
TruncateHosts ==
    /\ hosts /\ rewrites < MaxRewrites
    /\ hosts' = FALSE /\ rewrites' = rewrites + 1
    /\ UNCHANGED <<env, readable, ring, aside, logs, bootVars, failures>>
WriteHosts ==
    /\ ~hosts /\ hosts' = TRUE
    /\ UNCHANGED <<env, readable, ring, aside, logs, bootVars, rewrites, failures>>

Script == \/ StartContainer \/ Lookup \/ CheckRingIdentity \/ StartRiak
          \/ Ready \/ BootFails \/ PruneCrashLogs \/ Stopped

Next == \/ Script \/ Join \/ Crash \/ Kill \/ Terminate \/ TruncateHosts \/ WriteHosts

Spec == Init /\ [][Next]_vars

\* The script runs, the kubelet restarts a container that exited and finishes
\* a rewrite it began.
FairSpec == Spec /\ WF_vars(Script) /\ WF_vars(WriteHosts)

-----------------------------------------------------------------------------
(* Correctness *)

\* A pod of an operator-managed cluster never runs Riak, and never persists a
\* ring, under any name but its FQDN: neither an empty /etc/hosts nor a kill
\* at any point makes it fall back to a short name (the cause of issue #59).
OnlyUnderFQDN == MustBeFQDN /\ pc \in {"check", "start", "wait", "up"} => name = "fqdn"

\* Riak is never started from a ring that does not list it, which would crash
\* it on every start, unless the script could not read the ring
\* (check_ring_identity).
BootsFromOwnRing == pc \in {"start", "wait", "up"} /\ readable => CanBoot

\* Membership of a cluster is never lost: a ring with several members stays
\* where it is, whatever name the container takes and however often it is
\* restarted (check_ring_identity moves only standalone rings).
MembershipKept ==
    [][Cardinality(ring) > 1 => ring \subseteq ring']_vars

\* A managed pod whose volume is empty, its own, or another name's standalone
\* ring comes up, and stays up once nothing fails any more, although it may
\* have found /etc/hosts empty or have been cut off between moving the old
\* ring aside and starting Riak.
ComesUp ==
    /\ MustBeFQDN /\ readable
    /\ "fqdn" \in ring \/ Cardinality(ring) <= 1
    => <>[](pc = "up" /\ name = "fqdn" /\ "fqdn" \in ring)

=============================================================================
